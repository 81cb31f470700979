--------------------------- MODULE MCDlnaRenderer ---------------------------
(***************************************************************************)
(* DlnaRenderer with two or three media sessions, two or three SOAP        *)
(* handlers and an AirPlay session.                                        *)
(***************************************************************************)
EXTENDS DlnaRenderer, TLC

CONSTANTS d1, d2, d3, a1, h1, h2, h3, p1

TwoMedia == {d1, d2}
ThreeMedia == {d1, d2, d3}
WithAirPlay == ThreeMedia \union {a1}
WithAirPlay2 == TwoMedia \union {a1}
MCProtocolOf == [s \in Session |-> IF s = a1 THEN "airplay" ELSE "dlna"]
MCPolicies == {"latest", "lock"}
LatestPolicy == {"latest"}
MCProxy == {p1}
AirPlayPreferred == {"airplay"}
TwoHandlers == {h1, h2}
ThreeHandlers == {h1, h2, h3}
UpToTwo == {1, 2}
UpToThree == {1, 2, 3}
Symmetry == Permutations(Media) \union Permutations(Handler)

\* Of the history of owners only this is read; without the rest fewer states differ.
View == <<policy, preferred, active, generation, idleFor, atOnce, serverVars, call, proxy,
          PreemptedByAirPlay>>
=============================================================================
