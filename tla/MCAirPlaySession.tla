-------------------------- MODULE MCAirPlaySession --------------------------
(***************************************************************************)
(* AirPlaySession with two connections, which close each other.            *)
(***************************************************************************)
EXTENDS AirPlaySession

CONSTANTS a1, a2

TwoSessions == {a1, a2}
MCProtocolOf == [s \in Session |-> "airplay"]
TimelyPolicies == {"latest", "lock", "idle"}
LatestPolicy == {"latest"}
MCPreferences == {"airplay"}

\* Neither the history of owners nor, as RECORDs are bounded, the generation is
\* read here; without them fewer states differ.
View == <<policy, preferred, active, idleFor, owned, once, connOpen,
          serverVars, handler, records>>
=============================================================================
