------------------------- MODULE MCRenderingControl -------------------------
(***************************************************************************)
(* RenderingControl with two SOAP handlers, an AirPlay session and a DLNA  *)
(* one, under every policy.                                                *)
(***************************************************************************)
EXTENDS RenderingControl, TLC

CONSTANTS a1, d1, h1, h2

MCSession == {a1, d1}
MCProtocolOf == a1 :> "airplay" @@ d1 :> "dlna"
MCPolicies == {"latest", "lock", "idle", "priority"}
MCPreferences == {"airplay"}
MCHandler == {h1, h2}
MCDesired == {130, NoVolume}
\* Below the knee and above it.
MCSliders == {-2640, -1410}
MCRemembered == {20}
=============================================================================
