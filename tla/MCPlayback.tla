----------------------------- MODULE MCPlayback -----------------------------
(***************************************************************************)
(* Playback with one AirPlay and one DLNA session and two handlers; the    *)
(* smallest channel that can be full while commands for several            *)
(* generations wait.                                                       *)
(***************************************************************************)
EXTENDS Playback, TLC

CONSTANTS air, dlna, c1, c2

MCSession == {air, dlna}
MCProtocolOf == air :> "airplay" @@ dlna :> "dlna"
MCCaller == {c1, c2}
MCPolicies == {"latest", "lock", "priority"}
MCPreferences == {"airplay"}
=============================================================================
