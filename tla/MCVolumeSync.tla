---------------------------- MODULE MCVolumeSync ----------------------------
(***************************************************************************)
(* VolumeSync with AirPlay sessions under the policy "latest", one volume  *)
(* in range and one above it.  Three calls of SetVolume are the least that *)
(* leave one waiting before a full channel while the worker is in a call   *)
(* of the speaker.  And the scales of VolumeCurve for every volume and     *)
(* every slider position.                                                  *)
(***************************************************************************)
EXTENDS VolumeSync, VolumeCurve, TLC

CONSTANTS a1, a2, t1

OneSession == {a1}
TwoSessions == {a1, a2}
MCProtocolOf == [s \in Session |-> "airplay"]
MCPolicies == {"latest"}
MCPreferences == {"airplay"}
OneSetter == {t1}
MCRequested == {30, 101}

ASSUME EveryVolumeKept == \A v \in Volumes : KeepsVolume(v)
ASSUME EveryStepLouder == \A db \in (Mute - 1)..100 : Parsed(db) <= Parsed(db + 1)
=============================================================================
