-------------------------- MODULE MCAirPlayPlayback --------------------------
(* Two sessions that replace each other over a channel of one command, so    *)
(* that senders meet a full channel.                                         *)
EXTENDS AirPlayPlayback, TLC

CONSTANTS a1, a2

TwoSessions == {a1, a2}
AirPlayOnly == [s \in Session |-> "airplay"]
LatestPolicy == {"latest"}
AnyPreference == {"airplay"}
Symmetry == Permutations(TwoSessions)

\* Without what no guard and no property reads, the clock and the preference among
\* it; of the history of given-up commands only whether it is about this generation.
View == <<active, generation, owned, once, connOpen, listening, leaving, handler, records,
          call, commands, loopAt, cmd, attempt, device, closed, speaker, abandoned = generation>>
=============================================================================
