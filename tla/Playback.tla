------------------------------ MODULE Playback ------------------------------
(***************************************************************************)
(* The coordinator of src/core/playback/coordinator.go with the arbiter it *)
(* asks and the speaker it drives.  RTSP and SOAP handlers (Caller) acquire *)
(* and release the speaker and put one command for each change of owner    *)
(* into a bounded channel; one goroutine takes the commands out and calls  *)
(* the speaker through the cloud, which may fail, be slow, or act and then *)
(* lose its answer.  Volume is the subject of VolumeSync.                  *)
(***************************************************************************)
EXTENDS SourceManager

CONSTANTS
    Caller,     \* the goroutines that call Activate and Deactivate
    QueueCap    \* capacity of c.commands

ASSUME QueueCapAssumption == QueueCap \in Nat \ {0}

MaxAttempts == 3

VARIABLES
    call,       \* what each caller has still to do in its present call
    commands,   \* c.commands, the channel
    loopAt,     \* where controlLoop is
    cmd,        \* the command it handles
    attempt,    \* which attempt at a play command this is
    device,     \* whether there is a speaker and a device id
    closed,     \* whether c.done is closed
    speaker,    \* what the speaker plays: a session's stream, or nothing
    shown,      \* history: generation of the last command that took effect
    abandoned   \* history: generation of the last command given up

coordinatorVars == <<call, commands, loopAt, cmd, attempt, device, closed>>
loopVars == <<loopAt, cmd, attempt>>
speakerVars == <<speaker, shown, abandoned>>
vars == <<managerVars, coordinatorVars, speakerVars>>

Command == [kind : {"play", "pause"}, session : Session, generation : Nat \ {0}]
PlayCommand(s, g) == [kind |-> "play", session |-> s, generation |-> g]
PauseCommand(s, g) == [kind |-> "pause", session |-> s, generation |-> g]
NoCommand == [kind |-> "none"]

\* A call in progress: the preempted session whose Cancel is still to be run,
\* and the commands still to be put into the channel.
Call == [victim : SessionOrNone, todo : Seq(Command)]
NoCall == [victim |-> NoSession, todo |-> <<>>]

TypeOK ==
    /\ ManagerTypeOK
    /\ call \in [Caller -> Call]
    /\ commands \in Seq(Command) /\ Len(commands) <= QueueCap
    /\ loopAt \in {"select", "check", "call", "backoff", "exited"}
    /\ cmd \in Command \union {NoCommand}
    /\ loopAt \in {"check", "call", "backoff"} => cmd \in Command
    /\ attempt \in 0..MaxAttempts
    /\ loopAt \in {"check", "call"} => attempt >= 1
    /\ loopAt = "backoff" => attempt \in 1..(MaxAttempts - 1)
    /\ device \in BOOLEAN
    /\ closed \in BOOLEAN
    /\ speaker \in SessionOrNone
    /\ shown \in Nat
    /\ abandoned \in Nat

Init ==
    /\ ManagerInit
    /\ call = [c \in Caller |-> NoCall]
    /\ commands = <<>>
    /\ loopAt = "select"
    /\ cmd = NoCommand
    /\ attempt = 0
    /\ device \in BOOLEAN
    /\ closed = FALSE
    /\ speaker = NoSession
    /\ shown = 0
    /\ abandoned = 0

-----------------------------------------------------------------------------
\* The callers.

\* Activate, up to the decision of the arbiter.
Activate(c, s) ==
    /\ call[c] = NoCall
    /\ \/ /\ AcquireAgain(s)
          /\ call' = [call EXCEPT ![c] =
                        [victim |-> NoSession, todo |-> <<PlayCommand(s, generation)>>]]
       \/ /\ AcquireNew(s)
          /\ call' = [call EXCEPT ![c] =
                        [victim |-> active, todo |-> <<PlayCommand(s, generation')>>]]
       \/ Reject(s) /\ UNCHANGED call
    /\ UNCHANGED <<commands, loopVars, device, closed, speakerVars>>

\* decision.Replaced.Cancel().  It closes the preempted session, and if that
\* session still counts itself active it calls Deactivate: of no effect unless
\* the session has become the owner again since it was preempted.
CancelReplaced(c) ==
    LET v == call[c].victim IN
    /\ v # NoSession
    /\ \/ /\ Release(v)
          /\ call' = [call EXCEPT ![c] =
                        [victim |-> NoSession,
                         todo |-> <<PauseCommand(v, generation')>> \o call[c].todo]]
       \/ /\ UNCHANGED managerVars
          /\ call' = [call EXCEPT ![c] = [victim |-> NoSession, todo |-> call[c].todo]]
    /\ UNCHANGED <<commands, loopVars, device, closed, speakerVars>>

\* Deactivate, up to the answer of the arbiter; nothing if not the owner.
Deactivate(c, s) ==
    /\ call[c] = NoCall
    /\ \/ /\ Release(s)
          /\ call' = [call EXCEPT ![c] =
                        [victim |-> NoSession, todo |-> <<PauseCommand(s, generation')>>]]
       \/ active # s /\ UNCHANGED <<managerVars, call>>
    /\ UNCHANGED <<commands, loopVars, device, closed, speakerVars>>

\* Variant: with a full channel the command is dropped, as select with a
\* default would do.
EnqueueDrops(c) ==
    /\ call[c].victim = NoSession
    /\ call[c].todo # <<>>
    /\ commands' = IF Len(commands) < QueueCap THEN Append(commands, Head(call[c].todo))
                                               ELSE commands
    /\ call' = [call EXCEPT ![c] = [victim |-> NoSession, todo |-> Tail(call[c].todo)]]
    /\ UNCHANGED <<managerVars, loopVars, device, closed, speakerVars>>

\* Variant: the send does not watch c.done.
EnqueueWaits(c) ==
    /\ call[c].victim = NoSession
    /\ call[c].todo # <<>>
    /\ Len(commands) < QueueCap
    /\ commands' = Append(commands, Head(call[c].todo))
    /\ call' = [call EXCEPT ![c] = [victim |-> NoSession, todo |-> Tail(call[c].todo)]]
    /\ UNCHANGED <<managerVars, loopVars, device, closed, speakerVars>>

\* enqueue: waits for room in the channel, or for the coordinator to close.
Enqueue(c) ==
    /\ call[c].victim = NoSession
    /\ call[c].todo # <<>>
    /\ \/ /\ Len(commands) < QueueCap
          /\ commands' = Append(commands, Head(call[c].todo))
       \/ closed /\ UNCHANGED commands
    /\ call' = [call EXCEPT ![c] = [victim |-> NoSession, todo |-> Tail(call[c].todo)]]
    /\ UNCHANGED <<managerVars, loopVars, device, closed, speakerVars>>

\* Touch, and the passing of time, reach only the arbiter.
ManagerStep ==
    /\ Tick \/ \E s \in Session : Touch(s)
    /\ UNCHANGED <<coordinatorVars, speakerVars>>

Close ==
    /\ ~closed
    /\ closed' = TRUE
    /\ UNCHANGED <<managerVars, call, commands, loopVars, device, speakerVars>>

-----------------------------------------------------------------------------
\* controlLoop and handleCommand.

LoopReturns == loopAt' = "select" /\ cmd' = NoCommand /\ attempt' = 0

TakeCommand ==
    /\ loopAt = "select"
    /\ commands # <<>>
    /\ commands' = Tail(commands)
    /\ IF device
       THEN loopAt' = "check" /\ cmd' = Head(commands) /\ attempt' = 1
       ELSE UNCHANGED loopVars
    /\ UNCHANGED <<managerVars, call, device, closed, speakerVars>>

StopLoop ==
    /\ loopAt = "select"
    /\ closed
    /\ loopAt' = "exited"
    /\ UNCHANGED <<managerVars, call, commands, cmd, attempt, device, closed, speakerVars>>

\* Variant: a pause is always carried out.
CurrentOrPause(k) == k.kind = "pause" \/ IsOwner(k.session, k.generation)

\* Variant: a play is always carried out.
CurrentOrPlay(k) == k.kind = "play" \/ IsIdleGeneration(k.generation)

\* Whether a command still stands for the present generation.
Current(k) ==
    \/ k.kind = "play" /\ IsOwner(k.session, k.generation)
    \/ k.kind = "pause" /\ IsIdleGeneration(k.generation)

CheckCommand ==
    /\ loopAt = "check"
    /\ IF Current(cmd)
       THEN loopAt' = "call" /\ UNCHANGED <<cmd, attempt>>
       ELSE LoopReturns
    /\ UNCHANGED <<managerVars, call, commands, device, closed, speakerVars>>

\* The command takes effect on the speaker.
TakesEffect ==
    /\ speaker' = IF cmd.kind = "play" THEN cmd.session ELSE NoSession
    /\ shown' = cmd.generation

CallSucceeds ==
    /\ loopAt = "call"
    /\ TakesEffect
    /\ LoopReturns
    /\ UNCHANGED <<managerVars, call, commands, device, closed, abandoned>>

\* Variant: one attempt too many.
CallFailsOnceMore ==
    /\ loopAt = "call"
    /\ TakesEffect \/ UNCHANGED <<speaker, shown>>
    /\ IF cmd.kind = "play" /\ attempt <= MaxAttempts
       THEN loopAt' = "backoff" /\ UNCHANGED <<cmd, attempt, abandoned>>
       ELSE LoopReturns /\ abandoned' = cmd.generation
    /\ UNCHANGED <<managerVars, call, commands, device, closed>>

\* An error answer, or none in time: the speaker may or may not have acted.
\* A play command is tried MaxAttempts times, a pause command once.
CallFails ==
    /\ loopAt = "call"
    /\ TakesEffect \/ UNCHANGED <<speaker, shown>>
    /\ IF cmd.kind = "play" /\ attempt < MaxAttempts
       THEN loopAt' = "backoff" /\ UNCHANGED <<cmd, attempt, abandoned>>
       ELSE LoopReturns /\ abandoned' = cmd.generation
    /\ UNCHANGED <<managerVars, call, commands, device, closed>>

\* The end of time.Sleep between two attempts.
Retry ==
    /\ loopAt = "backoff"
    /\ loopAt' = "check"
    /\ attempt' = attempt + 1
    /\ UNCHANGED <<managerVars, call, commands, cmd, device, closed, speakerVars>>

CallReturns == CallSucceeds \/ CallFails

Next ==
    \/ \E c \in Caller :
          \/ \E s \in Session : Activate(c, s) \/ Deactivate(c, s)
          \/ CancelReplaced(c)
          \/ Enqueue(c)
    \/ ManagerStep
    \/ Close
    \/ TakeCommand \/ StopLoop \/ CheckCommand \/ CallReturns \/ Retry

Spec == Init /\ [][Next]_vars

\* Goroutines that can run do run, and every call to the speaker returns: its
\* HTTP client has a timeout.  A goroutine blocked on a channel is woken in
\* FIFO order, so it is not overtaken for ever.  Nobody has to call Activate,
\* Deactivate or Close.
Fairness ==
    /\ \A c \in Caller : WF_vars(CancelReplaced(c)) /\ SF_vars(Enqueue(c))
    /\ WF_vars(TakeCommand) /\ WF_vars(CheckCommand)
    /\ WF_vars(CallReturns) /\ WF_vars(Retry)

FairSpec == Spec /\ Fairness

-----------------------------------------------------------------------------

\* What the speaker plays walks through the owners in order: a command that
\* waited in the channel, in a retry or in a slow call never takes the speaker
\* back behind an owner it has already followed (IsOwner and IsIdleGeneration
\* in handleCommand, one control loop).
Abstract == INSTANCE Handover WITH ownerAt <- ownerAt, shown <- shown, speaker <- speaker
FollowsOwners == Abstract!Spec

\* What is heard changes from one session to another only as the policy allows,
\* if nobody let go of the speaker between the two: however late, out of order or
\* repeated the commands of overtaken callers are, the speaker is not taken from a
\* session the arbiter protected.
SpeakerRespectsPolicy ==
    [][speaker # NoSession /\ speaker' \notin {NoSession, speaker} =>
          PolicyAllows(shown, shown')]_vars

\* When every call has returned, the channel is empty and the control loop
\* waits, the speaker plays the stream of the session that owns it, and nothing
\* if nobody does, however the acquisitions, releases, preemptions and slow
\* calls interleaved; unless the last command for that owner was given up, the
\* device is unknown or the coordinator is closed.
AtRest ==
    /\ \A c \in Caller : call[c] = NoCall
    /\ commands = <<>>
    /\ loopAt = "select"

SpeakerMatchesOwnerAtRest ==
    AtRest /\ device /\ ~closed /\ abandoned # generation => speaker = active

\* A command for generation g is held by a caller, in the channel, in the loop.
OnItsWay(g) ==
    \/ \E c \in Caller : \E i \in DOMAIN call[c].todo : call[c].todo[i].generation = g
    \/ \E i \in DOMAIN commands : commands[i].generation = g
    \/ loopAt \in {"check", "call", "backoff"} /\ cmd.generation = g

\* While the speaker has not followed the present owner, and the attempt to make
\* it was not given up, there is a command on its way that will: no preemption,
\* stale command or full channel loses it.
OwnerServed ==
    \/ closed \/ ~device \/ generation = 0
    \/ shown = generation \/ abandoned = generation
    \/ OnItsWay(generation)

\* The speaker catches up, again and again: it has followed the present owner, or
\* the absence of one, or the attempts are used up, or the coordinator is closed.
\* An owner that lasts is served.
OwnerEventuallyServed ==
    device => []<>(shown = generation \/ abandoned = generation \/ closed)

\* No caller stays inside Activate or Deactivate for ever, however full the
\* channel and slow the speaker, and even while the coordinator closes.
CallsReturn == \A c \in Caller : call[c] # NoCall ~> call[c] = NoCall
=============================================================================
