--------------------------- MODULE AirPlayPlayback ---------------------------
(***************************************************************************)
(* The RTSP sessions and the coordinator put together, as                  *)
(* src/core/main.go does: the callbacks of the AirPlay server are calls to *)
(* the coordinator, made by the goroutine that serves the request, and the *)
(* cancel function of a session is its Close.  What AirPlaySession leaves  *)
(* out, a goroutine held up by a full channel in the middle of a request   *)
(* or of a Close, and what Playback leaves open, whether the cancelled     *)
(* session still counts itself active, are settled here.                   *)
(***************************************************************************)
EXTENDS AirPlaySession

CONSTANT QueueCap   \* capacity of the coordinator's channel of commands

ASSUME ChannelAssumption == QueueCap \in Nat \ {0}

VARIABLES call, commands, loopAt, cmd, attempt, device, closed, speaker, shown, abandoned

\* The goroutines of the server are the coordinator's callers.
Coordinator == INSTANCE Playback WITH Caller <- Thread

playbackVars == <<call, commands, loopAt, cmd, attempt, device, closed, speaker, shown, abandoned>>
sessionVars == <<owned, once, connOpen, serverVars, handler, records>>
stackVars == <<managerVars, sessionVars, playbackVars>>

StackInit == Init /\ Coordinator!Init

\* No call of the goroutine to the coordinator is under way.
Returned(t) == call[t] = Coordinator!NoCall

\* It is inside Activate, in the cancel function of the session it replaces.
Cancelling(t) == call[t].victim # NoSession

\* It is inside Deactivate, with the pause command still to be sent.
PauseDue(t) == call[t].todo # <<>> /\ Head(call[t].todo).kind = "pause"

-----------------------------------------------------------------------------

\* What a goroutine does outside the coordinator, or by a Touch; it learns the
\* outcome of a call, and answers, when the call has returned.
Serve(s) ==
    /\ \/ Accept(s) \/ NewSession(s)
       \/ \E request \in {"SETUP", "RECORD", "PAUSE", "TEARDOWN"} : Receive(s, request)
       \/ ReadFails(s)
       \/ DispatchSetup(s) \/ DispatchRecord(s) \/ DispatchPause(s) \/ DispatchTeardown(s)
       \/ Returned(s) /\ (Own(s) \/ Respond(s))
    /\ UNCHANGED playbackVars

\* OnSessionStart is Activate.
Activate(s) == Acquire(s) /\ Coordinator!Activate(s, s)

\* The first steps of Close.  Cancel goes no further into the coordinator when
\* the session does not believe it owns the speaker.
BeginClose(t) ==
    /\ CloseSession(t)
    /\ IF Cancelling(t) /\ handler'[t].at # "stop"
       THEN Coordinator!CancelReplaced(t) /\ UNCHANGED managerVars
       ELSE UNCHANGED playbackVars

\* Variant: releases the speaker and sends no command.
DeactivateSilently(t) ==
    /\ SessionStop(t)
    /\ IF Cancelling(t) THEN Coordinator!CancelReplaced(t)
                        ELSE UNCHANGED playbackVars

\* OnSessionStop is Deactivate, also inside a Cancel.
Deactivate(t) ==
    /\ SessionStop(t)
    /\ IF Cancelling(t) THEN Coordinator!CancelReplaced(t)
                        ELSE Coordinator!Deactivate(t, handler[t].closing)

\* Variant: does not wait for the pause command to be in the channel.
EndCloseAtOnce(t) == Shut(t) /\ UNCHANGED playbackVars

\* Close goes on when OnSessionStop has returned.
EndClose(t) == ~PauseDue(t) /\ Shut(t) /\ UNCHANGED playbackVars

\* enqueue: a pause command within Deactivate, the play command when the
\* replaced session is closed.
Delivers(t) == PauseDue(t) \/ (handler[t].at = "own" /\ call[t].todo # <<>>)

Deliver(t) ==
    /\ Delivers(t)
    /\ Coordinator!Enqueue(t)
    /\ UNCHANGED sessionVars

ServerClose == (StopListening \/ Snapshot \/ CloseNext) /\ UNCHANGED playbackVars

\* The deferred calls of main: the server is closed first, then the coordinator.
CloseCoordinator == handler[Main].at = "gone" /\ Coordinator!Close /\ UNCHANGED sessionVars

Control ==
    /\ \/ Coordinator!TakeCommand \/ Coordinator!StopLoop \/ Coordinator!CheckCommand
       \/ Coordinator!CallReturns \/ Coordinator!Retry
    /\ UNCHANGED sessionVars

StackNext ==
    \/ \E s \in Session : Serve(s) \/ Activate(s)
    \/ \E t \in Thread : BeginClose(t) \/ Deactivate(t) \/ EndClose(t) \/ Deliver(t)
    \/ ServerClose \/ CloseCoordinator \/ Control
    \/ Attend /\ UNCHANGED playbackVars

StackSpec == StackInit /\ [][StackNext]_stackVars

-----------------------------------------------------------------------------

\* When no request is in progress and the coordinator has nothing to do, a phone
\* that is still connected believes it owns the speaker exactly when the speaker
\* plays its stream, whatever crossed on the way from the RTSP session through
\* arbiter, channel and cloud; unless the last command was given up, there is no
\* device or the daemon stops.
PhoneMatchesSpeaker ==
    AtRest /\ Coordinator!AtRest /\ device /\ ~closed /\ abandoned # generation =>
        \A s \in Session : connOpen[s] => (owned[s] <=> speaker = s)

\* The goroutine waits for another one: for a Close that runs already, or for room
\* in the channel.
Blocked(t) ==
    \/ handler[t].at = "close" /\ once[handler[t].closing] = "running"
    \/ Delivers(t) /\ Len(commands) >= QueueCap /\ ~closed

ControlGoesOn ==
    \/ loopAt \in {"check", "call", "backoff"}
    \/ loopAt = "select" /\ commands # <<>>

\* Sessions wait for each other in Close while the one that closes waits for room
\* in the channel, which the control loop makes; this chain never closes into a
\* circle or ends at nobody: while a request or Close is unfinished, or a
\* command undelivered, some goroutine can go on or the loop can.
StackGoesOn ==
    \/ ControlGoesOn
    \/ \E t \in Thread : ~Resting(t) /\ ~Blocked(t)
    \/ \A t \in Thread : Resting(t) /\ Returned(t)
=============================================================================
