--------------------------- MODULE AirPlaySession ---------------------------
(***************************************************************************)
(* The RTSP sessions of src/core/airplay/server.go, their claims on the    *)
(* speaker and their sockets.  One goroutine accepts connections, and one  *)
(* per connection reads a request, dispatches it and writes the answer.    *)
(* RECORD asks the arbiter and, when it replaces another session, closes   *)
(* that session from this goroutine, whatever the other one is doing; the  *)
(* main goroutine closes them all at shutdown.  A session closes once,     *)
(* whoever comes first.  Requests that touch neither ownership nor sockets *)
(* are left out; what they do to the audio is in AudioHub.                 *)
(***************************************************************************)
EXTENDS SourceManager

CONSTANTS
    Main,         \* the goroutine of main, which runs Server.Close
    MaxRecords    \* bound: RECORD requests in one behaviour

ASSUME MainAssumption == Main \notin Session

ASSUME RecordsAssumption == MaxRecords \in Nat /\ 2 * MaxRecords <= MaxGeneration

VARIABLES
    owned,     \* s.owned: what each session believes
    once,      \* s.closeOnce
    connOpen,  \* whether the connection is open on this side
    sockets,   \* the three UDP sockets of each session
    listening, \* whether the RTSP port is open
    leaving,   \* the sessions Server.Close has still to close
    handler,   \* where each goroutine is
    records,   \* bound: RECORD requests so far
    overtaken  \* history: had a request in hand when or while another goroutine closed it

serverVars == <<sockets, listening, leaving, overtaken>>
vars == <<managerVars, owned, once, connOpen, serverVars, handler, records>>

Thread == Session \union {Main}

\* The request in hand, the session this goroutine closes, if any, and where it
\* goes on after that: back to answering for PAUSE, which closes nothing.
Handler == [at : {"new", "accepted", "read", "dispatch", "acquire", "own", "respond",
                  "close", "stop", "shut", "snapshot", "next", "gone"},
            request : {"none", "SETUP", "RECORD", "PAUSE", "TEARDOWN"},
            closing : SessionOrNone, then : {"own", "respond", "next", "gone"}]

TypeOK ==
    /\ ManagerTypeOK
    /\ owned \in [Session -> BOOLEAN]
    /\ once \in [Session -> {"no", "running", "done"}]
    /\ connOpen \in [Session -> BOOLEAN]
    /\ sockets \in [Session -> {"none", "open", "closed", "lost"}]
    /\ listening \in BOOLEAN
    /\ leaving \subseteq Session
    /\ overtaken \in [Session -> BOOLEAN]
    /\ handler \in [Thread -> Handler]
    /\ \A s \in Thread :
          handler[s].at \in {"close", "stop", "shut"} => handler[s].closing # NoSession
    /\ records \in 0..MaxRecords

\* The goroutine at the place with nothing in hand.
At(place) == [at |-> place, request |-> "none", closing |-> NoSession, then |-> "respond"]

Init ==
    /\ ManagerInit
    /\ owned = [s \in Session |-> FALSE]
    /\ once = [s \in Session |-> "no"]
    /\ connOpen = [s \in Session |-> FALSE]
    /\ sockets = [s \in Session |-> "none"]
    /\ listening = TRUE
    /\ leaving = {}
    /\ overtaken = [s \in Session |-> FALSE]
    /\ handler = [t \in Thread |-> At("new")]
    /\ records = 0

Goes(s, place) ==
    handler' = [handler EXCEPT ![s] = IF place \in {"read", "gone"} THEN At(place)
                                      ELSE [@ EXCEPT !.at = place]]

\* The goroutine of s runs Close of c and goes on at the place then.
Closes(s, c, then) ==
    handler' = [handler EXCEPT ![s].at = "close", ![s].closing = c, ![s].then = then]

GoesOn(s) ==
    LET place == handler[s].then IN
    handler' = [handler EXCEPT ![s] = [At(place) EXCEPT !.request =
                  IF place \in {"own", "respond"} THEN handler[s].request ELSE "none"]]

-----------------------------------------------------------------------------
\* The accept loop.

\* Accept returns a connection, one at a time ...
Accept(s) ==
    /\ handler[s].at = "new"
    /\ listening
    /\ \A o \in Session : handler[o].at # "accepted"
    /\ connOpen' = [connOpen EXCEPT ![s] = TRUE]
    /\ Goes(s, "accepted")
    /\ UNCHANGED <<managerVars, owned, once, serverVars, records>>

\* ... which newSession puts into the table, and a goroutine starts to read.
NewSession(s) ==
    /\ handler[s].at = "accepted"
    /\ Goes(s, "read")
    /\ UNCHANGED <<managerVars, owned, once, connOpen, serverVars, records>>

\* s.sessions: removeSession is the last thing a Close does.
Registered == {s \in Session : handler[s].at \notin {"new", "accepted"} /\ once[s] # "done"}

-----------------------------------------------------------------------------
\* handleRTSP and dispatchRTSP.

Receive(s, request) ==
    /\ handler[s].at = "read"
    /\ connOpen[s]
    /\ request = "RECORD" => records < MaxRecords
    /\ records' = IF request = "RECORD" THEN records + 1 ELSE records
    /\ handler' = [handler EXCEPT ![s].at = "dispatch", ![s].request = request]
    /\ overtaken' = [overtaken EXCEPT ![s] = @ \/ once[s] # "no"]
    /\ UNCHANGED <<managerVars, owned, once, connOpen, sockets, listening, leaving>>

\* The client hung up, or the connection was closed under the reader.
ReadFails(s) ==
    /\ handler[s].at = "read"
    /\ Closes(s, s, "gone")
    /\ UNCHANGED <<managerVars, owned, once, connOpen, serverVars, records>>

\* Variant: setupUDP opens sockets though the session has some.
DispatchSetupAgain(s) ==
    /\ handler[s].at = "dispatch" /\ handler[s].request = "SETUP"
    /\ \/ sockets' = [sockets EXCEPT ![s] = IF @ = "none" THEN "open" ELSE "lost"]
       \/ UNCHANGED sockets
    /\ Goes(s, "respond")
    /\ UNCHANGED <<managerVars, owned, once, connOpen, listening, leaving, overtaken, records>>

\* setupUDP: opens the sockets, or fails; a session that has some keeps them,
\* also when a Close has closed them.
DispatchSetup(s) ==
    /\ handler[s].at = "dispatch" /\ handler[s].request = "SETUP"
    /\ \/ sockets[s] = "none" /\ sockets' = [sockets EXCEPT ![s] = "open"]
       \/ UNCHANGED sockets
    /\ Goes(s, "respond")
    /\ UNCHANGED <<managerVars, owned, once, connOpen, listening, leaving, overtaken, records>>

\* activate: a session that believes it owns the speaker only reports activity.
DispatchRecord(s) ==
    /\ handler[s].at = "dispatch" /\ handler[s].request = "RECORD"
    /\ IF owned[s]
       THEN /\ \/ Touch(s)
               \/ active # s /\ UNCHANGED managerVars
            /\ Goes(s, "respond")
       ELSE UNCHANGED managerVars /\ Goes(s, "acquire")
    /\ UNCHANGED <<owned, once, connOpen, serverVars, records>>

\* Variant: Replaced is closed though there may be none.
AcquireClosesAnyway(s) ==
    /\ handler[s].at = "acquire"
    /\ \/ AcquireNew(s) /\ Closes(s, active, "own")
       \/ AcquireAgain(s) /\ Goes(s, "own")
       \/ Reject(s) /\ Goes(s, "respond")
    /\ UNCHANGED <<owned, once, connOpen, serverVars, records>>

\* OnSessionStart; a replaced session is closed before it returns.
Acquire(s) ==
    /\ handler[s].at = "acquire"
    /\ \/ AcquireNew(s) /\ IF active = NoSession THEN Goes(s, "own")
                                                 ELSE Closes(s, active, "own")
       \/ AcquireAgain(s) /\ Goes(s, "own")
       \/ Reject(s) /\ Goes(s, "respond")
    /\ UNCHANGED <<owned, once, connOpen, serverVars, records>>

Own(s) ==
    /\ handler[s].at = "own"
    /\ owned' = [owned EXCEPT ![s] = TRUE]
    /\ Goes(s, "respond")
    /\ UNCHANGED <<managerVars, once, connOpen, serverVars, records>>

\* Variant: PAUSE tells the arbiter but not the session.
DispatchPauseKeepsOwned(s) ==
    /\ handler[s].at = "dispatch" /\ handler[s].request = "PAUSE"
    /\ IF owned[s]
       THEN handler' = [handler EXCEPT ![s].at = "stop", ![s].closing = s, ![s].then = "respond"]
       ELSE Goes(s, "respond")
    /\ UNCHANGED <<managerVars, owned, once, connOpen, serverVars, records>>

\* PAUSE: releaseOwnership, up to OnSessionStop.
DispatchPause(s) ==
    /\ handler[s].at = "dispatch" /\ handler[s].request = "PAUSE"
    /\ owned' = [owned EXCEPT ![s] = FALSE]
    /\ IF owned[s]
       THEN handler' = [handler EXCEPT ![s].at = "stop", ![s].closing = s, ![s].then = "respond"]
       ELSE Goes(s, "respond")
    /\ UNCHANGED <<managerVars, once, connOpen, serverVars, records>>

DispatchTeardown(s) ==
    /\ handler[s].at = "dispatch" /\ handler[s].request = "TEARDOWN"
    /\ Goes(s, "respond")
    /\ UNCHANGED <<managerVars, owned, once, connOpen, serverVars, records>>

\* The answer is written, if the connection still takes it; after TEARDOWN and
\* after a failed write the goroutine ends, closing its session.
Respond(s) ==
    /\ handler[s].at = "respond"
    /\ \/ connOpen[s] /\ handler[s].request # "TEARDOWN" /\ Goes(s, "read")
       \/ Closes(s, s, "gone")
    /\ UNCHANGED <<managerVars, owned, once, connOpen, serverVars, records>>

\* touch, for a packet of audio or a new volume, and the passing of time, reach
\* only the arbiter.
Attend ==
    /\ Tick \/ \E s \in Session : Touch(s)
    /\ UNCHANGED <<owned, once, connOpen, serverVars, handler, records>>

-----------------------------------------------------------------------------
\* Close and releaseOwnership, by the goroutine of s.

\* The goroutine of s has read a request and not yet done what it asks for.
InHand(s) ==
    \/ handler[s].at \in {"dispatch", "acquire", "own"}
    \/ handler[s].at \in {"close", "stop", "shut"} /\ handler[s].then = "own"

\* The goroutine of s is the first to close c.
ClosesFirst(s, c) ==
    /\ once[c] = "no"
    /\ once' = [once EXCEPT ![c] = "running"]
    /\ owned' = [owned EXCEPT ![c] = FALSE]
    /\ overtaken' = [overtaken EXCEPT ![c] = InHand(c)]
    /\ Goes(s, IF owned[c] THEN "stop" ELSE "shut")

\* Variant: who comes second waits for something that is not signalled.
CloseSessionOnce(s) ==
    /\ handler[s].at = "close"
    /\ ClosesFirst(s, handler[s].closing)
    /\ UNCHANGED <<managerVars, connOpen, sockets, listening, leaving, records>>

\* The first to come runs the body; the others wait until it is done.
CloseSession(s) ==
    LET c == handler[s].closing IN
    /\ handler[s].at = "close"
    /\ \/ ClosesFirst(s, c)
       \/ /\ once[c] = "done"
          /\ GoesOn(s)
          /\ UNCHANGED <<once, owned, overtaken>>
    /\ UNCHANGED <<managerVars, connOpen, sockets, listening, leaving, records>>

\* OnSessionStop: no effect unless the session is the owner.
SessionStop(s) ==
    LET c == handler[s].closing IN
    /\ handler[s].at = "stop"
    /\ \/ Release(c)
       \/ active # c /\ UNCHANGED managerVars
    /\ IF handler[s].then = "respond" THEN GoesOn(s) ELSE Goes(s, "shut")
    /\ UNCHANGED <<owned, once, connOpen, serverVars, records>>

\* The connection, the sockets there are and the hub are closed, the session
\* forgotten.
Shut(s) ==
    LET c == handler[s].closing IN
    /\ handler[s].at = "shut"
    /\ connOpen' = [connOpen EXCEPT ![c] = FALSE]
    /\ sockets' = [sockets EXCEPT ![c] = IF @ = "open" THEN "closed" ELSE @]
    /\ once' = [once EXCEPT ![c] = "done"]
    /\ GoesOn(s)
    /\ UNCHANGED <<managerVars, owned, listening, leaving, overtaken, records>>

-----------------------------------------------------------------------------
\* Server.Close, by the main goroutine.

StopListening ==
    /\ handler[Main].at = "new"
    /\ listening' = FALSE
    /\ Goes(Main, "snapshot")
    /\ UNCHANGED <<managerVars, owned, once, connOpen, sockets, leaving, overtaken, records>>

\* The sessions of this moment are to be closed.
Snapshot ==
    /\ handler[Main].at = "snapshot"
    /\ leaving' = Registered
    /\ Goes(Main, "next")
    /\ UNCHANGED <<managerVars, owned, once, connOpen, sockets, listening, overtaken, records>>

CloseNext ==
    /\ handler[Main].at = "next"
    /\ \/ \E c \in leaving : leaving' = leaving \ {c} /\ Closes(Main, c, "next")
       \/ leaving = {} /\ Goes(Main, "gone") /\ UNCHANGED leaving
    /\ UNCHANGED <<managerVars, owned, once, connOpen, sockets, listening, overtaken, records>>

CloseStep(t) == CloseSession(t) \/ SessionStop(t) \/ Shut(t)

\* What a goroutine does without waiting for a client or for the end of the daemon.
Proceeds(t) ==
    \/ t \in Session /\
          \/ NewSession(t) \/ DispatchSetup(t) \/ DispatchRecord(t) \/ Acquire(t) \/ Own(t)
          \/ DispatchPause(t) \/ DispatchTeardown(t) \/ Respond(t)
    \/ t = Main /\ (Snapshot \/ CloseNext)
    \/ CloseStep(t)

Next ==
    \/ \E s \in Session :
          \/ Accept(s) \/ NewSession(s)
          \/ \E request \in {"SETUP", "RECORD", "PAUSE", "TEARDOWN"} : Receive(s, request)
          \/ ReadFails(s)
          \/ DispatchSetup(s) \/ DispatchRecord(s) \/ Acquire(s) \/ Own(s)
          \/ DispatchPause(s) \/ DispatchTeardown(s) \/ Respond(s)
    \/ \E t \in Thread : CloseSession(t) \/ SessionStop(t) \/ Shut(t)
    \/ StopListening \/ Snapshot \/ CloseNext
    \/ Attend

Spec == Init /\ [][Next]_vars

-----------------------------------------------------------------------------

Resting(t) == handler[t].at \in {"new", "read", "gone"}

AtRest == \A t \in Thread : Resting(t)

\* When no request is in progress, a connected session believes it owns the
\* speaker exactly when the arbiter says so: no preemption, however it crossed
\* with a PAUSE or RECORD, leaves a phone connected that plays into nothing or
\* one that cannot release what it owns.
OwnedMatchesArbiter ==
    AtRest => \A s \in Session : connOpen[s] => (owned[s] <=> active = s)

\* Of the goroutines that have something to do, one always can go on: sessions
\* that close each other at the same time, and the main goroutine that closes
\* them too, never wait for each other.
NobodyWaitsForEver == AtRest \/ \E t \in Thread : ENABLED Proceeds(t)

\* A closed session holds neither the speaker nor a socket, whoever closed it and
\* whatever it had set up before, with one exception: another goroutine closed it
\* with a request in hand, which then goes on (see OwnerIsConnected).
ClosedHoldsNothing ==
    AtRest => \A s \in Session :
       once[s] = "done" /\ ~overtaken[s] => active # s /\ sockets[s] \notin {"open", "lost"}

\* When no request is in progress and the daemon is not stopping, the speaker
\* belongs to a connected session.
OwnerIsConnected ==
    AtRest /\ listening /\ active # NoSession => connOpen[active]
=============================================================================
