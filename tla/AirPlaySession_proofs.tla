----------------------- MODULE AirPlaySession_proofs -----------------------
(***************************************************************************)
(* Proofs about AirPlaySession, for any number of connections and under    *)
(* every policy: the state is well typed, at rest a connected session      *)
(* believes it owns the speaker exactly when the arbiter says so, a closed *)
(* one holds nothing, now or later, unless it was overtaken by its own     *)
(* request, and those who close each other never wait in a circle.  And    *)
(* about AirPlayPlayback: sessions and coordinator put together keep all   *)
(* that either was proved to keep alone, a phone and the speaker agree at  *)
(* rest, and nobody waits for ever, also with the channel full.            *)
(***************************************************************************)
EXTENDS AirPlayPlayback, SourceManager_proofs

-----------------------------------------------------------------------------
\* What a step does to the goroutine that takes it.

Places == {"new", "accepted", "read", "dispatch", "acquire", "own", "respond",
           "close", "stop", "shut", "snapshot", "next", "gone"}
Requests == {"none", "SETUP", "RECORD", "PAUSE", "TEARDOWN"}
Returns == {"own", "respond", "next", "gone"}

HandlerTyped == handler \in [Thread -> Handler]

\* The goroutine t is at the place, with the request and what it closes.
Stands(t, at, request, closing, then) ==
    /\ handler'[t] \in Handler
    /\ handler'[t].at = at /\ handler'[t].request = request
    /\ handler'[t].closing = closing /\ handler'[t].then = then

OthersStay(t) == \A u \in Thread : u # t => handler'[u] = handler[u]

LEMMA HandlerHas ==
  ASSUME HandlerTyped, NEW t \in Thread
  PROVE  /\ handler[t].at \in Places /\ handler[t].request \in Requests
         /\ handler[t].closing \in SessionOrNone /\ handler[t].then \in Returns
<1>1. handler[t] \in Handler
  BY DEF HandlerTyped
<1>. QED
  BY <1>1 DEF Handler, Places, Requests, Returns

LEMMA MoveTo ==
  ASSUME HandlerTyped, NEW t \in Thread, NEW h \in Handler,
         handler' = [handler EXCEPT ![t] = h]
  PROVE  HandlerTyped' /\ handler'[t] = h /\ OthersStay(t)
  BY DEF HandlerTyped, OthersStay

LEMMA GoesMoves ==
  ASSUME HandlerTyped, NEW t \in Thread, NEW place \in Places \ {"read", "gone"},
         Goes(t, place)
  PROVE  /\ HandlerTyped' /\ OthersStay(t)
         /\ Stands(t, place, handler[t].request, handler[t].closing, handler[t].then)
<1>. DEFINE h == [handler[t] EXCEPT !.at = place]
<1>1. /\ h \in Handler /\ h.at = place /\ h.request = handler[t].request
      /\ h.closing = handler[t].closing /\ h.then = handler[t].then
  BY DEF HandlerTyped, Handler, Places
<1>2. handler' = [handler EXCEPT ![t] = h]
  BY DEF Goes
<1>. HIDE DEF h
<1>. QED
  BY <1>1, <1>2, MoveTo DEF Stands

LEMMA EndsMoves ==
  ASSUME HandlerTyped, NEW t \in Thread, NEW place \in {"read", "gone"}, Goes(t, place)
  PROVE  HandlerTyped' /\ OthersStay(t) /\ Stands(t, place, "none", NoSession, "respond")
<1>. DEFINE h == At(place)
<1>1. /\ h \in Handler /\ h.at = place /\ h.request = "none"
      /\ h.closing = NoSession /\ h.then = "respond"
  BY DEF Handler, At, SessionOrNone
<1>2. handler' = [handler EXCEPT ![t] = h]
  BY DEF Goes
<1>. HIDE DEF h
<1>. QED
  BY <1>1, <1>2, MoveTo DEF Stands

LEMMA ClosesMoves ==
  ASSUME HandlerTyped, NEW t \in Thread, NEW c \in Session, NEW then \in Returns,
         NEW at \in {"close", "stop"},
         handler' = [handler EXCEPT ![t].at = at, ![t].closing = c, ![t].then = then]
  PROVE  HandlerTyped' /\ OthersStay(t) /\ Stands(t, at, handler[t].request, c, then)
<1>. DEFINE h == [handler[t] EXCEPT !.at = at, !.closing = c, !.then = then]
<1>1. /\ h \in Handler /\ h.at = at /\ h.request = handler[t].request
      /\ h.closing = c /\ h.then = then
  BY DEF HandlerTyped, Handler, Returns, SessionOrNone
<1>2. handler' = [handler EXCEPT ![t] = h]
  BY DEF HandlerTyped
<1>. HIDE DEF h
<1>. QED
  BY <1>1, <1>2, MoveTo DEF Stands

LEMMA ReceiveMoves ==
  ASSUME HandlerTyped, NEW t \in Thread, NEW request \in Requests,
         handler' = [handler EXCEPT ![t].at = "dispatch", ![t].request = request]
  PROVE  /\ HandlerTyped' /\ OthersStay(t)
         /\ Stands(t, "dispatch", request, handler[t].closing, handler[t].then)
<1>. DEFINE h == [handler[t] EXCEPT !.at = "dispatch", !.request = request]
<1>1. /\ h \in Handler /\ h.at = "dispatch" /\ h.request = request
      /\ h.closing = handler[t].closing /\ h.then = handler[t].then
  BY DEF HandlerTyped, Handler, Requests
<1>2. handler' = [handler EXCEPT ![t] = h]
  BY DEF HandlerTyped
<1>. HIDE DEF h
<1>. QED
  BY <1>1, <1>2, MoveTo DEF Stands

LEMMA GoesOnMoves ==
  ASSUME HandlerTyped, NEW t \in Thread, GoesOn(t)
  PROVE  /\ HandlerTyped' /\ OthersStay(t)
         /\ \E request \in Requests :
               Stands(t, handler[t].then, request, NoSession, "respond")
<1>. DEFINE request == IF handler[t].then \in {"own", "respond"}
                       THEN handler[t].request ELSE "none"
            h == [At(handler[t].then) EXCEPT !.request = request]
<1>0. request \in Requests /\ handler[t].then \in Returns
  BY HandlerHas DEF Requests
<1>1. /\ h \in Handler /\ h.at = handler[t].then /\ h.request = request
      /\ h.closing = NoSession /\ h.then = "respond"
  BY <1>0 DEF Handler, At, SessionOrNone, Requests, Returns
<1>2. handler' = [handler EXCEPT ![t] = h]
  BY DEF GoesOn
<1>. HIDE DEF h, request
<1>. QED
  BY <1>0, <1>1, <1>2, MoveTo DEF Stands
-----------------------------------------------------------------------------
\* The invariant.

Busy(t) == handler[t].at \in {"close", "stop", "shut"}

TypeInv ==
    /\ ManagerInv
    /\ HandlerTyped
    /\ owned \in [Session -> BOOLEAN]
    /\ once \in [Session -> {"no", "running", "done"}]
    /\ connOpen \in [Session -> BOOLEAN]
    /\ sockets \in [Session -> {"none", "open", "closed"}]
    /\ listening \in BOOLEAN
    /\ leaving \subseteq Session
    /\ overtaken \in [Session -> BOOLEAN]
    /\ records \in 0..MaxRecords
    /\ \A t \in Thread : Busy(t) => handler[t].closing \in Session

\* Nobody knows a session before it is in the table.
Fresh(s) == handler[s].at \in {"new", "accepted"}

FreshUnknown ==
    \A s \in Session : Fresh(s) =>
       /\ once[s] = "no" /\ ~owned[s] /\ active # s /\ s \notin leaving
       /\ \A t \in Thread : Busy(t) => handler[t].closing # s

\* Only PAUSE stops a session without closing it: its own, which it no longer owns.
PauseStops ==
    \A t \in Thread : Busy(t) /\ handler[t].then = "respond" =>
       handler[t].at = "stop" /\ handler[t].closing = t /\ ~owned[t]

\* A goroutine that stops or shuts a session is in its Close, which runs while
\* there is such a goroutine; a Close that is over has shut the connection.
CloseRuns ==
    /\ \A t \in Thread : handler[t].at \in {"stop", "shut"} /\ handler[t].then # "respond" =>
          once[handler[t].closing] # "no"
    /\ \A s \in Session : once[s] = "running" =>
          \E t \in Thread : handler[t].at \in {"stop", "shut"} /\ handler[t].closing = s
                           /\ handler[t].then # "respond"
    /\ \A s \in Session : once[s] = "done" => ~connOpen[s]

\* The session is being closed or about to be.
Leaves(s) == once[s] # "no" \/ \E t \in Thread : handler[t].at = "close" /\ handler[t].closing = s

\* The arbiter granted the speaker and the session does not know yet.
Learns(s) == handler[s].at = "own" \/ (Busy(s) /\ handler[s].then = "own")

\* The arbiter is about to be told that the session stops.
Stops(s) == \E t \in Thread : handler[t].at = "stop" /\ handler[t].closing = s

\* Session and arbiter disagree only while somebody is there to make them agree.
Agreement ==
    /\ \A s \in Session : (owned[s] \/ Learns(s)) /\ active # s => Leaves(s)
    /\ \A s \in Session : active = s /\ ~owned[s] => (Learns(s) \/ Stops(s) \/ once[s] # "no")

\* A session that closes without a request in hand takes nothing any more.
ClosedTakesNothing ==
    \A s \in Session : once[s] # "no" /\ ~overtaken[s] => ~InHand(s)

Shuts(s) == once[s] = "done" \/ \E t \in Thread : handler[t].at = "shut" /\ handler[t].closing = s

ShutReleased ==
    \A s \in Session : ~overtaken[s] =>
       /\ Shuts(s) => active # s \/ Stops(s)
       /\ once[s] = "done" => sockets[s] # "open"

IInv ==
    /\ TypeInv
    /\ FreshUnknown /\ PauseStops /\ CloseRuns
    /\ Agreement
    /\ ClosedTakesNothing /\ ShutReleased

LEMMA InvInit == Init => IInv
<1>. SUFFICES ASSUME Init PROVE IInv
  OBVIOUS
<1>1. /\ HandlerTyped /\ \A t \in Thread : handler[t].at = "new" /\ handler[t].then = "respond"
  BY DEF Init, At, HandlerTyped, Handler, SessionOrNone
<1>2. ManagerInv /\ active = NoSession
  BY ManagerInitInv DEF Init, ManagerInit
<1>3. TypeInv
  BY <1>1, <1>2, RecordsAssumption DEF Init, TypeInv, Busy
<1>4. FreshUnknown /\ PauseStops /\ CloseRuns
  BY <1>1, <1>2, NoSessionAssumption DEF Init, FreshUnknown, PauseStops, CloseRuns, Busy
<1>5. Agreement
  BY <1>1, <1>2, NoSessionAssumption DEF Init, Agreement, Learns, Busy, Thread
<1>6. ClosedTakesNothing /\ ShutReleased
  BY <1>1 DEF Init, ClosedTakesNothing, ShutReleased, Shuts
<1>. QED
  BY <1>3, <1>4, <1>5, <1>6 DEF IInv

LEMMA InvImplies == IInv => TypeOK /\ OwnedMatchesArbiter /\ ClosedHoldsNothing
<1>. SUFFICES ASSUME IInv PROVE TypeOK /\ OwnedMatchesArbiter /\ ClosedHoldsNothing
  OBVIOUS
<1>1. TypeOK
  BY NoSessionAssumption DEF IInv, TypeInv, TypeOK, ManagerInv, HandlerTyped, Busy
<1>2. ASSUME AtRest PROVE \A t \in Thread : ~Busy(t) /\ handler[t].at # "own"
  BY <1>2 DEF AtRest, Resting, Busy
<1>3. OwnedMatchesArbiter
  <2>. SUFFICES ASSUME AtRest, NEW s \in Session, connOpen[s] PROVE owned[s] <=> active = s
    BY DEF OwnedMatchesArbiter
  <2>1. once[s] = "no"
    BY <1>2 DEF IInv, TypeInv, CloseRuns, Busy
  <2>. QED
    BY <1>2, <2>1 DEF IInv, Agreement, Leaves, Learns, Stops, Busy, Thread
<1>4. ClosedHoldsNothing
  BY <1>2 DEF IInv, TypeInv, ShutReleased, Shuts, Stops, Busy, ClosedHoldsNothing
<1>. QED
  BY <1>1, <1>3, <1>4

-----------------------------------------------------------------------------
\* Steps that neither close nor stop a session.

\* The goroutine t is not in a Close, before the step or after it, and what it
\* leaves alone is what decides who is in one.
Apart(t) ==
    /\ HandlerTyped' /\ OthersStay(t)
    /\ ~Busy(t) /\ ~Busy(t)'
    /\ UNCHANGED once
    /\ \A c \in leaving' : c \in leaving \/ ~Fresh(c)

LEMMA ApartBusy ==
  ASSUME NEW t \in Thread, Apart(t), NEW u \in Thread
  PROVE  /\ Busy(u)' <=> Busy(u)
         /\ Busy(u) => handler'[u] = handler[u]
  BY DEF Apart, OthersStay, Busy

LEMMA ApartSame ==
  ASSUME NEW t \in Thread, Apart(t), NEW c \in Session
  PROVE  /\ Leaves(c)' <=> Leaves(c)
         /\ Stops(c)' <=> Stops(c)
         /\ Shuts(c)' <=> Shuts(c)
<1>1. \A u \in Thread : \/ handler'[u] = handler[u]
                        \/ ~Busy(u) /\ ~Busy(u)'
  BY ApartBusy
<1>2. UNCHANGED once
  BY DEF Apart
<1>3. Leaves(c)' <=> Leaves(c)
  BY <1>1, <1>2 DEF Leaves, Busy
<1>4. Stops(c)' <=> Stops(c)
  BY <1>1, <1>2 DEF Stops, Busy
<1>5. Shuts(c)' <=> Shuts(c)
  BY <1>1, <1>2 DEF Shuts, Busy
<1>. QED
  BY <1>3, <1>4, <1>5

\* The other sessions' goroutines stay where they are.
LEMMA OthersSame ==
  ASSUME NEW t \in Thread, OthersStay(t), NEW s \in Session, s # t
  PROVE  /\ Fresh(s)' <=> Fresh(s)
         /\ Learns(s)' <=> Learns(s)
         /\ InHand(s)' <=> InHand(s)
<1>1. handler'[s] = handler[s]
  BY DEF OthersStay, Thread
<1>. QED
  BY <1>1 DEF Fresh, Learns, InHand, Busy

\* Who is shut is in a Close.
LEMMA ShutsInClose ==
  ASSUME IInv, NEW c \in Session, Shuts(c)
  PROVE  once[c] # "no"
<1>1. CASE once[c] = "done"
  BY <1>1
<1>2. CASE \E u \in Thread : handler[u].at = "shut" /\ handler[u].closing = c
  <2>1. PICK u \in Thread : handler[u].at = "shut" /\ handler[u].closing = c
    BY <1>2
  <2>2. handler[u].then # "respond"
    BY <2>1 DEF IInv, PauseStops, Busy
  <2>. QED
    BY <2>1, <2>2 DEF IInv, CloseRuns
<1>. QED
  BY <1>1, <1>2 DEF Shuts

\* Such a step keeps everything if the session's own places, its flag and the
\* arbiter change together.
Together(t) ==
    /\ \A c \in Session : c # t => owned'[c] = owned[c] /\ (active' = c <=> active = c)
    /\ \A c \in Session : overtaken[c] => overtaken'[c]
    /\ \A c \in Session : connOpen'[c] => connOpen[c] \/ once[c] = "no"
    /\ \A c \in Session : sockets'[c] = sockets[c] \/ (c = t /\ InHand(t))
    /\ t \in Session =>
         /\ Fresh(t)' => Fresh(t) /\ UNCHANGED <<owned, active>>
         /\ (owned'[t] \/ Learns(t)') /\ active' # t => (owned[t] \/ Learns(t)) /\ active # t
         /\ active' = t /\ ~owned'[t] => Learns(t)' \/ (active = t /\ ~owned[t] /\ ~Learns(t))
         /\ active' = t => active = t \/ InHand(t)
         /\ InHand(t)' => InHand(t) \/ once[t] = "no" \/ overtaken'[t]

LEMMA ApartKeeps ==
  ASSUME IInv, NEW t \in Thread, Apart(t), Together(t)
  PROVE  FreshUnknown' /\ PauseStops' /\ CloseRuns' /\ Agreement'
         /\ ClosedTakesNothing' /\ ShutReleased'
<1>1. \A c \in Session : c # t => /\ Fresh(c)' <=> Fresh(c)
                                  /\ Learns(c)' <=> Learns(c)
                                  /\ InHand(c)' <=> InHand(c)
                                  /\ owned'[c] = owned[c] /\ (active' = c <=> active = c)
  BY OthersSame DEF Apart, Together
<1>2. UNCHANGED once /\ \A c \in leaving' : c \in leaving \/ ~Fresh(c)
  BY DEF Apart
<1>3. FreshUnknown'
  <2>1. ASSUME NEW c \in Session, Fresh(c)'
        PROVE  Fresh(c) /\ owned'[c] = owned[c] /\ (active' = c <=> active = c)
    BY <1>1, <2>1 DEF Together
  <2>. QED
    BY <1>2, <2>1, ApartBusy DEF IInv, FreshUnknown
<1>4. PauseStops'
  <2>1. ASSUME NEW u \in Thread, Busy(u)', handler'[u].then = "respond"
        PROVE  handler'[u].at = "stop" /\ handler'[u].closing = u /\ ~owned'[u]
    <3>1. Busy(u) /\ handler'[u] = handler[u] /\ u # t
      BY <2>1, ApartBusy DEF Apart
    <3>2. handler[u].at = "stop" /\ handler[u].closing = u /\ ~owned[u] /\ u \in Session
      BY <2>1, <3>1 DEF IInv, TypeInv, PauseStops
    <3>. QED
      BY <1>1, <3>1, <3>2
  <2>. QED
    BY <2>1 DEF PauseStops
<1>5. CloseRuns'
  <2>1. ASSUME NEW u \in Thread, (handler[u].at \in {"stop", "shut"})',
               (handler[u].then # "respond")'
        PROVE  once'[handler'[u].closing] # "no"
    <3>1. handler'[u] = handler[u]
      BY <2>1, ApartBusy DEF Busy
    <3>. QED
      BY <1>2, <2>1, <3>1 DEF IInv, CloseRuns
  <2>2. ASSUME NEW c \in Session, once'[c] = "running"
        PROVE  \E u \in Thread : handler'[u].at \in {"stop", "shut"} /\ handler'[u].closing = c
                                 /\ handler'[u].then # "respond"
    <3>1. PICK u \in Thread : handler[u].at \in {"stop", "shut"} /\ handler[u].closing = c
                              /\ handler[u].then # "respond"
      BY <1>2, <2>2 DEF IInv, CloseRuns
    <3>2. handler'[u] = handler[u]
      BY <3>1, ApartBusy DEF Busy
    <3>. QED
      BY <3>1, <3>2
  <2>3. ASSUME NEW c \in Session, once'[c] = "done" PROVE ~connOpen'[c]
    BY <1>2, <2>3 DEF IInv, CloseRuns, Together
  <2>. QED
    BY <2>1, <2>2, <2>3 DEF CloseRuns
<1>6. Agreement'
  <2>1. ASSUME NEW c \in Session, owned'[c] \/ Learns(c)', active' # c PROVE Leaves(c)'
    <3>1. (owned[c] \/ Learns(c)) /\ active # c
      BY <1>1, <2>1 DEF Together
    <3>. QED
      BY <3>1, ApartSame DEF IInv, Agreement
  <2>2. ASSUME NEW c \in Session, active' = c, ~owned'[c]
        PROVE  Learns(c)' \/ Stops(c)' \/ once'[c] # "no"
    <3>1. \/ Learns(c)'
          \/ active = c /\ ~owned[c] /\ (c # t \/ ~Learns(c))
      BY <1>1, <2>2 DEF Together
    <3>. QED
      BY <1>1, <1>2, <3>1, ApartSame DEF IInv, Agreement
  <2>. QED
    BY <2>1, <2>2 DEF Agreement
<1>7. ClosedTakesNothing'
  BY <1>1, <1>2 DEF IInv, ClosedTakesNothing, Together
<1>8. ShutReleased'
  <2>1. ASSUME NEW c \in Session, ~overtaken'[c], Shuts(c)'
        PROVE  /\ active' # c \/ Stops(c)'
               /\ once'[c] = "done" => sockets'[c] # "open"
    <3>1. Shuts(c) /\ ~overtaken[c] /\ once[c] # "no"
      BY <2>1, ApartSame, ShutsInClose DEF Together
    <3>2. ~InHand(c)
      BY <3>1 DEF IInv, ClosedTakesNothing
    <3>3. active' = c => active = c
      BY <1>1, <3>2 DEF Together
    <3>4. sockets'[c] = sockets[c]
      BY <3>2 DEF Together
    <3>. QED
      BY <1>2, <3>1, <3>3, <3>4, ApartSame DEF IInv, ShutReleased
  <2>2. \A c \in Session : once'[c] = "done" => Shuts(c)'
    BY DEF Shuts
  <2>. QED
    BY <2>1, <2>2 DEF ShutReleased
<1>. QED
  BY <1>3, <1>4, <1>5, <1>6, <1>7, <1>8

\* A goroutine begins to close c, perhaps because it took the speaker from it.
LEMMA BeginsClose ==
  ASSUME IInv, NEW t \in Thread, NEW c \in Session, NEW request, NEW then,
         HandlerTyped', OthersStay(t), Stands(t, "close", request, c, then),
         ~Busy(t), ~Fresh(c), then # "respond",
         t \in Session => ~Fresh(t) /\ ~Learns(t),
         UNCHANGED <<owned, once, connOpen, sockets, overtaken>>, leaving' \subseteq leaving,
         \/ then # "own" /\ UNCHANGED active
         \/ then = "own" /\ t \in Session /\ active = c /\ active' = t /\ InHand(t)
  PROVE  FreshUnknown' /\ PauseStops' /\ CloseRuns' /\ Agreement'
         /\ ClosedTakesNothing' /\ ShutReleased'
<1>1. \A u \in Thread : u # t => handler'[u] = handler[u]
  BY DEF OthersStay
<1>2. /\ handler'[t].at = "close" /\ handler'[t].closing = c /\ handler'[t].then = then
      /\ Busy(t)'
  BY DEF Stands, Busy
<1>3. \A s \in Session : s \in Thread
  BY DEF Thread
<1>4. \A s \in Session : s # t => /\ Fresh(s)' <=> Fresh(s)
                                  /\ Learns(s)' <=> Learns(s)
                                  /\ InHand(s)' <=> InHand(s)
  BY <1>1, <1>3 DEF Fresh, Learns, InHand, Busy
<1>5. t \in Session => ~Fresh(t)' /\ (Learns(t)' <=> then = "own")
                       /\ (InHand(t)' <=> then = "own")
  BY <1>2 DEF Fresh, Learns, InHand, Busy
<1>6. \A u \in Thread : handler[u].at \in {"close", "stop", "shut"} => handler'[u] = handler[u]
  BY <1>1 DEF Busy
<1>7. \A u \in Thread : handler'[u].at \in {"stop", "shut"} => handler'[u] = handler[u]
  BY <1>1, <1>2
<1>8. \A s \in Session : (Leaves(s) => Leaves(s)') /\ (Stops(s) <=> Stops(s)') /\ (Shuts(s) <=> Shuts(s)')
  BY <1>6, <1>7 DEF Leaves, Stops, Shuts
<1>9. FreshUnknown'
  BY <1>1, <1>2, <1>3, <1>4, <1>5 DEF IInv, FreshUnknown, Busy
<1>10. PauseStops'
  BY <1>1, <1>2 DEF IInv, PauseStops, Busy
<1>11. CloseRuns'
  <2>1. ASSUME NEW s \in Session, once[s] = "running"
        PROVE  \E u \in Thread : handler'[u].at \in {"stop", "shut"} /\ handler'[u].closing = s
                                 /\ handler'[u].then # "respond"
    <3>1. PICK u \in Thread : handler[u].at \in {"stop", "shut"} /\ handler[u].closing = s
                              /\ handler[u].then # "respond"
      BY <2>1 DEF IInv, CloseRuns
    <3>. QED
      BY <1>6, <3>1
  <2>. QED
    BY <1>7, <2>1 DEF IInv, CloseRuns
<1>12. Agreement'
  <2>1. ASSUME NEW s \in Session, owned[s] \/ Learns(s)', active' # s PROVE Leaves(s)'
    <3>1. CASE active = s /\ active' = t
      BY <1>2, <2>1, <3>1 DEF Leaves
    <3>2. CASE active # s
      <4>1. owned[s] \/ Learns(s)
        BY <1>4, <1>5, <2>1
      <4>. QED
        BY <1>8, <3>2, <4>1 DEF IInv, Agreement
    <3>. QED
      BY <2>1, <3>1, <3>2
  <2>2. ASSUME NEW s \in Session, active' = s, ~owned[s]
        PROVE  Learns(s)' \/ Stops(s)' \/ once[s] # "no"
    <3>1. CASE then = "own"
      BY <1>5, <2>2, <3>1
    <3>2. CASE then # "own"
      BY <1>4, <1>8, <2>2, <3>2 DEF IInv, Agreement
    <3>. QED
      BY <3>1, <3>2
  <2>. QED
    BY <2>1, <2>2 DEF Agreement
<1>13. ClosedTakesNothing'
  BY <1>4, <1>5 DEF IInv, ClosedTakesNothing
<1>14. ShutReleased'
  <2>1. ASSUME NEW s \in Session, ~overtaken[s], Shuts(s) PROVE active' # s \/ Stops(s)'
    <3>1. active # s \/ Stops(s)
      BY <2>1 DEF IInv, ShutReleased
    <3>2. ~InHand(s)
      BY <2>1, ShutsInClose DEF IInv, ClosedTakesNothing
    <3>. QED
      BY <1>8, <3>1, <3>2
  <2>. QED
    BY <1>8, <2>1 DEF IInv, ShutReleased
<1>. QED
  BY <1>9, <1>10, <1>11, <1>12, <1>13, <1>14

-----------------------------------------------------------------------------
\* Steps inside Close and PAUSE, of a goroutine t that has session c in hand.

\* PAUSE takes the session's own flag and goes to tell the arbiter.
LEMMA BeginsStop ==
  ASSUME IInv, NEW t \in Session, NEW request,
         HandlerTyped', OthersStay(t), Stands(t, "stop", request, t, "respond"),
         handler[t].at = "dispatch",
         owned' = [owned EXCEPT ![t] = FALSE],
         UNCHANGED <<active, once, connOpen, sockets, overtaken, leaving>>
  PROVE  FreshUnknown' /\ PauseStops' /\ CloseRuns' /\ Agreement'
         /\ ClosedTakesNothing' /\ ShutReleased'
<1>1. \A u \in Thread : u # t => handler'[u] = handler[u]
  BY DEF OthersStay
<1>2. /\ handler'[t].at = "stop" /\ handler'[t].closing = t /\ handler'[t].then = "respond"
      /\ t \in Thread
  BY DEF Stands, Thread
<1>3. ~owned'[t] /\ \A s \in Session : s # t => owned'[s] = owned[s]
  BY DEF IInv, TypeInv
<1>4. ~Fresh(t)' /\ ~Learns(t)' /\ ~InHand(t)' /\ ~Fresh(t) /\ ~Learns(t)
  BY <1>2 DEF Fresh, Learns, InHand, Busy
<1>5. \A u \in Thread : handler[u].at \in {"close", "stop", "shut"} => handler'[u] = handler[u]
  BY <1>1
<1>6. \A s \in Session : (Leaves(s) => Leaves(s)') /\ (Stops(s) => Stops(s)') /\ (Shuts(s)' => Shuts(s))
  BY <1>1, <1>2, <1>5 DEF Leaves, Stops, Shuts
<1>7. FreshUnknown'
  <2>1. ASSUME NEW s \in Session, Fresh(s)' PROVE s # t /\ Fresh(s)
    BY <1>2, <1>4, <2>1, OthersSame
  <2>. QED
    BY <1>1, <1>2, <1>3, <2>1 DEF IInv, FreshUnknown, Busy
<1>8. PauseStops'
  BY <1>1, <1>2, <1>3 DEF IInv, PauseStops, Busy, Thread
<1>9. CloseRuns'
  <2>1. ASSUME NEW s \in Session, once[s] = "running"
        PROVE  \E u \in Thread : handler'[u].at \in {"stop", "shut"} /\ handler'[u].closing = s
                                 /\ handler'[u].then # "respond"
    <3>1. PICK u \in Thread : handler[u].at \in {"stop", "shut"} /\ handler[u].closing = s
                              /\ handler[u].then # "respond"
      BY <2>1 DEF IInv, CloseRuns
    <3>. QED
      BY <1>5, <3>1
  <2>. QED
    BY <1>1, <1>2, <2>1 DEF IInv, CloseRuns
<1>10. Agreement'
  <2>1. ASSUME NEW s \in Session, owned'[s] \/ Learns(s)', active # s PROVE Leaves(s)'
    BY <1>2, <1>3, <1>4, <1>6, <2>1, OthersSame DEF IInv, Agreement
  <2>2. ASSUME NEW s \in Session, active = s, ~owned'[s]
        PROVE  Learns(s)' \/ Stops(s)' \/ once[s] # "no"
    <3>1. CASE s = t
      BY <1>2, <3>1 DEF Stops
    <3>2. CASE s # t
      BY <1>2, <1>3, <1>6, <2>2, <3>2, OthersSame DEF IInv, Agreement
    <3>. QED
      BY <3>1, <3>2
  <2>. QED
    BY <2>1, <2>2 DEF Agreement
<1>11. ClosedTakesNothing'
  BY <1>2, <1>4, OthersSame DEF IInv, ClosedTakesNothing
<1>12. ShutReleased'
  BY <1>6 DEF IInv, ShutReleased
<1>. QED
  BY <1>7, <1>8, <1>9, <1>10, <1>11, <1>12

\* The body of Close begins: the session no longer owns, and is stopped or shut.
LEMMA ClosesFirstKeeps ==
  ASSUME IInv, NEW t \in Thread, NEW c \in Session, handler[t].at = "close",
         handler[t].closing = c, ClosesFirst(t, c),
         UNCHANGED <<active, connOpen, sockets, leaving>>
  PROVE  HandlerTyped' /\ FreshUnknown' /\ PauseStops' /\ CloseRuns' /\ Agreement'
         /\ ClosedTakesNothing' /\ ShutReleased'
<1>. DEFINE place == IF owned[c] THEN "stop" ELSE "shut"
            then == handler[t].then
<1>1. /\ HandlerTyped' /\ OthersStay(t)
      /\ handler'[t].at = place /\ handler'[t].closing = c /\ handler'[t].then = then
  <2>1. place \in Places \ {"read", "gone"}
    BY DEF Places
  <2>2. Goes(t, place)
    BY DEF ClosesFirst
  <2>. HIDE DEF place
  <2>. QED
    BY <2>1, <2>2, GoesMoves DEF IInv, TypeInv, Stands
<1>2. \A u \in Thread : u # t => handler'[u] = handler[u]
  BY <1>1 DEF OthersStay
<1>3. then # "respond" /\ ~Fresh(c) /\ place \in {"stop", "shut"}
  BY DEF IInv, PauseStops, FreshUnknown, Busy
<1>4. /\ once[c] = "no" /\ once'[c] = "running" /\ ~owned'[c] /\ (overtaken'[c] <=> InHand(c))
      /\ \A s \in Session : s # c => /\ once'[s] = once[s] /\ owned'[s] = owned[s]
                                     /\ overtaken'[s] = overtaken[s]
  BY DEF ClosesFirst, IInv, TypeInv
<1>5. \A s \in Session : /\ Fresh(s)' <=> Fresh(s)
                         /\ Learns(s)' <=> Learns(s)
                         /\ InHand(s)' <=> InHand(s)
  <2>1. t \in Session => ~Fresh(t) /\ ~Fresh(t)' /\ (Learns(t)' <=> Learns(t)) /\ (InHand(t)' <=> InHand(t))
    BY <1>1, <1>3 DEF Fresh, Learns, InHand, Busy
  <2>. QED
    BY <1>1, <2>1, OthersSame
<1>6. \A s \in Session : s # c => /\ (Leaves(s) => Leaves(s)') /\ (Stops(s) <=> Stops(s)')
                                  /\ (Shuts(s) <=> Shuts(s)')
  BY <1>1, <1>2, <1>4 DEF Leaves, Stops, Shuts
<1>7. FreshUnknown'
  BY <1>1, <1>2, <1>3, <1>4, <1>5 DEF IInv, FreshUnknown, Busy
<1>8. PauseStops'
  <2>1. ASSUME NEW u \in Thread, Busy(u)', handler'[u].then = "respond"
        PROVE  handler'[u].at = "stop" /\ handler'[u].closing = u /\ ~owned'[u]
    <3>1. u # t /\ handler'[u] = handler[u]
      BY <1>1, <1>2, <1>3, <2>1
    <3>2. handler[u].at = "stop" /\ handler[u].closing = u /\ ~owned[u] /\ u \in Session
      BY <2>1, <3>1 DEF IInv, TypeInv, PauseStops, Busy
    <3>. QED
      BY <1>4, <3>1, <3>2
  <2>. QED
    BY <2>1 DEF PauseStops
<1>9. CloseRuns'
  <2>1. ASSUME NEW u \in Thread, handler'[u].at \in {"stop", "shut"}, handler'[u].then # "respond"
        PROVE  once'[handler'[u].closing] # "no"
    BY <1>1, <1>2, <1>4, <2>1 DEF IInv, TypeInv, CloseRuns, Busy
  <2>2. ASSUME NEW s \in Session, once'[s] = "running"
        PROVE  \E u \in Thread : handler'[u].at \in {"stop", "shut"} /\ handler'[u].closing = s
                                 /\ handler'[u].then # "respond"
    <3>1. CASE s = c
      BY <1>1, <1>3, <3>1
    <3>2. CASE s # c
      <4>1. PICK u \in Thread : handler[u].at \in {"stop", "shut"} /\ handler[u].closing = s
                                /\ handler[u].then # "respond"
        BY <1>4, <2>2, <3>2 DEF IInv, CloseRuns
      <4>. QED
        BY <1>2, <4>1
    <3>. QED
      BY <3>1, <3>2
  <2>. QED
    BY <1>4, <2>1, <2>2 DEF IInv, CloseRuns
<1>10. Agreement'
  <2>1. Leaves(c)' /\ once'[c] # "no"
    BY <1>4 DEF Leaves
  <2>. QED
    BY <1>4, <1>5, <1>6, <2>1 DEF IInv, Agreement
<1>11. ClosedTakesNothing'
  BY <1>4, <1>5 DEF IInv, ClosedTakesNothing
<1>12. ShutReleased'
  <2>1. ASSUME ~overtaken'[c], active = c PROVE Stops(c)'
    <3>1. CASE owned[c]
      BY <1>1, <3>1 DEF Stops
    <3>2. CASE ~owned[c]
      <4>1. ~Learns(c)
        BY <1>4, <2>1 DEF Learns, InHand, Busy
      <4>2. Stops(c)
        BY <1>4, <2>1, <3>2, <4>1 DEF IInv, Agreement
      <4>. QED
        BY <1>2, <4>2 DEF Stops
    <3>. QED
      BY <3>1, <3>2
  <2>. QED
    BY <1>4, <1>6, <2>1 DEF IInv, ShutReleased
<1>. QED
  BY <1>1, <1>7, <1>8, <1>9, <1>10, <1>11, <1>12

\* OnSessionStop: the arbiter has the session no longer, whoever asked.
LEMMA SessionStopKeeps ==
  ASSUME IInv, NEW t \in Thread, NEW c \in Session, handler[t].at = "stop",
         handler[t].closing = c, active' # c, active' \in {active, NoSession},
         HandlerTyped', OthersStay(t),
         IF handler[t].then = "respond"
         THEN handler'[t].at = "respond"
         ELSE /\ handler'[t].at = "shut" /\ handler'[t].closing = c
              /\ handler'[t].then = handler[t].then,
         active' # active => active = c,
         UNCHANGED <<owned, once, connOpen, sockets, leaving, overtaken>>
  PROVE  FreshUnknown' /\ PauseStops' /\ CloseRuns' /\ Agreement'
         /\ ClosedTakesNothing' /\ ShutReleased'
<1>1. \A u \in Thread : u # t => handler'[u] = handler[u]
  BY DEF OthersStay
<1>2. /\ handler'[t].at \in {"respond", "shut"} /\ (Busy(t)' <=> handler'[t].at = "shut")
      /\ Busy(t)' => /\ handler[t].then # "respond" /\ handler'[t].then = handler[t].then
                     /\ handler'[t].closing = c
      /\ ~Busy(t)' => handler[t].then = "respond"
  BY DEF Busy
<1>3. ~Busy(t)' => c = t /\ ~owned[c]
  BY <1>2 DEF IInv, PauseStops, Busy
<1>4. \A s \in Session : /\ Fresh(s)' <=> Fresh(s)
                         /\ Learns(s)' <=> Learns(s)
                         /\ InHand(s)' <=> InHand(s)
  <2>1. ~Fresh(t) /\ ~Fresh(t)' /\ (Learns(t)' <=> Learns(t)) /\ (InHand(t)' <=> InHand(t))
    BY <1>2 DEF Fresh, Learns, InHand, Busy
  <2>. QED
    BY <2>1, OthersSame
<1>5. /\ \A s \in Session : (Leaves(s) <=> Leaves(s)') /\ (Stops(s)' => Stops(s))
      /\ \A s \in Session : s # c => (Stops(s) <=> Stops(s)') /\ (Shuts(s) <=> Shuts(s)')
  BY <1>1, <1>2 DEF Leaves, Stops, Shuts, Busy
<1>6. FreshUnknown'
  BY <1>1, <1>2, <1>4, NoSessionAssumption DEF IInv, FreshUnknown, Busy
<1>7. PauseStops'
  BY <1>1, <1>2 DEF IInv, PauseStops, Busy
<1>8. CloseRuns'
  <2>1. ASSUME NEW u \in Thread, handler'[u].at \in {"stop", "shut"}, handler'[u].then # "respond"
        PROVE  once'[handler'[u].closing] # "no"
    BY <1>1, <1>2, <2>1 DEF IInv, CloseRuns, Busy
  <2>2. ASSUME NEW s \in Session, once[s] = "running"
        PROVE  \E u \in Thread : handler'[u].at \in {"stop", "shut"} /\ handler'[u].closing = s
                                 /\ handler'[u].then # "respond"
    <3>1. PICK u \in Thread : handler[u].at \in {"stop", "shut"} /\ handler[u].closing = s
                              /\ handler[u].then # "respond"
      BY <2>2 DEF IInv, CloseRuns
    <3>2. CASE u = t
      BY <1>2, <3>1, <3>2
    <3>3. CASE u # t
      BY <1>1, <3>1, <3>3
    <3>. QED
      BY <3>2, <3>3
  <2>. QED
    BY <2>1, <2>2 DEF IInv, CloseRuns
<1>9. Agreement'
  <2>1. ASSUME NEW s \in Session, owned[s] \/ Learns(s), active' # s PROVE Leaves(s)
    <3>1. CASE active # s
      BY <2>1, <3>1 DEF IInv, Agreement
    <3>2. CASE active = s
      <4>1. s = c
        BY <2>1, <3>2
      <4>2. CASE Busy(t)'
        BY <1>2, <4>1, <4>2 DEF IInv, CloseRuns, Leaves
      <4>3. CASE ~Busy(t)'
        <5>1. c = t /\ ~owned[c] /\ handler[t].then = "respond"
          BY <1>2, <1>3, <4>3
        <5>2. ~Learns(c)
          BY <5>1 DEF Learns
        <5>. QED
          BY <2>1, <4>1, <5>1, <5>2
      <4>. QED
        BY <4>2, <4>3
    <3>. QED
      BY <3>1, <3>2
  <2>2. ASSUME NEW s \in Session, active' = s, ~owned[s]
        PROVE  Learns(s) \/ Stops(s)' \/ once[s] # "no"
    <3>1. active = s /\ s # c
      BY <2>2, NoSessionAssumption
    <3>. QED
      BY <1>5, <2>2, <3>1 DEF IInv, Agreement
  <2>. QED
    BY <1>4, <1>5, <2>1, <2>2 DEF Agreement
<1>10. ClosedTakesNothing'
  BY <1>4 DEF IInv, ClosedTakesNothing
<1>11. ShutReleased'
  <2>1. ASSUME NEW s \in Session, ~overtaken[s], Shuts(s)' PROVE active' # s \/ Stops(s)'
    <3>1. CASE s = c
      BY <3>1
    <3>2. CASE s # c
      <4>1. active # s \/ Stops(s)'
        BY <1>5, <2>1, <3>2 DEF IInv, ShutReleased
      <4>. QED
        BY <4>1, NoSessionAssumption
    <3>. QED
      BY <3>1, <3>2
  <2>. QED
    BY <2>1 DEF IInv, ShutReleased
<1>. QED
  BY <1>6, <1>7, <1>8, <1>9, <1>10, <1>11

\* A Close that came second goes on when the first is over.
LEMMA SecondCloseKeeps ==
  ASSUME IInv, NEW t \in Thread, NEW c \in Session, handler[t].at = "close",
         handler[t].closing = c, once[c] = "done", GoesOn(t),
         UNCHANGED <<active, owned, once, connOpen, sockets, leaving, overtaken>>
  PROVE  HandlerTyped' /\ FreshUnknown' /\ PauseStops' /\ CloseRuns' /\ Agreement'
         /\ ClosedTakesNothing' /\ ShutReleased'
<1>1. /\ HandlerTyped' /\ OthersStay(t) /\ handler'[t].at = handler[t].then
      /\ handler[t].then \in Returns
  BY GoesOnMoves, HandlerHas DEF IInv, TypeInv, Stands
<1>2. \A u \in Thread : u # t => handler'[u] = handler[u]
  BY <1>1 DEF OthersStay
<1>3. handler[t].then # "respond" /\ ~Busy(t)' /\ Busy(t)
  BY <1>1 DEF IInv, PauseStops, Busy, Returns
<1>4. \A s \in Session : /\ Fresh(s)' <=> Fresh(s)
                         /\ Learns(s)' <=> Learns(s)
                         /\ InHand(s)' <=> InHand(s)
  <2>1. ~Fresh(t) /\ ~Fresh(t)' /\ (Learns(t)' <=> Learns(t)) /\ (InHand(t)' <=> InHand(t))
    BY <1>1, <1>3 DEF Fresh, Learns, InHand, Busy, Returns
  <2>. QED
    BY <1>1, <2>1, OthersSame
<1>5. \A s \in Session : (Leaves(s) <=> Leaves(s)') /\ (Stops(s) <=> Stops(s)') /\ (Shuts(s) <=> Shuts(s)')
  <2>. TAKE s \in Session
  <2>1. \A u \in Thread : \/ handler'[u] = handler[u]
                          \/ u = t /\ handler[u].at = "close" /\ handler'[u].at \notin {"close", "stop", "shut"}
    BY <1>2, <1>3 DEF Busy
  <2>2. Leaves(s) <=> Leaves(s)'
    <3>1. CASE s = c
      BY <3>1 DEF Leaves
    <3>2. CASE s # c
      BY <2>1, <3>2 DEF Leaves
    <3>. QED
      BY <3>1, <3>2
  <2>3. Stops(s) <=> Stops(s)'
    BY <2>1 DEF Stops
  <2>4. Shuts(s) <=> Shuts(s)'
    BY <2>1 DEF Shuts
  <2>. QED
    BY <2>2, <2>3, <2>4
<1>6. FreshUnknown'
  BY <1>2, <1>3, <1>4 DEF IInv, FreshUnknown, Busy
<1>7. PauseStops'
  BY <1>2, <1>3 DEF IInv, PauseStops, Busy
<1>8. CloseRuns'
  <2>1. ASSUME NEW s \in Session, once[s] = "running"
        PROVE  \E u \in Thread : handler'[u].at \in {"stop", "shut"} /\ handler'[u].closing = s
                                 /\ handler'[u].then # "respond"
    <3>1. PICK u \in Thread : handler[u].at \in {"stop", "shut"} /\ handler[u].closing = s
                              /\ handler[u].then # "respond"
      BY <2>1 DEF IInv, CloseRuns
    <3>. QED
      BY <1>2, <3>1
  <2>. QED
    BY <1>2, <1>3, <2>1 DEF IInv, CloseRuns, Busy
<1>9. Agreement'
  BY <1>4, <1>5 DEF IInv, Agreement
<1>10. ClosedTakesNothing'
  BY <1>4 DEF IInv, ClosedTakesNothing
<1>11. ShutReleased'
  BY <1>5 DEF IInv, ShutReleased
<1>. QED
  BY <1>1, <1>6, <1>7, <1>8, <1>9, <1>10, <1>11

\* The end of Close: whatever the session had open is closed.
LEMMA ShutKeeps ==
  ASSUME IInv, NEW t \in Thread, NEW c \in Session, handler[t].at = "shut",
         handler[t].closing = c, GoesOn(t),
         connOpen' = [connOpen EXCEPT ![c] = FALSE],
         sockets' = [sockets EXCEPT ![c] = IF @ = "open" THEN "closed" ELSE @],
         once' = [once EXCEPT ![c] = "done"],
         UNCHANGED <<active, owned, leaving, overtaken>>
  PROVE  HandlerTyped' /\ FreshUnknown' /\ PauseStops' /\ CloseRuns' /\ Agreement'
         /\ ClosedTakesNothing' /\ ShutReleased'
<1>1. /\ HandlerTyped' /\ OthersStay(t) /\ handler'[t].at = handler[t].then
      /\ handler[t].then \in Returns
  BY GoesOnMoves, HandlerHas DEF IInv, TypeInv, Stands
<1>2. \A u \in Thread : u # t => handler'[u] = handler[u]
  BY <1>1 DEF OthersStay
<1>3. handler[t].then # "respond" /\ ~Busy(t)' /\ Busy(t) /\ ~Fresh(c)
  BY <1>1 DEF IInv, PauseStops, FreshUnknown, Busy, Returns
<1>4. \A s \in Session : /\ Fresh(s)' <=> Fresh(s)
                         /\ Learns(s)' <=> Learns(s)
                         /\ InHand(s)' <=> InHand(s)
  <2>1. ~Fresh(t) /\ ~Fresh(t)' /\ (Learns(t)' <=> Learns(t)) /\ (InHand(t)' <=> InHand(t))
    BY <1>1, <1>3 DEF Fresh, Learns, InHand, Busy, Returns
  <2>. QED
    BY <1>1, <2>1, OthersSame
<1>5. /\ once'[c] = "done" /\ ~connOpen'[c] /\ sockets'[c] # "open" /\ once[c] # "no"
      /\ \A s \in Session : s # c => /\ once'[s] = once[s] /\ connOpen'[s] = connOpen[s]
                                     /\ sockets'[s] = sockets[s]
  <2>1. once[c] # "no"
    BY <1>3 DEF IInv, CloseRuns
  <2>. QED
    BY <2>1 DEF IInv, TypeInv
<1>6. /\ \A s \in Session : (Leaves(s) <=> Leaves(s)') /\ (Stops(s) <=> Stops(s)')
      /\ \A s \in Session : s # c => (Shuts(s) <=> Shuts(s)')
      /\ Shuts(c)
  <2>1. \A u \in Thread : \/ handler'[u] = handler[u]
                          \/ /\ u = t /\ handler[u].at = "shut" /\ handler[u].closing = c
                             /\ handler'[u].at \notin {"close", "stop", "shut"}
    BY <1>2, <1>3 DEF Busy
  <2>2. ASSUME NEW s \in Session PROVE Leaves(s) <=> Leaves(s)'
    <3>1. CASE s = c
      BY <1>5, <3>1 DEF Leaves
    <3>2. CASE s # c
      BY <1>5, <2>1, <3>2 DEF Leaves
    <3>. QED
      BY <3>1, <3>2
  <2>3. ASSUME NEW s \in Session PROVE Stops(s) <=> Stops(s)'
    BY <2>1 DEF Stops
  <2>4. ASSUME NEW s \in Session, s # c PROVE Shuts(s) <=> Shuts(s)'
    BY <1>5, <2>1, <2>4 DEF Shuts
  <2>5. Shuts(c)
    BY DEF Shuts
  <2>. QED
    BY <2>2, <2>3, <2>4, <2>5
<1>7. FreshUnknown'
  BY <1>2, <1>3, <1>4, <1>5 DEF IInv, FreshUnknown, Busy
<1>8. PauseStops'
  BY <1>2, <1>3 DEF IInv, PauseStops, Busy
<1>9. CloseRuns'
  <2>1. ASSUME NEW s \in Session, once'[s] = "running"
        PROVE  \E u \in Thread : handler'[u].at \in {"stop", "shut"} /\ handler'[u].closing = s
                                 /\ handler'[u].then # "respond"
    <3>1. s # c /\ once[s] = "running"
      BY <1>5, <2>1
    <3>2. PICK u \in Thread : handler[u].at \in {"stop", "shut"} /\ handler[u].closing = s
                              /\ handler[u].then # "respond"
      BY <3>1 DEF IInv, CloseRuns
    <3>. QED
      BY <1>2, <3>1, <3>2
  <2>2. ASSUME NEW u \in Thread, handler'[u].at \in {"stop", "shut"}, handler'[u].then # "respond"
        PROVE  once'[handler'[u].closing] # "no"
    BY <1>2, <1>3, <1>5, <2>2 DEF IInv, TypeInv, CloseRuns, Busy
  <2>. QED
    BY <1>5, <2>1, <2>2 DEF IInv, CloseRuns
<1>10. Agreement'
  BY <1>4, <1>5, <1>6 DEF IInv, Agreement
<1>11. ClosedTakesNothing'
  BY <1>4, <1>5 DEF IInv, ClosedTakesNothing
<1>12. ShutReleased'
  BY <1>5, <1>6 DEF IInv, ShutReleased
<1>. QED
  BY <1>1, <1>7, <1>8, <1>9, <1>10, <1>11, <1>12

-----------------------------------------------------------------------------
\* The steps of the specification.

LEMMA ManagerKeeps ==
  ASSUME ManagerInv, NEW s \in Session,
         \/ AcquireNew(s) \/ AcquireAgain(s) \/ Reject(s) \/ Touch(s) \/ Release(s)
         \/ UNCHANGED managerVars
  PROVE  ManagerInv'
  BY ManagerNextInv DEF ManagerNext, SessionOrNone

LEMMA ActiveIs == ManagerInv => active \in SessionOrNone
  BY DEF ManagerInv, ManagerTypeOK

\* A step that leaves the flags, the arbiter and the sockets alone.
LEMMA QuietKeeps ==
  ASSUME IInv, NEW t \in Thread, HandlerTyped', OthersStay(t), ~Busy(t), ~Busy(t)',
         UNCHANGED <<active, owned, once, sockets, leaving, overtaken>>,
         \A c \in Session : connOpen'[c] => connOpen[c] \/ once[c] = "no",
         t \in Session => /\ Fresh(t)' => Fresh(t)
                          /\ Learns(t)' <=> Learns(t)
                          /\ InHand(t)' => InHand(t)
  PROVE  FreshUnknown' /\ PauseStops' /\ CloseRuns' /\ Agreement'
         /\ ClosedTakesNothing' /\ ShutReleased'
<1>1. Apart(t)
  BY DEF Apart
<1>2. Together(t)
  BY DEF Together
<1>. QED
  BY <1>1, <1>2, ApartKeeps

LEMMA AcceptInv == ASSUME IInv, NEW s \in Session, Accept(s) PROVE IInv'
<1>1. /\ HandlerTyped' /\ OthersStay(s) /\ handler'[s].at = "accepted" /\ handler[s].at = "new"
      /\ s \in Thread
  BY GoesMoves DEF IInv, TypeInv, Accept, Stands, Places, Thread
<1>2. connOpen' = [connOpen EXCEPT ![s] = TRUE] /\ once[s] = "no"
      /\ UNCHANGED <<managerVars, owned, once, serverVars, records>>
  BY <1>1 DEF Accept, IInv, FreshUnknown, Fresh
<1>3. TypeInv'
  <2>1. \A t \in Thread : Busy(t)' => handler'[t].closing \in Session
    BY <1>1 DEF IInv, TypeInv, OthersStay, Busy
  <2>. QED
    BY <1>1, <1>2, <2>1, ManagerKeeps DEF IInv, TypeInv, serverVars
<1>4. FreshUnknown' /\ PauseStops' /\ CloseRuns' /\ Agreement' /\ ClosedTakesNothing' /\ ShutReleased'
  BY <1>1, <1>2, QuietKeeps
  DEF IInv, TypeInv, Fresh, Learns, InHand, Busy, managerVars, serverVars
<1>. QED
  BY <1>3, <1>4 DEF IInv

\* A step of session s between two of its places outside Close.
LEMMA PlaceToPlace ==
  ASSUME IInv, NEW s \in Session, HandlerTyped', OthersStay(s),
         handler[s].at \in {"accepted", "dispatch", "acquire", "respond"},
         handler'[s].at \in {"read", "acquire", "respond"},
         handler'[s].at = "acquire" => handler[s].at \in {"dispatch", "acquire"},
         sockets' \in [Session -> {"none", "open", "closed"}],
         \A c \in Session : sockets'[c] = sockets[c] \/ (c = s /\ handler[s].at = "dispatch"),
         UNCHANGED <<active, owned, once, connOpen, leaving, overtaken, listening, records>>,
         ManagerInv'
  PROVE  IInv'
<1>1. s \in Thread
  BY DEF Thread
<1>2. TypeInv'
  <2>1. \A t \in Thread : Busy(t)' => handler'[t].closing \in Session
    BY DEF IInv, TypeInv, OthersStay, Busy
  <2>. QED
    BY <2>1 DEF IInv, TypeInv
<1>3. /\ ~Busy(s) /\ ~Busy(s)' /\ ~Fresh(s)' /\ ~Learns(s) /\ ~Learns(s)'
      /\ InHand(s)' => InHand(s)
      /\ handler[s].at = "dispatch" => InHand(s)
  BY DEF Busy, Fresh, Learns, InHand
<1>4. Apart(s)
  BY <1>3 DEF Apart
<1>5. Together(s)
  BY <1>3 DEF Together
<1>. QED
  BY <1>1, <1>2, <1>4, <1>5, ApartKeeps DEF IInv

LEMMA NewSessionInv == ASSUME IInv, NEW s \in Session, NewSession(s) PROVE IInv'
<1>1. HandlerTyped' /\ OthersStay(s) /\ handler[s].at = "accepted" /\ handler'[s].at = "read"
  BY EndsMoves DEF IInv, TypeInv, NewSession, Stands, Thread
<1>2. UNCHANGED <<managerVars, owned, once, connOpen, serverVars, records>>
  BY DEF NewSession
<1>3. ManagerInv'
  BY <1>2, ManagerKeeps DEF IInv, TypeInv
<1>. QED
  BY <1>1, <1>2, <1>3, PlaceToPlace DEF IInv, TypeInv, managerVars, serverVars

LEMMA DispatchInv ==
  ASSUME IInv, NEW s \in Session, DispatchSetup(s) \/ DispatchRecord(s) \/ DispatchTeardown(s)
  PROVE  IInv'
<1>1. /\ HandlerTyped' /\ OthersStay(s) /\ handler[s].at = "dispatch"
      /\ handler'[s].at \in {"acquire", "respond"}
  <2>1. Goes(s, "respond") \/ Goes(s, "acquire")
    BY DEF DispatchSetup, DispatchRecord, DispatchTeardown
  <2>. QED
    BY <2>1, GoesMoves
    DEF IInv, TypeInv, DispatchSetup, DispatchRecord, DispatchTeardown, Stands, Places, Thread
<1>2. ManagerInv' /\ UNCHANGED active
  <2>1. Touch(s) \/ UNCHANGED managerVars
    BY DEF DispatchSetup, DispatchRecord, DispatchTeardown
  <2>. QED
    BY <2>1, ManagerKeeps DEF IInv, TypeInv, Touch, managerVars
<1>3. /\ sockets' \in [Session -> {"none", "open", "closed"}]
      /\ \A c \in Session : sockets'[c] = sockets[c] \/ c = s
  BY DEF IInv, TypeInv, DispatchSetup, DispatchRecord, DispatchTeardown, serverVars
<1>4. UNCHANGED <<owned, once, connOpen, leaving, overtaken, listening, records>>
  BY DEF DispatchSetup, DispatchRecord, DispatchTeardown, serverVars
<1>. QED
  BY <1>1, <1>2, <1>3, <1>4, PlaceToPlace

\* A request of a session whose Close has begun overtakes it.
LEMMA ReceiveInv ==
  ASSUME IInv, NEW s \in Session, NEW request \in {"SETUP", "RECORD", "PAUSE", "TEARDOWN"},
         Receive(s, request)
  PROVE  IInv'
<1>1. /\ HandlerTyped' /\ OthersStay(s) /\ handler[s].at = "read" /\ handler'[s].at = "dispatch"
      /\ s \in Thread
  BY ReceiveMoves DEF IInv, TypeInv, Receive, Stands, Requests, Thread
<1>2. /\ UNCHANGED <<managerVars, owned, once, connOpen, sockets, listening, leaving>>
      /\ overtaken' = [overtaken EXCEPT ![s] = @ \/ once[s] # "no"]
      /\ records' \in 0..MaxRecords
  BY RecordsAssumption DEF IInv, TypeInv, Receive
<1>3. TypeInv'
  <2>1. \A t \in Thread : Busy(t)' => handler'[t].closing \in Session
    BY <1>1 DEF IInv, TypeInv, OthersStay, Busy
  <2>. QED
    BY <1>1, <1>2, <2>1, ManagerKeeps DEF IInv, TypeInv
<1>4. /\ ~Busy(s) /\ ~Busy(s)' /\ ~Fresh(s)' /\ ~Learns(s) /\ ~Learns(s)'
  BY <1>1 DEF Busy, Fresh, Learns
<1>5. Apart(s)
  BY <1>1, <1>2, <1>4 DEF Apart
<1>6. Together(s)
  BY <1>2, <1>4 DEF Together, IInv, TypeInv, managerVars
<1>. QED
  BY <1>1, <1>3, <1>5, <1>6, ApartKeeps DEF IInv

\* A goroutine turns to closing session c.
LEMMA TurnsToClose ==
  ASSUME IInv, NEW t \in Thread, NEW c \in Session, NEW then \in Returns \ {"respond"},
         Closes(t, c, then), ~Busy(t), ~Fresh(c), handler[t].at # "own",
         t \in Session => ~Fresh(t),
         UNCHANGED <<owned, once, connOpen, sockets, listening, overtaken, records>>,
         leaving' \subseteq leaving,
         ManagerInv',
         \/ then # "own" /\ UNCHANGED active
         \/ then = "own" /\ t \in Session /\ active = c /\ active' = t /\ InHand(t)
  PROVE  IInv'
<1>1. /\ HandlerTyped' /\ OthersStay(t)
      /\ Stands(t, "close", handler[t].request, c, then)
  BY ClosesMoves DEF IInv, TypeInv, Closes
<1>2. TypeInv'
  <2>1. \A u \in Thread : Busy(u)' => handler'[u].closing \in Session
    BY <1>1 DEF IInv, TypeInv, OthersStay, Stands, Busy
  <2>. QED
    BY <1>1, <2>1 DEF IInv, TypeInv
<1>3. t \in Session => ~Fresh(t) /\ ~Learns(t)
  BY DEF Learns
<1>. QED
  BY <1>1, <1>2, <1>3, BeginsClose DEF IInv

LEMMA ReadFailsInv == ASSUME IInv, NEW s \in Session, ReadFails(s) PROVE IInv'
<1>1. /\ handler[s].at = "read" /\ Closes(s, s, "gone") /\ s \in Thread
      /\ UNCHANGED <<managerVars, owned, once, connOpen, serverVars, records>>
  BY DEF ReadFails, Thread
<1>2. ManagerInv' /\ UNCHANGED active
  BY <1>1, ManagerKeeps DEF IInv, TypeInv, managerVars
<1>3. ~Busy(s) /\ ~Fresh(s)
  BY <1>1 DEF Busy, Fresh
<1>. QED
  BY <1>1, <1>2, <1>3, TurnsToClose DEF Returns, serverVars

LEMMA RespondInv == ASSUME IInv, NEW s \in Session, Respond(s) PROVE IInv'
<1>1. /\ handler[s].at = "respond" /\ s \in Thread
      /\ UNCHANGED <<managerVars, owned, once, connOpen, serverVars, records>>
  BY DEF Respond, Thread
<1>2. ManagerInv' /\ UNCHANGED active
  BY <1>1, ManagerKeeps DEF IInv, TypeInv, managerVars
<1>3. CASE Goes(s, "read")
  <2>1. HandlerTyped' /\ OthersStay(s) /\ handler'[s].at = "read"
    BY <1>1, <1>3, EndsMoves DEF IInv, TypeInv, Stands
  <2>. QED
    BY <1>1, <1>2, <2>1, PlaceToPlace DEF IInv, TypeInv, serverVars
<1>4. CASE Closes(s, s, "gone")
  <2>1. ~Busy(s) /\ ~Fresh(s)
    BY <1>1 DEF Busy, Fresh
  <2>. QED
    BY <1>1, <1>2, <1>4, <2>1, TurnsToClose DEF Returns, serverVars
<1>. QED
  BY <1>3, <1>4 DEF Respond

LEMMA AcquireInv == ASSUME IInv, NEW s \in Session, Acquire(s) PROVE IInv'
<1>1. /\ handler[s].at = "acquire" /\ s \in Thread /\ InHand(s)
      /\ ~Busy(s) /\ ~Fresh(s) /\ ~Learns(s)
      /\ UNCHANGED <<owned, once, connOpen, serverVars, records>>
  BY DEF Acquire, InHand, Busy, Fresh, Learns, Thread
<1>2. ManagerInv'
  BY ManagerKeeps DEF Acquire, IInv, TypeInv
<1>3. s # NoSession /\ active \in SessionOrNone
  BY NoSessionAssumption, ActiveIs DEF IInv, TypeInv
<1>4. CASE AcquireNew(s) /\ active # NoSession /\ Closes(s, active, "own")
  <2>1. active' = s /\ active \in Session
    BY <1>3, <1>4 DEF AcquireNew, ChangeOwner, SessionOrNone
  <2>2. ~Fresh(active)
    BY <2>1 DEF IInv, FreshUnknown
  <2>. QED
    BY <1>1, <1>2, <1>4, <2>1, <2>2, TurnsToClose DEF Returns, serverVars
<1>5. CASE Reject(s) /\ Goes(s, "respond")
  <2>1. HandlerTyped' /\ OthersStay(s) /\ handler'[s].at = "respond"
    BY <1>1, <1>5, GoesMoves DEF IInv, TypeInv, Stands, Places
  <2>2. UNCHANGED active
    BY <1>5 DEF Reject, managerVars
  <2>. QED
    BY <1>1, <1>2, <2>1, <2>2, PlaceToPlace DEF IInv, TypeInv, serverVars
<1>6. CASE /\ Goes(s, "own")
           /\ (AcquireNew(s) /\ active = NoSession) \/ AcquireAgain(s)
  <2>1. HandlerTyped' /\ OthersStay(s) /\ handler'[s].at = "own"
    BY <1>1, <1>6, GoesMoves DEF IInv, TypeInv, Stands, Places
  <2>2. active' = s /\ active \in {s, NoSession}
    BY <1>6 DEF AcquireNew, AcquireAgain, ChangeOwner
  <2>3. ~Busy(s)' /\ ~Fresh(s)' /\ Learns(s)'
    BY <2>1 DEF Busy, Fresh, Learns
  <2>4. Apart(s)
    BY <1>1, <2>1, <2>3 DEF Apart, serverVars
  <2>5. Together(s)
    BY <1>1, <2>2, <2>3, NoSessionAssumption DEF Together, serverVars
  <2>6. TypeInv'
    <3>1. \A t \in Thread : Busy(t)' => handler'[t].closing \in Session
      BY <2>1 DEF IInv, TypeInv, OthersStay, Busy
    <3>. QED
      BY <1>1, <1>2, <2>1, <3>1 DEF IInv, TypeInv, serverVars
  <2>. QED
    BY <1>1, <2>4, <2>5, <2>6, ApartKeeps DEF IInv
<1>. QED
  BY <1>4, <1>5, <1>6 DEF Acquire

LEMMA OwnInv == ASSUME IInv, NEW s \in Session, Own(s) PROVE IInv'
<1>1. /\ HandlerTyped' /\ OthersStay(s) /\ handler[s].at = "own" /\ handler'[s].at = "respond"
      /\ s \in Thread
  BY GoesMoves DEF IInv, TypeInv, Own, Stands, Places, Thread
<1>2. /\ owned' = [owned EXCEPT ![s] = TRUE]
      /\ UNCHANGED <<managerVars, once, connOpen, serverVars, records>>
  BY DEF Own
<1>3. TypeInv'
  <2>1. \A t \in Thread : Busy(t)' => handler'[t].closing \in Session
    BY <1>1 DEF IInv, TypeInv, OthersStay, Busy
  <2>2. ManagerInv'
    BY <1>2, ManagerKeeps DEF IInv, TypeInv
  <2>. QED
    BY <1>1, <1>2, <2>1, <2>2 DEF IInv, TypeInv, serverVars
<1>4. ~Busy(s) /\ ~Busy(s)' /\ ~Fresh(s)' /\ Learns(s) /\ ~InHand(s)'
  BY <1>1 DEF Busy, Fresh, Learns, InHand
<1>5. Apart(s)
  BY <1>1, <1>2, <1>4 DEF Apart, serverVars
<1>6. owned'[s] /\ \A c \in Session : c # s => owned'[c] = owned[c]
  BY <1>2 DEF IInv, TypeInv
<1>7. Together(s)
  BY <1>2, <1>4, <1>6 DEF Together, serverVars, managerVars
<1>. QED
  BY <1>1, <1>3, <1>5, <1>7, ApartKeeps DEF IInv

LEMMA DispatchPauseInv == ASSUME IInv, NEW s \in Session, DispatchPause(s) PROVE IInv'
<1>1. /\ handler[s].at = "dispatch" /\ s \in Thread
      /\ owned' = [owned EXCEPT ![s] = FALSE]
      /\ UNCHANGED <<managerVars, once, connOpen, serverVars, records>>
  BY DEF DispatchPause, Thread
<1>2. ManagerInv'
  BY <1>1, ManagerKeeps DEF IInv, TypeInv
<1>3. CASE owned[s]
  <2>1. /\ HandlerTyped' /\ OthersStay(s)
        /\ Stands(s, "stop", handler[s].request, s, "respond")
    BY <1>1, <1>3, ClosesMoves DEF IInv, TypeInv, DispatchPause, Returns
  <2>2. TypeInv'
    <3>1. \A t \in Thread : Busy(t)' => handler'[t].closing \in Session
      BY <2>1 DEF IInv, TypeInv, OthersStay, Stands, Busy
    <3>. QED
      BY <1>1, <1>2, <2>1, <3>1 DEF IInv, TypeInv, serverVars
  <2>. QED
    BY <1>1, <2>1, <2>2, BeginsStop DEF IInv, serverVars, managerVars
<1>4. CASE ~owned[s]
  <2>1. Goes(s, "respond")
    BY <1>4 DEF DispatchPause
  <2>2. HandlerTyped' /\ OthersStay(s) /\ handler'[s].at = "respond"
    BY <1>1, <2>1, GoesMoves DEF IInv, TypeInv, Stands, Places
  <2>3. UNCHANGED owned
    BY <1>1, <1>4 DEF IInv, TypeInv
  <2>. QED
    BY <1>1, <1>2, <2>2, <2>3, PlaceToPlace DEF IInv, TypeInv, serverVars, managerVars
<1>. QED
  BY <1>3, <1>4

\* Inside Close, of a goroutine t that is at its own place for session c.
LEMMA InsideTypes ==
  ASSUME IInv, NEW t \in Thread, HandlerTyped', OthersStay(t),
         Busy(t)' => handler'[t].closing \in Session,
         owned' \in [Session -> BOOLEAN],
         once' \in [Session -> {"no", "running", "done"}],
         connOpen' \in [Session -> BOOLEAN],
         sockets' \in [Session -> {"none", "open", "closed"}],
         overtaken' \in [Session -> BOOLEAN],
         UNCHANGED <<listening, leaving, records>>,
         ManagerInv'
  PROVE  TypeInv'
<1>1. \A u \in Thread : Busy(u)' => handler'[u].closing \in Session
  BY DEF IInv, TypeInv, OthersStay, Busy
<1>. QED
  BY <1>1 DEF IInv, TypeInv

LEMMA CloseSessionInv == ASSUME IInv, NEW t \in Thread, CloseSession(t) PROVE IInv'
<1>. DEFINE c == handler[t].closing
<1>1. /\ handler[t].at = "close" /\ c \in Session
      /\ UNCHANGED <<managerVars, connOpen, sockets, listening, leaving, records>>
  BY DEF CloseSession, IInv, TypeInv, Busy
<1>2. ManagerInv' /\ UNCHANGED active
  <2>1. \A s \in Session : UNCHANGED managerVars => ManagerInv'
    BY ManagerKeeps DEF IInv, TypeInv
  <2>. QED
    BY <1>1, <2>1 DEF managerVars
<1>3. CASE ClosesFirst(t, c)
  <2>1. HandlerTyped' /\ FreshUnknown' /\ PauseStops' /\ CloseRuns' /\ Agreement'
        /\ ClosedTakesNothing' /\ ShutReleased'
    BY <1>1, <1>2, <1>3, ClosesFirstKeeps
  <2>2. OthersStay(t) /\ handler'[t].closing = c
    <3>1. Goes(t, "stop") \/ Goes(t, "shut")
      BY <1>3 DEF ClosesFirst
    <3>. QED
      BY <3>1, GoesMoves DEF IInv, TypeInv, Stands, Places
  <2>3. /\ owned' \in [Session -> BOOLEAN] /\ overtaken' \in [Session -> BOOLEAN]
        /\ once' \in [Session -> {"no", "running", "done"}]
    BY <1>3 DEF ClosesFirst, IInv, TypeInv, InHand
  <2>4. TypeInv'
    BY <1>1, <1>2, <2>1, <2>2, <2>3, InsideTypes DEF IInv, TypeInv
  <2>. QED
    BY <2>1, <2>4 DEF IInv
<1>4. CASE once[c] = "done" /\ GoesOn(t) /\ UNCHANGED <<once, owned, overtaken>>
  <2>1. HandlerTyped' /\ FreshUnknown' /\ PauseStops' /\ CloseRuns' /\ Agreement'
        /\ ClosedTakesNothing' /\ ShutReleased'
    BY <1>1, <1>2, <1>4, SecondCloseKeeps
  <2>2. OthersStay(t) /\ ~Busy(t)'
    BY <1>4, GoesOnMoves, HandlerHas DEF IInv, TypeInv, Stands, Busy, Returns
  <2>3. TypeInv'
    BY <1>1, <1>2, <1>4, <2>1, <2>2, InsideTypes DEF IInv, TypeInv
  <2>. QED
    BY <2>1, <2>3 DEF IInv
<1>. QED
  BY <1>3, <1>4 DEF CloseSession

LEMMA SessionStopInv == ASSUME IInv, NEW t \in Thread, SessionStop(t) PROVE IInv'
<1>. DEFINE c == handler[t].closing
<1>1. /\ handler[t].at = "stop" /\ c \in Session /\ c # NoSession
      /\ UNCHANGED <<owned, once, connOpen, serverVars, records>>
  BY NoSessionAssumption DEF SessionStop, IInv, TypeInv, Busy
<1>2. /\ ManagerInv' /\ active' # c /\ active' \in {active, NoSession}
      /\ active' # active => active = c
  <2>1. Release(c) \/ (active # c /\ UNCHANGED managerVars)
    BY DEF SessionStop
  <2>2. ManagerInv'
    BY <1>1, <2>1, ManagerKeeps DEF IInv, TypeInv
  <2>. QED
    BY <1>1, <2>1, <2>2 DEF Release, ChangeOwner, managerVars
<1>3. /\ HandlerTyped' /\ OthersStay(t) /\ (Busy(t)' => handler'[t].closing = c)
      /\ IF handler[t].then = "respond"
         THEN handler'[t].at = "respond"
         ELSE /\ handler'[t].at = "shut" /\ handler'[t].closing = c
              /\ handler'[t].then = handler[t].then
  <2>1. CASE handler[t].then = "respond"
    <3>1. GoesOn(t)
      BY <2>1 DEF SessionStop
    <3>2. HandlerTyped' /\ OthersStay(t) /\ handler'[t].at = "respond"
      BY <2>1, <3>1, GoesOnMoves DEF IInv, TypeInv, Stands
    <3>. QED
      BY <2>1, <3>2 DEF Busy
  <2>2. CASE handler[t].then # "respond"
    <3>1. Goes(t, "shut")
      BY <2>2 DEF SessionStop
    <3>. QED
      BY <2>2, <3>1, GoesMoves DEF IInv, TypeInv, Stands, Places
  <2>. QED
    BY <2>1, <2>2
<1>. HIDE DEF c
<1>4. TypeInv'
  BY <1>1, <1>2, <1>3, InsideTypes DEF IInv, TypeInv, serverVars
<1>5. FreshUnknown' /\ PauseStops' /\ CloseRuns' /\ Agreement'
      /\ ClosedTakesNothing' /\ ShutReleased'
  BY <1>1, <1>2, <1>3, SessionStopKeeps DEF c, serverVars
<1>. QED
  BY <1>4, <1>5 DEF IInv

LEMMA ShutInv == ASSUME IInv, NEW t \in Thread, Shut(t) PROVE IInv'
<1>. DEFINE c == handler[t].closing
<1>1. /\ handler[t].at = "shut" /\ c \in Session /\ GoesOn(t)
      /\ connOpen' = [connOpen EXCEPT ![c] = FALSE]
      /\ sockets' = [sockets EXCEPT ![c] = IF @ = "open" THEN "closed" ELSE @]
      /\ once' = [once EXCEPT ![c] = "done"]
      /\ UNCHANGED <<managerVars, owned, listening, leaving, overtaken, records>>
  BY DEF Shut, IInv, TypeInv, Busy
<1>2. ManagerInv' /\ UNCHANGED active
  <2>1. \A s \in Session : UNCHANGED managerVars => ManagerInv'
    BY ManagerKeeps DEF IInv, TypeInv
  <2>. QED
    BY <1>1, <2>1 DEF managerVars
<1>3. HandlerTyped' /\ FreshUnknown' /\ PauseStops' /\ CloseRuns' /\ Agreement'
      /\ ClosedTakesNothing' /\ ShutReleased'
  BY <1>1, <1>2, ShutKeeps
<1>4. OthersStay(t) /\ ~Busy(t)'
  BY <1>1, GoesOnMoves, HandlerHas DEF IInv, TypeInv, Stands, Busy, Returns
<1>5. /\ connOpen' \in [Session -> BOOLEAN]
      /\ sockets' \in [Session -> {"none", "open", "closed"}]
      /\ once' \in [Session -> {"no", "running", "done"}]
  BY <1>1 DEF IInv, TypeInv
<1>6. TypeInv'
  BY <1>1, <1>2, <1>3, <1>4, <1>5, InsideTypes DEF IInv, TypeInv
<1>. QED
  BY <1>3, <1>6 DEF IInv

\* Server.Close.
LEMMA MainInv == ASSUME IInv, StopListening \/ Snapshot PROVE IInv'
<1>1. /\ HandlerTyped' /\ OthersStay(Main) /\ Main \in Thread /\ Main \notin Session
      /\ handler[Main].at \in {"new", "snapshot"} /\ handler'[Main].at \in {"snapshot", "next"}
  BY GoesMoves, MainAssumption DEF IInv, TypeInv, StopListening, Snapshot, Stands, Places, Thread
<1>2. /\ UNCHANGED <<managerVars, owned, once, connOpen, sockets, overtaken, records>>
      /\ listening' \in BOOLEAN /\ leaving' \subseteq Session
      /\ \A c \in leaving' : c \in leaving \/ ~Fresh(c)
  BY DEF IInv, TypeInv, StopListening, Snapshot, Registered, Fresh
<1>3. ManagerInv' /\ UNCHANGED active
  BY <1>2, ManagerNextInv DEF IInv, TypeInv, managerVars
<1>4. ~Busy(Main) /\ ~Busy(Main)'
  BY <1>1 DEF Busy
<1>5. TypeInv'
  <2>1. \A u \in Thread : Busy(u)' => handler'[u].closing \in Session
    BY <1>1, <1>4 DEF IInv, TypeInv, OthersStay, Busy
  <2>. QED
    BY <1>1, <1>2, <1>3, <2>1 DEF IInv, TypeInv
<1>6. Apart(Main) /\ Together(Main)
  BY <1>1, <1>2, <1>3, <1>4 DEF Apart, Together
<1>. QED
  BY <1>1, <1>5, <1>6, ApartKeeps DEF IInv

LEMMA CloseNextInv == ASSUME IInv, CloseNext PROVE IInv'
<1>1. /\ handler[Main].at = "next" /\ Main \in Thread /\ Main \notin Session
      /\ UNCHANGED <<managerVars, owned, once, connOpen, sockets, listening, overtaken, records>>
      /\ ~Busy(Main)
  BY MainAssumption DEF CloseNext, Thread, Busy
<1>2. ManagerInv' /\ UNCHANGED active
  BY <1>1, ManagerNextInv DEF IInv, TypeInv, managerVars
<1>3. ASSUME NEW c \in leaving, leaving' = leaving \ {c}, Closes(Main, c, "next") PROVE IInv'
  <2>1. c \in Session /\ ~Fresh(c)
    BY DEF IInv, TypeInv, FreshUnknown
  <2>. QED
    BY <1>1, <1>2, <1>3, <2>1, TurnsToClose DEF Returns
<1>4. ASSUME Goes(Main, "gone"), UNCHANGED leaving PROVE IInv'
  <2>1. HandlerTyped' /\ OthersStay(Main) /\ handler'[Main].at = "gone"
    BY <1>1, <1>4, EndsMoves DEF IInv, TypeInv, Stands
  <2>2. ~Busy(Main)'
    BY <2>1 DEF Busy
  <2>3. TypeInv'
    <3>1. \A u \in Thread : Busy(u)' => handler'[u].closing \in Session
      BY <2>1, <2>2 DEF IInv, TypeInv, OthersStay, Busy
    <3>. QED
      BY <1>1, <1>2, <1>4, <2>1, <3>1 DEF IInv, TypeInv
  <2>4. FreshUnknown' /\ PauseStops' /\ CloseRuns' /\ Agreement'
        /\ ClosedTakesNothing' /\ ShutReleased'
    BY <1>1, <1>2, <1>4, <2>1, <2>2, QuietKeeps
  <2>. QED
    BY <2>3, <2>4 DEF IInv
<1>. QED
  BY <1>3, <1>4 DEF CloseNext

\* The clock, activity, and a step of something else.
LEMMA AttendInv == ASSUME IInv, Attend \/ UNCHANGED vars PROVE IInv'
<1>1. ManagerInv'
  BY ManagerNextInv DEF IInv, TypeInv, vars, Attend, ManagerNext, SessionOrNone
<1>2. UNCHANGED <<active, owned, once, connOpen, sockets, listening, leaving, overtaken,
                  handler, records>>
  BY DEF vars, serverVars, managerVars, Attend, Tick, Touch
<1>. QED
  BY <1>1, <1>2
  DEF IInv, TypeInv, HandlerTyped, Busy, FreshUnknown, Fresh, PauseStops, CloseRuns, Agreement,
      Leaves, Learns, Stops, ClosedTakesNothing, InHand, ShutReleased, Shuts

LEMMA InvNext == ASSUME IInv, [Next]_vars PROVE IInv'
<1>1. ASSUME NEW s \in Session,
             \/ Accept(s) \/ NewSession(s)
             \/ \E request \in {"SETUP", "RECORD", "PAUSE", "TEARDOWN"} : Receive(s, request)
             \/ ReadFails(s)
             \/ DispatchSetup(s) \/ DispatchRecord(s) \/ Acquire(s) \/ Own(s)
             \/ DispatchPause(s) \/ DispatchTeardown(s) \/ Respond(s)
      PROVE  IInv'
  BY <1>1, AcceptInv, NewSessionInv, ReceiveInv, ReadFailsInv, DispatchInv, AcquireInv, OwnInv,
     DispatchPauseInv, RespondInv
<1>2. ASSUME NEW t \in Thread, CloseSession(t) \/ SessionStop(t) \/ Shut(t) PROVE IInv'
  BY <1>2, CloseSessionInv, SessionStopInv, ShutInv
<1>3. CASE StopListening \/ Snapshot \/ CloseNext
  BY <1>3, MainInv, CloseNextInv
<1>. QED
  BY <1>1, <1>2, <1>3, AttendInv DEF Next

LEMMA SessionInvariant == Spec => []IInv
  BY InvInit, InvNext, PTL DEF Spec

-----------------------------------------------------------------------------

\* Sessions, goroutines and sockets are well typed for any number of connections,
\* and who is closing has a session to close.
THEOREM SessionTypeCorrect == Spec => []TypeOK
  BY SessionInvariant, InvImplies, PTL

\* However RECORD, PAUSE, preemption, the end of a connection and the end of the
\* daemon cross: when they are over, each connected session and the arbiter agree.
THEOREM SessionMatchesArbiter == Spec => []OwnedMatchesArbiter
  BY SessionInvariant, InvImplies, PTL

\* A session that was not overtaken by its own request leaves neither the speaker
\* nor a socket behind, whoever closed it.
THEOREM SessionLeavesNothing == Spec => []ClosedHoldsNothing
  BY SessionInvariant, InvImplies, PTL

-----------------------------------------------------------------------------
\* Closing.

\* A goroutine that has to wait until the Close that another one runs is over.
Waits(t) == handler[t].at = "close" /\ once[handler[t].closing] = "running"

Works(u, c) == handler[u].at \in {"stop", "shut"} /\ handler[u].closing = c

\* Who waits for a Close waits for a goroutine in the middle of it, which waits
\* for nobody.
CloseIsServed ==
    \A t \in Thread : Waits(t) => \E u \in Thread : Works(u, handler[t].closing) /\ ~Waits(u)

\* Of the goroutines that have something to do, one does not wait.
SomebodyGoesOn == AtRest \/ \E u \in Thread : ~Resting(u) /\ ~Waits(u)

\* Goroutines of sessions that close each other, and the main goroutine that
\* closes them too, never wait in a circle.
THEOREM NoCircleOfCloses == Spec => [](CloseIsServed /\ SomebodyGoesOn)
<1>1. ASSUME IInv, NEW t \in Thread, Waits(t)
      PROVE  \E u \in Thread : Works(u, handler[t].closing) /\ ~Waits(u)
  <2>1. handler[t].closing \in Session
    BY <1>1 DEF IInv, TypeInv, Busy, Waits
  <2>2. PICK u \in Thread : Works(u, handler[t].closing)
    BY <1>1, <2>1 DEF IInv, CloseRuns, Waits, Works
  <2>. QED
    BY <2>2 DEF Works, Waits
<1>2. IInv => CloseIsServed
  BY <1>1 DEF CloseIsServed
<1>3. CloseIsServed => SomebodyGoesOn
  BY DEF CloseIsServed, SomebodyGoesOn, AtRest, Resting, Works
<1>. QED
  BY <1>2, <1>3, SessionInvariant, PTL

\* What is closed stays closed: whatever request, PAUSE or preemption comes late,
\* a session that was not overtaken by its own request has no connection and no
\* open socket, and does not take the speaker or come to believe it has it.
StaysClosed ==
    [][\A s \in Session : once[s] = "done" /\ ~overtaken[s] =>
         /\ once'[s] = "done" /\ ~overtaken'[s]
         /\ ~connOpen'[s] /\ sockets'[s] # "open"
         /\ owned'[s] => owned[s]
         /\ active' = s => active = s]_vars

THEOREM SessionStaysClosed == Spec => StaysClosed
<1>1. ASSUME IInv, [Next]_vars, NEW s \in Session, once[s] = "done", ~overtaken[s]
      PROVE  /\ once'[s] = "done" /\ ~overtaken'[s]
             /\ ~connOpen'[s] /\ sockets'[s] # "open"
             /\ owned'[s] => owned[s]
             /\ active' = s => active = s
  <2>1. /\ ~connOpen[s] /\ sockets[s] # "open" /\ s # NoSession
        /\ handler[s].at \notin {"new", "accepted", "dispatch", "acquire", "own"}
        /\ TypeInv
    BY <1>1, NoSessionAssumption DEF IInv, CloseRuns, ShutReleased, ClosedTakesNothing, InHand,
       FreshUnknown, Fresh
  <2>2. ASSUME NEW t \in Session,
               \/ Accept(t) \/ NewSession(t) \/ ReadFails(t)
               \/ \E request \in {"SETUP", "RECORD", "PAUSE", "TEARDOWN"} : Receive(t, request)
               \/ DispatchTeardown(t) \/ Respond(t)
        PROVE  /\ UNCHANGED <<active, once, owned, sockets>>
               /\ overtaken'[s] = overtaken[s] /\ connOpen'[s] = connOpen[s]
    BY <1>1, <2>1, <2>2 DEF Accept, NewSession, ReadFails, Receive, DispatchTeardown, Respond,
       serverVars, managerVars, TypeInv
  <2>3. ASSUME NEW t \in Session,
               DispatchSetup(t) \/ DispatchRecord(t) \/ Acquire(t) \/ Own(t) \/ DispatchPause(t)
        PROVE  /\ UNCHANGED <<once, overtaken, connOpen>>
               /\ sockets'[s] = sockets[s] /\ (owned'[s] => owned[s])
               /\ active' = s => active = s
    BY <2>1, <2>3 DEF DispatchSetup, DispatchRecord, Acquire, Own, DispatchPause, serverVars,
       managerVars, TypeInv, AcquireNew, AcquireAgain, Reject, Touch, ChangeOwner
  <2>4. ASSUME NEW t \in Thread, CloseSession(t)
        PROVE  /\ UNCHANGED <<connOpen, sockets, active>>
               /\ once'[s] = once[s] /\ overtaken'[s] = overtaken[s] /\ owned'[s] = owned[s]
    BY <1>1, <2>1, <2>4 DEF CloseSession, ClosesFirst, managerVars, TypeInv
  <2>5. ASSUME NEW t \in Thread, SessionStop(t)
        PROVE  /\ UNCHANGED <<connOpen, sockets, once, overtaken, owned>>
               /\ active' = s => active = s
    BY <2>1, <2>5 DEF SessionStop, serverVars, managerVars, Release, ChangeOwner
  <2>6. ASSUME NEW t \in Thread, Shut(t)
        PROVE  /\ UNCHANGED <<active, overtaken, owned>> /\ once'[s] = "done"
               /\ ~connOpen'[s] /\ sockets'[s] # "open"
    BY <1>1, <2>1, <2>6 DEF Shut, managerVars, TypeInv
  <2>7. ASSUME StopListening \/ Snapshot \/ CloseNext
        PROVE  UNCHANGED <<active, once, owned, connOpen, sockets, overtaken>>
    BY <2>7 DEF StopListening, Snapshot, CloseNext, managerVars
  <2>8. CASE Attend \/ UNCHANGED vars
    BY <1>1, <2>1, <2>8 DEF Attend, Tick, Touch, vars, serverVars, managerVars
  <2>. QED
    BY <1>1, <2>1, <2>2, <2>3, <2>4, <2>5, <2>6, <2>7, <2>8 DEF Next
<1>2. IInv /\ [Next]_vars =>
         [\A s \in Session : once[s] = "done" /\ ~overtaken[s] =>
            /\ once'[s] = "done" /\ ~overtaken'[s]
            /\ ~connOpen'[s] /\ sockets'[s] # "open"
            /\ owned'[s] => owned[s]
            /\ active' = s => active = s]_vars
  BY <1>1
<1>. QED
  BY <1>2, SessionInvariant, PTL DEF Spec, StaysClosed

\* The sessions use the arbiter only through its operations, so that what is
\* proved of it holds here: generations name owners, old ones stay old and the
\* policy is kept.
THEOREM SessionKeepsArbiter ==
  Spec => [](GenerationNamesOwner /\ PolicyHeld) /\ StaleStaysStale
<1>1. Init => ManagerInit
  BY DEF Init
<1>2. IInv /\ [Next]_vars => [ManagerNext]_managerVars
  <2>. SUFFICES ASSUME IInv, [Next]_vars PROVE [ManagerNext]_managerVars
    OBVIOUS
  <2>1. ASSUME NEW t \in Session, DispatchRecord(t) \/ Acquire(t)
        PROVE  [ManagerNext]_managerVars
    BY <2>1 DEF DispatchRecord, Acquire, ManagerNext, SessionOrNone
  <2>2. ASSUME NEW t \in Thread, SessionStop(t) PROVE [ManagerNext]_managerVars
    <3>1. handler[t].closing \in SessionOrNone
      BY <2>2, HandlerHas DEF IInv, TypeInv
    <3>. QED
      BY <2>2, <3>1 DEF SessionStop, ManagerNext
  <2>3. ASSUME NEW t \in Thread, CloseSession(t) \/ Shut(t) PROVE UNCHANGED managerVars
    BY <2>3 DEF CloseSession, Shut
  <2>4. CASE Attend
    BY <2>4 DEF Attend, ManagerNext, SessionOrNone
  <2>. QED
    BY <2>1, <2>2, <2>3, <2>4 DEF Next, Accept, NewSession, Receive, ReadFails, DispatchSetup, Own,
       DispatchPause, DispatchTeardown, Respond, StopListening, Snapshot, CloseNext, vars
<1>3. Spec => ManagerSpec
  BY <1>1, <1>2, SessionInvariant, PTL DEF Spec, ManagerSpec
<1>. QED
  BY <1>3, ManagerCorrect, ManagerStaleStaysStale, ManagerHoldsPolicy, PTL

-----------------------------------------------------------------------------
\* The sessions and the coordinator together: what is proved of each holds of the
\* whole.

Proved == INSTANCE Playback_proofs WITH Caller <- Thread

\* The coordinator changes nothing that a session reads.
LEMMA CoordinatorKeepsManager ==
  ASSUME NEW t \in Thread,
         \/ Coordinator!Enqueue(t) \/ Coordinator!Close
         \/ Coordinator!TakeCommand \/ Coordinator!StopLoop \/ Coordinator!CheckCommand
         \/ Coordinator!CallReturns \/ Coordinator!Retry
  PROVE  UNCHANGED managerVars
  BY DEF Coordinator!Enqueue, Coordinator!Close, Coordinator!TakeCommand, Coordinator!StopLoop,
     Coordinator!CheckCommand, Coordinator!CallReturns, Coordinator!CallSucceeds,
     Coordinator!CallFails, Coordinator!Retry, Coordinator!managerVars, managerVars

LEMMA SessionVarsAre == UNCHANGED <<managerVars, sessionVars>> => UNCHANGED vars
  BY DEF vars, sessionVars

LEMMA StackStepOfSession == ASSUME [StackNext]_stackVars PROVE [Next]_vars
<1>1. ASSUME NEW s \in Session, Serve(s) \/ Activate(s) PROVE Next
  BY <1>1 DEF Serve, Activate, Next
<1>2. ASSUME NEW t \in Thread, BeginClose(t) \/ Deactivate(t) \/ EndClose(t) PROVE Next
  BY <1>2 DEF BeginClose, Deactivate, EndClose, Next
<1>3. ASSUME NEW t \in Thread, Deliver(t) \/ CloseCoordinator \/ Control PROVE UNCHANGED vars
  BY <1>3, CoordinatorKeepsManager, SessionVarsAre DEF Deliver, CloseCoordinator, Control
<1>4. CASE ServerClose \/ (Attend /\ UNCHANGED playbackVars)
  BY <1>4 DEF ServerClose, Next
<1>5. CASE UNCHANGED stackVars
  BY <1>5, SessionVarsAre DEF stackVars
<1>6. Main \in Thread
  BY DEF Thread
<1>. QED
  BY <1>1, <1>2, <1>3, <1>4, <1>5, <1>6 DEF StackNext

\* Waiting for the coordinator takes nothing from the sessions: whatever they do
\* over it is a behaviour of AirPlaySession.
THEOREM StackRunsSessions == StackSpec => Spec
<1>1. StackInit => Init
  BY DEF StackInit
<1>2. [StackNext]_stackVars => [Next]_vars
  BY StackStepOfSession
<1>. QED
  BY <1>1, <1>2, PTL DEF StackSpec, Spec

\* Activity and the clock are steps of the coordinator's model.
LEMMA AttendIsCoordinators ==
  ASSUME Tick \/ \E s \in Session : Touch(s), UNCHANGED playbackVars
  PROVE  Coordinator!Next
<1>1. Coordinator!Tick \/ \E s \in Session : Coordinator!Touch(s)
  BY DEF Tick, Touch, config, Coordinator!Tick, Coordinator!Touch, Coordinator!config
<1>2. UNCHANGED <<Coordinator!coordinatorVars, Coordinator!speakerVars>>
  BY DEF playbackVars, Coordinator!coordinatorVars, Coordinator!speakerVars
<1>. QED
  BY <1>1, <1>2 DEF Coordinator!ManagerStep, Coordinator!Next

LEMMA StackStepOfCoordinator ==
  ASSUME IInv, [StackNext]_stackVars
  PROVE  Coordinator!Next \/ UNCHANGED <<managerVars, playbackVars>>
<1>1. ASSUME NEW s \in Session, Serve(s)
      PROVE  Coordinator!Next \/ UNCHANGED <<managerVars, playbackVars>>
  <2>1. UNCHANGED playbackVars
    BY <1>1 DEF Serve
  <2>2. CASE DispatchRecord(s)
    <3>1. Touch(s) \/ UNCHANGED managerVars
      BY <2>2 DEF DispatchRecord
    <3>. QED
      BY <2>1, <3>1, AttendIsCoordinators
  <2>3. CASE ~DispatchRecord(s)
    <3>1. UNCHANGED managerVars
      BY <1>1, <2>3 DEF Serve, Accept, NewSession, Receive, ReadFails, DispatchSetup, Own,
         DispatchPause, DispatchTeardown, Respond
    <3>. QED
      BY <2>1, <3>1
  <2>. QED
    BY <2>2, <2>3
<1>2. ASSUME NEW s \in Session, Activate(s) PROVE Coordinator!Next
  BY <1>2 DEF Activate, Coordinator!Next, Thread
<1>3. ASSUME NEW t \in Thread, BeginClose(t)
      PROVE  Coordinator!Next \/ UNCHANGED <<managerVars, playbackVars>>
  BY <1>3 DEF BeginClose, CloseSession, Coordinator!Next
<1>4. ASSUME NEW t \in Thread, Deactivate(t) PROVE Coordinator!Next
  <2>1. handler[t].closing \in Session
    BY <1>4 DEF Deactivate, SessionStop, IInv, TypeInv, Busy
  <2>. QED
    BY <1>4, <2>1 DEF Deactivate, Coordinator!Next
<1>5. ASSUME NEW t \in Thread, EndClose(t) \/ ServerClose
      PROVE  UNCHANGED <<managerVars, playbackVars>>
  BY <1>5 DEF EndClose, Shut, ServerClose, StopListening, Snapshot, CloseNext
<1>6. ASSUME NEW t \in Thread, Deliver(t) \/ CloseCoordinator \/ Control PROVE Coordinator!Next
  BY <1>6 DEF Deliver, CloseCoordinator, Control, Coordinator!Next
<1>7. CASE Attend /\ UNCHANGED playbackVars
  BY <1>7, AttendIsCoordinators DEF Attend
<1>8. CASE UNCHANGED stackVars
  BY <1>8 DEF stackVars
<1>9. Main \in Thread
  BY DEF Thread
<1>. QED
  BY <1>1, <1>2, <1>3, <1>4, <1>5, <1>6, <1>7, <1>8, <1>9 DEF StackNext

\* How the sessions call the coordinator is one of the ways Playback allows, so
\* that the session a Cancel closes needs no assumption there.
THEOREM StackRunsCoordinator == StackSpec => Coordinator!Spec
<1>1. StackInit => Coordinator!Init
  BY DEF StackInit
<1>2. UNCHANGED <<managerVars, playbackVars>> => UNCHANGED Coordinator!vars
  BY DEF Coordinator!vars, Coordinator!managerVars, Coordinator!coordinatorVars,
     Coordinator!speakerVars, managerVars, playbackVars
<1>3. IInv /\ [StackNext]_stackVars => [Coordinator!Next]_(Coordinator!vars)
  BY <1>2, StackStepOfCoordinator
<1>. QED
  BY <1>1, <1>3, StackRunsSessions, SessionInvariant, PTL DEF StackSpec, Coordinator!Spec

-----------------------------------------------------------------------------
\* The theorems of Playback_proofs are about the coordinator of this module.

LEMMA CallerStepsSame ==
  ASSUME NEW t \in Thread,
         \/ \E s \in Session : Coordinator!Activate(t, s) \/ Coordinator!Deactivate(t, s)
         \/ Coordinator!CancelReplaced(t) \/ Coordinator!Enqueue(t)
  PROVE  Proved!Next
<1>1. ASSUME NEW s \in Session, Coordinator!Activate(t, s) PROVE Proved!Activate(t, s)
  BY <1>1 DEF Coordinator!Activate, Proved!Activate, Coordinator!AcquireAgain, Proved!AcquireAgain,
     Coordinator!AcquireNew, Proved!AcquireNew, Coordinator!Reject, Proved!Reject,
     Coordinator!CanReplace, Proved!CanReplace, Coordinator!ChangeOwner, Proved!ChangeOwner,
     Coordinator!config, Proved!config, Coordinator!managerVars, Proved!managerVars,
     Coordinator!loopVars, Proved!loopVars, Coordinator!speakerVars, Proved!speakerVars,
     Coordinator!NoCall, Proved!NoCall, Coordinator!PlayCommand, Proved!PlayCommand
<1>2. ASSUME NEW s \in Session, Coordinator!Deactivate(t, s) PROVE Proved!Deactivate(t, s)
  BY <1>2 DEF Coordinator!Deactivate, Proved!Deactivate, Coordinator!Release, Proved!Release,
     Coordinator!ChangeOwner, Proved!ChangeOwner, Coordinator!config, Proved!config,
     Coordinator!managerVars, Proved!managerVars, Coordinator!loopVars, Proved!loopVars,
     Coordinator!speakerVars, Proved!speakerVars, Coordinator!NoCall, Proved!NoCall,
     Coordinator!PauseCommand, Proved!PauseCommand
<1>3. Coordinator!CancelReplaced(t) => Proved!CancelReplaced(t)
  BY DEF Coordinator!CancelReplaced, Proved!CancelReplaced, Coordinator!Release, Proved!Release,
     Coordinator!ChangeOwner, Proved!ChangeOwner, Coordinator!config, Proved!config,
     Coordinator!managerVars, Proved!managerVars, Coordinator!loopVars, Proved!loopVars,
     Coordinator!speakerVars, Proved!speakerVars, Coordinator!PauseCommand, Proved!PauseCommand
<1>4. Coordinator!Enqueue(t) => Proved!Enqueue(t)
  BY DEF Coordinator!Enqueue, Proved!Enqueue, Coordinator!managerVars, Proved!managerVars,
     Coordinator!loopVars, Proved!loopVars, Coordinator!speakerVars, Proved!speakerVars
<1>. QED
  BY <1>1, <1>2, <1>3, <1>4 DEF Proved!Next

LEMMA LoopStepsSame ==
  ASSUME \/ Coordinator!ManagerStep \/ Coordinator!Close
         \/ Coordinator!TakeCommand \/ Coordinator!StopLoop \/ Coordinator!CheckCommand
         \/ Coordinator!CallReturns \/ Coordinator!Retry
  PROVE  Proved!Next
<1>1. Coordinator!ManagerStep => Proved!ManagerStep
  BY DEF Coordinator!ManagerStep, Proved!ManagerStep, Coordinator!Tick, Proved!Tick,
     Coordinator!Touch, Proved!Touch, Coordinator!config, Proved!config,
     Coordinator!coordinatorVars, Proved!coordinatorVars, Coordinator!speakerVars,
     Proved!speakerVars
<1>2. Coordinator!Close => Proved!Close
  BY DEF Coordinator!Close, Proved!Close, Coordinator!managerVars, Proved!managerVars,
     Coordinator!loopVars, Proved!loopVars, Coordinator!speakerVars, Proved!speakerVars
<1>3. Coordinator!TakeCommand => Proved!TakeCommand
  BY DEF Coordinator!TakeCommand, Proved!TakeCommand, Coordinator!managerVars,
     Proved!managerVars, Coordinator!loopVars, Proved!loopVars, Coordinator!speakerVars,
     Proved!speakerVars
<1>4. Coordinator!StopLoop => Proved!StopLoop
  BY DEF Coordinator!StopLoop, Proved!StopLoop, Coordinator!managerVars, Proved!managerVars,
     Coordinator!speakerVars, Proved!speakerVars
<1>5. Coordinator!CheckCommand => Proved!CheckCommand
  BY DEF Coordinator!CheckCommand, Proved!CheckCommand, Coordinator!Current, Proved!Current,
     Coordinator!IsOwner, Proved!IsOwner, Coordinator!IsIdleGeneration, Proved!IsIdleGeneration,
     Coordinator!LoopReturns, Proved!LoopReturns, Coordinator!NoCommand, Proved!NoCommand,
     Coordinator!managerVars, Proved!managerVars, Coordinator!speakerVars, Proved!speakerVars
<1>6. Coordinator!CallReturns => Proved!CallReturns
  BY DEF Coordinator!CallReturns, Proved!CallReturns, Coordinator!CallSucceeds,
     Proved!CallSucceeds, Coordinator!CallFails, Proved!CallFails, Coordinator!TakesEffect,
     Proved!TakesEffect, Coordinator!LoopReturns, Proved!LoopReturns, Coordinator!NoCommand,
     Proved!NoCommand, Coordinator!MaxAttempts, Proved!MaxAttempts, Coordinator!managerVars,
     Proved!managerVars
<1>7. Coordinator!Retry => Proved!Retry
  BY DEF Coordinator!Retry, Proved!Retry, Coordinator!managerVars, Proved!managerVars,
     Coordinator!speakerVars, Proved!speakerVars
<1>. QED
  BY <1>1, <1>2, <1>3, <1>4, <1>5, <1>6, <1>7 DEF Proved!Next

LEMMA CoordinatorIsProved == Coordinator!Spec => Proved!Spec
<1>1. Coordinator!Init => Proved!Init
  BY DEF Coordinator!Init, Proved!Init, Coordinator!ManagerInit, Proved!ManagerInit,
     Coordinator!NoCall, Proved!NoCall, Coordinator!NoCommand, Proved!NoCommand
<1>2. UNCHANGED Coordinator!vars => UNCHANGED Proved!vars
  BY DEF Coordinator!vars, Proved!vars, Coordinator!managerVars, Proved!managerVars,
     Coordinator!coordinatorVars, Proved!coordinatorVars, Coordinator!speakerVars,
     Proved!speakerVars
<1>3. Coordinator!Next => Proved!Next
  BY CallerStepsSame, LoopStepsSame DEF Coordinator!Next
<1>4. [Coordinator!Next]_(Coordinator!vars) => [Proved!Next]_(Proved!vars)
  BY <1>2, <1>3
<1>. QED
  BY <1>1, <1>4, PTL DEF Coordinator!Spec, Proved!Spec

\* From the tap on the phone to the speaker: when everything is over, a phone that
\* is connected believes it plays exactly when the speaker plays its stream.
THEOREM StackMatchesSpeaker == StackSpec => []PhoneMatchesSpeaker
<1>1. Coordinator!AtRest => Proved!AtRest
  BY DEF Coordinator!AtRest, Proved!AtRest, Coordinator!NoCall, Proved!NoCall
<1>2. OwnedMatchesArbiter /\ Proved!SpeakerMatchesOwnerAtRest => PhoneMatchesSpeaker
  BY <1>1 DEF OwnedMatchesArbiter, PhoneMatchesSpeaker, Proved!SpeakerMatchesOwnerAtRest
<1>3. Proved!Spec => []Proved!SpeakerMatchesOwnerAtRest
  BY Proved!PlaybackSpeakerMatches, NoSessionAssumption, ProtocolAssumption, PolicyAssumption,
     PreferenceAssumption, IdleTimeoutAssumption, GenerationAssumption, ChannelAssumption
  DEF Protocols, Proved!Protocols
<1>. QED
  BY <1>2, <1>3, StackRunsSessions, StackRunsCoordinator, SessionMatchesArbiter,
     CoordinatorIsProved, PTL

-----------------------------------------------------------------------------
\* Who waits for whom, across the sessions and the coordinator.

CallTyped ==
    call \in [Thread -> [victim : Proved!SessionOrNone, todo : Seq(Proved!Command)]]

\* A call is under way only where the goroutine makes one: within RECORD while it
\* closes the session it replaces and sends its play command, or after the end of
\* a session was announced, with one pause command to send.
CallPlace(t) ==
    /\ call[t].victim # NoSession =>
          handler[t].at \in {"close", "stop"} /\ handler[t].then = "own"
    /\ call[t].todo # <<>> => handler[t].at \in {"own", "respond", "close", "stop", "shut"}
    /\ Busy(t) /\ handler[t].then # "own" =>
          \/ call[t].todo = <<>>
          \/ handler[t].at = "shut" /\ PauseDue(t) /\ Len(call[t].todo) = 1

LoopLeavesClosed == loopAt = "exited" => closed

CallInv == (\A t \in Thread : CallPlace(t)) /\ LoopLeavesClosed

\* The step is one of the goroutine t, which keeps to the places of its call.
LEMMA CallKeeps ==
  ASSUME CallInv, NEW t \in Thread, OthersStay(t), CallPlace(t)',
         \A u \in Thread : u # t => call'[u] = call[u],
         UNCHANGED <<loopAt, closed>>
  PROVE  CallInv'
<1>1. ASSUME NEW u \in Thread, u # t PROVE CallPlace(u)'
  <2>1. handler'[u] = handler[u] /\ call'[u] = call[u] /\ CallPlace(u)
    BY <1>1 DEF OthersStay, CallInv
  <2>. QED
    BY <2>1 DEF CallPlace, PauseDue, Busy
<1>. QED
  BY <1>1 DEF CallInv, LoopLeavesClosed

\* From a place without a call to any place: nothing to keep.
LEMMA CallStaysAway ==
  ASSUME NEW t \in Thread, call[t].victim = NoSession, call[t].todo = <<>>, UNCHANGED call
  PROVE  CallPlace(t)'
  BY DEF CallPlace

LEMMA NoCallElsewhere ==
  ASSUME CallInv, NEW t \in Thread,
         \/ Returned(t)
         \/ handler[t].at \notin {"own", "respond", "close", "stop", "shut"}
  PROVE  call[t].victim = NoSession /\ call[t].todo = <<>>
  BY DEF CallInv, CallPlace, Returned, Coordinator!NoCall

LEMMA ServeCalls ==
  ASSUME IInv, CallInv, NEW s \in Session, Serve(s)
  PROVE  CallInv'
<1>1. s \in Thread /\ HandlerTyped /\ UNCHANGED <<call, loopAt, closed>>
  BY DEF Thread, IInv, TypeInv, Serve, playbackVars
<1>2. \/ Returned(s)
      \/ handler[s].at \notin {"own", "respond", "close", "stop", "shut"}
  BY DEF Serve, Accept, NewSession, Receive, ReadFails, DispatchSetup, DispatchRecord,
     DispatchPause, DispatchTeardown
<1>3. CallPlace(s)'
  BY <1>1, <1>2, NoCallElsewhere, CallStaysAway
<1>4. OthersStay(s)
  BY <1>1 DEF Serve, Accept, NewSession, Receive, ReadFails, DispatchSetup, DispatchRecord,
     DispatchPause, DispatchTeardown, Own, Respond, Goes, Closes, OthersStay, HandlerTyped
<1>. QED
  BY <1>1, <1>3, <1>4, CallKeeps

LEMMA ActivateCalls ==
  ASSUME IInv, CallInv, CallTyped, NEW s \in Session, Activate(s)
  PROVE  CallInv'
<1>1. s \in Thread /\ HandlerTyped /\ UNCHANGED <<loopAt, closed>> /\ handler[s].at = "acquire"
  BY DEF Thread, IInv, TypeInv, Activate, Acquire, Coordinator!Activate, Coordinator!loopVars
<1>2. generation \in Nat /\ active \in SessionOrNone /\ s # NoSession
  BY NoSessionAssumption DEF IInv, TypeInv, ManagerInv, ManagerTypeOK
<1>3. call[s].victim = NoSession /\ call[s].todo = <<>>
  BY <1>1, NoCallElsewhere
<1>4. \A u \in Thread : u # s => call'[u] = call[u]
  BY <1>1 DEF Activate, Coordinator!Activate, CallTyped
<1>5. CASE UNCHANGED call
  <2>1. OthersStay(s)
    BY <1>1 DEF Activate, Acquire, Goes, Closes, OthersStay, HandlerTyped
  <2>. QED
    BY <1>1, <1>3, <1>4, <1>5, <2>1, CallStaysAway, CallKeeps
<1>6. CASE AcquireAgain(s) /\ call'[s].victim = NoSession
  <2>1. Goes(s, "own")
    BY <1>2, <1>6 DEF Activate, Acquire, AcquireNew, AcquireAgain, Reject
  <2>2. OthersStay(s) /\ handler'[s].at = "own"
    BY <1>1, <2>1, GoesMoves DEF Places, Stands
  <2>3. CallPlace(s)'
    BY <1>6, <2>2 DEF CallPlace, Busy
  <2>. QED
    BY <1>1, <1>4, <2>2, <2>3, CallKeeps
<1>7. CASE AcquireNew(s) /\ call'[s].victim = active
  <2>1. CASE active = NoSession
    <3>1. Goes(s, "own")
      BY <1>2, <1>7, <2>1 DEF Activate, Acquire, AcquireNew, AcquireAgain, Reject
    <3>2. OthersStay(s) /\ handler'[s].at = "own"
      BY <1>1, <3>1, GoesMoves DEF Places, Stands
    <3>3. CallPlace(s)'
      BY <1>7, <2>1, <3>2 DEF CallPlace, Busy
    <3>. QED
      BY <1>1, <1>4, <3>2, <3>3, CallKeeps
  <2>2. CASE active # NoSession
    <3>1. Closes(s, active, "own") /\ active \in Session
      BY <1>2, <1>7, <2>2 DEF Activate, Acquire, AcquireNew, AcquireAgain, Reject, SessionOrNone
    <3>2. OthersStay(s) /\ handler'[s].at = "close" /\ handler'[s].then = "own"
      BY <1>1, <3>1, ClosesMoves DEF Closes, Returns, Stands
    <3>3. CallPlace(s)'
      BY <3>2 DEF CallPlace
    <3>. QED
      BY <1>1, <1>4, <3>2, <3>3, CallKeeps
  <2>. QED
    BY <2>1, <2>2
<1>8. \/ UNCHANGED call
      \/ AcquireAgain(s) /\ call'[s].victim = NoSession
      \/ AcquireNew(s) /\ call'[s].victim = active
  <2>1. Coordinator!AcquireAgain(s) => AcquireAgain(s)
    BY DEF Coordinator!AcquireAgain, AcquireAgain, Coordinator!config, config
  <2>2. Coordinator!AcquireNew(s) => AcquireNew(s)
    BY DEF Coordinator!AcquireNew, AcquireNew, Coordinator!ChangeOwner, ChangeOwner,
       Coordinator!CanReplace, CanReplace, Coordinator!config, config
  <2>. QED
    BY <1>1, <2>1, <2>2 DEF Activate, Coordinator!Activate, CallTyped
<1>. QED
  BY <1>5, <1>6, <1>7, <1>8

\* What the calls made inside a Close do to the call of the goroutine.
LEMMA CancelCalls ==
  ASSUME CallTyped, NEW t \in Thread, Coordinator!CancelReplaced(t)
  PROVE  /\ call'[t].victim = NoSession
         /\ \A u \in Thread : u # t => call'[u] = call[u]
         /\ UNCHANGED <<loopAt, closed>>
  BY DEF CallTyped, Coordinator!CancelReplaced, Coordinator!loopVars

LEMMA BeginCloseCalls ==
  ASSUME IInv, CallInv, CallTyped, NEW t \in Thread, BeginClose(t)
  PROVE  CallInv'
<1>1. HandlerTyped /\ handler[t].at = "close" /\ CallPlace(t)
  BY DEF IInv, TypeInv, BeginClose, CloseSession, CallInv
<1>2. PICK place \in {"stop", "shut", "own", "respond", "next", "gone"} :
        /\ OthersStay(t) /\ handler'[t].at = place
        /\ \/ place \in {"stop", "shut"} /\ handler'[t].then = handler[t].then
           \/ place = handler[t].then
  <2>1. CASE Goes(t, "stop") \/ Goes(t, "shut")
    BY <1>1, <2>1, GoesMoves DEF Places, Stands
  <2>2. CASE GoesOn(t)
    BY <1>1, <2>2, GoesOnMoves, HandlerHas DEF Returns, Stands
  <2>. QED
    BY <2>1, <2>2 DEF BeginClose, CloseSession, ClosesFirst
<1>3. /\ \A u \in Thread : u # t => call'[u] = call[u]
      /\ UNCHANGED <<loopAt, closed>>
  BY CancelCalls DEF BeginClose, playbackVars
<1>4. CASE handler[t].then = "own"
  <2>1. call'[t].victim # NoSession => handler'[t].at = "stop"
    BY CancelCalls DEF BeginClose, Cancelling, playbackVars
  <2>2. CallPlace(t)'
    BY <1>2, <1>4, <2>1 DEF CallPlace, Busy
  <2>. QED
    BY <1>2, <1>3, <2>2, CallKeeps
<1>5. CASE handler[t].then # "own"
  <2>1. call[t].victim = NoSession /\ call[t].todo = <<>>
    BY <1>1, <1>5 DEF CallPlace, Busy
  <2>2. UNCHANGED call
    BY <2>1 DEF BeginClose, Cancelling, playbackVars
  <2>. QED
    BY <1>2, <1>3, <2>1, <2>2, CallStaysAway, CallKeeps
<1>. QED
  BY <1>4, <1>5

LEMMA DeactivateCalls ==
  ASSUME IInv, CallInv, CallTyped, NEW t \in Thread, Deactivate(t)
  PROVE  CallInv'
<1>1. HandlerTyped /\ handler[t].at = "stop" /\ CallPlace(t)
  BY DEF IInv, TypeInv, Deactivate, SessionStop, CallInv
<1>2. OthersStay(t) /\ \/ handler'[t].at = "shut" /\ handler'[t].then = handler[t].then
                       \/ handler'[t].at = "respond" /\ handler[t].then = "respond"
  <2>1. CASE Goes(t, "shut")
    BY <1>1, <2>1, GoesMoves DEF Places, Stands
  <2>2. CASE GoesOn(t) /\ handler[t].then = "respond"
    BY <1>1, <2>2, GoesOnMoves DEF Stands
  <2>. QED
    BY <2>1, <2>2 DEF Deactivate, SessionStop
<1>3. CASE Cancelling(t)
  <2>1. handler[t].then = "own" /\ Coordinator!CancelReplaced(t)
    BY <1>1, <1>3 DEF CallPlace, Cancelling, Deactivate
  <2>2. CallPlace(t)'
    BY <1>2, <2>1, CancelCalls DEF CallPlace
  <2>. QED
    BY <1>2, <2>1, <2>2, CancelCalls, CallKeeps
<1>4. CASE ~Cancelling(t)
  <2>1. /\ call[t].victim = NoSession /\ call[t].todo = <<>>
        /\ UNCHANGED <<loopAt, closed>>
        /\ \A u \in Thread : u # t => call'[u] = call[u]
        /\ \/ UNCHANGED call
           \/ /\ call'[t].victim = NoSession
              /\ call'[t].todo =
                    <<Coordinator!PauseCommand(handler[t].closing, generation')>>
    BY <1>4 DEF Deactivate, Coordinator!Deactivate, Coordinator!NoCall, Coordinator!loopVars,
       CallTyped
  <2>2. CASE UNCHANGED call
    BY <1>2, <2>1, <2>2, CallStaysAway, CallKeeps
  <2>3. CASE call'[t].todo = <<Coordinator!PauseCommand(handler[t].closing, generation')>>
             /\ call'[t].victim = NoSession
    <3>1. PauseDue(t)' /\ Len(call'[t].todo) = 1
      BY <2>3 DEF PauseDue, Coordinator!PauseCommand
    <3>2. CallPlace(t)'
      BY <1>2, <2>3, <3>1 DEF CallPlace, Busy
    <3>. QED
      BY <1>2, <2>1, <3>2, CallKeeps
  <2>. QED
    BY <2>1, <2>2, <2>3
<1>. QED
  BY <1>3, <1>4

LEMMA EndCloseCalls ==
  ASSUME IInv, CallInv, NEW t \in Thread, EndClose(t)
  PROVE  CallInv'
<1>1. /\ HandlerTyped /\ handler[t].at = "shut" /\ CallPlace(t) /\ ~PauseDue(t)
      /\ UNCHANGED <<call, loopAt, closed>>
  BY DEF IInv, TypeInv, EndClose, Shut, CallInv, playbackVars
<1>2. OthersStay(t) /\ handler'[t].at = handler[t].then /\ handler[t].then \in Returns
  BY <1>1, GoesOnMoves, HandlerHas DEF EndClose, Shut, Stands
<1>3. call[t].victim = NoSession /\ (handler[t].then # "own" => call[t].todo = <<>>)
  BY <1>1 DEF CallPlace, Busy
<1>4. CallPlace(t)'
  BY <1>1, <1>2, <1>3 DEF CallPlace, Busy, Returns
<1>. QED
  BY <1>1, <1>2, <1>4, CallKeeps

LEMMA DeliverCalls ==
  ASSUME CallInv, CallTyped, NEW t \in Thread, Deliver(t)
  PROVE  CallInv'
<1>1. /\ call[t].victim = NoSession /\ call[t].todo # <<>>
      /\ call'[t].victim = NoSession /\ call'[t].todo = Tail(call[t].todo)
      /\ \A u \in Thread : u # t => call'[u] = call[u]
      /\ UNCHANGED <<loopAt, closed, handler>>
  BY DEF Deliver, Coordinator!Enqueue, Coordinator!loopVars, sessionVars, CallTyped
<1>2. Len(call[t].todo) = 1 => Tail(call[t].todo) = <<>>
  <2>1. call[t].todo \in Seq(Proved!Command)
    BY DEF CallTyped
  <2>2. \A q \in Seq(Proved!Command) : Len(q) = 1 =>
          q # <<>> /\ Tail(q) \in Seq(Proved!Command) /\ Len(Tail(q)) = 0
    OBVIOUS
  <2>3. \A q \in Seq(Proved!Command) : Len(q) = 0 => q = <<>>
    OBVIOUS
  <2>. QED
    BY <2>1, <2>2, <2>3
<1>3. CallPlace(t)
  BY DEF CallInv
<1>4. CallPlace(t)'
  BY <1>1, <1>2, <1>3 DEF CallPlace, Busy
<1>. QED
  BY <1>1, <1>4, CallKeeps DEF OthersStay

LEMMA ServerCloseCalls == ASSUME IInv, CallInv, ServerClose PROVE CallInv'
<1>1. /\ Main \in Thread /\ HandlerTyped /\ UNCHANGED <<call, loopAt, closed>>
      /\ handler[Main].at \in {"new", "snapshot", "next"}
  BY DEF Thread, IInv, TypeInv, ServerClose, StopListening, Snapshot, CloseNext, playbackVars
<1>2. CallPlace(Main)'
  BY <1>1, NoCallElsewhere, CallStaysAway
<1>3. OthersStay(Main)
  BY <1>1 DEF ServerClose, StopListening, Snapshot, CloseNext, Goes, Closes, OthersStay,
     HandlerTyped
<1>. QED
  BY <1>1, <1>2, <1>3, CallKeeps

LEMMA CallInvNext ==
  ASSUME IInv, CallInv, CallTyped, [StackNext]_stackVars
  PROVE  CallInv'
<1>1. CASE CloseCoordinator \/ Control
  <2>1. UNCHANGED <<handler, call>> /\ LoopLeavesClosed'
    BY <1>1 DEF CloseCoordinator, Control, sessionVars, CallInv, LoopLeavesClosed,
       Coordinator!Close, Coordinator!TakeCommand, Coordinator!StopLoop,
       Coordinator!CheckCommand, Coordinator!CallReturns, Coordinator!CallSucceeds,
       Coordinator!CallFails, Coordinator!Retry, Coordinator!LoopReturns, Coordinator!loopVars
  <2>. QED
    BY <2>1 DEF CallInv, CallPlace, PauseDue, Busy
<1>2. CASE (Attend /\ UNCHANGED playbackVars) \/ UNCHANGED stackVars
  <2>1. UNCHANGED <<handler, call, loopAt, closed>>
    BY <1>2 DEF Attend, stackVars, sessionVars, playbackVars
  <2>. QED
    BY <2>1 DEF CallInv, CallPlace, PauseDue, Busy, LoopLeavesClosed
<1>. QED
  BY <1>1, <1>2, ServeCalls, ActivateCalls, BeginCloseCalls, DeactivateCalls, EndCloseCalls,
     DeliverCalls, ServerCloseCalls DEF StackNext

LEMMA CallInvImplies ==
  ASSUME IInv, CloseIsServed, CallInv, CallTyped,
         loopAt \in {"select", "check", "call", "backoff", "exited"}
  PROVE  StackGoesOn
<1>. SUFFICES ASSUME ~ControlGoesOn,
                     \A u \in Thread : Resting(u) \/ Blocked(u),
                     NEW t \in Thread
              PROVE  Resting(t) /\ Returned(t)
  BY DEF StackGoesOn
<1>1. ASSUME NEW u \in Thread, Delivers(u) PROVE ~(Len(commands) >= QueueCap /\ ~closed)
  <2>. SUFFICES ASSUME Len(commands) >= QueueCap, ~closed PROVE FALSE
    OBVIOUS
  <2>1. commands # <<>>
    BY ChannelAssumption
  <2>. QED
    BY <2>1 DEF ControlGoesOn, CallInv, LoopLeavesClosed
<1>2. ASSUME NEW u \in Thread, ~Resting(u) PROVE FALSE
  <2>1. Waits(u)
    BY <1>1, <1>2 DEF Blocked, Waits
  <2>2. PICK v \in Thread : Works(v, handler[u].closing) /\ ~Waits(v)
    BY <2>1 DEF CloseIsServed
  <2>. QED
    BY <1>1, <2>2 DEF Works, Waits, Resting, Blocked
<1>3. Resting(t)
  BY <1>2
<1>4. call[t].victim = NoSession /\ call[t].todo = <<>>
  BY <1>3, NoCallElsewhere DEF Resting
<1>5. call[t] = Coordinator!NoCall
  BY <1>4 DEF CallTyped, Coordinator!NoCall
<1>. QED
  BY <1>3, <1>5 DEF Returned

\* A request, a Close or a command held up anywhere is held up by somebody who can
\* go on: sessions that close each other, and the main goroutine, over a full
\* channel to a slow speaker, never wait in a circle, nor for a control loop that
\* is gone.
THEOREM StackNeverStuck == StackSpec => []StackGoesOn
<1>1. Proved!Spec => []Proved!TypeOK
  BY Proved!PlaybackTypeCorrect, NoSessionAssumption, ProtocolAssumption, PolicyAssumption,
     PreferenceAssumption, IdleTimeoutAssumption, GenerationAssumption, ChannelAssumption
  DEF Protocols, Proved!Protocols
<1>2. Proved!TypeOK => CallTyped /\ loopAt \in {"select", "check", "call", "backoff", "exited"}
  BY DEF Proved!TypeOK, Proved!Call, CallTyped
<1>3. StackInit => CallInv
  <2>. SUFFICES ASSUME StackInit PROVE CallInv
    OBVIOUS
  <2>1. \A t \in Thread : call[t].victim = NoSession /\ call[t].todo = <<>>
    BY DEF StackInit, Coordinator!Init, Coordinator!NoCall
  <2>2. loopAt = "select"
    BY DEF StackInit, Coordinator!Init
  <2>. QED
    BY <2>1, <2>2 DEF CallInv, CallPlace, LoopLeavesClosed
<1>4. IInv /\ CallInv /\ CallTyped /\ [StackNext]_stackVars => CallInv'
  BY CallInvNext
<1>5. StackSpec => []CallTyped
  BY <1>1, <1>2, StackRunsCoordinator, CoordinatorIsProved, PTL
<1>6. StackSpec => []CallInv
  BY <1>3, <1>4, <1>5, StackRunsSessions, SessionInvariant, PTL DEF StackSpec
<1>7. IInv /\ CloseIsServed /\ CallInv /\ Proved!TypeOK => StackGoesOn
  BY <1>2, CallInvImplies
<1>. QED
  BY <1>1, <1>6, <1>7, StackRunsCoordinator, CoordinatorIsProved, StackRunsSessions,
     SessionInvariant, NoCircleOfCloses, PTL
=============================================================================
