------------------------ MODULE DlnaRenderer_proofs ------------------------
(***************************************************************************)
(* Proofs about DlnaRenderer, for any numbers of handlers, proxies and     *)
(* media sessions and under every policy: the types, that PLAYING means    *)
(* there is media to play, that only the owner's media session is left     *)
(* when requests are over, that only its stream goes on, and that renderer *)
(* and arbiter agree on the owner.                                         *)
(***************************************************************************)
EXTENDS DlnaRenderer, SourceManager_proofs, FiniteSetTheorems

-----------------------------------------------------------------------------
\* The invariant.

Ids == used \union AirPlay \union {NoSession}

\* What is true of a request in progress when ids are given out and a table of
\* media sessions is there: who acquires was not granted anything yet, who
\* settles has a media session, who cancels has one to cancel, and who tells the
\* arbiter of a stop has taken it out of the table.
CallFits(c, ids, table) ==
    /\ c \in Call
    /\ c.id \in ids \union AirPlay \union {NoSession}
    /\ c.target \in ids \union {NoSession}
    /\ c.at = "acquire" => /\ ~c.granted /\ c.id # NoSession
                           /\ c.then = "settle" \/ (c.then = "idle" /\ c.id \in AirPlay)
    /\ c.at = "settle" \/ c.then = "settle" => c.id \in ids
    /\ c.at \in {"cancel", "stop"} => c.target \in ids
    /\ c.at = "stop" => c.target \notin table

TypeInv ==
    /\ ManagerInv
    /\ atOnce \in Crowds
    /\ hasURI \in BOOLEAN /\ closed \in BOOLEAN
    /\ used \subseteq Media
    /\ media \subseteq used \ cancelled
    /\ cancelled \subseteq used
    /\ active \in Ids
    /\ activeSession \in used \union {NoSession}
    /\ transportState \in {"NO_MEDIA_PRESENT", "STOPPED", "PLAYING", "PAUSED_PLAYBACK"}
    /\ proxy \in [Proxy -> media \union cancelled \union {NoSession}]
    /\ call \in [Thread -> Call \union {NoCall}]
    /\ \A t \in Thread : call[t] # NoCall => CallFits(call[t], used, media)

\* The request will cancel the media session, or has still to hear of the
\* arbiter whether it has to.
Holds(c, id) ==
    \/ c.at = "cancel" /\ c.target = id
    \/ c.at = "acquire" /\ c.id = id
    \/ c.at = "settle" /\ ~c.granted /\ c.id = id

\* A media session in the table is the owner's, or some request will see to it.
MediaHeld == \A id \in media : active = id \/ \E t \in Thread : Holds(call[t], id)

IInv == TypeInv /\ PlayingHasMedia /\ MediaHeld

LEMMA NoCallIsIdle == NoCall \notin Call /\ \A id : ~Holds(NoCall, id)
  BY DEF NoCall, Call, Holds

LEMMA RendererInit == Init => IInv
<1>. SUFFICES ASSUME Init PROVE IInv
  OBVIOUS
<1>1. ManagerInv /\ active = NoSession
  BY ManagerInitInv DEF Init, ManagerInit
<1>2. TypeInv
  BY <1>1 DEF Init, TypeInv, Ids
<1>. QED
  BY <1>2 DEF Init, IInv, PlayingHasMedia, MediaHeld

\* The arbiter's part of a step.
LEMMA ArbiterStep ==
  ASSUME ManagerInv, NEW s \in SessionOrNone,
         AcquireNew(s) \/ Reject(s) \/ Release(s) \/ UNCHANGED managerVars
  PROVE  ManagerInv'
  BY ManagerNextInv DEF ManagerNext

-----------------------------------------------------------------------------
\* A step of one request.

\* The goroutine goes on with the request c; no media session is left without
\* somebody who sees to it.
LEMMA CallStep ==
  ASSUME TypeInv, MediaHeld, NEW t \in Thread, NEW c,
         call' = [call EXCEPT ![t] = c],
         used \subseteq used', media' \subseteq media \union (used' \ used),
         c = NoCall \/ CallFits(c, used', media'),
         \A id \in media' : active = id \/ Holds(call[t], id) \/ id \notin media
                            => active' = id \/ Holds(c, id)
  PROVE  /\ call' \in [Thread -> Call \union {NoCall}]
         /\ \A u \in Thread : call'[u] # NoCall => CallFits(call'[u], used', media')
         /\ MediaHeld'
<1>1. c \in Call \union {NoCall}
  BY DEF CallFits
<1>2. call \in [Thread -> Call \union {NoCall}]
  BY DEF TypeInv
<1>3. call' \in [Thread -> Call \union {NoCall}] /\ call'[t] = c
      /\ \A u \in Thread : u # t => call'[u] = call[u]
  BY <1>1, <1>2
<1>4. ASSUME NEW u \in Thread, call'[u] # NoCall
      PROVE  CallFits(call'[u], used', media')
  <2>1. CASE u = t
    BY <2>1, <1>3, <1>4
  <2>2. CASE u # t
    <3>1. call'[u] = call[u] /\ CallFits(call[u], used, media)
      BY <2>2, <1>3, <1>4 DEF TypeInv
    <3>. QED
      BY <3>1 DEF CallFits
  <2>. QED
    BY <2>1, <2>2
<1>5. ASSUME NEW id \in media' PROVE active' = id \/ \E u \in Thread : Holds(call'[u], id)
  <2>1. CASE active = id \/ Holds(call[t], id) \/ id \notin media
    BY <2>1, <1>3
  <2>2. CASE id \in media /\ active # id /\ ~Holds(call[t], id)
    <3>1. PICK u \in Thread : Holds(call[u], id)
      BY <2>2 DEF MediaHeld
    <3>. QED
      BY <3>1, <2>2, <1>3
  <2>. QED
    BY <2>1, <2>2
<1>. QED
  BY <1>3, <1>4, <1>5 DEF MediaHeld

\* What Goes does to a request in progress.
LEMMA GoesTo ==
  ASSUME TypeInv, NEW t \in Thread, call[t] # NoCall,
         NEW place \in {"acquire", "cancel", "stop", "settle", "finish", "idle"}, Goes(t, place)
  PROVE  \E c : /\ call' = [call EXCEPT ![t] = c]
                /\ place = "idle" => c = NoCall
                /\ place # "idle" =>
                     /\ c \in Call /\ c.at = place /\ c.request = call[t].request
                     /\ c.id = call[t].id /\ c.granted = call[t].granted
                     /\ c.target = call[t].target /\ c.then = call[t].then
                     /\ c.notify = call[t].notify
<1>1. call[t] \in Call
  BY DEF TypeInv
<1>2. CASE place = "idle"
  BY <1>2 DEF Goes
<1>3. CASE place # "idle"
  <2>. DEFINE c == [call[t] EXCEPT !.at = place]
  <2>1. /\ c \in Call /\ c.at = place /\ c.request = call[t].request
        /\ c.id = call[t].id /\ c.granted = call[t].granted
        /\ c.target = call[t].target /\ c.then = call[t].then /\ c.notify = call[t].notify
    BY <1>1, <1>3 DEF Call
  <2>2. call' = [call EXCEPT ![t] = c]
    BY <1>3 DEF Goes
  <2>. HIDE DEF c
  <2>. QED
    BY <2>1, <2>2, <1>3
<1>. QED
  BY <1>2, <1>3

\* A thread in a place other than idle has a request that fits.
LEMMA InCall ==
  ASSUME TypeInv, NEW t \in Thread, call[t].at # "idle"
  PROVE  call[t] # NoCall /\ call[t] \in Call /\ CallFits(call[t], used, media)
<1>1. call[t] # NoCall
  BY DEF NoCall
<1>. QED
  BY <1>1 DEF TypeInv

-----------------------------------------------------------------------------
\* The steps.

LEMMA PlayStep ==
  ASSUME IInv, NEW t \in Handler, Play(t)
  PROVE  IInv'
<1>1. PICK id \in Media \ used :
         /\ used' = used \union {id}
         /\ media' = media \union {id}
         /\ call' = [call EXCEPT ![t] =
                       [at |-> "acquire", request |-> "Play", id |-> id, granted |-> FALSE,
                        target |-> NoSession, notify |-> TRUE, then |-> "settle"]]
  BY DEF Play
<1>. DEFINE c == [at |-> "acquire", request |-> "Play", id |-> id, granted |-> FALSE,
                  target |-> NoSession, notify |-> TRUE, then |-> "settle"]
<1>2. t \in Thread /\ id \in SessionOrNone /\ NoSession \notin Media
  BY MediaAssumption, NoSessionAssumption DEF Thread, SessionOrNone
<1>3. c \in Call /\ CallFits(c, used', media') /\ Holds(c, id)
  BY <1>1, <1>2 DEF CallFits, Call, Requests, Holds, SessionOrNone
<1>4. call[t] = NoCall /\ UNCHANGED <<managerVars, atOnce, cancelled, proxy, hasURI,
                                      activeSession, transportState, closed>>
  BY DEF Play, Arrives
<1>5. \A i \in media' : active = i \/ Holds(call[t], i) \/ i \notin media
                            => active' = i \/ Holds(c, i)
  BY <1>1, <1>3, <1>4, NoCallIsIdle DEF managerVars
<1>6. TypeInv /\ MediaHeld
  BY DEF IInv
<1>. HIDE DEF c
<1>7. /\ call' \in [Thread -> Call \union {NoCall}]
      /\ \A u \in Thread : call'[u] # NoCall => CallFits(call'[u], used', media')
      /\ MediaHeld'
  <2>1. call' = [call EXCEPT ![t] = c]
    BY <1>1 DEF c
  <2>. QED
    BY <2>1, <1>1, <1>2, <1>3, <1>5, <1>6, CallStep
<1>8. ManagerInv' /\ active' \in Ids'
  BY <1>1, <1>4, <1>6, <1>2, ArbiterStep DEF TypeInv, Ids, managerVars
<1>9. TypeInv'
  BY <1>1, <1>4, <1>6, <1>7, <1>8 DEF TypeInv
<1>10. PlayingHasMedia'
  BY <1>1, <1>4 DEF IInv, PlayingHasMedia
<1>. QED
  BY <1>7, <1>9, <1>10 DEF IInv

LEMMA RecordStep ==
  ASSUME IInv, NEW a \in AirPlay, Record(a)
  PROVE  IInv'
<1>. DEFINE c == [at |-> "acquire", request |-> "RECORD", id |-> a, granted |-> FALSE,
                  target |-> NoSession, notify |-> TRUE, then |-> "idle"]
<1>1. call[a] = NoCall /\ call' = [call EXCEPT ![a] = c]
      /\ UNCHANGED <<managerVars, atOnce, serverVars, proxy>>
  BY DEF Record
<1>2. a \in Thread /\ a \in SessionOrNone /\ a # NoSession
  BY NoSessionAssumption DEF Thread, SessionOrNone, AirPlay
<1>3. c \in Call /\ CallFits(c, used', media')
  BY <1>1, <1>2 DEF CallFits, Call, Requests, SessionOrNone
<1>6. TypeInv /\ MediaHeld
  BY DEF IInv
<1>5. \A i \in media' : active = i \/ Holds(call[a], i) \/ i \notin media
                            => active' = i \/ Holds(c, i)
  BY <1>1, NoCallIsIdle DEF managerVars, serverVars, mediaVars
<1>. HIDE DEF c
<1>7. /\ call' \in [Thread -> Call \union {NoCall}]
      /\ \A u \in Thread : call'[u] # NoCall => CallFits(call'[u], used', media')
      /\ MediaHeld'
  <2>1. used' = used /\ media' = media
    BY <1>1 DEF serverVars, mediaVars
  <2>. QED
    BY <2>1, <1>1, <1>2, <1>3, <1>5, <1>6, CallStep
<1>8. ManagerInv' /\ active' \in Ids'
  BY <1>1, <1>6, <1>2, ArbiterStep DEF TypeInv, Ids, managerVars, serverVars
<1>9. TypeInv'
  BY <1>1, <1>6, <1>7, <1>8 DEF TypeInv, serverVars, mediaVars
<1>10. PlayingHasMedia'
  BY <1>1 DEF IInv, PlayingHasMedia, serverVars, mediaVars
<1>. QED
  BY <1>7, <1>9, <1>10 DEF IInv
LEMMA AcquireStep ==
  ASSUME IInv, NEW t \in Thread, Acquire(t)
  PROVE  IInv'
<1>1. /\ call[t].at = "acquire" /\ call[t] # NoCall /\ call[t] \in Call
      /\ CallFits(call[t], used, media) /\ TypeInv /\ MediaHeld
  BY InCall DEF Acquire, IInv
<1>2. /\ UNCHANGED <<atOnce, serverVars, proxy>>
      /\ used' = used /\ media' = media /\ cancelled' = cancelled
      /\ activeSession' = activeSession /\ closed' = closed /\ transportState' = transportState
  BY DEF Acquire, serverVars, mediaVars
<1>3. /\ call[t].id \in SessionOrNone /\ call[t].id \in Ids /\ call[t].id # NoSession
      /\ ~call[t].granted /\ (call[t].then = "settle" => call[t].id \in used)
      /\ (call[t].then # "settle" => call[t].id \notin media)
      /\ call[t].target \in used \union {NoSession}
  BY <1>1 DEF CallFits, Call, Ids, TypeInv, AirPlay
<1>4. ManagerInv'
  BY <1>1, <1>3, ArbiterStep DEF Acquire, TypeInv
<1>5. (AcquireNew(call[t].id) /\ active' = call[t].id) \/ (Reject(call[t].id) /\ active' = active)
  BY DEF Acquire, AcquireNew, ChangeOwner, Reject, managerVars
<1>6. active' \in Ids'
  BY <1>1, <1>2, <1>3, <1>5 DEF TypeInv, Ids
<1>7. \E c : /\ call' = [call EXCEPT ![t] = c]
             /\ c = NoCall \/ CallFits(c, used', media')
             /\ \A i \in media' : active = i \/ Holds(call[t], i) \/ i \notin media
                                  => active' = i \/ Holds(c, i)
  <2>1. CASE AcquireNew(call[t].id) /\ active \in Media
                /\ call' = [call EXCEPT ![t] =
                     [@ EXCEPT !.at = "cancel", !.granted = TRUE, !.target = active]]
    <3>. DEFINE c == [call[t] EXCEPT !.at = "cancel", !.granted = TRUE, !.target = active]
    <3>1. active \in used /\ active \in SessionOrNone
      BY <1>1, <2>1, NoSessionAssumption, MediaAssumption DEF TypeInv, Ids, AirPlay, SessionOrNone
    <3>2. /\ c \in Call /\ c.at = "cancel" /\ c.id = call[t].id /\ c.target = active
          /\ c.then = call[t].then
      BY <1>1, <3>1 DEF Call
    <3>3. call' = [call EXCEPT ![t] = c]
      BY <2>1
    <3>. HIDE DEF c
    <3>4. CallFits(c, used', media')
      BY <1>1, <1>2, <3>1, <3>2 DEF CallFits
    <3>5. active' = call[t].id
      BY <2>1 DEF AcquireNew, ChangeOwner
    <3>6. \A i \in media' : active = i \/ Holds(call[t], i) \/ i \notin media
                            => active' = i \/ Holds(c, i)
      BY <1>1, <1>2, <3>2, <3>5 DEF Holds
    <3>. QED
      BY <3>3, <3>4, <3>6
  <2>2. CASE AcquireNew(call[t].id) /\ active \notin Media /\ call[t].then = "idle"
                /\ call' = [call EXCEPT ![t] = NoCall]
    <3>1. \A i \in media' : active = i \/ Holds(call[t], i) \/ i \notin media
                            => active' = i \/ Holds(NoCall, i)
      BY <1>1, <1>2, <1>3, <2>2 DEF Holds, TypeInv
    <3>. QED
      BY <2>2, <3>1
  <2>3. CASE AcquireNew(call[t].id) /\ active \notin Media /\ call[t].then # "idle"
                /\ call' = [call EXCEPT ![t] = [@ EXCEPT !.at = "settle", !.granted = TRUE]]
    <3>. DEFINE c == [call[t] EXCEPT !.at = "settle", !.granted = TRUE]
    <3>1. /\ c \in Call /\ c.at = "settle" /\ c.id = call[t].id /\ c.target = call[t].target
          /\ c.then = call[t].then
      BY <1>1 DEF Call
    <3>2. call' = [call EXCEPT ![t] = c]
      BY <2>3
    <3>. HIDE DEF c
    <3>3. call[t].id \in used
      BY <1>1, <2>3 DEF CallFits, Call
    <3>4. CallFits(c, used', media')
      BY <1>1, <1>2, <3>1, <3>3 DEF CallFits
    <3>5. active' = call[t].id
      BY <2>3 DEF AcquireNew, ChangeOwner
    <3>6. \A i \in media' : active = i \/ Holds(call[t], i) \/ i \notin media
                            => active' = i \/ Holds(c, i)
      BY <1>1, <1>2, <2>3, <3>5 DEF Holds, TypeInv
    <3>. QED
      BY <3>2, <3>4, <3>6
  <2>4. CASE Reject(call[t].id) /\ Goes(t, call[t].then)
    <3>1. call[t].then \in {"settle", "finish", "idle"} /\ active' = active
      BY <1>1, <2>4 DEF Call, Reject, managerVars
    <3>2. PICK c : /\ call' = [call EXCEPT ![t] = c]
                   /\ call[t].then = "idle" => c = NoCall
                   /\ call[t].then # "idle" =>
                        /\ c \in Call /\ c.at = call[t].then /\ c.id = call[t].id
                        /\ c.granted = call[t].granted
                        /\ c.target = call[t].target /\ c.then = call[t].then
      BY <1>1, <2>4, <3>1, GoesTo
    <3>3. c = NoCall \/ CallFits(c, used', media')
      BY <1>1, <1>2, <1>3, <3>1, <3>2 DEF CallFits
    <3>4. \A i \in media' : active = i \/ Holds(call[t], i) \/ i \notin media
                            => active' = i \/ Holds(c, i)
      BY <1>1, <1>2, <1>3, <3>1, <3>2 DEF Holds
    <3>. QED
      BY <3>2, <3>3, <3>4
  <2>. QED
    BY <1>1, <2>1, <2>2, <2>3, <2>4 DEF Acquire
<1>8. /\ call' \in [Thread -> Call \union {NoCall}]
      /\ \A u \in Thread : call'[u] # NoCall => CallFits(call'[u], used', media')
      /\ MediaHeld'
  BY <1>1, <1>2, <1>7, CallStep
<1>9. TypeInv'
  BY <1>1, <1>2, <1>4, <1>6, <1>8 DEF TypeInv, serverVars
<1>10. PlayingHasMedia'
  BY <1>2 DEF IInv, PlayingHasMedia
<1>. QED
  BY <1>8, <1>9, <1>10 DEF IInv

\* The media session that is cancelled has nobody to see to it any more, and
\* needs nobody: it is out of the table.
LEMMA CancelStep ==
  ASSUME IInv, NEW t \in Thread, CancelMedia(t)
  PROVE  IInv'
<1>. DEFINE r == call[t]
<1>1. /\ r.at = "cancel" /\ r # NoCall /\ r \in Call
      /\ CallFits(r, used, media) /\ TypeInv /\ MediaHeld
  BY InCall DEF CancelMedia, IInv
<1>2. /\ media' = media \ {r.target}
      /\ cancelled' = cancelled \union ({r.target} \intersect media)
      /\ used' = used /\ active' = active
      /\ UNCHANGED <<managerVars, atOnce, proxy, hasURI, used, closed>>
  BY DEF CancelMedia, managerVars
<1>3. /\ activeSession' \in {activeSession, NoSession}
      /\ transportState' \in {transportState, "STOPPED"}
      /\ activeSession = r.target => activeSession' = NoSession /\ transportState' = "STOPPED"
      /\ activeSession # r.target => UNCHANGED <<activeSession, transportState>>
  BY DEF CancelMedia
<1>4. r.target \in used /\ r.then \in {"settle", "finish", "idle"}
  BY <1>1 DEF CallFits, Call
<1>5. PICK place \in {"stop", "settle", "finish", "idle"} :
         Goes(t, place) /\ (place # "stop" => place = r.then)
  BY <1>4 DEF CancelMedia
<1>6. PICK c : /\ call' = [call EXCEPT ![t] = c]
               /\ place = "idle" => c = NoCall
               /\ place # "idle" =>
                    /\ c \in Call /\ c.at = place /\ c.id = r.id
                    /\ c.granted = r.granted /\ c.target = r.target /\ c.then = r.then
  BY <1>1, <1>5, GoesTo
<1>7. c = NoCall \/ CallFits(c, used', media')
  BY <1>1, <1>2, <1>4, <1>5, <1>6 DEF CallFits
<1>8. \A i \in media' : active = i \/ Holds(r, i) \/ i \notin media
                        => active' = i \/ Holds(c, i)
  BY <1>1, <1>2 DEF Holds
<1>9. /\ call' \in [Thread -> Call \union {NoCall}]
      /\ \A u \in Thread : call'[u] # NoCall => CallFits(call'[u], used', media')
      /\ MediaHeld'
  BY <1>1, <1>2, <1>6, <1>7, <1>8, CallStep
<1>10. ManagerInv'
  BY <1>1, <1>2, ArbiterStep DEF TypeInv, SessionOrNone
<1>11. TypeInv'
  BY <1>1, <1>2, <1>3, <1>4, <1>9, <1>10 DEF TypeInv, Ids
<1>12. PlayingHasMedia'
  BY <1>2, <1>3 DEF IInv, PlayingHasMedia
<1>. QED
  BY <1>9, <1>11, <1>12 DEF IInv

\* A session that tells the arbiter of its stop is out of the table already.
LEMMA StopStep ==
  ASSUME IInv, NEW t \in Thread, SessionStop(t)
  PROVE  IInv'
<1>. DEFINE r == call[t]
<1>1. /\ r.at = "stop" /\ r # NoCall /\ r \in Call
      /\ CallFits(r, used, media) /\ TypeInv /\ MediaHeld
  BY InCall DEF SessionStop, IInv
<1>2. /\ UNCHANGED <<atOnce, serverVars, proxy>>
      /\ used' = used /\ media' = media /\ cancelled' = cancelled
      /\ activeSession' = activeSession /\ closed' = closed /\ transportState' = transportState
  BY DEF SessionStop, serverVars, mediaVars
<1>3. r.target \in used /\ r.target \notin media /\ r.then \in {"settle", "finish", "idle"}
  BY <1>1 DEF CallFits, Call
<1>4. r.target \in SessionOrNone
  BY <1>1, <1>3, MediaAssumption DEF TypeInv, SessionOrNone
<1>5. /\ ManagerInv'
      /\ active' = active \/ (active' = NoSession /\ active = r.target)
  BY <1>1, <1>4, ArbiterStep DEF SessionStop, TypeInv, Release, ChangeOwner, managerVars
<1>6. PICK c : /\ call' = [call EXCEPT ![t] = c]
               /\ r.then = "idle" => c = NoCall
               /\ r.then # "idle" =>
                    /\ c \in Call /\ c.at = r.then /\ c.id = r.id
                    /\ c.granted = r.granted /\ c.target = r.target /\ c.then = r.then
  BY <1>1, <1>3, GoesTo DEF SessionStop
<1>7. c = NoCall \/ CallFits(c, used', media')
  BY <1>1, <1>2, <1>3, <1>6 DEF CallFits
<1>8. \A i \in media' : active = i \/ Holds(r, i) \/ i \notin media
                        => active' = i \/ Holds(c, i)
  BY <1>1, <1>2, <1>3, <1>5 DEF Holds
<1>9. /\ call' \in [Thread -> Call \union {NoCall}]
      /\ \A u \in Thread : call'[u] # NoCall => CallFits(call'[u], used', media')
      /\ MediaHeld'
  BY <1>1, <1>2, <1>6, <1>7, <1>8, CallStep
<1>10. TypeInv'
  BY <1>1, <1>2, <1>5, <1>9 DEF TypeInv, Ids, serverVars
<1>11. PlayingHasMedia'
  BY <1>2 DEF IInv, PlayingHasMedia
<1>. QED
  BY <1>9, <1>10, <1>11 DEF IInv

LEMMA SettleStep ==
  ASSUME IInv, NEW t \in Handler, Settle(t)
  PROVE  IInv'
<1>. DEFINE r == call[t]
<1>0. t \in Thread
  BY DEF Thread
<1>1. /\ r.at = "settle" /\ r # NoCall /\ r \in Call
      /\ CallFits(r, used, media) /\ TypeInv /\ MediaHeld
  BY <1>0, InCall DEF Settle, IInv
<1>2. /\ UNCHANGED <<managerVars, atOnce, hasURI, used, mediaVars, proxy, closed>>
      /\ used' = used /\ media' = media /\ cancelled' = cancelled /\ active' = active
  BY DEF Settle, managerVars, mediaVars
<1>3. r.id \in used /\ r.id \in SessionOrNone
  BY <1>1 DEF CallFits, Call
<1>4. ManagerInv' /\ active' \in Ids'
  BY <1>1, <1>2, <1>3, ArbiterStep DEF TypeInv, Ids
<1>5. \E c : /\ call' = [call EXCEPT ![t] = c]
             /\ c = NoCall \/ CallFits(c, used', media')
             /\ \A i \in media' : active = i \/ Holds(r, i) \/ i \notin media
                                  => active' = i \/ Holds(c, i)
  <2>1. CASE r.granted /\ r.id \in media
    <3>1. call' = [call EXCEPT ![t] = NoCall]
      BY <2>1 DEF Settle, Goes
    <3>2. \A i \in media' : active = i \/ Holds(r, i) \/ i \notin media
                            => active' = i \/ Holds(NoCall, i)
      BY <1>1, <1>2, <2>1 DEF Holds
    <3>. QED
      BY <3>1, <3>2
  <2>2. CASE ~(r.granted /\ r.id \in media)
    <3>. DEFINE c == [r EXCEPT !.at = "cancel", !.target = r.id, !.notify = FALSE,
                               !.then = "idle"]
    <3>1. /\ c \in Call /\ c.at = "cancel" /\ c.id = r.id /\ c.target = r.id
          /\ c.then = "idle" /\ c.granted = r.granted
      BY <1>1, <1>3 DEF Call
    <3>2. call' = [call EXCEPT ![t] = c]
      BY <2>2 DEF Settle
    <3>. HIDE DEF c
    <3>3. CallFits(c, used', media')
      BY <1>1, <1>2, <1>3, <3>1 DEF CallFits
    <3>4. \A i \in media' : active = i \/ Holds(r, i) \/ i \notin media
                            => active' = i \/ Holds(c, i)
      BY <1>1, <1>2, <3>1 DEF Holds
    <3>. QED
      BY <3>2, <3>3, <3>4
  <2>. QED
    BY <2>1, <2>2
<1>6. /\ call' \in [Thread -> Call \union {NoCall}]
      /\ \A u \in Thread : call'[u] # NoCall => CallFits(call'[u], used', media')
      /\ MediaHeld'
  BY <1>0, <1>1, <1>2, <1>5, CallStep
<1>7. \/ activeSession' = r.id /\ transportState' = "PLAYING" /\ r.id \in media
      \/ UNCHANGED <<activeSession, transportState>>
  BY DEF Settle
<1>8. TypeInv'
  BY <1>1, <1>2, <1>3, <1>4, <1>6, <1>7 DEF TypeInv
<1>9. PlayingHasMedia'
  BY <1>1, <1>2, <1>3, <1>7, MediaAssumption, NoSessionAssumption
  DEF IInv, PlayingHasMedia, TypeInv
<1>. QED
  BY <1>6, <1>8, <1>9 DEF IInv

LEMMA HaltStep ==
  ASSUME IInv, NEW t \in Handler, NEW request \in {"Stop", "Pause", "SetAVTransportURI"},
         Halt(t, request)
  PROVE  IInv'
<1>. DEFINE c == [at |-> IF activeSession = NoSession THEN "finish" ELSE "cancel",
                  request |-> request, id |-> NoSession, granted |-> FALSE,
                  target |-> activeSession, notify |-> TRUE, then |-> "finish"]
<1>1. /\ call[t] = NoCall /\ call' = [call EXCEPT ![t] = c]
      /\ UNCHANGED <<managerVars, atOnce, serverVars, proxy>>
  BY DEF Halt, Arrives
<1>2. /\ used' = used /\ media' = media /\ active' = active /\ t \in Thread
      /\ TypeInv /\ MediaHeld
  BY <1>1 DEF serverVars, mediaVars, managerVars, Thread, IInv
<1>3. activeSession \in used \union {NoSession} /\ activeSession \in SessionOrNone
  BY <1>2, MediaAssumption DEF TypeInv, SessionOrNone
<1>4. /\ c \in Call /\ c.id = NoSession /\ c.target = activeSession /\ c.then = "finish"
      /\ c.at = IF activeSession = NoSession THEN "finish" ELSE "cancel"
  BY <1>3 DEF Call, Requests, SessionOrNone
<1>. HIDE DEF c
<1>5. CallFits(c, used', media')
  BY <1>2, <1>3, <1>4 DEF CallFits
<1>6. \A i \in media' : active = i \/ Holds(call[t], i) \/ i \notin media
                        => active' = i \/ Holds(c, i)
  BY <1>1, <1>2, NoCallIsIdle
<1>7. /\ call' \in [Thread -> Call \union {NoCall}]
      /\ \A u \in Thread : call'[u] # NoCall => CallFits(call'[u], used', media')
      /\ MediaHeld'
  BY <1>1, <1>2, <1>5, <1>6, CallStep
<1>8. ManagerInv'
  BY <1>1, <1>2, <1>3, ArbiterStep DEF TypeInv
<1>9. TypeInv'
  BY <1>1, <1>2, <1>7, <1>8 DEF TypeInv, serverVars, mediaVars, Ids
<1>10. PlayingHasMedia'
  BY <1>1 DEF IInv, PlayingHasMedia, serverVars, mediaVars
<1>. QED
  BY <1>7, <1>9, <1>10 DEF IInv

LEMMA FinishStep ==
  ASSUME IInv, NEW t \in Handler, Finish(t)
  PROVE  IInv'
<1>1. /\ call[t].at = "finish" /\ call' = [call EXCEPT ![t] = NoCall]
      /\ UNCHANGED <<managerVars, atOnce, used, mediaVars, proxy, activeSession, closed>>
      /\ transportState' \in {"PAUSED_PLAYBACK", "STOPPED"}
      /\ hasURI' \in BOOLEAN
  BY DEF Finish, Goes, IInv, TypeInv
<1>2. /\ used' = used /\ media' = media /\ cancelled' = cancelled /\ active' = active
      /\ t \in Thread /\ TypeInv /\ MediaHeld
  BY <1>1 DEF mediaVars, managerVars, Thread, IInv
<1>3. \A i \in media' : active = i \/ Holds(call[t], i) \/ i \notin media
                        => active' = i \/ Holds(NoCall, i)
  BY <1>1, <1>2 DEF Holds
<1>4. /\ call' \in [Thread -> Call \union {NoCall}]
      /\ \A u \in Thread : call'[u] # NoCall => CallFits(call'[u], used', media')
      /\ MediaHeld'
  BY <1>1, <1>2, <1>3, CallStep
<1>5. ManagerInv'
  BY <1>1, <1>2, ArbiterStep DEF TypeInv, SessionOrNone
<1>6. TypeInv'
  BY <1>1, <1>2, <1>4, <1>5 DEF TypeInv, Ids
<1>7. PlayingHasMedia'
  BY <1>1, <1>2 DEF IInv, PlayingHasMedia
<1>. QED
  BY <1>4, <1>6, <1>7 DEF IInv

\* Steps that no request takes.
LEMMA OtherStep ==
  ASSUME IInv,
         \/ \E a \in AirPlay : AirPlayStops(a)
         \/ \E p \in Proxy : ProxyOpens(p) \/ ProxyEnds(p)
         \/ Attend
         \/ Close
         \/ UNCHANGED vars
  PROVE  IInv'
<1>0. TypeInv /\ MediaHeld /\ PlayingHasMedia
  BY DEF IInv
<1>1. ASSUME NEW a \in AirPlay, AirPlayStops(a) PROVE IInv'
  <2>1. /\ Release(a) /\ active = a /\ active' = NoSession
        /\ UNCHANGED <<atOnce, serverVars, call, proxy>>
    BY <1>1 DEF AirPlayStops, Release, ChangeOwner
  <2>2. a \in SessionOrNone /\ a \notin media
    BY <1>0 DEF AirPlay, SessionOrNone, TypeInv
  <2>3. ManagerInv'
    BY <1>0, <2>1, <2>2, ArbiterStep DEF TypeInv
  <2>4. TypeInv'
    BY <1>0, <2>1, <2>3 DEF TypeInv, Ids, serverVars, mediaVars
  <2>5. MediaHeld' /\ PlayingHasMedia'
    BY <1>0, <2>1, <2>2 DEF MediaHeld, PlayingHasMedia, serverVars, mediaVars
  <2>. QED
    BY <2>4, <2>5 DEF IInv
<1>2. ASSUME NEW p \in Proxy, ProxyOpens(p) \/ ProxyEnds(p) PROVE IInv'
  <2>1. /\ UNCHANGED <<managerVars, atOnce, serverVars, call>>
        /\ \E id \in media \union {NoSession} : proxy' = [proxy EXCEPT ![p] = id]
    BY <1>2 DEF ProxyOpens, ProxyEnds
  <2>2. ManagerInv'
    BY <1>0, <2>1, ArbiterStep DEF TypeInv, SessionOrNone
  <2>3. TypeInv'
    BY <1>0, <2>1, <2>2 DEF TypeInv, Ids, serverVars, mediaVars, managerVars
  <2>4. MediaHeld' /\ PlayingHasMedia'
    BY <1>0, <2>1 DEF MediaHeld, PlayingHasMedia, serverVars, mediaVars, managerVars
  <2>. QED
    BY <2>3, <2>4 DEF IInv
<1>3. CASE Close
  <2>1. /\ closed' = TRUE /\ cancelled' = cancelled \union media /\ media' = {}
        /\ UNCHANGED <<managerVars, atOnce, hasURI, used, activeSession, transportState,
                       call, proxy>>
    BY <1>3 DEF Close
  <2>2. ManagerInv'
    BY <1>0, <2>1, ArbiterStep DEF TypeInv, SessionOrNone
  <2>3. \A t \in Thread : call'[t] # NoCall => CallFits(call'[t], used', media')
    BY <1>0, <2>1 DEF TypeInv, CallFits
  <2>4. TypeInv'
    BY <1>0, <2>1, <2>2, <2>3 DEF TypeInv, Ids, managerVars
  <2>5. MediaHeld' /\ PlayingHasMedia'
    BY <1>0, <2>1 DEF MediaHeld, PlayingHasMedia
  <2>. QED
    BY <2>4, <2>5 DEF IInv
<1>4. CASE Attend \/ UNCHANGED vars
  <2>1. ManagerInv'
    BY <1>0, <1>4, ManagerNextInv DEF Attend, ManagerNext, SessionOrNone, TypeInv, vars
  <2>2. UNCHANGED <<atOnce, serverVars, call, proxy, active>>
    BY <1>4 DEF Attend, Tick, Touch, vars, managerVars
  <2>. QED
    BY <1>0, <2>1, <2>2 DEF serverVars, mediaVars, IInv, TypeInv, MediaHeld, PlayingHasMedia, Ids
<1>. QED
  BY <1>1, <1>2, <1>3, <1>4

LEMMA RendererNext ==
  ASSUME IInv, [Next]_vars
  PROVE  IInv'
  BY PlayStep, RecordStep, AcquireStep, CancelStep, StopStep, SettleStep, HaltStep,
     FinishStep, OtherStep DEF Next

-----------------------------------------------------------------------------
\* Who knows of the owner.

Busy == {h \in Handler : call[h] # NoCall}

\* No more SOAP requests are in hand than control points send at once.
Crowded ==
    /\ IsFiniteSet(Busy)
    /\ atOnce \in {1, 2} => Cardinality(Busy) <= atOnce

\* A Play that has still to settle, and one that has the speaker already.
Plays(c) == c # NoCall /\ c.then = "settle"
Unsettled(c) == Plays(c) /\ c.granted

\* A request that took the speaker from a media session and has it to cancel.
Preempts(c) == c.at \in {"cancel", "stop"} /\ c.granted /\ c.notify

\* Only a SOAP request goes on after it has cancelled, and every place has the
\* requests it belongs to.
Placed(t, c) ==
    /\ c.then # "idle" => t \in Handler
    /\ c.at = "acquire" => c.notify
    /\ c.at = "settle" => c.then = "settle" /\ c.notify
    /\ c.at = "finish" => c.then = "finish"
    /\ c.at = "stop" => c.notify
    /\ c.then = "settle" /\ c.at \in {"cancel", "stop"} => c.granted /\ c.notify
    /\ c.then = "finish" => ~c.granted

\* The media session of a Play that has not settled is known to nobody else, but
\* to who took the speaker from it.
Fresh(c) ==
    /\ activeSession # c.id
    /\ \A u \in Thread : call[u].at \in {"cancel", "stop"} /\ call[u].target = c.id =>
                             call[u].at = "cancel" /\ c.granted /\ Preempts(call[u])
    /\ ~c.granted => active # c.id
    /\ ~closed /\ (c.granted => active = c.id) => c.id \in media

PlaysFresh ==
    /\ \A t \in Thread : call[t] # NoCall => Placed(t, call[t])
    /\ \A t \in Thread : Plays(call[t]) => Fresh(call[t])
    /\ \A t, u \in Thread :
          t # u /\ Plays(call[t]) /\ Plays(call[u]) => call[t].id # call[u].id

\* Who lost the speaker does not get it back, and a Play that takes its media
\* session back has not made it the active one.
Lost ==
    \A t \in Thread :
        /\ Preempts(call[t]) => call[t].target # active
        /\ call[t].at = "cancel" /\ ~call[t].notify => call[t].target # activeSession

\* A Play that finds its media session in the table has the speaker, or lost it
\* to one that will cancel it, or to AirPlay when it is the only request.
Succeeded(t) ==
    \/ active = call[t].id
    \/ active \notin Media /\ atOnce = 1
    \/ \E u \in Thread : /\ Unsettled(call[u]) /\ call[u].at = "cancel"
                         /\ call[u].target = call[t].id /\ active = call[u].id

SettlesRight ==
    ~closed /\ Orderly =>
        \A t \in Thread : Unsettled(call[t]) /\ call[t].id \in media => Succeeded(t)

\* An owner that is not the active session yet or no more: its Play will settle,
\* or a Stop that has cancelled it will tell the arbiter.
Knows(c) == (Unsettled(c) /\ c.id = active) \/ (c.at = "stop" /\ c.target = active)

OwnerKnown ==
    ~closed /\ Orderly /\ active \in Media /\ active # activeSession =>
        \E t \in Thread : Knows(call[t])

-----------------------------------------------------------------------------
\* What a step does, place by place.

\* A Play's media session was given out, and a place has its request.
LEMMA InPlay ==
  ASSUME TypeInv, NEW t \in Thread, Plays(call[t])
  PROVE  /\ call[t] \in Call /\ CallFits(call[t], used, media)
         /\ call[t].id \in used /\ call[t].id \in Media /\ call[t].id # NoSession
         /\ call[t].id \notin AirPlay
<1>1. call[t] \in Call /\ CallFits(call[t], used, media) /\ used \subseteq Media
  BY DEF TypeInv, Plays
<1>2. call[t].id \in used
  BY <1>1 DEF CallFits, Plays
<1>. QED
  BY <1>1, <1>2, MediaAssumption, NoSessionAssumption DEF AirPlay

\* Who is busy cancelling has a media session to cancel.
LEMMA InTarget ==
  ASSUME TypeInv, NEW t \in Thread, call[t].at \in {"cancel", "stop"}
  PROVE  /\ call[t].target \in used /\ call[t].target \in Media
         /\ call[t].target # NoSession /\ call[t].target \notin AirPlay
<1>1. call[t].target \in used /\ used \subseteq Media
  BY InCall DEF TypeInv, CallFits
<1>. QED
  BY <1>1, MediaAssumption, NoSessionAssumption DEF AirPlay

\* Only the goroutine itself changes its call.
LEMMA CallChanges ==
  ASSUME TypeInv, NEW t \in Thread, NEW c \in Call \union {NoCall},
         call' = [call EXCEPT ![t] = c]
  PROVE  call'[t] = c /\ \A u \in Thread : u # t => call'[u] = call[u]
  BY DEF TypeInv

\* The arbiter grants the speaker, which may have to be taken from a media
\* session, or refuses it.
LEMMA AcquireDoes ==
  ASSUME IInv, NEW t \in Thread, Acquire(t)
  PROVE  /\ call[t].at = "acquire" /\ call[t] \in Call /\ call[t] # NoCall
         /\ call[t].id # NoSession /\ ~call[t].granted
         /\ call[t].then \in {"settle", "idle"}
         /\ call[t].then = "idle" => call[t].id \in AirPlay
         /\ used' = used /\ media' = media /\ closed' = closed /\ atOnce' = atOnce
         /\ activeSession' = activeSession
         /\ \E c \in Call \union {NoCall} :
              /\ call' = [call EXCEPT ![t] = c]
              /\ c # NoCall => /\ c.id = call[t].id /\ c.then = call[t].then
                               /\ c.notify = call[t].notify /\ c.request = call[t].request
              /\ \/ /\ AcquireNew(call[t].id) /\ active' = call[t].id /\ active # call[t].id
                    /\ \/ /\ active \in Media
                          /\ c # NoCall /\ c.at = "cancel" /\ c.granted /\ c.target = active
                       \/ active \notin Media /\ call[t].then = "idle" /\ c = NoCall
                       \/ /\ active \notin Media /\ call[t].then = "settle"
                          /\ c # NoCall /\ c.at = "settle" /\ c.granted
                 \/ /\ active' = active /\ UNCHANGED managerVars
                    /\ \/ call[t].then = "idle" /\ c = NoCall
                       \/ /\ call[t].then = "settle"
                          /\ c # NoCall /\ c.at = "settle" /\ ~c.granted
<1>. DEFINE r == call[t]
<1>0. TypeInv
  BY DEF IInv
<1>1. /\ r.at = "acquire" /\ r \in Call /\ r # NoCall /\ r.id # NoSession /\ ~r.granted
      /\ r.then \in {"settle", "idle"} /\ (r.then = "idle" => r.id \in AirPlay)
  BY <1>0, InCall DEF Acquire, CallFits
<1>2. used' = used /\ media' = media /\ closed' = closed /\ activeSession' = activeSession
      /\ atOnce' = atOnce
  BY DEF Acquire, serverVars, mediaVars
<1>3. NoCall \notin Call
  BY NoCallIsIdle
<1>4. CASE AcquireNew(r.id) /\ active \in Media
             /\ call' = [call EXCEPT ![t] =
                  [@ EXCEPT !.at = "cancel", !.granted = TRUE, !.target = active]]
  <2>. DEFINE c == [r EXCEPT !.at = "cancel", !.granted = TRUE, !.target = active]
  <2>1. active \in SessionOrNone
    BY <1>4, MediaAssumption DEF SessionOrNone
  <2>2. /\ c \in Call /\ c.id = r.id /\ c.then = r.then /\ c.notify = r.notify
        /\ c.request = r.request /\ c.at = "cancel" /\ c.granted /\ c.target = active
    BY <1>1, <2>1 DEF Call
  <2>3. call' = [call EXCEPT ![t] = c]
    BY <1>4
  <2>. HIDE DEF c
  <2>4. active' = r.id /\ active # r.id
    BY <1>4 DEF AcquireNew, ChangeOwner
  <2>. QED
    BY <1>1, <1>2, <1>3, <1>4, <2>2, <2>3, <2>4
<1>5. CASE AcquireNew(r.id) /\ active \notin Media /\ r.then = "idle"
             /\ call' = [call EXCEPT ![t] = NoCall]
  <2>1. active' = r.id /\ active # r.id
    BY <1>5 DEF AcquireNew, ChangeOwner
  <2>. QED
    BY <1>1, <1>2, <1>5, <2>1
<1>6. CASE AcquireNew(r.id) /\ active \notin Media /\ r.then # "idle"
             /\ call' = [call EXCEPT ![t] = [@ EXCEPT !.at = "settle", !.granted = TRUE]]
  <2>. DEFINE c == [r EXCEPT !.at = "settle", !.granted = TRUE]
  <2>1. /\ c \in Call /\ c.id = r.id /\ c.then = r.then /\ c.notify = r.notify
        /\ c.request = r.request /\ c.at = "settle" /\ c.granted
    BY <1>1 DEF Call
  <2>2. call' = [call EXCEPT ![t] = c]
    BY <1>6
  <2>. HIDE DEF c
  <2>3. active' = r.id /\ active # r.id /\ r.then = "settle"
    BY <1>1, <1>6 DEF AcquireNew, ChangeOwner
  <2>. QED
    BY <1>1, <1>2, <1>3, <1>6, <2>1, <2>2, <2>3
<1>7. CASE Reject(r.id) /\ Goes(t, r.then)
  <2>1. PICK c : /\ call' = [call EXCEPT ![t] = c]
                 /\ r.then = "idle" => c = NoCall
                 /\ r.then # "idle" =>
                      /\ c \in Call /\ c.at = r.then /\ c.id = r.id /\ c.request = r.request
                      /\ c.granted = r.granted /\ c.then = r.then /\ c.notify = r.notify
    BY <1>0, <1>1, <1>7, GoesTo
  <2>2. active' = active /\ UNCHANGED managerVars
    BY <1>7 DEF Reject, managerVars
  <2>. QED
    BY <1>1, <1>2, <1>3, <2>1, <2>2
<1>. QED
  BY <1>1, <1>4, <1>5, <1>6, <1>7 DEF Acquire

\* The media session goes, and the arbiter is told if it was the active one.
LEMMA CancelDoes ==
  ASSUME IInv, NEW t \in Thread, CancelMedia(t)
  PROVE  /\ call[t].at = "cancel" /\ call[t] \in Call /\ call[t] # NoCall
         /\ used' = used /\ media' = media \ {call[t].target}
         /\ closed' = closed /\ atOnce' = atOnce
         /\ UNCHANGED managerVars /\ active' = active
         /\ activeSession' = IF activeSession = call[t].target THEN NoSession ELSE activeSession
         /\ \E c \in Call \union {NoCall} :
              /\ call' = [call EXCEPT ![t] = c]
              /\ c # NoCall => /\ c.id = call[t].id /\ c.then = call[t].then
                               /\ c.notify = call[t].notify /\ c.target = call[t].target
                               /\ c.granted = call[t].granted
              /\ \/ /\ activeSession = call[t].target /\ call[t].notify
                    /\ c # NoCall /\ c.at = "stop"
                 \/ /\ ~(activeSession = call[t].target /\ call[t].notify)
                    /\ \/ call[t].then = "idle" /\ c = NoCall
                       \/ call[t].then # "idle" /\ c # NoCall /\ c.at = call[t].then
<1>. DEFINE r == call[t]
<1>0. TypeInv
  BY DEF IInv
<1>1. r.at = "cancel" /\ r \in Call /\ r # NoCall /\ r.then \in {"settle", "finish", "idle"}
  BY <1>0, InCall DEF CancelMedia, Call
<1>2. /\ used' = used /\ media' = media \ {r.target} /\ closed' = closed
      /\ atOnce' = atOnce /\ UNCHANGED managerVars /\ active' = active
      /\ activeSession' = IF activeSession = r.target THEN NoSession ELSE activeSession
  BY DEF CancelMedia, managerVars
<1>3. NoCall \notin Call
  BY NoCallIsIdle
<1>. DEFINE place == IF activeSession = r.target /\ r.notify THEN "stop" ELSE r.then
<1>4. Goes(t, place) /\ place \in {"stop", "settle", "finish", "idle"}
  BY <1>1 DEF CancelMedia
<1>5. PICK c : /\ call' = [call EXCEPT ![t] = c]
               /\ place = "idle" => c = NoCall
               /\ place # "idle" =>
                    /\ c \in Call /\ c.at = place /\ c.id = r.id /\ c.target = r.target
                    /\ c.granted = r.granted /\ c.then = r.then /\ c.notify = r.notify
  <2>. HIDE DEF place
  <2>. QED
    BY <1>0, <1>1, <1>4, GoesTo
<1>. QED
  BY <1>1, <1>2, <1>3, <1>5

\* The arbiter hears of the stop: the owner is nobody if it was that session.
LEMMA StopDoes ==
  ASSUME IInv, NEW t \in Thread, SessionStop(t)
  PROVE  /\ call[t].at = "stop" /\ call[t] \in Call /\ call[t] # NoCall
         /\ used' = used /\ media' = media /\ closed' = closed /\ atOnce' = atOnce
         /\ activeSession' = activeSession
         /\ \/ active' = NoSession /\ active = call[t].target /\ Release(call[t].target)
            \/ active' = active /\ active # call[t].target /\ UNCHANGED managerVars
         /\ \E c \in Call \union {NoCall} :
              /\ call' = [call EXCEPT ![t] = c]
              /\ c # NoCall => /\ c.id = call[t].id /\ c.then = call[t].then
                               /\ c.notify = call[t].notify /\ c.target = call[t].target
                               /\ c.granted = call[t].granted
              /\ \/ call[t].then = "idle" /\ c = NoCall
                 \/ call[t].then # "idle" /\ c # NoCall /\ c.at = call[t].then
<1>. DEFINE r == call[t]
<1>0. TypeInv
  BY DEF IInv
<1>1. r.at = "stop" /\ r \in Call /\ r # NoCall /\ r.then \in {"settle", "finish", "idle"}
  BY <1>0, InCall DEF SessionStop, Call
<1>2. /\ used' = used /\ media' = media /\ closed' = closed /\ activeSession' = activeSession
      /\ atOnce' = atOnce
  BY DEF SessionStop, serverVars, mediaVars
<1>3. NoCall \notin Call
  BY NoCallIsIdle
<1>4. \/ active' = NoSession /\ active = r.target /\ Release(r.target)
      \/ active' = active /\ active # r.target /\ UNCHANGED managerVars
  BY DEF SessionStop, Release, ChangeOwner, managerVars
<1>5. PICK c : /\ call' = [call EXCEPT ![t] = c]
               /\ r.then = "idle" => c = NoCall
               /\ r.then # "idle" =>
                    /\ c \in Call /\ c.at = r.then /\ c.id = r.id /\ c.target = r.target
                    /\ c.granted = r.granted /\ c.then = r.then /\ c.notify = r.notify
  BY <1>0, <1>1, GoesTo DEF SessionStop
<1>. QED
  BY <1>1, <1>2, <1>3, <1>4, <1>5

\* Play succeeds, or takes its media session back.
LEMMA SettleDoes ==
  ASSUME IInv, NEW t \in Handler, Settle(t)
  PROVE  /\ t \in Thread /\ call[t].at = "settle" /\ call[t] \in Call /\ call[t] # NoCall
         /\ used' = used /\ media' = media /\ closed' = closed /\ atOnce' = atOnce
         /\ UNCHANGED managerVars /\ active' = active
         /\ \E c \in Call \union {NoCall} :
              /\ call' = [call EXCEPT ![t] = c]
              /\ \/ /\ call[t].granted /\ call[t].id \in media
                    /\ activeSession' = call[t].id /\ c = NoCall
                 \/ /\ ~(call[t].granted /\ call[t].id \in media)
                    /\ activeSession' = activeSession
                    /\ c # NoCall /\ c.at = "cancel" /\ c.target = call[t].id /\ ~c.notify
                    /\ c.then = "idle"
<1>. DEFINE r == call[t]
<1>0. TypeInv /\ t \in Thread
  BY DEF IInv, Thread
<1>1. r.at = "settle" /\ r \in Call /\ r # NoCall
  BY <1>0, InCall DEF Settle
<1>2. /\ used' = used /\ media' = media /\ closed' = closed /\ atOnce' = atOnce
      /\ UNCHANGED managerVars /\ active' = active
  BY DEF Settle, mediaVars, managerVars
<1>3. CASE r.granted /\ r.id \in media
  <2>1. call' = [call EXCEPT ![t] = NoCall] /\ activeSession' = r.id
    BY <1>3 DEF Settle, Goes
  <2>. QED
    BY <1>0, <1>1, <1>2, <1>3, <2>1
<1>4. CASE ~(r.granted /\ r.id \in media)
  <2>. DEFINE c == [r EXCEPT !.at = "cancel", !.target = r.id, !.notify = FALSE, !.then = "idle"]
  <2>1. c \in Call /\ c.at = "cancel" /\ c.target = r.id /\ ~c.notify /\ c.then = "idle"
    BY <1>1 DEF Call
  <2>2. call' = [call EXCEPT ![t] = c] /\ activeSession' = activeSession
    BY <1>4 DEF Settle
  <2>3. c # NoCall
    BY <2>1, NoCallIsIdle
  <2>. HIDE DEF c
  <2>. QED
    BY <1>0, <1>1, <1>2, <1>4, <2>1, <2>2, <2>3
<1>. QED
  BY <1>3, <1>4

-----------------------------------------------------------------------------
\* How many requests there are, and who preempted whom.

LEMMA CrowdedStep ==
  ASSUME TypeInv, Crowded, NEW t \in Thread, NEW c \in Call \union {NoCall},
         call' = [call EXCEPT ![t] = c], atOnce' = atOnce,
         call[t] # NoCall \/ t \notin Handler \/ Cardinality(Busy) < atOnce
  PROVE  Crowded'
<1>1. call'[t] = c /\ \A u \in Thread : u # t => call'[u] = call[u]
  BY CallChanges
<1>2. Busy' \subseteq Busy \union {t} /\ Handler \subseteq Thread
  BY <1>1 DEF Busy, Thread
<1>3. IsFiniteSet(Busy) /\ Cardinality(Busy) \in Nat
  BY FS_CardinalityType DEF Crowded
<1>4. CASE call[t] # NoCall \/ t \notin Handler
  <2>1. Busy' \subseteq Busy
    BY <1>1, <1>2, <1>4 DEF Busy
  <2>2. IsFiniteSet(Busy') /\ Cardinality(Busy') \in Nat /\ Cardinality(Busy') <= Cardinality(Busy)
    BY <1>3, <2>1, FS_Subset, FS_CardinalityType
  <2>. QED
    BY <1>3, <2>2 DEF Crowded
<1>5. CASE Cardinality(Busy) < atOnce
  <2>0. /\ IsFiniteSet(Busy \union {t})
        /\ Cardinality(Busy \union {t}) \in {Cardinality(Busy), Cardinality(Busy) + 1}
    BY <1>3, FS_AddElement
  <2>1. /\ IsFiniteSet(Busy \union {t})
        /\ Cardinality(Busy \union {t}) \in Nat
        /\ Cardinality(Busy \union {t}) <= Cardinality(Busy) + 1
    BY <1>3, <2>0
  <2>2. /\ IsFiniteSet(Busy') /\ Cardinality(Busy') \in Nat
        /\ Cardinality(Busy') <= Cardinality(Busy \union {t})
    BY <1>2, <2>1, FS_Subset, FS_CardinalityType
  <2>. QED
    BY <1>3, <1>5, <2>1, <2>2 DEF Crowded
<1>. QED
  BY <1>4, <1>5

\* Where SOAP requests come one after another, two handlers are not both busy.
LEMMA OneBusy ==
  ASSUME Crowded, atOnce = 1, NEW h \in Busy, NEW g \in Busy
  PROVE  h = g
<1>. SUFFICES ASSUME h # g PROVE FALSE
  OBVIOUS
<1>1. IsFiniteSet({h}) /\ Cardinality({h}) = 1
  BY FS_Singleton
<1>2. IsFiniteSet({h} \union {g}) /\ Cardinality({h} \union {g}) = 2
  BY <1>1, FS_AddElement
<1>3. IsFiniteSet(Busy) /\ Cardinality(Busy) <= 1 /\ {h} \union {g} \subseteq Busy
  BY DEF Crowded
<1>4. Cardinality({h} \union {g}) <= Cardinality(Busy) /\ Cardinality(Busy) \in Nat
  BY <1>3, FS_Subset, FS_CardinalityType
<1>. QED
  BY <1>2, <1>3, <1>4

\* Where two cross, there is no third.
LEMMA TwoBusy ==
  ASSUME Crowded, atOnce = 2, NEW h \in Busy, NEW g \in Busy, NEW k \in Busy, h # g
  PROVE  k \in {h, g}
<1>. SUFFICES ASSUME k # h, k # g PROVE FALSE
  OBVIOUS
<1>1. IsFiniteSet({h}) /\ Cardinality({h}) = 1
  BY FS_Singleton
<1>2. IsFiniteSet({h} \union {g}) /\ Cardinality({h} \union {g}) = 2
  BY <1>1, FS_AddElement
<1>3. /\ IsFiniteSet({h} \union {g} \union {k})
      /\ Cardinality({h} \union {g} \union {k}) = 3
  BY <1>2, FS_AddElement
<1>4. /\ IsFiniteSet(Busy) /\ Cardinality(Busy) <= 2
      /\ {h} \union {g} \union {k} \subseteq Busy
  BY DEF Crowded
<1>5. /\ Cardinality({h} \union {g} \union {k}) <= Cardinality(Busy)
      /\ Cardinality(Busy) \in Nat
  BY <1>4, FS_Subset, FS_CardinalityType
<1>. QED
  BY <1>3, <1>4, <1>5

\* Every step is one of the arbiter or leaves the arbiter alone.
LEMMA StepsOfArbiter ==
  ASSUME IInv, [Next]_vars
  PROVE  [ManagerNext]_managerVars
<1>0. TypeInv /\ \A t \in Handler : t \in Thread
  BY DEF IInv, Thread
<1>1. ASSUME NEW t \in Thread, Acquire(t) PROVE ManagerNext
  <2>1. call[t].id \in SessionOrNone
    BY <1>0, <1>1, InCall DEF Acquire, Call
  <2>. QED
    BY <1>1, <2>1 DEF Acquire, ManagerNext
<1>2. ASSUME NEW t \in Thread, SessionStop(t) PROVE [ManagerNext]_managerVars
  <2>1. call[t].target \in SessionOrNone
    BY <1>0, <1>2, InCall DEF SessionStop, Call
  <2>. QED
    BY <1>2, <2>1 DEF SessionStop, ManagerNext
<1>3. ASSUME NEW a \in AirPlay, AirPlayStops(a) PROVE ManagerNext
  BY <1>3 DEF AirPlayStops, ManagerNext, AirPlay, SessionOrNone
<1>4. ASSUME NEW t \in Thread, CancelMedia(t) PROVE UNCHANGED managerVars
  BY <1>4 DEF CancelMedia
<1>5. CASE Attend
  BY <1>5 DEF Attend, ManagerNext, SessionOrNone
<1>. QED
  BY <1>1, <1>2, <1>3, <1>4, <1>5 DEF Next, Play, Settle, Finish, Halt, Record, ProxyOpens, ProxyEnds,
     Close, vars

\* The history of owners only grows, and with it what it says of preemption.
LEMMA OrderlyBefore ==
  ASSUME IInv, [Next]_vars
  PROVE  atOnce' = atOnce /\ (Orderly' => Orderly)
<1>1. atOnce' = atOnce
  BY DEF Next, Play, Settle, Finish, Halt, Record, AirPlayStops, Acquire, CancelMedia,
     SessionStop, ProxyOpens, ProxyEnds, Attend, Close, vars
<1>2. ownerAt \in Seq(SessionOrNone)
  BY DEF IInv, TypeInv, ManagerInv, ManagerTypeOK
<1>3. ownerAt' = ownerAt \/ \E s \in SessionOrNone : ownerAt' = Append(ownerAt, s)
  BY StepsOfArbiter DEF ManagerNext, AcquireAgain, AcquireNew, Reject, Touch, Release, Tick,
     ChangeOwner, managerVars, SessionOrNone
<1>4. ASSUME PreemptedByAirPlay PROVE PreemptedByAirPlay'
  <2>1. PICK i \in 1..(Len(ownerAt) - 1) : ownerAt[i] \in Media /\ ownerAt[i + 1] \in AirPlay
    BY <1>4 DEF PreemptedByAirPlay
  <2>2. CASE ownerAt' = ownerAt
    BY <2>1, <2>2 DEF PreemptedByAirPlay
  <2>3. ASSUME NEW s \in SessionOrNone, ownerAt' = Append(ownerAt, s) PROVE PreemptedByAirPlay'
    <3>1. /\ Len(ownerAt') = Len(ownerAt) + 1 /\ Len(ownerAt) \in Nat
          /\ ownerAt'[i] = ownerAt[i] /\ ownerAt'[i + 1] = ownerAt[i + 1]
      BY <1>2, <2>1, <2>3
    <3>2. i \in 1..(Len(ownerAt') - 1)
      BY <2>1, <3>1
    <3>. QED
      BY <2>1, <3>1, <3>2 DEF PreemptedByAirPlay
  <2>. QED
    BY <1>3, <2>2, <2>3
<1>. QED
  BY <1>1, <1>4 DEF Orderly

\* AirPlay taking the speaker from a media session is in the history.
LEMMA AirPlayPreempts ==
  ASSUME IInv, NEW s \in AirPlay, AcquireNew(s), active \in Media
  PROVE  PreemptedByAirPlay'
<1>1. /\ ownerAt \in Seq(SessionOrNone) /\ generation \in Nat
      /\ generation = Len(ownerAt) /\ active = OwnerOf(generation)
  BY DEF IInv, TypeInv, ManagerInv, ManagerTypeOK, GenerationNamesOwner
<1>2. ownerAt' = Append(ownerAt, s)
  BY DEF AcquireNew, ChangeOwner
<1>3. Len(ownerAt) > 0 /\ ownerAt[Len(ownerAt)] = active
  BY <1>1, MediaAssumption, NoSessionAssumption DEF OwnerOf
<1>4. /\ ownerAt'[Len(ownerAt)] = active /\ ownerAt'[Len(ownerAt) + 1] = s
      /\ Len(ownerAt') = Len(ownerAt) + 1
  BY <1>1, <1>2, <1>3 DEF AirPlay, SessionOrNone
<1>5. Len(ownerAt) \in 1..(Len(ownerAt') - 1)
  BY <1>1, <1>3, <1>4
<1>. QED
  BY <1>4, <1>5 DEF PreemptedByAirPlay

\* A media session that nobody knows of is given out.
LEMMA PlayDoes ==
  ASSUME IInv, NEW t \in Handler, Play(t)
  PROVE  /\ t \in Thread /\ call[t] = NoCall /\ Cardinality(Busy) < atOnce
         /\ atOnce' = atOnce /\ closed' = closed /\ UNCHANGED managerVars /\ active' = active
         /\ activeSession' = activeSession
         /\ \E id \in Media \ used, c \in Call :
              /\ call' = [call EXCEPT ![t] = c] /\ c # NoCall
              /\ used' = used \union {id} /\ media' = media \union {id}
              /\ c.at = "acquire" /\ c.id = id /\ ~c.granted /\ c.notify /\ c.then = "settle"
<1>1. PICK id \in Media \ used :
         /\ used' = used \union {id}
         /\ media' = media \union {id}
         /\ call' = [call EXCEPT ![t] =
                       [at |-> "acquire", request |-> "Play", id |-> id, granted |-> FALSE,
                        target |-> NoSession, notify |-> TRUE, then |-> "settle"]]
  BY DEF Play
<1>. DEFINE c == [at |-> "acquire", request |-> "Play", id |-> id, granted |-> FALSE,
                  target |-> NoSession, notify |-> TRUE, then |-> "settle"]
<1>2. /\ t \in Thread /\ call[t] = NoCall /\ Cardinality(Busy) < atOnce
      /\ atOnce' = atOnce /\ closed' = closed /\ UNCHANGED managerVars /\ active' = active
      /\ activeSession' = activeSession
  BY DEF Play, Arrives, Busy, Thread, managerVars
<1>3. /\ c \in Call /\ c.at = "acquire" /\ c.id = id /\ ~c.granted /\ c.notify
      /\ c.then = "settle"
  BY MediaAssumption DEF Call, Requests, SessionOrNone
<1>4. c # NoCall
  BY <1>3, NoCallIsIdle
<1>5. call' = [call EXCEPT ![t] = c]
  BY <1>1
<1>. HIDE DEF c
<1>. QED
  BY <1>1, <1>2, <1>3, <1>4, <1>5

LEMMA RecordDoes ==
  ASSUME IInv, NEW a \in AirPlay, Record(a)
  PROVE  /\ a \in Thread \ Handler /\ call[a] = NoCall
         /\ UNCHANGED <<managerVars, atOnce, serverVars>>
         /\ \E c \in Call :
              /\ call' = [call EXCEPT ![a] = c] /\ c # NoCall
              /\ c.at = "acquire" /\ c.id = a /\ ~c.granted /\ c.notify /\ c.then = "idle"
<1>. DEFINE c == [at |-> "acquire", request |-> "RECORD", id |-> a, granted |-> FALSE,
                  target |-> NoSession, notify |-> TRUE, then |-> "idle"]
<1>1. /\ a \in Thread \ Handler /\ call[a] = NoCall
      /\ UNCHANGED <<managerVars, atOnce, serverVars>>
  BY MediaAssumption DEF Record, Thread, AirPlay
<1>2. /\ c \in Call /\ c.at = "acquire" /\ c.id = a /\ ~c.granted /\ c.notify
      /\ c.then = "idle"
  BY DEF Call, Requests, SessionOrNone, AirPlay
<1>3. c # NoCall
  BY <1>2, NoCallIsIdle
<1>4. call' = [call EXCEPT ![a] = c]
  BY DEF Record
<1>. HIDE DEF c
<1>. QED
  BY <1>1, <1>2, <1>3, <1>4

LEMMA HaltDoes ==
  ASSUME IInv, NEW t \in Handler, NEW request \in {"Stop", "Pause", "SetAVTransportURI"},
         Halt(t, request)
  PROVE  /\ t \in Thread /\ call[t] = NoCall /\ Cardinality(Busy) < atOnce
         /\ UNCHANGED <<managerVars, atOnce, serverVars>>
         /\ \E c \in Call :
              /\ call' = [call EXCEPT ![t] = c] /\ c # NoCall
              /\ c.at = IF activeSession = NoSession THEN "finish" ELSE "cancel"
              /\ c.target = activeSession /\ ~c.granted /\ c.notify /\ c.then = "finish"
<1>. DEFINE c == [at |-> IF activeSession = NoSession THEN "finish" ELSE "cancel",
                  request |-> request, id |-> NoSession, granted |-> FALSE,
                  target |-> activeSession, notify |-> TRUE, then |-> "finish"]
<1>1. /\ t \in Thread /\ call[t] = NoCall /\ Cardinality(Busy) < atOnce
      /\ UNCHANGED <<managerVars, atOnce, serverVars>>
  BY DEF Halt, Arrives, Busy, Thread
<1>2. activeSession \in SessionOrNone
  BY MediaAssumption DEF IInv, TypeInv, SessionOrNone
<1>3. /\ c \in Call /\ c.target = activeSession /\ ~c.granted /\ c.notify
      /\ c.then = "finish"
      /\ c.at = IF activeSession = NoSession THEN "finish" ELSE "cancel"
  BY <1>2 DEF Call, Requests, SessionOrNone
<1>4. c # NoCall
  BY <1>3, NoCallIsIdle
<1>5. call' = [call EXCEPT ![t] = c]
  BY DEF Halt
<1>. HIDE DEF c
<1>. QED
  BY <1>1, <1>3, <1>4, <1>5

-----------------------------------------------------------------------------
\* The steps, for what is known of the owner.

KInv == Crowded /\ PlaysFresh /\ Lost /\ SettlesRight /\ OwnerKnown

LEMMA NothingKnown ==
  /\ NoCall.at = "idle"
  /\ ~Knows(NoCall) /\ ~Plays(NoCall) /\ ~Unsettled(NoCall) /\ ~Preempts(NoCall)
<1>1. NoCall.at = "idle"
  BY DEF NoCall
<1>. QED
  BY <1>1 DEF Knows, Plays, Unsettled, Preempts

LEMMA KnownPlay ==
  ASSUME IInv, KInv, NEW t \in Handler, Play(t), Orderly' => Orderly
  PROVE  KInv'
<1>1. /\ t \in Thread /\ call[t] = NoCall /\ Cardinality(Busy) < atOnce
      /\ atOnce' = atOnce /\ closed' = closed /\ active' = active
      /\ activeSession' = activeSession /\ TypeInv
  BY PlayDoes DEF IInv
<1>2. PICK id \in Media \ used, c \in Call :
         /\ call' = [call EXCEPT ![t] = c] /\ c # NoCall
         /\ used' = used \union {id} /\ media' = media \union {id}
         /\ c.at = "acquire" /\ c.id = id /\ ~c.granted /\ c.notify /\ c.then = "settle"
  BY PlayDoes
<1>3. call'[t] = c /\ \A u \in Thread : u # t => call'[u] = call[u]
  BY <1>1, <1>2, CallChanges
<1>4. Crowded'
  BY <1>1, <1>2, CrowdedStep DEF KInv
<1>5. active # id /\ activeSession # id
  BY <1>1, MediaAssumption, NoSessionAssumption DEF TypeInv, Ids, AirPlay
<1>6. \A u \in Thread : /\ Plays(call[u]) => call[u].id # id
                        /\ call[u].at \in {"cancel", "stop"} => call[u].target # id
  BY <1>1, InPlay, InTarget
<1>7. PlaysFresh'
  <2>1. \A u \in Thread : call'[u] # NoCall => Placed(u, call'[u])
    BY <1>2, <1>3 DEF KInv, PlaysFresh, Placed
  <2>2. ASSUME NEW u \in Thread, Plays(call[u]), u # t PROVE Fresh(call[u])'
    BY <1>1, <1>2, <1>3, <2>2 DEF KInv, PlaysFresh, Fresh, Preempts
  <2>3. Fresh(call[t])'
    BY <1>1, <1>2, <1>3, <1>5, <1>6 DEF Fresh
  <2>4. \A u \in Thread : Plays(call'[u]) => Fresh(call[u])'
    BY <1>3, <2>2, <2>3
  <2>5. \A u, v \in Thread :
           u # v /\ Plays(call'[u]) /\ Plays(call'[v]) => call'[u].id # call'[v].id
    BY <1>2, <1>3, <1>6 DEF KInv, PlaysFresh
  <2>. QED
    BY <2>1, <2>4, <2>5 DEF PlaysFresh, Plays
<1>8. Lost'
  BY <1>1, <1>2, <1>3 DEF KInv, Lost, Preempts
<1>9. SettlesRight'
  <2>. SUFFICES ASSUME ~closed, Orderly, NEW u \in Thread, Unsettled(call'[u]),
                       call'[u].id \in media'
                PROVE  Succeeded(u)'
    BY <1>1 DEF SettlesRight, Unsettled, Plays
  <2>1. u # t /\ call'[u] = call[u] /\ Unsettled(call[u]) /\ call[u].id \in media
    BY <1>2, <1>3, <1>6 DEF Unsettled
  <2>2. Succeeded(u)
    BY <2>1 DEF KInv, SettlesRight
  <2>. QED
    BY <1>1, <1>3, <2>1, <2>2, NothingKnown DEF Succeeded, Unsettled, Plays
<1>10. OwnerKnown'
  <2>. SUFFICES ASSUME ~closed, Orderly, active \in Media, active # activeSession
                PROVE  \E u \in Thread : Knows(call[u])'
    BY <1>1 DEF OwnerKnown
  <2>1. PICK u \in Thread : Knows(call[u])
    BY DEF KInv, OwnerKnown
  <2>. QED
    BY <1>1, <1>3, <2>1, NothingKnown DEF Knows, Unsettled, Plays
<1>. QED
  BY <1>4, <1>7, <1>8, <1>9, <1>10 DEF KInv

LEMMA KnownRecord ==
  ASSUME IInv, KInv, NEW a \in AirPlay, Record(a), Orderly' => Orderly
  PROVE  KInv'
<1>1. /\ a \in Thread /\ a \notin Handler /\ call[a] = NoCall /\ TypeInv
      /\ atOnce' = atOnce /\ closed' = closed /\ active' = active
      /\ activeSession' = activeSession /\ media' = media /\ used' = used
  BY RecordDoes DEF IInv, managerVars, serverVars, mediaVars
<1>2. PICK c \in Call :
         /\ call' = [call EXCEPT ![a] = c] /\ c # NoCall
         /\ c.at = "acquire" /\ c.id = a /\ ~c.granted /\ c.notify /\ c.then = "idle"
  BY RecordDoes
<1>3. call'[a] = c /\ \A u \in Thread : u # a => call'[u] = call[u]
  BY <1>1, <1>2, CallChanges
<1>4. Crowded'
  BY <1>1, <1>2, CrowdedStep DEF KInv
<1>5. PlaysFresh'
  <2>1. \A u \in Thread : call'[u] # NoCall => Placed(u, call'[u])
    BY <1>2, <1>3 DEF KInv, PlaysFresh, Placed
  <2>2. ASSUME NEW u \in Thread, Plays(call'[u]) PROVE u # a /\ Plays(call[u]) /\ Fresh(call[u])'
    <3>1. u # a /\ Plays(call[u])
      BY <1>2, <1>3, <2>2 DEF Plays
    <3>. QED
      BY <1>1, <1>2, <1>3, <3>1 DEF KInv, PlaysFresh, Fresh, Preempts
  <2>. QED
    BY <1>3, <2>1, <2>2 DEF KInv, PlaysFresh, Plays
<1>6. Lost'
  BY <1>1, <1>2, <1>3 DEF KInv, Lost, Preempts
<1>7. SettlesRight'
  <2>. SUFFICES ASSUME ~closed, Orderly, NEW u \in Thread, Unsettled(call'[u]),
                       call'[u].id \in media'
                PROVE  Succeeded(u)'
    BY <1>1 DEF SettlesRight, Unsettled, Plays
  <2>1. u # a /\ call'[u] = call[u] /\ Unsettled(call[u]) /\ call[u].id \in media
    BY <1>1, <1>2, <1>3 DEF Unsettled
  <2>2. Succeeded(u)
    BY <2>1 DEF KInv, SettlesRight
  <2>. QED
    BY <1>1, <1>3, <2>1, <2>2, NothingKnown DEF Succeeded, Unsettled, Plays
<1>8. OwnerKnown'
  <2>. SUFFICES ASSUME ~closed, Orderly, active \in Media, active # activeSession
                PROVE  \E u \in Thread : Knows(call[u])'
    BY <1>1 DEF OwnerKnown
  <2>1. PICK u \in Thread : Knows(call[u])
    BY DEF KInv, OwnerKnown
  <2>. QED
    BY <1>1, <1>3, <2>1, NothingKnown DEF Knows, Unsettled, Plays
<1>. QED
  BY <1>4, <1>5, <1>6, <1>7, <1>8 DEF KInv

\* A Stop that begins cancels the active session, which no Play is still to settle.
LEMMA KnownHalt ==
  ASSUME IInv, KInv, NEW t \in Handler, NEW request \in {"Stop", "Pause", "SetAVTransportURI"},
         Halt(t, request), Orderly' => Orderly
  PROVE  KInv'
<1>1. /\ t \in Thread /\ call[t] = NoCall /\ TypeInv /\ Cardinality(Busy) < atOnce
      /\ atOnce' = atOnce /\ closed' = closed /\ active' = active
      /\ activeSession' = activeSession /\ media' = media /\ used' = used
  BY HaltDoes DEF IInv, managerVars, serverVars, mediaVars
<1>2. PICK c \in Call :
         /\ call' = [call EXCEPT ![t] = c] /\ c # NoCall
         /\ c.at = IF activeSession = NoSession THEN "finish" ELSE "cancel"
         /\ c.target = activeSession /\ ~c.granted /\ c.notify /\ c.then = "finish"
  BY HaltDoes
<1>3. call'[t] = c /\ \A u \in Thread : u # t => call'[u] = call[u]
  BY <1>1, <1>2, CallChanges
<1>4. Crowded'
  BY <1>1, <1>2, CrowdedStep DEF KInv
<1>5. PlaysFresh'
  <2>1. \A u \in Thread : call'[u] # NoCall => Placed(u, call'[u])
    BY <1>2, <1>3 DEF KInv, PlaysFresh, Placed
  <2>2. ASSUME NEW u \in Thread, Plays(call'[u]) PROVE u # t /\ Plays(call[u]) /\ Fresh(call[u])'
    <3>1. u # t /\ Plays(call[u])
      BY <1>2, <1>3, <2>2 DEF Plays
    <3>. QED
      BY <1>1, <1>2, <1>3, <3>1 DEF KInv, PlaysFresh, Fresh, Preempts
  <2>. QED
    BY <1>3, <2>1, <2>2 DEF KInv, PlaysFresh, Plays
<1>6. Lost'
  BY <1>1, <1>2, <1>3 DEF KInv, Lost, Preempts
<1>7. SettlesRight'
  <2>. SUFFICES ASSUME ~closed, Orderly, NEW u \in Thread, Unsettled(call'[u]),
                       call'[u].id \in media'
                PROVE  Succeeded(u)'
    BY <1>1 DEF SettlesRight, Unsettled, Plays
  <2>1. u # t /\ call'[u] = call[u] /\ Unsettled(call[u]) /\ call[u].id \in media
    BY <1>1, <1>2, <1>3 DEF Unsettled
  <2>2. Succeeded(u)
    BY <2>1 DEF KInv, SettlesRight
  <2>. QED
    BY <1>1, <1>3, <2>1, <2>2, NothingKnown DEF Succeeded, Unsettled, Plays
<1>8. OwnerKnown'
  <2>. SUFFICES ASSUME ~closed, Orderly, active \in Media, active # activeSession
                PROVE  \E u \in Thread : Knows(call[u])'
    BY <1>1 DEF OwnerKnown
  <2>1. PICK u \in Thread : Knows(call[u])
    BY DEF KInv, OwnerKnown
  <2>. QED
    BY <1>1, <1>3, <2>1, NothingKnown DEF Knows, Unsettled, Plays
<1>. QED
  BY <1>4, <1>5, <1>6, <1>7, <1>8 DEF KInv

\* A new owner is a session that nobody has lost or cancels; it may have taken
\* the speaker from a Play that has still to settle.
LEMMA KnownAcquire ==
  ASSUME IInv, KInv, NEW t \in Thread, Acquire(t), Orderly' => Orderly
  PROVE  KInv'
<1>. DEFINE r == call[t]
<1>1. /\ r.at = "acquire" /\ r \in Call /\ r # NoCall /\ r.id # NoSession /\ ~r.granted
      /\ r.then \in {"settle", "idle"} /\ (r.then = "idle" => r.id \in AirPlay)
      /\ used' = used /\ media' = media /\ closed' = closed /\ atOnce' = atOnce
      /\ activeSession' = activeSession /\ TypeInv
  BY AcquireDoes DEF IInv
<1>2. PICK c \in Call \union {NoCall} :
              /\ call' = [call EXCEPT ![t] = c]
              /\ c # NoCall => c.id = r.id /\ c.then = r.then /\ c.notify = r.notify
              /\ \/ /\ AcquireNew(r.id) /\ active' = r.id /\ active # r.id
                    /\ \/ /\ active \in Media
                          /\ c # NoCall /\ c.at = "cancel" /\ c.granted /\ c.target = active
                       \/ active \notin Media /\ r.then = "idle" /\ c = NoCall
                       \/ /\ active \notin Media /\ r.then = "settle"
                          /\ c # NoCall /\ c.at = "settle" /\ c.granted
                 \/ /\ active' = active /\ UNCHANGED managerVars
                    /\ \/ r.then = "idle" /\ c = NoCall
                       \/ r.then = "settle" /\ c # NoCall /\ c.at = "settle" /\ ~c.granted
  BY AcquireDoes
<1>3. call'[t] = c /\ \A u \in Thread : u # t => call'[u] = call[u]
  BY <1>1, <1>2, CallChanges
<1>4. Crowded'
  BY <1>1, <1>2, CrowdedStep DEF KInv
<1>5. Placed(t, r) /\ r.notify
  BY <1>1 DEF KInv, PlaysFresh, Placed
<1>6. \A u \in Thread : u # t /\ Plays(call[u]) => call[u].id # r.id
  BY <1>1, InPlay DEF KInv, PlaysFresh, Plays
<1>7. \A u \in Thread : call[u].at \in {"cancel", "stop"} => call[u].target # r.id
  BY <1>1, InTarget DEF KInv, PlaysFresh, Plays, Fresh
<1>8. PlaysFresh'
  <2>1. \A u \in Thread : call'[u] # NoCall => Placed(u, call'[u])
    <3>1. \A u \in Thread : u # t /\ call'[u] # NoCall => Placed(u, call'[u])
      BY <1>3 DEF KInv, PlaysFresh
    <3>2. c # NoCall => /\ c.notify /\ c.then = r.then /\ r.then \in {"settle", "idle"}
                        /\ \/ c.at = "cancel" /\ c.granted
                           \/ c.at = "settle" /\ r.then = "settle"
      BY <1>1, <1>2, <1>5
    <3>3. r.then # "idle" => t \in Handler
      BY <1>5 DEF Placed
    <3>4. c # NoCall => Placed(t, c)
      BY <3>2, <3>3 DEF Placed
    <3>. QED
      BY <1>3, <3>1, <3>4
  <2>2. \A u \in Thread : Plays(call'[u]) => Plays(call[u]) /\ call'[u].id = call[u].id
    BY <1>1, <1>2, <1>3 DEF Plays
  <2>3. ASSUME NEW u \in Thread, u # t, Plays(call[u]) PROVE Fresh(call[u])'
    <3>1. Fresh(call[u]) /\ call[u].id # r.id /\ call[u].id # NoSession
      BY <1>1, <1>6, <2>3, InPlay DEF KInv, PlaysFresh
    <3>2. c.at \in {"cancel", "stop"} /\ c.target = call[u].id =>
             c.at = "cancel" /\ call[u].granted /\ Preempts(c)
      BY <1>2, <1>5, <3>1, NothingKnown DEF Fresh, Preempts
    <3>3. active' = active \/ active' = r.id
      BY <1>2
    <3>. QED
      BY <1>1, <1>3, <2>3, <3>1, <3>2, <3>3 DEF Fresh, Preempts
  <2>4. ASSUME Plays(c) PROVE Fresh(call[t])'
    <3>1. Fresh(r)
      BY <1>1, <1>2, <2>4 DEF KInv, PlaysFresh, Plays
    <3>. QED
      BY <1>1, <1>2, <1>3, <1>7, <2>4, <3>1 DEF Fresh, Plays
  <2>. QED
    BY <1>3, <2>1, <2>2, <2>3, <2>4 DEF KInv, PlaysFresh, Plays
<1>9. Lost'
  <2>1. ASSUME NEW u \in Thread, u # t
        PROVE  /\ Preempts(call[u]) => call[u].target # active'
               /\ call[u].at = "cancel" /\ ~call[u].notify => call[u].target # activeSession'
    BY <1>1, <1>2, <1>7, <2>1 DEF KInv, Lost, Preempts
  <2>2. /\ Preempts(c) => c.target # active'
        /\ c.at = "cancel" /\ ~c.notify => c.target # activeSession'
    BY <1>1, <1>2, <1>5, NothingKnown DEF Preempts
  <2>. QED
    BY <1>3, <2>1, <2>2 DEF Lost, Preempts
<1>10. SettlesRight'
  <2>. SUFFICES ASSUME ~closed, Orderly, Orderly', NEW u \in Thread, Unsettled(call'[u]),
                       call'[u].id \in media'
                PROVE  Succeeded(u)'
    BY <1>1 DEF SettlesRight, Unsettled, Plays
  <2>1. CASE u = t
    <3>1. call'[u].id = active'
      BY <1>2, <1>3, <2>1 DEF Unsettled, Plays
    <3>. QED
      BY <3>1 DEF Succeeded
  <2>2. CASE u # t
    <3>1. call'[u] = call[u] /\ Unsettled(call[u]) /\ Succeeded(u)
      BY <1>1, <1>3, <2>2 DEF KInv, SettlesRight
    <3>2. u \in Busy
      BY <1>1, <3>1 DEF KInv, PlaysFresh, Placed, Unsettled, Plays, Busy
    <3>3. CASE active' = active
      BY <1>1, <1>2, <1>3, <3>1, <3>3 DEF Succeeded, Unsettled, Plays
    <3>4. CASE AcquireNew(r.id) /\ r.then = "idle"
      <4>1. r.id \in AirPlay /\ active' \notin Media
        BY <1>1, <3>4 DEF AirPlay, AcquireNew, ChangeOwner
      <4>2. CASE atOnce = 1
        BY <1>1, <4>1, <4>2 DEF Succeeded
      <4>3. CASE atOnce # 1
        <5>1. active \in Media
          BY <1>1, <3>1, <4>3, InPlay DEF Succeeded, Unsettled
        <5>. QED
          BY <1>1, <3>4, <4>1, <4>3, <5>1, AirPlayPreempts DEF Orderly
      <4>. QED
        BY <4>2, <4>3
    <3>5. CASE AcquireNew(r.id) /\ r.then = "settle" /\ active' = r.id
      <4>1. t \in Busy
        BY <1>1, <1>5, <3>5 DEF Placed, Busy
      <4>2. atOnce = 2
        BY <2>2, <3>2, <4>1, OneBusy DEF KInv, Orderly
      <4>3. \A v \in Thread : ~(Unsettled(call[v]) /\ call[v].at = "cancel" /\ v # u)
        <5>. SUFFICES ASSUME NEW v \in Thread, Unsettled(call[v]), v # u, call[v].at = "cancel"
                      PROVE FALSE
          OBVIOUS
        <5>1. v \in Busy /\ v # t
          BY <1>1 DEF KInv, PlaysFresh, Placed, Unsettled, Plays, Busy
        <5>. QED
          BY <2>2, <3>2, <4>1, <4>2, <5>1, TwoBusy DEF KInv
      <4>4. active = call[u].id
        BY <3>1, <4>2, <4>3 DEF Succeeded
      <4>5. active \in Media
        BY <1>1, <3>1, <4>4, InPlay DEF Unsettled
      <4>6. Unsettled(c) /\ c.at = "cancel" /\ c.target = active /\ c.id = r.id
        BY <1>2, <3>5, <4>4, <4>5 DEF Unsettled, Plays, AcquireNew
      <4>. QED
        BY <1>3, <3>1, <3>5, <4>4, <4>6, <1>1 DEF Succeeded, Thread
    <3>. QED
      BY <1>1, <1>2, <3>3, <3>4, <3>5
  <2>. QED
    BY <2>1, <2>2
<1>11. OwnerKnown'
  <2>. SUFFICES ASSUME ~closed, Orderly, active' \in Media, active' # activeSession
                PROVE  \E u \in Thread : Knows(call[u])'
    BY <1>1 DEF OwnerKnown
  <2>1. CASE active' = active
    <3>1. PICK u \in Thread : Knows(call[u])
      BY <2>1 DEF KInv, OwnerKnown
    <3>2. u # t
      BY <1>1, <3>1 DEF Knows, Unsettled
    <3>. QED
      BY <1>3, <2>1, <3>1, <3>2 DEF Knows, Unsettled, Plays
  <2>2. CASE active' = r.id /\ AcquireNew(r.id)
    <3>1. r.then = "settle"
      BY <1>1, <2>2 DEF AirPlay
    <3>2. Unsettled(c) /\ c.id = active'
      BY <1>2, <2>2, <3>1 DEF Unsettled, Plays, AcquireNew
    <3>. QED
      BY <1>3, <3>2 DEF Knows, Unsettled, Plays
  <2>. QED
    BY <1>2, <2>1, <2>2
<1>. QED
  BY <1>4, <1>8, <1>9, <1>10, <1>11 DEF KInv

\* Who is cancelled has lost the speaker or is the active session: no Play that
\* has the speaker and has still to settle.
LEMMA KnownCancel ==
  ASSUME IInv, KInv, NEW t \in Thread, CancelMedia(t), Orderly' => Orderly
  PROVE  KInv'
<1>. DEFINE r == call[t]
<1>1. /\ r.at = "cancel" /\ r \in Call /\ r # NoCall /\ TypeInv
      /\ used' = used /\ media' = media \ {r.target} /\ closed' = closed
      /\ atOnce' = atOnce /\ active' = active
      /\ activeSession' = IF activeSession = r.target THEN NoSession ELSE activeSession
  BY CancelDoes DEF IInv
<1>2. PICK c \in Call \union {NoCall} :
              /\ call' = [call EXCEPT ![t] = c]
              /\ c # NoCall => /\ c.id = r.id /\ c.then = r.then /\ c.notify = r.notify
                               /\ c.target = r.target /\ c.granted = r.granted
              /\ \/ /\ activeSession = r.target /\ r.notify /\ c # NoCall /\ c.at = "stop"
                 \/ /\ ~(activeSession = r.target /\ r.notify)
                    /\ \/ r.then = "idle" /\ c = NoCall
                       \/ r.then # "idle" /\ c # NoCall /\ c.at = r.then
  BY CancelDoes
<1>3. call'[t] = c /\ \A u \in Thread : u # t => call'[u] = call[u]
  BY <1>1, <1>2, CallChanges
<1>4. Crowded'
  BY <1>1, <1>2, CrowdedStep DEF KInv
<1>5. Placed(t, r) /\ r.then \in {"settle", "finish", "idle"}
  BY <1>1 DEF KInv, PlaysFresh, Call
<1>6. r.target \in used /\ r.target # NoSession
  BY <1>1, InTarget
<1>7. PlaysFresh'
  <2>1. \A u \in Thread : call'[u] # NoCall => Placed(u, call'[u])
    BY <1>1, <1>2, <1>3, <1>5 DEF KInv, PlaysFresh, Placed
  <2>2. \A u \in Thread : Plays(call'[u]) => /\ Plays(call[u]) /\ call'[u].id = call[u].id
                                             /\ call'[u].granted = call[u].granted
    BY <1>1, <1>2, <1>3 DEF Plays
  <2>3. ASSUME NEW u \in Thread, Plays(call'[u]) PROVE Fresh(call[u])'
    <3>1. /\ Fresh(call[u]) /\ call[u].id # NoSession
          /\ call'[u].id = call[u].id /\ call'[u].granted = call[u].granted
      BY <1>1, <2>2, <2>3, InPlay DEF KInv, PlaysFresh
    <3>2. activeSession' # call[u].id
      BY <1>1, <3>1 DEF Fresh
    <3>3. r.target = call[u].id => call[u].granted /\ Preempts(r)
      BY <1>1, <3>1 DEF Fresh
    <3>4. c.at \in {"cancel", "stop"} => c.target # call[u].id
      BY <1>2, <1>5, <3>1, NothingKnown DEF Fresh
    <3>5. r.target = call[u].id => active # call[u].id
      BY <3>3 DEF KInv, Lost
    <3>6. \A v \in Thread :
             call'[v].at \in {"cancel", "stop"} /\ call'[v].target = call[u].id =>
                 call'[v].at = "cancel" /\ call[u].granted /\ Preempts(call'[v])
      BY <1>3, <3>1, <3>4 DEF Fresh
    <3>7. ~call[u].granted => active' # call[u].id
      BY <1>1, <3>1 DEF Fresh
    <3>8. ~closed' /\ (call[u].granted => active' = call[u].id) => call[u].id \in media'
      BY <1>1, <3>1, <3>3, <3>5 DEF Fresh
    <3>. QED
      BY <3>1, <3>2, <3>6, <3>7, <3>8 DEF Fresh
  <2>. QED
    BY <1>3, <2>1, <2>2, <2>3 DEF KInv, PlaysFresh, Plays
<1>8. Lost'
  <2>1. ASSUME NEW u \in Thread, u # t
        PROVE  /\ Preempts(call[u]) => call[u].target # active'
               /\ call[u].at = "cancel" /\ ~call[u].notify => call[u].target # activeSession'
    BY <1>1, <2>1, InTarget DEF KInv, Lost
  <2>2. /\ Preempts(c) => c.target # active'
        /\ c.at # "cancel"
    BY <1>1, <1>2, <1>5, NothingKnown DEF KInv, Lost, Preempts
  <2>. QED
    BY <1>3, <2>1, <2>2 DEF Lost, Preempts
<1>9. SettlesRight'
  <2>. SUFFICES ASSUME ~closed, Orderly, NEW u \in Thread, Unsettled(call'[u]),
                       call'[u].id \in media'
                PROVE  Succeeded(u)'
    BY <1>1 DEF SettlesRight, Unsettled, Plays
  <2>1. Unsettled(call[u]) /\ call[u].id = call'[u].id /\ call[u].id \in media
        /\ call[u].id # r.target
    BY <1>1, <1>2, <1>3 DEF Unsettled, Plays
  <2>2. Succeeded(u)
    BY <2>1 DEF KInv, SettlesRight
  <2>3. CASE active = call[u].id \/ (active \notin Media /\ atOnce = 1)
    BY <1>1, <2>1, <2>3 DEF Succeeded
  <2>4. ASSUME NEW v \in Thread, Unsettled(call[v]), call[v].at = "cancel",
               call[v].target = call[u].id, active = call[v].id
        PROVE  Succeeded(u)'
    <3>1. v # t /\ call'[v] = call[v]
      BY <1>3, <2>1, <2>4
    <3>. QED
      BY <1>1, <2>1, <2>4, <3>1 DEF Succeeded, Unsettled, Plays
  <2>. QED
    BY <2>2, <2>3, <2>4 DEF Succeeded
<1>10. OwnerKnown'
  <2>. SUFFICES ASSUME ~closed, Orderly, active \in Media, active # activeSession'
                PROVE  \E u \in Thread : Knows(call[u])'
    BY <1>1 DEF OwnerKnown
  <2>1. CASE activeSession = active
    <3>1. activeSession = r.target /\ r.notify
      BY <1>1, <2>1 DEF KInv, Lost
    <3>2. c.at = "stop" /\ c.target = active
      BY <1>2, <2>1, <3>1
    <3>. QED
      BY <1>1, <1>3, <3>2 DEF Knows
  <2>2. CASE activeSession # active
    <3>1. PICK u \in Thread : Knows(call[u])
      BY <2>2 DEF KInv, OwnerKnown
    <3>2. CASE u # t
      BY <1>1, <1>3, <3>1, <3>2 DEF Knows, Unsettled, Plays
    <3>3. CASE u = t
      <4>1. Unsettled(r) /\ r.id = active
        BY <1>1, <3>1, <3>3 DEF Knows
      <4>2. Unsettled(c) /\ c.id = active
        BY <1>2, <4>1 DEF Unsettled, Plays
      <4>. QED
        BY <1>1, <1>3, <4>2 DEF Knows, Unsettled, Plays
    <3>. QED
      BY <3>2, <3>3
  <2>. QED
    BY <2>1, <2>2
<1>. QED
  BY <1>4, <1>7, <1>8, <1>9, <1>10 DEF KInv

\* The arbiter is told of a session that no Play has still to settle.
LEMMA KnownStop ==
  ASSUME IInv, KInv, NEW t \in Thread, SessionStop(t), Orderly' => Orderly
  PROVE  KInv'
<1>. DEFINE r == call[t]
<1>1. /\ r.at = "stop" /\ r \in Call /\ r # NoCall /\ TypeInv
      /\ used' = used /\ media' = media /\ closed' = closed /\ atOnce' = atOnce
      /\ activeSession' = activeSession
      /\ \/ active' = NoSession /\ active = r.target
         \/ active' = active /\ active # r.target
  BY StopDoes DEF IInv
<1>2. PICK c \in Call \union {NoCall} :
              /\ call' = [call EXCEPT ![t] = c]
              /\ c # NoCall => /\ c.id = r.id /\ c.then = r.then /\ c.notify = r.notify
                               /\ c.target = r.target /\ c.granted = r.granted
              /\ \/ r.then = "idle" /\ c = NoCall
                 \/ r.then # "idle" /\ c # NoCall /\ c.at = r.then
  BY StopDoes
<1>3. call'[t] = c /\ \A u \in Thread : u # t => call'[u] = call[u]
  BY <1>1, <1>2, CallChanges
<1>4. Crowded'
  BY <1>1, <1>2, CrowdedStep DEF KInv
<1>5. Placed(t, r) /\ r.then \in {"settle", "finish", "idle"}
  BY <1>1 DEF KInv, PlaysFresh, Call
<1>6. c.at \notin {"cancel", "stop", "acquire"}
  BY <1>2, <1>5, NothingKnown
<1>7. \A u \in Thread : Plays(call[u]) => call[u].id # r.target /\ call[u].id # NoSession
  BY <1>1, InPlay DEF KInv, PlaysFresh, Fresh
<1>8. NoSession \notin Media
  BY MediaAssumption, NoSessionAssumption
<1>9. PlaysFresh'
  <2>1. \A u \in Thread : call'[u] # NoCall => Placed(u, call'[u])
    BY <1>1, <1>2, <1>3, <1>5 DEF KInv, PlaysFresh, Placed
  <2>2. \A u \in Thread : Plays(call'[u]) => /\ Plays(call[u]) /\ call'[u].id = call[u].id
                                             /\ call'[u].granted = call[u].granted
    BY <1>1, <1>2, <1>3 DEF Plays
  <2>3. ASSUME NEW u \in Thread, Plays(call'[u]) PROVE Fresh(call[u])'
    <3>1. /\ Fresh(call[u]) /\ call[u].id # NoSession /\ call[u].id # r.target
          /\ call'[u].id = call[u].id /\ call'[u].granted = call[u].granted
      BY <1>7, <2>2, <2>3 DEF KInv, PlaysFresh
    <3>2. \A v \in Thread :
             call'[v].at \in {"cancel", "stop"} /\ call'[v].target = call[u].id =>
                 call'[v].at = "cancel" /\ call[u].granted /\ Preempts(call'[v])
      BY <1>3, <1>6, <3>1 DEF Fresh
    <3>. QED
      BY <1>1, <3>1, <3>2 DEF Fresh
  <2>. QED
    BY <1>3, <2>1, <2>2, <2>3 DEF KInv, PlaysFresh, Plays
<1>10. Lost'
  <2>1. ASSUME NEW u \in Thread, u # t
        PROVE  /\ Preempts(call[u]) => call[u].target # active'
               /\ call[u].at = "cancel" /\ ~call[u].notify => call[u].target # activeSession'
    BY <1>1, <2>1, InTarget DEF KInv, Lost, Preempts
  <2>. QED
    BY <1>3, <1>6, <2>1 DEF Lost, Preempts
<1>11. SettlesRight'
  <2>. SUFFICES ASSUME ~closed, Orderly, NEW u \in Thread, Unsettled(call'[u]),
                       call'[u].id \in media'
                PROVE  Succeeded(u)'
    BY <1>1 DEF SettlesRight, Unsettled, Plays
  <2>1. Unsettled(call[u]) /\ call[u].id = call'[u].id /\ call[u].id \in media
    BY <1>1, <1>2, <1>3 DEF Unsettled, Plays
  <2>2. Succeeded(u)
    BY <2>1 DEF KInv, SettlesRight
  <2>3. CASE active = call[u].id
    BY <1>1, <1>7, <2>1, <2>3 DEF Succeeded, Unsettled
  <2>4. CASE active \notin Media /\ atOnce = 1
    BY <1>1, <1>8, <2>4 DEF Succeeded
  <2>5. ASSUME NEW v \in Thread, Unsettled(call[v]), call[v].at = "cancel",
               call[v].target = call[u].id, active = call[v].id
        PROVE  Succeeded(u)'
    <3>1. v # t /\ call'[v] = call[v] /\ active' = active
      BY <1>1, <1>3, <1>7, <2>5 DEF Unsettled
    <3>. QED
      BY <1>1, <2>1, <2>5, <3>1 DEF Succeeded, Unsettled, Plays
  <2>. QED
    BY <2>2, <2>3, <2>4, <2>5 DEF Succeeded
<1>12. OwnerKnown'
  <2>. SUFFICES ASSUME ~closed, Orderly, active' \in Media, active' # activeSession
                PROVE  \E u \in Thread : Knows(call[u])'
    BY <1>1 DEF OwnerKnown
  <2>1. active' = active /\ active # r.target
    BY <1>1, <1>8
  <2>2. PICK u \in Thread : Knows(call[u])
    BY <2>1 DEF KInv, OwnerKnown
  <2>3. CASE u # t
    BY <1>3, <2>1, <2>2, <2>3 DEF Knows, Unsettled, Plays
  <2>4. CASE u = t
    <3>1. Unsettled(c) /\ c.id = active
      BY <1>2, <2>1, <2>2, <2>4 DEF Knows, Unsettled, Plays
    <3>. QED
      BY <1>3, <2>1, <3>1 DEF Knows, Unsettled, Plays
  <2>. QED
    BY <2>3, <2>4
<1>. QED
  BY <1>4, <1>9, <1>10, <1>11, <1>12 DEF KInv

\* A Play that finds its media session in the table becomes the active session
\* and the owner with it, or one that has the speaker knows of it.
LEMMA KnownSettle ==
  ASSUME IInv, KInv, NEW t \in Handler, Settle(t), Orderly' => Orderly
  PROVE  KInv'
<1>. DEFINE r == call[t]
<1>1. /\ t \in Thread /\ r.at = "settle" /\ r \in Call /\ r # NoCall /\ TypeInv
      /\ used' = used /\ media' = media /\ closed' = closed /\ atOnce' = atOnce
      /\ active' = active
  BY SettleDoes DEF IInv
<1>2. PICK c \in Call \union {NoCall} :
              /\ call' = [call EXCEPT ![t] = c]
              /\ \/ /\ r.granted /\ r.id \in media /\ activeSession' = r.id /\ c = NoCall
                 \/ /\ ~(r.granted /\ r.id \in media) /\ activeSession' = activeSession
                    /\ c # NoCall /\ c.at = "cancel" /\ c.target = r.id /\ ~c.notify
                    /\ c.then = "idle"
  BY SettleDoes
<1>3. call'[t] = c /\ \A u \in Thread : u # t => call'[u] = call[u]
  BY <1>1, <1>2, CallChanges
<1>4. Crowded'
  BY <1>1, <1>2, CrowdedStep DEF KInv
<1>5. Placed(t, r) /\ Plays(r) /\ Fresh(r) /\ r.id # NoSession
  BY <1>1, InPlay DEF KInv, PlaysFresh, Placed, Plays
<1>6. \A u \in Thread : u # t /\ Plays(call[u]) => call[u].id # r.id
  BY <1>1, <1>5 DEF KInv, PlaysFresh
<1>7. ~Plays(c) /\ ~Preempts(c) /\ c.at # "stop"
  BY <1>2, NothingKnown DEF Plays, Preempts
<1>8. PlaysFresh'
  <2>1. \A u \in Thread : call'[u] # NoCall => Placed(u, call'[u])
    BY <1>1, <1>2, <1>3 DEF KInv, PlaysFresh, Placed
  <2>2. ASSUME NEW u \in Thread, Plays(call'[u])
        PROVE  u # t /\ Plays(call[u]) /\ Fresh(call[u])'
    <3>1. u # t /\ Plays(call[u]) /\ Fresh(call[u]) /\ call[u].id # r.id
      BY <1>3, <1>6, <1>7, <2>2 DEF KInv, PlaysFresh
    <3>2. activeSession' # call[u].id
      BY <1>2, <3>1 DEF Fresh
    <3>3. \A v \in Thread :
             call'[v].at \in {"cancel", "stop"} /\ call'[v].target = call[u].id =>
                 call'[v].at = "cancel" /\ call[u].granted /\ Preempts(call'[v])
      BY <1>2, <1>3, <3>1, NothingKnown DEF Fresh
    <3>. QED
      BY <1>1, <1>3, <3>1, <3>2, <3>3 DEF Fresh
  <2>. QED
    BY <1>3, <2>1, <2>2 DEF KInv, PlaysFresh, Plays
<1>9. Lost'
  <2>1. ASSUME NEW u \in Thread, u # t
        PROVE  /\ Preempts(call[u]) => call[u].target # active'
               /\ call[u].at = "cancel" /\ ~call[u].notify => call[u].target # activeSession'
    <3>1. call[u].at = "cancel" /\ call[u].target = r.id => call[u].notify
      BY <1>5, <2>1 DEF Fresh, Preempts
    <3>. QED
      BY <1>1, <1>2, <2>1, <3>1 DEF KInv, Lost
  <2>2. c.at = "cancel" => c.target # activeSession'
    BY <1>2, <1>5, NothingKnown DEF Fresh
  <2>. QED
    BY <1>3, <1>7, <2>1, <2>2 DEF Lost, Preempts
<1>10. SettlesRight'
  <2>. SUFFICES ASSUME ~closed, Orderly, NEW u \in Thread, Unsettled(call'[u]),
                       call'[u].id \in media'
                PROVE  Succeeded(u)'
    BY <1>1 DEF SettlesRight, Unsettled, Plays
  <2>1. u # t /\ call'[u] = call[u] /\ Unsettled(call[u]) /\ call[u].id \in media
    BY <1>1, <1>3, <1>7 DEF Unsettled
  <2>2. Succeeded(u)
    BY <2>1 DEF KInv, SettlesRight
  <2>3. \A v \in Thread : call[v].at = "cancel" => v # t /\ call'[v] = call[v]
    BY <1>1, <1>3
  <2>. QED
    BY <1>1, <2>1, <2>2, <2>3 DEF Succeeded, Unsettled, Plays
<1>11. OwnerKnown'
  <2>. SUFFICES ASSUME ~closed, Orderly, active \in Media, active # activeSession'
                PROVE  \E u \in Thread : Knows(call[u])'
    BY <1>1 DEF OwnerKnown
  <2>1. CASE r.granted /\ r.id \in media
    <3>1. active # r.id
      BY <1>2, <2>1
    <3>2. Succeeded(t)
      BY <1>1, <1>5, <2>1 DEF KInv, SettlesRight, Unsettled
    <3>3. PICK u \in Thread : Unsettled(call[u]) /\ call[u].at = "cancel" /\ active = call[u].id
      BY <3>1, <3>2 DEF Succeeded
    <3>. QED
      BY <1>1, <1>3, <3>3 DEF Knows, Unsettled, Plays
  <2>2. CASE ~(r.granted /\ r.id \in media)
    <3>1. activeSession' = activeSession
      BY <1>2, <2>2
    <3>2. PICK u \in Thread : Knows(call[u])
      BY <3>1 DEF KInv, OwnerKnown
    <3>3. ~Knows(r)
      BY <1>1, <1>5, <2>2 DEF Knows, Unsettled, Fresh
    <3>. QED
      BY <1>1, <1>3, <3>2, <3>3 DEF Knows, Unsettled, Plays
  <2>. QED
    BY <2>1, <2>2
<1>. QED
  BY <1>4, <1>8, <1>9, <1>10, <1>11 DEF KInv

LEMMA KnownFinish ==
  ASSUME IInv, KInv, NEW t \in Handler, Finish(t), Orderly' => Orderly
  PROVE  KInv'
<1>. DEFINE r == call[t]
<1>1. /\ t \in Thread /\ r.at = "finish" /\ r # NoCall /\ TypeInv
      /\ used' = used /\ media' = media /\ closed' = closed /\ atOnce' = atOnce
      /\ active' = active /\ activeSession' = activeSession
      /\ call' = [call EXCEPT ![t] = NoCall]
  BY InCall DEF Finish, Goes, IInv, Thread, managerVars, mediaVars
<1>2. call'[t] = NoCall /\ \A u \in Thread : u # t => call'[u] = call[u]
  BY <1>1, CallChanges
<1>3. Crowded'
  BY <1>1, CrowdedStep DEF KInv
<1>4. r.then = "finish" /\ ~Plays(r) /\ ~Knows(r)
  BY <1>1 DEF KInv, PlaysFresh, Placed, Plays, Knows, Unsettled
<1>5. PlaysFresh'
  <2>1. \A u \in Thread : call'[u] # NoCall => Placed(u, call'[u])
    BY <1>2 DEF KInv, PlaysFresh, Placed
  <2>2. ASSUME NEW u \in Thread, Plays(call'[u])
        PROVE  u # t /\ Plays(call[u]) /\ Fresh(call[u])'
    <3>1. u # t /\ Plays(call[u]) /\ Fresh(call[u])
      BY <1>2, <2>2, NothingKnown DEF KInv, PlaysFresh
    <3>2. \A v \in Thread :
             call'[v].at \in {"cancel", "stop"} /\ call'[v].target = call[u].id =>
                 call'[v].at = "cancel" /\ call[u].granted /\ Preempts(call'[v])
      BY <1>2, <3>1, NothingKnown DEF Fresh
    <3>. QED
      BY <1>1, <1>2, <3>1, <3>2 DEF Fresh
  <2>. QED
    BY <1>2, <2>1, <2>2 DEF KInv, PlaysFresh, Plays
<1>6. Lost'
  BY <1>1, <1>2, NothingKnown DEF KInv, Lost, Preempts
<1>7. SettlesRight'
  <2>. SUFFICES ASSUME ~closed, Orderly, NEW u \in Thread, Unsettled(call'[u]),
                       call'[u].id \in media'
                PROVE  Succeeded(u)'
    BY <1>1 DEF SettlesRight, Unsettled, Plays
  <2>1. u # t /\ call'[u] = call[u] /\ Unsettled(call[u]) /\ call[u].id \in media
    BY <1>1, <1>2, NothingKnown
  <2>2. Succeeded(u)
    BY <2>1 DEF KInv, SettlesRight
  <2>3. \A v \in Thread : call[v].at = "cancel" => v # t /\ call'[v] = call[v]
    BY <1>1, <1>2
  <2>. QED
    BY <1>1, <2>1, <2>2, <2>3 DEF Succeeded, Unsettled, Plays
<1>8. OwnerKnown'
  <2>. SUFFICES ASSUME ~closed, Orderly, active \in Media, active # activeSession
                PROVE  \E u \in Thread : Knows(call[u])'
    BY <1>1 DEF OwnerKnown
  <2>1. PICK u \in Thread : Knows(call[u])
    BY DEF KInv, OwnerKnown
  <2>. QED
    BY <1>1, <1>2, <1>4, <2>1 DEF Knows, Unsettled, Plays
<1>. QED
  BY <1>3, <1>5, <1>6, <1>7, <1>8 DEF KInv

\* Steps that no request takes: an AirPlay session that ends was not waited for.
LEMMA KnownOther ==
  ASSUME IInv, KInv, Orderly' => Orderly,
         \/ \E a \in AirPlay : AirPlayStops(a)
         \/ \E p \in Proxy : ProxyOpens(p) \/ ProxyEnds(p)
         \/ Attend
         \/ Close
         \/ UNCHANGED vars
  PROVE  KInv'
<1>1. TypeInv /\ NoSession \notin Media
  BY MediaAssumption, NoSessionAssumption DEF IInv
<1>2. /\ UNCHANGED <<call, atOnce, activeSession, used>>
      /\ active' = active \/ (active \in AirPlay /\ active' = NoSession)
      /\ closed' \/ (closed' = closed /\ media' = media)
      /\ media' \subseteq media
  BY DEF AirPlayStops, Release, ChangeOwner, ProxyOpens, ProxyEnds, Attend, Tick, Touch, Close,
     vars, managerVars, serverVars, mediaVars
<1>3. Crowded'
  BY <1>2 DEF KInv, Crowded, Busy
<1>4. \A u \in Thread : Plays(call[u]) => call[u].id \notin AirPlay /\ call[u].id # NoSession
  BY <1>1, InPlay
<1>5. PlaysFresh'
  <2>1. \A u \in Thread : Plays(call[u]) => Fresh(call[u])'
    BY <1>2, <1>4 DEF KInv, PlaysFresh, Fresh, Preempts
  <2>. QED
    BY <1>2, <2>1 DEF KInv, PlaysFresh, Placed, Plays
<1>6. Lost'
  <2>1. \A u \in Thread : Preempts(call[u]) => call[u].target # NoSession
    BY <1>1, InTarget DEF Preempts
  <2>. QED
    BY <1>2, <2>1 DEF KInv, Lost, Preempts
<1>7. SettlesRight'
  <2>. SUFFICES ASSUME ~closed', Orderly, NEW u \in Thread, Unsettled(call'[u]),
                       call'[u].id \in media'
                PROVE  Succeeded(u)'
    BY DEF SettlesRight, Unsettled, Plays
  <2>1. Unsettled(call[u]) /\ Succeeded(u)
    BY <1>2 DEF KInv, SettlesRight
  <2>. QED
    BY <1>1, <1>2, <1>4, <2>1 DEF Succeeded, Unsettled, Plays, AirPlay
<1>8. OwnerKnown'
  <2>. SUFFICES ASSUME ~closed', Orderly, active' \in Media, active' # activeSession
                PROVE  \E u \in Thread : Knows(call[u])'
    BY <1>2 DEF OwnerKnown
  <2>1. PICK u \in Thread : Knows(call[u])
    BY <1>1, <1>2 DEF KInv, OwnerKnown
  <2>. QED
    BY <1>1, <1>2, <2>1 DEF Knows, Unsettled, Plays
<1>. QED
  BY <1>3, <1>5, <1>6, <1>7, <1>8 DEF KInv

LEMMA KnownInit == Init => KInv
<1>. SUFFICES ASSUME Init PROVE KInv
  OBVIOUS
<1>1. \A t \in Thread : call[t] = NoCall
  BY DEF Init
<1>2. Busy = {}
  BY <1>1 DEF Busy, Thread
<1>3. Crowded
  BY <1>2, FS_EmptySet DEF Crowded
<1>4. active = NoSession /\ NoSession \notin Media
  BY MediaAssumption, NoSessionAssumption DEF Init, ManagerInit
<1>. QED
  BY <1>1, <1>3, <1>4, NothingKnown DEF KInv, PlaysFresh, Lost, SettlesRight, OwnerKnown

LEMMA KnownNext ==
  ASSUME IInv, KInv, [Next]_vars
  PROVE  KInv'
<1>1. Orderly' => Orderly
  BY OrderlyBefore
<1>. QED
  BY <1>1, KnownPlay, KnownRecord, KnownAcquire, KnownCancel, KnownStop, KnownSettle, KnownHalt,
     KnownFinish, KnownOther DEF Next

-----------------------------------------------------------------------------

\* The renderer's state is well typed: a session in the media table has a context
\* that is not cancelled, and a proxy streams an id that was given out.
THEOREM RendererTypeCorrect == Spec => []TypeOK
<1>1. IInv => TypeOK
  BY MediaAssumption DEF IInv, TypeInv, TypeOK, ManagerInv
<1>. QED
  BY <1>1, RendererInit, RendererNext, PTL DEF Spec

\* A renderer that reports PLAYING has an active session with its media in the
\* table, whatever requests cross and whoever cancels it meanwhile.
THEOREM RendererPlaysMedia == Spec => []PlayingHasMedia
<1>1. IInv => PlayingHasMedia
  BY DEF IInv
<1>. QED
  BY <1>1, RendererInit, RendererNext, PTL DEF Spec

\* When requests are over, only the owner's media session is in the table,
\* however many of them crossed each other and preemptions by AirPlay.
THEOREM RendererLeaksNothing == Spec => []NoMediaLeaks
<1>1. IInv => NoMediaLeaks
  BY NoCallIsIdle DEF IInv, MediaHeld, NoMediaLeaks, AtRest
<1>. QED
  BY <1>1, RendererInit, RendererNext, PTL DEF Spec

\* When requests are over, a proxy that is not told to end streams the owner's
\* media: it found its session in the table, and what left the table is cancelled.
THEOREM RendererStreamsOwner == Spec => []ProxyServesOwner
<1>1. IInv => NoMediaLeaks
  BY NoCallIsIdle DEF IInv, MediaHeld, NoMediaLeaks, AtRest
<1>2. IInv => ProxyServesOwner
  BY <1>1 DEF IInv, TypeInv, NoMediaLeaks, ProxyServesOwner
<1>. QED
  BY <1>2, RendererInit, RendererNext, PTL DEF Spec

\* When no request is in hand the renderer and the arbiter name the same media
\* session: for two SOAP requests that cross each other, and for AirPlay's
\* preemption at any point of one SOAP request after another.
THEOREM RendererAgrees == Spec => []RendererKnowsOwner
<1>1. ASSUME IInv, KInv, AtRest, ~closed, Orderly
      PROVE  activeSession = IF active \in Media THEN active ELSE NoSession
  <2>1. \A t \in Thread : ~Knows(call[t]) /\ ~Holds(call[t], activeSession)
    BY <1>1, NothingKnown, NoCallIsIdle DEF AtRest
  <2>2. active \in Media => activeSession = active
    BY <1>1, <2>1 DEF KInv, OwnerKnown
  <2>3. activeSession # NoSession => active = activeSession /\ activeSession \in Media
    BY <1>1, <2>1 DEF IInv, TypeInv, PlayingHasMedia, MediaHeld
  <2>. QED
    BY <2>2, <2>3
<1>2. IInv /\ KInv => RendererKnowsOwner
  BY <1>1 DEF RendererKnowsOwner
<1>. QED
  BY <1>2, RendererInit, RendererNext, KnownInit, KnownNext, PTL DEF Spec

\* SOAP requests, media sessions and AirPlay use the arbiter only through its
\* operations, so that what is proved of it holds here: generations name owners,
\* old ones stay old and the policy is kept.
THEOREM RendererKeepsArbiter ==
  Spec => [](GenerationNamesOwner /\ PolicyHeld) /\ StaleStaysStale
<1>1. Init => ManagerInit
  BY DEF Init
<1>2. IInv /\ [Next]_vars => [ManagerNext]_managerVars
  BY StepsOfArbiter
<1>3. Spec => ManagerSpec
  BY <1>1, <1>2, RendererInit, RendererNext, PTL DEF Spec, ManagerSpec
<1>. QED
  BY <1>3, ManagerCorrect, ManagerStaleStaysStale, ManagerHoldsPolicy, PTL

\* A media session that was preempted, stopped or refused stays out: it does not
\* come back into the table, become the active session or get the speaker, though
\* its Play may still be in hand and the speaker may ask for its stream.
StaysCancelled ==
    [][~closed => \A id \in cancelled :
         /\ id \notin media'
         /\ activeSession' = id => activeSession = id
         /\ active' = id => active = id]_vars

THEOREM RendererForgets == Spec => StaysCancelled
<1>1. ASSUME IInv, KInv, [Next]_vars, ~closed, NEW id \in cancelled
      PROVE  /\ id \notin media'
             /\ activeSession' = id => activeSession = id
             /\ active' = id => active = id
  <2>1. TypeInv /\ id \in used /\ id \notin media /\ id \in Media /\ id # NoSession
        /\ \A t \in Handler : t \in Thread
    BY <1>1, MediaAssumption, NoSessionAssumption DEF IInv, TypeInv, Thread
  <2>2. ASSUME NEW t \in Handler, Play(t)
        PROVE  id \notin media' /\ UNCHANGED <<activeSession, active>>
    BY <1>1, <2>1, <2>2, PlayDoes
  <2>3. ASSUME NEW t \in Thread, Acquire(t)
        PROVE  UNCHANGED <<media, activeSession>> /\ (active' = id => active = id)
    <3>1. /\ call[t].at = "acquire" /\ call[t] # NoCall /\ ~call[t].granted
          /\ call[t].then \in {"settle", "idle"} /\ (call[t].then = "idle" => call[t].id \in AirPlay)
          /\ UNCHANGED <<media, activeSession>> /\ active' \in {active, call[t].id}
      BY <1>1, <2>3, AcquireDoes
    <3>2. call[t].then = "settle" => call[t].id \in media
      BY <1>1, <3>1 DEF KInv, PlaysFresh, Plays, Fresh
    <3>3. id \notin AirPlay
      BY <2>1 DEF AirPlay
    <3>. QED
      BY <2>1, <3>1, <3>2, <3>3
  <2>4. ASSUME NEW t \in Thread, CancelMedia(t)
        PROVE  /\ media' \subseteq media /\ active' = active
               /\ activeSession' = id => activeSession = id
    BY <1>1, <2>1, <2>4, CancelDoes
  <2>5. ASSUME NEW t \in Thread, SessionStop(t)
        PROVE  UNCHANGED <<media, activeSession>> /\ (active' = id => active = id)
    BY <1>1, <2>1, <2>5, StopDoes
  <2>6. ASSUME NEW t \in Handler, Settle(t)
        PROVE  UNCHANGED <<media, active>> /\ (activeSession' = id => activeSession = id)
    BY <1>1, <2>1, <2>6, SettleDoes
  <2>7. ASSUME NEW a \in AirPlay, AirPlayStops(a)
        PROVE  UNCHANGED <<media, activeSession>> /\ (active' = id => active = id)
    BY <2>1, <2>7 DEF AirPlayStops, Release, ChangeOwner, serverVars, mediaVars
  <2>8. ASSUME \/ \E t \in Handler :
                     \/ Finish(t)
                     \/ \E request \in {"Stop", "Pause", "SetAVTransportURI"} : Halt(t, request)
               \/ \E a \in AirPlay : Record(a)
               \/ \E p \in Proxy : ProxyOpens(p) \/ ProxyEnds(p)
               \/ Attend
               \/ Close
               \/ UNCHANGED vars
        PROVE  media' \subseteq media /\ UNCHANGED <<active, activeSession>>
    BY <2>8 DEF Finish, Halt, Record, ProxyOpens, ProxyEnds, Attend, Tick, Touch, Close, vars,
       serverVars, mediaVars, managerVars
  <2>. QED
    BY <1>1, <2>1, <2>2, <2>3, <2>4, <2>5, <2>6, <2>7, <2>8 DEF Next
<1>2. IInv /\ KInv /\ [Next]_vars =>
         [~closed => \A id \in cancelled :
            /\ id \notin media'
            /\ activeSession' = id => activeSession = id
            /\ active' = id => active = id]_vars
  BY <1>1
<1>. QED
  BY <1>2, RendererInit, RendererNext, KnownInit, KnownNext, PTL DEF Spec, StaysCancelled
=============================================================================
