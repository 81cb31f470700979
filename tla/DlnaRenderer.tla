---------------------------- MODULE DlnaRenderer ----------------------------
(***************************************************************************)
(* The MediaRenderer of src/core/dlna: SOAP requests run concurrently, and *)
(* each handler is a chain of critical sections with calls of the arbiter  *)
(* in between.  A Play makes a media session, asks for the speaker and     *)
(* only then becomes the active session; Stop, Pause and a new URI look up *)
(* the active session, cancel it and then set the transport state.  An     *)
(* AirPlay session may take the speaker meanwhile and cancel a media       *)
(* session from its own goroutine.  The speaker fetches its stream from the *)
(* media proxy, which reports activity as it copies.                       *)
(***************************************************************************)
EXTENDS SourceManager, FiniteSets

CONSTANTS
    Handler,   \* the goroutines that run SOAP requests
    Proxy,     \* the goroutines that serve /media/
    Media,     \* the ids nextID gives to media sessions, in any order
    Crowds     \* how many SOAP requests control points may have in hand at once

ASSUME MediaAssumption == Media \subseteq Session /\ Handler \intersect Session = {}

AirPlay == Session \ Media
Thread == Handler \union AirPlay

VARIABLES
    atOnce,          \* environment: the most SOAP requests in hand at once
    hasURI,          \* currentURI # ""
    used,            \* the ids nextID has given out
    media,           \* s.media
    cancelled,       \* the media sessions whose context is cancelled
    proxy,           \* the media session each proxy is streaming, if any
    activeSession,   \* s.activeSession
    transportState,  \* s.transportState
    closed,          \* closeOnce is done
    call             \* where each goroutine is in its request

mediaVars == <<media, cancelled>>
serverVars == <<hasURI, used, mediaVars, activeSession, transportState, closed>>
vars == <<managerVars, atOnce, serverVars, call, proxy>>

Requests == {"Play", "Stop", "Pause", "SetAVTransportURI", "RECORD"}

\* A request in progress: the session it starts, whether that was granted, the
\* media session to cancel, whether to notify, and where to go on after it.
Call == [at : {"acquire", "cancel", "stop", "settle", "finish"}, request : Requests,
         id : SessionOrNone, granted : BOOLEAN,
         target : SessionOrNone, notify : BOOLEAN, then : {"settle", "finish", "idle"}]
NoCall == [at |-> "idle"]

TypeOK ==
    /\ ManagerTypeOK
    /\ atOnce \in Crowds
    /\ hasURI \in BOOLEAN /\ closed \in BOOLEAN
    /\ used \subseteq Media
    /\ media \subseteq used \ cancelled
    /\ cancelled \subseteq used
    /\ proxy \in [Proxy -> used \union {NoSession}]
    /\ activeSession \in Media \union {NoSession}
    /\ transportState \in {"NO_MEDIA_PRESENT", "STOPPED", "PLAYING", "PAUSED_PLAYBACK"}
    /\ call \in [Thread -> Call \union {NoCall}]

Init ==
    /\ ManagerInit
    /\ atOnce \in Crowds
    /\ hasURI = FALSE
    /\ used = {}
    /\ media = {}
    /\ cancelled = {}
    /\ proxy = [p \in Proxy |-> NoSession]
    /\ activeSession = NoSession
    /\ transportState = "NO_MEDIA_PRESENT"
    /\ closed = FALSE
    /\ call = [t \in Thread |-> NoCall]

Goes(t, place) == call' = [call EXCEPT ![t] = IF place = "idle" THEN NoCall
                                              ELSE [@ EXCEPT !.at = place]]

\* A SOAP request may arrive at t.
Arrives(t) ==
    /\ call[t] = NoCall
    /\ Cardinality({h \in Handler : call[h] # NoCall}) < atOnce

-----------------------------------------------------------------------------

\* Variant: nextID is not counted on.
PlayReusesId(t) ==
    /\ Arrives(t)
    /\ hasURI
    /\ \E id \in Media \ used :
          /\ media' = media \union {id}
          /\ call' = [call EXCEPT ![t] =
                        [at |-> "acquire", request |-> "Play", id |-> id, granted |-> FALSE,
                         target |-> NoSession, notify |-> TRUE, then |-> "settle"]]
    /\ UNCHANGED <<managerVars, atOnce, cancelled, proxy, hasURI, used, activeSession, transportState, closed>>

\* Play: 701 without a URI; otherwise a new media session, before the arbiter
\* is asked.
Play(t) ==
    /\ Arrives(t)
    /\ hasURI
    /\ \E id \in Media \ used :
          /\ used' = used \union {id}
          /\ media' = media \union {id}
          /\ call' = [call EXCEPT ![t] =
                        [at |-> "acquire", request |-> "Play", id |-> id, granted |-> FALSE,
                         target |-> NoSession, notify |-> TRUE, then |-> "settle"]]
    /\ UNCHANGED <<managerVars, atOnce, cancelled, proxy, hasURI, activeSession, transportState, closed>>

\* An AirPlay session that is not the owner asks for the speaker.
Record(a) ==
    /\ call[a] = NoCall
    /\ active # a
    /\ call' = [call EXCEPT ![a] =
                  [at |-> "acquire", request |-> "RECORD", id |-> a, granted |-> FALSE,
                   target |-> NoSession, notify |-> TRUE, then |-> "idle"]]
    /\ UNCHANGED <<managerVars, atOnce, serverVars, proxy>>

\* OnSessionStart: the arbiter decides, and the session it replaces is to be
\* cancelled by this goroutine.  (An AirPlay session closes without a trace here.)
Acquire(t) ==
    /\ call[t].at = "acquire"
    /\ \/ /\ AcquireNew(call[t].id)
          /\ call' = [call EXCEPT ![t] =
               IF active \in Media
               THEN [@ EXCEPT !.at = "cancel", !.granted = TRUE, !.target = active]
               ELSE IF @.then = "idle" THEN NoCall
                    ELSE [@ EXCEPT !.at = "settle", !.granted = TRUE]]
       \/ Reject(call[t].id) /\ Goes(t, call[t].then)
    /\ UNCHANGED <<atOnce, serverVars, proxy>>

\* Variant: OnSessionStop is never called.
CancelMediaSilently(t) ==
    LET r == call[t]
        wasActive == activeSession = r.target IN
    /\ r.at = "cancel"
    /\ media' = media \ {r.target}
    /\ cancelled' = cancelled \union ({r.target} \intersect media)
    /\ IF wasActive
       THEN activeSession' = NoSession /\ transportState' = "STOPPED"
       ELSE UNCHANGED <<activeSession, transportState>>
    /\ Goes(t, r.then)
    /\ UNCHANGED <<managerVars, atOnce, proxy, hasURI, used, closed>>

\* Variant: the media session is forgotten with its context still valid.
CancelMediaForgets(t) ==
    LET r == call[t]
        wasActive == activeSession = r.target IN
    /\ r.at = "cancel"
    /\ media' = media \ {r.target}
    /\ IF wasActive
       THEN activeSession' = NoSession /\ transportState' = "STOPPED"
       ELSE UNCHANGED <<activeSession, transportState>>
    /\ Goes(t, IF wasActive /\ r.notify THEN "stop" ELSE r.then)
    /\ UNCHANGED <<managerVars, atOnce, proxy, cancelled, hasURI, used, closed>>

\* cancelMedia under its lock: the media session goes with its context, and if
\* it was the active one the renderer stops.
CancelMedia(t) ==
    LET r == call[t]
        wasActive == activeSession = r.target IN
    /\ r.at = "cancel"
    /\ media' = media \ {r.target}
    /\ cancelled' = cancelled \union ({r.target} \intersect media)
    /\ IF wasActive
       THEN activeSession' = NoSession /\ transportState' = "STOPPED"
       ELSE UNCHANGED <<activeSession, transportState>>
    /\ Goes(t, IF wasActive /\ r.notify THEN "stop" ELSE r.then)
    /\ UNCHANGED <<managerVars, atOnce, proxy, hasURI, used, closed>>

\* OnSessionStop after the lock: released if it still is the owner.
SessionStop(t) ==
    /\ call[t].at = "stop"
    /\ \/ Release(call[t].target)
       \/ active # call[t].target /\ UNCHANGED managerVars
    /\ Goes(t, call[t].then)
    /\ UNCHANGED <<atOnce, serverVars, proxy>>

\* Variant: Play does not look whether its media session was cancelled.
SettleIfGranted(t) ==
    LET r == call[t] IN
    /\ r.at = "settle"
    /\ IF r.granted
       THEN /\ activeSession' = r.id
            /\ transportState' = "PLAYING"
            /\ Goes(t, "idle")
       ELSE /\ call' = [call EXCEPT ![t] = [@ EXCEPT !.at = "cancel", !.target = r.id,
                                                     !.notify = FALSE, !.then = "idle"]]
            /\ UNCHANGED <<activeSession, transportState>>
    /\ UNCHANGED <<managerVars, atOnce, hasURI, used, mediaVars, proxy, closed>>

\* Variant: a Play that is refused leaves its media session.
SettleForgets(t) ==
    LET r == call[t] IN
    /\ r.at = "settle"
    /\ IF r.granted /\ r.id \in media
       THEN activeSession' = r.id /\ transportState' = "PLAYING"
       ELSE UNCHANGED <<activeSession, transportState>>
    /\ Goes(t, "idle")
    /\ UNCHANGED <<managerVars, atOnce, hasURI, used, mediaVars, proxy, closed>>

\* The second half of Play: active and PLAYING if granted and not cancelled in
\* the meantime, else the media session is taken back and the answer is 705.
Settle(t) ==
    LET r == call[t] IN
    /\ r.at = "settle"
    /\ IF r.granted /\ r.id \in media
       THEN /\ activeSession' = r.id
            /\ transportState' = "PLAYING"
            /\ Goes(t, "idle")
       ELSE /\ call' = [call EXCEPT ![t] = [@ EXCEPT !.at = "cancel", !.target = r.id,
                                                     !.notify = FALSE, !.then = "idle"]]
            /\ UNCHANGED <<activeSession, transportState>>
    /\ UNCHANGED <<managerVars, atOnce, hasURI, used, mediaVars, proxy, closed>>

\* Stop, Pause and SetAVTransportURI: the active session is read ...
Halt(t, request) ==
    /\ Arrives(t)
    /\ call' = [call EXCEPT ![t] =
                  [at |-> IF activeSession = NoSession THEN "finish" ELSE "cancel",
                   request |-> request, id |-> NoSession, granted |-> FALSE,
                   target |-> activeSession, notify |-> TRUE, then |-> "finish"]]
    /\ UNCHANGED <<managerVars, atOnce, serverVars, proxy>>

\* ... cancelled, and then the transport state is set.
Finish(t) ==
    /\ call[t].at = "finish"
    /\ transportState' = IF call[t].request = "Pause" THEN "PAUSED_PLAYBACK" ELSE "STOPPED"
    /\ hasURI' = (hasURI \/ call[t].request = "SetAVTransportURI")
    /\ Goes(t, "idle")
    /\ UNCHANGED <<managerVars, atOnce, used, mediaVars, proxy, activeSession, closed>>

\* The AirPlay session ends or pauses.
AirPlayStops(a) ==
    /\ call[a] = NoCall
    /\ Release(a)
    /\ UNCHANGED <<atOnce, serverVars, call, proxy>>

\* The speaker asks for a stream; the media session must be in the table.  It is
\* looked up once: the proxy then depends on the context alone.
ProxyOpens(p) ==
    /\ proxy[p] = NoSession
    /\ \E id \in media : proxy' = [proxy EXCEPT ![p] = id]
    /\ UNCHANGED <<managerVars, atOnce, serverVars, call>>

\* The copying ends: the context is cancelled, the stream is over or fails, or
\* the speaker has gone.
ProxyEnds(p) ==
    /\ proxy[p] # NoSession
    /\ proxy' = [proxy EXCEPT ![p] = NoSession]
    /\ UNCHANGED <<managerVars, atOnce, serverVars, call>>

\* What the proxy and the AirPlay sessions report while they stream, and the
\* passing of time, reach only the arbiter.
Attend ==
    /\ Tick \/ \E s \in Session : Touch(s)
    /\ UNCHANGED <<atOnce, serverVars, call, proxy>>

Close ==
    /\ ~closed
    /\ closed' = TRUE
    /\ cancelled' = cancelled \union media
    /\ media' = {}
    /\ UNCHANGED <<managerVars, atOnce, hasURI, used, activeSession, transportState, call, proxy>>

Next ==
    \/ \E t \in Handler :
          \/ Play(t) \/ Settle(t) \/ Finish(t)
          \/ \E request \in {"Stop", "Pause", "SetAVTransportURI"} : Halt(t, request)
    \/ \E a \in AirPlay : Record(a) \/ AirPlayStops(a)
    \/ \E t \in Thread : Acquire(t) \/ CancelMedia(t) \/ SessionStop(t)
    \/ \E p \in Proxy : ProxyOpens(p) \/ ProxyEnds(p)
    \/ Attend
    \/ Close

Spec == Init /\ [][Next]_vars

-----------------------------------------------------------------------------

\* A renderer that says it is playing has an active session that its media
\* proxy serves, whatever was cancelled while Play waited for the arbiter.
PlayingHasMedia ==
    /\ transportState = "PLAYING" => activeSession # NoSession
    /\ activeSession \in media \union {NoSession} \/ closed

AtRest == \A t \in Thread : call[t] = NoCall

\* An AirPlay session has taken the speaker from a media session.
PreemptedByAirPlay ==
    \E i \in 1..(Len(ownerAt) - 1) : ownerAt[i] \in Media /\ ownerAt[i + 1] \in AirPlay

\* Never three sessions cross: two by SOAP requests, or one of them and AirPlay.
Orderly == atOnce = 1 \/ (atOnce = 2 /\ ~PreemptedByAirPlay)

\* When no request is in progress, the renderer and the arbiter agree on which
\* media session has the speaker: Stop cancels this one and no other.  So it is
\* for two SOAP requests that cross each other, and for preemption by AirPlay at
\* any point of one SOAP request after another.
RendererKnowsOwner ==
    AtRest /\ ~closed /\ Orderly =>
        activeSession = IF active \in Media THEN active ELSE NoSession

\* The session that was granted the speaker and answered 200 is the active one,
\* also when SOAP requests cross each other and a preemption by AirPlay.
OwnerIsActive ==
    AtRest /\ ~closed /\ active \in Media => activeSession = active

\* A rejected, preempted or stopped session leaves nothing in the media table,
\* however many requests crossed.
NoMediaLeaks == AtRest => media \subseteq {active}

\* What is streamed to the speaker is the owner's media: the proxy of a session
\* that was preempted, stopped or rejected has its context cancelled and ends,
\* though its media session is long out of the table.
ProxyServesOwner ==
    AtRest => \A p \in Proxy : proxy[p] \in {active, NoSession} \union cancelled
=============================================================================
