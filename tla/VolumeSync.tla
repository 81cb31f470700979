----------------------------- MODULE VolumeSync -----------------------------
(***************************************************************************)
(* Volume in src/core/playback/coordinator.go: SetVolume stores, saves and *)
(* hands on the value of the owner; volumeWorker merges what arrives       *)
(* within 100 ms and drives the speaker; after each successful play        *)
(* another goroutine sets the speaker to the remembered value half a       *)
(* second later.  The value survives a restart in a file.                  *)
(***************************************************************************)
EXTENDS SourceManager

CONSTANTS
    Setter,      \* the goroutines that call SetVolume
    Requested,   \* the volumes asked for, in range or not
    UpdateCap,   \* capacity of c.volumeUpdates
    MaxSets,     \* bound: the calls of SetVolume in one behaviour
    MaxRestarts, \* bound: the restarts of the daemon
    NoVolume     \* no number: an absent file, a volume nobody has set

ASSUME VolumeAssumption == Requested \subseteq Int /\ NoVolume \notin Int
ASSUME VolumeBoundsAssumption ==
    UpdateCap \in Nat \ {0} /\ MaxSets \in Nat /\ MaxRestarts \in Nat

VARIABLES
    volume,    \* c.currentVolume
    file,      \* what volumePath holds
    setCall,   \* what each setter has still to do in its present call
    updates,   \* c.volumeUpdates, the channel
    pending,   \* the update the worker keeps until its timer expires
    timer,     \* the worker's timer: "none" before the first update
    workerAt,  \* where volumeWorker is
    applying,  \* the update whose PlayerSetVolume is under way
    syncs,     \* the goroutines that set the volume after a play
    device,    \* whether there is a speaker and a device id
    closed,    \* whether c.done is closed
    speakerVolume, \* the volume of the speaker
    sets,      \* bound: calls of SetVolume so far
    restarts,  \* bound: restarts so far
    lastSent,  \* history: the last update put into the channel
    handled,   \* history: the last update the worker applied or refused
    started,   \* history: generations whose play succeeded
    synced,    \* history: generations whose volume was set after the play
    failed,    \* history: some call to the speaker failed
    recent,    \* history: what was stored last, and what the calls it overtook will save
    restorable,\* history: recent at the last save that succeeded
    lost       \* history: a save since the last store failed

fileVars == <<file, recent, restorable, lost>>
volumeVars == <<volume, fileVars>>
workerVars == <<pending, timer, workerAt, applying>>
historyVars == <<lastSent, handled, started, synced, failed>>
vars == <<managerVars, volumeVars, setCall, updates, workerVars, syncs, device, closed,
          speakerVolume, sets, restarts, historyVars>>

Volumes == 0..100

\* Variant: no upper limit.
ClampBelow(v) == IF v < 0 THEN 0 ELSE v

Clamp(v) == IF v < 0 THEN 0 ELSE IF v > 100 THEN 100 ELSE v

Update == [session : Session, generation : Nat, volume : Volumes]
NoUpdate == [volume |-> NoVolume]
Idle == [at |-> "idle"]
Sync == [session : Session, generation : Nat, volume : Volumes, at : {"sleep", "call"}]

TypeOK ==
    /\ ManagerTypeOK
    /\ volume \in Volumes
    /\ file \in Int \union {NoVolume}
    /\ setCall \in [Setter -> {Idle} \union [at : {"store", "save", "send"}, update : Update]]
    /\ updates \in Seq(Update) /\ Len(updates) <= UpdateCap
    /\ pending \in Update \union {NoUpdate}
    /\ timer \in {"none", "running", "fired", "spent"}
    /\ workerAt \in {"select", "call", "exited"}
    /\ applying \in Update \union {NoUpdate}
    /\ workerAt = "call" => applying # NoUpdate
    /\ recent \subseteq Volumes /\ restorable \subseteq Volumes /\ lost \in BOOLEAN
    /\ syncs \subseteq Sync
    /\ speakerVolume \in Volumes \union {NoVolume}

\* Variant: full volume is taken for an invalid value.
RestoredBelow100(f) == IF f \in 0..99 THEN f ELSE 50

\* NewCoordinator: the saved volume if it is one, else 50.
Restored(f) == IF f \in Volumes THEN f ELSE 50

Init ==
    /\ ManagerInit
    /\ file \in Requested \union {NoVolume}
    /\ device \in BOOLEAN
    /\ speakerVolume = NoVolume
    /\ sets = 0
    /\ restarts = 0
    /\ volume = Restored(file)
    /\ setCall = [t \in Setter |-> Idle]
    /\ updates = <<>>
    /\ pending = NoUpdate /\ timer = "none" /\ workerAt = "select" /\ applying = NoUpdate
    /\ syncs = {}
    /\ closed = FALSE
    /\ lastSent = NoUpdate /\ handled = NoUpdate
    /\ started = {} /\ synced = {} /\ failed = FALSE
    /\ recent = {volume} /\ restorable = {volume} /\ lost = FALSE

-----------------------------------------------------------------------------
\* Ownership, as far as volume depends on it.

Arbitrate ==
    /\ ManagerNext
    /\ UNCHANGED <<volumeVars, setCall, updates, workerVars, syncs, device, closed,
                   speakerVolume, sets, restarts, historyVars>>

-----------------------------------------------------------------------------
\* SetVolume.

\* The snapshot: refused at once unless the session is the owner.
SetVolume(t, s, v) ==
    /\ setCall[t] = Idle
    /\ sets < MaxSets
    /\ sets' = sets + 1
    /\ setCall' = IF active = s
                  THEN [setCall EXCEPT ![t] =
                          [at |-> "store",
                           update |-> [session |-> s, generation |-> generation,
                                       volume |-> Clamp(v)]]]
                  ELSE setCall
    /\ UNCHANGED <<managerVars, volumeVars, updates, workerVars, syncs, device,
                   closed, speakerVolume, restarts, historyVars>>

Saving(t) == setCall[t].at = "save"

\* c.currentVolume = volume, under its own lock.
Store(t) ==
    /\ setCall[t].at = "store"
    /\ volume' = setCall[t].update.volume
    /\ setCall' = [setCall EXCEPT ![t].at = "save"]
    /\ recent' = {setCall[u].update.volume : u \in {t} \union {w \in Setter : Saving(w)}}
    /\ lost' = FALSE
    /\ UNCHANGED <<managerVars, file, restorable, updates, workerVars, syncs, device, closed,
                   speakerVolume, sets, restarts, historyVars>>

\* saveVolume: a rename replaces the file as a whole, or an early return leaves it.
Save(t) ==
    /\ Saving(t)
    /\ \/ file' = setCall[t].update.volume /\ restorable' = recent /\ UNCHANGED lost
       \/ lost' = TRUE /\ UNCHANGED <<file, restorable>>
    /\ setCall' = [setCall EXCEPT ![t].at = "send"]
    /\ UNCHANGED <<managerVars, volume, recent, updates, workerVars, syncs, device, closed,
                   speakerVolume, sets, restarts, historyVars>>

\* Variant: the send does not watch c.done.
SendWaits(t) ==
    /\ setCall[t].at = "send"
    /\ Len(updates) < UpdateCap
    /\ updates' = Append(updates, setCall[t].update)
    /\ lastSent' = setCall[t].update
    /\ setCall' = [setCall EXCEPT ![t] = Idle]
    /\ UNCHANGED <<managerVars, volumeVars, workerVars, syncs, device, closed,
                   speakerVolume, sets, restarts, handled, started, synced, failed>>

\* Into the channel, waiting for room, or given up because it closes.
Send(t) ==
    /\ setCall[t].at = "send"
    /\ \/ /\ Len(updates) < UpdateCap
          /\ updates' = Append(updates, setCall[t].update)
          /\ lastSent' = setCall[t].update
       \/ closed /\ UNCHANGED <<updates, lastSent>>
    /\ setCall' = [setCall EXCEPT ![t] = Idle]
    /\ UNCHANGED <<managerVars, volumeVars, workerVars, syncs, device, closed,
                   speakerVolume, sets, restarts, handled, started, synced, failed>>

-----------------------------------------------------------------------------
\* volumeWorker.

\* Variant: the timer is made once and not reset.
TakeUpdateNoReset ==
    /\ workerAt = "select"
    /\ updates # <<>>
    /\ pending' = Head(updates)
    /\ updates' = Tail(updates)
    /\ timer' = IF timer = "none" THEN "running" ELSE timer
    /\ UNCHANGED <<managerVars, volumeVars, setCall, workerAt, applying, syncs,
                   device, closed, speakerVolume, sets, restarts, historyVars>>

\* A new update replaces the pending one and starts the timer afresh, whether
\* it is running, has expired unread, or was read long ago.
TakeUpdate ==
    /\ workerAt = "select"
    /\ updates # <<>>
    /\ pending' = Head(updates)
    /\ updates' = Tail(updates)
    /\ timer' = "running"
    /\ UNCHANGED <<managerVars, volumeVars, setCall, workerAt, applying, syncs,
                   device, closed, speakerVolume, sets, restarts, historyVars>>

TimerExpires ==
    /\ timer = "running"
    /\ timer' = "fired"
    /\ UNCHANGED <<managerVars, volumeVars, setCall, updates, pending, workerAt, applying,
                   syncs, device, closed, speakerVolume, sets, restarts, historyVars>>

\* applyPending, up to the call of the speaker.
ApplyPending ==
    /\ workerAt = "select"
    /\ timer = "fired"
    /\ timer' = "spent"
    /\ IF pending = NoUpdate \/ ~device
       THEN UNCHANGED <<pending, workerAt, applying, handled>>
       ELSE /\ pending' = NoUpdate
            /\ IF IsOwner(pending.session, pending.generation)
               THEN workerAt' = "call" /\ applying' = pending /\ UNCHANGED handled
               ELSE handled' = pending /\ UNCHANGED <<workerAt, applying>>
    /\ UNCHANGED <<managerVars, volumeVars, setCall, updates, syncs, device, closed,
                   speakerVolume, sets, restarts, lastSent, started, synced, failed>>

\* PlayerSetVolume answers; an error may come with or without effect.
SpeakerAnswers(v) ==
    \/ speakerVolume' = v /\ UNCHANGED failed
    \/ failed' = TRUE /\ (speakerVolume' = v \/ UNCHANGED speakerVolume)

WorkerCallReturns ==
    /\ workerAt = "call"
    /\ SpeakerAnswers(applying.volume)
    /\ handled' = applying
    /\ workerAt' = "select"
    /\ applying' = NoUpdate
    /\ UNCHANGED <<managerVars, volumeVars, setCall, updates, pending, timer, syncs,
                   device, closed, sets, restarts, lastSent, started, synced>>

WorkerStops ==
    /\ workerAt = "select"
    /\ closed
    /\ workerAt' = "exited"
    /\ UNCHANGED <<managerVars, volumeVars, setCall, updates, pending, timer, applying,
                   syncs, device, closed, speakerVolume, sets, restarts, historyVars>>

-----------------------------------------------------------------------------
\* The goroutine handleCommand starts when a play command succeeded.

\* It takes the remembered volume with it.  The play may succeed after its
\* session has lost the speaker.
PlaySucceeds(g) ==
    /\ device
    /\ g \notin started
    /\ OwnerOf(g) # NoSession
    /\ syncs' = syncs \union {[session |-> OwnerOf(g), generation |-> g,
                               volume |-> volume, at |-> "sleep"]}
    /\ started' = started \union {g}
    /\ UNCHANGED <<managerVars, volumeVars, setCall, updates, workerVars, device, closed,
                   speakerVolume, sets, restarts, lastSent, handled, synced, failed>>

\* The end of its sleep: only for the owner does it call the speaker.
SyncWakes(y) ==
    /\ y.at = "sleep"
    /\ syncs' = (syncs \ {y}) \union
                IF IsOwner(y.session, y.generation) THEN {[y EXCEPT !.at = "call"]} ELSE {}
    /\ UNCHANGED <<managerVars, volumeVars, setCall, updates, workerVars, device, closed,
                   speakerVolume, sets, restarts, historyVars>>

SyncReturns(y) ==
    /\ y.at = "call"
    /\ SpeakerAnswers(y.volume)
    /\ syncs' = syncs \ {y}
    /\ synced' = synced \union {y.generation}
    /\ UNCHANGED <<managerVars, volumeVars, setCall, updates, workerVars, device, closed,
                   sets, restarts, lastSent, handled, started>>

-----------------------------------------------------------------------------

Close ==
    /\ ~closed
    /\ closed' = TRUE
    /\ UNCHANGED <<managerVars, volumeVars, setCall, updates, workerVars, syncs, device,
                   speakerVolume, sets, restarts, historyVars>>

\* The process ends, at any moment, and procd starts it again.
Restart ==
    /\ restarts < MaxRestarts
    /\ restarts' = restarts + 1
    /\ UNCHANGED <<config, file, device, speakerVolume, sets>>
    /\ generation' = 0 /\ active' = NoSession /\ idleFor' = 0 /\ ownerAt' = <<>>
    /\ volume' = Restored(file)
    /\ setCall' = [t \in Setter |-> Idle]
    /\ updates' = <<>>
    /\ pending' = NoUpdate /\ timer' = "none" /\ workerAt' = "select" /\ applying' = NoUpdate
    /\ syncs' = {}
    /\ closed' = FALSE
    /\ lastSent' = NoUpdate /\ handled' = NoUpdate
    /\ started' = {} /\ synced' = {} /\ failed' = FALSE
    /\ recent' = {volume'} /\ restorable' = {volume'} /\ lost' = FALSE

Next ==
    \/ Arbitrate
    \/ \E t \in Setter :
          \/ \E s \in Session, v \in Requested : SetVolume(t, s, v)
          \/ Store(t) \/ Save(t) \/ Send(t)
    \/ TakeUpdate \/ TimerExpires \/ ApplyPending \/ WorkerCallReturns \/ WorkerStops
    \/ \E g \in 1..generation : PlaySucceeds(g)
    \/ \E y \in syncs : SyncWakes(y) \/ SyncReturns(y)
    \/ Close
    \/ Restart

Spec == Init /\ [][Next]_vars

\* Goroutines and timers run, calls to the speaker return, and senders are
\* woken in FIFO order.
Fairness ==
    /\ \A t \in Setter : WF_vars(Store(t) \/ Save(t)) /\ SF_vars(Send(t))
    /\ WF_vars(TakeUpdate) /\ WF_vars(TimerExpires)
    /\ WF_vars(ApplyPending) /\ WF_vars(WorkerCallReturns)

FairSpec == Spec /\ Fairness

-----------------------------------------------------------------------------

\* The worker is waiting for a new update and nothing will wake it otherwise.
WorkerQuiet ==
    /\ updates = <<>>
    /\ workerAt = "select"
    /\ timer \in {"none", "spent"}

\* Merging never loses the last update: when the worker has gone quiet, the last
\* one sent is the last one it applied or refused, whatever the timer was doing
\* when it arrived (the Stop, drain and Reset in volumeWorker).
LastUpdateHandled == WorkerQuiet /\ device => handled = lastSent

\* The updates the worker has still to deal with: the one with the speaker, the
\* one kept while a timer runs for it or for want of a speaker, those in the channel.
Unfinished ==
    (IF workerAt = "call" THEN <<applying>> ELSE <<>>)
    \o (IF pending # NoUpdate /\ (timer \in {"running", "fired"} \/ ~device)
        THEN <<pending>> ELSE <<>>)
    \o updates

\* Updates reach the speaker, or are refused, in the order they were sent and at
\* most once, and one is dropped only for a later one: channel, merging and timer
\* never reorder them, repeat one or lose the last, until a restart.
Box == INSTANCE Mailbox WITH
          None <- NoUpdate, waiting <- Unfinished, lastPut <- lastSent, lastTaken <- handled
HandledInOrder == Box!Spec

\* Once the user stops, the last update does reach the speaker, or is refused
\* because its session lost it.
UpdatesSettle == device => <>[](handled = lastSent) \/ <>closed

\* SetVolume returns, even with the channel full and the speaker slow.
SettersReturn == \A t \in Setter : setCall[t] # Idle ~> setCall[t] = Idle

\* No SetVolume is half done.
SettersIdle == \A t \in Setter : setCall[t] = Idle

\* A restart at any moment, between the store and the save of a SetVolume too,
\* brings back what the last store had left that a successful save has followed, or
\* what a call that store overtook had stored; no save is half visible, and a failed
\* one takes nothing back.  What is stored gets saved: with no SetVolume half done
\* and no save failed since the last store, that store is what comes back, or
\* what it overtook.
RestartRestoresVolume ==
    /\ Restored(file) \in restorable
    /\ SettersIdle /\ ~lost => volume \in restorable

\* When nothing is in progress, and no call failed, the speaker whose volume was
\* set after its play has the volume the daemon remembers and reports.
SpeakerHasRememberedVolume ==
    /\ SettersIdle /\ WorkerQuiet /\ syncs = {}
    /\ device /\ ~closed /\ ~failed
    /\ active # NoSession /\ generation \in synced
    => speakerVolume = volume
=============================================================================
