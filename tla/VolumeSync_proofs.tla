------------------------- MODULE VolumeSync_proofs -------------------------
(***************************************************************************)
(* Proofs about VolumeSync, for any setters, channel capacity and number   *)
(* of restarts: the state is well typed, merging loses no last update, and *)
(* updates are applied in the order they were sent, as Mailbox says.       *)
(***************************************************************************)
EXTENDS VolumeSync, SourceManager_proofs, SequenceTheorems

-----------------------------------------------------------------------------
\* Updates and volumes.

LEMMA ClampedIsVolume == \A v \in Int : Clamp(v) \in Volumes
  BY DEF Clamp, Volumes

LEMMA RestoredIsVolume == \A f : Restored(f) \in Volumes
  BY DEF Restored, Volumes

\* The worker can tell an update from none.
LEMMA UpdateIsSome == \A u \in Update : u # NoUpdate /\ u.volume \in Volumes
<1>. SUFFICES ASSUME NEW u \in Update PROVE u # NoUpdate /\ u.volume \in Volumes
  OBVIOUS
<1>1. u.volume \in Volumes /\ u.volume # NoVolume
  BY VolumeAssumption DEF Update, Volumes
<1>. QED
  BY <1>1 DEF NoUpdate

SetCall == [at : {"store", "save", "send"}, update : Update]

\* The types, with those of the bookkeeping the properties read.
TypeInv ==
    /\ TypeOK
    /\ GenerationNamesOwner
    /\ device \in BOOLEAN
    /\ workerAt # "call" => applying = NoUpdate
    /\ started \subseteq Nat

LEMMA SetCallIsBusy == Idle \notin SetCall
<1>1. \A c \in SetCall : c.at # "idle"
  BY DEF SetCall
<1>. QED
  BY <1>1 DEF Idle

-----------------------------------------------------------------------------
\* Types.

LEMMA TypeInit == Init => TypeInv
<1>. SUFFICES ASSUME Init PROVE TypeInv
  OBVIOUS
<1>1. ManagerTypeOK /\ GenerationNamesOwner
  BY ManagerInitInv DEF Init, ManagerInv
<1>2. volume \in Volumes /\ file \in Int \union {NoVolume}
  BY RestoredIsVolume, VolumeAssumption DEF Init
<1>3. setCall \in [Setter -> {Idle} \union SetCall]
  BY DEF Init
<1>4. updates \in Seq(Update) /\ Len(updates) <= UpdateCap
  BY VolumeBoundsAssumption DEF Init
<1>. QED
  BY <1>1, <1>2, <1>3, <1>4 DEF Init, TypeInv, TypeOK, SetCall

\* What the parts of a step have to do.
VolumeTyped ==
    /\ volume' \in Volumes /\ file' \in Int \union {NoVolume}
    /\ recent' \subseteq Volumes /\ restorable' \subseteq Volumes /\ lost' \in BOOLEAN
WorkerTyped ==
    /\ pending' \in Update \union {NoUpdate}
    /\ timer' \in {"none", "running", "fired", "spent"}
    /\ workerAt' \in {"select", "call", "exited"}
    /\ applying' \in Update \union {NoUpdate}
    /\ workerAt' = "call" <=> applying' # NoUpdate
ChannelTyped == updates' \in Seq(Update) /\ Len(updates') <= UpdateCap

LEMMA PartsTyped ==
  ASSUME TypeInv
  PROVE  /\ UNCHANGED volumeVars => VolumeTyped
         /\ UNCHANGED workerVars => WorkerTyped
         /\ UNCHANGED updates => ChannelTyped
         /\ UNCHANGED managerVars => ManagerTypeOK' /\ GenerationNamesOwner'
         /\ setCall \in [Setter -> {Idle} \union SetCall]
         /\ generation \in Nat /\ active \in SessionOrNone
         /\ volume \in Volumes
<1>1. UNCHANGED managerVars => ManagerTypeOK' /\ GenerationNamesOwner'
  BY ManagerNextInv DEF TypeInv, TypeOK, ManagerInv
<1>. QED
  BY <1>1 DEF TypeInv, TypeOK, volumeVars, fileVars, workerVars, VolumeTyped, WorkerTyped, ChannelTyped,
         SetCall, ManagerTypeOK

\* A step is well typed when its parts are.
LEMMA TypeParts ==
  ASSUME ManagerTypeOK', GenerationNamesOwner', VolumeTyped, WorkerTyped, ChannelTyped,
         setCall' \in [Setter -> {Idle} \union SetCall], syncs' \subseteq Sync,
         speakerVolume' \in Volumes \union {NoVolume}, device' \in BOOLEAN, started' \subseteq Nat
  PROVE  TypeInv'
  BY DEF TypeInv, TypeOK, VolumeTyped, WorkerTyped, ChannelTyped, SetCall

\* The setters.
LEMMA SetterTypes ==
  ASSUME TypeInv, NEW t \in Setter,
         \/ \E s \in Session, v \in Requested : SetVolume(t, s, v)
         \/ Store(t) \/ Save(t) \/ Send(t)
  PROVE  TypeInv'
<1>0. TypeInv /\ syncs \subseteq Sync /\ speakerVolume \in Volumes \union {NoVolume}
      /\ device \in BOOLEAN /\ started \subseteq Nat /\ Volumes \subseteq Int
      /\ updates \in Seq(Update) /\ Len(updates) <= UpdateCap
  BY DEF TypeInv, TypeOK, Volumes
<1>1. ASSUME NEW s \in Session, NEW v \in Requested, SetVolume(t, s, v) PROVE TypeInv'
  <2>1. [at |-> "store", update |-> [session |-> s, generation |-> generation,
                                     volume |-> Clamp(v)]] \in SetCall
    BY ClampedIsVolume, PartsTyped, VolumeAssumption DEF SetCall, Update
  <2>2. setCall' \in [Setter -> {Idle} \union SetCall]
    BY <1>1, <2>1, PartsTyped DEF SetVolume
  <2>. QED
    BY <1>0, <1>1, <2>2, PartsTyped, TypeParts DEF SetVolume, historyVars
<1>2. ASSUME setCall[t] # Idle PROVE setCall[t] \in SetCall /\ setCall[t].update.volume \in Volumes
  BY <1>2, PartsTyped, UpdateIsSome DEF SetCall
<1>3. Idle.at = "idle"
  BY DEF Idle
<1>4. ASSUME NEW place \in {"store", "save", "send"}, setCall[t] # Idle,
             setCall' = [setCall EXCEPT ![t].at = place]
      PROVE  setCall' \in [Setter -> {Idle} \union SetCall]
  <2>1. [setCall[t] EXCEPT !.at = place] \in SetCall
    BY <1>2, <1>4 DEF SetCall
  <2>. QED
    BY <1>4, <2>1, PartsTyped
<1>5. CASE Store(t)
  <2>1. setCall[t] # Idle
    BY <1>3, <1>5 DEF Store
  <2>2. \A u \in {t} \union {w \in Setter : Saving(w)} : setCall[u].update.volume \in Volumes
    BY <1>2, <1>3, <1>5, PartsTyped, UpdateIsSome DEF Store, Saving, SetCall
  <2>3. VolumeTyped
    BY <1>5, <2>2 DEF Store, VolumeTyped, TypeInv, TypeOK
  <2>. QED
    BY <1>0, <1>4, <1>5, <2>1, <2>3, PartsTyped, TypeParts DEF Store, historyVars
<1>6. CASE Save(t)
  <2>1. setCall[t] # Idle
    BY <1>3, <1>6 DEF Save, Saving
  <2>2. VolumeTyped
    BY <1>0, <1>2, <1>6, <2>1 DEF Save, VolumeTyped, TypeInv, TypeOK
  <2>. QED
    BY <1>0, <1>4, <1>6, <2>1, <2>2, PartsTyped, TypeParts DEF Save, historyVars
<1>7. CASE Send(t)
  <2>1. setCall[t].update \in Update
    BY <1>2, <1>3, <1>7 DEF Send, SetCall
  <2>2. ChannelTyped
    BY <1>0, <1>7, <2>1, VolumeBoundsAssumption DEF Send, ChannelTyped
  <2>3. setCall' \in [Setter -> {Idle} \union SetCall]
    BY <1>7, PartsTyped DEF Send
  <2>. QED
    BY <1>0, <1>7, <2>2, <2>3, PartsTyped, TypeParts DEF Send
<1>. QED
  BY <1>1, <1>5, <1>6, <1>7

\* The worker.
LEMMA WorkerTypes ==
  ASSUME TypeInv,
         TakeUpdate \/ TimerExpires \/ ApplyPending \/ WorkerCallReturns \/ WorkerStops
  PROVE  TypeInv'
<1>0. TypeInv /\ syncs \subseteq Sync /\ speakerVolume \in Volumes \union {NoVolume}
      /\ device \in BOOLEAN /\ started \subseteq Nat
      /\ updates \in Seq(Update) /\ Len(updates) <= UpdateCap
      /\ pending \in Update \union {NoUpdate} /\ applying \in Update \union {NoUpdate}
      /\ timer \in {"none", "running", "fired", "spent"}
      /\ workerAt \in {"select", "call", "exited"}
      /\ (workerAt = "call" <=> applying # NoUpdate)
  BY DEF TypeInv, TypeOK
<1>1. CASE TakeUpdate
  <2>1. Head(updates) \in Update /\ ChannelTyped
    BY <1>0, <1>1, VolumeBoundsAssumption DEF TakeUpdate, ChannelTyped
  <2>2. WorkerTyped
    BY <1>0, <1>1, <2>1 DEF TakeUpdate, WorkerTyped
  <2>. QED
    BY <1>0, <1>1, <2>1, <2>2, PartsTyped, TypeParts DEF TakeUpdate, historyVars
<1>2. CASE TimerExpires
  <2>1. WorkerTyped
    BY <1>0, <1>2 DEF TimerExpires, WorkerTyped
  <2>. QED
    BY <1>0, <1>2, <2>1, PartsTyped, TypeParts DEF TimerExpires, historyVars
<1>3. CASE ApplyPending
  <2>1. WorkerTyped
    BY <1>0, <1>3 DEF ApplyPending, WorkerTyped
  <2>. QED
    BY <1>0, <1>3, <2>1, PartsTyped, TypeParts DEF ApplyPending, historyVars
<1>4. CASE WorkerCallReturns
  <2>1. speakerVolume' \in Volumes \union {NoVolume}
    BY <1>0, <1>4, UpdateIsSome DEF WorkerCallReturns, SpeakerAnswers
  <2>2. WorkerTyped
    BY <1>0, <1>4 DEF WorkerCallReturns, WorkerTyped
  <2>. QED
    BY <1>0, <1>4, <2>1, <2>2, PartsTyped, TypeParts DEF WorkerCallReturns
<1>5. CASE WorkerStops
  <2>1. WorkerTyped
    BY <1>0, <1>5 DEF WorkerStops, WorkerTyped
  <2>. QED
    BY <1>0, <1>5, <2>1, PartsTyped, TypeParts DEF WorkerStops, historyVars
<1>. QED
  BY <1>1, <1>2, <1>3, <1>4, <1>5

\* The goroutines started after a play, the arbiter, the end and the restart.
LEMMA OtherTypes ==
  ASSUME TypeInv,
         \/ Arbitrate
         \/ \E g \in 1..generation : PlaySucceeds(g)
         \/ \E y \in syncs : SyncWakes(y) \/ SyncReturns(y)
         \/ Close
         \/ Restart
         \/ UNCHANGED vars
  PROVE  TypeInv'
<1>0. TypeInv /\ syncs \subseteq Sync /\ speakerVolume \in Volumes \union {NoVolume}
      /\ device \in BOOLEAN /\ started \subseteq Nat
      /\ updates \in Seq(Update) /\ Len(updates) <= UpdateCap
      /\ setCall \in [Setter -> {Idle} \union SetCall]
  BY PartsTyped DEF TypeInv, TypeOK
<1>1. CASE Arbitrate
  <2>1. ManagerTypeOK' /\ GenerationNamesOwner'
    BY <1>1, ManagerNextInv DEF Arbitrate, TypeInv, TypeOK, ManagerInv
  <2>. QED
    BY <1>0, <1>1, <2>1, PartsTyped, TypeParts DEF Arbitrate, historyVars
<1>2. ASSUME NEW g \in 1..generation, PlaySucceeds(g) PROVE TypeInv'
  <2>1. OwnerOf(g) \in Session /\ g \in Nat
    <3>1. generation = Len(ownerAt) /\ ownerAt \in Seq(SessionOrNone) /\ generation \in Nat
      BY DEF TypeInv, TypeOK, ManagerTypeOK, GenerationNamesOwner
    <3>2. ownerAt[g] \in SessionOrNone /\ g # 0
      BY <3>1
    <3>. QED
      BY <1>2, <3>1, <3>2 DEF PlaySucceeds, OwnerOf, SessionOrNone
  <2>2. [session |-> OwnerOf(g), generation |-> g, volume |-> volume, at |-> "sleep"] \in Sync
    BY <2>1, PartsTyped DEF Sync
  <2>3. syncs' \subseteq Sync /\ started' \subseteq Nat
    BY <1>0, <1>2, <2>1, <2>2 DEF PlaySucceeds
  <2>. QED
    BY <1>0, <1>2, <2>3, PartsTyped, TypeParts DEF PlaySucceeds
<1>3. ASSUME NEW y \in syncs, SyncWakes(y) PROVE TypeInv'
  <2>1. [y EXCEPT !.at = "call"] \in Sync
    BY <1>0 DEF Sync
  <2>2. syncs' \subseteq Sync
    BY <1>0, <1>3, <2>1 DEF SyncWakes
  <2>. QED
    BY <1>0, <1>3, <2>2, PartsTyped, TypeParts DEF SyncWakes, historyVars
<1>4. ASSUME NEW y \in syncs, SyncReturns(y) PROVE TypeInv'
  <2>1. y.volume \in Volumes
    BY <1>0 DEF Sync
  <2>2. speakerVolume' \in Volumes \union {NoVolume} /\ syncs' \subseteq Sync
    BY <1>0, <1>4, <2>1 DEF SyncReturns, SpeakerAnswers
  <2>. QED
    BY <1>0, <1>4, <2>2, PartsTyped, TypeParts DEF SyncReturns
<1>5. CASE Close
  BY <1>0, <1>5, PartsTyped, TypeParts DEF Close, historyVars
<1>6. CASE Restart
  <2>1. ManagerTypeOK' /\ GenerationNamesOwner'
    BY <1>6, IdleTimeoutAssumption
    DEF Restart, config, ManagerTypeOK, GenerationNamesOwner, OwnerOf, SessionOrNone, TypeInv, TypeOK
  <2>2. VolumeTyped
    BY <1>6, RestoredIsVolume DEF Restart, VolumeTyped, TypeInv, TypeOK
  <2>3. WorkerTyped /\ ChannelTyped
    BY <1>6, VolumeBoundsAssumption DEF Restart, WorkerTyped, ChannelTyped
  <2>4. setCall' \in [Setter -> {Idle} \union SetCall]
    BY <1>6 DEF Restart
  <2>. QED
    BY <1>0, <1>6, <2>1, <2>2, <2>3, <2>4, TypeParts DEF Restart
<1>7. CASE UNCHANGED vars
  BY <1>0, <1>7, PartsTyped, TypeParts DEF vars, historyVars
<1>. QED
  BY <1>1, <1>2, <1>3, <1>4, <1>5, <1>6, <1>7

LEMMA TypeNext ==
  ASSUME TypeInv, [Next]_vars
  PROVE  TypeInv'
  BY SetterTypes, WorkerTypes, OtherTypes DEF Next

\* Volume synchronisation is well typed for any setters and capacity: what is
\* stored, sent and applied is a volume in range, and the channel keeps its bound.
THEOREM SyncTypeCorrect == Spec => []TypeOK
<1>1. TypeInv => TypeOK
  BY DEF TypeInv
<1>. QED
  BY <1>1, TypeInit, TypeNext, PTL DEF Spec

-----------------------------------------------------------------------------
\* The last update.

\* Where the newest update is: in the channel, waiting for the timer, on its way
\* to the speaker, or done with.
Newest ==
    IF updates # <<>> THEN updates[Len(updates)]
    ELSE IF pending # NoUpdate THEN pending
    ELSE IF applying # NoUpdate THEN applying
    ELSE handled

\* The one that was sent last is never lost on that way, and the worker does not
\* go quiet with an update in its hands.
NewestKept ==
    device => /\ lastSent = Newest
              /\ timer \in {"none", "spent"} => pending = NoUpdate

LEMMA NewestInit == Init => NewestKept
  BY DEF Init, NewestKept, Newest

\* Sending puts the update at the end, whatever is in front of it.
LEMMA SendKeepsNewest ==
  ASSUME TypeInv, NewestKept, NEW t \in Setter, Send(t)
  PROVE  NewestKept'
<1>1. updates \in Seq(Update)
  BY DEF TypeInv, TypeOK
<1>2. CASE updates' = Append(updates, setCall[t].update) /\ lastSent' = setCall[t].update
  <2>1. updates' # <<>> /\ updates'[Len(updates')] = lastSent'
    BY <1>1, <1>2
  <2>. QED
    BY <2>1 DEF Send, NewestKept, Newest, workerVars
<1>3. CASE UNCHANGED <<updates, lastSent>>
  BY <1>3 DEF Send, NewestKept, Newest, workerVars
<1>. QED
  BY <1>2, <1>3 DEF Send

LEMMA LongerThanOne ==
  ASSUME NEW S, NEW q \in Seq(S), q # <<>>, Len(q) # 1
  PROVE  Len(q) \in Nat /\ Len(q) > 1
<1>1. Len(q) \in Nat
  OBVIOUS
<1>2. Len(q) # 0
  BY EmptySeq
<1>3. \A n \in Nat : n # 0 /\ n # 1 => n > 1
  OBVIOUS
<1>. QED
  BY <1>1, <1>2, <1>3, Zenon

\* Taking the first update keeps the last one the newest.
LEMMA TakeKeepsNewest ==
  ASSUME TypeInv, NewestKept, TakeUpdate
  PROVE  NewestKept'
<1>1. /\ updates \in Seq(Update) /\ updates # <<>> /\ pending' = Head(updates)
      /\ updates' = Tail(updates) /\ timer' = "running"
      /\ UNCHANGED <<device, lastSent>>
  BY DEF TypeInv, TypeOK, TakeUpdate, historyVars
<1>2. CASE Len(updates) = 1
  <2>1. updates' = <<>> /\ pending' = updates[Len(updates)]
    BY <1>1, <1>2
  <2>2. pending' # NoUpdate
    BY <1>1, UpdateIsSome
  <2>. QED
    BY <1>1, <2>1, <2>2 DEF NewestKept, Newest
<1>3. CASE Len(updates) # 1
  <2>1. Len(updates) \in Nat /\ Len(updates) > 1
    BY <1>1, <1>3, LongerThanOne
  <2>2. Len(updates') = Len(updates) - 1 /\ updates'[Len(updates')] = updates[Len(updates)]
    BY <1>1, <2>1
  <2>3. updates' # <<>>
    BY <2>1, <2>2
  <2>. QED
    BY <1>1, <2>2, <2>3 DEF NewestKept, Newest
<1>. QED
  BY <1>2, <1>3

LEMMA NewestNext ==
  ASSUME TypeInv, NewestKept, [Next]_vars
  PROVE  NewestKept'
<1>1. ASSUME UNCHANGED <<updates, workerVars, device, lastSent, handled>> PROVE NewestKept'
  BY <1>1 DEF workerVars, NewestKept, Newest
<1>2. ASSUME NEW t \in Setter, NEW s \in Session, NEW v \in Requested, SetVolume(t, s, v)
      PROVE  NewestKept'
  BY <1>1, <1>2 DEF SetVolume, historyVars
<1>3. ASSUME NEW t \in Setter, Store(t) \/ Save(t) PROVE NewestKept'
  BY <1>1, <1>3 DEF Store, Save, historyVars
<1>4. CASE Arbitrate \/ Close \/ UNCHANGED vars
  BY <1>1, <1>4 DEF Arbitrate, Close, vars, historyVars
<1>5. ASSUME NEW g, PlaySucceeds(g) PROVE NewestKept'
  BY <1>1, <1>5 DEF PlaySucceeds
<1>6. ASSUME NEW y, SyncWakes(y) \/ SyncReturns(y) PROVE NewestKept'
  BY <1>1, <1>6 DEF SyncWakes, SyncReturns, historyVars
<1>7. CASE TimerExpires
  BY <1>7 DEF TimerExpires, NewestKept, Newest, historyVars
<1>8. CASE ApplyPending
  <2>1. applying = NoUpdate
    BY <1>8 DEF ApplyPending, TypeInv
  <2>. QED
    BY <1>8, <2>1 DEF ApplyPending, NewestKept, Newest
<1>9. CASE WorkerCallReturns
  <2>1. applying # NoUpdate
    BY <1>9 DEF WorkerCallReturns, TypeInv, TypeOK
  <2>. QED
    BY <1>9, <2>1 DEF WorkerCallReturns, NewestKept, Newest
<1>10. CASE WorkerStops
  BY <1>10 DEF WorkerStops, NewestKept, Newest, historyVars
<1>11. CASE Restart
  BY <1>11 DEF Restart, NewestKept, Newest
<1>. QED
  BY <1>2, <1>3, <1>4, <1>5, <1>6, <1>7, <1>8, <1>9, <1>10, <1>11,
     SendKeepsNewest, TakeKeepsNewest
  DEF Next

\* Merging loses no last update, for any channel capacity, any number of setters
\* and whatever the timer is doing when the update arrives.
THEOREM SyncHandlesLastUpdate == Spec => []LastUpdateHandled
<1>1. TypeInv /\ NewestKept => LastUpdateHandled
  BY DEF TypeInv, NewestKept, Newest, LastUpdateHandled, WorkerQuiet
<1>2. Init => TypeInv /\ NewestKept
  BY TypeInit, NewestInit
<1>3. TypeInv /\ NewestKept /\ [Next]_vars => (TypeInv /\ NewestKept)'
  BY TypeNext, NewestNext
<1>. QED
  BY <1>1, <1>2, <1>3, PTL DEF Spec

-----------------------------------------------------------------------------
\* The updates are dealt with in order.

LEMMA ConsOfUpdates ==
  ASSUME NEW u \in Update, NEW q \in Seq(Update)
  PROVE  /\ <<u>> \o q \in Seq(Update) /\ <<u>> \o q # <<>>
         /\ Head(<<u>> \o q) = u /\ Tail(<<u>> \o q) = q
         /\ q # <<>> => Len(<<u>> \o q) > 1
  OBVIOUS

LEMMA HeadAndTail ==
  ASSUME NEW q \in Seq(Update), q # <<>>
  PROVE  Head(q) \in Update /\ Tail(q) \in Seq(Update) /\ <<Head(q)>> \o Tail(q) = q
  OBVIOUS

LEMMA EmptyFirst == ASSUME NEW q \in Seq(Update) PROVE <<>> \o q = q /\ q \o <<>> = q
  OBVIOUS

LEMMA AppendAfter ==
  ASSUME NEW p \in Seq(Update), NEW q \in Seq(Update), NEW u \in Update
  PROVE  p \o Append(q, u) = Append(p \o q, u)
  OBVIOUS

\* What is in front of the channel.
Front ==
    (IF workerAt = "call" THEN <<applying>> ELSE <<>>)
    \o (IF pending # NoUpdate /\ (timer \in {"running", "fired"} \/ ~device)
        THEN <<pending>> ELSE <<>>)

LEMMA FrontIs ==
  ASSUME TypeInv
  PROVE  /\ Unfinished = Front \o updates /\ Front \in Seq(Update) /\ updates \in Seq(Update)
         /\ workerAt # "call" /\ pending = NoUpdate => Front = <<>>
         /\ workerAt # "call" /\ pending # NoUpdate /\ (timer = "fired" \/ ~device) =>
               Front = <<pending>>
         /\ workerAt # "call" /\ pending # NoUpdate /\ timer = "running" => Front = <<pending>>
<1>1. /\ updates \in Seq(Update) /\ pending \in Update \union {NoUpdate}
      /\ workerAt = "call" => applying \in Update
  BY DEF TypeInv, TypeOK
<1>2. \A u \in Update : <<u>> \in Seq(Update) /\ <<>> \o <<u>> = <<u>> /\ <<u>> \o <<>> = <<u>>
  OBVIOUS
<1>3. <<>> \in Seq(Update) /\ <<>> \o <<>> = <<>>
  OBVIOUS
<1>4. \A u, w \in Update : <<u>> \o <<w>> \in Seq(Update)
  OBVIOUS
<1>5. Unfinished = Front \o updates
  BY DEF Unfinished, Front
<1>. QED
  BY <1>1, <1>2, <1>3, <1>4, <1>5 DEF Front

LEMMA SendPuts ==
  ASSUME TypeInv, NEW t \in Setter, Send(t)
  PROVE  Box!Put \/ UNCHANGED <<Unfinished, lastSent, handled>>
<1>1. Front' = Front /\ Unfinished' = Front' \o updates' /\ UNCHANGED handled
  BY DEF Send, workerVars, Front, Unfinished
<1>2. CASE updates' = Append(updates, setCall[t].update) /\ lastSent' = setCall[t].update
  <2>1. setCall[t].update \in Update
    <3>1. Idle.at # "send"
      BY DEF Idle
    <3>. QED
      BY <3>1, PartsTyped DEF Send, SetCall
  <2>2. Unfinished' = Append(Unfinished, lastSent')
    BY <1>1, <1>2, <2>1, FrontIs, AppendAfter
  <2>. QED
    BY <1>1, <2>2 DEF Box!Put
<1>3. CASE UNCHANGED <<updates, lastSent>>
  BY <1>1, <1>3, FrontIs
<1>. QED
  BY <1>2, <1>3 DEF Send

LEMMA TakeSupersedes ==
  ASSUME TypeInv, NewestKept, TakeUpdate
  PROVE  Box!Supersede \/ UNCHANGED <<Unfinished, lastSent, handled>>
<1>1. /\ updates \in Seq(Update) /\ updates # <<>> /\ workerAt = "select"
      /\ pending' = Head(updates) /\ updates' = Tail(updates) /\ timer' = "running"
      /\ UNCHANGED <<workerAt, lastSent, handled>>
  BY DEF TypeInv, TypeOK, TakeUpdate, historyVars
<1>2. Head(updates) \in Update /\ <<Head(updates)>> \o Tail(updates) = updates
  BY <1>1, HeadAndTail
<1>3. Unfinished' = (<<>> \o <<Head(updates)>>) \o Tail(updates)
  BY <1>1, <1>2, UpdateIsSome DEF Unfinished
<1>4. \A u \in Update : <<>> \o <<u>> = <<u>>
  OBVIOUS
<1>5. Unfinished' = updates
  BY <1>2, <1>3, <1>4
<1>6. CASE pending = NoUpdate
  <2>1. Unfinished = updates
    BY <1>1, <1>6, FrontIs, EmptyFirst
  <2>. QED
    BY <1>1, <1>5, <2>1
<1>7. CASE pending # NoUpdate
  <2>1. timer \in {"running", "fired"} \/ ~device
    BY <1>7 DEF NewestKept, TypeInv, TypeOK
  <2>2. Unfinished = <<pending>> \o updates /\ pending \in Update
    BY <1>1, <1>7, <2>1, FrontIs DEF TypeInv, TypeOK
  <2>3. Len(Unfinished) > 1 /\ Tail(Unfinished) = updates
    BY <1>1, <2>2, ConsOfUpdates
  <2>. QED
    BY <1>1, <1>5, <2>3 DEF Box!Supersede
<1>. QED
  BY <1>6, <1>7

LEMMA ApplyTakes ==
  ASSUME TypeInv, ApplyPending
  PROVE  Box!Take \/ UNCHANGED <<Unfinished, lastSent, handled>>
<1>1. /\ updates \in Seq(Update) /\ workerAt = "select" /\ timer = "fired" /\ timer' = "spent"
      /\ pending \in Update \union {NoUpdate} /\ UNCHANGED <<updates, device, lastSent>>
  BY DEF TypeInv, TypeOK, ApplyPending
<1>2. CASE pending = NoUpdate \/ ~device
  <2>1. UNCHANGED <<pending, workerAt, applying, handled>>
    BY <1>2 DEF ApplyPending
  <2>. QED
    BY <1>1, <1>2, <2>1 DEF Unfinished
<1>3. CASE pending # NoUpdate /\ device
  <2>1. Unfinished = <<pending>> \o updates /\ pending \in Update /\ pending' = NoUpdate
    BY <1>1, <1>3, FrontIs DEF ApplyPending
  <2>2. \A u \in Update : <<u>> \o <<>> = <<u>>
    OBVIOUS
  <2>3. CASE workerAt' = "call" /\ applying' = pending /\ UNCHANGED handled
    <3>1. Unfinished' = (<<pending>> \o <<>>) \o updates
      BY <1>1, <2>1, <2>3 DEF Unfinished
    <3>. QED
      BY <1>1, <2>1, <2>2, <2>3, <3>1
  <2>4. CASE handled' = pending /\ UNCHANGED <<workerAt, applying>>
    <3>1. Unfinished' = (<<>> \o <<>>) \o updates
      BY <1>1, <2>1, <2>4 DEF Unfinished
    <3>2. <<>> \in Seq(Update)
      OBVIOUS
    <3>3. Unfinished' = updates
      BY <1>1, <3>1, <3>2, EmptyFirst
    <3>. QED
      BY <1>1, <2>1, <2>4, <3>3, ConsOfUpdates DEF Box!Take
  <2>. QED
    BY <1>3, <2>3, <2>4 DEF ApplyPending
<1>. QED
  BY <1>2, <1>3

LEMMA ReturnTakes ==
  ASSUME TypeInv, WorkerCallReturns
  PROVE  Box!Take
<1>. DEFINE Kept == IF pending # NoUpdate /\ (timer \in {"running", "fired"} \/ ~device)
                    THEN <<pending>> ELSE <<>>
<1>1. /\ updates \in Seq(Update) /\ workerAt = "call" /\ workerAt' = "select"
      /\ applying \in Update /\ handled' = applying
      /\ pending \in Update \union {NoUpdate}
      /\ UNCHANGED <<updates, device, lastSent, pending, timer>>
  BY DEF TypeInv, TypeOK, WorkerCallReturns
<1>2. Unfinished = (<<applying>> \o Kept) \o updates /\ Unfinished' = (<<>> \o Kept) \o updates
  BY <1>1 DEF Unfinished
<1>3. Kept \in Seq(Update)
  BY <1>1
<1>. HIDE DEF Kept
<1>4. /\ (<<applying>> \o Kept) \o updates = <<applying>> \o (Kept \o updates)
      /\ <<>> \o Kept = Kept /\ Kept \o updates \in Seq(Update)
  BY <1>1, <1>3
<1>. QED
  BY <1>1, <1>2, <1>4, ConsOfUpdates DEF Box!Take

\* Channel, merging and timer implement the mailbox: updates are dealt with in the
\* order sent, at most once, and none is dropped but for a later one.
THEOREM SyncHandlesInOrder == Spec => HandledInOrder
<1>1. Init => Box!Init
  <2>. SUFFICES ASSUME Init PROVE Box!Init
    OBVIOUS
  <2>1. Unfinished = (<<>> \o <<>>) \o <<>>
    BY DEF Init, Unfinished
  <2>. QED
    BY <2>1, EmptyFirst DEF Init, Box!Init
<1>2. ASSUME TypeInv, NewestKept, [Next]_vars
      PROVE  [Box!Next]_<<Unfinished, lastSent, handled>>
  <2>1. ASSUME UNCHANGED <<updates, pending, workerAt, applying, device, lastSent, handled>>,
               timer' = timer \/ (timer = "running" /\ timer' = "fired")
        PROVE  UNCHANGED <<Unfinished, lastSent, handled>>
    BY <2>1 DEF Unfinished
  <2>2. ASSUME NEW t \in Setter, NEW s \in Session, NEW v \in Requested, SetVolume(t, s, v)
        PROVE  UNCHANGED <<Unfinished, lastSent, handled>>
    BY <2>1, <2>2 DEF SetVolume, workerVars, historyVars
  <2>3. ASSUME NEW t \in Setter, Store(t) \/ Save(t)
        PROVE  UNCHANGED <<Unfinished, lastSent, handled>>
    BY <2>1, <2>3 DEF Store, Save, workerVars, historyVars
  <2>4. CASE Arbitrate \/ Close \/ TimerExpires \/ UNCHANGED vars
    BY <2>1, <2>4 DEF Arbitrate, Close, TimerExpires, vars, workerVars, historyVars
  <2>5. ASSUME NEW g, PlaySucceeds(g) PROVE UNCHANGED <<Unfinished, lastSent, handled>>
    BY <2>1, <2>5 DEF PlaySucceeds, workerVars
  <2>6. ASSUME NEW y, SyncWakes(y) \/ SyncReturns(y)
        PROVE  UNCHANGED <<Unfinished, lastSent, handled>>
    BY <2>1, <2>6 DEF SyncWakes, SyncReturns, workerVars, historyVars
  <2>7. CASE WorkerStops
    BY <2>7 DEF WorkerStops, Unfinished, historyVars
  <2>8. CASE Restart
    <3>1. Unfinished' = (<<>> \o <<>>) \o <<>>
      BY <2>8 DEF Restart, Unfinished
    <3>. QED
      BY <2>8, <3>1, EmptyFirst DEF Restart, Box!Crash, Box!Next
  <2>. QED
    BY <1>2, <2>2, <2>3, <2>4, <2>5, <2>6, <2>7, <2>8,
       SendPuts, TakeSupersedes, ApplyTakes, ReturnTakes
    DEF Next, Box!Next
<1>3. Init => TypeInv /\ NewestKept
  BY TypeInit, NewestInit
<1>4. TypeInv /\ NewestKept /\ [Next]_vars => (TypeInv /\ NewestKept)'
  BY TypeNext, NewestNext
<1>. QED
  BY <1>1, <1>2, <1>3, <1>4, PTL DEF Spec, HandledInOrder, Box!Spec

-----------------------------------------------------------------------------
\* The saved volume.

\* Whoever has still to save brings a volume no older than the last store, and
\* what a restart brings back is up to date unless somebody has still to save or
\* failed to.
SavesAreRecent ==
    /\ Restored(file) \in restorable
    /\ volume \in recent
    /\ \A t \in Setter : Saving(t) => setCall[t].update.volume \in recent
    /\ ~lost /\ (\A t \in Setter : ~Saving(t)) => restorable = recent

LEMMA SavedInit == Init => SavesAreRecent
<1>1. Idle.at # "save"
  BY DEF Idle
<1>. QED
  BY <1>1 DEF Init, SavesAreRecent, Saving

LEMMA SavedNext ==
  ASSUME TypeInv, SavesAreRecent, [Next]_vars
  PROVE  SavesAreRecent'
<1>0. Idle.at = "idle" /\ setCall \in [Setter -> {Idle} \union SetCall]
  BY PartsTyped DEF Idle
<1>1. ASSUME UNCHANGED <<volumeVars, setCall>> PROVE SavesAreRecent'
  BY <1>1 DEF SavesAreRecent, Saving, volumeVars, fileVars
<1>2. ASSUME NEW t \in Setter, UNCHANGED volumeVars, ~Saving(t),
             NEW c, setCall' = [setCall EXCEPT ![t] = c], c.at # "save"
      PROVE  SavesAreRecent'
  <2>1. \A u \in Setter : Saving(u)' <=> Saving(u)
    BY <1>0, <1>2 DEF Saving
  <2>2. \A u \in Setter : Saving(u) => setCall'[u] = setCall[u]
    BY <1>0, <1>2
  <2>. QED
    BY <1>2, <2>1, <2>2 DEF SavesAreRecent, volumeVars, fileVars
<1>3. ASSUME NEW t \in Setter, NEW s \in Session, NEW v \in Requested, SetVolume(t, s, v)
      PROVE  SavesAreRecent'
  <2> DEFINE c == [at |-> "store", update |-> [session |-> s, generation |-> generation,
                                               volume |-> Clamp(v)]]
  <2>1. c.at = "store"
    OBVIOUS
  <2>2. UNCHANGED setCall \/ setCall' = [setCall EXCEPT ![t] = c]
    BY <1>3 DEF SetVolume
  <2>. HIDE DEF c
  <2>. QED
    BY <1>0, <1>1, <1>2, <1>3, <2>1, <2>2 DEF SetVolume, Saving
<1>4. ASSUME NEW t \in Setter, Store(t) PROVE SavesAreRecent'
  <2>1. /\ setCall[t] \in SetCall
        /\ volume' = setCall[t].update.volume
        /\ setCall' = [setCall EXCEPT ![t] = [setCall[t] EXCEPT !.at = "save"]]
        /\ recent' = {setCall[u].update.volume : u \in {t} \union {w \in Setter : Saving(w)}}
        /\ UNCHANGED <<file, restorable>>
    BY <1>0, <1>4 DEF Store
  <2>2. setCall'[t].at = "save" /\ setCall'[t].update = setCall[t].update
    BY <1>0, <2>1 DEF SetCall
  <2>3. \A u \in Setter \ {t} : setCall'[u] = setCall[u]
    BY <1>0, <2>1
  <2>4. \A u \in Setter : Saving(u)' => setCall'[u].update.volume \in recent'
    BY <2>1, <2>2, <2>3 DEF Saving
  <2>5. volume' \in recent' /\ Saving(t)'
    BY <2>1, <2>2 DEF Saving
  <2>6. Restored(file)' \in restorable'
    BY <2>1 DEF SavesAreRecent, Restored
  <2>. QED
    BY <2>4, <2>5, <2>6 DEF SavesAreRecent
<1>5. ASSUME NEW t \in Setter, Save(t) PROVE SavesAreRecent'
  <2>1. /\ Saving(t) /\ UNCHANGED <<volume, recent>>
        /\ setCall[t] \in SetCall /\ setCall[t].update.volume \in Volumes
    BY <1>0, <1>5, UpdateIsSome DEF Save, Saving, SetCall
  <2>2. ~Saving(t)' /\ \A u \in Setter \ {t} : setCall'[u] = setCall[u]
    BY <1>0, <1>5, <2>1 DEF Save, Saving, SetCall
  <2>3. \A u \in Setter : Saving(u)' => setCall'[u].update.volume \in recent'
    BY <2>1, <2>2 DEF SavesAreRecent, Saving
  <2>4. CASE file' = setCall[t].update.volume /\ restorable' = recent /\ UNCHANGED lost
    BY <2>1, <2>3, <2>4 DEF SavesAreRecent, Restored
  <2>5. CASE lost' = TRUE /\ UNCHANGED <<file, restorable>>
    BY <2>1, <2>3, <2>5 DEF SavesAreRecent, Restored
  <2>. QED
    BY <1>5, <2>4, <2>5 DEF Save
<1>6. ASSUME NEW t \in Setter, Send(t) PROVE SavesAreRecent'
  BY <1>0, <1>2, <1>6 DEF Send, Saving
<1>7. CASE Restart
  BY <1>0, <1>7 DEF Restart, SavesAreRecent, Saving, Restored
<1>8. CASE \/ Arbitrate \/ Close \/ UNCHANGED vars
           \/ TakeUpdate \/ TimerExpires \/ ApplyPending \/ WorkerCallReturns \/ WorkerStops
           \/ \E g \in 1..generation : PlaySucceeds(g)
           \/ \E y \in syncs : SyncWakes(y) \/ SyncReturns(y)
  BY <1>1, <1>8
  DEF Arbitrate, Close, vars, TakeUpdate, TimerExpires, ApplyPending, WorkerCallReturns,
      WorkerStops, PlaySucceeds, SyncWakes, SyncReturns
<1>. QED
  BY <1>3, <1>4, <1>5, <1>6, <1>7, <1>8 DEF Next

\* A restart at any moment brings back a volume no older than the last store that
\* a save has followed, up to the calls that store overtook, and what is stored is
\* saved unless a save fails: for any number of setters that cross, of failed saves
\* and of restarts.
THEOREM SyncRestoresVolume == Spec => []RestartRestoresVolume
<1>1. TypeInv /\ SavesAreRecent => RestartRestoresVolume
  <2>1. Idle.at # "save"
    BY DEF Idle
  <2>. QED
    BY <2>1 DEF SavesAreRecent, Saving, RestartRestoresVolume, SettersIdle
<1>2. Init => TypeInv /\ SavesAreRecent
  BY TypeInit, SavedInit
<1>3. TypeInv /\ SavesAreRecent /\ [Next]_vars => (TypeInv /\ SavesAreRecent)'
  BY TypeNext, SavedNext
<1>. QED
  BY <1>1, <1>2, <1>3, PTL DEF Spec
=============================================================================
