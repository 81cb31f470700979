---------------------- MODULE RenderingControl_proofs ----------------------
(***************************************************************************)
(* Proofs about RenderingControl, for any handlers, sessions, policies and *)
(* volumes: the arbiter below it is undisturbed, and the file follows what *)
(* is stored although calls of SetVolume cross and saves fail.  And about  *)
(* VolumeCurve, the scale in which an AirPlay phone sends them: for every  *)
(* volume the two curves are inverse to each other up to one step, and for *)
(* every integer a higher slider is not quieter.                           *)
(***************************************************************************)
EXTENDS RenderingControl, SourceManager_proofs

\* The scale of AirPlay volumes.

\* Of two positions of the slider the higher one is not quieter, for all integers:
\* across mute, the knee of mapAirPlayLoudness and both ends.
THEOREM HigherIsLouder ==
  \A x, y \in Int : x <= y => Parsed(x) <= Parsed(y)
  BY DEF MapLoudness, Round, Parsed, Mute

\* Whatever a phone sends is a volume.
LEMMA ParsedInRange ==
  ASSUME NEW db \in Int
  PROVE  Parsed(db) \in 0..100
  BY DEF MapLoudness, Round, Parsed, Mute

LEMMA PercentInRange ==
  ASSUME NEW v \in 0..100
  PROVE  SliderPercent(v) \in 0..100 /\ Reported(v) \in Int
  BY DEF SliderPercent, Round, Reported, Mute

\* What a phone is told and sends back is the volume through both curves.
LEMMA TouchedCurves ==
  ASSUME NEW v \in 0..100
  PROVE  Touched(v) = MapLoudness(SliderPercent(v))
<1>. DEFINE p == SliderPercent(v)
<1>1. p \in 0..100
  BY PercentInRange
<1>. HIDE DEF p
<1>2. CASE p <= 0
  BY <1>1, <1>2 DEF p, Touched, Reported, Parsed, Mute, MapLoudness
<1>3. CASE p > 0
  <2>1. Reported(v) = p * 30 - 3000
    BY <1>1, <1>3 DEF p, Reported
  <2>2. Reported(v) > Mute /\ Reported(v) >= -3000 /\ Reported(v) <= 0
    BY <1>1, <1>3, <2>1 DEF Mute
  <2>3. Touched(v) = MapLoudness(Round((Reported(v) + 3000) * 100, 3000))
    BY <1>1, <2>1, <2>2 DEF Touched, Parsed, Mute
  <2>4. Round((Reported(v) + 3000) * 100, 3000) = p
    BY <1>1, <2>1 DEF Round
  <2>. QED
    BY <2>3, <2>4 DEF p
<1>. QED
  BY <1>1, <1>2, <1>3

\* The curves of GET_PARAMETER and SET_PARAMETER are inverses up to one step, which
\* is lost once; only zero is shown as mute.  For every volume.
THEOREM CurvesAreInverse == \A v \in 0..100 : KeepsVolume(v)
<1>. SUFFICES ASSUME NEW v \in 0..100 PROVE KeepsVolume(v)
  OBVIOUS
<1>1. MapLoudness(SliderPercent(v)) \in 0..100 /\ MapLoudness(SliderPercent(v)) - v \in -1..1
  BY DEF MapLoudness, Round, SliderPercent
<1>2. \A w \in 0..100 : w = MapLoudness(SliderPercent(v)) => MapLoudness(SliderPercent(w)) = w
  BY DEF MapLoudness, Round, SliderPercent
<1>3. Touched(Touched(v)) = Touched(v)
  BY <1>1, <1>2, TouchedCurves
<1>4. Reported(v) = Mute <=> v = 0
  BY DEF Reported, Mute, SliderPercent, Round
<1>. QED
  BY <1>1, <1>3, <1>4, TouchedCurves DEF KeepsVolume

-----------------------------------------------------------------------------
\* The arbiter.

\* Every step is one of the arbiter or leaves the arbiter alone.
LEMMA StepsOfArbiter ==
  ASSUME [Next]_vars
  PROVE  [ManagerNext]_managerVars
  BY DEF Next, vars, Arbitrate, AskVolume, AskMute, AirPlaySets, Check, Store, Save

\* Handlers that set volumes and sessions that come and go use the arbiter only
\* through its operations, so that what is proved of it holds here: generations
\* name owners, old ones stay old and the policy is kept.
THEOREM ControlKeepsArbiter ==
  Spec => [](GenerationNamesOwner /\ PolicyHeld) /\ StaleStaysStale
<1>1. Init => ManagerInit
  BY DEF Init
<1>2. [Next]_vars => [ManagerNext]_managerVars
  BY StepsOfArbiter
<1>3. Spec => ManagerSpec
  BY <1>1, <1>2, PTL DEF Spec, ManagerSpec
<1>. QED
  BY <1>3, ManagerCorrect, ManagerStaleStaysStale, ManagerHoldsPolicy, PTL

-----------------------------------------------------------------------------

\* The types the argument needs.
CallsTyped ==
    /\ call \in [Thread -> Call \union {NoCall}]
    /\ ownVolume \in Volumes /\ volume \in Volumes
    /\ recent \subseteq Volumes /\ restorable \subseteq Volumes
    /\ file \in restorable

\* Whoever has still to save brings a volume no older than the last store, and
\* what a restart may bring back is up to date unless somebody has still to save
\* or failed to.
SavesAreRecent ==
    /\ volume \in recent
    /\ \A t \in Thread : Saving(t) => call[t].volume \in recent
    /\ ~lost /\ (\A t \in Thread : ~Saving(t)) => restorable = recent

SaveInv == CallsTyped /\ SavesAreRecent

LEMMA SaveInit == Init => SaveInv
<1>1. NoCall.at # "save"
  BY DEF NoCall
<1>. QED
  BY <1>1, VolumesAssumption
  DEF Init, SaveInv, CallsTyped, SavesAreRecent, Saving, Volumes

\* What parseVolume returns is a volume, whatever it is given.
LEMMA ParsedIsVolume ==
  ASSUME NEW v PROVE ParseVolume(v) \in Volumes
  BY DEF ParseVolume, Volumes

\* A thread that begins a call, or that is refused, does not save.
LEMMA BeginsCall ==
  ASSUME SaveInv, NEW t \in Thread, NEW c \in Call \union {NoCall},
         call[t].at # "save", c.at # "save",
         call' = [call EXCEPT ![t] = c], ownVolume' \in Volumes,
         UNCHANGED <<volume, fileVars>>
  PROVE  SaveInv'
<1>1. CallsTyped'
  BY DEF SaveInv, CallsTyped, fileVars
<1>2. \A u \in Thread : Saving(u)' = Saving(u) /\ (Saving(u) => call'[u] = call[u])
  BY DEF SaveInv, CallsTyped, Saving
<1>. QED
  BY <1>1, <1>2 DEF SaveInv, SavesAreRecent, fileVars

LEMMA SaveNext ==
  ASSUME SaveInv, [Next]_vars
  PROVE  SaveInv'
<1>0. NoCall.at = "idle"
  BY DEF NoCall
<1>1. ASSUME NEW t \in Thread, NEW v \in Volumes, NEW b, SendOn(t, v, b), Idle(t),
             ownVolume' \in Volumes, UNCHANGED <<volume, fileVars>>
      PROVE  SaveInv'
  <2>1. PICK s \in OfProtocol("dlna") \union {NoSession} :
          call' = IF s = NoSession THEN call
                  ELSE [call EXCEPT ![t] = [at |-> "check", session |-> s, volume |-> v]]
    BY <1>1 DEF SendOn
  <2>2. CASE s = NoSession
    BY <1>1, <2>1, <2>2 DEF SaveInv, CallsTyped, SavesAreRecent, Saving, fileVars
  <2>3. CASE s # NoSession
    <3>1. [at |-> "check", session |-> s, volume |-> v] \in Call
      BY <2>3 DEF OfProtocol, Call
    <3>. QED
      BY <1>0, <1>1, <2>1, <2>3, <3>1, BeginsCall DEF Idle
  <2>. QED
    BY <2>2, <2>3
<1>2. ASSUME NEW t \in Handler, NEW v \in Desired, AskVolume(t, v) PROVE SaveInv'
  <2>1. t \in Thread
    BY DEF Thread
  <2>. QED
    BY <1>1, <1>2, <2>1, ParsedIsVolume DEF AskVolume, Arrives
<1>3. ASSUME NEW t \in Handler, NEW m \in BOOLEAN, AskMute(t, m) PROVE SaveInv'
  <2>1. t \in Thread /\ (IF m THEN 0 ELSE ownVolume) \in Volumes
    BY DEF Thread, SaveInv, CallsTyped, Volumes
  <2>. QED
    BY <1>1, <1>3, <2>1 DEF AskMute, Arrives, SaveInv, CallsTyped
<1>4. ASSUME NEW a \in OfProtocol("airplay"), NEW db \in Sliders, AirPlaySets(a, db)
      PROVE  SaveInv'
  <2>1. a \in Thread /\ [at |-> "check", session |-> a, volume |-> Parsed(db)] \in Call
    BY VolumesAssumption, ParsedInRange DEF Thread, OfProtocol, Call, Volumes
  <2>. QED
    BY <1>0, <1>4, <2>1, BeginsCall
    DEF AirPlaySets, Arrives, Idle, rendererVars, SaveInv, CallsTyped
<1>5. ASSUME NEW t \in Thread, Check(t) PROVE SaveInv'
  <2>1. call[t] \in Call /\ call[t].at = "check" /\ ownVolume' \in Volumes
        /\ UNCHANGED <<volume, fileVars>>
    BY <1>0, <1>5 DEF Check, SaveInv, CallsTyped, rendererVars
  <2>2. \E c \in Call \union {NoCall} : c.at # "save" /\ call' = [call EXCEPT ![t] = c]
    <3>1. [call[t] EXCEPT !.at = "store"] \in Call
      BY <2>1 DEF Call
    <3>. QED
      BY <1>0, <1>5, <2>1, <3>1 DEF Check, Goes, Call
  <2>. QED
    BY <2>1, <2>2, BeginsCall
<1>6. ASSUME NEW t \in Thread, Store(t) PROVE SaveInv'
  <2>. DEFINE overtaken == {t} \union {w \in Thread : Saving(w)}
  <2>1. /\ call[t] \in Call /\ call[t].at = "store"
        /\ call' = [call EXCEPT ![t] = [call[t] EXCEPT !.at = "save"]]
        /\ volume' = call[t].volume
        /\ recent' = {call[u].volume : u \in overtaken}
        /\ UNCHANGED <<file, restorable, ownVolume>>
    BY <1>0, <1>6 DEF Store, Goes, SaveInv, CallsTyped, rendererVars
  <2>2. [call[t] EXCEPT !.at = "save"] \in Call
    BY <2>1 DEF Call
  <2>3. \A u \in overtaken : u \in Thread /\ call[u] \in Call /\ call[u].volume \in Volumes
    BY <1>0, <2>1 DEF Saving, SaveInv, CallsTyped, Call
  <2>4. CallsTyped'
    BY <2>1, <2>2, <2>3 DEF SaveInv, CallsTyped, Call
  <2>5. call'[t].at = "save" /\ call'[t].volume = volume' /\ volume' \in recent'
    BY <2>1 DEF SaveInv, CallsTyped, Call
  <2>6. \A u \in Thread \ {t} : call'[u] = call[u]
    BY <2>1 DEF SaveInv, CallsTyped
  <2>7. \A u \in Thread : Saving(u)' => call'[u].volume \in recent'
    BY <2>1, <2>5, <2>6 DEF Saving
  <2>. QED
    BY <2>4, <2>5, <2>7 DEF SaveInv, SavesAreRecent, Saving
<1>7. ASSUME NEW t \in Thread, Save(t) PROVE SaveInv'
  <2>1. /\ call[t] \in Call /\ Saving(t)
        /\ call' = [call EXCEPT ![t] = NoCall]
        /\ FileWritten(call[t].volume) \/ FileLeft
        /\ UNCHANGED <<volume, recent, ownVolume>>
    BY <1>0, <1>7 DEF Save, Goes, Saving, SaveInv, CallsTyped, rendererVars
  <2>2. CallsTyped'
    BY <2>1 DEF SaveInv, CallsTyped, SavesAreRecent, FileWritten, FileLeft
  <2>3. \A u \in Thread : Saving(u)' => Saving(u) /\ u # t /\ call'[u] = call[u]
    BY <1>0, <2>1 DEF Saving, SaveInv, CallsTyped
  <2>. QED
    BY <2>1, <2>2, <2>3 DEF SaveInv, SavesAreRecent, FileWritten, FileLeft
<1>8. ASSUME UNCHANGED controlVars PROVE SaveInv'
  BY <1>8 DEF controlVars, rendererVars, fileVars, SaveInv, CallsTyped, SavesAreRecent, Saving
<1>. QED
  BY <1>2, <1>3, <1>4, <1>5, <1>6, <1>7, <1>8 DEF Next, vars, Arbitrate

\* What the file holds is never older than the last store a save has followed, up
\* to the calls that store overtook, and what is stored is saved unless a save
\* fails: for any number of sessions and handlers that set volumes, in any order.
THEOREM ControlSavesVolume == Spec => []FileHoldsRecent
<1>1. SaveInv => FileHoldsRecent
  BY DEF SaveInv, CallsTyped, SavesAreRecent, FileHoldsRecent, AtRest, Idle, Saving, NoCall
<1>. QED
  BY <1>1, SaveInit, SaveNext, PTL DEF Spec

-----------------------------------------------------------------------------
\* Mute and unmute.

\* The volume the last request asked for: what the renderer has, or zero.
Target == IF before # NoVolume /\ muted THEN 0 ELSE ownVolume

ControlTyped ==
    /\ CallsTyped
    /\ ManagerInv
    /\ muted \in BOOLEAN /\ lost \in BOOLEAN /\ alone \in BOOLEAN
    /\ before \in Volumes \union {NoVolume}
    /\ requests \in 0..MaxRequests

\* As long as a control point is alone, one call is on its way at most, with the
\* volume that was asked for, and what was muted is what the renderer has.
AloneInv ==
    alone =>
       /\ before # NoVolume => before = ownVolume
       /\ \A t, u \in Thread : ~Idle(t) /\ ~Idle(u) => t = u
       /\ \A t \in Thread : ~Idle(t) =>
             call[t].volume = Target /\ (Saving(t) => volume = Target)
       /\ AtRest => volume = Target

RestoreInv == ControlTyped /\ AloneInv

LEMMA RestoreInit == Init => RestoreInv
<1>. SUFFICES ASSUME Init PROVE RestoreInv
  OBVIOUS
<1>1. ManagerInv
  BY ManagerInitInv DEF Init
<1>2. CallsTyped
  BY SaveInit DEF SaveInv
<1>3. requests \in 0..MaxRequests
  BY MaxRequestsAssumption DEF Init
<1>4. ControlTyped
  BY <1>1, <1>2, <1>3 DEF Init, ControlTyped
<1>5. AloneInv
  BY DEF Init, AloneInv
<1>. QED
  BY <1>4, <1>5 DEF RestoreInv

\* A request of a control point that is alone: nothing was on its way, and now
\* the volume asked for is.
LEMMA AskAlone ==
  ASSUME CallsTyped', ~alone' \/ AtRest, NEW t \in Thread, NEW v \in Volumes, NEW b,
         SendOn(t, v, b), CallsTyped, alone' => v = Target',
         alone' /\ before' # NoVolume => before' = ownVolume'
  PROVE  AloneInv'
<1>1. CASE ~alone'
  BY <1>1 DEF AloneInv
<1>2. CASE alone' /\ AtRest
  <2>1. PICK s \in OfProtocol("dlna") \union {NoSession} :
          /\ call' = IF s = NoSession THEN call
                     ELSE [call EXCEPT ![t] = [at |-> "check", session |-> s, volume |-> v]]
          /\ alone' = (b /\ AtRest /\ s # NoSession)
    BY DEF SendOn
  <2>2. /\ call'[t] = [at |-> "check", session |-> s, volume |-> v]
        /\ \A u \in Thread : u # t => call'[u] = NoCall
    BY <1>2, <2>1 DEF CallsTyped, AtRest, Idle
  <2>3. call'[t] # NoCall /\ call'[t].volume = v /\ call'[t].at # "save"
    BY <2>2 DEF NoCall
  <2>4. ~AtRest' /\ ~Saving(t)' /\ \A u \in Thread : ~Idle(u)' => u = t
    BY <2>2, <2>3 DEF AtRest, Idle, Saving
  <2>. QED
    BY <1>2, <2>3, <2>4 DEF AloneInv
<1>. QED
  BY <1>1, <1>2

LEMMA RestoreTypes ==
  ASSUME RestoreInv, SaveInv, [Next]_vars
  PROVE  ControlTyped'
<1>1. CallsTyped'
  BY SaveNext DEF SaveInv
<1>2. ManagerInv'
  BY StepsOfArbiter, ManagerNextInv DEF RestoreInv, ControlTyped
<1>3. ASSUME NEW t \in Thread, Arrives(t) PROVE requests' \in 0..MaxRequests
  BY <1>3, MaxRequestsAssumption DEF Arrives, RestoreInv, ControlTyped
<1>4. /\ volume \in Volumes /\ before \in Volumes \union {NoVolume} /\ requests \in 0..MaxRequests
      /\ muted \in BOOLEAN /\ lost \in BOOLEAN /\ alone \in BOOLEAN
  BY DEF RestoreInv, ControlTyped, CallsTyped
<1>5. ASSUME NEW t \in Handler, NEW v \in Desired, AskVolume(t, v) PROVE ControlTyped'
  <2>1. requests' \in 0..MaxRequests /\ alone' \in BOOLEAN
    BY <1>3, <1>5 DEF AskVolume, SendOn, Thread
  <2>. QED
    BY <1>1, <1>2, <1>4, <1>5, <2>1 DEF AskVolume, ControlTyped, fileVars
<1>6. ASSUME NEW t \in Handler, NEW m \in BOOLEAN, AskMute(t, m) PROVE ControlTyped'
  <2>1. requests' \in 0..MaxRequests /\ alone' \in BOOLEAN
    BY <1>3, <1>6 DEF AskMute, SendOn, Thread
  <2>. QED
    BY <1>1, <1>2, <1>4, <1>6, <2>1 DEF AskMute, ControlTyped, fileVars
<1>7. ASSUME NEW a \in OfProtocol("airplay"), NEW db \in Sliders, AirPlaySets(a, db)
      PROVE  ControlTyped'
  <2>1. requests' \in 0..MaxRequests
    BY <1>3, <1>7 DEF AirPlaySets, Thread
  <2>. QED
    BY <1>1, <1>2, <1>4, <1>7, <2>1 DEF AirPlaySets, ControlTyped, rendererVars, fileVars
<1>8. ASSUME NEW t \in Thread, Check(t) \/ Store(t) \/ Save(t) PROVE ControlTyped'
  BY <1>1, <1>2, <1>4, <1>8
  DEF Check, Store, Save, FileWritten, FileLeft, ControlTyped, rendererVars, fileVars, controlHistory
<1>9. ASSUME UNCHANGED controlVars PROVE ControlTyped'
  BY <1>1, <1>2, <1>4, <1>9 DEF controlVars, ControlTyped, rendererVars, fileVars, controlHistory
<1>. QED
  BY <1>5, <1>6, <1>7, <1>8, <1>9 DEF Next, vars, Arbitrate

LEMMA RestoreNext ==
  ASSUME RestoreInv, SaveInv, [Next]_vars
  PROVE  RestoreInv'
<1>1. ControlTyped' /\ CallsTyped' /\ CallsTyped /\ ControlTyped
  BY RestoreTypes DEF ControlTyped, RestoreInv
<1>0. NoCall.at = "idle"
  BY DEF NoCall
<1>2. ASSUME NEW t \in Handler, NEW v \in Desired, AskVolume(t, v) PROVE AloneInv'
  <2>1. /\ SendOn(t, ParseVolume(v), TRUE) /\ ownVolume' = ParseVolume(v)
        /\ before' = NoVolume /\ t \in Thread
    BY <1>2 DEF AskVolume, Thread
  <2>2. ~alone' \/ AtRest
    BY <2>1 DEF SendOn
  <2>. QED
    BY <1>1, <2>1, <2>2, ParsedIsVolume, AskAlone DEF Target
<1>3. ASSUME NEW t \in Handler, NEW m \in BOOLEAN, AskMute(t, m) PROVE AloneInv'
  <2>. DEFINE v == IF m THEN 0 ELSE ownVolume
  <2>1. /\ SendOn(t, v, alone) /\ ownVolume' = ownVolume /\ muted' = m
        /\ before' = (IF m /\ before = NoVolume THEN volume ELSE before) /\ t \in Thread
    BY <1>3 DEF AskMute, Thread
  <2>2. alone' => alone /\ AtRest
    BY <2>1 DEF SendOn
  <2>3. v \in Volumes /\ volume # NoVolume
    BY <1>1, NoVolumeAssumption DEF CallsTyped, Volumes
  <2>4. alone /\ AtRest => /\ before # NoVolume => before = ownVolume
                           /\ volume = Target
    BY DEF RestoreInv, AloneInv
  <2>5. alone' /\ before' # NoVolume => before' = ownVolume'
    BY <2>1, <2>2, <2>4 DEF Target
  <2>6. alone' => v = Target'
    BY <2>1, <2>3 DEF Target
  <2>. HIDE DEF v
  <2>. QED
    BY <1>1, <2>1, <2>2, <2>3, <2>5, <2>6, AskAlone
<1>4. ASSUME NEW a \in OfProtocol("airplay"), NEW db \in Sliders, AirPlaySets(a, db)
      PROVE  AloneInv'
  BY <1>4 DEF AirPlaySets, AloneInv
<1>5. ASSUME NEW t \in Thread, Check(t) PROVE AloneInv'
  <2>1. CASE ~alone'
    BY <2>1 DEF AloneInv
  <2>2. CASE alone'
    <3>1. /\ call[t] \in Call /\ call[t].at = "check" /\ call[t] # NoCall
          /\ call' = [call EXCEPT ![t] = [call[t] EXCEPT !.at = "store"]]
          /\ UNCHANGED <<ownVolume, muted, volume, before>> /\ alone
      BY <1>0, <1>1, <1>5, <2>2 DEF Check, Goes, CallsTyped, rendererVars
    <3>2. /\ call'[t].volume = call[t].volume /\ call'[t].at = "store" /\ call'[t] # NoCall
          /\ \A u \in Thread : u # t => call'[u] = call[u]
      BY <1>0, <1>1, <3>1 DEF CallsTyped, Call
    <3>3. \A u \in Thread : ~Idle(u)' <=> ~Idle(u)
      BY <3>1, <3>2 DEF Idle
    <3>4. ~AtRest' /\ \A u \in Thread : Saving(u)' => Saving(u) /\ u # t
      BY <3>2 DEF AtRest, Idle, Saving
    <3>. QED
      BY <3>1, <3>2, <3>3, <3>4 DEF RestoreInv, AloneInv, Target
  <2>. QED
    BY <2>1, <2>2
<1>6. ASSUME NEW t \in Thread, Store(t) PROVE AloneInv'
  <2>1. /\ call[t] \in Call /\ call[t].at = "store" /\ call[t] # NoCall
        /\ call' = [call EXCEPT ![t] = [call[t] EXCEPT !.at = "save"]]
        /\ volume' = call[t].volume
        /\ UNCHANGED <<ownVolume, muted, before, alone>>
    BY <1>0, <1>1, <1>6 DEF Store, Goes, CallsTyped, rendererVars, controlHistory
  <2>2. /\ call'[t].volume = call[t].volume /\ call'[t] # NoCall
        /\ \A u \in Thread : u # t => call'[u] = call[u]
    BY <1>0, <1>1, <2>1 DEF CallsTyped, Call
  <2>3. ~AtRest' /\ \A u \in Thread : ~Idle(u)' <=> ~Idle(u)
    BY <2>1, <2>2 DEF AtRest, Idle
  <2>. QED
    BY <2>1, <2>2, <2>3 DEF RestoreInv, AloneInv, Target, Idle
<1>7. ASSUME NEW t \in Thread, Save(t) PROVE AloneInv'
  <2>1. /\ Saving(t) /\ call[t] # NoCall
        /\ call' = [call EXCEPT ![t] = NoCall]
        /\ UNCHANGED <<ownVolume, muted, volume, before, alone>>
    BY <1>0, <1>7 DEF Save, Goes, Saving, rendererVars, controlHistory
  <2>2. call'[t] = NoCall /\ \A u \in Thread : u # t => call'[u] = call[u]
    BY <1>1, <2>1 DEF CallsTyped
  <2>3. \A u \in Thread : ~Idle(u)' => ~Idle(u) /\ u # t
    BY <2>2 DEF Idle
  <2>4. alone => volume = Target /\ \A u \in Thread : ~Idle(u) => u = t
    BY <2>1 DEF RestoreInv, AloneInv, Idle
  <2>5. alone => (before # NoVolume => before = ownVolume) /\ \A u \in Thread : Idle(u)'
    BY <2>3, <2>4 DEF RestoreInv, AloneInv
  <2>6. Target' = Target
    BY <2>1 DEF Target
  <2>. QED
    BY <2>1, <2>4, <2>5, <2>6 DEF AloneInv
<1>8. ASSUME UNCHANGED controlVars PROVE AloneInv'
  BY <1>8 DEF controlVars, rendererVars, controlHistory, RestoreInv, AloneInv, Target, Idle,
     AtRest, Saving
<1>. QED
  BY <1>1, <1>2, <1>3, <1>4, <1>5, <1>6, <1>7, <1>8 DEF Next, vars, Arbitrate, RestoreInv

\* For any handlers, sessions and volumes, the renderer, the coordinator and the
\* calls between them are well typed: what is stored and saved is in range.
THEOREM ControlTypeCorrect == Spec => []TypeOK
<1>1. RestoreInv => TypeOK
  BY DEF RestoreInv, ControlTyped, CallsTyped, ManagerInv, TypeOK
<1>. QED
  BY <1>1, SaveInit, SaveNext, RestoreInit, RestoreNext, PTL DEF Spec

\* A control point that is alone gets back what it muted, however often it mutes,
\* unmutes and sets the volume meanwhile.
THEOREM ControlRestoresVolume == Spec => []UnmuteRestores
<1>1. RestoreInv => UnmuteRestores
  BY DEF RestoreInv, AloneInv, UnmuteRestores, Target
<1>. QED
  BY <1>1, SaveInit, SaveNext, RestoreInit, RestoreNext, PTL DEF Spec

-----------------------------------------------------------------------------
\* What a phone sees of the volume.

\* Whatever sets the volume, a phone that sends back the slider it was shown keeps
\* it, but for the one step that is lost once.
THEOREM ControlKeepsVolume == Spec => []TouchKeepsVolume
<1>1. SaveInv => TouchKeepsVolume
  BY CurvesAreInverse DEF SaveInv, CallsTyped, Volumes, TouchKeepsVolume
<1>. QED
  BY <1>1, SaveInit, SaveNext, PTL DEF Spec

\* From any volume, with any positions a slider may have, up is not quieter and
\* down is not louder.
THEOREM ControlIsMonotone == Spec => []LouderIsLouder
<1>1. SaveInv => LouderIsLouder
  <2>. SUFFICES ASSUME SaveInv, NEW db \in Sliders
                PROVE  /\ db >= Reported(volume) => Parsed(db) >= Touched(volume)
                       /\ db <= Reported(volume) => Parsed(db) <= Touched(volume)
    BY DEF LouderIsLouder
  <2>1. volume \in 0..100 /\ db \in Int
    BY VolumesAssumption DEF SaveInv, CallsTyped, Volumes
  <2>2. Reported(volume) \in Int
    BY <2>1, PercentInRange
  <2>3. Parsed(db) \in Int /\ Parsed(Reported(volume)) \in Int
    BY <2>1, <2>2, ParsedInRange
  <2>. QED
    BY <2>1, <2>2, <2>3, HigherIsLouder DEF Touched
<1>. QED
  BY <1>1, SaveInit, SaveNext, PTL DEF Spec
=============================================================================
