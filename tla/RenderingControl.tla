--------------------------- MODULE RenderingControl ---------------------------
(***************************************************************************)
(* Who may set the volume, and what is remembered of it.  RenderingControl *)
(* of src/core/dlna/soap.go keeps a volume and a mute flag of its own and  *)
(* sends them on as a volume of the active media session; AirPlay sessions *)
(* send theirs; SetVolume of the coordinator accepts the owner's and       *)
(* remembers it in memory and in a file.  Each handler is a chain of       *)
(* critical sections, below the arbiter that changes owners meanwhile.     *)
(* What then happens to the speaker is VolumeSync.                         *)
(***************************************************************************)
EXTENDS SourceManager, VolumeCurve

CONSTANTS
    Handler,          \* the goroutines that run SOAP requests
    Desired,          \* the values of DesiredVolume, in range or not, or no number
    Sliders,          \* the positions of AirPlay's slider, in hundredths of a dB
    Remembered,       \* the volumes the daemon may have started with
    NoVolume,         \* no number: a volume nobody has muted
    MaxRequests       \* bound: the volume requests of a behaviour

Volumes == 0..100

ASSUME HandlerAssumption == Handler \intersect Session = {}
ASSUME VolumesAssumption == Sliders \subseteq Int /\ Remembered \subseteq Volumes
ASSUME NoVolumeAssumption == NoVolume \notin Volumes
ASSUME MaxRequestsAssumption == MaxRequests \in Nat

OfProtocol(p) == {s \in Session : ProtocolOf[s] = p}

\* An AirPlay session has one goroutine for its requests.
Thread == Handler \union OfProtocol("airplay")

VARIABLES
    ownVolume,  \* s.volume of the renderer
    muted,      \* s.muted
    volume,     \* c.currentVolume of the coordinator
    file,       \* what volumePath holds
    call,       \* the volume each goroutine is setting
    requests,   \* bound: volume requests so far
    recent,     \* history: what was stored last, and what the calls it overtook will save
    restorable, \* history: recent at the last save that succeeded
    lost,       \* history: a save since the last store failed
    alone,      \* history: a control point set the volume and nobody interfered since
    before      \* history: the volume it has muted since

rendererVars == <<ownVolume, muted>>
fileVars == <<file, recent, restorable, lost>>
controlHistory == <<alone, before>>
controlVars == <<rendererVars, volume, fileVars, call, requests, controlHistory>>
vars == <<managerVars, controlVars>>

\* A volume on its way through SetVolume of the coordinator.
Call == [at : {"check", "store", "save"}, session : Session, volume : Volumes]
NoCall == [at |-> "idle"]

TypeOK ==
    /\ ManagerTypeOK
    /\ ownVolume \in Volumes /\ muted \in BOOLEAN
    /\ volume \in Volumes /\ file \in Volumes
    /\ call \in [Thread -> Call \union {NoCall}]
    /\ requests \in 0..MaxRequests
    /\ recent \subseteq Volumes /\ restorable \subseteq Volumes /\ lost \in BOOLEAN
    /\ alone \in BOOLEAN
    /\ before \in Volumes \union {NoVolume}

Init ==
    /\ ManagerInit
    /\ ownVolume = 50 /\ muted = FALSE
    /\ volume \in Remembered
    /\ file = volume
    /\ call = [t \in Thread |-> NoCall]
    /\ requests = 0
    /\ recent = {volume} /\ restorable = {volume} /\ lost = FALSE
    /\ alone = FALSE /\ before = NoVolume

Idle(t) == call[t] = NoCall
AtRest == \A t \in Thread : Idle(t)

Arrives(t) == Idle(t) /\ requests < MaxRequests /\ requests' = requests + 1

-----------------------------------------------------------------------------
\* The requests.

\* Variant: a volume out of range is not clamped.
ParseVolumeUnclamped(v) == IF v \in Int THEN v ELSE 50

\* parseVolume: no number counts as 50.
ParseVolume(v) ==
    IF v \notin Int THEN 50 ELSE IF v < 0 THEN 0 ELSE IF v > 100 THEN 100 ELSE v

\* OnVolume for the session AVTransport has made the active one, if any.  That one
\* may have lost the speaker meanwhile, or may get it yet: here it is any.
SendOn(t, v, undisturbed) ==
    \E s \in OfProtocol("dlna") \union {NoSession} :
       /\ call' = IF s = NoSession THEN call
                  ELSE [call EXCEPT ![t] = [at |-> "check", session |-> s, volume |-> v]]
       /\ alone' = (undisturbed /\ AtRest /\ s # NoSession)

AskVolume(t, v) ==
    /\ Arrives(t)
    /\ ownVolume' = ParseVolume(v)
    /\ SendOn(t, ParseVolume(v), TRUE)
    /\ before' = NoVolume
    /\ UNCHANGED <<managerVars, muted, volume, fileVars>>

\* Variant: mute is taken for the volume zero.
AskMuteOverwrites(t, m) ==
    /\ Arrives(t)
    /\ muted' = m
    /\ ownVolume' = IF m THEN 0 ELSE ownVolume
    /\ SendOn(t, ownVolume', alone)
    /\ before' = IF m /\ before = NoVolume THEN volume ELSE before
    /\ UNCHANGED <<managerVars, volume, fileVars>>

\* Mute sends zero, unmute the renderer's own volume.
AskMute(t, m) ==
    /\ Arrives(t)
    /\ muted' = m
    /\ SendOn(t, IF m THEN 0 ELSE ownVolume, alone)
    /\ before' = IF m /\ before = NoVolume THEN volume ELSE before
    /\ UNCHANGED <<managerVars, ownVolume, volume, fileVars>>

\* An AirPlay session sends its slider, owner or not.
AirPlaySets(a, db) ==
    /\ Arrives(a)
    /\ call' = [call EXCEPT ![a] = [at |-> "check", session |-> a, volume |-> Parsed(db)]]
    /\ alone' = FALSE
    /\ UNCHANGED <<managerVars, rendererVars, volume, fileVars, before>>

-----------------------------------------------------------------------------
\* SetVolume of the coordinator.

Goes(t, place) == call' = [call EXCEPT ![t] = IF place = "idle" THEN NoCall
                                              ELSE [@ EXCEPT !.at = place]]

\* The snapshot of the arbiter: who is not the owner is refused.
Check(t) ==
    /\ call[t].at = "check"
    /\ IF active = call[t].session
       THEN Goes(t, "store") /\ UNCHANGED alone
       ELSE Goes(t, "idle") /\ alone' = FALSE
    /\ UNCHANGED <<managerVars, rendererVars, volume, fileVars, requests, before>>

Saving(t) == call[t].at = "save"

\* c.currentVolume = volume, under its own lock.
Store(t) ==
    /\ call[t].at = "store"
    /\ volume' = call[t].volume
    /\ Goes(t, "save")
    /\ recent' = {call[u].volume : u \in {t} \union {w \in Thread : Saving(w)}}
    /\ lost' = FALSE
    /\ UNCHANGED <<managerVars, rendererVars, file, restorable, requests, controlHistory>>

\* The file is replaced as a whole, by a rename.
FileWritten(v) == file' = v /\ restorable' = recent /\ UNCHANGED lost

\* No path, no directory, no space: an early return of saveVolume leaves the file.
FileLeft == lost' = TRUE /\ UNCHANGED <<file, restorable>>

\* Variant: a session that lost the speaker meanwhile is not saved.
SaveIfOwner(t) ==
    /\ Saving(t)
    /\ IF active = call[t].session
       THEN FileWritten(call[t].volume) \/ FileLeft
       ELSE UNCHANGED <<file, restorable, lost>>
    /\ Goes(t, "idle")
    /\ UNCHANGED <<managerVars, rendererVars, volume, recent, requests, controlHistory>>

\* saveVolume with the value of the call, outside of the lock.
Save(t) ==
    /\ Saving(t)
    /\ FileWritten(call[t].volume) \/ FileLeft
    /\ Goes(t, "idle")
    /\ UNCHANGED <<managerVars, rendererVars, volume, recent, requests, controlHistory>>

-----------------------------------------------------------------------------

\* The arbiter takes no notice of volumes.
Arbitrate == ManagerNext /\ UNCHANGED controlVars

Next ==
    \/ Arbitrate
    \/ \E t \in Handler :
          \/ \E v \in Desired : AskVolume(t, v)
          \/ \E m \in BOOLEAN : AskMute(t, m)
    \/ \E a \in OfProtocol("airplay"), db \in Sliders : AirPlaySets(a, db)
    \/ \E t \in Thread : Check(t) \/ Store(t) \/ Save(t)

Spec == Init /\ [][Next]_vars

\* Time passes, and a session that wants the speaker keeps asking for it.
Fairness ==
    /\ WF_vars(Tick /\ UNCHANGED controlVars)
    /\ \A s \in Session : WF_vars(AcquireNew(s) /\ UNCHANGED controlVars)

FairSpec == Spec /\ Fairness

-----------------------------------------------------------------------------

\* Muting and unmuting brings back the volume there was, and mute means zero, as
\* long as that volume was set through this renderer and its requests came one
\* after another, for the session that had the speaker.  (Otherwise unmute sets
\* what the renderer last heard of, 50 at first: a volume AirPlay set is lost.)
UnmuteRestores ==
    AtRest /\ alone /\ before # NoVolume => volume = IF muted THEN 0 ELSE before

\* Memory and file have a lock each, calls of SetVolume cross between the two and
\* any save may fail.  Still a save that succeeds leaves a file that is no older
\* than the last store before it, but for the calls that store overtook, and a save
\* that fails leaves it as it was; and what is stored gets saved: at rest, with no
\* save failed since the last store, it is a volume the file may stand for.
FileHoldsRecent ==
    /\ file \in restorable
    /\ AtRest /\ ~lost => volume \in restorable

\* A phone that reads the volume and sends its slider back where it was shown
\* keeps it, whoever set it: "eliminate sudden volume drops when touching the
\* slider" (mapAirPlayLoudness), the curves of GET_PARAMETER and SET_PARAMETER
\* being inverses.
TouchKeepsVolume == KeepsVolume(volume)

\* A slider above where the volume is shown makes it no quieter, and one below
\* no louder, across the knee, mute and both ends.
LouderIsLouder ==
    \A db \in Sliders :
       /\ db >= Reported(volume) => Parsed(db) >= Touched(volume)
       /\ db <= Reported(volume) => Parsed(db) <= Touched(volume)
=============================================================================
