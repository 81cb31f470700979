# Verification of miair-core

miair-core is a Go daemon for OpenWrt routers. It announces itself as an
AirPlay receiver and as a DLNA renderer, and it plays what it receives on a
XiaoAi speaker by telling Xiaomi's cloud to let the speaker fetch an HTTP
stream from the router. This directory holds TLA+ models of its concurrent
parts, TLC configurations that check them on small instances, and TLAPS proofs
about every one of them for instances of any size. Paths below are
relative to `src/core/`.

## Inventory

| component | state | operations | talks to |
|---|---|---|---|
| source arbiter (`source/manager.go`) | policy, active session, generation, last activity | Acquire, Touch, Release, IsOwner, IsIdleGeneration, Snapshot | called by the coordinator, under its own mutex |
| playback coordinator (`playback/coordinator.go`) | channel of 32 commands, one control loop, done | Activate, Deactivate, Touch, Close | arbiter; `Replaced.Cancel` of the servers; speaker (cloud) |
| volume synchronisation (`playback/coordinator.go`) | current volume, volume file, channel of 16 updates, debounce timer | SetVolume, volumeWorker, goroutine after a play | arbiter, speaker, disk |
| AirPlay RTSP sessions (`airplay/server.go`) | accept loop, one goroutine per connection, owned, closeOnce, UDP sockets, table of sessions | SETUP, RECORD, PAUSE, FLUSH, TEARDOWN, volume, Close, Server.Close | coordinator through callbacks |
| AirPlay volume scales (`airplay/server.go`) | none | slider in dB to 0..100 and back | – |
| AirPlay audio stream (`airplay/server.go`) | hub: history, listeners, closed | Broadcast, Subscribe, Unsubscribe, Reset, Close; HTTP handler | RTP socket, HTTP clients |
| DLNA renderer (`dlna/server.go`, `dlna/soap.go`) | URI, media sessions, active session, transport state, volume, mute | SOAP actions, media proxy, Close | coordinator through callbacks |
| Xiaomi account (`miservice/account.go`) | login, token, store file, cookie jar, status | RequestMina, EnsureToken, RefreshToken, auto refresh, QR login | cloud, disk; called by control loop and volume worker |
| main (`main.go`) | – | wiring, shutdown, `-qr`, `-poll-qr`, `-list` | all |
| status file, SSDP, mDNS, XML templates, signing helpers, ALAC decoder, LuCI pages, init script, packaging | nothing another part reads | – | – |

How they interact. A RECORD or a Play calls `Coordinator.Activate`, which asks
the arbiter, runs the Cancel of the session that lost, in the caller's
goroutine, and puts a play command into the channel. Cancel closes the other
session, which calls `Deactivate`. The control loop takes commands out, checks
that their generation still is the owner's, and calls the cloud. Volume takes a
second channel and a second worker. Both workers
and a refresher share one account and its token; the web page runs a second
process that writes the same token file.

What is hard, and what makes each part correct:

- *arbiter*: one owner, changes only as the policy allows, and a stale pair
  (session, generation) never becomes valid again;
- *coordinator*: decision, cancellation and command are three steps of
  concurrent callers, and calls are slow, fail, or act without an answer; the
  speaker must still follow the owners in order and end with the last;
- *volume*: debouncing with a reusable timer; memory, file, channel and speaker
  change under different locks, from handlers of two protocols; the last value
  must win everywhere, and unmute must bring back the one there was;
- *RTSP sessions*: a session is closed by another one's goroutine, or by the
  main one, at any point of its own request; both must agree with the arbiter
  on who owns, and a closed session must hold nothing;
- *audio*: close, subscribe and broadcast meet on the same channels; frames
  must arrive in order, once, and streams must end;
- *DLNA*: every request is several critical sections; renderer and arbiter
  must agree when they are over, and the proxy must stream nobody else's media;
- *account*: several goroutines and a second process renew and save one token,
  in a file that is truncated before it is written and read after a restart.

`PROJECT.json` lists the places in the code where each of these bites.

## Modules

| module | models | state and actions |
|---|---|---|
| `SourceManager` | the arbiter | every method is one critical section, hence one action; `idleFor` is the time since the last activity, counted up to the timeout; `ownerAt` is a history of the owners by generation |
| `Handover` | what the coordinator promises | a growing sequence of owners and a speaker that follows it without going back |
| `Playback` | coordinator, extends `SourceManager` | each caller holds what remains of its Activate or Deactivate (a session to cancel, commands to enqueue); the loop is at select, check, call or backoff; a failing call may or may not have acted; `Abstract == INSTANCE Handover WITH ...` is the refinement mapping |
| `RenderingControl` | volume and mute requests of both protocols, extends `SourceManager` and `VolumeCurve` | the renderer's own volume and mute flag, and per goroutine a SetVolume of the coordinator in three steps: ownership checked, volume stored, file saved (or left as it was, when the save fails) |
| `VolumeSync` | volume on its way to the speaker, extends `SourceManager` | SetVolume is snapshot, store, save (which may fail each time), send; the worker's timer is none, running, fired (expired, unread) or spent; goroutines after a play sleep, then call; `Restart` may strike anywhere and keeps only the file; `Box == INSTANCE Mailbox WITH ...` takes what is with the speaker, pending and in the channel, in this order, for what is waiting |
| `Mailbox` | what the way of a volume change to the speaker promises | changes are carried out in order and at most once, skipped only for a later one; a crash loses what waits |
| `VolumeCurve` | AirPlay volume scales | operators only: the arithmetic of both curves, exact in integers |
| `AudioHub` | hub, RTP loop, HTTP handlers | each hub method is one action under its mutex; a frame in a channel is a copy or a slice of the packet buffer, which is read into until ANNOUNCE has made a decoder |
| `AirPlaySession` | RTSP sessions, extends `SourceManager` | the accept loop; each connection's goroutine reads, dispatches, sets up sockets, acquires, closes others, answers; `Main` runs Server.Close on a snapshot of the table; `once` is closeOnce and makes later callers of Close wait; `Attend` is the Touch that audio packets bring, and time |
| `AirPlayPlayback` | RTSP sessions over the coordinator, extends `AirPlaySession`, with `Coordinator == INSTANCE Playback` | the callbacks of `main.go` as joint steps: `Activate` is the session's Acquire and the coordinator's, `Deactivate` the session's release and the coordinator's, also inside a Cancel; `Deliver` is a goroutine at enqueue, which goes on when the command is in the channel; `CloseCoordinator` follows `ServerClose` |
| `DlnaRenderer` | SOAP handlers and media proxy, extends `SourceManager` | each request is a chain of critical sections; an AirPlay session may preempt; a proxy looks its media session up once and then depends on the context alone; `Attend` is the Touch of a proxy that streams, and time |
| `TokenAccount` | account | each goroutine's place in RequestMina and RefreshToken; what the cloud issued and accepts; truncation and write of the store file are two steps; `Restart`; the process of a QR login or a device list |
| `*_proofs` | | theorems and proofs, one module each for `SourceManager`, `Playback`, `RenderingControl`, `VolumeSync`, `AudioHub`, `AirPlaySession`, `DlnaRenderer`, `TokenAccount`; `VolumeCurve`'s are in `RenderingControl_proofs`, `AirPlayPlayback`'s in `AirPlaySession_proofs` |

`MC*.tla` give the constants for TLC. Operators whose comment starts with
"Variant" are never used by a specification: each is a definition with a
plausible bug put in, and the property named in `PROJECT.json` fails when it
replaces the original.

Abstractions. In `Playback` the Cancel of a preempted session is whatever the
two servers do in terms of the arbiter, a Deactivate or nothing; the servers
themselves are in `AirPlaySession` and `DlnaRenderer`, which in turn see the
coordinator only as the arbiter it asks. For AirPlay this is made good by
`AirPlayPlayback`, where Cancel is the Close of the session and a goroutine may
be held up at the channel in the middle of it: `StackRunsSessions` and
`StackRunsCoordinator` prove that the two abstractions lost nothing. The DLNA
renderer is not composed with the coordinator. In `RenderingControl` a SOAP
volume goes to any media session or none: `DlnaRenderer` says which one is
active. `VolumeSync` follows with what the channel, the worker and the speaker
make of a stored volume; there ownership changes by `Arbitrate` and a play of
any generation may succeed once, also after its session lost the speaker. In
`TokenAccount` the two HTTP requests of a login are one step and a login does
not invalidate earlier tokens; the two saves of a QR login after a renewal
(`miservice/account.go:441`, `:201`) are one, and a second renewal by the list
process is left out; a file that was cut off, or into which two
processes wrote at once, may load as no login. Audio frames have equal sizes and
bytes are counted in frames. Logging, formatting and parsing are left out.

## Runs

| run | instance | shows |
|---|---|---|
| `arbiter` | `RenderingControl` with an AirPlay and a DLNA session, 4 policies, 3 generations, timeout of 2 ticks, 2 SOAP handlers, 3 volume requests, saves that fail | generations name owners, stale stays stale, a silent owner loses the speaker; unmute restores, the file follows what is stored; at every volume reached, a touched slider keeps it and a moved one moves it the right way |
| `playback` | 2 sessions, 2 callers, policies latest, lock and priority, channel of 1, 3 generations (a release may add one) | refinement of `Handover`, no session the policy protects loses the speaker to a late command, no lost command, agreement at rest; every lasting owner is served, callers return |
| `volume` | 1 session, 1 setter, channel of 1, 3 calls, saves that fail, 1 restart | refinement of `Mailbox`, the last update settles, setters return, a restart brings back what was saved, also between store and save; evaluates the curves for all 101 volumes and 14502 slider positions |
| `volume_stale` | 2 sessions, 1 setter, 1 call, no restart | counterexample, see Findings |
| `hub` | 2 clients, 3 frames, history 2, 1 further place, priming 1, raw until ANNOUNCE | in order, none lost silently, no send into a closed channel, streams end |
| `dlna` | 3 SOAP handlers, 3 media sessions, 1 proxy, 1 AirPlay session, policies latest and lock, 4 generations | renderer and arbiter agree after two crossing requests or a preemption by AirPlay; PLAYING has media, no leak, only the owner's media is streamed, whatever crosses |
| `dlna_crossing` | 2 SOAP handlers, 2 media sessions, an AirPlay session, policy latest | counterexample |
| `airplay` | 2 connections, 6 RECORDs, policies latest, lock and idle, Server.Close at any moment | sessions agree with the arbiter, losers learn, a closed one holds nothing, nobody waits for ever |
| `stack` | `AirPlayPlayback` with 2 connections, 2 RECORDs, policy latest, channel of 1, Server.Close and the close of the coordinator | phone and speaker agree at rest; nobody waits in a circle |
| `airplay_zombie` | 3 RECORDs, policy latest | counterexample |
| `token` | 2 requesters, refresher, QR login or device list, 2 tokens, 1 restart | a retry is accepted, the file keeps the current token and the login |
| `token_login_kept` | the same | counterexample |

Why the bounds are enough. Two callers are the fewest that overtake each other
between decision and command, and three generations the fewest in which a
session loses the speaker and gets it back. A channel of one is full while
another caller waits; its real size (32, 16, 128) changes only how long that
takes. Two connections close each other while each has a request in hand, in
every order of their RECORDs, and six RECORDs are three for each: own, lose, own
again. In `stack` two RECORDs, with the pauses and hang-ups they allow, are
enough to send three commands through a channel of one: goroutines do meet it
full, one of them inside the Close that the other waits for. Three
calls of SetVolume are the fewest that leave one waiting before a full channel
while the worker is in a call of the speaker: one update is with the speaker, one
in the channel. Calls of SetVolume that cross each other are in `arbiter`
(`FileHoldsRecent`), with two handlers and an AirPlay session; `volume` adds the
restart to the same steps, and the theorem about it has any number of setters.
Three frames fill
history and channel and push one out of each. Three volume requests are a
volume, a mute and an unmute, or two handlers and an AirPlay session that cross.
Two requesters and the refresher make every pair of renewals cross; with two
tokens a second renewal after a deleted one comes back with the token in the
cookie jar, which the code accepts too. In `dlna`, `atOnce` is a property of the
environment chosen at the start: how many SOAP requests control points have in
hand at once. Two Plays that cross, or one that AirPlay preempts anywhere, leave
renderer and arbiter in agreement (`RendererKnowsOwner`); three sessions that
cross need not, be they three Plays or two and an AirPlay session, and
`dlna_crossing` is that case. What does not depend on it, `PlayingHasMedia`,
`NoMediaLeaks` and `ProxyServesOwner`, is checked with three handlers at once.
`dlna` is checked up to a VIEW that keeps of the history of owners only whether
AirPlay preempted a media session, which is all its properties read. In
`airplay`, `overtaken` marks a session that was closed with a request in hand;
`airplay_zombie` is what may come of it. Where a run bounds a counter
(`MaxGeneration`, `MaxRecords`, `MaxSets`, `MaxRequests`, `MaxRestarts`,
`MaxFrames`, `MaxTokens`), the guard that does so is the named constant.
`MaxGeneration` bounds only grants: a release is always possible, so no state is
stuck with an owner. `airplay` is checked up to a VIEW that leaves out the
history of owners and the generation: no property of that run reads them, and
`RecordsAssumption` makes sure that the generation's bound is never what stops a
grant. `stack` has such a VIEW too. The largest state spaces are those of
`token` (9.6 million states), `airplay` (7.2 million) and `stack` (4 million). `dlna` runs the policies
latest and lock; with idle it takes longer than minutes, and only the theorems
cover it.

Deadlock is checked for the arbiter and for the coordinator. The others may
stop: closed connections, a closed hub and used-up bounds leave nothing to do.
For the sessions, `NobodyWaitsForEver` says instead that a goroutine with work
in hand can go on, and `StackGoesOn` that while there is one some goroutine or
the control loop can.

## Fairness

- `RenderingControl` (run `arbiter`): time passes, and sessions that want the
  speaker keep asking. This is the assumption under which a silent owner can
  lose it; nothing is assumed of the owner or of those who set volumes.
- `Playback`, `VolumeSync`: goroutines that can run do run (weak fairness per
  step), calls of the cloud return because the HTTP client has a timeout, and
  a goroutine blocked on a channel is served in FIFO order by the Go runtime,
  which is strong fairness of the send. Nobody has to call Activate, SetVolume
  or Close. `TimerExpires` is weakly fair although each update restarts the
  timer: the user stops some time (`MaxSets`).
- `AudioHub`: a handler with work in hand goes on; network writes return.
  Neither new clients nor new packets are fair.
- `AirPlaySession`, `AirPlayPlayback`, `DlnaRenderer`, `TokenAccount`: none, their runs check no
  liveness.

## Proofs

`tlapm` checks them without any assumption but those the modules name: no
session is `NoSession`, sessions have a protocol, the timeout and the channel
capacity are positive, volumes are integers, the main goroutine, the handlers
and the refresher are none of the others, and RECORDs are bounded by the
generations (`RecordsAssumption`, about the two bounds). The theorems hold for
any number of sessions, callers, handlers, clients, setters, requests and
restarts; the runs show the same formulas on an instance. Every safety invariant
and every action property of a passing run is a theorem, `NobodyWaitsForEver`
excepted.

*Arbiter.* `ManagerCorrect` is inductive as it stands: the length of the
history of owners is the generation and its last element is the owner.
`ManagerStaleStaysStale` follows: an ownership ends only in `ChangeOwner`,
which draws a number never used. `ManagerHoldsPolicy` is about the history: any
two owners with no release between them are a pair the policy allows. A
preemption adds a last owner to it, which `CanReplace` compares with the one
before only; that it is allowed after all the earlier ones needs them chained,
which is the induction. `ControlKeepsArbiter`, `PlaybackKeepsArbiter`,
`SessionKeepsArbiter` and `RendererKeepsArbiter` carry all three to the modules
that extend the arbiter: each of their steps is one of `ManagerNext` or leaves
the arbiter alone, so their `Spec` implies `ManagerSpec`. `VolumeSync` has no such
theorem, because its `Restart` takes the generation back to zero.

*Coordinator.* The invariant `Inv` in `Playback_proofs` is the conjunction of

- `TypeOK` and `GenerationNamesOwner`;
- `CommandsGenuine`: each command on its way (with a caller, in the channel,
  in the loop) carries a generation that was handed out, and the session
  (or nobody, for a pause) that generation stands for;
- `SpeakerFollows`: the speaker plays the owner of the generation last shown,
  which is not after the present one nor after the command in the loop once it
  was checked;
- `AbandonedForward`: what was given up is not ahead of the present generation;
- `OwnerServed`: until the present generation was shown or given up, a command
  for it is on its way.

`OwnerServed` alone is not inductive: dropping a command as stale is only
harmless because a command with the present generation also names the present
owner, and that is `CommandsGenuine`; `SpeakerFollows` is what lets a step of
the loop map to `Handover!Show`. From `Inv` follow `PlaybackTypeCorrect`,
`PlaybackServesOwner`, `PlaybackSpeakerMatches` (at rest nothing is on its way,
so the present generation was shown, unless given up) and
`PlaybackFollowsOwners`, the refinement of `Handover`. `PlaybackRespectsPolicy`
takes the policy to what is heard: the speaker moves forward along the history of
owners, and that history is one `ManagerHoldsPolicy` allows.
`PlaybackStrandsNobody` is the part of `CallsReturn` that needs no fairness: who
finds the channel full waits for a loop that is about to take something out of it.

*Volume requests.* `ControlSavesVolume` is about what the file may hold while
calls of SetVolume cross and saves fail. Two histories say it: `recent` is what
the last store wrote and what the calls it overtook have still to save,
`restorable` is `recent` as it was when a save last succeeded. `SavesAreRecent`:
whoever has still to save has a volume in `recent`, and once nobody has, with no
save failed since the last store, `restorable` is `recent`. So a save that
succeeds never takes the file back behind the last store, but for the calls it
overtook, and what is stored gets saved.
`ControlRestoresVolume` rests on `AloneInv`: as long as a control point was left
alone, the renderer's copy, what its call in hand carries and what the
coordinator has differ only by that call. `ControlTypeCorrect` goes with it.

*Volume scales.* `HigherIsLouder` carries the order of two sliders to their
volumes, for all integers. `CurvesAreInverse` is the round trip: one curve after
the other moves a volume by one at most, the second time not at all, and only
zero is mute. With the type of the volume they give `ControlKeepsVolume` and
`ControlIsMonotone`: whatever sessions and SOAP handlers did to the volume, a
phone that touches its slider keeps it and one that moves it is obeyed.

*Volume on its way.* `NewestKept`: the update sent last is the last in the
channel, else the one waiting for the timer, else the one being applied, else
was handled, and a timer that will not fire has nothing waiting. It needs the
types (an update differs from `NoUpdate`) and gives `SyncHandlesLastUpdate`. The
same facts make `SyncHandlesInOrder`, the refinement of `Mailbox`: a send puts,
merging supersedes, since what is pending is in front of what the worker takes
out, an answer of the speaker or a refusal takes, and the timer does nothing. A
timer left without an update waiting for it, or the reverse, would let a change
vanish with none behind it, which no step of `Mailbox` does. `SyncRestoresVolume`
is the same argument as `ControlSavesVolume`, with restarts: at any moment,
between a store and its save too, a restart brings back a volume in `restorable`,
for any number of setters.

*Audio.* The history is the last frames sent (`LastFrames`), and per client

- `StreamInv`: the channel increases; a stream that began after the last raw
  frame is in strict order, with what was taken out of the channel before what
  is in it; while there is no decoder, copies from the history lie in front of
  slices of the packet buffer, and nothing goes backwards;
- `PlaceInv`: who is listed as a listener has an open channel, and who has not
  subscribed yet has nothing;
- `CompleteInv`: what was taken out, what is in the channel and what it refused
  make all frames since the client joined.

`WrittenInOrder` alone says nothing of what is in the channel, so taking a frame
out would break it; `CompleteInv` needs `StreamInv` to know that a frame is in
one place only as it moves. From them follow `HubSendsIntoOpenChannels`,
`HubWritesInOrder` and `HubLosesNothingSilently`.

*RTSP sessions.* The agreement of sessions and arbiter holds at rest; the
invariant `IInv` says who is about to restore it at every other moment:

- `Agreement`: a session that believes, or is about to learn, that it owns the
  speaker and does not is being closed; one that owns it and does not know
  is about to learn it, or somebody is about to tell the arbiter, or it closes;
- `CloseRuns`: a Close that has begun has a goroutine in it until the connection
  is shut, and nobody stops or shuts a session outside of its Close except
  (`PauseStops`) a PAUSE of the session itself, which has given up ownership;
- `ClosedTakesNothing`, `ShutReleased`: unless it was overtaken by its own
  request, a closing session has no request in hand, and once its shutting has
  begun it owns nothing that nobody is about to release, and no open socket
  after it;
- `FreshUnknown`: nobody closes a session that is not in the table yet.

`SessionMatchesArbiter` and `SessionLeavesNothing` follow, because at rest no
goroutine is in any of those places. From `CloseRuns` follows
`NoCircleOfCloses`, the part of `NobodyWaitsForEver` that can be said without
ENABLED: who waits for a Close waits for a goroutine in the middle of it, and
that one waits for nobody. `SessionStaysClosed` is about steps: a session that
was not overtaken by its own request has no connection or open socket once
closed, and never comes by the speaker again.

*Sessions over the coordinator.* `AirPlayPlayback` has no invariant of its own
for what either part promises: each of its steps is a step of `AirPlaySession`,
or leaves its variables alone (`StackRunsSessions`), and a step of `Playback`,
or leaves those alone (`StackRunsCoordinator`), so every theorem of the two
holds in the composition. `StackMatchesSpeaker` joins them: at rest the sessions
agree with the arbiter and the arbiter with the speaker. `StackNeverStuck` needs
one more invariant, `CallInv`: a goroutine has a cancellation or a command in
hand only at the place of its request where it called the coordinator, and the
loop has ended only after the close. Then the argument is short. Who waits for a
Close waits, by `CloseIsServed`, for a goroutine in the middle of that Close,
which does not wait for another one; if it waits for the channel, the channel is
full and the loop, which has not ended, goes on.

*Renderer.* `MediaHeld`: each media session in the table is the owner's, or some
request in hand will see to it: it has not heard from the arbiter yet, was
refused and will take it back, or has to cancel it because it took the speaker
from it. `NoMediaLeaks` alone says nothing while a request is in hand. With the
types (`RendererTypeCorrect`: what is in the table is not cancelled, a request
carries an id that was given out) and `PlayingHasMedia` it is inductive, and gives
`RendererPlaysMedia`, `RendererLeaksNothing` and `RendererStreamsOwner`, the last
because a proxy found its session in the table.

`RendererAgrees` (`RendererKnowsOwner`) needs to follow two crossing requests
through every order of their steps. Beside `IInv` it rests on `KInv`:

- `Crowded`: the requests in hand are a finite set of no more than `atOnce`, so
  that of three places that look different two are the same;
- `PlaysFresh`: the media session of a Play that has not settled is its own;
  nobody else has it active, to stop or to cancel, but who took the speaker from
  it;
- `Lost`: who lost the speaker is not the owner, and a Play that takes its own
  media session back has not made it the active one;
- `SettlesRight`: a granted Play whose media session is still in the table owns
  the speaker, or lost it to another Play that has yet to cancel it, or to
  AirPlay while it is the only request;
- `OwnerKnown`: an owner that is not the active session is known to somebody: a
  Play that will settle, or a Stop that will tell the arbiter.

The last one is what is wanted: at rest nobody knows of such an owner, so there
is none, and `MediaHeld` says the same of an active session that does not own.
It is not inductive alone: a Play that settles replaces the active session, which
is right only if it still owns the speaker, and that is `SettlesRight`; a third
request breaks exactly this, which is the counterexample of `dlna_crossing`. With
`Orderly` as the hypothesis, `SettlesRight` in turn needs `Crowded` to know that
two Plays are all there is. `RendererForgets` is about steps: a cancelled media
session never comes back into the table, as the active one or as the owner,
though requests that carry its id go on.

*Account.* `OneWriter` (the mutex), `FileEmptied` (between truncation and write
the file is empty) and `MeetingTears` (two processes that write at once are
remembered as such while both go on) make `SavedTokenIsCurrent` and
`FileKeepsLogin` inductive: whoever ends a write undisturbed has put what memory
holds at that moment into the file. `AccountTypeCorrect` includes that nobody
calls the cloud without a token. `AccountAcceptsRetry` rests on `RetryInv`: a
second attempt has in hand, or will find in memory, a token that the cloud
accepts for the login in memory, or none, unless it is excused; and what the
cookie jar and a renewal hold was issued to that login. A deletion by another
goroutine leaves none, which only sends the attempt to another renewal.

*Only model-checked*: all liveness properties (the prover has no fairness), and
`NobodyWaitsForEver` as it stands, which is about ENABLED; `NoCircleOfCloses`
and `StackNeverStuck` prove what it is about, that nobody waits in a circle.
(That `~Blocked` is ENABLED of a step for a goroutine that is not at rest can be
seen from the guards; it is not proved.) Proofs by induction over data are out
of the prover's reach too; no theorem here needs one.

## Findings

Each is a run that ends in a counterexample; `PROJECT.json` quotes the line it
contradicts.

1. `volume_stale`: after a play the speaker is set to a volume read half a
   second before (`playback/coordinator.go:270`), over a newer one. Both the
   daemon and the phone then show a volume the speaker does not have.
2. `dlna_crossing`: a Play that AirPlay preempted settles late over the Play
   that took the speaker back (`dlna/soap.go:143`), and AirPlay's cancel clears
   it: the owner plays on, the renderer says STOPPED and Stop has no effect. Three
   Plays that cross do the same without AirPlay.
3. `airplay_zombie`: a session closed while its second RECORD was in hand
   acquires the speaker and keeps it with its connection closed
   (`airplay/server.go:720`); under "priority" a session of the
   protocol that is not preferred can then never take it.
4. `token_login_kept`: the running daemon saves its old login over the one of a
   QR login (`miservice/account.go:441`).

Seen while modelling, without a document that says otherwise, and therefore part
of what the properties allow:

- without an ALAC decoder, queued frames are slices of the packet buffer
  (`airplay/server.go:937`, `:102`), so a later packet shows through and an
  earlier one is lost: `NothingLostSilently` is about decoded audio and
  `WrittenInOrder` lets raw frames repeat;
- two SetVolume calls at once may store in one order and save in the other
  (`playback/coordinator.go:164-167`), and a save may fail unnoticed (99-109):
  `FileHoldsRecent` and `RestartRestoresVolume` say what the file may then hold;
- unmute sends the renderer's own volume, 50 at first, also when AirPlay has set
  another (`dlna/soap.go:278`): `UnmuteRestores` is about a control point that
  set the volume itself and was left alone;
- a Stop may set STOPPED after a Play became active in between
  (`dlna/soap.go:180`): `PlayingHasMedia` is about PLAYING only;
- a QR login keeps an older stored token instead of exchanging its own
  (`miservice/account.go:200`); the first refusal heals it (`RetryIsAccepted`);
- a restart while the store file is being written, or two processes that write it
  at once, can lose the login (`miservice/account.go:108`): `FileKeepsLogin`
  names both cases.

## Not modelled

- The status file (nothing reads it back), SSDP and mDNS, XML templates and SOAP
  formatting, signing helpers and the third-party ALAC decoder keep no state
  that matters here.
- Of the RTSP sessions: the request parser, the challenge of the first response,
  and the control and timing sockets, which answer packets from constants.
- Of the account: the token status the web page shows (`HasCredentials`,
  `Valid`), which no decision reads, and two tool processes at once, which cross
  each other as one crosses the daemon.
- The LuCI pages, the init script and packaging are outside the daemon; their
  one effect on its state, the tool process, is in `TokenAccount`.
- `main.go` is wiring. The callbacks of the AirPlay server and the order in which
  it and the coordinator are closed are in `AirPlayPlayback`; those of the DLNA
  server are not, but in each module Close may come at any moment. What the speaker does after the daemon has
  stopped is nowhere said: at shutdown the last pause may be taken or not
  (`playback/coordinator.go:199`), and no property speaks of it.

## What could follow

1. The composition of `DlnaRenderer` with `Playback`, as `AirPlayPlayback` does it
   for AirPlay. Its requests cancel media in critical sections of their own, so
   that the projections need the renderer's media sessions as the arbiter's.
2. An abstract renderer with atomic requests that the orderly behaviours of
   `DlnaRenderer` implement; `KInv` has what the mapping needs to know of requests
   in hand.
3. Three AirPlay connections in a run; the theorems have any number.
4. The speaker's volume over `Mailbox` alone, with the goroutine after a play, to
   prove `SpeakerHasRememberedVolume` once that goroutine reads the volume when it
   sets it.
