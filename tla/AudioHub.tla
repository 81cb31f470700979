------------------------------ MODULE AudioHub ------------------------------
(***************************************************************************)
(* The audio path of one AirPlay session in src/core/airplay/server.go:    *)
(* the RTP goroutine broadcasts frames into an AudioStreamHub, which keeps *)
(* a short history and a bounded channel for each HTTP client (the         *)
(* speaker); a handler per client primes its player and then copies its    *)
(* channel to the connection until the hub closes.  Frames are numbered in *)
(* the order of their packets.                                             *)
(***************************************************************************)
EXTENDS Integers, SequencesExt

CONSTANTS
    Client,       \* HTTP requests for the session's stream
    HistoryMax,   \* maxHistoryBytes, in frames of equal size
    Room,         \* the places a channel has besides the history's (128)
    PrimeFrames,  \* primingBytes, in frames
    MaxFrames     \* bound: the packets of a session

ASSUME HubAssumption ==
    /\ HistoryMax \in Nat /\ Room \in Nat \ {0}
    /\ PrimeFrames \in Nat /\ MaxFrames \in Nat

VARIABLES
    raw,        \* no decoder yet: packets are broadcast as they are
    read,       \* packets read so far; the shared packet buffer holds the last
    sent,       \* packets broadcast so far
    history,    \* h.history
    closed,     \* h.closed
    listeners,  \* the clients whose channel is in h.listeners
    at,         \* where each client's handler is
    queue,      \* each client's channel
    cap,        \* its capacity
    open,       \* whether it is open
    primed,     \* primingBuf
    written,    \* history: the frames written to the client
    lastRaw,    \* history: the last frame broadcast without a decoder
    joined,     \* history: the first frame the client could get
    missed      \* history: the frames its full channel did not take

hubVars == <<history, closed, listeners>>
clientVars == <<at, queue, cap, open, primed, written, joined, missed>>
vars == <<raw, lastRaw, read, sent, hubVars, clientVars>>

\* A frame in a channel.  The history has copies, and so has a decoded frame its
\* own memory; a raw live frame is a slice of the packet buffer.
Entry == [frame : 1..MaxFrames, copy : BOOLEAN]

\* What a reader of the entry finds now: the next packet is read into the buffer.
Content(e) == IF e.copy THEN e.frame ELSE read

Places == {"idle", "found", "priming", "streaming", "gone"}

TypeOK ==
    /\ raw \in BOOLEAN
    /\ lastRaw \in 0..sent
    /\ read \in 0..MaxFrames
    /\ sent \in 0..read
    /\ history \in Seq(1..MaxFrames) /\ Len(history) <= HistoryMax
    /\ closed \in BOOLEAN
    /\ listeners \subseteq Client
    /\ at \in [Client -> Places]
    /\ \A c \in Client : queue[c] \in Seq(Entry) /\ Len(queue[c]) <= cap[c]
    /\ \A c \in Client : primed[c] \in Seq(1..MaxFrames) /\ Len(primed[c]) <= PrimeFrames
    /\ \A c \in Client : written[c] \in Seq(1..MaxFrames)

Init ==
    /\ raw = TRUE /\ lastRaw = 0
    /\ read = 0 /\ sent = 0
    /\ history = <<>>
    /\ closed = FALSE
    /\ listeners = {}
    /\ at = [c \in Client |-> "idle"]
    /\ queue = [c \in Client |-> <<>>]
    /\ cap = [c \in Client |-> 0]
    /\ open = [c \in Client |-> FALSE]
    /\ primed = [c \in Client |-> <<>>]
    /\ written = [c \in Client |-> <<>>]
    /\ joined = [c \in Client |-> 0]
    /\ missed = [c \in Client |-> {}]

-----------------------------------------------------------------------------
\* ANNOUNCE, handleUDPPackets and the hub.

\* ANNOUNCE brings the parameters of the decoder, at any time: the request and
\* the packets have goroutines of their own.
Announce ==
    /\ raw
    /\ raw' = FALSE
    /\ UNCHANGED <<lastRaw, read, sent, hubVars, clientVars>>

\* ReadFrom puts the next packet into the one buffer of the loop.
ReadPacket ==
    /\ read = sent
    /\ read < MaxFrames
    /\ read' = read + 1
    /\ UNCHANGED <<raw, lastRaw, sent, hubVars, clientVars>>

\* A full channel does not get the frame; nobody waits for it.
Takes(c) == Len(queue[c]) < cap[c]

\* Variant: the history is trimmed one frame too late.
BroadcastLateTrim ==
    /\ sent < read
    /\ sent' = read
    /\ lastRaw' = IF raw /\ ~closed THEN read ELSE lastRaw
    /\ IF closed
       THEN UNCHANGED <<history, queue, missed>>
       ELSE LET kept == Append(history, read) IN
            /\ history' = IF HistoryMax = 0 THEN history
                          ELSE SubSeq(kept, IF Len(kept) > HistoryMax + 1 THEN 2 ELSE 1,
                                      Len(kept))
            /\ queue' = [c \in Client |->
                           IF c \in listeners /\ Takes(c)
                           THEN Append(queue[c], [frame |-> read, copy |-> ~raw])
                           ELSE queue[c]]
            /\ missed' = [c \in Client |->
                            IF c \in listeners /\ ~Takes(c)
                            THEN missed[c] \union {read} ELSE missed[c]]
    /\ UNCHANGED <<raw, read, closed, listeners, at, cap, open, primed, written, joined>>

Broadcast ==
    /\ sent < read
    /\ sent' = read
    /\ lastRaw' = IF raw /\ ~closed THEN read ELSE lastRaw
    /\ IF closed
       THEN UNCHANGED <<history, queue, missed>>
       ELSE LET kept == Append(history, read) IN
            /\ history' = IF HistoryMax = 0 THEN history
                          ELSE SubSeq(kept, IF Len(kept) > HistoryMax THEN 2 ELSE 1, Len(kept))
            /\ queue' = [c \in Client |->
                           IF c \in listeners /\ Takes(c)
                           THEN Append(queue[c], [frame |-> read, copy |-> ~raw])
                           ELSE queue[c]]
            /\ missed' = [c \in Client |->
                            IF c \in listeners /\ ~Takes(c)
                            THEN missed[c] \union {read} ELSE missed[c]]
    /\ UNCHANGED <<raw, read, closed, listeners, at, cap, open, primed, written, joined>>

\* FLUSH and PAUSE: the history goes, the clients keep what they have.
Reset ==
    /\ history' = <<>>
    /\ UNCHANGED <<raw, lastRaw, read, sent, closed, listeners, clientVars>>

\* Variant: the listeners stay in the map.
CloseHubKeepsListeners ==
    /\ ~closed
    /\ closed' = TRUE
    /\ history' = <<>>
    /\ open' = [c \in Client |-> open[c] /\ c \notin listeners]
    /\ UNCHANGED <<raw, lastRaw, read, sent, listeners, at, queue, cap, primed, written, joined, missed>>

\* Variant: the listeners are forgotten with their channels open.
CloseHubLeavesChannels ==
    /\ ~closed
    /\ closed' = TRUE
    /\ history' = <<>>
    /\ listeners' = {}
    /\ UNCHANGED <<raw, lastRaw, read, sent, at, queue, cap, open, primed, written, joined, missed>>

CloseHub ==
    /\ ~closed
    /\ closed' = TRUE
    /\ history' = <<>>
    /\ listeners' = {}
    /\ open' = [c \in Client |-> open[c] /\ c \notin listeners]
    /\ UNCHANGED <<raw, lastRaw, read, sent, at, queue, cap, primed, written, joined, missed>>

-----------------------------------------------------------------------------
\* The HTTP handler.

\* The session is found by its id before the hub is asked; it may close between.
Connect(c) ==
    /\ at[c] = "idle"
    /\ ~closed
    /\ at' = [at EXCEPT ![c] = "found"]
    /\ UNCHANGED <<raw, lastRaw, read, sent, hubVars, queue, cap, open, primed, written, joined, missed>>

\* Variant: the channel starts without the history.
SubscribeLiveOnly(c) ==
    /\ at[c] = "found"
    /\ at' = [at EXCEPT ![c] = "priming"]
    /\ IF closed
       THEN UNCHANGED <<listeners, cap, open, joined>>
       ELSE /\ listeners' = listeners \union {c}
            /\ cap' = [cap EXCEPT ![c] = Len(history) + Room]
            /\ open' = [open EXCEPT ![c] = TRUE]
            /\ joined' = [joined EXCEPT ![c] =
                            IF history = <<>> THEN sent + 1 ELSE Head(history)]
    /\ UNCHANGED <<raw, lastRaw, read, sent, history, closed, queue, primed, written, missed>>

\* A closed hub gives a closed channel, an open one a channel with its history.
Subscribe(c) ==
    /\ at[c] = "found"
    /\ at' = [at EXCEPT ![c] = "priming"]
    /\ IF closed
       THEN UNCHANGED <<listeners, queue, cap, open, joined>>
       ELSE /\ listeners' = listeners \union {c}
            /\ cap' = [cap EXCEPT ![c] = Len(history) + Room]
            /\ open' = [open EXCEPT ![c] = TRUE]
            /\ queue' = [queue EXCEPT ![c] =
                           [i \in 1..Len(history) |-> [frame |-> history[i], copy |-> TRUE]]]
            /\ joined' = [joined EXCEPT ![c] =
                            IF history = <<>> THEN sent + 1 ELSE Head(history)]
    /\ UNCHANGED <<raw, lastRaw, read, sent, history, closed, primed, written, missed>>

\* Unsubscribe, deferred: closes the channel unless the hub did.
Leave(c) ==
    /\ at' = [at EXCEPT ![c] = "gone"]
    /\ listeners' = listeners \ {c}
    /\ open' = [open EXCEPT ![c] = @ /\ c \notin listeners]

Collecting(c) == Len(primed[c]) < PrimeFrames

\* Variant: the primed frame stays in the channel.
PrimePeeks(c) ==
    /\ at[c] = "priming"
    /\ Collecting(c)
    /\ queue[c] # <<>>
    /\ primed' = [primed EXCEPT ![c] = Append(@, Content(Head(queue[c])))]
    /\ UNCHANGED <<raw, lastRaw, read, sent, hubVars, at, queue, cap, open, written, joined, missed>>

\* The priming loop takes what is there, without waiting ...
Prime(c) ==
    /\ at[c] = "priming"
    /\ Collecting(c)
    /\ queue[c] # <<>>
    /\ primed' = [primed EXCEPT ![c] = Append(@, Content(Head(queue[c])))]
    /\ queue' = [queue EXCEPT ![c] = Tail(@)]
    /\ UNCHANGED <<raw, lastRaw, read, sent, hubVars, at, cap, open, written, joined, missed>>

\* ... and writes it, padded with silence; or the client has gone.
WritePrimed(c) ==
    /\ at[c] = "priming"
    /\ Collecting(c) => queue[c] = <<>>
    /\ \/ /\ written' = [written EXCEPT ![c] = primed[c]]
          /\ at' = [at EXCEPT ![c] = "streaming"]
          /\ UNCHANGED <<listeners, open>>
       \/ Leave(c) /\ UNCHANGED written
    /\ UNCHANGED <<raw, lastRaw, read, sent, history, closed, queue, cap, primed, joined, missed>>

\* A frame from the channel to the connection; or the client has gone.
Stream(c) ==
    /\ at[c] = "streaming"
    /\ queue[c] # <<>>
    /\ queue' = [queue EXCEPT ![c] = Tail(@)]
    /\ \/ /\ written' = [written EXCEPT ![c] = Append(@, Content(Head(queue[c])))]
          /\ UNCHANGED <<at, listeners, open>>
       \/ Leave(c) /\ UNCHANGED written
    /\ UNCHANGED <<raw, lastRaw, read, sent, history, closed, cap, primed, joined, missed>>

\* The channel is closed and drained.
EndStream(c) ==
    /\ at[c] = "streaming"
    /\ queue[c] = <<>>
    /\ ~open[c]
    /\ Leave(c)
    /\ UNCHANGED <<raw, lastRaw, read, sent, history, closed, queue, cap, primed, written, joined, missed>>

HandlerStep(c) == Subscribe(c) \/ Prime(c) \/ WritePrimed(c) \/ Stream(c) \/ EndStream(c)

Next ==
    \/ Announce \/ ReadPacket \/ Broadcast \/ Reset \/ CloseHub
    \/ \E c \in Client :
          Connect(c) \/ Subscribe(c) \/ Prime(c) \/ WritePrimed(c) \/ Stream(c) \/ EndStream(c)

Spec == Init /\ [][Next]_vars

\* A handler that can run does, and a write to its client returns.
FairSpec == Spec /\ \A c \in Client : WF_vars(HandlerStep(c))

-----------------------------------------------------------------------------

\* A broadcast sends only into open channels: a send into a closed one would
\* end the daemon, whichever of hub and handler closed it.
ListenersOpen == \A c \in listeners : open[c]

\* A client whose stream is decoded gets frames in their order, none twice, with
\* the content they were broadcast with, also where history changes to live
\* frames.  A raw stream shares its buffer with the packet loop: a later packet may
\* show through a frame, but never an earlier one.  The frames in the channel when
\* ANNOUNCE comes have no order to keep.
WrittenInOrder ==
    \A c \in Client : \A i \in 1..(Len(written[c]) - 1) :
       /\ lastRaw < joined[c] => written[c][i] < written[c][i + 1]
       /\ raw => written[c][i] <= written[c][i + 1]

\* Nothing decoded is lost between the history and the live frames, in priming or
\* on the way: what a client was written, will be written and missed because its
\* channel was full is every frame since the first it could get.
NothingLostSilently ==
    \A c \in listeners :
       lastRaw < joined[c] =>
       ToSet(IF at[c] = "priming" THEN primed[c] ELSE written[c])
         \union {e.frame : e \in ToSet(queue[c])} \union missed[c] = joined[c]..sent

\* When the session closes, each stream ends after its last frame: no handler
\* is left waiting for a frame that will not come.
StreamsEnd ==
    \A c \in Client : closed /\ at[c] # "idle" ~> at[c] = "gone"
=============================================================================
