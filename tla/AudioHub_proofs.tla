-------------------------- MODULE AudioHub_proofs --------------------------
(***************************************************************************)
(* Proofs about AudioHub, for any clients, history and channel sizes: the  *)
(* hub never sends into a closed channel, decoded frames reach each client *)
(* in their order, and none between the first it could get and the last    *)
(* broadcast is lost unless its channel was full.                          *)
(***************************************************************************)
EXTENDS AudioHub, TLAPS

-----------------------------------------------------------------------------
\* What a channel and the frames already taken out of it have in common.

Frame == 1..MaxFrames

\* The channel holds frames in their order, none after frame n.
Increasing(q, n) ==
    /\ \A i, j \in 1..Len(q) : i < j => q[i].frame < q[j].frame
    /\ \A i \in 1..Len(q) : q[i].frame <= n

\* A decoded stream: out was taken out and is in order, the rest follows it.
Decoded(out, q, n) ==
    /\ \A i \in 1..Len(out) : out[i] <= n
    /\ \A i, j \in 1..Len(out) : i < j => out[i] < out[j]
    /\ \A i \in 1..Len(out), j \in 1..Len(q) : out[i] < q[j].frame
    /\ \A j \in 1..Len(q) : q[j].copy

\* A stream without a decoder: the copies, which came from the history, are in
\* front of the slices of the packet buffer, which holds packet n.
Shared(out, q, n) ==
    /\ \A i \in 1..Len(out) : out[i] <= n
    /\ \A i, j \in 1..Len(out) : i < j => out[i] <= out[j]
    /\ \A i \in 1..Len(out), j \in 1..Len(q) : q[j].copy => out[i] <= q[j].frame
    /\ \A i, j \in 1..Len(q) : i < j /\ q[j].copy => q[i].copy

Frames(q) == {e.frame : e \in ToSet(q)}

LEMMA TailOf ==
  ASSUME NEW S, NEW q \in Seq(S), q # <<>>
  PROVE  /\ Tail(q) \in Seq(S) /\ Head(q) = q[1] /\ Head(q) \in S
         /\ Len(q) \in Nat /\ Len(q) > 0 /\ Len(Tail(q)) = Len(q) - 1
         /\ 1 \in 1..Len(q)
         /\ \A i \in 1..Len(Tail(q)) :
               Tail(q)[i] = q[i + 1] /\ i \in Nat /\ i + 1 \in 1..Len(q) /\ 1 < i + 1
  OBVIOUS

\* What the elements of the tail satisfy, from what those of the sequence do.
LEMMA EntryTail ==
  ASSUME NEW q \in Seq(Entry), q # <<>>, NEW n \in Nat, Increasing(q, n)
  PROVE  /\ Head(q) \in Entry /\ Head(q).frame <= n
         /\ \A j \in 1..Len(Tail(q)) : Head(q).frame < Tail(q)[j].frame
         /\ Increasing(Tail(q), n)
<1>1. Head(q) \in Entry /\ Head(q).frame <= n
  BY TailOf DEF Increasing
<1>2. ASSUME NEW j \in 1..Len(Tail(q)) PROVE Head(q).frame < Tail(q)[j].frame
  <2>1. 1 \in 1..Len(q) /\ j + 1 \in 1..Len(q) /\ 1 < j + 1
        /\ Tail(q)[j] = q[j + 1] /\ Head(q) = q[1]
    BY TailOf
  <2>. QED
    BY <2>1, Zenon DEF Increasing
<1>3. ASSUME NEW i \in 1..Len(Tail(q)), NEW j \in 1..Len(Tail(q)), i < j
      PROVE  Tail(q)[i].frame < Tail(q)[j].frame
  <2>1. i + 1 \in 1..Len(q) /\ j + 1 \in 1..Len(q)
        /\ Tail(q)[i] = q[i + 1] /\ Tail(q)[j] = q[j + 1]
    BY TailOf
  <2>2. i + 1 < j + 1
    BY <1>3, TailOf
  <2>. QED
    BY <2>1, <2>2, Zenon DEF Increasing
<1>4. ASSUME NEW i \in 1..Len(Tail(q)) PROVE Tail(q)[i].frame <= n
  <2>1. i + 1 \in 1..Len(q) /\ Tail(q)[i] = q[i + 1]
    BY TailOf
  <2>. QED
    BY <2>1, Zenon DEF Increasing
<1>. QED
  BY <1>1, <1>2, <1>3, <1>4, Zenon DEF Increasing

LEMMA AppendOf ==
  ASSUME NEW S, NEW q \in Seq(S), NEW x \in S
  PROVE  /\ Append(q, x) \in Seq(S) /\ Len(q) \in Nat /\ Len(Append(q, x)) = Len(q) + 1
         /\ Append(q, x)[Len(q) + 1] = x
         /\ \A i \in 1..Len(q) : Append(q, x)[i] = q[i]
  OBVIOUS

LEMMA AppendAt ==
  ASSUME NEW S, NEW q \in Seq(S), NEW x \in S
  PROVE  /\ \A i \in 1..Len(Append(q, x)) :
               \/ i \in 1..Len(q) /\ Append(q, x)[i] = q[i]
               \/ i = Len(q) + 1 /\ Append(q, x)[i] = x
         /\ \A i, j \in 1..Len(Append(q, x)) : i < j => i \in 1..Len(q)
         /\ \A i \in 1..Len(q) : Append(q, x)[i] = q[i]
  BY AppendOf

LEMMA EntryHas == \A e \in Entry : e.frame \in Frame /\ e.frame \in Nat /\ e.copy \in BOOLEAN
  BY DEF Entry, Frame

LEMMA EntriesHave ==
  ASSUME NEW q \in Seq(Entry)
  PROVE  \A i \in 1..Len(q) : q[i].frame \in Frame /\ q[i].frame \in Nat /\ q[i].copy \in BOOLEAN
<1>1. \A i \in 1..Len(q) : q[i] \in Entry
  OBVIOUS
<1>. QED
  BY <1>1, EntryHas, Zenon

LEMMA FramesAre ==
  ASSUME NEW out \in Seq(Frame)
  PROVE  \A i \in 1..Len(out) : out[i] \in Nat
<1>1. \A i \in 1..Len(out) : out[i] \in Frame
  OBVIOUS
<1>2. \A f \in Frame : f \in Nat
  BY DEF Frame
<1>. QED
  BY <1>1, <1>2, Zenon

LEMMA ToSetEmpty == ToSet(<<>>) = {} /\ Frames(<<>>) = {}
  BY DEF ToSet, Frames

LEMMA ToSetAppend ==
  ASSUME NEW S, NEW q \in Seq(S), NEW x \in S
  PROVE  ToSet(Append(q, x)) = ToSet(q) \union {x}
<1>1. DOMAIN q = 1..Len(q) /\ DOMAIN Append(q, x) = 1..(Len(q) + 1) /\ Len(q) \in Nat
  OBVIOUS
<1>2. \A y \in ToSet(Append(q, x)) : y \in ToSet(q) \union {x}
  BY <1>1, AppendOf DEF ToSet
<1>3. \A y \in ToSet(q) \union {x} : y \in ToSet(Append(q, x))
  BY <1>1, AppendOf DEF ToSet
<1>. QED
  BY <1>2, <1>3

LEMMA ToSetTail ==
  ASSUME NEW S, NEW q \in Seq(S), q # <<>>
  PROVE  ToSet(q) = {Head(q)} \union ToSet(Tail(q))
<1>1. /\ DOMAIN q = 1..Len(q) /\ DOMAIN Tail(q) = 1..(Len(q) - 1)
      /\ Len(q) \in Nat /\ Len(q) > 0
  BY TailOf
<1>2. ASSUME NEW i \in 1..Len(q) PROVE q[i] \in {Head(q)} \union ToSet(Tail(q))
  <2>1. CASE i = 1
    BY <2>1
  <2>2. CASE i # 1
    <3>1. i - 1 \in 1..(Len(q) - 1) /\ Tail(q)[i - 1] = q[i]
      BY <1>1, <2>2, TailOf
    <3>. QED
      BY <1>1, <3>1 DEF ToSet
  <2>. QED
    BY <2>1, <2>2
<1>3. ASSUME NEW i \in 1..(Len(q) - 1) PROVE Tail(q)[i] \in ToSet(q)
  BY <1>1, TailOf DEF ToSet
<1>4. Head(q) \in ToSet(q)
  BY <1>1, TailOf DEF ToSet
<1>. QED
  BY <1>1, <1>2, <1>3, <1>4 DEF ToSet

\* Taking the first entry.
LEMMA PopDecoded ==
  ASSUME NEW q \in Seq(Entry), q # <<>>, NEW out \in Seq(Frame), NEW n \in Nat,
         Increasing(q, n), Decoded(out, q, n)
  PROVE  /\ Head(q).copy /\ Decoded(out, Tail(q), n)
         /\ Decoded(Append(out, Head(q).frame), Tail(q), n)
<1>. DEFINE x == Head(q).frame
            rest == Tail(q)
            more == Append(out, x)
<1>1. /\ \A i \in 1..Len(rest) : i + 1 \in 1..Len(q) /\ rest[i] = q[i + 1]
      /\ Head(q) = q[1] /\ 1 \in 1..Len(q)
  BY TailOf
<1>2. x \in Frame /\ x <= n /\ \A j \in 1..Len(rest) : x < rest[j].frame
  BY EntryTail DEF Entry, Frame
<1>3. Head(q).copy /\ (\A j \in 1..Len(rest) : rest[j].copy)
      /\ \A i \in 1..Len(out) : out[i] < x /\ \A j \in 1..Len(rest) : out[i] < rest[j].frame
  BY <1>1, Zenon DEF Decoded
<1>4. Decoded(out, rest, n)
  BY <1>3, Zenon DEF Decoded
<1>5. /\ \A i \in 1..Len(more) : \/ i \in 1..Len(out) /\ more[i] = out[i]
                                 \/ i = Len(out) + 1 /\ more[i] = x
      /\ \A i, j \in 1..Len(more) : i < j => i \in 1..Len(out)
      /\ \A i \in 1..Len(out) : more[i] = out[i]
  BY <1>2, AppendAt
<1>. HIDE DEF x, rest, more
<1>6. \A i \in 1..Len(more) : more[i] <= n
  BY <1>2, <1>4, <1>5, Zenon DEF Decoded
<1>7. \A i, j \in 1..Len(more) : i < j => more[i] < more[j]
  BY <1>3, <1>4, <1>5, Zenon DEF Decoded
<1>8. \A i \in 1..Len(more), j \in 1..Len(rest) : more[i] < rest[j].frame
  BY <1>2, <1>3, <1>5, Zenon
<1>9. Decoded(more, rest, n)
  BY <1>3, <1>6, <1>7, <1>8, Zenon DEF Decoded
<1>. QED
  BY <1>3, <1>4, <1>9 DEF x, rest, more

LEMMA PopShared ==
  ASSUME NEW q \in Seq(Entry), q # <<>>, NEW out \in Seq(Frame), NEW n \in Frame,
         NEW m \in Nat, m <= n, Increasing(q, m), Shared(out, q, n)
  PROVE  /\ Shared(out, Tail(q), n)
         /\ Shared(Append(out, IF Head(q).copy THEN Head(q).frame ELSE n), Tail(q), n)
<1>. DEFINE x == IF Head(q).copy THEN Head(q).frame ELSE n
            rest == Tail(q)
            more == Append(out, x)
<1>1. /\ \A i \in 1..Len(rest) :
            i + 1 \in 1..Len(q) /\ rest[i] = q[i + 1] /\ 1 < i + 1 /\ rest[i] \in Entry
      /\ Head(q) = q[1] /\ 1 \in 1..Len(q) /\ Head(q) \in Entry
  BY TailOf
<1>2. Head(q).frame <= m /\ \A j \in 1..Len(rest) : Head(q).frame < rest[j].frame
  BY EntryTail
<1>3. x \in Frame /\ x <= n
  BY <1>1, <1>2 DEF Entry, Frame
<1>4. \A j \in 1..Len(rest) : rest[j].copy => Head(q).copy
  BY <1>1, Zenon DEF Shared
<1>5. \A j \in 1..Len(rest) : rest[j].copy => x <= rest[j].frame
  BY <1>1, <1>2, <1>4 DEF Entry
<1>6. \A i \in 1..Len(out) : out[i] <= x
  BY <1>1, Zenon DEF Shared
<1>7. \A i, j \in 1..Len(rest) : i < j => i + 1 < j + 1
  OBVIOUS
<1>8. Shared(out, rest, n)
  BY <1>1, <1>7, Zenon DEF Shared
<1>9. /\ \A i \in 1..Len(more) : \/ i \in 1..Len(out) /\ more[i] = out[i]
                                 \/ i = Len(out) + 1 /\ more[i] = x
      /\ \A i, j \in 1..Len(more) : i < j => i \in 1..Len(out)
      /\ \A i \in 1..Len(out) : more[i] = out[i]
  BY <1>3, AppendAt
<1>. HIDE DEF x, rest, more
<1>10. Shared(more, rest, n)
  BY <1>3, <1>5, <1>6, <1>8, <1>9, Zenon DEF Shared
<1>. QED
  BY <1>8, <1>10 DEF x, rest, more

\* Putting the next packet at the end.
LEMMA PushIncreasing ==
  ASSUME NEW q \in Seq(Entry), NEW n \in Nat, NEW e \in Entry, e.frame = n + 1,
         Increasing(q, n)
  PROVE  Increasing(Append(q, e), n + 1) /\ Increasing(q, n + 1)
<1>. DEFINE more == Append(q, e)
<1>1. \A i \in 1..Len(q) : q[i].frame \in Nat
  BY EntriesHave
<1>2. \A i \in 1..Len(q) : q[i].frame <= n + 1 /\ q[i].frame < e.frame
  <2>1. \A i \in 1..Len(q) : q[i].frame <= n
    BY Zenon DEF Increasing
  <2>. QED
    BY <1>1, <2>1
<1>3. Increasing(q, n + 1)
  BY <1>2, Zenon DEF Increasing
<1>4. /\ \A i \in 1..Len(more) : \/ i \in 1..Len(q) /\ more[i] = q[i]
                                 \/ i = Len(q) + 1 /\ more[i] = e
      /\ \A i, j \in 1..Len(more) : i < j => i \in 1..Len(q)
      /\ \A i \in 1..Len(q) : more[i] = q[i]
  BY AppendAt
<1>5. e.frame <= n + 1
  OBVIOUS
<1>. HIDE DEF more
<1>6. Increasing(more, n + 1)
  BY <1>2, <1>3, <1>4, <1>5, Zenon DEF Increasing
<1>. QED
  BY <1>3, <1>6 DEF more

LEMMA DecodedLater ==
  ASSUME NEW q, NEW out \in Seq(Frame), NEW n \in Nat, Decoded(out, q, n)
  PROVE  Decoded(out, q, n + 1)
<1>1. \A i \in 1..Len(out) : out[i] <= n + 1
  <2>1. \A i \in 1..Len(out) : out[i] \in Nat /\ out[i] <= n
    BY FramesAre DEF Decoded
  <2>. QED
    BY <2>1
<1>. QED
  BY <1>1, Zenon DEF Decoded

LEMMA PushDecoded ==
  ASSUME NEW q \in Seq(Entry), NEW out \in Seq(Frame), NEW n \in Nat, NEW e \in Entry,
         e.frame = n + 1, e.copy, Decoded(out, q, n)
  PROVE  Decoded(out, Append(q, e), n + 1)
<1>. DEFINE more == Append(q, e)
<1>1. \A i \in 1..Len(out) : out[i] <= n + 1 /\ out[i] < e.frame
  <2>1. \A i \in 1..Len(out) : out[i] \in Nat /\ out[i] <= n
    BY FramesAre DEF Decoded
  <2>. QED
    BY <2>1
<1>2. Decoded(out, q, n + 1)
  BY DecodedLater
<1>3. \A i \in 1..Len(more) : \/ i \in 1..Len(q) /\ more[i] = q[i]
                              \/ i = Len(q) + 1 /\ more[i] = e
  BY AppendAt
<1>. HIDE DEF more
<1>4. Decoded(out, more, n + 1)
  BY <1>1, <1>2, <1>3, Zenon DEF Decoded
<1>. QED
  BY <1>4 DEF more

LEMMA PushShared ==
  ASSUME NEW q \in Seq(Entry), NEW out, NEW n, NEW e \in Entry,
         ~e.copy, Shared(out, q, n)
  PROVE  Shared(out, Append(q, e), n)
<1>. DEFINE more == Append(q, e)
<1>1. /\ \A i \in 1..Len(more) : \/ i \in 1..Len(q) /\ more[i] = q[i]
                                 \/ i = Len(q) + 1 /\ more[i] = e
      /\ \A i, j \in 1..Len(more) : i < j => i \in 1..Len(q)
      /\ \A i \in 1..Len(q) : more[i] = q[i]
  BY AppendAt
<1>2. \A i \in 1..Len(q) : \A j \in 1..Len(more) : i < j /\ more[j].copy => q[i].copy
  BY <1>1, Zenon DEF Shared
<1>. HIDE DEF more
<1>4. Shared(out, more, n)
  BY <1>1, <1>2, Zenon DEF Shared
<1>. QED
  BY <1>4 DEF more

\* The history as a new client's channel.
Copies(h) == [i \in 1..Len(h) |-> [frame |-> h[i], copy |-> TRUE]]

\* The history is what was broadcast last, without a gap.
LastFrames(h, n) == \A i \in 1..Len(h) : h[i] = n - Len(h) + i

LEMMA CopiesOf ==
  ASSUME NEW h \in Seq(Frame), NEW n \in Nat, LastFrames(h, n)
  PROVE  /\ Copies(h) \in Seq(Entry) /\ Len(Copies(h)) = Len(h)
         /\ Increasing(Copies(h), n)
         /\ \A k : Decoded(<<>>, Copies(h), k) /\ Shared(<<>>, Copies(h), k)
         /\ Frames(Copies(h)) = (n - Len(h) + 1)..n
<1>1. Len(h) \in Nat /\ \A i \in 1..Len(h) : h[i] \in Frame
  OBVIOUS
<1>2. Copies(h) \in Seq(Entry) /\ Len(Copies(h)) = Len(h)
  BY <1>1 DEF Copies, Entry, Frame
<1>3. \A i \in 1..Len(h) : Copies(h)[i].frame = n - Len(h) + i /\ Copies(h)[i].copy
  BY <1>1 DEF Copies, LastFrames
<1>. HIDE DEF Copies
<1>4. Increasing(Copies(h), n)
  BY <1>1, <1>2, <1>3 DEF Increasing
<1>5. \A k : Decoded(<<>>, Copies(h), k) /\ Shared(<<>>, Copies(h), k)
  BY <1>2, <1>3 DEF Decoded, Shared
<1>6. \A f : f \in Frames(Copies(h)) <=> \E i \in 1..Len(h) : f = n - Len(h) + i
  <2>1. DOMAIN Copies(h) = 1..Len(h)
    BY <1>2
  <2>. QED
    BY <1>3, <2>1 DEF Frames, ToSet
<1>7. \A f \in (n - Len(h) + 1)..n : f - (n - Len(h)) \in 1..Len(h)
  BY <1>1
<1>8. \A f \in (n - Len(h) + 1)..n : f = n - Len(h) + (f - (n - Len(h)))
  BY <1>1
<1>9. \A i \in 1..Len(h) : n - Len(h) + i \in (n - Len(h) + 1)..n
  BY <1>1
<1>10. \A f : f \in Frames(Copies(h)) <=> f \in (n - Len(h) + 1)..n
  <2>. TAKE f
  <2>1. ASSUME f \in Frames(Copies(h)) PROVE f \in (n - Len(h) + 1)..n
    <3>1. PICK i \in 1..Len(h) : f = n - Len(h) + i
      BY <1>6, <2>1
    <3>. QED
      BY <1>9, <3>1, Zenon
  <2>2. ASSUME f \in (n - Len(h) + 1)..n PROVE f \in Frames(Copies(h))
    BY <1>6, <1>7, <1>8, <2>2, Zenon
  <2>. QED
    BY <2>1, <2>2
<1>. QED
  BY <1>2, <1>4, <1>5, <1>10, Zenon

\* Trimming the history after the next packet.
LEMMA HistoryOf ==
  ASSUME NEW h \in Seq(Frame), NEW n \in Nat, NEW m \in Nat, n + 1 \in Frame,
         LastFrames(h, n), Len(h) <= m
  PROVE  LET kept == Append(h, n + 1)
             trimmed == SubSeq(kept, IF Len(kept) > m THEN 2 ELSE 1, Len(kept))
         IN  m # 0 => trimmed \in Seq(Frame) /\ Len(trimmed) <= m /\ LastFrames(trimmed, n + 1)
<1>. DEFINE kept == Append(h, n + 1)
            trimmed == SubSeq(kept, IF Len(kept) > m THEN 2 ELSE 1, Len(kept))
<1>. SUFFICES ASSUME m # 0
              PROVE  trimmed \in Seq(Frame) /\ Len(trimmed) <= m /\ LastFrames(trimmed, n + 1)
  OBVIOUS
<1>1. kept \in Seq(Frame) /\ Len(h) \in Nat /\ Len(kept) = Len(h) + 1
  BY AppendOf
<1>2. \A i \in 1..Len(kept) : kept[i] = (n + 1) - Len(kept) + i
  <2>. TAKE i \in 1..Len(kept)
  <2>1. CASE i = Len(h) + 1
    BY <1>1, <2>1, AppendOf
  <2>2. CASE i # Len(h) + 1
    <3>1. i \in 1..Len(h)
      BY <1>1, <2>2
    <3>2. kept[i] = h[i] /\ h[i] = n - Len(h) + i
      BY <3>1, AppendOf DEF LastFrames
    <3>. QED
      BY <1>1, <3>2
  <2>. QED
    BY <2>1, <2>2
<1>. HIDE DEF kept
<1>3. CASE Len(kept) > m
  <2>1. trimmed = SubSeq(kept, 2, Len(kept))
    BY <1>3
  <2>2. /\ trimmed \in Seq(Frame) /\ Len(trimmed) = Len(kept) - 1
        /\ \A i \in 1..(Len(kept) - 1) : trimmed[i] = kept[i + 1]
    BY <1>1, <1>3, <2>1
  <2>3. ASSUME NEW i \in 1..(Len(kept) - 1) PROVE trimmed[i] = (n + 1) - (Len(kept) - 1) + i
    <3>1. i + 1 \in 1..Len(kept) /\ trimmed[i] = kept[i + 1]
      BY <1>1, <2>2
    <3>2. kept[i + 1] = (n + 1) - Len(kept) + (i + 1)
      BY <1>2, <3>1
    <3>. QED
      BY <1>1, <3>1, <3>2
  <2>4. Len(trimmed) <= m
    BY <1>1, <2>2
  <2>. HIDE DEF trimmed
  <2>. QED
    BY <2>2, <2>3, <2>4 DEF LastFrames
<1>4. CASE ~(Len(kept) > m)
  <2>1. trimmed = SubSeq(kept, 1, Len(kept))
    BY <1>4
  <2>2. /\ trimmed \in Seq(Frame) /\ Len(trimmed) = Len(kept)
        /\ \A i \in 1..Len(kept) : trimmed[i] = kept[i]
    BY <1>1, <2>1
  <2>3. Len(trimmed) <= m
    BY <1>1, <1>4, <2>2
  <2>. HIDE DEF trimmed
  <2>. QED
    BY <1>2, <2>2, <2>3 DEF LastFrames
<1>. QED
  BY <1>3, <1>4
-----------------------------------------------------------------------------
\* The invariant.

\* What the handler of c has passed on so far.
Passed(c) == IF at[c] = "priming" THEN primed[c] ELSE written[c]

\* The types, as functions of the client, and what a closed hub has forgotten.
TypeInv ==
    /\ raw \in BOOLEAN /\ lastRaw \in 0..sent
    /\ read \in 0..MaxFrames /\ sent \in 0..read /\ read <= sent + 1
    /\ history \in Seq(Frame) /\ Len(history) <= HistoryMax
    /\ closed \in BOOLEAN /\ listeners \subseteq Client
    /\ closed => history = <<>> /\ listeners = {}
    /\ at \in [Client -> Places]
    /\ queue \in [Client -> Seq(Entry)] /\ cap \in [Client -> Nat]
    /\ \A c \in Client : Len(queue[c]) <= cap[c]
    /\ open \in [Client -> BOOLEAN]
    /\ primed \in [Client -> Seq(Frame)]
    /\ \A c \in Client : Len(primed[c]) <= PrimeFrames
    /\ written \in [Client -> Seq(Frame)]
    /\ joined \in [Client -> Nat] /\ missed \in [Client -> SUBSET Frame]

\* The channel of c and what was taken out of it.
StreamInv(c) ==
    /\ Increasing(queue[c], sent)
    /\ lastRaw < joined[c] => Decoded(Passed(c), queue[c], sent)
    /\ raw => Shared(Passed(c), queue[c], read)

\* What the place of c's handler means for its channel.
PlaceInv(c) ==
    /\ joined[c] <= sent + 1
    /\ at[c] \in {"idle", "found"} => queue[c] = <<>> /\ primed[c] = <<>> /\ missed[c] = {}
    /\ at[c] \in {"idle", "found", "priming"} => written[c] = <<>>
    /\ c \in listeners => open[c] /\ at[c] \in {"priming", "streaming"}

\* No frame has been lost on its way to c.
CompleteInv(c) ==
    c \in listeners /\ lastRaw < joined[c] =>
       ToSet(Passed(c)) \union Frames(queue[c]) \union missed[c] = joined[c]..sent

IInv ==
    /\ TypeInv
    /\ LastFrames(history, sent)
    /\ \A c \in Client : StreamInv(c) /\ PlaceInv(c) /\ CompleteInv(c)

LEMMA InvInit == Init => IInv
<1>. SUFFICES ASSUME Init PROVE IInv
  OBVIOUS
<1>1. TypeInv
  <2>1. <<>> \in Seq(Frame) /\ <<>> \in Seq(Entry) /\ Len(<<>>) = 0 /\ "idle" \in Places
    BY DEF Places
  <2>2. HistoryMax \in Nat /\ PrimeFrames \in Nat /\ MaxFrames \in Nat
    BY HubAssumption
  <2>3. /\ raw \in BOOLEAN /\ closed \in BOOLEAN /\ listeners \subseteq Client
        /\ history \in Seq(Frame) /\ Len(history) = 0 /\ ~closed
    BY <2>1 DEF Init
  <2>6. /\ lastRaw \in 0..sent /\ read \in 0..MaxFrames
        /\ sent \in 0..read /\ read <= sent + 1
    BY <2>2 DEF Init
  <2>4. /\ at \in [Client -> Places]
        /\ queue \in [Client -> Seq(Entry)] /\ cap \in [Client -> Nat]
        /\ open \in [Client -> BOOLEAN]
        /\ primed \in [Client -> Seq(Frame)] /\ written \in [Client -> Seq(Frame)]
        /\ joined \in [Client -> Nat] /\ missed \in [Client -> SUBSET Frame]
    BY <2>1 DEF Init
  <2>5. \A c \in Client : Len(queue[c]) <= cap[c] /\ Len(primed[c]) <= PrimeFrames
    BY <2>1, <2>2 DEF Init
  <2>. QED
    BY <2>2, <2>3, <2>4, <2>5, <2>6 DEF TypeInv
<1>2. LastFrames(history, sent)
  BY DEF Init, LastFrames
<1>3. ASSUME NEW c \in Client PROVE StreamInv(c) /\ PlaceInv(c) /\ CompleteInv(c)
  BY <1>3 DEF Init, StreamInv, PlaceInv, CompleteInv, Passed, Increasing, Decoded, Shared
<1>. QED
  BY <1>1, <1>2, <1>3 DEF IInv

LEMMA InvImplies == IInv => TypeOK /\ ListenersOpen /\ WrittenInOrder /\ NothingLostSilently
<1>. SUFFICES ASSUME IInv PROVE TypeOK /\ ListenersOpen /\ WrittenInOrder /\ NothingLostSilently
  OBVIOUS
<1>1. TypeOK
  BY DEF IInv, TypeInv, TypeOK, Frame
<1>2. ListenersOpen
  BY DEF IInv, TypeInv, PlaceInv, ListenersOpen
<1>3. NothingLostSilently
  BY DEF IInv, TypeInv, CompleteInv, NothingLostSilently, Frames, Passed
<1>4. ASSUME NEW c \in Client, NEW i \in 1..(Len(written[c]) - 1)
      PROVE  /\ lastRaw < joined[c] => written[c][i] < written[c][i + 1]
             /\ raw => written[c][i] <= written[c][i + 1]
  <2>1. /\ written[c] \in Seq(Frame) /\ StreamInv(c) /\ PlaceInv(c)
        /\ Len(written[c]) \in Nat
    BY DEF IInv, TypeInv
  <2>2. i \in 1..Len(written[c]) /\ i + 1 \in 1..Len(written[c]) /\ i < i + 1
    BY <2>1
  <2>3. Passed(c) = written[c]
    <3>1. written[c] # <<>>
      BY <2>2
    <3>. QED
      BY <2>1, <3>1 DEF PlaceInv, Passed
  <2>. QED
    BY <2>1, <2>2, <2>3, Zenon DEF StreamInv, Decoded, Shared
<1>. QED
  BY <1>1, <1>2, <1>3, <1>4 DEF WrittenInOrder
-----------------------------------------------------------------------------
\* Steps of the packet loop and the hub.

\* What a step leaves alone of the invariant.
LEMMA OthersKeep ==
  ASSUME NEW c \in Client, StreamInv(c) /\ PlaceInv(c) /\ CompleteInv(c),
         UNCHANGED <<raw, lastRaw, read, sent, at[c], queue[c], primed[c], written[c],
                     joined[c], missed[c]>>,
         c \in listeners' => c \in listeners /\ open'[c] = open[c]
  PROVE  (StreamInv(c) /\ PlaceInv(c) /\ CompleteInv(c))'
<1>1. Passed(c)' = Passed(c)
  BY DEF Passed
<1>2. StreamInv(c)'
  BY <1>1 DEF StreamInv
<1>3. PlaceInv(c)'
  BY DEF PlaceInv
<1>4. CompleteInv(c)'
  BY <1>1 DEF CompleteInv
<1>. QED
  BY <1>2, <1>3, <1>4

LEMMA StutterKeepsInv == ASSUME IInv, UNCHANGED vars PROVE IInv'
<1>. USE DEF vars, hubVars, clientVars
<1>1. TypeInv'
  BY DEF IInv, TypeInv
<1>2. LastFrames(history, sent)'
  BY DEF IInv, LastFrames
<1>. QED
  BY <1>1, <1>2, OthersKeep DEF IInv

LEMMA AnnounceKeepsInv == ASSUME IInv, Announce PROVE IInv'
<1>. USE DEF hubVars, clientVars
<1>1. TypeInv'
  BY DEF IInv, TypeInv, Announce
<1>2. LastFrames(history, sent)'
  BY DEF IInv, LastFrames, Announce
<1>3. ASSUME NEW c \in Client PROVE (StreamInv(c) /\ PlaceInv(c) /\ CompleteInv(c))'
  BY DEF IInv, Announce, StreamInv, PlaceInv, CompleteInv, Passed
<1>. QED
  BY <1>1, <1>2, <1>3 DEF IInv

\* A stream that shares the buffer shows the next packet instead.
LEMMA ReadPacketKeepsInv == ASSUME IInv, ReadPacket PROVE IInv'
<1>. USE DEF hubVars, clientVars
<1>1. TypeInv'
  <2>1. read' \in 0..MaxFrames /\ sent' \in 0..read' /\ read' <= sent' + 1
    BY HubAssumption DEF IInv, TypeInv, ReadPacket
  <2>. QED
    BY <2>1 DEF IInv, TypeInv, ReadPacket
<1>2. LastFrames(history, sent)'
  BY DEF IInv, LastFrames, ReadPacket
<1>3. ASSUME NEW c \in Client PROVE (StreamInv(c) /\ PlaceInv(c) /\ CompleteInv(c))'
  <2>1. Passed(c)' = Passed(c)
    BY DEF Passed, ReadPacket
  <2>2. Passed(c) \in Seq(Frame) /\ read \in Nat /\ read' = read + 1
    BY HubAssumption DEF IInv, TypeInv, Passed, ReadPacket
  <2>3. ASSUME Shared(Passed(c), queue[c], read) PROVE Shared(Passed(c), queue[c], read + 1)
    <3>1. \A i \in 1..Len(Passed(c)) : Passed(c)[i] <= read + 1
      <4>1. \A i \in 1..Len(Passed(c)) : Passed(c)[i] \in Nat /\ Passed(c)[i] <= read
        BY <2>2, <2>3, FramesAre DEF Shared
      <4>. QED
        BY <2>2, <4>1
    <3>. QED
      BY <2>3, <3>1, Zenon DEF Shared
  <2>4. StreamInv(c)'
    BY <2>1, <2>2, <2>3 DEF IInv, StreamInv, ReadPacket
  <2>. QED
    BY <2>1, <2>4 DEF IInv, PlaceInv, CompleteInv, ReadPacket
<1>. QED
  BY <1>1, <1>2, <1>3 DEF IInv

LEMMA ResetKeepsInv == ASSUME IInv, Reset PROVE IInv'
<1>. USE DEF clientVars
<1>1. TypeInv'
  BY HubAssumption DEF IInv, TypeInv, Reset
<1>2. LastFrames(history, sent)'
  BY DEF LastFrames, Reset
<1>. QED
  BY <1>1, <1>2, OthersKeep DEF IInv, Reset

LEMMA CloseHubKeepsInv == ASSUME IInv, CloseHub PROVE IInv'
<1>1. TypeInv'
  BY HubAssumption DEF IInv, TypeInv, CloseHub
<1>2. LastFrames(history, sent)'
  BY DEF LastFrames, CloseHub
<1>. QED
  BY <1>1, <1>2, OthersKeep DEF IInv, CloseHub

-----------------------------------------------------------------------------
\* Steps of a handler.

LEMMA ConnectKeepsInv == ASSUME IInv, NEW c \in Client, Connect(c) PROVE IInv'
<1>. USE DEF hubVars
<1>1. TypeInv'
  BY DEF IInv, TypeInv, Connect, Places
<1>2. LastFrames(history, sent)'
  BY DEF IInv, LastFrames, Connect
<1>3. (StreamInv(c) /\ PlaceInv(c) /\ CompleteInv(c))'
  <2>1. at[c] = "idle" /\ at'[c] = "found"
    BY DEF IInv, TypeInv, Connect
  <2>. QED
    BY <2>1 DEF IInv, Connect, StreamInv, PlaceInv, CompleteInv, Passed
<1>4. ASSUME NEW d \in Client, d # c PROVE (StreamInv(d) /\ PlaceInv(d) /\ CompleteInv(d))'
  BY <1>4, OthersKeep DEF IInv, TypeInv, Connect
<1>. QED
  BY <1>1, <1>2, <1>3, <1>4 DEF IInv

LEMMA EndStreamKeepsInv == ASSUME IInv, NEW c \in Client, EndStream(c) PROVE IInv'
<1>1. TypeInv'
  BY DEF IInv, TypeInv, EndStream, Leave, Places
<1>2. LastFrames(history, sent)'
  BY DEF IInv, LastFrames, EndStream
<1>3. (StreamInv(c) /\ PlaceInv(c) /\ CompleteInv(c))'
  <2>1. at[c] = "streaming" /\ at'[c] = "gone" /\ c \notin listeners'
    BY DEF IInv, TypeInv, EndStream, Leave
  <2>. QED
    BY <2>1 DEF IInv, EndStream, StreamInv, PlaceInv, CompleteInv, Passed
<1>4. ASSUME NEW d \in Client, d # c PROVE (StreamInv(d) /\ PlaceInv(d) /\ CompleteInv(d))'
  BY <1>4, OthersKeep DEF IInv, TypeInv, EndStream, Leave
<1>. QED
  BY <1>1, <1>2, <1>3, <1>4 DEF IInv

LEMMA SubscribeKeepsInv == ASSUME IInv, NEW c \in Client, Subscribe(c) PROVE IInv'
<1>1. LastFrames(history, sent)'
  BY DEF IInv, LastFrames, Subscribe
<1>2. /\ at[c] = "found" /\ at' = [at EXCEPT ![c] = "priming"] /\ at'[c] = "priming"
      /\ queue[c] = <<>> /\ primed[c] = <<>> /\ written[c] = <<>> /\ missed[c] = {}
      /\ c \notin listeners
  BY DEF IInv, TypeInv, PlaceInv, Subscribe
<1>3. /\ history \in Seq(Frame) /\ sent \in Nat /\ Len(history) \in Nat
      /\ LastFrames(history, sent)
  BY HubAssumption DEF IInv, TypeInv
<1>4. UNCHANGED <<raw, lastRaw, read, sent, history, closed, primed, written, missed>>
  BY DEF Subscribe
<1>5. ASSUME NEW d \in Client, d # c PROVE (StreamInv(d) /\ PlaceInv(d) /\ CompleteInv(d))'
  BY <1>5, OthersKeep DEF IInv, TypeInv, Subscribe
<1>6. CASE closed
  <2>1. UNCHANGED <<listeners, queue, cap, open, joined>>
    BY <1>6 DEF Subscribe
  <2>2. TypeInv'
    BY <1>2, <1>4, <2>1 DEF IInv, TypeInv, Places
  <2>3. (StreamInv(c) /\ PlaceInv(c) /\ CompleteInv(c))'
    BY <1>2, <1>4, <2>1 DEF IInv, StreamInv, PlaceInv, CompleteInv, Passed
  <2>. QED
    BY <1>1, <1>5, <2>2, <2>3 DEF IInv
<1>7. CASE ~closed
  <2>. DEFINE q == Copies(history)
              first == IF history = <<>> THEN sent + 1 ELSE Head(history)
  <2>1. /\ listeners' = listeners \union {c}
        /\ cap' = [cap EXCEPT ![c] = Len(history) + Room]
        /\ open' = [open EXCEPT ![c] = TRUE]
        /\ queue' = [queue EXCEPT ![c] = q]
        /\ joined' = [joined EXCEPT ![c] = first]
    BY <1>7 DEF Subscribe, Copies
  <2>2. /\ q \in Seq(Entry) /\ Len(q) = Len(history) /\ Increasing(q, sent)
        /\ \A k : Decoded(<<>>, q, k) /\ Shared(<<>>, q, k)
        /\ Frames(q) = (sent - Len(history) + 1)..sent
    BY <1>3, CopiesOf
  <2>3. first = sent - Len(history) + 1 /\ first \in Nat
    <3>1. CASE history = <<>>
      BY <1>3, <3>1
    <3>2. CASE history # <<>>
      <4>1. Head(history) = history[1] /\ Head(history) \in Frame /\ 1 \in 1..Len(history)
        BY <1>3, <3>2, TailOf
      <4>2. history[1] = sent - Len(history) + 1
        BY <1>3, <4>1 DEF LastFrames
      <4>. QED
        BY <3>2, <4>1, <4>2 DEF Frame
    <3>. QED
      BY <3>1, <3>2
  <2>. HIDE DEF q, first
  <2>4. /\ queue'[c] = q /\ joined'[c] = first /\ open'[c] /\ cap'[c] = Len(history) + Room
    BY <2>1 DEF IInv, TypeInv
  <2>5. TypeInv'
    <3>1. Len(history) + Room \in Nat /\ Len(q) <= Len(history) + Room
      BY <1>3, <2>2, HubAssumption
    <3>2. \A d \in Client : Len(queue'[d]) <= cap'[d]
      BY <2>1, <2>4, <3>1 DEF IInv, TypeInv
    <3>. QED
      BY <1>2, <1>4, <1>7, <2>1, <2>2, <2>3, <3>1, <3>2 DEF IInv, TypeInv, Places
  <2>6. Passed(c)' = <<>>
    BY <1>2, <1>4 DEF Passed
  <2>7. StreamInv(c)'
    BY <1>4, <2>2, <2>4, <2>6 DEF StreamInv
  <2>8. PlaceInv(c)'
    BY <1>2, <1>3, <1>4, <2>3, <2>4 DEF PlaceInv
  <2>9. CompleteInv(c)'
    BY <1>2, <1>4, <2>2, <2>3, <2>4, <2>6, ToSetEmpty DEF CompleteInv
  <2>. QED
    BY <1>1, <1>5, <2>5, <2>7, <2>8, <2>9 DEF IInv
<1>. QED
  BY <1>6, <1>7

\* The frame that leaves the channel is passed on: what the client has in the end
\* stays the same, and in order.
LEMMA PassOn ==
  ASSUME IInv, NEW c \in Client, queue[c] # <<>>
  PROVE  LET x == Content(Head(queue[c])) IN
         /\ x \in Frame /\ Append(Passed(c), x) \in Seq(Frame)
         /\ Tail(queue[c]) \in Seq(Entry) /\ Len(Tail(queue[c])) <= cap[c]
         /\ Increasing(Tail(queue[c]), sent)
         /\ lastRaw < joined[c] =>
               /\ Decoded(Append(Passed(c), x), Tail(queue[c]), sent)
               /\ Decoded(Passed(c), Tail(queue[c]), sent)
               /\ ToSet(Append(Passed(c), x)) \union Frames(Tail(queue[c]))
                    = ToSet(Passed(c)) \union Frames(queue[c])
         /\ raw =>
               /\ Shared(Append(Passed(c), x), Tail(queue[c]), read)
               /\ Shared(Passed(c), Tail(queue[c]), read)
<1>. DEFINE q == queue[c]
            out == Passed(c)
            e == Head(q)
            x == Content(e)
<1>1. /\ q \in Seq(Entry) /\ q # <<>> /\ out \in Seq(Frame) /\ Len(q) <= cap[c]
      /\ cap[c] \in Nat
  BY DEF IInv, TypeInv, Passed
<1>2. sent \in Nat /\ read \in Nat /\ sent <= read /\ read <= MaxFrames /\ MaxFrames \in Nat
  BY HubAssumption DEF IInv, TypeInv
<1>3. Increasing(q, sent) /\ e \in Entry /\ e.frame <= sent /\ Increasing(Tail(q), sent)
  <2>1. Increasing(q, sent)
    BY DEF IInv, StreamInv
  <2>. QED
    BY <1>1, <1>2, <2>1, EntryTail
<1>4. read \in Frame /\ e.frame \in Frame /\ x \in Frame
  <2>1. e.frame \in Frame
    BY <1>3, EntryHas
  <2>2. read \in Frame
    BY <1>2, <1>3, <2>1 DEF Frame
  <2>. QED
    BY <2>1, <2>2 DEF Content
<1>5. Tail(q) \in Seq(Entry) /\ Len(Tail(q)) <= cap[c]
  BY <1>1, TailOf
<1>6. Append(out, x) \in Seq(Frame)
  BY <1>1, <1>4, AppendOf
<1>7. ASSUME lastRaw < joined[c]
      PROVE  /\ Decoded(Append(out, x), Tail(q), sent) /\ Decoded(out, Tail(q), sent)
             /\ ToSet(Append(out, x)) \union Frames(Tail(q)) = ToSet(out) \union Frames(q)
  <2>1. Decoded(out, q, sent)
    BY <1>7 DEF IInv, StreamInv
  <2>2. /\ e.copy /\ Decoded(out, Tail(q), sent)
        /\ Decoded(Append(out, e.frame), Tail(q), sent)
    BY <1>1, <1>2, <1>3, <2>1, PopDecoded
  <2>3. x = e.frame
    BY <2>2 DEF Content
  <2>4. ToSet(Append(out, x)) = ToSet(out) \union {x}
    BY <1>1, <1>4, ToSetAppend
  <2>5. Frames(q) = {e.frame} \union Frames(Tail(q))
    <3>1. ToSet(q) = {e} \union ToSet(Tail(q))
      BY <1>1, ToSetTail
    <3>. QED
      BY <3>1 DEF Frames
  <2>. QED
    BY <2>2, <2>3, <2>4, <2>5
<1>8. ASSUME raw
      PROVE  Shared(Append(out, x), Tail(q), read) /\ Shared(out, Tail(q), read)
  <2>1. Shared(out, q, read)
    BY <1>8 DEF IInv, StreamInv
  <2>. QED
    BY <1>1, <1>2, <1>3, <1>4, <2>1, PopShared DEF Content
<1>. QED
  BY <1>3, <1>4, <1>5, <1>6, <1>7, <1>8

LEMMA PrimeKeepsInv == ASSUME IInv, NEW c \in Client, Prime(c) PROVE IInv'
<1>. DEFINE x == Content(Head(queue[c]))
            rest == Tail(queue[c])
            more == Append(primed[c], x)
<1>1. /\ at[c] = "priming" /\ Collecting(c) /\ queue[c] # <<>>
      /\ primed' = [primed EXCEPT ![c] = more] /\ queue' = [queue EXCEPT ![c] = rest]
      /\ UNCHANGED <<raw, lastRaw, read, sent, hubVars, at, cap, open, written, joined, missed>>
      /\ Passed(c) = primed[c]
  BY DEF Prime, Passed
<1>2. /\ more \in Seq(Frame) /\ rest \in Seq(Entry) /\ Len(rest) <= cap[c]
      /\ Increasing(rest, sent)
      /\ lastRaw < joined[c] =>
            /\ Decoded(more, rest, sent)
            /\ ToSet(more) \union Frames(rest) = ToSet(Passed(c)) \union Frames(queue[c])
      /\ raw => Shared(more, rest, read)
  BY <1>1, PassOn
<1>3. Len(more) <= PrimeFrames
  <2>1. primed[c] \in Seq(Frame) /\ x \in Frame
    BY <1>1, PassOn DEF IInv, TypeInv
  <2>2. Len(more) = Len(primed[c]) + 1 /\ Len(primed[c]) \in Nat
    BY <2>1, AppendOf
  <2>. QED
    BY <1>1, <2>2, HubAssumption DEF Collecting
<1>. HIDE DEF x, rest, more
<1>4. TypeInv'
  <2>1. /\ \A d \in Client : Len(queue'[d]) <= cap'[d]
        /\ \A d \in Client : Len(primed'[d]) <= PrimeFrames
    BY <1>1, <1>2, <1>3 DEF IInv, TypeInv
  <2>. QED
    BY <1>1, <1>2, <2>1 DEF IInv, TypeInv, hubVars
<1>5. LastFrames(history, sent)'
  BY <1>1 DEF IInv, LastFrames, hubVars
<1>6. primed'[c] = more /\ queue'[c] = rest /\ Passed(c)' = more
  BY <1>1 DEF IInv, TypeInv, Passed
<1>7. (StreamInv(c) /\ PlaceInv(c) /\ CompleteInv(c))'
  <2>1. StreamInv(c)'
    BY <1>1, <1>2, <1>6 DEF StreamInv
  <2>2. PlaceInv(c)'
    BY <1>1 DEF IInv, PlaceInv, hubVars
  <2>3. CompleteInv(c)'
    BY <1>1, <1>2, <1>6 DEF IInv, CompleteInv, hubVars
  <2>. QED
    BY <2>1, <2>2, <2>3
<1>8. ASSUME NEW d \in Client, d # c PROVE (StreamInv(d) /\ PlaceInv(d) /\ CompleteInv(d))'
  BY <1>1, <1>8, OthersKeep DEF IInv, TypeInv, hubVars
<1>. QED
  BY <1>4, <1>5, <1>7, <1>8 DEF IInv

LEMMA WritePrimedKeepsInv == ASSUME IInv, NEW c \in Client, WritePrimed(c) PROVE IInv'
<1>1. /\ at[c] = "priming" /\ Passed(c) = primed[c] /\ written[c] = <<>>
      /\ UNCHANGED <<raw, lastRaw, read, sent, history, closed, queue, cap, primed, joined, missed>>
  BY DEF IInv, PlaceInv, WritePrimed, Passed
<1>2. LastFrames(history, sent)'
  BY <1>1 DEF IInv, LastFrames
<1>3. CASE /\ written' = [written EXCEPT ![c] = primed[c]]
           /\ at' = [at EXCEPT ![c] = "streaming"] /\ UNCHANGED <<listeners, open>>
  <2>1. TypeInv'
    BY <1>1, <1>3 DEF IInv, TypeInv, Places
  <2>2. Passed(c)' = Passed(c) /\ at'[c] = "streaming"
    BY <1>1, <1>3 DEF IInv, TypeInv, Passed
  <2>3. (StreamInv(c) /\ PlaceInv(c) /\ CompleteInv(c))'
    BY <1>1, <1>3, <2>2 DEF IInv, StreamInv, PlaceInv, CompleteInv
  <2>4. ASSUME NEW d \in Client, d # c PROVE (StreamInv(d) /\ PlaceInv(d) /\ CompleteInv(d))'
    BY <1>1, <1>3, <2>4, OthersKeep DEF IInv, TypeInv
  <2>. QED
    BY <1>2, <2>1, <2>3, <2>4 DEF IInv
<1>4. CASE Leave(c) /\ UNCHANGED written
  <2>1. TypeInv'
    BY <1>1, <1>4 DEF IInv, TypeInv, Places, Leave
  <2>2. Passed(c)' = <<>> /\ at'[c] = "gone" /\ c \notin listeners'
    BY <1>1, <1>4 DEF IInv, TypeInv, Passed, Leave
  <2>3. StreamInv(c)'
    <3>1. lastRaw < joined[c] => Decoded(<<>>, queue[c], sent)
      BY DEF IInv, StreamInv, Decoded
    <3>2. raw => Shared(<<>>, queue[c], read)
      BY DEF IInv, StreamInv, Shared
    <3>. QED
      BY <1>1, <2>2, <3>1, <3>2 DEF IInv, StreamInv
  <2>4. PlaceInv(c)' /\ CompleteInv(c)'
    BY <1>1, <2>2 DEF IInv, PlaceInv, CompleteInv
  <2>5. ASSUME NEW d \in Client, d # c PROVE (StreamInv(d) /\ PlaceInv(d) /\ CompleteInv(d))'
    BY <1>1, <1>4, <2>5, OthersKeep DEF IInv, TypeInv, Leave
  <2>. QED
    BY <1>2, <2>1, <2>3, <2>4, <2>5 DEF IInv
<1>. QED
  BY <1>3, <1>4 DEF WritePrimed

LEMMA StreamKeepsInv == ASSUME IInv, NEW c \in Client, Stream(c) PROVE IInv'
<1>. DEFINE x == Content(Head(queue[c]))
            rest == Tail(queue[c])
            more == Append(written[c], x)
<1>1. /\ at[c] = "streaming" /\ queue[c] # <<>> /\ queue' = [queue EXCEPT ![c] = rest]
      /\ UNCHANGED <<raw, lastRaw, read, sent, history, closed, cap, primed, joined, missed>>
      /\ Passed(c) = written[c]
  BY DEF Stream, Passed
<1>2. /\ more \in Seq(Frame) /\ rest \in Seq(Entry) /\ Len(rest) <= cap[c]
      /\ Increasing(rest, sent)
      /\ lastRaw < joined[c] =>
            /\ Decoded(more, rest, sent) /\ Decoded(written[c], rest, sent)
            /\ ToSet(more) \union Frames(rest) = ToSet(Passed(c)) \union Frames(queue[c])
      /\ raw => Shared(more, rest, read) /\ Shared(written[c], rest, read)
  BY <1>1, PassOn
<1>3. \/ /\ written' = [written EXCEPT ![c] = more] /\ UNCHANGED <<at, listeners, open>>
      \/ Leave(c) /\ UNCHANGED written
  BY DEF Stream
<1>. HIDE DEF x, rest, more
<1>4. LastFrames(history, sent)'
  BY <1>1 DEF IInv, LastFrames
<1>5. queue'[c] = rest /\ \A d \in Client : Len(queue'[d]) <= cap'[d]
  BY <1>1, <1>2 DEF IInv, TypeInv
<1>6. CASE /\ written' = [written EXCEPT ![c] = more] /\ UNCHANGED <<at, listeners, open>>
  <2>1. TypeInv'
    BY <1>1, <1>2, <1>5, <1>6 DEF IInv, TypeInv
  <2>2. Passed(c)' = more
    BY <1>1, <1>6 DEF IInv, TypeInv, Passed
  <2>3. StreamInv(c)'
    BY <1>1, <1>2, <1>5, <2>2 DEF StreamInv
  <2>4. PlaceInv(c)'
    BY <1>1, <1>6 DEF IInv, PlaceInv
  <2>5. CompleteInv(c)'
    BY <1>1, <1>2, <1>5, <1>6, <2>2 DEF IInv, CompleteInv
  <2>6. ASSUME NEW d \in Client, d # c PROVE (StreamInv(d) /\ PlaceInv(d) /\ CompleteInv(d))'
    BY <1>1, <1>6, <2>6, OthersKeep DEF IInv, TypeInv
  <2>. QED
    BY <1>4, <2>1, <2>3, <2>4, <2>5, <2>6 DEF IInv
<1>7. CASE Leave(c) /\ UNCHANGED written
  <2>1. TypeInv'
    BY <1>1, <1>2, <1>5, <1>7 DEF IInv, TypeInv, Places, Leave
  <2>2. Passed(c)' = written[c] /\ at'[c] = "gone" /\ c \notin listeners'
    BY <1>7 DEF IInv, TypeInv, Passed, Leave
  <2>3. StreamInv(c)'
    BY <1>1, <1>2, <1>5, <2>2 DEF StreamInv
  <2>4. PlaceInv(c)' /\ CompleteInv(c)'
    BY <1>1, <2>2 DEF IInv, PlaceInv, CompleteInv
  <2>5. ASSUME NEW d \in Client, d # c PROVE (StreamInv(d) /\ PlaceInv(d) /\ CompleteInv(d))'
    BY <1>1, <1>7, <2>5, OthersKeep DEF IInv, TypeInv, Leave
  <2>. QED
    BY <1>4, <2>1, <2>3, <2>4, <2>5 DEF IInv
<1>. QED
  BY <1>3, <1>6, <1>7

\* A broadcast puts the packet at the end of each channel that has room, and is
\* missed where there is none.
LEMMA BroadcastKeepsInv == ASSUME IInv, Broadcast PROVE IInv'
<1>1. /\ sent' = sent + 1 /\ read = sent + 1 /\ sent \in Nat /\ read \in Frame
      /\ lastRaw' = (IF raw /\ ~closed THEN read ELSE lastRaw)
      /\ UNCHANGED <<raw, read, closed, listeners, at, cap, open, primed, written, joined>>
  BY HubAssumption DEF IInv, TypeInv, Broadcast, Frame
<1>2. \A c \in Client : /\ Passed(c)' = Passed(c) /\ Passed(c) \in Seq(Frame)
                        /\ queue[c] \in Seq(Entry) /\ joined[c] \in Nat
                        /\ StreamInv(c) /\ PlaceInv(c) /\ CompleteInv(c)
  BY <1>1 DEF IInv, TypeInv, Passed
<1>. DEFINE e == [frame |-> read, copy |-> ~raw]
<1>3. e \in Entry /\ e.frame = sent + 1 /\ (e.copy <=> ~raw)
  BY <1>1 DEF IInv, TypeInv, Entry, Frame
<1>4. ASSUME NEW c \in Client
      PROVE  Increasing(Append(queue[c], e), sent + 1) /\ Increasing(queue[c], sent + 1)
  BY <1>1, <1>2, <1>3, PushIncreasing DEF StreamInv
<1>5. ASSUME NEW c \in Client, lastRaw < joined[c]
      PROVE  /\ ~raw => Decoded(Passed(c), Append(queue[c], e), sent + 1)
             /\ Decoded(Passed(c), queue[c], sent + 1)
  <2>1. Decoded(Passed(c), queue[c], sent)
    BY <1>2, <1>5 DEF StreamInv
  <2>. QED
    BY <1>1, <1>2, <1>3, <2>1, PushDecoded, DecodedLater
<1>6. ASSUME NEW c \in Client, raw
      PROVE  Shared(Passed(c), Append(queue[c], e), read)
  BY <1>2, <1>3, <1>6, PushShared DEF StreamInv
<1>7. \A c \in Client : Frames(Append(queue[c], e)) = Frames(queue[c]) \union {sent + 1}
  <2>. TAKE c \in Client
  <2>1. ToSet(Append(queue[c], e)) = ToSet(queue[c]) \union {e}
    BY <1>2, <1>3, ToSetAppend
  <2>. QED
    BY <1>3, <2>1 DEF Frames
<1>. HIDE DEF e
<1>8. lastRaw \in 0..sent /\ lastRaw' \in 0..sent' /\ lastRaw <= lastRaw'
  BY <1>1 DEF IInv, TypeInv
<1>9. ASSUME NEW c \in Client, lastRaw' < joined[c]
      PROVE  lastRaw < joined[c] /\ (closed \/ ~raw)
  <2>1. joined[c] <= sent + 1 /\ joined[c] \in Nat
    BY <1>2 DEF PlaceInv
  <2>. QED
    BY <1>1, <1>8, <1>9, <2>1
<1>10. \A c \in Client : joined[c] <= sent + 2
  BY <1>1, <1>2 DEF PlaceInv
<1>11. CASE closed
  <2>1. UNCHANGED <<history, queue, missed>> /\ history = <<>> /\ listeners = {}
    BY <1>11 DEF IInv, TypeInv, Broadcast
  <2>2. TypeInv'
    BY <1>1, <1>8, <2>1 DEF IInv, TypeInv
  <2>3. LastFrames(history, sent)'
    BY <2>1 DEF LastFrames
  <2>4. ASSUME NEW c \in Client PROVE (StreamInv(c) /\ PlaceInv(c) /\ CompleteInv(c))'
    <3>1. StreamInv(c)'
      BY <1>1, <1>2, <1>4, <1>5, <1>9, <2>1 DEF StreamInv
    <3>2. PlaceInv(c)'
      BY <1>1, <1>2, <1>10, <2>1 DEF PlaceInv
    <3>. QED
      BY <1>1, <2>1, <3>1, <3>2 DEF CompleteInv
  <2>. QED
    BY <2>2, <2>3, <2>4 DEF IInv
<1>12. CASE ~closed
  <2>1. /\ history' = (LET kept == Append(history, sent + 1) IN
                      IF HistoryMax = 0 THEN history
                      ELSE SubSeq(kept, IF Len(kept) > HistoryMax THEN 2 ELSE 1, Len(kept)))
        /\ queue' = [c \in Client |->
                       IF c \in listeners /\ Takes(c) THEN Append(queue[c], e) ELSE queue[c]]
        /\ missed' = [c \in Client |->
                        IF c \in listeners /\ ~Takes(c) THEN missed[c] \union {sent + 1}
                        ELSE missed[c]]
    BY <1>1, <1>12 DEF Broadcast, e
  <2>2. history' \in Seq(Frame) /\ Len(history') <= HistoryMax /\ LastFrames(history', sent + 1)
    <3>1. history \in Seq(Frame) /\ Len(history) <= HistoryMax /\ LastFrames(history, sent)
      BY DEF IInv, TypeInv
    <3>2. CASE HistoryMax = 0
      <4>1. history' = history /\ Len(history) = 0
        BY <2>1, <3>1, <3>2
      <4>. QED
        BY <3>1, <4>1 DEF LastFrames
    <3>3. CASE HistoryMax # 0
      BY <1>1, <2>1, <3>1, <3>3, HistoryOf, HubAssumption
    <3>. QED
      BY <3>2, <3>3
  <2>3. ASSUME NEW c \in Client
        PROVE  /\ queue'[c] \in Seq(Entry) /\ Len(queue'[c]) <= cap'[c]
               /\ (StreamInv(c) /\ PlaceInv(c) /\ CompleteInv(c))'
    <3>1. Len(queue[c]) <= cap[c] /\ cap[c] \in Nat /\ cap'[c] = cap[c]
      BY <1>1 DEF IInv, TypeInv
    <3>2. CASE c \in listeners /\ Takes(c)
      <4>1. queue'[c] = Append(queue[c], e) /\ missed'[c] = missed[c]
        BY <2>1, <3>2
      <4>2. queue'[c] \in Seq(Entry) /\ Len(queue'[c]) <= cap'[c]
        <5>1. Len(queue'[c]) = Len(queue[c]) + 1 /\ Len(queue[c]) \in Nat
          BY <1>2, <1>3, <4>1, AppendOf
        <5>. QED
          BY <1>2, <1>3, <3>1, <3>2, <4>1, <5>1 DEF Takes
      <4>3. StreamInv(c)'
        BY <1>1, <1>2, <1>4, <1>5, <1>6, <1>9, <1>12, <4>1 DEF StreamInv
      <4>4. PlaceInv(c)'
        BY <1>1, <1>2, <1>10, <3>2 DEF PlaceInv
      <4>5. CompleteInv(c)'
        <5>1. ASSUME lastRaw' < joined[c]
              PROVE  ToSet(Passed(c)) \union Frames(queue'[c]) \union missed[c]
                       = joined[c]..(sent + 1)
          <6>1. ToSet(Passed(c)) \union Frames(queue[c]) \union missed[c] = joined[c]..sent
            BY <1>2, <1>9, <3>2, <5>1 DEF CompleteInv
          <6>2. joined[c] \in Nat /\ joined[c] <= sent + 1
            BY <1>2 DEF PlaceInv
          <6>3. joined[c]..(sent + 1) = (joined[c]..sent) \union {sent + 1}
            BY <1>1, <6>2
          <6>. QED
            BY <1>7, <4>1, <6>1, <6>3
        <5>. QED
          BY <1>1, <1>2, <4>1, <5>1 DEF CompleteInv
      <4>. QED
        BY <4>2, <4>3, <4>4, <4>5
    <3>3. CASE c \in listeners /\ ~Takes(c)
      <4>1. queue'[c] = queue[c] /\ missed'[c] = missed[c] \union {sent + 1}
        BY <2>1, <3>3
      <4>2. StreamInv(c)'
        BY <1>1, <1>2, <1>4, <1>5, <1>9, <4>1 DEF StreamInv
      <4>3. PlaceInv(c)'
        BY <1>1, <1>2, <1>10, <3>3 DEF PlaceInv
      <4>4. CompleteInv(c)'
        <5>1. ASSUME lastRaw' < joined[c]
              PROVE  ToSet(Passed(c)) \union Frames(queue[c]) \union missed'[c]
                       = joined[c]..(sent + 1)
          <6>1. ToSet(Passed(c)) \union Frames(queue[c]) \union missed[c] = joined[c]..sent
            BY <1>2, <1>9, <3>3, <5>1 DEF CompleteInv
          <6>2. joined[c] \in Nat /\ joined[c] <= sent + 1
            BY <1>2 DEF PlaceInv
          <6>3. joined[c]..(sent + 1) = (joined[c]..sent) \union {sent + 1}
            BY <1>1, <6>2
          <6>. QED
            BY <4>1, <6>1, <6>3
        <5>. QED
          BY <1>1, <1>2, <4>1, <5>1 DEF CompleteInv
      <4>. QED
        BY <1>2, <3>1, <4>1, <4>2, <4>3, <4>4
    <3>4. CASE c \notin listeners
      <4>1. queue'[c] = queue[c] /\ missed'[c] = missed[c]
        BY <2>1, <3>4
      <4>2. StreamInv(c)'
        BY <1>1, <1>2, <1>4, <1>5, <1>9, <4>1 DEF StreamInv
      <4>3. PlaceInv(c)' /\ CompleteInv(c)'
        BY <1>1, <1>2, <1>10, <3>4, <4>1 DEF PlaceInv, CompleteInv
      <4>. QED
        BY <1>2, <3>1, <4>1, <4>2, <4>3
    <3>. QED
      BY <3>2, <3>3, <3>4
  <2>4. TypeInv'
    <3>1. queue' \in [Client -> Seq(Entry)]
      BY <2>1, <2>3
    <3>2. missed' \in [Client -> SUBSET Frame]
      <4>1. \A c \in Client : missed[c] \in SUBSET Frame
        BY DEF IInv, TypeInv
      <4>. QED
        BY <1>1, <2>1, <4>1
    <3>. QED
      BY <1>1, <1>8, <1>12, <2>2, <2>3, <3>1, <3>2 DEF IInv, TypeInv
  <2>5. LastFrames(history, sent)'
    BY <1>1, <2>2
  <2>. QED
    BY <2>3, <2>4, <2>5 DEF IInv
<1>. QED
  BY <1>11, <1>12

-----------------------------------------------------------------------------

LEMMA InvNext == ASSUME IInv, [Next]_vars PROVE IInv'
  BY StutterKeepsInv, AnnounceKeepsInv, ReadPacketKeepsInv, BroadcastKeepsInv, ResetKeepsInv,
     CloseHubKeepsInv, ConnectKeepsInv, SubscribeKeepsInv, PrimeKeepsInv, WritePrimedKeepsInv,
     StreamKeepsInv, EndStreamKeepsInv
  DEF Next

LEMMA HubInvariant == Spec => []IInv
<1>. QED
  BY InvInit, InvNext, PTL DEF Spec

\* The audio path's state is well typed, whatever the sizes: neither the history
\* nor a channel nor the priming buffer outgrows its bound.
THEOREM HubTypeCorrect == Spec => []TypeOK
  BY HubInvariant, InvImplies, PTL

\* However hub and handlers close, subscribe and leave, a broadcast never sends
\* into a closed channel.
THEOREM HubSendsIntoOpenChannels == Spec => []ListenersOpen
  BY HubInvariant, InvImplies, PTL

\* For any number of clients, a decoded stream is written in its order, and one
\* without a decoder never goes back.
THEOREM HubWritesInOrder == Spec => []WrittenInOrder
  BY HubInvariant, InvImplies, PTL

\* No decoded frame is lost between history, channel, priming and connection but
\* those a full channel did not take.
THEOREM HubLosesNothingSilently == Spec => []NothingLostSilently
  BY HubInvariant, InvImplies, PTL
=============================================================================
