------------------------------- MODULE Mailbox -------------------------------
(***************************************************************************)
(* What the merging of volume changes promises, with no channel, timer or  *)
(* slow speaker in sight: the changes are carried out in the order they    *)
(* were put in, each at most once, and one may be skipped only because a   *)
(* later one is waiting.  A crash loses what is waiting.                   *)
(***************************************************************************)
EXTENDS Integers, Sequences

CONSTANT None       \* no change yet

VARIABLES
    waiting,    \* the changes put in and not yet carried out or skipped
    lastPut,    \* the last change put in
    lastTaken   \* the last change carried out

Init == waiting = <<>> /\ lastPut = None /\ lastTaken = None

Put ==
    /\ waiting' = Append(waiting, lastPut')
    /\ UNCHANGED lastTaken

Supersede ==
    /\ Len(waiting) > 1
    /\ waiting' = Tail(waiting)
    /\ UNCHANGED <<lastPut, lastTaken>>

Take ==
    /\ waiting # <<>>
    /\ lastTaken' = Head(waiting)
    /\ waiting' = Tail(waiting)
    /\ UNCHANGED lastPut

Crash == waiting' = <<>> /\ lastPut' = None /\ lastTaken' = None

Next == Put \/ Supersede \/ Take \/ Crash

Spec == Init /\ [][Next]_<<waiting, lastPut, lastTaken>>
=============================================================================
