------------------------------ MODULE Handover ------------------------------
(***************************************************************************)
(* What the coordinator promises about the speaker, with no queue, call or *)
(* retry in sight: ownership goes through a sequence of owners, and what   *)
(* the speaker plays follows that sequence, possibly late and possibly     *)
(* skipping owners, but never going back to an earlier one.                *)
(***************************************************************************)
EXTENDS Integers, Sequences

CONSTANTS Session, NoSession

VARIABLES
    ownerAt,   \* the owners so far, in order; NoSession stands for "nobody"
    shown,     \* the position in ownerAt the speaker last followed, 0 if none
    speaker    \* the session the speaker plays, or NoSession

Init ==
    /\ ownerAt = <<>>
    /\ shown = 0
    /\ speaker = NoSession

\* The speaker changes hands: never from a session, or nobody, to itself.
Change(s) ==
    /\ s # IF ownerAt = <<>> THEN NoSession ELSE ownerAt[Len(ownerAt)]
    /\ ownerAt' = Append(ownerAt, s)
    /\ UNCHANGED <<shown, speaker>>

\* The speaker follows the owner at position n, not before the last one shown.
Show(n) ==
    /\ n >= shown
    /\ shown' = n
    /\ speaker' = ownerAt[n]
    /\ UNCHANGED ownerAt

Next ==
    \/ \E s \in Session \union {NoSession} : Change(s)
    \/ \E n \in 1..Len(ownerAt) : Show(n)

Spec == Init /\ [][Next]_<<ownerAt, shown, speaker>>
=============================================================================
