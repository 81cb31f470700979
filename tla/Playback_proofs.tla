-------------------------- MODULE Playback_proofs --------------------------
(***************************************************************************)
(* Proofs about the coordinator, for every set of sessions and callers and *)
(* every channel capacity.                                                 *)
(***************************************************************************)
EXTENDS Playback, SourceManager_proofs

-----------------------------------------------------------------------------
\* Facts about sequences.

LEMMA TailFacts ==
  ASSUME NEW S, NEW q \in Seq(S), q # <<>>
  PROVE  /\ Head(q) \in S /\ Head(q) = q[1]
         /\ Tail(q) \in Seq(S) /\ Len(Tail(q)) = Len(q) - 1
         /\ \A i \in 1..Len(q) : i = 1 \/ (i - 1 \in 1..Len(Tail(q)) /\ Tail(q)[i - 1] = q[i])
<1>1. Len(q) \in Nat /\ Len(q) >= 1
  OBVIOUS
<1>2. Head(q) = q[1] /\ q[1] \in S
  BY <1>1
<1>3. Tail(q) \in Seq(S) /\ Len(Tail(q)) = Len(q) - 1
  BY <1>1
<1>4. \A j \in 1..(Len(q) - 1) : Tail(q)[j] = q[j + 1]
  BY <1>1
<1>5. ASSUME NEW i \in 1..Len(q), i # 1
      PROVE  i - 1 \in 1..Len(Tail(q)) /\ Tail(q)[i - 1] = q[i]
  <2>1. i - 1 \in 1..(Len(q) - 1) /\ (i - 1) + 1 = i
    BY <1>1, <1>5
  <2>. QED
    BY <1>3, <1>4, <2>1
<1>. QED
  BY <1>2, <1>3, <1>5

LEMMA AppendFacts ==
  ASSUME NEW S, NEW q \in Seq(S), NEW x \in S
  PROVE  /\ Append(q, x) \in Seq(S) /\ Len(Append(q, x)) = Len(q) + 1
         /\ \A i \in 1..Len(q) : Append(q, x)[i] = q[i]
         /\ Append(q, x)[Len(q) + 1] = x
  OBVIOUS

LEMMA ConsFacts ==
  ASSUME NEW S, NEW q \in Seq(S), NEW x \in S
  PROVE  /\ <<x>> \o q \in Seq(S) /\ Len(<<x>> \o q) = Len(q) + 1
         /\ (<<x>> \o q)[1] = x
  OBVIOUS

LEMMA SingletonFacts ==
  ASSUME NEW S, NEW x \in S
  PROVE  <<x>> \in Seq(S) /\ Len(<<x>>) = 1 /\ <<x>>[1] = x
  OBVIOUS

LEMMA EmptyFacts ==
  ASSUME NEW S
  PROVE  <<>> \in Seq(S) /\ Len(<<>>) = 0
  OBVIOUS

LEMMA SeqMonotone ==
  ASSUME NEW S, NEW T, S \subseteq T, NEW q \in Seq(S)
  PROVE  q \in Seq(T)
  OBVIOUS

-----------------------------------------------------------------------------
\* The inductive invariant.

\* The commands that stand for the owner their generation stands for.
Genuine ==
    {k \in Command :
        /\ k.generation <= generation
        /\ ownerAt[k.generation] = IF k.kind = "play" THEN k.session ELSE NoSession}

CommandsGenuine ==
    /\ \A c \in Caller : call[c].todo \in Seq(Genuine)
    /\ commands \in Seq(Genuine)
    /\ loopAt \in {"check", "call", "backoff"} => cmd \in Genuine

SpeakerFollows ==
    /\ shown \in 0..generation
    /\ speaker = OwnerOf(shown)
    /\ loopAt = "call" => shown <= cmd.generation

AbandonedForward ==
    /\ abandoned <= generation
    /\ loopAt = "call" => abandoned <= cmd.generation

Inv ==
    /\ TypeOK /\ GenerationNamesOwner
    /\ CommandsGenuine /\ SpeakerFollows /\ AbandonedForward /\ OwnerServed

-----------------------------------------------------------------------------
\* What the steps of the coordinator are to the arbiter.

LEMMA CallerActivateCases ==
  ASSUME TypeOK, NEW c \in Caller, NEW s \in Session, Activate(c, s)
  PROVE  \/ /\ AcquireAgain(s)
            /\ call' = [call EXCEPT ![c] =
                  [victim |-> NoSession, todo |-> <<PlayCommand(s, generation)>>]]
         \/ /\ AcquireNew(s)
            /\ call' = [call EXCEPT ![c] =
                  [victim |-> active, todo |-> <<PlayCommand(s, generation')>>]]
         \/ UNCHANGED <<managerVars, call>>
  BY DEF Activate, Reject

LEMMA ManagerStepOf ==
  ASSUME TypeOK, [Next]_vars
  PROVE  [ManagerNext]_managerVars
<1>1. ASSUME NEW c \in Caller, NEW s \in Session, Activate(c, s)
      PROVE  [ManagerNext]_managerVars
  BY <1>1 DEF Activate, ManagerNext, SessionOrNone
<1>2. ASSUME NEW c \in Caller, NEW s \in Session, Deactivate(c, s)
      PROVE  [ManagerNext]_managerVars
  BY <1>2 DEF Deactivate, ManagerNext, SessionOrNone
<1>3. ASSUME NEW c \in Caller, CancelReplaced(c)
      PROVE  [ManagerNext]_managerVars
  <2>1. call[c].victim \in SessionOrNone
    BY DEF TypeOK, Call
  <2>. QED
    BY <1>3, <2>1 DEF CancelReplaced, ManagerNext
<1>4. ASSUME NEW c \in Caller, Enqueue(c)
      PROVE  [ManagerNext]_managerVars
  BY <1>4 DEF Enqueue
<1>5. ASSUME ManagerStep
      PROVE  [ManagerNext]_managerVars
  BY <1>5 DEF ManagerStep, ManagerNext, SessionOrNone
<1>6. ASSUME Close \/ TakeCommand \/ StopLoop \/ CheckCommand \/ CallReturns \/ Retry
      PROVE  [ManagerNext]_managerVars
  BY <1>6 DEF Close, TakeCommand, StopLoop, CheckCommand, CallReturns, CallSucceeds,
              CallFails, Retry
<1>7. ASSUME UNCHANGED vars
      PROVE  [ManagerNext]_managerVars
  BY <1>7 DEF vars
<1>. QED
  BY <1>1, <1>2, <1>3, <1>4, <1>5, <1>6, <1>7 DEF Next

LEMMA ManagerInvOf == ASSUME Inv PROVE ManagerInv
  BY DEF Inv, ManagerInv, TypeOK

\* What a step does to generation, owner and history; generations keep their owner.
LEMMA GenuineGrows ==
  ASSUME Inv, [Next]_vars
  PROVE  /\ ManagerInv'
         /\ Genuine \subseteq Genuine'
         /\ generation' \in Nat /\ generation' >= generation
         /\ \A g \in 0..generation : OwnerOf(g)' = OwnerOf(g)
<1>1. ManagerInv /\ [ManagerNext]_managerVars
  BY ManagerInvOf, ManagerStepOf DEF Inv
<1>2. ManagerInv'
  BY <1>1, ManagerNextInv
<1>3. generation \in Nat
  BY <1>1 DEF ManagerInv, ManagerTypeOK
<1>4. /\ generation' >= generation
      /\ \A g \in 1..generation : ownerAt'[g] = ownerAt[g]
  <2>1. CASE UNCHANGED <<config, generation, active, ownerAt>>
    BY <2>1, <1>3
  <2>2. ASSUME NEW s \in SessionOrNone, ChangeOwner(s)
        PROVE  /\ generation' >= generation
               /\ \A g \in 1..generation : ownerAt'[g] = ownerAt[g]
    BY <1>1, <1>3, <2>2, ChangeOwnerInv
  <2>. QED
    BY <1>1, <2>1, <2>2, ManagerStepCases
<1>5. generation' \in Nat
  BY <1>2 DEF ManagerInv, ManagerTypeOK
<1>6. Genuine \subseteq Genuine'
  <2>1. ASSUME NEW k \in Genuine PROVE k \in Genuine'
    <3>1. k \in Command /\ k.generation \in Nat \ {0} /\ k.generation <= generation
      BY DEF Genuine, Command
    <3>2. k.generation \in 1..generation /\ k.generation <= generation'
      BY <3>1, <1>3, <1>4, <1>5
    <3>. QED
      BY <3>1, <3>2, <1>4 DEF Genuine
  <2>. QED
    BY <2>1
<1>7. \A g \in 0..generation : OwnerOf(g)' = OwnerOf(g)
  BY <1>3, <1>4 DEF OwnerOf
<1>. QED
  BY <1>2, <1>4, <1>5, <1>6, <1>7

-----------------------------------------------------------------------------
\* The types and the commands.  What a caller may do to its call, with the
\* commands drawn from any set that holds the new one, covers both.

\* How the calls and the channel change in a step of a caller.
CallerMoves(c, New) ==
    \/ \E k \in New, v \in SessionOrNone :
          /\ call' = [call EXCEPT ![c] = [victim |-> v, todo |-> <<k>>]]
          /\ UNCHANGED commands
    \/ \E k \in New :
          /\ call' = [call EXCEPT ![c] = [victim |-> NoSession, todo |-> <<k>> \o call[c].todo]]
          /\ UNCHANGED commands
    \/ /\ call' = [call EXCEPT ![c] = [victim |-> NoSession, todo |-> call[c].todo]]
       /\ UNCHANGED commands
    \/ UNCHANGED <<call, commands>>
    \/ /\ call[c].todo # <<>>
       /\ call' = [call EXCEPT ![c] = [victim |-> NoSession, todo |-> Tail(call[c].todo)]]
       /\ \/ commands' = Append(commands, Head(call[c].todo)) /\ Len(commands) < QueueCap
          \/ UNCHANGED commands

\* A caller makes at most one new command, and that command is genuine.
LEMMA CallerStepMoves ==
  ASSUME Inv, NEW c \in Caller,
         \/ \E s \in Session : Activate(c, s) \/ Deactivate(c, s)
         \/ CancelReplaced(c) \/ Enqueue(c)
  PROVE  CallerMoves(c, Genuine')
<1>1. ManagerInv /\ generation \in Nat /\ active \in SessionOrNone
  BY ManagerInvOf DEF ManagerInv, ManagerTypeOK
<1>2. ASSUME NEW s \in Session, NEW o \in SessionOrNone, ChangeOwner(o)
      PROVE  /\ o = s => PlayCommand(s, generation') \in Genuine'
             /\ o = NoSession => PauseCommand(s, generation') \in Genuine'
  BY <1>1, <1>2, ChangeOwnerInv DEF Genuine, Command, PlayCommand, PauseCommand
<1>3. ASSUME NEW s \in Session, Activate(c, s)
      PROVE  CallerMoves(c, Genuine')
  <2>1. UNCHANGED commands
    BY <1>3 DEF Activate
  <2>2. CASE /\ AcquireAgain(s)
             /\ call' = [call EXCEPT ![c] =
                   [victim |-> NoSession, todo |-> <<PlayCommand(s, generation)>>]]
    <3>1. generation > 0 /\ ownerAt[generation] = s
      BY <1>1, <2>2 DEF AcquireAgain, ManagerInv, GenerationNamesOwner, OwnerOf
    <3>2. PlayCommand(s, generation) \in Genuine'
      BY <1>1, <2>2, <3>1 DEF AcquireAgain, Genuine, Command, PlayCommand
    <3>. QED
      BY <2>1, <2>2, <3>2 DEF CallerMoves, SessionOrNone
  <2>3. CASE /\ AcquireNew(s)
             /\ call' = [call EXCEPT ![c] =
                   [victim |-> active, todo |-> <<PlayCommand(s, generation')>>]]
    <3>1. PlayCommand(s, generation') \in Genuine'
      BY <1>2, <2>3 DEF AcquireNew, SessionOrNone
    <3>. QED
      BY <1>1, <2>1, <2>3, <3>1 DEF CallerMoves
  <2>4. CASE UNCHANGED <<managerVars, call>>
    BY <2>1, <2>4 DEF CallerMoves
  <2>. QED
    BY <1>3, <2>2, <2>3, <2>4, CallerActivateCases DEF Inv
<1>4. ASSUME NEW s \in Session, Deactivate(c, s)
      PROVE  CallerMoves(c, Genuine')
  <2>1. UNCHANGED commands
    BY <1>4 DEF Deactivate
  <2>2. CASE Release(s) /\ call' = [call EXCEPT ![c] =
                   [victim |-> NoSession, todo |-> <<PauseCommand(s, generation')>>]]
    <3>1. PauseCommand(s, generation') \in Genuine'
      BY <1>2, <2>2 DEF Release, SessionOrNone
    <3>. QED
      BY <2>1, <2>2, <3>1 DEF CallerMoves, SessionOrNone
  <2>. QED
    BY <1>4, <2>1, <2>2 DEF Deactivate, CallerMoves
<1>5. ASSUME CancelReplaced(c)
      PROVE  CallerMoves(c, Genuine')
  <2>1. UNCHANGED commands /\ call[c].victim \in Session
    BY <1>5 DEF CancelReplaced, Inv, TypeOK, Call, SessionOrNone
  <2>2. CASE Release(call[c].victim)
             /\ call' = [call EXCEPT ![c] =
                  [victim |-> NoSession,
                   todo |-> <<PauseCommand(call[c].victim, generation')>> \o call[c].todo]]
    <3>1. PauseCommand(call[c].victim, generation') \in Genuine'
      BY <1>2, <2>1, <2>2 DEF Release, SessionOrNone
    <3>. QED
      BY <2>1, <2>2, <3>1 DEF CallerMoves
  <2>. QED
    BY <1>5, <2>1, <2>2 DEF CancelReplaced, CallerMoves
<1>6. ASSUME Enqueue(c)
      PROVE  CallerMoves(c, Genuine')
  BY <1>6 DEF Enqueue, CallerMoves
<1>. QED
  BY <1>3, <1>4, <1>5, <1>6

\* A caller's step keeps calls and channel drawn from a set that has the new command.
LEMMA CallerMovesKeep ==
  ASSUME NEW S, NEW c \in Caller, CallerMoves(c, S),
         call \in [Caller -> [victim : SessionOrNone, todo : Seq(S)]],
         commands \in Seq(S), Len(commands) <= QueueCap
  PROVE  /\ call' \in [Caller -> [victim : SessionOrNone, todo : Seq(S)]]
         /\ commands' \in Seq(S)
         /\ Len(commands') <= QueueCap
<1> DEFINE Calls == [victim : SessionOrNone, todo : Seq(S)]
<1>0. NoSession \in SessionOrNone /\ call[c].todo \in Seq(S) /\ QueueCap \in Nat
      /\ call[c].victim \in SessionOrNone
  BY QueueCapAssumption DEF SessionOrNone
<1>1. ASSUME NEW k \in S, NEW v \in SessionOrNone,
             call' = [call EXCEPT ![c] = [victim |-> v, todo |-> <<k>>]]
      PROVE  call' \in [Caller -> Calls]
  <2>1. [victim |-> v, todo |-> <<k>>] \in Calls
    BY SingletonFacts
  <2>. QED
    BY <1>1, <2>1
<1>2. ASSUME NEW k \in S,
             call' = [call EXCEPT ![c] = [victim |-> NoSession, todo |-> <<k>> \o call[c].todo]]
      PROVE  call' \in [Caller -> Calls]
  <2>1. [victim |-> NoSession, todo |-> <<k>> \o call[c].todo] \in Calls
    BY <1>0, ConsFacts
  <2>. QED
    BY <1>2, <2>1
<1>3. ASSUME call' = [call EXCEPT ![c] = [victim |-> NoSession, todo |-> call[c].todo]]
      PROVE  call' \in [Caller -> Calls]
  <2>1. [victim |-> NoSession, todo |-> call[c].todo] \in Calls
    BY <1>0
  <2>. QED
    BY <1>3, <2>1
<1>4. ASSUME call[c].todo # <<>>,
             call' = [call EXCEPT ![c] = [victim |-> NoSession, todo |-> Tail(call[c].todo)]]
      PROVE  call' \in [Caller -> Calls]
  <2>1. [victim |-> NoSession, todo |-> Tail(call[c].todo)] \in Calls
    BY <1>0, <1>4, TailFacts
  <2>. QED
    BY <1>4, <2>1
<1>5. ASSUME call[c].todo # <<>>, Len(commands) < QueueCap,
             commands' = Append(commands, Head(call[c].todo))
      PROVE  commands' \in Seq(S) /\ Len(commands') <= QueueCap
  <2>1. Head(call[c].todo) \in S
    BY <1>0, <1>5, TailFacts
  <2>2. Append(commands, Head(call[c].todo)) \in Seq(S)
        /\ Len(Append(commands, Head(call[c].todo))) = Len(commands) + 1
    BY <2>1, AppendFacts
  <2>. QED
    BY <1>0, <1>5, <2>2
<1>. QED
  BY <1>1, <1>2, <1>3, <1>4, <1>5 DEF CallerMoves

\* Calls and channel hold genuine commands after every step, and the channel
\* no more than its capacity.
LEMMA QueuesInv ==
  ASSUME Inv, [Next]_vars
  PROVE  /\ call' \in [Caller -> [victim : SessionOrNone, todo : Seq(Genuine')]]
         /\ commands' \in Seq(Genuine')
         /\ Len(commands') <= QueueCap
<1>1. Genuine \subseteq Genuine'
  BY GenuineGrows
<1>2. call \in [Caller -> [victim : SessionOrNone, todo : Seq(Genuine')]]
  <2>1. \A c \in Caller : call[c].todo \in Seq(Genuine')
    BY <1>1, SeqMonotone DEF Inv, CommandsGenuine
  <2>2. \A c \in Caller : call[c] \in [victim : SessionOrNone, todo : Seq(Genuine')]
    BY <2>1 DEF Inv, TypeOK, Call
  <2>. QED
    BY <2>2 DEF Inv, TypeOK
<1>3. commands \in Seq(Genuine') /\ Len(commands) <= QueueCap
  BY <1>1, SeqMonotone DEF Inv, CommandsGenuine, TypeOK
<1>4. ASSUME NEW c \in Caller, CallerMoves(c, Genuine')
      PROVE  /\ call' \in [Caller -> [victim : SessionOrNone, todo : Seq(Genuine')]]
             /\ commands' \in Seq(Genuine')
             /\ Len(commands') <= QueueCap
  BY <1>2, <1>3, <1>4, CallerMovesKeep
<1>5. CASE TakeCommand
  <2>1. Tail(commands) \in Seq(Genuine') /\ Len(Tail(commands)) = Len(commands) - 1
    BY <1>3, <1>5, TailFacts DEF TakeCommand
  <2>2. Len(Tail(commands)) <= QueueCap
    <3>1. Len(commands) \in Nat /\ QueueCap \in Nat
      BY <1>3, QueueCapAssumption
    <3>. QED
      BY <1>3, <2>1, <3>1
  <2>. QED
    BY <1>2, <1>5, <2>1, <2>2 DEF TakeCommand
<1>6. CASE \/ ManagerStep \/ Close \/ StopLoop \/ CheckCommand \/ CallReturns \/ Retry
           \/ UNCHANGED vars
  <2>1. UNCHANGED <<call, commands>>
    BY <1>6 DEF ManagerStep, Close, StopLoop, CheckCommand, CallReturns, CallSucceeds,
                CallFails, Retry, vars, coordinatorVars
  <2>. QED
    BY <1>2, <1>3, <2>1
<1>. QED
  BY <1>4, <1>5, <1>6, CallerStepMoves DEF Next

-----------------------------------------------------------------------------
\* The control loop and the speaker.

LoopTyped ==
    /\ loopAt \in {"select", "check", "call", "backoff", "exited"}
    /\ cmd \in Command \union {NoCommand}
    /\ attempt \in 0..MaxAttempts
    /\ loopAt \in {"check", "call"} => attempt >= 1
    /\ loopAt = "backoff" => attempt \in 1..(MaxAttempts - 1)
    /\ abandoned \in Nat

LoopGenuine == loopAt \in {"check", "call", "backoff"} => cmd \in Genuine

LoopUntouched == UNCHANGED <<loopAt, cmd, attempt, device, speaker, shown, abandoned>>

LEMMA UntouchedCases ==
  ASSUME [Next]_vars
  PROVE  \/ LoopUntouched
         \/ TakeCommand \/ StopLoop \/ CheckCommand \/ CallReturns \/ Retry
  BY DEF Next, vars, Activate, Deactivate, CancelReplaced, Enqueue, ManagerStep, Close,
         LoopUntouched, loopVars, speakerVars, coordinatorVars

LEMMA GenuineFacts ==
  ASSUME Inv, NEW k \in Genuine
  PROVE  /\ k \in Command /\ k.generation \in 1..generation
         /\ OwnerOf(k.generation) = IF k.kind = "play" THEN k.session ELSE NoSession
<1>1. k \in Command /\ k.generation \in Nat \ {0} /\ k.generation <= generation
      /\ ownerAt[k.generation] = IF k.kind = "play" THEN k.session ELSE NoSession
  BY DEF Genuine, Command
<1>2. generation \in Nat
  BY DEF Inv, TypeOK, ManagerTypeOK
<1>. QED
  BY <1>1, <1>2 DEF OwnerOf

LEMMA LoopInv ==
  ASSUME Inv, [Next]_vars
  PROVE  LoopTyped' /\ LoopGenuine'
<1>1. LoopTyped /\ LoopGenuine
  BY DEF Inv, TypeOK, CommandsGenuine, LoopTyped, LoopGenuine
<1>2. Genuine \subseteq Genuine'
  BY GenuineGrows
<1>3. CASE LoopUntouched
  BY <1>1, <1>2, <1>3 DEF LoopUntouched, LoopTyped, LoopGenuine
<1>4. CASE TakeCommand
  <2>1. Head(commands) \in Genuine
    BY <1>4, TailFacts DEF TakeCommand, Inv, CommandsGenuine
  <2>2. Head(commands) \in Command /\ Head(commands) \in Genuine'
    BY <1>2, <2>1 DEF Genuine
  <2>. QED
    BY <1>1, <1>2, <1>4, <2>2 DEF TakeCommand, loopVars, speakerVars, LoopTyped, LoopGenuine,
       MaxAttempts
<1>5. CASE StopLoop
  BY <1>1, <1>5 DEF StopLoop, speakerVars, LoopTyped, LoopGenuine
<1>6. CASE CheckCommand
  BY <1>1, <1>2, <1>6 DEF CheckCommand, LoopReturns, speakerVars, LoopTyped, LoopGenuine,
     MaxAttempts
<1>7. CASE CallSucceeds
  BY <1>1, <1>7 DEF CallSucceeds, LoopReturns, LoopTyped, LoopGenuine, MaxAttempts
<1>8. CASE CallFails
  <2>1. cmd \in Genuine /\ cmd \in Genuine' /\ cmd.generation \in Nat
    BY <1>1, <1>2, <1>8 DEF CallFails, LoopGenuine, Genuine, Command
  <2>2. CASE cmd.kind = "play" /\ attempt < MaxAttempts
    <3>1. loopAt' = "backoff" /\ UNCHANGED <<cmd, attempt, abandoned>>
      BY <1>8, <2>2 DEF CallFails
    <3>2. attempt \in 1..(MaxAttempts - 1)
      BY <1>1, <1>8, <2>2 DEF CallFails, LoopTyped, MaxAttempts
    <3>. QED
      BY <1>1, <2>1, <3>1, <3>2 DEF LoopTyped, LoopGenuine
  <2>3. CASE ~(cmd.kind = "play" /\ attempt < MaxAttempts)
    <3>1. LoopReturns /\ abandoned' = cmd.generation
      BY <1>8, <2>3 DEF CallFails
    <3>. QED
      BY <2>1, <3>1 DEF LoopReturns, LoopTyped, LoopGenuine, MaxAttempts
  <2>. QED
    BY <2>2, <2>3
<1>9. CASE Retry
  <2>1. attempt' \in 0..MaxAttempts /\ attempt' >= 1
    BY <1>1, <1>9 DEF Retry, LoopTyped, MaxAttempts
  <2>. QED
    BY <1>1, <1>2, <1>9, <2>1 DEF Retry, speakerVars, LoopTyped, LoopGenuine
<1>. QED
  BY <1>3, <1>4, <1>5, <1>6, <1>7, <1>8, <1>9, UntouchedCases DEF CallReturns

\* A command called for was current when it was checked, so it is not older than
\* what the speaker shows: nothing else moves the speaker meanwhile.
LEMMA SpeakerInv ==
  ASSUME Inv, [Next]_vars
  PROVE  SpeakerFollows'
<1>1. SpeakerFollows /\ LoopGenuine /\ generation \in Nat
  BY DEF Inv, TypeOK, CommandsGenuine, LoopGenuine, ManagerTypeOK
<1>2. /\ generation' \in Nat /\ generation' >= generation
      /\ \A g \in 0..generation : OwnerOf(g)' = OwnerOf(g)
  BY GenuineGrows
<1>3. ASSUME NEW g \in 0..generation
      PROVE  g \in 0..generation'
  BY <1>1, <1>2
<1>4. ASSUME UNCHANGED <<speaker, shown>>
      PROVE  shown' \in 0..generation' /\ speaker' = OwnerOf(shown)'
  BY <1>1, <1>2, <1>3, <1>4 DEF SpeakerFollows, OwnerOf
<1>5. CASE LoopUntouched
  BY <1>1, <1>4, <1>5 DEF LoopUntouched, SpeakerFollows
<1>6. CASE CheckCommand
  <2>1. UNCHANGED <<speaker, shown>>
    BY <1>6 DEF CheckCommand, speakerVars
  <2>2. ASSUME loopAt' = "call" PROVE shown' <= cmd'.generation
    <3>1. Current(cmd) /\ cmd' = cmd
      BY <1>6, <2>2 DEF CheckCommand, LoopReturns
    <3>2. cmd.generation = generation
      BY <3>1 DEF Current, IsOwner, IsIdleGeneration
    <3>. QED
      BY <1>1, <2>1, <3>1, <3>2 DEF SpeakerFollows
  <2>. QED
    BY <1>4, <2>1, <2>2 DEF SpeakerFollows
<1>7. CASE TakeCommand \/ StopLoop \/ Retry
  <2>1. UNCHANGED <<speaker, shown>> /\ loopAt' # "call"
    BY <1>7 DEF TakeCommand, StopLoop, Retry, speakerVars, loopVars
  <2>. QED
    BY <1>4, <2>1 DEF SpeakerFollows
<1>8. CASE CallReturns
  <2>1. loopAt' # "call" /\ loopAt = "call"
    BY <1>8 DEF CallReturns, CallSucceeds, CallFails, LoopReturns
  <2>2. CASE TakesEffect
    <3>1. cmd \in Genuine
      BY <1>1, <2>1 DEF LoopGenuine
    <3>2. cmd.generation \in 0..generation /\ speaker' = OwnerOf(cmd.generation)
          /\ shown' = cmd.generation
      BY <1>1, <2>2, <3>1, GenuineFacts DEF TakesEffect
    <3>4. shown' \in 0..generation'
      BY <1>3, <3>2
    <3>5. generation' = generation /\ ownerAt' = ownerAt
      BY <1>8 DEF CallReturns, CallSucceeds, CallFails, managerVars
    <3>. QED
      BY <2>1, <3>2, <3>4, <3>5 DEF SpeakerFollows, OwnerOf
  <2>3. CASE UNCHANGED <<speaker, shown>>
    BY <1>4, <2>1, <2>3 DEF SpeakerFollows
  <2>. QED
    BY <1>8, <2>2, <2>3 DEF CallReturns, CallSucceeds, CallFails
<1>. QED
  BY <1>5, <1>6, <1>7, <1>8, UntouchedCases

\* The same for the last command given up.
LEMMA AbandonedInv ==
  ASSUME Inv, [Next]_vars
  PROVE  AbandonedForward'
<1>1. AbandonedForward /\ LoopGenuine /\ generation \in Nat /\ abandoned \in Nat
  BY DEF Inv, TypeOK, CommandsGenuine, LoopGenuine, ManagerTypeOK
<1>2. generation' \in Nat /\ generation' >= generation
  BY GenuineGrows
<1>3. ASSUME UNCHANGED abandoned PROVE abandoned' <= generation'
  BY <1>1, <1>2, <1>3 DEF AbandonedForward
<1>4. CASE LoopUntouched
  BY <1>1, <1>3, <1>4 DEF LoopUntouched, AbandonedForward
<1>5. CASE CheckCommand
  <2>1. UNCHANGED abandoned
    BY <1>5 DEF CheckCommand, speakerVars
  <2>2. ASSUME loopAt' = "call" PROVE abandoned' <= cmd'.generation
    <3>1. Current(cmd) /\ cmd' = cmd
      BY <1>5, <2>2 DEF CheckCommand, LoopReturns
    <3>2. cmd.generation = generation
      BY <3>1 DEF Current, IsOwner, IsIdleGeneration
    <3>. QED
      BY <1>1, <2>1, <3>1, <3>2 DEF AbandonedForward
  <2>. QED
    BY <1>3, <2>1, <2>2 DEF AbandonedForward
<1>6. CASE TakeCommand \/ StopLoop \/ Retry
  <2>1. UNCHANGED abandoned /\ loopAt' # "call"
    BY <1>6 DEF TakeCommand, StopLoop, Retry, speakerVars, loopVars
  <2>. QED
    BY <1>3, <2>1 DEF AbandonedForward
<1>7. CASE CallReturns
  <2>1. loopAt' # "call" /\ loopAt = "call"
    BY <1>7 DEF CallReturns, CallSucceeds, CallFails, LoopReturns
  <2>2. cmd.generation \in 1..generation
    BY <1>1, <2>1, GenuineFacts DEF LoopGenuine
  <2>3. abandoned' = abandoned \/ abandoned' = cmd.generation
    BY <1>7 DEF CallReturns, CallSucceeds, CallFails
  <2>. QED
    BY <1>1, <1>2, <2>1, <2>2, <2>3 DEF AbandonedForward
<1>. QED
  BY <1>4, <1>5, <1>6, <1>7, UntouchedCases

-----------------------------------------------------------------------------
\* No owner is forgotten.

CallerStep(c) ==
    \/ \E s \in Session : Activate(c, s) \/ Deactivate(c, s)
    \/ CancelReplaced(c)
    \/ Enqueue(c)

\* A call that makes a new generation holds a command for it.
LEMMA NewGenerationOnItsWay ==
  ASSUME Inv, NEW c \in Caller, CallerStep(c), generation' # generation
  PROVE  OnItsWay(generation)'
<1>1. call \in [Caller -> Call]
  BY DEF Inv, TypeOK
<1>2. ASSUME NEW k, NEW v, k.generation = generation',
             call' = [call EXCEPT ![c] = [victim |-> v, todo |-> <<k>>]]
      PROVE  OnItsWay(generation)'
  <2>1. call'[c].todo = <<k>>
    BY <1>1, <1>2
  <2>2. 1 \in DOMAIN call'[c].todo /\ call'[c].todo[1] = k
    BY <2>1
  <2>. QED
    BY <1>2, <2>2 DEF OnItsWay
<1>3. ASSUME NEW s \in Session, Activate(c, s)
      PROVE  OnItsWay(generation)'
  <2>1. /\ AcquireNew(s)
        /\ call' = [call EXCEPT ![c] =
             [victim |-> active, todo |-> <<PlayCommand(s, generation')>>]]
    BY <1>3, CallerActivateCases DEF Inv, AcquireAgain, managerVars
  <2>2. PlayCommand(s, generation').generation = generation'
    BY DEF PlayCommand
  <2>. QED
    BY <1>2, <2>1, <2>2
<1>4. ASSUME NEW s \in Session, Deactivate(c, s)
      PROVE  OnItsWay(generation)'
  <2>1. call' = [call EXCEPT ![c] =
             [victim |-> NoSession, todo |-> <<PauseCommand(s, generation')>>]]
    BY <1>4 DEF Deactivate, managerVars
  <2>2. PauseCommand(s, generation').generation = generation'
    BY DEF PauseCommand
  <2>. QED
    BY <1>2, <2>1, <2>2
<1>5. ASSUME CancelReplaced(c)
      PROVE  OnItsWay(generation)'
  <2> DEFINE k == PauseCommand(call[c].victim, generation')
  <2>1. call' = [call EXCEPT ![c] =
             [victim |-> NoSession, todo |-> <<k>> \o call[c].todo]]
    BY <1>5 DEF CancelReplaced, managerVars
  <2>2. k \in {k} \union Command /\ call[c].todo \in Seq({k} \union Command)
    BY <1>1, SeqMonotone DEF Call
  <2>3. <<k>> \o call[c].todo \in Seq({k} \union Command)
        /\ Len(<<k>> \o call[c].todo) = Len(call[c].todo) + 1 /\ (<<k>> \o call[c].todo)[1] = k
    <3> HIDE DEF k
    <3>. QED
      BY <2>2, ConsFacts
  <2>4. 1 \in DOMAIN (<<k>> \o call[c].todo)
    <3> HIDE DEF k
    <3>1. Len(call[c].todo) \in Nat
      BY <2>2
    <3>. QED
      BY <2>3, <3>1
  <2>5. call'[c].todo = <<k>> \o call[c].todo
    BY <1>1, <2>1
  <2>6. k.generation = generation'
    BY DEF PauseCommand
  <2>7. 1 \in DOMAIN call'[c].todo /\ call'[c].todo[1] = k
    BY <2>3, <2>4, <2>5
  <2>. QED
    BY <2>6, <2>7 DEF OnItsWay
<1>6. ~Enqueue(c)
  BY DEF Enqueue, managerVars
<1>. QED
  BY <1>3, <1>4, <1>5, <1>6 DEF CallerStep

\* A call that leaves the generation alone loses no command, while the
\* coordinator is open.
LEMMA CommandsOnTheirWayStay ==
  ASSUME Inv, NEW c \in Caller, CallerStep(c), generation' = generation,
         OnItsWay(generation), ~closed
  PROVE  OnItsWay(generation)'
<1> DEFINE g == generation
<1>1. /\ call \in [Caller -> Call] /\ commands \in Seq(Command)
      /\ generation \in Nat
  BY DEF Inv, TypeOK, ManagerTypeOK
<1>2. UNCHANGED <<loopAt, cmd>>
  BY DEF CallerStep, Activate, Deactivate, CancelReplaced, Enqueue, loopVars
<1>3. CASE loopAt \in {"check", "call", "backoff"} /\ cmd.generation = g
  BY <1>2, <1>3 DEF OnItsWay
<1>4. CASE \E i \in DOMAIN commands : commands[i].generation = g
  <2>1. PICK i \in DOMAIN commands : commands[i].generation = g
    BY <1>4
  <2>2. CASE Enqueue(c) /\ commands' # commands
    <3>1. commands' = Append(commands, Head(call[c].todo))
          /\ call[c].todo \in Seq(Command) /\ call[c].todo # <<>>
      BY <1>1, <2>2 DEF Enqueue, Call
    <3>2. Head(call[c].todo) \in Command
      BY <3>1, TailFacts
    <3>3. i \in DOMAIN commands' /\ commands'[i] = commands[i]
      <4> DEFINE x == Head(call[c].todo)
      <4>1. commands' = Append(commands, x) /\ x \in Command
        BY <3>1, <3>2
      <4> HIDE DEF x
      <4>. QED
        BY <1>1, <4>1
    <3>. QED
      BY <2>1, <3>3 DEF OnItsWay
  <2>3. CASE commands' = commands
    BY <2>1, <2>3 DEF OnItsWay
  <2>. QED
    BY <2>2, <2>3 DEF CallerStep, Activate, Deactivate, CancelReplaced
<1>5. CASE \E d \in Caller : \E i \in DOMAIN call[d].todo : call[d].todo[i].generation = g
  <2>0. PICK d \in Caller : \E i \in DOMAIN call[d].todo : call[d].todo[i].generation = g
    BY <1>5
  <2>1. PICK i \in DOMAIN call[d].todo : call[d].todo[i].generation = g
    BY <2>0
  <2>2. CASE call'[d].todo = call[d].todo
    BY <2>1, <2>2 DEF OnItsWay
  <2>3. CASE call'[d].todo # call[d].todo
    <3>1. d = c
      BY <1>1, <2>3 DEF CallerStep, Activate, Deactivate, CancelReplaced, Enqueue
    <3>2. call[c] # NoCall
      <4>1. ASSUME call[c] = NoCall PROVE FALSE
        <5>1. call[c].todo = <<>>
          BY <4>1 DEF NoCall
        <5>2. i \in DOMAIN << >>
          BY <2>1, <3>1, <5>1
        <5>. QED
          BY <5>2
      <4>. QED
        BY <4>1
    <3>3. ~CancelReplaced(c)
      <4>1. ASSUME CancelReplaced(c), UNCHANGED managerVars PROVE FALSE
        BY <1>1, <2>3, <3>1, <4>1 DEF CancelReplaced, Release, ChangeOwner, managerVars
      <4>2. ASSUME CancelReplaced(c), Release(call[c].victim) PROVE FALSE
        BY <1>1, <4>2 DEF Release, ChangeOwner
      <4>. QED
        BY <4>1, <4>2 DEF CancelReplaced
    <3>4. Enqueue(c)
      BY <3>2, <3>3 DEF CallerStep, Activate, Deactivate
    <3> DEFINE q == call[c].todo
    <3>5. /\ q \in Seq(Command) /\ q # <<>>
          /\ commands' = Append(commands, Head(q))
          /\ call'[c].todo = Tail(q)
          /\ i \in DOMAIN q /\ q[i].generation = g
      BY <1>1, <2>1, <3>1, <3>4 DEF Enqueue, Call
    <3>6. CASE i = 1
      <4>1. Head(q) = q[1] /\ Head(q) \in Command
        BY <3>5, TailFacts
      <4> DEFINE x == Head(q)
      <4>2. commands' = Append(commands, x) /\ x \in Command /\ x.generation = g
        BY <3>5, <3>6, <4>1
      <4>3. Len(commands) + 1 \in DOMAIN commands' /\ commands'[Len(commands) + 1] = x
        <5> HIDE DEF x
        <5>. QED
          BY <1>1, <4>2
      <4>. QED
        BY <4>2, <4>3 DEF OnItsWay
    <3>7. CASE i # 1
      <4>1. i \in 1..Len(q)
        BY <3>5
      <4>2. i - 1 \in 1..Len(Tail(q)) /\ Tail(q)[i - 1] = q[i] /\ Tail(q) \in Seq(Command)
        <5> HIDE DEF q
        <5>. QED
          BY <3>5, <3>7, <4>1, TailFacts
      <4>3. i - 1 \in DOMAIN call'[c].todo /\ call'[c].todo[i - 1].generation = g
        <5>1. i - 1 \in DOMAIN Tail(q)
          BY <4>2
        <5>. QED
          BY <3>5, <4>2, <5>1
      <4>. QED
        BY <4>3 DEF OnItsWay
    <3>. QED
      BY <3>6, <3>7
  <2>. QED
    BY <2>2, <2>3
<1>. QED
  BY <1>3, <1>4, <1>5 DEF OnItsWay

\* The configuration stays, and a closed coordinator stays closed.
LEMMA DeviceAndClosed ==
  ASSUME [Next]_vars
  PROVE  device' = device /\ (closed' = closed \/ closed' = TRUE)
<1>1. CASE \E c \in Caller : CallerStep(c)
  BY <1>1 DEF CallerStep, Activate, Deactivate, CancelReplaced, Enqueue
<1>2. CASE ManagerStep \/ Close \/ UNCHANGED vars
  BY <1>2 DEF ManagerStep, Close, vars, coordinatorVars
<1>3. CASE TakeCommand \/ StopLoop \/ CheckCommand \/ CallReturns \/ Retry
  BY <1>3 DEF TakeCommand, StopLoop, CheckCommand, CallReturns, CallSucceeds, CallFails, Retry
<1>. QED
  BY <1>1, <1>2, <1>3 DEF Next, CallerStep

LEMMA OwnerServedInv ==
  ASSUME Inv, [Next]_vars
  PROVE  OwnerServed'
<1>0. /\ generation \in Nat /\ shown \in 0..generation /\ abandoned \in Nat
      /\ abandoned <= generation /\ commands \in Seq(Command) /\ LoopGenuine
  BY DEF Inv, TypeOK, ManagerTypeOK, SpeakerFollows, AbandonedForward, CommandsGenuine,
         LoopGenuine
<1>1. device' = device /\ (closed => closed')
  <2>1. CASE closed' = closed
    BY <2>1, DeviceAndClosed, Zenon
  <2>2. CASE closed' = TRUE
    BY <2>2, DeviceAndClosed, Zenon
  <2>. QED
    BY <2>1, <2>2, DeviceAndClosed
<1>2. CASE closed \/ ~device
  BY <1>1, <1>2 DEF OwnerServed
<1>3. ASSUME NEW c \in Caller, CallerStep(c), ~closed, device
      PROVE  OwnerServed'
  <2>1. UNCHANGED <<shown, abandoned>>
    BY <1>3 DEF CallerStep, Activate, Deactivate, CancelReplaced, Enqueue, speakerVars
  <2>2. CASE generation' # generation
    BY <1>3, <2>2, NewGenerationOnItsWay DEF OwnerServed
  <2>3. CASE generation' = generation
    BY <1>3, <2>1, <2>3, CommandsOnTheirWayStay DEF OwnerServed, Inv
  <2>. QED
    BY <2>2, <2>3
<1>4. CASE ManagerStep \/ Close \/ StopLoop \/ Retry \/ UNCHANGED vars
  <2>1. /\ UNCHANGED <<generation, call, commands, cmd, shown, abandoned, device>>
        /\ loopAt \in {"check", "call", "backoff"} => loopAt' \in {"check", "call", "backoff"}
    BY <1>4 DEF ManagerStep, Tick, Touch, Close, StopLoop, Retry, vars, managerVars,
                coordinatorVars, speakerVars, loopVars
  <2>2. OnItsWay(generation) => OnItsWay(generation)'
    BY <2>1 DEF OnItsWay
  <2>. QED
    BY <1>1, <2>1, <2>2 DEF Inv, OwnerServed
<1>5. ASSUME TakeCommand \/ CheckCommand \/ CallReturns, ~closed, device
      PROVE  OwnerServed'
  <2>1. UNCHANGED <<managerVars, generation, active, ownerAt, call>>
    BY <1>5 DEF TakeCommand, CheckCommand, CallReturns, CallSucceeds, CallFails, managerVars
  <2>2. CASE generation = 0
    BY <2>1, <2>2 DEF OwnerServed
  <2>3. CASE \E c \in Caller : \E i \in DOMAIN call[c].todo :
                call[c].todo[i].generation = generation
    BY <2>1, <2>3 DEF OwnerServed, OnItsWay
  <2>4. CASE TakeCommand
    <3>1. /\ commands # <<>> /\ commands' = Tail(commands)
          /\ loopAt' = "check" /\ cmd' = Head(commands)
          /\ UNCHANGED <<shown, abandoned>> /\ loopAt = "select"
      BY <1>5, <2>4 DEF TakeCommand, speakerVars
    <3>2. ASSUME NEW i \in DOMAIN commands, commands[i].generation = generation
          PROVE  OnItsWay(generation)'
      <4>1. CASE i = 1
        BY <1>0, <2>1, <3>1, <3>2, <4>1, TailFacts DEF OnItsWay
      <4>2. CASE i # 1
        <5>1. i - 1 \in 1..Len(Tail(commands)) /\ Tail(commands)[i - 1] = commands[i]
              /\ Tail(commands) \in Seq(Command)
          BY <1>0, <3>1, <4>2, TailFacts
        <5>2. i - 1 \in DOMAIN commands' /\ commands'[i - 1].generation = generation
          BY <3>1, <3>2, <5>1
        <5>. QED
          BY <2>1, <5>2 DEF OnItsWay
      <4>. QED
        BY <4>1, <4>2
    <3>. QED
      BY <1>5, <2>1, <2>2, <2>3, <3>1, <3>2 DEF Inv, OwnerServed, OnItsWay
  <2>5. CASE CheckCommand
    <3>1. UNCHANGED <<commands, shown, abandoned>> /\ loopAt = "check"
      BY <2>5 DEF CheckCommand, speakerVars
    <3>2. ASSUME cmd.generation = generation
          PROVE  OnItsWay(generation)'
      <4>1. cmd \in Genuine
        BY <1>0, <3>1 DEF LoopGenuine
      <4>2. cmd.kind \in {"play", "pause"} /\ cmd.session \in Session
            /\ OwnerOf(generation) = IF cmd.kind = "play" THEN cmd.session ELSE NoSession
        BY <3>2, <4>1, GenuineFacts DEF Command
      <4>3. active = OwnerOf(generation)
        BY DEF Inv, GenerationNamesOwner
      <4>4. Current(cmd)
        BY <3>2, <4>2, <4>3, NoSessionAssumption DEF Current, IsOwner, IsIdleGeneration
      <4>. QED
        BY <2>1, <2>5, <3>2, <4>4 DEF CheckCommand, OnItsWay
    <3>. QED
      BY <1>5, <2>1, <2>2, <2>3, <3>1, <3>2 DEF Inv, OwnerServed, OnItsWay
  <2>6. CASE CallReturns
    <3>1. UNCHANGED commands /\ loopAt = "call"
      BY <2>6 DEF CallReturns, CallSucceeds, CallFails
    <3>2. /\ cmd.generation \in 1..generation /\ shown <= cmd.generation
          /\ abandoned <= cmd.generation
      BY <1>0, <3>1, GenuineFacts DEF LoopGenuine, Inv, SpeakerFollows, AbandonedForward
    <3>3. /\ shown' = shown \/ shown' = cmd.generation
          /\ abandoned' = abandoned \/ abandoned' = cmd.generation
      BY <2>6 DEF CallReturns, CallSucceeds, CallFails, TakesEffect
    <3>4. shown = generation => shown' = generation
      BY <1>0, <3>2, <3>3
    <3>5. abandoned = generation => abandoned' = generation
      BY <1>0, <3>2, <3>3
    <3>6. ASSUME cmd.generation = generation
          PROVE  shown' = generation \/ abandoned' = generation \/ OnItsWay(generation)'
      BY <2>1, <2>6, <3>6 DEF CallReturns, CallSucceeds, CallFails, TakesEffect, OnItsWay
    <3>7. ASSUME NEW i \in DOMAIN commands, commands[i].generation = generation
          PROVE  OnItsWay(generation)'
      BY <2>1, <3>1, <3>7 DEF OnItsWay
    <3>. QED
      BY <1>5, <2>1, <2>2, <2>3, <3>4, <3>5, <3>6, <3>7 DEF Inv, OwnerServed, OnItsWay
  <2>. QED
    BY <1>5, <2>4, <2>5, <2>6
<1>. QED
  BY <1>2, <1>3, <1>4, <1>5 DEF Next, CallerStep

-----------------------------------------------------------------------------
\* The theorems.

LEMMA InvInit == Init => Inv
<1> SUFFICES ASSUME Init PROVE Inv
  OBVIOUS
<1>1. ManagerInv /\ generation = 0 /\ active = NoSession
  BY ManagerInitInv DEF Init, ManagerInit
<1>2. TypeOK
  <2>1. <<>> \in Seq(Command) /\ Len(<<>>) = 0
    BY EmptyFacts
  <2>2. NoCall \in Call
    BY <2>1 DEF NoCall, Call, SessionOrNone
  <2>3. call \in [Caller -> Call] /\ commands \in Seq(Command) /\ Len(commands) <= QueueCap
    BY <2>1, <2>2, QueueCapAssumption DEF Init
  <2>4. ManagerTypeOK
    BY <1>1 DEF ManagerInv
  <2>5. /\ loopAt = "select" /\ cmd = NoCommand /\ attempt \in 0..MaxAttempts
        /\ speaker \in SessionOrNone /\ shown \in Nat /\ abandoned \in Nat
    BY DEF Init, MaxAttempts, SessionOrNone
  <2>6. device \in BOOLEAN /\ closed \in BOOLEAN
    BY DEF Init
  <2>. QED
    BY <2>3, <2>4, <2>5, <2>6 DEF TypeOK
<1>3. CommandsGenuine
  <2>1. <<>> \in Seq(Genuine)
    BY EmptyFacts
  <2>2. \A c \in Caller : call[c].todo = <<>>
    BY DEF Init, NoCall
  <2>. QED
    BY <2>1, <2>2 DEF Init, CommandsGenuine
<1>4. SpeakerFollows /\ AbandonedForward /\ OwnerServed
  BY <1>1 DEF Init, SpeakerFollows, AbandonedForward, OwnerServed, OwnerOf
<1>. QED
  BY <1>1, <1>2, <1>3, <1>4 DEF Inv, ManagerInv

LEMMA InvNext == Inv /\ [Next]_vars => Inv'
<1> SUFFICES ASSUME Inv, [Next]_vars PROVE Inv'
  OBVIOUS
<1>1. ManagerTypeOK' /\ GenerationNamesOwner'
  BY GenuineGrows DEF ManagerInv
<1>2. /\ call' \in [Caller -> [victim : SessionOrNone, todo : Seq(Genuine')]]
      /\ commands' \in Seq(Genuine') /\ Len(commands') <= QueueCap
      /\ LoopTyped' /\ LoopGenuine' /\ SpeakerFollows'
  BY QueuesInv, LoopInv, SpeakerInv
<1>3. Genuine' \subseteq Command
  BY DEF Genuine
<1>4. CommandsGenuine'
  BY <1>2 DEF CommandsGenuine, LoopGenuine
<1>5. call' \in [Caller -> Call] /\ commands' \in Seq(Command)
  <2>1. \A c \in Caller : call'[c] \in Call
    BY <1>2, <1>3, SeqMonotone DEF Call
  <2>. QED
    BY <1>2, <1>3, <2>1, SeqMonotone
<1>6. device' \in BOOLEAN /\ closed' \in BOOLEAN
  BY DeviceAndClosed DEF Inv, TypeOK
<1>7. speaker' \in SessionOrNone /\ shown' \in Nat
  <2>1. shown' \in 0..generation' /\ generation' \in Nat /\ speaker' = OwnerOf(shown)'
        /\ ownerAt' \in Seq(SessionOrNone) /\ generation' = Len(ownerAt')
    BY <1>1, <1>2 DEF SpeakerFollows, ManagerTypeOK, GenerationNamesOwner
  <2>. QED
    BY <2>1 DEF OwnerOf, SessionOrNone
<1>8. cmd' \in Command \union {NoCommand}
      /\ (loopAt' \in {"check", "call", "backoff"} => cmd' \in Command)
  BY <1>2, <1>3 DEF LoopTyped, LoopGenuine
<1>9. TypeOK'
  BY <1>1, <1>2, <1>5, <1>6, <1>7, <1>8 DEF TypeOK, LoopTyped
<1>. QED
  BY <1>1, <1>2, <1>4, <1>9, AbandonedInv, OwnerServedInv DEF Inv

LEMMA PlaybackInv == Spec => []Inv
  BY InvInit, InvNext, PTL DEF Spec

\* Every variable of the coordinator, the arbiter and the speaker keeps its type,
\* the channel its capacity and the loop its attempt count.
THEOREM PlaybackTypeCorrect == Spec => []TypeOK
<1>1. Inv => TypeOK
  BY DEF Inv
<1>. QED
  BY <1>1, PlaybackInv, PTL

\* No interleaving loses the command for the present owner.
THEOREM PlaybackServesOwner == Spec => []OwnerServed
<1>1. Inv => OwnerServed
  BY DEF Inv
<1>. QED
  BY <1>1, PlaybackInv, PTL

\* When nothing is in progress the speaker plays the stream of the session that
\* owns it, unless the attempts to make it do so were used up.
THEOREM PlaybackSpeakerMatches == Spec => []SpeakerMatchesOwnerAtRest
<1>1. ASSUME Inv, AtRest, device, ~closed, abandoned # generation
      PROVE  speaker = active
  <2>1. ~OnItsWay(generation)
    BY <1>1 DEF AtRest, OnItsWay, NoCall
  <2>2. generation = 0 \/ shown = generation
    BY <1>1, <2>1 DEF Inv, OwnerServed
  <2>3. shown \in 0..generation /\ generation \in Nat
        /\ speaker = OwnerOf(shown) /\ active = OwnerOf(generation)
    BY <1>1 DEF Inv, TypeOK, ManagerTypeOK, SpeakerFollows, GenerationNamesOwner
  <2>. QED
    BY <2>2, <2>3
<1>2. Inv => SpeakerMatchesOwnerAtRest
  BY <1>1 DEF SpeakerMatchesOwnerAtRest
<1>. QED
  BY <1>2, PlaybackInv, PTL

\* The coordinator implements Handover: the speaker follows the owners in order
\* and never goes back, whatever was late, repeated or retried.
THEOREM PlaybackFollowsOwners == Spec => FollowsOwners
<1>1. Init => Abstract!Init
  BY DEF Init, ManagerInit, Abstract!Init
<1>2. ASSUME Inv, Inv', [Next]_vars
      PROVE  [Abstract!Next]_<<ownerAt, shown, speaker>>
  <2>1. ManagerInv /\ [ManagerNext]_managerVars /\ generation \in Nat
    BY <1>2, ManagerInvOf, ManagerStepOf DEF Inv, TypeOK, ManagerTypeOK
  <2>2. CASE UNCHANGED <<speaker, shown>>
    <3>1. CASE UNCHANGED ownerAt
      BY <2>2, <3>1
    <3>2. ASSUME NEW s \in SessionOrNone, ChangeOwner(s), s # active
          PROVE  Abstract!Next
      <4>1. active = IF ownerAt = <<>> THEN NoSession ELSE ownerAt[Len(ownerAt)]
        BY <2>1 DEF ManagerInv, ManagerTypeOK, GenerationNamesOwner, OwnerOf
      <4>2. Abstract!Change(s)
        BY <2>2, <3>2, <4>1 DEF Abstract!Change, ChangeOwner
      <4>. QED
        BY <4>2 DEF Abstract!Next, SessionOrNone
    <3>. QED
      BY <2>1, <3>1, <3>2, ManagerStepCases
  <2>3. CASE CallReturns /\ TakesEffect
    <3>1. loopAt = "call" /\ ownerAt' = ownerAt
      BY <2>3 DEF CallReturns, CallSucceeds, CallFails, managerVars
    <3>2. cmd \in Genuine /\ shown <= cmd.generation
      BY <1>2, <3>1 DEF Inv, CommandsGenuine, SpeakerFollows
    <3>3. cmd.generation \in 1..generation
          /\ OwnerOf(cmd.generation) = IF cmd.kind = "play" THEN cmd.session ELSE NoSession
      BY <1>2, <3>2, GenuineFacts
    <3>4. cmd.generation \in 1..Len(ownerAt) /\ speaker' = ownerAt[cmd.generation]
          /\ shown' = cmd.generation
      BY <2>1, <2>3, <3>3 DEF TakesEffect, OwnerOf, ManagerInv, GenerationNamesOwner
    <3>5. Abstract!Show(cmd.generation)
      BY <1>2, <2>1, <3>1, <3>2, <3>3, <3>4 DEF Abstract!Show, Inv, TypeOK
    <3>. QED
      BY <3>4, <3>5 DEF Abstract!Next
  <2>4. UNCHANGED <<speaker, shown>> \/ (CallReturns /\ TakesEffect)
    <3>1. CASE LoopUntouched
      BY <3>1 DEF LoopUntouched
    <3>2. CASE TakeCommand \/ StopLoop \/ CheckCommand \/ Retry
      BY <3>2 DEF TakeCommand, StopLoop, CheckCommand, Retry, speakerVars
    <3>3. CASE CallReturns
      BY <3>3 DEF CallReturns, CallSucceeds, CallFails
    <3>. QED
      BY <1>2, <3>1, <3>2, <3>3, UntouchedCases
  <2>. QED
    BY <2>2, <2>3, <2>4
<1>. QED
  BY <1>1, <1>2, InvInit, InvNext, PTL DEF Spec, FollowsOwners, Abstract!Spec

\* Callers, the loop and retries use the arbiter only through its operations, so
\* that what is proved of it holds here: generations name owners, old ones stay
\* old and the policy is kept.
THEOREM PlaybackKeepsArbiter ==
  Spec => [](GenerationNamesOwner /\ PolicyHeld) /\ StaleStaysStale
<1>1. Init => ManagerInit
  BY DEF Init
<1>2. Inv /\ [Next]_vars => [ManagerNext]_managerVars
  BY ManagerStepOf DEF Inv
<1>3. Spec => ManagerSpec
  BY <1>1, <1>2, PlaybackInv, PTL DEF Spec, ManagerSpec
<1>. QED
  BY <1>3, ManagerCorrect, ManagerStaleStaysStale, ManagerHoldsPolicy, PTL

\* What is heard is taken from a session only as the policy allows, for any number
\* of callers that overtake each other and any capacity of the channel: the speaker
\* moves forward along a history of owners that the policy allows.
THEOREM PlaybackRespectsPolicy == Spec => SpeakerRespectsPolicy
<1>1. ASSUME Inv, PolicyHeld, [Next]_vars
      PROVE  speaker # NoSession /\ speaker' \notin {NoSession, speaker} =>
                PolicyAllows(shown, shown')
  <2>1. UNCHANGED <<speaker, shown>> \/ (CallReturns /\ TakesEffect)
    <3>1. CASE LoopUntouched
      BY <3>1 DEF LoopUntouched
    <3>2. CASE TakeCommand \/ StopLoop \/ CheckCommand \/ Retry
      BY <3>2 DEF TakeCommand, StopLoop, CheckCommand, Retry, speakerVars
    <3>3. CASE CallReturns
      BY <3>3 DEF CallReturns, CallSucceeds, CallFails
    <3>. QED
      BY <1>1, <3>1, <3>2, <3>3, UntouchedCases
  <2>2. CASE CallReturns /\ TakesEffect
    <3>1. loopAt = "call" /\ shown \in 0..generation /\ speaker = OwnerOf(shown)
      BY <1>1, <2>2 DEF CallReturns, CallSucceeds, CallFails, Inv, SpeakerFollows
    <3>2. cmd \in Genuine /\ shown <= cmd.generation
      BY <1>1, <3>1 DEF Inv, CommandsGenuine, SpeakerFollows
    <3>3. cmd.generation \in 1..generation /\ shown' = cmd.generation
          /\ speaker' = OwnerOf(cmd.generation)
      BY <1>1, <2>2, <3>2, GenuineFacts DEF TakesEffect
    <3>4. CASE speaker # NoSession /\ speaker' # speaker
      <4>1. shown # 0 /\ shown # cmd.generation
        BY <3>1, <3>3, <3>4 DEF OwnerOf
      <4>2. shown \in 1..generation /\ shown < cmd.generation /\ generation \in Nat
        BY <1>1, <3>1, <3>2, <3>3, <4>1 DEF Inv, TypeOK, ManagerTypeOK
      <4>. QED
        BY <1>1, <3>3, <4>2 DEF PolicyHeld
    <3>. QED
      BY <3>4
  <2>. QED
    BY <2>1, <2>2
<1>2. Spec => []PolicyHeld
  BY PlaybackKeepsArbiter, PTL
<1>3. Inv /\ PolicyHeld /\ [Next]_vars =>
         [speaker # NoSession /\ speaker' \notin {NoSession, speaker} =>
            PolicyAllows(shown, shown')]_vars
  BY <1>1
<1>. QED
  BY <1>2, <1>3, PlaybackInv, PTL DEF Spec, SpeakerRespectsPolicy

\* A caller that finds the channel full waits for a control loop that is going to
\* take a command out, or for nothing: the safety half of CallsReturn.
NobodyStranded ==
    \A c \in Caller : call[c].todo # <<>> =>
       \/ Len(commands) < QueueCap \/ closed
       \/ loopAt \in {"check", "call", "backoff"}
       \/ loopAt = "select" /\ commands # <<>>

THEOREM PlaybackStrandsNobody == Spec => []NobodyStranded
<1>. DEFINE LeavesClosed == loopAt = "exited" => closed
<1>1. Init => LeavesClosed
  BY DEF Init
<1>2. LeavesClosed /\ [Next]_vars => LeavesClosed'
  <2>. SUFFICES ASSUME LeavesClosed, [Next]_vars PROVE LeavesClosed'
    OBVIOUS
  <2>1. ASSUME NEW c \in Caller, NEW s \in Session, Activate(c, s) \/ Deactivate(c, s)
        PROVE  UNCHANGED <<loopAt, closed>>
    BY <2>1 DEF Activate, Deactivate, loopVars
  <2>2. ASSUME NEW c \in Caller, CancelReplaced(c) \/ Enqueue(c)
        PROVE  UNCHANGED <<loopAt, closed>>
    BY <2>2 DEF CancelReplaced, Enqueue, loopVars
  <2>3. CASE \/ ManagerStep \/ Close \/ TakeCommand \/ StopLoop \/ CheckCommand
             \/ CallReturns \/ Retry \/ UNCHANGED vars
    BY <2>3 DEF ManagerStep, Close, TakeCommand, StopLoop, CheckCommand, CallReturns,
       CallSucceeds, CallFails, Retry, LoopReturns, vars, coordinatorVars, loopVars
  <2>. QED
    BY <2>1, <2>2, <2>3 DEF Next
<1>3. ASSUME TypeOK, LeavesClosed PROVE NobodyStranded
  <2>1. Len(commands) >= QueueCap => commands # <<>>
    BY QueueCapAssumption
  <2>2. Len(commands) \in Nat
    BY <1>3 DEF TypeOK
  <2>. QED
    BY <1>3, <2>1, <2>2, QueueCapAssumption DEF NobodyStranded, TypeOK
<1>. QED
  BY <1>1, <1>2, <1>3, PlaybackTypeCorrect, PTL DEF Spec
=============================================================================
