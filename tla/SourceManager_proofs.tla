------------------------ MODULE SourceManager_proofs ------------------------
(***************************************************************************)
(* Proofs about the arbiter, for every set of sessions, timeout and bound. *)
(***************************************************************************)
EXTENDS SourceManager, TLAPS

\* The inductive invariant: the counter is the length of the history of owners
\* and the active session its last entry.
ManagerInv == ManagerTypeOK /\ GenerationNamesOwner

LEMMA ManagerInitInv == ManagerInit => ManagerInv
  BY NoSessionAssumption, IdleTimeoutAssumption
  DEF ManagerInit, ManagerInv, ManagerTypeOK, GenerationNamesOwner, OwnerOf, SessionOrNone

\* A change of owner, whoever the new owner is, keeps the invariant.
LEMMA ChangeOwnerInv ==
  ASSUME ManagerInv, NEW s \in SessionOrNone, ChangeOwner(s)
  PROVE  /\ ManagerInv'
         /\ generation' = generation + 1
         /\ \A g \in 1..generation : ownerAt'[g] = ownerAt[g]
         /\ ownerAt'[generation'] = s
<1>1. /\ generation \in Nat /\ ownerAt \in Seq(SessionOrNone) /\ generation = Len(ownerAt)
      /\ generation' = generation + 1 /\ active' = s /\ ownerAt' = Append(ownerAt, s)
      /\ idleFor' = 0 /\ UNCHANGED config
  BY DEF ManagerInv, ManagerTypeOK, GenerationNamesOwner, ChangeOwner
<1>2. ownerAt' \in Seq(SessionOrNone) /\ Len(ownerAt') = generation'
      /\ ownerAt'[generation'] = s /\ \A g \in 1..generation : ownerAt'[g] = ownerAt[g]
  BY <1>1
<1>3. ManagerTypeOK'
  BY <1>1, <1>2, IdleTimeoutAssumption DEF ManagerInv, ManagerTypeOK, config
<1>4. GenerationNamesOwner'
  BY <1>1, <1>2 DEF GenerationNamesOwner, OwnerOf
<1>. QED
  BY <1>1, <1>2, <1>3, <1>4 DEF ManagerInv

\* A step that moves only the activity clock keeps the invariant.
LEMMA ClockInv ==
  ASSUME ManagerInv, idleFor' \in 0..IdleTimeout,
         UNCHANGED <<config, generation, active, ownerAt>>
  PROVE  ManagerInv'
  BY DEF ManagerInv, ManagerTypeOK, GenerationNamesOwner, OwnerOf, config

\* Every step either leaves generation, owner and history alone, or changes
\* the owner.
LEMMA ManagerStepCases ==
  ASSUME ManagerInv, [ManagerNext]_managerVars
  PROVE  \/ UNCHANGED <<config, generation, active, ownerAt>> /\ idleFor' \in 0..IdleTimeout
         \/ \E s \in SessionOrNone : ChangeOwner(s) /\ s # active
<1>1. ASSUME NEW s \in SessionOrNone, AcquireAgain(s) \/ Touch(s)
      PROVE  UNCHANGED <<config, generation, active, ownerAt>> /\ idleFor' \in 0..IdleTimeout
  BY <1>1, IdleTimeoutAssumption DEF AcquireAgain, Touch
<1>2. ASSUME NEW s \in SessionOrNone, AcquireNew(s)
      PROVE  ChangeOwner(s) /\ s # active
  BY <1>2 DEF AcquireNew
<1>3. ASSUME NEW s \in SessionOrNone, Release(s)
      PROVE  ChangeOwner(NoSession) /\ NoSession # active
  BY <1>3 DEF Release
<1>4. ASSUME Tick
      PROVE  UNCHANGED <<config, generation, active, ownerAt>> /\ idleFor' \in 0..IdleTimeout
  BY <1>4, IdleTimeoutAssumption DEF Tick, ManagerInv, ManagerTypeOK
<1>5. ASSUME UNCHANGED managerVars
      PROVE  UNCHANGED <<config, generation, active, ownerAt>> /\ idleFor' \in 0..IdleTimeout
  BY <1>5 DEF managerVars, config, ManagerInv, ManagerTypeOK
<1>6. ASSUME NEW s \in SessionOrNone, Reject(s) PROVE UNCHANGED managerVars
  BY <1>6 DEF Reject
<1>7. NoSession \in SessionOrNone
  BY DEF SessionOrNone
<1>. QED
  BY <1>1, <1>2, <1>3, <1>4, <1>5, <1>6, <1>7 DEF ManagerNext

LEMMA ManagerNextInv ==
  ASSUME ManagerInv, [ManagerNext]_managerVars
  PROVE  ManagerInv'
  BY ManagerStepCases, ChangeOwnerInv, ClockInv

\* The arbiter's variables keep their types, and generation and owner name the
\* last change of owner, in every reachable state.
THEOREM ManagerCorrect == ManagerSpec => [](ManagerTypeOK /\ GenerationNamesOwner)
<1>1. ManagerInit => ManagerInv
  BY ManagerInitInv
<1>2. ManagerInv /\ [ManagerNext]_managerVars => ManagerInv'
  BY ManagerNextInv
<1>. QED
  BY <1>1, <1>2, PTL DEF ManagerSpec, ManagerInv

-----------------------------------------------------------------------------

\* A generation once superseded never answers IsOwner or IsIdleGeneration with
\* yes again, whatever acquisitions and releases follow.
THEOREM ManagerStaleStaysStale == ManagerSpec => StaleStaysStale
<1> DEFINE Stale ==
      \A g \in 0..generation :
         /\ \A s \in Session : ~IsOwner(s, g) => ~IsOwner(s, g)'
         /\ ~IsIdleGeneration(g) => ~IsIdleGeneration(g)'
<1>1. ASSUME ManagerInv, [ManagerNext]_managerVars
      PROVE  Stale
  <2>1. CASE UNCHANGED <<config, generation, active, ownerAt>>
    BY <2>1 DEF IsOwner, IsIdleGeneration
  <2>2. ASSUME NEW s \in SessionOrNone, ChangeOwner(s) PROVE Stale
    <3>1. generation' = generation + 1 /\ generation \in Nat
      BY <1>1, <2>2 DEF ChangeOwner, ManagerInv, ManagerTypeOK
    <3>2. \A g \in 0..generation : g # generation'
      BY <3>1
    <3>. QED
      BY <3>2 DEF IsOwner, IsIdleGeneration
  <2>. QED
    BY <1>1, <2>1, <2>2, ManagerStepCases
<1>2. ManagerInv /\ [ManagerNext]_managerVars => [Stale]_managerVars
  BY <1>1
<1>. QED
  BY <1>2, ManagerInitInv, ManagerNextInv, PTL DEF ManagerSpec, StaleStaysStale

\* A preemption adds to the history an owner the policy allows after the present
\* one, and so, chained to the earlier ones, after all since the last release.
LEMMA PreemptionAllowed ==
  ASSUME ManagerInv, PolicyHeld, NEW s \in Session, AcquireNew(s)
  PROVE  PolicyHeld'
<1>1. /\ ChangeOwner(s) /\ s \in SessionOrNone /\ generation \in Nat
      /\ active = OwnerOf(generation)
      /\ UNCHANGED config
      /\ active # NoSession => CanReplace(s)
  BY DEF AcquireNew, ChangeOwner, SessionOrNone, ManagerInv, ManagerTypeOK, GenerationNamesOwner
<1>2. generation' = generation + 1
      /\ \A h : h = generation' => OwnerOf(h)' = s
      /\ \A g \in 1..generation : OwnerOf(g)' = OwnerOf(g)
  BY <1>1, ChangeOwnerInv DEF OwnerOf
<1>. SUFFICES ASSUME NEW g \in 1..generation', NEW h \in 1..generation', g < h,
                     \A i \in g..h : OwnerOf(i)' # NoSession
              PROVE  /\ policy # "lock"
                     /\ policy = "priority" /\ ProtocolOf[OwnerOf(g)'] = preferred =>
                           ProtocolOf[OwnerOf(h)'] = preferred
  BY <1>1 DEF PolicyHeld, PolicyAllows, config
<1>3. g \in 1..generation /\ OwnerOf(g)' = OwnerOf(g)
  BY <1>1, <1>2
<1>4. CASE h \in 1..generation
  <2>1. \A i \in g..h : i \in 1..generation
    BY <1>1, <1>3, <1>4
  <2>2. OwnerOf(h)' = OwnerOf(h) /\ \A i \in g..h : OwnerOf(i) # NoSession
    BY <1>2, <1>4, <2>1
  <2>. QED
    BY <1>3, <1>4, <2>2 DEF PolicyHeld, PolicyAllows
<1>5. CASE h = generation'
  <2>1. \A i \in g..generation : i \in 1..generation /\ i \in g..h
    BY <1>1, <1>2, <1>3, <1>5
  <2>2. \A i \in g..generation : OwnerOf(i) # NoSession
    BY <1>2, <2>1
  <2>3. generation \in g..generation /\ generation \in 1..generation
    BY <1>1, <1>3
  <2>4. active # NoSession /\ CanReplace(s)
    BY <1>1, <2>2, <2>3
  <2>5. policy # "lock"
        /\ (policy = "priority" /\ ProtocolOf[active] = preferred => ProtocolOf[s] = preferred)
    BY <2>4 DEF CanReplace
  <2>6. policy = "priority" /\ ProtocolOf[OwnerOf(g)] = preferred =>
           ProtocolOf[active] = preferred
    <3>1. CASE g = generation
      BY <1>1, <3>1
    <3>2. CASE g < generation
      BY <1>1, <1>3, <2>2, <2>3, <3>2 DEF PolicyHeld, PolicyAllows
    <3>. QED
      BY <1>1, <1>3, <3>1, <3>2
  <2>. QED
    BY <1>2, <1>3, <1>5, <2>5, <2>6
<1>. QED
  BY <1>1, <1>2, <1>4, <1>5

\* A release ends every stretch of owners it is in.
LEMMA ReleaseAllowed ==
  ASSUME ManagerInv, PolicyHeld, ChangeOwner(NoSession)
  PROVE  PolicyHeld'
<1>1. NoSession \in SessionOrNone /\ generation \in Nat /\ UNCHANGED config
  BY DEF SessionOrNone, ChangeOwner, ManagerInv, ManagerTypeOK
<1>2. generation' = generation + 1
      /\ \A h : h = generation' => OwnerOf(h)' = NoSession
      /\ \A g \in 1..generation : OwnerOf(g)' = OwnerOf(g)
  BY <1>1, ChangeOwnerInv DEF OwnerOf
<1>. SUFFICES ASSUME NEW g \in 1..generation', NEW h \in 1..generation', g < h
              PROVE  PolicyAllows(g, h)'
  BY DEF PolicyHeld
<1>3. CASE h = generation'
  <2>1. h \in g..h
    BY <1>1, <1>2
  <2>. QED
    BY <1>2, <1>3, <2>1 DEF PolicyAllows
<1>4. CASE h \in 1..generation
  <2>1. g \in 1..generation /\ \A i \in g..h : i \in 1..generation
    BY <1>1, <1>2, <1>4
  <2>2. OwnerOf(g)' = OwnerOf(g) /\ OwnerOf(h)' = OwnerOf(h)
        /\ \A i \in g..h : OwnerOf(i)' = OwnerOf(i)
    BY <1>2, <1>4, <2>1
  <2>3. PolicyAllows(g, h)
    BY <1>4, <2>1 DEF PolicyHeld
  <2>. QED
    BY <1>1, <2>2, <2>3 DEF PolicyAllows, config
<1>. QED
  BY <1>1, <1>2, <1>3, <1>4

\* Between two releases the speaker changes hands only as the policy allows, by
\* however many preemptions: never under "lock", and under "priority" the preferred
\* protocol keeps it from the other one all along.
THEOREM ManagerHoldsPolicy == ManagerSpec => []PolicyHeld
<1>1. ManagerInit => PolicyHeld
  BY DEF ManagerInit, PolicyHeld
<1>2. ASSUME ManagerInv, PolicyHeld, [ManagerNext]_managerVars PROVE PolicyHeld'
  <2>1. CASE UNCHANGED <<config, generation, active, ownerAt>>
    BY <1>2, <2>1 DEF PolicyHeld, PolicyAllows, OwnerOf, config
  <2>2. ASSUME NEW s \in SessionOrNone, AcquireNew(s) PROVE PolicyHeld'
    <3>1. s \in Session
      BY <2>2 DEF AcquireNew, SessionOrNone
    <3>. QED
      BY <1>2, <2>2, <3>1, PreemptionAllowed
  <2>3. ASSUME NEW s \in SessionOrNone, Release(s) PROVE PolicyHeld'
    BY <1>2, <2>3, ReleaseAllowed DEF Release
  <2>. QED
    BY <1>2, <2>1, <2>2, <2>3
    DEF ManagerNext, AcquireAgain, Reject, Touch, Tick, managerVars, config
<1>. QED
  BY <1>1, <1>2, ManagerInitInv, ManagerNextInv, PTL DEF ManagerSpec
=============================================================================
