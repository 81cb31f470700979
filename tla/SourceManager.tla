---------------------------- MODULE SourceManager ----------------------------
(***************************************************************************)
(* The arbiter of src/core/source/manager.go: at most one session at a     *)
(* time owns the speaker, a policy decides who may take it from whom, and  *)
(* every change of owner draws a fresh generation number.  Each operation  *)
(* runs under one mutex, so each is one action.                            *)
(***************************************************************************)
EXTENDS Integers, Sequences

CONSTANTS
    Session,        \* the ids of the sessions that ask for the speaker
    NoSession,      \* a nil owner; as the id of a request, the empty string
    ProtocolOf,     \* the protocol each session speaks
    Policies,       \* the policies the daemon may be configured with
    Preferences,    \* the preferred protocols it may be configured with
    IdleTimeout,    \* idleTimeout, in ticks
    MaxGeneration   \* bound: no session is granted ownership beyond it

Protocols == {"airplay", "dlna"}

ASSUME NoSessionAssumption == NoSession \notin Session
ASSUME ProtocolAssumption == ProtocolOf \in [Session -> Protocols]
ASSUME PolicyAssumption == Policies \subseteq {"latest", "lock", "idle", "priority"}
ASSUME PreferenceAssumption == Preferences \subseteq Protocols
ASSUME IdleTimeoutAssumption == IdleTimeout \in Nat \ {0}
ASSUME GenerationAssumption == MaxGeneration \in Nat

SessionOrNone == Session \union {NoSession}

VARIABLES
    policy,      \* configuration, never changes
    preferred,   \* preferredProtocol, configuration
    generation,  \* m.generation
    active,      \* m.active: the session that owns the speaker, or NoSession
    idleFor,     \* now - m.active.LastActivity, up to IdleTimeout
    ownerAt      \* history: ownerAt[g] is the owner generation g stands for

config == <<policy, preferred>>
managerVars == <<policy, preferred, generation, active, idleFor, ownerAt>>

ManagerTypeOK ==
    /\ policy \in Policies
    /\ preferred \in Preferences
    /\ generation \in Nat
    /\ active \in SessionOrNone
    /\ idleFor \in 0..IdleTimeout
    /\ ownerAt \in Seq(SessionOrNone)

ManagerInit ==
    /\ policy \in Policies
    /\ preferred \in Preferences
    /\ generation = 0
    /\ active = NoSession
    /\ idleFor = 0
    /\ ownerAt = <<>>

-----------------------------------------------------------------------------

\* Variant: the case PolicyIdle is missing.
CanReplaceNeverIdle(s) ==
    \/ policy = "latest"
    \/ policy = "priority" /\ \/ ProtocolOf[s] = preferred
                              \/ ProtocolOf[active] # preferred

\* Variant: the owner's protocol is tested the wrong way round.
CanReplacePreferred(s) ==
    \/ policy = "latest"
    \/ policy = "idle" /\ idleFor >= IdleTimeout
    \/ policy = "priority" /\ \/ ProtocolOf[s] = preferred
                              \/ ProtocolOf[active] = preferred

\* canReplaceLocked, asked only while some session is active.
CanReplace(s) ==
    \/ policy = "latest"
    \/ policy = "idle" /\ idleFor >= IdleTimeout
    \/ policy = "priority" /\ \/ ProtocolOf[s] = preferred
                              \/ ProtocolOf[active] # preferred

\* The session with a new generation becomes the owner, or nobody does.
ChangeOwner(s) ==
    /\ generation' = generation + 1
    /\ active' = s
    /\ idleFor' = 0
    /\ ownerAt' = Append(ownerAt, s)
    /\ UNCHANGED config

\* Acquire by the owner itself: granted again, in the same generation.
AcquireAgain(s) ==
    /\ s # NoSession
    /\ active = s
    /\ idleFor' = 0
    /\ UNCHANGED <<config, generation, active, ownerAt>>

\* Acquire granted: from nobody, or by preempting the active session.
AcquireNew(s) ==
    /\ s # NoSession
    /\ active # s
    /\ active # NoSession => CanReplace(s)
    /\ generation < MaxGeneration
    /\ ChangeOwner(s)

\* Acquire refused: no id, or the active session may not be replaced.
Reject(s) ==
    /\ s # NoSession => active \notin {NoSession, s} /\ ~CanReplace(s)
    /\ UNCHANGED managerVars

Touch(s) ==
    /\ s # NoSession
    /\ active = s
    /\ idleFor' = 0
    /\ UNCHANGED <<config, generation, active, ownerAt>>

\* Variant: only a new owner draws a generation.
ReleaseInGeneration(s) ==
    /\ s # NoSession
    /\ active = s
    /\ active' = NoSession
    /\ idleFor' = 0
    /\ UNCHANGED <<config, generation, ownerAt>>

Release(s) ==
    /\ s # NoSession
    /\ active = s
    /\ ChangeOwner(NoSession)

\* Time passes.  Only the idle policy reads the clock.
Tick ==
    /\ policy = "idle"
    /\ active # NoSession
    /\ idleFor < IdleTimeout
    /\ idleFor' = idleFor + 1
    /\ UNCHANGED <<config, generation, active, ownerAt>>

\* Variant: the generation is not compared.
IsOwnerById(s, g) == active # NoSession /\ active = s

IsOwner(s, g) == active # NoSession /\ active = s /\ generation = g

IsIdleGeneration(g) == active = NoSession /\ generation = g

ManagerNext ==
    \/ \E s \in SessionOrNone :
          AcquireAgain(s) \/ AcquireNew(s) \/ Reject(s) \/ Touch(s) \/ Release(s)
    \/ Tick

ManagerSpec == ManagerInit /\ [][ManagerNext]_managerVars

-----------------------------------------------------------------------------

\* The owner a generation stands for.
OwnerOf(g) == IF g = 0 THEN NoSession ELSE ownerAt[g]

\* Every generation stands for one change of owner: the counter is the number
\* of changes, and the active session is the owner of the last of them.  The
\* coordinator relies on it when it compares the generation of an old command.
GenerationNamesOwner ==
    /\ generation = Len(ownerAt)
    /\ active = OwnerOf(generation)

\* A pair (session, generation) that IsOwner refuses is refused for ever, and
\* a generation that is not idle is never idle again, up to the generations
\* handed out so far.  It is what makes a late command harmless: the session
\* that left and came back is not the owner its old commands were issued for.
StaleStaysStale ==
    [][\A g \in 0..generation :
         /\ \A s \in Session : ~IsOwner(s, g) => ~IsOwner(s, g)'
         /\ ~IsIdleGeneration(g) => ~IsIdleGeneration(g)']_managerVars

\* What the policy allows to happen to the owner of generation g up to generation
\* h, with no release in between: nothing under "lock", and under "priority" the
\* preferred protocol has not gone to the other one, by however many preemptions.
PolicyAllows(g, h) ==
    (\A i \in g..h : OwnerOf(i) # NoSession) =>
       /\ policy # "lock"
       /\ policy = "priority" /\ ProtocolOf[OwnerOf(g)] = preferred =>
             ProtocolOf[OwnerOf(h)] = preferred

\* The history of owners is one the policy allows.
PolicyHeld == \A g, h \in 1..generation : g < h => PolicyAllows(g, h)

\* Under "idle" a session cannot hold the speaker for ever while others keep
\* asking unless it keeps being active, and under "latest" not at all (while
\* MaxGeneration lets ownership move).
SilentOwnerYields ==
    \A s \in Session :
       /\ policy = "idle" /\ <>[](active = s) =>
             []<>(idleFor = 0) \/ <>(generation >= MaxGeneration)
       /\ policy = "latest" /\ <>[](active = s) => <>(generation >= MaxGeneration)
=============================================================================
