------------------------ MODULE TokenAccount_proofs ------------------------
(***************************************************************************)
(* Proofs about TokenAccount, for any number of requesting goroutines,     *)
(* tokens and restarts: what the store file holds, and what a second       *)
(* attempt brings, however renewals, the other process and restarts cross. *)
(***************************************************************************)
EXTENDS TokenAccount, TLAPS

Goroutine == [at : {"idle", "ensure", "call", "delete", "refresh", "store", "save", "write"},
              attempt : {0, 1}, tok : Tokens, then : {"ensure", "call", "idle"}]

\* A goroutine that is to store, save or return a token has one, and a login.
HoldsToken ==
    \A t \in Thread :
       /\ thread[t].at \in {"call", "store", "save", "write"} => thread[t].tok # 0
       /\ thread[t].at \in {"store", "save", "write"} => memory.login # 0

\* The other process goes on only with a login.
ToolHasLogin == tool.at \notin {"none", "waiting"} => tool.data.login # 0

TypeInv == TypeOK /\ HoldsToken /\ ToolHasLogin /\ diskOK \in BOOLEAN

-----------------------------------------------------------------------------
\* Types.

LEMMA TypeInit == Init => TypeInv
<1>. SUFFICES ASSUME Init PROVE TypeInv
  OBVIOUS
<1>1. memory \in Store /\ file \in Store /\ jar \in Tokens
  BY TokenBoundAssumption DEF Init, Store, NoStore, Tokens, Logins
<1>2. memory.token \in {0, 1} /\ MaxTokens \in Nat \ {0}
  BY TokenBoundAssumption DEF Init, NoStore
<1>3. issuedTo \in Seq(Logins) /\ Len(issuedTo) = memory.token
  BY <1>2 DEF Init, Logins
<1>4. accepted \subseteq 1..Len(issuedTo) /\ Len(issuedTo) <= MaxTokens
  BY <1>2, <1>3 DEF Init
<1>5. Idle \in Goroutine /\ Idle.at = "idle"
  BY <1>2 DEF Idle, Goroutine, Tokens
<1>6. tool \in [at : {"none", "waiting", "first", "login", "save", "last", "done"},
                data : Store, scanned : BOOLEAN]
  BY <1>2 DEF Init, Store, NoStore, Tokens, Logins
<1>7. thread \in [Thread -> Goroutine] /\ \A t \in Thread : thread[t].at = "idle"
  BY <1>5 DEF Init
<1>. QED
  BY <1>1, <1>3, <1>4, <1>6, <1>7 DEF Init, TypeInv, TypeOK, HoldsToken, ToolHasLogin, Goroutine

\* What a goroutine does to itself keeps the types, if it is left well typed.
LEMMA ThreadStep ==
  ASSUME TypeInv, NEW t \in Thread, NEW g \in Goroutine,
         thread' = [thread EXCEPT ![t] = g],
         g.at \in {"call", "store", "save", "write"} => g.tok # 0,
         g.at \in {"store", "save", "write"} => memory'.login # 0,
         memory' \in Store, memory'.login = memory.login, file' \in Store, jar' \in Tokens,
         issuedTo' \in Seq(Logins), Len(issuedTo') <= MaxTokens,
         accepted' \subseteq 1..Len(issuedTo'), torn' \in BOOLEAN,
         UNCHANGED <<tool, diskOK>>
  PROVE  TypeInv'
<1>1. thread \in [Thread -> Goroutine]
  BY DEF TypeInv, TypeOK, Goroutine
<1>2. thread' \in [Thread -> Goroutine]
  BY <1>1
<1>3. thread'[t] = g /\ \A u \in Thread \ {t} : thread'[u] = thread[u]
  BY <1>1
<1>4. HoldsToken'
  BY <1>3 DEF TypeInv, HoldsToken
<1>5. \A u \in Thread : thread'[u].at \in {"call", "store"} => thread'[u].tok # 0
  BY <1>4 DEF HoldsToken
<1>. QED
  BY <1>2, <1>4, <1>5 DEF TypeInv, TypeOK, ToolHasLogin, Goroutine

\* The cloud issues tokens in order.
LEMMA IssuesType ==
  ASSUME TypeInv, NEW login \in Logins, Issues(login)
  PROVE  /\ issuedTo' \in Seq(Logins) /\ Len(issuedTo') <= MaxTokens
         /\ Len(issuedTo') \in Tokens \ {0}
         /\ accepted' \subseteq 1..Len(issuedTo')
<1>1. issuedTo \in Seq(Logins) /\ Len(issuedTo) \in Nat /\ Len(issuedTo) < MaxTokens
      /\ accepted \subseteq 1..Len(issuedTo) /\ issuedTo' = Append(issuedTo, login)
      /\ accepted' = accepted \union {Len(issuedTo) + 1}
  BY DEF TypeInv, TypeOK, Issues
<1>2. issuedTo' \in Seq(Logins) /\ Len(issuedTo') = Len(issuedTo) + 1
  BY <1>1
<1>3. Len(issuedTo') \in 1..MaxTokens
  BY <1>1, <1>2, TokenBoundAssumption
<1>4. accepted' \subseteq 1..Len(issuedTo')
  <2>1. \A n \in Nat : 1..n \union {n + 1} = 1..(n + 1)
    OBVIOUS
  <2>. QED
    BY <1>1, <1>2, <2>1
<1>. QED
  BY <1>2, <1>3, <1>4, TokenBoundAssumption DEF Tokens

\* Both halves of a write leave something LoadStore can load.
LEMMA WriteType ==
  ASSUME file \in Store, torn \in BOOLEAN, diskOK \in BOOLEAN,
         NEW data \in Store, NEW other \in BOOLEAN,
         Truncate(other) \/ WriteOut(data, other)
  PROVE  file' \in Store /\ torn' \in BOOLEAN
<1>1. NoStore \in Store
  BY TokenBoundAssumption DEF NoStore, Store, Tokens, Logins
<1>. QED
  BY <1>1 DEF Truncate, WriteOut

\* What the daemon's goroutines are left with, each by its own steps.
LEMMA GoroutineTypes ==
  ASSUME TypeInv, NEW t \in Thread
  PROVE  /\ thread[t] \in Goroutine
         /\ memory \in Store /\ file \in Store /\ jar \in Tokens /\ torn \in BOOLEAN
         /\ issuedTo \in Seq(Logins) /\ Len(issuedTo) <= MaxTokens
         /\ accepted \subseteq 1..Len(issuedTo)
         /\ diskOK \in BOOLEAN /\ DaemonWrites \in BOOLEAN /\ ToolWrites \in BOOLEAN
         /\ Idle \in Goroutine
         /\ 0 \in Tokens
  BY TokenBoundAssumption
  DEF TypeInv, TypeOK, Goroutine, DaemonWrites, Unlocked, ToolWrites, Idle, Tokens

\* The steps of the other process.
ToolStep ==
    \/ PollStart \/ PollSucceeds \/ PollWrites
    \/ ListStart \/ ToolLogin \/ ToolSaves \/ ToolEnds

Tool == [at : {"none", "waiting", "first", "login", "save", "last", "done"},
         data : Store, scanned : BOOLEAN]

LEMMA ToolTypes ==
  ASSUME TypeInv, ToolStep
  PROVE  TypeInv'
<1>. USE DEF accountVars, cloudVars, requestVars
<1>0. tool \in Tool /\ memory \in Store /\ file \in Store /\ torn \in BOOLEAN /\ diskOK \in BOOLEAN
      /\ DaemonWrites \in BOOLEAN
  BY DEF TypeInv, TypeOK, Tool, DaemonWrites, Unlocked
<1>1. UNCHANGED <<memory, diskOK, jar, thread>>
  BY DEF ToolStep, PollStart, PollSucceeds, PollWrites, ListStart, ToolLogin, ToolSaves, ToolEnds
<1>2. file' \in Store /\ torn' \in BOOLEAN
  <2>1. CASE Truncate(DaemonWrites) \/ WriteOut(tool.data, DaemonWrites)
    <3>1. tool.data \in Store
      BY <1>0 DEF Tool
    <3>. QED
      BY <1>0, <2>1, <3>1, WriteType
  <2>2. CASE UNCHANGED <<file, torn>>
    BY <1>0, <2>2
  <2>. QED
    BY <2>1, <2>2
    DEF ToolStep, PollStart, PollSucceeds, PollWrites, ListStart, ToolLogin, ToolSaves, ToolEnds
<1>3. ASSUME PollStart \/ ListStart PROVE tool' \in Tool /\ ToolHasLogin'
  <2>1. CASE tool' = [at |-> "waiting", data |-> file, scanned |-> TRUE]
    BY <1>0, <2>1 DEF Tool, ToolHasLogin
  <2>2. CASE tool' = [at |-> "login", data |-> file, scanned |-> FALSE] /\ file.login # 0
    <3>1. tool'.data = file /\ tool' \in Tool
      BY <1>0, <2>2 DEF Tool
    <3>. QED
      BY <2>2, <3>1 DEF ToolHasLogin
  <2>. QED
    BY <1>3, <2>1, <2>2 DEF PollStart, ListStart
<1>4. ASSUME PollSucceeds PROVE tool' \in Tool /\ ToolHasLogin'
  <2>1. /\ tool'.at = "first" /\ tool'.data = [tool.data EXCEPT !.login = 2]
        /\ tool' = [at |-> "first", data |-> tool'.data, scanned |-> tool.scanned]
    BY <1>0, <1>4 DEF PollSucceeds, Tool
  <2>2. tool'.data \in Store /\ tool'.data.login = 2
    BY <1>0, <2>1 DEF Tool, Store, Logins
  <2>. QED
    BY <1>0, <2>1, <2>2 DEF Tool, ToolHasLogin
<1>5. ASSUME NEW place \in {"login", "save", "last", "done"}, ToolGoes(place),
             tool.at \notin {"none", "waiting"}
      PROVE  tool' \in Tool /\ ToolHasLogin'
  BY <1>0, <1>5 DEF ToolGoes, Tool, TypeInv, ToolHasLogin
<1>6. ASSUME Issues(tool.data.login), tool.at = "login",
             tool' = [tool EXCEPT !.at = "save", !.data.token = Len(issuedTo')]
      PROVE  /\ tool' \in Tool /\ ToolHasLogin'
             /\ issuedTo' \in Seq(Logins) /\ Len(issuedTo') <= MaxTokens
             /\ accepted' \subseteq 1..Len(issuedTo')
  <2>1. tool.data.login \in Logins
    BY <1>0, <1>6 DEF TypeInv, ToolHasLogin, Tool, Store
  <2>2. Len(issuedTo') \in Tokens /\ issuedTo' \in Seq(Logins) /\ Len(issuedTo') <= MaxTokens
        /\ accepted' \subseteq 1..Len(issuedTo')
    BY <1>6, <2>1, IssuesType
  <2>3. tool'.data = [tool.data EXCEPT !.token = Len(issuedTo')] /\ tool'.at = "save"
        /\ tool' = [at |-> "save", data |-> tool'.data, scanned |-> tool.scanned]
    BY <1>0, <1>6 DEF Tool
  <2>4. tool'.data \in Store /\ tool'.data.login = tool.data.login
    BY <1>0, <2>2, <2>3 DEF Tool, Store
  <2>. QED
    BY <1>0, <2>1, <2>2, <2>3, <2>4 DEF Tool, ToolHasLogin, Logins
<1>7. /\ tool' \in Tool /\ ToolHasLogin'
      /\ issuedTo' \in Seq(Logins) /\ Len(issuedTo') <= MaxTokens
      /\ accepted' \subseteq 1..Len(issuedTo')
  <2>1. CASE ToolLogin
    BY <1>5, <1>6, <2>1 DEF ToolLogin, TypeInv, TypeOK
  <2>2. CASE PollWrites \/ ToolSaves \/ ToolEnds
    BY <1>5, <2>2 DEF PollWrites, ToolSaves, ToolEnds, TypeInv, TypeOK
  <2>3. CASE PollStart \/ ListStart
    BY <1>3, <2>3 DEF PollStart, ListStart, TypeInv, TypeOK
  <2>4. CASE PollSucceeds
    BY <1>4, <2>4 DEF PollSucceeds, TypeInv, TypeOK
  <2>. QED
    BY <2>1, <2>2, <2>3, <2>4 DEF ToolStep
<1>. QED
  BY <1>1, <1>2, <1>7 DEF TypeInv, TypeOK, HoldsToken, Tool

LEMMA TypeNext ==
  ASSUME TypeInv, [Next]_vars
  PROVE  TypeInv'
<1>. USE DEF accountVars, cloudVars, requestVars
<1>1. ASSUME NEW t \in Requester, EnsureToken(t) PROVE TypeInv'
  <2> DEFINE g == IF memory.token # 0
                  THEN [thread[t] EXCEPT !.at = "call", !.tok = memory.token]
                  ELSE [thread[t] EXCEPT !.at = "refresh", !.then = "call"]
  <2>1. t \in Thread
    BY DEF Thread
  <2>2. g \in Goroutine /\ (g.at = "call" => g.tok # 0) /\ g.at \in {"call", "refresh"}
    BY <2>1, GoroutineTypes DEF Goroutine, Store
  <2>3. thread' = [thread EXCEPT ![t] = g]
    BY <1>1 DEF EnsureToken
  <2>. HIDE DEF g
  <2>. QED
    BY <1>1, <2>1, <2>2, <2>3, ThreadStep, GoroutineTypes DEF EnsureToken
<1>2. ASSUME NEW t \in Requester, CallReturns(t) PROVE TypeInv'
  <2>1. t \in Thread
    BY DEF Thread
  <2>2. PICK g \in Goroutine : /\ g.at \in {"idle", "delete"}
                             /\ thread' = [thread EXCEPT ![t] = g]
    <3>1. [thread[t] EXCEPT !.at = "delete", !.tok = 0] \in Goroutine
      BY <2>1, GoroutineTypes DEF Goroutine
    <3>2. \/ thread' = [thread EXCEPT ![t] = Idle]
          \/ thread' = [thread EXCEPT ![t] = [thread[t] EXCEPT !.at = "delete", !.tok = 0]]
      BY <1>2 DEF CallReturns
    <3>3. Idle \in Goroutine /\ Idle.at = "idle"
      BY <2>1, GoroutineTypes DEF Idle
    <3>4. [thread[t] EXCEPT !.at = "delete", !.tok = 0].at = "delete"
      BY <2>1, GoroutineTypes DEF Goroutine
    <3>. QED
      BY <3>1, <3>2, <3>3, <3>4, Zenon
  <2>. QED
    BY <1>2, <2>1, <2>2, ThreadStep, GoroutineTypes DEF CallReturns
<1>3. ASSUME NEW t \in Requester, DeleteToken(t) PROVE TypeInv'
  <2> DEFINE g == [thread[t] EXCEPT !.at = "refresh", !.then = "ensure", !.attempt = 1]
  <2>1. t \in Thread
    BY DEF Thread
  <2>2. g \in Goroutine /\ g.at = "refresh"
    BY <2>1, GoroutineTypes DEF Goroutine
  <2>3. thread' = [thread EXCEPT ![t] = g]
    BY <1>3 DEF DeleteToken
  <2>4. memory' \in Store /\ memory'.login = memory.login
    BY <1>3, <2>1, GoroutineTypes DEF DeleteToken, Store
  <2>. HIDE DEF g
  <2>. QED
    BY <1>3, <2>1, <2>2, <2>3, <2>4, ThreadStep, GoroutineTypes DEF DeleteToken
<1>4. CASE AutoRefresh
  <2> DEFINE g == [thread[Refresher] EXCEPT !.at = "refresh"]
  <2>1. Refresher \in Thread
    BY DEF Thread
  <2>2. g \in Goroutine /\ g.at = "refresh"
    BY <2>1, GoroutineTypes DEF Goroutine
  <2>3. thread' = [thread EXCEPT ![Refresher] = g]
    BY <1>4 DEF AutoRefresh, Goes
  <2>. HIDE DEF g
  <2>. QED
    BY <1>4, <2>1, <2>2, <2>3, ThreadStep, GoroutineTypes DEF AutoRefresh
<1>5. ASSUME NEW t \in Thread, NoLogin(t) PROVE TypeInv'
  <2>1. Idle \in Goroutine /\ Idle.at = "idle" /\ thread' = [thread EXCEPT ![t] = Idle]
    BY <1>5, GoroutineTypes DEF NoLogin, Idle
  <2>. QED
    BY <1>5, <2>1, ThreadStep, GoroutineTypes DEF NoLogin
<1>6. ASSUME NEW t \in Thread, LoginReturns(t) PROVE TypeInv'
  <2>1. memory.login \in Logins
    BY <1>6, GoroutineTypes DEF LoginReturns, Store
  <2>2. jar' \in Tokens /\ issuedTo' \in Seq(Logins) /\ Len(issuedTo') <= MaxTokens
        /\ accepted' \subseteq 1..Len(issuedTo')
    BY <1>6, <2>1, IssuesType, GoroutineTypes DEF LoginReturns
  <2>3. CASE jar' # 0 /\ thread' = [thread EXCEPT ![t].at = "store", ![t].tok = jar']
    <3> DEFINE g == [thread[t] EXCEPT !.at = "store", !.tok = jar']
    <3>1. g \in Goroutine /\ g.at = "store" /\ g.tok = jar'
      BY <2>2, GoroutineTypes DEF Goroutine
    <3>2. thread' = [thread EXCEPT ![t] = g]
      BY <2>3
    <3>. HIDE DEF g
    <3>. QED
      BY <1>6, <2>1, <2>2, <2>3, <3>1, <3>2, ThreadStep, GoroutineTypes DEF LoginReturns
  <2>4. CASE thread' = [thread EXCEPT ![t] = Idle]
    <3>1. Idle \in Goroutine /\ Idle.at = "idle"
      BY GoroutineTypes DEF Idle
    <3>. QED
      BY <1>6, <2>2, <2>4, <3>1, ThreadStep, GoroutineTypes DEF LoginReturns
  <2>. QED
    BY <1>6, <2>1, <2>3, <2>4, IssuesType DEF LoginReturns
<1>7. ASSUME NEW t \in Thread, StoreToken(t) PROVE TypeInv'
  <2> DEFINE g == [thread[t] EXCEPT !.at = "save"]
  <2>1. g \in Goroutine /\ g.at = "save" /\ g.tok # 0
    BY <1>7, GoroutineTypes DEF Goroutine, StoreToken, TypeInv, HoldsToken
  <2>2. thread' = [thread EXCEPT ![t] = g]
    BY <1>7 DEF StoreToken, Goes
  <2>3. memory' \in Store /\ memory'.login = memory.login /\ memory.login # 0
    BY <1>7, GoroutineTypes DEF StoreToken, Store, Goroutine, TypeInv, HoldsToken
  <2>. HIDE DEF g
  <2>. QED
    BY <1>7, <2>1, <2>2, <2>3, ThreadStep, GoroutineTypes DEF StoreToken
<1>8. ASSUME NEW t \in Thread, SaveStore(t) PROVE TypeInv'
  <2> DEFINE g == [thread[t] EXCEPT !.at = "write"]
  <2>1. g \in Goroutine /\ g.at = "write" /\ g.tok # 0 /\ memory.login # 0
    BY <1>8, GoroutineTypes DEF Goroutine, SaveStore, TypeInv, HoldsToken
  <2>2. thread' = [thread EXCEPT ![t] = g]
    BY <1>8 DEF SaveStore, Goes
  <2>3. file' \in Store /\ torn' \in BOOLEAN
    BY <1>8, GoroutineTypes, WriteType DEF SaveStore
  <2>. HIDE DEF g
  <2>. QED
    BY <1>8, <2>1, <2>2, <2>3, ThreadStep, GoroutineTypes DEF SaveStore
<1>9. ASSUME NEW t \in Thread, WriteStore(t) PROVE TypeInv'
  <2>1. PICK g \in Goroutine : /\ g.at = "call" => g.tok # 0
                             /\ g.at \notin {"store", "save", "write"}
                             /\ g = Returned(thread[t])
    <3>1. thread[t].tok # 0 /\ thread[t].then \in {"idle", "call", "ensure"}
      BY <1>9, GoroutineTypes DEF WriteStore, TypeInv, HoldsToken, Goroutine
    <3>2. CASE thread[t].then = "idle"
      BY <3>2, GoroutineTypes DEF Returned, Idle
    <3>3. CASE thread[t].then = "call"
      BY <3>1, <3>3, GoroutineTypes DEF Returned, Goroutine
    <3>4. CASE thread[t].then = "ensure"
      BY <3>4, GoroutineTypes DEF Returned, Goroutine
    <3>. QED
      BY <3>1, <3>2, <3>3, <3>4
  <2>2. file' \in Store /\ torn' \in BOOLEAN
    BY <1>9, GoroutineTypes, WriteType DEF WriteStore
  <2>. QED
    BY <1>9, <2>1, <2>2, ThreadStep, GoroutineTypes DEF WriteStore
<1>10. CASE Withdraw
  <2>1. accepted' \subseteq accepted
    BY <1>10 DEF Withdraw
  <2>. QED
    BY <1>10, <2>1 DEF Withdraw, TypeInv, TypeOK, HoldsToken, ToolHasLogin
<1>11. CASE Restart
  <2>1. thread' = [u \in Thread |-> Idle] /\ memory' = file /\ jar' = 0
        /\ UNCHANGED <<file, diskOK, issuedTo, accepted, tool>>
    BY <1>11 DEF Restart
  <2>2. Idle \in Goroutine /\ Idle.at = "idle" /\ 0 \in Tokens
    BY TokenBoundAssumption DEF Idle, Goroutine, Tokens
  <2>3. thread' \in [Thread -> Goroutine] /\ \A u \in Thread : thread'[u].at = "idle"
    BY <2>1, <2>2
  <2>4. torn' \in BOOLEAN
    BY <1>11 DEF Restart, DaemonWrites, Unlocked, TypeInv, TypeOK
  <2>. QED
    BY <2>1, <2>2, <2>3, <2>4 DEF TypeInv, TypeOK, HoldsToken, ToolHasLogin, Goroutine
<1>12. ASSUME ToolStep PROVE TypeInv'
  BY <1>12, ToolTypes
<1>13. CASE UNCHANGED vars
  BY <1>13 DEF vars, TypeInv, TypeOK, HoldsToken, ToolHasLogin
<1>. QED
  BY <1>1, <1>2, <1>3, <1>4, <1>5, <1>6, <1>7, <1>8, <1>9, <1>10, <1>11, <1>12, <1>13
  DEF Next, ToolStep

\* The daemon's account is well typed for any number of requests and tokens: no
\* goroutine calls the cloud without a token, whatever its login brought.
THEOREM AccountTypeCorrect == Spec => []TypeOK
<1>1. TypeInv => TypeOK
  BY DEF TypeInv
<1>. QED
  BY <1>1, TypeInit, TypeNext, PTL DEF Spec

-----------------------------------------------------------------------------
\* The store file.

Writing(t) == thread[t].at = "write"

\* The mutex.
OneWriter == \A t, u \in Thread : Writing(t) /\ Writing(u) => t = u

\* Between truncation and write the file is empty, unless two writes met; and
\* that is remembered while both go on.
FileEmptied == diskOK /\ ~torn /\ (DaemonWrites \/ ToolWrites) => file = NoStore
MeetingTears == diskOK /\ DaemonWrites /\ ToolWrites => torn

FileInv == OneWriter /\ FileEmptied /\ MeetingTears /\ SavedTokenIsCurrent /\ FileKeepsLogin

IInv == TypeInv /\ FileInv

LEMMA FileInit == Init => FileInv
<1>. SUFFICES ASSUME Init PROVE FileInv
  OBVIOUS
<1>1. \A t \in Thread : thread[t].at = "idle"
  BY DEF Init, Idle
<1>2. tool.at = "none" /\ tool.scanned = FALSE /\ file = memory
  BY DEF Init
<1>. QED
  BY <1>1, <1>2 DEF FileInv, OneWriter, Writing, FileEmptied, MeetingTears,
     SavedTokenIsCurrent, FileKeepsLogin, DaemonWrites, Unlocked, ToolWrites

\* A goroutine that neither saves nor writes, nor begins to write, may change the
\* token in memory only to none, or when it is going to save it.
LEMMA QuietStep ==
  ASSUME IInv, UNCHANGED <<file, diskOK, torn, tool>>,
         memory'.login = memory.login,
         \A t \in Thread : Writing(t)' = Writing(t),
         \/ /\ memory'.token = memory.token
            /\ \A t \in Thread : thread[t].at = "save" => thread'[t].at = "save"
         \/ memory'.token = 0
         \/ \E t \in Thread : thread'[t].at = "save"
  PROVE  FileInv'
<1>1. DaemonWrites' = DaemonWrites /\ ToolWrites' = ToolWrites
  BY DEF DaemonWrites, Unlocked, Writing, ToolWrites
<1>2. OneWriter' /\ FileEmptied' /\ MeetingTears'
  BY <1>1 DEF IInv, FileInv, OneWriter, FileEmptied, MeetingTears
<1>3. SavedTokenIsCurrent'
  BY DEF IInv, FileInv, SavedTokenIsCurrent, Writing
<1>4. FileKeepsLogin'
  BY <1>1 DEF IInv, FileInv, FileKeepsLogin
<1>. QED
  BY <1>2, <1>3, <1>4 DEF FileInv

\* When a write ends well, what was to be written is in the file, and no other
\* write is going on.
LEMMA WriteEnds ==
  ASSUME diskOK, ~torn', NEW data, NEW other \in BOOLEAN, WriteOut(data, other),
         torn \in BOOLEAN, ~torn => file = NoStore, other => torn
  PROVE  file' = data /\ ~other
  BY DEF WriteOut

LEMMA SaveStep ==
  ASSUME IInv, NEW t \in Thread, SaveStore(t)
  PROVE  FileInv'
<1>1. thread \in [Thread -> Goroutine]
  BY DEF IInv, TypeInv, TypeOK, Goroutine
<1>2. Writing(t)' /\ \A u \in Thread \ {t} : ~Writing(u)'
  BY <1>1 DEF SaveStore, Goes, Unlocked, Writing, Goroutine
<1>3. DaemonWrites' /\ ToolWrites' = ToolWrites /\ ~DaemonWrites
  BY <1>2 DEF SaveStore, DaemonWrites, Unlocked, Writing, ToolWrites
<1>4. diskOK' => file' = NoStore
  BY DEF SaveStore, Truncate
<1>5. diskOK' /\ ToolWrites' => torn'
  BY <1>3 DEF SaveStore, Truncate
<1>. QED
  BY <1>2, <1>3, <1>4, <1>5
  DEF FileInv, OneWriter, FileEmptied, MeetingTears, SavedTokenIsCurrent, FileKeepsLogin, Writing

LEMMA WriteStep ==
  ASSUME IInv, NEW t \in Thread, WriteStore(t)
  PROVE  FileInv'
<1>1. thread \in [Thread -> Goroutine] /\ thread[t] \in Goroutine /\ torn \in BOOLEAN
      /\ ToolWrites \in BOOLEAN
  BY DEF IInv, TypeInv, TypeOK, Goroutine, ToolWrites
<1>2. /\ Writing(t) /\ DaemonWrites /\ memory.login # 0
      /\ thread' = [thread EXCEPT ![t] = Returned(thread[t])]
      /\ WriteOut(memory, ToolWrites) /\ UNCHANGED <<memory, diskOK, tool>>
  BY DEF WriteStore, Writing, DaemonWrites, Unlocked, IInv, TypeInv, HoldsToken
<1>3. Returned(thread[t]).at # "write"
  <2>1. thread[t].then \in {"idle", "call", "ensure"}
    BY <1>1 DEF Goroutine
  <2>. QED
    BY <1>1, <2>1 DEF Returned, Idle, Goroutine
<1>4. \A u \in Thread : ~Writing(u)'
  BY <1>1, <1>2, <1>3 DEF Writing, IInv, FileInv, OneWriter
<1>5. ~DaemonWrites' /\ ToolWrites' = ToolWrites
  BY <1>2, <1>4 DEF DaemonWrites, Unlocked, Writing, ToolWrites
<1>6. diskOK' /\ ~torn' => file' = memory' /\ ~ToolWrites
  <2>1. diskOK => (~torn => file = NoStore) /\ (ToolWrites => torn)
    BY <1>2 DEF IInv, FileInv, FileEmptied, MeetingTears
  <2>. QED
    BY <1>1, <1>2, <2>1, WriteEnds
<1>. QED
  BY <1>2, <1>4, <1>5, <1>6
  DEF FileInv, OneWriter, FileEmptied, MeetingTears, SavedTokenIsCurrent, FileKeepsLogin, Writing

LEMMA RestartStep ==
  ASSUME IInv, Restart
  PROVE  FileInv'
<1>1. \A t \in Thread : thread'[t].at = "idle"
  BY DEF Restart, Idle
<1>2. ~DaemonWrites' /\ ToolWrites' = ToolWrites /\ \A t \in Thread : ~Writing(t)'
  BY <1>1 DEF Restart, DaemonWrites, Unlocked, ToolWrites, Writing
<1>3. diskOK' /\ ~torn' => ~torn /\ ~DaemonWrites
  BY DEF Restart
<1>4. UNCHANGED <<file, diskOK, tool>> /\ memory' = file
  BY DEF Restart
<1>. QED
  BY <1>1, <1>2, <1>3, <1>4
  DEF IInv, FileInv, OneWriter, FileEmptied, MeetingTears, SavedTokenIsCurrent, FileKeepsLogin

LEMMA ToolFileStep ==
  ASSUME IInv, ToolStep
  PROVE  FileInv'
<1>. USE DEF accountVars, cloudVars, requestVars
<1>1. /\ UNCHANGED <<memory, diskOK, thread>>
      /\ tool \in Tool /\ torn \in BOOLEAN /\ DaemonWrites \in BOOLEAN
  BY DEF ToolStep, PollStart, PollSucceeds, PollWrites, ListStart, ToolLogin, ToolSaves, ToolEnds,
         IInv, TypeInv, TypeOK, Tool, DaemonWrites, Unlocked
<1>2. DaemonWrites' = DaemonWrites /\ OneWriter'
  BY <1>1 DEF DaemonWrites, Unlocked, IInv, FileInv, OneWriter, Writing
<1>3. ASSUME UNCHANGED <<file, torn>>, tool'.at \in {"waiting", "login", "save", "done"},
             ~ToolWrites,
             tool'.at = "waiting" => tool.at \in {"none", "waiting"},
             tool'.scanned /\ tool'.at # "waiting" => tool.scanned /\ tool.at # "waiting"
      PROVE  FileInv'
  BY <1>1, <1>2, <1>3
  DEF IInv, FileInv, FileEmptied, MeetingTears, SavedTokenIsCurrent, FileKeepsLogin, ToolWrites
<1>4. ASSUME Truncate(DaemonWrites), tool'.at \in {"first", "last"} PROVE FileInv'
  <2>1. ToolWrites' /\ (diskOK' => file' = NoStore) /\ (diskOK' /\ DaemonWrites' => torn')
    BY <1>1, <1>2, <1>4 DEF ToolWrites, Truncate
  <2>. QED
    BY <1>2, <1>4, <2>1
    DEF FileInv, FileEmptied, MeetingTears, SavedTokenIsCurrent, FileKeepsLogin
<1>5. ASSUME WriteOut(tool.data, DaemonWrites), ToolWrites,
             tool'.at \in {"login", "save", "done"}
      PROVE  FileInv'
  <2>1. tool.data.login # 0
    BY <1>5 DEF ToolWrites, IInv, TypeInv, ToolHasLogin
  <2>2. diskOK => (~torn => file = NoStore) /\ (DaemonWrites => torn)
    BY <1>5 DEF IInv, FileInv, FileEmptied, MeetingTears
  <2>3. diskOK' /\ ~torn' => file'.login # 0 /\ ~DaemonWrites
    BY <1>1, <1>5, <2>1, <2>2, WriteEnds
  <2>4. ~ToolWrites'
    BY <1>5 DEF ToolWrites
  <2>. QED
    BY <1>2, <1>5, <2>3, <2>4
    DEF FileInv, FileEmptied, MeetingTears, SavedTokenIsCurrent, FileKeepsLogin
<1>6. CASE PollStart \/ ListStart
  BY <1>1, <1>3, <1>6 DEF PollStart, ListStart, ToolWrites
<1>7. CASE PollSucceeds \/ ToolSaves
  BY <1>1, <1>4, <1>7 DEF PollSucceeds, ToolSaves, ToolGoes, Tool
<1>8. CASE PollWrites \/ ToolEnds
  BY <1>1, <1>5, <1>8 DEF PollWrites, ToolEnds, ToolGoes, ToolWrites, Tool
<1>9. CASE ToolLogin
  BY <1>1, <1>3, <1>9 DEF ToolLogin, ToolGoes, ToolWrites, Tool
<1>. QED
  BY <1>6, <1>7, <1>8, <1>9 DEF ToolStep

LEMMA FileNext ==
  ASSUME IInv, [Next]_vars
  PROVE  FileInv'
<1>. USE DEF accountVars, cloudVars, requestVars
<1>0. thread \in [Thread -> Goroutine] /\ memory \in Store /\ Idle.at = "idle"
  BY DEF IInv, TypeInv, TypeOK, Goroutine, Idle
<1>1. ASSUME NEW t \in Requester, EnsureToken(t) PROVE FileInv'
  <2>1. /\ \A u \in Thread : Writing(u)' = Writing(u)
        /\ \A u \in Thread : thread[u].at = "save" => thread'[u].at = "save"
    BY <1>0, <1>1 DEF EnsureToken, Writing, Goroutine
  <2>. QED
    BY <1>1, <2>1, QuietStep DEF EnsureToken
<1>2. ASSUME NEW t \in Requester, CallReturns(t) PROVE FileInv'
  <2>1. /\ \A u \in Thread : Writing(u)' = Writing(u)
        /\ \A u \in Thread : thread[u].at = "save" => thread'[u].at = "save"
    BY <1>0, <1>2 DEF CallReturns, Writing, Goroutine
  <2>. QED
    BY <1>2, <2>1, QuietStep DEF CallReturns
<1>3. ASSUME NEW t \in Requester, DeleteToken(t) PROVE FileInv'
  <2>1. \A u \in Thread : Writing(u)' = Writing(u)
    BY <1>0, <1>3 DEF DeleteToken, Writing, Goroutine
  <2>2. memory'.token = 0 /\ memory'.login = memory.login
    BY <1>0, <1>3 DEF DeleteToken, Store
  <2>. QED
    BY <1>3, <2>1, <2>2, QuietStep DEF DeleteToken
<1>4. CASE AutoRefresh
  <2>1. /\ \A u \in Thread : Writing(u)' = Writing(u)
        /\ \A u \in Thread : thread[u].at = "save" => thread'[u].at = "save"
    BY <1>0, <1>4 DEF AutoRefresh, Goes, Writing, Goroutine
  <2>. QED
    BY <1>4, <2>1, QuietStep DEF AutoRefresh
<1>5. ASSUME NEW t \in Thread, NoLogin(t) \/ LoginReturns(t) PROVE FileInv'
  <2>1. /\ \A u \in Thread : Writing(u)' = Writing(u)
        /\ \A u \in Thread : thread[u].at = "save" => thread'[u].at = "save"
    BY <1>0, <1>5 DEF NoLogin, LoginReturns, Writing, Goroutine
  <2>. QED
    BY <1>5, <2>1, QuietStep DEF NoLogin, LoginReturns
<1>6. ASSUME NEW t \in Thread, StoreToken(t) PROVE FileInv'
  <2>1. thread'[t].at = "save" /\ \A u \in Thread : Writing(u)' = Writing(u)
    BY <1>0, <1>6 DEF StoreToken, Goes, Writing, Goroutine
  <2>2. memory'.login = memory.login
    BY <1>0, <1>6 DEF StoreToken, Store
  <2>. QED
    BY <1>6, <2>1, <2>2, QuietStep DEF StoreToken
<1>7. CASE Withdraw \/ UNCHANGED vars
  BY <1>7, QuietStep DEF Withdraw, vars, Writing
<1>. QED
  BY <1>1, <1>2, <1>3, <1>4, <1>5, <1>6, <1>7, SaveStep, WriteStep, RestartStep, ToolFileStep
  DEF Next, ToolStep

\* Of any number of renewals at once the file keeps the token that memory has,
\* whatever restarts come between, until another process writes the file.
THEOREM AccountSavesToken == Spec => []SavedTokenIsCurrent
<1>1. Init => IInv
  BY TypeInit, FileInit DEF IInv
<1>2. IInv /\ [Next]_vars => IInv'
  BY TypeNext, FileNext DEF IInv
<1>3. IInv => SavedTokenIsCurrent
  BY DEF IInv, FileInv
<1>. QED
  BY <1>1, <1>2, <1>3, PTL DEF Spec

\* The login is in the file, for any number of restarts, unless a write was cut
\* off or met another: no process writes the nothing it found in a torn file.
THEOREM AccountKeepsLogin == Spec => []FileKeepsLogin
<1>1. Init => IInv
  BY TypeInit, FileInit DEF IInv
<1>2. IInv /\ [Next]_vars => IInv'
  BY TypeNext, FileNext DEF IInv
<1>3. IInv => FileKeepsLogin
  BY DEF IInv, FileInv
<1>. QED
  BY <1>1, <1>2, <1>3, PTL DEF Spec

-----------------------------------------------------------------------------
\* The second attempt.

\* A goroutine in its second attempt has, or will find in memory, a token that the
\* cloud accepts, or none yet, unless it is excused.
Covered(g, excuse) ==
    g.attempt = 1 =>
       /\ g.at = "call" \/ (g.at \in {"save", "write"} /\ g.then = "call") =>
             excuse \/ Accepts(memory.login, g.tok)
       /\ g.at = "ensure" \/ (g.at \in {"save", "write"} /\ g.then = "ensure") =>
             excuse \/ memory.token = 0 \/ Accepts(memory.login, memory.token)

\* The token was issued to the login in memory.
Own(tok) == tok \in 1..Len(issuedTo) /\ issuedTo[tok] = memory.login

RetryInv ==
    /\ excused \in [Requester -> BOOLEAN] /\ refused \in [Requester -> BOOLEAN]
    /\ \A t \in Thread : thread[t].at = "idle" => thread[t] = Idle
    /\ jar # 0 => Own(jar)
    /\ \A t \in Thread : thread[t].at = "store" => Own(thread[t].tok)
    /\ \A t \in Requester : Covered(thread[t], excused[t])
    /\ RetryIsAccepted

LEMMA RetryInit == Init => RetryInv
<1>. SUFFICES ASSUME Init PROVE RetryInv
  OBVIOUS
<1>1. Idle.at = "idle" /\ Idle.attempt = 0
  BY DEF Idle
<1>2. \A t \in Thread : thread[t] = Idle
  BY DEF Init
<1>3. \A t \in Requester : thread[t] = Idle
  BY <1>2 DEF Thread
<1>. QED
  BY <1>1, <1>2, <1>3 DEF Init, RetryInv, Covered, RetryIsAccepted

\* The cloud still knows and accepts what it did.
Grows ==
    /\ accepted \subseteq accepted'
    /\ \A k \in 1..Len(issuedTo) : k \in 1..Len(issuedTo') /\ issuedTo'[k] = issuedTo[k]

LEMMA StaysGrows ==
  ASSUME UNCHANGED cloudVars
  PROVE  Grows
  BY DEF Grows, cloudVars

LEMMA IssuesGrows ==
  ASSUME TypeInv, NEW login \in Logins, Issues(login)
  PROVE  /\ Grows
         /\ Len(issuedTo') \in 1..Len(issuedTo') /\ issuedTo'[Len(issuedTo')] = login
<1>1. issuedTo \in Seq(Logins) /\ Len(issuedTo) \in Nat
  BY DEF TypeInv, TypeOK
<1>2. issuedTo' = Append(issuedTo, login) /\ accepted \subseteq accepted'
  BY DEF Issues
<1>3. /\ Len(issuedTo') = Len(issuedTo) + 1 /\ issuedTo'[Len(issuedTo) + 1] = login
      /\ \A k \in 1..Len(issuedTo) : issuedTo'[k] = issuedTo[k]
  BY <1>1, <1>2
<1>. QED
  BY <1>1, <1>2, <1>3 DEF Grows

LEMMA GrowsAccepts ==
  ASSUME TypeInv, Grows, NEW login, NEW tok, Accepts(login, tok)
  PROVE  Accepts(login, tok)'
<1>1. tok \in accepted /\ tok \in 1..Len(issuedTo) /\ issuedTo[tok] = login
  BY DEF Accepts, TypeInv, TypeOK
<1>. QED
  BY <1>1 DEF Grows, Accepts

LEMMA GrowsOwn ==
  ASSUME Grows, memory'.login = memory.login, NEW tok, Own(tok)
  PROVE  Own(tok)'
  BY DEF Grows, Own

\* A goroutine that stays where it is remains covered while the cloud withdraws
\* nothing and nobody stores a token.
LEMMA StaysCovered ==
  ASSUME TypeInv, Grows, memory'.login = memory.login, memory'.token \in {memory.token, 0},
         NEW g, NEW excuse, Covered(g, excuse)
  PROVE  Covered(g, excuse)'
<1>1. Accepts(memory.login, g.tok) => Accepts(memory.login, g.tok)'
  BY GrowsAccepts DEF Accepts, Grows, TypeInv, TypeOK
<1>2. Accepts(memory.login, memory.token) => memory'.token = 0 \/ Accepts(memory.login, memory.token)'
  BY GrowsAccepts DEF Accepts, Grows, TypeInv, TypeOK
<1>. QED
  BY <1>1, <1>2 DEF Covered

\* A step of the goroutine t that stores no token.
LEMMA RetryStep ==
  ASSUME TypeInv, RetryInv, NEW t \in Thread, NEW g \in Goroutine,
         thread' = [thread EXCEPT ![t] = g],
         Grows, memory'.login = memory.login, memory'.token \in {memory.token, 0},
         jar' # jar => jar' \in 1..Len(issuedTo') /\ issuedTo'[jar'] = memory.login,
         g.at = "idle" => g = Idle,
         g.at = "store" => g.tok \in 1..Len(issuedTo') /\ issuedTo'[g.tok] = memory.login,
         excused' \in [Requester -> BOOLEAN], refused' \in [Requester -> BOOLEAN],
         \A u \in Requester : ~refused'[u],
         \A u \in Requester : u # t => excused'[u] = excused[u],
         t \in Requester => Covered(g, excused[t])'
  PROVE  RetryInv'
<1>1. thread'[t] = g /\ \A u \in Thread : u # t => thread'[u] = thread[u]
  BY DEF TypeInv, TypeOK
<1>2. jar' # 0 => Own(jar)'
  BY GrowsOwn DEF RetryInv, Own
<1>3. ASSUME NEW u \in Thread PROVE thread'[u].at = "idle" => thread'[u] = Idle
  BY <1>1 DEF RetryInv
<1>4. ASSUME NEW u \in Thread, thread'[u].at = "store" PROVE Own(thread[u].tok)'
  <2>1. CASE u = t
    BY <1>1, <1>4, <2>1 DEF Own
  <2>2. CASE u # t
    BY <1>1, <1>4, <2>2, GrowsOwn DEF RetryInv
  <2>. QED
    BY <2>1, <2>2
<1>5. ASSUME NEW u \in Requester PROVE Covered(thread[u], excused[u])'
  <2>0. u \in Thread
    BY DEF Thread
  <2>1. CASE u = t
    BY <1>1, <2>1 DEF Covered
  <2>2. CASE u # t
    <3>1. thread'[u] = thread[u] /\ excused'[u] = excused[u] /\ Covered(thread[u], excused[u])
      BY <1>1, <2>0, <2>2 DEF RetryInv
    <3>2. \A h, e : Covered(h, e) => Covered(h, e)'
      BY StaysCovered
    <3>3. PICK h, e : h = thread[u] /\ e = excused[u]
      OBVIOUS
    <3>4. Covered(h, e) /\ Covered(h, e)'
      BY <3>1, <3>2, <3>3
    <3>. QED
      BY <3>1, <3>3, <3>4 DEF Covered
  <2>. QED
    BY <2>1, <2>2
<1>. QED
  BY <1>2, <1>3, <1>4, <1>5 DEF RetryInv, RetryIsAccepted

\* What RetryStep asks of a step that changes neither the account nor the requests.
LEMMA QuietRetry ==
  ASSUME TypeInv, RetryInv, NEW t \in Thread, NEW g \in Goroutine,
         thread' = [thread EXCEPT ![t] = g],
         UNCHANGED <<memory, jar, cloudVars, requestVars>>,
         g.at = "idle" => g = Idle,
         g.at # "store",
         t \in Requester => Covered(g, excused[t])
  PROVE  RetryInv'
<1>1. Grows
  BY StaysGrows
<1>2. t \in Requester => Covered(g, excused[t])'
  BY DEF Covered, Accepts, cloudVars, requestVars
<1>. QED
  BY <1>1, <1>2, RetryStep DEF requestVars, RetryInv, RetryIsAccepted

\* The steps of RequestMina.
LEMMA RetryEnsure ==
  ASSUME TypeInv, RetryInv, NEW t \in Requester, EnsureToken(t)
  PROVE  RetryInv'
<1>. USE DEF accountVars, cloudVars, requestVars
<1>1. t \in Thread /\ thread[t] \in Goroutine /\ memory \in Store
  BY GoroutineTypes DEF Thread
<1>2. PICK g \in Goroutine :
         /\ thread' = [thread EXCEPT ![t] = g]
         /\ g.attempt = thread[t].attempt
         /\ \/ g.at = "call" /\ g.tok = memory.token /\ memory.token # 0
            \/ g.at = "refresh"
  <2>1. [thread[t] EXCEPT !.at = "call", !.tok = memory.token] \in Goroutine
    BY <1>1 DEF Goroutine, Store
  <2>2. [thread[t] EXCEPT !.at = "refresh", !.then = "call"] \in Goroutine
    BY <1>1 DEF Goroutine
  <2>3. CASE memory.token # 0
    BY <1>1, <2>1, <2>3 DEF EnsureToken, Goroutine
  <2>4. CASE memory.token = 0
    BY <1>1, <2>2, <2>4 DEF EnsureToken, Goroutine
  <2>. QED
    BY <2>3, <2>4
<1>3. /\ excused' \in [Requester -> BOOLEAN]
      /\ \A u \in Requester : u # t => excused'[u] = excused[u]
      /\ excused'[t] = (excused[t] /\ thread[t] # Idle)
  BY DEF EnsureToken, RetryInv
<1>4. Covered(g, excused[t])'
  <2>1. CASE thread[t].at = "idle"
    <3>1. g.attempt = 0
      BY <1>1, <1>2, <2>1 DEF RetryInv, Idle
    <3>. QED
      BY <3>1 DEF Covered
  <2>2. CASE thread[t].at = "ensure"
    <3>1. thread[t] # Idle /\ Covered(thread[t], excused[t])
      BY <2>2 DEF Idle, RetryInv
    <3>2. UNCHANGED <<memory, cloudVars>>
      BY DEF EnsureToken
    <3>. QED
      BY <1>2, <1>3, <2>2, <3>1, <3>2 DEF Covered, Accepts
  <2>. QED
    BY <2>1, <2>2 DEF EnsureToken
<1>5. /\ Grows /\ UNCHANGED <<memory, jar>>
      /\ refused' \in [Requester -> BOOLEAN] /\ \A u \in Requester : ~refused'[u]
  BY StaysGrows DEF EnsureToken, RetryInv, RetryIsAccepted
<1>. QED
  BY <1>1, <1>2, <1>3, <1>4, <1>5, RetryStep

LEMMA RetryCall ==
  ASSUME TypeInv, RetryInv, NEW t \in Requester, CallReturns(t)
  PROVE  RetryInv'
<1>. USE DEF accountVars, cloudVars, requestVars
<1>1. t \in Thread /\ thread[t] \in Goroutine /\ Idle \in Goroutine
  BY GoroutineTypes DEF Thread
<1>2. PICK g \in Goroutine :
         /\ thread' = [thread EXCEPT ![t] = g]
         /\ g = Idle \/ g.at = "delete"
  <2>1. /\ [thread[t] EXCEPT !.at = "delete", !.tok = 0] \in Goroutine
        /\ [thread[t] EXCEPT !.at = "delete", !.tok = 0].at = "delete"
    BY <1>1, GoroutineTypes DEF Goroutine
  <2>2. \/ thread' = [thread EXCEPT ![t] = Idle]
        \/ thread' = [thread EXCEPT ![t] = [thread[t] EXCEPT !.at = "delete", !.tok = 0]]
    BY DEF CallReturns
  <2>. QED
    BY <1>1, <2>1, <2>2, Zenon
<1>3. refused' \in [Requester -> BOOLEAN] /\ \A u \in Requester : ~refused'[u]
  <2>1. CASE UNCHANGED refused
    BY <2>1 DEF RetryInv, RetryIsAccepted
  <2>2. CASE /\ ~Accepts(memory.login, thread[t].tok) /\ thread[t].attempt # 0
             /\ refused' = [refused EXCEPT ![t] = ~excused[t]]
    <3>1. thread[t].attempt = 1 /\ thread[t].at = "call"
      BY <1>1, <2>2 DEF Goroutine, CallReturns
    <3>2. excused[t] = TRUE
      BY <2>2, <3>1 DEF RetryInv, Covered
    <3>. QED
      BY <2>2, <3>2 DEF RetryInv, RetryIsAccepted
  <2>. QED
    BY <2>1, <2>2 DEF CallReturns
<1>4. Covered(g, excused[t])'
  BY <1>2 DEF Covered, Idle
<1>5. g.at \in {"idle", "delete"} /\ (g.at = "idle" => g = Idle)
  BY <1>2 DEF Idle
<1>6. Grows /\ UNCHANGED <<memory, jar, excused>> /\ excused' \in [Requester -> BOOLEAN]
  BY StaysGrows DEF CallReturns, RetryInv
<1>. QED
  BY <1>1, <1>2, <1>3, <1>4, <1>5, <1>6, RetryStep

LEMMA RetryDelete ==
  ASSUME TypeInv, RetryInv, NEW t \in Requester, DeleteToken(t)
  PROVE  RetryInv'
<1>. USE DEF accountVars, cloudVars, requestVars
<1>1. t \in Thread /\ thread[t] \in Goroutine /\ memory \in Store
  BY GoroutineTypes DEF Thread
<1>2. PICK g \in Goroutine : thread' = [thread EXCEPT ![t] = g] /\ g.at = "refresh"
  <2>1. /\ [thread[t] EXCEPT !.at = "refresh", !.then = "ensure", !.attempt = 1] \in Goroutine
        /\ [thread[t] EXCEPT !.at = "refresh", !.then = "ensure", !.attempt = 1].at = "refresh"
    BY <1>1 DEF Goroutine
  <2>. QED
    BY <2>1 DEF DeleteToken
<1>3. memory'.login = memory.login /\ memory'.token = 0
  BY <1>1 DEF DeleteToken, Store
<1>4. Covered(g, excused[t])'
  BY <1>2 DEF Covered
<1>5. /\ Grows /\ UNCHANGED <<jar, excused, refused>>
      /\ excused' \in [Requester -> BOOLEAN] /\ refused' \in [Requester -> BOOLEAN]
      /\ \A u \in Requester : ~refused'[u]
  BY StaysGrows DEF DeleteToken, RetryInv, RetryIsAccepted
<1>. QED
  BY <1>1, <1>2, <1>3, <1>4, <1>5, RetryStep

\* The steps of RefreshToken.
LEMMA RetryLogin ==
  ASSUME TypeInv, RetryInv, NEW t \in Thread, LoginReturns(t)
  PROVE  RetryInv'
<1>. USE DEF accountVars, cloudVars, requestVars
<1>1. thread[t] \in Goroutine /\ Idle \in Goroutine /\ jar \in Tokens /\ memory.login \in Logins
  BY GoroutineTypes DEF LoginReturns, Store
<1>2. /\ Grows /\ jar' \in Tokens
      /\ jar' # jar => jar' \in 1..Len(issuedTo') /\ issuedTo'[jar'] = memory.login
      /\ \/ /\ jar' \in 1..Len(issuedTo') /\ issuedTo'[jar'] = memory.login
            /\ thread' = [thread EXCEPT ![t].at = "store", ![t].tok = jar']
         \/ thread' = [thread EXCEPT ![t] = Idle]
  <2>1. CASE /\ Issues(memory.login) /\ jar' = Len(issuedTo')
             /\ thread' = [thread EXCEPT ![t].at = "store", ![t].tok = jar']
    BY <1>1, <2>1, IssuesGrows, IssuesType
  <2>2. CASE /\ jar # 0 /\ UNCHANGED <<jar, cloudVars>>
             /\ thread' = [thread EXCEPT ![t].at = "store", ![t].tok = jar]
    BY <1>1, <2>2, StaysGrows DEF RetryInv, Own
  <2>3. CASE thread' = [thread EXCEPT ![t] = Idle] /\ UNCHANGED <<jar, cloudVars>>
    BY <1>1, <2>3, StaysGrows
  <2>. QED
    BY <2>1, <2>2, <2>3 DEF LoginReturns
<1>3. PICK g \in Goroutine :
         /\ thread' = [thread EXCEPT ![t] = g]
         /\ \/ g = Idle
            \/ /\ g.at = "store" /\ g.tok = jar'
               /\ jar' \in 1..Len(issuedTo') /\ issuedTo'[jar'] = memory.login
  <2>1. /\ [thread[t] EXCEPT !.at = "store", !.tok = jar'] \in Goroutine
        /\ [thread[t] EXCEPT !.at = "store", !.tok = jar'].at = "store"
        /\ [thread[t] EXCEPT !.at = "store", !.tok = jar'].tok = jar'
    BY <1>1, <1>2 DEF Goroutine
  <2>2. CASE thread' = [thread EXCEPT ![t] = Idle]
    BY <1>1, <2>2
  <2>3. CASE /\ jar' \in 1..Len(issuedTo') /\ issuedTo'[jar'] = memory.login
             /\ thread' = [thread EXCEPT ![t] = [thread[t] EXCEPT !.at = "store", !.tok = jar']]
    BY <2>1, <2>3
  <2>. QED
    BY <1>2, <2>2, <2>3
<1>4. g.at = "idle" => g = Idle
  BY <1>3 DEF Idle
<1>5. /\ UNCHANGED <<memory, excused, refused>>
      /\ excused' \in [Requester -> BOOLEAN] /\ refused' \in [Requester -> BOOLEAN]
      /\ \A u \in Requester : ~refused'[u]
  BY DEF LoginReturns, RetryInv, RetryIsAccepted
<1>6. t \in Requester => Covered(g, excused[t])'
  BY <1>3 DEF Covered, Idle
<1>. QED
  BY <1>2, <1>3, <1>4, <1>5, <1>6, RetryStep DEF Idle

LEMMA RetryStore ==
  ASSUME TypeInv, RetryInv, NEW t \in Thread, StoreToken(t)
  PROVE  RetryInv'
<1>. USE DEF accountVars, cloudVars, requestVars
<1>0. /\ thread \in [Thread -> Goroutine] /\ memory \in Store /\ thread[t] \in Goroutine
      /\ memory' = [memory EXCEPT !.token = thread[t].tok]
      /\ UNCHANGED <<jar, issuedTo, accepted, refused>>
  BY DEF StoreToken, TypeInv, TypeOK, Goroutine
<1>1. memory'.login = memory.login /\ memory'.token = thread[t].tok
  BY <1>0 DEF Store, Goroutine
<1>2. /\ thread'[t] = [thread[t] EXCEPT !.at = "save"] /\ thread[t].at = "store"
      /\ \A u \in Thread : u # t => thread'[u] = thread[u]
  BY <1>0 DEF StoreToken, Goes
<1>3. /\ thread'[t].at = "save" /\ thread'[t].tok = thread[t].tok
      /\ thread'[t].attempt = thread[t].attempt /\ thread'[t].then = thread[t].then
  BY <1>0, <1>2 DEF Goroutine
<1>4. Own(thread[t].tok)
  BY <1>2 DEF RetryInv
<1>5. \A u \in Requester : excused'[u] = (thread[u] # Idle /\
                                          (excused[u] \/ thread[t].tok \notin accepted))
  BY DEF StoreToken
<1>6. ASSUME NEW u \in Requester PROVE Covered(thread[u], excused[u])'
  <2>1. u \in Thread
    BY DEF Thread
  <2>2. CASE u = t
    <3>1. thread[t] # Idle
      BY <1>2 DEF Idle
    <3>2. excused'[t] \/ Accepts(memory.login, thread[t].tok)'
      BY <1>0, <1>1, <1>3, <1>4, <1>5, <2>2, <3>1 DEF Accepts, Own
    <3>. QED
      BY <1>0, <1>1, <1>3, <2>2, <3>2 DEF Covered, Accepts
  <2>3. CASE u # t
    <3>1. thread'[u] = thread[u] /\ Covered(thread[u], excused[u])
      BY <1>2, <2>1, <2>3 DEF RetryInv
    <3>2. ASSUME thread[u].attempt = 1 PROVE thread[u] # Idle
      BY <3>2 DEF Idle
    <3>3. thread[u] # Idle =>
             (excused[u] => excused'[u]) /\ (excused'[u] \/ Accepts(memory.login, thread[t].tok))
      BY <1>4, <1>5 DEF Accepts, Own
    <3>. QED
      BY <1>0, <1>1, <3>1, <3>2, <3>3 DEF Covered, Accepts
  <2>. QED
    BY <2>2, <2>3
<1>7. jar' # 0 => Own(jar)'
  BY <1>0, <1>1 DEF RetryInv, Own
<1>8. \A u \in Thread : /\ thread'[u].at = "idle" => thread'[u] = Idle
                        /\ thread'[u].at = "store" => Own(thread[u].tok)'
  BY <1>0, <1>1, <1>2, <1>3 DEF RetryInv, Own
<1>9. excused' \in [Requester -> BOOLEAN]
  BY DEF StoreToken, RetryInv
<1>. QED
  BY <1>0, <1>6, <1>7, <1>8, <1>9 DEF RetryInv, RetryIsAccepted

LEMMA RetryWrite ==
  ASSUME TypeInv, RetryInv, NEW t \in Thread, WriteStore(t)
  PROVE  RetryInv'
<1>. USE DEF accountVars, cloudVars, requestVars
<1>1. thread[t] \in Goroutine /\ Idle \in Goroutine /\ 0 \in Tokens
  BY GoroutineTypes
<1>2. PICK g \in Goroutine : thread' = [thread EXCEPT ![t] = g] /\ g = Returned(thread[t])
  <2>1. thread[t].then \in {"idle", "call", "ensure"}
    BY <1>1 DEF Goroutine
  <2>2. Returned(thread[t]) \in Goroutine
    BY <1>1, <2>1 DEF Returned, Goroutine
  <2>. QED
    BY <2>2 DEF WriteStore
<1>3. \/ g = Idle
      \/ /\ g.at = "call" /\ thread[t].then = "call"
         /\ g.tok = thread[t].tok /\ g.attempt = thread[t].attempt
      \/ /\ g.at = "ensure" /\ thread[t].then = "ensure"
         /\ g.attempt = thread[t].attempt
  <2>1. thread[t].then \in {"idle", "call", "ensure"}
    BY <1>1 DEF Goroutine
  <2>. QED
    BY <1>1, <1>2, <2>1 DEF Returned, Goroutine
<1>4. t \in Requester => Covered(g, excused[t])
  <2>1. thread[t].at = "write"
    BY DEF WriteStore
  <2>. QED
    BY <1>3, <2>1 DEF RetryInv, Covered, Idle
<1>5. g.at # "store" /\ (g.at = "idle" => g = Idle)
  BY <1>3 DEF Idle
<1>. QED
  BY <1>2, <1>4, <1>5, QuietRetry DEF WriteStore

\* The steps that change nothing of the account in memory: a renewal begins or is
\* given up, the file is truncated.
LEMMA RetryQuiet ==
  ASSUME TypeInv, RetryInv, NEW t \in Thread,
         \/ t = Refresher /\ AutoRefresh
         \/ NoLogin(t)
         \/ SaveStore(t)
  PROVE  RetryInv'
<1>. USE DEF accountVars, cloudVars, requestVars
<1>1. thread[t] \in Goroutine /\ Idle \in Goroutine /\ Idle.at = "idle"
  BY GoroutineTypes DEF Idle
<1>2. CASE NoLogin(t)
  <2>1. \A e : Covered(Idle, e)
    BY DEF Covered, Idle
  <2>2. PICK g \in Goroutine : g = Idle
    BY <1>1
  <2>. QED
    BY <1>1, <1>2, <2>1, <2>2, QuietRetry DEF NoLogin
<1>3. CASE t = Refresher /\ AutoRefresh
  <2>1. PICK g \in Goroutine : thread' = [thread EXCEPT ![t] = g] /\ g.at = "refresh"
    <3>1. /\ [thread[t] EXCEPT !.at = "refresh"] \in Goroutine
          /\ [thread[t] EXCEPT !.at = "refresh"].at = "refresh"
      BY <1>1 DEF Goroutine
    <3>. QED
      BY <1>3, <3>1 DEF AutoRefresh, Goes
  <2>2. t \notin Requester
    BY <1>3, ThreadAssumption
  <2>. QED
    BY <1>3, <2>1, <2>2, QuietRetry DEF AutoRefresh
<1>4. CASE SaveStore(t)
  <2>1. PICK g \in Goroutine :
           /\ thread' = [thread EXCEPT ![t] = g]
           /\ g.at = "write" /\ g.tok = thread[t].tok
           /\ g.attempt = thread[t].attempt /\ g.then = thread[t].then
    <3>1. /\ [thread[t] EXCEPT !.at = "write"] \in Goroutine
          /\ [thread[t] EXCEPT !.at = "write"].at = "write"
          /\ [thread[t] EXCEPT !.at = "write"].tok = thread[t].tok
          /\ [thread[t] EXCEPT !.at = "write"].attempt = thread[t].attempt
          /\ [thread[t] EXCEPT !.at = "write"].then = thread[t].then
      BY <1>1 DEF Goroutine
    <3>. QED
      BY <1>4, <3>1 DEF SaveStore, Goes
  <2>2. t \in Requester => Covered(g, excused[t])
    <3>1. thread[t].at = "save"
      BY <1>4 DEF SaveStore
    <3>. QED
      BY <2>1, <3>1 DEF RetryInv, Covered
  <2>. QED
    BY <1>4, <2>1, <2>2, QuietRetry DEF SaveStore
<1>. QED
  BY <1>2, <1>3, <1>4

\* The steps of nobody's goroutine.
LEMMA RetryElsewhere ==
  ASSUME TypeInv, RetryInv, Withdraw \/ Restart \/ ToolStep
  PROVE  RetryInv'
<1>. USE DEF accountVars, cloudVars, requestVars
<1>1. CASE Withdraw
  <2>1. /\ UNCHANGED <<memory, jar, issuedTo, thread, refused>>
        /\ excused' = [u \in Requester |-> thread[u] # Idle]
    BY <1>1 DEF Withdraw
  <2>2. ASSUME NEW u \in Requester PROVE Covered(thread[u], excused[u])'
    <3>1. excused'[u] = (thread[u] # Idle) /\ thread'[u] = thread[u]
      BY <2>1
    <3>2. CASE thread[u] = Idle
      <4>1. thread'[u].attempt = 0
        BY <3>1, <3>2 DEF Idle
      <4>. QED
        BY <4>1 DEF Covered
    <3>3. CASE thread[u] # Idle
      <4>1. excused'[u] = TRUE
        BY <3>1, <3>3
      <4>. QED
        BY <4>1 DEF Covered
    <3>. QED
      BY <3>2, <3>3
  <2>3. excused' \in [Requester -> BOOLEAN]
    BY <2>1
  <2>4. \A t \in Thread : thread[t].at = "store" => Own(thread[t].tok)'
    BY <2>1 DEF RetryInv, Own
  <2>5. jar' # 0 => Own(jar)'
    BY <2>1 DEF RetryInv, Own
  <2>. QED
    BY <2>1, <2>2, <2>3, <2>4, <2>5 DEF RetryInv, RetryIsAccepted
<1>2. CASE Restart
  <2>1. \A t \in Thread : thread'[t] = Idle
    BY <1>2 DEF Restart
  <2>2. ASSUME NEW u \in Requester PROVE Covered(thread[u], excused[u])'
    BY <2>1 DEF Thread, Covered, Idle
  <2>3. /\ jar' = 0 /\ refused' = refused /\ excused' \in [Requester -> BOOLEAN]
    BY <1>2 DEF Restart
  <2>4. Idle.at = "idle"
    BY DEF Idle
  <2>. QED
    BY <2>1, <2>2, <2>3, <2>4 DEF RetryInv, RetryIsAccepted
<1>3. CASE ToolStep
  <2>1. UNCHANGED <<memory, jar, thread, excused, refused>>
    BY <1>3 DEF ToolStep, PollStart, PollSucceeds, PollWrites, ListStart, ToolLogin, ToolSaves,
                ToolEnds
  <2>2. Grows
    <3>1. CASE tool.at = "login" /\ Issues(tool.data.login)
      <4>1. tool.data.login \in Logins
        BY <3>1 DEF TypeInv, TypeOK, ToolHasLogin, Store
      <4>. QED
        BY <3>1, <4>1, IssuesGrows
    <3>2. CASE UNCHANGED cloudVars
      BY <3>2, StaysGrows
    <3>. QED
      BY <1>3, <3>1, <3>2
      DEF ToolStep, PollStart, PollSucceeds, PollWrites, ListStart, ToolLogin, ToolSaves, ToolEnds
  <2>3. ASSUME NEW u \in Requester PROVE Covered(thread[u], excused[u])'
    <3>1. PICK g, e : g = thread[u] /\ e = excused[u]
      OBVIOUS
    <3>2. Covered(g, e)
      BY <3>1 DEF RetryInv
    <3>3. Covered(g, e)'
      BY <2>1, <2>2, <3>2, StaysCovered
    <3>. QED
      BY <2>1, <3>1, <3>3 DEF Covered
  <2>4. /\ jar' # 0 => Own(jar)'
        /\ \A t \in Thread : thread'[t].at = "store" => Own(thread[t].tok)'
    BY <2>1, <2>2 DEF RetryInv, Own, Grows
  <2>. QED
    BY <2>1, <2>3, <2>4 DEF RetryInv, RetryIsAccepted
<1>. QED
  BY <1>1, <1>2, <1>3

LEMMA RetryNext ==
  ASSUME TypeInv, RetryInv, [Next]_vars
  PROVE  RetryInv'
<1>1. ASSUME NEW t \in Requester, EnsureToken(t) \/ CallReturns(t) \/ DeleteToken(t)
      PROVE  RetryInv'
  BY <1>1, RetryEnsure, RetryCall, RetryDelete
<1>2. CASE AutoRefresh
  BY <1>2, RetryQuiet DEF Thread
<1>3. ASSUME NEW t \in Thread,
             NoLogin(t) \/ LoginReturns(t) \/ StoreToken(t) \/ SaveStore(t) \/ WriteStore(t)
      PROVE  RetryInv'
  BY <1>3, RetryQuiet, RetryLogin, RetryStore, RetryWrite
<1>4. CASE Withdraw \/ Restart \/ ToolStep
  BY <1>4, RetryElsewhere
<1>5. CASE UNCHANGED vars
  BY <1>5 DEF vars, accountVars, cloudVars, requestVars, RetryInv, RetryIsAccepted, Own,
              Covered, Accepts
<1>. QED
  BY <1>1, <1>2, <1>3, <1>4, <1>5 DEF Next, ToolStep

\* No request is refused with both its tokens on account of the other goroutines:
\* of any number of them, all deleting and renewing the one token, each makes its
\* second attempt with a token the cloud accepts.
THEOREM AccountAcceptsRetry == Spec => []RetryIsAccepted
<1>1. Init => TypeInv /\ RetryInv
  BY TypeInit, RetryInit
<1>2. TypeInv /\ RetryInv /\ [Next]_vars => (TypeInv /\ RetryInv)'
  BY TypeNext, RetryNext
<1>3. RetryInv => RetryIsAccepted
  BY DEF RetryInv
<1>. QED
  BY <1>1, <1>2, <1>3, PTL DEF Spec
=============================================================================
