---------------------------- MODULE TokenAccount ----------------------------
(***************************************************************************)
(* The Xiaomi account of src/core/miservice/account.go.  The control loop, *)
(* the volume worker and the other callers of RequestMina share one token  *)
(* with the goroutine that renews it every six hours; a refused token is   *)
(* deleted and renewed by whoever was refused.  Each access to the token   *)
(* and each write of the store file holds the mutex, a login does not.  The *)
(* QR login and the device list of the web page are other processes that   *)
(* read and write the same file, and the daemon may be restarted at any    *)
(* moment, also between the truncation of the file and the write.          *)
(***************************************************************************)
EXTENDS Integers, Sequences

CONSTANTS
    Requester,   \* the goroutines that call RequestMina
    Refresher,   \* the goroutine of StartAutoRefresh
    MaxTokens,   \* bound: the tokens the cloud issues
    MaxRestarts  \* bound: the restarts of the daemon

ASSUME ThreadAssumption == Refresher \notin Requester
ASSUME TokenBoundAssumption == MaxTokens \in Nat \ {0} /\ MaxRestarts \in Nat

Thread == Requester \union {Refresher}

VARIABLES
    memory,     \* a.Data of the daemon: login and token, 0 for none
    file,       \* what LoadStore finds in the store file: nothing in a torn one
    diskOK,     \* whether it can be written
    jar,        \* the cookie jar of httpClient: the last token it was sent
    issuedTo,   \* cloud: the login each token was issued to
    accepted,   \* cloud: the tokens it accepts
    thread,     \* where each goroutine is
    tool,       \* the process of a QR login or of a device list
    restarts,   \* bound: restarts so far
    excused,    \* history: during a request the cloud withdrew a token, or a
                \* renewal brought one it had withdrawn
    refused,    \* history: a request was refused with both its tokens
    torn        \* history: a write was cut off, or met one of the other process

accountVars == <<memory, file, diskOK, jar, torn>>
cloudVars == <<issuedTo, accepted>>
requestVars == <<excused, refused>>
vars == <<accountVars, cloudVars, thread, tool, restarts, requestVars>>

Logins == {1, 2}    \* the login the daemon started with, and the QR login
Tokens == 0..MaxTokens
Store == [login : Logins \union {0}, token : Tokens]
NoStore == [login |-> 0, token |-> 0]

\* attempt: 0 or 1 of RequestMina; tok: the token in hand; then: where
\* RefreshToken returns to.
TypeOK ==
    /\ memory \in Store /\ file \in Store
    /\ jar \in Tokens
    /\ issuedTo \in Seq(Logins) /\ Len(issuedTo) <= MaxTokens
    /\ accepted \subseteq 1..Len(issuedTo)
    /\ thread \in [Thread ->
         [at : {"idle", "ensure", "call", "delete", "refresh", "store", "save", "write"},
          attempt : {0, 1}, tok : Tokens,
          then : {"ensure", "call", "idle"}]]
    /\ \A t \in Thread : thread[t].at \in {"call", "store"} => thread[t].tok # 0
    /\ tool \in [at : {"none", "waiting", "first", "login", "save", "last", "done"},
                 data : Store, scanned : BOOLEAN]
    /\ torn \in BOOLEAN

Idle == [at |-> "idle", attempt |-> 0, tok |-> 0, then |-> "idle"]

Init ==
    /\ memory \in {[login |-> 1, token |-> 0], [login |-> 1, token |-> 1], NoStore}
    /\ file = memory
    /\ diskOK \in BOOLEAN
    /\ jar = 0
    /\ issuedTo = [i \in 1..memory.token |-> 1]
    /\ accepted \in SUBSET (1..memory.token)
    /\ thread = [t \in Thread |-> Idle]
    /\ tool = [at |-> "none", data |-> NoStore, scanned |-> FALSE]
    /\ restarts = 0
    /\ excused = [t \in Requester |-> FALSE]
    /\ refused = [t \in Requester |-> FALSE]
    /\ torn = FALSE

Goes(t, place) == thread' = [thread EXCEPT ![t].at = place]

\* The mutex of the daemon, held only by a write of the file for longer than a step.
Unlocked == \A t \in Thread : thread[t].at # "write"

\* The cloud takes a token from the login it was issued to.
Accepts(login, tok) == tok \in accepted /\ issuedTo[tok] = login

-----------------------------------------------------------------------------
\* The store file: os.WriteFile truncates it and then writes.

DaemonWrites == ~Unlocked
ToolWrites == tool.at \in {"first", "last"}

\* O_TRUNC.  Whoever loads the file now finds nothing.
Truncate(otherWrites) ==
    /\ file' = IF diskOK THEN NoStore ELSE file
    /\ torn' = (torn \/ (diskOK /\ otherWrites))

\* The contents go to the start of the file.  If the other process has written
\* since the truncation, a longer rest of its contents may make it unreadable.
WriteOut(data, otherWrites) ==
    IF ~diskOK THEN UNCHANGED <<file, torn>>
    ELSE /\ \/ file' = data
            \/ file # NoStore /\ file' = NoStore
         /\ torn' = (torn /\ (otherWrites \/ file # NoStore))

-----------------------------------------------------------------------------
\* RequestMina and StartAutoRefresh.

\* At start and at each tick, if there is a login.
AutoRefresh ==
    /\ thread[Refresher] = Idle
    /\ Unlocked
    /\ memory.login # 0
    /\ Goes(Refresher, "refresh")
    /\ UNCHANGED <<accountVars, cloudVars, tool, restarts, requestVars>>

\* RequestMina begins, or its second attempt, with EnsureToken: the token in
\* memory, or a new one.
EnsureToken(t) ==
    /\ thread[t].at \in {"idle", "ensure"}
    /\ Unlocked
    /\ thread' = [thread EXCEPT ![t] =
                    IF memory.token # 0
                    THEN [@ EXCEPT !.at = "call", !.tok = memory.token]
                    ELSE [@ EXCEPT !.at = "refresh", !.then = "call"]]
    /\ excused' = [excused EXCEPT ![t] = @ /\ thread[t] # Idle]
    /\ UNCHANGED <<accountVars, cloudVars, tool, restarts, refused>>

\* The answer of the cloud, or none.  A first refusal leads to another attempt, and
\* so does a page of HTML, which may come for a token the cloud accepts.
CallReturns(t) ==
    /\ thread[t].at = "call"
    /\ \/ thread' = [thread EXCEPT ![t] = Idle] /\ UNCHANGED refused
       \/ /\ thread[t].attempt = 0
          /\ thread' = [thread EXCEPT ![t].at = "delete", ![t].tok = 0]
          /\ UNCHANGED refused
       \/ /\ thread[t].attempt # 0
          /\ ~Accepts(memory.login, thread[t].tok)
          /\ thread' = [thread EXCEPT ![t] = Idle]
          /\ refused' = [refused EXCEPT ![t] = ~excused[t]]
    /\ UNCHANGED <<accountVars, cloudVars, tool, restarts, excused>>

\* Variant: the second attempt is made without a renewal.
RetrySameToken(t) ==
    /\ thread[t].at = "delete"
    /\ Unlocked
    /\ thread' = [thread EXCEPT ![t].at = "ensure", ![t].attempt = 1]
    /\ UNCHANGED <<accountVars, cloudVars, tool, restarts, requestVars>>

\* The token in memory goes, whichever token it was that the cloud refused.
DeleteToken(t) ==
    /\ thread[t].at = "delete"
    /\ Unlocked
    /\ memory' = [memory EXCEPT !.token = 0]
    /\ thread' = [thread EXCEPT ![t].at = "refresh", ![t].then = "ensure", ![t].attempt = 1]
    /\ UNCHANGED <<file, diskOK, jar, torn, cloudVars, tool, restarts, requestVars>>

-----------------------------------------------------------------------------
\* RefreshToken.

\* No credentials: RefreshToken fails at once, and with it the request.
NoLogin(t) ==
    /\ thread[t].at = "refresh"
    /\ Unlocked
    /\ memory.login = 0
    /\ thread' = [thread EXCEPT ![t] = Idle]
    /\ UNCHANGED <<accountVars, cloudVars, tool, restarts, requestVars>>

\* The cloud issues a token to a login it knows.
Issues(login) ==
    /\ Len(issuedTo) < MaxTokens
    /\ issuedTo' = Append(issuedTo, login)
    /\ accepted' = accepted \union {Len(issuedTo) + 1}

\* Variant: an empty cookie jar is not noticed.
LoginReturnsAnyCookie(t) ==
    /\ thread[t].at = "refresh"
    /\ memory.login # 0
    /\ \/ /\ Issues(memory.login)
          /\ jar' = Len(issuedTo')
          /\ thread' = [thread EXCEPT ![t].at = "store", ![t].tok = jar']
       \/ /\ thread' = [thread EXCEPT ![t].at = "store", ![t].tok = jar]
          /\ UNCHANGED <<jar, cloudVars>>
       \/ thread' = [thread EXCEPT ![t] = Idle] /\ UNCHANGED <<jar, cloudVars>>
    /\ UNCHANGED <<memory, file, diskOK, torn, tool, restarts, requestVars>>

\* serviceLogin and its redirection, without the mutex, with the login in memory,
\* which never changes while the daemon runs: a new token; or no
\* token, and then the one in the cookie jar; or an error, which ends the request.
LoginReturns(t) ==
    /\ thread[t].at = "refresh"
    /\ memory.login # 0
    /\ \/ /\ Issues(memory.login)
          /\ jar' = Len(issuedTo')
          /\ thread' = [thread EXCEPT ![t].at = "store", ![t].tok = jar']
       \/ /\ jar # 0
          /\ thread' = [thread EXCEPT ![t].at = "store", ![t].tok = jar]
          /\ UNCHANGED <<jar, cloudVars>>
       \/ thread' = [thread EXCEPT ![t] = Idle] /\ UNCHANGED <<jar, cloudVars>>
    /\ UNCHANGED <<memory, file, diskOK, torn, tool, restarts, requestVars>>

StoreToken(t) ==
    /\ thread[t].at = "store"
    /\ Unlocked
    /\ memory' = [memory EXCEPT !.token = thread[t].tok]
    /\ Goes(t, "save")
    /\ excused' = [u \in Requester |-> thread[u] # Idle /\
                                   (excused[u] \/ thread[t].tok \notin accepted)]
    /\ UNCHANGED <<file, diskOK, jar, torn, cloudVars, tool, restarts, refused>>

\* Variant: the file is written after the mutex is released.
SaveStoreUnlocked(t) ==
    /\ thread[t].at = "save"
    /\ Truncate(ToolWrites)
    /\ Goes(t, "write")
    /\ UNCHANGED <<memory, diskOK, jar, cloudVars, tool, restarts, requestVars>>

\* SaveStore takes what is in memory now, and truncates the file ...
SaveStore(t) ==
    /\ thread[t].at = "save"
    /\ Unlocked
    /\ Truncate(ToolWrites)
    /\ Goes(t, "write")
    /\ UNCHANGED <<memory, diskOK, jar, cloudVars, tool, restarts, requestVars>>

\* Back from RefreshToken: to the request with the token, to its second attempt,
\* which looks for the token again, or to the ticker.
Returned(g) ==
    CASE g.then = "idle"   -> Idle
      [] g.then = "call"   -> [g EXCEPT !.at = "call"]
      [] g.then = "ensure" -> [g EXCEPT !.at = "ensure", !.tok = 0]

\* Variant: what was stored before is saved, not what is in memory now.
WriteStoreOwnToken(t) ==
    /\ thread[t].at = "write"
    /\ WriteOut([memory EXCEPT !.token = thread[t].tok], ToolWrites)
    /\ thread' = [thread EXCEPT ![t] = Returned(@)]
    /\ UNCHANGED <<memory, diskOK, jar, cloudVars, tool, restarts, requestVars>>

\* ... writes it, and RefreshToken returns.
WriteStore(t) ==
    /\ thread[t].at = "write"
    /\ WriteOut(memory, ToolWrites)
    /\ thread' = [thread EXCEPT ![t] = Returned(@)]
    /\ UNCHANGED <<memory, diskOK, jar, cloudVars, tool, restarts, requestVars>>

\* The cloud stops accepting a token, at any time.
Withdraw ==
    /\ \E k \in accepted : accepted' = accepted \ {k}
    /\ excused' = [u \in Requester |-> thread[u] # Idle]
    /\ UNCHANGED <<accountVars, issuedTo, thread, tool, restarts, refused>>

\* The daemon ends at any moment and starts again: NewAccount with the file and
\* an empty cookie jar.
Restart ==
    /\ restarts < MaxRestarts
    /\ restarts' = restarts + 1
    /\ memory' = file
    /\ jar' = 0
    /\ thread' = [t \in Thread |-> Idle]
    /\ excused' = [t \in Requester |-> FALSE]
    /\ torn' = (torn \/ (diskOK /\ DaemonWrites))
    /\ UNCHANGED <<file, diskOK, cloudVars, tool, refused>>

-----------------------------------------------------------------------------
\* Another process: miair-core -poll-qr, NewAccount and PollQRLogin; or
\* miair-core -list, NewAccount and a RequestMina.

ToolGoes(place) == tool' = [tool EXCEPT !.at = place]

PollStart ==
    /\ tool.at = "none"
    /\ tool' = [at |-> "waiting", data |-> file, scanned |-> TRUE]
    /\ UNCHANGED <<accountVars, cloudVars, thread, restarts, requestVars>>

\* The user has scanned the code: the new login is saved at once ...
PollSucceeds ==
    /\ tool.at = "waiting"
    /\ tool' = [tool EXCEPT !.at = "first", !.data.login = 2]
    /\ Truncate(DaemonWrites)
    /\ UNCHANGED <<memory, diskOK, jar, cloudVars, thread, restarts, requestVars>>

\* ... and exchanged for a token, if EnsureToken finds none in what was loaded,
PollWrites ==
    /\ tool.at = "first"
    /\ WriteOut(tool.data, DaemonWrites)
    /\ ToolGoes(IF tool.data.token # 0 THEN "save" ELSE "login")
    /\ UNCHANGED <<memory, diskOK, jar, cloudVars, thread, restarts, requestVars>>

\* A device list needs a renewal if it finds no token or one that is refused.
ListStart ==
    /\ tool.at = "none"
    /\ file.login # 0
    /\ ~Accepts(file.login, file.token)
    /\ tool' = [at |-> "login", data |-> file, scanned |-> FALSE]
    /\ UNCHANGED <<accountVars, cloudVars, thread, restarts, requestVars>>

\* A QR login goes on without a token, a device list ends.
ToolLogin ==
    /\ tool.at = "login"
    /\ \/ Issues(tool.data.login)
          /\ tool' = [tool EXCEPT !.at = "save", !.data.token = Len(issuedTo')]
       \/ UNCHANGED cloudVars /\ ToolGoes(IF tool.scanned THEN "save" ELSE "done")
    /\ UNCHANGED <<accountVars, thread, restarts, requestVars>>

\* ... and saved, with the token.  After a renewal the QR process saves the same
\* data twice, in RefreshToken and in PollQRLogin: here that is one save.
ToolSaves ==
    /\ tool.at = "save"
    /\ Truncate(DaemonWrites)
    /\ ToolGoes("last")
    /\ UNCHANGED <<memory, diskOK, jar, cloudVars, thread, restarts, requestVars>>

ToolEnds ==
    /\ tool.at = "last"
    /\ WriteOut(tool.data, DaemonWrites)
    /\ ToolGoes("done")
    /\ UNCHANGED <<memory, diskOK, jar, cloudVars, thread, restarts, requestVars>>

-----------------------------------------------------------------------------

Next ==
    \/ \E t \in Requester : EnsureToken(t) \/ CallReturns(t) \/ DeleteToken(t)
    \/ AutoRefresh
    \/ \E t \in Thread :
          NoLogin(t) \/ LoginReturns(t) \/ StoreToken(t) \/ SaveStore(t) \/ WriteStore(t)
    \/ Withdraw \/ Restart
    \/ PollStart \/ PollSucceeds \/ PollWrites
    \/ ListStart \/ ToolLogin \/ ToolSaves \/ ToolEnds

Spec == Init /\ [][Next]_vars

-----------------------------------------------------------------------------

\* No request is refused with both its tokens unless the cloud withdrew a token
\* meanwhile, or a renewal meanwhile came back with an old one: a renewal by one
\* goroutine does not spoil the second attempt of another, though each deletes
\* the token in memory whichever it is; and a login found in the file with the
\* token of another login, as a QR login leaves it, heals.
RetryIsAccepted == \A t \in Requester : ~refused[t]

\* When nobody is renewing the token, the one in memory is the one on disk: of
\* two renewals at once, the file does not keep the loser; as long as no other
\* process has written the file; also after a restart.
SavedTokenIsCurrent ==
    /\ \A t \in Thread : thread[t].at \notin {"save", "write"}
    /\ tool.at \in {"none", "waiting"}
    /\ diskOK /\ ~torn /\ memory.token # 0
    => file.token = memory.token

\* The file has a login as long as a process had one to write: it is without only
\* during a write, or after a write that was cut off by a restart or met one of
\* the other process.  What a process found in such a file it does not write.
FileKeepsLogin ==
    /\ diskOK /\ ~torn /\ ~DaemonWrites /\ ~ToolWrites
    /\ memory.login # 0 \/ (tool.scanned /\ tool.at # "waiting")
    => file.login # 0

\* The login of a finished QR login stays in the file, whoever writes it next.
LoginKept ==
    /\ tool.scanned /\ tool.at = "done"
    /\ diskOK /\ ~torn /\ ~DaemonWrites
    => file.login = tool.data.login
=============================================================================
