----------------------------- MODULE WrdsDaemon -----------------------------
(***************************************************************************)
(* The WRDS daemon (wrds_server.py): one process that owns the database    *)
(* session of every campaign on the host, restarted by a watchdog and by   *)
(* an operator.                                                            *)
(*                                                                         *)
(* Main is the process's main thread (main(): latch check, first login,    *)
(* accept loop, signal handler); Threads are the handlers of client        *)
(* connections, which share one WrdsState.  The retry latch is a file that *)
(* outlives the process: it is written before a login and removed after a  *)
(* verified one.  A kill loses the memory, a power loss also the directory *)
(* entries that were never synced.                                         *)
(*                                                                         *)
(* One process runs at a time here: which process that is, is the subject  *)
(* of WrdsSingleton.  An operator approves a login by restarting the       *)
(* daemon with --operator-unblock; handle_client serves no such request,   *)
(* and WrdsState.unblock has no caller but its tests.                      *)
(***************************************************************************)
EXTENDS Naturals

CONSTANTS
    Threads,        \* client handler threads
    Main,           \* the main thread
    Nobody,         \* the lock is free
    MaxApprovals    \* bound: operator approvals between two verified logins

ASSUME PartyAssumption ==
    Main \notin Threads /\ Nobody \notin Threads \cup {Main}

ASSUME BoundAssumption == MaxApprovals \in Nat

VARIABLES
    pc,          \* where each thread is
    op,          \* what each handler serves; how the main thread was started
    blocked,     \* main: the latch this start has read
    latch,       \* AUTH_BLOCK_FILE as every process sees it
    disk,        \* AUTH_BLOCK_FILE as a power loss would leave it
    authFailed,  \* WrdsState.auth_failed: None or an operator message
    conn,        \* the state of the one database session
    lock,        \* holder of WrdsState.lock
    owner,       \* WrdsState._lock_owner
    late,        \* handlers whose own deadline has passed
    ownerDeadline, \* _lock_owner_deadline: still ahead, or passed
    tier,        \* what _recover returned to the handler
    failedOn,    \* ghost: handlers whose request failed on the session that stands
    attempts,    \* logins WRDS has seen since the last verified one
    approvals    \* operator approvals used since the last verified login

files   == <<latch, disk>>
account == <<attempts, approvals>>
sync    == <<lock, owner, late, ownerDeadline>>
vars    == <<pc, op, blocked, files, authFailed, conn, sync, tier, failedOn, account>>

Party == Threads \cup {Main}

MainPC   == {"down", "read", "bind", "arm", "serve", "stopping"}
LoginPC  == {"login", "connecting", "verify", "clear", "latch"}
ThreadPC == {"idle", "queued", "pinged", "granted", "run", "recover",
             "rebuild", "retry", "release", "unlock"}
Latch    == {"none", "attempt", "terminal"}
Requests == {"command", "ping"}

(* The handlers that are between taking WrdsState.lock and releasing it. *)
Critical == (ThreadPC \ {"idle", "queued", "pinged"}) \cup LoginPC

-----------------------------------------------------------------------------
(* The latch file.  It is replaced by rename and the directory is synced   *)
(* afterwards, so a failure leaves either the old file, or the new one     *)
(* without the guarantee that it survives a power loss.                    *)

Persist(value) == latch' = value /\ disk' = value

PersistFails(value) == latch' \in {latch, value} /\ disk' = disk

Goto(p, place) == pc' = [pc EXCEPT ![p] = place]

(* What a process that starts afresh, or a process that died, has in memory. *)
Forget ==
    /\ pc' = [p \in Party |-> IF p = Main THEN "down" ELSE "idle"]
    /\ op' = [p \in Party |-> IF p = Main THEN "auto" ELSE "command"]
    /\ blocked' = "none"
    /\ authFailed' = "None"
    /\ conn' = "closed"
    /\ lock' = Nobody
    /\ owner' = "none"
    /\ late' = {}
    /\ ownerDeadline' = "ahead"
    /\ tier' = [t \in Threads |-> "none"]
    /\ failedOn' = {}

Init ==
    /\ pc = [p \in Party |-> IF p = Main THEN "down" ELSE "idle"]
    /\ op = [p \in Party |-> IF p = Main THEN "auto" ELSE "command"]
    /\ blocked = "none"
    /\ latch = "none" /\ disk = "none"
    /\ authFailed = "None"
    /\ conn = "closed"
    /\ lock = Nobody
    /\ owner = "none"
    /\ late = {}
    /\ ownerDeadline = "ahead"
    /\ tier = [t \in Threads |-> "none"]
    /\ failedOn = {}
    /\ attempts = 0 /\ approvals = 0

-----------------------------------------------------------------------------
(* main(): from the process start to the accept loop, and its end. *)

(* A watchdog or launcher starts the daemon ("auto"), or the operator      *)
(* approves one retry ("operator": --operator-unblock).                    *)
Start(kind) ==
    /\ pc[Main] = "down"
    /\ kind = "operator" => approvals < MaxApprovals
    /\ Goto(Main, "read")
    /\ op' = [op EXCEPT ![Main] = kind]
    /\ UNCHANGED <<blocked, files, authFailed, conn, sync, tier, failedOn, account>>

(* The persisted latch is read before anything is bound: only an operator  *)
(* gets past an existing one.                                              *)
ReadLatch ==
    /\ pc[Main] = "read"
    /\ latch # "none" => op[Main] = "operator"
    /\ blocked' = latch
    /\ Goto(Main, "bind")
    /\ UNCHANGED <<op, files, authFailed, conn, sync, tier, failedOn, account>>

(* Compatibility guard, Unix socket and PID file are published. *)
Bind ==
    /\ pc[Main] = "bind"
    /\ Goto(Main, "arm")
    /\ UNCHANGED <<op, blocked, files, authFailed, conn, sync, tier, failedOn, account>>

(* The start is refused: the latch blocks it, the storage probe or a latch *)
(* read failed, a live instance was found, a socket could not be bound.    *)
Refuse ==
    /\ pc[Main] \in {"read", "bind"}
    /\ Forget
    /\ UNCHANGED <<files, account>>

(* The approved start cannot write its marker: it exits without a login. *)
ApprovedStartFails ==
    /\ pc[Main] = "arm" /\ blocked # "none"
    /\ Forget
    /\ PersistFails("attempt")
    /\ UNCHANGED account

(* SIGTERM: the handler closes the session under the handlers' feet and    *)
(* the process exits a little later; handlers run on in between.           *)
Terminate ==
    /\ pc[Main] = "serve"
    /\ Goto(Main, "stopping")
    /\ conn' = "closed"
    /\ UNCHANGED <<op, blocked, files, authFailed, sync, tier, failedOn, account>>

(* The end of a stopping process, or SIGKILL at any other moment. *)
Die ==
    /\ pc[Main] # "down"
    /\ Forget
    /\ UNCHANGED <<files, account>>

(* The host loses power: an unsynced directory entry may be lost. *)
PowerLoss ==
    /\ Forget
    /\ latch' \in {latch, disk}
    /\ disk' = latch'
    /\ UNCHANGED account

-----------------------------------------------------------------------------
(* One login, by the main thread or by the recovery of a handler. *)

Approved(p) == p = Main /\ pc[p] = "arm" /\ blocked # "none"

Unattended(p) ==
    \/ p = Main /\ pc[p] = "arm" /\ blocked = "none"
    \/ p # Main /\ pc[p] = "rebuild"

(* Mutant: the login goes ahead although the directory was not synced. *)
BeginLoginUnsynced(p) ==
    /\ Unattended(p)
    /\ latch = "none"
    /\ PersistFails("attempt")
    /\ Goto(p, "login")
    /\ UNCHANGED <<op, blocked, authFailed, conn, sync, tier, failedOn, account>>

(* Mutant: no marker; the latch is only written once a login has failed. *)
BeginLoginUnmarked(p) ==
    /\ Unattended(p)
    /\ latch = "none"
    /\ Goto(p, "login")
    /\ UNCHANGED <<op, blocked, files, authFailed, conn, sync, tier, failedOn, account>>

(* _begin_login_attempt(): the marker is durable before anything is sent,  *)
(* and an existing latch refuses it.                                       *)
BeginLogin(p) ==
    /\ Unattended(p)
    /\ latch = "none"
    /\ Persist("attempt")
    /\ Goto(p, "login")
    /\ UNCHANGED <<op, blocked, authFailed, conn, sync, tier, failedOn, account>>

(* A latch exists, the marker could not be written, or the installed wrds  *)
(* package is not the audited one.                                         *)
BeginFails(p) ==
    /\ Unattended(p)
    /\ \/ UNCHANGED files
       \/ latch = "none" /\ PersistFails("attempt")
    /\ Goto(p, "latch")
    /\ UNCHANGED <<op, blocked, authFailed, conn, sync, tier, failedOn, account>>

(* _begin_login_attempt(replace_blocked=True): the terminal latch becomes  *)
(* the marker of the one approved login, with no window between the two.   *)
BeginApproved(p) ==
    /\ Approved(p)
    /\ latch # "none"
    /\ Persist("attempt")
    /\ approvals' = approvals + 1
    /\ Goto(p, "login")
    /\ UNCHANGED <<op, blocked, authFailed, conn, sync, tier, failedOn, attempts>>

(* Mutant: the public connect() of the wrds package, which tries again. *)
LoginTwice(p) ==
    /\ pc[p] = "login"
    /\ attempts' = attempts + 1
    /\ \E place \in {"login", "connecting"} : Goto(p, place)
    /\ UNCHANGED <<op, blocked, files, authFailed, conn, sync, tier, failedOn, approvals>>

(* The login is about to be sent: from here on WRDS may have counted it. *)
Login(p) ==
    /\ pc[p] = "login"
    /\ attempts' = attempts + 1
    /\ Goto(p, "connecting")
    /\ UNCHANGED <<op, blocked, files, authFailed, conn, sync, tier, failedOn, approvals>>

(* _verify_wrds_runtime_contract refuses inside _connect_once. *)
LoginWithheld(p) ==
    /\ pc[p] = "login"
    /\ Goto(p, "latch")
    /\ UNCHANGED <<op, blocked, files, authFailed, conn, sync, tier, failedOn, account>>

(* Mutant: a connection is trusted before a statement was answered. *)
ConnectedUnverified(p) ==
    /\ pc[p] = "connecting"
    /\ conn' = "up"
    /\ ownerDeadline' = "ahead"
    /\ failedOn' = {}
    /\ Goto(p, "clear")
    /\ UNCHANGED <<op, blocked, files, authFailed, lock, owner, late, tier, account>>

(* _connect_once returned.  A recovery now has a fresh budget, and the     *)
(* recorded owner deadline moves with it.                                  *)
Connected(p) ==
    /\ pc[p] = "connecting"
    /\ conn' = "up"
    /\ ownerDeadline' = "ahead"
    /\ failedOn' = {}
    /\ Goto(p, "verify")
    /\ UNCHANGED <<op, blocked, files, authFailed, lock, owner, late, tier, account>>

(* The session of a recovery stays where it is; main() keeps no session    *)
(* that was not verified.                                                  *)
KeepSession(p) == conn' = IF p = Main THEN "closed" ELSE conn

(* Mutant: a recovery that fails answers its caller and latches nothing. *)
LoginFailsQuietly(p) ==
    /\ pc[p] \in {"connecting", "verify"}
    /\ Goto(p, IF p = Main THEN "latch" ELSE "release")
    /\ KeepSession(p)
    /\ UNCHANGED <<op, blocked, files, authFailed, sync, tier, failedOn, account>>

(* Refused, unreachable, or any other error: all count as a refusal. *)
LoginFails(p) ==
    /\ pc[p] \in {"connecting", "verify"}
    /\ Goto(p, "latch")
    /\ KeepSession(p)
    /\ UNCHANGED <<op, blocked, files, authFailed, sync, tier, failedOn, account>>

(* SELECT 1 was answered: the login is accounted for. *)
Verified(p) ==
    /\ pc[p] = "verify"
    /\ conn = "up"
    /\ attempts' = 0 /\ approvals' = 0
    /\ Goto(p, "clear")
    /\ UNCHANGED <<op, blocked, files, authFailed, conn, sync, tier, failedOn>>

(* Where a party goes on once its login is verified and the latch cleared. *)
Continue(p) ==
    CASE p = Main       -> "serve"
      [] op[p] = "command" -> "retry"
      [] op[p] = "ping"    -> "release"

(* _clear_auth_block: removed, and the removal synced. *)
Clear(p) ==
    /\ pc[p] = "clear"
    /\ Persist("none")
    /\ tier' = IF p = Main \/ op[p] # "command" THEN tier
               ELSE [tier EXCEPT ![p] = "pool_rebuilt"]
    /\ Goto(p, Continue(p))
    /\ UNCHANGED <<op, blocked, authFailed, conn, sync, failedOn, account>>

ClearFails(p) ==
    /\ pc[p] = "clear"
    /\ PersistFails("none")
    /\ Goto(p, "latch")
    /\ KeepSession(p)
    /\ UNCHANGED <<op, blocked, authFailed, sync, tier, failedOn, account>>

(* _latch_auth_failure, _latch_login_failure, the opt-out and the handlers *)
(* in main(): the memory is latched even if the file cannot be.            *)
ArmLatch(p) ==
    /\ pc[p] = "latch"
    /\ authFailed' = "message"
    /\ Persist("terminal") \/ PersistFails("terminal")
    /\ Goto(p, IF p = Main THEN "serve" ELSE "release")
    /\ UNCHANGED <<op, blocked, conn, sync, tier, failedOn, account>>

-----------------------------------------------------------------------------
(* A client request and WrdsState.lock. *)

(* run() queues on the lock.  healthcheck() answers at once when latched   *)
(* and otherwise goes on to try the lock.                                  *)
Request(t, kind) ==
    /\ pc[t] = "idle" /\ pc[Main] = "serve"
    /\ kind = "ping" => authFailed = "None"
    /\ op' = [op EXCEPT ![t] = kind]
    /\ Goto(t, IF kind = "ping" THEN "pinged" ELSE "queued")
    /\ UNCHANGED <<blocked, files, authFailed, conn, sync, tier, failedOn, account>>

TakeLock(t) ==
    /\ pc[t] \in {"queued", "pinged"}
    /\ lock = Nobody
    /\ lock' = t
    /\ Goto(t, "granted")
    /\ UNCHANGED <<op, blocked, files, authFailed, conn, owner, late, ownerDeadline,
                   tier, failedOn, account>>

(* Mutant: a command waits for the lock without a limit. *)
QueueForever(t) ==
    /\ pc[t] = "queued" /\ op[t] = "ping"
    /\ lock # Nobody
    /\ Goto(t, "idle")
    /\ UNCHANGED <<op, blocked, files, authFailed, conn, sync, tier, failedOn, account>>

(* A command gives up after LOCK_QUEUE_WAIT_SECONDS: WrdsServerBusy. *)
QueueTimeout(t) ==
    /\ pc[t] = "queued" /\ op[t] = "command"
    /\ lock # Nobody
    /\ Goto(t, "idle")
    /\ UNCHANGED <<op, blocked, files, authFailed, conn, sync, tier, failedOn, account>>

(* A ping never waits: it answers from _busy_health(). *)
AnswerBusy(t) ==
    /\ pc[t] = "pinged"
    /\ lock # Nobody
    /\ Goto(t, "idle")
    /\ UNCHANGED <<op, blocked, files, authFailed, conn, sync, tier, failedOn, account>>

(* What _busy_health() tells that ping. *)
BusyHealth ==
    CASE owner = "command" /\ ownerDeadline = "ahead" -> "busy"
      [] OTHER                         -> "unhealthy"

(* _set_lock_owner: the owner is recorded after the lock is taken, and the *)
(* deadline starts only now.                                               *)
Own(t) ==
    /\ pc[t] = "granted"
    /\ owner' = op[t]
    /\ ownerDeadline' = "ahead"
    /\ Goto(t, "run")
    /\ UNCHANGED <<op, blocked, files, authFailed, conn, lock, late, tier, failedOn, account>>

(* Time: the handler's own deadline passes. *)
CallerLate(t) ==
    /\ lock = t /\ owner # "none"
    /\ t \notin late
    /\ late' = late \cup {t}
    /\ UNCHANGED <<pc, op, blocked, files, authFailed, conn, lock, owner,
                   ownerDeadline, tier, failedOn, account>>

(* The deadline recorded for _busy_health() passes; _extend_lock_owner_    *)
(* deadline only ever moves it later than the handler's own.               *)
OwnerOverdue(t) ==
    /\ lock = t /\ owner # "none"
    /\ t \in late /\ ownerDeadline = "ahead"
    /\ ownerDeadline' = "passed"
    /\ UNCHANGED <<pc, op, blocked, files, authFailed, conn, lock, owner, late,
                   tier, failedOn, account>>

ClearOwner(t) ==
    /\ pc[t] = "release"
    /\ owner' = "none"
    /\ late' = late \ {t}
    /\ ownerDeadline' = "ahead"
    /\ tier' = [tier EXCEPT ![t] = "none"]
    /\ failedOn' = failedOn \ {t}
    /\ Goto(t, "unlock")
    /\ UNCHANGED <<op, blocked, files, authFailed, conn, lock, account>>

ReleaseLock(t) ==
    /\ pc[t] = "unlock"
    /\ lock' = Nobody
    /\ Goto(t, "idle")
    /\ UNCHANGED <<op, blocked, files, authFailed, conn, owner, late, ownerDeadline,
                   tier, failedOn, account>>

-----------------------------------------------------------------------------
(* run(), healthcheck() and _recover(), under the lock.  The code cannot   *)
(* look at the session itself: it goes by what a statement, the rollback   *)
(* or SELECT 1 raised, and any of them may fail on a session that works.   *)

(* Only a step of the handler itself and its place change. *)
Step(t, from, to) ==
    /\ pc[t] = from
    /\ Goto(t, to)
    /\ UNCHANGED <<op, blocked, files, authFailed, sync, account>>

Same == UNCHANGED <<conn, tier, failedOn>>

(* run() refuses under the lock when the daemon is latched; a healthcheck  *)
(* does not look again.                                                    *)
RefuseLatched(t) ==
    /\ op[t] = "command" /\ authFailed # "None"
    /\ Step(t, "run", "release")
    /\ Same

MayTouch(t) == op[t] = "command" => authFailed = "None"

(* The statement is answered. *)
Answered(t) ==
    /\ conn = "up"
    /\ \/ MayTouch(t) /\ Step(t, "run", "release")
       \/ Step(t, "retry", "release")
    /\ Same

(* The statement itself is at fault: no recovery; the transaction may stay *)
(* aborted.                                                                *)
QueryError(t) ==
    /\ op[t] = "command"
    /\ \/ MayTouch(t) /\ Step(t, "run", "release")
       \/ Step(t, "retry", "release")
    /\ \/ conn' = conn
       \/ conn = "up" /\ conn' = "poisoned"
    /\ UNCHANGED <<tier, failedOn>>

(* The answer is a credential rejection, in whatever state the session is: *)
(* _latch_auth_failure, also out of the rollback of _recover.              *)
Rejected(t) ==
    /\ \/ MayTouch(t) /\ Step(t, "run", "latch")
       \/ authFailed = "None" /\ Step(t, "recover", "latch")
       \/ Step(t, "retry", "latch")
    /\ Same

(* WrdsOperationTimeout, wherever it is raised: nothing is latched and     *)
(* nothing is rebuilt.                                                     *)
Expired(t) ==
    /\ t \in late
    /\ \/ MayTouch(t) /\ Step(t, "run", "release")
       \/ Step(t, "recover", "release")
       \/ Step(t, "retry", "release")
    /\ Same

(* Mutant: run() has left the lock by the time it recovers. *)
BrokenUnlocked(t) ==
    /\ MayTouch(t)
    /\ pc[t] = "run"
    /\ failedOn' = failedOn \cup {t}
    /\ lock' = Nobody
    /\ Goto(t, "recover")
    /\ UNCHANGED <<op, blocked, files, authFailed, conn, owner, late, ownerDeadline,
                   tier, account>>

(* What run() takes for a connection-level error (_is_conn_error), or a    *)
(* health check that failed for another reason than time: recover once.    *)
Broken(t) ==
    /\ MayTouch(t)
    /\ Step(t, "run", "recover")
    /\ failedOn' = failedOn \cup {t}
    /\ UNCHANGED <<conn, tier>>

RecoverLatched(t) ==
    /\ authFailed # "None"
    /\ Step(t, "recover", "release")
    /\ Same

(* Tier 1: rollback on the existing socket, then SELECT 1. *)
RolledBack(t) ==
    /\ authFailed = "None" /\ t \notin late
    /\ conn \in {"up", "poisoned"}
    /\ Step(t, "recover", IF op[t] = "command" THEN "retry" ELSE "release")
    /\ conn' = "up"
    /\ tier' = IF op[t] = "command" THEN [tier EXCEPT ![t] = "rolled_back"]
               ELSE tier
    /\ UNCHANGED failedOn

(* The rollback or SELECT 1 failed, and WRDS_AUTO_RELOGIN=0: latch instead *)
(* of logging in.                                                          *)
OptedOut(t) ==
    /\ authFailed = "None"
    /\ Step(t, "recover", "latch")
    /\ Same

(* Tier 2, after a rollback or a SELECT 1 that failed: the old pool is     *)
(* disposed of, if there is still time for a login.                        *)
Rebuild(t) ==
    /\ authFailed = "None" /\ t \notin late
    /\ Step(t, "recover", "rebuild")
    /\ conn' = "closed"
    /\ UNCHANGED <<tier, failedOn>>

(* The retried statement meets another connection error: latched. *)
RetryBroken(t) ==
    /\ Step(t, "retry", "latch")
    /\ Same

(* The network or WRDS drops the session. *)
Drop ==
    /\ conn \in {"up", "poisoned"}
    /\ conn' = "broken"
    /\ UNCHANGED <<pc, op, blocked, files, authFailed, sync, tier, failedOn, account>>

-----------------------------------------------------------------------------
LoginStep(p) ==
    \/ BeginLogin(p) \/ BeginFails(p) \/ BeginApproved(p)
    \/ Login(p) \/ LoginWithheld(p) \/ Connected(p) \/ LoginFails(p)
    \/ Verified(p) \/ Clear(p) \/ ClearFails(p) \/ ArmLatch(p)

MainStep ==
    \/ \E kind \in {"auto", "operator"} : Start(kind)
    \/ ReadLatch \/ Bind \/ Refuse \/ ApprovedStartFails \/ Terminate

(* What a handler that serves a request does next, by itself. *)
HandlerStep(t) ==
    \/ TakeLock(t) \/ QueueTimeout(t) \/ AnswerBusy(t) \/ Own(t)
    \/ RefuseLatched(t) \/ Answered(t) \/ QueryError(t) \/ Rejected(t)
    \/ Expired(t) \/ Broken(t) \/ RecoverLatched(t) \/ RolledBack(t)
    \/ OptedOut(t) \/ Rebuild(t) \/ RetryBroken(t)
    \/ ClearOwner(t) \/ ReleaseLock(t)

Environment ==
    \/ Die \/ PowerLoss \/ Drop
    \/ \E t \in Threads : CallerLate(t) \/ OwnerOverdue(t)
    \/ \E t \in Threads : \E kind \in Requests : Request(t, kind)

Next ==
    \/ MainStep
    \/ \E p \in Party : LoginStep(p)
    \/ \E t \in Threads : HandlerStep(t)
    \/ Environment

Spec == Init /\ [][Next]_vars

(* Every database call of a command or a ping is bounded (statement        *)
(* timeout, connect_timeout, socket guards), so its handler goes on.  The  *)
(* fairness is weak: threading.Lock promises no order, and a handler may   *)
(* lose every race for it to handlers that came later.                     *)
Fairness ==
    \A t \in Threads : WF_vars(HandlerStep(t) \/ LoginStep(t))

FairSpec == Spec /\ Fairness

-----------------------------------------------------------------------------
TypeOK ==
    /\ pc \in [Party -> MainPC \cup ThreadPC \cup LoginPC]
    /\ op \in [Party -> Requests \cup {"auto", "operator"}]
    /\ blocked \in Latch
    /\ latch \in Latch /\ disk \in Latch
    /\ authFailed \in {"None", "message"}
    /\ conn \in {"closed", "up", "poisoned", "broken"}
    /\ lock \in Threads \cup {Nobody}
    /\ owner \in Requests \cup {"none"}
    /\ late \subseteq Threads
    /\ ownerDeadline \in {"ahead", "passed"}
    /\ tier \in [Threads -> {"none", "rolled_back", "pool_rebuilt"}]
    /\ failedOn \subseteq Threads
    /\ attempts \in Nat /\ approvals \in Nat

(* As long as WRDS has seen a login that nobody verified, the latch file   *)
(* exists, and a power loss would not remove it: whatever process comes    *)
(* next finds it (the write-ahead order of _begin_login_attempt,           *)
(* _connect_once and _clear_auth_block).                                   *)
WriteAhead == attempts > 0 => latch # "none" /\ disk # "none"

(* WRDS sees at most one unverified login the daemon made by itself, and   *)
(* one for each approved retry, through kills, power losses, failing       *)
(* storage and concurrent handlers (docstring of _auto_relogin_enabled).   *)
FailureBudget == attempts <= approvals + 1

(* Between two requests a serving daemon that is not latched owes WRDS     *)
(* nothing: every login it made was verified (WrdsState.auth_failed is set *)
(* on every path on which one was not).                                    *)
QuietMeansSettled ==
    pc[Main] = "serve" /\ authFailed = "None" /\ lock = Nobody => attempts = 0

(* The durable latch disappears only after the login it guarded was        *)
(* verified (_clear_auth_block, "only a fully verified connection clears   *)
(* it").                                                                   *)
ClearedByVerification ==
    [][disk # "none" /\ disk' = "none" => attempts = 0]_vars

(* A lost session costs one login, however many campaigns wait behind it:  *)
(* a handler recovers, and logs in again, only if its own request failed   *)
(* on the very session it replaces, never on the word of a failure that    *)
(* another handler has repaired meanwhile (class WrdsState: "a reconnect   *)
(* triggered by one client is visible to all others").                     *)
OneLoginPerLoss ==
    \A t \in Threads :
        pc[t] \in {"recover", "rebuild", "login", "connecting"} => t \in failedOn

(* Every command and every ping is answered, although the lock may pass    *)
(* between other handlers for ever (LOCK_QUEUE_WAIT_SECONDS, the           *)
(* non-blocking healthcheck, the deadlines of run and _recover).           *)
EveryRequestAnswered == \A t \in Threads : pc[t] # "idle" ~> pc[t] = "idle"

(* A ping that finds the lock taken by a command within its deadline is    *)
(* told that the daemon is busy (healthcheck, "a running query proves the  *)
(* daemon and its serialized DB owner are live").                          *)
PingSeesCommand ==
    \A t \in Threads :
        /\ pc[t] = "pinged" /\ lock # Nobody
        /\ op[lock] = "command" /\ lock \notin late
        => BusyHealth = "busy"

(* A lost connection latches the daemon only if a reconnect was part of    *)
(* the same request (class WrdsState: the latch is "set on a known         *)
(* credential rejection or an ambiguous failed reconnect").                *)
DropLatchesAfterReconnect ==
    [][\A t \in Threads :
         pc[t] = "retry" /\ pc'[t] = "latch" /\ conn = "broken"
         => tier[t] = "pool_rebuilt"]_vars

-----------------------------------------------------------------------------
(* The daemon keeps the promise of WrdsLogin.  A login is armed between    *)
(* the marker and the connect.                                             *)
Armed == \E p \in Party : pc[p] = "login"

Account == INSTANCE WrdsLogin WITH armed <- Armed

LoginPromise == Account!Spec
=============================================================================
