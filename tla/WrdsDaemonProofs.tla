-------------------------- MODULE WrdsDaemonProofs --------------------------
(* What TLAPS proves about WrdsDaemon, for any set of handler threads.     *)
EXTENDS WrdsDaemon, TLAPS

(* The main thread and the handlers have places and requests of their own. *)
Places ==
    /\ pc[Main] \in MainPC \cup LoginPC
    /\ op[Main] \in {"auto", "operator"}
    /\ \A t \in Threads : /\ pc[t] \in ThreadPC \cup LoginPC
                          /\ op[t] \in Requests

(* Exactly the holder of the lock is between taking and releasing it. *)
LockHeld == \A t \in Threads : pc[t] \in Critical <=> lock = t

(* Handlers exist only once the main thread accepts connections. *)
MainFirst ==
    pc[Main] \notin {"serve", "stopping"} =>
        \A t \in Threads : pc[t] = "idle"

(* Whoever is in a login has its marker on disk. *)
MarkerHeld ==
    \A p \in Party : pc[p] \in {"login", "connecting", "verify", "clear"} =>
        latch = "attempt" /\ disk = "attempt"

(* A login that is armed fits the budget, a verified one owes nothing. *)
Budgeted ==
    \A p \in Party : /\ pc[p] = "login" => attempts <= approvals
                     /\ pc[p] = "clear" => attempts = 0

(* A serving daemon that owes WRDS an answer is latched, or its lock is    *)
(* held by the handler that will either verify the login or latch.         *)
Owed ==
    pc[Main] \in {"serve", "stopping"} /\ authFailed = "None" /\ attempts > 0 =>
        \E t \in Threads :
            pc[t] \in {"login", "connecting", "verify", "latch"}

IInv ==
    /\ TypeOK
    /\ Places
    /\ LockHeld
    /\ MainFirst
    /\ MarkerHeld
    /\ WriteAhead
    /\ FailureBudget
    /\ Budgeted
    /\ Owed

Typed == TypeOK /\ Places

(* The initial state has the invariant. *)
LEMMA InitIInv == Init => IInv
<1> SUFFICES ASSUME Init PROVE IInv
  OBVIOUS
<1> USE PartyAssumption DEF Init, Party
<1>1. TypeOK
  BY DEF TypeOK, MainPC, LoginPC, ThreadPC, Latch, Requests
<1>2. \A t \in Threads : pc[t] = "idle" /\ op[t] = "command"
  OBVIOUS
<1>3. pc[Main] = "down" /\ op[Main] = "auto"
  OBVIOUS
<1>4. Places
  BY <1>2, <1>3 DEF Places, MainPC, ThreadPC, Requests
<1>5. LockHeld /\ MainFirst
  BY <1>2, <1>3 DEF LockHeld, MainFirst, Critical, ThreadPC, LoginPC
<1>6. MarkerHeld /\ WriteAhead /\ FailureBudget /\ Budgeted /\ Owed
  <2>1. \A p \in Party : pc[p] \in {"idle", "down"}
    BY <1>2, <1>3
  <2>2. attempts = 0 /\ approvals = 0 /\ pc[Main] = "down"
    BY <1>3
  <2> HIDE DEF Init
  <2>3. MarkerHeld /\ Budgeted
    BY <2>1 DEF MarkerHeld, Budgeted
  <2>4. WriteAhead /\ FailureBudget
    BY <2>2 DEF WriteAhead, FailureBudget
  <2>5. Owed
    BY <2>2, Zenon DEF Owed
  <2>6. QED
    BY <2>3, <2>4, <2>5
<1>7. QED
  BY <1>1, <1>4, <1>5, <1>6 DEF IInv

(* A step of the main thread alone keeps types and places. *)
LEMMA MainTyped == Typed /\ MainStep => Typed'
<1> SUFFICES ASSUME Typed, MainStep PROVE Typed'
  OBVIOUS
<1> USE PartyAssumption
    DEF Typed, TypeOK, Places, Party, MainPC, LoginPC, ThreadPC, Latch, Requests
<1>1. ASSUME NEW kind \in {"auto", "operator"}, Start(kind) PROVE Typed'
  BY <1>1 DEF Start, Goto, files, account, sync
<1>2. CASE ReadLatch
  BY <1>2 DEF ReadLatch, Goto, files, account, sync
<1>3. CASE Bind
  BY <1>3 DEF Bind, Goto, files, account, sync
<1>4. CASE Refuse
  BY <1>4 DEF Refuse, Forget, files, account
<1>5. CASE ApprovedStartFails
  BY <1>5 DEF ApprovedStartFails, Forget, PersistFails, account
<1>6. CASE Terminate
  BY <1>6 DEF Terminate, Goto, files, account, sync
<1>7. QED
  BY <1>1, <1>2, <1>3, <1>4, <1>5, <1>6 DEF MainStep

(* A step of a login keeps types and places. *)
LEMMA LoginTyped ==
  ASSUME NEW p \in Party, Typed, LoginStep(p) PROVE Typed'
<1> USE PartyAssumption
    DEF Typed, TypeOK, Places, Party, MainPC, LoginPC, ThreadPC, Latch, Requests
<1>1. CASE BeginLogin(p)
  BY <1>1 DEF BeginLogin, Unattended, Persist, Goto, account, sync
<1>2. CASE BeginFails(p)
  BY <1>2 DEF BeginFails, Unattended, PersistFails, Goto, files, account, sync
<1>3. CASE BeginApproved(p)
  BY <1>3 DEF BeginApproved, Approved, Persist, Goto, sync
<1>4. CASE Login(p)
  BY <1>4 DEF Login, Goto, files, sync
<1>5. CASE LoginWithheld(p)
  BY <1>5 DEF LoginWithheld, Goto, files, sync, account
<1>6. CASE Connected(p)
  BY <1>6 DEF Connected, Goto, files, account
<1>7. CASE LoginFails(p)
  BY <1>7 DEF LoginFails, KeepSession, Goto, files, sync, account
<1>8. CASE Verified(p)
  BY <1>8 DEF Verified, Goto, files, sync
<1>9. CASE Clear(p)
  BY <1>9 DEF Clear, Continue, Persist, Goto, sync, account
<1>10. CASE ClearFails(p)
  BY <1>10 DEF ClearFails, KeepSession, PersistFails, Goto, sync, account
<1>11. CASE ArmLatch(p)
  BY <1>11 DEF ArmLatch, Persist, PersistFails, Goto, sync, account
<1>12. QED
  BY <1>1, <1>2, <1>3, <1>4, <1>5, <1>6, <1>7, <1>8, <1>9, <1>10, <1>11
  DEF LoginStep

(* A step that only moves the handler, and its session and tier within    *)
(* their types, keeps types and places.                                    *)
LEMMA MoveTyped ==
  ASSUME NEW t \in Threads, Typed,
         NEW from, NEW to \in ThreadPC \cup LoginPC, Step(t, from, to),
         conn' \in {"closed", "up", "poisoned", "broken"},
         tier' \in [Threads -> {"none", "rolled_back", "pool_rebuilt"}],
         failedOn' \subseteq Threads
  PROVE  Typed'
<1> USE PartyAssumption
    DEF Typed, TypeOK, Places, Party, MainPC, LoginPC, ThreadPC, Latch,
        Requests, Step, Goto, files, account, sync
<1>1. TypeOK'
  OBVIOUS
<1>2. Places'
  OBVIOUS
<1>3. QED
  BY <1>1, <1>2

(* A step of a handler keeps types and places. *)
LEMMA HandlerTyped ==
  ASSUME NEW t \in Threads, Typed, HandlerStep(t) PROVE Typed'
<1>1. ASSUME NEW from, NEW to \in ThreadPC \cup LoginPC, Step(t, from, to), Same
      PROVE  Typed'
  BY <1>1, MoveTyped DEF Same, Typed, TypeOK
<1>2. ASSUME \/ RefuseLatched(t) \/ Answered(t) \/ Rejected(t) \/ Expired(t)
             \/ RecoverLatched(t) \/ OptedOut(t) \/ RetryBroken(t)
      PROVE  Typed'
  <2>1. /\ Same
        /\ \E from \in {"run", "retry", "recover"} :
             \E to \in {"release", "latch"} : Step(t, from, to)
    BY <1>2
    DEF RefuseLatched, Answered, Rejected, Expired, RecoverLatched,
        OptedOut, RetryBroken
  <2>2. QED
    BY <1>1, <2>1 DEF ThreadPC, LoginPC
<1>3. CASE QueryError(t)
  <2>1. /\ conn' \in {conn, "poisoned"} /\ tier' = tier /\ failedOn' = failedOn
        /\ \E from \in {"run", "retry"} : Step(t, from, "release")
    BY <1>3, Zenon DEF QueryError
  <2>2. QED
    BY <2>1, MoveTyped DEF Typed, TypeOK, ThreadPC
<1>4. CASE RolledBack(t)
  <2>1. /\ conn' = "up"
        /\ tier' \in {tier, [tier EXCEPT ![t] = "rolled_back"]}
        /\ failedOn' = failedOn
        /\ \E to \in {"retry", "release"} : Step(t, "recover", to)
    BY <1>4, Zenon DEF RolledBack
  <2>2. tier' \in [Threads -> {"none", "rolled_back", "pool_rebuilt"}]
    BY <2>1 DEF Typed, TypeOK
  <2>3. QED
    BY <2>1, <2>2, MoveTyped DEF Typed, TypeOK, ThreadPC
<1>5. CASE Rebuild(t) \/ Broken(t)
  <2>1. /\ conn' \in {conn, "closed"} /\ tier' = tier
        /\ failedOn' \in {failedOn, failedOn \cup {t}}
        /\ \E from \in {"run", "recover"} :
             \E to \in {"recover", "rebuild"} : Step(t, from, to)
    BY <1>5 DEF Rebuild, Broken
  <2>2. QED
    BY <2>1, MoveTyped DEF Typed, TypeOK, ThreadPC
<1>6. ASSUME \/ TakeLock(t) \/ QueueTimeout(t) \/ AnswerBusy(t) \/ Own(t)
             \/ ClearOwner(t) \/ ReleaseLock(t)
      PROVE  Typed'
  <2> USE PartyAssumption
      DEF Typed, TypeOK, Places, Party, MainPC, LoginPC, ThreadPC, Latch,
          Requests, Goto, files, account, sync
  <2>1. CASE TakeLock(t)
    BY <2>1 DEF TakeLock
  <2>2. CASE QueueTimeout(t)
    BY <2>2 DEF QueueTimeout
  <2>3. CASE AnswerBusy(t)
    BY <2>3 DEF AnswerBusy
  <2>4. CASE Own(t)
    BY <2>4 DEF Own
  <2>6. CASE ClearOwner(t)
    BY <2>6 DEF ClearOwner
  <2>7. CASE ReleaseLock(t)
    BY <2>7 DEF ReleaseLock
  <2>8. QED
    BY <1>6, <2>1, <2>2, <2>3, <2>4, <2>6, <2>7
<1>7. QED
  BY <1>2, <1>3, <1>4, <1>5, <1>6 DEF HandlerStep

(* A step of the environment keeps types and places. *)
LEMMA EnvironmentTyped == Typed /\ Environment => Typed'
<1> SUFFICES ASSUME Typed, Environment PROVE Typed'
  OBVIOUS
<1> USE PartyAssumption
    DEF Typed, TypeOK, Places, Party, MainPC, LoginPC, ThreadPC, Latch,
        Requests, Goto, files, account, sync
<1>1. CASE Die
  BY <1>1 DEF Die, Forget
<1>2. CASE PowerLoss
  BY <1>2 DEF PowerLoss, Forget
<1>3. CASE Drop
  BY <1>3 DEF Drop
<1>4. ASSUME NEW t \in Threads, CallerLate(t) \/ OwnerOverdue(t) PROVE Typed'
  BY <1>4 DEF CallerLate, OwnerOverdue
<1>5. ASSUME NEW t \in Threads, NEW kind \in Requests, Request(t, kind)
      PROVE  Typed'
  BY <1>5 DEF Request
<1>6. QED
  BY <1>1, <1>2, <1>3, <1>4, <1>5 DEF Environment

LEMMA StepTyped == Typed /\ [Next]_vars => Typed'
<1>1. CASE UNCHANGED vars
  BY <1>1 DEF vars, files, account, sync, Typed, TypeOK, Places, Party
<1>2. CASE Next
  BY <1>2, MainTyped, LoginTyped, HandlerTyped, EnvironmentTyped DEF Next
<1>3. QED
  BY <1>1, <1>2

-----------------------------------------------------------------------------
(* Who is between two places that only one party can be between. *)
Busy(p) == IF p = Main THEN pc[p] \in LoginPC \cup {"arm"}
                       ELSE pc[p] \in Critical

(* At most one party is busy: a handler holds the lock, and the main       *)
(* thread logs in before there are handlers.                               *)
LEMMA Alone ==
  ASSUME LockHeld, MainFirst,
         NEW p \in Party, NEW q \in Party, Busy(p), Busy(q)
  PROVE  p = q
<1> USE PartyAssumption DEF Party, Busy
<1>1. \A t \in Threads : Busy(t) => lock = t /\ pc[t] # "idle"
  BY DEF LockHeld, Critical, LoginPC, ThreadPC
<1>2. ASSUME Busy(Main) PROVE \A t \in Threads : pc[t] = "idle"
  BY <1>2 DEF MainFirst, LoginPC
<1>3. QED
  BY <1>1, <1>2

(* In a login step every other party stays where it is, outside any login. *)
LEMMA OthersElsewhere ==
  ASSUME IInv, NEW p \in Party, Busy(p),
         NEW q \in Party, q # p
  PROVE  pc[q] \notin LoginPC
<1> SUFFICES ASSUME pc[q] \in LoginPC PROVE FALSE
  OBVIOUS
<1>1. Busy(q)
  BY DEF Busy, Critical
<1>2. QED
  BY <1>1, Alone DEF IInv

LEMMA LoginIsBusy ==
  ASSUME IInv, NEW p \in Party, LoginStep(p) PROVE Busy(p)
<1> USE DEF Busy, Critical, LoginPC, ThreadPC
<1>1. pc[p] \in LoginPC \cup {"arm", "rebuild"}
  BY DEF LoginStep, BeginLogin, BeginFails, BeginApproved, Login, LoginWithheld,
         Connected, LoginFails, Verified, Clear, ClearFails, ArmLatch,
         Unattended, Approved
<1>2. CASE p = Main
  BY <1>1, <1>2, PartyAssumption DEF IInv, Places, MainPC
<1>3. CASE p # Main
  BY <1>1, <1>3 DEF IInv, Places, Party
<1>4. QED
  BY <1>2, <1>3

(* A login step moves only the one party, and keeps the lock. *)
LEMMA LoginMoves ==
  ASSUME IInv, NEW p \in Party, LoginStep(p)
  PROVE  /\ \E to \in LoginPC \cup {"serve", "retry", "release"} :
               pc' = [pc EXCEPT ![p] = to]
         /\ lock' = lock
<1> USE DEF Goto, sync, LoginPC
<1>1. CASE BeginLogin(p) \/ BeginFails(p) \/ BeginApproved(p)
  BY <1>1 DEF BeginLogin, BeginFails, BeginApproved
<1>2. CASE Login(p) \/ LoginWithheld(p) \/ Connected(p) \/ LoginFails(p)
  BY <1>2 DEF Login, LoginWithheld, Connected, LoginFails
<1>3. CASE Verified(p) \/ ClearFails(p)
  BY <1>3 DEF Verified, ClearFails
<1>4. CASE Clear(p)
  BY <1>4 DEF Clear, Continue, IInv, Places, Party, Requests
<1>5. CASE ArmLatch(p)
  BY <1>5 DEF ArmLatch
<1>6. QED
  BY <1>1, <1>2, <1>3, <1>4, <1>5 DEF LoginStep

(* A login step keeps the lock, and the main thread first. *)
LEMMA LoginKeepsLock ==
  ASSUME IInv, NEW p \in Party, LoginStep(p)
  PROVE  LockHeld' /\ MainFirst'
<1>1. PICK to \in LoginPC \cup {"serve", "retry", "release"} :
        pc' = [pc EXCEPT ![p] = to]
  BY LoginMoves
<1>2. lock' = lock
  BY LoginMoves
<1>3. Busy(p)
  BY LoginIsBusy
<1> USE PartyAssumption DEF IInv, TypeOK, Places, LockHeld, MainFirst, Party,
        Busy, Critical, LoginPC, ThreadPC, MainPC
<1>4. CASE p = Main
  BY <1>1, <1>2, <1>3, <1>4
<1>5. CASE p # Main
  <2>1. p \in Threads /\ lock = p /\ pc[p] # "idle"
    BY <1>3, <1>5
  <2>2. pc[Main] \in {"serve", "stopping"}
    BY <2>1
  <2>3. to # "serve"
    BY <1>1, <1>5, <2>1 DEF LoginStep, BeginLogin, BeginFails, BeginApproved,
       Login, LoginWithheld, Connected, LoginFails, Verified, Clear, Continue,
       ClearFails, ArmLatch, Goto, Requests
  <2>4. QED
    BY <1>1, <1>2, <1>5, <2>1, <2>2, <2>3
<1>6. QED
  BY <1>4, <1>5

(* The part of the invariant that ties the account to the latch. *)
Ledger == MarkerHeld /\ WriteAhead /\ FailureBudget /\ Budgeted /\ Owed

(* A login step keeps the account within what the latch guards. *)
LEMMA LoginKeepsLedger ==
  ASSUME IInv, NEW p \in Party, LoginStep(p)
  PROVE  Ledger'
<1> USE PartyAssumption DEF Ledger, Party
<1>1. /\ \A q \in Party : q # p => pc[q] \notin LoginPC
      /\ pc \in [Party -> MainPC \cup ThreadPC \cup LoginPC]
      /\ attempts \in Nat /\ approvals \in Nat
  BY OthersElsewhere, LoginIsBusy DEF IInv, TypeOK
<1>2. /\ MarkerHeld /\ WriteAhead /\ FailureBudget /\ Budgeted /\ Owed
  BY DEF IInv
(* A party that is still in its login answers for the account. *)
<1>3. ASSUME NEW to \in {"login", "connecting", "verify", "latch"},
             pc' = [pc EXCEPT ![p] = to]
      PROVE  Owed'
  <2>1. pc'[p] = to
    BY <1>1, <1>3
  <2>2. CASE p = Main
    BY <2>1, <2>2 DEF Owed
  <2>3. CASE p # Main
    BY <2>1, <2>3 DEF Owed
  <2>4. QED
    BY <2>2, <2>3
<1>4. CASE BeginLogin(p)
  <2>1. /\ latch = "none" /\ latch' = "attempt" /\ disk' = "attempt"
        /\ pc' = [pc EXCEPT ![p] = "login"]
        /\ attempts' = attempts /\ approvals' = approvals
    BY <1>4 DEF BeginLogin, Persist, Goto, account
  <2>2. attempts = 0
    BY <1>1, <1>2, <2>1 DEF WriteAhead
  <2>3. QED
    BY <1>1, <1>3, <2>1, <2>2
    DEF MarkerHeld, WriteAhead, FailureBudget, Budgeted, LoginPC
<1>5. CASE BeginFails(p)
  <2>1. /\ latch' \in {latch, "attempt"} /\ disk' = disk
        /\ latch # "none" => latch' = latch
        /\ pc' = [pc EXCEPT ![p] = "latch"]
        /\ attempts' = attempts /\ approvals' = approvals
    BY <1>5 DEF BeginFails, PersistFails, Goto, account, files
  <2>2. QED
    BY <1>1, <1>2, <1>3, <2>1
    DEF MarkerHeld, WriteAhead, FailureBudget, Budgeted, LoginPC
<1>6. CASE BeginApproved(p)
  <2>1. /\ latch' = "attempt" /\ disk' = "attempt"
        /\ pc' = [pc EXCEPT ![p] = "login"]
        /\ attempts' = attempts /\ approvals' = approvals + 1
    BY <1>6 DEF BeginApproved, Persist, Goto
  <2>2. attempts' <= approvals'
    BY <1>1, <1>2, <2>1 DEF FailureBudget
  <2>3. QED
    BY <1>1, <1>3, <2>1, <2>2
    DEF MarkerHeld, WriteAhead, FailureBudget, Budgeted, LoginPC
<1>7. CASE Login(p)
  <2>1. /\ latch' = latch /\ disk' = disk /\ pc[p] = "login"
        /\ pc' = [pc EXCEPT ![p] = "connecting"]
        /\ attempts' = attempts + 1 /\ approvals' = approvals
    BY <1>7 DEF Login, Goto, files
  <2>2. latch = "attempt" /\ disk = "attempt" /\ attempts <= approvals
    BY <1>2, <2>1 DEF MarkerHeld, Budgeted
  <2>3. QED
    BY <1>1, <1>3, <2>1, <2>2
    DEF MarkerHeld, WriteAhead, FailureBudget, Budgeted, LoginPC
<1>8. CASE LoginWithheld(p) \/ LoginFails(p) \/ Connected(p)
  <2>1. /\ latch' = latch /\ disk' = disk /\ pc[p] \in {"login", "connecting", "verify"}
        /\ \E to \in {"latch", "verify"} : pc' = [pc EXCEPT ![p] = to]
        /\ attempts' = attempts /\ approvals' = approvals
    BY <1>8 DEF LoginWithheld, LoginFails, Connected, Goto, files, account
  <2>2. latch = "attempt" /\ disk = "attempt"
    BY <1>2, <2>1 DEF MarkerHeld
  <2>3. QED
    BY <1>1, <1>2, <1>3, <2>1, <2>2
    DEF MarkerHeld, WriteAhead, FailureBudget, Budgeted, LoginPC
<1>9. CASE Verified(p)
  <2>1. /\ latch' = latch /\ disk' = disk /\ pc[p] = "verify"
        /\ pc' = [pc EXCEPT ![p] = "clear"]
        /\ attempts' = 0 /\ approvals' = 0
    BY <1>9 DEF Verified, Goto, files
  <2>2. latch = "attempt" /\ disk = "attempt"
    BY <1>2, <2>1 DEF MarkerHeld
  <2>3. QED
    BY <1>1, <2>1, <2>2
    DEF MarkerHeld, WriteAhead, FailureBudget, Budgeted, Owed, LoginPC
<1>10. CASE Clear(p) \/ ClearFails(p)
  <2>1. /\ pc[p] = "clear" /\ attempts' = attempts /\ approvals' = approvals
    BY <1>10 DEF Clear, ClearFails, account
  <2>2. attempts = 0
    BY <1>2, <2>1 DEF Budgeted
  <2>3. \E to \in {"latch", "serve", "retry", "release"} :
          pc' = [pc EXCEPT ![p] = to]
    BY <1>10 DEF Clear, ClearFails, Goto, Continue, IInv, Places, Requests
  <2>4. QED
    BY <1>1, <1>2, <2>1, <2>2, <2>3
    DEF MarkerHeld, WriteAhead, FailureBudget, Budgeted, Owed, LoginPC
<1>11. CASE ArmLatch(p)
  <2>1. /\ pc[p] = "latch" /\ attempts' = attempts /\ approvals' = approvals
        /\ latch' \in {latch, "terminal"} /\ disk' \in {disk, "terminal"}
        /\ authFailed' = "message"
        /\ \E to \in {"serve", "release"} : pc' = [pc EXCEPT ![p] = to]
    BY <1>11 DEF ArmLatch, Persist, PersistFails, Goto, account
  <2>2. QED
    BY <1>1, <1>2, <2>1
    DEF MarkerHeld, WriteAhead, FailureBudget, Budgeted, Owed, LoginPC
<1>12. QED
  BY <1>4, <1>5, <1>6, <1>7, <1>8, <1>9, <1>10, <1>11 DEF LoginStep

(* A handler step outside a login leaves the account alone, moves one      *)
(* handler, and enters a login's latch only.                               *)
LEMMA HandlerMoves ==
  ASSUME IInv, NEW t \in Threads, HandlerStep(t)
  PROVE  /\ attempts' = attempts /\ approvals' = approvals
         /\ pc[t] \in ThreadPC \ {"idle"}
         /\ \E to \in ThreadPC \cup {"latch"} :
              /\ pc' = [pc EXCEPT ![t] = to]
              /\ latch' = latch /\ disk' = disk /\ authFailed' = authFailed
              /\ \/ lock' = lock /\ (pc[t] \in Critical <=> to \in Critical)
                 \/ lock = Nobody /\ lock' = t /\ to \in Critical
                 \/ pc[t] \in Critical /\ lock' = Nobody /\ to = "idle"
<1> USE DEF Step, Goto, account, files, sync, ThreadPC, LoginPC, Critical
<1>1. CASE TakeLock(t) \/ QueueTimeout(t) \/ AnswerBusy(t) \/ ReleaseLock(t)
  BY <1>1 DEF TakeLock, QueueTimeout, AnswerBusy, ReleaseLock
<1>2. CASE Own(t) \/ ClearOwner(t)
  BY <1>2 DEF Own, ClearOwner
<1>3. CASE RefuseLatched(t) \/ Answered(t) \/ QueryError(t) \/ Rejected(t)
  BY <1>3 DEF RefuseLatched, Answered, QueryError, Rejected
<1>4. CASE Expired(t) \/ Broken(t) \/ RecoverLatched(t) \/ RolledBack(t)
  BY <1>4 DEF Expired, Broken, RecoverLatched, RolledBack
<1>5. CASE OptedOut(t) \/ Rebuild(t) \/ RetryBroken(t)
  BY <1>5 DEF OptedOut, Rebuild, RetryBroken
<1>6. QED
  BY <1>1, <1>2, <1>3, <1>4, <1>5 DEF HandlerStep

LEMMA HandlerKeeps ==
  ASSUME IInv, NEW t \in Threads, HandlerStep(t)
  PROVE  LockHeld' /\ MainFirst' /\ Ledger'
<1> USE PartyAssumption DEF Party
<1>1. PICK to \in ThreadPC \cup {"latch"} :
        /\ pc' = [pc EXCEPT ![t] = to]
        /\ latch' = latch /\ disk' = disk /\ authFailed' = authFailed
        /\ \/ lock' = lock /\ (pc[t] \in Critical <=> to \in Critical)
           \/ lock = Nobody /\ lock' = t /\ to \in Critical
           \/ pc[t] \in Critical /\ lock' = Nobody /\ to = "idle"
  BY HandlerMoves
<1>2. /\ attempts' = attempts /\ approvals' = approvals
      /\ pc[t] \in ThreadPC \ {"idle"}
  BY HandlerMoves
<1>3. /\ pc \in [Party -> MainPC \cup ThreadPC \cup LoginPC]
      /\ lock \in Threads \cup {Nobody}
      /\ attempts \in Nat /\ approvals \in Nat
      /\ LockHeld /\ MainFirst /\ MarkerHeld /\ WriteAhead /\ FailureBudget
      /\ Budgeted /\ Owed
  BY DEF IInv, TypeOK
<1>4. pc[Main] \in {"serve", "stopping"}
  BY <1>2, <1>3 DEF MainFirst
<1>5. LockHeld' /\ MainFirst'
  <2>1. pc'[t] = to /\ \A q \in Party : q # t => pc'[q] = pc[q]
    BY <1>1, <1>3
  <2>2. ASSUME NEW u \in Threads PROVE pc'[u] \in Critical <=> lock' = u
    <3>1. pc[u] \in Critical <=> lock = u
      BY <1>3 DEF LockHeld
    <3>2. pc[t] \in Critical <=> lock = t
      BY <1>3 DEF LockHeld
    <3>3. "idle" \notin Critical
      BY DEF Critical, LoginPC
    <3>4. CASE u = t
      BY <1>1, <2>1, <3>1, <3>3, <3>4
    <3>5. CASE u # t
      BY <1>1, <2>1, <3>1, <3>2, <3>5
    <3>6. QED
      BY <3>4, <3>5
  <2>3. LockHeld'
    BY <2>2 DEF LockHeld
  <2>4. MainFirst'
    BY <1>4, <2>1 DEF MainFirst
  <2>5. QED
    BY <2>3, <2>4
<1>7. WriteAhead' /\ FailureBudget'
  BY <1>1, <1>2, <1>3 DEF WriteAhead, FailureBudget
<1>8. Budgeted'
  BY <1>1, <1>2, <1>3 DEF Budgeted, ThreadPC
<1>9. MarkerHeld'
  <2>1. SUFFICES ASSUME NEW p \in Party,
                        pc'[p] \in {"login", "connecting", "verify", "clear"}
                 PROVE  latch' = "attempt" /\ disk' = "attempt"
    BY DEF MarkerHeld
  <2>2. p # t /\ pc'[p] = pc[p]
    BY <1>1, <1>3, <2>1 DEF ThreadPC
  <2>3. latch = "attempt" /\ disk = "attempt"
    BY <1>3, <2>1, <2>2 DEF MarkerHeld
  <2>4. QED
    BY <1>1, <2>3
<1>10. Owed'
  <2>1. CASE to = "latch"
    BY <1>1, <1>3, <2>1 DEF Owed
  <2>2. CASE to # "latch"
    BY <1>1, <1>2, <1>3, <1>4, <2>2 DEF Owed, ThreadPC
  <2>3. QED
    BY <2>1, <2>2
<1>11. QED
  BY <1>5, <1>7, <1>8, <1>9, <1>10 DEF Ledger

(* A process that ended, or never went beyond its start, owes what the     *)
(* latch guards.                                                           *)
LEMMA ForgetKeeps ==
  ASSUME IInv, Forget, UNCHANGED account,
         latch # "none" /\ disk # "none" => latch' # "none" /\ disk' # "none"
  PROVE  LockHeld' /\ MainFirst' /\ Ledger'
<1> USE PartyAssumption DEF Party
<1>1. /\ pc'[Main] = "down" /\ \A t \in Threads : pc'[t] = "idle"
      /\ lock' = Nobody
  BY DEF Forget
<1>2. attempts' = attempts /\ approvals' = approvals
  BY DEF account
<1>3. LockHeld' /\ MainFirst'
  BY <1>1 DEF LockHeld, MainFirst, Critical, LoginPC
<1>4. MarkerHeld' /\ Budgeted' /\ Owed'
  BY <1>1 DEF MarkerHeld, Budgeted, Owed
<1>5. WriteAhead' /\ FailureBudget'
  BY <1>2 DEF IInv, WriteAhead, FailureBudget
<1>6. QED
  BY <1>3, <1>4, <1>5 DEF Ledger

LEMMA MainKeeps == IInv /\ MainStep => LockHeld' /\ MainFirst' /\ Ledger'
<1> SUFFICES ASSUME IInv, MainStep PROVE LockHeld' /\ MainFirst' /\ Ledger'
  OBVIOUS
<1> USE PartyAssumption DEF Party
(* The steps before the accept loop, and the signal, move Main alone. *)
<1>1. ASSUME \/ \E kind \in {"auto", "operator"} : Start(kind)
             \/ ReadLatch \/ Bind \/ Terminate
      PROVE  LockHeld' /\ MainFirst' /\ Ledger'
  <2>1. /\ \/ pc[Main] = "serve" /\ pc' = [pc EXCEPT ![Main] = "stopping"]
           \/ /\ pc[Main] \in {"down", "read", "bind"}
              /\ \E to \in {"read", "bind", "arm"} : pc' = [pc EXCEPT ![Main] = to]
        /\ UNCHANGED <<lock, latch, disk, authFailed, attempts, approvals>>
    BY <1>1 DEF Start, ReadLatch, Bind, Terminate, Goto, files, account, sync
  <2>2. /\ pc \in [Party -> MainPC \cup ThreadPC \cup LoginPC]
        /\ LockHeld /\ MainFirst /\ MarkerHeld /\ WriteAhead /\ FailureBudget
        /\ Budgeted /\ Owed
    BY DEF IInv, TypeOK
  <2>3. LockHeld' /\ MainFirst'
    BY <2>1, <2>2 DEF LockHeld, MainFirst
  <2>4. WriteAhead' /\ FailureBudget'
    BY <2>1, <2>2 DEF WriteAhead, FailureBudget
  <2>5. MarkerHeld' /\ Budgeted'
    BY <2>1, <2>2 DEF MarkerHeld, Budgeted
  <2>6. Owed'
    BY <2>1, <2>2 DEF Owed
  <2>7. QED
    BY <2>3, <2>4, <2>5, <2>6 DEF Ledger
<1>2. CASE Refuse
  BY <1>2, ForgetKeeps DEF Refuse, files
<1>3. CASE ApprovedStartFails
  BY <1>3, ForgetKeeps DEF ApprovedStartFails, PersistFails
<1>4. QED
  BY <1>1, <1>2, <1>3 DEF MainStep

LEMMA EnvironmentKeeps ==
  IInv /\ Environment => LockHeld' /\ MainFirst' /\ Ledger'
<1> SUFFICES ASSUME IInv, Environment PROVE LockHeld' /\ MainFirst' /\ Ledger'
  OBVIOUS
<1> USE PartyAssumption DEF Party
<1>1. CASE Die
  BY <1>1, ForgetKeeps DEF Die, files
<1>2. CASE PowerLoss
  BY <1>2, ForgetKeeps DEF PowerLoss
<1>3. ASSUME Drop \/ \E t \in Threads : CallerLate(t) \/ OwnerOverdue(t)
      PROVE  LockHeld' /\ MainFirst' /\ Ledger'
  <2>1. UNCHANGED <<pc, lock, latch, disk, authFailed, attempts, approvals>>
    BY <1>3 DEF Drop, CallerLate, OwnerOverdue, files, account, sync
  <2>2. QED
    BY <2>1 DEF IInv, LockHeld, MainFirst, Ledger, MarkerHeld, WriteAhead,
                FailureBudget, Budgeted, Owed
<1>4. ASSUME NEW t \in Threads, NEW kind \in Requests, Request(t, kind)
      PROVE  LockHeld' /\ MainFirst' /\ Ledger'
  <2>1. /\ pc[t] = "idle" /\ pc[Main] = "serve"
        /\ \E to \in {"queued", "pinged"} : pc' = [pc EXCEPT ![t] = to]
        /\ UNCHANGED <<lock, latch, disk, authFailed, attempts, approvals>>
    BY <1>4 DEF Request, Goto, files, account, sync
  <2>2. /\ pc \in [Party -> MainPC \cup ThreadPC \cup LoginPC]
        /\ LockHeld /\ MainFirst /\ MarkerHeld /\ WriteAhead /\ FailureBudget
        /\ Budgeted /\ Owed
    BY DEF IInv, TypeOK
  <2>3. LockHeld' /\ MainFirst'
    BY <2>1, <2>2 DEF LockHeld, MainFirst, Critical, ThreadPC, LoginPC
  <2>4. WriteAhead' /\ FailureBudget'
    BY <2>1, <2>2 DEF WriteAhead, FailureBudget
  <2>5. MarkerHeld' /\ Budgeted'
    BY <2>1, <2>2 DEF MarkerHeld, Budgeted
  <2>6. Owed'
    BY <2>1, <2>2 DEF Owed
  <2>7. QED
    BY <2>3, <2>4, <2>5, <2>6 DEF Ledger
<1>5. QED
  BY <1>1, <1>2, <1>3, <1>4 DEF Environment

LEMMA StepIInv == IInv /\ [Next]_vars => IInv'
<1> SUFFICES ASSUME IInv, [Next]_vars PROVE IInv'
  OBVIOUS
<1>1. Typed'
  BY StepTyped DEF IInv, Typed
<1>2. LockHeld' /\ MainFirst' /\ Ledger'
  <2>1. CASE UNCHANGED vars
    BY <2>1 DEF vars, files, account, sync, IInv, LockHeld, MainFirst, Ledger,
                MarkerHeld, WriteAhead, FailureBudget, Budgeted, Owed
  <2>2. CASE MainStep
    BY <2>2, MainKeeps
  <2>3. CASE \E p \in Party : LoginStep(p)
    BY <2>3, LoginKeepsLock, LoginKeepsLedger
  <2>4. CASE \E t \in Threads : HandlerStep(t)
    BY <2>4, HandlerKeeps
  <2>5. CASE Environment
    BY <2>5, EnvironmentKeeps
  <2>6. QED
    BY <2>1, <2>2, <2>3, <2>4, <2>5 DEF Next
<1>3. QED
  BY <1>1, <1>2 DEF IInv, Typed, Ledger

LEMMA Inductive == Spec => []IInv
  BY InitIInv, StepIInv, PTL DEF Spec

-----------------------------------------------------------------------------
(* Every variable of the daemon keeps its type. *)
THEOREM TypeCorrect == Spec => []TypeOK
<1>1. IInv => TypeOK
  BY DEF IInv
<1>2. QED
  BY <1>1, Inductive, PTL

(* Whenever WRDS has seen a login that nobody verified, the next process   *)
(* finds the latch, whether this one was killed or the host lost power.    *)
THEOREM WriteAheadHolds == Spec => []WriteAhead
<1>1. IInv => WriteAhead
  BY DEF IInv
<1>2. QED
  BY <1>1, Inductive, PTL

(* WRDS never sees more unverified logins in a row than one of the         *)
(* daemon's own and one for each approval.                                 *)
THEOREM FailureBudgetHolds == Spec => []FailureBudget
<1>1. IInv => FailureBudget
  BY DEF IInv
<1>2. QED
  BY <1>1, Inductive, PTL

(* A daemon that serves, is not latched and has its lock free has had      *)
(* every login verified.                                                   *)
THEOREM QuietMeansSettledHolds == Spec => []QuietMeansSettled
<1>1. IInv => QuietMeansSettled
  <2>1. SUFFICES ASSUME IInv, pc[Main] = "serve", authFailed = "None",
                        lock = Nobody
                 PROVE  attempts = 0
    BY DEF QuietMeansSettled
  <2>2. \A t \in Threads : pc[t] \notin Critical
    BY <2>1, PartyAssumption DEF IInv, LockHeld
  <2>3. ~(attempts > 0)
    BY <2>1, <2>2 DEF IInv, Owed, Critical, LoginPC
  <2>4. QED
    BY <2>1, <2>3 DEF IInv, TypeOK
<1>2. QED
  BY <1>1, Inductive, PTL

(* A durable latch is removed only when no login is unverified. *)
THEOREM ClearedByVerificationHolds == Spec => ClearedByVerification
<1>1. IInv /\ IInv' /\ [Next]_vars =>
        [disk # "none" /\ disk' = "none" => attempts = 0]_vars
  <2>1. SUFFICES ASSUME IInv, IInv', Next, disk # "none", disk' = "none"
                 PROVE  attempts = 0
    OBVIOUS
  <2>2. attempts' = 0
    BY <2>1 DEF IInv, WriteAhead, TypeOK
  <2>3. ASSUME NEW p \in Party, LoginStep(p) PROVE attempts' = attempts
    <3>1. ~Login(p)
      BY <2>2, <2>1 DEF Login, IInv, TypeOK
    <3>2. ~Verified(p)
      BY <2>1 DEF Verified, files
    <3>3. QED
      BY <2>3, <3>1, <3>2
      DEF LoginStep, BeginLogin, BeginFails, BeginApproved, LoginWithheld,
          Connected, LoginFails, Clear, ClearFails, ArmLatch, account
  <2>4. CASE MainStep
    BY <2>2, <2>4 DEF MainStep, Start, ReadLatch, Bind, Refuse,
                      ApprovedStartFails, Terminate, account
  <2>5. ASSUME NEW t \in Threads, HandlerStep(t) PROVE attempts' = attempts
    BY <2>1, <2>5, HandlerMoves
  <2>6. CASE Environment
    BY <2>2, <2>6 DEF Environment, Die, PowerLoss, Drop, CallerLate,
                      OwnerOverdue, Request, account
  <2>7. QED
    BY <2>1, <2>2, <2>3, <2>4, <2>5, <2>6 DEF Next
<1>2. QED
  BY <1>1, Inductive, PTL DEF Spec, ClearedByVerification

-----------------------------------------------------------------------------
(* Whose failures count.  A handler enters a recovery by a failure of its    *)
(* own, and while it is there or in its login nobody else can replace the    *)
(* session, because that takes the lock.                                     *)
Recovering == {"recover", "rebuild", "login", "connecting"}

(* The ghost only grows, or is emptied by the login of its handler, by the   *)
(* end of the handler's request or by the end of the process.                *)
LEMMA LossKept ==
  IInv /\ OneLoginPerLoss /\ [Next]_vars => OneLoginPerLoss'
<1> SUFFICES ASSUME IInv, OneLoginPerLoss, [Next]_vars PROVE OneLoginPerLoss'
  OBVIOUS
<1> USE PartyAssumption DEF Party
<1>1. pc \in [Party -> MainPC \cup ThreadPC \cup LoginPC]
  BY DEF IInv, TypeOK
<1>2. \A t \in Threads : pc[t] \in Recovering => t \in failedOn
  BY DEF OneLoginPerLoss, Recovering
<1>3. ASSUME \A t \in Threads : pc'[t] \in Recovering => t \in failedOn'
      PROVE  OneLoginPerLoss'
  BY <1>3 DEF OneLoginPerLoss, Recovering
<1>4. ASSUME NEW p \in Party, LoginStep(p)
      PROVE  \A t \in Threads : pc'[t] \in Recovering => t \in failedOn'
  <2>1. PICK to \in LoginPC \cup {"serve", "retry", "release"} :
          pc' = [pc EXCEPT ![p] = to]
    BY <1>4, LoginMoves
  <2>2. pc'[p] = to /\ \A q \in Party \ {p} : pc'[q] = pc[q]
    BY <1>1, <2>1
  <2>3. Busy(p)
    BY <1>4, LoginIsBusy
  <2>4. CASE Connected(p)
    <3>1. to = "verify"
      BY <1>1, <2>2, <2>4 DEF Connected, Goto
    <3>2. ASSUME NEW t \in Threads, t # p PROVE pc[t] \notin Recovering
      <4>1. ~Busy(t)
        BY <2>3, <3>2, Alone DEF IInv
      <4>2. QED
        BY <4>1 DEF Busy, Critical, ThreadPC, LoginPC, Recovering
    <3>3. QED
      BY <2>2, <3>1, <3>2 DEF Recovering
  <2>5. CASE ~Connected(p)
    <3>1. failedOn' = failedOn
      BY <1>4, <2>5 DEF LoginStep, BeginLogin, BeginFails, BeginApproved, Login,
           LoginWithheld, LoginFails, Verified, Clear, ClearFails, ArmLatch
    <3>2. p # Main /\ to \in Recovering => pc[p] \in Recovering
      BY <1>1, <1>4, <2>2, <2>5
      DEF LoginStep, BeginLogin, BeginFails, BeginApproved, Approved, Unattended,
          Login, LoginWithheld, LoginFails, Verified, Clear, Continue, ClearFails,
          ArmLatch, Goto, Recovering, LoginPC, IInv, Places, Requests
    <3>3. QED
      BY <1>2, <2>2, <3>1, <3>2
  <2>6. QED
    BY <2>4, <2>5
<1>5. ASSUME NEW t \in Threads, HandlerStep(t)
      PROVE  \A u \in Threads : pc'[u] \in Recovering => u \in failedOn'
  <2>1. PICK to \in ThreadPC \cup {"latch"} : pc' = [pc EXCEPT ![t] = to]
    BY <1>5, HandlerMoves
  <2>2. pc'[t] = to /\ \A q \in Party \ {t} : pc'[q] = pc[q]
    BY <1>1, <2>1
  <2>3. CASE Broken(t)
    <3>1. failedOn' = failedOn \cup {t}
      BY <2>3 DEF Broken
    <3>2. QED
      BY <1>2, <2>2, <3>1
  <2>4. CASE Rebuild(t)
    <3>1. failedOn' = failedOn /\ pc[t] = "recover"
      BY <2>4 DEF Rebuild, Step
    <3>2. QED
      BY <1>2, <2>2, <3>1 DEF Recovering
  <2>5. CASE ClearOwner(t)
    <3>1. failedOn' = failedOn \ {t} /\ to = "unlock"
      BY <1>1, <2>2, <2>5 DEF ClearOwner, Goto
    <3>2. QED
      BY <1>2, <2>2, <3>1 DEF Recovering
  <2>6. CASE TakeLock(t) \/ QueueTimeout(t) \/ AnswerBusy(t) \/ Own(t) \/ ReleaseLock(t)
    <3>1. failedOn' = failedOn /\ to \notin Recovering
      BY <1>1, <2>2, <2>6 DEF TakeLock, QueueTimeout, AnswerBusy, Own, ReleaseLock,
           Goto, Recovering
    <3>2. QED
      BY <1>2, <2>2, <3>1
  <2>7. CASE \/ RefuseLatched(t) \/ Answered(t) \/ QueryError(t) \/ Rejected(t)
             \/ Expired(t) \/ RecoverLatched(t) \/ RolledBack(t) \/ OptedOut(t)
             \/ RetryBroken(t)
    <3>1. failedOn' = failedOn
      BY <2>7 DEF RefuseLatched, Answered, QueryError, Rejected, Expired,
           RecoverLatched, RolledBack, OptedOut, RetryBroken, Same
    <3>2. to \in {"release", "latch", "retry"}
      BY <1>1, <2>2, <2>7 DEF RefuseLatched, Answered, QueryError, Rejected, Expired,
           RecoverLatched, RolledBack, OptedOut, RetryBroken, Step, Goto
    <3>3. QED
      BY <1>2, <2>2, <3>1, <3>2 DEF Recovering
  <2>8. QED
    BY <1>5, <2>3, <2>4, <2>5, <2>6, <2>7 DEF HandlerStep
<1>6. ASSUME Forget PROVE \A t \in Threads : pc'[t] \notin Recovering
  BY <1>6 DEF Forget, Recovering
<1>7. CASE MainStep
  <2>1. ASSUME \/ \E kind \in {"auto", "operator"} : Start(kind)
               \/ ReadLatch \/ Bind \/ Terminate
        PROVE  OneLoginPerLoss'
    <3>1. /\ failedOn' = failedOn
          /\ \E to \in {"read", "bind", "arm", "stopping"} :
               pc' = [pc EXCEPT ![Main] = to]
      BY <2>1 DEF Start, ReadLatch, Bind, Terminate, Goto
    <3>2. QED
      BY <1>1, <1>2, <1>3, <3>1
  <2>2. QED
    BY <1>3, <1>6, <1>7, <2>1 DEF MainStep, Refuse, ApprovedStartFails
<1>8. CASE Environment
  <2>1. ASSUME Drop \/ \E t \in Threads : CallerLate(t) \/ OwnerOverdue(t)
        PROVE  OneLoginPerLoss'
    <3>1. pc' = pc /\ failedOn' = failedOn
      BY <2>1 DEF Drop, CallerLate, OwnerOverdue
    <3>2. QED
      BY <1>2, <1>3, <3>1
  <2>2. ASSUME NEW t \in Threads, NEW kind \in Requests, Request(t, kind)
        PROVE  OneLoginPerLoss'
    <3>1. /\ failedOn' = failedOn
          /\ \E to \in {"pinged", "queued"} : pc' = [pc EXCEPT ![t] = to]
      BY <2>2 DEF Request, Goto
    <3>2. QED
      BY <1>1, <1>2, <1>3, <3>1 DEF Recovering
  <2>3. QED
    BY <1>3, <1>6, <1>8, <2>1, <2>2 DEF Environment, Die, PowerLoss
<1>9. CASE UNCHANGED vars
  BY <1>2, <1>3, <1>9 DEF vars
<1>10. QED
  BY <1>3, <1>4, <1>5, <1>7, <1>8, <1>9 DEF Next

(* Whoever gives the session up and logs in has failed on that very session  *)
(* within the same request: two handlers behind one loss cost one login.     *)
THEOREM OneLoginPerLossHolds == Spec => []OneLoginPerLoss
<1>1. Init => OneLoginPerLoss
  BY DEF Init, OneLoginPerLoss, Party
<1>2. IInv /\ OneLoginPerLoss /\ [Next]_vars => OneLoginPerLoss'
  BY LossKept
<1>3. QED
  BY <1>1, <1>2, Inductive, PTL DEF Spec

-----------------------------------------------------------------------------
(* The steps that send, settle or arm are the abstract ones. *)
LEMMA LoginStepRefines ==
  ASSUME IInv, NEW p \in Party, LoginStep(p)
  PROVE  [Account!Next]_(Account!vars)
<1>1. /\ \A q \in Party : q # p => pc[q] # "login"
      /\ pc \in [Party -> MainPC \cup ThreadPC \cup LoginPC]
  BY OthersElsewhere, LoginIsBusy DEF IInv, TypeOK, LoginPC
<1>2. ASSUME NEW to, pc' = [pc EXCEPT ![p] = to]
      PROVE  /\ pc[p] = "login" => Armed = TRUE
             /\ pc[p] # "login" => Armed = FALSE
             /\ to = "login" => Armed' = TRUE
             /\ to # "login" => Armed' = FALSE
  BY <1>1, <1>2 DEF Armed
<1> USE DEF Account!Next, Account!vars
<1>3. CASE BeginLogin(p)
  <2>1. /\ latch = "none" /\ pc[p] # "login"
        /\ pc' = [pc EXCEPT ![p] = "login"]
        /\ attempts' = attempts /\ approvals' = approvals
    BY <1>3 DEF BeginLogin, Unattended, Goto, account
  <2>2. attempts = 0
    BY <2>1 DEF IInv, WriteAhead, TypeOK
  <2>3. Armed = FALSE /\ Armed' = TRUE
    BY <1>2, <2>1
  <2>4. QED
    BY <2>1, <2>2, <2>3 DEF Account!Arm
<1>4. CASE BeginApproved(p)
  <2>1. /\ pc[p] # "login" /\ pc' = [pc EXCEPT ![p] = "login"]
        /\ attempts' = attempts /\ approvals' = approvals + 1
    BY <1>4 DEF BeginApproved, Approved, Goto
  <2>2. Armed = FALSE /\ Armed' = TRUE
    BY <1>2, <2>1
  <2>3. QED
    BY <2>1, <2>2 DEF Account!ArmApproved
<1>5. CASE Login(p)
  <2>1. /\ pc[p] = "login" /\ pc' = [pc EXCEPT ![p] = "connecting"]
        /\ "connecting" # "login" /\ pc[p] \in {"login", "verify"}
        /\ attempts' = attempts + 1 /\ approvals' = approvals
    BY <1>5 DEF Login, Goto
  <2>2. Armed = TRUE /\ Armed' = FALSE
    BY <1>2, <2>1
  <2>3. QED
    BY <2>1, <2>2 DEF Account!Send
<1>6. CASE LoginWithheld(p)
  <2>1. /\ pc[p] = "login" /\ pc' = [pc EXCEPT ![p] = "latch"]
        /\ "latch" # "login" /\ pc[p] \in {"login", "verify"}
        /\ attempts' = attempts /\ approvals' = approvals
    BY <1>6 DEF LoginWithheld, Goto, account
  <2>2. Armed = TRUE /\ Armed' = FALSE
    BY <1>2, <2>1
  <2>3. QED
    BY <2>1, <2>2 DEF Account!Disarm
<1>7. CASE Verified(p)
  <2>1. /\ pc[p] = "verify" /\ pc' = [pc EXCEPT ![p] = "clear"]
        /\ "clear" # "login" /\ pc[p] \in {"login", "verify"}
        /\ attempts' = 0 /\ approvals' = 0
    BY <1>7 DEF Verified, Goto
  <2>2. Armed = FALSE /\ Armed' = FALSE
    BY <1>2, <2>1
  <2>3. QED
    BY <2>1, <2>2 DEF Account!Settle
<1>8. CASE \/ BeginFails(p) \/ Connected(p) \/ LoginFails(p)
           \/ Clear(p) \/ ClearFails(p) \/ ArmLatch(p)
  <2>1. /\ pc[p] # "login" /\ attempts' = attempts /\ approvals' = approvals
        /\ \E to \in {"latch", "verify", "serve", "retry", "release"} :
             pc' = [pc EXCEPT ![p] = to]
    BY <1>8 DEF BeginFails, Unattended, Connected, LoginFails, Clear, Continue,
                ClearFails, ArmLatch, Goto, account, IInv, Places, Party, Requests
  <2>2. Armed = FALSE /\ Armed' = FALSE
    BY <1>2, <2>1
  <2>3. QED
    BY <2>1, <2>2
<1>9. QED
  BY <1>3, <1>4, <1>5, <1>6, <1>7, <1>8 DEF LoginStep

(* A process that ended no longer has a login armed. *)
LEMMA ForgetRefines ==
  ASSUME Forget, UNCHANGED account PROVE [Account!Next]_(Account!vars)
<1>1. Armed' = FALSE
  <2>1. \A p \in Party : pc'[p] # "login"
    BY DEF Forget
  <2>2. QED
    BY <2>1 DEF Armed
<1>2. Armed \in BOOLEAN
  BY DEF Armed
<1>3. CASE Armed = TRUE
  BY <1>1, <1>3 DEF Account!Next, Account!Disarm, account
<1>4. CASE Armed = FALSE
  BY <1>1, <1>4 DEF Account!vars, account
<1>5. QED
  BY <1>2, <1>3, <1>4

(* A step that neither enters nor leaves "login" is invisible. *)
LEMMA QuietRefines ==
  ASSUME TypeOK, NEW p \in Party, NEW to,
         pc' = [pc EXCEPT ![p] = to], pc[p] # "login", to # "login",
         UNCHANGED account
  PROVE  [Account!Next]_(Account!vars)
<1>1. \A q \in Party : pc'[q] = "login" <=> pc[q] = "login"
  BY DEF TypeOK
<1>2. Armed' = Armed
  BY <1>1 DEF Armed
<1>3. QED
  BY <1>2 DEF Account!vars, account

LEMMA StepRefines == IInv /\ [Next]_vars => [Account!Next]_(Account!vars)
<1> SUFFICES ASSUME IInv, [Next]_vars PROVE [Account!Next]_(Account!vars)
  OBVIOUS
<1>1. TypeOK
  BY DEF IInv
<1>2. CASE UNCHANGED vars
  BY <1>2 DEF vars, account, Account!vars, Armed
<1>3. CASE MainStep
  <2>1. CASE Refuse \/ ApprovedStartFails
    BY <2>1, ForgetRefines DEF Refuse, ApprovedStartFails
  <2>2. CASE (\E kind \in {"auto", "operator"} : Start(kind))
             \/ ReadLatch \/ Bind \/ Terminate
    <3>1. /\ pc[Main] # "login" /\ UNCHANGED account
          /\ \E to \in {"read", "bind", "arm", "stopping"} :
               pc' = [pc EXCEPT ![Main] = to]
      BY <2>2 DEF Start, ReadLatch, Bind, Terminate, Goto
    <3>2. QED
      BY <1>1, <3>1, QuietRefines DEF Party
  <2>3. QED
    BY <1>3, <2>1, <2>2 DEF MainStep
<1>4. CASE \E p \in Party : LoginStep(p)
  BY <1>4, LoginStepRefines
<1>5. ASSUME NEW t \in Threads, HandlerStep(t)
      PROVE  [Account!Next]_(Account!vars)
  <2>1. /\ pc[t] # "login" /\ UNCHANGED account
        /\ \E to \in ThreadPC \cup {"latch"} : pc' = [pc EXCEPT ![t] = to]
    BY <1>5, HandlerMoves DEF ThreadPC, account
  <2>2. QED
    BY <1>1, <2>1, QuietRefines DEF Party, ThreadPC
<1>6. CASE Environment
  <2>1. CASE Die \/ PowerLoss
    BY <2>1, ForgetRefines DEF Die, PowerLoss
  <2>2. CASE Drop \/ \E t \in Threads : CallerLate(t) \/ OwnerOverdue(t)
    <3>1. UNCHANGED <<pc, account>>
      BY <2>2 DEF Drop, CallerLate, OwnerOverdue
    <3>2. QED
      BY <3>1 DEF account, Account!vars, Armed
  <2>3. ASSUME NEW t \in Threads, NEW kind \in Requests, Request(t, kind)
        PROVE  [Account!Next]_(Account!vars)
    <3>1. /\ pc[t] # "login" /\ UNCHANGED account
          /\ \E to \in {"pinged", "queued"} : pc' = [pc EXCEPT ![t] = to]
      BY <2>3 DEF Request, Goto
    <3>2. QED
      BY <1>1, <3>1, QuietRefines DEF Party
  <2>4. QED
    BY <1>6, <2>1, <2>2, <2>3 DEF Environment
<1>7. QED
  BY <1>2, <1>3, <1>4, <1>5, <1>6 DEF Next

(* The daemon implements the promise made for the user's account. *)
THEOREM KeepsLoginPromise == Spec => LoginPromise
<1>1. Init => Account!Init
  <2>1. SUFFICES ASSUME Init PROVE Account!Init
    OBVIOUS
  <2>2. attempts = 0 /\ approvals = 0
    BY <2>1 DEF Init
  <2>3. \A p \in Party : pc[p] # "login"
    <3>1. pc = [p \in Party |-> IF p = Main THEN "down" ELSE "idle"]
      BY <2>1 DEF Init
    <3>2. QED
      BY <3>1
  <2>4. Armed = FALSE
    BY <2>3 DEF Armed
  <2>5. QED
    BY <2>2, <2>4 DEF Account!Init
<1>2. IInv /\ [Next]_vars => [Account!Next]_(Account!vars)
  BY StepRefines
<1>3. QED
  BY <1>1, <1>2, Inductive, PTL DEF Spec, LoginPromise, Account!Spec
=============================================================================
