---------------------------- MODULE UpdaterProofs ----------------------------
(***************************************************************************)
(* Proofs about Updater, for any number of updates, sessions and faults.   *)
(*                                                                         *)
(* What keeps main under the project lock is the guardian: it starts the   *)
(* body, and leaves only when nobody of the body's group lives.  A dead    *)
(* guardian is replaced by nobody, but the shell then still waits for the  *)
(* body and holds the lock, as long as nothing else goes wrong: that is    *)
(* Calm, how launcher, owner, supervisor, shell and body fit together      *)
(* while there has been no fault.  Kept joins the two, and holds if a      *)
(* guardian that dies before its group is the only fault so far.  Without  *)
(* that hypothesis it is false: a guardian killed and then an interrupt,   *)
(* which ends the shell, leave main without a lock.                        *)
(*                                                                         *)
(* The lock is exclusive, so the main that writes is the only one, and     *)
(* what it has done to the project stands (Written) until the lock goes.   *)
(***************************************************************************)
EXTENDS Updater, TLAPS

\* Processes, the domain of a record, spelled out for the provers.
Names == {"launcher", "owner", "supervisor", "shell", "guardian", "body", "main"}

LEMMA ProcessNames == Processes = Names
  BY DEF Processes, Places, Names

Place == UNION {Places[p] : p \in Names}

\* Every process is at a place of its own program.
Sited ==
  /\ at \in [Updates -> [Names -> Place]]
  /\ \A u \in Updates : \A p \in Names : at[u][p] \in Places[p]

\* The types of what the steps of one update read and write.
Shaped ==
  /\ Sited
  /\ sent \in [Updates -> SUBSET Messages]
  /\ snapshot \in [Updates -> {"absent", "present", "left"}]
  /\ faults \in 0..MaxFaults

\* Who has not been started by the one before it has not begun.
InOrder(u) ==
  /\ at[u].launcher \in {"none", "locked"} => at[u].owner = "none"
  /\ at[u].launcher \in {"naming", "copying"} => at[u].owner # "none"
  /\ at[u].launcher \in {"none", "locked", "naming", "copying"} => at[u].supervisor = "none"
  /\ at[u].supervisor # "none" => at[u].owner # "none"
  /\ at[u].supervisor \in {"none", "starting"} => at[u].shell = "none"
  /\ at[u].shell \in {"none", "starting"} => at[u].guardian = "none"
  /\ at[u].shell \in {"none", "starting", "forking"} => at[u].body = "none"
  /\ at[u].body \in {"none", "forked", "waiting"} => at[u].main = "none"

\* The places of the processes of u become those of b; the other updates stay.
Becomes(u, b) ==
  /\ Sited'
  /\ \A p \in Names : at'[u][p] = b[p]
  /\ \A v \in Updates : v # u => at'[v] = at[v]

\* Every process may end.
LEMMA EndedPlaces ==
  \A p \in Names : Ended \subseteq Places[p] /\ Ended \subseteq Place
  <1>1. \A p \in Names : Ended \subseteq Places[p]
    BY DEF Names, Places
  <1> QED
    BY <1>1 DEF Place

\* Killed gives every process a place of its own.
LEMMA KilledPlaces ==
  ASSUME Sited, NEW u \in Updates, NEW ps
  PROVE  /\ Killed(u, ps) \in [Names -> Place]
         /\ \A p \in Names : /\ Killed(u, ps)[p] = IF p \in ps /\ Alive(u, p) THEN "failed" ELSE at[u][p]
                             /\ Killed(u, ps)[p] \in Places[p]
  BY ProcessNames, EndedPlaces DEF Sited, Killed, Ended

\* A shell that is stopped has a place of its own.
LEMMA StoppedPlace ==
  ASSUME Sited, NEW u \in Updates
  PROVE  Stopped(u) \in Places["shell"]
  BY EndedPlaces DEF Sited, Stopped, Names, Ended

\* A change of the places of u into proper ones is Becomes.
LEMMA Changed ==
  ASSUME Sited, NEW u \in Updates, NEW b \in [Names -> Place],
         \A p \in Names : b[p] \in Places[p], at' = [at EXCEPT ![u] = b]
  PROVE  Becomes(u, b)
  BY DEF Sited, Becomes

\* One process of u moves; in MovesBoth, two.
Moves(u, p, x) ==
  /\ Sited'
  /\ \A v \in Updates : v # u => at'[v] = at[v]
  /\ \A q \in Names : at'[u][q] = IF q = p THEN x ELSE at[u][q]

MovesBoth(u, p, x, r, y) ==
  /\ Sited'
  /\ \A v \in Updates : v # u => at'[v] = at[v]
  /\ \A q \in Names : at'[u][q] = IF q = r THEN y ELSE IF q = p THEN x ELSE at[u][q]

\* Move and MoveBoth, as the equations the step lemmas use.
LEMMA MoveMoves ==
  ASSUME Sited, NEW u \in Updates, NEW p \in Names, NEW x \in Places[p], Move(u, p, x)
  PROVE  Moves(u, p, x)
  <1> DEFINE b == [at[u] EXCEPT ![p] = x]
  <1>1. b \in [Names -> Place] /\ \A q \in Names : b[q] = IF q = p THEN x ELSE at[u][q]
    BY DEF Sited, Place
  <1>2. at' = [at EXCEPT ![u] = b]
    BY DEF Move
  <1>3. \A q \in Names : b[q] \in Places[q]
    BY <1>1 DEF Sited
  <1>4. Becomes(u, b)
    <2> HIDE DEF b
    <2> QED BY <1>1, <1>2, <1>3, Changed
  <1> QED
    BY <1>1, <1>4 DEF Becomes, Moves

LEMMA MoveBothMoves ==
  ASSUME Sited, NEW u \in Updates, NEW p \in Names, NEW x \in Places[p],
         NEW r \in Names, NEW y \in Places[r], MoveBoth(u, p, x, r, y)
  PROVE  MovesBoth(u, p, x, r, y)
  <1> DEFINE b == [at[u] EXCEPT ![p] = x, ![r] = y]
  <1>1. b \in [Names -> Place] /\ \A q \in Names : b[q] = IF q = r THEN y ELSE IF q = p THEN x ELSE at[u][q]
    BY DEF Sited, Place
  <1>2. at' = [at EXCEPT ![u] = b]
    BY DEF MoveBoth, Sited
  <1>3. \A q \in Names : b[q] \in Places[q]
    BY <1>1 DEF Sited
  <1>4. Becomes(u, b)
    <2> HIDE DEF b
    <2> QED BY <1>1, <1>2, <1>3, Changed
  <1> QED
    BY <1>1, <1>4 DEF Becomes, MovesBoth

\* One more message is in the pipes of u.
Sends(u, m) ==
  /\ sent' \in [Updates -> SUBSET Messages]
  /\ \A x : x \in sent'[u] <=> (x \in sent[u] \/ x = m)
  /\ \A v \in Updates : v # u => sent'[v] = sent[v]

LEMMA SendSends ==
  ASSUME sent \in [Updates -> SUBSET Messages], NEW u \in Updates, NEW m \in Messages, Send(u, m)
  PROVE  Sends(u, m)
  BY DEF Send, Sends

\* The snapshot is there as long as somebody holds the lock who was started
\* from it; an owner that ended well has removed it.
Copied(u) ==
  /\ at[u].launcher \in {"copying", "spawning", "handing"} => snapshot[u] = "present"
  /\ at[u].supervisor \in {"starting", "reporting"} => snapshot[u] = "present"
  /\ Alive(u, "shell") => snapshot[u] = "present"
  /\ Alive(u, "guardian") => snapshot[u] = "present"
  /\ at[u].owner = "ok" => snapshot[u] = "absent"

\* Success is passed on, from main to the body and from shell to supervisor.
Reported(u) ==
  /\ at[u].body \in {"reporting", "ending", "ok"} => Over(u, "main")
  /\ at[u].body = "ok" => at[u].main = "ok"
  /\ at[u].supervisor \in {"cleaning", "ok"} => at[u].shell = "ok"

\* Main runs, or may be started.
Busy(u) == at[u].body = "running" \/ Alive(u, "main")

\* What holds in every update whatever is killed.
Local(u) ==
  /\ InOrder(u)
  /\ Copied(u)
  /\ Reported(u)
  /\ "spawned" \in sent[u] => at[u].supervisor \notin {"none", "starting", "reporting"}
  /\ "pid" \in sent[u] => at[u].body \notin {"none", "forked"}
  /\ at[u].guardian = "listening" => at[u].body \in {"none", "forked", "waiting", "failed"}
  /\ "complete" \in sent[u] => at[u].body \notin {"none", "forked", "waiting"} /\ ~Busy(u)

\* How the processes fit together while there is no fault: the launcher waits
\* for the owner and the supervisor, the supervisor for the shell, the shell
\* for the body, the body for main.
Calm(u) ==
  /\ at[u].launcher \in {"none", "locked", "naming", "copying", "spawning"} =>
       "handoff" \notin sent[u]
  /\ at[u].launcher = "naming" => at[u].owner \in {"creating", "guarding"}
  /\ at[u].launcher \in {"copying", "spawning"} => at[u].owner = "guarding"
  /\ at[u].launcher = "spawning" =>
       "spawned" \in sent[u] \/ at[u].supervisor \in {"starting", "reporting"}
  /\ at[u].launcher = "handing" => at[u].owner \in {"guarding", "acking"} \/ "ack" \in sent[u]
  /\ at[u].supervisor = "starting" => at[u].launcher = "spawning"
  /\ Alive(u, "shell") => /\ at[u].launcher \in {"spawning", "handing", "waiting"}
                          /\ at[u].supervisor \in {"reporting", "watching"}
  /\ Alive(u, "body") => at[u].shell \in {"arming", "waiting"}
  /\ Alive(u, "main") => at[u].body = "running"

\* Main has its guardian, or that is what the one fault has taken.
Kept(u) ==
  Busy(u) => \/ at[u].guardian \in {"guarding", "killing"}
             \/ at[u].guardian = "failed" /\ faults = 1 /\ Calm(u)

\* Locked, without the quantifier over processes, before and after a step.
LEMMA LockPlaces ==
  /\ \A u \in Updates : Locked(u) <=>
       \/ at[u].launcher \in {"locked", "naming", "copying", "spawning", "handing"}
       \/ at[u].supervisor \in {"starting", "reporting"}
       \/ Alive(u, "shell") \/ Alive(u, "guardian")
  /\ \A u \in Updates : Locked(u)' <=>
       \/ at'[u].launcher \in {"locked", "naming", "copying", "spawning", "handing"}
       \/ at'[u].supervisor \in {"starting", "reporting"}
       \/ Alive(u, "shell")' \/ Alive(u, "guardian")'
  BY ProcessNames DEF Locked, HoldsLock, Names

\* The shell takes its success from the body, the launcher its from the owner
\* and the supervisor.
Earned(u) ==
  /\ at[u].shell # "ok" /\ at'[u].shell = "ok" => Alive(u, "shell") /\ at[u].body = "ok"
  /\ at[u].launcher # "ok" /\ at'[u].launcher = "ok" =>
       at[u].owner = "ok" /\ at[u].supervisor = "ok"

\* What a step of u that is no fault does to the invariants.
Effect(u) ==
  /\ Shaped'
  /\ Local(u)'
  /\ Calm(u) => Calm(u)'
  /\ Kept(u) => Kept(u)'
  /\ Earned(u)
  /\ UNCHANGED <<sessions, faults>>
  /\ \A v \in Updates : v # u => /\ at'[v] = at[v]
                                 /\ sent'[v] = sent[v]
                                 /\ snapshot'[v] = snapshot[v]

\* No lock is gained.
KeepsLock(u) == Locked(u)' => Locked(u)

\* The project stays; main may be started or ended.
LeavesProject(u) ==
  /\ UNCHANGED project
  /\ workspaces' \subseteq workspaces
  /\ \/ at'[u].main = at[u].main
     \/ at'[u].main = "failed"
     \/ at[u].main = "none" /\ at'[u].main = "checking"

\* The launcher keeps the invariants of its update.
LEMMA LauncherStep ==
  ASSUME Shaped, NEW u \in Updates, Local(u), Launcher(u)
  PROVE  Effect(u) /\ KeepsLock(u) /\ LeavesProject(u)
  <1>1. CASE StartOwner(u)
    <2>1. MovesBoth(u, "launcher", "naming", "owner", "creating")
      BY <1>1, MoveBothMoves DEF StartOwner, Shaped, Names, Places, Ended
    <2> QED
      BY <1>1, <2>1, LockPlaces DEF StartOwner, MovesBoth, Names, Shaped, Effect,
         Earned, KeepsLock, LeavesProject, Local, InOrder, Copied, Reported, Busy, Calm,
         Kept, Alive, Over, Ended, LauncherGone
  <1>2. CASE ReadName(u)
    <2>1. Moves(u, "launcher", IF snapshot[u] = "present" THEN "copying" ELSE "failed")
      BY <1>2, MoveMoves DEF ReadName, Shaped, Names, Places, Ended
    <2> QED
      BY <1>2, <2>1, LockPlaces DEF ReadName, Moves, Names, Shaped, Effect, Earned,
         KeepsLock, LeavesProject, Local, InOrder, Copied, Reported, Busy, Calm, Kept,
         Alive, Over, Ended, LauncherGone
  <1>3. CASE CopySource(u)
    <2>1. CASE MoveBoth(u, "launcher", "spawning", "supervisor", "starting")
      <3>1. MovesBoth(u, "launcher", "spawning", "supervisor", "starting")
        BY <1>3, <2>1, MoveBothMoves DEF CopySource, Shaped, Names, Places, Ended
      <3> QED
        BY <1>3, <2>1, <3>1, LockPlaces DEF CopySource, MovesBoth, Names, Shaped,
           Effect, Earned, KeepsLock, LeavesProject, Local, InOrder, Copied, Reported,
           Busy, Calm, Kept, Alive, Over, Ended, LauncherGone
    <2>2. CASE Move(u, "launcher", "failed")
      <3>1. Moves(u, "launcher", "failed")
        BY <1>3, <2>2, MoveMoves DEF CopySource, Shaped, Names, Places, Ended
      <3> QED
        BY <1>3, <2>2, <3>1, LockPlaces DEF CopySource, Moves, Names, Shaped, Effect,
           Earned, KeepsLock, LeavesProject, Local, InOrder, Copied, Reported, Busy,
           Calm, Kept, Alive, Over, Ended, LauncherGone
    <2> QED
      BY <1>3, <2>1, <2>2 DEF CopySource
  <1>4. CASE HandOff(u)
    <2>1. CASE "spawned" \in sent[u] /\ Alive(u, "owner")
      <3>1. Moves(u, "launcher", "handing")
        BY <1>4, <2>1, MoveMoves DEF HandOff, Shaped, Names, Places, Ended
      <3>2. Sends(u, "handoff")
        BY <1>4, <2>1, SendSends DEF HandOff, Shaped, Messages
      <3> QED
        BY <1>4, <2>1, <3>1, <3>2, LockPlaces, SMTT(30) DEF HandOff, Moves, Sends,
           Names, Shaped, Effect, Earned, KeepsLock, LeavesProject, Local, InOrder,
           Copied, Reported, Busy, Calm, Kept, Alive, Over, Ended, LauncherGone
    <2>2. CASE ~("spawned" \in sent[u] /\ Alive(u, "owner"))
      <3>1. Moves(u, "launcher", "failed")
        BY <1>4, <2>2, MoveMoves DEF HandOff, Shaped, Names, Places, Ended
      <3> QED
        BY <1>4, <2>2, <3>1, LockPlaces DEF HandOff, Moves, Names, Shaped, Effect,
           Earned, KeepsLock, LeavesProject, Local, InOrder, Copied, Reported, Busy,
           Calm, Kept, Alive, Over, Ended, LauncherGone
    <2> QED
      BY <1>4, <2>1, <2>2 DEF HandOff
  <1>5. CASE HandedOff(u)
    <2>1. CASE "ack" \in sent[u]
      <3>1. Moves(u, "launcher", "waiting")
        BY <1>5, <2>1, MoveMoves DEF HandedOff, Shaped, Names, Places, Ended
      <3>2. Sends(u, "dotenv")
        BY <1>5, <2>1, SendSends DEF HandedOff, Shaped, Messages
      <3> QED
        BY <1>5, <2>1, <3>1, <3>2, LockPlaces, SMTT(30) DEF HandedOff, Moves, Sends,
           Names, Shaped, Effect, Earned, KeepsLock, LeavesProject, Local, InOrder,
           Copied, Reported, Busy, Calm, Kept, Alive, Over, Ended, LauncherGone
    <2>2. CASE "ack" \notin sent[u]
      <3>1. Moves(u, "launcher", "failed")
        BY <1>5, <2>2, MoveMoves DEF HandedOff, Shaped, Names, Places, Ended
      <3> QED
        BY <1>5, <2>2, <3>1, LockPlaces DEF HandedOff, Moves, Names, Shaped, Effect,
           Earned, KeepsLock, LeavesProject, Local, InOrder, Copied, Reported, Busy,
           Calm, Kept, Alive, Over, Ended, LauncherGone
    <2> QED
      BY <1>5, <2>1, <2>2 DEF HandedOff
  <1>6. CASE CloseLiveness(u)
    <2>1. Moves(u, "launcher", "closing")
      BY <1>6, MoveMoves DEF CloseLiveness, Shaped, Names, Places, Ended
    <2> QED
      BY <1>6, <2>1, LockPlaces DEF CloseLiveness, Moves, Names, Shaped, Effect, Earned,
         KeepsLock, LeavesProject, Local, InOrder, Copied, Reported, Busy, Calm, Kept,
         Alive, Over, Ended, LauncherGone
  <1>7. CASE Return(u)
    <2>1. Moves(u, "launcher", IF at[u].owner = "ok" /\ at[u].supervisor = "ok" THEN "ok" ELSE "failed")
      BY <1>7, MoveMoves DEF Return, Shaped, Names, Places, Ended
    <2> QED
      BY <1>7, <2>1, LockPlaces DEF Return, Moves, Names, Shaped, Effect, Earned,
         KeepsLock, LeavesProject, Local, InOrder, Copied, Reported, Busy, Calm, Kept,
         Alive, Over, Ended, LauncherGone
  <1> QED
    BY <1>1, <1>2, <1>3, <1>4, <1>5, <1>6, <1>7 DEF Launcher

\* The owner of the snapshot keeps the invariants of its update.
LEMMA OwnerStep ==
  ASSUME Shaped, NEW u \in Updates, Local(u), Owner(u)
  PROVE  Effect(u) /\ KeepsLock(u) /\ LeavesProject(u)
  <1>1. CASE CreateSnapshot(u)
    <2>1. Moves(u, "owner", IF LauncherGone(u) THEN "removing" ELSE "guarding")
      BY <1>1, MoveMoves DEF CreateSnapshot, Shaped, Names, Places, Ended
    <2> QED
      BY <1>1, <2>1, LockPlaces DEF CreateSnapshot, Moves, Names, Shaped, Effect,
         Earned, KeepsLock, LeavesProject, Local, InOrder, Copied, Reported, Busy, Calm,
         Kept, Alive, Over, Ended, LauncherGone
  <1>2. CASE GuardSnapshot(u)
    <2>1. CASE "handoff" \in sent[u]
      <3>1. Moves(u, "owner", "acking")
        BY <1>2, <2>1, MoveMoves DEF GuardSnapshot, Shaped, Names, Places, Ended
      <3> QED
        BY <1>2, <2>1, <3>1, LockPlaces DEF GuardSnapshot, Moves, Names, Shaped, Effect,
           Earned, KeepsLock, LeavesProject, Local, InOrder, Copied, Reported, Busy,
           Calm, Kept, Alive, Over, Ended, LauncherGone
    <2>2. CASE "handoff" \notin sent[u]
      <3>1. Moves(u, "owner", "removing")
        BY <1>2, <2>2, MoveMoves DEF GuardSnapshot, Shaped, Names, Places, Ended
      <3> QED
        BY <1>2, <2>2, <3>1, LockPlaces DEF GuardSnapshot, Moves, Names, Shaped, Effect,
           Earned, KeepsLock, LeavesProject, Local, InOrder, Copied, Reported, Busy,
           Calm, Kept, Alive, Over, Ended, LauncherGone
    <2> QED
      BY <1>2, <2>1, <2>2 DEF GuardSnapshot
  <1>3. CASE Acknowledge(u)
    <2>1. CASE ~LauncherGone(u)
      <3>1. Moves(u, "owner", "handed")
        BY <1>3, <2>1, MoveMoves DEF Acknowledge, Shaped, Names, Places, Ended
      <3>2. Sends(u, "ack")
        BY <1>3, <2>1, SendSends DEF Acknowledge, Shaped, Messages
      <3> QED
        BY <1>3, <2>1, <3>1, <3>2, LockPlaces, SMTT(30) DEF Acknowledge, Moves, Sends,
           Names, Shaped, Effect, Earned, KeepsLock, LeavesProject, Local, InOrder,
           Copied, Reported, Busy, Calm, Kept, Alive, Over, Ended, LauncherGone
    <2>2. CASE LauncherGone(u)
      <3>1. Moves(u, "owner", "failed")
        BY <1>3, <2>2, MoveMoves DEF Acknowledge, Shaped, Names, Places, Ended
      <3> QED
        BY <1>3, <2>2, <3>1, LockPlaces DEF Acknowledge, Moves, Names, Shaped, Effect,
           Earned, KeepsLock, LeavesProject, Local, InOrder, Copied, Reported, Busy,
           Calm, Kept, Alive, Over, Ended, LauncherGone
    <2> QED
      BY <1>3, <2>1, <2>2 DEF Acknowledge
  <1>4. CASE BackUp(u)
    <2>1. Moves(u, "owner", "removing")
      BY <1>4, MoveMoves DEF BackUp, Shaped, Names, Places, Ended
    <2> QED
      BY <1>4, <2>1, LockPlaces DEF BackUp, Moves, Names, Shaped, Effect, Earned,
         KeepsLock, LeavesProject, Local, InOrder, Copied, Reported, Busy, Calm, Kept,
         Alive, Over, Ended, LauncherGone
  <1> QED
    BY <1>1, <1>2, <1>3, <1>4 DEF Owner

\* The supervisor keeps the invariants of its update.
LEMMA SupervisorStep ==
  ASSUME Shaped, NEW u \in Updates, Local(u), Supervisor(u)
  PROVE  Effect(u) /\ KeepsLock(u) /\ LeavesProject(u)
  <1>1. CASE StartShell(u)
    <2>1. MovesBoth(u, "supervisor", "reporting", "shell", "starting")
      BY <1>1, MoveBothMoves DEF StartShell, Shaped, Names, Places, Ended
    <2> QED
      BY <1>1, <2>1, LockPlaces DEF StartShell, MovesBoth, Names, Shaped, Effect,
         Earned, KeepsLock, LeavesProject, Local, InOrder, Copied, Reported, Busy, Calm,
         Kept, Alive, Over, Ended, LauncherGone
  <1>2. CASE ReportSpawn(u)
    <2>1. CASE ~LauncherGone(u)
      <3>1. Moves(u, "supervisor", "watching")
        BY <1>2, <2>1, MoveMoves DEF ReportSpawn, Shaped, Names, Places, Ended
      <3>2. Sends(u, "spawned")
        BY <1>2, <2>1, SendSends DEF ReportSpawn, Shaped, Messages
      <3> QED
        BY <1>2, <2>1, <3>1, <3>2, LockPlaces, SMTT(30) DEF ReportSpawn, Stopped, Moves,
           Sends, Names, Shaped, Effect, Earned, KeepsLock, LeavesProject, Local,
           InOrder, Copied, Reported, Busy, Calm, Kept, Alive, Over, Ended, LauncherGone
    <2>2. CASE LauncherGone(u)
      <3>1. MovesBoth(u, "supervisor", "abandoning", "shell", Stopped(u))
        BY <1>2, <2>2, MoveBothMoves, StoppedPlace DEF ReportSpawn, Shaped, Names,
           Places, Ended
      <3> QED
        BY <1>2, <2>2, <3>1, LockPlaces DEF ReportSpawn, Stopped, MovesBoth, Names,
           Shaped, Effect, Earned, KeepsLock, LeavesProject, Local, InOrder, Copied,
           Reported, Busy, Calm, Kept, Alive, Over, Ended, LauncherGone
    <2> QED
      BY <1>2, <2>1, <2>2 DEF ReportSpawn
  <1>3. CASE WatchChild(u)
    <2>1. CASE Over(u, "shell")
      <3>1. Moves(u, "supervisor", IF at[u].shell = "ok" THEN "cleaning" ELSE "abandoning")
        BY <1>3, <2>1, MoveMoves DEF WatchChild, Shaped, Names, Places, Ended, Over,
           Alive
      <3> QED
        BY <1>3, <2>1, <3>1, LockPlaces DEF WatchChild, Stopped, Moves, Names, Shaped,
           Effect, Earned, KeepsLock, LeavesProject, Local, InOrder, Copied, Reported,
           Busy, Calm, Kept, Alive, Over, Ended, LauncherGone
    <2>2. CASE ~Over(u, "shell")
      <3>1. MovesBoth(u, "supervisor", "abandoning", "shell", Stopped(u))
        BY <1>3, <2>2, MoveBothMoves, StoppedPlace DEF WatchChild, Shaped, Names,
           Places, Ended, Over, Alive
      <3> QED
        BY <1>3, <2>2, <3>1, LockPlaces DEF WatchChild, Stopped, MovesBoth, Names,
           Shaped, Effect, Earned, KeepsLock, LeavesProject, Local, InOrder, Copied,
           Reported, Busy, Calm, Kept, Alive, Over, Ended, LauncherGone
    <2> QED
      BY <1>3, <2>1, <2>2 DEF WatchChild
  <1> QED
    BY <1>1, <1>2, <1>3 DEF Supervisor

\* The visible shell keeps the invariants of its update.
LEMMA ShellStep ==
  ASSUME Shaped, NEW u \in Updates, Local(u), Shell(u)
  PROVE  Effect(u) /\ KeepsLock(u) /\ LeavesProject(u)
  <1>1. CASE StartGuardian(u)
    <2>1. MovesBoth(u, "shell", "forking", "guardian", "listening")
      BY <1>1, MoveBothMoves DEF StartGuardian, Shaped, Names, Places, Ended
    <2> QED
      BY <1>1, <2>1, LockPlaces DEF StartGuardian, MovesBoth, Names, Shaped, Effect,
         Earned, KeepsLock, LeavesProject, Local, InOrder, Copied, Reported, Busy, Calm,
         Kept, Alive, Over, Ended, LauncherGone
  <1>2. CASE ForkBody(u)
    <2>1. MovesBoth(u, "shell", "arming", "body", "forked")
      BY <1>2, MoveBothMoves DEF ForkBody, Shaped, Names, Places, Ended
    <2> QED
      BY <1>2, <2>1, LockPlaces DEF ForkBody, MovesBoth, Names, Shaped, Effect, Earned,
         KeepsLock, LeavesProject, Local, InOrder, Copied, Reported, Busy, Calm, Kept,
         Alive, Over, Ended, LauncherGone
  <1>3. CASE AwaitArmed(u)
    <2>1. CASE "armed" \in sent[u]
      <3>1. Moves(u, "shell", "waiting")
        BY <1>3, <2>1, MoveMoves DEF AwaitArmed, Shaped, Names, Places, Ended
      <3> QED
        BY <1>3, <2>1, <3>1, LockPlaces DEF AwaitArmed, Moves, Names, Shaped, Effect,
           Earned, KeepsLock, LeavesProject, Local, InOrder, Copied, Reported, Busy,
           Calm, Kept, Alive, Over, Ended, LauncherGone
    <2>2. CASE "armed" \notin sent[u]
      <3> DEFINE b == Killed(u, {"shell", "body", "main"})
      <3>1. /\ b \in [Names -> Place]
            /\ \A p \in Names : b[p] = IF p \in {"shell", "body", "main"} /\ Alive(u, p) THEN "failed" ELSE at[u][p]
            /\ \A p \in Names : b[p] \in Places[p]
        BY KilledPlaces, EndedPlaces DEF Shaped, Names, Ended
      <3>2. Becomes(u, b)
        <4>1. at' = [at EXCEPT ![u] = b]
          BY <1>3, <2>2 DEF AwaitArmed
        <4> HIDE DEF b
        <4> QED
          BY <3>1, <4>1, Changed DEF Shaped
      <3> QED
        BY <1>3, <2>2, <3>1, <3>2, LockPlaces DEF AwaitArmed, Becomes, Names, Shaped,
           Effect, Earned, KeepsLock, LeavesProject, Local, InOrder, Copied, Reported,
           Busy, Calm, Kept, Alive, Over, Ended, LauncherGone
    <2> QED
      BY <1>3, <2>1, <2>2 DEF AwaitArmed
  <1>4. CASE AwaitBody(u)
    <2>1. Moves(u, "shell", "draining")
      BY <1>4, MoveMoves DEF AwaitBody, Shaped, Names, Places, Ended
    <2> QED
      BY <1>4, <2>1, LockPlaces DEF AwaitBody, Moves, Names, Shaped, Effect, Earned,
         KeepsLock, LeavesProject, Local, InOrder, Copied, Reported, Busy, Calm, Kept,
         Alive, Over, Ended, LauncherGone
  <1>5. CASE AwaitGuardian(u)
    <2>1. Moves(u, "shell", BodyStatus(u))
      BY <1>5, MoveMoves DEF AwaitGuardian, Shaped, Names, Places, Ended, BodyStatus
    <2> QED
      BY <1>5, <2>1, LockPlaces DEF AwaitGuardian, BodyStatus, Moves, Names, Shaped,
         Effect, Earned, KeepsLock, LeavesProject, Local, InOrder, Copied, Reported,
         Busy, Calm, Kept, Alive, Over, Ended, LauncherGone
  <1> QED
    BY <1>1, <1>2, <1>3, <1>4, <1>5 DEF Shell

\* The guardian keeps the invariants of its update.
LEMMA GuardianStep ==
  ASSUME Shaped, NEW u \in Updates, Local(u), Guardian(u)
  PROVE  Effect(u) /\ KeepsLock(u) /\ LeavesProject(u)
  <1>1. CASE Listen(u)
    <2>1. CASE "pid" \in sent[u] /\ ~Alive(u, "body")
      <3>1. Moves(u, "guardian", "ok")
        BY <1>1, <2>1, MoveMoves DEF Listen, Shaped, Names, Places, Ended
      <3>2. Sends(u, "armed")
        BY <1>1, <2>1, SendSends DEF Listen, Shaped, Messages
      <3> QED
        BY <1>1, <2>1, <3>1, <3>2, LockPlaces, SMTT(30) DEF Listen, Moves, Sends, Names,
           Shaped, Effect, Earned, KeepsLock, LeavesProject, Local, InOrder, Copied,
           Reported, Busy, Calm, Kept, Alive, Over, Ended, LauncherGone
    <2>2. CASE "pid" \in sent[u] /\ Alive(u, "body") /\ ~LauncherGone(u)
      <3>1. MovesBoth(u, "guardian", "guarding", "body", "running")
        BY <1>1, <2>2, MoveBothMoves DEF Listen, Shaped, Names, Places, Ended
      <3>2. Sends(u, "armed")
        BY <1>1, <2>2, SendSends DEF Listen, Shaped, Messages
      <3> QED
        BY <1>1, <2>2, <3>1, <3>2, LockPlaces, SMTT(30) DEF Listen, MovesBoth, Sends,
           Names, Shaped, Effect, Earned, KeepsLock, LeavesProject, Local, InOrder,
           Copied, Reported, Busy, Calm, Kept, Alive, Over, Ended, LauncherGone
    <2>3. CASE "pid" \in sent[u] /\ Alive(u, "body") /\ LauncherGone(u)
      <3>1. Moves(u, "guardian", "killing")
        BY <1>1, <2>3, MoveMoves DEF Listen, Shaped, Names, Places, Ended
      <3> QED
        BY <1>1, <2>3, <3>1, LockPlaces DEF Listen, Moves, Names, Shaped, Effect,
           Earned, KeepsLock, LeavesProject, Local, InOrder, Copied, Reported, Busy,
           Calm, Kept, Alive, Over, Ended, LauncherGone
    <2>4. CASE "pid" \notin sent[u]
      <3>1. Moves(u, "guardian", "leaving")
        BY <1>1, <2>4, MoveMoves DEF Listen, Shaped, Names, Places, Ended
      <3> QED
        BY <1>1, <2>4, <3>1, LockPlaces DEF Listen, Moves, Names, Shaped, Effect,
           Earned, KeepsLock, LeavesProject, Local, InOrder, Copied, Reported, Busy,
           Calm, Kept, Alive, Over, Ended, LauncherGone
    <2> QED
      BY <1>1, <2>1, <2>2, <2>3, <2>4 DEF Listen
  <1>2. CASE Leave(u)
    <2>1. Moves(u, "guardian", "ok")
      BY <1>2, MoveMoves DEF Leave, Shaped, Names, Places, Ended
    <2> QED
      BY <1>2, <2>1, LockPlaces DEF Leave, Moves, Names, Shaped, Effect, Earned,
         KeepsLock, LeavesProject, Local, InOrder, Copied, Reported, Busy, Calm, Kept,
         Alive, Over, Ended, LauncherGone
  <1>3. CASE Guard(u)
    <2>1. CASE "complete" \in sent[u]
      <3>1. Moves(u, "guardian", "draining")
        BY <1>3, <2>1, MoveMoves DEF Guard, Shaped, Names, Places, Ended
      <3> QED
        BY <1>3, <2>1, <3>1, LockPlaces DEF Guard, Moves, Names, Shaped, Effect, Earned,
           KeepsLock, LeavesProject, Local, InOrder, Copied, Reported, Busy, Calm, Kept,
           Alive, Over, Ended, LauncherGone
    <2>2. CASE "complete" \notin sent[u]
      <3>1. Moves(u, "guardian", "killing")
        BY <1>3, <2>2, MoveMoves DEF Guard, Shaped, Names, Places, Ended
      <3> QED
        BY <1>3, <2>2, <3>1, LockPlaces DEF Guard, Moves, Names, Shaped, Effect, Earned,
           KeepsLock, LeavesProject, Local, InOrder, Copied, Reported, Busy, Calm, Kept,
           Alive, Over, Ended, LauncherGone
    <2> QED
      BY <1>3, <2>1, <2>2 DEF Guard
  <1>4. CASE Release(u)
    <2>1. Moves(u, "guardian", "ok")
      BY <1>4, MoveMoves DEF Release, Shaped, Names, Places, Ended
    <2> QED
      BY <1>4, <2>1, LockPlaces DEF Release, GroupGone, Moves, Names, Shaped, Effect,
         Earned, KeepsLock, LeavesProject, Local, InOrder, Copied, Reported, Busy, Calm,
         Kept, Alive, Over, Ended, LauncherGone
  <1>5. CASE Drain(u)
    <2>1. Sends(u, "drained")
      BY <1>5, SendSends DEF Drain, Shaped, Messages
    <2> DEFINE b == [Killed(u, {"main"}) EXCEPT !.guardian = "ok"]
    <2>2. /\ b \in [Names -> Place]
          /\ \A p \in Names : b[p] = IF p = "guardian" THEN "ok" ELSE IF p = "main" /\ Alive(u, p) THEN "failed" ELSE at[u][p]
          /\ \A p \in Names : b[p] \in Places[p]
      BY KilledPlaces, EndedPlaces DEF Shaped, Names, Ended
    <2>3. Becomes(u, b)
      <3>1. at' = [at EXCEPT ![u] = b]
        BY <1>5 DEF Drain
      <3> HIDE DEF b
      <3> QED
        BY <2>2, <3>1, Changed DEF Shaped
    <2> QED
      BY <1>5, <2>1, <2>2, <2>3, LockPlaces, SMTT(30) DEF Drain, Sends, Becomes, Names,
         Shaped, Effect, Earned, KeepsLock, LeavesProject, Local, InOrder, Copied,
         Reported, Busy, Calm, Kept, Alive, Over, Ended, LauncherGone
  <1>6. CASE KillGroup(u)
    <2> DEFINE b == Killed(u, {"body", "main"})
    <2>1. /\ b \in [Names -> Place]
          /\ \A p \in Names : b[p] = IF p \in {"body", "main"} /\ Alive(u, p) THEN "failed" ELSE at[u][p]
          /\ \A p \in Names : b[p] \in Places[p]
      BY KilledPlaces, EndedPlaces DEF Shaped, Names, Ended
    <2>2. Becomes(u, b)
      <3>1. at' = [at EXCEPT ![u] = b]
        BY <1>6 DEF KillGroup
      <3> HIDE DEF b
      <3> QED
        BY <2>1, <3>1, Changed DEF Shaped
    <2> QED
      BY <1>6, <2>1, <2>2, LockPlaces DEF KillGroup, Becomes, Names, Shaped, Effect,
         Earned, KeepsLock, LeavesProject, Local, InOrder, Copied, Reported, Busy, Calm,
         Kept, Alive, Over, Ended, LauncherGone
  <1> QED
    BY <1>1, <1>2, <1>3, <1>4, <1>5, <1>6 DEF Guardian

\* The leader of the body's group keeps the invariants of its update.
LEMMA BodyStep ==
  ASSUME Shaped, NEW u \in Updates, Local(u), Body(u)
  PROVE  Effect(u) /\ KeepsLock(u) /\ LeavesProject(u)
  <1>1. CASE PublishPid(u)
    <2>1. CASE Alive(u, "guardian")
      <3>1. Moves(u, "body", "waiting")
        BY <1>1, <2>1, MoveMoves DEF PublishPid, Shaped, Names, Places, Ended
      <3>2. Sends(u, "pid")
        BY <1>1, <2>1, SendSends DEF PublishPid, Shaped, Messages
      <3> QED
        BY <1>1, <2>1, <3>1, <3>2, LockPlaces, SMTT(30) DEF PublishPid, Moves, Sends,
           Names, Shaped, Effect, Earned, KeepsLock, LeavesProject, Local, InOrder,
           Copied, Reported, Busy, Calm, Kept, Alive, Over, Ended, LauncherGone
    <2>2. CASE ~Alive(u, "guardian")
      <3>1. Moves(u, "body", "failed")
        BY <1>1, <2>2, MoveMoves DEF PublishPid, Shaped, Names, Places, Ended
      <3> QED
        BY <1>1, <2>2, <3>1, LockPlaces DEF PublishPid, Moves, Names, Shaped, Effect,
           Earned, KeepsLock, LeavesProject, Local, InOrder, Copied, Reported, Busy,
           Calm, Kept, Alive, Over, Ended, LauncherGone
    <2> QED
      BY <1>1, <2>1, <2>2 DEF PublishPid
  <1>2. CASE RunMain(u)
    <2>1. CASE at[u].main = "none"
      <3>1. Moves(u, "main", "checking")
        BY <1>2, <2>1, MoveMoves DEF RunMain, Shaped, Names, Places, Ended, Over
      <3> QED
        BY <1>2, <2>1, <3>1, LockPlaces DEF RunMain, Moves, Names, Shaped, Effect,
           Earned, KeepsLock, LeavesProject, Local, InOrder, Copied, Reported, Busy,
           Calm, Kept, Alive, Over, Ended, LauncherGone
    <2>2. CASE at[u].main # "none"
      <3>1. Moves(u, "body", "reporting")
        BY <1>2, <2>2, MoveMoves DEF RunMain, Shaped, Names, Places, Ended, Over
      <3> QED
        BY <1>2, <2>2, <3>1, LockPlaces DEF RunMain, Moves, Names, Shaped, Effect,
           Earned, KeepsLock, LeavesProject, Local, InOrder, Copied, Reported, Busy,
           Calm, Kept, Alive, Over, Ended, LauncherGone
    <2> QED
      BY <1>2, <2>1, <2>2 DEF RunMain
  <1>3. CASE ReportCompletion(u)
    <2>1. CASE Alive(u, "guardian")
      <3>1. Moves(u, "body", "ending")
        BY <1>3, <2>1, MoveMoves DEF ReportCompletion, Shaped, Names, Places, Ended
      <3>2. Sends(u, "complete")
        BY <1>3, <2>1, SendSends DEF ReportCompletion, Shaped, Messages
      <3> QED
        BY <1>3, <2>1, <3>1, <3>2, LockPlaces, SMTT(30) DEF ReportCompletion, Moves,
           Sends, Names, Shaped, Effect, Earned, KeepsLock, LeavesProject, Local,
           InOrder, Copied, Reported, Busy, Calm, Kept, Alive, Over, Ended, LauncherGone
    <2>2. CASE ~Alive(u, "guardian")
      <3>1. Moves(u, "body", "failed")
        BY <1>3, <2>2, MoveMoves DEF ReportCompletion, Shaped, Names, Places, Ended
      <3> QED
        BY <1>3, <2>2, <3>1, LockPlaces DEF ReportCompletion, Moves, Names, Shaped,
           Effect, Earned, KeepsLock, LeavesProject, Local, InOrder, Copied, Reported,
           Busy, Calm, Kept, Alive, Over, Ended, LauncherGone
    <2> QED
      BY <1>3, <2>1, <2>2 DEF ReportCompletion
  <1>4. CASE AwaitDrained(u)
    <2>1. CASE "drained" \in sent[u]
      <3>1. Moves(u, "body", IF at[u].main = "ok" THEN "ok" ELSE "failed")
        BY <1>4, <2>1, MoveMoves DEF AwaitDrained, Shaped, Names, Places, Ended
      <3> QED
        BY <1>4, <2>1, <3>1, LockPlaces DEF AwaitDrained, Moves, Names, Shaped, Effect,
           Earned, KeepsLock, LeavesProject, Local, InOrder, Copied, Reported, Busy,
           Calm, Kept, Alive, Over, Ended, LauncherGone
    <2>2. CASE "drained" \notin sent[u]
      <3>1. Moves(u, "body", "failed")
        BY <1>4, <2>2, MoveMoves DEF AwaitDrained, Shaped, Names, Places, Ended
      <3> QED
        BY <1>4, <2>2, <3>1, LockPlaces DEF AwaitDrained, Moves, Names, Shaped, Effect,
           Earned, KeepsLock, LeavesProject, Local, InOrder, Copied, Reported, Busy,
           Calm, Kept, Alive, Over, Ended, LauncherGone
    <2> QED
      BY <1>4, <2>1, <2>2 DEF AwaitDrained
  <1> QED
    BY <1>1, <1>2, <1>3, <1>4 DEF Body

\* So do the two that remove the snapshot: nobody holds the lock by then.
LEMMA RemovalStep ==
  ASSUME Shaped, NEW u \in Updates, Local(u), OwnerRemoves(u) \/ SupervisorRemoves(u)
  PROVE  Effect(u) /\ KeepsLock(u) /\ LeavesProject(u)
  <1>1. CASE OwnerRemoves(u)
    <2>1. Moves(u, "owner", "ok")
      BY <1>1, MoveMoves DEF OwnerRemoves, Shaped, Names, Places, Ended
    <2> QED
      BY <1>1, <2>1, LockPlaces DEF OwnerRemoves, LockFree, Removed, Names, Shaped, Moves, Effect, Earned, KeepsLock, LeavesProject,
      Local, InOrder, Copied, Reported, Busy, Calm, Kept, Alive, Over, Ended, LauncherGone
  <1>2. CASE SupervisorRemoves(u)
    <2>1. Moves(u, "supervisor", IF at[u].supervisor = "cleaning" THEN "ok" ELSE "failed")
      BY <1>2, MoveMoves DEF SupervisorRemoves, Shaped, Names, Places, Ended
    <2> QED
      BY <1>2, <2>1, LockPlaces DEF SupervisorRemoves, LockFree, Removed, Names, Shaped, Moves, Effect, Earned, KeepsLock, LeavesProject,
      Local, InOrder, Copied, Reported, Busy, Calm, Kept, Alive, Over, Ended, LauncherGone
  <1> QED
    BY <1>1, <1>2

\* An update begins under a lock nobody else has.
LEMMA BeginStep ==
  ASSUME Shaped, NEW u \in Updates, Local(u), Begin(u)
  PROVE  Effect(u) /\ LeavesProject(u) /\ at[u].main = "none"
  <1>1. Moves(u, "launcher", "locked")
    BY MoveMoves DEF Begin, Shaped, Names, Places, Ended
  <1> QED
    BY <1>1 DEF Begin, Names, Shaped, Moves, Effect, Earned, KeepsLock, LeavesProject,
      Local, InOrder, Copied, Reported, Busy, Calm, Kept, Alive, Over, Ended, LauncherGone

\* Main moves among its places; the rest of the update is not touched.
LEMMA MainMoves ==
  ASSUME Shaped, NEW u \in Updates, Local(u), Alive(u, "main"),
         NEW x \in Places["main"] \ {"none"}, Moves(u, "main", x),
         UNCHANGED <<sent, snapshot, sessions, faults>>
  PROVE  Effect(u) /\ KeepsLock(u)
  BY LockPlaces DEF Names, Shaped, Moves, Effect, Earned, KeepsLock, LeavesProject,
      Local, InOrder, Copied, Reported, Busy, Calm, Kept, Alive, Over, Ended, LauncherGone

\* A kill: the invariants of the update stand, Calm unless others than the
\* guardian are killed.
LEMMA KillStep ==
  ASSUME Shaped, NEW u \in Updates, NEW p \in Names, Local(u), Kill(u, p)
  PROVE  /\ Shaped' /\ Local(u)' /\ KeepsLock(u) /\ LeavesProject(u) /\ Earned(u)
         /\ \A v \in Updates : v # u => at'[v] = at[v]
         /\ Busy(u)' => Busy(u) /\ (p # "guardian" => at'[u].guardian = at[u].guardian)
         /\ p = "guardian" => at'[u].guardian = "failed" /\ (Calm(u) => Calm(u)')
  <1>1. Moves(u, p, "failed")
    BY MoveMoves, EndedPlaces DEF Kill, Shaped, Ended
  <1>2. Shaped'
    BY <1>1, UpdaterAssumption DEF Kill, Fault, Shaped, Moves
  <1>3. InOrder(u)' /\ Copied(u)'
    BY <1>1 DEF Kill, Names, Moves, Local, InOrder, Copied, Alive, Ended
  <1>4. Reported(u)' /\ KeepsLock(u) /\ LeavesProject(u)
    BY <1>1, LockPlaces DEF Kill, Names, Moves, Local, Reported, KeepsLock, LeavesProject, Alive, Over, Ended
  <1>5. Local(u)'
    BY <1>1, <1>3, <1>4 DEF Kill, Names, Moves, Local, Busy, Alive, Ended
  <1>6. Earned(u) /\ (Busy(u)' => Busy(u) /\ (p # "guardian" => at'[u].guardian = at[u].guardian))
    BY <1>1 DEF Kill, Names, Moves, Earned, Busy, Alive, Ended
  <1>7. p = "guardian" => at'[u].guardian = "failed" /\ (Calm(u) => Calm(u)')
    BY <1>1 DEF Kill, Names, Moves, Calm, Alive
  <1> QED
    BY <1>1, <1>2, <1>4, <1>5, <1>6, <1>7 DEF Moves

\* ^C: what is left of the update keeps its invariants, the guardian stays.
LEMMA InterruptStep ==
  ASSUME Shaped, NEW u \in Updates, Local(u), Interrupt(u)
  PROVE  /\ Shaped' /\ Local(u)' /\ KeepsLock(u) /\ LeavesProject(u) /\ Earned(u)
         /\ \A v \in Updates : v # u => at'[v] = at[v]
         /\ Busy(u)' => Busy(u) /\ at'[u].guardian = at[u].guardian
  <1> DEFINE b == [Killed(u, {"launcher", "shell"}) EXCEPT
                     !.owner = OwnerInterrupted(at[u].owner),
                     !.supervisor = SupervisorInterrupted(at[u].supervisor)]
  <1>1. /\ OwnerInterrupted(at[u].owner) \in Places["owner"]
        /\ SupervisorInterrupted(at[u].supervisor) \in Places["supervisor"]
    BY EndedPlaces DEF Shaped, Sited, Names, Places, Ended, OwnerInterrupted, SupervisorInterrupted
  <1>2. /\ b \in [Names -> Place]
        /\ b["owner"] = OwnerInterrupted(at[u].owner)
        /\ b["supervisor"] = SupervisorInterrupted(at[u].supervisor)
        /\ \A p \in Names \ {"owner", "supervisor"} :
             b[p] = IF p \in {"launcher", "shell"} /\ Alive(u, p) THEN "failed" ELSE at[u][p]
        /\ \A p \in Names : b[p] \in Places[p]
    <2>1. OwnerInterrupted(at[u].owner) \in Place /\ SupervisorInterrupted(at[u].supervisor) \in Place
      BY <1>1 DEF Place, Names
    <2> DEFINE k == Killed(u, {"launcher", "shell"})
               o == OwnerInterrupted(at[u].owner)
               s == SupervisorInterrupted(at[u].supervisor)
    <2>2. /\ k \in [Names -> Place]
          /\ \A p \in Names :
               /\ k[p] = IF p \in {"launcher", "shell"} /\ Alive(u, p) THEN "failed" ELSE at[u][p]
               /\ k[p] \in Places[p]
      BY KilledPlaces DEF Shaped
    <2>3. o \in Places["owner"] /\ s \in Places["supervisor"] /\ o \in Place /\ s \in Place
      BY <1>1, <2>1
    <2>4. b = [k EXCEPT !["owner"] = o, !["supervisor"] = s]
      OBVIOUS
    <2> HIDE DEF k, o, s, b
    <2>5. b \in [Names -> Place] /\ b["owner"] = o /\ b["supervisor"] = s
          /\ \A p \in Names \ {"owner", "supervisor"} : b[p] = k[p]
      BY <2>2, <2>3, <2>4 DEF Names
    <2> QED
      BY <2>2, <2>3, <2>5 DEF o, s
  <1>3. Becomes(u, b)
    <2>1. at' = [at EXCEPT ![u] = b]
      BY DEF Interrupt
    <2> HIDE DEF b
    <2> QED
      BY <1>2, <2>1, Changed DEF Shaped
  <1>4. /\ at'[u].launcher = "failed"
        /\ at'[u].owner = OwnerInterrupted(at[u].owner)
        /\ at'[u].supervisor = SupervisorInterrupted(at[u].supervisor)
        /\ at'[u].shell = IF Alive(u, "shell") THEN "failed" ELSE at[u].shell
        /\ at'[u].guardian = at[u].guardian
        /\ at'[u].body = at[u].body
        /\ at'[u].main = at[u].main
    <2> HIDE DEF b
    <2> QED
      BY <1>2, <1>3 DEF Becomes, Names, Interrupt
  <1>5. Shaped'
    BY <1>3, UpdaterAssumption DEF Interrupt, Fault, Shaped, Becomes
  <1>6. InOrder(u)' /\ Copied(u)'
    BY <1>4 DEF Interrupt, Local, InOrder, Copied, Alive, Ended, OwnerInterrupted, SupervisorInterrupted
  <1>7. Reported(u)' /\ KeepsLock(u) /\ LeavesProject(u)
    BY <1>4, LockPlaces DEF Interrupt, Local, Reported, KeepsLock, LeavesProject, Alive, Over, Ended,
      SupervisorInterrupted
  <1>8. Local(u)' /\ (Busy(u)' => Busy(u)) /\ Earned(u)
    BY <1>4, <1>6, <1>7 DEF Interrupt, Local, Earned, Busy, Alive, Ended, SupervisorInterrupted
  <1> QED
    BY <1>3, <1>4, <1>5, <1>7, <1>8 DEF Becomes

\* A power loss: nobody is left.
LEMMA PowerLossStep ==
  ASSUME Shaped, \A u \in Updates : Local(u), PowerLoss
  PROVE  /\ Shaped'
         /\ \A u \in Updates : /\ Local(u)' /\ ~Locked(u)' /\ ~Busy(u)' /\ Earned(u)
                               /\ at'[u].main \in Ended \cup {"none"}
  <1>1. \A u \in Updates : /\ at'[u] \in [Names -> Place]
                           /\ \A p \in Names : /\ at'[u][p] \in Places[p]
                                               /\ at'[u][p] = IF Alive(u, p) THEN "failed" ELSE at[u][p]
    <2> TAKE u \in Updates
    <2>1. at'[u] = Killed(u, Names)
      BY ProcessNames DEF PowerLoss
    <2> QED
      BY <2>1, KilledPlaces DEF Shaped
  <1>2. at' \in [Updates -> [Names -> Place]]
    BY <1>1 DEF PowerLoss
  <1>3. Shaped'
    BY <1>1, <1>2, UpdaterAssumption DEF PowerLoss, Fault, Shaped, Sited
  <1> SUFFICES ASSUME NEW u \in Updates
               PROVE  /\ Local(u)' /\ ~Locked(u)' /\ ~Busy(u)' /\ Earned(u)
                      /\ at'[u].main \in Ended \cup {"none"}
    BY <1>3
  <1>4. \A p \in Names : at'[u][p] = IF Alive(u, p) THEN "failed" ELSE at[u][p]
    BY <1>1
  <1>5. InOrder(u)' /\ Copied(u)'
    BY <1>4 DEF PowerLoss, Shaped, Names, Local, InOrder, Copied, Alive, Ended
  <1>6. Reported(u)' /\ ~Locked(u)'
    BY <1>4, LockPlaces DEF PowerLoss, Names, Local, Reported, Alive, Over, Ended
  <1>7. ~Busy(u)' /\ Earned(u) /\ at'[u].main \in Ended \cup {"none"}
    BY <1>4 DEF Names, Earned, Busy, Alive, Ended
  <1>8. Local(u)'
    BY <1>4, <1>5, <1>6, <1>7 DEF PowerLoss, Names, Local, Alive, Ended
  <1> QED
    BY <1>6, <1>7, <1>8

\* The types of what the updates share.
ProjectType ==
  /\ workspaces \subseteq Updates
  /\ sessions \subseteq Sessions
  /\ project \in [infra : {"old", "mixed", "new"}, synced : BOOLEAN,
                  manifest : {"old", "new"}, marker : BOOLEAN,
                  recorded : BOOLEAN, flaw : Controls \cup {"none"},
                  paper : {"open", "audited", "stale"}]

\* What is mixed, or not on the disk, is marked; what is mixed has no session.
Marked ==
  /\ project.infra = "mixed" => project.marker /\ sessions = {}
  /\ ~project.synced => project.marker

\* Main is at one of the places, or has ended well and its lock is still held.
Past(u, places) == at[u].main \in places \/ (at[u].main = "ok" /\ Locked(u))

\* What main has done to the project by where it is.
Written(u) ==
  /\ Writing(u) => project.marker
  /\ Past(u, {"merging", "reopening", "recording", "syncing", "unmarking", "tidying"}) =>
       project.infra = "new"
  /\ Past(u, {"recording", "syncing", "unmarking", "tidying"}) => project.paper # "stale"
  /\ Past(u, {"syncing", "unmarking", "tidying"}) => project.manifest = "new"
  /\ Past(u, {"unmarking", "tidying"}) => project.synced
  /\ Past(u, {"tidying"}) => ~project.marker
  /\ Past(u, {}) => u \notin workspaces

\* Main keeps the invariants of its update, the types, and, under the lock and
\* with no session, what it has written.
LEMMA MainStep ==
  ASSUME Shaped, ProjectType, NEW u \in Updates, Local(u), Main(u)
  PROVE  /\ Effect(u) /\ KeepsLock(u) /\ ProjectType'
         /\ Written(u) /\ Marked /\ Locked(u) /\ sessions = {} => Written(u)' /\ Marked'
  <1>1. CASE Check(u)
    <2>1. Moves(u, "main", IF ManifestStands /\ StateStands
                            THEN IF RegistryStands THEN "assembling"
                                 ELSE IF project.flaw = "registry" THEN "failed" ELSE "refusing"
                            ELSE "failed")
      BY <1>1, MoveMoves DEF Check, Shaped, Names, Places, Ended
    <2>2. Effect(u) /\ KeepsLock(u)
      BY <1>1, <2>1, MainMoves DEF Check, Alive, Ended, Places
    <2> QED
      BY <1>1, <2>1, <2>2 DEF Check, Names, Moves, KeepsLock, ProjectType, Written, Past, Writing, Marked
  <1>2. CASE RefuseRegistry(u)
    <2>1. Moves(u, "main", "failed")
      BY <1>2, MoveMoves DEF RefuseRegistry, Refuse, Tidy, Shaped, Names, Places, Ended
    <2>2. Effect(u) /\ KeepsLock(u)
      BY <1>2, <2>1, MainMoves DEF RefuseRegistry, Refuse, Tidy, Alive, Ended, Places
    <2> QED
      BY <1>2, <2>1, <2>2 DEF RefuseRegistry, Refuse, Tidy, Names, Moves, KeepsLock, ProjectType, Written, Past, Writing, Marked
  <1>3. CASE Assemble(u)
    <2>1. CASE Move(u, "main", "verifying") /\ workspaces' = workspaces \cup {u}
      <3>1. Moves(u, "main", "verifying")
        BY <1>3, <2>1, MoveMoves DEF Assemble, Refuse, Tidy, Shaped, Names, Places, Ended
      <3>2. Effect(u) /\ KeepsLock(u)
        BY <1>3, <2>1, <3>1, MainMoves DEF Assemble, Refuse, Tidy, Alive, Ended, Places
      <3> QED
        BY <1>3, <2>1, <3>1, <3>2 DEF Assemble, Refuse, Tidy, Names, Moves, KeepsLock, ProjectType, Written, Past, Writing, Marked
    <2>2. CASE Refuse(u)
      <3>1. Moves(u, "main", "failed")
        BY <1>3, <2>2, MoveMoves DEF Assemble, Refuse, Tidy, Shaped, Names, Places, Ended
      <3>2. Effect(u) /\ KeepsLock(u)
        BY <1>3, <2>2, <3>1, MainMoves DEF Assemble, Refuse, Tidy, Alive, Ended, Places
      <3> QED
        BY <1>3, <2>2, <3>1, <3>2 DEF Assemble, Refuse, Tidy, Names, Moves, KeepsLock, ProjectType, Written, Past, Writing, Marked
    <2> QED
      BY <1>3, <2>1, <2>2 DEF Assemble, Refuse, Tidy
  <1>4. CASE Verify(u)
    <2>1. CASE Move(u, "main", "marking") /\ UNCHANGED workspaces
      <3>1. Moves(u, "main", "marking")
        BY <1>4, <2>1, MoveMoves DEF Verify, Refuse, Tidy, Shaped, Names, Places, Ended
      <3>2. Effect(u) /\ KeepsLock(u)
        BY <1>4, <2>1, <3>1, MainMoves DEF Verify, Refuse, Tidy, Alive, Ended, Places
      <3> QED
        BY <1>4, <2>1, <3>1, <3>2 DEF Verify, Refuse, Tidy, Names, Moves, KeepsLock, ProjectType, Written, Past, Writing, Marked
    <2>2. CASE Refuse(u)
      <3>1. Moves(u, "main", "failed")
        BY <1>4, <2>2, MoveMoves DEF Verify, Refuse, Tidy, Shaped, Names, Places, Ended
      <3>2. Effect(u) /\ KeepsLock(u)
        BY <1>4, <2>2, <3>1, MainMoves DEF Verify, Refuse, Tidy, Alive, Ended, Places
      <3> QED
        BY <1>4, <2>2, <3>1, <3>2 DEF Verify, Refuse, Tidy, Names, Moves, KeepsLock, ProjectType, Written, Past, Writing, Marked
    <2> QED
      BY <1>4, <2>1, <2>2 DEF Verify, Refuse, Tidy
  <1>5. CASE PublishMarker(u)
    <2>1. Moves(u, "main", "replacing")
      BY <1>5, MoveMoves DEF PublishMarker, Write, Shaped, Names, Places, Ended
    <2>2. Effect(u) /\ KeepsLock(u)
      BY <1>5, <2>1, MainMoves DEF PublishMarker, Write, Alive, Ended, Places
    <2> QED
      BY <1>5, <2>1, <2>2 DEF PublishMarker, Write, Names, Moves, KeepsLock, ProjectType, Written, Past, Writing, Marked
  <1>6. CASE ReplaceInfrastructure(u)
    <2>1. Moves(u, "main", "sweeping")
      BY <1>6, MoveMoves DEF ReplaceInfrastructure, Write, Shaped, Names, Places, Ended
    <2>2. Effect(u) /\ KeepsLock(u)
      BY <1>6, <2>1, MainMoves DEF ReplaceInfrastructure, Write, Alive, Ended, Places
    <2> QED
      BY <1>6, <2>1, <2>2 DEF ReplaceInfrastructure, Write, Names, Moves, KeepsLock, ProjectType, Written, Past, Writing, Marked
  <1>7. CASE SweepStale(u)
    <2>1. Moves(u, "main", "merging")
      BY <1>7, MoveMoves DEF SweepStale, Write, Shaped, Names, Places, Ended
    <2>2. Effect(u) /\ KeepsLock(u)
      BY <1>7, <2>1, MainMoves DEF SweepStale, Write, Alive, Ended, Places
    <2> QED
      BY <1>7, <2>1, <2>2 DEF SweepStale, Write, Names, Moves, KeepsLock, ProjectType, Written, Past, Writing, Marked
  <1>8. CASE MergeEnvironment(u)
    <2>1. CASE Move(u, "main", "reopening") /\ UNCHANGED workspaces
      <3>1. Moves(u, "main", "reopening")
        BY <1>8, <2>1, MoveMoves DEF MergeEnvironment, Refuse, Tidy, Shaped, Names, Places, Ended
      <3>2. Effect(u) /\ KeepsLock(u)
        BY <1>8, <2>1, <3>1, MainMoves DEF MergeEnvironment, Refuse, Tidy, Alive, Ended, Places
      <3> QED
        BY <1>8, <2>1, <3>1, <3>2 DEF MergeEnvironment, Refuse, Tidy, Names, Moves, KeepsLock, ProjectType, Written, Past, Writing, Marked
    <2>2. CASE Refuse(u)
      <3>1. Moves(u, "main", "failed")
        BY <1>8, <2>2, MoveMoves DEF MergeEnvironment, Refuse, Tidy, Shaped, Names, Places, Ended
      <3>2. Effect(u) /\ KeepsLock(u)
        BY <1>8, <2>2, <3>1, MainMoves DEF MergeEnvironment, Refuse, Tidy, Alive, Ended, Places
      <3> QED
        BY <1>8, <2>2, <3>1, <3>2 DEF MergeEnvironment, Refuse, Tidy, Names, Moves, KeepsLock, ProjectType, Written, Past, Writing, Marked
    <2> QED
      BY <1>8, <2>1, <2>2 DEF MergeEnvironment, Refuse, Tidy
  <1>9. CASE ReopenPaper(u)
    <2>1. Moves(u, "main", "recording")
      BY <1>9, MoveMoves DEF ReopenPaper, Write, Shaped, Names, Places, Ended
    <2>2. Effect(u) /\ KeepsLock(u)
      BY <1>9, <2>1, MainMoves DEF ReopenPaper, Write, Alive, Ended, Places
    <2> QED
      BY <1>9, <2>1, <2>2 DEF ReopenPaper, Write, Names, Moves, KeepsLock, ProjectType, Written, Past, Writing, Marked
  <1>10. CASE RecordManifest(u)
    <2>1. Moves(u, "main", "syncing")
      BY <1>10, MoveMoves DEF RecordManifest, Write, Shaped, Names, Places, Ended
    <2>2. Effect(u) /\ KeepsLock(u)
      BY <1>10, <2>1, MainMoves DEF RecordManifest, Write, Alive, Ended, Places
    <2> QED
      BY <1>10, <2>1, <2>2 DEF RecordManifest, Write, Names, Moves, KeepsLock, ProjectType, Written, Past, Writing, Marked
  <1>11. CASE Sync(u)
    <2>1. Moves(u, "main", "unmarking")
      BY <1>11, MoveMoves DEF Sync, Write, Shaped, Names, Places, Ended
    <2>2. Effect(u) /\ KeepsLock(u)
      BY <1>11, <2>1, MainMoves DEF Sync, Write, Alive, Ended, Places
    <2> QED
      BY <1>11, <2>1, <2>2 DEF Sync, Write, Names, Moves, KeepsLock, ProjectType, Written, Past, Writing, Marked
  <1>12. CASE Unmark(u)
    <2>1. Moves(u, "main", "tidying")
      BY <1>12, MoveMoves DEF Unmark, Write, Shaped, Names, Places, Ended
    <2>2. Effect(u) /\ KeepsLock(u)
      BY <1>12, <2>1, MainMoves DEF Unmark, Write, Alive, Ended, Places
    <2> QED
      BY <1>12, <2>1, <2>2 DEF Unmark, Write, Names, Moves, KeepsLock, ProjectType, Written, Past, Writing, Marked
  <1>13. CASE Finish(u)
    <2>1. Moves(u, "main", "ok")
      BY <1>13, MoveMoves DEF Finish, Tidy, Shaped, Names, Places, Ended
    <2>2. Effect(u) /\ KeepsLock(u)
      BY <1>13, <2>1, MainMoves DEF Finish, Tidy, Alive, Ended, Places
    <2> QED
      BY <1>13, <2>1, <2>2 DEF Finish, Tidy, Names, Moves, KeepsLock, ProjectType, Written, Past, Writing, Marked
  <1> QED
    BY <1>1, <1>2, <1>3, <1>4, <1>5, <1>6, <1>7, <1>8, <1>9, <1>10, <1>11, <1>12, <1>13 DEF Main

-----------------------------------------------------------------------------
(* What a step can be *)

\* An update whose processes, pipes and snapshot stay keeps its invariants.
LEMMA Untouched ==
  ASSUME NEW v \in Updates, at'[v] = at[v], sent'[v] = sent[v], snapshot'[v] = snapshot[v]
  PROVE  /\ Locked(v)' <=> Locked(v)
         /\ Busy(v)' <=> Busy(v)
         /\ Local(v) => Local(v)'
         /\ Calm(v) => Calm(v)'
         /\ Earned(v)
  BY LockPlaces DEF Busy, Alive, Local, InOrder, Copied, Reported, Over, Calm, Earned

\* One process acts, or is ended in an orderly way; the project stays.
Works(u) == Effect(u) /\ KeepsLock(u) /\ LeavesProject(u)

\* The updater main acts.
Refreshes(u) ==
  /\ Effect(u) /\ KeepsLock(u) /\ ProjectType' /\ Alive(u, "main")
  /\ Written(u) /\ Marked /\ Locked(u) /\ sessions = {} => Written(u)' /\ Marked'

\* An update begins under the lock.
Begins(u) == Effect(u) /\ LeavesProject(u) /\ LockFree /\ at[u].main = "none"

\* A fault of one update.
Struck(u) ==
  /\ Shaped' /\ Local(u)' /\ KeepsLock(u) /\ LeavesProject(u) /\ Earned(u)
  /\ \A v \in Updates : v # u => at'[v] = at[v]
  /\ Busy(u)' =>
       /\ Busy(u)
       /\ \/ at'[u].guardian = at[u].guardian
          \/ at'[u].guardian = "failed" /\ (Calm(u) => Calm(u)')
  /\ faults' = faults + 1
  /\ UNCHANGED <<sent, snapshot, sessions>>

\* Sessions come and go and work; nobody writes the paper or the project
\* under a lock of an update.
Elsewhere ==
  /\ UNCHANGED <<at, sent, snapshot, workspaces, faults>>
  /\ ProjectType'
  /\ \/ UNCHANGED project /\ sessions' \subseteq sessions
     \/ UNCHANGED project /\ ~project.marker /\ \A u \in Updates : ~Locked(u)
     \/ UNCHANGED <<project.infra, project.synced, project.marker>> /\ UNCHANGED sessions /\ sessions # {}
     \/ UNCHANGED <<project.infra, project.synced, project.marker>> /\ UNCHANGED sessions /\ LockFree

\* The invariants of the updates, one by one.
Sound ==
  /\ Shaped
  /\ ProjectType
  /\ \A u \in Updates : Local(u)

\* A guardian that gives up is one that dies.
LEMMA GivingUpIsADeath ==
  ASSUME NEW u \in Updates, GiveUp(u)
  PROVE  Kill(u, "guardian") /\ "guardian" \in Processes
  BY ProcessNames DEF GiveUp, Kill, Alive, Ended, Names

\* Every step is of one of six kinds.
LEMMA StepKinds ==
  ASSUME Sound, Next
  PROVE  \/ \E u \in Updates : Works(u) \/ Refreshes(u) \/ Begins(u) \/ Struck(u)
         \/ PowerLoss \/ Elsewhere
  <1>1. ASSUME NEW u \in Updates,
               Launcher(u) \/ Owner(u) \/ OwnerRemoves(u) \/ Supervisor(u) \/ SupervisorRemoves(u)
                 \/ Shell(u) \/ Guardian(u) \/ Body(u)
        PROVE  Works(u)
    BY <1>1, LauncherStep, OwnerStep, RemovalStep, SupervisorStep, ShellStep, GuardianStep, BodyStep
       DEF Sound, Works
  <1>2. ASSUME NEW u \in Updates, Main(u)
        PROVE  Refreshes(u)
    <2>1. Alive(u, "main")
      BY <1>2 DEF Main, Check, RefuseRegistry, Assemble, Verify, PublishMarker, ReplaceInfrastructure,
        SweepStale, MergeEnvironment, ReopenPaper, RecordManifest, Sync, Unmark, Finish, Write, Alive, Ended
    <2> QED
      BY <1>2, <2>1, MainStep DEF Sound, Refreshes
  <1>3. ASSUME NEW u \in Updates, Begin(u)
        PROVE  Begins(u)
    BY <1>3, BeginStep DEF Sound, Begins, Begin
  <1>4. ASSUME NEW u \in Updates, NEW p \in Processes, Kill(u, p)
        PROVE  Struck(u)
    <2>1. p \in Names
      BY ProcessNames
    <2> QED
      BY <1>4, <2>1, KillStep DEF Sound, Struck, Kill, Fault
  <1>5. ASSUME NEW u \in Updates, Interrupt(u)
        PROVE  Struck(u)
    BY <1>5, InterruptStep DEF Sound, Struck, Interrupt, Fault
  <1>6. ASSUME NEW s \in Sessions, StartSession(s) \/ EndSession(s)
        PROVE  Elsewhere
    BY <1>6 DEF StartSession, EndSession, BarrierLifted, Elsewhere, Sound, ProjectType
  <1>7. ASSUME WorkInSession
        PROVE  Elsewhere
    <2>1. ProjectType'
      BY <1>7, UpdaterAssumption DEF WorkInSession, Sound, ProjectType
    <2> QED
      BY <1>7, <2>1 DEF WorkInSession, Elsewhere, Sound, ProjectType
  <1>8. ASSUME EditPaper
        PROVE  Elsewhere
    BY <1>8 DEF EditPaper, Elsewhere, Sound, ProjectType
  <1>9. ASSUME NEW u \in Updates, GiveUp(u)
        PROVE  Struck(u)
    <2>1. "guardian" \in Processes /\ Kill(u, "guardian")
      BY <1>9, GivingUpIsADeath
    <2> QED
      BY <1>4, <2>1
  <1> QED
    BY <1>1, <1>2, <1>3, <1>4, <1>5, <1>6, <1>7, <1>8, <1>9 DEF Next

-----------------------------------------------------------------------------
(* What holds whatever is killed *)

\* One update holds the lock, and no session runs beside it.
Exclusive ==
  \A u \in Updates : Locked(u) =>
    /\ sessions = {}
    /\ \A v \in Updates : v # u => ~Locked(v)

\* The inductive invariant that no fault disturbs.
OrderlyInv ==
  /\ Sound
  /\ Exclusive
  /\ faults = 0 => \A u \in Updates : Calm(u)

\* It holds at the start.
LEMMA OrderlyInit == Init => OrderlyInv
  <1> SUFFICES ASSUME Init PROVE OrderlyInv
    OBVIOUS
  <1>1. /\ at \in [Updates -> [Names -> Place]]
        /\ \A u \in Updates : \A p \in Names : at[u][p] = "none"
    <2>1. \A p \in Names : "none" \in Places[p]
      BY DEF Names, Places
    <2>2. "none" \in Place
      BY <2>1 DEF Place, Names
    <2> QED
      BY <2>2, ProcessNames DEF Init
  <1>2. Shaped
    <2>1. \A p \in Names : "none" \in Places[p]
      BY DEF Names, Places
    <2> QED
      BY <1>1, <2>1, UpdaterAssumption DEF Init, Shaped, Sited
  <1>3. \A u \in Updates : Local(u) /\ Calm(u) /\ ~Locked(u)
    BY <1>1, LockPlaces DEF Init, Names, Local, InOrder, Copied, Reported, Busy, Calm, Alive, Over, Ended
  <1> QED
    BY <1>2, <1>3 DEF Init, OrderlyInv, Sound, ProjectType, Exclusive

\* Every step, of whatever kind, preserves it.
LEMMA OrderlyStep == OrderlyInv /\ [Next]_vars => OrderlyInv'
  <1> SUFFICES ASSUME OrderlyInv, [Next]_vars PROVE OrderlyInv'
    OBVIOUS
  <1>1. CASE UNCHANGED vars
    <2>1. \A v \in Updates : (Local(v) => Local(v)') /\ (Calm(v) => Calm(v)') /\ (Locked(v)' <=> Locked(v))
      BY <1>1, Untouched DEF vars
    <2> QED
      BY <1>1, <2>1 DEF vars, OrderlyInv, Sound, Shaped, Sited, ProjectType, Exclusive
  <1>2. ASSUME NEW u \in Updates, Works(u) \/ Refreshes(u) \/ Begins(u)
        PROVE  OrderlyInv'
    <2>1. Effect(u)
      BY <1>2 DEF Works, Refreshes, Begins
    <2>2. \A v \in Updates : v # u => (Local(v)' /\ (Calm(v) => Calm(v)') /\ (Locked(v)' <=> Locked(v)))
      BY <2>1, Untouched DEF Effect, OrderlyInv, Sound
    <2>3. ProjectType'
      BY <1>2, <2>1 DEF Works, Refreshes, Begins, LeavesProject, Effect, OrderlyInv, Sound, ProjectType
    <2>4. Sound'
      BY <2>1, <2>2, <2>3 DEF Effect, OrderlyInv, Sound
    <2>5. faults' = 0 => \A v \in Updates : Calm(v)'
      BY <2>1, <2>2 DEF Effect, OrderlyInv
    <2>6. Exclusive'
      <3>1. CASE KeepsLock(u)
        BY <2>1, <2>2, <3>1 DEF KeepsLock, Effect, OrderlyInv, Exclusive
      <3>2. CASE LockFree
        BY <2>1, <2>2, <3>2 DEF LockFree, Effect, OrderlyInv, Exclusive
      <3> QED
        BY <1>2, <3>1, <3>2 DEF Works, Refreshes, Begins
    <2> QED
      BY <2>4, <2>5, <2>6 DEF OrderlyInv
  <1>3. ASSUME NEW u \in Updates, Struck(u)
        PROVE  OrderlyInv'
    <2>1. \A v \in Updates : v # u => (Local(v)' /\ (Locked(v)' <=> Locked(v)))
      BY <1>3, Untouched DEF Struck, OrderlyInv, Sound
    <2>2. Sound'
      BY <1>3, <2>1 DEF Struck, LeavesProject, OrderlyInv, Sound, ProjectType
    <2>3. faults' # 0
      BY <1>3 DEF Struck, OrderlyInv, Sound, Shaped
    <2>4. Exclusive'
      BY <1>3, <2>1 DEF Struck, KeepsLock, OrderlyInv, Exclusive
    <2> QED
      BY <2>2, <2>3, <2>4 DEF OrderlyInv
  <1>4. CASE PowerLoss
    <2>1. Shaped' /\ \A u \in Updates : Local(u)' /\ ~Locked(u)'
      BY <1>4, PowerLossStep DEF OrderlyInv, Sound
    <2>2. ProjectType'
      BY <1>4 DEF PowerLoss, OrderlyInv, Sound, ProjectType
    <2>3. faults' # 0
      BY <1>4 DEF PowerLoss, Fault, OrderlyInv, Sound, Shaped
    <2> QED
      BY <2>1, <2>2, <2>3 DEF OrderlyInv, Sound, Exclusive
  <1>5. CASE Elsewhere
    <2>1. \A v \in Updates : (Local(v) => Local(v)') /\ (Calm(v) => Calm(v)') /\ (Locked(v)' <=> Locked(v))
      BY <1>5, Untouched DEF Elsewhere
    <2>2. Sound'
      BY <1>5, <2>1 DEF Elsewhere, OrderlyInv, Sound, Shaped, Sited
    <2>3. Exclusive'
      BY <1>5, <2>1 DEF Elsewhere, OrderlyInv, Exclusive
    <2> QED
      BY <1>5, <2>1, <2>2, <2>3 DEF Elsewhere, OrderlyInv
  <1> QED
    BY <1>1, <1>2, <1>3, <1>4, <1>5, StepKinds DEF OrderlyInv

\* Nothing breaks the order in which the processes of an update are started,
\* the exclusiveness of the project lock, or the fit of the processes before
\* the first fault.
THEOREM Orderly == Spec => []OrderlyInv
  BY OrderlyInit, OrderlyStep, PTL DEF Spec

\* The types follow.
LEMMA SoundTypes == Sound => TypeOK
  <1> SUFFICES ASSUME Sound PROVE TypeOK
    OBVIOUS
  <1>1. \A u \in Updates : DOMAIN at[u] = Processes /\ \A p \in Processes : at[u][p] \in Places[p]
    BY ProcessNames DEF Sound, Shaped, Sited
  <1>2. \A u \in Updates :
          /\ at[u].supervisor # "none" => at[u].owner # "none"
          /\ at[u].guardian # "none" => at[u].shell # "none"
          /\ at[u].main # "none" => at[u].body # "none"
    BY DEF Sound, Local, InOrder
  <1> QED
    BY <1>1, <1>2 DEF Sound, Shaped, ProjectType, TypeOK

\* The type invariant, whatever is killed and how often.
THEOREM TypeCorrect == Spec => []TypeOK
  BY Orderly, SoundTypes, PTL DEF OrderlyInv

-----------------------------------------------------------------------------
(* What holds unless a guardian is killed together with others *)

\* A guardian that is dead, or has given up, while somebody of its body's group
\* lives is the only fault so far.  Any number of other faults is allowed.
GuardianKilledAlone ==
  \A u \in Updates :
    at[u].guardian = "failed" /\ (Alive(u, "body") \/ Alive(u, "main")) => faults <= 1

\* Every main has its guardian, or its shell.
Guarded == \A u \in Updates : Kept(u)

\* Nothing runs at the start.
LEMMA GuardedInit == Init => Guarded
  <1> SUFFICES ASSUME Init PROVE Guarded
    OBVIOUS
  <1>1. \A u \in Updates : at[u].body = "none" /\ at[u].main = "none"
    BY ProcessNames DEF Init, Names
  <1> QED
    BY <1>1 DEF Guarded, Kept, Busy, Alive

\* A guardian ends in its own way only when its group is gone; one that is
\* killed leaves an update that was calm, and no other fault follows.
LEMMA GuardedStep ==
  OrderlyInv /\ OrderlyInv' /\ Guarded /\ GuardianKilledAlone' /\ [Next]_vars => Guarded'
  <1> SUFFICES ASSUME OrderlyInv, OrderlyInv', Guarded, GuardianKilledAlone', [Next]_vars
               PROVE  Guarded'
    OBVIOUS
  <1>1. ASSUME NEW v \in Updates, at'[v] = at[v], sent'[v] = sent[v], snapshot'[v] = snapshot[v],
               faults' = faults \/ (faults' = faults + 1 /\ faults' # faults)
        PROVE  Kept(v)'
    <2>1. /\ Busy(v)' <=> Busy(v)
          /\ Calm(v) => Calm(v)'
      BY <1>1, Untouched
    <2>2. faults \in Nat /\ faults' \in Nat
      BY UpdaterAssumption DEF OrderlyInv, Sound, Shaped
    <2>3. Busy(v)' => Alive(v, "body")' \/ Alive(v, "main")'
      BY DEF Busy, Alive, Ended
    <2> QED
      BY <1>1, <2>1, <2>2, <2>3 DEF Guarded, Kept, GuardianKilledAlone
  <1>2. CASE UNCHANGED vars
    BY <1>1, <1>2 DEF vars, Guarded
  <1>3. ASSUME NEW u \in Updates, Effect(u)
        PROVE  Guarded'
    BY <1>1, <1>3 DEF Effect, Guarded
  <1>4. ASSUME NEW u \in Updates, Struck(u)
        PROVE  Guarded'
    <2>1. faults \in Nat /\ faults' = faults + 1
      BY <1>4, UpdaterAssumption DEF Struck, OrderlyInv, Sound, Shaped
    <2>2. Busy(u)' => Alive(u, "body")' \/ Alive(u, "main")'
      BY DEF Busy, Alive, Ended
    <2>3. CASE at'[u].guardian = "failed" /\ Busy(u)'
      <3>1. faults = 0 /\ faults' = 1
        BY <2>1, <2>2, <2>3 DEF GuardianKilledAlone
      <3>2. Busy(u) /\ at[u].guardian # "failed"
        BY <1>4, <2>3, <3>1 DEF Struck, Guarded, Kept
      <3>3. Calm(u)'
        BY <1>4, <2>3, <3>1, <3>2 DEF Struck, OrderlyInv
      <3> QED
        BY <1>1, <1>4, <2>1, <2>3, <3>1, <3>3 DEF Struck, Guarded, Kept
    <2>4. CASE at'[u].guardian # "failed" \/ ~Busy(u)'
      <3>1. Kept(u)'
        BY <1>4, <2>4 DEF Struck, Guarded, Kept
      <3> QED
        BY <1>1, <1>4, <2>1, <3>1 DEF Struck, Guarded
    <2> QED
      BY <2>3, <2>4
  <1>5. CASE PowerLoss
    BY <1>5, PowerLossStep DEF OrderlyInv, Sound, Guarded, Kept
  <1>6. CASE Elsewhere
    BY <1>1, <1>6 DEF Elsewhere, Guarded
  <1> QED
    BY <1>2, <1>3, <1>4, <1>5, <1>6, StepKinds DEF OrderlyInv, Works, Refreshes, Begins

\* Main runs under the lock, with its snapshot.
LEMMA MainUnderLock ==
  ASSUME OrderlyInv, Guarded, NEW u \in Updates, Alive(u, "main")
  PROVE  Locked(u) /\ snapshot[u] = "present"
  <1>1. Alive(u, "guardian") \/ Alive(u, "shell")
    BY DEF Guarded, Kept, Busy, Calm, Alive, Ended
  <1> QED
    BY <1>1, LockPlaces DEF OrderlyInv, Sound, Local, Copied

\* The invariant of the project on disk.
ProjectInv == Marked /\ \A u \in Updates : Written(u)

\* Nothing has been written at the start.
LEMMA ProjectInit == Init => ProjectInv
  <1> SUFFICES ASSUME Init PROVE ProjectInv
    OBVIOUS
  <1>1. \A u \in Updates : at[u].main = "none"
    BY ProcessNames DEF Init, Names
  <1> QED
    BY <1>1 DEF Init, ProjectInv, Marked, Written, Writing, Past

\* Nothing is claimed of an update whose main has ended and that has let go.
LEMMA IdleWritten ==
  ASSUME NEW v \in Updates, ~Locked(v)', ~Alive(v, "main")'
  PROVE  Written(v)'
  BY DEF Written, Writing, Past, Alive, Ended

\* Main writes under the lock; everybody else leaves the project alone, or
\* changes it while no update holds the lock.
LEMMA ProjectStep ==
  OrderlyInv /\ Guarded /\ ProjectInv /\ [Next]_vars => ProjectInv'
  <1> SUFFICES ASSUME OrderlyInv, Guarded, ProjectInv, [Next]_vars
               PROVE  ProjectInv'
    OBVIOUS
  <1>1. ASSUME NEW v \in Updates, at'[v].main = at[v].main, Locked(v)' => Locked(v),
               UNCHANGED project, workspaces' \subseteq workspaces
        PROVE  Written(v)'
    BY <1>1 DEF ProjectInv, Written, Writing, Past
  <1>2. ASSUME NEW v \in Updates, at'[v] = at[v]
        PROVE  Locked(v)' <=> Locked(v)
    BY <1>2, LockPlaces DEF Alive
  <1>3. ASSUME NEW u \in Updates, LeavesProject(u), KeepsLock(u) \/ at[u].main = "none",
               \A v \in Updates : v # u => at'[v] = at[v], UNCHANGED sessions
        PROVE  ProjectInv'
    <2>1. Written(u)'
      <3>1. CASE at'[u].main = at[u].main /\ KeepsLock(u)
        BY <1>1, <1>3, <3>1 DEF LeavesProject, KeepsLock
      <3>2. CASE at'[u].main \in {"none", "failed", "checking"}
        BY <3>2 DEF Written, Writing, Past
      <3> QED
        BY <1>3, <3>1, <3>2 DEF LeavesProject
    <2>2. \A v \in Updates : v # u => Written(v)'
      BY <1>1, <1>2, <1>3 DEF LeavesProject
    <2> QED
      BY <1>3, <2>1, <2>2 DEF ProjectInv, Marked, LeavesProject
  <1>4. CASE UNCHANGED vars
    BY <1>1, <1>2, <1>4 DEF vars, ProjectInv, Marked
  <1>5. ASSUME NEW u \in Updates, Works(u) \/ Begins(u) \/ Struck(u)
        PROVE  ProjectInv'
    BY <1>3, <1>5 DEF Works, Begins, Struck, Effect
  <1>6. ASSUME NEW u \in Updates, Refreshes(u)
        PROVE  ProjectInv'
    <2>1. Locked(u)
      BY <1>6, MainUnderLock DEF Refreshes
    <2>2. Written(u)' /\ Marked'
      BY <1>6, <2>1 DEF Refreshes, ProjectInv, OrderlyInv, Exclusive
    <2>3. \A v \in Updates : v # u => ~Locked(v)' /\ ~Alive(v, "main")'
      <3>1. \A v \in Updates : v # u => ~Locked(v) /\ ~Alive(v, "main")
        BY <2>1, MainUnderLock DEF OrderlyInv, Exclusive
      <3> QED
        BY <1>2, <1>6, <3>1 DEF Refreshes, Effect, Alive
    <2> QED
      BY <2>2, <2>3, IdleWritten DEF ProjectInv
  <1>7. CASE PowerLoss
    <2>1. \A u \in Updates : ~Locked(u)' /\ ~Alive(u, "main")'
      BY <1>7, PowerLossStep DEF OrderlyInv, Sound, Alive
    <2>2. Marked'
      BY <1>7 DEF PowerLoss, OrderlyInv, Sound, ProjectType, ProjectInv, Marked
    <2> QED
      BY <2>1, <2>2, IdleWritten DEF ProjectInv
  <1>8. CASE Elsewhere
    <2>1. CASE UNCHANGED project
      BY <1>1, <1>2, <1>8, <2>1 DEF Elsewhere, ProjectInv, Marked
    <2>2. CASE ~UNCHANGED project
      <3>1. \A u \in Updates : ~Locked(u)
        BY <1>8, <2>2 DEF Elsewhere, OrderlyInv, Exclusive, LockFree
      <3>2. \A u \in Updates : ~Locked(u)' /\ ~Alive(u, "main")'
        BY <1>2, <1>8, <3>1, MainUnderLock DEF Elsewhere, Alive
      <3>3. Marked'
        BY <1>8, <2>2 DEF Elsewhere, ProjectInv, Marked
      <3> QED
        BY <3>2, <3>3, IdleWritten DEF ProjectInv
    <2> QED
      BY <2>1, <2>2
  <1> QED
    BY <1>4, <1>5, <1>6, <1>7, <1>8, StepKinds DEF OrderlyInv

\* The inductive invariant of the theorems below.
SafeInv == OrderlyInv /\ Guarded /\ ProjectInv

\* It holds as long as no guardian is killed together with others.
THEOREM Safe == Spec /\ []GuardianKilledAlone => []SafeInv
  <1>1. Init => SafeInv
    BY OrderlyInit, GuardedInit, ProjectInit DEF SafeInv
  <1>2. SafeInv /\ GuardianKilledAlone' /\ [Next]_vars => SafeInv'
    BY OrderlyStep, GuardedStep, ProjectStep DEF SafeInv
  <1> QED
    BY <1>1, <1>2, PTL DEF Spec

\* The safety invariants of the model follow.
LEMMA SafeWriting == SafeInv => NoWriterOutlivesLock /\ SnapshotOutlivesMain /\ SessionSeesWhole
  <1> SUFFICES ASSUME SafeInv
               PROVE  NoWriterOutlivesLock /\ SnapshotOutlivesMain /\ SessionSeesWhole
    OBVIOUS
  <1>1. \A u \in Updates : Writing(u) => Alive(u, "main")
    BY DEF Writing, Alive, Ended
  <1>2. NoWriterOutlivesLock
    BY <1>1, MainUnderLock DEF SafeInv, OrderlyInv, Exclusive, NoWriterOutlivesLock
  <1>3. SnapshotOutlivesMain
    BY MainUnderLock DEF SafeInv, SnapshotOutlivesMain
  <1>4. SessionSeesWhole
    BY DEF SafeInv, ProjectInv, Marked, SessionSeesWhole
  <1> QED
    BY <1>2, <1>3, <1>4

\* While main may write the project, its own shell or guardian holds the
\* project lock, no session runs and no other update writes.
THEOREM WriterUnderLock == Spec /\ []GuardianKilledAlone => []NoWriterOutlivesLock
  BY Safe, SafeWriting, PTL

\* The private snapshot is there as long as main runs.
THEOREM SnapshotKept == Spec /\ []GuardianKilledAlone => []SnapshotOutlivesMain
  BY Safe, SafeWriting, PTL

\* No session ever runs on infrastructure of two ages.
THEOREM SessionsWhole == Spec /\ []GuardianKilledAlone => []SessionSeesWhole
  BY Safe, SafeWriting, PTL

\* Every step earns the success it reports.
LEMMA Earning ==
  OrderlyInv /\ [Next]_vars => \A u \in Updates : Earned(u)
  <1> SUFFICES ASSUME OrderlyInv, [Next]_vars
               PROVE  \A u \in Updates : Earned(u)
    OBVIOUS
  <1>1. \A v \in Updates : at'[v] = at[v] => Earned(v)
    BY DEF Earned
  <1>2. ASSUME NEW u \in Updates, Works(u) \/ Refreshes(u) \/ Begins(u) \/ Struck(u)
        PROVE  \A v \in Updates : Earned(v)
    BY <1>1, <1>2 DEF Works, Refreshes, Begins, Struck, Effect
  <1> QED
    BY <1>1, <1>2, StepKinds, PowerLossStep DEF OrderlyInv, Sound, Elsewhere, vars

\* update.sh reports success only of a refresh that is whole, durable and
\* unmarked, with no stale paper left, and with the snapshot removed.
THEOREM SuccessEarned == Spec /\ []GuardianKilledAlone => SuccessMeansRefreshed
  <1>1. ASSUME SafeInv, [Next]_vars, NEW u \in Updates
        PROVE  /\ at[u].shell # "ok" /\ at'[u].shell = "ok" =>
                    /\ project.infra = "new" /\ project.manifest = "new"
                    /\ project.synced /\ ~project.marker /\ project.paper # "stale"
                    /\ u \notin workspaces
               /\ at[u].launcher # "ok" /\ at'[u].launcher = "ok" =>
                    at[u].shell = "ok" /\ snapshot[u] = "absent"
    <2>1. Earned(u)
      BY <1>1, Earning DEF SafeInv
    <2>2. ASSUME at[u].shell # "ok", at'[u].shell = "ok"
          PROVE  Past(u, {})
      BY <1>1, <2>1, <2>2, LockPlaces DEF Earned, SafeInv, OrderlyInv, Sound, Local, Reported, Past
    <2>3. Past(u, {}) => /\ project.infra = "new" /\ project.manifest = "new"
                         /\ project.synced /\ ~project.marker /\ project.paper # "stale"
                         /\ u \notin workspaces
      BY <1>1 DEF SafeInv, ProjectInv, Written, Past
    <2>4. ASSUME at[u].launcher # "ok", at'[u].launcher = "ok"
          PROVE  at[u].shell = "ok" /\ snapshot[u] = "absent"
      BY <1>1, <2>1, <2>4 DEF Earned, SafeInv, OrderlyInv, Sound, Local, Reported, Copied
    <2> QED
      BY <2>2, <2>3, <2>4
  <1>2. SafeInv /\ [Next]_vars =>
          [\A u \in Updates :
            /\ at[u].shell # "ok" /\ at'[u].shell = "ok" =>
                 /\ project.infra = "new" /\ project.manifest = "new"
                 /\ project.synced /\ ~project.marker /\ project.paper # "stale"
                 /\ u \notin workspaces
            /\ at[u].launcher # "ok" /\ at'[u].launcher = "ok" =>
                 at[u].shell = "ok" /\ snapshot[u] = "absent"]_vars
    BY <1>1
  <1> QED
    BY <1>2, Safe, PTL DEF Spec, SuccessMeansRefreshed

\* With one fault the hypothesis holds by itself.
LEMMA OneFaultAlone == MaxFaults <= 1 /\ Sound => GuardianKilledAlone
  BY UpdaterAssumption DEF Sound, Shaped, GuardianKilledAlone

\* Whatever the one fault is, a kill of any process, an interrupt or a power
\* loss, and whenever it comes: all of the above holds.
THEOREM OneFaultSafe ==
  ASSUME MaxFaults <= 1
  PROVE  Spec => /\ [](NoWriterOutlivesLock /\ SnapshotOutlivesMain /\ SessionSeesWhole)
                 /\ SuccessMeansRefreshed
  <1>1. Spec => []GuardianKilledAlone
    <2>1. OrderlyInv => GuardianKilledAlone
      BY OneFaultAlone DEF OrderlyInv
    <2> QED
      BY <2>1, Orderly, PTL
  <1> QED
    BY <1>1, Safe, SafeWriting, SuccessEarned, PTL

=============================================================================
