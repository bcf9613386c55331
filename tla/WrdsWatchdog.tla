---------------------------- MODULE WrdsWatchdog ----------------------------
(***************************************************************************)
(* The loop of the host watchdog (wrds_watchdog.py): look at the           *)
(* registered launchers, probe the daemon, decide, repair.                 *)
(*                                                                         *)
(* One watchdog is modelled.  Around it the daemon, an older release's     *)
(* server, the retry latch, launchers and operators change at every step.  *)
(* What a daemon does with its latch is WrdsDaemon's subject; here it is   *)
(* reduced to what a probe and a start can see of it.  Time is counted in  *)
(* ticks of the loop, and every age stops at the largest limit that it is  *)
(* compared with.                                                          *)
(***************************************************************************)
EXTENDS Integers

CONSTANTS
    Wedge,        \* WEDGE_SECONDS, in ticks
    Backoff,      \* RESTART_BACKOFF_SECONDS
    IdleExit,     \* IDLE_EXIT_SECONDS
    MaxFailed,    \* MAX_FAILED_RESTARTS
    MaxLaunches,  \* bound: launches
    MaxFaults     \* bound: what goes wrong or changes around the watchdog

ASSUME LimitAssumption ==
    /\ Wedge \in Nat \ {0} /\ Backoff \in Nat /\ IdleExit \in Nat
    /\ MaxFailed \in Nat \ {0} /\ MaxLaunches \in Nat /\ MaxFaults \in Nat

VARIABLES
    (* the host *)
    daemon,    \* a server of this release
    older,     \* a server of an older release, and whether it has a launcher
    latch,     \* AUTH_BLOCK_FILE
    wanting,   \* registered launchers, by time of registration, that are alive
               \* and whose project needs WRDS
    edited,    \* launchers whose WRDS files have changed since
    keyless,   \* launchers whose .env gives the watchdog no WRDS credentials
    launched,  \* launches so far
    vetoed,    \* WRDS_AUTO_RELOGIN=0 somewhere
    faults,    \* faults so far
    (* the watchdog *)
    at,        \* where run() is
    seen,      \* the newest launcher of this round, 0 if there is none
    veto,      \* auto_relogin of this round
    kind,      \* what the probe of this round has found, "none" before
    memory,    \* run()'s memory
    idle,      \* ticks without a launcher
    status,    \* STATUS_FILE
    (* for the properties *)
    alive,     \* ticks since a probe was answered at all
    served     \* ticks since a probe was served, or an outcome of a login seen

host == <<daemon, older, latch, wanting, edited, keyless, launched, vetoed, faults>>
round == <<seen, veto, kind>>
history == <<alive, served>>
vars == <<host, at, round, memory, idle, status, history>>

SaturationWedge == 2 * Wedge

Older(age, limit) == IF age < limit THEN age + 1 ELSE limit

Off == -1

(* A clock of memory that runs. *)
Running(clock, limit) == IF clock = Off THEN Off ELSE Older(clock, limit)

Started(clock) == IF clock = Off THEN 0 ELSE clock

Kinds == {"healthy", "saturated", "login_in_progress", "latched", "unhealthy",
          "down", "incompatible", "none"}

Forgotten == [unhealthy |-> Off, saturated |-> Off, rest |-> Backoff,
              failed |-> 0, failedKind |-> "other", failedEpoch |-> 0]

Init ==
    /\ daemon = "none" /\ older \in {"none", "used", "orphan"} /\ latch = "none"
    /\ wanting = {} /\ edited = {} /\ keyless = {} /\ launched = 0
    /\ vetoed = FALSE /\ faults = 0
    /\ at = "look" /\ seen = 0 /\ veto = FALSE /\ kind = "none"
    /\ memory = Forgotten /\ idle = 0 /\ status = "none"
    /\ alive = 0 /\ served = 0

-----------------------------------------------------------------------------
(* One round of run() *)

(* The variables of a round are assigned anew in the next one. *)
EndRound == seen' = 0 /\ veto' = FALSE /\ kind' = "none"

(* live_launchers(), newest first, and auto_relogin_enabled(). *)
Look ==
    /\ at = "look"
    /\ \E newest \in wanting :
         /\ \A l \in wanting : l <= newest
         /\ seen' = newest
    /\ veto' = vetoed
    /\ at' = "probe" /\ idle' = 0
    /\ UNCHANGED <<host, kind, memory, status, history>>

Idle ==
    /\ at = "look" /\ wanting = {} /\ idle < IdleExit
    /\ status' = "idle" /\ at' = "sleep"
    /\ UNCHANGED <<host, round, memory, idle, history>>

Leave ==
    /\ at = "look" /\ wanting = {} /\ idle = IdleExit
    /\ status' = "stopped" /\ at' = "gone"
    /\ UNCHANGED <<host, round, memory, idle, history>>

(* Every answer that probe() may get.  An older release refuses the        *)
(* protocol; one without the endpoint is found by the process scan, after  *)
(* the latch.  A ping beside another client's health check is unhealthy.   *)
Answers ==
    CASE daemon = "serving" -> {"healthy"}
      [] daemon = "busy" -> {"saturated"}
      [] daemon = "relogin" -> {"healthy", "unhealthy"}
      [] daemon = "wedged" -> {"unhealthy", "saturated"}
      [] daemon = "latched" -> {"latched"}
      [] daemon = "login" -> {"login_in_progress"}
      [] daemon = "starting" -> IF latch = "none" THEN {"unhealthy"} ELSE {"latched"}
      [] daemon = "none" /\ older = "none" ->
           IF latch = "none" THEN {"down"} ELSE {"latched"}
      [] OTHER -> {"incompatible"} \cup
           (CASE latch = "none" -> {}
              [] latch = "attempt" -> {"login_in_progress"}
              [] OTHER -> {"latched"})

Probe ==
    /\ at = "probe"
    /\ kind' \in Answers
    /\ alive' = IF kind' \in {"healthy", "saturated", "login_in_progress", "latched"}
                THEN 0 ELSE alive
    /\ served' = IF kind' \in {"healthy", "login_in_progress", "latched"}
                 THEN 0 ELSE served
    /\ at' = "decide"
    /\ UNCHANGED <<host, seen, veto, memory, idle, status>>

-----------------------------------------------------------------------------
(* decide() *)

(* Mutant: a healthy answer leaves the clock of the wedge running. *)
HealthyForgotten == [memory EXCEPT !.saturated = Off, !.failed = 0]

Healthy == [memory EXCEPT !.unhealthy = Off, !.saturated = Off, !.failed = 0]

(* Mutant: a busy daemon leaves the clock of the wedge running. *)
StaleClocks ==
    IF kind # "saturated" THEN [memory EXCEPT !.saturated = Off]
    ELSE [memory EXCEPT !.saturated = Started(@),
                        !.unhealthy = IF Started(memory.saturated) = SaturationWedge
                                      THEN Wedge ELSE @]

(* At its cap for too long, the daemon counts as wedged. *)
Clocks ==
    IF kind # "saturated" THEN [memory EXCEPT !.saturated = Off]
    ELSE [memory EXCEPT !.saturated = Started(@),
                        !.unhealthy = IF Started(memory.saturated) = SaturationWedge
                                      THEN Wedge ELSE Off]

Saturated == kind = "saturated" /\ Clocks.saturated < SaturationWedge

Trouble == kind \in {"down", "unhealthy", "incompatible"} \/ (kind = "saturated" /\ ~Saturated)

Lifted(m) ==
    /\ m.failed >= MaxFailed
    /\ \/ seen > m.failedEpoch
       \/ m.failedKind = "incompatible" /\ kind # "incompatible"

Counted == [Clocks EXCEPT !.failed = IF Lifted(Clocks) THEN 0 ELSE @]

UpToOperator == Counted.failed >= MaxFailed \/ veto

(* The clock of a wedge starts with its first answer. *)
Suspected ==
    IF kind = "unhealthy" THEN [Counted EXCEPT !.unhealthy = Started(@)] ELSE Counted

Due ==
    /\ memory.rest >= Backoff
    /\ kind \in {"unhealthy", "saturated"} => Suspected.unhealthy >= Wedge

Conclude(m, state, place) ==
    /\ memory' = m /\ status' = state /\ at' = place
    /\ UNCHANGED <<host, round, idle, alive, served>>

Decide ==
    /\ at = "decide"
    /\ \/ kind = "healthy" /\ Conclude(Healthy, "monitoring", "sleep")
       \/ Saturated /\ Conclude(Clocks, "monitoring", "sleep")
       \/ /\ kind \in {"login_in_progress", "latched"}
          /\ Conclude([Clocks EXCEPT !.unhealthy = Off],
                      IF kind = "latched" THEN "operator_required" ELSE "healing",
                      "sleep")
       \/ Trouble /\ UpToOperator /\ Conclude(Counted, "operator_required", "sleep")
       \/ Trouble /\ ~UpToOperator /\ ~Due /\ Conclude(Suspected, "healing", "sleep")
       \/ Trouble /\ ~UpToOperator /\ Due /\ Conclude(Suspected, "healing", "repair")

(* TICK_SECONDS pass. *)
Aged(m) == [m EXCEPT !.unhealthy = Running(@, Wedge),
                     !.saturated = Running(@, SaturationWedge),
                     !.rest = Older(@, Backoff)]

Sleep ==
    /\ at = "sleep"
    /\ at' = "look"
    /\ memory' = Aged(memory)
    /\ idle' = IF status = "idle" THEN Older(idle, IdleExit) ELSE idle
    /\ alive' = Older(alive, Wedge)
    /\ served' = Older(served, SaturationWedge)
    /\ EndRound
    /\ UNCHANGED <<host, status>>
-----------------------------------------------------------------------------
(* perform() *)

(* Of the kind of the last failure decide() asks only this.                *)
FailureKind == IF kind = "incompatible" THEN "incompatible" ELSE "other"

Failed(m, terminal) ==
    [m EXCEPT !.failedKind = FailureKind, !.failedEpoch = seen,
              !.failed = IF terminal THEN MaxFailed ELSE @ + 1]

(* The end of a repair: the next round begins at once. *)
Repaired(m) == memory' = m /\ at' = "look" /\ EndRound

RefuseEdited ==
    /\ at = "repair" /\ seen \in edited
    /\ Repaired(Failed(memory, TRUE))
    /\ UNCHANGED <<host, idle, status, history>>

Restarting(m) ==
    /\ memory' = [m EXCEPT !.rest = 0, !.unhealthy = Off, !.saturated = Off]
    /\ at' = "start"

RestartDown ==
    /\ at = "repair" /\ seen \notin edited /\ kind = "down"
    /\ Restarting(memory)
    /\ UNCHANGED <<host, round, idle, status, history>>

(* A server that is killed leaves its login attempt behind. *)
LatchWithout(attempt) == IF attempt /\ latch = "attempt" THEN "blocked" ELSE latch

Wedged == at = "repair" /\ seen \notin edited /\ kind \in {"unhealthy", "saturated"}

(* stop_singleton_owner(): whoever holds the marker by now. *)
StopOwner ==
    /\ Wedged
    /\ daemon' = "none"
    /\ latch' = LatchWithout(daemon # "none")
    /\ Restarting(memory)
    /\ UNCHANGED <<older, wanting, edited, keyless, launched, vetoed, faults,
                   round, idle, status, history>>

StopOwnerFails ==
    /\ Wedged /\ daemon # "none"
    /\ faults < MaxFaults /\ faults' = faults + 1
    /\ Repaired(Failed([memory EXCEPT !.rest = 0], FALSE))
    /\ UNCHANGED <<daemon, older, latch, wanting, edited, keyless, launched, vetoed,
                   idle, status, history>>

(* orphaned_incompatible_daemons(): an older server with no launcher, and  *)
(* no server of this release beside it.                                    *)
Orphaned == older = "orphan" /\ daemon = "none"

ReplaceRefused ==
    /\ at = "repair" /\ seen \notin edited /\ kind = "incompatible" /\ ~Orphaned
    /\ Repaired(Failed(memory, TRUE))
    /\ UNCHANGED <<host, idle, status, history>>

FoundOrphan ==
    /\ at = "repair" /\ seen \notin edited /\ kind = "incompatible" /\ Orphaned
    /\ at' = "replace"
    /\ UNCHANGED <<host, round, memory, idle, status, history>>

StopOrphan ==
    /\ at = "replace"
    /\ older' = "none"
    /\ latch' = LatchWithout(older # "none")
    /\ Restarting(memory)
    /\ UNCHANGED <<daemon, wanting, edited, keyless, launched, vetoed, faults,
                   round, idle, status, history>>

StopOrphanFails ==
    /\ at = "replace" /\ older # "none"
    /\ Repaired(Failed(memory, TRUE))
    /\ UNCHANGED <<host, idle, status, history>>

(* start_services.sh takes its credentials from the project's .env, for    *)
(* the watchdog strips those of the environment.  Without them it starts   *)
(* nothing and exits 0, which run_start_services takes for success.        *)
StartSkipped ==
    /\ at = "start" /\ seen \in keyless
    /\ Repaired([memory EXCEPT !.failed = 0])
    /\ UNCHANGED <<host, idle, status, history>>

(* With credentials, a server that answers is used, one that logs in is    *)
(* waited for, and a latch, an older server or a live marker end the start.*)
Starting == at = "start" /\ seen \notin keyless

StartServer ==
    /\ Starting
    /\ daemon = "none" /\ older = "none" /\ latch = "none"
    /\ daemon' = "starting" /\ at' = "wait"
    /\ UNCHANGED <<older, latch, wanting, edited, keyless, launched, vetoed, faults,
                   round, memory, idle, status, history>>

JoinServer ==
    /\ Starting /\ daemon \in {"login", "relogin"}
    /\ at' = "wait"
    /\ UNCHANGED <<host, round, memory, idle, status, history>>

Ready == daemon \in {"serving", "busy", "relogin"}

(* The time a start has taken, in ticks. *)
Took(d) ==
    /\ d \in 0..1
    /\ alive' = IF d = 1 THEN Older(alive, Wedge) ELSE alive
    /\ served' = IF d = 1 THEN Older(served, SaturationWedge) ELSE served

After(d, m) == IF d = 1 THEN Aged(m) ELSE m

StartSucceeds(d) ==
    /\ (Starting \/ at = "wait")
    /\ Ready
    /\ Took(d)
    /\ Repaired(After(d, [memory EXCEPT !.failed = 0]))
    /\ UNCHANGED <<host, idle, status>>

(* Mutant: a start that has not reached a login is not counted. *)
StartFailsUncounted(d) ==
    /\ \/ /\ Starting /\ daemon \in {"none", "starting", "wedged", "latched"}
          /\ ~(daemon = "none" /\ older = "none" /\ latch = "none")
       \/ at = "wait" /\ daemon \in {"none", "latched", "wedged"}
    /\ Took(d)
    /\ Repaired(After(d, memory))
    /\ UNCHANGED <<host, idle, status>>

(* A login has an outcome of its own in the latch; only a start that has   *)
(* not reached one is counted.                                             *)
StartFails(d) ==
    /\ \/ /\ Starting /\ daemon \in {"none", "starting", "wedged", "latched"}
          /\ ~(daemon = "none" /\ older = "none" /\ latch = "none")
       \/ at = "wait" /\ daemon \in {"none", "latched", "wedged"}
    /\ Took(d)
    /\ Repaired(After(d, IF latch \in {"none", "unreadable"}
                         THEN Failed(memory, FALSE) ELSE memory))
    /\ UNCHANGED <<host, idle, status>>

(* RESTART_TIMEOUT_SECONDS, 120 s without readiness, or no query bridge.    *)
StartTimesOut ==
    /\ (Starting \/ at = "wait")
    /\ faults < MaxFaults /\ faults' = faults + 1
    /\ Took(1)
    /\ Repaired(Aged(IF latch \in {"none", "unreadable"}
                     THEN Failed(memory, FALSE) ELSE memory))
    /\ UNCHANGED <<daemon, older, latch, wanting, edited, keyless, launched, vetoed,
                   idle, status>>

-----------------------------------------------------------------------------
(* The host: servers and the latch *)

Watching == <<at, round, memory, idle, status, history>>
Launchers == <<wanting, edited, keyless, launched, vetoed>>

Fault == faults < MaxFaults /\ faults' = faults + 1

(* The write-ahead marker, then the login. *)
DaemonLogsIn ==
    /\ daemon = "starting"
    /\ IF latch = "none" /\ older = "none"
       THEN daemon' = "login" /\ latch' = "attempt"
       ELSE daemon' = "none" /\ UNCHANGED latch
    /\ UNCHANGED <<older, Launchers, faults, Watching>>

LoginVerified ==
    /\ daemon \in {"login", "relogin"}
    /\ daemon' = "serving" /\ latch' = "none"
    /\ UNCHANGED <<older, Launchers, faults, Watching>>

LoginRefused ==
    /\ daemon \in {"login", "relogin"} /\ Fault
    /\ daemon' = "latched" /\ latch' = "blocked"
    /\ UNCHANGED <<older, Launchers, Watching>>

(* The session drops and is rebuilt. *)
DaemonReconnects ==
    /\ daemon = "serving" /\ latch = "none" /\ Fault
    /\ daemon' = "relogin" /\ latch' = "attempt"
    /\ UNCHANGED <<older, Launchers, Watching>>

DaemonLoaded ==
    /\ \/ daemon = "serving" /\ daemon' = "busy"
       \/ daemon \in {"busy", "wedged"} /\ daemon' = "serving"
    /\ UNCHANGED <<older, latch, Launchers, faults, Watching>>

DaemonWedges ==
    /\ daemon \in {"serving", "busy", "starting"} /\ Fault
    /\ daemon' = "wedged"
    /\ UNCHANGED <<older, latch, Launchers, Watching>>

DaemonDies ==
    /\ daemon # "none" /\ Fault
    /\ daemon' = "none" /\ latch' = LatchWithout(TRUE)
    /\ UNCHANGED <<older, Launchers, Watching>>

(* An older release, its launcher and its own logins. *)
OlderStarts ==
    /\ older = "none" /\ daemon = "none" /\ Fault
    /\ older' = "used"
    /\ UNCHANGED <<daemon, latch, Launchers, Watching>>

OlderAbandoned ==
    /\ older = "used"
    /\ older' = "orphan"
    /\ UNCHANGED <<daemon, latch, Launchers, faults, Watching>>

OlderEnds ==
    /\ older # "none"
    /\ older' = "none" /\ latch' = LatchWithout(daemon \notin {"login", "relogin"})
    /\ UNCHANGED <<daemon, Launchers, faults, Watching>>

OlderLogsIn ==
    /\ older # "none" /\ daemon = "none" /\ latch = "none" /\ Fault
    /\ latch' = "attempt"
    /\ UNCHANGED <<daemon, older, Launchers, Watching>>

OlderLoginEnds ==
    /\ older # "none" /\ daemon = "none" /\ latch = "attempt"
    /\ latch' \in {"none", "blocked"}
    /\ UNCHANGED <<daemon, older, Launchers, faults, Watching>>

StateUnreadable ==
    /\ \/ latch = "none" /\ Fault /\ latch' = "unreadable"
       \/ latch = "unreadable" /\ latch' = "none" /\ UNCHANGED faults
    /\ UNCHANGED <<daemon, older, Launchers, Watching>>

-----------------------------------------------------------------------------
(* The host: operators and launchers *)

(* start_services.sh by hand or from a launcher. *)
OperatorStarts ==
    /\ daemon = "none" /\ older = "none" /\ latch = "none"
    /\ daemon' = "starting"
    /\ UNCHANGED <<older, latch, Launchers, faults, Watching>>

(* One approved login, in a new server or in the latched one. *)
Unblock ==
    /\ latch = "blocked" /\ daemon \in {"none", "latched"} /\ older = "none"
    /\ daemon' = "login" /\ latch' = "attempt"
    /\ UNCHANGED <<older, Launchers, faults, Watching>>

(* register_launcher() and ensure_running(), once the services are ready:  *)
(* its own credentials may come from its environment and not from .env.    *)
Launch ==
    /\ launched < MaxLaunches /\ Ready
    /\ launched' = launched + 1
    /\ wanting' = wanting \cup {launched'}
    /\ keyless' \in {keyless, keyless \cup {launched'}}
    /\ IF at = "gone"
       THEN /\ at' = "look" /\ memory' = Forgotten /\ idle' = 0 /\ status' = "none"
       ELSE UNCHANGED <<at, memory, idle, status>>
    /\ UNCHANGED <<daemon, older, latch, edited, vetoed, faults, round, alive, served>>

(* A launcher exits, or the pipeline of its project changes its status to  *)
(* one without WRDS.                                                       *)
Departs(l) ==
    /\ l \in wanting
    /\ wanting' = wanting \ {l}
    /\ UNCHANGED <<daemon, older, latch, edited, keyless, launched, vetoed, faults, Watching>>

(* The status of a project whose launcher is alive changes back. *)
Returns(l) ==
    /\ l \notin wanting
    /\ wanting' = wanting \cup {l}
    /\ UNCHANGED <<daemon, older, latch, edited, keyless, launched, vetoed, faults, Watching>>

Edit(l) ==
    /\ l \notin edited /\ Fault
    /\ edited' = edited \cup {l}
    /\ UNCHANGED <<daemon, older, latch, wanting, keyless, launched, vetoed, Watching>>

(* The credentials leave the project's .env, or come back. *)
EnvChanges(l) ==
    /\ Fault
    /\ keyless' = IF l \in keyless THEN keyless \ {l} ELSE keyless \cup {l}
    /\ UNCHANGED <<daemon, older, latch, wanting, edited, launched, vetoed, Watching>>

Veto ==
    /\ Fault /\ vetoed' = ~vetoed
    /\ UNCHANGED <<daemon, older, latch, wanting, edited, keyless, launched, Watching>>

-----------------------------------------------------------------------------
Watchdog ==
    \/ Look \/ Idle \/ Leave \/ Probe \/ Decide \/ Sleep
    \/ RefuseEdited \/ RestartDown \/ StopOwner \/ StopOwnerFails
    \/ ReplaceRefused \/ FoundOrphan \/ StopOrphan \/ StopOrphanFails
    \/ StartSkipped \/ StartServer \/ JoinServer \/ StartTimesOut
    \/ \E d \in 0..1 : StartSucceeds(d) \/ StartFails(d)

Servers ==
    \/ DaemonLogsIn \/ LoginVerified \/ LoginRefused \/ DaemonReconnects
    \/ DaemonLoaded \/ DaemonWedges \/ DaemonDies
    \/ OlderStarts \/ OlderAbandoned \/ OlderEnds \/ OlderLogsIn
    \/ OlderLoginEnds \/ StateUnreadable

Operators ==
    \/ OperatorStarts \/ Unblock \/ Launch \/ Veto
    \/ \E l \in 1..launched : Departs(l) \/ Returns(l) \/ Edit(l) \/ EnvChanges(l)

Next == Watchdog \/ Servers \/ Operators

Spec == Init /\ [][Next]_vars

(* The watchdog runs on, a server that starts reaches its login, and a     *)
(* login ends.  For a reconnect that is its connect_timeout; for a first   *)
(* login it is the expiry of the Duo push, which the code relies on.       *)
FairSpec ==
    /\ Spec /\ WF_vars(Watchdog)
    /\ WF_vars(DaemonLogsIn) /\ WF_vars(LoginVerified \/ LoginRefused)
    /\ WF_vars(OlderLoginEnds)

-----------------------------------------------------------------------------
Memory == [unhealthy : {Off} \cup 0..Wedge, saturated : {Off} \cup 0..SaturationWedge,
           rest : 0..Backoff, failed : 0..MaxFailed, failedKind : {"incompatible", "other"},
           failedEpoch : 0..MaxLaunches]

HostOK ==
    /\ daemon \in {"none", "starting", "login", "serving", "busy", "relogin",
                   "wedged", "latched"}
    /\ older \in {"none", "used", "orphan"}
    /\ latch \in {"none", "attempt", "blocked", "unreadable"}
    /\ wanting \subseteq 1..MaxLaunches
    /\ edited \subseteq 1..MaxLaunches /\ keyless \subseteq 1..MaxLaunches
    /\ launched \in 0..MaxLaunches
    /\ vetoed \in BOOLEAN /\ faults \in Nat

WatchdogOK ==
    /\ at \in {"look", "probe", "decide", "sleep", "repair", "replace", "start",
               "wait", "gone"}
    /\ seen \in 0..MaxLaunches /\ veto \in BOOLEAN /\ kind \in Kinds
    /\ memory \in Memory /\ idle \in 0..IdleExit
    /\ status \in {"none", "idle", "stopped", "monitoring", "healing",
                   "operator_required"}
    /\ alive \in 0..Wedge /\ served \in 0..SaturationWedge

TypeOK == HostOK /\ WatchdogOK

(* A server of this release is stopped only after WEDGE_SECONDS in which   *)
(* no probe was answered, or twice as long in which none was served        *)
(* (wrds_watchdog.py, "has failed every health probe for WEDGE_SECONDS").  *)
StopsOnlySilent ==
    [][at' = "start" /\ at = "repair" /\ daemon' # daemon =>
         alive >= Wedge \/ served >= SaturationWedge]_vars

(* The launcher a round acts for, 0 if there is none. *)
Newest == CHOOSE l \in {0} \cup wanting :
              \A m \in wanting : m <= l

(* Clients wait while a repair is promised.  As long as the launcher that  *)
(* the watchdog acts for stays the same and has credentials in its .env,   *)
(* no promise is for ever: repairs that fail use up the cap, also when     *)
(* their kinds alternate (decide, "a failure kind that merely oscillates   *)
(* must not re-arm unbounded repairs").                                    *)
HealingEnds ==
    <>[][Newest' = Newest]_vars /\ <>[](Newest \notin keyless) =>
        (status = "healing" ~> status # "healing")
=============================================================================
