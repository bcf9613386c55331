------------------------- MODULE WrdsWatchdogProofs -------------------------
(***************************************************************************)
(* Proofs about WrdsWatchdog, for every limit and any number of launches   *)
(* and faults.                                                             *)
(*                                                                         *)
(* The watchdog stops a server by the clocks in its memory.  The invariant *)
(* says what these clocks prove about the outside: the clock of the wedge  *)
(* is never ahead of the last answer, unless nothing has been served for   *)
(* twice as long, and the clock of a saturated server is never ahead of    *)
(* the last answer that served something.  Between a probe and the         *)
(* decision on it a clock may be ahead, and the decision then resets it.   *)
(***************************************************************************)
EXTENDS WrdsWatchdog, TLAPS

Serves == {"healthy", "login_in_progress", "latched"}

ClockOfWedge ==
    \/ at = "decide" /\ kind \in Serves \cup {"saturated"}
    \/ memory.unhealthy = Off \/ memory.unhealthy <= alive
    \/ served >= SaturationWedge

ClockOfSaturation ==
    \/ at = "decide" /\ kind \in Serves
    \/ memory.saturated = Off \/ memory.saturated <= served

(* A repair that stops a server is due. *)
RepairDue ==
    at = "repair" /\ kind \in {"unhealthy", "saturated"} => memory.unhealthy >= Wedge

(* A repair is begun below the cap. *)
BelowCap ==
    at \in {"repair", "replace", "start", "wait"} => memory.failed < MaxFailed

IInv ==
    /\ TypeOK
    /\ ClockOfWedge /\ ClockOfSaturation /\ RepairDue /\ BelowCap

-----------------------------------------------------------------------------
(* What a tick does to the memory. *)
LEMMA AgedMemory ==
    ASSUME NEW m \in Memory
    PROVE  /\ Aged(m) \in Memory
           /\ Aged(m).failed = m.failed
           /\ m.unhealthy = Off => Aged(m).unhealthy = Off
           /\ m.unhealthy # Off => Aged(m).unhealthy <= m.unhealthy + 1
           /\ m.saturated = Off => Aged(m).saturated = Off
           /\ m.saturated # Off => Aged(m).saturated <= m.saturated + 1
<1>1. /\ m.unhealthy \in {Off} \cup 0..Wedge
      /\ m.saturated \in {Off} \cup 0..SaturationWedge
      /\ m.rest \in 0..Backoff
  BY DEF Memory
<1>2. ASSUME NEW limit \in Nat, NEW clock \in {Off} \cup 0..limit
      PROVE  /\ Running(clock, limit) \in {Off} \cup 0..limit
             /\ clock = Off => Running(clock, limit) = Off
             /\ clock # Off => Running(clock, limit) <= clock + 1
  BY DEF Running, Older, Off
<1>3. /\ Running(m.unhealthy, Wedge) \in {Off} \cup 0..Wedge
      /\ Running(m.saturated, SaturationWedge) \in {Off} \cup 0..SaturationWedge
      /\ m.unhealthy = Off => Running(m.unhealthy, Wedge) = Off
      /\ m.unhealthy # Off => Running(m.unhealthy, Wedge) <= m.unhealthy + 1
      /\ m.saturated = Off => Running(m.saturated, SaturationWedge) = Off
      /\ m.saturated # Off =>
           Running(m.saturated, SaturationWedge) <= m.saturated + 1
  <2>1. Wedge \in Nat /\ SaturationWedge \in Nat
    BY LimitAssumption DEF SaturationWedge
  <2>2. QED
    BY <1>1, <1>2, <2>1
<1>4. Older(m.rest, Backoff) \in 0..Backoff
  BY <1>1, LimitAssumption DEF Older
<1>5. /\ Aged(m) = [m EXCEPT !.unhealthy = Running(m.unhealthy, Wedge),
                            !.saturated = Running(m.saturated, SaturationWedge),
                            !.rest = Older(m.rest, Backoff)]
      /\ Aged(m).unhealthy = Running(m.unhealthy, Wedge)
      /\ Aged(m).saturated = Running(m.saturated, SaturationWedge)
      /\ Aged(m).failed = m.failed
  BY DEF Aged, Memory
<1>6. Aged(m) \in Memory
  BY <1>3, <1>4, <1>5 DEF Memory
<1>7. QED
  BY <1>3, <1>5, <1>6

(* What a failed repair does to it. *)
LEMMA FailedMemory ==
    ASSUME NEW m \in Memory, NEW terminal \in BOOLEAN,
           m.failed < MaxFailed, kind \in Kinds, seen \in 0..MaxLaunches
    PROVE  /\ Failed(m, terminal) \in Memory
           /\ Failed(m, terminal).unhealthy = m.unhealthy
           /\ Failed(m, terminal).saturated = m.saturated
<1>1. m.failed + 1 \in 0..MaxFailed /\ MaxFailed \in 0..MaxFailed
  BY LimitAssumption DEF Memory
<1>2. QED
  BY <1>1 DEF Failed, FailureKind, Memory

(* Ages stay within their limits, and are one tick behind at most. *)
LEMMA OlderAge ==
    ASSUME NEW limit \in Nat, NEW age \in 0..limit
    PROVE  /\ Older(age, limit) \in 0..limit
           /\ Older(age, limit) >= age
           /\ Older(age, limit) = limit \/ Older(age, limit) = age + 1
BY DEF Older

(* The decision keeps the memory in its type. *)
LEMMA DecidedMemory ==
    ASSUME TypeOK
    PROVE  /\ Healthy \in Memory /\ Clocks \in Memory
           /\ [Clocks EXCEPT !.unhealthy = Off] \in Memory
           /\ Counted \in Memory /\ Suspected \in Memory
<1>1. memory \in Memory
  BY DEF TypeOK, WatchdogOK
<1>2. Healthy \in Memory
  <2>1. 0 \in 0..MaxFailed
    BY LimitAssumption
  <2>2. QED
    BY <1>1, <2>1 DEF Healthy, Memory
<1>3. Clocks \in Memory
  <2>1. /\ Wedge \in 0..Wedge
        /\ Started(memory.saturated) \in 0..SaturationWedge
    BY <1>1, LimitAssumption DEF Started, Memory, SaturationWedge
  <2>2. /\ [memory EXCEPT !.saturated = Off] \in Memory
        /\ \A u \in {Off} \cup 0..Wedge :
             [memory EXCEPT !.saturated = Started(memory.saturated),
                            !.unhealthy = u] \in Memory
    BY <1>1, <2>1 DEF Memory
  <2>3. CASE kind # "saturated"
    <3>1. Clocks = [memory EXCEPT !.saturated = Off]
      BY <2>3 DEF Clocks
    <3>2. QED
      BY <2>2, <3>1
  <2>4. CASE kind = "saturated"
    <3>1. PICK u \in {Off, Wedge} :
            Clocks = [memory EXCEPT !.saturated = Started(memory.saturated),
                                    !.unhealthy = u]
      BY <2>4 DEF Clocks
    <3>2. QED
      BY <2>1, <2>2, <3>1
  <2>5. QED
    BY <2>3, <2>4
<1>4. Counted \in Memory
  <2>1. 0 \in 0..MaxFailed /\ Clocks.failed \in 0..MaxFailed
    BY <1>3, LimitAssumption DEF Memory
  <2>2. /\ [Clocks EXCEPT !.failed = 0] \in Memory
        /\ [Clocks EXCEPT !.failed = Clocks.failed] \in Memory
    BY <1>3, <2>1 DEF Memory
  <2>3. CASE Lifted(Clocks)
    <3>1. Counted = [Clocks EXCEPT !.failed = 0]
      BY <2>3 DEF Counted
    <3>2. QED
      BY <2>2, <3>1
  <2>4. CASE ~Lifted(Clocks)
    <3>1. Counted = [Clocks EXCEPT !.failed = Clocks.failed]
      BY <2>4 DEF Counted
    <3>2. QED
      BY <2>2, <3>1
  <2>5. QED
    BY <2>3, <2>4
<1>5. Suspected \in Memory
  <2>1. Started(Counted.unhealthy) \in {Off} \cup 0..Wedge
    BY <1>4, LimitAssumption DEF Started, Memory, Off
  <2>2. [Counted EXCEPT !.unhealthy = Started(Counted.unhealthy)] \in Memory
    BY <1>4, <2>1 DEF Memory
  <2>3. QED
    BY <1>4, <2>2 DEF Suspected
<1>6. [Clocks EXCEPT !.unhealthy = Off] \in Memory
  BY <1>3 DEF Memory
<1>7. QED
  BY <1>2, <1>3, <1>4, <1>5, <1>6

-----------------------------------------------------------------------------
(* Initially no launcher is known and no clock runs. *)
LEMMA InitInv == Init => IInv
<1>1. SUFFICES ASSUME Init PROVE IInv
  OBVIOUS
<1>2. Wedge \in Nat /\ SaturationWedge \in Nat /\ MaxFailed \in Nat \ {0}
  BY LimitAssumption DEF SaturationWedge
<1>3. Forgotten \in Memory
  BY LimitAssumption DEF Forgotten, Memory, Kinds
<1>4. HostOK
  <2>1. 0 \in 0..MaxLaunches
    BY LimitAssumption
  <2>2. vetoed \in BOOLEAN
    BY <1>1 DEF Init
  <2>3. QED
    BY <1>1, <2>1, <2>2 DEF Init, HostOK
<1>5. WatchdogOK
  <2>1. /\ 0 \in 0..MaxLaunches /\ 0 \in 0..IdleExit
        /\ 0 \in 0..Wedge /\ 0 \in 0..SaturationWedge
    BY <1>2, LimitAssumption
  <2>2. veto \in BOOLEAN
    BY <1>1 DEF Init
  <2>3. QED
    BY <1>1, <1>3, <2>1, <2>2 DEF Init, WatchdogOK, Kinds
<1>6. ClockOfWedge /\ ClockOfSaturation
  BY <1>1 DEF Init, ClockOfWedge, ClockOfSaturation, Forgotten
<1>7. RepairDue /\ BelowCap
  BY <1>1 DEF Init, RepairDue, BelowCap
<1>8. QED
  BY <1>4, <1>5, <1>6, <1>7 DEF IInv, TypeOK

(* A step that the watchdog takes no part in keeps what its memory proves. *)
LEMMA Untouched ==
    ASSUME IInv, HostOK', UNCHANGED Watching
    PROVE  IInv'
BY DEF IInv, TypeOK, WatchdogOK, ClockOfWedge, ClockOfSaturation, RepairDue,
       BelowCap, Watching, round, history

LEMMA LatchWithoutType ==
    ASSUME HostOK, NEW attempt \in BOOLEAN
    PROVE  LatchWithout(attempt) \in {"none", "attempt", "blocked", "unreadable"}
BY DEF HostOK, LatchWithout

(* Servers come and go without the watchdog. *)
LEMMA ServersInv ==
    ASSUME IInv, Servers
    PROVE  HostOK' /\ UNCHANGED Watching
<1>1. UNCHANGED Watching /\ UNCHANGED Launchers
  BY DEF Servers, DaemonLogsIn, LoginVerified, LoginRefused, DaemonReconnects,
         DaemonLoaded, DaemonWedges, DaemonDies, OlderStarts, OlderAbandoned,
         OlderEnds, OlderLogsIn, OlderLoginEnds, StateUnreadable
<1>2. HostOK
  BY DEF IInv, TypeOK
<1>3. /\ LatchWithout(TRUE) \in {"none", "attempt", "blocked", "unreadable"}
      /\ LatchWithout(daemon \notin {"login", "relogin"})
           \in {"none", "attempt", "blocked", "unreadable"}
  BY <1>2, LatchWithoutType
<1>4. daemon' \in {"none", "starting", "login", "serving", "busy", "relogin",
                  "wedged", "latched"}
  BY <1>2
     DEF HostOK, Servers, DaemonLogsIn, LoginVerified, LoginRefused,
         DaemonReconnects, DaemonLoaded, DaemonWedges, DaemonDies, OlderStarts,
         OlderAbandoned, OlderEnds, OlderLogsIn, OlderLoginEnds,
         StateUnreadable
<1>5. older' \in {"none", "used", "orphan"}
  BY <1>2
     DEF HostOK, Servers, DaemonLogsIn, LoginVerified, LoginRefused,
         DaemonReconnects, DaemonLoaded, DaemonWedges, DaemonDies, OlderStarts,
         OlderAbandoned, OlderEnds, OlderLogsIn, OlderLoginEnds,
         StateUnreadable
<1>6. latch' \in {"none", "attempt", "blocked", "unreadable"}
  BY <1>2, <1>3
     DEF HostOK, Servers, DaemonLogsIn, LoginVerified, LoginRefused,
         DaemonReconnects, DaemonLoaded, DaemonWedges, DaemonDies, OlderStarts,
         OlderAbandoned, OlderEnds, OlderLogsIn, OlderLoginEnds,
         StateUnreadable
<1>7. faults' \in Nat
  <2>1. faults' = faults \/ faults' = faults + 1
    BY DEF Servers, Fault, DaemonLogsIn, LoginVerified, LoginRefused,
         DaemonReconnects, DaemonLoaded, DaemonWedges, DaemonDies, OlderStarts,
         OlderAbandoned, OlderEnds, OlderLogsIn, OlderLoginEnds,
         StateUnreadable
  <2>2. QED
    BY <1>2, <2>1 DEF HostOK
<1>8. QED
  BY <1>1, <1>2, <1>4, <1>5, <1>6, <1>7 DEF HostOK, Launchers

(* So do operators and launchers, except that a launch starts a watchdog   *)
(* when there is none.                                                     *)
LEMMA OperatorsInv ==
    ASSUME IInv, Operators
    PROVE  IInv'
<1>1. HostOK /\ WatchdogOK
  BY DEF IInv, TypeOK
<1>2. CASE OperatorStarts \/ Unblock
  <2>1. HostOK' /\ UNCHANGED Watching
    BY <1>1, <1>2 DEF HostOK, OperatorStarts, Unblock, Launchers
  <2>2. QED
    BY <2>1, Untouched
<1>3. CASE Veto
  <2>1. HostOK' /\ UNCHANGED Watching
    BY <1>1, <1>3 DEF HostOK, Veto, Fault
  <2>2. QED
    BY <2>1, Untouched
<1>4. CASE \E l \in 1..launched : Departs(l) \/ Returns(l) \/ Edit(l) \/ EnvChanges(l)
  <2>1. PICK l \in 1..launched : Departs(l) \/ Returns(l) \/ Edit(l) \/ EnvChanges(l)
    BY <1>4
  <2>2. l \in 1..MaxLaunches
    BY <1>1, LimitAssumption DEF HostOK
  <2>3. /\ UNCHANGED <<daemon, older, latch, launched, vetoed, Watching>>
        /\ faults' = faults \/ faults' = faults + 1
        /\ wanting' \subseteq wanting \cup {l}
        /\ edited' \subseteq edited \cup {l}
        /\ keyless' \subseteq keyless \cup {l}
    BY <2>1 DEF Departs, Returns, Edit, EnvChanges, Fault
  <2>4. HostOK' /\ UNCHANGED Watching
    BY <1>1, <2>2, <2>3 DEF HostOK
  <2>5. QED
    BY <2>4, Untouched
<1>5. CASE Launch
  <2>1. launched' \in 1..MaxLaunches
    BY <1>1, <1>5, LimitAssumption DEF HostOK, Launch
  <2>2. HostOK'
    BY <1>1, <1>5, <2>1 DEF HostOK, Launch
  <2>3. CASE at # "gone"
    BY <1>5, <2>2, <2>3, Untouched DEF Launch, Watching, history
  <2>4. CASE at = "gone"
    <3>1. /\ at' = "look" /\ memory' = Forgotten /\ idle' = 0 /\ status' = "none"
          /\ UNCHANGED <<round, alive, served>>
      BY <1>5, <2>4 DEF Launch
    <3>2. Forgotten \in Memory
      BY LimitAssumption DEF Forgotten, Memory, Kinds
    <3>3. WatchdogOK'
      BY <1>1, <3>1, <3>2, LimitAssumption DEF WatchdogOK, round
    <3>4. ClockOfWedge' /\ ClockOfSaturation' /\ RepairDue' /\ BelowCap'
      BY <3>1 DEF ClockOfWedge, ClockOfSaturation, RepairDue, BelowCap, Forgotten
    <3>5. QED
      BY <2>2, <3>3, <3>4 DEF IInv, TypeOK
  <2>5. QED
    BY <2>3, <2>4
<1>6. QED
  BY <1>2, <1>3, <1>4, <1>5 DEF Operators

-----------------------------------------------------------------------------
(* A round begins: no clock is touched, and a probe resets the ages only    *)
(* for an answer that the decision resets the clocks for.                   *)
LEMMA RoundInv ==
    ASSUME IInv, Look \/ Idle \/ Leave \/ Probe
    PROVE  IInv'
<1>1. /\ HostOK /\ WatchdogOK /\ ClockOfWedge /\ ClockOfSaturation
      /\ RepairDue /\ BelowCap
  BY DEF IInv, TypeOK
<1>2. UNCHANGED host /\ HostOK'
  <2>1. UNCHANGED host
    BY DEF Look, Idle, Leave, Probe
  <2>2. QED
    BY <1>1, <2>1 DEF HostOK, host
<1>3. /\ at' \in {"probe", "decide", "sleep", "gone"} /\ at # "decide"
      /\ UNCHANGED memory
  BY DEF Look, Idle, Leave, Probe, history
<1>4. RepairDue' /\ BelowCap'
  BY <1>3 DEF RepairDue, BelowCap
<1>5. CASE Look
  <2>1. seen' \in 0..MaxLaunches
    BY <1>1, <1>5 DEF Look, HostOK
  <2>2. veto' \in BOOLEAN
    BY <1>1, <1>5 DEF Look, HostOK
  <2>3. 0 \in 0..IdleExit
    BY LimitAssumption
  <2>4. WatchdogOK'
    BY <1>1, <1>5, <2>1, <2>2, <2>3 DEF Look, WatchdogOK, history
  <2>5. ClockOfWedge' /\ ClockOfSaturation'
    BY <1>1, <1>3, <1>5 DEF Look, ClockOfWedge, ClockOfSaturation, history
  <2>6. QED
    BY <1>2, <1>4, <2>4, <2>5 DEF IInv, TypeOK
<1>6. CASE Idle \/ Leave
  <2>1. WatchdogOK'
    BY <1>1, <1>6 DEF Idle, Leave, WatchdogOK, round, history
  <2>2. ClockOfWedge' /\ ClockOfSaturation'
    BY <1>1, <1>3, <1>6 DEF Idle, Leave, ClockOfWedge, ClockOfSaturation, history
  <2>3. QED
    BY <1>2, <1>4, <2>1, <2>2 DEF IInv, TypeOK
<1>7. CASE Probe
  <2>1. kind' \in Kinds
    BY <1>7 DEF Probe, Answers, Kinds
  <2>3. /\ at' = "decide"
        /\ alive' = IF kind' \in Serves \cup {"saturated"} THEN 0 ELSE alive
        /\ served' = IF kind' \in Serves THEN 0 ELSE served
        /\ UNCHANGED <<seen, veto, memory, idle, status>>
    BY <1>7 DEF Probe, Serves
  <2>4. alive' \in 0..Wedge /\ served' \in 0..SaturationWedge
    BY <1>1, <2>3, LimitAssumption DEF WatchdogOK, SaturationWedge
  <2>5. WatchdogOK'
    BY <1>1, <2>1, <2>3, <2>4 DEF WatchdogOK
  <2>6. ClockOfWedge' /\ ClockOfSaturation'
    BY <1>1, <1>3, <2>3 DEF ClockOfWedge, ClockOfSaturation
  <2>7. QED
    BY <1>2, <1>4, <2>5, <2>6 DEF IInv, TypeOK
<1>8. QED
  BY <1>5, <1>6, <1>7

(* The clocks after the decision, by what the probe has found. *)
LEMMA DecidedClocks ==
    ASSUME IInv, at = "decide"
    PROVE  /\ Healthy.unhealthy = Off /\ Healthy.saturated = Off
           /\ \/ Clocks.saturated = Off
              \/ Clocks.saturated <= served /\ kind = "saturated"
           /\ kind \notin Serves =>
                \/ Clocks.unhealthy = Off \/ Clocks.unhealthy <= alive
                \/ served >= SaturationWedge
           /\ Counted.unhealthy = Clocks.unhealthy
           /\ Counted.saturated = Clocks.saturated
           /\ Suspected.saturated = Clocks.saturated
           /\ Suspected.failed = Counted.failed
           /\ \/ Suspected.unhealthy = Counted.unhealthy
              \/ Suspected.unhealthy = 0
<1>1. /\ WatchdogOK /\ ClockOfWedge /\ ClockOfSaturation /\ memory \in Memory
  BY DEF IInv, TypeOK, WatchdogOK
<1>2. /\ Clocks \in Memory /\ Counted \in Memory
  BY DecidedMemory DEF IInv
<1>3. Healthy.unhealthy = Off /\ Healthy.saturated = Off
  BY <1>1 DEF Healthy, Memory
<1>4. /\ Counted.unhealthy = Clocks.unhealthy
      /\ Counted.saturated = Clocks.saturated
  BY <1>2 DEF Counted, Memory
<1>5. /\ Suspected.saturated = Counted.saturated
      /\ Suspected.failed = Counted.failed
      /\ Suspected.unhealthy \in {Counted.unhealthy, 0}
  BY <1>2 DEF Suspected, Memory, Started
<1>6. CASE kind # "saturated"
  <2>1. Clocks.saturated = Off /\ Clocks.unhealthy = memory.unhealthy
    BY <1>1, <1>6 DEF Clocks, Memory
  <2>2. kind \notin Serves =>
          \/ memory.unhealthy = Off \/ memory.unhealthy <= alive
          \/ served >= SaturationWedge
    BY <1>1, <1>6 DEF ClockOfWedge
  <2>3. QED
    BY <1>3, <1>4, <1>5, <2>1, <2>2
<1>7. CASE kind = "saturated"
  <2>1. /\ Clocks.saturated = Started(memory.saturated)
        /\ \/ Clocks.unhealthy = Off
           \/ Started(memory.saturated) = SaturationWedge
    BY <1>1, <1>7 DEF Clocks, Memory
  <2>2. Started(memory.saturated) <= served
    BY <1>1, <1>7 DEF ClockOfSaturation, Serves, Started, WatchdogOK
  <2>3. QED
    BY <1>3, <1>4, <1>5, <1>7, <2>1, <2>2
<1>8. QED
  BY <1>6, <1>7

(* What is left of the invariant once a decision has set the memory. *)
LEMMA ConcludedInv ==
    ASSUME IInv, NEW m \in Memory, NEW state, NEW place,
           Conclude(m, state, place),
           state \in {"monitoring", "healing", "operator_required"},
           place \in {"sleep", "repair"},
           m.unhealthy = Off \/ m.unhealthy <= alive \/ served >= SaturationWedge,
           m.saturated = Off \/ m.saturated <= served,
           place = "repair" => m.failed < MaxFailed,
           place = "repair" /\ kind \in {"unhealthy", "saturated"} =>
             m.unhealthy >= Wedge
    PROVE  IInv'
<1>1. HostOK /\ WatchdogOK
  BY DEF IInv, TypeOK
<1>2. /\ memory' = m /\ status' = state /\ at' = place
      /\ UNCHANGED <<host, round, idle, alive, served>>
  BY DEF Conclude
<1>3. HostOK'
  BY <1>1, <1>2 DEF HostOK, host
<1>4. WatchdogOK'
  BY <1>1, <1>2 DEF WatchdogOK, round
<1>5. ClockOfWedge' /\ ClockOfSaturation' /\ RepairDue' /\ BelowCap'
  BY <1>2 DEF ClockOfWedge, ClockOfSaturation, RepairDue, BelowCap, round
<1>6. QED
  BY <1>3, <1>4, <1>5 DEF IInv, TypeOK

LEMMA DecideInv ==
    ASSUME IInv, Decide
    PROVE  IInv'
<1>1. TypeOK /\ at = "decide" /\ kind \in Kinds
  BY DEF IInv, TypeOK, WatchdogOK, Decide
<1>2. /\ Healthy \in Memory /\ Clocks \in Memory
      /\ [Clocks EXCEPT !.unhealthy = Off] \in Memory
      /\ Counted \in Memory /\ Suspected \in Memory
  BY <1>1, DecidedMemory
<1>3. alive \in Nat /\ served \in Nat
  BY <1>1, LimitAssumption DEF TypeOK, WatchdogOK, SaturationWedge
<1>4. CASE kind = "healthy" /\ Conclude(Healthy, "monitoring", "sleep")
  BY <1>1, <1>2, <1>4, DecidedClocks, ConcludedInv
<1>5. CASE Saturated /\ Conclude(Clocks, "monitoring", "sleep")
  <2>1. kind \notin Serves
    BY <1>5 DEF Saturated, Serves
  <2>2. QED
    BY <1>1, <1>2, <1>5, <2>1, DecidedClocks, ConcludedInv
<1>6. CASE /\ kind \in {"login_in_progress", "latched"}
           /\ Conclude([Clocks EXCEPT !.unhealthy = Off],
                       IF kind = "latched" THEN "operator_required" ELSE "healing",
                       "sleep")
  <2>1. /\ [Clocks EXCEPT !.unhealthy = Off].unhealthy = Off
        /\ [Clocks EXCEPT !.unhealthy = Off].saturated = Clocks.saturated
    BY <1>2 DEF Memory
  <2>2. (IF kind = "latched" THEN "operator_required" ELSE "healing")
          \in {"monitoring", "healing", "operator_required"}
    OBVIOUS
  <2>3. Clocks.saturated = Off \/ Clocks.saturated <= served
    BY <1>1, DecidedClocks
  <2>4. QED
    BY <1>2, <1>6, <2>1, <2>2, <2>3, ConcludedInv
<1>7. CASE Trouble
  <2>1. kind \notin Serves
    BY <1>7 DEF Trouble, Serves
  <2>2. /\ \/ Counted.unhealthy = Off \/ Counted.unhealthy <= alive
           \/ served >= SaturationWedge
        /\ Counted.saturated = Off \/ Counted.saturated <= served
    BY <1>1, <2>1, DecidedClocks
  <2>3. /\ \/ Suspected.unhealthy = Off \/ Suspected.unhealthy <= alive
           \/ served >= SaturationWedge
        /\ Suspected.saturated = Off \/ Suspected.saturated <= served
    BY <1>1, <1>3, <2>2, DecidedClocks
  <2>4. CASE Conclude(Counted, "operator_required", "sleep")
    BY <1>2, <2>2, <2>4, ConcludedInv
  <2>5. CASE Conclude(Suspected, "healing", "sleep")
    BY <1>2, <2>3, <2>5, ConcludedInv
  <2>6. CASE ~UpToOperator /\ Due /\ Conclude(Suspected, "healing", "repair")
    <3>1. ~(Counted.failed >= MaxFailed)
      BY <2>6 DEF UpToOperator
    <3>2. Suspected.failed < MaxFailed
      BY <1>1, <1>2, <3>1, DecidedClocks, LimitAssumption DEF Memory
    <3>3. kind \in {"unhealthy", "saturated"} => Suspected.unhealthy >= Wedge
      BY <2>6 DEF Due
    <3>4. QED
      BY <1>2, <2>3, <2>6, <3>2, <3>3, ConcludedInv
  <2>7. /\ kind # "healthy" /\ ~Saturated
        /\ kind \notin {"login_in_progress", "latched"}
    BY <1>7 DEF Trouble, Saturated
  <2>8. QED
    BY <2>4, <2>5, <2>6, <2>7 DEF Decide
<1>8. QED
  BY <1>4, <1>5, <1>6, <1>7 DEF Decide

(* TICK_SECONDS pass: an age is behind by no more than the clocks are. *)
LEMMA SleepInv ==
    ASSUME IInv, Sleep
    PROVE  IInv'
<1>1. /\ HostOK /\ WatchdogOK /\ ClockOfWedge /\ ClockOfSaturation
      /\ memory \in Memory
  BY DEF IInv, TypeOK, WatchdogOK
<1>2. /\ at = "sleep" /\ at' = "look" /\ memory' = Aged(memory)
      /\ alive' = Older(alive, Wedge)
      /\ served' = Older(served, SaturationWedge)
      /\ EndRound /\ UNCHANGED <<host, status>>
      /\ idle' \in {idle, Older(idle, IdleExit)}
  BY DEF Sleep
<1>3. HostOK'
  BY <1>1, <1>2 DEF HostOK, host
<1>4. /\ SaturationWedge \in Nat /\ IdleExit \in Nat /\ MaxLaunches \in Nat
      /\ Wedge \in Nat /\ Wedge <= SaturationWedge
  BY LimitAssumption DEF SaturationWedge
<1>5. /\ alive' \in 0..Wedge /\ alive' >= alive
      /\ alive' = Wedge \/ alive' = alive + 1
      /\ served' \in 0..SaturationWedge /\ served' >= served
      /\ served' = SaturationWedge \/ served' = served + 1
      /\ idle' \in 0..IdleExit
  BY <1>1, <1>2, <1>4, OlderAge DEF WatchdogOK
<1>6. /\ memory' \in Memory
      /\ memory.unhealthy = Off => memory'.unhealthy = Off
      /\ memory.unhealthy # Off => memory'.unhealthy <= memory.unhealthy + 1
      /\ memory.saturated = Off => memory'.saturated = Off
      /\ memory.saturated # Off => memory'.saturated <= memory.saturated + 1
  BY <1>1, <1>2, AgedMemory
<1>7. WatchdogOK'
  <2>1. veto' \in BOOLEAN
    BY <1>2 DEF EndRound
  <2>2. seen' \in 0..MaxLaunches /\ kind' \in Kinds
    BY <1>2, <1>4 DEF EndRound, Kinds
  <2>3. QED
    BY <1>1, <1>2, <1>5, <1>6, <2>1, <2>2 DEF WatchdogOK
<1>8. /\ memory.unhealthy \in {Off} \cup 0..Wedge
      /\ memory'.unhealthy \in {Off} \cup 0..Wedge
      /\ memory.saturated \in {Off} \cup 0..SaturationWedge
      /\ memory'.saturated \in {Off} \cup 0..SaturationWedge
      /\ alive \in 0..Wedge /\ served \in 0..SaturationWedge
  BY <1>1, <1>6 DEF Memory, WatchdogOK
<1>9. ClockOfWedge'
  BY <1>1, <1>2, <1>4, <1>5, <1>6, <1>8 DEF ClockOfWedge, Off
<1>10. ClockOfSaturation'
  BY <1>1, <1>2, <1>4, <1>5, <1>6, <1>8 DEF ClockOfSaturation, Off
<1>11. RepairDue' /\ BelowCap'
  BY <1>2 DEF RepairDue, BelowCap
<1>12. QED
  BY <1>3, <1>7, <1>9, <1>10, <1>11 DEF IInv, TypeOK

-----------------------------------------------------------------------------
(* The end of a repair, whatever it has made of the memory. *)
LEMMA RepairedInv ==
    ASSUME IInv, HostOK', NEW m \in Memory, Repaired(m),
           alive' \in 0..Wedge, served' \in 0..SaturationWedge,
           m.unhealthy = Off \/ m.unhealthy <= alive' \/ served' >= SaturationWedge,
           m.saturated = Off \/ m.saturated <= served',
           UNCHANGED <<idle, status>>
    PROVE  IInv'
<1>1. WatchdogOK
  BY DEF IInv, TypeOK
<1>2. memory' = m /\ at' = "look" /\ EndRound
  BY DEF Repaired
<1>3. veto' \in BOOLEAN
  BY <1>2 DEF EndRound
<1>4. seen' \in 0..MaxLaunches /\ kind' \in Kinds
  BY <1>2, LimitAssumption DEF EndRound, Kinds
<1>5. WatchdogOK'
  BY <1>1, <1>2, <1>3, <1>4 DEF WatchdogOK
<1>6. ClockOfWedge' /\ ClockOfSaturation' /\ RepairDue' /\ BelowCap'
  BY <1>2 DEF ClockOfWedge, ClockOfSaturation, RepairDue, BelowCap
<1>7. QED
  BY <1>5, <1>6 DEF IInv, TypeOK

(* What a repair may assume of the memory it has been given. *)
LEMMA RepairMemory ==
    ASSUME IInv, at \in {"repair", "replace", "start", "wait"}
    PROVE  /\ memory \in Memory /\ memory.failed < MaxFailed
           /\ kind \in Kinds /\ seen \in 0..MaxLaunches
           /\ alive \in 0..Wedge /\ served \in 0..SaturationWedge
           /\ \/ memory.unhealthy = Off \/ memory.unhealthy <= alive
              \/ served >= SaturationWedge
           /\ memory.saturated = Off \/ memory.saturated <= served
           /\ \A terminal \in BOOLEAN :
                /\ Failed(memory, terminal) \in Memory
                /\ Failed(memory, terminal).unhealthy = memory.unhealthy
                /\ Failed(memory, terminal).saturated = memory.saturated
<1>1. /\ memory \in Memory /\ kind \in Kinds /\ seen \in 0..MaxLaunches
      /\ alive \in 0..Wedge /\ served \in 0..SaturationWedge
  BY DEF IInv, TypeOK, WatchdogOK
<1>2. /\ memory.failed < MaxFailed
      /\ \/ memory.unhealthy = Off \/ memory.unhealthy <= alive
         \/ served >= SaturationWedge
      /\ memory.saturated = Off \/ memory.saturated <= served
  BY DEF IInv, BelowCap, ClockOfWedge, ClockOfSaturation
<1>3. QED
  BY <1>1, <1>2, FailedMemory

(* A repair that goes on to a start. *)
LEMMA RestartingInv ==
    ASSUME IInv, HostOK', at \in {"repair", "replace"}, Restarting(memory),
           UNCHANGED <<round, idle, status, history>>
    PROVE  IInv'
<1>1. WatchdogOK /\ memory \in Memory /\ memory.failed < MaxFailed
  BY RepairMemory DEF IInv, TypeOK
<1>2. /\ at' = "start"
      /\ memory' = [memory EXCEPT !.rest = 0, !.unhealthy = Off, !.saturated = Off]
  BY DEF Restarting
<1>3. 0 \in 0..Backoff
  BY LimitAssumption
<1>4. /\ memory' \in Memory /\ memory'.unhealthy = Off
      /\ memory'.saturated = Off /\ memory'.failed = memory.failed
  BY <1>1, <1>2, <1>3 DEF Memory
<1>5. WatchdogOK'
  BY <1>1, <1>2, <1>4 DEF WatchdogOK, round, history
<1>6. ClockOfWedge' /\ ClockOfSaturation' /\ RepairDue' /\ BelowCap'
  BY <1>1, <1>2, <1>4 DEF ClockOfWedge, ClockOfSaturation, RepairDue, BelowCap
<1>7. QED
  BY <1>5, <1>6 DEF IInv, TypeOK

(* The first half of perform(): refuse, stop, replace. *)
LEMMA RepairInv ==
    ASSUME IInv,
           \/ RefuseEdited \/ RestartDown \/ StopOwner \/ StopOwnerFails
           \/ ReplaceRefused \/ FoundOrphan \/ StopOrphan \/ StopOrphanFails
    PROVE  IInv'
<1>1. HostOK /\ WatchdogOK
  BY DEF IInv, TypeOK
<1>2. at \in {"repair", "replace"}
  BY DEF RefuseEdited, RestartDown, StopOwner, StopOwnerFails, Wedged,
         ReplaceRefused, FoundOrphan, StopOrphan, StopOrphanFails
<1>3. HostOK'
  <2>1. /\ LatchWithout(daemon # "none")
             \in {"none", "attempt", "blocked", "unreadable"}
        /\ LatchWithout(older # "none")
             \in {"none", "attempt", "blocked", "unreadable"}
    BY <1>1, LatchWithoutType
  <2>2. /\ UNCHANGED <<wanting, edited, keyless, launched, vetoed>>
        /\ daemon' \in {daemon, "none"} /\ older' \in {older, "none"}
        /\ latch' \in {"none", "attempt", "blocked", "unreadable"}
        /\ faults' = faults \/ faults' = faults + 1
    BY <1>1, <2>1
       DEF RefuseEdited, RestartDown, StopOwner, StopOwnerFails, ReplaceRefused,
           FoundOrphan, StopOrphan, StopOrphanFails, HostOK, host
  <2>3. QED
    BY <1>1, <2>2 DEF HostOK
<1>4. CASE RefuseEdited \/ ReplaceRefused \/ StopOrphanFails
  <2>1. /\ Repaired(Failed(memory, TRUE))
        /\ UNCHANGED <<idle, status, history>>
    BY <1>4 DEF RefuseEdited, ReplaceRefused, StopOrphanFails
  <2>2. UNCHANGED <<alive, served>>
    BY <2>1 DEF history
  <2>3. QED
    BY <1>2, <1>3, <2>1, <2>2, RepairMemory, RepairedInv
<1>5. CASE StopOwnerFails
  <2>1. /\ Repaired(Failed([memory EXCEPT !.rest = 0], FALSE))
        /\ UNCHANGED <<idle, status, alive, served>>
    BY <1>5 DEF StopOwnerFails, history
  <2>2. /\ [memory EXCEPT !.rest = 0] \in Memory
        /\ [memory EXCEPT !.rest = 0].failed = memory.failed
        /\ [memory EXCEPT !.rest = 0].unhealthy = memory.unhealthy
        /\ [memory EXCEPT !.rest = 0].saturated = memory.saturated
    <3>1. 0 \in 0..Backoff
      BY LimitAssumption
    <3>2. QED
      BY <1>1, <3>1 DEF WatchdogOK, Memory
  <2>3. /\ Failed([memory EXCEPT !.rest = 0], FALSE) \in Memory
        /\ Failed([memory EXCEPT !.rest = 0], FALSE).unhealthy = memory.unhealthy
        /\ Failed([memory EXCEPT !.rest = 0], FALSE).saturated = memory.saturated
    <3>1. /\ [memory EXCEPT !.rest = 0].failed < MaxFailed
          /\ kind \in Kinds /\ seen \in 0..MaxLaunches
      BY <1>2, <2>2, RepairMemory
    <3>2. QED
      BY <2>2, <3>1, FailedMemory
  <2>4. QED
    BY <1>2, <1>3, <2>1, <2>3, RepairMemory, RepairedInv
<1>6. CASE RestartDown \/ StopOwner \/ StopOrphan
  <2>1. Restarting(memory) /\ UNCHANGED <<round, idle, status, history>>
    BY <1>6 DEF RestartDown, StopOwner, StopOrphan
  <2>2. QED
    BY <1>2, <1>3, <2>1, RestartingInv
<1>7. CASE FoundOrphan
  <2>1. at' = "replace" /\ UNCHANGED <<round, memory, idle, status, history>>
    BY <1>7 DEF FoundOrphan
  <2>2. WatchdogOK'
    BY <1>1, <2>1 DEF WatchdogOK, round, history
  <2>3. ClockOfWedge' /\ ClockOfSaturation' /\ RepairDue' /\ BelowCap'
    BY <1>2, <2>1, RepairMemory
       DEF ClockOfWedge, ClockOfSaturation, RepairDue, BelowCap, history
  <2>4. QED
    BY <1>3, <2>2, <2>3 DEF IInv, TypeOK
<1>8. QED
  BY <1>4, <1>5, <1>6, <1>7

(* The time a start takes moves clocks and ages together. *)
LEMMA TookTime ==
    ASSUME IInv, at \in {"start", "wait"}, NEW d \in 0..1, Took(d),
           NEW m \in Memory,
           m.unhealthy = memory.unhealthy, m.saturated = memory.saturated
    PROVE  /\ After(d, m) \in Memory
           /\ alive' \in 0..Wedge /\ served' \in 0..SaturationWedge
           /\ \/ After(d, m).unhealthy = Off \/ After(d, m).unhealthy <= alive'
              \/ served' >= SaturationWedge
           /\ After(d, m).saturated = Off \/ After(d, m).saturated <= served'
<1>1. /\ alive \in 0..Wedge /\ served \in 0..SaturationWedge
      /\ m.unhealthy = Off \/ m.unhealthy <= alive \/ served >= SaturationWedge
      /\ m.saturated = Off \/ m.saturated <= served
  BY RepairMemory
<1>2. CASE d # 1
  <2>1. After(d, m) = m /\ alive' = alive /\ served' = served
    BY <1>2 DEF After, Took
  <2>2. QED
    BY <1>1, <2>1
<1>3. CASE d = 1
  <2>1. /\ After(d, m) = Aged(m)
        /\ alive' = Older(alive, Wedge)
        /\ served' = Older(served, SaturationWedge)
    BY <1>3 DEF After, Took
  <2>2. SaturationWedge \in Nat /\ Wedge \in Nat /\ Wedge <= SaturationWedge
    BY LimitAssumption DEF SaturationWedge
  <2>3. /\ alive' \in 0..Wedge
        /\ alive' = Wedge \/ alive' = alive + 1
        /\ served' \in 0..SaturationWedge
        /\ served' = SaturationWedge \/ served' = served + 1
    BY <1>1, <2>1, <2>2, OlderAge
  <2>4. /\ Aged(m) \in Memory
        /\ m.unhealthy = Off => Aged(m).unhealthy = Off
        /\ m.unhealthy # Off => Aged(m).unhealthy <= m.unhealthy + 1
        /\ m.saturated = Off => Aged(m).saturated = Off
        /\ m.saturated # Off => Aged(m).saturated <= m.saturated + 1
    BY AgedMemory
  <2>5. /\ m.unhealthy \in {Off} \cup 0..Wedge
        /\ Aged(m).unhealthy \in {Off} \cup 0..Wedge
        /\ m.saturated \in {Off} \cup 0..SaturationWedge
        /\ Aged(m).saturated \in {Off} \cup 0..SaturationWedge
    BY <2>4 DEF Memory
  <2>6. \/ Aged(m).unhealthy = Off \/ Aged(m).unhealthy <= alive'
        \/ served' >= SaturationWedge
    BY <1>1, <2>2, <2>3, <2>4, <2>5 DEF Off
  <2>7. Aged(m).saturated = Off \/ Aged(m).saturated <= served'
    BY <1>1, <2>2, <2>3, <2>4, <2>5 DEF Off
  <2>8. QED
    BY <2>1, <2>3, <2>4, <2>6, <2>7
<1>4. QED
  BY <1>2, <1>3

(* The second half of perform(): start_services.sh. *)
LEMMA StartInv ==
    ASSUME IInv,
           \/ StartSkipped \/ StartServer \/ JoinServer \/ StartTimesOut
           \/ \E d \in 0..1 : StartSucceeds(d) \/ StartFails(d)
    PROVE  IInv'
<1>1. HostOK /\ WatchdogOK
  BY DEF IInv, TypeOK
<1>2. at \in {"start", "wait"}
  BY DEF StartSkipped, StartServer, JoinServer, StartTimesOut, StartSucceeds,
         StartFails, Starting
<1>3. CASE StartServer \/ JoinServer
  <2>1. HostOK'
    BY <1>1, <1>3 DEF StartServer, JoinServer, Starting, HostOK, host
  <2>2. at' = "wait" /\ UNCHANGED <<round, memory, idle, status, history>>
    BY <1>3 DEF StartServer, JoinServer
  <2>3. WatchdogOK'
    BY <1>1, <2>2 DEF WatchdogOK, round, history
  <2>4. ClockOfWedge' /\ ClockOfSaturation' /\ RepairDue' /\ BelowCap'
    BY <1>2, <2>2, RepairMemory
       DEF ClockOfWedge, ClockOfSaturation, RepairDue, BelowCap, history
  <2>5. QED
    BY <2>1, <2>3, <2>4 DEF IInv, TypeOK
<1>4. ASSUME NEW m \in Memory, NEW d \in 0..1, HostOK', Took(d),
             Repaired(After(d, m)), UNCHANGED <<idle, status>>,
             m.unhealthy = memory.unhealthy, m.saturated = memory.saturated
      PROVE  IInv'
  BY <1>2, <1>4, TookTime, RepairedInv
<1>5. DEFINE outcome == IF latch \in {"none", "unreadable"}
                        THEN Failed(memory, FALSE) ELSE memory
<1>6. /\ outcome \in Memory
      /\ outcome.unhealthy = memory.unhealthy /\ outcome.saturated = memory.saturated
  BY <1>2, RepairMemory
<1>7. /\ [memory EXCEPT !.failed = 0] \in Memory
      /\ [memory EXCEPT !.failed = 0].unhealthy = memory.unhealthy
      /\ [memory EXCEPT !.failed = 0].saturated = memory.saturated
  <2>1. 0 \in 0..MaxFailed
    BY LimitAssumption
  <2>2. QED
    BY <1>1, <2>1 DEF WatchdogOK, Memory
<1>8. CASE StartTimesOut
  <2>1. HostOK'
    BY <1>1, <1>8 DEF StartTimesOut, HostOK
  <2>2. Took(1) /\ Repaired(After(1, outcome)) /\ UNCHANGED <<idle, status>>
    BY <1>8 DEF StartTimesOut, After
  <2>3. 1 \in 0..1
    OBVIOUS
  <2>4. QED
    BY <1>4, <1>6, <2>1, <2>2, <2>3
<1>9. CASE \E d \in 0..1 : StartSucceeds(d) \/ StartFails(d)
  <2>1. PICK d \in 0..1 : StartSucceeds(d) \/ StartFails(d)
    BY <1>9
  <2>2. /\ Took(d) /\ UNCHANGED <<host, idle, status>>
    BY <2>1 DEF StartSucceeds, StartFails
  <2>3. HostOK'
    BY <1>1, <2>2 DEF HostOK, host
  <2>4. CASE StartFails(d)
    <3>1. Repaired(After(d, outcome))
      BY <2>4 DEF StartFails
    <3>2. QED
      BY <1>4, <1>6, <2>2, <2>3, <3>1
  <2>5. CASE StartSucceeds(d)
    <3>1. Repaired(After(d, [memory EXCEPT !.failed = 0]))
      BY <2>5 DEF StartSucceeds
    <3>2. QED
      BY <1>4, <1>7, <2>2, <2>3, <3>1
  <2>6. QED
    BY <2>1, <2>4, <2>5
<1>10. CASE StartSkipped
  <2>1. /\ Repaired([memory EXCEPT !.failed = 0])
        /\ UNCHANGED <<host, idle, status, alive, served>>
    BY <1>10 DEF StartSkipped, history
  <2>2. HostOK'
    BY <1>1, <2>1 DEF HostOK, host
  <2>3. QED
    BY <1>2, <1>7, <2>1, <2>2, RepairMemory, RepairedInv
<1>11. QED
  BY <1>3, <1>8, <1>9, <1>10

LEMMA NextInv == IInv /\ [Next]_vars => IInv'
<1>1. SUFFICES ASSUME IInv, [Next]_vars PROVE IInv'
  OBVIOUS
<1>2. CASE Watchdog
  BY <1>1, <1>2, RoundInv, DecideInv, SleepInv, RepairInv, StartInv DEF Watchdog
<1>3. CASE Servers
  BY <1>1, <1>3, ServersInv, Untouched
<1>4. CASE Operators
  BY <1>1, <1>4, OperatorsInv
<1>5. CASE UNCHANGED vars
  <2>1. HostOK' /\ UNCHANGED Watching
    BY <1>1, <1>5 DEF IInv, TypeOK, HostOK, vars, host, Watching
  <2>2. QED
    BY <1>1, <2>1, Untouched
<1>6. QED
  BY <1>1, <1>2, <1>3, <1>4, <1>5 DEF Next

-----------------------------------------------------------------------------
(* In every reachable state the variables have their types; the memory of  *)
(* run() never counts more failed repairs than MAX_FAILED_RESTARTS.        *)
THEOREM TypeCorrect == Spec => []TypeOK
<1>1. IInv => TypeOK
  BY DEF IInv
<1>2. QED
  BY InitInv, NextInv, <1>1, PTL DEF Spec

(* decide() and perform() stop a server of this release only after         *)
(* WEDGE_SECONDS without an answer to a probe, or twice as long without    *)
(* one that served it, whatever servers, launchers and operators do.       *)
THEOREM StoppedOnlyWhenSilent == Spec => StopsOnlySilent
<1>1. ASSUME IInv, [Next]_vars, at = "repair", at' = "start", daemon' # daemon
      PROVE  alive >= Wedge \/ served >= SaturationWedge
  <2>1. StopOwner
    <3>1. ~Servers
      BY <1>1, ServersInv DEF Watching
    <3>2. ~Operators
      BY <1>1
         DEF Operators, OperatorStarts, Unblock, Launch, Veto, Departs, Returns,
             Edit, EnvChanges, Watching
    <3>3. at' # at
      BY <1>1
    <3>4. Watchdog
      BY <1>1, <3>1, <3>2, <3>3 DEF Next, vars
    <3>5. ~(Look \/ Idle \/ Leave \/ Probe \/ Decide \/ Sleep)
      BY <1>1 DEF Look, Idle, Leave, Probe, Decide, Sleep
    <3>6. ~(StopOrphan \/ StopOrphanFails \/ StartSkipped \/ StartServer
            \/ JoinServer \/ StartTimesOut)
      BY <1>1 DEF StopOrphan, StopOrphanFails, StartSkipped, StartServer, JoinServer,
                  StartTimesOut, Starting
    <3>7. ~(\E d \in 0..1 : StartSucceeds(d) \/ StartFails(d))
      BY <1>1 DEF StartSucceeds, StartFails, Starting
    <3>8. ~(RefuseEdited \/ RestartDown \/ StopOwnerFails \/ ReplaceRefused
            \/ FoundOrphan)
      BY <1>1 DEF RefuseEdited, RestartDown, StopOwnerFails, ReplaceRefused,
                  FoundOrphan, host
    <3>9. QED
      BY <3>4, <3>5, <3>6, <3>7, <3>8 DEF Watchdog
  <2>2. memory.unhealthy >= Wedge
    BY <1>1, <2>1 DEF StopOwner, Wedged, IInv, RepairDue
  <2>3. \/ memory.unhealthy = Off \/ memory.unhealthy <= alive
        \/ served >= SaturationWedge
    BY <1>1, RepairMemory
  <2>4. memory.unhealthy \in {Off} \cup 0..Wedge /\ alive \in Nat /\ Wedge \in Nat \ {0}
    BY <1>1, LimitAssumption DEF IInv, TypeOK, WatchdogOK, Memory, SaturationWedge
  <2>5. QED
    BY <2>2, <2>3, <2>4 DEF Off
<1>2. IInv /\ [Next]_vars =>
        [at' = "start" /\ at = "repair" /\ daemon' # daemon =>
           alive >= Wedge \/ served >= SaturationWedge]_vars
  BY <1>1
<1>3. QED
  BY InitInv, NextInv, <1>2, PTL DEF Spec, StopsOnlySilent
=============================================================================
