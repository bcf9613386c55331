------------------------- MODULE WrdsSingletonProofs -------------------------
(***************************************************************************)
(* Proofs about WrdsSingleton, for any number of starters, namespaces and  *)
(* runtimes of earlier releases.                                           *)
(*                                                                         *)
(* The marker file does not make the daemon unique: two starters may both  *)
(* believe to own it.  What does is the process table.  A starter is       *)
(* visible there from its exec to its end, and passes the first scan only  *)
(* while no other one is; whoever is scanned later is refused.  Held are   *)
(* the places behind that scan, up to the removal of the socket.           *)
(*                                                                         *)
(* A released runtime is kept out by three things together: its server is  *)
(* in the process table, a runtime in the daemon's own namespace finds the *)
(* port taken, and one in another namespace that comes too late for the    *)
(* second scan finds the guard.  Quiet says what the second scan leaves    *)
(* and the guard keeps; that the guard was there all the time since is     *)
(* what the verification after the scan establishes.                       *)
(***************************************************************************)
EXTENDS WrdsSingleton, TLAPS

Guarded == Established \cup {"verify"}

Reserved == Guarded \cup {"latch", "guard", "own", "rescan"}

Held == Reserved \cup {"port", "unguard", "uncache", "sweep", "unsock"}

OneHolder ==
    \A p \in Starters : pc[p] \in Held =>
        \A q \in Starters \ {p} : pc[q] \notin Held

PortOwned == \A p \in Starters : pc[p] \in Reserved => port[net[p]] = p

(* No released runtime can come to a login any more. *)
Quiet(p) ==
    \A l \in Legacy :
        /\ old[l] \notin {"login", "serve"}
        /\ net[l] # net[p] => old[l] \notin {"checked", "spawned"}

NoLegacy ==
    \A p \in Starters : pc[p] \in Guarded /\ GuardStands(p) => Quiet(p)

GuardKept == \A p \in Starters : pc[p] \in Established => GuardStands(p)

(* Who has left a record has begun its only login. *)
RecordsDone ==
    \A l \in Legacy :
        cache = l \/ latch = l \/ (\E p \in Starters : accepts[p] = l)
            => old[l] \in {"login", "serve", "gone"}

(* A starter that still tries for the marker has an attempt left. *)
RoundLeft ==
    \A p \in Starters :
        pc[p] \in {"absent", "link", "read", "compare", "unlink"}
            => rounds[p] < MaxRounds

Upgraded == PortOwned /\ NoLegacy /\ GuardKept /\ RecordsDone

IInv == TypeOK /\ RoundLeft /\ OneHolder /\ Upgraded /\ EndpointKept

-----------------------------------------------------------------------------
(* Initially no starter runs. *)
LEMMA InitInv == Init => IInv
<1>1. SUFFICES ASSUME Init PROVE IInv
  OBVIOUS
<1>2. TypeOK
  <2>1. rounds \in [Starters -> 0 .. MaxRounds]
    BY <1>1, RoundAssumption DEF Init
  <2>2. pc \in [Starters -> Places] /\ net \in [Starters \cup Legacy -> Nets]
    BY <1>1 DEF Init, Places
  <2>3. /\ seen \in [Starters -> Maker \cup {Other}] /\ ident \in [Starters -> Maker]
        /\ marker \in Maker /\ socket \in Maker \cup {Other}
        /\ listening \subseteq Starters \cup {Other}
    BY <1>1 DEF Init, Maker
  <2>4. port \in [Nets -> Starters \cup Legacy \cup {Other, NoFile}]
    BY <1>1 DEF Init
  <2>5. cache \in Maker \cup Legacy
    BY <1>1 DEF Init, Maker
  <2>6. locked \in BOOLEAN
    BY <1>1 DEF Init
  <2>7. /\ latch \in Starters \cup Legacy \cup {NoFile}
        /\ settled \subseteq Starters \cup Legacy
        /\ guarded \in [Starters -> Maker \cup Legacy]
        /\ accepts \in [Starters -> Starters \cup Legacy \cup {NoFile}]
    BY <1>1 DEF Init, Maker
  <2>8. old \in [Legacy -> OldPlaces] /\ declared \subseteq Legacy
    BY <1>1 DEF Init, OldPlaces
  <2>9. QED
    BY <2>1, <2>2, <2>3, <2>4, <2>5, <2>6, <2>7, <2>8 DEF TypeOK
<1>3. \A p \in Starters : pc[p] = "absent"
  BY <1>1 DEF Init
<1>4. OneHolder /\ PortOwned /\ NoLegacy /\ GuardKept /\ EndpointKept
  BY <1>3 DEF OneHolder, PortOwned, NoLegacy, GuardKept, EndpointKept, Held,
              Reserved, Guarded, Established
<1>5. RoundLeft
  BY <1>1, RoundAssumption DEF Init, RoundLeft
<1>6. RecordsDone
  BY <1>1, ProcessAssumption DEF Init, RecordsDone
<1>7. QED
  BY <1>2, <1>4, <1>5, <1>6 DEF IInv, Upgraded

(* What neither moves a starter to a guarded place nor touches the guard,  *)
(* the port or the released runtimes disturbs none of the four.            *)
LEMMA UpgradedKept ==
    ASSUME IInv, NEW p \in Starters,
           pc' \in [Starters -> Places],
           pc'[p] \in Reserved => pc[p] \in Reserved,
           pc'[p] \in Guarded => pc[p] \in Guarded,
           pc'[p] \in Established => pc[p] \in Established,
           \A q \in Starters \ {p} : pc'[q] = pc[q],
           \A q \in Starters : pc'[q] \in Reserved => port'[net[q]] = port[net[q]],
           latch' \in {latch, cache, NoFile} \cup Starters,
           UNCHANGED <<net, cache, accepts, old>>
    PROVE  Upgraded'
<1>1. PortOwned'
  BY DEF IInv, Upgraded, PortOwned
<1>2. \A q \in Starters : (GuardStands(q)' <=> GuardStands(q)) /\ (Quiet(q)' <=> Quiet(q))
  BY DEF GuardStands, Quiet
<1>3. NoLegacy' /\ GuardKept'
  BY <1>2 DEF IInv, Upgraded, NoLegacy, GuardKept
<1>4. RecordsDone'
  BY ProcessAssumption DEF IInv, Upgraded, RecordsDone
<1>5. QED
  BY <1>1, <1>3, <1>4 DEF Upgraded

(* A step of the acquisition ends at no place behind the scan, and leaves  *)
(* the socket and the released runtimes alone.                             *)
LEMMA AcquireInv ==
    ASSUME IInv, NEW p \in Starters, Acquire(p)
    PROVE  IInv'
<1>1. TypeOK' /\ RoundLeft'
  <2>1. CASE OtherMarker(p) \/ UnlinkStale(p)
    <3>1. /\ rounds[p] < MaxRounds
          /\ NextRound(p)
          /\ UNCHANGED <<net, seen, ident, guarded, accepts, socket, compat,
                         listening, port, released>>
          /\ marker' \in {marker, NoFile}
      BY <2>1 DEF IInv, RoundLeft, OtherMarker, UnlinkStale, files
    <3>2. rounds' \in [Starters -> 0 .. MaxRounds]
      BY <3>1, RoundAssumption DEF IInv, TypeOK, NextRound
    <3>3. pc' \in [Starters -> Places]
      BY <3>1 DEF IInv, TypeOK, NextRound, Goto, Places
    <3>4. TypeOK'
      BY <3>1, <3>2, <3>3 DEF IInv, TypeOK, Maker, compat, released
    <3>5. RoundLeft'
      BY <3>1, RoundAssumption
         DEF IInv, TypeOK, RoundLeft, NextRound, Goto
    <3>6. QED
      BY <3>4, <3>5
  <2>2. CASE Launch(p) \/ LinkMarker(p) \/ MarkerExists(p) \/ Busy(p)
             \/ ReadStale(p) \/ SameMarker(p) \/ ReadIdentity(p)
             \/ MarkerVanished(p)
    <3>1. UNCHANGED <<net, rounds, guarded, accepts, socket, compat, listening,
                      port, released>>
      BY <2>2
         DEF memory, files, Launch, LinkMarker, MarkerExists, Busy, ReadStale,
             SameMarker, ReadIdentity, MarkerVanished
    <3>2. /\ pc' \in [Starters -> Places]
          /\ seen' \in [Starters -> Maker \cup {Other}]
          /\ ident' \in [Starters -> Maker] /\ marker' \in Maker
      BY <2>2
         DEF IInv, TypeOK, Places, Maker, memory, files, Goto, Launch,
             LinkMarker, MarkerExists, Busy, ReadStale, SameMarker,
             ReadIdentity, MarkerVanished
    <3>3. TypeOK'
      BY <3>1, <3>2 DEF IInv, TypeOK, Maker, compat, released
    <3>4. RoundLeft'
      BY <2>2
         DEF IInv, TypeOK, RoundLeft, memory, files, Goto, Launch,
             LinkMarker, MarkerExists, Busy, ReadStale, SameMarker,
             ReadIdentity, MarkerVanished
    <3>5. QED
      BY <3>3, <3>4
  <2>3. QED
    BY <2>1, <2>2 DEF Acquire
<1>2. /\ pc'[p] \notin Held
      /\ \A q \in Starters \ {p} : pc'[q] = pc[q]
  BY DEF IInv, TypeOK, Held, Reserved, Guarded, Established, Acquire, Goto,
         NextRound, Launch, LinkMarker, MarkerExists, Busy, ReadStale,
         SameMarker, OtherMarker, UnlinkStale, ReadIdentity, MarkerVanished
<1>3. UNCHANGED <<net, socket, cache, latch, accepts, old, port>>
  BY DEF Acquire, memory, files, compat, released, Launch, LinkMarker,
         MarkerExists, Busy, ReadStale, SameMarker, OtherMarker, UnlinkStale,
         ReadIdentity, MarkerVanished
<1>4. OneHolder' /\ EndpointKept'
  BY <1>2, <1>3 DEF IInv, OneHolder, EndpointKept, Held, Reserved, Guarded, Established
<1>5. pc'[p] \notin Reserved /\ pc'[p] \notin Guarded /\ pc'[p] \notin Established
  BY <1>2 DEF Held, Reserved, Guarded
<1>6. Upgraded'
  BY <1>1, <1>2, <1>3, <1>5, UpgradedKept DEF TypeOK
<1>7. QED
  BY <1>1, <1>4, <1>6 DEF IInv

(* The port, the guard and the released runtimes over those steps. *)
LEMMA EstablishUpgraded ==
    ASSUME IInv, NEW p \in Starters, Establish(p), pc' \in [Starters -> Places]
    PROVE  Upgraded'
<1>a. \A n \in Nets : \A q \in Starters \ {p} : port[n] = q /\ Close(p) => port'[n] = q
  BY DEF Close
<1>b. net \in [Starters \cup Legacy -> Nets]
  BY DEF IInv, TypeOK
<1>1. CASE ScanPasses(p) /\ pc[p] = "scan"
  <2>1. /\ pc'[p] = "port" /\ \A q \in Starters \ {p} : pc'[q] = pc[q]
        /\ UNCHANGED <<net, cache, latch, accepts, old, port>>
    BY <1>1 DEF IInv, TypeOK, ScanPasses, Goto, memory, compat, released
  <2>2. pc'[p] \notin Reserved /\ pc'[p] \notin Guarded /\ pc'[p] \notin Established
    BY <2>1 DEF Reserved, Guarded, Established
  <2>3. QED
    BY <2>1, <2>2, UpgradedKept
<1>2. CASE ScanPasses(p) /\ pc[p] = "rescan"
  <2>1. /\ pc'[p] = "verify" /\ \A q \in Starters \ {p} : pc'[q] = pc[q]
        /\ \A q \in Starters \ {p} : pc[q] \in {"absent", "gone"}
        /\ UNCHANGED <<net, cache, latch, accepts, old, port>>
    BY <1>2 DEF IInv, TypeOK, ScanPasses, Alone, Live, Goto, memory, compat, released
  <2>2. Quiet(p)'
    BY <1>2, <2>1 DEF Quiet, ScanPasses, Alone, Spawned, Foreign
  <2>3. port[net[p]] = p
    BY <1>2 DEF IInv, Upgraded, PortOwned, Reserved
  <2>4. PortOwned'
    BY <2>1, <2>3 DEF PortOwned, Reserved, Guarded, Established
  <2>5. NoLegacy' /\ GuardKept'
    BY <2>1, <2>2 DEF NoLegacy, GuardKept, Guarded, Established
  <2>6. RecordsDone'
    BY <2>1 DEF IInv, Upgraded, RecordsDone
  <2>7. QED
    BY <2>4, <2>5, <2>6 DEF Upgraded
<1>3. CASE ScanRefuses(p) \/ PortTaken(p) \/ Decline(p) \/ GuardFails(p) \/ GuardLost(p)
  <2>1. /\ pc'[p] = "drop" /\ \A q \in Starters \ {p} : pc'[q] = pc[q]
        /\ UNCHANGED <<net, cache, accepts, old>>
        /\ UNCHANGED port \/ Close(p)
    BY <1>3 DEF IInv, TypeOK, ScanRefuses, PortTaken, Decline, GuardFails, GuardLost,
                Goto, memory, compat, released
  <2>2. latch' \in {latch, cache, NoFile} \cup Starters
    BY <1>3 DEF ScanRefuses, PortTaken, Decline, GuardFails, GuardLost, Blocked, compat
  <2>3. pc'[p] \notin Reserved /\ pc'[p] \notin Guarded /\ pc'[p] \notin Established
    BY <2>1 DEF Reserved, Guarded, Established
  <2>4. \A q \in Starters : pc'[q] \in Reserved => port'[net[q]] = port[net[q]]
    <3>1. \A q \in Starters : pc'[q] \in Reserved => q # p /\ port[net[q]] = q
      BY <2>1, <2>3 DEF IInv, Upgraded, PortOwned
    <3>2. QED
      BY <1>a, <1>b, <2>1, <3>1
  <2>5. QED
    BY <2>1, <2>2, <2>3, <2>4, UpgradedKept
<1>4. CASE BindPort(p)
  <2>1. /\ pc[p] = "port" /\ pc'[p] = "latch" /\ \A q \in Starters \ {p} : pc'[q] = pc[q]
        /\ UNCHANGED <<net, cache, latch, accepts, old>>
        /\ port' = [port EXCEPT ![net[p]] = p]
    BY <1>4 DEF IInv, TypeOK, BindPort, Goto, memory, compat, released
  <2>2. \A q \in Starters \ {p} : pc'[q] \notin Held
    BY <2>1 DEF IInv, OneHolder, Held
  <2>3. port'[net[p]] = p
    BY <1>b, <2>1 DEF IInv, TypeOK
  <2>4. PortOwned'
    BY <2>1, <2>2, <2>3 DEF PortOwned, Held
  <2>5. NoLegacy' /\ GuardKept'
    BY <2>1, <2>2 DEF NoLegacy, GuardKept, Held, Reserved, Guarded, Established
  <2>6. RecordsDone'
    BY <2>1 DEF IInv, Upgraded, RecordsDone
  <2>7. QED
    BY <2>4, <2>5, <2>6 DEF Upgraded
<1>5. CASE LatchClear(p) \/ Approved(p) \/ LinkGuard(p) \/ OwnGuard(p)
  <2>1. /\ pc[p] \in {"latch", "guard", "own"} /\ pc'[p] \in {"guard", "own", "rescan"}
        /\ \A q \in Starters \ {p} : pc'[q] = pc[q]
        /\ UNCHANGED <<net, old, port>>
    BY <1>5 DEF IInv, TypeOK, LatchClear, Approved, Accept, LinkGuard, OwnGuard,
                Goto, compat, released
  <2>2. \A q \in Starters \ {p} : pc'[q] \notin Held
    BY <2>1 DEF IInv, OneHolder, Held, Reserved
  <2>3. PortOwned'
    BY <2>1, <2>2 DEF IInv, Upgraded, PortOwned, Held, Reserved
  <2>4. NoLegacy' /\ GuardKept'
    BY <2>1, <2>2 DEF NoLegacy, GuardKept, Held, Reserved, Guarded, Established
  <2>5. RecordsDone'
    <3>1. cache' \in {cache, p} /\ latch' \in {latch, cache}
      BY <1>5 DEF LatchClear, Approved, Accept, LinkGuard, OwnGuard, Blocked
    <3>2. accepts' = accepts \/ accepts' = [accepts EXCEPT ![p] = cache]
              \/ accepts' = [accepts EXCEPT ![p] = latch]
              \/ accepts' = [accepts EXCEPT ![p] = NoFile]
      BY <1>5 DEF LatchClear, Approved, Accept, LinkGuard, OwnGuard, Blocked, memory
    <3>3. \A l \in Legacy : l \notin Starters /\ l # NoFile
      BY ProcessAssumption
    <3>4. QED
      BY <2>1, <3>1, <3>2, <3>3 DEF IInv, TypeOK, Upgraded, RecordsDone
  <2>6. QED
    BY <2>3, <2>4, <2>5 DEF Upgraded
<1>6. CASE VerifyGuard(p)
  <2>1. /\ pc[p] = "verify" /\ pc'[p] = "probe" /\ GuardStands(p)
        /\ \A q \in Starters \ {p} : pc'[q] = pc[q]
        /\ UNCHANGED <<net, cache, latch, accepts, old, port>>
    BY <1>6 DEF IInv, TypeOK, VerifyGuard, Goto, memory, compat, released
  <2>2. GuardStands(p)' /\ Quiet(p)'
    BY <2>1 DEF IInv, Upgraded, NoLegacy, GuardStands, Quiet, Guarded
  <2>3. \A q \in Starters \ {p} : pc'[q] \notin Held
    BY <2>1 DEF IInv, OneHolder, Held, Reserved, Guarded
  <2>4. PortOwned'
    BY <2>1, <2>3 DEF IInv, Upgraded, PortOwned, Held, Reserved, Guarded
  <2>5. NoLegacy' /\ GuardKept'
    BY <2>2, <2>3 DEF NoLegacy, GuardKept, Held, Reserved, Guarded
  <2>6. RecordsDone'
    BY <2>1 DEF IInv, Upgraded, RecordsDone
  <2>7. QED
    BY <2>4, <2>5, <2>6 DEF Upgraded
<1>7. QED
  BY <1>1, <1>2, <1>3, <1>4, <1>5, <1>6 DEF Establish, ScanPasses

(* The scan lets a starter pass when no other one lives, and no released   *)
(* server; the port, the guard and its verification follow.                *)
LEMMA EstablishInv ==
    ASSUME IInv, NEW p \in Starters, Establish(p)
    PROVE  IInv'
<1>1. UNCHANGED <<net, rounds, seen, ident, files, listening, old, declared, settled>>
  BY DEF Establish, memory, files, compat, released, ScanPasses, ScanRefuses,
         BindPort, PortTaken, Decline, LatchClear, Approved, Accept, LinkGuard,
         OwnGuard, GuardFails, VerifyGuard, GuardLost
<1>2. pc' \in [Starters -> Places] /\ pc[p] \in Held \cup {"scan"}
  BY DEF IInv, TypeOK, Places, Held, Reserved, Guarded, Establish, Goto,
         ScanPasses, ScanRefuses, BindPort, PortTaken, Decline, LatchClear,
         Approved, Accept, LinkGuard, OwnGuard, GuardFails, VerifyGuard, GuardLost
<1>3. \A q \in Starters \ {p} : pc'[q] = pc[q]
  BY DEF IInv, TypeOK, Establish, Goto, ScanPasses, ScanRefuses, BindPort,
         PortTaken, Decline, LatchClear, Approved, Accept, LinkGuard, OwnGuard,
         GuardFails, VerifyGuard, GuardLost
<1>4. RoundLeft'
  BY <1>1, <1>3 DEF IInv, TypeOK, RoundLeft, Establish, Goto, ScanPasses,
         ScanRefuses, BindPort, PortTaken, Decline, LatchClear, Approved, Accept,
         LinkGuard, OwnGuard, GuardFails, VerifyGuard, GuardLost
<1>5. port' \in [Nets -> Starters \cup Legacy \cup {Other, NoFile}]
  BY DEF IInv, TypeOK, Establish, Close, ScanPasses, ScanRefuses, BindPort,
         PortTaken, Decline, LatchClear, Approved, Accept, LinkGuard, OwnGuard,
         GuardFails, VerifyGuard, GuardLost
<1>6. locked' \in BOOLEAN
  BY DEF IInv, TypeOK, Establish, compat, ScanPasses, ScanRefuses, BindPort,
         PortTaken, Decline, LatchClear, Approved, Accept, LinkGuard, OwnGuard,
         GuardFails, VerifyGuard, GuardLost
<1>7. /\ cache' \in Maker \cup Legacy
      /\ latch' \in Starters \cup Legacy \cup {NoFile}
      /\ guarded' \in [Starters -> Maker \cup Legacy]
      /\ accepts' \in [Starters -> Starters \cup Legacy \cup {NoFile}]
  <2>1. Blocked \in Starters \cup Legacy \cup {NoFile}
    BY DEF IInv, TypeOK, Blocked
  <2>2. QED
    BY <2>1, SMTT(60)
       DEF IInv, TypeOK, Maker, Establish, memory, compat, ScanPasses, ScanRefuses,
           BindPort, PortTaken, Decline, LatchClear, Approved, Accept, LinkGuard,
           OwnGuard, GuardFails, VerifyGuard, GuardLost
<1>8. TypeOK'
  BY <1>1, <1>2, <1>5, <1>6, <1>7 DEF IInv, TypeOK, files, Maker
<1>9. pc[p] \in Held \/ \A q \in Starters \ {p} : pc[q] \notin Held \/ pc'[p] \notin Held
  <2>1. CASE ScanPasses(p)
    BY <2>1 DEF ScanPasses, Alone, Live, Held, Reserved, Guarded, Established
  <2>2. CASE ~ScanPasses(p)
    BY <2>2 DEF IInv, TypeOK, Establish, Goto, Held, Reserved, Guarded, ScanRefuses, BindPort,
           PortTaken, Decline, LatchClear, Approved, Accept, LinkGuard, OwnGuard,
           GuardFails, VerifyGuard, GuardLost, Established
  <2>3. QED
    BY <2>1, <2>2
<1>10. OneHolder'
  BY <1>2, <1>3, <1>9 DEF IInv, OneHolder
<1>11. EndpointKept'
  <2>1. pc'[p] \notin {"listen", "login", "serve"}
    BY DEF IInv, TypeOK, Establish, Goto, ScanPasses, ScanRefuses, BindPort,
           PortTaken, Decline, LatchClear, Approved, Accept, LinkGuard, OwnGuard,
           GuardFails, VerifyGuard, GuardLost
  <2>2. QED
    BY <1>1, <1>3, <2>1 DEF IInv, EndpointKept, files
<1>12. Upgraded'
  BY <1>8, EstablishUpgraded DEF TypeOK
<1>13. QED
  BY <1>4, <1>8, <1>10, <1>11, <1>12 DEF IInv

(* Behind the verification only this starter touches the socket. *)
LEMMA BindInv ==
    ASSUME IInv, NEW p \in Starters, Bind(p)
    PROVE  IInv'
<1>1. /\ UNCHANGED <<net, rounds, ident, guarded, accepts, marker, cache, locked, released>>
      /\ UNCHANGED port \/ (Close(p) /\ pc'[p] = "drop")
      /\ \A q \in Starters \ {p} : pc'[q] = pc[q]
      /\ pc[p] \in Established
      /\ pc'[p] \in Established \cup {"drop"}
      /\ pc' \in [Starters -> Places]
  BY DEF IInv, TypeOK, Places, Established, Bind, memory, files, compat, Goto,
         ProbeSocket, SocketAnswers, CompareSocket, CleanSocket, SocketChanged, BindSocket,
         Listen, LoggedIn, LoginRefused
<1>2. RoundLeft'
  BY <1>1 DEF IInv, RoundLeft, Established
<1>3. port' \in [Nets -> Starters \cup Legacy \cup {Other, NoFile}]
  BY <1>1 DEF IInv, TypeOK, Close
<1>4. /\ seen' \in [Starters -> Maker \cup {Other}]
      /\ socket' \in Maker \cup {Other}
      /\ listening' \subseteq Starters \cup {Other}
  BY DEF IInv, TypeOK, Maker, Bind, memory, files, ProbeSocket, SocketAnswers,
         CompareSocket, CleanSocket, SocketChanged, BindSocket, Listen, LoggedIn, LoginRefused
<1>5. latch' \in {latch, NoFile, p}
  BY DEF Bind, compat, ProbeSocket, SocketAnswers, CompareSocket, CleanSocket, SocketChanged,
         BindSocket, Listen, LoggedIn, LoginRefused
<1>6. settled' \subseteq Starters \cup Legacy
  BY DEF IInv, TypeOK, Bind, compat, ProbeSocket, SocketAnswers, CompareSocket, CleanSocket,
         SocketChanged, BindSocket, Listen, LoggedIn, LoginRefused
<1>7. TypeOK'
  BY <1>1, <1>3, <1>4, <1>5, <1>6 DEF IInv, TypeOK, Maker, released
<1>8. OneHolder'
  BY <1>1 DEF IInv, OneHolder, Held, Reserved, Guarded, Established
<1>9. \A q \in Starters \ {p} : pc'[q] \notin Held
  BY <1>1 DEF IInv, OneHolder, Held, Reserved, Guarded
<1>10. EndpointKept'
  <2>1. pc'[p] \in {"listen", "login", "serve"} => socket' = p
    BY DEF IInv, TypeOK, EndpointKept, Bind, files, Goto, ProbeSocket,
           SocketAnswers, CompareSocket, CleanSocket, SocketChanged, BindSocket, Listen,
           LoggedIn, LoginRefused
  <2>2. QED
    BY <1>9, <2>1 DEF EndpointKept, Held, Reserved, Guarded, Established
<1>11. Upgraded'
  <2>1. \A q \in Starters : pc'[q] \in Reserved => port'[net[q]] = port[net[q]]
    BY <1>1, <1>9 DEF Held, Reserved, Guarded, Established
  <2>2. /\ pc'[p] \in Reserved => pc[p] \in Reserved
        /\ pc'[p] \in Guarded => pc[p] \in Guarded
        /\ pc'[p] \in Established => pc[p] \in Established
    BY <1>1 DEF Reserved, Guarded
  <2>3. QED
    BY <1>1, <1>5, <2>1, <2>2, UpgradedKept DEF released
<1>12. QED
  BY <1>2, <1>7, <1>8, <1>10, <1>11 DEF IInv

(* A starter that stops touches the socket and the guard only while it     *)
(* still holds them.                                                       *)
LEMMA ShutdownInv ==
    ASSUME IInv, NEW p \in Starters, Shutdown(p)
    PROVE  IInv'
<1>1. /\ UNCHANGED <<net, memory, latch, settled, released>>
      /\ UNCHANGED port \/ Close(p)
      /\ \A q \in Starters \ {p} : pc'[q] = pc[q]
      /\ pc'[p] \in {"unguard", "uncache", "sweep", "unsock", "drop", "undrop", "leave", "gone"}
      /\ pc'[p] \in Held => pc[p] \in Held
      /\ pc' \in [Starters -> Places]
  BY DEF IInv, TypeOK, Places, Held, Reserved, Guarded, Established, Shutdown, compat,
         Goto, End, Terminate, CompareGuard, RemoveGuard, SweepSocket,
         UnlinkSocket, Drop, UnlinkMarker, Leave, Kill
<1>2. RoundLeft'
  BY <1>1 DEF IInv, RoundLeft, memory
<1>3. port' \in [Nets -> Starters \cup Legacy \cup {Other, NoFile}]
  BY <1>1 DEF IInv, TypeOK, Close
<1>4. /\ marker' \in Maker /\ socket' \in Maker \cup {Other}
      /\ listening' \subseteq Starters \cup {Other}
      /\ cache' \in Maker \cup Legacy
  BY DEF IInv, TypeOK, Maker, Shutdown, files, compat, End, Terminate,
         CompareGuard, RemoveGuard, SweepSocket, UnlinkSocket, Drop,
         UnlinkMarker, Leave, Kill
<1>5. locked' \in BOOLEAN
  BY DEF IInv, TypeOK, Shutdown, compat, End, Terminate, CompareGuard,
         RemoveGuard, SweepSocket, UnlinkSocket, Drop, UnlinkMarker, Leave, Kill
<1>6. TypeOK'
  BY <1>1, <1>3, <1>4, <1>5 DEF IInv, TypeOK, Maker, memory, released
<1>7. OneHolder'
  BY <1>1 DEF IInv, OneHolder
<1>8. pc'[p] \notin Reserved /\ pc'[p] \notin Guarded /\ pc'[p] \notin Established
  BY <1>1 DEF Reserved, Guarded, Established
<1>9. EndpointKept'
  <2>1. UNCHANGED socket \/ pc[p] = "unsock"
    BY DEF Shutdown, files, End, Terminate, CompareGuard, RemoveGuard,
           SweepSocket, UnlinkSocket, Drop, UnlinkMarker, Leave, Kill
  <2>2. QED
    BY <1>1, <1>8, <2>1 DEF IInv, OneHolder, EndpointKept, Held, Reserved, Guarded, Established
<1>10. \A q \in Starters : pc'[q] \in Reserved => port'[net[q]] = port[net[q]]
  <2>1. \A q \in Starters : pc'[q] \in Reserved => q # p /\ port[net[q]] = q
    BY <1>1, <1>8 DEF IInv, Upgraded, PortOwned
  <2>2. QED
    BY <1>1, <2>1 DEF IInv, TypeOK, Close
<1>11. CASE RemoveGuard(p)
  <2>1. pc[p] = "uncache" /\ cache' = NoFile
    BY <1>11 DEF RemoveGuard
  <2>2. \A q \in Starters : pc'[q] \notin Reserved
    BY <1>1, <1>8, <2>1 DEF IInv, OneHolder, Held
  <2>3. PortOwned' /\ NoLegacy' /\ GuardKept'
    BY <2>2 DEF PortOwned, NoLegacy, GuardKept, Reserved, Guarded
  <2>4. RecordsDone'
    BY <1>1, <2>1, ProcessAssumption DEF IInv, Upgraded, RecordsDone, memory, released
  <2>5. QED
    BY <1>2, <1>6, <1>7, <1>9, <2>3, <2>4 DEF IInv, Upgraded
<1>12. CASE ~RemoveGuard(p)
  <2>1. UNCHANGED cache
    BY <1>12 DEF Shutdown, compat, End, Terminate, CompareGuard, SweepSocket,
           UnlinkSocket, Drop, UnlinkMarker, Leave, Kill
  <2>2. Upgraded'
    BY <1>1, <1>8, <1>10, <2>1, UpgradedKept DEF memory, released
  <2>3. QED
    BY <1>2, <1>6, <1>7, <1>9, <2>2 DEF IInv
<1>13. QED
  BY <1>11, <1>12

(* A released runtime comes to its login only where no daemon is, or will  *)
(* be once it has looked at the guard.                                     *)
LEMMA ReleasedInv ==
    ASSUME IInv, NEW l \in Legacy, Released(l)
    PROVE  IInv'
<1>1. UNCHANGED <<pc, net, memory, files, latch, settled, listening>>
  BY DEF Released, compat, Arrives, FindsNoLatch, Spawns, OldBinds, OldPortTaken,
         OldLoggedIn, OldEnds, Upgrade
<1>2. old' \in [Legacy -> OldPlaces] /\ declared' \subseteq Legacy
  BY DEF IInv, TypeOK, OldPlaces, OldGoto, Released, Arrives, FindsNoLatch, Spawns,
         OldBinds, OldPortTaken, OldLoggedIn, OldEnds, Upgrade
<1>3. port' \in [Nets -> Starters \cup Legacy \cup {Other, NoFile}]
  BY DEF IInv, TypeOK, Close, Released, Arrives, FindsNoLatch, Spawns,
         OldBinds, OldPortTaken, OldLoggedIn, OldEnds, Upgrade
<1>4. cache' \in Maker \cup Legacy
  BY DEF IInv, TypeOK, Maker, Released, compat, Arrives, FindsNoLatch, Spawns,
         OldBinds, OldPortTaken, OldLoggedIn, OldEnds, Upgrade
<1>5. locked' \in BOOLEAN
  BY DEF IInv, TypeOK, Released, compat, Arrives, FindsNoLatch, Spawns,
         OldBinds, OldPortTaken, OldLoggedIn, OldEnds, Upgrade
<1>6. TypeOK'
  BY <1>1, <1>2, <1>3, <1>4, <1>5 DEF IInv, TypeOK, Maker, memory, files
<1>7. RoundLeft' /\ OneHolder' /\ EndpointKept'
  BY <1>1 DEF IInv, RoundLeft, OneHolder, EndpointKept, memory, files
<1>8. PortOwned'
  <2>1. \A n \in Nets : port[n] \in Starters => port'[n] = port[n]
    BY ProcessAssumption
       DEF IInv, TypeOK, Close, Released, Arrives, FindsNoLatch, Spawns,
           OldBinds, OldPortTaken, OldLoggedIn, OldEnds, Upgrade
  <2>2. QED
    BY <1>1, <2>1 DEF IInv, TypeOK, Upgraded, PortOwned
<1>9. \A k \in Legacy \ {l} : old'[k] = old[k]
  BY DEF IInv, TypeOK, OldGoto, Released, Arrives, FindsNoLatch, Spawns,
         OldBinds, OldPortTaken, OldLoggedIn, OldEnds, Upgrade
<1>10. RecordsDone'
  <2>1. \/ UNCHANGED cache
        \/ cache' = NoFile
        \/ cache' = l /\ old'[l] = "login"
    BY DEF IInv, TypeOK, OldGoto, Released, compat, Arrives, FindsNoLatch, Spawns,
           OldBinds, OldPortTaken, OldLoggedIn, OldEnds, Upgrade
  <2>2. old[l] \in {"login", "serve", "gone"} => old'[l] \in {"login", "serve", "gone"}
    BY DEF IInv, TypeOK, OldGoto, Released, Arrives, FindsNoLatch, Spawns,
           OldBinds, OldPortTaken, OldLoggedIn, OldEnds, Upgrade
  <2>3. l # NoFile
    BY ProcessAssumption
  <2>4. QED
    BY <1>1, <1>9, <2>1, <2>2, <2>3, ProcessAssumption DEF IInv, Upgraded, RecordsDone, memory
<1>11. \A p \in Starters : pc[p] \in Guarded /\ GuardStands(p)'
          => GuardStands(p) /\ Quiet(p)'
  <2>1. SUFFICES ASSUME NEW p \in Starters, pc[p] \in Guarded, GuardStands(p)'
                 PROVE  GuardStands(p) /\ Quiet(p)'
    OBVIOUS
  <2>2. cache' # NoFile
    BY <2>1, ProcessAssumption DEF GuardStands, Guards
  <2>3. GuardStands(p)
    <3>1. CASE UNCHANGED cache
      BY <1>1, <2>1, <3>1 DEF GuardStands, memory
    <3>2. CASE OldBinds(l) /\ cache = NoFile
      <4>1. cache' = l /\ old[l] = "spawned"
        BY <3>2 DEF OldBinds
      <4>2. accepts[p] = l
        BY <1>1, <2>1, <4>1, ProcessAssumption DEF GuardStands, Guards, memory
      <4>3. QED
        BY <4>1, <4>2 DEF IInv, Upgraded, RecordsDone
    <3>3. QED
      BY <2>2, <3>1, <3>2
         DEF Released, compat, Arrives, FindsNoLatch, Spawns, OldBinds,
             OldPortTaken, OldLoggedIn, OldEnds, Upgrade
  <2>4. Quiet(p) /\ port[net[p]] = p /\ cache # NoFile
    BY <2>1, <2>3, ProcessAssumption
       DEF IInv, Upgraded, NoLegacy, PortOwned, Reserved, GuardStands, Guards
  <2>5. /\ old'[l] \notin {"login", "serve"}
        /\ net[l] # net[p] => old'[l] \notin {"checked", "spawned"}
    BY <2>4, ProcessAssumption
       DEF IInv, TypeOK, Quiet, OldGoto, Released, Arrives, FindsNoLatch, Spawns,
           OldBinds, OldPortTaken, OldLoggedIn, OldEnds, Upgrade
  <2>6. Quiet(p)'
    BY <1>1, <1>9, <2>4, <2>5 DEF Quiet
  <2>7. QED
    BY <2>3, <2>6
<1>12. NoLegacy'
  BY <1>1, <1>11 DEF NoLegacy
<1>13. GuardKept'
  <2>1. SUFFICES ASSUME NEW p \in Starters, pc'[p] \in Established
                 PROVE  GuardStands(p)'
    BY DEF GuardKept
  <2>2. GuardStands(p) /\ Quiet(p)
    BY <1>1, <2>1 DEF IInv, Upgraded, GuardKept, NoLegacy, Guarded
  <2>3. cache # NoFile /\ old[l] # "login"
    BY <2>2, ProcessAssumption DEF GuardStands, Guards, Quiet
  <2>4. UNCHANGED <<cache, accepts>>
    BY <1>1, <2>3
       DEF memory, Released, compat, Arrives, FindsNoLatch, Spawns, OldBinds,
           OldPortTaken, OldLoggedIn, OldEnds, Upgrade
  <2>5. QED
    BY <2>2, <2>4 DEF GuardStands
<1>14. QED
  BY <1>6, <1>7, <1>8, <1>10, <1>12, <1>13 DEF IInv, Upgraded

(* A foreign socket takes the path only while no daemon is bound to it. *)
LEMMA OtherInv ==
    ASSUME IInv, OtherListens
    PROVE  IInv'
<1>1. /\ UNCHANGED <<pc, net, memory, marker, compat, port, released>>
      /\ socket = NoFile /\ socket' = Other /\ listening' = listening \cup {Other}
  BY DEF OtherListens
<1>2. TypeOK'
  BY <1>1 DEF IInv, TypeOK, Maker, memory, compat, released
<1>3. \A p \in Starters : pc[p] \notin {"listen", "login", "serve"}
  BY <1>1, ProcessAssumption DEF IInv, EndpointKept
<1>4. RoundLeft' /\ OneHolder' /\ EndpointKept'
  BY <1>1, <1>3 DEF IInv, RoundLeft, OneHolder, EndpointKept, memory
<1>5. Upgraded'
  BY <1>1 DEF IInv, Upgraded, PortOwned, NoLegacy, GuardKept, RecordsDone,
              GuardStands, Quiet, memory, compat, released
<1>6. QED
  BY <1>2, <1>4, <1>5 DEF IInv

LEMMA StutterInv ==
    ASSUME IInv, UNCHANGED vars
    PROVE  IInv'
<1>1. TypeOK' /\ RoundLeft' /\ OneHolder' /\ EndpointKept'
  BY DEF IInv, TypeOK, Maker, RoundLeft, OneHolder, EndpointKept, vars, memory,
         files, compat, released
<1>2. Upgraded'
  BY DEF IInv, Upgraded, PortOwned, NoLegacy, GuardKept, RecordsDone,
         GuardStands, Quiet, vars, memory, compat, released
<1>3. QED
  BY <1>1, <1>2 DEF IInv

(* The invariant of every behaviour. *)
THEOREM SingletonInvariant == Spec => []IInv
<1>1. IInv /\ [Next]_vars => IInv'
  BY AcquireInv, EstablishInv, BindInv, ShutdownInv, ReleasedInv, OtherInv,
     StutterInv DEF Next
<1>2. QED
  BY InitInv, <1>1, PTL DEF Spec

-----------------------------------------------------------------------------
(* Type correctness of the starters, their files and sockets. *)
THEOREM SingletonTypeCorrect == Spec => []TypeOK
<1>1. IInv => TypeOK
  BY DEF IInv
<1>2. QED
  BY SingletonInvariant, <1>1, PTL

(* However many daemons are started, in whatever namespaces, at most one   *)
(* gets to the login, and none beside a server of an earlier release,      *)
(* whatever point its client had reached when the daemon was started.      *)
THEOREM OneDaemonHolds == Spec => []OneDaemon
<1>1. IInv => OneDaemon
  BY DEF IInv, Upgraded, OneHolder, NoLegacy, GuardKept, Quiet, OneDaemon, Held,
         Reserved, Guarded
<1>2. QED
  BY SingletonInvariant, <1>1, PTL

(* Nobody takes the socket from the daemon that listens on it. *)
THEOREM EndpointKeptHolds == Spec => []EndpointKept
<1>1. IInv => EndpointKept
  BY DEF IInv
<1>2. QED
  BY SingletonInvariant, <1>1, PTL
=============================================================================
