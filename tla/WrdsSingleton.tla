---------------------------- MODULE WrdsSingleton ----------------------------
(***************************************************************************)
(* How several WRDS daemons that are started at the same time come down to *)
(* one, beside the runtimes of earlier releases that an upgrade finds      *)
(* (wrds_server.py: _acquire_instance_lock, the process scan, the retired  *)
(* TCP port, the compatibility guard, the Unix socket, their clean-up).    *)
(*                                                                         *)
(* A starter is a process of this release.  It links its marker file,      *)
(* removing the marker of a dead owner first, looks for others in the      *)
(* process table, takes the TCP port of its network namespace, reads the   *)
(* retry latch, publishes the guard that released clients honour, looks    *)
(* again, binds the Unix socket and only then logs in.  A runtime of an    *)
(* earlier release looks for that guard, and spawns a server of its own    *)
(* some time after.  A process may be killed anywhere: the kernel closes   *)
(* its sockets, its files stay.                                            *)
(*                                                                         *)
(* A file is named by the process that made it.  Python's lstat and unlink *)
(* are two calls, and so two steps here.  The PID file is written but      *)
(* never trusted, and is left out; the retry latch that daemons of this    *)
(* release keep is the subject of WrdsDaemon, and only makes a starter     *)
(* decline here.                                                           *)
(***************************************************************************)
EXTENDS Naturals

CONSTANTS
    Starters,   \* processes that run wrds_server.py of this release
    Legacy,     \* runtimes of earlier releases, with the server each spawns
    Other,      \* a process that the scan does not take for a server
    Nets,       \* network namespaces: each has a loopback port of its own
    Stale,      \* maker of the files a dead daemon left behind
    NoFile,     \* no file at this path; no process at this port
    MaxRounds   \* attempts to link the marker (8 in the code)

ASSUME ProcessAssumption ==
    /\ Starters \cap Legacy = {}
    /\ Other \notin Starters \cup Legacy
    /\ Stale \notin Starters \cup Legacy \cup {Other}
    /\ NoFile \notin Starters \cup Legacy \cup {Other, Stale}

ASSUME RoundAssumption == MaxRounds \in Nat \ {0}

VARIABLES
    pc,         \* where each starter is
    net,        \* the network namespace it was started in
    rounds,     \* attempts it has made to link the marker
    seen,       \* the file whose identity it compares before an unlink
    ident,      \* what it takes to be the identity of its own marker
    marker,     \* LOCK_FILE
    socket,     \* SOCKET_FILE
    listening,  \* processes that accept connections on a Unix socket
    port,       \* who listens on the TCP port of each namespace
    cache,      \* CACHE_AUTH_BLOCK_FILE: a guard, named by its starter, or
                \* the record of a login that a released server began
    locked,     \* the directory of that file is read-only (mode 0500)
    latch,      \* the protected retry latch: a record of such a login, or of
                \* the login of the starter it names
    settled,    \* records that an operator's retry has verified (observer)
    guarded,    \* what each starter takes to be its guard
    accepts,    \* the record it accepts in place of a guard
    old,        \* where each runtime of an earlier release is
    declared    \* those whose deployment by now declares this release

files == <<marker, socket>>
compat == <<cache, locked, latch, settled>>
memory == <<rounds, seen, ident, guarded, accepts>>
released == <<old, declared>>
vars == <<pc, net, memory, files, compat, listening, port, released>>

Maker == Starters \cup {Stale, NoFile}

Guards == Starters \cup {Stale}

Live(p) == pc[p] \notin {"absent", "gone"}

Goto(p, place) == pc' = [pc EXCEPT ![p] = place]

Close(p) == port' = [n \in Nets |-> IF port[n] = p THEN NoFile ELSE port[n]]

Init ==
    /\ pc = [p \in Starters |-> "absent"]
    /\ net \in [Starters \cup Legacy -> Nets]
    /\ rounds = [p \in Starters |-> 0]
    /\ seen = [p \in Starters |-> NoFile]
    /\ ident = [p \in Starters |-> NoFile]
    /\ marker \in {NoFile, Stale}
    /\ socket \in {NoFile, Stale}
    /\ listening = {}
    /\ port \in [Nets -> {Other, NoFile}]
    /\ cache \in {NoFile, Stale} /\ locked = (cache # NoFile)
    /\ latch = NoFile /\ settled = {}
    /\ guarded = [p \in Starters |-> NoFile]
    /\ accepts = [p \in Starters |-> NoFile]
    /\ old = [l \in Legacy |-> "away"]
    /\ declared = {}

-----------------------------------------------------------------------------
(* _acquire_instance_lock() *)

Launch(p) ==
    /\ pc[p] = "absent"
    /\ Goto(p, "link")
    /\ UNCHANGED <<net, memory, files, compat, listening, port, released>>

(* os.link publishes a complete record, and never over an existing one. *)
LinkMarker(p) ==
    /\ pc[p] = "link" /\ marker = NoFile
    /\ marker' = p
    /\ Goto(p, "identity")
    /\ UNCHANGED <<net, memory, socket, compat, listening, port, released>>

MarkerExists(p) ==
    /\ pc[p] = "link" /\ marker # NoFile
    /\ Goto(p, "read")
    /\ UNCHANGED <<net, memory, files, compat, listening, port, released>>

(* The recorded owner is alive: exit 3.  Its birth token makes a recycled  *)
(* PID a dead owner.                                                       *)
Busy(p) ==
    /\ pc[p] = "read" /\ marker \in Starters /\ Live(marker)
    /\ Goto(p, "leave")
    /\ UNCHANGED <<net, memory, files, compat, listening, port, released>>

ReadStale(p) ==
    /\ pc[p] = "read"
    /\ ~(marker \in Starters /\ Live(marker))
    /\ seen' = [seen EXCEPT ![p] = marker]
    /\ Goto(p, "compare")
    /\ UNCHANGED <<net, rounds, ident, guarded, accepts, files, compat,
                   listening, port, released>>

(* The next of MaxRounds attempts, or the end: exit 2. *)
NextRound(p) ==
    /\ rounds' = [rounds EXCEPT ![p] = rounds[p] + 1]
    /\ Goto(p, IF rounds[p] + 1 < MaxRounds THEN "link" ELSE "leave")

(* _remove_lock_if_identity(): lstat, compare ... *)
SameMarker(p) ==
    /\ pc[p] = "compare" /\ marker = seen[p] /\ marker # NoFile
    /\ Goto(p, "unlink")
    /\ UNCHANGED <<net, memory, files, compat, listening, port, released>>

OtherMarker(p) ==
    /\ pc[p] = "compare" /\ (marker # seen[p] \/ marker = NoFile)
    /\ NextRound(p)
    /\ UNCHANGED <<net, seen, ident, guarded, accepts, files, compat,
                   listening, port, released>>

(* ... and unlink whatever is at the path by now. *)
UnlinkStale(p) ==
    /\ pc[p] = "unlink"
    /\ marker' = NoFile
    /\ NextRound(p)
    /\ UNCHANGED <<net, seen, ident, guarded, accepts, socket, compat,
                   listening, port, released>>

(* The identity it will compare at its exit is read back from the path. *)
ReadIdentity(p) ==
    /\ pc[p] = "identity" /\ marker # NoFile
    /\ ident' = [ident EXCEPT ![p] = marker]
    /\ Goto(p, "scan")
    /\ UNCHANGED <<net, rounds, seen, guarded, accepts, files, compat,
                   listening, port, released>>

MarkerVanished(p) ==
    /\ pc[p] = "identity" /\ marker = NoFile
    /\ Goto(p, "leave")
    /\ UNCHANGED <<net, memory, files, compat, listening, port, released>>

-----------------------------------------------------------------------------
(* _refuse_live_legacy_processes(), the TCP port and the guard *)

(* A server of an earlier release, from its exec on. *)
Spawned(l) == old[l] \in {"spawned", "login", "serve"}

(* _foreign_network_namespace_pids(): a runtime in another namespace that  *)
(* may still spawn.  Its deployment may have been upgraded under it, but   *)
(* only a client that was in place when it started is the one it runs.     *)
Foreign(p, l) == old[l] \notin {"away", "gone"} /\ net[l] # net[p]

(* Mutant: whoever's deployment declares this release is let be. *)
AloneByDeclaration(p) ==
    /\ \A q \in Starters \ {p} : ~Live(q)
    /\ \A l \in Legacy : ~Spawned(l) /\ (Foreign(p, l) => l \in declared)

(* Mutant: only daemons of this network namespace are looked for. *)
AloneInNamespace(p) ==
    /\ \A q \in Starters \ {p} : Live(q) => net[q] # net[p]
    /\ \A l \in Legacy : ~Spawned(l) /\ ~Foreign(p, l)

(* The process table shows no other wrds_server.py of this user, and no    *)
(* released runtime out of reach of the TCP port.                          *)
Alone(p) ==
    /\ \A q \in Starters \ {p} : ~Live(q)
    /\ \A l \in Legacy : ~Spawned(l) /\ ~Foreign(p, l)

ScanPasses(p) ==
    /\ pc[p] \in {"scan", "rescan"}
    /\ Alone(p)
    /\ Goto(p, IF pc[p] = "scan" THEN "port" ELSE "verify")
    /\ UNCHANGED <<net, memory, files, compat, listening, port, released>>

(* "older WRDS server process(es) still live": exit 4. *)
ScanRefuses(p) ==
    /\ pc[p] \in {"scan", "rescan"}
    /\ ~Alone(p)
    /\ Close(p)
    /\ Goto(p, "drop")
    /\ UNCHANGED <<net, memory, files, compat, listening, released>>

BindPort(p) ==
    /\ pc[p] = "port" /\ port[net[p]] = NoFile
    /\ port' = [port EXCEPT ![net[p]] = p]
    /\ Goto(p, "latch")
    /\ UNCHANGED <<net, memory, files, compat, listening, released>>

PortTaken(p) ==
    /\ pc[p] = "port" /\ port[net[p]] # NoFile
    /\ Goto(p, "drop")
    /\ UNCHANGED <<net, memory, files, compat, listening, port, released>>

(* _read_auth_block(): the protected latch, else the record of a released  *)
(* server, which is copied there, unless the directory is locked.          *)
Blocked == IF latch = NoFile /\ cache \in Legacy /\ ~locked THEN cache ELSE latch

(* The latch or its storage stops the start: exit 2. *)
Decline(p) ==
    /\ pc[p] = "latch"
    /\ Close(p)
    /\ latch' = Blocked
    /\ Goto(p, "drop")
    /\ UNCHANGED <<net, memory, files, cache, locked, settled, listening, released>>

Accept(p, record) ==
    /\ accepts' = [accepts EXCEPT ![p] = record]
    /\ Goto(p, "guard")
    /\ UNCHANGED <<net, rounds, seen, ident, guarded, files, cache, locked,
                   settled, listening, port, released>>

(* A record under a locked directory is taken for one that an operator's   *)
(* retry left there (_adopted_legacy_guard()).                             *)
LatchClear(p) ==
    /\ pc[p] = "latch" /\ Blocked = NoFile
    /\ Accept(p, IF cache \in Legacy THEN cache ELSE NoFile)
    /\ UNCHANGED latch

(* An operator approves one retry (--operator-unblock). *)
Approved(p) ==
    /\ pc[p] = "latch" /\ Blocked # NoFile
    /\ latch' = Blocked
    /\ Accept(p, Blocked)

(* _write_compat_guard(): os.link never replaces what is there ... *)
LinkGuard(p) ==
    /\ pc[p] = "guard"
    /\ cache' = IF cache = NoFile THEN p ELSE cache
    /\ locked' = FALSE
    /\ Goto(p, "own")
    /\ UNCHANGED <<net, memory, files, latch, settled, listening, port, released>>

(* ... and what is there by now is locked and taken for the guard. *)
OwnGuard(p) ==
    /\ pc[p] = "own" /\ cache # NoFile
    /\ locked' = TRUE
    /\ guarded' = [guarded EXCEPT ![p] = cache]
    /\ Goto(p, "rescan")
    /\ UNCHANGED <<net, rounds, seen, ident, accepts, files, cache, latch, settled,
                   listening, port, released>>

(* Exit 5. *)
GuardFails(p) ==
    /\ pc[p] \in {"guard", "own"}
    /\ locked' = (cache # NoFile)
    /\ Close(p)
    /\ Goto(p, "drop")
    /\ UNCHANGED <<net, memory, files, cache, latch, settled, listening, released>>

(* _verify_compat_guard(): a guard, or the record accepted in its place. *)
GuardStands(p) == cache \in Guards \/ (cache # NoFile /\ cache = accepts[p])

VerifyGuard(p) ==
    /\ pc[p] = "verify" /\ GuardStands(p)
    /\ Goto(p, "probe")
    /\ UNCHANGED <<net, memory, files, compat, listening, port, released>>

(* A released server was first: its record is copied; exit 4.  No file: 5. *)
GuardLost(p) ==
    /\ pc[p] = "verify" /\ ~GuardStands(p)
    /\ latch' = IF cache \in Legacy THEN cache ELSE latch
    /\ Close(p)
    /\ Goto(p, "drop")
    /\ UNCHANGED <<net, memory, files, cache, locked, settled, listening, released>>

-----------------------------------------------------------------------------
(* _bind_unix_server() *)

(* No socket file, or one nobody accepts on: its identity is remembered. *)
ProbeSocket(p) ==
    /\ pc[p] = "probe"
    /\ socket \notin listening
    /\ seen' = [seen EXCEPT ![p] = socket]
    /\ Goto(p, IF socket = NoFile THEN "bind" ELSE "clean")
    /\ UNCHANGED <<net, rounds, ident, guarded, accepts, files, compat,
                   listening, port, released>>

(* A live socket is never unlinked. *)
SocketAnswers(p) ==
    /\ pc[p] = "probe"
    /\ socket \in listening
    /\ Close(p)
    /\ Goto(p, "drop")
    /\ UNCHANGED <<net, memory, files, compat, listening, released>>

(* The identity is compared once more; the unlink that follows is by path. *)
CompareSocket(p) ==
    /\ pc[p] = "clean" /\ socket \in {seen[p], NoFile}
    /\ Goto(p, IF socket = NoFile THEN "bind" ELSE "clear")
    /\ UNCHANGED <<net, memory, files, compat, listening, port, released>>

CleanSocket(p) ==
    /\ pc[p] = "clear" /\ socket # NoFile
    /\ socket' = NoFile
    /\ Goto(p, "bind")
    /\ UNCHANGED <<net, memory, marker, compat, listening, port, released>>

(* Another socket at the path, or none where there was one. *)
SocketChanged(p) ==
    /\ \/ pc[p] = "clean" /\ socket \notin {seen[p], NoFile}
       \/ pc[p] = "clear" /\ socket = NoFile
       \/ pc[p] = "bind" /\ socket # NoFile
    /\ Close(p)
    /\ Goto(p, "drop")
    /\ UNCHANGED <<net, memory, files, compat, listening, released>>

BindSocket(p) ==
    /\ pc[p] = "bind" /\ socket = NoFile
    /\ socket' = p
    /\ Goto(p, "listen")
    /\ UNCHANGED <<net, memory, marker, compat, listening, port, released>>

(* It listens, and records the login it is about to begin. *)
Listen(p) ==
    /\ pc[p] = "listen"
    /\ listening' = listening \cup {p}
    /\ latch' = p
    /\ Goto(p, "login")
    /\ UNCHANGED <<net, memory, files, cache, locked, settled, port, released>>

(* A verified login clears the protected latch, and only that. *)
LoggedIn(p) ==
    /\ pc[p] = "login"
    /\ latch' = NoFile
    /\ settled' = settled \cup ({accepts[p]} \ {NoFile})
    /\ Goto(p, "serve")
    /\ UNCHANGED <<net, memory, files, cache, locked, listening, port, released>>

(* Refused: the daemon stays, blocked (WrdsDaemon). *)
LoginRefused(p) ==
    /\ pc[p] = "login"
    /\ Goto(p, "serve")
    /\ UNCHANGED <<net, memory, files, compat, listening, port, released>>

-----------------------------------------------------------------------------
(* The end of a process *)

(* SIGTERM while serving; or no PID file, no marker for an approved retry, *)
(* which leaves the guard in place.                                        *)
Terminate(p) ==
    /\ pc[p] \in {"login", "serve"}
    /\ listening' = listening \ {p}
    /\ Close(p)
    /\ Goto(p, IF pc[p] = "serve" THEN "unguard" ELSE "sweep")
    /\ UNCHANGED <<net, memory, files, compat, released>>

(* _remove_compat_guard(): only the file it published or adopted. *)
CompareGuard(p) ==
    /\ pc[p] = "unguard"
    /\ Goto(p, IF cache = guarded[p] THEN "uncache" ELSE "sweep")
    /\ UNCHANGED <<net, memory, files, compat, listening, port, released>>

RemoveGuard(p) ==
    /\ pc[p] = "uncache"
    /\ cache' = NoFile
    /\ locked' = FALSE
    /\ Goto(p, "sweep")
    /\ UNCHANGED <<net, memory, files, latch, settled, listening, port, released>>

(* _unlink_socket_if_identity(): only the socket it made itself. *)
SweepSocket(p) ==
    /\ pc[p] = "sweep"
    /\ Goto(p, IF socket = p THEN "unsock" ELSE "drop")
    /\ UNCHANGED <<net, memory, files, compat, listening, port, released>>

UnlinkSocket(p) ==
    /\ pc[p] = "unsock"
    /\ socket' = NoFile
    /\ Goto(p, "drop")
    /\ UNCHANGED <<net, memory, marker, compat, listening, port, released>>

(* _remove_lock_if_identity(instance_lock) *)
Drop(p) ==
    /\ pc[p] = "drop"
    /\ Goto(p, IF marker = ident[p] /\ marker # NoFile THEN "undrop" ELSE "leave")
    /\ UNCHANGED <<net, memory, files, compat, listening, port, released>>

UnlinkMarker(p) ==
    /\ pc[p] = "undrop"
    /\ marker' = NoFile
    /\ Goto(p, "leave")
    /\ UNCHANGED <<net, memory, socket, compat, listening, port, released>>

(* The process ends by itself, or is killed wherever it is. *)
End(p) ==
    /\ Close(p)
    /\ listening' = listening \ {p}
    /\ Goto(p, "gone")
    /\ UNCHANGED <<net, memory, files, compat, released>>

Leave(p) == pc[p] = "leave" /\ End(p)

Kill(p) == Live(p) /\ End(p)

-----------------------------------------------------------------------------
(* Runtimes of earlier releases *)

OldGoto(l, place) == old' = [old EXCEPT ![l] = place]

Arrives(l) ==
    /\ old[l] = "away" /\ l \notin declared
    /\ OldGoto(l, "runtime")
    /\ UNCHANGED <<pc, net, memory, files, compat, listening, port, declared>>

(* It reads the cache latch, is paused ... *)
FindsNoLatch(l) ==
    /\ old[l] = "runtime" /\ cache = NoFile
    /\ OldGoto(l, "checked")
    /\ UNCHANGED <<pc, net, memory, files, compat, listening, port, declared>>

(* ... and spawns its server, ... *)
Spawns(l) ==
    /\ old[l] = "checked"
    /\ OldGoto(l, "spawned")
    /\ UNCHANGED <<pc, net, memory, files, compat, listening, port, declared>>

(* ... which takes the TCP port of its namespace or ends, ... *)
OldBinds(l) ==
    /\ old[l] = "spawned" /\ port[net[l]] = NoFile
    /\ port' = [port EXCEPT ![net[l]] = l]
    /\ cache' = IF cache = NoFile THEN l ELSE cache
    /\ OldGoto(l, "login")
    /\ UNCHANGED <<pc, net, memory, files, locked, latch, settled, listening,
                   declared>>

OldPortTaken(l) ==
    /\ old[l] = "spawned" /\ port[net[l]] # NoFile
    /\ OldGoto(l, "runtime")
    /\ UNCHANGED <<pc, net, memory, files, compat, listening, port, declared>>

(* ... logs in under its record and removes that where it can. *)
OldLoggedIn(l) ==
    /\ old[l] = "login"
    /\ cache' = IF cache = l /\ ~locked THEN NoFile ELSE cache
    /\ OldGoto(l, "serve")
    /\ UNCHANGED <<pc, net, memory, files, locked, latch, settled, listening,
                   port, declared>>

(* It ends wherever it is; a record it has not removed stays. *)
OldEnds(l) ==
    /\ old[l] \notin {"away", "gone"}
    /\ Close(l)
    /\ OldGoto(l, "gone")
    /\ UNCHANGED <<pc, net, memory, files, compat, listening, declared>>

(* Its deployment is updated in place, whether or not it runs. *)
Upgrade(l) ==
    /\ l \notin declared
    /\ declared' = declared \cup {l}
    /\ UNCHANGED <<pc, net, memory, files, compat, listening, port, old>>

(* A process that the scan overlooks (no server at all, or one started     *)
(* with a switch that is_server_argv does not skip) takes the free path;   *)
(* when it ends its socket is as good as a stale one.                      *)
OtherListens ==
    /\ socket = NoFile /\ Other \notin listening
    /\ socket' = Other
    /\ listening' = listening \cup {Other}
    /\ UNCHANGED <<pc, net, memory, marker, compat, port, released>>

-----------------------------------------------------------------------------
Acquire(p) ==
    \/ Launch(p) \/ LinkMarker(p) \/ MarkerExists(p) \/ Busy(p) \/ ReadStale(p)
    \/ SameMarker(p) \/ OtherMarker(p) \/ UnlinkStale(p)
    \/ ReadIdentity(p) \/ MarkerVanished(p)

Establish(p) ==
    \/ ScanPasses(p) \/ ScanRefuses(p) \/ BindPort(p) \/ PortTaken(p)
    \/ Decline(p) \/ LatchClear(p) \/ Approved(p) \/ LinkGuard(p) \/ OwnGuard(p)
    \/ GuardFails(p) \/ VerifyGuard(p) \/ GuardLost(p)

Bind(p) ==
    \/ ProbeSocket(p) \/ SocketAnswers(p) \/ CompareSocket(p) \/ CleanSocket(p)
    \/ SocketChanged(p) \/ BindSocket(p) \/ Listen(p) \/ LoggedIn(p) \/ LoginRefused(p)

Shutdown(p) ==
    \/ Terminate(p) \/ CompareGuard(p) \/ RemoveGuard(p) \/ SweepSocket(p)
    \/ UnlinkSocket(p) \/ Drop(p) \/ UnlinkMarker(p) \/ Leave(p) \/ Kill(p)

Released(l) ==
    \/ Arrives(l) \/ FindsNoLatch(l) \/ Spawns(l) \/ OldBinds(l)
    \/ OldPortTaken(l) \/ OldLoggedIn(l) \/ OldEnds(l) \/ Upgrade(l)

Next ==
    \/ \E p \in Starters : Acquire(p) \/ Establish(p) \/ Bind(p) \/ Shutdown(p)
    \/ \E l \in Legacy : Released(l)
    \/ OtherListens

Spec == Init /\ [][Next]_vars

-----------------------------------------------------------------------------
Places == {"absent", "link", "read", "compare", "unlink", "identity", "scan",
           "port", "latch", "guard", "own", "rescan", "verify", "probe", "clean", "clear", "bind",
           "listen", "login", "serve", "unguard", "uncache", "sweep", "unsock",
           "drop", "undrop", "leave", "gone"}

OldPlaces == {"away", "runtime", "checked", "spawned", "login", "serve", "gone"}

TypeOK ==
    /\ pc \in [Starters -> Places]
    /\ net \in [Starters \cup Legacy -> Nets]
    /\ rounds \in [Starters -> 0 .. MaxRounds]
    /\ seen \in [Starters -> Maker \cup {Other}]
    /\ ident \in [Starters -> Maker]
    /\ marker \in Maker
    /\ socket \in Maker \cup {Other}
    /\ listening \subseteq Starters \cup {Other}
    /\ port \in [Nets -> Starters \cup Legacy \cup {Other, NoFile}]
    /\ cache \in Maker \cup Legacy
    /\ locked \in BOOLEAN
    /\ latch \in Starters \cup Legacy \cup {NoFile}
    /\ settled \subseteq Starters \cup Legacy
    /\ guarded \in [Starters -> Maker \cup Legacy]
    /\ accepts \in [Starters -> Starters \cup Legacy \cup {NoFile}]
    /\ old \in [Legacy -> OldPlaces]
    /\ declared \subseteq Legacy

(* Places from which a starter goes on to the login without looking for    *)
(* other servers again.                                                    *)
Established == {"probe", "clean", "clear", "bind", "listen", "login", "serve"}

(* At most one process of the host, of any release and in any network      *)
(* namespace, logs in to WRDS or holds a session: not even a released      *)
(* client that had found no latch, and was paused before it spawned its    *)
(* server, gets past a daemon of this release                              *)
(* (_foreign_network_namespace_pids, "closes that delayed-Popen race").    *)
OneDaemon ==
    \A p \in Starters : pc[p] \in Established =>
        /\ \A q \in Starters \ {p} : pc[q] \notin Established
        /\ \A l \in Legacy : old[l] \notin {"login", "serve"}

(* From the moment it is bound to the moment the daemon stops, the Unix    *)
(* socket clients connect to is the one this daemon listens on: neither a  *)
(* starter that cleans up nor one that exits removes it                    *)
(* (_bind_unix_server, "a live socket is never unlinked").                 *)
EndpointKept ==
    \A p \in Starters : pc[p] \in {"listen", "login", "serve"} => socket = p

(* A serving daemon is the one its marker names, so that an operator's     *)
(* unblock and the watchdog can find and stop it (stop_singleton_owner).   *)
DaemonIsMarked ==
    \A p \in Starters : pc[p] = "serve" => marker = p

(* A starter is turned away as the rival of an older server only if a      *)
(* server of an older release is alive (start_services.sh on exit 4: "an   *)
(* older WRDS daemon is still active").                                    *)
RefusalNamesLegacy ==
    [][\A p \in Starters : pc[p] \in {"scan", "rescan"} /\ ScanRefuses(p)
         => \E l \in Legacy : old[l] \notin {"away", "gone"}]_vars

(* A login that a released server began and nobody saw succeed is followed *)
(* by another only when an operator approves it: "the only v5 path that    *)
(* leaves this terminal-looking cache record under mode 0500/0400 is a     *)
(* verified operator retry" (_adopted_legacy_guard).                       *)
AttemptsHonoured ==
    [][\A p \in Starters :
         LatchClear(p) => accepts'[p] \in settled \cup {NoFile}]_vars
=============================================================================
