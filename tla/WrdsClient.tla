------------------------------ MODULE WrdsClient ------------------------------
(***************************************************************************)
(* The client library (wrds_client.py) and the relay that sandboxed        *)
(* clients go through (wrds_query_bridge.py), in front of a daemon of      *)
(* which only what a client can see is kept: WrdsDaemon, WrdsSingleton and *)
(* WrdsWatchdog model how it comes to be in that state.                    *)
(*                                                                         *)
(* A process makes calls: a query, a look for a running service, or the *)
(* operator's unblock.  at[p] is the function it is in and the point       *)
(* there.  Every request has an answer: the status of the response, "gone" *)
(* for a ConnectionError or a missing file, "timeout" for a deadline.      *)
(***************************************************************************)
EXTENDS Naturals, FiniteSets

CONSTANTS Clients,      \* processes that call wrds_query
          Hosts,        \* processes that call wrds_start or wrds_unblock
          MaxCalls,     \* calls under way at the same time
          MaxHeals,     \* MAX_HEAL_RETRIES
          HealPolls,    \* polls within WRDS_HEAL_WAIT_SECONDS
          BusyRetries,  \* retries within WRDS_BUSY_WAIT_SECONDS
          ReadyPolls,   \* polls within the two minutes of _wait_for_ready
          QuerySlots,   \* MAX_CLIENT_THREADS of the bridge
          AuthSlots     \* MAX_AUTH_THREADS of the bridge

ASSUME ClientAssumption ==
    /\ Clients \cap Hosts = {} /\ IsFiniteSet(Clients) /\ IsFiniteSet(Hosts)
    /\ {MaxCalls, MaxHeals, HealPolls, BusyRetries, ReadyPolls} \subseteq Nat
    /\ {QuerySlots, AuthSlots} \subseteq Nat \ {0}

VARIABLES
  server,     \* the daemon behind the Unix socket
  latch,      \* the retry latch on disk
  watch,      \* what a live watchdog has published: monitoring and healing
              \* are "repairing"
  boxed,      \* clients whose sandbox refuses them a Unix socket
  bridge, tokenFile,   \* the relay process and its capability file
  lingering, waiting,  \* relay threads that outlive their client's request,
                       \* with and without a query slot
  at, line, fresh,     \* place; progress of a relayed request; its token is current
  flight, ran,         \* the statement at the daemon; how often it was executed
  heals, rounds,       \* re-sends; polls or retries of the current wait
  proc,                \* the server that an unblock has started
  stood       \* history: the latch stood through the whole poll; of an operator
              \* at the stop, that nobody has approved a login since the answer

env == <<server, latch, watch, boxed>>
relay == <<bridge, tokenFile, lingering, waiting>>
calls == <<at, line, fresh, flight, ran, heals, rounds, proc, stood>>
clientVars == <<env, relay, calls>>

Procs == Clients \cup Hosts

Waits == {"ping hello", "ping", "auth hello", "auth"}

Places ==
    {<<"idle", "-">>} \cup {<<"call", s>> : s \in {"hello", "command", "hello backoff",
                                          "command backoff"}}
    \cup {<<"await", s>> : s \in Waits \cup {"status", "nap"}}
    \cup {<<"ready", s>> : s \in Waits \cup {"nap", "proc"}}
    \cup {<<"start", s>> : s \in Waits \cup {"join"}}
    \cup {<<"unblock", s>> : s \in {"hello", "ping", "stop", "spawn"}}
    \cup {<<"done", s>> : s \in {"answered", "latched", "blocked", "lost", "timeout",
                                 "saturated", "ready", "refused", "down"}}

ClientTypeOK ==
    /\ server \in {"down", "login", "serving", "stalled", "latched", "older"}
    /\ latch \in {"none", "attempt", "blocked"}
    /\ watch \in {"none", "repairing", "operator_required"}
    /\ boxed \subseteq Clients
    /\ bridge \in {"down", "bound", "up"} /\ tokenFile \in {"none", "stale", "current"}
    /\ lingering \in 0..QuerySlots /\ waiting \in Nat
    /\ at \in [Procs -> Places]
    /\ line \in [Procs -> {"none", "token", "dialed", "relayed", "cut"}]
    /\ fresh \in [Procs -> BOOLEAN] /\ stood \in [Procs -> BOOLEAN]
    /\ flight \in [Procs -> {"none", "queued", "broken", "ran", "cut"}]
    /\ ran \in [Procs -> 0..2 * MaxHeals + 2] /\ heals \in [Procs -> 0..MaxHeals]
    /\ rounds \in [Procs -> 0..(HealPolls + BusyRetries + ReadyPolls)]
    /\ proc \in [Procs -> {"none", "running", "stopped", "exited"}]

ClientInit ==
    /\ server = "serving" /\ latch = "none" /\ watch \in {"none", "repairing"}
    /\ boxed \in SUBSET Clients
    /\ bridge = "up" /\ tokenFile = "current" /\ lingering = 0 /\ waiting = 0
    /\ at = [p \in Procs |-> <<"idle", "-">>]
    /\ line = [p \in Procs |-> "none"] /\ flight = [p \in Procs |-> "none"]
    /\ fresh = [p \in Procs |-> FALSE] /\ stood = [p \in Procs |-> FALSE]
    /\ ran = [p \in Procs |-> 0] /\ heals = [p \in Procs |-> 0]
    /\ rounds = [p \in Procs |-> 0] /\ proc = [p \in Procs |-> "none"]

Place(p) == at[p][1]
Step(p) == at[p][2]
Up == server \in {"serving", "stalled", "latched"}

-----------------------------------------------------------------------------
(* What a request meets.  While a server logs in its socket is bound and   *)
(* nobody accepts; over its cap a server answers busy, and beyond the pool *)
(* for that it closes the connection.                                      *)

AtOnce ==
    CASE server = "down" -> {"gone"}
      [] server = "login" -> {"timeout"}
      [] server = "older" -> {"safety"}
      [] OTHER -> {"busy", "gone"}

(* safety_hello_v7 does not touch the database. *)
HelloAnswers == AtOnce \cup (IF Up THEN {"ok"} ELSE {})

(* safe_ping_v7: a client allows five seconds, a health check a minute. *)
PingAnswers ==
    AtOnce \cup
    (CASE server = "serving" -> {"ok", "unhealthy", "timeout"}
       [] server = "stalled" -> {"unhealthy", "timeout"}
       [] server = "latched" -> {"auth"}
       [] OTHER -> {})

ControlAnswers(p) == IF Step(p) \in {"ping", "auth"} THEN PingAnswers ELSE HelloAnswers

-----------------------------------------------------------------------------
(* Where an answer leads *)

GoTo(p, place, step) ==
    at' = [at EXCEPT ![p] = <<place, step>>] /\ UNCHANGED <<heals, rounds>>

Ends(p, outcome) == GoTo(p, "done", outcome)

Counting(p, place, step) ==
    /\ rounds' = [rounds EXCEPT ![p] = @ + 1]
    /\ at' = [at EXCEPT ![p] = <<place, step>>] /\ UNCHANGED heals

(* Once done, the handshake is not repeated for a busy command. *)
Again(p) == IF Step(p) = "hello" THEN "hello backoff" ELSE "command backoff"

(* _checked_request(): an endpoint that is gone may be under repair. *)
Lost(p) ==
    \/ /\ heals[p] < MaxHeals
       /\ at' = [at EXCEPT ![p] = <<"await", "ping hello">>]
       /\ rounds' = [rounds EXCEPT ![p] = 0] /\ UNCHANGED heals
    \/ heals[p] = MaxHeals /\ Ends(p, "lost")

(* Mutant: a connection that breaks is retried like a busy answer. *)
RetriedAsBusy(p, answer) ==
    \/ answer \in {"busy", "gone"} /\ rounds[p] < BusyRetries /\ Counting(p, "call", Again(p))
    \/ answer \in {"busy", "gone"} /\ rounds[p] = BusyRetries /\ Ends(p, "saturated")
    \/ answer = "timeout" /\ Ends(p, "timeout")
    \/ answer = "safety" /\ Ends(p, "blocked")
    \/ answer = "auth" /\ Ends(p, "latched")
    \/ answer = "ok" /\ Step(p) = "hello" /\ GoTo(p, "call", "command")
    \/ answer = "ok" /\ Step(p) = "command" /\ Ends(p, "answered")

(* _checked_request_once(): one budget for busy answers of both legs. *)
InCall(p, answer) ==
    \/ answer = "busy" /\ rounds[p] < BusyRetries /\ Counting(p, "call", Again(p))
    \/ answer = "busy" /\ rounds[p] = BusyRetries /\ Ends(p, "saturated")
    \/ answer = "gone" /\ Lost(p)
    \/ answer = "timeout" /\ Ends(p, "timeout")
    \/ answer = "safety" /\ Ends(p, "blocked")
    \/ answer = "auth" /\ Ends(p, "latched")
    \/ answer = "ok" /\ Step(p) = "hello" /\ GoTo(p, "call", "command")
    \/ answer = "ok" /\ Step(p) = "command" /\ Ends(p, "answered")

(* Mutant: a re-send after a repair is not counted. *)
HealsUncounted(p) ==
    /\ at' = [at EXCEPT ![p] = <<"call", "hello">>]
    /\ rounds' = [rounds EXCEPT ![p] = 0] /\ UNCHANGED heals

(* The endpoint is back: the command is sent again. *)
Resend(p) ==
    /\ at' = [at EXCEPT ![p] = <<"call", "hello">>]
    /\ heals' = [heals EXCEPT ![p] = @ + 1]
    /\ rounds' = [rounds EXCEPT ![p] = 0]

(* wrds_ping() and who asked for it. *)
InPing(p, answer) ==
    \/ Step(p) = "ping hello" /\ answer = "ok" /\ GoTo(p, Place(p), "ping")
    \/ /\ (Step(p) = "ping" /\ answer = "ok") \/ answer = "busy"
       /\ IF Place(p) = "await" THEN Resend(p) ELSE Ends(p, "ready")
    \/ /\ answer \notin {"ok", "busy"}
       /\ GoTo(p, Place(p), IF Place(p) = "await" THEN "status" ELSE "auth hello")

(* Mutant: a server that does not answer is never asked for its latch. *)
OnlyAnswersLatch(answer) == answer \in {"auth", "safety"}

(* wrds_auth_error(): of a server that is down, the latch on disk; the     *)
(* marker of a live attempt is none.                                       *)
Latched(answer) ==
    answer \in {"auth", "safety"} \/ (answer \in {"gone", "timeout"} /\ latch = "blocked")

(* wrds_auth_error() and who asked for it. *)
InAuth(p, answer) ==
    \/ Step(p) = "auth hello" /\ answer = "ok" /\ GoTo(p, Place(p), "auth")
    \/ /\ Latched(answer)
       /\ Ends(p, IF Place(p) = "await" THEN "lost" ELSE "latched")
    \/ /\ ~(Step(p) = "auth hello" /\ answer = "ok") /\ ~Latched(answer)
       /\ \/ Place(p) = "await" /\ rounds[p] < HealPolls /\ Counting(p, "await", "nap")
          \/ Place(p) = "await" /\ rounds[p] = HealPolls /\ Ends(p, "lost")
          \/ Place(p) = "ready" /\ GoTo(p, "ready", "proc")
          \/ Place(p) = "start" /\ GoTo(p, "start", "join")

(* Mutant: whatever the ping says, the operator's command goes on. *)
StopsWhatAnswers(p, answer) ==
    \/ Step(p) = "hello" /\ answer = "ok" /\ GoTo(p, "unblock", "ping")
    \/ Step(p) = "hello" /\ answer = "gone" /\ GoTo(p, "unblock", "spawn")
    \/ Step(p) = "hello" /\ answer \notin {"ok", "gone"} /\ Ends(p, "refused")
    \/ Step(p) = "ping" /\ GoTo(p, "unblock", "stop")

(* wrds_unblock() stops a server only if it says that it has latched. *)
InUnblock(p, answer) ==
    \/ Step(p) = "hello" /\ answer = "ok" /\ GoTo(p, "unblock", "ping")
    \/ Step(p) = "hello" /\ answer = "gone" /\ GoTo(p, "unblock", "spawn")
    \/ Step(p) = "hello" /\ answer \notin {"ok", "gone"} /\ Ends(p, "refused")
    \/ Step(p) = "ping" /\ answer = "auth" /\ GoTo(p, "unblock", "stop")
    \/ Step(p) = "ping" /\ answer # "auth" /\ Ends(p, "refused")

(* A response, or the error that takes its place. *)
Receive(p, answer) ==
    /\ CASE Place(p) = "call" -> InCall(p, answer)
         [] Place(p) = "unblock" -> InUnblock(p, answer)
         [] Place(p) \notin {"call", "unblock"} ->
              IF Step(p) \in {"ping hello", "ping"} THEN InPing(p, answer) ELSE InAuth(p, answer)
    /\ stood' = [stood EXCEPT ![p] =
                   IF at'[p] = <<"await", "ping hello">> THEN latch = "blocked"
                   ELSE at'[p] = <<"unblock", "stop">> \/ (@ /\ answer # "busy")]
    /\ flight' = [flight EXCEPT ![p] = "none"]
    /\ UNCHANGED proc

-----------------------------------------------------------------------------
(* A request over the daemon's own socket *)

Direct(p) == p \notin boxed

Asks(p) == Place(p) \notin {"idle", "done"} /\ Step(p) \in Waits \cup {"hello"}

Commands(p) == at[p] = <<"call", "command">>

Ask(p) ==
    /\ Direct(p) /\ Asks(p)
    /\ \E answer \in ControlAnswers(p) : Receive(p, answer)
    /\ UNCHANGED <<env, relay, line, fresh, ran>>

(* A command reaches a thread of the daemon, or is answered without one. *)
Reaches(p) ==
    /\ Up /\ flight[p] = "none"
    /\ flight' = [flight EXCEPT ![p] = "queued"]
    /\ UNCHANGED <<at, heals, rounds, stood, proc>>

Submit(p) ==
    /\ Direct(p) /\ Commands(p) /\ flight[p] = "none"
    /\ Reaches(p) \/ \E answer \in AtOnce : Receive(p, answer)
    /\ UNCHANGED <<env, relay, line, fresh, ran>>

(* WrdsState.run(): when the connection breaks under a statement, _recover() *)
(* restores it once, by a rollback or a login (Reconnects), and the         *)
(* statement is executed again; it may have gone through the first time.    *)
Execute(p) ==
    /\ server = "serving"
    /\ \/ /\ flight[p] = "queued"
          /\ \E end \in {"ran", "broken"} : flight' = [flight EXCEPT ![p] = end]
       \/ /\ flight[p] = "broken" /\ latch # "attempt"
          /\ flight' = [flight EXCEPT ![p] = "ran"]
    /\ ran' = [ran EXCEPT ![p] = @ + 1]
    /\ UNCHANGED <<env, relay, at, line, fresh, heals, rounds, proc, stood>>

(* The lock queue's budget ends before the database is touched; a latched  *)
(* daemon refuses; a result or a database error is "ok" here.              *)
CommandAnswers(p) ==
    CASE flight[p] = "cut" -> {"gone"}
      [] flight[p] \in {"ran", "broken"} -> {"ok"} \cup (IF server = "latched" THEN {"auth"} ELSE {})
                                 \cup (IF server = "stalled" THEN {"timeout"} ELSE {})
      [] flight[p] = "queued" -> {"busy"} \cup (IF server = "latched" THEN {"auth"} ELSE {})
                                 \cup (IF server = "stalled" THEN {"timeout"} ELSE {})
      [] OTHER -> {}

Answer(p) ==
    /\ Direct(p) /\ Commands(p)
    /\ \E answer \in CommandAnswers(p) : Receive(p, answer)
    /\ UNCHANGED <<env, relay, line, fresh, ran>>

-----------------------------------------------------------------------------
(* A request through the relay *)

Progress(p, place) == line' = [line EXCEPT ![p] = place]

Keeps(p) == UNCHANGED <<at, flight, heals, rounds, stood, proc>>

(* Relay threads that hold a place before, and after, authentication. *)
QueryHeld == Cardinality({p \in Procs : line[p] = "relayed"}) + lingering
AuthHeld == Cardinality({p \in Procs : line[p] = "dialed"}) + QueryHeld + waiting

(* _read_bridge_token() *)
ReadToken(p) ==
    /\ ~Direct(p) /\ (Asks(p) \/ Commands(p)) /\ line[p] = "none"
    /\ IF tokenFile = "none" THEN Receive(p, "gone") /\ UNCHANGED <<line, fresh>>
       ELSE /\ Progress(p, "token") /\ Keeps(p)
            /\ fresh' = [fresh EXCEPT ![p] = (tokenFile = "current")]
    /\ UNCHANGED <<env, relay, ran>>

(* A bridge that has bound its port and not yet published its token lets   *)
(* the connection wait; one that has no thread left closes it.             *)
Dial(p) ==
    /\ line[p] = "token"
    /\ IF bridge = "down" \/ (bridge = "up" /\ AuthHeld >= AuthSlots)
       THEN Progress(p, "none") /\ Receive(p, "gone")
       ELSE Progress(p, "dialed") /\ Keeps(p)
    /\ UNCHANGED <<env, relay, fresh, ran>>

(* _relay_client() up to the query slot.  The refusal of a token closes    *)
(* the connection; the busy answer waits for the client to do it.          *)
Admit(p) ==
    /\ line[p] = "dialed" /\ bridge = "up"
    /\ \/ /\ ~fresh[p] /\ Progress(p, "none") /\ Receive(p, "safety")
          /\ UNCHANGED waiting
       \/ /\ fresh[p] /\ QueryHeld = QuerySlots
          /\ Progress(p, "none") /\ Receive(p, "busy") /\ waiting' = waiting + 1
       \/ /\ fresh[p] /\ QueryHeld < QuerySlots
          /\ Progress(p, "relayed") /\ Keeps(p) /\ UNCHANGED waiting
    /\ UNCHANGED <<env, bridge, tokenFile, lingering, fresh, ran>>

(* The answer is delivered, or the client has given up; the thread keeps   *)
(* its slot until it sees the connection closed.                           *)
Deliver(p, answer) ==
    /\ Progress(p, "none") /\ Receive(p, answer)
    /\ lingering' = lingering + 1

(* The relay outwaits a client's handshake; of a command it reports the    *)
(* daemon's silence as unavailable.                                        *)
Unavailable(answer) == IF answer = "timeout" THEN "gone" ELSE answer

RelayControl(p) ==
    /\ line[p] = "relayed" /\ Asks(p)
    /\ \E answer \in ControlAnswers(p) : Deliver(p, answer)
    /\ UNCHANGED <<env, bridge, tokenFile, waiting, fresh, ran>>

RelayCommand(p) ==
    /\ line[p] = "relayed" /\ Commands(p) /\ flight[p] = "none"
    /\ \/ Reaches(p) /\ UNCHANGED <<line, lingering>>
       \/ \E answer \in AtOnce : Deliver(p, Unavailable(answer))
    /\ UNCHANGED <<env, bridge, tokenFile, waiting, fresh, ran>>

RelayAnswer(p) ==
    /\ line[p] = "relayed" /\ Commands(p)
    /\ \E answer \in CommandAnswers(p) : Deliver(p, Unavailable(answer))
    /\ UNCHANGED <<env, bridge, tokenFile, waiting, fresh, ran>>

(* The client's own deadline, while its connection waits to be accepted. *)
DialTimesOut(p) ==
    /\ line[p] = "dialed" /\ bridge = "bound"
    /\ Progress(p, "none") /\ Receive(p, "timeout")
    /\ UNCHANGED <<env, relay, fresh, ran>>

CutOff(p) ==
    /\ line[p] = "cut"
    /\ Progress(p, "none") /\ Receive(p, "gone")
    /\ UNCHANGED <<env, relay, fresh, ran>>

(* Mutant: a thread that saw its client go keeps the query slot. *)
SlotForgotten == lingering > 0 /\ UNCHANGED clientVars

(* The finally of _relay_client(). *)
SlotReleased ==
    /\ lingering > 0 /\ lingering' = lingering - 1
    /\ UNCHANGED <<env, bridge, tokenFile, waiting, calls>>

ThreadEnds ==
    /\ waiting > 0 /\ waiting' = waiting - 1
    /\ UNCHANGED <<env, bridge, tokenFile, lingering, calls>>

-----------------------------------------------------------------------------
(* Between two requests *)

(* wrds_login_in_progress() *)
InProgress == latch = "attempt" /\ server # "down"

(* wrds_query() and its kind; wrds_start(), wrds_unblock(), or the wait    *)
(* for a peer's login.                                                     *)
Begin(p) ==
    /\ Place(p) = "idle"
    /\ Cardinality({q \in Procs : Place(q) # "idle"}) < MaxCalls
    /\ IF p \in Clients THEN GoTo(p, "call", "hello")
       ELSE \/ GoTo(p, "start", "ping hello") \/ GoTo(p, "unblock", "hello")
            \/ InProgress /\ GoTo(p, "ready", "nap")
    /\ UNCHANGED <<env, relay, line, fresh, flight, ran, proc, stood>>

(* The call has returned, or raised, and its process may make another. *)
Returns(p) ==
    /\ Place(p) = "done"
    /\ at' = [at EXCEPT ![p] = <<"idle", "-">>]
    /\ heals' = [heals EXCEPT ![p] = 0] /\ rounds' = [rounds EXCEPT ![p] = 0]
    /\ ran' = [ran EXCEPT ![p] = 0] /\ proc' = [proc EXCEPT ![p] = "none"]
    /\ fresh' = [fresh EXCEPT ![p] = FALSE] /\ stood' = [stood EXCEPT ![p] = FALSE]
    /\ UNCHANGED <<env, relay, line, flight>>

Wake(p) ==
    /\ \/ Step(p) = "hello backoff" /\ GoTo(p, "call", "hello")
       \/ Step(p) = "command backoff" /\ GoTo(p, "call", "command")
       \/ at[p] = <<"await", "nap">> /\ GoTo(p, "await", "ping hello")
       \/ /\ at[p] = <<"ready", "nap">>
          /\ IF rounds[p] < ReadyPolls THEN Counting(p, "ready", "ping hello")
             ELSE Ends(p, "timeout")
    /\ stood' = [stood EXCEPT ![p] = (Step(p) = "nap" /\ latch = "blocked")]
    /\ UNCHANGED <<env, relay, line, fresh, flight, ran, proc>>

(* wrds_await_service() goes on only under a live watchdog's repair. *)
ReadStatus(p) ==
    /\ Step(p) = "status"
    /\ IF watch = "repairing" THEN GoTo(p, "await", "auth hello") ELSE Ends(p, "lost")
    /\ UNCHANGED <<env, relay, line, fresh, flight, ran, proc, stood>>

(* wrds_start() never starts a server. *)
Join(p) ==
    /\ Step(p) = "join"
    /\ IF InProgress THEN GoTo(p, "ready", "nap") ELSE Ends(p, "down")
    /\ UNCHANGED <<env, relay, line, fresh, flight, ran, proc, stood>>

(* _wait_for_ready() looks at the server it was given. *)
LookAtProc(p) ==
    /\ Step(p) = "proc"
    /\ \/ proc[p] \in {"none", "running"} /\ GoTo(p, "ready", "nap") /\ UNCHANGED proc
       \/ /\ proc[p] = "stopped" \/ (proc[p] = "exited" /\ InProgress)
          /\ proc' = [proc EXCEPT ![p] = "none"] /\ GoTo(p, "ready", "nap")
       \/ /\ proc[p] = "exited" /\ ~InProgress
          /\ Ends(p, "refused") /\ UNCHANGED proc
    /\ UNCHANGED <<env, relay, line, fresh, flight, ran, stood>>

(* What the end of the daemon's process leaves behind. *)
Ended(code) ==
    /\ server' = "down"
    /\ latch' = IF latch = "attempt" THEN "blocked" ELSE latch
    /\ flight' = [p \in Procs |-> IF flight[p] = "none" THEN "none" ELSE "cut"]
    /\ proc' = [p \in Procs |-> IF proc[p] = "running" THEN code ELSE proc[p]]

(* stop_singleton_owner() *)
StopOwner(p) ==
    /\ Step(p) = "stop"
    /\ \/ /\ server \in {"down", "older"} /\ GoTo(p, "unblock", "spawn")
          /\ UNCHANGED <<server, latch, flight, proc>>
       \/ /\ server \notin {"down", "older"} /\ GoTo(p, "unblock", "spawn")
          /\ \E code \in {"stopped", "exited"} : Ended(code)
       \/ /\ server \notin {"down", "older"} /\ Ends(p, "refused")
          /\ UNCHANGED <<server, latch, flight, proc>>
    /\ UNCHANGED <<watch, boxed, relay, line, fresh, ran, stood>>

(* The approved server; it exits if another one holds the marker. *)
Spawn(p) ==
    /\ Step(p) = "spawn"
    /\ \/ latch = "none" /\ Ends(p, "refused") /\ UNCHANGED <<server, latch, proc, stood>>
       \/ /\ latch # "none" /\ server = "down" /\ GoTo(p, "ready", "nap")
          /\ server' = "login" /\ latch' = "attempt"
          /\ proc' = [proc EXCEPT ![p] = "running"]
          /\ stood' = [q \in Procs |-> FALSE]
       \/ /\ latch # "none" /\ server # "down" /\ GoTo(p, "ready", "nap")
          /\ proc' = [proc EXCEPT ![p] = "exited"]
          /\ UNCHANGED <<server, latch, stood>>
    /\ UNCHANGED <<watch, boxed, relay, line, fresh, flight, ran>>

-----------------------------------------------------------------------------
(* The daemon, the watchdog and whoever starts the bridge *)

Others == UNCHANGED <<watch, boxed, relay, calls>>

Starts == server = "down" /\ latch = "none" /\ server' = "login" /\ latch' = "attempt" /\ Others

(* The approved server of an operator that is not among Hosts. *)
Approved ==
    /\ server = "down" /\ latch # "none"
    /\ server' = "login" /\ latch' = "attempt"
    /\ stood' = [p \in Procs |-> FALSE]
    /\ UNCHANGED <<watch, boxed, relay, at, line, fresh, flight, ran, heals, rounds, proc>>

LoginEnds ==
    /\ server = "login"
    /\ \/ server' = "serving" /\ latch' = "none"
       \/ server' = "latched" /\ latch' = "blocked"
    /\ Others

Reconnects == server = "serving" /\ latch = "none" /\ latch' = "attempt" /\ UNCHANGED server /\ Others

ReconnectEnds ==
    /\ server = "serving" /\ latch = "attempt"
    /\ \/ latch' = "none" /\ UNCHANGED server
       \/ latch' = "blocked" /\ server' = "latched"
    /\ Others

Stalls == server = "serving" /\ server' = "stalled" /\ UNCHANGED latch /\ Others

OlderStarts == server = "down" /\ server' = "older" /\ UNCHANGED latch /\ Others

(* Killed, by the watchdog or by anybody. *)
Dies ==
    /\ server # "down"
    /\ \E code \in {"stopped", "exited"} :
         IF server = "older" THEN server' = "down" /\ UNCHANGED <<latch, flight, proc>>
         ELSE Ended(code)
    /\ UNCHANGED <<watch, boxed, relay, at, line, fresh, ran, heals, rounds, stood>>

Publishes ==
    /\ watch' \in {"none", "repairing", "operator_required"} \ {watch}
    /\ UNCHANGED <<server, latch, boxed, relay, calls>>

BridgeBinds ==
    /\ bridge = "down" /\ bridge' = "bound"
    /\ tokenFile' = IF tokenFile = "current" THEN "stale" ELSE tokenFile
    /\ fresh' = [p \in Procs |-> FALSE]
    /\ UNCHANGED <<env, lingering, waiting, at, line, flight, ran, heals, rounds, proc, stood>>

BridgePublishes ==
    /\ bridge = "bound" /\ bridge' = "up" /\ tokenFile' = "current"
    /\ UNCHANGED <<env, lingering, waiting, calls>>

(* How often the daemon may still execute the statement. *)
Unexecuted(p) ==
    CASE flight[p] = "queued" -> 2 [] flight[p] = "broken" -> 1 [] OTHER -> 0

(* The relay goes, stopped or killed, and its threads with it; a command   *)
(* it has passed on may be executed all the same.                          *)
BridgeEnds ==
    /\ bridge # "down" /\ bridge' = "down"
    /\ \/ bridge = "up" /\ tokenFile' = "none"
       \/ UNCHANGED tokenFile
    /\ lingering' = 0 /\ waiting' = 0
    /\ line' = [p \in Procs |-> IF line[p] \in {"dialed", "relayed"} THEN "cut" ELSE line[p]]
    /\ \E late \in [Procs -> 0..2] :
         /\ \A p \in Procs : late[p] <= IF line[p] = "relayed" THEN Unexecuted(p) ELSE 0
         /\ ran' = [p \in Procs |-> ran[p] + late[p]]
    /\ flight' = [p \in Procs |-> IF line[p] = "relayed" THEN "none" ELSE flight[p]]
    /\ UNCHANGED <<env, at, fresh, heals, rounds, proc, stood>>

-----------------------------------------------------------------------------
Acts(p) ==
    \/ Ask(p) \/ Submit(p) \/ Answer(p) \/ ReadToken(p) \/ Dial(p) \/ Admit(p)
    \/ RelayControl(p) \/ RelayCommand(p) \/ RelayAnswer(p) \/ DialTimesOut(p) \/ CutOff(p)
    \/ Wake(p) \/ ReadStatus(p) \/ Join(p) \/ LookAtProc(p) \/ StopOwner(p) \/ Spawn(p)

Environment ==
    \/ Starts \/ Approved \/ LoginEnds \/ Reconnects \/ ReconnectEnds \/ Stalls \/ OlderStarts \/ Dies
    \/ Publishes \/ BridgeBinds \/ BridgePublishes \/ BridgeEnds

ClientNext ==
    \/ \E p \in Procs : Begin(p) \/ Returns(p) \/ Acts(p) \/ Execute(p)
    \/ SlotReleased \/ ThreadEnds
    \/ Environment

ClientSpec == ClientInit /\ [][ClientNext]_clientVars

(* Every request, wait and relay thread of the code has a deadline.  What  *)
(* the daemon, the watchdog and the bridge's owner do is never fair.       *)
ClientFairSpec ==
    /\ ClientSpec
    /\ \A p \in Procs : WF_clientVars(Acts(p))
    /\ WF_clientVars(SlotReleased) /\ WF_clientVars(ThreadEnds)
    /\ WF_clientVars(BridgePublishes)

-----------------------------------------------------------------------------
(* A statement is executed for the call and again for every re-send after  *)
(* a lost endpoint, each time at most twice, because the daemon recovers   *)
(* its session once under it.  Nothing else repeats it: not a busy answer, *)
(* not a relay that died with it, not a restart of the daemon.             *)
ReplayBounded == \A p \in Clients : ran[p] <= 2 * (1 + heals[p])

(* A client does not sleep again on a latch that stood through its whole   *)
(* poll, unless a server at its cap told it that it was only busy: the     *)
(* latch is found on disk too, when the daemon that wrote it is dead.      *)
LatchEndsWait ==
    [][\A p \in Clients : at'[p] = <<"await", "nap">> /\ at[p] # at'[p] => ~stood'[p]]_clientVars

(* The operator's command stops a server that has latched, and no other    *)
(* (no serving one, none in the middle of a login), whatever dies or comes *)
(* between the answer and the stop.  Only another operator may be in the   *)
(* way: a login that one approves in between is stopped.                   *)
UnblockStopsLatched ==
    [][\A p \in Hosts : Step(p) = "stop" /\ Step(p)' = "spawn" /\ server' = "down" /\ stood[p]
                         => server \in {"latched", "down"}]_clientVars

(* Every call ends, whatever the daemon, the bridge and the watchdog do.   *)
CallsEnd == \A p \in Procs : (Place(p) # "idle") ~> (Place(p) = "done")

(* A relay with all its query slots taken gets one back, also when the     *)
(* clients have given up.                                                  *)
SlotsReturned == (QueryHeld = QuerySlots) ~> (QueryHeld < QuerySlots)

(* While the watchdog reports a repair, a client waits instead of failing. *)
WaitsThroughRepair ==
    [][\A p \in Clients :
         at'[p] = <<"done", "timeout">> /\ at[p] # at'[p] => watch # "repairing"]_clientVars
=============================================================================
