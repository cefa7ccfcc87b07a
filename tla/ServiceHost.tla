---------------------------- MODULE ServiceHost ----------------------------
(***************************************************************************)
(* The process that hosts the service, and the command-line clients that   *)
(* stop and restart it.                                                    *)
(*                                                                         *)
(* A host takes the exclusive lock of its checkout (the authority), binds  *)
(* the project socket, serves, and on a lifecycle request drains, closes   *)
(* the socket and gives the authority up -- or, when it is hosted          *)
(* internally, replaces its own image and hands the locked descriptor to   *)
(* it.  The owner thread, the socket's handler threads, SIGTERM and the    *)
(* clients interleave; one receipt file, replaced atomically by whoever    *)
(* writes it, is all that a client learns of the end of its request.       *)
(*                                                                         *)
(* Every image of the service is an instance with an identity of its own.  *)
(* What the engine does while it serves is left to the other modules.      *)
(***************************************************************************)
EXTENDS Naturals, FiniteSets

CONSTANTS
  Instances,      \* identities of service images, in the order they start
  Clients,        \* commands given on the command line, also their request ids
  Signal,         \* the request id SIGTERM makes for itself
  None,
  Hostings,       \* who may own the process: "direct", "internal", "external"
  MaxLoad         \* commands, crashes, failed writes, slow threads, signals

ASSUME HostAssumption ==
  Instances \subseteq Nat /\ None \notin Instances /\ MaxLoad \in Nat

VARIABLES
  hosting,   \* who owns the process; "external" is a systemd unit
  host,      \* the images: where each one is in ServiceHost.run
  lock,      \* the instance whose descriptor holds the exclusive flock
  path,      \* the instance whose socket inode is at the socket path
  receipt,   \* the lifecycle receipt file
  client,    \* the clients
  call,      \* a client's two possible deliveries of its request
  load       \* the weight of the commands and faults so far

vars == <<hosting, host, lock, path, receipt, client, call, load>>

(* A unit is established for the project, by the store or by its file.     *)
Managed == hosting = "external"
Deliveries == Clients \X {1, 2}

(* Where an image stands in ServiceHost.run.                               *)
SignalOwned == {"holding", "bound", "serving", "stopping", "completed"}
Accepting == {"bound", "serving", "stopping", "completed", "closing"}
Alive(i) == host[i].pc \notin {"unborn", "ended"}
Over(i) == host[i].pc = "ended"
Listening(i) == host[i].pc \in Accepting
InUse == path # None /\ Listening(path)

Unborn == [pc |-> "unborn", intent |-> "none", req |-> None,
           persisted |-> FALSE, restarting |-> FALSE, parent |-> None,
           handoff |-> None, completed |-> FALSE, joined |-> FALSE]

NoReceipt == [req |-> None, inst |-> None, action |-> "none", state |-> "none",
              repl |-> None]

Receipt(req, i, action, state, repl) ==
  [req |-> req, inst |-> i, action |-> action, state |-> state, repl |-> repl]

NoCall == [pc |-> "none", at |-> None, cut |-> FALSE, kind |-> "stop",
           force |-> FALSE, req |-> None]

Commanding == [pc |-> "idle", kind |-> "stop", force |-> FALSE, attempt |-> 0,
               req |-> None, inst |-> None, armed |-> FALSE, saw |-> "none",
               repl |-> None, seen |-> None, told |-> "nothing"]

Init ==
  /\ hosting \in Hostings
  /\ host = [i \in Instances |-> Unborn]
  /\ lock = None /\ path = None
  /\ receipt = NoReceipt
  /\ client = [c \in Clients |-> Commanding]
  /\ call = [d \in Deliveries |-> NoCall]
  /\ load = 0

(* The bound on a behaviour: a command weighs two, a fault one.            *)
Weighs(n) == load + n <= MaxLoad /\ load' = load + n
Fault == Weighs(1)

At(i, pc) == host' = [host EXCEPT ![i].pc = pc]
Freed(i) == IF lock = i THEN None ELSE lock

(* A process that is gone keeps only what the properties ask of it.        *)
Gone(h) == [Unborn EXCEPT !.pc = "ended", !.parent = h.parent,
                          !.completed = h.completed, !.joined = h.joined]

Running == {"admitted", "recorded"}
Awaited(d) == client[d[1]].pc = "awaiting" /\ client[d[1]].attempt = d[2]

(* What becomes of a delivery when its handler is through with it.         *)
Settle(d, pc, req) ==
  IF ~Awaited(d) THEN NoCall
  ELSE [NoCall EXCEPT !.pc = IF call[d].cut THEN "dropped" ELSE pc,
                      !.at = call[d].at, !.req = req]

(* The process and with it every handler thread is gone.                   *)
Threadless(i) ==
  call' = [d \in Deliveries |->
             IF call[d].at = i /\ call[d].pc \in Running
             THEN Settle(d, "dropped", None) ELSE call[d]]

Ended(i) == host' = [host EXCEPT ![i] = Gone(@)] /\ Threadless(i)

-----------------------------------------------------------------------------
(* Starting.                                                               *)

NextBorn(i) == host[i].pc = "unborn"
               /\ \A j \in Instances : j < i => host[j].pc # "unborn"

NoService == lock = None

(* Nothing is started when a service has the authority.                    *)
Spawn(i) ==
  /\ NextBorn(i)
  /\ NoService /\ \E c \in Clients : client[c].pc # "done"
  /\ \A j \in Instances : host[j].pc # "spawned"
  /\ At(i, "spawned")
  /\ UNCHANGED <<hosting, lock, path, receipt, client, call, load>>

(* `start` without systemd, `run` and `once`: refused for a managed one.   *)
RunAttached(i) == ~Managed /\ Spawn(i)

(* `start` of a unit, which has one process at a time.                     *)
_start_systemd(i) == Managed /\ (\A j \in Instances : ~Alive(j)) /\ Spawn(i)

_run_default_command(i) == RunAttached(i) \/ _start_systemd(i)

(* The authority is taken without waiting.  It is refused when another     *)
(* image holds it, and also when a client's poll or a direct read holds    *)
(* the same lock shared at that instant, which can always be.              *)
_lock(i) ==
  /\ host[i].pc = "spawned"
  /\ \/ lock = None /\ lock' = i /\ At(i, "holding") /\ UNCHANGED call
     \/ Ended(i) /\ UNCHANGED lock
  /\ UNCHANGED <<hosting, path, receipt, client, load>>

HandoffFailed(i) ==
  IF host[i].parent = None THEN receipt
  ELSE Receipt(host[i].handoff, host[i].parent, "restart", "failed", None)

(* A replacement image adopts the descriptor it inherited, or ends before  *)
(* its host exists (nothing is written) or in the adoption itself.         *)
_acquire_authority(i) ==
  /\ host[i].pc = "inherited"
  /\ \/ At(i, "holding") /\ UNCHANGED <<lock, receipt, call, load>>
     \/ /\ Fault
        /\ Ended(i) /\ lock' = None
        /\ receipt' \in {receipt, HandoffFailed(i)}
  /\ UNCHANGED <<hosting, path, client>>

(* UnixIPCServer.start: an endpoint somebody answers on is refused, a      *)
(* stale one is unlinked.                                                  *)
BindEndpoint(i) ==
  /\ host[i].pc = "holding"
  /\ ~InUse
  /\ path' = i /\ At(i, "bound")
  /\ UNCHANGED <<hosting, lock, receipt, client, call, load>>

(* The startup is over: a replacement completes the restart that began it, *)
(* and the service is ready.                                               *)
BecomeReady(i) ==
  /\ host[i].pc = "bound"
  /\ At(i, "serving")
  /\ receipt' = IF host[i].parent = None THEN receipt
                ELSE Receipt(host[i].handoff, host[i].parent, "restart", "completed", i)
  /\ UNCHANGED <<hosting, lock, path, client, call, load>>

(* A step of the startup raises.                                           *)
StartupFails(i) ==
  /\ host[i].pc \in {"holding", "bound"}
  /\ \/ host[i].pc = "holding" /\ InUse /\ UNCHANGED load
     \/ Fault
  /\ At(i, "closing")
  /\ receipt' = HandoffFailed(i)
  /\ UNCHANGED <<hosting, lock, path, client, call>>

-----------------------------------------------------------------------------
(* Serving and ending: the owner thread.                                   *)

(* The engine returns once its drain is done, on SIGINT, after `once`; or  *)
(* it raises, and the lifecycle intent is not looked at.                   *)
ServeReturns(i) ==
  /\ host[i].pc = "serving"
  /\ \/ /\ IF host[i].intent = "none" THEN Fault ELSE UNCHANGED load
        /\ host' = [host EXCEPT
                      ![i].restarting = host[i].intent = "restart",
                      ![i].pc = IF host[i].intent = "stop" THEN "stopping" ELSE "closing"]
     \/ Fault /\ At(i, "closing")
  /\ UNCHANGED <<hosting, lock, path, receipt, client, call>>

(* The completion waits for the acceptance to be on disk; the wait times   *)
(* out when its write failed or takes too long.                            *)
Writing(i) == \E d \in Deliveries : call[d].at = i /\ call[d].pc = "recorded"

(* Mutant: the completion does not wait for the acceptance.                *)
CompleteStopAtOnce(i) ==
  /\ host[i].pc = "stopping"
  /\ host' = [host EXCEPT ![i].pc = "completed", ![i].completed = TRUE]
  /\ receipt' = Receipt(host[i].req, i, "stop", "completed", None)
  /\ UNCHANGED <<hosting, lock, path, client, call, load>>

CompleteStop(i) ==
  /\ host[i].pc = "stopping"
  /\ \/ /\ host[i].persisted
        /\ host' = [host EXCEPT ![i].pc = "completed", ![i].completed = TRUE]
        /\ receipt' = Receipt(host[i].req, i, "stop", "completed", None)
        /\ UNCHANGED load
     \/ /\ IF host[i].persisted \/ Writing(i) THEN Fault ELSE UNCHANGED load
        /\ At(i, "closing") /\ UNCHANGED receipt
  /\ UNCHANGED <<hosting, lock, path, client, call>>

(* UnixIPCServer.stop: no request is admitted any more, idle connections   *)
(* are closed; then the admitted ones get a bounded wait, all are closed   *)
(* and the socket this server bound is removed.                            *)
Ending(i) == host[i].pc \in {"completed", "closing"}

StopServer(i) ==
  /\ Ending(i)
  /\ At(i, "draining")
  /\ UNCHANGED <<hosting, lock, path, receipt, client, call, load>>

Pending(i) == {d \in Deliveries : call[d].at = i /\ call[d].pc \in Running}

(* Only the inode this server bound is removed.                            *)
Unlinked(i) == IF path = i THEN None ELSE path

CloseServer(i) ==
  /\ host[i].pc = "draining"
  /\ IF Pending(i) = {} THEN UNCHANGED load ELSE Fault
  /\ At(i, "unbound")
  /\ path' = Unlinked(i)
  /\ call' = [d \in Deliveries |->
                IF d \in Pending(i) THEN [call[d] EXCEPT !.cut = TRUE] ELSE call[d]]
  /\ UNCHANGED <<hosting, lock, receipt, client>>

(* The end of `finally`.  Only an internally hosted image that was asked   *)
(* to restart hands over; every other one closes the authority.            *)
Release(i) ==
  /\ host[i].pc = "unbound"
  /\ IF host[i].restarting /\ hosting = "internal"
     THEN \/ /\ At(i, "handoff") /\ UNCHANGED <<lock, call, load>>
             /\ receipt' = Receipt(host[i].req, i, "restart", "handoff", None)
          \/ /\ Fault /\ Ended(i) /\ lock' = None
             /\ receipt' = Receipt(host[i].req, i, "restart", "failed", None)
     ELSE Ended(i) /\ lock' = None /\ UNCHANGED <<receipt, load>>
  /\ UNCHANGED <<hosting, path, client>>

(* Mutant: the descriptor of the lock is not inherited.                    *)
_reexecClosed(i) ==
  /\ host[i].pc = "handoff"
  /\ \E j \in Instances :
       /\ NextBorn(j)
       /\ host' = [host EXCEPT ![i] = Gone(@),
                     ![j] = [Unborn EXCEPT !.pc = "inherited", !.parent = i,
                                           !.handoff = host[i].req]]
  /\ lock' = None
  /\ Threadless(i)
  /\ UNCHANGED <<hosting, path, receipt, client, load>>

(* exec keeps the process, its descriptor and so the lock; every thread    *)
(* and every connection of the old image is gone.                          *)
_reexec(i) ==
  /\ host[i].pc = "handoff"
  /\ \/ /\ \E j \in Instances :
             /\ NextBorn(j)
             /\ host' = [host EXCEPT
                           ![i] = Gone(@),
                           ![j] = [Unborn EXCEPT !.pc = "inherited", !.parent = i,
                                                 !.handoff = host[i].req]]
             /\ lock' = j
        /\ Threadless(i)
        /\ UNCHANGED <<receipt, load>>
     \/ /\ \/ Fault
           \/ (\A j \in Instances : ~NextBorn(j)) /\ UNCHANGED load
        /\ receipt' = Receipt(host[i].req, i, "restart", "failed", None)
        /\ Ended(i) /\ lock' = None
  /\ UNCHANGED <<hosting, path, client>>

(* The process dies: the kernel closes its descriptors, the socket's name  *)
(* stays.                                                                  *)
Dies(i) ==
  /\ Alive(i)
  /\ Ended(i) /\ lock' = Freed(i)
  /\ UNCHANGED receipt

Crash(i) == Fault /\ Dies(i) /\ UNCHANGED <<hosting, path, client>>

-----------------------------------------------------------------------------
(* A lifecycle request, from a handler thread or from SIGTERM.             *)

(* Engine.request_lifecycle: the first intent is the one that counts; a    *)
(* second request of the same kind joins it.                               *)
request_lifecycle(h, kind, req) ==
  IF h.intent = "none" THEN [h EXCEPT !.intent = kind, !.req = req]
  ELSE [h EXCEPT !.joined = TRUE]

Refuses(h, kind, force) ==
  \/ kind = "restart" /\ ~force /\ hosting # "internal"
  \/ h.intent \notin {"none", kind}

Accepted(i, h) == Receipt(h.req, i, h.intent, "accepted", None)

Persist(i, h) ==
  /\ receipt' = Accepted(i, h)
  /\ host' = [host EXCEPT ![i] = [h EXCEPT !.persisted = TRUE]]

(* The handler runs on the owner's thread while the owner is inside        *)
(* _signal_ownership; outside it the signal has its default effect.        *)
SIGTERM(i) ==
  /\ Alive(i)
  /\ IF host[i].pc \in SignalOwned
     THEN LET h == request_lifecycle(host[i], "stop", Signal) IN
          /\ IF Refuses(host[i], "stop", FALSE) THEN UNCHANGED <<host, receipt>>
             ELSE Persist(i, h)
          /\ UNCHANGED <<lock, call>>
     ELSE Dies(i)

OperatorSIGTERM(i) ==
  /\ Fault
  /\ SIGTERM(i)
  /\ UNCHANGED <<hosting, path, client>>

(* A handler thread: admitted with its first frame, it records the intent, *)
(* writes the acceptance and answers.                                      *)
(* An error is answered, but not once the server is stopping.              *)
Error(d) == Settle(d, IF Listening(call[d].at) THEN "refused" ELSE "dropped", None)

RecordIntent(d) ==
  LET k == call[d] IN
  /\ k.pc = "admitted"
  /\ IF Refuses(host[k.at], k.kind, k.force)
     THEN call' = [call EXCEPT ![d] = Error(d)] /\ UNCHANGED host
     ELSE /\ call' = [call EXCEPT ![d].pc = "recorded"]
          /\ host' = [host EXCEPT ![k.at] = request_lifecycle(@, k.kind, d[1])]
  /\ UNCHANGED <<hosting, lock, path, receipt, client, load>>

WriteAccepted(d) ==
  LET i == call[d].at IN
  /\ call[d].pc = "recorded"
  /\ \/ /\ Persist(i, host[i])
        /\ call' = [call EXCEPT ![d] = Settle(d, "answered", host[i].req)]
        /\ UNCHANGED load
     \/ /\ Fault
        /\ call' = [call EXCEPT ![d] = Error(d)]
        /\ UNCHANGED <<host, receipt>>
  /\ UNCHANGED <<hosting, lock, path, client>>

-----------------------------------------------------------------------------
(* The clients.                                                            *)

Go(c, pc) == client' = [client EXCEPT ![c].pc = pc]
Told(c, what) ==
  client' = [client EXCEPT ![c] = [Commanding EXCEPT !.pc = "done", !.told = what,
               !.inst = IF what \in {"stopped", "lost"} THEN client[c].inst ELSE None]]
ToldRestarted(c) ==
  client' = [client EXCEPT ![c] = [Commanding EXCEPT !.pc = "done", !.told = "restarted",
                                     !.inst = client[c].inst, !.seen = path]]
Restored == UNCHANGED <<hosting, host, lock, path, receipt, call, load>>

(* The unit of the project is there and active.                            *)
ManagedOwner == Managed /\ \E i \in Instances : Alive(i)

(* The command is given while a service runs (otherwise it says so and     *)
(* changes nothing); it goes to the socket or, for an unforced restart of  *)
(* a unit, to the service manager.  A forced stop differs from one that    *)
(* finds no worker active only in what the engine does.                    *)
_lifecycle_service(c, kind, force) ==
  /\ client[c].pc = "idle" /\ lock # None
  /\ client' = [client EXCEPT ![c].kind = kind, ![c].force = force, ![c].attempt = 1,
       ![c].pc = IF ManagedOwner /\ kind = "restart" /\ ~force THEN "sysstop" ELSE "asking"]
  /\ Weighs(2)
  /\ UNCHANGED <<hosting, host, lock, path, receipt, call>>

(* One delivery.  A connection made just before the server stops is closed *)
(* before it is admitted.  Whoever cannot connect gives up: at first the   *)
(* service is unavailable, later the outcome is uncertain.                 *)
_request_once(c) ==
  /\ client[c].pc = "asking"
  /\ IF InUse
     THEN /\ Go(c, "awaiting")
          /\ \E pc \in {"admitted"} \cup (IF Ending(path) THEN {"dropped"} ELSE {}) :
               call' = [call EXCEPT ![<<c, client[c].attempt>>] =
                          [NoCall EXCEPT !.pc = pc, !.at = path,
                             !.kind = client[c].kind, !.force = client[c].force]]
     ELSE Told(c, "error") /\ UNCHANGED call
  /\ UNCHANGED <<hosting, host, lock, path, receipt, load>>

Delivery(c) == call[<<c, client[c].attempt>>]
Taken(c) == call' = [call EXCEPT ![<<c, client[c].attempt>>] =
                       IF @.pc \in Running THEN @ ELSE NoCall]

(* The connection ends without an answer, or the client's timeout passes:  *)
(* the same request id is delivered once more.                             *)
Replay(c) ==
  /\ client[c].pc = "awaiting"
  /\ IF Delivery(c).cut \/ Delivery(c).pc = "dropped" THEN UNCHANGED load ELSE Fault
  /\ IF client[c].attempt = 1
     THEN client' = [client EXCEPT ![c].pc = "asking", ![c].attempt = 2]
     ELSE Told(c, "error")
  /\ Taken(c)
  /\ UNCHANGED <<hosting, host, lock, path, receipt>>

(* The answer: an error, or an acceptance carrying the instance, the       *)
(* request that counts and whether a worker is active.                     *)
Receive(c) ==
  LET k == Delivery(c) IN
  /\ client[c].pc = "awaiting"
  /\ \/ k.pc = "refused" /\ Told(c, "error")
     \/ /\ k.pc = "answered"
        /\ client' = [client EXCEPT ![c].inst = k.at, ![c].req = k.req,
              ![c].pc = IF Managed THEN "sysstop"
                        ELSE IF client[c].kind = "restart" THEN "restartread"
                        ELSE "stopwait"]
     \/ /\ k.pc = "answered" /\ ~Managed     \* a worker is active
        /\ client[c].kind = "stop"
        /\ Told(c, "requested")
  /\ Taken(c)
  /\ UNCHANGED <<hosting, host, lock, path, receipt, load>>

(* _wait_for_service_stop: until no authority is there, then for the       *)
(* receipt of this very stop, for ten seconds.                             *)
Matches(c, state) ==
  /\ receipt.req = client[c].req /\ receipt.inst = client[c].inst
  /\ receipt.action = client[c].kind /\ receipt.state = state

StopPoll(c) ==
  /\ client[c].pc = "stopwait" /\ lock = None
  /\ Go(c, "stopcheck")
  /\ Restored

(* Mutant: the wait for the receipt has no deadline.                       *)
StopCheckForever(c) ==
  /\ client[c].pc = "stopcheck" /\ Matches(c, "completed")
  /\ Told(c, "stopped")
  /\ Restored

StopCheck(c) ==
  /\ client[c].pc = "stopcheck"
  /\ Told(c, IF Matches(c, "completed") THEN "stopped" ELSE "lost")
  /\ Restored

(* _wait_for_service_restart: each round reads the receipt, then looks for *)
(* the authority and pings.  The deadline is set at the first sight of a   *)
(* hand-off.                                                               *)
RestartFailed(c) == receipt.req = client[c].req /\ receipt.state = "failed"

RestartRead(c) ==
  /\ client[c].pc = "restartread"
  /\ IF RestartFailed(c) THEN Told(c, "error")
     ELSE LET saw == IF Matches(c, "completed") THEN "completed"
                     ELSE IF Matches(c, "handoff") THEN "handoff" ELSE "none"
          IN client' = [client EXCEPT ![c].pc = "restartping", ![c].saw = saw,
                          ![c].repl = IF saw = "completed" THEN receipt.repl ELSE None,
                          ![c].armed = (@ \/ saw # "none")]
  /\ Restored

Ready(i) == host[i].pc \in {"serving", "stopping", "completed", "closing"}

(* Mutant: any other ready instance is taken for the replacement.          *)
ReplacedByAny(c) ==
  path # None /\ Ready(path) /\ path # client[c].inst

Replaced(c) ==
  /\ path # None /\ Ready(path) /\ path # client[c].inst
  /\ client[c].saw = "completed" /\ client[c].repl = path

RestartPing(c) ==
  /\ client[c].pc = "restartping"
  /\ \/ lock = None /\ Told(c, "error")
     \/ lock # None /\ Replaced(c) /\ ToldRestarted(c)
     \/ lock # None /\ ~Replaced(c) /\ Go(c, "restartread")
  /\ Restored

RestartDeadline(c) ==
  /\ client[c].pc = "restartping" /\ lock # None /\ ~Replaced(c) /\ client[c].armed
  /\ Told(c, "error")
  /\ Restored

(* The service manager: `systemctl stop` signals the unit's process, whose *)
(* exit a restart awaits before the unit is started again.                 *)
SystemdStop(c) ==
  /\ client[c].pc = "sysstop"
  /\ \E i \in Instances \cup {None} :
       /\ IF \E j \in Instances : Alive(j) THEN i # None /\ Alive(i) ELSE i = None
       /\ client' = [client EXCEPT
            ![c].pc = IF client[c].kind = "stop" THEN "sysgone" ELSE "sysdown",
            ![c].inst = IF @ = None THEN lock ELSE @,
            ![c].repl = i]
       /\ IF i = None THEN UNCHANGED <<host, lock, receipt, call>> ELSE SIGTERM(i)
  /\ UNCHANGED <<hosting, path, load>>

_wait_for_runtime_stop(c) ==
  /\ client[c].pc = "sysgone"
  /\ \/ IF lock = None THEN Told(c, "stopped") ELSE Told(c, "error") \* after 10 s
     \/ Told(c, "requested")                 \* a worker is active: no wait
  /\ Restored

SystemdStart(c) ==
  /\ client[c].pc = "sysdown"
  /\ IF client[c].repl = None THEN TRUE ELSE ~Alive(client[c].repl)
  /\ Go(c, "sysup")
  /\ IF \E i \in Instances : Alive(i) THEN UNCHANGED host   \* another job started it
     ELSE IF \E i \in Instances : NextBorn(i)
     THEN \E i \in Instances : NextBorn(i) /\ At(i, "spawned")
     ELSE UNCHANGED host
  /\ UNCHANGED <<hosting, lock, path, receipt, call, load>>

wait_ready(c) ==
  /\ client[c].pc = "sysup"
  /\ \/ /\ lock # None /\ path # None /\ Ready(path)
        /\ ToldRestarted(c)
     \/ Told(c, "error")
  /\ Restored

-----------------------------------------------------------------------------
OwnerStep(i) ==
  \/ _lock(i) \/ _acquire_authority(i) \/ BindEndpoint(i) \/ BecomeReady(i)
  \/ StartupFails(i) \/ ServeReturns(i) \/ CompleteStop(i) \/ StopServer(i) \/ CloseServer(i)
  \/ Release(i) \/ _reexec(i)

HandlerStep(d) == RecordIntent(d) \/ WriteAccepted(d)

ClientStep(c) ==
  \/ _request_once(c) \/ Replay(c) \/ Receive(c)
  \/ StopPoll(c) \/ StopCheck(c)
  \/ RestartRead(c) \/ RestartPing(c) \/ RestartDeadline(c)
  \/ SystemdStop(c) \/ _wait_for_runtime_stop(c) \/ SystemdStart(c) \/ wait_ready(c)

Next ==
  \/ \E i \in Instances :
       _run_default_command(i) \/ OwnerStep(i) \/ Crash(i) \/ OperatorSIGTERM(i)
  \/ \E d \in Deliveries : HandlerStep(d)
  \/ \E c \in Clients :
       \/ _lifecycle_service(c, "stop", FALSE)
       \/ \E force \in BOOLEAN : _lifecycle_service(c, "restart", force)
       \/ ClientStep(c)

Spec ==
  /\ Init /\ [][Next]_vars
  /\ WF_vars(\E i \in Instances : OwnerStep(i))
  /\ WF_vars(\E d \in Deliveries : HandlerStep(d))
  /\ \A c \in Clients : WF_vars(ClientStep(c)) /\ SF_vars(RestartDeadline(c))

-----------------------------------------------------------------------------
HostPc == SignalOwned \cup {"unborn", "spawned", "inherited", "closing", "draining",
                            "unbound", "handoff", "ended"}

Kinds == {"stop", "restart"}
Requests == Clients \cup {Signal, None}
Images == Instances \cup {None}

Hosts ==
  [pc : HostPc, intent : Kinds \cup {"none"}, req : Requests, persisted : BOOLEAN,
   restarting : BOOLEAN, parent : Images, handoff : Requests, completed : BOOLEAN,
   joined : BOOLEAN]

Receipts ==
  [req : Requests, inst : Images, action : Kinds \cup {"none"},
   state : {"none", "accepted", "handoff", "completed", "failed"}, repl : Images]

Calls ==
  [pc : {"none", "admitted", "recorded", "answered", "refused", "dropped"},
   at : Images, cut : BOOLEAN, kind : Kinds, force : BOOLEAN, req : Requests]

Commands ==
  [pc : {"idle", "asking", "awaiting", "stopwait", "stopcheck", "restartread",
         "restartping", "sysstop", "sysgone", "sysdown", "sysup", "done"},
   kind : Kinds, force : BOOLEAN, attempt : 0..2, req : Requests, inst : Images,
   armed : BOOLEAN, saw : {"none", "handoff", "completed"}, repl : Images,
   seen : Images,
   told : {"nothing", "error", "requested", "stopped", "lost", "restarted"}]

(* Every variable keeps its type.                                          *)
TypeOK ==
  /\ hosting \in Hostings /\ load \in 0..MaxLoad
  /\ lock \in Images /\ path \in Images
  /\ host \in [Instances -> Hosts]
  /\ receipt \in Receipts
  /\ client \in [Clients -> Commands]
  /\ call \in [Deliveries -> Calls]

(* The socket is the authority's.  Whoever listens on the project socket   *)
(* holds the lock of the checkout, and the name in the file system is its  *)
(* own: no image meets an endpoint that is in use, and none removes the    *)
(* endpoint of another, through stops, crashes and the hand-off across     *)
(* exec (daemon.py: the server stops before the authority is closed;       *)
(* ipc_server.py: _prepare_endpoint, _remove_owned_socket).                *)
EndpointIsHolders ==
  \A i \in Instances :
    /\ host[i].pc \in SignalOwned \ {"holding"} => path = i
    /\ path = i /\ host[i].pc \in Accepting \cup {"draining"} => lock = i

(* What a command reports is so.  "service stopped": the image that        *)
(* accepted the stop has given up the authority.  "service restarted": an  *)
(* image other than the one that was asked is ready, which without systemd *)
(* inherited the authority from that very image, so nobody else can have   *)
(* served in between (cli.py: _wait_for_service_stop,                      *)
(* _wait_for_service_restart, _wait_for_runtime_stop, wait_ready).         *)
ToldIsTrue ==
  \A c \in Clients :
    LET k == client[c] IN
    /\ k.told = "stopped" => Over(k.inst)
    /\ k.told = "restarted" =>
         /\ k.seen # k.inst /\ (k.inst # None => Over(k.inst))
         /\ ~Managed => host[k.seen].parent = k.inst

(* A graceful stop is reported as lost only when another lifecycle request *)
(* or SIGTERM came in between: the receipt file has room for one request,  *)
(* and an acceptance written after the completion takes its place.  A      *)
(* single stop is never misreported, because the completion waits for the  *)
(* acceptance (daemon.py: lifecycle_receipt_ready).                        *)
GracefulStopReported ==
  \A c \in Clients :
    client[c].told = "lost" =>
      \/ ~host[client[c].inst].completed
      \/ host[client[c].inst].joined
      \/ receipt.inst # client[c].inst

(* Every wait ends.  A client that waits for a stop or a restart is told   *)
(* of its outcome, unless an image it did not ask has taken the authority  *)
(* in the meantime: both waits look for any authority, not for that of the *)
(* image they wait for (cli.py: _wait_for_service_stop has no deadline     *)
(* while an authority is there).                                           *)
Waiting(c) == client[c].pc \notin {"idle", "done"}
Overtaken(c) ==
  /\ client[c].inst # None /\ lock \notin {None, client[c].inst}
  /\ client[c].kind = "restart" => host[lock].parent # client[c].inst
WaitsEnd ==
  \A c \in Clients : []<>(~Waiting(c) \/ Overtaken(c))

-----------------------------------------------------------------------------
(* The inductive invariant of the proofs, in named parts.                  *)

Held == Accepting \cup {"inherited", "holding", "draining", "unbound", "handoff"}
Begun(i) == host[i].pc \notin {"unborn", "spawned"}
Recorded(i) == {d \in Deliveries : call[d].at = i /\ call[d].pc = "recorded"}

(* The lock names the one image that stands between taking the authority   *)
(* and closing it, and whoever serves has its socket at the path.          *)
HolderHolds == \A i \in Instances : host[i].pc \in Held <=> lock = i
BoundAtPath ==
  \A i \in Instances : host[i].pc \in SignalOwned \ {"holding"} => path = i

(* A unit has one process at a time.                                       *)
OneProcess == Managed => \A i, j \in Instances : Alive(i) /\ Alive(j) => i = j

(* What an image does at its end follows from the one intent it recorded.  *)
EndFollowsIntent ==
  \A i \in Instances :
    LET h == host[i] IN
    /\ h.pc = "unborn" => h = Unborn
    /\ h.pc = "spawned" => ~h.completed
    /\ Alive(i) =>
         /\ h.restarting => h.intent = "restart"
         /\ h.completed \/ h.pc = "stopping" => h.intent = "stop"
         /\ h.completed => h.persisted
         /\ h.pc = "handoff" => h.restarting /\ hosting = "internal"

(* A replacement's parent is gone and did not complete a stop.             *)
ParentIsGone ==
  \A j \in Instances :
    host[j].parent # None => Over(host[j].parent) /\ ~host[host[j].parent].completed

(* A delivery that is being handled is handled by a living image.          *)
CallsHandled ==
  \A d \in Deliveries :
    /\ call[d].pc # "none" => call[d].at \in Instances /\ Begun(call[d].at)
    /\ call[d].pc \in Running => Alive(call[d].at)

(* Until a second request joins, one handler at most has an acceptance to  *)
(* write, and none has once it is on disk.                                 *)
OneWriter ==
  \A i \in Instances :
    /\ host[i].intent = "none" => ~host[i].persisted /\ Recorded(i) = {}
    /\ ~host[i].joined /\ host[i].persisted => Recorded(i) = {}
    /\ ~host[i].joined => \A d, e \in Recorded(i) : d = e

(* A completed restart names a replacement that inherited the authority.   *)
RestartReceipt ==
  receipt.action = "restart" /\ receipt.state = "completed" =>
    /\ receipt.repl \in Instances /\ Begun(receipt.repl)
    /\ host[receipt.repl].parent = receipt.inst

(* The request whose acceptance was answered is the one that counts, and   *)
(* its completion stays in the receipt until another request joins it or   *)
(* another image writes.                                                   *)
Owed(i, req) ==
  /\ i \in Instances /\ Begun(i)
  /\ Alive(i) => host[i].intent # "none" /\ host[i].req = req
  /\ host[i].completed /\ ~host[i].joined /\ receipt.inst = i =>
       receipt.req = req /\ receipt.action = "stop" /\ receipt.state = "completed"

AnswersOwed ==
  \A d \in Deliveries : call[d].pc = "answered" => Owed(call[d].at, call[d].req)

(* What a waiting client knows of the image it waits for.                  *)
ClientKnows(k) ==
  /\ k.told # "nothing" => k.pc = "done"
  /\ k.inst # None => Begun(k.inst)
  /\ k.pc \in {"asking", "awaiting"} => k.attempt \in {1, 2}
  /\ k.pc \in {"stopwait", "stopcheck"} => k.kind = "stop" /\ Owed(k.inst, k.req)
  /\ k.pc = "stopcheck" => Over(k.inst)
  /\ k.pc \in {"restartread", "restartping"} => k.kind = "restart" /\ k.inst # None
  /\ k.pc = "restartping" /\ k.saw = "completed" =>
       k.repl \in Instances /\ Begun(k.repl) /\ host[k.repl].parent = k.inst
  /\ k.pc \in {"sysstop", "sysgone", "sysdown", "sysup"} => Managed
  /\ (k.pc = "sysstop" /\ k.kind = "stop") \/ k.pc = "sysgone" => k.inst # None
  /\ k.pc = "sysdown" =>
       /\ k.inst \in {None, k.repl} \/ Over(k.inst)
       /\ k.repl # None => host[k.repl].pc # "unborn"
  /\ k.pc = "sysup" => k.inst = None \/ Over(k.inst)

ClientsKnow == \A c \in Clients : ClientKnows(client[c])

(* What a client was told stays so.                                        *)
ToldHolds(k) ==
  /\ k.told \in {"stopped", "lost"} => k.inst \in Instances /\ Over(k.inst)
  /\ k.told = "lost" =>
       ~host[k.inst].completed \/ host[k.inst].joined \/ receipt.inst # k.inst
  /\ k.told = "restarted" =>
       /\ k.seen \in Instances /\ Begun(k.seen)
       /\ k.seen # k.inst /\ (k.inst # None => Over(k.inst))
       /\ ~Managed => host[k.seen].parent = k.inst

ToldStays == \A c \in Clients : ToldHolds(client[c])

AuthorityInv == TypeOK /\ HolderHolds /\ BoundAtPath
ImageInv == OneProcess /\ EndFollowsIntent /\ ParentIsGone
HandlerInv == CallsHandled /\ OneWriter
OutcomeInv == RestartReceipt /\ AnswersOwed /\ ClientsKnow /\ ToldStays

IInv == AuthorityInv /\ ImageInv /\ HandlerInv /\ OutcomeInv
=============================================================================
