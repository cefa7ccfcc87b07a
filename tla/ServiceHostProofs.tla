-------------------------- MODULE ServiceHostProofs --------------------------
(***************************************************************************)
(* Proofs about ServiceHost, for any number of images, clients and faults. *)
(***************************************************************************)
EXTENDS ServiceHost, TLAPS

-----------------------------------------------------------------------------
\* What the updates of an image's record leave alone.

\* The two records agree on all that a move of the owner thread leaves.
SameButPc(g, h) ==
  /\ g.intent = h.intent /\ g.req = h.req /\ g.persisted = h.persisted
  /\ g.restarting = h.restarting /\ g.parent = h.parent /\ g.handoff = h.handoff
  /\ g.completed = h.completed /\ g.joined = h.joined

\* ... and on all that the writing of an acceptance leaves.
SameRequest(g, h) ==
  /\ g.intent = h.intent /\ g.req = h.req /\ g.restarting = h.restarting
  /\ g.parent = h.parent /\ g.handoff = h.handoff
  /\ g.completed = h.completed /\ g.joined = h.joined

\* Two records of a client agree on all but where it stands.
SameCommand(g, k) ==
  /\ g.kind = k.kind /\ g.force = k.force /\ g.attempt = k.attempt /\ g.req = k.req
  /\ g.inst = k.inst /\ g.armed = k.armed /\ g.saw = k.saw /\ g.repl = k.repl
  /\ g.seen = k.seen /\ g.told = k.told

OtherClients(c) == \A b \in Clients : b # c => client'[b] = client[b]
Others(i) == \A j \in Instances : j # i => host'[j] = host[j]

\* The fields of an image's record are typed.
LEMMA HostTyped ==
  ASSUME NEW h \in Hosts
  PROVE  /\ h.pc \in HostPc /\ h.intent \in Kinds \cup {"none"} /\ h.req \in Requests
         /\ h.persisted \in BOOLEAN /\ h.restarting \in BOOLEAN /\ h.parent \in Images
         /\ h.handoff \in Requests /\ h.completed \in BOOLEAN /\ h.joined \in BOOLEAN
  BY DEF Hosts

\* A record whose pc alone changes.
LEMMA HostMoves ==
  ASSUME NEW h \in Hosts, NEW p \in HostPc
  PROVE  LET g == [h EXCEPT !.pc = p]
         IN  g \in Hosts /\ g.pc = p /\ SameButPc(g, h)
  BY DEF Hosts, SameButPc

\* A process that is gone.
LEMMA HostGone ==
  ASSUME NEW h \in Hosts
  PROVE  /\ Gone(h) \in Hosts /\ Gone(h).pc = "ended" /\ Gone(h).parent = h.parent
         /\ Gone(h).completed = h.completed /\ Gone(h).joined = h.joined
         /\ Gone(h).intent = "none" /\ ~Gone(h).persisted
  BY DEF Hosts, Gone, Unborn, HostPc, Kinds, Requests, Images

\* The first request is recorded, a later one joins it.
LEMMA HostRequested ==
  ASSUME NEW h \in Hosts, NEW kind \in Kinds, NEW req \in Requests
  PROVE  LET g == request_lifecycle(h, kind, req)
         IN  /\ g \in Hosts /\ g.pc = h.pc /\ g.persisted = h.persisted
             /\ g.restarting = h.restarting /\ g.parent = h.parent
             /\ g.handoff = h.handoff /\ g.completed = h.completed
             /\ IF h.intent = "none"
                THEN g.intent = kind /\ g.req = req /\ g.joined = h.joined
                ELSE g.intent = h.intent /\ g.req = h.req /\ g.joined
<1>1. CASE h.intent = "none"
  BY <1>1 DEF Hosts, request_lifecycle
<1>2. CASE h.intent # "none"
  BY <1>2 DEF Hosts, request_lifecycle
<1> QED BY <1>1, <1>2

\* The acceptance is on disk.
LEMMA HostPersists ==
  ASSUME NEW h \in Hosts
  PROVE  LET g == [h EXCEPT !.persisted = TRUE]
         IN  /\ g \in Hosts /\ g.persisted /\ g.pc = h.pc /\ g.intent = h.intent
             /\ g.req = h.req /\ g.restarting = h.restarting /\ g.parent = h.parent
             /\ g.handoff = h.handoff /\ g.completed = h.completed
             /\ g.joined = h.joined
  BY DEF Hosts

\* A step that moves the owner thread of one image.
LEMMA AtMoves ==
  ASSUME host \in [Instances -> Hosts], NEW i \in Instances, NEW p \in HostPc, At(i, p)
  PROVE  /\ host' \in [Instances -> Hosts] /\ Others(i)
         /\ host'[i].pc = p /\ SameButPc(host'[i], host[i])
<1>1. host' = [host EXCEPT ![i] = [host[i] EXCEPT !.pc = p]]
  BY DEF At
<1>2. host'[i] = [host[i] EXCEPT !.pc = p]
  BY <1>1
<1>3. [host[i] EXCEPT !.pc = p] \in Hosts
  BY HostMoves
<1>4. host' \in [Instances -> Hosts] /\ Others(i)
  BY <1>1, <1>3 DEF Others
<1> QED BY <1>2, <1>4, HostMoves

-----------------------------------------------------------------------------
\* Deliveries.

\* The fields of a delivery's record are typed.
LEMMA CallTyped ==
  ASSUME NEW k \in Calls
  PROVE  /\ k.pc \in {"none", "admitted", "recorded", "answered", "refused", "dropped"}
         /\ k.at \in Images /\ k.cut \in BOOLEAN /\ k.kind \in Kinds
         /\ k.force \in BOOLEAN /\ k.req \in Requests
  BY DEF Calls

\* A delivery that is not there.
LEMMA NoCallTyped == NoCall \in Calls /\ NoCall.pc = "none" /\ NoCall.at = None
  BY DEF NoCall, Calls, Images, Requests, Kinds

\* What is left of a delivery when its handler is through with it.
LEMMA Settled ==
  ASSUME call \in [Deliveries -> Calls], NEW d \in Deliveries,
         NEW p \in {"answered", "refused", "dropped"}, NEW req \in Requests
  PROVE  LET k == Settle(d, p, req)
         IN  /\ k \in Calls /\ k.pc \in {"none", "dropped", p}
             /\ k.pc # "none" => k.at = call[d].at /\ k.req = req
<1>1. CASE ~Awaited(d)
  BY <1>1, NoCallTyped DEF Settle
<1>2. CASE Awaited(d)
  <2> DEFINE q == IF call[d].cut THEN "dropped" ELSE p
             k == [NoCall EXCEPT !.pc = q, !.at = call[d].at, !.req = req]
  <2>1. q \in {"dropped", p}
    OBVIOUS
  <2>2. call[d].at \in Images
    BY CallTyped
  <2>3. Settle(d, p, req) = k
    BY <1>2 DEF Settle
  <2> HIDE DEF q
  <2>4. k \in Calls /\ k.pc = q /\ k.at = call[d].at /\ k.req = req
    BY <2>1, <2>2 DEF NoCall, Calls, Images, Kinds
  <2> QED BY <2>1, <2>3, <2>4
<1> QED BY <1>1, <1>2

\* The handler threads of a process that is gone, whatever becomes of it.
LEMMA ThreadlessEffect ==
  ASSUME call \in [Deliveries -> Calls], NEW i \in Instances, Threadless(i)
  PROVE  /\ call' \in [Deliveries -> Calls]
         /\ \A d \in Deliveries :
              IF call[d].at = i /\ call[d].pc \in Running
              THEN call'[d].pc \in {"none", "dropped"}
                   /\ (call'[d].pc = "dropped" => call'[d].at = i)
              ELSE call'[d] = call[d]
<1>1. None \in Requests
  BY DEF Requests
<1>2. ASSUME NEW d \in Deliveries
      PROVE  /\ Settle(d, "dropped", None) \in Calls
             /\ Settle(d, "dropped", None).pc \in {"none", "dropped"}
             /\ Settle(d, "dropped", None).pc # "none" =>
                  Settle(d, "dropped", None).at = call[d].at
  BY <1>1, Settled
<1>3. \A d \in Deliveries :
        call'[d] = IF call[d].at = i /\ call[d].pc \in Running
                   THEN Settle(d, "dropped", None) ELSE call[d]
  BY DEF Threadless
<1>4. call' \in [Deliveries -> Calls]
  BY <1>2 DEF Threadless
<1> QED BY <1>2, <1>3, <1>4

\* A process ends with all its handler threads.
LEMMA EndedEffect ==
  ASSUME host \in [Instances -> Hosts], call \in [Deliveries -> Calls],
         NEW i \in Instances, Ended(i)
  PROVE  /\ host' \in [Instances -> Hosts] /\ Others(i)
         /\ host'[i] = Gone(host[i]) /\ host'[i].pc = "ended"
         /\ call' \in [Deliveries -> Calls]
         /\ \A d \in Deliveries :
              IF call[d].at = i /\ call[d].pc \in Running
              THEN call'[d].pc \in {"none", "dropped"}
                   /\ (call'[d].pc = "dropped" => call'[d].at = i)
              ELSE call'[d] = call[d]
<1>1. /\ host' \in [Instances -> Hosts] /\ Others(i)
      /\ host'[i] = Gone(host[i]) /\ host'[i].pc = "ended"
  BY HostGone DEF Ended, Others
<1> QED BY <1>1, ThreadlessEffect DEF Ended

-----------------------------------------------------------------------------
\* Requests, the receipt and the clients.

\* Receipts are typed.
LEMMA ReceiptTyped ==
  ASSUME NEW req \in Requests, NEW i \in Images, NEW action \in Kinds \cup {"none"},
         NEW state \in {"none", "accepted", "handoff", "completed", "failed"},
         NEW repl \in Images
  PROVE  /\ Receipt(req, i, action, state, repl) \in Receipts
         /\ Receipt(req, i, action, state, repl).req = req
         /\ Receipt(req, i, action, state, repl).inst = i
         /\ Receipt(req, i, action, state, repl).action = action
         /\ Receipt(req, i, action, state, repl).state = state
         /\ Receipt(req, i, action, state, repl).repl = repl
  BY DEF Receipt, Receipts

\* An acceptance is written: only the image's flag and the receipt change.
LEMMA PersistEffect ==
  ASSUME host \in [Instances -> Hosts], NEW i \in Instances, NEW h \in Hosts, Persist(i, h)
  PROVE  /\ host' \in [Instances -> Hosts] /\ Others(i)
         /\ host'[i].persisted /\ host'[i].pc = h.pc /\ SameRequest(host'[i], h)
         /\ receipt' \in Receipts /\ receipt'.inst = i /\ receipt'.state = "accepted"
<1>1. host' = [host EXCEPT ![i] = [h EXCEPT !.persisted = TRUE]]
  BY DEF Persist
<1>2. host' \in [Instances -> Hosts] /\ Others(i) /\ host'[i] = [h EXCEPT !.persisted = TRUE]
  BY <1>1, HostPersists DEF Others
<1>3. host'[i].persisted /\ host'[i].pc = h.pc /\ SameRequest(host'[i], h)
  BY <1>2, HostPersists DEF SameRequest
<1>4. h.req \in Requests /\ h.intent \in Kinds \cup {"none"} /\ i \in Images /\ None \in Images
  BY HostTyped DEF Images
<1>5. receipt' = Receipt(h.req, i, h.intent, "accepted", None)
  BY DEF Persist, Accepted
<1> QED BY <1>2, <1>3, <1>4, <1>5, ReceiptTyped

\* SIGTERM kills, is refused, or records a stop and writes its acceptance.
LEMMA SIGTERMEffect ==
  ASSUME TypeOK, NEW i \in Instances, SIGTERM(i)
  PROVE  /\ host' \in [Instances -> Hosts] /\ Others(i) /\ receipt' \in Receipts
         /\ call' \in [Deliveries -> Calls] /\ Alive(i)
         /\ \/ Ended(i) /\ lock' = Freed(i) /\ UNCHANGED receipt
            \/ UNCHANGED <<host, receipt, lock, call>>
            \/ /\ host[i].pc \in SignalOwned /\ UNCHANGED <<lock, call>>
               /\ Persist(i, request_lifecycle(host[i], "stop", Signal))
<1> DEFINE h == request_lifecycle(host[i], "stop", Signal)
<1>1. h \in Hosts
  BY HostRequested DEF TypeOK, Kinds, Requests
<1>2. CASE Ended(i) /\ lock' = Freed(i) /\ UNCHANGED receipt
  BY <1>2, EndedEffect DEF TypeOK, SIGTERM, Dies
<1>3. CASE UNCHANGED <<host, receipt, lock, call>>
  BY <1>3 DEF TypeOK, Others, SIGTERM, Dies
<1>4. CASE host[i].pc \in SignalOwned /\ UNCHANGED <<lock, call>> /\ Persist(i, h)
  BY <1>1, <1>4, PersistEffect DEF TypeOK, SIGTERM
<1> QED BY <1>2, <1>3, <1>4 DEF SIGTERM, Dies

\* The fields of a client's record are typed.
LEMMA ClientTyped ==
  ASSUME NEW k \in Commands
  PROVE  /\ k.kind \in Kinds /\ k.force \in BOOLEAN /\ k.attempt \in 0..2
         /\ k.req \in Requests /\ k.inst \in Images /\ k.armed \in BOOLEAN
         /\ k.saw \in {"none", "handoff", "completed"} /\ k.repl \in Images
         /\ k.seen \in Images
         /\ k.told \in {"nothing", "error", "requested", "stopped", "lost", "restarted"}
  BY DEF Commands

\* A client before its command.
LEMMA CommandingTyped == Commanding \in Commands
  BY DEF Commanding, Commands, Images, Requests, Kinds

\* A client that moves on.
LEMMA GoEffect ==
  ASSUME client \in [Clients -> Commands], NEW c \in Clients,
         NEW p \in {"idle", "asking", "awaiting", "stopwait", "stopcheck", "restartread",
                    "restartping", "sysstop", "sysgone", "sysdown", "sysup", "done"},
         Go(c, p)
  PROVE  /\ client' \in [Clients -> Commands] /\ OtherClients(c)
         /\ client'[c].pc = p /\ SameCommand(client'[c], client[c])
<1>1. client' = [client EXCEPT ![c] = [client[c] EXCEPT !.pc = p]]
  BY DEF Go
<1>2. /\ [client[c] EXCEPT !.pc = p] \in Commands
      /\ [client[c] EXCEPT !.pc = p].pc = p
      /\ SameCommand([client[c] EXCEPT !.pc = p], client[c])
  BY DEF Commands, SameCommand
<1> QED BY <1>1, <1>2 DEF OtherClients

\* A client that is told the outcome.
LEMMA ToldEffect ==
  ASSUME client \in [Clients -> Commands], NEW c \in Clients,
         NEW what \in {"error", "requested", "stopped", "lost"}, Told(c, what)
  PROVE  /\ client' \in [Clients -> Commands] /\ OtherClients(c)
         /\ client'[c].pc = "done" /\ client'[c].told = what
         /\ client'[c].inst = IF what \in {"stopped", "lost"} THEN client[c].inst ELSE None
<1> DEFINE x == IF what \in {"stopped", "lost"} THEN client[c].inst ELSE None
           k == [Commanding EXCEPT !.pc = "done", !.told = what, !.inst = x]
<1>1. x \in Images
  BY ClientTyped DEF Images
<1>2. client' = [client EXCEPT ![c] = k]
  BY DEF Told
<1> HIDE DEF x
<1>3. k \in Commands /\ k.pc = "done" /\ k.told = what /\ k.inst = x
  BY <1>1, CommandingTyped DEF Commands
<1>4. client' \in [Clients -> Commands] /\ OtherClients(c) /\ client'[c] = k
  BY <1>2, <1>3 DEF OtherClients
<1> QED BY <1>3, <1>4 DEF x

\* A client that is told of a restart.
LEMMA ToldRestartedEffect ==
  ASSUME client \in [Clients -> Commands], path \in Images, NEW c \in Clients,
         ToldRestarted(c)
  PROVE  /\ client' \in [Clients -> Commands] /\ OtherClients(c)
         /\ client'[c].pc = "done" /\ client'[c].told = "restarted"
         /\ client'[c].inst = client[c].inst /\ client'[c].seen = path
<1> DEFINE k == [Commanding EXCEPT !.pc = "done", !.told = "restarted",
                                   !.inst = client[c].inst, !.seen = path]
<1>1. client[c].inst \in Images
  BY ClientTyped
<1>2. client' = [client EXCEPT ![c] = k]
  BY DEF ToldRestarted
<1>3. k \in Commands /\ k.pc = "done" /\ k.told = "restarted" /\ k.inst = client[c].inst
      /\ k.seen = path
  BY <1>1, CommandingTyped DEF Commands
<1>4. client' \in [Clients -> Commands] /\ OtherClients(c) /\ client'[c] = k
  BY <1>2, <1>3 DEF OtherClients
<1> QED BY <1>3, <1>4

-----------------------------------------------------------------------------
\* Type correctness.

\* An image serves no more: whether it restarts follows from its intent.
LEMMA ServeReturnsEffect ==
  ASSUME host \in [Instances -> Hosts], NEW i \in Instances, ServeReturns(i)
  PROVE  /\ host' \in [Instances -> Hosts] /\ Others(i)
         /\ host'[i].pc \in {"stopping", "closing"} /\ host[i].pc = "serving"
         /\ host'[i].pc = "stopping" => host[i].intent = "stop"
         /\ host'[i].restarting => host[i].restarting \/ host[i].intent = "restart"
         /\ host'[i].intent = host[i].intent /\ host'[i].req = host[i].req
         /\ host'[i].persisted = host[i].persisted /\ host'[i].parent = host[i].parent
         /\ host'[i].completed = host[i].completed /\ host'[i].joined = host[i].joined
<1> DEFINE r == host[i].intent = "restart"
           p == IF host[i].intent = "stop" THEN "stopping" ELSE "closing"
           g == [host[i] EXCEPT !.restarting = r, !.pc = p]
<1>1. CASE At(i, "closing")
  BY <1>1, AtMoves DEF SameButPc, HostPc, SignalOwned, ServeReturns
<1>2. CASE host' = [host EXCEPT ![i].restarting = r, ![i].pc = p]
  <2>1. r \in BOOLEAN /\ p \in HostPc
    BY DEF HostPc, SignalOwned
  <2>2. host' = [host EXCEPT ![i] = g]
    BY <1>2
  <2>3. r => host[i].intent = "restart"
    OBVIOUS
  <2>4. p \in {"stopping", "closing"} /\ (p = "stopping" => host[i].intent = "stop")
    OBVIOUS
  <2> HIDE DEF r, p
  <2>5. /\ g \in Hosts /\ g.pc = p /\ g.restarting = r /\ g.intent = host[i].intent
        /\ g.req = host[i].req /\ g.persisted = host[i].persisted
        /\ g.parent = host[i].parent /\ g.completed = host[i].completed
        /\ g.joined = host[i].joined
    BY <2>1 DEF Hosts
  <2>6. host' \in [Instances -> Hosts] /\ Others(i) /\ host'[i] = g
    BY <2>2, <2>5 DEF Others
  <2> QED BY <2>3, <2>4, <2>5, <2>6 DEF ServeReturns
<1> QED BY <1>1, <1>2 DEF ServeReturns

\* A stop completes.
LEMMA HostCompletes ==
  ASSUME host \in [Instances -> Hosts], NEW i \in Instances,
         host' = [host EXCEPT ![i].pc = "completed", ![i].completed = TRUE]
  PROVE  /\ host' \in [Instances -> Hosts] /\ Others(i)
         /\ host'[i].pc = "completed" /\ host'[i].completed
         /\ host'[i].intent = host[i].intent /\ host'[i].req = host[i].req
         /\ host'[i].persisted = host[i].persisted /\ host'[i].parent = host[i].parent
         /\ host'[i].restarting = host[i].restarting /\ host'[i].joined = host[i].joined
<1> DEFINE g == [host[i] EXCEPT !.pc = "completed", !.completed = TRUE]
<1>1. host' = [host EXCEPT ![i] = g]
  OBVIOUS
<1>2. /\ g \in Hosts /\ g.pc = "completed" /\ g.completed /\ g.intent = host[i].intent
      /\ g.req = host[i].req /\ g.persisted = host[i].persisted
      /\ g.parent = host[i].parent /\ g.restarting = host[i].restarting
      /\ g.joined = host[i].joined
  BY DEF Hosts, HostPc, SignalOwned
<1>3. host' \in [Instances -> Hosts] /\ Others(i) /\ host'[i] = g
  BY <1>1, <1>2 DEF Others
<1> QED BY <1>2, <1>3

\* exec: the old image is gone, the next one inherits.
LEMMA ExecEffect ==
  ASSUME TypeOK, NEW i \in Instances, NEW j \in Instances, i # j,
         host' = [host EXCEPT ![i] = Gone(@),
                    ![j] = [Unborn EXCEPT !.pc = "inherited", !.parent = i,
                                          !.handoff = host[i].req]]
  PROVE  /\ host' \in [Instances -> Hosts]
         /\ \A k \in Instances : k # i /\ k # j => host'[k] = host[k]
         /\ host'[i] = Gone(host[i]) /\ host'[j].pc = "inherited" /\ host'[j].parent = i
         /\ host'[j].intent = "none" /\ ~host'[j].persisted /\ ~host'[j].restarting
         /\ ~host'[j].completed /\ ~host'[j].joined
<1> DEFINE g == [Unborn EXCEPT !.pc = "inherited", !.parent = i, !.handoff = host[i].req]
<1>1. host[i].req \in Requests
  BY HostTyped DEF TypeOK
<1>2. /\ g \in Hosts /\ g.pc = "inherited" /\ g.parent = i /\ g.intent = "none"
      /\ ~g.persisted /\ ~g.restarting /\ ~g.completed /\ ~g.joined
  BY <1>1 DEF Unborn, Hosts, HostPc, SignalOwned, Images, Requests, Kinds
<1>3. host' = [host EXCEPT ![i] = Gone(host[i]), ![j] = g]
  OBVIOUS
<1> HIDE DEF g
<1>4. Gone(host[i]) \in Hosts
  BY HostGone DEF TypeOK
<1>5. /\ host' \in [Instances -> Hosts] /\ host'[j] = g /\ host'[i] = Gone(host[i])
      /\ \A k \in Instances : k # i /\ k # j => host'[k] = host[k]
  BY <1>2, <1>3, <1>4 DEF TypeOK
<1> QED BY <1>2, <1>5

-----------------------------------------------------------------------------
\* The authority, the endpoint and the images.

\* Parents stay gone when no image gets another parent and none that is over
\* changes.
LEMMA ParentsKept ==
  ASSUME ParentIsGone, host \in [Instances -> Hosts],
         \A j \in Instances : host'[j].parent = host[j].parent,
         \A j \in Instances :
           host[j].pc = "ended" =>
             host'[j].pc = "ended" /\ host'[j].completed = host[j].completed
  PROVE  ParentIsGone'
<1> SUFFICES ASSUME NEW j \in Instances, host'[j].parent # None
             PROVE  /\ host'[host'[j].parent].pc = "ended"
                    /\ ~host'[host'[j].parent].completed
  BY DEF ParentIsGone, Over
<1> DEFINE q == host[j].parent
<1>1. q \in Instances /\ host'[j].parent = q
  BY HostTyped DEF Images
<1>2. host[q].pc = "ended" /\ ~host[q].completed
  BY <1>1 DEF ParentIsGone, Over
<1> QED BY <1>1, <1>2

\* A move of the image that holds the authority, which keeps the lock.
LEMMA MoveImages ==
  ASSUME AuthorityInv, ImageInv, NEW i \in Instances, NEW p \in Held, At(i, p),
         host[i].pc \in Held \/ (host[i].pc = "spawned" /\ lock = None),
         lock' = i, path' \in Images, UNCHANGED hosting, p # "stopping",
         p \in SignalOwned \ {"holding"} => path' = i,
         p = "handoff" => host[i].restarting /\ hosting = "internal"
  PROVE  HolderHolds' /\ BoundAtPath' /\ ImageInv'
<1> USE HostAssumption DEF AuthorityInv, ImageInv, HolderHolds, BoundAtPath,
  Alive, Over, Held, Accepting, SignalOwned, HostPc, Images, Managed, Others, SameButPc
<1>1. host \in [Instances -> Hosts] /\ \A j \in Instances : host[j].parent \in Images
  BY HostTyped DEF TypeOK
<1>2. /\ host' \in [Instances -> Hosts] /\ Others(i)
      /\ host'[i].pc = p /\ SameButPc(host'[i], host[i])
  BY <1>1, AtMoves
<1>3. HolderHolds' /\ BoundAtPath'
  BY <1>2
<1>4. OneProcess'
  BY <1>2 DEF OneProcess
<1>5. EndFollowsIntent'
  BY <1>2 DEF EndFollowsIntent
<1>6. ParentIsGone'
  BY <1>1, <1>2, ParentsKept
<1> QED BY <1>3, <1>4, <1>5, <1>6

\* The end of a living image, which frees the lock if it held it.
LEMMA EndImages ==
  ASSUME AuthorityInv, ImageInv, NEW i \in Instances, Alive(i), Ended(i),
         lock' = Freed(i), UNCHANGED <<hosting, path>>
  PROVE  HolderHolds' /\ BoundAtPath' /\ ImageInv'
<1> USE HostAssumption DEF AuthorityInv, ImageInv, HolderHolds, BoundAtPath,
  Alive, Over, Held, Accepting, SignalOwned, HostPc, Images, Managed, Others, SameButPc
<1>1. /\ host \in [Instances -> Hosts] /\ \A j \in Instances : host[j].parent \in Images
      /\ call \in [Deliveries -> Calls]
  BY HostTyped DEF TypeOK
<1>2. /\ host' \in [Instances -> Hosts] /\ Others(i) /\ host'[i].pc = "ended"
      /\ host'[i].parent = host[i].parent /\ host'[i].completed = host[i].completed
  BY <1>1, EndedEffect, HostGone
<1>3. HolderHolds' /\ BoundAtPath'
  BY <1>2 DEF Freed
<1>4. OneProcess'
  BY <1>2 DEF OneProcess
<1>5. EndFollowsIntent'
  BY <1>2 DEF EndFollowsIntent
<1>6. ParentIsGone'
  BY <1>1, <1>2, ParentsKept
<1> QED BY <1>3, <1>4, <1>5, <1>6

\* A request recorded or accepted by a living image leaves it where it is.
LEMMA RequestImages ==
  ASSUME AuthorityInv, ImageInv, NEW i \in Instances, Others(i),
         host' \in [Instances -> Hosts],
         host[i].pc # "unborn",
         host'[i].pc = host[i].pc, host'[i].parent = host[i].parent,
         host'[i].completed = host[i].completed, host'[i].restarting = host[i].restarting,
         host[i].intent # "none" => host'[i].intent = host[i].intent,
         host[i].persisted => host'[i].persisted,
         UNCHANGED <<hosting, lock, path>>
  PROVE  HolderHolds' /\ BoundAtPath' /\ ImageInv'
<1> USE HostAssumption DEF AuthorityInv, ImageInv, HolderHolds, BoundAtPath,
  Alive, Over, Images, Managed, Others
<1>1. host \in [Instances -> Hosts] /\ \A j \in Instances : host[j].parent \in Images
  BY HostTyped DEF TypeOK
<1>2. HolderHolds' /\ BoundAtPath'
  OBVIOUS
<1>3. OneProcess'
  BY DEF OneProcess
<1>4. EndFollowsIntent'
  BY HostTyped DEF EndFollowsIntent
<1>5. ParentIsGone'
  BY <1>1, ParentsKept
<1> QED BY <1>2, <1>3, <1>4, <1>5

\* The receipt of a hand-off that failed is typed.
LEMMA HandoffFailedTyped ==
  ASSUME TypeOK, NEW i \in Instances
  PROVE  HandoffFailed(i) \in Receipts
<1>1. host[i].handoff \in Requests /\ host[i].parent \in Images /\ None \in Images
  BY HostTyped DEF TypeOK, Images
<1> QED BY <1>1, ReceiptTyped DEF HandoffFailed, TypeOK, Kinds

\* The owner thread of an image preserves the invariant of the images.
LEMMA OwnerStepImages ==
  ASSUME AuthorityInv, ImageInv, NEW i \in Instances, OwnerStep(i)
  PROVE  AuthorityInv' /\ ImageInv'
<1> USE HostAssumption
<1>0. /\ host \in [Instances -> Hosts] /\ call \in [Deliveries -> Calls]
      /\ receipt \in Receipts /\ load \in 0..MaxLoad /\ host[i] \in Hosts /\ TypeOK
      /\ i \in Images /\ None \in Images
  BY DEF TypeOK, AuthorityInv, Images
<1>a. /\ host[i].pc \in Held => lock = i
      /\ host[i].pc \in SignalOwned \ {"holding"} => path = i
  BY DEF AuthorityInv, HolderHolds, BoundAtPath
<1>b. /\ host[i].req \in Requests /\ host[i].handoff \in Requests
      /\ host[i].parent \in Images
  BY <1>0, HostTyped
<1>c. ASSUME NEW p \in HostPc, At(i, p)
      PROVE  host' \in [Instances -> Hosts]
  BY <1>0, <1>c, AtMoves
<1>d. ASSUME Ended(i)
      PROVE  host' \in [Instances -> Hosts] /\ call' \in [Deliveries -> Calls]
  BY <1>0, <1>d, EndedEffect
<1>e. ASSUME Fault
      PROVE  load' \in 0..MaxLoad
  BY <1>0, <1>e DEF Fault, Weighs
<1> USE DEF Held, Accepting, SignalOwned, HostPc
<1>1. CASE _lock(i)
  <2>1. CASE lock = None /\ lock' = i /\ At(i, "holding") /\ UNCHANGED call
    <3>1. TypeOK'
      BY <1>0, <1>1, <1>c, <2>1 DEF _lock, TypeOK
    <3> QED BY <1>0, <1>1, <2>1, <3>1, MoveImages DEF _lock, AuthorityInv, TypeOK
  <2>2. CASE Ended(i) /\ UNCHANGED lock
    <3>1. TypeOK'
      BY <1>0, <1>1, <1>d, <2>2 DEF _lock, TypeOK
    <3>2. Alive(i) /\ lock' = Freed(i)
      BY <1>1, <2>2 DEF _lock, Alive, Freed, AuthorityInv, HolderHolds
    <3> QED BY <1>1, <2>2, <3>1, <3>2, EndImages DEF _lock, AuthorityInv
  <2> QED BY <1>1, <2>1, <2>2 DEF _lock
<1>2. CASE _acquire_authority(i)
  <2>1. CASE At(i, "holding") /\ UNCHANGED <<lock, receipt, call, load>>
    <3>1. TypeOK'
      BY <1>0, <1>2, <1>c, <2>1 DEF _acquire_authority, TypeOK
    <3> QED BY <1>0, <1>a, <1>2, <2>1, <3>1, MoveImages
            DEF _acquire_authority, AuthorityInv, TypeOK
  <2>2. CASE Fault /\ Ended(i) /\ lock' = None /\ receipt' \in {receipt, HandoffFailed(i)}
    <3>1. TypeOK'
      BY <1>0, <1>2, <1>d, <1>e, <2>2, HandoffFailedTyped DEF _acquire_authority, TypeOK
    <3>2. Alive(i) /\ lock' = Freed(i)
      BY <1>2, <1>a, <2>2 DEF _acquire_authority, Alive, Freed
    <3> QED BY <1>2, <2>2, <3>1, <3>2, EndImages DEF _acquire_authority, AuthorityInv
  <2> QED BY <1>2, <2>1, <2>2 DEF _acquire_authority
<1>3. CASE BindEndpoint(i)
  <2>1. TypeOK'
    BY <1>0, <1>3, <1>c DEF BindEndpoint, TypeOK
  <2> QED BY <1>0, <1>a, <1>3, <2>1, MoveImages DEF BindEndpoint, AuthorityInv
<1>4. CASE BecomeReady(i)
  <2>1. receipt' \in Receipts
    BY <1>0, <1>b, <1>4, ReceiptTyped DEF BecomeReady, Kinds
  <2>2. TypeOK'
    BY <1>0, <1>4, <1>c, <2>1 DEF BecomeReady, TypeOK
  <2> QED BY <1>0, <1>a, <1>4, <2>2, MoveImages DEF BecomeReady, AuthorityInv, TypeOK
<1>5. CASE StartupFails(i)
  <2>1. TypeOK'
    BY <1>0, <1>5, <1>c, <1>e, HandoffFailedTyped DEF StartupFails, TypeOK
  <2> QED BY <1>0, <1>a, <1>5, <2>1, MoveImages DEF StartupFails, AuthorityInv, TypeOK
<1>6. CASE ServeReturns(i)
  <2>1. /\ host' \in [Instances -> Hosts] /\ Others(i)
        /\ host'[i].pc \in {"stopping", "closing"} /\ host[i].pc = "serving"
        /\ host'[i].pc = "stopping" => host[i].intent = "stop"
        /\ host'[i].restarting => host[i].restarting \/ host[i].intent = "restart"
        /\ host'[i].intent = host[i].intent /\ host'[i].parent = host[i].parent
        /\ host'[i].completed = host[i].completed
        /\ host'[i].persisted = host[i].persisted
    BY <1>0, <1>6, ServeReturnsEffect
  <2>2. TypeOK'
    BY <1>0, <1>6, <1>e, <2>1 DEF ServeReturns, TypeOK
  <2>3. HolderHolds' /\ BoundAtPath' /\ OneProcess'
    BY <1>6, <1>a, <2>1 DEF ServeReturns, AuthorityInv, ImageInv, HolderHolds, BoundAtPath,
      OneProcess, Alive, Managed, Others
  <2>4. EndFollowsIntent'
    BY <1>6, <2>1 DEF ServeReturns, ImageInv, EndFollowsIntent, Alive, Others
  <2>5. ParentIsGone'
    BY <1>0, <2>1, ParentsKept DEF ImageInv, Others
  <2> QED BY <2>2, <2>3, <2>4, <2>5 DEF AuthorityInv, ImageInv
<1>7. CASE CompleteStop(i)
  <2>1. CASE At(i, "closing") /\ UNCHANGED receipt
    <3>1. TypeOK'
      BY <1>0, <1>7, <1>c, <1>e, <2>1 DEF CompleteStop, TypeOK
    <3> QED BY <1>0, <1>a, <1>7, <2>1, <3>1, MoveImages DEF CompleteStop, AuthorityInv, TypeOK
  <2>2. CASE /\ host[i].persisted
             /\ host' = [host EXCEPT ![i].pc = "completed", ![i].completed = TRUE]
             /\ receipt' = Receipt(host[i].req, i, "stop", "completed", None)
             /\ UNCHANGED load
    <3>1. /\ host' \in [Instances -> Hosts] /\ Others(i)
          /\ host'[i].pc = "completed" /\ host'[i].completed
          /\ host'[i].intent = host[i].intent /\ host'[i].parent = host[i].parent
          /\ host'[i].restarting = host[i].restarting
          /\ host'[i].persisted = host[i].persisted
      BY <1>0, <2>2, HostCompletes
    <3>6. receipt' \in Receipts
      BY <1>0, <1>b, <2>2, ReceiptTyped DEF Kinds
    <3>2. TypeOK'
      BY <1>0, <1>7, <2>2, <3>1, <3>6 DEF CompleteStop, TypeOK
    <3>3. HolderHolds' /\ BoundAtPath' /\ OneProcess'
      BY <1>7, <1>a, <3>1 DEF CompleteStop, AuthorityInv, ImageInv, HolderHolds, BoundAtPath,
        OneProcess, Alive, Managed, Others
    <3>4. EndFollowsIntent'
      BY <1>7, <2>2, <3>1 DEF CompleteStop, ImageInv, EndFollowsIntent, Alive, Others
    <3>5. ParentIsGone'
      BY <1>0, <1>7, <3>1, ParentsKept DEF CompleteStop, ImageInv, Others
    <3> QED BY <3>2, <3>3, <3>4, <3>5 DEF AuthorityInv, ImageInv
  <2> QED BY <1>7, <2>1, <2>2 DEF CompleteStop
<1>8. CASE StopServer(i)
  <2>1. TypeOK'
    BY <1>0, <1>8, <1>c DEF StopServer, TypeOK
  <2> QED BY <1>0, <1>a, <1>8, <2>1, MoveImages DEF StopServer, Ending, AuthorityInv, TypeOK
<1>9. CASE CloseServer(i)
  <2>1. call' \in [Deliveries -> Calls]
    <3>1. \A d \in Deliveries : [call[d] EXCEPT !.cut = TRUE] \in Calls
      BY <1>0 DEF Calls
    <3> QED BY <1>0, <1>9, <3>1 DEF CloseServer
  <2>2. TypeOK'
    BY <1>0, <1>9, <1>c, <1>e, <2>1 DEF CloseServer, TypeOK, Unlinked
  <2> QED BY <1>0, <1>a, <1>9, <2>2, MoveImages
          DEF CloseServer, AuthorityInv, TypeOK, Unlinked
<1>10. CASE Release(i)
  <2>1. CASE /\ At(i, "handoff") /\ UNCHANGED <<lock, call, load>>
             /\ receipt' = Receipt(host[i].req, i, "restart", "handoff", None)
             /\ host[i].restarting /\ hosting = "internal"
    <3>1. receipt' \in Receipts
      BY <1>0, <1>b, <2>1, ReceiptTyped DEF Kinds
    <3>2. TypeOK'
      BY <1>0, <1>10, <1>c, <2>1, <3>1 DEF Release, TypeOK
    <3> QED BY <1>0, <1>a, <1>10, <2>1, <3>2, MoveImages DEF Release, AuthorityInv, TypeOK
  <2>2. CASE Ended(i) /\ lock' = None
    <3>1. receipt' \in Receipts
      BY <1>0, <1>b, <1>10, ReceiptTyped DEF Release, Kinds
    <3>2. TypeOK'
      BY <1>0, <1>10, <1>d, <1>e, <2>2, <3>1 DEF Release, TypeOK
    <3>3. Alive(i) /\ lock' = Freed(i)
      BY <1>10, <1>a, <2>2 DEF Release, Alive, Freed
    <3> QED BY <1>10, <2>2, <3>2, <3>3, EndImages DEF Release, AuthorityInv
  <2> QED BY <1>10, <2>1, <2>2 DEF Release
<1>11. CASE _reexec(i)
  <2>1. ASSUME NEW j \in Instances, NextBorn(j), lock' = j, Threadless(i),
               UNCHANGED <<receipt, load>>,
               host' = [host EXCEPT ![i] = Gone(@),
                          ![j] = [Unborn EXCEPT !.pc = "inherited", !.parent = i,
                                                !.handoff = host[i].req]]
        PROVE  AuthorityInv' /\ ImageInv'
    <3>1. i # j /\ host[i].pc = "handoff" /\ host[j].pc = "unborn" /\ lock = i
      BY <1>a, <1>11, <2>1 DEF _reexec, NextBorn
    <3>2. /\ host' \in [Instances -> Hosts]
          /\ \A k \in Instances : k # i /\ k # j => host'[k] = host[k]
          /\ host'[i] = Gone(host[i]) /\ host'[j].pc = "inherited" /\ host'[j].parent = i
          /\ ~host'[j].restarting /\ ~host'[j].completed
      BY <1>0, <2>1, <3>1, ExecEffect
    <3>3. /\ host'[i].pc = "ended" /\ host'[i].completed = host[i].completed
          /\ host'[i].parent = host[i].parent
      BY <1>0, <3>2, HostGone
    <3>4. ~host[i].completed /\ hosting = "internal"
      BY <3>1 DEF ImageInv, EndFollowsIntent, Alive
    <3>5. TypeOK'
      BY <1>0, <1>11, <2>1, <3>2, ThreadlessEffect DEF _reexec, TypeOK, Images
    <3>6. HolderHolds' /\ BoundAtPath'
      BY <1>11, <2>1, <3>1, <3>2, <3>3 DEF _reexec, AuthorityInv, HolderHolds, BoundAtPath
    <3>7. OneProcess' /\ EndFollowsIntent'
      BY <1>11, <3>1, <3>2, <3>3, <3>4
      DEF _reexec, ImageInv, OneProcess, EndFollowsIntent, Alive, Managed
    <3>8. ParentIsGone'
      <4> SUFFICES ASSUME NEW k \in Instances, host'[k].parent # None
                   PROVE  /\ host'[host'[k].parent].pc = "ended"
                          /\ ~host'[host'[k].parent].completed
        BY DEF ParentIsGone, Over
      <4>1. CASE k = j
        BY <3>2, <3>3, <3>4, <4>1
      <4>2. CASE k # j
        <5> DEFINE q == host[k].parent
        <5>1. host'[k].parent = q
          BY <3>2, <3>3, <4>2
        <5>2. q \in Instances /\ host[q].pc = "ended" /\ ~host[q].completed
          BY <1>0, <5>1, HostTyped DEF ImageInv, ParentIsGone, Over, Images
        <5> QED BY <3>1, <3>2, <5>1, <5>2
      <4> QED BY <4>1, <4>2
    <3> QED BY <3>5, <3>6, <3>7, <3>8 DEF AuthorityInv, ImageInv
  <2>2. CASE /\ Fault \/ ((\A j \in Instances : ~NextBorn(j)) /\ UNCHANGED load)
             /\ receipt' = Receipt(host[i].req, i, "restart", "failed", None)
             /\ Ended(i) /\ lock' = None
    <3>1. receipt' \in Receipts
      BY <1>0, <1>b, <2>2, ReceiptTyped DEF Kinds
    <3>2. TypeOK'
      BY <1>0, <1>11, <1>d, <1>e, <2>2, <3>1 DEF _reexec, TypeOK
    <3>3. Alive(i) /\ lock' = Freed(i)
      BY <1>11, <1>a, <2>2 DEF _reexec, Alive, Freed
    <3> QED BY <1>11, <2>2, <3>2, <3>3, EndImages DEF _reexec, AuthorityInv
  <2> QED BY <1>11, <2>1, <2>2 DEF _reexec
<1> QED BY <1>1, <1>2, <1>3, <1>4, <1>5, <1>6, <1>7, <1>8, <1>9, <1>10, <1>11
        DEF OwnerStep

\* A signal preserves the invariant of the images.
LEMMA SIGTERMImages ==
  ASSUME AuthorityInv, ImageInv, NEW i \in Instances, SIGTERM(i),
         UNCHANGED <<hosting, path>>
  PROVE  HolderHolds' /\ BoundAtPath' /\ ImageInv' /\ lock' \in Images
<1>0. TypeOK /\ host \in [Instances -> Hosts] /\ lock \in Images /\ None \in Images
  BY DEF AuthorityInv, TypeOK, Images
<1>1. CASE Ended(i) /\ lock' = Freed(i)
  BY <1>0, <1>1, SIGTERMEffect, EndImages DEF Freed
<1>2. CASE UNCHANGED <<host, lock>>
  BY <1>0, <1>2 DEF AuthorityInv, ImageInv, HolderHolds, BoundAtPath, OneProcess,
    EndFollowsIntent, ParentIsGone, Alive, Over, Managed
<1>3. CASE UNCHANGED lock /\ Persist(i, request_lifecycle(host[i], "stop", Signal))
  <2> DEFINE h == request_lifecycle(host[i], "stop", Signal)
  <2>1. /\ h \in Hosts /\ h.pc = host[i].pc /\ h.restarting = host[i].restarting
        /\ h.parent = host[i].parent /\ h.completed = host[i].completed
        /\ host[i].intent # "none" => h.intent = host[i].intent
        /\ h.persisted = host[i].persisted
    BY <1>0, HostRequested DEF Kinds, Requests
  <2> HIDE DEF h
  <2>2. /\ host' \in [Instances -> Hosts] /\ Others(i) /\ host'[i].persisted
        /\ host'[i].pc = h.pc /\ SameRequest(host'[i], h)
    BY <1>0, <1>3, <2>1, PersistEffect DEF h
  <2> QED BY <1>0, <1>3, <2>1, <2>2, SIGTERMEffect, RequestImages DEF SameRequest, Alive
<1> QED BY <1>0, <1>1, <1>2, <1>3, SIGTERMEffect

\* An image is started while nobody holds the authority.
LEMMA SpawnedImages ==
  ASSUME AuthorityInv, ImageInv, NEW i \in Instances, host[i].pc = "unborn",
         At(i, "spawned"), Managed => \A j \in Instances : ~Alive(j),
         UNCHANGED <<hosting, lock, path>>
  PROVE  HolderHolds' /\ BoundAtPath' /\ ImageInv' /\ host' \in [Instances -> Hosts]
<1> USE HostAssumption DEF AuthorityInv, ImageInv, HolderHolds, BoundAtPath,
  Alive, Over, Held, Accepting, SignalOwned, HostPc, Images, Managed, Others, SameButPc
<1>1. host \in [Instances -> Hosts] /\ \A j \in Instances : host[j].parent \in Images
  BY HostTyped DEF TypeOK
<1>2. /\ host' \in [Instances -> Hosts] /\ Others(i)
      /\ host'[i].pc = "spawned" /\ SameButPc(host'[i], host[i])
  BY <1>1, AtMoves
<1>3. HolderHolds' /\ BoundAtPath'
  BY <1>2
<1>4. OneProcess'
  BY <1>2 DEF OneProcess
<1>5. EndFollowsIntent'
  BY <1>2 DEF EndFollowsIntent, Unborn
<1>6. ParentIsGone'
  BY <1>1, <1>2, ParentsKept
<1> QED BY <1>2, <1>3, <1>4, <1>5, <1>6

\* Starts, crashes and the operator's signals preserve the invariant.
LEMMA EnvironmentImages ==
  ASSUME AuthorityInv, ImageInv, NEW i \in Instances,
         _run_default_command(i) \/ Crash(i) \/ OperatorSIGTERM(i)
  PROVE  AuthorityInv' /\ ImageInv'
<1> USE HostAssumption
<1>0. TypeOK
  BY DEF AuthorityInv
<1>1. CASE _run_default_command(i)
  <2>1. /\ host[i].pc = "unborn" /\ At(i, "spawned")
        /\ Managed => \A j \in Instances : ~Alive(j)
        /\ UNCHANGED <<hosting, lock, path, receipt, client, call, load>>
    BY <1>1 DEF _run_default_command, RunAttached, _start_systemd, Spawn, NextBorn
  <2>2. HolderHolds' /\ BoundAtPath' /\ ImageInv' /\ host' \in [Instances -> Hosts]
    BY <2>1, SpawnedImages
  <2> QED BY <1>0, <2>1, <2>2 DEF TypeOK, AuthorityInv
<1>2. CASE Crash(i)
  <2>1. Alive(i) /\ Ended(i) /\ lock' = Freed(i) /\ UNCHANGED <<hosting, path, client, receipt>>
    BY <1>2 DEF Crash, Dies
  <2>2. host' \in [Instances -> Hosts] /\ call' \in [Deliveries -> Calls]
    BY <1>0, <2>1, EndedEffect DEF TypeOK
  <2>3. TypeOK'
    BY <1>0, <1>2, <2>1, <2>2 DEF TypeOK, Crash, Fault, Weighs, Freed, Images
  <2> QED BY <2>1, <2>3, EndImages DEF AuthorityInv
<1>3. CASE OperatorSIGTERM(i)
  <2>1. SIGTERM(i) /\ UNCHANGED <<hosting, path, client>>
    BY <1>3 DEF OperatorSIGTERM
  <2>2. /\ host' \in [Instances -> Hosts] /\ receipt' \in Receipts
        /\ call' \in [Deliveries -> Calls]
    BY <1>0, <2>1, SIGTERMEffect
  <2>3. HolderHolds' /\ BoundAtPath' /\ ImageInv' /\ lock' \in Images
    BY <2>1, SIGTERMImages
  <2>4. load' \in 0..MaxLoad
    BY <1>0, <1>3 DEF OperatorSIGTERM, Fault, Weighs, TypeOK
  <2> QED BY <1>0, <2>1, <2>2, <2>3, <2>4 DEF TypeOK, AuthorityInv
<1> QED BY <1>1, <1>2, <1>3

\* A handler thread preserves it, whose image is one that has begun.
LEMMA HandlerStepImages ==
  ASSUME AuthorityInv, ImageInv, CallsHandled, NEW d \in Deliveries, HandlerStep(d)
  PROVE  AuthorityInv' /\ ImageInv'
<1> USE HostAssumption
<1> DEFINE i == call[d].at
<1>0. /\ TypeOK /\ host \in [Instances -> Hosts] /\ call \in [Deliveries -> Calls]
      /\ call[d] \in Calls
  BY DEF AuthorityInv, TypeOK
<1>1. /\ i \in Instances /\ host[i] \in Hosts /\ call[d].kind \in Kinds
      /\ d[1] \in Requests /\ host[i].pc # "unborn"
  BY <1>0, CallTyped DEF CallsHandled, HandlerStep, RecordIntent, WriteAccepted, Deliveries,
    Requests, Begun
<1>2. None \in Requests /\ Error(d) \in Calls
  <2>1. None \in Requests
    BY DEF Requests
  <2> QED BY <1>0, <2>1, Settled DEF Error
<1>3. CASE RecordIntent(d)
  <2>1. CASE call' = [call EXCEPT ![d] = Error(d)] /\ UNCHANGED host
    <3>1. TypeOK'
      BY <1>0, <1>2, <1>3, <2>1 DEF RecordIntent, TypeOK
    <3> QED BY <1>0, <1>1, <1>3, <2>1, <3>1, RequestImages DEF RecordIntent, Others, AuthorityInv
  <2>2. CASE /\ call' = [call EXCEPT ![d].pc = "recorded"]
             /\ host' = [host EXCEPT ![i] = request_lifecycle(@, call[d].kind, d[1])]
    <3> DEFINE h == request_lifecycle(host[i], call[d].kind, d[1])
    <3>1. /\ h \in Hosts /\ h.pc = host[i].pc /\ h.restarting = host[i].restarting
          /\ h.parent = host[i].parent /\ h.completed = host[i].completed
          /\ host[i].intent # "none" => h.intent = host[i].intent
          /\ h.persisted = host[i].persisted
      BY <1>1, HostRequested
    <3>2. host' = [host EXCEPT ![i] = h]
      BY <2>2
    <3> HIDE DEF h
    <3>3. host' \in [Instances -> Hosts] /\ Others(i) /\ host'[i] = h
      BY <1>0, <1>1, <3>1, <3>2 DEF Others
    <3>4. call' \in [Deliveries -> Calls]
      <4>1. [call[d] EXCEPT !.pc = "recorded"] \in Calls
        BY <1>0 DEF Calls
      <4> QED BY <1>0, <2>2, <4>1
    <3>5. TypeOK'
      BY <1>0, <1>3, <3>3, <3>4 DEF RecordIntent, TypeOK
    <3> QED BY <1>1, <1>3, <3>1, <3>3, <3>5, RequestImages DEF RecordIntent, AuthorityInv
  <2> QED BY <1>3, <2>1, <2>2 DEF RecordIntent
<1>4. CASE WriteAccepted(d)
  <2>1. CASE /\ Persist(i, host[i]) /\ UNCHANGED load
             /\ call' = [call EXCEPT ![d] = Settle(d, "answered", host[i].req)]
    <3>1. /\ host' \in [Instances -> Hosts] /\ Others(i)
          /\ host'[i].pc = host[i].pc /\ SameRequest(host'[i], host[i])
          /\ receipt' \in Receipts /\ host'[i].persisted
      BY <1>0, <1>1, <2>1, PersistEffect
    <3>2. call' \in [Deliveries -> Calls]
      <4>1. host[i].req \in Requests
        BY <1>1, HostTyped
      <4>2. Settle(d, "answered", host[i].req) \in Calls
        BY <1>0, <4>1, Settled
      <4> QED BY <1>0, <2>1, <4>2
    <3>3. TypeOK'
      BY <1>0, <1>4, <2>1, <3>1, <3>2 DEF WriteAccepted, TypeOK
    <3> QED BY <1>1, <1>4, <3>1, <3>3, RequestImages
            DEF WriteAccepted, SameRequest, AuthorityInv
  <2>2. CASE /\ Fault /\ call' = [call EXCEPT ![d] = Error(d)]
             /\ UNCHANGED <<host, receipt>>
    <3>1. TypeOK'
      BY <1>0, <1>2, <1>4, <2>2 DEF WriteAccepted, TypeOK, Fault, Weighs
    <3> QED BY <1>0, <1>1, <1>4, <2>2, <3>1, RequestImages
            DEF WriteAccepted, Others, AuthorityInv
  <2> QED BY <1>4, <2>1, <2>2 DEF WriteAccepted
<1> QED BY <1>3, <1>4 DEF HandlerStep

-----------------------------------------------------------------------------
\* The steps of a client, on its own record.

\* A command is given.
LEMMA CommandEffect ==
  ASSUME TypeOK, NEW c \in Clients, NEW kind \in Kinds, NEW force \in BOOLEAN,
         _lifecycle_service(c, kind, force)
  PROVE  /\ client' \in [Clients -> Commands] /\ OtherClients(c)
         /\ client'[c].pc = "sysstop" => Managed /\ client'[c].kind = "restart"
         /\ client'[c].pc \in {"sysstop", "asking"} /\ client'[c].attempt = 1
         /\ client'[c].inst = client[c].inst /\ client'[c].told = client[c].told
         /\ client'[c].seen = client[c].seen
<1>0. client \in [Clients -> Commands] /\ client[c] \in Commands
  BY DEF TypeOK
<1> DEFINE p == IF ManagedOwner /\ kind = "restart" /\ ~force THEN "sysstop" ELSE "asking"
           k == [client[c] EXCEPT !.kind = kind, !.force = force, !.attempt = 1, !.pc = p]
<1>1. p \in {"sysstop", "asking"} /\ (p = "sysstop" => Managed /\ kind = "restart")
  BY DEF ManagedOwner
<1>2. client' = [client EXCEPT ![c] = k]
  BY DEF _lifecycle_service
<1> HIDE DEF p
<1>3. /\ k \in Commands /\ k.pc = p /\ k.kind = kind /\ k.attempt = 1
      /\ k.inst = client[c].inst /\ k.told = client[c].told /\ k.seen = client[c].seen
  <2> DEFINE one == 1
  <2>1. one \in 0..2
    OBVIOUS
  <2> HIDE DEF one
  <2>2. LET g == [client[c] EXCEPT !.kind = kind, !.force = force, !.attempt = one, !.pc = p]
        IN  /\ g \in Commands /\ g.pc = p /\ g.kind = kind /\ g.attempt = one
            /\ g.inst = client[c].inst /\ g.told = client[c].told
            /\ g.seen = client[c].seen
    BY <1>0, <1>1, <2>1 DEF Commands
  <2> QED BY <2>2 DEF one
<1>4. client' \in [Clients -> Commands] /\ OtherClients(c) /\ client'[c] = k
  BY <1>0, <1>2, <1>3 DEF OtherClients
<1> QED BY <1>1, <1>3, <1>4

\* The delivery is lost: once more, or the outcome is uncertain.
LEMMA ReplayEffect ==
  ASSUME TypeOK, NEW c \in Clients, Replay(c)
  PROVE  /\ client' \in [Clients -> Commands] /\ OtherClients(c)
         /\ \/ /\ client'[c].pc = "asking" /\ client'[c].attempt = 2
               /\ client'[c].inst = client[c].inst /\ client'[c].told = client[c].told
               /\ client'[c].seen = client[c].seen
            \/ Told(c, "error")
<1>0. client \in [Clients -> Commands] /\ client[c] \in Commands
  BY DEF TypeOK
<1> DEFINE k == [client[c] EXCEPT !.pc = "asking", !.attempt = 2]
<1>1. CASE client' = [client EXCEPT ![c].pc = "asking", ![c].attempt = 2]
  <2>1. client' = [client EXCEPT ![c] = k]
    BY <1>1
  <2>2. /\ k \in Commands /\ k.pc = "asking" /\ k.attempt = 2
        /\ k.inst = client[c].inst /\ k.told = client[c].told /\ k.seen = client[c].seen
    <3> DEFINE two == 2
    <3>1. two \in 0..2
      OBVIOUS
    <3> HIDE DEF two
    <3>2. LET g == [client[c] EXCEPT !.pc = "asking", !.attempt = two]
          IN  /\ g \in Commands /\ g.pc = "asking" /\ g.attempt = two
              /\ g.inst = client[c].inst /\ g.told = client[c].told
              /\ g.seen = client[c].seen
      BY <1>0, <3>1 DEF Commands
    <3> QED BY <3>2 DEF two
  <2>3. client' \in [Clients -> Commands] /\ OtherClients(c) /\ client'[c] = k
    BY <1>0, <2>1, <2>2 DEF OtherClients
  <2> QED BY <2>2, <2>3
<1>2. CASE Told(c, "error")
  BY <1>2, ToldEffect DEF TypeOK
<1> QED BY <1>1, <1>2 DEF Replay

\* An answer arrives.
LEMMA ReceiveEffect ==
  ASSUME TypeOK, NEW c \in Clients, Receive(c), Delivery(c) \in Calls
  PROVE  /\ client' \in [Clients -> Commands] /\ OtherClients(c)
         /\ \/ Told(c, "error") \/ Told(c, "requested")
            \/ /\ Delivery(c).pc = "answered"
               /\ client'[c].inst = Delivery(c).at /\ client'[c].req = Delivery(c).req
               /\ client'[c].kind = client[c].kind /\ client'[c].saw = client[c].saw
               /\ client'[c].repl = client[c].repl /\ client'[c].seen = client[c].seen
               /\ client'[c].told = client[c].told
               /\ \/ client'[c].pc = "sysstop" /\ Managed
                  \/ client'[c].pc = "restartread" /\ client[c].kind = "restart"
                  \/ client'[c].pc = "stopwait" /\ client[c].kind = "stop"
<1>0. client \in [Clients -> Commands] /\ client[c] \in Commands
  BY DEF TypeOK
<1> DEFINE d == Delivery(c)
           p == IF Managed THEN "sysstop"
                ELSE IF client[c].kind = "restart" THEN "restartread" ELSE "stopwait"
           k == [client[c] EXCEPT !.inst = d.at, !.req = d.req, !.pc = p]
<1>1. CASE Told(c, "error") \/ Told(c, "requested")
  BY <1>1, ToldEffect DEF TypeOK
<1>2. CASE /\ d.pc = "answered"
           /\ client' = [client EXCEPT ![c].inst = d.at, ![c].req = d.req, ![c].pc = p]
  <2>1. /\ p \in {"sysstop", "restartread", "stopwait"}
        /\ \/ p = "sysstop" /\ Managed
           \/ p = "restartread" /\ client[c].kind = "restart"
           \/ p = "stopwait" /\ client[c].kind = "stop"
    BY ClientTyped DEF TypeOK, Kinds
  <2>2. d.at \in Images /\ d.req \in Requests
    BY CallTyped
  <2>3. client' = [client EXCEPT ![c] = k]
    BY <1>2
  <2> HIDE DEF p, d
  <2>4. /\ k \in Commands /\ k.pc = p /\ k.inst = d.at /\ k.req = d.req
        /\ k.kind = client[c].kind /\ k.saw = client[c].saw /\ k.repl = client[c].repl
        /\ k.told = client[c].told /\ k.seen = client[c].seen
    BY <1>0, <2>1, <2>2 DEF Commands
  <2>5. client' \in [Clients -> Commands] /\ OtherClients(c) /\ client'[c] = k
    BY <1>0, <2>3, <2>4 DEF OtherClients
  <2> QED BY <1>2, <2>1, <2>4, <2>5 DEF d
<1> QED BY <1>1, <1>2 DEF Receive

\* A round of the wait for a restart reads the receipt.
LEMMA RestartReadEffect ==
  ASSUME TypeOK, NEW c \in Clients, RestartRead(c)
  PROVE  /\ client' \in [Clients -> Commands] /\ OtherClients(c)
         /\ \/ Told(c, "error")
            \/ /\ client'[c].pc = "restartping"
               /\ client'[c].saw = "completed" =>
                    Matches(c, "completed") /\ client'[c].repl = receipt.repl
               /\ client'[c].kind = client[c].kind /\ client'[c].inst = client[c].inst
               /\ client'[c].told = client[c].told /\ client'[c].seen = client[c].seen
<1>0. client \in [Clients -> Commands] /\ client[c] \in Commands
  BY DEF TypeOK
<1> DEFINE s == IF Matches(c, "completed") THEN "completed"
                ELSE IF Matches(c, "handoff") THEN "handoff" ELSE "none"
           r == IF s = "completed" THEN receipt.repl ELSE None
           a == client[c].armed \/ s # "none"
           k == [client[c] EXCEPT !.pc = "restartping", !.saw = s, !.repl = r, !.armed = a]
<1>1. CASE Told(c, "error")
  BY <1>1, ToldEffect DEF TypeOK
<1>2. CASE client' = [client EXCEPT ![c].pc = "restartping", ![c].saw = s,
                        ![c].repl = r, ![c].armed = (@ \/ s # "none")]
  <2>1. /\ s \in {"none", "handoff", "completed"} /\ a \in BOOLEAN
        /\ s = "completed" => Matches(c, "completed") /\ r = receipt.repl
    OBVIOUS
  <2>2. r \in Images
    BY DEF TypeOK, Receipts, Images
  <2>3. client' = [client EXCEPT ![c] = k]
    BY <1>2
  <2> HIDE DEF s, r, a
  <2>4. /\ k \in Commands /\ k.pc = "restartping" /\ k.saw = s /\ k.repl = r
        /\ k.kind = client[c].kind /\ k.inst = client[c].inst
        /\ k.told = client[c].told /\ k.seen = client[c].seen
    BY <1>0, <2>1, <2>2 DEF Commands
  <2>5. client' \in [Clients -> Commands] /\ OtherClients(c) /\ client'[c] = k
    BY <1>0, <2>3, <2>4 DEF OtherClients
  <2> QED BY <2>1, <2>4, <2>5
<1> QED BY <1>1, <1>2 DEF RestartRead

\* The service manager is asked to stop the unit, whose process is i.
LEMMA SystemdStopEffect ==
  ASSUME TypeOK, NEW c \in Clients, NEW i \in Images,
         client' = [client EXCEPT
            ![c].pc = IF client[c].kind = "stop" THEN "sysgone" ELSE "sysdown",
            ![c].inst = IF @ = None THEN lock ELSE @,
            ![c].repl = i]
  PROVE  /\ client' \in [Clients -> Commands] /\ OtherClients(c)
         /\ \/ client'[c].pc = "sysgone" /\ client[c].kind = "stop"
            \/ client'[c].pc = "sysdown"
         /\ client'[c].inst = IF client[c].inst = None THEN lock ELSE client[c].inst
         /\ client'[c].repl = i
         /\ client'[c].told = client[c].told /\ client'[c].seen = client[c].seen
<1>0. client \in [Clients -> Commands] /\ client[c] \in Commands
  BY DEF TypeOK
<1> DEFINE p == IF client[c].kind = "stop" THEN "sysgone" ELSE "sysdown"
           x == IF client[c].inst = None THEN lock ELSE client[c].inst
           k == [client[c] EXCEPT !.pc = p, !.inst = x, !.repl = i]
<1>1. p \in {"sysgone", "sysdown"} /\ (p = "sysgone" => client[c].kind = "stop")
  OBVIOUS
<1>2. x \in Images
  BY ClientTyped DEF TypeOK
<1>3. client' = [client EXCEPT ![c] = k]
  OBVIOUS
<1> HIDE DEF p, x
<1>4. /\ k \in Commands /\ k.pc = p /\ k.inst = x /\ k.repl = i
      /\ k.told = client[c].told /\ k.seen = client[c].seen
  BY <1>0, <1>1, <1>2 DEF Commands
<1>5. client' \in [Clients -> Commands] /\ OtherClients(c) /\ client'[c] = k
  <2> HIDE DEF k
  <2> QED BY <1>0, <1>3, <1>4 DEF OtherClients
<1> QED BY <1>1, <1>4, <1>5 DEF x

\* A request is delivered, or nobody listens.
LEMMA RequestOnceEffect ==
  ASSUME TypeOK, NEW c \in Clients, client[c].attempt \in {1, 2}, _request_once(c)
  PROVE  /\ call' \in [Deliveries -> Calls]
         /\ client' \in [Clients -> Commands] /\ OtherClients(c)
         /\ \/ Told(c, "error") /\ UNCHANGED call
            \/ /\ Go(c, "awaiting") /\ path \in Instances /\ Listening(path)
               /\ \A d \in Deliveries :
                    \/ call'[d] = call[d]
                    \/ call'[d].pc \in {"admitted", "dropped"} /\ call'[d].at = path
<1>0. /\ call \in [Deliveries -> Calls] /\ client \in [Clients -> Commands]
      /\ client[c].kind \in Kinds /\ client[c].force \in BOOLEAN /\ path \in Images
  BY ClientTyped DEF TypeOK
<1>1. CASE InUse
  <2> DEFINE d == <<c, client[c].attempt>>
  <2>1. d \in Deliveries
    BY DEF Deliveries
  <2>2. path \in Instances /\ Listening(path)
    BY <1>0, <1>1 DEF InUse, Images
  <2>3. PICK p \in {"admitted", "dropped"} :
          call' = [call EXCEPT ![d] = [NoCall EXCEPT !.pc = p, !.at = path,
                     !.kind = client[c].kind, !.force = client[c].force]]
    BY <1>1 DEF _request_once
  <2> DEFINE k == [NoCall EXCEPT !.pc = p, !.at = path,
                     !.kind = client[c].kind, !.force = client[c].force]
  <2>4. k \in Calls /\ k.pc = p /\ k.at = path
    BY <1>0, NoCallTyped DEF Calls
  <2> HIDE DEF d, k
  <2>5. /\ call' \in [Deliveries -> Calls] /\ call'[d] = k
        /\ \A e \in Deliveries : e # d => call'[e] = call[e]
    BY <1>0, <2>1, <2>3, <2>4 DEF k
  <2>6. Go(c, "awaiting")
    BY <1>1 DEF _request_once
  <2> QED BY <1>0, <2>2, <2>4, <2>5, <2>6, GoEffect
<1>2. CASE ~InUse
  BY <1>0, <1>2, ToldEffect DEF _request_once
<1> QED BY <1>1, <1>2

\* A delivery is taken by its client.
LEMMA TakenEffect ==
  ASSUME call \in [Deliveries -> Calls], NEW c \in Clients, client[c].attempt \in {1, 2},
         Taken(c)
  PROVE  /\ call' \in [Deliveries -> Calls] /\ Delivery(c) \in Calls
         /\ <<c, client[c].attempt>> \in Deliveries
         /\ \A d \in Deliveries :
              \/ call'[d] = call[d]
              \/ call'[d] = NoCall /\ call[d].pc \notin Running
<1> DEFINE d == <<c, client[c].attempt>>
<1>1. d \in Deliveries
  BY DEF Deliveries
<1>2. call' = [call EXCEPT ![d] = IF call[d].pc \in Running THEN call[d] ELSE NoCall]
  BY DEF Taken
<1>3. Delivery(c) \in Calls
  BY <1>1 DEF Delivery
<1> HIDE DEF d
<1>4. /\ call' \in [Deliveries -> Calls]
      /\ \A e \in Deliveries :
           \/ call'[e] = call[e]
           \/ call'[e] = NoCall /\ call[e].pc \notin Running
  BY <1>1, <1>2, NoCallTyped
<1> QED BY <1>1, <1>3, <1>4 DEF d

\* A step that leaves the images and the authority alone.
LEMMA ImagesKept ==
  ASSUME HolderHolds, BoundAtPath, ImageInv, UNCHANGED <<hosting, host, lock, path>>
  PROVE  HolderHolds' /\ BoundAtPath' /\ ImageInv'
  BY DEF HolderHolds, BoundAtPath, ImageInv, OneProcess, EndFollowsIntent, ParentIsGone,
    Alive, Over, Managed

\* A client's step preserves the invariant of the images.
LEMMA ClientStepImages ==
  ASSUME AuthorityInv, ImageInv, ClientsKnow, NEW c \in Clients,
         \/ ClientStep(c)
         \/ \E kind \in Kinds, force \in BOOLEAN : _lifecycle_service(c, kind, force)
  PROVE  AuthorityInv' /\ ImageInv'
<1> USE HostAssumption
<1>0. /\ TypeOK /\ HolderHolds /\ BoundAtPath /\ host \in [Instances -> Hosts]
      /\ call \in [Deliveries -> Calls] /\ client \in [Clients -> Commands]
      /\ path \in Images /\ load \in 0..MaxLoad
  BY DEF AuthorityInv, TypeOK
<1>a. client[c].pc \in {"asking", "awaiting"} => client[c].attempt \in {1, 2}
  BY DEF ClientsKnow, ClientKnows
<1>b. ASSUME client' \in [Clients -> Commands], call' \in [Deliveries -> Calls],
             load' \in 0..MaxLoad, UNCHANGED <<hosting, host, lock, path, receipt>>
      PROVE  AuthorityInv' /\ ImageInv'
  <2>1. TypeOK'
    BY <1>0, <1>b DEF TypeOK
  <2> QED BY <1>0, <1>b, <2>1, ImagesKept DEF AuthorityInv
<1>c. ASSUME client' \in [Clients -> Commands], Restored
      PROVE  AuthorityInv' /\ ImageInv'
  BY <1>0, <1>b, <1>c DEF Restored
<1>1. ASSUME NEW kind \in Kinds, NEW force \in BOOLEAN, _lifecycle_service(c, kind, force)
      PROVE  AuthorityInv' /\ ImageInv'
  <2>1. client' \in [Clients -> Commands]
    BY <1>0, <1>1, CommandEffect
  <2>2. load' \in 0..MaxLoad
    <3>1. Weighs(2)
      BY <1>1 DEF _lifecycle_service
    <3> QED BY <1>0, <3>1 DEF Weighs
  <2> QED BY <1>0, <1>1, <1>b, <2>1, <2>2 DEF _lifecycle_service
<1>2. CASE _request_once(c)
  <2>1. client' \in [Clients -> Commands] /\ call' \in [Deliveries -> Calls]
    BY <1>0, <1>a, <1>2, RequestOnceEffect DEF _request_once
  <2> QED BY <1>0, <1>2, <1>b, <2>1 DEF _request_once
<1>3. CASE Replay(c)
  <2>1. client' \in [Clients -> Commands]
    BY <1>0, <1>3, ReplayEffect
  <2>2. call' \in [Deliveries -> Calls] /\ load' \in 0..MaxLoad
    <3>1. call' \in [Deliveries -> Calls]
      BY <1>0, <1>a, <1>3, TakenEffect DEF Replay
    <3>2. UNCHANGED load \/ Weighs(1)
      BY <1>3 DEF Replay, Fault
    <3> QED BY <1>0, <3>1, <3>2 DEF Weighs
  <2> QED BY <1>3, <1>b, <2>1, <2>2 DEF Replay
<1>4. CASE Receive(c)
  <2>1. call' \in [Deliveries -> Calls] /\ Delivery(c) \in Calls
    BY <1>0, <1>a, <1>4, TakenEffect DEF Receive
  <2>2. client' \in [Clients -> Commands]
    BY <1>0, <1>4, <2>1, ReceiveEffect
  <2> QED BY <1>0, <1>4, <1>b, <2>1, <2>2 DEF Receive
<1>5. CASE StopPoll(c)
  BY <1>0, <1>5, <1>c, GoEffect DEF StopPoll
<1>6. CASE StopCheck(c)
  BY <1>0, <1>6, <1>c, ToldEffect DEF StopCheck
<1>7. CASE RestartRead(c)
  BY <1>0, <1>7, <1>c, RestartReadEffect DEF RestartRead
<1>8. CASE RestartPing(c)
  BY <1>0, <1>8, <1>c, ToldEffect, ToldRestartedEffect, GoEffect DEF RestartPing
<1>9. CASE RestartDeadline(c)
  BY <1>0, <1>9, <1>c, ToldEffect DEF RestartDeadline
<1>10. CASE SystemdStop(c)
  <2>1. PICK i \in Images :
          /\ client' = [client EXCEPT
               ![c].pc = IF client[c].kind = "stop" THEN "sysgone" ELSE "sysdown",
               ![c].inst = IF @ = None THEN lock ELSE @,
               ![c].repl = i]
          /\ IF i = None THEN UNCHANGED <<host, lock, receipt, call>> ELSE SIGTERM(i)
    BY <1>10 DEF SystemdStop, Images
  <2>2. client' \in [Clients -> Commands]
    BY <1>0, <2>1, SystemdStopEffect
  <2>3. CASE i = None
    BY <1>0, <1>b, <1>10, <2>1, <2>2, <2>3 DEF SystemdStop
  <2>4. CASE i # None
    <3>1. i \in Instances /\ SIGTERM(i)
      BY <2>1, <2>4 DEF Images
    <3>2. /\ host' \in [Instances -> Hosts] /\ receipt' \in Receipts
          /\ call' \in [Deliveries -> Calls]
      BY <1>0, <3>1, SIGTERMEffect
    <3>3. HolderHolds' /\ BoundAtPath' /\ ImageInv' /\ lock' \in Images
      BY <1>10, <3>1, SIGTERMImages DEF SystemdStop
    <3> QED BY <1>0, <1>10, <2>2, <3>2, <3>3 DEF SystemdStop, TypeOK, AuthorityInv
  <2> QED BY <2>3, <2>4
<1>11. CASE _wait_for_runtime_stop(c)
  BY <1>0, <1>11, <1>c, ToldEffect DEF _wait_for_runtime_stop
<1>12. CASE SystemdStart(c)
  <2>1. client' \in [Clients -> Commands]
    BY <1>0, <1>12, GoEffect DEF SystemdStart
  <2>2. CASE UNCHANGED host
    BY <1>0, <1>12, <1>b, <2>1, <2>2 DEF SystemdStart
  <2>3. ASSUME NEW i \in Instances, NextBorn(i), At(i, "spawned"),
               \A j \in Instances : ~Alive(j)
        PROVE  AuthorityInv' /\ ImageInv'
    <3>1. HolderHolds' /\ BoundAtPath' /\ ImageInv' /\ host' \in [Instances -> Hosts]
      BY <1>12, <2>3, SpawnedImages DEF SystemdStart, NextBorn
    <3> QED BY <1>0, <1>12, <2>1, <3>1 DEF SystemdStart, TypeOK, AuthorityInv
  <2> QED BY <1>12, <2>2, <2>3 DEF SystemdStart
<1>13. CASE wait_ready(c)
  BY <1>0, <1>13, <1>c, ToldEffect, ToldRestartedEffect DEF wait_ready
<1> QED BY <1>1, <1>2, <1>3, <1>4, <1>5, <1>6, <1>7, <1>8, <1>9, <1>10, <1>11, <1>12,
           <1>13 DEF ClientStep

-----------------------------------------------------------------------------
\* What no step undoes, and the handlers.

\* An image that has begun stays so and keeps its parent; what is over stays.
StableImages ==
  \A i \in Instances :
    /\ Begun(i) => host'[i].pc \notin {"unborn", "spawned"}
    /\ host[i].pc # "unborn" => host'[i].pc # "unborn" /\ host'[i].parent = host[i].parent
    /\ Over(i) => /\ host'[i].pc = "ended" /\ host'[i].completed = host[i].completed
                  /\ host'[i].joined = host[i].joined

\* A living image keeps the request that counts.
StableRequests ==
  \A i \in Instances :
    Alive(i) /\ host[i].intent # "none" /\ host'[i].pc # "ended" =>
      host'[i].intent = host[i].intent /\ host'[i].req = host[i].req

\* After a step, a single stop that is complete is reported by the receipt, if
\* the receipt is this image's.
StableReceipt ==
  \A i \in Instances :
    Begun(i) /\ host'[i].completed /\ ~host'[i].joined /\ receipt'.inst = i =>
      \/ UNCHANGED receipt /\ host[i].completed /\ ~host[i].joined
      \/ /\ Alive(i) /\ receipt'.req = host[i].req
         /\ receipt'.action = "stop" /\ receipt'.state = "completed"

StepFacts == StableImages /\ StableRequests /\ StableReceipt /\ RestartReceipt'

\* Nobody gets a second acceptance to write: an image's part in OneWriter is
\* as before, or nothing of it is left.
LEMMA WritersKept ==
  ASSUME OneWriter,
         \A j \in Instances :
           \/ /\ host'[j].intent = host[j].intent /\ host'[j].joined = host[j].joined
              /\ host'[j].persisted = host[j].persisted
              /\ \A d \in Deliveries :
                   call'[d].pc = "recorded" /\ call'[d].at = j =>
                     call[d].pc = "recorded" /\ call[d].at = j
           \/ /\ host'[j].intent = "none" /\ ~host'[j].persisted
              /\ \A d \in Deliveries : ~(call'[d].pc = "recorded" /\ call'[d].at = j)
  PROVE  OneWriter'
  BY DEF OneWriter, Recorded

\* Deliveries that stay as they are are handled by images that live on.
LEMMA CallsKept ==
  ASSUME CallsHandled,
         \A d \in Deliveries : call'[d].pc = call[d].pc /\ call'[d].at = call[d].at,
         \A j \in Instances :
           /\ Begun(j) => host'[j].pc \notin {"unborn", "spawned"}
           /\ Alive(j) => host'[j].pc \notin {"unborn", "ended"}
  PROVE  CallsHandled'
  BY DEF CallsHandled, Running, Begun, Alive

\* A move of the owner thread, whatever it does to the receipt.
LEMMA MoveFacts ==
  ASSUME AuthorityInv, ImageInv, HandlerInv, NEW i \in Instances,
         NEW p \in HostPc \ {"unborn", "spawned", "ended"}, At(i, p), Alive(i),
         \A d \in Deliveries : call'[d].pc = call[d].pc /\ call'[d].at = call[d].at
  PROVE  StableImages /\ StableRequests /\ HandlerInv'
<1> USE DEF Others, SameButPc, Alive, Over, Begun
<1>1. /\ host' \in [Instances -> Hosts] /\ Others(i)
      /\ host'[i].pc = p /\ SameButPc(host'[i], host[i])
  BY AtMoves DEF AuthorityInv, TypeOK
<1>2. StableImages /\ StableRequests
  BY <1>1 DEF StableImages, StableRequests
<1>3. CallsHandled'
  BY <1>1 DEF HandlerInv, CallsHandled, Running
<1>4. OneWriter'
  BY <1>1, WritersKept DEF HandlerInv
<1> QED BY <1>2, <1>3, <1>4 DEF HandlerInv

\* The end of a living image, whatever it does to the receipt.
LEMMA EndFacts ==
  ASSUME AuthorityInv, ImageInv, HandlerInv, NEW i \in Instances, Alive(i), Ended(i)
  PROVE  StableImages /\ StableRequests /\ HandlerInv'
<1> USE DEF Others, Alive, Over, Begun
<1>0. call \in [Deliveries -> Calls] /\ host \in [Instances -> Hosts] /\ host[i] \in Hosts
  BY DEF AuthorityInv, TypeOK
<1>1. /\ host' \in [Instances -> Hosts] /\ Others(i) /\ host'[i] = Gone(host[i])
      /\ \A d \in Deliveries :
           IF call[d].at = i /\ call[d].pc \in Running
           THEN call'[d].pc \in {"none", "dropped"}
                /\ (call'[d].pc = "dropped" => call'[d].at = i)
           ELSE call'[d] = call[d]
  BY <1>0, EndedEffect
<1>2. /\ host'[i].pc = "ended" /\ host'[i].parent = host[i].parent
      /\ host'[i].completed = host[i].completed /\ host'[i].joined = host[i].joined
      /\ host'[i].intent = "none" /\ ~host'[i].persisted
  BY <1>0, <1>1, HostGone
<1>3. StableImages /\ StableRequests
  BY <1>1, <1>2 DEF StableImages, StableRequests
<1>4. CallsHandled'
  BY <1>1, <1>2 DEF HandlerInv, CallsHandled, Running
<1>5. OneWriter'
  <2>1. \A d \in Deliveries : ~(call'[d].pc = "recorded" /\ call'[d].at = i)
    BY <1>1 DEF Running
  <2>2. \A d \in Deliveries : call'[d].pc = "recorded" => call'[d] = call[d]
    BY <1>1 DEF Running
  <2> QED BY <1>1, <1>2, <2>1, <2>2, WritersKept DEF HandlerInv
<1> QED BY <1>3, <1>4, <1>5 DEF HandlerInv

\* The receipt is left alone, and no image completes a stop.
LEMMA ReceiptKept ==
  ASSUME StableImages, RestartReceipt, UNCHANGED receipt,
         \A i \in Instances : Begun(i) =>
           /\ host'[i].completed => host[i].completed
           /\ ~host'[i].joined => ~host[i].joined
  PROVE  StableReceipt /\ RestartReceipt'
<1>1. StableReceipt
  BY DEF StableReceipt
<1>2. RestartReceipt'
  BY DEF StableImages, RestartReceipt, Begun
<1> QED BY <1>1, <1>2

\* The receipt is written for an image that has not completed a stop, and is
\* not that of a completed restart.
LEMMA ReceiptWritten ==
  ASSUME NEW q \in Images, NEW req \in Requests, NEW action \in Kinds \cup {"none"},
         NEW state \in {"accepted", "handoff", "failed"},
         receipt' = Receipt(req, q, action, state, None),
         q \in Instances => ~host'[q].completed
  PROVE  StableReceipt /\ RestartReceipt'
<1>1. receipt'.inst = q /\ receipt'.state = state
  BY ReceiptTyped DEF Images
<1> QED BY <1>1, HostAssumption DEF StableReceipt, RestartReceipt, Images

\* A failed hand-off is written for the parent, which completed no stop.
LEMMA HandoffReceipt ==
  ASSUME AuthorityInv, ImageInv, StableImages, RestartReceipt, NEW i \in Instances,
         receipt' = HandoffFailed(i),
         \A j \in Instances : Begun(j) =>
           host'[j].completed = host[j].completed /\ host'[j].joined = host[j].joined
  PROVE  StableReceipt /\ RestartReceipt'
<1>1. CASE host[i].parent = None
  BY <1>1, ReceiptKept DEF HandoffFailed
<1>2. CASE host[i].parent # None
  <2> DEFINE q == host[i].parent
  <2>1. /\ q \in Images /\ host[i].handoff \in Requests /\ q \in Instances
        /\ receipt' = Receipt(host[i].handoff, q, "restart", "failed", None)
    BY <1>2, HostTyped DEF AuthorityInv, TypeOK, HandoffFailed, Images
  <2>2. Over(q) /\ ~host[q].completed
    BY <1>2 DEF ImageInv, ParentIsGone
  <2>3. ~host'[q].completed
    BY <2>1, <2>2 DEF StableImages
  <2> QED BY <2>1, <2>3, ReceiptWritten DEF Kinds
<1> QED BY <1>1, <1>2

\* What the owner thread does.
LEMMA OwnerStepFacts ==
  ASSUME AuthorityInv, ImageInv, HandlerInv, RestartReceipt, NEW i \in Instances,
         OwnerStep(i)
  PROVE  StepFacts /\ HandlerInv'
<1> USE DEF HostPc, SignalOwned, Alive, Begun
<1>0. /\ host \in [Instances -> Hosts] /\ host[i] \in Hosts
      /\ call \in [Deliveries -> Calls] /\ TypeOK
      /\ host[i].req \in Requests /\ host[i].handoff \in Requests
      /\ host[i].parent \in Images /\ i \in Images /\ None \in Images
  BY HostTyped DEF AuthorityInv, TypeOK, Images
<1>a. ASSUME NEW p \in HostPc, At(i, p)
      PROVE  \A j \in Instances :
               host'[j].completed = host[j].completed /\ host'[j].joined = host[j].joined
  BY <1>0, <1>a, AtMoves DEF Others, SameButPc
<1>b. ASSUME Ended(i)
      PROVE  \A j \in Instances :
               host'[j].completed = host[j].completed /\ host'[j].joined = host[j].joined
  BY <1>0, <1>b, EndedEffect, HostGone DEF Others
<1>c. ASSUME UNCHANGED call
      PROVE  \A d \in Deliveries : call'[d].pc = call[d].pc /\ call'[d].at = call[d].at
  BY <1>c
<1>d. ASSUME NEW p \in HostPc \ {"unborn", "spawned", "ended"}, At(i, p), Alive(i),
             UNCHANGED call
      PROVE  StableImages /\ StableRequests /\ HandlerInv'
  BY <1>c, <1>d, MoveFacts
<1>1. CASE _lock(i)
  <2>1. UNCHANGED receipt /\ Alive(i)
    BY <1>1 DEF _lock
  <2>2. CASE At(i, "holding") /\ UNCHANGED call
    BY <1>a, <1>d, <2>1, <2>2, ReceiptKept DEF StepFacts
  <2>3. CASE Ended(i)
    BY <1>b, <2>1, <2>3, EndFacts, ReceiptKept DEF StepFacts
  <2> QED BY <1>1, <2>2, <2>3 DEF _lock
<1>2. CASE _acquire_authority(i)
  <2>1. Alive(i)
    BY <1>2 DEF _acquire_authority
  <2>2. CASE At(i, "holding") /\ UNCHANGED <<receipt, call>>
    BY <1>a, <1>d, <2>1, <2>2, ReceiptKept DEF StepFacts
  <2>3. CASE Ended(i) /\ UNCHANGED receipt
    BY <1>b, <2>1, <2>3, EndFacts, ReceiptKept DEF StepFacts
  <2>4. CASE Ended(i) /\ receipt' = HandoffFailed(i)
    BY <1>b, <2>1, <2>4, EndFacts, HandoffReceipt DEF StepFacts
  <2> QED BY <1>2, <2>2, <2>3, <2>4 DEF _acquire_authority
<1>3. CASE BindEndpoint(i)
  BY <1>3, <1>a, <1>d, ReceiptKept DEF BindEndpoint, StepFacts
<1>4. CASE BecomeReady(i)
  <2>1. StableImages /\ StableRequests /\ HandlerInv'
    BY <1>4, <1>d DEF BecomeReady
  <2>2. CASE host[i].parent = None
    BY <1>4, <1>a, <2>1, <2>2, ReceiptKept DEF BecomeReady, StepFacts
  <2>3. CASE host[i].parent # None
    <3> DEFINE q == host[i].parent
    <3>1. /\ q \in Instances
          /\ receipt' = Receipt(host[i].handoff, q, "restart", "completed", i)
      BY <1>0, <1>4, <2>3 DEF BecomeReady, Images
    <3>2. /\ receipt'.inst = q /\ receipt'.repl = i
      BY <1>0, <3>1, ReceiptTyped DEF Kinds
    <3>3. ~host'[q].completed
      BY <1>4, <1>a, <2>3, <3>1 DEF BecomeReady, ImageInv, ParentIsGone
    <3>4. host'[i].parent = q /\ host'[i].pc = "serving"
      BY <1>0, <1>4, AtMoves DEF BecomeReady, SameButPc
    <3>5. StableReceipt
      BY <3>1, <3>2, <3>3 DEF StableReceipt
    <3>6. RestartReceipt'
      BY <3>2, <3>4 DEF RestartReceipt
    <3> QED BY <2>1, <3>5, <3>6 DEF StepFacts
  <2> QED BY <2>2, <2>3
<1>5. CASE StartupFails(i)
  <2>1. StableImages /\ StableRequests /\ HandlerInv'
    BY <1>5, <1>d DEF StartupFails
  <2> QED BY <1>5, <1>a, <2>1, HandoffReceipt DEF StartupFails, StepFacts
<1>6. CASE ServeReturns(i)
  <2>1. /\ host' \in [Instances -> Hosts] /\ Others(i)
        /\ host'[i].pc \in {"stopping", "closing"} /\ host[i].pc = "serving"
        /\ host'[i].intent = host[i].intent /\ host'[i].req = host[i].req
        /\ host'[i].persisted = host[i].persisted /\ host'[i].parent = host[i].parent
        /\ host'[i].completed = host[i].completed /\ host'[i].joined = host[i].joined
    BY <1>0, <1>6, ServeReturnsEffect
  <2>2. StableImages /\ StableRequests
    BY <2>1 DEF StableImages, StableRequests, Others, Over
  <2>6. UNCHANGED call
    BY <1>6 DEF ServeReturns
  <2>3. CallsHandled'
    BY <1>c, <2>1, <2>6, CallsKept DEF HandlerInv, Others
  <2>4. OneWriter'
    BY <1>6, <2>1, WritersKept DEF ServeReturns, HandlerInv, Others
  <2>5. StableReceipt /\ RestartReceipt'
    BY <1>6, <2>1, <2>2, ReceiptKept DEF ServeReturns, Others
  <2> QED BY <2>2, <2>3, <2>4, <2>5 DEF StepFacts, HandlerInv
<1>7. CASE CompleteStop(i)
  <2>1. CASE At(i, "closing") /\ UNCHANGED receipt
    BY <1>7, <1>a, <1>d, <2>1, ReceiptKept DEF CompleteStop, StepFacts
  <2>2. CASE /\ host' = [host EXCEPT ![i].pc = "completed", ![i].completed = TRUE]
             /\ receipt' = Receipt(host[i].req, i, "stop", "completed", None)
    <3>1. /\ host' \in [Instances -> Hosts] /\ Others(i) /\ host'[i].pc = "completed"
          /\ host'[i].intent = host[i].intent /\ host'[i].req = host[i].req
          /\ host'[i].persisted = host[i].persisted /\ host'[i].parent = host[i].parent
          /\ host'[i].joined = host[i].joined
      BY <1>0, <2>2, HostCompletes
    <3>2. StableImages /\ StableRequests
      BY <1>7, <3>1 DEF CompleteStop, StableImages, StableRequests, Others, Over
    <3>7. UNCHANGED call /\ host[i].pc = "stopping"
      BY <1>7 DEF CompleteStop
    <3>3. CallsHandled'
      BY <1>c, <3>1, <3>7, CallsKept DEF HandlerInv, Others
    <3>4. OneWriter'
      BY <1>7, <3>1, WritersKept DEF CompleteStop, HandlerInv, Others
    <3>5. /\ receipt'.inst = i /\ receipt'.req = host[i].req /\ receipt'.action = "stop"
          /\ receipt'.state = "completed"
      BY <1>0, <2>2, ReceiptTyped DEF Kinds
    <3>6. StableReceipt /\ RestartReceipt'
      BY <1>7, <3>5 DEF CompleteStop, StableReceipt, RestartReceipt
    <3> QED BY <3>2, <3>3, <3>4, <3>6 DEF StepFacts, HandlerInv
  <2> QED BY <1>7, <2>1, <2>2 DEF CompleteStop
<1>8. CASE StopServer(i)
  BY <1>8, <1>a, <1>d, ReceiptKept DEF StopServer, Ending, StepFacts
<1>9. CASE CloseServer(i)
  <2>1. \A d \in Deliveries : call'[d].pc = call[d].pc /\ call'[d].at = call[d].at
    <3>1. \A d \in Deliveries : /\ [call[d] EXCEPT !.cut = TRUE].pc = call[d].pc
                                /\ [call[d] EXCEPT !.cut = TRUE].at = call[d].at
      BY <1>0 DEF Calls
    <3> QED BY <1>9, <3>1 DEF CloseServer
  <2>2. StableImages /\ StableRequests /\ HandlerInv'
    BY <1>9, <2>1, MoveFacts DEF CloseServer
  <2> QED BY <1>9, <1>a, <2>2, ReceiptKept DEF CloseServer, StepFacts
<1>10. CASE Release(i)
  <2>1. Alive(i)
    BY <1>10 DEF Release
  <2>2. CASE Ended(i) /\ UNCHANGED receipt
    BY <1>b, <2>1, <2>2, EndFacts, ReceiptKept DEF StepFacts
  <2>3. CASE /\ Ended(i) /\ host[i].restarting
             /\ receipt' = Receipt(host[i].req, i, "restart", "failed", None)
    <3>1. ~host'[i].completed
      BY <1>0, <1>b, <2>1, <2>3, HostTyped DEF ImageInv, EndFollowsIntent
    <3> QED BY <1>0, <2>1, <2>3, <3>1, EndFacts, ReceiptWritten DEF StepFacts, Kinds
  <2>4. CASE /\ At(i, "handoff") /\ UNCHANGED call /\ host[i].restarting
             /\ receipt' = Receipt(host[i].req, i, "restart", "handoff", None)
    <3>1. ~host'[i].completed
      BY <1>0, <1>a, <2>1, <2>4, HostTyped DEF ImageInv, EndFollowsIntent
    <3> QED BY <1>0, <1>d, <2>1, <2>4, <3>1, ReceiptWritten DEF StepFacts, Kinds
  <2> QED BY <1>10, <2>2, <2>3, <2>4 DEF Release
<1>11. CASE _reexec(i)
  <2>0. /\ Alive(i) /\ host[i].pc = "handoff" /\ ~host[i].completed
    BY <1>0, <1>11, HostTyped DEF _reexec, ImageInv, EndFollowsIntent
  <2>1. CASE /\ receipt' = Receipt(host[i].req, i, "restart", "failed", None)
             /\ Ended(i)
    <3>1. ~host'[i].completed
      BY <1>0, <1>b, <2>0, <2>1
    <3> QED BY <1>0, <2>0, <2>1, <3>1, EndFacts, ReceiptWritten DEF StepFacts, Kinds
  <2>2. ASSUME NEW j \in Instances, NextBorn(j), Threadless(i), UNCHANGED receipt,
               host' = [host EXCEPT ![i] = Gone(@),
                          ![j] = [Unborn EXCEPT !.pc = "inherited", !.parent = i,
                                                !.handoff = host[i].req]]
        PROVE  StepFacts /\ HandlerInv'
    <3>1. i # j /\ host[j].pc = "unborn"
      BY <2>0, <2>2 DEF NextBorn
    <3>2. /\ host' \in [Instances -> Hosts]
          /\ \A k \in Instances : k # i /\ k # j => host'[k] = host[k]
          /\ host'[i] = Gone(host[i]) /\ host'[j].pc = "inherited"
          /\ host'[j].intent = "none" /\ ~host'[j].persisted
      BY <1>0, <2>2, <3>1, ExecEffect
    <3>3. /\ host'[i].pc = "ended" /\ host'[i].completed = host[i].completed
          /\ host'[i].parent = host[i].parent /\ host'[i].joined = host[i].joined
          /\ host'[i].intent = "none" /\ ~host'[i].persisted
      BY <1>0, <3>2, HostGone
    <3>4. \A d \in Deliveries :
            IF call[d].at = i /\ call[d].pc \in Running
            THEN call'[d].pc \in {"none", "dropped"}
                 /\ (call'[d].pc = "dropped" => call'[d].at = i)
            ELSE call'[d] = call[d]
      BY <1>0, <2>2, ThreadlessEffect
    <3>5. StableImages /\ StableRequests
      BY <2>0, <3>1, <3>2, <3>3 DEF StableImages, StableRequests, Over
    <3>6. CallsHandled'
      BY <3>1, <3>2, <3>3, <3>4 DEF HandlerInv, CallsHandled, Running
    <3>7. OneWriter'
      <4>1. \A d \in Deliveries : ~(call'[d].pc = "recorded" /\ call'[d].at \in {i, j})
        BY <3>1, <3>4 DEF Running, HandlerInv, CallsHandled
      <4>2. \A d \in Deliveries : call'[d].pc = "recorded" => call'[d] = call[d]
        BY <3>4
      <4> QED BY <3>2, <3>3, <4>1, <4>2, WritersKept DEF HandlerInv
    <3>8. StableReceipt /\ RestartReceipt'
      BY <2>2, <3>1, <3>2, <3>3, <3>5, ReceiptKept
    <3> QED BY <3>5, <3>6, <3>7, <3>8 DEF StepFacts, HandlerInv
  <2> QED BY <1>11, <2>1, <2>2 DEF _reexec
<1> QED BY <1>1, <1>2, <1>3, <1>4, <1>5, <1>6, <1>7, <1>8, <1>9, <1>10, <1>11
        DEF OwnerStep

\* A request recorded by a living image, and possibly accepted: its place is
\* kept, and it joins or is the first.
LEMMA RequestFacts ==
  ASSUME AuthorityInv, ImageInv, NEW i \in Instances, Alive(i), Others(i),
         host'[i].pc = host[i].pc, host'[i].parent = host[i].parent,
         host[i].intent # "none" =>
           host'[i].intent = host[i].intent /\ host'[i].req = host[i].req
  PROVE  StableImages /\ StableRequests
  BY DEF StableImages, StableRequests, Others, Alive, Over, Begun

\* A signal.
LEMMA SIGTERMFacts ==
  ASSUME AuthorityInv, ImageInv, HandlerInv, RestartReceipt, NEW i \in Instances,
         SIGTERM(i)
  PROVE  StepFacts /\ HandlerInv'
<1>0. /\ TypeOK /\ host \in [Instances -> Hosts] /\ host[i] \in Hosts
      /\ call \in [Deliveries -> Calls] /\ Signal \in Requests
  BY DEF AuthorityInv, TypeOK, Requests
<1>1. CASE Ended(i) /\ UNCHANGED receipt
  <2>1. Alive(i)
    BY <1>0, SIGTERMEffect
  <2>2. StableImages /\ StableRequests /\ HandlerInv'
    BY <1>1, <2>1, EndFacts
  <2>3. \A j \in Instances :
          host'[j].completed = host[j].completed /\ host'[j].joined = host[j].joined
    BY <1>0, <1>1, EndedEffect, HostGone DEF Others
  <2> QED BY <1>1, <2>2, <2>3, ReceiptKept DEF StepFacts
<1>2. CASE UNCHANGED <<host, receipt, call>>
  <2>1. StableImages /\ StableRequests
    BY <1>2 DEF StableImages, StableRequests, Begun, Over
  <2>2. HandlerInv'
    BY <1>2, CallsKept, WritersKept DEF HandlerInv, Begun, Alive
  <2> QED BY <1>2, <2>1, <2>2, ReceiptKept DEF StepFacts
<1>3. CASE /\ UNCHANGED call /\ Alive(i)
           /\ Persist(i, request_lifecycle(host[i], "stop", Signal))
  <2> DEFINE h == request_lifecycle(host[i], "stop", Signal)
  <2>1. /\ h \in Hosts /\ h.pc = host[i].pc /\ h.parent = host[i].parent
        /\ h.completed = host[i].completed
        /\ IF host[i].intent = "none"
           THEN h.intent = "stop" /\ h.joined = host[i].joined
           ELSE h.intent = host[i].intent /\ h.req = host[i].req /\ h.joined
    BY <1>0, HostRequested DEF Kinds
  <2> HIDE DEF h
  <2>2. /\ host' \in [Instances -> Hosts] /\ Others(i)
        /\ host'[i].persisted /\ host'[i].pc = h.pc /\ SameRequest(host'[i], h)
        /\ receipt'.inst = i /\ receipt'.state = "accepted"
    BY <1>0, <1>3, <2>1, PersistEffect DEF h
  <2>3. StableImages /\ StableRequests
    BY <1>3, <2>1, <2>2, RequestFacts DEF SameRequest
  <2>4. CallsHandled'
    BY <1>3, <2>1, <2>2, CallsKept DEF HandlerInv, Others, Begun, Alive
  <2>5. OneWriter'
    BY <1>3, <2>1, <2>2 DEF HandlerInv, OneWriter, Recorded, Others, SameRequest
  <2>6. StableReceipt
    <3>1. host[i].intent = "none" => ~host[i].completed
      BY <1>3 DEF ImageInv, EndFollowsIntent
    <3> QED BY <2>1, <2>2, <3>1 DEF StableReceipt, SameRequest
  <2>7. RestartReceipt'
    BY <2>2 DEF RestartReceipt
  <2> QED BY <2>3, <2>4, <2>5, <2>6, <2>7 DEF StepFacts, HandlerInv
<1> QED BY <1>0, <1>1, <1>2, <1>3, SIGTERMEffect

\* An image is started.
LEMMA SpawnedFacts ==
  ASSUME AuthorityInv, ImageInv, HandlerInv, RestartReceipt, NEW i \in Instances,
         host[i].pc = "unborn", At(i, "spawned"), UNCHANGED <<receipt, call>>
  PROVE  StepFacts /\ HandlerInv'
<1>1. /\ host' \in [Instances -> Hosts] /\ Others(i)
      /\ host'[i].pc = "spawned" /\ SameButPc(host'[i], host[i])
  BY AtMoves DEF AuthorityInv, TypeOK, HostPc
<1>2. StableImages /\ StableRequests
  BY <1>1 DEF StableImages, StableRequests, Others, SameButPc, Begun, Alive, Over
<1>3. CallsHandled'
  BY <1>1, CallsKept DEF HandlerInv, Others, Begun, Alive
<1>4. OneWriter'
  BY <1>1, WritersKept DEF HandlerInv, Others, SameButPc
<1>5. StableReceipt /\ RestartReceipt'
  BY <1>1, <1>2, ReceiptKept DEF Others, SameButPc
<1> QED BY <1>2, <1>3, <1>4, <1>5 DEF StepFacts, HandlerInv

\* What starts, crashes and signals do.
LEMMA EnvironmentFacts ==
  ASSUME AuthorityInv, ImageInv, HandlerInv, RestartReceipt, NEW i \in Instances,
         _run_default_command(i) \/ Crash(i) \/ OperatorSIGTERM(i)
  PROVE  StepFacts /\ HandlerInv'
<1>1. CASE _run_default_command(i)
  <2>1. /\ host[i].pc = "unborn" /\ At(i, "spawned") /\ UNCHANGED <<receipt, call>>
    BY <1>1 DEF _run_default_command, RunAttached, _start_systemd, Spawn, NextBorn
  <2> QED BY <2>1, SpawnedFacts
<1>2. CASE Crash(i)
  <2>1. Alive(i) /\ Ended(i) /\ UNCHANGED receipt
    BY <1>2 DEF Crash, Dies
  <2>2. StableImages /\ StableRequests /\ HandlerInv'
    BY <2>1, EndFacts
  <2>3. \A j \in Instances :
          host'[j].completed = host[j].completed /\ host'[j].joined = host[j].joined
    BY <2>1, EndedEffect, HostGone DEF Others, AuthorityInv, TypeOK
  <2> QED BY <2>1, <2>2, <2>3, ReceiptKept DEF StepFacts
<1>3. CASE OperatorSIGTERM(i)
  BY <1>3, SIGTERMFacts DEF OperatorSIGTERM
<1> QED BY <1>1, <1>2, <1>3

\* What a handler thread does.
LEMMA HandlerStepFacts ==
  ASSUME AuthorityInv, ImageInv, HandlerInv, RestartReceipt, NEW d \in Deliveries,
         HandlerStep(d)
  PROVE  StepFacts /\ HandlerInv'
<1> DEFINE i == call[d].at
<1>0. /\ host \in [Instances -> Hosts] /\ call \in [Deliveries -> Calls]
      /\ call[d] \in Calls
  BY DEF AuthorityInv, TypeOK
<1>1. /\ i \in Instances /\ host[i] \in Hosts /\ call[d].kind \in Kinds
      /\ d[1] \in Requests /\ Alive(i) /\ Begun(i) /\ host[i].req \in Requests
  BY <1>0, CallTyped, HostTyped DEF HandlerInv, CallsHandled, HandlerStep, RecordIntent,
    WriteAccepted, Deliveries, Requests, Running
<1>2. /\ Error(d) \in Calls /\ Error(d).pc \in {"none", "refused", "dropped"}
      /\ Error(d).pc # "none" => Error(d).at = i
  <2>1. None \in Requests
    BY DEF Requests
  <2> QED BY <1>0, <2>1, Settled DEF Error
<1>a. ASSUME NEW k \in Calls, call' = [call EXCEPT ![d] = k], UNCHANGED <<host, receipt>>,
             k.pc \in {"none", "refused", "dropped"}, k.pc # "none" => k.at = i
      PROVE  StepFacts /\ HandlerInv'
  <2>1. call'[d] = k /\ \A e \in Deliveries : e # d => call'[e] = call[e]
    BY <1>0, <1>a
  <2>2. StableImages /\ StableRequests
    BY <1>a DEF StableImages, StableRequests, Begun, Over
  <2>3. CallsHandled'
    BY <1>1, <1>a, <2>1 DEF HandlerInv, CallsHandled, Running, Begun, Alive
  <2>4. OneWriter'
    BY <1>a, <2>1, WritersKept DEF HandlerInv
  <2> QED BY <1>a, <2>2, <2>3, <2>4, ReceiptKept DEF StepFacts, HandlerInv
<1>3. CASE RecordIntent(d)
  <2>1. CASE call' = [call EXCEPT ![d] = Error(d)] /\ UNCHANGED host
    BY <1>2, <1>3, <1>a, <2>1 DEF RecordIntent
  <2>2. CASE /\ call' = [call EXCEPT ![d].pc = "recorded"]
             /\ host' = [host EXCEPT ![i] = request_lifecycle(@, call[d].kind, d[1])]
    <3> DEFINE h == request_lifecycle(host[i], call[d].kind, d[1])
    <3>1. /\ h \in Hosts /\ h.pc = host[i].pc /\ h.parent = host[i].parent
          /\ h.completed = host[i].completed /\ h.persisted = host[i].persisted
          /\ IF host[i].intent = "none"
             THEN h.intent = call[d].kind /\ h.joined = host[i].joined
             ELSE h.intent = host[i].intent /\ h.req = host[i].req /\ h.joined
      BY <1>1, HostRequested
    <3>2. host' = [host EXCEPT ![i] = h]
      BY <2>2
    <3> HIDE DEF h
    <3>3. Others(i) /\ host'[i] = h
      BY <1>0, <1>1, <3>2 DEF Others
    <3>4. /\ call'[d].pc = "recorded" /\ call'[d].at = i
          /\ \A e \in Deliveries : e # d => call'[e] = call[e]
      BY <1>0, <2>2 DEF Calls
    <3>5. StableImages /\ StableRequests
      BY <1>1, <3>1, <3>3, RequestFacts
    <3>6. CallsHandled'
      BY <1>1, <3>1, <3>3, <3>4 DEF HandlerInv, CallsHandled, Running, Begun, Alive, Others
    <3>7. OneWriter'
      BY <1>1, <3>1, <3>3, <3>4 DEF HandlerInv, OneWriter, Recorded, Others, Kinds
    <3>8. UNCHANGED receipt
      BY <1>3 DEF RecordIntent
    <3>9. StableReceipt /\ RestartReceipt'
      BY <3>1, <3>3, <3>5, <3>8, ReceiptKept DEF Others
    <3> QED BY <3>5, <3>6, <3>7, <3>9 DEF StepFacts, HandlerInv
  <2> QED BY <1>3, <2>1, <2>2 DEF RecordIntent
<1>4. CASE WriteAccepted(d)
  <2>1. CASE /\ Persist(i, host[i])
             /\ call' = [call EXCEPT ![d] = Settle(d, "answered", host[i].req)]
    <3> DEFINE k == Settle(d, "answered", host[i].req)
    <3>1. /\ Others(i) /\ host'[i].persisted
          /\ host'[i].pc = host[i].pc /\ SameRequest(host'[i], host[i])
          /\ receipt'.inst = i /\ receipt'.state = "accepted"
      BY <1>0, <1>1, <2>1, PersistEffect
    <3>2. k.pc \in {"none", "dropped", "answered"} /\ (k.pc # "none" => k.at = i)
      BY <1>0, <1>1, Settled
    <3> HIDE DEF k
    <3>3. call'[d] = k /\ \A e \in Deliveries : e # d => call'[e] = call[e]
      BY <1>0, <2>1 DEF k
    <3>4. StableImages /\ StableRequests
      BY <1>1, <3>1, RequestFacts DEF SameRequest
    <3>5. CallsHandled'
      BY <1>1, <3>1, <3>2, <3>3
      DEF HandlerInv, CallsHandled, Running, Begun, Alive, Others
    <3>6. d \in Recorded(i)
      BY <1>4 DEF WriteAccepted, Recorded
    <3>7. OneWriter'
      BY <1>1, <3>1, <3>2, <3>3, <3>6
      DEF HandlerInv, OneWriter, Recorded, Others, SameRequest
    <3>8. host[i].completed => host[i].joined
      BY <1>1, <3>6, HostTyped DEF ImageInv, EndFollowsIntent, HandlerInv, OneWriter
    <3>9. StableReceipt /\ RestartReceipt'
      BY <3>1, <3>8 DEF StableReceipt, RestartReceipt, SameRequest
    <3> QED BY <3>4, <3>5, <3>7, <3>9 DEF StepFacts, HandlerInv
  <2>2. CASE call' = [call EXCEPT ![d] = Error(d)] /\ UNCHANGED <<host, receipt>>
    BY <1>2, <1>a, <2>2
  <2> QED BY <1>4, <2>1, <2>2 DEF WriteAccepted
<1> QED BY <1>3, <1>4 DEF HandlerStep

\* A step that leaves the images and the receipt alone; a delivery is as
\* before, or its handler is not at work, or it is new.
LEMMA QuietFacts ==
  ASSUME AuthorityInv, ImageInv, HandlerInv, RestartReceipt, UNCHANGED <<host, receipt>>,
         \A d \in Deliveries :
           \/ call'[d] = call[d]
           \/ call'[d].pc = "none"
           \/ /\ call'[d].pc \in {"admitted", "dropped"} /\ call'[d].at \in Instances
              /\ Begun(call'[d].at) /\ Alive(call'[d].at)
  PROVE  StepFacts /\ HandlerInv'
<1>1. StableImages /\ StableRequests
  BY DEF StableImages, StableRequests, Begun, Over
<1>2. CallsHandled'
  BY DEF HandlerInv, CallsHandled, Running, Begun, Alive
<1>3. OneWriter'
  <2>1. \A d \in Deliveries : call'[d].pc = "recorded" => call'[d] = call[d]
    OBVIOUS
  <2> QED BY <2>1, WritersKept DEF HandlerInv
<1> QED BY <1>1, <1>2, <1>3, ReceiptKept DEF StepFacts, HandlerInv

\* What a client does.
LEMMA ClientStepFacts ==
  ASSUME AuthorityInv, ImageInv, HandlerInv, RestartReceipt, ClientsKnow,
         NEW c \in Clients,
         \/ ClientStep(c)
         \/ \E kind \in Kinds, force \in BOOLEAN : _lifecycle_service(c, kind, force)
  PROVE  StepFacts /\ HandlerInv'
<1>0. /\ TypeOK /\ call \in [Deliveries -> Calls]
  BY DEF AuthorityInv, TypeOK
<1>a. client[c].pc \in {"asking", "awaiting"} => client[c].attempt \in {1, 2}
  BY DEF ClientsKnow, ClientKnows
<1>b. ASSUME UNCHANGED <<host, receipt, call>>
      PROVE  StepFacts /\ HandlerInv'
  BY <1>b, QuietFacts
<1>c. ASSUME UNCHANGED <<host, receipt>>, Taken(c), client[c].pc = "awaiting"
      PROVE  StepFacts /\ HandlerInv'
  <2>1. \A d \in Deliveries : call'[d] = call[d] \/ call'[d].pc = "none"
    BY <1>0, <1>a, <1>c, TakenEffect, NoCallTyped
  <2> QED BY <1>c, <2>1, QuietFacts
<1>1. CASE \E kind \in Kinds, force \in BOOLEAN : _lifecycle_service(c, kind, force)
  BY <1>1, <1>b DEF _lifecycle_service
<1>2. CASE _request_once(c)
  <2>1. UNCHANGED <<host, receipt>> /\ client[c].attempt \in {1, 2}
    BY <1>2, <1>a DEF _request_once
  <2>2. CASE UNCHANGED call
    BY <1>b, <2>1, <2>2
  <2>3. CASE /\ path \in Instances /\ Listening(path)
             /\ \A d \in Deliveries :
                  \/ call'[d] = call[d]
                  \/ call'[d].pc \in {"admitted", "dropped"} /\ call'[d].at = path
    <3>1. Begun(path) /\ Alive(path)
      BY <2>3 DEF Listening, Accepting, Begun, Alive
    <3> QED BY <2>1, <2>3, <3>1, QuietFacts
  <2> QED BY <1>0, <1>2, <2>1, <2>2, <2>3, RequestOnceEffect
<1>3. CASE Replay(c)
  BY <1>3, <1>c DEF Replay
<1>4. CASE Receive(c)
  BY <1>4, <1>c DEF Receive
<1>5. CASE Restored
  BY <1>5, <1>b DEF Restored
<1>6. CASE SystemdStop(c)
  <2>1. PICK i \in Images :
          IF i = None THEN UNCHANGED <<host, lock, receipt, call>> ELSE SIGTERM(i)
    BY <1>6 DEF SystemdStop, Images
  <2>2. i # None => i \in Instances
    BY DEF Images
  <2> QED BY <1>b, <2>1, <2>2, SIGTERMFacts
<1>7. CASE SystemdStart(c)
  <2>1. UNCHANGED <<receipt, call>>
    BY <1>7 DEF SystemdStart
  <2>2. CASE UNCHANGED host
    BY <1>b, <2>1, <2>2
  <2>3. ASSUME NEW i \in Instances, NextBorn(i), At(i, "spawned")
        PROVE  StepFacts /\ HandlerInv'
    BY <2>1, <2>3, SpawnedFacts DEF NextBorn
  <2> QED BY <1>7, <2>2, <2>3 DEF SystemdStart
<1>8. ClientStep(c) =>
        \/ _request_once(c) \/ Replay(c) \/ Receive(c) \/ Restored
        \/ SystemdStop(c) \/ SystemdStart(c)
  BY DEF ClientStep, StopPoll, StopCheck, RestartRead, RestartPing, RestartDeadline,
    _wait_for_runtime_stop, wait_ready
<1> QED BY <1>1, <1>2, <1>3, <1>4, <1>5, <1>6, <1>7, <1>8

-----------------------------------------------------------------------------
\* What the clients know and were told.  The same after a step:

OwedAfter(i, req) ==
  /\ i \in Instances /\ host'[i].pc \notin {"unborn", "spawned"}
  /\ host'[i].pc # "ended" => host'[i].intent # "none" /\ host'[i].req = req
  /\ host'[i].completed /\ ~host'[i].joined /\ receipt'.inst = i =>
       receipt'.req = req /\ receipt'.action = "stop" /\ receipt'.state = "completed"

KnowsAfter(k) ==
  /\ k.told # "nothing" => k.pc = "done"
  /\ k.inst # None => host'[k.inst].pc \notin {"unborn", "spawned"}
  /\ k.pc \in {"asking", "awaiting"} => k.attempt \in {1, 2}
  /\ k.pc \in {"stopwait", "stopcheck"} => k.kind = "stop" /\ OwedAfter(k.inst, k.req)
  /\ k.pc = "stopcheck" => host'[k.inst].pc = "ended"
  /\ k.pc \in {"restartread", "restartping"} => k.kind = "restart" /\ k.inst # None
  /\ k.pc = "restartping" /\ k.saw = "completed" =>
       /\ k.repl \in Instances /\ host'[k.repl].pc \notin {"unborn", "spawned"}
       /\ host'[k.repl].parent = k.inst
  /\ k.pc \in {"sysstop", "sysgone", "sysdown", "sysup"} => hosting' = "external"
  /\ (k.pc = "sysstop" /\ k.kind = "stop") \/ k.pc = "sysgone" => k.inst # None
  /\ k.pc = "sysdown" =>
       /\ k.inst \in {None, k.repl} \/ host'[k.inst].pc = "ended"
       /\ k.repl # None => host'[k.repl].pc # "unborn"
  /\ k.pc = "sysup" => k.inst = None \/ host'[k.inst].pc = "ended"

ToldAfter(k) ==
  /\ k.told \in {"stopped", "lost"} => k.inst \in Instances /\ host'[k.inst].pc = "ended"
  /\ k.told = "lost" =>
       ~host'[k.inst].completed \/ host'[k.inst].joined \/ receipt'.inst # k.inst
  /\ k.told = "restarted" =>
       /\ k.seen \in Instances /\ host'[k.seen].pc \notin {"unborn", "spawned"}
       /\ k.seen # k.inst /\ (k.inst # None => host'[k.inst].pc = "ended")
       /\ hosting' # "external" => host'[k.seen].parent = k.inst

\* The request whose acceptance was answered goes on to count.
LEMMA OwedKept ==
  ASSUME StepFacts, NEW i, NEW req, Owed(i, req)
  PROVE  OwedAfter(i, req)
<1>1. i \in Instances /\ Begun(i)
  BY DEF Owed
<1>2. host'[i].pc \notin {"unborn", "spawned"}
  BY <1>1 DEF StepFacts, StableImages
<1>3. host'[i].pc # "ended" => host'[i].intent # "none" /\ host'[i].req = req
  BY <1>1 DEF Owed, StepFacts, StableImages, StableRequests, Alive, Over, Begun
<1>4. host'[i].completed /\ ~host'[i].joined /\ receipt'.inst = i =>
        receipt'.req = req /\ receipt'.action = "stop" /\ receipt'.state = "completed"
  BY <1>1 DEF Owed, StepFacts, StableReceipt, Alive
<1> QED BY <1>1, <1>2, <1>3, <1>4 DEF OwedAfter

\* A client that does not move goes on to know what it knew.
LEMMA KnowsKept ==
  ASSUME StepFacts, UNCHANGED hosting, NEW k \in Commands, ClientKnows(k)
  PROVE  KnowsAfter(k)
<1> USE HostAssumption
<1>1. k.inst \in Images /\ k.repl \in Images
  BY ClientTyped
<1>2. k.inst # None => k.inst \in Instances
  BY <1>1 DEF Images
<1>3. k.repl # None => k.repl \in Instances
  BY <1>1 DEF Images
<1>4. k.pc \in {"stopwait", "stopcheck"} => k.kind = "stop" /\ OwedAfter(k.inst, k.req)
  BY OwedKept DEF ClientKnows
<1>5. k.pc = "stopcheck" => host'[k.inst].pc = "ended"
  BY DEF ClientKnows, Owed, StepFacts, StableImages
<1>6. k.inst # None => host'[k.inst].pc \notin {"unborn", "spawned"}
  BY <1>2 DEF ClientKnows, StepFacts, StableImages
<1>7. k.pc = "restartping" /\ k.saw = "completed" =>
        /\ k.repl \in Instances /\ host'[k.repl].pc \notin {"unborn", "spawned"}
        /\ host'[k.repl].parent = k.inst
  BY DEF ClientKnows, StepFacts, StableImages, Begun
<1>8. k.pc = "sysdown" =>
        /\ k.inst \in {None, k.repl} \/ host'[k.inst].pc = "ended"
        /\ k.repl # None => host'[k.repl].pc # "unborn"
  BY <1>2, <1>3 DEF ClientKnows, StepFacts, StableImages
<1>9. k.pc = "sysup" => k.inst = None \/ host'[k.inst].pc = "ended"
  BY <1>2 DEF ClientKnows, StepFacts, StableImages
<1> QED BY <1>4, <1>5, <1>6, <1>7, <1>8, <1>9 DEF ClientKnows, KnowsAfter, Managed

\* What a client was told stays so.
LEMMA ToldKept ==
  ASSUME StepFacts, UNCHANGED hosting, NEW k \in Commands, ToldHolds(k)
  PROVE  ToldAfter(k)
<1>1. k.inst # None => k.inst \in Instances
  BY ClientTyped DEF Images
<1>2. k.told \in {"stopped", "lost"} => k.inst \in Instances /\ host'[k.inst].pc = "ended"
  BY DEF ToldHolds, StepFacts, StableImages
<1>3. k.told = "lost" =>
        ~host'[k.inst].completed \/ host'[k.inst].joined \/ receipt'.inst # k.inst
  BY DEF ToldHolds, StepFacts, StableImages, StableReceipt, Begun, Over, Alive
<1>4. k.told = "restarted" =>
        /\ k.seen \in Instances /\ host'[k.seen].pc \notin {"unborn", "spawned"}
        /\ k.seen # k.inst /\ (k.inst # None => host'[k.inst].pc = "ended")
  BY <1>1 DEF ToldHolds, StepFacts, StableImages
<1>5. k.told = "restarted" /\ hosting' # "external" => host'[k.seen].parent = k.inst
  BY DEF ToldHolds, StepFacts, StableImages, Managed, Begun
<1> QED BY <1>2, <1>3, <1>4, <1>5 DEF ToldAfter

\* A step keeps the invariant of the outcomes when what it answers is owed and
\* what the client that moves knows, or is told, is so.
LEMMA OutcomeKept ==
  ASSUME TypeOK, OutcomeInv, StepFacts, UNCHANGED hosting,
         \A d \in Deliveries :
           call'[d].pc = "answered" =>
             call'[d] = call[d] \/ OwedAfter(call'[d].at, call'[d].req),
         \A b \in Clients :
           client'[b] = client[b] \/ (KnowsAfter(client'[b]) /\ ToldAfter(client'[b]))
  PROVE  OutcomeInv'
<1>0. \A b \in Clients : client[b] \in Commands
  BY DEF TypeOK
<1>1. ASSUME NEW d \in Deliveries, call'[d].pc = "answered"
      PROVE  OwedAfter(call'[d].at, call'[d].req)
  <2>1. CASE call'[d] = call[d]
    <3>1. Owed(call[d].at, call[d].req)
      BY <1>1, <2>1 DEF OutcomeInv, AnswersOwed
    <3> QED BY <2>1, <3>1, OwedKept
  <2> QED BY <1>1, <2>1
<1>2. AnswersOwed'
  BY <1>1 DEF AnswersOwed, Owed, OwedAfter, Begun, Alive
<1>3. ASSUME NEW b \in Clients
      PROVE  KnowsAfter(client'[b]) /\ ToldAfter(client'[b])
  <2>1. CASE client'[b] = client[b]
    <3>1. ClientKnows(client[b]) /\ ToldHolds(client[b]) /\ client[b] \in Commands
      BY <1>0 DEF OutcomeInv, ClientsKnow, ToldStays
    <3>2. KnowsAfter(client[b]) /\ ToldAfter(client[b])
      BY <3>1, KnowsKept, ToldKept
    <3> QED BY <2>1, <3>2
  <2> QED BY <2>1
<1>4. ClientsKnow'
  <2> SUFFICES ASSUME NEW b \in Clients PROVE ClientKnows(client[b])'
    BY DEF ClientsKnow
  <2>1. KnowsAfter(client'[b])
    BY <1>3
  <2> QED BY <2>1 DEF ClientKnows, KnowsAfter, Owed, OwedAfter, Begun, Alive, Over, Managed
<1>5. ToldStays'
  <2> SUFFICES ASSUME NEW b \in Clients PROVE ToldHolds(client[b])'
    BY DEF ToldStays
  <2>1. ToldAfter(client'[b])
    BY <1>3
  <2> QED BY <2>1 DEF ToldHolds, ToldAfter, Begun, Over, Managed
<1> QED BY <1>2, <1>4, <1>5 DEF OutcomeInv, StepFacts

\* A step that leaves the clients alone and answers nothing.
LEMMA UnansweredOutcome ==
  ASSUME TypeOK, OutcomeInv, StepFacts, UNCHANGED <<hosting, client>>,
         \A d \in Deliveries : call'[d] = call[d] \/ call'[d].pc # "answered"
  PROVE  OutcomeInv'
  BY OutcomeKept

\* The handler threads that end with their process answer nothing.
LEMMA EndedUnanswered ==
  ASSUME TypeOK, NEW i \in Instances, Threadless(i)
  PROVE  \A d \in Deliveries : call'[d] = call[d] \/ call'[d].pc # "answered"
<1>1. call \in [Deliveries -> Calls]
  BY DEF TypeOK
<1> QED BY <1>1, ThreadlessEffect

\* A step of the owner thread preserves the invariant of the outcomes.
LEMMA OwnerStepOutcome ==
  ASSUME TypeOK, OutcomeInv, StepFacts, NEW i \in Instances, OwnerStep(i)
  PROVE  OutcomeInv'
<1>1. UNCHANGED <<hosting, client>>
  BY DEF OwnerStep, _lock, _acquire_authority, BindEndpoint, BecomeReady, StartupFails,
    ServeReturns, CompleteStop, StopServer, CloseServer, Release, _reexec
<1>2. \/ UNCHANGED call \/ Threadless(i) \/ CloseServer(i)
  BY DEF OwnerStep, _lock, _acquire_authority, BindEndpoint, BecomeReady, StartupFails,
    ServeReturns, CompleteStop, StopServer, Release, _reexec, Ended
<1>3. CASE UNCHANGED call
  BY <1>1, <1>3, UnansweredOutcome
<1>4. CASE Threadless(i)
  BY <1>1, <1>4, UnansweredOutcome, EndedUnanswered
<1>5. CASE CloseServer(i)
  <2>0. call \in [Deliveries -> Calls]
    BY DEF TypeOK
  <2>1. ASSUME NEW d \in Deliveries
        PROVE  call'[d] = call[d] \/ call'[d].pc # "answered"
    <3>1. [call[d] EXCEPT !.cut = TRUE].pc = call[d].pc
      BY <2>0 DEF Calls
    <3> QED BY <1>5, <3>1 DEF CloseServer, Pending, Running
  <2> QED BY <1>1, <2>1, UnansweredOutcome
<1> QED BY <1>2, <1>3, <1>4, <1>5

\* Starts, crashes and signals preserve it.
LEMMA EnvironmentOutcome ==
  ASSUME TypeOK, OutcomeInv, StepFacts, NEW i \in Instances,
         _run_default_command(i) \/ Crash(i) \/ OperatorSIGTERM(i)
  PROVE  OutcomeInv'
<1>1. UNCHANGED <<hosting, client>>
  BY DEF _run_default_command, RunAttached, _start_systemd, Spawn, Crash, OperatorSIGTERM
<1>2. UNCHANGED call \/ Threadless(i)
  BY DEF _run_default_command, RunAttached, _start_systemd, Spawn, Crash, OperatorSIGTERM,
    SIGTERM, Dies, Ended
<1> QED BY <1>1, <1>2, UnansweredOutcome, EndedUnanswered

\* A step of a handler thread preserves it: the request it answers with is the
\* one that counts.
LEMMA HandlerStepOutcome ==
  ASSUME AuthorityInv, ImageInv, HandlerInv, OutcomeInv, StepFacts, NEW d \in Deliveries,
         HandlerStep(d)
  PROVE  OutcomeInv'
<1> DEFINE i == call[d].at
<1>0. /\ TypeOK /\ host \in [Instances -> Hosts] /\ call \in [Deliveries -> Calls]
      /\ UNCHANGED <<hosting, client>> /\ None \in Requests
  BY DEF AuthorityInv, TypeOK, HandlerStep, RecordIntent, WriteAccepted, Requests
<1>1. /\ i \in Instances /\ host[i] \in Hosts /\ Alive(i) /\ Begun(i)
      /\ host[i].req \in Requests
  BY <1>0, HostTyped DEF HandlerInv, CallsHandled, HandlerStep, RecordIntent,
    WriteAccepted, Running
<1>2. CASE call' = [call EXCEPT ![d] = Error(d)]
  <2>1. Error(d).pc \in {"none", "refused", "dropped"}
    BY <1>0, Settled DEF Error
  <2> QED BY <1>0, <1>2, <2>1, UnansweredOutcome
<1>3. CASE call' = [call EXCEPT ![d].pc = "recorded"]
  <2>1. call'[d].pc = "recorded" /\ \A e \in Deliveries : e # d => call'[e] = call[e]
    BY <1>0, <1>3 DEF Calls
  <2> QED BY <1>0, <2>1, UnansweredOutcome
<1>4. CASE /\ call[d].pc = "recorded" /\ Persist(i, host[i])
           /\ call' = [call EXCEPT ![d] = Settle(d, "answered", host[i].req)]
  <2> DEFINE k == Settle(d, "answered", host[i].req)
  <2>1. k.pc # "none" => k.at = i /\ k.req = host[i].req
    BY <1>0, <1>1, Settled
  <2> HIDE DEF k
  <2>2. call'[d] = k /\ \A e \in Deliveries : e # d => call'[e] = call[e]
    BY <1>0, <1>4 DEF k
  <2>3. host'[i].pc = host[i].pc /\ SameRequest(host'[i], host[i])
    BY <1>0, <1>1, <1>4, PersistEffect
  <2>4. d \in Recorded(i)
    BY <1>4 DEF Recorded
  <2>5. host[i].intent # "none" /\ (host[i].completed => host[i].joined)
    BY <1>1, <2>4, HostTyped DEF ImageInv, EndFollowsIntent, HandlerInv, OneWriter
  <2>6. OwedAfter(i, host[i].req)
    BY <1>1, <2>3, <2>5 DEF OwedAfter, SameRequest, Begun
  <2> QED BY <1>0, <2>1, <2>2, <2>6, OutcomeKept
<1> QED BY <1>2, <1>3, <1>4 DEF HandlerStep, RecordIntent, WriteAccepted

\* A client that is told of a failure, or that its request was accepted.
LEMMA ToldOutcome ==
  ASSUME TypeOK, NEW c \in Clients, Told(c, "error") \/ Told(c, "requested")
  PROVE  OtherClients(c) /\ KnowsAfter(client'[c]) /\ ToldAfter(client'[c])
<1>1. client \in [Clients -> Commands]
  BY DEF TypeOK
<1>2. /\ OtherClients(c) /\ client'[c].pc = "done" /\ client'[c].inst = None
      /\ client'[c].told \in {"error", "requested"}
  BY <1>1, ToldEffect
<1> QED BY <1>2 DEF KnowsAfter, ToldAfter

\* An image that has begun and does not hold the authority is over.
LEMMA BegunOrOver ==
  ASSUME AuthorityInv, NEW i \in Instances, Begun(i), lock # i
  PROVE  Over(i)
<1>1. host[i].pc \in HostPc
  BY HostTyped DEF AuthorityInv, TypeOK
<1> QED BY <1>1 DEF AuthorityInv, HolderHolds, Held, Begun, Over, HostPc, SignalOwned,
          Accepting

\* The step of a client preserves the invariant of the outcomes.
LEMMA ClientStepOutcome ==
  ASSUME AuthorityInv, ImageInv, HandlerInv, OutcomeInv, StepFacts, NEW c \in Clients,
         \/ ClientStep(c)
         \/ \E kind \in Kinds, force \in BOOLEAN : _lifecycle_service(c, kind, force)
  PROVE  OutcomeInv'
<1> USE HostAssumption
<1> DEFINE k == client[c]
           g == client'[c]
<1>0. /\ TypeOK /\ host \in [Instances -> Hosts] /\ call \in [Deliveries -> Calls]
      /\ client \in [Clients -> Commands] /\ path \in Images /\ lock \in Images
      /\ k \in Commands /\ ClientKnows(k) /\ None \notin Instances
  BY DEF AuthorityInv, TypeOK, OutcomeInv, ClientsKnow
<1>1. /\ k.inst \in Images /\ k.repl \in Images /\ k.kind \in Kinds
      /\ k.inst # None => k.inst \in Instances /\ Begun(k.inst)
                          /\ host'[k.inst].pc \notin {"unborn", "spawned"}
      /\ k.told # "nothing" => k.pc = "done"
      /\ k.pc \in {"asking", "awaiting"} => k.attempt \in {1, 2}
  <2>1. k.inst \in Images /\ k.repl \in Images /\ k.kind \in Kinds
    BY <1>0, ClientTyped
  <2>2. k.inst # None => k.inst \in Instances
    BY <2>1 DEF Images
  <2>3. k.inst # None => Begun(k.inst)
    BY <1>0 DEF ClientKnows
  <2>4. /\ k.told # "nothing" => k.pc = "done"
        /\ k.pc \in {"asking", "awaiting"} => k.attempt \in {1, 2}
    BY <1>0 DEF ClientKnows
  <2> HIDE DEF k
  <2> QED BY <2>1, <2>2, <2>3, <2>4 DEF StepFacts, StableImages
<1>2. UNCHANGED hosting
  BY DEF ClientStep, _lifecycle_service, _request_once, Replay, Receive, StopPoll,
    StopCheck, RestartRead, RestartPing, RestartDeadline, SystemdStop,
    _wait_for_runtime_stop, SystemdStart, wait_ready, Restored
<1>a. ASSUME OtherClients(c), KnowsAfter(g), ToldAfter(g),
             \A d \in Deliveries : call'[d] = call[d] \/ call'[d].pc # "answered"
      PROVE  OutcomeInv'
  <2> HIDE DEF g
  <2>1. \A b \in Clients :
          client'[b] = client[b] \/ (KnowsAfter(client'[b]) /\ ToldAfter(client'[b]))
    BY <1>a DEF OtherClients, g
  <2> QED BY <1>0, <1>2, <1>a, <2>1, OutcomeKept
<1>b. ASSUME Told(c, "error") \/ Told(c, "requested"),
             \A d \in Deliveries : call'[d] = call[d] \/ call'[d].pc # "answered"
      PROVE  OutcomeInv'
  BY <1>0, <1>a, <1>b, ToldOutcome
<1>c. ASSUME g.told = "nothing"
      PROVE  ToldAfter(g)
  BY <1>c DEF ToldAfter
<1>d. ASSUME UNCHANGED call \/ (Taken(c) /\ k.pc = "awaiting")
      PROVE  \A d \in Deliveries : call'[d] = call[d] \/ call'[d].pc # "answered"
  BY <1>0, <1>1, <1>d, TakenEffect, NoCallTyped
<1>e. ASSUME Restored PROVE UNCHANGED <<host, lock, path, receipt, call>>
  BY <1>e DEF Restored
<1>3. ASSUME NEW kind \in Kinds, NEW force \in BOOLEAN, _lifecycle_service(c, kind, force)
      PROVE  OutcomeInv'
  <2>1. /\ OtherClients(c) /\ g.pc \in {"sysstop", "asking"}
        /\ g.pc = "sysstop" => Managed /\ g.kind = "restart"
        /\ g.attempt = 1 /\ g.inst = k.inst /\ g.told = k.told
    BY <1>0, <1>3, CommandEffect
  <2>2. UNCHANGED call /\ k.pc = "idle"
    BY <1>3 DEF _lifecycle_service
  <2> HIDE DEF g, k
  <2>3. KnowsAfter(g) /\ g.told = "nothing"
    BY <1>1, <1>2, <2>1, <2>2 DEF KnowsAfter, Managed
  <2> QED BY <1>a, <1>c, <1>d, <2>1, <2>2, <2>3
<1>4. CASE _request_once(c)
  <2>1. k.attempt \in {1, 2} /\ k.pc = "asking"
    BY <1>1, <1>4 DEF _request_once
  <2>2. \A d \in Deliveries : call'[d] = call[d] \/ call'[d].pc # "answered"
    BY <1>0, <1>4, <2>1, RequestOnceEffect
  <2>3. CASE Told(c, "error")
    BY <1>b, <2>2, <2>3
  <2>4. CASE Go(c, "awaiting")
    <3>1. OtherClients(c) /\ g.pc = "awaiting" /\ SameCommand(g, k)
      BY <1>0, <2>4, GoEffect
    <3> HIDE DEF g, k
    <3>2. KnowsAfter(g) /\ g.told = "nothing"
      BY <1>1, <2>1, <3>1 DEF KnowsAfter, SameCommand
    <3> QED BY <1>a, <1>c, <2>2, <3>1, <3>2
  <2> QED BY <1>4, <2>3, <2>4 DEF _request_once
<1>5. CASE Replay(c)
  <2>1. Taken(c) /\ k.pc = "awaiting"
    BY <1>5 DEF Replay
  <2>2. CASE Told(c, "error")
    BY <1>b, <1>d, <2>1, <2>2
  <2>3. CASE /\ OtherClients(c) /\ g.pc = "asking" /\ g.attempt = 2
             /\ g.inst = k.inst /\ g.told = k.told
    <3> HIDE DEF g, k
    <3>1. KnowsAfter(g) /\ g.told = "nothing"
      BY <1>1, <2>1, <2>3 DEF KnowsAfter
    <3> QED BY <1>a, <1>c, <1>d, <2>1, <2>3, <3>1
  <2> QED BY <1>0, <1>5, <2>2, <2>3, ReplayEffect
<1>6. CASE Receive(c)
  <2>1. Taken(c) /\ k.pc = "awaiting"
    BY <1>6 DEF Receive
  <2>2. /\ Delivery(c) \in Calls /\ <<c, k.attempt>> \in Deliveries
    BY <1>0, <1>1, <2>1, TakenEffect
  <2>3. CASE Told(c, "error") \/ Told(c, "requested")
    BY <1>b, <1>d, <2>1, <2>3
  <2>4. CASE /\ Delivery(c).pc = "answered" /\ OtherClients(c)
             /\ g.inst = Delivery(c).at /\ g.req = Delivery(c).req
             /\ g.kind = k.kind /\ g.told = k.told
             /\ \/ g.pc = "sysstop" /\ Managed
                \/ g.pc = "restartread" /\ k.kind = "restart"
                \/ g.pc = "stopwait" /\ k.kind = "stop"
    <3>1. Owed(g.inst, g.req)
      BY <2>2, <2>4 DEF OutcomeInv, AnswersOwed, Delivery
    <3> HIDE DEF g, k
    <3>2. OwedAfter(g.inst, g.req)
      BY <3>1, OwedKept
    <3>3. g.inst \in Instances /\ host'[g.inst].pc \notin {"unborn", "spawned"}
      BY <3>2 DEF OwedAfter
    <3>4. KnowsAfter(g) /\ g.told = "nothing"
      BY <1>0, <1>1, <1>2, <2>1, <2>4, <3>2, <3>3 DEF KnowsAfter, Managed
    <3> QED BY <1>a, <1>c, <1>d, <2>1, <2>4, <3>4
  <2> QED BY <1>0, <1>6, <2>2, <2>3, <2>4, ReceiveEffect
<1>7. CASE StopPoll(c)
  <2>1. k.pc = "stopwait" /\ lock = None /\ Restored
    BY <1>7 DEF StopPoll
  <2>2. OtherClients(c) /\ g.pc = "stopcheck" /\ SameCommand(g, k)
    BY <1>0, <1>7, GoEffect DEF StopPoll
  <2>3. k.kind = "stop" /\ Owed(k.inst, k.req)
    BY <1>0, <2>1 DEF ClientKnows
  <2> HIDE DEF g, k
  <2>4. k.inst \in Instances /\ Begun(k.inst)
    BY <2>3 DEF Owed
  <2>5. Over(k.inst)
    BY <1>0, <2>1, <2>4, BegunOrOver
  <2>6. host'[k.inst].pc = "ended"
    BY <2>4, <2>5 DEF StepFacts, StableImages
  <2>7. OwedAfter(k.inst, k.req)
    BY <2>3, OwedKept
  <2>8. KnowsAfter(g) /\ g.told = "nothing"
    BY <1>1, <2>1, <2>2, <2>3, <2>6, <2>7 DEF KnowsAfter, SameCommand
  <2> QED BY <1>a, <1>c, <1>d, <1>e, <2>1, <2>2, <2>8
<1>8. CASE StopCheck(c)
  <2> DEFINE w == IF Matches(c, "completed") THEN "stopped" ELSE "lost"
  <2>1. k.pc = "stopcheck" /\ Restored /\ Told(c, w)
    BY <1>8 DEF StopCheck
  <2>2. /\ OtherClients(c) /\ g.pc = "done" /\ g.told = w /\ g.inst = k.inst
    BY <1>0, <2>1, ToldEffect
  <2>3. k.kind = "stop" /\ Owed(k.inst, k.req) /\ Over(k.inst)
    BY <1>0, <2>1 DEF ClientKnows
  <2>4. k.inst \in Instances /\ host'[k.inst].pc = "ended" /\ UNCHANGED <<host, receipt, call>>
    BY <1>e, <2>1, <2>3 DEF Owed, Over
  <2>5. w = "lost" =>
          ~host[k.inst].completed \/ host[k.inst].joined \/ receipt.inst # k.inst
    BY <2>3 DEF Owed, Matches
  <2>6. w \in {"stopped", "lost"}
    OBVIOUS
  <2> HIDE DEF g, k, w
  <2>7. KnowsAfter(g)
    BY <1>1, <2>2, <2>4 DEF KnowsAfter
  <2>8. ToldAfter(g)
    BY <2>2, <2>4, <2>5, <2>6 DEF ToldAfter
  <2> QED BY <1>a, <1>d, <2>2, <2>4, <2>7, <2>8
<1>9. CASE RestartRead(c)
  <2>1. k.pc = "restartread" /\ Restored
    BY <1>9 DEF RestartRead
  <2>2. CASE Told(c, "error")
    BY <1>b, <1>d, <1>e, <2>1, <2>2
  <2>3. CASE /\ OtherClients(c) /\ g.pc = "restartping"
             /\ g.saw = "completed" => Matches(c, "completed") /\ g.repl = receipt.repl
             /\ g.kind = k.kind /\ g.inst = k.inst /\ g.told = k.told
    <3>1. k.kind = "restart" /\ k.inst # None
      BY <1>0, <2>1 DEF ClientKnows
    <3>2. g.saw = "completed" =>
            /\ g.repl \in Instances /\ Begun(g.repl) /\ host[g.repl].parent = k.inst
      BY <2>3, <3>1 DEF Matches, OutcomeInv, RestartReceipt
    <3>3. UNCHANGED host
      BY <1>e, <2>1
    <3> HIDE DEF g, k
    <3>4. KnowsAfter(g) /\ g.told = "nothing"
      BY <1>1, <2>1, <2>3, <3>1, <3>2, <3>3 DEF KnowsAfter, Begun
    <3> QED BY <1>a, <1>c, <1>d, <1>e, <2>1, <2>3, <3>4
  <2> QED BY <1>0, <1>9, <2>2, <2>3, RestartReadEffect
<1>10. CASE RestartPing(c)
  <2>1. k.pc = "restartping" /\ Restored
    BY <1>10 DEF RestartPing
  <2>2. k.kind = "restart" /\ k.inst # None
    BY <1>0, <2>1 DEF ClientKnows
  <2>3. CASE Told(c, "error")
    BY <1>b, <1>d, <1>e, <2>1, <2>3
  <2>4. CASE Replaced(c) /\ ToldRestarted(c)
    <3>1. /\ OtherClients(c) /\ g.pc = "done" /\ g.told = "restarted"
          /\ g.inst = k.inst /\ g.seen = path
      BY <1>0, <2>4, ToldRestartedEffect
    <3>2. path # k.inst /\ k.saw = "completed" /\ k.repl = path
      BY <2>4 DEF Replaced
    <3>3. path \in Instances /\ Begun(path) /\ host[path].parent = k.inst
      BY <1>0, <2>1, <3>2 DEF ClientKnows
    <3>4. Over(k.inst)
      BY <2>2, <3>3 DEF ImageInv, ParentIsGone
    <3>5. UNCHANGED host
      BY <1>e, <2>1
    <3> HIDE DEF g, k
    <3>6. KnowsAfter(g)
      BY <1>1, <3>1 DEF KnowsAfter
    <3>7. ToldAfter(g)
      BY <3>1, <3>2, <3>3, <3>4, <3>5 DEF ToldAfter, Begun, Over
    <3> QED BY <1>a, <1>d, <1>e, <2>1, <3>1, <3>6, <3>7
  <2>5. CASE Go(c, "restartread")
    <3>1. OtherClients(c) /\ g.pc = "restartread" /\ SameCommand(g, k)
      BY <1>0, <2>5, GoEffect
    <3> HIDE DEF g, k
    <3>2. KnowsAfter(g) /\ g.told = "nothing"
      BY <1>1, <2>1, <2>2, <3>1 DEF KnowsAfter, SameCommand
    <3> QED BY <1>a, <1>c, <1>d, <1>e, <2>1, <3>1, <3>2
  <2> QED BY <1>10, <2>3, <2>4, <2>5 DEF RestartPing
<1>11. CASE RestartDeadline(c)
  BY <1>11, <1>b, <1>d, <1>e DEF RestartDeadline
<1>12. CASE SystemdStop(c)
  <2>1. PICK i \in Images :
          /\ IF \E j \in Instances : Alive(j) THEN i # None /\ Alive(i) ELSE i = None
          /\ client' = [client EXCEPT
               ![c].pc = IF client[c].kind = "stop" THEN "sysgone" ELSE "sysdown",
               ![c].inst = IF @ = None THEN lock ELSE @,
               ![c].repl = i]
          /\ IF i = None THEN UNCHANGED <<host, lock, receipt, call>> ELSE SIGTERM(i)
    BY <1>12 DEF SystemdStop, Images
  <2>2. k.pc = "sysstop" /\ Managed /\ (k.kind = "stop" => k.inst # None)
    BY <1>0, <1>12 DEF SystemdStop, ClientKnows
  <2>3. /\ OtherClients(c)
        /\ \/ g.pc = "sysgone" /\ k.kind = "stop"
           \/ g.pc = "sysdown"
        /\ g.inst = IF k.inst = None THEN lock ELSE k.inst
        /\ g.repl = i /\ g.told = k.told
    BY <1>0, <2>1, SystemdStopEffect
  <2>4. i # None => i \in Instances
    BY DEF Images
  <2>5. UNCHANGED call \/ (i \in Instances /\ Threadless(i))
    BY <2>1, <2>4 DEF SIGTERM, Dies, Ended
  <2>6. \A d \in Deliveries : call'[d] = call[d] \/ call'[d].pc # "answered"
    BY <1>0, <2>5, EndedUnanswered
  <2> HIDE DEF g, k
  <2>7. g.inst # None => g.inst \in Instances /\ Begun(g.inst)
    <3>1. lock # None => lock \in Instances /\ Begun(lock)
      BY <1>0 DEF Images, AuthorityInv, HolderHolds, Held, Accepting, Begun
    <3> QED BY <1>1, <2>3, <3>1
  <2>8. g.inst \in {None, i} \/ (g.inst \in Instances /\ Over(g.inst))
    <3> SUFFICES ASSUME g.inst # None, ~Over(g.inst) PROVE g.inst = i
      BY <2>7
    <3>1. g.inst \in Instances /\ Alive(g.inst)
      BY <2>7 DEF Begun, Over, Alive
    <3>2. i \in Instances /\ Alive(i)
      BY <2>1, <2>4, <3>1
    <3> QED BY <2>2, <3>1, <3>2 DEF ImageInv, OneProcess
  <2>9. i # None => host'[i].pc # "unborn"
    BY <2>1, <2>4 DEF StepFacts, StableImages, Alive
  <2>10. g.inst # None => host'[g.inst].pc \notin {"unborn", "spawned"}
    BY <2>7 DEF StepFacts, StableImages
  <2>11. g.inst \in {None, i} \/ host'[g.inst].pc = "ended"
    BY <2>8 DEF StepFacts, StableImages
  <2>12. g.pc = "sysgone" => g.inst # None
    BY <2>2, <2>3
  <2>13. KnowsAfter(g) /\ g.told = "nothing"
    BY <1>1, <1>2, <2>2, <2>3, <2>9, <2>10, <2>11, <2>12 DEF KnowsAfter, Managed
  <2> QED BY <1>a, <1>c, <2>3, <2>6, <2>13
<1>13. CASE _wait_for_runtime_stop(c)
  <2>1. k.pc = "sysgone" /\ Restored
    BY <1>13 DEF _wait_for_runtime_stop
  <2>2. CASE Told(c, "error") \/ Told(c, "requested")
    BY <1>b, <1>d, <1>e, <2>1, <2>2
  <2>3. CASE lock = None /\ Told(c, "stopped")
    <3>1. OtherClients(c) /\ g.pc = "done" /\ g.told = "stopped" /\ g.inst = k.inst
      BY <1>0, <2>3, ToldEffect
    <3>2. k.inst # None
      BY <1>0, <2>1 DEF ClientKnows
    <3> HIDE DEF g, k
    <3>3. k.inst \in Instances /\ Over(k.inst)
      BY <1>0, <1>1, <2>3, <3>2, BegunOrOver
    <3>4. UNCHANGED host
      BY <1>e, <2>1
    <3>5. KnowsAfter(g)
      BY <1>1, <3>1 DEF KnowsAfter
    <3>6. ToldAfter(g)
      BY <3>1, <3>3, <3>4 DEF ToldAfter, Over
    <3> QED BY <1>a, <1>d, <1>e, <2>1, <3>1, <3>5, <3>6
  <2> QED BY <1>13, <2>2, <2>3 DEF _wait_for_runtime_stop
<1>14. CASE SystemdStart(c)
  <2>1. /\ k.pc = "sysdown" /\ UNCHANGED call
        /\ IF k.repl = None THEN TRUE ELSE ~Alive(k.repl)
    BY <1>14 DEF SystemdStart
  <2>2. OtherClients(c) /\ g.pc = "sysup" /\ SameCommand(g, k)
    BY <1>0, <1>14, GoEffect DEF SystemdStart
  <2>3. /\ Managed /\ (k.inst \in {None, k.repl} \/ Over(k.inst))
        /\ k.repl # None => host[k.repl].pc # "unborn"
    BY <1>0, <2>1 DEF ClientKnows
  <2> HIDE DEF g, k
  <2>4. k.inst = None \/ Over(k.inst)
    BY <2>1, <2>3 DEF Alive, Over
  <2>5. k.inst = None \/ host'[k.inst].pc = "ended"
    BY <1>1, <2>4 DEF StepFacts, StableImages
  <2>6. KnowsAfter(g) /\ g.told = "nothing"
    BY <1>1, <1>2, <2>1, <2>2, <2>3, <2>5 DEF KnowsAfter, SameCommand, Managed
  <2> QED BY <1>a, <1>c, <1>d, <2>1, <2>2, <2>6
<1>15. CASE wait_ready(c)
  <2>1. k.pc = "sysup" /\ Restored
    BY <1>15 DEF wait_ready
  <2>2. CASE Told(c, "error")
    BY <1>b, <1>d, <1>e, <2>1, <2>2
  <2>3. CASE path # None /\ Ready(path) /\ ToldRestarted(c)
    <3>1. /\ OtherClients(c) /\ g.pc = "done" /\ g.told = "restarted"
          /\ g.inst = k.inst /\ g.seen = path
      BY <1>0, <2>3, ToldRestartedEffect
    <3>2. Managed /\ (k.inst = None \/ Over(k.inst))
      BY <1>0, <2>1 DEF ClientKnows
    <3>3. path \in Instances /\ Begun(path) /\ ~Over(path)
      BY <1>0, <2>3 DEF Images, Ready, Begun, Over
    <3>4. UNCHANGED host
      BY <1>e, <2>1
    <3> HIDE DEF g, k
    <3>5. KnowsAfter(g)
      BY <1>1, <3>1 DEF KnowsAfter
    <3>6. ToldAfter(g)
      BY <1>0, <1>2, <3>1, <3>2, <3>3, <3>4 DEF ToldAfter, Managed, Begun, Over
    <3> QED BY <1>a, <1>d, <1>e, <2>1, <3>1, <3>5, <3>6
  <2> QED BY <1>15, <2>2, <2>3 DEF wait_ready
<1> QED BY <1>3, <1>4, <1>5, <1>6, <1>7, <1>8, <1>9, <1>10, <1>11, <1>12, <1>13, <1>14,
           <1>15 DEF ClientStep

-----------------------------------------------------------------------------
\* The theorems.

\* The initial states satisfy the inductive invariant.
LEMMA InitIInv == ASSUME Init PROVE IInv
<1> USE HostAssumption
<1>0. /\ hosting \in Hostings /\ host = [i \in Instances |-> Unborn]
      /\ lock = None /\ path = None /\ receipt = NoReceipt
      /\ client = [c \in Clients |-> Commanding]
      /\ call = [d \in Deliveries |-> NoCall] /\ load = 0
  BY DEF Init
<1>1. /\ Unborn \in Hosts /\ Unborn.pc = "unborn" /\ Unborn.parent = None
      /\ Unborn.intent = "none" /\ ~Unborn.persisted /\ ~Unborn.completed
  BY DEF Unborn, Hosts, HostPc, Kinds, Requests, Images
<1>2. NoReceipt \in Receipts /\ NoReceipt.state = "none"
  BY DEF NoReceipt, Receipts, Requests, Images
<1>3. /\ Commanding.pc = "idle" /\ Commanding.inst = None
      /\ Commanding.told = "nothing"
  BY DEF Commanding
<1>4. TypeOK
  <2>1. None \in Images /\ load \in 0..MaxLoad
    BY <1>0 DEF Images
  <2> QED BY <1>0, <1>1, <1>2, <2>1, CommandingTyped, NoCallTyped DEF TypeOK
<1>5. HolderHolds /\ BoundAtPath
  BY <1>0, <1>1 DEF HolderHolds, BoundAtPath, Held, Accepting, SignalOwned
<1>6. ImageInv
  BY <1>0, <1>1 DEF ImageInv, OneProcess, EndFollowsIntent, ParentIsGone, Alive
<1>7. HandlerInv
  BY <1>0, <1>1, NoCallTyped DEF HandlerInv, CallsHandled, OneWriter, Recorded, Running
<1>8. OutcomeInv
  <2>1. RestartReceipt /\ AnswersOwed
    BY <1>0, <1>2, NoCallTyped DEF RestartReceipt, AnswersOwed
  <2>2. ASSUME NEW c \in Clients
        PROVE  ClientKnows(client[c]) /\ ToldHolds(client[c])
    <3>1. client[c].pc = "idle" /\ client[c].inst = None /\ client[c].told = "nothing"
      BY <1>0, <1>3
    <3> QED BY <3>1 DEF ClientKnows, ToldHolds
  <2> QED BY <2>1, <2>2 DEF OutcomeInv, ClientsKnow, ToldStays
<1> QED BY <1>4, <1>5, <1>6, <1>7, <1>8 DEF IInv, AuthorityInv

\* Nothing changes.
LEMMA StutterIInv ==
  ASSUME IInv, UNCHANGED vars
  PROVE  IInv'
<1>1. UNCHANGED <<hosting, host, lock, path, receipt, client, call, load>>
  BY DEF vars
<1>2. AuthorityInv' /\ ImageInv'
  BY <1>1, ImagesKept DEF IInv, AuthorityInv, TypeOK
<1>3. StepFacts /\ HandlerInv'
  BY <1>1, QuietFacts DEF IInv, OutcomeInv
<1>4. OutcomeInv'
  BY <1>1, <1>3, UnansweredOutcome DEF IInv, AuthorityInv
<1> QED BY <1>2, <1>3, <1>4 DEF IInv

\* Every step preserves the inductive invariant.
LEMMA NextIInv ==
  ASSUME IInv, [Next]_vars
  PROVE  IInv'
<1>0. /\ AuthorityInv /\ ImageInv /\ HandlerInv /\ OutcomeInv /\ RestartReceipt
      /\ ClientsKnow /\ CallsHandled /\ TypeOK
  BY DEF IInv, AuthorityInv, HandlerInv, OutcomeInv
<1>1. ASSUME NEW i \in Instances, OwnerStep(i)
      PROVE  IInv'
  BY <1>0, <1>1, OwnerStepImages, OwnerStepFacts, OwnerStepOutcome DEF IInv
<1>2. ASSUME NEW i \in Instances, _run_default_command(i) \/ Crash(i) \/ OperatorSIGTERM(i)
      PROVE  IInv'
  BY <1>0, <1>2, EnvironmentImages, EnvironmentFacts, EnvironmentOutcome DEF IInv
<1>3. ASSUME NEW d \in Deliveries, HandlerStep(d)
      PROVE  IInv'
  BY <1>0, <1>3, HandlerStepImages, HandlerStepFacts, HandlerStepOutcome DEF IInv
<1>4. ASSUME NEW c \in Clients,
             \/ ClientStep(c)
             \/ \E kind \in Kinds, force \in BOOLEAN : _lifecycle_service(c, kind, force)
      PROVE  IInv'
  BY <1>0, <1>4, ClientStepImages, ClientStepFacts, ClientStepOutcome DEF IInv
<1>5. ASSUME NEW c \in Clients,
             \/ _lifecycle_service(c, "stop", FALSE)
             \/ \E force \in BOOLEAN : _lifecycle_service(c, "restart", force)
      PROVE  IInv'
  <2>1. \E kind \in Kinds, force \in BOOLEAN : _lifecycle_service(c, kind, force)
    BY <1>5 DEF Kinds
  <2> QED BY <1>4, <2>1
<1>6. CASE UNCHANGED vars
  BY <1>6, StutterIInv
<1> QED BY <1>1, <1>2, <1>3, <1>4, <1>5, <1>6 DEF Next

\* The inductive invariant holds in every reachable state, for every number of
\* images, clients and faults and however the project is hosted.
THEOREM Invariance == Spec => []IInv
<1>1. Init => IInv
  BY InitIInv
<1>2. IInv /\ [Next]_vars => IInv'
  BY NextIInv
<1> QED BY <1>1, <1>2, PTL DEF Spec

\* Every variable keeps its type.
THEOREM TypeCorrect == Spec => []TypeOK
<1>1. IInv => TypeOK
  BY DEF IInv, AuthorityInv
<1> QED BY <1>1, Invariance, PTL

\* Whoever listens on the project socket holds the lock of the checkout, and
\* the name in the file system is its own (ServiceHost.run, UnixIPCServer.start
\* and stop, _reexec).
THEOREM EndpointHeld == Spec => []EndpointIsHolders
<1>1. IInv => EndpointIsHolders
  BY DEF IInv, AuthorityInv, HolderHolds, BoundAtPath, EndpointIsHolders, Held, Accepting,
    SignalOwned
<1> QED BY <1>1, Invariance, PTL

\* A client told "service stopped" asked an image that has given up the
\* authority; one told "service restarted" saw another image ready, which
\* without systemd inherited the authority from the image that was asked
\* (_wait_for_service_stop, _wait_for_service_restart, wait_ready).
THEOREM ToldTrue == Spec => []ToldIsTrue
<1>1. IInv => ToldIsTrue
  BY DEF IInv, OutcomeInv, ToldStays, ToldHolds, ToldIsTrue
<1> QED BY <1>1, Invariance, PTL

\* A graceful stop is reported as lost only when another request joined it or
\* another image has written the receipt since (lifecycle_receipt_ready,
\* _wait_for_service_stop).
THEOREM StopReported == Spec => []GracefulStopReported
<1>1. IInv => GracefulStopReported
  BY DEF IInv, OutcomeInv, ToldStays, ToldHolds, GracefulStopReported
<1> QED BY <1>1, Invariance, PTL
=============================================================================
