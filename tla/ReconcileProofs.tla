-------------------------- MODULE ReconcileProofs --------------------------
(***************************************************************************)
(* Proofs about Reconcile, for any set of product commits and any number   *)
(* of changes by others, of faults and of operator commands.               *)
(***************************************************************************)
EXTENDS Reconcile, SequenceTheorems, TLAPS

USE DEF issued

-----------------------------------------------------------------------------
\* Commits, references and histories.

\* The values that stand for no commit of the execution are none of its works,
\* and differ.
LEMMA Outsiders ==
  /\ None \notin Works /\ Prior \notin Works /\ Alien \notin Works
  /\ None # Prior /\ None # Alien /\ Prior # Alien
  BY CommandsAssumption DEF None, Prior, Alien, Work, Works

\* What a work is made of.
LEMMA WorkParts ==
  ASSUME NEW b \in Commits, NEW n \in 0..MaxCommands
  PROVE  Work(b, n) \in Works /\ Work(b, n).base = b
  BY DEF Work, Works

\* The initial records are of their types.
LEMMA Blanks ==
  /\ NoRun \in [stage : Stages, base : Commits, head : Works \cup {None},
                remote : Refs, control : Controls]
  /\ NoRecon \in [status : Statuses, base : Commits, head : Works \cup {None},
                  remote : Refs, control : Controls,
                  rewrite : {"none", "local-pending", "remote-pending"},
                  target : Commits, result : Works \cup {None}, auth : BOOLEAN]
  /\ NoCmd \in [by : {"scheduler", "operator"}, resume : BOOLEAN, was : BOOLEAN,
                auth : BOOLEAN, onto : Commits, saw : Refs]
  /\ Home \in [lh : Commits, th : Commits, seen : Commits, was : Phases]
<1>1. /\ First \in Commits /\ <<>> \in Controls /\ None \in Refs
      /\ None \in Works \cup {None} /\ "none" \in Stages /\ "none" \in Statuses
      /\ "idle" \in Phases
  BY ProductAssumption DEF Controls, Refs, Stages, Statuses, Phases
<1> HIDE DEF None
<1> QED BY <1>1 DEF NoRun, NoRecon, NoCmd, Home

\* A history of two commits.
LEMMA TwoCommits ==
  ASSUME NEW a, NEW b
  PROVE  Append(<<a>>, b) = <<a, b>>
<1> DEFINE s == Append(<<a>>, b)
           t == <<a, b>>
<1>1. <<a>> \in Seq({a, b}) /\ Len(<<a>>) = 1 /\ <<a>>[1] = a
  OBVIOUS
<1>2. s \in Seq({a, b}) /\ Len(s) = 2 /\ s[1] = a /\ s[2] = b
  BY <1>1
<1>3. t \in Seq({a, b}) /\ Len(t) = 2 /\ t[1] = a /\ t[2] = b
  OBVIOUS
<1>4. \A i \in 1..Len(s) : s[i] = t[i]
  <2> HIDE DEF s, t
  <2>1. \A i \in 1..Len(s) : i = 1 \/ i = 2
    BY <1>2
  <2> QED BY <1>2, <1>3, <2>1
<1> HIDE DEF s, t
<1>5. s = t
  BY <1>2, <1>3, <1>4, SeqEqual
<1> QED BY <1>5 DEF s, t

\* The control history takes each commit once.
LEMMA ControlGrows ==
  ASSUME NEW h \in Controls, NEW c \in {"own", "other"}, c \notin Range(h)
  PROVE  Append(h, c) \in Controls
<1>1. h = <<>> \/ h = <<"own">> \/ h = <<"other">> \/ h = <<"other", "own">>
        \/ h = <<"own", "other">>
  BY DEF Controls
<1>2. CASE h = <<>>
  <2>1. Append(h, c) = <<c>>
    BY <1>2
  <2> QED BY <2>1 DEF Controls
<1>3. CASE h = <<"own">>
  <2>1. h[1] \in Range(h) /\ h[1] = "own"
    BY <1>3 DEF Range
  <2>2. c = "other"
    BY <2>1
  <2>3. Append(<<"own">>, "other") = <<"own", "other">>
    BY TwoCommits
  <2> QED BY <1>3, <2>2, <2>3 DEF Controls
<1>4. CASE h = <<"other">>
  <2>1. h[1] \in Range(h) /\ h[1] = "other"
    BY <1>4 DEF Range
  <2>2. c = "own"
    BY <2>1
  <2>3. Append(<<"other">>, "own") = <<"other", "own">>
    BY TwoCommits
  <2> QED BY <1>4, <2>2, <2>3 DEF Controls
<1>5. CASE h = <<"other", "own">> \/ h = <<"own", "other">>
  <2>1. h[1] \in Range(h) /\ h[2] \in Range(h) /\ {h[1], h[2]} = {"own", "other"}
    BY <1>5 DEF Range
  <2> QED BY <2>1
<1> QED BY <1>1, <1>2, <1>3, <1>4, <1>5

-----------------------------------------------------------------------------
\* The initial state.
LEMMA InitIInv == Init => IInv
<1> SUFFICES ASSUME Init PROVE IInv
  OBVIOUS
<1>1. TypeOK
  <2>1. /\ recon \in [status : Statuses, base : Commits, head : Works \cup {None},
                      remote : Refs, control : Controls,
                      rewrite : {"none", "local-pending", "remote-pending"},
                      target : Commits, result : Works \cup {None}, auth : BOOLEAN]
        /\ run \in [stage : Stages, base : Commits, head : Works \cup {None},
                    remote : Refs, control : Controls]
        /\ cmd \in [by : {"scheduler", "operator"}, resume : BOOLEAN, was : BOOLEAN,
                    auth : BOOLEAN, onto : Commits, saw : Refs]
        /\ vol \in [lh : Commits, th : Commits, seen : Commits, was : Phases]
    BY Blanks DEF Init, InitProduct
  <2>2. None \in Refs /\ Prior \in Refs /\ <<>> \in Controls
    BY DEF Refs, Controls
  <2> HIDE DEF None, Prior, Alien
  <2>3. ws \in [head : Works \cup {None, Spoiled}, rebasing : BOOLEAN]
    BY DEF Init
  <2>4. rec \in [phase : Phases, local : Commits, remote : Commits]
    BY ProductAssumption DEF Init, InitProduct, InitialRec, Phases
  <2> QED
    BY ProductAssumption, CommandsAssumption, <2>1, <2>2, <2>3, <2>4
    DEF TypeOK, Init, InitProduct, ProductPcs
<1>2. SyncInv /\ RunInv /\ ReconInv /\ CommandInv
  BY Outsiders DEF SyncInv, RunInv, ReconInv, CommandInv, Init, InitProduct,
       NoRun, NoRecon, NoCmd, ProductPcs, RunPcs, ResumePcs, UpdatePcs, AtHead,
       PushedTo, InitialRec, Home
<1> QED BY <1>1, <1>2 DEF IInv

-----------------------------------------------------------------------------
\* The synchronization, and everybody else.

\* Steps that leave the execution, the reconciliation and the owner alone.
LEMMA OwnerKeeps ==
  ASSUME SyncInv, RunInv, ReconInv, CommandInv,
         UNCHANGED <<rec, pc, vol, work, cmd>>
  PROVE  SyncInv' /\ RunInv' /\ ReconInv' /\ CommandInv'
  BY DEF SyncInv, RunInv, ReconInv, CommandInv, AtHead, PushedTo, work

\* Steps of the synchronization: between them the owner is in no execution
\* and no command.
LEMMA SyncKeeps ==
  ASSUME RunInv, ReconInv, CommandInv, UNCHANGED <<work, cmd>>,
         pc \in ProductPcs, pc' \in ProductPcs,
         rec.phase = "agent_running" <=> rec'.phase = "agent_running"
  PROVE  RunInv' /\ ReconInv' /\ CommandInv'
<1>1. UNCHANGED <<run, recon, ws, branch, evidence, rewritten, control, cmd>>
  BY DEF work
<1>2. /\ pc' \notin RunPcs /\ pc' \notin ResumePcs /\ pc' \notin UpdatePcs
      /\ pc' \notin {"observe", "pin", "push", "pushed", "lifecycle", "finalize",
                     "resolve", "resuming", "record", "publish", "published",
                     "rebased", "pinned"}
  BY DEF ProductPcs, RunPcs, ResumePcs, UpdatePcs
<1>3. RunInv'
  BY <1>1, <1>2 DEF RunInv, AtHead, PushedTo
<1>4. ReconInv'
  BY <1>1, <1>2 DEF ReconInv, AtHead, PushedTo
<1>5. CommandInv'
  BY <1>1, <1>2 DEF CommandInv
<1> QED BY <1>3, <1>4, <1>5

\* The types, apart from those of the product.
WorkOK ==
  /\ run \in [stage : Stages, base : Commits, head : Works \cup {None},
              remote : Refs, control : Controls]
  /\ recon \in [status : Statuses, base : Commits, head : Works \cup {None},
                remote : Refs, control : Controls,
                rewrite : {"none", "local-pending", "remote-pending"},
                target : Commits, result : Works \cup {None}, auth : BOOLEAN]
  /\ ws \in [head : Works \cup {None, Spoiled}, rebasing : BOOLEAN]
  /\ branch \in Refs /\ evidence \in Refs /\ rewritten \in Refs
  /\ control \in Controls

CommandOK ==
  /\ commands \in 0..MaxCommands /\ authorized \subseteq Commits
  /\ cmd \in [by : {"scheduler", "operator"}, resume : BOOLEAN, was : BOOLEAN,
              auth : BOOLEAN, onto : Commits, saw : Refs]

ProductOK ==
  /\ {origin, seen, local} \subseteq Commits /\ tidy \in BOOLEAN
  /\ moves \in 0..MaxMoves /\ faults \in 0..MaxFaults

SyncOK ==
  /\ rec \in [phase : Phases, local : Commits, remote : Commits]
  /\ pc \in ProductPcs \cup RunPcs \cup ResumePcs \cup UpdatePcs
  /\ vol \in [lh : Commits, th : Commits, seen : Commits, was : Phases]

\* The parts of the type invariant.
LEMMA TypeParts ==
  /\ TypeOK <=> ProductOK /\ SyncOK /\ WorkOK /\ CommandOK
  /\ (TypeOK <=> ProductOK /\ SyncOK /\ WorkOK /\ CommandOK)'
  BY DEF TypeOK, ProductOK, SyncOK, WorkOK, CommandOK

\* What a step leaves alone keeps its type.
LEMMA TypesKept ==
  ASSUME TypeOK
  PROVE  /\ UNCHANGED <<product, bounds>> => ProductOK'
         /\ UNCHANGED <<rec, pc, vol>> => SyncOK'
         /\ UNCHANGED work => WorkOK'
         /\ UNCHANGED <<cmd, issued>> => CommandOK'
<1>1. ProductOK /\ SyncOK /\ WorkOK /\ CommandOK
  BY TypeParts
<1>2. UNCHANGED <<product, bounds>> => ProductOK'
  BY <1>1 DEF ProductOK, product, bounds
<1>3. UNCHANGED <<rec, pc, vol>> => SyncOK'
  BY <1>1 DEF SyncOK
<1>4. UNCHANGED work => WorkOK'
  BY <1>1 DEF WorkOK, work
<1>5. UNCHANGED <<cmd, issued>> => CommandOK'
  BY <1>1 DEF CommandOK
<1> QED BY <1>2, <1>3, <1>4, <1>5

\* One step of the synchronization.
LEMMA SyncIInv == IInv /\ Synchronize => IInv'
<1> SUFFICES ASSUME IInv, Synchronize PROVE IInv'
  OBVIOUS
<1>1. TypeOK /\ SyncInv /\ RunInv /\ ReconInv /\ CommandInv
  BY DEF IInv
<1>2. UNCHANGED <<work, cmd, issued>> /\ SyncStep(Absorbed)
  BY DEF Synchronize
<1>3. WorkOK' /\ CommandOK'
  BY <1>1, <1>2, TypesKept
<1>4. ProductOK /\ SyncOK
  BY <1>1, TypeParts
<1>5. UNCHANGED run
  BY <1>2 DEF work
<1>6. SUFFICES /\ ProductOK' /\ SyncOK' /\ SyncInv'
               /\ pc \in ProductPcs /\ pc' \in ProductPcs
               /\ rec.phase = "agent_running" <=> rec'.phase = "agent_running"
  BY <1>1, <1>2, <1>3, TypeParts, SyncKeeps DEF IInv
<1>7. Home \in [lh : Commits, th : Commits, seen : Commits, was : Phases]
        /\ Home.was = "idle"
  BY Blanks DEF Home
<1> USE DEF ProductPcs, Phases
<1>8. CASE Fetch
  <2>1. vol' \in [lh : Commits, th : Commits, seen : Commits, was : Phases]
          /\ vol'.was = rec.phase
    BY <1>4, <1>8 DEF Fetch, Target, ProductOK, SyncOK
  <2> QED BY <1>1, <1>2, <1>4, <1>5, <1>8, <2>1 DEF Fetch, ProductOK, SyncOK, SyncInv, bounds
<1>9. CASE SyncRefused(Absorbed)
  <2>1. vol' = Home /\ pc' \in {"ready", "off"} /\ pc = "fetched"
          /\ UNCHANGED <<product, rec, bounds>>
    BY <1>9 DEF SyncRefused, Fail
  <2> QED BY <1>1, <1>2, <1>4, <1>5, <1>7, <2>1 DEF ProductOK, SyncOK, SyncInv, product, bounds
<1>10. CASE SyncDiverged \/ MergeFails \/ EndMergeRefused(Absorbed)
  <2>1. vol' = Home /\ pc' \in {"ready", "off"} /\ pc \in {"fetched", "merging", "merged"}
          /\ UNCHANGED <<product, rec, bounds>>
    BY <1>10 DEF SyncDiverged, MergeFails, EndMergeRefused, Fail
  <2> QED BY <1>1, <1>2, <1>4, <1>5, <1>7, <2>1 DEF ProductOK, SyncOK, SyncInv, product, bounds
<1>11. CASE SaveMerge
  BY <1>1, <1>2, <1>4, <1>5, <1>11 DEF SaveMerge, ProductOK, SyncOK, SyncInv, product, bounds
<1>12. CASE Merge
  BY <1>1, <1>2, <1>4, <1>5, <1>12 DEF Merge, ProductOK, SyncOK, SyncInv, product, bounds
<1>13. CASE EndMerge
  <2>1. /\ rec'.phase \in {"agent_pending", "idle"} /\ pc = "merged"
        /\ rec'.phase = "agent_pending" <=> vol.was = "agent_pending"
        /\ vol'.was = vol.was
    BY <1>4, <1>13 DEF EndMerge, Synchronized, SyncOK
  <2>2. ProductOK' /\ SyncOK'
    BY <1>4, <1>13 DEF EndMerge, Synchronized, ProductOK, SyncOK, product, bounds
  <2> QED BY <1>1, <1>2, <1>5, <1>13, <2>1, <2>2 DEF EndMerge, SyncInv
<1>14. CASE EndSync
  <2>1. /\ rec'.phase \in {"agent_pending", "idle"} /\ pc = "fetched" /\ UNCHANGED vol
        /\ rec'.phase = "agent_pending" => vol.was = "agent_pending"
    BY <1>1, <1>4, <1>14 DEF EndSync, Pending, Synchronized, SyncOK, SyncInv
  <2>2. ProductOK' /\ SyncOK'
    BY <1>4, <1>14 DEF EndSync, Synchronized, ProductOK, SyncOK, product, bounds
  <2> QED BY <1>1, <1>2, <1>5, <1>14, <2>1, <2>2 DEF EndSync, SyncInv
<1> QED BY <1>2, <1>8, <1>9, <1>10, <1>11, <1>12, <1>13, <1>14 DEF SyncStep

\* The owner is back in its loop, or gone, with nothing in hand.
LEMMA Returns ==
  ASSUME IInv, UNCHANGED <<rec, work>>, pc' \in {"ready", "off"}, vol' = Home,
         cmd' = NoCmd, UNCHANGED issued, ProductOK'
  PROVE  IInv'
<1>1. TypeOK /\ SyncInv /\ RunInv /\ ReconInv /\ CommandInv
  BY DEF IInv
<1>2. UNCHANGED <<run, recon, ws, branch, evidence, rewritten, control>>
  BY DEF work
<1>3. /\ pc' \in ProductPcs /\ pc' \notin RunPcs /\ pc' \notin ResumePcs /\ pc' \notin UpdatePcs
      /\ pc' \notin {"observe", "pin", "push", "pushed", "lifecycle", "finalize",
                     "resolve", "resuming", "record", "publish", "published",
                     "rebased", "pinned", "fetched", "merging", "merged", "synced"}
  BY DEF ProductPcs, RunPcs, ResumePcs, UpdatePcs
<1>4. WorkOK' /\ SyncOK /\ CommandOK
  BY <1>1, TypesKept, TypeParts
<1>5. SyncOK' /\ CommandOK'
  BY <1>3, <1>4, Blanks DEF SyncOK, CommandOK
<1>6. SyncInv'
  BY <1>1, <1>2, <1>3 DEF SyncInv, Home, NoCmd
<1>7. RunInv'
  BY <1>1, <1>2, <1>3 DEF RunInv, AtHead, PushedTo
<1>8. ReconInv'
  BY <1>1, <1>2, <1>3 DEF ReconInv, AtHead, PushedTo
<1>9. CommandInv'
  BY <1>1, <1>2, <1>3 DEF CommandInv
<1> QED BY <1>4, <1>5, <1>6, <1>7, <1>8, <1>9, TypeParts DEF IInv

\* The product, the branches and the process, by others.
OthersStep ==
  \/ ServiceStops \/ ProductEnvironment \/ OthersBranch \/ SyncControl
  \/ ProcessEnds \/ ProcessStarts

LEMMA OthersIInv == IInv /\ OthersStep => IInv'
<1> SUFFICES ASSUME IInv, OthersStep PROVE IInv'
  OBVIOUS
<1>1. TypeOK /\ SyncInv /\ RunInv /\ ReconInv /\ CommandInv
  BY DEF IInv
<1>2. ProductOK /\ SyncOK /\ WorkOK /\ CommandOK
  BY <1>1, TypeParts
<1>3. CASE ServiceStops
  <2>1. UNCHANGED <<rec, work, cmd, issued>> /\ pc = "fetched" /\ pc' = "off" /\ vol' = Home
    BY <1>3 DEF ServiceStops, StopBeforeMerge
  <2>2. ProductOK'
    BY <1>2, <1>3, ProductAssumption DEF ServiceStops, StopBeforeMerge, ProductOK, product
  <2>3. SyncInv'
    BY <1>1, <2>1 DEF SyncInv, Home, work, ProductPcs
  <2>4. SyncOK' /\ WorkOK' /\ CommandOK'
    BY <1>1, <1>2, <2>1, TypesKept, Blanks DEF SyncOK, ProductPcs
  <2>5. RunInv' /\ ReconInv' /\ CommandInv'
    BY <1>1, <2>1, SyncKeeps DEF ProductPcs
  <2> QED BY <2>2, <2>3, <2>4, <2>5, TypeParts DEF IInv
<1>4. CASE ProductEnvironment
  <2>1. UNCHANGED <<rec, pc, vol, work, cmd, issued>>
    BY <1>4 DEF ProductEnvironment, ProductChanges, OthersPush, OperatorMoves,
         OperatorFetches, OperatorEdits, OperatorTidies, Meddle
  <2>2. ProductOK'
    <3>1. CASE OthersPush
      BY <1>2, <3>1, ProductAssumption DEF OthersPush, Meddle, ProductOK
    <3>2. CASE OperatorMoves
      BY <1>2, <3>2, ProductAssumption DEF OperatorMoves, Meddle, ProductOK
    <3>3. CASE OperatorFetches
      BY <1>2, <3>3, ProductAssumption DEF OperatorFetches, Meddle, ProductOK
    <3>4. CASE OperatorEdits
      <4>1. tidy' \in BOOLEAN
        BY <3>4 DEF OperatorEdits
      <4>2. /\ moves' \in 0..MaxMoves /\ faults' \in 0..MaxFaults
            /\ {origin', seen', local'} \subseteq Commits
        BY <1>2, <3>4, ProductAssumption DEF OperatorEdits, Meddle, ProductOK
      <4> QED BY <4>1, <4>2 DEF ProductOK
    <3>5. CASE OperatorTidies
      BY <1>2, <3>5 DEF OperatorTidies, ProductOK, bounds
    <3> QED BY <1>4, <3>1, <3>2, <3>3, <3>4, <3>5 DEF ProductEnvironment, ProductChanges
  <2> QED BY <1>1, <2>1, <2>2, OwnerKeeps, TypesKept, TypeParts DEF IInv
<1>5. CASE OthersBranch
  <2>1. /\ UNCHANGED <<product, rec, pc, vol, faults, run, recon, ws, evidence,
                       rewritten, control, cmd, issued>>
        /\ branch' = Alien
    BY <1>5 DEF OthersBranch
  <2>2. ProductOK'
    BY <1>2, <1>5, ProductAssumption DEF OthersBranch, ProductOK, product
  <2>3. WorkOK'
    BY <1>2, <2>1 DEF WorkOK, Refs
  <2>4. SyncInv' /\ CommandInv'
    BY <1>1, <2>1 DEF SyncInv, CommandInv, PushedTo, AtHead
  <2>5. RunInv' /\ ReconInv'
    BY <1>1, <2>1, Outsiders DEF RunInv, ReconInv, PushedTo, AtHead
  <2> QED BY <1>1, <2>1, <2>2, <2>3, <2>4, <2>5, TypesKept, TypeParts DEF IInv
<1>6. CASE SyncControl
  <2>1. UNCHANGED <<product, rec, pc, vol, faults, run, recon, ws, branch,
                    evidence, rewritten, cmd, issued>>
    BY <1>6 DEF SyncControl
  <2>2. ProductOK'
    BY <1>2, <1>6, ProductAssumption DEF SyncControl, ProductOK, product
  <2>3. WorkOK'
    <3>1. control' \in Controls
      BY <1>2, <1>6, ControlGrows DEF SyncControl, WorkOK
    <3> QED BY <1>2, <2>1, <3>1 DEF WorkOK
  <2>4. SyncInv' /\ RunInv' /\ ReconInv' /\ CommandInv'
    BY <1>1, <2>1 DEF SyncInv, RunInv, ReconInv, CommandInv, PushedTo, AtHead
  <2> QED BY <1>1, <2>1, <2>2, <2>3, <2>4, TypesKept, TypeParts DEF IInv
<1>7. CASE ProcessEnds
  <2>1. ProductOK'
    BY <1>2, <1>7, ProductAssumption DEF ProcessEnds, Crash, ProductOK, product
  <2> QED BY <1>7, <2>1, Returns DEF ProcessEnds, Crash
<1>8. CASE ProcessStarts
  <2>1. UNCHANGED <<product, rec, vol, bounds, work, cmd, issued>>
          /\ pc = "off" /\ pc' = "ready"
    BY <1>8 DEF ProcessStarts, Start
  <2>2. SyncInv' /\ SyncOK'
    BY <1>1, <1>2, <2>1 DEF SyncInv, SyncOK, work, ProductPcs
  <2> QED BY <1>1, <2>1, <2>2, SyncKeeps, TypesKept, TypeParts DEF IInv, ProductPcs
<1> QED BY <1>3, <1>4, <1>5, <1>6, <1>7, <1>8 DEF OthersStep

-----------------------------------------------------------------------------
\* The execution.

\* The observation of the product, and a step that does not touch it.
LEMMA ProductKept ==
  ASSUME TypeOK, UNCHANGED bounds, Observe \/ UNCHANGED product
  PROVE  ProductOK'
  BY TypeParts DEF ProductOK, Observe, product, bounds

\* The steps of an execution.
LEMMA RunIInv == IInv /\ RunStep => IInv'
<1> SUFFICES ASSUME IInv, RunStep PROVE IInv'
  OBVIOUS
<1>1. TypeOK /\ SyncInv /\ RunInv /\ ReconInv /\ CommandInv
  BY DEF IInv
<1>2. ProductOK /\ SyncOK /\ WorkOK /\ CommandOK
  BY <1>1, TypeParts
<1> USE DEF ProductPcs, RunPcs, ResumePcs, UpdatePcs
<1>3. CASE Admit
  <2>1. /\ UNCHANGED <<product, pc, vol, bounds, work, cmd, issued>>
        /\ pc = "synced" /\ run.stage = "none" /\ rec.phase = "idle"
        /\ rec' = [phase |-> "agent_pending", local |-> vol.lh, remote |-> vol.th]
    BY <1>3 DEF Admit
  <2>2. SyncOK' /\ SyncInv'
    BY <1>1, <1>2, <2>1 DEF SyncOK, SyncInv, Phases, work
  <2>3. rec'.phase = "agent_pending"
    BY <2>1
  <2> QED BY <1>1, <2>1, <2>2, <2>3, SyncKeeps, TypesKept, TypeParts DEF IInv
<1>4. CASE RunWorker
  <2>1. /\ UNCHANGED <<product, bounds, recon, branch, evidence, rewritten,
                       control, cmd, issued>>
        /\ pc' = "observe" /\ vol' = Home /\ pc = "synced"
        /\ run.stage = "none" /\ recon.status = "none" /\ ~ws.rebasing
        /\ branch \notin Works
    BY <1>1, <1>4 DEF RunWorker, SyncInv, RunInv
  <2>2. Work(rec.local, 0) \in Works /\ Work(rec.local, 0).base = rec.local
    BY <1>2, WorkParts, CommandsAssumption DEF SyncOK
  <2>3. WorkOK'
    BY <1>2, <1>4, <2>1, <2>2 DEF RunWorker, WorkOK, SyncOK, Stages
  <2>4. SyncOK'
    BY <1>2, <1>4, <2>1, Blanks DEF RunWorker, SyncOK, Phases
  <2>5. /\ run'.stage = "post-checkpoint" /\ run'.base = rec.local
        /\ run'.head = Work(rec.local, 0) /\ run'.remote = branch
        /\ rec'.phase = "agent_running" /\ ws'.head = Work(rec.local, 0)
        /\ ws'.rebasing = ws.rebasing /\ vol'.was = "idle"
    BY <1>2, <1>4 DEF RunWorker, SyncOK, WorkOK, Home
  <2>6. SyncInv' /\ RunInv'
    BY <1>1, <2>1, <2>2, <2>5 DEF SyncInv, RunInv, AtHead
  <2>7. ReconInv' /\ CommandInv'
    BY <1>1, <2>1, <2>2, <2>5 DEF ReconInv, CommandInv, AtHead
  <2> QED BY <1>1, <2>1, <2>3, <2>4, <2>6, <2>7, TypesKept, TypeParts DEF IInv
<1>5. CASE PlanNothing
  BY <1>1, <1>5, Returns, TypesKept DEF PlanNothing, Return
<1>6. CASE RecoverPublication
  <2>1. /\ UNCHANGED <<product, rec, vol, bounds, work, cmd, issued>>
        /\ pc = "ready" /\ rec.phase = "agent_running"
        /\ pc' = IF run.stage = "lifecycle" THEN "lifecycle" ELSE "observe"
    BY <1>6 DEF RecoverPublication, Goto
  <2>2. UNCHANGED <<run, recon, ws, branch, evidence, rewritten, control>>
    BY <2>1 DEF work
  <2>3. SyncInv' /\ SyncOK'
    BY <1>1, <1>2, <2>1, <2>2 DEF SyncInv, SyncOK
  <2>4. RunInv'
    BY <1>1, <2>1, <2>2 DEF RunInv, SyncInv, AtHead, PushedTo
  <2>5. ReconInv' /\ CommandInv'
    BY <1>1, <2>1, <2>2 DEF ReconInv, CommandInv, AtHead, PushedTo
  <2> QED BY <1>1, <2>1, <2>3, <2>4, <2>5, TypesKept, TypeParts DEF IInv
<1>7. CASE ObserveStable \/ ObserveChanged
  <2>1. /\ UNCHANGED <<rec, vol, bounds, work, cmd, issued>>
        /\ pc = "observe" /\ pc' \in {"push", "pin"}
    BY <1>7 DEF ObserveStable, ObserveChanged, Goto
  <2>2. UNCHANGED <<run, recon, ws, branch, evidence, rewritten, control>>
    BY <2>1 DEF work
  <2>3. ProductOK'
    BY <1>1, <1>7, <2>1, ProductKept DEF ObserveStable, ObserveChanged
  <2>4. SyncInv' /\ SyncOK'
    BY <1>1, <1>2, <2>1, <2>2 DEF SyncInv, SyncOK
  <2>5. RunInv'
    BY <1>1, <2>1, <2>2 DEF RunInv, AtHead, PushedTo
  <2>6. ReconInv' /\ CommandInv'
    BY <1>1, <2>1, <2>2 DEF ReconInv, CommandInv, AtHead, PushedTo
  <2> QED BY <1>1, <2>1, <2>3, <2>4, <2>5, <2>6, TypesKept, TypeParts DEF IInv
<1>8. CASE PinCheckpoint
  <2>1. /\ UNCHANGED <<product, rec, pc, vol, bounds, run, recon, ws, branch,
                       rewritten, control, cmd, issued>>
        /\ pc = "pin" /\ evidence # run.head /\ evidence' = run.head
    BY <1>8 DEF PinCheckpoint
  <2>2. run.head \in Refs
    BY <1>2 DEF WorkOK, Refs
  <2>3. WorkOK'
    BY <1>2, <2>1, <2>2 DEF WorkOK
  <2>4. SyncInv' /\ RunInv' /\ CommandInv'
    BY <1>1, <2>1 DEF SyncInv, RunInv, CommandInv, AtHead, PushedTo
  <2>5. ReconInv'
    BY <1>1, <2>1 DEF RunInv, ReconInv, AtHead, PushedTo
  <2> QED BY <1>1, <2>1, <2>3, <2>4, <2>5, TypesKept, TypeParts DEF IInv
<1>9. CASE SaveReconciliation
  <2>1. /\ UNCHANGED <<product, bounds, ws, branch, evidence, rewritten, control,
                       issued>>
        /\ pc = "pin" /\ evidence = run.head
        /\ pc' = "ready" /\ vol' = Home /\ cmd' = NoCmd
    BY <1>9 DEF SaveReconciliation, Return
  <2>2. rec.phase = "agent_running" /\ run.stage # "none" /\ recon.status # "resolved"
    BY <1>1, <2>1 DEF RunInv, ReconInv
  <2>3. WorkOK'
    BY <1>2, <1>9, <2>1, Blanks
    DEF SaveReconciliation, Reconciliation, WorkOK, Stages, Statuses
  <2>4. SyncOK' /\ CommandOK'
    BY <1>2, <1>9, <2>1, Blanks DEF SaveReconciliation, SyncOK, CommandOK, Phases
  <2>5. /\ recon'.status = "pending" /\ recon'.head = run.head
        /\ recon'.base = run.base /\ recon'.remote = run.remote
        /\ recon'.rewrite = "none" /\ rec'.phase = "idle" /\ run'.stage = "over"
        /\ run'.head = run.head /\ run'.base = run.base /\ run'.remote = run.remote
        /\ vol'.was = "idle" /\ ~cmd'.resume
    BY <1>2, <1>9, <2>1
    DEF SaveReconciliation, Reconciliation, NoRecon, WorkOK, SyncOK, Home, NoCmd
  <2>6. SyncInv' /\ RunInv'
    BY <1>1, <2>1, <2>2, <2>5 DEF SyncInv, RunInv
  <2>7. ReconInv' /\ CommandInv'
    BY <1>1, <2>1, <2>2, <2>5 DEF ReconInv, CommandInv
  <2> QED BY <1>1, <2>1, <2>3, <2>4, <2>6, <2>7, TypesKept, TypeParts DEF IInv
<1>10. CASE PublicationBlocked
  BY <1>1, <1>10, Returns, TypesKept DEF PublicationBlocked, Return
<1>11. CASE Publish
  <2>1. /\ UNCHANGED <<product, rec, vol, bounds, run, recon, ws, evidence,
                       rewritten, control, cmd, issued>>
        /\ pc = "push" /\ pc' = "pushed" /\ branch' = run.head
    BY <1>11 DEF Publish, Goto
  <2>2. rec.phase = "agent_running" /\ run.stage # "none" /\ recon.status # "resolved"
    BY <1>1, <2>1 DEF RunInv, ReconInv
  <2>3. WorkOK' /\ SyncOK'
    BY <1>2, <2>1 DEF WorkOK, SyncOK, Refs
  <2>4. SyncInv' /\ RunInv'
    BY <1>1, <2>1, <2>2 DEF SyncInv, RunInv, AtHead, PushedTo
  <2>5. ReconInv' /\ CommandInv'
    BY <1>1, <2>1, <2>2 DEF ReconInv, CommandInv, AtHead, PushedTo
  <2> QED BY <1>1, <2>1, <2>3, <2>4, <2>5, TypesKept, TypeParts DEF IInv
<1>12. CASE SavePublished
  <2>1. /\ UNCHANGED <<product, rec, vol, bounds, recon, ws, branch, evidence,
                       rewritten, control, cmd, issued>>
        /\ pc = "pushed" /\ PushedTo(run.head)
        /\ pc' = IF run.stage = "post-checkpoint" THEN "pushed" ELSE "lifecycle"
    BY <1>1, <1>12 DEF SavePublished, Goto, RunInv
  <2>2. rec.phase = "agent_running" /\ run.stage # "none" /\ recon.status # "resolved"
    BY <1>1, <2>1 DEF RunInv, ReconInv
  <2>3. WorkOK' /\ SyncOK'
    BY <1>2, <1>12, <2>1 DEF SavePublished, WorkOK, SyncOK, Stages
  <2>4. /\ run'.stage = IF run.stage = "post-checkpoint" THEN "post-publication"
                        ELSE "lifecycle"
        /\ run'.head = run.head /\ run'.base = run.base /\ run'.remote = run.remote
    BY <1>2, <1>12 DEF SavePublished, WorkOK
  <2>5. SyncInv' /\ RunInv'
    BY <1>1, <2>1, <2>2, <2>4 DEF SyncInv, RunInv, AtHead, PushedTo
  <2>6. ReconInv' /\ CommandInv'
    BY <1>1, <2>1, <2>2, <2>4 DEF RunInv, ReconInv, CommandInv, AtHead, PushedTo
  <2> QED BY <1>1, <2>1, <2>3, <2>5, <2>6, TypesKept, TypeParts DEF IInv
<1>13. CASE ApplyLifecycle
  <2>1. /\ UNCHANGED <<product, rec, vol, bounds, run, recon, ws, branch, evidence,
                       rewritten, cmd, issued>>
        /\ pc = "lifecycle" /\ pc' = "finalize"
    BY <1>13 DEF ApplyLifecycle, Goto
  <2>2. control' \in Controls
    BY <1>2, <1>13, ControlGrows DEF ApplyLifecycle, WorkOK
  <2>3. WorkOK' /\ SyncOK'
    BY <1>2, <2>1, <2>2 DEF WorkOK, SyncOK
  <2>4. SyncInv' /\ RunInv'
    BY <1>1, <2>1 DEF SyncInv, RunInv, AtHead, PushedTo
  <2>5. ReconInv' /\ CommandInv'
    BY <1>1, <2>1 DEF ReconInv, CommandInv, AtHead, PushedTo
  <2> QED BY <1>1, <2>1, <2>3, <2>4, <2>5, TypesKept, TypeParts DEF IInv
<1>14. CASE Finalize
  <2>1. /\ UNCHANGED <<product, bounds, recon, ws, branch, evidence, rewritten,
                       control, issued>>
        /\ pc = "finalize" /\ rec.phase = "agent_running" /\ run.stage = "lifecycle"
        /\ PushedTo(run.head) /\ AtHead /\ recon.status \in {"none", "resolving"}
        /\ cmd.resume => recon.status = "resolving"
    BY <1>1, <1>14 DEF Finalize, RunInv
  <2>2. \/ cmd.resume /\ pc' = "resolve" /\ UNCHANGED <<vol, cmd>>
        \/ pc' = "ready" /\ vol' = Home /\ cmd' = NoCmd
    BY <1>14 DEF Finalize, Goto, Return
  <2>3. WorkOK'
    BY <1>2, <1>14, <2>1 DEF Finalize, WorkOK, Stages
  <2>4. SyncOK' /\ CommandOK'
    BY <1>2, <1>14, <2>1, <2>2, Blanks DEF Finalize, SyncOK, CommandOK, Phases
  <2>5. /\ rec'.phase = "idle" /\ run'.stage = "over"
        /\ run'.head = run.head /\ run'.base = run.base /\ run'.remote = run.remote
        /\ vol'.was = vol.was \/ vol'.was = "idle"
        /\ cmd'.resume => pc' = "resolve" /\ cmd.resume
        /\ pc' = "resolve" => cmd'.resume
    BY <1>2, <1>14, <2>2 DEF Finalize, WorkOK, SyncOK, Home, NoCmd
  <2>6. SyncInv' /\ RunInv'
    BY <1>1, <2>1, <2>2, <2>5 DEF SyncInv, RunInv, AtHead, PushedTo
  <2>7. ReconInv' /\ CommandInv'
    BY <1>1, <2>1, <2>2, <2>5 DEF ReconInv, CommandInv, AtHead, PushedTo
  <2> QED BY <1>1, <2>1, <2>3, <2>4, <2>6, <2>7, TypesKept, TypeParts DEF IInv
<1> QED
  BY <1>3, <1>4, <1>5, <1>6, <1>7, <1>8, <1>9, <1>10, <1>11, <1>12, <1>13, <1>14
  DEF RunStep

-----------------------------------------------------------------------------
\* Resume.

\* An admitted resume, by the operator, by auto or by the next iteration.
LEMMA AdmitResumeIInv ==
  IInv /\ (AdmitResume \/ AdmitAutoResume \/ ContinueResume) => IInv'
<1> SUFFICES ASSUME IInv, AdmitResume \/ AdmitAutoResume \/ ContinueResume
             PROVE  IInv'
  OBVIOUS
<1>1. TypeOK /\ SyncInv /\ RunInv /\ ReconInv /\ CommandInv
  BY DEF IInv
<1>2. ProductOK /\ SyncOK /\ WorkOK /\ CommandOK
  BY <1>1, TypeParts
<1>3. /\ UNCHANGED <<rec, vol, bounds, run, ws, branch, evidence, rewritten, control>>
      /\ pc = "ready" /\ pc' = "resume"
      /\ recon.status \in {"pending", "resolving"}
      /\ recon' = recon \/ recon' = [recon EXCEPT !.status = "resolving"]
  BY DEF AdmitResume, AdmitAutoResume, ContinueResume, Command, work
<1>4. /\ recon'.status \in {"pending", "resolving"}
      /\ recon.status = "resolving" => recon'.status = "resolving"
      /\ recon'.head = recon.head /\ recon'.base = recon.base
      /\ recon'.remote = recon.remote /\ recon'.rewrite = recon.rewrite
      /\ recon'.result = recon.result /\ recon'.target = recon.target
  BY <1>2, <1>3 DEF WorkOK
<1>5. ProductOK'
  BY <1>1, <1>3, ProductKept DEF AdmitResume, AdmitAutoResume, ContinueResume
<1>6. WorkOK'
  BY <1>2, <1>3 DEF WorkOK, Statuses
<1>7. SyncOK' /\ CommandOK'
  <2>1. commands' \in 0..MaxCommands
    BY <1>2, CommandsAssumption
    DEF CommandOK, AdmitResume, AdmitAutoResume, ContinueResume, Command
  <2>2. \/ cmd' = [NoCmd EXCEPT !.by = "operator", !.resume = TRUE, !.was = TRUE]
        \/ cmd' = [NoCmd EXCEPT !.by = "operator", !.resume = TRUE]
        \/ cmd' = [NoCmd EXCEPT !.resume = TRUE, !.was = TRUE]
    BY DEF AdmitResume, AdmitAutoResume, ContinueResume
  <2>3. cmd' \in [by : {"scheduler", "operator"}, resume : BOOLEAN, was : BOOLEAN,
                  auth : BOOLEAN, onto : Commits, saw : Refs]
    BY <2>2, Blanks
  <2>4. authorized' = authorized
    BY DEF AdmitResume, AdmitAutoResume, ContinueResume
  <2> QED BY <1>2, <1>3, <2>1, <2>3, <2>4 DEF SyncOK, CommandOK, ResumePcs
<1> USE DEF ProductPcs, RunPcs, ResumePcs, UpdatePcs
<1>8. SyncInv' /\ RunInv'
  BY <1>1, <1>3, <1>4 DEF SyncInv, RunInv, AtHead, PushedTo
<1>9. ReconInv' /\ CommandInv'
  BY <1>1, <1>3, <1>4 DEF ReconInv, CommandInv, AtHead, PushedTo
<1> QED BY <1>5, <1>6, <1>7, <1>8, <1>9, TypeParts DEF IInv

\* The steps of a resume.
LEMMA ResumeIInv == IInv /\ ResumeStep => IInv'
<1> SUFFICES ASSUME IInv, ResumeStep PROVE IInv'
  OBVIOUS
<1>1. TypeOK /\ SyncInv /\ RunInv /\ ReconInv /\ CommandInv
  BY DEF IInv
<1>2. ProductOK /\ SyncOK /\ WorkOK /\ CommandOK
  BY <1>1, TypeParts
<1> USE DEF ProductPcs, RunPcs, ResumePcs, UpdatePcs
<1>3. CASE ContinueResume
  BY <1>3, AdmitResumeIInv
<1>4. CASE BeginResume
  <2>1. /\ UNCHANGED <<vol, bounds, run, ws, branch, evidence, rewritten, control,
                       issued>>
        /\ pc = "resume" /\ pc' = "resuming"
        /\ recon.status \in {"pending", "resolving"}
    BY <1>1, <1>4 DEF BeginResume, CommandInv
  <2>2. ws.head = recon.head /\ ~ws.rebasing
    BY <1>4 DEF BeginResume, Resumable
  <2>3. ProductOK'
    BY <1>1, <1>4, <2>1, ProductKept DEF BeginResume
  <2>4. WorkOK' /\ SyncOK' /\ CommandOK'
    BY <1>2, <1>4, <2>1 DEF BeginResume, WorkOK, SyncOK, CommandOK, Statuses, Phases
  <2>5. /\ recon'.status = "resolving" /\ rec'.phase = "idle"
        /\ recon'.head = recon.head /\ recon'.base = recon.base
        /\ recon'.remote = recon.remote /\ recon'.rewrite = recon.rewrite
        /\ recon'.result = recon.result /\ recon'.target = recon.target
    BY <1>2, <1>4 DEF BeginResume, WorkOK, SyncOK
  <2>6. SyncInv' /\ RunInv'
    BY <1>1, <2>1, <2>2, <2>5 DEF SyncInv, RunInv, ReconInv, AtHead, PushedTo
  <2>7. ReconInv' /\ CommandInv'
    BY <1>1, <2>1, <2>2, <2>5 DEF ReconInv, CommandInv, AtHead, PushedTo
  <2> QED BY <2>3, <2>4, <2>6, <2>7, TypeParts DEF IInv
<1>5. CASE ResumePublication
  <2>1. /\ UNCHANGED <<vol, cmd, bounds, recon, ws, branch, evidence, rewritten,
                       control, issued>>
        /\ pc = "resuming" /\ pc' = "observe"
        /\ recon.status = "resolving" /\ AtHead
    BY <1>1, <1>5 DEF ResumePublication, Goto, CommandInv
  <2>2. ProductOK'
    BY <1>1, <1>5, <2>1, ProductKept DEF ResumePublication
  <2>3. WorkOK' /\ SyncOK' /\ CommandOK'
    BY <1>2, <1>5, <2>1
    DEF ResumePublication, WorkOK, SyncOK, CommandOK, Stages, Phases
  <2>4. /\ run'.stage = "post-checkpoint" /\ rec'.phase = "agent_running"
        /\ run'.head = recon.head /\ run'.base = recon.base
        /\ run'.remote = recon.remote
    BY <1>5 DEF ResumePublication
  <2>5. SyncInv' /\ RunInv'
    BY <1>1, <2>1, <2>4 DEF SyncInv, RunInv, ReconInv, AtHead, PushedTo
  <2>6. ReconInv' /\ CommandInv'
    BY <1>1, <2>1, <2>4 DEF ReconInv, CommandInv, AtHead, PushedTo
  <2> QED BY <2>2, <2>3, <2>5, <2>6, TypeParts DEF IInv
<1>6. CASE ResumeRefused
  <2>1. ProductOK'
    BY <1>1, <1>6, ProductKept DEF ResumeRefused
  <2>2. /\ UNCHANGED <<rec, work, issued>> /\ pc' \in {"ready", "off"}
        /\ vol' = Home /\ cmd' = NoCmd
    BY <1>6 DEF ResumeRefused, Return, Raise, Fail
  <2> QED BY <2>1, <2>2, Returns
<1>7. CASE SaveResumed
  <2>1. /\ UNCHANGED <<product, rec, bounds, ws, branch, evidence, rewritten,
                       control, issued>>
        /\ pc = "resolve" /\ pc' = "ready" /\ vol' = Home /\ cmd' = NoCmd
    BY <1>7 DEF SaveResumed, Return
  <2>2. /\ recon.status = "resolving" /\ AtHead /\ PushedTo(run.head)
        /\ run.stage = "over" /\ rec.phase # "agent_running"
    BY <1>1, <2>1 DEF RunInv
  <2>3. WorkOK'
    BY <1>2, <1>7, <2>1 DEF SaveResumed, WorkOK, Statuses, Refs
  <2>4. SyncOK' /\ CommandOK'
    BY <1>2, <2>1, Blanks DEF SyncOK, CommandOK
  <2>5. /\ recon'.status = "resolved"
        /\ recon'.head = recon.head /\ recon'.base = recon.base
        /\ recon'.remote = recon.remote /\ recon'.rewrite = recon.rewrite
        /\ recon'.result = recon.result /\ recon'.target = recon.target
        /\ run'.head = run.head /\ run'.base = run.base /\ run'.stage = run.stage
        /\ run'.remote = recon.head /\ vol'.was = "idle" /\ ~cmd'.resume
    BY <1>2, <1>7, <2>1 DEF SaveResumed, WorkOK, Home, NoCmd
  <2>6. SyncInv' /\ RunInv'
    BY <1>1, <2>1, <2>2, <2>5 DEF SyncInv, RunInv, AtHead, PushedTo
  <2>7. ReconInv' /\ CommandInv'
    BY <1>1, <2>1, <2>2, <2>5 DEF ReconInv, CommandInv, AtHead, PushedTo
  <2> QED BY <1>1, <2>1, <2>3, <2>4, <2>6, <2>7, TypesKept, TypeParts DEF IInv
<1> QED BY <1>3, <1>4, <1>5, <1>6, <1>7 DEF ResumeStep

-----------------------------------------------------------------------------
\* Update-base.

\* An update that the operator asks for.
LEMMA AdmitUpdateIInv == IInv /\ AdmitUpdate => IInv'
<1> SUFFICES ASSUME IInv, AdmitUpdate PROVE IInv'
  OBVIOUS
<1>1. TypeOK /\ SyncInv /\ RunInv /\ ReconInv /\ CommandInv
  BY DEF IInv
<1>2. ProductOK /\ SyncOK /\ WorkOK /\ CommandOK
  BY <1>1, TypeParts
<1>3. /\ UNCHANGED <<rec, vol, bounds, work>> /\ pc = "ready" /\ pc' = "update"
      /\ recon.status = "pending"
  BY DEF AdmitUpdate, Command
<1>4. UNCHANGED <<run, recon, ws, branch, evidence, rewritten, control>>
  BY <1>3 DEF work
<1>5. ProductOK'
  BY <1>1, <1>3, ProductKept DEF AdmitUpdate
<1>6. CommandOK'
  <2>1. commands' \in 0..MaxCommands
    BY <1>2, CommandsAssumption DEF AdmitUpdate, Command, CommandOK
  <2>2. PICK auth \in BOOLEAN :
          /\ cmd' = [NoCmd EXCEPT !.by = "operator", !.auth = auth, !.onto = local]
          /\ authorized' = IF auth THEN authorized \cup {local} ELSE authorized
    BY DEF AdmitUpdate
  <2>3. local \in Commits
    BY <1>2 DEF ProductOK
  <2>4. authorized' \subseteq Commits
    BY <1>2, <2>2, <2>3 DEF CommandOK
  <2> QED BY <2>1, <2>2, <2>3, <2>4, Blanks DEF CommandOK
<1> USE DEF ProductPcs, RunPcs, ResumePcs, UpdatePcs
<1>7. SyncOK' /\ SyncInv'
  BY <1>1, <1>2, <1>3, <1>4 DEF SyncOK, SyncInv
<1>8. RunInv' /\ ReconInv' /\ CommandInv'
  BY <1>1, <1>3, <1>4 DEF RunInv, ReconInv, CommandInv, AtHead, PushedTo
<1> QED BY <1>1, <1>3, <1>5, <1>6, <1>7, <1>8, TypesKept, TypeParts DEF IInv

\* A step of an update that is neither its end nor a change of the record: the
\* worktree, the branch and the reference of the rewritten work may change.
LEMMA UpdateKeeps ==
  ASSUME IInv, pc \in UpdatePcs, pc' \in UpdatePcs,
         UNCHANGED <<rec, vol, run, recon, evidence>>
  PROVE  SyncInv' /\ RunInv' /\ ReconInv'
<1>1. SyncInv /\ RunInv /\ ReconInv /\ recon.status = "pending"
  BY DEF IInv, CommandInv
<1> USE DEF ProductPcs, RunPcs, ResumePcs, UpdatePcs
<1>2. SyncInv'
  BY <1>1 DEF SyncInv
<1>3. RunInv'
  BY <1>1 DEF RunInv, ReconInv
<1>4. ReconInv'
  BY <1>1 DEF ReconInv
<1> QED BY <1>2, <1>3, <1>4

\* The same with a record that changes only in the fields of the rewrite.
LEMMA RewriteKeeps ==
  ASSUME IInv, pc \in UpdatePcs, pc' \in UpdatePcs,
         UNCHANGED <<vol, run, evidence>>,
         rec'.phase \in {rec.phase, "idle"},
         recon'.status = recon.status, recon'.base = recon.base,
         recon'.head = recon.head, recon'.remote = recon.remote,
         recon'.rewrite = "remote-pending" =>
           recon'.result \in Works /\ recon'.result.base = recon'.target
  PROVE  SyncInv' /\ RunInv' /\ ReconInv'
<1>1. SyncInv /\ RunInv /\ ReconInv /\ recon.status = "pending"
  BY DEF IInv, CommandInv
<1> USE DEF ProductPcs, RunPcs, ResumePcs, UpdatePcs
<1>2. SyncInv'
  BY <1>1 DEF SyncInv
<1>3. RunInv'
  BY <1>1 DEF RunInv, ReconInv
<1>4. ReconInv'
  BY <1>1 DEF ReconInv
<1> QED BY <1>2, <1>3, <1>4

\* The end of an update: the worktree stands on the new head, which a
\* reference holds, and it is on the server if it is said to be.
LEMMA ResolveIInv ==
  ASSUME IInv, NEW head \in Works, NEW base \in Commits, NEW published \in BOOLEAN,
         recon.status = "pending", Resolve(head, base, published), Return,
         UNCHANGED <<bounds, ws, branch, evidence, rewritten, control, issued>>,
         Observe \/ UNCHANGED product,
         head.base = base, ws.head = head, ~ws.rebasing, rewritten = head,
         published => PushedTo(head), ~published => PushedTo(None)
  PROVE  IInv'
<1>1. TypeOK /\ SyncInv /\ RunInv /\ ReconInv /\ CommandInv
  BY DEF IInv
<1>2. ProductOK /\ SyncOK /\ WorkOK /\ CommandOK
  BY <1>1, TypeParts
<1>3. PICK remote : remote = IF published THEN head ELSE None
  OBVIOUS
<1>4. /\ recon' = [recon EXCEPT !.status = "resolved", !.base = base,
                     !.head = head, !.remote = remote, !.rewrite = "none",
                     !.result = None]
      /\ run' = [run EXCEPT !.base = base, !.head = head, !.remote = remote]
      /\ rec' = [rec EXCEPT !.phase = "idle"]
      /\ remote \in Refs /\ PushedTo(remote)
  BY <1>3 DEF Resolve, Refs
<1>5. WorkOK'
  BY <1>2, <1>4 DEF WorkOK, Statuses
<1>6. SyncOK' /\ CommandOK'
  BY <1>2, <1>4, Blanks DEF SyncOK, CommandOK, Return, Phases, ProductPcs
<1>7. /\ recon'.status = "resolved" /\ recon'.base = base /\ recon'.head = head
      /\ recon'.remote = remote /\ recon'.rewrite = "none"
      /\ run'.base = base /\ run'.head = head /\ run'.remote = remote
      /\ run'.stage = run.stage /\ rec'.phase = "idle" /\ vol'.was = "idle"
      /\ ~cmd'.resume /\ pc' = "ready"
  BY <1>2, <1>4 DEF WorkOK, SyncOK, Return, Home, NoCmd
<1>8. run.stage = "over"
  BY <1>1 DEF ReconInv
<1> USE DEF ProductPcs, RunPcs, ResumePcs, UpdatePcs
<1>9. SyncInv' /\ CommandInv'
  BY <1>7, <1>8 DEF SyncInv, CommandInv
<1>10. RunInv'
  BY <1>7, <1>8 DEF RunInv
<1>11. ReconInv'
  BY <1>4, <1>7, <1>8 DEF ReconInv, AtHead, PushedTo
<1>12. ProductOK'
  BY <1>1, ProductKept
<1> QED BY <1>5, <1>6, <1>9, <1>10, <1>11, <1>12, TypeParts DEF IInv

\* Refusals and failures leave everything as the command found it.
Refusals ==
  \/ UpdateRefused \/ RestoreRefused \/ RewriteAmbiguous \/ ProveRefused
  \/ PinRefused \/ PinResultRefused \/ PushRewrittenFails \/ ResetFails

LEMMA RefusalIInv == IInv /\ Refusals => IInv'
<1> SUFFICES ASSUME IInv, Refusals PROVE IInv'
  OBVIOUS
<1>1. TypeOK /\ ProductOK
  BY TypeParts DEF IInv
<1>2. CASE PushRewrittenFails \/ ResetFails
  <2>1. ProductOK'
    BY <1>1, <1>2, ProductAssumption
    DEF PushRewrittenFails, ResetFails, ProductOK, product
  <2> QED BY <1>2, <2>1, Returns DEF PushRewrittenFails, ResetFails, Return
<1>3. CASE UpdateRefused \/ RestoreRefused \/ RewriteAmbiguous \/ ProveRefused
             \/ PinRefused \/ PinResultRefused
  <2>1. Refuse /\ (Observe \/ UNCHANGED product)
    BY <1>3 DEF UpdateRefused, RestoreRefused, RewriteAmbiguous, ProveRefused, PinRefused,
         PinResultRefused
  <2>2. ProductOK'
    BY <1>1, <2>1, ProductKept DEF Refuse
  <2> QED BY <2>1, <2>2, Returns DEF Refuse, Return
<1> QED BY <1>2, <1>3 DEF Refusals

\* The steps of an update.
LEMMA UpdateIInv == IInv /\ (UpdateStep \/ RebaseConflict) => IInv'
<1> SUFFICES ASSUME IInv, UpdateStep \/ RebaseConflict PROVE IInv'
  OBVIOUS
<1>1. TypeOK /\ SyncInv /\ RunInv /\ ReconInv /\ CommandInv
  BY DEF IInv
<1>2. ProductOK /\ SyncOK /\ WorkOK /\ CommandOK
  BY <1>1, TypeParts
<1>3. CASE BeginUpdate
  <2>1. /\ UNCHANGED <<rec, vol, cmd, bounds, work, issued>> /\ Observe
        /\ pc = "update" /\ pc' = "prove"
    BY <1>3 DEF BeginUpdate, Goto
  <2>2. UNCHANGED <<run, recon, ws, branch, evidence, rewritten, control>>
    BY <2>1 DEF work
  <2>3. SyncOK' /\ CommandInv'
    BY <1>1, <1>2, <2>1, <2>2 DEF SyncOK, CommandInv, UpdatePcs, ResumePcs
  <2>4. SyncInv' /\ RunInv' /\ ReconInv'
    BY <2>1, <2>2, UpdateKeeps DEF UpdatePcs
  <2> QED BY <1>1, <2>1, <2>3, <2>4, ProductKept, TypesKept, TypeParts DEF IInv
<1>4. CASE Restore
  <2>1. /\ Observe /\ pc = "update" /\ pc' = "restored"
        /\ UNCHANGED <<rec, vol, bounds, run, recon, branch, evidence, rewritten,
                       control, issued>>
        /\ ws' = [ws EXCEPT !.head = recon.head]
        /\ recon.rewrite # "none" /\ recon.target = cmd.onto
    BY <1>4 DEF Restore, RestorableLocal, RestorableUnpublished, Eligible
  <2>2. WorkOK' /\ SyncOK'
    BY <1>2, <2>1 DEF WorkOK, SyncOK, UpdatePcs
  <2>3. PICK a \in BOOLEAN : cmd' = [cmd EXCEPT !.auth = a]
    <3>1. (cmd.auth \/ recon.auth) \in BOOLEAN
      OBVIOUS
    <3> QED BY <1>4, <3>1 DEF Restore
  <2>4. CommandOK' /\ cmd'.onto = cmd.onto
    BY <1>2, <2>1, <2>3 DEF CommandOK
  <2>5. SyncInv' /\ RunInv' /\ ReconInv'
    BY <2>1, UpdateKeeps DEF UpdatePcs
  <2>6. CommandInv'
    BY <1>1, <2>1, <2>4 DEF CommandInv, UpdatePcs, ResumePcs
  <2> QED BY <1>1, <2>1, <2>2, <2>4, <2>5, <2>6, ProductKept, TypeParts DEF IInv
<1>16. ASSUME Unrewritten
       PROVE  /\ WorkOK' /\ ProductOK'
              /\ rec' \in [phase : Phases, local : Commits, remote : Commits]
              /\ recon'.status = recon.status /\ recon'.base = recon.base
              /\ recon'.head = recon.head /\ recon'.remote = recon.remote
              /\ recon'.rewrite = "none" /\ rec'.phase = "idle"
  <2>1. UNCHANGED <<product, bounds, run, ws, branch, evidence, rewritten,
                    control, issued>>
    BY <1>16 DEF Unrewritten
  <2>2. ProductOK'
    BY <1>1, <2>1, TypesKept
  <2> QED BY <1>2, <1>16, <2>1, <2>2, ProductAssumption
          DEF Unrewritten, WorkOK, SyncOK, Phases
<1>17. CASE SaveRestored
  <2>1. /\ UNCHANGED <<vol, cmd, run, ws, branch, evidence, rewritten, issued>>
        /\ pc = "restored" /\ pc' = "prove" /\ Unrewritten
    BY <1>17 DEF SaveRestored, Unrewritten, Goto
  <2>2. SyncInv' /\ RunInv' /\ ReconInv'
    BY <1>16, <2>1, RewriteKeeps DEF UpdatePcs
  <2>3. CommandInv'
    BY <1>1, <1>16, <2>1 DEF CommandInv, UpdatePcs, ResumePcs
  <2>4. SyncOK' /\ CommandOK'
    BY <1>1, <1>2, <1>16, <2>1, TypesKept DEF SyncOK, UpdatePcs
  <2> QED BY <1>16, <2>1, <2>2, <2>3, <2>4, TypeParts DEF IInv
<1>18. CASE SaveUndone
  <2>1. /\ UNCHANGED <<run, ws, branch, evidence, rewritten, issued>>
        /\ pc = "undone" /\ pc' = "ready" /\ vol' = Home /\ cmd' = NoCmd
        /\ Unrewritten
    BY <1>18 DEF SaveUndone, Unrewritten, Return
  <2>2. recon.status = "pending" /\ run.stage = "over"
    BY <1>1, <2>1 DEF CommandInv, ReconInv, UpdatePcs
  <2>3. SyncOK' /\ CommandOK'
    BY <1>2, <1>16, <2>1, Blanks DEF SyncOK, CommandOK, ProductPcs
  <2>4. SyncInv' /\ RunInv'
    BY <1>1, <1>16, <2>1, <2>2
    DEF SyncInv, RunInv, AtHead, PushedTo, ProductPcs, RunPcs, Home, NoCmd
  <2>5. ReconInv' /\ CommandInv'
    BY <1>1, <1>16, <2>1, <2>2
    DEF ReconInv, CommandInv, ResumePcs, UpdatePcs
  <2> QED BY <1>16, <2>1, <2>3, <2>4, <2>5, TypeParts DEF IInv
<1>19. CASE SpoilRebase \/ UndoRebase
  <2>1. /\ UNCHANGED <<product, rec, vol, cmd, bounds, run, recon, branch,
                       evidence, rewritten, control, issued>>
        /\ \/ pc = "rebasing" /\ pc' = "spoiled"
           \/ pc = "spoiled" /\ pc' = "undone"
    BY <1>19 DEF SpoilRebase, UndoRebase, Goto
  <2>2. \/ ws' = [rebasing |-> FALSE, head |-> Spoiled]
        \/ ws' = [ws EXCEPT !.head = recon.head]
    BY <1>19 DEF SpoilRebase, UndoRebase
  <2>3. WorkOK' /\ SyncOK'
    <3>1. ws' \in [head : Works \cup {None, Spoiled}, rebasing : BOOLEAN]
      <4>1. recon.head \in Works \cup {None, Spoiled} /\ FALSE \in BOOLEAN
        BY <1>2 DEF WorkOK
      <4>2. ws \in [head : Works \cup {None, Spoiled}, rebasing : BOOLEAN]
        BY <1>2 DEF WorkOK
      <4> DEFINE Heads == Works \cup {None, Spoiled}
      <4>3. Spoiled \in Heads
        OBVIOUS
      <4> HIDE DEF Heads
      <4>4. CASE ws' = [rebasing |-> FALSE, head |-> Spoiled]
        BY <4>3, <4>4 DEF Heads
      <4>5. CASE ws' = [ws EXCEPT !.head = recon.head]
        BY <4>1, <4>2, <4>5
      <4> QED BY <2>2, <4>4, <4>5
    <3> QED BY <1>2, <2>1, <3>1 DEF WorkOK, SyncOK, UpdatePcs
  <2>4. SyncInv' /\ RunInv' /\ ReconInv'
    BY <2>1, UpdateKeeps DEF UpdatePcs
  <2>5. CommandInv'
    BY <1>1, <2>1 DEF CommandInv, PushedTo, UpdatePcs, ResumePcs
  <2> QED BY <1>1, <2>1, <2>3, <2>4, <2>5, TypesKept, TypeParts DEF IInv
<1>5. CASE RecognizeRewrite
  <2>1. /\ recon.status = "pending" /\ ~ws.rebasing /\ Observe
        /\ branch = recon.result /\ ws.head = recon.result
        /\ rewritten = recon.result
        /\ recon.result \in Works /\ recon.result.base = recon.target
    BY <1>1, <1>5
    DEF RecognizeRewrite, RewriteExact, Eligible, CommandInv, ReconInv, UpdatePcs
  <2>2. recon.target \in Commits
    BY <1>2 DEF WorkOK
  <2> QED BY <1>5, <2>1, <2>2, ResolveIInv DEF RecognizeRewrite, PushedTo
<1>6. CASE SaveLocalPending
  <2>1. /\ UNCHANGED <<product, vol, bounds, run, ws, branch, evidence, rewritten,
                       control, issued>>
        /\ pc = "prove" /\ pc' = "rebase" /\ Rewritable
    BY <1>6 DEF SaveLocalPending
  <2>2. WorkOK' /\ SyncOK' /\ CommandOK'
    BY <1>2, <1>6, <2>1
    DEF SaveLocalPending, WorkOK, SyncOK, CommandOK, UpdatePcs, Phases
  <2>3. /\ recon'.status = recon.status /\ recon'.base = recon.base
        /\ recon'.head = recon.head /\ recon'.remote = recon.remote
        /\ recon'.rewrite = "local-pending" /\ recon'.target = cmd.onto
        /\ recon'.auth = cmd.auth /\ rec'.phase = "idle"
        /\ cmd'.saw = branch /\ cmd'.onto = cmd.onto
    BY <1>2, <1>6 DEF SaveLocalPending, WorkOK, SyncOK, CommandOK
  <2>4. SyncInv' /\ RunInv' /\ ReconInv'
    BY <2>1, <2>3, RewriteKeeps DEF UpdatePcs
  <2>5. CommandInv'
    BY <1>1, <2>1, <2>3 DEF CommandInv, Rewritable, PushedTo, UpdatePcs, ResumePcs
  <2> QED BY <1>1, <2>1, <2>2, <2>4, <2>5, TypesKept, TypeParts DEF IInv
<1>7. CASE BeginRebase
  <2>1. /\ UNCHANGED <<product, rec, vol, cmd, bounds, run, recon, branch, evidence,
                       rewritten, control, issued>>
        /\ pc = "rebase" /\ pc' = "rebasing" /\ ws' = [ws EXCEPT !.rebasing = TRUE]
    BY <1>7 DEF BeginRebase, Goto
  <2>2. WorkOK' /\ SyncOK'
    BY <1>2, <2>1 DEF WorkOK, SyncOK, UpdatePcs
  <2>3. SyncInv' /\ RunInv' /\ ReconInv'
    BY <2>1, UpdateKeeps DEF UpdatePcs
  <2>4. CommandInv'
    BY <1>1, <2>1 DEF CommandInv, PushedTo, UpdatePcs, ResumePcs
  <2> QED BY <1>1, <2>1, <2>2, <2>3, <2>4, TypesKept, TypeParts DEF IInv
<1>8. CASE EndRebase
  <2>1. /\ UNCHANGED <<product, rec, vol, cmd, bounds, run, recon, branch, evidence,
                       rewritten, control, issued>>
        /\ pc = "rebasing" /\ pc' = "rebased"
    BY <1>8 DEF EndRebase, Goto
  <2>2. recon.head \in Works /\ recon.head.base = recon.base
    BY <1>1, <2>1 DEF CommandInv, ReconInv, RunInv, UpdatePcs
  <2>3. Work(cmd.onto, commands) \in Works /\ Work(cmd.onto, commands).base = cmd.onto
    BY <1>2, WorkParts DEF CommandOK
  <2>4. PICK h \in Works :
          h.base = cmd.onto /\ ws' = [rebasing |-> FALSE, head |-> h]
    BY <1>8, <2>2, <2>3 DEF EndRebase
  <2>5. WorkOK' /\ SyncOK'
    BY <1>2, <2>1, <2>4 DEF WorkOK, SyncOK, UpdatePcs
  <2>6. SyncInv' /\ RunInv' /\ ReconInv'
    BY <2>1, UpdateKeeps DEF UpdatePcs
  <2>7. CommandInv'
    BY <1>1, <2>1, <2>4 DEF CommandInv, PushedTo, UpdatePcs, ResumePcs
  <2> QED BY <1>1, <2>1, <2>5, <2>6, <2>7, TypesKept, TypeParts DEF IInv
<1>9. CASE RebaseConflict
  <2>1. /\ UNCHANGED <<product, rec, moves, run, recon, branch, evidence, rewritten,
                       control, issued>>
        /\ pc = "rebasing" /\ ws' = [ws EXCEPT !.rebasing = FALSE]
        /\ pc' = "ready" /\ vol' = Home /\ cmd' = NoCmd
    BY <1>9 DEF RebaseConflict, Return
  <2>2. recon.status = "pending" /\ run.stage = "over"
    BY <1>1, <2>1 DEF CommandInv, ReconInv, UpdatePcs
  <2>3. ProductOK'
    BY <1>2, <1>9, ProductAssumption DEF RebaseConflict, ProductOK, product
  <2>4. WorkOK' /\ SyncOK' /\ CommandOK'
    BY <1>2, <2>1, Blanks DEF WorkOK, SyncOK, CommandOK, ProductPcs
  <2>5. SyncInv' /\ RunInv' /\ ReconInv' /\ CommandInv'
    BY <1>1, <2>1, <2>2
    DEF SyncInv, RunInv, ReconInv, CommandInv, ProductPcs, RunPcs, ResumePcs,
        UpdatePcs, Home, NoCmd
  <2> QED BY <2>3, <2>4, <2>5, TypeParts DEF IInv
<1>10. CASE PinRewritten
  <2>1. /\ UNCHANGED <<product, rec, vol, cmd, bounds, run, recon, ws, branch,
                       evidence, control, issued>>
        /\ pc = "rebased" /\ pc' = "record" /\ rewritten' = ws.head /\ cmd.saw # None
    BY <1>10 DEF PinRewritten, Goto
  <2>2. WorkOK' /\ SyncOK'
    <3>1. ws.head \in Works
      BY <1>1, <2>1 DEF CommandInv
    <3> QED BY <1>2, <2>1, <3>1 DEF WorkOK, SyncOK, UpdatePcs, Refs
  <2>3. SyncInv' /\ RunInv' /\ ReconInv'
    BY <2>1, UpdateKeeps DEF UpdatePcs
  <2>4. CommandInv'
    BY <1>1, <2>1 DEF CommandInv, PushedTo, UpdatePcs, ResumePcs
  <2> QED BY <1>1, <2>1, <2>2, <2>3, <2>4, TypesKept, TypeParts DEF IInv
<1>11. CASE SaveRemotePending
  <2>1. /\ UNCHANGED <<product, rec, vol, cmd, bounds, run, ws, branch, evidence,
                       rewritten, control, issued>>
        /\ pc = "record" /\ pc' = "publish"
    BY <1>11 DEF SaveRemotePending, Goto
  <2>2. ws.head \in Works /\ ws.head.base = cmd.onto /\ recon.target = cmd.onto
    BY <1>1, <2>1 DEF CommandInv, UpdatePcs
  <2>3. /\ recon'.status = recon.status /\ recon'.base = recon.base
        /\ recon'.head = recon.head /\ recon'.remote = recon.remote
        /\ recon'.result = ws.head /\ recon'.target = recon.target
        /\ recon'.auth = recon.auth
    BY <1>2, <1>11 DEF SaveRemotePending, WorkOK
  <2>4. WorkOK' /\ SyncOK'
    BY <1>2, <1>11, <2>1, <2>2 DEF SaveRemotePending, WorkOK, SyncOK, UpdatePcs
  <2>5. SyncInv' /\ RunInv' /\ ReconInv'
    BY <2>1, <2>2, <2>3, RewriteKeeps DEF UpdatePcs
  <2>6. CommandInv'
    BY <1>1, <2>1, <2>3 DEF CommandInv, PushedTo, UpdatePcs, ResumePcs
  <2> QED BY <1>1, <2>1, <2>4, <2>5, <2>6, TypesKept, TypeParts DEF IInv
<1>12. CASE PushRewritten
  <2>1. /\ UNCHANGED <<product, rec, vol, cmd, bounds, run, recon, ws, evidence,
                       rewritten, control, issued>>
        /\ pc = "publish" /\ pc' = "published" /\ branch' = ws.head
    BY <1>12 DEF PushRewritten, Goto
  <2>2. WorkOK' /\ SyncOK'
    <3>1. ws.head \in Works
      BY <1>1, <2>1 DEF CommandInv
    <3> QED BY <1>2, <2>1, <3>1 DEF WorkOK, SyncOK, UpdatePcs, Refs
  <2>3. SyncInv' /\ RunInv' /\ ReconInv'
    BY <2>1, UpdateKeeps DEF UpdatePcs
  <2>4. CommandInv'
    BY <1>1, <2>1 DEF CommandInv, PushedTo, UpdatePcs, ResumePcs
  <2> QED BY <1>1, <2>1, <2>2, <2>3, <2>4, TypesKept, TypeParts DEF IInv
<1>13. CASE PinResult
  <2>1. /\ UNCHANGED <<product, rec, vol, cmd, bounds, run, recon, ws, branch,
                       evidence, control, issued>>
        /\ pc' = "pinned" /\ rewritten' = ws.head
        /\ \/ pc = "rebased" /\ cmd.saw = None
           \/ pc = "published" /\ branch = ws.head
    BY <1>13 DEF PinResult, Goto, Effective
  <2>2. WorkOK' /\ SyncOK'
    <3>1. ws.head \in Works
      BY <1>1, <2>1 DEF CommandInv
    <3> QED BY <1>2, <2>1, <3>1 DEF WorkOK, SyncOK, UpdatePcs, Refs
  <2>3. SyncInv' /\ RunInv' /\ ReconInv'
    BY <2>1, UpdateKeeps DEF UpdatePcs
  <2>4. CommandInv'
    BY <1>1, <2>1 DEF CommandInv, UpdatePcs, ResumePcs, PushedTo
  <2> QED BY <1>1, <2>1, <2>2, <2>3, <2>4, TypesKept, TypeParts DEF IInv
<1>14. CASE SaveUpdated
  <2>1. /\ recon.status = "pending" /\ ~ws.rebasing /\ rewritten = ws.head
        /\ ws.head \in Works /\ ws.head.base = cmd.onto
        /\ cmd.saw # None => PushedTo(ws.head)
        /\ cmd.saw = None => PushedTo(None)
    BY <1>1, <1>14 DEF SaveUpdated, CommandInv, UpdatePcs
  <2>2. cmd.onto \in Commits /\ (cmd.saw # None) \in BOOLEAN
    BY <1>2 DEF CommandOK
  <2>3. /\ Resolve(ws.head, cmd.onto, cmd.saw # None) /\ Return
        /\ UNCHANGED <<product, bounds, ws, branch, evidence, rewritten, control,
                       issued>>
    BY <1>14 DEF SaveUpdated
  <2> QED BY <2>1, <2>2, <2>3, ResolveIInv
<1>15. CASE Refusals
  BY <1>15, RefusalIInv
<1> QED
  BY <1>3, <1>4, <1>5, <1>6, <1>7, <1>8, <1>9, <1>10, <1>11, <1>12, <1>13, <1>14,
     <1>15, <1>17, <1>18, <1>19 DEF UpdateStep, Refusals

-----------------------------------------------------------------------------
\* Every step.
LEMMA NextIInv == IInv /\ [Next]_vars => IInv'
<1> SUFFICES ASSUME IInv, [Next]_vars PROVE IInv'
  OBVIOUS
<1>1. CASE UNCHANGED vars
  <2>1. UNCHANGED <<product, rec, pc, vol, bounds, work, cmd, issued>>
    BY <1>1 DEF vars
  <2> QED BY <2>1, OwnerKeeps, TypesKept, TypeParts DEF IInv
<1>2. CASE Next
  <2>1. CASE ServiceStep
    BY <2>1, SyncIInv, RunIInv, ResumeIInv, UpdateIInv, RefusalIInv
    DEF ServiceStep, Refused, Refusals
  <2>2. CASE Operator
    BY <2>2, AdmitResumeIInv, AdmitUpdateIInv DEF Operator
  <2>3. CASE PushRewrittenFails \/ ResetFails \/ RebaseConflict
    BY <2>3, RefusalIInv, UpdateIInv DEF Refusals
  <2>4. CASE OthersStep
    BY <2>4, OthersIInv
  <2> QED BY <1>2, <2>1, <2>2, <2>3, <2>4 DEF Next, OthersStep
<1> QED BY <1>1, <1>2

\* The inductive invariant of a reconciliation under any interleaving of
\* service, operator, others and crashes.
THEOREM Invariance == Spec => []IInv
  BY InitIInv, NextIInv, PTL DEF Spec

\* Type correctness.
THEOREM TypeCorrect == Spec => []TypeOK
<1>1. IInv => TypeOK
  BY DEF IInv
<1> QED BY <1>1, Invariance, PTL

\* _persist_product_reconciliation, _reconcile_update_base_owned: the worker's
\* own commit is held by the worktree, the branch or an evidence ref, and by
\* the evidence ref as long as the reconciliation is open.
THEOREM WorkIsHeld == Spec => []CheckpointHeld
<1>1. IInv => CheckpointHeld
  <2> SUFFICES ASSUME IInv PROVE CheckpointHeld
    OBVIOUS
  <2>1. TypeOK /\ RunInv /\ ReconInv
    BY DEF IInv
  <2>2. recon.status \in {"none", "pending", "resolving", "resolved"}
    BY <2>1 DEF TypeOK, Statuses
  <2> QED BY <2>1, <2>2 DEF RunInv, ReconInv, AtHead, CheckpointHeld
<1> QED BY <1>1, Invariance, PTL

\* _reconcile_update_base_owned, _reconcile_resume_owned: a resolved
\* reconciliation describes the worktree, its base, its evidence and its
\* publication exactly.
THEOREM ResolutionExact == Spec => []ResolvedIsExact
<1>1. IInv => ResolvedIsExact
  <2> SUFFICES ASSUME IInv, recon.status = "resolved" PROVE ResolvedIsExact
    BY DEF ResolvedIsExact
  <2>1. TypeOK /\ RunInv /\ ReconInv
    BY DEF IInv
  <2>2. ws = [head |-> ws.head, rebasing |-> ws.rebasing] /\ ws.rebasing \in BOOLEAN
    BY <2>1 DEF TypeOK
  <2>3. ws.head = recon.head /\ ~ws.rebasing
    BY <2>1 DEF ReconInv, AtHead
  <2>4. ws = [head |-> recon.head, rebasing |-> FALSE]
    BY <2>2, <2>3
  <2> QED BY <2>1, <2>4 DEF RunInv, ReconInv, PushedTo, ResolvedIsExact
<1> QED BY <1>1, Invariance, PTL

-----------------------------------------------------------------------------
\* What a step may do to the branches.

\* Only a publication, a rewrite and the others move the execution branch.
LEMMA BranchMovers ==
  ASSUME [Next]_vars, branch' # branch
  PROVE  Publish \/ PushRewritten \/ OthersBranch
<1>1. ~UNCHANGED work
  BY DEF work
<1>2. ~UNCHANGED vars
  BY <1>1 DEF vars
<1>3. CASE RunStep
  BY <1>1, <1>3 DEF RunStep, Admit, RunWorker, PlanNothing, RecoverPublication,
       ObserveStable, ObserveChanged, PinCheckpoint, SaveReconciliation,
       PublicationBlocked, SavePublished, ApplyLifecycle, Finalize
<1>4. CASE ResumeStep \/ Operator
  BY <1>1, <1>4 DEF ResumeStep, ContinueResume, BeginResume, ResumePublication,
       ResumeRefused, SaveResumed, Operator, AdmitResume, AdmitAutoResume,
       AdmitUpdate
<1>5. CASE UpdateStep \/ PushRewrittenFails \/ ResetFails \/ RebaseConflict
  BY <1>1, <1>5 DEF UpdateStep, UpdateRefused, BeginUpdate, Restore,
       RestoreRefused, SaveRestored, RecognizeRewrite, RewriteAmbiguous,
       ProveRefused, SaveLocalPending, BeginRebase, EndRebase, SpoilRebase,
       UndoRebase, SaveUndone, Unrewritten, PinRewritten, PinRefused,
       SaveRemotePending, PinResult, PinResultRefused, SaveUpdated, Refuse,
       PushRewrittenFails, ResetFails, RebaseConflict
<1>6. CASE Synchronize \/ OthersStep
  BY <1>1, <1>6 DEF Synchronize, OthersStep, ServiceStops, ProductEnvironment,
       SyncControl, ProcessEnds, ProcessStarts
<1> QED
  BY <1>2, <1>3, <1>4, <1>5, <1>6 DEF Next, ServiceStep, Refused, OthersStep

-----------------------------------------------------------------------------
\* Where an authorization comes from.

\* Steps that leave the owner where it is, and all the rest out of an update.
LEMMA AuthKeeps ==
  ASSUME AuthInv, authorized' = authorized,
         \/ pc' \notin UpdatePcs
         \/ pc' = pc /\ cmd' = cmd /\ recon' = recon,
         \/ recon'.rewrite = "none"
         \/ /\ recon'.rewrite = recon.rewrite /\ recon'.auth = recon.auth
            /\ recon'.target = recon.target
  PROVE  AuthInv'
  BY DEF AuthInv

\* Steps within an update that leave its record alone.
LEMMA AuthWithin ==
  ASSUME AuthInv, UNCHANGED <<recon, cmd, issued>>, pc \in UpdatePcs,
         pc' = "prove" \/ pc \notin {"update", "prove"}
  PROVE  AuthInv'
  BY DEF AuthInv

\* The steps of an update.
LEMMA UpdateAuth ==
  ASSUME IInv, AuthInv, UpdateStep
  PROVE  AuthInv'
<1>1. TypeOK /\ CommandInv
  BY DEF IInv
<1>2. WorkOK /\ CommandOK
  BY <1>1, TypeParts
<1> USE DEF UpdatePcs
<1>3. CASE Refusals
  <2>1. UNCHANGED <<recon, issued>> /\ pc' = "ready"
    BY <1>3 DEF Refusals, UpdateRefused, RestoreRefused, RewriteAmbiguous,
         ProveRefused, PinRefused, PinResultRefused, PushRewrittenFails,
         ResetFails, Refuse, Return, work
  <2> QED BY <2>1, AuthKeeps
<1>4. CASE BeginUpdate
  <2>1. UNCHANGED <<recon, cmd, issued>> /\ pc = "update" /\ pc' = "prove"
    BY <1>4 DEF BeginUpdate, Goto, work
  <2> QED BY <2>1, AuthWithin
<1>5. CASE BeginRebase \/ EndRebase \/ SpoilRebase \/ UndoRebase \/ PinRewritten
             \/ PushRewritten \/ PinResult
  <2>1. /\ UNCHANGED <<recon, cmd, issued>>
        /\ pc \in UpdatePcs /\ pc \notin {"update", "prove"}
    BY <1>5 DEF BeginRebase, EndRebase, SpoilRebase, UndoRebase, PinRewritten,
         PushRewritten, PinResult, Effective, Goto
  <2> QED BY <2>1, AuthWithin
<1>6. CASE Restore
  <2>1. /\ UNCHANGED <<recon, issued>> /\ pc = "update" /\ pc' = "restored"
        /\ recon.rewrite # "none" /\ recon.target = cmd.onto
    BY <1>6 DEF Restore, RestorableLocal, RestorableUnpublished, Eligible
  <2>2. cmd'.onto = cmd.onto /\ (cmd'.auth <=> cmd.auth \/ recon.auth)
    BY <1>2, <1>6 DEF Restore, CommandOK
  <2> QED BY <2>1, <2>2 DEF AuthInv
<1>7. CASE SaveRestored
  <2>1. UNCHANGED <<cmd, issued>> /\ pc = "restored" /\ pc' = "prove"
    BY <1>7 DEF SaveRestored, Unrewritten, Goto
  <2>2. recon'.rewrite = "none"
    BY <1>2, <1>7 DEF SaveRestored, Unrewritten, WorkOK
  <2> QED BY <2>1, <2>2 DEF AuthInv
<1>8. CASE SaveUndone
  <2>1. UNCHANGED issued /\ pc' = "ready"
    BY <1>8 DEF SaveUndone, Unrewritten, Return
  <2>2. recon'.rewrite = "none"
    BY <1>2, <1>8 DEF SaveUndone, Unrewritten, WorkOK
  <2> QED BY <2>1, <2>2, AuthKeeps
<1>9. CASE RecognizeRewrite \/ SaveUpdated
  <2>1. UNCHANGED issued /\ pc' = "ready"
    BY <1>9 DEF RecognizeRewrite, SaveUpdated, Return
  <2>2. recon'.rewrite = "none"
    BY <1>2, <1>9 DEF RecognizeRewrite, SaveUpdated, Resolve, WorkOK
  <2> QED BY <2>1, <2>2, AuthKeeps
<1>10. CASE SaveLocalPending
  <2>1. UNCHANGED issued /\ pc = "prove" /\ pc' = "rebase"
    BY <1>10 DEF SaveLocalPending
  <2>2. /\ recon'.rewrite = "local-pending" /\ recon'.target = cmd.onto
        /\ recon'.auth = cmd.auth /\ cmd'.auth = cmd.auth /\ cmd'.onto = cmd.onto
    BY <1>2, <1>10 DEF SaveLocalPending, WorkOK, CommandOK
  <2> QED BY <2>1, <2>2 DEF AuthInv
<1>11. CASE SaveRemotePending
  <2>1. UNCHANGED <<cmd, issued>> /\ pc = "record" /\ pc' = "publish"
    BY <1>11 DEF SaveRemotePending, Goto
  <2>2. /\ recon'.rewrite = "remote-pending" /\ recon'.target = recon.target
        /\ recon'.auth = recon.auth
    BY <1>2, <1>11 DEF SaveRemotePending, WorkOK
  <2> QED BY <2>1, <2>2 DEF AuthInv
<1> QED
  BY <1>3, <1>4, <1>5, <1>6, <1>7, <1>8, <1>9, <1>10, <1>11
  DEF UpdateStep, Refusals

\* Every step.
LEMMA NextAuth == IInv /\ AuthInv /\ [Next]_vars => AuthInv'
<1> SUFFICES ASSUME IInv, AuthInv, [Next]_vars PROVE AuthInv'
  OBVIOUS
<1>1. TypeOK
  BY DEF IInv
<1>2. WorkOK
  BY <1>1, TypeParts
<1>3. CASE UpdateStep
  BY <1>3, UpdateAuth
<1>4. CASE AdmitUpdate
  <2>1. UNCHANGED recon /\ pc' = "update"
    BY <1>4 DEF AdmitUpdate, work
  <2>2. PICK auth \in BOOLEAN :
          /\ cmd' = [NoCmd EXCEPT !.by = "operator", !.auth = auth, !.onto = local]
          /\ authorized' = IF auth THEN authorized \cup {local} ELSE authorized
    BY <1>4 DEF AdmitUpdate
  <2>3. cmd'.auth = auth /\ cmd'.onto = local
    BY <2>2 DEF NoCmd
  <2> QED BY <2>1, <2>2, <2>3 DEF AuthInv, UpdatePcs
<1>5. CASE UNCHANGED vars \/ ProductEnvironment \/ OthersBranch \/ SyncControl
  <2>1. UNCHANGED <<recon, pc, cmd, issued>>
    <3>1. CASE ProductEnvironment
      BY <3>1 DEF ProductEnvironment, ProductChanges, OthersPush, OperatorMoves,
           OperatorFetches, OperatorEdits, OperatorTidies, Meddle, work
    <3> QED BY <1>5, <3>1 DEF vars, work, OthersBranch, SyncControl
  <2> QED BY <2>1, AuthKeeps
<1>6. ASSUME UNCHANGED issued, pc' \notin UpdatePcs,
             \/ recon' = recon \/ recon' = Reconciliation
             \/ recon' = [recon EXCEPT !.status = "resolving"]
             \/ recon' = [recon EXCEPT !.status = "resolved"]
      PROVE  AuthInv'
  <2>1. CASE recon' = Reconciliation
    BY <1>6, <2>1, AuthKeeps DEF Reconciliation, NoRecon
  <2>2. CASE recon' # Reconciliation
    <3>1. /\ recon'.rewrite = recon.rewrite /\ recon'.auth = recon.auth
          /\ recon'.target = recon.target
      BY <1>2, <1>6, <2>2 DEF WorkOK
    <3> QED BY <1>6, <3>1, AuthKeeps
  <2> QED BY <2>1, <2>2
<1> USE DEF UpdatePcs
<1>7. CASE RunStep
  <2>1. CASE Admit \/ PinCheckpoint
    BY <2>1, AuthKeeps DEF Admit, PinCheckpoint, work
  <2> QED BY <1>6, <1>7, <2>1 DEF RunStep, RunWorker, PlanNothing,
         RecoverPublication, ObserveStable, ObserveChanged, SaveReconciliation,
         PublicationBlocked, Publish, SavePublished, ApplyLifecycle, Finalize,
         Goto, Return, work
<1>8. CASE ResumeStep
  <2>1. pc' \in {"resume", "resuming", "observe", "ready", "off"} /\ UNCHANGED issued
    BY <1>8 DEF ResumeStep, ContinueResume, BeginResume, ResumePublication,
         ResumeRefused, SaveResumed, Goto, Return, Raise, Fail
  <2>2. \/ recon' = recon \/ recon' = [recon EXCEPT !.status = "resolving"]
        \/ recon' = [recon EXCEPT !.status = "resolved"]
    BY <1>8 DEF ResumeStep, ContinueResume, BeginResume, ResumePublication,
         ResumeRefused, SaveResumed, work
  <2> QED BY <1>6, <2>1, <2>2
<1>9. CASE AdmitResume \/ AdmitAutoResume
  <2>1. pc' = "resume" /\ authorized' = authorized
    BY <1>9 DEF AdmitResume, AdmitAutoResume
  <2>2. recon' = recon \/ recon' = [recon EXCEPT !.status = "resolving"]
    BY <1>9 DEF AdmitResume, AdmitAutoResume, work
  <2>3. /\ recon'.rewrite = recon.rewrite /\ recon'.auth = recon.auth
        /\ recon'.target = recon.target
    BY <1>2, <2>2 DEF WorkOK
  <2> QED BY <2>1, <2>3, AuthKeeps
<1>10. CASE PushRewrittenFails \/ ResetFails \/ RebaseConflict \/ ServiceStops
              \/ ProcessEnds \/ ProcessStarts
  <2>1. pc' \in {"ready", "off"} /\ UNCHANGED <<recon, issued>>
    BY <1>10 DEF PushRewrittenFails, ResetFails, RebaseConflict, ServiceStops,
         StopBeforeMerge, ProcessEnds, Crash, ProcessStarts, Start, Return, work
  <2> QED BY <1>6, <2>1
<1>11. CASE Synchronize
  <2>1. UNCHANGED <<recon, issued>> /\ SyncStep(Absorbed)
    BY <1>11 DEF Synchronize, work
  <2>2. pc' \notin UpdatePcs
    BY <2>1 DEF SyncStep, Fetch, SyncRefused, SyncDiverged, SaveMerge, Merge,
         MergeFails, EndMerge, EndMergeRefused, EndSync, Fail
  <2> QED BY <1>6, <2>1, <2>2
<1> QED
  BY <1>3, <1>4, <1>5, <1>7, <1>8, <1>9, <1>10, <1>11
  DEF Next, ServiceStep, Refused, Operator

\* _reconcile_update_base_owned: an authorization that is in the record or in
\* the hands of a command was given by the operator, for the base it is used
\* for.
THEOREM AuthorizationGiven == Spec => []AuthInv
<1>1. Init => AuthInv
  BY DEF Init, InitProduct, AuthInv, NoRecon, UpdatePcs
<1> QED BY <1>1, NextAuth, Invariance, PTL DEF Spec

\* _publish_execution_branch and the leases of update-base: the service never
\* replaces what somebody else pushed, and a rewrite replaces what is
\* published only if the operator has allowed that for the base it goes onto.
THEOREM BranchSafe == Spec => BranchNeverClobbered
<1>1. IInv /\ AuthInv /\ [Next]_vars =>
        [branch' # branch /\ branch' # Alien =>
           /\ branch # Alien
           /\ pc = "publish" /\ branch # None =>
                recon.auth /\ recon.target \in authorized]_vars
  <2> SUFFICES ASSUME IInv, AuthInv, [Next]_vars, branch' # branch, branch' # Alien
               PROVE  /\ branch # Alien
                      /\ pc = "publish" =>
                           recon.auth /\ recon.target \in authorized
    OBVIOUS
  <2>1. RunInv /\ ReconInv /\ CommandInv
    BY DEF IInv
  <2>2. CASE Publish
    BY <2>2 DEF Publish, Publishable
  <2>3. CASE PushRewritten
    <3>1. branch = cmd.saw /\ pc = "publish"
      BY <2>3 DEF PushRewritten
    <3>2. cmd.saw \in {None, Prior, recon.head} /\ cmd.saw # None /\ recon.auth
      BY <2>1, <3>1 DEF CommandInv, UpdatePcs
    <3>3. recon.head \in Works
      BY <2>1, <3>1 DEF CommandInv, ReconInv, RunInv, UpdatePcs
    <3>4. recon.target \in authorized
      BY <3>1, <3>2 DEF AuthInv, UpdatePcs
    <3> QED BY <3>1, <3>2, <3>3, <3>4, Outsiders
  <2>4. CASE OthersBranch
    BY <2>4 DEF OthersBranch
  <2> QED BY <2>2, <2>3, <2>4, BranchMovers
<1> QED BY <1>1, Invariance, AuthorizationGiven, PTL DEF Spec, BranchNeverClobbered

\* _run_iteration_body: the service moves the operator's checkout only inside
\* a recorded transaction, forward, and to the head it fetched.
THEOREM AdoptionRecorded == Spec => AdoptsOnlyRecorded
<1>1. IInv /\ [Next]_vars =>
        [local' # local /\ pc' # pc =>
           /\ rec.phase = "merge_pending"
           /\ Ancestor(local, local') /\ local' = seen]_vars
  <2> SUFFICES ASSUME IInv, [Next]_vars, local' # local, pc' # pc
               PROVE  /\ rec.phase = "merge_pending"
                      /\ Ancestor(local, local') /\ local' = seen
    OBVIOUS
  <2>1. ~UNCHANGED product /\ ~Observe
    BY DEF product, Observe
  <2>2. ~UNCHANGED vars
    BY <2>1 DEF vars
  <2>3. ~RunStep
    BY <2>1 DEF RunStep, Admit, RunWorker, PlanNothing, RecoverPublication,
         ObserveStable, ObserveChanged, PinCheckpoint, SaveReconciliation,
         PublicationBlocked, Publish, SavePublished, ApplyLifecycle, Finalize
  <2>4. ~ResumeStep /\ ~Operator
    BY <2>1 DEF ResumeStep, ContinueResume, BeginResume, ResumePublication,
         ResumeRefused, SaveResumed, Operator, AdmitResume, AdmitAutoResume,
         AdmitUpdate
  <2>5. ~UpdateStep /\ ~PushRewrittenFails /\ ~ResetFails /\ ~RebaseConflict
    BY <2>1 DEF UpdateStep, UpdateRefused, BeginUpdate, Restore, RestoreRefused,
         SaveRestored, RecognizeRewrite, RewriteAmbiguous, ProveRefused,
         SaveLocalPending, BeginRebase, EndRebase, SpoilRebase, UndoRebase,
         SaveUndone, Unrewritten, PinRewritten, PinRefused, SaveRemotePending,
         PushRewritten, PinResult, PinResultRefused, SaveUpdated,
         PushRewrittenFails, ResetFails, RebaseConflict
  <2>6. ~ProductEnvironment
    BY DEF ProductEnvironment, ProductChanges, OthersPush, OperatorMoves,
         OperatorFetches, OperatorEdits, OperatorTidies, Meddle
  <2>7. ~ServiceStops /\ ~OthersBranch /\ ~SyncControl /\ ~ProcessEnds /\ ~ProcessStarts
    BY <2>1 DEF ServiceStops, StopBeforeMerge, OthersBranch, SyncControl,
         ProcessEnds, Crash, ProcessStarts, Start
  <2>8. SyncStep(Absorbed)
    BY <2>2, <2>3, <2>4, <2>5, <2>6, <2>7
    DEF Next, ServiceStep, Refused, Synchronize
  <2>9. Merge
    BY <2>1, <2>8 DEF SyncStep, Fetch, SyncRefused, SyncDiverged, SaveMerge,
         MergeFails, EndMerge, EndMergeRefused, EndSync
  <2>10. rec.phase = "merge_pending"
    BY <2>9 DEF Merge, IInv, SyncInv
  <2> QED BY <2>9, <2>10 DEF Merge
<1> QED BY <1>1, Invariance, PTL DEF Spec, AdoptsOnlyRecorded
=============================================================================
