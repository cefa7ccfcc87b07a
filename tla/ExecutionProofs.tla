-------------------------- MODULE ExecutionProofs --------------------------
(***************************************************************************)
(* The safety of Execution for any number of executions, external commits, *)
(* crashes and requests: IInv is inductive, and the properties of the      *)
(* execution_safety run follow from it.                                    *)
(***************************************************************************)
EXTENDS Execution, FiniteSetTheorems, TLAPS

-----------------------------------------------------------------------------
(* The invariant in four groups, and what a step may do to each. *)

TypeInv == TypeOK /\ CountsFit
RecordInv == RecordFits(st) /\ CopyFits /\ PutAway /\ LaunchOrder /\ WorkKept
PlaceInv == AdmissionPlaces /\ WorkerPlaces /\ FirstOwner
OrderInv == GenerationOrder /\ NoSilentRerun

RanAfter(e) == e \in workers' \/ results'[e] # "none"

\* RecordFits and HandledFits of a record after the step.
FitsAfter(s) ==
  /\ s.phase # "idle" => s.exec \in Execs
  /\ s.phase = "agent_pending" => ~RanAfter(s.exec)
  /\ workers' # {} => /\ workers' = {s.exec} /\ s.phase = "agent_running"
                      /\ s.stage \in {"worker-launch", "worker-running"}
  /\ s.phase = "agent_running" /\ s.stage \in RecoverableStages =>
       s.report = results'[s.exec] /\ results'[s.exec] # "none"
  /\ s.phase = "agent_running" /\ s.stage \in RecoverableStages \ {"checkpointing"} =>
       ~dirty'

CurrentAfter == [product |-> product', control |-> control']

HandledAfter(s) ==
  /\ \A e \in Execs : launches'[e] # NoLaunch =>
       /\ s.handled # NoGeneration
       /\ UpTo(launches'[e].at, s.handled)
       /\ UpTo(launches'[e].at, Admitted(s))
  /\ s.handled # NoGeneration => UpTo(s.handled, CurrentAfter)
  /\ UpTo(Admitted(s), CurrentAfter)

\* The record still is about the same admission.
SameAdmission ==
  /\ st'.exec = st.exec /\ st'.local = st.local /\ st'.bound = st.bound
  /\ st'.handled = st.handled

SamePhase == SameAdmission /\ st'.phase = st.phase

-----------------------------------------------------------------------------
(* Types. *)

\* The generations and failures that the actions build.
LEMMA GenerationTyped ==
  /\ \A p \in Heads, c \in ControlHeads :
       /\ [product |-> p, control |-> c] \in Generations
       /\ [product |-> p, control |-> c] # NoGeneration
  /\ \A g \in Generations : g # NoGeneration
BY BoundsAssumption DEF Generations, ControlHeads, Heads, NoGeneration

\* A failure record is one.
LEMMA FailureTyped ==
  ASSUME NEW e \in 0..MaxExecs, NEW k \in Kinds, NEW g \in Generations
  PROVE  /\ FailureAt(e, k, g) \in Failures
         /\ [FailureAt(e, k, g) EXCEPT !.generation = FALSE] \in Failures
         /\ NoFailure \in Failures
<1> DEFINE b == k # "none"
<1>1. b \in BOOLEAN
  OBVIOUS
<1>2. FailureAt(e, k, g) = [exec |-> e, interrupted |-> b, kind |-> k,
                            generation |-> TRUE, at |-> g]
  BY DEF FailureAt
<1> HIDE DEF b
<1>3. FailureAt(e, k, g) \in Failures
  BY <1>1, <1>2 DEF Failures
<1>4. [FailureAt(e, k, g) EXCEPT !.generation = FALSE] \in Failures
  <2> HIDE DEF FailureAt
  <2> QED BY <1>3 DEF Failures
<1>5. NoFailure \in Failures
  <2>1. NoExec \in 0..MaxExecs
    BY BoundsAssumption DEF NoExec
  <2> QED BY <2>1 DEF NoFailure, Failures, Kinds
<1> QED BY <1>3, <1>4, <1>5

\* No record is the absent copy.
LEMMA NoSnapIsNone == ~(NoSnap \in States)
BY DEF NoSnap, InitialState, States, Phases

\* The fields of a record have their types.
LEMMA FieldsTyped ==
  ASSUME NEW s \in States
  PROVE  /\ s.phase \in Phases /\ s.stage \in Stages /\ s.exec \in 0..MaxExecs
         /\ s.base \in Heads /\ s.local \in Heads /\ s.bound \in ControlHeads
         /\ s.start \in 0..MaxExecs /\ s.remote \in 0..MaxExecs
         /\ s.identity \in BOOLEAN /\ s.kind \in Kinds /\ s.marker \in 0..MaxExecs
         /\ s.failed \in Failures /\ s.handled \in Generations \cup {NoGeneration}
         /\ s.report \in Conclusions /\ s.reconciliation \in BOOLEAN
BY DEF States

\* What the save of an idle record does.
LEMMA IdleTyped ==
  ASSUME NEW s \in States
  PROVE  LET t == Idle(s) IN
         /\ t \in States /\ t.phase = "idle" /\ t.exec = s.exec
         /\ t.local = s.local /\ t.bound = s.bound /\ t.handled = s.handled
         /\ t.marker = s.marker
BY DEF States, Idle, Phases, Conclusions, Kinds

-----------------------------------------------------------------------------
(* What each action does to the persisted record. *)

SameStage == SamePhase /\ st'.stage = st.stage /\ st'.report = st.report

\* Only the interruption kind or a marker is saved.
LEMMA NoteEffect ==
  ASSUME TypeOK, StrandedBlocked \/ AdmitRetry \/ RecordInterruption
  PROVE  st' \in States /\ SameStage
<1> USE DEF SameStage, SamePhase, SameAdmission
<1>1. st \in States /\ LostKind \in Kinds /\ "operator_abort" \in Kinds
  BY FieldsTyped DEF TypeOK, LostKind, Kinds
<1>2. ASSUME NEW k \in Kinds, st' = [st EXCEPT !.kind = k]
      PROVE  st' \in States /\ SameStage
  BY <1>1, <1>2 DEF States
<1>3. ASSUME NEW m \in 0..MaxExecs, st' = [st EXCEPT !.marker = m]
      PROVE  st' \in States /\ SameStage
  BY <1>1, <1>3 DEF States
<1>4. CASE StrandedBlocked
  BY <1>1, <1>2, <1>4 DEF StrandedBlocked
<1>5. CASE RecordInterruption
  BY <1>1, <1>2, <1>5 DEF RecordInterruption
<1>6. CASE AdmitRetry
  <2>1. PICK m : m = (IF st.marker = st.exec THEN NoExec ELSE st.marker)
    OBVIOUS
  <2>2. m \in 0..MaxExecs
    BY <1>1, <2>1, FieldsTyped, BoundsAssumption DEF NoExec
  <2>3. st' = [st EXCEPT !.marker = m]
    BY <1>6, <2>1 DEF AdmitRetry
  <2> QED BY <1>3, <2>2, <2>3
<1> QED BY <1>4, <1>5, <1>6

\* The stages of the worker's run.
LEMMA WorkerEffect ==
  ASSUME TypeOK
  PROVE  /\ RecordIdentity =>
              /\ st' \in States /\ SamePhase /\ st'.report = st.report
              /\ Absent => st' = st
              /\ ~Absent => st'.stage = "worker-running"
         /\ WorkerRetired => st' \in States /\ SamePhase /\ st'.stage = "post-worker"
         /\ SaveCheckpointing /\ results[st.exec] \in Conclusions =>
              /\ st' \in States /\ SamePhase /\ st'.stage = "checkpointing"
              /\ st'.report = results[st.exec]
<1> USE DEF SamePhase, SameAdmission
<1>1. st \in States /\ "worker-running" \in Stages /\ "post-worker" \in Stages
        /\ "checkpointing" \in Stages
  BY DEF TypeOK, Stages
<1>2. RecordIdentity =>
        /\ st' \in States /\ SamePhase /\ st'.report = st.report
        /\ Absent => st' = st
        /\ ~Absent => st'.stage = "worker-running"
  BY <1>1 DEF RecordIdentity, States
<1>3. WorkerRetired => st' \in States /\ SamePhase /\ st'.stage = "post-worker"
  BY <1>1 DEF WorkerRetired, States
<1>4. ASSUME SaveCheckpointing, results[st.exec] \in Conclusions
      PROVE  /\ st' \in States /\ SamePhase /\ st'.stage = "checkpointing"
             /\ st'.report = results[st.exec]
  BY <1>1, <1>4 DEF SaveCheckpointing, States
<1> QED BY <1>2, <1>3, <1>4

\* The stages of the publication.
LEMMA PublicationEffect ==
  ASSUME TypeOK
  PROVE  /\ SaveCheckpoint =>
              /\ st' \in States /\ SamePhase /\ st'.stage = "post-checkpoint"
              /\ st'.report = held
         /\ SavePublishing =>
              /\ st' \in States /\ SamePhase /\ st'.report = st.report
              /\ recovering => st' = st
              /\ ~recovering => st'.stage = "publishing"
         /\ SavePublished =>
              /\ st' \in States /\ SamePhase /\ st'.stage = "post-publication"
              /\ st'.report = IF recovering THEN held ELSE st.report
         /\ SaveLifecycle =>
              /\ st' \in States /\ SamePhase /\ st'.stage = "lifecycle"
              /\ st'.report = held
<1> USE DEF SamePhase, SameAdmission
<1>1. /\ st \in States /\ held \in Conclusions
      /\ {"post-checkpoint", "publishing", "post-publication", "lifecycle"} \subseteq Stages
  BY DEF TypeOK, Stages
<1>2. SaveCheckpoint =>
        /\ st' \in States /\ SamePhase /\ st'.stage = "post-checkpoint"
        /\ st'.report = held
  BY <1>1 DEF SaveCheckpoint, States
<1>3. SavePublishing =>
        /\ st' \in States /\ SamePhase /\ st'.report = st.report
        /\ recovering => st' = st
        /\ ~recovering => st'.stage = "publishing"
  BY <1>1 DEF SavePublishing, States
<1>4. ASSUME SavePublished
      PROVE  /\ st' \in States /\ SamePhase /\ st'.stage = "post-publication"
             /\ st'.report = IF recovering THEN held ELSE st.report
  <2>1. PICK r : r = IF recovering THEN held ELSE st.report
    OBVIOUS
  <2>2. r \in Conclusions
    BY <1>1, <2>1, FieldsTyped
  <2>3. st' = [st EXCEPT !.stage = "post-publication", !.report = r]
    BY <1>4, <2>1 DEF SavePublished
  <2> QED BY <1>1, <2>1, <2>2, <2>3 DEF States
<1>5. ASSUME SaveLifecycle
      PROVE  /\ st' \in States /\ SamePhase /\ st'.stage = "lifecycle"
             /\ st'.report = held
  <2>1. PICK k : k = IF recovering THEN st.kind
                     ELSE IF aborted THEN "operator_abort" ELSE "none"
    OBVIOUS
  <2>2. k \in Kinds
    BY <1>1, <2>1, FieldsTyped DEF Kinds
  <2>3. st' = [st EXCEPT !.stage = "lifecycle", !.report = held, !.kind = k]
    BY <1>5, <2>1 DEF SaveLifecycle
  <2> QED BY <1>1, <2>2, <2>3 DEF States
<1> QED BY <1>2, <1>3, <1>4, <1>5

\* The record of an execution that is over.
LEMMA OverEffect ==
  ASSUME TypeOK
  PROVE  /\ Normalize =>
              /\ st' \in States /\ st'.phase = "idle" /\ st'.exec = st.exec
              /\ st'.local = st.local /\ st'.bound = st.bound /\ st'.handled = Current
         /\ IntegrityFails =>
              /\ st' \in States /\ st'.phase = "idle" /\ st'.exec = st.exec
              /\ st'.local = st.local /\ st'.bound = st.bound
              /\ st'.handled = Admitted(st)
         /\ ReconciliationRequired =>
              /\ st' \in States /\ st'.phase = "idle" /\ st'.exec = st.exec
              /\ st'.local = st.local /\ st'.bound = st.bound
              /\ st'.handled = [product |-> product, control |-> seen.control]
         /\ Finalize =>
              /\ st' \in States /\ st'.phase = "idle" /\ st'.exec = st.exec
              /\ st'.local = st.local /\ st'.bound = seen.control
              /\ st'.handled = [product |-> st.local, control |-> seen.control]
<1>1. /\ st \in States /\ LostKind \in Kinds /\ "none" \in Kinds
      /\ Current \in Generations /\ Admitted(st) \in Generations
      /\ seen.control \in ControlHeads
      /\ [product |-> st.local, control |-> seen.control] \in Generations
      /\ [product |-> product, control |-> seen.control] \in Generations
  BY FieldsTyped, GenerationTyped DEF TypeOK, LostKind, Kinds, Current, Admitted, Generations
<1>2. st.exec \in 0..MaxExecs /\ st.kind \in Kinds /\ st.marker \in 0..MaxExecs
  BY <1>1, FieldsTyped
<1>3. ASSUME Normalize
      PROVE  /\ st' \in States /\ st'.phase = "idle" /\ st'.exec = st.exec
             /\ st'.local = st.local /\ st'.bound = st.bound /\ st'.handled = Current
  <2>1. PICK f : f = FailureAt(st.exec, LostKind, Current)
    OBVIOUS
  <2>2. f \in Failures
    BY <1>1, <1>2, <2>1, FailureTyped
  <2>3. st' = [Idle(st) EXCEPT !.failed = f, !.handled = Current]
    BY <1>3, <2>1 DEF Normalize
  <2>4. PICK t : t = Idle(st)
    OBVIOUS
  <2>5. /\ t \in States /\ t.phase = "idle" /\ t.exec = st.exec
        /\ t.local = st.local /\ t.bound = st.bound
    BY <1>1, <2>4, IdleTyped
  <2>6. st' = [t EXCEPT !.failed = f, !.handled = Current]
    BY <2>3, <2>4
  <2> HIDE DEF Current
  <2> QED BY <1>1, <2>2, <2>5, <2>6 DEF States
<1>4. ASSUME IntegrityFails
      PROVE  /\ st' \in States /\ st'.phase = "idle" /\ st'.exec = st.exec
             /\ st'.local = st.local /\ st'.bound = st.bound
             /\ st'.handled = Admitted(st)
  <2>1. PICK f : f = [FailureAt(st.exec, "none", Admitted(st)) EXCEPT !.generation = FALSE]
    OBVIOUS
  <2>2. f \in Failures
    BY <1>1, <1>2, <2>1, FailureTyped
  <2>3. st' = [Idle(st) EXCEPT !.failed = f, !.handled = Admitted(st)]
    BY <1>4, <2>1 DEF IntegrityFails, Admitted
  <2>4. PICK t : t = Idle(st)
    OBVIOUS
  <2>5. /\ t \in States /\ t.phase = "idle" /\ t.exec = st.exec
        /\ t.local = st.local /\ t.bound = st.bound
    BY <1>1, <2>4, IdleTyped
  <2>6. st' = [t EXCEPT !.failed = f, !.handled = Admitted(st)]
    BY <2>3, <2>4
  <2> HIDE DEF Admitted
  <2> QED BY <1>1, <2>2, <2>5, <2>6 DEF States
<1>5. ASSUME ReconciliationRequired
      PROVE  /\ st' \in States /\ st'.phase = "idle" /\ st'.exec = st.exec
             /\ st'.local = st.local /\ st'.bound = st.bound
             /\ st'.handled = [product |-> product, control |-> seen.control]
  <2>1. PICK t : t = Idle(st)
    OBVIOUS
  <2>2. /\ t \in States /\ t.phase = "idle" /\ t.exec = st.exec
        /\ t.local = st.local /\ t.bound = st.bound
    BY <1>1, <2>1, IdleTyped
  <2>3. PICK g : g = [product |-> product, control |-> seen.control]
    OBVIOUS
  <2>4. st' = [t EXCEPT !.reconciliation = TRUE, !.handled = g]
    BY <1>5, <2>1, <2>3 DEF ReconciliationRequired
  <2>5. g \in Generations
    BY <1>1, <2>3
  <2>6. /\ st' \in States /\ st'.phase = "idle" /\ st'.exec = st.exec
        /\ st'.local = st.local /\ st'.bound = st.bound /\ st'.handled = g
    BY <2>2, <2>4, <2>5 DEF States
  <2> QED BY <2>3, <2>6
<1>6. ASSUME Finalize
      PROVE  /\ st' \in States /\ st'.phase = "idle" /\ st'.exec = st.exec
             /\ st'.local = st.local /\ st'.bound = seen.control
             /\ st'.handled = [product |-> st.local, control |-> seen.control]
  <2>1. PICK t : t = Idle(st)
    OBVIOUS
  <2>2. /\ t \in States /\ t.phase = "idle" /\ t.exec = st.exec
        /\ t.local = st.local /\ t.marker = st.marker
    BY <1>1, <2>1, IdleTyped
  <2>3. PICK g : g = [product |-> st.local, control |-> seen.control]
    OBVIOUS
  <2>4. PICK k : k = IF st.kind = "operator_abort" THEN st.kind ELSE "none"
    OBVIOUS
  <2>5. PICK f : f = IF held = "failed" THEN FailureAt(st.exec, k, g) ELSE NoFailure
    OBVIOUS
  <2>6. PICK m : m = IF st.marker = st.exec THEN NoExec ELSE st.marker
    OBVIOUS
  <2>7. k \in Kinds /\ g \in Generations
    BY <1>1, <1>2, <2>3, <2>4
  <2>8. f \in Failures
    BY <1>2, <2>5, <2>7, FailureTyped
  <2>9. m \in 0..MaxExecs
    BY <1>2, <2>6, BoundsAssumption DEF NoExec
  <2>10. PICK c : c = seen.control
    OBVIOUS
  <2>11. st' = [t EXCEPT !.failed = f, !.handled = g, !.bound = c, !.marker = m]
    BY <1>6, <2>1, <2>2, <2>3, <2>4, <2>5, <2>6, <2>10 DEF Finalize
  <2>12. /\ st' \in States /\ st'.phase = "idle" /\ st'.exec = st.exec
         /\ st'.local = st.local /\ st'.bound = c /\ st'.handled = g
    BY <1>1, <2>2, <2>7, <2>8, <2>9, <2>10, <2>11 DEF States
  <2> QED BY <2>3, <2>10, <2>12
<1> QED BY <1>3, <1>4, <1>5, <1>6

\* The record before and at the launch.
LEMMA AdmissionEffect ==
  ASSUME TypeOK
  PROVE  /\ PlanNothing =>
              /\ st' \in States /\ st'.phase = "idle" /\ st'.exec = st.exec
              /\ st'.local = st.local /\ st'.bound = st.bound /\ st'.handled = Current
         /\ DropMarker => st' \in States /\ st'.phase = "idle" /\ SameAdmission
         /\ CommitLaunch =>
              /\ st' \in States /\ st'.phase = "agent_running" /\ SameAdmission
              /\ st'.stage = "worker-launch"
         /\ LaunchRefused => st' \in States /\ st'.phase = "idle" /\ SameAdmission
<1> USE DEF SameAdmission
<1>1. /\ st \in States /\ Current \in Generations /\ ws \in 0..MaxExecs
      /\ NoExec \in 0..MaxExecs
  BY GenerationTyped, BoundsAssumption DEF TypeOK, Current, NoExec
<1>2. PICK t : t = Idle(st)
  OBVIOUS
<1>3. /\ t \in States /\ t.phase = "idle" /\ t.exec = st.exec
      /\ t.local = st.local /\ t.bound = st.bound /\ t.handled = st.handled
  BY <1>1, <1>2, IdleTyped
<1>4. ASSUME PlanNothing
      PROVE  /\ st' \in States /\ st'.phase = "idle" /\ st'.exec = st.exec
             /\ st'.local = st.local /\ st'.bound = st.bound /\ st'.handled = Current
  <2>1. st' = [t EXCEPT !.handled = Current]
    BY <1>2, <1>4 DEF PlanNothing
  <2> HIDE DEF Current
  <2> QED BY <1>1, <1>3, <2>1 DEF States
<1>5. ASSUME DropMarker
      PROVE  st' \in States /\ st'.phase = "idle" /\ SameAdmission
  <2>1. st' = [t EXCEPT !.marker = NoExec]
    BY <1>2, <1>5 DEF DropMarker
  <2> QED BY <1>1, <1>3, <2>1 DEF States
<1>6. ASSUME CommitLaunch
      PROVE  /\ st' \in States /\ st'.phase = "agent_running" /\ SameAdmission
             /\ st'.stage = "worker-launch"
  BY <1>1, <1>6 DEF CommitLaunch, States, Phases, Stages
<1>7. ASSUME LaunchRefused
      PROVE  st' \in States /\ st'.phase = "idle" /\ SameAdmission
  <2>1. st' = [t EXCEPT !.stage = "none"]
    BY <1>2, <1>7 DEF LaunchRefused
  <2> QED BY <1>1, <1>3, <2>1 DEF States, Stages
<1> QED BY <1>4, <1>5, <1>6, <1>7

\* A failed spawn that is reported as a failed worker.
LEMMA SpawnFailsEffect ==
  ASSUME TypeOK, SpawnFails
  PROVE  \/ /\ st' \in States /\ SamePhase /\ st'.stage = "post-worker"
            /\ results' = [results EXCEPT ![st.exec] = "failed"] /\ pc' = "post-worker"
            /\ UNCHANGED task
         \/ BackToLoop /\ UNCHANGED <<st, results>>
BY DEF TypeOK, SpawnFails, States, SamePhase, SameAdmission, Stages

\* The manual-retry marker is saved into the copy.
LEMMA MarkerEffect ==
  ASSUME TypeOK, SaveMarker
  PROVE  \/ /\ st' \in States /\ st'.phase = snap.phase /\ st'.exec = snap.exec
            /\ st'.stage = snap.stage /\ st'.report = snap.report
            /\ st'.local = snap.local /\ st'.bound = snap.bound
            /\ st'.handled = snap.handled
         \/ UNCHANGED st
<1>1. CASE st' = [snap EXCEPT !.marker = snap.exec]
  <2>1. snap \in States
    BY DEF TypeOK, SaveMarker
  <2> QED BY <1>1, <2>1 DEF States
<1>2. CASE UNCHANGED st
  BY <1>2
<1> QED BY <1>1, <1>2 DEF SaveMarker

\* Executions are numbered without a gap.
LEMMA NextIsNew ==
  ASSUME TypeOK, LaunchOrder
  PROVE  NextExec = st.exec + 1
<1>1. st.exec \in 0..MaxExecs
  BY FieldsTyped DEF TypeOK
<1>2. {e \in Execs : launches[e] # NoLaunch} = 1..st.exec
  BY <1>1, BoundsAssumption DEF LaunchOrder, Launched, Execs
<1>3. Cardinality(1..st.exec) = st.exec
  BY <1>1, FS_Interval, BoundsAssumption
<1> QED BY <1>2, <1>3 DEF NextExec

\* A pending execution is admitted again, or a new one is.
LEMMA AdmitEffect ==
  ASSUME TypeOK, LaunchOrder, Admit, pend => st.exec \in Execs
  PROVE  /\ st' \in States /\ st'.phase = "agent_pending" /\ st'.exec \in Execs
         /\ st'.local = seen.product /\ st'.handled = seen
         /\ pend => /\ st'.exec = st.exec /\ st'.bound = st.bound
                    /\ launches' = launches
         /\ ~pend => /\ st'.exec = st.exec + 1 /\ st'.bound = seen.control
                     /\ launches' = [launches EXCEPT ![st'.exec] =
                                       [auth |-> Authorization, at |-> seen]]
<1>1. /\ st \in States /\ seen \in Generations /\ branch \in 0..MaxExecs
      /\ seen.product \in Heads /\ seen.control \in ControlHeads
  BY DEF TypeOK, Generations
<1>2. PICK e : e = IF pend THEN st.exec ELSE st.exec + 1
  OBVIOUS
<1>3. e \in Execs /\ e \in 0..MaxExecs
  BY <1>2, NextIsNew, BoundsAssumption DEF Admit, Execs
<1>4. PICK b : b = IF st.exec # NoExec THEN st.base ELSE seen.product
  OBVIOUS
<1>5. PICK c : c = IF pend THEN st.bound ELSE seen.control
  OBVIOUS
<1>6. PICK r : r = IF pend THEN st.remote ELSE branch
  OBVIOUS
<1>7. b \in Heads /\ c \in ControlHeads /\ r \in 0..MaxExecs
  BY <1>1, <1>4, <1>5, <1>6, FieldsTyped
<1>8. PICK p : p = seen.product
  OBVIOUS
<1>9. st' = [st EXCEPT !.phase = "agent_pending", !.exec = e, !.base = b, !.local = p,
                       !.bound = c, !.remote = r, !.identity = FALSE, !.handled = seen]
  BY <1>2, <1>4, <1>5, <1>6, <1>8, NextIsNew DEF Admit
<1>10. /\ st' \in States /\ st'.phase = "agent_pending" /\ st'.exec = e
       /\ st'.local = p /\ st'.handled = seen /\ st'.bound = c
  BY <1>1, <1>3, <1>7, <1>8, <1>9 DEF States, Phases
<1>11. launches' = IF pend THEN launches
                   ELSE [launches EXCEPT ![e] = [auth |-> Authorization, at |-> seen]]
  BY <1>2, NextIsNew DEF Admit
<1> QED BY <1>2, <1>3, <1>5, <1>8, <1>10, <1>11

-----------------------------------------------------------------------------
(* Type correctness. *)

\* Every action saves a record.
LEMMA RecordTyped ==
  ASSUME IInv, Next
  PROVE  st' \in States
<1>0. TypeOK /\ LaunchOrder
  BY DEF IInv
<1>1. pc = "select" /\ pend => st.exec \in Execs
  BY DEF IInv, AdmissionPlaces
<1>2. pc = "post-worker" => results[st.exec] \in Conclusions
  BY DEF IInv, TypeOK, WorkerPlaces, AfterWorker
<1> USE DEF persistent, world
<1>3. CASE StartIteration
  BY <1>0, <1>3, NoteEffect, OverEffect
  DEF StartIteration, IterationPlans, IterationRecovers, TypeOK
<1>4. CASE Selection
  <2>1. CASE Admit
    BY <1>0, <1>1, <2>1, AdmitEffect DEF Admit
  <2> QED BY <1>0, <1>4, <2>1, AdmissionEffect
    DEF Selection, PlanStops, PlanSelects, PlanRepairs, PlanUnsafe, SelectSuppresses,
      SelectStale, GateStops, PrepareWorkspace, TypeOK
<1>5. CASE WorkerRun
  <2>1. CASE SpawnFails
    BY <1>0, <2>1, SpawnFailsEffect DEF TypeOK
  <2>2. CASE SaveCheckpointing
    BY <1>0, <1>2, <2>2, WorkerEffect DEF SaveCheckpointing, Goto
  <2> QED BY <1>0, <1>5, <2>1, <2>2, AdmissionEffect, WorkerEffect, NoteEffect, OverEffect
    DEF WorkerRun, Spawn, Interrupt, WorkerUnretired, TypeOK
<1>6. CASE Publication
  BY <1>0, <1>6, PublicationEffect, OverEffect
  DEF Publication, Checkpoint, CheckpointBlocked, DrainCheck, ProductUnobservable, Push,
    PushFails, ApplyLifecycle, LifecycleBlocked, TypeOK
<1>7. CASE OperatorStep
  BY <1>0, <1>7, NoteEffect, MarkerEffect
  DEF OperatorStep, DispatchRetry, LifecycleRequest, ForceAccepted, Sigint, TypeOK
<1>8. CASE EnvironmentStep
  BY <1>0, <1>8
  DEF EnvironmentStep, WorkerEnds, ServiceExits, Crash, Start, ProductMoves, ControlMoves,
    TypeOK
<1> QED BY <1>3, <1>4, <1>5, <1>6, <1>7, <1>8 DEF Next, OwnerStep

\* A lifecycle commit is counted once per execution, and there are no more
\* of them than executions.
LEMMA ReportCounted ==
  ASSUME TypeOK, CountsFit, NEW e \in Execs, NEW h \in 0..MaxExecs,
         ~ \E r \in reports : r.exec = e,
         reports' = reports \cup {[exec |-> e, head |-> h]}
  PROVE  /\ reports' \subseteq [exec : Execs, head : 0..MaxExecs]
         /\ control.own + 1 = Cardinality({r.exec : r \in reports'})
         /\ control.own + 1 \in 0..MaxExecs
<1> DEFINE S == {r.exec : r \in reports}
           T == {r.exec : r \in reports'}
<1>0. \A r \in reports' : r.exec \in 1..MaxExecs
  BY DEF TypeOK, Execs
<1>1. T = S \cup {e} /\ ~(e \in S) /\ T \in SUBSET (1..MaxExecs) /\ S \in SUBSET (1..MaxExecs)
  <2>1. T = S \cup {e}
    <3>1. ASSUME NEW x \in T PROVE x \in S \cup {e}
      BY <3>1
    <3>2. [exec |-> e, head |-> h].exec = e /\ [exec |-> e, head |-> h] \in reports'
      OBVIOUS
    <3>3. e \in T
      BY <3>2
    <3>4. ASSUME NEW x \in S PROVE x \in T
      BY <3>4
    <3> QED BY <3>1, <3>3, <3>4
  <2>2. T \in SUBSET (1..MaxExecs)
    BY <1>0
  <2> QED BY <2>1, <2>2
<1>2. IsFiniteSet(1..MaxExecs) /\ Cardinality(1..MaxExecs) = MaxExecs
  BY FS_Interval, BoundsAssumption
<1>3. IsFiniteSet(S) /\ Cardinality(S) \in Nat /\ Cardinality(T) <= MaxExecs
  BY <1>1, <1>2, FS_Subset, FS_CardinalityType
<1>4. control.own = Cardinality(S)
  BY DEF CountsFit
<1> HIDE DEF S
<1>5. Cardinality(T) = Cardinality(S) + 1
  <2> HIDE DEF T
  <2> QED BY <1>1, <1>3, FS_AddElement
<1>6. reports' \subseteq [exec : Execs, head : 0..MaxExecs]
  BY DEF TypeOK
<1>7. control.own + 1 \in 0..MaxExecs
  <2> HIDE DEF T
  <2> QED BY <1>3, <1>4, <1>5, BoundsAssumption
<1> QED BY <1>4, <1>5, <1>6, <1>7

WorldOK ==
  /\ product \in Heads /\ control \in ControlHeads /\ ticket \in {"todo", "review"}
  /\ seen \in Generations /\ ws \in 0..MaxExecs /\ dirty \in BOOLEAN
  /\ branch \in 0..MaxExecs /\ workers \subseteq Execs
  /\ reports \subseteq [exec : Execs, head : 0..MaxExecs]
TaskOK ==
  /\ pc \in Pcs /\ auth \in Auths /\ pend \in BOOLEAN /\ recovering \in BOOLEAN
  /\ aborted \in BOOLEAN /\ held \in Conclusions
SignalsOK == intent \in Intents /\ stop \in BOOLEAN /\ snap \in States \cup {NoSnap}
HistoryOK ==
  /\ launches \in [Execs -> Launches] /\ results \in [Execs -> Conclusions]
  /\ retired \subseteq Execs
BoundsOK ==
  changes \in 0..MaxChanges /\ crashes \in 0..MaxCrashes /\ requests \in 0..MaxRequests

\* What the place says about the execution the record names.
LEMMA NamedExecution ==
  ASSUME IInv
  PROVE  /\ pc = "select" /\ pend => st.exec \in Execs
         /\ pc \in {"pending", "prepared", "launch"} \cup AfterWorker => st.exec \in Execs
         /\ st.phase # "idle" => st.exec \in Execs
<1>1. /\ pc = "select" /\ pend => st.exec \in Execs
      /\ pc \in {"pending", "prepared"} => st.phase = "agent_pending"
      /\ pc = "launch" => st.phase = "agent_running"
  BY NoSnapIsNone DEF IInv, AdmissionPlaces, TypeOK
<1>2. pc \in AfterWorker => st.exec \in Execs
  BY DEF IInv, WorkerPlaces
<1>3. st.phase # "idle" => st.exec \in Execs
  BY DEF IInv, RecordFits
<1> QED BY <1>1, <1>2, <1>3

\* The owner's locals keep their types.
LEMMA TaskTyped ==
  ASSUME IInv, Next
  PROVE  TaskOK'
<1>0. TypeOK /\ TaskOK
  BY DEF IInv, TypeOK, TaskOK
<1>1. /\ st.report \in Conclusions
      /\ pc = "post-worker" => results[st.exec] \in Conclusions
  BY <1>0, FieldsTyped, NamedExecution DEF TypeOK, AfterWorker
<1> USE DEF local, task, BackToLoop, ProcessEnds, Goto, TaskOK, Pcs, Auths, Conclusions
<1>3. CASE StartIteration
  BY <1>0, <1>1, <1>3
  DEF StartIteration, IterationPlans, IterationRecovers, Normalize, StrandedBlocked,
    RecoverableStages
<1>4. CASE Selection
  <2>1. CASE PlanStops \/ PlanNothing \/ PlanSelects \/ PlanRepairs \/ PlanUnsafe
    BY <1>0, <2>1 DEF PlanStops, PlanNothing, PlanSelects, PlanRepairs, PlanUnsafe
  <2>2. CASE DropMarker \/ SelectSuppresses \/ SelectStale \/ GateStops
    BY <1>0, <2>2 DEF DropMarker, SelectSuppresses, SelectStale, GateStops
  <2>3. CASE Admit \/ PrepareWorkspace \/ CommitLaunch
    BY <1>0, <2>3 DEF Admit, Authorization, PrepareWorkspace, CommitLaunch
  <2> QED BY <1>4, <2>1, <2>2, <2>3 DEF Selection
<1>5. CASE WorkerRun
  <2>1. CASE LaunchRefused \/ Spawn \/ SpawnFails \/ RecordIdentity \/ Interrupt
    BY <1>0, <2>1 DEF LaunchRefused, Spawn, SpawnFails, RecordIdentity, Interrupt
  <2>2. CASE RecordInterruption \/ WorkerRetired \/ WorkerUnretired \/ IntegrityFails
    BY <1>0, <2>2 DEF RecordInterruption, WorkerRetired, WorkerUnretired, IntegrityFails
  <2>3. CASE SaveCheckpointing
    BY <1>0, <1>1, <2>3 DEF SaveCheckpointing
  <2> QED BY <1>5, <2>1, <2>2, <2>3 DEF WorkerRun
<1>6. CASE Publication
  <2>1. CASE Checkpoint \/ CheckpointBlocked \/ SaveCheckpoint \/ DrainCheck
    BY <1>0, <2>1 DEF Checkpoint, CheckpointBlocked, SaveCheckpoint, DrainCheck
  <2>2. CASE ReconciliationRequired \/ ProductUnobservable \/ SavePublishing \/ Push
    BY <1>0, <2>2 DEF ReconciliationRequired, ProductUnobservable, SavePublishing, Push
  <2>3. CASE PushFails \/ SavePublished \/ SaveLifecycle \/ LifecycleBlocked
    BY <1>0, <2>3 DEF PushFails, SavePublished, SaveLifecycle, LifecycleBlocked
  <2>4. CASE ApplyLifecycle \/ Finalize
    BY <1>0, <2>4 DEF ApplyLifecycle, Finalize
  <2> QED BY <1>6, <2>1, <2>2, <2>3, <2>4 DEF Publication
<1>7. CASE OperatorStep
  BY <1>0, <1>7
  DEF OperatorStep, AdmitRetry, DispatchRetry, LifecycleRequest, SaveMarker, ForceAccepted,
    Sigint
<1>8. CASE EnvironmentStep
  BY <1>0, <1>8
  DEF EnvironmentStep, WorkerEnds, ServiceExits, Crash, Start, ProductMoves, ControlMoves
<1> QED BY <1>3, <1>4, <1>5, <1>6, <1>7, <1>8 DEF Next, OwnerStep

\* So do the requests, the copy and the history.
LEMMA HistoryTyped ==
  ASSUME IInv, Next
  PROVE  SignalsOK' /\ HistoryOK' /\ BoundsOK'
<1>0. TypeOK /\ SignalsOK /\ HistoryOK /\ BoundsOK /\ LaunchOrder /\ st \in States
  BY DEF IInv, TypeOK, SignalsOK, HistoryOK, BoundsOK
<1> USE DEF signals, history, bounds, BackToLoop, ProcessEnds, Intents
<1>1. CASE Normalize \/ IntegrityFails \/ ReconciliationRequired \/ Finalize
  BY <1>0, <1>1, NamedExecution
  DEF Normalize, Stranded, IntegrityFails, ReconciliationRequired, Finalize, SignalsOK,
    HistoryOK, BoundsOK, AfterWorker
<1>2. CASE Admit
  <2>1. Authorization \in Auths /\ seen \in Generations
    BY <1>0 DEF Authorization, TypeOK, Auths
  <2>2. launches' \in [Execs -> Launches]
    BY <1>0, <1>2, <2>1, AdmitEffect, NamedExecution DEF Admit, HistoryOK, Launches
  <2>3. UNCHANGED <<signals, results, retired, bounds>>
    BY <1>2 DEF Admit
  <2> QED BY <1>0, <2>2, <2>3 DEF SignalsOK, HistoryOK, BoundsOK
<1>3. CASE SpawnFails \/ WorkerEnds
  BY <1>0, <1>3 DEF SpawnFails, WorkerEnds, SignalsOK, HistoryOK, BoundsOK, Conclusions
<1>4. ASSUME UNCHANGED <<history, bounds>>, UNCHANGED signals \/ ProcessEnds
      PROVE  SignalsOK' /\ HistoryOK' /\ BoundsOK'
  BY <1>0, <1>4 DEF SignalsOK, HistoryOK, BoundsOK
<1>5. CASE StartIteration /\ ~Normalize
  <2>1. UNCHANGED <<history, bounds>> /\ (UNCHANGED signals \/ ProcessEnds)
    BY <1>5 DEF StartIteration, IterationPlans, IterationRecovers, StrandedBlocked
  <2> QED BY <1>4, <2>1
<1>6. CASE Selection /\ ~Admit
  <2>1. UNCHANGED <<history, bounds>> /\ (UNCHANGED signals \/ ProcessEnds)
    BY <1>6
    DEF Selection, PlanStops, PlanNothing, PlanSelects, PlanRepairs, PlanUnsafe, DropMarker,
      SelectSuppresses, SelectStale, GateStops, PrepareWorkspace, CommitLaunch
  <2> QED BY <1>4, <2>1
<1>7. CASE WorkerRun /\ ~SpawnFails /\ ~IntegrityFails
  <2>1. UNCHANGED <<history, bounds, signals>>
    BY <1>7
    DEF WorkerRun, LaunchRefused, Spawn, RecordIdentity, Interrupt, RecordInterruption,
      WorkerRetired, WorkerUnretired, SaveCheckpointing
  <2> QED BY <1>4, <2>1
<1>8. CASE Publication /\ ~ReconciliationRequired /\ ~Finalize
  <2>1. UNCHANGED <<history, bounds, signals>>
    BY <1>8
    DEF Publication, Checkpoint, CheckpointBlocked, SaveCheckpoint, DrainCheck,
      ProductUnobservable, SavePublishing, Push, PushFails, SavePublished, SaveLifecycle,
      ApplyLifecycle, LifecycleBlocked
  <2> QED BY <1>4, <2>1
<1>9. CASE OperatorStep
  <2>1. CASE AdmitRetry \/ DispatchRetry
    BY <1>4, <2>1 DEF AdmitRetry, DispatchRetry
  <2>2. CASE \E i \in {"stop", "restart"}, f \in BOOLEAN : LifecycleRequest(i, f)
    BY <1>0, <2>2, BoundsAssumption
    DEF LifecycleRequest, CanRequest, SignalsOK, HistoryOK, BoundsOK
  <2>3. CASE SaveMarker
    BY <1>0, <2>3 DEF SaveMarker, SignalsOK, HistoryOK, BoundsOK
  <2>4. CASE ForceAccepted \/ Sigint
    <3>1. /\ requests < MaxRequests /\ requests' = requests + 1 /\ stop' = TRUE
          /\ UNCHANGED <<intent, snap, history, changes, crashes>>
      BY <2>4 DEF ForceAccepted, Sigint, CanRequest
    <3> QED BY <1>0, <3>1, BoundsAssumption DEF SignalsOK, HistoryOK, BoundsOK
  <2> QED BY <1>9, <2>1, <2>2, <2>3, <2>4 DEF OperatorStep
<1>10. CASE EnvironmentStep /\ ~WorkerEnds
  <2>1. CASE ServiceExits \/ Start
    BY <1>4, <2>1 DEF ServiceExits, Start
  <2>2. CASE Crash
    <3>1. /\ crashes < MaxCrashes /\ crashes' = crashes + 1
          /\ intent' = "none" /\ stop' = FALSE /\ snap' = NoSnap
          /\ UNCHANGED <<history, changes, requests>>
      BY <2>2 DEF Crash
    <3>2. BoundsOK'
      BY <1>0, <3>1, BoundsAssumption DEF BoundsOK
    <3>3. SignalsOK' /\ HistoryOK'
      BY <1>0, <3>1 DEF SignalsOK, HistoryOK
    <3> QED BY <3>2, <3>3
  <2>3. CASE ProductMoves \/ ControlMoves
    <3>1. /\ changes < MaxChanges /\ changes' = changes + 1
          /\ UNCHANGED <<signals, history, crashes, requests>>
      BY <2>3 DEF ProductMoves, ControlMoves
    <3> QED BY <1>0, <3>1, BoundsAssumption DEF SignalsOK, HistoryOK, BoundsOK
  <2> QED BY <1>10, <2>1, <2>2, <2>3 DEF EnvironmentStep
<1> QED BY <1>1, <1>2, <1>3, <1>5, <1>6, <1>7, <1>8, <1>9, <1>10
  DEF Next, OwnerStep, StartIteration, Selection, WorkerRun, Publication, EnvironmentStep

\* A lifecycle commit keeps the counts.
LEMMA ApplyTyped ==
  ASSUME IInv, ApplyLifecycle
  PROVE  /\ control' \in ControlHeads /\ control'.ext = control.ext
         /\ control.own <= control'.own
         /\ reports' \subseteq [exec : Execs, head : 0..MaxExecs]
         /\ control'.own = Cardinality({r.exec : r \in reports'})
         /\ seen' \in Generations /\ seen'.product = seen.product
         /\ seen'.control = control' /\ ticket' \in {"todo", "review"}
<1>1. /\ TypeOK /\ CountsFit /\ st.exec \in Execs /\ ws \in 0..MaxExecs
      /\ control \in ControlHeads /\ seen \in Generations
  BY NamedExecution DEF IInv, TypeOK, ApplyLifecycle, Goto, AfterWorker
<1>2. /\ control' \in ControlHeads /\ control'.ext = control.ext
      /\ control.own <= control'.own
      /\ reports' \subseteq [exec : Execs, head : 0..MaxExecs]
      /\ control'.own = Cardinality({r.exec : r \in reports'})
  <2>1. CASE \E r \in reports : r.exec = st.exec
    <3>1. UNCHANGED <<reports, control>>
      BY <2>1 DEF ApplyLifecycle
    <3>2. control.own <= control.own /\ reports \subseteq [exec : Execs, head : 0..MaxExecs]
      BY <1>1 DEF ControlHeads, TypeOK
    <3> QED BY <1>1, <3>1, <3>2 DEF CountsFit
  <2>2. CASE ~ \E r \in reports : r.exec = st.exec
    <3> DEFINE n == control.own + 1
    <3>1. /\ reports' = reports \cup {[exec |-> st.exec, head |-> ws]}
          /\ control' = [control EXCEPT !.own = n]
      BY <2>2 DEF ApplyLifecycle
    <3>2. /\ reports' \subseteq [exec : Execs, head : 0..MaxExecs]
          /\ n = Cardinality({r.exec : r \in reports'})
          /\ n \in 0..MaxExecs
      BY <1>1, <2>2, <3>1, ReportCounted
    <3>3. control.own <= n
      BY <1>1 DEF ControlHeads
    <3> HIDE DEF n
    <3>4. control' \in ControlHeads /\ control'.ext = control.ext /\ control'.own = n
      BY <1>1, <3>1, <3>2 DEF ControlHeads
    <3> QED BY <3>2, <3>3, <3>4
  <2> QED BY <2>1, <2>2
<1>3. seen' = [seen EXCEPT !.control = control']
  BY DEF ApplyLifecycle
<1>4. seen' \in Generations /\ seen'.product = seen.product /\ seen'.control = control'
  BY <1>1, <1>2, <1>3 DEF Generations
<1>5. ticket' \in {"todo", "review"}
  BY <1>1 DEF ApplyLifecycle, TypeOK
<1> QED BY <1>2, <1>4, <1>5

\* A commit by others to the control branch keeps the counts.
LEMMA MoveTyped ==
  ASSUME IInv, ControlMoves
  PROVE  /\ control' \in ControlHeads /\ control'.ext = control.ext + 1
         /\ control'.own = control.own /\ control'.ext <= changes'
         /\ product <= changes'
<1>1. control \in ControlHeads /\ changes \in 0..MaxChanges /\ CountsFit /\ product \in Heads
  BY DEF IInv, TypeOK
<1> DEFINE n == control.ext + 1
<1>2. n \in Heads /\ n <= changes' /\ product <= changes'
  BY <1>1, BoundsAssumption DEF ControlMoves, CountsFit, Heads, ControlHeads
<1>3. control' = [control EXCEPT !.ext = n]
  BY DEF ControlMoves
<1> HIDE DEF n
<1>4. control' \in ControlHeads /\ control'.ext = n /\ control'.own = control.own
  BY <1>1, <1>2, <1>3 DEF ControlHeads
<1> QED BY <1>2, <1>4 DEF n

\* The repositories and the worker keep their types.
LEMMA WorldTyped ==
  ASSUME IInv, Next
  PROVE  WorldOK' /\ CountsFit'
<1>0. WorldOK /\ CountsFit /\ st.exec \in 0..MaxExecs /\ Current \in Generations
  BY FieldsTyped, GenerationTyped DEF IInv, TypeOK, WorldOK, Current
<1> USE DEF persistent, world, bounds
<1> HIDE DEF Current
<1>1. ASSUME UNCHANGED <<product, control, ticket, branch, workers, reports, changes>>,
             seen' \in Generations, ws' \in 0..MaxExecs, dirty' \in BOOLEAN
      PROVE  WorldOK' /\ CountsFit'
  BY <1>0, <1>1 DEF WorldOK, CountsFit
<1>2. seen \in Generations /\ ws \in 0..MaxExecs /\ dirty \in BOOLEAN
  BY <1>0 DEF WorldOK
<1>3. CASE StartIteration
  BY <1>0, <1>1, <1>2, <1>3
  DEF StartIteration, IterationPlans, IterationRecovers, Normalize, StrandedBlocked
<1>4. CASE Selection
  <2>1. UNCHANGED <<product, control, ticket, branch, workers, reports, changes, dirty>>
    BY <1>4
    DEF Selection, PlanStops, PlanNothing, PlanSelects, PlanRepairs, PlanUnsafe, DropMarker,
      SelectSuppresses, SelectStale, Admit, GateStops, PrepareWorkspace, CommitLaunch
  <2>2. seen' \in {seen, Current} /\ ws' \in {ws, NoExec}
    BY <1>4
    DEF Selection, PlanStops, PlanNothing, PlanSelects, PlanRepairs, PlanUnsafe, DropMarker,
      SelectSuppresses, SelectStale, Admit, GateStops, PrepareWorkspace, CommitLaunch
  <2>3. ws' \in 0..MaxExecs
    BY <1>2, <2>2, BoundsAssumption DEF NoExec
  <2> QED BY <1>0, <1>1, <1>2, <2>1, <2>2, <2>3
<1>5. CASE WorkerRun
  <2>1. CASE Spawn
    BY <1>0, <2>1, NamedExecution DEF Spawn, WorldOK, CountsFit
  <2>2. CASE ~Spawn
    <3>1. UNCHANGED <<world, bounds>>
      BY <1>5, <2>2
      DEF WorkerRun, LaunchRefused, SpawnFails, RecordIdentity, Interrupt, RecordInterruption,
        WorkerRetired, WorkerUnretired, IntegrityFails, SaveCheckpointing
    <3> QED BY <1>1, <1>2, <3>1
  <2> QED BY <2>1, <2>2
<1>6. CASE Publication
  <2>1. CASE Checkpoint
    BY <1>0, <1>1, <1>2, <2>1 DEF Checkpoint
  <2>2. CASE Push
    BY <1>0, <2>2 DEF Push, WorldOK, CountsFit
  <2>3. CASE ApplyLifecycle
    <3>1. UNCHANGED <<product, ws, dirty, branch, workers, changes>>
      BY <2>3 DEF ApplyLifecycle
    <3> QED BY <1>0, <2>3, <3>1, ApplyTyped DEF WorldOK, CountsFit
  <2>4. CASE ~Checkpoint /\ ~Push /\ ~ApplyLifecycle
    <3>1. UNCHANGED <<world, bounds>>
      BY <1>6, <2>4
      DEF Publication, CheckpointBlocked, SaveCheckpoint, DrainCheck, ReconciliationRequired,
        ProductUnobservable, SavePublishing, PushFails, SavePublished, SaveLifecycle,
        LifecycleBlocked, Finalize
    <3> QED BY <1>1, <1>2, <3>1
  <2> QED BY <2>1, <2>2, <2>3, <2>4
<1>7. CASE OperatorStep
  <2>1. UNCHANGED <<world, changes>>
    BY <1>7
    DEF OperatorStep, AdmitRetry, DispatchRetry, LifecycleRequest, SaveMarker, ForceAccepted,
      Sigint
  <2> QED BY <1>1, <1>2, <2>1
<1>8. CASE EnvironmentStep
  <2>1. CASE WorkerEnds
    BY <1>0, <2>1 DEF WorkerEnds, WorldOK, CountsFit
  <2>2. CASE ServiceExits \/ Crash \/ Start
    BY <1>1, <1>2, <2>2 DEF ServiceExits, Crash, Start
  <2>3. CASE ProductMoves
    <3>1. changes \in 0..MaxChanges
      BY DEF IInv, TypeOK
    <3> QED BY <1>0, <2>3, <3>1, BoundsAssumption
      DEF ProductMoves, WorldOK, CountsFit, Heads, ControlHeads
  <2>4. CASE ControlMoves
    <3>1. UNCHANGED <<product, seen, ws, dirty, branch, workers, reports>>
            /\ ticket' \in {ticket, "todo"}
      BY <2>4 DEF ControlMoves
    <3> QED BY <1>0, <2>4, <3>1, MoveTyped DEF WorldOK, CountsFit
  <2> QED BY <1>8, <2>1, <2>2, <2>3, <2>4 DEF EnvironmentStep
<1> QED BY <1>3, <1>4, <1>5, <1>6, <1>7, <1>8 DEF Next, OwnerStep

\* Every variable keeps its type.
LEMMA TypeStep ==
  ASSUME IInv, Next
  PROVE  TypeInv'
BY RecordTyped, TaskTyped, HistoryTyped, WorldTyped
DEF TypeInv, TypeOK, TaskOK, SignalsOK, HistoryOK, BoundsOK, WorldOK

-----------------------------------------------------------------------------
(* What a record says of its execution. *)

SameWork == UNCHANGED <<workers, results, launches, ws, dirty>>
SameCopy == snap' = NoSnap \/ UNCHANGED <<snap, intent>>

\* The record and its copy, as the step finds them.
LEMMA RecordFacts ==
  ASSUME IInv
  PROVE  /\ st \in States /\ st.exec \in 0..MaxExecs
         /\ RecordFits(st) /\ CopyFits /\ PutAway /\ LaunchOrder /\ WorkKept
         /\ workers \subseteq Execs
         /\ snap # NoSnap => snap \in States
         /\ snap = NoSnap => ~(snap \in States)
BY FieldsTyped, NoSnapIsNone DEF IInv, TypeOK

\* A save that leaves the work alone: what has to be shown is that the new
\* record fits and that an execution it gives up is retired.
LEMMA RecordKept ==
  ASSUME IInv, st' \in States, st'.exec = st.exec, SameWork, SameCopy,
         retired \subseteq retired', FitsAfter(st'),
         st.phase = "agent_running" =>
           \/ st'.phase = "agent_running" \/ ~Ran(st.exec) \/ st.exec \in retired'
  PROVE  RecordInv'
<1>0. /\ RecordFits(st) /\ CopyFits /\ PutAway /\ LaunchOrder /\ WorkKept
  BY RecordFacts
<1>1. RecordFits(st)'
  BY DEF RecordFits, FitsAfter, Ran, RanAfter, SameWork
<1>2. CopyFits'
  <2>1. CASE snap' = NoSnap
    BY <2>1 DEF CopyFits
  <2>2. CASE UNCHANGED <<snap, intent>>
    <3>1. snap # NoSnap => RecordFits(snap)'
      BY <1>0, <2>2 DEF CopyFits, RecordFits, Ran, SameWork
    <3> QED BY <1>0, <2>2, <3>1 DEF CopyFits, Draining
  <2> QED BY <2>1, <2>2 DEF SameCopy
<1>3. PutAway'
  BY <1>0 DEF PutAway, Ran, SameWork
<1>4. LaunchOrder' /\ WorkKept'
  BY <1>0 DEF LaunchOrder, WorkKept, Launched, Ran, SameWork
<1> QED BY <1>1, <1>2, <1>3, <1>4 DEF RecordInv

\* Saves that leave the phase and the stage alone.
LEMMA RecordNoted ==
  ASSUME IInv, st' \in States, SameStage, SameWork, SameCopy, retired' = retired
  PROVE  RecordInv'
<1>1. FitsAfter(st')
  BY RecordFacts
  DEF FitsAfter, RecordFits, RanAfter, Ran, SameStage, SamePhase, SameAdmission, SameWork
<1> QED BY <1>1, RecordKept DEF SameStage, SamePhase, SameAdmission

\* A step that saves nothing.
LEMMA RecordQuiet ==
  ASSUME IInv, UNCHANGED <<st, retired>>, SameWork, SameCopy
  PROVE  RecordInv'
<1>1. st' \in States /\ SameStage
  BY RecordFacts DEF SameStage, SamePhase, SameAdmission
<1> QED BY <1>1, RecordNoted

\* A save that makes the record idle.
LEMMA RecordIdle ==
  ASSUME IInv, st' \in States, st'.phase = "idle", st'.exec = st.exec, SameWork, SameCopy,
         retired \subseteq retired', workers = {},
         st.phase = "agent_running" => ~Ran(st.exec) \/ st.exec \in retired'
  PROVE  RecordInv'
<1>1. FitsAfter(st')
  BY DEF FitsAfter, SameWork
<1> QED BY <1>1, RecordKept

\* A save of a stage of the execution's end.
LEMMA RecordStaged ==
  ASSUME IInv, st' \in States, SamePhase, SameWork, SameCopy, retired' = retired,
         workers = {},
         st'.stage \in RecoverableStages =>
           st'.report = results[st.exec] /\ results[st.exec] # "none",
         st'.stage \in RecoverableStages \ {"checkpointing"} => ~dirty
  PROVE  RecordInv'
<1>1. FitsAfter(st')
  BY RecordFacts DEF FitsAfter, RecordFits, RanAfter, Ran, SamePhase, SameAdmission, SameWork
<1> QED BY <1>1, RecordKept DEF SamePhase, SameAdmission

\* Where no worker is alive.
LEMMA NoWorkerHere ==
  ASSUME IInv
  PROVE  /\ pc \in AfterWorker => workers = {} /\ results[st.exec] # "none"
         /\ pc = "launch" => /\ workers = {} /\ ~Ran(st.exec)
                             /\ st.phase = "agent_running" /\ st.stage = "worker-launch"
         /\ st.phase # "agent_running" => workers = {}
         /\ st.stage \notin {"worker-launch", "worker-running"} => workers = {}
         /\ Absent => workers = {}
<1>1. /\ pc \in AfterWorker => workers = {} /\ results[st.exec] # "none"
      /\ workers # {} => /\ workers = {st.exec} /\ st.phase = "agent_running"
                         /\ st.stage \in {"worker-launch", "worker-running"}
  BY DEF IInv, WorkerPlaces, RecordFits
<1>2. pc = "launch" => /\ ~Ran(st.exec) /\ st.phase = "agent_running"
                       /\ st.stage = "worker-launch"
  BY NoSnapIsNone DEF IInv, AdmissionPlaces, TypeOK
<1>3. pc = "launch" => workers = {}
  BY <1>1, <1>2 DEF Ran
<1>4. Absent => workers = {}
  BY <1>1 DEF Absent
<1> QED BY <1>1, <1>2, <1>3, <1>4

\* The steps that start or end a worker, or change the workspace.
LEMMA RecordWork ==
  ASSUME IInv, TypeInv', Spawn \/ SpawnFails \/ WorkerEnds \/ Checkpoint \/ PlanRepairs
  PROVE  RecordInv'
<1>0. /\ RecordFits(st) /\ CopyFits /\ PutAway /\ LaunchOrder /\ WorkKept
      /\ st.exec \in 0..MaxExecs /\ workers \subseteq Execs
      /\ results \in [Execs -> Conclusions]
  BY RecordFacts DEF IInv, TypeOK
<1> USE DEF persistent, world, task, local, signals, history, bounds
<1>1. CASE Spawn
  <2>1. /\ workers = {} /\ ~Ran(st.exec) /\ st.phase = "agent_running"
        /\ st.stage = "worker-launch" /\ st.exec \in Execs /\ snap = NoSnap
    BY <1>0, <1>1, NoWorkerHere, NamedExecution DEF Spawn, CopyFits
  <2>2. /\ workers' = {st.exec} /\ dirty' = TRUE
        /\ UNCHANGED <<st, snap, results, retired, launches>>
    BY <1>1, <2>1 DEF Spawn
  <2>3. RecordFits(st)' /\ CopyFits' /\ PutAway' /\ WorkKept'
    BY <1>0, <2>1, <2>2 DEF RecordFits, CopyFits, PutAway, WorkKept, Ran, RecoverableStages
  <2>4. LaunchOrder'
    BY <1>0, <2>1, <2>2 DEF LaunchOrder, Launched, Ran, Execs
  <2> QED BY <2>3, <2>4 DEF RecordInv
<1>2. CASE SpawnFails
  <2>1. /\ workers = {} /\ ~Ran(st.exec) /\ st.phase = "agent_running"
        /\ st.exec \in Execs /\ snap = NoSnap
    BY <1>0, <1>2, NoWorkerHere, NamedExecution DEF SpawnFails, CopyFits
  <2>2. UNCHANGED <<workers, launches, ws, dirty, retired, snap, intent>>
    BY <1>2 DEF SpawnFails
  <2>3. CASE BackToLoop /\ UNCHANGED <<st, results>>
    BY <2>2, <2>3, RecordQuiet DEF SameWork, SameCopy
  <2>4. CASE /\ st' \in States /\ SamePhase /\ st'.stage = "post-worker"
             /\ results' = [results EXCEPT ![st.exec] = "failed"]
    <3>1. /\ results'[st.exec] = "failed"
          /\ \A e \in Execs : e # st.exec => results'[e] = results[e]
          /\ st'.phase = "agent_running" /\ st'.exec = st.exec
      BY <1>0, <2>1, <2>4 DEF SamePhase, SameAdmission
    <3>2. RecordFits(st)' /\ CopyFits' /\ PutAway' /\ WorkKept'
      BY <1>0, <2>1, <2>2, <2>4, <3>1
      DEF RecordFits, CopyFits, PutAway, WorkKept, Ran, RecoverableStages
    <3>3. LaunchOrder'
      BY <1>0, <2>1, <2>2, <3>1 DEF LaunchOrder, Launched, Ran, Execs
    <3> QED BY <3>2, <3>3 DEF RecordInv
  <2> QED BY <1>2, <2>3, <2>4, SpawnFailsEffect DEF IInv
<1>3. CASE WorkerEnds
  <2>1. PICK e \in workers, r \in {"failed", "done"} :
          workers' = workers \ {e} /\ results' = [results EXCEPT ![e] = r]
    BY <1>3 DEF WorkerEnds
  <2>2. /\ workers = {st.exec} /\ e = st.exec /\ st.phase = "agent_running"
        /\ st.stage \in {"worker-launch", "worker-running"} /\ e \in Execs
        /\ results'[e] = r /\ \A f \in Execs : f # e => results'[f] = results[f]
    BY <1>0, <2>1 DEF RecordFits
  <2>3. UNCHANGED <<st, snap, intent, dirty, ws, launches, retired>> /\ workers' = {}
    BY <1>3, <2>1, <2>2 DEF WorkerEnds
  <2>4. RecordFits(st)'
    BY <2>2, <2>3 DEF RecordFits, RecoverableStages
  <2>5. CopyFits'
    <3>1. snap # NoSnap => /\ snap.phase = "agent_running" /\ snap.exec = st.exec /\ Draining
                           /\ snap.stage \in {"worker-launch", "worker-running"}
      BY <1>0, <2>2 DEF CopyFits, RecordFits
    <3>2. snap # NoSnap => RecordFits(snap)'
      BY <2>2, <2>3, <3>1 DEF RecordFits, RecoverableStages
    <3> QED BY <2>3, <3>1, <3>2 DEF CopyFits, Draining
  <2>6. PutAway' /\ WorkKept'
    BY <1>0, <2>2, <2>3 DEF PutAway, WorkKept, Ran
  <2>7. LaunchOrder'
    BY <1>0, <2>2, <2>3 DEF LaunchOrder, Launched, Ran
  <2> QED BY <2>4, <2>5, <2>6, <2>7 DEF RecordInv
<1>4. CASE Checkpoint
  <2>1. /\ UNCHANGED <<st, snap, intent, workers, results, launches, retired>>
        /\ dirty' = FALSE /\ ws' = IF dirty THEN st.exec ELSE ws
    BY <1>4 DEF Checkpoint
  <2>2. RecordFits(st)'
    BY <1>0, <2>1 DEF RecordFits, Ran
  <2>3. CopyFits'
    <3>1. snap # NoSnap => RecordFits(snap)'
      BY <1>0, <2>1 DEF CopyFits, RecordFits, Ran
    <3> QED BY <1>0, <2>1, <3>1 DEF CopyFits, Draining
  <2>4. PutAway' /\ WorkKept' /\ LaunchOrder'
    BY <1>0, <2>1 DEF PutAway, WorkKept, LaunchOrder, Launched, Ran
  <2> QED BY <2>2, <2>3, <2>4 DEF RecordInv
<1>5. CASE PlanRepairs
  <2>1. st.phase = "agent_pending" /\ ~Ran(st.exec)
    BY <1>5 DEF IInv, AdmissionPlaces, RecordFits, PlanRepairs, CanPlan
  <2>2. UNCHANGED <<st, snap, intent, workers, results, launches, retired, dirty>>
    BY <1>5 DEF PlanRepairs
  <2>3. RecordFits(st)'
    BY <1>0, <2>2 DEF RecordFits, Ran
  <2>4. CopyFits'
    <3>1. snap # NoSnap => RecordFits(snap)'
      BY <1>0, <2>2 DEF CopyFits, RecordFits, Ran
    <3> QED BY <1>0, <2>2, <3>1 DEF CopyFits, Draining
  <2>5. PutAway' /\ WorkKept' /\ LaunchOrder'
    BY <1>0, <2>1, <2>2 DEF PutAway, WorkKept, LaunchOrder, Launched, Ran
  <2> QED BY <2>3, <2>4, <2>5 DEF RecordInv
<1> QED BY <1>1, <1>2, <1>3, <1>4, <1>5

\* An admission, and a forced stop's read and save.
LEMMA RecordRead ==
  ASSUME IInv, TypeInv',
         \/ Admit \/ SaveMarker
         \/ \E i \in {"stop", "restart"}, f \in BOOLEAN : LifecycleRequest(i, f)
  PROVE  RecordInv'
<1>0. /\ RecordFits(st) /\ CopyFits /\ PutAway /\ LaunchOrder /\ WorkKept
      /\ st.exec \in 0..MaxExecs /\ st \in States /\ TypeOK
  BY RecordFacts DEF IInv
<1> USE DEF persistent, world, task, local, signals, history, bounds
<1>1. CASE Admit
  <2>1. UNCHANGED <<workers, results, dirty, ws, snap, intent, retired>>
    BY <1>1 DEF Admit
  <2>2. /\ st' \in States /\ st'.phase = "agent_pending" /\ st'.exec \in Execs
        /\ pend => st'.exec = st.exec /\ launches' = launches
        /\ ~pend => /\ st'.exec = st.exec + 1
                    /\ launches' = [launches EXCEPT ![st'.exec] =
                                      [auth |-> Authorization, at |-> seen]]
    BY <1>0, <1>1, AdmitEffect, NamedExecution DEF Admit
  <2>3. /\ pend => ~Ran(st.exec) /\ st.phase # "agent_running"
        /\ ~pend => st.phase = "idle" /\ snap = NoSnap
        /\ st.phase # "agent_running" /\ workers = {}
    BY <1>1, NoWorkerHere DEF IInv, AdmissionPlaces, Admit
  <2>4. ~Ran(st'.exec)
    BY <1>0, <2>2, <2>3 DEF LaunchOrder, Launched, Execs
  <2>5. RecordFits(st)'
    BY <2>1, <2>2, <2>3, <2>4 DEF RecordFits, Ran
  <2>6. CopyFits'
    <3>1. snap # NoSnap => RecordFits(snap)' /\ st'.exec = st.exec
      BY <1>0, <2>1, <2>2, <2>3 DEF CopyFits, RecordFits, Ran
    <3> QED BY <1>0, <2>1, <3>1 DEF CopyFits, Draining
  <2>7. PutAway' /\ WorkKept'
    BY <1>0, <2>1, <2>3, <2>4 DEF PutAway, WorkKept, Ran
  <2>8. LaunchOrder'
    <3>1. CASE pend
      BY <1>0, <2>1, <2>2, <3>1 DEF LaunchOrder, Launched, Ran
    <3>2. CASE ~pend
      <4>1. [auth |-> Authorization, at |-> seen] # NoLaunch
        BY <1>0, GenerationTyped DEF TypeOK, NoLaunch
      <4>2. /\ launches'[st'.exec] # NoLaunch
            /\ \A e \in Execs : e # st'.exec => launches'[e] = launches[e]
        BY <1>0, <2>2, <3>2, <4>1 DEF TypeOK
      <4> QED BY <1>0, <2>1, <2>2, <3>2, <4>2 DEF LaunchOrder, Launched, Ran, Execs
    <3> QED BY <3>1, <3>2
  <2> QED BY <2>5, <2>6, <2>7, <2>8 DEF RecordInv
<1>2. CASE SaveMarker
  <2>1. /\ snap # NoSnap /\ snap' = NoSnap
        /\ UNCHANGED <<workers, results, dirty, ws, intent, retired, launches>>
    BY <1>2 DEF SaveMarker
  <2>2. CASE UNCHANGED st
    BY <2>1, <2>2, RecordQuiet DEF SameWork, SameCopy
  <2>3. CASE /\ st' \in States /\ st'.phase = snap.phase /\ st'.exec = snap.exec
             /\ st'.stage = snap.stage /\ st'.report = snap.report
    <3>1. /\ RecordFits(snap) /\ snap.exec = st.exec /\ snap.phase # "idle"
          /\ snap.phase \in Phases
      BY <1>0, <2>1, <2>3, FieldsTyped DEF CopyFits
    <3>2. FitsAfter(st')
      BY <2>1, <2>3, <3>1 DEF RecordFits, FitsAfter, RanAfter, Ran
    <3>3. st'.phase = "agent_running" \/ ~Ran(st.exec)
      BY <2>3, <3>1 DEF RecordFits, Phases
    <3> QED BY <2>1, <2>3, <3>1, <3>2, <3>3, RecordKept DEF SameWork, SameCopy
  <2> QED BY <1>0, <1>2, <2>2, <2>3, MarkerEffect
<1>3. CASE \E i \in {"stop", "restart"}, f \in BOOLEAN : LifecycleRequest(i, f)
  <2>1. /\ UNCHANGED <<st, workers, results, dirty, ws, retired, launches>>
        /\ intent = "none" /\ intent' # "none"
        /\ snap' = snap \/ (snap' = st /\ ActiveExecution)
    BY <1>3 DEF LifecycleRequest
  <2>2. snap = NoSnap
    BY <1>0, <2>1 DEF CopyFits, Draining
  <2>3. RecordFits(st)'
    BY <1>0, <2>1 DEF RecordFits, Ran
  <2>4. CopyFits'
    BY <2>1, <2>2, <2>3 DEF CopyFits, Draining, RecordFits, Ran, ActiveExecution
  <2>5. PutAway' /\ WorkKept' /\ LaunchOrder'
    BY <1>0, <2>1 DEF PutAway, WorkKept, LaunchOrder, Launched, Ran
  <2> QED BY <2>3, <2>4, <2>5 DEF RecordInv
<1> QED BY <1>1, <1>2, <1>3

\* The steps that put an execution away or make the record idle otherwise.
LEMMA RecordOver ==
  ASSUME IInv,
         \/ Normalize \/ IntegrityFails \/ ReconciliationRequired \/ Finalize
         \/ PlanNothing \/ DropMarker \/ LaunchRefused
  PROVE  RecordInv'
<1>0. TypeOK
  BY DEF IInv
<1>1. SameWork /\ SameCopy
  BY DEF Normalize, IntegrityFails, ReconciliationRequired, Finalize, PlanNothing, DropMarker,
    LaunchRefused, SameWork, SameCopy, persistent, world, signals, history, BackToLoop,
    ProcessEnds
<1>2. st' \in States /\ st'.phase = "idle" /\ st'.exec = st.exec
  BY <1>0, OverEffect, AdmissionEffect DEF SameAdmission
<1>3. CASE Normalize \/ IntegrityFails \/ ReconciliationRequired \/ Finalize
  <2>1. retired' = retired \cup {st.exec}
    BY <1>3 DEF Normalize, IntegrityFails, ReconciliationRequired, Finalize
  <2>2. CASE Normalize
    <3>1. workers = {}
      BY <2>2, NoWorkerHere DEF Normalize, Normalizable
    <3> QED BY <1>1, <1>2, <2>1, <3>1, RecordIdle
  <2>3. CASE IntegrityFails \/ ReconciliationRequired \/ Finalize
    <3>1. pc \in AfterWorker
      BY <2>3 DEF IntegrityFails, ReconciliationRequired, Finalize, AfterWorker
    <3> QED BY <1>1, <1>2, <2>1, <3>1, NoWorkerHere, RecordIdle
  <2> QED BY <1>3, <2>2, <2>3
<1>4. CASE PlanNothing \/ DropMarker \/ LaunchRefused
  <2>1. retired' = retired
    BY <1>4 DEF PlanNothing, DropMarker, LaunchRefused, history
  <2>2. CASE PlanNothing \/ DropMarker
    <3>1. st.phase # "agent_running"
      BY <2>2 DEF IInv, AdmissionPlaces, PlanNothing, CanPlan, DropMarker
    <3> QED BY <1>1, <1>2, <2>1, <3>1, NoWorkerHere, RecordIdle
  <2>3. CASE LaunchRefused
    <3>1. pc = "launch"
      BY <2>3 DEF LaunchRefused
    <3> QED BY <1>1, <1>2, <2>1, <3>1, NoWorkerHere, RecordIdle
  <2> QED BY <1>4, <2>2, <2>3
<1> QED BY <1>3, <1>4

\* The steps that save a stage.
LEMMA RecordSaved ==
  ASSUME IInv,
         \/ CommitLaunch \/ RecordIdentity \/ WorkerRetired \/ SaveCheckpointing
         \/ SaveCheckpoint \/ SavePublishing \/ SavePublished \/ SaveLifecycle
  PROVE  RecordInv'
<1>0. /\ TypeOK /\ RecordFits(st) /\ WorkerPlaces /\ FirstOwner /\ AdmissionPlaces
      /\ CopyFits
  BY DEF IInv
<1>1. SameWork /\ SameCopy /\ retired' = retired
  BY DEF CommitLaunch, RecordIdentity, WorkerRetired, SaveCheckpointing, SaveCheckpoint,
    SavePublishing, SavePublished, SaveLifecycle, SameWork, SameCopy, persistent, world,
    signals, history, BackToLoop, ProcessEnds
<1>2. CASE CommitLaunch
  <2>1. st.phase = "agent_pending" /\ st.exec \in Execs
    BY <1>0, <1>2 DEF AdmissionPlaces, RecordFits, CommitLaunch
  <2>2. /\ st' \in States /\ st'.phase = "agent_running" /\ st'.stage = "worker-launch"
        /\ st'.exec = st.exec
    BY <1>0, <1>2, AdmissionEffect DEF SameAdmission
  <2>3. FitsAfter(st')
    BY <1>0, <1>1, <2>1, <2>2 DEF FitsAfter, RecordFits, SameWork, RecoverableStages
  <2> QED BY <1>1, <2>2, <2>3, RecordKept
<1>3. CASE RecordIdentity
  <2>1. /\ st' \in States /\ SamePhase /\ st'.report = st.report
        /\ Absent => st' = st
        /\ ~Absent => st'.stage = "worker-running"
    BY <1>0, <1>3, WorkerEffect
  <2>2. FitsAfter(st')
    BY <1>0, <1>1, <2>1
    DEF FitsAfter, RecordFits, SameWork, RecoverableStages, Ran, RanAfter, SamePhase,
      SameAdmission
  <2> QED BY <1>1, <2>1, <2>2, RecordKept DEF SamePhase, SameAdmission
<1>4. CASE WorkerRetired
  <2>1. Absent /\ workers = {}
    BY <1>4, NoWorkerHere DEF WorkerRetired
  <2>2. st' \in States /\ SamePhase /\ st'.stage = "post-worker"
    BY <1>0, <1>4, WorkerEffect
  <2> QED BY <1>1, <2>1, <2>2, RecordStaged DEF RecoverableStages
<1>5. CASE SaveCheckpointing
  <2>1. workers = {} /\ results[st.exec] # "none" /\ st.exec \in Execs
    BY <1>0, <1>5 DEF WorkerPlaces, AfterWorker, SaveCheckpointing, Goto
  <2>2. results[st.exec] \in Conclusions
    BY <1>0, <2>1 DEF TypeOK
  <2>3. /\ st' \in States /\ SamePhase /\ st'.stage = "checkpointing"
        /\ st'.report = results[st.exec]
    BY <1>0, <1>5, <2>2, WorkerEffect
  <2> QED BY <1>1, <2>1, <2>3, RecordStaged
<1>6. CASE SaveCheckpoint \/ SavePublishing \/ SavePublished \/ SaveLifecycle
  <2>1. /\ pc \in {"checkpointed", "post-checkpoint", "pushed", "post-publication"}
        /\ workers = {} /\ results[st.exec] # "none" /\ held = results[st.exec] /\ ~dirty
    BY <1>0, <1>6
    DEF WorkerPlaces, AfterWorker, SaveCheckpoint, SavePublishing, SavePublished,
      SaveLifecycle, Goto
  <2>2. CASE SavePublishing /\ recovering
    <3>1. UNCHANGED <<st, retired>>
      BY <1>1, <2>2 DEF SavePublishing
    <3> QED BY <1>1, <3>1, RecordQuiet
  <2>3. CASE ~(SavePublishing /\ recovering)
    <3>1. ~recovering /\ pc \in {"post-checkpoint", "pushed"} => st.report = held
      BY <1>0, NoSnapIsNone DEF FirstOwner, TypeOK
    <3>2. st' \in States /\ SamePhase /\ st'.report = held
      <4>1. CASE SaveCheckpoint \/ SaveLifecycle
        BY <1>0, <4>1, PublicationEffect
      <4>2. CASE SavePublishing
        BY <1>0, <2>3, <3>1, <4>2, PublicationEffect DEF SavePublishing
      <4>3. CASE SavePublished
        BY <1>0, <3>1, <4>3, PublicationEffect DEF SavePublished, Goto
      <4> QED BY <1>6, <4>1, <4>2, <4>3
    <3> QED BY <1>1, <2>1, <3>2, RecordStaged
  <2> QED BY <2>2, <2>3
<1> QED BY <1>2, <1>3, <1>4, <1>5, <1>6

\* The record keeps fitting.
LEMMA RecordStep ==
  ASSUME IInv, Next, TypeInv'
  PROVE  RecordInv'
<1>0. TypeOK
  BY DEF IInv
<1> USE DEF persistent, world, task, local, signals, history, bounds, BackToLoop, ProcessEnds
<1>1. ASSUME StrandedBlocked \/ AdmitRetry \/ RecordInterruption
      PROVE  RecordInv'
  <2>1. SameWork /\ SameCopy /\ retired' = retired
    BY <1>1 DEF StrandedBlocked, AdmitRetry, RecordInterruption, SameWork, SameCopy
  <2> QED BY <1>0, <1>1, <2>1, NoteEffect, RecordNoted
<1>3. CASE StartIteration
  <2>1. CASE IterationPlans \/ IterationRecovers
    BY <2>1, RecordQuiet DEF IterationPlans, IterationRecovers, SameWork, SameCopy
  <2> QED BY <1>1, <1>3, <2>1, RecordOver DEF StartIteration
<1>4. CASE Selection
  <2>1. CASE PlanStops \/ PlanSelects \/ PlanUnsafe \/ SelectSuppresses
    BY <2>1, RecordQuiet
    DEF PlanStops, PlanSelects, PlanUnsafe, SelectSuppresses, SameWork, SameCopy
  <2>2. CASE SelectStale \/ GateStops \/ PrepareWorkspace
    BY <2>2, RecordQuiet DEF SelectStale, GateStops, PrepareWorkspace, SameWork, SameCopy
  <2> QED BY <1>4, <2>1, <2>2, RecordOver, RecordWork, RecordRead, RecordSaved DEF Selection
<1>5. CASE WorkerRun
  <2>1. CASE Interrupt \/ WorkerUnretired
    BY <2>1, RecordQuiet DEF Interrupt, WorkerUnretired, SameWork, SameCopy
  <2> QED BY <1>1, <1>5, <2>1, RecordOver, RecordWork, RecordSaved DEF WorkerRun
<1>6. CASE Publication
  <2>1. CASE CheckpointBlocked \/ DrainCheck \/ ProductUnobservable \/ Push
    BY <2>1, RecordQuiet
    DEF CheckpointBlocked, DrainCheck, ProductUnobservable, Push, SameWork, SameCopy
  <2>2. CASE PushFails \/ ApplyLifecycle \/ LifecycleBlocked
    BY <2>2, RecordQuiet
    DEF PushFails, ApplyLifecycle, LifecycleBlocked, SameWork, SameCopy
  <2> QED BY <1>6, <2>1, <2>2, RecordOver, RecordWork, RecordSaved DEF Publication
<1>7. CASE OperatorStep
  <2>1. CASE DispatchRetry \/ ForceAccepted \/ Sigint
    BY <2>1, RecordQuiet DEF DispatchRetry, ForceAccepted, Sigint, SameWork, SameCopy
  <2> QED BY <1>1, <1>7, <2>1, RecordRead DEF OperatorStep
<1>8. CASE EnvironmentStep
  <2>1. CASE ServiceExits \/ Crash \/ Start \/ ProductMoves \/ ControlMoves
    BY <2>1, RecordQuiet
    DEF ServiceExits, Crash, Start, ProductMoves, ControlMoves, SameWork, SameCopy
  <2> QED BY <1>8, <2>1, RecordWork DEF EnvironmentStep
<1> QED BY <1>3, <1>4, <1>5, <1>6, <1>7, <1>8 DEF Next, OwnerStep

-----------------------------------------------------------------------------
(* Where the owner is. *)

\* Outside an iteration.
LEMMA PlaceOut ==
  ASSUME pc' \in {"down", "loop", "retry"}, ~pend'
  PROVE  PlaceInv'
BY DEF PlaceInv, AdmissionPlaces, WorkerPlaces, FirstOwner, AfterWorker

\* The facts about the places, with the copy apart from the record.
LEMMA PlaceFacts ==
  ASSUME IInv
  PROVE  /\ pc \in {"down", "loop", "retry"} => ~pend
         /\ pc = "plan" /\ ~StopBeforeAdmission =>
              st.phase = IF pend THEN "agent_pending" ELSE "idle"
         /\ pc = "select" /\ pend =>
              st.phase # "agent_running" /\ st.exec \in Execs /\ ~Ran(st.exec)
         /\ pc = "select" /\ ~pend => st.phase = "idle" /\ snap = NoSnap
         /\ pc \in {"pending", "prepared"} => st.phase = "agent_pending"
         /\ pc \in {"select", "pending", "prepared"} /\ snap # NoSnap =>
              snap.phase = "agent_pending"
         /\ pc = "launch" =>
              /\ ~Ran(st.exec) /\ st.phase = "agent_running" /\ st.stage = "worker-launch"
              /\ snap # NoSnap =>
                   snap.phase = "agent_running" /\ snap.stage = "worker-launch"
         /\ pc \in {"spawned", "running", "signalled"} => st.exec \in Execs /\ Ran(st.exec)
         /\ pc \in AfterWorker =>
              st.exec \in Execs /\ workers = {} /\ results[st.exec] # "none"
         /\ pc \in AfterWorker \ {"post-worker"} => held = results[st.exec]
         /\ pc \in AfterWorker \ {"post-worker", "checkpointing"} => ~dirty
         /\ ~recovering =>
              /\ pc = "drain" /\ ~Draining =>
                   st.stage = "post-checkpoint" /\ st.report = held
              /\ pc = "post-checkpoint" =>
                   /\ st.stage = "post-checkpoint"
                   /\ snap # NoSnap => snap.stage = "post-checkpoint"
              /\ pc \in {"post-checkpoint", "publishing", "pushed"} =>
                   st.report = held /\ (snap # NoSnap => snap.report = held)
              /\ pc \in {"pushed", "post-publication", "lifecycle"} => branch = ws
<1>1. st # NoSnap
  BY NoSnapIsNone DEF IInv, TypeOK
<1>2. AdmissionPlaces /\ WorkerPlaces /\ FirstOwner
  BY DEF IInv
<1> QED BY <1>1, <1>2 DEF AdmissionPlaces, WorkerPlaces, FirstOwner

\* The steps of another thread or process, while the owner stays where it is.
LEMMA PlaceOthers ==
  ASSUME IInv, RecordInv', TypeInv', UNCHANGED <<pc, pend, held, recovering, ws, dirty, branch>>,
         \/ SaveMarker \/ ForceAccepted \/ Sigint \/ WorkerEnds
         \/ ProductMoves \/ ControlMoves
         \/ \E i \in {"stop", "restart"}, f \in BOOLEAN : LifecycleRequest(i, f)
  PROVE  PlaceInv'
<1> USE DEF persistent, world, task, local, signals, history, bounds
<1>0. /\ st # NoSnap /\ st' # NoSnap /\ CopyFits /\ RecordFits(st) /\ st \in States
      /\ TypeOK /\ results \in [Execs -> Conclusions] /\ workers \subseteq Execs
  BY NoSnapIsNone DEF IInv, TypeInv, TypeOK
<1>1. CASE SaveMarker
  <2>1. /\ snap # NoSnap /\ snap' = NoSnap /\ stop' = TRUE
        /\ UNCHANGED <<workers, results, intent>> /\ Draining /\ snap.exec = st.exec
    BY <1>0, <1>1 DEF SaveMarker, CopyFits
  <2>2. \/ UNCHANGED st
        \/ /\ st'.phase = snap.phase /\ st'.exec = st.exec
           /\ st'.stage = snap.stage /\ st'.report = snap.report
    BY <1>0, <1>1, <2>1, MarkerEffect
  <2>3. AdmissionPlaces'
    BY <1>0, <2>1, <2>2, PlaceFacts DEF AdmissionPlaces, Ran, StopBeforeAdmission
  <2>4. WorkerPlaces'
    BY <2>1, <2>2, PlaceFacts DEF WorkerPlaces, Ran
  <2>5. FirstOwner'
    BY <1>0, <2>1, <2>2, PlaceFacts DEF FirstOwner, Draining
  <2> QED BY <2>3, <2>4, <2>5 DEF PlaceInv
<1>2. CASE \E i \in {"stop", "restart"}, f \in BOOLEAN : LifecycleRequest(i, f)
  <2>1. /\ UNCHANGED <<st, workers, results>> /\ intent = "none" /\ intent' # "none"
        /\ snap' = snap \/ (snap' = st /\ ActiveExecution)
    BY <1>2 DEF LifecycleRequest
  <2>2. snap = NoSnap
    BY <1>0, <2>1 DEF CopyFits, Draining
  <2>3. st.phase \in Phases
    BY <1>0, FieldsTyped
  <2>4. AdmissionPlaces'
    BY <1>0, <2>1, <2>2, <2>3, PlaceFacts
    DEF AdmissionPlaces, Ran, StopBeforeAdmission, Draining, ActiveExecution, Phases
  <2>5. WorkerPlaces'
    BY <2>1, PlaceFacts DEF WorkerPlaces, Ran
  <2>6. FirstOwner'
    BY <1>0, <2>1, <2>2, PlaceFacts DEF FirstOwner, Draining
  <2> QED BY <2>4, <2>5, <2>6 DEF PlaceInv
<1>3. CASE ForceAccepted \/ Sigint \/ ProductMoves \/ ControlMoves
  <2>1. UNCHANGED <<st, workers, results, intent, snap>> /\ (stop => stop')
    BY <1>3 DEF ForceAccepted, Sigint, ProductMoves, ControlMoves
  <2>2. AdmissionPlaces'
    BY <1>0, <2>1, PlaceFacts DEF AdmissionPlaces, Ran, StopBeforeAdmission, Draining
  <2>3. WorkerPlaces'
    BY <2>1, PlaceFacts DEF WorkerPlaces, Ran
  <2>4. FirstOwner'
    BY <1>0, <2>1, PlaceFacts DEF FirstOwner, Draining
  <2> QED BY <2>2, <2>3, <2>4 DEF PlaceInv
<1>4. CASE WorkerEnds
  <2>1. PICK e \in workers, r \in {"failed", "done"} :
          workers' = workers \ {e} /\ results' = [results EXCEPT ![e] = r]
    BY <1>4 DEF WorkerEnds
  <2>2. /\ workers = {st.exec} /\ e = st.exec /\ e \in Execs
        /\ results'[st.exec] = r /\ st.phase = "agent_running"
    BY <1>0, <2>1 DEF RecordFits
  <2>3. UNCHANGED <<st, snap, intent, stop>>
    BY <1>4 DEF WorkerEnds
  <2>4. pc # "select" /\ pc # "launch" /\ pc \notin AfterWorker
    BY <2>2, PlaceFacts DEF Ran
  <2>5. AdmissionPlaces'
    BY <1>0, <2>3, <2>4, PlaceFacts DEF AdmissionPlaces, StopBeforeAdmission, Draining
  <2>6. WorkerPlaces'
    BY <2>2, <2>3, <2>4 DEF WorkerPlaces, Ran
  <2>7. FirstOwner'
    BY <1>0, <2>3, PlaceFacts DEF FirstOwner, Draining
  <2> QED BY <2>5, <2>6, <2>7 DEF PlaceInv
<1> QED BY <1>1, <1>2, <1>3, <1>4

\* From the loop to the launch.
LEMMA PlaceAdmission ==
  ASSUME IInv, RecordInv', TypeInv',
         \/ IterationPlans \/ Normalize \/ DispatchRetry \/ PlanSelects \/ PlanRepairs
         \/ DropMarker \/ Admit \/ PrepareWorkspace \/ CommitLaunch
  PROVE  PlaceInv'
<1> USE DEF persistent, world, task, local, signals, history, bounds, BackToLoop, ProcessEnds
<1>0. /\ st # NoSnap /\ st' # NoSnap /\ CopyFits /\ RecordFits(st) /\ st \in States /\ TypeOK
      /\ st.phase \in Phases /\ LaunchOrder
  BY NoSnapIsNone, FieldsTyped DEF IInv, TypeInv, TypeOK
<1>1. ASSUME pc' \in {"plan", "select", "pending", "prepared", "launch"}
      PROVE  WorkerPlaces' /\ FirstOwner'
  BY <1>1 DEF WorkerPlaces, FirstOwner, AfterWorker
<1>2. CASE IterationPlans
  <2>1. /\ pc' = "plan" /\ st.phase # "agent_running" /\ pend' = (st.phase = "agent_pending")
        /\ UNCHANGED st
    BY <1>2 DEF IterationPlans
  <2>2. AdmissionPlaces'
    BY <1>0, <2>1 DEF AdmissionPlaces, Phases
  <2> QED BY <1>1, <2>1, <2>2 DEF PlaceInv
<1>3. CASE Normalize \/ DispatchRetry
  <2>1. CASE pc' = "loop"
    BY <1>3, <2>1, PlaceOut DEF Normalize, DispatchRetry
  <2>2. CASE pc' # "loop"
    <3>1. pc' = "plan" /\ ~pend' /\ st'.phase = "idle"
      BY <1>0, <1>3, <2>2, PlaceFacts, OverEffect DEF Normalize, DispatchRetry
    <3>2. AdmissionPlaces'
      BY <3>1 DEF AdmissionPlaces
    <3> QED BY <1>1, <3>1, <3>2 DEF PlaceInv
  <2> QED BY <2>1, <2>2
<1>4. CASE PlanSelects \/ PlanRepairs
  <2>1. CASE pc' = "loop"
    BY <1>4, <2>1, PlaceOut DEF PlanSelects, PlanRepairs
  <2>2. CASE pc' # "loop"
    <3>1. /\ pc = "plan" /\ ~StopBeforeAdmission /\ pc' = "select"
          /\ UNCHANGED <<st, pend, snap, workers, results>>
      BY <1>4, <2>2 DEF PlanSelects, PlanRepairs, CanPlan
    <3>2. snap = NoSnap /\ st.phase = IF pend THEN "agent_pending" ELSE "idle"
      BY <1>0, <3>1, PlaceFacts DEF CopyFits, StopBeforeAdmission
    <3>3. AdmissionPlaces'
      BY <1>0, <3>1, <3>2 DEF AdmissionPlaces, RecordFits, Ran
    <3> QED BY <1>1, <3>1, <3>3 DEF PlaceInv
  <2> QED BY <2>1, <2>2
<1>5. CASE DropMarker
  <2>1. pc = "select" /\ UNCHANGED <<pc, pend, snap, workers, results>>
    BY <1>5 DEF DropMarker
  <2>2. st'.phase = "idle" /\ st'.exec = st.exec
    BY <1>0, <1>5, AdmissionEffect DEF SameAdmission
  <2>3. AdmissionPlaces'
    BY <2>1, <2>2, PlaceFacts DEF AdmissionPlaces, Ran
  <2> QED BY <1>1, <2>1, <2>3 DEF PlaceInv
<1>6. CASE Admit
  <2>1. pc = "select" /\ pc' = "pending" /\ UNCHANGED <<pend, snap>>
    BY <1>6 DEF Admit
  <2>2. st'.phase = "agent_pending"
    BY <1>0, <1>6, <2>1, PlaceFacts, AdmitEffect
  <2>3. AdmissionPlaces'
    BY <2>1, <2>2, PlaceFacts DEF AdmissionPlaces
  <2> QED BY <1>1, <2>1, <2>3 DEF PlaceInv
<1>7. CASE PrepareWorkspace
  <2>1. CASE pc' = "down"
    BY <1>7, <2>1, PlaceOut DEF PrepareWorkspace
  <2>2. CASE pc' # "down"
    <3>1. pc = "pending" /\ pc' = "prepared" /\ UNCHANGED <<st, pend, snap>>
      BY <1>7, <2>2 DEF PrepareWorkspace
    <3>2. AdmissionPlaces'
      BY <3>1, PlaceFacts DEF AdmissionPlaces
    <3> QED BY <1>1, <3>1, <3>2 DEF PlaceInv
  <2> QED BY <2>1, <2>2
<1>8. CASE CommitLaunch
  <2>1. /\ pc = "prepared" /\ ~StopBeforeAdmission /\ pc' = "launch"
        /\ UNCHANGED <<pend, snap, workers, results>>
    BY <1>8 DEF CommitLaunch
  <2>2. st'.phase = "agent_running" /\ st'.exec = st.exec /\ st'.stage = "worker-launch"
    BY <1>0, <1>8, AdmissionEffect DEF SameAdmission
  <2>3. snap = NoSnap /\ ~Ran(st.exec)
    BY <1>0, <2>1, PlaceFacts DEF CopyFits, StopBeforeAdmission, RecordFits
  <2>4. AdmissionPlaces'
    BY <2>1, <2>2, <2>3 DEF AdmissionPlaces, Ran
  <2> QED BY <1>1, <2>1, <2>4 DEF PlaceInv
<1> QED BY <1>2, <1>3, <1>4, <1>5, <1>6, <1>7, <1>8

\* From the launch to the checkpoint.
LEMMA PlaceWorker ==
  ASSUME IInv, RecordInv', TypeInv',
         \/ IterationRecovers \/ Spawn \/ SpawnFails \/ RecordIdentity \/ Interrupt
         \/ RecordInterruption \/ WorkerRetired \/ SaveCheckpointing \/ Checkpoint
  PROVE  PlaceInv'
<1> USE DEF persistent, world, task, local, signals, history, bounds, BackToLoop, Goto
<1>0. /\ RecordFits(st) /\ TypeOK /\ st \in States /\ results \in [Execs -> Conclusions]
  BY DEF IInv, TypeOK
<1>1. ASSUME pc' \in {"spawned", "running", "signalled", "post-worker", "checkpointing",
                      "checkpointed"}
      PROVE  AdmissionPlaces' /\ FirstOwner'
  BY <1>1 DEF AdmissionPlaces, FirstOwner
<1>2. CASE IterationRecovers
  <2>1. /\ pc' \in {"checkpointing", "post-checkpoint", "lifecycle"} /\ recovering'
        /\ pc' = "checkpointing" <=> st.stage = "checkpointing"
        /\ held' = st.report /\ UNCHANGED <<st, workers, results, dirty>>
        /\ st.phase = "agent_running" /\ st.stage \in RecoverableStages
    BY <1>2 DEF IterationRecovers, RecoverableStages
  <2>2. AdmissionPlaces' /\ FirstOwner'
    BY <2>1 DEF AdmissionPlaces, FirstOwner
  <2>3. WorkerPlaces'
    BY <1>0, <2>1, NoWorkerHere DEF WorkerPlaces, RecordFits, RecoverableStages
  <2> QED BY <2>2, <2>3 DEF PlaceInv
<1>3. CASE Spawn
  <2>1. pc = "launch" /\ pc' = "spawned" /\ workers' = workers \cup {st.exec} /\ UNCHANGED st
    BY <1>3 DEF Spawn
  <2>2. WorkerPlaces'
    BY <2>1, NamedExecution DEF WorkerPlaces, AfterWorker, Ran
  <2> QED BY <1>1, <2>1, <2>2 DEF PlaceInv
<1>4. CASE SpawnFails
  <2>1. CASE BackToLoop /\ UNCHANGED <<st, results>>
    BY <2>1, PlaceOut
  <2>2. CASE /\ SamePhase /\ results' = [results EXCEPT ![st.exec] = "failed"]
             /\ pc' = "post-worker"
    <3>1. pc = "launch" /\ UNCHANGED workers
      BY <1>4 DEF SpawnFails
    <3>2. st.exec \in Execs /\ workers = {} /\ st'.exec = st.exec
      BY <2>2, <3>1, NamedExecution, NoWorkerHere DEF SamePhase, SameAdmission
    <3>3. WorkerPlaces'
      BY <1>0, <2>2, <3>1, <3>2 DEF WorkerPlaces
    <3> QED BY <1>1, <2>2, <3>3 DEF PlaceInv
  <2> QED BY <1>0, <1>4, <2>1, <2>2, SpawnFailsEffect
<1>5. CASE RecordIdentity \/ Interrupt \/ RecordInterruption
  <2>1. /\ pc \in {"spawned", "running", "signalled"} /\ pc' \in {"running", "signalled"}
        /\ UNCHANGED <<workers, results>>
    BY <1>5 DEF RecordIdentity, Interrupt, RecordInterruption
  <2>2. st'.exec = st.exec
    BY <1>0, <1>5, WorkerEffect, NoteEffect
    DEF SameStage, SamePhase, SameAdmission, Interrupt
  <2>3. WorkerPlaces'
    BY <2>1, <2>2, PlaceFacts DEF WorkerPlaces, AfterWorker, Ran
  <2> QED BY <1>1, <2>1, <2>3 DEF PlaceInv
<1>6. CASE WorkerRetired
  <2>1. pc = "running" /\ pc' = "post-worker" /\ UNCHANGED <<workers, results>> /\ Absent
    BY <1>6 DEF WorkerRetired
  <2>2. st'.exec = st.exec
    BY <1>0, <1>6, WorkerEffect DEF SamePhase, SameAdmission
  <2>3. WorkerPlaces'
    BY <2>1, <2>2, PlaceFacts, NoWorkerHere DEF WorkerPlaces, Ran
  <2> QED BY <1>1, <2>1, <2>3 DEF PlaceInv
<1>7. CASE SaveCheckpointing
  <2>1. /\ pc = "post-worker" /\ pc' = "checkpointing" /\ UNCHANGED <<workers, results>>
        /\ held' = results[st.exec]
    BY <1>7 DEF SaveCheckpointing
  <2>2. st.exec \in Execs /\ workers = {} /\ results[st.exec] # "none"
    BY <2>1, PlaceFacts DEF AfterWorker
  <2>3. st'.exec = st.exec
    BY <1>0, <1>7, <2>2, WorkerEffect DEF SamePhase, SameAdmission
  <2>4. WorkerPlaces'
    BY <2>1, <2>2, <2>3 DEF WorkerPlaces
  <2> QED BY <1>1, <2>1, <2>4 DEF PlaceInv
<1>8. CASE Checkpoint
  <2>1. /\ pc = "checkpointing" /\ pc' = "checkpointed" /\ dirty' = FALSE
        /\ UNCHANGED <<st, workers, results, held>>
    BY <1>8 DEF Checkpoint
  <2>2. WorkerPlaces'
    BY <2>1, PlaceFacts DEF WorkerPlaces, AfterWorker
  <2> QED BY <1>1, <2>1, <2>2 DEF PlaceInv
<1> QED BY <1>2, <1>3, <1>4, <1>5, <1>6, <1>7, <1>8

\* From the checkpoint to the end.
LEMMA PlacePublication ==
  ASSUME IInv, RecordInv', TypeInv',
         \/ SaveCheckpoint \/ DrainCheck \/ SavePublishing \/ Push \/ SavePublished
         \/ SaveLifecycle \/ ApplyLifecycle
  PROVE  PlaceInv'
<1> USE DEF persistent, world, task, local, signals, history, bounds, BackToLoop, Goto
<1>0. /\ TypeOK /\ st # NoSnap /\ st' # NoSnap /\ CopyFits
  BY NoSnapIsNone DEF IInv, TypeInv, TypeOK
<1>1. CASE pc' = "loop"
  BY <1>1, PlaceOut
  DEF SaveCheckpoint, DrainCheck, SavePublishing, Push, SavePublished, SaveLifecycle,
    ApplyLifecycle
<1>2. CASE pc' # "loop"
  <2>1. /\ pc \in AfterWorker \ {"post-worker", "checkpointing"}
        /\ pc' \in AfterWorker \ {"post-worker", "checkpointing"}
        /\ UNCHANGED <<workers, results, held, dirty, recovering, ws, snap, intent>>
    BY <1>2
    DEF SaveCheckpoint, DrainCheck, SavePublishing, Push, SavePublished, SaveLifecycle,
      ApplyLifecycle, AfterWorker
  <2>2. st'.exec = st.exec
    BY <1>0, PublicationEffect
    DEF SamePhase, SameAdmission, DrainCheck, Push, ApplyLifecycle
  <2>3. AdmissionPlaces'
    BY <2>1 DEF AdmissionPlaces, AfterWorker
  <2>4. WorkerPlaces'
    <3>1. st.exec \in Execs /\ workers = {} /\ results[st.exec] # "none"
            /\ held = results[st.exec] /\ ~dirty
      BY <2>1, PlaceFacts
    <3> QED BY <2>1, <2>2, <3>1 DEF WorkerPlaces, AfterWorker
  <2>5. FirstOwner'
    <3> SUFFICES ASSUME ~recovering PROVE FirstOwner'
      BY <2>1 DEF FirstOwner
    <3>1. CASE SaveCheckpoint
      <4>1. pc' = "drain"
        BY <3>1 DEF SaveCheckpoint
      <4> QED BY <1>0, <2>1, <3>1, <4>1, PublicationEffect DEF FirstOwner
    <3>2. CASE DrainCheck
      <4>1. /\ pc = "drain" /\ pc' = "post-checkpoint" /\ ~Draining /\ snap = NoSnap
            /\ UNCHANGED st
        BY <1>2, <3>2 DEF DrainCheck
      <4> QED BY <2>1, <4>1, PlaceFacts DEF FirstOwner
    <3>3. CASE SavePublishing
      <4>1. pc = "post-checkpoint" /\ pc' = "publishing" /\ st'.report = st.report
        BY <1>0, <3>3, PlaceFacts, PublicationEffect DEF SavePublishing
      <4> QED BY <2>1, <4>1, PlaceFacts DEF FirstOwner
    <3>4. CASE Push
      <4>1. pc = "publishing" /\ pc' = "pushed" /\ branch' = ws /\ UNCHANGED st
        BY <3>4 DEF Push
      <4> QED BY <2>1, <4>1, PlaceFacts DEF FirstOwner
    <3>5. CASE SavePublished \/ SaveLifecycle \/ ApplyLifecycle
      <4>1. /\ pc \in {"pushed", "post-publication", "lifecycle"}
            /\ pc' \in {"post-publication", "lifecycle", "applied"} /\ UNCHANGED branch
        BY <3>5 DEF SavePublished, SaveLifecycle, ApplyLifecycle
      <4> QED BY <2>1, <4>1, PlaceFacts DEF FirstOwner
    <3> QED BY <3>1, <3>2, <3>3, <3>4, <3>5
  <2> QED BY <2>3, <2>4, <2>5 DEF PlaceInv
<1> QED BY <1>1, <1>2

\* The places keep their meaning.
LEMMA PlaceStep ==
  ASSUME IInv, Next, TypeInv', RecordInv'
  PROVE  PlaceInv'
<1> USE DEF persistent, world, task, local, signals, history, bounds, BackToLoop, ProcessEnds
<1>1. CASE StartIteration
  BY <1>1, PlaceAdmission, PlaceWorker, PlaceOut DEF StartIteration, StrandedBlocked
<1>2. CASE Selection
  <2>1. CASE PlanStops \/ PlanNothing \/ PlanUnsafe \/ SelectSuppresses \/ SelectStale
               \/ GateStops
    BY <2>1, PlaceOut
    DEF PlanStops, PlanNothing, PlanUnsafe, SelectSuppresses, SelectStale, GateStops
  <2> QED BY <1>2, <2>1, PlaceAdmission DEF Selection
<1>3. CASE WorkerRun
  <2>1. CASE LaunchRefused \/ WorkerUnretired \/ IntegrityFails
    BY <2>1, PlaceOut DEF LaunchRefused, WorkerUnretired, IntegrityFails
  <2> QED BY <1>3, <2>1, PlaceWorker DEF WorkerRun
<1>4. CASE Publication
  <2>1. CASE CheckpointBlocked \/ ReconciliationRequired \/ ProductUnobservable \/ PushFails
               \/ LifecycleBlocked \/ Finalize
    BY <2>1, PlaceOut
    DEF CheckpointBlocked, ReconciliationRequired, ProductUnobservable, PushFails,
      LifecycleBlocked, Finalize
  <2> QED BY <1>4, <2>1, PlaceWorker, PlacePublication DEF Publication
<1>5. CASE OperatorStep
  <2>1. CASE AdmitRetry
    BY <2>1, PlaceFacts, PlaceOut DEF AdmitRetry, Goto
  <2>2. CASE SaveMarker \/ ForceAccepted \/ Sigint
               \/ \E i \in {"stop", "restart"}, f \in BOOLEAN : LifecycleRequest(i, f)
    <3>1. UNCHANGED <<pc, pend, held, recovering, ws, dirty, branch>>
      BY <2>2 DEF SaveMarker, ForceAccepted, Sigint, LifecycleRequest
    <3> QED BY <2>2, <3>1, PlaceOthers
  <2> QED BY <1>5, <2>1, <2>2, PlaceAdmission DEF OperatorStep
<1>6. CASE EnvironmentStep
  <2>1. CASE ServiceExits \/ Crash
    BY <2>1, PlaceOut DEF ServiceExits, Crash
  <2>2. CASE Start
    BY <2>2, PlaceFacts, PlaceOut DEF Start, Goto
  <2>3. CASE WorkerEnds \/ ProductMoves \/ ControlMoves
    <3>1. UNCHANGED <<pc, pend, held, recovering, ws, dirty, branch>>
      BY <2>3 DEF WorkerEnds, ProductMoves, ControlMoves
    <3> QED BY <2>3, <3>1, PlaceOthers
  <2> QED BY <1>6, <2>1, <2>2, <2>3 DEF EnvironmentStep
<1> QED BY <1>1, <1>2, <1>3, <1>4, <1>5, <1>6 DEF Next, OwnerStep

-----------------------------------------------------------------------------
(* The order of the generations. *)

\* UpTo is a partial order.
LEMMA UpToOrder ==
  ASSUME NEW g \in Generations, NEW h \in Generations, NEW k \in Generations
  PROVE  /\ UpTo(g, g)
         /\ UpTo(g, h) /\ UpTo(h, k) => UpTo(g, k)
         /\ UpTo(g, h) /\ UpTo(h, g) => g = h
<1>1. \A x \in {g, h, k} :
        /\ x.product \in Nat /\ x.control.ext \in Nat /\ x.control.own \in Nat
        /\ x.control \in ControlHeads
  BY BoundsAssumption DEF Generations, ControlHeads, Heads
<1>2. ASSUME UpTo(g, h), UpTo(h, g) PROVE g = h
  <2>1. g.product = h.product /\ g.control.ext = h.control.ext /\ g.control.own = h.control.own
    BY <1>1, <1>2 DEF UpTo
  <2>2. g.control = h.control
    BY <1>1, <2>1 DEF ControlHeads
  <2> QED BY <2>1, <2>2 DEF Generations
<1> QED BY <1>1, <1>2 DEF UpTo

\* The generations of the state.
LEMMA OrderFacts ==
  ASSUME IInv
  PROVE  /\ Current \in Generations /\ seen \in Generations
         /\ \A s \in States : /\ Admitted(s) \in Generations
                              /\ s.handled # NoGeneration => s.handled \in Generations
         /\ \A e \in Execs : Launched(e) => launches[e].at \in Generations
         /\ UpTo(seen, Current)
         /\ \A e \in Execs : Launched(e) => UpTo(launches[e].at, seen)
         /\ HandledFits(st) /\ (snap # NoSnap => HandledFits(snap) /\ snap \in States)
         /\ pc = "select" /\ ~pend => st.handled = NoGeneration \/ UpTo(st.handled, seen)
         /\ st \in States
<1>1. TypeOK /\ GenerationOrder
  BY DEF IInv
<1>2. Current \in Generations
  BY <1>1, GenerationTyped DEF TypeOK, Current
<1>3. \A s \in States : /\ Admitted(s) \in Generations
                        /\ s.handled # NoGeneration => s.handled \in Generations
  BY FieldsTyped, GenerationTyped DEF Admitted
<1>4. \A e \in Execs : Launched(e) => launches[e].at \in Generations
  <2> SUFFICES ASSUME NEW e \in Execs, Launched(e) PROVE launches[e].at \in Generations
    OBVIOUS
  <2>1. launches[e] \in [auth : Auths, at : Generations]
    BY <1>1 DEF TypeOK, Launches, Launched
  <2> QED BY <2>1
<1> QED BY <1>1, <1>2, <1>3, <1>4 DEF GenerationOrder, TypeOK

\* A record that is left alone keeps fitting while the branches grow.
LEMMA HandledKept ==
  ASSUME IInv, TypeInv', launches' = launches, UpTo(Current, CurrentAfter),
         NEW s \in States, HandledFits(s)
  PROVE  HandledAfter(s)
<1>1. CurrentAfter \in Generations
  BY GenerationTyped DEF TypeInv, TypeOK, CurrentAfter
<1>2. /\ s.handled # NoGeneration => UpTo(s.handled, CurrentAfter)
      /\ UpTo(Admitted(s), CurrentAfter)
  BY <1>1, OrderFacts, UpToOrder DEF HandledFits
<1> QED BY <1>2 DEF HandledFits, HandledAfter, Launched

\* What has to be shown of a step that admits nothing.
LEMMA OrderKept ==
  ASSUME IInv, TypeInv', launches' = launches, UpTo(Current, CurrentAfter),
         UpTo(seen, seen'), UpTo(seen', CurrentAfter), HandledAfter(st'),
         snap' = NoSnap \/ snap' = snap,
         pc' = "select" /\ ~pend' => st'.handled = NoGeneration \/ UpTo(st'.handled, seen')
  PROVE  OrderInv'
<1>1. seen' \in Generations
  BY DEF TypeInv, TypeOK
<1>2. \A e \in Execs : Launched(e)' => UpTo(launches'[e].at, seen')
  BY <1>1, OrderFacts, UpToOrder DEF Launched
<1>3. HandledFits(st)' /\ UpTo(seen, Current)'
  BY DEF HandledFits, HandledAfter, Launched, Current, CurrentAfter
<1>4. snap' # NoSnap => HandledFits(snap)'
  <2> SUFFICES ASSUME snap' # NoSnap PROVE HandledFits(snap)'
    OBVIOUS
  <2>1. HandledAfter(snap)
    BY OrderFacts, HandledKept
  <2> QED BY <2>1 DEF HandledFits, HandledAfter, Launched, Current, CurrentAfter
<1>5. NoSilentRerun'
  BY DEF IInv, NoSilentRerun
<1>6. GenerationOrder'
  BY <1>2, <1>3, <1>4 DEF GenerationOrder
<1> QED BY <1>5, <1>6 DEF OrderInv

\* Nothing of the order changes.
LEMMA OrderQuiet ==
  ASSUME IInv, TypeInv', UNCHANGED <<launches, product, control>>, SameAdmission,
         seen' \in {seen, Current}, snap' = NoSnap \/ snap' = snap,
         pc' = "select" => seen' = Current \/ UNCHANGED <<pc, pend, seen>>
  PROVE  OrderInv'
<1>1. UpTo(Current, CurrentAfter) /\ CurrentAfter = Current
  BY OrderFacts, UpToOrder DEF Current, CurrentAfter
<1>2. UpTo(seen, seen') /\ UpTo(seen', CurrentAfter)
  BY <1>1, OrderFacts, UpToOrder
<1>3. HandledAfter(st')
  <2>1. HandledAfter(st)
    BY <1>1, OrderFacts, HandledKept
  <2>2. Admitted(st') = Admitted(st) /\ st'.handled = st.handled
    BY DEF SameAdmission, Admitted
  <2> QED BY <2>1, <2>2 DEF HandledAfter
<1>4. pc' = "select" /\ ~pend' => st'.handled = NoGeneration \/ UpTo(st'.handled, seen')
  BY OrderFacts DEF SameAdmission, HandledFits
<1> QED BY <1>1, <1>2, <1>3, <1>4, OrderKept

\* The steps that save another handled generation: it is not behind any
\* generation that was run.
LEMMA OrderSaved ==
  ASSUME IInv, TypeInv', st' \in States,
         Normalize \/ PlanNothing \/ IntegrityFails \/ ReconciliationRequired \/ Finalize
  PROVE  OrderInv'
<1> USE DEF persistent, world, task, local, signals, history, bounds, BackToLoop, ProcessEnds
<1>0. TypeOK
  BY DEF IInv
<1>1. /\ UNCHANGED <<launches, product, control>> /\ seen' \in {seen, Current}
      /\ snap' = NoSnap \/ snap' = snap
      /\ pc' # "select"
  BY DEF Normalize, PlanNothing, IntegrityFails, ReconciliationRequired, Finalize
<1>2. UpTo(Current, CurrentAfter) /\ CurrentAfter = Current
  BY <1>1, OrderFacts, UpToOrder DEF Current, CurrentAfter
<1>3. UpTo(seen, seen') /\ UpTo(seen', CurrentAfter)
  BY <1>1, <1>2, OrderFacts, UpToOrder
<1>4. /\ \A e \in Execs : Launched(e) =>
           UpTo(launches[e].at, Current) /\ UpTo(launches[e].at, Admitted(st))
      /\ UpTo(Admitted(st), Current) /\ UpTo(Current, Current)
  BY OrderFacts, UpToOrder DEF HandledFits
<1>5. HandledAfter(st')
  <2>1. CASE Normalize \/ PlanNothing
    <3>1. st'.handled = Current /\ Admitted(st') = Admitted(st)
      BY <1>0, <2>1, OverEffect, AdmissionEffect DEF Admitted
    <3>2. st'.handled # NoGeneration
      BY <3>1, OrderFacts, GenerationTyped
    <3> QED BY <1>1, <1>2, <1>4, <3>1, <3>2 DEF HandledAfter, Launched
  <2>2. CASE IntegrityFails
    <3>1. st'.handled = Admitted(st) /\ Admitted(st') = Admitted(st)
      BY <1>0, <2>2, OverEffect DEF Admitted
    <3>2. st'.handled # NoGeneration
      BY <3>1, OrderFacts, GenerationTyped
    <3> QED BY <1>1, <1>2, <1>4, <3>1, <3>2 DEF HandledAfter, Launched
  <2>3. CASE Finalize
    <3> DEFINE g == [product |-> st.local, control |-> seen.control]
    <3>1. st'.handled = g /\ Admitted(st') = g
      BY <1>0, <2>3, OverEffect DEF Admitted
    <3>2. st'.handled # NoGeneration
      BY <3>1, OrderFacts, FieldsTyped, GenerationTyped DEF Generations
    <3>3. UpTo(g, Current)
      BY <1>4, OrderFacts DEF UpTo, Admitted, Current
    <3>4. \A e \in Execs : Launched(e) => UpTo(launches[e].at, g)
      BY <1>4, OrderFacts DEF UpTo, Admitted
    <3> HIDE DEF g
    <3> QED BY <1>1, <1>2, <3>1, <3>2, <3>3, <3>4 DEF HandledAfter, Launched
  <2>4. CASE ReconciliationRequired
    <3> DEFINE g == [product |-> product, control |-> seen.control]
    <3>1. st'.handled = g /\ Admitted(st') = Admitted(st)
      BY <1>0, <2>4, OverEffect DEF Admitted
    <3>2. st'.handled # NoGeneration
      BY <1>0, <3>1, FieldsTyped, GenerationTyped DEF TypeOK, Generations
    <3>3. UpTo(g, Current)
      BY <1>4, OrderFacts DEF UpTo, Current
    <3>4. \A e \in Execs : Launched(e) => UpTo(launches[e].at, g)
      BY <1>4, OrderFacts DEF UpTo, Current
    <3> HIDE DEF g
    <3> QED BY <1>1, <1>2, <1>4, <3>1, <3>2, <3>3, <3>4 DEF HandledAfter, Launched
  <2> QED BY <2>1, <2>2, <2>3, <2>4
<1> QED BY <1>1, <1>2, <1>3, <1>5, OrderKept

\* The branches grow.
LEMMA OrderGrows ==
  ASSUME IInv, TypeInv', ApplyLifecycle \/ ProductMoves \/ ControlMoves
  PROVE  OrderInv'
<1> USE DEF persistent, world, task, local, signals, history, bounds
<1>1. /\ UNCHANGED <<launches, st, snap>> /\ (pc' = "select" => UNCHANGED <<pc, pend, seen>>)
  BY DEF ApplyLifecycle, ProductMoves, ControlMoves, Goto
<1>2. /\ control \in ControlHeads /\ product \in Nat /\ control.ext \in Nat
      /\ control.own \in Nat /\ control' \in ControlHeads /\ control'.ext \in Nat
      /\ control'.own \in Nat /\ seen.product \in Nat
  BY BoundsAssumption
  DEF IInv, TypeInv, TypeOK, Heads, ControlHeads, Generations
<1>3. /\ product <= product' /\ control.ext <= control'.ext /\ control.own <= control'.own
      /\ \/ UNCHANGED seen
         \/ seen'.product = seen.product /\ seen'.control = control' /\ product' = product
  <2>1. CASE ApplyLifecycle
    BY <1>2, <2>1, ApplyTyped DEF ApplyLifecycle
  <2>2. CASE ProductMoves
    BY <1>2, <2>2 DEF ProductMoves
  <2>3. CASE ControlMoves
    BY <1>2, <2>3, MoveTyped DEF ControlMoves
  <2> QED BY <2>1, <2>2, <2>3
<1>4. UpTo(Current, CurrentAfter)
  BY <1>3 DEF UpTo, Current, CurrentAfter
<1>5. CurrentAfter \in Generations /\ seen' \in Generations
  BY GenerationTyped DEF TypeInv, TypeOK, CurrentAfter
<1>6. UpTo(seen, seen') /\ UpTo(seen', CurrentAfter)
  <2>1. CASE UNCHANGED seen
    BY <1>4, <1>5, <2>1, OrderFacts, UpToOrder
  <2>2. CASE seen'.product = seen.product /\ seen'.control = control' /\ product' = product
    <3>1. UpTo(seen, CurrentAfter)
      BY <1>4, <1>5, OrderFacts, UpToOrder
    <3> QED BY <1>2, <2>2, <3>1 DEF UpTo, CurrentAfter
  <2> QED BY <1>3, <2>1, <2>2
<1>7. HandledAfter(st')
  BY <1>1, <1>4, OrderFacts, HandledKept
<1>8. pc' = "select" /\ ~pend' => st'.handled = NoGeneration \/ UpTo(st'.handled, seen')
  BY <1>1, OrderFacts
<1> QED BY <1>1, <1>4, <1>6, <1>7, <1>8, OrderKept

\* An execution is admitted without a retry or a resume only for a generation
\* that no earlier one was admitted for.
LEMMA OrderAdmit ==
  ASSUME IInv, TypeInv', Admit
  PROVE  OrderInv'
<1> USE DEF persistent, world, task, local, signals, history, bounds
<1>0. TypeOK /\ LaunchOrder /\ pc = "select" /\ (pend => st.exec \in Execs)
  BY PlaceFacts DEF IInv, Admit
<1>1. /\ st' \in States /\ st'.exec \in Execs
      /\ st'.local = seen.product /\ st'.handled = seen
      /\ pend => /\ st'.exec = st.exec /\ st'.bound = st.bound
                 /\ launches' = launches
      /\ ~pend => /\ st'.exec = st.exec + 1 /\ st'.bound = seen.control
                  /\ launches' = [launches EXCEPT ![st'.exec] =
                                    [auth |-> Authorization, at |-> seen]]
  BY <1>0, AdmitEffect
<1>2. UNCHANGED <<product, control, seen, snap, pend>> /\ pc' = "pending"
  BY DEF Admit
<1>3. CurrentAfter = Current /\ UpTo(Current, CurrentAfter) /\ UpTo(seen, seen)
  BY <1>2, OrderFacts, UpToOrder DEF Current, CurrentAfter
<1>4. seen # NoGeneration
  BY OrderFacts, GenerationTyped
<1>5. CASE pend
  <2>1. /\ \A e \in Execs : Launched(e) => UpTo(launches[e].at, Admitted(st'))
        /\ UpTo(Admitted(st'), Current)
    BY <1>1, <1>5, OrderFacts DEF UpTo, HandledFits, Admitted
  <2>2. HandledAfter(st')
    BY <1>1, <1>3, <1>4, <1>5, <2>1, OrderFacts DEF HandledAfter, Launched
  <2> QED BY <1>1, <1>2, <1>3, <1>5, <2>2, OrderFacts, OrderKept
<1>6. CASE ~pend
  <2> DEFINE n == st'.exec
             new == [auth |-> Authorization, at |-> seen]
  <2>1. n \in Execs /\ n = st.exec + 1 /\ launches' = [launches EXCEPT ![n] = new]
    BY <1>1, <1>6
  <2>2. /\ launches'[n] = new /\ \A e \in Execs : e # n => launches'[e] = launches[e]
    BY <1>0, <2>1 DEF TypeOK
  <2>3. new.at = seen /\ new.auth = Authorization /\ new # NoLaunch
    BY <1>4 DEF NoLaunch
  <2>4. \A e \in Execs : Launched(e) <=> e < n
    BY <1>0, <2>1, FieldsTyped DEF LaunchOrder, Execs, TypeOK
  <2>5. Admitted(st') = seen
    <3>1. seen = [product |-> seen.product, control |-> seen.control]
      BY OrderFacts DEF Generations
    <3> QED BY <1>1, <1>6, <3>1 DEF Admitted
  <2>6. snap = NoSnap
    BY <1>0, <1>6, PlaceFacts
  <2> HIDE DEF new, n
  <2>7. \A e \in Execs : launches'[e] # NoLaunch => UpTo(launches'[e].at, seen)
    BY <1>3, <2>2, <2>3, OrderFacts DEF Launched
  <2>8. GenerationOrder'
    <3>1. HandledFits(st)'
      BY <1>1, <1>2, <1>3, <1>4, <2>5, <2>7, OrderFacts
      DEF HandledFits, Launched, Current, CurrentAfter
    <3>2. UpTo(seen, Current)'
      BY <1>2, <1>3, OrderFacts DEF Current, CurrentAfter
    <3>3. \A e \in Execs : Launched(e)' => UpTo(launches'[e].at, seen')
      BY <1>2, <2>7 DEF Launched
    <3> QED BY <1>2, <2>6, <3>1, <3>2, <3>3 DEF GenerationOrder
  <2>9. ASSUME Authorization = "none", NEW e \in Execs, e < n
        PROVE  launches[e].at # seen
    <3>1. st.exec # NoExec /\ Launched(e)
      BY <2>1, <2>4, <2>9, FieldsTyped DEF NoExec, Execs
    <3>2. auth = "none" /\ ~AutoResume
      BY <2>9 DEF Authorization
    <3>3. st.handled # seen
      BY <1>6, <3>1, <3>2 DEF Admit, Suppressed, SameGeneration
    <3>4. /\ st.handled # NoGeneration /\ UpTo(launches[e].at, st.handled)
          /\ UpTo(st.handled, seen)
      BY <1>0, <1>6, <3>1, OrderFacts DEF HandledFits
    <3>5. st.handled \in Generations
      BY <3>4, OrderFacts
    <3> QED BY <3>3, <3>4, <3>5, OrderFacts, UpToOrder
  <2>10. NoSilentRerun'
    <3> SUFFICES ASSUME NEW e \in Execs, NEW f \in Execs, e < f,
                        launches'[f].auth = "none"
                 PROVE  launches'[e].at # launches'[f].at
      BY DEF NoSilentRerun
    <3>1. CASE f = n
      <4>1. e # n /\ launches'[e] = launches[e] /\ launches'[f].at = seen
        BY <2>2, <2>3, <3>1 DEF Execs
      <4> QED BY <2>2, <2>3, <2>9, <3>1, <4>1
    <3>2. CASE f # n
      <4>1. launches'[f] = launches[f] /\ launches[f] # NoLaunch
        BY <2>2, <3>2 DEF NoLaunch
      <4>2. f < n /\ e # n
        BY <2>1, <2>4, <4>1 DEF Launched, Execs
      <4> QED BY <2>2, <4>1, <4>2 DEF IInv, NoSilentRerun
    <3> QED BY <3>1, <3>2
  <2> QED BY <2>8, <2>10 DEF OrderInv
<1> QED BY <1>5, <1>6

\* A forced stop's read and save.
LEMMA OrderCopy ==
  ASSUME IInv, TypeInv',
         \/ SaveMarker
         \/ \E i \in {"stop", "restart"}, f \in BOOLEAN : LifecycleRequest(i, f)
  PROVE  OrderInv'
<1> USE DEF persistent, world, task, local, signals, history, bounds
<1>1. UNCHANGED <<launches, product, control, seen, pc, pend>>
  BY DEF SaveMarker, LifecycleRequest
<1>2. UpTo(Current, CurrentAfter) /\ CurrentAfter = Current /\ UpTo(seen, seen')
        /\ UpTo(seen', CurrentAfter)
  BY <1>1, OrderFacts, UpToOrder DEF Current, CurrentAfter
<1>3. CASE SaveMarker
  <2>1. snap # NoSnap /\ snap' = NoSnap
    BY <1>3 DEF SaveMarker
  <2>2. ~(pc = "select" /\ ~pend)
    BY <2>1, PlaceFacts
  <2>3. HandledAfter(st) /\ HandledAfter(snap)
    BY <1>1, <1>2, <2>1, OrderFacts, HandledKept
  <2>4. HandledAfter(st')
    <3>1. CASE UNCHANGED st
      BY <2>3, <3>1
    <3>2. CASE st'.local = snap.local /\ st'.bound = snap.bound /\ st'.handled = snap.handled
      <4>1. Admitted(st') = Admitted(snap)
        BY <3>2 DEF Admitted
      <4> QED BY <2>3, <3>2, <4>1 DEF HandledAfter
    <3> QED BY <1>3, <3>1, <3>2, MarkerEffect DEF IInv
  <2> QED BY <1>1, <1>2, <2>1, <2>2, <2>4, OrderKept
<1>4. CASE \E i \in {"stop", "restart"}, f \in BOOLEAN : LifecycleRequest(i, f)
  <2>1. UNCHANGED st /\ snap' \in {snap, st}
    BY <1>4 DEF LifecycleRequest
  <2>2. HandledAfter(st) /\ (snap # NoSnap => HandledAfter(snap))
    BY <1>1, <1>2, OrderFacts, HandledKept
  <2>3. HandledFits(st)' /\ (snap' # NoSnap => HandledFits(snap)') /\ UpTo(seen, Current)'
    BY <1>1, <1>2, <2>1, <2>2
    DEF HandledAfter, HandledFits, Launched, Current, CurrentAfter
  <2>4. GenerationOrder'
    BY <1>1, <2>1, <2>3, OrderFacts DEF GenerationOrder, Launched
  <2>5. NoSilentRerun'
    BY <1>1 DEF IInv, NoSilentRerun
  <2> QED BY <2>4, <2>5 DEF OrderInv
<1> QED BY <1>3, <1>4

\* Generations keep their order.
LEMMA OrderStep ==
  ASSUME IInv, Next, TypeInv'
  PROVE  OrderInv'
<1> USE DEF persistent, world, task, local, signals, history, bounds, BackToLoop, ProcessEnds,
      Goto
<1>0. TypeOK /\ st' \in States
  BY DEF IInv, TypeInv, TypeOK
<1>1. ASSUME UNCHANGED <<launches, product, control, seen>>, SameAdmission,
             snap' = NoSnap \/ snap' = snap, pc' # "select"
      PROVE  OrderInv'
  BY <1>1, OrderQuiet
<1>2. ASSUME UNCHANGED st PROVE SameAdmission
  BY <1>2 DEF SameAdmission
<1>3. ASSUME SameStage \/ SamePhase PROVE SameAdmission
  BY <1>3 DEF SameStage, SamePhase
<1>4. CASE StartIteration
  <2>1. CASE IterationPlans \/ IterationRecovers
    BY <1>1, <1>2, <2>1 DEF IterationPlans, IterationRecovers, RecoverableStages
  <2>2. CASE StrandedBlocked
    <3>1. SameAdmission
      BY <1>0, <1>3, <2>2, NoteEffect
    <3> QED BY <1>1, <2>2, <3>1 DEF StrandedBlocked
  <2> QED BY <1>0, <1>4, <2>1, <2>2, OrderSaved DEF StartIteration
<1>5. CASE Selection
  <2>1. CASE PlanStops \/ SelectSuppresses \/ SelectStale \/ GateStops \/ PrepareWorkspace
    BY <1>1, <1>2, <2>1
    DEF PlanStops, SelectSuppresses, SelectStale, GateStops, PrepareWorkspace
  <2>2. CASE PlanSelects \/ PlanRepairs \/ PlanUnsafe
    <3>1. /\ UNCHANGED <<launches, product, control, st>> /\ seen' = Current
          /\ snap' = NoSnap \/ snap' = snap
      BY <2>2 DEF PlanSelects, PlanRepairs, PlanUnsafe
    <3> QED BY <1>2, <3>1, OrderQuiet
  <2>3. CASE DropMarker
    <3>1. SameAdmission
      BY <1>0, <2>3, AdmissionEffect
    <3>2. UNCHANGED <<launches, product, control, seen, snap, pc, pend>>
      BY <2>3 DEF DropMarker
    <3> QED BY <3>1, <3>2, OrderQuiet
  <2>4. CASE CommitLaunch
    <3>1. SameAdmission
      BY <1>0, <2>4, AdmissionEffect
    <3> QED BY <1>1, <2>4, <3>1 DEF CommitLaunch
  <2> QED BY <1>0, <1>5, <2>1, <2>2, <2>3, <2>4, OrderSaved, OrderAdmit DEF Selection
<1>6. CASE WorkerRun /\ ~IntegrityFails
  <2>1. SameAdmission
    <3>1. CASE SaveCheckpointing
      <4>1. st.exec \in Execs
        BY <3>1, NamedExecution DEF SaveCheckpointing, AfterWorker
      <4>2. results[st.exec] \in Conclusions
        BY <1>0, <4>1 DEF TypeOK
      <4> QED BY <1>0, <1>3, <3>1, <4>2, WorkerEffect
    <3>2. CASE SpawnFails
      BY <1>0, <1>2, <1>3, <3>2, SpawnFailsEffect
    <3>3. CASE Spawn \/ Interrupt \/ WorkerUnretired
      BY <1>2, <3>3 DEF Spawn, Interrupt, WorkerUnretired
    <3> QED BY <1>0, <1>3, <1>6, <3>1, <3>2, <3>3, AdmissionEffect, WorkerEffect, NoteEffect
      DEF WorkerRun
  <2>2. UNCHANGED <<launches, product, control, seen, snap>> /\ pc' # "select"
    BY <1>6
    DEF WorkerRun, LaunchRefused, Spawn, SpawnFails, RecordIdentity, Interrupt,
      RecordInterruption, WorkerRetired, WorkerUnretired, SaveCheckpointing
  <2> QED BY <1>1, <2>1, <2>2
<1>7. CASE Publication /\ ~ReconciliationRequired /\ ~Finalize /\ ~ApplyLifecycle
  <2>1. SameAdmission
    BY <1>0, <1>2, <1>3, <1>7, PublicationEffect
    DEF Publication, Checkpoint, CheckpointBlocked, DrainCheck, ProductUnobservable, Push,
      PushFails, LifecycleBlocked
  <2>2. UNCHANGED <<launches, product, control, seen, snap>> /\ pc' # "select"
    BY <1>7
    DEF Publication, Checkpoint, CheckpointBlocked, SaveCheckpoint, DrainCheck,
      ProductUnobservable, SavePublishing, Push, PushFails, SavePublished, SaveLifecycle,
      LifecycleBlocked
  <2> QED BY <1>1, <2>1, <2>2
<1>8. CASE OperatorStep
  <2>1. CASE AdmitRetry
    <3>1. SameAdmission
      BY <1>0, <1>3, <2>1, NoteEffect
    <3> QED BY <1>1, <2>1, <3>1 DEF AdmitRetry
  <2>2. CASE DispatchRetry
    BY <1>1, <1>2, <2>2 DEF DispatchRetry
  <2>3. CASE ForceAccepted \/ Sigint
    <3>1. UNCHANGED <<launches, product, control, seen, snap, pc, pend, st>>
      BY <2>3 DEF ForceAccepted, Sigint
    <3> QED BY <1>2, <3>1, OrderQuiet
  <2> QED BY <1>8, <2>1, <2>2, <2>3, OrderCopy DEF OperatorStep
<1>9. CASE EnvironmentStep /\ ~ProductMoves /\ ~ControlMoves
  <2>1. CASE WorkerEnds
    <3>1. UNCHANGED <<launches, product, control, seen, snap, pc, pend, st>>
      BY <2>1 DEF WorkerEnds
    <3> QED BY <1>2, <3>1, OrderQuiet
  <2>2. CASE ServiceExits \/ Crash \/ Start
    BY <1>1, <1>2, <2>2 DEF ServiceExits, Crash, Start
  <2> QED BY <1>9, <2>1, <2>2 DEF EnvironmentStep
<1>10. CASE IntegrityFails \/ ReconciliationRequired \/ Finalize
  BY <1>0, <1>10, OrderSaved
<1>11. CASE ApplyLifecycle \/ ProductMoves \/ ControlMoves
  BY <1>11, OrderGrows
<1> QED BY <1>4, <1>5, <1>6, <1>7, <1>8, <1>9, <1>10, <1>11 DEF Next, OwnerStep

-----------------------------------------------------------------------------
(* The theorems. *)

\* The invariant holds at the first start.
LEMMA InitIInv == Init => IInv
<1> SUFFICES ASSUME Init PROVE IInv
  OBVIOUS
<1>1. InitialState \in States
  <2>1. /\ 0 \in 0..MaxExecs /\ 0 \in Heads /\ [ext |-> 0, own |-> 0] \in ControlHeads
    BY BoundsAssumption DEF Heads, ControlHeads
  <2>2. NoFailure \in Failures
    <3>1. [product |-> 0, control |-> [ext |-> 0, own |-> 0]] \in Generations
      BY <2>1, GenerationTyped
    <3> QED BY <2>1, <3>1, FailureTyped DEF Kinds
  <2> DEFINE z == 0
             c == [ext |-> 0, own |-> 0]
  <2>3. InitialState =
          [phase |-> "idle", stage |-> "none", exec |-> z, base |-> z, local |-> z,
           bound |-> c, start |-> z, remote |-> z, identity |-> FALSE, kind |-> "none",
           marker |-> z, failed |-> NoFailure, handled |-> NoGeneration, report |-> "none",
           reconciliation |-> FALSE]
    BY DEF InitialState, NoExec
  <2>4. z \in 0..MaxExecs /\ z \in Heads /\ c \in ControlHeads
    BY <2>1
  <2> HIDE DEF z, c, NoFailure, NoGeneration
  <2> QED BY <2>2, <2>3, <2>4 DEF States, Phases, Stages, Kinds, Conclusions
<1>2. /\ st = InitialState /\ st.phase = "idle" /\ st.exec = 0 /\ st.handled = NoGeneration
      /\ Admitted(st) = [product |-> 0, control |-> [ext |-> 0, own |-> 0]]
  BY DEF Init, InitialState, NoExec, Admitted
<1>3. TypeOK
  <2>1. [ext |-> 0, own |-> 0] \in ControlHeads /\ 0 \in Heads
    BY BoundsAssumption DEF Heads, ControlHeads
  <2>2. seen \in Generations
    BY <2>1, GenerationTyped DEF Init
  <2>3. /\ st \in States /\ product \in Heads /\ control \in ControlHeads
        /\ ticket \in {"todo", "review"} /\ ws \in 0..MaxExecs /\ dirty \in BOOLEAN
        /\ branch \in 0..MaxExecs /\ workers \subseteq Execs
        /\ reports \subseteq [exec : Execs, head : 0..MaxExecs]
    <3>1. 0 \in 0..MaxExecs
      BY BoundsAssumption
    <3> QED BY <1>1, <1>2, <2>1, <3>1 DEF Init, NoExec
  <2>4. /\ pc \in Pcs /\ auth \in Auths /\ pend \in BOOLEAN /\ recovering \in BOOLEAN
        /\ aborted \in BOOLEAN /\ held \in Conclusions /\ intent \in Intents
        /\ stop \in BOOLEAN /\ snap \in States \cup {NoSnap}
    BY DEF Init, Pcs, Auths, Conclusions, Intents
  <2>5. /\ launches \in [Execs -> Launches] /\ results \in [Execs -> Conclusions]
        /\ retired \subseteq Execs
    BY DEF Init, Launches, Conclusions
  <2>6. changes \in 0..MaxChanges /\ crashes \in 0..MaxCrashes /\ requests \in 0..MaxRequests
    BY BoundsAssumption DEF Init
  <2> QED BY <2>2, <2>3, <2>4, <2>5, <2>6 DEF TypeOK
<1>4. CountsFit
  <2>1. {r.exec : r \in reports} = {}
    BY DEF Init
  <2> QED BY <2>1, FS_EmptySet DEF Init, CountsFit
<1>5. \A e \in Execs : ~Ran(e) /\ ~Launched(e)
  BY DEF Init, Ran, Launched
<1>6. RecordFits(st) /\ CopyFits /\ PutAway /\ LaunchOrder /\ WorkKept
  <2>1. snap = NoSnap /\ workers = {} /\ ~(0 \in Execs)
    BY DEF Init, Execs
  <2>2. RecordFits(st)
    BY <1>2, <2>1 DEF RecordFits
  <2>3. LaunchOrder
    BY <1>2, <1>5 DEF LaunchOrder, Execs
  <2> QED BY <1>2, <1>5, <2>1, <2>2, <2>3 DEF CopyFits, PutAway, WorkKept
<1>7. AdmissionPlaces /\ WorkerPlaces /\ FirstOwner
  BY DEF Init, AdmissionPlaces, WorkerPlaces, FirstOwner, AfterWorker
<1>8. GenerationOrder
  <2>1. UpTo(seen, Current) /\ UpTo(Admitted(st), Current)
    BY <1>2 DEF Init, UpTo, Current
  <2> QED BY <1>2, <1>5, <2>1 DEF Init, GenerationOrder, HandledFits
<1>9. NoSilentRerun
  BY DEF Init, NoSilentRerun, NoLaunch
<1> QED BY <1>3, <1>4, <1>6, <1>7, <1>8, <1>9 DEF IInv

\* Every step keeps it.
LEMMA NextIInv == IInv /\ [Next]_vars => IInv'
<1> SUFFICES ASSUME IInv, [Next]_vars PROVE IInv'
  OBVIOUS
<1>1. CASE Next
  <2>1. TypeInv'
    BY <1>1, TypeStep
  <2>2. RecordInv'
    BY <1>1, <2>1, RecordStep
  <2>3. PlaceInv'
    BY <1>1, <2>1, <2>2, PlaceStep
  <2>4. OrderInv'
    BY <1>1, <2>1, OrderStep
  <2> QED BY <2>1, <2>2, <2>3, <2>4 DEF IInv, TypeInv, RecordInv, PlaceInv, OrderInv
<1>2. CASE UNCHANGED vars
  <2>1. UNCHANGED <<st, product, control, ticket, seen, ws, dirty, branch, workers, reports>>
          /\ UNCHANGED <<pc, auth, pend, recovering, aborted, held, intent, stop, snap>>
          /\ UNCHANGED <<launches, results, retired, changes, crashes, requests>>
    BY <1>2 DEF vars, persistent, task, local, signals, history, bounds
  <2>2. TypeOK' /\ CountsFit'
    BY <2>1 DEF IInv, TypeOK, CountsFit
  <2>3. RecordInv'
    BY <2>1, RecordQuiet DEF SameWork, SameCopy
  <2>4. AdmissionPlaces' /\ WorkerPlaces' /\ FirstOwner'
    BY <2>1
    DEF IInv, AdmissionPlaces, WorkerPlaces, FirstOwner, Ran, StopBeforeAdmission, Draining
  <2>5. OrderInv'
    BY <2>1, <2>2, OrderQuiet DEF SameAdmission, TypeInv
  <2> QED BY <2>2, <2>3, <2>4, <2>5 DEF IInv, RecordInv, OrderInv
<1> QED BY <1>1, <1>2

\* The invariant holds in every reachable state, for every number of
\* executions, commits of others, crashes and requests.
THEOREM Invariance == Spec => []IInv
BY InitIInv, NextIInv, PTL DEF Spec

\* Every variable keeps its type.
THEOREM TypeCorrect == Spec => []TypeOK
<1>1. IInv => TypeOK
  BY DEF IInv
<1> QED BY <1>1, Invariance, PTL

\* A live worker is the one the persisted record names (CommitLaunch before
\* Spawn, and no save of another execution before the retirement).
THEOREM LiveRecorded == Spec => []LiveWorkerIsRecorded
<1>1. IInv => LiveWorkerIsRecorded
  BY DEF IInv, RecordFits, LiveWorkerIsRecorded
<1> QED BY <1>1, Invariance, PTL

\* The record moves on from an execution whose worker ran only after it was
\* finalized, reconciled, normalized or recorded as an integrity failure.
THEOREM NothingForgotten == Spec => []NoExecutionForgotten
<1>1. IInv => NoExecutionForgotten
  BY DEF IInv, PutAway, Ran, NoExecutionForgotten
<1> QED BY <1>1, Invariance, PTL

\* A generation is run without a retry or a resume at most once, whatever is
\* dropped, refused, crashed or saved over in between.
THEOREM NoRerun == Spec => []NoSilentRerun
<1>1. IInv => NoSilentRerun
  BY DEF IInv
<1> QED BY <1>1, Invariance, PTL

\* A worker is started only while none is alive, and for an execution that
\* never had one (workers.run behind the saved worker-launch stage).
THEOREM StartsOnce == Spec => WorkerStartsOnce
<1> DEFINE Step == \A e \in workers' \ workers : workers = {} /\ results[e] = "none"
<1>1. IInv /\ [Next]_vars => [Step]_vars
  <2> SUFFICES ASSUME IInv, Next, NEW e \in workers' \ workers
               PROVE  workers = {} /\ results[e] = "none"
    OBVIOUS
  <2> USE DEF persistent, world, task, local, signals, history, bounds
  <2>1. Spawn /\ e = st.exec
    <3>1. CASE StartIteration
      BY <3>1
      DEF StartIteration, IterationPlans, IterationRecovers, Normalize, StrandedBlocked
    <3>2. CASE Selection
      BY <3>2
      DEF Selection, PlanStops, PlanNothing, PlanSelects, PlanRepairs, PlanUnsafe, DropMarker,
        SelectSuppresses, SelectStale, Admit, GateStops, PrepareWorkspace, CommitLaunch
    <3>3. CASE WorkerRun
      BY <3>3
      DEF WorkerRun, LaunchRefused, Spawn, SpawnFails, RecordIdentity, Interrupt,
        RecordInterruption, WorkerRetired, WorkerUnretired, IntegrityFails, SaveCheckpointing
    <3>4. CASE Publication
      BY <3>4
      DEF Publication, Checkpoint, CheckpointBlocked, SaveCheckpoint, DrainCheck,
        ReconciliationRequired, ProductUnobservable, SavePublishing, Push, PushFails,
        SavePublished, SaveLifecycle, ApplyLifecycle, LifecycleBlocked, Finalize
    <3>5. CASE OperatorStep
      BY <3>5
      DEF OperatorStep, AdmitRetry, DispatchRetry, LifecycleRequest, SaveMarker,
        ForceAccepted, Sigint
    <3>6. CASE EnvironmentStep
      BY <3>6
      DEF EnvironmentStep, WorkerEnds, ServiceExits, Crash, Start, ProductMoves, ControlMoves
    <3> QED BY <3>1, <3>2, <3>3, <3>4, <3>5, <3>6 DEF Next, OwnerStep
  <2> QED BY <2>1, NoWorkerHere DEF Spawn, Ran
<1> QED BY <1>1, Invariance, PTL DEF Spec, WorkerStartsOnce

\* A lifecycle commit tells the truth whichever process writes it: the worker
\* ended with the reported conclusion, the checkpoint is the workspace's and is
\* published, and only a finished result sends the ticket to review
\* (_apply_execution_lifecycle, _recover_lifecycle_report).
THEOREM ReportTrue == Spec => ReportIsTrue
<1> DEFINE Step ==
      /\ \A r \in reports' \ reports :
           /\ results[r.exec] \notin {"none", "failed"} => ws = r.exec
           /\ results[r.exec] # "none" /\ held = results[r.exec]
           /\ r.head = ws /\ branch = ws
      /\ control'.own # control.own => reports' # reports
      /\ ticket # ticket' /\ ticket' = "review" => results[st.exec] = "done"
<1>1. IInv /\ [Next]_vars => [Step]_vars
  <2> SUFFICES ASSUME IInv, Next PROVE Step
    OBVIOUS
  <2> USE DEF persistent, world, task, local, signals, history, bounds
  <2>1. ASSUME UNCHANGED <<reports, control, ticket>> PROVE Step
    BY <2>1
  <2>2. CASE ApplyLifecycle
    <3>1. /\ st.exec \in Execs /\ workers = {} /\ results[st.exec] # "none"
          /\ held = results[st.exec] /\ ~dirty /\ branch = ws
      BY <2>2, PlaceFacts DEF ApplyLifecycle, Goto, AfterWorker
    <3>2. results[st.exec] \in {"failed", "done"}
      BY <3>1 DEF IInv, TypeOK, Conclusions
    <3>3. results[st.exec] = "done" => ws = st.exec
      BY <3>1 DEF IInv, WorkKept
    <3>4. CASE \E r \in reports : r.exec = st.exec
      <4>1. UNCHANGED <<reports, control, ticket>>
        BY <2>2, <3>4 DEF ApplyLifecycle
      <4> QED BY <2>1, <4>1
    <3>5. CASE ~ \E r \in reports : r.exec = st.exec
      <4> DEFINE new == [exec |-> st.exec, head |-> ws]
      <4>1. reports' = reports \cup {new} /\ ticket' = IF held = "done" THEN "review" ELSE "todo"
        BY <2>2, <3>5 DEF ApplyLifecycle
      <4>2. new.exec = st.exec /\ new.head = ws
        OBVIOUS
      <4> HIDE DEF new
      <4>3. ~(new \in reports)
        BY <3>5, <4>2
      <4>4. reports' # reports
        BY <4>1, <4>3
      <4>5. \A r \in reports' \ reports : r = new
        BY <4>1
      <4> QED BY <3>1, <3>2, <3>3, <4>1, <4>2, <4>4, <4>5
    <3> QED BY <3>4, <3>5
  <2>3. CASE ControlMoves
    <3>1. UNCHANGED reports /\ ticket' \in {ticket, "todo"} /\ control'.own = control.own
      BY <2>3, MoveTyped DEF ControlMoves
    <3> QED BY <3>1
  <2>4. CASE StartIteration \/ Selection
    <3>1. UNCHANGED <<reports, control, ticket>>
      BY <2>4
      DEF StartIteration, IterationPlans, IterationRecovers, Normalize, StrandedBlocked,
        Selection, PlanStops, PlanNothing, PlanSelects, PlanRepairs, PlanUnsafe, DropMarker,
        SelectSuppresses, SelectStale, Admit, GateStops, PrepareWorkspace, CommitLaunch
    <3> QED BY <2>1, <3>1
  <2>5. CASE WorkerRun
    <3>1. UNCHANGED <<reports, control, ticket>>
      BY <2>5
      DEF WorkerRun, LaunchRefused, Spawn, SpawnFails, RecordIdentity, Interrupt,
        RecordInterruption, WorkerRetired, WorkerUnretired, IntegrityFails, SaveCheckpointing
    <3> QED BY <2>1, <3>1
  <2>6. CASE Publication /\ ~ApplyLifecycle
    <3>1. UNCHANGED <<reports, control, ticket>>
      BY <2>6
      DEF Publication, Checkpoint, CheckpointBlocked, SaveCheckpoint, DrainCheck,
        ReconciliationRequired, ProductUnobservable, SavePublishing, Push, PushFails,
        SavePublished, SaveLifecycle, LifecycleBlocked, Finalize
    <3> QED BY <2>1, <3>1
  <2>7. CASE OperatorStep \/ (EnvironmentStep /\ ~ControlMoves)
    <3>1. UNCHANGED <<reports, control, ticket>>
      BY <2>7
      DEF OperatorStep, AdmitRetry, DispatchRetry, LifecycleRequest, SaveMarker,
        ForceAccepted, Sigint, EnvironmentStep, WorkerEnds, ServiceExits, Crash, Start,
        ProductMoves
    <3> QED BY <2>1, <3>1
  <2> QED BY <2>2, <2>3, <2>4, <2>5, <2>6, <2>7 DEF Next, OwnerStep
<1> QED BY <1>1, Invariance, PTL DEF Spec, ReportIsTrue
=============================================================================
