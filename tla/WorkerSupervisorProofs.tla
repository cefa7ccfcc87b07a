------------------------ MODULE WorkerSupervisorProofs ------------------------
(***************************************************************************)
(* Proofs about WorkerSupervisor, for any number of executions, events,    *)
(* restarts, incidents and connection threads.  They rest on the inductive *)
(* invariant IInv: one lemma per group of steps shows that it is kept.     *)
(***************************************************************************)
EXTENDS WorkerSupervisor, SequenceTheorems, TLAPS

-----------------------------------------------------------------------------
\* The locals of run(): the types of the fields and what each update of the
\* record leaves alone.
LEMMA RunTyped ==
  ASSUME NEW r \in Runs
  PROVE  /\ r.interrupted \in BOOLEAN /\ r.broken \in BOOLEAN
         /\ r.claim \in BOOLEAN /\ r.error \in BOOLEAN
         /\ r.read \in 0..MaxEvents
         /\ r.started \in BOOLEAN /\ r.retired \in BOOLEAN
  BY DEF Runs

\* The locals of a call that begins.
LEMMA NewRunTyped ==
  /\ NewRun \in Runs
  /\ NewRun.started /\ ~NewRun.retired /\ ~NewRun.claim /\ ~NewRun.error
  /\ NewRun.read = 0
  BY SupervisorAssumption DEF Runs, NewRun

\* The transport error is recorded.
LEMMA RunBroken ==
  ASSUME NEW r \in Runs
  PROVE  LET s == [r EXCEPT !.broken = TRUE]
         IN  /\ s \in Runs
             /\ s.broken = TRUE
             /\ s.interrupted = r.interrupted /\ s.claim = r.claim /\ s.error = r.error
             /\ s.read = r.read /\ s.started = r.started /\ s.retired = r.retired
  BY DEF Runs

\* The group's retirement is recorded.
LEMMA RunRetired ==
  ASSUME NEW r \in Runs
  PROVE  LET s == [r EXCEPT !.retired = TRUE]
         IN  /\ s \in Runs
             /\ s.retired = TRUE
             /\ s.interrupted = r.interrupted /\ s.broken = r.broken /\ s.claim = r.claim
             /\ s.error = r.error /\ s.read = r.read /\ s.started = r.started
  BY DEF Runs

\* The result of a spawn that failed.
LEMMA RunNotStarted ==
  ASSUME NEW r \in Runs
  PROVE  LET s == [r EXCEPT !.started = FALSE]
         IN  /\ s \in Runs
             /\ s.started = FALSE
             /\ s.interrupted = r.interrupted /\ s.broken = r.broken /\ s.claim = r.claim
             /\ s.error = r.error /\ s.read = r.read /\ s.retired = r.retired
  BY DEF Runs

\* The result built from defaults when the containment raises.
LEMMA RunEscaped ==
  ASSUME NEW r \in Runs
  PROVE  LET s == [r EXCEPT !.started = FALSE, !.retired = TRUE]
         IN  /\ s \in Runs
             /\ s.started = FALSE
             /\ s.retired = TRUE
             /\ s.interrupted = r.interrupted /\ s.broken = r.broken /\ s.claim = r.claim
             /\ s.error = r.error /\ s.read = r.read
  BY DEF Runs

\* interrupt() records whether it found the process.
LEMMA RunInterrupted ==
  ASSUME NEW r \in Runs, NEW b \in BOOLEAN
  PROVE  LET s == [r EXCEPT !.interrupted = b]
         IN  /\ s \in Runs
             /\ s.interrupted = b
             /\ s.broken = r.broken /\ s.claim = r.claim /\ s.error = r.error
             /\ s.read = r.read /\ s.started = r.started /\ s.retired = r.retired
  BY DEF Runs


\* consume_stdout and the parser on one event.
LEMMA RunConsumes ==
  ASSUME NEW r \in Runs, NEW v \in Events, r.read + 1 <= MaxEvents
  PROVE  LET s == Consume(r, v)
         IN  /\ s \in Runs
             /\ s.read = r.read + 1
             /\ s.started = r.started /\ s.retired = r.retired
             /\ s.error <=> (r.error \/ v = "bad" \/ (v = "report" /\ r.claim))
             /\ s.claim <=> (r.claim \/ (v = "report" /\ ~r.error))
<1> DEFINE e == r.error \/ v = "bad" \/ (v = "report" /\ r.claim)
           c == r.claim \/ (v = "report" /\ ~r.error)
<1>1. e \in BOOLEAN /\ c \in BOOLEAN
  OBVIOUS
<1>2. r.read + 1 \in 0..MaxEvents
  BY SupervisorAssumption DEF Runs
<1>3. Consume(r, v) = [r EXCEPT !.read = r.read + 1, !.error = e, !.claim = c]
  BY DEF Consume, Runs
<1> HIDE DEF e, c
<1>4. LET s == [r EXCEPT !.read = r.read + 1, !.error = e, !.claim = c]
      IN  /\ s \in Runs /\ s.read = r.read + 1 /\ s.error = e /\ s.claim = c
          /\ s.started = r.started /\ s.retired = r.retired
  BY <1>1, <1>2 DEF Runs
<1> QED BY <1>3, <1>4 DEF e, c

-----------------------------------------------------------------------------
\* The steps of run() up to the worker's exit preserve the invariant.
LEMMA LaunchStepIInv ==
  ASSUME IInv, LaunchStep
  PROVE  IInv'
<1> USE SupervisorAssumption, RunTyped, NewRunTyped DEF IInv, TypeOK, FutureIsEmpty,
  PastIsAccounted, RecordCoversLast, RunIsRecorded, LeaderShape, RunShape,
  ParserShape, OutputRead, Accounted, Gone, Populated, Absent, InRun, BeforeSpawn,
  AfterJoin, Leaving, Pcs, Execs, Events, At, Goto, Fault, Incident,
  CallEnds, ProcessGone, record, thread, locks, requests, kernel, history, bounds
<1>1. CASE Launch
  BY <1>1 DEF Launch
<1>2. CASE Enter
  BY <1>2 DEF Enter
<1>3. CASE AdmitRefused
  BY <1>3 DEF AdmitRefused
<1>4. CASE Admit
  BY <1>4 DEF Admit
<1>5. CASE Create
  BY <1>5 DEF Create
<1>6. CASE CreateFails
  <2>1. /\ run' \in Runs /\ ~run'.started /\ run'.retired
        /\ run'.claim = run.claim /\ run'.error = run.error /\ run'.read = run.read
    BY <1>6, RunEscaped DEF CreateFails, Escape
  <2>2. TypeOK'
    BY <1>6, <2>1 DEF CreateFails, Escape
  <2>3. FutureIsEmpty' /\ PastIsAccounted' /\ RecordCoversLast' /\ RunIsRecorded'
    BY <1>6 DEF CreateFails, Escape
  <2>4. LeaderShape' /\ RunShape' /\ ParserShape' /\ OutputRead'
    BY <1>6, <2>1 DEF CreateFails, Escape
  <2> QED BY <2>2, <2>3, <2>4
<1>7. CASE Spawn
  BY <1>7 DEF Spawn
<1>8. CASE SpawnFails
  BY <1>8, RunNotStarted DEF SpawnFails
<1>9. CASE RecordIdentity
  BY <1>9 DEF RecordIdentity
<1>10. CASE IdentityFails
  BY <1>10, RunBroken DEF IdentityFails
<1>11. CASE WaitExited
  BY <1>11 DEF WaitExited
<1>12. CASE Interrupt
  BY <1>12, RunInterrupted DEF Interrupt
<1> QED BY <1>1, <1>2, <1>3, <1>4, <1>5, <1>6, <1>7, <1>8, <1>9, <1>10, <1>11, <1>12 DEF LaunchStep

-----------------------------------------------------------------------------
\* So does the loss or the orderly end of the process, which keeps the record.
LEMMA ProcessGoneIInv ==
  ASSUME IInv, ProcessGone, UNCHANGED incidents \/ Incident
  PROVE  IInv'
<1> USE SupervisorAssumption, RunTyped, NewRunTyped DEF IInv, TypeOK, FutureIsEmpty,
  PastIsAccounted, RecordCoversLast, RunIsRecorded, LeaderShape, RunShape,
  ParserShape, OutputRead, Accounted, Gone, Populated, Absent, InRun, BeforeSpawn,
  AfterJoin, Leaving, Pcs, Execs, Events, At, Goto, Fault, Incident,
  CallEnds, ProcessGone, record, thread, locks, requests, kernel, history, bounds
<1>1. run' = NewRun /\ out' = <<>> /\ pc' = "down"
  OBVIOUS
<1>2. TypeOK'
  <2>1. out' \in Seq(Events) /\ Len(out') <= MaxEvents
    BY <1>1
  <2>2. incidents' \in 0..MaxIncidents
    OBVIOUS
  <2>3. run' \in Runs /\ code' \in BOOLEAN
    BY <1>1
  <2> QED BY <1>1, <2>1, <2>2, <2>3
<1>3. FutureIsEmpty' /\ PastIsAccounted' /\ RecordCoversLast' /\ RunIsRecorded'
  BY <1>1
<1>4. LeaderShape' /\ RunShape' /\ ParserShape' /\ OutputRead'
  BY <1>1
<1> QED BY <1>2, <1>3, <1>4

-----------------------------------------------------------------------------
\* The retirement of the worker, the end of the call and the owner between two
\* calls preserve it.
LEMMA RetireStepIInv ==
  ASSUME IInv, RetireStep
  PROVE  IInv'
<1> USE SupervisorAssumption, RunTyped, NewRunTyped DEF IInv, TypeOK, FutureIsEmpty,
  PastIsAccounted, RecordCoversLast, RunIsRecorded, LeaderShape, RunShape,
  ParserShape, OutputRead, Accounted, Gone, Populated, Absent, InRun, BeforeSpawn,
  AfterJoin, Leaving, Pcs, Execs, Events, At, Goto, Fault, Incident,
  CallEnds, ProcessGone, record, thread, locks, requests, kernel, history, bounds
<1>1. CASE FinishTimeout
  BY <1>1 DEF FinishTimeout, Killed
<1>2. CASE FinishExited
  BY <1>2 DEF FinishExited, Killed
<1>3. CASE KillFails
  <2>1. /\ run' \in Runs /\ ~run'.started /\ run'.retired
        /\ run'.claim = run.claim /\ run'.error = run.error /\ run'.read = run.read
    BY <1>3, RunEscaped DEF KillFails, Escape
  <2>2. TypeOK'
    BY <1>3, <2>1 DEF KillFails, Escape
  <2>3. FutureIsEmpty' /\ PastIsAccounted' /\ RecordCoversLast' /\ RunIsRecorded'
    BY <1>3 DEF KillFails, Escape
  <2>4. LeaderShape' /\ RunShape' /\ ParserShape' /\ OutputRead'
    BY <1>3, <2>1 DEF KillFails, Escape
  <2> QED BY <2>2, <2>3, <2>4
<1>4. CASE JoinReaders
  <2>1. TypeOK'
    BY <1>4 DEF JoinReaders
  <2>2. FutureIsEmpty' /\ PastIsAccounted' /\ RecordCoversLast' /\ RunIsRecorded'
    BY <1>4 DEF JoinReaders
  <2>3. LeaderShape' /\ RunShape' /\ ParserShape' /\ OutputRead'
    BY <1>4 DEF JoinReaders
  <2> QED BY <2>1, <2>2, <2>3
<1>5. CASE GroupEmpty
  BY <1>5 DEF GroupEmpty
<1>6. CASE GroupPopulated
  <2>1. UNCHANGED incidents \/ Incident
    BY <1>6 DEF GroupPopulated
  <2>2. incidents' \in 0..MaxIncidents
    BY <2>1
  <2>3. CASE run.interrupted
    <3>1. /\ cur \in Execs /\ leader[cur] = "exited" /\ UNCHANGED run
          /\ Killed(cur, FALSE)
      BY <1>6, <2>3 DEF GroupPopulated
    <3>2. TypeOK'
      BY <1>6, <2>3, <2>2, <3>1 DEF GroupPopulated, Killed
    <3>3. FutureIsEmpty' /\ PastIsAccounted' /\ RecordCoversLast' /\ RunIsRecorded'
      BY <1>6, <2>3, <2>2, <3>1 DEF GroupPopulated, Killed
    <3>4. LeaderShape' /\ RunShape' /\ ParserShape' /\ OutputRead'
      BY <1>6, <2>3, <2>2, <3>1 DEF GroupPopulated, Killed
    <3> QED BY <3>2, <3>3, <3>4
  <2>4. CASE ~run.interrupted
    <3>1. /\ run' = [run EXCEPT !.broken = TRUE] /\ pc' = "leave"
          /\ UNCHANGED <<leader, code, desc>>
      BY <1>6, <2>4 DEF GroupPopulated
    <3>2. /\ run' \in Runs /\ run'.broken
          /\ run'.claim = run.claim /\ run'.error = run.error
          /\ run'.read = run.read /\ run'.started = run.started
          /\ run'.retired = run.retired
      BY <3>1, RunBroken
    <3>3. TypeOK'
      BY <1>6, <2>4, <2>2, <3>1, <3>2 DEF GroupPopulated
    <3>4. FutureIsEmpty' /\ PastIsAccounted' /\ RecordCoversLast' /\ RunIsRecorded'
      BY <1>6, <2>4, <2>2, <3>1, <3>2 DEF GroupPopulated
    <3>5. LeaderShape' /\ RunShape' /\ ParserShape' /\ OutputRead'
      BY <1>6, <2>4, <2>2, <3>1, <3>2 DEF GroupPopulated
    <3> QED BY <3>3, <3>4, <3>5
  <2> QED BY <2>3, <2>4
<1>7. CASE GroupUnproven
  <2>1. /\ run' \in Runs /\ run'.claim = run.claim /\ run'.error = run.error
        /\ run'.read = run.read
        /\ run'.started => run'.broken /\ ~run'.retired
    <3>1. CASE run' = [run EXCEPT !.broken = TRUE]
      BY <1>7, <3>1, RunBroken DEF GroupUnproven
    <3>2. CASE Escape
      BY <3>2, RunEscaped DEF Escape
    <3> QED BY <1>7, <3>1, <3>2 DEF GroupUnproven
  <2>2. pc' = "leave"
    BY <1>7 DEF GroupUnproven, Escape
  <2>8. TypeOK'
    BY <1>7, <2>1, <2>2 DEF GroupUnproven
  <2>9. FutureIsEmpty' /\ PastIsAccounted' /\ RecordCoversLast' /\ RunIsRecorded'
    BY <1>7, <2>1, <2>2 DEF GroupUnproven
  <2>10. LeaderShape' /\ RunShape' /\ ParserShape' /\ OutputRead'
    BY <1>7, <2>1, <2>2 DEF GroupUnproven
  <2> QED BY <2>8, <2>9, <2>10
<1>8. CASE Destroy
  <2>1. /\ run' \in Runs /\ run'.claim = run.claim /\ run'.error = run.error
        /\ run'.read = run.read /\ run'.started = run.started
    <3>1. CASE run' = [run EXCEPT !.broken = TRUE]
      BY <3>1, RunBroken
    <3>2. CASE run' = [run EXCEPT !.retired = TRUE]
      BY <3>2, RunRetired
    <3> QED BY <1>8, <3>1, <3>2 DEF Destroy
  <2>8. TypeOK'
    BY <1>8, <2>1 DEF Destroy
  <2>9. FutureIsEmpty' /\ PastIsAccounted' /\ RecordCoversLast' /\ RunIsRecorded'
    BY <1>8, <2>1 DEF Destroy
  <2>10. LeaderShape' /\ RunShape' /\ ParserShape' /\ OutputRead'
    BY <1>8, <2>1 DEF Destroy
  <2> QED BY <2>8, <2>9, <2>10
<1>9. CASE Leave
  BY <1>9 DEF Leave
<1>10. CASE Pop
  <2>1. TypeOK'
    BY <1>10 DEF Pop
  <2>2. FutureIsEmpty' /\ PastIsAccounted' /\ RecordCoversLast' /\ RunIsRecorded'
    BY <1>10 DEF Pop
  <2>3. LeaderShape' /\ RunShape' /\ ParserShape' /\ OutputRead'
    BY <1>10 DEF Pop
  <2> QED BY <2>1, <2>2, <2>3
<1>11. CASE Returned
  <2>1. /\ cur \in Execs /\ run' = NewRun /\ out' = <<>> /\ pc' = "idle"
        /\ out' \in Seq(Events) /\ Len(out') <= MaxEvents /\ run' \in Runs
    BY <1>11 DEF Returned
  <2>2. run.retired => Accounted(cur)'
    BY <1>11, <2>1 DEF Returned
  <2>3. \A e \in Execs : Accounted(e) => Accounted(e)'
    BY <1>11 DEF Returned
  <2>8. TypeOK'
    BY <1>11, <2>1, <2>2, <2>3 DEF Returned
  <2>9. FutureIsEmpty' /\ PastIsAccounted' /\ RecordCoversLast' /\ RunIsRecorded'
    BY <1>11, <2>1, <2>2, <2>3 DEF Returned
  <2>10. LeaderShape' /\ RunShape' /\ ParserShape' /\ OutputRead'
    BY <1>11, <2>1, <2>2, <2>3 DEF Returned
  <2> QED BY <2>8, <2>9, <2>10
<1>12. CASE ObserveAbsent
  BY <1>12 DEF ObserveAbsent
<1>13. CASE CountEnter
  BY <1>13 DEF CountEnter
<1>14. CASE Exit
  BY <1>14, ProcessGoneIInv DEF Exit
<1>15. CASE ExitAborted
  BY <1>15, ProcessGoneIInv DEF ExitAborted
<1> QED BY <1>1, <1>2, <1>3, <1>4, <1>5, <1>6, <1>7, <1>8, <1>9, <1>10, <1>11, <1>12, <1>13, <1>14, <1>15 DEF RetireStep

-----------------------------------------------------------------------------
\* Starts, signals and lifecycle requests preserve it.
LEMMA SignalStepIInv ==
  ASSUME IInv,
         Crash \/ Start \/ Sigint \/ Sigterm \/ HandlerStep
           \/ \E c \in Conns : Request(c) \/ ConnStep(c)
  PROVE  IInv'
<1> USE SupervisorAssumption, RunTyped, NewRunTyped DEF IInv, TypeOK, FutureIsEmpty,
  PastIsAccounted, RecordCoversLast, RunIsRecorded, LeaderShape, RunShape,
  ParserShape, OutputRead, Accounted, Gone, Populated, Absent, InRun, BeforeSpawn,
  AfterJoin, Leaving, Pcs, Execs, Events, At, Goto, Fault, Incident,
  CallEnds, ProcessGone, record, thread, locks, requests, kernel, history, bounds
<1>1. CASE Crash
  BY <1>1, ProcessGoneIInv DEF Crash
<1>2. CASE Start
  BY <1>2 DEF Start
<1>3. CASE Sigint
  BY <1>3 DEF Sigint
<1>4. CASE Sigterm
  BY <1>4 DEF Sigterm
<1>5. CASE HandlerStep
  <2>1. CASE HandlerCommand
    BY <2>1 DEF HandlerCommand
  <2>2. CASE HandlerDrain
    BY <2>2 DEF HandlerDrain
  <2> QED BY <1>5, <2>1, <2>2 DEF HandlerStep
<1>6. ASSUME NEW c \in Conns, Request(c) \/ ConnStep(c)
      PROVE  IInv'
  <2>1. CASE Request(c)
    BY <2>1 DEF Request
  <2>2. CASE RequestCommand(c)
    BY <2>2 DEF RequestCommand
  <2>3. CASE RequestDrain(c)
    BY <2>3 DEF RequestDrain
  <2>4. CASE RequestAccepted(c)
    BY <2>4 DEF RequestAccepted
  <2> QED BY <1>6, <2>1, <2>2, <2>3, <2>4 DEF ConnStep
<1> QED BY <1>1, <1>2, <1>3, <1>4, <1>5, <1>6

-----------------------------------------------------------------------------
\* The processes of any execution preserve it.
LEMMA ProcessStepIInv ==
  ASSUME IInv, NEW e \in Execs,
         JoinerEnters(e) \/ LeaderExits(e) \/ Fork(e) \/ DescendantEnds(e)
  PROVE  IInv'
<1> USE SupervisorAssumption, RunTyped, NewRunTyped DEF IInv, TypeOK, FutureIsEmpty,
  PastIsAccounted, RecordCoversLast, RunIsRecorded, LeaderShape, RunShape,
  ParserShape, OutputRead, Accounted, Gone, Populated, Absent, InRun, BeforeSpawn,
  AfterJoin, Leaving, Pcs, Execs, Events, At, Goto, Fault, Incident,
  CallEnds, ProcessGone, record, thread, locks, requests, kernel, history, bounds
<1>1. CASE JoinerEnters(e)
  BY <1>1 DEF JoinerEnters
<1>2. CASE LeaderExits(e)
  BY <1>2 DEF LeaderExits, Reading
<1>3. CASE Fork(e)
  BY <1>3 DEF Fork
<1>4. CASE DescendantEnds(e)
  BY <1>4 DEF DescendantEnds
<1> QED BY <1>1, <1>2, <1>3, <1>4

\* Writing and reading the worker's output preserve it.
LEMMA OutputStepIInv ==
  ASSUME IInv, WorkerWrites \/ ReaderConsumes \/ LogFails
  PROVE  IInv'
<1> USE SupervisorAssumption, RunTyped, NewRunTyped DEF IInv, TypeOK, FutureIsEmpty,
  PastIsAccounted, RecordCoversLast, RunIsRecorded, LeaderShape, RunShape,
  ParserShape, OutputRead, Accounted, Gone, Populated, Absent, InRun, BeforeSpawn,
  AfterJoin, Leaving, Pcs, Execs, Events, At, Goto, Fault, Incident,
  CallEnds, ProcessGone, record, thread, locks, requests, kernel, history, bounds
<1>1. CASE WorkerWrites
  BY <1>1 DEF WorkerWrites, Reading
<1>2. CASE ReaderConsumes
  <2> DEFINE v == out[run.read + 1]
  <2>1. v \in Events /\ run.read + 1 <= Len(out) /\ run.read \in Nat
    BY <1>2 DEF ReaderConsumes
  <2>2. /\ Consume(run, v) \in Runs /\ Consume(run, v).read = run.read + 1
        /\ Consume(run, v).started = run.started /\ Consume(run, v).retired = run.retired
        /\ Consume(run, v).error <=> (run.error \/ v = "bad" \/ (v = "report" /\ run.claim))
        /\ Consume(run, v).claim <=> (run.claim \/ (v = "report" /\ ~run.error))
    BY <2>1, RunConsumes
  <2>3. run' = Consume(run, v) /\ UNCHANGED <<out, pc>>
    BY <1>2 DEF ReaderConsumes
  <2> HIDE DEF v
  <2>4. TypeOK' /\ RunShape'
    BY <1>2, <2>1, <2>2, <2>3 DEF ReaderConsumes, Reading
  <2>5. ParserShape'
    <3>1. run.read = 0 => v = out[1]
      BY DEF v
    <3>2. ~run'.error => ~run.error /\ v = "report" /\ ~run.claim
      BY <2>1, <2>2, <2>3
    <3>3. ~run'.error => run.read = 0 /\ run'.read = 1 /\ run'.claim /\ out[1] = "report"
      BY <2>1, <2>2, <2>3, <3>1, <3>2
    <3> QED BY <2>1, <2>2, <2>3, <3>3
  <2>6. OutputRead'
    BY <1>2, <2>1, <2>2, <2>3 DEF ReaderConsumes, Reading
  <2>7. /\ FutureIsEmpty' /\ PastIsAccounted' /\ RecordCoversLast' /\ RunIsRecorded'
        /\ LeaderShape'
    BY <1>2 DEF ReaderConsumes
  <2> QED BY <2>4, <2>5, <2>6, <2>7
<1>3. CASE LogFails
  <2> DEFINE v == out[run.read + 1]
  <2>1. v \in Events /\ run.read + 1 <= Len(out) /\ run.read \in Nat
    BY <1>3 DEF LogFails
  <2>2. /\ Consume(run, v) \in Runs /\ Consume(run, v).read = run.read + 1
        /\ Consume(run, v).started = run.started /\ Consume(run, v).retired = run.retired
        /\ Consume(run, v).error <=> (run.error \/ v = "bad" \/ (v = "report" /\ run.claim))
        /\ Consume(run, v).claim <=> (run.claim \/ (v = "report" /\ ~run.error))
    BY <2>1, RunConsumes
  <2>3. run' = [Consume(run, v) EXCEPT !.broken = TRUE] /\ UNCHANGED <<out, pc>>
    BY <1>3 DEF LogFails
  <2>4. /\ run' \in Runs /\ run'.read = run.read + 1
        /\ run'.started = run.started /\ run'.retired = run.retired
        /\ run'.error = Consume(run, v).error /\ run'.claim = Consume(run, v).claim
    BY <2>2, <2>3, RunBroken
  <2> HIDE DEF v
  <2>5. TypeOK' /\ RunShape'
    BY <1>3, <2>1, <2>2, <2>3, <2>4 DEF LogFails, Reading
  <2>6. ParserShape'
    <3>1. run.read = 0 => v = out[1]
      BY DEF v
    <3>2. ~run'.error => ~run.error /\ v = "report" /\ ~run.claim
      BY <2>1, <2>2, <2>4
    <3>3. ~run'.error => run.read = 0 /\ run'.read = 1 /\ run'.claim /\ out[1] = "report"
      BY <2>1, <2>2, <2>4, <3>1, <3>2
    <3> QED BY <2>1, <2>2, <2>3, <2>4, <3>3
  <2>7. OutputRead'
    BY <1>3, <2>1, <2>2, <2>3, <2>4 DEF LogFails, Reading
  <2>8. /\ FutureIsEmpty' /\ PastIsAccounted' /\ RecordCoversLast' /\ RunIsRecorded'
        /\ LeaderShape'
    BY <1>3 DEF LogFails
  <2> QED BY <2>5, <2>6, <2>7, <2>8
<1> QED BY <1>1, <1>2, <1>3

-----------------------------------------------------------------------------
\* The initial state satisfies the invariant.
LEMMA InitIInv == Init => IInv
<1> USE SupervisorAssumption, RunTyped, NewRunTyped DEF IInv, TypeOK, FutureIsEmpty,
  PastIsAccounted, RecordCoversLast, RunIsRecorded, LeaderShape, RunShape,
  ParserShape, OutputRead, Accounted, Gone, Populated, Absent, InRun, BeforeSpawn,
  AfterJoin, Leaving, Pcs, Execs, Events, At, Goto, Fault, Incident,
  CallEnds, ProcessGone, record, thread, locks, requests, kernel, history, bounds
<1> SUFFICES ASSUME Init PROVE IInv
  OBVIOUS
<1>1. out \in Seq(Events) /\ Len(out) = 0 /\ run = NewRun
  BY DEF Init
<1>2. TypeOK
  <2>1. /\ conn \in [Conns -> {"idle", "waiting", "holding", "drained", "done"}]
        /\ leader \in [Execs -> {"none", "joining", "running", "exited"}]
        /\ desc \in [Execs -> {"none", "quiet", "piped"}]
    BY DEF Init
  <2>2. run \in Runs /\ out \in Seq(Events) /\ Len(out) <= MaxEvents
    BY <1>1
  <2>3. /\ cur \in 0..MaxExecs /\ starts \in 0..MaxStarts
        /\ incidents \in 0..MaxIncidents
    BY DEF Init
  <2>4. /\ group \subseteq Execs /\ deceived \subseteq Execs /\ late \subseteq Execs
        /\ pc \in Pcs
    BY DEF Init
  <2>5. /\ stage \in {"none", "launch", "running"} /\ active \in BOOLEAN
        /\ lock \in {"free", "owner"} /\ cmd \in {"free", "owner"} \cup Conns
        /\ draining \in BOOLEAN /\ intent \in BOOLEAN /\ abort \in BOOLEAN
        /\ handler \in {"none", "command", "drain"} /\ code \in BOOLEAN
    BY DEF Init
  <2> QED BY <2>1, <2>2, <2>3, <2>4, <2>5 DEF TypeOK
<1>3. FutureIsEmpty /\ PastIsAccounted /\ RecordCoversLast /\ RunIsRecorded
  BY DEF Init
<1>4. LeaderShape /\ RunShape /\ ParserShape /\ OutputRead
  BY <1>1 DEF Init
<1> QED BY <1>2, <1>3, <1>4

\* A step of anybody preserves it.
LEMMA NextIInv == IInv /\ [Next]_vars => IInv'
<1> SUFFICES ASSUME IInv, [Next]_vars
             PROVE  IInv'
  OBVIOUS
<1>1. CASE UNCHANGED vars
  BY <1>1 DEF vars, IInv, TypeOK, FutureIsEmpty, PastIsAccounted, RecordCoversLast,
    RunIsRecorded, LeaderShape, RunShape, ParserShape, OutputRead, Accounted, Gone,
    InRun, record, thread, locks, requests, kernel, history, bounds
<1>2. CASE OwnerStep
  BY <1>2, LaunchStepIInv, RetireStepIInv DEF OwnerStep
<1> QED BY <1>1, <1>2, SignalStepIInv, ProcessStepIInv, OutputStepIInv DEF Next

-----------------------------------------------------------------------------
\* The invariant holds throughout, whatever processes, signals, requests,
\* faults and restarts interleave.
THEOREM Invariance == Spec => []IInv
  BY InitIInv, NextIInv, PTL DEF Spec

\* Every variable keeps its type.
THEOREM TypeCorrect == Spec => []TypeOK
<1>1. IInv => TypeOK
  BY DEF IInv
<1> QED BY <1>1, Invariance, PTL

\* Between two iterations and at an orderly end of the service, a worker that
\* is still alive is the recorded one, or the code was misled about it.
THEOREM NoWorkerLeft == Spec => []IdleLeavesNoWorker
<1>1. IInv => IdleLeavesNoWorker
  BY DEF IInv, TypeOK, IdleLeavesNoWorker, PastIsAccounted, RecordCoversLast,
    FutureIsEmpty, Accounted, Gone, Execs
<1> QED BY <1>1, Invariance, PTL

\* A conclusion taken from the worker's claim stands for an output that was
\* one well-formed report, read to its end, and for exit status 0.
THEOREM ClaimWhole == Spec => []ClaimIsWhole
<1>1. IInv => ClaimIsWhole
  <2> SUFFICES ASSUME IInv, pc = "returned", Conclusion = "claimed"
               PROVE  code /\ out = <<"report">>
    BY DEF ClaimIsWhole
  <2>1. run.started /\ code /\ ~run.broken /\ run.claim /\ ~run.error
    BY DEF Conclusion
  <2>2. run.read = Len(out) /\ run.read = 1 /\ out[1] = "report"
    BY <2>1, RunTyped DEF IInv, TypeOK, OutputRead, ParserShape, Leaving
  <2>3. out \in Seq(Events)
    BY DEF IInv, TypeOK
  <2>4. out = <<"report">>
    <3> DEFINE one == <<"report">>
    <3>1. one \in Seq(Events) /\ Len(one) = 1 /\ one[1] = "report"
      BY DEF Events
    <3> HIDE DEF one
    <3>2. \A i \in 1..Len(out) : out[i] = one[i]
      BY <2>2, <3>1
    <3>3. out = one
      BY <2>2, <2>3, <3>1, <3>2, SeqEqual
    <3> QED BY <3>3 DEF one
  <2> QED BY <2>1, <2>4
<1> QED BY <1>1, Invariance, PTL

\* No worker starts while a process of an earlier one is alive, except where
\* the code was misled about that one.
THEOREM NoOverlap == Spec => WorkersNeverOverlap
<1> DEFINE Step == \A e \in Execs : leader[e] = "none" /\ leader'[e] # "none" =>
                     \A f \in Execs \ {e} : Gone(f) \/ f \in deceived \cup late
<1>1. IInv /\ [Next]_vars => [Step]_vars
  <2> SUFFICES ASSUME IInv, Next, NEW e \in Execs, leader[e] = "none", leader'[e] # "none",
                      NEW f \in Execs \ {e}
               PROVE  Accounted(f)
    BY DEF Accounted
  <2>1. Spawn /\ e = cur
    <3> USE DEF record, thread, locks, requests, kernel, history, bounds, IInv, TypeOK
    <3>1. CASE LaunchStep
      BY <3>1 DEF LaunchStep, Launch, Enter, AdmitRefused, Admit, Create, CreateFails,
        Spawn, SpawnFails, RecordIdentity, IdentityFails, WaitExited, Interrupt, Execs
    <3>2. CASE RetireStep
      BY <3>2 DEF RetireStep, FinishTimeout, FinishExited, KillFails, JoinReaders,
        GroupEmpty, GroupPopulated, GroupUnproven, Destroy, Leave, Pop, Returned,
        ObserveAbsent, CountEnter, Exit, ExitAborted, ProcessGone, Killed
    <3>3. CASE HandlerStep \/ Crash \/ Start \/ Sigint \/ Sigterm
      BY <3>3 DEF HandlerStep, HandlerCommand, HandlerDrain, Crash, ProcessGone, Start,
        Sigint, Sigterm
    <3>4. ASSUME NEW c \in Conns, Request(c) \/ ConnStep(c)
          PROVE  FALSE
      BY <3>4 DEF Request, ConnStep, RequestCommand, RequestDrain, RequestAccepted
    <3>5. ASSUME NEW g \in Execs, JoinerEnters(g) \/ LeaderExits(g) \/ Fork(g)
                                    \/ DescendantEnds(g)
          PROVE  FALSE
      BY <3>5 DEF JoinerEnters, LeaderExits, Fork, DescendantEnds
    <3>6. CASE WorkerWrites \/ ReaderConsumes \/ LogFails
      BY <3>6 DEF WorkerWrites, ReaderConsumes, LogFails
    <3> QED BY <3>1, <3>2, <3>3, <3>4, <3>5, <3>6 DEF Next, OwnerStep
  <2>2. f < cur \/ f > cur
    BY <2>1 DEF IInv, TypeOK, Execs
  <2> QED BY <2>2 DEF IInv, PastIsAccounted, FutureIsEmpty, Accounted, Gone
<1>2. Spec => [][Step]_vars
  BY <1>1, Invariance, PTL DEF Spec
<1> QED BY <1>2 DEF WorkersNeverOverlap
=============================================================================
