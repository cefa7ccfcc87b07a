-------------------------- MODULE ServiceOwnerProofs --------------------------
(***************************************************************************)
(* Proofs about ServiceOwner, for any number of calls, request ids, bodies *)
(* and restarts of the process.  All of them rest on the inductive         *)
(* invariant IInv: one lemma per process shows that its steps preserve it. *)
(***************************************************************************)
EXTENDS ServiceOwner, TLAPS

-----------------------------------------------------------------------------
\* Arithmetic for Zenon, which has none: a count of at most one that is not
\* one is zero (the number of dispatches of an id before its receipt).
LEMMA NoneOfAtMostOne == \A n \in Nat : n <= 1 /\ n # 1 => n = 0
  OBVIOUS

\* The initial states satisfy the inductive invariant.
LEMMA InitIInv == Init => IInv
<1> SUFFICES ASSUME Init PROVE IInv
  OBVIOUS
<1>1. TypeOK
  <2>1. 1 \in 1..MaxStarts
    BY MaxStartsAssumption
  <2>2. /\ pc \in [Calls -> CallPcs]
        /\ event \in [Calls -> BOOLEAN]
        /\ cancelled \in [Calls -> BOOLEAN]
    BY DEF Init, CallPcs
  <2>3. /\ result \in [Calls -> {"none", "ok", "error"}]
        /\ cmd \in [Calls -> Calls \cup {NoCall}]
    BY DEF Init
  <2>4. /\ executed \in [Ids -> Nat]
        /\ receipts \in [Ids -> Bodies \cup {NoBody}]
        /\ dropped \subseteq Drops
    BY DEF Init
  <2> QED BY <2>1, <2>2, <2>3, <2>4 DEF Init, TypeOK, OwnerPcs
<1>2. OneOwnerWork /\ OwnerShape /\ LockedAdmission
  BY DEF Init, OneOwnerWork, OwnerShape, LockedAdmission, Locked,
    BeforeReceipt, BeforeAnswer, AfterAnswer
<1>3. ReceiptOrder /\ AckedHasReceipt /\ DispatchedAtMostOnce
  BY DEF Init, ReceiptOrder, AckedHasReceipt, DispatchedAtMostOnce,
    BeforeReceipt, Locked
<1>4. DropOrder
  BY DropsAssumption, NoBodyAssumption DEF Init, DropOrder
<1>5. Waiters
  BY DEF Init, Waiters, Pending, AfterAnswer
<1> QED BY <1>1, <1>2, <1>3, <1>4, <1>5 DEF IInv

-----------------------------------------------------------------------------
\* An IPC connection thread that submits, waits or times out preserves it.
LEMMA CallStepIInv ==
  ASSUME IInv, NEW c \in Calls, CallStep(c)
  PROVE  IInv'
<1> USE DEF IInv, TypeOK, OneOwnerWork, OwnerShape, LockedAdmission,
  ReceiptOrder, AckedHasReceipt, DispatchedAtMostOnce, DropOrder, Waiters,
  Locked, BeforeReceipt, BeforeAnswer, AfterAnswer, Pending, HasReceipt,
  ReceiptMatches, SameRequest, CallPcs, disk, flags
<1>1. CASE Submit(c)
  <2>1. CASE SubmitRefused(c)
    BY <1>1, <2>1 DEF Submit, SubmitRefused
  <2>2. CASE SubmitReplayed(c)
    BY <1>1, <2>2 DEF Submit, SubmitReplayed
  <2>3. CASE SubmitJoined(c)
    BY <1>1, <2>3, NoBodyAssumption DEF Submit, SubmitJoined, Existing
  <2>4. CASE SubmitInstalled(c)
    BY <1>1, <2>4, NoCallAssumption
    DEF Submit, SubmitInstalled, Existing, ShuttingDown
  <2> QED BY <1>1, <2>1, <2>2, <2>3, <2>4 DEF Submit
<1>2. CASE WakeOwner(c)
  BY <1>2 DEF WakeOwner
<1>3. CASE Answered(c)
  BY <1>3 DEF Answered
<1>4. CASE Expire(c)
  BY <1>4 DEF Expire
<1>5. CASE Withdraw(c)
  <2>1. cmd[c] \in Calls
    BY <1>5 DEF Withdraw
  <2>2. TypeOK'
    BY <1>5, <2>1 DEF Withdraw
  <2>3. OneOwnerWork' /\ OwnerShape' /\ DropOrder'
    BY <1>5 DEF Withdraw
  <2>4. LockedAdmission'
    BY <1>5 DEF Withdraw
  <2>5. ReceiptOrder' /\ AckedHasReceipt' /\ DispatchedAtMostOnce'
    BY <1>5, <2>1 DEF Withdraw
  <2>6. Waiters'
    BY <1>5, <2>1 DEF Withdraw
  <2> QED BY <2>2, <2>3, <2>4, <2>5, <2>6
<1> QED BY <1>1, <1>2, <1>3, <1>4, <1>5 DEF CallStep

-----------------------------------------------------------------------------
\* The owner's admission and dispatch of a command preserve it.
LEMMA AdmitStepIInv ==
  ASSUME IInv, AdmitStep
  PROVE  IInv'
<1> USE DEF IInv, TypeOK, OneOwnerWork, OwnerShape, LockedAdmission,
  ReceiptOrder, AckedHasReceipt, DispatchedAtMostOnce, DropOrder, Waiters,
  Locked, BeforeReceipt, BeforeAnswer, AfterAnswer, Pending, HasReceipt,
  ReceiptMatches, SameRequest, OwnerPcs, disk, flags, callVars, OwnerGoto
<1>1. CASE AdmitBegin
  BY <1>1 DEF AdmitBegin
<1>2. CASE ValidateRejects
  BY <1>2 DEF ValidateRejects
<1>3. CASE ValidateAccepts
  BY <1>3 DEF ValidateAccepts
<1>4. CASE DropOwned
  BY <1>4 DEF DropOwned
<1>5. CASE RecordFails
  BY <1>5 DEF RecordFails
<1>6. CASE Record
  <2>1. active \in Calls /\ receipts[req[active].id] = NoBody
    BY <1>6 DEF Record
  <2>2. TypeOK'
    BY <1>6, <2>1 DEF Record
  <2>3. OneOwnerWork' /\ OwnerShape' /\ LockedAdmission' /\ Waiters'
    BY <1>6 DEF Record
  <2>4. \A c \in Calls : ReceiptMatches(c) => ReceiptMatches(c)'
    BY <1>6, <2>1, NoBodyAssumption DEF Record
  <2>5. ReceiptMatches(active)' /\ executed[req[active].id] = 0
    <3>1. req[active].id \in Ids
      BY <2>1
    <3>2. executed[req[active].id] \in Nat /\ executed[req[active].id] <= 1
      BY <3>1
    <3>3. executed[req[active].id] # 1
      BY <2>1, <3>1
    <3>4. ReceiptMatches(active)'
      BY <1>6, <2>1, <3>1 DEF Record
    <3>5. executed[req[active].id] = 0
      BY <3>2, <3>3, NoneOfAtMostOne, Zenon
    <3> QED BY <3>4, <3>5
  <2>6. ReceiptOrder' /\ AckedHasReceipt'
    BY <1>6, <2>1, <2>4, <2>5 DEF Record
  <2>7. DispatchedAtMostOnce'
    BY <1>6, <2>1, NoBodyAssumption DEF Record
  <2>8. DropOrder'
    BY <1>6, <2>1 DEF Record
  <2> QED BY <2>2, <2>3, <2>6, <2>7, <2>8
<1>7. CASE Ack
  BY <1>7 DEF Ack
<1>8. CASE Refuse
  BY <1>8 DEF Refuse
<1>9. CASE Dispatch
  <2>1. active \in Calls /\ executed[req[active].id] = 0
    BY <1>9 DEF Dispatch
  <2>2. TypeOK'
    <3>1. executed' \in [Ids -> Nat]
      BY <1>9, <2>1 DEF Dispatch
    <3> QED BY <1>9, <3>1 DEF Dispatch
  <2>3. OneOwnerWork' /\ OwnerShape' /\ LockedAdmission' /\ Waiters'
    BY <1>9 DEF Dispatch
  <2>4. ReceiptOrder' /\ AckedHasReceipt' /\ DropOrder'
    BY <1>9 DEF Dispatch
  <2>5. DispatchedAtMostOnce'
    BY <1>9, <2>1, NoBodyAssumption DEF Dispatch
  <2> QED BY <2>2, <2>3, <2>4, <2>5
<1>10. CASE AdmissionInterrupted
  BY <1>10 DEF AdmissionInterrupted
<1>11. CASE InterruptedLeaves
  BY <1>11 DEF InterruptedLeaves
<1> QED BY <1>1, <1>2, <1>3, <1>4, <1>5, <1>6, <1>7, <1>8, <1>9, <1>10, <1>11
        DEF AdmitStep

-----------------------------------------------------------------------------
\* The rest of the owner's loop preserves it.
LEMMA LoopStepIInv ==
  ASSUME IInv, LoopStep
  PROVE  IInv'
<1> USE DEF IInv, TypeOK, OneOwnerWork, OwnerShape, LockedAdmission,
  ReceiptOrder, AckedHasReceipt, DispatchedAtMostOnce, DropOrder, Waiters,
  Locked, BeforeReceipt, BeforeAnswer, AfterAnswer, Pending, HasReceipt,
  ReceiptMatches, SameRequest, OwnerPcs, disk, flags, callVars, OwnerGoto
<1>1. CASE TopLeaves
  BY <1>1 DEF TopLeaves
<1>2. CASE TopContinues
  BY <1>2 DEF TopContinues
<1>3. CASE StartupWait
  BY <1>3 DEF StartupWait
<1>4. CASE StartupClear
  BY <1>4 DEF StartupClear
<1>5. CASE Claim
  <2>1. TypeOK'
    <3> HIDE DEF OneOwnerWork, OwnerShape, LockedAdmission, ReceiptOrder,
      AckedHasReceipt, DispatchedAtMostOnce, DropOrder, Waiters
    <3>1. CASE slot # NoCall
      BY <1>5, <3>1 DEF Claim
    <3>2. CASE slot = NoCall
      BY <1>5, <3>2 DEF Claim
    <3> QED BY <3>1, <3>2
  <2>2. OneOwnerWork' /\ OwnerShape' /\ LockedAdmission' /\ DropOrder'
    BY <1>5 DEF Claim
  <2>3. ReceiptOrder' /\ AckedHasReceipt' /\ DispatchedAtMostOnce'
    BY <1>5 DEF Claim
  <2>4. Waiters'
    BY <1>5 DEF Claim
  <2> QED BY <2>1, <2>2, <2>3, <2>4
<1>6. CASE Iterate
  BY <1>6 DEF Iterate
<1>7. CASE Release
  BY <1>7 DEF Release
<1>8. CASE WaitClear
  BY <1>8 DEF WaitClear
<1>9. CASE WaitCheck
  BY <1>9 DEF WaitCheck
<1>10. CASE WaitRecheck
  BY <1>10 DEF WaitRecheck
<1>11. CASE Woken
  BY <1>11 DEF Woken, AfterSleep
<1>12. CASE Close
  BY <1>12 DEF Close
<1>13. CASE RejectPending
  <2>1. TypeOK'
    <3> HIDE DEF OneOwnerWork, OwnerShape, LockedAdmission, ReceiptOrder,
      AckedHasReceipt, DispatchedAtMostOnce, DropOrder, Waiters
    <3>1. CASE slot # NoCall
      BY <1>13, <3>1 DEF RejectPending
    <3>2. CASE slot = NoCall
      BY <1>13, <3>2 DEF RejectPending
    <3> QED BY <3>1, <3>2
  <2>2. OneOwnerWork' /\ OwnerShape' /\ LockedAdmission' /\ DropOrder'
    BY <1>13 DEF RejectPending
  <2>3. ReceiptOrder' /\ AckedHasReceipt' /\ DispatchedAtMostOnce'
    BY <1>13 DEF RejectPending
  <2>4. Waiters'
    BY <1>13, NoCallAssumption DEF RejectPending
  <2> QED BY <2>1, <2>2, <2>3, <2>4
<1> QED
  BY <1>1, <1>2, <1>3, <1>4, <1>5, <1>6, <1>7, <1>8, <1>9, <1>10, <1>11,
    <1>12, <1>13 DEF LoopStep

-----------------------------------------------------------------------------
\* Lifecycle requests, signals, wake-ups, the end of the process at any step
\* and its restart preserve it.
LEMMA EnvironmentStepIInv ==
  ASSUME IInv, EnvironmentStep
  PROVE  IInv'
<1> USE DEF IInv, TypeOK, OneOwnerWork, OwnerShape, LockedAdmission,
  ReceiptOrder, AckedHasReceipt, DispatchedAtMostOnce, DropOrder, Waiters,
  Locked, BeforeReceipt, BeforeAnswer, AfterAnswer, Pending, HasReceipt,
  ReceiptMatches, SameRequest, OwnerPcs, CallPcs, disk, flags, callVars
<1>1. ASSUME NEW force \in BOOLEAN, LifecycleRequest(force)
      PROVE  IInv'
  BY <1>1 DEF LifecycleRequest
<1>2. CASE Sigterm
  BY <1>2 DEF Sigterm
<1>3. CASE Sigint
  BY <1>3 DEF Sigint
<1>4. CASE DeliverWake
  <2>1. TypeOK'
    BY <1>4 DEF DeliverWake
  <2>2. OneOwnerWork' /\ OwnerShape' /\ LockedAdmission' /\ DropOrder'
    BY <1>4 DEF DeliverWake
  <2>3. ReceiptOrder' /\ AckedHasReceipt' /\ DispatchedAtMostOnce'
    BY <1>4 DEF DeliverWake
  <2>4. Waiters'
    BY <1>4 DEF DeliverWake
  <2> QED BY <2>1, <2>2, <2>3, <2>4
<1>5. CASE PollTimeout
  BY <1>5 DEF PollTimeout, AfterSleep
<1>6. ASSUME ProcessGone
      PROVE  IInv'
  BY <1>6 DEF ProcessGone
<1>7. CASE Start
  <2>1. starts' \in 1..MaxStarts
    BY <1>7, MaxStartsAssumption DEF Start
  <2>2. TypeOK'
    BY <1>7, <2>1 DEF Start
  <2>3. OneOwnerWork' /\ OwnerShape' /\ LockedAdmission' /\ DropOrder'
    BY <1>7 DEF Start
  <2>4. ReceiptOrder' /\ AckedHasReceipt' /\ DispatchedAtMostOnce'
    BY <1>7 DEF Start
  <2>5. Waiters'
    BY <1>7 DEF Start
  <2> QED BY <2>2, <2>3, <2>4, <2>5
<1> QED
  BY <1>1, <1>2, <1>3, <1>4, <1>5, <1>6, <1>7
  DEF EnvironmentStep, ProcessExit, Crash

-----------------------------------------------------------------------------
\* Every step, and every stuttering step, preserves the inductive invariant.
LEMMA NextIInv == IInv /\ [Next]_vars => IInv'
<1> SUFFICES ASSUME IInv, [Next]_vars PROVE IInv'
  OBVIOUS
<1>1. ASSUME NEW c \in Calls, CallStep(c) PROVE IInv'
  BY <1>1, CallStepIInv
<1>2. CASE OwnerStep
  BY <1>2, AdmitStepIInv, LoopStepIInv DEF OwnerStep
<1>3. CASE EnvironmentStep
  BY <1>3, EnvironmentStepIInv
<1>4. CASE UNCHANGED vars
  BY <1>4 DEF vars, disk, flags, callVars, IInv, TypeOK, OneOwnerWork,
    OwnerShape, LockedAdmission, ReceiptOrder, AckedHasReceipt,
    DispatchedAtMostOnce, DropOrder, Waiters, Pending, HasReceipt,
    ReceiptMatches, SameRequest
<1> QED BY <1>1, <1>2, <1>3, <1>4 DEF Next

\* The inductive invariant holds in every reachable state.
THEOREM Invariance == Spec => []IInv
  BY InitIInv, NextIInv, PTL DEF Spec

\* Every variable keeps its type: among others the drops carried out are
\* drops, although the owner adds whatever request it has in hand.
THEOREM TypeCorrect == Spec => []TypeOK
<1>1. IInv => TypeOK
  BY DEF IInv
<1> QED BY <1>1, Invariance, PTL

\* The owner never has two things in hand (the busy answers of
\* _submit_operator_command, _claim_owner_work).
THEOREM OneOwner == Spec => []OneOwnerWork
<1>1. IInv => OneOwnerWork
  BY DEF IInv
<1> QED BY <1>1, Invariance, PTL

\* An acknowledged request has its receipt, whatever crashes.
THEOREM Acknowledged == Spec => []AckedHasReceipt
<1>1. IInv => AckedHasReceipt
  BY DEF IInv
<1> QED BY <1>1, Invariance, PTL

\* An acknowledged drop has been carried out, whatever crashes.
THEOREM AcknowledgedDrop == Spec => []AckedDropDone
<1>1. IInv => AckedDropDone
  BY DEF IInv, TypeOK, AckedDropDone, AckedHasReceipt, ReceiptMatches,
    DropOrder
<1> QED BY <1>1, Invariance, PTL

\* No request id is dispatched twice, over any number of resubmissions and
\* restarts.
THEOREM DispatchOnce == Spec => []DispatchedAtMostOnce
<1>1. IInv => DispatchedAtMostOnce
  BY DEF IInv
<1> QED BY <1>1, Invariance, PTL

\* Shutdown leaves nobody waiting for a command nobody will admit.
THEOREM NobodyStranded == Spec => []NobodyStrandedByShutdown
<1>1. IInv => NobodyStrandedByShutdown
  BY NoCallAssumption
  DEF IInv, TypeOK, NobodyStrandedByShutdown, Waiters, OwnerShape, Pending,
    BeforeReceipt, BeforeAnswer, AfterAnswer, Locked
<1> QED BY <1>1, Invariance, PTL

\* A command cancelled by its client's timeout is never admitted afterwards.
THEOREM CancelIsFinal == Spec => CancelledNeverAdmitted
<1> DEFINE Step == \A c \in Calls :
                     cancelled[c] /\ result[c] # "ok" => result'[c] # "ok"
<1>1. IInv /\ [Next]_vars => [Step]_vars
  <2> SUFFICES ASSUME IInv, Next, NEW d \in Calls, cancelled[d],
                      result[d] # "ok"
               PROVE  result'[d] # "ok"
    OBVIOUS
  <2> USE DEF IInv, TypeOK
  <2>1. ASSUME NEW c \in Calls, CallStep(c) PROVE result'[d] # "ok"
    BY <2>1 DEF CallStep, Submit, WakeOwner, Answered, Expire, Withdraw
  <2>2. CASE Record
    BY <2>2 DEF Record, OwnerGoto, LockedAdmission, Locked
  <2>3. CASE AdmitStep /\ ~Record
    BY <2>3 DEF AdmitStep, AdmitBegin, ValidateRejects, ValidateAccepts,
      DropOwned, RecordFails, Ack, Refuse, AdmissionInterrupted,
      InterruptedLeaves, Dispatch, callVars
  <2>4. CASE LoopStep
    BY <2>4 DEF LoopStep, TopLeaves, TopContinues, StartupWait, StartupClear,
      Claim, Iterate, Release, WaitClear, WaitCheck, WaitRecheck, Woken,
      Close, RejectPending, callVars
  <2>5. CASE EnvironmentStep
    BY <2>5 DEF EnvironmentStep, LifecycleRequest, Sigterm, Sigint,
      DeliverWake, PollTimeout, ProcessExit, Crash, ProcessGone, Start,
      callVars
  <2> QED BY <2>1, <2>2, <2>3, <2>4, <2>5 DEF Next, OwnerStep
<1>2. Spec => [][Step]_vars
  BY <1>1, Invariance, PTL DEF Spec
<1> QED BY <1>2 DEF CancelledNeverAdmitted

\* No receipt is written once a stop or restart was accepted over IPC.
THEOREM DrainClosesAdmission == Spec => NoAdmissionAfterIpcDrain
<1> DEFINE Step == receipts' # receipts => intent # "ipc"
<1>1. IInv /\ [Next]_vars => [Step]_vars
  <2> SUFFICES ASSUME IInv, Next, receipts' # receipts
               PROVE  intent # "ipc"
    OBVIOUS
  <2> USE DEF disk
  <2>1. ASSUME NEW c \in Calls, CallStep(c) PROVE FALSE
    BY <2>1 DEF CallStep, Submit, WakeOwner, Answered, Expire, Withdraw
  <2>2. CASE Record
    BY <2>2 DEF Record, OwnerGoto, IInv, LockedAdmission, Locked
  <2>3. CASE AdmitStep /\ ~Record
    BY <2>3 DEF AdmitStep, AdmitBegin, ValidateRejects, ValidateAccepts,
      DropOwned, RecordFails, Ack, Refuse, AdmissionInterrupted,
      InterruptedLeaves, Dispatch
  <2>4. CASE LoopStep
    BY <2>4 DEF LoopStep, TopLeaves, TopContinues, StartupWait, StartupClear,
      Claim, Iterate, Release, WaitClear, WaitCheck, WaitRecheck, Woken,
      Close, RejectPending
  <2>5. CASE EnvironmentStep
    BY <2>5 DEF EnvironmentStep, LifecycleRequest, Sigterm, Sigint,
      DeliverWake, PollTimeout, ProcessExit, Crash, ProcessGone, Start
  <2> QED BY <2>1, <2>2, <2>3, <2>4, <2>5 DEF Next, OwnerStep
<1>2. Spec => [][Step]_vars
  BY <1>1, Invariance, PTL DEF Spec
<1> QED BY <1>2 DEF NoAdmissionAfterIpcDrain
=============================================================================
