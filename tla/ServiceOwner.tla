---------------------------- MODULE ServiceOwner ----------------------------
(***************************************************************************)
(* The hosted service's owner loop and its operator-command admission      *)
(* (runtime.py: _submit_operator_command, _admit_operator_command,         *)
(* _claim_owner_work, request_lifecycle, _run_polling and                  *)
(* _wait_for_service_event).                                               *)
(*                                                                         *)
(* One owner thread (the process's main thread) runs scheduler iterations  *)
(* and operator commands.  IPC connection threads submit mutable requests  *)
(* into a one-place slot, set the wake event and wait, with a timeout, for *)
(* the owner to admit.  What a scheduler iteration does to an execution is *)
(* the subject of module Execution; here an iteration is one step.         *)
(*                                                                         *)
(* A Call is one IPC connection thread and is used once, so the            *)
(* OperatorCommand object a call installs is identified by that call.      *)
(***************************************************************************)
EXTENDS Naturals

CONSTANTS
  Calls,       \* IPC connection threads, one submission each
  NoCall,      \* Python's None for a command reference
  Ids,         \* client-chosen request ids
  Bodies,      \* request semantics: method and fingerprint
  Drops,       \* the bodies whose method is "drop"
  NoBody,      \* no receipt
  MaxStarts    \* bound: how often the service process is started

ASSUME NoCallAssumption == NoCall \notin Calls
ASSUME NoBodyAssumption == NoBody \notin Bodies
ASSUME DropsAssumption == Drops \subseteq Bodies
ASSUME MaxStartsAssumption == MaxStarts \in Nat \ {0}

VARIABLES
  \* Persisted in the state file (or, for drops, in git refs).
  receipts,    \* mutable_receipts: request id -> body, or NoBody
  dropped,     \* executions whose drop has completed
  \* Process-local state of the service.
  owner,       \* where the owner thread is in _run_polling
  lock,        \* _operator_command_lock held across steps of the owner
  slot,        \* _operator_command
  active,      \* _operator_active_command (None when not _operator_active)
  sched,       \* _scheduler_active
  window,      \* _startup_admission_window
  wake,        \* _service_wake
  wakeDue,     \* a lifecycle request has released the lock, wake() is due
  shutdown,    \* _service_shutdown
  stop,        \* _stop_event
  intent,      \* who had a stop or restart intent accepted, if anyone
  \* The calls and the OperatorCommand each may have created.
  pc,          \* where the call is in _submit_operator_command
  req,         \* its request id and body
  cmd,         \* the command it waits on, named by its creator
  result,      \* admission_result / admission_error
  event,       \* admission_event
  cancelled,   \* cancelled
  \* History.
  executed,    \* per request id, how often its command was dispatched
  starts

disk == <<receipts, dropped>>
flags == <<wake, wakeDue, shutdown, stop, intent, window>>
callVars == <<pc, req, cmd, result, event, cancelled>>
vars == <<receipts, dropped, owner, lock, slot, active, sched, flags,
          callVars, executed, starts>>

-----------------------------------------------------------------------------
OwnerPcs == {"top", "startup", "startupClear", "claim", "admit", "validate",
             "drop", "record", "ack", "refuse", "interrupted", "dispatch",
             "iterate", "release", "wait", "check", "recheck", "sleep",
             "leave", "close", "reject", "exited", "down"}

CallPcs == {"idle", "installed", "waiting", "expired",
            "acked", "rejected", "timedout", "lost"}

\* A call whose thread is still inside _submit_operator_command.
Pending(c) == pc[c] \in {"installed", "waiting", "expired"}

TypeOK ==
  /\ receipts \in [Ids -> Bodies \cup {NoBody}]
  /\ dropped \subseteq Drops
  /\ owner \in OwnerPcs
  /\ lock \in BOOLEAN
  /\ slot \in Calls \cup {NoCall}
  /\ active \in Calls \cup {NoCall}
  /\ sched \in BOOLEAN
  /\ window \in BOOLEAN
  /\ wake \in BOOLEAN
  /\ wakeDue \in BOOLEAN
  /\ shutdown \in BOOLEAN
  /\ stop \in BOOLEAN
  /\ intent \in {"none", "ipc", "signal"}
  /\ pc \in [Calls -> CallPcs]
  /\ req \in [Calls -> [id : Ids, body : Bodies]]
  /\ cmd \in [Calls -> Calls \cup {NoCall}]
  /\ result \in [Calls -> {"none", "ok", "error"}]
  /\ event \in [Calls -> BOOLEAN]
  /\ cancelled \in [Calls -> BOOLEAN]
  /\ executed \in [Ids -> Nat]
  /\ starts \in 1..MaxStarts

Init ==
  /\ receipts = [i \in Ids |-> NoBody]
  /\ dropped = {}
  /\ owner = "top"
  /\ lock = FALSE
  /\ slot = NoCall
  /\ active = NoCall
  /\ sched = FALSE
  /\ window = TRUE
  /\ wake = FALSE
  /\ wakeDue = FALSE
  /\ shutdown = FALSE
  /\ stop = FALSE
  /\ intent = "none"
  /\ pc = [c \in Calls |-> "idle"]
  /\ req \in [Calls -> [id : Ids, body : Bodies]]
  /\ cmd = [c \in Calls |-> NoCall]
  /\ result = [c \in Calls |-> "none"]
  /\ event = [c \in Calls |-> FALSE]
  /\ cancelled = [c \in Calls |-> FALSE]
  /\ executed = [i \in Ids |-> 0]
  /\ starts = 1

-----------------------------------------------------------------------------
(* IPC connection threads. *)

ProcessUp == owner # "down"

\* Mutant: a command the owner has taken does not count as existing.
ExistingSlotOnly == slot

\* existing = self._operator_command or self._operator_active_command
Existing == IF slot # NoCall THEN slot ELSE active

SameRequest(c, d) == req[c] = req[d]

\* The early exits of a submission that are decided before anything else.
ShuttingDown == shutdown \/ stop \/ intent # "none"

\* Mutant: submission does not look for a receipt.
HasReceiptNever(c) == FALSE

HasReceipt(c) == receipts[req[c].id] # NoBody
ReceiptMatches(c) == receipts[req[c].id] = req[c].body

SubmitRefused(c) ==
  /\ \/ ShuttingDown
     \/ HasReceipt(c) /\ ~ReceiptMatches(c)
     \/ ~HasReceipt(c) /\ Existing # NoCall /\ ~SameRequest(c, Existing)
     \/ ~HasReceipt(c) /\ Existing = NoCall /\ sched
  /\ pc' = [pc EXCEPT ![c] = "rejected"]
  /\ UNCHANGED <<slot, cmd>>

SubmitReplayed(c) ==
  /\ ~ShuttingDown /\ HasReceipt(c) /\ ReceiptMatches(c)
  /\ pc' = [pc EXCEPT ![c] = "acked"]
  /\ UNCHANGED <<slot, cmd>>

SubmitJoined(c) ==
  /\ ~ShuttingDown /\ ~HasReceipt(c)
  /\ Existing # NoCall /\ SameRequest(c, Existing)
  /\ pc' = [pc EXCEPT ![c] = "waiting"]
  /\ cmd' = [cmd EXCEPT ![c] = Existing]
  /\ UNCHANGED slot

SubmitInstalled(c) ==
  /\ ~ShuttingDown /\ ~HasReceipt(c)
  /\ Existing = NoCall /\ ~sched
  /\ pc' = [pc EXCEPT ![c] = "installed"]
  /\ cmd' = [cmd EXCEPT ![c] = c]
  /\ slot' = c

\* The part of _submit_operator_command under the command lock.
Submit(c) ==
  /\ ProcessUp /\ ~lock /\ pc[c] = "idle"
  /\ \/ SubmitRefused(c)
     \/ SubmitReplayed(c)
     \/ SubmitJoined(c)
     \/ SubmitInstalled(c)
  /\ UNCHANGED <<disk, owner, lock, active, sched, flags, req, result,
                 event, cancelled, executed, starts>>

\* Mutant: the submission does not wake the owner.
WakeOwnerSilent(c) ==
  /\ pc[c] = "installed"
  /\ pc' = [pc EXCEPT ![c] = "waiting"]
  /\ UNCHANGED <<disk, owner, lock, slot, active, sched, flags, req, cmd,
                 result, event, cancelled, executed, starts>>

\* self.wake(), after the lock is released and only for a new command.
WakeOwner(c) ==
  /\ pc[c] = "installed"
  /\ pc' = [pc EXCEPT ![c] = "waiting"]
  /\ wake' = TRUE
  /\ UNCHANGED <<disk, owner, lock, slot, active, sched, wakeDue, shutdown,
                 stop, intent, window, req, cmd, result, event, cancelled,
                 executed, starts>>

\* admission_event.wait returns True; _admission_result raises or returns.
Answered(c) ==
  /\ pc[c] = "waiting" /\ event[cmd[c]]
  /\ pc' = [pc EXCEPT ![c] = IF result[cmd[c]] = "ok" THEN "acked"
                                                       ELSE "rejected"]
  /\ UNCHANGED <<disk, owner, lock, slot, active, sched, flags, req, cmd,
                 result, event, cancelled, executed, starts>>

\* admission_event.wait(OPERATOR_ADMISSION_TIMEOUT) returns False.
Expire(c) ==
  /\ pc[c] = "waiting" /\ ~event[cmd[c]]
  /\ pc' = [pc EXCEPT ![c] = "expired"]
  /\ UNCHANGED <<disk, owner, lock, slot, active, sched, flags, req, cmd,
                 result, event, cancelled, executed, starts>>

\* The timeout branch, under the command lock: withdraw a command that is
\* still in the slot, cancel one the owner has taken, and report failure.
Withdraw(c) ==
  /\ pc[c] = "expired" /\ ~lock
  /\ pc' = [pc EXCEPT ![c] = "timedout"]
  /\ cancelled' = [cancelled EXCEPT ![cmd[c]] = TRUE]
  /\ IF slot = cmd[c]
     THEN /\ slot' = NoCall
          /\ result' = [result EXCEPT ![cmd[c]] = "error"]
          /\ event' = [event EXCEPT ![cmd[c]] = TRUE]
     ELSE UNCHANGED <<slot, result, event>>
  /\ UNCHANGED <<disk, owner, lock, active, sched, flags, req, cmd,
                 executed, starts>>

-----------------------------------------------------------------------------
(* Lifecycle requests, signals and the wake events they cause. *)

\* serve() has not returned.  What arrives after that no longer matters.
InLoop == owner \notin {"exited", "down"}

\* request_lifecycle over IPC: takes the command lock, which the owner may
\* be holding.  A forced request also sets the stop event.  A repetition
\* of an accepted request does nothing unless it is forced; the wake-up is
\* then _wake_when_stopped's.
LifecycleRequest(force) ==
  /\ InLoop /\ ~lock
  /\ intent' = IF intent = "none" THEN "ipc" ELSE intent
  /\ stop' = (stop \/ force)
  /\ wakeDue' = (wakeDue \/ intent = "none" \/ force)
  /\ UNCHANGED <<disk, owner, lock, slot, active, sched, wake, shutdown,
                 window, callVars, executed, starts>>

\* SIGTERM: the handler runs request_lifecycle on the owner's own thread,
\* between two of its steps.  The command lock is reentrant, so the handler
\* does not wait for it.
Sigterm ==
  /\ InLoop
  /\ intent' = IF intent = "none" THEN "signal" ELSE intent
  /\ wake' = TRUE
  /\ UNCHANGED <<disk, owner, lock, slot, active, sched, wakeDue, shutdown,
                 stop, window, callVars, executed, starts>>

\* SIGINT: the handler only sets the stop event (operator_abort) and wakes.
Sigint ==
  /\ InLoop
  /\ stop' = TRUE
  /\ wake' = TRUE
  /\ UNCHANGED <<disk, owner, lock, slot, active, sched, wakeDue, shutdown,
                 intent, window, callVars, executed, starts>>

\* Mutant: the lifecycle request does not wake the owner.
DeliverWakeLost ==
  /\ wakeDue
  /\ wakeDue' = FALSE
  /\ UNCHANGED <<disk, owner, lock, slot, active, sched, wake, shutdown,
                 stop, intent, window, callVars, executed, starts>>

\* wake() of request_lifecycle on its connection thread, or of the thread
\* that waits for the stop event.
DeliverWake ==
  /\ wakeDue
  /\ wake' = TRUE
  /\ wakeDue' = FALSE
  /\ UNCHANGED <<disk, owner, lock, slot, active, sched, shutdown, stop,
                 intent, window, callVars, executed, starts>>

-----------------------------------------------------------------------------
(* The owner thread: one turn of _run_polling. *)

\* _lifecycle_exit_ready as the loop sees it.  run_iteration always leaves
\* _owned_execution_id None and no worker registered, so that between
\* iterations only the intent decides.
ExitReady == intent # "none"

OwnerGoto(from, to) == owner = from /\ owner' = to

\* A set stop event ends the loop unless the persisted phase is
\* merge_pending, which an iteration must finish first; the phase belongs to
\* module Execution and is a choice here.
TopLeaves ==
  /\ owner = "top" /\ (ExitReady \/ stop)
  /\ owner' = "close"
  /\ UNCHANGED <<disk, lock, slot, active, sched, flags, callVars, executed,
                 starts>>

TopContinues ==
  /\ owner = "top" /\ ~ExitReady
  /\ owner' = IF window THEN "startup" ELSE "claim"
  /\ window' = FALSE
  /\ UNCHANGED <<disk, lock, slot, active, sched, wake, wakeDue, shutdown,
                 stop, intent, callVars, executed, starts>>

\* _service_wake.wait(OPERATOR_ADMISSION_TIMEOUT): woken or timed out.
StartupWait ==
  /\ OwnerGoto("startup", "startupClear")
  /\ UNCHANGED <<disk, lock, slot, active, sched, flags, callVars, executed,
                 starts>>

StartupClear ==
  /\ owner = "startupClear"
  /\ wake' = FALSE
  /\ owner' = IF ExitReady THEN "top" ELSE "claim"
  /\ UNCHANGED <<disk, lock, slot, active, sched, wakeDue, shutdown, stop,
                 intent, window, callVars, executed, starts>>

\* _claim_owner_work(True): a pending command goes before the scheduler.
Claim ==
  /\ owner = "claim" /\ ~lock
  /\ active = NoCall /\ ~sched
  /\ IF slot # NoCall
     THEN /\ active' = slot
          /\ slot' = NoCall
          /\ owner' = "admit"
          /\ UNCHANGED sched
     ELSE /\ sched' = TRUE
          /\ owner' = "iterate"
          /\ UNCHANGED <<slot, active>>
  /\ UNCHANGED <<disk, lock, flags, callVars, executed, starts>>

\* Mutant: the owner does not look at the command's cancellation.
AdmitBeginUncancelled ==
  /\ owner = "admit" /\ ~lock
  /\ IF intent # "none"
     THEN owner' = "refuse" /\ UNCHANGED lock
     ELSE owner' = "validate" /\ lock' = TRUE
  /\ UNCHANGED <<disk, slot, active, sched, flags, callVars, executed,
                 starts>>

\* Mutant: admission runs without the command lock.
AdmitBeginUnlocked ==
  /\ owner = "admit" /\ ~lock
  /\ owner' = IF cancelled[active] \/ intent # "none" THEN "refuse"
                                                      ELSE "validate"
  /\ UNCHANGED <<disk, lock, slot, active, sched, flags, callVars, executed,
                 starts>>

\* _admit_operator_command: take the lock, refuse a cancelled command and
\* refuse everything once the service drains.
AdmitBegin ==
  /\ owner = "admit" /\ ~lock
  /\ IF cancelled[active] \/ intent # "none"
     THEN owner' = "refuse" /\ UNCHANGED lock
     ELSE owner' = "validate" /\ lock' = TRUE
  /\ UNCHANGED <<disk, slot, active, sched, flags, callVars, executed,
                 starts>>

\* _validate_operator_admission raises: nothing is recorded.
ValidateRejects ==
  /\ OwnerGoto("validate", "refuse")
  /\ lock' = FALSE
  /\ UNCHANGED <<disk, slot, active, sched, flags, callVars, executed,
                 starts>>

\* Mutant: a drop is left to the dispatch, as every other command is.
ValidateAcceptsLateDrop ==
  /\ OwnerGoto("validate", "record")
  /\ UNCHANGED <<disk, lock, slot, active, sched, flags, callVars, executed,
                 starts>>

\* It returns; a drop is carried out before its receipt is written.
ValidateAccepts ==
  /\ owner = "validate"
  /\ owner' = IF req[active].body \in Drops THEN "drop" ELSE "record"
  /\ UNCHANGED <<disk, lock, slot, active, sched, flags, callVars, executed,
                 starts>>

\* _drop_owned: does nothing when the drop has already completed.
DropOwned ==
  /\ OwnerGoto("drop", "record")
  /\ dropped' = dropped \cup {req[active].body}
  /\ UNCHANGED <<receipts, lock, slot, active, sched, flags, callVars,
                 executed, starts>>

\* Mutant: a failed write of the receipt is acknowledged all the same.
RecordFailsAcked ==
  /\ owner \in {"drop", "record"}
  /\ owner' = "ack"
  /\ result' = [result EXCEPT ![active] = "ok"]
  /\ lock' = FALSE
  /\ UNCHANGED <<disk, slot, active, sched, flags, pc, req, cmd, event,
                 cancelled, executed, starts>>

\* _drop_owned or the write of the state file raises; the receipt is absent.
RecordFails ==
  /\ owner \in {"drop", "record"}
  /\ owner' = "refuse"
  /\ lock' = FALSE
  /\ UNCHANGED <<disk, slot, active, sched, flags, callVars, executed,
                 starts>>

\* _record_operator_admission, the acknowledgement, and the lock's release.
Record ==
  /\ OwnerGoto("record", "ack")
  /\ receipts' = [receipts EXCEPT ![req[active].id] = req[active].body]
  /\ result' = [result EXCEPT ![active] = "ok"]
  /\ lock' = FALSE
  /\ UNCHANGED <<dropped, slot, active, sched, flags, pc, req, cmd, event,
                 cancelled, executed, starts>>

\* finally: admission_event.set(), after the lock is released.
Ack ==
  /\ OwnerGoto("ack", "dispatch")
  /\ event' = [event EXCEPT ![active] = TRUE]
  /\ UNCHANGED <<disk, lock, slot, active, sched, flags, pc, req, cmd,
                 result, cancelled, executed, starts>>

\* Mutant: the event is set only for an admitted command.
RefuseUnanswered ==
  /\ OwnerGoto("refuse", "release")
  /\ result' = [result EXCEPT ![active] = "error"]
  /\ UNCHANGED <<disk, lock, slot, active, sched, flags, pc, req, cmd,
                 event, cancelled, executed, starts>>

Refuse ==
  /\ OwnerGoto("refuse", "release")
  /\ result' = [result EXCEPT ![active] = "error"]
  /\ event' = [event EXCEPT ![active] = TRUE]
  /\ UNCHANGED <<disk, lock, slot, active, sched, flags, pc, req, cmd,
                 cancelled, executed, starts>>

\* A git command of the validation or of the drop is killed by the operator's
\* SIGINT.  ShutdownInterrupted is no DevlegateError: the call is answered
\* without a result, and the loop is left.
AdmissionInterrupted ==
  /\ owner \in {"validate", "drop"} /\ stop
  /\ owner' = "interrupted"
  /\ lock' = FALSE
  /\ UNCHANGED <<disk, slot, active, sched, flags, callVars, executed,
                 starts>>

InterruptedLeaves ==
  /\ OwnerGoto("interrupted", "leave")
  /\ result' = [result EXCEPT ![active] = "error"]
  /\ event' = [event EXCEPT ![active] = TRUE]
  /\ shutdown' = TRUE
  /\ UNCHANGED <<disk, lock, slot, active, sched, wake, wakeDue, stop, intent,
                 window, pc, req, cmd, cancelled, executed, starts>>

\* _dispatch_operator_command.  A drop has nothing left to do; any other
\* command runs now.  DevlegateError and OSError only set the status;
\* a git command killed by the operator's SIGINT raises ShutdownInterrupted,
\* which leaves the loop without a look at the slot.
Dispatch ==
  /\ owner = "dispatch"
  /\ executed' = IF req[active].body \in Drops THEN executed
                 ELSE [executed EXCEPT ![req[active].id] = @ + 1]
  /\ \/ owner' = "release" /\ UNCHANGED shutdown
     \/ stop /\ owner' = "leave" /\ shutdown' = TRUE
  /\ UNCHANGED <<disk, lock, slot, active, sched, wake, wakeDue, stop,
                 intent, window, callVars, starts>>

\* run_iteration: returns a status, is interrupted by SIGINT, or raises an
\* error the loop does not handle, which ends the service.
Iterate ==
  /\ owner = "iterate"
  /\ \/ owner' = "release" /\ UNCHANGED shutdown
     \/ stop /\ owner' = "leave" /\ shutdown' = TRUE
     \/ owner' = "leave" /\ UNCHANGED shutdown
  /\ UNCHANGED <<disk, lock, slot, active, sched, wake, wakeDue, stop,
                 intent, window, callVars, executed, starts>>

\* The finally clause, on the way to the wait or out of the loop.
Release ==
  /\ owner \in {"release", "leave"} /\ ~lock
  /\ owner' = IF owner = "release" THEN "wait" ELSE "exited"
  /\ active' = NoCall
  /\ sched' = FALSE
  /\ UNCHANGED <<disk, lock, slot, flags, callVars, executed, starts>>

\* _wait_for_service_event: clear, then look, then sleep.
WaitClear ==
  /\ OwnerGoto("wait", "check")
  /\ wake' = FALSE
  /\ UNCHANGED <<disk, lock, slot, active, sched, wakeDue, shutdown, stop,
                 intent, window, callVars, executed, starts>>

WaitCheck ==
  /\ owner = "check" /\ ~lock
  /\ owner' = IF ExitReady \/ stop THEN "close"
              ELSE IF slot # NoCall THEN "top" ELSE "recheck"
  /\ UNCHANGED <<disk, lock, slot, active, sched, flags, callVars, executed,
                 starts>>

WaitRecheck ==
  /\ owner = "recheck" /\ ~lock
  /\ owner' = IF slot # NoCall THEN "top" ELSE "sleep"
  /\ UNCHANGED <<disk, lock, slot, active, sched, flags, callVars, executed,
                 starts>>

AfterSleep == owner' = IF stop THEN "close" ELSE "top"

Woken ==
  /\ owner = "sleep" /\ wake
  /\ AfterSleep
  /\ UNCHANGED <<disk, lock, slot, active, sched, flags, callVars, executed,
                 starts>>

\* _service_wake.wait(poll_interval) times out.
PollTimeout ==
  /\ owner = "sleep" /\ ~wake
  /\ AfterSleep
  /\ UNCHANGED <<disk, lock, slot, active, sched, flags, callVars, executed,
                 starts>>

\* Orderly end: first refuse new submissions, then reject the pending one.
Close ==
  /\ OwnerGoto("close", "reject")
  /\ shutdown' = TRUE
  /\ UNCHANGED <<disk, lock, slot, active, sched, wake, wakeDue, stop,
                 intent, window, callVars, executed, starts>>

\* Mutant: the pending command is dropped without an answer.
RejectPendingUnanswered ==
  /\ OwnerGoto("reject", "exited") /\ ~lock
  /\ slot' = NoCall
  /\ UNCHANGED <<disk, lock, active, sched, flags, callVars, executed,
                 starts>>

RejectPending ==
  /\ OwnerGoto("reject", "exited") /\ ~lock
  /\ slot' = NoCall
  /\ IF slot = NoCall
     THEN UNCHANGED <<result, event>>
     ELSE /\ result' = [result EXCEPT ![slot] = "error"]
          /\ event' = [event EXCEPT ![slot] = TRUE]
  /\ UNCHANGED <<disk, lock, active, sched, flags, pc, req, cmd, cancelled,
                 executed, starts>>

-----------------------------------------------------------------------------
(* The process ends and is started again. *)

\* Threads die with the process: their clients see the connection close.
ProcessGone ==
  /\ owner' = "down"
  /\ lock' = FALSE
  /\ slot' = NoCall /\ active' = NoCall /\ sched' = FALSE
  /\ wake' = FALSE /\ wakeDue' = FALSE
  /\ shutdown' = FALSE /\ stop' = FALSE /\ intent' = "none"
  /\ pc' = [c \in Calls |-> IF Pending(c) THEN "lost" ELSE pc[c]]
  /\ UNCHANGED <<disk, window, req, cmd, result, event, cancelled, executed,
                 starts>>

ProcessExit == owner = "exited" /\ ProcessGone

Crash == ProcessUp /\ owner # "exited" /\ ProcessGone

Start ==
  /\ owner = "down" /\ starts < MaxStarts
  /\ owner' = "top"
  /\ window' = TRUE
  /\ starts' = starts + 1
  /\ UNCHANGED <<disk, lock, slot, active, sched, wake, wakeDue, shutdown,
                 stop, intent, callVars, executed>>

-----------------------------------------------------------------------------
CallStep(c) ==
  \/ Submit(c) \/ WakeOwner(c) \/ Answered(c) \/ Expire(c) \/ Withdraw(c)

AdmitStep ==
  \/ AdmitBegin \/ ValidateRejects \/ ValidateAccepts \/ DropOwned
  \/ RecordFails \/ Record \/ Ack \/ Refuse
  \/ AdmissionInterrupted \/ InterruptedLeaves \/ Dispatch

LoopStep ==
  \/ TopLeaves \/ TopContinues \/ StartupWait \/ StartupClear \/ Claim
  \/ Iterate \/ Release
  \/ WaitClear \/ WaitCheck \/ WaitRecheck \/ Woken \/ Close
  \/ RejectPending

OwnerStep == AdmitStep \/ LoopStep

EnvironmentStep ==
  \/ \E force \in BOOLEAN : LifecycleRequest(force)
  \/ Sigterm \/ Sigint \/ DeliverWake
  \/ PollTimeout \/ ProcessExit \/ Crash \/ Start

Next == (\E c \in Calls : CallStep(c)) \/ OwnerStep \/ EnvironmentStep

Spec == Init /\ [][Next]_vars

\* The owner thread and the threads that wake it are scheduled, and a
\* process whose owner returned exits.  Neither the poll interval nor a
\* client's admission timeout is assumed to end.
FairSpec ==
  /\ Spec
  /\ WF_vars(OwnerStep)
  /\ WF_vars(DeliverWake)
  /\ WF_vars(ProcessExit)
  /\ \A c \in Calls : WF_vars(WakeOwner(c)) /\ WF_vars(Answered(c))
                                            /\ WF_vars(Withdraw(c))

-----------------------------------------------------------------------------
(* Safety. *)

\* The owner has at most one thing in hand: a command in the slot, a command
\* it is admitting or dispatching, or a scheduler iteration.  A submission
\* never queues behind a worker run or behind another command
\* (_submit_operator_command's busy answers, _claim_owner_work).
OneOwnerWork ==
  /\ slot # NoCall => active = NoCall
  /\ sched => slot = NoCall /\ active = NoCall

\* What a client was told it can rely on after any crash: an acknowledged
\* request has a receipt with its own semantics, so a repetition of the id is
\* replayed and another use of it is refused.
AckedHasReceipt ==
  \A c \in Calls : pc[c] = "acked" => ReceiptMatches(c)

\* A drop is carried out before it is acknowledged, also when the
\* acknowledgement is a replay, a shared command or follows a crash.
AckedDropDone ==
  \A c \in Calls :
    pc[c] = "acked" /\ req[c].body \in Drops => req[c].body \in dropped

\* A request id is dispatched at most once, whatever is resubmitted, shared
\* between connections, timed out or interrupted by a crash.
DispatchedAtMostOnce ==
  \A i \in Ids : executed[i] <= 1 /\ (executed[i] = 1 => receipts[i] # NoBody)

\* When the loop has ended after setting _service_shutdown, on the orderly
\* path or by ShutdownInterrupted, no connection thread is left waiting for
\* a command that nobody will admit.
NobodyStrandedByShutdown ==
  owner = "exited" /\ shutdown =>
    /\ slot = NoCall
    /\ \A c \in Calls : pc[c] = "waiting" => event[cmd[c]]

\* Once a client's timeout has cancelled a command that is not admitted, the
\* owner never admits it (the cancelled checks of _admit_operator_command).
CancelledNeverAdmitted ==
  [][\A c \in Calls :
       cancelled[c] /\ result[c] # "ok" => result'[c] # "ok"]_vars

\* A lifecycle request accepted over IPC closes command admission at once:
\* request_lifecycle and _admit_operator_command exclude each other.  A
\* SIGTERM is not covered: its handler reenters the owner's lock.
NoAdmissionAfterIpcDrain ==
  [][receipts' # receipts => intent # "ipc"]_vars

-----------------------------------------------------------------------------
(* The inductive invariant of the proofs. *)

Locked == {"validate", "drop", "record"}
BeforeReceipt == {"admit"} \cup Locked
BeforeAnswer == BeforeReceipt \cup {"ack", "refuse", "interrupted"}
AfterAnswer == {"dispatch", "release", "leave"}

\* The owner's place decides what it has in hand and whether it holds the
\* command lock.
OwnerShape ==
  /\ lock <=> owner \in Locked
  /\ owner \in BeforeAnswer \cup {"dispatch"} => active # NoCall
  /\ active # NoCall => owner \in BeforeAnswer \cup AfterAnswer
  /\ owner = "iterate" => sched
  /\ sched => owner \in {"iterate", "release", "leave"}
  /\ owner = "leave" => sched \/ active # NoCall

\* What AdmitBegin saw of the cancellation and of the lifecycle intent stays
\* true while the lock is held.
LockedAdmission ==
  owner \in Locked => intent # "ipc" /\ ~cancelled[active]

\* A pending command has no receipt, and what the owner says of a command or
\* does with it follows the receipt.
ReceiptOrder ==
  /\ slot # NoCall => ~HasReceipt(slot)
  /\ owner \in BeforeReceipt => ~HasReceipt(active)
  /\ owner \in {"ack", "dispatch"} =>
       ReceiptMatches(active) /\ executed[req[active].id] = 0
  /\ \A c \in Calls : result[c] = "ok" => ReceiptMatches(c)

\* A drop's receipt follows the drop.
DropOrder ==
  /\ owner = "drop" => req[active].body \in Drops
  /\ owner = "record" /\ req[active].body \in Drops =>
       req[active].body \in dropped
  /\ \A i \in Ids : receipts[i] \in Drops => receipts[i] \in dropped

\* Everyone who waits, waits for a command that is pending, in the owner's
\* hands, or answered.
Waiters ==
  /\ \A c \in Calls : Pending(c) =>
       /\ cmd[c] \in Calls
       /\ SameRequest(c, cmd[c])
       /\ \/ cmd[c] = slot
          \/ cmd[c] = active /\ owner \in BeforeAnswer
          \/ event[cmd[c]]
  /\ owner \in AfterAnswer /\ active # NoCall => event[active]
  /\ owner = "reject" => shutdown
  /\ owner = "exited" /\ shutdown => slot = NoCall

\* Nobody is forgotten, nothing is dispatched twice, and what clients were
\* told is on disk, with all that the code relies on to keep it so: the
\* command lock excludes withdrawal and drain from an admission, one command
\* is in hand at a time, and its receipt is written once.
IInv ==
  /\ TypeOK
  /\ OneOwnerWork
  /\ OwnerShape
  /\ LockedAdmission
  /\ ReceiptOrder
  /\ AckedHasReceipt
  /\ DispatchedAtMostOnce
  /\ DropOrder
  /\ Waiters

-----------------------------------------------------------------------------
(* Liveness, under FairSpec. *)

\* No lost wake-up: a command in the slot is taken, withdrawn or rejected
\* without help of the poll interval (_wait_for_service_event clears the
\* event before it looks at the slot).
CommandTaken == slot # NoCall ~> slot = NoCall

\* Every client that waits is answered without help of its own timeout.
EveryCallAnswered == \A c \in Calls : pc[c] = "waiting" ~> pc[c] # "waiting"

\* An accepted stop, restart or abort ends the loop.
ServiceStops == (intent # "none" \/ stop) ~> owner \in {"exited", "down"}

=============================================================================
