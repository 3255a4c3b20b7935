-------------------------- MODULE ActionDispatcher --------------------------
(***************************************************************************)
(* The worker dispatcher (ActionWorkerDispatcher and its strict variant):  *)
(* workers that claim an intent, save started evidence, invoke the tool    *)
(* and finalize, over the tables of ActionFinalizer.                       *)
(*                                                                         *)
(* dispatch_once is split where it releases the database: claim, start,    *)
(* execute and finalize are separate steps, and a worker can die between   *)
(* any two of them.  It reads its clock before the claim and again after   *)
(* the tool returned; each reading may be any instant, so it is chosen at  *)
(* the step that uses it.                                                  *)
(***************************************************************************)
EXTENDS ActionFinalizer

ASSUME DispatcherAssumption == 0 \in Offsets

VARIABLES
  worker,       \* what each worker remembers of its current dispatch_once
  effects       \* the tool invocations the outside world has seen

dispatcherVars == <<outbox, traces, records, started, terminal, worker, effects>>

Idle(result) ==
  [phase |-> "idle", attempt |-> NULL, execution |-> NULL, result |-> result]

Busy(phase, s, execution) ==
  [phase |-> phase, attempt |-> s, execution |-> execution, result |-> NULL]

(* ToolExecutionResult; the delay counts for retryable failures only. *)
Execution(kind, result, delay) ==
  [kind |-> kind, result |-> result, delay |-> delay]

Succeeded == {Execution("succeeded", r, 0) : r \in Outcomes \cup OtherRecords}

Failed ==
  {Execution("permanent_failure", e, 0) : e \in ErrorCodes} \cup
  {Execution("retryable_failure", e, d) :
     e \in ErrorCodes, d \in {x \in RetryDelays : x > 0}}

(* The result of dispatch_once. *)
Report(status, t) == [status |-> status, terminal |-> t]

DispatcherInit ==
  /\ AttemptsInit
  /\ worker = [w \in Workers |-> Idle(NULL)]
  /\ effects = {}

-----------------------------------------------------------------------------
(* claim: the worker keeps what it needs to start the attempt it was given. *)
Claim(w) ==
  /\ worker[w].phase = "idle"
  /\ \E i \in Intents, now \in Instants, d \in LeaseTerms :
       LET n == outbox[i].attempt_count + 1
           s == [intent |-> i, number |-> n, worker |-> w,
                 lease_token |-> Token(i, n), started_at |-> now]
       IN  /\ ClaimIntent(i, w, now, d)
           /\ worker' = [worker EXCEPT ![w] = Busy("claimed", s, NULL)]
  /\ UNCHANGED <<started, terminal, effects>>

NoWork(w) ==
  /\ worker[w].phase = "idle"
  /\ \E now \in Instants : list_ready(now) = {}
  /\ worker' = [worker EXCEPT ![w] = Idle(Report("no_work", NULL))]
  /\ UNCHANGED <<vars, effects>>

FaultySaveStarted(w) ==
  /\ worker[w].phase = "claimed"
  /\ worker' = [worker EXCEPT ![w] = Busy("started", worker[w].attempt, NULL)]
  /\ UNCHANGED <<vars, effects>>

(* attempt_store.start with the instant of the claim as started_at. *)
SaveStarted(w) ==
  /\ worker[w].phase = "claimed"
  /\ Start(worker[w].attempt)
  /\ worker' = [worker EXCEPT ![w] = Busy("started", worker[w].attempt, NULL)]
  /\ UNCHANGED effects

FaultyFailClosed(w, x) ==
  /\ worker[w].phase = "started"
  /\ \E y \in Succeeded :
       worker' = [worker EXCEPT ![w] = Busy("executed", worker[w].attempt, y)]
  /\ UNCHANGED <<vars, effects>>

(* Unknown tool, unresolved input, hash mismatch, invalid input: no call. *)
FailClosed(w, x) ==
  /\ worker[w].phase = "started"
  /\ x \in Failed
  /\ worker' = [worker EXCEPT ![w] = Busy("executed", worker[w].attempt, x)]
  /\ UNCHANGED <<vars, effects>>

FaultyInvokeTool(w, x) ==
  /\ worker[w].phase = "started"
  /\ effects' = effects \cup {[attempt |-> worker[w].attempt, result |-> x.result]}
  /\ worker' = [worker EXCEPT ![w] = Busy("executed", worker[w].attempt, NULL)]
  /\ UNCHANGED vars

(***************************************************************************)
(* adapter.execute: the outside world sees the call.  An adapter that      *)
(* reports success should have persisted the outcome it names, which it    *)
(* may fail to do; a raised exception, a reported failure and, in the      *)
(* strict dispatcher, a malformed answer are failures.                     *)
(***************************************************************************)
InvokeTool(w, x) ==
  /\ worker[w].phase = "started"
  /\ effects' = effects \cup {[attempt |-> worker[w].attempt, result |-> x.result]}
  /\ \/ records' = records
     \/ x \in Succeeded /\ records' = records \cup {x.result}
  /\ worker' = [worker EXCEPT ![w] = Busy("executed", worker[w].attempt, x)]
  /\ UNCHANGED <<outbox, traces, started, terminal>>

(* _finalize: the terminal evidence of what the execution returned. *)
TerminalOf(w, status, now) ==
  [supersedes |-> worker[w].attempt, status |-> status, finished_at |-> now,
   result |-> worker[w].execution.result]

Finish(w, t, status) ==
  /\ worker[w].phase = "executed"
  /\ worker' = [worker EXCEPT ![w] = Idle(Report(status, t))]
  /\ UNCHANGED effects

FaultyFinishSuccess(w, now) ==
  /\ Finish(w, TerminalOf(w, "succeeded", now), "completed")
  /\ worker[w].execution.kind = "succeeded"
  /\ UNCHANGED vars

FinishSuccess(w, now) ==
  LET t == TerminalOf(w, "succeeded", now)
  IN  /\ Finish(w, t, "completed")
      /\ worker[w].execution.kind = "succeeded"
      /\ FinalizeSuccess(t)

FinishRetry(w, now) ==
  LET t == TerminalOf(w, "failed", now)
  IN  /\ Finish(w, t, "retry_scheduled")
      /\ worker[w].execution.kind = "retryable_failure"
      /\ FinalizeRetry(t, now + worker[w].execution.delay, 0)

FaultyFinishFailure(w, now) ==
  LET t == TerminalOf(w, "failed", now)
  IN  /\ Finish(w, t, "failed")
      /\ worker[w].execution.kind = "permanent_failure"
      /\ RecordTerminal(t)

FinishFailure(w, now) ==
  LET t == TerminalOf(w, "failed", now)
  IN  /\ Finish(w, t, "failed")
      /\ worker[w].execution.kind = "permanent_failure"
      /\ FinalizeFailure(t)

(***************************************************************************)
(* A crash, or any exception that leaves dispatch_once (a rejected start   *)
(* or finalization, a malformed adapter answer in the base dispatcher):    *)
(* the worker forgets everything and the lease is left to expire.          *)
(***************************************************************************)
Abandon(w) ==
  /\ worker[w].phase # "idle"
  /\ worker' = [worker EXCEPT ![w] = Idle(NULL)]
  /\ UNCHANGED <<vars, effects>>

(* The rest of the application, which never touches a lease. *)
ApplicationStep ==
  /\ \/ \E i \in Intents, t \in Instants : Enqueue(i, t)
     \/ \E r \in Outcomes \cup OtherRecords : DeleteRecord(r)
  /\ UNCHANGED <<started, terminal, worker, effects>>

WorkerStep(w) ==
  \/ Claim(w)
  \/ NoWork(w)
  \/ SaveStarted(w)
  \/ \E x \in Failed : FailClosed(w, x)
  \/ \E x \in Succeeded \cup Failed : InvokeTool(w, x)
  \/ \E now \in Instants :
       FinishSuccess(w, now) \/ FinishRetry(w, now) \/ FinishFailure(w, now)
  \/ Abandon(w)

DispatcherNext == ApplicationStep \/ \E w \in Workers : WorkerStep(w)

DispatcherSpec == DispatcherInit /\ [][DispatcherNext]_dispatcherVars

-----------------------------------------------------------------------------
Phases == {"idle", "claimed", "started", "executed"}

Effects ==
  [attempt : Started, result : Outcomes \cup OtherRecords \cup ErrorCodes]

DispatcherTypeOK ==
  /\ TypeOK
  /\ worker \in [Workers -> [phase : Phases, attempt : Started \cup {NULL},
                             execution : Succeeded \cup Failed \cup {NULL},
                             result : [status : {"no_work", "completed",
                                                 "retry_scheduled", "failed"},
                                       terminal : Terminal \cup {NULL}] \cup {NULL}]]
  /\ \A w \in Workers :
       /\ worker[w].phase # "idle" => worker[w].attempt \in Started
       /\ worker[w].phase = "executed" => worker[w].execution \in Succeeded \cup Failed
  /\ effects \subseteq Effects

(***************************************************************************)
(* The outside world never sees an undocumented call: whatever crashes,    *)
(* expires or is reclaimed in between, each tool invocation belongs to a   *)
(* started attempt that was saved before it, and no attempt is invoked a   *)
(* second time.                                                            *)
(***************************************************************************)
CallsAreDocumented ==
  /\ \A c \in effects : c.attempt \in started
  /\ \A c, d \in effects : c.attempt = d.attempt => c = d
  /\ \A w \in Workers :
       worker[w].phase = "started" => \A c \in effects : c.attempt # worker[w].attempt

(***************************************************************************)
(* No two workers ever hold the same attempt, and a worker that works on   *)
(* the attempt of the current lease is the owner of that lease.            *)
(***************************************************************************)
AttemptsAreExclusive ==
  /\ \A w, v \in Workers :
       /\ worker[w].phase # "idle" /\ worker[v].phase # "idle"
       /\ worker[w].attempt.lease_token = worker[v].attempt.lease_token
       => w = v
  /\ \A w \in Workers :
       worker[w].phase # "idle" =>
         LET s == worker[w].attempt
             row == outbox[s.intent]
         IN  /\ s.number <= row.attempt_count
             /\ row.status = "leased" /\ s.number = row.attempt_count =>
                  row.lease.owner = w

(***************************************************************************)
(* An intent is completed only with an outcome the tool itself returned,   *)
(* in the very attempt that is recorded as the successful one.             *)
(***************************************************************************)
CompletedByTheTool ==
  \A i \in Intents : outbox[i].status = "completed" =>
    [attempt |-> outbox[i].last_attempt_id.supersedes,
     result  |-> outbox[i].outcome_id] \in effects

(***************************************************************************)
(* What dispatch_once reported to its caller stays true: completed and     *)
(* failed are the last word on the intent, and the terminal attempt named  *)
(* in the report is in the store.                                          *)
(***************************************************************************)
ReportsHold ==
  \A w \in Workers : worker[w].result # NULL =>
    LET report == worker[w].result
    IN  /\ report.status # "no_work" => report.terminal \in terminal
        /\ report.status \in {"completed", "failed"} =>
             CommittedAs(report.terminal, report.status)

(***************************************************************************)
(* The dispatcher uses the finalizer and its tables as their contract      *)
(* allows, so whatever ActionFinalizer guarantees holds here.              *)
(***************************************************************************)
UsesFinalizer == FinalizerSpec

=============================================================================
