----------------------- MODULE ActionDispatcherProofs -----------------------
(***************************************************************************)
(* Proofs about ActionDispatcher: the dispatcher uses the finalizer and    *)
(* its tables as their contract allows, so IInv holds of its tables; with  *)
(* what each worker remembers of its attempt, DInv is inductive, for any   *)
(* sets of intents, workers and records and any readings of the clock.     *)
(***************************************************************************)
EXTENDS ActionDispatcher, ActionFinalizerProofs

Reports ==
  [status : {"no_work", "completed", "retry_scheduled", "failed"},
   terminal : Terminal \cup {NULL}]

WorkerStates ==
  [phase : Phases, attempt : Started \cup {NULL},
   execution : Succeeded \cup Failed \cup {NULL}, result : Reports \cup {NULL}]

(* A busy worker has an attempt of a lease that was granted to it. *)
Holding(w) ==
  worker[w].phase # "idle" =>
    LET s   == worker[w].attempt
        row == outbox[s.intent]
    IN  /\ s.intent \in Intents
        /\ s \in Starts(s.intent)
        /\ row.status = "leased" /\ s.number = row.attempt_count => row.lease.owner = w

(* How far it has come: what is saved, and whether the tool was called. *)
Progress(w) ==
  LET s == worker[w].attempt
      x == worker[w].execution
  IN  /\ worker[w].phase \in {"claimed", "started"} => \A c \in effects : c.attempt # s
      /\ worker[w].phase \in {"started", "executed"} => s \in started
      /\ worker[w].phase = "executed" =>
           /\ x \in Succeeded \cup Failed
           /\ x.kind = "succeeded" => [attempt |-> s, result |-> x.result] \in effects

(* No two busy workers have the same lease token. *)
Exclusive(w, v) ==
  /\ worker[w].phase # "idle" /\ worker[v].phase # "idle"
  /\ worker[w].attempt.lease_token = worker[v].attempt.lease_token
  => w = v

ReportHolds(w) ==
  worker[w].result # NULL =>
    LET report == worker[w].result
    IN  /\ report.status # "no_work" => report.terminal \in terminal
        /\ report.status \in {"completed", "failed"} =>
             CommittedAs(report.terminal, report.status)

EffectsDocumented ==
  /\ effects \subseteq Effects
  /\ \A c \in effects : c.attempt \in started
  /\ \A c, d \in effects : c.attempt = d.attempt => c = d

DInv ==
  /\ IInv
  /\ worker \in [Workers -> WorkerStates]
  /\ \A w \in Workers : Holding(w) /\ Progress(w) /\ ReportHolds(w)
  /\ \A w, v \in Workers : Exclusive(w, v)
  /\ EffectsDocumented
  /\ CompletedByTheTool

-----------------------------------------------------------------------------
(***************************************************************************)
(* What any step of the finalizer's specification leaves standing: attempt *)
(* numbers grow, a lease keeps its owner until the next one, settled rows  *)
(* and evidence stay, and a row is completed with new evidence only.       *)
(***************************************************************************)
Advances(i) ==
  /\ outbox[i].attempt_count \in Nat /\ outbox'[i].attempt_count \in Nat
  /\ outbox[i].attempt_count <= outbox'[i].attempt_count
  /\ outbox'[i].status = "leased" /\ outbox'[i].attempt_count = outbox[i].attempt_count =>
       outbox[i].status = "leased" /\ outbox'[i].lease = outbox[i].lease
  /\ outbox[i].status \in {"completed", "failed"} => outbox'[i] = outbox[i]
  /\ outbox'[i].status = "completed" =>
       outbox[i].status = "completed" \/ terminal' # terminal

TablesAdvance ==
  /\ \A i \in Intents : Advances(i)
  /\ started \subseteq started' /\ terminal \subseteq terminal'

LEMMA StepsAdvance ==
  ASSUME IInv, [FinalizerNext]_vars
  PROVE  TablesAdvance
<1>0. TypeOK /\ StepOf
  BY StepCases DEF IInv
<1>1. \A i \in Intents : outbox[i] \in Row /\ outbox[i].attempt_count \in Nat
  BY <1>0 DEF TypeOK, Row
<1>2. ASSUME UNCHANGED outbox, started \subseteq started', terminal \subseteq terminal'
      PROVE  TablesAdvance
  BY <1>1, <1>2 DEF TablesAdvance, Advances
<1>3. ASSUME NEW j \in Intents, NEW a \in Instants, Enqueue(j, a), UNCHANGED attemptVars
      PROVE  TablesAdvance
  <2> DEFINE row == [NoRow EXCEPT !.status = "pending", !.available_at = Utc(a)]
  <2>1. row.status = "pending" /\ row.attempt_count = 0
    BY DEF NoRow
  <2>2. outbox[j].status = "absent" => outbox[j].attempt_count = 0
    BY DEF IInv, EvidenceAgrees
  <2>3. \A i \in Intents : outbox'[i] = outbox[i] \/ (i = j /\ outbox[i].status = "absent" /\ outbox'[i] = row)
    BY <1>0, <1>3 DEF Enqueue, TypeOK
  <2> HIDE DEF row
  <2> QED
    BY <1>1, <1>3, <2>1, <2>2, <2>3 DEF TablesAdvance, Advances, attemptVars
<1>4. ASSUME NEW j \in Intents, NEW w \in Workers, NEW now \in Instants,
             NEW d \in LeaseTerms, ClaimIntent(j, w, now, d), UNCHANGED attemptVars
      PROVE  TablesAdvance
  <2>1. /\ UNCHANGED <<started, terminal>>
        /\ Ready(j, now)
        /\ \A k \in Intents : k # j => outbox'[k] = outbox[k]
        /\ outbox'[j].status = "leased"
        /\ outbox'[j].attempt_count = outbox[j].attempt_count + 1
    BY <1>0, <1>4, ClaimFacts
  <2>2. outbox[j].status \notin {"completed", "failed"}
    BY <2>1 DEF Ready
  <2>3. Advances(j)
    BY <1>1, <2>1, <2>2 DEF TablesAdvance, Advances
  <2> QED
    BY <1>1, <2>1, <2>3 DEF TablesAdvance, Advances
<1>5. ASSUME NEW t \in Terminal, NEW row \in Row, Finalizes(t, row)
      PROVE  TablesAdvance
  <2>1. /\ t.supersedes.intent \in Intents
        /\ outbox[t.supersedes.intent].status = "leased"
        /\ outbox[t.supersedes.intent].attempt_count = NumberOf(t)
        /\ outbox' = [outbox EXCEPT ![t.supersedes.intent] = row]
        /\ terminal' = terminal \cup {t}
        /\ row.status \in {"pending", "completed", "failed"}
        /\ row.attempt_count = NumberOf(t)
    BY <1>0, <1>5, FinalizationStep
  <2>2. t \notin terminal /\ started' = started
    BY <1>5 DEF Finalizes, Commit
  <2>3. \A i \in Intents : i # t.supersedes.intent => outbox'[i] = outbox[i]
    BY <2>1
  <2>4. outbox'[t.supersedes.intent] = row
    BY <1>0, <2>1 DEF TypeOK
  <2>5. Advances(t.supersedes.intent)
    BY <1>1, <2>1, <2>2, <2>4 DEF TablesAdvance, Advances
  <2> QED
    BY <1>1, <2>1, <2>2, <2>3, <2>5 DEF TablesAdvance, Advances
<1>6. CASE UNCHANGED vars
  BY <1>2, <1>6 DEF vars
<1>7. ASSUME NEW r \in Outcomes \cup OtherRecords, SaveRecord(r), UNCHANGED attemptVars
      PROVE  TablesAdvance
  BY <1>2, <1>7 DEF SaveRecord, attemptVars
<1>8. ASSUME NEW r \in Outcomes \cup OtherRecords, DeleteRecord(r), UNCHANGED attemptVars
      PROVE  TablesAdvance
  BY <1>2, <1>8 DEF DeleteRecord, attemptVars
<1>9. ASSUME NEW i \in Intents, NEW s \in Starts(i), Start(s)
      PROVE  TablesAdvance
  BY <1>2, <1>9 DEF Start
<1> QED
  BY <1>0, <1>3, <1>4, <1>5, <1>6, <1>7, <1>8, <1>9 DEF StepOf

-----------------------------------------------------------------------------
(***************************************************************************)
(* How a worker's call of the finalizer ends: its report names evidence    *)
(* that is in the store, a final verdict is that of the row, and a row is  *)
(* completed by a success of this worker only.                             *)
(***************************************************************************)
Ends(w, t, status) ==
  /\ worker[w].phase = "executed"
  /\ worker' = [worker EXCEPT ![w] = Idle(Report(status, t))]
  /\ effects' = effects
  /\ [FinalizerNext]_vars
  /\ started' = started
  /\ status \in {"completed", "retry_scheduled", "failed"}
  /\ t \in Terminal /\ t \in terminal'
  /\ status \in {"completed", "failed"} => CommittedAs(t, status)'
  /\ status = "completed" =>
       /\ t.supersedes = worker[w].attempt
       /\ worker[w].execution.kind = "succeeded"
       /\ t.result = worker[w].execution.result
  /\ \A i \in Intents : outbox'[i].status = "completed" =>
       outbox[i].status = "completed" \/ (status = "completed" /\ i = t.supersedes.intent)

(* What the execution of a worker can be. *)
LEMMA ExecutionTypes ==
  ASSUME NEW x \in Succeeded \cup Failed
  PROVE  /\ x.kind = "succeeded" => x.result \in Outcomes \cup OtherRecords
         /\ x.kind # "succeeded" => x.result \in ErrorCodes
         /\ x.kind = "retryable_failure" => x.delay \in RetryDelays
         /\ x \in Succeeded => x.kind = "succeeded"
         /\ x \in Failed => x.kind # "succeeded"
BY DEF Succeeded, Failed, Execution

(* A row that a commit has written is the row that a commit leaves. *)
LEMMA CommitLeaves ==
  ASSUME TypeOK, NEW t \in Terminal, t.supersedes.intent \in Intents,
         NEW row, Commit(t, row)
  PROVE  /\ t \in terminal' /\ started' = started
         /\ outbox'[t.supersedes.intent] = row
         /\ \A i \in Intents : i # t.supersedes.intent => outbox'[i] = outbox[i]
BY DEF Commit, TypeOK

LEMMA SuccessEnds ==
  ASSUME DInv, NEW w \in Workers, NEW now \in Instants, FinishSuccess(w, now)
  PROVE  \E t \in Terminal : Ends(w, t, "completed")
<1> DEFINE s == worker[w].attempt
           x == worker[w].execution
<1>1. /\ worker[w].phase = "executed" /\ x.kind = "succeeded"
      /\ effects' = effects
  BY DEF FinishSuccess, Finish
<1>2. TypeOK /\ s \in started /\ x \in Succeeded \cup Failed
  BY <1>1 DEF DInv, IInv, Progress
<1>3. s \in Started /\ s.intent \in Intents /\ now \in Nat
  BY <1>2, OutboxAssumption DEF TypeOK, Started
<1>4. x.result \in Outcomes \cup OtherRecords
  BY <1>1, <1>2, ExecutionTypes
<1>5. PICK t \in Terminal :
        /\ t = TerminalOf(w, "succeeded", now) /\ t \in Successes(s) /\ t.supersedes = s
        /\ t.status = "succeeded" /\ t.result = x.result
  <2> DEFINE t == TerminalOf(w, "succeeded", now)
  <2>1. /\ t \in Terminal /\ t \in Successes(s) /\ t.supersedes = s
        /\ t.status = "succeeded" /\ t.result = x.result
    BY <1>3, <1>4 DEF TerminalOf, Terminal, Successes
  <2> QED
    BY <2>1
<1>6. /\ worker' = [worker EXCEPT ![w] = Idle(Report("completed", t))]
      /\ FinalizeSuccess(t)
  BY <1>5 DEF FinishSuccess, Finish
<1>7. [FinalizerNext]_vars
  BY <1>2, <1>5, <1>6 DEF FinalizerNext
<1>8. CASE Commit(t, CompletedRow(t))
  <2>1. /\ CompletedRow(t).status = "completed" /\ CompletedRow(t).outcome_id = t.result
        /\ CompletedRow(t).last_attempt_id = t
    BY <1>2, <1>4, <1>5, FinalRows DEF Repeats
  <2>2. /\ t \in terminal' /\ started' = started
        /\ outbox'[s.intent] = CompletedRow(t)
        /\ \A i \in Intents : i # s.intent => outbox'[i] = outbox[i]
    BY <1>2, <1>3, <1>5, <1>8, CommitLeaves
  <2>3. CommittedAs(t, "completed")'
    BY <1>5, <2>1, <2>2 DEF CommittedAs
  <2> QED
    BY <1>1, <1>5, <1>6, <1>7, <2>2, <2>3 DEF Ends
<1>9. CASE CommittedAs(t, "completed") /\ UNCHANGED vars
  <2>1. UNCHANGED <<outbox, started, terminal>> /\ t \in terminal
    BY <1>9 DEF CommittedAs, vars
  <2>2. CommittedAs(t, "completed")'
    BY <1>9, <2>1 DEF CommittedAs
  <2> QED
    BY <1>1, <1>5, <1>6, <1>7, <2>1, <2>2 DEF Ends
<1> QED
  BY <1>6, <1>8, <1>9 DEF FinalizeSuccess

LEMMA FailureEnds ==
  ASSUME DInv, NEW w \in Workers, NEW now \in Instants,
         FinishFailure(w, now) \/ FinishRetry(w, now)
  PROVE  \E t \in Terminal, status \in {"failed", "retry_scheduled"} : Ends(w, t, status)
<1> DEFINE s == worker[w].attempt
           x == worker[w].execution
           stamp == RetryStamp(now + x.delay, 0)
<1>1. worker[w].phase = "executed" /\ effects' = effects /\ x.kind # "succeeded"
  BY DEF FinishFailure, FinishRetry, Finish
<1>2. TypeOK /\ s \in started /\ x \in Succeeded \cup Failed
  BY <1>1 DEF DInv, IInv, Progress
<1>3. s \in Started /\ s.intent \in Intents /\ now \in Nat
  BY <1>2, OutboxAssumption DEF TypeOK, Started
<1>4. x.result \in ErrorCodes
  BY <1>1, <1>2, ExecutionTypes
<1>5. PICK t \in Terminal :
        /\ t = TerminalOf(w, "failed", now) /\ t \in Failures(s) /\ t.supersedes = s
        /\ t.status = "failed" /\ t.result = x.result /\ t.finished_at = now
  <2> DEFINE t == TerminalOf(w, "failed", now)
  <2>1. /\ t \in Terminal /\ t \in Failures(s) /\ t.supersedes = s
        /\ t.status = "failed" /\ t.result = x.result /\ t.finished_at = now
    BY <1>3, <1>4 DEF TerminalOf, Terminal, Failures
  <2> QED
    BY <2>1
<1> HIDE DEF x
<1>6. ASSUME FinishFailure(w, now) PROVE Ends(w, t, "failed")
  <2>1. /\ worker' = [worker EXCEPT ![w] = Idle(Report("failed", t))]
        /\ FinalizeFailure(t)
    BY <1>5, <1>6 DEF FinishFailure, Finish
  <2>2. [FinalizerNext]_vars
    BY <1>2, <1>5, <2>1 DEF FinalizerNext
  <2>3. CASE Commit(t, FailedRow(t))
    <3>1. outbox[s.intent] \in Row
      BY <1>2, <1>3 DEF TypeOK
    <3>2. /\ FailedRow(t).status = "failed" /\ FailedRow(t).last_error_code = t.result
          /\ FailedRow(t).last_attempt_id = t
      BY <1>5, <3>1 DEF FailedRow, Released, Row
    <3>3. /\ t \in terminal' /\ started' = started
          /\ outbox'[s.intent] = FailedRow(t)
          /\ \A i \in Intents : i # s.intent => outbox'[i] = outbox[i]
      BY <1>2, <1>3, <1>5, <2>3, CommitLeaves
    <3>4. CommittedAs(t, "failed")'
      BY <1>5, <3>2, <3>3 DEF CommittedAs
    <3> QED
      BY <1>1, <1>5, <2>1, <2>2, <3>2, <3>3, <3>4 DEF Ends
  <2>4. CASE CommittedAs(t, "failed") /\ UNCHANGED vars
    <3>1. UNCHANGED <<outbox, started, terminal>> /\ t \in terminal
      BY <2>4 DEF CommittedAs, vars
    <3>2. CommittedAs(t, "failed")'
      BY <2>4, <3>1 DEF CommittedAs
    <3> QED
      BY <1>1, <1>5, <2>1, <2>2, <3>1, <3>2 DEF Ends
  <2> QED
    BY <2>1, <2>3, <2>4 DEF FinalizeFailure
<1>7. ASSUME FinishRetry(w, now) PROVE Ends(w, t, "retry_scheduled")
  <2>1. /\ worker' = [worker EXCEPT ![w] = Idle(Report("retry_scheduled", t))]
        /\ x.kind = "retryable_failure"
        /\ FinalizeRetry(t, now + x.delay, 0)
    BY <1>5, <1>7 DEF FinishRetry, Finish, x
  <2>2. x.delay \in RetryDelays
    BY <1>2, <2>1, ExecutionTypes
  <2>3. [FinalizerNext]_vars
    BY <1>2, <1>5, <2>1, <2>2, DispatcherAssumption DEF FinalizerNext
  <2>4. CASE Commit(t, RetryRow(t, stamp))
    <3>1. outbox[s.intent] \in Row
      BY <1>2, <1>3 DEF TypeOK
    <3>2. RetryRow(t, stamp).status = "pending"
      BY <1>5, <3>1 DEF RetryRow, Released, Row
    <3>3. /\ t \in terminal' /\ started' = started
          /\ outbox'[s.intent] = RetryRow(t, stamp)
          /\ \A i \in Intents : i # s.intent => outbox'[i] = outbox[i]
      BY <1>2, <1>3, <1>5, <2>4, CommitLeaves
    <3> QED
      BY <1>1, <1>5, <2>1, <2>3, <3>2, <3>3 DEF Ends
  <2>5. CASE CommittedAs(t, "pending") /\ UNCHANGED vars
    BY <1>1, <1>5, <2>1, <2>3, <2>5 DEF Ends, CommittedAs, vars
  <2> QED
    BY <2>1, <2>4, <2>5 DEF FinalizeRetry
<1> QED
  BY <1>6, <1>7

-----------------------------------------------------------------------------
(* A busy worker's attempt is a started record, of a token granted before. *)
LEMMA HeldAttempts ==
  ASSUME DInv, NEW w \in Workers, worker[w].phase # "idle"
  PROVE  LET s == worker[w].attempt
         IN  /\ s \in Started /\ s.intent \in Intents /\ s \in Starts(s.intent)
             /\ \E m \in 1..outbox[s.intent].attempt_count :
                  s.lease_token = Token(s.intent, m)
<1> DEFINE s == worker[w].attempt
<1>1. s.intent \in Intents /\ s \in Starts(s.intent)
  BY DEF DInv, Holding
<1>2. s \in Started
  BY <1>1, StartTypes DEF DInv, IInv
<1> QED
  BY <1>1, <1>2 DEF Starts, Tokens

(* The dispatcher takes only the steps its tables' contract allows. *)
LEMMA StepUsesFinalizer ==
  ASSUME DInv, [DispatcherNext]_dispatcherVars
  PROVE  [FinalizerNext]_vars
<1>1. CASE UNCHANGED dispatcherVars
  BY <1>1 DEF dispatcherVars, vars
<1>2. CASE ApplicationStep
  BY <1>2 DEF ApplicationStep, FinalizerNext, OutboxStep, attemptVars
<1>3. ASSUME NEW w \in Workers, Claim(w) PROVE [FinalizerNext]_vars
  BY <1>3 DEF Claim, FinalizerNext, OutboxStep, attemptVars
<1>4. ASSUME NEW w \in Workers, SaveStarted(w) PROVE [FinalizerNext]_vars
  <2>1. worker[w].attempt.intent \in Intents
        /\ worker[w].attempt \in Starts(worker[w].attempt.intent)
    BY <1>4, HeldAttempts DEF SaveStarted
  <2> QED
    BY <1>4, <2>1 DEF SaveStarted, FinalizerNext
<1>5. ASSUME NEW w \in Workers, NEW x \in Succeeded \cup Failed, InvokeTool(w, x)
      PROVE  [FinalizerNext]_vars
  <2>1. CASE records' = records
    BY <1>5, <2>1 DEF InvokeTool, vars
  <2>2. CASE x \in Succeeded /\ records' = records \cup {x.result}
    <3>1. x.result \in Outcomes \cup OtherRecords
      BY <2>2, ExecutionTypes
    <3>2. CASE x.result \in records
      BY <1>5, <2>2, <3>2 DEF InvokeTool, vars
    <3>3. CASE x.result \notin records
      BY <1>5, <2>2, <3>1, <3>3 DEF InvokeTool, SaveRecord, FinalizerNext, OutboxStep, attemptVars
    <3> QED
      BY <3>2, <3>3
  <2> QED
    BY <1>5, <2>1, <2>2 DEF InvokeTool
<1>6. ASSUME NEW w \in Workers, NEW now \in Instants,
             FinishSuccess(w, now) \/ FinishRetry(w, now) \/ FinishFailure(w, now)
      PROVE  [FinalizerNext]_vars
  BY <1>6, SuccessEnds, FailureEnds DEF Ends
<1>7. ASSUME NEW w \in Workers,
             NoWork(w) \/ Abandon(w) \/ \E x \in Failed : FailClosed(w, x)
      PROVE  [FinalizerNext]_vars
  BY <1>7 DEF NoWork, Abandon, FailClosed, vars
<1> QED
  BY <1>1, <1>2, <1>3, <1>4, <1>5, <1>6, <1>7 DEF DispatcherNext, WorkerStep

(* Who does not move keeps what it holds, and its report stays true. *)
LEMMA OthersKeep ==
  ASSUME DInv, TablesAdvance, NEW v \in Workers, worker'[v] = worker[v],
         effects \subseteq effects',
         worker[v].phase # "idle" =>
           \A c \in effects' \ effects : c.attempt # worker[v].attempt
  PROVE  (Holding(v) /\ Progress(v) /\ ReportHolds(v))'
<1>1. Holding(v)'
  <2> SUFFICES ASSUME worker[v].phase # "idle"
               PROVE  Holding(v)'
    BY DEF Holding
  <2> DEFINE s == worker[v].attempt
             row == outbox[s.intent]
  <2>1. /\ s.intent \in Intents /\ s \in Starts(s.intent)
        /\ row.status = "leased" /\ s.number = row.attempt_count => row.lease.owner = v
    BY DEF DInv, Holding
  <2>2. Advances(s.intent)
    BY <2>1 DEF TablesAdvance
  <2>3. Tokens(s.intent) \subseteq Tokens(s.intent)'
    BY <2>2 DEF Advances, Tokens, Token
  <2>4. s \in Starts(s.intent)'
    BY <2>1, <2>2, <2>3 DEF Starts, Advances
  <2>5. s.number \in 1..row.attempt_count
    BY <2>1 DEF Starts
  <2>6. outbox'[s.intent].status = "leased" /\ s.number = outbox'[s.intent].attempt_count =>
          outbox'[s.intent].lease.owner = v
    BY <2>1, <2>2, <2>5 DEF Advances
  <2> QED
    BY <2>1, <2>4, <2>6 DEF Holding
<1>2. Progress(v)'
  BY DEF DInv, TablesAdvance, Progress
<1>3. ReportHolds(v)'
  <2> SUFFICES ASSUME worker[v].result # NULL
               PROVE  ReportHolds(v)'
    BY DEF ReportHolds
  <2> DEFINE report == worker[v].result
  <2>1. report.status # "no_work" => report.terminal \in terminal'
    BY DEF DInv, ReportHolds, TablesAdvance
  <2>2. ASSUME report.status \in {"completed", "failed"}
        PROVE  /\ CommittedAs(report.terminal, report.status)
               /\ outbox'[report.terminal.supersedes.intent] =
                    outbox[report.terminal.supersedes.intent]
    <3>1. report.terminal \in terminal /\ CommittedAs(report.terminal, report.status)
      BY <2>2 DEF DInv, ReportHolds
    <3>2. report.terminal.supersedes.intent \in Intents
      BY <3>1 DEF DInv, IInv, TypeOK, Terminal, Started
    <3> QED
      BY <2>2, <3>1, <3>2 DEF TablesAdvance, Advances, CommittedAs
  <2>3. report.status \in {"completed", "failed"} =>
          /\ report.terminal \in terminal'
          /\ CommittedAs(report.terminal, report.status)'
    BY <2>1, <2>2 DEF CommittedAs
  <2> QED
    BY <2>1, <2>3 DEF ReportHolds
<1> QED
  BY <1>1, <1>2, <1>3

(* Without new evidence no row is completed. *)
LEMMA NoneCompleted ==
  ASSUME DInv, TablesAdvance, terminal' = terminal, effects \subseteq effects'
  PROVE  CompletedByTheTool'
BY DEF DInv, TablesAdvance, Advances, CompletedByTheTool

(* Documented calls stay so as evidence is only added. *)
LEMMA DocumentsStay ==
  ASSUME DInv, TablesAdvance, effects' = effects
  PROVE  EffectsDocumented'
BY DEF DInv, TablesAdvance, EffectsDocumented, Effects, Started

(* What is left to show of a step of one worker. *)
LEMMA WorkerMoves ==
  ASSUME DInv, IInv', TablesAdvance,
         NEW w \in Workers, NEW new \in WorkerStates,
         worker' = [worker EXCEPT ![w] = new],
         (Holding(w) /\ Progress(w) /\ ReportHolds(w))',
         \A v \in Workers : v # w => (Exclusive(w, v) /\ Exclusive(v, w))',
         effects \subseteq effects',
         \A c \in effects' \ effects : \A v \in Workers :
           v # w /\ worker[v].phase # "idle" => c.attempt # worker[v].attempt,
         EffectsDocumented', CompletedByTheTool'
  PROVE  DInv'
<1>1. worker' \in [Workers -> WorkerStates]'
  <2>1. worker' \in [Workers -> WorkerStates]
    BY DEF DInv
  <2> QED
    BY <2>1 DEF WorkerStates, Phases, Started, Succeeded, Failed, Reports, Terminal, Execution
<1>2. \A v \in Workers : v # w => worker'[v] = worker[v]
  BY DEF DInv
<1>3. \A v \in Workers : (Holding(v) /\ Progress(v) /\ ReportHolds(v))'
  BY <1>2, OthersKeep
<1>4. \A u, v \in Workers : Exclusive(u, v)'
  <2>1. ASSUME NEW u \in Workers, NEW v \in Workers, u # w, v # w
        PROVE  Exclusive(u, v)'
    BY <1>2, <2>1 DEF DInv, Exclusive
  <2>2. Exclusive(w, w)'
    BY DEF Exclusive
  <2> QED
    BY <2>1, <2>2
<1> QED
  BY <1>1, <1>3, <1>4 DEF DInv

-----------------------------------------------------------------------------
(* A worker that becomes or stays idle, with nothing to report. *)
LEMMA RestsKeepDInv ==
  ASSUME DInv, IInv', TablesAdvance, NEW w \in Workers,
         NEW report \in {NULL, Report("no_work", NULL)},
         worker' = [worker EXCEPT ![w] = Idle(report)], UNCHANGED <<effects, terminal>>
  PROVE  DInv'
<1>1. Idle(report) \in WorkerStates /\ Idle(report).phase = "idle"
  BY DEF Idle, WorkerStates, Phases, Reports, Report
<1>2. worker'[w] = Idle(report)
  BY DEF DInv
<1>3. (Holding(w) /\ Progress(w))'
  BY <1>1, <1>2 DEF Holding, Progress
<1>4. ReportHolds(w)'
  BY <1>2 DEF ReportHolds, Idle, Report
<1>5. \A v \in Workers : (Exclusive(w, v) /\ Exclusive(v, w))'
  BY <1>1, <1>2 DEF Exclusive
<1>6. EffectsDocumented' /\ CompletedByTheTool'
  BY DocumentsStay, NoneCompleted
<1> QED
  BY <1>1, <1>3, <1>4, <1>5, <1>6, WorkerMoves

(* A claim hands out a token and a number that nobody has. *)
LEMMA ClaimKeepsDInv ==
  ASSUME DInv, IInv', TablesAdvance, NEW w \in Workers, Claim(w)
  PROVE  DInv'
<1>1. PICK i \in Intents, now \in Instants, d \in LeaseTerms :
        LET n == outbox[i].attempt_count + 1
            s == [intent |-> i, number |-> n, worker |-> w,
                  lease_token |-> Token(i, n), started_at |-> now]
        IN  /\ ClaimIntent(i, w, now, d)
            /\ worker' = [worker EXCEPT ![w] = Busy("claimed", s, NULL)]
  BY DEF Claim
<1> DEFINE n == outbox[i].attempt_count + 1
           s == [intent |-> i, number |-> n, worker |-> w,
                 lease_token |-> Token(i, n), started_at |-> now]
           new == Busy("claimed", s, NULL)
<1>2. /\ worker' = [worker EXCEPT ![w] = new] /\ ClaimIntent(i, w, now, d)
      /\ UNCHANGED <<started, terminal, effects>> /\ worker[w].phase = "idle"
  BY <1>1 DEF Claim
<1>3. /\ outbox[i].attempt_count \in Nat
      /\ outbox'[i].attempt_count = n /\ outbox'[i].lease.owner = w
      /\ i \in Nat /\ now \in Nat
  BY <1>2, ClaimFacts, OutboxAssumption DEF DInv, IInv, attemptVars
<1>4. n \in Nat \ {0} /\ Token(i, n) \in Nat \X Nat
  BY <1>3 DEF Token
<1>5. s \in Started
  BY <1>3, <1>4 DEF Started
<1>6. Token(i, n) \in Tokens(i)' /\ n \in 1..(outbox'[i].attempt_count)
  BY <1>3, <1>4 DEF Tokens, Token
<1>7. s \in Starts(i)'
  BY <1>6 DEF Starts
<1>8. \A c \in effects : c.attempt # s
  <2>1. \A c \in effects :
          c.attempt \in started /\ c.attempt.number \in 1..outbox[c.attempt.intent].attempt_count
    BY DEF DInv, EffectsDocumented, IInv, OneChainPerLease
  <2>2. s.intent = i /\ s.number = n
    OBVIOUS
  <2> HIDE DEF s
  <2> QED
    BY <1>3, <2>1, <2>2
<1>9. \A v \in Workers : worker[v].phase # "idle" =>
        worker[v].attempt.lease_token # s.lease_token
  <2> SUFFICES ASSUME NEW v \in Workers, worker[v].phase # "idle"
               PROVE  worker[v].attempt.lease_token # Token(i, n)
    OBVIOUS
  <2>1. PICK m \in 1..outbox[worker[v].attempt.intent].attempt_count :
          worker[v].attempt.lease_token = Token(worker[v].attempt.intent, m)
    BY HeldAttempts
  <2> QED
    BY <1>3, <2>1 DEF Token
<1> HIDE DEF s, n
<1>10. /\ new \in WorkerStates /\ new.phase = "claimed" /\ new.attempt = s
       /\ new.result = NULL
  BY <1>5 DEF Busy, WorkerStates, Phases
<1>11. worker'[w] = new
  BY <1>2 DEF DInv
<1>12. \A v \in Workers : v # w => worker'[v] = worker[v]
  BY <1>2 DEF DInv
<1> HIDE DEF new
<1>13. Holding(w)'
  <2>1. s.intent = i
    BY DEF s
  <2> QED
    BY <1>3, <1>7, <1>10, <1>11, <2>1 DEF Holding
<1>14. (Progress(w) /\ ReportHolds(w))'
  BY <1>2, <1>8, <1>10, <1>11 DEF Progress, ReportHolds
<1>15. \A v \in Workers : v # w => (Exclusive(w, v) /\ Exclusive(v, w))'
  BY <1>9, <1>10, <1>11, <1>12 DEF Exclusive
<1>16. EffectsDocumented' /\ CompletedByTheTool'
  BY <1>2, DocumentsStay, NoneCompleted
<1> QED
  BY <1>2, <1>10, <1>13, <1>14, <1>15, <1>16, WorkerMoves

(* From one step to the next a worker keeps its attempt. *)
LEMMA GoesOn ==
  ASSUME DInv, TablesAdvance, NEW w \in Workers, worker[w].phase # "idle",
         NEW phase \in Phases \ {"idle"}, NEW x,
         worker' = [worker EXCEPT ![w] = Busy(phase, worker[w].attempt, x)]
  PROVE  /\ worker'[w] = Busy(phase, worker[w].attempt, x)
         /\ worker[w].attempt \in Started
         /\ Holding(w)' /\ ReportHolds(w)'
         /\ \A v \in Workers : v # w => (Exclusive(w, v) /\ Exclusive(v, w))'
<1> DEFINE s == worker[w].attempt
           row == outbox[s.intent]
<1>1. worker'[w] = Busy(phase, s, x) /\ \A v \in Workers : v # w => worker'[v] = worker[v]
  BY DEF DInv
<1>2. worker'[w].attempt = s /\ worker'[w].phase # "idle" /\ worker'[w].result = NULL
  BY <1>1 DEF Busy
<1>3. s \in Started /\ s.intent \in Intents /\ s \in Starts(s.intent)
  BY HeldAttempts
<1>4. Advances(s.intent)
  BY <1>3 DEF TablesAdvance
<1>5. Tokens(s.intent) \subseteq Tokens(s.intent)'
  BY <1>4, <1>2 DEF Advances, Tokens, Token
<1>6. s \in Starts(s.intent)'
  BY <1>3, <1>4, <1>5, <1>2 DEF Starts, Advances
<1>7. outbox'[s.intent].status = "leased" /\ s.number = outbox'[s.intent].attempt_count =>
        outbox'[s.intent].lease.owner = w
  <2>1. row.status = "leased" /\ s.number = row.attempt_count => row.lease.owner = w
    BY DEF DInv, Holding
  <2>2. s.number \in 1..row.attempt_count
    BY <1>3 DEF Starts
  <2> QED
    BY <1>4, <2>1, <2>2 DEF Advances
<1>8. Holding(w)' /\ ReportHolds(w)'
  BY <1>3, <1>6, <1>7, <1>2 DEF Holding, ReportHolds
<1>9. \A v \in Workers : v # w => (Exclusive(w, v) /\ Exclusive(v, w))'
  BY <1>1, <1>2 DEF DInv, Exclusive
<1> QED
  BY <1>1, <1>3, <1>8, <1>9

LEMMA StartKeepsDInv ==
  ASSUME DInv, IInv', TablesAdvance, NEW w \in Workers, SaveStarted(w)
  PROVE  DInv'
<1> DEFINE s == worker[w].attempt
           new == Busy("started", s, NULL)
<1>1. /\ worker[w].phase = "claimed" /\ worker' = [worker EXCEPT ![w] = new]
      /\ UNCHANGED <<terminal, effects>> /\ s \in started'
  BY DEF SaveStarted, Start
<1>2. /\ worker'[w] = new /\ s \in Started /\ Holding(w)' /\ ReportHolds(w)'
      /\ \A v \in Workers : v # w => (Exclusive(w, v) /\ Exclusive(v, w))'
  BY <1>1, GoesOn DEF Phases
<1>3. new \in WorkerStates /\ new.phase = "started" /\ new.attempt = s
  BY <1>2 DEF Busy, WorkerStates, Phases
<1>4. \A c \in effects : c.attempt # s
  BY <1>1 DEF DInv, Progress
<1>5. Progress(w)'
  BY <1>1, <1>2, <1>3, <1>4 DEF Progress
<1>6. EffectsDocumented' /\ CompletedByTheTool'
  BY <1>1, DocumentsStay, NoneCompleted
<1> QED
  BY <1>1, <1>2, <1>3, <1>5, <1>6, WorkerMoves

(* With a call or without, a worker that executed knows what came of it. *)
LEMMA ExecutionKeepsDInv ==
  ASSUME DInv, IInv', TablesAdvance, NEW w \in Workers, NEW x \in Succeeded \cup Failed,
         InvokeTool(w, x) \/ (x \in Failed /\ FailClosed(w, x))
  PROVE  DInv'
<1> DEFINE s == worker[w].attempt
           new == Busy("executed", s, x)
           call == [attempt |-> s, result |-> x.result]
<1>1. /\ worker[w].phase = "started" /\ worker' = [worker EXCEPT ![w] = new]
      /\ UNCHANGED <<started, terminal>>
      /\ effects' = effects \cup {call} \/ (effects' = effects /\ x \in Failed)
  BY DEF InvokeTool, FailClosed, vars
<1>2. /\ worker'[w] = new /\ s \in Started /\ Holding(w)' /\ ReportHolds(w)'
      /\ \A v \in Workers : v # w => (Exclusive(w, v) /\ Exclusive(v, w))'
  BY <1>1, GoesOn DEF Phases
<1>3. new \in WorkerStates /\ new.phase = "executed" /\ new.attempt = s /\ new.execution = x
  BY <1>2 DEF Busy, WorkerStates, Phases
<1>4. s \in started /\ \A c \in effects : c.attempt # s
  BY <1>1 DEF DInv, Progress
<1>5. call \in Effects /\ call.attempt = s
  BY <1>2, ExecutionTypes DEF Effects
<1>6. x.kind = "succeeded" => call \in effects'
  BY <1>1, ExecutionTypes
<1> HIDE DEF call
<1>7. Progress(w)'
  <2>1. x.kind = "succeeded" => [attempt |-> s, result |-> x.result] \in effects'
    BY <1>6 DEF call
  <2> QED
    BY <1>1, <1>2, <1>3, <1>4, <2>1 DEF Progress, Succeeded, Failed, Execution
<1>8. EffectsDocumented'
  <2>1. effects' \subseteq Effects'
    BY <1>1, <1>5 DEF DInv, EffectsDocumented, Effects, Started
  <2> QED
    BY <1>1, <1>4, <1>5, <2>1 DEF DInv, EffectsDocumented
<1>9. CompletedByTheTool'
  BY <1>1, NoneCompleted
<1>10. \A v \in Workers : v # w /\ worker[v].phase # "idle" => worker[v].attempt # s
  BY <1>1 DEF DInv, Exclusive
<1>11. effects \subseteq effects' /\ \A c \in effects' \ effects : c.attempt = s
  BY <1>1, <1>5
<1> QED
  BY <1>1, <1>2, <1>3, <1>7, <1>8, <1>9, <1>10, <1>11, WorkerMoves

(* A worker that ends is idle, and what it reports is true. *)
LEMMA EndKeepsDInv ==
  ASSUME DInv, IInv', TablesAdvance, NEW w \in Workers, NEW t \in Terminal, NEW status,
         Ends(w, t, status)
  PROVE  DInv'
<1> DEFINE new == Idle(Report(status, t))
<1>1. /\ worker[w].phase = "executed" /\ worker' = [worker EXCEPT ![w] = new]
      /\ effects' = effects /\ status \in {"completed", "retry_scheduled", "failed"}
      /\ t \in terminal'
  BY DEF Ends
<1>2. new \in WorkerStates /\ new.phase = "idle" /\ new.result = Report(status, t)
  BY <1>1 DEF Idle, WorkerStates, Phases, Reports, Report
<1>3. worker'[w] = new
  BY <1>1 DEF DInv
<1>4. (Holding(w) /\ Progress(w))'
  BY <1>2, <1>3 DEF Holding, Progress
<1>5. ReportHolds(w)'
  <2>1. Report(status, t).terminal = t /\ Report(status, t).status = status
    BY DEF Report
  <2>2. status \in {"completed", "failed"} => CommittedAs(t, status)'
    BY DEF Ends
  <2> HIDE DEF new
  <2> QED
    BY <1>1, <1>2, <1>3, <2>1, <2>2 DEF ReportHolds, CommittedAs
<1>6. \A v \in Workers : (Exclusive(w, v) /\ Exclusive(v, w))'
  BY <1>2, <1>3 DEF Exclusive
<1>7. CompletedByTheTool'
  <2> SUFFICES ASSUME NEW i \in Intents, outbox'[i].status = "completed"
               PROVE  [attempt |-> outbox'[i].last_attempt_id.supersedes,
                       result  |-> outbox'[i].outcome_id] \in effects'
    BY DEF CompletedByTheTool
  <2>1. CASE outbox[i].status = "completed"
    <3>1. outbox'[i] = outbox[i]
      BY <2>1 DEF TablesAdvance, Advances
    <3> QED
      BY <1>1, <2>1, <3>1 DEF DInv, CompletedByTheTool
  <2>2. CASE status = "completed" /\ i = t.supersedes.intent
    <3>1. /\ t.supersedes = worker[w].attempt /\ t.result = worker[w].execution.result
          /\ worker[w].execution.kind = "succeeded"
      BY <2>2 DEF Ends
    <3>2. CommittedAs(t, "completed")'
      BY <2>2 DEF Ends
    <3>3. outbox'[i].last_attempt_id = t /\ outbox'[i].outcome_id = t.result
      BY <2>2, <3>2 DEF CommittedAs
    <3>4. [attempt |-> worker[w].attempt, result |-> worker[w].execution.result] \in effects
      BY <1>1, <3>1 DEF DInv, Progress
    <3> QED
      BY <1>1, <3>1, <3>3, <3>4
  <2> QED
    BY <2>1, <2>2 DEF Ends
<1>8. EffectsDocumented'
  BY <1>1, DocumentsStay
<1> QED
  BY <1>1, <1>2, <1>4, <1>5, <1>6, <1>7, <1>8, WorkerMoves

-----------------------------------------------------------------------------
LEMMA InitDInv == DispatcherInit => DInv
<1> SUFFICES ASSUME DispatcherInit PROVE DInv
  OBVIOUS
<1>1. AttemptsInit /\ effects = {} /\ worker = [w \in Workers |-> Idle(NULL)]
  BY DEF DispatcherInit
<1>2. IInv
  BY <1>1, InitIInv
<1>3. Idle(NULL) \in WorkerStates /\ Idle(NULL).phase = "idle" /\ Idle(NULL).result = NULL
  BY DEF Idle, WorkerStates, Phases
<1>4. \A w \in Workers : worker[w] = Idle(NULL)
  BY <1>1
<1>5. \A w \in Workers : Holding(w) /\ Progress(w) /\ ReportHolds(w)
  BY <1>3, <1>4 DEF Holding, Progress, ReportHolds
<1>6. \A w, v \in Workers : Exclusive(w, v)
  BY <1>3, <1>4 DEF Exclusive
<1>7. EffectsDocumented
  BY <1>1 DEF EffectsDocumented
<1>8. CompletedByTheTool
  BY <1>1 DEF CompletedByTheTool, AttemptsInit, OutboxInit, NoRow
<1> QED
  BY <1>1, <1>2, <1>3, <1>5, <1>6, <1>7, <1>8 DEF DInv

(* No worker moves. *)
LEMMA StillKeepsDInv ==
  ASSUME DInv, IInv', TablesAdvance, UNCHANGED <<worker, effects, terminal>>
  PROVE  DInv'
<1>1. \A w \in Workers : (Holding(w) /\ Progress(w) /\ ReportHolds(w))'
  BY OthersKeep
<1>2. worker' \in [Workers -> WorkerStates]'
  BY DEF DInv, WorkerStates, Phases, Started, Succeeded, Failed, Reports, Terminal, Execution
<1>3. \A w, v \in Workers : Exclusive(w, v)'
  BY DEF DInv, Exclusive
<1>4. EffectsDocumented' /\ CompletedByTheTool'
  BY DocumentsStay, NoneCompleted
<1> QED
  BY <1>1, <1>2, <1>3, <1>4 DEF DInv

LEMMA NextDInv == DInv /\ [DispatcherNext]_dispatcherVars => DInv'
<1> SUFFICES ASSUME DInv, [DispatcherNext]_dispatcherVars PROVE DInv'
  OBVIOUS
<1>1. [FinalizerNext]_vars
  BY StepUsesFinalizer
<1>2. IInv' /\ TablesAdvance
  BY <1>1, NextIInv, StepsAdvance DEF DInv
<1>3. CASE UNCHANGED dispatcherVars
  BY <1>2, <1>3, StillKeepsDInv DEF dispatcherVars
<1>4. CASE ApplicationStep
  BY <1>2, <1>4, StillKeepsDInv DEF ApplicationStep
<1>5. ASSUME NEW w \in Workers, Claim(w) PROVE DInv'
  BY <1>2, <1>5, ClaimKeepsDInv
<1>6. ASSUME NEW w \in Workers, NoWork(w) PROVE DInv'
  BY <1>2, <1>6, RestsKeepDInv DEF NoWork, vars
<1>7. ASSUME NEW w \in Workers, SaveStarted(w) PROVE DInv'
  BY <1>2, <1>7, StartKeepsDInv
<1>8. ASSUME NEW w \in Workers, NEW x \in Failed, FailClosed(w, x) PROVE DInv'
  BY <1>2, <1>8, ExecutionKeepsDInv
<1>9. ASSUME NEW w \in Workers, NEW x \in Succeeded \cup Failed, InvokeTool(w, x)
      PROVE  DInv'
  BY <1>2, <1>9, ExecutionKeepsDInv
<1>10. ASSUME NEW w \in Workers, NEW now \in Instants,
              FinishSuccess(w, now) \/ FinishRetry(w, now) \/ FinishFailure(w, now)
       PROVE  DInv'
  <2>1. \E t \in Terminal : \E status : Ends(w, t, status)
    BY <1>10, SuccessEnds, FailureEnds
  <2> QED
    BY <1>2, <2>1, EndKeepsDInv
<1>11. ASSUME NEW w \in Workers, Abandon(w) PROVE DInv'
  BY <1>2, <1>11, RestsKeepDInv DEF Abandon, vars
<1> QED
  BY <1>3, <1>4, <1>5, <1>6, <1>7, <1>8, <1>9, <1>10, <1>11 DEF DispatcherNext, WorkerStep

(* The inductive invariant holds in every state the dispatcher reaches. *)
THEOREM DispatcherInvariant == DispatcherSpec => []DInv
  BY InitDInv, NextDInv, PTL DEF DispatcherSpec

(***************************************************************************)
(* The dispatcher uses the finalizer and its tables as their contract      *)
(* allows, so every theorem about FinalizerSpec holds of its tables.       *)
(***************************************************************************)
THEOREM DispatcherUsesFinalizer == DispatcherSpec => UsesFinalizer
<1>1. DispatcherInit => AttemptsInit
  BY DEF DispatcherInit
<1>2. DInv /\ [DispatcherNext]_dispatcherVars => [FinalizerNext]_vars
  BY StepUsesFinalizer
<1> QED
  BY <1>1, <1>2, DispatcherInvariant, PTL DEF DispatcherSpec, UsesFinalizer, FinalizerSpec

(* The tables and what the workers remember keep their types. *)
THEOREM DispatcherTypes == DispatcherSpec => []DispatcherTypeOK
<1>1. DInv => DispatcherTypeOK
  <2> SUFFICES ASSUME DInv PROVE DispatcherTypeOK
    OBVIOUS
  <2>1. \A w \in Workers : worker[w].phase # "idle" => worker[w].attempt \in Started
    BY HeldAttempts
  <2>2. \A w \in Workers :
          worker[w].phase = "executed" => worker[w].execution \in Succeeded \cup Failed
    BY DEF DInv, Progress
  <2> QED
    BY <2>1, <2>2 DEF DispatcherTypeOK, DInv, IInv, WorkerStates, Reports, EffectsDocumented
<1> QED
  BY <1>1, DispatcherInvariant, PTL

(***************************************************************************)
(* Whatever crashes, expires or is reclaimed in between, every invocation  *)
(* of a tool belongs to a started attempt that was saved before it, and no *)
(* attempt is invoked twice.                                               *)
(***************************************************************************)
THEOREM CallsAlwaysDocumented == DispatcherSpec => []CallsAreDocumented
<1>1. DInv => CallsAreDocumented
  BY DEF DInv, CallsAreDocumented, EffectsDocumented, Progress
<1> QED
  BY <1>1, DispatcherInvariant, PTL

(***************************************************************************)
(* No two workers hold the same attempt, and who works on the attempt of   *)
(* the current lease owns that lease.                                      *)
(***************************************************************************)
THEOREM AttemptsStayExclusive == DispatcherSpec => []AttemptsAreExclusive
<1>1. DInv => AttemptsAreExclusive
  <2> SUFFICES ASSUME DInv PROVE AttemptsAreExclusive
    OBVIOUS
  <2>1. ASSUME NEW w \in Workers, worker[w].phase # "idle"
        PROVE  worker[w].attempt.number <= outbox[worker[w].attempt.intent].attempt_count
    <3>1. /\ worker[w].attempt.intent \in Intents
          /\ worker[w].attempt \in Starts(worker[w].attempt.intent)
      BY <2>1, HeldAttempts
    <3>2. outbox[worker[w].attempt.intent].attempt_count \in Nat
      BY <3>1 DEF DInv, IInv, TypeOK, Row
    <3> QED
      BY <3>1, <3>2 DEF Starts
  <2> QED
    BY <2>1 DEF DInv, AttemptsAreExclusive, Exclusive, Holding
<1> QED
  BY <1>1, DispatcherInvariant, PTL

(***************************************************************************)
(* An intent is completed only with an outcome its tool returned, in the   *)
(* attempt that is recorded as the successful one.                         *)
(***************************************************************************)
THEOREM AlwaysCompletedByTheTool == DispatcherSpec => []CompletedByTheTool
<1>1. DInv => CompletedByTheTool
  BY DEF DInv
<1> QED
  BY <1>1, DispatcherInvariant, PTL

(* What dispatch_once reported to its caller stays true. *)
THEOREM ReportsStayTrue == DispatcherSpec => []ReportsHold
<1>1. DInv => ReportsHold
  BY DEF DInv, ReportsHold, ReportHolds
<1> QED
  BY <1>1, DispatcherInvariant, PTL

=============================================================================
