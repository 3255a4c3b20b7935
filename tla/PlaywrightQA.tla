---------------------------- MODULE PlaywrightQA ----------------------------
(***************************************************************************)
(* Workers that dispatch browser checks (PlaywrightQAAdapter and its       *)
(* runner, called by ActionWorkerDispatcher) until their intents are       *)
(* settled.  The adapter saves an event, a decision and an outcome one by  *)
(* one, each in a transaction of its own, under ids made from the          *)
(* idempotency key of the intent, so the runs of all attempts of an intent *)
(* write the same three records.                                           *)
(*                                                                         *)
(* The dispatch itself is ActionDispatcher without its clocks and its      *)
(* evidence: a lease is held, has lapsed or is over, a retry is waiting or *)
(* visible, and the rows keep the order of their available_at.  Nothing    *)
(* here grows without bound, so liveness can be stated.                    *)
(***************************************************************************)
EXTENDS Integers, Sequences, SequencesExt

CONSTANTS
  Intents,      \* intents of the tool qa.playwright_check
  Workers,      \* workers, each with the observed_at its adapter was given
  Pages,        \* what a browser may meet at the target
  Durations,    \* what duration_ms may be
  Conflicts,    \* intents whose outcome id is that of a record of another type
  NULL          \* None

ASSUME QAAssumption == Intents \subseteq Nat /\ Conflicts \subseteq Intents

VARIABLES
  row,          \* table action_outbox: the state of each intent, its holder
  queue,        \* the intents in the order of available_at
  saved,        \* table records: what the adapter's ids stand for
  worker,       \* what each worker is doing
  calm          \* no more crashes, late workers or failing browsers

vars == <<row, queue, saved, worker, calm>>

-----------------------------------------------------------------------------
(***************************************************************************)
(* The runner.  A page says whether navigation ends in time, whether the   *)
(* element to act on is seen, is enabled and can be clicked, and whether   *)
(* the expected state is seen after the click.  "error" stands for any     *)
(* other error of the browser, a click that times out included.            *)
(***************************************************************************)
PageKinds ==
  [goto : {"loaded", "timeout", "error"}, visible : BOOLEAN, enabled : BOOLEAN,
   click : {"done", "error"}, expected : BOOLEAN]

ASSUME PageAssumption == Pages \subseteq PageKinds

Codes == {"passed", "action_not_visible", "action_disabled",
          "expected_state_not_observed"}

Unanswered(page) ==
  \/ page.goto # "loaded"
  \/ page.visible /\ page.enabled /\ page.click = "error"

CheckCode(page) ==
  CASE ~page.visible -> "action_not_visible"
    [] page.visible /\ ~page.enabled -> "action_disabled"
    [] page.visible /\ page.enabled /\ ~page.expected -> "expected_state_not_observed"
    [] OTHER -> "passed"

(***************************************************************************)
(* The three records, reduced to what tells two of one id apart.  Ids,     *)
(* request and wording are the same in every attempt.                      *)
(***************************************************************************)
Evidence == [code : Codes, duration : Durations]
Event(w, evidence) == [actor |-> w, evidence |-> evidence]
Decision(w) == [agent |-> w]
Outcome(w, evidence) == [observer |-> w, evidence |-> evidence]
Foreign == [type |-> "other"]
Nothing == [type |-> "none"]

(* ToolExecutionResult; a success carries the hash of its outcome. *)
Result(kind, outcome) == [kind |-> kind, outcome |-> outcome]
Retryable == Result("retryable_failure", NULL)
Permanent == Result("permanent_failure", NULL)

Idle == [phase |-> "idle", intent |-> NULL, evidence |-> NULL, result |-> NULL]

Becomes(w, phase, evidence, result) ==
  worker' = [worker EXCEPT ![w].phase = phase, ![w].evidence = evidence,
                           ![w].result = result]

QAInit ==
  /\ row = [i \in Intents |-> [status |-> "waiting", holder |-> NULL, verdict |-> NULL]]
  /\ queue = SetToSortSeq(Intents, <)
  /\ saved = [i \in Intents |->
                [event |-> Nothing, decision |-> Nothing,
                 outcome |-> IF i \in Conflicts THEN Foreign ELSE Nothing]]
  /\ worker = [w \in Workers |-> Idle]
  /\ calm = FALSE

-----------------------------------------------------------------------------
(* The time a retry, or a first attempt, was put off to arrives. *)
Arrive(i) ==
  /\ row[i].status = "waiting"
  /\ row' = [row EXCEPT ![i].status = "ready"]
  /\ UNCHANGED <<queue, saved, worker, calm>>

Working(w, i) == worker[w].phase # "idle" /\ worker[w].intent = i

(* The lease expires; nothing renews it, and its holder may be at work. *)
Lapse(i) ==
  /\ row[i].status = "leased"
  /\ calm => ~Working(row[i].holder, i)
  /\ row' = [row EXCEPT ![i].status = "lapsed"]
  /\ UNCHANGED <<queue, saved, worker, calm>>

Claimable == {i \in Intents : row[i].status \in {"ready", "lapsed"}}

(* claim, and the started evidence: the first claimable row, to w. *)
Claim(w) ==
  /\ worker[w].phase = "idle"
  /\ \E n \in DOMAIN queue :
       /\ queue[n] \in Claimable
       /\ \A m \in 1..(n - 1) : queue[m] \notin Claimable
       /\ row' = [row EXCEPT ![queue[n]].status = "leased", ![queue[n]].holder = w]
       /\ worker' = [worker EXCEPT ![w] =
                       [Idle EXCEPT !.phase = "dispatching", !.intent = queue[n]]]
  /\ UNCHANGED <<queue, saved, calm>>

(* The input cannot be resolved or is refused: the tool is not called. *)
FailClosed(w) ==
  /\ worker[w].phase = "dispatching"
  /\ \E result \in {Retryable, Permanent} :
       /\ calm => result # Retryable
       /\ Becomes(w, "answered", NULL, result)
  /\ UNCHANGED <<row, queue, saved, calm>>

(* execute asks for the outcome first: an earlier run may have saved it. *)
AskForOutcome(w) ==
  /\ worker[w].phase = "dispatching"
  /\ LET found == saved[worker[w].intent].outcome
     IN  \/ found = Nothing /\ Becomes(w, "browsing", NULL, NULL)
         \/ found = Foreign /\ Becomes(w, "answered", NULL, Permanent)
         \/ /\ found \notin {Nothing, Foreign}
            /\ Becomes(w, "answered", NULL, Result("succeeded", found))
  /\ UNCHANGED <<row, queue, saved, calm>>

(* runner.run: evidence, or an error raised for the dispatcher to catch. *)
RunBrowser(w) ==
  /\ worker[w].phase = "browsing"
  /\ \/ \E page \in Pages, d \in Durations :
          \/ /\ ~Unanswered(page)
             /\ Becomes(w, "event", [code |-> CheckCode(page), duration |-> d], NULL)
          \/ Unanswered(page) /\ ~calm /\ Becomes(w, "answered", NULL, Retryable)
     \/ Becomes(w, "answered", NULL, Permanent) \* playwright_not_installed
  /\ UNCHANGED <<row, queue, saved, calm>>

RecordOf(w, field) ==
  CASE field = "event"    -> Event(w, worker[w].evidence)
    [] field = "decision" -> Decision(w)
    [] field = "outcome"  -> Outcome(w, worker[w].evidence)

FaultySaveIdempotent(w, field, next) ==
  /\ worker[w].phase = field
  /\ LET i == worker[w].intent
     IN  saved' = IF saved[i][field] = Nothing
                  THEN [saved EXCEPT ![i][field] = RecordOf(w, field)]
                  ELSE saved
  /\ IF field = "outcome"
     THEN Becomes(w, "answered", NULL, Result("succeeded", RecordOf(w, field)))
     ELSE Becomes(w, next, worker[w].evidence, NULL)
  /\ UNCHANGED <<row, queue, calm>>

(***************************************************************************)
(* _save_idempotent: the record goes in if its id is free, and if it is    *)
(* not, the record that is there must be the same.  Otherwise the adapter  *)
(* raises, which the dispatcher makes a retryable adapter_exception.       *)
(***************************************************************************)
SaveIdempotent(w, field, next) ==
  /\ worker[w].phase = field
  /\ LET i == worker[w].intent
         record == RecordOf(w, field)
     IN  IF saved[i][field] \in {Nothing, record}
         THEN /\ saved' = [saved EXCEPT ![i][field] = record]
              /\ IF field = "outcome"
                 THEN Becomes(w, next, NULL, Result("succeeded", record))
                 ELSE Becomes(w, next, worker[w].evidence, NULL)
         ELSE Becomes(w, "answered", NULL, Retryable) /\ UNCHANGED saved
  /\ UNCHANGED <<row, queue, calm>>

FaultyRequeue(i) == queue

(* available_at becomes finished_at plus the retry delay. *)
Requeue(i) == Append(SelectSeq(queue, LAMBDA j : j # i), i)

(***************************************************************************)
(* _finalize, accepted: the lease is still w's.  A lapsed lease that       *)
(* nobody took over is accepted if the clock was read before it lapsed.    *)
(* A retry is due after every time that is already set.                    *)
(***************************************************************************)
Finish(w) ==
  /\ worker[w].phase = "answered"
  /\ LET i == worker[w].intent
         result == worker[w].result
     IN  /\ row[i].status \in {"leased", "lapsed"}
         /\ row[i].holder = w
         /\ row' = [row EXCEPT ![i] =
              [holder  |-> NULL,
               verdict |-> result.outcome,
               status  |-> CASE result.kind = "succeeded" -> "completed"
                             [] result.kind = "permanent_failure" -> "failed"
                             [] result.kind = "retryable_failure" -> "waiting"]]
         /\ queue' = IF result = Retryable THEN Requeue(i) ELSE queue
  /\ worker' = [worker EXCEPT ![w] = Idle]
  /\ UNCHANGED <<saved, calm>>

(* _finalize, refused: the lease is another's or over; dispatch_once raises. *)
Refuse(w) ==
  /\ worker[w].phase = "answered"
  /\ \/ row[worker[w].intent].holder # w
     \/ row[worker[w].intent].status = "lapsed"
  /\ worker' = [worker EXCEPT ![w] = Idle]
  /\ UNCHANGED <<row, queue, saved, calm>>

(* A worker dies, anywhere in dispatch_once, and is started again. *)
Crash(w) ==
  /\ ~calm
  /\ worker[w].phase # "idle"
  /\ worker' = [worker EXCEPT ![w] = Idle]
  /\ UNCHANGED <<row, queue, saved, calm>>

CalmDown == ~calm /\ calm' = TRUE /\ UNCHANGED <<row, queue, saved, worker>>

(* What a running worker does of its own accord once it has a claim. *)
Proceed(w) ==
  \/ FailClosed(w)
  \/ AskForOutcome(w)
  \/ RunBrowser(w)
  \/ SaveIdempotent(w, "event", "decision")
  \/ SaveIdempotent(w, "decision", "outcome")
  \/ SaveIdempotent(w, "outcome", "answered")
  \/ Finish(w)
  \/ Refuse(w)

QANext ==
  \/ \E i \in Intents : Arrive(i) \/ Lapse(i)
  \/ \E w \in Workers : Claim(w) \/ Proceed(w) \/ Crash(w)
  \/ CalmDown

QASpec == QAInit /\ [][QANext]_vars

(***************************************************************************)
(* Workers are run in a loop: one that is idle asks for work again and one *)
(* that has work goes on.  Time passes.  No fault is fair, and neither is  *)
(* the end of faults.                                                      *)
(***************************************************************************)
QAFairness ==
  /\ \A i \in Intents : WF_vars(Arrive(i)) /\ WF_vars(Lapse(i))
  /\ \A w \in Workers : WF_vars(Claim(w)) /\ WF_vars(Proceed(w))

FairQASpec == QASpec /\ QAFairness

-----------------------------------------------------------------------------
HasOutcome(i) == saved[i].outcome \notin {Nothing, Foreign}

(***************************************************************************)
(* Although every attempt of an intent writes the same three ids, and late *)
(* and dead workers leave some of them behind, the records that are there  *)
(* are of one run: its worker decided and observed what its event says.    *)
(***************************************************************************)
RecordsAreOfOneRun ==
  \A i \in Intents :
    LET s == saved[i]
    IN  /\ s.decision # Nothing =>
             s.event # Nothing /\ s.decision.agent = s.event.actor
        /\ HasOutcome(i) =>
             /\ s.decision # Nothing
             /\ s.outcome = Outcome(s.event.actor, s.event.evidence)

(***************************************************************************)
(* A success reported to the dispatcher, by a run or found by a later      *)
(* attempt, and the verdict an intent was completed with are the outcome   *)
(* that is in the store; a record of another type is never taken for one.  *)
(***************************************************************************)
SuccessIsRecorded ==
  /\ \A w \in Workers :
       worker[w].phase = "answered" /\ worker[w].result.kind = "succeeded" =>
         worker[w].result.outcome = saved[worker[w].intent].outcome
  /\ \A i \in Intents :
       row[i].status = "completed" =>
         HasOutcome(i) /\ row[i].verdict = saved[i].outcome

Settled(i) == row[i].status \in {"completed", "failed"}

(* The records of a run that nobody carries on. *)
Orphaned(i) ==
  /\ saved[i].event # Nothing
  /\ ~HasOutcome(i)
  /\ \A w \in Workers :
       ~(Working(w, i) /\ worker[w].phase \in {"decision", "outcome"})

(***************************************************************************)
(* If faults end at some time, every intent is settled, but for one        *)
(* reason: a run died between its first and its last record, and no later  *)
(* run observes exactly what that run did, so the intent is tried for      *)
(* ever.  In particular such an intent does not keep the others from being *)
(* settled, and a lease lost during a check costs no more than a retry.    *)
(***************************************************************************)
EveryIntentSettles ==
  \A i \in Intents : <>calm => <>Settled(i) \/ <>[]Orphaned(i)

=============================================================================
