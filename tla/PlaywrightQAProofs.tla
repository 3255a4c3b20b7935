------------------------- MODULE PlaywrightQAProofs -------------------------
(***************************************************************************)
(* Proofs about PlaywrightQA: for any workers, pages and intents, with     *)
(* crashes, lapsed leases and late workers at any step, the records of an  *)
(* intent are of one run and a success is what the store says.             *)
(*                                                                         *)
(* Neither is inductive: that a worker may go on to its next record rests  *)
(* on what it saved before (Holds), and this stays true of the store       *)
(* because an id is written once (WrittenOnce).                            *)
(***************************************************************************)
EXTENDS PlaywrightQA, TLAPS

Fields == {"event", "decision", "outcome"}
Events == [actor : Workers, evidence : Evidence]
Decisions == [agent : Workers]
Outcomes == [observer : Workers, evidence : Evidence]
Kinds == {"succeeded", "retryable_failure", "permanent_failure"}

QATypeOK ==
  /\ row \in [Intents ->
       [status : {"waiting", "ready", "leased", "lapsed", "completed", "failed"},
        holder : Workers \cup {NULL}, verdict : Outcomes \cup {NULL}]]
  /\ saved \in [Intents ->
       [event : Events \cup {Nothing}, decision : Decisions \cup {Nothing},
        outcome : Outcomes \cup {Nothing, Foreign}]]
  /\ worker \in [Workers ->
       [phase : {"idle", "dispatching", "browsing", "answered"} \cup Fields,
        intent : Intents \cup {NULL}, evidence : Evidence \cup {NULL},
        result : [kind : Kinds, outcome : Outcomes \cup {NULL}] \cup {NULL}]]

(* What a worker relies on when it goes on to its next record, or answers. *)
Holds(w) ==
  LET x == worker[w]
      s == saved[x.intent]
  IN  /\ x.phase # "idle" => x.intent \in Intents
      /\ x.phase \in Fields => x.evidence \in Evidence
      /\ x.phase \in {"decision", "outcome"} => s.event = Event(w, x.evidence)
      /\ x.phase = "outcome" => s.decision = Decision(w)
      /\ x.phase = "answered" =>
           /\ x.result \in [kind : Kinds, outcome : Outcomes \cup {NULL}]
           /\ x.result.kind = "succeeded" =>
                s.outcome \in Outcomes /\ x.result.outcome = s.outcome

OneRun(i) ==
  LET s == saved[i]
  IN  /\ s.decision # Nothing =>
           s.event # Nothing /\ s.decision.agent = s.event.actor
      /\ HasOutcome(i) =>
           s.decision # Nothing /\ s.outcome = Outcome(s.event.actor, s.event.evidence)

VerdictHolds(i) ==
  row[i].status = "completed" => HasOutcome(i) /\ row[i].verdict = saved[i].outcome

QAInv ==
  /\ QATypeOK
  /\ \A w \in Workers : Holds(w)
  /\ \A i \in Intents : OneRun(i) /\ VerdictHolds(i)

-----------------------------------------------------------------------------
(* Records of different shapes are different. *)
LEMMA ShapesDiffer ==
  /\ Nothing # Foreign
  /\ \A e \in Events : e # Nothing
  /\ \A d \in Decisions : d # Nothing
  /\ \A o \in Outcomes : o # Nothing /\ o # Foreign
<1>1. DOMAIN Nothing = {"type"} /\ DOMAIN Foreign = {"type"}
  BY DEF Nothing, Foreign
<1>2. /\ \A e \in Events : DOMAIN e = {"actor", "evidence"}
      /\ \A d \in Decisions : DOMAIN d = {"agent"}
      /\ \A o \in Outcomes : DOMAIN o = {"observer", "evidence"}
  BY DEF Events, Decisions, Outcomes
<1>3. Nothing # Foreign
  BY DEF Nothing, Foreign
<1> QED
  BY <1>1, <1>2, <1>3

(* The store has an outcome if it has one of a run. *)
LEMMA OutcomeFacts ==
  ASSUME QATypeOK, NEW i \in Intents
  PROVE  HasOutcome(i) <=> saved[i].outcome \in Outcomes
BY ShapesDiffer DEF QATypeOK, HasOutcome

(* An id that is in the store keeps its record. *)
WrittenOnce ==
  \A i \in Intents :
    /\ saved[i].event # Nothing => saved'[i].event = saved[i].event
    /\ saved[i].decision # Nothing => saved'[i].decision = saved[i].decision
    /\ saved[i].outcome # Nothing => saved'[i].outcome = saved[i].outcome

LEMMA HoldsStays ==
  ASSUME QATypeOK, WrittenOnce, NEW w \in Workers, Holds(w), worker'[w] = worker[w]
  PROVE  Holds(w)'
<1>1. PICK x : x = worker[w]
  OBVIOUS
<1>2. CASE x.phase = "idle"
  BY <1>1, <1>2 DEF Holds, Fields
<1>3. CASE x.phase # "idle"
  <2>1. PICK i \in Intents : i = x.intent
    BY <1>1, <1>3 DEF Holds
  <2>2. x.phase \in {"decision", "outcome"} =>
          saved[i].event = Event(w, x.evidence) /\ saved'[i].event = saved[i].event
    <3>1. x.phase \in Fields => Event(w, x.evidence) \in Events
      BY <1>1 DEF Holds, Event, Events
    <3> QED
      BY <1>1, <2>1, <3>1, ShapesDiffer DEF Holds, WrittenOnce, Fields
  <2>3. x.phase = "outcome" =>
          saved[i].decision = Decision(w) /\ saved'[i].decision = saved[i].decision
    <3>1. Decision(w) \in Decisions
      BY DEF Decision, Decisions
    <3> QED
      BY <1>1, <2>1, <3>1, ShapesDiffer DEF Holds, WrittenOnce
  <2>4. x.phase = "answered" /\ x.result.kind = "succeeded" =>
          saved[i].outcome \in Outcomes /\ saved'[i].outcome = saved[i].outcome
    BY <1>1, <2>1, ShapesDiffer DEF Holds, WrittenOnce
  <2> QED
    BY <1>1, <2>1, <2>2, <2>3, <2>4 DEF Holds
<1> QED
  BY <1>2, <1>3

LEMMA VerdictStays ==
  ASSUME QATypeOK, WrittenOnce, NEW i \in Intents, VerdictHolds(i), row'[i] = row[i]
  PROVE  VerdictHolds(i)'
BY DEF VerdictHolds, WrittenOnce, HasOutcome

(* A step that writes no record. *)
LEMMA NothingWritten ==
  ASSUME QAInv, QATypeOK', UNCHANGED saved,
         \A w \in Workers : worker'[w] = worker[w] \/ Holds(w)',
         \A i \in Intents : row'[i] = row[i] \/ VerdictHolds(i)'
  PROVE  QAInv'
<1>1. WrittenOnce
  BY DEF WrittenOnce
<1>2. \A w \in Workers : Holds(w)'
  BY <1>1, HoldsStays DEF QAInv
<1>3. \A i \in Intents : VerdictHolds(i)'
  BY <1>1, VerdictStays DEF QAInv
<1>4. \A i \in Intents : OneRun(i)'
  BY DEF QAInv, OneRun, HasOutcome
<1> QED
  BY <1>2, <1>3, <1>4 DEF QAInv

-----------------------------------------------------------------------------
(* One record of one intent is written. *)
LEMMA WriteFacts ==
  ASSUME QATypeOK, NEW i \in Intents, NEW f \in Fields, NEW r,
         saved' = [saved EXCEPT ![i][f] = r]
  PROVE  /\ \A j \in Intents : j # i => saved'[j] = saved[j]
         /\ saved'[i].event = IF f = "event" THEN r ELSE saved[i].event
         /\ saved'[i].decision = IF f = "decision" THEN r ELSE saved[i].decision
         /\ saved'[i].outcome = IF f = "outcome" THEN r ELSE saved[i].outcome
BY DEF QATypeOK, Fields

(* What Becomes makes of a worker, and that it is a worker's state. *)
LEMMA BecomesFacts ==
  ASSUME QATypeOK, NEW w \in Workers, NEW phase \in {"answered", "browsing"} \cup Fields,
         NEW e \in Evidence \cup {NULL},
         NEW result \in [kind : Kinds, outcome : Outcomes \cup {NULL}] \cup {NULL},
         Becomes(w, phase, e, result)
  PROVE  /\ \A v \in Workers : v # w => worker'[v] = worker[v]
         /\ worker'[w].phase = phase /\ worker'[w].intent = worker[w].intent
         /\ worker'[w].evidence = e /\ worker'[w].result = result
         /\ worker' \in [Workers ->
              [phase : {"idle", "dispatching", "browsing", "answered"} \cup Fields,
               intent : Intents \cup {NULL}, evidence : Evidence \cup {NULL},
               result : [kind : Kinds, outcome : Outcomes \cup {NULL}] \cup {NULL}]]
<1> DEFINE States ==
      [phase : {"idle", "dispatching", "browsing", "answered"} \cup Fields,
       intent : Intents \cup {NULL}, evidence : Evidence \cup {NULL},
       result : [kind : Kinds, outcome : Outcomes \cup {NULL}] \cup {NULL}]
<1>1. worker \in [Workers -> States]
  BY DEF QATypeOK
<1>2. PICK x : x = [worker EXCEPT ![w].phase = phase]
  OBVIOUS
<1>3. PICK y : y = [x EXCEPT ![w].evidence = e]
  OBVIOUS
<1>4. worker' = [y EXCEPT ![w].result = result]
  BY <1>2, <1>3, Zenon DEF Becomes
<1>5. /\ x \in [Workers -> States]
      /\ \A v \in Workers : v # w => x[v] = worker[v]
      /\ x[w].phase = phase /\ x[w].intent = worker[w].intent
  BY <1>1, <1>2
<1>6. /\ y \in [Workers -> States]
      /\ \A v \in Workers : v # w => y[v] = worker[v]
      /\ y[w].phase = phase /\ y[w].intent = worker[w].intent /\ y[w].evidence = e
  BY <1>3, <1>5
<1>7. worker' \in [Workers -> States]
  BY <1>4, <1>6
<1>8. /\ \A v \in Workers : v # w => worker'[v] = worker[v]
      /\ worker'[w].phase = phase /\ worker'[w].intent = worker[w].intent
      /\ worker'[w].evidence = e /\ worker'[w].result = result
  BY <1>4, <1>6
<1> QED
  BY <1>7, <1>8

LEMMA ResultFacts ==
  /\ Retryable \in [kind : Kinds, outcome : Outcomes \cup {NULL}]
  /\ Permanent \in [kind : Kinds, outcome : Outcomes \cup {NULL}]
  /\ Retryable.kind # "succeeded" /\ Permanent.kind # "succeeded"
  /\ \A o \in Outcomes :
       /\ Result("succeeded", o) \in [kind : Kinds, outcome : Outcomes \cup {NULL}]
       /\ Result("succeeded", o).kind = "succeeded"
       /\ Result("succeeded", o).outcome = o
BY DEF Retryable, Permanent, Result, Kinds

(* An answer that is no success. *)
LEMMA AnswersWithoutSuccess ==
  ASSUME QAInv, NEW w \in Workers, worker[w].phase # "idle",
         NEW result \in {Retryable, Permanent},
         Becomes(w, "answered", NULL, result), UNCHANGED <<row, saved>>
  PROVE  QAInv'
<1>1. result \in [kind : Kinds, outcome : Outcomes \cup {NULL}] /\ result.kind # "succeeded"
  BY ResultFacts
<1>2. /\ \A v \in Workers : v # w => worker'[v] = worker[v]
      /\ worker'[w].phase = "answered" /\ worker'[w].intent = worker[w].intent
      /\ worker'[w].result = result
  BY <1>1, BecomesFacts DEF QAInv
<1>3. QATypeOK'
  BY <1>1, BecomesFacts DEF QAInv, QATypeOK
<1>4. worker[w].intent \in Intents
  BY DEF QAInv, Holds
<1>5. Holds(w)'
  BY <1>1, <1>2, <1>4 DEF Holds, Fields
<1> QED
  BY <1>2, <1>3, <1>5, NothingWritten

(***************************************************************************)
(* _save_idempotent, of each of the three records: what a worker goes on   *)
(* with is what is in the store now.                                       *)
(***************************************************************************)
LEMMA SaveEventInv ==
  ASSUME QAInv, NEW w \in Workers, SaveIdempotent(w, "event", "decision")
  PROVE  QAInv'
<1>1. PICK i, e, r : i = worker[w].intent /\ e = worker[w].evidence /\ r = Event(w, e)
  OBVIOUS
<1>2. i \in Intents /\ e \in Evidence /\ r \in Events
  BY <1>1 DEF SaveIdempotent, QAInv, Holds, Fields, Event, Events
<1>3. CASE saved[i].event \in {Nothing, r}
  <2>1. saved' = [saved EXCEPT ![i]["event"] = r] /\ UNCHANGED row
        /\ Becomes(w, "decision", e, NULL)
    BY <1>1, <1>3 DEF SaveIdempotent, RecordOf
  <2>2. /\ \A j \in Intents : j # i => saved'[j] = saved[j]
        /\ saved'[i].event = r /\ saved'[i].decision = saved[i].decision
        /\ saved'[i].outcome = saved[i].outcome
    <3>1. PICK f : f = "event"
      OBVIOUS
    <3>2. f \in Fields /\ saved' = [saved EXCEPT ![i][f] = r]
      BY <2>1, <3>1 DEF Fields
    <3>3. QATypeOK
      BY DEF QAInv
    <3>4. /\ \A j \in Intents : j # i => saved'[j] = saved[j]
          /\ saved'[i].event = IF f = "event" THEN r ELSE saved[i].event
          /\ saved'[i].decision = IF f = "decision" THEN r ELSE saved[i].decision
          /\ saved'[i].outcome = IF f = "outcome" THEN r ELSE saved[i].outcome
      BY <1>2, <3>2, <3>3, WriteFacts
    <3> QED
      BY <3>1, <3>4
  <2>3. WrittenOnce
    BY <1>2, <1>3, <2>2 DEF WrittenOnce
  <2>4. /\ \A v \in Workers : v # w => worker'[v] = worker[v]
        /\ worker'[w].phase = "decision" /\ worker'[w].intent = i
        /\ worker'[w].evidence = e
    BY <1>1, <1>2, <2>1, BecomesFacts DEF QAInv, Fields
  <2>5. QATypeOK'
    <3>1. saved' \in [Intents ->
            [event : Events \cup {Nothing}, decision : Decisions \cup {Nothing},
             outcome : Outcomes \cup {Nothing, Foreign}]]
      BY <1>2, <2>1 DEF QAInv, QATypeOK
    <3> QED
      BY <1>2, <2>1, <3>1, BecomesFacts DEF QAInv, QATypeOK, Fields
  <2>6. Holds(w)'
    BY <1>1, <1>2, <2>2, <2>4 DEF Holds, Fields
  <2>7. \A v \in Workers : Holds(v)'
    BY <2>3, <2>4, <2>6, HoldsStays DEF QAInv
  <2>8. \A j \in Intents : VerdictHolds(j)'
    BY <2>1, <2>3, VerdictStays DEF QAInv
  <2>9. OneRun(i)'
    BY <1>2, <1>3, <2>2, ShapesDiffer DEF QAInv, OneRun, HasOutcome
  <2>10. \A j \in Intents : OneRun(j)'
    BY <2>2, <2>9 DEF QAInv, OneRun, HasOutcome
  <2> QED
    BY <2>5, <2>7, <2>8, <2>10 DEF QAInv
<1>4. CASE saved[i].event \notin {Nothing, r}
  BY <1>1, <1>4, AnswersWithoutSuccess DEF SaveIdempotent, RecordOf
<1> QED
  BY <1>3, <1>4

LEMMA SaveDecisionInv ==
  ASSUME QAInv, NEW w \in Workers, SaveIdempotent(w, "decision", "outcome")
  PROVE  QAInv'
<1>1. PICK i, e, r : i = worker[w].intent /\ e = worker[w].evidence /\ r = Decision(w)
  OBVIOUS
<1>2. /\ i \in Intents /\ e \in Evidence /\ r \in Decisions
      /\ saved[i].event = Event(w, e) /\ Event(w, e) \in Events
  BY <1>1 DEF SaveIdempotent, QAInv, Holds, Fields, Decision, Decisions, Event, Events
<1>3. CASE saved[i].decision \in {Nothing, r}
  <2>1. saved' = [saved EXCEPT ![i]["decision"] = r] /\ UNCHANGED row
        /\ Becomes(w, "outcome", e, NULL)
    BY <1>1, <1>3 DEF SaveIdempotent, RecordOf
  <2>2. /\ \A j \in Intents : j # i => saved'[j] = saved[j]
        /\ saved'[i].event = saved[i].event /\ saved'[i].decision = r
        /\ saved'[i].outcome = saved[i].outcome
    <3>1. PICK f : f = "decision"
      OBVIOUS
    <3>2. f \in Fields /\ saved' = [saved EXCEPT ![i][f] = r]
      BY <2>1, <3>1 DEF Fields
    <3>3. QATypeOK
      BY DEF QAInv
    <3>4. /\ \A j \in Intents : j # i => saved'[j] = saved[j]
          /\ saved'[i].event = IF f = "event" THEN r ELSE saved[i].event
          /\ saved'[i].decision = IF f = "decision" THEN r ELSE saved[i].decision
          /\ saved'[i].outcome = IF f = "outcome" THEN r ELSE saved[i].outcome
      BY <1>2, <3>2, <3>3, WriteFacts
    <3> QED
      BY <3>1, <3>4
  <2>3. WrittenOnce
    BY <1>2, <1>3, <2>2 DEF WrittenOnce
  <2>4. /\ \A v \in Workers : v # w => worker'[v] = worker[v]
        /\ worker'[w].phase = "outcome" /\ worker'[w].intent = i
        /\ worker'[w].evidence = e
    BY <1>1, <1>2, <2>1, BecomesFacts DEF QAInv, Fields
  <2>5. QATypeOK'
    <3>1. saved' \in [Intents ->
            [event : Events \cup {Nothing}, decision : Decisions \cup {Nothing},
             outcome : Outcomes \cup {Nothing, Foreign}]]
      BY <1>2, <2>1 DEF QAInv, QATypeOK
    <3> QED
      BY <1>2, <2>1, <3>1, BecomesFacts DEF QAInv, QATypeOK, Fields
  <2>6. Holds(w)'
    BY <1>1, <1>2, <2>2, <2>4 DEF Holds, Fields
  <2>7. \A v \in Workers : Holds(v)'
    BY <2>3, <2>4, <2>6, HoldsStays DEF QAInv
  <2>8. \A j \in Intents : VerdictHolds(j)'
    BY <2>1, <2>3, VerdictStays DEF QAInv
  <2>9. OneRun(i)'
    <3>1. r.agent = Event(w, e).actor
      BY <1>1 DEF Decision, Event
    <3>2. HasOutcome(i) => saved[i].outcome = Outcome(Event(w, e).actor, Event(w, e).evidence)
      BY <1>2 DEF QAInv, OneRun
    <3> QED
      BY <1>2, <2>2, <3>1, <3>2, ShapesDiffer DEF OneRun, HasOutcome
  <2>10. \A j \in Intents : OneRun(j)'
    BY <2>2, <2>9 DEF QAInv, OneRun, HasOutcome
  <2> QED
    BY <2>5, <2>7, <2>8, <2>10 DEF QAInv
<1>4. CASE saved[i].decision \notin {Nothing, r}
  BY <1>1, <1>4, AnswersWithoutSuccess DEF SaveIdempotent, RecordOf
<1> QED
  BY <1>3, <1>4

LEMMA SaveOutcomeInv ==
  ASSUME QAInv, NEW w \in Workers, SaveIdempotent(w, "outcome", "answered")
  PROVE  QAInv'
<1>1. PICK i, e, r : i = worker[w].intent /\ e = worker[w].evidence /\ r = Outcome(w, e)
  OBVIOUS
<1>2. /\ i \in Intents /\ e \in Evidence /\ r \in Outcomes
      /\ saved[i].event = Event(w, e) /\ Event(w, e) \in Events
      /\ saved[i].decision = Decision(w) /\ Decision(w) \in Decisions
  BY <1>1 DEF SaveIdempotent, QAInv, Holds, Fields, Decision, Decisions, Event, Events,
             Outcome, Outcomes
<1>3. CASE saved[i].outcome \in {Nothing, r}
  <2>1. saved' = [saved EXCEPT ![i]["outcome"] = r] /\ UNCHANGED row
        /\ Becomes(w, "answered", NULL, Result("succeeded", r))
    BY <1>1, <1>3 DEF SaveIdempotent, RecordOf
  <2>2. /\ \A j \in Intents : j # i => saved'[j] = saved[j]
        /\ saved'[i].event = saved[i].event /\ saved'[i].decision = saved[i].decision
        /\ saved'[i].outcome = r
    <3>1. PICK f : f = "outcome"
      OBVIOUS
    <3>2. f \in Fields /\ saved' = [saved EXCEPT ![i][f] = r]
      BY <2>1, <3>1 DEF Fields
    <3>3. QATypeOK
      BY DEF QAInv
    <3>4. /\ \A j \in Intents : j # i => saved'[j] = saved[j]
          /\ saved'[i].event = IF f = "event" THEN r ELSE saved[i].event
          /\ saved'[i].decision = IF f = "decision" THEN r ELSE saved[i].decision
          /\ saved'[i].outcome = IF f = "outcome" THEN r ELSE saved[i].outcome
      BY <1>2, <3>2, <3>3, WriteFacts
    <3> QED
      BY <3>1, <3>4
  <2>3. WrittenOnce
    BY <1>2, <1>3, <2>2 DEF WrittenOnce
  <2>4. /\ \A v \in Workers : v # w => worker'[v] = worker[v]
        /\ worker'[w].phase = "answered" /\ worker'[w].intent = i
        /\ worker'[w].result = Result("succeeded", r)
    BY <1>1, <1>2, <2>1, ResultFacts, BecomesFacts DEF QAInv
  <2>5. QATypeOK'
    <3>1. saved' \in [Intents ->
            [event : Events \cup {Nothing}, decision : Decisions \cup {Nothing},
             outcome : Outcomes \cup {Nothing, Foreign}]]
      BY <1>2, <2>1 DEF QAInv, QATypeOK
    <3> QED
      BY <1>2, <2>1, <3>1, ResultFacts, BecomesFacts DEF QAInv, QATypeOK
  <2>6. Holds(w)'
    BY <1>1, <1>2, <2>2, <2>4, ResultFacts DEF Holds, Fields
  <2>7. \A v \in Workers : Holds(v)'
    BY <2>3, <2>4, <2>6, HoldsStays DEF QAInv
  <2>8. \A j \in Intents : VerdictHolds(j)'
    BY <2>1, <2>3, VerdictStays DEF QAInv
  <2>9. OneRun(i)'
    <3>1. Decision(w).agent = Event(w, e).actor /\ r = Outcome(Event(w, e).actor, Event(w, e).evidence)
      BY <1>1 DEF Decision, Event
    <3> QED
      BY <1>2, <2>2, <3>1, ShapesDiffer DEF OneRun
  <2>10. \A j \in Intents : OneRun(j)'
    BY <2>2, <2>9 DEF QAInv, OneRun, HasOutcome
  <2> QED
    BY <2>5, <2>7, <2>8, <2>10 DEF QAInv
<1>4. CASE saved[i].outcome \notin {Nothing, r}
  BY <1>1, <1>4, AnswersWithoutSuccess DEF SaveIdempotent, RecordOf
<1> QED
  BY <1>3, <1>4

-----------------------------------------------------------------------------
(* What an idle worker holds. *)
LEMMA IdleFacts ==
  ASSUME QAInv, NEW w \in Workers, worker' = [worker EXCEPT ![w] = Idle],
         QATypeOK' \/ UNCHANGED <<row, saved>>
  PROVE  QATypeOK' /\ \A v \in Workers : worker'[v] = worker[v] \/ Holds(v)'
<1>1. /\ worker'[w] = Idle
      /\ \A v \in Workers : v # w => worker'[v] = worker[v]
      /\ UNCHANGED <<row, saved>> => QATypeOK'
  BY DEF QAInv, QATypeOK, Idle
<1>2. Holds(w)'
  BY <1>1 DEF Holds, Idle, Fields
<1> QED
  BY <1>1, <1>2

(* The store of the outbox moves on; what is completed stays. *)
LEMMA RowStepInv ==
  ASSUME QAInv, NEW i \in Intents, Arrive(i) \/ Lapse(i)
  PROVE  QAInv'
<1>1. /\ row[i].status \in {"waiting", "leased"} /\ UNCHANGED <<saved, worker>>
      /\ row' = [row EXCEPT ![i].status = "ready"] \/ row' = [row EXCEPT ![i].status = "lapsed"]
  BY DEF Arrive, Lapse
<1>2. PICK status \in {"ready", "lapsed"} : row' = [row EXCEPT ![i].status = status]
  BY <1>1
<1>3. /\ row' \in [Intents ->
           [status : {"waiting", "ready", "leased", "lapsed", "completed", "failed"},
            holder : Workers \cup {NULL}, verdict : Outcomes \cup {NULL}]]
      /\ row'[i].status = status /\ \A j \in Intents : j # i => row'[j] = row[j]
  BY <1>2 DEF QAInv, QATypeOK
<1>4. QATypeOK' /\ VerdictHolds(i)'
  BY <1>1, <1>3 DEF QAInv, QATypeOK, VerdictHolds
<1> QED
  BY <1>1, <1>3, <1>4, NothingWritten

LEMMA ClaimInv ==
  ASSUME QAInv, NEW w \in Workers, Claim(w)
  PROVE  QAInv'
<1>1. PICK i \in Claimable :
        /\ row' = [row EXCEPT ![i].status = "leased", ![i].holder = w]
        /\ worker' = [worker EXCEPT ![w] = [Idle EXCEPT !.phase = "dispatching", !.intent = i]]
        /\ UNCHANGED saved
  BY DEF Claim
<1>2. i \in Intents
  BY DEF Claimable
<1>3. PICK x : x = [phase |-> "dispatching", intent |-> i, evidence |-> NULL, result |-> NULL]
  OBVIOUS
<1>4. [Idle EXCEPT !.phase = "dispatching", !.intent = i] = x
  <2>1. PICK y : y = [Idle EXCEPT !.phase = "dispatching"]
    OBVIOUS
  <2>2. y = [phase |-> "dispatching", intent |-> NULL, evidence |-> NULL, result |-> NULL]
    BY <2>1 DEF Idle
  <2>3. [y EXCEPT !.intent = i] = x
    BY <1>3, <2>2
  <2> QED
    BY <2>1, <2>3, Zenon
<1>5. worker' = [worker EXCEPT ![w] = x]
  BY <1>1, <1>4
<1>6. PICK r : r = [row EXCEPT ![i].status = "leased"]
  OBVIOUS
<1>7. row' = [r EXCEPT ![i].holder = w]
  BY <1>1, <1>6, Zenon
<1>8. /\ row' \in [Intents ->
           [status : {"waiting", "ready", "leased", "lapsed", "completed", "failed"},
            holder : Workers \cup {NULL}, verdict : Outcomes \cup {NULL}]]
      /\ row'[i].status = "leased"
      /\ \A j \in Intents : j # i => row'[j] = row[j]
  <2>1. /\ r \in [Intents ->
             [status : {"waiting", "ready", "leased", "lapsed", "completed", "failed"},
              holder : Workers \cup {NULL}, verdict : Outcomes \cup {NULL}]]
        /\ r[i].status = "leased" /\ \A j \in Intents : j # i => r[j] = row[j]
    BY <1>2, <1>6 DEF QAInv, QATypeOK
  <2> QED
    BY <1>2, <1>7, <2>1
<1>9. /\ worker'[w] = x
      /\ \A v \in Workers : v # w => worker'[v] = worker[v]
      /\ QATypeOK'
  <2>1. x \in [phase : {"idle", "dispatching", "browsing", "answered"} \cup Fields,
               intent : Intents \cup {NULL}, evidence : Evidence \cup {NULL},
               result : [kind : Kinds, outcome : Outcomes \cup {NULL}] \cup {NULL}]
    BY <1>2, <1>3
  <2>2. /\ worker' \in [Workers ->
              [phase : {"idle", "dispatching", "browsing", "answered"} \cup Fields,
               intent : Intents \cup {NULL}, evidence : Evidence \cup {NULL},
               result : [kind : Kinds, outcome : Outcomes \cup {NULL}] \cup {NULL}]]
        /\ worker'[w] = x /\ \A v \in Workers : v # w => worker'[v] = worker[v]
    <3> HIDE DEF Fields
    <3> QED
      BY <1>5, <2>1 DEF QAInv, QATypeOK
  <2> QED
    BY <1>1, <1>8, <2>2 DEF QAInv, QATypeOK
<1>10. Holds(w)'
  BY <1>2, <1>3, <1>9 DEF Holds, Fields
<1> QED
  BY <1>1, <1>8, <1>9, <1>10, NothingWritten DEF VerdictHolds

(* An outcome that was found is reported as it is. *)
LEMMA AskInv ==
  ASSUME QAInv, NEW w \in Workers, AskForOutcome(w)
  PROVE  QAInv'
<1>1. PICK i, found : i = worker[w].intent /\ found = saved[i].outcome
  OBVIOUS
<1>2. i \in Intents /\ worker[w].phase = "dispatching" /\ UNCHANGED <<row, saved>>
  BY <1>1 DEF AskForOutcome, QAInv, Holds
<1>3. CASE Becomes(w, "browsing", NULL, NULL)
  <2>1. /\ \A v \in Workers : v # w => worker'[v] = worker[v]
        /\ worker'[w].phase = "browsing" /\ worker'[w].intent = i
    BY <1>1, <1>3, BecomesFacts DEF QAInv
  <2>2. QATypeOK'
    BY <1>2, <1>3, BecomesFacts DEF QAInv, QATypeOK
  <2>3. Holds(w)'
    BY <1>2, <2>1 DEF Holds, Fields
  <2> QED
    BY <1>2, <2>1, <2>2, <2>3, NothingWritten
<1>4. CASE Becomes(w, "answered", NULL, Permanent)
  BY <1>2, <1>4, AnswersWithoutSuccess
<1>5. CASE found \notin {Nothing, Foreign} /\ Becomes(w, "answered", NULL, Result("succeeded", found))
  <2>1. found \in Outcomes
    BY <1>1, <1>2, <1>5 DEF QAInv, QATypeOK
  <2>2. /\ \A v \in Workers : v # w => worker'[v] = worker[v]
        /\ worker'[w].phase = "answered" /\ worker'[w].intent = i
        /\ worker'[w].result = Result("succeeded", found)
    BY <1>1, <1>5, <2>1, ResultFacts, BecomesFacts DEF QAInv
  <2>3. QATypeOK'
    BY <1>2, <1>5, <2>1, ResultFacts, BecomesFacts DEF QAInv, QATypeOK
  <2>4. Holds(w)'
    BY <1>1, <1>2, <2>1, <2>2, ResultFacts DEF Holds, Fields
  <2> QED
    BY <1>2, <2>2, <2>3, <2>4, NothingWritten
<1> QED
  BY <1>1, <1>3, <1>4, <1>5 DEF AskForOutcome

LEMMA BrowseInv ==
  ASSUME QAInv, NEW w \in Workers, RunBrowser(w)
  PROVE  QAInv'
<1>1. worker[w].phase = "browsing" /\ UNCHANGED <<row, saved>>
  BY DEF RunBrowser
<1>2. CASE \E result \in {Retryable, Permanent} : Becomes(w, "answered", NULL, result)
  BY <1>1, <1>2, AnswersWithoutSuccess
<1>3. CASE \E page \in Pages, d \in Durations :
             Becomes(w, "event", [code |-> CheckCode(page), duration |-> d], NULL)
  <2>1. PICK e \in Evidence : Becomes(w, "event", e, NULL)
    <3>1. \A page \in Pages : CheckCode(page) \in Codes
      BY PageAssumption DEF PageKinds, CheckCode, Codes
    <3> QED
      BY <1>3, <3>1 DEF Evidence
  <2>2. /\ \A v \in Workers : v # w => worker'[v] = worker[v]
        /\ worker'[w].phase = "event" /\ worker'[w].intent = worker[w].intent
        /\ worker'[w].evidence = e
    BY <2>1, BecomesFacts DEF QAInv, Fields
  <2>3. QATypeOK'
    BY <1>1, <2>1, BecomesFacts DEF QAInv, QATypeOK, Fields
  <2>4. worker[w].intent \in Intents
    BY <1>1 DEF QAInv, Holds
  <2>5. Holds(w)'
    BY <2>2, <2>4 DEF Holds, Fields
  <2> QED
    BY <1>1, <2>2, <2>3, <2>5, NothingWritten
<1> QED
  BY <1>2, <1>3 DEF RunBrowser

(* _finalize: a success is the outcome that the worker holds. *)
LEMMA FinishInv ==
  ASSUME QAInv, NEW w \in Workers, Finish(w)
  PROVE  QAInv'
<1>1. PICK i, result : i = worker[w].intent /\ result = worker[w].result
  OBVIOUS
<1>2. /\ i \in Intents /\ result \in [kind : Kinds, outcome : Outcomes \cup {NULL}]
      /\ result.kind = "succeeded" =>
           saved[i].outcome \in Outcomes /\ result.outcome = saved[i].outcome
  BY <1>1 DEF Finish, QAInv, Holds
<1>3. PICK status : status = CASE result.kind = "succeeded" -> "completed"
                               [] result.kind = "permanent_failure" -> "failed"
                               [] result.kind = "retryable_failure" -> "waiting"
  OBVIOUS
<1>4. /\ status \in {"completed", "failed", "waiting"}
      /\ status = "completed" => result.kind = "succeeded"
  BY <1>2, <1>3 DEF Kinds
<1>5. UNCHANGED saved /\ worker' = [worker EXCEPT ![w] = Idle]
  BY DEF Finish
<1>6. /\ row' \in [Intents ->
           [status : {"waiting", "ready", "leased", "lapsed", "completed", "failed"},
            holder : Workers \cup {NULL}, verdict : Outcomes \cup {NULL}]]
      /\ row'[i].status = status /\ row'[i].verdict = result.outcome
      /\ \A j \in Intents : j # i => row'[j] = row[j]
  <2>1. PICK r : r = [holder |-> NULL, verdict |-> result.outcome, status |-> status]
    OBVIOUS
  <2>2. row' = [row EXCEPT ![i] = r]
    BY <1>1, <1>3, <2>1 DEF Finish
  <2>3. r \in [status : {"waiting", "ready", "leased", "lapsed", "completed", "failed"},
               holder : Workers \cup {NULL}, verdict : Outcomes \cup {NULL}]
    BY <1>2, <1>4, <2>1
  <2> QED
    BY <1>2, <2>1, <2>2, <2>3 DEF QAInv, QATypeOK
<1>7. QATypeOK'
  <2>1. Idle \in [phase : {"idle", "dispatching", "browsing", "answered"} \cup Fields,
                  intent : Intents \cup {NULL}, evidence : Evidence \cup {NULL},
                  result : [kind : Kinds, outcome : Outcomes \cup {NULL}] \cup {NULL}]
    BY DEF Idle
  <2> QED
    BY <1>5, <1>6, <2>1 DEF QAInv, QATypeOK
<1>8. VerdictHolds(i)'
  <2>1. status = "completed" =>
          saved[i].outcome \in Outcomes /\ result.outcome = saved[i].outcome
    BY <1>2, <1>4
  <2>2. saved[i].outcome \in Outcomes => HasOutcome(i)
    BY <1>2, OutcomeFacts DEF QAInv
  <2> QED
    BY <1>5, <1>6, <2>1, <2>2 DEF VerdictHolds, HasOutcome
<1> QED
  BY <1>5, <1>6, <1>7, <1>8, IdleFacts, NothingWritten

LEMMA InitQAInv == QAInit => QAInv
<1> SUFFICES ASSUME QAInit PROVE QAInv
  OBVIOUS
<1>1. QATypeOK
  BY DEF QAInit, QATypeOK, Idle
<1>2. \A w \in Workers : Holds(w)
  BY DEF QAInit, Holds, Idle, Fields
<1>3. \A i \in Intents : OneRun(i) /\ VerdictHolds(i)
  BY DEF QAInit, OneRun, VerdictHolds, HasOutcome
<1> QED
  BY <1>1, <1>2, <1>3 DEF QAInv

LEMMA NextQAInv == QAInv /\ [QANext]_vars => QAInv'
<1> SUFFICES ASSUME QAInv, [QANext]_vars PROVE QAInv'
  OBVIOUS
<1>1. CASE UNCHANGED <<row, saved, worker>>
  <2>1. QATypeOK'
    BY <1>1 DEF QAInv, QATypeOK
  <2> QED
    BY <1>1, <2>1, NothingWritten
<1>2. ASSUME NEW w \in Workers, Crash(w) \/ Refuse(w) PROVE QAInv'
  BY <1>2, IdleFacts, NothingWritten DEF Crash, Refuse
<1>3. ASSUME NEW w \in Workers, FailClosed(w) PROVE QAInv'
  BY <1>3, AnswersWithoutSuccess DEF FailClosed
<1>4. ASSUME NEW w \in Workers, Proceed(w) PROVE QAInv'
  BY <1>2, <1>3, <1>4, AskInv, BrowseInv, SaveEventInv, SaveDecisionInv, SaveOutcomeInv,
     FinishInv DEF Proceed
<1>5. CASE CalmDown \/ UNCHANGED vars
  BY <1>1, <1>5 DEF CalmDown, vars
<1> QED
  BY <1>2, <1>4, <1>5, RowStepInv, ClaimInv DEF QANext

-----------------------------------------------------------------------------
(***************************************************************************)
(* What a worker goes on with is what the store has, and what is completed *)
(* has its outcome: the inductive invariant, with its types.               *)
(***************************************************************************)
THEOREM QAInvariant == QASpec => []QAInv
<1> QED
  BY InitQAInv, NextQAInv, PTL DEF QASpec

(* Attempts may overlap, die and be repeated: records are of one run.      *)
THEOREM RecordsStayOfOneRun == QASpec => []RecordsAreOfOneRun
<1>1. QAInv => RecordsAreOfOneRun
  BY DEF QAInv, OneRun, RecordsAreOfOneRun
<1> QED
  BY <1>1, QAInvariant, PTL

(* A success reported, and a verdict, are the outcome that is in the store. *)
THEOREM SuccessStaysRecorded == QASpec => []SuccessIsRecorded
<1>1. QAInv => SuccessIsRecorded
  BY DEF QAInv, Holds, VerdictHolds, SuccessIsRecorded
<1> QED
  BY <1>1, QAInvariant, PTL

=============================================================================
