------------------------- MODULE LessonApplications -------------------------
(***************************************************************************)
(* The application store (SQLiteApplicationStore): success criteria,       *)
(* applications of lessons, observations of what followed, and evaluations *)
(* of the criteria, beside the experience records they refer to.           *)
(*                                                                         *)
(* save is one BEGIN IMMEDIATE transaction and one action; records of the  *)
(* experience store come and go between any two of them.  Callers are      *)
(* unconstrained: every record of Requests may be offered at any time, in  *)
(* any order and any number of times, whether its save was answered before *)
(* or not.  A save that raises changes nothing.                            *)
(***************************************************************************)
EXTENDS Recall

CONSTANTS
  Criteria, Applications, Observations, Evaluations \* what callers offer

ASSUME ApplicationAssumption ==
  /\ Criteria \subseteq [id : Nat, fixed_at : Int]
  /\ Applications \subseteq
       [id : Nat, key : STRING, lesson : Ids, query : Ids, retrieval : Ids,
        action : Ids, criterion : Nat, environment : Ids,
        projection : Ids \cup {NULL}, applied_at : Int]
  /\ Observations \subseteq
       [id : Nat, applications : (SUBSET Nat) \ {{}}, action : Ids, sources : SUBSET Ids,
        supersedes : Nat \cup {NULL}, observed_at : Int]
  /\ Evaluations \subseteq
       [id : Nat, criterion : Nat, applications : (SUBSET Nat) \ {{}},
        observations : SUBSET Nat, supersedes : Nat \cup {NULL},
        result : {"met", "not_met", "indeterminate"}, evaluated_at : Int]
  /\ \A e \in Evaluations : e.result # "indeterminate" => e.observations # {}
  /\ NULL \notin Nat

VARIABLES
  accepted,     \* table application_records
  keys          \* table application_idempotency

applicationVars == <<experience, accepted, keys>>

Requests == Criteria \cup Applications \cup Observations \cup Evaluations

Accepted(set) == accepted \cap set

(* The accepted record of an id, which is the primary key. *)
Lookup(id) == CHOOSE r \in accepted : r.id = id

(* _require_experience: some record of that id, of any type. *)
Experienced(id) == id \in experience
CreatedAt(id) == (CHOOSE r \in Records : r.id = id).created_at

(* _require_application_type *)
Refers(id, set) == \E r \in Accepted(set) : r.id = id
ReferAll(ids, set) == \A id \in ids : Refers(id, set)

(* What identifies an application beside its id. *)
Fingerprint(a) == [a EXCEPT !.id = 0]

-----------------------------------------------------------------------------
(* The order in time that _validate_application demands. *)
TimelyContext(a) ==
  /\ Lookup(a.criterion).fixed_at <= CreatedAt(a.query)
  /\ CreatedAt(a.query) <= CreatedAt(a.retrieval)
  /\ \A id \in {a.retrieval, a.action, a.environment, a.projection} \ {NULL} :
       CreatedAt(id) <= a.applied_at

ValidApplication(a) ==
  /\ a.lesson \in {l.id : l \in Present(Lessons)}
  /\ Refers(a.criterion, Criteria)
  /\ \A id \in {a.query, a.retrieval, a.action, a.environment, a.projection} \ {NULL} :
       Experienced(id)
  /\ TimelyContext(a)

ValidObservation(o) ==
  /\ ReferAll(o.applications, Applications)
  /\ Experienced(o.action)
  /\ \A id \in o.sources : Experienced(id)
  /\ \A id \in o.applications :
       /\ Lookup(id).action = o.action
       /\ Lookup(id).applied_at <= o.observed_at
  /\ o.supersedes # NULL =>
       /\ Refers(o.supersedes, Observations)
       /\ Lookup(o.supersedes).action = o.action
       /\ Lookup(o.supersedes).observed_at <= o.observed_at

FaultyCovered(e) == \E id \in e.observations : Lookup(id).applications \cap e.applications # {}

(* An evaluation without observations covers nothing, and need not. *)
Covered(e) ==
  e.observations # {} =>
    e.applications \subseteq UNION {Lookup(id).applications : id \in e.observations}

FaultyCorrects(e, previous) == previous.criterion = e.criterion

Corrects(e, previous) ==
  /\ previous.criterion = e.criterion
  /\ previous.applications = e.applications
  /\ previous.evaluated_at <= e.evaluated_at

ValidEvaluation(e) ==
  /\ Refers(e.criterion, Criteria)
  /\ ReferAll(e.applications, Applications)
  /\ \A id \in e.applications : Lookup(id).criterion = e.criterion
  /\ ReferAll(e.observations, Observations)
  /\ Covered(e)
  /\ \A id \in e.observations : Lookup(id).observed_at <= e.evaluated_at
  /\ e.supersedes # NULL =>
       Refers(e.supersedes, Evaluations) /\ Corrects(e, Lookup(e.supersedes))

(* _validate_contract *)
Valid(r) ==
  /\ r \in Applications => ValidApplication(r)
  /\ r \in Observations => ValidObservation(r)
  /\ r \in Evaluations => ValidEvaluation(r)

FaultyFreshId(r) == r \notin accepted

(* PRIMARY KEY(id), over all four types. *)
FreshId(r) == \A s \in accepted : s.id # r.id

-----------------------------------------------------------------------------
FaultyAnswer(r) ==
  IF r \in Applications /\ Valid(r) /\ (\E k \in keys : k.key = r.key)
  THEN LET bound == CHOOSE k \in keys : k.key = r.key
       IN  IF bound.fingerprint = Fingerprint(r) THEN Lookup(bound.id) ELSE NULL
  ELSE IF Valid(r) /\ FreshId(r) THEN r ELSE NULL

(***************************************************************************)
(* What save returns, or NULL if it raises.  An application whose key is   *)
(* bound is answered by that alone, before anything it refers to is asked. *)
(***************************************************************************)
Answer(r) ==
  IF r \in Applications /\ \E k \in keys : k.key = r.key
  THEN LET bound == CHOOSE k \in keys : k.key = r.key
       IN  IF bound.fingerprint = Fingerprint(r) THEN Lookup(bound.id) ELSE NULL
  ELSE IF Valid(r) /\ FreshId(r) THEN r ELSE NULL

(* save: the record and, for an application, its key, in one transaction. *)
Save(r) ==
  /\ Answer(r) # NULL
  /\ accepted' = accepted \cup {Answer(r)}
  /\ keys' = IF r \in Applications
             THEN keys \cup {[key |-> r.key, fingerprint |-> Fingerprint(r),
                              id |-> Answer(r).id]}
             ELSE keys
  /\ UNCHANGED experience

ExperienceStep(id) ==
  /\ SaveExperience(id) \/ DeleteExperience(id)
  /\ UNCHANGED <<accepted, keys>>

ApplicationsInit ==
  /\ experience = Ids
  /\ accepted = {}
  /\ keys = {}

ApplicationsNext ==
  \/ \E r \in Requests : Save(r)
  \/ \E id \in Ids : ExperienceStep(id)

ApplicationsSpec == ApplicationsInit /\ [][ApplicationsNext]_applicationVars

-----------------------------------------------------------------------------
ApplicationsTypeOK ==
  /\ experience \subseteq Ids
  /\ accepted \subseteq Requests
  /\ \A r, s \in accepted : r.id = s.id => r = s
  /\ \A k \in keys : \E a \in Accepted(Applications) :
       k = [key |-> a.key, fingerprint |-> Fingerprint(a), id |-> a.id]

(***************************************************************************)
(* "Re-delivery with the same idempotency key and identical payload is     *)
(* idempotent", with a different one it is rejected: whatever was deleted  *)
(* or saved in between, and whether the repeated request has the old id, a *)
(* new one or one that is taken, it is answered with the one application   *)
(* of its key.                                                             *)
(***************************************************************************)
RetriesAreAnswered ==
  /\ \A a, b \in Accepted(Applications) : a.key = b.key => a = b
  /\ \A r \in Applications, a \in Accepted(Applications) :
       r.key = a.key =>
         Answer(r) = IF Fingerprint(r) = Fingerprint(a) THEN a ELSE NULL

(***************************************************************************)
(* An evaluation with observations stands on what it says: for each        *)
(* application it judges there is an observation, of the same action, made *)
(* after the lesson was applied and before the evaluation, and the         *)
(* criterion is the one the application fixed before its query was made.   *)
(***************************************************************************)
EvaluationsAreGrounded ==
  \A e \in Accepted(Evaluations) : e.observations # {} =>
    \A id \in e.applications :
      \E a \in Accepted(Applications), c \in Accepted(Criteria),
         o \in Accepted(Observations) :
        /\ a.id = id /\ c.id = e.criterion /\ o.id \in e.observations
        /\ a.criterion = c.id /\ a.id \in o.applications /\ o.action = a.action
        /\ c.fixed_at <= CreatedAt(a.query)
        /\ CreatedAt(a.query) <= a.applied_at
        /\ a.applied_at <= o.observed_at /\ o.observed_at <= e.evaluated_at

(* What is corrected was there first: no circle, and no endless chain. *)
WellFounded(set) ==
  \A circle \in SUBSET Accepted(set) : circle # {} =>
    \E r \in circle : \A s \in circle : r.supersedes # s.id

(***************************************************************************)
(* A correction has the subject of what it corrects and is not earlier, so *)
(* a chain of corrections has one subject however long it is, and no chain *)
(* returns to itself although corrections may have equal times.            *)
(***************************************************************************)
CorrectionsKeepTheSubject ==
  /\ \A o \in Accepted(Observations) : o.supersedes # NULL =>
       \E p \in Accepted(Observations) :
         p.id = o.supersedes /\ p.action = o.action /\ p.observed_at <= o.observed_at
  /\ \A e \in Accepted(Evaluations) : e.supersedes # NULL =>
       \E f \in Accepted(Evaluations) :
         /\ f.id = e.supersedes /\ f.criterion = e.criterion
         /\ f.applications = e.applications /\ f.evaluated_at <= e.evaluated_at
  /\ WellFounded(Observations) /\ WellFounded(Evaluations)

=============================================================================
