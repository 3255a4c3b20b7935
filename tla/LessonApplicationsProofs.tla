---------------------- MODULE LessonApplicationsProofs ----------------------
(***************************************************************************)
(* Proofs about LessonApplications and the Recall below it: for any        *)
(* records callers offer, in any order and number, and whatever happens to *)
(* the experience records, the account the application store keeps is      *)
(* consistent, and recall gives each requester the best of what he may see.*)
(*                                                                         *)
(* The invariants are not inductive on their own: that an evaluation is    *)
(* grounded rests on what was checked of its applications and observations *)
(* when these were saved (AppliedInTime, ObservedInTime), and that a key   *)
(* is answered rests on every application having its row (KeysComplete).   *)
(***************************************************************************)
EXTENDS LessonApplications, FiniteSetTheorems, TLAPS

Row(a) == [key |-> a.key, fingerprint |-> Fingerprint(a), id |-> a.id]

UniqueIds == \A r, s \in accepted : r.id = s.id => r = s

KeysComplete == \A a \in Accepted(Applications) : Row(a) \in keys

OnePerKey == \A a, b \in Accepted(Applications) : a.key = b.key => a = b

AppliedInTime ==
  \A a \in Accepted(Applications) :
    /\ CreatedAt(a.query) <= a.applied_at
    /\ \E c \in Accepted(Criteria) :
         c.id = a.criterion /\ c.fixed_at <= CreatedAt(a.query)

ObservedInTime ==
  \A o \in Accepted(Observations) : \A id \in o.applications :
    \E a \in Accepted(Applications) :
      a.id = id /\ a.action = o.action /\ a.applied_at <= o.observed_at

AppInv ==
  /\ ApplicationsTypeOK /\ KeysComplete /\ OnePerKey
  /\ AppliedInTime /\ ObservedInTime
  /\ EvaluationsAreGrounded
  /\ CorrectionsKeepTheSubject

-----------------------------------------------------------------------------
(* What save adds: a record that was valid and new. *)
Added(r) ==
  /\ accepted' = accepted \cup {r}
  /\ Valid(r) /\ FreshId(r)
  /\ r \in Applications => keys' = keys \cup {Row(r)} /\ \A k \in keys : k.key # r.key
  /\ r \notin Applications => keys' = keys

(* The primary key finds a record by its id. *)
LEMMA LookupFinds ==
  ASSUME UniqueIds, NEW r \in accepted
  PROVE  Lookup(r.id) = r
BY DEF Lookup, UniqueIds

LEMMA RefersFinds ==
  ASSUME UniqueIds, NEW set, NEW id, Refers(id, set)
  PROVE  Lookup(id) \in Accepted(set) /\ Lookup(id).id = id
<1>1. PICK r \in Accepted(set) : r.id = id
  BY DEF Refers
<1>2. r \in accepted
  BY <1>1 DEF Accepted
<1> QED
  BY <1>1, <1>2, LookupFinds

(* A bound key has one row, that of its application. *)
LEMMA BoundKey ==
  ASSUME ApplicationsTypeOK, OnePerKey, KeysComplete, NEW a \in Accepted(Applications),
         NEW r, r.key = a.key
  PROVE  /\ \E k \in keys : k.key = r.key
         /\ (CHOOSE k \in keys : k.key = r.key) = Row(a)
<1>1. Row(a) \in keys /\ Row(a).key = r.key
  BY DEF KeysComplete, Row
<1>2. ASSUME NEW k \in keys, k.key = r.key
      PROVE  k = Row(a)
  <2>1. PICK b \in Accepted(Applications) : k = Row(b)
    BY DEF ApplicationsTypeOK, Row
  <2>2. b.key = a.key
    BY <1>2, <2>1 DEF Row
  <2> QED
    BY <2>1, <2>2 DEF OnePerKey
<1> QED
  BY <1>1, <1>2

(* save repeats an answer and changes nothing, or adds what it was given. *)
LEMMA SaveAdds ==
  ASSUME ApplicationsTypeOK, OnePerKey, KeysComplete, NEW r \in Requests, Save(r)
  PROVE  UNCHANGED <<accepted, keys>> \/ Added(r)
<1> DEFINE bound == CHOOSE k \in keys : k.key = r.key
<1>0. UniqueIds
  BY DEF ApplicationsTypeOK, UniqueIds
<1>1. CASE r \in Applications /\ \E k \in keys : k.key = r.key
  <2>1. PICK k \in keys : k.key = r.key
    BY <1>1
  <2>2. PICK a \in Accepted(Applications) : k = Row(a)
    BY DEF ApplicationsTypeOK, Row
  <2>3. r.key = a.key
    BY <2>1, <2>2 DEF Row
  <2>4. bound = Row(a)
    BY <2>3, BoundKey
  <2>5. a \in accepted
    BY DEF Accepted
  <2>6. bound.id = a.id /\ bound.fingerprint = Fingerprint(a)
    <3>1. Row(a).id = a.id /\ Row(a).fingerprint = Fingerprint(a)
      BY DEF Row
    <3> HIDE DEF bound
    <3> QED
      BY <2>4, <3>1
  <2>7. Answer(r) = IF Fingerprint(a) = Fingerprint(r) THEN a ELSE NULL
    <3>1. Answer(r) = IF bound.fingerprint = Fingerprint(r) THEN Lookup(bound.id) ELSE NULL
      BY <1>1 DEF Answer
    <3>2. Lookup(bound.id) = a
      BY <1>0, <2>5, <2>6, LookupFinds
    <3> QED
      BY <3>1, <3>2, <2>6
  <2>8. Answer(r) = a /\ Fingerprint(r) = Fingerprint(a)
    BY <2>7 DEF Save
  <2>9. accepted' = accepted
    BY <2>5, <2>8 DEF Save
  <2>10. keys' = keys \cup {[key |-> r.key, fingerprint |-> Fingerprint(r), id |-> a.id]}
    BY <1>1, <2>8 DEF Save
  <2>11. [key |-> r.key, fingerprint |-> Fingerprint(r), id |-> a.id] = Row(a)
    BY <2>3, <2>8 DEF Row
  <2>12. Row(a) \in keys
    BY DEF KeysComplete
  <2> QED
    BY <2>9, <2>10, <2>11, <2>12
<1>2. CASE ~(r \in Applications /\ \E k \in keys : k.key = r.key)
  <2>1. Answer(r) = IF Valid(r) /\ FreshId(r) THEN r ELSE NULL
    BY <1>2 DEF Answer
  <2>2. Answer(r) # NULL
    BY DEF Save
  <2>3. Valid(r) /\ FreshId(r) /\ Answer(r) = r
    BY <2>1, <2>2
  <2>4. accepted' = accepted \cup {r}
    BY <2>3 DEF Save
  <2>5. r \notin Applications => keys' = keys
    BY DEF Save
  <2>6. r \in Applications => keys' = keys \cup {Row(r)}
    BY <2>3 DEF Save, Row
  <2> QED
    BY <1>2, <2>3, <2>4, <2>5, <2>6 DEF Added
<1> QED
  BY <1>1, <1>2

(* An addition keeps what is there, and the primary key finds it. *)
LEMMA AdditionKeeps ==
  ASSUME UniqueIds, NEW r, Added(r)
  PROVE  /\ UniqueIds'
         /\ \A s \in accepted : s \in accepted' /\ s.id # r.id
         /\ \A set : Accepted(set)' = Accepted(set) \cup ({r} \cap set)
BY DEF UniqueIds, Added, FreshId, Accepted

LEMMA TypesAreKept ==
  ASSUME AppInv, NEW r \in Requests, Added(r), UNCHANGED experience
  PROVE  (ApplicationsTypeOK /\ KeysComplete /\ OnePerKey)'
<1>1. UniqueIds
  BY DEF AppInv, ApplicationsTypeOK, UniqueIds
<1>2. /\ UniqueIds'
      /\ \A s \in accepted : s \in accepted' /\ s.id # r.id
      /\ Accepted(Applications)' = Accepted(Applications) \cup ({r} \cap Applications)
  BY <1>1, AdditionKeeps
<1>3. accepted' \subseteq Requests
  BY DEF AppInv, ApplicationsTypeOK, Added
<1>4. \A k \in keys : \E a \in Accepted(Applications) : k = Row(a)
  BY DEF AppInv, ApplicationsTypeOK, Row
<1>5. ASSUME NEW k \in keys' PROVE \E a \in Accepted(Applications)' : k = Row(a)
  <2>1. CASE r \in Applications
    <3>1. r \in Accepted(Applications)'
      BY <1>2, <2>1
    <3>2. k \in keys \/ k = Row(r)
      BY <1>5, <2>1 DEF Added
    <3> QED
      BY <1>2, <1>4, <3>1, <3>2
  <2>2. CASE r \notin Applications
    BY <1>2, <1>4, <1>5, <2>2 DEF Added
  <2> QED
    BY <2>1, <2>2
<1>6. KeysComplete'
  BY <1>2 DEF AppInv, KeysComplete, Added, Row, Fingerprint
<1>7. OnePerKey'
  <2>1. \A a \in Accepted(Applications) : Row(a) \in keys /\ Row(a).key = a.key
    BY DEF AppInv, KeysComplete, Row
  <2>2. r \in Applications => \A a \in Accepted(Applications) : a.key # r.key
    BY <2>1 DEF Added
  <2> QED
    BY <1>2, <2>2 DEF AppInv, OnePerKey
<1>8. experience' \subseteq Ids'
  BY DEF AppInv, ApplicationsTypeOK, Ids
<1> QED
  BY <1>2, <1>3, <1>5, <1>6, <1>7, <1>8 DEF ApplicationsTypeOK, UniqueIds, Row, Requests, Fingerprint

-----------------------------------------------------------------------------
(* None is no id. *)
LEMMA IdsAreNumbers == Ids \subseteq Nat /\ NULL \notin Ids
BY RecallAssumption, ApplicationAssumption DEF Ids

(* An instant is a number; every time compared is one. *)
LEMMA CreationIsANumber ==
  ASSUME NEW id \in Ids
  PROVE  CreatedAt(id) \in Int
<1>1. \E r \in Records : r.id = id
  BY DEF Ids
<1>2. (CHOOSE r \in Records : r.id = id) \in Records
  BY <1>1
<1> QED
  BY <1>2, RecallAssumption DEF CreatedAt

(* Each new application is later than its query, and that than its criterion. *)
LEMMA AppliedInTimeIsKept ==
  ASSUME AppInv, NEW r \in Requests, Added(r)
  PROVE  AppliedInTime'
<1>1. UniqueIds
  BY DEF AppInv, ApplicationsTypeOK, UniqueIds
<1>2. \A set : Accepted(set)' = Accepted(set) \cup ({r} \cap set)
  BY <1>1, AdditionKeeps
<1>3. Accepted(Applications)' = Accepted(Applications) \cup ({r} \cap Applications)
      /\ Accepted(Criteria) \subseteq Accepted(Criteria)'
  BY <1>2
<1>4. ASSUME r \in Applications
      PROVE  /\ CreatedAt(r.query) <= r.applied_at
             /\ \E c \in Accepted(Criteria) :
                  c.id = r.criterion /\ c.fixed_at <= CreatedAt(r.query)
  <2>1. ValidApplication(r)
    BY <1>4 DEF Added, Valid
  <2>2. r.query \in Ids /\ r.retrieval \in Ids /\ r.applied_at \in Int
    BY <1>4, ApplicationAssumption
  <2>3. CreatedAt(r.query) \in Int /\ CreatedAt(r.retrieval) \in Int
    BY <2>2, CreationIsANumber
  <2>4. /\ CreatedAt(r.query) <= CreatedAt(r.retrieval)
        /\ Lookup(r.criterion).fixed_at <= CreatedAt(r.query)
        /\ \A id \in {r.retrieval, r.action, r.environment, r.projection} \ {NULL} :
             CreatedAt(id) <= r.applied_at
    BY <2>1 DEF ValidApplication, TimelyContext
  <2>5. r.retrieval # NULL
    BY <2>2, IdsAreNumbers
  <2>6. CreatedAt(r.retrieval) <= r.applied_at
    BY <2>4, <2>5
  <2>7. CreatedAt(r.query) <= r.applied_at
    BY <2>2, <2>3, <2>4, <2>6
  <2>8. Lookup(r.criterion) \in Accepted(Criteria) /\ Lookup(r.criterion).id = r.criterion
    BY <1>1, <2>1, RefersFinds DEF ValidApplication
  <2> QED
    BY <2>4, <2>7, <2>8
<1> QED
  BY <1>3, <1>4 DEF AppInv, AppliedInTime, CreatedAt

(* Each new observation is later than the applications it is of. *)
LEMMA ObservedInTimeIsKept ==
  ASSUME AppInv, NEW r \in Requests, Added(r)
  PROVE  ObservedInTime'
<1>1. UniqueIds
  BY DEF AppInv, ApplicationsTypeOK, UniqueIds
<1>2. \A set : Accepted(set)' = Accepted(set) \cup ({r} \cap set)
  BY <1>1, AdditionKeeps
<1>3. /\ Accepted(Observations)' = Accepted(Observations) \cup ({r} \cap Observations)
      /\ Accepted(Applications) \subseteq Accepted(Applications)'
  BY <1>2
<1>4. ASSUME r \in Observations, NEW id \in r.applications
      PROVE  \E a \in Accepted(Applications) :
               a.id = id /\ a.action = r.action /\ a.applied_at <= r.observed_at
  <2>1. ValidObservation(r)
    BY <1>4 DEF Added, Valid
  <2>2. Lookup(id) \in Accepted(Applications) /\ Lookup(id).id = id
    BY <1>1, <2>1, RefersFinds DEF ValidObservation, ReferAll
  <2> QED
    BY <2>1, <2>2 DEF ValidObservation
<1> QED
  BY <1>3, <1>4 DEF AppInv, ObservedInTime

(* Each new evaluation finds its ground among the records accepted before. *)
LEMMA GroundIsKept ==
  ASSUME AppInv, NEW r \in Requests, Added(r)
  PROVE  EvaluationsAreGrounded'
<1>1. UniqueIds
  BY DEF AppInv, ApplicationsTypeOK, UniqueIds
<1>2. \A set : Accepted(set)' = Accepted(set) \cup ({r} \cap set)
  BY <1>1, AdditionKeeps
<1>3. /\ Accepted(Evaluations)' = Accepted(Evaluations) \cup ({r} \cap Evaluations)
      /\ Accepted(Applications) \subseteq Accepted(Applications)'
      /\ Accepted(Observations) \subseteq Accepted(Observations)'
      /\ Accepted(Criteria) \subseteq Accepted(Criteria)'
  BY <1>2
<1> DEFINE Ground(e, id, a, c, o) ==
      /\ a.id = id /\ c.id = e.criterion /\ o.id \in e.observations
      /\ a.criterion = c.id /\ a.id \in o.applications /\ o.action = a.action
      /\ c.fixed_at <= CreatedAt(a.query)
      /\ CreatedAt(a.query) <= a.applied_at
      /\ a.applied_at <= o.observed_at /\ o.observed_at <= e.evaluated_at
<1>4. ASSUME r \in Evaluations, r.observations # {}, NEW id \in r.applications
      PROVE  \E a \in Accepted(Applications), c \in Accepted(Criteria),
                o \in Accepted(Observations) : Ground(r, id, a, c, o)
  <2>1. ValidEvaluation(r)
    BY <1>4 DEF Added, Valid
  <2>2. PICK oid \in r.observations : id \in Lookup(oid).applications
    BY <2>1, <1>4 DEF ValidEvaluation, Covered
  <2>3. /\ Lookup(oid) \in Accepted(Observations) /\ Lookup(oid).id = oid
        /\ Lookup(oid).observed_at <= r.evaluated_at
    BY <1>1, <2>1, RefersFinds DEF ValidEvaluation, ReferAll
  <2>4. PICK a \in Accepted(Applications) :
          /\ a.id = id /\ a.action = Lookup(oid).action
          /\ a.applied_at <= Lookup(oid).observed_at
    BY <2>2, <2>3 DEF AppInv, ObservedInTime
  <2>5. a = Lookup(id)
    BY <1>1, <2>4, LookupFinds DEF Accepted
  <2>6. a.criterion = r.criterion
    BY <1>4, <2>1, <2>5 DEF ValidEvaluation
  <2>7. PICK c \in Accepted(Criteria) :
          c.id = a.criterion /\ c.fixed_at <= CreatedAt(a.query)
    BY DEF AppInv, AppliedInTime
  <2>8. CreatedAt(a.query) <= a.applied_at
    BY DEF AppInv, AppliedInTime
  <2>9. Ground(r, id, a, c, Lookup(oid))
    BY <2>2, <2>3, <2>4, <2>6, <2>7, <2>8
  <2> HIDE DEF Ground
  <2> QED
    BY <2>3, <2>9
<1>5. ASSUME NEW e \in Accepted(Evaluations)', e.observations # {}, NEW id \in e.applications
      PROVE  \E a \in Accepted(Applications), c \in Accepted(Criteria),
                o \in Accepted(Observations) : Ground(e, id, a, c, o)
  <2>1. CASE e \in Accepted(Evaluations)
    BY <1>5, <2>1 DEF AppInv, EvaluationsAreGrounded
  <2>2. CASE e = r /\ r \in Evaluations
    <3> HIDE DEF Ground
    <3> QED
      BY <1>4, <1>5, <2>2
  <2> QED
    BY <1>3, <2>1, <2>2
<1>6. \A q : CreatedAt(q)' = CreatedAt(q)
  BY DEF CreatedAt
<1>7. ASSUME NEW e \in Accepted(Evaluations)', e.observations # {}, NEW id \in e.applications
      PROVE  \E a \in Accepted(Applications)', c \in Accepted(Criteria)',
                o \in Accepted(Observations)' : Ground(e, id, a, c, o)
  <2>1. PICK a \in Accepted(Applications), c \in Accepted(Criteria),
             o \in Accepted(Observations) : Ground(e, id, a, c, o)
    BY <1>5, <1>7
  <2> HIDE DEF Ground
  <2> QED
    BY <1>3, <2>1
<1> QED
  BY <1>7 DEF EvaluationsAreGrounded, CreatedAt

-----------------------------------------------------------------------------
(* A record that nothing corrects yet, nor itself, closes no circle. *)
LEMMA NoCircleCloses ==
  ASSUME NEW set, WellFounded(set), NEW r, Added(r),
         \A s \in Accepted(set) \cup ({r} \cap set) : s.supersedes # r.id
  PROVE  WellFounded(set)'
<1>1. Accepted(set)' = Accepted(set) \cup ({r} \cap set)
  BY DEF Accepted, Added
<1>2. SUFFICES ASSUME NEW circle \in SUBSET (Accepted(set)'), circle # {}
               PROVE  \E q \in circle : \A s \in circle : q.supersedes # s.id
  BY DEF WellFounded
<1>3. \A q \in circle : q.supersedes # r.id
  BY <1>1
<1>4. CASE circle \ {r} = {}
  BY <1>2, <1>3, <1>4
<1>5. CASE circle \ {r} # {}
  <2>1. circle \ {r} \in SUBSET Accepted(set)
    BY <1>1
  <2>2. PICK q \in circle \ {r} : \A s \in circle \ {r} : q.supersedes # s.id
    BY <1>5, <2>1 DEF WellFounded
  <2> QED
    BY <1>3, <2>2
<1> QED
  BY <1>4, <1>5

(* Each new correction corrects an accepted record of its own subject. *)
LEMMA CorrectionsAreKept ==
  ASSUME AppInv, NEW r \in Requests, Added(r)
  PROVE  CorrectionsKeepTheSubject'
<1>1. UniqueIds
  BY DEF AppInv, ApplicationsTypeOK, UniqueIds
<1>2. \A set : Accepted(set)' = Accepted(set) \cup ({r} \cap set)
  BY <1>1, AdditionKeeps
<1>3. /\ Accepted(Evaluations)' = Accepted(Evaluations) \cup ({r} \cap Evaluations)
      /\ Accepted(Observations)' = Accepted(Observations) \cup ({r} \cap Observations)
  BY <1>2
<1>4. r.id \in Nat /\ r.id # NULL
  BY ApplicationAssumption DEF Requests
<1>5. \A s \in accepted : s.id # r.id
  BY DEF Added, FreshId
<1>6. ASSUME r \in Observations, r.supersedes # NULL
      PROVE  \E p \in Accepted(Observations) :
               p.id = r.supersedes /\ p.action = r.action /\ p.observed_at <= r.observed_at
  <2>1. ValidObservation(r)
    BY <1>6 DEF Added, Valid
  <2>2. Lookup(r.supersedes) \in Accepted(Observations) /\ Lookup(r.supersedes).id = r.supersedes
    BY <1>1, <1>6, <2>1, RefersFinds DEF ValidObservation
  <2> QED
    BY <1>6, <2>1, <2>2 DEF ValidObservation
<1>7. ASSUME r \in Evaluations, r.supersedes # NULL
      PROVE  \E f \in Accepted(Evaluations) :
               /\ f.id = r.supersedes /\ f.criterion = r.criterion
               /\ f.applications = r.applications /\ f.evaluated_at <= r.evaluated_at
  <2>1. ValidEvaluation(r)
    BY <1>7 DEF Added, Valid
  <2>2. Lookup(r.supersedes) \in Accepted(Evaluations) /\ Lookup(r.supersedes).id = r.supersedes
    BY <1>1, <1>7, <2>1, RefersFinds DEF ValidEvaluation
  <2>3. Corrects(r, Lookup(r.supersedes))
    BY <1>7, <2>1 DEF ValidEvaluation
  <2> QED
    BY <2>2, <2>3 DEF Corrects
<1>8. \A o \in Accepted(Observations) \cup ({r} \cap Observations) : o.supersedes # NULL =>
        \E p \in Accepted(Observations) :
          p.id = o.supersedes /\ p.action = o.action /\ p.observed_at <= o.observed_at
  BY <1>6 DEF AppInv, CorrectionsKeepTheSubject
<1>9. \A e \in Accepted(Evaluations) \cup ({r} \cap Evaluations) : e.supersedes # NULL =>
        \E f \in Accepted(Evaluations) :
          /\ f.id = e.supersedes /\ f.criterion = e.criterion
          /\ f.applications = e.applications /\ f.evaluated_at <= e.evaluated_at
  BY <1>7 DEF AppInv, CorrectionsKeepTheSubject
<1>10. WellFounded(Observations)'
  <2>1. \A o \in Accepted(Observations) \cup ({r} \cap Observations) : o.supersedes # r.id
    BY <1>4, <1>5, <1>8 DEF Accepted
  <2> QED
    BY <2>1, NoCircleCloses DEF AppInv, CorrectionsKeepTheSubject
<1>11. WellFounded(Evaluations)'
  <2>1. \A e \in Accepted(Evaluations) \cup ({r} \cap Evaluations) : e.supersedes # r.id
    BY <1>4, <1>5, <1>9 DEF Accepted
  <2> QED
    BY <2>1, NoCircleCloses DEF AppInv, CorrectionsKeepTheSubject
<1> QED
  BY <1>3, <1>8, <1>9, <1>10, <1>11 DEF CorrectionsKeepTheSubject

-----------------------------------------------------------------------------
LEMMA InitAppInv == ApplicationsInit => AppInv
BY DEF ApplicationsInit, AppInv, ApplicationsTypeOK, KeysComplete, OnePerKey,
       AppliedInTime, ObservedInTime, EvaluationsAreGrounded,
       CorrectionsKeepTheSubject, WellFounded, Accepted

(* The store's records keep their account whatever becomes of the others. *)
LEMMA AccountIsTheStores ==
  ASSUME AppInv, UNCHANGED <<accepted, keys>>, experience' \subseteq Ids
  PROVE  AppInv'
BY DEF AppInv, ApplicationsTypeOK, KeysComplete, OnePerKey, Row, Fingerprint,
       AppliedInTime, ObservedInTime, EvaluationsAreGrounded,
       CorrectionsKeepTheSubject, WellFounded, Accepted, CreatedAt, Ids, Requests

LEMMA AppStepCases ==
  ASSUME AppInv, [ApplicationsNext]_applicationVars
  PROVE  AppInv'
<1>1. ASSUME NEW r \in Requests, Save(r) PROVE AppInv'
  <2>1. UNCHANGED experience
    BY <1>1 DEF Save
  <2>2. CASE UNCHANGED <<accepted, keys>>
    BY <2>1, <2>2, AccountIsTheStores DEF AppInv, ApplicationsTypeOK
  <2>3. CASE Added(r)
    BY <2>1, <2>3, TypesAreKept, AppliedInTimeIsKept, ObservedInTimeIsKept,
       GroundIsKept, CorrectionsAreKept DEF AppInv
  <2> QED
    BY <1>1, <2>2, <2>3, SaveAdds DEF AppInv
<1>2. ASSUME NEW id \in Ids, ExperienceStep(id) PROVE AppInv'
  <2>1. experience' \subseteq Ids
    BY <1>2 DEF AppInv, ApplicationsTypeOK, ExperienceStep, SaveExperience, DeleteExperience
  <2> QED
    BY <1>2, <2>1, AccountIsTheStores DEF ExperienceStep
<1>3. CASE UNCHANGED applicationVars
  BY <1>3, AccountIsTheStores DEF applicationVars, AppInv, ApplicationsTypeOK
<1> QED
  BY <1>1, <1>2, <1>3 DEF ApplicationsNext

(* A complete table of keys answers every repeated request. *)
LEMMA KeysAnswer ==
  ASSUME AppInv
  PROVE  RetriesAreAnswered
<1>1. UniqueIds
  BY DEF AppInv, ApplicationsTypeOK, UniqueIds
<1>2. ASSUME NEW r \in Applications, NEW a \in Accepted(Applications), r.key = a.key
      PROVE  Answer(r) = IF Fingerprint(r) = Fingerprint(a) THEN a ELSE NULL
  <2> DEFINE bound == CHOOSE k \in keys : k.key = r.key
  <2>1. (\E k \in keys : k.key = r.key) /\ bound = Row(a)
    BY <1>2, BoundKey DEF AppInv
  <2>2. Answer(r) = IF bound.fingerprint = Fingerprint(r) THEN Lookup(bound.id) ELSE NULL
    BY <2>1 DEF Answer
  <2>3. Row(a).id = a.id /\ Row(a).fingerprint = Fingerprint(a)
    BY DEF Row
  <2>4. Lookup(a.id) = a
    BY <1>1, LookupFinds DEF Accepted
  <2> HIDE DEF bound
  <2> QED
    BY <2>1, <2>2, <2>3, <2>4
<1> QED
  BY <1>2 DEF AppInv, OnePerKey, RetriesAreAnswered

(***************************************************************************)
(* Whatever callers offer to save and whatever the experience store loses: *)
(* ids stay unique over the four types of application records, and each    *)
(* bound key has its application.                                          *)
(***************************************************************************)
THEOREM ApplicationTypes == ApplicationsSpec => []ApplicationsTypeOK
<1>1. AppInv /\ [ApplicationsNext]_applicationVars => AppInv'
  BY AppStepCases
<1>2. AppInv => ApplicationsTypeOK
  BY DEF AppInv
<1> QED
  BY <1>1, <1>2, InitAppInv, PTL DEF ApplicationsSpec

(***************************************************************************)
(* An application delivered again under its idempotency key is answered    *)
(* with the one application of that key, or rejected if its payload is     *)
(* another, however often and after whatever it is repeated.               *)
(***************************************************************************)
THEOREM RetriesAlwaysAnswered == ApplicationsSpec => []RetriesAreAnswered
<1>1. AppInv /\ [ApplicationsNext]_applicationVars => AppInv'
  BY AppStepCases
<1>2. AppInv => RetriesAreAnswered
  BY KeysAnswer
<1> QED
  BY <1>1, <1>2, InitAppInv, PTL DEF ApplicationsSpec

(***************************************************************************)
(* Every accepted evaluation with observations has, for each application   *)
(* it judges, a criterion fixed before the query, and an observation after *)
(* the application and before the evaluation: the checks save makes of     *)
(* each record alone add up to the whole chain.                            *)
(***************************************************************************)
THEOREM EvaluationsStayGrounded == ApplicationsSpec => []EvaluationsAreGrounded
<1>1. AppInv /\ [ApplicationsNext]_applicationVars => AppInv'
  BY AppStepCases
<1>2. AppInv => EvaluationsAreGrounded
  BY DEF AppInv
<1> QED
  BY <1>1, <1>2, InitAppInv, PTL DEF ApplicationsSpec

(***************************************************************************)
(* Corrections of observations and of evaluations keep their subject, are  *)
(* not earlier than what they correct, and never lead back to themselves,  *)
(* for any number of records and any times.                                *)
(***************************************************************************)
THEOREM CorrectionsStaySound == ApplicationsSpec => []CorrectionsKeepTheSubject
<1>1. AppInv /\ [ApplicationsNext]_applicationVars => AppInv'
  BY AppStepCases
<1>2. AppInv => CorrectionsKeepTheSubject
  BY DEF AppInv
<1> QED
  BY <1>1, <1>2, InitAppInv, PTL DEF ApplicationsSpec

-----------------------------------------------------------------------------
(***************************************************************************)
(* Recall.  What it answers is an operator on the records that are there,  *)
(* so its properties hold in every state; what they rest on is that scores *)
(* are natural numbers, that Before is a strict total order of finitely    *)
(* many lessons, and that a shared tag always counts (ScoreAssumption).    *)
(***************************************************************************)
LEMMA QuotientFacts ==
  ASSUME NEW a \in Nat, NEW n \in Nat, n > 0
  PROVE  a \div n \in Nat /\ (a >= n => a \div n > 0) /\ (a = 0 => a \div n = 0)
OBVIOUS

(* Tags count exactly if one is shared. *)
LEMMA TagFacts ==
  ASSUME NEW q \in Queries, NEW l \in Lessons
  PROVE  TagShare(q, l) \in Nat /\ (TagShare(q, l) > 0 <=> q.tags \cap l.tags # {})
<1> DEFINE all == q.tags \cup l.tags
           shared == q.tags \cap l.tags
           c == Cardinality(shared)
           n == Cardinality(all)
<1>1. IsFiniteSet(all) /\ IsFiniteSet(shared) /\ n <= MaxTags
  <2>1. IsFiniteSet(q.tags) /\ IsFiniteSet(l.tags) /\ n <= MaxTags
    BY ScoreAssumption
  <2>2. IsFiniteSet(all)
    BY <2>1, FS_Union
  <2>3. IsFiniteSet(shared)
    BY <2>1, FS_Intersection
  <2> QED
    BY <2>1, <2>2, <2>3
<1>2. /\ c \in Nat /\ n \in Nat
      /\ c = 0 <=> shared = {}
      /\ n = 0 <=> all = {}
  BY <1>1, FS_CardinalityType, FS_EmptySet
<1>3. TagShare(q, l) = IF all = {} THEN 0 ELSE (1100000 * c) \div n
  BY SMT DEF TagShare
<1>4. CASE all = {}
  BY <1>3, <1>4, SMT
<1>5. CASE all # {}
  <2> DEFINE a == 1100000 * c
  <2>1. a \in Nat /\ n > 0 /\ (c # 0 => a >= n) /\ (c = 0 => a = 0)
    BY <1>1, <1>2, <1>5, SMT DEF MaxTags
  <2>2. TagShare(q, l) = a \div n
    BY <1>3, <1>5, SMT
  <2> HIDE DEF a, n, c
  <2>3. a \div n \in Nat /\ (a >= n => a \div n > 0) /\ (a = 0 => a \div n = 0)
    BY <1>2, <2>1, QuotientFacts
  <2> QED
    BY <1>2, <2>1, <2>2, <2>3
<1> QED
  BY <1>4, <1>5

(* Trust is a mean of finitely many. *)
LEMMA TrustFacts ==
  ASSUME NEW l \in Lessons
  PROVE  TrustScore(l) \in Nat
<1> DEFINE cited == EvidenceOf(l)
           Of(level) == Cardinality({e \in cited : e.trust_level = level})
           halves == 1 * Of("reported") + 2 * Of("verified")
           n == Cardinality(cited)
<1>1. cited \in SUBSET Evidence
  BY DEF EvidenceOf, Present
<1>2. /\ IsFiniteSet(cited)
      /\ \A level : IsFiniteSet({e \in cited : e.trust_level = level})
  <2>1. \A S \in SUBSET Evidence : IsFiniteSet(S)
    BY RecallAssumption, FS_Subset
  <2> QED
    BY <1>1, <2>1
<1>3. /\ n \in Nat /\ (n = 0 <=> cited = {})
      /\ Of("reported") \in Nat /\ Of("verified") \in Nat
  BY <1>2, FS_CardinalityType, FS_EmptySet
<1>4. TrustScore(l) = IF cited = {} THEN 0 ELSE (1500000 * halves) \div (2 * n)
  BY SMT DEF TrustScore, TrustHalves
<1> DEFINE a == 1500000 * halves
           d == 2 * n
<1>5. a \in Nat /\ d \in Nat /\ (cited # {} => d > 0)
  BY <1>3, SMT
<1>6. TrustScore(l) = IF cited = {} THEN 0 ELSE a \div d
  BY <1>4, SMT
<1> HIDE DEF a, d
<1> QED
  BY <1>5, <1>6, QuotientFacts

(* The domain alone reaches the gate and does not pass it. *)
LEMMA ShareFacts ==
  ASSUME NEW q \in Queries, NEW l \in Lessons
  PROVE  /\ DomainShare(q, l) \in Nat /\ ScopeGate \in Nat
         /\ l.domain = q.domain => DomainShare(q, l) = ScopeGate
         /\ TaskShare(q, l) \in Nat
         /\ TaskShare(q, l) > 0 <=> q.task_type \in l.task_types
BY SMT DEF DomainShare, TaskShare, ScopeGate

(* Scores are natural numbers, exact and as shown. *)
LEMMA ScoreFacts ==
  ASSUME NEW q \in Queries, NEW l \in Lessons
  PROVE  FinalScore(q, l) \in Nat /\ PublicScore(q, l) \in Nat
<1>1. ScopeScore(q, l) \in Nat
  BY ShareFacts, TagFacts DEF ScopeScore
<1>2. l.confidence \in Nat /\ l.recency \in Nat
  BY RecallAssumption, SMT DEF IsLesson
<1>3. FinalScore(q, l) \in Nat
  BY <1>1, <1>2, TrustFacts DEF FinalScore
<1> QED
  BY <1>3 DEF PublicScore

(* The order of the results is a strict total order. *)
LEMMA RankingFacts ==
  ASSUME NEW q \in Queries, NEW l \in Lessons, NEW m \in Lessons
  PROVE  /\ ~Before(q, l, l)
         /\ l # m => Before(q, l, m) \/ Before(q, m, l)
         /\ \A k \in Lessons : Before(q, l, m) /\ Before(q, m, k) => Before(q, l, k)
<1>1. \A k \in Lessons : PublicScore(q, k) \in Nat /\ k.id \in Nat
  BY ScoreFacts, RecallAssumption DEF Records
<1>2. l.id = m.id => l = m
  BY RecallAssumption DEF Records
<1> QED
  BY <1>1, <1>2 DEF Before

(* The first n ranks are n. *)
LEMMA FromZero ==
  ASSUME NEW n \in Nat
  PROVE  IsFiniteSet(0..(n - 1)) /\ Cardinality(0..(n - 1)) = n
<1>1. PICK a, b : a = 0 /\ b = n - 1
  OBVIOUS
<1>2. a \in Int /\ b \in Int
  BY <1>1
<1>3. IsFiniteSet(a..b) /\ Cardinality(a..b) = IF a > b THEN 0 ELSE b - a + 1
  BY <1>2, FS_Interval
<1> QED
  BY <1>1, <1>3

(* As many have one of the first k ranks as there are ranks, if not fewer. *)
LEMMA RankCount ==
  ASSUME NEW S, IsFiniteSet(S), NEW k \in Nat,
         NEW R \in [S -> 0..(Cardinality(S) - 1)],
         \A x, y \in S : R[x] = R[y] => x = y,
         NEW l \in S, ~(R[l] < k)
  PROVE  Cardinality({x \in S : R[x] < k}) = k
<1>1. PICK n : n = Cardinality(S)
  OBVIOUS
<1>2. n \in Nat /\ k <= n - 1
  BY <1>1, FS_CardinalityType
<1>3. R \in Injection(S, 0..(n - 1))
  BY <1>1 DEF Injection, IsInjective
<1>4. R \in Surjection(S, 0..(n - 1))
  <2>1. IsFiniteSet(0..(n - 1)) /\ Cardinality(0..(n - 1)) = n
    BY <1>2, FromZero
  <2> QED
    BY <1>1, <1>3, <2>1, FS_Injection
<1>5. PICK first : first = {x \in S : R[x] < k}
  OBVIOUS
<1>6. PICK G : G = [x \in first |-> R[x]]
  OBVIOUS
<1>7. G \in [first -> 0..(k - 1)]
  BY <1>5, <1>6
<1>8. ASSUME NEW x \in first, NEW y \in first, G[x] = G[y] PROVE x = y
  BY <1>5, <1>6, <1>8
<1>9. ASSUME NEW j \in 0..(k - 1) PROVE \E x \in first : G[x] = j
  <2>1. j \in 0..(n - 1) /\ j < k
    BY <1>2
  <2>2. PICK x \in S : R[x] = j
    BY <1>4, <2>1 DEF Surjection
  <2> QED
    BY <1>5, <1>6, <2>1, <2>2
<1>10. G \in Bijection(first, 0..(k - 1))
  BY <1>7, <1>8, <1>9 DEF Bijection, Injection, IsInjective, Surjection
<1>11. IsFiniteSet(first) /\ Cardinality(0..(k - 1)) = k
  <2>1. first \in SUBSET S
    BY <1>5
  <2> QED
    BY <2>1, FS_Subset, FromZero
<1>12. Cardinality(0..(k - 1)) = Cardinality(first)
  BY <1>10, <1>11, FS_Bijection DEF ExistsBijection
<1> QED
  BY <1>5, <1>11, <1>12

(* What ranks above a lesson in a list, and how much that is. *)
Above(q, found, l) == {m \in found : Before(q, m, l)}
Rank(q, found, l) == Cardinality(Above(q, found, l))

LEMMA RankFacts ==
  ASSUME NEW q \in Queries, NEW found \in SUBSET Lessons, NEW x \in found
  PROVE  /\ IsFiniteSet(Above(q, found, x))
         /\ Rank(q, found, x) \in Nat
         /\ Rank(q, found, x) \in 0..(Cardinality(found) - 1)
<1>1. IsFiniteSet(found) /\ Cardinality(found) \in Nat
  BY RecallAssumption, FS_Subset, FS_CardinalityType
<1>2. PICK S : S = found \ {x}
  OBVIOUS
<1>3. Above(q, found, x) \in SUBSET S
  BY <1>2, RankingFacts DEF Above
<1>4. IsFiniteSet(S) /\ Cardinality(S) = Cardinality(found) - 1
  BY <1>1, <1>2, FS_RemoveElement
<1>5. IsFiniteSet(Above(q, found, x)) /\ Rank(q, found, x) <= Cardinality(S)
  BY <1>3, <1>4, FS_Subset DEF Rank
<1>6. Rank(q, found, x) \in Nat
  BY <1>5, FS_CardinalityType DEF Rank
<1> QED
  BY <1>1, <1>4, <1>5, <1>6

(* Who ranks above another has a smaller rank. *)
LEMMA RanksRise ==
  ASSUME NEW q \in Queries, NEW found \in SUBSET Lessons,
         NEW x \in found, NEW y \in found, Before(q, x, y)
  PROVE  Rank(q, found, x) < Rank(q, found, y)
<1>1. PICK S : S = Above(q, found, y) \ {x}
  OBVIOUS
<1>2. Above(q, found, x) \in SUBSET S /\ x \in Above(q, found, y)
  BY <1>1, RankingFacts DEF Above
<1>3. IsFiniteSet(S) /\ Cardinality(S) = Rank(q, found, y) - 1
  <2>1. PICK A : A = Above(q, found, y)
    OBVIOUS
  <2>2. IsFiniteSet(A) /\ x \in A /\ S = A \ {x} /\ Cardinality(A) = Rank(q, found, y)
    BY <1>1, <1>2, <2>1, RankFacts DEF Rank
  <2> QED
    BY <2>2, FS_RemoveElement
<1>4. Rank(q, found, x) <= Rank(q, found, y) - 1
  <2>1. Cardinality(Above(q, found, x)) <= Cardinality(S)
    BY <1>2, <1>3, FS_Subset
  <2> QED
    BY <1>3, <2>1 DEF Rank
<1>5. Rank(q, found, x) \in Int /\ Rank(q, found, y) \in Int
  BY RankFacts
<1> QED
  BY <1>4, <1>5

(***************************************************************************)
(* The cut of an ordered list: whoever is left out comes after all that    *)
(* are kept, and then as many are kept as were asked for.                  *)
(***************************************************************************)
LEMMA CutFacts ==
  ASSUME NEW q \in Queries, NEW found \in SUBSET Lessons, NEW k \in Nat,
         NEW l \in found, ~(Rank(q, found, l) < k)
  PROVE  /\ Cardinality({m \in found : Rank(q, found, m) < k}) = k
         /\ \A m \in found : Rank(q, found, m) < k => Before(q, m, l)
<1>1. \A x \in found : Rank(q, found, x) \in Nat
  BY RankFacts
<1>2. ASSUME NEW m \in found, Rank(q, found, m) < k PROVE Before(q, m, l)
  <2>1. m # l /\ ~(Rank(q, found, l) < Rank(q, found, m))
    BY <1>1, <1>2
  <2> QED
    BY <2>1, RanksRise, RankingFacts
<1>3. PICK R : R = [x \in found |-> Rank(q, found, x)]
  OBVIOUS
<1>4. R \in [found -> 0..(Cardinality(found) - 1)]
  BY <1>3, RankFacts
<1>5. ASSUME NEW x \in found, NEW y \in found, R[x] = R[y] PROVE x = y
  <2>1. Rank(q, found, x) = Rank(q, found, y)
    BY <1>3, <1>5
  <2>2. ~Before(q, x, y) /\ ~Before(q, y, x)
    BY <1>1, <2>1, RanksRise
  <2> QED
    BY <2>2, RankingFacts
<1>6. IsFiniteSet(found)
  BY RecallAssumption, FS_Subset
<1>7. Cardinality({x \in found : R[x] < k}) = k
  <2>1. \A x, y \in found : R[x] = R[y] => x = y
    BY <1>5
  <2>2. ~(R[l] < k)
    BY <1>3
  <2> QED
    BY <1>4, <1>6, <2>1, <2>2, RankCount
<1>8. {x \in found : R[x] < k} = {m \in found : Rank(q, found, m) < k}
  BY <1>3
<1> QED
  BY <1>2, <1>7, <1>8

-----------------------------------------------------------------------------
(* What each gate asks, and that they are asked in the order of GateOrder. *)
LEMMA GateFacts ==
  /\ GateOrder = <<GateOrder[1], GateOrder[2], GateOrder[3], GateOrder[4],
                   GateOrder[5], GateOrder[6], GateOrder[7]>>
  /\ GateOrder[1] = "validation_rejected" /\ GateOrder[2] = "not_yet_effective"
  /\ GateOrder[3] = "expired" /\ GateOrder[4] = "domain_mismatch"
  /\ GateOrder[5] = "insufficient_scope" /\ GateOrder[6] = "access_denied"
  /\ GateOrder[7] = "below_risk_threshold"
BY DEF GateOrder

LEMMA ExcludeFacts ==
  ASSUME NEW q, NEW risk, NEW l
  PROVE  /\ Excludes("validation_rejected", q, risk, l) <=>
              l.status \notin {"human_approved", "active"}
         /\ Excludes("not_yet_effective", q, risk, l) <=> l.effective_from > q.now
         /\ Excludes("expired", q, risk, l) <=>
              l.expires_at # NULL /\ l.expires_at <= q.now
         /\ Excludes("domain_mismatch", q, risk, l) <=> l.domain # q.domain
         /\ Excludes("insufficient_scope", q, risk, l) <=> ScopeScore(q, l) <= ScopeGate
         /\ Excludes("access_denied", q, risk, l) <=>
              \E e \in EvidenceOf(l) : ~AccessAllowed(q, e)
         /\ Excludes("below_risk_threshold", q, risk, l) <=>
              FinalScore(q, l) < MinScore[risk]
BY DEF Excludes

Gates == {"validation_rejected", "not_yet_effective", "expired", "domain_mismatch",
          "insufficient_scope", "access_denied", "below_risk_threshold"}

(* A candidate is there and no gate excludes it. *)
LEMMA CandidateFacts ==
  ASSUME NEW q, NEW risk, NEW l
  PROVE  l \in Candidates(q, risk) <=>
           /\ l \in Present(Lessons)
           /\ \A reason \in Gates : ~Excludes(reason, q, risk, l)
<1>1. Len(GateOrder) + 1 - 1 = 7
  BY DEF GateOrder
<1>2. (\A j \in 1..7 : ~Excludes(GateOrder[j], q, risk, l)) <=>
        \A reason \in Gates : ~Excludes(reason, q, risk, l)
  <2>1. \A j : j \in 1..7 <=> j \in {1, 2, 3, 4, 5, 6, 7}
    OBVIOUS
  <2>2. (\A j \in 1..7 : ~Excludes(GateOrder[j], q, risk, l)) <=>
         \A j \in {1, 2, 3, 4, 5, 6, 7} : ~Excludes(GateOrder[j], q, risk, l)
    BY <2>1, Zenon
  <2> QED
    BY <2>2, GateFacts, Zenon DEF Gates
<1>3. l \in Candidates(q, risk) <=>
        /\ l \in Present(Lessons)
        /\ \A j \in 1..(Len(GateOrder) + 1 - 1) : ~Excludes(GateOrder[j], q, risk, l)
  BY DEF Candidates, Remaining
<1> QED
  BY <1>1, <1>2, <1>3

(* Of a lesson whose records are all there, the links find all evidence. *)
LEMMA IntactEvidence ==
  ASSUME NEW l \in Lessons, Intact(l)
  PROVE  EvidenceOf(l) = LinkedEvidence(l)
BY DEF Intact, EvidenceOf, LinkedEvidence, Present

(* The gates let through what the design calls eligible, and no more. *)
LEMMA GatesAreTheDesign ==
  ASSUME NEW q \in Queries, NEW risk, NEW l \in Present(Lessons), Intact(l)
  PROVE  l \in Candidates(q, risk) <=>
           Eligible(q, l) /\ ~(FinalScore(q, l) < MinScore[risk])
<1>1. l \in Lessons
  BY DEF Present
<1>2. l.domain = q.domain =>
        (ScopeScore(q, l) <= ScopeGate <=>
           ~(q.task_type \in l.task_types \/ q.tags \cap l.tags # {}))
  BY <1>1, ShareFacts, TagFacts DEF ScopeScore
<1>3. EvidenceOf(l) = LinkedEvidence(l)
  BY <1>1, IntactEvidence
<1>4. /\ l.effective_from > q.now <=> ~(l.effective_from <= q.now)
      /\ l.expires_at # NULL => (l.expires_at <= q.now <=> ~(q.now < l.expires_at))
  BY <1>1, RecallAssumption DEF IsLesson
<1>5. l \in Candidates(q, risk) <=>
        /\ ~Excludes("validation_rejected", q, risk, l)
        /\ ~Excludes("not_yet_effective", q, risk, l)
        /\ ~Excludes("expired", q, risk, l)
        /\ ~Excludes("domain_mismatch", q, risk, l)
        /\ ~Excludes("insufficient_scope", q, risk, l)
        /\ ~Excludes("access_denied", q, risk, l)
        /\ ~Excludes("below_risk_threshold", q, risk, l)
  BY CandidateFacts, Zenon DEF Gates
<1> QED
  BY <1>2, <1>3, <1>4, <1>5, ExcludeFacts DEF Eligible

(* The results are the candidates of the first ranks. *)
LEMMA Answered ==
  ASSUME NEW q, NEW risk, NEW k
  PROVE  /\ Recalled(q, risk, k) =
              {l \in Candidates(q, risk) : Rank(q, Candidates(q, risk), l) < k}
         /\ Candidates(q, risk) \in SUBSET Lessons
BY CandidateFacts DEF Recalled, Rank, Above, Present

(* For a list of any length. *)
LEMMA BestIsGiven ==
  ASSUME NEW q \in Queries, NEW risk \in Risks, NEW k \in Nat
  PROVE  GivesTheBest(q, risk, k)
<1> SUFFICES ASSUME NEW l \in Present(Lessons), Intact(l)
             PROVE  LET given    == Recalled(q, risk, k)
                        entitled == {x \in Present(Lessons) :
                                       Eligible(q, x) /\ FinalScore(q, x) >= MinScore[risk]}
                    IN  /\ l \in given => l \in entitled
                        /\ l \in entitled \ given =>
                             /\ Cardinality(given) = k
                             /\ \A m \in given : Before(q, m, l)
  BY DEF GivesTheBest
<1> DEFINE found == Candidates(q, risk)
<1>1. l \in Lessons /\ FinalScore(q, l) \in Nat /\ MinScore[risk] \in Nat
  <2>1. MinScore[risk] \in Nat
    BY SMT DEF MinScore, Risks
  <2> QED
    BY <2>1, ScoreFacts DEF Present
<1>2. l \in found <=> Eligible(q, l) /\ FinalScore(q, l) >= MinScore[risk]
  BY <1>1, GatesAreTheDesign
<1>3. /\ found \in SUBSET Lessons
      /\ Recalled(q, risk, k) = {m \in found : Rank(q, found, m) < k}
  BY Answered
<1> HIDE DEF found
<1>4. ASSUME l \in found, ~(Rank(q, found, l) < k)
      PROVE  /\ Cardinality({m \in found : Rank(q, found, m) < k}) = k
             /\ \A m \in found : Rank(q, found, m) < k => Before(q, m, l)
  BY <1>3, <1>4, CutFacts
<1> QED
  BY <1>2, <1>3, <1>4

(***************************************************************************)
(* recall gives the best of what its design calls eligible, whatever was   *)
(* deleted, to whoever asks: no lesson on evidence he may not see, and     *)
(* none left out for one that ranks below it.  The run checks lists of one *)
(* and two; this holds of lists of any length.                             *)
(***************************************************************************)
THEOREM BestRecalled ==
  ApplicationsSpec =>
    [](/\ RecallGivesTheBest
       /\ \A q \in Queries, risk \in Risks, k \in Nat : GivesTheBest(q, risk, k))
<1>1. \A q \in Queries, risk \in Risks, k \in Nat : GivesTheBest(q, risk, k)
  BY BestIsGiven
<1>2. RecallGivesTheBest
  BY BestIsGiven DEF RecallGivesTheBest
<1> QED
  BY <1>1, <1>2, PTL

(* As many results as there are lessons are all results. *)
LEMMA AllGiven ==
  ASSUME NEW q \in Queries, NEW risk
  PROVE  Recalled(q, risk, Cardinality(Lessons)) = Candidates(q, risk)
<1>1. PICK found : found = Candidates(q, risk)
  OBVIOUS
<1>2. found \in SUBSET Lessons
  BY <1>1, Answered
<1>3. Cardinality(found) <= Cardinality(Lessons)
  BY <1>2, RecallAssumption, FS_Subset
<1>4. Cardinality(found) \in Nat /\ Cardinality(Lessons) \in Nat
  BY <1>2, RecallAssumption, FS_Subset, FS_CardinalityType
<1>5. ASSUME NEW l \in found PROVE Rank(q, found, l) < Cardinality(Lessons)
  BY <1>2, <1>3, <1>4, RankFacts
<1> QED
  BY <1>1, <1>5, Answered

(* Thresholds are shown as they are. *)
LEMMA ThresholdFacts ==
  ASSUME NEW risk \in Risks
  PROVE  /\ MinScore[risk] \in Nat /\ MinScore[risk] \div 10 \in Nat
         /\ MinScore[risk] = 10 * (MinScore[risk] \div 10)
BY SMT DEF Risks, MinScore

(* A score below a threshold is not shown above it, nor the other way. *)
LEMMA RoundingFacts ==
  ASSUME NEW q \in Queries, NEW l \in Lessons, NEW n \in Nat
  PROVE  /\ FinalScore(q, l) < 10 * n => PublicScore(q, l) <= n
         /\ FinalScore(q, l) >= 10 * n => PublicScore(q, l) >= n
BY ScoreFacts DEF PublicScore

(* Only the last gate asks for the risk. *)
LEMMA RiskFacts ==
  ASSUME NEW q \in Queries, NEW lower \in Risks, NEW higher \in Risks,
         MinScore[lower] < MinScore[higher]
  PROVE  \A l : l \in Candidates(q, higher) <=>
                  l \in Candidates(q, lower) /\ ~(FinalScore(q, l) < MinScore[higher])
<1>1. ASSUME NEW l, l \in Present(Lessons), ~(FinalScore(q, l) < MinScore[higher])
      PROVE  ~(FinalScore(q, l) < MinScore[lower])
  BY <1>1, ScoreFacts, ThresholdFacts DEF Present
<1> QED
  BY <1>1, CandidateFacts, ExcludeFacts DEF Gates

(***************************************************************************)
(* At a higher risk, recall gives a beginning of what it gives at a lower  *)
(* one, up to lessons that are shown with the threshold itself.            *)
(***************************************************************************)
THEOREM RiskOnlyCuts == ApplicationsSpec => []RiskCutsTheEnd
<1>1. ASSUME NEW q \in Queries, NEW lower \in Risks, NEW higher \in Risks,
             MinScore[lower] < MinScore[higher]
      PROVE  LET all  == Recalled(q, lower, Cardinality(Lessons))
                 kept == Recalled(q, higher, Cardinality(Lessons))
             IN  /\ kept \subseteq all
                 /\ \A l \in all \ kept, m \in kept :
                      Before(q, l, m) => PublicScore(q, l) = MinScore[higher] \div 10
  <2>1. PICK all, kept : /\ all = Recalled(q, lower, Cardinality(Lessons))
                         /\ kept = Recalled(q, higher, Cardinality(Lessons))
    OBVIOUS
  <2>2. all = Candidates(q, lower) /\ kept = Candidates(q, higher)
    BY <2>1, AllGiven
  <2>3. all \subseteq Lessons /\ kept \subseteq Lessons
    BY <2>2, Answered
  <2>4. PICK n : n = MinScore[higher] \div 10
    OBVIOUS
  <2>5. n \in Nat /\ MinScore[higher] = 10 * n
    BY <2>4, ThresholdFacts
  <2>6. kept \subseteq all
    BY <1>1, <2>2, RiskFacts
  <2>7. ASSUME NEW l \in all \ kept, NEW m \in kept, Before(q, l, m)
        PROVE  PublicScore(q, l) = n
    <3>1. FinalScore(q, l) < 10 * n /\ ~(FinalScore(q, m) < 10 * n)
      BY <1>1, <2>2, <2>5, RiskFacts
    <3>2. FinalScore(q, m) \in Nat
      BY <2>3, ScoreFacts
    <3>3. PublicScore(q, l) <= n /\ PublicScore(q, m) >= n
      BY <2>3, <2>5, <3>1, <3>2, RoundingFacts
    <3>4. PublicScore(q, l) \in Nat /\ PublicScore(q, m) \in Nat
      BY <2>3, ScoreFacts
    <3>5. PublicScore(q, l) >= PublicScore(q, m)
      BY <2>7, <3>4 DEF Before
    <3> QED
      BY <2>5, <3>3, <3>4, <3>5
  <2> QED
    BY <2>1, <2>4, <2>6, <2>7
<1>2. RiskCutsTheEnd
  BY <1>1 DEF RiskCutsTheEnd, Risks
<1> QED
  BY <1>2, PTL

-----------------------------------------------------------------------------
EarlyGates == {"validation_rejected", "not_yet_effective", "expired",
               "domain_mismatch", "insufficient_scope"}

(* A record that is no lesson comes or goes without one. *)
LEMMA LessonsStay ==
  ASSUME [ApplicationsNext]_applicationVars,
         Present(Reflections \cup Evidence)' # Present(Reflections \cup Evidence)
  PROVE  Present(Lessons)' = Present(Lessons)
<1>1. PICK id : experience' = experience \cup {id} \/ experience' = experience \ {id}
  BY DEF ApplicationsNext, ExperienceStep, SaveExperience, DeleteExperience, Save,
         applicationVars, Present
<1>2. PICK r \in Reflections \cup Evidence : r.id = id
  BY <1>1 DEF Present
<1>3. \A l \in Lessons : l.id # id
  BY <1>2, RecallAssumption DEF Records
<1> QED
  BY <1>1, <1>3 DEF Present

(* The first five gates ask nothing of the store. *)
LEMMA EarlyCountsStay ==
  ASSUME Present(Lessons)' = Present(Lessons), NEW q \in Queries, NEW risk,
         NEW reason \in EarlyGates
  PROVE  FilterCount(reason, q, risk)' = FilterCount(reason, q, risk)
<1>1. ASSUME NEW gate \in EarlyGates, NEW l
      PROVE  Excludes(gate, q, risk, l)' = Excludes(gate, q, risk, l)
  BY <1>1 DEF EarlyGates, Excludes, ScopeScore, DomainShare, TaskShare, TagShare
<1>2. PICK i \in 1..5 :
        /\ i = CHOOSE j \in DOMAIN GateOrder : GateOrder[j] = reason
        /\ GateOrder[i] = reason
  <2>1. PICK i \in 1..5 : GateOrder[i] = reason
    BY GateFacts DEF EarlyGates
  <2>2. DOMAIN GateOrder = 1..7
    BY DEF GateOrder
  <2>3. \A j \in 1..7 : GateOrder[j] = reason => j = i
    BY <2>1, GateFacts
  <2> QED
    BY <2>1, <2>2, <2>3
<1>3. \A j \in 1..5 : GateOrder[j] \in EarlyGates
  BY GateFacts DEF EarlyGates
<1>4. Remaining(i, q, risk)' = Remaining(i, q, risk)
  <2>1. \A j \in 1..(i - 1) : GateOrder[j] \in EarlyGates
    <3>1. \A j \in 1..(i - 1) : j \in 1..5
      OBVIOUS
    <3> QED
      BY <1>3, <3>1
  <2>2. \A l : (\A j \in 1..(i - 1) : ~Excludes(GateOrder[j], q, risk, l)') <=>
               (\A j \in 1..(i - 1) : ~Excludes(GateOrder[j], q, risk, l))
    BY <1>1, <2>1
  <2>3. Remaining(i, q, risk)' =
          {l \in Present(Lessons)' :
             \A j \in 1..(i - 1) : ~Excludes(GateOrder[j], q, risk, l)'}
    BY DEF Remaining
  <2> QED
    BY <2>2, <2>3 DEF Remaining
<1>5. FilterCount(reason, q, risk) =
        Cardinality({l \in Remaining(i, q, risk) : Excludes(reason, q, risk, l)})
  BY <1>2 DEF FilterCount
<1>6. FilterCount(reason, q, risk)' =
        Cardinality({l \in Remaining(i, q, risk)' : Excludes(reason, q, risk, l)'})
  BY <1>2 DEF FilterCount
<1> QED
  BY <1>1, <1>4, <1>5, <1>6

(***************************************************************************)
(* Who only sees the counters of the first five gates learns nothing of    *)
(* evidence and reflections: no coming or going of one changes them.       *)
(***************************************************************************)
THEOREM EarlyCountsAreBlind == ApplicationsSpec => EvidenceCountsLate
<1> DEFINE Blind ==
      Present(Reflections \cup Evidence)' # Present(Reflections \cup Evidence) =>
        \A q \in Queries, risk \in Risks,
           reason \in {"validation_rejected", "not_yet_effective", "expired",
                       "domain_mismatch", "insufficient_scope"} :
          FilterCount(reason, q, risk)' = FilterCount(reason, q, risk)
<1>1. [ApplicationsNext]_applicationVars => Blind
  BY LessonsStay, EarlyCountsStay DEF EarlyGates
<1>2. [ApplicationsNext]_applicationVars => [Blind]_experience
  BY <1>1
<1> QED
  BY <1>2, PTL DEF ApplicationsSpec, EvidenceCountsLate

=============================================================================
