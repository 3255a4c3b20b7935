------------------------------ MODULE MCLessons ------------------------------
(* A small instance of LessonApplications, with the recall it builds on. *)
EXTENDS LessonApplications

Lesson(id, tags, confidence, recency, sources) ==
  [id |-> id, created_at |-> 0, domain |-> "qa", task_types |-> {"release"},
   tags |-> tags, confidence |-> confidence, status |-> "active",
   effective_from |-> 0, expires_at |-> NULL, recency |-> recency,
   sources |-> sources]

(***************************************************************************)
(* Lesson 1 is shown with the score 0.55 and lies just below it.  Lesson 2 *)
(* rests on evidence that is not everybody's, and so does lesson 3, which  *)
(* matches no task and one tag of two, has expired for the later query and *)
(* is worth just 0.55 once evidence 21 is gone.  Lesson 4 is effective for *)
(* the later query only, lesson 5 is of another domain.                    *)
(***************************************************************************)
MCLessonRecords ==
  {Lesson(1, {"checkout", "login"}, 200000, 149996, {12}),
   Lesson(2, {"checkout"}, 400000, 500000, {11}),
   [Lesson(3, {"checkout", "login"}, 900000, 750001, {11})
      EXCEPT !.task_types = {}, !.expires_at = 2],
   [Lesson(4, {}, 500000, 1000000, {12}) EXCEPT !.effective_from = 2],
   [Lesson(5, {"checkout"}, 900000, 900000, {12}) EXCEPT !.domain = "ops"]}

MCReflections == {[id |-> 11, created_at |-> 0, evidence_ids |-> {21, 22}],
                  [id |-> 12, created_at |-> 0, evidence_ids |-> {}]}

MCEvidence ==
  {[id |-> 21, created_at |-> 0, trust_level |-> "verified", tenant_id |-> "t1",
    access_policy |-> "owner-and-agent", owner_id |-> "ann", agent_id |-> "bot"],
   [id |-> 22, created_at |-> 0, trust_level |-> "reported", tenant_id |-> NULL,
    access_policy |-> "private", owner_id |-> "ann", agent_id |-> "bot"]}

(* A query at 1, its retrieval at 2, and an action and a snapshot at 2. *)
MCOtherRecords == {[id |-> 31, created_at |-> 1], [id |-> 32, created_at |-> 2]}

Query(now, requester, tenant) ==
  [now |-> now, domain |-> "qa", task_type |-> "release", tags |-> {"checkout"},
   requester_id |-> requester, agent_id |-> "bot", tenant_id |-> tenant]

MCQueries == {Query(1, "ann", "t1"), Query(1, "bob", "t1"), Query(2, "ann", NULL)}

-----------------------------------------------------------------------------
(* Criterion 3 is fixed after the query. *)
MCCriteria == {[id |-> 1, fixed_at |-> 1], [id |-> 2, fixed_at |-> 1],
               [id |-> 3, fixed_at |-> 2]}

Application(id, key, lesson, criterion) ==
  [id |-> id, key |-> key, lesson |-> lesson, query |-> 31, retrieval |-> 32,
   action |-> 32, criterion |-> criterion, environment |-> 32,
   projection |-> NULL, applied_at |-> 2]

(* A first delivery, a repeated one with a new id, one with the same key    *)
(* and another payload, others with their own key, one with a taken id.     *)
MCApplications ==
  {Application(11, "k1", 1, 1), Application(12, "k1", 1, 1),
   Application(11, "k1", 2, 1), Application(13, "k2", 2, 1),
   Application(13, "k3", 1, 3), Application(14, "k4", 1, 2),
   Application(11, "k5", 1, 2)}

Observation(id, applications, supersedes, at) ==
  [id |-> id, applications |-> applications, action |-> 32, sources |-> {31},
   supersedes |-> supersedes, observed_at |-> at]

MCObservations ==
  {Observation(21, {11}, NULL, 3), Observation(22, {11, 13}, 21, 3),
   Observation(23, {13}, 22, 1), Observation(21, {13, 14}, 22, 3)}

Evaluation(id, applications, observations, result, supersedes, at) ==
  [id |-> id, criterion |-> 1, applications |-> applications,
   observations |-> observations, result |-> result, supersedes |-> supersedes,
   evaluated_at |-> at]

MCEvaluations ==
  {Evaluation(31, {11}, {}, "indeterminate", NULL, 0),
   Evaluation(32, {11}, {21}, "met", 31, 3),
   Evaluation(33, {11, 13}, {21}, "not_met", NULL, 3),
   Evaluation(34, {11, 13}, {22}, "not_met", NULL, 3),
   Evaluation(35, {13}, {22}, "met", 32, 4),
   Evaluation(36, {11, 13}, {21, 22}, "met", 34, 4),
   Evaluation(37, {11, 14}, {21}, "met", NULL, 4),
   Evaluation(31, {11}, {22}, "met", 32, 4)}

(***************************************************************************)
(* A bound.  The application store asks of the experience store whether    *)
(* the lesson of an application and the records 31 and 32 are there, and   *)
(* recall asks nothing of the applications and of 31 and 32.  So what only *)
(* one of them reads need not vary while the other's does.                 *)
(***************************************************************************)
VaryApart ==
  \/ (Ids \ ({31, 32} \cup {a.lesson : a \in MCApplications})) \subseteq experience
  \/ accepted = {} /\ {31, 32} \subseteq experience

MCSpec == ApplicationsInit /\ [][ApplicationsNext /\ VaryApart']_applicationVars

=============================================================================
