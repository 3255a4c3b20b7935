------------------------------- MODULE Recall -------------------------------
(***************************************************************************)
(* Scoped recall (RecallEngine): which lessons a query gets, in which      *)
(* order.  recall writes nothing; it is an operator on the experience      *)
(* records it finds.  It reads them in many statements, and a record that  *)
(* is deleted in between counts as deleted before or after the lesson that *)
(* needs it is judged.                                                     *)
(*                                                                         *)
(* Lessons rest on reflections, and these on evidence, whose owners decide *)
(* who may see it.  Records are saved after what they refer to and may be  *)
(* deleted, by force or because a check of dependants came too early.  An  *)
(* id stands for one record: ids are random, and who saves a record again  *)
(* saves the same.                                                         *)
(***************************************************************************)
EXTENDS Integers, Sequences, FiniteSets

CONSTANTS
  Lessons,      \* the lessons, a record each; ids are numbers
  Reflections,  \* the reflections
  Evidence,     \* the pieces of evidence
  OtherRecords, \* further records: queries, executions, actions, snapshots
  Queries,      \* what is asked, without the risk level
  NULL          \* None

Records == Lessons \cup Reflections \cup Evidence \cup OtherRecords

IsLesson(l) ==
  /\ l.sources # {}
  /\ l.confidence \in Nat /\ l.confidence <= 1000000
  /\ l.recency \in Nat /\ l.recency <= 1000000
  /\ l.effective_from \in Int
  /\ l.expires_at # NULL => l.expires_at \in Int /\ l.expires_at > l.effective_from

(* A record has one type; the tables are finite. *)
ASSUME RecallAssumption ==
  /\ \A r, s \in Records :
       r.id \in Nat /\ r.created_at \in Int /\ (r.id = s.id => r = s)
  /\ \A l \in Lessons : IsLesson(l)
  /\ \A q \in Queries : q.now \in Int
  /\ Lessons \cap (Reflections \cup Evidence) = {}
  /\ IsFiniteSet(Lessons) /\ IsFiniteSet(Evidence)

VARIABLE experience \* table records: the ids that are there

Ids == {r.id : r \in Records}

Present(set) == {r \in set : r.id \in experience}

Risks == {"low", "medium", "high"}

-----------------------------------------------------------------------------
(***************************************************************************)
(* Scores.  The code computes with floats between 0 and 1; here a score is *)
(* a whole number of ten-millionths, one digit more than is ever shown.    *)
(* Confidence and recency are given in millionths: recency halves every    *)
(* 365 days, which is no rational number, so each lesson brings its own.   *)
(* One shared tag must count for something: there are at most a million.   *)
(***************************************************************************)
MaxTags == 1000000

ASSUME ScoreAssumption ==
  /\ \A q \in Queries : IsFiniteSet(q.tags)
  /\ \A l \in Lessons : IsFiniteSet(l.tags)
  /\ \A q \in Queries, l \in Lessons : Cardinality(q.tags \cup l.tags) <= MaxTags

TagShare(q, l) ==
  LET all == q.tags \cup l.tags
  IN  IF all = {} THEN 0
      ELSE (1100000 * Cardinality(q.tags \cap l.tags)) \div Cardinality(all)

DomainShare(q, l) == IF l.domain = q.domain THEN 1650000 ELSE 0

TaskShare(q, l) == IF q.task_type \in l.task_types THEN 2750000 ELSE 0

(* _scope_score, times 0.55; the domain alone is not enough. *)
ScopeScore(q, l) == DomainShare(q, l) + TaskShare(q, l) + TagShare(q, l)

ScopeGate == 1650000

FaultyEvidenceOf(l) == {e \in Present(Evidence) : e.id \in l.sources}

(* _lesson_context: evidence of present reflections, as far as it is there. *)
EvidenceOf(l) ==
  {e \in Present(Evidence) :
     \E r \in Present(Reflections) : r.id \in l.sources /\ e.id \in r.evidence_ids}

TrustHalves == [untrusted |-> 0, reported |-> 1, verified |-> 2]

(* The mean of the trust scores, times 0.15. *)
TrustScore(l) ==
  LET cited == EvidenceOf(l)
      Halves(level) ==
        TrustHalves[level] * Cardinality({e \in cited : e.trust_level = level})
  IN  IF cited = {} THEN 0
      ELSE (1500000 * (Halves("reported") + Halves("verified"))) \div (2 * Cardinality(cited))

FinalScore(q, l) ==
  ScopeScore(q, l) + 2 * l.confidence + TrustScore(l) + l.recency

MinScore == [low |-> 3500000, medium |-> 4500000, high |-> 5500000]

FaultyPublicScore(q, l) == FinalScore(q, l) \div 1000000

(* The score shown, rounded to millionths, which is also its bucket. *)
PublicScore(q, l) == (FinalScore(q, l) + 5) \div 10

-----------------------------------------------------------------------------
AccessAllowed(q, e) ==
  /\ e.tenant_id # NULL => e.tenant_id = q.tenant_id
  /\ \/ e.access_policy = "public"
     \/ /\ e.access_policy \in {"private", "owner-and-agent"}
        /\ e.owner_id = q.requester_id
     \/ /\ e.access_policy = "owner-and-agent"
        /\ e.agent_id = q.agent_id

FaultyGateOrder ==
  <<"validation_rejected", "access_denied", "not_yet_effective", "expired",
    "domain_mismatch", "insufficient_scope", "below_risk_threshold">>

(* The gates of recall_with_diagnostics, ... *)
GateOrder ==
  <<"validation_rejected", "not_yet_effective", "expired", "domain_mismatch",
    "insufficient_scope", "access_denied", "below_risk_threshold">>

(* ... what each excludes, ... *)
Excludes(reason, q, risk, l) ==
  CASE reason = "validation_rejected"  -> l.status \notin {"human_approved", "active"}
    [] reason = "not_yet_effective"    -> l.effective_from > q.now
    [] reason = "expired"              -> l.expires_at # NULL /\ l.expires_at <= q.now
    [] reason = "domain_mismatch"      -> l.domain # q.domain
    [] reason = "insufficient_scope"   -> ScopeScore(q, l) <= ScopeGate
    [] reason = "access_denied"        -> \E e \in EvidenceOf(l) : ~AccessAllowed(q, e)
    [] reason = "below_risk_threshold" -> FinalScore(q, l) < MinScore[risk]

(* ... and the lessons that come to the i-th. *)
Remaining(i, q, risk) ==
  {l \in Present(Lessons) : \A j \in 1..(i - 1) : ~Excludes(GateOrder[j], q, risk, l)}

Candidates(q, risk) == Remaining(Len(GateOrder) + 1, q, risk)

(* filter_counts: a lesson counts for the first gate that excludes it. *)
FilterCount(reason, q, risk) ==
  LET i == CHOOSE i \in DOMAIN GateOrder : GateOrder[i] = reason
  IN  Cardinality({l \in Remaining(i, q, risk) : Excludes(reason, q, risk, l)})

(* The order of the results: by the score shown, then by id. *)
Before(q, l, m) ==
  LET score == PublicScore(q, l)
      other == PublicScore(q, m)
  IN  score > other \/ (score = other /\ l.id < m.id)

(* The results of recall, a set whose order is Before. *)
Recalled(q, risk, max_items) ==
  LET found == Candidates(q, risk)
  IN  {l \in found : Cardinality({m \in found : Before(q, m, l)}) < max_items}

(* save, of a record whose references are there. *)
SaveExperience(id) ==
  /\ id \notin experience
  /\ \A l \in Lessons : l.id = id => l.sources \subseteq experience
  /\ \A r \in Reflections : r.id = id => r.evidence_ids \subseteq experience
  /\ experience' = experience \cup {id}

(* delete, forced or not: the application records are not asked. *)
DeleteExperience(id) ==
  /\ id \in experience
  /\ experience' = experience \ {id}

-----------------------------------------------------------------------------
(* The evidence of a lesson by its references, there or not. *)
LinkedEvidence(l) ==
  {e \in Evidence : \E r \in Reflections : r.id \in l.sources /\ e.id \in r.evidence_ids}

(* Every record the lesson rests on is still there. *)
Intact(l) ==
  /\ l.sources \subseteq experience
  /\ \A r \in Reflections : r.id \in l.sources => r.evidence_ids \subseteq experience

(* The gates of docs/recall-design-v0.1.md, "Eligibility gates". *)
Eligible(q, l) ==
  /\ l.status \in {"human_approved", "active"}
  /\ l.effective_from <= q.now /\ (l.expires_at = NULL \/ q.now < l.expires_at)
  /\ l.domain = q.domain
  /\ q.task_type \in l.task_types \/ q.tags \cap l.tags # {}
  /\ \A e \in LinkedEvidence(l) : AccessAllowed(q, e)

GivesTheBest(q, risk, max_items) ==
  LET given    == Recalled(q, risk, max_items)
      entitled == {l \in Present(Lessons) :
                     Eligible(q, l) /\ FinalScore(q, l) >= MinScore[risk]}
  IN  \A l \in Present(Lessons) : Intact(l) =>
        /\ l \in given => l \in entitled
        /\ l \in entitled \ given =>
             /\ Cardinality(given) = max_items
             /\ \A m \in given : Before(q, m, l)

(***************************************************************************)
(* recall answers with the best of what the design calls eligible, as long *)
(* as the lessons' records are there: nobody gets a lesson that rests on   *)
(* evidence he may not see, and no eligible lesson above the threshold is  *)
(* left out for one that ranks below it.                                   *)
(***************************************************************************)
RecallGivesTheBest ==
  \A q \in Queries, risk \in Risks, max_items \in 1..2 : GivesTheBest(q, risk, max_items)

(***************************************************************************)
(* A higher risk level only cuts the list at its end.  Lessons are cut by  *)
(* their exact score and ranked by the score shown; so the one exception   *)
(* are lessons shown with the threshold itself, some of which lie below it.*)
(***************************************************************************)
RiskCutsTheEnd ==
  \A q \in Queries, lower \in {"low", "medium"}, higher \in {"medium", "high"} :
    MinScore[lower] < MinScore[higher] =>
      LET all  == Recalled(q, lower, Cardinality(Lessons))
          kept == Recalled(q, higher, Cardinality(Lessons))
      IN  /\ kept \subseteq all
          /\ \A l \in all \ kept, m \in kept :
               Before(q, l, m) => PublicScore(q, l) = MinScore[higher] \div 10

(***************************************************************************)
(* "Each candidate contributes to one counter only: the first gate that    *)
(* excluded it."  So a record behind a lesson can only be felt in the      *)
(* counters of the last two gates: when evidence or a reflection, of which *)
(* a requester may know nothing, comes or goes, no other counter moves.    *)
(***************************************************************************)
EvidenceCountsLate ==
  [][Present(Reflections \cup Evidence)' # Present(Reflections \cup Evidence) =>
       \A q \in Queries, risk \in Risks,
          reason \in {"validation_rejected", "not_yet_effective", "expired",
                      "domain_mismatch", "insufficient_scope"} :
         FilterCount(reason, q, risk)' = FilterCount(reason, q, risk)]_experience

=============================================================================
