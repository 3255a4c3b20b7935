------------------------ MODULE AuthorizedViewProofs ------------------------
(***************************************************************************)
(* Proofs about AuthorizedView, for any policies, queries, readers and     *)
(* commits between the two reads of an answer.  What a closed query finds  *)
(* does not change any more (ClosedQueriesKeep), so what was true when it  *)
(* was answered is true whenever it is audited.                            *)
(***************************************************************************)
EXTENDS AuthorizedView, MemoryViewProofs, FiniteSetTheorems

HistoryInv == ViewInv /\ IsFiniteSet(versions)

Again(q) ==
  IF HasPotentialAllow(Rules(q)) THEN RestrictedView(q, Rules(q)) ELSE EmptyView

ClosedAt(q, asked) == q.known_at # NULL /\ q.known_at < asked

(* A reader between its two reads has the rules a closed query will have. *)
AuthorizedHolds(s) ==
  /\ s.phase = "authorized" /\ s = Authorized(s.query, s.rules, s.asked)
  /\ HasPotentialAllow(s.rules)
  /\ ClosedAt(s.query, s.asked) => s.rules = Rules(s.query)

(* An answer shows no policy, and to a closed query what it would again. *)
AnswerHolds(s) ==
  /\ s.phase = "answered" /\ s = Answered(s.query, s.view, s.asked)
  /\ \A m \in Shown(s.view) : ~IsPolicy(m)
  /\ ClosedAt(s.query, s.asked) =>
       /\ s.view.entries = Again(s.query).entries
       /\ s.view.rejections = Again(s.query).rejections

ReaderHolds(s) ==
  \/ s = Resting
  \/ /\ s.query \in Queries
     /\ s.asked \in 0..Horizon
     /\ AuthorizedHolds(s) \/ AnswerHolds(s)

AccessInv ==
  /\ HistoryInv
  /\ DOMAIN reader = Readers
  /\ \A r \in Readers : ReaderHolds(reader[r])

-----------------------------------------------------------------------------
(* Of finitely many policies one is at least as specific as all others:    *)
(* otherwise there would be a smallest set without such a one.             *)
LEMMA MostSpecific ==
  ASSUME NEW S, IsFiniteSet(S), S # {}, \A p \in S : Specificity(p) \in Nat
  PROVE  \E p \in S : \A q \in S : Specificity(q) <= Specificity(p)
<1> DEFINE Without(T) == ~\E p \in T : \A q \in T : Specificity(q) <= Specificity(p)
           N == {n \in Nat : \E T \in SUBSET S : T # {} /\ Cardinality(T) = n /\ Without(T)}
<1>1. \A T \in SUBSET S : IsFiniteSet(T) /\ Cardinality(T) \in Nat
  BY FS_Subset, FS_CardinalityType
<1>2. ASSUME N # {} PROVE FALSE
  <2>1. PICK n \in N : \A k \in N : n <= k
    BY <1>2, SmallestNumber
  <2>2. PICK T \in SUBSET S : T # {} /\ Cardinality(T) = n /\ Without(T)
    OBVIOUS
  <2>3. PICK x \in T : TRUE
    BY <2>2
  <2> DEFINE U == T \ {x}
  <2>4. U \in SUBSET S /\ Cardinality(U) = n - 1
    BY <1>1, <2>2, <2>3, FS_RemoveElement
  <2>5. U = {} \/ ~Without(U)
    <3>1. n - 1 \notin N /\ n - 1 \in Nat
      BY <1>1, <2>1, <2>4
    <3> QED
      BY <2>4, <3>1
  <2>6. CASE U = {}
    BY <2>2, <2>3, <2>6
  <2>7. CASE ~Without(U)
    <3>1. PICK y \in U : \A q \in U : Specificity(q) <= Specificity(y)
      BY <2>7
    <3>2. \A q \in T : q = x \/ q \in U
      OBVIOUS
    <3>3. \A q \in T : Specificity(q) \in Nat
      OBVIOUS
    <3>4. CASE Specificity(x) <= Specificity(y)
      BY <2>2, <3>1, <3>2, <3>4
    <3>5. CASE Specificity(y) <= Specificity(x)
      BY <2>2, <2>3, <3>1, <3>2, <3>3, <3>5
    <3> QED
      BY <2>3, <3>1, <3>3, <3>4, <3>5
  <2> QED
    BY <2>5, <2>6, <2>7
<1>3. Cardinality(S) \notin N
  BY <1>2
<1> QED
  BY <1>1, <1>3

-----------------------------------------------------------------------------
(***************************************************************************)
(* What authorize and the restricted read find, as a part of what is       *)
(* relevant to the query: only RelevantNow looks at the store.             *)
(***************************************************************************)
PoliciesOf(S, q) == {m \in EntriesOf(S, q.as_of) : IsPolicy(m)}

AllowedOf(S, q, rules) == {m \in S : Allows(q, rules, m)}

Asked(q) == RelevantNow(q.as_of, q.known_at)

(* The policies authorize finds are those of the full view. *)
LEMMA PoliciesFacts ==
  ViewInv => \A q : Policies(q) = PoliciesOf(Asked(q), q)
<1> SUFFICES ASSUME ViewInv, NEW q PROVE Policies(q) = PoliciesOf(Asked(q), q)
  OBVIOUS
<1> DEFINE S == Asked(q)
           T == Relevant({m \in versions : IsPolicy(m)}, q.as_of, q.known_at,
                         {}, {"access_policy"})
<1>1. Policies(q) = EntriesOf(T, q.as_of)
  BY ProjectFacts DEF Policies
<1>2. \A m : m \in T <=> m \in S /\ IsPolicy(m)
  BY RelevantNowFacts DEF Relevant, Selected, IsPolicy, Asked
<1>3. \A m : m \in S => m \in versions
  BY RelevantNowFacts DEF Asked
<1> HIDE DEF S, T
<1>4. Governing(T) = {m \in Governing(S) : m \in T}
  BY <1>2, <1>3, PartsGovernAlike DEF ViewInv, OneTypePerKey, IsPolicy
<1>5. Governing(S) \subseteq S
  BY DEF Governing
<1>6. EntriesOf(T, q.as_of) = PoliciesOf(S, q)
  BY <1>2, <1>4, <1>5 DEF EntriesOf, PoliciesOf
<1> QED
  BY <1>1, <1>6 DEF S

(* What a restricted view is made of. *)
LEMMA RestrictedFacts ==
  \A q, rules :
    LET view == RestrictedView(q, rules)
        allowed == AllowedOf(Asked(q), q, rules)
    IN  /\ view.entries = EntriesOf(allowed, q.as_of)
        /\ view.rejections = RejectionsOf(allowed, q.as_of)
<1> TAKE q, rules
<1> DEFINE T == Relevant({m \in versions : Allows(q, rules, m)}, q.as_of, q.known_at, {}, {})
<1>1. T = AllowedOf(Asked(q), q, rules)
  BY DEF Asked, RelevantNow, Relevant, Selected, AllowedOf
<1>2. /\ RestrictedView(q, rules).entries = EntriesOf(T, q.as_of)
      /\ RestrictedView(q, rules).rejections = RejectionsOf(T, q.as_of)
  BY ProjectFacts DEF RestrictedView
<1> HIDE DEF T
<1> QED
  BY <1>1, <1>2

(* The same in the next state. *)
LEMMA PoliciesFactsNext == (ViewInv => \A q : Policies(q) = PoliciesOf(Asked(q), q))'
BY PoliciesFacts, PTL

LEMMA RestrictedFactsNext ==
  (\A q, rules :
     LET view == RestrictedView(q, rules)
         allowed == AllowedOf(Asked(q), q, rules)
     IN  /\ view.entries = EntriesOf(allowed, q.as_of)
         /\ view.rejections = RejectionsOf(allowed, q.as_of))'
BY RestrictedFacts, PTL

(* The rules of a query are active policies for the requester. *)
LEMMA RulesFacts ==
  ASSUME HistoryInv, NEW q
  PROVE  /\ IsFiniteSet(Rules(q))
         /\ \A p \in Policies(q) :
              /\ p \in versions /\ p \in View(q.as_of, q.known_at).entries
              /\ IsPolicy(p)
         /\ \A p \in Rules(q) :
              /\ p \in Policies(q)
              /\ p.mutation.content # Malformed
              /\ p.mutation.content.subject = q.requester
              /\ p.mutation.content.effect \in {"allow", "deny"}
              /\ Specificity(p) \in Nat
<1>1. \A p \in Policies(q) :
        p \in versions /\ p \in View(q.as_of, q.known_at).entries /\ IsPolicy(p)
  BY PoliciesFacts, ViewFacts, RelevantNowFacts
  DEF HistoryInv, PoliciesOf, Asked, EntriesOf, Governing
<1>2. ASSUME NEW p \in Rules(q)
      PROVE  /\ p \in Policies(q)
             /\ p.mutation.content # Malformed
             /\ p.mutation.content.subject = q.requester
  BY DEF Rules
<1>3. ASSUME NEW p \in Rules(q)
      PROVE  p.mutation.content.effect \in {"allow", "deny"} /\ Specificity(p) \in Nat
  <2>1. p.mutation \in Mutations /\ p.mutation.memory_type = "access_policy"
    BY <1>1, <1>2 DEF IsPolicy, TypeOf, HistoryInv, ViewInv, StoreInv, StoreTypeOK, VersionTypeOK
  <2> QED
    BY <1>2, <2>1, AccessAssumption DEF Specificity
<1>4. Rules(q) \in SUBSET versions
  BY <1>1, <1>2
<1>5. IsFiniteSet(Rules(q))
  BY <1>4, FS_Subset DEF HistoryInv
<1> QED
  BY <1>1, <1>2, <1>3, <1>5

(* A memory is allowed by an allow that no deny outweighs. *)
LEMMA AllowsFacts ==
  ASSUME HistoryInv, NEW q, NEW m, Allows(q, Rules(q), m)
  PROVE  \E p \in Rules(q) :
           /\ Matches(p, m) /\ p.mutation.content.effect = "allow"
           /\ \A d \in Rules(q) : Matches(d, m) /\ d.mutation.content.effect = "deny" =>
                Specificity(d) < Specificity(p)
<1> DEFINE matching == {p \in Rules(q) : Matches(p, m)}
           best == {p \in matching : \A d \in matching : Specificity(d) <= Specificity(p)}
<1>1. matching # {} /\ ~\E p \in best : p.mutation.content.effect = "deny"
  BY DEF Allows, WinningEffect
<1>2. IsFiniteSet(matching) /\ \A p \in matching : Specificity(p) \in Nat
  BY RulesFacts, FS_Subset
<1>3. PICK p \in matching : \A d \in matching : Specificity(d) <= Specificity(p)
  <2> HIDE DEF matching
  <2> QED
    BY <1>1, <1>2, MostSpecific
<1>4. p \in best
  BY <1>3
<1>5. p.mutation.content.effect = "allow"
  BY <1>1, <1>4, RulesFacts
<1>6. ASSUME NEW d \in matching, d.mutation.content.effect = "deny"
      PROVE  Specificity(d) < Specificity(p)
  <2>1. d \notin best
    BY <1>1, <1>6
  <2>2. PICK c \in matching : ~(Specificity(c) <= Specificity(d))
    BY <2>1
  <2> QED
    BY <1>2, <1>3, <2>2
<1> QED
  BY <1>5, <1>6

-----------------------------------------------------------------------------
(* What a closed query finds stays as it is. *)
LEMMA ClosedQueriesKeep ==
  ASSUME ViewInv, [StoreNext]_vars, NEW q, q.known_at \in Nat, q.known_at < Horizon
  PROVE  /\ Rules(q)' = Rules(q)
         /\ \A rules :
              /\ (RestrictedView(q, rules).entries)' = RestrictedView(q, rules).entries
              /\ (RestrictedView(q, rules).rejections)' = RestrictedView(q, rules).rejections
<1>1. Asked(q)' = Asked(q)
  BY RelevantIsFrozen DEF ViewInv, Asked
<1>2. ViewInv'
  BY NextViewInv
<1>3. Policies(q)' = Policies(q)
  <2>1. Policies(q) = PoliciesOf(Asked(q), q)
    BY PoliciesFacts
  <2>2. Policies(q)' = PoliciesOf(Asked(q), q)'
    BY <1>2, PoliciesFactsNext
  <2>3. PoliciesOf(Asked(q), q)' = PoliciesOf(Asked(q), q)
    BY <1>1 DEF PoliciesOf, EntriesOf, Governing, OfKey, KeyOf, Admitted, Expired, IsPolicy, TypeOf
  <2> QED
    BY <2>1, <2>2, <2>3
<1>4. Rules(q)' = Rules(q)
  BY <1>3 DEF Rules
<1>5. ASSUME NEW rules
      PROVE  /\ (RestrictedView(q, rules).entries)' = RestrictedView(q, rules).entries
             /\ (RestrictedView(q, rules).rejections)' = RestrictedView(q, rules).rejections
  BY <1>1, RestrictedFacts, RestrictedFactsNext
<1> QED
  BY <1>4, <1>5

LEMMA NextHistoryInv ==
  HistoryInv /\ [StoreNext]_vars => HistoryInv' /\ versions \subseteq versions'
<1> SUFFICES ASSUME HistoryInv, [StoreNext]_vars
             PROVE  HistoryInv' /\ versions \subseteq versions'
  OBVIOUS
<1>1. ViewInv' /\ (EndCommit \/ UNCHANGED tables)
  BY NextViewInv, StepCases DEF HistoryInv, ViewInv
<1>2. CASE EndCommit
  <2>1. versions' = versions \cup {transaction.memory}
    BY <1>2, EndCommitFacts DEF HistoryInv, ViewInv
  <2> QED
    BY <1>1, <2>1, FS_AddElement DEF HistoryInv
<1>3. UNCHANGED tables => IsFiniteSet(versions)' /\ versions \subseteq versions'
  BY DEF HistoryInv, tables
<1> QED
  BY <1>1, <1>2, <1>3 DEF HistoryInv

(* The view of no version, whenever it is made. *)
NothingShown ==
  [entries |-> {}, rejections |-> {},
   filter_counts |->
     [filtered_by_key_or_type |-> 0, not_known_by_cutoff |-> 0,
      not_yet_effective |-> 0, superseded_versions |-> 0,
      non_active_governing |-> 0, expired_governing |-> 0]]

LEMMA EmptyHistory ==
  \A as_of, known_at : Project({}, as_of, known_at, {}, {}) = NothingShown
<1> TAKE as_of, known_at
<1> DEFINE selected  == {m \in {} : Selected(m, {}, {})}
           known     == {m \in selected : Known(m, known_at)}
           effective == {m \in known : Effective(m, as_of)}
           governing == Governing(effective)
           active    == {m \in governing : m.mutation.status = "active"}
           entries   == {m \in active : ~Expired(m, as_of)}
<1>1. /\ selected = {} /\ known = {} /\ effective = {}
      /\ governing = {} /\ active = {} /\ entries = {}
  BY DEF Governing
<1>2. Project({}, as_of, known_at, {}, {}) =
        [entries |-> entries, rejections |-> governing \ entries,
         filter_counts |->
           [filtered_by_key_or_type |-> Cardinality({} \ selected),
            not_known_by_cutoff     |-> Cardinality(selected \ known),
            not_yet_effective       |-> Cardinality(known \ effective),
            superseded_versions     |-> Cardinality(effective \ governing),
            non_active_governing    |-> Cardinality(governing \ active),
            expired_governing       |-> Cardinality(active \ entries)]]
  BY DEF Project
<1> HIDE DEF selected, known, effective, governing, active, entries
<1>3. {} \ {} = {} /\ Cardinality({}) = 0
  BY FS_EmptySet
<1> QED
  BY <1>1, <1>2, <1>3 DEF NothingShown

LEMMA EmptyViewFacts == EmptyView = NothingShown
BY EmptyHistory DEF EmptyView

LEMMA EmptyViewFactsNext == EmptyView' = NothingShown
<1>1. (EmptyView = NothingShown)'
  BY EmptyViewFacts, PTL
<1> QED
  BY <1>1 DEF NothingShown

(* What would be shown again stays as it is. *)
LEMMA AgainKeeps ==
  ASSUME ViewInv, [StoreNext]_vars, NEW q, q.known_at \in Nat, q.known_at < Horizon
  PROVE  /\ (Again(q).entries)' = Again(q).entries
         /\ (Again(q).rejections)' = Again(q).rejections
<1>1. PICK rules : rules = Rules(q)
  OBVIOUS
<1>2. Rules(q)' = rules
  BY <1>1, ClosedQueriesKeep
<1>3. /\ (RestrictedView(q, rules).entries)' = RestrictedView(q, rules).entries
      /\ (RestrictedView(q, rules).rejections)' = RestrictedView(q, rules).rejections
  BY ClosedQueriesKeep
<1>4. CASE HasPotentialAllow(rules)
  <2>1. Again(q) = RestrictedView(q, rules) /\ Again(q)' = RestrictedView(q, rules)'
    BY <1>1, <1>2, <1>4 DEF Again
  <2> QED
    BY <1>3, <2>1
<1>5. CASE ~HasPotentialAllow(rules)
  <2>1. Again(q) = EmptyView /\ Again(q)' = EmptyView
    BY <1>1, <1>2, <1>5, EmptyViewFacts, EmptyViewFactsNext DEF Again
  <2> QED
    BY <2>1
<1> QED
  BY <1>4, <1>5

(* What holds of a reader is not disturbed by the store. *)
LEMMA ReaderKeeps ==
  ASSUME HistoryInv, [StoreNext]_vars, NEW s, ReaderHolds(s)
  PROVE  ReaderHolds(s)'
<1>1. CASE s = Resting
  BY <1>1 DEF ReaderHolds
<1>2. CASE s # Resting
  <2>1. s.query \in Queries /\ s.asked \in 0..Horizon /\ (AuthorizedHolds(s) \/ AnswerHolds(s))
    BY <1>2 DEF ReaderHolds
  <2>2. (s.asked \in 0..Horizon)'
    BY <2>1, HorizonAdvances DEF HistoryInv, ViewInv
  <2>3. ClosedAt(s.query, s.asked) => s.query.known_at \in Nat /\ s.query.known_at < Horizon
    BY <2>1, AccessAssumption, HorizonAdvances DEF ClosedAt, HistoryInv, ViewInv
  <2>4. ASSUME ClosedAt(s.query, s.asked)
        PROVE  /\ Rules(s.query)' = Rules(s.query)
               /\ (Again(s.query).entries)' = Again(s.query).entries
               /\ (Again(s.query).rejections)' = Again(s.query).rejections
    BY <2>3, <2>4, ClosedQueriesKeep, AgainKeeps DEF HistoryInv
  <2>5. ASSUME AuthorizedHolds(s) PROVE AuthorizedHolds(s)'
    BY <2>4, <2>5 DEF AuthorizedHolds
  <2>6. ASSUME AnswerHolds(s) PROVE AnswerHolds(s)'
    BY <2>4, <2>6 DEF AnswerHolds
  <2> QED
    BY <2>1, <2>2, <2>5, <2>6 DEF ReaderHolds
<1> QED
  BY <1>1, <1>2

(* What a restricted view shows is allowed, and no policy. *)
LEMMA ShownIsAllowed ==
  ASSUME NEW q, NEW rules, NEW m \in Shown(RestrictedView(q, rules))
  PROVE  m \in versions /\ Allows(q, rules, m)
BY RestrictedFacts, RelevantNowFacts
DEF Shown, EntriesOf, RejectionsOf, Governing, AllowedOf, Asked

(* A request starts as it should ... *)
LEMMA AuthorizeStarts ==
  ASSUME AccessInv, NEW q \in Queries
  PROVE  ReaderHolds(IF HasPotentialAllow(Rules(q))
                     THEN Authorized(q, Rules(q), Horizon)
                     ELSE Answered(q, EmptyView, Horizon))
<1>1. Horizon \in 0..Horizon
  BY DEF AccessInv, HistoryInv, ViewInv, StoreInv, StoreTypeOK, VersionTypeOK, Horizon
<1>2. CASE HasPotentialAllow(Rules(q))
  BY <1>1, <1>2 DEF ReaderHolds, AuthorizedHolds, Authorized
<1>3. CASE ~HasPotentialAllow(Rules(q))
  <2>1. Shown(EmptyView) = {} /\ Again(q) = EmptyView
    BY <1>3, EmptyViewFacts DEF Shown, NothingShown, Again
  <2> QED
    BY <1>1, <1>3, <2>1 DEF ReaderHolds, AnswerHolds, Answered
<1> QED
  BY <1>2, <1>3

(* ... and is answered as it should. *)
LEMMA ReadAnswers ==
  ASSUME AccessInv, NEW r \in Readers, reader[r].phase = "authorized"
  PROVE  ReaderHolds(Answered(reader[r].query,
                              RestrictedView(reader[r].query, reader[r].rules),
                              reader[r].asked))
<1> DEFINE q == reader[r].query
           rules == reader[r].rules
           asked == reader[r].asked
           view == RestrictedView(q, rules)
<1>1. /\ q \in Queries /\ asked \in 0..Horizon
      /\ HasPotentialAllow(rules)
      /\ ClosedAt(q, asked) => rules = Rules(q)
  BY DEF AccessInv, ReaderHolds, Resting, AnswerHolds, Answered, AuthorizedHolds
<1>2. \A m \in Shown(view) : ~IsPolicy(m)
  BY ShownIsAllowed DEF Allows
<1>3. ASSUME ClosedAt(q, asked) PROVE Again(q) = view
  BY <1>1, <1>3 DEF Again
<1> HIDE DEF q, rules, asked, view
<1>4. AnswerHolds(Answered(q, view, asked))
  BY <1>1, <1>2, <1>3 DEF AnswerHolds, Answered
<1>5. ReaderHolds(Answered(q, view, asked))
  BY <1>1, <1>4 DEF ReaderHolds, Answered
<1> QED
  BY <1>5 DEF q, rules, asked, view

LEMMA InitAccessInv == AccessInit => AccessInv
<1> SUFFICES ASSUME AccessInit PROVE AccessInv
  OBVIOUS
<1>1. HistoryInv
  BY InitViewInv, FS_EmptySet DEF AccessInit, HistoryInv, StoreInit
<1> QED
  BY <1>1 DEF AccessInit, AccessInv, ReaderHolds

(* Every step is one of the store or leaves the store alone. *)
LEMMA AccessUsesStore == [AccessNext]_viewVars => [StoreNext]_vars
BY DEF AccessNext, Authorize, ReadMemories, StoreNext, viewVars, vars

LEMMA NextAccessInv == AccessInv /\ [AccessNext]_viewVars => AccessInv'
<1> SUFFICES ASSUME AccessInv, [AccessNext]_viewVars PROVE AccessInv'
  OBVIOUS
<1>1. [StoreNext]_vars /\ HistoryInv'
  BY AccessUsesStore, NextHistoryInv DEF AccessInv
<1>2. ASSUME NEW s, ReaderHolds(s) PROVE ReaderHolds(s)'
  BY <1>1, <1>2, ReaderKeeps DEF AccessInv
<1>3. CASE UNCHANGED reader
  BY <1>1, <1>2, <1>3 DEF AccessInv
<1>4. ASSUME NEW r \in Readers, NEW q \in Queries, Authorize(r, q) PROVE AccessInv'
  <2>1. PICK s : s = IF HasPotentialAllow(Rules(q))
                     THEN Authorized(q, Rules(q), Horizon)
                     ELSE Answered(q, EmptyView, Horizon)
    OBVIOUS
  <2>2. ReaderHolds(s)'
    BY <1>2, <2>1, AuthorizeStarts
  <2>3. reader' = [reader EXCEPT ![r] = s]
    BY <1>4, <2>1 DEF Authorize
  <2> QED
    BY <1>1, <1>2, <2>2, <2>3 DEF AccessInv
<1>5. ASSUME NEW r \in Readers, ReadMemories(r) PROVE AccessInv'
  <2>1. PICK s : s = Answered(reader[r].query,
                              RestrictedView(reader[r].query, reader[r].rules),
                              reader[r].asked)
    OBVIOUS
  <2>2. ReaderHolds(s)'
    BY <1>2, <1>5, <2>1, ReadAnswers DEF ReadMemories
  <2>3. reader' = [reader EXCEPT ![r] = s]
    BY <1>5, <2>1 DEF ReadMemories
  <2> QED
    BY <1>1, <1>2, <2>2, <2>3 DEF AccessInv
<1> QED
  BY <1>3, <1>4, <1>5 DEF AccessNext, viewVars

-----------------------------------------------------------------------------
(***************************************************************************)
(* What readers hold between and after their two reads stays right as the  *)
(* store moves on: the inductive invariant of the access control.          *)
(***************************************************************************)
THEOREM AccessInvariant == AccessSpec => []AccessInv
<1> QED
  BY InitAccessInv, NextAccessInv, PTL DEF AccessSpec

(* The restricted reads only use the store: all theorems on it carry over. *)
THEOREM AccessImplementsStore == AccessSpec => StoreSpec
<1>1. AccessInit => StoreInit
  BY DEF AccessInit
<1> QED
  BY <1>1, AccessUsesStore, PTL DEF AccessSpec, StoreSpec

(* An answer in the state of a reader. *)
LEMMA AnswersHold ==
  ASSUME AccessInv, NEW a \in Answers
  PROVE  /\ a.query \in Queries
         /\ Closed(a) <=> ClosedAt(a.query, a.asked)
         /\ AnswerHolds(a)
<1>1. PICK r \in Readers : a = reader[r] /\ a.phase = "answered"
  BY DEF Answers
<1>2. a.query \in Queries /\ AnswerHolds(a)
  BY <1>1 DEF AccessInv, ReaderHolds, Resting, AuthorizedHolds, Authorized
<1> QED
  BY <1>2 DEF Closed, ClosedAt

(***************************************************************************)
(* An audit can be repeated at any later time, for any number of readers,  *)
(* policies and commits.                                                   *)
(***************************************************************************)
THEOREM AuditsRepeat == AccessSpec => []AnswersAreReproducible
<1>1. AccessInv => AnswersAreReproducible
  BY AnswersHold DEF AnswersAreReproducible, AnswerHolds, Again
<1> QED
  BY <1>1, AccessInvariant, PTL

(* A projection of a history looks at the store for its stamps only. *)
ViewOf(history, selected, known, as_of) ==
  LET effective == {m \in known : Effective(m, as_of)}
      governing == Governing(effective)
      active    == {m \in governing : m.mutation.status = "active"}
      entries   == {m \in active : ~Expired(m, as_of)}
  IN  [entries    |-> entries,
       rejections |-> governing \ entries,
       filter_counts |->
         [filtered_by_key_or_type |-> Cardinality(history \ selected),
          not_known_by_cutoff     |-> Cardinality(selected \ known),
          not_yet_effective       |-> Cardinality(known \ effective),
          superseded_versions     |-> Cardinality(effective \ governing),
          non_active_governing    |-> Cardinality(governing \ active),
          expired_governing       |-> Cardinality(active \ entries)]]

(* So while these stay it stays, its counts included. *)
LEMMA ProjectionKeeps ==
  ASSUME NEW history, \A m \in history : committed_at'[m] = committed_at[m],
         NEW as_of, NEW known_at
  PROVE  Project(history, as_of, known_at, {}, {})' = Project(history, as_of, known_at, {}, {})
<1> DEFINE known == {m \in history : Known(m, known_at)}
<1>1. {m \in history : Selected(m, {}, {})} = history
  BY DEF Selected
<1>2. Project(history, as_of, known_at, {}, {}) = ViewOf(history, history, known, as_of)
  BY <1>1 DEF Project, ViewOf
<1>3. Project(history, as_of, known_at, {}, {})' = ViewOf(history, history, known', as_of)
  BY <1>1 DEF Project, ViewOf
<1>4. known' = known
  BY DEF Known
<1> QED
  BY <1>2, <1>3, <1>4

(* A step that commits nothing the rules allow leaves what they give. *)
LEMMA DeniedCommitsAreUnseen ==
  ASSUME StoreInv, [StoreNext]_vars, NEW q, NEW rules,
         \A m \in versions' \ versions : ~Allows(q, rules, m)
  PROVE  RestrictedView(q, rules)' = RestrictedView(q, rules)
<1> DEFINE allowed == {m \in versions : Allows(q, rules, m)}
<1>1. versions \subseteq versions' /\ \A m \in versions : committed_at'[m] = committed_at[m]
  BY NothingLost
<1>2. allowed' = allowed
  BY <1>1
<1>3. PICK S : S = allowed
  OBVIOUS
<1>4. Project(S, q.as_of, q.known_at, {}, {})' = Project(S, q.as_of, q.known_at, {}, {})
  BY <1>1, <1>3, ProjectionKeeps
<1>5. /\ RestrictedView(q, rules) = Project(S, q.as_of, q.known_at, {}, {})
      /\ RestrictedView(q, rules)' = Project(S, q.as_of, q.known_at, {}, {})'
  BY <1>2, <1>3 DEF RestrictedView
<1> QED
  BY <1>4, <1>5

(***************************************************************************)
(* Committing what is denied changes no answer, its counts included, for   *)
(* any rules, and policies are never shown.                                *)
(***************************************************************************)
THEOREM DenialsAreSilent == AccessSpec => DenialIsSilent
<1> DEFINE Unseen ==
      versions' # versions =>
        \A q \in Queries : \A rules \in RulesInUse(q) :
          (\A m \in versions' \ versions : ~Allows(q, rules, m)) =>
            RestrictedView(q, rules)' = RestrictedView(q, rules)
      PoliciesHidden ==
        \A r \in Readers : reader[r].phase = "answered" =>
          \A m \in Shown(reader[r].view) : ~IsPolicy(m)
<1>1. AccessInv => PoliciesHidden
  <2>1. ASSUME AccessInv, NEW r \in Readers, reader[r].phase = "answered"
        PROVE  \A m \in Shown(reader[r].view) : ~IsPolicy(m)
    <3>1. reader[r] \in Answers
      BY <2>1 DEF Answers
    <3> QED
      BY <2>1, <3>1, AnswersHold DEF AnswerHolds
  <2> QED
    BY <2>1
<1>2. AccessInv /\ [AccessNext]_viewVars => Unseen
  BY AccessUsesStore, DeniedCommitsAreUnseen DEF AccessInv, HistoryInv, ViewInv
<1>3. PoliciesHidden' =>
        \A r \in Readers : reader'[r].phase = "answered" =>
          \A m \in Shown(reader'[r].view) : ~IsPolicy(m)
  OBVIOUS
<1>4. AccessInv /\ AccessInv' /\ [AccessNext]_viewVars =>
        [/\ versions' # versions =>
              \A q \in Queries : \A rules \in RulesInUse(q) :
                (\A m \in versions' \ versions : ~Allows(q, rules, m)) =>
                  RestrictedView(q, rules)' = RestrictedView(q, rules)
         /\ \A r \in Readers : reader'[r].phase = "answered" =>
              \A m \in Shown(reader'[r].view) : ~IsPolicy(m)]_viewVars
  <2>1. (AccessInv => PoliciesHidden)'
    BY <1>1, PTL
  <2> QED
    BY <1>2, <1>3, <2>1
<1> QED
  BY <1>4, AccessInvariant, PTL DEF AccessSpec, DenialIsSilent

(***************************************************************************)
(* Every memory an answer to a closed query shows is allowed by a policy   *)
(* that governs, and by one more specific than all that deny it.           *)
(***************************************************************************)
THEOREM ExposureStaysJustified == AccessSpec => []ExposureIsJustified
<1>1. ASSUME AccessInv, NEW a \in Answers, Closed(a), NEW m \in Shown(a.view)
      PROVE  LET Governs(p, effect) ==
                   /\ p \in View(a.query.as_of, a.query.known_at).entries
                   /\ IsPolicy(p) /\ p.mutation.content # Malformed
                   /\ p.mutation.content.subject = a.query.requester
                   /\ p.mutation.content.effect = effect
                   /\ Matches(p, m)
             IN  \E p \in versions :
                   /\ Governs(p, "allow")
                   /\ \A d \in versions : Governs(d, "deny") => Specificity(d) < Specificity(p)
  <2> DEFINE q == a.query
  <2>1. m \in Shown(Again(q))
    BY <1>1, AnswersHold DEF AnswerHolds, Shown
  <2>2. Shown(EmptyView) = {}
    BY EmptyViewFacts DEF NothingShown, Shown
  <2>3. m \in Shown(RestrictedView(q, Rules(q))) /\ HasPotentialAllow(Rules(q))
    BY <2>1, <2>2 DEF Again
  <2>4. Allows(q, Rules(q), m)
    BY <2>3, ShownIsAllowed
  <2>5. PICK p \in Rules(q) :
          /\ Matches(p, m) /\ p.mutation.content.effect = "allow"
          /\ \A d \in Rules(q) : Matches(d, m) /\ d.mutation.content.effect = "deny" =>
               Specificity(d) < Specificity(p)
    BY <1>1, <2>4, AllowsFacts DEF AccessInv
  <2>6. ASSUME NEW d \in versions, d \in View(q.as_of, q.known_at).entries,
               IsPolicy(d), d.mutation.content.subject = q.requester
        PROVE  d \in Rules(q)
    <3>1. d \in Policies(q)
      BY <1>1, <2>6, PoliciesFacts, ViewFacts DEF AccessInv, HistoryInv, PoliciesOf, Asked
    <3>2. Rules(q) # {}
      BY <2>5
    <3> QED
      BY <2>6, <3>1, <3>2 DEF Rules
  <2>7. /\ p \in versions /\ p \in View(q.as_of, q.known_at).entries /\ IsPolicy(p)
        /\ p.mutation.content # Malformed /\ p.mutation.content.subject = q.requester
    BY <1>1, RulesFacts DEF AccessInv
  <2> QED
    BY <2>5, <2>6, <2>7
<1>2. AccessInv => ExposureIsJustified
  BY <1>1 DEF ExposureIsJustified
<1> QED
  BY <1>2, AccessInvariant, PTL

=============================================================================
