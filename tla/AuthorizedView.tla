--------------------------- MODULE AuthorizedView ----------------------------
(***************************************************************************)
(* Bitemporal access control (AuthorizationEngine, SQLiteAccessPolicyStore,*)
(* SQLiteAuthorizedMemoryStore, AuthorizedMemoryViewEngine): policies are  *)
(* memories of type access_policy, projected like any other; the rules     *)
(* they give decide which memories a restricted view is made of.           *)
(*                                                                         *)
(* The policies and the memories are read on two connections, with no      *)
(* transaction around both: authorize and read are two steps of a reader,  *)
(* and commits may fall between them.                                      *)
(***************************************************************************)
EXTENDS MemoryView

CONSTANTS
  Readers,
  Queries,      \* AuthorizationQuery values
  Malformed     \* content that is no policy

(***************************************************************************)
(* The content of a policy: whom it is for (subject and action), the       *)
(* effect, and the resource as the keys or the types it matches and its    *)
(* specificity, 0 for a type, the length of a prefix, more for a key.  The *)
(* selector of a query is NULL or the keys and the types it asks for.      *)
(***************************************************************************)
ASSUME AccessAssumption ==
  /\ \A q \in Queries : q.known_at \in Nat \cup {NULL}
  /\ \A u \in Mutations :
       u.memory_type = "access_policy" /\ u.content # Malformed =>
         u.content.effect \in {"allow", "deny"} /\ u.content.specificity \in Nat

VARIABLE reader

viewVars ==
  <<records, versions, committed_at, heads, transaction, client, clock, second, reader>>

IsPolicy(m) == TypeOf(m) = "access_policy"

EmptyView == Project({}, 0, NULL, {}, {})

Resting == [phase |-> "idle"]

(* asked is the horizon at the moment of the request. *)
Authorized(q, rules, asked) ==
  [phase |-> "authorized", query |-> q, rules |-> rules, asked |-> asked]
Answered(q, view, asked) ==
  [phase |-> "answered", query |-> q, view |-> view, asked |-> asked]

AccessInit == StoreInit /\ reader = [r \in Readers |-> Resting]

-----------------------------------------------------------------------------
FaultyPolicies(q) ==
  Project({m \in versions : IsPolicy(m)}, q.as_of, NULL, {}, {"access_policy"}).entries

(* The policy view of authorize: the same as_of and known_at. *)
Policies(q) ==
  Project({m \in versions : IsPolicy(m)},
          q.as_of, q.known_at, {}, {"access_policy"}).entries

(* One malformed active policy, whoever it is for, leaves no rule at all. *)
Rules(q) ==
  IF \E p \in Policies(q) : p.mutation.content = Malformed
  THEN {}
  ELSE {p \in Policies(q) : p.mutation.content.subject = q.requester}

HasPotentialAllow(rules) ==
  \E p \in rules : p.mutation.content.effect = "allow"

(* AuthorizedScope.requested: any one of the selectors is enough. *)
Requested(q, m) ==
  \/ q.selector = NULL
  \/ KeyOf(m) \in q.selector.keys
  \/ TypeOf(m) \in q.selector.types

Matches(p, m) ==
  \/ KeyOf(m) \in p.mutation.content.keys
  \/ TypeOf(m) \in p.mutation.content.types

Specificity(p) == p.mutation.content.specificity

FaultyWinningEffect(rules, m) ==
  LET matching == {p \in rules : Matches(p, m)}
      best == {p \in matching : \A q \in matching : Specificity(q) <= Specificity(p)}
  IN  IF \E p \in best : p.mutation.content.effect = "allow" THEN "allow" ELSE "deny"

(* winning_rule: the most specific; of those equally specific, a deny. *)
WinningEffect(rules, m) ==
  LET matching == {p \in rules : Matches(p, m)}
      best == {p \in matching : \A q \in matching : Specificity(q) <= Specificity(p)}
  IN  IF matching = {} \/ \E p \in best : p.mutation.content.effect = "deny"
      THEN "deny" ELSE "allow"

FaultyAllows(q, rules, m) ==
  /\ Requested(q, m)
  /\ WinningEffect(rules, m) = "allow"

Allows(q, rules, m) ==
  /\ ~IsPolicy(m)
  /\ Requested(q, m)
  /\ WinningEffect(rules, m) = "allow"

FaultyRestrictedView(q, rules) ==
  LET view == Project(versions, q.as_of, q.known_at, {}, {})
  IN  [view EXCEPT !.entries = {m \in @ : Allows(q, rules, m)},
                   !.rejections = {m \in @ : Allows(q, rules, m)}]

(* The ordinary projection, of the allowed versions only. *)
RestrictedView(q, rules) ==
  Project({m \in versions : Allows(q, rules, m)}, q.as_of, q.known_at, {}, {})

Authorize(r, q) ==
  /\ reader[r].phase # "authorized"
  /\ reader' = [reader EXCEPT ![r] =
                  IF HasPotentialAllow(Rules(q))
                  THEN Authorized(q, Rules(q), Horizon)
                  ELSE Answered(q, EmptyView, Horizon)]
  /\ UNCHANGED vars

ReadMemories(r) ==
  /\ reader[r].phase = "authorized"
  /\ reader' = [reader EXCEPT ![r] =
                  Answered(@.query, RestrictedView(@.query, @.rules), @.asked)]
  /\ UNCHANGED vars

AccessNext ==
  \/ (MemoryStep \/ RecordStep(FALSE) \/ Tick) /\ UNCHANGED reader
  \/ \E r \in Readers : (\E q \in Queries : Authorize(r, q)) \/ ReadMemories(r)

AccessSpec == AccessInit /\ [][AccessNext]_viewVars

-----------------------------------------------------------------------------
Shown(view) == view.entries \cup view.rejections

(* A query about a past that was complete when it was asked: before the    *)
(* horizon, below which no commit was still open or to come.               *)
Closed(answer) ==
  answer.query.known_at # NULL /\ answer.query.known_at < answer.asked

Answers == {reader[r] : r \in {x \in Readers : reader[x].phase = "answered"}}

(***************************************************************************)
(* Nothing is shown without an allow that governed: every memory in an     *)
(* answer, whether admitted or reported as rejected, is matched by an      *)
(* active policy for the requester that allows it, known and effective as  *)
(* the query asks, and every policy that denies it is less specific.  For  *)
(* a closed query this holds of the policies as they are found at any      *)
(* later moment, although the answer was made in two reads.                *)
(***************************************************************************)
ExposureIsJustified ==
  \A a \in Answers : Closed(a) => \A m \in Shown(a.view) :
    LET Governs(p, effect) ==
          /\ p \in View(a.query.as_of, a.query.known_at).entries
          /\ IsPolicy(p) /\ p.mutation.content # Malformed
          /\ p.mutation.content.subject = a.query.requester
          /\ p.mutation.content.effect = effect
          /\ Matches(p, m)
    IN  \E p \in versions :
          /\ Governs(p, "allow")
          /\ \A d \in versions : Governs(d, "deny") => Specificity(d) < Specificity(p)

(***************************************************************************)
(* An audit can be repeated: asked again at any later time, a closed query *)
(* shows the requester the same memories, whatever was granted, revoked or *)
(* committed since, and even between the two reads of the first answer.    *)
(***************************************************************************)
AnswersAreReproducible ==
  \A a \in Answers : Closed(a) =>
    LET again == IF HasPotentialAllow(Rules(a.query))
                 THEN RestrictedView(a.query, Rules(a.query)) ELSE EmptyView
    IN  a.view.entries = again.entries /\ a.view.rejections = again.rejections

(* The rules a query would be answered with, or is about to be. *)
RulesInUse(q) ==
  {Rules(q)} \cup
  {reader[r].rules : r \in {x \in Readers :
                             reader[x].phase = "authorized" /\ reader[x].query = q}}

(***************************************************************************)
(* What is denied looks like what is absent: committing a version that the *)
(* rules do not allow changes nothing in an answer by these rules, neither *)
(* what it shows nor any of its counts, be the rest of the answer empty or *)
(* not; and policies, which no rule can allow, are never shown.            *)
(***************************************************************************)
DenialIsSilent ==
  [][/\ versions' # versions =>
          \A q \in Queries : \A rules \in RulesInUse(q) :
            (\A m \in versions' \ versions : ~Allows(q, rules, m)) =>
              RestrictedView(q, rules)' = RestrictedView(q, rules)
     /\ \A r \in Readers : reader'[r].phase = "answered" =>
          \A m \in Shown(reader'[r].view) : ~IsPolicy(m)]_viewVars

=============================================================================
