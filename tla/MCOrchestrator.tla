--------------------------- MODULE MCOrchestrator ----------------------------
(* A small instance of Orchestrator for TLC. *)
EXTENDS Orchestrator, TLC

CONSTANTS data, grant, ban, o1, o2, alice, a1, a2

Proposal(k, type, content) ==
  [memory_key |-> k, memory_type |-> type, status |-> "active", cites |-> {},
   valid_from |-> 0, valid_until |-> NULL, content |-> content]

Policy(effect) ==
  [subject |-> alice, effect |-> effect, keys |-> {data}, types |-> {},
   specificity |-> 1]

(* A memory, the permission to use it, and its later prohibition. *)
MCMutations ==
  {Proposal(data, "goal", NULL),
   Proposal(grant, "access_policy", Policy("allow")),
   Proposal(ban, "access_policy", Policy("deny"))}

MCCites == [r \in {o1, o2} |-> {}]
MCTimes == {0}

(* Closed once the second that begins at 1 has begun. *)
MCQueries ==
  {[requester |-> alice, as_of |-> 0, known_at |-> 0, selector |-> NULL]}

(* What a run may capture too. *)
Version(k, type, content) == Memory(Proposal(k, type, content), None, 1)

MCCaptures ==
  {[policies |-> {Version(grant, "access_policy", Policy("allow"))},
    memories |-> {Version(data, "goal", NULL)}, proposal |-> a1]}

MCDecide == [q \in MCQueries |-> a1]
Symmetry == Permutations(Processes) \cup Permutations(Outcomes)

=============================================================================
