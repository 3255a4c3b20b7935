-------------------------- MODULE MCAuthorizedView ---------------------------
(* A small instance of AuthorizedView for TLC. *)
EXTENDS AuthorizedView, TLC

CONSTANTS data, other, grant, ban, e1, alice

Proposal(k, type, status, cites, content) ==
  [memory_key |-> k, memory_type |-> type, status |-> status, cites |-> cites,
   valid_from |-> 0, valid_until |-> NULL, content |-> content]

Policy(effect, keys, types, specificity) ==
  [subject |-> alice, effect |-> effect, keys |-> keys, types |-> types,
   specificity |-> specificity]

(* A prefix of data and grant, one as long that only data has, a type. *)
AllowPrefix == Policy("allow", {data, grant}, {}, 1)
DenyPrefix == Policy("deny", {data}, {}, 1)
DenyType == Policy("deny", {}, {"fact"}, 0)

(* What cites nothing is saved by hand and has one version only. *)
MCMutations ==
  {Proposal(data, "fact", "active", {e1}, NULL),
   Proposal(other, "goal", "active", {}, NULL),
   Proposal(grant, "access_policy", "active", {e1}, AllowPrefix),
   Proposal(grant, "access_policy", "revoked", {e1}, AllowPrefix),
   Proposal(ban, "access_policy", "active", {}, DenyPrefix),
   Proposal(ban, "access_policy", "active", {}, DenyType),
   Proposal(ban, "access_policy", "active", {}, Malformed)}

MCCites == e1 :> {}
MCTimes == 0..1

Query(known_at, selector) ==
  [requester |-> alice, as_of |-> 0, known_at |-> known_at, selector |-> selector]

MCQueries ==
  {Query(1, NULL), Query(NULL, [keys |-> {}, types |-> {"fact"}])}

=============================================================================
