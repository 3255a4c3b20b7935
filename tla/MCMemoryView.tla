---------------------------- MODULE MCMemoryView -----------------------------
(* A small instance of MemoryView for TLC. *)
EXTENDS MemoryView, TLC

CONSTANTS k1, k2, e1

Proposal(k, type, status, from, until) ==
  [memory_key |-> k, memory_type |-> type, status |-> status, cites |-> {e1},
   valid_from |-> from, valid_until |-> until, content |-> NULL]

MCMutations ==
  {Proposal(k1, "fact", "active", 0, NULL),
   Proposal(k1, "fact", "active", 1, 2),
   Proposal(k1, "fact", "revoked", 1, NULL),
   Proposal(k1, "goal", "active", 0, NULL),
   Proposal(k2, "fact", "disputed", 0, NULL)}

MCCites == e1 :> {}
MCTimes == 0..2

=============================================================================
