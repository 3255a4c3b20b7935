---------------------------- MODULE MCMemoryStore ----------------------------
(* A small instance of MemoryStore for TLC. *)
EXTENDS MemoryStore, TLC

CONSTANTS k1, e1, e2

Upsert(type, status) ==
  [memory_key |-> k1, memory_type |-> type, status |-> status, cites |-> {e1},
   valid_from |-> 0, valid_until |-> NULL, content |-> NULL]

MCMutations ==
  {Upsert("fact", "active"), Upsert("fact", "revoked"), Upsert("goal", "active")}

MCCites == e1 :> {} @@ e2 :> {e1}

=============================================================================
