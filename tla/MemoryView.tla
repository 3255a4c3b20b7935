----------------------------- MODULE MemoryView ------------------------------
(***************************************************************************)
(* The bitemporal memory view (MemoryViewEngine over SQLiteMemoryViewStore *)
(* and the older helper resolve_active_memory): which version of each      *)
(* logical memory governed at as_of, as far as was known at known_at.      *)
(*                                                                         *)
(* A projection reads immutable versions in one query and computes; it is  *)
(* an operator on the state of MemoryStore, and what matters is how the    *)
(* answers to one query, asked at different moments, relate.               *)
(***************************************************************************)
EXTENDS MemoryStore

CONSTANT Times  \* the as_of and known_at of the queries considered

ASSUME ViewAssumption == Times \subseteq Nat /\ NULL \notin Nat

FaultyGoverning(effective) ==
  {m \in effective :
     /\ m.mutation.status = "active"
     /\ \A n \in OfKey(effective, KeyOf(m)) :
          n.mutation.status = "active" => n.version <= m.version}

(* Of each key the highest version; the further sort keys break ties that  *)
(* committed histories do not have.                                        *)
Governing(effective) ==
  {m \in effective : \A n \in OfKey(effective, KeyOf(m)) : n.version <= m.version}

Effective(m, as_of) == m.mutation.valid_from <= as_of

Expired(m, as_of) ==
  m.mutation.valid_until # NULL /\ as_of >= m.mutation.valid_until

FaultyKnown(m, known_at) == TRUE

Known(m, known_at) == known_at = NULL \/ committed_at[m] <= known_at

FaultySelected(m, keys, types) == types # {} => TypeOf(m) \in types

(* The optional filters: an empty one admits everything. *)
Selected(m, keys, types) ==
  /\ keys # {} => KeyOf(m) \in keys
  /\ types # {} => TypeOf(m) \in types

(***************************************************************************)
(* project: the governing version of every key among the versions that     *)
(* pass the filters, then the gates on its status and its expiry.          *)
(***************************************************************************)
Project(history, as_of, known_at, keys, types) ==
  LET selected  == {m \in history : Selected(m, keys, types)}
      known     == {m \in selected : Known(m, known_at)}
      effective == {m \in known : Effective(m, as_of)}
      governing == Governing(effective)
      active    == {m \in governing : m.mutation.status = "active"}
      entries   == {m \in active : ~Expired(m, as_of)}
  IN  [entries    |-> entries,
       rejections |-> governing \ entries,
       filter_counts |->
         [filtered_by_key_or_type |-> Cardinality(history \ selected),
          not_known_by_cutoff     |-> Cardinality(selected \ known),
          not_yet_effective       |-> Cardinality(known \ effective),
          superseded_versions     |-> Cardinality(effective \ governing),
          non_active_governing    |-> Cardinality(governing \ active),
          expired_governing       |-> Cardinality(active \ entries)]]

View(as_of, known_at) == Project(versions, as_of, known_at, {}, {})

FaultyResolveActive(memories, k, at) ==
  LET effective == {m \in OfKey(memories, k) :
                      /\ Effective(m, at) /\ ~Expired(m, at)
                      /\ m.mutation.status = "active"}
  IN  IF effective # {} THEN {Latest(effective)} ELSE {}

(* resolve_active_memory, with is_active_at. *)
ResolveActive(memories, k, at) ==
  LET effective == {m \in OfKey(memories, k) : Effective(m, at)}
      latest    == Latest(effective)
  IN  IF effective # {} /\ latest.mutation.status = "active" /\ ~Expired(latest, at)
      THEN {latest} ELSE {}

-----------------------------------------------------------------------------
TypesOf(k) == {TypeOf(m) : m \in OfKey(versions, k)}

(***************************************************************************)
(* The view and the older helper resolve the same memory for every key at  *)
(* every time, although they choose the governing version separately.      *)
(***************************************************************************)
ViewsAgree ==
  \A t \in Times, k \in Keys :
    OfKey(View(t, NULL).entries, k) = ResolveActive(versions, k, t)

(***************************************************************************)
(* Filtering does not change who governs: a view restricted to a key, or   *)
(* to a type, is the part of the full view with that key or type.  (The    *)
(* filters apply before the governing version is chosen, so this rests on  *)
(* the versions of a key all having one type.)                             *)
(***************************************************************************)
FilteredViewsRestrict ==
  \A t \in Times, known_at \in Times \cup {NULL}, k \in Keys :
    LET full == View(t, known_at)
    IN  /\ Project(versions, t, known_at, {k}, {}).entries = OfKey(full.entries, k)
        /\ \A type \in TypesOf(k) :
             Project(versions, t, known_at, {}, {type}).entries
               = {m \in full.entries : TypeOf(m) = type}

(***************************************************************************)
(* A version that is not active shuts its key: from its valid_from on, and *)
(* as far as it is known, no earlier version of that key is in a view, and *)
(* a later one only if it was committed on top of it.                      *)
(***************************************************************************)
NothingIsResurrected ==
  \A m \in versions : m.mutation.status # "active" =>
    \A t \in Times, known_at \in Times \cup {NULL} :
      m.mutation.valid_from <= t /\ Known(m, known_at) =>
        \A n \in OfKey(View(t, known_at).entries, KeyOf(m)) :
          n.version > m.version

(* What a view says of the memories; its counts also tell how many         *)
(* versions it left out, which grows with every commit.                    *)
State(t, known_at) == <<View(t, known_at).entries, View(t, known_at).rejections>>

(***************************************************************************)
(* What the agent knew stays what it knew: the view at a known_at before   *)
(* the horizon never changes again, whatever is committed later, backdated *)
(* or not.  That its second is over is not enough: a transaction stamped   *)
(* in it may be open still, and appear in the view when it commits.        *)
(***************************************************************************)
ClosedViewsAreFrozen ==
  [][memoryVars' # memoryVars =>
       \A t, known_at \in Times :
         known_at < Horizon => State(t, known_at)' = State(t, known_at)]_vars

(***************************************************************************)
(* The same with the documented reading of known_at, any instant that is   *)
(* past: a later commit "must not rewrite a faithful reconstruction of     *)
(* what the agent knew".                                                   *)
(***************************************************************************)
PastViewsAreFrozen ==
  [][memoryVars' # memoryVars =>
       \A t, known_at \in Times :
         known_at < clock => State(t, known_at)' = State(t, known_at)]_vars

=============================================================================
