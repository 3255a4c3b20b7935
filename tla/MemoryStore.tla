----------------------------- MODULE MemoryStore -----------------------------
(***************************************************************************)
(* The experience store (SQLiteExperienceStore): protocol records with the *)
(* records they cite, and versioned memories, each version consolidated    *)
(* from the one before and committed by compare-and-swap on the head of    *)
(* its logical memory.                                                     *)
(*                                                                         *)
(* commit_memory is a BEGIN IMMEDIATE transaction: it holds the write lock *)
(* from its checks to its COMMIT, but readers are not locked out (WAL) and *)
(* time passes, so the INSERT, which stamps the version, and the COMMIT,   *)
(* which shows it, are two steps.  save and delete look before they write  *)
(* and hold no transaction in between, so each is two steps of a client.   *)
(* Callers are unconstrained: any history they once read, any result they  *)
(* computed from it, any expected head, at any time, as often as they like.*)
(***************************************************************************)
EXTENDS Integers, FiniteSets

CONSTANTS
  Keys,         \* logical memory keys
  Records,      \* ids of generic protocol records
  Cites,        \* the records each generic record refers to
  Mutations,    \* the normalized proposals callers make
  Clients,      \* callers of save and delete
  MaxVersion,   \* bound on versions, which the code does not bound
  MaxClock,     \* bound on the clock
  SecondStarts, \* the clock readings at which a second begins
  NULL          \* an absent valid_until, content or query field

Statuses == {"active", "disputed", "revoked", "outdated"}

(***************************************************************************)
(* MemoryMutation, with its kind given by the status it leads to (upsert,  *)
(* dispute, revoke); "outdated" is for memories built by hand.  cites      *)
(* stands for the source events and the contradicted records.              *)
(***************************************************************************)
IsMutation(u) ==
  /\ DOMAIN u = {"memory_key", "memory_type", "status", "cites",
                 "valid_from", "valid_until", "content"}
  /\ u.memory_key \in Keys
  /\ u.status \in Statuses
  /\ u.cites \subseteq Records
  /\ u.memory_type = "fact" /\ u.status = "active" => u.cites # {}
  /\ u.valid_until # NULL => u.valid_from < u.valid_until

ASSUME StoreAssumption ==
  /\ \A u \in Mutations : IsMutation(u)
  /\ Cites \in [Records -> SUBSET Records]
  /\ MaxVersion \in Nat /\ MaxClock \in Nat /\ SecondStarts \subseteq Nat

VARIABLES
  records,      \* table records: the generic records
  versions,     \* table memory_versions, with the memories in records
  committed_at, \* records.updated_at of the memories
  heads,        \* table memory_heads
  transaction,  \* the open transaction of commit_memory, if there is one
  client,       \* what each client is about to write
  clock,        \* the clock of the machine
  second        \* what CURRENT_TIMESTAMP gives: the start of its second

tables == <<versions, committed_at, heads>>
memoryVars == <<tables, transaction>>
timeVars == <<clock, second>>
vars == <<records, versions, committed_at, heads, transaction, client, clock, second>>

-----------------------------------------------------------------------------
(***************************************************************************)
(* A MemoryObject.  Its id is a hash of the mutation and of the id and     *)
(* version of the memory before it, so the record stands for its id.       *)
(***************************************************************************)
Memory(u, previous, n) == [mutation |-> u, previous |-> previous, version |-> n]

(* In the place of a memory that is not there. *)
None == [version |-> 0]

KeyOf(m) == m.mutation.memory_key
TypeOf(m) == m.mutation.memory_type

OfKey(history, k) == {m \in history : KeyOf(m) = k}

(* _latest refuses a history with two memories of one version. *)
Unambiguous(history) ==
  \A m, n \in history : KeyOf(m) = KeyOf(n) /\ m.version = n.version => m = n

Latest(history) ==
  CHOOSE m \in history : \A n \in history : n.version <= m.version

(* consolidate raises unless the mutation can follow the history. *)
Consolidable(u, history) ==
  LET relevant == OfKey(history, u.memory_key)
  IN  /\ Unambiguous(relevant)
      /\ u.status # "outdated" /\ u.cites # {}
      /\ IF relevant = {} THEN u.status = "active"
                          ELSE TypeOf(Latest(relevant)) = u.memory_type

Consolidate(u, history) ==
  LET relevant == OfKey(history, u.memory_key)
  IN  IF relevant = {} THEN Memory(u, None, 1)
                       ELSE Memory(u, Latest(relevant), Latest(relevant).version + 1)

Results(history) ==
  {Consolidate(u, history) : u \in {x \in Mutations : Consolidable(x, history)}}

(***************************************************************************)
(* What a caller may hold: a result it made from the history as it read it *)
(* once, which may be long ago, or from such a result never committed.     *)
(***************************************************************************)
Proposals ==
  LET first == UNION {Results({m \in versions : m.version <= n}) : n \in 0..MaxVersion}
  IN  first \cup UNION {Results({m}) : m \in first}

-----------------------------------------------------------------------------
Idle == [op |-> "idle"]
Writing(op, r) == [op |-> op, record |-> r]
Operations == {Idle} \cup {Writing(op, r) : op \in {"save", "delete"}, r \in Records}

(* What an open transaction has written: a memory and its updated_at. *)
Inserted(m, stamp) == [memory |-> m, stamp |-> stamp]
NoTransaction == Inserted(None, 0)

(* Whoever writes needs the write lock, be it for one statement. *)
Unlocked == transaction = NoTransaction

StoreInit ==
  /\ records = {}
  /\ versions = {}
  /\ committed_at = [m \in versions |-> 0]
  /\ heads = [k \in Keys |-> None]
  /\ transaction = NoTransaction
  /\ client = [c \in Clients |-> Idle]
  /\ clock = 0
  /\ second = 0

(* _validate_memory_progression *)
Follows(m, head) ==
  IF head = None THEN m.previous = None /\ m.version = 1
                 ELSE /\ m.previous = head
                      /\ m.version = head.version + 1
                      /\ TypeOf(m) = TypeOf(head)

(* _missing_references is empty for m. *)
ReferencesPresent(m) ==
  /\ m.mutation.cites \subseteq records
  /\ m.previous \in versions \cup {None}

(* PRIMARY KEY(memory_id) and UNIQUE(memory_key, version). *)
FreshVersion(m) ==
  \A n \in versions : KeyOf(n) = KeyOf(m) => n.version # m.version

FaultyBeginCommit(m, expected) ==
  /\ Unlocked
  /\ m.version <= MaxVersion
  /\ expected = heads[KeyOf(m)]
  /\ ReferencesPresent(m)
  /\ transaction' = Inserted(m, second)
  /\ UNCHANGED <<records, tables, client, timeVars>>

(***************************************************************************)
(* _commit_memory_object up to its INSERT, which fills in updated_at with  *)
(* CURRENT_TIMESTAMP.  A repeated commit of the current head is answered   *)
(* without looking at what the caller expected.                            *)
(***************************************************************************)
BeginCommit(m, expected) ==
  /\ Unlocked
  /\ m.version <= MaxVersion
  /\ LET head == heads[KeyOf(m)]
     IN  \/ head = m /\ UNCHANGED transaction
         \/ /\ head # m
            /\ expected = head
            /\ Follows(m, head)
            /\ ReferencesPresent(m)
            /\ FreshVersion(m)
            /\ transaction' = Inserted(m, second)
  /\ UNCHANGED <<records, tables, client, timeVars>>

FaultyEndCommit ==
  /\ ~Unlocked
  /\ heads' = [heads EXCEPT ![KeyOf(transaction.memory)] = transaction.memory]
  /\ transaction' = NoTransaction
  /\ UNCHANGED <<records, versions, committed_at, client, timeVars>>

(* The head moves, and COMMIT shows it all, however late. *)
EndCommit ==
  /\ ~Unlocked
  /\ LET m == transaction.memory
     IN  /\ versions' = versions \cup {m}
         /\ committed_at' = [n \in versions \cup {m} |->
                               IF n = m THEN transaction.stamp ELSE committed_at[n]]
         /\ heads' = [heads EXCEPT ![KeyOf(m)] = m]
  /\ transaction' = NoTransaction
  /\ UNCHANGED <<records, client, timeVars>>

(* An error after the INSERT, or the death of the process. *)
RollBack ==
  /\ ~Unlocked
  /\ transaction' = NoTransaction
  /\ UNCHANGED <<records, tables, client, timeVars>>

(* save of a memory: the first version of its key, built by hand. *)
SaveMemory(u) == BeginCommit(Memory(u, None, 1), None)

(* save of any other record: the check of its references, ... *)
BeginSave(c, r) ==
  /\ client[c] = Idle
  /\ Cites[r] \subseteq records
  /\ client' = [client EXCEPT ![c] = Writing("save", r)]
  /\ UNCHANGED <<records, memoryVars, timeVars>>

(* ... then the INSERT, refused as a duplicate if the id is there. *)
EndSave(c) ==
  /\ client[c].op = "save" /\ Unlocked
  /\ records' = records \cup {client[c].record}
  /\ client' = [client EXCEPT ![c] = Idle]
  /\ UNCHANGED <<memoryVars, timeVars>>

Dependants(r) ==
  {q \in records \ {r} : r \in Cites[q]} \cup
  {m \in versions : r \in m.mutation.cites}

(* delete: committed memories are refused; the check for dependants, ... *)
BeginDelete(c, r, force) ==
  /\ client[c] = Idle
  /\ r \in records
  /\ force \/ Dependants(r) = {}
  /\ client' = [client EXCEPT ![c] = Writing("delete", r)]
  /\ UNCHANGED <<records, memoryVars, timeVars>>

(* ... then the DELETE, whatever has been written since. *)
EndDelete(c) ==
  /\ client[c].op = "delete" /\ Unlocked
  /\ records' = records \ {client[c].record}
  /\ client' = [client EXCEPT ![c] = Idle]
  /\ UNCHANGED <<memoryVars, timeVars>>

(* A client that stops, that waits too long for the lock, or whose list()  *)
(* meets a record just deleted.                                            *)
GiveUp(c) ==
  /\ client[c] # Idle
  /\ client' = [client EXCEPT ![c] = Idle]
  /\ UNCHANGED <<records, memoryVars, timeVars>>

Tick ==
  /\ clock < MaxClock
  /\ clock' = clock + 1
  /\ second' = IF clock + 1 \in SecondStarts THEN clock + 1 ELSE second
  /\ UNCHANGED <<records, memoryVars, client>>

MemoryStep ==
  \/ \E u \in Mutations : SaveMemory(u)
  \/ \E m \in Proposals, expected \in versions \cup {None} :
       BeginCommit(m, expected)
  \/ EndCommit
  \/ RollBack

RecordStep(force) ==
  \E c \in Clients :
    \/ \E r \in Records : BeginSave(c, r) \/ BeginDelete(c, r, force)
    \/ EndSave(c)
    \/ EndDelete(c)
    \/ GiveUp(c)

StoreNext == MemoryStep \/ (\E force \in BOOLEAN : RecordStep(force)) \/ Tick

StoreSpec == StoreInit /\ [][StoreNext]_vars

(* The same store with callers that never force a deletion. *)
CarefulSpec == StoreInit /\ [][MemoryStep \/ RecordStep(FALSE) \/ Tick]_vars

-----------------------------------------------------------------------------
(***************************************************************************)
(* The first second that may still get a version: no commit yet to come is *)
(* stamped before it.  It is the current second, unless the transaction    *)
(* that is open was stamped earlier.                                       *)
(***************************************************************************)
Horizon == IF Unlocked THEN second ELSE transaction.stamp

(* A version and its stamp have the types of the columns. *)
VersionTypeOK(m, stamp) ==
  /\ m = Memory(m.mutation, m.previous, m.version)
  /\ m.mutation \in Mutations
  /\ m.previous \in versions \cup {None}
  /\ m.version \in 1..MaxVersion
  /\ stamp \in 0..second

StoreTypeOK ==
  /\ records \subseteq Records
  /\ \A m \in versions : VersionTypeOK(m, committed_at[m])
  /\ DOMAIN committed_at = versions
  /\ heads \in [Keys -> versions \cup {None}]
  /\ Unlocked \/ VersionTypeOK(transaction.memory, transaction.stamp)
  /\ client \in [Clients -> Operations]
  /\ clock \in Nat /\ second \in 0..clock

(***************************************************************************)
(* The committed versions of a logical memory are one line, however        *)
(* writers race and whatever they expect: no fork, no gap, each version    *)
(* made from the one before it and of the same type, the head at the end,  *)
(* and versions committed in order.                                        *)
(***************************************************************************)
OneLinePerKey ==
  /\ Unambiguous(versions)
  /\ \A m \in versions :
       IF m.version = 1
       THEN m.previous = None
       ELSE /\ m.previous \in versions
            /\ KeyOf(m.previous) = KeyOf(m)
            /\ TypeOf(m.previous) = TypeOf(m)
            /\ m.previous.version = m.version - 1
            /\ committed_at[m.previous] <= committed_at[m]
  /\ \A k \in Keys :
       IF heads[k] = None
       THEN OfKey(versions, k) = {}
       ELSE /\ heads[k] \in OfKey(versions, k)
            /\ \A m \in OfKey(versions, k) : m.version <= heads[k].version

(***************************************************************************)
(* No update is lost: a head only ever moves to a version made from it,    *)
(* and what was committed stays committed, at the time it was committed,   *)
(* even through forced deletions.                                          *)
(***************************************************************************)
NoLostUpdate ==
  [][/\ \A k \in Keys : heads'[k] # heads[k] => heads'[k].previous = heads[k]
     /\ versions \subseteq versions'
     /\ \A m \in versions : committed_at'[m] = committed_at[m]]_vars

(***************************************************************************)
(* "The SQLite store additionally checks that every referenced event or    *)
(* memory already exists.  This prevents a memory from claiming provenance *)
(* that is absent from the local accountable history."                     *)
(***************************************************************************)
MemoriesHaveProvenance == \A m \in versions : m.mutation.cites \subseteq records

=============================================================================
