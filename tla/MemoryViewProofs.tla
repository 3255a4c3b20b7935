-------------------------- MODULE MemoryViewProofs --------------------------
(***************************************************************************)
(* Proofs about MemoryStore and MemoryView.                                *)
(*                                                                         *)
(* The store, for any keys, mutations, clients and bounds: the committed   *)
(* versions of a logical memory are one line, and no update is lost.       *)
(* StoreTypeOK and OneLinePerKey are inductive together with what an open  *)
(* transaction relies on (TransactionFits).                                *)
(*                                                                         *)
(* The view, for any histories the store can have and any queries: what    *)
(* makes a view well defined is that the versions of a key are numbered    *)
(* without a tie (OneLinePerKey) and have one type, which is added to the  *)
(* store's invariant in the second part.                                   *)
(***************************************************************************)
EXTENDS MemoryView, WellFoundedInduction, TLAPS

-----------------------------------------------------------------------------
(* The store. *)

(***************************************************************************)
(* An open transaction has a version that still fits its line: its checks  *)
(* hold until it commits, since it has the write lock.  Whatever is        *)
(* committed was stamped no later.                                         *)
(***************************************************************************)
TransactionFits ==
  Unlocked \/ LET m == transaction.memory
              IN  /\ Follows(m, heads[KeyOf(m)])
                  /\ FreshVersion(m)
                  /\ \A n \in versions : committed_at[n] <= transaction.stamp

StoreInv == StoreTypeOK /\ OneLinePerKey /\ TransactionFits

(* A result of consolidation is a memory made of one of the mutations. *)
IsMemory(m) == m = Memory(m.mutation, m.previous, m.version) /\ m.mutation \in Mutations

(* So is every result a caller can compute from a history. *)
LEMMA ResultsAreMemories ==
  ASSUME NEW history, NEW m \in Results(history)
  PROVE  IsMemory(m)
<1>1. PICK u \in Mutations : m = Consolidate(u, history)
  BY DEF Results
<1> QED
  BY <1>1 DEF Consolidate, Memory, IsMemory

(* So is whatever a caller may hold, ... *)
LEMMA ProposalsAreMemories ==
  ASSUME NEW m \in Proposals
  PROVE  IsMemory(m)
<1>1. PICK history : m \in Results(history)
  BY DEF Proposals
<1> QED
  BY <1>1, ResultsAreMemories

(* ... and a first version built by hand. *)
LEMMA FirstVersionsAreMemories ==
  ASSUME NEW u \in Mutations
  PROVE  IsMemory(Memory(u, None, 1))
  BY DEF IsMemory, Memory

(* The empty store satisfies the invariant. *)
LEMMA InitStoreInv == StoreInit => StoreInv
<1> SUFFICES ASSUME StoreInit
             PROVE  StoreInv
  OBVIOUS
<1>1. StoreTypeOK
  BY DEF StoreInit, StoreTypeOK, Operations, Unlocked
<1>2. OneLinePerKey
  BY DEF StoreInit, OneLinePerKey, Unambiguous, OfKey
<1>3. TransactionFits
  BY DEF StoreInit, TransactionFits, Unlocked
<1> QED
  BY <1>1, <1>2, <1>3 DEF StoreInv

(* The head of a key is its newest version, or there is no version. *)
LEMMA HeadFacts ==
  ASSUME StoreInv, NEW k \in Keys
  PROVE  /\ heads[k] # None =>
              /\ heads[k] \in versions
              /\ KeyOf(heads[k]) = k
              /\ \A n \in versions : KeyOf(n) = k => n.version <= heads[k].version
         /\ heads[k] = None => \A n \in versions : KeyOf(n) # k
         /\ \A n \in versions : n.version \in Nat /\ n.version >= 1 /\ n # None
  BY StoreAssumption DEF StoreInv, StoreTypeOK, VersionTypeOK, OneLinePerKey, OfKey, None

-----------------------------------------------------------------------------
(***************************************************************************)
(* What commit_memory does before its COMMIT when it does anything: the    *)
(* new version follows the head, is not there yet, and is stamped with the *)
(* current second.                                                         *)
(***************************************************************************)
Begins(m) ==
  /\ Unlocked
  /\ IsMemory(m)
  /\ m.version <= MaxVersion
  /\ Follows(m, heads[KeyOf(m)])
  /\ ReferencesPresent(m)
  /\ FreshVersion(m)
  /\ transaction' = Inserted(m, second)
  /\ UNCHANGED <<records, tables, client, timeVars>>

(* A call of commit_memory opens a transaction or changes nothing. *)
LEMMA CommitCases ==
  ASSUME NEW m, IsMemory(m), NEW expected, BeginCommit(m, expected)
  PROVE  Begins(m) \/ UNCHANGED vars
  BY DEF BeginCommit, Begins, tables, timeVars, vars

(* The same for save of a memory, which is such a call. *)
LEMMA MemoryStepCases ==
  ASSUME MemoryStep
  PROVE  (\E m : Begins(m)) \/ EndCommit \/ RollBack \/ UNCHANGED vars
<1>1. CASE \E u \in Mutations : SaveMemory(u)
  BY <1>1, CommitCases, FirstVersionsAreMemories DEF SaveMemory
<1>2. CASE \E m \in Proposals, expected \in versions \cup {None} : BeginCommit(m, expected)
  BY <1>2, CommitCases, ProposalsAreMemories
<1> QED
  BY <1>1, <1>2 DEF MemoryStep

(* A memory of one of the mutations has a key. *)
LEMMA KeysOfMemories ==
  ASSUME NEW m, m.mutation \in Mutations
  PROVE  KeyOf(m) \in Keys
BY StoreAssumption DEF IsMutation, KeyOf

(* Where the tables and an open transaction stay, so does what ties them. *)
LEMMA TablesKeep ==
  ASSUME StoreInv, UNCHANGED tables
  PROVE  OneLinePerKey' /\ (transaction' \in {transaction, NoTransaction} => TransactionFits')
<1>1. versions' = versions /\ committed_at' = committed_at /\ heads' = heads
  BY DEF tables
<1>2. OneLinePerKey'
  BY <1>1 DEF StoreInv, OneLinePerKey, Unambiguous, OfKey, KeyOf, TypeOf
<1>3. ASSUME transaction' = transaction PROVE TransactionFits'
  BY <1>1, <1>3 DEF StoreInv, TransactionFits, Unlocked, Follows, FreshVersion, KeyOf, TypeOf
<1>4. ASSUME transaction' = NoTransaction PROVE TransactionFits'
  BY <1>4 DEF TransactionFits, Unlocked
<1> QED
  BY <1>2, <1>3, <1>4

(* Opening a transaction: its checks are what it relies on. *)
LEMMA BeginsInv ==
  ASSUME StoreInv, NEW m, Begins(m)
  PROVE  StoreInv'
<1> DEFINE k == KeyOf(m)
<1>1. /\ records' = records /\ client' = client /\ clock' = clock /\ second' = second
      /\ versions' = versions /\ committed_at' = committed_at /\ heads' = heads
  BY DEF Begins, tables, timeVars
<1>2. /\ m.mutation \in Mutations /\ m = Memory(m.mutation, m.previous, m.version)
      /\ k \in Keys /\ m.previous \in versions \cup {None}
  BY KeysOfMemories DEF Begins, IsMemory, ReferencesPresent
<1>3. m.version \in 1..MaxVersion
  <2>1. CASE heads[k] = None
    BY <2>1, StoreAssumption DEF Follows, Begins
  <2>2. CASE heads[k] # None
    BY <2>2, <1>2, HeadFacts, StoreAssumption DEF Follows, Begins
  <2> QED
    BY <2>1, <2>2
<1>4. second \in Nat /\ \A n \in versions : committed_at[n] \in 0..second
  BY DEF StoreInv, StoreTypeOK, VersionTypeOK
<1>5. transaction'.memory = m /\ transaction'.stamp = second
  BY DEF Begins, Inserted
<1>6. StoreTypeOK'
  <2>1. \A n \in versions : VersionTypeOK(n, committed_at[n])'
    BY <1>1 DEF StoreInv, StoreTypeOK, VersionTypeOK
  <2>2. VersionTypeOK(transaction.memory, transaction.stamp)'
    BY <1>1, <1>2, <1>3, <1>4, <1>5 DEF VersionTypeOK
  <2> QED
    BY <1>1, <2>1, <2>2 DEF StoreInv, StoreTypeOK
<1>7. OneLinePerKey'
  BY TablesKeep DEF Begins
<1>8. TransactionFits'
  BY <1>1, <1>4, <1>5 DEF TransactionFits, Begins, Follows, FreshVersion, KeyOf, TypeOf
<1> QED
  BY <1>6, <1>7, <1>8 DEF StoreInv

(* The new version and the stamps after a COMMIT. *)
LEMMA EndCommitFacts ==
  ASSUME StoreInv, EndCommit
  PROVE  LET m == transaction.memory
         IN  /\ m \notin versions /\ m # None /\ m.mutation \in Mutations
             /\ KeyOf(m) \in Keys
             /\ FreshVersion(m)
             /\ m = Memory(m.mutation, m.previous, m.version)
             /\ m.previous \in versions \cup {None}
             /\ m.version \in 1..MaxVersion
             /\ versions' = versions \cup {m}
             /\ heads' = [heads EXCEPT ![KeyOf(m)] = m]
             /\ heads'[KeyOf(m)] = m
             /\ \A k \in Keys : k # KeyOf(m) => heads'[k] = heads[k]
             /\ committed_at'[m] = transaction.stamp
             /\ transaction.stamp \in 0..second
             /\ \A n \in versions : /\ committed_at'[n] = committed_at[n]
                                     /\ committed_at[n] <= transaction.stamp
             /\ DOMAIN committed_at' = versions'
             /\ heads[KeyOf(m)] = None => m.previous = None /\ m.version = 1
             /\ heads[KeyOf(m)] # None =>
                  /\ m.previous = heads[KeyOf(m)]
                  /\ m.version = heads[KeyOf(m)].version + 1
                  /\ TypeOf(m) = TypeOf(heads[KeyOf(m)])
<1>1. PICK m : m = transaction.memory
  OBVIOUS
<1>2. /\ VersionTypeOK(m, transaction.stamp)
      /\ Follows(m, heads[KeyOf(m)]) /\ FreshVersion(m)
      /\ \A n \in versions : committed_at[n] <= transaction.stamp
  BY <1>1 DEF EndCommit, StoreInv, StoreTypeOK, TransactionFits
<1>3. m \notin versions /\ KeyOf(m) \in Keys /\ m # None
  BY <1>2, KeysOfMemories, StoreAssumption DEF FreshVersion, VersionTypeOK, None
<1>4. /\ versions' = versions \cup {m}
      /\ committed_at' = [n \in versions \cup {m} |->
                            IF n = m THEN transaction.stamp ELSE committed_at[n]]
      /\ heads' = [heads EXCEPT ![KeyOf(m)] = m]
  BY <1>1 DEF EndCommit
<1>5. /\ committed_at'[m] = transaction.stamp
      /\ \A n \in versions : committed_at'[n] = committed_at[n]
      /\ DOMAIN committed_at' = versions'
  BY <1>3, <1>4
<1>6. heads'[KeyOf(m)] = m /\ \A k \in Keys : k # KeyOf(m) => heads'[k] = heads[k]
  BY <1>3, <1>4 DEF StoreInv, StoreTypeOK
<1> QED
  BY <1>1, <1>2, <1>3, <1>4, <1>5, <1>6 DEF Follows, VersionTypeOK

(* A new version keeps the types of the tables ... *)
LEMMA EndCommitTypes ==
  ASSUME StoreInv, EndCommit
  PROVE  StoreTypeOK'
<1>1. PICK m : m = transaction.memory
  OBVIOUS
<1> USE <1>1, EndCommitFacts
<1>2. records' = records /\ client' = client /\ clock' = clock /\ second' = second
  BY DEF EndCommit, timeVars
<1>3. ASSUME NEW n \in versions' PROVE VersionTypeOK(n, committed_at[n])'
  <2>1. CASE n \in versions
    BY <1>2, <2>1 DEF StoreInv, StoreTypeOK, VersionTypeOK
  <2>2. CASE n = m
    BY <1>2, <2>2 DEF VersionTypeOK
  <2> QED
    BY <2>1, <2>2
<1>4. heads' \in [Keys -> versions' \cup {None}]
  BY DEF StoreInv, StoreTypeOK
<1>5. Unlocked'
  BY DEF EndCommit, Unlocked
<1> QED
  BY <1>2, <1>3, <1>4, <1>5 DEF StoreInv, StoreTypeOK

(* ... and lies at the end of its line. *)
LEMMA EndCommitLine ==
  ASSUME StoreInv, EndCommit
  PROVE  OneLinePerKey'
<1>0. PICK m, k : m = transaction.memory /\ k = KeyOf(m)
  OBVIOUS
<1> USE <1>0, EndCommitFacts
<1>1. Unambiguous(versions)'
  BY DEF StoreInv, OneLinePerKey, Unambiguous, FreshVersion
<1>2. ASSUME NEW n \in versions'
      PROVE  IF n.version = 1
             THEN n.previous = None
             ELSE /\ n.previous \in versions'
                  /\ KeyOf(n.previous) = KeyOf(n)
                  /\ TypeOf(n.previous) = TypeOf(n)
                  /\ n.previous.version = n.version - 1
                  /\ committed_at'[n.previous] <= committed_at'[n]
  <2>1. CASE n \in versions
    BY <2>1 DEF StoreInv, OneLinePerKey
  <2>2. CASE n = m /\ heads[k] = None
    BY <2>2
  <2>3. CASE n = m /\ heads[k] # None
    <3>1. /\ heads[k] \in versions /\ KeyOf(heads[k]) = k
          /\ heads[k].version \in Nat /\ heads[k].version >= 1
      BY <2>3, HeadFacts
    <3> QED
      BY <2>3, <3>1
  <2> QED
    BY <2>1, <2>2, <2>3
<1>3. ASSUME NEW j \in Keys
      PROVE  IF heads'[j] = None
             THEN OfKey(versions', j) = {}
             ELSE /\ heads'[j] \in OfKey(versions', j)
                  /\ \A n \in OfKey(versions', j) : n.version <= heads'[j].version
  <2>1. CASE j # k
    <3>1. heads'[j] = heads[j] /\ OfKey(versions', j) = OfKey(versions, j)
      BY <2>1 DEF OfKey
    <3> QED
      BY <3>1 DEF StoreInv, OneLinePerKey
  <2>2. CASE j = k
    <3>1. heads'[j] = m /\ m \in OfKey(versions', j)
      BY <2>2 DEF OfKey
    <3>2. \A n \in versions : KeyOf(n) = k => n.version <= m.version
      BY HeadFacts
    <3>3. m.version <= m.version
      BY StoreAssumption
    <3> QED
      BY <2>2, <3>1, <3>2, <3>3 DEF OfKey
  <2> QED
    BY <2>1, <2>2
<1> QED
  BY <1>1, <1>2, <1>3 DEF OneLinePerKey

LEMMA EndCommitInv ==
  ASSUME StoreInv, EndCommit
  PROVE  StoreInv'
<1>1. TransactionFits'
  BY DEF EndCommit, TransactionFits, Unlocked
<1> QED
  BY <1>1, EndCommitTypes, EndCommitLine DEF StoreInv

LEMMA RollBackInv ==
  ASSUME StoreInv, RollBack
  PROVE  StoreInv' /\ UNCHANGED <<tables, timeVars>>
<1>1. /\ UNCHANGED <<records, versions, committed_at, heads, client, clock, second>>
      /\ transaction' = NoTransaction
  BY DEF RollBack, tables, timeVars
<1>2. StoreTypeOK'
  BY <1>1 DEF StoreInv, StoreTypeOK, VersionTypeOK, Unlocked
<1> QED
  BY <1>1, <1>2, TablesKeep DEF StoreInv, tables, timeVars

(* The other steps leave the memories alone and let time pass forward. *)
LEMMA RecordStepInv ==
  ASSUME StoreInv, NEW force, RecordStep(force)
  PROVE  StoreInv' /\ UNCHANGED <<memoryVars, timeVars>>
<1> USE DEF memoryVars, tables, timeVars
<1>1. UNCHANGED <<versions, committed_at, heads, transaction, clock, second>>
  BY DEF RecordStep, BeginSave, BeginDelete, EndSave, EndDelete, GiveUp
<1>2. OneLinePerKey' /\ TransactionFits'
  BY <1>1, TablesKeep
<1>3. records' \subseteq Records /\ client' \in [Clients -> Operations]
  <2>1. records \subseteq Records /\ client \in [Clients -> Operations]
    BY DEF StoreInv, StoreTypeOK
  <2>2. Idle \in Operations
        /\ \A r \in Records : {Writing("save", r), Writing("delete", r)} \subseteq Operations
    BY DEF Operations
  <2>3. ASSUME NEW c \in Clients, client[c].op = "save"
        PROVE  client[c].record \in Records
    BY <2>1, <2>3 DEF Operations, Idle, Writing
  <2> QED
    BY <2>1, <2>2, <2>3 DEF RecordStep, BeginSave, BeginDelete, EndSave, EndDelete, GiveUp
<1>4. StoreTypeOK'
  BY <1>1, <1>3 DEF StoreInv, StoreTypeOK, VersionTypeOK, Unlocked
<1> QED
  BY <1>1, <1>2, <1>4 DEF StoreInv

(* A stamp already given stays in the past. *)
LEMMA TickInv ==
  ASSUME StoreInv, Tick
  PROVE  StoreInv' /\ UNCHANGED memoryVars
<1>1. UNCHANGED <<records, versions, committed_at, heads, transaction, client>>
  BY DEF Tick, memoryVars, tables
<1>2. clock' \in Nat /\ second' \in 0..clock' /\ second <= second' /\ second \in Nat
  <2>1. clock \in Nat /\ second \in 0..clock
    BY DEF StoreInv, StoreTypeOK
  <2>2. clock' = clock + 1 /\ second' \in {clock + 1, second}
    BY DEF Tick
  <2> QED
    BY <2>1, <2>2
<1>3. \A m, stamp : VersionTypeOK(m, stamp) => VersionTypeOK(m, stamp)'
  BY <1>1, <1>2 DEF VersionTypeOK
<1>4. StoreTypeOK'
  BY <1>1, <1>2, <1>3 DEF StoreInv, StoreTypeOK, Unlocked
<1>5. OneLinePerKey' /\ TransactionFits'
  BY <1>1, TablesKeep DEF tables
<1> QED
  BY <1>1, <1>4, <1>5 DEF StoreInv, memoryVars, tables

(* The invariant speaks of the variables alone. *)
LEMMA StutterInv ==
  ASSUME StoreInv, UNCHANGED vars
  PROVE  StoreInv'
<1>1. OneLinePerKey' /\ TransactionFits'
  BY TablesKeep DEF vars, tables
<1>2. StoreTypeOK'
  BY DEF vars, StoreInv, StoreTypeOK, VersionTypeOK, Unlocked
<1> QED
  BY <1>1, <1>2 DEF StoreInv

(* Every step of the store commits a version or leaves the tables alone. *)
LEMMA StepCases ==
  ASSUME StoreInv, [StoreNext]_vars
  PROVE  StoreInv' /\ (EndCommit \/ UNCHANGED tables)
<1>1. CASE MemoryStep
  <2>1. CASE \E m : Begins(m)
    BY <2>1, BeginsInv DEF Begins, tables
  <2>2. CASE EndCommit
    BY <2>2, EndCommitInv
  <2>3. CASE RollBack
    BY <2>3, RollBackInv
  <2>4. CASE UNCHANGED vars
    BY <2>4, StutterInv DEF vars, tables
  <2> QED
    BY <1>1, <2>1, <2>2, <2>3, <2>4, MemoryStepCases
<1>2. CASE \E force \in BOOLEAN : RecordStep(force)
  BY <1>2, RecordStepInv DEF memoryVars
<1>3. CASE Tick
  BY <1>3, TickInv DEF memoryVars
<1>4. CASE UNCHANGED vars
  BY <1>4, StutterInv DEF vars, tables
<1> QED
  BY <1>1, <1>2, <1>3, <1>4 DEF StoreNext

(***************************************************************************)
(* The horizon never goes back, and what is committed is stamped with it:  *)
(* a transaction that is open holds it back at its own stamp.              *)
(***************************************************************************)
LEMMA HorizonAdvances ==
  ASSUME StoreInv, [StoreNext]_vars
  PROVE  /\ Horizon \in Nat /\ Horizon' \in Nat /\ Horizon <= Horizon'
         /\ EndCommit => transaction.stamp = Horizon
<1>1. /\ second \in Nat
      /\ Unlocked \/ (transaction.stamp \in Nat /\ transaction.stamp <= second)
  BY DEF StoreInv, StoreTypeOK, VersionTypeOK
<1>2. EndCommit => transaction.stamp = Horizon
  BY DEF EndCommit, Horizon
<1>3. ASSUME UNCHANGED <<transaction, second>> PROVE Horizon' = Horizon
  BY <1>3 DEF Horizon, Unlocked
<1>4. ASSUME NEW m, Begins(m) PROVE Horizon' \in Nat /\ Horizon <= Horizon'
  <2>1. Unlocked /\ transaction'.stamp = second /\ second' = second
    BY <1>4 DEF Begins, Inserted, timeVars
  <2> QED
    BY <1>1, <2>1 DEF Horizon
<1>5. ASSUME EndCommit \/ RollBack PROVE Horizon' \in Nat /\ Horizon <= Horizon'
  <2>1. ~Unlocked /\ Unlocked' /\ second' = second
    BY <1>5 DEF EndCommit, RollBack, timeVars, Unlocked
  <2> QED
    BY <1>1, <2>1 DEF Horizon
<1>6. ASSUME Tick PROVE Horizon' \in Nat /\ Horizon <= Horizon'
  <2>1. transaction' = transaction /\ second' \in Nat /\ second <= second'
    BY <1>6, StoreAssumption DEF Tick, memoryVars, StoreInv, StoreTypeOK
  <2> QED
    BY <1>1, <2>1 DEF Horizon, Unlocked
<1>7. Horizon \in Nat
  BY <1>1 DEF Horizon
<1>8. ASSUME NEW force, RecordStep(force) PROVE UNCHANGED <<transaction, second>>
  BY <1>8, RecordStepInv DEF memoryVars, timeVars
<1>9. UNCHANGED vars => UNCHANGED <<transaction, second>>
  BY DEF vars
<1> QED
  BY <1>2, <1>3, <1>4, <1>5, <1>6, <1>7, <1>8, <1>9, MemoryStepCases DEF StoreNext

(* What a step may do to the heads and to committed versions. *)
LEMMA NothingLost ==
  ASSUME StoreInv, [StoreNext]_vars
  PROVE  /\ \A k \in Keys : heads'[k] # heads[k] => heads'[k].previous = heads[k]
         /\ versions \subseteq versions'
         /\ \A m \in versions : committed_at'[m] = committed_at[m]
<1>1. CASE EndCommit
  <2>1. PICK m : m = transaction.memory
    OBVIOUS
  <2>2. m.previous = heads[KeyOf(m)]
    BY <1>1, <2>1, EndCommitFacts
  <2>3. /\ heads'[KeyOf(m)] = m
        /\ \A k \in Keys : k # KeyOf(m) => heads'[k] = heads[k]
        /\ versions \subseteq versions'
        /\ \A n \in versions : committed_at'[n] = committed_at[n]
    BY <1>1, <2>1, EndCommitFacts
  <2> QED
    BY <2>2, <2>3
<1>2. CASE UNCHANGED tables
  BY <1>2 DEF tables
<1> QED
  BY <1>1, <1>2, StepCases

-----------------------------------------------------------------------------
(***************************************************************************)
(* The committed versions of a logical memory are one line, and every      *)
(* table keeps its type, whatever _commit_memory_object, save and delete   *)
(* are called with and however their steps interleave.                     *)
(***************************************************************************)
THEOREM StoreInvariant == StoreSpec => [](StoreTypeOK /\ OneLinePerKey)
<1>1. StoreInv /\ [StoreNext]_vars => StoreInv'
  BY StepCases
<1>2. StoreInv => StoreTypeOK /\ OneLinePerKey
  BY DEF StoreInv
<1> QED
  BY <1>1, <1>2, InitStoreInv, PTL DEF StoreSpec

(***************************************************************************)
(* No commit_memory loses another's update, and no committed version is    *)
(* ever taken back or dated anew.                                          *)
(***************************************************************************)
THEOREM UpdatesAreKept == StoreSpec => NoLostUpdate
<1>1. StoreInv /\ [StoreNext]_vars => StoreInv'
  BY StepCases
<1>2. StoreInv /\ [StoreNext]_vars =>
        [/\ \A k \in Keys : heads'[k] # heads[k] => heads'[k].previous = heads[k]
         /\ versions \subseteq versions'
         /\ \A m \in versions : committed_at'[m] = committed_at[m]]_vars
  BY NothingLost
<1> QED
  BY <1>1, <1>2, InitStoreInv, PTL DEF StoreSpec, NoLostUpdate

(* Every table keeps its type: each head, where there is one, is committed. *)
THEOREM StoreTypes == StoreSpec => []StoreTypeOK
<1>1. StoreTypeOK /\ OneLinePerKey => StoreTypeOK
  OBVIOUS
<1> QED
  BY <1>1, StoreInvariant, PTL

-----------------------------------------------------------------------------
(* The view. *)

OneTypePerKey == \A m, n \in versions : KeyOf(m) = KeyOf(n) => TypeOf(m) = TypeOf(n)

ViewInv == StoreInv /\ OneTypePerKey

-----------------------------------------------------------------------------
(* The greatest of a bounded set of versions. *)
LEMMA SmallestNumber ==
  ASSUME NEW T \in SUBSET Nat, T # {}
  PROVE  \E x \in T : \A y \in T : x <= y
<1> DEFINE R == {ss \in Nat \X Nat : ss[1] < ss[2]}
<1>1. IsWellFoundedOn(R, Nat)
  BY NatLessThanWellFounded DEF OpToRel
<1>2. ASSUME NEW x \in Nat, NEW y \in Nat, x < y
      PROVE  <<x, y>> \in R
  BY <1>2
<1> HIDE DEF R
<1>3. PICK x \in T : \A y \in T : ~ (<<y, x>> \in R)
  BY <1>1, WFMin
<1>4. ASSUME NEW y \in T PROVE x <= y
  <2>1. ~ (<<y, x>> \in R)
    BY <1>3
  <2> QED
    BY <1>2, <2>1
<1> QED
  BY <1>4

LEMMA LatestExists ==
  ASSUME StoreTypeOK, NEW S \in SUBSET versions, S # {}
  PROVE  Latest(S) \in S /\ \A n \in S : n.version <= Latest(S).version
<1> DEFINE T == {MaxVersion - m.version : m \in S}
<1>1. \A m \in S : m.version \in 1..MaxVersion
  BY DEF StoreTypeOK, VersionTypeOK
<1>2. T \in SUBSET Nat /\ T # {}
  BY <1>1, StoreAssumption
<1>3. PICK x \in T : \A y \in T : x <= y
  <2> HIDE DEF T
  <2> QED
    BY <1>2, SmallestNumber
<1>4. PICK m \in S : x = MaxVersion - m.version
  OBVIOUS
<1>5. \A n \in S : n.version <= m.version
  <2> SUFFICES ASSUME NEW n \in S PROVE n.version <= m.version
    OBVIOUS
  <2>1. x <= MaxVersion - n.version
    BY <1>3
  <2> QED
    BY <1>1, <1>4, <2>1, StoreAssumption
<1> QED
  BY <1>5 DEF Latest

-----------------------------------------------------------------------------
(***************************************************************************)
(* A view taken apart: the relevant versions, and of those that govern the *)
(* ones that are admitted and the ones that are not.  Only the first looks *)
(* at the state of the store.                                              *)
(***************************************************************************)
Relevant(history, as_of, known_at, keys, types) ==
  {m \in history : Selected(m, keys, types) /\ Known(m, known_at) /\ Effective(m, as_of)}

Admitted(m, as_of) == m.mutation.status = "active" /\ ~Expired(m, as_of)

EntriesOf(S, as_of) == {m \in Governing(S) : Admitted(m, as_of)}
RejectionsOf(S, as_of) == {m \in Governing(S) : ~Admitted(m, as_of)}

LEMMA ProjectFacts ==
  ASSUME NEW history, NEW as_of, NEW known_at, NEW keys, NEW types
  PROVE  LET view == Project(history, as_of, known_at, keys, types)
             relevant == Relevant(history, as_of, known_at, keys, types)
         IN  /\ view.entries = EntriesOf(relevant, as_of)
             /\ view.rejections = RejectionsOf(relevant, as_of)
<1> DEFINE selected  == {m \in history : Selected(m, keys, types)}
           known     == {m \in selected : Known(m, known_at)}
           effective == {m \in known : Effective(m, as_of)}
           governing == Governing(effective)
           active    == {m \in governing : m.mutation.status = "active"}
           entries   == {m \in active : ~Expired(m, as_of)}
<1>1. effective = Relevant(history, as_of, known_at, keys, types)
  BY DEF Relevant
<1>2. /\ Project(history, as_of, known_at, keys, types).entries = entries
      /\ Project(history, as_of, known_at, keys, types).rejections = governing \ entries
  BY DEF Project
<1>3. entries = {m \in governing : Admitted(m, as_of)}
  BY DEF Admitted
<1>4. governing \ entries = {m \in governing : ~Admitted(m, as_of)}
  BY <1>3
<1> HIDE DEF effective, entries
<1> QED
  BY <1>1, <1>2, <1>3, <1>4 DEF EntriesOf, RejectionsOf

(* The same for full views, in this state and the next. *)
RelevantNow(as_of, known_at) == Relevant(versions, as_of, known_at, {}, {})

LEMMA ViewFacts ==
  \A as_of, known_at :
    /\ View(as_of, known_at).entries = EntriesOf(RelevantNow(as_of, known_at), as_of)
    /\ View(as_of, known_at).rejections = RejectionsOf(RelevantNow(as_of, known_at), as_of)
BY ProjectFacts DEF View, RelevantNow

LEMMA ViewFactsNext ==
  (\A as_of, known_at :
     /\ View(as_of, known_at).entries = EntriesOf(RelevantNow(as_of, known_at), as_of)
     /\ View(as_of, known_at).rejections = RejectionsOf(RelevantNow(as_of, known_at), as_of))'
BY ViewFacts, PTL

(* No filter: every version is selected. *)
LEMMA RelevantNowFacts ==
  ASSUME NEW as_of, NEW known_at, NEW m
  PROVE  m \in RelevantNow(as_of, known_at) <=>
           m \in versions /\ Known(m, known_at) /\ Effective(m, as_of)
BY DEF RelevantNow, Relevant, Selected

-----------------------------------------------------------------------------
(* The types of a key's versions are that of its head. *)
LEMMA InitViewInv == StoreInit => ViewInv
BY InitStoreInv DEF ViewInv, OneTypePerKey, StoreInit

LEMMA NextViewInv == ViewInv /\ [StoreNext]_vars => ViewInv'
<1> SUFFICES ASSUME ViewInv, [StoreNext]_vars PROVE ViewInv'
  OBVIOUS
<1>1. StoreInv' /\ (EndCommit \/ UNCHANGED tables)
  BY StepCases DEF ViewInv
<1>2. ASSUME EndCommit PROVE OneTypePerKey'
  <2>1. PICK m : m = transaction.memory
    OBVIOUS
  <2>2. /\ versions' = versions \cup {m} /\ KeyOf(m) \in Keys
        /\ heads[KeyOf(m)] # None => TypeOf(m) = TypeOf(heads[KeyOf(m)])
    BY <1>2, <2>1, EndCommitFacts DEF ViewInv
  <2>3. \A n \in versions : KeyOf(n) = KeyOf(m) => TypeOf(n) = TypeOf(m)
    BY <2>2, HeadFacts DEF ViewInv, OneTypePerKey
  <2> QED
    BY <2>2, <2>3 DEF ViewInv, OneTypePerKey
<1>3. UNCHANGED tables => OneTypePerKey'
  BY DEF ViewInv, OneTypePerKey, tables
<1> QED
  BY <1>1, <1>2, <1>3 DEF ViewInv

(* What was known before the horizon is never added to. *)
LEMMA KnownIsFrozen ==
  ASSUME StoreInv, [StoreNext]_vars, NEW known_at \in Nat, known_at < Horizon, NEW m
  PROVE  (m \in versions /\ Known(m, known_at))' <=> (m \in versions /\ Known(m, known_at))
<1>1. known_at # NULL
  BY ViewAssumption
<1>2. ASSUME EndCommit
      PROVE  (m \in versions /\ Known(m, known_at))' <=> (m \in versions /\ Known(m, known_at))
  <2>1. PICK n : n = transaction.memory
    OBVIOUS
  <2>2. /\ n \notin versions /\ versions' = versions \cup {n}
        /\ committed_at'[n] = Horizon
        /\ \A o \in versions : committed_at'[o] = committed_at[o]
    BY <1>2, <2>1, EndCommitFacts, HorizonAdvances
  <2>3. Horizon \in Nat
    BY HorizonAdvances
  <2> QED
    BY <1>1, <2>2, <2>3 DEF Known
<1>3. UNCHANGED tables =>
        ((m \in versions /\ Known(m, known_at))' <=> (m \in versions /\ Known(m, known_at)))
  BY DEF tables, Known
<1> QED
  BY <1>2, <1>3, StepCases

-----------------------------------------------------------------------------
(* Without ties the governing version of a key is its latest. *)
LEMMA TheLatestGoverns ==
  ASSUME StoreInv, NEW S \in SUBSET versions, NEW k, NEW L \in S, KeyOf(L) = k,
         \A n \in S : KeyOf(n) = k => n.version <= L.version
  PROVE  OfKey(Governing(S), k) = {L}
<1>1. \A n \in versions : n.version \in Nat
  BY StoreAssumption DEF StoreInv, StoreTypeOK, VersionTypeOK
<1>2. L \in Governing(S)
  BY DEF Governing, OfKey
<1>3. ASSUME NEW m \in Governing(S), KeyOf(m) = k PROVE m = L
  <2>1. m \in S /\ L.version <= m.version /\ m.version <= L.version
    BY <1>3 DEF Governing, OfKey
  <2> QED
    BY <1>1, <1>3, <2>1 DEF StoreInv, OneLinePerKey, Unambiguous
<1> QED
  BY <1>2, <1>3 DEF OfKey

LEMMA HelperAgrees ==
  ASSUME StoreInv, NEW t, NEW k
  PROVE  OfKey(View(t, NULL).entries, k) = ResolveActive(versions, k, t)
<1> DEFINE S == RelevantNow(t, NULL)
           mine == {m \in OfKey(versions, k) : Effective(m, t)}
           L == Latest(mine)
<1>1. View(t, NULL).entries = {m \in Governing(S) : Admitted(m, t)}
  BY ViewFacts DEF EntriesOf
<1>2. \A m : m \in S <=> m \in versions /\ Effective(m, t)
  BY RelevantNowFacts DEF Known
<1>3. mine = OfKey(S, k) /\ S \in SUBSET versions
  BY <1>2 DEF OfKey
<1>4. ResolveActive(versions, k, t) = IF mine # {} /\ Admitted(L, t) THEN {L} ELSE {}
  BY DEF ResolveActive, Admitted
<1> HIDE DEF S, mine
<1>5. CASE mine = {}
  <2>1. OfKey(Governing(S), k) = {}
    BY <1>3, <1>5 DEF Governing, OfKey
  <2> QED
    BY <1>1, <1>4, <1>5, <2>1 DEF OfKey
<1>6. CASE mine # {}
  <2>1. L \in mine /\ \A n \in mine : n.version <= L.version
    BY <1>3, <1>6, LatestExists DEF StoreInv, OfKey
  <2>2. L \in S /\ KeyOf(L) = k /\ \A n \in S : KeyOf(n) = k => n.version <= L.version
    BY <1>3, <2>1 DEF OfKey
  <2> HIDE DEF L
  <2>3. OfKey(Governing(S), k) = {L}
    BY <1>3, <2>2, TheLatestGoverns
  <2> QED
    BY <1>1, <1>4, <1>6, <2>3 DEF OfKey
<1> QED
  BY <1>5, <1>6

-----------------------------------------------------------------------------
(* Part of a history that takes each key whole or not at all has the       *)
(* governing versions it has in the full history.                          *)
LEMMA PartsGovernAlike ==
  ASSUME NEW S, NEW T \in SUBSET S,
         \A m \in T, n \in S : KeyOf(n) = KeyOf(m) => n \in T
  PROVE  Governing(T) = {m \in Governing(S) : m \in T}
BY DEF Governing, OfKey

(* Filters that take each key whole or not at all ... *)
WholeKeys(keys, types) ==
  \A m, n \in versions :
    KeyOf(m) = KeyOf(n) /\ Selected(m, keys, types) => Selected(n, keys, types)

(* ... give a view that is that part of the full view. *)
LEMMA PartsOfViews ==
  \A t, known_at, keys, types : WholeKeys(keys, types) =>
    Project(versions, t, known_at, keys, types).entries
      = {m \in View(t, known_at).entries : Selected(m, keys, types)}
<1> SUFFICES ASSUME NEW t, NEW known_at, NEW keys, NEW types, WholeKeys(keys, types)
             PROVE  Project(versions, t, known_at, keys, types).entries
                      = {m \in View(t, known_at).entries : Selected(m, keys, types)}
  OBVIOUS
<1> DEFINE S == RelevantNow(t, known_at)
           T == Relevant(versions, t, known_at, keys, types)
<1>1. \A m : m \in S => m \in versions
  BY RelevantNowFacts
<1>2. \A m : m \in T <=> m \in S /\ Selected(m, keys, types)
  BY RelevantNowFacts DEF Relevant
<1>3. /\ Project(versions, t, known_at, keys, types).entries = EntriesOf(T, t)
      /\ View(t, known_at).entries = EntriesOf(S, t)
  BY ProjectFacts, ViewFacts
<1> HIDE DEF S, T
<1>4. Governing(T) = {m \in Governing(S) : m \in T}
  BY <1>1, <1>2, PartsGovernAlike DEF WholeKeys
<1>5. Governing(S) \subseteq S
  BY DEF Governing
<1>6. EntriesOf(T, t) = {m \in EntriesOf(S, t) : Selected(m, keys, types)}
  BY <1>2, <1>4, <1>5 DEF EntriesOf
<1> QED
  BY <1>3, <1>6

LEMMA ViewsRestrict == ViewInv => FilteredViewsRestrict
<1> SUFFICES ASSUME ViewInv,
                    NEW t \in Times, NEW known_at \in Times \cup {NULL}, NEW k \in Keys
             PROVE  LET full == View(t, known_at)
                    IN  /\ Project(versions, t, known_at, {k}, {}).entries
                              = OfKey(full.entries, k)
                        /\ \A type \in TypesOf(k) :
                             Project(versions, t, known_at, {}, {type}).entries
                               = {m \in full.entries : TypeOf(m) = type}
  BY DEF FilteredViewsRestrict
<1>1. \A m : Selected(m, {k}, {}) <=> KeyOf(m) = k
  BY DEF Selected
<1>2. Project(versions, t, known_at, {k}, {}).entries = OfKey(View(t, known_at).entries, k)
  <2>1. WholeKeys({k}, {})
    BY <1>1 DEF WholeKeys
  <2>2. {m \in View(t, known_at).entries : Selected(m, {k}, {})}
          = {m \in View(t, known_at).entries : KeyOf(m) = k}
    BY <1>1, Zenon
  <2> QED
    BY <2>1, <2>2, PartsOfViews DEF OfKey
<1>3. ASSUME NEW type
      PROVE  Project(versions, t, known_at, {}, {type}).entries
               = {m \in View(t, known_at).entries : TypeOf(m) = type}
  <2>1. \A m : Selected(m, {}, {type}) <=> TypeOf(m) = type
    BY DEF Selected
  <2>2. WholeKeys({}, {type})
    BY <2>1 DEF ViewInv, OneTypePerKey, WholeKeys
  <2>3. {m \in View(t, known_at).entries : Selected(m, {}, {type})}
          = {m \in View(t, known_at).entries : TypeOf(m) = type}
    BY <2>1, Zenon
  <2> QED
    BY <2>2, <2>3, PartsOfViews
<1> QED
  BY <1>2, <1>3

LEMMA NoneComeBack == StoreInv => NothingIsResurrected
<1> SUFFICES ASSUME StoreInv,
                    NEW m \in versions, m.mutation.status # "active",
                    NEW t \in Times, NEW known_at \in Times \cup {NULL},
                    m.mutation.valid_from <= t, Known(m, known_at),
                    NEW n \in OfKey(View(t, known_at).entries, KeyOf(m))
             PROVE  n.version > m.version
  BY DEF NothingIsResurrected
<1> DEFINE S == RelevantNow(t, known_at)
<1>1. m \in S
  BY RelevantNowFacts DEF Effective
<1>2. n \in Governing(S) /\ Admitted(n, t) /\ KeyOf(n) = KeyOf(m)
  BY ViewFacts DEF OfKey, EntriesOf
<1>3. n \in S /\ m.version <= n.version
  BY <1>1, <1>2 DEF Governing, OfKey
<1>4. n \in versions /\ n # m
  BY <1>2, <1>3, RelevantNowFacts DEF Admitted
<1>5. n.version # m.version
  BY <1>2, <1>4 DEF StoreInv, OneLinePerKey, Unambiguous
<1>6. m.version \in Nat /\ n.version \in Nat
  BY <1>4, StoreAssumption DEF StoreInv, StoreTypeOK, VersionTypeOK
<1> QED
  BY <1>3, <1>5, <1>6

(* The relevant versions of a closed view are the same after a step, ... *)
LEMMA RelevantIsFrozen ==
  ASSUME StoreInv, [StoreNext]_vars, NEW t, NEW known_at \in Nat, known_at < Horizon
  PROVE  RelevantNow(t, known_at)' = RelevantNow(t, known_at)
<1>1. \A m : m \in RelevantNow(t, known_at)' <=> m \in RelevantNow(t, known_at)
  <2> TAKE m
  <2>1. (m \in versions /\ Known(m, known_at))' <=> (m \in versions /\ Known(m, known_at))
    BY KnownIsFrozen
  <2>2. m \in RelevantNow(t, known_at) <=>
          m \in versions /\ Known(m, known_at) /\ Effective(m, t)
    BY RelevantNowFacts
  <2>3. m \in RelevantNow(t, known_at)' <=>
          m \in versions' /\ Known(m, known_at)' /\ Effective(m, t)
    BY DEF RelevantNow, Relevant, Selected
  <2> QED
    BY <2>1, <2>2, <2>3
<1>2. /\ RelevantNow(t, known_at) \in SUBSET versions
      /\ RelevantNow(t, known_at)' \in SUBSET versions'
  BY DEF RelevantNow, Relevant
<1> QED
  BY <1>1, <1>2

(* ... and so is the view. *)
LEMMA ClosedViewsKeep ==
  ASSUME StoreInv, [StoreNext]_vars, NEW t \in Times, NEW known_at \in Times, known_at < Horizon
  PROVE  State(t, known_at)' = State(t, known_at)
<1>1. RelevantNow(t, known_at)' = RelevantNow(t, known_at)
  BY ViewAssumption, RelevantIsFrozen
<1>2. /\ View(t, known_at).entries = EntriesOf(RelevantNow(t, known_at), t)
      /\ View(t, known_at).rejections = RejectionsOf(RelevantNow(t, known_at), t)
      /\ (View(t, known_at).entries)' = EntriesOf(RelevantNow(t, known_at), t)'
      /\ (View(t, known_at).rejections)' = RejectionsOf(RelevantNow(t, known_at), t)'
  BY ViewFacts, ViewFactsNext
<1> QED
  BY <1>1, <1>2 DEF State

-----------------------------------------------------------------------------
(***************************************************************************)
(* The versions of a key are one line and of one type: what a projection   *)
(* takes for granted when it picks one governing version per key.          *)
(***************************************************************************)
THEOREM ViewInvariant == StoreSpec => []ViewInv
<1> QED
  BY InitViewInv, NextViewInv, PTL DEF StoreSpec

(***************************************************************************)
(* The view and resolve_active_memory resolve the same memory for every    *)
(* key at every time, for any store and any query.                         *)
(***************************************************************************)
THEOREM HelpersAgree == StoreSpec => []ViewsAgree
<1>1. ViewInv => ViewsAgree
  BY HelperAgrees DEF ViewsAgree, ViewInv
<1> QED
  BY <1>1, ViewInvariant, PTL

(***************************************************************************)
(* A view filtered by a key or a type is that part of the full view.       *)
(***************************************************************************)
THEOREM FilteringIsSafe == StoreSpec => []FilteredViewsRestrict
<1> QED
  BY ViewsRestrict, ViewInvariant, PTL

(***************************************************************************)
(* What a revoked, disputed or outdated version shut stays shut to earlier *)
(* versions, in every view that knows of it.                               *)
(***************************************************************************)
THEOREM NothingComesBack == StoreSpec => []NothingIsResurrected
<1>1. ViewInv => NothingIsResurrected
  BY NoneComeBack DEF ViewInv
<1> QED
  BY <1>1, ViewInvariant, PTL

(***************************************************************************)
(* A view at a known_at before the horizon never changes again: what can   *)
(* still be committed is stamped with the horizon or later.                *)
(***************************************************************************)
THEOREM ClosedViewsStay == StoreSpec => ClosedViewsAreFrozen
<1>1. ViewInv /\ [StoreNext]_vars =>
        [memoryVars' # memoryVars =>
           \A t, known_at \in Times :
             known_at < Horizon => State(t, known_at)' = State(t, known_at)]_vars
  BY ClosedViewsKeep DEF ViewInv
<1> QED
  BY <1>1, ViewInvariant, PTL DEF StoreSpec, ClosedViewsAreFrozen

=============================================================================
