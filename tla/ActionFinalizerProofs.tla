----------------------- MODULE ActionFinalizerProofs ------------------------
(***************************************************************************)
(* Proofs about ActionFinalizer for any set of intents, workers, records   *)
(* and clock readings.  IInv is inductive: it holds initially and every    *)
(* action preserves it, one lemma per action.  The safety properties are   *)
(* conjuncts of it, and the action properties and the refinement of        *)
(* ActionDelivery follow from it step by step.                             *)
(***************************************************************************)
EXTENDS ActionFinalizer, TLAPS

-----------------------------------------------------------------------------
(* What the actions do, taken apart.                                       *)

(* What the arguments of a finalization are, by type. *)
LEMMA FinalizationTypes ==
  ASSUME TypeOK, NEW s \in started
  PROVE  /\ \A t \in Successes(s) :
              /\ t \in Terminal
              /\ t.supersedes = s /\ t.status = "succeeded"
         /\ \A t \in Failures(s) :
              /\ t \in Terminal
              /\ t.supersedes = s /\ t.status = "failed"
              /\ t.result \in ErrorCodes
  <1>1. s \in Started /\ Instants \subseteq Nat
    BY OutboxAssumption DEF TypeOK
  <1>2. ASSUME NEW t \in Successes(s)
        PROVE  t \in Terminal /\ t.supersedes = s /\ t.status = "succeeded"
    BY <1>1, <1>2 DEF Successes, Terminal
  <1>3. ASSUME NEW t \in Failures(s)
        PROVE  /\ t \in Terminal /\ t.supersedes = s /\ t.status = "failed"
               /\ t.result \in ErrorCodes
    BY <1>1, <1>3 DEF Failures, Terminal
  <1> QED
    BY <1>2, <1>3

(* The started records a caller can ask for are records of the table. *)
LEMMA StartTypes ==
  ASSUME TypeOK, NEW i \in Intents, NEW s \in Starts(i)
  PROVE  s \in Started /\ s.intent = i /\ s.number >= 1
  <1>1. outbox[i].attempt_count \in Nat
    BY DEF TypeOK, Row
  <1>2. Tokens(i) \subseteq Nat \X Nat
    BY <1>1, OutboxAssumption DEF Tokens, Token
  <1>3. /\ s.intent = i /\ s.number \in 1..outbox[i].attempt_count
        /\ s.worker \in Workers /\ s.lease_token \in Tokens(i)
        /\ s.started_at \in Instants
        /\ s = [intent |-> s.intent, number |-> s.number, worker |-> s.worker,
                lease_token |-> s.lease_token, started_at |-> s.started_at]
    BY DEF Starts
  <1>4. /\ s.number \in Nat /\ s.number >= 1 /\ s.started_at \in Nat
        /\ s.lease_token \in Nat \X Nat
    BY <1>1, <1>2, <1>3, OutboxAssumption
  <1> QED
    BY <1>3, <1>4 DEF Started

-----------------------------------------------------------------------------
(* The initial state. *)
LEMMA InitIInv == AttemptsInit => IInv
  <1> SUFFICES ASSUME AttemptsInit PROVE IInv
    OBVIOUS
  <1> USE DEF AttemptsInit, OutboxInit
  <1>1. NoRow \in Row
    BY DEF NoRow, Row, Statuses, Stamp, Utc
  <1>2. TypeOK
    BY <1>1 DEF TypeOK, NoRow
  <1>3. /\ \A i \in Intents : outbox[i].status = "absent" /\ outbox[i].attempt_count = 0
        /\ started = {} /\ terminal = {}
    BY DEF NoRow
  <1>4. LeaseHasTerm /\ NothingDangles /\ EvidenceAgrees
    BY <1>3 DEF LeaseHasTerm, NothingDangles, EvidenceAgrees
  <1>5. OneChainPerLease /\ SuccessIsFinal /\ OrderInv
    BY <1>3 DEF OneChainPerLease, SuccessIsFinal, OrderInv, AttemptsInOrder,
                HistoryBehindClaim
  <1> QED
    BY <1>2, <1>4, <1>5 DEF IInv

-----------------------------------------------------------------------------
(* The invariant is preserved by each action.                              *)

(* IInv speaks of the variables alone. *)
LEMMA StutterIInv == IInv /\ UNCHANGED vars => IInv'
  BY DEF IInv, vars, TypeOK, LeaseHasTerm, OneChainPerLease, NothingDangles,
         EvidenceAgrees, SuccessIsFinal, CommittedAs, OrderInv, AttemptsInOrder,
         HistoryBehindClaim, RecordedBy, TerminalsOf

(***************************************************************************)
(* A step that leaves rows and evidence alone preserves everything that is *)
(* not about the records table.                                            *)
(***************************************************************************)
LEMMA RecordsOnly ==
  ASSUME IInv, UNCHANGED <<outbox, traces, started, terminal>>,
         records' \subseteq Outcomes \cup OtherRecords, NothingDangles'
  PROVE  IInv'
  BY DEF IInv, TypeOK, LeaseHasTerm, OneChainPerLease,
         EvidenceAgrees, SuccessIsFinal, CommittedAs, OrderInv, AttemptsInOrder,
         HistoryBehindClaim, RecordedBy, TerminalsOf

(* A new record leaves every reference where it was. *)
LEMMA SaveRecordIInv ==
  ASSUME IInv, NEW r \in Outcomes \cup OtherRecords,
         SaveRecord(r), UNCHANGED attemptVars
  PROVE  IInv'
  <1>1. /\ records' = records \cup {r}
        /\ UNCHANGED <<outbox, traces, started, terminal>>
    BY DEF SaveRecord, attemptVars
  <1>2. records' \subseteq Outcomes \cup OtherRecords
    BY <1>1 DEF IInv, TypeOK
  <1>3. NothingDangles'
    BY <1>1 DEF IInv, NothingDangles
  <1> QED
    BY <1>1, <1>2, <1>3, RecordsOnly

(* The outcome of a success is also named by its row, which no later step  *)
(* changes: the foreign key on outcome_id keeps the record.                *)
LEMMA DeleteRecordIInv ==
  ASSUME IInv, NEW r \in Outcomes \cup OtherRecords,
         DeleteRecord(r), UNCHANGED attemptVars
  PROVE  IInv'
  <1>1. /\ records' = records \ {r}
        /\ \A i \in Intents : outbox[i].outcome_id # r
        /\ UNCHANGED <<outbox, traces, started, terminal>>
    BY DEF DeleteRecord, attemptVars
  <1>2. records' \subseteq Outcomes \cup OtherRecords
    BY <1>1 DEF IInv, TypeOK
  <1>3. ASSUME NEW t \in terminal, t.status = "succeeded"
        PROVE  t.result # r
    <2>1. t.supersedes.intent \in Intents
      BY DEF IInv, TypeOK, Terminal, Started
    <2>2. outbox[t.supersedes.intent].outcome_id = t.result
      BY <1>3 DEF IInv, SuccessIsFinal, CommittedAs
    <2> QED
      BY <1>1, <2>1, <2>2
  <1>4. NothingDangles'
    BY <1>1, <1>3 DEF IInv, NothingDangles
  <1> QED
    BY <1>1, <1>2, <1>4, RecordsOnly

(* A row without history: an intent no attempt was ever made of. *)
LEMMA NoHistory ==
  ASSUME IInv, NEW i \in Intents, outbox[i].attempt_count = 0
  PROVE  /\ \A s \in started : s.intent # i
         /\ TerminalsOf(i) = {}
  <1>1. \A s \in started : s.intent # i
    BY DEF IInv, OneChainPerLease
  <1> QED
    BY <1>1 DEF IInv, NothingDangles, TerminalsOf

(* A new row has no history. *)
LEMMA EnqueueIInv ==
  ASSUME IInv, NEW i \in Intents, NEW a \in Instants,
         Enqueue(i, a), UNCHANGED attemptVars
  PROVE  IInv'
  <1> DEFINE row == [NoRow EXCEPT !.status = "pending", !.available_at = Utc(a)]
  <1>1. /\ traces' = traces \cup {i}
        /\ UNCHANGED <<records, started, terminal>>
        /\ a \in Nat
    BY OutboxAssumption DEF Enqueue, attemptVars
  <1>2. CASE outbox[i].status # "absent"
    <2>1. UNCHANGED <<outbox, records, started, terminal>>
      BY <1>1, <1>2 DEF Enqueue
    <2> QED
      BY <1>1, <2>1 DEF IInv, TypeOK, LeaseHasTerm, OneChainPerLease, NothingDangles,
           EvidenceAgrees, SuccessIsFinal, CommittedAs, OrderInv, AttemptsInOrder,
           HistoryBehindClaim, RecordedBy, TerminalsOf
  <1>3. CASE outbox[i].status = "absent"
    <2>1. outbox' = [outbox EXCEPT ![i] = row]
      BY <1>3 DEF Enqueue
    <2>2. outbox[i].attempt_count = 0
      BY <1>3 DEF IInv, EvidenceAgrees
    <2>3. /\ \A s \in started : s.intent # i
          /\ \A t \in terminal : t.supersedes.intent # i
          /\ TerminalsOf(i) = {}
      BY <2>2, NoHistory DEF TerminalsOf
    <2>4. /\ row.status = "pending" /\ row.attempt_count = 0
          /\ row.available_at.offset = 0 /\ row \in Row
      <3>1. Utc(a) \in Stamp /\ Utc(a).offset = 0
        BY <1>1 DEF Stamp, Utc
      <3>2. NoRow \in Row /\ NoRow.attempt_count = 0
        BY DEF NoRow, Row, Statuses, Stamp, Utc
      <3> QED
        BY <3>1, <3>2 DEF Row, Statuses
    <2>5. /\ outbox'[i] = row
          /\ \A j \in Intents : j # i => outbox'[j] = outbox[j]
          /\ outbox' \in [Intents -> Row]
      BY <2>1, <2>4 DEF IInv, TypeOK
    <2> HIDE DEF row
    <2>6. TypeOK' /\ LeaseHasTerm'
      BY <1>1, <2>4, <2>5 DEF IInv, TypeOK, LeaseHasTerm
    <2>7. OneChainPerLease' /\ NothingDangles'
      BY <1>1, <2>3, <2>4, <2>5 DEF IInv, OneChainPerLease, NothingDangles, TypeOK, Started
    <2>8. EvidenceAgrees'
      BY <1>1, <2>3, <2>4, <2>5 DEF IInv, EvidenceAgrees, TerminalsOf
    <2>9. SuccessIsFinal'
      BY <1>1, <2>3, <2>4, <2>5 DEF IInv, SuccessIsFinal, CommittedAs, TypeOK, Terminal, Started
    <2>10. OrderInv => OrderInv'
      BY <1>1, <2>3, <2>4, <2>5 DEF OrderInv, AttemptsInOrder, HistoryBehindClaim, RecordedBy, TerminalsOf
    <2> QED
      BY <2>6, <2>7, <2>8, <2>9, <2>10 DEF IInv
  <1> QED
    BY <1>2, <1>3

(***************************************************************************)
(* What a claim does to the row, without the choice of the row: the next   *)
(* attempt number, a token of its own and a lease with a future end.       *)
(***************************************************************************)
LEMMA ClaimFacts ==
  ASSUME TypeOK, NEW i \in Intents, NEW w \in Workers, NEW now \in Instants,
         NEW d \in LeaseTerms, ClaimIntent(i, w, now, d), UNCHANGED attemptVars
  PROVE  /\ UNCHANGED <<traces, records, started, terminal>>
         /\ Ready(i, now)
         /\ outbox' \in [Intents -> Row]
         /\ \A j \in Intents : j # i => outbox'[j] = outbox[j]
         /\ outbox'[i].status = "leased"
         /\ outbox'[i].attempt_count = outbox[i].attempt_count + 1
         /\ outbox[i].attempt_count \in Nat
         /\ outbox'[i].updated_at = now
         /\ now \in Nat
         /\ outbox'[i].lease \in Lease
         /\ outbox'[i].lease.owner = w
         /\ now < outbox'[i].lease.expires_at
  <1> DEFINE n == outbox[i].attempt_count + 1
             lease == [owner |-> w, token |-> Token(i, n), expires_at |-> now + d]
  <1>1. /\ now \in Nat /\ d \in Nat /\ d > 0 /\ i \in Nat
        /\ outbox[i] \in Row /\ outbox[i].attempt_count \in Nat
    BY OutboxAssumption DEF TypeOK, Row
  <1>2. lease \in Lease /\ lease.owner = w /\ lease.expires_at = now + d
    BY <1>1 DEF Lease, Token
  <1>3. /\ LeasedRow(i, w, now, d) \in Row
        /\ LeasedRow(i, w, now, d).status = "leased"
        /\ LeasedRow(i, w, now, d).attempt_count = n
        /\ LeasedRow(i, w, now, d).updated_at = now
        /\ LeasedRow(i, w, now, d).lease = lease
    <2>1. LeasedRow(i, w, now, d) =
            [outbox[i] EXCEPT !.status = "leased", !.attempt_count = n,
                              !.lease = lease, !.updated_at = now]
      BY <1>1 DEF LeasedRow, Row
    <2> HIDE DEF lease
    <2>2. n \in Nat
      BY <1>1
    <2> HIDE DEF n
    <2> QED
      BY <1>1, <1>2, <2>1, <2>2 DEF Row, Statuses
  <1>4. /\ outbox' = [outbox EXCEPT ![i] = LeasedRow(i, w, now, d)]
        /\ UNCHANGED <<traces, records, started, terminal>>
        /\ Ready(i, now)
    BY DEF ClaimIntent, list_ready, attemptVars
  <1>5. /\ outbox' \in [Intents -> Row]
        /\ outbox'[i] = LeasedRow(i, w, now, d)
        /\ \A j \in Intents : j # i => outbox'[j] = outbox[j]
    BY <1>3, <1>4 DEF TypeOK
  <1> QED
    BY <1>1, <1>2, <1>3, <1>4, <1>5

(***************************************************************************)
(* Everything recorded of an intent that is ready at an instant lies       *)
(* before that instant: a pending row waited for its available_at, and the *)
(* holder of a leased row could record nothing at or after its expiry.     *)
(***************************************************************************)
LEMMA ReadyIsAfterHistory ==
  ASSUME IInv, OrderInv, NEW i \in Intents, NEW now \in Nat, Ready(i, now)
  PROVE  RecordedBy(i, outbox[i].attempt_count, now)
  <1>0. /\ outbox[i] \in Row /\ outbox[i].attempt_count \in Nat
        /\ outbox[i].updated_at \in Nat
        /\ started \subseteq Started /\ terminal \subseteq Terminal
    BY DEF IInv, TypeOK, Row
  <1>1. CASE outbox[i].status = "pending"
    <2>1. /\ TextLeq(outbox[i].available_at, Utc(now))
          /\ outbox[i].available_at.offset = 0
          /\ RecordedBy(i, outbox[i].attempt_count, Instant(outbox[i].available_at))
      BY <1>1 DEF Ready, OrderInv, HistoryBehindClaim
    <2>2. outbox[i].available_at \in Stamp
      BY <1>0 DEF Row
    <2>3. /\ Instant(outbox[i].available_at) \in Int
          /\ Instant(outbox[i].available_at) <= now
      BY <2>1, <2>2 DEF TextLeq, Utc, Instant, Stamp
    <2> HIDE DEF Instant
    <2>4. ASSUME NEW b \in Int, b <= now, RecordedBy(i, outbox[i].attempt_count, b)
          PROVE  RecordedBy(i, outbox[i].attempt_count, now)
      BY <1>0, <2>4 DEF RecordedBy, Started, Terminal, TerminalsOf
    <2> QED
      BY <2>1, <2>3, <2>4
  <1>2. CASE outbox[i].status = "leased"
    <2> DEFINE n == outbox[i].attempt_count
    <2>1. /\ outbox[i].lease.expires_at \in Nat
          /\ outbox[i].lease.expires_at <= now
          /\ outbox[i].updated_at < outbox[i].lease.expires_at
          /\ RecordedBy(i, n - 1, outbox[i].updated_at)
      BY <1>2 DEF Ready, IInv, TypeOK, Lease, LeaseHasTerm, OrderInv, HistoryBehindClaim
    <2>2. ASSUME NEW s \in started, s.intent = i, s.number <= n
          PROVE  s.started_at <= now
      <3>1. s.number \in Nat /\ s.started_at \in Nat
        BY <1>0 DEF Started
      <3>2. s.number = n => s.started_at < outbox[i].lease.expires_at
        BY <1>2, <2>2 DEF IInv, OneChainPerLease
      <3>3. s.number # n => s.started_at <= outbox[i].updated_at
        BY <1>0, <2>1, <2>2, <3>1 DEF RecordedBy
      <3> QED
        BY <1>0, <2>1, <3>1, <3>2, <3>3
    <2>3. ASSUME NEW t \in TerminalsOf(i)
          PROVE  t.finished_at <= now
      <3>1. /\ t.finished_at \in Nat /\ NumberOf(t) \in Nat
        BY <1>0 DEF Terminal, Started, NumberOf, TerminalsOf
      <3>2. NumberOf(t) < n
        BY <1>2 DEF IInv, EvidenceAgrees
      <3>3. t.finished_at <= outbox[i].updated_at
        BY <1>0, <2>1, <3>1, <3>2 DEF RecordedBy
      <3> QED
        BY <1>0, <2>1, <3>1, <3>3
    <2> QED
      BY <2>2, <2>3 DEF RecordedBy
  <1> QED
    BY <1>1, <1>2 DEF Ready

(* The new lease starts after everything recorded of earlier ones. *)
LEMMA ClaimIInv ==
  ASSUME IInv, NEW i \in Intents, NEW w \in Workers, NEW now \in Instants,
         NEW d \in LeaseTerms, ClaimIntent(i, w, now, d), UNCHANGED attemptVars
  PROVE  IInv'
  <1> DEFINE n == outbox[i].attempt_count
  <1>0. TypeOK
    BY DEF IInv
  <1>1. /\ UNCHANGED <<traces, records, started, terminal>>
        /\ Ready(i, now)
        /\ outbox' \in [Intents -> Row]
        /\ \A j \in Intents : j # i => outbox'[j] = outbox[j]
        /\ outbox'[i].status = "leased"
        /\ outbox'[i].attempt_count = n + 1
        /\ n \in Nat
        /\ outbox'[i].updated_at = now
        /\ now \in Nat
        /\ outbox'[i].lease \in Lease
        /\ now < outbox'[i].lease.expires_at
    BY <1>0, ClaimFacts
  <1>2. outbox[i].status \in {"pending", "leased"}
    BY <1>1 DEF Ready
  <1>3. \A s \in started : s.intent = i => s.number \in 1..n
    BY DEF IInv, OneChainPerLease
  <1>4. \A t \in TerminalsOf(i) : NumberOf(t) < n + 1 /\ t.status # "succeeded"
    <2> SUFFICES ASSUME NEW t \in TerminalsOf(i)
                 PROVE  NumberOf(t) < n + 1 /\ t.status # "succeeded"
      OBVIOUS
    <2>1. t \in terminal /\ t.supersedes \in started /\ t.supersedes.intent = i
      BY DEF IInv, NothingDangles, TerminalsOf
    <2>2. t.status # "succeeded"
      BY <1>2, <2>1 DEF IInv, SuccessIsFinal, CommittedAs
    <2> QED
      BY <1>1, <1>3, <2>1, <2>2 DEF NumberOf
  <1>5. TypeOK' /\ LeaseHasTerm'
    BY <1>0, <1>1 DEF IInv, TypeOK, LeaseHasTerm
  <1>6. OneChainPerLease'
    BY <1>0, <1>1, <1>3 DEF IInv, OneChainPerLease, TypeOK, Started
  <1>7. NothingDangles'
    BY <1>1, <1>2 DEF IInv, NothingDangles
  <1>8. EvidenceAgrees'
    BY <1>1, <1>4 DEF IInv, EvidenceAgrees, TerminalsOf
  <1>9. SuccessIsFinal'
    <2> SUFFICES ASSUME NEW t \in terminal, t.status = "succeeded"
                 PROVE  /\ CommittedAs(t, "completed")'
                        /\ \A s \in started : s.intent = t.supersedes.intent =>
                             s.number <= NumberOf(t)
      BY <1>1 DEF SuccessIsFinal, NumberOf
    <2>1. t.supersedes.intent \in Intents \ {i}
      BY <1>0, <1>4 DEF TerminalsOf, TypeOK, Terminal, Started
    <2> QED
      BY <1>1, <2>1 DEF IInv, SuccessIsFinal, CommittedAs
  <1>10. ASSUME OrderInv PROVE OrderInv'
    <2>1. RecordedBy(i, n, now)
      BY <1>1, <1>10, ReadyIsAfterHistory
    <2>2. RecordedBy(i, (n + 1) - 1, now)
      BY <1>1, <2>1
    <2> HIDE DEF n
    <2>3. \A j \in Intents :
            LET row == outbox'[j]
            IN  /\ row.status = "leased" => RecordedBy(j, row.attempt_count - 1, row.updated_at)
                /\ row.status = "pending" =>
                     /\ row.available_at.offset = 0
                     /\ RecordedBy(j, row.attempt_count, Instant(row.available_at))
      BY <1>1, <1>10, <2>2 DEF OrderInv, HistoryBehindClaim
    <2>4. AttemptsInOrder'
      BY <1>1, <1>10 DEF OrderInv, AttemptsInOrder
    <2> QED
      BY <1>1, <2>3, <2>4 DEF OrderInv, HistoryBehindClaim, RecordedBy, TerminalsOf
  <1> QED
    BY <1>5, <1>6, <1>7, <1>8, <1>9, <1>10 DEF IInv

(* A start is saved inside its own lease and once. *)
LEMMA StartIInv ==
  ASSUME IInv, NEW i \in Intents, NEW s \in Starts(i), Start(s)
  PROVE  IInv'
  <1>0. TypeOK /\ s \in Started /\ s.intent = i /\ s.number >= 1
    BY StartTypes DEF IInv
  <1>1. /\ started' = started \cup {s}
        /\ UNCHANGED <<outbox, traces, records, terminal>>
    BY DEF Start
  <1>2. CASE s \in started
    <2>1. UNCHANGED vars
      BY <1>1, <1>2 DEF vars
    <2> QED
      BY <2>1, StutterIInv
  <1>3. CASE s \notin started
    <2> DEFINE row == outbox[i]
    <2>1. /\ row.status = "leased"
          /\ s.number = row.attempt_count
          /\ s.worker = row.lease.owner
          /\ s.started_at >= row.updated_at
          /\ s.started_at < row.lease.expires_at
          /\ \A q \in started : q.intent = i => q.number # s.number
      BY <1>0, <1>3 DEF Start, LiveLeaseFor, FreshStart
    <2>2. /\ row \in Row /\ row.updated_at \in Nat /\ row.attempt_count \in Nat
          /\ s.number \in Nat /\ s.started_at \in Nat
      BY <1>0 DEF TypeOK, Row, Started
    <2>3. \A q \in started : q.intent = i => q.number \in 1..row.attempt_count
      BY DEF IInv, OneChainPerLease
    <2>4. TypeOK' /\ LeaseHasTerm' /\ NothingDangles' /\ EvidenceAgrees'
      BY <1>0, <1>1 DEF IInv, TypeOK, LeaseHasTerm, NothingDangles, EvidenceAgrees, TerminalsOf
    <2>5. OneChainPerLease'
      <3>1. ASSUME NEW q \in started
            PROVE  s.intent = q.intent /\ s.number = q.number => s = q
        BY <1>0, <2>1
      <3>2. s.number \in 1..row.attempt_count
        BY <1>0, <2>1, <2>2
      <3> QED
        BY <1>0, <1>1, <2>1, <3>1, <3>2 DEF IInv, OneChainPerLease
    <2>6. SuccessIsFinal'
      <3>1. \A t \in terminal : t.status = "succeeded" => t.supersedes.intent # i
        BY <2>1 DEF IInv, SuccessIsFinal, CommittedAs
      <3> QED
        BY <1>0, <1>1, <3>1 DEF IInv, SuccessIsFinal, CommittedAs
    <2>7. ASSUME OrderInv PROVE OrderInv'
      <3>1. RecordedBy(i, row.attempt_count - 1, row.updated_at)
        BY <2>1, <2>7 DEF OrderInv, HistoryBehindClaim
      <3>2. ASSUME NEW q \in started, q.intent = i
            PROVE  ~(s.number < q.number) /\ (q.number < s.number => q.started_at <= s.started_at)
        <4>1. q.number \in Nat /\ q.started_at \in Nat /\ q.number <= row.attempt_count
          BY <1>0, <2>2, <2>3, <3>2 DEF TypeOK, Started
        <4>2. q.number < s.number => q.started_at <= row.updated_at
          BY <2>1, <2>2, <3>1, <3>2, <4>1 DEF RecordedBy
        <4> QED
          BY <2>1, <2>2, <4>1, <4>2
      <3>3. ASSUME NEW t \in terminal, t.supersedes.intent = i, NumberOf(t) < s.number
            PROVE  t.finished_at <= s.started_at
        <4>1. NumberOf(t) \in Nat /\ t.finished_at \in Nat
          BY <1>0 DEF TypeOK, Terminal, Started, NumberOf
        <4>2. t.finished_at <= row.updated_at
          BY <2>1, <2>2, <3>1, <3>3, <4>1 DEF RecordedBy, TerminalsOf
        <4> QED
          BY <2>1, <2>2, <4>1, <4>2
      <3>4. AttemptsInOrder'
        BY <1>0, <1>1, <2>7, <3>2, <3>3 DEF OrderInv, AttemptsInOrder, NumberOf, TypeOK, Started
      <3>5. ASSUME NEW j \in Intents, NEW n \in Int, NEW b \in Int, RecordedBy(j, n, b),
                   j = i => n < s.number
            PROVE  RecordedBy(j, n, b)'
        BY <1>0, <1>1, <2>2, <3>5 DEF RecordedBy, TerminalsOf
      <3>6. ASSUME NEW j \in Intents
            PROVE  /\ outbox[j].attempt_count \in Int /\ outbox[j].updated_at \in Int
                   /\ Instant(outbox[j].available_at) \in Int
                   /\ outbox[j].attempt_count - 1 \in Int
        BY <1>0 DEF TypeOK, Row, Stamp, Instant
      <3>7. HistoryBehindClaim'
        <4> SUFFICES ASSUME NEW j \in Intents
                     PROVE  /\ outbox[j].status = "leased" =>
                                 RecordedBy(j, outbox[j].attempt_count - 1, outbox[j].updated_at)'
                            /\ outbox[j].status = "pending" =>
                                 /\ outbox[j].available_at.offset = 0
                                 /\ RecordedBy(j, outbox[j].attempt_count,
                                               Instant(outbox[j].available_at))'
          BY <1>1 DEF HistoryBehindClaim, Instant
        <4>1. CASE outbox[j].status = "leased"
          <5>1. RecordedBy(j, outbox[j].attempt_count - 1, outbox[j].updated_at)
            BY <2>7, <4>1 DEF OrderInv, HistoryBehindClaim
          <5>2. j = i => outbox[j].attempt_count - 1 < s.number
            BY <2>1, <2>2
          <5> QED
            BY <1>1, <3>5, <3>6, <4>1, <5>1, <5>2
        <4>2. CASE outbox[j].status = "pending"
          <5>1. /\ outbox[j].available_at.offset = 0
                /\ RecordedBy(j, outbox[j].attempt_count, Instant(outbox[j].available_at))
            BY <2>7, <4>2 DEF OrderInv, HistoryBehindClaim
          <5>2. j # i
            BY <2>1, <4>2
          <5> QED
            BY <1>1, <3>5, <3>6, <4>2, <5>1, <5>2
        <4> QED
          BY <4>1, <4>2
      <3> QED
        BY <3>4, <3>7 DEF OrderInv
    <2> QED
      BY <2>4, <2>5, <2>6, <2>7 DEF IInv
  <1> QED
    BY <1>2, <1>3

(***************************************************************************)
(* Whatever verdict a finalization commits, what matters is that the row   *)
(* it writes repeats the terminal record, and that a retry lies ahead.     *)
(***************************************************************************)
Repeats(t, row) ==
  \/ t.status = "succeeded" /\ row.status = "completed" /\ row.outcome_id = t.result
  \/ t.status = "failed" /\ row.status \in {"pending", "failed"} /\ row.last_error_code = t.result

RetryLiesAhead(t, row) ==
  row.status = "pending" =>
    row.available_at.offset = 0 /\ t.finished_at <= Instant(row.available_at)

Finalizes(t, row) ==
  /\ t.supersedes \in started
  /\ Commit(t, row)
  /\ Repeats(t, row)
  /\ Offsets = {0} => RetryLiesAhead(t, row)
  /\ row.last_attempt_id = t
  /\ row.attempt_count = outbox[t.supersedes.intent].attempt_count
  /\ row.updated_at = t.finished_at

(* Evidence and row change together, for each of the three ways to finalize. *)
LEMMA CommitIInv ==
  ASSUME IInv, NEW t \in Terminal, NEW row \in Row, Finalizes(t, row)
  PROVE  IInv'
  <1> DEFINE s == t.supersedes
             i == s.intent
             old == outbox[i]
             n == old.attempt_count
  <1>0. /\ TypeOK
        /\ s \in started /\ s \in Started /\ i \in Intents
        /\ s.number \in Nat /\ s.started_at \in Nat /\ t.finished_at \in Nat
        /\ old \in Row /\ n \in Nat /\ old.updated_at \in Nat
    BY DEF Finalizes, IInv, TypeOK, Terminal, Started, Row
  <1>1. /\ terminal' = terminal \cup {t}
        /\ UNCHANGED <<traces, records, started>>
        /\ outbox'[i] = row
        /\ \A j \in Intents : j # i => outbox'[j] = outbox[j]
        /\ outbox' \in [Intents -> Row]
    BY <1>0 DEF Finalizes, Commit, TypeOK
  <1>2. /\ old.status = "leased"
        /\ s.number = n
        /\ s.started_at <= t.finished_at
        /\ t.status = "succeeded" => t.result \in records \cap Outcomes
        /\ \A q \in terminal : q.supersedes # s
    BY DEF Finalizes, Commit, LeaseCovers, LegalTerminal, FreshTerminal
  <1>3. /\ row.status \in {"pending", "completed", "failed"}
        /\ row.attempt_count = n
    BY DEF Finalizes, Repeats
  <1>4. /\ \A q \in started : q.intent = i => q.number \in 1..n
        /\ \A q \in started : q.intent = i /\ q.number = n => q = s
        /\ old.updated_at <= s.started_at
    BY <1>0, <1>2 DEF IInv, OneChainPerLease
  <1>5. \A q \in terminal : q.status = "succeeded" => q.supersedes.intent # i
    BY <1>2 DEF IInv, SuccessIsFinal, CommittedAs
  <1>6. \A q \in terminal : q.supersedes.intent = i => NumberOf(q) < n
    BY <1>0, <1>2 DEF IInv, EvidenceAgrees, TerminalsOf
  <1>7. TypeOK' /\ LeaseHasTerm'
    BY <1>0, <1>1, <1>3 DEF IInv, TypeOK, LeaseHasTerm
  <1>8. OneChainPerLease'
    BY <1>0, <1>1, <1>2, <1>3, <1>4 DEF IInv, OneChainPerLease, TypeOK, Started
  <1>9. NothingDangles'
    BY <1>0, <1>1, <1>2, <1>3 DEF IInv, NothingDangles
  <1>10. EvidenceAgrees'
    <2>1. \A j \in Intents : j # i => TerminalsOf(j)' = TerminalsOf(j)
      BY <1>1 DEF TerminalsOf
    <2>2. t \in TerminalsOf(i)' /\ NumberOf(t) = n
      BY <1>1, <1>2 DEF TerminalsOf, NumberOf
    <2> QED
      BY <1>0, <1>1, <1>3, <2>1, <2>2 DEF Finalizes, IInv, EvidenceAgrees, Repeats
  <1>11. SuccessIsFinal'
    <2>1. ASSUME t.status = "succeeded"
          PROVE  /\ CommittedAs(t, "completed")'
                 /\ \A q \in started : q.intent = i => q.number <= NumberOf(t)
      BY <1>0, <1>1, <1>2, <1>4, <2>1 DEF Finalizes, CommittedAs, NumberOf, Repeats
    <2>2. ASSUME NEW q \in terminal, q.status = "succeeded"
          PROVE  /\ CommittedAs(q, "completed")'
                 /\ \A p \in started : p.intent = q.supersedes.intent => p.number <= NumberOf(q)
      <3>1. q.supersedes.intent \in Intents \ {i}
        BY <1>0, <1>5, <2>2 DEF TypeOK, Terminal, Started
      <3> QED
        BY <1>1, <2>2, <3>1 DEF IInv, SuccessIsFinal, CommittedAs
    <2> QED
      BY <1>1, <2>1, <2>2 DEF SuccessIsFinal, NumberOf
  <1>12. ASSUME Offsets = {0}, OrderInv PROVE OrderInv'
    <2>1. RecordedBy(i, n - 1, old.updated_at)
      BY <1>0, <1>2, <1>12 DEF OrderInv, HistoryBehindClaim
    <2>2. \A q \in started : q.intent = i => ~(n < q.number)
      BY <1>0, <1>4
    <2>3. AttemptsInOrder'
      BY <1>1, <1>2, <1>12, <2>2 DEF OrderInv, AttemptsInOrder, NumberOf
    <2>4. ASSUME NEW b \in Int, t.finished_at <= b
          PROVE  RecordedBy(i, n, b)'
      <3>1. ASSUME NEW q \in started, q.intent = i
            PROVE  q.started_at <= b
        <4>1. q.number \in Nat /\ q.started_at \in Nat /\ q.number <= n
          BY <1>0, <1>4, <3>1 DEF TypeOK, Started
        <4>2. CASE q.number = n
          BY <1>0, <1>2, <1>4, <2>4, <3>1, <4>1, <4>2
        <4>3. CASE q.number <= n - 1
          <5>1. q.started_at <= old.updated_at
            BY <2>1, <3>1, <4>3 DEF RecordedBy
          <5> QED
            BY <1>0, <1>2, <1>4, <2>4, <4>1, <5>1
        <4> QED
          BY <1>0, <4>1, <4>2, <4>3
      <3>2. ASSUME NEW q \in terminal, q.supersedes.intent = i
            PROVE  q.finished_at <= b
        <4>1. NumberOf(q) \in Nat /\ q.finished_at \in Nat
          BY <1>0 DEF TypeOK, Terminal, Started, NumberOf
        <4>2. NumberOf(q) <= n - 1
          BY <1>0, <1>6, <3>2, <4>1
        <4>3. q.finished_at <= old.updated_at
          BY <2>1, <3>2, <4>2 DEF RecordedBy, TerminalsOf
        <4> QED
          BY <1>0, <1>2, <1>4, <2>4, <4>1, <4>3
      <3> QED
        BY <1>1, <2>4, <3>1, <3>2 DEF RecordedBy, TerminalsOf
    <2>5. ASSUME NEW j \in Intents, j # i, NEW m, NEW b, RecordedBy(j, m, b)
          PROVE  RecordedBy(j, m, b)'
      BY <1>1, <2>5 DEF RecordedBy, TerminalsOf
    <2>6. HistoryBehindClaim'
      <3> SUFFICES ASSUME NEW j \in Intents
                   PROVE  /\ outbox'[j].status = "leased" =>
                               RecordedBy(j, outbox[j].attempt_count - 1, outbox[j].updated_at)'
                          /\ outbox'[j].status = "pending" =>
                               /\ outbox'[j].available_at.offset = 0
                               /\ RecordedBy(j, outbox[j].attempt_count,
                                             Instant(outbox[j].available_at))'
        BY DEF HistoryBehindClaim
      <3>1. CASE j = i
        <4>1. Instant(row.available_at) \in Int
          BY DEF Row, Stamp, Instant
        <4>2. row.status = "pending" =>
                /\ row.available_at.offset = 0
                /\ RecordedBy(i, n, Instant(row.available_at))'
          BY <1>12, <2>4, <4>1 DEF Finalizes, RetryLiesAhead
        <4> QED
          BY <1>1, <1>3, <3>1, <4>2 DEF RecordedBy
      <3>2. CASE j # i
        <4>1. outbox'[j] = outbox[j]
          BY <1>1, <3>2
        <4>2. outbox[j].status = "leased" =>
                RecordedBy(j, outbox[j].attempt_count - 1, outbox[j].updated_at)
          BY <1>12 DEF OrderInv, HistoryBehindClaim
        <4>3. outbox[j].status = "pending" =>
                /\ outbox[j].available_at.offset = 0
                /\ RecordedBy(j, outbox[j].attempt_count, Instant(outbox[j].available_at))
          BY <1>12 DEF OrderInv, HistoryBehindClaim
        <4> QED
          BY <1>1, <3>2, <4>1, <4>2, <4>3 DEF RecordedBy, TerminalsOf, Instant
      <3> QED
        BY <3>1, <3>2
    <2> QED
      BY <2>3, <2>6 DEF OrderInv
  <1> QED
    BY <1>7, <1>8, <1>9, <1>10, <1>11, <1>12 DEF IInv

(***************************************************************************)
(* The rows the three ways to finalize write.                              *)
(***************************************************************************)
LEMMA FinalRows ==
  ASSUME TypeOK, NEW t \in Terminal
  PROVE  /\ t.status = "succeeded" /\ t.result \in Outcomes \cup OtherRecords =>
              /\ CompletedRow(t) \in Row
              /\ Repeats(t, CompletedRow(t))
              /\ RetryLiesAhead(t, CompletedRow(t))
              /\ CompletedRow(t).last_attempt_id = t
              /\ CompletedRow(t).attempt_count = outbox[t.supersedes.intent].attempt_count
              /\ CompletedRow(t).updated_at = t.finished_at
         /\ t.status = "failed" /\ t.result \in ErrorCodes =>
              /\ FailedRow(t) \in Row
              /\ Repeats(t, FailedRow(t))
              /\ RetryLiesAhead(t, FailedRow(t))
              /\ FailedRow(t).last_attempt_id = t
              /\ FailedRow(t).attempt_count = outbox[t.supersedes.intent].attempt_count
              /\ FailedRow(t).updated_at = t.finished_at
         /\ \A stamp \in Stamp : t.status = "failed" /\ t.result \in ErrorCodes =>
              /\ RetryRow(t, stamp) \in Row
              /\ Repeats(t, RetryRow(t, stamp))
              /\ RetryRow(t, stamp).available_at = stamp
              /\ RetryRow(t, stamp).last_attempt_id = t
              /\ RetryRow(t, stamp).attempt_count = outbox[t.supersedes.intent].attempt_count
              /\ RetryRow(t, stamp).updated_at = t.finished_at
  <1> DEFINE old == outbox[t.supersedes.intent]
  <1>1. old \in Row /\ t.finished_at \in Nat
    BY DEF TypeOK, Terminal, Started
  <1>2. /\ Released(t) \in Row
        /\ Released(t).last_attempt_id = t
        /\ Released(t).attempt_count = old.attempt_count
        /\ Released(t).updated_at = t.finished_at
    BY <1>1 DEF Released, Row
  <1> HIDE DEF old
  <1>3. ASSUME t.status = "succeeded", t.result \in Outcomes \cup OtherRecords
        PROVE  /\ CompletedRow(t) \in Row
               /\ CompletedRow(t).status = "completed"
               /\ CompletedRow(t).outcome_id = t.result
               /\ CompletedRow(t).last_attempt_id = t
               /\ CompletedRow(t).attempt_count = old.attempt_count
               /\ CompletedRow(t).updated_at = t.finished_at
    BY <1>2, <1>3 DEF CompletedRow, Row, Statuses
  <1>4. ASSUME t.status = "failed", t.result \in ErrorCodes
        PROVE  /\ FailedRow(t) \in Row
               /\ FailedRow(t).status = "failed"
               /\ FailedRow(t).last_error_code = t.result
               /\ FailedRow(t).last_attempt_id = t
               /\ FailedRow(t).attempt_count = old.attempt_count
               /\ FailedRow(t).updated_at = t.finished_at
    BY <1>2, <1>4 DEF FailedRow, Row, Statuses
  <1>5. ASSUME NEW stamp \in Stamp, t.status = "failed", t.result \in ErrorCodes
        PROVE  /\ RetryRow(t, stamp) \in Row
               /\ RetryRow(t, stamp).status = "pending"
               /\ RetryRow(t, stamp).available_at = stamp
               /\ RetryRow(t, stamp).last_error_code = t.result
               /\ RetryRow(t, stamp).last_attempt_id = t
               /\ RetryRow(t, stamp).attempt_count = old.attempt_count
               /\ RetryRow(t, stamp).updated_at = t.finished_at
    BY <1>2, <1>5 DEF RetryRow, Row, Statuses
  <1> QED
    BY <1>3, <1>4, <1>5 DEF old, Repeats, RetryLiesAhead

(* The stamp a retry is stored with, and that it denotes the retry time. *)
LEMMA RetryStampTypes ==
  ASSUME NEW retry \in Int, NEW o \in Offsets
  PROVE  /\ RetryStamp(retry, o) \in Stamp
         /\ Instant(RetryStamp(retry, o)) = retry
         /\ RetryStamp(retry, o).offset = o
  BY FinalizerAssumption DEF RetryStamp, Stamp, Instant

(* Every step is one of the writing operations or a stutter: repeating a   *)
(* finalized call changes nothing.                                         *)
StepOf ==
  \/ \E i \in Intents, a \in Instants : Enqueue(i, a) /\ UNCHANGED attemptVars
  \/ \E i \in Intents, w \in Workers, now \in Instants, d \in LeaseTerms :
       ClaimIntent(i, w, now, d) /\ UNCHANGED attemptVars
  \/ \E r \in Outcomes \cup OtherRecords : SaveRecord(r) /\ UNCHANGED attemptVars
  \/ \E r \in Outcomes \cup OtherRecords : DeleteRecord(r) /\ UNCHANGED attemptVars
  \/ \E i \in Intents : \E s \in Starts(i) : Start(s)
  \/ \E t \in Terminal, row \in Row : Finalizes(t, row)
  \/ UNCHANGED vars

(* Every step of the specification is one of the actions above. *)
LEMMA StepCases ==
  ASSUME TypeOK, [FinalizerNext]_vars
  PROVE  StepOf
  <1>1. CASE UNCHANGED vars
    BY <1>1 DEF StepOf
  <1>2. CASE OutboxStep /\ UNCHANGED attemptVars
    BY <1>2 DEF StepOf, OutboxStep
  <1>3. CASE \E r \in Outcomes \cup OtherRecords : DeleteRecord(r) /\ UNCHANGED attemptVars
    BY <1>3 DEF StepOf
  <1>4. CASE \E i \in Intents : \E s \in Starts(i) : Start(s)
    BY <1>4 DEF StepOf
  <1>5. ASSUME NEW s \in started, NEW t \in Successes(s), FinalizeSuccess(t)
        PROVE  StepOf
    <2>1. t \in Terminal /\ t.supersedes = s /\ t.status = "succeeded"
      BY FinalizationTypes
    <2>2. t.result \in Outcomes \cup OtherRecords
      BY DEF Successes
    <2>3. CASE Commit(t, CompletedRow(t))
      BY <2>1, <2>2, <2>3, FinalRows DEF StepOf, Finalizes
    <2> QED
      BY <1>1, <1>5, <2>3 DEF FinalizeSuccess
  <1>6. ASSUME NEW s \in started, NEW t \in Failures(s), FinalizeFailure(t)
        PROVE  StepOf
    <2>1. t \in Terminal /\ t.supersedes = s /\ t.status = "failed" /\ t.result \in ErrorCodes
      BY FinalizationTypes
    <2>2. CASE Commit(t, FailedRow(t))
      BY <2>1, <2>2, FinalRows DEF StepOf, Finalizes
    <2> QED
      BY <1>1, <1>6, <2>2 DEF FinalizeFailure
  <1>7. ASSUME NEW s \in started, NEW t \in Failures(s), NEW d \in RetryDelays,
               NEW o \in Offsets, FinalizeRetry(t, t.finished_at + d, o)
        PROVE  StepOf
    <2> DEFINE retry == t.finished_at + d
               stamp == RetryStamp(retry, o)
    <2>1. t \in Terminal /\ t.supersedes = s /\ t.status = "failed" /\ t.result \in ErrorCodes
      BY FinalizationTypes
    <2>2. retry \in Int
      BY <2>1, OutboxAssumption DEF Terminal
    <2>3. stamp \in Stamp /\ Instant(stamp) = retry /\ stamp.offset = o
      BY <2>2, RetryStampTypes
    <2>4. t.finished_at <= retry
      BY <1>7, <2>1, <2>2 DEF FinalizeRetry, Terminal
    <2>5. CASE Commit(t, RetryRow(t, stamp))
      <3> HIDE DEF stamp, retry
      <3>1. Offsets = {0} => RetryLiesAhead(t, RetryRow(t, stamp))
        BY <2>1, <2>3, <2>4, FinalRows DEF RetryLiesAhead
      <3>2. Finalizes(t, RetryRow(t, stamp)) /\ RetryRow(t, stamp) \in Row
        BY <2>1, <2>3, <2>5, <3>1, FinalRows DEF Finalizes
      <3> QED
        BY <2>1, <3>2 DEF StepOf
    <2> QED
      BY <1>1, <1>7, <2>5 DEF FinalizeRetry
  <1> QED
    BY <1>1, <1>2, <1>3, <1>4, <1>5, <1>6, <1>7 DEF FinalizerNext

(* IInv is inductive. *)
LEMMA NextIInv == IInv /\ [FinalizerNext]_vars => IInv'
  <1> SUFFICES ASSUME IInv, [FinalizerNext]_vars PROVE IInv'
    OBVIOUS
  <1>1. StepOf
    BY StepCases DEF IInv
  <1>2. ASSUME NEW i \in Intents, NEW a \in Instants, Enqueue(i, a), UNCHANGED attemptVars
        PROVE  IInv'
    BY <1>2, EnqueueIInv
  <1>3. ASSUME NEW i \in Intents, NEW w \in Workers, NEW now \in Instants,
               NEW d \in LeaseTerms, ClaimIntent(i, w, now, d), UNCHANGED attemptVars
        PROVE  IInv'
    BY <1>3, ClaimIInv
  <1>4. ASSUME NEW r \in Outcomes \cup OtherRecords, SaveRecord(r), UNCHANGED attemptVars
        PROVE  IInv'
    BY <1>4, SaveRecordIInv
  <1>5. ASSUME NEW r \in Outcomes \cup OtherRecords, DeleteRecord(r), UNCHANGED attemptVars
        PROVE  IInv'
    BY <1>5, DeleteRecordIInv
  <1>6. ASSUME NEW i \in Intents, NEW s \in Starts(i), Start(s)
        PROVE  IInv'
    BY <1>6, StartIInv
  <1>7. ASSUME NEW t \in Terminal, NEW row \in Row, Finalizes(t, row)
        PROVE  IInv'
    BY <1>7, CommitIInv
  <1>8. CASE UNCHANGED vars
    BY <1>8, StutterIInv
  <1> QED
    BY <1>1, <1>2, <1>3, <1>4, <1>5, <1>6, <1>7, <1>8 DEF StepOf

-----------------------------------------------------------------------------
(* The theorems.                                                           *)

(* The inductive invariant holds in every reachable state. *)
THEOREM FinalizerInvariant == FinalizerSpec => []IInv
  BY InitIInv, NextIInv, PTL DEF FinalizerSpec

(* Every table always holds rows of its declared type.                     *)
THEOREM TypeCorrect == FinalizerSpec => []TypeOK
  <1>1. IInv => TypeOK
    BY DEF IInv
  <1> QED
    BY <1>1, FinalizerInvariant, PTL

(* Row and evidence of an intent never disagree, whatever the callers of   *)
(* claim, start, complete and fail do and in whatever order.               *)
THEOREM EvidenceAlwaysAgrees == FinalizerSpec => []EvidenceAgrees
  <1>1. IInv => EvidenceAgrees
    BY DEF IInv
  <1> QED
    BY <1>1, FinalizerInvariant, PTL

(* After a committed success there is no further attempt, and repeating    *)
(* complete finds it finalized for ever.                                   *)
THEOREM SuccessStaysFinal == FinalizerSpec => []SuccessIsFinal
  <1>1. IInv => SuccessIsFinal
    BY DEF IInv
  <1> QED
    BY <1>1, FinalizerInvariant, PTL

(* At most one evidence chain per lease of an intent.                      *)
THEOREM ChainsAreUnique == FinalizerSpec => []OneChainPerLease
  <1>1. IInv => OneChainPerLease
    BY DEF IInv
  <1> QED
    BY <1>1, FinalizerInvariant, PTL

(* No reference dangles, although records are deleted, by force too.       *)
THEOREM ReferencesStay == FinalizerSpec => []NothingDangles
  <1>1. IInv => NothingDangles
    BY DEF IInv
  <1> QED
    BY <1>1, FinalizerInvariant, PTL

(***************************************************************************)
(* Attempts lie one after the other in recorded time, provided callers     *)
(* pass finished_at in UTC.                                                *)
(***************************************************************************)
THEOREM AttemptsStayInOrder == FinalizerSpec => [](Offsets = {0} => AttemptsInOrder)
  <1>1. IInv => (Offsets = {0} => AttemptsInOrder)
    BY DEF IInv, OrderInv
  <1> QED
    BY <1>1, FinalizerInvariant, PTL

(* What a finalization does to the row it settles, and only to that one.   *)
LEMMA FinalizationStep ==
  ASSUME TypeOK, NEW t \in Terminal, NEW row \in Row, Finalizes(t, row)
  PROVE  /\ t.supersedes.intent \in Intents
         /\ outbox[t.supersedes.intent].status = "leased"
         /\ outbox[t.supersedes.intent].attempt_count = NumberOf(t)
         /\ t.finished_at < outbox[t.supersedes.intent].lease.expires_at
         /\ outbox' = [outbox EXCEPT ![t.supersedes.intent] = row]
         /\ terminal' = terminal \cup {t}
         /\ row.status \in {"pending", "completed", "failed"}
         /\ row.status = "completed" <=> t.status = "succeeded"
         /\ row.status # "completed" <=> t.status = "failed"
         /\ row.attempt_count = NumberOf(t)
         /\ row.updated_at = t.finished_at
  <1>1. /\ t.supersedes.intent \in Intents
        /\ t.finished_at \in Nat
        /\ t.status \in {"succeeded", "failed"}
    BY DEF Terminal, Started
  <1>2. /\ outbox[t.supersedes.intent].status = "leased"
        /\ outbox[t.supersedes.intent].attempt_count = NumberOf(t)
        /\ t.finished_at < outbox[t.supersedes.intent].lease.expires_at
    <2>1. outbox[t.supersedes.intent].status = "leased"
      BY DEF Finalizes, Commit, LeaseCovers
    <2>2. outbox[t.supersedes.intent].lease.expires_at \in Nat
      BY <1>1, <2>1 DEF TypeOK, Lease
    <2> QED
      BY <1>1, <2>1, <2>2 DEF Finalizes, Commit, LeaseCovers, NumberOf
  <1>3. /\ outbox' = [outbox EXCEPT ![t.supersedes.intent] = row]
        /\ terminal' = terminal \cup {t}
    BY DEF Finalizes, Commit
  <1> QED
    BY <1>1, <1>2, <1>3 DEF Finalizes, Repeats

(***************************************************************************)
(* A lease ends once and on the right side of its expiry, and a settled    *)
(* row never changes again, for callers of every kind.                     *)
(***************************************************************************)
THEOREM LeasesAreDisciplined == FinalizerSpec => LeaseDiscipline
  <1> DEFINE Disciplined(i) ==
        outbox[i] # outbox'[i] =>
          /\ outbox[i].status \notin {"completed", "failed"}
          /\ outbox[i].status = "leased" =>
               IF outbox'[i].status = "leased"
               THEN outbox'[i].updated_at >= outbox[i].lease.expires_at
               ELSE outbox'[i].updated_at < outbox[i].lease.expires_at
  <1>1. ASSUME IInv, [FinalizerNext]_vars, NEW i \in Intents
        PROVE  Disciplined(i)
    <2>0. TypeOK /\ StepOf
      BY <1>1, StepCases DEF IInv
    <2>1. ASSUME NEW j \in Intents, NEW a \in Instants, Enqueue(j, a), UNCHANGED attemptVars
          PROVE  Disciplined(i)
      BY <2>0, <2>1 DEF Enqueue, TypeOK
    <2>2. ASSUME NEW j \in Intents, NEW w \in Workers, NEW now \in Instants,
                 NEW d \in LeaseTerms, ClaimIntent(j, w, now, d), UNCHANGED attemptVars
          PROVE  Disciplined(i)
      <3>1. /\ Ready(j, now) /\ now \in Nat
            /\ \A k \in Intents : k # j => outbox'[k] = outbox[k]
            /\ outbox'[j].status = "leased" /\ outbox'[j].updated_at = now
        BY <2>0, <2>2, ClaimFacts
      <3>2. outbox[j].status = "leased" => outbox[j].lease.expires_at \in Nat
        BY <2>0 DEF TypeOK, Lease
      <3> QED
        BY <3>1, <3>2 DEF Ready
    <2>3. ASSUME NEW t \in Terminal, NEW row \in Row, Finalizes(t, row)
          PROVE  Disciplined(i)
      BY <2>0, <2>3, FinalizationStep DEF TypeOK
    <2>4. ASSUME UNCHANGED outbox PROVE Disciplined(i)
      BY <2>4
    <2> QED
      BY <2>0, <2>1, <2>2, <2>3, <2>4 DEF StepOf, SaveRecord, DeleteRecord, Start, vars
  <1>2. IInv /\ [FinalizerNext]_vars => [\A i \in Intents : Disciplined(i)]_vars
    BY <1>1
  <1>3. [\A i \in Intents : Disciplined(i)]_vars =>
          [\A i \in Intents :
             LET row == outbox[i] new == outbox'[i]
             IN  row # new =>
                   /\ row.status \notin {"completed", "failed"}
                   /\ row.status = "leased" =>
                        IF new.status = "leased"
                        THEN new.updated_at >= row.lease.expires_at
                        ELSE new.updated_at < row.lease.expires_at]_vars
    OBVIOUS
  <1> QED
    BY <1>2, <1>3, FinalizerInvariant, PTL DEF FinalizerSpec, LeaseDiscipline

(***************************************************************************)
(* With every finished_at in UTC, no claim takes a pending row before the  *)
(* instant its available_at denotes.  Without that assumption the run      *)
(* retry_early is a counterexample.                                        *)
(***************************************************************************)
THEOREM RetryWaits == Offsets = {0} => (FinalizerSpec => RetryNotVisibleEarly)
  <1> SUFFICES ASSUME Offsets = {0} PROVE FinalizerSpec => RetryNotVisibleEarly
    OBVIOUS
  <1> DEFINE Waits(i) ==
        outbox[i].status = "pending" /\ outbox'[i].status = "leased" =>
          outbox'[i].updated_at >= Instant(outbox[i].available_at)
  <1>1. ASSUME IInv, [FinalizerNext]_vars, NEW i \in Intents
        PROVE  Waits(i)
    <2>0. TypeOK /\ StepOf /\ OrderInv
      BY <1>1, StepCases DEF IInv
    <2>1. ASSUME NEW j \in Intents, NEW a \in Instants, Enqueue(j, a), UNCHANGED attemptVars
          PROVE  Waits(i)
      <3>1. outbox[i].status = "pending" => outbox'[i] = outbox[i]
        BY <2>0, <2>1 DEF Enqueue, TypeOK
      <3> QED
        BY <3>1
    <2>2. ASSUME NEW j \in Intents, NEW w \in Workers, NEW now \in Instants,
                 NEW d \in LeaseTerms, ClaimIntent(j, w, now, d), UNCHANGED attemptVars
          PROVE  Waits(i)
      <3>1. /\ Ready(j, now) /\ now \in Nat
            /\ \A k \in Intents : k # j => outbox'[k] = outbox[k]
            /\ outbox'[j].updated_at = now
        BY <2>0, <2>2, ClaimFacts
      <3>2. outbox[j].status = "pending" =>
              /\ TextLeq(outbox[j].available_at, Utc(now))
              /\ outbox[j].available_at.offset = 0
        BY <2>0, <3>1 DEF Ready, OrderInv, HistoryBehindClaim
      <3>3. outbox[j].available_at \in Stamp
        BY <2>0 DEF TypeOK, Row
      <3>4. outbox[j].status = "pending" => Instant(outbox[j].available_at) <= now
        BY <3>1, <3>2, <3>3 DEF TextLeq, Utc, Instant, Stamp
      <3>5. Instant(outbox[j].available_at) \in Int
        BY <3>3 DEF Instant, Stamp
      <3> HIDE DEF Instant
      <3>6. CASE i = j
        BY <3>1, <3>4, <3>5, <3>6
      <3>7. CASE i # j
        BY <3>1, <3>7
      <3> QED
        BY <3>6, <3>7
    <2>3. ASSUME NEW t \in Terminal, NEW row \in Row, Finalizes(t, row)
          PROVE  Waits(i)
      BY <2>0, <2>3, FinalizationStep DEF TypeOK
    <2>4. ASSUME UNCHANGED outbox PROVE Waits(i)
      BY <2>4
    <2> QED
      BY <2>0, <2>1, <2>2, <2>3, <2>4 DEF StepOf, SaveRecord, DeleteRecord, Start, vars
  <1>2. IInv /\ [FinalizerNext]_vars => [\A i \in Intents : Waits(i)]_vars
    BY <1>1
  <1> QED
    BY <1>2, FinalizerInvariant, PTL DEF FinalizerSpec, RetryNotVisibleEarly

-----------------------------------------------------------------------------
(* The refinement of ActionDelivery.                                       *)

phaseOf == [i \in Intents |-> PhaseOf(outbox[i].status)]
epochOf == [i \in Intents |-> outbox[i].attempt_count]
VerdictOf(t) ==
  [intent |-> t.supersedes.intent, epoch |-> NumberOf(t), verdict |-> t.status]
verdictsOf == {VerdictOf(t) : t \in terminal}

(***************************************************************************)
(* Every step of the outbox with its evidence is a step of the abstract    *)
(* delivery or a stutter of it: enqueue submits, claim grants, a           *)
(* finalization judges, and everything else is invisible.                  *)
(***************************************************************************)
LEMMA DeliveryStep ==
  ASSUME IInv, [FinalizerNext]_vars
  PROVE  Delivery!DeliveryNext \/ UNCHANGED <<phaseOf, epochOf, verdictsOf>>
  <1> USE DEF phaseOf, epochOf, verdictsOf, VerdictOf
  <1>0. TypeOK /\ StepOf
    BY StepCases DEF IInv
  <1>1. ASSUME NEW i \in Intents, NEW a \in Instants, Enqueue(i, a), UNCHANGED attemptVars
        PROVE  Delivery!DeliveryNext \/ UNCHANGED <<phaseOf, epochOf, verdictsOf>>
    <2>1. terminal' = terminal
      BY <1>1 DEF attemptVars
    <2>2. CASE outbox[i].status # "absent"
      <3>1. outbox' = outbox
        BY <1>1, <2>2 DEF Enqueue
      <3> QED
        BY <2>1, <3>1 DEF NumberOf
    <2>3. CASE outbox[i].status = "absent"
      <3>1. /\ \A j \in Intents : j # i => outbox'[j] = outbox[j]
            /\ outbox'[i].status = "pending"
            /\ outbox'[i].attempt_count = 0
            /\ outbox[i].attempt_count = 0
        BY <1>0, <1>1, <2>3 DEF Enqueue, NoRow, TypeOK, IInv, EvidenceAgrees
      <3>2. phaseOf' = [phaseOf EXCEPT ![i] = "ready"]
        BY <3>1 DEF PhaseOf
      <3>3. epochOf' = epochOf /\ verdictsOf' = verdictsOf /\ phaseOf[i] = "none"
        BY <2>1, <2>3, <3>1 DEF PhaseOf, NumberOf
      <3>4. Delivery!Submit(i)
        BY <3>2, <3>3 DEF Delivery!Submit
      <3> QED
        BY <3>4 DEF Delivery!DeliveryNext
    <2> QED
      BY <2>2, <2>3
  <1>2. ASSUME NEW i \in Intents, NEW w \in Workers, NEW now \in Instants,
               NEW d \in LeaseTerms, ClaimIntent(i, w, now, d), UNCHANGED attemptVars
        PROVE  Delivery!DeliveryNext
    <2>1. /\ terminal' = terminal
          /\ outbox[i].status \in {"pending", "leased"}
          /\ \A j \in Intents : j # i => outbox'[j] = outbox[j]
          /\ outbox'[i].status = "leased"
          /\ outbox'[i].attempt_count = outbox[i].attempt_count + 1
      BY <1>0, <1>2, ClaimFacts DEF Ready
    <2>2. /\ phaseOf' = [phaseOf EXCEPT ![i] = "held"]
          /\ phaseOf[i] \in {"ready", "held"}
      BY <2>1 DEF PhaseOf
    <2>3. epochOf' = [epochOf EXCEPT ![i] = @ + 1] /\ verdictsOf' = verdictsOf
      BY <2>1 DEF NumberOf
    <2>4. Delivery!Grant(i)
      BY <2>2, <2>3 DEF Delivery!Grant
    <2> QED
      BY <2>4 DEF Delivery!DeliveryNext
  <1>3. ASSUME NEW t \in Terminal, NEW row \in Row, Finalizes(t, row)
        PROVE  Delivery!DeliveryNext
    <2> DEFINE i == t.supersedes.intent
    <2>1. /\ i \in Intents
          /\ outbox[i].status = "leased"
          /\ outbox[i].attempt_count = NumberOf(t)
          /\ outbox' = [outbox EXCEPT ![i] = row]
          /\ terminal' = terminal \cup {t}
          /\ row.status \in {"pending", "completed", "failed"}
          /\ row.status = "completed" <=> t.status = "succeeded"
          /\ row.status # "completed" <=> t.status = "failed"
          /\ row.attempt_count = NumberOf(t)
      BY <1>0, <1>3, FinalizationStep
    <2>2. /\ outbox'[i] = row
          /\ \A j \in Intents : j # i => outbox'[j] = outbox[j]
      BY <1>0, <2>1 DEF TypeOK
    <2>3. /\ phaseOf' = [phaseOf EXCEPT ![i] = PhaseOf(row.status)]
          /\ phaseOf[i] = "held"
          /\ epochOf' = epochOf
          /\ epochOf[i] = NumberOf(t)
      BY <2>1, <2>2 DEF PhaseOf
    <2>4. verdictsOf' = verdictsOf \cup {VerdictOf(t)}
      BY <2>1 DEF NumberOf
    <2>5. VerdictOf(t) = Delivery!Verdict(i, t.status)
      BY <2>1, <2>3 DEF Delivery!Verdict
    <2>6. Delivery!Judge(i, t.status, PhaseOf(row.status))
      BY <2>3, <2>4, <2>5 DEF Delivery!Judge
    <2>7. \/ t.status = "succeeded" /\ PhaseOf(row.status) = "done"
          \/ t.status = "failed" /\ PhaseOf(row.status) \in {"ready", "dead"}
      BY <2>1 DEF PhaseOf
    <2> QED
      BY <2>1, <2>6, <2>7 DEF Delivery!DeliveryNext
  <1>4. ASSUME UNCHANGED <<outbox, terminal>>
        PROVE  UNCHANGED <<phaseOf, epochOf, verdictsOf>>
    BY <1>4 DEF NumberOf
  <1> QED
    BY <1>0, <1>1, <1>2, <1>3, <1>4 DEF StepOf, SaveRecord, DeleteRecord, Start, vars, attemptVars

(***************************************************************************)
(* The outbox with its evidence implements at-least-once delivery: grants  *)
(* open epochs, verdicts fall on the current epoch only, a success ends    *)
(* the intent.                                                             *)
(***************************************************************************)
THEOREM OutboxImplementsDelivery == FinalizerSpec => ImplementsDelivery
  <1>1. AttemptsInit => Delivery!DeliveryInit
    BY DEF AttemptsInit, OutboxInit, NoRow, PhaseOf, Delivery!DeliveryInit
  <1>2. IInv /\ [FinalizerNext]_vars => [Delivery!DeliveryNext]_(Delivery!deliveryVars)
    BY DeliveryStep DEF Delivery!deliveryVars, phaseOf, epochOf, verdictsOf, VerdictOf
  <1> QED
    BY <1>1, <1>2, FinalizerInvariant, PTL
       DEF FinalizerSpec, ImplementsDelivery, Delivery!DeliverySpec

DeliveryProofs == INSTANCE ActionDeliveryProofs WITH
  phase    <- [i \in Intents |-> PhaseOf(outbox[i].status)],
  epoch    <- [i \in Intents |-> outbox[i].attempt_count],
  verdicts <- {[intent |-> t.supersedes.intent, epoch |-> NumberOf(t),
                verdict |-> t.status] : t \in terminal}

(***************************************************************************)
(* What the abstract delivery promises holds of the tables: two attempts   *)
(* never conclude the same claim, and nothing follows a success.           *)
(***************************************************************************)
THEOREM OneVerdictPerClaim == FinalizerSpec => []Delivery!OneVerdictPerEpoch
  <1>1. Delivery!DeliveryInit => DeliveryProofs!DeliveryInit
    BY DEF Delivery!DeliveryInit, DeliveryProofs!DeliveryInit
  <1>2. [Delivery!DeliveryNext]_(Delivery!deliveryVars)
          => [DeliveryProofs!DeliveryNext]_(DeliveryProofs!deliveryVars)
    BY DEF Delivery!DeliveryNext, DeliveryProofs!DeliveryNext,
           Delivery!deliveryVars, DeliveryProofs!deliveryVars,
           Delivery!Submit, DeliveryProofs!Submit, Delivery!Grant, DeliveryProofs!Grant,
           Delivery!Judge, DeliveryProofs!Judge, Delivery!Verdict, DeliveryProofs!Verdict
  <1>3. DeliveryProofs!OneVerdictPerEpoch => Delivery!OneVerdictPerEpoch
    BY DEF Delivery!OneVerdictPerEpoch, DeliveryProofs!OneVerdictPerEpoch
  <1> QED
    BY <1>1, <1>2, <1>3, OutboxImplementsDelivery, DeliveryProofs!VerdictsAreUnique, PTL
       DEF ImplementsDelivery, Delivery!DeliverySpec, DeliveryProofs!DeliverySpec

-----------------------------------------------------------------------------
(***************************************************************************)
(* The hand-written protocol.  Without the finalizer evidence and row need *)
(* not agree, but the evidence of a lease is one chain, and leases end     *)
(* once and on the right side of their expiry.                             *)
(***************************************************************************)
(* What is enqueued has no attempts yet. *)
UnclaimedBefore == \A i \in Intents : outbox[i].status = "absent" => outbox[i].attempt_count = 0

AttemptsInv == TypeOK /\ OneChainPerLease /\ UnclaimedBefore

(* A lease that is settled is alive, and the number of attempts stays. *)
Settles(i, at) ==
  /\ at \in Nat /\ outbox[i].status = "leased" /\ at < outbox[i].lease.expires_at
  /\ outbox' \in [Intents -> Row]
  /\ \A j \in Intents : j # i => outbox'[j] = outbox[j]
  /\ outbox'[i].status \in {"pending", "completed", "failed"}
  /\ outbox'[i].attempt_count = outbox[i].attempt_count
  /\ outbox'[i].updated_at = at
  /\ UNCHANGED <<traces, records>>

LEMMA SettleFacts ==
  ASSUME TypeOK, SettleStep
  PROVE  \E i \in Intents, at \in Instants : Settles(i, at)
  <1>0. PICK i \in Intents : \E k \in Tokens(i), t \in Instants :
          \/ \E r \in records : Complete(i, k, r, t)
          \/ \E e \in ErrorCodes : FailForGood(i, k, e, t)
          \/ \E e \in ErrorCodes, d \in RetryDelays : FailForRetry(i, k, e, t, t + d)
    BY DEF SettleStep
  <1>1. PICK k \in Tokens(i), t \in Instants :
          \/ \E r \in records : Complete(i, k, r, t)
          \/ \E e \in ErrorCodes : FailForGood(i, k, e, t)
          \/ \E e \in ErrorCodes, d \in RetryDelays : FailForRetry(i, k, e, t, t + d)
    BY <1>0
  <1>2. /\ outbox[i] \in Row /\ outbox[i].available_at \in Stamp /\ t \in Nat
        /\ outbox[i].status = "leased" => outbox[i].lease.expires_at \in Nat
    BY OutboxAssumption DEF TypeOK, Row, Lease
  <1>3. ASSUME NEW r \in records, Complete(i, k, r, t) PROVE Settles(i, t)
    <2>1. r \in Outcomes \cup OtherRecords
      BY DEF TypeOK
    <2> QED
      BY <1>2, <1>3, <2>1 DEF Complete, ActiveLease, Settles, TypeOK, Row, Statuses
  <1>4. ASSUME NEW e \in ErrorCodes, FailForGood(i, k, e, t) PROVE Settles(i, t)
    <2>1. Utc(Instant(outbox[i].available_at)) \in Stamp
      BY <1>2 DEF Utc, Instant, Stamp
    <2> QED
      BY <1>2, <1>4, <2>1 DEF FailForGood, ActiveLease, Settles, TypeOK, Row, Statuses
  <1>5. ASSUME NEW e \in ErrorCodes, NEW d \in RetryDelays, FailForRetry(i, k, e, t, t + d)
        PROVE  Settles(i, t)
    <2>1. Utc(t + d) \in Stamp
      BY <1>2, OutboxAssumption DEF Utc, Stamp
    <2> QED
      BY <1>2, <1>5, <2>1 DEF FailForRetry, ActiveLease, Settles, TypeOK, Row, Statuses
  <1> QED
    BY <1>1, <1>3, <1>4, <1>5

(* What a step of the protocol is. *)
LEMMA ProtocolCases ==
  ASSUME TypeOK, [AttemptsNext]_vars
  PROVE  \/ \E i \in Intents, a \in Instants : Enqueue(i, a) /\ UNCHANGED attemptVars
         \/ \E i \in Intents, w \in Workers, now \in Instants, d \in LeaseTerms :
              ClaimIntent(i, w, now, d) /\ UNCHANGED attemptVars
         \/ \E i \in Intents, at \in Instants : Settles(i, at) /\ UNCHANGED attemptVars
         \/ \E i \in Intents : \E s \in Starts(i) : Start(s)
         \/ \E s \in started : \E t \in Successes(s) \cup Failures(s) : RecordTerminal(t)
         \/ /\ UNCHANGED <<outbox, traces, started, terminal>>
            /\ records' \subseteq Outcomes \cup OtherRecords
  <1>1. CASE SettleStep /\ UNCHANGED attemptVars
    BY <1>1, SettleFacts
  <1>2. CASE OutboxStep /\ UNCHANGED attemptVars
    BY <1>2 DEF OutboxStep, SaveRecord, attemptVars, TypeOK
  <1>3. CASE \E r \in Outcomes \cup OtherRecords : DeleteRecord(r) /\ UNCHANGED attemptVars
    BY <1>3 DEF DeleteRecord, attemptVars, TypeOK
  <1>4. CASE UNCHANGED vars
    BY <1>4 DEF vars, TypeOK
  <1> QED
    BY <1>1, <1>2, <1>3, <1>4 DEF AttemptsNext

LEMMA NextAttemptsInv == AttemptsInv /\ [AttemptsNext]_vars => AttemptsInv'
  <1> SUFFICES ASSUME TypeOK, OneChainPerLease, UnclaimedBefore, [AttemptsNext]_vars
               PROVE  AttemptsInv'
    BY DEF AttemptsInv
  <1>0. started \subseteq Started /\ terminal \subseteq Terminal
    BY DEF TypeOK
  <1>1. ASSUME NEW i \in Intents, NEW a \in Instants, Enqueue(i, a), UNCHANGED attemptVars
        PROVE  AttemptsInv'
    <2> DEFINE row == [NoRow EXCEPT !.status = "pending", !.available_at = Utc(a)]
    <2>1. row \in Row /\ row.status = "pending"
      <3>1. Utc(a) \in Stamp
        BY OutboxAssumption DEF Stamp, Utc
      <3>2. NoRow \in Row
        BY DEF NoRow, Row, Statuses, Stamp, Utc
      <3> QED
        BY <3>1, <3>2 DEF Row, Statuses
    <2>2. /\ outbox' \in [Intents -> Row]
          /\ \A j \in Intents :
               \/ outbox'[j] = outbox[j]
               \/ outbox[j].status = "absent" /\ outbox'[j] = row
      BY <1>1, <2>1 DEF Enqueue, TypeOK
    <2>3. TypeOK'
      BY <1>1, <2>1, <2>2 DEF Enqueue, attemptVars, TypeOK
    <2>4. \A s \in started : outbox[s.intent].status # "absent"
      BY <1>0 DEF UnclaimedBefore, OneChainPerLease, Started
    <2>5. \A s \in started : outbox'[s.intent] = outbox[s.intent]
      BY <1>0, <2>2, <2>4 DEF Started
    <2>6. OneChainPerLease'
      BY <1>1, <2>5 DEF OneChainPerLease, attemptVars
    <2>7. UnclaimedBefore'
      BY <2>1, <2>2 DEF UnclaimedBefore
    <2> QED
      BY <2>3, <2>6, <2>7 DEF AttemptsInv
  <1>2. ASSUME NEW i \in Intents, NEW w \in Workers, NEW now \in Instants,
               NEW d \in LeaseTerms, ClaimIntent(i, w, now, d), UNCHANGED attemptVars
        PROVE  AttemptsInv'
    <2>1. PICK n \in Nat :
          /\ n = outbox[i].attempt_count
          /\ UNCHANGED <<traces, records, started, terminal>>
          /\ outbox' \in [Intents -> Row]
          /\ \A j \in Intents : j # i => outbox'[j] = outbox[j]
          /\ outbox'[i].attempt_count = n + 1 /\ outbox'[i].lease \in Lease
          /\ outbox'[i].status = "leased"
      BY <1>2, ClaimFacts
    <2>2. TypeOK'
      BY <2>1 DEF TypeOK
    <2> QED
      BY <1>0, <2>1, <2>2 DEF AttemptsInv, UnclaimedBefore, OneChainPerLease, Started
  <1>3. ASSUME NEW i \in Intents, NEW at \in Instants, Settles(i, at), UNCHANGED attemptVars
        PROVE  AttemptsInv'
    <2>1. TypeOK'
      BY <1>3 DEF Settles, attemptVars, TypeOK
    <2> QED
      BY <1>0, <1>3, <2>1 DEF AttemptsInv, UnclaimedBefore, OneChainPerLease, Settles, attemptVars, Started
  <1>4. ASSUME NEW i \in Intents, NEW s \in Starts(i), Start(s)
        PROVE  AttemptsInv'
    <2>1. /\ s \in Started /\ s.intent = i /\ s.number >= 1
          /\ started' = started \cup {s}
          /\ UNCHANGED <<outbox, traces, records, terminal>>
      BY <1>4, StartTypes DEF Start
    <2>2. TypeOK'
      BY <2>1 DEF TypeOK
    <2>3. CASE s \in started
      BY <2>1, <2>2, <2>3 DEF AttemptsInv, UnclaimedBefore, OneChainPerLease
    <2>4. CASE s \notin started
      <3>1. LiveLeaseFor(s) /\ FreshStart(s)
        BY <1>4, <2>4 DEF Start
      <3>2. outbox[i] \in Row /\ s.number \in Nat /\ s.started_at \in Nat
        BY <2>1 DEF TypeOK, Started
      <3> QED
        BY <1>0, <2>1, <2>2, <3>1, <3>2
           DEF AttemptsInv, UnclaimedBefore, OneChainPerLease, LiveLeaseFor, FreshStart, Row
    <2> QED
      BY <2>3, <2>4
  <1>5. ASSUME NEW s \in started, NEW t \in Successes(s) \cup Failures(s), RecordTerminal(t)
        PROVE  AttemptsInv'
    <2>1. /\ t \in Terminal /\ t.supersedes = s
          /\ terminal' = terminal \cup {t}
          /\ UNCHANGED <<outbox, traces, records, started>>
      BY <1>5, FinalizationTypes DEF RecordTerminal
    <2>2. TypeOK'
      BY <2>1 DEF TypeOK
    <2>3. t \in terminal \/ (FreshTerminal(t) /\ s.started_at <= t.finished_at)
      BY <1>0, <1>5, <2>1 DEF RecordTerminal, LegalTerminal, Terminal, Started
    <2> QED
      BY <1>0, <2>1, <2>2, <2>3 DEF AttemptsInv, UnclaimedBefore, OneChainPerLease, FreshTerminal
  <1>6. ASSUME UNCHANGED <<outbox, traces, started, terminal>>,
               records' \subseteq Outcomes \cup OtherRecords
        PROVE  AttemptsInv'
    BY <1>6 DEF AttemptsInv, UnclaimedBefore, TypeOK, OneChainPerLease
  <1> QED
    BY <1>1, <1>2, <1>3, <1>4, <1>5, <1>6, ProtocolCases

(* The evidence of a lease is one chain, in the hand-written protocol too. *)
THEOREM ProtocolChains == AttemptsSpec => [](TypeOK /\ OneChainPerLease)
  <1>1. AttemptsInit => AttemptsInv
    BY InitIInv DEF IInv, AttemptsInv, EvidenceAgrees, UnclaimedBefore
  <1>2. AttemptsInv => TypeOK /\ OneChainPerLease
    BY DEF AttemptsInv
  <1> QED
    BY <1>1, <1>2, NextAttemptsInv, PTL DEF AttemptsSpec

(***************************************************************************)
(* Leases end once and on the right side of their expiry, whatever tokens  *)
(* and clock readings the callers of complete and fail come with.          *)
(***************************************************************************)
THEOREM ProtocolLeases == AttemptsSpec => LeaseDiscipline
  <1> DEFINE Disciplined(i) ==
        outbox[i] # outbox'[i] =>
          /\ outbox[i].status \notin {"completed", "failed"}
          /\ outbox[i].status = "leased" =>
               IF outbox'[i].status = "leased"
               THEN outbox'[i].updated_at >= outbox[i].lease.expires_at
               ELSE outbox'[i].updated_at < outbox[i].lease.expires_at
  <1>1. ASSUME TypeOK, [AttemptsNext]_vars, NEW i \in Intents
        PROVE  Disciplined(i)
    <2>1. ASSUME NEW j \in Intents, NEW a \in Instants, Enqueue(j, a), UNCHANGED attemptVars
          PROVE  Disciplined(i)
      BY <1>1, <2>1 DEF Enqueue, TypeOK
    <2>2. ASSUME NEW j \in Intents, NEW w \in Workers, NEW now \in Instants,
                 NEW d \in LeaseTerms, ClaimIntent(j, w, now, d), UNCHANGED attemptVars
          PROVE  Disciplined(i)
      <3>1. /\ Ready(j, now) /\ now \in Nat
            /\ \A k \in Intents : k # j => outbox'[k] = outbox[k]
            /\ outbox'[j].status = "leased" /\ outbox'[j].updated_at = now
        BY <1>1, <2>2, ClaimFacts
      <3>2. outbox[j].status = "leased" => outbox[j].lease.expires_at \in Nat
        BY <1>1 DEF TypeOK, Lease
      <3> QED
        BY <3>1, <3>2 DEF Ready
    <2>3. ASSUME NEW j \in Intents, NEW at \in Instants, Settles(j, at)
          PROVE  Disciplined(i)
      BY <2>3 DEF Settles
    <2>4. ASSUME UNCHANGED outbox PROVE Disciplined(i)
      BY <2>4
    <2> QED
      BY <1>1, <2>1, <2>2, <2>3, <2>4, ProtocolCases DEF Start, RecordTerminal
  <1>2. TypeOK /\ [AttemptsNext]_vars => [\A i \in Intents : Disciplined(i)]_vars
    BY <1>1
  <1>3. [\A i \in Intents : Disciplined(i)]_vars =>
          [\A i \in Intents :
             LET row == outbox[i] new == outbox'[i]
             IN  row # new =>
                   /\ row.status \notin {"completed", "failed"}
                   /\ row.status = "leased" =>
                        IF new.status = "leased"
                        THEN new.updated_at >= row.lease.expires_at
                        ELSE new.updated_at < row.lease.expires_at]_vars
    OBVIOUS
  <1> QED
    BY <1>2, <1>3, ProtocolChains, PTL DEF AttemptsSpec, LeaseDiscipline

=============================================================================
