---------------------------- MODULE ActionOutbox ----------------------------
(***************************************************************************)
(* The transactional action outbox (SQLiteActionOutbox): one durable row   *)
(* per action intent, leased to workers.                                   *)
(*                                                                         *)
(* Every public operation runs inside one BEGIN IMMEDIATE transaction, and *)
(* SQLite serialises those, so an operation is one atomic action here.  A  *)
(* call the code rejects with an exception is rolled back: it is the       *)
(* action that is not enabled.  Callers are unconstrained: any lease token *)
(* ever handed out may be presented at any time, in any order, any number  *)
(* of times, and a caller's clock may return any instant, so stale reads   *)
(* of the clock, clock skew, delays and duplicated calls are all included. *)
(***************************************************************************)
EXTENDS Integers, FiniteSets

CONSTANTS
  Intents,      \* action intents; their order is the (created_at, id) order
  Workers,      \* worker ids
  Outcomes,     \* ids of records of type Outcome
  OtherRecords, \* ids of records of any other type
  ErrorCodes,   \* safe error codes
  Instants,     \* what a clock may read
  LeaseTerms,   \* the lease_for values callers use
  RetryDelays,  \* how long after a failure callers ask for the retry
  MaxAttempts,  \* bound on attempt_count, which the code does not bound
  NULL          \* SQL NULL / None

ASSUME OutboxAssumption ==
  /\ Intents \subseteq Nat
  /\ Instants \subseteq Nat
  /\ LeaseTerms \subseteq Nat \ {0}
  /\ RetryDelays \subseteq Int
  /\ MaxAttempts \in Nat
  /\ Outcomes \cap OtherRecords = {}
  /\ NULL \notin Outcomes \cup OtherRecords \cup ErrorCodes

(***************************************************************************)
(* Definitions named Faulty... are not part of the model: each is the      *)
(* definition that follows it with a plausible programming error, kept so  *)
(* that every property can be seen to fail when the code is wrong.         *)
(***************************************************************************)

VARIABLES
  outbox,       \* table action_outbox: the row of each intent
  traces,       \* the intents whose decision trace is in the trace table
  records       \* table records: the outcome and other records persisted

outboxVars == <<outbox, traces, records>>

-----------------------------------------------------------------------------
(***************************************************************************)
(* Timestamps are stored as ISO-8601 text that keeps the UTC offset of the *)
(* datetime it was made from.  A stamp is that text: the local time it     *)
(* shows and the offset of its suffix.  SQL compares stamps as text, the   *)
(* local time first and then the suffix, where "+" sorts before "-".       *)
(***************************************************************************)
Stamp == [local : Int, offset : Int]

Utc(t) == [local |-> t, offset |-> 0]

Instant(s) == s.local - s.offset

SuffixLeq(o, p) ==
  \/ o >= 0 /\ (p < 0 \/ o <= p)
  \/ o < 0 /\ p <= o

TextLeq(a, b) ==
  \/ a.local < b.local
  \/ a.local = b.local /\ SuffixLeq(a.offset, b.offset)

FaultyToken(i, n) == <<i, 0>>

(* secrets.token_hex(16): a token no other claim was ever given. *)
Token(i, n) == <<i, n>>

Lease == [owner : Workers, token : Nat \X Nat, expires_at : Nat]

Statuses == {"absent", "pending", "leased", "completed", "failed"}

NoRow ==
  [status |-> "absent", attempt_count |-> 0, available_at |-> Utc(0),
   lease |-> NULL, updated_at |-> 0, last_error_code |-> NULL,
   outcome_id |-> NULL, last_attempt_id |-> NULL]

OutboxInit ==
  /\ outbox = [i \in Intents |-> NoRow]
  /\ traces = {}
  /\ records = {}

-----------------------------------------------------------------------------
FaultyReady(i, now) ==
  \/ outbox[i].status = "pending"
  \/ outbox[i].status = "leased" /\ outbox[i].lease.expires_at <= now

(* A pending row whose time has come or a leased row whose lease is over.  *)
Ready(i, now) ==
  \/ /\ outbox[i].status = "pending"
     /\ TextLeq(outbox[i].available_at, Utc(now))
  \/ /\ outbox[i].status = "leased"
     /\ outbox[i].lease.expires_at <= now

(* ORDER BY available_at, created_at, id. *)
Precedes(i, j) ==
  LET a == outbox[i].available_at
      b == outbox[j].available_at
  IN  \/ a # b /\ TextLeq(a, b)
      \/ a = b /\ i <= j

list_ready(now) == {i \in Intents : Ready(i, now)}

FaultyEnqueue(i, available) ==
  /\ traces' = traces \cup {i}
  /\ outbox' = [outbox EXCEPT ![i] = [NoRow EXCEPT
                  !.status = "pending", !.available_at = Utc(available)]]
  /\ UNCHANGED records

(***************************************************************************)
(* enqueue: the trace and its intent in one transaction.  An intent that   *)
(* is already there is returned as it is, whatever its state; created_at   *)
(* is the origin of time, so any instant is a legal available_at.          *)
(***************************************************************************)
Enqueue(i, available) ==
  /\ traces' = traces \cup {i}
  /\ outbox' = IF outbox[i].status = "absent"
               THEN [outbox EXCEPT ![i] = [NoRow EXCEPT
                       !.status = "pending", !.available_at = Utc(available)]]
               ELSE outbox
  /\ UNCHANGED records

FaultyLeasedRow(i, w, now, term) ==
  [outbox[i] EXCEPT !.status = "leased", !.attempt_count = @ + 1]

LeasedRow(i, w, now, term) ==
  [outbox[i] EXCEPT
     !.status = "leased",
     !.attempt_count = @ + 1,
     !.lease = [owner |-> w,
                token |-> Token(i, outbox[i].attempt_count + 1),
                expires_at |-> now + term],
     !.updated_at = now]

(* claim: lease the first ready intent to w. *)
ClaimIntent(i, w, now, term) ==
  /\ i \in list_ready(now)
  /\ \A j \in list_ready(now) : Precedes(i, j)
  /\ outbox[i].attempt_count < MaxAttempts
  /\ outbox' = [outbox EXCEPT ![i] = LeasedRow(i, w, now, term)]
  /\ UNCHANGED <<traces, records>>

FaultyActiveLease(i, token, at) ==
  outbox[i].status = "leased" /\ outbox[i].lease.token = token

(* _require_active_lease *)
ActiveLease(i, token, at) ==
  /\ outbox[i].status = "leased"
  /\ outbox[i].lease.token = token
  /\ outbox[i].lease.expires_at > at

(* complete: any existing record is accepted as the outcome. *)
Complete(i, token, r, at) ==
  /\ ActiveLease(i, token, at)
  /\ r \in records
  /\ outbox' = [outbox EXCEPT ![i].status = "completed",
                              ![i].outcome_id = r,
                              ![i].lease = NULL,
                              ![i].updated_at = at]
  /\ UNCHANGED <<traces, records>>

(* fail with retry_at: back to pending, visible from retry on. *)
FailForRetry(i, token, e, at, retry) ==
  /\ ActiveLease(i, token, at)
  /\ retry >= at
  /\ outbox' = [outbox EXCEPT ![i].status = "pending",
                              ![i].available_at = Utc(retry),
                              ![i].lease = NULL,
                              ![i].last_error_code = e,
                              ![i].updated_at = at]
  /\ UNCHANGED <<traces, records>>

(* fail without retry_at: available_at is written back in UTC. *)
FailForGood(i, token, e, at) ==
  /\ ActiveLease(i, token, at)
  /\ outbox' = [outbox EXCEPT ![i].status = "failed",
                              ![i].available_at = Utc(Instant(@)),
                              ![i].lease = NULL,
                              ![i].last_error_code = e,
                              ![i].updated_at = at]
  /\ UNCHANGED <<traces, records>>

-----------------------------------------------------------------------------
(* The experience store around the outbox: records come and go.            *)

SaveRecord(r) ==
  /\ r \notin records
  /\ records' = records \cup {r}
  /\ UNCHANGED <<outbox, traces>>

FaultyDeleteRecord(r) ==
  /\ r \in records
  /\ records' = records \ {r}
  /\ UNCHANGED <<outbox, traces>>

(***************************************************************************)
(* delete(force=True), and delete whose check of dependants ran before the *)
(* reference appeared: only the foreign key of outcome_id is left.         *)
(***************************************************************************)
DeleteRecord(r) ==
  /\ r \in records
  /\ \A i \in Intents : outbox[i].outcome_id # r
  /\ records' = records \ {r}
  /\ UNCHANGED <<outbox, traces>>

-----------------------------------------------------------------------------
(* The tokens handed out for i so far. *)
Tokens(i) == {Token(i, n) : n \in 1..outbox[i].attempt_count}

OutboxStep ==
  \/ \E i \in Intents, t \in Instants : Enqueue(i, t)
  \/ \E i \in Intents, w \in Workers, t \in Instants, d \in LeaseTerms :
       ClaimIntent(i, w, t, d)
  \/ \E r \in Outcomes \cup OtherRecords : SaveRecord(r)

(* complete and fail, called with any token of the intent at any time. *)
SettleStep ==
  \E i \in Intents : \E k \in Tokens(i), t \in Instants :
    \/ \E r \in records : Complete(i, k, r, t)
    \/ \E e \in ErrorCodes : FailForGood(i, k, e, t)
    \/ \E e \in ErrorCodes, d \in RetryDelays : FailForRetry(i, k, e, t, t + d)

=============================================================================
