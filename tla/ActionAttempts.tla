--------------------------- MODULE ActionAttempts ---------------------------
(***************************************************************************)
(* Immutable action attempts (SQLiteActionAttemptStore) beside the outbox: *)
(* the evidence chain started -> succeeded | failed of each dispatch.      *)
(*                                                                         *)
(* The id of an attempt is a hash of its content, so a record stands for   *)
(* its own id: supersedes_attempt_id is the started record itself, and the *)
(* dispatch context a terminal record repeats is read through it.          *)
(*                                                                         *)
(* This module's specification is the hand-written worker protocol: claim, *)
(* start, record the terminal evidence and settle the outbox, each in a    *)
(* transaction of its own.  ActionFinalizer joins the last two.            *)
(***************************************************************************)
EXTENDS ActionOutbox

VARIABLES
  started,      \* action_attempt_index, revision 1
  terminal      \* action_attempt_index, revision 2

attemptVars == <<started, terminal>>
vars == <<outbox, traces, records, started, terminal>>

Started ==
  [intent : Intents, number : Nat, worker : Workers,
   lease_token : Nat \X Nat, started_at : Nat]

Terminal ==
  [supersedes : Started, status : {"succeeded", "failed"},
   finished_at : Nat, result : Outcomes \cup OtherRecords \cup ErrorCodes]

AttemptsInit ==
  /\ OutboxInit
  /\ started = {}
  /\ terminal = {}

-----------------------------------------------------------------------------
FaultyLiveLeaseFor(s) ==
  outbox[s.intent].status = "leased" /\ s.number <= outbox[s.intent].attempt_count

(* _validate_intent_and_progression, revision 1 *)
LiveLeaseFor(s) ==
  LET row == outbox[s.intent]
  IN  /\ row.status = "leased"
      /\ s.number = row.attempt_count
      /\ s.worker = row.lease.owner
      /\ s.lease_token = row.lease.token
      /\ s.started_at >= row.updated_at
      /\ s.started_at < row.lease.expires_at

(* UNIQUE(intent_id, attempt_number, revision) on the started revision. *)
FreshStart(s) ==
  \A q \in started : q.intent = s.intent => q.number # s.number

(* start: saving the same record again returns it, whatever happened since. *)
Start(s) ==
  /\ s \in started \/ (LiveLeaseFor(s) /\ FreshStart(s))
  /\ started' = started \cup {s}
  /\ UNCHANGED <<outbox, traces, records, terminal>>

FaultyFreshTerminal(t) == t \notin terminal

(* UNIQUE(supersedes_attempt_id): one terminal revision per started record. *)
FreshTerminal(t) == \A q \in terminal : q.supersedes # t.supersedes

(***************************************************************************)
(* _build_terminal_attempt, the reference check and revision 2 of          *)
(* _validate_intent_and_progression.                                       *)
(***************************************************************************)
LegalTerminal(t) ==
  /\ t.supersedes \in started
  /\ t.finished_at >= t.supersedes.started_at
  /\ t.status = "succeeded" => t.result \in records \cap Outcomes
  /\ FreshTerminal(t)

(* succeed, fail: terminal evidence alone; neither lease nor row is looked at. *)
RecordTerminal(t) ==
  /\ t \in terminal \/ LegalTerminal(t)
  /\ terminal' = terminal \cup {t}
  /\ UNCHANGED <<outbox, traces, records, started>>

-----------------------------------------------------------------------------
(* The started records a caller holding some claim of i may ask to save. *)
Starts(i) ==
  [intent : {i}, number : 1..outbox[i].attempt_count, worker : Workers,
   lease_token : Tokens(i), started_at : Instants]

Successes(s) ==
  [supersedes : {s}, status : {"succeeded"}, finished_at : Instants,
   result : Outcomes \cup OtherRecords]

Failures(s) ==
  [supersedes : {s}, status : {"failed"}, finished_at : Instants,
   result : ErrorCodes]

AttemptsNext ==
  \/ (OutboxStep \/ SettleStep) /\ UNCHANGED attemptVars
  \/ \E i \in Intents : \E s \in Starts(i) : Start(s)
  \/ \E s \in started : \E t \in Successes(s) \cup Failures(s) :
       RecordTerminal(t)
  \/ \E r \in Outcomes \cup OtherRecords :
       DeleteRecord(r) /\ UNCHANGED attemptVars

AttemptsSpec == AttemptsInit /\ [][AttemptsNext]_vars

-----------------------------------------------------------------------------
(* Types of the five tables. *)
Row ==
  [status : Statuses, attempt_count : Nat, available_at : Stamp,
   lease : Lease \cup {NULL}, updated_at : Nat,
   last_error_code : ErrorCodes \cup {NULL},
   outcome_id : Outcomes \cup OtherRecords \cup {NULL},
   last_attempt_id : Terminal \cup {NULL}]

TypeOK ==
  /\ outbox \in [Intents -> Row]
  /\ \A i \in Intents : outbox[i].status = "leased" => outbox[i].lease \in Lease
  /\ traces \subseteq Intents
  /\ records \subseteq Outcomes \cup OtherRecords
  /\ started \subseteq Started
  /\ terminal \subseteq Terminal

NumberOf(t) == t.supersedes.number
TerminalsOf(i) == {t \in terminal : t.supersedes.intent = i}

(***************************************************************************)
(* The evidence of one lease is one chain: at most one started record per  *)
(* lease of an intent, none before the lease was granted, the one of the   *)
(* current lease by its owner and inside its term, and at most one         *)
(* terminal record after it, not earlier than the start.                   *)
(***************************************************************************)
OneChainPerLease ==
  /\ \A s, q \in started :
       s.intent = q.intent /\ s.number = q.number => s = q
  /\ \A s \in started :
       LET row == outbox[s.intent]
       IN  /\ s.number \in 1..row.attempt_count
           /\ row.status = "leased" /\ s.number = row.attempt_count =>
                /\ s.worker = row.lease.owner
                /\ row.updated_at <= s.started_at
                /\ s.started_at < row.lease.expires_at
  /\ \A t, q \in terminal : t.supersedes = q.supersedes => t = q
  /\ \A t \in terminal : t.supersedes.started_at <= t.finished_at

(***************************************************************************)
(* No reference between the tables dangles although records are deleted,   *)
(* by force too: an intent has its trace, an ended attempt its start, and  *)
(* a success the outcome it reports, which is an Outcome.  Only the        *)
(* finalizer, which ties evidence and row together, keeps this.            *)
(***************************************************************************)
NothingDangles ==
  /\ \A i \in Intents : outbox[i].status # "absent" => i \in traces
  /\ \A t \in terminal :
       /\ t.supersedes \in started
       /\ t.status = "succeeded" => t.result \in records \cap Outcomes

(***************************************************************************)
(* A lease ends once and on the right side of its expiry: the holder       *)
(* settles it at an instant before expires_at, or another claim takes over *)
(* at or after that instant; and a settled row never changes again.        *)
(***************************************************************************)
LeaseDiscipline ==
  [][\A i \in Intents :
       LET row == outbox[i] new == outbox'[i]
       IN  row # new =>
             /\ row.status \notin {"completed", "failed"}
             /\ row.status = "leased" =>
                  IF new.status = "leased"
                  THEN new.updated_at >= row.lease.expires_at
                  ELSE new.updated_at < row.lease.expires_at]_vars

(***************************************************************************)
(* "Completion requires an existing outcome record": the outcome_id of a   *)
(* completed row is the id of an Outcome.                                  *)
(***************************************************************************)
CompletedByAnOutcome ==
  \A i \in Intents : outbox[i].status = "completed" => outbox[i].outcome_id \in Outcomes

=============================================================================
