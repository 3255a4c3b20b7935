-------------------------- MODULE ActionFinalizer ---------------------------
(***************************************************************************)
(* Atomic finalization (SQLiteActionFinalizer): the terminal evidence of   *)
(* an attempt and the transition of its outbox row in one transaction.     *)
(*                                                                         *)
(* Here the finalizer is the only way to end an attempt, as it is for the  *)
(* worker dispatcher.  Its callers are unconstrained otherwise: any        *)
(* request about any started attempt may arrive at any time, late, twice,  *)
(* or again after its answer was lost.                                     *)
(***************************************************************************)
EXTENDS ActionAttempts

CONSTANT
  Offsets       \* UTC offsets of the datetimes callers pass as finished_at

ASSUME FinalizerAssumption == Offsets \subseteq Int

FaultyLeaseCoversAnyHolder(t) ==
  LET row == outbox[t.supersedes.intent]
  IN  row.status = "leased" /\ row.lease.expires_at > t.finished_at

FaultyLeaseCoversExpired(t) ==
  LET row == outbox[t.supersedes.intent]
  IN  row.status = "leased" /\ row.lease.token = t.supersedes.lease_token

(* _require_live_lease *)
LeaseCovers(t) ==
  LET row == outbox[t.supersedes.intent]
  IN  /\ row.status = "leased"
      /\ row.lease.token = t.supersedes.lease_token
      /\ row.lease.owner = t.supersedes.worker
      /\ row.attempt_count = t.supersedes.number
      /\ row.lease.expires_at > t.finished_at

(* The row is exactly what finalizing t as this status left behind. *)
CommittedAs(t, status) ==
  LET row == outbox[t.supersedes.intent]
  IN  /\ t \in terminal
      /\ row.status = status
      /\ row.last_attempt_id = t
      /\ IF status = "completed" THEN row.outcome_id = t.result
                                 ELSE row.last_error_code = t.result

FaultyCommit(t, row) ==
  /\ t \notin terminal
  /\ LeaseCovers(t)
  /\ LegalTerminal(t)
  /\ outbox' = [outbox EXCEPT ![t.supersedes.intent] = row]
  /\ UNCHANGED <<traces, records, started, terminal>>

(* The terminal record and the new row, both or neither. *)
Commit(t, row) ==
  /\ t \notin terminal
  /\ LeaseCovers(t)
  /\ LegalTerminal(t)
  /\ terminal' = terminal \cup {t}
  /\ outbox' = [outbox EXCEPT ![t.supersedes.intent] = row]
  /\ UNCHANGED <<traces, records, started>>

(* What every finalized row has in common. *)
Released(t) ==
  [outbox[t.supersedes.intent] EXCEPT !.lease = NULL,
                                      !.last_attempt_id = t,
                                      !.updated_at = t.finished_at]

CompletedRow(t) ==
  [Released(t) EXCEPT !.status = "completed", !.outcome_id = t.result]

RetryRow(t, stamp) ==
  [Released(t) EXCEPT !.status = "pending", !.available_at = stamp,
                      !.last_error_code = t.result]

FailedRow(t) ==
  [Released(t) EXCEPT !.status = "failed", !.last_error_code = t.result]

(* complete *)
FinalizeSuccess(t) ==
  \/ CommittedAs(t, "completed") /\ UNCHANGED vars
  \/ Commit(t, CompletedRow(t))

(***************************************************************************)
(* fail with retry_at, which is first converted to the offset of           *)
(* finished_at; a repeated call must name the same retry stamp.            *)
(***************************************************************************)
RetryStamp(retry, offset) == [local |-> retry + offset, offset |-> offset]

FaultyFinalizeRetry(t, retry, offset) ==
  Commit(t, RetryRow(t, RetryStamp(retry, offset)))

FinalizeRetry(t, retry, offset) ==
  /\ retry >= t.finished_at
  /\ \/ /\ CommittedAs(t, "pending")
        /\ outbox[t.supersedes.intent].available_at = RetryStamp(retry, offset)
        /\ UNCHANGED vars
     \/ Commit(t, RetryRow(t, RetryStamp(retry, offset)))

(* fail without retry_at *)
FinalizeFailure(t) ==
  \/ CommittedAs(t, "failed") /\ UNCHANGED vars
  \/ Commit(t, FailedRow(t))

-----------------------------------------------------------------------------
FinalizerNext ==
  \/ OutboxStep /\ UNCHANGED attemptVars
  \/ \E r \in Outcomes \cup OtherRecords :
       DeleteRecord(r) /\ UNCHANGED attemptVars
  \/ \E i \in Intents : \E s \in Starts(i) : Start(s)
  \/ \E s \in started : \E t \in Successes(s) : FinalizeSuccess(t)
  \/ \E s \in started : \E t \in Failures(s) :
       \/ FinalizeFailure(t)
       \/ \E d \in RetryDelays, o \in Offsets :
            FinalizeRetry(t, t.finished_at + d, o)

FinalizerSpec == AttemptsInit /\ [][FinalizerNext]_vars

-----------------------------------------------------------------------------
(***************************************************************************)
(* The row and the evidence of an intent never tell different stories:     *)
(* whatever is interleaved, lost or repeated, a settled row names the      *)
(* terminal record of its newest lease, with the same verdict and result,  *)
(* and a leased row has no verdict on its current lease yet.               *)
(***************************************************************************)
EvidenceAgrees ==
  \A i \in Intents :
    LET row  == outbox[i]
        last == row.last_attempt_id
        SettledBy(verdict) ==
          /\ last \in TerminalsOf(i)
          /\ NumberOf(last) = row.attempt_count
          /\ last.status = verdict
    IN  /\ row.status = "absent" => row.attempt_count = 0
        /\ row.status = "pending" /\ row.attempt_count > 0 =>
             SettledBy("failed") /\ row.last_error_code = last.result
        /\ row.status = "failed" =>
             SettledBy("failed") /\ row.last_error_code = last.result
        /\ row.status = "completed" =>
             SettledBy("succeeded") /\ row.outcome_id = last.result
        /\ row.status = "leased" =>
             \A t \in TerminalsOf(i) : NumberOf(t) < row.attempt_count

(***************************************************************************)
(* A committed success is the last thing that ever happens to an intent:   *)
(* no later attempt, no second success, and a caller whose answer was lost *)
(* can repeat complete at any later time and be told it is finalized.      *)
(***************************************************************************)
SuccessIsFinal ==
  \A t \in terminal : t.status = "succeeded" =>
    /\ CommittedAs(t, "completed")
    /\ \A s \in started : s.intent = t.supersedes.intent => s.number <= NumberOf(t)

(***************************************************************************)
(* The attempts of an intent lie one after the other in recorded time,     *)
(* whatever the clocks of the workers read: attempt n was started, and     *)
(* ended if it ended, no later than attempt n + 1 was started.             *)
(***************************************************************************)
AttemptsInOrder ==
  /\ \A s, q \in started : s.intent = q.intent /\ s.number < q.number =>
       s.started_at <= q.started_at
  /\ \A t \in terminal, q \in started :
       t.supersedes.intent = q.intent /\ NumberOf(t) < q.number =>
         t.finished_at <= q.started_at

(***************************************************************************)
(* A retry becomes visible only when its time arrives: no claim takes a    *)
(* pending row at an instant before the one its available_at denotes.      *)
(***************************************************************************)
RetryNotVisibleEarly ==
  [][\A i \in Intents :
       outbox[i].status = "pending" /\ outbox'[i].status = "leased" =>
         outbox'[i].updated_at >= Instant(outbox[i].available_at)]_vars

(***************************************************************************)
(* The outbox with its evidence implements ActionDelivery.                 *)
(***************************************************************************)
PhaseOf(status) ==
  CASE status = "absent"    -> "none"
    [] status = "pending"   -> "ready"
    [] status = "leased"    -> "held"
    [] status = "completed" -> "done"
    [] OTHER                -> "dead"

Delivery == INSTANCE ActionDelivery WITH
  phase    <- [i \in Intents |-> PhaseOf(outbox[i].status)],
  epoch    <- [i \in Intents |-> outbox[i].attempt_count],
  verdicts <- {[intent |-> t.supersedes.intent, epoch |-> NumberOf(t),
                verdict |-> t.status] : t \in terminal}

ImplementsDelivery == Delivery!DeliverySpec

-----------------------------------------------------------------------------
(***************************************************************************)
(* The inductive strengthening of the invariants above.  What they lack is *)
(* where the next claim stands in recorded time: a lease has a positive    *)
(* term, everything recorded of earlier leases lies before the claim of    *)
(* the current one, and a pending row becomes visible only after it.       *)
(***************************************************************************)
LeaseHasTerm ==
  \A i \in Intents : outbox[i].status = "leased" =>
    outbox[i].updated_at < outbox[i].lease.expires_at

RecordedBy(i, n, now) ==
  /\ \A s \in started : s.intent = i /\ s.number <= n => s.started_at <= now
  /\ \A t \in TerminalsOf(i) : NumberOf(t) <= n => t.finished_at <= now

HistoryBehindClaim ==
  \A i \in Intents :
    LET row == outbox[i]
    IN  /\ row.status = "leased" => RecordedBy(i, row.attempt_count - 1, row.updated_at)
        /\ row.status = "pending" =>
             /\ row.available_at.offset = 0
             /\ RecordedBy(i, row.attempt_count, Instant(row.available_at))

OrderInv == AttemptsInOrder /\ HistoryBehindClaim

IInv ==
  /\ TypeOK
  /\ LeaseHasTerm
  /\ OneChainPerLease
  /\ NothingDangles
  /\ EvidenceAgrees
  /\ SuccessIsFinal
  /\ Offsets = {0} => OrderInv

=============================================================================
