--------------------------- MODULE ActionDelivery ---------------------------
(***************************************************************************)
(* What durable at-least-once delivery of an action promises, without      *)
(* rows, tokens, clocks or evidence records.  An intent is granted to one  *)
(* worker after another; each grant opens a new epoch; a verdict is only   *)
(* ever given on the current epoch, and a success is the last word.        *)
(***************************************************************************)
EXTENDS Integers

CONSTANT Intents

VARIABLES
  phase,        \* where each intent stands
  epoch,        \* how many grants it has had
  verdicts      \* every verdict given

deliveryVars == <<phase, epoch, verdicts>>

Phases == {"none", "ready", "held", "done", "dead"}

Verdict(i, s) == [intent |-> i, epoch |-> epoch[i], verdict |-> s]

DeliveryTypeOK ==
  /\ phase \in [Intents -> Phases]
  /\ epoch \in [Intents -> Nat]
  /\ verdicts \subseteq [intent : Intents, epoch : Nat,
                         verdict : {"succeeded", "failed"}]

DeliveryInit ==
  /\ phase = [i \in Intents |-> "none"]
  /\ epoch = [i \in Intents |-> 0]
  /\ verdicts = {}

Submit(i) ==
  /\ phase[i] = "none"
  /\ phase' = [phase EXCEPT ![i] = "ready"]
  /\ UNCHANGED <<epoch, verdicts>>

(* A held intent may be granted again: the holder was too late. *)
Grant(i) ==
  /\ phase[i] \in {"ready", "held"}
  /\ phase' = [phase EXCEPT ![i] = "held"]
  /\ epoch' = [epoch EXCEPT ![i] = @ + 1]
  /\ UNCHANGED verdicts

Judge(i, verdict, next) ==
  /\ phase[i] = "held"
  /\ phase' = [phase EXCEPT ![i] = next]
  /\ verdicts' = verdicts \cup {Verdict(i, verdict)}
  /\ UNCHANGED epoch

DeliveryNext ==
  \E i \in Intents :
    \/ Submit(i)
    \/ Grant(i)
    \/ Judge(i, "succeeded", "done")
    \/ Judge(i, "failed", "ready")
    \/ Judge(i, "failed", "dead")

DeliverySpec == DeliveryInit /\ [][DeliveryNext]_deliveryVars

-----------------------------------------------------------------------------
(***************************************************************************)
(* Every epoch has at most one verdict, a current holder's epoch has none  *)
(* yet, and a success is the verdict of the last epoch of a done intent:   *)
(* nothing is granted or judged after it.                                  *)
(***************************************************************************)
OneVerdictPerEpoch ==
  /\ \A v, w \in verdicts :
       v.intent = w.intent /\ v.epoch = w.epoch => v = w
  /\ \A v \in verdicts :
       /\ v.epoch <= epoch[v.intent]
       /\ phase[v.intent] = "held" => v.epoch < epoch[v.intent]
       /\ v.verdict = "succeeded" =>
            phase[v.intent] = "done" /\ v.epoch = epoch[v.intent]

=============================================================================
