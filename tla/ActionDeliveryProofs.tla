------------------------ MODULE ActionDeliveryProofs ------------------------
(* What ActionDelivery promises, proved for every set of intents. *)
EXTENDS ActionDelivery, TLAPS

DeliveryInv == DeliveryTypeOK /\ OneVerdictPerEpoch

(* Nothing was granted or judged at first. *)
LEMMA DeliveryInitInv == DeliveryInit => DeliveryInv
  BY DEF DeliveryInit, DeliveryInv, DeliveryTypeOK, OneVerdictPerEpoch, Phases

(* A submitted intent has no verdicts. *)
LEMMA SubmitInv ==
  ASSUME DeliveryInv, NEW i \in Intents, Submit(i)
  PROVE  DeliveryInv'
  <1>1. /\ phase' \in [Intents -> Phases]
        /\ phase'[i] = "ready" /\ phase[i] = "none"
        /\ \A j \in Intents : j # i => phase'[j] = phase[j]
        /\ epoch' = epoch /\ verdicts' = verdicts
    BY DEF Submit, DeliveryInv, DeliveryTypeOK, Phases
  <1>2. \A v \in verdicts : v.intent \in Intents
    BY DEF DeliveryInv, DeliveryTypeOK
  <1> QED
    BY <1>1, <1>2 DEF DeliveryInv, DeliveryTypeOK, OneVerdictPerEpoch

(* A grant opens an epoch that no verdict is about. *)
LEMMA GrantInv ==
  ASSUME DeliveryInv, NEW i \in Intents, Grant(i)
  PROVE  DeliveryInv'
  <1>1. /\ phase' \in [Intents -> Phases] /\ epoch' \in [Intents -> Nat]
        /\ phase'[i] = "held" /\ phase[i] \in {"ready", "held"}
        /\ epoch'[i] = epoch[i] + 1 /\ epoch[i] \in Nat
        /\ \A j \in Intents : j # i => phase'[j] = phase[j] /\ epoch'[j] = epoch[j]
        /\ verdicts' = verdicts
    BY DEF Grant, DeliveryInv, DeliveryTypeOK, Phases
  <1>2. \A v \in verdicts : v.intent \in Intents /\ v.epoch \in Nat
    BY DEF DeliveryInv, DeliveryTypeOK
  <1>3. DeliveryTypeOK'
    BY <1>1 DEF DeliveryInv, DeliveryTypeOK
  <1>4. ASSUME NEW v \in verdicts
        PROVE  /\ v.epoch <= epoch'[v.intent]
               /\ phase'[v.intent] = "held" => v.epoch < epoch'[v.intent]
               /\ v.verdict = "succeeded" =>
                    phase'[v.intent] = "done" /\ v.epoch = epoch'[v.intent]
    <2>1. CASE v.intent = i
      BY <1>1, <1>2, <2>1 DEF DeliveryInv, OneVerdictPerEpoch
    <2>2. CASE v.intent # i
      BY <1>1, <1>2, <2>2 DEF DeliveryInv, OneVerdictPerEpoch
    <2> QED
      BY <2>1, <2>2
  <1> QED
    BY <1>1, <1>3, <1>4 DEF DeliveryInv, OneVerdictPerEpoch

(* A verdict is the first on its epoch. *)
LEMMA JudgeInv ==
  ASSUME DeliveryInv, NEW i \in Intents, NEW s \in {"succeeded", "failed"},
         NEW next \in {"ready", "done", "dead"}, s = "succeeded" => next = "done",
         Judge(i, s, next)
  PROVE  DeliveryInv'
  <1>1. /\ phase' \in [Intents -> Phases]
        /\ phase'[i] = next /\ phase[i] = "held" /\ epoch[i] \in Nat
        /\ \A j \in Intents : j # i => phase'[j] = phase[j]
        /\ epoch' = epoch /\ verdicts' = verdicts \cup {Verdict(i, s)}
    BY DEF Judge, DeliveryInv, DeliveryTypeOK, Phases
  <1>2. \A v \in verdicts : v.intent \in Intents /\ v.epoch \in Nat
    BY DEF DeliveryInv, DeliveryTypeOK
  <1>3. DeliveryTypeOK'
    BY <1>1 DEF DeliveryInv, DeliveryTypeOK, Verdict
  <1>4. /\ Verdict(i, s).intent = i /\ Verdict(i, s).epoch = epoch[i]
        /\ Verdict(i, s).verdict = s
    BY DEF Verdict
  <1>5. \A v \in verdicts : v.intent = i => v.epoch < epoch[i] /\ v.verdict # "succeeded"
    BY <1>1 DEF DeliveryInv, OneVerdictPerEpoch
  <1>6. \A v, w \in verdicts' : v.intent = w.intent /\ v.epoch = w.epoch => v = w
    BY <1>1, <1>2, <1>4, <1>5 DEF DeliveryInv, OneVerdictPerEpoch
  <1>7. ASSUME NEW v \in verdicts'
        PROVE  /\ v.epoch <= epoch'[v.intent]
               /\ phase'[v.intent] = "held" => v.epoch < epoch'[v.intent]
               /\ v.verdict = "succeeded" =>
                    phase'[v.intent] = "done" /\ v.epoch = epoch'[v.intent]
    <2>1. CASE v = Verdict(i, s)
      BY <1>1, <1>4, <2>1
    <2>2. CASE v \in verdicts /\ v.intent = i
      BY <1>1, <1>2, <1>5, <2>2 DEF DeliveryInv, OneVerdictPerEpoch
    <2>3. CASE v \in verdicts /\ v.intent # i
      BY <1>1, <1>2, <2>3 DEF DeliveryInv, OneVerdictPerEpoch
    <2> QED
      BY <1>1, <2>1, <2>2, <2>3
  <1> QED
    BY <1>3, <1>6, <1>7 DEF DeliveryInv, OneVerdictPerEpoch

(***************************************************************************)
(* At-least-once delivery never gives two verdicts on one grant and never  *)
(* anything after a success: what the action outbox inherits from the      *)
(* specification it implements.                                            *)
(***************************************************************************)
THEOREM VerdictsAreUnique == DeliverySpec => []OneVerdictPerEpoch
  <1>1. DeliveryInv /\ [DeliveryNext]_deliveryVars => DeliveryInv'
    <2> SUFFICES ASSUME DeliveryInv, [DeliveryNext]_deliveryVars PROVE DeliveryInv'
      OBVIOUS
    <2>1. CASE UNCHANGED deliveryVars
      BY <2>1 DEF DeliveryInv, deliveryVars, DeliveryTypeOK, OneVerdictPerEpoch
    <2>2. CASE DeliveryNext
      BY <2>2, SubmitInv, GrantInv, JudgeInv DEF DeliveryNext
    <2> QED
      BY <2>1, <2>2
  <1>2. DeliveryInv => OneVerdictPerEpoch
    BY DEF DeliveryInv
  <1> QED
    BY <1>1, <1>2, DeliveryInitInv, PTL DEF DeliverySpec

=============================================================================
