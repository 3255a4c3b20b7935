------------------------- MODULE OrchestratorProofs -------------------------
(***************************************************************************)
(* Proofs about Orchestrator, for any processes, queries, policies and     *)
(* bounds, with crashes and other users of the trace store at any time:    *)
(* the runs use the store of AuthorizedView, so what a closed query finds  *)
(* stays (ClosedQueriesKeep); what a run holds, what it did and the traces *)
(* it leaves are tied together by the invariant RunsInv.                   *)
(***************************************************************************)
EXTENDS Orchestrator, AuthorizedViewProofs

(* A trace as build and attach_outcome make them. *)
IsTrace(t) ==
  /\ t = [query |-> t.query, policies |-> t.policies, memories |-> t.memories,
          proposal |-> t.proposal, outcome |-> t.outcome,
          supersedes |-> t.supersedes, version |-> t.version]
  /\ t.version \in Nat /\ t.version >= 1

IsInitial(t) == t = InitialTrace(t.query, t.policies, t.memories)

(* A first version follows none, with or without an outcome; a later one   *)
(* follows another that is kept, and has an outcome.                       *)
WellFounded(t) ==
  /\ IsTrace(t)
  /\ IF t.version = 1
     THEN t.supersedes = NULL
     ELSE /\ t.supersedes # NULL /\ t.supersedes \in traces
          /\ t.version = t.supersedes.version + 1
          /\ CapturedContext(t) = CapturedContext(t.supersedes)
          /\ t.outcome # NULL

(* A trace has one successor. *)
Unforked(t, u) == t.supersedes # NULL /\ t.supersedes = u.supersedes => t = u

TracesInv ==
  /\ \A t \in traces : WellFounded(t)
  /\ \A t, u \in traces : Unforked(t, u)

(* Policies and memories explain the decision, for ever if the query is    *)
(* about a past below the horizon of the time it was asked.                *)
Explained(t, asked) ==
  /\ t.query \in Queries /\ asked \in 0..Horizon
  /\ HasPotentialAllow(t.policies)
  /\ \A m \in t.memories : Allows(t.query, t.policies, m)
  /\ ClosedAt(t.query, asked) =>
       /\ t.policies = Rules(t.query)
       /\ t.memories = RestrictedView(t.query, t.policies).entries

Undone(p, t) == \A e \in executions : e.process = p => e.trace # t

DoneWith(p, t, o) ==
  \E e \in executions : e.process = p /\ e.trace = t /\ e.outcome = o

(* What a process holds, from authorize until its result. *)
RunHolds(p, s) ==
  \/ s.phase = "ended"
  \/ s.phase = "authorized" /\ s.query \in Queries /\ s.asked \in 0..Horizon /\ AuthorizedHolds(s)
  \/ /\ s.phase \in {"decided", "traced", "new", "persisted"}
     /\ s = [phase |-> s.phase, asked |-> s.asked, trace |-> s.trace]
     /\ IsInitial(s.trace) /\ Explained(s.trace, s.asked)
     /\ s.phase \in {"new", "persisted"} => Undone(p, s.trace)
     /\ s.phase \in {"traced", "persisted"} => s.trace \in traces
  \/ /\ s.phase \in {"executed", "saved"}
     /\ s = [phase |-> s.phase, trace |-> s.trace, outcome |-> s.outcome]
     /\ IsInitial(s.trace) /\ s.outcome \in Outcomes
     /\ DoneWith(p, s.trace, s.outcome)

ExecutionHolds(e) == e.trace \in traces /\ IsInitial(e.trace) /\ Explained(e.trace, e.asked)

RunsInv ==
  /\ HistoryInv
  /\ TracesInv
  /\ DOMAIN run = Processes
  /\ \A p \in Processes : RunHolds(p, run[p])
  /\ \A e \in executions : ExecutionHolds(e)
  /\ \A e, f \in executions : e.process = f.process /\ e.trace = f.trace => e = f

-----------------------------------------------------------------------------
LEMMA InitialFacts ==
  ASSUME NEW t, IsInitial(t)
  PROVE  IsTrace(t) /\ t.version = 1 /\ t.supersedes = NULL /\ t.outcome = NULL
BY DEF IsInitial, IsTrace, InitialTrace, FirstTrace

(* save of the trace store keeps the traces well founded and unforked. *)
LEMMA InsertKeepsTraces ==
  ASSUME TracesInv, NEW t, IsTrace(t), InsertTrace(t)
  PROVE  TracesInv' /\ traces \subseteq traces' /\ t \in traces'
<1>1. traces' = traces \cup {t}
  BY DEF InsertTrace
<1>2. CASE t \in traces
  <2>1. traces' = traces
    BY <1>1, <1>2
  <2> QED
    BY <1>2, <2>1 DEF TracesInv, WellFounded
<1>3. CASE t \notin traces
  <2>1. TraceReferencesPresent(t) /\ Supersedes(t) /\ FreshSuccessor(t)
    BY <1>3 DEF InsertTrace
  <2>2. ASSUME NEW u \in traces' PROVE WellFounded(u)'
    <3>1. CASE u \in traces
      BY <1>1, <3>1 DEF TracesInv, WellFounded
    <3>2. CASE u = t
      BY <1>1, <2>1, <3>2 DEF WellFounded, TraceReferencesPresent, Supersedes
    <3> QED
      BY <1>1, <3>1, <3>2
  <2>3. ASSUME NEW u \in traces PROVE Unforked(t, u) /\ Unforked(u, t)
    BY <2>1 DEF FreshSuccessor, Unforked
  <2>4. Unforked(t, t)
    BY DEF Unforked
  <2> QED
    BY <1>1, <2>2, <2>3, <2>4 DEF TracesInv
<1> QED
  BY <1>1, <1>2, <1>3

-----------------------------------------------------------------------------
(* What the store does explains no less. *)
LEMMA ExplainedKeeps ==
  ASSUME HistoryInv, [StoreNext]_vars, NEW t, NEW asked, Explained(t, asked)
  PROVE  Explained(t, asked)'
<1>1. (asked \in 0..Horizon)'
  BY HorizonAdvances DEF Explained, HistoryInv, ViewInv
<1>2. ASSUME ClosedAt(t.query, asked)
      PROVE  /\ t.policies = Rules(t.query)'
             /\ t.memories = (RestrictedView(t.query, t.policies).entries)'
  <2>1. t.query.known_at \in Nat /\ t.query.known_at < Horizon
    BY <1>2, AccessAssumption, HorizonAdvances DEF Explained, ClosedAt, HistoryInv, ViewInv
  <2>2. /\ Rules(t.query)' = Rules(t.query)
        /\ \A rules : (RestrictedView(t.query, rules).entries)'
                        = RestrictedView(t.query, rules).entries
    BY <2>1, ClosedQueriesKeep DEF HistoryInv
  <2>3. /\ t.policies = Rules(t.query)
        /\ t.memories = RestrictedView(t.query, t.policies).entries
    BY <1>2 DEF Explained
  <2> QED
    BY <2>2, <2>3
<1> QED
  BY <1>1, <1>2 DEF Explained

(***************************************************************************)
(* What a process holds stays right when the store moves, traces are added *)
(* and others act.                                                         *)
(***************************************************************************)
LEMMA HoldingKeeps ==
  ASSUME RunsInv, [StoreNext]_vars, NEW p, NEW s, RunHolds(p, s),
         traces \subseteq traces', executions \subseteq executions',
         \A e \in executions' : e \in executions \/ e.process # p
  PROVE  RunHolds(p, s)'
<1> USE DEF RunsInv
<1>1. CASE s.phase = "ended"
  BY <1>1 DEF RunHolds
<1>2. CASE s.phase = "authorized"
  <2>1. s.query \in Queries /\ s.asked \in 0..Horizon /\ AuthorizedHolds(s)
    BY <1>2 DEF RunHolds
  <2>2. ReaderHolds(s)'
    BY <2>1, ReaderKeeps DEF ReaderHolds
  <2> QED
    BY <1>2, <2>2 DEF ReaderHolds, AnswerHolds, Resting, RunHolds
<1>3. CASE s.phase \in {"decided", "traced", "new", "persisted"}
  <2>1. /\ s = [phase |-> s.phase, asked |-> s.asked, trace |-> s.trace]
        /\ IsInitial(s.trace) /\ Explained(s.trace, s.asked)
        /\ s.phase \in {"new", "persisted"} => Undone(p, s.trace)
        /\ s.phase \in {"traced", "persisted"} => s.trace \in traces
    BY <1>3 DEF RunHolds
  <2>2. Explained(s.trace, s.asked)'
    BY <2>1, ExplainedKeeps
  <2>3. Undone(p, s.trace) => Undone(p, s.trace)'
    BY DEF Undone
  <2> QED
    BY <1>3, <2>1, <2>2, <2>3 DEF RunHolds
<1>4. CASE s.phase \in {"executed", "saved"}
  BY <1>4 DEF RunHolds, DoneWith
<1> QED
  BY <1>1, <1>2, <1>3, <1>4 DEF RunHolds

LEMMA ExecutionsKeep ==
  ASSUME RunsInv, [StoreNext]_vars, traces \subseteq traces', NEW e, ExecutionHolds(e)
  PROVE  ExecutionHolds(e)'
BY ExplainedKeeps DEF ExecutionHolds, RunsInv

(* A step that moves no process, ... *)
LEMMA StillKeepsRuns ==
  ASSUME RunsInv, [StoreNext]_vars, UNCHANGED <<run, executions>>,
         TracesInv', traces \subseteq traces'
  PROVE  RunsInv'
<1>1. HistoryInv'
  BY NextHistoryInv DEF RunsInv
<1>2. ASSUME NEW p \in Processes PROVE RunHolds(p, run[p])'
  <2>1. PICK s : s = run[p]
    OBVIOUS
  <2>2. RunHolds(p, s)'
    BY <2>1, HoldingKeeps DEF RunsInv
  <2> QED
    BY <2>1, <2>2
<1>3. \A e \in executions' : ExecutionHolds(e)'
  BY ExecutionsKeep DEF RunsInv
<1> QED
  BY <1>1, <1>2, <1>3 DEF RunsInv

(* ... or one, to a state that it may hold. *)
LEMMA MoveKeepsRuns ==
  ASSUME RunsInv, [StoreNext]_vars, UNCHANGED executions,
         TracesInv', traces \subseteq traces',
         NEW p \in Processes, NEW s, MoveOn(p, s), RunHolds(p, s)'
  PROVE  RunsInv'
<1>1. HistoryInv'
  BY NextHistoryInv DEF RunsInv
<1>2. run' = [run EXCEPT ![p] = s]
  BY DEF MoveOn
<1>3. ASSUME NEW q \in Processes PROVE RunHolds(q, run[q])'
  <2>1. CASE q = p
    BY <1>2, <2>1 DEF RunsInv
  <2>2. CASE q # p
    <3>1. PICK x : x = run[q]
      OBVIOUS
    <3>2. RunHolds(q, x)'
      BY <3>1, HoldingKeeps DEF RunsInv
    <3> QED
      BY <1>2, <2>2, <3>1, <3>2 DEF RunsInv
  <2> QED
    BY <2>1, <2>2
<1>4. \A e \in executions' : ExecutionHolds(e)'
  BY ExecutionsKeep DEF RunsInv
<1> QED
  BY <1>1, <1>2, <1>3, <1>4 DEF RunsInv

(* Traces that are left alone. *)
LEMMA TracesStay ==
  ASSUME TracesInv, UNCHANGED traces
  PROVE  TracesInv' /\ traces \subseteq traces'
BY DEF TracesInv, WellFounded

-----------------------------------------------------------------------------
(* Every step is one of the access control and its store, or none of them. *)
LEMMA StepUsesAccess ==
  RunsInv /\ [OrchestratorNext]_orchestratorVars => [AccessNext]_viewVars
<1> SUFFICES ASSUME RunsInv, [OrchestratorNext]_orchestratorVars
             PROVE  [AccessNext]_viewVars
  OBVIOUS
<1> USE DEF viewVars, auditVars
<1>1. CASE StoreStep
  BY <1>1 DEF StoreStep, AccessNext
<1>2. ASSUME NEW p \in Processes, RunStep(p) PROVE [AccessNext]_viewVars
  <2>1. p \in Clients /\ client \in [Clients -> Operations]
    BY OrchestratorAssumption DEF RunsInv, HistoryInv, ViewInv, StoreInv, StoreTypeOK
  <2>2. CASE CheckOutcome(p)
    <3>1. run[p].outcome \in Records
      BY <2>2, OrchestratorAssumption DEF CheckOutcome, RunsInv, RunHolds
    <3> QED
      BY <2>1, <2>2, <3>1 DEF CheckOutcome, RecordStep, AccessNext
  <2>3. CASE SaveOutcome(p)
    BY <2>1, <2>3 DEF SaveOutcome, RecordStep, AccessNext
  <2>4. CASE Abandon(p)
    <3>1. CASE client[p] = Idle
      <4>1. client' = client
        BY <2>1, <2>4, <3>1 DEF Abandon
      <4> QED
        BY <2>4, <4>1 DEF Abandon, memoryVars, tables, timeVars
    <3>2. CASE client[p] # Idle
      <4>1. GiveUp(p)
        BY <2>4, <3>2 DEF Abandon, GiveUp
      <4> QED
        BY <2>1, <2>4, <4>1 DEF Abandon, RecordStep, AccessNext
    <3> QED
      BY <3>1, <3>2
  <2> QED
    BY <1>2, <2>2, <2>3, <2>4
    DEF RunStep, BeginRun, ProjectAndDecide, AskWhetherTraced, SaveInitialTrace,
        Execute, SaveOutcomeTrace, vars
<1>3. CASE UNCHANGED orchestratorVars
  BY <1>3 DEF orchestratorVars
<1>4. ASSUME NEW t, NEW a, NEW o, SaveByHand(t, a, o) PROVE [AccessNext]_viewVars
  BY <1>4 DEF SaveByHand, vars
<1>5. ASSUME NEW q, NEW c, NEW o, SaveFirstByHand(q, c, o) PROVE [AccessNext]_viewVars
  BY <1>5 DEF SaveFirstByHand, vars
<1> QED
  BY <1>1, <1>2, <1>3, <1>4, <1>5 DEF OrchestratorNext

(* authorize *)
LEMMA BeginKeepsRuns ==
  ASSUME RunsInv, NEW p \in Processes, NEW q \in Queries, BeginRun(p, q)
  PROVE  RunsInv'
<1>1. PICK s : s = IF HasPotentialAllow(Rules(q))
                   THEN [phase |-> "authorized", query |-> q, rules |-> Rules(q),
                         asked |-> Horizon]
                   ELSE Ended("denied")
  OBVIOUS
<1>2. UNCHANGED <<vars, traces, executions>> /\ MoveOn(p, s)
  BY <1>1 DEF BeginRun, auditVars
<1>3. Horizon \in 0..Horizon
  BY <1>2, HorizonAdvances DEF RunsInv, HistoryInv, ViewInv
<1>4. RunHolds(p, s)
  BY <1>1, <1>3 DEF RunHolds, AuthorizedHolds, Authorized, Ended
<1>5. RunHolds(p, s)'
  BY <1>2, <1>4, HoldingKeeps
<1> QED
  BY <1>2, <1>5, MoveKeepsRuns, TracesStay DEF RunsInv

(* project, decide, build *)
LEMMA DecideKeepsRuns ==
  ASSUME RunsInv, NEW p \in Processes, ProjectAndDecide(p)
  PROVE  RunsInv'
<1>1. PICK q, rules, asked, entries :
        /\ q = run[p].query /\ rules = run[p].rules /\ asked = run[p].asked
        /\ entries = RestrictedView(q, rules).entries
  OBVIOUS
<1>2. /\ q \in Queries /\ asked \in 0..Horizon /\ HasPotentialAllow(rules)
      /\ ClosedAt(q, asked) => rules = Rules(q)
  BY <1>1 DEF ProjectAndDecide, RunsInv, RunHolds, AuthorizedHolds
<1>3. PICK s : /\ s = Ended("no_authorized_context") \/
                  s = [phase |-> "decided", asked |-> asked,
                       trace |-> InitialTrace(q, rules, entries)]
               /\ MoveOn(p, s)
  BY <1>1 DEF ProjectAndDecide
<1>4. UNCHANGED <<vars, traces, executions>>
  BY DEF ProjectAndDecide, auditVars
<1>5. \A m \in entries : Allows(q, rules, m)
  BY <1>1, ShownIsAllowed DEF Shown
<1>6. RunHolds(p, s)
  <2>1. CASE s = Ended("no_authorized_context")
    BY <2>1 DEF RunHolds, Ended
  <2>2. CASE s # Ended("no_authorized_context")
    <3> DEFINE t == InitialTrace(q, rules, entries)
    <3>1. t.query = q /\ t.policies = rules /\ t.memories = entries
      BY DEF InitialTrace, FirstTrace
    <3>2. IsInitial(t) /\ Explained(t, asked)
      BY <1>1, <1>2, <1>5, <3>1 DEF IsInitial, Explained
    <3> HIDE DEF t
    <3> QED
      BY <1>3, <2>2, <3>2 DEF RunHolds, t
  <2> QED
    BY <2>1, <2>2
<1>7. RunHolds(p, s)'
  BY <1>4, <1>6, HoldingKeeps
<1> QED
  BY <1>3, <1>4, <1>7, MoveKeepsRuns, TracesStay DEF RunsInv

(* exists: what is not in the store was never executed. *)
LEMMA AskKeepsRuns ==
  ASSUME RunsInv, NEW p \in Processes, AskWhetherTraced(p)
  PROVE  RunsInv'
<1>1. PICK s : s = [run[p] EXCEPT !.phase = IF run[p].trace \in traces THEN "traced" ELSE "new"]
  OBVIOUS
<1>2. UNCHANGED <<vars, traces, executions>> /\ MoveOn(p, s)
  BY <1>1 DEF AskWhetherTraced, auditVars
<1>3. /\ run[p] = [phase |-> "decided", asked |-> run[p].asked, trace |-> run[p].trace]
      /\ IsInitial(run[p].trace) /\ Explained(run[p].trace, run[p].asked)
  BY DEF AskWhetherTraced, RunsInv, RunHolds
<1>4. s = [phase |-> IF run[p].trace \in traces THEN "traced" ELSE "new",
           asked |-> run[p].asked, trace |-> run[p].trace]
  BY <1>1, <1>3
<1>5. run[p].trace \notin traces => Undone(p, run[p].trace)
  BY DEF RunsInv, ExecutionHolds, Undone
<1>6. RunHolds(p, s)
  BY <1>3, <1>4, <1>5 DEF RunHolds
<1>7. RunHolds(p, s)'
  BY <1>2, <1>6, HoldingKeeps
<1> QED
  BY <1>2, <1>7, MoveKeepsRuns, TracesStay DEF RunsInv

(* save of trace v1 *)
LEMMA SaveKeepsRuns ==
  ASSUME RunsInv, NEW p \in Processes, SaveInitialTrace(p)
  PROVE  RunsInv'
<1>1. PICK t, asked : t = run[p].trace /\ asked = run[p].asked
  OBVIOUS
<1>2. /\ run[p] = [phase |-> run[p].phase, asked |-> asked, trace |-> t]
      /\ IsInitial(t) /\ Explained(t, asked)
      /\ run[p].phase = "new" => Undone(p, t)
  BY <1>1 DEF SaveInitialTrace, RunsInv, RunHolds
<1>3. TracesInv' /\ traces \subseteq traces' /\ t \in traces'
  BY <1>1, <1>2, InitialFacts, InsertKeepsTraces DEF SaveInitialTrace, RunsInv
<1>4. UNCHANGED <<vars, executions>>
  BY DEF SaveInitialTrace
<1>5. PICK s : /\ MoveOn(p, s)
               /\ s.phase = "ended" \/
                  (Undone(p, t) /\ s = [phase |-> "persisted", asked |-> asked, trace |-> t])
  BY <1>1, <1>2 DEF SaveInitialTrace, Ended
<1>6. Explained(t, asked)'
  BY <1>2, <1>4, ExplainedKeeps DEF RunsInv
<1>7. Undone(p, t) => Undone(p, t)'
  BY <1>4 DEF Undone
<1>8. RunHolds(p, s)'
  BY <1>2, <1>3, <1>5, <1>6, <1>7 DEF RunHolds
<1> QED
  BY <1>3, <1>4, <1>5, <1>8, MoveKeepsRuns

(* execute: what was undone is done, once. *)
LEMMA ExecuteKeepsRuns ==
  ASSUME RunsInv, NEW p \in Processes, NEW o \in Outcomes \cup {NULL}, Execute(p, o)
  PROVE  RunsInv'
<1>1. PICK t, asked : t = run[p].trace /\ asked = run[p].asked
  OBVIOUS
<1>2. IsInitial(t) /\ Explained(t, asked) /\ Undone(p, t) /\ t \in traces
  BY <1>1 DEF Execute, RunsInv, RunHolds
<1>3. PICK e : /\ executions' = executions \cup {e}
               /\ e.process = p /\ e.trace = t /\ e.outcome = o /\ e.asked = asked
  <2> DEFINE e == [process |-> p, trace |-> t, outcome |-> o, asked |-> asked,
                   number |-> TimesExecuted(p, t) + 1]
  <2>1. executions' = executions \cup {e}
    BY <1>1 DEF Execute
  <2>2. e.process = p /\ e.trace = t /\ e.outcome = o /\ e.asked = asked
    OBVIOUS
  <2> HIDE DEF e
  <2> QED
    BY <2>1, <2>2
<1>4. PICK s : /\ MoveOn(p, s)
               /\ s = IF o = NULL THEN Ended("action_completed")
                      ELSE [phase |-> "executed", trace |-> t, outcome |-> o]
  BY <1>1 DEF Execute
<1>5. UNCHANGED <<vars, traces>>
  BY DEF Execute
<1>6. HistoryInv' /\ TracesInv'
  BY <1>5, NextHistoryInv, TracesStay DEF RunsInv
<1>7. RunHolds(p, s)'
  BY <1>2, <1>3, <1>4 DEF RunHolds, DoneWith, Ended
<1>8. run' = [run EXCEPT ![p] = s]
  BY <1>4 DEF MoveOn
<1>9. ASSUME NEW q \in Processes PROVE RunHolds(q, run[q])'
  <2>1. CASE q = p
    BY <1>7, <1>8, <2>1 DEF RunsInv
  <2>2. CASE q # p
    <3>1. PICK x : x = run[q]
      OBVIOUS
    <3>2. RunHolds(q, x)'
      BY <1>3, <1>5, <2>2, <3>1, HoldingKeeps DEF RunsInv
    <3> QED
      BY <1>8, <2>2, <3>1, <3>2 DEF RunsInv
  <2> QED
    BY <2>1, <2>2
<1>10. \A x \in executions : ExecutionHolds(x)'
  BY <1>5, ExecutionsKeep DEF RunsInv
<1>11. ExecutionHolds(e)'
  <2>1. ExecutionHolds(e)
    BY <1>2, <1>3 DEF ExecutionHolds
  <2> QED
    BY <1>5, <2>1, ExecutionsKeep
<1>12. \A x, y \in executions' : x.process = y.process /\ x.trace = y.trace => x = y
  BY <1>2, <1>3 DEF RunsInv, Undone
<1> QED
  BY <1>3, <1>6, <1>8, <1>9, <1>10, <1>11, <1>12 DEF RunsInv

(* save of the outcome: the check moves nobody, the insert moves p. *)
LEMMA OutcomeKeepsRuns ==
  ASSUME RunsInv, [StoreNext]_vars, NEW p \in Processes, CheckOutcome(p) \/ SaveOutcome(p)
  PROVE  RunsInv'
<1>1. CASE CheckOutcome(p)
  BY <1>1, StillKeepsRuns, TracesStay DEF CheckOutcome, auditVars, RunsInv
<1>2. CASE SaveOutcome(p)
  <2>1. PICK s : s = [run[p] EXCEPT !.phase = "saved"]
    OBVIOUS
  <2>2. UNCHANGED <<traces, executions>> /\ MoveOn(p, s)
    BY <1>2, <2>1 DEF SaveOutcome, auditVars
  <2>3. /\ run[p] = [phase |-> "executed", trace |-> run[p].trace, outcome |-> run[p].outcome]
        /\ IsInitial(run[p].trace) /\ run[p].outcome \in Outcomes
        /\ DoneWith(p, run[p].trace, run[p].outcome)
    BY <1>2 DEF SaveOutcome, RunsInv, RunHolds
  <2>4. s = [phase |-> "saved", trace |-> run[p].trace, outcome |-> run[p].outcome]
    BY <2>1, <2>3
  <2>5. RunHolds(p, s)
    BY <2>3, <2>4 DEF RunHolds
  <2>6. RunHolds(p, s)'
    BY <2>2, <2>5, HoldingKeeps
  <2> QED
    BY <2>2, <2>6, MoveKeepsRuns, TracesStay DEF RunsInv
<1> QED
  BY <1>1, <1>2

(* What attach_outcome makes of a trace. *)
LEMMA AttachFacts ==
  ASSUME NEW t, IsTrace(t), NEW a, NEW o
  PROVE  /\ IsTrace(AttachOutcome(t, o))
         /\ IsTrace([AttachOutcome(t, o) EXCEPT !.proposal = a])
<1>1. AttachOutcome(t, o) =
        [query |-> t.query, policies |-> t.policies, memories |-> t.memories,
         proposal |-> t.proposal, outcome |-> o, supersedes |-> t,
         version |-> t.version + 1]
  <2>1. PICK q, rules, ms, a0, o0, prior, n :
          t = [query |-> q, policies |-> rules, memories |-> ms, proposal |-> a0,
               outcome |-> o0, supersedes |-> prior, version |-> n]
    BY DEF IsTrace
  <2>2. PICK u : u = t
    OBVIOUS
  <2>3. [t EXCEPT !.outcome = o, !.supersedes = u, !.version = n + 1] =
          [query |-> q, policies |-> rules, memories |-> ms, proposal |-> a0,
           outcome |-> o, supersedes |-> u, version |-> n + 1]
    <3>1. PICK v : v = [t EXCEPT !.outcome = o]
      OBVIOUS
    <3>2. PICK w : w = [v EXCEPT !.supersedes = u]
      OBVIOUS
    <3>3. v = [query |-> q, policies |-> rules, memories |-> ms, proposal |-> a0,
               outcome |-> o, supersedes |-> prior, version |-> n]
      BY <2>1, <3>1
    <3>4. w = [query |-> q, policies |-> rules, memories |-> ms, proposal |-> a0,
               outcome |-> o, supersedes |-> u, version |-> n]
      BY <3>2, <3>3
    <3>5. [w EXCEPT !.version = n + 1] =
            [query |-> q, policies |-> rules, memories |-> ms, proposal |-> a0,
             outcome |-> o, supersedes |-> u, version |-> n + 1]
      BY <3>4
    <3> QED
      BY <3>1, <3>2, <3>5, Zenon
  <2>4. /\ t.query = q /\ t.policies = rules /\ t.memories = ms
        /\ t.proposal = a0 /\ t.version = n
    BY <2>1
  <2> QED
    BY <2>2, <2>3, <2>4 DEF AttachOutcome
<1>2. [AttachOutcome(t, o) EXCEPT !.proposal = a] =
        [query |-> t.query, policies |-> t.policies, memories |-> t.memories,
         proposal |-> a, outcome |-> o, supersedes |-> t,
         version |-> t.version + 1]
  BY <1>1
<1>3. t.version \in Nat /\ t.version >= 1
  BY DEF IsTrace
<1> QED
  BY <1>1, <1>2, <1>3 DEF IsTrace

(* attach_outcome and save of trace v2, by the run or by anybody. *)
LEMMA AttachKeepsRuns ==
  ASSUME RunsInv, NEW p \in Processes, SaveOutcomeTrace(p)
  PROVE  RunsInv'
<1>1. PICK t : t = AttachOutcome(run[p].trace, run[p].outcome)
  OBVIOUS
<1>2. IsTrace(run[p].trace)
  BY InitialFacts DEF SaveOutcomeTrace, RunsInv, RunHolds
<1>3. IsTrace(t)
  BY <1>1, <1>2, AttachFacts
<1>4. TracesInv' /\ traces \subseteq traces'
  BY <1>1, <1>3, InsertKeepsTraces DEF SaveOutcomeTrace, RunsInv
<1>5. PICK s : s = Ended("outcome_traced") /\ MoveOn(p, s)
  BY DEF SaveOutcomeTrace
<1>6. RunHolds(p, s)'
  BY <1>5 DEF RunHolds, Ended
<1> QED
  BY <1>4, <1>5, <1>6, MoveKeepsRuns DEF SaveOutcomeTrace

LEMMA ByHandKeepsRuns ==
  ASSUME RunsInv, NEW t \in traces, NEW a, NEW o, SaveByHand(t, a, o)
  PROVE  RunsInv'
<1>1. PICK u : u = [AttachOutcome(t, o) EXCEPT !.proposal = a]
  OBVIOUS
<1>2. IsTrace(u)
  BY <1>1, AttachFacts DEF RunsInv, TracesInv, WellFounded
<1>3. TracesInv' /\ traces \subseteq traces'
  BY <1>1, <1>2, InsertKeepsTraces DEF SaveByHand, RunsInv
<1> QED
  BY <1>3, StillKeepsRuns DEF SaveByHand

(* build and save of a first version, by anybody. *)
LEMMA FirstByHandKeepsRuns ==
  ASSUME RunsInv, NEW q, NEW c, NEW o, SaveFirstByHand(q, c, o)
  PROVE  RunsInv'
<1>1. PICK t : t = FirstTrace(q, c.policies, c.memories, c.proposal, o)
  OBVIOUS
<1>2. IsTrace(t)
  BY <1>1 DEF FirstTrace, IsTrace
<1>3. TracesInv' /\ traces \subseteq traces'
  BY <1>1, <1>2, InsertKeepsTraces DEF SaveFirstByHand, RunsInv
<1> QED
  BY <1>3, StillKeepsRuns DEF SaveFirstByHand

LEMMA AbandonKeepsRuns ==
  ASSUME RunsInv, [StoreNext]_vars, NEW p \in Processes, Abandon(p)
  PROVE  RunsInv'
<1>1. PICK s : s = Ended("none") /\ MoveOn(p, s)
  BY DEF Abandon
<1>2. RunHolds(p, s)'
  BY <1>1 DEF RunHolds, Ended
<1> QED
  BY <1>1, <1>2, MoveKeepsRuns, TracesStay DEF Abandon, auditVars, RunsInv

LEMMA InitRunsInv == OrchestratorInit => RunsInv
<1> SUFFICES ASSUME OrchestratorInit PROVE RunsInv
  OBVIOUS
<1>1. HistoryInv
  BY InitAccessInv DEF OrchestratorInit, AccessInv
<1> QED
  BY <1>1 DEF OrchestratorInit, RunsInv, TracesInv, RunHolds, Ended

LEMMA NextRunsInv == RunsInv /\ [OrchestratorNext]_orchestratorVars => RunsInv'
<1> SUFFICES ASSUME RunsInv, [OrchestratorNext]_orchestratorVars PROVE RunsInv'
  OBVIOUS
<1>1. [StoreNext]_vars
  BY StepUsesAccess, AccessUsesStore
<1>2. CASE StoreStep \/ UNCHANGED orchestratorVars
  BY <1>1, <1>2, StillKeepsRuns, TracesStay
  DEF StoreStep, auditVars, orchestratorVars, RunsInv
<1>3. ASSUME NEW p \in Processes, RunStep(p) PROVE RunsInv'
  BY <1>1, <1>3, BeginKeepsRuns, DecideKeepsRuns, AskKeepsRuns, SaveKeepsRuns,
     ExecuteKeepsRuns, OutcomeKeepsRuns, AttachKeepsRuns, AbandonKeepsRuns
  DEF RunStep
<1> QED
  BY <1>2, <1>3, ByHandKeepsRuns, FirstByHandKeepsRuns DEF OrchestratorNext

-----------------------------------------------------------------------------
(***************************************************************************)
(* Policies and memories that a run holds explain its trace, a trace that  *)
(* is new was not executed, and traces form lines: the inductive invariant *)
(* of the orchestrator, with crashes and other callers at any step.        *)
(***************************************************************************)
THEOREM RunsInvariant == OrchestratorSpec => []RunsInv
<1> QED
  BY InitRunsInv, NextRunsInv, PTL DEF OrchestratorSpec

(* Runs only use the restricted reads and the store below them.            *)
THEOREM OrchestratorImplementsAccess == OrchestratorSpec => AccessSpec
<1>1. OrchestratorInit => AccessInit
  BY DEF OrchestratorInit
<1> QED
  BY <1>1, RunsInvariant, StepUsesAccess, PTL DEF OrchestratorSpec, AccessSpec

(***************************************************************************)
(* The account of a decision is a line: whoever attaches outcomes, at once *)
(* or again, and whoever builds first versions, with an outcome or not, no *)
(* trace gets two successors, and none alters what its line captured.      *)
(***************************************************************************)
THEOREM AccountsStayLines == OrchestratorSpec => []AccountsAreLines
<1>1. ASSUME RunsInv, NEW t \in traces
      PROVE  IF t.version = 1
             THEN t.supersedes = NULL
             ELSE /\ t.supersedes \in traces
                  /\ t.supersedes.version = t.version - 1
                  /\ CapturedContext(t.supersedes) = CapturedContext(t)
                  /\ t.outcome # NULL
  <2>1. CASE t.version = 1
    BY <1>1, <2>1 DEF RunsInv, TracesInv, WellFounded
  <2>2. CASE t.version # 1
    <3>1. PICK u \in traces : /\ t.supersedes = u /\ t.version = u.version + 1
                              /\ CapturedContext(t) = CapturedContext(u)
                              /\ t.outcome # NULL
      BY <1>1, <2>2 DEF RunsInv, TracesInv, WellFounded
    <3>2. u.version \in Nat
      BY <1>1 DEF RunsInv, TracesInv, WellFounded, IsTrace
    <3> QED
      BY <2>2, <3>1, <3>2
  <2> QED
    BY <2>1, <2>2
<1>2. ASSUME RunsInv, NEW t \in traces, NEW u \in traces, t # u, t.version # 1
      PROVE  t.supersedes # u.supersedes
  BY <1>2 DEF RunsInv, TracesInv, WellFounded, Unforked
<1>3. RunsInv => AccountsAreLines
  BY <1>1, <1>2 DEF AccountsAreLines
<1> QED
  BY <1>3, RunsInvariant, PTL

(***************************************************************************)
(* What was done has its trace, whose policies allowed every memory that   *)
(* it was decided on; about a closed past, an audit finds the very same.   *)
(***************************************************************************)
THEOREM ActionsStayExplained == OrchestratorSpec => []ActionsAreExplained
<1>1. ASSUME RunsInv, NEW e \in executions
      PROVE  e.trace \in traces /\ Explained(e.trace, e.asked)
  BY <1>1 DEF RunsInv, ExecutionHolds
<1>2. RunsInv => ActionsAreExplained
  BY <1>1 DEF ActionsAreExplained, Explained, ClosedAt
<1> QED
  BY <1>2, RunsInvariant, PTL

(***************************************************************************)
(* A process that retries a request does not act on it twice: the trace of *)
(* a request about a closed past is always the same, and a trace is        *)
(* executed by the one that made it new.                                   *)
(***************************************************************************)
THEOREM RetriesAreIdempotent == OrchestratorSpec => []RetriesExecuteOnce
<1>1. ASSUME RunsInv, NEW e \in executions, NEW f \in executions,
             e.trace.query = f.trace.query,
             ClosedAt(e.trace.query, e.asked), ClosedAt(f.trace.query, f.asked)
      PROVE  e.trace = f.trace
  <2>1. PICK t, u : t = e.trace /\ u = f.trace
    OBVIOUS
  <2>2. /\ IsInitial(t) /\ Explained(t, e.asked)
        /\ IsInitial(u) /\ Explained(u, f.asked)
    BY <1>1, <2>1 DEF RunsInv, ExecutionHolds
  <2>3. t.query = u.query /\ t.policies = u.policies
    BY <1>1, <2>1, <2>2 DEF Explained
  <2>4. t.memories = u.memories
    BY <1>1, <2>1, <2>2, <2>3 DEF Explained
  <2> QED
    BY <2>1, <2>2, <2>3, <2>4 DEF IsInitial
<1>2. ASSUME RunsInv, NEW e \in executions, NEW f \in executions,
             e.process = f.process, e.trace = f.trace
      PROVE  e = f
  BY <1>2 DEF RunsInv
<1>3. RunsInv => RetriesExecuteOnce
  BY <1>1, <1>2 DEF RetriesExecuteOnce, ClosedAt
<1> QED
  BY <1>3, RunsInvariant, PTL

(* Traces are only added. *)
LEMMA TracesGrow ==
  [OrchestratorNext]_orchestratorVars => traces \subseteq traces'
BY DEF OrchestratorNext, StoreStep, RunStep, BeginRun, ProjectAndDecide,
       AskWhetherTraced, SaveInitialTrace, Execute, CheckOutcome, SaveOutcome,
       SaveOutcomeTrace, Abandon, SaveByHand, SaveFirstByHand, InsertTrace, auditVars, orchestratorVars

(* A run is ended by its process, and its status tells what was done. *)
LEMMA EndingsAreTrue ==
  ASSUME RunsInv, OrchestratorNext, NEW p \in Processes,
         run[p].phase # "ended", run'[p].phase = "ended"
  PROVE  LET status == run'[p].status
             Acted(o) == \E e \in executions' :
               e.process = p /\ e.trace = run[p].trace /\ e.outcome = o
         IN  /\ status \in {"already_traced", "trace_persisted"} =>
                  run[p].trace \in traces'
             /\ status = "action_completed" => Acted(NULL)
             /\ status = "outcome_traced" =>
                  /\ Acted(run[p].outcome)
                  /\ AttachOutcome(run[p].trace, run[p].outcome) \in traces'
<1> DEFINE status == run'[p].status
           Acted(o) == \E e \in executions' :
             e.process = p /\ e.trace = run[p].trace /\ e.outcome = o
<1>1. ASSUME NEW r \in Processes, NEW s, MoveOn(r, s)
      PROVE  /\ r = p => run'[p] = s
             /\ r # p => run'[p] = run[p]
  BY <1>1 DEF MoveOn, RunsInv
<1>2. RunStep(p)
  <2>1. ~StoreStep
    BY DEF StoreStep
  <2>2. ASSUME NEW r \in Processes, RunStep(r) PROVE r = p
    <3>1. UNCHANGED run \/ \E s : MoveOn(r, s)
      BY <2>2 DEF RunStep, BeginRun, ProjectAndDecide, AskWhetherTraced, SaveInitialTrace,
                  Execute, CheckOutcome, SaveOutcome, SaveOutcomeTrace, Abandon
    <3> QED
      BY <1>1, <3>1
  <2>3. ASSUME NEW t, NEW a, NEW o PROVE ~SaveByHand(t, a, o)
    BY DEF SaveByHand
  <2>4. ASSUME NEW q, NEW c, NEW o PROVE ~SaveFirstByHand(q, c, o)
    BY DEF SaveFirstByHand
  <2> QED
    BY <2>1, <2>2, <2>3, <2>4 DEF OrchestratorNext
<1>3. CASE SaveInitialTrace(p)
  <2>1. run[p].trace \in traces'
    BY <1>3 DEF SaveInitialTrace, InsertTrace
  <2>2. PICK x : x = [run[p] EXCEPT !.phase = "persisted"]
    OBVIOUS
  <2>3. PICK s : /\ MoveOn(p, s)
                 /\ s \in {Ended("already_traced"), Ended("trace_persisted"), x}
    BY <1>3, <2>2 DEF SaveInitialTrace
  <2>4. status \in {"already_traced", "trace_persisted"}
    <3>1. run[p] = [phase |-> run[p].phase, asked |-> run[p].asked, trace |-> run[p].trace]
      BY <1>3 DEF SaveInitialTrace, RunsInv, RunHolds
    <3>2. run'[p] = s
      BY <1>1, <2>3
    <3>3. x.phase = "persisted"
      BY <2>2, <3>1
    <3>4. s # x
      BY <3>2, <3>3
    <3> QED
      BY <2>3, <3>2, <3>4 DEF Ended
  <2> QED
    BY <2>1, <2>4
<1>4. CASE \E o \in Outcomes \cup {NULL} : Execute(p, o)
  <2>1. PICK o \in Outcomes \cup {NULL} : Execute(p, o)
    BY <1>4
  <2>2. o = NULL /\ status = "action_completed"
    BY <1>1, <2>1 DEF Execute, Ended
  <2>3. Acted(o)
    <3> DEFINE e == [process |-> p, trace |-> run[p].trace, outcome |-> o,
                     asked |-> run[p].asked,
                     number |-> TimesExecuted(p, run[p].trace) + 1]
    <3>1. e \in executions'
      BY <2>1 DEF Execute
    <3> QED
      BY <3>1
  <2> QED
    BY <2>2, <2>3
<1>5. CASE SaveOutcomeTrace(p)
  <2>1. status = "outcome_traced"
    BY <1>1, <1>5 DEF SaveOutcomeTrace, Ended
  <2>2. Acted(run[p].outcome)
    BY <1>5 DEF SaveOutcomeTrace, RunsInv, RunHolds, DoneWith
  <2>3. AttachOutcome(run[p].trace, run[p].outcome) \in traces'
    BY <1>5 DEF SaveOutcomeTrace, InsertTrace
  <2> QED
    BY <2>1, <2>2, <2>3
<1>6. CASE ProjectAndDecide(p) \/ Abandon(p)
  <2>1. status \in {"no_authorized_context", "none"}
    BY <1>1, <1>6 DEF ProjectAndDecide, Abandon, Ended
  <2> QED
    BY <2>1
<1>7. ~AskWhetherTraced(p) /\ ~SaveOutcome(p) /\ ~CheckOutcome(p)
      /\ \A q \in Queries : ~BeginRun(p, q)
  <2>1. ~AskWhetherTraced(p)
    <3>1. AskWhetherTraced(p) =>
            run[p] = [phase |-> "decided", asked |-> run[p].asked, trace |-> run[p].trace]
      BY DEF AskWhetherTraced, RunsInv, RunHolds
    <3> QED
      BY <1>1, <3>1 DEF AskWhetherTraced
  <2>2. ~SaveOutcome(p)
    <3>1. SaveOutcome(p) =>
            run[p] = [phase |-> "executed", trace |-> run[p].trace, outcome |-> run[p].outcome]
      BY DEF SaveOutcome, RunsInv, RunHolds
    <3> QED
      BY <1>1, <3>1 DEF SaveOutcome
  <2>3. ~CheckOutcome(p) /\ \A q \in Queries : ~BeginRun(p, q)
    BY DEF CheckOutcome, BeginRun
  <2> QED
    BY <2>1, <2>2, <2>3
<1> QED
  BY <1>2, <1>3, <1>4, <1>5, <1>6, <1>7 DEF RunStep

(***************************************************************************)
(* The result of run is true when it is returned and stays true: the trace *)
(* it names is kept, the action it reports was done by this process and    *)
(* had the outcome that the trace names.                                   *)
(***************************************************************************)
THEOREM ResultsStayTrue == OrchestratorSpec => ResultsHold
<1> DEFINE Truthful(p) ==
      LET status == run'[p].status
          Acted(o) == \E e \in executions' :
            e.process = p /\ e.trace = run[p].trace /\ e.outcome = o
      IN  /\ status \in {"already_traced", "trace_persisted"} =>
               run[p].trace \in traces'
          /\ status = "action_completed" => Acted(NULL)
          /\ status = "outcome_traced" =>
               /\ Acted(run[p].outcome)
               /\ AttachOutcome(run[p].trace, run[p].outcome) \in traces'
      Sound ==
        /\ traces \subseteq traces'
        /\ \A p \in Processes :
             run[p].phase # "ended" /\ run'[p].phase = "ended" => Truthful(p)
<1>1. ASSUME RunsInv, OrchestratorNext PROVE Sound
  BY <1>1, TracesGrow, EndingsAreTrue
<1>2. RunsInv /\ [OrchestratorNext]_orchestratorVars => [Sound]_orchestratorVars
  BY <1>1
<1> QED
  BY <1>2, RunsInvariant, PTL DEF OrchestratorSpec, ResultsHold

=============================================================================
