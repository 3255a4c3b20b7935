---------------------------- MODULE Orchestrator -----------------------------
(***************************************************************************)
(* The audited decision orchestrator (AuditedDecisionOrchestrator) with    *)
(* the decision traces it keeps (DecisionTraceBuilder and                  *)
(* SQLiteDecisionTraceStore), over the memories of AuthorizedView.         *)
(*                                                                         *)
(* run is a sequence of calls, each with a connection of its own: read the *)
(* policies, read the memories, ask whether the trace exists, save it,     *)
(* execute, save the outcome (a check and an insert), save the superseding *)
(* trace.  Other processes may come in between, and a process may die.     *)
(* The callback decide and the executor are external.                      *)
(***************************************************************************)
EXTENDS AuthorizedView

CONSTANTS
  Processes,    \* processes that run audited decisions and use the store
  Outcomes,     \* the records that executors return
  DecisionProposals, \* alternatives, reasons, tool and input hash
  Decide,       \* what decide proposes for each query
  Captures,     \* policies, memories and proposals others pass to build
  MaxTraces,    \* bound on the number of traces
  MaxExecutions \* bound on what the executors do

ASSUME OrchestratorAssumption ==
  /\ Processes \subseteq Clients
  /\ Outcomes \subseteq Records /\ NULL \notin Outcomes
  /\ Decide \in [Queries -> DecisionProposals]
  /\ MaxTraces \in Nat /\ MaxExecutions \in Nat

VARIABLES
  traces,       \* decision_trace_index and the traces in records
  run,          \* where each process stands in its current run
  executions    \* what the executors did

auditVars == <<traces, executions>>
orchestratorVars ==
  <<records, versions, committed_at, heads, transaction, client, clock, second, reader,
    traces, run, executions>>

-----------------------------------------------------------------------------
(***************************************************************************)
(* A DecisionTrace.  Its id is a hash of its content, the id of the trace  *)
(* it supersedes included, so the record stands for its id.                *)
(***************************************************************************)
FirstTrace(q, policies, memories, proposal, o) ==
  [query |-> q, policies |-> policies, memories |-> memories,
   proposal |-> proposal, outcome |-> o, supersedes |-> NULL, version |-> 1]

(* What a run builds: its outcome is not known yet. *)
InitialTrace(q, policies, memories) ==
  FirstTrace(q, policies, memories, Decide[q], NULL)

(* attach_outcome, of a trace that has none. *)
AttachOutcome(t, o) ==
  [t EXCEPT !.outcome = o, !.supersedes = t, !.version = t.version + 1]

(* _captured_context *)
CapturedContext(t) == <<t.query, t.policies, t.memories, t.proposal>>

TraceReferencesPresent(t) ==
  /\ t.policies \cup t.memories \subseteq versions
  /\ t.outcome # NULL => t.outcome \in records
  /\ t.supersedes # NULL => t.supersedes \in traces

(* _validate_progression *)
Supersedes(t) ==
  IF t.version = 1
  THEN t.supersedes = NULL
  ELSE /\ t.supersedes # NULL
       /\ t.version = t.supersedes.version + 1
       /\ t.outcome # NULL
       /\ CapturedContext(t) = CapturedContext(t.supersedes)

(* UNIQUE(supersedes_trace_id), where NULLs are all different. *)
FreshSuccessor(t) ==
  t.supersedes # NULL => \A u \in traces : u.supersedes # t.supersedes

FaultyInsertTrace(t) ==
  /\ Unlocked
  /\ t \in traces \/ Cardinality(traces) < MaxTraces
  /\ t \in traces \/ (TraceReferencesPresent(t) /\ Supersedes(t))
  /\ traces' = traces \cup {t}

(* save of the trace store: one transaction, and idempotent. *)
InsertTrace(t) ==
  /\ Unlocked
  /\ t \in traces \/ Cardinality(traces) < MaxTraces
  /\ \/ t \in traces
     \/ TraceReferencesPresent(t) /\ Supersedes(t) /\ FreshSuccessor(t)
  /\ traces' = traces \cup {t}

-----------------------------------------------------------------------------
(* The status of the result; the ids in it are those of the run that ends. *)
Ended(status) == [phase |-> "ended", status |-> status]

OrchestratorInit ==
  /\ AccessInit
  /\ traces = {}
  /\ run = [p \in Processes |-> Ended("none")]
  /\ executions = {}

MoveOn(p, state) == run' = [run EXCEPT ![p] = state]

(* authorize, once; a denied request ends here. *)
BeginRun(p, q) ==
  /\ run[p].phase = "ended"
  /\ client[p] = Idle
  /\ MoveOn(p, IF HasPotentialAllow(Rules(q))
               THEN [phase |-> "authorized", query |-> q, rules |-> Rules(q),
                     asked |-> Horizon]
               ELSE Ended("denied"))
  /\ UNCHANGED <<vars, reader, auditVars>>

FaultyProjectAndDecide(p) ==
  /\ run[p].phase = "authorized"
  /\ LET q == run[p].query
         entries == RestrictedView(q, run[p].rules).entries
     IN  MoveOn(p, [phase |-> "decided", asked |-> run[p].asked,
                    trace |-> InitialTrace(q, Rules(q), entries)])
  /\ UNCHANGED <<vars, reader, auditVars>>

(***************************************************************************)
(* project, with the rules captured by authorize, then decide and build.   *)
(* Only a request with require_memory_context stops for want of a memory.  *)
(***************************************************************************)
ProjectAndDecide(p) ==
  /\ run[p].phase = "authorized"
  /\ LET q == run[p].query
         rules == run[p].rules
         entries == RestrictedView(q, rules).entries
     IN  \/ /\ entries = {}
            /\ MoveOn(p, Ended("no_authorized_context"))
         \/ MoveOn(p, [phase |-> "decided", asked |-> run[p].asked,
                       trace |-> InitialTrace(q, rules, entries)])
  /\ UNCHANGED <<vars, reader, auditVars>>

FaultyAskWhetherTraced(p) ==
  /\ run[p].phase = "decided"
  /\ MoveOn(p, [run[p] EXCEPT !.phase = "new"])
  /\ UNCHANGED <<vars, reader, auditVars>>

(* exists *)
AskWhetherTraced(p) ==
  /\ run[p].phase = "decided"
  /\ MoveOn(p, [run[p] EXCEPT !.phase =
                  IF run[p].trace \in traces THEN "traced" ELSE "new"])
  /\ UNCHANGED <<vars, reader, auditVars>>

(* save of trace v1: only a new trace, and an executor, lead to an action. *)
SaveInitialTrace(p) ==
  /\ run[p].phase \in {"traced", "new"}
  /\ InsertTrace(run[p].trace)
  /\ IF run[p].phase = "traced"
     THEN MoveOn(p, Ended("already_traced"))
     ELSE \/ MoveOn(p, Ended("trace_persisted"))
          \/ MoveOn(p, [run[p] EXCEPT !.phase = "persisted"])
  /\ UNCHANGED <<vars, reader, executions>>

(* The times p has executed t. *)
TimesExecuted(p, t) == Cardinality({e \in executions : e.process = p /\ e.trace = t})

(* execute: o is the outcome it returns, or NULL.                          *)
Execute(p, o) ==
  /\ run[p].phase = "persisted"
  /\ Cardinality(executions) < MaxExecutions
  /\ LET t == run[p].trace
     IN  /\ executions' = executions \cup
              {[process |-> p, trace |-> t, outcome |-> o, asked |-> run[p].asked,
                number |-> TimesExecuted(p, t) + 1]}
         /\ MoveOn(p, IF o = NULL
                      THEN Ended("action_completed")
                      ELSE [phase |-> "executed", trace |-> t, outcome |-> o])
  /\ UNCHANGED <<vars, reader, traces>>

(* save of the outcome: its references, ... *)
CheckOutcome(p) ==
  /\ run[p].phase = "executed"
  /\ BeginSave(p, run[p].outcome)
  /\ UNCHANGED <<reader, run, auditVars>>

(* ... then the INSERT; a duplicate id raises. *)
SaveOutcome(p) ==
  /\ run[p].phase = "executed"
  /\ run[p].outcome \notin records
  /\ EndSave(p)
  /\ MoveOn(p, [run[p] EXCEPT !.phase = "saved"])
  /\ UNCHANGED <<reader, auditVars>>

FaultySaveOutcomeTrace(p) ==
  /\ run[p].phase = "saved"
  /\ \/ InsertTrace(AttachOutcome(run[p].trace, run[p].outcome))
     \/ traces' = traces
  /\ MoveOn(p, Ended("outcome_traced"))
  /\ UNCHANGED <<vars, reader, executions>>

(* attach_outcome and save of trace v2. *)
SaveOutcomeTrace(p) ==
  /\ run[p].phase = "saved"
  /\ InsertTrace(AttachOutcome(run[p].trace, run[p].outcome))
  /\ MoveOn(p, Ended("outcome_traced"))
  /\ UNCHANGED <<vars, reader, executions>>

(* A crash, or any exception that leaves run. *)
Abandon(p) ==
  /\ run[p].phase # "ended"
  /\ MoveOn(p, Ended("none"))
  /\ client' = [client EXCEPT ![p] = Idle]
  /\ UNCHANGED <<records, memoryVars, timeVars, reader, auditVars>>

(* Any other caller of the trace store, with a trace it made of another, *)
SaveByHand(t, proposal, o) ==
  /\ InsertTrace([AttachOutcome(t, o) EXCEPT !.proposal = proposal])
  /\ UNCHANGED <<vars, reader, run, executions>>

(* ... or with one that build made of snapshots it has, of whatever age,   *)
(* and of an outcome, if it knows one already.                             *)
SaveFirstByHand(q, c, o) ==
  /\ HasPotentialAllow(c.policies)
  /\ InsertTrace(FirstTrace(q, c.policies, c.memories, c.proposal, o))
  /\ UNCHANGED <<vars, reader, run, executions>>

RunStep(p) ==
  \/ \E q \in Queries : BeginRun(p, q)
  \/ ProjectAndDecide(p)
  \/ AskWhetherTraced(p)
  \/ SaveInitialTrace(p)
  \/ \E o \in Outcomes \cup {NULL} : Execute(p, o)
  \/ CheckOutcome(p)
  \/ SaveOutcome(p)
  \/ SaveOutcomeTrace(p)
  \/ Abandon(p)

(***************************************************************************)
(* The store around the runs: memories are committed and time passes.      *)
(* That a record is deleted is left to MemoryStore: here it could only     *)
(* make a save of a trace fail, which Abandon covers.                      *)
(***************************************************************************)
StoreStep == (MemoryStep \/ Tick) /\ UNCHANGED <<reader, run, auditVars>>

OrchestratorNext ==
  \/ StoreStep
  \/ \E p \in Processes : RunStep(p)
  \/ \E t \in traces, a \in DecisionProposals, o \in Outcomes : SaveByHand(t, a, o)
  \/ \E q \in Queries, c \in Captures, o \in Outcomes \cup {NULL} :
       SaveFirstByHand(q, c, o)

OrchestratorSpec == OrchestratorInit /\ [][OrchestratorNext]_orchestratorVars

-----------------------------------------------------------------------------
(***************************************************************************)
(* The account of a decision is a line: every later version of a trace     *)
(* attaches an outcome to the version before it, which is kept, and alters *)
(* nothing that was captured; and no two attach theirs to the same, so     *)
(* lines never fork or meet, whoever attaches outcomes, altered or not,    *)
(* and however they race.  What a line starts with is open: a first        *)
(* version may have an outcome, and one captured context several such.     *)
(***************************************************************************)
AccountsAreLines ==
  /\ \A t \in traces :
       IF t.version = 1
       THEN t.supersedes = NULL
       ELSE /\ t.supersedes \in traces
            /\ t.supersedes.version = t.version - 1
            /\ CapturedContext(t.supersedes) = CapturedContext(t)
            /\ t.outcome # NULL
  /\ \A t, u \in traces : t # u /\ t.version # 1 => t.supersedes # u.supersedes

(***************************************************************************)
(* What was done can be explained from what was recorded before it: an     *)
(* executed action has its trace, which names the policies that governed   *)
(* and only memories that those policies allow, although policies and      *)
(* memories change between the reads.  For a query about a time before the *)
(* horizon at which it was asked, an audit at any later time resolves the  *)
(* very same policies and memories.                                        *)
(***************************************************************************)
ActionsAreExplained ==
  \A e \in executions :
    LET t == e.trace
        q == t.query
    IN  /\ t \in traces
        /\ HasPotentialAllow(t.policies)
        /\ \A m \in t.memories : Allows(q, t.policies, m)
        /\ q.known_at # NULL /\ q.known_at < e.asked =>
             /\ t.policies = Rules(q)
             /\ t.memories = RestrictedView(q, t.policies).entries

(***************************************************************************)
(* A process that retries a request, after a crash too, does not act on it *)
(* twice: no trace is executed a second time, and a request about a time   *)
(* before the horizon always leads to the same trace, so that it is        *)
(* executed once, whatever is committed in between.                        *)
(***************************************************************************)
RetriesExecuteOnce ==
  \A e, f \in executions :
    /\ e.process = f.process
    /\ \/ e.trace = f.trace
       \/ /\ e.trace.query = f.trace.query
          /\ e.trace.query.known_at # NULL
          /\ e.trace.query.known_at < e.asked /\ e.trace.query.known_at < f.asked
    => e = f

(***************************************************************************)
(* The result of run is true and stays true: a trace it names is in the    *)
(* store for ever, an action it calls completed was executed by this       *)
(* process, and the outcome it calls traced is the one that this execution *)
(* returned, whoever else works on the same trace.                         *)
(***************************************************************************)
ResultsHold ==
  [][/\ traces \subseteq traces'
     /\ \A p \in Processes : run[p].phase # "ended" /\ run'[p].phase = "ended" =>
          LET status == run'[p].status
              Acted(o) == \E e \in executions' :
                e.process = p /\ e.trace = run[p].trace /\ e.outcome = o
          IN  /\ status \in {"already_traced", "trace_persisted"} =>
                   run[p].trace \in traces'
              /\ status = "action_completed" => Acted(NULL)
              /\ status = "outcome_traced" =>
                   /\ Acted(run[p].outcome)
                   /\ AttachOutcome(run[p].trace, run[p].outcome) \in traces']_orchestratorVars

=============================================================================
