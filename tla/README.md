# A TLA+ model of osoznanie

This directory models the stateful core of the `osoznanie` library: the outbox
that delivers actions, the evidence it leaves, and the memory store with its
bitemporal views and access control, the applications of lessons and their
recall, and a tool that keeps the evidence of what it did. TLC checks the models on small instances,
and TLAPS proves the most important results for every value of the constants.
`PROJECT.json` lists for each definition the source lines it stands for.

Paths below are relative to the repository's `src/osoznanie/`.

## 1. The system

The library is a protocol and a SQLite store. A program's memory of what it
did is a set of immutable records: events, decisions, outcomes, reflections,
lessons, and their applications. Memories, versioned facts with validity in
time, are consolidated from them. Actions are recorded as intents beside the
decision trace that justifies them and delivered by workers. There is one
database file and any number of processes. Every store opens a connection for
each call, and there are no background threads. All concurrency is between
processes and between calls, and SQLite is the only place they meet.

| Component | Source | State | Operations |
|---|---|---|---|
| Action outbox | `sqlite_action_outbox.py`, `action_outbox.py` | one row per intent: status, attempt count, lease, `available_at` | `enqueue`, `list_ready`, `claim`, `complete`, `fail` |
| Action attempts | `action_attempt.py`, `action_attempt_store.py` | evidence: one `started` and one terminal record per lease | `start`, `succeed`, `fail` |
| Finalizer | `action_finalizer.py` | none of its own: it writes evidence and row together | `complete`, `fail` |
| Dispatcher | `action_dispatcher.py`, `strict_action_dispatcher.py` | local variables of one `dispatch_once` | `dispatch_once` |
| Experience store | `storage.py` | table `records`; tables `memory_versions` and `memory_heads` | `save`, `delete`, `commit_memory`, queries |
| Memories and consolidation | `memory.py`, `memory_repository.py`, `consolidation.py` | none (pure), committed through the store | `consolidate`, `resolve_active_memory` |
| Bitemporal view | `memory_view.py`, `sqlite_memory_view.py` | none (reads the store) | `project` |
| Access control | `access_control.py`, `sqlite_access_control.py` | none (policies are memories) | `authorize`, `project` |
| Decision traces | `decision_trace*.py` | versioned traces | `save`, `build`, `attach_outcome` |
| Orchestrator | `orchestration.py` | local variables of one run | `run` |
| Lesson application | `application.py`, `application_store.py` | tables `application_records`, `application_idempotency` | `save`, `get`, `list` |
| Recall | `recall.py` | none (reads the store) | `recall`, `recall_with_diagnostics` |
| Playwright adapter | `playwright_adapter.py`, `playwright_runner.py` | none: it saves an event, a decision and an outcome | `execute`, `run` |
| Models, schema | `models.py`, `schema.py` | none | validation, JSON schema |
| Benchmarks, demonstrators | `../../benchmarks`, `../../examples` | fixtures | command lines |

How they interact:

- `enqueue` saves a decision trace and an intent in one transaction. A worker
  claims the intent (a lease with a fresh token), saves `started` evidence,
  calls a tool, and hands the result to the finalizer. The finalizer writes
  terminal evidence and row in one transaction. Nothing renews a lease. A
  worker that is late finds its lease refused, and the next claim may take the
  intent while the first worker still runs its tool.
- A caller reads a memory's history, consolidates a mutation with it and
  commits the result, naming the head it read. The store compares that head
  with the current one inside a transaction. Readers are not locked out by it
  (WAL): they see the version from the COMMIT on, while the time of its commit
  is that of its INSERT. `save` and `delete` of generic records check first and
  write later, with no transaction around both.
- A view reads all versions in one query and computes. Access control makes
  two such reads, policies first and memories second, on two connections.
- The Playwright adapter is one of the tools a worker calls. It saves three
  records one after the other, under ids made from the idempotency key of the
  intent, so all attempts of an intent mean the same three.
- An application says that a lesson that was recalled was used for an action;
  observations and evaluations refer to applications, and corrections to
  earlier ones. All name records of the experience store, which knows nothing
  of them. Recall follows a lesson to its reflections and their evidence, one
  `get` at a time.

### Hard behaviours, and what would be correct

- **Leases, late workers, repeated calls.** A lease ends once and on the right
  side of its expiry. Evidence and row never tell different stories. A success
  is final, although its caller may repeat the call or never learn the answer.
- **Crashes between the steps of a dispatch.** No tool call without saved
  evidence, no attempt executed twice, no completion the tool did not report.
- **Timestamps as text.** `available_at` is compared as ISO text, so offsets
  matter.
- **Racing writers of one memory.** Its versions are one line, without fork,
  gap or lost update.
- **Two clocks of time.** Late and backdated commits do not change what was
  known, as far as no transaction is still open that was stamped then; a revoked
  memory stays shut, filters do not change who governs.
- **Two reads for one answer.** What is shown is justified by a policy that
  governed, an audit can be repeated, and committing what is denied changes
  neither what is shown nor what is counted.
- **A tool that dies half-way.** Its records are never of two runs, what it
  reports is what it recorded, and one intent that cannot be settled does not
  keep the others waiting.
- **Records in any order.** Whatever comes late, twice or corrected, an
  evaluation stands on an observation of every application it judges, and a
  repeated delivery is answered with the first.
- **Records that are gone.** Recall gives nobody a lesson whose evidence he may
  not see, nor keeps a better one from him.

`PROJECT.json` lists these and the rest as hazards, each at its line.

## 2. The modules

| Module | Models |
|---|---|
| `ActionOutbox` | the table `action_outbox`, one action per operation |
| `ActionAttempts` | evidence beside the outbox: the worker protocol written by hand, each call a transaction of its own |
| `ActionFinalizer` | the finalizer over both tables |
| `ActionDelivery` | abstract: what at-least-once delivery with one verdict per claim promises |
| `ActionDispatcher` | workers over the finalizer, one action per step of `dispatch_once` |
| `MemoryStore` | records, memory versions and heads; consolidation |
| `MemoryView` | the projection of `MemoryStore` at two times |
| `AuthorizedView` | readers that authorize and then read |
| `Orchestrator` | decision traces, and processes that run the audited orchestrator call by call |
| `PlaywrightQA` | workers that dispatch browser checks until they are settled; the adapter save by save |
| `Recall` | which lessons a query gets, as operators on the records that are there |
| `LessonApplications` | the application store beside them |
| `ActionDeliveryProofs`, `ActionFinalizerProofs`, `ActionDispatcherProofs` | proofs about the outbox side; the second has those about `ActionAttempts` too |
| `MemoryViewProofs`, `AuthorizedViewProofs`, `OrchestratorProofs` | proofs about the memory side; the first has those about `MemoryStore` too |
| `LessonApplicationsProofs`, `PlaywrightQAProofs` | proofs about applications and recall, and about the tool |
| `MC...` | the values of the constants for TLC |

Each module EXTENDS the one it is built on: Outbox, Attempts, Finalizer and
Dispatcher on one side, Store, View, AuthorizedView and Orchestrator on the
other, and LessonApplications on Recall. `PlaywrightQA` stands alone: it has its
own, smaller dispatch, in which nothing grows without bound, because liveness
cannot be stated of a system that stops at a bound.
Definitions named `Faulty...` are no part of the model. Each is the definition
after it with a plausible programming error, kept so that every property can
be seen to fail when the code is wrong.

### From code to actions

- **Transactions.** Outbox, attempts, finalizer, `commit_memory` and the trace
  store run inside `BEGIN IMMEDIATE`. SQLite serialises such transactions, so
  each call is one atomic action, with the exception of `commit_memory`. A call
  that raises is rolled back: it is an action that is not enabled. Where the code
  uses autocommit statements (`save` and `delete` of records, the two reads of
  access control, the phases of `dispatch_once` and of the orchestrator's `run`)
  each statement is an action of its own and others may come in between.
- **Stamp and commit.** Inside `commit_memory` one instant matters to others:
  `CURRENT_TIMESTAMP` is evaluated by the INSERT, and the version is visible from
  the COMMIT on. Between the two, readers go on reading and time goes on. So
  `BeginCommit` makes the checks and the INSERT and leaves an open `transaction`
  with its stamp, `EndCommit` moves the head and shows all of it, however late,
  and `RollBack` is an error or a death in between. No one else writes while it
  is open (`Unlocked`).
- **Callers.** The finalizer and the store have arbitrary callers: any token
  ever handed out, any terminal record, any proposal made from an earlier
  history, any expected head, at any moment and any number of times. A lost
  answer followed by a retry is therefore included, and so are delays and
  reordering. The dispatcher is one such caller; the run `dispatcher` checks
  that it stays within that contract. The trace store has both kinds of caller:
  the orchestrator, and anyone else. Others attach an outcome to a trace, with
  or without altering what it captured (`SaveByHand`), or save a first version
  that `build` made of any policies and memories they have, current or not, with
  an outcome if they know one already (`SaveFirstByHand`). The captured context
  does not contain the outcome, so one context may have several first versions.
  `decide` is taken to be a function of the query: a retry of a request makes the
  same proposal.
- **Clocks.** Each action of the outbox side gets its own reading from
  `Instants`, so workers' clocks may disagree and run backwards. In the memory
  store the stamp of a version is SQLite's `CURRENT_TIMESTAMP`, the clock of one
  machine in whole seconds: `clock` only advances, and `second` is the start of
  the second it is in. A second that is over can still change, while a
  transaction stamped in it is open. What cannot change any more lies before the
  `Horizon`: the current second, or the stamp of the open transaction if that is
  earlier. A query is *closed* if its `known_at` lies before the horizon at which
  it was asked. Nobody can read the horizon off the store; since the lock is
  held for one call, it is at most that call behind the clock.
- **Identity.** Attempts and memories are identified by hashes of their
  content. A record stands for its own id.
- **Timestamps.** In the outbox a stamp is the local time and the offset the
  text shows, and `TextLeq` compares it as SQL does. `fail` of the outbox
  writes UTC; `fail` of the finalizer keeps the caller's offset
  (`RetryStamp`).
- **Crashes.** A process keeps nothing but local variables. `Abandon` and
  `GiveUp` forget them. Between transactions there is nothing else to lose. A
  process of the orchestrator that died, or whose call raised, may start over.
- **The tool and its dispatch.** In `PlaywrightQA` a lease is held, has lapsed
  or is over, and a retry is waiting or visible; clocks, attempt numbers and
  evidence are those of `ActionDispatcher` and left out. A refused start is a
  `Crash`. The queue is the order of `available_at`: retry delays are taken to
  be equal and clocks to agree, so a retry goes to its end. A worker calls
  `dispatch_once` in a loop. Records of two runs differ by worker, which the
  event and the decision name, and by the evidence. Deletion of these records
  is left out.
- **Pages.** What a browser meets is a choice from `Pages`: whether navigation
  ends, and whether the elements are seen, enabled and clickable. `CheckCode`
  is what `run` makes of it. Of an outcome that is there already the adapter
  takes the word, whatever its page would say now.
- **Scores.** `Recall` computes in ten-millionths what the code computes with
  floats, and shows millionths as the code does. Recency is a power of two with
  a real exponent, so each lesson brings its value. Results are a set with the
  order `Before`. recall reads record by record; a lesson is judged on the
  records that are there at one moment. Texts are compared as normalised.
- **Applications.** `save` is one transaction. Ids of an application, its key
  and its payload are independent, so a redelivery may have the old id, a new
  one, or one that is taken. Times are numbers callers choose.
- **Deletion.** The store's `delete` with `force`, and a delete whose check is
  stale, remove anything that no foreign key protects (`DeleteRecord`,
  `EndDelete`). `Orchestrator` leaves deletion out: there it could only make the
  save of a trace fail, which `Abandon` covers. Deletion never asks the
  application store, not even without force: a lesson can be deleted although
  applications name it. So the properties of `LessonApplications` are about what
  an accepted record says, not about whether what it names is still there.

Left out: error texts, names and payloads, hashes, confidence and importance,
the access traces that repeat a decision already made, and the closing and
opening of connections. Traces written with the generic `store.save`, which
enters them in no index, and the traces that `enqueue` shares with the
orchestrator are not composed with `Orchestrator`.

## 3. What TLC checks

| Run | Checks | Shows |
|---|---|---|
| `attempts` | `OneChainPerLease`, `LeaseDiscipline` | the hand-written protocol keeps one evidence chain per lease |
| `finalizer` | `TypeOK`, `EvidenceAgrees`, `SuccessIsFinal`, `AttemptsInOrder`, `NothingDangles`, `LeaseDiscipline`, `RetryNotVisibleEarly`, `ImplementsDelivery` | with the finalizer, evidence and row agree whatever is interleaved |
| `dispatcher` | `DispatcherTypeOK`, `CallsAreDocumented`, `AttemptsAreExclusive`, `CompletedByTheTool`, `ReportsHold`, `UsesFinalizer` | crashing, stalling workers make no undocumented call |
| `memory_view` | `StoreTypeOK`, `OneLinePerKey`, `NoLostUpdate`, `ViewsAgree`, `FilteredViewsRestrict`, `NothingIsResurrected`, `ClosedViewsAreFrozen` | racing writers neither fork nor lose versions, so there is one meaning of "the current memory", and what was known before the horizon never changes |
| `authorized_view` | `ExposureIsJustified`, `AnswersAreReproducible`, `DenialIsSilent` | two reads give one justified, repeatable answer to a closed query, and what is denied changes no answer |
| `orchestrator` | `AccountsAreLines`, `ActionsAreExplained`, `RetriesExecuteOnce`, `ResultsHold` | accounts of decisions are lines, what was done has a trace that explains it, and a process that retries after a crash does not do it again |
| `playwright` | `RecordsAreOfOneRun`, `SuccessIsRecorded`, `EveryIntentSettles` | overlapping and dying runs never mix their records, and intents settle once faults end, but for those that a dead run has left half recorded |
| `lessons` | `ApplicationsTypeOK`, `RetriesAreAnswered`, `EvaluationsAreGrounded`, `CorrectionsKeepTheSubject`, `RecallGivesTheBest`, `RiskCutsTheEnd`, `EvidenceCountsLate` | the account of applied lessons stays consistent in any order of saves, and recall is right whatever was deleted |

What the memory side promises of the past it promises of the time before the
horizon only. A writer that inserts just before a second ends and commits just
after it shows a version in a second that readers took for complete; until its
COMMIT a view of that second, the answer to a query, and the trace of a retry
may be others than afterwards. The properties say so: `ClosedViewsAreFrozen`,
`ExposureIsJustified`, `AnswersAreReproducible`, and the parts of
`ActionsAreExplained` and `RetriesExecuteOnce` that look at the store later, are
about closed queries; with the current second in the place of the horizon TLC
refutes `ClosedViewsAreFrozen`, and with it what the others rest on. `DenialIsSilent` needs no such condition: it compares the answers
before and after a commit by the same rules. And `AccountsAreLines` does not say
that a captured context has one account: a first version may have an outcome,
and a context several first versions.

Two consequences of the orchestrator's order are documented choices, and the
properties say no more than what is left: a crash between the trace and the
execution loses the action, since every retry finds the trace and answers
`already_traced`; and two processes that both ask before either saves will both
execute. `RetriesExecuteOnce` is therefore about one process.

The exception in `EveryIntentSettles` does happen: if a run dies after its
event was saved, every later run that observes anything else, or is made by
another worker, meets an event that is not its own, raises, and is retried
without end. No document promises otherwise, so it is a property of the model
and not a violation. In the same way three choices of the application store and
of recall are part of the properties: an indeterminate evaluation needs no
observation, and may predate its application; a lesson that has lost its denied
evidence is open; lessons are cut by their exact score but ranked by the score
shown (`RiskCutsTheEnd`).

Four runs check a sentence of the documentation that the code does not keep;
TLC gives the counterexample.

| Run | Violated | What happens |
|---|---|---|
| `outcome_type` | `CompletedByAnOutcome` | `outbox.complete` accepts the id of any record as the outcome |
| `retry_early` | `RetryNotVisibleEarly` | the retry time of the finalizer keeps a UTC offset, and its text sorts before a UTC time that is earlier |
| `provenance` | `MemoriesHaveProvenance` | an unforced `delete` checks dependants, a memory citing the record is committed, the delete goes through |
| `known_at` | `PastViewsAreFrozen` | commit times have whole seconds and are taken before the commit is visible, so a commit appears in the view of an instant before it |

### Bounds, and why they are enough

- Outbox side: two workers (a late one and its successor), one or two intents
  (two where order and choice matter), instants `0..2` and leases of length 1,
  so that a lease can be alive, expire at the instant of a call, and be over;
  retry delays before, at and after the failure where callers choose them.
  `MaxAttempts` is 2, or 3 for the dispatcher: a stale holder, a current one
  and one more. `MaxAttempts` is the only bound that the code does not have.
- Store side: `MaxVersion` 3 gives a head, its predecessor and a competing
  successor; `MaxClock` 2 or 3 with seconds starting at 0 and 2 gives two
  readings within one second and one in the next. Two clients are enough for a
  check of one to become stale by a write of the other (`provenance`). A
  transaction may stay open over any number of ticks.
  `memory_view` has two keys, for filters, and one client of `save` and
  `delete`, since commits are transactions of their own.
  `authorized_view` has a datum, another that no rule ever allows, a grant and a
  ban that may be by prefix, by type, or malformed; the datum and the grant have
  two versions, so that an answer can show one memory while another is denied.
  Its closed query is about time 1, which lies before the horizon from second 2
  on, if no transaction stamped earlier is open. `orchestrator` has one version of a datum,
  a grant and a ban, so that each may be committed between any two calls of a
  run; its query is about time 0, open until second 1 begins and closed from
  then on, unless a transaction stamped 0 is open still. Two processes, two
  outcomes and `MaxTraces` 3 let two successors compete for one trace, and one
  context have three first versions; others build from the same context as the
  runs (`Captures`), which is where they meet; `MaxExecutions` 2 is one more than a retry may have.
  Its symmetry is sound: only safety is checked, and no constant singles out a
  process or an outcome.
- `playwright` has two intents, one of which has an outcome id that another
  record occupies, so that one can be starved by the other; two workers, a late
  one and its successor; and three pages: one that passes, one whose action is
  disabled, one that does not load. Nothing else is bounded.
- `lessons` has a lesson for each gate and evidence of two owners. One lesson
  lies just below a threshold and is shown with it; another, of a later id,
  comes to lie just above it when evidence goes. Requests include repeated,
  conflicting, premature and contradicting records and a chain of two
  corrections. `VaryApart` is a bound of the instance: what only recall reads
  and what only the application store reads vary in turn, not together.
- A caller's proposal is any result it could have made from a history that was
  true at some time, or from such a result never committed (`Proposals`).

Deadlock is not checked. The systems stop where they should: at the bounds, and
when every intent is settled.

### Fairness

Only `FairQASpec` assumes fairness; all other properties are safety properties
and hold however the processes are scheduled. It assumes

- weak fairness of the passing of time (`Arrive`, `Lapse`): a time that was set
  comes;
- weak fairness of each worker's `Claim` and `Proceed`: a worker is a loop that
  asks for work when it is idle and goes on when it has some. The library has
  no such loop itself (`dispatch_once` is one round); a program that uses it
  must, or nothing would ever be delivered.

No fault is fair, and neither is the end of faults. `EveryIntentSettles` is
about behaviours in which faults end (`calm`), at a moment nobody knows: no
more crashes, no lease that lapses while its holder works, no browser that does
not answer. It needs no fairness of a claim of one particular intent: that an
intent reaches the head of the queue follows from the order by `available_at`
alone, and its mutant, a retry that keeps its place, is caught.

## 4. What is proved

All proofs are for any sets of intents, workers, records, keys, mutations,
clients, readers, processes, lessons and queries, any clock readings and any
bounds. They use the named assumptions of the modules, which TLC evaluates in
each run:

- `OutboxAssumption`, `FinalizerAssumption`, `DispatcherAssumption`,
  `StoreAssumption`, `ViewAssumption`, `ApplicationAssumption`, `QAAssumption`,
  `PageAssumption` only give the constants their types and say that ids of
  different kinds are different, that the absent `known_at` is no time, and that
  the dispatcher's own offset, UTC, is among the offsets callers may use.
- `AccessAssumption`: a policy that parses has an effect and a specificity that
  is a number, as the code's rules have; one that does not parse is `Malformed`.
- `OrchestratorAssumption`: processes use the store like any client, outcomes
  are records, and `decide` is a function of the query.
- `RecallAssumption`: a record has one id and one type, tables are finite,
  scores lie between 0 and 1 and times are numbers, as the protocol models
  validate.
- `ScoreAssumption`: a lesson and a query have at most a million tags together
  (`MaxTags`). The code has no such limit. It is there because the model computes
  in whole ten-millionths where the code has floats: beyond it a shared tag
  would count for less than one.

**Finalizer** (`ActionFinalizerProofs`). `IInv`, at the end of
`ActionFinalizer`, is inductive (`FinalizerInvariant`). The invariants that the
run checks are its conjuncts, but they are not inductive on their own. Two
things are missing. A leased row must have a positive term left at the time it
was claimed (`LeaseHasTerm`), or a start inside the lease would not lie
between claim and expiry. And everything recorded of earlier leases must lie
before the claim of the current one, or before the time a pending row becomes
visible (`HistoryBehindClaim`), or the next claim could start before an earlier
attempt ended. The second holds only when callers pass UTC, because only then
does the text of the retry time say what it denotes. So `IInv` has it under
`Offsets = {0}`, and so have the theorems `AttemptsStayInOrder` and
`RetryWaits`; the run `retry_early` shows that the hypothesis is needed. All
other theorems hold for callers of every kind. There is one lemma per action,
and all finalizations share one (`CommitIInv`). The same module proves the
hand-written protocol of `ActionAttempts`, where evidence and row may disagree,
but the evidence of a lease is one chain (`ProtocolChains`) and leases end
properly (`ProtocolLeases`).

**Refinement.** `OutboxImplementsDelivery` maps rows and evidence to the
phases, epochs and verdicts of `ActionDelivery`: enqueue submits, claim opens an
epoch, a finalization judges, everything else is a stutter.
`ActionDeliveryProofs` proves that epochs have at most one verdict in the
abstract specification, and `OneVerdictPerClaim` carries it over.

**Dispatcher** (`ActionDispatcherProofs`). Each step of the dispatcher is one of
the finalizer's specification or leaves its tables alone (`StepUsesFinalizer`),
hence `DispatcherUsesFinalizer`, and `IInv` holds of its tables. `DInv` adds, for
each worker, that its attempt is of a lease once granted to it (`Holding`), what
it has saved and whether it called the tool (`Progress`), that no two busy
workers have one lease token (`Exclusive`), and that the reports of
`dispatch_once` name committed evidence (`ReportHolds`). A worker that stalls
sees the tables moved on by others, so every one of these needs to know what any
step of the finalizer leaves standing: numbers of attempts grow, a lease keeps
its owner until the next one, settled rows and evidence stay (`TablesAdvance`).
With that lemma, one lemma covers all workers that do not move (`OthersKeep`) and
there is one per kind of step for the one that does.

**Store** (`MemoryViewProofs`). `StoreTypeOK` and `OneLinePerKey` are inductive
together with `TransactionFits` (`StoreInvariant`): the types say that a head is
a version or none, the line says that it is the newest of its key, and only with
both does compare-and-swap against the head keep the line. The third says that
what an open transaction has checked still holds when it commits, whatever time
passed, and that nothing committed has a later stamp than its own. `UpdatesAreKept` is the action
property that no commit takes another back.

**Views** (`MemoryViewProofs`). A projection picks one governing version of each
key by comparing version numbers, which is well defined only because the
versions of a key have no ties (`OneLinePerKey`); that a filter by type does not
change who governs rests on the versions of a key having one type, which is
added to the store's invariant (`ViewInvariant`). From there `TheLatestGoverns`
gives the agreement of the two resolvers, `PartsGovernAlike` the filters, and
`KnownIsFrozen` the frozen views. Two facts make them frozen
(`HorizonAdvances`): what becomes visible is stamped with the horizon, never
below it, and the horizon never goes back, since a transaction that begins is
stamped with the second that then is. That they are frozen is a theorem about
times before the horizon only; for instants it is refuted by the run `known_at`.

**Lesson applications** (`LessonApplicationsProofs`). Callers may offer any
records, in any order and number, and experience records come and go. The four
invariants of the run are conjuncts of `AppInv`, or follow from it
(`RetriesAreAnswered`), but they are not inductive on their own. That a repeated
application is answered needs every application to have its row in the table of
keys (`KeysComplete`) and every key one application. That an evaluation is
grounded needs what was checked of its applications and observations when they
were saved (`AppliedInTime`, `ObservedInTime`), since `save` does not check it
again. And that no chain of corrections closes needs no order of times: a new
record has a fresh id and corrects an accepted one, so nothing corrects it yet.
The assumption on ids (one record per id) is what makes the times of deleted
experience records keep their meaning.

**Access control** (`AuthorizedViewProofs`). Readers only read, so every step is
one of the store's specification or leaves it alone (`AccessImplementsStore`)
and the theorems about views carry over. `AccessInv` adds what a reader holds:
between its two reads the rules that a closed query would find, and afterwards
an answer that it would get again. "Closed" refers to the horizon at the moment
of the request, which the later horizon can only exceed. It is stable because the versions relevant to
a closed query are frozen (`RelevantIsFrozen`, `ClosedQueriesKeep`), not only the
view as a whole. This is why the two reads agree although commits come between
them (`AuditsRepeat`). That a memory shown has *one* allow that outweighs all
denies (`ExposureStaysJustified`) needs a most specific policy to exist; there is
one because versions are finite (`MostSpecific`, an argument by a smallest
counterexample). `DenialsAreSilent` is an action property and about all queries,
closed or not: a restricted view is a projection of the allowed versions only,
so two stores that differ in versions the rules do not allow give the same view,
counts included (`DeniedCommitsAreUnseen`).

**Orchestrator** (`OrchestratorProofs`). Each step is one of `AuthorizedView` or
leaves store and readers alone (`OrchestratorImplementsAccess`), so closed
queries stay what they were in any step of any process. `RunsInv` is inductive
(`RunsInvariant`). Its parts: a later trace follows one that is kept, no two
follow the same (`TracesInv`), whatever outsiders save, and every first version
is one that follows none, with or without an outcome (`AccountsStayLines`);
every process holds a
trace that explains its decision, which it has not executed while it is `new` or
`persisted` (`RunHolds`); every execution has its saved trace (`ExecutionHolds`); and a
process executes a trace once. The last follows from the order of the code: the
existence check comes before the save, an execution after it, and a trace never
goes away. For closed requests `RetriesAreIdempotent` also needs
that a retry builds the very same trace, which is again `ClosedQueriesKeep`.

**Recall** (`LessonApplicationsProofs`). `RecallGivesTheBest` and
`RiskCutsTheEnd` say what an operator computes from the records that are there,
and are proved for every state, whatever was deleted; the first for lists of any
length, where the run checks one and two. `CandidateFacts` turns the chain of
gates into a conjunction, and `GatesAreTheDesign` shows that, for a lesson whose
evidence is intact, it is the eligibility the property defines independently.
`ShareFacts` and `TagFacts` say that a domain alone never passes the scope gate,
and that one task or tag beside it does. `Before` is a strict total order because
ids are unique, and the results are the first so many in it; that these are the
best is a counting argument (`RankCount`, `RanksRise`, `CutFacts`).
`RiskOnlyCuts` needs `RoundingFacts`: the score shown never reverses the exact
order, but may tie at the threshold, which is the exception the property names.
`EarlyCountsAreBlind` is an action property: the gates up to the scope read the
lesson only.

**Playwright** (`PlaywrightQAProofs`). `QAInv` has the types, what each worker
relies on when it goes on to its next record (`Holds`), that the records of an
intent are of one run (`OneRun`), and that a completed intent has its outcome
(`VerdictHolds`). That a worker waits with an event saved while others save
theirs is harmless because an id is written once (`WrittenOnce`): whatever it
has seen in the store stays, so one lemma covers all workers that do not move
(`HoldsStays`).

**Model-checked only.** Every safety property of a passing run is a theorem;
`AttemptsInOrder` and `RetryNotVisibleEarly` are under the hypothesis that
callers use UTC. What is left to TLC is beyond the prover: liveness under
fairness, hence `EveryIntentSettles`, and `ENABLED`; and induction over data,
hence nothing is claimed for every input of a recursive function. No module
declares a recursive operator. That the four `violation` runs find their
counterexamples is TLC's too.

## 5. Not modelled, and the plan

Left out is the composition of traces written by `enqueue` with those of the
orchestrator.

Protocol models and schemas have no state: a record is its id, its type and
what it cites. Benchmarks, demonstrators and simulations are programs that use
the library on fixed data, and are left out.
