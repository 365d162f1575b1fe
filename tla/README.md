# Tradewind DealFlow in TLA+

A specification of Tradewind DealFlow beside its code: TLA+ modules of the
parts where order, concurrency and failure matter, TLC configurations that
check them on small instances, and theorems that TLAPS proves for every value
of the constants.  Paths are relative to the repository.

- [The system](#the-system): its parts, their state, how they interact
- [The modules](#the-modules): what models what
- [What the runs check](#what-the-runs-check)
- [What is proved](#what-is-proved)
- [What the code does differently from its documents](#what-the-code-does-differently-from-its-documents)
- [What is not modelled](#what-is-not-modelled), and [the plan](#the-plan)

## The system

DealFlow is a Cloudflare Worker with a D1 (SQLite) database and a browser
application that keeps the user's workspace in local storage.  Worker
invocations are independent: several HTTP requests and the hourly trigger can
be inside the same function at once, each suspended at some `await`.  The
database makes one statement, or one `db.batch`, atomic, and nothing else.

**Audit chain** (`lib/ingestion/audit.ts`).  State: `audit_events`, each with
the hash of the previous one.  Operation: `appendAuditEvent` reads the head,
hashes, and commits the caller's statements with the event in one batch; a
unique conflict is retried once.  Hard: the head is stale when the batch
commits.  Correct means: one chain; every change has its event.

**Policies, runs and records** (`server/ingestion-store.ts`,
`ingestion-runner.ts`, `ingestion-api.ts`).  State: `source_policies`,
`ingestion_runs`, `source_records`.  Operations: `approvePolicy`, `createRun`,
`persistPage`, `finishRun`, `markRecordsImported`, and `runIngestion`, which
strings them together around the retrieval of pages.  They call the audit chain
for every change, and the MassGIS adapter for pages.  Hard: checks and inserts
are separate calls; a run can lose its worker; a committed batch can look like
a failure.  Correct means: the newest policy is active, one running run per
policy, one retriever per run, a started run was started under the active
policy, counters agree with rows, a staged run has all its pages.

**MassGIS adapter** (`lib/ingestion/massgis.ts`).  No state between calls.
`requestPage` retries transient failures within a timeout;
`fetchMassGisRecords` pages by offset and checks order and uniqueness.  Hard:
the source changes between pages, the last page is known by being short.
Correct means: no parcel twice, and none overlooked that was there all along.

**Ingestion in the browser** (`lib/ingestion/client.ts`, `import-safe.ts`).
`importSafeRecords` plans staged rows for the workspace and holds back what
might be a duplicate; the rows are then acknowledged to the server.  Hard: the
second half can fail, and is then offered again.

**Scheduler and automated lead cycle** (`server/ingestion-scheduler.ts`,
`automated-lead-runner.ts`, `automated-lead-store.ts`,
`automated-lead-api.ts`, `providers/rentcast.ts`, `worker/index.ts`).  State:
automated leads, owner profiles and enrichment attempts.  The hourly trigger
starts a cycle when it is due: run the ingestion under the key of the day,
upsert a lead for each staged row, ask RentCast for the owner.  Hard: the lead
read before the upsert decides what happens after it; the trigger may be
delivered twice; the cycle may end anywhere.  Correct means: an owner belongs
to the address of its lead, a success has something to show, what was paid for
is kept, and staged rows become leads.

**Approval queue and ledger** (`server/control-plane-store.ts`,
`control-plane-api.ts`, `lib/control-plane/ledger/`).  State: actions,
envelopes, approval requests, decisions, authorities, ledger events.
Operations: `createApprovalRequest`, `decideApproval`, and
`appendLedgerEvent`, which both call at their end.  Hard: the status is
computed from decisions read several calls earlier and written without a
condition; the ledger event is not in the batch of the change it records.
Correct means: a settled request has its reason, one request per idempotency
key, no event twice or without its fact.

**Execution authorization** (`lib/control-plane/control-plane-core.ts`,
`server/control-plane-execution.ts`).  A table of lifecycle transitions and
thirteen checks over a snapshot: an action, its envelope, policy decision,
evidence, approvals and authorities.  Hard: each of these changes after the
others were made.  Correct means: nothing is executed without enough standing
approvals of exactly this envelope.

**Provider webhooks** (`server/webhooks/elevenlabs.ts`).  State: webhook
events; the insert is the idempotency claim.

**Browser workspace** (`lib/local-storage.ts`, `lib/import-export.ts`,
`components/LocalDataProvider.tsx`, the workspaces of the user interface).
State: one document in local storage with a revision, a legacy document beside
it, and in every tab what it last rendered.  Operations: read, mutate under a
Web Lock, replace, clear; the handlers of the workspaces are updaters.  Hard:
two tabs, changes decided on an older document, a clear that starts the
revisions again, a document of an older version.  Correct means: what is stored
can be read again, and no change loses another.

**Lead import** (`lib/lead-ingestion.ts`).  Pure functions on the workspace:
plan an import, decide on possible duplicates, apply the plan if it is not
stale, resolve conflicts and restrictions.  Hard: a plan outlives the workspace
it was made for; a source record must stay on one deal; stops and differences
must survive every order of operations.

**Qualification** (`lib/qualification.ts`, `launch-qualification.ts`).
Evidence, buy box and date give a status, a score, a compliance state and a
place in the research queue; the launch narrows the box and names the status.  Hard:
evidence ages by itself; the same risk is read by different functions for the
status, the compliance and the priority.

**Compliance calendar** (`lib/compliance.ts`).  Business days, cancellation
windows, readiness of marketing.

**Calculations, matching, migration** (`lib/calculations.ts`, `underwriting/`,
`matching.ts`, `migration/`).  Single expressions without state.

**Files, dashboard, field generation, components.**  Parsing and formatting,
derived views, a stateless proxy, React.

`PROJECT.json` lists the same parts with their status, and the hazards of the
code at their lines.

## The modules

| module | models | of |
| --- | --- | --- |
| `Ingestion` | audit chain, policies, runs, records, `runIngestion`, workers | `lib/ingestion/audit.ts`, `server/ingestion-*.ts`, `drizzle/0000`, `0001` |
| `AuditedIngestion` | what that store promises: whole operations, one event each | the same, seen from outside |
| `IngestionTypes`, `IngestionProofs` | proofs: types, the chain, policies, runs | |
| `IngestionTables`, `IngestionRefinement` | proofs: the log, counters, staged rows; the refinement of `AuditedIngestion` | |
| `ApprovalQueue` | requests, decisions, ledger, workers | `server/control-plane-store.ts`, `drizzle/0002` |
| `LeadCycle` | the automated lead cycle, its tables, the provider, workers | `server/automated-lead-*.ts`, `providers/rentcast.ts`, `drizzle/0003` |
| `LeadImport` | plan, decisions, stale check, apply, conflicts, restrictions: operators | `lib/lead-ingestion.ts`, `lib/ingestion/import-safe.ts` |
| `Workspace` | the stored document, tabs, lock, updaters, validation, migration | `lib/local-storage.ts`, `lib/import-export.ts`, `components/` |
| `Qualification` | result and order of the research queue, box and status of the launch: operators | `lib/qualification.ts`, `launch-qualification.ts` |
| `ExecutionGate` | lifecycle and authorization: operators | `lib/control-plane/control-plane-core.ts` |
| `BusinessRules` | business days, windows, the hour of the schedule: operators | `lib/compliance.ts`, `server/ingestion-scheduler.ts`, `automated-lead-runner.ts` |
| `MassGisFetch` | the pages of a retrieval, what is taken of them, when it ends: operators | `lib/ingestion/massgis.ts` |
| `Rules` | inputs of these four that change while days pass | `lib/control-plane/workspace-integration.ts`, `components/`, `lib/lead-ingestion.ts` |
| `ApprovalProofs`, `LeadCycleProofs`, `WorkspaceProofs`, `RulesProofs` | proofs about the module of that name | |
| `MC*` | instances for TLC, one module for each state machine | |

`Workspace` extends `LeadImport`; `Rules` extends `Qualification`,
`ExecutionGate`, `BusinessRules` and `MassGisFetch`; `IngestionRefinement`
extends `IngestionTables`, that `IngestionProofs`, that `IngestionTypes`, and
that `Ingestion`.

### Ingestion

A *worker* is a Worker invocation; `pc[w]` says at which `await` it is,
`job[w]` holds the local variables of `runIngestion` and `persistPage`, and
`append[w]` those of `appendAuditEvent`.

| `pc` | the call that is next | action |
| --- | --- | --- |
| `idle` | a request arrives | `ApprovePolicy`, `RequestRun`, `AcknowledgeImport` |
| `check` | `getActivePolicy` in `runIngestion` | `CheckPolicy` |
| `lookup` | `getRunByIdempotencyKey` in `createRun` | `LookupRun` |
| `overlap` | the query for a running run | `CheckOverlap` |
| `fetch` | the next page, or none | `FetchPage`, `FetchFails`, `FetchEnds` |
| `classify` | the prior row of one candidate | `ClassifyNext` |
| `head` | the head of the chain | `ReadHead` |
| `batch` | the batch | `CommitPolicy`, `CommitRun`, `CommitPage`, `CommitFinish`, `CommitImport`, `Conflict`, `RefuseRun` |

A batch is admitted if the trigger does not refuse it (`Refused`) and no
unique index does (`KeysAreFree`, `HeadIsFree`).  What a caller of
`appendAuditEvent` does when it returns or throws is `Succeed` and `Throw`:
inside the `try` block of `runIngestion` an error finishes the run as
cancelled, partial or failed; everywhere else it ends the request.
`appendAuditEvent` is the same code for every caller, so there is one set of
actions for it and the caller is told by the type of the change.

Abstractions.  A policy is its version and a run its idempotency key; both are
unique in the database.  A hash is the sequence number of its row.  A record
is a source identity with a fingerprint, or `Bad` if it does not validate; what
the source shows for a parcel is chosen anew for every retrieval.  The pages of
a retrieval are a constant, so the parcels a retrieval sees are the same each
time; their values are not.  `retrievedAt` is a counter, so two retrievals
never start in the same millisecond.  The reads that `createRun` makes in its
`catch` clause only choose the answer and are left out with the answer.

Faults: a database call can fail without effect (`error`), it can commit and
the reply, or the read that follows it, can be lost (`lostReply`), and the
platform can end an invocation (`crash`).

### ApprovalQueue

Again one `pc` and one `frame` of local variables per worker, and one action
per awaited call: `LookupKey`, `InsertRequest` for `createApprovalRequest`;
`Decide` (which reads the request), `ReadDecisions`, `MarkExpired`,
`CheckAuthority`, `InsertDecision`, `UpdateStatus` for `decideApproval`;
`ReadHead`, `AppendEvent` for `appendLedgerEvent`.  The checks between two
awaits are in the action of the call before them.  `ChangeAuthority` and
`Lapse` are the environment: no code writes authorities, and time passes.
`CutShort` covers an error, a lost reply and a crash: there is no `catch`
clause that would tell them apart.

Abstractions.  One organization.  An approval requirement is its minimum and
whether duties are separated; that a decision comes with another role or a
stale envelope hash is a choice (`mismatch`), since it only decides which check
refuses it.  The envelope and its canonical hash are left out: a request never
changes its hash, so the check of a decision's hash is the `hash` mismatch.

### LeadCycle

A worker is again an invocation, here of the trigger, and `pc[w]` the statement
that is next.

| `pc` | the call that is next | action |
| --- | --- | --- |
| `idle` | the trigger is due | `Trigger`, `Refused` |
| `retrieve` | the next staged row, or the end of the run | `StagePage`, `EndRetrieval` |
| `loop` | `getAutomatedLeadBySource` for the next row | `ReadLead`, `EndCycle` |
| `select`, `write` | the two statements of `upsertAutomatedLead` | `SelectLead`, `WriteLead` |
| `attempt` | `recordEnrichmentAttempt` | `RecordAttempt` |
| `search` | the request to RentCast | `SearchAnswers`, `RepeatSearch`, `SearchFails` |
| `enrich`, `profile` | the upsert with the owner, the owner profile | `Enrich`, `SaveProfile` |
| `succeed`, `fail` | `completeEnrichmentAttempt` | `Succeed`, `Fail` |

The inner steps of the ingestion are those of `Ingestion`; here a run stages
rows one after the other and a second delivery of the same day sees the rows
there are.  What the trigger needs to be due is `BusinessRules`.  Abstractions:
one organization and one policy; a record's content is its fingerprint with an
address; a provider property has one address and may have an owner; the
provider may answer with any property, which `providerMatches` then tests.  A
second unit of the same house matches the same property, which the unique index
refuses.

### LeadImport and Workspace

`PlanLeadImport` folds `PlanRow` over the valid rows of a file, as the code
loops: a row is skipped, a new deal, a new snapshot of a known record, a
possible duplicate or rejected, and the rows before it count.  `AttachPossible`
and `HoldPossible` are the two decisions of the preview, `CanApply` the stale
check and the check that no identity is split, `ApplyPlan` the deals, snapshots,
conflicts and restrictions it writes.  A target is an existing deal or a row of
the same plan.

In `Workspace`, a change is two steps: `Begin` is the grant of the Web Lock and
the read that follows it, `Write`, `Refuse` or `RemoveDocument` the rest of the
callback; everything in between belongs to the other tabs, and `LockIsFree` is
the lock.  `view[t]` is the snapshot a tab renders; requests (`op[t].req`) are
made from it, never from the stored document.  `Read` is `readStoredWorkspace`
with both keys and their damaged states, `MigrateV1` the migration, `Valid` the
reconstruction that every write passes, `Updated` what each updater makes of
the document it is given.  `ApplyImport`, `ImportStaged`, `SettleConflict`,
`ReleaseHold`, `AddNote` to `RemoveSheet`, `Edit`, `Restore` and `Clear` are the
handlers, with the conditions under which their controls are offered.

Abstractions.  A row keeps its identity, its property, the owner's contact
status and whether its use is restricted; the other facts are compared and
stored like the first two.  Records of the seller workspace are of five kinds:
a note refers to a deal, an exhibit can be referred to, a draft includes
exhibits, a request names a draft, and a sheet (a buyer or an analysis) is the
only record that can be deleted.  Parsing of cells is a row that is valid or
`Malformed`.  Fingerprints are the things themselves.  In a browser without Web
Locks nothing is written, which is left out.

### Qualification, ExecutionGate, BusinessRules, MassGisFetch and Rules

The first four are functions: `Qualify` with `ComesBefore` and `LaunchStatus`,
`Authorized` with the codes of its reasons, `WindowIsReady`, `MarketingIsReady`
and `IsDue`, and `TakePage`, one turn of the loop of `fetchMassGisRecords`.
Texts are model values, dates are days, `Absent` is what is missing or cannot
be parsed; the fourth root of the priority is the whole number that
`Math.round` gives.  Where the code searches its own sentences with a pattern,
the operator names the sentences the pattern finds.  The reason of a restriction
is free text that the same pattern searches: a restriction has a flag `grave`
for a reason with one of the words (probate, foreclosure, opt out, ...), and
any code may come with either.  Snapshots that were never verified compare as
not a number, so the sort leaves them as they are listed: `at` is the place of a
snapshot in the list.  The evidence of the gate is a list of snapshots or
references, or a record by id or type, whose entries need not name a content.

`Rules` makes behaviours of them: one input of one rule (`rule`), changed step
by step the way the program changes it - restrictions, conflicts, owner
statuses, snapshots and evidence arrive, conflicts are settled and restrictions
released, a buy box is saved; actions move, are decided on, asked for again,
revoked, switched off, prepared and evaluated again; windows and gates are
patched; triggers fire; pages arrive, are asked for again or fail, and parcels
leave the source, join it and are numbered anew between them - while days pass.
A saved box is one that `BuyBoxForm` accepts (`LaunchBoxIsValid`), in the form
that `normalizeLaunchBuyBox` gives it.

What the code loops over is written as a function, so that it can be reasoned
about: `AddBusinessDays` applies `NextBusinessDay` a number of times,
`WeightedScore` is the quotient of two `Total`s of six, a page is the features
whose `Rank` among the remaining ones is at most its size, and the entries of
an applied plan give `DealsAfter` in one definition.  The conditions of the
inputs (`IsDeal`, `IsContext`, `IsBox`, `IsGateInput`, `IsWindowInput`,
`Schedule`, `IsRetrievalInput`) say what the types of the program say: dates,
amounts and weights are whole numbers, confidence has three grades, and the
codes of restrictions are those of the code.  One context of the instance is
dated ahead, which the forms allow.

## What the runs check

Workers, keys and fingerprints are only compared for equality, so the safety
runs use them as a symmetry set; the liveness runs do not.

| run | bounds | states |
| --- | --- | --- |
| `IngestionContention` | 3 workers, 2 keys, one page, 2 approvals | 2.8 M |
| `IngestionStaging` | 2 workers, 2 keys, a full page and an empty one, 2 parcels, 2 fingerprints, 2 approvals | 2.4 M |
| `IngestionFaults` | 2 workers, 2 keys, one page, 2 approvals, one import in flight after another, one fault of any kind | 2.9 M |
| `IngestionAnswers` | 2 workers, 2 keys, one page, 2 approvals, fairness | 0.2 M |
| `Approvals` | 2 workers, 2 actions with one key, 2 actors, one or two approvals, one fault | 1.0 M |
| `LeadCycle` | 2 workers, 2 records at one house of which one may move, 2 properties, 2 days, one fault, fairness | 1.1 M |
| `Workspace` | 2 tabs, 3 writes, 4 files, one set of staged rows, one backup, one preview at a time, 2 records, arrays of 3 | 1.8 M |
| `Rules` | queue: 2 or 3 deals, 2 changes, days 3 to 5; gate: 3 actors, a list of snapshots or references or a record of entries, 4 changes, days 3 to 5; windows: 3 changes, days 3 to 12; schedule: every hour, 4 minutes, 3 kinds of days; retrieval: pages of 2, limits of 3 and 6, 3 sources, 7 parcels, 7 steps | 2.4 M |

`IngestionContention` takes three workers because the retry of
`appendAuditEvent` is only used up when two others commit meanwhile, and two
approvals because one policy superseding another is the case of interest.
`IngestionStaging` has a page that is full, so that the last page is the empty
one after it, two parcels so that another run can commit between two
classifications, and two fingerprints so that a record can change.
`IngestionFaults` needs two workers to interleave with the one that fails; one
fault is enough to separate a change from its event if the code let it, and a
second fault hits a request that the first has already ended, or another one.
`Approvals` has two actions with the same key for the creations, and two actors
for the decisions.  `LeadCycle` needs two records to share a house, a move to
another address for an answer that is late, and two days for rows that a cycle
left behind; one fault ends a cycle at each place.  In `Workspace` three writes
are a change by each tab and a clear or a restore between them, which is what a
stale preview takes, and the four files hold each way a row can meet a deal:
new, known, the same property from another source, one record for two
properties.  One preview at a time is a bound on the cost; a preview waits
beside every other change of both tabs.  In `Rules` the third deal has a specialist
review with a grave reason, which is what separates the two kinds of safety in
the queue and three deals in a row; the bounds let evidence of
age 2 expire, a window of three business days pass over a weekend and a
holiday, and an approval, its revocation, a new envelope and a new request
follow each other; three pages of a retrieval arrive with four moves of the
source or failures among them, and a page can be full, short, empty or cut by
the limit of the run.

Properties, by run:

- `TypeOK` (every state machine but `Rules`): every variable holds a value of
  its kind.  In `Workspace` it also says that a stored document is one that the
  next read accepts, and in `LeadCycle` that rows of one table refer to rows of
  another that exist.
- `ChainIsLinear`: the audit log is one chain.  `ActiveIsNewest`: exactly the
  newest policy is active.  `OneRetrieverPerRun`,
  `RunsStartUnderActivePolicy`: what the checks of `createRun` and
  `runIngestion` are for, although each is stale when the insert commits.
- `CountersMatchRows`: the counters of a run are the rows it staged and the
  pages it retrieved.  `SafeTwiceOnlyAcrossPolicies`: a parcel is new twice
  only for runs of different policies that overlap.  `StagedRunIsComplete`:
  a staged run has staged all its pages.
- `AuditExplainsState`: the tables are what replaying the log gives.
  `ImportsCountOnce`: repeated acknowledgements count once.
  `EndedRunIsFrozen`: an ended run never runs again nor changes its rows.
  `ImplementsAtomicOperations`: the interleaved workers implement
  `AuditedIngestion`, where each operation is one step with one event.  The
  refinement mapping drops the hashes from the log and keeps the tables.
- `RequestsAreAnswered`: every accepted request ends.
- `StatusHasACause`: an approved request has the approvals it needs, from
  distinct approvers; a rejected one a rejection; an expired one is past its
  time.  `OneRequestPerKey`.  `SettledOnlyByDecisionsInFlight`: only a decision
  that was on its way while the request was pending changes a settled status.
  `LedgerIsTrue`: events are facts, once each, linked backwards.
  `MissingOnlyByFaults`: an event is missing for good only if an invocation was
  cut short.

- `IdentityOnOneDeal`: a source record never ends up on two deals.
  `StopsStay`: a stop that a source asserted stays open.
  `DifferencesSurfaced`: what a snapshot says differently is canonical or one
  side of a conflict.  `HistoryIsKept`: a change by one tab loses nothing that
  another wrote.  `NewDealsAreNewProperties`: applying a plan makes a deal only
  of a property the workspace does not have then.  A clear starts the revisions
  again, so the fingerprint is what keeps a plan from another workspace.
- `OwnerIsOfThisAddress`: the owner of a lead was found at the address of the
  content the lead was made of.  `SuccessLeavesProfile`: no attempt succeeded
  without a profile.  `OwnerIsKept`: an owner is lost only to a new version of
  the record, or to an invocation that read the lead earlier.
  `StagedRowsBecomeLeads`: without faults and overlap every staged row becomes a
  lead, whatever the provider does.
- `SafetyWorkComesFirst`: a deal that must not be contacted, is held, or has a
  reason on record that speaks of safety comes before every deal that is none of
  these; the first two come before the third, unless a review by a specialist is
  what is recommended for both; and the order runs in no circle through one of
  them.  `OnlyResearchClears`: time and new risks never clear a
  deal whose evidence is not dated ahead.
  `GateIsSound`: an authorized action has enough different people whose
  authority stands and who approve of this envelope, and every piece of its
  evidence is in force and has the content that the envelope names, where the
  snapshot names one.  `WindowsElapseFirst`: a
  window that reports ready has three whole business days behind it, counted by
  their definition and not by the cursor of the code.  `DailyRunHappensOnce`: a
  schedule runs once on every day that has a full hour for it.
  `NothingIsOverlooked`: a retrieval that ends before its limit has seen every
  parcel that stayed, but at most one for each that left, and takes none twice.

Fairness.  `FairSpec` of `Ingestion` says that a request that has been accepted
goes on: the event loop resumes an `await` when its promise settles, a statement
of D1 settles, and every MassGIS request carries a timeout.  It is weak fairness
of each worker's own steps together; the arrival of requests, faults and which
of several outcomes a retrieval has are not fair.  `FairSpec` of `LeadCycle` is
the same for an invocation of the trigger: its statements settle, and a request
to RentCast is answered, refused or timed out, and repeated once at most.  A new
day, a delivery of the trigger and the outcome of a request are not fair.

Deadlock is checked in the runs of `Ingestion` and `ApprovalQueue`: an idle
worker can always be asked for something.  The other three systems stop when
their bound does, after the last day, write or change, and say so in their
configurations.

## What is proved

Every invariant and every action property that a passing run checks is also a
theorem, proved by TLAPS for all values of the constants: any number of
workers, tabs, actors, keys, records, pages, days and faults, any documents and
any inputs that the assumptions admit.  So is the refinement.

| module | theorem | property | inductive invariant |
| --- | --- | --- | --- |
| `IngestionTypes` | `TypeCorrect` | `TypeOK` | `TypeInv` |
| `IngestionProofs` | `AuditLogIsOneChain` | `ChainIsLinear` | `ChainInv` |
| | `NewestPolicyIsActive` | `ActiveIsNewest` | itself |
| | `RunsOfAPolicyAreExclusive` | at most one run of a policy runs | itself |
| | `RetrieverIsUnique` | `OneRetrieverPerRun` | `OwnerInv` |
| | `RunsStartActive` | `RunsStartUnderActivePolicy` | `TypeInv` |
| `IngestionTables` | `EndedRunsStay` | `EndedRunIsFrozen` | `OwnerInv` |
| | `LogExplainsTables` | `AuditExplainsState` | `LogInv`, `PageFrames` |
| | `ImportsAreCountedOnce` | `ImportsCountOnce` | `ImportInv` |
| | `StagedMeansComplete` | `StagedRunIsComplete` | `StagedInv` |
| | `CountersAreRight` | `CountersMatchRows` | `CountersInv` |
| | `SafeRowsAreOfDifferentPolicies` | `SafeTwiceOnlyAcrossPolicies` | `ClockInv`, `SafeInv` |
| `IngestionRefinement` | `ImplementsTheOperations` | `ImplementsAtomicOperations` | `FinishInv`, `NoRunInv` |
| `ApprovalProofs` | `QueueTypeIsCorrect` | `TypeOK` | `QueueInv` |
| | `EveryStatusHasACause` | `StatusHasACause` | `QueueInv` |
| | `OneRequestForEachKey` | `OneRequestPerKey` | `QueueInv` |
| | `SettledChangesInFlightOnly` | `SettledOnlyByDecisionsInFlight` | `QueueInv` |
| | `LedgerRecordsWhatHappened` | `LedgerIsTrue` | `LedgerInv` |
| | `MissingIsLostToFaults` | `MissingOnlyByFaults` | `MissingInv` |
| `LeadCycleProofs` | `CycleTypeIsCorrect` | `TypeOK` | `CycleInv` |
| | `OwnerLivesThere` | `OwnerIsOfThisAddress` | `CycleInv` |
| | `SuccessHasProfile` | `SuccessLeavesProfile` | `CycleInv` |
| | `OwnerIsNotLost` | `OwnerIsKept` | `CycleInv` |
| `WorkspaceProofs` | `WorkspaceTypeIsCorrect` | `TypeOK` | `WorkspaceInv` |
| | `IdentityStaysOnOneDeal` | `IdentityOnOneDeal` | `WorkspaceInv` |
| | `StopsStayHeld` | `StopsStay` | `WorkspaceInv` |
| | `DifferencesStaySurfaced` | `DifferencesSurfaced` | `WorkspaceInv` |
| | `HistoryStays` | `HistoryIsKept` | `WorkspaceInv` |
| | `OnlyNewPropertiesAreAdded` | `NewDealsAreNewProperties` | `WorkspaceInv` |
| `RulesProofs` | `HeldDealsComeFirst` | `SafetyWorkComesFirst` | `RulesInv` |
| | `ResearchAloneClears` | `OnlyResearchClears` | `RulesInv` |
| | `OnlyTheAuthorizedIsExecuted` | `GateIsSound` | `RulesInv` |
| | `NoWindowIsCutShort` | `WindowsElapseFirst` | `RulesInv` |
| | `EachDayRunsOnce` | `DailyRunHappensOnce` | `RulesInv` |
| | `NoParcelIsOverlooked` | `NothingIsOverlooked` | `RetrievalIsKept` |

`QueueInvHolds`, `CycleInvHolds`, `WorkspaceInvHolds` and `InputsStay` state the
inductive invariants themselves.

### From which assumptions

Each is a named `ASSUME` that TLC evaluates in every run of the module.

- `ConstantsAssumption` (`Ingestion`): pages are disjoint sets of finitely many
  identities, `Bad` is no fingerprint, bounds are naturals.
- `RequirementsAssumption` (`ApprovalQueue`): a requirement asks for at least one
  approval, as the validation of an action does.
- `LeadCycleAssumption`: every content and every property has an address, and
  the absence of a lead is no lead.
- `WorkspaceAssumption`, `StartsAssumption`: the documents that a browser or a
  backup begins with were written by this program, or are damaged beyond
  reading.  A backup edited by hand is validated in form only, and could claim a
  snapshot without the hold it asks for; no theorem speaks of it.
- `NeverAssumption`, `ContactsAssumption`: what means "none" is none of the
  others.
- `RulesAssumption`: the inputs a behaviour begins with, the evidence that may
  arrive and the boxes that may be saved are of their types.  The source of a
  retrieval gives no two features one object id.

### Along which argument

*Ingestion.*  `TypeOK` is not inductive, because what a commit writes comes
from local variables whose contents depend on where the worker is; `Frames`
adds that a worker in `runIngestion` has a run, a worker in `appendAuditEvent`
a change, that a version computed for an approval is at most one more than the
number of policies, and that an import names staged rows.  A step is then
split into those that commit nothing (`QuietMoves`: one worker moves, and takes
up no run) and commits (`CommitMoves`).  The chain is linear because a head
that some worker has read is at most the length of the log (`ChainInv`), and a
lower one already has a successor, so the unique index refuses it.  The same
way a stale policy version is at most the newest, and then taken
(`PolicyAppended`).  A run has one retriever because a worker acts for a run
only after its own insert of that run committed (`OwnerInv`), and the key is
unique.

What a page commits was prepared record by record while others wrote, so
`PageFrames` says what the page in hand may hold at every record, and of which
pages.  `LogInv` counts the events of each run: none before it starts, at most
one start, at most one end and that after all pages; replaying the log is then
a matter of the last event.  `StagedInv` ties the pages a worker has persisted
to the events of its run, `CountersInv` the counters to rows and pages.  For
`SafeTwiceOnlyAcrossPolicies` rows are compared by the time at which their run
retrieved.  Runs of one policy do not overlap, so while a page with a safe row
is in hand, whoever staged the same parcel since did so under another policy
(`SafeInv`).

*The refinement.*  Every commit is the operation of `AuditedIngestion` that its
change names, with the tables as the mapping and the log without its hashes,
and every other step leaves them.  The one hard case is the end of a run:
`FinishInv` says that a run its owner is about to end is still running, or is
already called staged and is being ended as something less.

*Approvals.*  `QueueInv` adds to the types what a worker has read (`Frame`):
the approvals it has counted are no more than the table holds, its own not
among them before it is inserted, a request it expires has lapsed, and an actor
decides once on a request.  Each status a worker is about to write therefore
has its cause already, and tables only grow (`TablesGrow`), so a cause is never lost.
`LedgerInv`: an event in hand has happened, is in nobody else's hand and is not
in the ledger.  `MissingInv`: the events that are neither in the ledger nor in
a worker's hands are those of invocations that were cut short, at most one for
each.

*Lead cycle.*  `CycleInv` holds for each place of an invocation what its row,
the lead it has seen, the property it was given and the recorded attempt have
to do with each other (`Job`).  Tables only grow, so a `Job` of one worker
survives the steps of the others (`JobIsStable`).

*Workspace.*  The invariant is a property of every document that a tab may
meet, stored or rendered: `IsKept`, which contains the first three properties.
It is kept by every updater (`IsKept` in, `IsKept` out), one lemma for each.
`LockInv` says that the tab that holds the lock is alone with it and has read
the document as it still is, which turns a read followed by a write into one
step.  `PlanIsSound` is what a plan promises for the workspace whose
fingerprint it carries; a plan outlives that workspace, and `CanApply` is what
makes the promise count again.  `PlanLeadImport` folds over the rows of a file;
the induction over its rows is a least row at which the promise fails
(`LeastNat`).

*Rules.*  `RulesInv` is only that the changes keep the inputs of their types
(and, of a schedule, which triggers made its run); the work is about the
functions, for every input.  The fourth root is bounded by comparing fourth
powers, so no product of factors rounds up to the priority of a held deal, and
urgent work never falls below its class.  Deals of that priority are held, so
none has a score (`ItemsAreRanked`), and they compare by three numbers, which
has no circle; what is recommended for them tells the two kinds apart
(`ActionOfSafety`): contact, identity and ownership stand before the specialist
in the order of the sentences, a restricted source behind.  `ResearchAloneClears` compares two
evaluations component by component (`Ages`): each is what it was or has become
unassessed, since what is selected, trusted or verified later was so before.
What is lost makes work urgent (`UrgentStays`), and where nothing is lost that
the score counts, the scores are the same.  `LastDayExists` finds the third
business day behind a window, `ThirdBusinessDay` counts the days between.
`RetrievalInv` bounds the parcels overlooked by those that left: a
departure moves at most one parcel from behind the offset to before it.

### What is only model-checked

- Liveness, which needs the fairness of the specification and `ENABLED`:
  `RequestsAreAnswered` of `Ingestion` and `StagedRowsBecomeLeads` of
  `LeadCycle`.
- The four violations, which are counterexamples and need no proof.
- That the runs reach the interesting cases; a theorem about a specification
  that could not take a step would hold as well.

## What the code does differently from its documents

Four runs are expected to find a violation; each checks what a document says.

- `OverlappingRuns`: there is no lease, and runs of two policies overlap.
- `StuckRun`: a run whose `finishRun` loses two races stays running, its policy
  can start no other run, and nothing recovers it.  Without any fault: two
  workers are enough.
- `RevertedRecord`: a parcel that returns to an earlier value is classified as
  changed and refused by the unique index on identity and fingerprint, and its
  page with it.
- `LedgerFork`: two appends link to the same event.  `verifyLedger` would also
  refuse the stored rows because the hashed sequence number is always 0.

Met on the way, and not contradicted by a document that a run could check:

- `decideApproval` counts the approvals it has read and its own, so two
  concurrent approvers each write `PENDING` over a request that has enough
  approvals, and a late approval overwrites a rejection; and a request whose
  ledger event failed never gets one.
- The gate holds every decision against every requirement: two requirements of
  different roles can never both be met, one request that has expired or names
  an older envelope blocks the action for good, a decision `REJECT` is passed
  over, and the word `APPROVED` that the store writes does not count.
- A cycle that throws or is cut off leaves rows that later runs hold for
  duplicates.  Two deliveries of one day can blank an owner, or throw.  A lead
  whose search failed is not searched again unless its row comes again; a lead
  that changes while it is read as available stays blank.  Two units of one
  house compete for one provider property, and the second fails for good.
- A schedule at 23:01 or later has no full hour left in its day, and a schedule
  from 1:01 to 2:00 is skipped on the day the clocks go forward.
- On an empty browser every read stamps a new document, so a preview made
  before the first write can never be applied: its fingerprint differs.
- A version-1 contact "DNC" is read, but `migrationRestriction` does not know
  it, and no change of that workspace is valid until it is replaced.  When the
  second removal of a clear fails, the legacy document comes back.
- Choosing the canonical side of a conflict writes nothing, also if the
  canonical value has changed since the conflict was recorded.
- A disqualifying figure that goes stale becomes a gap (the exception in
  `OnlyResearchClears`), and evidence dated ahead counts when its day comes: a
  deal is then scored without any change (`NothingIsDatedAhead`, found when the
  property was to be proved).  A component without weight is not missed; a verified
  buyer with a gap blocks the demand of all until it expires.  Without a usable
  buy box a deal that must not be contacted has no priority, the precondition of
  `SafetyWorkComesFirst`.
- A box of the launch names types canonically, a deal may not: a "two-family
  residential" is outside a box of "duplexes".
- A parcel that leaves between two pages moves the others forward, and one is
  overlooked; one that joins makes the retrieval fail, or, if the one that is
  seen again is rejected, counts its rejection twice.
- A deal that must not be contacted and whose first restriction is a specialist
  review is recommended that review: it ties with a deal that only has a review
  for, say, a probate, and the older of the two comes first.
- The comparison of the research queue is not transitive beyond that property:
  two scored deals are compared by score, a scored and another deal by the text
  of the recommended action.  Of two snapshots that were never verified neither
  comes first.
- Evidence that is given to the gate as a record is compared with the envelope
  only where its entry has a `contentHash`; without one, evidence that was
  replaced after the approval passes.

## What is not modelled

Reads that only answer a request; authentication and the same-origin check;
the text of events, answers and results; the rendering of the React components
and the drafts of their forms; parsing and formatting of CSV, XLSX and JSON.
D1 is taken to be serializable per statement and per batch, local storage per
key, hashes to be free of collisions.

- *MassGIS records*: which values of which fields a record needs to be accepted,
  and its fingerprints; `MassGisFetch` has a flag for it.  `Ingestion` leaves
  open whether a page comes or fails and takes the pages themselves as given.
- *Webhooks, field generation, the other providers*: one statement or one
  request without state.
- *Calculations, matching, reconciliation*: single expressions,
  most over floating point numbers.
- *Policy contract*: validation of a policy that is a version here.
- `AuthorizedCsvImport`, `QualificationPanel` and `BuyBoxForm` are mounted by
  no page at this commit, and no page calls `importSafeRecords`, `replaceData`
  or `clearData`; their functions are exported and tested, and are modelled as
  the operations they are.  So are the scheduler, whose rule the Worker has a
  second time in `runDueAutomatedLeadCycles`, and the gate, which no route calls.

## The plan

*Done*: the ingestion with its audit chain, the approval queue with its ledger,
the lead cycle, the workspace with imports, and the rules of the queue, the
gate, the windows, the schedule and the retrieval; a proof of every safety and
action property of these, and of the refinement.

*Next*:

1. Abstract specifications of the approval queue and of the workspace: a
   request that is decided in one step, a document that is changed in one step,
   and the refinement by what is modelled, as for the ingestion.
2. Theorems about the functions that no run can state for every value: that the
   comparison of the queue is antisymmetric, that a normalized box is valid and
   normalized, that the lifecycle leaves no terminal state.
3. The replay key of the webhooks and the requester of an envelope, the two
   hazards that no property covers.
