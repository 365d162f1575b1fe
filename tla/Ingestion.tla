------------------------------ MODULE Ingestion ------------------------------
(***************************************************************************)
(* The server side of the MassGIS ingestion: source policies, ingestion    *)
(* runs, staged source records and the hash-chained audit log they share   *)
(* in one D1 database, as server/ingestion-store.ts, ingestion-runner.ts   *)
(* and lib/ingestion/audit.ts drive it.                                    *)
(*                                                                         *)
(* Several Worker invocations (HTTP requests and the hourly trigger) run   *)
(* at once.  Every awaited database call is a step of its own; what is     *)
(* atomic is one statement, or one db.batch.  So a value that a worker     *)
(* reads may be stale by the time its batch commits, and the unique        *)
(* indexes of drizzle/0000 and the trigger of drizzle/0001 are what keeps  *)
(* the tables in order.                                                    *)
(*                                                                         *)
(* Names.  A policy is named by its version, a run by its idempotency key  *)
(* (both have a unique index, so at most one row bears the name).  The     *)
(* hash of the audit row with sequence number n is named n, and the        *)
(* genesis hash 0: SHA-256 is taken to be free of collisions.              *)
(***************************************************************************)
EXTENDS Integers, Sequences, FiniteSets

CONSTANTS
  Workers,      \* Worker invocations in flight
  Keys,         \* idempotency keys of the run requests
  Identities,   \* source identities of the parcels
  Fps,          \* normalized fingerprints a parcel can have
  Bad,          \* what the source shows for a record that fails validation
  Pages,        \* the pages a run retrieves: a sequence of sets of identities
  MaxPolicies,  \* bound: policy approvals requested
  MaxImports,   \* bound: import acknowledgements committed before the last one
  Faults,       \* which database and Worker faults occur
  MaxFaults     \* bound: how many of them

ASSUME ConstantsAssumption ==
  /\ Bad \notin Fps
  /\ IsFiniteSet(Identities)
  /\ Pages \in Seq(SUBSET Identities)
  /\ \A i, j \in DOMAIN Pages : i # j => Pages[i] \cap Pages[j] = {}
  /\ MaxPolicies \in Nat
  /\ MaxImports \in Nat
  /\ MaxFaults \in Nat
  /\ Faults \subseteq {"crash", "error", "lostReply"}

VARIABLES
  \* The database.
  policies,   \* source_policies: the status of each version
  runs,       \* ingestion_runs, by idempotency key
  records,    \* source_records
  imported,   \* the records whose imported_at is set
  audit,      \* audit_events, in the order of their sequence numbers
  \* The Worker invocations.
  pc,         \* where each one is
  job,        \* what runIngestion keeps in local variables
  append,     \* what appendAuditEvent keeps in local variables
  clock,      \* orders the retrievedAt timestamps of the runs
  faults      \* faults that have happened

db   == <<policies, runs, records, imported, audit>>
vars == <<policies, runs, records, imported, audit,
          pc, job, append, clock, faults>>

-----------------------------------------------------------------------------
(* Rows, and the values of the local variables.                            *)

RunStatus  == {"none", "running", "staged", "cancelled", "partial", "failed"}
Terminal   == {"staged", "cancelled", "partial", "failed"}
Counts     == [safe : Nat, changed : Nat, duplicate : Nat, exception : Nat]
ZeroCounts == [safe |-> 0, changed |-> 0, duplicate |-> 0, exception |-> 0]

Row == [run : Keys, identity : Identities, fp : Fps \cup {Bad}, at : Nat,
        class : {"safe", "changed", "exception"}]

Run == [status : RunStatus, policy : Nat, counts : Counts,
        imported : Nat, failed : Nat]

\* The run a key names before createRun has inserted it.
NoRun == [status |-> "none", policy |-> 0, counts |-> ZeroCounts,
          imported |-> 0, failed |-> 0]

\* One state change and the audit event that describes it: the statements
\* and the event that appendAuditEvent commits in one batch.
Change ==
       [type : {"policy-approved"}, version : Nat]
  \cup [type : {"run-started"}, run : Keys, policy : Nat]
  \cup [type : {"page-staged"}, run : Keys, rows : SUBSET Row, counts : Counts]
  \cup [type : {"run-finished"}, run : Keys, status : Terminal]
  \cup [type : {"records-imported"}, rows : SUBSET Row]

NoChange == [type |-> "none"]
NoAppend == [change |-> NoChange, attempt |-> 0, head |-> 0]

\* run, policy: the run and the policy it was requested under;
\* page: the last page fetched; persisted: pages staged;
\* at: retrievedAt; todo: candidates of the page not yet classified;
\* rows, counts: what persistPage has built so far for the page.
NoJob == [run |-> "none", policy |-> 0, page |-> 0, persisted |-> 0, at |-> 0,
          todo |-> {}, rows |-> {}, counts |-> ZeroCounts]

Locations == {"idle", "check", "lookup", "overlap", "fetch", "classify",
              "head", "batch"}

AddCounts(a, b) ==
  [safe |-> a.safe + b.safe, changed |-> a.changed + b.changed,
   duplicate |-> a.duplicate + b.duplicate,
   exception |-> a.exception + b.exception]

ActiveVersions == {v \in DOMAIN policies : policies[v] = "active"}

\* The runs that the partial index ingestion_runs_one_active_per_policy holds.
RunningUnder(v) == {k \in Keys : runs[k].status = "running" /\ runs[k].policy = v}

Init ==
  /\ policies = <<>>
  /\ runs = [k \in Keys |-> NoRun]
  /\ records = {}
  /\ imported = {}
  /\ audit = <<>>
  /\ pc = [w \in Workers |-> "idle"]
  /\ job = [w \in Workers |-> NoJob]
  /\ append = [w \in Workers |-> NoAppend]
  /\ clock = 0
  /\ faults = 0

-----------------------------------------------------------------------------
(* Control of one worker.                                                  *)

Go(w, l) == pc' = [pc EXCEPT ![w] = l]

\* The request is answered, with a result or with an error.
Return(w) ==
  /\ Go(w, "idle")
  /\ job' = [job EXCEPT ![w] = NoJob]
  /\ append' = [append EXCEPT ![w] = NoAppend]

\* Call appendAuditEvent.
CallAppend(w, change) ==
  /\ Go(w, "head")
  /\ append' = [append EXCEPT ![w] =
                  [change |-> change, attempt |-> 0, head |-> 0]]

\* The catch clause of runIngestion: an aborted signal makes the run
\* cancelled, any other error partial or failed.  The signal may be aborted
\* at any time, so both are possible.
CatchStatus(w) ==
  {"cancelled", IF job[w].persisted > 0 THEN "partial" ELSE "failed"}

CatchRunError(w) ==
  \E s \in CatchStatus(w) :
    CallAppend(w, [type |-> "run-finished", run |-> job[w].run, status |-> s])

-----------------------------------------------------------------------------
(* approvePolicy: read MAX(version), then append.  The version is read     *)
(* once, outside the retry of appendAuditEvent.                            *)

ApprovePolicy(w) ==
  /\ pc[w] = "idle"
  /\ Len(policies) < MaxPolicies
  /\ CallAppend(w, [type |-> "policy-approved", version |-> Len(policies) + 1])
  /\ UNCHANGED <<db, job, clock, faults>>

(* A run request: the API or the hourly trigger reads the active policy    *)
(* and calls runIngestion with it.                                         *)
RequestRun(w, k) ==
  /\ pc[w] = "idle"
  /\ \E v \in ActiveVersions :
       job' = [job EXCEPT ![w] = [NoJob EXCEPT !.run = k, !.policy = v]]
  /\ Go(w, "check")
  /\ UNCHANGED <<db, append, clock, faults>>

(* runIngestion reads the active policy again and compares.                *)
CheckPolicy(w) ==
  /\ pc[w] = "check"
  /\ IF job[w].policy \in ActiveVersions
     THEN Go(w, "lookup") /\ UNCHANGED <<job, append>>
     ELSE Return(w)
  /\ UNCHANGED <<db, clock, faults>>

\* Mutant of LookupRun: an existing run is retrieved for once more.
LookupRunAndResume(w) ==
  /\ pc[w] = "lookup"
  /\ IF runs[job[w].run].status = "none" THEN Go(w, "overlap") ELSE Go(w, "fetch")
  /\ UNCHANGED <<db, job, append, clock, faults>>

(* createRun: a run with this idempotency key is returned as it is ...     *)
LookupRun(w) ==
  /\ pc[w] = "lookup"
  /\ IF runs[job[w].run].status = "none"
     THEN Go(w, "overlap") /\ UNCHANGED <<job, append>>
     ELSE Return(w)
  /\ UNCHANGED <<db, clock, faults>>

(* ... an active run of the policy refuses the request, otherwise insert.  *)
CheckOverlap(w) ==
  /\ pc[w] = "overlap"
  /\ IF RunningUnder(job[w].policy) = {}
     THEN /\ CallAppend(w, [type |-> "run-started", run |-> job[w].run,
                            policy |-> job[w].policy])
          /\ UNCHANGED job
     ELSE Return(w)
  /\ UNCHANGED <<db, clock, faults>>

-----------------------------------------------------------------------------
(* fetchMassGisRecords and persistPage.                                    *)

(* One page arrives.  The source may show anything for a parcel: MassGIS   *)
(* edits its records between and during runs.  A record that does not      *)
(* validate becomes an exception row; persistPage starts with the rest.    *)
FetchPage(w) ==
  /\ pc[w] = "fetch"
  /\ job[w].page < Len(Pages)
  /\ \E shown \in [Pages[job[w].page + 1] -> Fps \cup {Bad}] :
       LET Valid    == {i \in DOMAIN shown : shown[i] # Bad}
           Rejected == DOMAIN shown \ Valid
           next == [job[w] EXCEPT
                      !.page = @ + 1,
                      !.todo = {<<i, shown[i]>> : i \in Valid},
                      !.rows = {[run |-> job[w].run, identity |-> i, fp |-> Bad,
                                 at |-> job[w].at, class |-> "exception"]
                                : i \in Rejected},
                      !.counts = [ZeroCounts EXCEPT
                                    !.exception = Cardinality(Rejected)]]
       IN  /\ job' = [job EXCEPT ![w] = next]
           /\ IF next.todo = {}
              THEN CallAppend(w, [type |-> "page-staged", run |-> next.run,
                                  rows |-> next.rows, counts |-> next.counts])
              ELSE Go(w, "classify") /\ UNCHANGED append
  /\ UNCHANGED <<db, clock, faults>>

(* The retrieval fails: HTTP error after the retries, schema change,       *)
(* inconsistent pagination, or the abort signal.                           *)
FetchFails(w) ==
  /\ pc[w] = "fetch"
  /\ job[w].page < Len(Pages)
  /\ CatchRunError(w)
  /\ UNCHANGED <<db, job, clock, faults>>

\* Mutant of FetchEnds: the last page is not awaited.
FetchEndsEarly(w) ==
  /\ pc[w] = "fetch"
  /\ job[w].page >= Len(Pages) - 1
  /\ CallAppend(w, [type |-> "run-finished", run |-> job[w].run,
                    status |-> "staged"])
  /\ UNCHANGED <<db, job, clock, faults>>

(* Every page has been staged.                                             *)
FetchEnds(w) ==
  /\ pc[w] = "fetch"
  /\ job[w].page = Len(Pages)
  /\ CallAppend(w, [type |-> "run-finished", run |-> job[w].run,
                    status |-> "staged"])
  /\ UNCHANGED <<db, job, clock, faults>>

\* The rows of an identity, and of those the ones retrieved last.
RowsOf(i) == {r \in records : r.identity = i /\ r.class # "exception"}
Latest(i) == {r \in RowsOf(i) : \A s \in RowsOf(i) : s.at <= r.at}

\* Mutant of Classify: another fingerprint is no reason for a review.
ClassifyAsSafe(i, fp) ==
  IF \E r \in Latest(i) : r.fp = fp THEN "duplicate" ELSE "safe"

\* What persistPage does with a candidate, given the latest row it has read.
Classify(i, fp) ==
  IF \E r \in Latest(i) : r.fp = fp THEN "duplicate"
  ELSE IF Latest(i) # {} THEN "changed"
  ELSE "safe"

(* persistPage reads the latest row of one candidate and classifies it;    *)
(* after the last candidate it calls appendAuditEvent.                     *)
ClassifyNext(w) ==
  /\ pc[w] = "classify"
  /\ \E c \in job[w].todo :
       LET class == Classify(c[1], c[2])
           next == [job[w] EXCEPT
                      !.todo = @ \ {c},
                      !.rows = IF class = "duplicate" THEN @
                               ELSE @ \cup {[run |-> job[w].run, identity |-> c[1],
                                             fp |-> c[2], at |-> job[w].at,
                                             class |-> class]},
                      !.counts = [job[w].counts EXCEPT ![class] = @ + 1]]
       IN  /\ job' = [job EXCEPT ![w] = next]
           /\ IF next.todo = {}
              THEN CallAppend(w, [type |-> "page-staged", run |-> next.run,
                                  rows |-> next.rows, counts |-> next.counts])
              ELSE UNCHANGED <<pc, append>>
  /\ UNCHANGED <<db, clock, faults>>

-----------------------------------------------------------------------------
(* markRecordsImported: the browser names records; those that are safe or  *)
(* changed are acknowledged.                                               *)

ImportEvents == {n \in DOMAIN audit : audit[n].change.type = "records-imported"}

AcknowledgeImport(w, named) ==
  /\ pc[w] = "idle"
  /\ Cardinality(ImportEvents) < MaxImports
  /\ CallAppend(w, [type |-> "records-imported",
                    rows |-> {r \in named : r.class # "exception"}])
  /\ UNCHANGED <<db, job, clock, faults>>

-----------------------------------------------------------------------------
(* appendAuditEvent: read the head of the chain, then commit the state     *)
(* change and the event in one batch.  A unique conflict is retried once.  *)

ReadHead(w) ==
  /\ pc[w] = "head"
  /\ append' = [append EXCEPT ![w] = [@ EXCEPT !.head = Len(audit)]]
  /\ Go(w, "batch")
  /\ UNCHANGED <<db, job, clock, faults>>

\* Mutant of HeadIsFree: the column has no unique index.
AnyHeadIsFree(h) == TRUE

\* The unique index on audit_events.previous_hash.
HeadIsFree(h) == \A n \in DOMAIN audit : audit[n].previous # h

\* The trigger ingestion_runs_require_active_policy.
PolicyIsActive(v) == v \in ActiveVersions

\* Mutant of KeysAreFree: without ingestion_runs_one_active_per_policy.
KeysAreFreeBarOverlap(c) ==
  CASE c.type = "policy-approved" -> c.version \notin DOMAIN policies
    [] c.type = "run-started" -> runs[c.run].status = "none"
    [] OTHER -> TRUE

\* The unique indexes on the tables that the change writes.
KeysAreFree(c) ==
  CASE c.type = "policy-approved" -> c.version \notin DOMAIN policies
    [] c.type = "run-started" -> /\ runs[c.run].status = "none"
                                 /\ RunningUnder(c.policy) = {}
    [] c.type = "page-staged" ->
         \A r \in c.rows, s \in records :
           r.class = "exception" \/ s.class = "exception"
             \/ <<r.identity, r.fp>> # <<s.identity, s.fp>>
    [] OTHER -> TRUE

\* Mutant of Refused: without the trigger.
NothingRefused(c) == FALSE

\* The trigger runs before the insert, so it decides first.
Refused(c)     == c.type = "run-started" /\ ~PolicyIsActive(c.policy)
Admitted(w)    == /\ ~Refused(append[w].change)
                  /\ KeysAreFree(append[w].change)
                  /\ HeadIsFree(append[w].head)
Conflicting(w) == ~Refused(append[w].change) /\ ~Admitted(w)

\* What the caller of appendAuditEvent does when it throws.  createRun's
\* catch clause only reads, to choose between the existing run and an error;
\* either way the request is over.  Inside runIngestion's try block the run
\* is finished as cancelled, partial or failed; outside it nothing is.
Throw(w) ==
  LET c == append[w].change
  IN  IF c.type = "page-staged" \/ (c.type = "run-finished" /\ c.status = "staged")
      THEN CatchRunError(w) /\ UNCHANGED job
      ELSE Return(w)

\* ... and when it returns.  retrievedAt is taken when the retrieval starts.
Succeed(w) ==
  LET c == append[w].change
      j == job[w]
  IN  IF c.type \in {"run-started", "page-staged"}
      THEN /\ Go(w, "fetch")
           /\ append' = [append EXCEPT ![w] = NoAppend]
           /\ job' = [job EXCEPT ![w] =
                        IF c.type = "run-started" THEN [j EXCEPT !.at = clock + 1]
                        ELSE [j EXCEPT !.persisted = j.persisted + 1, !.rows = {},
                                       !.counts = ZeroCounts]]
           /\ clock' = IF c.type = "run-started" THEN clock + 1 ELSE clock
      ELSE Return(w) /\ UNCHANGED clock

Fault(kind) ==
  /\ kind \in Faults
  /\ faults < MaxFaults
  /\ faults' = faults + 1

\* Mutant of Commit: the event is written after the batch, so that an error
\* in between leaves the state change without its event.
CommitThenAudit(w) ==
  /\ pc[w] = "batch"
  /\ Admitted(w)
  /\ \/ /\ audit' = Append(audit, [previous |-> append[w].head,
                                   change |-> append[w].change])
        /\ Succeed(w)
        /\ UNCHANGED faults
     \/ Fault("lostReply") /\ Throw(w) /\ UNCHANGED <<audit, clock>>

\* The batch commits, and the caller sees it; or the reply, or the read of
\* the stored event that follows, is lost, and the caller sees an error.
Commit(w) ==
  /\ pc[w] = "batch"
  /\ Admitted(w)
  /\ audit' = Append(audit, [previous |-> append[w].head,
                             change |-> append[w].change])
  /\ \/ Succeed(w) /\ UNCHANGED faults
     \/ Fault("lostReply") /\ Throw(w) /\ UNCHANGED clock

\* Mutant of CommitPolicy: the approved policy does not supersede.
CommitPolicyBesideOld(w) ==
  /\ append[w].change.type = "policy-approved"
  /\ Commit(w)
  /\ LET new == append[w].change.version
     IN  policies' = [v \in DOMAIN policies \cup {new} |->
                        IF v = new THEN "active" ELSE policies[v]]
  /\ UNCHANGED <<runs, records, imported>>

CommitPolicy(w) ==
  /\ append[w].change.type = "policy-approved"
  /\ Commit(w)
  /\ LET new == append[w].change.version
     IN  policies' = [v \in DOMAIN policies \cup {new} |->
                        IF v = new THEN "active" ELSE "superseded"]
  /\ UNCHANGED <<runs, records, imported>>

CommitRun(w) ==
  /\ append[w].change.type = "run-started"
  /\ Commit(w)
  /\ LET c == append[w].change
     IN  runs' = [runs EXCEPT ![c.run] = [NoRun EXCEPT !.status = "running",
                                                       !.policy = c.policy]]
  /\ UNCHANGED <<policies, records, imported>>

\* Mutant of CommitPage: the counters are set, not increased.
CommitPageResetsCounts(w) ==
  /\ append[w].change.type = "page-staged"
  /\ Commit(w)
  /\ LET c == append[w].change
         run == runs[c.run]
     IN  /\ records' = records \cup c.rows
         /\ runs' = [runs EXCEPT ![c.run] = [run EXCEPT !.counts = c.counts]]
  /\ UNCHANGED <<policies, imported>>

CommitPage(w) ==
  /\ append[w].change.type = "page-staged"
  /\ Commit(w)
  /\ LET c == append[w].change
         run == runs[c.run]
     IN  /\ records' = records \cup c.rows
         /\ runs' = [runs EXCEPT ![c.run] =
                       [run EXCEPT !.counts = AddCounts(run.counts, c.counts)]]
  /\ UNCHANGED <<policies, imported>>

CommitFinish(w) ==
  /\ append[w].change.type = "run-finished"
  /\ Commit(w)
  /\ LET c == append[w].change
         run == runs[c.run]
         failures == IF c.status \in {"failed", "partial"} THEN 1 ELSE 0
     IN  runs' = [runs EXCEPT ![c.run] =
                    [run EXCEPT !.status = c.status,
                                !.failed = run.failed + failures]]
  /\ UNCHANGED <<policies, records, imported>>

\* Mutant of CommitImport: without "AND imported_at IS NULL".
CommitImportAgain(w) ==
  /\ append[w].change.type = "records-imported"
  /\ Commit(w)
  /\ LET rows == append[w].change.rows
     IN  /\ runs' = [k \in Keys |->
                       [runs[k] EXCEPT !.imported =
                          @ + Cardinality({r \in rows : r.run = k})]]
         /\ imported' = imported \cup rows
  /\ UNCHANGED <<policies, records>>

CommitImport(w) ==
  /\ append[w].change.type = "records-imported"
  /\ Commit(w)
  /\ LET fresh == append[w].change.rows \ imported
     IN  /\ runs' = [k \in Keys |->
                       [runs[k] EXCEPT !.imported =
                          @ + Cardinality({r \in fresh : r.run = k})]]
         /\ imported' = imported \cup fresh
  /\ UNCHANGED <<policies, records>>

\* Mutants of Conflict: retried for ever, with and without counting.
ConflictRetriedOften(w) ==
  /\ pc[w] = "batch"
  /\ Conflicting(w)
  /\ append' = [append EXCEPT ![w].attempt = @ + 1, ![w].head = 0]
  /\ Go(w, "head")
  /\ UNCHANGED <<db, job, clock, faults>>

ConflictRetriedForever(w) ==
  /\ pc[w] = "batch"
  /\ Conflicting(w)
  /\ append' = [append EXCEPT ![w].head = 0]
  /\ Go(w, "head")
  /\ UNCHANGED <<db, job, clock, faults>>

(* A unique index refuses the batch: one retry, then the error is thrown.  *)
Conflict(w) ==
  /\ pc[w] = "batch"
  /\ Conflicting(w)
  /\ IF append[w].attempt = 0
     THEN /\ append' = [append EXCEPT ![w].attempt = 1, ![w].head = 0]
          /\ Go(w, "head")
          /\ UNCHANGED job
     ELSE Throw(w)
  /\ UNCHANGED <<db, clock, faults>>

(* The trigger refuses the insert of a run: not a conflict, so no retry.   *)
RefuseRun(w) ==
  /\ pc[w] = "batch"
  /\ Refused(append[w].change)
  /\ Throw(w)
  /\ UNCHANGED <<db, clock, faults>>

(* A database call fails without effect.                                   *)
DatabaseError(w) ==
  /\ \/ pc[w] \in {"check", "lookup", "overlap"} /\ Return(w)
     \/ pc[w] = "classify" /\ CatchRunError(w) /\ UNCHANGED job
     \/ pc[w] \in {"head", "batch"} /\ Throw(w)
  /\ Fault("error")
  /\ UNCHANGED <<db, clock>>

(* The Worker invocation is ended by the platform: nothing resumes it.     *)
Crash(w) ==
  /\ pc[w] # "idle"
  /\ Return(w)
  /\ Fault("crash")
  /\ UNCHANGED <<db, clock>>

-----------------------------------------------------------------------------
RunStep(w) ==
  \/ CheckPolicy(w)
  \/ LookupRun(w)
  \/ CheckOverlap(w)
  \/ FetchPage(w)
  \/ FetchFails(w)
  \/ FetchEnds(w)
  \/ ClassifyNext(w)

AppendStep(w) ==
  \/ ReadHead(w)
  \/ CommitPolicy(w)
  \/ CommitRun(w)
  \/ CommitPage(w)
  \/ CommitFinish(w)
  \/ CommitImport(w)
  \/ Conflict(w)
  \/ RefuseRun(w)

Request(w) ==
  \/ ApprovePolicy(w)
  \/ \E k \in Keys : RequestRun(w, k)
  \/ \E named \in (SUBSET records) \ {{}} : AcknowledgeImport(w, named)

Next ==
  \E w \in Workers :
    \/ Request(w)
    \/ RunStep(w)
    \/ AppendStep(w)
    \/ DatabaseError(w)
    \/ Crash(w)

Spec == Init /\ [][Next]_vars

\* A request that has been accepted is carried on: the JavaScript event loop
\* resumes every await whose promise settles, and MassGIS requests carry a
\* timeout.  New requests and faults are not fair.
FairSpec == Spec /\ \A w \in Workers : WF_vars(RunStep(w) \/ AppendStep(w))
-----------------------------------------------------------------------------
(* Properties.                                                             *)

\* The local variables of a worker's run, and of its append.
JobType ==
  [run : Keys \cup {"none"}, policy : Nat, page : Nat, persisted : Nat, at : Nat,
   todo : SUBSET (Identities \X Fps), rows : SUBSET Row, counts : Counts]
AppendType ==
  [change : Change \cup {NoChange}, attempt : {0, 1}, head : Nat]

\* Every variable holds a value of its kind: rows in the tables, the audit
\* log a sequence of events, one program counter and frame per worker.
TypeOK ==
  /\ policies \in Seq({"active", "superseded"})
  /\ runs \in [Keys -> Run]
  /\ records \subseteq Row
  /\ imported \subseteq records
  /\ audit \in Seq([previous : Nat, change : Change])
  /\ pc \in [Workers -> Locations]
  /\ job \in [Workers -> JobType]
  /\ append \in [Workers -> AppendType]
  /\ clock \in Nat
  /\ faults \in Nat

\* The audit log is one chain from the genesis hash, in the order of the
\* sequence numbers: no fork, no gap, although appendAuditEvent reads the
\* head in one call and inserts in another (lib/ingestion/audit.ts:46-73).
ChainIsLinear == \A n \in DOMAIN audit : audit[n].previous = n - 1

\* Exactly the newest policy is active: an approval that read a stale
\* MAX(version) cannot bring an older policy back, and approving leaves no
\* moment without an active policy (approvePolicy).
ActiveIsNewest ==
  \A v \in DOMAIN policies : policies[v] = "active" <=> v = Len(policies)

\* At most one run of a policy is running, although createRun looks for an
\* overlapping run before it inserts.
OneRunPerPolicy ==
  \A j, k \in Keys :
    /\ runs[j].status = "running"
    /\ runs[k].status = "running"
    /\ runs[j].policy = runs[k].policy
    => j = k

\* A run starts only while its policy is the active one, even when another
\* policy is approved between runIngestion's check and the insert.
RunsStartUnderActivePolicy ==
  [][\A k \in Keys :
       runs[k].status = "none" /\ runs'[k].status # "none"
         => runs'[k].policy \in ActiveVersions]_vars

\* The events of one type, and those of one run.
Events(type)      == {n \in DOMAIN audit : audit[n].change.type = type}
RunEvents(type, k) == {n \in Events(type) : audit[n].change.run = k}

\* What the log says of the status of a run.
StatusInLog(k) ==
  LET ended == RunEvents("run-finished", k)
  IN  IF RunEvents("run-started", k) = {} THEN "none"
      ELSE IF ended = {} THEN "running"
      ELSE audit[CHOOSE n \in ended : \A m \in ended : m <= n].change.status

\* The tables hold what replaying the audit log gives, and nothing else: no
\* change of state without its event, no event without its change, through
\* retries, lost replies and crashes.
AuditExplainsState ==
  /\ Cardinality(Events("policy-approved")) = Len(policies)
  /\ \A k \in Keys :
       /\ Cardinality(RunEvents("run-started", k)) <= 1
       /\ runs[k].status = StatusInLog(k)
       /\ \A n \in RunEvents("run-started", k) :
            audit[n].change.policy = runs[k].policy
  /\ records = UNION {audit[n].change.rows : n \in Events("page-staged")}
  /\ imported = UNION {audit[n].change.rows : n \in Events("records-imported")}

\* The pages of a run that have been staged.
StagedPages(k) == Cardinality(RunEvents("page-staged", k))

\* The counters of a run agree with the rows it staged and the pages it
\* retrieved, although each page is classified record by record against
\* tables that other runs write meanwhile (persistPage).
CountersMatchRows ==
  \A k \in Keys :
    LET Rows(class) == {r \in records : r.run = k /\ r.class = class}
        c == runs[k].counts
    IN  /\ c.safe = Cardinality(Rows("safe"))
        /\ c.changed = Cardinality(Rows("changed"))
        /\ c.exception = Cardinality(Rows("exception"))
        /\ c.safe + c.changed + c.duplicate + c.exception =
              Cardinality(UNION {Pages[i] : i \in 1..StagedPages(k)})

\* imported_count counts each acknowledged row once, however often the
\* browser repeats the acknowledgement after an answer it did not get.
ImportsCountOnce ==
  \A k \in Keys : runs[k].imported = Cardinality({r \in imported : r.run = k})

\* Two safe rows of one parcel come from runs of two policies: a later run
\* of the same policy finds the row and calls the record changed.  (Runs of
\* two policies can overlap and both read "no prior row".)
SafeTwiceOnlyAcrossPolicies ==
  \A r, s \in records :
    /\ r.class = "safe" /\ s.class = "safe"
    /\ r.identity = s.identity
    /\ r # s
    => runs[r.run].policy # runs[s.run].policy

\* A run is called staged only when every page was retrieved and staged.
StagedRunIsComplete ==
  \A k \in Keys : runs[k].status = "staged" => StagedPages(k) = Len(Pages)

\* A worker that retrieves and stages pages of run k.
Retrieves(w, k) ==
  /\ job[w].run = k
  /\ pc[w] \in {"fetch", "classify"} \/ append[w].change.type = "page-staged"

\* Requests with the same idempotency key never both retrieve, and only a
\* running run is retrieved for.
OneRetrieverPerRun ==
  \A k \in Keys, w, u \in Workers :
    Retrieves(w, k) => runs[k].status = "running" /\ (Retrieves(u, k) => u = w)

\* A run that has ended keeps its policy, its rows and its page counters,
\* and never runs again.  (Its status may still change: a lost reply to
\* finishRun makes runIngestion finish the run a second time.)
EndedRunIsFrozen ==
  [][\A k \in Keys :
       runs[k].status \in Terminal =>
         /\ runs'[k].status \in Terminal
         /\ runs'[k].policy = runs[k].policy
         /\ runs'[k].counts = runs[k].counts
         /\ {r \in records' : r.run = k} = {r \in records : r.run = k}]_vars

\* Seen from outside, the interleaved workers implement the atomic
\* operations of AuditedIngestion; the log is the chain without its hashes.
Atomic == INSTANCE AuditedIngestion WITH
            PageLimit <- Cardinality(Identities),
            log <- [n \in DOMAIN audit |-> audit[n].change]
ImplementsAtomicOperations == Atomic!Spec

\* Every request that is accepted is answered: the retry of appendAuditEvent
\* and the catch clause of runIngestion are bounded.
RequestsAreAnswered ==
  \A w \in Workers : pc[w] # "idle" ~> pc[w] = "idle"

-----------------------------------------------------------------------------
(* What the documents say and the code does not do.                        *)

\* "A lease and unique idempotency key prevent overlapping runs."  There is
\* no lease: a run goes on after its policy was superseded, beside a run of
\* the new policy.
NoOverlappingRuns ==
  \A j, k \in Keys :
    runs[j].status = "running" /\ runs[k].status = "running" => j = k

\* "Expired leases may be recovered by one retry run."  Nothing recovers a
\* run whose finishRun lost two races for the head of the audit chain.
RunsEnd ==
  \A k \in Keys : runs[k].status = "running" ~> runs[k].status # "running"

\* "Changed fingerprints preserve the new source snapshot."  A record that
\* returns to an earlier value is classified changed, but the unique index
\* on identity and fingerprint refuses its row, and the whole page with it.
ChangedSnapshotsAreKept ==
  \A w \in Workers :
    pc[w] = "batch" /\ append[w].change.type = "page-staged"
      => KeysAreFree(append[w].change)
=============================================================================
