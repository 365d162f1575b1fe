--------------------------- MODULE AuditedIngestion ---------------------------
(***************************************************************************)
(* What the ingestion store promises: policies, runs and staged records    *)
(* change only in whole operations, one at a time, and each operation      *)
(* leaves exactly one event in an append-only log.  There are no workers,  *)
(* no stale reads and no retries here; Ingestion, which has them, is shown *)
(* to implement this specification.                                        *)
(***************************************************************************)
EXTENDS Integers, Sequences, FiniteSets

CONSTANTS
  Keys,       \* idempotency keys, which name the runs
  PageLimit   \* the most candidates a page has

VARIABLES
  policies,   \* the status of each policy version
  runs,       \* the runs, by key
  records,    \* the staged records
  imported,   \* the records that have been acknowledged
  log         \* what has been done, in order

vars == <<policies, runs, records, imported, log>>

Init ==
  /\ policies = <<>>
  /\ \A k \in Keys : runs[k].status = "none"
  /\ records = {}
  /\ imported = {}
  /\ log = <<>>

Log(change) == log' = Append(log, change)

\* A new version replaces the active one.
ApprovePolicy ==
  /\ policies' = Append([v \in DOMAIN policies |-> "superseded"], "active")
  /\ Log([type |-> "policy-approved", version |-> Len(policies) + 1])
  /\ UNCHANGED <<runs, records, imported>>

\* A run starts under the newest policy, when no run of that policy is going.
StartRun(k) ==
  /\ runs[k].status = "none"
  /\ policies # <<>>
  /\ \A j \in Keys : ~(/\ runs[j].status = "running"
                       /\ runs[j].policy = Len(policies))
  /\ runs' = [runs EXCEPT ![k].status = "running",
                          ![k].policy = Len(policies)]
  /\ Log([type |-> "run-started", run |-> k, policy |-> Len(policies)])
  /\ UNCHANGED <<policies, records, imported>>

\* A running run stages a page: new rows, none of which repeats the identity
\* and fingerprint of another, and counters that go up by what was staged.
StagePage(k) ==
  LET new == records' \ records
      Count(class) == Cardinality({r \in new : r.class = class})
      SameSnapshot(r, s) == /\ r.class # "exception" /\ s.class # "exception"
                            /\ r.identity = s.identity /\ r.fp = s.fp
  IN  /\ runs[k].status = "running"
      /\ records \subseteq records'
      /\ \A r \in new : /\ r.run = k
                        /\ \A s \in records' : SameSnapshot(r, s) => r = s
      /\ \E duplicates \in 0..PageLimit :
           LET counts == [safe |-> Count("safe"), changed |-> Count("changed"),
                          duplicate |-> duplicates,
                          exception |-> Count("exception")]
           IN  /\ runs' = [runs EXCEPT ![k].counts =
                             [class \in DOMAIN @ |-> @[class] + counts[class]]]
               /\ Log([type |-> "page-staged", run |-> k, rows |-> new,
                       counts |-> counts])
      /\ UNCHANGED <<policies, imported>>

\* A run ends once; only a run called staged may be ended again, as something
\* less, when the reply to the first ending was lost.
FinishRun(k, status) ==
  /\ \/ runs[k].status = "running"
     \/ runs[k].status = "staged" /\ status # "staged"
  /\ runs' = [runs EXCEPT ![k].status = status,
                          ![k].failed = IF status \in {"failed", "partial"}
                                        THEN @ + 1 ELSE @]
  /\ Log([type |-> "run-finished", run |-> k, status |-> status])
  /\ UNCHANGED <<policies, records, imported>>

\* Staged rows are acknowledged, each counted once for its run.
AcknowledgeImport(rows) ==
  /\ \A r \in rows : r.class # "exception"
  /\ imported' = imported \cup rows
  /\ runs' = [k \in Keys |->
                [runs[k] EXCEPT !.imported =
                   @ + Cardinality({r \in rows \ imported : r.run = k})]]
  /\ Log([type |-> "records-imported", rows |-> rows])
  /\ UNCHANGED <<policies, records>>

Next ==
  \/ ApprovePolicy
  \/ \E k \in Keys :
       \/ StartRun(k)
       \/ StagePage(k)
       \/ \E status \in {"staged", "cancelled", "partial", "failed"} :
            FinishRun(k, status)
  \/ \E rows \in SUBSET records : AcknowledgeImport(rows)

Spec == Init /\ [][Next]_vars
=============================================================================
