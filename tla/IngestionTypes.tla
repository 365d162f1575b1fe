--------------------------- MODULE IngestionTypes ---------------------------
(***************************************************************************)
(* Type correctness of Ingestion, for any number of workers, keys, pages   *)
(* and faults.  TypeOK is not inductive: what a commit writes comes from   *)
(* the local variables of a worker, and what they hold depends on where    *)
(* the worker is.  TypeInv adds that (Frames).                             *)
(***************************************************************************)
EXTENDS Ingestion, FiniteSetTheorems, SequenceTheorems, TLAPS

-----------------------------------------------------------------------------
(* The inductive type invariant.                                           *)

\* The changes that runIngestion's own calls append.
RunTypes == {"run-started", "page-staged", "run-finished"}

\* The local variables p, j and a of one worker fit together: inside
\* runIngestion there is a run, and inside appendAuditEvent a change.  The
\* version that approvePolicy has computed is at most one more than n, the
\* number of policies, and the rows that an import names are staged.
Frame(n, staged, p, j, a) ==
  /\ p \in Locations
  /\ j \in JobType
  /\ a \in AppendType
  /\ p \in {"check", "lookup", "overlap", "fetch", "classify"} => j.run \in Keys
  /\ p \in {"head", "batch"} => a.change \in Change
  /\ p \notin {"head", "batch"} => a.change = NoChange
  /\ a.change.type \in RunTypes => j.run \in Keys /\ a.change.run = j.run
  /\ a.change.type = "policy-approved" => a.change.version \in 1..(n + 1)
  /\ IsFiniteSet(j.rows)
  /\ a.change.type \in {"page-staged", "records-imported"}
       => IsFiniteSet(a.change.rows)
  /\ a.change.type = "records-imported" => a.change.rows \subseteq staged

Frames ==
  /\ pc \in [Workers -> Locations]
  /\ job \in [Workers -> JobType]
  /\ append \in [Workers -> AppendType]
  /\ \A w \in Workers : Frame(Len(policies), records, pc[w], job[w], append[w])

\* Policies and records are never removed.
TablesGrow ==
  /\ Len(policies) \in Nat
  /\ Len(policies') \in Nat
  /\ Len(policies) <= Len(policies')
  /\ records \subseteq records'

TypeInv == TypeOK /\ IsFiniteSet(records) /\ Frames

-----------------------------------------------------------------------------
(* The values that are built.                                              *)

\* A page holds finitely many identities.
LEMMA PageIsFinite ==
  ASSUME NEW i \in DOMAIN Pages
  PROVE  Pages[i] \in SUBSET Identities /\ IsFiniteSet(Pages[i])
<1>1. Pages \in Seq(SUBSET Identities) /\ IsFiniteSet(Identities)
  BY ConstantsAssumption
<1>2. Pages[i] \in SUBSET Identities
  BY <1>1, ElementOfSeq, LenProperties
<1> QED BY <1>1, <1>2, FS_Subset

\* A change has the fields of its type.
LEMMA ChangeFields ==
  ASSUME NEW c \in Change
  PROVE  /\ c.type = "policy-approved" => c.version \in Nat
         /\ c.type \in RunTypes => c.run \in Keys
         /\ c.type = "run-started" => c.policy \in Nat
         /\ c.type = "page-staged" => c.rows \subseteq Row /\ c.counts \in Counts
         /\ c.type = "run-finished" => c.status \in Terminal
         /\ c.type = "records-imported" => c.rows \subseteq Row
         /\ c.type \in RunTypes \cup {"policy-approved", "records-imported"}
  BY DEF Change, RunTypes

\* The initial values of the local variables are of their types.
LEMMA EmptyFrame ==
  /\ NoJob \in JobType
  /\ NoAppend \in AppendType
  /\ NoAppend.change = NoChange
  /\ NoChange.type = "none"
  /\ ZeroCounts \in Counts
  /\ NoRun \in Run
  BY DEF NoJob, NoAppend, NoChange, JobType, AppendType, ZeroCounts, Counts,
         NoRun, Run, RunStatus

\* A step changes the local variables of one worker; the others keep theirs.
LEMMA OneFrame ==
  ASSUME Frames, TablesGrow, NEW w \in Workers, NEW p, NEW j, NEW a,
         Frame(Len(policies), records, p, j, a),
         pc' = [pc EXCEPT ![w] = p],
         job' = [job EXCEPT ![w] = j],
         append' = [append EXCEPT ![w] = a]
  PROVE  Frames'
<1>1. p \in Locations /\ j \in JobType /\ a \in AppendType
  BY DEF Frame
<1>2. /\ pc' \in [Workers -> Locations]
      /\ job' \in [Workers -> JobType]
      /\ append' \in [Workers -> AppendType]
  BY <1>1 DEF Frames
<1>3. \A u \in Workers : Frame(Len(policies'), records', pc'[u], job'[u], append'[u])
  <2> TAKE u \in Workers
  <2>1. CASE u = w
    <3>1. Frame(Len(policies'), records', p, j, a)
      BY DEF Frame, TablesGrow
    <3> QED BY <2>1, <3>1 DEF Frames
  <2>2. CASE u # w
    <3>1. pc'[u] = pc[u] /\ job'[u] = job[u] /\ append'[u] = append[u]
      BY <2>2 DEF Frames
    <3>2. Frame(Len(policies'), records', pc[u], job[u], append[u])
      BY DEF Frames, Frame, TablesGrow
    <3> QED BY <3>1, <3>2
  <2> QED BY <2>1, <2>2
<1> QED BY <1>2, <1>3 DEF Frames

\* Leaving a variable alone is assigning it what it holds.
LEMMA Unchanged ==
  ASSUME Frames, NEW w \in Workers
  PROVE  /\ job = [job EXCEPT ![w] = job[w]]
         /\ pc = [pc EXCEPT ![w] = pc[w]]
         /\ append = [append EXCEPT ![w] = append[w]]
         /\ Frame(Len(policies), records, pc[w], job[w], append[w])
  BY DEF Frames

\* Answering a request leaves an idle frame.
LEMMA ReturnFrames ==
  ASSUME Frames, TablesGrow, NEW w \in Workers, Return(w)
  PROVE  Frames'
<1>1. Frame(Len(policies), records, "idle", NoJob, NoAppend)
  BY EmptyFrame, FS_EmptySet DEF Frame, Locations, NoJob, RunTypes
<1> QED BY <1>1, OneFrame DEF Return, Go

\* Calling appendAuditEvent keeps the frames in order.
LEMMA CallAppendFrames ==
  ASSUME Frames, TablesGrow, NEW w \in Workers, NEW c \in Change, NEW j \in JobType,
         CallAppend(w, c),
         job' = [job EXCEPT ![w] = j],
         c.type \in RunTypes => c.run = j.run,
         c.type = "policy-approved" => c.version \in 1..(Len(policies) + 1),
         IsFiniteSet(j.rows),
         c.type \in {"page-staged", "records-imported"} => IsFiniteSet(c.rows),
         c.type = "records-imported" => c.rows \subseteq records
  PROVE  Frames'
<1> DEFINE a == [change |-> c, attempt |-> 0, head |-> 0]
<1>1. a \in AppendType /\ a.change = c
  BY DEF AppendType
<1> HIDE DEF a
<1>2. Frame(Len(policies), records, "head", j, a)
  BY <1>1, ChangeFields DEF Frame, Locations
<1> QED BY <1>2, OneFrame DEF CallAppend, Go, a

\* A run that catches an error appends its end.
LEMMA CatchFrames ==
  ASSUME Frames, TablesGrow, NEW w \in Workers, CatchRunError(w), UNCHANGED job,
         job[w].run \in Keys
  PROVE  Frames'
<1>1. PICK s \in CatchStatus(w) :
        CallAppend(w, [type |-> "run-finished", run |-> job[w].run, status |-> s])
  BY DEF CatchRunError
<1> DEFINE c == [type |-> "run-finished", run |-> job[w].run, status |-> s]
<1>2. s \in Terminal
  BY DEF CatchStatus, Terminal
<1>3. c \in Change /\ c.type = "run-finished" /\ c.run = job[w].run
  BY <1>2 DEF Change
<1> HIDE DEF c
<1>4. IsFiniteSet(job[w].rows) /\ job[w] \in JobType
  BY DEF Frames, Frame
<1> QED BY <1>1, <1>3, <1>4, Unchanged, CallAppendFrames DEF c

\* A request that appends a change leaves the other variables of its frame.
LEMMA CallFrames ==
  ASSUME Frames, TablesGrow, NEW w \in Workers, NEW c \in Change, CallAppend(w, c),
         UNCHANGED job,
         c.type \in RunTypes => c.run = job[w].run,
         c.type = "policy-approved" => c.version \in 1..(Len(policies) + 1),
         c.type \in {"page-staged", "records-imported"} => IsFiniteSet(c.rows),
         c.type = "records-imported" => c.rows \subseteq records
  PROVE  Frames'
<1>1. IsFiniteSet(job[w].rows) /\ job[w] \in JobType
  BY DEF Frames, Frame
<1> QED BY <1>1, Unchanged, CallAppendFrames

-----------------------------------------------------------------------------
(* Every step keeps the type invariant: first the steps that write nothing *)
(* to the database.                                                        *)

\* The tables are as they should be.
Tables ==
  /\ policies \in Seq({"active", "superseded"})
  /\ runs \in [Keys -> Run]
  /\ records \subseteq Row
  /\ imported \subseteq records
  /\ audit \in Seq([previous : Nat, change : Change])
  /\ clock \in Nat
  /\ faults \in Nat
  /\ IsFiniteSet(records)

\* The type invariant is that of the tables and that of the workers.
LEMMA TypeInvSplit == TypeInv <=> Tables /\ Frames
  BY DEF TypeInv, TypeOK, Tables, Frames

\* The same of the next state.
LEMMA TypeInvSplitPrime == TypeInv' <=> Tables' /\ Frames'
  BY DEF TypeInv, TypeOK, Tables, Frames

\* A step that leaves the database alone keeps the tables.
LEMMA TablesKept ==
  ASSUME Tables, UNCHANGED db, clock' \in Nat, faults' \in Nat
  PROVE  Tables'
  BY DEF Tables, db

\* Tables that stay as they are have not shrunk.
LEMMA GrowByNothing ==
  ASSUME TypeInv, UNCHANGED <<policies, records>>
  PROVE  TablesGrow
  BY LenProperties DEF TypeInv, TypeOK, TablesGrow

\* Calling approvePolicy: the version computed is one more than the newest.
LEMMA ApprovePolicyType ==
  ASSUME TypeInv, NEW w \in Workers, ApprovePolicy(w)
  PROVE  TypeInv'
<1> DEFINE c == [type |-> "policy-approved", version |-> Len(policies) + 1]
<1>1. Len(policies) \in Nat
  BY LenProperties DEF TypeInv, TypeOK
<1>2. c \in Change /\ c.type = "policy-approved"
  BY <1>1 DEF Change
<1>3. CallAppend(w, c) /\ UNCHANGED <<db, job, clock, faults>>
  BY DEF ApprovePolicy
<1> HIDE DEF c
<1>4. Frames'
  <2>1. c.version \in 1..(Len(policies) + 1)
    BY <1>1 DEF c
  <2>2. TablesGrow
    BY <1>3, GrowByNothing DEF db
  <2> QED BY <1>2, <1>3, <2>1, <2>2, CallFrames DEF RunTypes, TypeInv
<1> QED BY <1>3, <1>4, TablesKept, TypeInvSplit, TypeInvSplitPrime DEF Tables

\* Requesting a run: the worker now has a run and a policy.
LEMMA RequestRunType ==
  ASSUME TypeInv, NEW w \in Workers, NEW k \in Keys, RequestRun(w, k)
  PROVE  TypeInv'
<1>1. PICK v \in ActiveVersions :
        job' = [job EXCEPT ![w] = [NoJob EXCEPT !.run = k, !.policy = v]]
  BY DEF RequestRun
<1> DEFINE j == [NoJob EXCEPT !.run = k, !.policy = v]
<1>2. v \in Nat
  BY LenProperties DEF ActiveVersions, TypeInv, TypeOK
<1>3. j \in JobType /\ j.run = k /\ j.rows = {}
  BY <1>2, EmptyFrame DEF JobType, NoJob
<1>4. /\ Frames /\ TablesGrow
      /\ append[w] \in AppendType /\ append[w].change = NoChange
  BY GrowByNothing DEF TypeInv, Frames, Frame, RequestRun, db
<1> HIDE DEF j
<1>5. Frame(Len(policies), records, "check", j, append[w])
  BY <1>3, <1>4, EmptyFrame, FS_EmptySet DEF Frame, Locations, RunTypes
<1>6. Frames'
  BY <1>1, <1>4, <1>5, OneFrame, Unchanged DEF RequestRun, Go, j
<1> QED BY <1>6, TablesKept, TypeInvSplit, TypeInvSplitPrime DEF RequestRun, Tables

\* Moving on inside runIngestion.
LEMMA GoFrames ==
  ASSUME Frames, TablesGrow, NEW w \in Workers, NEW l \in {"lookup", "overlap", "fetch"},
         pc[w] \in {"check", "lookup", "overlap", "fetch", "classify"},
         Go(w, l), UNCHANGED <<job, append>>
  PROVE  Frames'
<1>1. Frame(Len(policies), records, l, job[w], append[w])
  BY DEF Frames, Frame, Locations
<1>2. /\ job' = [job EXCEPT ![w] = job[w]]
      /\ append' = [append EXCEPT ![w] = append[w]]
  BY Unchanged
<1> QED BY <1>1, <1>2, OneFrame DEF Go

\* The three checks before a run is inserted keep the type invariant.
LEMMA ChecksType ==
  ASSUME TypeInv, NEW w \in Workers,
         CheckPolicy(w) \/ LookupRun(w) \/ CheckOverlap(w)
  PROVE  TypeInv'
<1>1. Frames /\ Tables /\ TablesGrow
  BY TypeInvSplit, GrowByNothing DEF CheckPolicy, LookupRun, CheckOverlap, db
<1>2. UNCHANGED <<db, clock, faults>>
  BY DEF CheckPolicy, LookupRun, CheckOverlap
<1>3. ASSUME CheckPolicy(w) PROVE Frames'
  BY <1>1, <1>3, GoFrames, ReturnFrames DEF CheckPolicy
<1>4. ASSUME LookupRun(w) PROVE Frames'
  BY <1>1, <1>4, GoFrames, ReturnFrames DEF LookupRun
<1>5. ASSUME CheckOverlap(w) PROVE Frames'
  <2> DEFINE c == [type |-> "run-started", run |-> job[w].run,
                   policy |-> job[w].policy]
  <2>1. job[w].run \in Keys /\ job[w].policy \in Nat
    BY <1>1, <1>5 DEF Frames, Frame, JobType, CheckOverlap
  <2>2. c \in Change /\ c.type = "run-started" /\ c.run = job[w].run
    BY <2>1 DEF Change
  <2>3. Return(w) \/ (CallAppend(w, c) /\ UNCHANGED job)
    BY <1>5 DEF CheckOverlap
  <2> HIDE DEF c
  <2> QED BY <1>1, <2>2, <2>3, ReturnFrames, CallFrames
<1>6. Frames'
  BY <1>3, <1>4, <1>5
<1> QED BY <1>1, <1>2, <1>6, TablesKept, TypeInvSplitPrime DEF Tables

\* The rows of a rejected page are finitely many rows.
LEMMA RejectedRows ==
  ASSUME NEW w \in Workers, job[w] \in JobType, job[w].run \in Keys,
         NEW S \in SUBSET Identities, IsFiniteSet(S)
  PROVE  LET R == {[run |-> job[w].run, identity |-> i, fp |-> Bad,
                    at |-> job[w].at, class |-> "exception"] : i \in S}
         IN  R \subseteq Row /\ IsFiniteSet(R)
<1> DEFINE row(i) == [run |-> job[w].run, identity |-> i, fp |-> Bad,
                      at |-> job[w].at, class |-> "exception"]
           R == {row(i) : i \in S}
           f == [i \in S |-> row(i)]
<1>1. R \subseteq Row
  BY DEF Row, JobType
<1>2. f \in Surjection(S, R)
  BY DEF Surjection
<1>3. IsFiniteSet(R)
  BY <1>2, FS_Surjection
<1> QED BY <1>1, <1>3

\* A job whose candidates, rows and counters are assigned together, and
\* perhaps its page, keeps its type.
Classified(j, t, r, c) == [j EXCEPT !.todo = t, !.rows = r, !.counts = c]
AtPage(j, p, t, r, c) ==
  [j EXCEPT !.page = p, !.todo = t, !.rows = r, !.counts = c]

\* Assigning the results of a classification keeps the type of a job.
LEMMA JobClassified ==
  ASSUME NEW j \in JobType, NEW t \in SUBSET (Identities \X Fps),
         NEW r \in SUBSET Row, NEW c \in Counts
  PROVE  LET n == Classified(j, t, r, c)
         IN  /\ n \in JobType
             /\ n.run = j.run /\ n.rows = r /\ n.counts = c /\ n.todo = t
<1> DEFINE j1 == [j EXCEPT !.todo = t]
           j2 == [j1 EXCEPT !.rows = r]
           j3 == [j2 EXCEPT !.counts = c]
<1>1. j1 \in JobType /\ j1.run = j.run /\ j1.todo = t
  BY DEF JobType
<1> HIDE DEF j1
<1>2. j2 \in JobType /\ j2.run = j.run /\ j2.todo = t /\ j2.rows = r
  BY <1>1 DEF JobType
<1> HIDE DEF j2
<1>3. /\ j3 \in JobType
      /\ j3.run = j.run /\ j3.todo = t /\ j3.rows = r /\ j3.counts = c
  BY <1>2 DEF JobType
<1> QED BY <1>3 DEF j1, j2, Classified

\* Assigning the contents of a new page keeps the type of a job.
LEMMA JobAtPage ==
  ASSUME NEW j \in JobType, NEW p \in Nat, NEW t \in SUBSET (Identities \X Fps),
         NEW r \in SUBSET Row, NEW c \in Counts
  PROVE  LET n == AtPage(j, p, t, r, c)
         IN  /\ n \in JobType
             /\ n.run = j.run /\ n.rows = r /\ n.counts = c /\ n.todo = t
<1> DEFINE j1 == [j EXCEPT !.page = p]
<1>1. j1 \in JobType /\ j1.run = j.run
  BY DEF JobType
<1>2. AtPage(j, p, t, r, c) = Classified(j1, t, r, c)
  BY DEF AtPage, Classified
<1> HIDE DEF j1
<1> QED BY <1>1, <1>2, JobClassified

\* A step that prepares a page for its commit: the run stays the same, and
\* the page is appended when its last candidate has been classified.
Prepares(w) ==
  \E j \in JobType :
    /\ job' = [job EXCEPT ![w] = j]
    /\ j.run = job[w].run
    /\ IsFiniteSet(j.rows)
    /\ \/ CallAppend(w, [type |-> "page-staged", run |-> j.run, rows |-> j.rows,
                          counts |-> j.counts])
       \/ Go(w, "classify") /\ UNCHANGED append

\* Preparing a page keeps the frames in order.
LEMMA PreparesFrames ==
  ASSUME Frames, TablesGrow, NEW w \in Workers, Prepares(w),
         pc[w] \in {"fetch", "classify"}
  PROVE  Frames'
<1>1. PICK j \in JobType :
        /\ job' = [job EXCEPT ![w] = j]
        /\ j.run = job[w].run
        /\ IsFiniteSet(j.rows)
        /\ \/ CallAppend(w, [type |-> "page-staged", run |-> j.run,
                              rows |-> j.rows, counts |-> j.counts])
           \/ Go(w, "classify") /\ UNCHANGED append
  BY DEF Prepares
<1>2. job[w].run \in Keys /\ append[w].change = NoChange /\ append[w] \in AppendType
  BY DEF Frames, Frame
<1> DEFINE c == [type |-> "page-staged", run |-> j.run, rows |-> j.rows,
                 counts |-> j.counts]
<1>3. c \in Change /\ c.type = "page-staged" /\ c.run = j.run /\ c.rows = j.rows
  BY <1>1, <1>2 DEF Change, JobType
<1>4. CallAppend(w, c) \/ (Go(w, "classify") /\ UNCHANGED append)
  BY <1>1
<1> HIDE DEF c
<1>5. ASSUME CallAppend(w, c) PROVE Frames'
  BY <1>1, <1>3, <1>5, CallAppendFrames
<1>6. ASSUME Go(w, "classify"), UNCHANGED append PROVE Frames'
  <2>1. Frame(Len(policies), records, "classify", j, append[w])
    BY <1>1, <1>2, EmptyFrame DEF Frame, Locations, RunTypes
  <2>2. append' = [append EXCEPT ![w] = append[w]]
    BY <1>6, Unchanged
  <2> QED BY <1>1, <1>6, <2>1, <2>2, OneFrame DEF Go
<1> QED BY <1>4, <1>5, <1>6

\* Fetching a page prepares it: rejected records are rows already.
LEMMA FetchPagePrepares ==
  ASSUME TypeInv, NEW w \in Workers, FetchPage(w)
  PROVE  Prepares(w)
<1> DEFINE page == Pages[job[w].page + 1]
           Valid(shown) == {i \in page : shown[i] # Bad}
           next(shown) ==
             [job[w] EXCEPT
                !.page = @ + 1,
                !.todo = {<<i, shown[i]>> : i \in Valid(shown)},
                !.rows = {[run |-> job[w].run, identity |-> i, fp |-> Bad,
                           at |-> job[w].at, class |-> "exception"]
                          : i \in page \ Valid(shown)},
                !.counts = [ZeroCounts EXCEPT
                              !.exception = Cardinality(page \ Valid(shown))]]
<1>1. /\ Frames /\ Tables /\ TablesGrow
      /\ job[w] \in JobType /\ job[w].run \in Keys /\ pc[w] = "fetch"
      /\ append[w] \in AppendType /\ append[w].change = NoChange
  BY TypeInvSplit, GrowByNothing DEF Frames, Frame, FetchPage, db
<1>2. PICK shown \in [page -> Fps \cup {Bad}] :
        /\ job' = [job EXCEPT ![w] = next(shown)]
        /\ IF next(shown).todo = {}
           THEN CallAppend(w, [type |-> "page-staged", run |-> next(shown).run,
                               rows |-> next(shown).rows,
                               counts |-> next(shown).counts])
           ELSE Go(w, "classify") /\ UNCHANGED append
  BY DEF FetchPage
<1>3. page \in SUBSET Identities /\ IsFiniteSet(page)
  <2>1. job[w].page + 1 \in DOMAIN Pages
    BY <1>1, ConstantsAssumption, LenProperties DEF FetchPage, JobType
  <2> QED BY <2>1, PageIsFinite
<1> DEFINE j == next(shown)
           rejected == page \ Valid(shown)
           rows == {[run |-> job[w].run, identity |-> i, fp |-> Bad,
                     at |-> job[w].at, class |-> "exception"] : i \in rejected}
           counts == [ZeroCounts EXCEPT !.exception = Cardinality(rejected)]
           todo == {<<i, shown[i]>> : i \in Valid(shown)}
<1>4. IsFiniteSet(rejected) /\ rejected \in SUBSET Identities
  BY <1>3, FS_Subset
<1>5. rows \subseteq Row /\ IsFiniteSet(rows)
  BY <1>1, <1>4, RejectedRows
<1>6. counts \in Counts
  BY <1>4, FS_CardinalityType DEF Counts, ZeroCounts
<1>7. todo \in SUBSET (Identities \X Fps)
  BY <1>3
<1>8. /\ j \in JobType
      /\ j.run = job[w].run /\ j.rows = rows /\ j.counts = counts
  <2>1. job[w].page + 1 \in Nat
    BY <1>1 DEF JobType
  <2>2. j = AtPage(job[w], job[w].page + 1, todo, rows, counts)
    BY DEF AtPage
  <2> HIDE DEF rows, counts, todo, j
  <2> QED BY <2>1, <2>2, <1>1, <1>5, <1>6, <1>7, JobAtPage
<1> HIDE DEF j, rows, counts, todo
<1> QED BY <1>2, <1>5, <1>8 DEF Prepares, j

\* Classifying a candidate prepares the page further.
LEMMA ClassifyNextPrepares ==
  ASSUME TypeInv, NEW w \in Workers, ClassifyNext(w)
  PROVE  Prepares(w)
<1>1. /\ Frames /\ Tables /\ TablesGrow
      /\ job[w] \in JobType /\ job[w].run \in Keys /\ pc[w] = "classify"
      /\ append[w] \in AppendType /\ append[w].change = NoChange
      /\ IsFiniteSet(job[w].rows)
  BY TypeInvSplit, GrowByNothing DEF Frames, Frame, ClassifyNext, db
<1> DEFINE row(c, class) == [run |-> job[w].run, identity |-> c[1], fp |-> c[2],
                             at |-> job[w].at, class |-> class]
           todo(c) == job[w].todo \ {c}
           rows(c, class) == IF class = "duplicate" THEN job[w].rows
                             ELSE job[w].rows \cup {row(c, class)}
           counts(class) == [job[w].counts EXCEPT ![class] = @ + 1]
           next(c, class) == Classified(job[w], todo(c), rows(c, class),
                                        counts(class))
<1>2. PICK c \in job[w].todo :
        LET class == Classify(c[1], c[2])
            n == next(c, class)
        IN  /\ job' = [job EXCEPT ![w] = n]
            /\ IF n.todo = {}
               THEN CallAppend(w, [type |-> "page-staged", run |-> n.run,
                                   rows |-> n.rows, counts |-> n.counts])
               ELSE UNCHANGED <<pc, append>>
  BY DEF ClassifyNext, Classified
<1> DEFINE class == Classify(c[1], c[2])
           j == next(c, class)
<1>3. c[1] \in Identities /\ c[2] \in Fps /\ todo(c) \in SUBSET (Identities \X Fps)
  BY <1>1 DEF JobType
<1>4. class \in {"duplicate", "changed", "safe"}
  BY DEF Classify
<1> HIDE DEF class
<1>5. rows(c, class) \in SUBSET Row /\ IsFiniteSet(rows(c, class))
  <2>1. class # "duplicate" => row(c, class) \in Row
    BY <1>1, <1>3, <1>4 DEF Row, JobType
  <2>2. IsFiniteSet(job[w].rows \cup {row(c, class)})
    BY <1>1, FS_AddElement
  <2> HIDE DEF row
  <2> QED BY <1>1, <2>1, <2>2 DEF JobType
<1>6. counts(class) \in Counts
  BY <1>1, <1>4 DEF JobType, Counts
<1> HIDE DEF todo, rows, counts
<1>7. /\ j \in JobType
      /\ j.run = job[w].run /\ j.rows = rows(c, class)
      /\ j.counts = counts(class)
  BY <1>1, <1>3, <1>5, <1>6, JobClassified
<1>8. /\ job' = [job EXCEPT ![w] = j]
      /\ \/ CallAppend(w, [type |-> "page-staged", run |-> j.run, rows |-> j.rows,
                            counts |-> j.counts])
         \/ UNCHANGED <<pc, append>>
  BY <1>2 DEF class
<1>9. pc = [pc EXCEPT ![w] = "classify"]
  BY <1>1, Unchanged
<1> HIDE DEF j
<1> QED BY <1>5, <1>7, <1>8, <1>9 DEF Prepares, Go

\* Fetching and classifying keep the type invariant.
LEMMA PreparesType ==
  ASSUME TypeInv, NEW w \in Workers, FetchPage(w) \/ ClassifyNext(w)
  PROVE  TypeInv'
<1>1. Frames /\ Tables /\ TablesGrow /\ UNCHANGED <<db, clock, faults>>
  BY TypeInvSplit, GrowByNothing DEF FetchPage, ClassifyNext, db
<1>2. pc[w] \in {"fetch", "classify"}
  BY DEF FetchPage, ClassifyNext
<1>3. Prepares(w)
  BY FetchPagePrepares, ClassifyNextPrepares
<1> QED BY <1>1, <1>2, <1>3, PreparesFrames, TablesKept, TypeInvSplitPrime DEF Tables

\* The end of the retrieval, good or bad, keeps the type invariant.
LEMMA FetchOverType ==
  ASSUME TypeInv, NEW w \in Workers, FetchFails(w) \/ FetchEnds(w)
  PROVE  TypeInv'
<1>1. /\ Frames /\ Tables /\ TablesGrow /\ job[w].run \in Keys
      /\ UNCHANGED <<db, job, clock, faults>>
  BY TypeInvSplit, GrowByNothing DEF db, Frames, Frame, FetchFails, FetchEnds
<1>2. ASSUME FetchFails(w) PROVE Frames'
  BY <1>1, <1>2, CatchFrames DEF FetchFails
<1>3. ASSUME FetchEnds(w) PROVE Frames'
  <2> DEFINE c == [type |-> "run-finished", run |-> job[w].run,
                   status |-> "staged"]
  <2>1. c \in Change /\ c.type = "run-finished" /\ c.run = job[w].run
    BY <1>1 DEF Change, Terminal
  <2>2. CallAppend(w, c)
    BY <1>3 DEF FetchEnds
  <2> HIDE DEF c
  <2> QED BY <1>1, <2>1, <2>2, CallFrames
<1> QED BY <1>1, <1>2, <1>3, TablesKept, TypeInvSplitPrime DEF Tables

\* Calling markRecordsImported: the rows named are staged rows.
LEMMA AcknowledgeImportType ==
  ASSUME TypeInv, NEW w \in Workers, NEW named \in SUBSET records,
         AcknowledgeImport(w, named)
  PROVE  TypeInv'
<1> DEFINE rows == {r \in named : r.class # "exception"}
           c == [type |-> "records-imported", rows |-> rows]
<1>1. Frames /\ Tables /\ TablesGrow /\ UNCHANGED <<db, job, clock, faults>>
  BY TypeInvSplit, GrowByNothing DEF AcknowledgeImport, db
<1>2. rows \in SUBSET records /\ rows \subseteq Row /\ IsFiniteSet(rows)
  BY <1>1, FS_Subset DEF Tables
<1>3. CallAppend(w, c)
  BY DEF AcknowledgeImport
<1> HIDE DEF rows
<1>4. c \in Change /\ c.type = "records-imported" /\ c.rows = rows
  BY <1>2 DEF Change
<1> HIDE DEF c
<1>5. Frames'
  BY <1>1, <1>2, <1>3, <1>4, CallFrames DEF RunTypes
<1> QED BY <1>1, <1>5, TablesKept, TypeInvSplitPrime DEF Tables

\* Reading the head of the chain keeps the type invariant.
LEMMA ReadHeadType ==
  ASSUME TypeInv, NEW w \in Workers, ReadHead(w)
  PROVE  TypeInv'
<1>1. /\ Frames /\ Tables /\ TablesGrow /\ UNCHANGED <<db, job, clock, faults>>
      /\ Frame(Len(policies), records, pc[w], job[w], append[w]) /\ pc[w] = "head"
      /\ append[w] \in AppendType
  BY TypeInvSplit, GrowByNothing DEF ReadHead, Frames, db
<1> DEFINE a == [append[w] EXCEPT !.head = Len(audit)]
<1>2. a \in AppendType /\ a.change = append[w].change
  BY <1>1, LenProperties DEF AppendType, Tables
<1> HIDE DEF a
<1>3. Frame(Len(policies), records, "batch", job[w], a)
  BY <1>1, <1>2 DEF Frame, Locations
<1>4. append' = [append EXCEPT ![w] = a]
  BY DEF ReadHead, a
<1>5. job' = [job EXCEPT ![w] = job[w]] /\ pc' = [pc EXCEPT ![w] = "batch"]
  BY <1>1, Unchanged DEF ReadHead, Go
<1>6. Frames'
  BY <1>1, <1>3, <1>4, <1>5, OneFrame
<1> QED BY <1>1, <1>6, TablesKept, TypeInvSplitPrime DEF Tables

-----------------------------------------------------------------------------
(* The steps of appendAuditEvent.                                          *)

\* An error that appendAuditEvent throws leaves the frames in order.
LEMMA ThrowFrames ==
  ASSUME Frames, TablesGrow, NEW w \in Workers, Throw(w)
  PROVE  Frames'
<1>1. Return(w) \/ (/\ append[w].change.type \in RunTypes
                    /\ CatchRunError(w)
                    /\ UNCHANGED job)
  BY DEF Throw, RunTypes
<1>2. append[w].change.type \in RunTypes => job[w].run \in Keys
  BY DEF Frames, Frame
<1> QED BY <1>1, <1>2, ReturnFrames, CatchFrames

\* The job of a run that has started, and of one that has staged a page.
Started(j, t) == [j EXCEPT !.at = t]
Staged(j) ==
  [j EXCEPT !.persisted = j.persisted + 1, !.rows = {}, !.counts = ZeroCounts]

\* A job whose page has been staged keeps its type and its run.
LEMMA StagedJob ==
  ASSUME NEW j \in JobType
  PROVE  Staged(j) \in JobType /\ Staged(j).run = j.run /\ Staged(j).rows = {}
<1> DEFINE j1 == [j EXCEPT !.persisted = j.persisted + 1]
           j2 == [j1 EXCEPT !.rows = {}]
           j3 == [j2 EXCEPT !.counts = ZeroCounts]
<1>1. j1 \in JobType /\ j1.run = j.run
  BY DEF JobType
<1> HIDE DEF j1
<1>2. j2 \in JobType /\ j2.run = j.run /\ j2.rows = {}
  BY <1>1 DEF JobType
<1> HIDE DEF j2
<1>3. j3 \in JobType /\ j3.run = j.run /\ j3.rows = {}
  BY <1>2, EmptyFrame DEF JobType
<1> QED BY <1>3 DEF j1, j2, Staged

\* A commit whose reply arrives leaves the frames in order.
LEMMA SucceedFrames ==
  ASSUME Frames, TablesGrow, clock \in Nat, NEW w \in Workers, Succeed(w)
  PROVE  Frames' /\ clock' \in Nat
<1> DEFINE c == append[w].change
<1>1. ASSUME c.type \notin {"run-started", "page-staged"}
      PROVE  Frames' /\ clock' \in Nat
  BY <1>1, ReturnFrames DEF Succeed
<1>2. ASSUME c.type \in {"run-started", "page-staged"}
      PROVE  Frames' /\ clock' \in Nat
  <2> DEFINE j == IF c.type = "run-started" THEN Started(job[w], clock + 1)
                  ELSE Staged(job[w])
  <2>1. /\ Go(w, "fetch")
        /\ append' = [append EXCEPT ![w] = NoAppend]
        /\ job' = [job EXCEPT ![w] = j]
        /\ clock' \in Nat
    BY <1>2 DEF Succeed, Started, Staged
  <2>2. /\ job[w] \in JobType /\ job[w].run \in Keys
        /\ IsFiniteSet(job[w].rows)
    BY <1>2 DEF Frames, Frame, RunTypes
  <2>3. /\ Started(job[w], clock + 1) \in JobType
        /\ Started(job[w], clock + 1).run = job[w].run
        /\ Started(job[w], clock + 1).rows = job[w].rows
    BY <2>2 DEF Started, JobType
  <2>4. j \in JobType /\ j.run \in Keys /\ IsFiniteSet(j.rows)
    BY <2>2, <2>3, StagedJob, FS_EmptySet
  <2> HIDE DEF j
  <2>5. Frame(Len(policies), records, "fetch", j, NoAppend)
    BY <2>4, EmptyFrame DEF Frame, Locations, RunTypes
  <2> QED BY <2>1, <2>5, OneFrame DEF Go
<1> QED BY <1>1, <1>2

\* What every commit does, whether or not its reply arrives.
LEMMA CommitType ==
  ASSUME TypeInv, TablesGrow, NEW w \in Workers, Commit(w)
  PROVE  /\ Frames'
         /\ append[w].change \in Change
         /\ audit' \in Seq([previous : Nat, change : Change])
         /\ clock' \in Nat /\ faults' \in Nat
<1>1. /\ Frames /\ Tables /\ append[w].change \in Change
      /\ append[w] \in AppendType
  BY TypeInvSplit DEF Frames, Frame, Commit
<1>2. audit' \in Seq([previous : Nat, change : Change])
  <2> DEFINE e == [previous |-> append[w].head, change |-> append[w].change]
  <2>1. e \in [previous : Nat, change : Change]
    BY <1>1 DEF AppendType
  <2>2. audit' = Append(audit, e)
    BY DEF Commit
  <2> HIDE DEF e
  <2> QED BY <1>1, <2>1, <2>2, AppendProperties DEF Tables
<1>3. Frames' /\ clock' \in Nat
  <2>1. Succeed(w) \/ (Throw(w) /\ UNCHANGED clock)
    BY DEF Commit
  <2> QED BY <1>1, <2>1, SucceedFrames, ThrowFrames DEF Tables
<1>4. faults' \in Nat
  BY <1>1 DEF Commit, Fault, Tables
<1> QED BY <1>1, <1>2, <1>3, <1>4

\* The new policy is version Len(policies) + 1: a lower one is taken.
LEMMA PolicyAppended ==
  ASSUME TypeInv, NEW w \in Workers, CommitPolicy(w)
  PROVE  LET n == Len(policies) + 1
         IN  /\ Len(policies) \in Nat
             /\ append[w].change.version = n
             /\ policies' = [v \in 1..n |-> IF v = n THEN "active" ELSE "superseded"]
             /\ policies' \in Seq({"active", "superseded"})
             /\ Len(policies') = n
<1> DEFINE n == Len(policies) + 1
           new == append[w].change.version
           S == {"active", "superseded"}
<1>1. Len(policies) \in Nat /\ DOMAIN policies = 1..Len(policies)
  BY LenProperties DEF TypeInv, TypeOK
<1>2. new \in 1..n
  BY DEF TypeInv, Frames, Frame, CommitPolicy
<1>3. new \notin DOMAIN policies
  BY DEF CommitPolicy, Commit, Admitted, KeysAreFree
<1>4. new = n
  BY <1>1, <1>2, <1>3
<1>5. DOMAIN policies \cup {n} = 1..n
  BY <1>1
<1>6. policies' = [v \in 1..n |-> IF v = n THEN "active" ELSE "superseded"]
  BY <1>4, <1>5 DEF CommitPolicy
<1>7. policies' \in [1..n -> S]
  BY <1>6
<1>8. n \in Nat
  BY <1>1
<1> HIDE DEF n
<1>9. policies' \in Seq(S)
  BY <1>7, <1>8, SeqDef
<1>10. Len(policies') \in Nat /\ 1..Len(policies') = 1..n
  BY <1>7, <1>9, LenProperties
<1>11. Len(policies') = n
  BY <1>8, <1>10
<1> QED BY <1>1, <1>4, <1>6, <1>9, <1>11 DEF n

\* Committing a policy keeps the type invariant.
LEMMA CommitPolicyType ==
  ASSUME TypeInv, NEW w \in Workers, CommitPolicy(w)
  PROVE  TypeInv'
<1>1. Tables /\ Commit(w) /\ UNCHANGED <<runs, records, imported>>
  BY TypeInvSplit DEF CommitPolicy
<1>2. TablesGrow
  BY <1>1, PolicyAppended DEF TablesGrow
<1>3. Tables'
  BY <1>1, <1>2, PolicyAppended, CommitType DEF Tables
<1> QED BY <1>1, <1>2, <1>3, CommitType, TypeInvSplitPrime

\* Committing a new run keeps the type invariant.
LEMMA CommitRunType ==
  ASSUME TypeInv, NEW w \in Workers, CommitRun(w)
  PROVE  TypeInv'
<1> DEFINE c == append[w].change
           run == [NoRun EXCEPT !.status = "running", !.policy = c.policy]
<1>1. /\ Tables /\ TablesGrow /\ Commit(w)
      /\ UNCHANGED <<policies, records, imported>>
      /\ runs' = [runs EXCEPT ![c.run] = run]
  BY TypeInvSplit, GrowByNothing DEF CommitRun
<1>2. c.run \in Keys /\ c.policy \in Nat
  BY <1>1, CommitType, ChangeFields DEF CommitRun, RunTypes
<1>3. run \in Run
  <2> DEFINE r == [NoRun EXCEPT !.status = "running"]
  <2>1. r \in Run
    BY EmptyFrame DEF Run, RunStatus
  <2> HIDE DEF r
  <2>2. [r EXCEPT !.policy = c.policy] \in Run
    BY <1>2, <2>1 DEF Run
  <2> QED BY <2>2 DEF r
<1> HIDE DEF run
<1>4. Tables'
  BY <1>1, <1>2, <1>3, CommitType DEF Tables
<1> QED BY <1>1, <1>4, CommitType, TypeInvSplitPrime

\* Committing a page keeps the type invariant: its rows are finitely many.
LEMMA CommitPageType ==
  ASSUME TypeInv, NEW w \in Workers, CommitPage(w)
  PROVE  TypeInv'
<1> DEFINE c == append[w].change
           old == runs[c.run]
           run == [old EXCEPT !.counts = AddCounts(old.counts, c.counts)]
<1>1. /\ Tables /\ Commit(w)
      /\ UNCHANGED <<policies, imported>>
      /\ records' = records \cup c.rows
      /\ runs' = [runs EXCEPT ![c.run] = run]
  BY TypeInvSplit DEF CommitPage
<1>2. TablesGrow
  BY <1>1, LenProperties DEF TablesGrow, Tables
<1>3. c.run \in Keys /\ c.rows \subseteq Row /\ c.counts \in Counts
  BY <1>1, <1>2, CommitType, ChangeFields DEF CommitPage, RunTypes
<1>4. IsFiniteSet(c.rows)
  BY DEF CommitPage, TypeInv, Frames, Frame
<1>5. IsFiniteSet(records')
  BY <1>1, <1>4, FS_Union DEF Tables
<1>6. old \in Run
  BY <1>1, <1>3 DEF Tables
<1>7. AddCounts(old.counts, c.counts) \in Counts
  BY <1>3, <1>6 DEF AddCounts, Counts, Run
<1>8. run \in Run
  BY <1>6, <1>7 DEF Run
<1> HIDE DEF run, c
<1>9. Tables'
  BY <1>1, <1>2, <1>3, <1>5, <1>8, CommitType DEF Tables
<1> QED BY <1>1, <1>2, <1>9, CommitType, TypeInvSplitPrime

\* Committing the end of a run keeps the type invariant.
LEMMA CommitFinishType ==
  ASSUME TypeInv, NEW w \in Workers, CommitFinish(w)
  PROVE  TypeInv'
<1> DEFINE c == append[w].change
           old == runs[c.run]
           failures == IF c.status \in {"failed", "partial"} THEN 1 ELSE 0
           run == [old EXCEPT !.status = c.status,
                              !.failed = old.failed + failures]
<1>1. /\ Tables /\ TablesGrow /\ Commit(w)
      /\ UNCHANGED <<policies, records, imported>>
      /\ runs' = [runs EXCEPT ![c.run] = run]
  BY TypeInvSplit, GrowByNothing DEF CommitFinish
<1>2. c.run \in Keys /\ c.status \in Terminal
  BY <1>1, CommitType, ChangeFields DEF CommitFinish, RunTypes
<1>3. old \in Run /\ failures \in Nat
  BY <1>1, <1>2 DEF Tables
<1>4. run \in Run
  <2> DEFINE r == [old EXCEPT !.status = c.status]
  <2>1. r \in Run
    BY <1>2, <1>3 DEF Run, Terminal, RunStatus
  <2>2. old.failed + failures \in Nat
    BY <1>3 DEF Run
  <2> HIDE DEF r, failures
  <2>3. [r EXCEPT !.failed = old.failed + failures] \in Run
    BY <2>1, <2>2 DEF Run
  <2> QED BY <2>3 DEF r
<1> HIDE DEF run
<1>5. Tables'
  BY <1>1, <1>2, <1>4, CommitType DEF Tables
<1> QED BY <1>1, <1>5, CommitType, TypeInvSplitPrime

\* Committing an acknowledgement keeps the type invariant.
LEMMA CommitImportType ==
  ASSUME TypeInv, NEW w \in Workers, CommitImport(w)
  PROVE  TypeInv'
<1> DEFINE c == append[w].change
           fresh == c.rows \ imported
           n(k) == Cardinality({r \in fresh : r.run = k})
<1>1. /\ Tables /\ TablesGrow /\ Commit(w)
      /\ UNCHANGED <<policies, records>>
      /\ imported' = imported \cup fresh
      /\ runs' = [k \in Keys |-> [runs[k] EXCEPT !.imported = @ + n(k)]]
  BY TypeInvSplit, GrowByNothing DEF CommitImport
<1>2. IsFiniteSet(c.rows) /\ c.rows \subseteq records
  BY DEF CommitImport, TypeInv, Frames, Frame
<1>3. \A k \in Keys : n(k) \in Nat
  <2> TAKE k \in Keys
  <2>1. {r \in fresh : r.run = k} \in SUBSET c.rows
    OBVIOUS
  <2> QED BY <1>2, <2>1, FS_Subset, FS_CardinalityType
<1> HIDE DEF n
<1>4. \A k \in Keys : [runs[k] EXCEPT !.imported = @ + n(k)] \in Run
  <2> TAKE k \in Keys
  <2> DEFINE m == runs[k].imported + n(k)
  <2>1. runs[k] \in Run /\ m \in Nat
    BY <1>1, <1>3 DEF Tables, Run
  <2> HIDE DEF m
  <2>2. [runs[k] EXCEPT !.imported = m] \in Run
    BY <2>1 DEF Run
  <2> QED BY <2>2 DEF m
<1>5. runs' \in [Keys -> Run]
  BY <1>1, <1>4
<1>6. Tables'
  BY <1>1, <1>2, <1>5, CommitType DEF Tables
<1> QED BY <1>1, <1>6, CommitType, TypeInvSplitPrime

\* The steps after which nothing has been committed.
LEMMA NotCommittedType ==
  ASSUME TypeInv, NEW w \in Workers,
         Conflict(w) \/ RefuseRun(w) \/ DatabaseError(w) \/ Crash(w)
  PROVE  TypeInv'
<1>1. Frames /\ Tables
  BY TypeInvSplit
<1>2. UNCHANGED db /\ clock' \in Nat /\ faults' \in Nat
  BY <1>1 DEF Conflict, RefuseRun, DatabaseError, Crash, Fault, Tables
<1>3. TablesGrow
  BY <1>2, GrowByNothing DEF db
<1>4. ASSUME Conflict(w) PROVE Frames'
  <2> DEFINE a == [append[w] EXCEPT !.attempt = 1, !.head = 0]
             b == [append[w] EXCEPT !.attempt = 1]
  <2>1. append[w] \in AppendType /\ Frame(Len(policies), records, pc[w], job[w], append[w])
    BY <1>1 DEF Frames
  <2>2. b \in AppendType /\ b.change = append[w].change
    BY <2>1 DEF AppendType
  <2> HIDE DEF b
  <2>3. [b EXCEPT !.head = 0] \in AppendType /\ [b EXCEPT !.head = 0].change = b.change
    BY <2>2 DEF AppendType
  <2>4. a \in AppendType /\ a.change = append[w].change
    BY <2>2, <2>3 DEF b
  <2>5. \/ Throw(w)
        \/ /\ append' = [append EXCEPT ![w] = a]
           /\ pc' = [pc EXCEPT ![w] = "head"]
           /\ job' = [job EXCEPT ![w] = job[w]]
    BY <1>1, <1>4, Unchanged DEF Conflict, Go
  <2> HIDE DEF a
  <2>6. Frame(Len(policies), records, "head", job[w], a)
    BY <1>4, <2>1, <2>4 DEF Frame, Locations, Conflict
  <2> QED BY <1>1, <1>3, <2>5, <2>6, ThrowFrames, OneFrame
<1>5. ASSUME RefuseRun(w) PROVE Frames'
  BY <1>1, <1>3, <1>5, ThrowFrames DEF RefuseRun
<1>6. ASSUME DatabaseError(w) PROVE Frames'
  <2>1. pc[w] = "classify" => job[w].run \in Keys
    BY <1>1 DEF Frames, Frame
  <2> QED BY <1>1, <1>3, <1>6, <2>1, ThrowFrames, ReturnFrames, CatchFrames
          DEF DatabaseError
<1>7. ASSUME Crash(w) PROVE Frames'
  BY <1>1, <1>3, <1>7, ReturnFrames DEF Crash
<1>8. Frames'
  BY <1>4, <1>5, <1>6, <1>7
<1> QED BY <1>1, <1>2, <1>8, TablesKept, TypeInvSplitPrime

\* The type invariant holds initially ...
LEMMA InitType == Init => TypeInv
<1> SUFFICES ASSUME Init PROVE TypeInv
  OBVIOUS
<1>1. Tables
  BY EmptyFrame, EmptySeq, FS_EmptySet DEF Init, Tables
<1>2. Frame(Len(policies), records, "idle", NoJob, NoAppend)
  BY EmptyFrame, FS_EmptySet DEF Frame, Locations, NoJob, RunTypes
<1>3. Frames
  BY <1>2, EmptyFrame DEF Init, Frames, Locations
<1> QED BY <1>1, <1>3, TypeInvSplit

\* ... every step keeps it ...
LEMMA NextType == TypeInv /\ [Next]_vars => TypeInv'
<1> SUFFICES ASSUME TypeInv, [Next]_vars PROVE TypeInv'
  OBVIOUS
<1>1. CASE UNCHANGED vars
  <2>1. Tables /\ Frames
    BY TypeInvSplit
  <2>2. Tables'
    BY <1>1, <2>1 DEF vars, Tables
  <2>3. Frames'
    BY <1>1, <2>1 DEF vars, Frames
  <2> QED BY <2>2, <2>3, TypeInvSplitPrime
<1>2. CASE Next
  <2>1. PICK w \in Workers :
          Request(w) \/ RunStep(w) \/ AppendStep(w) \/ DatabaseError(w) \/ Crash(w)
    BY <1>2 DEF Next
  <2>2. CASE Request(w)
    BY <2>2, ApprovePolicyType, RequestRunType, AcknowledgeImportType DEF Request
  <2>3. CASE RunStep(w)
    BY <2>3, ChecksType, PreparesType, FetchOverType DEF RunStep
  <2>4. CASE AppendStep(w)
    BY <2>4, ReadHeadType, CommitPolicyType, CommitRunType, CommitPageType,
       CommitFinishType, CommitImportType, NotCommittedType DEF AppendStep
  <2>5. CASE DatabaseError(w) \/ Crash(w)
    BY <2>5, NotCommittedType
  <2> QED BY <2>1, <2>2, <2>3, <2>4, <2>5
<1> QED BY <1>1, <1>2

\* ... and so it always holds.
LEMMA SpecTypeInv == Spec => []TypeInv
  BY InitType, NextType, PTL DEF Spec

\* Every variable holds a value of its kind: TypeOK, for all constants.
THEOREM TypeCorrect == Spec => []TypeOK
<1>1. TypeInv => TypeOK
  BY DEF TypeInv
<1> QED BY <1>1, SpecTypeInv, PTL
=============================================================================
