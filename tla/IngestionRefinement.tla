------------------------- MODULE IngestionRefinement -------------------------
(***************************************************************************)
(* Ingestion implements AuditedIngestion: seen from outside, interleaved   *)
(* workers with stale reads, retries, lost replies and crashes do whole    *)
(* operations, one at a time.  A commit is the operation of its change,    *)
(* and every other step is a stutter.                                      *)
(***************************************************************************)
EXTENDS IngestionTables

-----------------------------------------------------------------------------
(* The end of a run.                                                       *)

\* A run is about to be ended by its owner while it runs, or once more after
\* it was called staged, as something less.
FinishInv ==
  \A k \in Keys, w \in Workers :
    job[w].run = k /\ append[w].change.type = "run-finished" =>
      \/ runs[k].status = "running"
      \/ runs[k].status = "staged" /\ ~EndsWell(append[w])

\* A step that commits nothing keeps FinishInv.
LEMMA FinishQuiet ==
  ASSUME TypeInv, OwnerInv, PageFrames, FinishInv, NEW w \in Workers, QuietStep(w)
  PROVE  FinishInv'
<1>1. PICK p, j, a : Moves(w, p, j, a) /\ GoesOn(w, p, j, a)
  BY QuietPage DEF GoesOnInOrder
<1>2. Frames /\ runs' = runs
  BY QuietStepKeepsDb DEF TypeInv
<1>3. pc'[w] = p /\ job'[w] = j /\ append'[w] = a
  BY <1>1, <1>2, MovesOne
<1>4. Acts(p, a) => Acts(pc[w], append[w]) /\ j.run = job[w].run
  <2>1. PICK q, l, b : Moves(w, q, l, b) /\ Continues(w, q, l, b)
    BY QuietMoves
  <2>2. pc'[w] = q /\ job'[w] = l /\ append'[w] = b
    BY <1>2, <2>1, MovesOne
  <2> QED BY <1>3, <2>1, <2>2 DEF Continues
<1> SUFFICES ASSUME NEW k \in Keys, NEW u \in Workers,
                    job'[u].run = k, append'[u].change.type = "run-finished"
             PROVE  \/ runs[k].status = "running"
                    \/ runs[k].status = "staged" /\ ~EndsWell(append'[u])
  BY <1>2 DEF FinishInv, EndsWell
<1>5. CASE u # w
  <2>1. job'[u] = job[u] /\ append'[u] = append[u]
    BY <1>1, <1>2, <1>5, MovesOne
  <2> QED BY <2>1 DEF FinishInv
<1>6. CASE u = w
  <2>1. job[w].run = k /\ Acts(pc[w], append[w])
    BY <1>3, <1>4, <1>6 DEF Acts
  <2>2. CASE Retrieves(w, k)
    BY <2>2 DEF OwnerInv
  <2>3. CASE ~Retrieves(w, k)
    <3>1. append[w].change.type = "run-finished" /\ pc[w] # "fetch"
      BY <2>1, <2>3 DEF Acts, Retrieves
    <3>2. EndsWell(a) => EndsWell(append[w])
      BY <1>1, <3>1 DEF GoesOn
    <3> QED BY <1>3, <1>6, <2>1, <3>1, <3>2 DEF FinishInv
  <2> QED BY <2>2, <2>3
<1> QED BY <1>5, <1>6

\* A commit keeps FinishInv.
LEMMA FinishCommit ==
  ASSUME TypeInv, OwnerInv, PageFrames, FinishInv, NEW w \in Workers, CommitStep(w)
  PROVE  FinishInv'
<1> DEFINE c == append[w].change
<1>1. PICK p, j, a : Moves(w, p, j, a) /\ Proceeds(w, p, j, a)
  BY CommitTurns, CommitStepCommits
<1>2. Frames /\ Writes(c) /\ (c.type \in RunTypes => c.run = job[w].run)
  BY CommitWrites DEF TypeInv, Frames, Frame
<1>3. /\ c.type = "page-staged" => runs[c.run].status = "running"
      /\ c.type = "run-finished" => Owns(w, c.run)
  BY CommitOwner
<1> SUFFICES ASSUME NEW k \in Keys, NEW u \in Workers,
                    job'[u].run = k, append'[u].change.type = "run-finished"
             PROVE  \/ runs'[k].status = "running"
                    \/ runs'[k].status = "staged" /\ ~EndsWell(append'[u])
  BY DEF FinishInv, EndsWell
<1>4. CASE u # w
  <2>1. pc'[u] = pc[u] /\ job'[u] = job[u] /\ append'[u] = append[u]
    BY <1>1, <1>2, <1>4, MovesOne
  <2>2. Owns(u, k) /\ runs[k].status # "none"
    BY <2>1 DEF Owns, Acts, OwnerInv
  <2>3. ~(c.type = "run-finished" /\ c.run = k)
    BY <1>3, <1>4, <2>2 DEF OwnerInv
  <2>4. runs'[k].status = runs[k].status
    BY <1>2, <2>2, <2>3 DEF Writes
  <2> QED BY <2>1, <2>4 DEF FinishInv
<1>5. CASE u = w
  <2>1. job'[w] = j /\ append'[w] = a
    BY <1>1, <1>2, MovesOne
  <2>2. /\ ~EndsWell(a) /\ job[w].run = k
        /\ c.type = "page-staged" \/ EndsWell(append[w])
    BY <1>1, <1>5, <2>1 DEF Proceeds
  <2>3. CASE c.type = "page-staged"
    <3>1. runs'[k].status = "running"
      BY <1>2, <1>3, <2>2, <2>3 DEF Writes, RunTypes
    <3> QED BY <3>1
  <2>4. CASE EndsWell(append[w])
    <3>1. runs'[k].status = "staged"
      BY <1>2, <2>2, <2>4 DEF Writes, EndsWell, RunTypes
    <3> QED BY <1>5, <2>1, <2>2, <3>1
  <2> QED BY <2>2, <2>3, <2>4
<1> QED BY <1>4, <1>5

\* Every step keeps FinishInv ...
LEMMA FinishStep ==
  TypeInv /\ OwnerInv /\ PageFrames /\ FinishInv /\ [Next]_vars => FinishInv'
<1> SUFFICES ASSUME TypeInv, OwnerInv, PageFrames, FinishInv, [Next]_vars
             PROVE  FinishInv'
  OBVIOUS
<1>1. CASE UNCHANGED vars
  BY <1>1 DEF vars, FinishInv, EndsWell
<1> QED BY <1>1, NextCases, FinishQuiet, FinishCommit

\* ... and so it always holds.
LEMMA SpecFinishInv == Spec => []FinishInv
<1>1. Init => FinishInv
  BY DEF Init, FinishInv, NoAppend, NoChange
<1> QED BY <1>1, FinishStep, SpecTypeInv, SpecOwnerInv, SpecPages, PTL DEF Spec

-----------------------------------------------------------------------------
(* A run that has not started has an empty row.                            *)

NoRunInv == \A k \in Keys : runs[k].status = "none" => runs[k] = NoRun

\* Every step keeps NoRunInv: no row of such a run can be acknowledged.
LEMMA NoRunStep ==
  TypeInv /\ OwnerInv /\ PageFrames /\ ImportInv /\ NoRunInv /\ [Next]_vars
    => NoRunInv'
<1> SUFFICES ASSUME TypeInv, OwnerInv, PageFrames, ImportInv, NoRunInv, [Next]_vars
             PROVE  NoRunInv'
  OBVIOUS
<1>1. CASE UNCHANGED runs
  BY <1>1 DEF NoRunInv
<1>2. ASSUME NEW w \in Workers, CommitStep(w) PROVE NoRunInv'
  <2> DEFINE c == append[w].change
  <2>1. Writes(c) /\ runs \in [Keys -> Run]
    BY <1>2, CommitWrites DEF TypeInv, TypeOK
  <2>2. c.type = "page-staged" => runs[c.run].status = "running"
    BY <1>2, CommitOwner
  <2> SUFFICES ASSUME NEW k \in Keys, runs'[k].status = "none" PROVE runs'[k] = NoRun
    BY DEF NoRunInv
  <2>3. CASE CommitImport(w)
    <3> DEFINE fresh == {r \in c.rows \ imported : r.run = k}
    <3>1. /\ c.rows \subseteq records /\ runs[k].status = "none"
      BY <2>1, <2>3 DEF Writes, CommitImport
    <3>2. fresh = {}
      BY <3>1 DEF ImportInv
    <3>3. runs'[k] = [runs[k] EXCEPT !.imported = @ + Cardinality(fresh)]
      BY <2>3 DEF CommitImport
    <3>4. Cardinality(fresh) = 0 /\ runs[k] = NoRun
      BY <3>1, <3>2, FS_EmptySet DEF NoRunInv
    <3> HIDE DEF fresh
    <3> QED BY <3>3, <3>4 DEF NoRun
  <2>4. CASE ~CommitImport(w)
    <3>1. c.type # "records-imported"
      BY <1>2, <2>4 DEF CommitStep, CommitPolicy, CommitRun, CommitPage, CommitFinish
    <3>2. runs'[k] = runs[k]
      BY <2>1, <2>2, <3>1 DEF Writes, Terminal
    <3> QED BY <3>2 DEF NoRunInv
  <2> QED BY <2>3, <2>4
<1> QED BY <1>1, <1>2, NextCases, QuietStepKeepsDb DEF vars

\* NoRunInv always holds.
LEMMA SpecNoRunInv == Spec => []NoRunInv
<1>1. Init => NoRunInv
  BY DEF Init, NoRunInv
<1> QED BY <1>1, NoRunStep, SpecTypeInv, SpecOwnerInv, SpecPages, SpecImportInv, PTL
        DEF Spec

-----------------------------------------------------------------------------
(* Each commit is an operation.                                            *)

\* The log of the operations: the audit chain without its hashes.
Done == [n \in DOMAIN audit |-> audit[n].change]

\* AuditedIngestion counts like Ingestion.
LEMMA SameCardinality == \A S : Atomic!Cardinality(S) = Cardinality(S)
  BY Zenon DEF Cardinality, Atomic!Cardinality

\* A commit appends its change to the log of the operations.
LEMMA CommitLogs ==
  ASSUME TypeInv, NEW w \in Workers, CommitStep(w)
  PROVE  Done' = Append(Done, append[w].change)
<1> DEFINE c == append[w].change
           n == Len(audit)
<1>1. /\ n \in Nat /\ DOMAIN audit = 1..n /\ DOMAIN audit' = 1..(n + 1)
      /\ audit'[n + 1].change = c
      /\ \A m \in 1..n : audit'[m] = audit[m] /\ audit[m].change \in Change
      /\ c \in Change
  BY OneEventMore
<1>2. Done = [m \in 1..n |-> audit[m].change]
  BY <1>1 DEF Done
<1>3. Done' = [m \in 1..(n + 1) |-> audit'[m].change]
  BY <1>1 DEF Done
<1>4. Done \in [1..n -> Change]
  BY <1>1, <1>2
<1> HIDE DEF n, c
<1>5. Done \in Seq(Change) /\ Len(Done) = n
  BY <1>1, <1>4, SeqDef, LenProperties
<1>6. /\ Append(Done, c) \in Seq(Change)
      /\ Len(Append(Done, c)) = n + 1
      /\ \A m \in 1..n : Append(Done, c)[m] = Done[m]
      /\ Append(Done, c)[n + 1] = c
  BY <1>1, <1>5, AppendProperties
<1>7. Append(Done, c) = [m \in 1..(n + 1) |-> Append(Done, c)[m]]
  BY <1>6, LenProperties
<1>8. \A m \in 1..(n + 1) : audit'[m].change = Append(Done, c)[m]
  <2> TAKE m \in 1..(n + 1)
  <2>1. CASE m = n + 1
    BY <1>1, <1>6, <2>1
  <2>2. CASE m \in 1..n
    BY <1>1, <1>2, <1>6, <2>2
  <2>3. m = n + 1 \/ m \in 1..n
    BY <1>1
  <2> QED BY <2>1, <2>2, <2>3
<1>9. Done' = Append(Done, c)
  BY <1>3, <1>7, <1>8
<1> QED BY <1>9 DEF c

\* Approving a policy.
LEMMA PolicyIsApproved ==
  ASSUME TypeInv, NEW w \in Workers, CommitPolicy(w)
  PROVE  Atomic!ApprovePolicy
<1> DEFINE c == append[w].change
           n == Len(policies) + 1
<1>1. /\ Len(policies) \in Nat /\ c.version = n
      /\ policies' = [v \in 1..n |-> IF v = n THEN "active" ELSE "superseded"]
  BY PolicyAppended
<1>2. c \in Change /\ c.type = "policy-approved"
  BY OneEventMore DEF CommitStep, CommitPolicy
<1>3. c = [type |-> "policy-approved", version |-> n]
  <2>1. c \in [type : {"policy-approved"}, version : Nat]
    BY <1>2 DEF Change
  <2> HIDE DEF n
  <2> QED BY <1>1, <2>1
<1>4. Done' = Append(Done, c)
  BY CommitLogs DEF CommitStep
<1>5. policies' = Append([v \in DOMAIN policies |-> "superseded"], "active")
  <2> DEFINE m == Len(policies)
             s == [v \in 1..m |-> "superseded"]
             S == {"active", "superseded"}
  <2>1. DOMAIN policies = 1..m /\ m \in Nat /\ n = m + 1
    BY <1>1, LenProperties DEF TypeInv, TypeOK
  <2>2. s \in [1..m -> S]
    OBVIOUS
  <2> HIDE DEF n, m
  <2>3. s \in Seq(S) /\ Len(s) = m
    BY <2>1, <2>2, SeqDef, LenProperties
  <2>4. \A v \in 1..m : s[v] = "superseded"
    OBVIOUS
  <2> HIDE DEF s, S
  <2>5. /\ Append(s, "active") \in Seq(S)
        /\ Len(Append(s, "active")) = n
        /\ \A v \in 1..m : Append(s, "active")[v] = "superseded"
        /\ Append(s, "active")[n] = "active"
    BY <2>1, <2>3, <2>4, AppendProperties DEF S
  <2>6. Append(s, "active") = [v \in 1..n |-> Append(s, "active")[v]]
    BY <2>5, LenProperties
  <2>7. \A v \in 1..n : v # n => v \in 1..m
    BY <2>1
  <2>8. policies' = Append(s, "active")
    BY <1>1, <2>5, <2>6, <2>7
  <2> QED BY <2>1, <2>8 DEF s
<1>6. UNCHANGED <<runs, records, imported>>
  BY DEF CommitPolicy
<1> HIDE DEF c
<1> QED BY <1>3, <1>4, <1>5, <1>6 DEF Atomic!ApprovePolicy, Atomic!Log, Done

\* Starting a run: under the newest policy, because the trigger asks for the
\* active one when the insert commits.
LEMMA RunIsStarted ==
  ASSUME TypeInv, ActiveIsNewest, NoRunInv, NEW w \in Workers, CommitRun(w)
  PROVE  \E k \in Keys : Atomic!StartRun(k)
<1> DEFINE c == append[w].change
<1>1. /\ c \in Change /\ c.type = "run-started" /\ Commit(w) /\ CommitStep(w)
      /\ runs \in [Keys -> Run]
      /\ UNCHANGED <<policies, records, imported>>
  BY OneEventMore DEF CommitStep, CommitRun, TypeInv, TypeOK
<1>2. c.run \in Keys /\ c.policy \in Nat
  BY <1>1, ChangeFields DEF RunTypes
<1>3. /\ runs[c.run].status = "none" /\ RunningUnder(c.policy) = {}
      /\ c.policy \in ActiveVersions
  BY <1>1 DEF Commit, Admitted, Refused, KeysAreFree, PolicyIsActive
<1>4. c.policy = Len(policies) /\ policies # <<>>
  <2>1. c.policy \in DOMAIN policies /\ c.policy = Len(policies)
    BY <1>3 DEF ActiveVersions, ActiveIsNewest
  <2>2. DOMAIN <<>> = {}
    OBVIOUS
  <2> QED BY <2>1, <2>2
<1>5. c = [type |-> "run-started", run |-> c.run, policy |-> Len(policies)]
  <2>1. c \in [type : {"run-started"}, run : Keys, policy : Nat]
    BY <1>1 DEF Change
  <2> HIDE DEF c
  <2> QED BY <1>4, <2>1
<1>6. \A j \in Keys : ~(/\ runs[j].status = "running"
                        /\ runs[j].policy = Len(policies))
  BY <1>3, <1>4 DEF RunningUnder
<1>7. runs' = [runs EXCEPT ![c.run].status = "running",
                           ![c.run].policy = Len(policies)]
  <2>1. runs[c.run] = NoRun
    BY <1>2, <1>3 DEF NoRunInv
  <2>2. runs' = [runs EXCEPT ![c.run] = [NoRun EXCEPT !.status = "running",
                                                      !.policy = c.policy]]
    BY DEF CommitRun
  <2> HIDE DEF c
  <2> QED BY <1>1, <1>2, <1>4, <2>1, <2>2
<1>8. Done' = Append(Done, c)
  BY <1>1, CommitLogs
<1>9. PICK k \in Keys : k = c.run
  BY <1>2
<1> HIDE DEF c
<1>10. Atomic!StartRun(k)
  BY <1>1, <1>3, <1>4, <1>5, <1>6, <1>7, <1>8, <1>9
     DEF Atomic!StartRun, Atomic!Log, Done
<1> QED BY <1>10

\* Ending a run.
LEMMA RunIsFinished ==
  ASSUME TypeInv, FinishInv, NEW w \in Workers, CommitFinish(w)
  PROVE  \E k \in Keys, s \in Terminal : Atomic!FinishRun(k, s)
<1> DEFINE c == append[w].change
           old == runs[c.run]
           failures == IF c.status \in {"failed", "partial"} THEN 1 ELSE 0
<1>1. /\ c \in Change /\ c.type = "run-finished" /\ Commit(w) /\ CommitStep(w)
      /\ runs \in [Keys -> Run]
      /\ UNCHANGED <<policies, records, imported>>
      /\ c.run = job[w].run
  BY OneEventMore DEF CommitStep, CommitFinish, TypeInv, TypeOK, Frames, Frame, RunTypes
<1>2. c.run \in Keys /\ c.status \in Terminal
  BY <1>1, ChangeFields DEF RunTypes
<1>3. \/ runs[c.run].status = "running"
      \/ runs[c.run].status = "staged" /\ c.status # "staged"
  BY <1>1, <1>2 DEF FinishInv, EndsWell
<1>4. c = [type |-> "run-finished", run |-> c.run, status |-> c.status]
  <2>1. c \in [type : {"run-finished"}, run : Keys, status : Terminal]
    BY <1>1 DEF Change
  <2> HIDE DEF c
  <2> QED BY <2>1
<1>5. runs' = [runs EXCEPT ![c.run].status = c.status,
                           ![c.run].failed = IF c.status \in {"failed", "partial"}
                                             THEN @ + 1 ELSE @]
  <2>1. runs' = [runs EXCEPT ![c.run] =
                   [old EXCEPT !.status = c.status,
                               !.failed = old.failed + failures]]
    BY DEF CommitFinish
  <2>2. old \in Run /\ old.failed \in Nat
    BY <1>1, <1>2 DEF Run
  <2>3. old.failed + failures
          = IF c.status \in {"failed", "partial"} THEN old.failed + 1 ELSE old.failed
    BY <2>2
  <2> DEFINE once == [runs EXCEPT ![c.run].status = c.status]
  <2>4. once[c.run].failed = old.failed /\ once[c.run] = [old EXCEPT !.status = c.status]
    BY <1>1, <1>2, <2>2 DEF Run
  <2>5. runs' = [once EXCEPT ![c.run].failed = old.failed + failures]
    <3>1. [once EXCEPT ![c.run].failed = old.failed + failures]
            = [once EXCEPT ![c.run] = [once[c.run] EXCEPT !.failed = old.failed + failures]]
      OBVIOUS
    <3> HIDE DEF failures
    <3> QED BY <1>1, <1>2, <2>1, <2>4, <3>1
  <2> HIDE DEF failures, old, c
  <2> QED BY <2>3, <2>4, <2>5
<1>6. Done' = Append(Done, c)
  BY <1>1, CommitLogs
<1>7. PICK k \in Keys, s \in Terminal : k = c.run /\ s = c.status
  BY <1>2
<1> HIDE DEF c
<1>8. Atomic!FinishRun(k, s)
  BY <1>1, <1>3, <1>4, <1>5, <1>6, <1>7 DEF Atomic!FinishRun, Atomic!Log, Done
<1> QED BY <1>8

\* Acknowledging an import.
LEMMA ImportIsAcknowledged ==
  ASSUME TypeInv, PageFrames, NEW w \in Workers, CommitImport(w)
  PROVE  \E rows \in SUBSET records : Atomic!AcknowledgeImport(rows)
<1> DEFINE c == append[w].change
<1>1. /\ c \in Change /\ c.type = "records-imported" /\ CommitStep(w)
      /\ UNCHANGED <<policies, records>>
      /\ imported' = imported \cup c.rows
      /\ c.rows \subseteq records
  BY OneEventMore, CommitWrites DEF CommitStep, CommitImport, Writes
<1>2. \A r \in c.rows : r.class # "exception"
  BY <1>1 DEF PageFrames, PageFrame
<1>3. c = [type |-> "records-imported", rows |-> c.rows]
  <2>1. c \in [type : {"records-imported"}, rows : SUBSET Row]
    BY <1>1 DEF Change
  <2> HIDE DEF c
  <2> QED BY <2>1
<1> DEFINE Counted(rows) ==
             [k \in Keys |->
                [runs[k] EXCEPT !.imported =
                   @ + Cardinality({r \in rows \ imported : r.run = k})]]
<1>4. runs' = Counted(c.rows)
  BY DEF CommitImport
<1>5. Done' = Append(Done, c)
  BY <1>1, CommitLogs
<1>6. PICK rows \in SUBSET records : rows = c.rows
  BY <1>1
<1> HIDE DEF c, Counted
<1>7. runs' = Counted(rows)
  BY <1>4, <1>6
<1>8. Atomic!Log([type |-> "records-imported", rows |-> rows])
  BY <1>3, <1>5, <1>6 DEF Atomic!Log, Done
<1>9. Atomic!AcknowledgeImport(rows)
  BY <1>1, <1>2, <1>6, <1>7, <1>8, SameCardinality
     DEF Atomic!AcknowledgeImport, Counted
<1> QED BY <1>9

\* The records that a page adds are those of the page in hand: no identity of
\* the page has a row of this run.
LEMMA PageIsNew ==
  ASSUME TypeInv, OwnerInv, PageFrames, StagedInv, CountersInv, NEW w \in Workers,
         CommitStep(w), append[w].change.type = "page-staged"
  PROVE  LET c == append[w].change
         IN  /\ c.rows \cap records = {}
             /\ \A r \in c.rows : r.run = c.run
             /\ \A r, s \in c.rows : r.identity = s.identity => r = s
             /\ CountsRows(c.counts, c.rows)
             /\ c.counts.duplicate \in 0..Cardinality(Identities)
<1> DEFINE c == append[w].change
<1>1. /\ c \in Change /\ c.run \in Keys /\ c.counts \in Counts
  BY OneEventMore, ChangeFields DEF RunTypes
<1>2. /\ c.rows = job[w].rows /\ c.counts = job[w].counts /\ job[w].todo = {}
      /\ c.run = job[w].run /\ PageInHand(job[w]) /\ Retrieves(w, c.run)
  BY CommitOwner
<1>3. PICK n \in Nat : /\ n = StagedPages(c.run) /\ job[w].page = n + 1
                       /\ n + 1 \in DOMAIN Pages
  BY <1>1, <1>2, StagedPagesAfter DEF PageInHand, StagedInv
<1>4. FirstPages(n) \cap Pages[n + 1] = {}
  BY <1>3, OnePageMore
<1>5. /\ \A r \in c.rows : r.run = c.run /\ r.identity \in Pages[n + 1]
      /\ \A r, s \in c.rows : r.identity = s.identity => r = s
      /\ CountsRows(c.counts, c.rows)
  BY <1>2, <1>3 DEF PageInHand
<1>6. \A r \in records : r.run = c.run => r.identity \in FirstPages(n)
  BY <1>3 DEF CountersInv
<1>7. c.rows \cap records = {}
  BY <1>4, <1>5, <1>6
<1>8. c.counts.duplicate \in 0..Cardinality(Identities)
  <2>1. Total(job[w].counts) + Cardinality(job[w].todo) = Cardinality(Pages[n + 1])
    BY <1>2, <1>3 DEF PageInHand
  <2>2. Cardinality(job[w].todo) = 0
    BY <1>2, FS_EmptySet
  <2>3. /\ Cardinality(Pages[n + 1]) \in Nat /\ Cardinality(Identities) \in Nat
        /\ Cardinality(Pages[n + 1]) <= Cardinality(Identities)
    <3>1. IsFiniteSet(Identities)
      BY ConstantsAssumption
    <3>2. Pages[n + 1] \in SUBSET Identities
      BY <1>3, PageIsFinite
    <3> QED BY <3>1, <3>2, FS_Subset, FS_CardinalityType
  <2>4. /\ c.counts.safe \in Nat /\ c.counts.changed \in Nat
        /\ c.counts.duplicate \in Nat /\ c.counts.exception \in Nat
    BY <1>1 DEF Counts
  <2>5. Total(c.counts) = Cardinality(Pages[n + 1])
    <3>1. Total(c.counts) \in Nat
      BY <2>4 DEF Total
    <3> QED BY <1>2, <2>1, <2>2, <3>1
  <2> HIDE DEF c
  <2>6. c.counts.duplicate <= Total(c.counts) /\ Total(c.counts) \in Nat
    BY <2>4 DEF Total
  <2> QED BY <2>3, <2>4, <2>5, <2>6
<1> QED BY <1>5, <1>7, <1>8

\* Staging a page.
LEMMA PageIsStaged ==
  ASSUME TypeInv, OwnerInv, PageFrames, StagedInv, CountersInv,
         NEW w \in Workers, CommitPage(w)
  PROVE  \E k \in Keys : Atomic!StagePage(k)
<1> DEFINE c == append[w].change
           d == c.counts
           old == runs[c.run]
<1>1. /\ c \in Change /\ c.type = "page-staged" /\ Commit(w) /\ CommitStep(w)
      /\ runs \in [Keys -> Run]
      /\ c.run \in Keys /\ d \in Counts
      /\ UNCHANGED <<policies, imported>>
      /\ records' = records \cup c.rows
      /\ runs[c.run].status = "running"
  BY OneEventMore, ChangeFields, CommitOwner
     DEF CommitStep, CommitPage, TypeInv, TypeOK, RunTypes
<1>2. /\ c.rows \cap records = {}
      /\ \A r \in c.rows : r.run = c.run
      /\ \A r, s \in c.rows : r.identity = s.identity => r = s
      /\ CountsRows(d, c.rows)
      /\ d.duplicate \in 0..Cardinality(Identities)
  BY <1>1, PageIsNew
<1>3. \A r \in c.rows, s \in records :
        r.class = "exception" \/ s.class = "exception"
          \/ <<r.identity, r.fp>> # <<s.identity, s.fp>>
  BY <1>1 DEF Commit, Admitted, KeysAreFree
<1>4. runs' = [runs EXCEPT ![c.run] = [old EXCEPT !.counts = AddCounts(old.counts, d)]]
  BY DEF CommitPage
<1>5. c = [type |-> "page-staged", run |-> c.run, rows |-> c.rows, counts |-> d]
  <2>1. c \in [type : {"page-staged"}, run : Keys, rows : SUBSET Row, counts : Counts]
    BY <1>1 DEF Change
  <2> HIDE DEF c
  <2> QED BY <2>1
<1>6. Done' = Append(Done, c)
  BY <1>1, CommitLogs
<1> HIDE DEF c
<1>7. records' \ records = c.rows /\ records \subseteq records'
  BY <1>1, <1>2
<1>8. PICK k \in Keys : k = c.run
  BY <1>1
<1>9. PICK m \in 0..Cardinality(Identities) : m = d.duplicate
  BY <1>2
<1> DEFINE OfNewRows(class) == Atomic!Cardinality({r \in records' \ records : r.class = class})
           Tally(n) == [safe |-> OfNewRows("safe"), changed |-> OfNewRows("changed"),
                        duplicate |-> n, exception |-> OfNewRows("exception")]
           Counted(n) ==
             [runs EXCEPT ![k].counts = [class \in DOMAIN @ |-> @[class] + n[class]]]
<1>10. d = Tally(m)
  <2>1. /\ d.safe = OfNewRows("safe") /\ d.changed = OfNewRows("changed")
        /\ d.exception = OfNewRows("exception")
    <3>1. CountsRows(d, records' \ records)
      BY <1>2, <1>7
    <3> QED BY <3>1, SameCardinality DEF CountsRows, OfClass
  <2>2. d = [safe |-> d.safe, changed |-> d.changed, duplicate |-> d.duplicate,
             exception |-> d.exception]
    <3>1. d \in Counts
      BY <1>1
    <3> HIDE DEF d
    <3> QED BY <3>1 DEF Counts
  <2> HIDE DEF d
  <2> QED BY <1>9, <2>1, <2>2
<1>11. runs' = Counted(d)
  <2>1. old \in Run /\ old.counts \in Counts
    BY <1>1 DEF Run
  <2>2. DOMAIN old.counts = {"safe", "changed", "duplicate", "exception"}
    BY <2>1 DEF Counts
  <2>3. AddCounts(old.counts, d)
          = [class \in DOMAIN old.counts |-> old.counts[class] + d[class]]
    BY <2>2 DEF AddCounts
  <2> QED BY <1>4, <1>8, <2>3
<1> HIDE DEF d, Tally, Counted
<1>12. runs' = Counted(Tally(m))
  BY <1>10, <1>11
<1>13. Atomic!Log([type |-> "page-staged", run |-> k, rows |-> records' \ records,
                   counts |-> Tally(m)])
  BY <1>5, <1>6, <1>7, <1>8, <1>10 DEF Atomic!Log, Done
<1>14. \A r \in records' \ records :
         /\ r.run = k
         /\ \A s \in records' :
              (/\ r.class # "exception" /\ s.class # "exception"
               /\ r.identity = s.identity /\ r.fp = s.fp) => r = s
  BY <1>1, <1>2, <1>3, <1>7, <1>8
<1>15. \E duplicates \in 0..Cardinality(Identities) :
         LET counts == [safe |-> OfNewRows("safe"), changed |-> OfNewRows("changed"),
                        duplicate |-> duplicates, exception |-> OfNewRows("exception")]
         IN  /\ runs' = [runs EXCEPT ![k].counts =
                           [class \in DOMAIN @ |-> @[class] + counts[class]]]
             /\ Atomic!Log([type |-> "page-staged", run |-> k,
                            rows |-> records' \ records, counts |-> counts])
  BY <1>9, <1>12, <1>13 DEF Counted, Tally, Atomic!Log
<1>16. runs[k].status = "running"
  BY <1>1, <1>8
<1>17. Atomic!StagePage(k)
  BY <1>1, <1>7, <1>14, <1>15, <1>16, Zenon DEF Atomic!StagePage
<1> QED BY <1>17

-----------------------------------------------------------------------------
(* The refinement.                                                         *)

\* Every step is an operation or a stutter.
LEMMA StepIsAtomic ==
  /\ TypeInv /\ OwnerInv /\ PageFrames /\ StagedInv /\ CountersInv
  /\ ActiveIsNewest /\ FinishInv /\ NoRunInv
  /\ [Next]_vars
  => [Atomic!Next]_(Atomic!vars)
<1> SUFFICES ASSUME TypeInv, OwnerInv, PageFrames, StagedInv, CountersInv,
                    ActiveIsNewest, FinishInv, NoRunInv, [Next]_vars
             PROVE  Atomic!Next \/ UNCHANGED Atomic!vars
  OBVIOUS
<1>1. CASE UNCHANGED <<policies, runs, records, imported, audit>>
  BY <1>1 DEF Atomic!vars
<1>2. ASSUME NEW w \in Workers, CommitStep(w) PROVE Atomic!Next
  <2>1. CASE CommitPolicy(w)
    BY <2>1, PolicyIsApproved DEF Atomic!Next
  <2>2. CASE CommitRun(w)
    BY <2>2, RunIsStarted DEF Atomic!Next
  <2>3. CASE CommitPage(w)
    BY <2>3, PageIsStaged DEF Atomic!Next
  <2>4. CASE CommitFinish(w)
    BY <2>4, RunIsFinished DEF Atomic!Next, Terminal
  <2>5. CASE CommitImport(w)
    BY <2>5, ImportIsAcknowledged DEF Atomic!Next
  <2> QED BY <1>2, <2>1, <2>2, <2>3, <2>4, <2>5 DEF CommitStep
<1> QED BY <1>1, <1>2, NextCases, QuietStepKeepsDb DEF vars

\* The interleaved workers of Ingestion, with their stale reads, retries,
\* lost replies and crashes, do the operations of AuditedIngestion one at a
\* time: ImplementsAtomicOperations, for all constants.
THEOREM ImplementsTheOperations == Spec => ImplementsAtomicOperations
<1>1. Init => Atomic!Init
  <2> SUFFICES ASSUME Init PROVE Atomic!Init
    OBVIOUS
  <2>1. [n \in DOMAIN audit |-> audit[n].change] = <<>>
    BY DEF Init
  <2> QED BY <2>1 DEF Init, Atomic!Init, NoRun
<1> QED BY <1>1, StepIsAtomic, SpecTypeInv, SpecOwnerInv, SpecPages, SpecStagedInv,
           SpecCountersInv, NewestPolicyIsActive, SpecFinishInv, SpecNoRunInv, PTL
        DEF Spec, ImplementsAtomicOperations, Atomic!Spec
=============================================================================
