-------------------------- MODULE IngestionProofs --------------------------
(***************************************************************************)
(* The safety properties of Ingestion, proved for any number of workers,   *)
(* keys, pages and faults: the audit log is one chain, the newest policy   *)
(* is the active one, and a run has one owner.                             *)
(***************************************************************************)
EXTENDS IngestionTypes

-----------------------------------------------------------------------------
(* What one step can change.                                               *)

\* A step of worker w: the body of Next.
Step(w) ==
  Request(w) \/ RunStep(w) \/ AppendStep(w) \/ DatabaseError(w) \/ Crash(w)

\* The steps that commit a batch, and the rest.
CommitStep(w) ==
  CommitPolicy(w) \/ CommitRun(w) \/ CommitPage(w) \/ CommitFinish(w)
    \/ CommitImport(w)

QuietStep(w) ==
  \/ Request(w) \/ RunStep(w) \/ DatabaseError(w) \/ Crash(w)
  \/ ReadHead(w) \/ Conflict(w) \/ RefuseRun(w)

\* A step either commits a batch or does not.
LEMMA Steps == ASSUME NEW w \in Workers, Step(w) PROVE CommitStep(w) \/ QuietStep(w)
  BY DEF Step, CommitStep, QuietStep, AppendStep

\* A step that commits nothing leaves the database alone.
LEMMA QuietStepKeepsDb ==
  ASSUME NEW w \in Workers, QuietStep(w)
  PROVE  UNCHANGED <<policies, runs, records, imported, audit>>
  BY DEF QuietStep, Request, RunStep, ApprovePolicy, RequestRun, AcknowledgeImport,
         CheckPolicy, LookupRun, CheckOverlap, FetchPage, FetchFails, FetchEnds,
         ClassifyNext, ReadHead, Conflict, RefuseRun, DatabaseError, Crash, db

\* The local variables of worker w become p, j and a.
Moves(w, p, j, a) ==
  /\ pc' = [pc EXCEPT ![w] = p]
  /\ job' = [job EXCEPT ![w] = j]
  /\ append' = [append EXCEPT ![w] = a]

\* Moving one worker leaves the others where they are.
LEMMA MovesOne ==
  ASSUME Frames, NEW w \in Workers, NEW p, NEW j, NEW a, Moves(w, p, j, a)
  PROVE  /\ pc'[w] = p /\ job'[w] = j /\ append'[w] = a
         /\ \A u \in Workers \ {w} :
              pc'[u] = pc[u] /\ job'[u] = job[u] /\ append'[u] = append[u]
  BY DEF Frames, Moves

\* A worker that works for a run which it has started: it retrieves pages,
\* or a page or the end of the run is in its append.
Acts(p, a) ==
  p \in {"fetch", "classify"} \/ a.change.type \in {"page-staged", "run-finished"}

\* A step which commits nothing may give up work for a run, not take it up;
\* what is left to do after retrieval is to finish the run.
Continues(w, p, j, a) ==
  /\ a.head \in {0, append[w].head, Len(audit)}
  /\ Acts(p, a) => Acts(pc[w], append[w]) /\ j.run = job[w].run
  /\ p \in {"fetch", "classify"} \/ a.change.type = "page-staged"
       => pc[w] \in {"fetch", "classify"} \/ append[w].change.type = "page-staged"

\* Answering a request gives up the work for the run.
LEMMA QuietReturn ==
  ASSUME NEW w \in Workers, Return(w)
  PROVE  \E p, j, a : Moves(w, p, j, a) /\ Continues(w, p, j, a)
<1>1. Moves(w, "idle", NoJob, NoAppend)
  BY DEF Return, Go, Moves
<1>2. Continues(w, "idle", NoJob, NoAppend)
  BY DEF Continues, Acts, NoAppend, NoChange
<1> QED BY <1>1, <1>2

\* Calling appendAuditEvent goes on with the work for the run, if any.
LEMMA QuietCall ==
  ASSUME NEW w \in Workers, NEW c, NEW j, CallAppend(w, c),
         job' = [job EXCEPT ![w] = j],
         c.type \in {"page-staged", "run-finished"}
           => Acts(pc[w], append[w]) /\ j.run = job[w].run,
         c.type = "page-staged" => pc[w] \in {"fetch", "classify"}
  PROVE  \E p, k, a : Moves(w, p, k, a) /\ Continues(w, p, k, a)
<1> DEFINE a == [change |-> c, attempt |-> 0, head |-> 0]
<1>1. Moves(w, "head", j, a)
  BY DEF CallAppend, Go, Moves
<1>2. Continues(w, "head", j, a)
  BY DEF Continues, Acts
<1> QED BY <1>1, <1>2

\* Catching an error leaves nothing to do but to finish the run.
LEMMA QuietCatch ==
  ASSUME Frames, NEW w \in Workers, CatchRunError(w), UNCHANGED job,
         Acts(pc[w], append[w])
  PROVE  \E p, j, a : Moves(w, p, j, a) /\ Continues(w, p, j, a)
<1>1. PICK s : CallAppend(w, [type |-> "run-finished", run |-> job[w].run,
                              status |-> s])
  BY DEF CatchRunError
<1>2. job' = [job EXCEPT ![w] = job[w]]
  BY Unchanged
<1> QED BY <1>1, <1>2, QuietCall

\* An error of appendAuditEvent gives up or finishes the run.
LEMMA QuietThrow ==
  ASSUME Frames, NEW w \in Workers, Throw(w)
  PROVE  \E p, j, a : Moves(w, p, j, a) /\ Continues(w, p, j, a)
<1>1. Return(w) \/ (/\ Acts(pc[w], append[w]) /\ CatchRunError(w)
                    /\ UNCHANGED job)
  BY DEF Throw, Acts
<1> QED BY <1>1, QuietReturn, QuietCatch

\* Every step that commits nothing moves one worker, which takes up no run.
LEMMA QuietMoves ==
  ASSUME TypeInv, NEW w \in Workers, QuietStep(w)
  PROVE  \E p, j, a : Moves(w, p, j, a) /\ Continues(w, p, j, a)
<1>1. Frames /\ Frame(Len(policies), records, pc[w], job[w], append[w])
  BY DEF TypeInv, Frames
<1>2. /\ job = [job EXCEPT ![w] = job[w]]
      /\ pc = [pc EXCEPT ![w] = pc[w]]
      /\ append = [append EXCEPT ![w] = append[w]]
  BY <1>1, Unchanged
<1>3. CASE ApprovePolicy(w)
  BY <1>2, <1>3, QuietCall DEF ApprovePolicy
<1>4. CASE \E k \in Keys : RequestRun(w, k)
  <2>1. PICK j : Moves(w, "check", j, append[w])
    BY <1>2, <1>4 DEF RequestRun, Moves, Go
  <2>2. append[w].change = NoChange
    BY <1>1, <1>4 DEF Frame, RequestRun
  <2>3. Continues(w, "check", j, append[w])
    BY <2>2 DEF Continues, Acts, NoChange
  <2> QED BY <2>1, <2>3
<1>5. CASE \E named \in (SUBSET records) \ {{}} : AcknowledgeImport(w, named)
  BY <1>2, <1>5, QuietCall DEF AcknowledgeImport
<1>6. CASE CheckPolicy(w) \/ LookupRun(w)
  <2>1. Return(w) \/ Moves(w, "lookup", job[w], append[w])
          \/ Moves(w, "overlap", job[w], append[w])
    BY <1>2, <1>6 DEF CheckPolicy, LookupRun, Moves, Go
  <2>2. append[w].change = NoChange
    BY <1>1, <1>6 DEF Frame, CheckPolicy, LookupRun
  <2>3. /\ Continues(w, "lookup", job[w], append[w])
        /\ Continues(w, "overlap", job[w], append[w])
    BY <2>2 DEF Continues, Acts, NoChange
  <2> QED BY <2>1, <2>3, QuietReturn
<1>7. CASE CheckOverlap(w)
  BY <1>2, <1>7, QuietReturn, QuietCall DEF CheckOverlap
<1>8. CASE FetchPage(w) \/ ClassifyNext(w)
  <2>1. Prepares(w) /\ pc[w] \in {"fetch", "classify"}
    BY <1>8, FetchPagePrepares, ClassifyNextPrepares DEF FetchPage, ClassifyNext
  <2>2. PICK j \in JobType :
          /\ job' = [job EXCEPT ![w] = j]
          /\ j.run = job[w].run
          /\ \/ CallAppend(w, [type |-> "page-staged", run |-> j.run,
                                rows |-> j.rows, counts |-> j.counts])
             \/ Go(w, "classify") /\ UNCHANGED append
    BY <2>1 DEF Prepares
  <2>3. Acts(pc[w], append[w])
    BY <2>1 DEF Acts
  <2>4. ASSUME Go(w, "classify"), UNCHANGED append
        PROVE  Moves(w, "classify", j, append[w]) /\ Continues(w, "classify", j, append[w])
    BY <1>2, <2>1, <2>2, <2>3, <2>4 DEF Moves, Go, Continues
  <2> QED BY <2>1, <2>2, <2>3, <2>4, QuietCall
<1>9. CASE FetchFails(w) \/ FetchEnds(w)
  BY <1>1, <1>2, <1>9, QuietCatch, QuietCall DEF FetchFails, FetchEnds, Acts
<1>10. CASE ReadHead(w)
  <2> DEFINE a == [append[w] EXCEPT !.head = Len(audit)]
  <2>1. a.change = append[w].change /\ a.head = Len(audit)
    BY <1>1 DEF Frame, AppendType
  <2>2. Moves(w, "batch", job[w], a)
    BY <1>2, <1>10 DEF ReadHead, Moves, Go
  <2> HIDE DEF a
  <2>3. Continues(w, "batch", job[w], a)
    BY <2>1 DEF Continues, Acts
  <2> QED BY <2>2, <2>3
<1>11. CASE Conflict(w)
  <2> DEFINE b == [append[w] EXCEPT !.attempt = 1]
             a == [b EXCEPT !.head = 0]
  <2>1. b.change = append[w].change /\ b \in AppendType
    BY <1>1 DEF Frame, AppendType
  <2> HIDE DEF b
  <2>2. a.change = append[w].change /\ a.head = 0
    BY <2>1 DEF AppendType
  <2>3. Throw(w) \/ Moves(w, "head", job[w], a)
    BY <1>2, <1>11 DEF Conflict, Moves, Go, b
  <2> HIDE DEF a
  <2>4. Continues(w, "head", job[w], a)
    BY <2>2 DEF Continues, Acts
  <2> QED BY <1>1, <2>3, <2>4, QuietThrow
<1>12. CASE RefuseRun(w)
  BY <1>1, <1>12, QuietThrow DEF RefuseRun
<1>13. CASE DatabaseError(w) \/ Crash(w)
  BY <1>1, <1>13, QuietThrow, QuietReturn, QuietCatch
     DEF DatabaseError, Crash, Acts
<1> QED BY <1>3, <1>4, <1>5, <1>6, <1>7, <1>8, <1>9, <1>10, <1>11, <1>12, <1>13
        DEF QuietStep, Request, RunStep

-----------------------------------------------------------------------------
(* After a commit.                                                         *)

\* The worker whose batch has committed: a page or the end of a run was in
\* its append if it still works for a run, unless the run has just started.
LEMMA CommitMoves ==
  ASSUME TypeInv, NEW w \in Workers, Commit(w)
  PROVE  \E p, j, a :
           /\ Moves(w, p, j, a)
           /\ a.head = 0
           /\ Acts(p, a) => /\ append[w].change.type \in RunTypes
                            /\ j.run = append[w].change.run
           /\ p \in {"fetch", "classify"} \/ a.change.type = "page-staged"
                => append[w].change.type \in {"run-started", "page-staged"}
<1> DEFINE c == append[w].change
           After(p, j, a) ==
             /\ Moves(w, p, j, a)
             /\ a.head = 0
             /\ Acts(p, a) => c.type \in RunTypes /\ j.run = c.run
             /\ p \in {"fetch", "classify"} \/ a.change.type = "page-staged"
                  => c.type \in {"run-started", "page-staged"}
<1>1. /\ Frames /\ job[w] \in JobType
      /\ c.type \in RunTypes => c.run = job[w].run
  BY DEF TypeInv, Frames, Frame
<1>2. ASSUME Return(w) PROVE \E p, j, a : After(p, j, a)
  <2>1. Moves(w, "idle", NoJob, NoAppend)
    BY <1>2 DEF Return, Go, Moves
  <2> QED BY <2>1 DEF Acts, NoAppend, NoChange
<1>3. ASSUME Throw(w) PROVE \E p, j, a : After(p, j, a)
  <2>1. CASE Return(w)
    BY <2>1, <1>2
  <2>2. CASE c.type \in RunTypes /\ CatchRunError(w) /\ UNCHANGED job
    <3>1. PICK s : CallAppend(w, [type |-> "run-finished", run |-> job[w].run,
                                  status |-> s])
      BY <2>2 DEF CatchRunError
    <3> DEFINE a == [change |-> [type |-> "run-finished", run |-> job[w].run,
                                 status |-> s],
                     attempt |-> 0, head |-> 0]
    <3>2. Moves(w, "head", job[w], a)
      BY <1>1, <2>2, <3>1, Unchanged DEF CallAppend, Go, Moves
    <3>3. a.head = 0 /\ a.change.type = "run-finished"
      OBVIOUS
    <3> HIDE DEF a
    <3>4. After("head", job[w], a)
      BY <1>1, <2>2, <3>2, <3>3
    <3> QED BY <3>4
  <2> QED BY <1>3, <2>1, <2>2 DEF Throw, RunTypes
<1>4. ASSUME c.type \in {"run-started", "page-staged"}, Succeed(w)
      PROVE  \E p, j, a : After(p, j, a)
  <2> DEFINE j == IF c.type = "run-started" THEN Started(job[w], clock + 1)
                  ELSE Staged(job[w])
  <2>1. Moves(w, "fetch", j, NoAppend)
    BY <1>4 DEF Succeed, Moves, Go, Started, Staged
  <2>2. j.run = job[w].run
    BY <1>1, StagedJob DEF Started, JobType
  <2> HIDE DEF j
  <2>3. After("fetch", j, NoAppend)
    BY <1>1, <1>4, <2>1, <2>2 DEF NoAppend, NoChange, RunTypes
  <2> QED BY <2>3
<1>5. ASSUME c.type \notin {"run-started", "page-staged"}, Succeed(w)
      PROVE  Return(w)
  BY <1>5 DEF Succeed
<1>6. Succeed(w) \/ Throw(w)
  BY DEF Commit
<1> QED BY <1>2, <1>3, <1>4, <1>5, <1>6

\* One step is a stutter, a commit or a quiet step.
LEMMA NextCases ==
  ASSUME [Next]_vars
  PROVE  \/ UNCHANGED vars
         \/ \E w \in Workers : CommitStep(w) \/ QuietStep(w)
  BY Steps DEF Next, Step

\* The steps that commit a batch do so through Commit.
LEMMA CommitStepCommits ==
  ASSUME NEW w \in Workers, CommitStep(w)
  PROVE  Commit(w)
  BY DEF CommitStep, CommitPolicy, CommitRun, CommitPage, CommitFinish, CommitImport

-----------------------------------------------------------------------------
(* The audit log is one chain.                                             *)

\* A worker's head was the end of the chain when it was read, so the chain
\* is at least that long.
ChainInv ==
  /\ ChainIsLinear
  /\ \A w \in Workers : append[w].head \in 0..Len(audit)

\* Every step keeps ChainInv: a commit appends behind the head it has read.
LEMMA ChainStep == TypeInv /\ ChainInv /\ [Next]_vars => ChainInv'
<1> SUFFICES ASSUME TypeInv, ChainInv, [Next]_vars PROVE ChainInv'
  OBVIOUS
<1>1. /\ Len(audit) \in Nat /\ DOMAIN audit = 1..Len(audit)
      /\ audit \in Seq([previous : Nat, change : Change])
      /\ Frames
  BY LenProperties DEF TypeInv, TypeOK
<1>2. CASE UNCHANGED vars
  BY <1>2 DEF ChainInv, ChainIsLinear, vars
<1>3. ASSUME NEW w \in Workers, QuietStep(w) PROVE ChainInv'
  <2>1. PICK p, j, a : Moves(w, p, j, a) /\ Continues(w, p, j, a)
    BY <1>3, QuietMoves
  <2>2. audit' = audit
    BY <1>3, QuietStepKeepsDb
  <2>3. a.head \in 0..Len(audit)
    BY <1>1, <2>1 DEF Continues, ChainInv
  <2>4. \A u \in Workers : append'[u].head \in 0..Len(audit)
    BY <1>1, <2>1, <2>3, MovesOne DEF ChainInv
  <2> QED BY <2>2, <2>4 DEF ChainInv, ChainIsLinear
<1>4. ASSUME NEW w \in Workers, CommitStep(w) PROVE ChainInv'
  <2> DEFINE h == append[w].head
             e == [previous |-> h, change |-> append[w].change]
  <2>1. Commit(w) /\ append[w] \in AppendType /\ append[w].change \in Change
    BY <1>1, <1>4, CommitStepCommits DEF Frames, Frame, Commit
  <2>2. PICK p, j, a : Moves(w, p, j, a) /\ a.head = 0
    BY <2>1, CommitMoves
  <2>3. audit' = Append(audit, e) /\ HeadIsFree(h)
    BY <2>1 DEF Commit, Admitted
  <2>4. e \in [previous : Nat, change : Change] /\ e.previous = h
    BY <2>1 DEF AppendType
  <2> HIDE DEF e
  <2>5. /\ DOMAIN audit' = 1..(Len(audit) + 1) /\ Len(audit') = Len(audit) + 1
        /\ \A n \in 1..Len(audit) : audit'[n] = audit[n]
        /\ audit'[Len(audit) + 1] = e
    BY <1>1, <2>3, <2>4, AppendProperties, LenProperties
  <2>6. h = Len(audit)
    <3>1. h \in 0..Len(audit)
      BY DEF ChainInv
    <3>2. h # Len(audit) => h + 1 \in DOMAIN audit /\ audit[h + 1].previous = h
      BY <1>1, <3>1 DEF ChainInv, ChainIsLinear
    <3> QED BY <2>3, <3>2 DEF HeadIsFree
  <2>7. ChainIsLinear'
    BY <1>1, <2>4, <2>5, <2>6 DEF ChainInv, ChainIsLinear
  <2>8. \A u \in Workers : append'[u].head \in 0..Len(audit')
    BY <1>1, <2>2, <2>5, MovesOne DEF ChainInv
  <2> QED BY <2>7, <2>8 DEF ChainInv
<1> QED BY <1>2, <1>3, <1>4, NextCases

\* No fork and no gap in the audit log: ChainIsLinear, for all constants.
THEOREM AuditLogIsOneChain == Spec => []ChainIsLinear
<1>1. Init => ChainInv
  BY DEF Init, ChainInv, ChainIsLinear, NoAppend
<1>2. ChainInv => ChainIsLinear
  BY DEF ChainInv
<1> QED BY <1>1, <1>2, ChainStep, SpecTypeInv, PTL DEF Spec

-----------------------------------------------------------------------------
(* Policies.                                                               *)

\* Every step keeps the newest policy, and no other, active.
LEMMA PolicyStep == TypeInv /\ ActiveIsNewest /\ [Next]_vars => ActiveIsNewest'
<1> SUFFICES ASSUME TypeInv, ActiveIsNewest, [Next]_vars PROVE ActiveIsNewest'
  OBVIOUS
<1>1. CASE UNCHANGED policies
  BY <1>1 DEF ActiveIsNewest
<1>2. ASSUME NEW w \in Workers, CommitPolicy(w) PROVE ActiveIsNewest'
  BY <1>2, PolicyAppended DEF ActiveIsNewest
<1>3. UNCHANGED policies \/ \E w \in Workers : CommitPolicy(w)
  BY NextCases, QuietStepKeepsDb
     DEF vars, CommitStep, CommitRun, CommitPage, CommitFinish, CommitImport
<1> QED BY <1>1, <1>2, <1>3

\* The newest policy, and no other, is active: ActiveIsNewest, for all
\* constants.
THEOREM NewestPolicyIsActive == Spec => []ActiveIsNewest
<1>1. Init => ActiveIsNewest
  BY DEF Init, ActiveIsNewest
<1> QED BY <1>1, PolicyStep, SpecTypeInv, PTL DEF Spec

-----------------------------------------------------------------------------
(* Runs.                                                                   *)

\* What the commits do to the status and the policy of the runs.
LEMMA RunChanges ==
  ASSUME TypeInv, NEW w \in Workers, CommitStep(w)
  PROVE  LET c == append[w].change
         IN  \/ /\ c.type \notin {"run-started", "run-finished"}
                /\ \A k \in Keys : /\ runs'[k].status = runs[k].status
                                   /\ runs'[k].policy = runs[k].policy
             \/ /\ c.type = "run-started" /\ c.run \in Keys
                /\ runs[c.run].status = "none"
                /\ RunningUnder(c.policy) = {}
                /\ c.policy \in ActiveVersions
                /\ runs'[c.run].status = "running" /\ runs'[c.run].policy = c.policy
                /\ \A k \in Keys \ {c.run} : runs'[k] = runs[k]
             \/ /\ c.type = "run-finished" /\ c.run \in Keys
                /\ runs'[c.run].status \in Terminal
                /\ \A k \in Keys \ {c.run} : runs'[k] = runs[k]
<1> DEFINE c == append[w].change
<1>1. /\ runs \in [Keys -> Run] /\ c \in Change
      /\ Commit(w)
  BY CommitStepCommits DEF TypeInv, TypeOK, Frames, Frame, Commit
<1>2. CASE CommitPolicy(w)
  BY <1>2 DEF CommitPolicy
<1>3. CASE CommitRun(w)
  <2> DEFINE run == [NoRun EXCEPT !.status = "running", !.policy = c.policy]
             r == [NoRun EXCEPT !.status = "running"]
  <2>1. c.type = "run-started" /\ c.run \in Keys
    BY <1>1, <1>3, ChangeFields DEF CommitRun, RunTypes
  <2>2. /\ runs[c.run].status = "none" /\ RunningUnder(c.policy) = {}
        /\ c.policy \in ActiveVersions
    BY <1>1, <2>1 DEF Commit, Admitted, Refused, KeysAreFree, PolicyIsActive
  <2>3. runs' = [runs EXCEPT ![c.run] = run]
    BY <1>3 DEF CommitRun
  <2>4. run.status = "running" /\ run.policy = c.policy
    <3>1. r \in Run /\ r.status = "running"
      BY EmptyFrame DEF Run, RunStatus
    <3> HIDE DEF r
    <3>2. /\ [r EXCEPT !.policy = c.policy].status = "running"
          /\ [r EXCEPT !.policy = c.policy].policy = c.policy
      BY <3>1 DEF Run
    <3> QED BY <3>2 DEF r
  <2> HIDE DEF run
  <2> QED BY <1>1, <2>1, <2>2, <2>3, <2>4
<1>4. CASE CommitPage(w)
  <2> DEFINE old == runs[c.run]
             run == [old EXCEPT !.counts = AddCounts(old.counts, c.counts)]
  <2>1. c.type = "page-staged" /\ c.run \in Keys
    BY <1>1, <1>4, ChangeFields DEF CommitPage, RunTypes
  <2>2. runs' = [runs EXCEPT ![c.run] = run]
    BY <1>4 DEF CommitPage
  <2>3. run.status = old.status /\ run.policy = old.policy
    BY <1>1, <2>1 DEF Run
  <2> HIDE DEF run
  <2> QED BY <1>1, <2>1, <2>2, <2>3
<1>5. CASE CommitFinish(w)
  <2> DEFINE old == runs[c.run]
             failures == IF c.status \in {"failed", "partial"} THEN 1 ELSE 0
             r == [old EXCEPT !.status = c.status]
             run == [old EXCEPT !.status = c.status,
                                !.failed = old.failed + failures]
  <2>1. c.type = "run-finished" /\ c.run \in Keys /\ c.status \in Terminal
    BY <1>1, <1>5, ChangeFields DEF CommitFinish, RunTypes
  <2>2. runs' = [runs EXCEPT ![c.run] = run]
    BY <1>5 DEF CommitFinish
  <2>3. run.status = c.status
    <3>1. r \in Run /\ r.status = c.status
      BY <1>1, <2>1 DEF Run, RunStatus, Terminal
    <3> HIDE DEF r, failures
    <3>2. [r EXCEPT !.failed = old.failed + failures].status = c.status
      BY <3>1 DEF Run
    <3> QED BY <3>2 DEF r
  <2> HIDE DEF run
  <2> QED BY <1>1, <2>1, <2>2, <2>3
<1>6. CASE CommitImport(w)
  <2>1. c.type = "records-imported"
    BY <1>6 DEF CommitImport
  <2>2. \A k \in Keys : runs'[k].status = runs[k].status /\ runs'[k].policy = runs[k].policy
    BY <1>1, <1>6 DEF CommitImport, Run
  <2> QED BY <2>1, <2>2
<1> QED BY <1>2, <1>3, <1>4, <1>5, <1>6 DEF CommitStep

\* Every step keeps at most one run of a policy running.
LEMMA OneRunStep == TypeInv /\ OneRunPerPolicy /\ [Next]_vars => OneRunPerPolicy'
<1> SUFFICES ASSUME TypeInv, OneRunPerPolicy, [Next]_vars PROVE OneRunPerPolicy'
  OBVIOUS
<1>1. CASE UNCHANGED runs
  BY <1>1 DEF OneRunPerPolicy
<1>2. ASSUME NEW w \in Workers, CommitStep(w) PROVE OneRunPerPolicy'
  BY <1>2, RunChanges DEF OneRunPerPolicy, RunningUnder, Terminal
<1> QED BY <1>1, <1>2, NextCases, QuietStepKeepsDb DEF vars

\* No two runs of one policy are running: OneRunPerPolicy, for all constants.
THEOREM RunsOfAPolicyAreExclusive == Spec => []OneRunPerPolicy
<1>1. Init => OneRunPerPolicy
  BY DEF Init, OneRunPerPolicy, NoRun
<1> QED BY <1>1, OneRunStep, SpecTypeInv, PTL DEF Spec

-----------------------------------------------------------------------------
(* The owner of a run: the worker whose insert of it committed.            *)

Owns(w, k) == job[w].run = k /\ Acts(pc[w], append[w])

\* Only a run that has started has an owner, at most one, and it is running
\* until its owner has appended its end.
OwnerInv ==
  \A k \in Keys, w \in Workers :
    /\ Owns(w, k) => runs[k].status # "none"
    /\ Retrieves(w, k) => runs[k].status = "running"
    /\ \A u \in Workers : Owns(w, k) /\ Owns(u, k) => u = w

\* A worker that retrieves for a run acts for it.
LEMMA RetrieverOwns ==
  ASSUME NEW w \in Workers, NEW k \in Keys, Retrieves(w, k)
  PROVE  Owns(w, k)
  BY DEF Retrieves, Owns, Acts

\* Nobody takes up work for a run and no run changes its status.
LEMMA OwnersKept ==
  ASSUME OwnerInv,
         \A k \in Keys : runs'[k].status = runs[k].status,
         \A k \in Keys, w \in Workers :
           /\ Owns(w, k)' => Owns(w, k)
           /\ Retrieves(w, k)' => Retrieves(w, k)
  PROVE  OwnerInv'
  BY DEF OwnerInv

\* The workers that do not move own what they owned.
LEMMA OthersKeep ==
  ASSUME Frames, NEW w \in Workers, NEW p, NEW j, NEW a, Moves(w, p, j, a),
         NEW u \in Workers \ {w}, NEW k \in Keys
  PROVE  /\ Owns(u, k)' <=> Owns(u, k)
         /\ Retrieves(u, k)' <=> Retrieves(u, k)
  BY MovesOne DEF Owns, Retrieves, Acts

\* A step that commits nothing gives no run a second owner.
LEMMA OwnerQuiet ==
  ASSUME TypeInv, OwnerInv, NEW w \in Workers, QuietStep(w)
  PROVE  OwnerInv'
<1>1. PICK p, j, a : Moves(w, p, j, a) /\ Continues(w, p, j, a)
  BY QuietMoves
<1>2. Frames /\ runs' = runs
  BY QuietStepKeepsDb DEF TypeInv
<1>3. ASSUME NEW k \in Keys
      PROVE  /\ Owns(w, k)' => Owns(w, k)
             /\ Retrieves(w, k)' => Retrieves(w, k)
  BY <1>1, <1>2, MovesOne DEF Owns, Retrieves, Acts, Continues
<1> QED BY <1>1, <1>2, <1>3, OthersKeep, OwnersKept

\* A commit gives no run a second owner.
LEMMA OwnerCommit ==
  ASSUME TypeInv, OwnerInv, NEW w \in Workers, CommitStep(w)
  PROVE  OwnerInv'
<1> DEFINE c == append[w].change
<1>1. /\ Frames /\ Commit(w)
      /\ c.type \in RunTypes => c.run = job[w].run
  BY CommitStepCommits DEF TypeInv, Frames, Frame
<1>2. PICK p, j, a :
        /\ Moves(w, p, j, a)
        /\ Acts(p, a) => c.type \in RunTypes /\ j.run = c.run
        /\ p \in {"fetch", "classify"} \/ a.change.type = "page-staged"
             => c.type \in {"run-started", "page-staged"}
  BY <1>1, CommitMoves
<1>3. /\ pc'[w] = p /\ job'[w] = j /\ append'[w] = a
  BY <1>1, <1>2, MovesOne
<1>4. ASSUME NEW k \in Keys
      PROVE  /\ Owns(w, k)' => c.type \in RunTypes /\ c.run = k
             /\ Retrieves(w, k)' => c.type \in {"run-started", "page-staged"} /\ c.run = k
  BY <1>2, <1>3 DEF Owns, Retrieves, Acts
<1>5. ASSUME NEW u \in Workers \ {w}, NEW k \in Keys
      PROVE  /\ Owns(u, k)' <=> Owns(u, k)
             /\ Retrieves(u, k)' <=> Retrieves(u, k)
  BY <1>1, <1>2, OthersKeep
<1>6. c.type \in {"page-staged", "run-finished"} => Owns(w, c.run)
  BY <1>1 DEF Owns, Acts, RunTypes
<1>7. CASE c.type = "run-started"
  <2>1. /\ c.run \in Keys /\ runs[c.run].status = "none"
        /\ runs'[c.run].status = "running"
        /\ \A k \in Keys \ {c.run} : runs'[k] = runs[k]
    BY <1>7, RunChanges
  <2>2. \A u \in Workers : ~Owns(u, c.run)
    BY <2>1 DEF OwnerInv
  <2>3. \A u \in Workers, k \in Keys : Owns(u, k)' => (u = w /\ k = c.run) \/ (Owns(u, k) /\ k # c.run)
    BY <1>4, <1>5, <2>2
  <2>4. \A u \in Workers, k \in Keys : Retrieves(u, k)' => (u = w /\ k = c.run) \/ (Retrieves(u, k) /\ k # c.run)
    BY <1>4, <1>5, <2>2, RetrieverOwns
  <2> QED BY <2>1, <2>2, <2>3, <2>4, <1>5 DEF OwnerInv
<1>8. CASE c.type = "run-finished"
  <2>1. /\ c.run \in Keys /\ runs'[c.run].status \in Terminal
        /\ \A k \in Keys \ {c.run} : runs'[k] = runs[k]
    BY <1>8, RunChanges
  <2>2. \A u \in Workers : Owns(u, c.run) => u = w
    BY <1>6, <1>8, <2>1 DEF OwnerInv
  <2>3. \A u \in Workers, k \in Keys : Owns(u, k)' => Owns(u, k)
    BY <1>4, <1>5, <1>6, <1>8
  <2>4. \A u \in Workers, k \in Keys : Retrieves(u, k)' => Retrieves(u, k) /\ k # c.run
    BY <1>4, <1>5, <1>8, <2>2, RetrieverOwns
  <2>5. runs'[c.run].status # "none"
    BY <2>1 DEF Terminal
  <2> QED BY <2>1, <2>3, <2>4, <2>5 DEF OwnerInv
<1>9. CASE c.type \notin {"run-started", "run-finished"}
  <2>1. \A k \in Keys : runs'[k].status = runs[k].status
    BY <1>9, RunChanges
  <2>2. c.type = "page-staged" => Retrieves(w, c.run)
    BY <1>1 DEF Retrieves, RunTypes
  <2>3. \A u \in Workers, k \in Keys :
          /\ Owns(u, k)' => Owns(u, k)
          /\ Retrieves(u, k)' => Retrieves(u, k)
    BY <1>4, <1>5, <1>6, <1>9, <2>2 DEF RunTypes
  <2> QED BY <2>1, <2>3, OwnersKept
<1> QED BY <1>7, <1>8, <1>9

\* Every step keeps OwnerInv.
LEMMA OwnerStep == TypeInv /\ OwnerInv /\ [Next]_vars => OwnerInv'
<1> SUFFICES ASSUME TypeInv, OwnerInv, [Next]_vars PROVE OwnerInv'
  OBVIOUS
<1>1. CASE UNCHANGED vars
  BY <1>1 DEF vars, OwnerInv, Owns, Retrieves, Acts
<1> QED BY <1>1, NextCases, OwnerQuiet, OwnerCommit

\* OwnerInv holds initially ...
LEMMA OwnerInit == Init => OwnerInv
  BY DEF Init, OwnerInv, Owns, Retrieves, Acts, NoAppend, NoChange

\* ... and so it always holds.
LEMMA SpecOwnerInv == Spec => []OwnerInv
  BY OwnerInit, OwnerStep, SpecTypeInv, PTL DEF Spec

\* However many requests carry one idempotency key, one worker retrieves for
\* it, and only while the run is running: OneRetrieverPerRun, for all
\* constants.
THEOREM RetrieverIsUnique == Spec => []OneRetrieverPerRun
<1>1. OwnerInv => OneRetrieverPerRun
  BY RetrieverOwns DEF OwnerInv, OneRetrieverPerRun
<1> QED BY <1>1, SpecOwnerInv, PTL

\* The trigger decides on the policy that is active when the insert commits:
\* RunsStartUnderActivePolicy, for all constants.
THEOREM RunsStartActive == Spec => RunsStartUnderActivePolicy
<1> DEFINE Starts ==
      \A k \in Keys :
        runs[k].status = "none" /\ runs'[k].status # "none"
          => runs'[k].policy \in ActiveVersions
<1>1. TypeInv /\ OwnerInv /\ [Next]_vars => [Starts]_vars
  <2> SUFFICES ASSUME TypeInv, OwnerInv, [Next]_vars PROVE [Starts]_vars
    OBVIOUS
  <2>1. CASE UNCHANGED runs
    BY <2>1
  <2>2. ASSUME NEW w \in Workers, CommitStep(w) PROVE Starts
    <3> DEFINE c == append[w].change
    <3>1. c.type = "run-finished" => Owns(w, c.run)
      BY DEF TypeInv, Frames, Frame, Owns, Acts, RunTypes
    <3> QED BY <2>2, <3>1, RunChanges DEF OwnerInv
  <2> QED BY <2>1, <2>2, NextCases, QuietStepKeepsDb DEF vars
<1> QED BY <1>1, SpecTypeInv, SpecOwnerInv, PTL DEF Spec, RunsStartUnderActivePolicy
=============================================================================
