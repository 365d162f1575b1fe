--------------------------- MODULE LeadCycleProofs ---------------------------
(* The safety properties of LeadCycle, proved for any number of            *)
(* invocations, records, addresses and days: an owner belongs to the       *)
(* address of the lead, a success has its profile, and an owner is kept.   *)
EXTENDS LeadCycle, TLAPS

-----------------------------------------------------------------------------
(* The inductive invariant.                                                *)

\* Where an invocation is while RentCast is asked about a row, while it has a
\* row in hand, and while it has rows to do.
Trying  == {"attempt", "search", "enrich", "profile", "succeed", "fail"}
AtRow   == {"select", "write"} \cup Trying
Looping == {"loop"} \cup AtRow

Locations == {"idle", "over", "retrieve"} \cup Looping

JobType == [todo : SUBSET (Records \cup Row), row : Row \cup {NoRow},
            seen : Lead \cup {None}, fresh : BOOLEAN, tries : {0, 1},
            match : Properties \cup {None}]

AttemptStatus == {"none", "started", "succeeded", "failed"}

\* The rows that some run in R has staged.
Known(R) == {row \in Row : \E d \in Days : row \in R[d].rows}

\* An invocation at p with local variables j, where the tables are R (runs),
\* L (leads), A (attempts) and P (profiles).  What it has read may be stale;
\* what stays true of it is that rows, leads, attempts and profiles are never
\* removed.
Job(R, L, A, P, p, j) ==
  /\ p \in Locations /\ j \in JobType
  /\ p = "retrieve" => j.todo \subseteq Records
  /\ p \in Looping => j.todo \subseteq Known(R)
  /\ p \in AtRow => j.row \in Known(R)
  /\ p \in {"select", "write"} => RowIsNew(j.seen, j.row)
  /\ p \in Trying => L[j.row.record] # None /\ ~Available(j.seen)
  /\ p \in Trying \ {"attempt"} => A[j.row.record][AddressOf[j.row.version]] # "none"
  /\ p \in {"enrich", "profile", "succeed"}
       => j.match \in Matches(AddressOf[j.row.version])
  /\ p = "succeed" => P[j.row.record] # None

Jobs ==
  /\ pc \in [Workers -> Locations]
  /\ job \in [Workers -> JobType]
  /\ \A w \in Workers : Job(runs, leads, attempts, profiles, pc[w], job[w])

Tables ==
  /\ TypeOK
  /\ runs \in [Days -> [status : {"none", "running", "ended"}, rows : SUBSET Row]]
  /\ attempts \in [Records -> [Addresses -> AttemptStatus]]

CycleInv == Tables /\ Jobs /\ OwnerIsOfThisAddress /\ SuccessLeavesProfile

\* Nothing is removed from the tables.
TablesGrow ==
  /\ \A d \in Days : runs[d].rows \subseteq runs'[d].rows
  /\ \A r \in Records : leads[r] # None => leads'[r] # None
  /\ \A r \in Records, a \in Addresses : attempts[r][a] # "none" => attempts'[r][a] # "none"
  /\ \A r \in Records : profiles[r] # None => profiles'[r] # None

-----------------------------------------------------------------------------
(* Values and jobs.                                                        *)

\* A lead is not the absence of one, and neither is a property.
LEMMA LeadIsSome == (\A l \in Lead : l # None) /\ (\A p \in Properties : p # None)
  BY LeadCycleAssumption DEF Lead

\* The constants that a row leads to.
LEMMA RowLeadsTo ==
  ASSUME NEW row \in Row
  PROVE  row.record \in Records /\ row.version \in Versions
           /\ AddressOf[row.version] \in Addresses
  BY LeadCycleAssumption DEF Row

\* A job without a row, with rows to do.
LEMMA EmptyJob ==
  ASSUME NEW todo \in SUBSET (Records \cup Row)
  PROVE  /\ [NoJob EXCEPT !.todo = todo] \in JobType
         /\ [NoJob EXCEPT !.todo = todo].todo = todo
         /\ NoJob \in JobType
  BY DEF NoJob, JobType

\* Rows that are staged stay staged.
LEMMA KnownGrows ==
  ASSUME TablesGrow
  PROVE  Known(runs) \subseteq Known(runs')
  BY DEF TablesGrow, Known

\* A job stays in order while the tables grow.
LEMMA JobIsStable ==
  ASSUME TablesGrow, NEW p, NEW j, Job(runs, leads, attempts, profiles, p, j)
  PROVE  Job(runs', leads', attempts', profiles', p, j)
<1>1. Known(runs) \subseteq Known(runs')
  BY KnownGrows
<1>2. p \in AtRow => /\ j.row \in Row /\ j.row.record \in Records
                     /\ AddressOf[j.row.version] \in Addresses
  BY RowLeadsTo DEF Job, Known
<1>3. p \in Trying => leads'[j.row.record] # None
  BY <1>2 DEF Job, AtRow, TablesGrow
<1>4. p \in Trying \ {"attempt"}
        => attempts'[j.row.record][AddressOf[j.row.version]] # "none"
  BY <1>2 DEF Job, AtRow, TablesGrow
<1>5. p = "succeed" => profiles'[j.row.record] # None
  BY <1>2 DEF Job, AtRow, Trying, TablesGrow
<1> QED BY <1>1, <1>3, <1>4, <1>5 DEF Job

\* A step moves one invocation; the others keep their jobs.
LEMMA OneJob ==
  ASSUME Jobs, TablesGrow, NEW w \in Workers, NEW p, NEW j,
         Job(runs', leads', attempts', profiles', p, j),
         pc' = [pc EXCEPT ![w] = p],
         job' = [job EXCEPT ![w] = j]
  PROVE  Jobs'
<1>1. p \in Locations /\ j \in JobType
  BY DEF Job
<1>2. pc' \in [Workers -> Locations] /\ job' \in [Workers -> JobType]
  BY <1>1 DEF Jobs
<1>3. \A u \in Workers : Job(runs', leads', attempts', profiles', pc'[u], job'[u])
  <2> TAKE u \in Workers
  <2>1. CASE u = w
    BY <2>1 DEF Jobs
  <2>2. CASE u # w
    <3>1. pc'[u] = pc[u] /\ job'[u] = job[u]
      BY <2>2 DEF Jobs
    <3>2. Job(runs', leads', attempts', profiles', pc[u], job[u])
      BY JobIsStable DEF Jobs
    <3> QED BY <3>1, <3>2
  <2> QED BY <2>1, <2>2
<1> QED BY <1>2, <1>3 DEF Jobs

\* Leaving a variable alone is assigning it what it holds.
LEMMA Unchanged ==
  ASSUME Jobs, NEW w \in Workers
  PROVE  /\ pc = [pc EXCEPT ![w] = pc[w]]
         /\ job = [job EXCEPT ![w] = job[w]]
         /\ Job(runs, leads, attempts, profiles, pc[w], job[w])
  BY DEF Jobs

\* An invocation that ends, and one that goes on to its next row.
LEMMA ThrowJobs ==
  ASSUME Jobs, TablesGrow, NEW w \in Workers, Throw(w)
  PROVE  Jobs'
<1>1. Job(runs', leads', attempts', profiles', "over", NoJob)
  BY EmptyJob DEF Job, Locations, Looping, AtRow, Trying
<1> QED BY <1>1, OneJob DEF Throw, Go, Hold

\* The loop goes on with rows that are staged.
LEMMA NextRowJobs ==
  ASSUME Jobs, TablesGrow, NEW w \in Workers, NEW todo, todo \subseteq Known(runs'),
         NextRow(w, todo)
  PROVE  Jobs'
<1> DEFINE j == [NoJob EXCEPT !.todo = todo]
<1>1. todo \in SUBSET (Records \cup Row)
  BY DEF Known
<1>2. j \in JobType /\ j.todo = todo
  BY <1>1, EmptyJob
<1>3. job' = [job EXCEPT ![w] = j] /\ pc' = [pc EXCEPT ![w] = "loop"]
  BY DEF NextRow, Go, Hold
<1> HIDE DEF j
<1>4. Job(runs', leads', attempts', profiles', "loop", j)
  BY <1>2 DEF Job, Locations, Looping, AtRow, Trying
<1> QED BY <1>3, <1>4, OneJob

\* Moving on with the same local variables.
LEMMA GoJobs ==
  ASSUME Jobs, TablesGrow, NEW w \in Workers, NEW l, Go(w, l), UNCHANGED job,
         Job(runs', leads', attempts', profiles', l, job[w])
  PROVE  Jobs'
  BY OneJob, Unchanged DEF Go

-----------------------------------------------------------------------------
(* Steps that leave the tables alone.                                      *)

\* What a step keeps that writes no table.
LEMMA QuietKeeps ==
  ASSUME CycleInv, UNCHANGED tables, day' \in Days, source' \in Contents,
         activated' \in BOOLEAN, faults' \in 0 .. MaxFaults
  PROVE  Tables' /\ TablesGrow /\ OwnerIsOfThisAddress' /\ SuccessLeavesProfile'
  BY DEF CycleInv, Tables, TypeOK, TablesGrow, OwnerIsOfThisAddress,
         SuccessLeavesProfile, tables

\* A step of the clock begins with every invocation idle.
LEMMA NewDayInv ==
  ASSUME CycleInv, NewDay
  PROVE  CycleInv'
<1>1. day' \in Days
  BY LeadCycleAssumption DEF NewDay, CycleInv, Tables, TypeOK, Days
<1>2. Tables' /\ TablesGrow /\ OwnerIsOfThisAddress' /\ SuccessLeavesProfile'
  BY <1>1, QuietKeeps DEF NewDay, CycleInv, Tables, TypeOK
<1>3. \A w \in Workers : Job(runs', leads', attempts', profiles', "idle", job[w])
  BY DEF CycleInv, Jobs, Job, Locations, Looping, AtRow, Trying
<1>4. Jobs'
  BY <1>3 DEF NewDay, CycleInv, Jobs, Locations
<1> QED BY <1>2, <1>4 DEF CycleInv

\* What the tables are when a step of an invocation writes none of them.
LEMMA CalmKeeps ==
  ASSUME CycleInv, UNCHANGED <<world, tables>>,
         UNCHANGED faults \/ (faults < MaxFaults /\ faults' = faults + 1)
  PROVE  Tables' /\ TablesGrow /\ OwnerIsOfThisAddress' /\ SuccessLeavesProfile'
<1>1. faults' \in 0 .. MaxFaults
  BY LeadCycleAssumption DEF CycleInv, Tables, TypeOK
<1>2. day' \in Days /\ source' \in Contents /\ activated' \in BOOLEAN
  BY DEF CycleInv, Tables, TypeOK, world
<1> QED BY <1>1, <1>2, QuietKeeps

\* An invocation that is refused, is cut off or has no row left ends.
LEMMA EndInv ==
  ASSUME CycleInv, NEW w \in Workers, Refused(w) \/ Crash(w) \/ EndCycle(w)
  PROVE  CycleInv'
<1>1. Tables' /\ TablesGrow /\ OwnerIsOfThisAddress' /\ SuccessLeavesProfile'
  BY CalmKeeps DEF Refused, Crash, EndCycle
<1>2. Jobs'
  BY <1>1, ThrowJobs DEF CycleInv, Refused, Crash, EndCycle
<1> QED BY <1>1, <1>2 DEF CycleInv

\* A failed statement ends the cycle or the attempt.
LEMMA DatabaseErrorInv ==
  ASSUME CycleInv, NEW w \in Workers, DatabaseError(w)
  PROVE  CycleInv'
<1>1. Tables' /\ TablesGrow /\ OwnerIsOfThisAddress' /\ SuccessLeavesProfile'
  BY CalmKeeps DEF DatabaseError
<1>2. CASE pc[w] \in {"enrich", "profile", "succeed"} /\ Go(w, "fail") /\ UNCHANGED job
  <2>1. Job(runs, leads, attempts, profiles, pc[w], job[w])
    BY Unchanged DEF CycleInv
  <2>2. Job(runs, leads, attempts, profiles, "fail", job[w])
    BY <1>2, <2>1 DEF Job, Locations, Looping, AtRow, Trying
  <2>3. Jobs'
    BY <1>1, <1>2, <2>2, JobIsStable, GoJobs DEF CycleInv
  <2> QED BY <1>1, <2>3 DEF CycleInv
<1>3. CASE Throw(w)
  BY <1>1, <1>3, ThrowJobs DEF CycleInv
<1> QED BY <1>2, <1>3 DEF DatabaseError

\* A request is repeated, or fails: the tables are as they were.
LEMMA SearchInv ==
  ASSUME CycleInv, NEW w \in Workers,
         SearchAnswers(w) \/ RepeatSearch(w) \/ SearchFails(w)
  PROVE  CycleInv'
<1> DEFINE j(t) == [job[w] EXCEPT !.tries = t]
           k(p) == [[job[w] EXCEPT !.match = p] EXCEPT !.tries = 0]
<1>1. /\ Tables' /\ TablesGrow /\ OwnerIsOfThisAddress' /\ SuccessLeavesProfile'
      /\ UNCHANGED tables
  BY CalmKeeps DEF SearchAnswers, RepeatSearch, SearchFails
<1>2. Job(runs, leads, attempts, profiles, "search", job[w])
  BY DEF CycleInv, Jobs, SearchAnswers, RepeatSearch, SearchFails
<1>3. job[w] \in JobType
  BY <1>2 DEF Job
<1>4. ASSUME NEW t \in {0, 1}, NEW l \in {"search", "fail"},
             pc' = [pc EXCEPT ![w] = l], job' = [job EXCEPT ![w] = j(t)]
      PROVE  Jobs'
  <2>1. /\ j(t) \in JobType /\ j(t).todo = job[w].todo /\ j(t).row = job[w].row
        /\ j(t).seen = job[w].seen
    BY <1>3 DEF JobType
  <2>2. Job(runs, leads, attempts, profiles, l, j(t))
    BY <1>2, <2>1 DEF Job, Locations, Looping, AtRow, Trying
  <2>3. Job(runs', leads', attempts', profiles', l, j(t))
    BY <1>1, <2>2, JobIsStable
  <2> QED BY <1>1, <1>4, <2>3, OneJob DEF CycleInv
<1>5. ASSUME NEW p \in Matches(Address(w)),
             pc' = [pc EXCEPT ![w] = "enrich"], job' = [job EXCEPT ![w] = k(p)]
      PROVE  Jobs'
  <2>1. p \in Properties
    BY DEF Matches
  <2>2. /\ k(p) \in JobType /\ k(p).todo = job[w].todo /\ k(p).row = job[w].row
        /\ k(p).seen = job[w].seen /\ k(p).match = p
    BY <1>3, <2>1 DEF JobType
  <2>3. Job(runs, leads, attempts, profiles, "enrich", k(p))
    BY <1>2, <2>2 DEF Job, Locations, Looping, AtRow, Trying, Address
  <2>4. Job(runs', leads', attempts', profiles', "enrich", k(p))
    BY <1>1, <2>3, JobIsStable
  <2> QED BY <1>1, <1>5, <2>4, OneJob DEF CycleInv
<1>6. CASE SearchAnswers(w)
  <2>1. Hold(w, j(0)) /\ Go(w, "fail") => Jobs'
    BY <1>4 DEF Hold, Go
  <2>2. ASSUME NEW p \in Matches(Address(w)), Go(w, "enrich"),
               Hold(w, [job[w] EXCEPT !.match = p, !.tries = 0])
        PROVE  Jobs'
    <3>1. [job[w] EXCEPT !.match = p, !.tries = 0] = k(p)
      OBVIOUS
    <3> QED BY <1>5, <2>2, <3>1 DEF Hold, Go
  <2>3. Jobs'
    BY <1>6, <2>1, <2>2 DEF SearchAnswers
  <2> QED BY <1>1, <2>3 DEF CycleInv
<1>7. CASE RepeatSearch(w)
  <2>1. Hold(w, j(1)) /\ pc' = [pc EXCEPT ![w] = "search"]
    BY <1>7 DEF RepeatSearch, CycleInv, Jobs
  <2>2. Jobs'
    BY <1>4, <2>1 DEF Hold
  <2> QED BY <1>1, <2>2 DEF CycleInv
<1>8. CASE SearchFails(w)
  <2>1. Jobs'
    BY <1>4, <1>8 DEF SearchFails, Hold, Go
  <2> QED BY <1>1, <2>1 DEF CycleInv
<1> QED BY <1>6, <1>7, <1>8

\* A row that is new or has no owner is taken in hand.
LEMMA ReadLeadInv ==
  ASSUME CycleInv, NEW w \in Workers, ReadLead(w)
  PROVE  CycleInv'
<1>1. /\ Tables' /\ TablesGrow /\ OwnerIsOfThisAddress' /\ SuccessLeavesProfile'
      /\ UNCHANGED tables
  BY CalmKeeps DEF ReadLead
<1>2. job[w].todo \subseteq Known(runs)
  BY DEF ReadLead, CycleInv, Jobs, Job, Looping
<1>3. PICK row \in job[w].todo :
        LET seen == leads[row.record]
            todo == job[w].todo \ {row}
        IN  IF ~RowIsNew(seen, row) /\ Skips(seen) THEN NextRow(w, todo)
            ELSE /\ Hold(w, [NoJob EXCEPT !.todo = todo, !.row = row, !.seen = seen])
                 /\ Go(w, IF RowIsNew(seen, row) THEN "select" ELSE "attempt")
  BY DEF ReadLead
<1> DEFINE seen == leads[row.record]
           todo == job[w].todo \ {row}
           j == [NoJob EXCEPT !.todo = todo, !.row = row, !.seen = seen]
           l == IF RowIsNew(seen, row) THEN "select" ELSE "attempt"
<1>4. row \in Known(runs) /\ row \in Row /\ row.record \in Records
  BY <1>2, RowLeadsTo DEF Known
<1>5. todo \subseteq Known(runs) /\ todo \in SUBSET (Records \cup Row)
  BY <1>2 DEF Known
<1>6. seen \in Lead \cup {None}
  BY <1>4 DEF CycleInv, Tables, TypeOK
<1>7. CASE NextRow(w, todo)
  <2>1. Jobs'
    BY <1>1, <1>5, <1>7, KnownGrows, NextRowJobs DEF CycleInv
  <2> QED BY <1>1, <2>1 DEF CycleInv
<1>8. CASE /\ RowIsNew(seen, row) \/ ~Skips(seen)
           /\ Hold(w, j) /\ Go(w, l)
  <2>1. l = "select" => RowIsNew(seen, row)
    OBVIOUS
  <2>2. l = "attempt" => seen # None /\ ~Available(seen)
    BY <1>8 DEF RowIsNew, Skips
  <2>3. l \in {"select", "attempt"}
    OBVIOUS
  <2>4. job' = [job EXCEPT ![w] = j] /\ pc' = [pc EXCEPT ![w] = l]
    BY <1>8 DEF Hold, Go
  <2>5. j \in JobType /\ j.todo = todo /\ j.row = row /\ j.seen = seen
    BY <1>4, <1>5, <1>6 DEF NoJob, JobType
  <2> HIDE DEF j, l
  <2>6. Job(runs, leads, attempts, profiles, l, j)
    BY <1>4, <1>5, <2>1, <2>2, <2>3, <2>5 DEF Job, Locations, Looping, AtRow, Trying
  <2>7. Job(runs', leads', attempts', profiles', l, j)
    BY <1>1, <2>6, JobIsStable
  <2>8. Jobs'
    BY <1>1, <2>4, <2>7, OneJob DEF CycleInv
  <2> QED BY <1>1, <2>8 DEF CycleInv
<1> QED BY <1>3, <1>7, <1>8

\* upsertAutomatedLead looks for the lead.
LEMMA SelectLeadInv ==
  ASSUME CycleInv, NEW w \in Workers, SelectLead(w)
  PROVE  CycleInv'
<1> DEFINE fresh == leads[job[w].row.record] = None
           j == [job[w] EXCEPT !.fresh = fresh]
<1>1. /\ Tables' /\ TablesGrow /\ OwnerIsOfThisAddress' /\ SuccessLeavesProfile'
      /\ UNCHANGED tables
  BY CalmKeeps DEF SelectLead
<1>2. Job(runs, leads, attempts, profiles, "select", job[w])
  BY DEF CycleInv, Jobs, SelectLead
<1>3. fresh \in BOOLEAN
  OBVIOUS
<1>4. job' = [job EXCEPT ![w] = j] /\ pc' = [pc EXCEPT ![w] = "write"]
  BY DEF SelectLead, Hold, Go
<1> HIDE DEF fresh
<1>5. /\ j \in JobType /\ j.todo = job[w].todo /\ j.row = job[w].row
      /\ j.seen = job[w].seen
  BY <1>2, <1>3 DEF Job, JobType
<1> HIDE DEF j
<1>6. Job(runs, leads, attempts, profiles, "write", j)
  BY <1>2, <1>5 DEF Job, Locations, Looping, AtRow, Trying
<1>7. Job(runs', leads', attempts', profiles', "write", j)
  BY <1>1, <1>6, JobIsStable
<1>8. Jobs'
  BY <1>1, <1>4, <1>7, OneJob DEF CycleInv
<1> QED BY <1>1, <1>8 DEF CycleInv

-----------------------------------------------------------------------------
(* Steps that write the runs.                                              *)

\* What a step keeps that adds rows to the run of the day.
LEMMA RunsKeep ==
  ASSUME CycleInv, NEW s \in {"none", "running", "ended"}, NEW rows \in SUBSET Row,
         runs' = [runs EXCEPT ![day] = [status |-> s, rows |-> runs[day].rows \cup rows]],
         UNCHANGED <<world, leads, attempts, profiles, faults>>
  PROVE  /\ Tables' /\ TablesGrow /\ OwnerIsOfThisAddress' /\ SuccessLeavesProfile'
         /\ runs'[day].rows = runs[day].rows \cup rows /\ day \in Days
<1>1. day \in Days
  BY DEF CycleInv, Tables, TypeOK
<1>2. \A d \in Days : runs[d].rows \subseteq runs'[d].rows
  BY <1>1 DEF CycleInv, Tables
<1>3. runs' \in [Days -> [status : {"none", "running", "ended"}, rows : SUBSET Row]]
  BY <1>1 DEF CycleInv, Tables
<1>4. TablesGrow
  BY <1>2 DEF TablesGrow
<1>5. TypeOK'
  <2>1. \A d \in Days : runs'[d].rows \subseteq Row
    BY <1>3
  <2>2. ASSUME NEW r \in Records, leads[r] # None
        PROVE  \E d \in Days : [record |-> r, version |-> leads[r].version] \in runs'[d].rows
    BY <1>2, <2>2 DEF CycleInv, Tables, TypeOK
  <2> QED BY <2>1, <2>2 DEF CycleInv, Tables, TypeOK, world
<1>6. OwnerIsOfThisAddress' /\ SuccessLeavesProfile'
  BY DEF CycleInv, OwnerIsOfThisAddress, SuccessLeavesProfile
<1>7. runs'[day].rows = runs[day].rows \cup rows
  BY <1>1 DEF CycleInv, Tables
<1> QED BY <1>1, <1>3, <1>4, <1>5, <1>6, <1>7 DEF CycleInv, Tables

\* What a step keeps that writes the status of the run of the day.
LEMMA RunStatusKeeps ==
  ASSUME CycleInv, NEW s \in {"none", "running", "ended"},
         runs' = [runs EXCEPT ![day].status = s],
         UNCHANGED <<world, leads, attempts, profiles, faults>>
  PROVE  Tables' /\ TablesGrow /\ OwnerIsOfThisAddress' /\ SuccessLeavesProfile'
<1>1. runs[day] \in [status : {"none", "running", "ended"}, rows : SUBSET Row]
  BY DEF CycleInv, Tables, TypeOK
<1>2. [runs[day] EXCEPT !.status = s] = [status |-> s, rows |-> runs[day].rows \cup {}]
  BY <1>1
<1>3. runs' = [runs EXCEPT ![day] = [status |-> s, rows |-> runs[day].rows \cup {}]]
  BY <1>2
<1>4. {} \in SUBSET Row
  OBVIOUS
<1> QED BY <1>3, <1>4, RunsKeep

\* The rows of a run are staged.
LEMMA RowsAreKnown ==
  ASSUME CycleInv, NEW d \in Days
  PROVE  runs[d].rows \subseteq Known(runs)
  BY DEF CycleInv, Tables, TypeOK, Known

\* The trigger starts a run, or takes the rows of the one there is.
LEMMA TriggerInv ==
  ASSUME CycleInv, NEW w \in Workers, Trigger(w)
  PROVE  CycleInv'
<1>1. CASE runs[day].status = "none"
  <2> DEFINE j == [NoJob EXCEPT !.todo = Records]
  <2>1. /\ runs' = [runs EXCEPT ![day].status = "running"]
        /\ UNCHANGED <<world, leads, attempts, profiles, faults>>
    BY <1>1 DEF Trigger
  <2>2. Tables' /\ TablesGrow /\ OwnerIsOfThisAddress' /\ SuccessLeavesProfile'
    BY <2>1, RunStatusKeeps
  <2>3. j \in JobType /\ j.todo = Records
    BY EmptyJob
  <2>4. job' = [job EXCEPT ![w] = j] /\ pc' = [pc EXCEPT ![w] = "retrieve"]
    BY <1>1 DEF Trigger, Hold, Go
  <2> HIDE DEF j
  <2>5. Job(runs', leads', attempts', profiles', "retrieve", j)
    BY <2>3 DEF Job, Locations, Looping, AtRow, Trying
  <2>6. Jobs'
    BY <2>2, <2>4, <2>5, OneJob DEF CycleInv
  <2> QED BY <2>2, <2>6 DEF CycleInv
<1>2. CASE runs[day].status # "none"
  <2>1. UNCHANGED <<world, tables>> /\ UNCHANGED faults
    BY <1>2 DEF Trigger, tables
  <2>2. Tables' /\ TablesGrow /\ OwnerIsOfThisAddress' /\ SuccessLeavesProfile'
    BY <2>1, CalmKeeps
  <2>3. runs[day].rows \subseteq Known(runs)
    BY RowsAreKnown DEF CycleInv, Tables, TypeOK
  <2>4. NextRow(w, runs[day].rows)
    BY <1>2 DEF Trigger, NextRow
  <2>5. Jobs'
    BY <2>2, <2>3, <2>4, KnownGrows, NextRowJobs DEF CycleInv
  <2> QED BY <2>2, <2>5 DEF CycleInv
<1> QED BY <1>1, <1>2

\* persistPage stages at most the row of what the source says.
LEMMA StagePageInv ==
  ASSUME CycleInv, NEW w \in Workers, StagePage(w)
  PROVE  CycleInv'
<1>1. PICK r \in job[w].todo :
        /\ runs' = [runs EXCEPT ![day].rows = @ \cup
                     (IF LastStaged(r) = source[r] THEN {}
                      ELSE {[record |-> r, version |-> source[r]]})]
        /\ Hold(w, [job[w] EXCEPT !.todo = @ \ {r}])
  BY DEF StagePage
<1> DEFINE rows == IF LastStaged(r) = source[r] THEN {}
                   ELSE {[record |-> r, version |-> source[r]]}
           j == [job[w] EXCEPT !.todo = @ \ {r}]
<1>2. Job(runs, leads, attempts, profiles, "retrieve", job[w])
  BY DEF CycleInv, Jobs, StagePage
<1>3. r \in Records /\ source[r] \in Versions /\ day \in Days
  BY <1>2, LeadCycleAssumption DEF Job, CycleInv, Tables, TypeOK
<1>4. rows \in SUBSET Row
  BY <1>3 DEF Row
<1>5. runs[day] \in [status : {"none", "running", "ended"}, rows : SUBSET Row]
  BY <1>3 DEF CycleInv, Tables
<1>6. runs' = [runs EXCEPT ![day] =
                 [status |-> runs[day].status, rows |-> runs[day].rows \cup rows]]
  <2> HIDE DEF rows
  <2>1. runs' = [runs EXCEPT ![day].rows = @ \cup rows]
    BY <1>1 DEF rows
  <2>2. [runs[day] EXCEPT !.rows = @ \cup rows]
          = [status |-> runs[day].status, rows |-> runs[day].rows \cup rows]
    BY <1>5
  <2> QED BY <2>1, <2>2
<1>7. runs[day].status \in {"none", "running", "ended"}
  BY <1>5
<1> HIDE DEF rows
<1>8. Tables' /\ TablesGrow /\ OwnerIsOfThisAddress' /\ SuccessLeavesProfile'
  BY <1>4, <1>6, <1>7, RunsKeep DEF StagePage
<1>9. j \in JobType /\ j.todo \subseteq Records
  BY <1>2 DEF Job, JobType
<1>10. job' = [job EXCEPT ![w] = j] /\ pc' = [pc EXCEPT ![w] = "retrieve"]
  BY <1>1 DEF StagePage, Hold, CycleInv, Jobs
<1> HIDE DEF j
<1>11. Job(runs', leads', attempts', profiles', "retrieve", j)
  BY <1>9 DEF Job, Locations, Looping, AtRow, Trying
<1>12. Jobs'
  BY <1>8, <1>10, <1>11, OneJob DEF CycleInv
<1> QED BY <1>8, <1>12 DEF CycleInv

\* The loop begins with the rows of the run.
LEMMA EndRetrievalInv ==
  ASSUME CycleInv, NEW w \in Workers, EndRetrieval(w)
  PROVE  CycleInv'
<1> DEFINE j == [job[w] EXCEPT !.todo = runs[day].rows]
<1>1. day \in Days /\ runs[day] \in [status : {"none", "running", "ended"}, rows : SUBSET Row]
  BY DEF CycleInv, Tables, TypeOK
<1>2. /\ runs' = [runs EXCEPT ![day].status = "ended"]
      /\ UNCHANGED <<world, leads, attempts, profiles, faults>>
  BY DEF EndRetrieval
<1>3. Tables' /\ TablesGrow /\ OwnerIsOfThisAddress' /\ SuccessLeavesProfile'
  BY <1>2, RunStatusKeeps
<1>4. runs[day].rows \subseteq Known(runs')
  BY <1>1, <1>3, RowsAreKnown, KnownGrows
<1>5. j \in JobType /\ j.todo = runs[day].rows
  BY <1>1 DEF CycleInv, Jobs, JobType
<1>6. job' = [job EXCEPT ![w] = j] /\ pc' = [pc EXCEPT ![w] = "loop"]
  BY DEF EndRetrieval, Hold, Go
<1> HIDE DEF j
<1>7. Job(runs', leads', attempts', profiles', "loop", j)
  BY <1>4, <1>5 DEF Job, Locations, Looping, AtRow, Trying
<1>8. Jobs'
  BY <1>3, <1>6, <1>7, OneJob DEF CycleInv
<1> QED BY <1>3, <1>8 DEF CycleInv

-----------------------------------------------------------------------------
(* Steps that write leads, attempts and profiles.                          *)

\* What a step keeps that writes the lead of a row.
LEMMA LeadsKeep ==
  ASSUME CycleInv, NEW row \in Known(runs), NEW p \in Properties \cup {None},
         leads' = [leads EXCEPT ![row.record] = [version |-> row.version, property |-> p]],
         p # None => /\ p \in Matches(AddressOf[row.version])
                     /\ attempts[row.record][AddressOf[row.version]] # "none",
         UNCHANGED <<world, runs, attempts, profiles, faults>>
  PROVE  /\ Tables' /\ TablesGrow /\ OwnerIsOfThisAddress' /\ SuccessLeavesProfile'
         /\ leads'[row.record] # None
<1> DEFINE r == row.record
           lead == [version |-> row.version, property |-> p]
<1>1. row \in Row /\ r \in Records /\ row.version \in Versions
  BY RowLeadsTo DEF Known
<1>2. \E d \in Days : row \in runs[d].rows
  BY DEF Known
<1>3. lead \in Lead /\ lead # None
  BY <1>1, LeadIsSome DEF Lead
<1>4. row = [record |-> r, version |-> lead.version]
  BY <1>1 DEF Row
<1>5. lead.version = row.version /\ lead.property = p
  OBVIOUS
<1> HIDE DEF lead
<1>6. /\ leads' \in [Records -> Lead \cup {None}] /\ leads'[r] = lead
      /\ \A b \in Records : b # r => leads'[b] = leads[b]
  BY <1>1, <1>3 DEF CycleInv, Tables, TypeOK, lead
<1>7. TablesGrow
  BY <1>3, <1>6 DEF TablesGrow
<1>8. \A b \in Records, a \in Addresses : attempts[b][a] # "none" => leads'[b] # None
  BY <1>3, <1>6 DEF CycleInv, Tables, TypeOK
<1>9. ASSUME NEW b \in Records, leads'[b] # None
      PROVE  \E d \in Days : [record |-> b, version |-> leads'[b].version] \in runs[d].rows
  <2>1. CASE b = r
    BY <1>2, <1>4, <1>6, <2>1
  <2>2. CASE b # r
    BY <1>6, <1>9, <2>2 DEF CycleInv, Tables, TypeOK
  <2> QED BY <2>1, <2>2
<1>10. Tables'
  BY <1>6, <1>8, <1>9 DEF CycleInv, Tables, TypeOK, world
<1>11. ASSUME NEW b \in Records, leads'[b] # None, leads'[b].property # None
       PROVE  /\ PropertyAddress[leads'[b].property] = AddressOf[leads'[b].version]
              /\ attempts[b][AddressOf[leads'[b].version]] # "none"
  <2>1. CASE b = r
    BY <1>5, <1>6, <1>11, <2>1 DEF Matches
  <2>2. CASE b # r
    BY <1>6, <1>11, <2>2 DEF CycleInv, OwnerIsOfThisAddress
  <2> QED BY <2>1, <2>2
<1>12. OwnerIsOfThisAddress' /\ SuccessLeavesProfile'
  BY <1>11 DEF OwnerIsOfThisAddress, CycleInv, SuccessLeavesProfile
<1> QED BY <1>3, <1>6, <1>7, <1>10, <1>12

\* The upsert writes the lead without an owner.
LEMMA WriteLeadInv ==
  ASSUME CycleInv, NEW w \in Workers, WriteLead(w)
  PROVE  CycleInv'
<1> DEFINE row == job[w].row
           j == [job[w] EXCEPT !.fresh = FALSE]
<1>1. Job(runs, leads, attempts, profiles, "write", job[w])
  BY DEF CycleInv, Jobs, WriteLead
<1>2. /\ leads' = [leads EXCEPT ![row.record] =
                    [version |-> row.version, property |-> None]]
      /\ UNCHANGED <<world, runs, attempts, profiles, faults>>
  BY DEF WriteLead
<1>3. row \in Known(runs) /\ job[w].todo \subseteq Known(runs)
  BY <1>1 DEF Job, Looping, AtRow
<1>4. /\ Tables' /\ TablesGrow /\ OwnerIsOfThisAddress' /\ SuccessLeavesProfile'
      /\ leads'[row.record] # None
  BY <1>2, <1>3, LeadsKeep
<1>5. Throw(w) => Jobs'
  BY <1>4, ThrowJobs DEF CycleInv
<1>6. NextRow(w, job[w].todo) => Jobs'
  BY <1>3, <1>4, KnownGrows, NextRowJobs DEF CycleInv
<1>7. ASSUME ~Skips(job[w].seen), Go(w, "attempt"), Hold(w, j)
      PROVE  Jobs'
  <2>1. /\ j \in JobType /\ j.todo = job[w].todo /\ j.row = row /\ j.seen = job[w].seen
    BY <1>1 DEF Job, JobType
  <2>2. job' = [job EXCEPT ![w] = j] /\ pc' = [pc EXCEPT ![w] = "attempt"]
    BY <1>7 DEF Hold, Go
  <2>3. row \in Known(runs') /\ job[w].todo \subseteq Known(runs')
    BY <1>3, <1>4, KnownGrows
  <2> HIDE DEF j
  <2>4. ~Available(j.seen)
    BY <1>7, <2>1 DEF Skips
  <2>5. Job(runs', leads', attempts', profiles', "attempt", j)
    BY <1>4, <2>1, <2>3, <2>4 DEF Job, Locations, Looping, AtRow, Trying
  <2> QED BY <1>4, <2>2, <2>5, OneJob DEF CycleInv
<1>8. Jobs'
  BY <1>5, <1>6, <1>7 DEF WriteLead
<1> QED BY <1>4, <1>8 DEF CycleInv

\* The second upsert writes an owner whose address matched.
LEMMA EnrichInv ==
  ASSUME CycleInv, NEW w \in Workers, Enrich(w)
  PROVE  CycleInv'
<1> DEFINE row == job[w].row
<1>1. Job(runs, leads, attempts, profiles, "enrich", job[w])
  BY DEF CycleInv, Jobs, Enrich
<1>2. CASE Go(w, "fail") /\ UNCHANGED leads
  <2>1. UNCHANGED <<world, tables>> /\ UNCHANGED <<faults, job>>
    BY <1>2 DEF Enrich, tables
  <2>2. Tables' /\ TablesGrow /\ OwnerIsOfThisAddress' /\ SuccessLeavesProfile'
    BY <2>1, CalmKeeps
  <2>3. Job(runs, leads, attempts, profiles, "fail", job[w])
    BY <1>1 DEF Job, Locations, Looping, AtRow, Trying
  <2>4. Jobs'
    BY <1>2, <2>1, <2>2, <2>3, JobIsStable, GoJobs DEF CycleInv
  <2> QED BY <2>2, <2>4 DEF CycleInv
<1>3. CASE /\ leads' = [leads EXCEPT ![Record(w)] =
                         [version |-> row.version, property |-> job[w].match]]
           /\ Go(w, "profile")
  <2>1. UNCHANGED <<world, runs, attempts, profiles, faults>> /\ UNCHANGED job
    BY DEF Enrich
  <2>2. /\ row \in Known(runs) /\ job[w].match \in Properties
        /\ job[w].match \in Matches(AddressOf[row.version])
        /\ attempts[row.record][AddressOf[row.version]] # "none"
    BY <1>1 DEF Job, Looping, AtRow, Trying, Matches
  <2>3. leads' = [leads EXCEPT ![row.record] =
                   [version |-> row.version, property |-> job[w].match]]
    BY <1>3 DEF Record
  <2> HIDE DEF row
  <2>4. Tables' /\ TablesGrow /\ OwnerIsOfThisAddress' /\ SuccessLeavesProfile'
    BY <2>1, <2>2, <2>3, LeadsKeep
  <2>5. Job(runs, leads, attempts, profiles, "profile", job[w])
    BY <1>1 DEF Job, Locations, Looping, AtRow, Trying
  <2>6. Jobs'
    BY <1>3, <2>1, <2>4, <2>5, JobIsStable, GoJobs DEF CycleInv
  <2> QED BY <2>4, <2>6 DEF CycleInv
<1> QED BY <1>2, <1>3 DEF Enrich

\* What a step keeps that sets the status of an attempt.
LEMMA AttemptsKeep ==
  ASSUME CycleInv, NEW row \in Known(runs), NEW s \in AttemptStatus \ {"none"},
         attempts' = [attempts EXCEPT ![row.record][AddressOf[row.version]] = s],
         leads[row.record] # None,
         s = "succeeded" => profiles[row.record] # None,
         UNCHANGED <<world, runs, leads, profiles, faults>>
  PROVE  /\ Tables' /\ TablesGrow /\ OwnerIsOfThisAddress' /\ SuccessLeavesProfile'
         /\ attempts'[row.record][AddressOf[row.version]] # "none"
<1> DEFINE r == row.record
           a == AddressOf[row.version]
<1>1. r \in Records /\ a \in Addresses
  BY RowLeadsTo DEF Known
<1> HIDE DEF r, a
<1>2. /\ attempts' \in [Records -> [Addresses -> AttemptStatus]]
      /\ attempts'[r][a] = s
      /\ \A b \in Records, c \in Addresses :
           <<b, c>> # <<r, a>> => attempts'[b][c] = attempts[b][c]
  BY <1>1 DEF CycleInv, Tables, r, a
<1>3. \A b \in Records, c \in Addresses :
        \/ attempts'[b][c] = attempts[b][c]
        \/ b = r /\ c = a /\ attempts'[b][c] = s
  BY <1>2
<1>4. TablesGrow
  BY <1>3 DEF TablesGrow
<1>5. Tables'
  BY <1>2, <1>3 DEF CycleInv, Tables, TypeOK, world, r
<1>6. OwnerIsOfThisAddress'
  <2>1. \A b \in Records :
          leads[b] # None /\ leads[b].property # None =>
            AddressOf[leads[b].version] \in Addresses
    BY LeadCycleAssumption DEF CycleInv, Tables, TypeOK, Lead
  <2> QED BY <1>4, <2>1 DEF CycleInv, OwnerIsOfThisAddress, TablesGrow
<1>7. SuccessLeavesProfile'
  BY <1>3 DEF CycleInv, SuccessLeavesProfile, r
<1> QED BY <1>2, <1>4, <1>5, <1>6, <1>7 DEF r, a

\* recordEnrichmentAttempt leaves an attempt on record.
LEMMA RecordAttemptInv ==
  ASSUME CycleInv, NEW w \in Workers, RecordAttempt(w)
  PROVE  CycleInv'
<1> DEFINE row == job[w].row
           a == AddressOf[row.version]
<1>1. Job(runs, leads, attempts, profiles, "attempt", job[w])
  BY DEF CycleInv, Jobs, RecordAttempt
<1>2. row \in Known(runs) /\ leads[row.record] # None
  BY <1>1 DEF Job, Looping, AtRow, Trying
<1>3. /\ Tables' /\ TablesGrow /\ OwnerIsOfThisAddress' /\ SuccessLeavesProfile'
      /\ attempts'[row.record][a] # "none"
  <2>1. CASE attempts[row.record][a] = "none"
    <3>1. /\ attempts' = [attempts EXCEPT ![row.record][a] = "started"]
          /\ UNCHANGED <<world, runs, leads, profiles, faults>>
      BY <2>1 DEF RecordAttempt, SetAttempt, Record, Address
    <3>2. "started" \in AttemptStatus \ {"none"} /\ "started" # "succeeded"
      BY DEF AttemptStatus
    <3> HIDE DEF row
    <3> QED BY <1>2, <3>1, <3>2, AttemptsKeep
  <2>2. CASE attempts[row.record][a] # "none"
    <3>1. /\ UNCHANGED <<world, tables>> /\ UNCHANGED faults
          /\ attempts' = attempts
      BY <2>2 DEF RecordAttempt, Record, Address, tables
    <3> QED BY <2>2, <3>1, CalmKeeps
  <2> QED BY <2>1, <2>2
<1>4. Job(runs', leads', attempts', profiles', "attempt", job[w])
  BY <1>1, <1>3, JobIsStable
<1>5. Job(runs', leads', attempts', profiles', "search", job[w])
  BY <1>3, <1>4 DEF Job, Locations, Looping, AtRow, Trying
<1>6. Go(w, "search") /\ UNCHANGED job
  BY DEF RecordAttempt
<1>7. Jobs'
  BY <1>3, <1>5, <1>6, GoJobs DEF CycleInv
<1> QED BY <1>3, <1>7 DEF CycleInv

\* The profile is stored before the attempt is completed ...
LEMMA SaveProfileInv ==
  ASSUME CycleInv, NEW w \in Workers, SaveProfile(w)
  PROVE  CycleInv'
<1> DEFINE row == job[w].row
<1>1. Job(runs, leads, attempts, profiles, "profile", job[w])
  BY DEF CycleInv, Jobs, SaveProfile
<1>2. /\ row.record \in Records /\ job[w].match \in Properties /\ job[w].match # None
  BY <1>1, LeadIsSome, RowLeadsTo DEF Job, Looping, AtRow, Trying, Matches, Known
<1>3. /\ profiles' = [profiles EXCEPT ![row.record] = job[w].match]
      /\ UNCHANGED <<world, runs, leads, attempts, job, faults>>
  BY DEF SaveProfile, Record
<1>4. /\ profiles' \in [Records -> Properties \cup {None}]
      /\ profiles'[row.record] # None
      /\ \A r \in Records : profiles[r] # None => profiles'[r] # None
  BY <1>2, <1>3 DEF CycleInv, Tables, TypeOK
<1>5. TablesGrow
  BY <1>3, <1>4 DEF TablesGrow
<1>6. Tables' /\ OwnerIsOfThisAddress' /\ SuccessLeavesProfile'
  BY <1>3, <1>4 DEF CycleInv, Tables, TypeOK, OwnerIsOfThisAddress,
                    SuccessLeavesProfile, world
<1>7. Job(runs', leads', attempts', profiles', "profile", job[w])
  BY <1>1, <1>5, JobIsStable
<1>8. Job(runs', leads', attempts', profiles', "succeed", job[w])
  BY <1>4, <1>7 DEF Job, Locations, Looping, AtRow, Trying
<1>9. Go(w, "succeed") /\ UNCHANGED job
  BY DEF SaveProfile
<1>10. Jobs'
  BY <1>5, <1>8, <1>9, GoJobs DEF CycleInv
<1> QED BY <1>6, <1>10 DEF CycleInv

\* ... and a success is recorded only after it.
LEMMA EndAttemptInv ==
  ASSUME CycleInv, NEW w \in Workers, Succeed(w) \/ Fail(w)
  PROVE  CycleInv'
<1> DEFINE row == job[w].row
           a == AddressOf[row.version]
<1>1. Job(runs, leads, attempts, profiles, pc[w], job[w]) /\ pc[w] \in {"succeed", "fail"}
  BY DEF CycleInv, Jobs, Succeed, Fail
<1>2. PICK s \in {"succeeded", "failed"} :
        EndAttempt(w, s) /\ (s = "succeeded" => pc[w] = "succeed")
  BY DEF Succeed, Fail
<1>3. /\ row \in Known(runs) /\ leads[row.record] # None
      /\ job[w].todo \subseteq Known(runs)
      /\ s = "succeeded" => profiles[row.record] # None
  BY <1>1, <1>2 DEF Job, Looping, AtRow, Trying
<1>4. /\ attempts' = [attempts EXCEPT ![row.record][a] = s]
      /\ UNCHANGED <<world, runs, leads, profiles, faults>>
      /\ NextRow(w, job[w].todo)
  BY <1>2 DEF EndAttempt, SetAttempt, Record, Address
<1>5. s \in AttemptStatus \ {"none"}
  BY DEF AttemptStatus
<1> HIDE DEF row
<1>6. Tables' /\ TablesGrow /\ OwnerIsOfThisAddress' /\ SuccessLeavesProfile'
  BY <1>3, <1>4, <1>5, AttemptsKeep
<1>7. Jobs'
  BY <1>3, <1>4, <1>6, KnownGrows, NextRowJobs DEF CycleInv
<1> QED BY <1>6, <1>7 DEF CycleInv

-----------------------------------------------------------------------------
(* The theorems.                                                           *)

\* The empty tables are in order.
LEMMA InitCycleInv ==
  ASSUME Init
  PROVE  CycleInv
<1>1. NoJob \in JobType
  BY EmptyJob
<1>2. Jobs
  BY <1>1 DEF Init, Jobs, Job, Locations, Looping, AtRow, Trying
<1>3. Tables
  BY LeadCycleAssumption DEF Init, Tables, TypeOK, Days, AttemptStatus
<1>4. OwnerIsOfThisAddress /\ SuccessLeavesProfile
  BY DEF Init, OwnerIsOfThisAddress, SuccessLeavesProfile
<1> QED BY <1>2, <1>3, <1>4 DEF CycleInv

\* Every step keeps the tables in order.
LEMMA CycleInvIsInductive ==
  ASSUME CycleInv, [Next]_vars
  PROVE  CycleInv'
<1>1. CASE UNCHANGED vars
  <2>1. /\ UNCHANGED <<world, tables>> /\ UNCHANGED faults
        /\ UNCHANGED <<runs, leads, attempts, profiles, pc, job>>
    BY <1>1 DEF vars, world, tables
  <2>2. Jobs'
    BY <2>1 DEF CycleInv, Jobs
  <2> QED BY <2>1, <2>2, CalmKeeps DEF CycleInv
<1>2. ASSUME NEW w \in Workers, CycleStep(w)
      PROVE  CycleInv'
  BY <1>2, StagePageInv, EndRetrievalInv, ReadLeadInv, SelectLeadInv, WriteLeadInv,
     RecordAttemptInv, SearchInv, EnrichInv, SaveProfileInv, EndAttemptInv, EndInv
     DEF CycleStep
<1> QED BY <1>1, <1>2, NewDayInv, TriggerInv, EndInv, DatabaseErrorInv DEF Next

\* The tables are in order in every state (automated-lead-store.ts).
THEOREM CycleInvHolds == Spec => []CycleInv
<1>1. Init => CycleInv
  BY InitCycleInv
<1>2. CycleInv /\ [Next]_vars => CycleInv'
  BY CycleInvIsInductive
<1> QED BY <1>1, <1>2, PTL DEF Spec

\* Every attempt belongs to a lead and every lead to a row that a run staged,
\* wherever invocations stop (stagedRecords, upsertAutomatedLead).
THEOREM CycleTypeIsCorrect == Spec => []TypeOK
<1>1. CycleInv => TypeOK
  BY DEF CycleInv, Tables
<1> QED BY <1>1, CycleInvHolds, PTL

\* The owner of a lead lives at the lead's address (providerMatches, and the
\* upsert in the try clause of runAutomatedLeadCycle).
THEOREM OwnerLivesThere == Spec => []OwnerIsOfThisAddress
<1>1. CycleInv => OwnerIsOfThisAddress
  BY DEF CycleInv
<1> QED BY <1>1, CycleInvHolds, PTL

\* A success that is on record has its profile (completeEnrichmentAttempt comes
\* after the two statements of upsertAutomatedLead).
THEOREM SuccessHasProfile == Spec => []SuccessLeavesProfile
<1>1. CycleInv => SuccessLeavesProfile
  BY DEF CycleInv
<1> QED BY <1>1, CycleInvHolds, PTL

\* A lead loses its owner only to another version of the record or to a worker
\* that read the lead before it had the owner.
LEMMA OwnerStays ==
  ASSUME CycleInv, Next, NEW r \in Records,
         Available(leads[r]), ~Available(leads'[r])
  PROVE  \/ leads'[r].version # leads[r].version
         \/ \E w \in Workers : /\ pc[w] \in {"write", "enrich"} /\ Record(w) = r
                               /\ job[w].seen # leads[r]
<1>1. leads[r] # None /\ leads \in [Records -> Lead \cup {None}]
  BY DEF Available, CycleInv, Tables, TypeOK
<1>2. ASSUME NEW w \in Workers, WriteLead(w)
      PROVE  \/ leads'[r].version # leads[r].version
             \/ pc[w] = "write" /\ Record(w) = r /\ job[w].seen # leads[r]
  <2> DEFINE row == job[w].row
             lead == [version |-> row.version, property |-> None]
  <2>1. leads' = [leads EXCEPT ![row.record] = lead] /\ pc[w] = "write"
    BY <1>2 DEF WriteLead
  <2>2. RowIsNew(job[w].seen, row)
    BY <2>1 DEF CycleInv, Jobs, Job
  <2>3. lead.version = row.version
    OBVIOUS
  <2> HIDE DEF lead
  <2>4. row.record = r /\ leads'[r] = lead
    BY <1>1, <2>1
  <2> QED BY <1>1, <2>1, <2>2, <2>3, <2>4 DEF RowIsNew, Record
<1>3. ASSUME NEW w \in Workers, Enrich(w)
      PROVE  pc[w] = "enrich" /\ Record(w) = r /\ job[w].seen # leads[r]
  <2>1. pc[w] = "enrich" /\ ~Available(job[w].seen)
    BY <1>3 DEF Enrich, CycleInv, Jobs, Job, Trying
  <2>2. Record(w) = r
    BY <1>1, <1>3 DEF Enrich
  <2> QED BY <2>1, <2>2
<1>4. \/ UNCHANGED leads
      \/ \E w \in Workers : WriteLead(w) \/ Enrich(w)
  BY DEF Next, NewDay, Trigger, Refused, DatabaseError, Crash, CycleStep, StagePage,
         EndRetrieval, ReadLead, SelectLead, RecordAttempt, SearchAnswers,
         RepeatSearch, SearchFails, SaveProfile, Succeed, Fail, EndCycle,
         EndAttempt, tables
<1> QED BY <1>2, <1>3, <1>4

\* An owner that was paid for is kept (runAutomatedLeadCycle skips a lead that it
\* read as available): OwnerIsKept, for any number of invocations.
THEOREM OwnerIsNotLost == Spec => OwnerIsKept
<1> DEFINE Kept ==
      \A r \in Records :
        Available(leads[r]) /\ ~Available(leads'[r]) =>
          \/ leads'[r].version # leads[r].version
          \/ \E w \in Workers : /\ pc[w] \in {"write", "enrich"} /\ Record(w) = r
                                /\ job[w].seen # leads[r]
<1>1. CycleInv /\ [Next]_vars => [Kept]_vars
  BY OwnerStays
<1> QED BY <1>1, CycleInvHolds, PTL DEF Spec, OwnerIsKept
=============================================================================
