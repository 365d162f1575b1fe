----------------------------- MODULE LeadCycle -----------------------------
(* The automated lead cycle (server/automated-lead-runner.ts and           *)
(* server/automated-lead-store.ts): the hourly trigger runs an ingestion   *)
(* under the key of the day, makes a lead of every row the run staged as   *)
(* safe or changed, and asks RentCast for the owner of each.               *)
(*                                                                         *)
(* Workers are invocations of the trigger.  Every statement sent to the    *)
(* database is one step, so two invocations of the same day interleave:    *)
(* the trigger is delivered at least once, and on the day the clock is set *)
(* back it falls twice into the hour of the schedule.  An invocation ends  *)
(* on the day it began.                                                    *)
EXTENDS Naturals, FiniteSets, FiniteSetsExt

CONSTANTS
  Workers,          \* invocations of the trigger on one day
  Records,          \* sourceRecordIds of the source
  Versions,         \* fingerprints of the normalized content of a record
  Contents,         \* what the source may say of its records on a day
  Addresses,
  AddressOf,        \* the address in the content with a fingerprint
  Properties,       \* providerPropertyIds of RentCast
  PropertyAddress,  \* the address RentCast has for a property
  Owned,            \* properties with the names or the address of an owner
  MaxDays, MaxFaults,
  None

ASSUME LeadCycleAssumption ==
  /\ Contents \subseteq [Records -> Versions]
  /\ AddressOf \in [Versions -> Addresses]
  /\ PropertyAddress \in [Properties -> Addresses]
  /\ Owned \subseteq Properties
  /\ None \notin Versions \cup Properties
  /\ None \notin [version : Versions, property : Properties \cup {None}]
  /\ MaxDays \in Nat \ {0}
  /\ MaxFaults \in Nat

VARIABLES
  day,       \* the local date of the trigger
  source,    \* what the source says of each record today
  activated, \* RentCast is activated in the environment today
  runs,      \* the ingestion run under the key of each day, and its rows
  leads,     \* automated_leads: fingerprint and provider property
  attempts,  \* lead_enrichment_attempts: status of each record and address
  profiles,  \* lead_owner_profiles: the property an owner was stored from
  pc, job,   \* the invocations
  faults

tables == <<runs, leads, attempts, profiles>>
world == <<day, source, activated>>
vars == <<world, tables, pc, job, faults>>

Days == 1 .. MaxDays
Row == [record : Records, version : Versions]
NoRow == [record |-> None, version |-> None]

\* A MassGIS lead has no property: its provider and its owner are blank.
Lead == [version : Versions, property : Properties \cup {None}]

\* todo: rows (records, while retrieving) still to do; row: the one at hand;
\* seen: the lead as the loop read it; fresh: upsertAutomatedLead found none;
\* tries: requests to RentCast repeated; match: its answer.
NoJob == [todo |-> {}, row |-> NoRow, seen |-> None, fresh |-> FALSE,
          tries |-> 0, match |-> None]

Init ==
  /\ day = 1
  /\ source \in Contents
  /\ activated \in BOOLEAN
  /\ runs = [d \in Days |-> [status |-> "none", rows |-> {}]]
  /\ leads = [r \in Records |-> None]
  /\ attempts = [r \in Records |-> [a \in Addresses |-> "none"]]
  /\ profiles = [r \in Records |-> None]
  /\ pc = [w \in Workers |-> "idle"]
  /\ job = [w \in Workers |-> NoJob]
  /\ faults = 0

\* enrichment_status = 'available'.
Available(lead) == lead # None /\ lead.property \in Owned

Go(w, l) == pc' = [pc EXCEPT ![w] = l]
Hold(w, j) == job' = [job EXCEPT ![w] = j]
Throw(w) == Go(w, "over") /\ Hold(w, NoJob)

-----------------------------------------------------------------------------
(* The trigger and the ingestion run, whose steps are module Ingestion.    *)

(* The next day: the source may have changed.                              *)
NewDay ==
  /\ day < MaxDays
  /\ \A w \in Workers : pc[w] \in {"idle", "over"}
  /\ day' = day + 1
  /\ source' \in Contents
  /\ activated' \in BOOLEAN
  /\ pc' = [w \in Workers |-> "idle"]
  /\ UNCHANGED <<tables, job, faults>>

RunIsActive == \E d \in Days : runs[d].status = "running"

(* createRun refuses a run beside an active one of the policy, for good    *)
(* when that one was cut off: the trigger throws and nothing happens.      *)
Refused(w) ==
  /\ pc[w] = "idle"
  /\ runs[day].status = "none" /\ RunIsActive
  /\ Throw(w)
  /\ UNCHANGED <<world, tables, faults>>

(* The trigger is due.  A run that exists under the key of the day is      *)
(* returned as it is, running or not, and its rows so far are read.        *)
Trigger(w) ==
  /\ pc[w] = "idle"
  /\ IF runs[day].status = "none"
     THEN /\ ~RunIsActive
          /\ runs' = [runs EXCEPT ![day].status = "running"]
          /\ Hold(w, [NoJob EXCEPT !.todo = Records])
          /\ Go(w, "retrieve")
     ELSE /\ Hold(w, [NoJob EXCEPT !.todo = runs[day].rows])
          /\ Go(w, "loop")
          /\ UNCHANGED runs
  /\ UNCHANGED <<world, leads, attempts, profiles, faults>>

Staged(d, r) == {row \in runs[d].rows : row.record = r}

\* The fingerprint of the record in the last run that staged it.
LastStaged(r) ==
  LET ds == {d \in Days : Staged(d, r) # {}}
  IN  IF ds = {} THEN None ELSE (CHOOSE row \in Staged(Max(ds), r) : TRUE).version

(* persistPage: a record whose fingerprint is not the last is safe or      *)
(* changed, any other a duplicate, which is no row of the cycle.           *)
StagePage(w) ==
  /\ pc[w] = "retrieve"
  /\ \E r \in job[w].todo :
       /\ runs' = [runs EXCEPT ![day].rows = @ \cup
                    (IF LastStaged(r) = source[r] THEN {}
                     ELSE {[record |-> r, version |-> source[r]]})]
       /\ Hold(w, [job[w] EXCEPT !.todo = @ \ {r}])
  /\ UNCHANGED <<world, leads, attempts, profiles, pc, faults>>

(* The retrieval ends, after the last page or by an error of the source:   *)
(* stagedRecords reads the rows of the run whatever its status.            *)
EndRetrieval(w) ==
  /\ pc[w] = "retrieve"
  /\ runs' = [runs EXCEPT ![day].status = "ended"]
  /\ Hold(w, [job[w] EXCEPT !.todo = runs[day].rows])
  /\ Go(w, "loop")
  /\ UNCHANGED <<world, leads, attempts, profiles, faults>>

-----------------------------------------------------------------------------
(* The loop over the rows.                                                 *)

\* Where a row goes once its lead is written: a lead that was read as
\* available is skipped, although the upsert may have blanked its owner.
Skips(seen) == Available(seen) \/ ~activated

\* The rows left to do, and nothing of the one that is done.
NextRow(w, todo) == Go(w, "loop") /\ Hold(w, [NoJob EXCEPT !.todo = todo])

\* Mutants of RowIsNew: every row is upserted; only known records are.
AnyRowIsNew(seen, row) == TRUE
KnownRowIsNew(seen, row) == seen # None /\ seen.version # row.version

\* The row is not what the lead was made of.
RowIsNew(seen, row) == seen = None \/ seen.version # row.version

ReadLead(w) ==
  /\ pc[w] = "loop"
  /\ \E row \in job[w].todo :
       LET seen == leads[row.record]
           todo == job[w].todo \ {row}
       IN  IF ~RowIsNew(seen, row) /\ Skips(seen) THEN NextRow(w, todo)
           ELSE /\ Hold(w, [NoJob EXCEPT !.todo = todo, !.row = row, !.seen = seen])
                /\ Go(w, IF RowIsNew(seen, row) THEN "select" ELSE "attempt")
  /\ UNCHANGED <<world, tables, faults>>

(* upsertAutomatedLead reads the lead again ...                            *)
SelectLead(w) ==
  /\ pc[w] = "select"
  /\ Hold(w, [job[w] EXCEPT !.fresh = leads[job[w].row.record] = None])
  /\ Go(w, "write")
  /\ UNCHANGED <<world, tables, faults>>

(* ... and inserts or overwrites it.  An id made for a new lead is not     *)
(* found again if another invocation inserted the lead: the cycle throws.  *)
WriteLead(w) ==
  /\ pc[w] = "write"
  /\ LET row == job[w].row
     IN  /\ leads' = [leads EXCEPT ![row.record] =
                       [version |-> row.version, property |-> None]]
         /\ IF job[w].fresh /\ leads[row.record] # None
            THEN Throw(w)
            ELSE IF Skips(job[w].seen) THEN NextRow(w, job[w].todo)
            ELSE Go(w, "attempt") /\ Hold(w, [job[w] EXCEPT !.fresh = FALSE])
  /\ UNCHANGED <<world, runs, attempts, profiles, faults>>

Address(w) == AddressOf[job[w].row.version]
Record(w) == job[w].row.record

SetAttempt(w, status) ==
  attempts' = [attempts EXCEPT ![Record(w)][Address(w)] = status]

(* recordEnrichmentAttempt: one row for a lead and a request.  A row that  *)
(* exists is left as it is, and the search is made all the same.           *)
RecordAttempt(w) ==
  /\ pc[w] = "attempt"
  /\ IF attempts[Record(w)][Address(w)] = "none"
     THEN SetAttempt(w, "started") ELSE UNCHANGED attempts
  /\ Go(w, "search")
  /\ UNCHANGED <<world, runs, leads, profiles, job, faults>>

\* Mutant of Matches: the provider is trusted to answer for the address.
AnyMatch(a) == Properties

\* providerMatches.
Matches(a) == {p \in Properties : PropertyAddress[p] = a}

(* searchProperties answers: the first property that matches is taken, and *)
(* there may be none among those returned.                                 *)
SearchAnswers(w) ==
  /\ pc[w] = "search"
  /\ \/ \E p \in Matches(Address(w)) :
          Hold(w, [job[w] EXCEPT !.match = p, !.tries = 0]) /\ Go(w, "enrich")
     \/ Hold(w, [job[w] EXCEPT !.tries = 0]) /\ Go(w, "fail")
  /\ UNCHANGED <<world, tables, faults>>

\* Mutant of RepeatSearch: the requests are not counted.
RepeatForever(w) ==
  /\ pc[w] = "search"
  /\ Hold(w, [job[w] EXCEPT !.tries = 1 - @])
  /\ UNCHANGED <<world, tables, pc, faults>>

(* A status of 408, 429 or 500 and above: the request is repeated once.    *)
RepeatSearch(w) ==
  /\ pc[w] = "search"
  /\ job[w].tries = 0
  /\ Hold(w, [job[w] EXCEPT !.tries = 1])
  /\ UNCHANGED <<world, tables, pc, faults>>

(* The request fails for good, or its answer cannot be read.               *)
SearchFails(w) ==
  /\ pc[w] = "search"
  /\ Hold(w, [job[w] EXCEPT !.tries = 0])
  /\ Go(w, "fail")
  /\ UNCHANGED <<world, tables, faults>>

\* automated_leads_org_provider_unique.
PropertyIsTaken(w) ==
  \E r \in Records \ {Record(w)} : leads[r] # None /\ leads[r].property = job[w].match

(* The second upsert, inside the try: the owner is written over the lead.  *)
Enrich(w) ==
  /\ pc[w] = "enrich"
  /\ IF PropertyIsTaken(w)
     THEN Go(w, "fail") /\ UNCHANGED leads
     ELSE /\ leads' = [leads EXCEPT ![Record(w)] =
                        [version |-> job[w].row.version, property |-> job[w].match]]
          /\ Go(w, "profile")
  /\ UNCHANGED <<world, runs, attempts, profiles, job, faults>>

EndAttempt(w, status) ==
  /\ SetAttempt(w, status)
  /\ NextRow(w, job[w].todo)
  /\ UNCHANGED <<world, runs, leads, profiles, faults>>

\* Mutant of SaveProfile: the attempt is completed before the profile is
\* stored, which is left to the next statement.
CompleteFirst(w) ==
  /\ pc[w] = "profile"
  /\ SetAttempt(w, "succeeded")
  /\ Go(w, "succeed")
  /\ UNCHANGED <<world, runs, leads, profiles, job, faults>>

SaveProfile(w) ==
  /\ pc[w] = "profile"
  /\ profiles' = [profiles EXCEPT ![Record(w)] = job[w].match]
  /\ Go(w, "succeed")
  /\ UNCHANGED <<world, runs, leads, attempts, job, faults>>

Succeed(w) == pc[w] = "succeed" /\ EndAttempt(w, "succeeded")
Fail(w) == pc[w] = "fail" /\ EndAttempt(w, "failed")

EndCycle(w) ==
  /\ pc[w] = "loop" /\ job[w].todo = {}
  /\ Throw(w)
  /\ UNCHANGED <<world, tables, faults>>

-----------------------------------------------------------------------------
(* Faults.                                                                 *)

(* A statement fails: inside the try the attempt is completed as failed,   *)
(* elsewhere, and in that completion, the cycle throws.                    *)
DatabaseError(w) ==
  /\ faults < MaxFaults
  /\ faults' = faults + 1
  /\ \/ /\ pc[w] \in {"enrich", "profile", "succeed"}
        /\ Go(w, "fail") /\ UNCHANGED job
     \/ /\ pc[w] \in {"loop", "select", "write", "attempt", "fail"}
        /\ Throw(w)
  /\ UNCHANGED <<world, tables>>

(* The invocation is cut off.                                              *)
Crash(w) ==
  /\ pc[w] \notin {"idle", "over"} /\ faults < MaxFaults
  /\ faults' = faults + 1
  /\ Throw(w)
  /\ UNCHANGED <<world, tables>>

-----------------------------------------------------------------------------
CycleStep(w) ==
  \/ StagePage(w) \/ EndRetrieval(w)
  \/ ReadLead(w) \/ SelectLead(w) \/ WriteLead(w)
  \/ RecordAttempt(w) \/ SearchAnswers(w) \/ RepeatSearch(w) \/ SearchFails(w)
  \/ Enrich(w) \/ SaveProfile(w) \/ Succeed(w) \/ Fail(w) \/ EndCycle(w)

Next ==
  \/ NewDay
  \/ \E w \in Workers : Trigger(w) \/ Refused(w) \/ CycleStep(w) \/ DatabaseError(w) \/ Crash(w)

Spec == Init /\ [][Next]_vars

(* An invocation that is not cut off runs on: the platform schedules it,   *)
(* and a request is answered, refused or timed out.                        *)
FairSpec == Spec /\ \A w \in Workers : WF_vars(CycleStep(w))

-----------------------------------------------------------------------------
(* Every attempt belongs to a lead, and every lead to a row some run       *)
(* staged: the tables reference each other across invocations that stop    *)
(* anywhere.                                                               *)
TypeOK ==
  /\ day \in Days
  /\ source \in Contents /\ activated \in BOOLEAN /\ faults \in 0 .. MaxFaults
  /\ \A d \in Days : runs[d].rows \subseteq Row
  /\ leads \in [Records -> Lead \cup {None}]
  /\ profiles \in [Records -> Properties \cup {None}]
  /\ \A r \in Records, a \in Addresses :
       attempts[r][a] # "none" => leads[r] # None
  /\ \A r \in Records :
       leads[r] # None =>
         \E d \in Days : [record |-> r, version |-> leads[r].version] \in runs[d].rows

(* The owner a lead shows lives at the address of the content the lead was *)
(* made of, and the lookup of that address is on record for the lead:      *)
(* nobody is offered a deal for a neighbour's house, whatever the provider *)
(* answers, however invocations interleave and wherever they stop.         *)
OwnerIsOfThisAddress ==
  \A r \in Records :
    leads[r] # None /\ leads[r].property # None =>
      LET a == AddressOf[leads[r].version]
      IN  PropertyAddress[leads[r].property] = a /\ attempts[r][a] # "none"

(* An attempt that is recorded as succeeded left an owner profile.  A      *)
(* crash, an error or another invocation between the two writes never      *)
(* leaves a success with nothing to show.                                  *)
SuccessLeavesProfile ==
  \A r \in Records :
    (\E a \in Addresses : attempts[r][a] = "succeeded") => profiles[r] # None

(* An available lead loses its owner only to a new version of its record,  *)
(* or to an invocation that read the lead before it was enriched: a run    *)
(* that is delivered again keeps what was paid for.  (Two invocations of   *)
(* one day can both read that there is no lead, and the slower one upserts *)
(* over the enriched one.)                                                 *)
OwnerIsKept ==
  [][\A r \in Records :
       Available(leads[r]) /\ ~Available(leads'[r]) =>
         \/ leads'[r].version # leads[r].version
         \/ \E w \in Workers : /\ pc[w] \in {"write", "enrich"} /\ Record(w) = r
                               /\ job[w].seen # leads[r]]_vars

Overlap == Cardinality({w \in Workers : pc[w] \notin {"idle", "over"}}) > 1

(* Every row a run staged becomes a lead with that content, if no fault    *)
(* occurs and no invocations overlap: the loop ends, whatever the provider *)
(* does.  (A cycle that is cut off leaves rows that the next day's run     *)
(* holds for duplicates: they become leads only when they change, or when  *)
(* the trigger is delivered again the same day.)                           *)
StagedRowsBecomeLeads ==
  \/ <>(faults > 0 \/ Overlap)
  \/ \A r \in Records, v \in Versions :
       (LastStaged(r) = v) ~> (leads[r] # None /\ leads[r].version = v)
=============================================================================
