---------------------------- MODULE ApprovalQueue ----------------------------
(***************************************************************************)
(* The approval queue of the control plane: requests, decisions and the    *)
(* ledger that records them, as server/control-plane-store.ts keeps them   *)
(* in D1 for the handlers of server/control-plane-api.ts.                  *)
(*                                                                         *)
(* Several Worker invocations run at once and every awaited database call  *)
(* is a step.  Unlike the ingestion, nothing here is committed together    *)
(* with its ledger event, the status is updated without looking at what it *)
(* has become, and the ledger has no unique index on previous_hash.        *)
(*                                                                         *)
(* One organization.  A request is named by its action id, the primary key *)
(* of control_plane_actions; the hash of the ledger row with sequence n is *)
(* named n, and the null before the first row 0.                           *)
(***************************************************************************)
EXTENDS Integers, Sequences, FiniteSets

CONSTANTS
  Workers,       \* Worker invocations in flight
  Actions,       \* action ids
  Keys,          \* idempotency keys of the actions
  Actors,        \* requesters and approvers
  Requirements,  \* approval requirements that requests come with
  MaxFaults      \* bound: invocations that are cut short

\* parseRequirement accepts no requirement for fewer than one approval.
ASSUME RequirementsAssumption ==
  /\ Requirements \subseteq [minimum : Nat \ {0}, separate : BOOLEAN]
  /\ MaxFaults \in Nat

VARIABLES
  requests,     \* control_plane_actions and control_plane_approval_requests
  decisions,    \* control_plane_approval_decisions
  ledger,       \* control_plane_ledger_events, by sequence
  authorities,  \* the actors whose authority row is in force
  lapsed,       \* the requests whose expiresAt has passed
  pc,           \* where each Worker invocation is
  frame,        \* its local variables
  faults        \* invocations cut short so far

db   == <<requests, decisions, ledger>>
vars == <<requests, decisions, ledger, authorities, lapsed, pc, frame, faults>>

-----------------------------------------------------------------------------
Verdicts == {"APPROVED", "REJECTED"}
Statuses == {"none", "PENDING", "APPROVED", "REJECTED", "EXPIRED"}

Request  == [status : Statuses \ {"none"}, key : Keys, requester : Actors,
             requirement : Requirements]
Decision == [action : Actions, actor : Actors, verdict : Verdicts]

\* What a ledger event says.
Facts == [type : {"APPROVAL_REQUESTED"}, action : Actions]
           \cup [type : {"APPROVAL_DECIDED"}, decision : Decision]

NoRequest == [status |-> "none"]

\* input: what the caller asks for; status, approved: what decideApproval has
\* read of the request; fact, head: what appendLedgerEvent will insert.
NoInput == [action |-> "none"]
NoFact  == [type |-> "none"]
NoFrame == [input |-> NoInput, status |-> "none", approved |-> 0,
            fact |-> NoFact, head |-> 0]

Locations == {"idle", "lookup", "insert", "decisions", "expire", "authority",
              "decide", "status", "head", "event"}

Init ==
  /\ requests = [a \in Actions |-> NoRequest]
  /\ decisions = {}
  /\ ledger = <<>>
  /\ authorities = Actors
  /\ lapsed = {}
  /\ pc = [w \in Workers |-> "idle"]
  /\ frame = [w \in Workers |-> NoFrame]
  /\ faults = 0

Go(w, l) == pc' = [pc EXCEPT ![w] = l]

\* The request is answered, with a result or with an error.
Return(w) ==
  /\ Go(w, "idle")
  /\ frame' = [frame EXCEPT ![w] = NoFrame]

\* Call appendLedgerEvent.
CallAppend(w, fact) ==
  /\ Go(w, "head")
  /\ frame' = [frame EXCEPT ![w] = [NoFrame EXCEPT !.fact = fact]]

-----------------------------------------------------------------------------
(* createApprovalRequest.                                                  *)

Create(w, a, k, actor, requirement) ==
  /\ pc[w] = "idle"
  /\ Go(w, "lookup")
  /\ frame' = [frame EXCEPT ![w].input =
                 [action |-> a, key |-> k, actor |-> actor,
                  requirement |-> requirement]]
  /\ UNCHANGED <<db, authorities, lapsed, faults>>

\* The requests whose action has this idempotency key.
WithKey(k) == {a \in Actions : requests[a] # NoRequest /\ requests[a].key = k}

(* A request whose action has this key already is returned as it is.       *)
LookupKey(w) ==
  /\ pc[w] = "lookup"
  /\ IF WithKey(frame[w].input.key) = {}
     THEN Go(w, "insert") /\ UNCHANGED frame
     ELSE Return(w)
  /\ UNCHANGED <<db, authorities, lapsed, faults>>

\* Mutant of KeyIsFree: no unique index on organization and key.
ActionIsFree(a, k) == requests[a] = NoRequest

\* The primary key of control_plane_actions and its unique index.
KeyIsFree(a, k) == requests[a] = NoRequest /\ WithKey(k) = {}

(* One batch inserts the action, its envelope and the request.             *)
InsertRequest(w) ==
  /\ pc[w] = "insert"
  /\ LET in == frame[w].input
     IN  IF KeyIsFree(in.action, in.key)
         THEN /\ requests' = [requests EXCEPT ![in.action] =
                   [status |-> "PENDING", key |-> in.key, requester |-> in.actor,
                    requirement |-> in.requirement]]
              /\ CallAppend(w, [type |-> "APPROVAL_REQUESTED",
                                action |-> in.action])
         ELSE Return(w) /\ UNCHANGED requests
  /\ UNCHANGED <<decisions, ledger, authorities, lapsed, faults>>

-----------------------------------------------------------------------------
(* decideApproval.  getApprovalRequest reads the request ...               *)

Decide(w, a, actor, verdict) ==
  /\ pc[w] = "idle"
  /\ requests[a] # NoRequest
  /\ Go(w, "decisions")
  /\ frame' = [frame EXCEPT
                 ![w].input = [action |-> a, actor |-> actor, verdict |-> verdict],
                 ![w].status = requests[a].status]
  /\ UNCHANGED <<db, authorities, lapsed, faults>>

Approvals(a) == {d \in decisions : d.action = a /\ d.verdict = "APPROVED"}

\* Mutant of MayDecide: the status that was read is not looked at.
MayDecideAnyway(status, mismatch) == mismatch # "role"

\* The request is pending and the decision comes in the role it requires.
MayDecide(status, mismatch) == status = "PENDING" /\ mismatch # "role"

(* ... and then its decisions.  What the caller sends may not fit: an      *)
(* envelope hash that is not the request's, or another role.               *)
ReadDecisions(w) ==
  /\ pc[w] = "decisions"
  /\ LET a == frame[w].input.action
     IN  \E mismatch \in {"none", "hash", "role"} :
           \/ /\ mismatch = "hash"
              /\ Return(w)
           \/ /\ mismatch # "hash" /\ a \in lapsed
              /\ Go(w, "expire")
              /\ UNCHANGED frame
           \/ /\ mismatch # "hash" /\ a \notin lapsed
              /\ IF MayDecide(frame[w].status, mismatch)
                 THEN /\ Go(w, "authority")
                      /\ frame' = [frame EXCEPT
                                     ![w].approved = Cardinality(Approvals(a))]
                 ELSE Return(w)
  /\ UNCHANGED <<db, authorities, lapsed, faults>>

(* The request has expired: a pending one is marked, and the call fails.   *)
MarkExpired(w) ==
  /\ pc[w] = "expire"
  /\ LET a == frame[w].input.action
     IN  requests' = [requests EXCEPT ![a].status =
                        IF @ = "PENDING" THEN "EXPIRED" ELSE @]
  /\ Return(w)
  /\ UNCHANGED <<decisions, ledger, authorities, lapsed, faults>>

(* The approver needs an authority in force and, when duties are to be     *)
(* separated, not to be the requester.                                     *)
CheckAuthority(w) ==
  /\ pc[w] = "authority"
  /\ LET in == frame[w].input
         r  == requests[in.action]
     IN  IF /\ in.actor \in authorities
            /\ ~(r.requirement.separate /\ r.requester = in.actor)
         THEN Go(w, "decide") /\ UNCHANGED frame
         ELSE Return(w)
  /\ UNCHANGED <<db, authorities, lapsed, faults>>

\* Mutant of MayInsert: no unique index on request and approver.
MayInsertAgain(a, actor) == TRUE

\* UNIQUE (request_id, approver_actor_id).
MayInsert(a, actor) ==
  \A d \in decisions : ~(d.action = a /\ d.actor = actor)

InsertDecision(w) ==
  /\ pc[w] = "decide"
  /\ LET in == frame[w].input
     IN  IF MayInsert(in.action, in.actor)
         THEN /\ decisions' = decisions \cup {in}
              /\ Go(w, "status")
              /\ UNCHANGED frame
         ELSE Return(w) /\ UNCHANGED decisions
  /\ UNCHANGED <<requests, ledger, authorities, lapsed, faults>>

\* Mutant of NextStatus: the verb of lib/control-plane/control-plane-core.ts.
NextStatusInOtherWords(verdict, approved, minimum) ==
  IF verdict = "REJECTED" THEN "REJECT"
  ELSE IF approved >= minimum THEN "APPROVE" ELSE "PENDING"

NextStatus(verdict, approved, minimum) ==
  IF verdict = "REJECTED" THEN "REJECTED"
  ELSE IF approved >= minimum THEN "APPROVED" ELSE "PENDING"

\* Mutant of UpdateStatus: nothing more to do when the request stays pending.
UpdateStatusIfSettled(w) ==
  /\ pc[w] = "status"
  /\ LET in   == frame[w].input
         own  == IF in.verdict = "APPROVED" THEN 1 ELSE 0
         next == NextStatus(in.verdict, frame[w].approved + own,
                            requests[in.action].requirement.minimum)
     IN  /\ requests' = [requests EXCEPT ![in.action].status = next]
         /\ IF next = "PENDING" THEN Return(w)
            ELSE CallAppend(w, [type |-> "APPROVAL_DECIDED", decision |-> in])
  /\ UNCHANGED <<decisions, ledger, authorities, lapsed, faults>>

(* The status follows from the decisions that were read and this one; the  *)
(* update does not ask what the status is by now.                          *)
UpdateStatus(w) ==
  /\ pc[w] = "status"
  /\ LET in   == frame[w].input
         own  == IF in.verdict = "APPROVED" THEN 1 ELSE 0
         next == NextStatus(in.verdict, frame[w].approved + own,
                            requests[in.action].requirement.minimum)
     IN  /\ requests' = [requests EXCEPT ![in.action].status = next]
         /\ CallAppend(w, [type |-> "APPROVAL_DECIDED", decision |-> in])
  /\ UNCHANGED <<decisions, ledger, authorities, lapsed, faults>>

-----------------------------------------------------------------------------
(* appendLedgerEvent: read the last hash, then insert.  No transaction,    *)
(* no retry, and the sequence number that is hashed is always 0.           *)

ReadHead(w) ==
  /\ pc[w] = "head"
  /\ frame' = [frame EXCEPT ![w].head = Len(ledger)]
  /\ Go(w, "event")
  /\ UNCHANGED <<db, authorities, lapsed, faults>>

\* Mutant of AppendEvent: the insert is tried again after it has succeeded.
AppendEventTwice(w) ==
  /\ pc[w] = "event"
  /\ ledger' = Append(ledger, [previous |-> frame[w].head, fact |-> frame[w].fact])
  /\ \/ Return(w)
     \/ Go(w, "head") /\ UNCHANGED frame
  /\ UNCHANGED <<requests, decisions, authorities, lapsed, faults>>

AppendEvent(w) ==
  /\ pc[w] = "event"
  /\ ledger' = Append(ledger, [previous |-> frame[w].head, fact |-> frame[w].fact])
  /\ Return(w)
  /\ UNCHANGED <<requests, decisions, authorities, lapsed, faults>>

-----------------------------------------------------------------------------
(* A database call fails before or after its effect, or the platform ends  *)
(* the invocation: nothing goes on with it, and nothing is undone.         *)
CutShort(w) ==
  /\ pc[w] # "idle"
  /\ faults < MaxFaults
  /\ faults' = faults + 1
  /\ Return(w)
  /\ UNCHANGED <<db, authorities, lapsed>>

(* Authorities are granted and revoked outside this program.               *)
ChangeAuthority(actor) ==
  /\ authorities' = IF actor \in authorities THEN authorities \ {actor}
                    ELSE authorities \cup {actor}
  /\ UNCHANGED <<db, lapsed, pc, frame, faults>>

(* Time passes expiresAt, if the request has one.                          *)
Lapse(a) ==
  /\ requests[a] # NoRequest /\ a \notin lapsed
  /\ lapsed' = lapsed \cup {a}
  /\ UNCHANGED <<db, authorities, pc, frame, faults>>

Step(w) ==
  \/ LookupKey(w)
  \/ InsertRequest(w)
  \/ ReadDecisions(w)
  \/ MarkExpired(w)
  \/ CheckAuthority(w)
  \/ InsertDecision(w)
  \/ UpdateStatus(w)
  \/ ReadHead(w)
  \/ AppendEvent(w)
  \/ CutShort(w)

Next ==
  \/ \E w \in Workers :
       \/ \E a \in Actions, k \in Keys, actor \in Actors, req \in Requirements :
            Create(w, a, k, actor, req)
       \/ \E a \in Actions, actor \in Actors, verdict \in Verdicts :
            Decide(w, a, actor, verdict)
       \/ Step(w)
  \/ \E actor \in Actors : ChangeAuthority(actor)
  \/ \E a \in Actions : Lapse(a)

Spec == Init /\ [][Next]_vars

-----------------------------------------------------------------------------
(* Properties.                                                             *)

Inputs == [action : Actions, key : Keys, actor : Actors, requirement : Requirements]
            \cup Decision \cup {NoInput}

\* Every variable holds a value of its kind; in particular a status is one
\* that the readers of the queue know.
TypeOK ==
  /\ requests \in [Actions -> Request \cup {NoRequest}]
  /\ decisions \subseteq Decision
  /\ ledger \in Seq([previous : Nat, fact : Facts])
  /\ authorities \subseteq Actors
  /\ lapsed \subseteq Actions
  /\ pc \in [Workers -> Locations]
  /\ frame \in [Workers -> [input : Inputs, status : Statuses, approved : Nat,
                            fact : Facts \cup {NoFact}, head : Nat]]
  /\ faults \in 0..MaxFaults

\* A request that is settled has its reason in the tables: as many approvers
\* as required have approved it, or somebody has rejected it, or it was
\* marked after its time.  decideApproval counts decisions which it has read
\* some steps before it writes the status, so what has to be shown is that
\* it never counts too many.
StatusHasACause ==
  \A a \in {b \in Actions : requests[b] # NoRequest} :
    CASE requests[a].status = "APPROVED" ->
           Cardinality({d.actor : d \in Approvals(a)})
             >= requests[a].requirement.minimum
      [] requests[a].status = "REJECTED" ->
           \E d \in decisions : d.action = a /\ d.verdict = "REJECTED"
      [] requests[a].status = "EXPIRED" -> a \in lapsed
      [] OTHER -> TRUE

\* One idempotency key names one request, although two invocations may both
\* find none before either inserts (createApprovalRequest).
OneRequestPerKey == \A k \in Keys : Cardinality(WithKey(k)) <= 1

\* A settled request changes its status only through a decision that was
\* already on its way when the request was still pending (decideApproval
\* updates without a condition, but refuses what it has read as settled).
SettledOnlyByDecisionsInFlight ==
  [][\A a \in Actions :
       requests[a].status \in {"APPROVED", "REJECTED", "EXPIRED"}
         => \/ requests'[a].status = requests[a].status
            \/ \E w \in Workers : /\ frame[w].input.action = a
                                  /\ frame[w].status = "PENDING"
                                  /\ pc[w] = "status" /\ pc'[w] = "head"]_vars

Happened ==
  {[type |-> "APPROVAL_REQUESTED", action |-> a] :
     a \in {b \in Actions : requests[b] # NoRequest}}
  \cup {[type |-> "APPROVAL_DECIDED", decision |-> d] : d \in decisions}

\* The ledger records what happened, once each, and every event links to an
\* earlier one.
LedgerIsTrue ==
  \A n \in DOMAIN ledger :
    /\ ledger[n].fact \in Happened
    /\ \A m \in DOMAIN ledger : ledger[m].fact = ledger[n].fact => m = n
    /\ ledger[n].previous < n

\* What a worker is about to record.
InFlight ==
  {frame[w].fact : w \in Workers}
    \cup {[type |-> "APPROVAL_DECIDED", decision |-> frame[w].input] :
            w \in {u \in Workers : pc[u] = "status"}}

\* What happened is missing from the ledger for good only if an invocation
\* was cut short, one event each: retrying a request or a decision finds it
\* in place and never writes the event (createApprovalRequest, decideApproval).
MissingOnlyByFaults ==
  Cardinality(Happened \ ({ledger[n].fact : n \in DOMAIN ledger} \cup InFlight))
    <= faults

-----------------------------------------------------------------------------
(* What the documents say and the code does not do.                        *)

\* "It uses ... a sequence number, the previous event hash, and the event
\* hash": a hash-linked sequence.  Two invocations that read the same last
\* hash both insert behind it, and the ledger forks.
LedgerIsOneChain == \A n \in DOMAIN ledger : ledger[n].previous = n - 1
=============================================================================
