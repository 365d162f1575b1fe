------------------------------- MODULE Rules -------------------------------
(***************************************************************************)
(* The rules that decide on what the operator has recorded: the research   *)
(* queue of Qualification, the execution gate of ExecutionGate, and the    *)
(* cancellation windows and the daily schedule of BusinessRules, and the   *)
(* pages of MassGisFetch.  Each is a function of its input and of the      *)
(* time, so a behaviour is one input that changes, step by step, the way   *)
(* the program and its surroundings change it, while time passes; the      *)
(* properties relate what a rule answers before and after.                 *)
(***************************************************************************)
EXTENDS Qualification, ExecutionGate, BusinessRules, MassGisFetch

CONSTANTS
  Inputs,      \* the inputs a behaviour may begin with, per rule
  FirstDay,    \* the day it begins
  LastDay,     \* bound: the last day, per rule
  MaxChanges,  \* bound: changes of the input, per rule
  Snapshots,   \* the source assertions a deal may receive
  Evidence,    \* the financial, market and seller evidence it may receive
  Boxes,       \* the buy boxes an operator may save
  Holidays,    \* the calendars that may be verified
  Parcels      \* what may join the source of a retrieval

\* A calendar names finitely many days, and a contract is dated or not.
Calendar == {h \in SUBSET Nat : IsFiniteSet(h)}
Contract == [start : Nat \cup {NoDay}, verified : BOOLEAN, holidays : Calendar,
             attorney : BOOLEAN]

Schedule == [policy : [id : Nat, version : Nat, enabled : BOOLEAN,
                       hour : 0 .. 23, minute : 0 .. 59],
             kind : {"plain", "spring", "autumn"}, fired : 0 .. 25,
             runs : SUBSET (Nat \X Nat \X Nat)]

\* What is required of the inputs: dates, amounts and weights are whole numbers, and
\* the actors whose authority is known are finitely many and have it from some day on.
IsAssertion(a) ==
  /\ {"confidence", "verified", "retrieved", "id", "at"} \subseteq DOMAIN a
  /\ a.confidence \in {Absent, 0, 1, 2}
  /\ a.verified \in Int /\ a.retrieved \in Int /\ a.id \in Nat /\ a.at \in Nat

RestrictionCodes == DOMAIN HoldOf \cup {"Source restricted"}
Restriction == [code : RestrictionCodes, grave : BOOLEAN]
OwnerStatus == {None, "Do not contact", "Identity disputed"}

IsDeal(deal) ==
  /\ DOMAIN deal = {"state", "market", "city", "type", "rehab", "price", "strategies",
                    "attorney", "owner", "restrictions", "sources", "conflicts", "updated", "id"}
  /\ deal.restrictions \in Seq(Restriction) /\ deal.conflicts \in Nat
  /\ deal.owner \in OwnerStatus /\ deal.updated \in Int /\ deal.id \in Int
  /\ IsFiniteSet(deal.sources) /\ \A a \in deal.sources : IsAssertion(a)

Parts == {"financial", "market", "seller"}

IsEvidence(part, e) ==
  /\ "verified" \in DOMAIN e /\ e.verified \in Int
  /\ part = "financial" =>
       {"spread", "profit"} \subseteq DOMAIN e /\ e.spread \in Int /\ e.profit \in Int

IsContext(c) ==
  /\ Parts \cup {"buyers"} \subseteq DOMAIN c
  /\ \A part \in Parts : c[part] = None \/ IsEvidence(part, c[part])
  /\ \A b \in c.buyers : b.verified \in Int /\ b.expires \in Int

IsBox(box) ==
  /\ {"weights", "thresholds"} \subseteq DOMAIN box
  /\ box.weights \in [Components -> Int]
  /\ box.thresholds.minimumSpread \in Int /\ box.thresholds.minimumProfit \in Int

IsQueueInput(i) ==
  /\ DOMAIN i = {"deals", "contexts", "box"} /\ IsBox(i.box)
  /\ \A d \in DOMAIN i.deals :
       IsDeal(i.deals[d]) /\ d \in DOMAIN i.contexts /\ IsContext(i.contexts[d])

IsGateInput(i) ==
  /\ {"state", "org", "action", "type", "envelope", "policy", "requests", "authorities",
      "evidence", "adapter", "adapters", "globalKill", "channelKill", "outcomeUnknown"}
       \subseteq DOMAIN i
  /\ {"result", "required"} \subseteq DOMAIN i.policy
  /\ \A req \in i.policy.required : req.minimum \in Nat
  /\ IsFiniteSet(DOMAIN i.authorities)
  /\ \A actor \in DOMAIN i.authorities :
       "from" \in DOMAIN i.authorities[actor] /\ i.authorities[actor].from \in Int

IsWindowInput(i) ==
  /\ DOMAIN i = {"deal", "seller", "assignee"}
  /\ i.seller \in Contract /\ i.assignee \in Contract

\* The source sorts by object id, so no two of its features have the same.
IsSource(source) ==
  /\ IsFiniteSet(source) /\ \A f \in source : f.object \in Int
  /\ \A f, g \in source : f.object = g.object => f = g

\* A retrieval begins with everything the source holds still there.
IsRetrievalInput(i) ==
  /\ DOMAIN i = {"fetch", "source", "stayed", "departures"}
  /\ i.fetch.pageSize \in Nat /\ i.fetch.max \in Nat
  /\ i.fetch = StartFetch(i.fetch.pageSize, i.fetch.max)
  /\ IsSource(i.source) /\ i.stayed = i.source /\ i.departures = 0

ASSUME RulesAssumption ==
  /\ DOMAIN Inputs = {"queue", "gate", "window", "clock", "retrieval"}
  /\ None \notin RestrictionCodes
  /\ \A i \in Inputs["queue"] : IsQueueInput(i)
  /\ \A box \in Boxes : IsBox(box)
  /\ \A a \in Snapshots : IsAssertion(a)
  /\ \A part \in DOMAIN Evidence : part \in Parts /\ IsEvidence(part, Evidence[part])
  /\ \A i \in Inputs["gate"] : IsGateInput(i)
  /\ \A i \in Inputs["window"] : IsWindowInput(i)
  /\ Holidays \subseteq Calendar
  /\ \A i \in Inputs["clock"] : i \in Schedule /\ i.fired = 0 /\ i.runs = {}
  /\ \A i \in Inputs["retrieval"] : IsRetrievalInput(i)
  /\ \A f \in Parcels : f.object \in Int
  /\ FirstDay \in Nat

VARIABLES
  rule,     \* the rule this behaviour is about
  input,    \* its input
  now,      \* the day
  changes   \* changes so far

vars == <<rule, input, now, changes>>

Init ==
  /\ rule \in DOMAIN Inputs
  /\ input \in Inputs[rule]
  /\ now = FirstDay
  /\ changes = 0

\* A behaviour of the schedule is one day.
DayPasses ==
  /\ rule # "clock"
  /\ now < LastDay[rule]
  /\ now' = now + 1
  /\ UNCHANGED <<rule, input, changes>>

Change(r, next) ==
  /\ rule = r
  /\ changes < MaxChanges[r]
  /\ next # input
  /\ input' = next
  /\ changes' = changes + 1
  /\ UNCHANGED <<rule, now>>

-----------------------------------------------------------------------------
(* The queue: [deals, contexts, box], a context for every deal.            *)

ChangeDeal(d, deal) == Change("queue", [input EXCEPT !.deals[d] = deal])

\* applyLeadImportPlan and the seller workspace record risks and evidence; the
\* panel of a deal settles conflicts and releases restrictions.  A migration keeps
\* the contact status as the reason, a backup brings its own, so any code can come
\* with a reason that speaks of safety.
RecordRestriction(d) ==
  \E code \in RestrictionCodes \ Codes(input.deals[d]), grave \in BOOLEAN :
    ChangeDeal(d, [input.deals[d] EXCEPT
      !.restrictions = Append(@, [code |-> code, grave |-> grave])])

RecordConflict(d) == ChangeDeal(d, [input.deals[d] EXCEPT !.conflicts = @ + 1])

RecordOwnerStatus(d) ==
  /\ input.deals[d].owner = None
  /\ \E status \in {"Do not contact", "Identity disputed"} :
       ChangeDeal(d, [input.deals[d] EXCEPT !.owner = status])

\* A snapshot may never have been verified; one that is there is not added again.
ReceiveSnapshot(d) ==
  \E a \in Snapshots :
    /\ \A b \in input.deals[d].sources : b.id # a.id \/ b.retrieved # now
    /\ ChangeDeal(d, [input.deals[d] EXCEPT
         !.sources = @ \cup
           {[a EXCEPT !.verified = IF @ = Absent THEN Absent ELSE now, !.retrieved = now,
                      !.at = Cardinality(input.deals[d].sources) + 1]}])

Settle(d) ==
  /\ input.deals[d].conflicts > 0
  /\ ChangeDeal(d, [input.deals[d] EXCEPT !.conflicts = @ - 1])

Release(d) ==
  \E n \in DOMAIN input.deals[d].restrictions :
    ChangeDeal(d, [input.deals[d] EXCEPT !.restrictions = RemoveAt(@, n)])

ReceiveEvidence(d) ==
  \E part \in DOMAIN Evidence :
    Change("queue", [input EXCEPT
      !.contexts[d] = [@ EXCEPT ![part] = [Evidence[part] EXCEPT !.verified = now]]])

\* The form refuses a box that is not valid, before it asks for the lock and after.
SaveBuyBox ==
  \E box \in Boxes :
    /\ LaunchBoxIsValid(box)
    /\ Change("queue", [input EXCEPT !.box = NormalizeLaunchBuyBox(box, input.box, now)])

QueueStep ==
  /\ rule = "queue"
  /\ \/ SaveBuyBox
     \/ \E d \in DOMAIN input.deals :
          \/ RecordRestriction(d) \/ RecordConflict(d) \/ RecordOwnerStatus(d)
          \/ ReceiveSnapshot(d) \/ Settle(d) \/ Release(d) \/ ReceiveEvidence(d)

-----------------------------------------------------------------------------
(* The gate: a snapshot without its time.                                  *)

Move ==
  \E to \in AllowedTransitions[input.state] :
    Change("gate", [input EXCEPT !.state = to])

\* The words of the domain type and the one the store writes.
Decide ==
  \E r \in input.requests, actor \in DOMAIN input.authorities,
     word \in {"APPROVE", "REJECT", "APPROVED"} :
    Change("gate", [input EXCEPT !.requests =
      (@ \ {r}) \cup {[r EXCEPT !.decisions =
          @ \cup {[decision |-> word, actor |-> actor, expires |-> now + 2]}]}])

Ask ==
  Change("gate", [input EXCEPT !.requests = @ \cup
    {[org |-> input.org, action |-> input.action, type |-> input.type,
      hash |-> input.envelope.hash, expires |-> now + 2, decisions |-> {}]}])

Revoke ==
  \E actor \in DOMAIN input.authorities :
    Change("gate", [input EXCEPT !.authorities[actor].revoked = TRUE])

SwitchOff ==
  \/ Change("gate", [input EXCEPT !.globalKill = ~@])
  \/ Change("gate", [input EXCEPT !.channelKill = ~@])

\* What an adapter began has no known outcome.
LoseOutcome == Change("gate", [input EXCEPT !.outcomeUnknown = TRUE])

ReplaceEvidence ==
  \E n \in DOMAIN input.evidence.items :
    \/ /\ "content" \in DOMAIN input.evidence.items[n]
       /\ Change("gate", [input EXCEPT !.evidence.items[n].content = 1 - @])
    \/ /\ "current" \in DOMAIN input.evidence.items[n]
       /\ Change("gate", [input EXCEPT !.evidence.items[n].current = FALSE])

\* The action is prepared again, for other evidence: another envelope.
Prepare ==
  Change("gate", [input EXCEPT
    !.envelope = [@ EXCEPT !.hash = 1 - @,
                           !.evidence = {[e EXCEPT !.content = 1 - @] : e \in @}]])

\* The policy is evaluated for the envelope there is.
EvaluatePolicy ==
  \E result \in {"ALLOW", "REVIEW_REQUIRED", "DENY"} :
    Change("gate", [input EXCEPT
      !.policy = [@ EXCEPT !.hash = input.envelope.hash, !.result = result]])

GateStep ==
  /\ rule = "gate"
  /\ \/ Move \/ Decide \/ Ask \/ Revoke \/ SwitchOff \/ LoseOutcome
     \/ ReplaceEvidence \/ Prepare \/ EvaluatePolicy

-----------------------------------------------------------------------------
(* The windows: [deal, seller, assignee].  updateWindow patches any field  *)
(* of a window, updateDealGate any gate of the deal.                       *)

UpdateWindow ==
  \E key \in {"seller", "assignee"} :
    LET Patch(c) == Change("window", [input EXCEPT ![key] = c])
    IN  \/ Patch([input[key] EXCEPT !.start = now])
        \/ \E h \in Holidays : Patch([input[key] EXCEPT !.verified = TRUE, !.holidays = h])
        \/ Patch([input[key] EXCEPT !.attorney = ~@])

UpdateDealGate ==
  \E gate \in {"agreement", "interest", "disclosure", "attorneyReview"} :
    Change("window", [input EXCEPT !.deal[gate] = ~@])

WindowStep == rule = "window" /\ (UpdateWindow \/ UpdateDealGate)

-----------------------------------------------------------------------------
(* The schedule: [policy, kind, fired, runs], the triggers that have fired *)
(* this day and the runs they have begun.  A run of the same key is found  *)
(* by the trigger that is due again.                                       *)

DayIsOver == input.fired = Len(HoursOf(input.kind))

Trigger ==
  /\ ~DayIsOver
  /\ Change("clock",
       [input EXCEPT
          !.fired = @ + 1,
          !.runs = IF IsDue(input.policy, HoursOf(input.kind)[input.fired + 1])
                   THEN @ \cup {ScheduleKey(input.policy, now)} ELSE @])

ClockStep == rule = "clock" /\ Trigger

-----------------------------------------------------------------------------
(* A retrieval: [fetch, source, stayed, departures], its local variables,  *)
(* what the source holds, which of that has been there all along, and how  *)
(* many parcels have left.                                                 *)

PageArrives ==
  LET r == input.fetch
  IN  Change("retrieval", [input EXCEPT !.fetch = TakePage(r, PageOf(input.source, r))])

RequestFails ==
  Change("retrieval", [input EXCEPT !.fetch = RepeatRequest(@)])
    \/ Change("retrieval", [input EXCEPT !.fetch = Failed(@)])

\* Between two requests a parcel leaves or joins, or both under another object id.
SourceMoves ==
  \/ \E f \in input.source :
       Change("retrieval", [input EXCEPT !.source = @ \ {f}, !.stayed = @ \ {f},
                                         !.departures = @ + 1])
  \/ \E f \in Parcels :
       /\ \A g \in input.source : g.object # f.object /\ g.identity # f.identity
       /\ Change("retrieval", [input EXCEPT !.source = @ \cup {f}])

RetrievalStep ==
  /\ rule = "retrieval"
  /\ input.fetch.status = "fetching"
  /\ PageArrives \/ RequestFails \/ SourceMoves

Next == DayPasses \/ QueueStep \/ GateStep \/ WindowStep \/ ClockStep \/ RetrievalStep

Spec == Init /\ [][Next]_vars

-----------------------------------------------------------------------------
(* Properties.                                                             *)

Result(i, d, today) == Qualify(i.deals[d], i.box, today, i.contexts[d])

BoxIsUsable(box) == box.configured /\ BuyBoxIsValid(box)

Safety == {"Do not contact", "Legal hold"}

\* What the queue shows of a deal.
Item(i, d, today) == [deal |-> i.deals[d], result |-> Result(i, d, today)]

\* Held for safety by its compliance, or by the words of a recorded reason.
IsHeldForSafety(x) == x.result.compliance \in Safety
IsGrave(x) == IsHeldForSafety(x) \/ SpeaksOfSafety(x.deal)

\* In a comparison of the two in either direction.
IsBefore(x, y) == ComesBefore(x.result, y.result)
IsFirst(x, y) == IsBefore(x, y) /\ ~IsBefore(y, x)

BothAreForSpecialists(x, y) ==
  x.result.action = "hold Specialist review" /\ y.result.action = "hold Specialist review"

\* The deals on which a wrong step would do harm are looked at first, whatever
\* their scores, their evidence and their other work.  A deal that must not be
\* contacted, is held, or has a reason on record that speaks of safety comes before
\* every deal that is none of these.  A deal that must not be contacted or is held
\* comes before every deal that only has such a reason, unless what is recommended
\* for both is the review of a specialist, which was recorded first.  And the order
\* runs in no circle through such a deal, as it may elsewhere in the queue
\* (evaluateCompliance, deriveRecommendedAction and deriveResearchPriority read the
\* same facts by different means, compareResearchItems then sorts).
SafetyWorkComesFirst ==
  rule = "queue" /\ BoxIsUsable(input.box) =>
    LET items == {Item(input, d, now) : d \in DOMAIN input.deals}
    IN  /\ \A x, y \in items : IsGrave(x) /\ ~IsGrave(y) => IsFirst(x, y)
        /\ \A x, y \in items : IsHeldForSafety(x) /\ ~IsHeldForSafety(y) =>
             IsFirst(x, y) \/ (BothAreForSpecialists(x, y) /\ SpeaksOfSafety(y.deal))
        /\ \A x, y, z \in items :
             IsGrave(x) /\ IsBefore(x, y) /\ IsBefore(y, z) => IsBefore(x, z)

\* From the weakest to the strictest.
ComplianceOrder ==
  <<"Clear for manual review", "Clear for research", "Offer blocked",
    "Outreach blocked", "Transaction specialist review", "Legal hold",
    "Do not contact">>
Severity(result) ==
  CHOOSE n \in DOMAIN ComplianceOrder : ComplianceOrder[n] = result.compliance

\* What becomes known of a deal is a risk only.
OnlyRisks(deal, next) ==
  /\ IsPrefix(deal.restrictions, next.restrictions)
  /\ deal.conflicts <= next.conflicts
  /\ deal.owner \in {None, next.owner}
  /\ deal.sources \subseteq next.sources
  /\ \A a \in next.sources \ deal.sources : a.restricted
  /\ next = [deal EXCEPT !.restrictions = next.restrictions, !.owner = next.owner,
                         !.conflicts = next.conflicts, !.sources = next.sources]

\* Without a weight a missing component is no gap, and a verified buyer with
\* incomplete criteria withholds the demand of all until it expires.
NothingIsWaived(i) ==
  /\ BoxIsUsable(i.box)
  /\ \A c \in Components : i.box.weights[c] > 0
  /\ \A d \in DOMAIN i.contexts : \A b \in i.contexts[d].buyers : CriteriaAreComplete(b)

\* Evidence that is dated ahead counts from its day on.
NothingIsDatedAhead(i, today) ==
  \A d \in DOMAIN i.deals :
    /\ \A a \in i.deals[d].sources : a.verified <= today /\ a.retrieved <= today
    /\ \A part \in Parts : LET e == i.contexts[d][part] IN e # None => e.verified <= today
    /\ \A b \in i.contexts[d].buyers : b.verified <= today

NeverClears(before, after, timePassed) ==
  /\ after.status = "Scored" => before.status = "Scored"
  /\ LaunchStatus(after) = "Qualified" => LaunchStatus(before) = "Qualified"
  /\ Label(after.priority) >= Label(before.priority)
  /\ \/ Severity(after) >= Severity(before)
     \/ timePassed /\ before.compliance = "Offer blocked"

\* A deal is cleared by research and by nothing else: while time passes and risks
\* are recorded, in any order, no deal becomes scored or is shown as qualified, none
\* leaves its class of priority downwards, and none is held less strictly, save that
\* a disqualifying figure that has gone stale is a gap (qualifyDeal and what it
\* calls).
OnlyResearchClears ==
  [][rule = "queue" /\ NothingIsWaived(input) /\ NothingIsDatedAhead(input, now)
       /\ input'.box = input.box /\ input'.contexts = input.contexts
       /\ (\A d \in DOMAIN input.deals : OnlyRisks(input.deals[d], input'.deals[d]))
     => \A d \in DOMAIN input.deals :
          NeverClears(Result(input, d, now), Result(input', d, now'), now' # now)]_vars

\* An actor who may approve for the requirement and whose approval of this very
\* envelope stands.
Stands(s, req, actor) ==
  LET a == s.authorities[actor]
  IN  /\ a.org = s.org /\ a.role = req.role /\ ~a.revoked
      /\ req.scope # "none" => a.scope \in {req.scope, "GLOBAL", "ALL"}
      /\ a.from <= s.now /\ ~Elapsed(a.until, s.now)
      /\ req.separate => actor # s.envelope.requester
      /\ \E r \in s.requests : \E d \in r.decisions :
           /\ d.actor = actor /\ d.decision = "APPROVE"
           /\ ~Elapsed(d.expires, s.now) /\ ~Elapsed(r.expires, s.now)
           /\ r.hash = s.envelope.hash /\ r.action = s.action

GateSnapshot ==
  [f \in DOMAIN input \cup {"now"} |-> IF f = "now" THEN now ELSE input[f]]

\* A snapshot of the evidence that the envelope names is in force, and has the
\* content that was approved; only an entry of a record may leave the content open.
IsSupported(s, ref) ==
  \E key \in DOMAIN s.evidence.items :
    LET x == s.evidence.items[key]
    IN  /\ "current" \in DOMAIN x => x.current
        /\ ~Elapsed(x.expires, s.now)
        /\ IF s.evidence.form = "list"
           THEN (x.id = ref.id \/ x.type = ref.type) /\ x.content = ref.content
           ELSE key \in {ref.id, ref.type} /\ ("content" \in DOMAIN x => x.content = ref.content)

\* Whatever has been approved, revoked, replaced or switched off in between, an
\* action is executed only while it is ready, its evidence is in force and, as far
\* as the snapshots tell, what the envelope names and, where the policy asks for
\* review, enough different people whose authority is in force approve of exactly
\* this envelope (evaluateExecutionAuthorization).
GateIsSound ==
  rule = "gate" =>
    LET s == GateSnapshot
    IN  Authorized(s) =>
          /\ s.state = "READY" /\ ~s.globalKill /\ ~s.channelKill /\ ~s.outcomeUnknown
          /\ s.policy.hash = s.envelope.hash /\ s.policy.result # "DENY"
          /\ \A ref \in s.envelope.evidence : IsSupported(s, ref)
          /\ s.policy.result = "REVIEW_REQUIRED" => \A req \in s.policy.required :
               Cardinality({a \in DOMAIN s.authorities : Stands(s, req, a)}) >= req.minimum

\* Three business days of the verified calendar lie wholly between the contract
\* and today.
HasElapsed(c) ==
  /\ c.start # NoDay /\ c.verified /\ c.attorney
  /\ Cardinality({d \in c.start + 1 .. now - 1 : IsBusinessDay(d, c.holidays)}) >= 3

\* No assignment in Rhode Island is marketed before both cancellation windows have
\* elapsed, however the dates, the calendar and the confirmations were edited
\* meanwhile, and each window that reports ready has elapsed
\* (evaluateCancellationWindow, evaluateMarketingReadiness).
WindowsElapseFirst ==
  rule = "window" =>
    /\ \A c \in {input.seller, input.assignee} : WindowIsReady(c, now) => HasElapsed(c)
    /\ MarketingIsReady(input.deal, input.seller, input.assignee, now) /\ input.deal.state = "RI" =>
         HasElapsed(input.seller) /\ HasElapsed(input.assignee)

\* The first full hour at or after the scheduled time.
FirstHour(policy) == (policy.hour * 60 + policy.minute + 59) \div 60

\* A scheduled policy runs on every day, once: the day whose clocks go back has one
\* run as well; only a day that has no full hour after the scheduled time, or
\* skips it, has none (runDuePolicies, localParts).
DailyRunHappensOnce ==
  rule = "clock" /\ DayIsOver =>
    Cardinality(input.runs) =
      IF /\ input.policy.enabled /\ FirstHour(input.policy) < 24
         /\ ~(input.kind = "spring" /\ FirstHour(input.policy) = 2)
      THEN 1 ELSE 0

\* A retrieval stages no parcel twice, and one that comes to its end has seen every
\* parcel that was there all along, but at most one for each that left meanwhile,
\* whatever joins, leaves or is numbered anew between two pages and however often a
\* page is asked for (fetchMassGisRecords, requestPage).
NothingIsOverlooked ==
  rule = "retrieval" =>
    LET r == input.fetch
        seen == ToSet(r.records) \cup ToSet(r.rejected)
    IN  /\ \A m, n \in DOMAIN r.records :
             r.records[m].identity = r.records[n].identity => m = n
        /\ r.status = "done" /\ r.processed < r.max =>
             Cardinality(input.stayed \ seen) <= input.departures
=============================================================================
