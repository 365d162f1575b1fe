--------------------------- MODULE Qualification ---------------------------
(* The qualification of a deal and the order of the research queue         *)
(* (lib/qualification.ts).  Pure operators: evidence in, a result out.     *)
(*                                                                         *)
(* A text is a model value that is compared, None when it is blank after   *)
(* normalization.  A date is a day, an amount or a confidence a number,    *)
(* and Absent, which is below all of them, one that is missing or cannot   *)
(* be parsed.  The sentences of a result are left out; where the code      *)
(* searches them, the operator says which sentences its pattern finds.     *)
EXTENDS Integers, Sequences, FiniteSets, FiniteSetsExt, Functions

CONSTANTS
  States,        \* MA and RI
  None,
  ManualTypes,   \* property types whose name asks for manual review
  LaunchMarket,  \* LAUNCH_MARKET_BY_STATE
  LaunchTypes,   \* LAUNCH_PROPERTY_TYPE_ALIASES: the canonical name of a type
  Specialist     \* strategies that need an attorney

Absent == -1

Components == {"propertyFit", "financialFeasibility", "marketability",
               "buyerDemand", "dataQuality", "sellerProvidedFit"}

\* Math.round of a / b, for numbers that are not negative.
Rounded(a, b) == (2 * a + b) \div (2 * b)

Within(value, minimum, maximum) ==
  (minimum = Absent \/ value >= minimum) /\ (maximum = Absent \/ value <= maximum)

\* validCurrentDate: verified in the last maxAge days, and an expiry that is
\* not over: a date without a time lasts until the end of its day.
IsCurrent(date, today, maxAge) == date # Absent /\ today - date \in 0 .. maxAge
NotExpired(date, today) == date # Absent /\ date >= today

Freshness(date, today, maxAge) ==
  IF date = Absent THEN "Missing"
  ELSE IF date > today THEN "Future"
  ELSE IF today - date <= maxAge THEN "Fresh" ELSE "Stale"

-----------------------------------------------------------------------------
(* The buy box.                                                            *)

ThresholdPairs == {<<"minimumEquity", "preferredEquity">>,
                   <<"minimumSpread", "preferredSpread">>,
                   <<"minimumProfit", "preferredProfit">>}

ThresholdsAreValid(t) ==
  /\ \A f \in DOMAIN t : t[f] >= 0
  /\ t.maximumValue # 0
  /\ \A p \in ThresholdPairs : t[p[2]] >= t[p[1]]

BuyBoxIsValid(box) ==
  /\ box.states # {} /\ box.types # {} /\ box.rehabs # {}
  /\ None \notin box.types \cup UNION Range(box.markets)
  /\ box.min = Absent \/ box.max = Absent \/ box.min <= box.max
  /\ box.minConfidence # Absent
  /\ box.maxAge \in 1 .. 365
  /\ ThresholdsAreValid(box.thresholds)
  /\ \A c \in Components : box.weights[c] >= 0
  /\ \E c \in Components : box.weights[c] > 0

\* What is compared of two buy boxes.
Fields(box) == [f \in DOMAIN box \ {"configured", "version", "updated"} |-> box[f]]

\* normalizeBuyBox: the version names the content.
NormalizeBuyBox(input, previous, now) ==
  LET same == /\ previous # None /\ previous.configured
              /\ BuyBoxIsValid(previous) /\ Fields(previous) = Fields(input)
  IN  [input EXCEPT
         !.configured = TRUE,
         !.version = IF previous = None THEN 1
                     ELSE previous.version + (IF same THEN 0 ELSE 1),
         !.updated = IF same THEN previous.updated ELSE now]

\* normalizeLaunchBuyBox: the markets and types of the launch, by their canonical
\* names (lib/launch-qualification.ts).
LaunchBoxIsValid(box) ==
  /\ \A s \in States : box.markets[s] \subseteq {LaunchMarket[s]}
  /\ \A s \in box.states : box.markets[s] # {}
  /\ box.types \subseteq DOMAIN LaunchTypes
  /\ BuyBoxIsValid(box)

NormalizeLaunchBuyBox(input, previous, now) ==
  NormalizeBuyBox(
    [input EXCEPT
       !.markets = [s \in States |-> IF s \in input.states THEN {LaunchMarket[s]} ELSE {}],
       !.types = {LaunchTypes[t] : t \in @}],
    previous, now)

-----------------------------------------------------------------------------
(* The six components: a score, Absent when it is not assessed, and        *)
(* whether it disqualifies the deal.                                       *)

Unassessed == [score |-> Absent, blocks |-> FALSE]

PropertyFit(deal, box) ==
  LET markets == box.markets[deal.state]
      inState == deal.state \in box.states
      noPlace == markets # {} /\ deal.market = None /\ deal.city = None
      inMarket == markets = {} \/ {deal.market, deal.city} \cap markets # {}
      gap == (inState /\ noPlace) \/ deal.type = None \/ deal.rehab = None
      misfit == \/ ~(inState /\ (noPlace \/ inMarket))
                \/ deal.type \notin box.types \cup {None}
                \/ deal.type \in box.types \cap ManualTypes
                \/ deal.rehab \notin box.rehabs \cup {None}
  IN  [score |-> IF gap THEN Absent ELSE IF misfit THEN 0 ELSE 100,
       blocks |-> misfit]

FinancialIsTrusted(e, box, today) ==
  /\ e # None
  /\ \A f \in {"value", "price", "equity", "spread", "profit", "margin"} : e[f] >= 0
  /\ e.equity <= 100 /\ e.margin <= 100
  /\ e.source
  /\ IsCurrent(e.verified, today, box.maxAge)
  /\ e.confidence >= box.minConfidence

\* Points in halves: all, one or none.
Passes(condition) == IF condition THEN 2 ELSE 0
Tier(value, minimum, preferred) ==
  IF value >= preferred THEN 2 ELSE IF value >= minimum THEN 1 ELSE 0

Financial(e, box, today) ==
  LET t == box.thresholds
      points == Passes(e.value <= t.maximumValue)
              + Passes(Within(e.price, box.min, box.max))
              + Tier(e.equity, t.minimumEquity, t.preferredEquity)
              + Tier(e.spread, t.minimumSpread, t.preferredSpread)
              + Tier(e.profit, t.minimumProfit, t.preferredProfit)
              + Passes(e.margin >= t.minimumMargin)
  IN  IF ~FinancialIsTrusted(e, box, today) THEN Unassessed
      ELSE [score |-> Rounded(100 * points, 12),
            blocks |-> e.spread < t.minimumSpread \/ e.profit < t.minimumProfit]

Marketability(e, box, today) ==
  IF /\ e # None /\ e.comparables \in 0 .. 100 /\ e.source
     /\ IsCurrent(e.verified, today, box.maxAge)
  THEN [score |-> e.comparables, blocks |-> e.comparables < 75]
  ELSE Unassessed

CriteriaAreComplete(buyer) ==
  /\ buyer.states # {}
  /\ Cardinality(buyer.states) = 1 \/ buyer.markets \subseteq {None}
  /\ buyer.types # {} /\ None \notin buyer.types
  /\ buyer.min # Absent \/ buyer.max # Absent
  /\ buyer.min = Absent \/ buyer.max = Absent \/ buyer.min <= buyer.max
  /\ buyer.rehabs # {} /\ buyer.strategies # {}

BuyerMatchesDeal(buyer, deal) ==
  /\ deal.state \in buyer.states
  /\ buyer.markets = {} \/ {deal.market, deal.city} \cap buyer.markets # {}
  /\ deal.type \in buyer.types
  /\ deal.price # Absent /\ Within(deal.price, buyer.min, buyer.max)
  /\ deal.rehab \in buyer.rehabs
  /\ deal.strategies \cap buyer.strategies # {}

\* A verified buyer whose criteria have a gap leaves the demand of all
\* verified buyers unassessed.
BuyerDemand(deal, buyers, financial, box, today) ==
  LET verified == {b \in buyers : /\ b.proof
                                  /\ NotExpired(b.expires, today)
                                  /\ IsCurrent(b.verified, today, box.maxAge)}
      dealIsComplete == /\ deal.type # None /\ deal.price # Absent
                        /\ deal.rehab # None /\ deal.strategies # {}
                        /\ {deal.market, deal.city} # {None}
                        /\ financial.score # Absent
  IN  IF /\ dealIsComplete /\ verified # {}
         /\ \A b \in verified : CriteriaAreComplete(b)
      THEN [score |-> IF \E b \in verified : BuyerMatchesDeal(b, deal) THEN 100 ELSE 0,
            blocks |-> FALSE]
      ELSE Unassessed

NoAssertion == [restricted |-> FALSE, complete |-> FALSE, confidence |-> Absent,
                verified |-> Absent, retrieved |-> Absent, id |-> Absent, at |-> Absent]

\* compareAssertions: the last verified, then the last retrieved.  Two that were
\* never verified have no order (the difference of their dates is not a number),
\* and the sort leaves them in their places in the list.
Supersedes(a, b) ==
  \/ a.verified > b.verified
  \/ /\ a.verified = b.verified
     /\ \/ a.verified = Absent /\ a.at <= b.at
        \/ a.verified # Absent /\ a.retrieved > b.retrieved
        \/ a.verified # Absent /\ a.retrieved = b.retrieved /\ a.id <= b.id

SelectedAssertion(deal) ==
  LET eligible == {a \in deal.sources : ~a.restricted}
  IN  IF eligible = {} THEN NoAssertion
      ELSE CHOOSE a \in eligible : \A b \in eligible : Supersedes(a, b)

DataQuality(deal, box, today) ==
  LET a == SelectedAssertion(deal)
      complete == a.complete /\ a.confidence # Absent /\ a.verified # Absent
      confident == a.confidence # Absent /\ a.confidence >= box.minConfidence
      freshness == Freshness(a.verified, today, box.maxAge)
      subtotal == (IF complete THEN 40 ELSE 0)
                + (CASE a.confidence = 2 -> 25 [] a.confidence = 1 -> 15
                     [] a.confidence = 0 -> 5 [] OTHER -> 0)
                + (IF freshness = "Fresh" THEN 25 ELSE 0)
                + (IF deal.conflicts = 0 THEN 10 ELSE 0)
      trustworthy == complete /\ confident /\ freshness = "Fresh" /\ deal.conflicts = 0
  IN  [score |-> IF trustworthy THEN subtotal ELSE Absent, blocks |-> FALSE,
       subtotal |-> subtotal, freshness |-> freshness,
       missingProvenance |-> ~complete \/ ~confident]

SellerProvidedFit(e, box, today) ==
  IF /\ e # None /\ e.voluntary /\ e.score \in 0 .. 100 /\ e.source /\ e.reasoned
     /\ IsCurrent(e.verified, today, box.maxAge)
  THEN [score |-> e.score, blocks |-> FALSE]
  ELSE Unassessed

Evaluate(deal, box, today, context) ==
  LET financial == Financial(context.financial, box, today)
  IN  [propertyFit |-> PropertyFit(deal, box),
       financialFeasibility |-> financial,
       marketability |-> Marketability(context.market, box, today),
       buyerDemand |-> BuyerDemand(deal, context.buyers, financial, box, today),
       dataQuality |-> DataQuality(deal, box, today),
       sellerProvidedFit |-> SellerProvidedFit(context.seller, box, today)]

-----------------------------------------------------------------------------
(* What holds a deal back whatever it scores.  A restriction has a code    *)
(* and a reason in free text, of which is kept whether it is grave, that   *)
(* is, has one of the words for safety: foreclosure, probate, opt out, ... *)

Codes(deal) == {r.code : r \in Range(deal.restrictions)}
SpeaksOfSafety(deal) == \E r \in Range(deal.restrictions) : r.grave
SourceIsRestricted(deal) == \E a \in deal.sources : a.restricted
Unreviewed(deal) == deal.strategies \cap Specialist # {} /\ ~deal.attorney

\* The disqualifiers that speak of identity, source, contact or specialists.
IsHeld(deal) == \/ deal.restrictions # <<>> \/ deal.owner # None
                \/ SourceIsRestricted(deal) \/ Unreviewed(deal)

IsDisqualified(deal, e) == IsHeld(deal) \/ \E c \in Components : e[c].blocks

WeightedGap(e, box) == \E c \in Components : e[c].score = Absent /\ box.weights[c] > 0

\* Mutant of Status: the components are not asked.
StatusByTrust(deal, e, box) ==
  IF IsDisqualified(deal, e) THEN "Disqualified"
  ELSE IF e.dataQuality.score = Absent THEN "Needs data" ELSE "Scored"

Status(deal, e, box) ==
  IF IsDisqualified(deal, e) THEN "Disqualified"
  ELSE IF WeightedGap(e, box) \/ e.dataQuality.score = Absent THEN "Needs data"
  ELSE "Scored"

\* buildComponent: an assessed component with a weight counts.
IsIncluded(e, box, c) == e[c].score # Absent /\ box.weights[c] > 0

Total(f) == f.propertyFit + f.financialFeasibility + f.marketability
              + f.buyerDemand + f.dataQuality + f.sellerProvidedFit

WeightedScore(e, box) ==
  LET weight == [c \in Components |-> IF IsIncluded(e, box, c) THEN box.weights[c] ELSE 0]
      weighted == [c \in Components |-> e[c].score * weight[c]]
  IN  IF \A c \in Components : ~IsIncluded(e, box, c) THEN Absent
      ELSE Rounded(Total(weighted), Total(weight))

\* evaluateCompliance, from the strictest state.
Compliance(deal, unreviewed, disqualified, status) ==
  LET codes == Codes(deal) \cup {deal.owner}
  IN  IF "Do not contact" \in codes THEN "Do not contact"
      ELSE IF codes \cap {"Identity disputed", "Ownership stale"} # {} THEN "Legal hold"
      ELSE IF "Specialist review" \in codes \/ unreviewed THEN
             "Transaction specialist review"
      ELSE IF "Source restricted" \in codes \/ SourceIsRestricted(deal) THEN
             "Outreach blocked"
      ELSE IF disqualified THEN "Offer blocked"
      ELSE IF status = "Scored" THEN "Clear for manual review"
      ELSE "Clear for research"

-----------------------------------------------------------------------------
(* The recommended action, named shortly, in the alphabetical order of the *)
(* sentences: the queue compares them.                                     *)

ActionOrder ==
  <<"provenance", "underwriting", "valid buy box", "buy box", "seller facts",
    "verify", "hold Do not contact", "status Do not contact",
    "hold Identity disputed", "status Identity disputed", "hold Ownership stale",
    "hold Specialist review", "refresh", "comparables", "source rights",
    "conflicts", "buyers", "mismatch", "structure">>

HoldOf == [c \in {"Do not contact", "Identity disputed", "Ownership stale",
                  "Specialist review"} |->
             CASE c = "Do not contact" -> "hold Do not contact"
               [] c = "Identity disputed" -> "hold Identity disputed"
               [] c = "Ownership stale" -> "hold Ownership stale"
               [] OTHER -> "hold Specialist review"]

RecommendedAction(deal, e) ==
  LET holds == {n \in DOMAIN deal.restrictions : deal.restrictions[n].code \in DOMAIN HoldOf}
  IN  IF holds # {} THEN HoldOf[deal.restrictions[Min(holds)].code]
      ELSE IF deal.owner = "Do not contact" THEN "status Do not contact"
      ELSE IF deal.owner = "Identity disputed" THEN "status Identity disputed"
      ELSE IF SourceIsRestricted(deal) \/ "Source restricted" \in Codes(deal) THEN
             "source rights"
      ELSE IF Unreviewed(deal) THEN "structure"
      ELSE IF deal.conflicts > 0 THEN "conflicts"
      ELSE IF e.dataQuality.freshness # "Fresh" THEN "refresh"
      ELSE IF e.dataQuality.missingProvenance THEN "provenance"
      ELSE IF e.financialFeasibility.score = Absent THEN "underwriting"
      ELSE IF e.marketability.score = Absent THEN "comparables"
      ELSE IF e.buyerDemand.score = Absent THEN "buyers"
      ELSE IF e.sellerProvidedFit.score = Absent THEN "seller facts"
      ELSE IF e.propertyFit.blocks THEN "mismatch"
      ELSE "verify"

\* The priorities of the generated tasks; ownership is always to be verified.
ResearchTasks(deal, e, box) ==
  LET Lacks(c) == e[c].score = Absent
  IN  {2}
      \cup (IF IsHeld(deal) THEN {1} ELSE {})
      \cup (IF Lacks("dataQuality") THEN {3} ELSE {})
      \cup (IF \E c \in {"propertyFit", "financialFeasibility", "marketability"} :
                 Lacks(c) \/ e[c].blocks THEN {4} ELSE {})
      \cup (IF e.buyerDemand.score \in {Absent, 0} THEN {5} ELSE {})
      \cup (IF e.dataQuality.freshness # "Fresh" THEN {6} ELSE {})
      \cup (IF WeightedGap(e, box) THEN {7} ELSE {})
      \cup (IF Lacks("financialFeasibility") THEN {8} ELSE {})

-----------------------------------------------------------------------------
(* Research priority.                                                      *)

Pow4(n) == n * n * n * n

\* Math.round of the fourth root of a product of four factors up to 100.
FourthRoot(p) ==
  CHOOSE r \in 0 .. 100 :
    16 * p < Pow4(2 * r + 1) /\ (r = 0 \/ Pow4(2 * r - 1) <= 16 * p)

\* The words for safety in the disqualifiers and restrictions: in what the code
\* writes of the code or the owner's contact status, or in the reason as recorded.
IsCritical(deal) ==
  \/ {"Do not contact", "Identity disputed", "Ownership stale"}
       \cap (Codes(deal) \cup {deal.owner}) # {}
  \/ SpeaksOfSafety(deal)

\* Conflicts, underwriting or buyer work, and the tasks whose text speaks of
\* repair or listing: tasks 3 to 6.
IsHighResearch(deal, tasks) == deal.conflicts > 0 \/ tasks \cap 3 .. 6 # {}

Clamped(raw) == Max({80, Min({89, raw})})

ResearchPriority(deal, score, subtotal, tasks) ==
  LET high == IsHighResearch(deal, tasks)
      opportunity == IF score = Absent THEN 50 ELSE score
      gap == Max({IF high THEN 75 ELSE 10, 100 - subtotal})
  IN  IF IsCritical(deal) THEN 95
      ELSE IF high THEN Clamped(FourthRoot(opportunity * 85 * 75 * gap))
      ELSE FourthRoot(opportunity * 60 * 50 * gap)

Label(priority) ==
  IF priority >= 90 THEN 4 ELSE IF priority >= 75 THEN 3 ELSE IF priority >= 50 THEN 2
  ELSE IF priority >= 25 THEN 1 ELSE 0

\* The negative reasons of the components; those of a seller are given.
HasDoubts(e, seller) ==
  \/ \E c \in Components \ {"dataQuality", "sellerProvidedFit"} : e[c].blocks
  \/ e.financialFeasibility.score \in 0 .. 99
  \/ e.buyerDemand.score = 0
  \/ e.dataQuality.score = Absent
  \/ e.sellerProvidedFit.score # Absent /\ seller.negative

-----------------------------------------------------------------------------
(* qualifyDeal: without a valid buy box nothing is assessed and no research*)
(* is prioritized, whatever restrictions the deal has.                     *)

Unqualified(deal, status, action) ==
  [status |-> status, score |-> Absent, quality |-> Absent, action |-> action,
   restricted |-> deal.restrictions # <<>>, doubts |-> FALSE,
   compliance |-> Compliance(deal, FALSE, status = "Disqualified", status),
   priority |-> 0, updated |-> deal.updated, id |-> deal.id]

Qualify(deal, box, today, context) ==
  IF ~box.configured THEN Unqualified(deal, "Unconfigured", "buy box")
  ELSE IF ~BuyBoxIsValid(box) THEN Unqualified(deal, "Disqualified", "valid buy box")
  ELSE LET e == Evaluate(deal, box, today, context)
           status == Status(deal, e, box)
           score == WeightedScore(e, box)
       IN  [status |-> status, score |-> score, quality |-> e.dataQuality.score,
            restricted |-> deal.restrictions # <<>>,
            doubts |-> HasDoubts(e, context.seller),
            action |-> RecommendedAction(deal, e),
            compliance |-> Compliance(deal, Unreviewed(deal), IsDisqualified(deal, e), status),
            priority |-> ResearchPriority(deal, score, e.dataQuality.subtotal,
                                          ResearchTasks(deal, e, box)),
            updated |-> deal.updated, id |-> deal.id]

\* adaptQualificationForLaunch: the status an operator is shown.
LaunchStatus(result) ==
  IF result.restricted
       \/ result.compliance \notin {"Clear for research", "Clear for manual review"} THEN
         "Compliance or specialist review"
  ELSE IF result.status = "Disqualified" THEN "Disqualified"
  ELSE IF result.status \in {"Unconfigured", "Needs data"} THEN "Research required"
  ELSE IF result.doubts THEN "Possible" ELSE "Qualified"

-----------------------------------------------------------------------------
(* The order of the queue, of results.                                     *)

Position(action) == CHOOSE n \in DOMAIN ActionOrder : ActionOrder[n] = action

\* The first component that differs decides, the smaller first.
Lexicographic(a, b) ==
  \E n \in DOMAIN a : a[n] < b[n] /\ \A k \in 1 .. n - 1 : a[k] = b[k]

CompareOpportunity(q, r) ==
  Lexicographic(<<-q.score, -q.quality, q.updated, q.id>>,
                <<-r.score, -r.quality, r.updated, r.id>>)

\* Mutant of ComesBefore: priority is not compared.
ComesBeforeByScore(q, r) ==
  IF q.status = "Scored" /\ r.status = "Scored" THEN CompareOpportunity(q, r)
  ELSE Lexicographic(<<Position(q.action), q.updated, q.id>>,
                     <<Position(r.action), r.updated, r.id>>)

\* compareResearchItems.
ComesBefore(q, r) ==
  IF q.priority # r.priority THEN q.priority > r.priority
  ELSE IF q.status = "Scored" /\ r.status = "Scored" THEN CompareOpportunity(q, r)
  ELSE Lexicographic(<<Position(q.action), q.updated, q.id>>,
                     <<Position(r.action), r.updated, r.id>>)
=============================================================================
