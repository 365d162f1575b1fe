---------------------------- MODULE RulesProofs ----------------------------
(* Proofs about Rules.  A rule is a function of its input, so most of the  *)
(* work is in lemmas about the functions; the invariant says that what the *)
(* inputs are made of is kept by every change of them.                     *)
EXTENDS Rules, FiniteSetTheorems, SequenceTheorems, WellFoundedInduction, TLAPS

\* A set of numbers has a least one: the first counterexample of an induction.
LEMMA LeastNat ==
  ASSUME NEW S \in SUBSET Nat, S # {}
  PROVE  \E m \in S : \A n \in S : m <= n
<1> DEFINE Before == OpToRel(<, Nat)
<1>1. \A m, n \in Nat : n < m => <<n, m>> \in Before
  BY Zenon DEF OpToRel
<1>2. IsWellFoundedOn(Before, Nat)
  BY NatLessThanWellFounded, Zenon
<1> HIDE DEF Before
<1>3. PICK m \in S : \A n \in S : ~(<<n, m>> \in Before)
  BY <1>2, WFMin
<1>4. ASSUME NEW n \in S PROVE m <= n
  <2>1. m \in Nat /\ n \in Nat /\ ~(n < m)
    BY <1>1, <1>3
  <2> QED BY <2>1
<1> QED BY <1>4

-----------------------------------------------------------------------------
(* Research priority: what is held for safety has 95, anything else less.  *)

\* Of two factors that are not negative the product grows with each.
LEMMA ProductsGrow ==
  ASSUME NEW a \in Nat, NEW b \in Nat, NEW c \in Nat, NEW d \in Nat, a <= c, b <= d
  PROVE  a * b \in Nat /\ a * b <= c * d
<1>1. a * b <= c * b
  BY Z3
<1>2. c * b <= c * d
  BY Z3
<1>3. a * b \in Nat /\ c * b \in Nat /\ c * d \in Nat
  BY Z3
<1> QED BY <1>1, <1>2, <1>3

\* The fourth powers grow.
LEMMA FourthPowersGrow ==
  ASSUME NEW m \in Nat, NEW n \in Nat, m <= n
  PROVE  Pow4(m) \in Nat /\ Pow4(m) <= Pow4(n)
<1>1. m * m \in Nat /\ n * n \in Nat /\ m * m <= n * n
  BY ProductsGrow
<1>2. (m * m) * m \in Nat /\ (n * n) * n \in Nat /\ (m * m) * m <= (n * n) * n
  BY <1>1, ProductsGrow
<1>3. ((m * m) * m) * m \in Nat /\ ((m * m) * m) * m <= ((n * n) * n) * n
  BY <1>2, ProductsGrow
<1> QED BY <1>3 DEF Pow4

\* The rounded fourth root exists, for every product of four factors up to 100, and
\* is less than 95 for the factors of ordinary work.
LEMMA FourthRootIsBounded ==
  ASSUME NEW p \in Nat, p <= Pow4(100)
  PROVE  /\ FourthRoot(p) \in 0 .. 100
         /\ 16 * p < Pow4(2 * FourthRoot(p) + 1)
         /\ FourthRoot(p) = 0 \/ Pow4(2 * FourthRoot(p) - 1) <= 16 * p
         /\ 16 * p < Pow4(179) => FourthRoot(p) < 90
<1> DEFINE Above(r) == 16 * p < Pow4(2 * r + 1)
           IsRoot(r) == Above(r) /\ (r = 0 \/ Pow4(2 * r - 1) <= 16 * p)
<1>1. \A r \in Nat : Pow4(2 * r + 1) \in Nat
  <2>1. \A r \in Nat : 2 * r + 1 \in Nat
    OBVIOUS
  <2> QED BY <2>1, FourthPowersGrow
<1>2. Above(100)
  <2>1. Pow4(100) \in Nat /\ Pow4(201) \in Nat /\ 16 * Pow4(100) < Pow4(201)
    BY DEF Pow4
  <2> QED BY <2>1
<1>3. \E r \in 0 .. 100 : IsRoot(r)
  <2> DEFINE S == {r \in Nat : Above(r)}
  <2>1. PICK r \in S : \A q \in S : r <= q
    <3>1. 100 \in S
      BY <1>2
    <3>2. S \subseteq Nat /\ S # {}
      BY <3>1
    <3> HIDE DEF S
    <3> QED BY <3>2, LeastNat
  <2>2. r \in 0 .. 100
    BY <2>1, <1>2
  <2>3. r = 0 \/ Pow4(2 * r - 1) <= 16 * p
    <3>1. SUFFICES ASSUME r # 0 PROVE Pow4(2 * r - 1) <= 16 * p
      OBVIOUS
    <3>2. r - 1 \in Nat /\ r - 1 \notin S
      BY <3>1, <2>1
    <3>3. 2 * (r - 1) + 1 = 2 * r - 1
      BY <2>2
    <3>4. ~(16 * p < Pow4(2 * (r - 1) + 1)) /\ Pow4(2 * (r - 1) + 1) \in Nat
      BY <3>2, <1>1
    <3> HIDE DEF S
    <3> QED BY <3>3, <3>4
  <2> QED BY <2>1, <2>2, <2>3
<1>4. FourthRoot(p) \in 0 .. 100 /\ IsRoot(FourthRoot(p))
  BY <1>3 DEF FourthRoot
<1>5. ASSUME 16 * p < Pow4(179), FourthRoot(p) >= 90
      PROVE  FALSE
  <2>1. Pow4(2 * FourthRoot(p) - 1) <= 16 * p
    BY <1>4, <1>5
  <2>2. Pow4(179) <= Pow4(2 * FourthRoot(p) - 1) /\ Pow4(179) \in Nat
        /\ Pow4(2 * FourthRoot(p) - 1) \in Nat
    <3>1. 2 * FourthRoot(p) - 1 \in Nat /\ 179 <= 2 * FourthRoot(p) - 1
      BY <1>4, <1>5
    <3> QED BY <3>1, FourthPowersGrow
  <2> QED BY <2>1, <2>2, <1>5
<1> QED BY <1>4, <1>5

\* A mean rounded is between the least and the greatest value.
LEMMA RoundedIsBounded ==
  ASSUME NEW a \in Nat, NEW b \in Nat, b > 0, a <= 100 * b
  PROVE  Rounded(a, b) \in 0 .. 100
<1> DEFINE q == (2 * a + b) \div (2 * b)
           r == (2 * a + b) % (2 * b)
<1>1. 2 * a + b \in Nat /\ 2 * b \in Nat /\ 2 * b > 0
  OBVIOUS
<1>2. q \in Int /\ r \in 0 .. 2 * b - 1 /\ 2 * a + b = (2 * b) * q + r
  BY <1>1, Z3
<1> HIDE DEF q, r
<1>3. q >= 0
  <2>1. SUFFICES ASSUME q <= -1 PROVE FALSE
    BY <1>2
  <2>2. (2 * b) * q <= (2 * b) * (-1)
    BY <1>1, <1>2, <2>1, Z3
  <2> QED BY <1>1, <1>2, <2>2, Z3
<1>4. q <= 100
  <2>1. SUFFICES ASSUME q >= 101 PROVE FALSE
    BY <1>2
  <2>2. (2 * b) * q >= (2 * b) * 101
    BY <1>1, <1>2, <2>1, Z3
  <2> QED BY <1>1, <1>2, <2>2, Z3
<1> QED BY <1>2, <1>3, <1>4 DEF q, Rounded

Percent == 0 .. 100

\* The six components have a score up to 100, or none.
LEMMA ScoresAreBounded ==
  ASSUME NEW deal, NEW box, NEW today, NEW context, NEW c \in Components
  PROVE  LET e == Evaluate(deal, box, today, context)
         IN  e[c].score \in Percent \cup {Absent}
<1> DEFINE e == Evaluate(deal, box, today, context)
<1>1. e.propertyFit.score \in Percent \cup {Absent}
  BY DEF Evaluate, PropertyFit, Percent
<1>2. \A f : Financial(f, box, today).score \in Percent \cup {Absent}
  <2> SUFFICES ASSUME NEW f PROVE Financial(f, box, today).score \in Percent \cup {Absent}
    OBVIOUS
  <2>1. /\ \A condition : Passes(condition) \in 0 .. 2
        /\ \A value, minimum, preferred : Tier(value, minimum, preferred) \in 0 .. 2
    BY DEF Passes, Tier
  <2>2. \A n \in 0 .. 12 : Rounded(100 * n, 12) \in Percent
    BY RoundedIsBounded DEF Percent
  <2> HIDE DEF Percent
  <2> QED BY <2>1, <2>2 DEF Financial, Unassessed
<1>3. e.marketability.score \in Percent \cup {Absent}
  BY DEF Evaluate, Marketability, Unassessed, Percent
<1>4. e.buyerDemand.score \in Percent \cup {Absent}
  BY DEF Evaluate, BuyerDemand, Unassessed, Percent
<1>5. e.dataQuality.score \in Percent \cup {Absent}
  BY DEF Evaluate, DataQuality, Percent
<1>6. e.sellerProvidedFit.score \in Percent \cup {Absent}
  BY DEF Evaluate, SellerProvidedFit, Unassessed, Percent
<1>7. e.financialFeasibility.score \in Percent \cup {Absent}
  BY <1>2 DEF Evaluate
<1> QED BY <1>1, <1>3, <1>4, <1>5, <1>6, <1>7 DEF Components

\* What is left of the provenance of a deal is between nothing and all.
LEMMA SubtotalIsBounded ==
  ASSUME NEW deal, NEW box, NEW today, NEW context
  PROVE  Evaluate(deal, box, today, context).dataQuality.subtotal \in Percent
BY DEF Evaluate, DataQuality, Percent

\* The mean of the components that count is a score too.
LEMMA WeightedScoreIsBounded ==
  ASSUME NEW e, NEW box, IsBox(box), BuyBoxIsValid(box),
         \A c \in Components : e[c].score \in Percent \cup {Absent}
  PROVE  WeightedScore(e, box) \in Percent \cup {Absent}
<1> DEFINE weight == [c \in Components |-> IF IsIncluded(e, box, c) THEN box.weights[c] ELSE 0]
           weighted == [c \in Components |-> e[c].score * weight[c]]
<1>1. \A c \in Components : weight[c] \in Nat /\ (IsIncluded(e, box, c) => weight[c] > 0)
  <2>1. \A c \in Components : box.weights[c] \in Int /\ box.weights[c] >= 0
    BY DEF IsBox, BuyBoxIsValid
  <2> QED BY <2>1 DEF IsIncluded
<1>2. \A c \in Components : weighted[c] \in Nat /\ weighted[c] <= 100 * weight[c]
  <2> TAKE c \in Components
  <2>1. weighted[c] = e[c].score * weight[c]
    OBVIOUS
  <2>2. CASE IsIncluded(e, box, c)
    <3>1. e[c].score \in Nat /\ e[c].score <= 100 /\ weight[c] \in Nat
      BY <1>1, <2>2 DEF IsIncluded, Percent, Absent
    <3> HIDE DEF weight, weighted
    <3>2. e[c].score * weight[c] \in Nat /\ e[c].score * weight[c] <= 100 * weight[c]
      BY <3>1, ProductsGrow
    <3> QED BY <2>1, <3>2
  <2>3. CASE ~IsIncluded(e, box, c)
    <3>1. weight[c] = 0 /\ e[c].score \in Int
      BY <2>3 DEF Percent, Absent
    <3> HIDE DEF weight, weighted
    <3> QED BY <2>1, <3>1
  <2> QED BY <2>2, <2>3
<1>3. CASE \A c \in Components : ~IsIncluded(e, box, c)
  BY <1>3 DEF WeightedScore
<1>4. CASE \E c \in Components : IsIncluded(e, box, c)
  <2>1. PICK c \in Components : weight[c] > 0
    BY <1>1, <1>4
  <2> HIDE DEF weight, weighted
  <2>2. /\ Total(weight) \in Nat /\ Total(weight) > 0
        /\ Total(weighted) \in Nat /\ Total(weighted) <= 100 * Total(weight)
    <3>1. \A k \in Components : /\ weight[k] \in Nat /\ weighted[k] \in Nat
                                  /\ weighted[k] <= 100 * weight[k]
      BY <1>1, <1>2
    <3>2. /\ weight.propertyFit \in Nat /\ weight.financialFeasibility \in Nat
          /\ weight.marketability \in Nat /\ weight.buyerDemand \in Nat
          /\ weight.dataQuality \in Nat /\ weight.sellerProvidedFit \in Nat
      BY <3>1 DEF Components
    <3>3. /\ weighted.propertyFit \in Nat /\ weighted.financialFeasibility \in Nat
          /\ weighted.marketability \in Nat /\ weighted.buyerDemand \in Nat
          /\ weighted.dataQuality \in Nat /\ weighted.sellerProvidedFit \in Nat
      BY <3>1 DEF Components
    <3>4. /\ weighted.propertyFit <= 100 * weight.propertyFit
          /\ weighted.financialFeasibility <= 100 * weight.financialFeasibility
          /\ weighted.marketability <= 100 * weight.marketability
          /\ weighted.buyerDemand <= 100 * weight.buyerDemand
          /\ weighted.dataQuality <= 100 * weight.dataQuality
          /\ weighted.sellerProvidedFit <= 100 * weight.sellerProvidedFit
      BY <3>1 DEF Components
    <3>5. \/ weight.propertyFit > 0 \/ weight.financialFeasibility > 0
          \/ weight.marketability > 0 \/ weight.buyerDemand > 0
          \/ weight.dataQuality > 0 \/ weight.sellerProvidedFit > 0
      BY <2>1 DEF Components
    <3>6. Total(weight) \in Nat /\ Total(weight) > 0
      BY <3>2, <3>5 DEF Total
    <3>7. Total(weighted) \in Nat
      BY <3>3 DEF Total
    <3>8. Total(weighted) <= 100 * Total(weight)
      BY <3>2, <3>3, <3>4 DEF Total
    <3> QED BY <3>6, <3>7, <3>8
  <2>3. Rounded(Total(weighted), Total(weight)) \in Percent
    BY <2>2, RoundedIsBounded DEF Percent
  <2>4. WeightedScore(e, box) = Rounded(Total(weighted), Total(weight))
    BY <1>4 DEF WeightedScore, weight, weighted
  <2> QED BY <2>3, <2>4
<1> QED BY <1>3, <1>4

\* The priority of what is critical is above every other.
LEMMA CriticalIsFirst ==
  ASSUME NEW deal, NEW score \in Percent \cup {Absent}, NEW subtotal \in Percent, NEW tasks
  PROVE  LET priority == ResearchPriority(deal, score, subtotal, tasks)
             high == IsHighResearch(deal, tasks)
         IN  IF IsCritical(deal) THEN priority = 95
             ELSE IF high THEN priority \in 80 .. 89 ELSE priority \in 0 .. 89
<1> DEFINE high == IsHighResearch(deal, tasks)
           opportunity == IF score = Absent THEN 50 ELSE score
           gap == Max({IF high THEN 75 ELSE 10, 100 - subtotal})
<1>1. \A m, n \in Int : Max({m, n}) \in {m, n} /\ Min({m, n}) \in {m, n}
  <2> SUFFICES ASSUME NEW m \in Int, NEW n \in Int
               PROVE  Max({m, n}) \in {m, n} /\ Min({m, n}) \in {m, n}
    OBVIOUS
  <2>1. /\ \E x \in {m, n} : \A y \in {m, n} : x >= y
        /\ \E x \in {m, n} : \A y \in {m, n} : x <= y
    OBVIOUS
  <2> QED BY <2>1 DEF Max, Min
<1>2. opportunity \in Nat /\ opportunity <= 100
  BY DEF Percent, Absent
<1>3. gap \in Nat /\ gap <= 100
  <2>1. (IF high THEN 75 ELSE 10) \in Int /\ 100 - subtotal \in Int
    BY DEF Percent
  <2>2. gap \in {IF high THEN 75 ELSE 10, 100 - subtotal}
    BY <1>1, <2>1, Zenon
  <2> QED BY <2>2 DEF Percent
<1> HIDE DEF high, opportunity, gap
<1>4. opportunity * gap \in Nat /\ opportunity * gap <= 100 * 100
  BY <1>2, <1>3, ProductsGrow
<1>5. ASSUME high PROVE Clamped(FourthRoot(opportunity * 85 * 75 * gap)) \in 80 .. 89
  <2>1. opportunity * 85 * 75 * gap = (opportunity * gap) * 6375
    BY <1>2, <1>3, Z3
  <2>2. opportunity * 85 * 75 * gap \in Nat /\ opportunity * 85 * 75 * gap <= Pow4(100)
    <3> DEFINE product == opportunity * gap
    <3>1. product \in Nat /\ product <= 10000
      BY <1>4
    <3> HIDE DEF product
    <3>2. product * 6375 \in Nat /\ product * 6375 <= 10000 * 6375
      BY <3>1
    <3>3. 10000 * 6375 <= Pow4(100) /\ Pow4(100) \in Nat
      BY SMT DEF Pow4
    <3>4. product * 6375 <= Pow4(100)
      BY <3>2, <3>3, SMT
    <3> QED BY <2>1, <3>2, <3>4 DEF product
  <2>3. FourthRoot(opportunity * 85 * 75 * gap) \in Int
    BY <2>2, FourthRootIsBounded
  <2> HIDE DEF Percent
  <2>4. PICK n \in Int : n = FourthRoot(opportunity * 85 * 75 * gap)
    BY <2>3
  <2>5. Min({89, n}) \in {89, n} /\ Min({89, n}) <= 89
    <3>1. \E x \in {89, n} : \A y \in {89, n} : x <= y
      OBVIOUS
    <3> QED BY <3>1 DEF Min
  <2>6. Clamped(n) \in {80, Min({89, n})} /\ Clamped(n) >= 80
    <3>1. \E x \in {80, Min({89, n})} : \A y \in {80, Min({89, n})} : x >= y
      BY <2>5
    <3> QED BY <3>1 DEF Clamped, Max
  <2>7. Clamped(n) \in 80 .. 89
    BY <2>5, <2>6
  <2> QED BY <2>4, <2>7
<1>6. FourthRoot(opportunity * 60 * 50 * gap) \in 0 .. 89
  <2>1. opportunity * 60 * 50 * gap = (opportunity * gap) * 3000
    BY <1>2, <1>3, Z3
  <2>2. /\ opportunity * 60 * 50 * gap \in Nat
        /\ opportunity * 60 * 50 * gap <= Pow4(100)
        /\ 16 * (opportunity * 60 * 50 * gap) < Pow4(179)
    <3> DEFINE product == opportunity * gap
    <3>1. product \in Nat /\ product <= 10000
      BY <1>4
    <3> HIDE DEF product
    <3>2. product * 3000 \in Nat /\ product * 3000 <= 10000 * 3000
      BY <3>1
    <3>3. /\ 10000 * 3000 <= Pow4(100) /\ 16 * (10000 * 3000) < Pow4(179)
          /\ Pow4(100) \in Nat /\ Pow4(179) \in Nat
      BY SMT DEF Pow4
    <3>4. product * 3000 <= Pow4(100) /\ 16 * (product * 3000) < Pow4(179)
      BY <3>2, <3>3, SMT
    <3> QED BY <2>1, <3>2, <3>4 DEF product
  <2>3. /\ FourthRoot(opportunity * 60 * 50 * gap) \in 0 .. 100
        /\ FourthRoot(opportunity * 60 * 50 * gap) < 90
    BY <2>2, FourthRootIsBounded
  <2> QED BY <2>3
<1> QED BY <1>5, <1>6 DEF ResearchPriority, high, opportunity, gap

\* Safety, and the reasons that speak of it, are what the priority calls critical.
LEMMA SafetyIsCritical ==
  ASSUME NEW deal, NEW unreviewed, NEW disqualified, NEW status
  PROVE  Compliance(deal, unreviewed, disqualified, status) \in Safety \/ SpeaksOfSafety(deal)
           <=> IsCritical(deal)
<1> DEFINE codes == Codes(deal) \cup {deal.owner}
           held == codes \cap {"Identity disputed", "Ownership stale"}
<1>1. IsCritical(deal) <=> "Do not contact" \in codes \/ held # {} \/ SpeaksOfSafety(deal)
  BY DEF IsCritical
<1>2. CASE "Do not contact" \in codes
  BY <1>1, <1>2 DEF Compliance, Safety
<1>3. CASE "Do not contact" \notin codes /\ held # {}
  <2>1. Compliance(deal, unreviewed, disqualified, status) = "Legal hold"
    BY <1>3 DEF Compliance
  <2> QED BY <1>1, <1>3, <2>1 DEF Safety
<1>4. CASE "Do not contact" \notin codes /\ held = {}
  <2>1. Compliance(deal, unreviewed, disqualified, status) \in
          {"Transaction specialist review", "Outreach blocked", "Offer blocked",
           "Clear for manual review", "Clear for research"}
    BY <1>4 DEF Compliance
  <2>2. Compliance(deal, unreviewed, disqualified, status) \notin Safety
    BY <2>1 DEF Safety
  <2> QED BY <1>1, <1>4, <2>2
<1> QED BY <1>2, <1>3, <1>4

-----------------------------------------------------------------------------
(* The inputs.                                                             *)

\* The triggers of the day that have fired are numbered from one, and a run was
\* begun if and only if the schedule was due at one of them.
ClockInv ==
  /\ input \in Schedule /\ input.fired <= Len(HoursOf(input.kind))
  /\ input.runs = {key \in {ScheduleKey(input.policy, now)} :
                     \E n \in 1 .. input.fired :
                       IsDue(input.policy, HoursOf(input.kind)[n])}

\* What the changes keep of the input of each rule.
RulesInv ==
  /\ now \in Nat
  /\ rule \in DOMAIN Inputs
  /\ rule = "queue" => IsQueueInput(input)
  /\ rule = "gate" => IsGateInput(input)
  /\ rule = "window" => IsWindowInput(input)
  /\ rule = "clock" => ClockInv

\* The inputs a behaviour begins with.
LEMMA InitIsKept == Init => RulesInv
<1> SUFFICES ASSUME Init PROVE RulesInv
  OBVIOUS
<1> USE RulesAssumption
<1>1. now \in Nat /\ rule \in DOMAIN Inputs
  BY DEF Init
<1>2. rule = "clock" => ClockInv
  <2> SUFFICES ASSUME rule = "clock" PROVE ClockInv
    OBVIOUS
  <2>1. input \in Schedule /\ input.fired = 0 /\ input.runs = {}
    BY DEF Init
  <2>2. Len(HoursOf(input.kind)) \in Nat
    BY DEF HoursOf
  <2> QED BY <2>1, <2>2 DEF ClockInv
<1> QED BY <1>1, <1>2 DEF Init, RulesInv

\* What is recorded of a deal leaves it a deal.
LEMMA DealsStay ==
  ASSUME NEW deal, IsDeal(deal)
  PROVE  /\ \A r \in Restriction :
              IsDeal([deal EXCEPT !.restrictions = Append(@, r)])
         /\ \A n \in DOMAIN deal.restrictions :
              IsDeal([deal EXCEPT !.restrictions = RemoveAt(@, n)])
         /\ IsDeal([deal EXCEPT !.conflicts = @ + 1])
         /\ deal.conflicts > 0 => IsDeal([deal EXCEPT !.conflicts = @ - 1])
         /\ \A status \in OwnerStatus : IsDeal([deal EXCEPT !.owner = status])
         /\ \A a : IsAssertion(a) => IsDeal([deal EXCEPT !.sources = @ \cup {a}])
<1>1. deal.restrictions \in Seq(Restriction) /\ deal.conflicts \in Nat
  BY DEF IsDeal
<1>2. ASSUME NEW s \in Seq(Restriction) PROVE IsDeal([deal EXCEPT !.restrictions = s])
  BY <1>2 DEF IsDeal
<1>3. ASSUME NEW r \in Restriction
      PROVE  Append(deal.restrictions, r) \in Seq(Restriction)
  BY <1>1, <1>3
<1>4. ASSUME NEW n \in DOMAIN deal.restrictions
      PROVE  RemoveAt(deal.restrictions, n) \in Seq(Restriction)
  <2> DEFINE s == deal.restrictions
  <2>1. s \in Seq(Restriction) /\ Len(s) \in Nat /\ n \in 1 .. Len(s)
    BY <1>1
  <2> HIDE DEF s
  <2>2. SubSeq(s, 1, n - 1) \in Seq(Restriction)
    BY <2>1, SubSeqProperties
  <2>3. SubSeq(s, n + 1, Len(s)) \in Seq(Restriction)
    BY <2>1, SubSeqProperties
  <2>4. SubSeq(s, 1, n - 1) \o SubSeq(s, n + 1, Len(s)) \in Seq(Restriction)
    BY <2>2, <2>3, ConcatProperties
  <2> QED BY <2>4 DEF RemoveAt, s
<1>5. ASSUME NEW k \in Nat PROVE IsDeal([deal EXCEPT !.conflicts = k])
  BY <1>5 DEF IsDeal
<1>6. \A status \in OwnerStatus : IsDeal([deal EXCEPT !.owner = status])
  BY DEF IsDeal
<1>7. ASSUME NEW a, IsAssertion(a)
      PROVE  IsDeal([deal EXCEPT !.sources = @ \cup {a}])
  <2>1. IsFiniteSet(deal.sources \cup {a})
    BY FS_AddElement DEF IsDeal
  <2> QED BY <1>7, <2>1 DEF IsDeal
<1>8. /\ deal.conflicts + 1 \in Nat
      /\ deal.conflicts > 0 => deal.conflicts - 1 \in Nat
  BY <1>1
<1> QED BY <1>2, <1>3, <1>4, <1>5, <1>6, <1>7, <1>8

\* The queue: a deal, its evidence or the buy box is another of its kind.
LEMMA QueueInputsStay ==
  ASSUME RulesInv, QueueStep
  PROVE  /\ IsQueueInput(input') /\ DOMAIN input'.deals = DOMAIN input.deals
         /\ rule' = "queue" /\ now' = now
<1> USE RulesAssumption
<1>1. rule = "queue" /\ IsQueueInput(input) /\ now \in Nat
  BY DEF QueueStep, RulesInv
<1>2. ASSUME NEW d, NEW deal, IsDeal(deal)
      PROVE  /\ IsQueueInput([input EXCEPT !.deals[d] = deal])
             /\ DOMAIN [input EXCEPT !.deals[d] = deal].deals = DOMAIN input.deals
  BY <1>1, <1>2 DEF IsQueueInput
<1>3. ASSUME NEW d, NEW c, IsContext(c)
      PROVE  /\ IsQueueInput([input EXCEPT !.contexts[d] = c])
             /\ [input EXCEPT !.contexts[d] = c].deals = input.deals
  BY <1>1, <1>3 DEF IsQueueInput
<1>4. ASSUME NEW box \in Boxes
      PROVE  /\ IsQueueInput([input EXCEPT !.box = NormalizeLaunchBuyBox(box, input.box, now)])
             /\ [input EXCEPT !.box = NormalizeLaunchBuyBox(box, input.box, now)].deals
                  = input.deals
  <2> SUFFICES IsBox(NormalizeLaunchBuyBox(box, input.box, now))
    BY <1>1 DEF IsQueueInput
  <2>1. \A i, previous : IsBox(i) => IsBox(NormalizeBuyBox(i, previous, now))
    BY DEF IsBox, NormalizeBuyBox
  <2>2. \A m, t : IsBox([box EXCEPT !.markets = m, !.types = t])
    BY DEF IsBox
  <2> QED BY <2>1, <2>2 DEF NormalizeLaunchBuyBox
<1>5. CASE SaveBuyBox
  BY <1>1, <1>4, <1>5 DEF SaveBuyBox, Change
<1>6. ASSUME NEW d \in DOMAIN input.deals,
             \/ RecordRestriction(d) \/ RecordConflict(d) \/ RecordOwnerStatus(d)
             \/ ReceiveSnapshot(d) \/ Settle(d) \/ Release(d)
      PROVE  /\ IsQueueInput(input') /\ DOMAIN input'.deals = DOMAIN input.deals
             /\ rule' = "queue" /\ now' = now
  <2>1. IsDeal(input.deals[d])
    BY <1>1, <1>6 DEF IsQueueInput
  <2>2. ASSUME NEW a \in Snapshots
        PROVE  IsAssertion([a EXCEPT !.verified = IF @ = Absent THEN Absent ELSE now,
                                     !.retrieved = now,
                                     !.at = Cardinality(input.deals[d].sources) + 1])
    <3>1. Cardinality(input.deals[d].sources) \in Nat
      BY <2>1, FS_CardinalityType DEF IsDeal
    <3>2. now \in Int /\ Absent \in Int
      BY <1>1 DEF Absent
    <3> QED BY <3>1, <3>2 DEF IsAssertion
  <2>3. PICK deal : ChangeDeal(d, deal) /\ IsDeal(deal)
    <3>1. CASE RecordRestriction(d)
      <4>1. PICK code \in RestrictionCodes, grave \in BOOLEAN :
              ChangeDeal(d, [input.deals[d] EXCEPT
                !.restrictions = Append(@, [code |-> code, grave |-> grave])])
        BY <3>1 DEF RecordRestriction
      <4>2. [code |-> code, grave |-> grave] \in Restriction
        BY DEF Restriction
      <4> QED BY <2>1, <4>1, <4>2, DealsStay
    <3>2. CASE RecordConflict(d)
      BY <2>1, <3>2, DealsStay DEF RecordConflict
    <3>3. CASE RecordOwnerStatus(d)
      BY <2>1, <3>3, DealsStay DEF RecordOwnerStatus, OwnerStatus
    <3>4. CASE ReceiveSnapshot(d)
      BY <2>1, <2>2, <3>4, DealsStay DEF ReceiveSnapshot
    <3>5. CASE Settle(d)
      BY <2>1, <3>5, DealsStay DEF Settle
    <3>6. CASE Release(d)
      BY <2>1, <3>6, DealsStay DEF Release
    <3> QED BY <1>6, <3>1, <3>2, <3>3, <3>4, <3>5, <3>6
  <2>4. /\ IsQueueInput([input EXCEPT !.deals[d] = deal])
        /\ DOMAIN [input EXCEPT !.deals[d] = deal].deals = DOMAIN input.deals
    BY <1>2, <2>3
  <2> QED BY <1>1, <2>3, <2>4, Zenon DEF ChangeDeal, Change
<1>7. ASSUME NEW d \in DOMAIN input.deals, ReceiveEvidence(d)
      PROVE  /\ IsQueueInput(input') /\ DOMAIN input'.deals = DOMAIN input.deals
             /\ rule' = "queue" /\ now' = now
  <2>1. PICK part \in DOMAIN Evidence :
          Change("queue", [input EXCEPT
            !.contexts[d] = [@ EXCEPT ![part] = [Evidence[part] EXCEPT !.verified = now]]])
    BY <1>7 DEF ReceiveEvidence
  <2> DEFINE e == [Evidence[part] EXCEPT !.verified = now]
             c == [input.contexts[d] EXCEPT ![part] = e]
  <2>2. part \in Parts /\ IsEvidence(part, e)
    BY <1>1 DEF IsEvidence
  <2>3. IsContext(input.contexts[d])
    BY <1>1, <1>7 DEF IsQueueInput
  <2> HIDE DEF e
  <2>4. IsContext(c)
    BY <2>2, <2>3 DEF IsContext, Parts
  <2>5. input' = [input EXCEPT !.contexts[d] = c] /\ rule' = rule /\ now' = now
    BY <2>1 DEF Change, e
  <2> HIDE DEF c
  <2>6. /\ IsQueueInput([input EXCEPT !.contexts[d] = c])
        /\ [input EXCEPT !.contexts[d] = c].deals = input.deals
    BY <1>3, <2>4
  <2> QED BY <1>1, <2>5, <2>6, Zenon
<1>8. \/ SaveBuyBox
      \/ \E d \in DOMAIN input.deals :
           \/ RecordRestriction(d) \/ RecordConflict(d) \/ RecordOwnerStatus(d)
           \/ ReceiveSnapshot(d) \/ Settle(d) \/ Release(d) \/ ReceiveEvidence(d)
  BY Zenon DEF QueueStep
<1> QED BY <1>5, <1>6, <1>7, <1>8, Zenon

\* The gate: no step adds an actor or what the policy requires.
LEMMA GateInputsStay ==
  ASSUME RulesInv, GateStep
  PROVE  IsGateInput(input') /\ rule' = "gate" /\ now' = now
<1>1. rule = "gate" /\ IsGateInput(input)
  BY DEF GateStep, RulesInv
<1>2. CASE Move
  BY <1>1, <1>2 DEF Move, Change, IsGateInput
<1>3. CASE Decide
  BY <1>1, <1>3 DEF Decide, Change, IsGateInput
<1>4. CASE Ask
  BY <1>1, <1>4 DEF Ask, Change, IsGateInput
<1>5. CASE Revoke
  BY <1>1, <1>5 DEF Revoke, Change, IsGateInput
<1>6. CASE SwitchOff
  BY <1>1, <1>6 DEF SwitchOff, Change, IsGateInput
<1>7. CASE LoseOutcome
  BY <1>1, <1>7 DEF LoseOutcome, Change, IsGateInput
<1>8. CASE ReplaceEvidence
  BY <1>1, <1>8 DEF ReplaceEvidence, Change, IsGateInput
<1>9. CASE Prepare
  BY <1>1, <1>9 DEF Prepare, Change, IsGateInput
<1>10. CASE EvaluatePolicy
  BY <1>1, <1>10 DEF EvaluatePolicy, Change, IsGateInput
<1> QED BY <1>2, <1>3, <1>4, <1>5, <1>6, <1>7, <1>8, <1>9, <1>10 DEF GateStep

\* The windows: a contract is dated today, its calendar is one of those there are.
LEMMA WindowInputsStay ==
  ASSUME RulesInv, WindowStep
  PROVE  IsWindowInput(input') /\ rule' = "window" /\ now' = now
<1> USE RulesAssumption
<1>1. rule = "window" /\ IsWindowInput(input) /\ now \in Nat
  BY DEF WindowStep, RulesInv
<1>2. CASE UpdateWindow
  <2>1. PICK key \in {"seller", "assignee"} : \E c :
          /\ Change("window", [input EXCEPT ![key] = c])
          /\ \/ c = [input[key] EXCEPT !.start = now]
             \/ \E h \in Holidays : c = [input[key] EXCEPT !.verified = TRUE, !.holidays = h]
             \/ c = [input[key] EXCEPT !.attorney = ~@]
    BY <1>2 DEF UpdateWindow
  <2>2. input[key] \in Contract
    BY <1>1 DEF IsWindowInput
  <2>3. PICK c :
          /\ Change("window", [input EXCEPT ![key] = c])
          /\ \/ c = [input[key] EXCEPT !.start = now]
             \/ \E h \in Holidays : c = [input[key] EXCEPT !.verified = TRUE, !.holidays = h]
             \/ c = [input[key] EXCEPT !.attorney = ~@]
    BY <2>1
  <2>4. c \in Contract
    BY <1>1, <2>2, <2>3 DEF Contract
  <2> QED BY <1>1, <2>2, <2>3, <2>4 DEF Change, IsWindowInput
<1>3. CASE UpdateDealGate
  BY <1>1, <1>3 DEF UpdateDealGate, Change, IsWindowInput
<1> QED BY <1>2, <1>3 DEF WindowStep

\* The schedule: each trigger adds the run of the day when it is due.
LEMMA ClockInputsStay ==
  ASSUME RulesInv, ClockStep
  PROVE  ClockInv' /\ rule' = "clock" /\ now' = now
<1>1. rule = "clock" /\ ClockInv /\ now \in Nat
  BY DEF ClockStep, RulesInv
<1> DEFINE n == input.fired + 1
           key == ScheduleKey(input.policy, now)
           due(k) == IsDue(input.policy, HoursOf(input.kind)[k])
           runs == IF due(n) THEN input.runs \cup {key} ELSE input.runs
<1>2. /\ input' = [input EXCEPT !.fired = n, !.runs = runs]
      /\ rule' = "clock" /\ now' = now /\ input.fired # Len(HoursOf(input.kind))
  BY <1>1 DEF ClockStep, Trigger, Change, DayIsOver
<1>3. input.fired \in Nat /\ Len(HoursOf(input.kind)) \in 0 .. 25
  <2>1. input.kind \in {"plain", "spring", "autumn"} /\ input.fired \in 0 .. 25
    BY <1>1 DEF ClockInv, Schedule
  <2> QED BY <2>1 DEF HoursOf
<1>4. n \in 0 .. 25 /\ n <= Len(HoursOf(input.kind)) /\ 1 .. n = 1 .. input.fired \cup {n}
  <2>1. input.fired <= Len(HoursOf(input.kind))
    BY <1>1 DEF ClockInv
  <2>2. \A f, l \in Nat : f <= l /\ f # l => f + 1 <= l
    OBVIOUS
  <2>3. \A f \in Nat : 1 .. (f + 1) = 1 .. f \cup {f + 1}
    OBVIOUS
  <2>4. n <= Len(HoursOf(input.kind))
    BY <1>2, <1>3, <2>1, <2>2
  <2>5. 1 .. n = 1 .. input.fired \cup {n}
    BY <1>3, <2>3
  <2>6. \A f \in Nat, l \in 0 .. 25 : f + 1 <= l => f + 1 \in 0 .. 25
    OBVIOUS
  <2>7. n \in 0 .. 25
    BY <1>3, <2>4, <2>6
  <2> QED BY <2>4, <2>5, <2>7
<1>5. key \in Nat \X Nat \X Nat
  BY <1>1 DEF ClockInv, Schedule, ScheduleKey
<1> HIDE DEF key, due
<1>6. runs = {k \in {key} : \E m \in 1 .. n : due(m)}
  <2>1. input.runs = {k \in {key} : \E m \in 1 .. input.fired : due(m)}
    BY <1>1 DEF ClockInv, key, due
  <2> HIDE DEF n
  <2> QED BY <1>4, <2>1
<1> HIDE DEF n
<1>7. input' \in Schedule
  BY <1>1, <1>2, <1>4, <1>5, <1>6 DEF ClockInv, Schedule
<1>8. /\ input'.policy = input.policy /\ input'.kind = input.kind
      /\ input'.fired = n /\ input'.runs = runs
  BY <1>1, <1>2 DEF ClockInv, Schedule
<1> QED BY <1>2, <1>4, <1>6, <1>7, <1>8 DEF ClockInv, key, due

\* Every step keeps the inputs what they are.
LEMMA StepKeepsInputs == RulesInv /\ [Next]_vars => RulesInv'
<1> SUFFICES ASSUME RulesInv, [Next]_vars PROVE RulesInv'
  OBVIOUS
<1>1. CASE DayPasses
  BY <1>1 DEF DayPasses, RulesInv
<1>2. CASE QueueStep
  BY <1>2, QueueInputsStay, RulesAssumption DEF RulesInv
<1>3. CASE GateStep
  BY <1>3, GateInputsStay, RulesAssumption DEF RulesInv
<1>4. CASE WindowStep
  BY <1>4, WindowInputsStay, RulesAssumption DEF RulesInv
<1>5. CASE ClockStep
  BY <1>5, ClockInputsStay, RulesAssumption DEF RulesInv
<1>6. CASE RetrievalStep
  BY <1>6 DEF RetrievalStep, PageArrives, RequestFails, SourceMoves, Change, RulesInv
<1>7. CASE UNCHANGED vars
  BY <1>7 DEF vars, RulesInv, ClockInv
<1> QED BY <1>1, <1>2, <1>3, <1>4, <1>5, <1>6, <1>7 DEF Next

\* The inputs of the rules are always what the rules were written for.
THEOREM InputsStay == Spec => []RulesInv
<1>1. Init => RulesInv
  BY InitIsKept
<1>2. RulesInv /\ [Next]_vars => RulesInv'
  BY StepKeepsInputs
<1> QED BY <1>1, <1>2, PTL DEF Spec

-----------------------------------------------------------------------------
(* The queue.                                                              *)

\* With a usable box the priority of a deal says whether safety holds it.
LEMMA PriorityIsOfSafety ==
  ASSUME NEW deal, NEW box, NEW today, NEW context, IsBox(box), BoxIsUsable(box)
  PROVE  LET q == Qualify(deal, box, today, context)
         IN  IF q.compliance \in Safety \/ SpeaksOfSafety(deal) THEN q.priority = 95
             ELSE q.priority \in 0 .. 94
<1> DEFINE q == Qualify(deal, box, today, context)
           e == Evaluate(deal, box, today, context)
           score == WeightedScore(e, box)
           tasks == ResearchTasks(deal, e, box)
           status == Status(deal, e, box)
<1>1. /\ q.priority = ResearchPriority(deal, score, e.dataQuality.subtotal, tasks)
      /\ q.compliance = Compliance(deal, Unreviewed(deal), IsDisqualified(deal, e), status)
  BY Zenon DEF Qualify, BoxIsUsable
<1>2. score \in Percent \cup {Absent}
  BY ScoresAreBounded, WeightedScoreIsBounded, Zenon DEF BoxIsUsable
<1>3. e.dataQuality.subtotal \in Percent
  BY SubtotalIsBounded
<1> HIDE DEF q, e, score, tasks, status
<1>4. IF IsCritical(deal) THEN q.priority = 95 ELSE q.priority \in 0 .. 94
  <2>1. LET priority == ResearchPriority(deal, score, e.dataQuality.subtotal, tasks)
            high == IsHighResearch(deal, tasks)
        IN  IF IsCritical(deal) THEN priority = 95
            ELSE IF high THEN priority \in 80 .. 89 ELSE priority \in 0 .. 89
    BY <1>2, <1>3, CriticalIsFirst
  <2> QED BY <1>1, <2>1
<1>5. q.compliance \in Safety \/ SpeaksOfSafety(deal) <=> IsCritical(deal)
  BY <1>1, SafetyIsCritical, Zenon
<1>6. IF q.compliance \in Safety \/ SpeaksOfSafety(deal) THEN q.priority = 95
      ELSE q.priority \in 0 .. 94
  BY <1>4, <1>5, Zenon
<1> QED BY <1>6 DEF q

\* The order of three numbers each.
LEMMA LexicographicOfThree ==
  ASSUME NEW a1 \in Int, NEW a2 \in Int, NEW a3 \in Int,
         NEW b1 \in Int, NEW b2 \in Int, NEW b3 \in Int
  PROVE  Lexicographic(<<a1, a2, a3>>, <<b1, b2, b3>>) <=>
           a1 < b1 \/ (a1 = b1 /\ (a2 < b2 \/ (a2 = b2 /\ a3 < b3)))
<1> DEFINE a == <<a1, a2, a3>>
           b == <<b1, b2, b3>>
           Decides(n) == a[n] < b[n] /\ \A k \in 1 .. n - 1 : a[k] = b[k]
<1>1. Lexicographic(a, b) <=> \E n \in {1, 2, 3} : Decides(n)
  <2>1. DOMAIN a = {1, 2, 3}
    OBVIOUS
  <2> HIDE DEF a, b
  <2> QED BY <2>1, Zenon DEF Lexicographic
<1>2. Decides(1) <=> a1 < b1
  OBVIOUS
<1>3. Decides(2) <=> a1 = b1 /\ a2 < b2
  <2>1. 1 .. 2 - 1 = {1}
    OBVIOUS
  <2> QED BY <2>1
<1>4. Decides(3) <=> a1 = b1 /\ a2 = b2 /\ a3 < b3
  <2>1. 1 .. 3 - 1 = {1, 2}
    OBVIOUS
  <2> QED BY <2>1
<1> HIDE DEF Decides
<1> QED BY <1>1, <1>2, <1>3, <1>4

\* The places of the actions that safety recommends.
LEMMA PositionsOfHolds ==
  /\ Position("hold Do not contact") = 7 /\ Position("status Do not contact") = 8
  /\ Position("hold Identity disputed") = 9 /\ Position("status Identity disputed") = 10
  /\ Position("hold Ownership stale") = 11 /\ Position("hold Specialist review") = 12
  /\ Position("source rights") = 15
<1>1. DOMAIN ActionOrder = 1 .. 19
  BY DEF ActionOrder
<1>2. ASSUME NEW a, NEW k \in 1 .. 19, \A n \in 1 .. 19 : ActionOrder[n] = a <=> n = k
      PROVE  Position(a) = k
  BY <1>1, <1>2, Zenon DEF Position
<1>3. \A n \in 1 .. 19 : n \in {1, 2, 3, 4, 5, 6, 7, 8, 9, 10, 11, 12, 13, 14, 15, 16, 17, 18, 19}
  OBVIOUS
<1>4. /\ ActionOrder[1] = "provenance" /\ ActionOrder[2] = "underwriting"
      /\ ActionOrder[3] = "valid buy box" /\ ActionOrder[4] = "buy box"
      /\ ActionOrder[5] = "seller facts" /\ ActionOrder[6] = "verify"
      /\ ActionOrder[7] = "hold Do not contact" /\ ActionOrder[8] = "status Do not contact"
      /\ ActionOrder[9] = "hold Identity disputed"
      /\ ActionOrder[10] = "status Identity disputed"
      /\ ActionOrder[11] = "hold Ownership stale"
      /\ ActionOrder[12] = "hold Specialist review" /\ ActionOrder[13] = "refresh"
      /\ ActionOrder[14] = "comparables" /\ ActionOrder[15] = "source rights"
      /\ ActionOrder[16] = "conflicts" /\ ActionOrder[17] = "buyers"
      /\ ActionOrder[18] = "mismatch" /\ ActionOrder[19] = "structure"
  BY DEF ActionOrder
<1>5. ASSUME NEW n \in 1 .. 19
      PROVE  /\ ActionOrder[n] = "hold Do not contact" <=> n = 7
             /\ ActionOrder[n] = "status Do not contact" <=> n = 8
             /\ ActionOrder[n] = "hold Identity disputed" <=> n = 9
             /\ ActionOrder[n] = "status Identity disputed" <=> n = 10
             /\ ActionOrder[n] = "hold Ownership stale" <=> n = 11
             /\ ActionOrder[n] = "hold Specialist review" <=> n = 12
             /\ ActionOrder[n] = "source rights" <=> n = 15
  BY <1>3, <1>4
<1>6. /\ 7 \in 1 .. 19 /\ 8 \in 1 .. 19 /\ 9 \in 1 .. 19 /\ 10 \in 1 .. 19
      /\ 11 \in 1 .. 19 /\ 12 \in 1 .. 19 /\ 15 \in 1 .. 19
  OBVIOUS
<1>7. Position("hold Do not contact") = 7
  <2>1. \A n \in 1 .. 19 : ActionOrder[n] = "hold Do not contact" <=> n = 7
    BY <1>5, Zenon
  <2> QED BY <1>2, <1>6, <2>1, Zenon
<1>8. Position("status Do not contact") = 8
  BY <1>2, <1>5, <1>6, Zenon
<1>9. Position("hold Identity disputed") = 9
  BY <1>2, <1>5, <1>6, Zenon
<1>10. Position("status Identity disputed") = 10
  BY <1>2, <1>5, <1>6, Zenon
<1>11. Position("hold Ownership stale") = 11
  BY <1>2, <1>5, <1>6, Zenon
<1>12. Position("hold Specialist review") = 12
  BY <1>2, <1>5, <1>6, Zenon
<1>13. Position("source rights") = 15
  BY <1>2, <1>5, <1>6, Zenon
<1> QED BY <1>7, <1>8, <1>9, <1>10, <1>11, <1>12, <1>13

\* The places of contact, identity and ownership come before the one of specialists.
LEMMA PlacesOfSafety ==
  /\ \A n \in {7, 8, 9, 10, 11} : n \in 7 .. 12 /\ n # 12
  /\ 12 \in 7 .. 12 /\ 15 # 12
OBVIOUS

\* What is recorded is one of the restrictions there are.
LEMMA RestrictionsAreKnown ==
  ASSUME NEW deal, IsDeal(deal)
  PROVE  /\ deal.restrictions \in Seq(Restriction)
         /\ \A n \in DOMAIN deal.restrictions :
              deal.restrictions[n] \in Restriction /\ n \in Nat
<1>1. deal.restrictions \in Seq(Restriction)
  BY DEF IsDeal
<1> QED BY <1>1

\* The code whose hold is recommended is one of the restrictions of the deal.
LEMMA HoldIsOfRestriction ==
  ASSUME NEW deal, IsDeal(deal), NEW e, Codes(deal) \cap DOMAIN HoldOf # {}
  PROVE  \E code \in Codes(deal) \cap DOMAIN HoldOf : RecommendedAction(deal, e) = HoldOf[code]
<1> DEFINE s == deal.restrictions
           holds == {n \in DOMAIN s : s[n].code \in DOMAIN HoldOf}
<1>1. s \in Seq(Restriction) /\ DOMAIN s \subseteq Nat
  BY DEF IsDeal
<1>2. \A n \in DOMAIN s : s[n].code \in Codes(deal)
  BY DEF Codes, Range
<1>3. holds # {}
  BY DEF Codes, Range
<1>4. Min(holds) \in holds
  <2>1. holds \subseteq Nat
    BY <1>1
  <2> HIDE DEF holds
  <2>2. \E m \in holds : \A n \in holds : m <= n
    BY <1>3, <2>1, LeastNat
  <2> QED BY <2>2 DEF Min
<1>5. RecommendedAction(deal, e) = HoldOf[s[Min(holds)].code]
  BY <1>3, Zenon DEF RecommendedAction
<1> QED BY <1>2, <1>4, <1>5

\* What is recommended for a deal that must not be contacted or is held, and for one
\* that only has a reason that speaks of safety.
LEMMA ActionOfSafety ==
  ASSUME NEW deal, IsDeal(deal), NEW e, NEW held \in BOOLEAN,
         held <=> {"Do not contact", "Identity disputed", "Ownership stale"}
                    \cap (Codes(deal) \cup {deal.owner}) # {},
         held \/ SpeaksOfSafety(deal)
  PROVE  LET n == Position(RecommendedAction(deal, e))
         IN  /\ n = 12 => RecommendedAction(deal, e) = "hold Specialist review"
             /\ IF held THEN n \in 7 .. 12 ELSE n \in {12, 15}
<1> DEFINE action == RecommendedAction(deal, e)
           n == Position(action)
           Fits(a, k) == /\ k = 12 => a = "hold Specialist review"
                         /\ IF held THEN k \in 7 .. 12 ELSE k \in {12, 15}
<1>1. DOMAIN HoldOf = {"Do not contact", "Identity disputed", "Ownership stale",
                       "Specialist review"}
  BY DEF HoldOf
<1>2. /\ HoldOf["Do not contact"] = "hold Do not contact"
      /\ HoldOf["Identity disputed"] = "hold Identity disputed"
      /\ HoldOf["Ownership stale"] = "hold Ownership stale"
      /\ HoldOf["Specialist review"] = "hold Specialist review"
  BY DEF HoldOf
<1> SUFFICES Fits(action, n)
  OBVIOUS
<1> HIDE DEF action
<1>3. CASE Codes(deal) \cap DOMAIN HoldOf # {}
  <2>1. PICK code \in Codes(deal) \cap DOMAIN HoldOf : action = HoldOf[code]
    BY <1>3, HoldIsOfRestriction DEF action
  <2>2. CASE code = "Specialist review"
    <3>1. action = "hold Specialist review" /\ n = 12
      BY <1>2, <2>1, <2>2, PositionsOfHolds
    <3> QED BY <3>1, PlacesOfSafety, Zenon
  <2>3. CASE code # "Specialist review"
    <3>1. held
      BY <1>1, <2>1, <2>3
    <3>2. n \in {7, 9, 11}
      BY <1>1, <1>2, <2>1, <2>3, PositionsOfHolds
    <3> QED BY <3>1, <3>2, PlacesOfSafety, Zenon
  <2> QED BY <2>2, <2>3
<1>4. CASE Codes(deal) \cap DOMAIN HoldOf = {}
  <2>1. {k \in DOMAIN deal.restrictions : deal.restrictions[k].code \in DOMAIN HoldOf} = {}
    BY <1>4 DEF Codes, Range
  <2>2. CASE held
    <3>1. deal.owner \in {"Do not contact", "Identity disputed"}
      BY <1>1, <1>4, <2>2, RulesAssumption DEF IsDeal, OwnerStatus, RestrictionCodes
    <3>2. action \in {"status Do not contact", "status Identity disputed"}
      BY <2>1, <3>1 DEF RecommendedAction, action
    <3>3. n \in {8, 10}
      BY <3>2, PositionsOfHolds
    <3> QED BY <2>2, <3>3, PlacesOfSafety, Zenon
  <2>3. CASE ~held
    <3>1. deal.owner \notin {"Do not contact", "Identity disputed"}
      BY <2>3
    <3>2. "Source restricted" \in Codes(deal)
      <4>1. PICK r \in Range(deal.restrictions) : r.grave
        BY <2>3 DEF SpeaksOfSafety
      <4>2. r \in Restriction
        BY <4>1, RestrictionsAreKnown, Zenon DEF Range
      <4>3. r.code \in Codes(deal) /\ r.code \in RestrictionCodes
        BY <4>2 DEF Codes, Restriction
      <4> QED BY <1>4, <4>3 DEF RestrictionCodes
    <3>3. action = "source rights"
      BY <2>1, <3>1, <3>2 DEF RecommendedAction, action
    <3>4. n = 15
      BY <3>3, PositionsOfHolds
    <3> QED BY <2>3, <3>4, PlacesOfSafety, Zenon
  <2> QED BY <2>2, <2>3
<1> QED BY <1>3, <1>4

\* Where an item of the queue stands: its priority says whether it is grave; a grave one
\* is compared by its recommended action, its date and its id.
IsRanked(x) ==
  LET q == x.result
      n == Position(q.action)
  IN  /\ IF IsGrave(x) THEN q.priority = 95 ELSE q.priority \in 0 .. 94
      /\ IsGrave(x) => /\ q.status = "Disqualified" /\ q.updated \in Int /\ q.id \in Int
                       /\ n = 12 => q.action = "hold Specialist review"
                       /\ IF IsHeldForSafety(x) THEN n \in 7 .. 12 ELSE n \in {12, 15}

\* Every item is ranked when the box is usable.
LEMMA ItemsAreRanked ==
  ASSUME RulesInv, rule = "queue", BoxIsUsable(input.box), NEW d \in DOMAIN input.deals
  PROVE  IsRanked(Item(input, d, now))
<1> DEFINE deal == input.deals[d]
           box == input.box
           context == input.contexts[d]
           x == Item(input, d, now)
           q == Qualify(deal, box, now, context)
           e == Evaluate(deal, box, now, context)
<1>1. IsDeal(deal) /\ IsBox(box)
  BY DEF RulesInv, IsQueueInput
<1>2. x.result = q /\ x.deal = deal
  BY DEF Item, Result
<1>3. /\ q.status = Status(deal, e, box) /\ q.action = RecommendedAction(deal, e)
      /\ q.compliance = Compliance(deal, Unreviewed(deal), IsDisqualified(deal, e), q.status)
      /\ q.updated = deal.updated /\ q.id = deal.id
  BY Zenon DEF Qualify, BoxIsUsable
<1>4. IF q.compliance \in Safety \/ SpeaksOfSafety(deal) THEN q.priority = 95
      ELSE q.priority \in 0 .. 94
  BY <1>1, PriorityIsOfSafety, Zenon
<1>5. q.updated \in Int /\ q.id \in Int
  BY <1>1, <1>3 DEF IsDeal
<1> DEFINE held == q.compliance \in Safety
           codes == Codes(deal) \cup {deal.owner}
<1>6. held <=> {"Do not contact", "Identity disputed", "Ownership stale"} \cap codes # {}
  <2>1. CASE "Do not contact" \in codes
    BY <1>3, <2>1 DEF Compliance, Safety
  <2>2. CASE "Do not contact" \notin codes /\ codes \cap {"Identity disputed", "Ownership stale"} # {}
    <3>1. q.compliance = "Legal hold"
      BY <1>3, <2>2 DEF Compliance
    <3> QED BY <2>2, <3>1 DEF Safety
  <2>3. CASE "Do not contact" \notin codes /\ codes \cap {"Identity disputed", "Ownership stale"} = {}
    <3>1. q.compliance \in
            {"Transaction specialist review", "Outreach blocked", "Offer blocked",
             "Clear for manual review", "Clear for research"}
      BY <1>3, <2>3 DEF Compliance
    <3> HIDE DEF q
    <3>2. ~held
      BY <3>1 DEF Safety
    <3> QED BY <2>3, <3>2
  <2> QED BY <2>1, <2>2, <2>3
<1> HIDE DEF q, x, e, box, context, deal
<1>7. held \/ SpeaksOfSafety(deal) => q.status = "Disqualified"
  <2> SUFFICES ASSUME held \/ SpeaksOfSafety(deal) PROVE q.status = "Disqualified"
    OBVIOUS
  <2>1. IsHeld(deal)
    <3>1. CASE SpeaksOfSafety(deal)
      BY <3>1 DEF SpeaksOfSafety, Range, IsHeld
    <3>2. CASE held
      <4>1. Codes(deal) # {} \/ deal.owner # None
        BY <1>6, <3>2, RulesAssumption DEF RestrictionCodes, HoldOf
      <4> QED BY <4>1 DEF IsHeld, Codes, Range
    <3> QED BY <3>1, <3>2
  <2>2. IsDisqualified(deal, e)
    BY <2>1 DEF IsDisqualified
  <2> QED BY <1>3, <2>2 DEF Status
<1>8. held \/ SpeaksOfSafety(deal) =>
        /\ Position(q.action) = 12 => q.action = "hold Specialist review"
        /\ IF held THEN Position(q.action) \in 7 .. 12 ELSE Position(q.action) \in {12, 15}
  <2> HIDE DEF held
  <2>1. held \in BOOLEAN
    BY DEF held
  <2>2. held <=> {"Do not contact", "Identity disputed", "Ownership stale"}
                   \cap (Codes(deal) \cup {deal.owner}) # {}
    BY <1>6
  <2> QED BY <1>1, <1>3, <2>1, <2>2, ActionOfSafety
<1>9. (IsHeldForSafety(x) <=> held) /\ (IsGrave(x) <=> held \/ SpeaksOfSafety(deal))
  BY <1>2, Zenon DEF IsHeldForSafety, IsGrave, held
<1>10. IsRanked(x)
  <2>1. IF IsGrave(x) THEN q.priority = 95 ELSE q.priority \in 0 .. 94
    BY <1>4, <1>9, Zenon
  <2>2. IsGrave(x) => /\ q.status = "Disqualified" /\ q.updated \in Int /\ q.id \in Int
                      /\ Position(q.action) = 12 => q.action = "hold Specialist review"
                      /\ IF IsHeldForSafety(x) THEN Position(q.action) \in 7 .. 12
                         ELSE Position(q.action) \in {12, 15}
    BY <1>5, <1>7, <1>8, <1>9, Zenon
  <2> QED BY <1>2, <2>1, <2>2, Zenon DEF IsRanked
<1> QED BY <1>10 DEF x

\* Grave items are compared by action, date and id.
LEMMA GraveAreCompared ==
  ASSUME NEW x, NEW y, IsRanked(x), IsRanked(y), IsGrave(x), IsGrave(y)
  PROVE  LET q == x.result
             r == y.result
             m == Position(q.action)
             n == Position(r.action)
         IN  /\ m \in Int /\ n \in Int
             /\ q.updated \in Int /\ r.updated \in Int /\ q.id \in Int /\ r.id \in Int
             /\ IsBefore(x, y) <=>
                  m < n \/ (m = n /\ (q.updated < r.updated
                                      \/ (q.updated = r.updated /\ q.id < r.id)))
<1> DEFINE q == x.result
           r == y.result
           m == Position(q.action)
           n == Position(r.action)
<1>1. /\ q.priority = 95 /\ r.priority = 95
      /\ q.status = "Disqualified" /\ r.status = "Disqualified"
      /\ q.updated \in Int /\ r.updated \in Int /\ q.id \in Int /\ r.id \in Int
  BY DEF IsRanked
<1>2. m \in Int /\ n \in Int
  <2>1. (m \in 7 .. 12 \/ m \in {12, 15}) /\ (n \in 7 .. 12 \/ n \in {12, 15})
    BY Zenon DEF IsRanked
  <2> QED BY <2>1
<1>3. IsBefore(x, y) <=> Lexicographic(<<m, q.updated, q.id>>, <<n, r.updated, r.id>>)
  BY <1>1, Zenon DEF IsBefore, ComesBefore
<1> HIDE DEF q, r, m, n
<1>4. IsBefore(x, y) <=>
        m < n \/ (m = n /\ (q.updated < r.updated \/ (q.updated = r.updated /\ q.id < r.id)))
  BY <1>1, <1>2, <1>3, LexicographicOfThree
<1> QED BY <1>1, <1>2, <1>4 DEF q, r, m, n

\* Priority decides first.
LEMMA HigherIsFirst ==
  ASSUME NEW x, NEW y, x.result.priority \in Int, y.result.priority \in Int,
         x.result.priority > y.result.priority
  PROVE  IsFirst(x, y)
BY DEF IsFirst, IsBefore, ComesBefore

\* Whatever has been recorded of the deals, those that must not be contacted, are held
\* or have a reason on record that speaks of safety come before all others: their
\* priority is higher, so that no score decides.  Among them those that must not be
\* contacted or are held come before those that only have such a reason, unless both
\* wait for a specialist; and no circle of the order leads through one of them
\* (compareResearchItems).
THEOREM HeldDealsComeFirst == Spec => []SafetyWorkComesFirst
<1>1. RulesInv => SafetyWorkComesFirst
  <2> SUFFICES ASSUME RulesInv, rule = "queue", BoxIsUsable(input.box)
               PROVE  SafetyWorkComesFirst
    BY DEF SafetyWorkComesFirst
  <2> DEFINE items == {Item(input, d, now) : d \in DOMAIN input.deals}
  <2>1. \A x \in items : IsRanked(x)
    BY ItemsAreRanked
  <2> HIDE DEF items
  <2>2. \A x \in items : /\ x.result.priority \in Int /\ x.result.priority <= 95
                         /\ IsGrave(x) <=> x.result.priority = 95
    <3> TAKE x \in items
    <3>1. IF IsGrave(x) THEN x.result.priority = 95 ELSE x.result.priority \in 0 .. 94
      BY <2>1, Zenon DEF IsRanked
    <3> QED BY <3>1
  <2>3. ASSUME NEW x \in items, NEW y \in items, IsGrave(x), ~IsGrave(y)
        PROVE  IsFirst(x, y)
    <3>1. x.result.priority > y.result.priority
      BY <2>2, <2>3
    <3> QED BY <2>2, <3>1, HigherIsFirst
  <2>4. ASSUME NEW x \in items, NEW y \in items, IsHeldForSafety(x), ~IsHeldForSafety(y)
        PROVE  IsFirst(x, y) \/ (BothAreForSpecialists(x, y) /\ SpeaksOfSafety(y.deal))
    <3>1. IsGrave(x) /\ (IsGrave(y) <=> SpeaksOfSafety(y.deal))
      BY <2>4 DEF IsGrave
    <3>2. CASE ~IsGrave(y)
      BY <2>3, <3>1, <3>2
    <3>3. CASE IsGrave(y)
      <4> DEFINE m == Position(x.result.action)
                 n == Position(y.result.action)
      <4>1. m \in 7 .. 12 /\ n \in {12, 15}
        BY <2>1, <2>4, <3>1, <3>3, Zenon DEF IsRanked
      <4>2. /\ m = 12 => x.result.action = "hold Specialist review"
            /\ n = 12 => y.result.action = "hold Specialist review"
        BY <2>1, <3>1, <3>3, Zenon DEF IsRanked
      <4> HIDE DEF m, n
      <4>3. CASE m = n
        <5>1. m = 12 /\ n = 12
          BY <4>1, <4>3
        <5> QED BY <3>1, <3>3, <4>2, <5>1, Zenon DEF BothAreForSpecialists
      <4>4. CASE m # n
        <5>1. m < n /\ ~(n < m)
          BY <4>1, <4>4
        <5>2. IsBefore(x, y) /\ ~IsBefore(y, x)
          BY <2>1, <3>1, <3>3, <4>4, <5>1, GraveAreCompared DEF m, n
        <5> QED BY <5>2 DEF IsFirst
      <4> QED BY <4>3, <4>4
    <3> QED BY <3>2, <3>3
  <2>5. ASSUME NEW x \in items, NEW y \in items, NEW z \in items,
               IsGrave(x), IsBefore(x, y), IsBefore(y, z)
        PROVE  IsBefore(x, z)
    <3>1. CASE ~IsGrave(z)
      BY <2>3, <2>5, <3>1 DEF IsFirst
    <3>2. CASE IsGrave(z) /\ ~IsGrave(y)
      <4>1. IsFirst(z, y)
        BY <2>3, <3>2
      <4> QED BY <2>5, <4>1 DEF IsFirst
    <3>3. CASE IsGrave(z) /\ IsGrave(y)
      BY <2>1, <2>5, <3>3, GraveAreCompared
    <3> QED BY <3>1, <3>2, <3>3
  <2> QED BY <2>3, <2>4, <2>5, Zenon DEF SafetyWorkComesFirst, items
<1> QED BY <1>1, InputsStay, PTL

-----------------------------------------------------------------------------
(* The gate.                                                               *)

\* Nothing is wrong with the snapshot, whatever the snapshot.
LEMMA NothingIsWrong ==
  ASSUME NEW s, Authorized(s)
  PROVE  /\ s.state = "READY" /\ ~s.globalKill /\ ~s.channelKill /\ ~s.outcomeUnknown
         /\ s.policy.hash = s.envelope.hash /\ s.policy.result # "DENY"
         /\ \A ref \in s.envelope.evidence : IsEvidenceCurrent(ref, s.evidence, s.now)
         /\ s.policy.result = "REVIEW_REQUIRED" =>
              \A req \in s.policy.required : RequirementReasons(s, req) = {}
<1>1. /\ StateReasons(s) = {} /\ AlignmentReasons(s) = {} /\ PolicyReasons(s) = {}
      /\ EvidenceReasons(s) = {} /\ ApprovalReasons(s) = {}
  BY DEF Authorized, Reasons
<1>2. \A condition, code : Code(condition, code) = {} => ~condition
  BY DEF Code
<1>3. s.state = "READY" /\ ~s.globalKill /\ ~s.channelKill /\ ~s.outcomeUnknown
  BY <1>1 DEF StateReasons, Code
<1>4. s.policy.hash = s.envelope.hash
  BY <1>1 DEF AlignmentReasons, Code
<1>5. s.policy.result # "DENY"
  BY <1>1 DEF PolicyReasons, Code
<1>6. \A ref \in s.envelope.evidence : IsEvidenceCurrent(ref, s.evidence, s.now)
  BY <1>1, <1>2 DEF EvidenceReasons
<1>7. s.policy.result = "REVIEW_REQUIRED" =>
        \A req \in s.policy.required : RequirementReasons(s, req) = {}
  BY <1>1 DEF ApprovalReasons
<1> QED BY <1>3, <1>4, <1>5, <1>6, <1>7

\* Who is counted for a requirement may approve for it, of this very envelope.
LEMMA CountedApproversStand ==
  ASSUME NEW s, NEW req, RequirementReasons(s, req) = {},
         s.now \in Int, \A actor \in DOMAIN s.authorities : s.authorities[actor].from \in Int
  PROVE  Approvers(s, req) \subseteq {a \in DOMAIN s.authorities : Stands(s, req, a)}
<1> SUFFICES ASSUME NEW r \in s.requests, NEW d \in Approvals(r),
                    DecisionReason(s, req, d) = "none"
             PROVE  d.actor \in DOMAIN s.authorities /\ Stands(s, req, d.actor)
  BY DEF Approvers
<1> DEFINE reasons == RequestReasons(s, r) \cup
                        ({DecisionReason(s, req, x) : x \in Approvals(r)} \ {"none"})
<1>1. RequestReasons(s, r) = {}
  <2>1. reasons \in {RequestReasons(s, q) \cup
                       ({DecisionReason(s, req, x) : x \in Approvals(q)} \ {"none"}) :
                       q \in s.requests}
    BY Zenon
  <2> HIDE DEF reasons
  <2>2. reasons \subseteq RequirementReasons(s, req)
    BY <2>1, Zenon DEF RequirementReasons
  <2>3. reasons = {}
    BY <2>2
  <2> QED BY <2>3 DEF reasons
<1> HIDE DEF reasons
<1>2. /\ r.hash = s.envelope.hash /\ r.action = s.action /\ ~Elapsed(r.expires, s.now)
  BY <1>1 DEF RequestReasons, Code
<1>3. d \in r.decisions /\ d.decision = "APPROVE" /\ ~Elapsed(d.expires, s.now)
  BY DEF Approvals, DecisionReason
<1>4. d.actor \in DOMAIN s.authorities
  BY DEF DecisionReason
<1> DEFINE a == s.authorities[d.actor]
<1>5. /\ a.org = s.org /\ a.role = req.role /\ ~a.revoked
      /\ req.scope # "none" => a.scope \in {req.scope, "GLOBAL", "ALL"}
      /\ ~(a.from > s.now) /\ ~Elapsed(a.until, s.now)
      /\ req.separate => d.actor # s.envelope.requester
  BY <1>4 DEF DecisionReason
<1>6. a.from <= s.now
  BY <1>4, <1>5
<1> QED BY <1>2, <1>3, <1>4, <1>5, <1>6 DEF Stands

\* An action is executed only when it may be: in every state of requests,
\* authorities, evidence and switches (evaluateExecutionAuthorization).
THEOREM OnlyTheAuthorizedIsExecuted == Spec => []GateIsSound
<1>1. RulesInv => GateIsSound
  <2> SUFFICES ASSUME RulesInv, rule = "gate" PROVE GateIsSound
    BY DEF GateIsSound
  <2> DEFINE s == GateSnapshot
  <2>1. IsGateInput(input) /\ now \in Nat
    BY DEF RulesInv
  <2>2. /\ s.now \in Int /\ s.authorities = input.authorities /\ s.policy = input.policy
    BY <2>1 DEF GateSnapshot, IsGateInput
  <2> HIDE DEF s
  <2> SUFFICES ASSUME Authorized(s)
               PROVE  /\ s.state = "READY" /\ ~s.globalKill /\ ~s.channelKill
                      /\ ~s.outcomeUnknown
                      /\ s.policy.hash = s.envelope.hash /\ s.policy.result # "DENY"
                      /\ \A ref \in s.envelope.evidence : IsSupported(s, ref)
                      /\ s.policy.result = "REVIEW_REQUIRED" => \A req \in s.policy.required :
                           Cardinality({a \in DOMAIN s.authorities : Stands(s, req, a)})
                             >= req.minimum
    BY DEF GateIsSound, s
  <2>3. ASSUME NEW ref \in s.envelope.evidence PROVE IsSupported(s, ref)
    <3>1. IsEvidenceCurrent(ref, s.evidence, s.now)
      BY <2>3, NothingIsWrong
    <3> QED BY <3>1 DEF IsEvidenceCurrent, IsListedCurrent, IsEnteredCurrent, IsSupported
  <2>4. ASSUME s.policy.result = "REVIEW_REQUIRED", NEW req \in s.policy.required
        PROVE  Cardinality({a \in DOMAIN s.authorities : Stands(s, req, a)}) >= req.minimum
    <3> DEFINE standing == {a \in DOMAIN s.authorities : Stands(s, req, a)}
    <3>1. RequirementReasons(s, req) = {}
      BY <2>4, NothingIsWrong
    <3>2. \A actor \in DOMAIN s.authorities : s.authorities[actor].from \in Int
      BY <2>1, <2>2 DEF IsGateInput
    <3>3. Approvers(s, req) \subseteq standing
      BY <2>2, <3>1, <3>2, CountedApproversStand
    <3>4. IsFiniteSet(standing)
      <4>1. IsFiniteSet(DOMAIN s.authorities)
        BY <2>1, <2>2 DEF IsGateInput
      <4> QED BY <4>1, FS_Subset
    <3> HIDE DEF standing
    <3>5. /\ Cardinality(Approvers(s, req)) \in Nat /\ Cardinality(standing) \in Nat
          /\ Cardinality(Approvers(s, req)) <= Cardinality(standing)
      BY <3>3, <3>4, FS_Subset, FS_CardinalityType
    <3>6. ~(Cardinality(Approvers(s, req)) < req.minimum)
      <4> DEFINE missing == Code(Cardinality(Approvers(s, req)) < req.minimum,
                                 "MISSING_APPROVAL")
      <4>1. missing \subseteq RequirementReasons(s, req)
        <5> DEFINE others ==
              UNION {RequestReasons(s, r) \cup
                     ({DecisionReason(s, req, d) : d \in Approvals(r)} \ {"none"}) :
                     r \in s.requests}
        <5>1. RequirementReasons(s, req) = missing \cup others
          BY Zenon DEF RequirementReasons
        <5> HIDE DEF others, missing
        <5> QED BY <5>1
      <4>2. missing = {}
        BY <3>1, <4>1
      <4> QED BY <4>2 DEF Code
    <3>7. req.minimum \in Nat
      BY <2>1, <2>2 DEF IsGateInput
    <3>8. Cardinality(standing) >= req.minimum
      BY <3>5, <3>6, <3>7
    <3> QED BY <3>8 DEF standing
  <2> QED BY <2>3, <2>4, NothingIsWrong
<1> QED BY <1>1, InputsStay, PTL

-----------------------------------------------------------------------------
(* The schedule.                                                           *)

\* The schedule is due at one hour, the first at or after its time.
LEMMA DueAtOneHour ==
  ASSUME NEW policy, policy.hour \in 0 .. 23, policy.minute \in 0 .. 59,
         policy.enabled \in BOOLEAN, NEW hour \in Nat
  PROVE  /\ IsDue(policy, hour) <=> policy.enabled /\ hour = FirstHour(policy)
         /\ FirstHour(policy) \in 0 .. 24
<1> DEFINE h == policy.hour
           m == policy.minute
<1>1. h \in 0 .. 23 /\ m \in 0 .. 59
  OBVIOUS
<1>2. FirstHour(policy) = (h * 60 + m + 59) \div 60
  BY DEF FirstHour
<1>3. IsDue(policy, hour) <=> policy.enabled /\ hour * 60 \in (h * 60 + m) .. (h * 60 + m + 59)
  BY DEF IsDue
<1> HIDE DEF h, m
<1>4. (h * 60 + m + 59) \div 60 = (IF m = 0 THEN h ELSE h + 1)
  BY <1>1
<1>5. hour * 60 \in (h * 60 + m) .. (h * 60 + m + 59) <=> hour = (IF m = 0 THEN h ELSE h + 1)
  BY <1>1
<1> QED BY <1>1, <1>2, <1>3, <1>4, <1>5

\* The local hours of a day: all of them, save that one is skipped in spring.
LEMMA HoursOfADay ==
  ASSUME NEW kind \in {"plain", "spring", "autumn"}, NEW hour \in 0 .. 24
  PROVE  /\ \A n \in 1 .. Len(HoursOf(kind)) : HoursOf(kind)[n] \in Nat
         /\ (\E n \in 1 .. Len(HoursOf(kind)) : HoursOf(kind)[n] = hour)
              <=> hour < 24 /\ ~(kind = "spring" /\ hour = 2)
<1> DEFINE hours == HoursOf(kind)
<1>1. CASE kind = "spring"
  <2>1. hours = [n \in 1 .. 23 |-> IF n <= 2 THEN n - 1 ELSE n]
    BY <1>1 DEF HoursOf
  <2> HIDE DEF hours
  <2>2. Len(hours) = 23 /\ \A n \in 1 .. 23 : hours[n] = IF n <= 2 THEN n - 1 ELSE n
    BY <2>1
  <2>3. ASSUME hour < 24, hour # 2 PROVE \E n \in 1 .. 23 : hours[n] = hour
    <3>1. CASE hour < 2
      BY <2>2, <3>1
    <3>2. CASE hour > 2
      BY <2>2, <2>3, <3>2
    <3> QED BY <2>3, <3>1, <3>2
  <2>4. \A n \in 1 .. 23 : hours[n] \in Nat /\ hours[n] < 24 /\ hours[n] # 2
    BY <2>2
  <2> QED BY <1>1, <2>2, <2>3, <2>4 DEF hours
<1>2. CASE kind = "autumn"
  <2>1. hours = [n \in 1 .. 25 |-> IF n <= 2 THEN n - 1 ELSE n - 2]
    BY <1>2 DEF HoursOf
  <2> HIDE DEF hours
  <2>2. Len(hours) = 25 /\ \A n \in 1 .. 25 : hours[n] = IF n <= 2 THEN n - 1 ELSE n - 2
    BY <2>1
  <2>3. ASSUME hour < 24 PROVE \E n \in 1 .. 25 : hours[n] = hour
    <3>1. CASE hour = 0
      BY <2>2, <3>1
    <3>2. CASE hour > 0
      <4>1. hour + 2 \in 1 .. 25 /\ ~(hour + 2 <= 2)
        BY <2>3, <3>2
      <4> QED BY <2>2, <4>1
    <3> QED BY <3>1, <3>2
  <2>4. \A n \in 1 .. 25 : hours[n] \in Nat /\ hours[n] < 24
    BY <2>2
  <2> QED BY <1>2, <2>2, <2>3, <2>4 DEF hours
<1>3. CASE kind = "plain"
  <2>1. hours = [n \in 1 .. 24 |-> n - 1]
    BY <1>3 DEF HoursOf
  <2> HIDE DEF hours
  <2>2. Len(hours) = 24 /\ \A n \in 1 .. 24 : hours[n] = n - 1
    BY <2>1
  <2>3. ASSUME hour < 24 PROVE \E n \in 1 .. 24 : hours[n] = hour
    <3>1. hour + 1 \in 1 .. 24 /\ hours[hour + 1] = hour
      BY <2>2, <2>3
    <3> QED BY <3>1
  <2>4. \A n \in 1 .. 24 : hours[n] \in Nat /\ hours[n] < 24
    BY <2>2
  <2> QED BY <1>3, <2>2, <2>3, <2>4 DEF hours
<1> QED BY <1>1, <1>2, <1>3

\* A scheduled policy runs once on each day that has an hour for it, for every time
\* it may be set to (runDuePolicies).
THEOREM EachDayRunsOnce == Spec => []DailyRunHappensOnce
<1>1. RulesInv => DailyRunHappensOnce
  <2> SUFFICES ASSUME RulesInv, rule = "clock", DayIsOver
               PROVE  Cardinality(input.runs) =
                        IF /\ input.policy.enabled /\ FirstHour(input.policy) < 24
                           /\ ~(input.kind = "spring" /\ FirstHour(input.policy) = 2)
                        THEN 1 ELSE 0
    BY DEF DailyRunHappensOnce
  <2> DEFINE policy == input.policy
             hours == HoursOf(input.kind)
             key == ScheduleKey(policy, now)
             runs == {k \in {key} : \E n \in 1 .. Len(hours) : IsDue(policy, hours[n])}
  <2>1. input.runs = runs
    BY DEF RulesInv, ClockInv, DayIsOver
  <2>2. /\ policy.hour \in 0 .. 23 /\ policy.minute \in 0 .. 59
        /\ policy.enabled \in BOOLEAN /\ input.kind \in {"plain", "spring", "autumn"}
    BY DEF RulesInv, ClockInv, Schedule
  <2> HIDE DEF policy, hours, key
  <2>3. FirstHour(policy) \in 0 .. 24
    BY <2>2, DueAtOneHour, 0 \in Nat
  <2>4. (\E n \in 1 .. Len(hours) : IsDue(policy, hours[n]))
           <=> /\ policy.enabled /\ FirstHour(policy) < 24
               /\ ~(input.kind = "spring" /\ FirstHour(policy) = 2)
    <3>1. \A n \in 1 .. Len(hours) :
            IsDue(policy, hours[n]) <=> policy.enabled /\ hours[n] = FirstHour(policy)
      BY <2>2, <2>3, HoursOfADay, DueAtOneHour DEF hours
    <3>2. (\E n \in 1 .. Len(hours) : hours[n] = FirstHour(policy))
             <=> FirstHour(policy) < 24 /\ ~(input.kind = "spring" /\ FirstHour(policy) = 2)
      BY <2>2, <2>3, HoursOfADay DEF hours
    <3> QED BY <3>1, <3>2
  <2>5. CASE \E n \in 1 .. Len(hours) : IsDue(policy, hours[n])
    <3>1. runs = {key}
      BY <2>5
    <3>2. Cardinality(runs) = 1
      BY <3>1, FS_Singleton, Zenon
    <3> QED BY <2>1, <2>4, <2>5, <3>2 DEF policy
  <2>6. CASE ~\E n \in 1 .. Len(hours) : IsDue(policy, hours[n])
    <3>1. runs = {}
      BY <2>6
    <3>2. Cardinality(runs) = 0
      BY <3>1, FS_EmptySet, Zenon
    <3> QED BY <2>1, <2>4, <2>6, <3>2 DEF policy
  <2> QED BY <2>5, <2>6
<1> QED BY <1>1, InputsStay, PTL

-----------------------------------------------------------------------------
(* The windows.                                                            *)

\* Of three days that follow each other one is no day of a weekend.
LEMMA WeekendsAreShort ==
  ASSUME NEW day \in Nat
  PROVE  \E d \in day .. day + 2 : IsWeekday(d)
<1> DEFINE r == day % 7
<1>1. r \in 0 .. 6 /\ (day + 1) % 7 = (IF r = 6 THEN 0 ELSE r + 1)
      /\ (day + 2) % 7 = (IF r >= 5 THEN r - 5 ELSE r + 2)
  OBVIOUS
<1> HIDE DEF r
<1>2. r \notin {0, 6} \/ (day + 1) % 7 \notin {0, 6} \/ (day + 2) % 7 \notin {0, 6}
  BY <1>1
<1>3. day \in day .. day + 2 /\ day + 1 \in day .. day + 2 /\ day + 2 \in day .. day + 2
  OBVIOUS
<1> QED BY <1>2, <1>3 DEF IsWeekday, r

\* A finite set of days has a last one.
LEMMA LastDayExists ==
  ASSUME NEW S \in SUBSET Nat, IsFiniteSet(S), S # {}
  PROVE  Max(S) \in S /\ \A d \in S : d <= Max(S)
<1>0. PICK n \in Nat : \E f \in [1 .. n -> S] : \A d \in S : \E m \in 1 .. n : f[m] = d
  BY FS_NatSurjection DEF ExistsSurjection, Surjection
<1>1. PICK f \in [1 .. n -> S] : \A d \in S : \E m \in 1 .. n : f[m] = d
  BY <1>0
<1> DEFINE Bounds == {b \in Nat : \A d \in S : d <= b}
<1>2. Bounds # {}
  <2> DEFINE Unbounded == {k \in 0 .. n : \A b \in Nat : \E m \in 1 .. k : f[m] > b}
  <2>1. Unbounded = {}
    <3> SUFFICES ASSUME Unbounded # {} PROVE FALSE
      OBVIOUS
    <3>1. PICK k \in Unbounded : \A l \in Unbounded : k <= l
      <4>1. Unbounded \subseteq Nat
        OBVIOUS
      <4> HIDE DEF Unbounded
      <4> QED BY <4>1, LeastNat
    <3>2. k # 0
      BY <3>1, 0 \in Nat
    <3>3. k - 1 \in 0 .. n /\ k - 1 \notin Unbounded
      <4>1. k \in 0 .. n
        BY <3>1
      <4>2. k - 1 \in 0 .. n /\ ~(k <= k - 1)
        BY <3>2, <4>1
      <4> HIDE DEF Unbounded
      <4> QED BY <3>1, <4>2
    <3>4. PICK b \in Nat : \A m \in 1 .. (k - 1) : ~(f[m] > b)
      BY <3>3
    <3>5. k \in 1 .. n /\ \A m \in 1 .. n : f[m] \in Nat
      <4>1. k \in 0 .. n
        BY <3>1
      <4> HIDE DEF Unbounded, Bounds
      <4>2. k \in 1 .. n
        BY <3>2, <4>1
      <4>3. \A m \in 1 .. n : f[m] \in S
        OBVIOUS
      <4> QED BY <4>2, <4>3
    <3> HIDE DEF Unbounded, Bounds
    <3> DEFINE c == IF f[k] > b THEN f[k] ELSE b
    <3>6. c \in Nat /\ c >= b /\ c >= f[k]
      BY <3>5
    <3> HIDE DEF c
    <3>7. \A m \in 1 .. k : ~(f[m] > c)
      <4> TAKE m \in 1 .. k
      <4>1. m \in 1 .. n /\ (m = k \/ m \in 1 .. (k - 1))
        BY <3>5
      <4> QED BY <3>4, <3>5, <3>6, <4>1
    <3> QED BY <3>1, <3>6, <3>7 DEF Unbounded
  <2>2. n \in 0 .. n
    OBVIOUS
  <2>3. PICK b \in Nat : \A m \in 1 .. n : ~(f[m] > b)
    BY <2>1, <2>2
  <2>4. \A d \in S : d <= b
    <3> TAKE d \in S
    <3>1. PICK m \in 1 .. n : f[m] = d
      BY <1>1
    <3> QED BY <2>3, <3>1
  <2> QED BY <2>4
<1>3. PICK b \in Bounds : \A c \in Bounds : b <= c
  <2>1. Bounds \subseteq Nat
    OBVIOUS
  <2> HIDE DEF Bounds
  <2> QED BY <1>2, <2>1, LeastNat
<1>4. b \in S
  <2> SUFFICES ASSUME b \notin S PROVE FALSE
    OBVIOUS
  <2>1. PICK d \in S : TRUE
    OBVIOUS
  <2>2. b # 0
    BY <1>3, <2>1
  <2>3. \A x \in S : x <= b - 1
    BY <1>3
  <2>4. b - 1 \in Bounds
    BY <1>3, <2>2, <2>3
  <2> QED BY <1>3, <2>4
<1>5. \E x \in S : \A y \in S : x >= y
  BY <1>3, <1>4
<1>6. Max(S) \in S /\ \A y \in S : Max(S) >= y
  BY <1>5, Zenon DEF Max
<1> QED BY <1>6

\* The cursor comes to the next business day.
LEMMA NextIsABusinessDay ==
  ASSUME NEW day \in Nat, NEW holidays \in Calendar
  PROVE  LET next == NextBusinessDay(day, holidays)
         IN  next \in Nat /\ next > day /\ IsBusinessDay(next, holidays)
<1> DEFINE days == {day} \cup holidays
           last == Max(days)
<1>1. days \in SUBSET Nat /\ IsFiniteSet(days)
  BY FS_AddElement DEF Calendar
<1>2. last \in Nat /\ last >= day /\ \A h \in holidays : h <= last
  <2>1. days # {}
    OBVIOUS
  <2>2. last \in days /\ \A d \in days : d <= last
    BY <1>1, <2>1, LastDayExists
  <2> QED BY <1>1, <2>2
<1> HIDE DEF last
<1> DEFINE Free == {d \in Nat : d > day /\ IsBusinessDay(d, holidays)}
<1>3. PICK late \in last + 1 .. last + 3 : IsWeekday(late)
  <2>1. last + 1 \in Nat /\ (last + 1) + 2 = last + 3
    BY <1>2
  <2> QED BY <2>1, WeekendsAreShort
<1>4. late \in Free
  BY <1>2, <1>3 DEF IsBusinessDay
<1>5. PICK first \in Free : \A d \in Free : first <= d
  <2>1. Free \subseteq Nat /\ Free # {}
    BY <1>4
  <2> HIDE DEF Free
  <2> QED BY <2>1, LeastNat
<1>6. /\ first \in day + 1 .. last + 3 /\ IsBusinessDay(first, holidays)
      /\ \A between \in day + 1 .. first - 1 : ~IsBusinessDay(between, holidays)
  <2>1. first \in day + 1 .. last + 3
    BY <1>2, <1>3, <1>4, <1>5
  <2>2. ASSUME NEW between \in day + 1 .. first - 1, IsBusinessDay(between, holidays)
        PROVE  FALSE
    <3>1. between \in Free /\ between < first
      BY <2>1, <2>2
    <3> QED BY <1>5, <3>1
  <2> QED BY <1>5, <2>1, <2>2
<1>7. /\ NextBusinessDay(day, holidays) \in day + 1 .. last + 3
      /\ IsBusinessDay(NextBusinessDay(day, holidays), holidays)
  BY <1>6, Zenon DEF NextBusinessDay, last
<1> QED BY <1>2, <1>7

\* Three business days after a day: the cursor has come to one three times.
LEMMA ThirdBusinessDay ==
  ASSUME NEW start, NEW holidays
  PROVE  LET Next1(day) == NextBusinessDay(day, holidays)
         IN  AddBusinessDays(start, 3, holidays) = Next1(Next1(Next1(start)))
<1> DEFINE Next1(day) == NextBusinessDay(day, holidays)
           G(g) == [n \in 0 .. 3 |-> IF n = 0 THEN start ELSE Next1(g[n - 1])]
           end == CHOOSE g : g = G(g)
           third == Next1(Next1(Next1(start)))
<1>1. AddBusinessDays(start, 3, holidays) = end[3]
  BY Zenon DEF AddBusinessDays
<1> HIDE DEF Next1
<1>2. \E g : g = G(g)
  <2> DEFINE g == [n \in 0 .. 3 |-> IF n = 0 THEN start ELSE IF n = 1 THEN Next1(start)
                                    ELSE IF n = 2 THEN Next1(Next1(start)) ELSE third]
  <2>1. g[0] = start /\ g[1] = Next1(start) /\ g[2] = Next1(Next1(start)) /\ g[3] = third
    OBVIOUS
  <2>2. g = [n \in 0 .. 3 |-> g[n]]
    OBVIOUS
  <2> HIDE DEF g
  <2>3. \A n \in 0 .. 3 : g[n] = IF n = 0 THEN start ELSE Next1(g[n - 1])
    <3> TAKE n \in 0 .. 3
    <3>1. n = 0 \/ n = 1 \/ n = 2 \/ n = 3
      OBVIOUS
    <3> QED BY <2>1, <3>1
  <2>4. g = G(g)
    BY <2>2, <2>3
  <2> QED BY <2>4
<1>3. end = G(end)
  <2> HIDE DEF G
  <2> QED BY <1>2, Zenon
<1> HIDE DEF end
<1>4. end[0] = start /\ end[1] = Next1(end[0]) /\ end[2] = Next1(end[1])
      /\ end[3] = Next1(end[2])
  <2>1. \A n \in 0 .. 3 : end[n] = IF n = 0 THEN start ELSE Next1(end[n - 1])
    BY <1>3
  <2> HIDE DEF G
  <2>2. end[0] = start
    BY <2>1
  <2>3. end[1] = Next1(end[1 - 1]) /\ end[2] = Next1(end[2 - 1]) /\ end[3] = Next1(end[3 - 1])
    BY <2>1
  <2>4. 1 - 1 = 0 /\ 2 - 1 = 1 /\ 3 - 1 = 2
    OBVIOUS
  <2> QED BY <2>2, <2>3, <2>4
<1>5. AddBusinessDays(start, 3, holidays) = third
  BY <1>1, <1>4
<1> QED BY <1>5 DEF Next1

\* A window that is ready has elapsed, whatever the calendar.
LEMMA ReadyHasElapsed ==
  ASSUME NEW c \in Contract, NEW today \in Nat, WindowIsReady(c, today)
  PROVE  /\ c.start # NoDay /\ c.verified /\ c.attorney
         /\ Cardinality({d \in c.start + 1 .. today - 1 : IsBusinessDay(d, c.holidays)}) >= 3
<1> DEFINE first == NextBusinessDay(c.start, c.holidays)
           second == NextBusinessDay(first, c.holidays)
           third == NextBusinessDay(second, c.holidays)
           elapsed == {d \in c.start + 1 .. today - 1 : IsBusinessDay(d, c.holidays)}
<1>1. /\ c.start # NoDay /\ c.verified /\ c.attorney
      /\ c.start \in Nat /\ c.holidays \in Calendar
  BY DEF WindowIsReady, Contract
<1>2. WindowEnd(c) = third
  BY <1>1, ThirdBusinessDay DEF WindowEnd
<1>3. first \in Nat /\ first > c.start /\ IsBusinessDay(first, c.holidays)
  BY <1>1, NextIsABusinessDay
<1>4. second \in Nat /\ second > first /\ IsBusinessDay(second, c.holidays)
  BY <1>1, <1>3, NextIsABusinessDay
<1>5. third \in Nat /\ third > second /\ IsBusinessDay(third, c.holidays)
  BY <1>1, <1>4, NextIsABusinessDay
<1>6. third < today
  BY <1>2, <1>5 DEF WindowIsReady, WindowIsOpen
<1> HIDE DEF first, second, third
<1>7. {first, second, third} \subseteq elapsed
  BY <1>1, <1>3, <1>4, <1>5, <1>6
<1>8. IsFiniteSet(elapsed)
  <2>1. c.start + 1 \in Int /\ today - 1 \in Int
    BY <1>1
  <2>2. IsFiniteSet(c.start + 1 .. today - 1)
    BY <2>1, FS_Interval
  <2> QED BY <2>2, FS_Subset
<1> HIDE DEF elapsed
<1>9. Cardinality({first, second, third}) = 3
  <2>1. IsFiniteSet({first}) /\ Cardinality({first}) = 1
    BY FS_Singleton
  <2>2. second \notin {first} /\ {first, second} = {first} \cup {second}
    BY <1>3, <1>4
  <2>3. IsFiniteSet({first} \cup {second}) /\ Cardinality({first} \cup {second}) = 2
    BY <2>1, <2>2, FS_AddElement
  <2>4. third \notin {first} \cup {second}
        /\ {first, second, third} = ({first} \cup {second}) \cup {third}
    BY <1>3, <1>4, <1>5
  <2>5. Cardinality(({first} \cup {second}) \cup {third}) = 3
    BY <2>3, <2>4, FS_AddElement
  <2> QED BY <2>4, <2>5, Zenon
<1>10. Cardinality(elapsed) \in Nat /\ Cardinality({first, second, third}) <= Cardinality(elapsed)
  BY <1>7, <1>8, FS_Subset, FS_CardinalityType
<1>11. Cardinality(elapsed) >= 3
  BY <1>9, <1>10
<1> QED BY <1>1, <1>11 DEF elapsed

\* Whatever calendar has been verified and whenever the contracts were dated: both
\* windows have elapsed before an assignment in Rhode Island is marketed.
THEOREM NoWindowIsCutShort == Spec => []WindowsElapseFirst
<1>1. RulesInv => WindowsElapseFirst
  <2> SUFFICES ASSUME RulesInv, rule = "window" PROVE WindowsElapseFirst
    BY DEF WindowsElapseFirst
  <2>1. input.seller \in Contract /\ input.assignee \in Contract /\ now \in Nat
    BY DEF RulesInv, IsWindowInput
  <2>2. \A c \in {input.seller, input.assignee} : WindowIsReady(c, now) => HasElapsed(c)
    BY <2>1, ReadyHasElapsed DEF HasElapsed
  <2>3. MarketingIsReady(input.deal, input.seller, input.assignee, now)
          /\ input.deal.state = "RI" =>
          WindowIsReady(input.seller, now) /\ WindowIsReady(input.assignee, now)
    BY DEF MarketingIsReady
  <2> QED BY <2>2, <2>3 DEF WindowsElapseFirst
<1> QED BY <1>1, InputsStay, PTL

-----------------------------------------------------------------------------
(* The pages of a retrieval.                                               *)

SeenBy(r) == ToSet(r.records) \cup ToSet(r.rejected)

\* The local variables of a retrieval: no two of its records have one identity.
IsFetch(r) ==
  /\ DOMAIN r = {"pageSize", "max", "status", "tries", "offset", "previous", "processed",
                 "records", "rejected"}
  /\ r.pageSize \in Nat /\ r.max \in Nat /\ r.offset \in Nat /\ r.processed \in Nat
  /\ r.records \in Seq(ToSet(r.records)) /\ r.rejected \in Seq(ToSet(r.rejected))
  /\ \A m, n \in DOMAIN r.records : r.records[m].identity = r.records[n].identity => m = n

\* A sequence with one more member.
LEMMA AppendedIsSeen ==
  ASSUME NEW s, s \in Seq(ToSet(s)), NEW f
  PROVE  /\ ToSet(Append(s, f)) = ToSet(s) \cup {f}
         /\ Append(s, f) \in Seq(ToSet(Append(s, f)))
         /\ Len(s) \in Nat /\ Len(Append(s, f)) = Len(s) + 1
         /\ \A n \in 1 .. Len(s) : Append(s, f)[n] = s[n] /\ s[n] \in ToSet(s)
         /\ Append(s, f)[Len(s) + 1] = f
<1> DEFINE T == ToSet(s) \cup {f}
           t == Append(s, f)
<1>1. s \in Seq(T) /\ f \in T
  BY SMT
<1> HIDE DEF T
<1>2. /\ t \in Seq(T) /\ Len(s) \in Nat /\ Len(t) = Len(s) + 1
      /\ \A n \in 1 .. Len(s) : t[n] = s[n]
      /\ t[Len(s) + 1] = f
  BY <1>1
<1>3. \A n \in 1 .. Len(s) : s[n] \in ToSet(s)
  BY <1>2 DEF ToSet
<1>4. \A x \in ToSet(s) : \E n \in 1 .. Len(s) : s[n] = x
  BY <1>1 DEF ToSet
<1>5. DOMAIN t = 1 .. (Len(s) + 1)
  BY <1>2
<1> HIDE DEF t
<1>6. \A n \in 1 .. (Len(s) + 1) : n = Len(s) + 1 \/ n \in 1 .. Len(s)
  BY <1>2
<1>7. ToSet(t) = ToSet(s) \cup {f}
  <2>1. \A n \in 1 .. (Len(s) + 1) : t[n] \in ToSet(s) \cup {f}
    BY <1>2, <1>3, <1>6
  <2>2. \A n \in 1 .. Len(s) : n \in 1 .. (Len(s) + 1)
    BY <1>2
  <2>3. Len(s) + 1 \in 1 .. (Len(s) + 1)
    BY <1>2
  <2>4. \A x \in ToSet(s) \cup {f} : \E n \in 1 .. (Len(s) + 1) : t[n] = x
    BY <1>2, <1>4, <2>2, <2>3
  <2> QED BY <1>5, <2>1, <2>4 DEF ToSet
<1> QED BY <1>2, <1>3, <1>7 DEF T, t

\* A feature that is taken is a record or a rejected one, and no record is there
\* twice.
LEMMA FeatureIsTaken ==
  ASSUME NEW r, IsFetch(r), r.status = "fetching", NEW f, TakeFeature(r, f).status # "failed"
  PROVE  LET t == TakeFeature(r, f)
         IN  /\ IsFetch(t) /\ t.status = "fetching"
             /\ t.offset = r.offset /\ t.max = r.max /\ t.pageSize = r.pageSize
             /\ SeenBy(t) = SeenBy(r) \cup {f}
<1> DEFINE t == TakeFeature(r, f)
           q == Seen(r, f)
<1>1. /\ DOMAIN q = DOMAIN r /\ q.processed = r.processed + 1
      /\ q.status = r.status /\ q.offset = r.offset /\ q.max = r.max
      /\ q.pageSize = r.pageSize /\ q.records = r.records /\ q.rejected = r.rejected
  BY DEF Seen, IsFetch
<1>2. Failed(r).status = "failed"
  BY DEF Failed, IsFetch
<1> HIDE DEF q
<1>3. CASE IsRejected(f)
  <2>1. t = [q EXCEPT !.rejected = Append(@, f)]
    BY <1>2, <1>3 DEF TakeFeature, q
  <2>2. /\ DOMAIN t = DOMAIN q /\ t.rejected = Append(r.rejected, f)
        /\ t.records = r.records /\ t.processed = r.processed + 1
        /\ t.status = r.status /\ t.offset = r.offset /\ t.max = r.max
        /\ t.pageSize = r.pageSize
    BY <1>1, <2>1 DEF IsFetch
  <2> HIDE DEF t
  <2>3. /\ ToSet(t.rejected) = ToSet(r.rejected) \cup {f}
        /\ t.rejected \in Seq(ToSet(t.rejected))
    BY <2>2, AppendedIsSeen DEF IsFetch
  <2>4. IsFetch(t)
    BY <1>1, <2>2, <2>3 DEF IsFetch
  <2>5. SeenBy(t) = SeenBy(r) \cup {f}
    BY <2>2, <2>3 DEF SeenBy
  <2> QED BY <2>2, <2>4, <2>5 DEF t
<1>4. CASE ~IsRejected(f)
  <2>1. /\ t = [q EXCEPT !.records = Append(@, f)]
        /\ \A g \in ToSet(r.records) : g.identity # f.identity
    BY <1>2, <1>4 DEF TakeFeature, q
  <2>2. /\ DOMAIN t = DOMAIN q /\ t.records = Append(r.records, f)
        /\ t.rejected = r.rejected /\ t.processed = r.processed + 1
        /\ t.status = r.status /\ t.offset = r.offset /\ t.max = r.max
        /\ t.pageSize = r.pageSize
    BY <1>1, <2>1 DEF IsFetch
  <2> HIDE DEF t
  <2>3. /\ ToSet(t.records) = ToSet(r.records) \cup {f}
        /\ t.records \in Seq(ToSet(t.records))
        /\ Len(r.records) \in Nat /\ Len(t.records) = Len(r.records) + 1
        /\ \A n \in 1 .. Len(r.records) :
             t.records[n] = r.records[n] /\ r.records[n] \in ToSet(r.records)
        /\ t.records[Len(r.records) + 1] = f
    BY <2>2, AppendedIsSeen DEF IsFetch
  <2>4. \A m, n \in DOMAIN t.records :
          t.records[m].identity = t.records[n].identity => m = n
    <3>1. DOMAIN t.records = 1 .. (Len(r.records) + 1) /\ DOMAIN r.records = 1 .. Len(r.records)
      BY <2>3 DEF IsFetch
    <3>2. \A n \in DOMAIN t.records : n = Len(r.records) + 1 \/ n \in 1 .. Len(r.records)
      BY <2>3, <3>1
    <3>3. \A m, n \in 1 .. Len(r.records) :
            r.records[m].identity = r.records[n].identity => m = n
      BY <3>1 DEF IsFetch
    <3> QED BY <2>1, <2>3, <3>2, <3>3
  <2>5. IsFetch(t)
    BY <1>1, <2>2, <2>3, <2>4 DEF IsFetch
  <2>6. SeenBy(t) = SeenBy(r) \cup {f}
    BY <2>2, <2>3 DEF SeenBy
  <2> QED BY <2>2, <2>5, <2>6 DEF t
<1> QED BY <1>3, <1>4

\* The turns of the loop over the features of a page exist.
LEMMA TurnsExist ==
  ASSUME NEW r, NEW page, Len(page) \in Nat
  PROVE  \E taken : /\ taken[0] = r /\ TakeFeatures(r, page) = taken[Len(page)]
                    /\ \A n \in 1 .. Len(page) : taken[n] = TakeFeature(taken[n - 1], page[n])
<1> DEFINE Turn(q, n) == TakeFeature(q, page[n])
           G(g, k) == [n \in 0 .. k |-> IF n = 0 THEN r ELSE Turn(g[n - 1], n)]
           Missing == {k \in Nat : ~ \E g : g = G(g, k)}
           taken == CHOOSE g : g = G(g, Len(page))
<1>1. TakeFeatures(r, page) = taken[Len(page)]
  BY Zenon DEF TakeFeatures
<1> HIDE DEF Turn
<1>2. 0 \notin Missing
  <2> DEFINE g == [n \in 0 .. 0 |-> r]
  <2>1. g = G(g, 0)
    OBVIOUS
  <2> QED BY <2>1
<1>3. ASSUME NEW k \in Nat, k \notin Missing PROVE k + 1 \notin Missing
  <2>1. PICK g : g = G(g, k)
    BY <1>3
  <2> DEFINE h == [n \in 0 .. k + 1 |-> IF n <= k THEN g[n] ELSE Turn(g[k], k + 1)]
  <2>2. \A n \in 0 .. k : h[n] = g[n]
    OBVIOUS
  <2>3. h[k + 1] = Turn(g[k], k + 1)
    OBVIOUS
  <2>4. ASSUME NEW n \in 0 .. k + 1
        PROVE  h[n] = IF n = 0 THEN r ELSE Turn(h[n - 1], n)
    <3>1. CASE n = 0
      BY <2>1, <2>2, <3>1
    <3>2. CASE n \in 1 .. k
      <4>1. g[n] = Turn(g[n - 1], n)
        BY <2>1, <3>2
      <4> QED BY <2>2, <3>2, <4>1
    <3>3. CASE n = k + 1
      BY <2>2, <2>3, <3>3
    <3> QED BY <3>1, <3>2, <3>3
  <2>5. h = [n \in 0 .. k + 1 |-> h[n]]
    OBVIOUS
  <2> HIDE DEF h
  <2>6. h = G(h, k + 1)
    BY <2>4, <2>5
  <2> QED BY <2>6
<1> HIDE DEF G
<1>4. Missing = {}
  <2> SUFFICES ASSUME Missing # {} PROVE FALSE
    OBVIOUS
  <2>1. PICK k \in Missing : \A n \in Missing : k <= n
    BY LeastNat
  <2>2. k \in Nat /\ k # 0
    BY <1>2
  <2>3. k - 1 \in Nat /\ k - 1 \notin Missing
    BY <2>1, <2>2
  <2>4. (k - 1) + 1 \notin Missing
    BY <1>3, <2>3
  <2> QED BY <2>1, <2>2, <2>4
<1>5. taken = G(taken, Len(page))
  <2>1. \E g : g = G(g, Len(page))
    BY <1>4
  <2> QED BY <2>1, Zenon
<1> HIDE DEF taken
<1>6. /\ taken[0] = r
      /\ \A n \in 1 .. Len(page) : taken[n] = Turn(taken[n - 1], n)
  BY <1>5 DEF G
<1> QED BY <1>1, <1>6 DEF Turn

\* A page that is taken has been seen whole.
LEMMA PageIsTaken ==
  ASSUME NEW r, IsFetch(r), r.status = "fetching", NEW page, Len(page) \in Nat,
         TakeFeatures(r, page).status # "failed"
  PROVE  LET t == TakeFeatures(r, page)
         IN  /\ IsFetch(t) /\ t.status = "fetching"
             /\ t.offset = r.offset /\ t.max = r.max /\ t.pageSize = r.pageSize
             /\ SeenBy(t) = SeenBy(r) \cup {page[n] : n \in 1 .. Len(page)}
<1>1. PICK taken : /\ taken[0] = r /\ TakeFeatures(r, page) = taken[Len(page)]
                   /\ \A n \in 1 .. Len(page) : taken[n] = TakeFeature(taken[n - 1], page[n])
  BY TurnsExist
<1> DEFINE Whole(n) ==
             /\ IsFetch(taken[n]) /\ taken[n].status = "fetching"
             /\ taken[n].offset = r.offset /\ taken[n].max = r.max
             /\ taken[n].pageSize = r.pageSize
             /\ SeenBy(taken[n]) = SeenBy(r) \cup {page[m] : m \in 1 .. n}
           Fine(n) == taken[n].status = "failed" \/ Whole(n)
           Bad == {n \in 0 .. Len(page) : ~Fine(n)}
<1>2. Fine(0)
  BY <1>1
<1>3. ASSUME NEW n \in 1 .. Len(page), Fine(n - 1) PROVE Fine(n)
  <2>1. taken[n] = TakeFeature(taken[n - 1], page[n])
    BY <1>1
  <2>2. CASE taken[n - 1].status = "failed"
    <3>1. taken[n] = taken[n - 1]
      BY <2>1, <2>2 DEF TakeFeature
    <3> QED BY <2>2, <3>1
  <2>3. CASE taken[n].status # "failed" /\ Whole(n - 1)
    <3>1. /\ IsFetch(taken[n]) /\ taken[n].status = "fetching"
          /\ taken[n].offset = r.offset /\ taken[n].max = r.max
          /\ taken[n].pageSize = r.pageSize
          /\ SeenBy(taken[n]) = SeenBy(taken[n - 1]) \cup {page[n]}
      BY <2>1, <2>3, FeatureIsTaken
    <3>2. {page[m] : m \in 1 .. n} = {page[m] : m \in 1 .. (n - 1)} \cup {page[n]}
      <4>1. 1 .. n = 1 .. (n - 1) \cup {n}
        OBVIOUS
      <4> QED BY <4>1
    <3> QED BY <2>3, <3>1, <3>2
  <2> QED BY <1>3, <2>2, <2>3
<1> HIDE DEF Fine
<1>4. Bad = {}
  <2> SUFFICES ASSUME Bad # {} PROVE FALSE
    OBVIOUS
  <2>1. Bad \subseteq Nat
    OBVIOUS
  <2>2. PICK n \in Bad : \A m \in Bad : n <= m
    <3> HIDE DEF Bad
    <3> QED BY <2>1, LeastNat
  <2>3. n \in 0 .. Len(page) /\ ~Fine(n)
    OBVIOUS
  <2>4. n # 0
    BY <1>2, <2>3
  <2>5. n \in 1 .. Len(page) /\ n - 1 \in 0 .. Len(page) /\ ~(n <= n - 1)
    BY <2>3, <2>4
  <2>6. n - 1 \notin Bad
    <3> HIDE DEF Bad
    <3> QED BY <2>2, <2>5
  <2>7. Fine(n - 1)
    BY <2>5, <2>6
  <2> QED BY <1>3, <2>3, <2>5, <2>7
<1>5. Fine(Len(page))
  <2>1. Len(page) \in 0 .. Len(page)
    OBVIOUS
  <2> QED BY <1>4, <2>1
<1> QED BY <1>1, <1>5 DEF Fine

\* A feature of the source has a rank of its own, below the number of features.
LEMMA RanksDiffer ==
  ASSUME NEW S, IsSource(S), NEW f \in S
  PROVE  /\ Rank(S, f) \in Nat /\ Rank(S, f) < Cardinality(S)
         /\ \A g \in S : Rank(S, g) = Rank(S, f) => g = f
<1> DEFINE Below(h) == {g \in S : g.object < h.object}
<1>1. IsFiniteSet(S) /\ Cardinality(S) \in Nat
  BY FS_CardinalityType DEF IsSource
<1>2. \A h : IsFiniteSet(Below(h)) /\ Cardinality(Below(h)) \in Nat
  <2> TAKE h
  <2>1. Below(h) \subseteq S
    OBVIOUS
  <2> HIDE DEF Below
  <2> QED BY <1>1, <2>1, FS_Subset, FS_CardinalityType
<1>3. ASSUME NEW g \in S, NEW h \in S, g.object < h.object
      PROVE  Cardinality(Below(g)) < Cardinality(Below(h))
  <2>1. \A k \in S : k.object \in Int
    BY DEF IsSource
  <2>2. Below(g) \subseteq Below(h) /\ g \in Below(h) /\ g \notin Below(g)
    BY <1>3, <2>1
  <2> HIDE DEF Below
  <2>3. Cardinality(Below(g)) <= Cardinality(Below(h))
        /\ Cardinality(Below(g)) # Cardinality(Below(h))
    BY <1>2, <2>2, FS_Subset
  <2> QED BY <1>2, <2>3
<1>4. Cardinality(Below(f)) < Cardinality(S)
  <2>1. Below(f) \subseteq S /\ f \notin Below(f)
    BY DEF IsSource
  <2> HIDE DEF Below
  <2>2. Cardinality(Below(f)) <= Cardinality(S) /\ Cardinality(Below(f)) # Cardinality(S)
    BY <1>1, <2>1, FS_Subset
  <2> QED BY <1>1, <1>2, <2>2
<1>5. ASSUME NEW g \in S, Cardinality(Below(g)) = Cardinality(Below(f)) PROVE g = f
  <2>1. g.object \in Int /\ f.object \in Int
    BY DEF IsSource
  <2> HIDE DEF Below
  <2>2. ~(g.object < f.object) /\ ~(f.object < g.object)
    BY <1>2, <1>3, <1>5
  <2>3. g.object = f.object
    BY <2>1, <2>2
  <2> QED BY <2>3 DEF IsSource
<1>6. \A h : Rank(S, h) = Cardinality(Below(h))
  BY DEF Rank
<1> HIDE DEF Below
<1> QED BY <1>2, <1>4, <1>5, <1>6

\* A page holds every feature of a rank it covers, and a short one the last of them.
LEMMA PageIsWhole ==
  ASSUME NEW S, IsSource(S), NEW r, IsFetch(r)
  PROVE  LET page == PageOf(S, r)
         IN  /\ Len(page) \in Nat
             /\ \A f \in S : r.offset <= Rank(S, f) /\ Rank(S, f) < r.offset + Len(page) =>
                  f \in {page[n] : n \in 1 .. Len(page)}
             /\ Len(page) < Count(r) => Cardinality(S) <= r.offset + Len(page)
<1> DEFINE page == PageOf(S, r)
           last == Min({Count(r), Cardinality(S) - r.offset})
<1>1. \A m, n \in Int : Min({m, n}) \in {m, n} /\ Min({m, n}) <= m /\ Min({m, n}) <= n
  <2> SUFFICES ASSUME NEW m \in Int, NEW n \in Int
               PROVE  Min({m, n}) \in {m, n} /\ Min({m, n}) <= m /\ Min({m, n}) <= n
    OBVIOUS
  <2>1. \E x \in {m, n} : \A y \in {m, n} : x <= y
    OBVIOUS
  <2> QED BY <2>1 DEF Min
<1>2. Cardinality(S) \in Nat /\ r.offset \in Nat
  BY FS_CardinalityType DEF IsSource, IsFetch
<1>3. Count(r) \in Int
  <2>1. r.pageSize \in Int /\ r.max - r.processed \in Int
    BY DEF IsFetch
  <2>2. Count(r) \in {r.pageSize, r.max - r.processed}
    BY <1>1, <2>1 DEF Count
  <2> QED BY <2>1, <2>2
<1>4. last \in Int /\ last \in {Count(r), Cardinality(S) - r.offset}
  <2>1. Cardinality(S) - r.offset \in Int
    BY <1>2
  <2>2. last \in {Count(r), Cardinality(S) - r.offset}
    BY <1>1, <1>3, <2>1
  <2> QED BY <1>3, <2>1, <2>2
<1>5. page = [n \in 1 .. last |-> CHOOSE f \in S : Rank(S, f) = r.offset + n - 1]
  BY DEF PageOf
<1> HIDE DEF last, page
<1>6. Len(page) = (IF last > 0 THEN last ELSE 0)
  <2> DEFINE k == IF last > 0 THEN last ELSE 0
  <2>1. k \in Nat /\ 1 .. last = 1 .. k
    BY <1>4
  <2>2. page = [n \in 1 .. k |-> CHOOSE f \in S : Rank(S, f) = r.offset + n - 1]
    BY <1>5, <2>1
  <2> HIDE DEF k
  <2>3. Len(page) = k
    BY <2>1, <2>2
  <2> QED BY <2>3 DEF k
<1>7. ASSUME NEW f \in S, r.offset <= Rank(S, f), Rank(S, f) < r.offset + Len(page)
      PROVE  \E n \in 1 .. Len(page) : page[n] = f
  <2> DEFINE n == Rank(S, f) - r.offset + 1
  <2>1. Rank(S, f) \in Nat
    BY RanksDiffer
  <2>2. n \in 1 .. Len(page) /\ n \in 1 .. last /\ r.offset + n - 1 = Rank(S, f)
    BY <1>2, <1>4, <1>6, <1>7, <2>1
  <2> HIDE DEF n
  <2>3. page[n] = CHOOSE g \in S : Rank(S, g) = Rank(S, f)
    BY <1>5, <2>2
  <2>4. page[n] \in S /\ Rank(S, page[n]) = Rank(S, f)
    BY <2>3
  <2>5. page[n] = f
    BY <2>4, RanksDiffer
  <2> QED BY <2>2, <2>5
<1>8. Len(page) < Count(r) => Cardinality(S) <= r.offset + Len(page)
  BY <1>2, <1>3, <1>4, <1>6
<1>9. Len(page) \in Nat
  BY <1>4, <1>6
<1> QED BY <1>7, <1>8, <1>9 DEF page

\* What was passed by and stayed: below the offset, and never in a page.
Overlooked(i) ==
  {f \in i.stayed : Rank(i.source, f) < i.fetch.offset /\ f \notin SeenBy(i.fetch)}

IsRetrieval(i) ==
  /\ DOMAIN i = {"fetch", "source", "stayed", "departures"}
  /\ IsFetch(i.fetch) /\ IsSource(i.source)
  /\ i.stayed \subseteq i.source /\ i.departures \in Nat

\* While pages arrive, at most one feature was passed by for each that left; the end
\* of the source is reached with no more.
RetrievalInv(i) ==
  /\ IsRetrieval(i)
  /\ i.fetch.status = "fetching" => Cardinality(Overlooked(i)) <= i.departures
  /\ i.fetch.status = "done" /\ i.fetch.processed < i.fetch.max =>
       Cardinality(i.stayed \ SeenBy(i.fetch)) <= i.departures

\* The sets that are counted are finite.
LEMMA StayedIsFinite ==
  ASSUME NEW i, IsRetrieval(i)
  PROVE  /\ IsFiniteSet(i.source) /\ IsFiniteSet(i.stayed)
         /\ IsFiniteSet(Overlooked(i)) /\ Cardinality(Overlooked(i)) \in Nat
         /\ IsFiniteSet(i.stayed \ SeenBy(i.fetch))
         /\ Cardinality(i.stayed \ SeenBy(i.fetch)) \in Nat
<1>1. IsFiniteSet(i.source) /\ i.stayed \in SUBSET i.source
  BY DEF IsRetrieval, IsSource
<1>2. IsFiniteSet(i.stayed)
  BY <1>1, FS_Subset
<1>3. Overlooked(i) \in SUBSET i.stayed /\ i.stayed \ SeenBy(i.fetch) \in SUBSET i.stayed
  BY DEF Overlooked
<1>4. IsFiniteSet(Overlooked(i)) /\ IsFiniteSet(i.stayed \ SeenBy(i.fetch))
  BY <1>2, <1>3, FS_Subset
<1> QED BY <1>1, <1>2, <1>4, FS_CardinalityType

\* A page shows what lies between the offset and the next one; after a short page
\* nothing lies further on.
LEMMA PageKeepsRetrieval ==
  ASSUME NEW i, RetrievalInv(i), i.fetch.status = "fetching"
  PROVE  RetrievalInv([i EXCEPT !.fetch = TakePage(i.fetch, PageOf(i.source, i.fetch))])
<1> DEFINE r == i.fetch
           page == PageOf(i.source, r)
           taken == TakeFeatures(r, page)
           q == TakePage(r, page)
           j == [i EXCEPT !.fetch = q]
<1>1. IsRetrieval(i) /\ IsFetch(r) /\ IsSource(i.source) /\ r.offset \in Nat
  BY DEF RetrievalInv, IsRetrieval, IsFetch
<1>2. /\ DOMAIN j = DOMAIN i /\ j.fetch = q /\ j.source = i.source
      /\ j.stayed = i.stayed /\ j.departures = i.departures
  BY <1>1 DEF IsRetrieval
<1>3. /\ Len(page) \in Nat
      /\ \A f \in i.source : r.offset <= Rank(i.source, f)
                               /\ Rank(i.source, f) < r.offset + Len(page) =>
           f \in {page[n] : n \in 1 .. Len(page)}
      /\ Len(page) < Count(r) => Cardinality(i.source) <= r.offset + Len(page)
  BY <1>1, PageIsWhole
<1> HIDE DEF page, j
<1>4. CASE q = Failed(r)
  <2>1. IsFetch(q) /\ q.status = "failed"
    BY <1>1, <1>4 DEF Failed, IsFetch
  <2> HIDE DEF q
  <2>2. RetrievalInv(j)
    BY <1>1, <1>2, <2>1 DEF RetrievalInv, IsRetrieval
  <2> QED BY <2>2 DEF j, q, page
<1>5. CASE q # Failed(r)
  <2>1. /\ taken.status # "failed"
        /\ q = [taken EXCEPT !.offset = @ + Len(page), !.tries = 0,
                             !.status = IF IsLastPage(r, taken, page) THEN "done" ELSE @]
    BY <1>5 DEF TakePage
  <2>2. /\ IsFetch(taken) /\ taken.status = "fetching" /\ taken.offset = r.offset
        /\ taken.max = r.max /\ SeenBy(taken) = SeenBy(r) \cup {page[n] : n \in 1 .. Len(page)}
    BY <1>1, <1>3, <2>1, PageIsTaken
  <2> HIDE DEF taken
  <2>3. /\ IsFetch(q) /\ q.offset = r.offset + Len(page) /\ q.max = r.max
        /\ q.processed = taken.processed /\ SeenBy(q) = SeenBy(taken)
        /\ q.status = IF IsLastPage(r, taken, page) THEN "done" ELSE "fetching"
    BY <1>1, <1>3, <2>1, <2>2 DEF IsFetch, SeenBy
  <2> HIDE DEF q, r
  <2>4. Overlooked(j) \subseteq Overlooked(i)
    <3> SUFFICES ASSUME NEW f \in Overlooked(j) PROVE f \in Overlooked(i)
      OBVIOUS
    <3>1. /\ f \in i.stayed /\ f \in i.source /\ Rank(i.source, f) < r.offset + Len(page)
          /\ f \notin SeenBy(r) /\ f \notin {page[n] : n \in 1 .. Len(page)}
      BY <1>1, <1>2, <2>2, <2>3 DEF Overlooked, IsRetrieval
    <3>2. Rank(i.source, f) \in Nat
      BY <1>1, <3>1, RanksDiffer
    <3>3. Rank(i.source, f) < r.offset
      BY <1>1, <1>3, <3>1, <3>2
    <3> QED BY <3>1, <3>3 DEF Overlooked, r
  <2>5. IsRetrieval(j)
    BY <1>1, <1>2, <2>3 DEF IsRetrieval
  <2>6. Cardinality(Overlooked(j)) <= j.departures
    <3>1. Cardinality(Overlooked(i)) <= i.departures /\ i.departures \in Nat
      BY <1>1 DEF RetrievalInv, IsRetrieval
    <3>2. IsFiniteSet(Overlooked(i)) /\ Cardinality(Overlooked(i)) \in Nat
      BY <1>1, StayedIsFinite
    <3>3. Cardinality(Overlooked(j)) <= Cardinality(Overlooked(i))
      BY <2>4, <3>2, FS_Subset
    <3>4. Cardinality(Overlooked(j)) \in Nat
      BY <2>5, StayedIsFinite
    <3> QED BY <1>2, <3>1, <3>2, <3>3, <3>4
  <2>7. ASSUME q.status = "done", q.processed < q.max
        PROVE  j.stayed \ SeenBy(q) = Overlooked(j)
    <3>1. Len(page) < Count(r)
      <4>1. taken.processed \in Nat /\ r.max \in Nat
        BY <1>1, <2>2 DEF IsFetch
      <4> QED BY <2>3, <2>7, <4>1 DEF IsLastPage
    <3>2. Cardinality(i.source) <= q.offset
      BY <1>3, <2>3, <3>1
    <3>3. ASSUME NEW f \in i.stayed PROVE Rank(i.source, f) < q.offset
      <4>1. f \in i.source
        BY <1>1, <3>3 DEF IsRetrieval
      <4>2. Rank(i.source, f) \in Nat /\ Rank(i.source, f) < Cardinality(i.source)
        BY <1>1, <4>1, RanksDiffer
      <4>3. Cardinality(i.source) \in Nat /\ q.offset \in Nat
        BY <1>1, <2>3, FS_CardinalityType DEF IsSource, IsFetch
      <4> QED BY <3>2, <4>2, <4>3
    <3> QED BY <1>2, <3>3 DEF Overlooked
  <2>8. RetrievalInv(j)
    BY <1>2, <2>5, <2>6, <2>7 DEF RetrievalInv
  <2> QED BY <2>8 DEF j, q, r, page
<1> QED BY <1>4, <1>5

\* A request that fails leaves what has been seen.
LEMMA FailureKeepsRetrieval ==
  ASSUME NEW i, RetrievalInv(i), i.fetch.status = "fetching"
  PROVE  /\ RetrievalInv([i EXCEPT !.fetch = RepeatRequest(@)])
         /\ RetrievalInv([i EXCEPT !.fetch = Failed(@)])
<1> DEFINE With(q) == [i EXCEPT !.fetch = q]
<1>1. IsRetrieval(i) /\ IsFetch(i.fetch)
  BY DEF RetrievalInv, IsRetrieval
<1>2. \A q : /\ DOMAIN With(q) = DOMAIN i /\ With(q).fetch = q /\ With(q).source = i.source
             /\ With(q).stayed = i.stayed /\ With(q).departures = i.departures
  BY <1>1 DEF IsRetrieval
<1>3. RetrievalInv(With(Failed(i.fetch)))
  <2>1. IsFetch(Failed(i.fetch)) /\ Failed(i.fetch).status = "failed"
    BY <1>1 DEF Failed, IsFetch
  <2> HIDE DEF With
  <2> QED BY <1>1, <1>2, <2>1 DEF RetrievalInv, IsRetrieval
<1>4. RetrievalInv(With([i.fetch EXCEPT !.tries = @ + 1]))
  <2> DEFINE q == [i.fetch EXCEPT !.tries = @ + 1]
  <2>1. IsFetch(q) /\ q.status = "fetching" /\ q.offset = i.fetch.offset
        /\ SeenBy(q) = SeenBy(i.fetch)
    BY <1>1 DEF IsFetch, SeenBy
  <2> HIDE DEF With, q
  <2>2. Overlooked(With(q)) = Overlooked(i)
    BY <1>2, <2>1 DEF Overlooked
  <2> QED BY <1>1, <1>2, <2>1, <2>2 DEF RetrievalInv, IsRetrieval, q
<1>5. RepeatRequest(i.fetch) \in {[i.fetch EXCEPT !.tries = @ + 1], Failed(i.fetch)}
  BY DEF RepeatRequest
<1> QED BY <1>3, <1>4, <1>5

\* When a feature leaves, those behind it move up by one, and the one that stood at
\* the offset may be passed by.
LEMMA DepartureKeepsRetrieval ==
  ASSUME NEW i, RetrievalInv(i), i.fetch.status = "fetching", NEW f \in i.source
  PROVE  RetrievalInv([i EXCEPT !.source = @ \ {f}, !.stayed = @ \ {f}, !.departures = @ + 1])
<1> DEFINE j == [i EXCEPT !.source = @ \ {f}, !.stayed = @ \ {f}, !.departures = @ + 1]
           S == i.source
           T == S \ {f}
           first == {g \in i.stayed : Rank(S, g) = i.fetch.offset}
           Below(U, g) == {h \in U : h.object < g.object}
<1>1. IsRetrieval(i) /\ IsSource(S) /\ IsFiniteSet(S) /\ i.fetch.offset \in Nat
      /\ i.stayed \subseteq S /\ i.departures \in Nat
  BY DEF RetrievalInv, IsRetrieval, IsFetch, IsSource
<1>2. /\ DOMAIN j = DOMAIN i /\ j.fetch = i.fetch /\ j.source = T
      /\ j.stayed = i.stayed \ {f} /\ j.departures = i.departures + 1
  BY <1>1 DEF IsRetrieval
<1>3. IsSource(T)
  BY <1>1, FS_RemoveElement DEF IsSource
<1> HIDE DEF j
<1>4. IsRetrieval(j)
  BY <1>1, <1>2, <1>3 DEF IsRetrieval
<1>5. ASSUME NEW g \in T PROVE Rank(S, g) \in Nat /\ Rank(T, g) \in Nat
                               /\ Rank(S, g) <= Rank(T, g) + 1
  <2>1. Rank(S, g) = Cardinality(Below(S, g)) /\ Rank(T, g) = Cardinality(Below(T, g))
    BY DEF Rank
  <2>2. Below(T, g) \subseteq T /\ Below(S, g) \subseteq Below(T, g) \cup {f}
    OBVIOUS
  <2> HIDE DEF Below
  <2>3. IsFiniteSet(Below(T, g))
    BY <1>3, <2>2, FS_Subset DEF IsSource
  <2>4. /\ IsFiniteSet(Below(T, g) \cup {f}) /\ Cardinality(Below(T, g)) \in Nat
        /\ Cardinality(Below(T, g) \cup {f}) \in Nat
        /\ Cardinality(Below(T, g) \cup {f}) <= Cardinality(Below(T, g)) + 1
    <3> DEFINE B == Below(T, g)
    <3>1. IsFiniteSet(B)
      BY <2>3
    <3> HIDE DEF B
    <3>2. Cardinality(B) \in Nat
      BY <3>1, FS_CardinalityType
    <3>3. /\ IsFiniteSet(B \cup {f})
          /\ Cardinality(B \cup {f}) = IF f \in B THEN Cardinality(B) ELSE Cardinality(B) + 1
      BY <3>1, FS_AddElement
    <3>4. Cardinality(B \cup {f}) \in Nat /\ Cardinality(B \cup {f}) <= Cardinality(B) + 1
      BY <3>2, <3>3
    <3> QED BY <3>2, <3>3, <3>4 DEF B
  <2>5. Cardinality(Below(S, g)) <= Cardinality(Below(T, g) \cup {f})
    BY <2>2, <2>4, FS_Subset
  <2>6. Rank(S, g) \in Nat
    BY <1>1, RanksDiffer
  <2> QED BY <2>1, <2>4, <2>5, <2>6
<1>6. Overlooked(j) \subseteq Overlooked(i) \cup first
  <2> SUFFICES ASSUME NEW g \in Overlooked(j), g \notin first PROVE g \in Overlooked(i)
    OBVIOUS
  <2>1. /\ g \in i.stayed /\ g \in T /\ Rank(T, g) < i.fetch.offset
        /\ g \notin SeenBy(i.fetch) /\ Rank(S, g) # i.fetch.offset
    BY <1>1, <1>2 DEF Overlooked
  <2>2. Rank(S, g) < i.fetch.offset
    <3> HIDE DEF T, first
    <3> QED BY <1>1, <1>5, <2>1
  <2> QED BY <2>1, <2>2 DEF Overlooked
<1>7. IsFiniteSet(first) /\ Cardinality(first) <= 1 /\ Cardinality(first) \in Nat
  <2>1. CASE first = {}
    <3> HIDE DEF first
    <3> QED BY <2>1, FS_EmptySet
  <2>2. CASE first # {}
    <3>1. PICK g : g \in first
      BY <2>2
    <3>2. first = {g}
      BY <1>1, <3>1, RanksDiffer
    <3>3. IsFiniteSet({g}) /\ Cardinality({g}) = 1
      BY FS_Singleton
    <3> HIDE DEF first
    <3>4. IsFiniteSet(first) /\ Cardinality(first) = 1
      BY <3>2, <3>3, Zenon
    <3> QED BY <3>4
  <2> HIDE DEF first
  <2> QED BY <2>1, <2>2
<1> HIDE DEF first, T, S
<1>8. Cardinality(Overlooked(j)) <= j.departures
  <2>1. /\ Cardinality(Overlooked(i)) <= i.departures /\ IsFiniteSet(Overlooked(i))
        /\ Cardinality(Overlooked(i)) \in Nat
    BY <1>1, StayedIsFinite DEF RetrievalInv
  <2>2. /\ IsFiniteSet(Overlooked(i) \cup first)
        /\ Cardinality(Overlooked(i) \cup first) <= Cardinality(Overlooked(i)) + 1
        /\ Cardinality(Overlooked(i) \cup first) \in Nat
    <3>1. IsFiniteSet(Overlooked(i) \cup first)
      BY <1>7, <2>1, FS_Union
    <3>2. Cardinality(Overlooked(i) \cup first)
            = Cardinality(Overlooked(i)) + Cardinality(first)
                - Cardinality(Overlooked(i) \cap first)
      BY <1>7, <2>1, FS_Union
    <3>3. Cardinality(Overlooked(i) \cap first) \in Nat
      <4>1. Overlooked(i) \cap first \subseteq first
        OBVIOUS
      <4> QED BY <1>7, <4>1, FS_Subset, FS_CardinalityType
    <3> QED BY <1>7, <2>1, <3>1, <3>2, <3>3, FS_CardinalityType
  <2>3. Cardinality(Overlooked(j)) <= Cardinality(Overlooked(i) \cup first)
    BY <1>6, <2>2, FS_Subset
  <2>4. Cardinality(Overlooked(j)) \in Nat
    BY <1>4, StayedIsFinite
  <2> QED BY <1>1, <1>2, <2>1, <2>2, <2>3, <2>4
<1>9. RetrievalInv(j)
  BY <1>2, <1>4, <1>8 DEF RetrievalInv
<1> QED BY <1>9 DEF j

\* When a feature joins, the others move back, if at all.
LEMMA ArrivalKeepsRetrieval ==
  ASSUME NEW i, RetrievalInv(i), i.fetch.status = "fetching",
         NEW f, f.object \in Int, \A g \in i.source : g.object # f.object
  PROVE  RetrievalInv([i EXCEPT !.source = @ \cup {f}])
<1> DEFINE j == [i EXCEPT !.source = @ \cup {f}]
           S == i.source
           T == S \cup {f}
           Below(U, g) == {h \in U : h.object < g.object}
<1>1. IsRetrieval(i) /\ IsSource(S) /\ IsFiniteSet(S) /\ i.fetch.offset \in Nat
      /\ i.stayed \subseteq S /\ i.departures \in Nat
  BY DEF RetrievalInv, IsRetrieval, IsFetch, IsSource
<1>2. /\ DOMAIN j = DOMAIN i /\ j.fetch = i.fetch /\ j.source = T
      /\ j.stayed = i.stayed /\ j.departures = i.departures
  BY <1>1 DEF IsRetrieval
<1>3. IsSource(T)
  <2>1. IsFiniteSet(T)
    BY <1>1, FS_AddElement
  <2> QED BY <1>1, <2>1 DEF IsSource
<1> HIDE DEF j
<1>4. IsRetrieval(j)
  BY <1>1, <1>2, <1>3 DEF IsRetrieval
<1>5. ASSUME NEW g \in S PROVE Rank(S, g) <= Rank(T, g) /\ Rank(S, g) \in Nat
                               /\ Rank(T, g) \in Nat
  <2>1. Rank(S, g) = Cardinality(Below(S, g)) /\ Rank(T, g) = Cardinality(Below(T, g))
    BY DEF Rank
  <2>2. Below(S, g) \subseteq Below(T, g) /\ Below(T, g) \subseteq T
    OBVIOUS
  <2> HIDE DEF Below
  <2>3. IsFiniteSet(Below(T, g))
    BY <1>3, <2>2, FS_Subset DEF IsSource
  <2>4. Cardinality(Below(S, g)) <= Cardinality(Below(T, g))
    BY <2>2, <2>3, FS_Subset
  <2>5. Rank(S, g) \in Nat /\ Rank(T, g) \in Nat
    BY <1>1, <1>3, RanksDiffer
  <2> QED BY <2>1, <2>4, <2>5
<1>6. Overlooked(j) \subseteq Overlooked(i)
  <2> SUFFICES ASSUME NEW g \in Overlooked(j) PROVE g \in Overlooked(i)
    OBVIOUS
  <2>1. /\ g \in i.stayed /\ g \in S /\ Rank(T, g) < i.fetch.offset
        /\ g \notin SeenBy(i.fetch)
    BY <1>1, <1>2 DEF Overlooked
  <2>2. Rank(S, g) < i.fetch.offset
    <3> HIDE DEF S, T
    <3> QED BY <1>1, <1>5, <2>1
  <2> QED BY <2>1, <2>2 DEF Overlooked
<1> HIDE DEF T, S
<1>7. Cardinality(Overlooked(j)) <= j.departures
  <2>1. /\ Cardinality(Overlooked(i)) <= i.departures /\ IsFiniteSet(Overlooked(i))
        /\ Cardinality(Overlooked(i)) \in Nat /\ Cardinality(Overlooked(j)) \in Nat
    BY <1>1, <1>4, StayedIsFinite DEF RetrievalInv
  <2>2. Cardinality(Overlooked(j)) <= Cardinality(Overlooked(i))
    BY <1>6, <2>1, FS_Subset
  <2> QED BY <1>1, <1>2, <2>1, <2>2
<1>8. RetrievalInv(j)
  BY <1>2, <1>4, <1>7 DEF RetrievalInv
<1> QED BY <1>8 DEF j

RetrievalIsKept == rule = "retrieval" => RetrievalInv(input)

\* At first nothing was passed by.
LEMMA InitKeepsRetrieval == Init => RetrievalIsKept
<1> SUFFICES ASSUME Init, rule = "retrieval" PROVE RetrievalInv(input)
  BY DEF RetrievalIsKept
<1> USE RulesAssumption
<1>1. IsRetrievalInput(input)
  BY DEF Init
<1>2. /\ input.fetch.status = "fetching" /\ input.fetch.offset = 0
      /\ DOMAIN input.fetch = {"pageSize", "max", "status", "tries", "offset", "previous",
                               "processed", "records", "rejected"}
      /\ input.fetch.processed = 0 /\ input.fetch.records = <<>> /\ input.fetch.rejected = <<>>
      /\ input.fetch.pageSize \in Nat /\ input.fetch.max \in Nat
  BY <1>1 DEF IsRetrievalInput, StartFetch
<1>3. IsFetch(input.fetch)
  BY <1>2 DEF IsFetch
<1>4. IsRetrieval(input)
  BY <1>1, <1>3 DEF IsRetrieval, IsRetrievalInput
<1>5. Overlooked(input) = {}
  <2>1. ASSUME NEW f \in Overlooked(input) PROVE FALSE
    <3>1. f \in input.source /\ Rank(input.source, f) < 0
      BY <1>2, <1>4, <2>1 DEF Overlooked, IsRetrieval
    <3>2. Rank(input.source, f) \in Nat
      BY <1>4, <3>1, RanksDiffer DEF IsRetrieval
    <3> QED BY <3>1, <3>2
  <2> QED BY <2>1
<1>6. Cardinality(Overlooked(input)) <= input.departures
  BY <1>1, <1>5, FS_EmptySet DEF IsRetrievalInput
<1> QED BY <1>2, <1>4, <1>6 DEF RetrievalInv

\* Every step of a retrieval and of its source keeps that.
LEMMA StepKeepsRetrieval == RetrievalIsKept /\ [Next]_vars => RetrievalIsKept'
<1> SUFFICES ASSUME RetrievalIsKept, [Next]_vars, rule' = "retrieval"
             PROVE  RetrievalInv(input')
  BY DEF RetrievalIsKept
<1>1. CASE DayPasses \/ UNCHANGED vars
  BY <1>1 DEF DayPasses, vars, RetrievalIsKept
<1>2. CASE QueueStep
  <2>1. rule = "queue" /\ rule' = rule
    BY <1>2 DEF QueueStep, SaveBuyBox, RecordRestriction, RecordConflict, RecordOwnerStatus,
                ReceiveSnapshot, Settle, Release, ReceiveEvidence, ChangeDeal, Change
  <2> QED BY <2>1
<1>3. CASE GateStep
  <2>1. rule = "gate" /\ rule' = rule
    BY <1>3 DEF GateStep, Move, Decide, Ask, Revoke, SwitchOff, LoseOutcome,
                ReplaceEvidence, Prepare, EvaluatePolicy, Change
  <2> QED BY <2>1
<1>4. CASE WindowStep
  <2>1. rule = "window" /\ rule' = rule
    BY <1>4 DEF WindowStep, UpdateWindow, UpdateDealGate, Change
  <2> QED BY <2>1
<1>5. CASE ClockStep
  <2>1. rule = "clock" /\ rule' = rule
    BY <1>5 DEF ClockStep, Trigger, Change
  <2> QED BY <2>1
<1>6. CASE RetrievalStep
  <2>1. RetrievalInv(input) /\ input.fetch.status = "fetching"
    BY <1>6 DEF RetrievalStep, RetrievalIsKept
  <2>2. CASE PageArrives
    BY <2>1, <2>2, PageKeepsRetrieval DEF PageArrives, Change
  <2>3. CASE RequestFails
    BY <2>1, <2>3, FailureKeepsRetrieval DEF RequestFails, Change
  <2>4. CASE SourceMoves
    <3>1. CASE \E f \in input.source :
                 Change("retrieval", [input EXCEPT !.source = @ \ {f}, !.stayed = @ \ {f},
                                                   !.departures = @ + 1])
      <4>1. PICK f \in input.source :
              input' = [input EXCEPT !.source = @ \ {f}, !.stayed = @ \ {f},
                                     !.departures = @ + 1]
        BY <3>1 DEF Change
      <4>2. RetrievalInv([input EXCEPT !.source = @ \ {f}, !.stayed = @ \ {f},
                                       !.departures = @ + 1])
        BY <2>1, DepartureKeepsRetrieval
      <4> QED BY <4>1, <4>2, Zenon
    <3>2. CASE \E f \in Parcels :
                 /\ \A g \in input.source : g.object # f.object /\ g.identity # f.identity
                 /\ Change("retrieval", [input EXCEPT !.source = @ \cup {f}])
      BY <2>1, <3>2, ArrivalKeepsRetrieval, RulesAssumption DEF Change
    <3> QED BY <2>4, <3>1, <3>2 DEF SourceMoves
  <2> QED BY <1>6, <2>2, <2>3, <2>4 DEF RetrievalStep
<1> QED BY <1>1, <1>2, <1>3, <1>4, <1>5, <1>6 DEF Next

\* Whatever the size of the pages, the limit of the run and what the source holds: no
\* parcel is a record twice, and at most one is overlooked for each that left.
THEOREM NoParcelIsOverlooked == Spec => []NothingIsOverlooked
<1>1. Spec => []RetrievalIsKept
  BY InitKeepsRetrieval, StepKeepsRetrieval, PTL DEF Spec
<1>2. RetrievalIsKept => NothingIsOverlooked
  BY DEF RetrievalIsKept, RetrievalInv, IsRetrieval, IsFetch, SeenBy, NothingIsOverlooked
<1> QED BY <1>1, <1>2, PTL

-----------------------------------------------------------------------------
(* Risks that become known, and evidence that grows old.                   *)

\* What is current later was current before, unless it was dated ahead.
LEMMA CurrentBefore ==
  ASSUME NEW date \in Int, NEW today \in Int, NEW later \in Int, NEW age \in Int,
         date <= today, today <= later, IsCurrent(date, later, age)
  PROVE  IsCurrent(date, today, age)
BY DEF IsCurrent

\* Of assertions that are not dated ahead one supersedes all.
LEMMA OneSupersedes ==
  ASSUME NEW S, S # {}, \A a \in S : IsAssertion(a), NEW today \in Int,
         \A a \in S : a.verified <= today /\ a.retrieved <= today
  PROVE  \E a \in S : \A b \in S : Supersedes(a, b)
<1>1. \A a \in S : /\ a.verified \in Int /\ a.retrieved \in Int /\ a.id \in Nat /\ a.at \in Nat
                   /\ today - a.verified \in Nat /\ today - a.retrieved \in Nat
  BY DEF IsAssertion
<1> DEFINE Ages1 == {today - a.verified : a \in S}
<1>2. PICK v \in Ages1 : \A n \in Ages1 : v <= n
  <2>1. Ages1 \subseteq Nat /\ Ages1 # {}
    BY <1>1
  <2> HIDE DEF Ages1
  <2> QED BY <2>1, LeastNat
<1> DEFINE Last1 == {a \in S : today - a.verified = v}
           Ages2 == {today - a.retrieved : a \in Last1}
           Places == {a.at : a \in Last1}
<1>3. PICK r \in Ages2 : \A n \in Ages2 : r <= n
  <2>1. Last1 # {}
    BY <1>2
  <2>2. Ages2 \subseteq Nat /\ Ages2 # {}
    BY <1>1, <2>1
  <2> HIDE DEF Ages2
  <2> QED BY <2>2, LeastNat
<1> DEFINE Last2 == {a \in Last1 : today - a.retrieved = r}
           Ids == {a.id : a \in Last2}
<1>4. PICK m \in Ids : \A n \in Ids : m <= n
  <2>1. Last2 # {}
    BY <1>3
  <2>2. Ids \subseteq Nat /\ Ids # {}
    BY <1>1, <2>1
  <2> HIDE DEF Ids
  <2> QED BY <2>2, LeastNat
<1>5. PICK a \in Last2 : a.id = m
  BY <1>4
<1>6. a \in S /\ today - a.verified = v /\ today - a.retrieved = r
  BY <1>5
<1>7. ASSUME a.verified # Absent, NEW b \in S PROVE Supersedes(a, b)
  <2>1. /\ a.verified \in Int /\ b.verified \in Int /\ a.retrieved \in Int
        /\ b.retrieved \in Int /\ a.id \in Nat /\ b.id \in Nat
    BY <1>1, <1>6, <1>7
  <2>2. v <= today - b.verified
    BY <1>2, <1>7
  <2>3. b.verified = a.verified => r <= today - b.retrieved
    <3> SUFFICES ASSUME b.verified = a.verified PROVE r <= today - b.retrieved
      OBVIOUS
    <3>1. b \in Last1
      BY <1>6, <1>7
    <3> QED BY <1>3, <3>1
  <2>4. b.verified = a.verified /\ b.retrieved = a.retrieved => m <= b.id
    <3> SUFFICES ASSUME b.verified = a.verified, b.retrieved = a.retrieved PROVE m <= b.id
      OBVIOUS
    <3>1. b \in Last2
      BY <1>6, <1>7
    <3> QED BY <1>4, <3>1
  <2> HIDE DEF Last2
  <2> QED BY <1>5, <1>6, <1>7, <2>1, <2>2, <2>3, <2>4 DEF Supersedes
<1>8. CASE a.verified = Absent
  <2>1. PICK k \in Places : \A n \in Places : k <= n
    <3>1. Last1 # {}
      BY <1>2
    <3>2. Places \subseteq Nat /\ Places # {}
      BY <1>1, <3>1
    <3> HIDE DEF Places
    <3> QED BY <3>2, LeastNat
  <2>2. PICK c \in Last1 : c.at = k
    BY <2>1
  <2>3. c \in S /\ today - c.verified = v
    BY <2>2
  <2>4. c.verified = Absent
    BY <1>1, <1>6, <1>8, <2>3
  <2>5. ASSUME NEW b \in S PROVE Supersedes(c, b)
    <3>1. c.verified \in Int /\ b.verified \in Int /\ v <= today - b.verified
      BY <1>1, <1>2, <2>3, <2>5
    <3>2. b.verified = c.verified => k <= b.at
      <4> SUFFICES ASSUME b.verified = c.verified PROVE k <= b.at
        OBVIOUS
      <4>1. b \in Last1
        BY <2>3, <2>5
      <4> QED BY <2>1, <4>1
    <3> HIDE DEF Last1
    <3> QED BY <2>2, <2>3, <2>4, <3>1, <3>2 DEF Supersedes
  <2> QED BY <2>3, <2>5
<1>9. CASE a.verified # Absent
  BY <1>6, <1>7, <1>9
<1> QED BY <1>8, <1>9

\* What may be selected of a deal is not dated ahead, nor is the rest of its evidence.
SourcesAreDatedBy(deal, today) ==
  \A a \in deal.sources : ~a.restricted => a.verified <= today /\ a.retrieved <= today

IsDatedBy(deal, context, today) ==
  /\ SourcesAreDatedBy(deal, today)
  /\ \A part \in Parts : context[part] # None => context[part].verified <= today
  /\ \A b \in context.buyers : b.verified <= today

\* What the components of a deal may become without research: a score is what it was
\* or is missing, and the demand of buyers may be lost.
Ages(e, f) ==
  /\ f.propertyFit = e.propertyFit
  /\ \A c \in {"financialFeasibility", "marketability", "sellerProvidedFit"} :
       f[c] \in {e[c], Unassessed}
  /\ f.buyerDemand.score # Absent => e.buyerDemand.score # Absent
  /\ e.buyerDemand.score \in {Absent, 0} => f.buyerDemand.score \in {Absent, 0}
  /\ \A c \in {"buyerDemand", "dataQuality"} : ~e[c].blocks /\ ~f[c].blocks
  /\ f.dataQuality.score # Absent => f.dataQuality = e.dataQuality
  /\ f.dataQuality.freshness = "Fresh" => e.dataQuality.freshness = "Fresh"

\* The selected assertion is one of the deal, if there is any to select.
LEMMA AssertionIsOfDeal ==
  ASSUME NEW deal, IsDeal(deal), NEW today \in Int,
         SourcesAreDatedBy(deal, today)
  PROVE  \/ SelectedAssertion(deal) = NoAssertion
         \/ SelectedAssertion(deal) \in deal.sources /\ ~SelectedAssertion(deal).restricted
<1> DEFINE eligible == {a \in deal.sources : ~a.restricted}
<1>1. CASE eligible = {}
  BY <1>1 DEF SelectedAssertion
<1>2. CASE eligible # {}
  <2>1. \A b \in eligible : IsAssertion(b) /\ b.verified <= today /\ b.retrieved <= today
    BY DEF IsDeal, SourcesAreDatedBy
  <2>2. \A b \in eligible : b \in deal.sources /\ ~b.restricted
    OBVIOUS
  <2>3. SelectedAssertion(deal) = CHOOSE b \in eligible : \A c \in eligible : Supersedes(b, c)
    BY <1>2, Zenon DEF SelectedAssertion
  <2> HIDE DEF eligible
  <2>4. \E b \in eligible : \A c \in eligible : Supersedes(b, c)
    BY <1>2, <2>1, OneSupersedes
  <2> QED BY <2>2, <2>3, <2>4
<1> QED BY <1>1, <1>2

\* Provenance: the same assertion is selected, since what is new is restricted.
LEMMA QualityAges ==
  ASSUME NEW deal, IsDeal(deal), NEW next, OnlyRisks(deal, next), IsDeal(next),
         NEW box, box.maxAge \in Int,
         NEW today \in Int, NEW later \in Int, today <= later,
         SourcesAreDatedBy(deal, today)
  PROVE  LET q == DataQuality(deal, box, today)
             r == DataQuality(next, box, later)
         IN  /\ ~q.blocks /\ ~r.blocks
             /\ r.score # Absent => r = q
             /\ r.freshness = "Fresh" => q.freshness = "Fresh"
<1> DEFINE eligible == {a \in deal.sources : ~a.restricted}
           a == SelectedAssertion(deal)
<1>1. eligible = {b \in next.sources : ~b.restricted}
  BY DEF OnlyRisks
<1>2. SelectedAssertion(next) = a
  <2> DEFINE Eligible(x) == {b \in x.sources : ~b.restricted}
             Newest(S) == IF S = {} THEN NoAssertion
                          ELSE CHOOSE b \in S : \A c \in S : Supersedes(b, c)
  <2>1. \A x : SelectedAssertion(x) = Newest(Eligible(x))
    BY Zenon DEF SelectedAssertion
  <2>2. Eligible(next) = Eligible(deal)
    BY <1>1
  <2> HIDE DEF Eligible, Newest
  <2> QED BY <2>1, <2>2
<1>3. a = NoAssertion \/ (a \in deal.sources /\ ~a.restricted)
  BY AssertionIsOfDeal
<1>4. a.verified = Absent \/ (a.verified \in Int /\ a.verified <= today)
  BY <1>3 DEF NoAssertion, IsDeal, IsAssertion, SourcesAreDatedBy
<1>5. Freshness(a.verified, later, box.maxAge) = "Fresh" =>
        Freshness(a.verified, today, box.maxAge) = "Fresh"
  BY <1>4 DEF Freshness, Absent
<1>6. deal.conflicts \in Nat /\ next.conflicts \in Nat /\ deal.conflicts <= next.conflicts
  BY DEF IsDeal, OnlyRisks
<1> HIDE DEF a, eligible
<1> DEFINE q == DataQuality(deal, box, today)
           r == DataQuality(next, box, later)
<1>7. r.freshness = "Fresh" => q.freshness = "Fresh"
  BY <1>2, <1>5 DEF DataQuality, a
<1>8. ~q.blocks /\ ~r.blocks
  BY DEF DataQuality
<1>9. ASSUME r.score # Absent PROVE r = q
  <2>1. /\ Freshness(a.verified, later, box.maxAge) = "Fresh" /\ next.conflicts = 0
    BY <1>2, <1>9 DEF DataQuality, a
  <2>2. Freshness(a.verified, today, box.maxAge) = "Fresh" /\ deal.conflicts = 0
    BY <1>5, <1>6, <2>1
  <2> QED BY <1>2, <2>1, <2>2 DEF DataQuality, a
<1> QED BY <1>7, <1>8, <1>9

\* The demand of buyers: who is verified later was verified before.
LEMMA DemandAges ==
  ASSUME NEW deal, IsDeal(deal), NEW next, OnlyRisks(deal, next), NEW buyers,
         NEW financial, NEW financialLater,
         financialLater.score # Absent => financial.score # Absent,
         NEW box, box.maxAge \in Int,
         NEW today \in Int, NEW later \in Int, today <= later,
         \A b \in buyers : /\ b.verified \in Int /\ b.expires \in Int
                           /\ b.verified <= today /\ CriteriaAreComplete(b)
  PROVE  LET q == BuyerDemand(deal, buyers, financial, box, today)
             r == BuyerDemand(next, buyers, financialLater, box, later)
         IN  /\ ~q.blocks /\ ~r.blocks
             /\ r.score # Absent => q.score # Absent
             /\ q.score \in {Absent, 0} => r.score \in {Absent, 0}
             /\ r.score \in {Absent, 0, 100}
<1> DEFINE Verified(t) == {b \in buyers : b.proof /\ NotExpired(b.expires, t)
                                          /\ IsCurrent(b.verified, t, box.maxAge)}
           Complete(x, f) == /\ x.type # None /\ x.price # Absent
                             /\ x.rehab # None /\ x.strategies # {}
                             /\ {x.market, x.city} # {None} /\ f.score # Absent
           Demand(x, f, t) ==
             IF Complete(x, f) /\ Verified(t) # {} /\ \A b \in Verified(t) : CriteriaAreComplete(b)
             THEN [score |-> IF \E b \in Verified(t) : BuyerMatchesDeal(b, x) THEN 100 ELSE 0,
                   blocks |-> FALSE]
             ELSE Unassessed
           q == BuyerDemand(deal, buyers, financial, box, today)
           r == BuyerDemand(next, buyers, financialLater, box, later)
<1>1. q = Demand(deal, financial, today) /\ r = Demand(next, financialLater, later)
  BY Zenon DEF BuyerDemand
<1>2. Verified(later) \subseteq Verified(today) /\ \A t : Verified(t) \subseteq buyers
  <2>1. \A b \in buyers : IsCurrent(b.verified, later, box.maxAge) =>
                            IsCurrent(b.verified, today, box.maxAge)
    BY CurrentBefore
  <2>2. \A b \in buyers : NotExpired(b.expires, later) => NotExpired(b.expires, today)
    BY DEF NotExpired
  <2> QED BY <2>1, <2>2
<1>3. /\ next.state = deal.state /\ next.market = deal.market /\ next.city = deal.city
      /\ next.type = deal.type /\ next.rehab = deal.rehab /\ next.price = deal.price
      /\ next.strategies = deal.strategies
  BY DEF IsDeal, OnlyRisks
<1>4. \A b : BuyerMatchesDeal(b, next) <=> BuyerMatchesDeal(b, deal)
  BY <1>3 DEF BuyerMatchesDeal
<1>5. Complete(next, financialLater) => Complete(deal, financial)
  BY <1>3
<1>6. \A t : \A b \in Verified(t) : CriteriaAreComplete(b)
  BY <1>2
<1> HIDE DEF Verified, Complete, q, r
<1>7. ~q.blocks /\ ~r.blocks /\ r.score \in {Absent, 0, 100}
  BY <1>1 DEF Unassessed
<1>8. r.score # Absent => q.score # Absent
  BY <1>1, <1>2, <1>5, <1>6 DEF Unassessed, Absent
<1>9. ASSUME q.score \in {Absent, 0} PROVE r.score \in {Absent, 0}
  <2>1. CASE q.score = Absent
    BY <1>8, <2>1
  <2>2. CASE q.score = 0 /\ r.score # Absent
    <3>1. ~ \E b \in Verified(today) : BuyerMatchesDeal(b, deal)
      BY <1>1, <2>2 DEF Unassessed, Absent
    <3>2. ~ \E b \in Verified(later) : BuyerMatchesDeal(b, next)
      BY <1>2, <1>4, <3>1
    <3> QED BY <1>1, <3>2 DEF Unassessed
  <2> QED BY <1>9, <2>1, <2>2
<1> QED BY <1>7, <1>8, <1>9 DEF q, r

\* All components.
LEMMA ComponentsAge ==
  ASSUME NEW deal, IsDeal(deal), NEW next, OnlyRisks(deal, next), IsDeal(next),
         NEW context, IsContext(context), NEW box, BuyBoxIsValid(box),
         NEW today \in Int, NEW later \in Int, today <= later,
         IsDatedBy(deal, context, today),
         \A b \in context.buyers : CriteriaAreComplete(b)
  PROVE  Ages(Evaluate(deal, box, today, context), Evaluate(next, box, later, context))
<1> DEFINE e == Evaluate(deal, box, today, context)
           f == Evaluate(next, box, later, context)
<1>1. box.maxAge \in Int
  BY DEF BuyBoxIsValid
<1>2. ASSUME NEW part \in Parts, context[part] # None
      PROVE  IsCurrent(context[part].verified, later, box.maxAge) =>
               IsCurrent(context[part].verified, today, box.maxAge)
  <2>1. context[part].verified \in Int /\ context[part].verified <= today
    BY <1>2 DEF IsContext, IsEvidence, IsDatedBy
  <2> QED BY <1>1, <2>1, CurrentBefore
<1>3. /\ context["financial"] = context.financial /\ context["market"] = context.market
      /\ context["seller"] = context.seller
      /\ "financial" \in Parts /\ "market" \in Parts /\ "seller" \in Parts
  BY DEF Parts
<1>4. f.propertyFit = e.propertyFit
  <2>1. /\ next.state = deal.state /\ next.market = deal.market /\ next.city = deal.city
        /\ next.type = deal.type /\ next.rehab = deal.rehab
    BY DEF IsDeal, OnlyRisks
  <2>2. PropertyFit(next, box) = PropertyFit(deal, box)
    BY <2>1 DEF PropertyFit
  <2> QED BY <2>2 DEF Evaluate
<1>5. f.financialFeasibility \in {e.financialFeasibility, Unassessed}
  <2> DEFINE F(t) == Financial(context.financial, box, t)
  <2>1. CASE ~FinancialIsTrusted(context.financial, box, later)
    <3>1. F(later) = Unassessed
      BY <2>1, Zenon DEF Financial
    <3> QED BY <3>1 DEF Evaluate
  <2>2. CASE FinancialIsTrusted(context.financial, box, later)
    <3>1. FinancialIsTrusted(context.financial, box, today)
      BY <1>2, <1>3, <2>2 DEF FinancialIsTrusted
    <3>2. F(later) = F(today)
      BY <2>2, <3>1, Zenon DEF Financial
    <3> QED BY <3>2 DEF Evaluate
  <2> QED BY <2>1, <2>2
<1>6. f.marketability \in {e.marketability, Unassessed}
  BY <1>2, <1>3 DEF Evaluate, Marketability
<1>7. f.sellerProvidedFit \in {e.sellerProvidedFit, Unassessed}
  BY <1>2, <1>3 DEF Evaluate, SellerProvidedFit
<1>8. /\ f.dataQuality.score # Absent => f.dataQuality = e.dataQuality
      /\ f.dataQuality.freshness = "Fresh" => e.dataQuality.freshness = "Fresh"
      /\ ~e.dataQuality.blocks /\ ~f.dataQuality.blocks
  <2>1. SourcesAreDatedBy(deal, today)
    BY DEF IsDatedBy
  <2> QED BY <1>1, <2>1, QualityAges DEF Evaluate
<1>9. /\ f.buyerDemand.score # Absent => e.buyerDemand.score # Absent
      /\ e.buyerDemand.score \in {Absent, 0} => f.buyerDemand.score \in {Absent, 0}
      /\ ~e.buyerDemand.blocks /\ ~f.buyerDemand.blocks
  <2>1. f.financialFeasibility.score # Absent => e.financialFeasibility.score # Absent
    BY <1>5 DEF Unassessed
  <2>2. \A b \in context.buyers : /\ b.verified \in Int /\ b.expires \in Int
                                  /\ b.verified <= today /\ CriteriaAreComplete(b)
    BY DEF IsContext, IsDatedBy
  <2>3. /\ e.financialFeasibility = Financial(context.financial, box, today)
        /\ f.financialFeasibility = Financial(context.financial, box, later)
        /\ e.buyerDemand = BuyerDemand(deal, context.buyers,
                                       Financial(context.financial, box, today), box, today)
        /\ f.buyerDemand = BuyerDemand(next, context.buyers,
                                       Financial(context.financial, box, later), box, later)
    BY DEF Evaluate
  <2> HIDE DEF e, f
  <2> QED BY <1>1, <2>1, <2>2, <2>3, DemandAges
<1> HIDE DEF e, f
<1>10. Ages(e, f)
  BY <1>4, <1>5, <1>6, <1>7, <1>8, <1>9 DEF Ages
<1> QED BY <1>10 DEF e, f

\* What makes research urgent, of conflicts and components.
IsUrgent(deal, e) ==
  \/ deal.conflicts > 0
  \/ \E c \in {"propertyFit", "financialFeasibility", "marketability"} :
       e[c].score = Absent \/ e[c].blocks
  \/ e.dataQuality.score = Absent \/ e.dataQuality.freshness # "Fresh"
  \/ e.buyerDemand.score \in {Absent, 0}

\* It is what the words of the tasks say.
LEMMA UrgentIsHigh ==
  ASSUME NEW deal, NEW e, NEW box
  PROVE  IsHighResearch(deal, ResearchTasks(deal, e, box)) <=> IsUrgent(deal, e)
<1> DEFINE tasks == ResearchTasks(deal, e, box)
           Works == {"propertyFit", "financialFeasibility", "marketability"}
<1>1. 3 \in tasks <=> e.dataQuality.score = Absent
  BY DEF ResearchTasks
<1>2. 4 \in tasks <=> \E c \in Works : e[c].score = Absent \/ e[c].blocks
  BY DEF ResearchTasks
<1>3. 5 \in tasks <=> e.buyerDemand.score \in {Absent, 0}
  BY DEF ResearchTasks
<1>4. 6 \in tasks <=> e.dataQuality.freshness # "Fresh"
  BY DEF ResearchTasks
<1> HIDE DEF tasks
<1>5. tasks \cap 3 .. 6 # {} <=> 3 \in tasks \/ 4 \in tasks \/ 5 \in tasks \/ 6 \in tasks
  <2>1. 3 .. 6 = {3, 4, 5, 6}
    OBVIOUS
  <2> QED BY <2>1
<1> QED BY <1>1, <1>2, <1>3, <1>4, <1>5 DEF IsHighResearch, IsUrgent, tasks

\* The scores of work that is not urgent are high, but for the seller's.
LEMMA OrdinaryScores ==
  ASSUME NEW deal, IsDeal(deal), NEW context, IsContext(context),
         NEW box, IsBox(box), BuyBoxIsValid(box), NEW today \in Int,
         SourcesAreDatedBy(deal, today),
         ~IsUrgent(deal, Evaluate(deal, box, today, context))
  PROVE  LET e == Evaluate(deal, box, today, context)
         IN  /\ \A c \in Components \ {"sellerProvidedFit"} :
                  e[c].score \in Percent /\ e[c].score >= 16
             /\ e.buyerDemand.score = 100
             /\ e.dataQuality.subtotal \in {80, 90, 100}
<1> DEFINE e == Evaluate(deal, box, today, context)
           financial == context.financial
<1>1. /\ \A c \in {"propertyFit", "financialFeasibility", "marketability"} :
           e[c].score # Absent /\ ~e[c].blocks
      /\ e.dataQuality.score # Absent /\ e.buyerDemand.score \notin {Absent, 0}
  BY DEF IsUrgent
<1>2. e.propertyFit.score = 100
  <2>1. e.propertyFit.score # Absent /\ ~e.propertyFit.blocks
    BY <1>1
  <2> QED BY <2>1 DEF Evaluate, PropertyFit
<1>3. e.marketability.score \in Percent /\ e.marketability.score >= 16
  <2>1. e.marketability.score # Absent /\ ~e.marketability.blocks
    BY <1>1
  <2>2. e.marketability = Marketability(context.market, box, today)
    BY DEF Evaluate
  <2> HIDE DEF e
  <2>3. e.marketability = [score |-> context.market.comparables,
                           blocks |-> context.market.comparables < 75]
        /\ context.market.comparables \in 0 .. 100
    BY <2>1, <2>2 DEF Marketability, Unassessed
  <2>4. e.marketability.score = context.market.comparables
        /\ e.marketability.blocks = (context.market.comparables < 75)
    BY <2>3
  <2>5. ~(context.market.comparables < 75)
    BY <2>1, <2>4, Zenon
  <2>6. \A n \in 0 .. 100 : ~(n < 75) => n >= 16
    OBVIOUS
  <2> QED BY <2>3, <2>4, <2>5, <2>6 DEF Percent
<1>4. e.buyerDemand.score = 100
  <2>1. e.buyerDemand.score \in {Absent, 0, 100}
    BY DEF Evaluate, BuyerDemand, Unassessed
  <2> QED BY <1>1, <2>1
<1>5. e.dataQuality.score \in Percent /\ e.dataQuality.score >= 16
      /\ e.dataQuality.subtotal \in {80, 90, 100}
  <2>1. DataQuality(deal, box, today).score # Absent
    BY <1>1 DEF Evaluate
  <2>2. SelectedAssertion(deal).confidence \in {0, 1, 2}
    <3>1. SelectedAssertion(deal).confidence # Absent
      BY <2>1 DEF DataQuality
    <3>2. SelectedAssertion(deal) # NoAssertion
      BY <3>1 DEF NoAssertion
    <3>3. SelectedAssertion(deal) \in deal.sources
      BY <3>2, AssertionIsOfDeal
    <3> QED BY <3>1, <3>3 DEF IsDeal, IsAssertion
  <2>3. DataQuality(deal, box, today).score = DataQuality(deal, box, today).subtotal
        /\ DataQuality(deal, box, today).subtotal \in {80, 90, 100}
    BY <2>1, <2>2 DEF DataQuality
  <2> QED BY <2>3 DEF Evaluate, Percent
<1>6. e.financialFeasibility.score \in Percent /\ e.financialFeasibility.score >= 16
  <2> DEFINE F == Financial(financial, box, today)
             t == box.thresholds
             points == Passes(financial.value <= t.maximumValue)
                      + Passes(Within(financial.price, box.min, box.max))
                      + Tier(financial.equity, t.minimumEquity, t.preferredEquity)
                      + Tier(financial.spread, t.minimumSpread, t.preferredSpread)
                      + Tier(financial.profit, t.minimumProfit, t.preferredProfit)
                      + Passes(financial.margin >= t.minimumMargin)
  <2>1. F.score # Absent /\ ~F.blocks
    <3>1. e.financialFeasibility = F
      BY DEF Evaluate
    <3> QED BY <1>1, <3>1
  <2>2. FinancialIsTrusted(financial, box, today)
    BY <2>1, Zenon DEF Financial, Unassessed
  <2>3. /\ F.score = Rounded(100 * points, 12)
        /\ ~(financial.spread < t.minimumSpread) /\ ~(financial.profit < t.minimumProfit)
    <3>1. F = [score |-> Rounded(100 * points, 12),
               blocks |-> financial.spread < t.minimumSpread
                            \/ financial.profit < t.minimumProfit]
      BY <2>2, Zenon DEF Financial
    <3> HIDE DEF F, points
    <3> QED BY <2>1, <3>1
  <2>4. /\ financial.spread \in Int /\ financial.profit \in Int
        /\ t.minimumSpread \in Int /\ t.minimumProfit \in Int
    BY <2>2 DEF FinancialIsTrusted, IsContext, IsEvidence, Parts, IsBox
  <2>5. /\ \A condition : Passes(condition) \in 0 .. 2
        /\ \A value, minimum, preferred : Tier(value, minimum, preferred) \in 0 .. 2
        /\ Tier(financial.spread, t.minimumSpread, t.preferredSpread) >= 1
        /\ Tier(financial.profit, t.minimumProfit, t.preferredProfit) >= 1
    BY <2>3, <2>4 DEF Passes, Tier
  <2>6. points \in 2 .. 12
    BY <2>5
  <2>7. \A n \in 2 .. 12 : Rounded(100 * n, 12) \in Percent /\ Rounded(100 * n, 12) >= 16
    BY RoundedIsBounded DEF Percent, Rounded
  <2>8. F.score \in Percent /\ F.score >= 16
    <3> HIDE DEF F, points
    <3> QED BY <2>3, <2>6, <2>7
  <2> QED BY <2>8 DEF Evaluate
<1>7. e.propertyFit.score \in Percent
  BY <1>2 DEF Percent
<1> HIDE DEF e
<1>8. e.buyerDemand.score \in Percent
  BY <1>4 DEF Percent
<1>9. \A c \in Components \ {"sellerProvidedFit"} : e[c].score \in Percent /\ e[c].score >= 16
  BY <1>2, <1>3, <1>4, <1>5, <1>6, <1>7, <1>8 DEF Components
<1> QED BY <1>4, <1>5, <1>9 DEF e

\* A mean of scores that are high enough is, too.
LEMMA WeightedScoreIsHigh ==
  ASSUME NEW e, NEW box, \A c \in Components : box.weights[c] \in Nat /\ box.weights[c] > 0,
         \A c \in Components \ {"sellerProvidedFit"} : e[c].score \in Percent /\ e[c].score >= 16,
         e.sellerProvidedFit.score = Absent
  PROVE  WeightedScore(e, box) >= 16
<1> DEFINE weight == [c \in Components |-> IF IsIncluded(e, box, c) THEN box.weights[c] ELSE 0]
           weighted == [c \in Components |-> e[c].score * weight[c]]
<1>1. /\ \A c \in Components \ {"sellerProvidedFit"} : IsIncluded(e, box, c)
      /\ ~IsIncluded(e, box, "sellerProvidedFit")
  BY DEF IsIncluded, Percent, Absent
<1>2. /\ \A c \in Components \ {"sellerProvidedFit"} : weight[c] \in Nat /\ weight[c] > 0
      /\ weight["sellerProvidedFit"] = 0
  BY <1>1 DEF Components
<1>3. /\ \A c \in Components \ {"sellerProvidedFit"} :
           weighted[c] \in Nat /\ 16 * weight[c] <= weighted[c]
      /\ weighted["sellerProvidedFit"] = 0
  <2>1. ASSUME NEW c \in Components \ {"sellerProvidedFit"}
        PROVE  weighted[c] \in Nat /\ 16 * weight[c] <= weighted[c]
    <3>1. weighted[c] = e[c].score * weight[c]
      OBVIOUS
    <3>2. e[c].score \in Nat /\ weight[c] \in Nat /\ 16 <= e[c].score
      BY <1>2 DEF Percent
    <3> HIDE DEF weight, weighted
    <3>3. 16 * weight[c] <= e[c].score * weight[c] /\ e[c].score * weight[c] \in Nat
      BY <3>2, ProductsGrow
    <3> QED BY <3>1, <3>3
  <2>2. weighted["sellerProvidedFit"] = 0
    BY <1>2 DEF Components, Absent
  <2> QED BY <2>1, <2>2
<1>4. WeightedScore(e, box) = Rounded(Total(weighted), Total(weight))
  <2>1. "propertyFit" \in Components \ {"sellerProvidedFit"}
    BY DEF Components
  <2> QED BY <1>1, <2>1 DEF WeightedScore
<1> HIDE DEF weight, weighted
<1>5. /\ Total(weight) \in Nat /\ Total(weight) > 0 /\ Total(weighted) \in Nat
      /\ 16 * Total(weight) <= Total(weighted)
  <2>1. /\ weight.propertyFit \in Nat /\ weight.financialFeasibility \in Nat
        /\ weight.marketability \in Nat /\ weight.buyerDemand \in Nat
        /\ weight.dataQuality \in Nat /\ weight.sellerProvidedFit = 0
        /\ weight.propertyFit > 0
    BY <1>2 DEF Components
  <2>2. /\ weighted.propertyFit \in Nat /\ weighted.financialFeasibility \in Nat
        /\ weighted.marketability \in Nat /\ weighted.buyerDemand \in Nat
        /\ weighted.dataQuality \in Nat /\ weighted.sellerProvidedFit = 0
    BY <1>3 DEF Components
  <2>3. /\ 16 * weight.propertyFit <= weighted.propertyFit
        /\ 16 * weight.financialFeasibility <= weighted.financialFeasibility
        /\ 16 * weight.marketability <= weighted.marketability
        /\ 16 * weight.buyerDemand <= weighted.buyerDemand
        /\ 16 * weight.dataQuality <= weighted.dataQuality
    BY <1>3 DEF Components
  <2> QED BY <2>1, <2>2, <2>3 DEF Total
<1>6. ASSUME NEW a \in Nat, NEW b \in Nat, b > 0, 16 * b <= a PROVE Rounded(a, b) >= 16
  <2> DEFINE q == (2 * a + b) \div (2 * b)
             r == (2 * a + b) % (2 * b)
  <2>1. 2 * a + b \in Nat /\ 2 * b \in Nat /\ 2 * b > 0
    BY <1>6
  <2>2. q \in Int /\ r \in 0 .. 2 * b - 1 /\ 2 * a + b = (2 * b) * q + r
    BY <1>6, <2>1, Z3
  <2> HIDE DEF q, r
  <2>3. SUFFICES ASSUME q <= 15 PROVE FALSE
    BY <2>2 DEF Rounded, q
  <2>4. (2 * b) * q <= (2 * b) * 15
    BY <2>1, <2>2, <2>3, Z3
  <2> QED BY <1>6, <2>1, <2>2, <2>4, Z3
<1> QED BY <1>4, <1>5, <1>6

\* The fourth roots of products as small as those of ordinary work.
LEMMA OrdinaryRoots ==
  ASSUME NEW p \in Nat, p <= 6000000
  PROVE  FourthRoot(p) \in 0 .. 49 /\ (480000 <= p => FourthRoot(p) >= 25)
<1> DEFINE r == FourthRoot(p)
<1>1. /\ Pow4(49) \in Nat /\ Pow4(99) \in Nat /\ Pow4(100) \in Nat
      /\ Pow4(49) < 16 * 480000 /\ 16 * 6000000 < Pow4(99) /\ 6000000 <= Pow4(100)
  BY SMT DEF Pow4
<1>2. p <= Pow4(100)
  BY <1>1, SMT
<1>3. /\ r \in 0 .. 100 /\ 16 * p < Pow4(2 * r + 1)
      /\ r = 0 \/ Pow4(2 * r - 1) <= 16 * p
  BY <1>2, FourthRootIsBounded
<1> HIDE DEF r
<1>4. r <= 49
  <2>1. SUFFICES ASSUME r >= 50 PROVE FALSE
    BY <1>3
  <2>2. 2 * r - 1 \in Nat /\ 99 \in Nat /\ 99 <= 2 * r - 1
    BY <1>3, <2>1
  <2>3. Pow4(99) <= Pow4(2 * r - 1) /\ Pow4(2 * r - 1) \in Nat
    BY <2>2, FourthPowersGrow
  <2>4. Pow4(2 * r - 1) <= 16 * p
    BY <1>3, <2>1
  <2> QED BY <1>1, <2>3, <2>4, SMT
<1>5. ASSUME 480000 <= p PROVE r >= 25
  <2>1. SUFFICES ASSUME r <= 24 PROVE FALSE
    BY <1>3
  <2>2. 2 * r + 1 \in Nat /\ 49 \in Nat /\ 2 * r + 1 <= 49
    BY <1>3, <2>1
  <2>3. Pow4(2 * r + 1) <= Pow4(49) /\ Pow4(2 * r + 1) \in Nat
    BY <2>2, FourthPowersGrow
  <2> QED BY <1>1, <1>3, <1>5, <2>3, SMT
<1> QED BY <1>3, <1>4, <1>5 DEF r

\* Ordinary work is of the two lowest classes, and without the seller's part, whose
\* score may be anything, of the second.
LEMMA OrdinaryLabel ==
  ASSUME NEW deal, IsDeal(deal), ~IsCritical(deal), NEW context, IsContext(context),
         NEW box, IsBox(box), BuyBoxIsValid(box), \A c \in Components : box.weights[c] > 0,
         NEW today \in Int,
         SourcesAreDatedBy(deal, today),
         ~IsUrgent(deal, Evaluate(deal, box, today, context))
  PROVE  LET e == Evaluate(deal, box, today, context)
             label == Label(ResearchPriority(deal, WeightedScore(e, box),
                                             e.dataQuality.subtotal, ResearchTasks(deal, e, box)))
         IN  /\ label \in {0, 1}
             /\ e.sellerProvidedFit.score = Absent => label = 1
<1> DEFINE e == Evaluate(deal, box, today, context)
           score == WeightedScore(e, box)
           subtotal == e.dataQuality.subtotal
           tasks == ResearchTasks(deal, e, box)
           priority == ResearchPriority(deal, score, subtotal, tasks)
           opportunity == IF score = Absent THEN 50 ELSE score
           gap == Max({10, 100 - subtotal})
<1>1. /\ \A c \in Components \ {"sellerProvidedFit"} :
           e[c].score \in Percent /\ e[c].score >= 16
      /\ subtotal \in {80, 90, 100}
  BY OrdinaryScores
<1>2. score \in Percent \cup {Absent}
  <2>1. \A c \in Components : e[c].score \in Percent \cup {Absent}
    BY ScoresAreBounded
  <2> HIDE DEF e
  <2> QED BY <2>1, WeightedScoreIsBounded
<1>3. e.sellerProvidedFit.score = Absent => score >= 16
  <2>1. \A c \in Components : box.weights[c] \in Nat /\ box.weights[c] > 0
    BY DEF IsBox
  <2> HIDE DEF e
  <2> QED BY <1>1, <2>1, WeightedScoreIsHigh
<1>4. ~IsHighResearch(deal, tasks)
  BY UrgentIsHigh
<1> HIDE DEF e, score, subtotal, tasks
<1>5. priority = FourthRoot(opportunity * 60 * 50 * gap)
  BY <1>4 DEF ResearchPriority
<1>6. opportunity \in 0 .. 100 /\ (score >= 16 => opportunity >= 16)
  BY <1>2 DEF Percent, Absent
<1>7. gap \in {10, 20}
  <2>1. 100 - subtotal \in {0, 10, 20}
    BY <1>1
  <2> DEFINE n == 100 - subtotal
  <2> HIDE DEF n
  <2>2. n \in Int /\ n \in {0, 10, 20}
    BY <2>1 DEF n
  <2>3. Max({10, n}) \in {10, n} /\ Max({10, n}) >= 10
    <3>1. \E x \in {10, n} : \A y \in {10, n} : x >= y
      BY <2>2
    <3> QED BY <2>2, <3>1 DEF Max
  <2>4. Max({10, n}) \in {10, 20}
    BY <2>2, <2>3
  <2> QED BY <2>4 DEF n
<1> DEFINE p == opportunity * 60 * 50 * gap
<1> HIDE DEF opportunity, gap
<1>8. /\ p \in Nat /\ p <= 6000000
      /\ opportunity >= 16 => 480000 <= p
  <2>1. CASE gap = 10
    <3>1. p = opportunity * 30000
      BY <1>6, <2>1, SMT
    <3> QED BY <1>6, <3>1, SMT
  <2>2. CASE gap = 20
    <3>1. p = opportunity * 60000
      BY <1>6, <2>2, SMT
    <3> QED BY <1>6, <3>1, SMT
  <2> QED BY <1>7, <2>1, <2>2
<1> HIDE DEF p
<1>9. /\ FourthRoot(p) \in 0 .. 49
      /\ e.sellerProvidedFit.score = Absent => FourthRoot(p) >= 25
  BY <1>3, <1>6, <1>8, OrdinaryRoots
<1>10. \A n \in 0 .. 49 : Label(n) \in {0, 1} /\ (n >= 25 => Label(n) = 1)
  BY DEF Label
<1>11. priority = FourthRoot(p)
  BY <1>5 DEF p
<1> HIDE DEF priority
<1>12. Label(priority) \in {0, 1} /\ (e.sellerProvidedFit.score = Absent => Label(priority) = 1)
  BY <1>9, <1>10, <1>11
<1> QED BY <1>12 DEF priority, e, score, subtotal, tasks

\* The mean is of the scores.
LEMMA SameScoresSameMean ==
  ASSUME NEW e, NEW f, NEW box, \A c \in Components : f[c].score = e[c].score
  PROVE  WeightedScore(f, box) = WeightedScore(e, box)
<1> DEFINE weight(g) == [c \in Components |-> IF IsIncluded(g, box, c) THEN box.weights[c] ELSE 0]
           weighted(g) == [c \in Components |-> g[c].score * weight(g)[c]]
           Mean(g) == IF \A c \in Components : ~IsIncluded(g, box, c) THEN Absent
                      ELSE Rounded(Total(weighted(g)), Total(weight(g)))
<1>1. \A c \in Components : IsIncluded(f, box, c) <=> IsIncluded(e, box, c)
  BY DEF IsIncluded
<1>2. weight(f) = weight(e)
  BY <1>1
<1>3. weighted(f) = weighted(e)
  <2> HIDE DEF weight
  <2> QED BY <1>2
<1>4. Mean(f) = Mean(e)
  <2> HIDE DEF weight, weighted
  <2> QED BY <1>1, <1>2, <1>3
<1>5. WeightedScore(f, box) = Mean(f) /\ WeightedScore(e, box) = Mean(e)
  BY Zenon DEF WeightedScore
<1> QED BY <1>4, <1>5

\* What is known against a deal: all that is known of `deal' is known of `next'.
MoreRisks(deal, next) ==
  /\ Codes(deal) \subseteq Codes(next)
  /\ SpeaksOfSafety(deal) => SpeaksOfSafety(next)
  /\ deal.restrictions # <<>> => next.restrictions # <<>>
  /\ deal.owner \in {None, next.owner}
  /\ SourceIsRestricted(deal) => SourceIsRestricted(next)
  /\ Unreviewed(deal) <=> Unreviewed(next)
  /\ deal.conflicts \in Nat /\ next.conflicts \in Nat /\ deal.conflicts <= next.conflicts

\* Restrictions are appended, an owner's status is set once, sources are only added.
LEMMA RisksAdd ==
  ASSUME NEW deal, IsDeal(deal), NEW next, IsDeal(next), OnlyRisks(deal, next)
  PROVE  MoreRisks(deal, next)
<1> DEFINE s == deal.restrictions
           t == next.restrictions
<1>1. /\ s \in Seq(Restriction) /\ t \in Seq(Restriction)
      /\ Len(s) <= Len(t) /\ SubSeq(s, 1, Len(s)) = SubSeq(t, 1, Len(s))
  BY DEF IsDeal, OnlyRisks, IsPrefix
<1> HIDE DEF s, t
<1>2. \A n \in 1 .. Len(s) : n \in 1 .. Len(t) /\ s[n] = t[n]
  <2> TAKE n \in 1 .. Len(s)
  <2>1. Len(s) \in Nat /\ Len(t) \in Nat
    BY <1>1
  <2>2. n \in 1 .. Len(t)
    BY <1>1, <2>1
  <2>3. SubSeq(s, 1, Len(s))[n] = s[n]
    BY <1>1, <2>1
  <2>4. SubSeq(t, 1, Len(s))[n] = t[n]
    BY <1>1, <2>1, <2>2
  <2> QED BY <1>1, <2>2, <2>3, <2>4
<1>3. Codes(deal) \subseteq Codes(next) /\ (SpeaksOfSafety(deal) => SpeaksOfSafety(next))
  <2>1. DOMAIN s = 1 .. Len(s) /\ DOMAIN t = 1 .. Len(t)
    BY <1>1
  <2>2. Range(s) \subseteq Range(t)
    BY <1>2, <2>1 DEF Range
  <2> QED BY <2>2 DEF Codes, SpeaksOfSafety, s, t
<1>4. s # <<>> => t # <<>>
  <2>1. Len(s) \in Nat /\ (s # <<>> => Len(s) > 0)
    BY <1>1, EmptySeq
  <2> QED BY <1>1, <2>1
<1>5. SourceIsRestricted(deal) => SourceIsRestricted(next)
  BY DEF OnlyRisks, SourceIsRestricted
<1>6. Unreviewed(deal) <=> Unreviewed(next)
  <2>1. next.strategies = deal.strategies /\ next.attorney = deal.attorney
    BY DEF IsDeal, OnlyRisks
  <2> QED BY <2>1, Zenon DEF Unreviewed
<1> QED BY <1>3, <1>4, <1>5, <1>6 DEF MoreRisks, IsDeal, OnlyRisks, s, t

\* What holds a deal keeps holding it.
LEMMA HeldStays ==
  ASSUME NEW deal, NEW next, MoreRisks(deal, next)
  PROVE  /\ IsHeld(deal) => IsHeld(next)
         /\ IsCritical(deal) => IsCritical(next)
         /\ \A code \in RestrictionCodes :
              code \in Codes(deal) \cup {deal.owner} => code \in Codes(next) \cup {next.owner}
<1> USE RulesAssumption
<1>1. IsHeld(deal) => IsHeld(next)
  BY DEF IsHeld, MoreRisks
<1>2. ASSUME NEW code \in RestrictionCodes, code \in Codes(deal) \cup {deal.owner}
      PROVE  code \in Codes(next) \cup {next.owner}
  BY <1>2 DEF MoreRisks
<1>3. {"Do not contact", "Identity disputed", "Ownership stale"} \subseteq RestrictionCodes
  BY DEF RestrictionCodes, HoldOf
<1>4. SpeaksOfSafety(deal) => SpeaksOfSafety(next)
  BY DEF MoreRisks
<1> QED BY <1>1, <1>2, <1>3, <1>4 DEF IsCritical

\* Urgent research stays urgent.
LEMMA UrgentStays ==
  ASSUME NEW deal, NEW next, MoreRisks(deal, next), NEW e, NEW f, Ages(e, f),
         IsUrgent(deal, e)
  PROVE  IsUrgent(next, f)
<1>1. CASE deal.conflicts > 0
  BY <1>1 DEF IsUrgent, MoreRisks
<1>2. ASSUME NEW c \in {"propertyFit", "financialFeasibility", "marketability"},
             e[c].score = Absent \/ e[c].blocks
      PROVE  f[c].score = Absent \/ f[c].blocks
  <2>1. f[c] = e[c] \/ f[c] = Unassessed
    BY <1>2 DEF Ages
  <2> QED BY <1>2, <2>1 DEF Unassessed
<1>3. CASE e.dataQuality.score = Absent \/ e.dataQuality.freshness # "Fresh"
  BY <1>3 DEF IsUrgent, Ages
<1>4. CASE e.buyerDemand.score \in {Absent, 0}
  BY <1>4 DEF IsUrgent, Ages
<1> QED BY <1>1, <1>2, <1>3, <1>4 DEF IsUrgent

\* Who is scored now was scored before: all that is assessed was assessed the same,
\* but for the demand of buyers, which was assessed too.
LEMMA ScoredBefore ==
  ASSUME NEW deal, NEW next, MoreRisks(deal, next), NEW e, NEW f, Ages(e, f),
         NEW box, \A c \in Components : box.weights[c] > 0,
         Status(next, f, box) = "Scored"
  PROVE  /\ \A c \in Components : f[c].score # Absent /\ e[c].score # Absent
         /\ \A c \in Components \ {"buyerDemand"} : f[c] = e[c]
         /\ ~IsHeld(next) /\ ~IsHeld(deal)
         /\ Status(deal, e, box) = "Scored"
<1>1. ~IsDisqualified(next, f) /\ ~WeightedGap(f, box)
  BY Zenon DEF Status
<1>2. \A c \in Components : f[c].score # Absent /\ ~f[c].blocks
  BY <1>1 DEF IsDisqualified, WeightedGap
<1>3. ~IsHeld(next) /\ ~IsHeld(deal)
  BY <1>1, HeldStays DEF IsDisqualified
<1>4. \A c \in Components \ {"buyerDemand"} : f[c] = e[c]
  <2>1. f.propertyFit = e.propertyFit
    BY DEF Ages
  <2>2. f.dataQuality = e.dataQuality
    BY <1>2 DEF Ages, Components
  <2>3. ASSUME NEW c \in {"financialFeasibility", "marketability", "sellerProvidedFit"}
        PROVE  f[c] = e[c]
    <3>1. c \in Components
      BY DEF Components
    <3> QED BY <1>2, <3>1 DEF Ages, Unassessed
  <2> QED BY <2>1, <2>2, <2>3 DEF Components
<1>5. e.buyerDemand.score # Absent /\ ~e.buyerDemand.blocks
  BY <1>2 DEF Ages, Components
<1>6. \A c \in Components : e[c].score # Absent /\ ~e[c].blocks
  BY <1>2, <1>4, <1>5 DEF Components
<1>7. ~IsDisqualified(deal, e)
  BY <1>3, <1>6 DEF IsDisqualified
<1>8. ~WeightedGap(e, box) /\ e.dataQuality.score # Absent
  BY <1>6 DEF WeightedGap, Components
<1>9. Status(deal, e, box) = "Scored"
  BY <1>7, <1>8 DEF Status
<1> QED BY <1>2, <1>3, <1>4, <1>6, <1>9

\* What is asked of a result: its status and its compliance.
IsResultOf(result, deal, e, box) ==
  /\ result.status = Status(deal, e, box)
  /\ result.compliance =
       Compliance(deal, Unreviewed(deal), IsDisqualified(deal, e), result.status)

\* What decides on the strictness of a deal, the strictest first.
Contacts(deal) == "Do not contact" \in Codes(deal) \cup {deal.owner}
Disputes(deal) ==
  (Codes(deal) \cup {deal.owner}) \cap {"Identity disputed", "Ownership stale"} # {}
Experts(deal) == "Specialist review" \in Codes(deal) \cup {deal.owner} \/ Unreviewed(deal)
Rights(deal) ==
  "Source restricted" \in Codes(deal) \cup {deal.owner} \/ SourceIsRestricted(deal)

Strictness(deal, e, status) ==
  IF Contacts(deal) THEN 7 ELSE IF Disputes(deal) THEN 6 ELSE IF Experts(deal) THEN 5
  ELSE IF Rights(deal) THEN 4 ELSE IF IsDisqualified(deal, e) THEN 3
  ELSE IF status = "Scored" THEN 1 ELSE 2

\* The strictness of a compliance state.
LEMMA SeverityOfCompliance ==
  ASSUME NEW deal, NEW e, NEW box, NEW result, IsResultOf(result, deal, e, box)
  PROVE  /\ Severity(result) = Strictness(deal, e, result.status)
         /\ Severity(result) = 3 => result.compliance = "Offer blocked"
<1> DEFINE state == result.compliance
           disqualified == IsDisqualified(deal, e)
           status == result.status
<1>1. DOMAIN ComplianceOrder = 1 .. 7
  BY DEF ComplianceOrder
<1>2. /\ ComplianceOrder[1] = "Clear for manual review" /\ ComplianceOrder[2] = "Clear for research"
      /\ ComplianceOrder[3] = "Offer blocked" /\ ComplianceOrder[4] = "Outreach blocked"
      /\ ComplianceOrder[5] = "Transaction specialist review"
      /\ ComplianceOrder[6] = "Legal hold" /\ ComplianceOrder[7] = "Do not contact"
  BY DEF ComplianceOrder
<1>3. \A m, n \in 1 .. 7 : ComplianceOrder[m] = ComplianceOrder[n] => m = n
  <2>1. 1 .. 7 = {1, 2, 3, 4, 5, 6, 7}
    OBVIOUS
  <2> QED BY <1>2, <2>1
<1>4. ASSUME NEW n \in 1 .. 7, state = ComplianceOrder[n] PROVE Severity(result) = n
  <2>1. \A k \in DOMAIN ComplianceOrder : ComplianceOrder[k] = state <=> k = n
    BY <1>1, <1>3, <1>4
  <2>2. Severity(result) = CHOOSE k \in DOMAIN ComplianceOrder : ComplianceOrder[k] = state
    BY Zenon DEF Severity
  <2>3. n \in DOMAIN ComplianceOrder
    BY <1>1
  <2> QED BY <2>1, <2>2, <2>3
<1>5. /\ 1 \in 1 .. 7 /\ 2 \in 1 .. 7 /\ 3 \in 1 .. 7 /\ 4 \in 1 .. 7
      /\ 5 \in 1 .. 7 /\ 6 \in 1 .. 7 /\ 7 \in 1 .. 7
  OBVIOUS
<1>6. state = IF Contacts(deal) THEN "Do not contact"
              ELSE IF Disputes(deal) THEN "Legal hold"
              ELSE IF Experts(deal) THEN "Transaction specialist review"
              ELSE IF Rights(deal) THEN "Outreach blocked"
              ELSE IF disqualified THEN "Offer blocked"
              ELSE IF status = "Scored" THEN "Clear for manual review"
              ELSE "Clear for research"
  BY Zenon DEF IsResultOf, Compliance, Contacts, Disputes, Experts, Rights
<1> HIDE DEF state, status
<1>7. /\ Severity(result) = Strictness(deal, e, status)
      /\ Severity(result) = 3 => state = "Offer blocked"
  <2> USE DEF Strictness
  <2>1. CASE Contacts(deal)
    BY <1>2, <1>4, <1>5, <1>6, <2>1
  <2>2. CASE ~Contacts(deal) /\ Disputes(deal)
    BY <1>2, <1>4, <1>5, <1>6, <2>2
  <2>3. CASE ~Contacts(deal) /\ ~Disputes(deal) /\ Experts(deal)
    BY <1>2, <1>4, <1>5, <1>6, <2>3
  <2>4. CASE ~Contacts(deal) /\ ~Disputes(deal) /\ ~Experts(deal) /\ Rights(deal)
    BY <1>2, <1>4, <1>5, <1>6, <2>4
  <2>5. CASE /\ ~Contacts(deal) /\ ~Disputes(deal) /\ ~Experts(deal) /\ ~Rights(deal)
             /\ disqualified
    BY <1>2, <1>4, <1>5, <1>6, <2>5
  <2>6. CASE /\ ~Contacts(deal) /\ ~Disputes(deal) /\ ~Experts(deal) /\ ~Rights(deal)
             /\ ~disqualified
    BY <1>2, <1>4, <1>5, <1>6, <2>6
  <2> QED BY <2>1, <2>2, <2>3, <2>4, <2>5, <2>6
<1> QED BY <1>7 DEF state, status

\* With more risks a deal is held at least as strictly, unless it was an evaluation
\* that held it, and it no longer does.
LEMMA HeldAsStrictly ==
  ASSUME NEW deal, NEW next, MoreRisks(deal, next), NEW e, NEW f, Ages(e, f),
         NEW box, \A c \in Components : box.weights[c] > 0,
         NEW before, IsResultOf(before, deal, e, box), NEW after, IsResultOf(after, next, f, box)
  PROVE  \/ Severity(after) >= Severity(before)
         \/ /\ before.compliance = "Offer blocked"
            /\ IsDisqualified(deal, e) /\ ~IsDisqualified(next, f)
<1>1. /\ Contacts(deal) => Contacts(next)
      /\ Disputes(deal) => Disputes(next)
      /\ Experts(deal) => Experts(next)
      /\ Rights(deal) => Rights(next)
  <2>1. {"Do not contact", "Identity disputed", "Ownership stale", "Specialist review",
         "Source restricted"} \subseteq RestrictionCodes
    BY DEF RestrictionCodes, HoldOf
  <2>2. \A code \in RestrictionCodes :
          code \in Codes(deal) \cup {deal.owner} => code \in Codes(next) \cup {next.owner}
    BY HeldStays
  <2> QED BY <2>1, <2>2 DEF MoreRisks, Contacts, Disputes, Experts, Rights
<1>2. /\ Severity(before) = Strictness(deal, e, before.status)
      /\ Severity(before) = 3 => before.compliance = "Offer blocked"
      /\ Severity(after) = Strictness(next, f, after.status)
  BY SeverityOfCompliance
<1> DEFINE n == Severity(before)
           m == Severity(after)
<1> HIDE DEF n, m
<1>3. /\ n = Strictness(deal, e, before.status)
      /\ m = Strictness(next, f, after.status)
  BY <1>2 DEF n, m
<1>4. CASE Contacts(deal)
  <2>1. n = 7 /\ m = 7
    BY <1>1, <1>3, <1>4, Zenon DEF Strictness
  <2>2. m >= n
    BY <2>1
  <2> QED BY <2>2, Zenon DEF n, m
<1>5. CASE ~Contacts(deal) /\ Disputes(deal)
  <2>1. n = 6 /\ m \in {6, 7}
    BY <1>1, <1>3, <1>5, Zenon DEF Strictness
  <2>2. m >= n
    BY <2>1
  <2> QED BY <2>2, Zenon DEF n, m
<1>6. CASE ~Contacts(deal) /\ ~Disputes(deal) /\ Experts(deal)
  <2>1. n = 5 /\ m \in {5, 6, 7}
    BY <1>1, <1>3, <1>6, Zenon DEF Strictness
  <2>2. m >= n
    BY <2>1
  <2> QED BY <2>2, Zenon DEF n, m
<1>7. CASE ~Contacts(deal) /\ ~Disputes(deal) /\ ~Experts(deal) /\ Rights(deal)
  <2>1. n = 4 /\ m \in {4, 5, 6, 7}
    BY <1>1, <1>3, <1>7, Zenon DEF Strictness
  <2>2. m >= n
    BY <2>1
  <2> QED BY <2>2, Zenon DEF n, m
<1>8. CASE /\ ~Contacts(deal) /\ ~Disputes(deal) /\ ~Experts(deal) /\ ~Rights(deal)
           /\ IsDisqualified(deal, e)
  <2>1. n = 3
    BY <1>3, <1>8, Zenon DEF Strictness
  <2>2. before.compliance = "Offer blocked"
    BY <1>2, <2>1 DEF n
  <2>3. CASE ~IsDisqualified(next, f)
    BY <1>8, <2>2, <2>3, Zenon
  <2>4. CASE IsDisqualified(next, f)
    <3>1. m \in {3, 4, 5, 6, 7}
      BY <1>3, <2>4, Zenon DEF Strictness
    <3>2. m >= n
      BY <2>1, <3>1
    <3> QED BY <3>2, Zenon DEF n, m
  <2> QED BY <2>3, <2>4
<1>9. CASE /\ ~Contacts(deal) /\ ~Disputes(deal) /\ ~Experts(deal) /\ ~Rights(deal)
            /\ ~IsDisqualified(deal, e)
  <2>1. CASE after.status = "Scored"
    <3>1. before.status = "Scored"
      <4>1. Status(next, f, box) = "Scored"
        BY <2>1, Zenon DEF IsResultOf
      <4>2. Status(deal, e, box) = "Scored"
        BY <4>1, ScoredBefore
      <4> QED BY <4>2, Zenon DEF IsResultOf
    <3>2. n = 1 /\ m \in {1, 3, 4, 5, 6, 7}
      BY <1>3, <1>9, <2>1, <3>1, Zenon DEF Strictness
    <3>3. m >= n
      BY <3>2
    <3> QED BY <3>3, Zenon DEF n, m
  <2>2. CASE after.status # "Scored"
    <3>1. n \in {1, 2} /\ m \in {2, 3, 4, 5, 6, 7}
      BY <1>3, <1>9, <2>2, Zenon DEF Strictness
    <3>2. m >= n
      BY <3>1
    <3> QED BY <3>2, Zenon DEF n, m
  <2> QED BY <2>1, <2>2
<1> QED BY <1>4, <1>5, <1>6, <1>7, <1>8, <1>9

\* A deal of which only risks become known and a context that only grows old.
Aged(deal, next, box, context, today, later) ==
  /\ IsDeal(deal) /\ IsDeal(next) /\ OnlyRisks(deal, next)
  /\ IsContext(context) /\ IsDatedBy(deal, context, today)
  /\ \A b \in context.buyers : CriteriaAreComplete(b)
  /\ IsBox(box) /\ BoxIsUsable(box) /\ \A c \in Components : box.weights[c] > 0
  /\ today \in Int /\ later \in Int /\ today <= later

\* What was known of its sources is not dated ahead later either.
LEMMA SourcesStayDated ==
  ASSUME NEW deal, IsDeal(deal), NEW next, OnlyRisks(deal, next),
         NEW today \in Int, NEW later \in Int, today <= later, SourcesAreDatedBy(deal, today)
  PROVE  SourcesAreDatedBy(next, later)
<1> SUFFICES ASSUME NEW a \in next.sources, ~a.restricted
             PROVE  a.verified <= later /\ a.retrieved <= later
  BY DEF SourcesAreDatedBy
<1>1. a \in deal.sources
  BY DEF OnlyRisks
<1>2. a.verified <= today /\ a.retrieved <= today
  BY <1>1 DEF SourcesAreDatedBy
<1>3. a.verified \in Int /\ a.retrieved \in Int
  BY <1>1 DEF IsDeal, IsAssertion
<1> QED BY <1>2, <1>3

\* The class of a priority, of what the priority is made of.
ClassOf(deal, e, box) ==
  Label(ResearchPriority(deal, WeightedScore(e, box), e.dataQuality.subtotal,
                         ResearchTasks(deal, e, box)))

\* Critical work is of the highest class, urgent work of the one below, and other
\* work never of a higher one than that.
LEMMA ClassesOfResearch ==
  ASSUME NEW deal, NEW box, IsBox(box), BuyBoxIsValid(box), NEW today, NEW context
  PROVE  LET e == Evaluate(deal, box, today, context)
         IN  IF IsCritical(deal) THEN ClassOf(deal, e, box) = 4
             ELSE IF IsUrgent(deal, e) THEN ClassOf(deal, e, box) = 3
             ELSE ClassOf(deal, e, box) \in 0 .. 3
<1> DEFINE e == Evaluate(deal, box, today, context)
           score == WeightedScore(e, box)
           subtotal == e.dataQuality.subtotal
           tasks == ResearchTasks(deal, e, box)
           priority == ResearchPriority(deal, score, subtotal, tasks)
<1>1. score \in Percent \cup {Absent}
  BY ScoresAreBounded, WeightedScoreIsBounded, Zenon
<1>2. subtotal \in Percent
  BY SubtotalIsBounded
<1>3. IsHighResearch(deal, tasks) <=> IsUrgent(deal, e)
  BY UrgentIsHigh
<1>4. ClassOf(deal, e, box) = Label(priority)
  BY Zenon DEF ClassOf
<1> HIDE DEF e, score, subtotal, tasks
<1>5. LET p == ResearchPriority(deal, score, subtotal, tasks)
          high == IsHighResearch(deal, tasks)
      IN  IF IsCritical(deal) THEN p = 95 ELSE IF high THEN p \in 80 .. 89 ELSE p \in 0 .. 89
  BY <1>1, <1>2, CriticalIsFirst
<1> HIDE DEF priority
<1>6. IF IsCritical(deal) THEN priority = 95
      ELSE IF IsUrgent(deal, e) THEN priority \in 80 .. 89 ELSE priority \in 0 .. 89
  BY <1>3, <1>5, Zenon DEF priority
<1>7. /\ Label(95) = 4 /\ \A n \in 80 .. 89 : Label(n) = 3
      /\ \A n \in 0 .. 89 : Label(n) \in 0 .. 3
  BY DEF Label
<1>8. IF IsCritical(deal) THEN Label(priority) = 4
      ELSE IF IsUrgent(deal, e) THEN Label(priority) = 3 ELSE Label(priority) \in 0 .. 3
  <2>1. CASE IsCritical(deal)
    BY <1>6, <1>7, <2>1
  <2>2. CASE ~IsCritical(deal) /\ IsUrgent(deal, e)
    BY <1>6, <1>7, <2>2
  <2>3. CASE ~IsCritical(deal) /\ ~IsUrgent(deal, e)
    BY <1>6, <1>7, <2>3
  <2> QED BY <2>1, <2>2, <2>3
<1> QED BY <1>4, <1>8, Zenon DEF e

\* No class is left downwards.
LEMMA ClassesStay ==
  ASSUME NEW deal, NEW next, NEW box, NEW context, NEW today, NEW later,
         Aged(deal, next, box, context, today, later)
  PROVE  ClassOf(next, Evaluate(next, box, later, context), box)
           >= ClassOf(deal, Evaluate(deal, box, today, context), box)
<1> DEFINE e == Evaluate(deal, box, today, context)
           f == Evaluate(next, box, later, context)
           n == ClassOf(deal, e, box)
           m == ClassOf(next, f, box)
<1> USE DEF Aged
<1>1. BuyBoxIsValid(box)
  BY DEF BoxIsUsable
<1>2. Ages(e, f)
  BY <1>1, ComponentsAge
<1>3. MoreRisks(deal, next)
  BY RisksAdd
<1>4. /\ IF IsCritical(deal) THEN n = 4 ELSE IF IsUrgent(deal, e) THEN n = 3 ELSE n \in 0 .. 3
      /\ IF IsCritical(next) THEN m = 4 ELSE IF IsUrgent(next, f) THEN m = 3 ELSE m \in 0 .. 3
  BY <1>1, ClassesOfResearch, Zenon
<1>5. IsCritical(deal) => IsCritical(next)
  BY <1>3, HeldStays
<1>6. CASE IsCritical(next)
  <2>1. m = 4 /\ n \in 0 .. 4
    <3> HIDE DEF n, m, e, f
    <3>1. n = 4 \/ n = 3 \/ n \in 0 .. 3
      BY <1>4, Zenon
    <3> QED BY <1>4, <1>6, <3>1
  <2> HIDE DEF n, m
  <2>2. m >= n
    BY <2>1
  <2> QED BY <2>2 DEF n, m
<1>7. CASE ~IsCritical(next) /\ IsUrgent(next, f)
  <2>1. m = 3 /\ n \in 0 .. 3
    <3> HIDE DEF n, m, e, f
    <3>1. m = 3
      BY <1>4, <1>7, Zenon
    <3>2. n = 3 \/ n \in 0 .. 3
      BY <1>4, <1>5, <1>7, Zenon
    <3> QED BY <3>1, <3>2
  <2> HIDE DEF n, m
  <2>2. m >= n
    BY <2>1
  <2> QED BY <2>2 DEF n, m
<1>8. CASE ~IsCritical(next) /\ ~IsUrgent(next, f)
  <2>1. ~IsCritical(deal) /\ ~IsUrgent(deal, e)
    <3> HIDE DEF e, f
    <3> QED BY <1>2, <1>3, <1>5, <1>8, UrgentStays
  <2>2. SourcesAreDatedBy(deal, today) /\ SourcesAreDatedBy(next, later)
    BY SourcesStayDated DEF IsDatedBy
  <2>3. n \in {0, 1}
    BY <1>1, <2>1, <2>2, OrdinaryLabel DEF ClassOf
  <2>4. m \in {0, 1} /\ (f.sellerProvidedFit.score = Absent => m = 1)
    BY <1>1, <1>8, <2>2, OrdinaryLabel DEF ClassOf
  <2>5. CASE f.sellerProvidedFit.score = Absent
    <3> HIDE DEF n, m
    <3>1. m >= n
      BY <2>3, <2>4, <2>5
    <3> QED BY <3>1 DEF n, m
  <2>6. CASE f.sellerProvidedFit.score # Absent
    <3>1. e.buyerDemand.score = 100 /\ f.buyerDemand.score = 100
      BY <1>1, <1>8, <2>1, <2>2, OrdinaryScores
    <3> HIDE DEF e, f
    <3>2. /\ f.dataQuality.score # Absent
          /\ \A c \in {"propertyFit", "financialFeasibility", "marketability"} :
               f[c].score # Absent
      BY <1>8 DEF IsUrgent
    <3>3. f.dataQuality = e.dataQuality
      BY <1>2, <3>2 DEF Ages
    <3>4. ASSUME NEW c \in Components PROVE f[c].score = e[c].score
      <4>1. c \in {"financialFeasibility", "marketability", "sellerProvidedFit"} => f[c] = e[c]
        BY <1>2, <2>6, <3>2 DEF Ages, Unassessed
      <4>2. c = "propertyFit" => f[c] = e[c]
        BY <1>2 DEF Ages
      <4> QED BY <3>1, <3>3, <4>1, <4>2 DEF Components
    <3>5. WeightedScore(f, box) = WeightedScore(e, box)
      BY <3>4, SameScoresSameMean
    <3>6. /\ ~IsHighResearch(deal, ResearchTasks(deal, e, box))
          /\ ~IsHighResearch(next, ResearchTasks(next, f, box))
      BY <1>8, <2>1, UrgentIsHigh
    <3>7. ResearchPriority(next, WeightedScore(f, box), f.dataQuality.subtotal,
                           ResearchTasks(next, f, box))
            = ResearchPriority(deal, WeightedScore(e, box), e.dataQuality.subtotal,
                               ResearchTasks(deal, e, box))
      BY <1>8, <2>1, <3>3, <3>5, <3>6, Zenon DEF ResearchPriority
    <3>8. m = n
      BY <3>7, Zenon DEF ClassOf
    <3> HIDE DEF n, m
    <3>9. m >= n
      BY <2>3, <3>8
    <3> QED BY <3>9 DEF n, m, e, f
  <2> QED BY <2>5, <2>6
<1> QED BY <1>6, <1>7, <1>8

\* While no time passes a component that disqualifies goes on doing so.
LEMMA BlocksStayToday ==
  ASSUME NEW deal, NEW next, NEW box, NEW context, NEW today,
         Aged(deal, next, box, context, today, today),
         NEW c \in Components, Evaluate(deal, box, today, context)[c].blocks
  PROVE  Evaluate(next, box, today, context)[c].blocks
<1> DEFINE e == Evaluate(deal, box, today, context)
           f == Evaluate(next, box, today, context)
<1>1. Ages(e, f)
  BY ComponentsAge DEF Aged, BoxIsUsable
<1>2. /\ f.financialFeasibility = e.financialFeasibility
      /\ f.marketability = e.marketability /\ f.sellerProvidedFit = e.sellerProvidedFit
  BY DEF Evaluate
<1> HIDE DEF e, f
<1>3. c \notin {"buyerDemand", "dataQuality"}
  <2>1. e[c].blocks
    BY DEF e
  <2> QED BY <1>1, <2>1 DEF Ages
<1>4. f[c] = e[c]
  BY <1>1, <1>2, <1>3 DEF Ages, Components
<1> QED BY <1>4 DEF e, f

\* The result with a usable box.
LEMMA ResultIsOfEvaluation ==
  ASSUME NEW deal, NEW box, BoxIsUsable(box), NEW today, NEW context
  PROVE  LET q == Qualify(deal, box, today, context)
             e == Evaluate(deal, box, today, context)
         IN  /\ q.status = Status(deal, e, box)
             /\ q.restricted <=> deal.restrictions # <<>>
             /\ q.doubts <=> HasDoubts(e, context.seller)
             /\ q.compliance = Compliance(deal, Unreviewed(deal), IsDisqualified(deal, e),
                                          Status(deal, e, box))
             /\ Label(q.priority) = ClassOf(deal, e, box)
<1> DEFINE q == Qualify(deal, box, today, context)
           e == Evaluate(deal, box, today, context)
           held == deal.restrictions # <<>>
           doubts == HasDoubts(e, context.seller)
<1>1. /\ q.status = Status(deal, e, box)
      /\ q.restricted = held /\ q.doubts = doubts
      /\ q.compliance = Compliance(deal, Unreviewed(deal), IsDisqualified(deal, e),
                                   Status(deal, e, box))
      /\ q.priority = ResearchPriority(deal, WeightedScore(e, box), e.dataQuality.subtotal,
                                       ResearchTasks(deal, e, box))
  BY Zenon DEF Qualify, BoxIsUsable
<1>2. Label(q.priority) = ClassOf(deal, e, box)
  BY <1>1, Zenon DEF ClassOf
<1> HIDE DEF q, e
<1>3. (q.restricted <=> held) /\ (q.doubts <=> doubts)
  BY <1>1, Zenon
<1> QED BY <1>1, <1>2, <1>3, Zenon DEF q, e

\* Who is shown as qualified now was shown so before.
LEMMA QualifiedBefore ==
  ASSUME NEW deal, NEW next, NEW box, NEW context, NEW today, NEW later,
         Aged(deal, next, box, context, today, later),
         LaunchStatus(Qualify(next, box, later, context)) = "Qualified"
  PROVE  LaunchStatus(Qualify(deal, box, today, context)) = "Qualified"
<1> DEFINE q == Qualify(deal, box, today, context)
           r == Qualify(next, box, later, context)
           e == Evaluate(deal, box, today, context)
           f == Evaluate(next, box, later, context)
<1> USE DEF Aged
<1>1. Ages(e, f) /\ MoreRisks(deal, next)
  BY ComponentsAge, RisksAdd DEF BoxIsUsable
<1>2. /\ q.status = Status(deal, e, box) /\ r.status = Status(next, f, box)
      /\ q.restricted <=> deal.restrictions # <<>>
      /\ q.doubts <=> HasDoubts(e, context.seller)
      /\ r.doubts <=> HasDoubts(f, context.seller)
      /\ q.compliance = Compliance(deal, Unreviewed(deal), IsDisqualified(deal, e),
                                   Status(deal, e, box))
  BY ResultIsOfEvaluation, Zenon
<1>3. LaunchStatus(r) = "Qualified"
  OBVIOUS
<1> HIDE DEF q, r
<1>4. /\ r.status \notin {"Disqualified", "Unconfigured", "Needs data"} /\ ~r.doubts
  <2>1. r.status # "Disqualified" /\ r.status \notin {"Unconfigured", "Needs data"}
    BY <1>3, Zenon DEF LaunchStatus
  <2>2. ~r.doubts
    BY <1>3, Zenon DEF LaunchStatus
  <2> QED BY <2>1, <2>2
<1>5. Status(next, f, box) = "Scored"
  BY <1>2, <1>4 DEF Status
<1> HIDE DEF e, f
<1>6. /\ \A c \in Components : f[c].score # Absent /\ e[c].score # Absent
      /\ \A c \in Components \ {"buyerDemand"} : f[c] = e[c]
      /\ ~IsHeld(deal) /\ Status(deal, e, box) = "Scored"
  BY <1>1, <1>5, ScoredBefore
<1>7. ~HasDoubts(e, context.seller)
  <2>1. ~HasDoubts(f, context.seller)
    BY <1>2, <1>4, Zenon
  <2>2. f.financialFeasibility = e.financialFeasibility /\ f.dataQuality = e.dataQuality
        /\ f.sellerProvidedFit = e.sellerProvidedFit
    BY <1>6 DEF Components
  <2>3. ~e.buyerDemand.blocks /\ (e.buyerDemand.score = 0 => f.buyerDemand.score = 0)
    <3>1. f.buyerDemand.score # Absent
      BY <1>6 DEF Components
    <3> QED BY <1>1, <3>1 DEF Ages
  <2>4. ASSUME NEW c \in Components \ {"dataQuality", "sellerProvidedFit"}, e[c].blocks
        PROVE  f[c].blocks
    <3>1. c # "buyerDemand"
      BY <2>3, <2>4
    <3>2. f[c] = e[c]
      BY <1>6, <3>1
    <3> QED BY <2>4, <3>2
  <2> QED BY <2>1, <2>2, <2>3, <2>4 DEF HasDoubts
<1>8. q.compliance = "Clear for manual review"
  <2>1. ~IsDisqualified(deal, e)
    BY <1>6, Zenon DEF Status
  <2>2. /\ deal.restrictions = <<>> /\ deal.owner = None
        /\ ~SourceIsRestricted(deal) /\ ~Unreviewed(deal)
    BY <1>6 DEF IsHeld
  <2>3. Codes(deal) = {}
    BY <2>2 DEF Codes, Range
  <2>4. {"Do not contact", "Identity disputed", "Ownership stale", "Specialist review",
         "Source restricted"} \subseteq RestrictionCodes
    BY DEF RestrictionCodes, HoldOf
  <2>5. None \notin RestrictionCodes
    BY RulesAssumption
  <2>6. ~Contacts(deal) /\ ~Disputes(deal) /\ ~Experts(deal) /\ ~Rights(deal)
    BY <2>2, <2>3, <2>4, <2>5 DEF Contacts, Disputes, Experts, Rights
  <2> QED BY <1>2, <1>6, <2>1, <2>6, Zenon DEF Compliance, Contacts, Disputes, Experts, Rights
<1>9. /\ ~q.restricted /\ ~q.doubts /\ q.status = "Scored"
  <2>1. deal.restrictions = <<>>
    BY <1>6 DEF IsHeld
  <2>2. ~q.restricted
    BY <1>2, <2>1, Zenon
  <2>3. ~q.doubts
    BY <1>2, <1>7, Zenon
  <2> QED BY <1>2, <1>6, <2>2, <2>3
<1>10. q.status \notin {"Disqualified", "Unconfigured", "Needs data"}
       /\ q.compliance \in {"Clear for research", "Clear for manual review"}
  BY <1>8, <1>9
<1> QED BY <1>9, <1>10, Zenon DEF LaunchStatus, q

\* All that NeverClears says of one deal.
LEMMA AgedNeverClears ==
  ASSUME NEW deal, NEW next, NEW box, NEW context, NEW today, NEW later,
         Aged(deal, next, box, context, today, later)
  PROVE  NeverClears(Qualify(deal, box, today, context), Qualify(next, box, later, context),
                     later # today)
<1> DEFINE q == Qualify(deal, box, today, context)
           r == Qualify(next, box, later, context)
           e == Evaluate(deal, box, today, context)
           f == Evaluate(next, box, later, context)
<1> USE DEF Aged
<1>1. Ages(e, f) /\ MoreRisks(deal, next)
  BY ComponentsAge, RisksAdd DEF BoxIsUsable
<1>2. /\ q.status = Status(deal, e, box) /\ r.status = Status(next, f, box)
      /\ q.compliance = Compliance(deal, Unreviewed(deal), IsDisqualified(deal, e),
                                   Status(deal, e, box))
      /\ r.compliance = Compliance(next, Unreviewed(next), IsDisqualified(next, f),
                                   Status(next, f, box))
      /\ Label(q.priority) = ClassOf(deal, e, box) /\ Label(r.priority) = ClassOf(next, f, box)
  BY ResultIsOfEvaluation, Zenon
<1>3. LaunchStatus(r) = "Qualified" => LaunchStatus(q) = "Qualified"
  BY QualifiedBefore
<1>4. Label(r.priority) >= Label(q.priority)
  <2>1. ClassOf(next, f, box) >= ClassOf(deal, e, box)
    BY ClassesStay
  <2> HIDE DEF q, r, e, f
  <2> QED BY <1>2, <2>1
<1>5. later = today /\ IsDisqualified(deal, e) => IsDisqualified(next, f)
  <2> SUFFICES ASSUME later = today, IsDisqualified(deal, e) PROVE IsDisqualified(next, f)
    OBVIOUS
  <2>1. CASE IsHeld(deal)
    <3> HIDE DEF e, f
    <3> QED BY <1>1, <2>1, HeldStays DEF IsDisqualified
  <2>2. ASSUME NEW c \in Components, e[c].blocks PROVE f[c].blocks
    BY <2>2, BlocksStayToday
  <2> HIDE DEF e, f
  <2> QED BY <2>1, <2>2 DEF IsDisqualified
<1> HIDE DEF q, r, e, f
<1>6. r.status = "Scored" => q.status = "Scored" /\ ~IsDisqualified(deal, e)
  <2> SUFFICES ASSUME r.status = "Scored" PROVE q.status = "Scored" /\ ~IsDisqualified(deal, e)
    OBVIOUS
  <2>1. Status(deal, e, box) = "Scored"
    BY <1>1, <1>2, ScoredBefore
  <2> QED BY <1>2, <2>1, Zenon DEF Status
<1>7. \/ Severity(r) >= Severity(q)
      \/ q.compliance = "Offer blocked" /\ IsDisqualified(deal, e) /\ ~IsDisqualified(next, f)
  <2>1. IsResultOf(q, deal, e, box) /\ IsResultOf(r, next, f, box)
    BY <1>2, Zenon DEF IsResultOf
  <2>2. MoreRisks(deal, next) /\ Ages(e, f)
    BY <1>1
  <2>3. \A c \in Components : box.weights[c] > 0
    OBVIOUS
  <2> HIDE DEF Aged
  <2>4. \/ Severity(r) >= Severity(q)
        \/ /\ q.compliance = "Offer blocked"
           /\ IsDisqualified(deal, e) /\ ~IsDisqualified(next, f)
    BY <2>1, <2>2, <2>3, HeldAsStrictly, Zenon
  <2> QED BY <2>4
<1>8. Severity(r) >= Severity(q) \/ (later # today /\ q.compliance = "Offer blocked")
  BY <1>5, <1>7, Zenon
<1>9. NeverClears(q, r, later # today)
  BY <1>3, <1>4, <1>6, <1>8, Zenon DEF NeverClears
<1> QED BY <1>9 DEF q, r

\* A deal is cleared by research and by nothing else: as time passes and risks become
\* known, the evaluation of evidence that only grows old never lets go of what a deal
\* was held for (qualifyDeal and what it calls).
THEOREM ResearchAloneClears == Spec => OnlyResearchClears
<1> DEFINE Clears ==
      rule = "queue" /\ NothingIsWaived(input) /\ NothingIsDatedAhead(input, now)
        /\ input'.box = input.box /\ input'.contexts = input.contexts
        /\ (\A d \in DOMAIN input.deals : OnlyRisks(input.deals[d], input'.deals[d]))
      => \A d \in DOMAIN input.deals :
           NeverClears(Result(input, d, now), Result(input', d, now'), now' # now)
<1>1. RulesInv /\ [Next]_vars => [Clears]_vars
  <2> SUFFICES ASSUME RulesInv, [Next]_vars, vars' # vars, rule = "queue",
                      NothingIsWaived(input), NothingIsDatedAhead(input, now),
                      input'.box = input.box, input'.contexts = input.contexts,
                      \A d \in DOMAIN input.deals : OnlyRisks(input.deals[d], input'.deals[d]),
                      NEW d \in DOMAIN input.deals
               PROVE  NeverClears(Result(input, d, now), Result(input', d, now'), now' # now)
    BY Zenon
  <2>1. /\ IsQueueInput(input') /\ DOMAIN input'.deals = DOMAIN input.deals
        /\ now' \in Nat /\ now <= now'
    <3>1. CASE DayPasses
      BY <3>1 DEF DayPasses, RulesInv
    <3>2. CASE QueueStep
      BY <3>2, QueueInputsStay DEF RulesInv
    <3>3. ~(GateStep \/ WindowStep \/ ClockStep \/ RetrievalStep)
      BY DEF GateStep, WindowStep, ClockStep, RetrievalStep
    <3> QED BY <3>1, <3>2, <3>3 DEF Next
  <2> DEFINE deal == input.deals[d]
             next == input'.deals[d]
             context == input.contexts[d]
  <2>2. /\ IsBox(input.box) /\ IsDeal(deal) /\ IsContext(context) /\ d \in DOMAIN input.contexts
        /\ now \in Nat
    BY DEF RulesInv, IsQueueInput
  <2>3. IsDeal(next)
    BY <2>1 DEF IsQueueInput
  <2>4. /\ BoxIsUsable(input.box) /\ \A c \in Components : input.box.weights[c] > 0
        /\ \A b \in context.buyers : CriteriaAreComplete(b)
    BY <2>2 DEF NothingIsWaived
  <2>5. IsDatedBy(deal, context, now)
    BY DEF NothingIsDatedAhead, IsDatedBy, SourcesAreDatedBy
  <2>6. Aged(deal, next, input.box, context, now, now')
    BY <2>1, <2>2, <2>3, <2>4, <2>5 DEF Aged
  <2>7. /\ Result(input, d, now) = Qualify(deal, input.box, now, context)
        /\ Result(input', d, now') = Qualify(next, input.box, now', context)
    BY Zenon DEF Result
  <2> HIDE DEF deal, next, context
  <2> QED BY <2>6, <2>7, AgedNeverClears
<1>2. Spec => [][Clears]_vars
  BY <1>1, InputsStay, PTL DEF Spec
<1> QED BY <1>2, PTL DEF OnlyResearchClears
=============================================================================
