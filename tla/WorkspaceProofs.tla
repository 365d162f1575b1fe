--------------------------- MODULE WorkspaceProofs ---------------------------
(***************************************************************************)
(* Proofs about Workspace: what every tab may rely on in the document that *)
(* all of them change.  The invariant is that each document a tab can meet *)
(* is kept (IsKept), that the tab with the lock has read the document as   *)
(* it is, and that a plan is sound for the document it was made for.       *)
(***************************************************************************)
EXTENDS Workspace, FiniteSetTheorems, SequenceTheorems, WellFoundedInduction, TLAPS

-----------------------------------------------------------------------------
(* Deals.                                                                  *)

Conflict == ConflictOf("address", Addresses) \cup ConflictOf("contact", Contacts)

\* The holds that a source puts on a deal.
LEMMA HoldsAreTyped ==
  ASSUME NEW deal, NEW c \in Candidates
  PROVE  /\ NewRestrictions(deal, c) \subseteq Restriction
         /\ \A r \in NewRestrictions(deal, c) : r.by = c
<1>1. StopCodes(c) \subseteq {"Do not contact", "Source restricted"}
  BY DEF StopCodes
<1>2. ASSUME NEW k \in StopCodes(c)
      PROVE  [code |-> k, source |-> "Source assertion", by |-> c, active |-> TRUE]
               \in Restriction
  BY <1>1, <1>2 DEF Restriction
<1>3. ASSUME NEW r \in NewRestrictions(deal, c)
      PROVE  r \in Restriction /\ r.by = c
  <2>1. PICK k \in StopCodes(c) :
          r = [code |-> k, source |-> "Source assertion", by |-> c, active |-> TRUE]
    BY DEF NewRestrictions
  <2> QED BY <1>2, <2>1
<1> QED BY <1>3

\* The deal of a new row is kept.
LEMMA NewDealIsKept ==
  ASSUME NEW c \in Candidates
  PROVE  LET new == NewDeal(c)
         IN  /\ new \in Deal /\ DealIsKept(new)
             /\ new.assertions = {c} /\ new.address = c.address
<1> DEFINE bare == [address |-> c.address, contact |-> c.contact, assertions |-> {c},
                    conflicts |-> {}, restrictions |-> {}]
           holds == NewRestrictions(bare, c)
           new == NewDeal(c)
<1>1. /\ c.address \in Addresses /\ c.contact \in Contacts
      /\ bare \in Deal
  BY DEF Candidates, Deal
<1>2. holds = {[code |-> k, source |-> "Source assertion", by |-> c, active |-> TRUE] :
                 k \in StopCodes(c)}
  BY DEF NewRestrictions
<1>3. holds \subseteq Restriction
  BY HoldsAreTyped
<1>4. new = [bare EXCEPT !.restrictions = holds]
  BY DEF NewDeal
<1> HIDE DEF holds
<1>5. /\ new \in Deal
      /\ new.address = c.address /\ new.contact = c.contact
      /\ new.assertions = {c} /\ new.conflicts = {} /\ new.restrictions = holds
  BY <1>1, <1>3, <1>4 DEF Deal
<1> HIDE DEF new
<1>6. Differences(new, c) = {}
  BY <1>5 DEF Differences, Fields
<1>7. \A code \in StopCodes(c) : \E r \in new.restrictions :
        r.code = code /\ r.active /\ r.source = "Source assertion"
  <2> TAKE code \in StopCodes(c)
  <2>1. [code |-> code, source |-> "Source assertion", by |-> c, active |-> TRUE]
          \in new.restrictions
    BY <1>2, <1>5
  <2> QED BY <2>1
<1>8. \A r \in new.restrictions : r.by = c
  BY <1>5, HoldsAreTyped DEF holds
<1>9. DealIsKept(new)
  BY <1>5, <1>6, <1>7, <1>8 DEF DealIsKept
<1> QED BY <1>5, <1>9 DEF new

\* The fields of a deal that a snapshot is appended to.
Extended(deal, c) ==
  [deal EXCEPT !.assertions = @ \cup {c},
               !.conflicts = @ \cup NewConflicts(deal, c),
               !.restrictions = @ \cup NewRestrictions(deal, c)]

\* A difference is between values of one kind.
LEMMA DifferentFields ==
  ASSUME NEW deal \in Deal, NEW c \in Candidates, NEW f \in Differences(deal, c)
  PROVE  /\ f \in Fields
         /\ [field |-> f, canonical |-> deal[f], asserted |-> c[f], by |-> c,
             status |-> "Unresolved"] \in Conflict
<1>1. f \in Fields
  BY DEF Differences
<1>2. /\ deal["address"] \in Addresses /\ c["address"] \in Addresses
      /\ deal["contact"] \in Contacts /\ c["contact"] \in Contacts
  BY DEF Deal, Candidates
<1> QED BY <1>1, <1>2 DEF Fields, Conflict, ConflictOf

\* The fields of a deal with one more snapshot.
LEMMA ExtendedFields ==
  ASSUME NEW deal \in Deal, NEW c \in Candidates
  PROVE  LET new == Extended(deal, c)
         IN  /\ new \in Deal
             /\ new.assertions = deal.assertions \cup {c}
             /\ new.conflicts = deal.conflicts \cup NewConflicts(deal, c)
             /\ new.restrictions = deal.restrictions \cup NewRestrictions(deal, c)
             /\ \A f \in Fields : new[f] = deal[f]
<1>1. NewConflicts(deal, c) \subseteq Conflict
  BY DifferentFields DEF NewConflicts
<1>2. NewRestrictions(deal, c) \subseteq Restriction
  BY HoldsAreTyped
<1>3. deal \in [address : Addresses, contact : Contacts, assertions : SUBSET Candidates,
                conflicts : SUBSET Conflict, restrictions : SUBSET Restriction]
  BY DEF Deal, Conflict
<1> DEFINE d1 == [deal EXCEPT !.assertions = @ \cup {c}]
           d2 == [d1 EXCEPT !.conflicts = deal.conflicts \cup NewConflicts(deal, c)]
           d3 == [d2 EXCEPT !.restrictions = deal.restrictions \cup NewRestrictions(deal, c)]
<1>4. /\ d1 \in Deal /\ d1.assertions = deal.assertions \cup {c}
      /\ d1.conflicts = deal.conflicts /\ d1.restrictions = deal.restrictions
      /\ \A f \in Fields : d1[f] = deal[f]
  BY <1>3 DEF Deal, Conflict, Fields
<1> HIDE DEF d1
<1>5. /\ d2 \in Deal /\ d2.assertions = deal.assertions \cup {c}
      /\ d2.conflicts = deal.conflicts \cup NewConflicts(deal, c)
      /\ d2.restrictions = deal.restrictions
      /\ \A f \in Fields : d2[f] = deal[f]
  BY <1>1, <1>3, <1>4 DEF Deal, Conflict, Fields
<1> HIDE DEF d2
<1>6. /\ d3 \in Deal /\ d3.assertions = deal.assertions \cup {c}
      /\ d3.conflicts = deal.conflicts \cup NewConflicts(deal, c)
      /\ d3.restrictions = deal.restrictions \cup NewRestrictions(deal, c)
      /\ \A f \in Fields : d3[f] = deal[f]
  BY <1>2, <1>3, <1>5 DEF Deal, Fields
<1>7. Extended(deal, c) = d3
  BY DEF Extended, d1, d2
<1> QED BY <1>6, <1>7

\* Appending a snapshot keeps a deal.
LEMMA ExtendedIsKept ==
  ASSUME NEW deal \in Deal, DealIsKept(deal), NEW c \in Candidates,
         c \notin deal.assertions
  PROVE  DealIsKept(Extended(deal, c))
<1> DEFINE new == Extended(deal, c)
<1>1. /\ new \in Deal
      /\ new.assertions = deal.assertions \cup {c}
      /\ new.conflicts = deal.conflicts \cup NewConflicts(deal, c)
      /\ new.restrictions = deal.restrictions \cup NewRestrictions(deal, c)
      /\ \A f \in Fields : new[f] = deal[f]
  BY ExtendedFields
<1>2. c # Absent
  BY WorkspaceAssumption
<1> HIDE DEF new
<1>3. \A f, value : ValueIsOpen(deal, f, value) => ValueIsOpen(new, f, value)
  BY <1>1 DEF ValueIsOpen
<1>4. \A k \in deal.conflicts : k.field \in Fields
  BY DEF Deal, ConflictOf, Fields
<1>5. \A a : Differences(new, a) = Differences(deal, a)
  BY <1>1 DEF Differences
<1>6. ASSUME NEW f \in Differences(deal, c)
      PROVE  ValueIsOpen(new, f, c[f])
  <2>1. CASE DuplicateConflict(deal, f, c)
    <3>1. PICK k \in deal.conflicts :
            /\ k.field = f
            /\ k.by = c \/ k.asserted = c[f]
      BY <2>1 DEF DuplicateConflict
    <3>2. k.by # c
      BY <3>1 DEF DealIsKept
    <3> QED BY <1>1, <3>1, <3>2 DEF ValueIsOpen
  <2>2. CASE ~DuplicateConflict(deal, f, c)
    <3> DEFINE k == [field |-> f, canonical |-> deal[f], asserted |-> c[f], by |-> c,
                     status |-> "Unresolved"]
    <3>1. k \in new.conflicts
      BY <1>1, <2>2 DEF NewConflicts
    <3> QED BY <3>1 DEF ValueIsOpen
  <2> QED BY <2>1, <2>2
<1>7. ASSUME NEW code \in StopCodes(c)
      PROVE  \E r \in new.restrictions :
               r.code = code /\ r.active /\ r.source = "Source assertion"
  <2> DEFINE r0 == [code |-> code, source |-> "Source assertion", by |-> c,
                    active |-> TRUE]
  <2>1. \A r \in deal.restrictions : r.by # c
    BY <1>2 DEF DealIsKept
  <2>2. r0 \in new.restrictions
    BY <1>1, <2>1 DEF NewRestrictions
  <2> QED BY <2>2
<1>8. ASSUME NEW a \in new.assertions
      PROVE  /\ \A code \in StopCodes(a) : \E r \in new.restrictions :
                  r.code = code /\ r.active /\ r.source = "Source assertion"
             /\ \A f \in Differences(new, a) : ValueIsOpen(new, f, a[f])
  <2>1. CASE a = c
    BY <1>5, <1>6, <1>7, <2>1
  <2>2. CASE a \in deal.assertions
    BY <1>1, <1>3, <1>5, <2>2 DEF DealIsKept
  <2> QED BY <1>1, <2>1, <2>2
<1>9. ASSUME NEW k \in new.conflicts
      PROVE  ValueIsOpen(new, k.field, new[k.field]) /\ k.by \in new.assertions
  <2>1. CASE k \in deal.conflicts
    BY <1>1, <1>3, <1>4, <2>1 DEF DealIsKept
  <2>2. CASE k \in NewConflicts(deal, c)
    <3>1. PICK f \in Differences(deal, c) :
            k = [field |-> f, canonical |-> deal[f], asserted |-> c[f], by |-> c,
                 status |-> "Unresolved"]
      BY <2>2 DEF NewConflicts
    <3>2. f \in Fields
      BY DifferentFields
    <3> QED BY <1>1, <3>1, <3>2 DEF ValueIsOpen
  <2> QED BY <1>1, <2>1, <2>2
<1>10. ASSUME NEW r \in new.restrictions
       PROVE  r.by \in new.assertions \cup {Absent}
  BY <1>1, HoldsAreTyped DEF DealIsKept
<1> QED BY <1>8, <1>9, <1>10 DEF DealIsKept, new

\* A conflict and a hold that are kept may change their status.
SameConflicts(old, new) == \A k \in old : \E l \in new : SameConflict(k, l)
SameHolds(old, new)     == \A r \in old : \E s \in new : SameHold(r, s)

\* What an updater may make of a deal.
Grows(deal, new) ==
  /\ new \in Deal /\ DealIsKept(new)
  /\ deal.assertions \subseteq new.assertions
  /\ SameConflicts(deal.conflicts, new.conflicts)
  /\ SameHolds(deal.restrictions, new.restrictions)

\* What is left alone is the same.
LEMMA SameItself ==
  /\ \A k \in Conflict : SameConflict(k, k)
  /\ \A r \in Restriction : SameHold(r, r)
<1>1. ASSUME NEW k \in Conflict PROVE SameConflict(k, k)
  BY DEF SameConflict, Conflict, ConflictOf
<1>2. ASSUME NEW r \in Restriction PROVE SameHold(r, r)
  BY DEF SameHold, Restriction
<1> QED BY <1>1, <1>2

\* A deal grows into itself ...
LEMMA GrowsItself ==
  ASSUME NEW deal \in Deal, DealIsKept(deal) PROVE Grows(deal, deal)
<1>1. deal.conflicts \subseteq Conflict /\ deal.restrictions \subseteq Restriction
  BY DEF Deal, Conflict
<1> QED BY <1>1, SameItself DEF Grows, SameConflicts, SameHolds

\* ... and with a snapshot more, into the same property.
LEMMA AppendGrows ==
  ASSUME NEW deal \in Deal, DealIsKept(deal), NEW c \in Candidates
  PROVE  LET new == AppendAssertion(deal, c)
         IN  /\ Grows(deal, new)
             /\ new.assertions = deal.assertions \cup {c}
             /\ new.address = deal.address
<1>1. CASE c \in deal.assertions
  BY <1>1, GrowsItself DEF AppendAssertion
<1>2. CASE c \notin deal.assertions
  <2> DEFINE new == Extended(deal, c)
  <2>1. AppendAssertion(deal, c) = new
    BY <1>2 DEF AppendAssertion, Extended
  <2>2. /\ new \in Deal /\ DealIsKept(new)
        /\ new.assertions = deal.assertions \cup {c}
        /\ deal.conflicts \subseteq new.conflicts
        /\ deal.restrictions \subseteq new.restrictions
        /\ \A f \in Fields : new[f] = deal[f]
    BY <1>2, ExtendedFields, ExtendedIsKept
  <2> HIDE DEF new
  <2>3. deal.conflicts \subseteq Conflict /\ deal.restrictions \subseteq Restriction
    BY DEF Deal, Conflict
  <2>4. Grows(deal, new)
    BY <2>2, <2>3, SameItself DEF Grows, SameConflicts, SameHolds
  <2>5. new.address = deal.address
    BY <2>2 DEF Fields
  <2> QED BY <2>1, <2>2, <2>4, <2>5
<1> QED BY <1>1, <1>2

\* Settling a conflict keeps a deal: the value that is no longer canonical was
\* already one side of a conflict.
LEMMA ResolveGrows ==
  ASSUME NEW deal \in Deal, DealIsKept(deal), NEW k \in deal.conflicts,
         NEW side \in {"Canonical", "Asserted"}
  PROVE  LET new == ResolveConflict(deal, k, side)
         IN  Grows(deal, new) /\ new.assertions = deal.assertions
<1> DEFINE k1 == [k EXCEPT !.status = side]
           settled == [deal EXCEPT !.conflicts = (@ \ {k}) \cup {k1}]
           new == ResolveConflict(deal, k, side)
<1>1. /\ k \in Conflict /\ k.field \in Fields
      /\ k.field = "address" => k.asserted \in Addresses
      /\ k.field = "contact" => k.asserted \in Contacts
  BY DEF Deal, Conflict, ConflictOf, Fields
<1>2. /\ k1 \in Conflict /\ k1.field = k.field /\ k1.canonical = k.canonical
      /\ k1.asserted = k.asserted /\ k1.by = k.by /\ SameConflict(k, k1)
  <2>1. CASE k \in ConflictOf("address", Addresses)
    BY <2>1 DEF ConflictOf, Conflict, SameConflict
  <2>2. CASE k \in ConflictOf("contact", Contacts)
    BY <2>2 DEF ConflictOf, Conflict, SameConflict
  <2> QED BY <1>1, <2>1, <2>2 DEF Conflict
<1> HIDE DEF k1
<1>3. /\ settled \in Deal
      /\ settled.assertions = deal.assertions
      /\ settled.restrictions = deal.restrictions
      /\ settled.conflicts = (deal.conflicts \ {k}) \cup {k1}
      /\ \A f \in Fields : settled[f] = deal[f]
  BY <1>2 DEF Deal, Conflict, Fields
<1>4. new = IF side = "Asserted" THEN [settled EXCEPT ![k.field] = k.asserted]
            ELSE settled
  BY DEF ResolveConflict, k1
<1> HIDE DEF settled, new
<1>5. /\ new \in Deal
      /\ new.assertions = deal.assertions
      /\ new.restrictions = deal.restrictions
      /\ new.conflicts = (deal.conflicts \ {k}) \cup {k1}
      /\ \A f \in Fields :
           new[f] = IF side = "Asserted" /\ f = k.field THEN k.asserted ELSE deal[f]
  <2>1. CASE side # "Asserted"
    BY <1>3, <1>4, <2>1
  <2>2. CASE side = "Asserted" /\ k.field = "address"
    BY <1>1, <1>3, <1>4, <2>2 DEF Deal, Fields
  <2>3. CASE side = "Asserted" /\ k.field = "contact"
    BY <1>1, <1>3, <1>4, <2>3 DEF Deal, Fields
  <2> QED BY <1>1, <2>1, <2>2, <2>3 DEF Fields
<1>6. \A f, value : ValueIsOpen(deal, f, value) => ValueIsOpen(new, f, value)
  BY <1>2, <1>5 DEF ValueIsOpen
<1>7. ValueIsOpen(new, k.field, k.asserted)
  BY <1>2, <1>5 DEF ValueIsOpen
<1>8. ASSUME NEW a \in new.assertions, NEW f \in Differences(new, a)
      PROVE  ValueIsOpen(new, f, a[f])
  <2>1. f \in Fields /\ a[f] # Blank /\ a[f] # new[f] /\ a \in deal.assertions
    BY <1>5 DEF Differences
  <2>2. CASE a[f] # deal[f]
    BY <1>6, <2>1, <2>2 DEF Differences, DealIsKept
  <2>3. CASE a[f] = deal[f]
    BY <1>5, <1>6, <2>1, <2>3 DEF DealIsKept
  <2> QED BY <2>2, <2>3
<1>9. ASSUME NEW l \in new.conflicts
      PROVE  ValueIsOpen(new, l.field, new[l.field]) /\ l.by \in new.assertions
  <2>1. PICK m \in deal.conflicts : m.field = l.field /\ m.by = l.by
    BY <1>2, <1>5
  <2>2. m.field \in Fields
    BY DEF Deal, ConflictOf, Fields
  <2>3. ValueIsOpen(deal, m.field, deal[m.field]) /\ m.by \in deal.assertions
    BY DEF DealIsKept
  <2>4. CASE side = "Asserted" /\ m.field = k.field
    BY <1>5, <1>7, <2>1, <2>2, <2>3, <2>4
  <2>5. CASE ~(side = "Asserted" /\ m.field = k.field)
    <3>1. new[m.field] = deal[m.field]
      BY <1>5, <2>2, <2>5
    <3> QED BY <1>5, <1>6, <2>1, <2>3, <3>1
  <2> QED BY <2>4, <2>5
<1>10. DealIsKept(new)
  BY <1>5, <1>8, <1>9 DEF DealIsKept
<1>11. deal.conflicts \subseteq Conflict /\ deal.restrictions \subseteq Restriction
  BY DEF Deal, Conflict
<1>12. Grows(deal, new)
  BY <1>2, <1>5, <1>10, <1>11, SameItself DEF Grows, SameConflicts, SameHolds
<1> QED BY <1>5, <1>12 DEF new

\* Releasing a hold keeps a deal: it is none that the source has put there.
LEMMA ReleaseGrows ==
  ASSUME NEW deal \in Deal, DealIsKept(deal), NEW r \in deal.restrictions,
         Resolvable(r)
  PROVE  LET new == ResolveRestriction(deal, r)
         IN  Grows(deal, new) /\ new.assertions = deal.assertions
<1> DEFINE r1 == [r EXCEPT !.active = FALSE]
           new == ResolveRestriction(deal, r)
<1>1. /\ r \in Restriction /\ r1 \in Restriction /\ r1.by = r.by /\ SameHold(r, r1)
  BY DEF Deal, Restriction, SameHold
<1>2. r.source # "Source assertion"
  BY DEF Resolvable
<1> HIDE DEF r1
<1>3. /\ new \in Deal
      /\ new.assertions = deal.assertions
      /\ new.conflicts = deal.conflicts
      /\ new.restrictions = (deal.restrictions \ {r}) \cup {r1}
      /\ \A f \in Fields : new[f] = deal[f]
  BY <1>1 DEF Deal, Fields, ResolveRestriction, r1
<1> HIDE DEF new
<1>4. \A f, value : ValueIsOpen(deal, f, value) => ValueIsOpen(new, f, value)
  BY <1>3 DEF ValueIsOpen
<1>5. \A a : Differences(new, a) = Differences(deal, a)
  BY <1>3 DEF Differences
<1>6. \A k \in new.conflicts : k.field \in Fields
  BY <1>3 DEF Deal, ConflictOf, Fields
<1>7. DealIsKept(new)
  <2>1. ASSUME NEW a \in new.assertions, NEW code \in StopCodes(a)
        PROVE  \E s \in new.restrictions :
                 s.code = code /\ s.active /\ s.source = "Source assertion"
    <3>1. PICK s \in deal.restrictions :
            s.code = code /\ s.active /\ s.source = "Source assertion"
      BY <1>3 DEF DealIsKept
    <3> QED BY <1>2, <1>3, <3>1
  <2>2. ASSUME NEW a \in new.assertions, NEW f \in Differences(new, a)
        PROVE  ValueIsOpen(new, f, a[f])
    BY <1>3, <1>4, <1>5 DEF DealIsKept
  <2>3. ASSUME NEW k \in new.conflicts
        PROVE  ValueIsOpen(new, k.field, new[k.field]) /\ k.by \in new.assertions
    BY <1>3, <1>4, <1>6 DEF DealIsKept
  <2>4. \A s \in new.restrictions : s.by \in new.assertions \cup {Absent}
    BY <1>1, <1>3 DEF DealIsKept
  <2> QED BY <2>1, <2>2, <2>3, <2>4 DEF DealIsKept
<1>8. deal.conflicts \subseteq Conflict /\ deal.restrictions \subseteq Restriction
  BY DEF Deal, Conflict
<1>9. Grows(deal, new)
  BY <1>1, <1>3, <1>7, <1>8, SameItself DEF Grows, SameConflicts, SameHolds
<1> QED BY <1>3, <1>9 DEF new

-----------------------------------------------------------------------------
(* Plans.                                                                  *)

Target      == ({"existing"} \X DealIds) \cup ({"planned"} \X Nat)
PlannedRow  == [row : Nat, cand : Candidates]
Move        == [row : Nat, cand : Candidates, target : Target]
PossibleRow == [row : Nat, cand : Candidates, targets : SUBSET Target]

PlanFor(ws) ==
  [base : {ws.revision}, print : {ws}, new : Seq(PlannedRow), changed : Seq(Move),
   attached : Seq(Move), possible : SUBSET PossibleRow, rejected : SUBSET Nat,
   skipped : SUBSET Nat, blocked : SUBSET Identities]

\* New rows are told apart by their place in the file, and are of properties that
\* the workspace of the plan does not have.
NewRowsDiffer(p) == \A m, n \in ToSet(p.new) : m.row = n.row => m = n

NewRowsAreNew(p) ==
  \A m \in ToSet(p.new) : \A e \in DOMAIN p.print.deals :
    p.print.deals[e].address # m.cand.address

PlanIsSound(p) == p \in PlanFor(p.print) /\ NewRowsDiffer(p) /\ NewRowsAreNew(p)

\* The elements of a sequence that is appended to.
LEMMA SetOfAppended ==
  ASSUME NEW S, NEW s \in Seq(S), NEW e
  PROVE  ToSet(Append(s, e)) = ToSet(s) \cup {e}
<1>1. /\ DOMAIN Append(s, e) = 1 .. Len(s) + 1 /\ DOMAIN s = 1 .. Len(s)
      /\ Append(s, e)[Len(s) + 1] = e /\ Len(s) \in Nat
      /\ \A k \in 1 .. Len(s) : Append(s, e)[k] = s[k]
  OBVIOUS
<1>2. ASSUME NEW x \in ToSet(Append(s, e)) PROVE x \in ToSet(s) \cup {e}
  <2>1. PICK k \in 1 .. Len(s) + 1 : x = Append(s, e)[k]
    BY <1>1 DEF ToSet
  <2>2. CASE k \in 1 .. Len(s)
    BY <1>1, <2>1, <2>2 DEF ToSet
  <2>3. CASE k = Len(s) + 1
    BY <1>1, <2>1, <2>3
  <2> QED BY <1>1, <2>1, <2>2, <2>3
<1>3. ASSUME NEW x \in ToSet(s) PROVE x \in ToSet(Append(s, e))
  <2>1. PICK k \in 1 .. Len(s) : x = s[k]
    BY <1>1 DEF ToSet
  <2>2. k \in DOMAIN Append(s, e) /\ Append(s, e)[k] = x
    BY <1>1, <2>1
  <2> QED BY <2>2 DEF ToSet
<1>4. e \in ToSet(Append(s, e))
  <2>1. Len(s) + 1 \in DOMAIN Append(s, e)
    BY <1>1
  <2> QED BY <1>1, <2>1 DEF ToSet
<1> QED BY <1>2, <1>3, <1>4

\* The elements of a sequence are of its set.
LEMMA ElementsAreTyped ==
  ASSUME NEW S, NEW s \in Seq(S) PROVE ToSet(s) \subseteq S
  BY DEF ToSet

\* A plan changes by what is neither a row nor an addition.
LEMMA NothingPlanned ==
  ASSUME NEW p, PlanIsSound(p), NEW q \in PlanFor(p.print), q.new = p.new
  PROVE  PlanIsSound(q)
<1>1. q.print = p.print
  BY DEF PlanFor
<1> QED BY <1>1 DEF PlanIsSound, NewRowsDiffer, NewRowsAreNew

RowsBefore(p, k) == \A m \in ToSet(p.new) : m.row \in 1 .. k

\* One row more makes a sound plan of a sound plan.
LEMMA RowIsPlanned ==
  ASSUME NEW ws, DOMAIN ws.deals \subseteq DealIds,
         NEW rows \in Seq(Candidates \cup {Malformed}), NEW n \in 1 .. Len(rows),
         NEW p, p.print = ws, PlanIsSound(p), RowsBefore(p, n - 1)
  PROVE  LET q == PlanRow(ws, rows, p, n)
         IN  q.print = ws /\ PlanIsSound(q) /\ RowsBefore(q, n)
<1> DEFINE c == rows[n]
           known == IdentityTargets(ws, p, c.id)
           matches == PropertyTargets(ws, p, c.address)
           targets == IF matches = {} THEN {Planned(n)} ELSE matches
           q == PlanRow(ws, rows, p, n)
<1>1. n \in Nat /\ p \in PlanFor(ws)
  BY DEF PlanIsSound
<1>2. ToSet(p.new) \subseteq PlannedRow
  BY <1>1, ElementsAreTyped DEF PlanFor
<1>3. known \subseteq Target
  BY <1>2 DEF IdentityTargets, Existing, Planned, Target, PlannedRow
<1>4. matches \subseteq Target /\ targets \subseteq Target
  BY <1>1, <1>2 DEF PropertyTargets, Existing, Planned, Target, PlannedRow
<1>5. matches = {} => \A e \in DOMAIN ws.deals : ws.deals[e].address # c.address
  BY DEF PropertyTargets
<1> HIDE DEF known, matches, targets
<1>6. CASE n \notin ValidRows(rows)
  <2>1. q = p
    BY <1>6 DEF PlanRow
  <2> QED BY <1>1, <2>1 DEF RowsBefore
<1>7. CASE n \in ValidRows(rows)
  <2>1. c \in Candidates
    BY <1>7 DEF ValidRows
  <2> DEFINE pending == {r \in p.possible : r.cand.id = c.id}
             rest == CASE Cardinality(known) > 1 \/ (known = {} /\ c.id \in p.blocked) ->
                            [p EXCEPT !.rejected = @ \cup {n}]
                       [] Cardinality(known) = 1 ->
                            LET t == CHOOSE x \in known : TRUE
                            IN  IF c \in KnownSnapshots(ws, p, t)
                                THEN [p EXCEPT !.skipped = @ \cup {n}]
                                ELSE [p EXCEPT !.changed = Append(@, [row |-> n, cand |-> c,
                                                                    target |-> t])]
                       [] known = {} /\ c.id \notin p.blocked /\ pending # {}
                          /\ SharedTargets(p, c.id, targets) = {} ->
                            [p EXCEPT !.possible = @ \ pending,
                                      !.rejected = @ \cup {n} \cup {r.row : r \in pending},
                                      !.blocked = @ \cup {c.id}]
                       [] OTHER ->
                            IF matches # {}
                            THEN [p EXCEPT !.possible =
                                    @ \cup {[row |-> n, cand |-> c, targets |-> targets]}]
                            ELSE [p EXCEPT !.new = Append(@, [row |-> n, cand |-> c])]
  <2>2. \/ q = [p EXCEPT !.skipped = @ \cup {n}]
        \/ q = rest
    BY <1>7, Zenon DEF PlanRow, known, matches, targets
  <2> DEFINE IsDone(x) == x.print = ws /\ PlanIsSound(x) /\ RowsBefore(x, n)
  <2>3. ASSUME NEW x \in PlanFor(ws), x.new = p.new PROVE IsDone(x)
    <3>1. x.print = ws /\ PlanIsSound(x)
      BY <2>3, NothingPlanned DEF PlanFor
    <3>2. RowsBefore(x, n)
      BY <2>3 DEF RowsBefore
    <3> QED BY <3>1, <3>2
  <2>4. IsDone([p EXCEPT !.skipped = @ \cup {n}])
    BY <1>1, <2>3 DEF PlanFor
  <2>5. IsDone([p EXCEPT !.rejected = @ \cup {n}])
    BY <1>1, <2>3 DEF PlanFor
  <2>6. ASSUME Cardinality(known) = 1
        PROVE  IsDone([p EXCEPT !.changed = Append(@, [row |-> n, cand |-> c,
                                           target |-> CHOOSE x \in known : TRUE])])
    <3> DEFINE t == CHOOSE x \in known : TRUE
    <3>1. known # {}
      <4>1. Cardinality({}) = 0
        BY FS_EmptySet
      <4>2. known = {} => 1 = 0
        BY <2>6, <4>1, Zenon
      <4> QED BY <4>2
    <3>2. t \in Target
      BY <1>3, <3>1
    <3> HIDE DEF t
    <3>3. [row |-> n, cand |-> c, target |-> t] \in Move
      BY <1>1, <2>1, <3>2 DEF Move
    <3>4. Append(p.changed, [row |-> n, cand |-> c, target |-> t]) \in Seq(Move)
      BY <1>1, <3>3 DEF PlanFor
    <3>5. IsDone([p EXCEPT !.changed = Append(@, [row |-> n, cand |-> c,
                                                  target |-> t])])
      BY <1>1, <2>3, <3>4 DEF PlanFor
    <3> QED BY <3>5 DEF t
  <2>7. IsDone([p EXCEPT !.possible = @ \ pending,
                         !.rejected = @ \cup {n} \cup {r.row : r \in pending},
                         !.blocked = @ \cup {c.id}])
    <3>1. /\ c.id \in Identities
          /\ {r.row : r \in pending} \subseteq Nat
      BY <1>1, <2>1 DEF PlanFor, PossibleRow, Candidates
    <3> DEFINE rows1 == p.rejected \cup {n} \cup {r.row : r \in pending}
    <3>2. rows1 \subseteq Nat
      BY <1>1, <3>1 DEF PlanFor
    <3> HIDE DEF pending, rows1
    <3>3. IsDone([p EXCEPT !.possible = @ \ pending, !.rejected = rows1,
                           !.blocked = @ \cup {c.id}])
      BY <1>1, <2>3, <3>1, <3>2 DEF PlanFor
    <3> QED BY <3>3 DEF rows1
  <2>8. IsDone([p EXCEPT !.possible =
                  @ \cup {[row |-> n, cand |-> c, targets |-> targets]}])
    <3>1. [row |-> n, cand |-> c, targets |-> targets] \in PossibleRow
      BY <1>1, <1>4, <2>1 DEF PossibleRow
    <3> QED BY <1>1, <2>3, <3>1 DEF PlanFor
  <2>9. ASSUME matches = {}
        PROVE  IsDone([p EXCEPT !.new = Append(@, [row |-> n, cand |-> c])])
    <3> DEFINE e == [row |-> n, cand |-> c]
               x == [p EXCEPT !.new = Append(@, e)]
    <3>1. e \in PlannedRow /\ p.new \in Seq(PlannedRow)
      BY <1>1, <2>1 DEF PlannedRow, PlanFor
    <3>2. ToSet(Append(p.new, e)) = ToSet(p.new) \cup {e}
      BY <3>1, SetOfAppended
    <3>3. e.row = n /\ e.cand = c
      OBVIOUS
    <3> HIDE DEF e
    <3>4. Append(p.new, e) \in Seq(PlannedRow)
      BY <3>1
    <3>5. x \in PlanFor(ws) /\ x.print = ws /\ x.new = Append(p.new, e)
      BY <1>1, <3>4 DEF PlanFor
    <3>6. ToSet(x.new) = ToSet(p.new) \cup {e}
      BY <3>2, <3>5
    <3> HIDE DEF x
    <3>7. \A m \in ToSet(p.new) : m.row \in 1 .. n - 1
      BY DEF RowsBefore
    <3>8. NewRowsDiffer(x) /\ RowsBefore(x, n)
      BY <1>1, <3>3, <3>6, <3>7 DEF NewRowsDiffer, RowsBefore, PlanIsSound
    <3>9. NewRowsAreNew(x)
      BY <1>5, <2>9, <3>3, <3>5, <3>6 DEF NewRowsAreNew, PlanIsSound
    <3> QED BY <3>5, <3>8, <3>9 DEF PlanIsSound, x, e
  <2> HIDE DEF IsDone
  <2>10. IsDone(rest)
    BY <2>4, <2>5, <2>6, <2>7, <2>8, <2>9, Zenon
  <2>11. IsDone(q)
    BY <2>2, <2>4, <2>10
  <2> QED BY <2>11 DEF IsDone
<1> QED BY <1>6, <1>7

\* A set of numbers has a least one: the first counterexample of an induction.
LEMMA LeastNat ==
  ASSUME NEW S \in SUBSET Nat, S # {}
  PROVE  \E m \in S : \A n \in S : m <= n
<1> DEFINE Before == OpToRel(<, Nat)
<1>1. \A m, n \in Nat : n < m => <<n, m>> \in Before
  BY Zenon DEF OpToRel
<1>2. IsWellFoundedOn(Before, Nat)
  BY NatLessThanWellFounded, Zenon
<1> HIDE DEF Before
<1>3. PICK m \in S : \A n \in S : ~(<<n, m>> \in Before)
  BY <1>2, WFMin
<1>4. ASSUME NEW n \in S PROVE m <= n
  <2>1. m \in Nat /\ n \in Nat /\ ~(n < m)
    BY <1>1, <1>3
  <2> QED BY <2>1
<1> QED BY <1>4

\* The plans of PlansOf exist, one after each row.
LEMMA PlansExist ==
  ASSUME NEW ws, NEW rows, Len(rows) \in Nat
  PROVE  LET plans == PlansOf(ws, rows)
         IN  /\ plans[0] = EmptyPlan(ws)
             /\ \A n \in 1 .. Len(rows) : plans[n] = PlanRow(ws, rows, plans[n - 1], n)
<1> DEFINE Next1(p, n) == PlanRow(ws, rows, p, n)
           first == EmptyPlan(ws)
           G(g, k) == [n \in 0 .. k |-> IF n = 0 THEN first ELSE Next1(g[n - 1], n)]
           Missing == {k \in Nat : ~ \E g : g = G(g, k)}
           plans == CHOOSE g : g = G(g, Len(rows))
<1>1. PlansOf(ws, rows) = plans
  BY Zenon DEF PlansOf
<1> HIDE DEF Next1, first
<1>2. 0 \notin Missing
  <2> DEFINE g == [n \in 0 .. 0 |-> first]
  <2>1. g = G(g, 0)
    OBVIOUS
  <2> QED BY <2>1
<1>3. ASSUME NEW k \in Nat, k \notin Missing PROVE k + 1 \notin Missing
  <2>1. PICK g : g = G(g, k)
    BY <1>3
  <2> DEFINE h == [n \in 0 .. k + 1 |-> IF n <= k THEN g[n] ELSE Next1(g[k], k + 1)]
  <2>2. \A n \in 0 .. k : h[n] = g[n]
    OBVIOUS
  <2>3. h[k + 1] = Next1(g[k], k + 1)
    OBVIOUS
  <2>4. ASSUME NEW n \in 0 .. k + 1
        PROVE  h[n] = IF n = 0 THEN first ELSE Next1(h[n - 1], n)
    <3>1. CASE n = 0
      BY <2>1, <2>2, <3>1
    <3>2. CASE n \in 1 .. k
      <4>1. g[n] = Next1(g[n - 1], n)
        BY <2>1, <3>2
      <4> QED BY <2>2, <3>2, <4>1
    <3>3. CASE n = k + 1
      BY <2>2, <2>3, <3>3
    <3> QED BY <3>1, <3>2, <3>3
  <2>5. h = [n \in 0 .. k + 1 |-> h[n]]
    OBVIOUS
  <2> HIDE DEF h
  <2>6. h = G(h, k + 1)
    BY <2>4, <2>5
  <2> QED BY <2>6
<1> HIDE DEF G
<1>4. Missing = {}
  <2> SUFFICES ASSUME Missing # {} PROVE FALSE
    OBVIOUS
  <2>1. PICK k \in Missing : \A n \in Missing : k <= n
    BY LeastNat
  <2>2. k \in Nat /\ k # 0
    BY <1>2
  <2>3. k - 1 \in Nat /\ k - 1 \notin Missing
    BY <2>1, <2>2
  <2>4. (k - 1) + 1 \notin Missing
    BY <1>3, <2>3
  <2> QED BY <2>1, <2>2, <2>4
<1>5. plans = G(plans, Len(rows))
  <2>1. \E g : g = G(g, Len(rows))
    BY <1>4
  <2> QED BY <2>1, Zenon
<1> HIDE DEF plans
<1>6. /\ plans[0] = first
      /\ \A n \in 1 .. Len(rows) : plans[n] = Next1(plans[n - 1], n)
  BY <1>5 DEF G
<1> QED BY <1>1, <1>6 DEF Next1, first

\* The plan of a file is sound for the workspace it was made for.
LEMMA PlanIsMadeSound ==
  ASSUME NEW ws, DOMAIN ws.deals \subseteq DealIds,
         NEW rows \in Seq(Candidates \cup {Malformed})
  PROVE  LET p == PlanLeadImport(ws, rows)
         IN  p.print = ws /\ PlanIsSound(p)
<1> DEFINE plans == PlansOf(ws, rows)
           Sound(n) == plans[n].print = ws /\ PlanIsSound(plans[n]) /\ RowsBefore(plans[n], n)
           Unsound == {n \in 0 .. Len(rows) : ~Sound(n)}
<1>1. Len(rows) \in Nat
  OBVIOUS
<1>2. /\ plans[0] = EmptyPlan(ws)
      /\ \A n \in 1 .. Len(rows) : plans[n] = PlanRow(ws, rows, plans[n - 1], n)
  BY <1>1, PlansExist
<1> HIDE DEF plans
<1>3. Sound(0)
  <2> DEFINE p == EmptyPlan(ws)
  <2>1. p \in PlanFor(ws) /\ p.print = ws /\ p.new = <<>>
    BY DEF EmptyPlan, PlanFor
  <2>2. ToSet(p.new) = {}
    BY <2>1 DEF ToSet
  <2> QED BY <1>2, <2>1, <2>2 DEF PlanIsSound, NewRowsDiffer, NewRowsAreNew, RowsBefore
<1>4. ASSUME NEW n \in 1 .. Len(rows), Sound(n - 1) PROVE Sound(n)
  <2>1. LET q == PlanRow(ws, rows, plans[n - 1], n)
        IN  q.print = ws /\ PlanIsSound(q) /\ RowsBefore(q, n)
    BY <1>4, RowIsPlanned
  <2> QED BY <1>2, <2>1
<1> HIDE DEF Sound
<1>5. Unsound = {}
  <2> SUFFICES ASSUME Unsound # {} PROVE FALSE
    OBVIOUS
  <2>1. Unsound \in SUBSET Nat
    OBVIOUS
  <2>2. PICK k \in Unsound : \A n \in Unsound : k <= n
    BY <2>1, LeastNat
  <2>3. k \in 1 .. Len(rows)
    BY <1>1, <1>3, <2>2
  <2>4. Sound(k - 1)
    BY <1>1, <2>2, <2>3
  <2>5. Sound(k)
    BY <1>4, <2>3, <2>4
  <2> QED BY <2>2, <2>5
<1>6. Sound(Len(rows))
  BY <1>1, <1>5
<1> QED BY <1>6 DEF Sound, PlanLeadImport, plans

\* The decisions on possible duplicates keep a plan sound.
LEMMA DecisionsAreSound ==
  ASSUME NEW p, PlanIsSound(p)
  PROVE  /\ \A r \in p.possible : \A d \in DealIds : PlanIsSound(AttachPossible(p, r, d))
         /\ \A r \in p.possible : PlanIsSound(HoldPossible(p, r))
         /\ HoldAll(p).print = p.print /\ PlanIsSound(HoldAll(p))
<1>1. p \in PlanFor(p.print)
  BY DEF PlanIsSound
<1>2. ASSUME NEW r \in p.possible, NEW d \in DealIds
      PROVE  PlanIsSound(AttachPossible(p, r, d))
  <2> DEFINE m == [row |-> r.row, cand |-> r.cand, target |-> Existing(d)]
  <2>1. m \in Move
    BY <1>1 DEF PlanFor, PossibleRow, Move, Target, Existing
  <2> HIDE DEF m
  <2>2. Append(p.attached, m) \in Seq(Move)
    BY <1>1, <2>1 DEF PlanFor
  <2>3. /\ [p EXCEPT !.possible = @ \ {r}, !.attached = Append(@, m)] \in PlanFor(p.print)
        /\ [p EXCEPT !.possible = @ \ {r}, !.attached = Append(@, m)].new = p.new
    BY <1>1, <2>2 DEF PlanFor
  <2> QED BY <2>3, NothingPlanned DEF AttachPossible, m
<1>3. ASSUME NEW r \in p.possible PROVE PlanIsSound(HoldPossible(p, r))
  <2>1. r.row \in Nat
    BY <1>1 DEF PlanFor, PossibleRow
  <2>2. HoldPossible(p, r) \in PlanFor(p.print) /\ HoldPossible(p, r).new = p.new
    BY <1>1, <2>1 DEF PlanFor, HoldPossible
  <2> QED BY <2>2, NothingPlanned
<1>4. HoldAll(p).print = p.print /\ PlanIsSound(HoldAll(p))
  <2>1. {r.row : r \in p.possible} \subseteq Nat
    BY <1>1 DEF PlanFor, PossibleRow
  <2>2. /\ HoldAll(p) \in PlanFor(p.print)
        /\ HoldAll(p).new = p.new /\ HoldAll(p).print = p.print
    BY <1>1, <2>1 DEF PlanFor, HoldAll
  <2> QED BY <2>2, NothingPlanned
<1> QED BY <1>2, <1>3, <1>4

-----------------------------------------------------------------------------
(* Applying a plan.                                                        *)

\* uniqueStableId finds an id that is free.
LEMMA FreshIdIsTyped ==
  ASSUME NEW deals, IsFiniteSet(DOMAIN deals), NEW i \in Identities
  PROVE  FreshDealId(deals, i) \in DealIds
<1> DEFINE K == Cardinality(DOMAIN deals)
           Taken(n) == <<i, n>> \in DOMAIN deals
           Free == {n \in 1 .. K + 1 : ~Taken(n)}
<1>1. K \in Nat
  BY FS_CardinalityType
<1>2. Free # {}
  <2> SUFFICES ASSUME Free = {} PROVE FALSE
    OBVIOUS
  <2> DEFINE f == [n \in 1 .. K + 1 |-> <<i, n>>]
  <2>1. IsFiniteSet(1 .. K + 1) /\ Cardinality(1 .. K + 1) = K + 1
    BY <1>1, FS_Interval
  <2>2. \A n \in 1 .. K + 1 : <<i, n>> \in DOMAIN deals
    OBVIOUS
  <2>3. f \in Injection(1 .. K + 1, DOMAIN deals)
    BY <2>2 DEF Injection, IsInjective
  <2> HIDE DEF f
  <2>4. Cardinality(1 .. K + 1) <= K
    BY <2>1, <2>3, FS_Injection
  <2> QED BY <1>1, <2>1, <2>4
<1>3. Free \in SUBSET Nat
  OBVIOUS
<1>4. PICK n \in Free : \A m \in Free : n <= m
  BY <1>2, <1>3, LeastNat
<1>5. n \in 1 .. K + 1 /\ ~Taken(n) /\ \A m \in 1 .. n - 1 : Taken(m)
  BY <1>1, <1>4
<1> DEFINE First(m) == ~Taken(m) /\ \A k \in 1 .. m - 1 : Taken(k)
           least == CHOOSE m \in 1 .. K + 1 : First(m)
<1>6. least \in 1 .. K + 1
  BY <1>5
<1>7. FreshDealId(deals, i) = <<i, least>>
  BY Zenon DEF FreshDealId
<1> HIDE DEF least
<1> QED BY <1>1, <1>6, <1>7 DEF DealIds

\* A sequence, and any function of a finite set, has a finite set of values.
LEMMA ValuesAreFinite ==
  ASSUME NEW f, f = [x \in DOMAIN f |-> f[x]], IsFiniteSet(DOMAIN f)
  PROVE  IsFiniteSet(ToSet(f))
<1>1. \A x \in DOMAIN f : f[x] \in ToSet(f)
  BY DEF ToSet
<1>2. f \in [DOMAIN f -> ToSet(f)]
  BY <1>1
<1>3. f \in Surjection(DOMAIN f, ToSet(f))
  BY <1>2 DEF Surjection, ToSet
<1> QED BY <1>3, FS_Surjection

\* The deals of a plan before its additions: those of the workspace, and those of
\* the new rows.
LEMMA NewDealsAreKept ==
  ASSUME NEW ws, NEW time, IsKept(ws, time), NEW p, PlanIsSound(p)
  PROVE  LET deals == WithNewDeals(ws, p)
         IN  /\ DOMAIN deals \subseteq DealIds /\ IsFiniteSet(DOMAIN deals)
             /\ DOMAIN ws.deals \subseteq DOMAIN deals
             /\ deals \in [DOMAIN deals -> Deal]
             /\ \A d \in DOMAIN deals : DealIsKept(deals[d])
             /\ \A d \in DOMAIN ws.deals : deals[d] = ws.deals[d]
             /\ \A d \in DOMAIN deals \ DOMAIN ws.deals : \E n \in ToSet(p.new) :
                  /\ d = FreshDealId(ws.deals, n.cand.id)
                  /\ deals[d] = NewDeal(n.cand)
<1> DEFINE new == ToSet(p.new)
           Id(n) == FreshDealId(ws.deals, n.cand.id)
           ids == {Id(n) : n \in new}
           Row(d) == CHOOSE n \in new : Id(n) = d
           deals == WithNewDeals(ws, p)
<1>1. /\ DOMAIN ws.deals \subseteq DealIds /\ IsFiniteSet(DOMAIN ws.deals)
      /\ ws.deals \in [DOMAIN ws.deals -> Deal]
      /\ \A d \in DOMAIN ws.deals : DealIsKept(ws.deals[d])
  BY DEF IsKept, IsWorkspace
<1>2. p.new \in Seq(PlannedRow)
  BY DEF PlanIsSound, PlanFor
<1>3. \A n \in new : n.cand \in Candidates /\ n.cand.id \in Identities
  BY <1>2, ElementsAreTyped DEF PlannedRow, Candidates
<1>4. IsFiniteSet(ids)
  <2>1. IsFiniteSet(1 .. Len(p.new))
    BY <1>2, FS_Interval
  <2> DEFINE f == [k \in 1 .. Len(p.new) |-> Id(p.new[k])]
  <2>2. \A n \in new : \E k \in 1 .. Len(p.new) : n = p.new[k]
    BY <1>2 DEF ToSet
  <2>3. ids \subseteq ToSet(f)
    BY <2>2 DEF ToSet
  <2>4. DOMAIN f = 1 .. Len(p.new) /\ f = [k \in DOMAIN f |-> f[k]]
    OBVIOUS
  <2> HIDE DEF f
  <2>5. IsFiniteSet(ToSet(f))
    BY <2>1, <2>4, ValuesAreFinite
  <2> QED BY <2>3, <2>5, FS_Subset
<1>5. ids \subseteq DealIds
  BY <1>1, <1>3, FreshIdIsTyped
<1>6. deals = [d \in DOMAIN ws.deals \cup ids |->
                 IF d \in DOMAIN ws.deals THEN ws.deals[d] ELSE NewDeal(Row(d).cand)]
  BY Zenon DEF WithNewDeals
<1>7. \A d \in ids : Row(d) \in new /\ Id(Row(d)) = d
  BY Zenon
<1>8. \A c \in Candidates : NewDeal(c) \in Deal /\ DealIsKept(NewDeal(c))
  BY NewDealIsKept
<1>9. IsFiniteSet(DOMAIN ws.deals \cup ids)
  BY <1>1, <1>4, FS_Union
<1> HIDE DEF deals, Row, ids, Id, new
<1>10. DOMAIN deals = DOMAIN ws.deals \cup ids
  BY <1>6
<1>11. \A d \in DOMAIN ws.deals : deals[d] = ws.deals[d]
  BY <1>6
<1>12. ASSUME NEW d \in ids, d \notin DOMAIN ws.deals
       PROVE  /\ deals[d] = NewDeal(Row(d).cand)
              /\ Row(d) \in new /\ d = Id(Row(d)) /\ Row(d).cand \in Candidates
  BY <1>3, <1>6, <1>7, <1>12
<1>13. \A d \in DOMAIN deals : deals[d] \in Deal /\ DealIsKept(deals[d])
  BY <1>1, <1>8, <1>10, <1>11, <1>12
<1>14. deals = [d \in DOMAIN deals |-> deals[d]]
  BY <1>6
<1>15. deals \in [DOMAIN deals -> Deal]
  BY <1>13, <1>14
<1>16. \A d \in DOMAIN deals \ DOMAIN ws.deals : \E n \in new :
         d = Id(n) /\ deals[d] = NewDeal(n.cand)
  BY <1>10, <1>12
<1> QED BY <1>1, <1>5, <1>9, <1>10, <1>11, <1>13, <1>15, <1>16 DEF deals, new, Id

\* Growing twice is growing.
LEMMA GrowsOn ==
  ASSUME NEW x \in Deal, NEW y, NEW z, Grows(x, y), Grows(y, z)
  PROVE  Grows(x, z)
<1>1. /\ x.conflicts \subseteq Conflict /\ x.restrictions \subseteq Restriction
      /\ y.conflicts \subseteq Conflict /\ y.restrictions \subseteq Restriction
      /\ z.conflicts \subseteq Conflict /\ z.restrictions \subseteq Restriction
  BY DEF Grows, Deal, Conflict
<1>2. ASSUME NEW k \in Conflict, NEW l \in Conflict, NEW m \in Conflict,
             SameConflict(k, l), SameConflict(l, m)
      PROVE  SameConflict(k, m)
  BY <1>2 DEF SameConflict, Conflict, ConflictOf
<1>3. ASSUME NEW r \in Restriction, NEW s \in Restriction, NEW q \in Restriction,
             SameHold(r, s), SameHold(s, q)
      PROVE  SameHold(r, q)
  BY <1>3 DEF SameHold, Restriction
<1>4. SameConflicts(x.conflicts, z.conflicts)
  BY <1>1, <1>2 DEF SameConflicts, Grows
<1>5. SameHolds(x.restrictions, z.restrictions)
  BY <1>1, <1>3 DEF SameHolds, Grows
<1> QED BY <1>4, <1>5 DEF Grows

\* The targets of an identity in a plan: SplitsIdentity counts them.
TargetsOf(ws, p, i) ==
  {Existing(d) : d \in {e \in DOMAIN ws.deals :
                          \E a \in ws.deals[e].assertions : a.id = i}}
  \cup {Planned(n.row) : n \in {m \in ToSet(p.new) : m.cand.id = i}}
  \cup {n.target : n \in {m \in ToSet(Additions(p)) : m.cand.id = i}}

\* The additions of a plan.
LEMMA AdditionsAreTyped ==
  ASSUME NEW p, PlanIsSound(p)
  PROVE  /\ Additions(p) \in Seq(Move)
         /\ \A a \in ToSet(Additions(p)) : a.cand \in Candidates
<1>1. Additions(p) \in Seq(Move)
  BY DEF Additions, PlanIsSound, PlanFor
<1> QED BY <1>1, ElementsAreTyped DEF Move

\* An identity has finitely many targets.
LEMMA TargetsAreFinite ==
  ASSUME NEW ws, IsFiniteSet(DOMAIN ws.deals), NEW p, PlanIsSound(p), NEW i
  PROVE  IsFiniteSet(TargetsOf(ws, p, i))
<1> DEFINE adds == Additions(p)
           f == [d \in DOMAIN ws.deals |-> Existing(d)]
           g == [k \in 1 .. Len(p.new) |-> Planned(p.new[k].row)]
           h == [k \in 1 .. Len(adds) |-> adds[k].target]
<1>1. p.new \in Seq(PlannedRow) /\ adds \in Seq(Move)
  BY AdditionsAreTyped DEF PlanIsSound, PlanFor
<1> HIDE DEF adds
<1>2. /\ IsFiniteSet(1 .. Len(p.new)) /\ DOMAIN p.new = 1 .. Len(p.new)
      /\ IsFiniteSet(1 .. Len(adds)) /\ DOMAIN adds = 1 .. Len(adds)
  BY <1>1, FS_Interval
<1>3. /\ DOMAIN f = DOMAIN ws.deals /\ f = [x \in DOMAIN f |-> f[x]]
      /\ DOMAIN g = 1 .. Len(p.new) /\ g = [x \in DOMAIN g |-> g[x]]
      /\ DOMAIN h = 1 .. Len(adds) /\ h = [x \in DOMAIN h |-> h[x]]
  OBVIOUS
<1>4. {Existing(d) : d \in {e \in DOMAIN ws.deals :
                              \E a \in ws.deals[e].assertions : a.id = i}}
        \subseteq ToSet(f)
  BY DEF ToSet
<1>5. {Planned(n.row) : n \in {m \in ToSet(p.new) : m.cand.id = i}} \subseteq ToSet(g)
  BY <1>2 DEF ToSet
<1>6. {n.target : n \in {m \in ToSet(adds) : m.cand.id = i}} \subseteq ToSet(h)
  BY <1>2 DEF ToSet
<1> HIDE DEF f, g, h
<1>7. IsFiniteSet(ToSet(f)) /\ IsFiniteSet(ToSet(g)) /\ IsFiniteSet(ToSet(h))
  BY <1>2, <1>3, ValuesAreFinite
<1>8. IsFiniteSet((ToSet(f) \cup ToSet(g)) \cup ToSet(h))
  BY <1>7, FS_Union
<1>9. TargetsOf(ws, p, i) \subseteq (ToSet(f) \cup ToSet(g)) \cup ToSet(h)
  BY <1>4, <1>5, <1>6, Zenon DEF TargetsOf, adds
<1> QED BY <1>8, <1>9, FS_Subset

\* In a plan that may be applied it has one.
LEMMA OneTarget ==
  ASSUME NEW ws, IsFiniteSet(DOMAIN ws.deals), NEW p, PlanIsSound(p),
         ~SplitsIdentity(ws, p), NEW i \in Identities,
         NEW t \in TargetsOf(ws, p, i), NEW u \in TargetsOf(ws, p, i)
  PROVE  t = u
<1> SUFFICES ASSUME t # u PROVE FALSE
  OBVIOUS
<1>1. IsFiniteSet(TargetsOf(ws, p, i))
  BY TargetsAreFinite
<1>2. ~(Cardinality(TargetsOf(ws, p, i)) > 1)
  BY Zenon DEF SplitsIdentity, TargetsOf
<1>3. IsFiniteSet({t}) /\ Cardinality({t}) = 1
  BY FS_Singleton
<1>4. IsFiniteSet({t} \cup {u}) /\ Cardinality({t} \cup {u}) = 2
  BY <1>3, FS_AddElement
<1>5. {t} \cup {u} \subseteq TargetsOf(ws, p, i)
  OBVIOUS
<1>6. /\ Cardinality({t} \cup {u}) <= Cardinality(TargetsOf(ws, p, i))
      /\ Cardinality(TargetsOf(ws, p, i)) \in Nat
  BY <1>1, <1>5, FS_Subset, FS_CardinalityType
<1> QED BY <1>2, <1>4, <1>6

\* The deals of DealsAfter exist, after each addition.
LEMMA DealsExist ==
  ASSUME NEW ws, NEW p, Len(Additions(p)) \in Nat
  PROVE  LET deals == DealsAfter(ws, p)
             adds  == Additions(p)
         IN  /\ deals[0] = WithNewDeals(ws, p)
             /\ \A n \in 1 .. Len(adds) :
                  deals[n] = [deals[n - 1] EXCEPT ![TargetDeal(ws, p, adds[n].target)] =
                                AppendAssertion(@, adds[n].cand)]
<1> DEFINE adds == Additions(p)
           N == Len(adds)
           first == WithNewDeals(ws, p)
           After(x, n) == [x EXCEPT ![TargetDeal(ws, p, adds[n].target)] =
                             AppendAssertion(@, adds[n].cand)]
           G(g, k) == [n \in 0 .. k |-> IF n = 0 THEN first ELSE After(g[n - 1], n)]
           Missing == {k \in Nat : ~ \E g : g = G(g, k)}
           deals == CHOOSE g : g = G(g, N)
<1>1. DealsAfter(ws, p) = deals
  BY Zenon DEF DealsAfter
<1> HIDE DEF After, first, N
<1>2. 0 \notin Missing
  <2> DEFINE g == [n \in 0 .. 0 |-> first]
  <2>1. g = G(g, 0)
    OBVIOUS
  <2> QED BY <2>1
<1>3. ASSUME NEW k \in Nat, k \notin Missing PROVE k + 1 \notin Missing
  <2>1. PICK g : g = G(g, k)
    BY <1>3
  <2> DEFINE h == [n \in 0 .. k + 1 |-> IF n <= k THEN g[n] ELSE After(g[k], k + 1)]
  <2>2. \A n \in 0 .. k : h[n] = g[n]
    OBVIOUS
  <2>3. h[k + 1] = After(g[k], k + 1)
    OBVIOUS
  <2>4. ASSUME NEW n \in 0 .. k + 1
        PROVE  h[n] = IF n = 0 THEN first ELSE After(h[n - 1], n)
    <3>1. CASE n = 0
      BY <2>1, <2>2, <3>1
    <3>2. CASE n \in 1 .. k
      <4>1. g[n] = After(g[n - 1], n)
        BY <2>1, <3>2
      <4> QED BY <2>2, <3>2, <4>1
    <3>3. CASE n = k + 1
      BY <2>2, <2>3, <3>3
    <3> QED BY <3>1, <3>2, <3>3
  <2>5. h = [n \in 0 .. k + 1 |-> h[n]]
    OBVIOUS
  <2> HIDE DEF h
  <2>6. h = G(h, k + 1)
    BY <2>4, <2>5
  <2> QED BY <2>6
<1> HIDE DEF G
<1>4. Missing = {}
  <2> SUFFICES ASSUME Missing # {} PROVE FALSE
    OBVIOUS
  <2>1. PICK k \in Missing : \A n \in Missing : k <= n
    BY LeastNat
  <2>2. k \in Nat /\ k # 0
    BY <1>2
  <2>3. k - 1 \in Nat /\ k - 1 \notin Missing
    BY <2>1, <2>2
  <2>4. (k - 1) + 1 \notin Missing
    BY <1>3, <2>3
  <2> QED BY <2>1, <2>2, <2>4
<1>5. N \in Nat
  BY DEF N
<1>6. deals = G(deals, N)
  <2>1. \E g : g = G(g, N)
    BY <1>4, <1>5
  <2> QED BY <2>1, Zenon
<1> HIDE DEF deals
<1>7. /\ deals[0] = first
      /\ \A n \in 1 .. N : deals[n] = After(deals[n - 1], n)
  BY <1>5, <1>6 DEF G
<1> QED BY <1>1, <1>7 DEF After, first, N

\* What holds of the deals after each addition: they have grown, at the property
\* they were of, and each snapshot is there for a target of its identity.
Grown(ws, p, deals) ==
  LET first == WithNewDeals(ws, p)
  IN  /\ deals \in [DOMAIN first -> Deal]
      /\ \A d \in DOMAIN first :
           Grows(first[d], deals[d]) /\ deals[d].address = first[d].address
      /\ \A d \in DOMAIN first : \A a \in deals[d].assertions :
           \E t \in TargetsOf(ws, p, a.id) : TargetDeal(ws, p, t) = d

\* It holds before the additions, ...
LEMMA FirstHasGrown ==
  ASSUME NEW ws, NEW time, IsKept(ws, time), NEW p, PlanIsSound(p)
  PROVE  Grown(ws, p, WithNewDeals(ws, p))
<1> DEFINE first == WithNewDeals(ws, p)
<1>1. /\ DOMAIN ws.deals \subseteq DOMAIN first
      /\ first \in [DOMAIN first -> Deal]
      /\ \A d \in DOMAIN first : DealIsKept(first[d])
      /\ \A d \in DOMAIN ws.deals : first[d] = ws.deals[d]
      /\ \A d \in DOMAIN first \ DOMAIN ws.deals : \E n \in ToSet(p.new) :
           /\ d = FreshDealId(ws.deals, n.cand.id)
           /\ first[d] = NewDeal(n.cand)
  BY NewDealsAreKept
<1> HIDE DEF first
<1>2. \A d \in DOMAIN first : Grows(first[d], first[d])
  BY <1>1, GrowsItself
<1>3. ASSUME NEW d \in DOMAIN ws.deals, NEW a \in first[d].assertions
      PROVE  \E t \in TargetsOf(ws, p, a.id) : TargetDeal(ws, p, t) = d
  <2>1. d \in {e \in DOMAIN ws.deals : \E b \in ws.deals[e].assertions : b.id = a.id}
    BY <1>1
  <2>2. Existing(d) \in TargetsOf(ws, p, a.id)
    BY <2>1 DEF TargetsOf
  <2>3. TargetDeal(ws, p, Existing(d)) = d
    BY DEF TargetDeal, Existing
  <2> QED BY <2>2, <2>3
<1>4. ASSUME NEW d \in DOMAIN first \ DOMAIN ws.deals, NEW a \in first[d].assertions
      PROVE  \E t \in TargetsOf(ws, p, a.id) : TargetDeal(ws, p, t) = d
  <2>1. PICK n \in ToSet(p.new) :
          d = FreshDealId(ws.deals, n.cand.id) /\ first[d] = NewDeal(n.cand)
    BY <1>1
  <2>2. p.new \in Seq(PlannedRow)
    BY DEF PlanIsSound, PlanFor
  <2>3. n.cand \in Candidates
    BY <2>2, ElementsAreTyped DEF PlannedRow
  <2>4. a = n.cand
    BY <2>1, <2>3, NewDealIsKept
  <2>5. n \in {m \in ToSet(p.new) : m.cand.id = a.id}
    BY <2>4
  <2>6. Planned(n.row) \in TargetsOf(ws, p, a.id)
    BY <2>5 DEF TargetsOf
  <2>7. \A m \in ToSet(p.new) : m.row = n.row => m = n
    BY DEF PlanIsSound, NewRowsDiffer
  <2> DEFINE m0 == CHOOSE m \in ToSet(p.new) : m.row = n.row
  <2>8. m0 = n
    BY <2>7
  <2>9. TargetDeal(ws, p, Planned(n.row)) = FreshDealId(ws.deals, m0.cand.id)
    <3>1. Planned(n.row)[1] # "existing" /\ Planned(n.row)[2] = n.row
      BY DEF Planned
    <3> QED BY <3>1, Zenon DEF TargetDeal
  <2> HIDE DEF m0
  <2> QED BY <2>1, <2>6, <2>8, <2>9
<1>5. \A d \in DOMAIN first : \A a \in first[d].assertions :
        \E t \in TargetsOf(ws, p, a.id) : TargetDeal(ws, p, t) = d
  BY <1>3, <1>4
<1> QED BY <1>1, <1>2, <1>5 DEF Grown, first

\* ... and after each.
LEMMA AdditionGrows ==
  ASSUME NEW ws, NEW time, IsKept(ws, time), NEW p, PlanIsSound(p),
         NEW deals, Grown(ws, p, deals), NEW a \in ToSet(Additions(p))
  PROVE  Grown(ws, p, [deals EXCEPT ![TargetDeal(ws, p, a.target)] =
                         AppendAssertion(@, a.cand)])
<1> DEFINE first == WithNewDeals(ws, p)
           x == TargetDeal(ws, p, a.target)
           after == [deals EXCEPT ![x] = AppendAssertion(@, a.cand)]
<1>1. /\ first \in [DOMAIN first -> Deal]
      /\ a.cand \in Candidates
  BY NewDealsAreKept, AdditionsAreTyped
<1>2. /\ deals \in [DOMAIN first -> Deal]
      /\ \A d \in DOMAIN first :
           Grows(first[d], deals[d]) /\ deals[d].address = first[d].address
      /\ \A d \in DOMAIN first : \A b \in deals[d].assertions :
           \E t \in TargetsOf(ws, p, b.id) : TargetDeal(ws, p, t) = d
  BY DEF Grown
<1>3. \E t \in TargetsOf(ws, p, a.cand.id) : TargetDeal(ws, p, t) = x
  <2>1. a \in {m \in ToSet(Additions(p)) : m.cand.id = a.cand.id}
    OBVIOUS
  <2>2. a.target \in TargetsOf(ws, p, a.cand.id)
    BY <2>1 DEF TargetsOf
  <2> QED BY <2>2
<1> HIDE DEF first, x
<1>4. CASE x \notin DOMAIN first
  <2>1. after = deals
    BY <1>2, <1>4
  <2> QED BY <2>1 DEF x
<1>5. CASE x \in DOMAIN first
  <2> DEFINE new == AppendAssertion(deals[x], a.cand)
  <2>1. /\ Grows(deals[x], new)
        /\ new.assertions = deals[x].assertions \cup {a.cand}
        /\ new.address = deals[x].address
    BY <1>1, <1>2, <1>5, AppendGrows DEF Grows
  <2> HIDE DEF new
  <2>2. /\ after[x] = new
        /\ \A d \in DOMAIN first \ {x} : after[d] = deals[d]
        /\ DOMAIN after = DOMAIN first
        /\ after = [d \in DOMAIN first |-> after[d]]
    BY <1>2, <1>5 DEF new
  <2> HIDE DEF after
  <2>3. new \in Deal
    BY <2>1 DEF Grows
  <2>4. after \in [DOMAIN first -> Deal]
    BY <1>2, <2>2, <2>3
  <2>5. Grows(first[x], new) /\ new.address = first[x].address
    BY <1>1, <1>2, <1>5, <2>1, GrowsOn
  <2>6. ASSUME NEW d \in DOMAIN first
        PROVE  /\ Grows(first[d], after[d]) /\ after[d].address = first[d].address
               /\ \A b \in after[d].assertions :
                    \E t \in TargetsOf(ws, p, b.id) : TargetDeal(ws, p, t) = d
    <3>1. CASE d = x
      BY <1>2, <1>3, <1>5, <2>1, <2>2, <2>5, <3>1
    <3>2. CASE d # x
      BY <1>2, <2>2, <3>2
    <3> QED BY <3>1, <3>2
  <2> QED BY <2>4, <2>6 DEF Grown, first, after, x
<1> QED BY <1>4, <1>5

\* The deals of an applied plan.
LEMMA AppliedHasGrown ==
  ASSUME NEW ws, NEW time, IsKept(ws, time), NEW p, PlanIsSound(p)
  PROVE  Grown(ws, p, ApplyPlan(ws, p).deals)
<1> DEFINE adds == Additions(p)
           deals == DealsAfter(ws, p)
           Bad == {n \in 0 .. Len(adds) : ~Grown(ws, p, deals[n])}
<1>1. adds \in Seq(Move) /\ Len(adds) \in Nat /\ DOMAIN adds = 1 .. Len(adds)
  BY AdditionsAreTyped
<1>2. /\ deals[0] = WithNewDeals(ws, p)
      /\ \A n \in 1 .. Len(adds) :
           deals[n] = [deals[n - 1] EXCEPT ![TargetDeal(ws, p, adds[n].target)] =
                         AppendAssertion(@, adds[n].cand)]
  BY <1>1, DealsExist
<1>3. Grown(ws, p, deals[0])
  BY <1>2, FirstHasGrown
<1>4. ASSUME NEW n \in 1 .. Len(adds), Grown(ws, p, deals[n - 1])
      PROVE  Grown(ws, p, deals[n])
  <2>1. adds[n] \in ToSet(adds)
    BY <1>1 DEF ToSet
  <2> DEFINE before == deals[n - 1]
             a == adds[n]
  <2>2. Grown(ws, p, before) /\ a \in ToSet(Additions(p))
    BY <1>4, <2>1
  <2>3. deals[n] = [before EXCEPT ![TargetDeal(ws, p, a.target)] =
                      AppendAssertion(@, a.cand)]
    BY <1>2
  <2> HIDE DEF before, a, deals
  <2>4. Grown(ws, p, [before EXCEPT ![TargetDeal(ws, p, a.target)] =
                        AppendAssertion(@, a.cand)])
    BY <2>2, AdditionGrows
  <2> QED BY <2>3, <2>4
<1> HIDE DEF deals, adds
<1>5. Bad = {}
  <2> SUFFICES ASSUME Bad # {} PROVE FALSE
    OBVIOUS
  <2>1. Bad \in SUBSET Nat
    BY <1>1
  <2>2. PICK k \in Bad : \A n \in Bad : k <= n
    BY <2>1, LeastNat
  <2>3. k \in 1 .. Len(adds)
    BY <1>1, <1>3, <2>2
  <2>4. Grown(ws, p, deals[k - 1])
    BY <1>1, <2>2, <2>3
  <2> QED BY <1>4, <2>2, <2>3, <2>4
<1>6. Grown(ws, p, deals[Len(adds)])
  BY <1>1, <1>5
<1>7. ApplyPlan(ws, p).deals = deals[Len(adds)]
  BY DEF ApplyPlan, deals, adds, IsKept, IsWorkspace
<1> QED BY <1>6, <1>7

\* What an updater owes to the document it is given.
Progresses(ws, new, time, removed) ==
  /\ IsKept(new, time)
  /\ new.revision = ws.revision
  /\ ws.records \ new.records \subseteq removed
  /\ DOMAIN ws.deals \subseteq DOMAIN new.deals
  /\ \A d \in DOMAIN ws.deals : Grows(ws.deals[d], new.deals[d])

\* A deal that a change adds is of a property the workspace did not have.
AddsNewProperties(ws, new) ==
  \A d \in DOMAIN new.deals \ DOMAIN ws.deals : \A e \in DOMAIN ws.deals :
    ws.deals[e].address # new.deals[d].address

\* A document with other deals is kept if they are.
LEMMA DealsAreReplaced ==
  ASSUME NEW ws, NEW time, IsKept(ws, time),
         NEW deals, DOMAIN deals \subseteq DealIds, IsFiniteSet(DOMAIN deals),
         deals \in [DOMAIN deals -> Deal],
         \A d \in DOMAIN deals : DealIsKept(deals[d]),
         IdentityIsOfOneDeal(deals)
  PROVE  LET new == [ws EXCEPT !.deals = deals]
         IN  /\ IsKept(new, time) /\ new.revision = ws.revision
             /\ new.records = ws.records /\ new.deals = deals
<1> DEFINE new == [ws EXCEPT !.deals = deals]
<1>1. ws \in [revision : Nat, at : 0 .. time, box : 0 .. time, deals : {ws.deals},
              records : SUBSET Record]
  BY DEF IsKept, IsWorkspace
<1>2. /\ new \in [revision : Nat, at : 0 .. time, box : 0 .. time, deals : {deals},
                  records : SUBSET Record]
      /\ new.deals = deals /\ new.revision = ws.revision /\ new.records = ws.records
  BY <1>1
<1> HIDE DEF new
<1>3. IsKept(new, time)
  BY <1>2 DEF IsKept, IsWorkspace
<1> QED BY <1>2, <1>3 DEF new

\* Applying a plan that does not split an identity.
LEMMA ApplyProgresses ==
  ASSUME NEW ws, NEW time, IsKept(ws, time), NEW p, PlanIsSound(p), p.print = ws,
         ~SplitsIdentity(ws, p)
  PROVE  LET new == ApplyPlan(ws, p)
         IN  Progresses(ws, new, time, {}) /\ AddsNewProperties(ws, new)
<1> DEFINE first == WithNewDeals(ws, p)
           new == ApplyPlan(ws, p)
           deals == new.deals
<1>1. /\ DOMAIN first \subseteq DealIds /\ IsFiniteSet(DOMAIN first)
      /\ DOMAIN ws.deals \subseteq DOMAIN first
      /\ \A d \in DOMAIN ws.deals : first[d] = ws.deals[d]
      /\ \A d \in DOMAIN first \ DOMAIN ws.deals : \E n \in ToSet(p.new) :
           first[d] = NewDeal(n.cand)
  BY NewDealsAreKept
<1>2. /\ deals \in [DOMAIN first -> Deal]
      /\ \A d \in DOMAIN first :
           Grows(first[d], deals[d]) /\ deals[d].address = first[d].address
      /\ \A d \in DOMAIN first : \A a \in deals[d].assertions :
           \E t \in TargetsOf(ws, p, a.id) : TargetDeal(ws, p, t) = d
  BY AppliedHasGrown DEF Grown
<1>3. ws \in [revision : Nat, at : 0 .. time, box : 0 .. time, deals : {ws.deals},
              records : SUBSET Record]
  BY DEF IsKept, IsWorkspace
<1>4. new = [ws EXCEPT !.deals = deals]
  BY <1>3 DEF ApplyPlan
<1> HIDE DEF first, new
<1>5. DOMAIN deals = DOMAIN first /\ \A d \in DOMAIN deals : DealIsKept(deals[d])
  BY <1>2 DEF Grows
<1>6. IdentityIsOfOneDeal(deals)
  <2> SUFFICES ASSUME NEW d \in DOMAIN first, NEW e \in DOMAIN first,
                      NEW a \in deals[d].assertions, NEW b \in deals[e].assertions,
                      a.id = b.id
               PROVE  d = e
    BY <1>5 DEF IdentityIsOfOneDeal
  <2>1. a.id \in Identities
    BY <1>2 DEF Deal, Candidates
  <2>2. PICK t \in TargetsOf(ws, p, a.id) : TargetDeal(ws, p, t) = d
    BY <1>2
  <2>3. PICK u \in TargetsOf(ws, p, a.id) : TargetDeal(ws, p, u) = e
    BY <1>2
  <2>4. IsFiniteSet(DOMAIN ws.deals)
    BY DEF IsKept, IsWorkspace
  <2>5. t = u
    BY <2>1, <2>4, OneTarget
  <2> QED BY <2>2, <2>3, <2>5
<1>7. /\ IsKept(new, time) /\ new.revision = ws.revision
      /\ new.records = ws.records
  <2> HIDE DEF deals
  <2> QED BY <1>1, <1>2, <1>4, <1>5, <1>6, DealsAreReplaced
<1>8. Progresses(ws, new, time, {})
  BY <1>1, <1>2, <1>5, <1>7 DEF Progresses
<1>9. ASSUME NEW d \in DOMAIN deals \ DOMAIN ws.deals, NEW e \in DOMAIN ws.deals
      PROVE  ws.deals[e].address # deals[d].address
  <2>1. PICK n \in ToSet(p.new) : first[d] = NewDeal(n.cand)
    BY <1>1, <1>5
  <2>2. n.cand \in Candidates
    <3>1. p.new \in Seq(PlannedRow)
      BY DEF PlanIsSound, PlanFor
    <3> QED BY <3>1, ElementsAreTyped DEF PlannedRow
  <2>3. deals[d].address = n.cand.address
    BY <1>2, <1>5, <2>1, <2>2, NewDealIsKept
  <2> QED BY <2>3 DEF PlanIsSound, NewRowsAreNew
<1>10. AddsNewProperties(ws, new)
  BY <1>9 DEF AddsNewProperties
<1> QED BY <1>8, <1>10 DEF new

\* One deal that grows without a new snapshot.
LEMMA OneDealProgresses ==
  ASSUME NEW ws, NEW time, IsKept(ws, time), NEW d \in DOMAIN ws.deals,
         NEW deal, Grows(ws.deals[d], deal),
         deal.assertions = ws.deals[d].assertions
  PROVE  LET new == [ws EXCEPT !.deals[d] = deal]
         IN  Progresses(ws, new, time, {}) /\ DOMAIN new.deals = DOMAIN ws.deals
<1> DEFINE deals == [ws.deals EXCEPT ![d] = deal]
           new == [ws EXCEPT !.deals = deals]
<1>1. /\ ws \in [revision : Nat, at : 0 .. time, box : 0 .. time, deals : {ws.deals},
                 records : SUBSET Record]
      /\ DOMAIN ws.deals \subseteq DealIds /\ IsFiniteSet(DOMAIN ws.deals)
      /\ ws.deals \in [DOMAIN ws.deals -> Deal]
      /\ \A e \in DOMAIN ws.deals : DealIsKept(ws.deals[e])
      /\ IdentityIsOfOneDeal(ws.deals)
  BY DEF IsKept, IsWorkspace
<1>2. [ws EXCEPT !.deals[d] = deal] = new
  BY <1>1
<1>3. deal \in Deal /\ DealIsKept(deal)
  BY DEF Grows
<1>4. /\ DOMAIN deals = DOMAIN ws.deals /\ deals \in [DOMAIN deals -> Deal]
      /\ deals[d] = deal /\ \A e \in DOMAIN ws.deals \ {d} : deals[e] = ws.deals[e]
  BY <1>1, <1>3
<1> HIDE DEF deals
<1>5. /\ \A e \in DOMAIN deals : DealIsKept(deals[e])
      /\ \A e \in DOMAIN deals : deals[e].assertions = ws.deals[e].assertions
      /\ \A e \in DOMAIN deals : Grows(ws.deals[e], deals[e])
  BY <1>1, <1>3, <1>4, GrowsItself
<1>6. IdentityIsOfOneDeal(deals)
  BY <1>1, <1>4, <1>5 DEF IdentityIsOfOneDeal
<1>7. /\ IsKept(new, time) /\ new.revision = ws.revision
      /\ new.records = ws.records /\ new.deals = deals
  BY <1>1, <1>4, <1>5, <1>6, DealsAreReplaced
<1> HIDE DEF new
<1>8. Progresses(ws, new, time, {})
  BY <1>4, <1>5, <1>7 DEF Progresses
<1> QED BY <1>2, <1>4, <1>7, <1>8

-----------------------------------------------------------------------------
(* Updaters.                                                               *)

\* What a tab may request under the lock.
IsRequest(req) ==
  /\ req.kind \in {"apply", "staged", "resolve", "release", "add", "remove", "edit",
                   "replace", "clear"}
  /\ req.kind = "apply" => PlanIsSound(req.plan)
  /\ req.kind = "staged" => req.rows \in StagedRows
  /\ req.kind = "resolve" => req.side \in {"Canonical", "Asserted"}
  /\ req.kind = "add" => req.record \in Record
  /\ req.kind = "replace" => req.data \in Backups

RemovedBy(req) == IF req.kind = "remove" THEN {req.record} ELSE {}

\* A document stays kept as time passes, ...
LEMMA KeptLater ==
  ASSUME NEW ws, NEW t \in Nat, NEW u \in Nat, t <= u, IsKept(ws, t)
  PROVE  IsKept(ws, u)
<1>1. 0 .. t \subseteq 0 .. u
  OBVIOUS
<1>2. ws \in [revision : Nat, at : 0 .. u, box : 0 .. u, deals : {ws.deals},
              records : SUBSET Record]
  BY <1>1 DEF IsKept, IsWorkspace
<1> QED BY <1>2 DEF IsKept, IsWorkspace

\* ... and when its deals are left alone.
LEMMA KeptAlike ==
  ASSUME NEW ws, NEW time, IsKept(ws, time),
         NEW new \in [revision : Nat, at : 0 .. time, box : 0 .. time,
                      deals : {ws.deals}, records : SUBSET Record]
  PROVE  IsKept(new, time)
<1>1. new.deals = ws.deals
  OBVIOUS
<1> QED BY <1>1 DEF IsKept, IsWorkspace

\* A change of the records or of the stamps progresses.
LEMMA AlikeProgresses ==
  ASSUME NEW ws, NEW time, IsKept(ws, time), NEW removed,
         NEW new \in [revision : {ws.revision}, at : 0 .. time, box : 0 .. time,
                      deals : {ws.deals}, records : SUBSET Record],
         ws.records \ new.records \subseteq removed
  PROVE  Progresses(ws, new, time, removed)
<1>1. /\ ws.revision \in Nat
      /\ ws.deals \in [DOMAIN ws.deals -> Deal]
      /\ \A d \in DOMAIN ws.deals : DealIsKept(ws.deals[d])
  BY DEF IsKept, IsWorkspace
<1>2. new.deals = ws.deals /\ new.revision = ws.revision
  OBVIOUS
<1>3. IsKept(new, time)
  BY <1>1, KeptAlike
<1>4. \A d \in DOMAIN ws.deals : Grows(ws.deals[d], new.deals[d])
  BY <1>1, <1>2, GrowsItself
<1> QED BY <1>2, <1>3, <1>4 DEF Progresses

\* Every updater progresses.
LEMMA UpdatesProgress ==
  ASSUME NEW t \in Nat, NEW ws, IsKept(ws, t), NEW req, IsRequest(req),
         NEW new \in Updated(ws, req, t)
  PROVE  /\ Progresses(ws, new, t, RemovedBy(req))
         /\ req.kind = "apply" => AddsNewProperties(ws, new)
<1>1. /\ ws \in [revision : Nat, at : 0 .. t, box : 0 .. t, deals : {ws.deals},
                 records : SUBSET Record]
      /\ DOMAIN ws.deals \subseteq DealIds
      /\ ws.deals \in [DOMAIN ws.deals -> Deal]
      /\ \A d \in DOMAIN ws.deals : DealIsKept(ws.deals[d])
  BY DEF IsKept, IsWorkspace
<1>2. CASE req.kind = "apply"
  <2>1. CanApply(ws, req.plan) /\ new = ApplyPlan(ws, req.plan)
    <3>1. new \in IF CanApply(ws, req.plan) THEN {ApplyPlan(ws, req.plan)} ELSE {}
      BY <1>2, Zenon DEF Updated
    <3> QED BY <3>1
  <2>2. PlanIsSound(req.plan) /\ req.plan.print = ws /\ ~SplitsIdentity(ws, req.plan)
    BY <1>2, <2>1 DEF IsRequest, CanApply, IsFresh
  <2>3. Progresses(ws, new, t, {}) /\ AddsNewProperties(ws, new)
    BY <2>1, <2>2, ApplyProgresses
  <2> QED BY <1>2, <2>3 DEF RemovedBy
<1>3. CASE req.kind = "staged"
  <2> DEFINE p == HoldAll(PlanLeadImport(ws, req.rows))
  <2>1. new = ImportSafeRecords(ws, req.rows)
    BY <1>3 DEF Updated
  <2>2. req.rows \in Seq(Candidates \cup {Malformed})
    BY <1>3, WorkspaceAssumption DEF IsRequest
  <2>3. PlanIsSound(p) /\ p.print = ws
    BY <1>1, <2>2, PlanIsMadeSound, DecisionsAreSound
  <2>4. new = IF CanApply(ws, p) THEN ApplyPlan(ws, p) ELSE ws
    BY <2>1 DEF ImportSafeRecords
  <2> HIDE DEF p
  <2>5. CASE CanApply(ws, p)
    <3>1. ~SplitsIdentity(ws, p)
      BY <2>5 DEF CanApply
    <3>2. Progresses(ws, new, t, {})
      BY <2>3, <2>4, <2>5, <3>1, ApplyProgresses
    <3> QED BY <1>3, <3>2 DEF RemovedBy
  <2>6. CASE ~CanApply(ws, p)
    <3>1. Progresses(ws, new, t, {})
      BY <1>1, <2>4, <2>6, AlikeProgresses
    <3> QED BY <1>3, <3>1 DEF RemovedBy
  <2> QED BY <2>5, <2>6
<1>4. CASE req.kind = "resolve"
  <2>1. new \in Resolutions(ws, req)
    BY <1>4 DEF Updated
  <2>2. PICK k \in IF req.deal \in DOMAIN ws.deals THEN ws.deals[req.deal].conflicts ELSE {} :
          new = [ws EXCEPT !.deals[req.deal] = ResolveConflict(@, k, req.side)]
    BY <2>1 DEF Resolutions
  <2> DEFINE d == req.deal
             deal == ResolveConflict(ws.deals[d], k, req.side)
  <2>3. d \in DOMAIN ws.deals /\ k \in ws.deals[d].conflicts
    BY <2>2
  <2>4. ws.deals[d] \in Deal /\ DealIsKept(ws.deals[d])
    BY <1>1, <2>3
  <2>5. req.side \in {"Canonical", "Asserted"}
    BY <1>4 DEF IsRequest
  <2>6. Grows(ws.deals[d], deal) /\ deal.assertions = ws.deals[d].assertions
    BY <2>3, <2>4, <2>5, ResolveGrows
  <2>7. new = [ws EXCEPT !.deals[d] = deal]
    BY <1>1, <2>2, <2>3
  <2> HIDE DEF d, deal
  <2>8. Progresses(ws, new, t, {})
    BY <2>3, <2>6, <2>7, OneDealProgresses
  <2> QED BY <1>4, <2>8 DEF RemovedBy
<1>5. CASE req.kind = "release"
  <2>1. new \in Releases(ws, req)
    BY <1>5 DEF Updated
  <2>2. PICK r \in IF req.deal \in DOMAIN ws.deals THEN ws.deals[req.deal].restrictions
                   ELSE {} :
          /\ Resolvable(r)
          /\ new = [ws EXCEPT !.deals[req.deal] = ResolveRestriction(@, r)]
    BY <2>1 DEF Releases
  <2> DEFINE d == req.deal
             deal == ResolveRestriction(ws.deals[d], r)
  <2>3. d \in DOMAIN ws.deals /\ r \in ws.deals[d].restrictions
    BY <2>2
  <2>4. ws.deals[d] \in Deal /\ DealIsKept(ws.deals[d])
    BY <1>1, <2>3
  <2>5. Grows(ws.deals[d], deal) /\ deal.assertions = ws.deals[d].assertions
    BY <2>2, <2>3, <2>4, ReleaseGrows
  <2>6. new = [ws EXCEPT !.deals[d] = deal]
    BY <1>1, <2>2, <2>3
  <2> HIDE DEF d, deal
  <2>7. Progresses(ws, new, t, {})
    BY <2>3, <2>5, <2>6, OneDealProgresses
  <2> QED BY <1>5, <2>7 DEF RemovedBy
<1>6. CASE req.kind = "add"
  <2>1. new = [ws EXCEPT !.records = @ \cup {req.record}] /\ req.record \in Record
    BY <1>6 DEF Updated, IsRequest
  <2> DEFINE record == req.record
  <2>2. record \in Record /\ new = [ws EXCEPT !.records = @ \cup {record}]
    BY <2>1
  <2> HIDE DEF record
  <2>3. /\ new \in [revision : {ws.revision}, at : 0 .. t, box : 0 .. t,
                    deals : {ws.deals}, records : SUBSET Record]
        /\ ws.records \ new.records \subseteq {}
    BY <1>1, <2>2
  <2>4. Progresses(ws, new, t, {})
    BY <2>3, AlikeProgresses
  <2> QED BY <1>6, <2>4 DEF RemovedBy
<1>7. CASE req.kind = "remove"
  <2> DEFINE record == req.record
  <2>1. new = [ws EXCEPT !.records = @ \ {record}]
    BY <1>7 DEF Updated
  <2>2. RemovedBy(req) = {record}
    BY <1>7 DEF RemovedBy
  <2> HIDE DEF record
  <2>3. /\ new \in [revision : {ws.revision}, at : 0 .. t, box : 0 .. t,
                    deals : {ws.deals}, records : SUBSET Record]
        /\ ws.records \ new.records \subseteq {record}
    BY <1>1, <2>1
  <2>4. Progresses(ws, new, t, {record})
    BY <2>3, AlikeProgresses
  <2> QED BY <1>7, <2>2, <2>4
<1>8. CASE req.kind = "edit"
  <2>1. new = [ws EXCEPT !.box = t]
    BY <1>8 DEF Updated
  <2>2. /\ new \in [revision : {ws.revision}, at : 0 .. t, box : 0 .. t,
                    deals : {ws.deals}, records : SUBSET Record]
        /\ ws.records \ new.records \subseteq {}
    BY <1>1, <2>1
  <2>3. Progresses(ws, new, t, {})
    BY <2>2, AlikeProgresses
  <2> QED BY <1>8, <2>3 DEF RemovedBy
<1>9. CASE req.kind \in {"replace", "clear"}
  BY <1>9 DEF Updated
<1> QED BY <1>2, <1>3, <1>4, <1>5, <1>6, <1>7, <1>8, <1>9 DEF IsRequest

-----------------------------------------------------------------------------
(* Reading and writing.                                                    *)

LegacyTyped(leg) == leg \in {Absent, Damaged} \cup LegacyDocument

CurrentKept(cur, time) ==
  cur \in {Absent, Damaged} \/ (IsKept(cur, time) /\ Valid(cur))

\* A document without deals is kept.
LEMMA EmptyIsKept ==
  ASSUME NEW t \in Nat, NEW u \in 0 .. t
  PROVE  IsKept(EmptyData(u), t)
<1> DEFINE ws == EmptyData(u)
<1>1. DOMAIN ws.deals = {} /\ ws.deals \in [DOMAIN ws.deals -> Deal]
  BY DEF EmptyData
<1>2. ws \in [revision : Nat, at : 0 .. t, box : 0 .. t, deals : {ws.deals},
              records : SUBSET Record]
  BY DEF EmptyData
<1>3. IsFiniteSet(DOMAIN ws.deals)
  BY <1>1, FS_EmptySet
<1> HIDE DEF ws
<1> QED BY <1>1, <1>2, <1>3 DEF IsKept, IsWorkspace, IdentityIsOfOneDeal, ws

\* The document that a legacy one becomes is kept.
LEMMA MigratedIsKept ==
  ASSUME NEW t \in Nat, NEW v1 \in LegacyDocument
  PROVE  IsKept(MigrateV1(v1, t), t)
<1> DEFINE holds == MigrationHolds(v1)
           deal == [address |-> v1.address, contact |-> v1.contact, assertions |-> {},
                    conflicts |-> {}, restrictions |-> holds]
           id == <<"legacy", 1>>
           deals == [d \in {id} |-> deal]
           ws == MigrateV1(v1, t)
<1>1. holds \subseteq Restriction /\ \A r \in holds : r.by = Absent
  <2> DEFINE hold == [code |-> "Do not contact", source |-> "Migration", by |-> Absent,
                      active |-> TRUE]
  <2>1. hold \in Restriction /\ hold.by = Absent
    BY DEF Restriction
  <2>2. holds \subseteq {hold}
    BY DEF MigrationHolds
  <2> HIDE DEF hold, holds
  <2> QED BY <2>1, <2>2
<1> HIDE DEF holds
<1>2. deal \in Deal /\ DealIsKept(deal)
  <2>1. deal \in Deal
    BY <1>1 DEF Deal, LegacyDocument
  <2>2. deal.assertions = {} /\ deal.conflicts = {} /\ deal.restrictions = holds
    OBVIOUS
  <2> HIDE DEF deal
  <2> QED BY <1>1, <2>1, <2>2 DEF DealIsKept
<1>3. id \in DealIds
  BY DEF DealIds
<1> HIDE DEF deal, id
<1>4. /\ DOMAIN deals = {id} /\ deals \in [DOMAIN deals -> Deal]
      /\ \A d \in DOMAIN deals : DealIsKept(deals[d])
      /\ IdentityIsOfOneDeal(deals)
  BY <1>2 DEF IdentityIsOfOneDeal
<1>5. IsFiniteSet(DOMAIN deals) /\ DOMAIN deals \subseteq DealIds
  BY <1>3, <1>4, FS_Singleton
<1> HIDE DEF deals
<1>6. [EmptyData(0) EXCEPT !.box = t, !.deals = deals]
        = [revision |-> 0, at |-> 0, box |-> t, deals |-> deals, records |-> {}]
  <2> DEFINE none == <<>>
             e == [revision |-> 0, at |-> 0, box |-> 0, deals |-> none, records |-> {}]
  <2>1. EmptyData(0) = e
    BY Zenon DEF EmptyData
  <2> HIDE DEF none
  <2> DEFINE e1 == [e EXCEPT !.box = t]
  <2>2. e1 = [revision |-> 0, at |-> 0, box |-> t, deals |-> none, records |-> {}]
    OBVIOUS
  <2>3. [e EXCEPT !.box = t, !.deals = deals] = [e1 EXCEPT !.deals = deals]
    BY Zenon
  <2> HIDE DEF e1
  <2>4. [e1 EXCEPT !.deals = deals]
          = [revision |-> 0, at |-> 0, box |-> t, deals |-> deals, records |-> {}]
    BY <2>2
  <2> QED BY <2>1, <2>3, <2>4, Zenon
<1>7. ws = [revision |-> 0, at |-> 0, box |-> t, deals |-> deals, records |-> {}]
  BY <1>6 DEF MigrateV1, deals, deal, id, holds
<1>8. /\ ws \in [revision : Nat, at : 0 .. t, box : 0 .. t, deals : {ws.deals},
                 records : SUBSET Record]
      /\ ws.deals = deals
  BY <1>7
<1> HIDE DEF ws
<1> QED BY <1>4, <1>5, <1>8 DEF IsKept, IsWorkspace, ws

\* What is read is kept.
LEMMA ReadIsKept ==
  ASSUME NEW t \in Nat, NEW u \in Nat, t <= u, NEW cur, CurrentKept(cur, t),
         NEW leg, LegacyTyped(leg)
  PROVE  IsKept(Read(cur, leg, u).data, u)
<1> DEFINE read == Read(cur, leg, u)
<1>1. CASE cur \notin {Absent, Damaged}
  <2>1. read.data = cur
    BY <1>1 DEF Read
  <2>2. IsKept(cur, t)
    BY <1>1 DEF CurrentKept
  <2> QED BY <2>1, <2>2, KeptLater
<1>2. CASE cur \in {Absent, Damaged} /\ leg \notin {Absent, Damaged}
  <2>1. read.data = MigrateV1(leg, u) /\ leg \in LegacyDocument
    BY <1>2 DEF Read, LegacyTyped
  <2> QED BY <2>1, MigratedIsKept
<1>3. CASE cur \in {Absent, Damaged} /\ leg \in {Absent, Damaged}
  <2>1. read.data = EmptyData(u) \/ read.data = EmptyData(0)
    BY <1>3 DEF Read
  <2>2. u \in 0 .. u /\ 0 \in 0 .. u
    OBVIOUS
  <2> QED BY <2>1, <2>2, EmptyIsKept
<1> QED BY <1>1, <1>2, <1>3

\* What a tab renders is kept.
LEMMA ViewIsKept ==
  ASSUME NEW t \in Nat, NEW cur, CurrentKept(cur, t), NEW leg, LegacyTyped(leg)
  PROVE  IsKept(ViewOf(cur, leg, t).data, t)
<1>1. ViewOf(cur, leg, t).data = Read(cur, leg, t).data
  BY DEF ViewOf
<1> QED BY <1>1, ReadIsKept

-----------------------------------------------------------------------------
(* The inductive invariant.                                                *)

DocumentInv ==
  /\ now \in 1 .. MaxTime
  /\ LegacyTyped(legacy)
  /\ CurrentKept(current, now)

TabsInv ==
  /\ DOMAIN view = Tabs /\ DOMAIN plan = Tabs
  /\ \A t \in Tabs : IsKept(view[t].data, now)
  /\ \A t \in Tabs : plan[t] = NoPlan \/ PlanIsSound(plan[t])

\* A tab that holds the lock is alone with it, and has read the document as it is.
LockInv ==
  /\ DOMAIN op = Tabs
  /\ \A t \in Tabs : op[t] # Idle =>
       /\ now < MaxTime
       /\ op[t].at = now + 1
       /\ op[t].read = Read(current, legacy, now + 1)
       /\ IsRequest(op[t].req)
  /\ \A t, u \in Tabs : op[t] # Idle /\ op[u] # Idle => t = u

WorkspaceInv == DocumentInv /\ TabsInv /\ LockInv

\* The documents that a tab may find satisfy the invariant.
LEMMA InitWorkspaceInv == Init => WorkspaceInv
<1> SUFFICES ASSUME Init PROVE WorkspaceInv
  OBVIOUS
<1>1. PICK start \in Starts : current = start[1] /\ legacy = start[2]
  BY DEF Init
<1>2. CurrentKept(current, 1) /\ LegacyTyped(legacy)
  BY <1>1, StartsAssumption DEF CurrentKept, LegacyTyped
<1>3. now = 1 /\ DocumentInv
  BY <1>2, WorkspaceAssumption DEF Init, DocumentInv
<1>4. IsKept(ViewOf(current, legacy, now).data, now)
  BY <1>2, <1>3, ViewIsKept
<1>5. TabsInv
  BY <1>4 DEF Init, TabsInv
<1>6. LockInv
  BY DEF Init, LockInv
<1> QED BY <1>3, <1>5, <1>6 DEF WorkspaceInv

\* Begin asks for what the tab may request.
LEMMA RequestsAreWellFormed ==
  ASSUME WorkspaceInv, NEW t \in Tabs,
         \/ ApplyImport(t) \/ ImportStaged(t) \/ SettleConflict(t) \/ ReleaseHold(t)
         \/ AddNote(t) \/ AddExhibit(t) \/ AddReviewDraft(t) \/ AddApprovalRequest(t)
         \/ AddBuyer(t) \/ AddAnalysis(t) \/ RemoveSheet(t)
         \/ Edit(t) \/ Restore(t) \/ Clear(t)
  PROVE  \E req : IsRequest(req) /\ Begin(t, req)
<1>1. /\ DOMAIN view[t].data.deals \subseteq DealIds
      /\ view[t].data.records \subseteq Record
      /\ now \in Nat
  BY DEF WorkspaceInv, TabsInv, DocumentInv, IsKept, IsWorkspace
<1>2. ASSUME NEW kind \in {"note", "exhibit", "draft", "request", "sheet"},
             NEW d \in DealIds \cup {Absent}, NEW refs \in SUBSET Nat,
             AddRecord(t, kind, d, refs)
      PROVE  \E req : IsRequest(req) /\ Begin(t, req)
  <2> DEFINE record == [id |-> now, kind |-> kind, deal |-> d, refs |-> refs]
             req == [kind |-> "add", record |-> record]
  <2>1. record \in Record
    BY <1>1 DEF Record
  <2> HIDE DEF record
  <2>2. IsRequest(req)
    BY <2>1 DEF IsRequest
  <2>3. Begin(t, req)
    BY <1>2 DEF AddRecord, record
  <2> QED BY <2>2, <2>3
<1>3. RecordIds(t) \subseteq Nat
  BY <1>1 DEF RecordIds, Record
<1>4. CASE ApplyImport(t)
  <2> DEFINE req == [kind |-> "apply", plan |-> plan[t]]
  <2>1. PlanIsSound(plan[t])
    BY <1>4 DEF ApplyImport, ApplyIsOffered, WorkspaceInv, TabsInv
  <2>2. IsRequest(req)
    BY <2>1 DEF IsRequest
  <2>3. Begin(t, req)
    BY <1>4 DEF ApplyImport
  <2> QED BY <2>2, <2>3
<1>5. CASE ImportStaged(t)
  <2>1. PICK rows \in StagedRows : Begin(t, [kind |-> "staged", rows |-> rows])
    BY <1>5 DEF ImportStaged
  <2>2. IsRequest([kind |-> "staged", rows |-> rows])
    BY DEF IsRequest
  <2> QED BY <2>1, <2>2
<1>6. CASE SettleConflict(t)
  <2>1. PICK d \in DOMAIN view[t].data.deals, side \in {"Canonical", "Asserted"} :
          \E k \in view[t].data.deals[d].conflicts :
            Begin(t, [kind |-> "resolve", deal |-> d, conflict |-> k, side |-> side])
    BY <1>6, Zenon DEF SettleConflict
  <2>2. PICK k \in view[t].data.deals[d].conflicts :
          Begin(t, [kind |-> "resolve", deal |-> d, conflict |-> k, side |-> side])
    BY <2>1
  <2>3. IsRequest([kind |-> "resolve", deal |-> d, conflict |-> k, side |-> side])
    BY DEF IsRequest
  <2> QED BY <2>2, <2>3
<1>7. CASE ReleaseHold(t)
  <2>1. PICK d, r : Begin(t, [kind |-> "release", deal |-> d, hold |-> r])
    BY <1>7 DEF ReleaseHold
  <2>2. IsRequest([kind |-> "release", deal |-> d, hold |-> r])
    BY DEF IsRequest
  <2> QED BY <2>1, <2>2
<1>8. CASE AddNote(t)
  BY <1>1, <1>2, <1>8 DEF AddNote
<1>9. CASE AddExhibit(t)
  BY <1>1, <1>2, <1>9 DEF AddExhibit
<1>10. CASE AddReviewDraft(t)
  BY <1>1, <1>2, <1>3, <1>10 DEF AddReviewDraft
<1>11. CASE AddApprovalRequest(t)
  <2>1. PICK d \in DealIds, n \in RecordIds(t) : AddRecord(t, "request", d, {n})
    BY <1>1, <1>11 DEF AddApprovalRequest
  <2>2. {n} \in SUBSET Nat
    BY <1>3
  <2> QED BY <1>2, <2>1, <2>2
<1>12. CASE AddBuyer(t)
  <2>1. {} \in SUBSET Nat
    OBVIOUS
  <2> QED BY <1>2, <1>12, <2>1 DEF AddBuyer
<1>13. CASE AddAnalysis(t)
  <2>1. PICK d \in DealIds \cup {Absent} : AddRecord(t, "sheet", d, {})
    BY <1>1, <1>13 DEF AddAnalysis
  <2> QED BY <1>2, <2>1
<1>14. CASE RemoveSheet(t)
  <2>1. PICK r : Begin(t, [kind |-> "remove", record |-> r])
    BY <1>14 DEF RemoveSheet
  <2>2. IsRequest([kind |-> "remove", record |-> r])
    BY DEF IsRequest
  <2> QED BY <2>1, <2>2
<1>15. CASE Edit(t)
  <2>1. IsRequest([kind |-> "edit"])
    BY DEF IsRequest
  <2> QED BY <1>15, <2>1 DEF Edit
<1>16. CASE Restore(t)
  <2>1. PICK ws \in Backups : Begin(t, [kind |-> "replace", data |-> ws])
    BY <1>16 DEF Restore
  <2>2. IsRequest([kind |-> "replace", data |-> ws])
    BY DEF IsRequest
  <2> QED BY <2>1, <2>2
<1>17. CASE Clear(t)
  <2>1. IsRequest([kind |-> "clear"])
    BY DEF IsRequest
  <2> QED BY <1>17, <2>1 DEF Clear
<1> QED BY <1>4, <1>5, <1>6, <1>7, <1>8, <1>9, <1>10, <1>11, <1>12, <1>13, <1>14,
           <1>15, <1>16, <1>17

\* Taking the lock.
LEMMA BeginKeepsInv ==
  ASSUME WorkspaceInv, NEW t \in Tabs, NEW req, IsRequest(req), Begin(t, req)
  PROVE  WorkspaceInv'
<1>1. UNCHANGED <<current, legacy, now, view, plan>>
  BY DEF Begin
<1>2. DocumentInv' /\ TabsInv'
  BY <1>1 DEF WorkspaceInv, DocumentInv, TabsInv
<1>3. /\ DOMAIN op' = Tabs
      /\ op'[t] = [req |-> req, read |-> Read(current, legacy, now + 1), at |-> now + 1]
      /\ \A u \in Tabs \ {t} : op'[u] = op[u] /\ op[u] = Idle
      /\ now < MaxTime
  BY DEF Begin, LockIsFree, WorkspaceInv, LockInv
<1>4. op'[t].req = req /\ op'[t].at = now + 1 /\ op'[t].read = Read(current, legacy, now + 1)
  BY <1>3
<1>5. LockInv'
  BY <1>1, <1>3, <1>4 DEF LockInv
<1> QED BY <1>2, <1>5 DEF WorkspaceInv

\* What is written: kept, valid, and, unless the document is replaced, what the
\* updater made of the document as it was.
LEMMA WriteIsKept ==
  ASSUME WorkspaceInv, NEW t \in Tabs, Write(t)
  PROVE  /\ now' = now + 1
         /\ IsKept(current', now') /\ Valid(current')
         /\ op[t].req.kind # "replace" =>
              /\ op[t].read.status # "corrupt"
              /\ \E ws :
                   /\ Progresses(op[t].read.data, ws, now + 1, RemovedBy(op[t].req))
                   /\ op[t].req.kind = "apply" => AddsNewProperties(op[t].read.data, ws)
                   /\ current'.revision = 1 + op[t].read.data.revision
                   /\ current'.deals = ws.deals
                   /\ current'.records = ws.records
<1> DEFINE o == op[t]
           next == now + 1
           data == o.read.data
<1>1. /\ now \in Nat /\ next \in Nat /\ 1 <= next
      /\ LegacyTyped(legacy) /\ CurrentKept(current, now)
      /\ o.at = next /\ o.read = Read(current, legacy, next) /\ IsRequest(o.req)
      /\ now' = next
  BY DEF WorkspaceInv, DocumentInv, LockInv, Write
<1>2. PICK ws \in Proposals(o) :
        current' = [ws EXCEPT !.revision = NextRevision(o), !.at = o.at]
  BY DEF Write
<1>3. IsKept(data, next)
  BY <1>1, ReadIsKept
<1> HIDE DEF o, next, data
<1>4. /\ Valid(ws)
      /\ o.req.kind = "replace" => ws = o.req.data
      /\ o.req.kind # "replace" =>
           o.read.status # "corrupt" /\ ws \in Updated(o.read.data, o.req, o.at)
  BY <1>2 DEF Proposals
<1>5. o.req.kind # "replace" =>
        /\ Progresses(data, ws, next, RemovedBy(o.req))
        /\ o.req.kind = "apply" => AddsNewProperties(data, ws)
  BY <1>1, <1>3, <1>4, UpdatesProgress DEF data
<1>6. IsKept(ws, next) /\ NextRevision(o) \in Nat
  <2>1. CASE o.req.kind = "replace"
    <3>1. ws \in Backups
      BY <1>1, <1>4, <2>1 DEF IsRequest
    <3>2. IsKept(ws, 1)
      BY <3>1, StartsAssumption
    <3>3. ws.revision \in Nat /\ data.revision \in Nat
      BY <1>3, <3>2 DEF IsKept, IsWorkspace
    <3> QED BY <1>1, <1>4, <2>1, <3>2, <3>3, KeptLater DEF NextRevision, data
  <2>2. CASE o.req.kind # "replace"
    <3>1. data.revision \in Nat
      BY <1>3 DEF IsKept, IsWorkspace
    <3> QED BY <1>4, <1>5, <2>2, <3>1 DEF NextRevision, data, Progresses
  <2> QED BY <2>1, <2>2
<1>7. next \in 0 .. next
  BY <1>1
<1> DEFINE revision == NextRevision(o)
<1>8. revision \in Nat /\ current' = [ws EXCEPT !.revision = revision, !.at = next]
  BY <1>1, <1>2, <1>6
<1>9. o.req.kind # "replace" => revision = 1 + data.revision
  BY <1>4 DEF NextRevision, data
<1> HIDE DEF revision
<1>10. ws \in [revision : Nat, at : 0 .. next, box : 0 .. next, deals : {ws.deals},
               records : SUBSET Record]
  BY <1>6 DEF IsKept, IsWorkspace
<1>11. /\ current' \in [revision : Nat, at : 0 .. next, box : 0 .. next,
                        deals : {ws.deals}, records : SUBSET Record]
       /\ current'.revision = revision
       /\ current'.deals = ws.deals /\ current'.records = ws.records
  BY <1>7, <1>8, <1>10
<1>12. IsKept(current', next)
  BY <1>6, <1>11, KeptAlike
<1>13. Valid(current')
  BY <1>4, <1>11 DEF Valid, ArraysFit, Related, RecordsOf
<1> QED BY <1>1, <1>4, <1>5, <1>9, <1>11, <1>12, <1>13 DEF o, next, data

\* The steps that the lock is not needed for.
LEMMA TabKeepsInv ==
  ASSUME WorkspaceInv, NEW t \in Tabs,
         \/ Refresh(t) \/ (\E file \in Files : Preview(t, file))
         \/ Attach(t) \/ Hold(t) \/ Cancel(t)
  PROVE  WorkspaceInv'
<1>1. /\ DOMAIN view = Tabs /\ DOMAIN plan = Tabs
      /\ now \in Nat /\ LegacyTyped(legacy) /\ CurrentKept(current, now)
      /\ \A u \in Tabs : IsKept(view[u].data, now)
      /\ \A u \in Tabs : plan[u] = NoPlan \/ PlanIsSound(plan[u])
  BY DEF WorkspaceInv, DocumentInv, TabsInv
<1>2. DOMAIN view[t].data.deals \subseteq DealIds
  BY <1>1 DEF IsKept, IsWorkspace
<1>3. UNCHANGED <<current, legacy, now, op>> /\ DocumentInv' /\ LockInv'
  <2>1. UNCHANGED <<current, legacy, now, op>>
    BY DEF Refresh, Preview, Attach, Hold, Cancel
  <2> QED BY <2>1 DEF WorkspaceInv, DocumentInv, LockInv
<1>4. CASE Refresh(t)
  <2> DEFINE new == ViewOf(current, legacy, now)
  <2>1. view' = [view EXCEPT ![t] = new] /\ plan' = plan
    BY <1>4 DEF Refresh
  <2>2. IsKept(new.data, now)
    BY <1>1, ViewIsKept
  <2> HIDE DEF new
  <2> QED BY <1>1, <1>3, <2>1, <2>2 DEF TabsInv, WorkspaceInv
<1>5. ASSUME NEW new, new = NoPlan \/ PlanIsSound(new),
             plan' = [plan EXCEPT ![t] = new], view' = view
      PROVE  WorkspaceInv'
  BY <1>1, <1>3, <1>5 DEF TabsInv, WorkspaceInv
<1>6. CASE \E file \in Files : Preview(t, file)
  <2>1. PICK file \in Files : Preview(t, file)
    BY <1>6
  <2>2. file \in Seq(Candidates \cup {Malformed})
    BY WorkspaceAssumption
  <2>3. PlanIsSound(PlanLeadImport(view[t].data, file))
    BY <1>2, <2>2, PlanIsMadeSound
  <2> QED BY <1>5, <2>1, <2>3 DEF Preview
<1>7. CASE Attach(t)
  <2>1. PICK p \in plan[t].possible, d \in DOMAIN view[t].data.deals :
          plan' = [plan EXCEPT ![t] = AttachPossible(plan[t], p, d)]
    BY <1>1, <1>7 DEF Attach
  <2>2. PlanIsSound(plan[t]) /\ d \in DealIds
    BY <1>1, <1>2, <1>7 DEF Attach
  <2>3. PlanIsSound(AttachPossible(plan[t], p, d))
    BY <2>2, DecisionsAreSound
  <2> QED BY <1>5, <1>7, <2>1, <2>3 DEF Attach
<1>8. CASE Hold(t)
  <2>1. PICK p \in plan[t].possible :
          plan' = [plan EXCEPT ![t] = HoldPossible(plan[t], p)]
    BY <1>1, <1>8 DEF Hold
  <2>2. PlanIsSound(HoldPossible(plan[t], p))
    BY <1>1, <1>8, DecisionsAreSound DEF Hold
  <2> QED BY <1>5, <1>8, <2>1, <2>2 DEF Hold
<1>9. CASE Cancel(t)
  BY <1>5, <1>9 DEF Cancel
<1> QED BY <1>4, <1>6, <1>7, <1>8, <1>9

\* The steps that end a callback.
LEMMA EndKeepsInv ==
  ASSUME WorkspaceInv, NEW t \in Tabs,
         Write(t) \/ Refuse(t) \/ RemoveDocument(t)
  PROVE  WorkspaceInv'
<1>1. /\ DOMAIN view = Tabs /\ DOMAIN plan = Tabs /\ DOMAIN op = Tabs
      /\ MaxTime \in Nat /\ now \in 1 .. MaxTime /\ now < MaxTime
      /\ LegacyTyped(legacy) /\ CurrentKept(current, now)
      /\ \A u \in Tabs : IsKept(view[u].data, now)
      /\ \A u \in Tabs : plan[u] = NoPlan \/ PlanIsSound(plan[u])
      /\ op[t] # Idle /\ op[t].at = now + 1
      /\ \A u \in Tabs \ {t} : op[u] = Idle
  BY WorkspaceAssumption
     DEF WorkspaceInv, DocumentInv, TabsInv, LockInv, Write, Refuse, RemoveDocument
<1>2. op' = [op EXCEPT ![t] = Idle]
  BY DEF Write, Refuse, RemoveDocument, Done
<1>3. LockInv'
  BY <1>1, <1>2 DEF LockInv
<1>4. ASSUME NEW u \in Tabs, now' = now + 1 PROVE IsKept(view[u].data, now')
  BY <1>1, <1>4, KeptLater
<1>5. ASSUME now' = now + 1, LegacyTyped(legacy'), CurrentKept(current', now'),
             Show(t) \/ view' = view
      PROVE  /\ DocumentInv' /\ DOMAIN view' = Tabs
             /\ \A u \in Tabs : IsKept(view'[u].data, now')
  <2>1. now' \in 1 .. MaxTime /\ now' \in Nat
    BY <1>1, <1>5
  <2>2. CASE Show(t)
    <3> DEFINE new == ViewOf(current', legacy', now')
    <3>1. IsKept(new.data, now')
      BY <1>5, <2>1, ViewIsKept
    <3>2. view' = [view EXCEPT ![t] = new]
      BY <2>2 DEF Show
    <3> HIDE DEF new
    <3> QED BY <1>1, <1>4, <1>5, <2>1, <3>1, <3>2 DEF DocumentInv
  <2>3. CASE view' = view
    BY <1>1, <1>4, <1>5, <2>1, <2>3 DEF DocumentInv
  <2> QED BY <1>5, <2>2, <2>3
<1>6. CASE Write(t)
  <2>1. now' = now + 1 /\ IsKept(current', now') /\ Valid(current')
    BY <1>6, WriteIsKept
  <2>2. legacy' = legacy /\ Show(t)
    BY <1>6 DEF Write
  <2>3. /\ DocumentInv' /\ DOMAIN view' = Tabs
        /\ \A u \in Tabs : IsKept(view'[u].data, now')
    BY <1>1, <1>5, <2>1, <2>2 DEF CurrentKept
  <2>4. /\ DOMAIN plan' = Tabs
        /\ \A u \in Tabs : plan'[u] = NoPlan \/ plan'[u] = plan[u]
    BY <1>1, <1>6 DEF Write
  <2> QED BY <1>1, <1>3, <2>3, <2>4 DEF WorkspaceInv, TabsInv
<1>7. CASE Refuse(t)
  BY <1>3, <1>7 DEF Refuse, WorkspaceInv, DocumentInv, TabsInv
<1>8. CASE RemoveDocument(t)
  <2>1. /\ now' = now + 1 /\ current' = Absent /\ plan' = plan
        /\ (legacy' = Absent /\ Show(t)) \/ (legacy' = legacy /\ view' = view)
    BY <1>1, <1>8 DEF RemoveDocument
  <2>2. LegacyTyped(legacy') /\ CurrentKept(current', now')
    BY <1>1, <2>1 DEF LegacyTyped, CurrentKept
  <2>3. /\ DocumentInv' /\ DOMAIN view' = Tabs
        /\ \A u \in Tabs : IsKept(view'[u].data, now')
    BY <1>5, <2>1, <2>2
  <2> QED BY <1>1, <1>3, <2>1, <2>3 DEF WorkspaceInv, TabsInv
<1> QED BY <1>6, <1>7, <1>8

\* Every step keeps the invariant.
LEMMA StepKeepsInv == WorkspaceInv /\ [Next]_vars => WorkspaceInv'
<1> SUFFICES ASSUME WorkspaceInv, [Next]_vars PROVE WorkspaceInv'
  OBVIOUS
<1>1. CASE UNCHANGED vars
  BY <1>1 DEF vars, WorkspaceInv, DocumentInv, TabsInv, LockInv
<1>2. ASSUME NEW t \in Tabs,
             \/ Refresh(t) \/ (\E file \in Files : Preview(t, file))
             \/ Attach(t) \/ Hold(t) \/ Cancel(t)
      PROVE  WorkspaceInv'
  BY <1>2, TabKeepsInv
<1>3. ASSUME NEW t \in Tabs,
             \/ ApplyImport(t) \/ ImportStaged(t) \/ SettleConflict(t) \/ ReleaseHold(t)
             \/ AddNote(t) \/ AddExhibit(t) \/ AddReviewDraft(t) \/ AddApprovalRequest(t)
             \/ AddBuyer(t) \/ AddAnalysis(t) \/ RemoveSheet(t)
             \/ Edit(t) \/ Restore(t) \/ Clear(t)
      PROVE  WorkspaceInv'
  <2>1. PICK req : IsRequest(req) /\ Begin(t, req)
    BY <1>3, RequestsAreWellFormed
  <2> QED BY <2>1, BeginKeepsInv
<1>4. ASSUME NEW t \in Tabs, Write(t) \/ Refuse(t) \/ RemoveDocument(t)
      PROVE  WorkspaceInv'
  BY <1>4, EndKeepsInv
<1> QED BY <1>1, <1>2, <1>3, <1>4, Zenon DEF Next

\* Every document a tab can meet is kept, a tab that holds the lock is alone with
\* it and has read the document as it is, and every plan is sound for the document
\* it was made for (mutateStoredWorkspace, planLeadImport, reconstructV2).
THEOREM WorkspaceInvHolds == Spec => []WorkspaceInv
<1>1. Init => WorkspaceInv
  BY InitWorkspaceInv
<1>2. WorkspaceInv /\ [Next]_vars => WorkspaceInv'
  BY StepKeepsInv
<1> QED BY <1>1, <1>2, PTL DEF Spec

-----------------------------------------------------------------------------
(* The properties.                                                         *)

\* The invariant types every document.
LEMMA InvIsTyped == WorkspaceInv => TypeOK
<1> SUFFICES ASSUME WorkspaceInv PROVE TypeOK
  OBVIOUS
<1>1. /\ now \in 1 .. MaxTime /\ LegacyTyped(legacy) /\ CurrentKept(current, now)
      /\ now \in Nat /\ now + 1 \in Nat /\ now <= now + 1
  BY DEF WorkspaceInv, DocumentInv
<1>2. \A t \in Tabs : IsWorkspace(view[t].data, now)
  BY DEF WorkspaceInv, TabsInv, IsKept
<1>3. ASSUME NEW t \in Tabs, op[t] # Idle PROVE IsWorkspace(op[t].read.data, now + 1)
  <2>1. op[t].read = Read(current, legacy, now + 1)
    BY <1>3 DEF WorkspaceInv, LockInv
  <2>2. IsKept(Read(current, legacy, now + 1).data, now + 1)
    BY <1>1, ReadIsKept
  <2> QED BY <2>1, <2>2 DEF IsKept
<1>4. current \in {Absent, Damaged} \/ (IsWorkspace(current, now) /\ Valid(current))
  BY <1>1 DEF CurrentKept, IsKept
<1> QED BY <1>1, <1>2, <1>3, <1>4 DEF TypeOK, LegacyTyped

\* Everything has its type, and what is stored is accepted by the next read.
THEOREM WorkspaceTypeIsCorrect == Spec => []TypeOK
  BY WorkspaceInvHolds, InvIsTyped, PTL

\* No sequence of plans, attachments and stale applications, by any number of tabs,
\* leaves the identity of a source record on two stored deals.
THEOREM IdentityStaysOnOneDeal == Spec => []IdentityOnOneDeal
<1>1. WorkspaceInv => IdentityOnOneDeal
  <2> SUFFICES ASSUME WorkspaceInv, current \notin {Absent, Damaged}, NEW i \in Identities
               PROVE  Cardinality({d \in DOMAIN current.deals :
                               \E a \in current.deals[d].assertions : a.id = i}) <= 1
    BY DEF IdentityOnOneDeal
  <2> DEFINE S == {d \in DOMAIN current.deals :
                     \E a \in current.deals[d].assertions : a.id = i}
  <2>1. IdentityIsOfOneDeal(current.deals)
    BY DEF WorkspaceInv, DocumentInv, CurrentKept, IsKept
  <2>2. \A d, e \in S : d = e
    BY <2>1 DEF IdentityIsOfOneDeal
  <2> HIDE DEF S
  <2>3. CASE S = {}
    <3>1. Cardinality(S) = 0
      BY <2>3, FS_EmptySet, Zenon
    <3> QED BY <3>1 DEF S
  <2>4. CASE S # {}
    <3>1. PICK d \in S : TRUE
      BY <2>4
    <3>2. S = {d}
      BY <2>2, <3>1
    <3>3. Cardinality({d}) = 1
      BY FS_Singleton
    <3>4. Cardinality(S) = 1
      BY <3>2, <3>3, Zenon
    <3> QED BY <3>4 DEF S
  <2> QED BY <2>3, <2>4
<1> QED BY <1>1, WorkspaceInvHolds, PTL

\* Every snapshot that stops contact, or restricts its use, keeps an open hold.
THEOREM StopsStayHeld == Spec => []StopsStay
<1>1. WorkspaceInv => StopsStay
  <2> SUFFICES ASSUME WorkspaceInv, NEW deal \in StoredDeals, NEW a \in deal.assertions,
                      NEW code \in StopCodes(a)
               PROVE  \E r \in deal.restrictions : r.code = code /\ r.active
    BY DEF StopsStay
  <2>1. DealIsKept(deal)
    BY DEF StoredDeals, WorkspaceInv, DocumentInv, CurrentKept, IsKept
  <2> QED BY <2>1 DEF DealIsKept
<1> QED BY <1>1, WorkspaceInvHolds, PTL

\* Every value a snapshot asserts is canonical or a side of a recorded conflict.
THEOREM DifferencesStaySurfaced == Spec => []DifferencesSurfaced
<1>1. WorkspaceInv => DifferencesSurfaced
  <2> SUFFICES ASSUME WorkspaceInv, NEW deal \in StoredDeals, NEW a \in deal.assertions,
                      NEW f \in Differences(deal, a)
               PROVE  \E k \in deal.conflicts :
                        k.field = f /\ a[f] \in {k.canonical, k.asserted}
    BY DEF DifferencesSurfaced
  <2>1. DealIsKept(deal)
    BY DEF StoredDeals, WorkspaceInv, DocumentInv, CurrentKept, IsKept
  <2> QED BY <2>1 DEF DealIsKept, ValueIsOpen
<1> QED BY <1>1, WorkspaceInvHolds, PTL

\* Only the end of a callback changes the document.
LEMMA OnlyTheLockWrites ==
  ASSUME [Next]_vars, current' # current
  PROVE  \E t \in Tabs : Write(t) \/ RemoveDocument(t)
<1>1. ASSUME NEW t \in Tabs, NEW req, Begin(t, req) PROVE current' = current
  BY <1>1 DEF Begin
<1>2. ASSUME NEW t \in Tabs,
             \/ Refresh(t) \/ (\E file \in Files : Preview(t, file))
             \/ Attach(t) \/ Hold(t) \/ Cancel(t) \/ Refuse(t)
      PROVE  current' = current
  BY <1>2 DEF Refresh, Preview, Attach, Hold, Cancel, Refuse
<1>3. ASSUME NEW t \in Tabs,
             \/ ApplyImport(t) \/ ImportStaged(t) \/ SettleConflict(t) \/ ReleaseHold(t)
             \/ AddNote(t) \/ AddExhibit(t) \/ AddReviewDraft(t) \/ AddApprovalRequest(t)
             \/ AddBuyer(t) \/ AddAnalysis(t) \/ RemoveSheet(t)
             \/ Edit(t) \/ Restore(t) \/ Clear(t)
      PROVE  current' = current
  BY <1>1, <1>3, Zenon
     DEF ApplyImport, ImportStaged, SettleConflict, ReleaseHold, AddRecord, AddNote,
         AddExhibit, AddReviewDraft, AddApprovalRequest, AddBuyer, AddAnalysis,
         RemoveSheet, Edit, Restore, Clear
<1>4. CASE UNCHANGED vars
  BY <1>4 DEF vars
<1> QED BY <1>2, <1>3, <1>4, Zenon DEF Next

\* A change by one tab loses nothing that another tab has written: the tab has the
\* lock, so that what it read is what is stored, and its updater progresses.
THEOREM HistoryStays == Spec => HistoryIsKept
<1> DEFINE A == current # current' /\ current \notin {Absent, Damaged} /\ current' # Absent
                  /\ Requests("replace") = {}
                => KeepsHistory(current, current', {req.record : req \in Requests("remove")})
<1>1. WorkspaceInv /\ [Next]_vars => [A]_vars
  <2> SUFFICES ASSUME WorkspaceInv, [Next]_vars, current # current',
                      current \notin {Absent, Damaged}, current' # Absent,
                      Requests("replace") = {}
               PROVE  KeepsHistory(current, current',
                                   {req.record : req \in Requests("remove")})
    OBVIOUS
  <2> DEFINE removed == {req.record : req \in Requests("remove")}
  <2>1. PICK t \in Tabs : Write(t)
    BY OnlyTheLockWrites DEF RemoveDocument
  <2>2. op[t] # Idle /\ op[t].req.kind # "replace"
    BY <2>1 DEF Write, Requests
  <2>3. op[t].read.data = current
    BY <2>2 DEF WorkspaceInv, LockInv, Read
  <2>4. PICK ws :
          /\ Progresses(current, ws, now + 1, RemovedBy(op[t].req))
          /\ current'.revision = 1 + current.revision
          /\ current'.deals = ws.deals /\ current'.records = ws.records
    BY <2>1, <2>2, <2>3, WriteIsKept
  <2>5. RemovedBy(op[t].req) \subseteq removed
    BY <2>2 DEF RemovedBy, Requests
  <2> HIDE DEF removed
  <2>6. current.revision \in Nat
    BY DEF WorkspaceInv, DocumentInv, CurrentKept, IsKept, IsWorkspace
  <2>7. KeepsHistory(current, current', removed)
    BY <2>4, <2>5, <2>6
       DEF KeepsHistory, Progresses, Grows, SameConflicts, SameHolds
  <2> QED BY <2>7 DEF removed
<1> QED BY <1>1, WorkspaceInvHolds, PTL DEF Spec, HistoryIsKept

\* An applied import adds deals only for properties that the document it changes
\* does not have: the plan is for that very document.
THEOREM OnlyNewPropertiesAreAdded == Spec => NewDealsAreNewProperties
<1> DEFINE A == \A t \in Tabs :
                  op[t] # Idle /\ op[t].req.kind = "apply" /\ current' # current =>
                    \A d \in DOMAIN current'.deals \ DOMAIN op[t].read.data.deals :
                      \A e \in DOMAIN op[t].read.data.deals :
                        op[t].read.data.deals[e].address # current'.deals[d].address
<1>1. WorkspaceInv /\ [Next]_vars => [A]_vars
  <2> SUFFICES ASSUME WorkspaceInv, [Next]_vars, NEW t \in Tabs, op[t] # Idle,
                      op[t].req.kind = "apply", current' # current,
                      NEW d \in DOMAIN current'.deals \ DOMAIN op[t].read.data.deals,
                      NEW e \in DOMAIN op[t].read.data.deals
               PROVE  op[t].read.data.deals[e].address # current'.deals[d].address
    OBVIOUS
  <2>1. PICK u \in Tabs : Write(u) \/ RemoveDocument(u)
    BY OnlyTheLockWrites
  <2>2. u = t
    BY <2>1 DEF Write, RemoveDocument, WorkspaceInv, LockInv
  <2>3. Write(t)
    BY <2>1, <2>2 DEF RemoveDocument
  <2>4. PICK ws : AddsNewProperties(op[t].read.data, ws) /\ current'.deals = ws.deals
    BY <2>3, WriteIsKept
  <2> QED BY <2>4 DEF AddsNewProperties
<1> QED BY <1>1, WorkspaceInvHolds, PTL DEF Spec, NewDealsAreNewProperties
=============================================================================
