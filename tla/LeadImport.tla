----------------------------- MODULE LeadImport -----------------------------
(***************************************************************************)
(* The import of authorized leads into the browser workspace, as           *)
(* lib/lead-ingestion.ts computes it: which rows of a CSV file become new  *)
(* deals, new snapshots of known ones or possible duplicates (the plan),   *)
(* what applying a plan does to the workspace, and how the conflicts and   *)
(* restrictions it creates are resolved.  Pure operators; Workspace.tla    *)
(* keeps the state.                                                        *)
(*                                                                         *)
(* A row is a candidate: the identity of its source record (source and     *)
(* record id, normalized), the property it names (state, city and address, *)
(* normalized), the owner contact status, and whether the usage rights     *)
(* restrict it to research.  The other facts behave like these two and are *)
(* left out.  Hashes are free of collisions: the fingerprint of a          *)
(* candidate is the candidate, that of a workspace the workspace.          *)
(***************************************************************************)
EXTENDS Integers, Sequences, FiniteSets, SequencesExt

CONSTANTS
  Identities,    \* source record identities
  Addresses,     \* property keys
  Contacts,      \* owner contact statuses
  Blank,         \* the status that says nothing
  StopStatuses,  \* the statuses contactStatusRestrictionCode reads as "Do not contact"
  Malformed      \* a row that validateRow rejects

ASSUME ContactsAssumption ==
  /\ Blank \in Contacts
  /\ StopStatuses \subseteq Contacts \ {Blank}

Candidates == [id : Identities, address : Addresses, contact : Contacts,
               restricted : BOOLEAN]
Fields     == {"address", "contact"}
DealIds    == (Identities \cup {"legacy"}) \X (Nat \ {0})

\* validateLeadCsv: the rows that become candidates.  The plan is made from
\* them even when other rows are rejected; their places in the file number them.
ValidRows(file) == {n \in DOMAIN file : file[n] # Malformed}

-----------------------------------------------------------------------------
(* A deal keeps every snapshot that was imported for it (assertions), the  *)
(* differences between a snapshot and its canonical facts (conflicts), and *)
(* the restrictions on contact.                                            *)

Differences(deal, c) == {f \in Fields : c[f] # Blank /\ c[f] # deal[f]}

\* Mutant: one open conflict per field.
ConflictOfField(deal, f, c) ==
  \E k \in deal.conflicts : k.field = f /\ (k.by = c \/ k.status = "Unresolved")

DuplicateConflict(deal, f, c) ==
  \E k \in deal.conflicts :
    /\ k.field = f
    /\ \/ k.by = c
       \/ /\ k.status = "Unresolved"
          /\ k.canonical = deal[f]
          /\ k.asserted = c[f]

NewConflicts(deal, c) ==
  {[field |-> f, canonical |-> deal[f], asserted |-> c[f], by |-> c,
    status |-> "Unresolved"] :
     f \in {g \in Differences(deal, c) : ~ DuplicateConflict(deal, g, c)}}

\* addSourceRestriction and addAssertionRestriction: one hold per code and snapshot.
StopCodes(c) ==
  (IF c.restricted THEN {"Source restricted"} ELSE {})
    \cup (IF c.contact \in StopStatuses THEN {"Do not contact"} ELSE {})

NewRestrictions(deal, c) ==
  {[code |-> k, source |-> "Source assertion", by |-> c, active |-> TRUE] :
     k \in {j \in StopCodes(c) :
              ~ \E r \in deal.restrictions : r.code = j /\ r.by = c}}

AppendAssertion(deal, c) ==
  IF c \in deal.assertions THEN deal
  ELSE [deal EXCEPT !.assertions = @ \cup {c},
                    !.conflicts = @ \cup NewConflicts(deal, c),
                    !.restrictions = @ \cup NewRestrictions(deal, c)]

\* The deal a new row becomes: its canonical facts are those of the row.
NewDeal(c) ==
  LET bare == [address |-> c.address, contact |-> c.contact, assertions |-> {c},
               conflicts |-> {}, restrictions |-> {}]
  IN  [bare EXCEPT !.restrictions = NewRestrictions(bare, c)]

\* resolveFactConflict: the selected side; the canonical side writes nothing.
ResolveConflict(deal, k, side) ==
  LET settled == [deal EXCEPT !.conflicts =
                    (@ \ {k}) \cup {[k EXCEPT !.status = side]}]
  IN  IF side = "Asserted" THEN [settled EXCEPT ![k.field] = k.asserted] ELSE settled

\* Mutant: any open hold may be released.
ResolvableAlways(r) == r.active

\* resolveResearchRestriction refuses a hold that a source put on the deal.
Resolvable(r) == r.active /\ r.source \in {"Operator", "Migration"}

ResolveRestriction(deal, r) ==
  [deal EXCEPT !.restrictions = (@ \ {r}) \cup {[r EXCEPT !.active = FALSE]}]

-----------------------------------------------------------------------------
(* The plan.  A target is a deal of the workspace or the new row, of the   *)
(* same file, that will become one.                                        *)

Existing(d)  == <<"existing", d>>
Planned(row) == <<"planned", row>>

\* A plan remembers the workspace it was made for, by revision and by content.
EmptyPlan(ws) ==
  [base |-> ws.revision, print |-> ws, new |-> <<>>, changed |-> <<>>,
   attached |-> <<>>, possible |-> {}, rejected |-> {}, skipped |-> {},
   blocked |-> {}]

\* Everything planLeadImport indexes for a source identity: its targets, each
\* with the snapshots of that identity it holds or will hold.
IdentityTargets(ws, plan, i) ==
  {Existing(d) : d \in {e \in DOMAIN ws.deals :
                          \E a \in ws.deals[e].assertions : a.id = i}}
    \cup {Planned(n.row) : n \in {m \in ToSet(plan.new) : m.cand.id = i}}

KnownSnapshots(ws, plan, t) ==
  (IF t[1] = "existing" THEN ws.deals[t[2]].assertions ELSE {})
    \cup {n.cand : n \in {m \in ToSet(plan.new) : Planned(m.row) = t}}
    \cup {n.cand : n \in {m \in ToSet(plan.changed) : m.target = t}}

PropertyTargets(ws, plan, address) ==
  {Existing(d) : d \in {e \in DOMAIN ws.deals : ws.deals[e].address = address}}
    \cup {Planned(n.row) : n \in {m \in ToSet(plan.new) : m.cand.address = address}}

\* The targets row shares with the undecided rows of its identity.
SharedTargets(plan, i, targets) ==
  {t \in targets : \A p \in plan.possible : p.cand.id = i => t \in p.targets}

\* One row of the file, after the rows before it.
PlanRow(ws, rows, plan, n) ==
  LET c        == rows[n]
      known    == IdentityTargets(ws, plan, c.id)
      matches  == PropertyTargets(ws, plan, c.address)
      pending  == {p \in plan.possible : p.cand.id = c.id}
      targets  == IF matches = {} THEN {Planned(n)} ELSE matches
  IN
  IF n \notin ValidRows(rows) THEN plan
  ELSE IF \E m \in 1 .. n - 1 : rows[m] = c THEN [plan EXCEPT !.skipped = @ \cup {n}]
  ELSE
  CASE Cardinality(known) > 1 \/ (known = {} /\ c.id \in plan.blocked) ->
         [plan EXCEPT !.rejected = @ \cup {n}]
    [] Cardinality(known) = 1 ->
         LET t == CHOOSE x \in known : TRUE
         IN  IF c \in KnownSnapshots(ws, plan, t)
             THEN [plan EXCEPT !.skipped = @ \cup {n}]
             ELSE [plan EXCEPT !.changed = Append(@, [row |-> n, cand |-> c,
                                                          target |-> t])]
    [] known = {} /\ c.id \notin plan.blocked /\ pending # {}
         /\ SharedTargets(plan, c.id, targets) = {} ->
         [plan EXCEPT !.possible = @ \ pending,
                      !.rejected = @ \cup {n} \cup {p.row : p \in pending},
                      !.blocked = @ \cup {c.id}]
    [] OTHER ->
         IF matches # {}
         THEN [plan EXCEPT !.possible =
                 @ \cup {[row |-> n, cand |-> c, targets |-> targets]}]
         ELSE [plan EXCEPT !.new = Append(@, [row |-> n, cand |-> c])]

\* The plan after each row.
PlansOf(ws, rows) ==
  LET plan[n \in 0 .. Len(rows)] ==
        IF n = 0 THEN EmptyPlan(ws) ELSE PlanRow(ws, rows, plan[n - 1], n)
  IN  plan

PlanLeadImport(ws, rows) == PlansOf(ws, rows)[Len(rows)]

-----------------------------------------------------------------------------
(* What the operator decides about a possible duplicate in the preview.    *)

\* assertAttachmentIdentityIsUnambiguous: nothing else in the plan sends the
\* identity of p to another target than deal d.
AttachmentIsUnambiguous(plan, p, d) ==
  /\ \A m \in ToSet(plan.attached) \cup ToSet(plan.changed) :
       m.cand.id = p.cand.id => m.target = Existing(d)
  /\ \A m \in ToSet(plan.new) : m.cand.id # p.cand.id
  /\ \A q \in plan.possible \ {p} : q.cand.id = p.cand.id => Existing(d) \in q.targets

CanAttach(plan, p, d) ==
  /\ p \in plan.possible
  /\ Existing(d) \in p.targets
  /\ AttachmentIsUnambiguous(plan, p, d)

AttachPossible(plan, p, d) ==
  [plan EXCEPT !.possible = @ \ {p},
               !.attached = Append(@, [row |-> p.row, cand |-> p.cand,
                                       target |-> Existing(d)])]

HoldPossible(plan, p) ==
  [plan EXCEPT !.possible = @ \ {p}, !.rejected = @ \cup {p.row}]

SafeRows(plan) == Len(plan.new) + Len(plan.changed) + Len(plan.attached)

-----------------------------------------------------------------------------
(* Applying a plan.                                                        *)

\* Mutant: the revision only.
IsFreshByRevision(ws, plan) == ws.revision = plan.base

\* Revision and content, because clearing the workspace starts the revisions again.
IsFresh(ws, plan) == ws.revision = plan.base /\ ws = plan.print

\* What is added to deals that the workspace has, or will have.
Additions(plan) == plan.changed \o plan.attached

\* planSplitsSourceIdentity: would an identity end up on two targets?
SplitsIdentity(ws, plan) ==
  \E i \in Identities :
    Cardinality(
      {Existing(d) : d \in {e \in DOMAIN ws.deals :
                              \E a \in ws.deals[e].assertions : a.id = i}}
      \cup {Planned(n.row) : n \in {m \in ToSet(plan.new) : m.cand.id = i}}
      \cup {n.target : n \in {m \in ToSet(Additions(plan)) : m.cand.id = i}}) > 1

TargetsExist(ws, plan) ==
  \A n \in ToSet(Additions(plan)) :
    n.target[1] = "existing" => n.target[2] \in DOMAIN ws.deals

\* Mutant: a plan without open duplicates is applied as it was previewed.
CanApplyUnseen(ws, plan) == plan.possible = {} /\ TargetsExist(ws, plan)

CanApply(ws, plan) ==
  /\ IsFresh(ws, plan)
  /\ plan.possible = {}
  /\ ~ SplitsIdentity(ws, plan)
  /\ TargetsExist(ws, plan)

\* uniqueStableId: named after the identity, with a suffix if that is taken.
FreshDealId(deals, i) ==
  <<i, CHOOSE n \in 1 .. Cardinality(DOMAIN deals) + 1 :
         /\ <<i, n>> \notin DOMAIN deals
         /\ \A m \in 1 .. n - 1 : <<i, m>> \in DOMAIN deals>>

TargetDeal(ws, plan, t) ==
  IF t[1] = "existing" THEN t[2]
  ELSE LET n == CHOOSE m \in ToSet(plan.new) : m.row = t[2]
       IN  FreshDealId(ws.deals, n.cand.id)

\* The deals, and those that the new rows become.  No two of them have the same
\* identity, and so the same id, in a plan that may be applied.
WithNewDeals(ws, plan) ==
  LET Id(n) == FreshDealId(ws.deals, n.cand.id)
      new   == ToSet(plan.new)
  IN  [d \in DOMAIN ws.deals \cup {Id(n) : n \in new} |->
         IF d \in DOMAIN ws.deals THEN ws.deals[d]
         ELSE NewDeal((CHOOSE n \in new : Id(n) = d).cand)]

\* The new deals first, then the snapshots for known and for attached deals.
DealsAfter(ws, plan) ==
  LET deals[n \in 0 .. Len(Additions(plan))] ==
        IF n = 0 THEN WithNewDeals(ws, plan)
        ELSE LET a == Additions(plan)[n]
             IN  [deals[n - 1] EXCEPT ![TargetDeal(ws, plan, a.target)] =
                    AppendAssertion(@, a.cand)]
  IN  deals

ApplyPlan(ws, plan) ==
  [ws EXCEPT !.deals = DealsAfter(ws, plan)[Len(Additions(plan))]]

\* importSafeRecords: nobody is asked, a possible duplicate is held back.
HoldAll(plan) ==
  [plan EXCEPT !.possible = {},
               !.rejected = @ \cup {p.row : p \in plan.possible}]

ImportSafeRecords(ws, rows) ==
  LET plan == HoldAll(PlanLeadImport(ws, rows))
  IN  IF CanApply(ws, plan) THEN ApplyPlan(ws, plan) ELSE ws
=============================================================================
