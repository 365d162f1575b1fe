----------------------------- MODULE Workspace -----------------------------
(***************************************************************************)
(* The browser workspace: one JSON document in local storage, shown and    *)
(* changed by every tab of the browser (lib/local-storage.ts,              *)
(* lib/import-export.ts, components/LocalDataProvider.tsx).  A tab renders *)
(* the snapshot it last parsed, decides on it, and changes the document    *)
(* under a Web Lock: it reads the document again, applies its updater,     *)
(* validates the result and writes it with the next revision.  Time        *)
(* advances with every write.                                              *)
(*                                                                         *)
(* The document holds the deals of LeadImport and the records of the       *)
(* seller workspace, the deal lab and the buyer list; the drafts of forms  *)
(* and the checklists are nothing but a new revision.                      *)
(***************************************************************************)
EXTENDS LeadImport

CONSTANTS
  Tabs,
  Files,           \* the CSV files an operator may choose
  StagedRows,      \* what the server may offer of an ingestion run
  Starts,          \* the documents of Init: under the current and the legacy key
  PhraseStatuses,  \* the stop statuses that migrationRestriction recognizes
  MaxItems,        \* MAX_ARRAY_LENGTH
  MaxRecords,      \* bound: records of the seller workspace
  Backups,         \* the exported documents a tab may restore
  MaxPlans,        \* bound: import previews open at a time
  MaxTime,         \* bound: writes of the document
  Absent, Damaged, \* no document under a key; one that does not parse
  NoPlan, Idle

ASSUME WorkspaceAssumption ==
  /\ PhraseStatuses \subseteq StopStatuses
  /\ Files \cup StagedRows \subseteq Seq(Candidates \cup {Malformed})
  /\ Absent \notin Candidates /\ Malformed \notin Candidates
  /\ MaxItems \in Nat \ {0} /\ MaxRecords \in Nat /\ MaxTime \in Nat \ {0}

VARIABLES
  current,  \* the document under LOCAL_DATA_KEY
  legacy,   \* the version-1 document under LEGACY_LOCAL_DATA_KEY
  now,      \* the clock: the time of the last write
  view,     \* per tab, what it renders and the text it parsed that from
  plan,     \* per tab, the import preview
  op        \* per tab, the change it holds the lock for

vars == <<current, legacy, now, view, plan, op>>

-----------------------------------------------------------------------------
(* Reading.                                                                *)

\* createEmptyData stamps the document and its buy box with the time of the read.
EmptyData(t) == [revision |-> 0, at |-> t, box |-> t, deals |-> <<>>, records |-> {}]

\* migrationRestriction looks for phrases, contactStatusRestrictionCode for more.
MigrationHolds(v1) ==
  IF v1.contact \in PhraseStatuses
  THEN {[code |-> "Do not contact", source |-> "Migration", by |-> Absent, active |-> TRUE]}
  ELSE {}

MigrateV1(v1, t) ==
  [EmptyData(0) EXCEPT
     !.box = t,
     !.deals = [d \in {<<"legacy", 1>>} |->
                 [address |-> v1.address, contact |-> v1.contact, assertions |-> {},
                  conflicts |-> {}, restrictions |-> MigrationHolds(v1)]]]

\* readStoredWorkspace: the current document, else the legacy one, else an empty one.
Read(cur, leg, t) ==
  CASE cur \notin {Absent, Damaged}    -> [status |-> "current", data |-> cur]
    [] cur \in {Absent, Damaged} /\ leg \notin {Absent, Damaged} ->
         [status |-> IF cur = Absent THEN "legacy" ELSE "recovered-legacy",
          data |-> MigrateV1(leg, t)]
    [] cur = Absent /\ leg = Absent    -> [status |-> "empty", data |-> EmptyData(t)]
    [] OTHER                           -> [status |-> "corrupt", data |-> EmptyData(0)]

\* parseSnapshot: what a tab renders; a corrupt store looks like an empty one.
ViewOf(cur, leg, t) ==
  LET read == Read(cur, leg, t)
  IN  [status |-> read.status, data |-> read.data, raw |-> <<cur, leg>>]

-----------------------------------------------------------------------------
(* Validation of what is written (reconstructV2).                          *)

ArraysFit(ws) ==
  /\ Cardinality(DOMAIN ws.deals) <= MaxItems
  /\ \A d \in DOMAIN ws.deals :
       /\ Cardinality(ws.deals[d].assertions) <= MaxItems
       /\ Cardinality(ws.deals[d].conflicts) <= MaxItems
       /\ Cardinality(ws.deals[d].restrictions) <= MaxItems

\* A contact status that stops needs a hold that is not resolved.
StopIsHeld(deal) ==
  deal.contact \in StopStatuses =>
    \E r \in deal.restrictions : r.code = "Do not contact" /\ r.active

RecordsOf(ws, kind) == {r \in ws.records : r.kind = kind}

\* relationshipsAreValid
Related(ws) ==
  /\ \A r \in ws.records :
       r.deal \in DOMAIN ws.deals \/ (r.kind = "sheet" /\ r.deal = Absent)
  /\ \A r \in RecordsOf(ws, "draft") : \A id \in r.refs :
       \E e \in RecordsOf(ws, "exhibit") : e.id = id /\ e.deal = r.deal
  /\ \A r \in RecordsOf(ws, "request") : \A id \in r.refs :
       \E e \in RecordsOf(ws, "draft") : e.id = id
  /\ \A d \in DOMAIN ws.deals :
       /\ \A k \in ws.deals[d].conflicts : k.by \in ws.deals[d].assertions
       /\ \A r \in ws.deals[d].restrictions :
            r.by # Absent => r.by \in ws.deals[d].assertions

Valid(ws) ==
  /\ ArraysFit(ws)
  /\ \A d \in DOMAIN ws.deals : StopIsHeld(ws.deals[d])
  /\ Related(ws)

-----------------------------------------------------------------------------
(* What an updater makes of the document it is given: the set of its       *)
(* results, empty when it throws.                                          *)

\* A conflict and a restriction are found by an id that leaves out their status.
SameConflict(k, l) == [k EXCEPT !.status = l.status] = l
SameHold(r, s)     == [r EXCEPT !.active = s.active] = s

Resolutions(ws, req) ==
  {[ws EXCEPT !.deals[req.deal] = ResolveConflict(@, k, req.side)] :
     k \in {l \in IF req.deal \in DOMAIN ws.deals THEN ws.deals[req.deal].conflicts ELSE {} :
              SameConflict(l, req.conflict) /\ l.status = "Unresolved"}}

Releases(ws, req) ==
  {[ws EXCEPT !.deals[req.deal] = ResolveRestriction(@, r)] :
     r \in {s \in IF req.deal \in DOMAIN ws.deals THEN ws.deals[req.deal].restrictions ELSE {} :
              SameHold(s, req.hold) /\ Resolvable(s)}}

Updated(ws, req, t) ==
  CASE req.kind = "apply"   -> IF CanApply(ws, req.plan) THEN {ApplyPlan(ws, req.plan)} ELSE {}
    [] req.kind = "staged"  -> {ImportSafeRecords(ws, req.rows)}
    [] req.kind = "resolve" -> Resolutions(ws, req)
    [] req.kind = "release" -> Releases(ws, req)
    [] req.kind = "add"     -> {[ws EXCEPT !.records = @ \cup {req.record}]}
    [] req.kind = "remove"  -> {[ws EXCEPT !.records = @ \ {req.record}]}
    [] req.kind = "edit"    -> {[ws EXCEPT !.box = t]}
    [] OTHER                -> {}

\* Mutant: what is written is not validated.
ProposalsUnchecked(o) ==
  IF o.req.kind = "replace" THEN {o.req.data}
  ELSE IF o.read.status = "corrupt" THEN {} ELSE Updated(o.read.data, o.req, o.at)

\* mutateStoredWorkspace and replaceStoredWorkspace: what may be written.
Proposals(o) ==
  {ws \in IF o.req.kind = "replace" THEN {o.req.data}
          ELSE IF o.read.status = "corrupt" THEN {}
          ELSE Updated(o.read.data, o.req, o.at) : Valid(ws)}

\* A replacement of a corrupt store counts on from the revision of the backup.
NextRevision(o) ==
  1 + IF o.read.status = "corrupt" THEN o.req.data.revision ELSE o.read.data.revision

-----------------------------------------------------------------------------
(* A document some earlier session has left.                               *)
StoredWorkspace(revision, deals, records) ==
  [EmptyData(0) EXCEPT !.revision = revision, !.deals = deals, !.records = records]

Init ==
  /\ \E start \in Starts : current = start[1] /\ legacy = start[2]
  /\ now = 1
  /\ view = [t \in Tabs |-> ViewOf(current, legacy, now)]
  /\ plan = [t \in Tabs |-> NoPlan]
  /\ op = [t \in Tabs |-> Idle]

-----------------------------------------------------------------------------
(* A tab renders, previews an import and decides on its duplicates.        *)

\* A storage event of another tab.
Refresh(t) ==
  /\ view[t].raw # <<current, legacy>>
  /\ view' = [view EXCEPT ![t] = ViewOf(current, legacy, now)]
  /\ UNCHANGED <<current, legacy, now, plan, op>>

\* chooseFile: valid rows are planned even if others were rejected.
Preview(t, file) ==
  /\ op[t] = Idle
  /\ ValidRows(file) # {}
  /\ Cardinality({u \in Tabs \ {t} : plan[u] # NoPlan}) < MaxPlans
  /\ plan' = [plan EXCEPT ![t] = PlanLeadImport(view[t].data, file)]
  /\ plan'[t] # plan[t]
  /\ UNCHANGED <<current, legacy, now, view, op>>

Attach(t) ==
  /\ op[t] = Idle /\ plan[t] # NoPlan
  /\ \E p \in plan[t].possible, d \in DOMAIN view[t].data.deals :
       /\ CanAttach(plan[t], p, d)
       /\ plan' = [plan EXCEPT ![t] = AttachPossible(@, p, d)]
  /\ UNCHANGED <<current, legacy, now, view, op>>

Hold(t) ==
  /\ op[t] = Idle /\ plan[t] # NoPlan
  /\ \E p \in plan[t].possible : plan' = [plan EXCEPT ![t] = HoldPossible(@, p)]
  /\ UNCHANGED <<current, legacy, now, view, op>>

Cancel(t) ==
  /\ op[t] = Idle /\ plan[t] # NoPlan
  /\ plan' = [plan EXCEPT ![t] = NoPlan]
  /\ UNCHANGED <<current, legacy, now, view, op>>

-----------------------------------------------------------------------------
(* A change of the document, requested from what the tab renders.          *)

\* leadImportControlState
ApplyIsOffered(t) ==
  /\ plan[t] # NoPlan
  /\ SafeRows(plan[t]) > 0
  /\ plan[t].possible = {}
  /\ plan[t].base = view[t].data.revision
  /\ view[t].status # "corrupt"

\* Mutant: no lock.
LockIsIgnored == TRUE

LockIsFree == \A t \in Tabs : op[t] = Idle

\* The lock is granted: mutateStoredWorkspace reads the document.
Begin(t, req) ==
  /\ op[t] = Idle
  /\ LockIsFree
  /\ now < MaxTime
  /\ op' = [op EXCEPT ![t] = [req |-> req, read |-> Read(current, legacy, now + 1),
                              at |-> now + 1]]
  /\ UNCHANGED <<current, legacy, now, view, plan>>

ApplyImport(t) ==
  ApplyIsOffered(t) /\ Begin(t, [kind |-> "apply", plan |-> plan[t]])

\* The rows a run of the server staged, planned for the document as it is now.
\* (No page calls importSafeRecords yet.)
ImportStaged(t) == \E rows \in StagedRows : Begin(t, [kind |-> "staged", rows |-> rows])

SettleConflict(t) ==
  \E d \in DOMAIN view[t].data.deals, side \in {"Canonical", "Asserted"} :
    \E k \in view[t].data.deals[d].conflicts :
      /\ k.status = "Unresolved"
      /\ Begin(t, [kind |-> "resolve", deal |-> d, conflict |-> k, side |-> side])

ReleaseHold(t) ==
  \E d \in DOMAIN view[t].data.deals :
    \E r \in view[t].data.deals[d].restrictions :
      Begin(t, [kind |-> "release", deal |-> d, hold |-> r])

\* The handlers of SellerPropertyWorkspace: a note (conversation, task) or an
\* exhibit (comparable, repair range, document) of a deal, a draft that includes
\* exhibits, an approval request for a draft.  The ids of both are typed.
AddRecord(t, kind, d, refs) ==
  /\ Cardinality(view[t].data.records) < MaxRecords
  /\ Begin(t, [kind |-> "add",
               record |-> [id |-> now, kind |-> kind, deal |-> d, refs |-> refs]])

RecordIds(t) == {r.id : r \in view[t].data.records}

AddNote(t) == \E d \in DOMAIN view[t].data.deals : AddRecord(t, "note", d, {})

AddExhibit(t) == \E d \in DOMAIN view[t].data.deals : AddRecord(t, "exhibit", d, {})

AddReviewDraft(t) ==
  \E d \in DOMAIN view[t].data.deals, refs \in SUBSET RecordIds(t) :
    AddRecord(t, "draft", d, refs)

AddApprovalRequest(t) ==
  \E d \in DOMAIN view[t].data.deals, id \in RecordIds(t) : AddRecord(t, "request", d, {id})

\* A buyer or an analysis, which may name a deal, is a sheet.  No other record is
\* ever deleted.
AddBuyer(t) == AddRecord(t, "sheet", Absent, {})

AddAnalysis(t) ==
  \E d \in DOMAIN view[t].data.deals \cup {Absent} : AddRecord(t, "sheet", d, {})

RemoveSheet(t) ==
  \E r \in RecordsOf(view[t].data, "sheet") : Begin(t, [kind |-> "remove", record |-> r])

\* A new buy box, or any change of what the model leaves out.
Edit(t) == Begin(t, [kind |-> "edit"])

Restore(t) == \E ws \in Backups : Begin(t, [kind |-> "replace", data |-> ws])

Clear(t) == Begin(t, [kind |-> "clear"])

-----------------------------------------------------------------------------
(* The end of the callback: the document is written or the change refused. *)

Done(t) == op' = [op EXCEPT ![t] = Idle]

Show(t) == view' = [view EXCEPT ![t] = ViewOf(current', legacy', now')]

Write(t) ==
  /\ op[t] # Idle
  /\ op[t].req.kind # "clear"
  /\ \E ws \in Proposals(op[t]) :
       current' = [ws EXCEPT !.revision = NextRevision(op[t]), !.at = op[t].at]
  /\ now' = op[t].at
  /\ legacy' = legacy
  /\ plan' = [plan EXCEPT ![t] = IF op[t].req.kind = "apply" THEN NoPlan ELSE @]
  /\ Show(t)
  /\ Done(t)

\* A rejected change, a full or unavailable storage, a document that is too large.
Refuse(t) ==
  /\ op[t] # Idle
  /\ Done(t)
  /\ UNCHANGED <<current, legacy, now, view, plan>>

\* clearStoredWorkspace removes both keys; the second removal may fail.
RemoveDocument(t) ==
  /\ op[t] # Idle
  /\ op[t].req.kind = "clear"
  /\ current' = Absent
  /\ now' = op[t].at
  /\ \/ legacy' = Absent /\ Show(t)
     \/ UNCHANGED <<legacy, view>>
  /\ Done(t)
  /\ UNCHANGED plan

Next ==
  \E t \in Tabs :
    \/ Refresh(t) \/ (\E file \in Files : Preview(t, file))
    \/ Attach(t) \/ Hold(t) \/ Cancel(t)
    \/ ApplyImport(t) \/ ImportStaged(t) \/ SettleConflict(t) \/ ReleaseHold(t)
    \/ AddNote(t) \/ AddExhibit(t) \/ AddReviewDraft(t) \/ AddApprovalRequest(t)
    \/ AddBuyer(t) \/ AddAnalysis(t) \/ RemoveSheet(t)
    \/ Edit(t) \/ Restore(t) \/ Clear(t)
    \/ Write(t) \/ Refuse(t) \/ RemoveDocument(t)

Spec == Init /\ [][Next]_vars

-----------------------------------------------------------------------------
(* Properties.                                                             *)

ConflictOf(field, values) ==
  [field : {field}, canonical : values, asserted : values, by : Candidates,
   status : {"Unresolved", "Canonical", "Asserted"}]

Restriction == [code : {"Do not contact", "Source restricted"},
                source : {"Source assertion", "Operator", "Migration"},
                by : Candidates \cup {Absent}, active : BOOLEAN]

Deal == [address : Addresses, contact : Contacts, assertions : SUBSET Candidates,
         conflicts : SUBSET (ConflictOf("address", Addresses)
                               \cup ConflictOf("contact", Contacts)),
         restrictions : SUBSET Restriction]

Record == [id : Nat, kind : {"note", "exhibit", "draft", "request", "sheet"},
           deal : DealIds \cup {Absent}, refs : SUBSET Nat]

IsWorkspace(ws, time) ==
  /\ ws \in [revision : Nat, at : 0 .. time, box : 0 .. time, deals : {ws.deals},
             records : SUBSET Record]
  /\ DOMAIN ws.deals \subseteq DealIds /\ IsFiniteSet(DOMAIN ws.deals)
  /\ ws.deals \in [DOMAIN ws.deals -> Deal]

LegacyDocument == [address : Addresses, contact : Contacts]

\* Everything has its type, and a stored document is one that the next read accepts.
TypeOK ==
  /\ now \in 1 .. MaxTime
  /\ legacy \in {Absent, Damaged} \cup LegacyDocument
  /\ current \in {Absent, Damaged} \/ (IsWorkspace(current, now) /\ Valid(current))
  /\ \A t \in Tabs : IsWorkspace(view[t].data, now)
  /\ \A t \in Tabs : op[t] # Idle => IsWorkspace(op[t].read.data, now + 1)

StoredDeals ==
  IF current \in {Absent, Damaged} THEN {}
  ELSE {current.deals[d] : d \in DOMAIN current.deals}

\* A source record is a snapshot series of one property: no sequence of plans,
\* attachments and stale applications leaves its identity on two stored deals
\* (planLeadImport, planSplitsSourceIdentity).
IdentityOnOneDeal ==
  current \notin {Absent, Damaged} =>
    \A i \in Identities :
      Cardinality({d \in DOMAIN current.deals :
                     \E a \in current.deals[d].assertions : a.id = i}) <= 1

\* "Do not contact" outlives every later import and decision: a deal with a
\* snapshot that stops contact, or that is restricted to research, keeps an open
\* hold for it (addSourceRestriction, resolveResearchRestriction).
StopsStay ==
  \A deal \in StoredDeals, a \in Candidates :
    a \in deal.assertions =>
      \A code \in StopCodes(a) :
        \E r \in deal.restrictions : r.code = code /\ r.active

\* No disagreement of the sources is swallowed: a value some snapshot asserts is
\* the canonical one or one side of a conflict the operator sees (addFactConflicts).
DifferencesSurfaced ==
  \A deal \in StoredDeals : \A a \in deal.assertions : \A f \in Differences(deal, a) :
    \E k \in deal.conflicts : k.field = f /\ a[f] \in {k.canonical, k.asserted}

\* What a deal keeps beyond that: the source holds it for each snapshot that stops,
\* a conflict has each value that is not canonical and, once there is one, the
\* canonical value too, and conflicts and holds are by snapshots the deal has.
ValueIsOpen(deal, f, value) ==
  \E k \in deal.conflicts : k.field = f /\ value \in {k.canonical, k.asserted}

DealIsKept(deal) ==
  /\ \A a \in deal.assertions :
       /\ \A code \in StopCodes(a) : \E r \in deal.restrictions :
            r.code = code /\ r.active /\ r.source = "Source assertion"
       /\ \A f \in Differences(deal, a) : ValueIsOpen(deal, f, a[f])
  /\ \A k \in deal.conflicts :
       ValueIsOpen(deal, k.field, deal[k.field]) /\ k.by \in deal.assertions
  /\ \A r \in deal.restrictions : r.by \in deal.assertions \cup {Absent}

IdentityIsOfOneDeal(deals) ==
  \A d, e \in DOMAIN deals :
    \A a \in deals[d].assertions, b \in deals[e].assertions : a.id = b.id => d = e

IsKept(ws, time) ==
  /\ IsWorkspace(ws, time)
  /\ \A d \in DOMAIN ws.deals : DealIsKept(ws.deals[d])
  /\ IdentityIsOfOneDeal(ws.deals)

\* An earlier session has left, and exported, documents this program wrote.
ASSUME StartsAssumption ==
  /\ \A start \in Starts :
       /\ start[1] \in {Absent, Damaged} \/ (IsKept(start[1], 1) /\ Valid(start[1]))
       /\ start[2] \in {Absent, Damaged} \cup LegacyDocument
  /\ \A ws \in Backups : IsKept(ws, 1)

\* A change by one tab loses nothing another has written: snapshots, conflicts and
\* holds of a deal stay, no record goes but the sheet that is deleted, and the
\* revision grows by one, unless the document is replaced or cleared
\* (mutateStoredWorkspace reads under the lock, updaters change what they are given).
KeepsHistory(old, new, removed) ==
  /\ new.revision = old.revision + 1
  /\ old.records \ new.records \subseteq removed
  /\ DOMAIN old.deals \subseteq DOMAIN new.deals
  /\ \A d \in DOMAIN old.deals :
       /\ old.deals[d].assertions \subseteq new.deals[d].assertions
       /\ \A k \in old.deals[d].conflicts : \E l \in new.deals[d].conflicts : SameConflict(k, l)
       /\ \A r \in old.deals[d].restrictions : \E s \in new.deals[d].restrictions : SameHold(r, s)

Requests(kind) == {op[t].req : t \in {u \in Tabs : op[u] # Idle /\ op[u].req.kind = kind}}

HistoryIsKept ==
  [][current # current' /\ current \notin {Absent, Damaged} /\ current' # Absent
       /\ Requests("replace") = {}
     => KeepsHistory(current, current', {req.record : req \in Requests("remove")})]_vars

\* An import creates a deal only for a property the workspace does not have at that
\* moment, whatever happened between preview and apply (the stale check by revision
\* and content: after a clear the revisions start again).
NewDealsAreNewProperties ==
  [][\A t \in Tabs :
       op[t] # Idle /\ op[t].req.kind = "apply" /\ current' # current =>
         \A d \in DOMAIN current'.deals \ DOMAIN op[t].read.data.deals :
           \A e \in DOMAIN op[t].read.data.deals :
             op[t].read.data.deals[e].address # current'.deals[d].address]_vars
=============================================================================
