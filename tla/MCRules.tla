------------------------------ MODULE MCRules ------------------------------
(* Instances of Rules for TLC.                                             *)
EXTENDS Rules, TLC

CONSTANTS MA, RI, bristol, providence, house, duplex, twoFamily, condo, light, heavy,
          assign, novation

Markets == [s \in {MA, RI} |-> IF s = MA THEN bristol ELSE providence]
TypeNames == house :> house @@ duplex :> duplex @@ twoFamily :> duplex

Snap(n) == [restricted |-> FALSE, complete |-> TRUE, confidence |-> 2,
            verified |-> n, retrieved |-> n, id |-> 1, at |-> 1]

SomeSnapshots == {[Snap(1) EXCEPT !.id = 2],
                  [Snap(1) EXCEPT !.id = 3, !.restricted = TRUE],
                  [Snap(1) EXCEPT !.id = 4, !.complete = FALSE],
                  [Snap(1) EXCEPT !.id = 5, !.complete = FALSE, !.confidence = 0,
                                  !.verified = Absent]}

Good == [state |-> MA, market |-> bristol, city |-> None, type |-> house, rehab |-> light,
         price |-> 200, strategies |-> {assign}, attorney |-> FALSE, owner |-> None,
         restrictions |-> <<>>, sources |-> {Snap(2)}, conflicts |-> 0, updated |-> 1,
         id |-> 1]

SomeDeals == {Good, [Good EXCEPT !.rehab = None], [Good EXCEPT !.type = twoFamily],
              [Good EXCEPT !.strategies = {novation}],
              [Good EXCEPT !.sources = {[Snap(2) EXCEPT !.confidence = 0]}]}

\* What it knows has never been verified.
Unverified ==
  [Good EXCEPT !.sources = {[Snap(2) EXCEPT !.verified = Absent, !.complete = FALSE]}]

\* A contact status of an older version: specialist review because of a probate.
Migrated == [Good EXCEPT !.restrictions = <<[code |-> "Specialist review", grave |-> TRUE]>>,
                         !.sources = {}, !.id = 3]

Money == [value |-> 280, price |-> 200, equity |-> 40, spread |-> 30, profit |-> 40,
          margin |-> 20, source |-> TRUE, verified |-> 2, confidence |-> 2]
Sales == [comparables |-> 80, source |-> TRUE, verified |-> 2]
Buyer == [proof |-> TRUE, expires |-> 4, verified |-> 2, states |-> {MA},
          markets |-> {bristol}, types |-> {house, duplex}, min |-> 100, max |-> Absent,
          rehabs |-> {light}, strategies |-> {assign, novation}]
Seller == [voluntary |-> TRUE, score |-> 60, source |-> TRUE, reasoned |-> TRUE,
           negative |-> FALSE, verified |-> 2]

Full == [financial |-> Money, market |-> Sales, buyers |-> {Buyer}, seller |-> Seller]

SomeContexts ==
  {Full, [Full EXCEPT !.financial = [Money EXCEPT !.spread = 5, !.verified = 1]],
   [Full EXCEPT !.market = [Sales EXCEPT !.comparables = 60]],
   [Full EXCEPT !.market = None], [Full EXCEPT !.market.verified = 4],
   [Full EXCEPT !.financial = [Money EXCEPT !.profit = 30]],
   [Full EXCEPT !.seller = [Seller EXCEPT !.negative = TRUE]],
   [Full EXCEPT !.buyers = {Buyer, [Buyer EXCEPT !.types = {}, !.expires = 3]}],
   [Full EXCEPT !.buyers = {[Buyer EXCEPT !.min = 250]}, !.seller = None]}

SomeEvidence == [financial |-> Money, market |-> Sales, seller |-> Seller]

Box == [configured |-> TRUE, version |-> 1, updated |-> 0, states |-> {MA},
        types |-> {house, duplex}, markets |-> [s \in {MA, RI} |-> IF s = MA THEN {bristol} ELSE {}], min |-> Absent,
        max |-> 300, rehabs |-> {light}, minConfidence |-> 1, maxAge |-> 2,
        thresholds |-> [maximumValue |-> 400, minimumEquity |-> 20,
                        preferredEquity |-> 30, minimumSpread |-> 10,
                        preferredSpread |-> 20, minimumProfit |-> 10,
                        preferredProfit |-> 40, minimumMargin |-> 10],
        weights |-> [c \in Components |-> 1]]

\* Among what the form may hold: no demand for comparables, an alias of a type, a
\* market for each state, a state without its market, thresholds in a wrong order.
SomeBoxes ==
  {Box, [Box EXCEPT !.weights["marketability"] = 0], [Box EXCEPT !.types = {twoFamily}],
   [Box EXCEPT !.states = {RI}], [Box EXCEPT !.thresholds["preferredSpread"] = 5]}

Default == [Box EXCEPT !.configured = FALSE]

QueueInputs ==
  {[deals |-> <<d, [Good EXCEPT !.id = 2]>>, contexts |-> <<c, Full>>, box |-> b] :
     d \in SomeDeals, c \in SomeContexts, b \in {Box}}
  \cup {[deals |-> <<d, [Good EXCEPT !.id = 2]>>, contexts |-> <<Full, Full>>, box |-> b] :
     d \in {Good}, b \in {Default, [Box EXCEPT !.weights["marketability"] = 0]}}
  \cup {[deals |-> <<Unverified, [Good EXCEPT !.id = 2], Migrated>>,
         contexts |-> <<Full, Full, Full>>, box |-> Box]}

-----------------------------------------------------------------------------

Authority(role) == [org |-> 1, role |-> role, scope |-> "GLOBAL", revoked |-> FALSE,
                    from |-> 0, until |-> Never]

Reviewers == [asker |-> Authority("broker"), ann |-> Authority("broker"),
              bob |-> [Authority("broker") EXCEPT !.scope = "MA", !.until = 5]]

Approval(actor) == [decision |-> "APPROVE", actor |-> actor, expires |-> 5]

Envelope == [org |-> 1, action |-> 1, type |-> 1, hash |-> 0, deadline |-> 6,
             requester |-> "asker", evidence |-> {[id |-> "e1", type |-> "deed", content |-> 0]}]

Policy(minimum) ==
  [org |-> 1, action |-> 1, type |-> 1, hash |-> 0, result |-> "REVIEW_REQUIRED",
   expires |-> Never,
   required |-> {[role |-> "broker", scope |-> "MA", minimum |-> minimum, separate |-> TRUE]}]

\* A list of policy snapshots, a list of references, which do not say whether they
\* are current, and records by id or type, with and without contents.
Entry(content) == [current |-> TRUE, content |-> content, expires |-> 5]
Open == [current |-> TRUE, expires |-> Never]

Listed(x) == [form |-> "list", items |-> <<x>>]
Entered(entries) == [form |-> "record", items |-> entries]

Policed == Listed([id |-> "e1", type |-> "deed", content |-> 0, current |-> TRUE,
                   expires |-> Never])
Referred == Listed([id |-> "e2", type |-> "deed", content |-> 0, expires |-> Never])

GateInput(state, decisions, minimum, evidence) ==
  [state |-> state, org |-> 1, action |-> 1, type |-> 1, envelope |-> Envelope,
   policy |-> Policy(minimum),
   requests |-> {[org |-> 1, action |-> 1, type |-> 1, hash |-> 0, expires |-> 5,
                  decisions |-> decisions]},
   authorities |-> Reviewers,
   evidence |-> evidence,
   adapter |-> "mail", adapters |-> {"mail"}, globalKill |-> FALSE, channelKill |-> FALSE,
   outcomeUnknown |-> FALSE]

GateInputs == {GateInput("APPROVED", {Approval("ann")}, 2, Policed),
               GateInput("READY", {}, 1, Policed), GateInput("DRAFT", {}, 1, Policed)}
  \cup {GateInput("READY", {Approval("ann")}, 1, evidence) : evidence \in
          {Referred, Entered("deed" :> Open), Entered("e1" :> Entry(0) @@ "deed" :> Open)}}

-----------------------------------------------------------------------------

Window(start) == [start |-> start, verified |-> FALSE, holidays |-> {}, attorney |-> TRUE]

WindowInputs ==
  {[deal |-> [state |-> s, path |-> TRUE, agreement |-> TRUE, interest |-> TRUE,
              disclosure |-> TRUE, attorneyReview |-> a],
    seller |-> Window(c), assignee |-> Window(d)] :
     s \in {"MA", "RI"}, a \in BOOLEAN, c \in {NoDay, 2}, d \in {1, 3}}

SomeHolidays == {{}, {5}}

ClockInputs ==
  {[policy |-> [id |-> 1, version |-> 1, enabled |-> e, hour |-> h, minute |-> m],
    kind |-> k, fired |-> 0, runs |-> {}] :
     e \in {TRUE}, h \in 0 .. 23, m \in {0, 1, 30, 59}, k \in {"plain", "spring", "autumn"}}
  \cup {[policy |-> [id |-> 1, version |-> 1, enabled |-> FALSE, hour |-> 6, minute |-> 0],
         kind |-> "plain", fired |-> 0, runs |-> {}]}

-----------------------------------------------------------------------------

Feature(n) == [object |-> n, shown |-> TRUE, identity |-> n, flawed |-> FALSE, known |-> TRUE]

\* Sound ones; one with a flaw, one without a usable object id, one with a field
\* that nobody knows; one that is numbered anew.
SomeParcels ==
  {Feature(n) : n \in {1, 4, 6}}
    \cup {[Feature(2) EXCEPT !.flawed = TRUE], [Feature(5) EXCEPT !.shown = FALSE],
          [Feature(7) EXCEPT !.known = FALSE], [Feature(8) EXCEPT !.identity = 3]}

Sources ==
  {{Feature(3), Feature(4), Feature(6)}, {Feature(n) : n \in 3 .. 7},
   {Feature(3), Feature(4), [Feature(2) EXCEPT !.flawed = TRUE], [Feature(5) EXCEPT !.shown = FALSE]}}

RetrievalInputs ==
  {[fetch |-> StartFetch(2, max), source |-> s, stayed |-> s, departures |-> 0] :
     s \in Sources, max \in {3, 6}}

SomeInputs == [queue |-> QueueInputs, gate |-> GateInputs, window |-> WindowInputs,
               clock |-> ClockInputs, retrieval |-> RetrievalInputs]

SomeLastDays == [queue |-> 5, gate |-> 5, window |-> 12, retrieval |-> 3]
SomeBounds == [queue |-> 2, gate |-> 4, window |-> 3, clock |-> 25, retrieval |-> 7]
=============================================================================
