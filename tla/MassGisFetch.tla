---------------------------- MODULE MassGisFetch ----------------------------
(* A retrieval of the MassGIS adapter (lib/ingestion/massgis.ts): pages by *)
(* offset, ordered by OBJECTID, each request repeated while it fails for a *)
(* time.  Pure operators on the local variables of fetchMassGisRecords.    *)
(*                                                                         *)
(* A feature has the object id the source sorts it by, which it shows or   *)
(* not (usableObjectId), an identity, and says whether it has a flaw that  *)
(* rejects the record, and only fields the schema knows.                   *)
EXTENDS Integers, Sequences, FiniteSets, FiniteSetsExt, SequencesExt

MaxRetries == 3  \* MAX_RETRIES

StartFetch(pageSize, max) ==
  [pageSize |-> pageSize, max |-> max, status |-> "fetching", tries |-> 0, offset |-> 0,
   previous |-> -1, processed |-> 0, records |-> <<>>, rejected |-> <<>>]

\* resultRecordCount: a page, or what is left of the limit of the run.
Count(r) == Min({r.pageSize, r.max - r.processed})

\* The answer of the source to the query for resultOffset and resultRecordCount.
Rank(source, f) == Cardinality({g \in source : g.object < f.object})

PageOf(source, r) ==
  [n \in 1 .. Min({Count(r), Cardinality(source) - r.offset}) |->
     CHOOSE f \in source : Rank(source, f) = r.offset + n - 1]

Failed(r) == [r EXCEPT !.status = "failed"]

\* validateFeature and normalizeMassGisRecord throw: the record is rejected.
IsRejected(f) == f.flawed \/ ~f.shown

\* The feature is counted, and the next may not have a smaller object id.
Seen(r, f) ==
  [r EXCEPT !.processed = @ + 1, !.previous = IF f.shown THEN f.object ELSE @]

TakeFeature(r, f) ==
  IF r.status = "failed" THEN r
  ELSE IF f.shown /\ f.object < r.previous THEN Failed(r)
  ELSE IF IsRejected(f) THEN [Seen(r, f) EXCEPT !.rejected = Append(@, f)]
  ELSE IF \E g \in ToSet(r.records) : g.identity = f.identity THEN Failed(r)
  ELSE [Seen(r, f) EXCEPT !.records = Append(@, f)]

\* validateMassGisPageEnvelope: a field nobody knows spoils the page, an owner
\* field or one that is not approved only its record.
EnvelopeIsValid(page) == \A f \in ToSet(page) : f.known

\* Mutant of IsLastPage: a page is short when few of its records were accepted.
IsShortOfRecords(r, taken, page) ==
  \/ Len(taken.records) - Len(r.records) < Count(r)
  \/ taken.processed >= r.max

IsLastPage(r, taken, page) == Len(page) < Count(r) \/ taken.processed >= r.max

\* A page is staged when all of it was taken: one that is refused leaves nothing.
TakeFeatures(r, page) ==
  LET taken[n \in 0 .. Len(page)] == IF n = 0 THEN r ELSE TakeFeature(taken[n - 1], page[n])
  IN  taken[Len(page)]

TakePage(r, page) ==
  LET taken == TakeFeatures(r, page)
  IN  IF ~EnvelopeIsValid(page) \/ taken.status = "failed" THEN Failed(r)
      ELSE [taken EXCEPT !.offset = @ + Len(page), !.tries = 0,
                         !.status = IF IsLastPage(r, taken, page) THEN "done" ELSE @]

\* requestPage: a timeout or a status of 408, 429 or 500 and above is tried again.
RepeatRequest(r) ==
  IF r.tries < MaxRetries THEN [r EXCEPT !.tries = @ + 1] ELSE Failed(r)
=============================================================================
