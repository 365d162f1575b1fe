--------------------------- MODULE IngestionTables ---------------------------
(***************************************************************************)
(* The tables of Ingestion agree: the log explains the other tables, the   *)
(* counters of a run are those of its rows and of its pages, and a run     *)
(* that has ended stays as it is.  Proved for any number of workers, keys, *)
(* pages and faults.  What a commit writes was prepared in many steps, so  *)
(* the invariants begin with the page that a worker has in hand.           *)
(***************************************************************************)
EXTENDS IngestionProofs, WellFoundedInduction

-----------------------------------------------------------------------------
(* The page in hand.                                                       *)

OfClass(rows, class) == {r \in rows : r.class = class}

Total(counts) ==
  counts.safe + counts.changed + counts.duplicate + counts.exception

CountsRows(counts, rows) ==
  /\ counts.safe = Cardinality(OfClass(rows, "safe"))
  /\ counts.changed = Cardinality(OfClass(rows, "changed"))
  /\ counts.exception = Cardinality(OfClass(rows, "exception"))

\* The rows that persistPage has built, and the candidates that are left,
\* are those of one page, each identity at most once; what the counters say
\* of the rows is true, and together with the candidates they make the page.
PageInHand(j) ==
  /\ j.page = j.persisted + 1
  /\ j.page \in DOMAIN Pages
  /\ IsFiniteSet(j.todo)
  /\ \A r \in j.rows : /\ r.run = j.run
                       /\ r.at = j.at
                       /\ r.identity \in Pages[j.page]
  /\ \A c \in j.todo : c[1] \in Pages[j.page]
  /\ \A r \in j.rows, c \in j.todo : r.identity # c[1]
  /\ \A c, d \in j.todo : c[1] = d[1] => c = d
  /\ \A r, s \in j.rows : r.identity = s.identity => r = s
  /\ CountsRows(j.counts, j.rows)
  /\ Total(j.counts) + Cardinality(j.todo) = Cardinality(Pages[j.page])

\* A worker with local variables p, j and a stages pages.
Retrieving(p, a) == p \in {"fetch", "classify"} \/ a.change.type = "page-staged"

\* A worker about to append that its run is staged.
EndsWell(a) == a.change.type = "run-finished" /\ a.change.status = "staged"

\* How the pages of a run and the place its worker is at fit together; and no
\* rejected record is acknowledged as imported.
PageFrame(p, j, a) ==
  /\ p \in {"check", "lookup", "overlap"} \/ a.change.type = "run-started"
       => j.page = 0 /\ j.persisted = 0
  /\ p = "fetch" => j.page = j.persisted
  /\ p = "classify" \/ a.change.type = "page-staged" => PageInHand(j)
  /\ a.change.type = "page-staged" => /\ a.change.rows = j.rows
                                      /\ a.change.counts = j.counts
                                      /\ j.todo = {}
  /\ a.change.type = "records-imported" =>
       \A r \in a.change.rows : r.class # "exception"

PageFrames == \A w \in Workers : PageFrame(pc[w], job[w], append[w])

\* A step of w that commits nothing goes on with the pages of its run, and a
\* run is called staged when all its pages are.  A row that is added has the
\* class that persistPage finds at this moment.
GoesOn(w, p, j, a) ==
  /\ Retrieving(p, a) => /\ Retrieving(pc[w], append[w])
                         /\ j.run = job[w].run
                         /\ j.at = job[w].at
                         /\ j.persisted = job[w].persisted
  /\ EndsWell(a) => /\ j.run = job[w].run
                    /\ \/ EndsWell(append[w])
                       \/ pc[w] = "fetch" /\ job[w].persisted = Len(Pages)
  /\ p = "classify" \/ a.change.type = "page-staged" =>
       \A r \in j.rows : \/ /\ r \in job[w].rows
                            /\ pc[w] = "classify" \/ append[w].change.type = "page-staged"
                         \/ r.class = "exception"
                         \/ r.class = Classify(r.identity, r.fp)

-----------------------------------------------------------------------------
(* The fields of a job.                                                    *)

\* Classifying assigns three fields and leaves the others.
LEMMA ClassifiedFields ==
  ASSUME NEW j \in JobType, NEW t \in SUBSET (Identities \X Fps),
         NEW r \in SUBSET Row, NEW c \in Counts
  PROVE  LET n == Classified(j, t, r, c)
         IN  /\ n \in JobType
             /\ n.todo = t /\ n.rows = r /\ n.counts = c
             /\ n.run = j.run /\ n.at = j.at
             /\ n.page = j.page /\ n.persisted = j.persisted
<1> DEFINE j1 == [j EXCEPT !.todo = t]
           j2 == [j1 EXCEPT !.rows = r]
           j3 == [j2 EXCEPT !.counts = c]
           Same(n) == /\ n \in JobType /\ n.run = j.run /\ n.at = j.at
                      /\ n.page = j.page /\ n.persisted = j.persisted
<1>1. Same(j1) /\ j1.todo = t
  BY DEF JobType
<1> HIDE DEF j1
<1>2. Same(j2) /\ j2.todo = t /\ j2.rows = r
  BY <1>1 DEF JobType
<1> HIDE DEF j2
<1>3. Same(j3) /\ j3.todo = t /\ j3.rows = r /\ j3.counts = c
  BY <1>2 DEF JobType
<1> QED BY <1>3 DEF j1, j2, Classified

\* Fetching assigns the page as well.
LEMMA AtPageFields ==
  ASSUME NEW j \in JobType, NEW p \in Nat, NEW t \in SUBSET (Identities \X Fps),
         NEW r \in SUBSET Row, NEW c \in Counts
  PROVE  LET n == AtPage(j, p, t, r, c)
         IN  /\ n \in JobType
             /\ n.todo = t /\ n.rows = r /\ n.counts = c
             /\ n.run = j.run /\ n.at = j.at
             /\ n.page = p /\ n.persisted = j.persisted
<1> DEFINE j1 == [j EXCEPT !.page = p]
<1>1. /\ j1 \in JobType /\ j1.run = j.run /\ j1.at = j.at
      /\ j1.page = p /\ j1.persisted = j.persisted
  BY DEF JobType
<1>2. AtPage(j, p, t, r, c) = Classified(j1, t, r, c)
  BY DEF AtPage, Classified
<1> HIDE DEF j1
<1> QED BY <1>1, <1>2, ClassifiedFields

\* Staging a page counts it, and empties the hand.
LEMMA StagedFields ==
  ASSUME NEW j \in JobType
  PROVE  LET n == Staged(j)
         IN  /\ n.run = j.run /\ n.at = j.at
             /\ n.page = j.page /\ n.persisted = j.persisted + 1
<1> DEFINE j1 == [j EXCEPT !.persisted = j.persisted + 1]
           j2 == [j1 EXCEPT !.rows = {}]
           j3 == [j2 EXCEPT !.counts = ZeroCounts]
           Same(n) == /\ n \in JobType /\ n.run = j.run /\ n.at = j.at
                      /\ n.page = j.page /\ n.persisted = j.persisted + 1
<1>1. Same(j1)
  BY DEF JobType
<1> HIDE DEF j1
<1>2. Same(j2)
  BY <1>1 DEF JobType
<1> HIDE DEF j2
<1>3. Same(j3)
  BY <1>2, EmptyFrame DEF JobType
<1> QED BY <1>3 DEF j1, j2, Staged

-----------------------------------------------------------------------------
(* Fetching and classifying keep the page in order.                        *)

\* What a fetched page gives: candidates, and rows for the rejected records.
Candidates(valid, shown) == {<<i, shown[i]>> : i \in valid}
RejectedRow(run, at, i) ==
  [run |-> run, identity |-> i, fp |-> Bad, at |-> at, class |-> "exception"]
Rejections(run, at, S) == {RejectedRow(run, at, i) : i \in S}

\* A fetched page: its candidates and its rejected rows are together as many
\* as its identities.
LEMMA FetchedCounts ==
  ASSUME NEW page, IsFiniteSet(page), NEW valid \in SUBSET page,
         NEW shown, NEW run, NEW at
  PROVE  LET rejected == page \ valid
             todo == Candidates(valid, shown)
             rows == Rejections(run, at, rejected)
         IN  /\ IsFiniteSet(todo) /\ IsFiniteSet(rows) /\ IsFiniteSet(rejected)
             /\ Cardinality(rows) = Cardinality(rejected)
             /\ Cardinality(rows) \in Nat /\ Cardinality(todo) \in Nat
             /\ Cardinality(rows) + Cardinality(todo) = Cardinality(page)
<1> DEFINE rejected == page \ valid
           todo == Candidates(valid, shown)
           rows == Rejections(run, at, rejected)
           f == [i \in valid |-> <<i, shown[i]>>]
           g == [i \in rejected |-> RejectedRow(run, at, i)]
<1>1. IsFiniteSet(valid) /\ IsFiniteSet(rejected)
  BY FS_Subset
<1>2. f \in Bijection(valid, todo)
  BY DEF Bijection, Injection, Surjection, IsInjective, Candidates
<1>3. g \in Bijection(rejected, rows)
  BY DEF Bijection, Injection, Surjection, IsInjective, Rejections, RejectedRow
<1>4. rejected \cup valid = page /\ rejected \cap valid = {}
  OBVIOUS
<1>5. Cardinality(page) = Cardinality(rejected) + Cardinality(valid) - Cardinality({})
  BY <1>1, <1>4, FS_Union
<1>6. /\ Cardinality({}) = 0
      /\ Cardinality(rejected) \in Nat /\ Cardinality(valid) \in Nat
  BY <1>1, FS_EmptySet, FS_CardinalityType
<1> HIDE DEF rejected, todo, rows, f, g
<1>7. IsFiniteSet(todo) /\ Cardinality(todo) = Cardinality(valid)
  BY <1>1, <1>2, FS_Bijection DEF ExistsBijection
<1>8. IsFiniteSet(rows) /\ Cardinality(rows) = Cardinality(rejected)
  BY <1>1, <1>3, FS_Bijection DEF ExistsBijection
<1> QED BY <1>1, <1>5, <1>6, <1>7, <1>8 DEF rejected, todo, rows

\* Preparing a page: the job afterwards holds the page in order, and what the
\* worker calls next is appendAuditEvent if no candidate is left.
TurnsPage(w) ==
  \E j \in JobType :
    /\ job' = [job EXCEPT ![w] = j]
    /\ PageInHand(j)
    /\ j.run = job[w].run /\ j.at = job[w].at /\ j.persisted = job[w].persisted
    /\ \A r \in j.rows : \/ r \in job[w].rows /\ pc[w] = "classify"
                         \/ r.class = "exception"
                         \/ r.class = Classify(r.identity, r.fp)
    /\ \/ /\ j.todo = {}
          /\ CallAppend(w, [type |-> "page-staged", run |-> j.run,
                            rows |-> j.rows, counts |-> j.counts])
       \/ Go(w, "classify") /\ UNCHANGED append

\* Fetching takes the next page in hand.
LEMMA FetchTurnsPage ==
  ASSUME TypeInv, PageFrames, NEW w \in Workers, FetchPage(w)
  PROVE  TurnsPage(w)
<1> DEFINE page == Pages[job[w].page + 1]
           Valid(shown) == {i \in page : shown[i] # Bad}
           next(shown) ==
             [job[w] EXCEPT
                !.page = @ + 1,
                !.todo = {<<i, shown[i]>> : i \in Valid(shown)},
                !.rows = {[run |-> job[w].run, identity |-> i, fp |-> Bad,
                           at |-> job[w].at, class |-> "exception"]
                          : i \in page \ Valid(shown)},
                !.counts = [ZeroCounts EXCEPT
                              !.exception = Cardinality(page \ Valid(shown))]]
<1>1. /\ job[w] \in JobType /\ job[w].run \in Keys /\ pc[w] = "fetch"
      /\ job[w].page = job[w].persisted /\ job[w].page \in Nat
      /\ job[w].page + 1 \in DOMAIN Pages
  <2>1. /\ job[w] \in JobType /\ job[w].run \in Keys /\ pc[w] = "fetch"
        /\ job[w].page < Len(Pages) /\ job[w].page = job[w].persisted
    BY DEF FetchPage, TypeInv, Frames, Frame, PageFrames, PageFrame
  <2>2. job[w].page \in Nat /\ DOMAIN Pages = 1..Len(Pages) /\ Len(Pages) \in Nat
    BY <2>1, ConstantsAssumption, LenProperties DEF JobType
  <2> QED BY <2>1, <2>2
<1>2. PICK shown \in [page -> Fps \cup {Bad}] :
        /\ job' = [job EXCEPT ![w] = next(shown)]
        /\ IF next(shown).todo = {}
           THEN CallAppend(w, [type |-> "page-staged", run |-> next(shown).run,
                               rows |-> next(shown).rows,
                               counts |-> next(shown).counts])
           ELSE Go(w, "classify") /\ UNCHANGED append
  BY DEF FetchPage
<1>3. page \in SUBSET Identities /\ IsFiniteSet(page)
  BY <1>1, PageIsFinite
<1> DEFINE j == next(shown)
           rejected == page \ Valid(shown)
           rows == Rejections(job[w].run, job[w].at, rejected)
           counts == [ZeroCounts EXCEPT !.exception = Cardinality(rejected)]
           todo == Candidates(Valid(shown), shown)
<1>4. /\ IsFiniteSet(todo) /\ IsFiniteSet(rows) /\ IsFiniteSet(rejected)
      /\ Cardinality(rows) = Cardinality(rejected)
      /\ Cardinality(rows) \in Nat /\ Cardinality(todo) \in Nat
      /\ Cardinality(rows) + Cardinality(todo) = Cardinality(page)
  <2>1. Valid(shown) \in SUBSET page
    OBVIOUS
  <2> HIDE DEF Valid, page, next, j, counts
  <2> QED BY <1>3, <2>1, FetchedCounts
<1>5. rows \subseteq Row
  BY <1>1, <1>3, <1>4 DEF Rejections, RejectedRow, Row, JobType
<1>6. /\ counts \in Counts
      /\ counts.safe = 0 /\ counts.changed = 0 /\ counts.duplicate = 0
      /\ counts.exception = Cardinality(rows)
  <2>1. \A n \in Nat : LET c == [ZeroCounts EXCEPT !.exception = n]
                       IN  /\ c \in Counts /\ c.safe = 0 /\ c.changed = 0
                           /\ c.duplicate = 0 /\ c.exception = n
    BY DEF Counts, ZeroCounts
  <2> QED BY <1>4, <2>1
<1>7. todo \in SUBSET (Identities \X Fps)
  BY <1>3 DEF Candidates
<1>8. /\ \A r \in rows : /\ r.run = job[w].run /\ r.at = job[w].at
                         /\ r.class = "exception" /\ r.identity \in rejected
      /\ \A r, s \in rows : r.identity = s.identity => r = s
      /\ \A c \in todo : c[1] \in page /\ c[1] \notin rejected
      /\ \A c, d \in todo : c[1] = d[1] => c = d
  BY DEF Candidates, Rejections, RejectedRow
<1>9. /\ j \in JobType
      /\ j.todo = todo /\ j.rows = rows /\ j.counts = counts
      /\ j.run = job[w].run /\ j.at = job[w].at
      /\ j.page = job[w].page + 1 /\ j.persisted = job[w].persisted
  <2>1. job[w].page + 1 \in Nat
    BY <1>1
  <2>2. j = AtPage(job[w], job[w].page + 1, todo, rows, counts)
    BY DEF AtPage, Candidates, Rejections, RejectedRow
  <2> HIDE DEF rows, counts, todo, j
  <2> QED BY <2>1, <2>2, <1>1, <1>5, <1>6, <1>7, AtPageFields
<1> HIDE DEF j, rows, counts, todo, rejected
<1>10. CountsRows(counts, rows)
  <2>1. OfClass(rows, "safe") = {} /\ OfClass(rows, "changed") = {}
    BY <1>8 DEF OfClass
  <2>2. OfClass(rows, "exception") = rows
    BY <1>8 DEF OfClass
  <2> QED BY <1>6, <2>1, <2>2, FS_EmptySet DEF CountsRows
<1>11. Total(counts) + Cardinality(todo) = Cardinality(page)
  BY <1>4, <1>6 DEF Total
<1>12. PageInHand(j)
  BY <1>1, <1>4, <1>8, <1>9, <1>10, <1>11 DEF PageInHand, rejected
<1>13. /\ job' = [job EXCEPT ![w] = j]
       /\ IF j.todo = {}
          THEN CallAppend(w, [type |-> "page-staged", run |-> j.run,
                              rows |-> j.rows, counts |-> j.counts])
          ELSE Go(w, "classify") /\ UNCHANGED append
  BY <1>2 DEF j
<1> QED BY <1>8, <1>9, <1>12, <1>13 DEF TurnsPage

\* One row more in a page: it is counted under its class, and nowhere else.
LEMMA RowAdded ==
  ASSUME NEW rows, IsFiniteSet(rows), NEW r, r \notin rows
  PROVE  /\ Cardinality(OfClass(rows \cup {r}, r.class))
              = Cardinality(OfClass(rows, r.class)) + 1
         /\ \A class : class # r.class =>
              OfClass(rows \cup {r}, class) = OfClass(rows, class)
<1>1. IsFiniteSet(OfClass(rows, r.class)) /\ r \notin OfClass(rows, r.class)
  <2>1. OfClass(rows, r.class) \in SUBSET rows
    BY DEF OfClass
  <2> QED BY <2>1, FS_Subset
<1>2. OfClass(rows \cup {r}, r.class) = OfClass(rows, r.class) \cup {r}
  BY DEF OfClass
<1>3. Cardinality(OfClass(rows, r.class) \cup {r})
        = Cardinality(OfClass(rows, r.class)) + 1
  BY <1>1, FS_AddElement
<1>4. \A class : class # r.class =>
        OfClass(rows \cup {r}, class) = OfClass(rows, class)
  BY DEF OfClass
<1> QED BY <1>2, <1>3, <1>4

\* Counting one under a class adds one to the total.
LEMMA CountAdded ==
  ASSUME NEW c \in Counts, NEW class \in {"safe", "changed", "duplicate"}
  PROVE  LET d == [c EXCEPT ![class] = @ + 1]
         IN  /\ d \in Counts
             /\ d[class] = c[class] + 1
             /\ \A other \in DOMAIN c : other # class => d[other] = c[other]
             /\ DOMAIN c = {"safe", "changed", "duplicate", "exception"}
             /\ Total(d) = Total(c) + 1
<1> DEFINE d == [c EXCEPT ![class] = @ + 1]
<1>1. /\ DOMAIN c = {"safe", "changed", "duplicate", "exception"}
      /\ c.safe \in Nat /\ c.changed \in Nat /\ c.duplicate \in Nat
      /\ c.exception \in Nat
  BY DEF Counts
<1>2. d \in Counts
  BY DEF Counts
<1>3. d[class] = c[class] + 1 /\ \A o \in DOMAIN c : o # class => d[o] = c[o]
  BY <1>1
<1>4. CASE class = "safe"
  BY <1>1, <1>2, <1>3, <1>4 DEF Total
<1>5. CASE class = "changed"
  BY <1>1, <1>2, <1>3, <1>5 DEF Total
<1>6. CASE class = "duplicate"
  BY <1>1, <1>2, <1>3, <1>6 DEF Total
<1> QED BY <1>1, <1>2, <1>3, <1>4, <1>5, <1>6

\* Classifying takes a candidate off and adds its row, if it is to have one.
LEMMA ClassifyTurnsPage ==
  ASSUME TypeInv, PageFrames, NEW w \in Workers, ClassifyNext(w)
  PROVE  TurnsPage(w)
<1>1. /\ job[w] \in JobType /\ job[w].run \in Keys /\ pc[w] = "classify"
      /\ IsFiniteSet(job[w].rows) /\ PageInHand(job[w])
      /\ pc = [pc EXCEPT ![w] = "classify"]
  BY Unchanged DEF TypeInv, Frames, Frame, ClassifyNext, PageFrames, PageFrame
<1> DEFINE row(c, class) == [run |-> job[w].run, identity |-> c[1], fp |-> c[2],
                             at |-> job[w].at, class |-> class]
           todo(c) == job[w].todo \ {c}
           rows(c, class) == IF class = "duplicate" THEN job[w].rows
                             ELSE job[w].rows \cup {row(c, class)}
           counts(class) == [job[w].counts EXCEPT ![class] = @ + 1]
           next(c, class) == Classified(job[w], todo(c), rows(c, class),
                                        counts(class))
<1>2. PICK c \in job[w].todo :
        LET class == Classify(c[1], c[2])
            n == next(c, class)
        IN  /\ job' = [job EXCEPT ![w] = n]
            /\ IF n.todo = {}
               THEN CallAppend(w, [type |-> "page-staged", run |-> n.run,
                                   rows |-> n.rows, counts |-> n.counts])
               ELSE UNCHANGED <<pc, append>>
  BY DEF ClassifyNext, Classified
<1> DEFINE class == Classify(c[1], c[2])
           r == row(c, class)
           j == next(c, class)
<1>3. /\ c[1] \in Identities /\ c[2] \in Fps
      /\ todo(c) \in SUBSET (Identities \X Fps)
  BY <1>1 DEF JobType
<1>4. class \in {"duplicate", "changed", "safe"}
  BY DEF Classify
<1>5. /\ r.run = job[w].run /\ r.at = job[w].at /\ r.identity = c[1]
      /\ r.class = class /\ r.class = Classify(r.identity, r.fp)
  OBVIOUS
<1> HIDE DEF class
<1>6. r \notin job[w].rows
  BY <1>1, <1>5 DEF PageInHand
<1>7. rows(c, class) \in SUBSET Row
  <2>1. class # "duplicate" => r \in Row
    BY <1>1, <1>3, <1>4 DEF Row, JobType
  <2> HIDE DEF r
  <2> QED BY <1>1, <2>1 DEF JobType, r
<1>8. /\ counts(class) \in Counts
      /\ counts(class)[class] = job[w].counts[class] + 1
      /\ \A other \in {"safe", "changed", "duplicate", "exception"} :
           other # class => counts(class)[other] = job[w].counts[other]
      /\ Total(counts(class)) = Total(job[w].counts) + 1
  <2>1. job[w].counts \in Counts
    BY <1>1 DEF JobType
  <2> QED BY <1>4, <2>1, CountAdded
<1>9. /\ IsFiniteSet(todo(c)) /\ Cardinality(job[w].todo) \in Nat
      /\ Cardinality(todo(c)) = Cardinality(job[w].todo) - 1
  BY <1>1, FS_RemoveElement, FS_CardinalityType DEF PageInHand
<1> HIDE DEF r
<1>10. rows(c, class) = IF class = "duplicate" THEN job[w].rows
                        ELSE job[w].rows \cup {r}
  BY DEF r
<1>11. /\ Cardinality(OfClass(job[w].rows \cup {r}, class))
             = Cardinality(OfClass(job[w].rows, class)) + 1
       /\ \A other : other # class =>
            OfClass(job[w].rows \cup {r}, other) = OfClass(job[w].rows, other)
  <2>1. /\ Cardinality(OfClass(job[w].rows \cup {r}, r.class))
             = Cardinality(OfClass(job[w].rows, r.class)) + 1
        /\ \A other : other # r.class =>
             OfClass(job[w].rows \cup {r}, other) = OfClass(job[w].rows, other)
    BY <1>1, <1>6, RowAdded
  <2> QED BY <1>5, <2>1
<1> HIDE DEF todo, rows, counts, row
<1>12. CountsRows(counts(class), rows(c, class))
  <2>1. CountsRows(job[w].counts, job[w].rows)
    BY <1>1 DEF PageInHand
  <2>2. CASE class = "duplicate"
    BY <1>8, <1>10, <2>1, <2>2 DEF CountsRows
  <2>3. CASE class = "safe"
    <3>1. /\ Cardinality(OfClass(rows(c, class), "safe"))
               = Cardinality(OfClass(job[w].rows, "safe")) + 1
          /\ OfClass(rows(c, class), "changed") = OfClass(job[w].rows, "changed")
          /\ OfClass(rows(c, class), "exception") = OfClass(job[w].rows, "exception")
      BY <1>10, <1>11, <2>3
    <3> QED BY <1>8, <2>1, <2>3, <3>1 DEF CountsRows
  <2>4. CASE class = "changed"
    <3>1. /\ Cardinality(OfClass(rows(c, class), "changed"))
               = Cardinality(OfClass(job[w].rows, "changed")) + 1
          /\ OfClass(rows(c, class), "safe") = OfClass(job[w].rows, "safe")
          /\ OfClass(rows(c, class), "exception") = OfClass(job[w].rows, "exception")
      BY <1>10, <1>11, <2>4
    <3> QED BY <1>8, <2>1, <2>4, <3>1 DEF CountsRows
  <2> QED BY <1>4, <2>2, <2>3, <2>4
<1>13. /\ j \in JobType
       /\ j.todo = todo(c) /\ j.rows = rows(c, class) /\ j.counts = counts(class)
       /\ j.run = job[w].run /\ j.at = job[w].at
       /\ j.page = job[w].page /\ j.persisted = job[w].persisted
  BY <1>1, <1>3, <1>7, <1>8, ClassifiedFields DEF todo
<1>14. /\ job' = [job EXCEPT ![w] = j]
       /\ IF j.todo = {}
          THEN CallAppend(w, [type |-> "page-staged", run |-> j.run,
                              rows |-> j.rows, counts |-> j.counts])
          ELSE UNCHANGED <<pc, append>>
  BY <1>2 DEF class
<1> HIDE DEF j
<1>15. PageInHand(j)
  <2>1. \A s \in j.rows : s \in job[w].rows \/ s = r
    BY <1>10, <1>13
  <2>2. /\ \A s \in job[w].rows : s.identity # c[1]
        /\ \A d \in j.todo : d \in job[w].todo /\ d # c
    BY <1>1, <1>13 DEF PageInHand, todo
  <2>3. Total(j.counts) + Cardinality(j.todo) = Cardinality(Pages[j.page])
    <3>1. Total(job[w].counts) + Cardinality(job[w].todo) = Cardinality(Pages[j.page])
      BY <1>1, <1>13 DEF PageInHand
    <3>2. Total(job[w].counts) \in Nat
      BY <1>1 DEF Total, JobType, Counts
    <3> QED BY <1>8, <1>9, <1>13, <3>1, <3>2
  <2> QED BY <1>1, <1>5, <1>9, <1>12, <1>13, <2>1, <2>2, <2>3 DEF PageInHand
<1>16. \A s \in j.rows : s \in job[w].rows \/ s.class = Classify(s.identity, s.fp)
  BY <1>5, <1>10, <1>13
<1> QED BY <1>1, <1>13, <1>14, <1>15, <1>16 DEF TurnsPage, Go

-----------------------------------------------------------------------------
(* What a step does to the page in hand.                                   *)

\* How a quiet step moves its worker.
GoesOnInOrder(w) ==
  \E p, j, a : Moves(w, p, j, a) /\ PageFrame(p, j, a) /\ GoesOn(w, p, j, a)

\* Answering a request leaves nothing in hand.
LEMMA ReturnPage ==
  ASSUME NEW w \in Workers, Return(w)
  PROVE  GoesOnInOrder(w)
<1>1. Moves(w, "idle", NoJob, NoAppend)
  BY DEF Return, Go, Moves
<1>2. PageFrame("idle", NoJob, NoAppend) /\ GoesOn(w, "idle", NoJob, NoAppend)
  BY DEF PageFrame, GoesOn, Retrieving, EndsWell, NoAppend, NoChange
<1> QED BY <1>1, <1>2 DEF GoesOnInOrder

\* Appending something else than a page leaves nothing in hand.
LEMMA CallPage ==
  ASSUME NEW w \in Workers, NEW c, CallAppend(w, c), NEW j,
         job' = [job EXCEPT ![w] = j],
         c.type # "page-staged",
         c.type = "run-started" => j.page = 0 /\ j.persisted = 0,
         c.type = "run-finished" /\ c.status = "staged" =>
           j.run = job[w].run /\ pc[w] = "fetch" /\ job[w].persisted = Len(Pages),
         c.type = "records-imported" => \A r \in c.rows : r.class # "exception"
  PROVE  GoesOnInOrder(w)
<1> DEFINE a == [change |-> c, attempt |-> 0, head |-> 0]
<1>1. Moves(w, "head", j, a)
  BY DEF CallAppend, Go, Moves
<1>2. a.change = c
  OBVIOUS
<1> HIDE DEF a
<1>3. PageFrame("head", j, a) /\ GoesOn(w, "head", j, a)
  BY <1>2 DEF PageFrame, GoesOn, Retrieving, EndsWell
<1> QED BY <1>1, <1>3 DEF GoesOnInOrder

\* Catching an error drops the page in hand.
LEMMA CatchPage ==
  ASSUME Frames, NEW w \in Workers, CatchRunError(w), UNCHANGED job
  PROVE  GoesOnInOrder(w)
<1>1. PICK s \in CatchStatus(w) :
        CallAppend(w, [type |-> "run-finished", run |-> job[w].run, status |-> s])
  BY DEF CatchRunError
<1>2. s # "staged" /\ job' = [job EXCEPT ![w] = job[w]]
  BY Unchanged DEF CatchStatus
<1> DEFINE c == [type |-> "run-finished", run |-> job[w].run, status |-> s]
<1>3. CallAppend(w, c) /\ c.type = "run-finished" /\ c.status # "staged"
  BY <1>1, <1>2
<1> HIDE DEF c
<1> QED BY <1>2, <1>3, CallPage

\* An error of appendAuditEvent drops it too.
LEMMA ThrowPage ==
  ASSUME Frames, NEW w \in Workers, Throw(w)
  PROVE  GoesOnInOrder(w)
  BY ReturnPage, CatchPage DEF Throw

\* Every step that commits nothing keeps the page in hand in order.
LEMMA QuietPage ==
  ASSUME TypeInv, PageFrames, NEW w \in Workers, QuietStep(w)
  PROVE  GoesOnInOrder(w)
<1>1. /\ Frames /\ Frame(Len(policies), records, pc[w], job[w], append[w])
      /\ PageFrame(pc[w], job[w], append[w])
  BY DEF TypeInv, Frames, PageFrames
<1>2. /\ job = [job EXCEPT ![w] = job[w]]
      /\ pc = [pc EXCEPT ![w] = pc[w]]
      /\ append = [append EXCEPT ![w] = append[w]]
  BY <1>1, Unchanged
<1>3. CASE ApprovePolicy(w)
  BY <1>2, <1>3, CallPage DEF ApprovePolicy
<1>4. CASE \E k \in Keys : RequestRun(w, k)
  <2>1. PICK k \in Keys : RequestRun(w, k)
    BY <1>4
  <2>2. PICK v \in ActiveVersions :
          job' = [job EXCEPT ![w] = [NoJob EXCEPT !.run = k, !.policy = v]]
    BY <2>1 DEF RequestRun
  <2> DEFINE j == [NoJob EXCEPT !.run = k, !.policy = v]
  <2>3. j.page = 0 /\ j.persisted = 0
    BY DEF NoJob
  <2>4. append[w].change = NoChange
    BY <1>1, <2>1 DEF Frame, RequestRun
  <2>5. Moves(w, "check", j, append[w])
    BY <1>2, <2>1, <2>2 DEF RequestRun, Moves, Go
  <2> HIDE DEF j
  <2>6. PageFrame("check", j, append[w]) /\ GoesOn(w, "check", j, append[w])
    BY <2>3, <2>4 DEF PageFrame, GoesOn, Retrieving, EndsWell, NoChange
  <2> QED BY <2>5, <2>6 DEF GoesOnInOrder
<1>5. CASE \E named \in (SUBSET records) \ {{}} : AcknowledgeImport(w, named)
  BY <1>2, <1>5, CallPage DEF AcknowledgeImport
<1>6. CASE CheckPolicy(w) \/ LookupRun(w)
  <2>1. Return(w) \/ Moves(w, "lookup", job[w], append[w])
          \/ Moves(w, "overlap", job[w], append[w])
    BY <1>2, <1>6 DEF CheckPolicy, LookupRun, Moves, Go
  <2>2. append[w].change = NoChange /\ pc[w] \in {"check", "lookup"}
    BY <1>1, <1>6 DEF Frame, CheckPolicy, LookupRun
  <2>3. ASSUME NEW l \in {"lookup", "overlap"}
        PROVE  PageFrame(l, job[w], append[w]) /\ GoesOn(w, l, job[w], append[w])
    BY <1>1, <2>2 DEF PageFrame, GoesOn, Retrieving, EndsWell, NoChange
  <2> QED BY <2>1, <2>3, ReturnPage DEF GoesOnInOrder
<1>7. CASE CheckOverlap(w)
  <2> DEFINE c == [type |-> "run-started", run |-> job[w].run,
                   policy |-> job[w].policy]
  <2>1. Return(w) \/ (CallAppend(w, c) /\ UNCHANGED job)
    BY <1>7 DEF CheckOverlap
  <2>2. job[w].page = 0 /\ job[w].persisted = 0
    BY <1>1, <1>7 DEF CheckOverlap, PageFrame
  <2> QED BY <1>2, <2>1, <2>2, ReturnPage, CallPage
<1>8. CASE FetchPage(w) \/ ClassifyNext(w)
  <2>1. TurnsPage(w) /\ pc[w] \in {"fetch", "classify"}
    BY <1>8, FetchTurnsPage, ClassifyTurnsPage DEF FetchPage, ClassifyNext
  <2>2. PICK j \in JobType :
          /\ job' = [job EXCEPT ![w] = j]
          /\ PageInHand(j)
          /\ j.run = job[w].run /\ j.at = job[w].at
          /\ j.persisted = job[w].persisted
          /\ \A r \in j.rows : \/ r \in job[w].rows /\ pc[w] = "classify"
                               \/ r.class = "exception"
                               \/ r.class = Classify(r.identity, r.fp)
          /\ \/ /\ j.todo = {}
                /\ CallAppend(w, [type |-> "page-staged", run |-> j.run,
                                  rows |-> j.rows, counts |-> j.counts])
             \/ Go(w, "classify") /\ UNCHANGED append
    BY <2>1 DEF TurnsPage
  <2>3. append[w].change = NoChange
    BY <1>1, <2>1 DEF Frame
  <2>4. ASSUME Go(w, "classify"), UNCHANGED append
        PROVE  GoesOnInOrder(w)
    <3>1. Moves(w, "classify", j, append[w])
      BY <1>2, <2>2, <2>4 DEF Moves, Go
    <3>2. PageFrame("classify", j, append[w]) /\ GoesOn(w, "classify", j, append[w])
      BY <2>1, <2>2, <2>3 DEF PageFrame, GoesOn, Retrieving, EndsWell, NoChange
    <3> QED BY <3>1, <3>2 DEF GoesOnInOrder
  <2> DEFINE c == [type |-> "page-staged", run |-> j.run, rows |-> j.rows,
                   counts |-> j.counts]
             a == [change |-> c, attempt |-> 0, head |-> 0]
  <2>5. ASSUME j.todo = {}, CallAppend(w, c)
        PROVE  GoesOnInOrder(w)
    <3>1. Moves(w, "head", j, a)
      BY <2>2, <2>5 DEF Moves, CallAppend, Go
    <3>2. /\ a.change.type = "page-staged" /\ a.change.rows = j.rows
          /\ a.change.counts = j.counts
      OBVIOUS
    <3> HIDE DEF a, c
    <3>3. PageFrame("head", j, a) /\ GoesOn(w, "head", j, a)
      BY <2>1, <2>2, <2>5, <3>2 DEF PageFrame, GoesOn, Retrieving, EndsWell
    <3> QED BY <3>1, <3>3 DEF GoesOnInOrder
  <2> QED BY <2>2, <2>4, <2>5
<1>9. CASE FetchFails(w)
  BY <1>1, <1>9, CatchPage DEF FetchFails
<1>10. CASE FetchEnds(w)
  <2>1. job[w].persisted = Len(Pages) /\ pc[w] = "fetch"
    BY <1>1, <1>10 DEF FetchEnds, PageFrame
  <2> QED BY <1>2, <1>10, <2>1, CallPage DEF FetchEnds
<1>11. CASE ReadHead(w)
  <2> DEFINE a == [append[w] EXCEPT !.head = Len(audit)]
  <2>1. a.change = append[w].change
    BY <1>1 DEF Frame, AppendType
  <2>2. Moves(w, "batch", job[w], a)
    BY <1>2, <1>11 DEF ReadHead, Moves, Go
  <2> HIDE DEF a
  <2>3. PageFrame("batch", job[w], a) /\ GoesOn(w, "batch", job[w], a)
    BY <1>1, <2>1 DEF PageFrame, GoesOn, Retrieving, EndsWell
  <2> QED BY <2>2, <2>3 DEF GoesOnInOrder
<1>12. CASE Conflict(w)
  <2> DEFINE b == [append[w] EXCEPT !.attempt = 1]
             a == [b EXCEPT !.head = 0]
  <2>1. b.change = append[w].change /\ b \in AppendType
    BY <1>1 DEF Frame, AppendType
  <2> HIDE DEF b
  <2>2. a.change = append[w].change
    BY <2>1 DEF AppendType
  <2>3. Throw(w) \/ Moves(w, "head", job[w], a)
    BY <1>2, <1>12 DEF Conflict, Moves, Go, b
  <2> HIDE DEF a
  <2>4. PageFrame("head", job[w], a) /\ GoesOn(w, "head", job[w], a)
    BY <1>1, <2>2 DEF PageFrame, GoesOn, Retrieving, EndsWell
  <2> QED BY <1>1, <2>3, <2>4, ThrowPage DEF GoesOnInOrder
<1>13. CASE RefuseRun(w)
  BY <1>1, <1>13, ThrowPage DEF RefuseRun
<1>14. CASE DatabaseError(w) \/ Crash(w)
  BY <1>1, <1>14, ThrowPage, ReturnPage, CatchPage DEF DatabaseError, Crash
<1> QED BY <1>3, <1>4, <1>5, <1>6, <1>7, <1>8, <1>9, <1>10, <1>11, <1>12, <1>13,
           <1>14
        DEF QuietStep, Request, RunStep

\* A worker whose batch has committed takes the next page if it has staged
\* one, the first page if it has started the run, and else retrieves no more;
\* it finishes a run only after an error, as something less than staged.
Proceeds(w, p, j, a) ==
  LET c == append[w].change
  IN  /\ ~(p = "classify" \/ a.change.type = "page-staged")
      /\ ~EndsWell(a)
      /\ a.change.type = "run-finished" =>
           /\ j.run = job[w].run
           /\ c.type = "page-staged" \/ EndsWell(append[w])
      /\ Retrieving(p, a) =>
           /\ j.run = job[w].run
           /\ \/ /\ c.type = "run-started"
                 /\ j.persisted = 0 /\ j.at = clock + 1 /\ clock' = clock + 1
              \/ /\ c.type = "page-staged"
                 /\ j.persisted = job[w].persisted + 1
                 /\ j.at = job[w].at /\ clock' = clock

\* Every commit keeps the page in hand in order.
LEMMA CommitTurns ==
  ASSUME TypeInv, PageFrames, NEW w \in Workers, Commit(w)
  PROVE  /\ \E p, j, a : /\ Moves(w, p, j, a)
                         /\ PageFrame(p, j, a)
                         /\ Proceeds(w, p, j, a)
         /\ clock' \in {clock, clock + 1}
<1> DEFINE c == append[w].change
           After == \E p, j, a : /\ Moves(w, p, j, a)
                                 /\ PageFrame(p, j, a)
                                 /\ Proceeds(w, p, j, a)
<1>1. /\ Frames /\ job[w] \in JobType /\ PageFrame(pc[w], job[w], append[w])
      /\ job = [job EXCEPT ![w] = job[w]]
  BY Unchanged DEF TypeInv, Frames, Frame, PageFrames
<1>2. ASSUME Return(w) PROVE After
  <2>1. Moves(w, "idle", NoJob, NoAppend)
    BY <1>2 DEF Return, Go, Moves
  <2>2. PageFrame("idle", NoJob, NoAppend) /\ Proceeds(w, "idle", NoJob, NoAppend)
    BY DEF PageFrame, Proceeds, Retrieving, EndsWell, NoAppend, NoChange
  <2> QED BY <2>1, <2>2
<1>3. ASSUME CatchRunError(w), UNCHANGED job,
             c.type = "page-staged" \/ EndsWell(append[w])
      PROVE  After
  <2>1. PICK s \in CatchStatus(w) :
          CallAppend(w, [type |-> "run-finished", run |-> job[w].run, status |-> s])
    BY <1>3 DEF CatchRunError
  <2> DEFINE a == [change |-> [type |-> "run-finished", run |-> job[w].run,
                               status |-> s],
                   attempt |-> 0, head |-> 0]
  <2>2. Moves(w, "head", job[w], a)
    BY <1>1, <1>3, <2>1 DEF CallAppend, Go, Moves
  <2>3. a.change.type = "run-finished" /\ a.change.status # "staged"
    BY DEF CatchStatus
  <2> HIDE DEF a
  <2>4. PageFrame("head", job[w], a) /\ Proceeds(w, "head", job[w], a)
    BY <1>3, <2>3 DEF PageFrame, Proceeds, Retrieving, EndsWell
  <2> QED BY <2>2, <2>4
<1>4. ASSUME c.type = "run-started", Succeed(w) PROVE After
  <2> DEFINE j == Started(job[w], clock + 1)
  <2>1. Moves(w, "fetch", j, NoAppend) /\ clock' = clock + 1
    BY <1>4 DEF Succeed, Moves, Go, Started
  <2>2. clock \in Nat /\ job[w].page = 0 /\ job[w].persisted = 0
    BY <1>1, <1>4 DEF PageFrame, TypeInv, TypeOK
  <2>3. j.run = job[w].run /\ j.page = 0 /\ j.persisted = 0 /\ j.at = clock + 1
    BY <1>1, <2>2 DEF Started, JobType
  <2> HIDE DEF j
  <2>4. PageFrame("fetch", j, NoAppend) /\ Proceeds(w, "fetch", j, NoAppend)
    BY <1>4, <2>1, <2>3 DEF PageFrame, Proceeds, Retrieving, EndsWell, NoAppend,
                            NoChange
  <2> QED BY <2>1, <2>4
<1>5. ASSUME c.type = "page-staged", Succeed(w) PROVE After
  <2> DEFINE j == Staged(job[w])
  <2>1. Moves(w, "fetch", j, NoAppend) /\ clock' = clock
    BY <1>5 DEF Succeed, Moves, Go, Staged
  <2>2. /\ j.run = job[w].run /\ j.at = job[w].at
        /\ j.page = j.persisted /\ j.persisted = job[w].persisted + 1
    <3>1. job[w].page = job[w].persisted + 1
      BY <1>1, <1>5 DEF PageFrame, PageInHand
    <3> QED BY <1>1, <3>1, StagedFields
  <2> HIDE DEF j
  <2>3. PageFrame("fetch", j, NoAppend) /\ Proceeds(w, "fetch", j, NoAppend)
    BY <1>5, <2>1, <2>2 DEF PageFrame, Proceeds, Retrieving, EndsWell, NoAppend,
                            NoChange
  <2> QED BY <2>1, <2>3
<1>6. Throw(w) \/ Succeed(w)
  BY DEF Commit
<1>7. Throw(w) => \/ Return(w)
                  \/ /\ CatchRunError(w) /\ UNCHANGED job
                     /\ c.type = "page-staged" \/ EndsWell(append[w])
  BY DEF Throw, EndsWell
<1>8. Succeed(w) => Return(w) \/ c.type \in {"run-started", "page-staged"}
  BY DEF Succeed
<1>9. clock' \in {clock, clock + 1}
  BY DEF Commit, Succeed
<1> QED BY <1>2, <1>3, <1>4, <1>5, <1>6, <1>7, <1>8, <1>9

\* Moving one worker, with its page in order, keeps all of them in order.
LEMMA PagesMove ==
  ASSUME Frames, PageFrames, NEW w \in Workers, NEW p, NEW j, NEW a,
         Moves(w, p, j, a), PageFrame(p, j, a)
  PROVE  PageFrames'
<1> SUFFICES ASSUME NEW u \in Workers PROVE PageFrame(pc'[u], job'[u], append'[u])
  BY DEF PageFrames
<1>1. CASE u = w
  BY <1>1, MovesOne
<1>2. CASE u # w
  <2>1. pc'[u] = pc[u] /\ job'[u] = job[u] /\ append'[u] = append[u]
    BY <1>2, MovesOne
  <2> QED BY <2>1 DEF PageFrames
<1> QED BY <1>1, <1>2

\* Every step keeps the pages in hand in order ...
LEMMA PagesStep == TypeInv /\ PageFrames /\ [Next]_vars => PageFrames'
<1> SUFFICES ASSUME TypeInv, PageFrames, [Next]_vars PROVE PageFrames'
  OBVIOUS
<1>1. Frames
  BY DEF TypeInv
<1>2. CASE UNCHANGED vars
  BY <1>2 DEF vars, PageFrames
<1>3. ASSUME NEW w \in Workers, QuietStep(w) PROVE PageFrames'
  BY <1>1, <1>3, QuietPage, PagesMove DEF GoesOnInOrder
<1>4. ASSUME NEW w \in Workers, CommitStep(w) PROVE PageFrames'
  BY <1>1, <1>4, CommitTurns, CommitStepCommits, PagesMove
<1> QED BY <1>2, <1>3, <1>4, NextCases

\* ... they are in order at first ...
LEMMA PagesInit == Init => PageFrames
  BY DEF Init, PageFrames, PageFrame, NoAppend, NoChange

\* ... and so they always are.
LEMMA SpecPages == Spec => []PageFrames
  BY PagesInit, PagesStep, SpecTypeInv, PTL DEF Spec

-----------------------------------------------------------------------------
(* The events of the log.                                                  *)

\* A commit appends one event, and leaves the others where they are.
LEMMA OneEventMore ==
  ASSUME TypeInv, NEW w \in Workers, CommitStep(w)
  PROVE  LET c == append[w].change
             n == Len(audit) + 1
         IN  /\ c \in Change
             /\ Len(audit) \in Nat /\ DOMAIN audit = 1..Len(audit)
             /\ DOMAIN audit' = 1..n
             /\ audit'[n].change = c
             /\ \A m \in DOMAIN audit : audit'[m] = audit[m]
             /\ n \notin DOMAIN audit
             /\ \A m \in DOMAIN audit : audit[m].change \in Change
<1> DEFINE e == [previous |-> append[w].head, change |-> append[w].change]
<1>1. /\ Commit(w) /\ append[w].change \in Change /\ append[w] \in AppendType
      /\ audit \in Seq([previous : Nat, change : Change])
  BY CommitStepCommits DEF TypeInv, TypeOK, Frames, Frame, Commit
<1>2. audit' = Append(audit, e) /\ e.change = append[w].change
  BY <1>1 DEF Commit
<1>3. e \in [previous : Nat, change : Change]
  BY <1>1 DEF AppendType
<1> HIDE DEF e
<1>4. /\ Len(audit) \in Nat /\ DOMAIN audit = 1..Len(audit)
      /\ DOMAIN audit' = 1..(Len(audit) + 1)
      /\ \A m \in 1..Len(audit) : audit'[m] = audit[m]
      /\ audit'[Len(audit) + 1] = e
  BY <1>1, <1>2, <1>3, AppendProperties, LenProperties
<1>5. \A m \in DOMAIN audit : audit[m] \in [previous : Nat, change : Change]
  BY <1>1, <1>4, ElementOfSeq
<1> QED BY <1>1, <1>2, <1>4, <1>5

\* So the events of a type are those there were, and perhaps the new one.
LEMMA EventsAfter ==
  ASSUME TypeInv, NEW w \in Workers, CommitStep(w)
  PROVE  LET c == append[w].change
             n == Len(audit) + 1
         IN  /\ \A t : Events(t)' = IF c.type = t THEN Events(t) \cup {n} ELSE Events(t)
             /\ \A t \in RunTypes : \A k :
                  RunEvents(t, k)' = IF c.type = t /\ c.run = k
                                     THEN RunEvents(t, k) \cup {n} ELSE RunEvents(t, k)
             /\ \A t : n \notin Events(t) /\ IsFiniteSet(Events(t))
             /\ \A t, k : n \notin RunEvents(t, k) /\ IsFiniteSet(RunEvents(t, k))
<1> DEFINE c == append[w].change
           n == Len(audit) + 1
<1>1. /\ Len(audit) \in Nat /\ DOMAIN audit = 1..Len(audit) /\ DOMAIN audit' = 1..n
      /\ audit'[n].change = c /\ n \notin DOMAIN audit
      /\ \A m \in DOMAIN audit : audit'[m] = audit[m]
  BY OneEventMore
<1>2. DOMAIN audit' = DOMAIN audit \cup {n}
  BY <1>1
<1> HIDE DEF n
<1>3. ASSUME NEW t
      PROVE  Events(t)' = IF c.type = t THEN Events(t) \cup {n} ELSE Events(t)
  BY <1>1, <1>2 DEF Events
<1>4. ASSUME NEW t \in RunTypes, NEW k
      PROVE  RunEvents(t, k)' = IF c.type = t /\ c.run = k
                                THEN RunEvents(t, k) \cup {n} ELSE RunEvents(t, k)
  <2>1. RunEvents(t, k)' = {m \in Events(t)' : audit'[m].change.run = k}
    BY DEF RunEvents
  <2>2. \A m \in Events(t) : m # n /\ audit'[m] = audit[m]
    BY <1>1 DEF Events
  <2> QED BY <1>1, <1>3, <2>1, <2>2 DEF RunEvents
<1>5. \A t : Events(t) \subseteq DOMAIN audit
  BY DEF Events
<1>6. IsFiniteSet(DOMAIN audit)
  BY <1>1, FS_Interval
<1>7. \A t : n \notin Events(t) /\ IsFiniteSet(Events(t))
  BY <1>1, <1>5, <1>6, FS_Subset
<1>8. \A t, k : n \notin RunEvents(t, k) /\ IsFiniteSet(RunEvents(t, k))
  <2>1. \A t, k : RunEvents(t, k) \in SUBSET Events(t)
    BY DEF RunEvents
  <2> QED BY <1>7, <2>1, FS_Subset
<1> QED BY <1>3, <1>4, <1>7, <1>8 DEF n

\* A step that commits nothing leaves the log as it is.
LEMMA EventsQuiet ==
  ASSUME NEW w \in Workers, QuietStep(w)
  PROVE  /\ audit' = audit
         /\ \A t : Events(t)' = Events(t)
         /\ \A t, k : RunEvents(t, k)' = RunEvents(t, k)
<1>1. audit' = audit
  BY QuietStepKeepsDb
<1> QED BY <1>1 DEF Events, RunEvents

-----------------------------------------------------------------------------
(* What a commit writes.                                                   *)

\* The fields of a run that is assigned two of them.
LEMMA RunAssigned ==
  ASSUME NEW old \in Run, NEW s \in RunStatus, NEW v \in Nat, NEW n \in Nat,
         NEW c \in Counts
  PROVE  /\ LET new == [old EXCEPT !.status = s, !.policy = v]
            IN  /\ new.status = s /\ new.policy = v /\ new.counts = old.counts
                /\ new.imported = old.imported /\ new.failed = old.failed
         /\ LET new == [old EXCEPT !.status = s, !.failed = n]
            IN  /\ new.status = s /\ new.policy = old.policy
                /\ new.counts = old.counts /\ new.imported = old.imported
         /\ LET new == [old EXCEPT !.counts = c]
            IN  /\ new.status = old.status /\ new.policy = old.policy
                /\ new.counts = c /\ new.imported = old.imported
         /\ LET new == [old EXCEPT !.imported = n]
            IN  /\ new.status = old.status /\ new.policy = old.policy
                /\ new.counts = old.counts /\ new.imported = n
<1> DEFINE r == [old EXCEPT !.status = s]
<1>1. /\ r \in Run /\ r.status = s /\ r.policy = old.policy
      /\ r.counts = old.counts /\ r.imported = old.imported /\ r.failed = old.failed
  BY DEF Run
<1>2. /\ [old EXCEPT !.status = s, !.policy = v] = [r EXCEPT !.policy = v]
      /\ [old EXCEPT !.status = s, !.failed = n] = [r EXCEPT !.failed = n]
  OBVIOUS
<1> HIDE DEF r
<1>3. LET new == [r EXCEPT !.policy = v]
      IN  /\ new.status = s /\ new.policy = v /\ new.counts = old.counts
          /\ new.imported = old.imported /\ new.failed = old.failed
  BY <1>1 DEF Run
<1>4. LET new == [r EXCEPT !.failed = n]
      IN  /\ new.status = s /\ new.policy = old.policy
          /\ new.counts = old.counts /\ new.imported = old.imported
  BY <1>1 DEF Run
<1>5. LET new == [old EXCEPT !.counts = c]
      IN  /\ new.status = old.status /\ new.policy = old.policy
          /\ new.counts = c /\ new.imported = old.imported
  BY DEF Run
<1>6. LET new == [old EXCEPT !.imported = n]
      IN  /\ new.status = old.status /\ new.policy = old.policy
          /\ new.counts = old.counts /\ new.imported = n
  BY DEF Run
<1> QED BY <1>2, <1>3, <1>4, <1>5, <1>6

\* What each kind of batch does to the tables, beside the log.
Writes(c) ==
  \/ /\ c.type = "policy-approved"
     /\ Len(policies') = Len(policies) + 1
     /\ UNCHANGED <<runs, records, imported>>
  \/ /\ c.type = "run-started" /\ c.run \in Keys
     /\ runs[c.run].status = "none"
     /\ runs'[c.run].status = "running"
     /\ runs'[c.run].policy = c.policy
     /\ runs'[c.run].counts = ZeroCounts
     /\ runs'[c.run].imported = 0
     /\ \A k \in Keys \ {c.run} : runs'[k] = runs[k]
     /\ UNCHANGED <<policies, records, imported>>
  \/ /\ c.type = "page-staged" /\ c.run \in Keys
     /\ records' = records \cup c.rows
     /\ runs'[c.run].status = runs[c.run].status
     /\ runs'[c.run].policy = runs[c.run].policy
     /\ runs'[c.run].counts = AddCounts(runs[c.run].counts, c.counts)
     /\ runs'[c.run].imported = runs[c.run].imported
     /\ \A k \in Keys \ {c.run} : runs'[k] = runs[k]
     /\ UNCHANGED <<policies, imported>>
  \/ /\ c.type = "run-finished" /\ c.run \in Keys
     /\ c.status \in Terminal
     /\ runs'[c.run].status = c.status
     /\ runs'[c.run].policy = runs[c.run].policy
     /\ runs'[c.run].counts = runs[c.run].counts
     /\ runs'[c.run].imported = runs[c.run].imported
     /\ \A k \in Keys \ {c.run} : runs'[k] = runs[k]
     /\ UNCHANGED <<policies, records, imported>>
  \/ /\ c.type = "records-imported"
     /\ c.rows \subseteq records
     /\ imported' = imported \cup c.rows
     /\ \A k \in Keys :
          /\ runs'[k].status = runs[k].status
          /\ runs'[k].policy = runs[k].policy
          /\ runs'[k].counts = runs[k].counts
          /\ runs'[k].imported = runs[k].imported
               + Cardinality({r \in c.rows \ imported : r.run = k})
     /\ UNCHANGED <<policies, records>>

\* A commit writes what its change says.
LEMMA CommitWrites ==
  ASSUME TypeInv, NEW w \in Workers, CommitStep(w)
  PROVE  Writes(append[w].change)
<1> DEFINE c == append[w].change
<1>1. /\ runs \in [Keys -> Run] /\ c \in Change /\ Commit(w)
  BY CommitStepCommits DEF TypeInv, TypeOK, Frames, Frame, Commit
<1>2. CASE CommitPolicy(w)
  BY <1>2, PolicyAppended DEF CommitPolicy, Writes
<1>3. CASE CommitRun(w)
  <2> DEFINE run == [NoRun EXCEPT !.status = "running", !.policy = c.policy]
  <2>1. c.type = "run-started" /\ c.run \in Keys /\ c.policy \in Nat
    BY <1>1, <1>3, ChangeFields DEF CommitRun, RunTypes
  <2>2. runs[c.run].status = "none"
    BY <1>1, <2>1 DEF Commit, Admitted, KeysAreFree
  <2>3. runs' = [runs EXCEPT ![c.run] = run] /\ UNCHANGED <<policies, records, imported>>
    BY <1>3 DEF CommitRun
  <2>4. /\ run.status = "running" /\ run.policy = c.policy
        /\ run.counts = ZeroCounts /\ run.imported = 0
    <3>1. NoRun \in Run /\ "running" \in RunStatus /\ 0 \in Nat /\ ZeroCounts \in Counts
      BY EmptyFrame DEF RunStatus
    <3>2. NoRun.counts = ZeroCounts /\ NoRun.imported = 0
      BY DEF NoRun
    <3> QED BY <2>1, <3>1, <3>2, RunAssigned
  <2> HIDE DEF run
  <2> QED BY <1>1, <2>1, <2>2, <2>3, <2>4 DEF Writes
<1>4. CASE CommitPage(w)
  <2> DEFINE old == runs[c.run]
             added == AddCounts(old.counts, c.counts)
             run == [old EXCEPT !.counts = added]
  <2>1. c.type = "page-staged" /\ c.run \in Keys /\ c.counts \in Counts
    BY <1>1, <1>4, ChangeFields DEF CommitPage, RunTypes
  <2>2. /\ runs' = [runs EXCEPT ![c.run] = run]
        /\ records' = records \cup c.rows /\ UNCHANGED <<policies, imported>>
    BY <1>4 DEF CommitPage
  <2>3. /\ run.status = old.status /\ run.policy = old.policy
        /\ run.counts = added /\ run.imported = old.imported
    <3>1. old \in Run
      BY <1>1, <2>1
    <3>2. added \in Counts
      BY <2>1, <3>1 DEF AddCounts, Counts, Run
    <3> HIDE DEF old, added
    <3> QED BY <3>1, <3>2 DEF Run
  <2> HIDE DEF run
  <2> QED BY <1>1, <2>1, <2>2, <2>3 DEF Writes
<1>5. CASE CommitFinish(w)
  <2> DEFINE old == runs[c.run]
             failures == IF c.status \in {"failed", "partial"} THEN 1 ELSE 0
             failed == old.failed + failures
             run == [old EXCEPT !.status = c.status, !.failed = failed]
  <2>1. c.type = "run-finished" /\ c.run \in Keys /\ c.status \in Terminal
    BY <1>1, <1>5, ChangeFields DEF CommitFinish, RunTypes
  <2>2. runs' = [runs EXCEPT ![c.run] = run] /\ UNCHANGED <<policies, records, imported>>
    BY <1>5 DEF CommitFinish
  <2>3. /\ run.status = c.status /\ run.policy = old.policy
        /\ run.counts = old.counts /\ run.imported = old.imported
    <3>1. old \in Run /\ c.status \in RunStatus /\ ZeroCounts \in Counts
      BY <1>1, <2>1, EmptyFrame DEF RunStatus, Terminal
    <3>2. failed \in Nat
      BY <3>1 DEF Run
    <3> HIDE DEF old, failed
    <3> QED BY <3>1, <3>2, RunAssigned
  <2> HIDE DEF run
  <2> QED BY <1>1, <2>1, <2>2, <2>3 DEF Writes
<1>6. CASE CommitImport(w)
  <2> DEFINE n(k) == Cardinality({r \in c.rows \ imported : r.run = k})
  <2>1. /\ c.type = "records-imported" /\ c.rows \subseteq records
        /\ IsFiniteSet(c.rows)
    BY <1>6 DEF CommitImport, TypeInv, Frames, Frame
  <2>2. /\ imported' = imported \cup c.rows /\ UNCHANGED <<policies, records>>
        /\ runs' = [k \in Keys |-> [runs[k] EXCEPT !.imported = @ + n(k)]]
    BY <1>6 DEF CommitImport
  <2>3. \A k \in Keys : n(k) \in Nat
    <3> TAKE k \in Keys
    <3>1. {r \in c.rows \ imported : r.run = k} \in SUBSET c.rows
      OBVIOUS
    <3> QED BY <2>1, <3>1, FS_Subset, FS_CardinalityType
  <2> HIDE DEF n
  <2>4. ASSUME NEW k \in Keys
        PROVE  /\ runs'[k].status = runs[k].status
               /\ runs'[k].policy = runs[k].policy
               /\ runs'[k].counts = runs[k].counts
               /\ runs'[k].imported = runs[k].imported + n(k)
    <3> DEFINE m == runs[k].imported + n(k)
    <3>1. runs[k] \in Run /\ m \in Nat
      BY <1>1, <2>3 DEF Run
    <3>2. runs'[k] = [runs[k] EXCEPT !.imported = m]
      BY <2>2
    <3> HIDE DEF m
    <3>3. /\ runs'[k].status = runs[k].status /\ runs'[k].policy = runs[k].policy
          /\ runs'[k].counts = runs[k].counts /\ runs'[k].imported = m
      BY <3>1, <3>2 DEF Run
    <3> QED BY <3>3 DEF m
  <2> QED BY <2>1, <2>2, <2>4 DEF Writes, n
<1> QED BY <1>2, <1>3, <1>4, <1>5, <1>6 DEF CommitStep

\* A page is committed by the retriever of its run, and the end of a run by
\* its owner: the run has started, and is running while pages are staged.
LEMMA CommitOwner ==
  ASSUME TypeInv, OwnerInv, PageFrames, NEW w \in Workers, CommitStep(w)
  PROVE  LET c == append[w].change
         IN  /\ c.type = "page-staged" =>
                  /\ c.run = job[w].run /\ c.rows = job[w].rows
                  /\ c.counts = job[w].counts /\ job[w].todo = {}
                  /\ PageInHand(job[w])
                  /\ Retrieves(w, c.run) /\ runs[c.run].status = "running"
             /\ c.type = "run-finished" =>
                  Owns(w, c.run) /\ runs[c.run].status # "none"
<1> DEFINE c == append[w].change
<1>1. c.type \in RunTypes => c.run = job[w].run /\ c.run \in Keys
  BY DEF TypeInv, Frames, Frame
<1>2. PageFrame(pc[w], job[w], append[w])
  BY DEF PageFrames
<1>3. c.type = "page-staged" => Retrieves(w, c.run)
  BY <1>1 DEF Retrieves, RunTypes
<1>4. c.type = "run-finished" => Owns(w, c.run)
  BY <1>1 DEF Owns, Acts, RunTypes
<1> QED BY <1>1, <1>2, <1>3, <1>4 DEF OwnerInv, PageFrame, RunTypes

-----------------------------------------------------------------------------
(* A run that has ended.                                                   *)

\* Only a running run gets rows or counts, and it never runs again: the
\* property EndedRunIsFrozen, for all constants.
THEOREM EndedRunsStay == Spec => EndedRunIsFrozen
<1> DEFINE Frozen ==
      \A k \in Keys :
        runs[k].status \in Terminal =>
          /\ runs'[k].status \in Terminal
          /\ runs'[k].policy = runs[k].policy
          /\ runs'[k].counts = runs[k].counts
          /\ {r \in records' : r.run = k} = {r \in records : r.run = k}
<1>1. TypeInv /\ OwnerInv /\ PageFrames /\ [Next]_vars => [Frozen]_vars
  <2> SUFFICES ASSUME TypeInv, OwnerInv, PageFrames, [Next]_vars
               PROVE  [Frozen]_vars
    OBVIOUS
  <2>1. CASE UNCHANGED <<runs, records>>
    BY <2>1
  <2>2. ASSUME NEW w \in Workers, CommitStep(w) PROVE Frozen
    <3> DEFINE c == append[w].change
    <3>1. Writes(c)
      BY <2>2, CommitWrites
    <3>2. c.type = "page-staged" =>
            runs[c.run].status = "running" /\ \A r \in c.rows : r.run = c.run
      BY <2>2, CommitOwner DEF PageInHand
    <3> HIDE DEF c
    <3>3. ASSUME NEW k \in Keys, runs[k].status \in Terminal
          PROVE  /\ runs'[k].status \in Terminal
                 /\ runs'[k].policy = runs[k].policy
                 /\ runs'[k].counts = runs[k].counts
      BY <3>1, <3>2, <3>3 DEF Writes, Terminal
    <3>4. ASSUME NEW k \in Keys, runs[k].status \in Terminal
          PROVE  {r \in records' : r.run = k} = {r \in records : r.run = k}
      <4>1. CASE records' = records
        BY <4>1
      <4>2. CASE records' = records \cup c.rows /\ c.type = "page-staged"
        BY <3>2, <3>4, <4>2 DEF Terminal
      <4> QED BY <3>1, <4>1, <4>2 DEF Writes
    <3> QED BY <3>3, <3>4
  <2> QED BY <2>1, <2>2, NextCases, QuietStepKeepsDb DEF vars
<1> QED BY <1>1, SpecTypeInv, SpecOwnerInv, SpecPages, PTL
        DEF Spec, EndedRunIsFrozen

-----------------------------------------------------------------------------
(* The log explains the tables.                                            *)

\* The rows that the events of one type name.
RowsLogged(t) == UNION {audit[n].change.rows : n \in Events(t)}

\* What the log holds of a run: nothing before it has started; then one start,
\* and the last of its ends, if there is one, has its status.
LogOfRun(k) ==
  \/ /\ RunEvents("run-started", k) = {}
     /\ RunEvents("run-finished", k) = {}
     /\ runs[k].status = "none"
  \/ /\ \E n \in RunEvents("run-started", k) :
          /\ RunEvents("run-started", k) = {n}
          /\ audit[n].change.policy = runs[k].policy
     /\ \/ RunEvents("run-finished", k) = {} /\ runs[k].status = "running"
        \/ \E m \in RunEvents("run-finished", k) :
             /\ \A i \in RunEvents("run-finished", k) : i <= m
             /\ runs[k].status = audit[m].change.status

LogInv ==
  /\ Cardinality(Events("policy-approved")) = Len(policies)
  /\ \A k \in Keys : LogOfRun(k)
  /\ records = RowsLogged("page-staged")
  /\ imported = RowsLogged("records-imported")

\* LogInv says of each run what replaying the log gives.
LEMMA LogExplains == ASSUME TypeInv, LogInv PROVE AuditExplainsState
<1>1. \A t, k : RunEvents(t, k) \subseteq DOMAIN audit
  BY DEF RunEvents, Events
<1>2. DOMAIN audit \subseteq Nat
  BY LenProperties DEF TypeInv, TypeOK
<1>3. ASSUME NEW k \in Keys
      PROVE  Cardinality(RunEvents("run-started", k)) <= 1
  <2>1. \A n : Cardinality({n}) = 1
    BY FS_Singleton
  <2>2. \/ RunEvents("run-started", k) = {}
        \/ \E n : RunEvents("run-started", k) = {n}
    BY DEF LogInv, LogOfRun
  <2>3. \/ Cardinality(RunEvents("run-started", k)) = 0
        \/ Cardinality(RunEvents("run-started", k)) = 1
    BY <2>1, <2>2, FS_EmptySet
  <2> QED BY <2>3
<1>4. ASSUME NEW k \in Keys
      PROVE  /\ runs[k].status = StatusInLog(k)
             /\ \A n \in RunEvents("run-started", k) :
                  audit[n].change.policy = runs[k].policy
  <2> DEFINE ended == RunEvents("run-finished", k)
             last == CHOOSE i \in ended : \A m \in ended : m <= i
  <2>1. \A n \in RunEvents("run-started", k) : audit[n].change.policy = runs[k].policy
    BY DEF LogInv, LogOfRun
  <2>2. CASE RunEvents("run-started", k) = {} \/ ended = {}
    BY <2>2 DEF LogInv, LogOfRun, StatusInLog
  <2>3. CASE RunEvents("run-started", k) # {} /\ ended # {}
    <3>1. PICK m \in ended :
            /\ \A i \in ended : i <= m
            /\ runs[k].status = audit[m].change.status
      BY <2>3 DEF LogInv, LogOfRun
    <3>2. last \in ended /\ \A i \in ended : i <= last
      BY <3>1
    <3>3. m <= last /\ last <= m /\ m \in Nat /\ last \in Nat
      BY <1>1, <1>2, <3>1, <3>2
    <3>4. last = m
      BY <3>3
    <3>5. StatusInLog(k) = audit[last].change.status
      BY <2>3 DEF StatusInLog
    <3> QED BY <2>1, <3>1, <3>4, <3>5
  <2> QED BY <2>1, <2>2, <2>3
<1> QED BY <1>3, <1>4 DEF LogInv, AuditExplainsState, RowsLogged

\* A commit logs its rows, if it has some.
LEMMA RowsLoggedAfter ==
  ASSUME TypeInv, NEW w \in Workers, CommitStep(w), NEW t
  PROVE  RowsLogged(t)' = IF append[w].change.type = t
                          THEN RowsLogged(t) \cup append[w].change.rows
                          ELSE RowsLogged(t)
<1> DEFINE c == append[w].change
           n == Len(audit) + 1
<1>1. /\ audit'[n].change = c
      /\ \A m \in Events(t) : audit'[m] = audit[m]
  BY OneEventMore DEF Events
<1>2. Events(t)' = IF c.type = t THEN Events(t) \cup {n} ELSE Events(t)
  BY EventsAfter
<1>3. RowsLogged(t)' = UNION {audit'[m].change.rows : m \in Events(t)'}
  BY DEF RowsLogged
<1> HIDE DEF c, n
<1>4. CASE c.type = t
  <2>1. {audit'[m].change.rows : m \in Events(t)'}
          = {audit[m].change.rows : m \in Events(t)} \cup {c.rows}
    BY <1>1, <1>2, <1>4
  <2> QED BY <1>3, <1>4, <2>1 DEF RowsLogged, c
<1>5. CASE c.type # t
  <2>1. {audit'[m].change.rows : m \in Events(t)'}
          = {audit[m].change.rows : m \in Events(t)}
    BY <1>1, <1>2, <1>5
  <2> QED BY <1>3, <1>5, <2>1 DEF RowsLogged, c
<1> QED BY <1>4, <1>5

\* A commit keeps what the log holds of each run.
LEMMA LogOfRunAfter ==
  ASSUME TypeInv, OwnerInv, PageFrames, NEW w \in Workers, CommitStep(w),
         NEW k \in Keys, LogOfRun(k)
  PROVE  LogOfRun(k)'
<1> DEFINE c == append[w].change
           n == Len(audit) + 1
<1>1. /\ Len(audit) \in Nat /\ DOMAIN audit = 1..Len(audit)
      /\ audit'[n].change = c
      /\ \A m \in DOMAIN audit : audit'[m] = audit[m]
  BY OneEventMore
<1>2. /\ RunEvents("run-started", k)' =
           IF c.type = "run-started" /\ c.run = k
           THEN RunEvents("run-started", k) \cup {n} ELSE RunEvents("run-started", k)
      /\ RunEvents("run-finished", k)' =
           IF c.type = "run-finished" /\ c.run = k
           THEN RunEvents("run-finished", k) \cup {n} ELSE RunEvents("run-finished", k)
  BY EventsAfter DEF RunTypes
<1>3. \A t : RunEvents(t, k) \subseteq DOMAIN audit
  BY DEF RunEvents, Events
<1>4. Writes(c)
  BY CommitWrites
<1>5. c.type = "run-finished" => runs[c.run].status # "none"
  BY CommitOwner
<1>6. \A m \in DOMAIN audit : m < n /\ n \in Nat /\ m \in Nat
  BY <1>1
<1>7. \A t : \A m \in RunEvents(t, k) : audit'[m] = audit[m] /\ m <= n
  BY <1>1, <1>3, <1>6
<1> HIDE DEF c, n
<1>8. CASE c.type = "run-started" /\ c.run = k
  <2>1. runs[k].status = "none" /\ runs'[k].status = "running" /\ runs'[k].policy = c.policy
    BY <1>4, <1>8 DEF Writes
  <2>2. RunEvents("run-started", k) = {} /\ RunEvents("run-finished", k) = {}
    <3>1. \A m \in RunEvents("run-finished", k) : audit[m].change.status \in Terminal
      <4>1. \A m \in DOMAIN audit : audit[m].change \in Change
        BY OneEventMore
      <4> QED BY <4>1, ChangeFields DEF RunEvents, Events
    <3> QED BY <2>1, <3>1 DEF LogOfRun, Terminal
  <2> QED BY <1>1, <1>2, <1>8, <2>1, <2>2 DEF LogOfRun
<1>9. CASE c.type = "run-finished" /\ c.run = k
  <2>1. /\ runs[k].status # "none" /\ runs'[k].status = c.status
        /\ runs'[k].policy = runs[k].policy
    BY <1>4, <1>5, <1>9 DEF Writes
  <2>2. \E m \in RunEvents("run-started", k) :
          /\ RunEvents("run-started", k) = {m}
          /\ audit[m].change.policy = runs[k].policy
    BY <2>1 DEF LogOfRun
  <2>3. /\ n \in RunEvents("run-finished", k)'
        /\ \A i \in RunEvents("run-finished", k)' : i <= n
    <3>1. n \in Nat
      BY <1>1 DEF n
    <3> QED BY <1>2, <1>7, <1>9, <3>1
  <2>4. RunEvents("run-started", k)' = RunEvents("run-started", k)
    BY <1>2, <1>9
  <2> QED BY <1>1, <1>7, <2>1, <2>2, <2>3, <2>4 DEF LogOfRun
<1>10. CASE ~(c.type \in {"run-started", "run-finished"} /\ c.run = k)
  <2>1. runs'[k].status = runs[k].status /\ runs'[k].policy = runs[k].policy
    BY <1>4, <1>10 DEF Writes
  <2>2. /\ RunEvents("run-started", k)' = RunEvents("run-started", k)
        /\ RunEvents("run-finished", k)' = RunEvents("run-finished", k)
    BY <1>2, <1>10
  <2> QED BY <1>7, <2>1, <2>2 DEF LogOfRun
<1> QED BY <1>8, <1>9, <1>10

\* Every step keeps LogInv.
LEMMA LogStep ==
  TypeInv /\ OwnerInv /\ PageFrames /\ LogInv /\ [Next]_vars => LogInv'
<1> SUFFICES ASSUME TypeInv, OwnerInv, PageFrames, LogInv, [Next]_vars PROVE LogInv'
  OBVIOUS
<1>1. CASE UNCHANGED <<policies, runs, records, imported, audit>>
  BY <1>1 DEF LogInv, LogOfRun, RowsLogged, RunEvents, Events
<1>2. ASSUME NEW w \in Workers, CommitStep(w) PROVE LogInv'
  <2> DEFINE c == append[w].change
  <2>1. Writes(c)
    BY <1>2, CommitWrites
  <2>2. \A k \in Keys : LogOfRun(k)'
    BY <1>2, LogOfRunAfter DEF LogInv
  <2>3. Cardinality(Events("policy-approved")') = Len(policies')
    <3> DEFINE E == Events("policy-approved")
               n == Len(audit) + 1
    <3>1. /\ E' = IF c.type = "policy-approved" THEN E \cup {n} ELSE E
          /\ n \notin E /\ IsFiniteSet(E)
      BY <1>2, EventsAfter
    <3>2. Cardinality(E \cup {n}) = Cardinality(E) + 1
      BY <3>1, FS_AddElement
    <3> HIDE DEF E, n, c
    <3>3. Cardinality(E) = Len(policies)
      BY DEF LogInv, E
    <3>4. Cardinality(E') = Len(policies')
      BY <2>1, <3>1, <3>2, <3>3 DEF Writes
    <3> QED BY <3>4 DEF E
  <2>4. c.type = "page-staged" => c.run \in Keys
    BY <2>1 DEF Writes
  <2>5. records' = RowsLogged("page-staged")'
    BY <1>2, <2>1, RowsLoggedAfter DEF LogInv, Writes
  <2>6. imported' = RowsLogged("records-imported")'
    BY <1>2, <2>1, RowsLoggedAfter DEF LogInv, Writes
  <2> QED BY <2>2, <2>3, <2>5, <2>6 DEF LogInv
<1> QED BY <1>1, <1>2, NextCases, QuietStepKeepsDb DEF vars

\* LogInv holds initially ...
LEMMA LogInit == Init => LogInv
<1> SUFFICES ASSUME Init PROVE LogInv
  OBVIOUS
<1>1. \A t : Events(t) = {}
  BY DEF Init, Events
<1>2. \A t, k : RunEvents(t, k) = {}
  BY <1>1 DEF RunEvents
<1>3. Cardinality(Events("policy-approved")) = 0 /\ Len(policies) = 0
  BY <1>1, FS_EmptySet DEF Init
<1> QED BY <1>1, <1>2, <1>3 DEF Init, LogInv, LogOfRun, RowsLogged, NoRun

\* ... and so it always holds.
LEMMA SpecLogInv == Spec => []LogInv
  BY LogInit, LogStep, SpecTypeInv, SpecOwnerInv, SpecPages, PTL DEF Spec

\* No table changes without its event, and no event is appended without its
\* change: AuditExplainsState, for all constants.
THEOREM LogExplainsTables == Spec => []AuditExplainsState
  BY SpecTypeInv, SpecLogInv, LogExplains, PTL

-----------------------------------------------------------------------------
(* The count of the imported rows.                                         *)

\* A row is staged under a run that has started, with a count of its own.
ImportInv ==
  /\ \A r \in records : runs[r.run].status # "none"
  /\ ImportsCountOnce

\* Every step keeps ImportInv.
LEMMA ImportStep ==
  TypeInv /\ OwnerInv /\ PageFrames /\ ImportInv /\ [Next]_vars => ImportInv'
<1> SUFFICES ASSUME TypeInv, OwnerInv, PageFrames, ImportInv, [Next]_vars
             PROVE  ImportInv'
  OBVIOUS
<1>1. CASE UNCHANGED <<policies, runs, records, imported, audit>>
  BY <1>1 DEF ImportInv, ImportsCountOnce
<1>2. ASSUME NEW w \in Workers, CommitStep(w) PROVE ImportInv'
  <2> DEFINE c == append[w].change
             Of(rows, k) == {r \in rows : r.run = k}
  <2>1. Writes(c)
    BY <1>2, CommitWrites
  <2>2. c.type = "page-staged" =>
          runs[c.run].status = "running" /\ \A r \in c.rows : r.run = c.run
    BY <1>2, CommitOwner DEF PageInHand
  <2>3. /\ imported \subseteq records /\ IsFiniteSet(records)
        /\ \A r \in records : r.run \in Keys
        /\ \A k \in Keys : runs[k].imported = Cardinality(Of(imported, k))
    BY DEF TypeInv, TypeOK, Row, ImportInv, ImportsCountOnce
  <2> HIDE DEF c
  <2>4. ASSUME NEW r \in records' PROVE runs'[r.run].status # "none"
    <3>1. CASE c.type = "page-staged" /\ r \in c.rows
      BY <2>1, <2>2, <3>1 DEF Writes
    <3>2. CASE r \in records
      <4>1. runs[r.run].status # "none" /\ r.run \in Keys
        BY <2>3, <3>2 DEF ImportInv
      <4> QED BY <2>1, <4>1 DEF Writes, Terminal
    <3> QED BY <2>1, <3>1, <3>2 DEF Writes
  <2>5. ASSUME NEW k \in Keys
        PROVE  runs'[k].imported = Cardinality(Of(imported', k))
    <3>1. CASE c.type = "records-imported"
      <4> DEFINE old == Of(imported, k)
                 new == Of(c.rows \ imported, k)
      <4>1. c.rows \subseteq records /\ imported' = imported \cup c.rows
        BY <2>1, <3>1 DEF Writes
      <4>2. old \in SUBSET records /\ new \in SUBSET records
        BY <2>3, <4>1
      <4>3. Of(imported', k) = old \cup new /\ old \cap new = {}
        BY <4>1
      <4>4. IsFiniteSet(old) /\ IsFiniteSet(new)
        BY <2>3, <4>2, FS_Subset
      <4> HIDE DEF old, new
      <4>5. Cardinality(old \cup new) = Cardinality(old) + Cardinality(new)
        <5>1. /\ Cardinality(old \cup new)
                   = Cardinality(old) + Cardinality(new) - Cardinality(old \cap new)
              /\ Cardinality(old) \in Nat /\ Cardinality(new) \in Nat
              /\ Cardinality({}) = 0
          BY <4>4, FS_Union, FS_CardinalityType, FS_EmptySet
        <5>2. Cardinality(old \cap new) = 0
          BY <4>3, <5>1
        <5> QED BY <5>1, <5>2
      <4>6. runs'[k].imported = runs[k].imported + Cardinality(new)
        BY <2>1, <3>1 DEF Writes, new
      <4>7. runs[k].imported = Cardinality(old)
        BY <2>3 DEF old
      <4> QED BY <4>3, <4>5, <4>6, <4>7
    <3>2. CASE c.type = "run-started" /\ c.run = k
      <4>1. runs[k].status = "none" /\ runs'[k].imported = 0 /\ imported' = imported
        BY <2>1, <3>2 DEF Writes
      <4>2. Of(imported', k) = {}
        BY <2>3, <4>1 DEF ImportInv
      <4> QED BY <4>1, <4>2, FS_EmptySet
    <3>3. CASE c.type # "records-imported" /\ ~(c.type = "run-started" /\ c.run = k)
      <4>1. imported' = imported /\ runs'[k].imported = runs[k].imported
        BY <2>1, <3>3 DEF Writes
      <4> QED BY <2>3, <4>1
    <3> QED BY <3>1, <3>2, <3>3
  <2> QED BY <2>4, <2>5 DEF ImportInv, ImportsCountOnce
<1> QED BY <1>1, <1>2, NextCases, QuietStepKeepsDb DEF vars

\* ImportInv always holds.
LEMMA SpecImportInv == Spec => []ImportInv
<1>1. Init => ImportInv
  <2> SUFFICES ASSUME Init PROVE ImportInv
    OBVIOUS
  <2>1. \A k \in Keys : {r \in imported : r.run = k} = {}
    BY DEF Init
  <2> QED BY <2>1, FS_EmptySet DEF Init, ImportInv, ImportsCountOnce, NoRun
<1> QED BY <1>1, ImportStep, SpecTypeInv, SpecOwnerInv, SpecPages, PTL DEF Spec

\* However often an acknowledgement is repeated, a row counts once:
\* ImportsCountOnce, for all constants.
THEOREM ImportsAreCountedOnce == Spec => []ImportsCountOnce
<1>1. ImportInv => ImportsCountOnce
  BY DEF ImportInv
<1> QED BY <1>1, SpecImportInv, PTL

-----------------------------------------------------------------------------
(* The pages of a run.                                                     *)

\* The identities on the first n pages.
FirstPages(n) == UNION {Pages[i] : i \in 1..n}

\* The worker that retrieves for a run has staged the pages that the log
\* says; a run is called staged, or is about to be, when they are all.
StagedInv ==
  \A k \in Keys :
    /\ StagedPages(k) \in 0..Len(Pages)
    /\ runs[k].status = "none" => StagedPages(k) = 0
    /\ runs[k].status = "staged" => StagedPages(k) = Len(Pages)
    /\ \A w \in Workers :
         /\ Retrieves(w, k) => job[w].persisted = StagedPages(k)
         /\ job[w].run = k /\ EndsWell(append[w]) => StagedPages(k) = Len(Pages)

\* Retrieving pages is retrieving for the run of the job.
LEMMA RetrievesDef ==
  ASSUME NEW w, NEW k
  PROVE  Retrieves(w, k) <=> job[w].run = k /\ Retrieving(pc[w], append[w])
  BY DEF Retrieves, Retrieving

\* The same of the next state.
LEMMA RetrievesDefPrime ==
  ASSUME NEW w, NEW k
  PROVE  Retrieves(w, k)' <=> job'[w].run = k /\ Retrieving(pc'[w], append'[w])
  BY DEF Retrieves, Retrieving

\* A page more is staged when the batch of a page commits.
LEMMA StagedPagesAfter ==
  ASSUME TypeInv, NEW w \in Workers, CommitStep(w), NEW k
  PROVE  /\ StagedPages(k) \in Nat
         /\ StagedPages(k)' = IF append[w].change.type = "page-staged"
                                   /\ append[w].change.run = k
                              THEN StagedPages(k) + 1 ELSE StagedPages(k)
<1> DEFINE c == append[w].change
           n == Len(audit) + 1
           E == RunEvents("page-staged", k)
<1>1. /\ E' = IF c.type = "page-staged" /\ c.run = k THEN E \cup {n} ELSE E
      /\ n \notin E /\ IsFiniteSet(E)
  BY EventsAfter DEF RunTypes
<1>2. Cardinality(E \cup {n}) = Cardinality(E) + 1 /\ Cardinality(E) \in Nat
  BY <1>1, FS_AddElement, FS_CardinalityType
<1> QED BY <1>1, <1>2 DEF StagedPages

\* A step that commits nothing keeps the pages of the runs.
LEMMA StagedQuiet ==
  ASSUME TypeInv, PageFrames, StagedInv, NEW w \in Workers, QuietStep(w)
  PROVE  StagedInv'
<1>1. PICK p, j, a : Moves(w, p, j, a) /\ GoesOn(w, p, j, a)
  BY QuietPage DEF GoesOnInOrder
<1>2. Frames /\ runs' = runs /\ \A k : StagedPages(k)' = StagedPages(k)
  BY QuietStepKeepsDb, EventsQuiet DEF TypeInv, StagedPages
<1>3. pc'[w] = p /\ job'[w] = j /\ append'[w] = a
  BY <1>1, <1>2, MovesOne
<1> SUFFICES ASSUME NEW k \in Keys, NEW u \in Workers
             PROVE  /\ Retrieves(u, k)' => job'[u].persisted = StagedPages(k)
                    /\ job'[u].run = k /\ EndsWell(append'[u])
                         => StagedPages(k) = Len(Pages)
  BY <1>2 DEF StagedInv
<1>4. CASE u # w
  <2>1. pc'[u] = pc[u] /\ job'[u] = job[u] /\ append'[u] = append[u]
    BY <1>1, <1>2, <1>4, MovesOne
  <2> QED BY <2>1, RetrievesDef, RetrievesDefPrime DEF StagedInv
<1>5. CASE u = w
  <2>1. ASSUME Retrieves(u, k)' PROVE job'[u].persisted = StagedPages(k)
    <3>1. Retrieving(p, a) /\ j.run = k
      BY <1>3, <1>5, <2>1, RetrievesDefPrime
    <3>2. Retrieves(w, k) /\ j.persisted = job[w].persisted
      BY <1>1, <3>1, RetrievesDef DEF GoesOn
    <3> QED BY <1>3, <1>5, <3>2 DEF StagedInv
  <2>2. ASSUME job'[u].run = k, EndsWell(append'[u])
        PROVE  StagedPages(k) = Len(Pages)
    <3>1. /\ job[w].run = k
          /\ EndsWell(append[w]) \/ (pc[w] = "fetch" /\ job[w].persisted = Len(Pages))
      BY <1>1, <1>3, <1>5, <2>2 DEF GoesOn
    <3>2. pc[w] = "fetch" => Retrieves(w, k)
      BY <3>1 DEF Retrieves
    <3> QED BY <3>1, <3>2 DEF StagedInv
  <2> QED BY <2>1, <2>2
<1> QED BY <1>4, <1>5

\* A commit keeps them.
LEMMA StagedCommit ==
  ASSUME TypeInv, OwnerInv, PageFrames, StagedInv, NEW w \in Workers, CommitStep(w)
  PROVE  StagedInv'
<1> DEFINE c == append[w].change
<1>1. PICK p, j, a : Moves(w, p, j, a) /\ Proceeds(w, p, j, a)
  BY CommitTurns, CommitStepCommits
<1>2. Frames /\ Writes(c)
  BY CommitWrites DEF TypeInv
<1>3. pc'[w] = p /\ job'[w] = j /\ append'[w] = a
  BY <1>1, <1>2, MovesOne
<1>4. \A k : /\ StagedPages(k) \in Nat
             /\ StagedPages(k)' = IF c.type = "page-staged" /\ c.run = k
                                  THEN StagedPages(k) + 1 ELSE StagedPages(k)
  BY StagedPagesAfter
<1>5. c.type \in RunTypes => c.run = job[w].run
  BY DEF TypeInv, Frames, Frame
<1>6. c.type = "page-staged" =>
        /\ Retrieves(w, c.run) /\ runs[c.run].status = "running"
        /\ job[w].persisted + 1 \in 1..Len(Pages)
  BY CommitOwner, LenProperties, ConstantsAssumption DEF PageInHand
<1>7. ASSUME NEW k \in Keys, c.type = "page-staged", c.run = k
      PROVE  /\ StagedPages(k)' = job[w].persisted + 1
             /\ \A u \in Workers \ {w} : ~Owns(u, k)
  BY <1>4, <1>6, <1>7, RetrieverOwns DEF StagedInv, OwnerInv
<1>8. c.type = "run-finished" /\ c.status = "staged" => EndsWell(append[w])
  BY DEF EndsWell
<1>9. Len(Pages) \in Nat
  BY LenProperties, ConstantsAssumption
<1> HIDE DEF c
<1>10. ASSUME NEW k \in Keys
       PROVE  /\ StagedPages(k)' \in 0..Len(Pages)
              /\ runs'[k].status = "none" => StagedPages(k)' = 0
              /\ runs'[k].status = "staged" => StagedPages(k)' = Len(Pages)
  <2>1. CASE c.type = "page-staged" /\ c.run = k
    <3>1. runs'[k].status = "running"
      BY <1>2, <1>6, <2>1 DEF Writes
    <3> QED BY <1>6, <1>7, <1>9, <2>1, <3>1
  <2>2. CASE ~(c.type = "page-staged" /\ c.run = k)
    <3>1. StagedPages(k)' = StagedPages(k)
      BY <1>4, <2>2
    <3>2. CASE runs'[k].status = runs[k].status
      BY <3>1, <3>2 DEF StagedInv
    <3>3. CASE c.type = "run-started" /\ c.run = k
      BY <1>2, <3>1, <3>3 DEF StagedInv, Writes
    <3>4. CASE c.type = "run-finished" /\ c.run = k
      <4>1. runs'[k].status = c.status /\ c.status \in Terminal
        BY <1>2, <3>4 DEF Writes
      <4>2. c.status = "staged" => StagedPages(k) = Len(Pages)
        BY <1>5, <1>8, <3>4 DEF StagedInv, RunTypes
      <4> QED BY <3>1, <4>1, <4>2 DEF StagedInv, Terminal
    <3> QED BY <1>2, <3>2, <3>3, <3>4 DEF Writes
  <2> QED BY <2>1, <2>2
<1>11. ASSUME NEW k \in Keys, NEW u \in Workers, u # w
       PROVE  /\ Retrieves(u, k)' => job'[u].persisted = StagedPages(k)'
              /\ job'[u].run = k /\ EndsWell(append'[u])
                   => StagedPages(k)' = Len(Pages)
  <2>1. pc'[u] = pc[u] /\ job'[u] = job[u] /\ append'[u] = append[u]
    BY <1>1, <1>2, <1>11, MovesOne
  <2>2. Retrieves(u, k)' => Retrieves(u, k)
    BY <2>1, RetrievesDef, RetrievesDefPrime
  <2>3. Retrieves(u, k) \/ (job[u].run = k /\ EndsWell(append[u])) => Owns(u, k)
    BY RetrieverOwns DEF Owns, Acts, EndsWell
  <2>4. Owns(u, k) => StagedPages(k)' = StagedPages(k)
    BY <1>4, <1>7, <1>11
  <2> QED BY <2>1, <2>2, <2>3, <2>4 DEF StagedInv
<1>12. ASSUME NEW k \in Keys
       PROVE  /\ Retrieves(w, k)' => job'[w].persisted = StagedPages(k)'
              /\ ~EndsWell(append'[w])
  <2>1. ~EndsWell(append'[w])
    BY <1>1, <1>3 DEF Proceeds
  <2>2. ASSUME Retrieves(w, k)' PROVE job'[w].persisted = StagedPages(k)'
    <3>1. Retrieving(p, a) /\ j.run = k
      BY <1>3, <2>2, RetrievesDefPrime
    <3>2. /\ job[w].run = k
          /\ \/ c.type = "run-started" /\ j.persisted = 0
             \/ c.type = "page-staged" /\ j.persisted = job[w].persisted + 1
      BY <1>1, <3>1 DEF Proceeds, c
    <3>3. CASE c.type = "run-started"
      BY <1>2, <1>3, <1>4, <1>5, <3>2, <3>3 DEF StagedInv, Writes, RunTypes
    <3>4. CASE c.type = "page-staged"
      BY <1>3, <1>5, <1>7, <3>2, <3>4 DEF RunTypes
    <3> QED BY <3>2, <3>3, <3>4
  <2> QED BY <2>1, <2>2
<1> QED BY <1>10, <1>11, <1>12 DEF StagedInv

\* StagedInv always holds.
LEMMA SpecStagedInv == Spec => []StagedInv
<1>1. Init => StagedInv
  <2> SUFFICES ASSUME Init PROVE StagedInv
    OBVIOUS
  <2>1. \A k : RunEvents("page-staged", k) = {}
    BY DEF Init, RunEvents, Events
  <2>2. \A k : StagedPages(k) = 0
    BY <2>1, FS_EmptySet DEF StagedPages
  <2>3. Len(Pages) \in Nat
    BY LenProperties, ConstantsAssumption
  <2> QED BY <2>2, <2>3 DEF Init, StagedInv, NoRun, Retrieves, EndsWell, NoAppend,
                            NoChange
<1>2. TypeInv /\ OwnerInv /\ PageFrames /\ StagedInv /\ [Next]_vars => StagedInv'
  <2> SUFFICES ASSUME TypeInv, OwnerInv, PageFrames, StagedInv, [Next]_vars
               PROVE  StagedInv'
    OBVIOUS
  <2>1. CASE UNCHANGED vars
    BY <2>1 DEF vars, StagedInv, Retrieves, EndsWell, StagedPages, RunEvents, Events
  <2> QED BY <2>1, NextCases, StagedQuiet, StagedCommit
<1> QED BY <1>1, <1>2, SpecTypeInv, SpecOwnerInv, SpecPages, PTL DEF Spec

\* No page is missing from a run that is called staged, whatever failed on the
\* way: StagedRunIsComplete, for all constants.
THEOREM StagedMeansComplete == Spec => []StagedRunIsComplete
<1>1. StagedInv => StagedRunIsComplete
  BY DEF StagedInv, StagedRunIsComplete
<1> QED BY <1>1, SpecStagedInv, PTL

-----------------------------------------------------------------------------
(* The counters of a run.                                                  *)

\* The rows that a run has staged.
RowsOfRun(rows, k) == {r \in rows : r.run = k}

\* The rows of a run are of pages that it has staged, and its counters are
\* those of its rows and pages.
CountersInv ==
  /\ \A r \in records : r.identity \in FirstPages(StagedPages(r.run))
  /\ \A k \in Keys :
       /\ CountsRows(runs[k].counts, RowsOfRun(records, k))
       /\ Total(runs[k].counts) = Cardinality(FirstPages(StagedPages(k)))

\* CountersInv says of the counters what CountersMatchRows does.
LEMMA CountersInvMatches == CountersInv => CountersMatchRows
<1> SUFFICES ASSUME CountersInv, NEW k \in Keys
             PROVE  LET Rows(class) == {r \in records : r.run = k /\ r.class = class}
                        c == runs[k].counts
                    IN  /\ c.safe = Cardinality(Rows("safe"))
                        /\ c.changed = Cardinality(Rows("changed"))
                        /\ c.exception = Cardinality(Rows("exception"))
                        /\ c.safe + c.changed + c.duplicate + c.exception =
                              Cardinality(UNION {Pages[i] : i \in 1..StagedPages(k)})
  BY DEF CountersMatchRows
<1>1. \A class : OfClass(RowsOfRun(records, k), class)
                   = {r \in records : r.run = k /\ r.class = class}
  BY DEF OfClass, RowsOfRun
<1>2. /\ CountsRows(runs[k].counts, RowsOfRun(records, k))
      /\ Total(runs[k].counts) = Cardinality(FirstPages(StagedPages(k)))
  BY DEF CountersInv
<1> QED BY <1>1, <1>2 DEF CountsRows, Total, FirstPages

\* The next page shares no identity with those before it.
LEMMA OnePageMore ==
  ASSUME NEW n \in Nat, n + 1 \in DOMAIN Pages
  PROVE  /\ FirstPages(n + 1) = FirstPages(n) \cup Pages[n + 1]
         /\ FirstPages(n) \cap Pages[n + 1] = {}
         /\ Cardinality(FirstPages(n + 1))
              = Cardinality(FirstPages(n)) + Cardinality(Pages[n + 1])
<1>1. /\ DOMAIN Pages = 1..Len(Pages) /\ Len(Pages) \in Nat
      /\ 1..(n + 1) = 1..n \cup {n + 1}
      /\ 1..n \subseteq DOMAIN Pages /\ n + 1 \notin 1..n
  BY ConstantsAssumption, LenProperties
<1>2. /\ \A i \in DOMAIN Pages : IsFiniteSet(Pages[i])
      /\ \A i, j \in DOMAIN Pages : i # j => Pages[i] \cap Pages[j] = {}
  BY ConstantsAssumption, PageIsFinite
<1>3. {Pages[i] : i \in 1..(n + 1)} = {Pages[i] : i \in 1..n} \cup {Pages[n + 1]}
  BY <1>1
<1>4. FirstPages(n + 1) = FirstPages(n) \cup Pages[n + 1]
  BY <1>3 DEF FirstPages
<1>5. FirstPages(n) \cap Pages[n + 1] = {}
  BY <1>1, <1>2 DEF FirstPages
<1>6. IsFiniteSet(FirstPages(n))
  <2> DEFINE T == {Pages[i] : i \in 1..n}
             f == [i \in 1..n |-> Pages[i]]
  <2>1. f \in Surjection(1..n, T)
    BY DEF Surjection
  <2>2. IsFiniteSet(1..n)
    BY FS_Interval
  <2>3. \A S \in T : IsFiniteSet(S)
    BY <1>1, <1>2
  <2> HIDE DEF f, T
  <2>4. IsFiniteSet(T)
    BY <2>1, <2>2, FS_Surjection
  <2>5. IsFiniteSet(UNION T)
    BY <2>3, <2>4, FS_UNION
  <2> QED BY <2>5 DEF T, FirstPages
<1>7. IsFiniteSet(Pages[n + 1])
  BY <1>2
<1>8. Cardinality(FirstPages(n) \cup Pages[n + 1])
        = Cardinality(FirstPages(n)) + Cardinality(Pages[n + 1])
            - Cardinality(FirstPages(n) \cap Pages[n + 1])
  BY <1>6, <1>7, FS_Union
<1>9. /\ Cardinality(FirstPages(n) \cap Pages[n + 1]) = 0
      /\ Cardinality(FirstPages(n)) \in Nat /\ Cardinality(Pages[n + 1]) \in Nat
  BY <1>5, <1>6, <1>7, FS_EmptySet, FS_CardinalityType
<1>10. Cardinality(FirstPages(n) \cup Pages[n + 1])
         = Cardinality(FirstPages(n)) + Cardinality(Pages[n + 1])
  BY <1>8, <1>9
<1> QED BY <1>4, <1>5, <1>10

\* Counting two disjoint sets of rows together.
LEMMA CountsJoined ==
  ASSUME NEW A, NEW B, IsFiniteSet(A), IsFiniteSet(B), A \cap B = {},
         NEW c \in Counts, NEW d \in Counts, CountsRows(c, A), CountsRows(d, B)
  PROVE  CountsRows(AddCounts(c, d), A \cup B)
<1>1. ASSUME NEW class
      PROVE  Cardinality(OfClass(A \cup B, class))
               = Cardinality(OfClass(A, class)) + Cardinality(OfClass(B, class))
  <2> DEFINE S == OfClass(A, class)
             T == OfClass(B, class)
  <2>1. /\ OfClass(A \cup B, class) = S \cup T /\ S \cap T = {}
        /\ S \in SUBSET A /\ T \in SUBSET B
    BY DEF OfClass
  <2> HIDE DEF S, T
  <2>2. IsFiniteSet(S) /\ IsFiniteSet(T)
    BY <2>1, FS_Subset
  <2>3. Cardinality(S \cup T) = Cardinality(S) + Cardinality(T) - Cardinality(S \cap T)
    BY <2>2, FS_Union
  <2>4. /\ Cardinality(S \cap T) = 0
        /\ Cardinality(S) \in Nat /\ Cardinality(T) \in Nat
    BY <2>1, <2>2, FS_EmptySet, FS_CardinalityType
  <2>5. Cardinality(S \cup T) = Cardinality(S) + Cardinality(T)
    BY <2>3, <2>4
  <2> QED BY <2>1, <2>5 DEF S, T
<1> QED BY <1>1 DEF CountsRows, AddCounts

\* A commit keeps the counters of the runs.
LEMMA CountersCommit ==
  ASSUME TypeInv, OwnerInv, PageFrames, StagedInv, ImportInv, CountersInv,
         NEW w \in Workers, CommitStep(w)
  PROVE  CountersInv'
<1> DEFINE c == append[w].change
<1>1. Writes(c)
  BY CommitWrites
<1>2. \A k : /\ StagedPages(k) \in Nat
             /\ StagedPages(k)' = IF c.type = "page-staged" /\ c.run = k
                                  THEN StagedPages(k) + 1 ELSE StagedPages(k)
  BY StagedPagesAfter
<1>3. /\ \A r \in records : r.run \in Keys
      /\ IsFiniteSet(records)
      /\ runs \in [Keys -> Run]
  BY DEF TypeInv, TypeOK, Row
<1>4. CASE c.type = "page-staged"
  <2>0. PICK k0 : k0 = c.run
    OBVIOUS
  <2> DEFINE old == RowsOfRun(records, k0)
             n == StagedPages(k0)
  <2>1. /\ k0 \in Keys /\ c.counts \in Counts /\ IsFiniteSet(c.rows)
        /\ records' = records \cup c.rows
        /\ runs'[k0].counts = AddCounts(runs[k0].counts, c.counts)
        /\ \A k \in Keys \ {k0} : runs'[k] = runs[k]
    <3>1. c \in Change /\ IsFiniteSet(c.rows)
      BY <1>4, OneEventMore DEF TypeInv, Frames, Frame
    <3> QED BY <1>1, <1>4, <2>0, <3>1, ChangeFields DEF Writes
  <2>2. /\ c.rows = job[w].rows /\ c.counts = job[w].counts /\ job[w].todo = {}
        /\ k0 = job[w].run /\ PageInHand(job[w])
        /\ Retrieves(w, k0)
    BY <1>4, <2>0, CommitOwner
  <2>3. job[w].page = n + 1 /\ n \in Nat /\ n + 1 \in DOMAIN Pages
    BY <1>2, <2>1, <2>2 DEF PageInHand, StagedInv
  <2>4. /\ \A r \in c.rows : r.run = k0 /\ r.identity \in Pages[n + 1]
        /\ CountsRows(c.counts, c.rows)
        /\ Total(c.counts) = Cardinality(Pages[n + 1])
    <3>1. Total(job[w].counts) + Cardinality(job[w].todo) = Cardinality(Pages[n + 1])
      BY <2>2, <2>3 DEF PageInHand
    <3>2. Cardinality(job[w].todo) = 0
      BY <2>2, FS_EmptySet
    <3>3. Total(c.counts) \in Nat
      BY <2>1 DEF Total, Counts
    <3> QED BY <2>2, <2>3, <3>1, <3>2, <3>3 DEF PageInHand
  <2>5. StagedPages(k0)' = n + 1
        /\ \A k : k # k0 => StagedPages(k)' = StagedPages(k)
    BY <1>2, <1>4, <2>0
  <2>6. /\ FirstPages(n + 1) = FirstPages(n) \cup Pages[n + 1]
        /\ FirstPages(n) \cap Pages[n + 1] = {}
        /\ Cardinality(FirstPages(n + 1))
             = Cardinality(FirstPages(n)) + Cardinality(Pages[n + 1])
    BY <2>3, OnePageMore
  <2>7. /\ CountsRows(runs[k0].counts, old)
        /\ Total(runs[k0].counts) = Cardinality(FirstPages(n))
        /\ runs[k0].counts \in Counts
        /\ \A r \in old : r.identity \in FirstPages(n)
    BY <1>3, <2>1 DEF CountersInv, RowsOfRun, Run
  <2> HIDE DEF n, c
  <2>8. ASSUME NEW r \in records'
        PROVE  r.identity \in FirstPages(StagedPages(r.run)')
    <3>1. CASE r \in c.rows
      BY <2>4, <2>5, <2>6, <3>1
    <3>2. CASE r \in records
      <4>1. r.identity \in FirstPages(StagedPages(r.run))
        BY <3>2 DEF CountersInv
      <4> QED BY <2>5, <2>6, <4>1 DEF n
    <3> QED BY <2>1, <2>8, <3>1, <3>2
  <2>9. CountsRows(runs'[k0].counts, RowsOfRun(records', k0))
    <3>1. old \in SUBSET records /\ old \cap c.rows = {}
      BY <2>4, <2>6, <2>7 DEF RowsOfRun
    <3>2. IsFiniteSet(old)
      BY <1>3, <3>1, FS_Subset
    <3>3. RowsOfRun(records', k0) = old \cup c.rows
      BY <2>1, <2>4 DEF RowsOfRun
    <3> HIDE DEF old
    <3>4. CountsRows(AddCounts(runs[k0].counts, c.counts), old \cup c.rows)
      BY <2>1, <2>4, <2>7, <3>1, <3>2, CountsJoined
    <3> QED BY <2>1, <3>3, <3>4
  <2>10. Total(runs'[k0].counts) = Cardinality(FirstPages(n + 1))
    <3>1. Total(runs'[k0].counts) = Total(runs[k0].counts) + Total(c.counts)
      BY <2>1, <2>7 DEF Total, AddCounts, Counts
    <3> QED BY <2>4, <2>6, <2>7, <3>1
  <2>11. ASSUME NEW k \in Keys, k # k0
         PROVE  RowsOfRun(records', k) = RowsOfRun(records, k)
    BY <2>1, <2>4, <2>11 DEF RowsOfRun
  <2>12. ASSUME NEW k \in Keys
         PROVE  /\ CountsRows(runs'[k].counts, RowsOfRun(records', k))
                /\ Total(runs'[k].counts) = Cardinality(FirstPages(StagedPages(k)'))
    <3>1. CASE k = k0
      BY <2>5, <2>9, <2>10, <3>1
    <3>2. CASE k # k0
      <4>1. /\ runs'[k] = runs[k] /\ StagedPages(k)' = StagedPages(k)
            /\ RowsOfRun(records', k) = RowsOfRun(records, k)
        BY <2>1, <2>5, <2>11, <3>2
      <4> QED BY <4>1 DEF CountersInv
    <3> QED BY <3>1, <3>2
  <2> QED BY <2>8, <2>12 DEF CountersInv
<1>5. CASE c.type # "page-staged"
  <2>1. records' = records /\ \A k : StagedPages(k)' = StagedPages(k)
    BY <1>1, <1>2, <1>5 DEF Writes
  <2>2. ASSUME NEW k \in Keys
        PROVE  /\ CountsRows(runs'[k].counts, RowsOfRun(records, k))
               /\ Total(runs'[k].counts) = Cardinality(FirstPages(StagedPages(k)))
    <3>1. CASE runs'[k].counts = runs[k].counts
      BY <3>1 DEF CountersInv
    <3>2. CASE c.type = "run-started" /\ c.run = k
      <4>1. runs[k].status = "none" /\ runs'[k].counts = ZeroCounts
        BY <1>1, <3>2 DEF Writes
      <4>2. RowsOfRun(records, k) = {} /\ StagedPages(k) = 0
        BY <1>3, <4>1 DEF ImportInv, StagedInv, RowsOfRun
      <4>3. \A class : OfClass({}, class) = {}
        BY DEF OfClass
      <4>4. FirstPages(0) = {}
        BY DEF FirstPages
      <4>5. Cardinality({}) = 0
        BY FS_EmptySet
      <4>6. CountsRows(ZeroCounts, {})
        BY <4>3, <4>5 DEF CountsRows, ZeroCounts
      <4>7. Total(ZeroCounts) = 0
        BY DEF Total, ZeroCounts
      <4> QED BY <4>1, <4>2, <4>4, <4>5, <4>6, <4>7
    <3> QED BY <1>1, <1>5, <3>1, <3>2 DEF Writes
  <2> QED BY <2>1, <2>2 DEF CountersInv
<1> QED BY <1>4, <1>5

\* CountersInv always holds.
LEMMA SpecCountersInv == Spec => []CountersInv
<1>1. Init => CountersInv
  <2> SUFFICES ASSUME Init PROVE CountersInv
    OBVIOUS
  <2>1. \A k : RunEvents("page-staged", k) = {}
    BY DEF Init, RunEvents, Events
  <2>2. \A k : StagedPages(k) = 0
    BY <2>1, FS_EmptySet DEF StagedPages
  <2>3. FirstPages(0) = {}
    BY DEF FirstPages
  <2>4. \A k, class : OfClass(RowsOfRun(records, k), class) = {}
    BY DEF Init, OfClass, RowsOfRun
  <2>5. \A k \in Keys : runs[k].counts = ZeroCounts
    BY DEF Init, NoRun
  <2>6. Total(ZeroCounts) = 0 /\ Cardinality({}) = 0
    BY FS_EmptySet DEF Total, ZeroCounts
  <2>7. \A k \in Keys : CountsRows(ZeroCounts, RowsOfRun(records, k))
    BY <2>4, <2>6 DEF CountsRows, ZeroCounts
  <2> QED BY <2>2, <2>3, <2>5, <2>6, <2>7 DEF Init, CountersInv
<1>2. /\ TypeInv /\ OwnerInv /\ PageFrames /\ StagedInv /\ ImportInv /\ CountersInv
      /\ [Next]_vars
      => CountersInv'
  <2> SUFFICES ASSUME TypeInv, OwnerInv, PageFrames, StagedInv, ImportInv,
                      CountersInv, [Next]_vars
               PROVE  CountersInv'
    OBVIOUS
  <2>1. CASE UNCHANGED <<policies, runs, records, imported, audit>>
    BY <2>1 DEF CountersInv, StagedPages, RunEvents, Events
  <2> QED BY <2>1, NextCases, QuietStepKeepsDb, CountersCommit DEF vars
<1> QED BY <1>1, <1>2, SpecTypeInv, SpecOwnerInv, SpecPages, SpecStagedInv,
           SpecImportInv, PTL DEF Spec

\* The counters of a run are those of its rows and of its pages, whatever other
\* runs write meanwhile: CountersMatchRows, for all constants.
THEOREM CountersAreRight == Spec => []CountersMatchRows
  BY SpecCountersInv, CountersInvMatches, PTL

-----------------------------------------------------------------------------
(* Safe rows.                                                              *)

\* No row is later than the clock.
ClockInv ==
  /\ clock \in Nat
  /\ \A r \in records : r.at <= clock
  /\ \A w \in Workers : Retrieving(pc[w], append[w]) => job[w].at <= clock

\* A worker with a page in hand.
InHand(w) == pc[w] = "classify" \/ append[w].change.type = "page-staged"

\* Where persistPage has found no prior row, those that have come since are
\* of other policies: a run of the same policy would have been refused.
SafeInv ==
  /\ SafeTwiceOnlyAcrossPolicies
  /\ \A w \in Workers : InHand(w) =>
       \A r \in job[w].rows, s \in records :
         r.class = "safe" /\ s.class # "exception" /\ s.identity = r.identity
           => runs[s.run].policy # runs[job[w].run].policy

\* A set of natural numbers has a least element.
LEMMA LeastNat ==
  ASSUME NEW S \in SUBSET Nat, S # {}
  PROVE  \E m \in S : \A n \in S : m <= n
<1> DEFINE Less == OpToRel(<, Nat)
<1>1. \A m, n \in Nat : n < m => <<n, m>> \in Less
  BY Zenon DEF OpToRel
<1>2. IsWellFoundedOn(Less, Nat)
  BY NatLessThanWellFounded, Zenon
<1> HIDE DEF Less
<1>3. PICK m \in S : \A n \in S : ~(<<n, m>> \in Less)
  BY <1>2, WFMin
<1>4. ASSUME NEW n \in S PROVE m <= n
  <2>1. m \in Nat /\ n \in Nat /\ ~(n < m)
    BY <1>1, <1>3
  <2> QED BY <2>1
<1> QED BY <1>4

\* A parcel that has rows has a latest one.
LEMMA LatestExists ==
  ASSUME TypeInv, ClockInv, NEW i, RowsOf(i) # {}
  PROVE  Latest(i) # {}
<1> DEFINE age(r) == clock - r.at
           S == {age(r) : r \in RowsOf(i)}
<1>1. \A r \in RowsOf(i) : r.at \in Nat /\ r.at <= clock /\ clock \in Nat
  BY DEF RowsOf, TypeInv, TypeOK, Row, ClockInv
<1>2. S \in SUBSET Nat /\ S # {}
  BY <1>1
<1>3. PICK m \in S : \A n \in S : m <= n
  BY <1>2, LeastNat
<1>4. PICK r \in RowsOf(i) : m = age(r)
  BY <1>3
<1>5. \A s \in RowsOf(i) : age(r) <= age(s)
  BY <1>3, <1>4
<1>6. \A s \in RowsOf(i) : s.at <= r.at
  BY <1>1, <1>5
<1> QED BY <1>4, <1>6 DEF Latest

\* So a candidate is safe only if its parcel has no row at all.
LEMMA SafeIsFirst ==
  ASSUME TypeInv, ClockInv, NEW i, NEW fp, Classify(i, fp) = "safe"
  PROVE  \A s \in records : s.class # "exception" => s.identity # i
<1>1. Latest(i) = {}
  BY DEF Classify
<1> QED BY <1>1, LatestExists DEF RowsOf

\* A step that commits nothing takes no time.
LEMMA QuietClock ==
  ASSUME NEW w \in Workers, QuietStep(w)
  PROVE  clock' = clock
  BY DEF QuietStep, Request, RunStep, ApprovePolicy, RequestRun, AcknowledgeImport,
         CheckPolicy, LookupRun, CheckOverlap, FetchPage, FetchFails, FetchEnds,
         ClassifyNext, ReadHead, Conflict, RefuseRun, DatabaseError, Crash

\* Every step keeps ClockInv.
LEMMA ClockStep == TypeInv /\ PageFrames /\ ClockInv /\ [Next]_vars => ClockInv'
<1> SUFFICES ASSUME TypeInv, PageFrames, ClockInv, [Next]_vars PROVE ClockInv'
  OBVIOUS
<1>1. Frames /\ \A u \in Workers : job[u] \in JobType
  BY DEF TypeInv, Frames
<1>2. CASE UNCHANGED vars
  BY <1>2 DEF vars, ClockInv, Retrieving
<1>3. ASSUME NEW w \in Workers, QuietStep(w) PROVE ClockInv'
  <2>1. PICK p, j, a : Moves(w, p, j, a) /\ GoesOn(w, p, j, a)
    BY <1>3, QuietPage DEF GoesOnInOrder
  <2>2. records' = records /\ clock' = clock
    BY <1>3, QuietStepKeepsDb, QuietClock
  <2>3. \A u \in Workers : Retrieving(pc'[u], append'[u]) =>
          Retrieving(pc[u], append[u]) /\ job'[u].at = job[u].at
    BY <1>1, <2>1, MovesOne DEF GoesOn
  <2> QED BY <2>2, <2>3 DEF ClockInv
<1>4. ASSUME NEW w \in Workers, CommitStep(w) PROVE ClockInv'
  <2> DEFINE c == append[w].change
  <2>1. PICK p, j, a : Moves(w, p, j, a) /\ Proceeds(w, p, j, a)
    BY <1>4, CommitTurns, CommitStepCommits
  <2>2. clock' \in {clock, clock + 1} /\ clock \in Nat
    BY <1>4, CommitTurns, CommitStepCommits DEF ClockInv
  <2>3. ASSUME NEW u \in Workers, Retrieving(pc'[u], append'[u])
        PROVE  job'[u].at <= clock'
    <3>1. CASE u # w
      <4>1. pc'[u] = pc[u] /\ job'[u] = job[u] /\ append'[u] = append[u]
        BY <1>1, <2>1, <3>1, MovesOne
      <4>2. job[u].at <= clock /\ job[u].at \in Nat
        BY <1>1, <2>3, <4>1 DEF ClockInv, JobType
      <4> QED BY <2>2, <4>1, <4>2
    <3>2. CASE u = w
      <4>1. Retrieving(p, a) /\ job'[w] = j
        BY <1>1, <2>1, <2>3, <3>2, MovesOne
      <4>2. \/ j.at = clock + 1 /\ clock' = clock + 1
            \/ /\ c.type = "page-staged"
               /\ j.at = job[w].at /\ clock' = clock
        BY <2>1, <4>1 DEF Proceeds
      <4>3. c.type = "page-staged" => job[w].at <= clock
        BY DEF ClockInv, Retrieving
      <4> QED BY <2>2, <3>2, <4>1, <4>2, <4>3
    <3> QED BY <3>1, <3>2
  <2>4. ASSUME NEW r \in records' PROVE r.at <= clock'
    <3>1. r \in records \/ (c.type = "page-staged" /\ r \in c.rows)
      BY <1>4, CommitWrites DEF Writes
    <3>2. CASE r \in records
      <4>1. r.at \in Nat /\ r.at <= clock
        BY <3>2 DEF TypeInv, TypeOK, Row, ClockInv
      <4> QED BY <2>2, <4>1
    <3>3. CASE c.type = "page-staged" /\ r \in c.rows
      <4>1. PageFrame(pc[w], job[w], append[w])
        BY DEF PageFrames
      <4>2. r.at = job[w].at
        BY <3>3, <4>1 DEF PageFrame, PageInHand
      <4>3. job[w].at <= clock /\ job[w].at \in Nat
        BY <1>1, <3>3 DEF ClockInv, Retrieving, JobType
      <4> QED BY <2>2, <4>2, <4>3
    <3> QED BY <3>1, <3>2, <3>3
  <2> QED BY <2>2, <2>3, <2>4 DEF ClockInv
<1> QED BY <1>2, <1>3, <1>4, NextCases

\* A step that commits nothing keeps SafeInv.
LEMMA SafeQuiet ==
  ASSUME TypeInv, PageFrames, ClockInv, SafeInv, NEW w \in Workers, QuietStep(w)
  PROVE  SafeInv'
<1>1. PICK p, j, a : Moves(w, p, j, a) /\ GoesOn(w, p, j, a)
  BY QuietPage DEF GoesOnInOrder
<1>2. Frames /\ runs' = runs /\ records' = records
  BY QuietStepKeepsDb DEF TypeInv
<1>3. SafeTwiceOnlyAcrossPolicies'
  BY <1>2 DEF SafeInv, SafeTwiceOnlyAcrossPolicies
<1>4. ASSUME NEW u \in Workers, InHand(u)', NEW r \in job'[u].rows, NEW s \in records,
             r.class = "safe", s.class # "exception", s.identity = r.identity
      PROVE  runs[s.run].policy # runs[job'[u].run].policy
  <2>1. CASE u # w
    <3>1. pc'[u] = pc[u] /\ job'[u] = job[u] /\ append'[u] = append[u]
      BY <1>1, <1>2, <2>1, MovesOne
    <3> QED BY <1>4, <3>1 DEF SafeInv, InHand
  <2>2. CASE u = w
    <3>1. pc'[w] = p /\ job'[w] = j /\ append'[w] = a
      BY <1>1, <1>2, MovesOne
    <3>2. p = "classify" \/ a.change.type = "page-staged"
      BY <1>4, <2>2, <3>1 DEF InHand
    <3>3. /\ j.run = job[w].run
          /\ \/ r \in job[w].rows /\ InHand(w)
             \/ r.class = Classify(r.identity, r.fp)
      BY <1>1, <1>4, <2>2, <3>1, <3>2 DEF GoesOn, Retrieving, InHand
    <3>4. r.class # Classify(r.identity, r.fp)
      BY <1>4, SafeIsFirst
    <3> QED BY <1>4, <2>2, <3>1, <3>3, <3>4 DEF SafeInv
  <2> QED BY <2>1, <2>2
<1> QED BY <1>2, <1>3, <1>4 DEF SafeInv

\* The policies of the runs that have rows or retrievers are settled.
LEMMA PoliciesSettled ==
  ASSUME TypeInv, NEW w \in Workers, CommitStep(w), NEW k \in Keys,
         runs[k].status # "none"
  PROVE  runs'[k].policy = runs[k].policy
  BY CommitWrites DEF Writes

\* A commit keeps SafeInv.
LEMMA SafeCommit ==
  ASSUME TypeInv, OwnerInv, OneRunPerPolicy, PageFrames, ImportInv, SafeInv,
         NEW w \in Workers, CommitStep(w)
  PROVE  SafeInv'
<1> DEFINE c == append[w].change
<1>1. PICK p, j, a : Moves(w, p, j, a) /\ Proceeds(w, p, j, a)
  BY CommitTurns, CommitStepCommits
<1>2. Frames /\ Writes(c)
  BY CommitWrites DEF TypeInv
<1>3. \A r \in records : r.run \in Keys /\ runs[r.run].status # "none"
  BY DEF TypeInv, TypeOK, Row, ImportInv
<1>4. \A r \in records : runs'[r.run].policy = runs[r.run].policy
  BY <1>3, PoliciesSettled
<1>5. ASSUME c.type = "page-staged"
      PROVE  /\ c.run \in Keys /\ c.run = job[w].run /\ c.rows = job[w].rows
             /\ runs[c.run].status = "running"
             /\ runs'[c.run].policy = runs[c.run].policy
             /\ records' = records \cup c.rows
             /\ \A r \in c.rows : r.run = c.run
             /\ \A r, s \in c.rows : r.identity = s.identity => r = s
             /\ Retrieves(w, c.run) /\ InHand(w)
  BY <1>2, <1>5, CommitOwner DEF Writes, PageInHand, InHand
<1>6. c.type # "page-staged" => records' = records
  BY <1>2 DEF Writes
<1>7. SafeTwiceOnlyAcrossPolicies'
  <2> SUFFICES ASSUME NEW r \in records', NEW s \in records',
                      r.class = "safe", s.class = "safe",
                      r.identity = s.identity, r # s
               PROVE  runs'[r.run].policy # runs'[s.run].policy
    BY DEF SafeTwiceOnlyAcrossPolicies
  <2>1. CASE r \in records /\ s \in records
    BY <1>4, <2>1 DEF SafeInv, SafeTwiceOnlyAcrossPolicies
  <2>2. ASSUME c.type = "page-staged", NEW x \in c.rows, NEW y \in records,
               x.class = "safe", y.class = "safe", x.identity = y.identity
        PROVE  runs'[x.run].policy # runs'[y.run].policy
    <3>1. runs[y.run].policy # runs[c.run].policy
      BY <1>5, <2>2 DEF SafeInv
    <3> QED BY <1>4, <1>5, <2>2, <3>1
  <2>3. r \in records \/ (c.type = "page-staged" /\ r \in c.rows)
    BY <1>5, <1>6
  <2>4. s \in records \/ (c.type = "page-staged" /\ s \in c.rows)
    BY <1>5, <1>6
  <2>5. CASE r \in c.rows /\ s \in c.rows /\ c.type = "page-staged"
    BY <1>5, <2>5
  <2> QED BY <2>1, <2>2, <2>3, <2>4, <2>5
<1>8. ASSUME NEW u \in Workers, InHand(u)', NEW r \in job'[u].rows,
             NEW s \in records',
             r.class = "safe", s.class # "exception", s.identity = r.identity
      PROVE  runs'[s.run].policy # runs'[job'[u].run].policy
  <2>1. u # w
    <3>1. pc'[w] = p /\ append'[w] = a
      BY <1>1, <1>2, MovesOne
    <3> QED BY <1>1, <1>8, <3>1 DEF Proceeds, InHand
  <2>2. pc'[u] = pc[u] /\ job'[u] = job[u] /\ append'[u] = append[u]
    BY <1>1, <1>2, <2>1, MovesOne
  <2>3. InHand(u)
    BY <1>8, <2>2 DEF InHand
  <2> DEFINE k == job[u].run
  <2>4. k \in Keys /\ Retrieves(u, k) /\ runs[k].status = "running"
    <3>1. k \in Keys
      BY <2>3 DEF InHand, TypeInv, Frames, Frame, RunTypes
    <3>2. Retrieves(u, k)
      BY <2>3 DEF InHand, Retrieves
    <3> QED BY <3>1, <3>2 DEF OwnerInv
  <2>5. runs'[k].policy = runs[k].policy
    BY <2>4, PoliciesSettled
  <2>6. CASE s \in records
    <3>1. runs[s.run].policy # runs[k].policy
      BY <1>8, <2>2, <2>3, <2>6 DEF SafeInv
    <3> QED BY <1>4, <2>2, <2>5, <2>6, <3>1
  <2>7. CASE c.type = "page-staged" /\ s \in c.rows
    <3>1. k # c.run
      <4>1. Owns(u, k) /\ Owns(w, c.run)
        BY <1>5, <2>4, <2>7, RetrieverOwns
      <4> QED BY <2>1, <2>4, <4>1 DEF OwnerInv
    <3>2. runs[k].policy # runs[c.run].policy
      BY <1>5, <2>4, <2>7, <3>1 DEF OneRunPerPolicy
    <3> QED BY <1>5, <2>2, <2>5, <2>7, <3>2
  <2> QED BY <1>5, <1>6, <2>6, <2>7
<1> QED BY <1>7, <1>8 DEF SafeInv

\* Two safe rows of one parcel come from runs of two policies:
\* SafeTwiceOnlyAcrossPolicies, for all constants.
THEOREM SafeRowsAreOfDifferentPolicies == Spec => []SafeTwiceOnlyAcrossPolicies
<1>1. Init => ClockInv /\ SafeInv
  BY DEF Init, ClockInv, SafeInv, SafeTwiceOnlyAcrossPolicies, InHand, Retrieving,
         NoAppend, NoChange
<1>2. /\ TypeInv /\ OwnerInv /\ OneRunPerPolicy /\ PageFrames /\ ImportInv
      /\ ClockInv /\ SafeInv /\ [Next]_vars
      => SafeInv'
  <2> SUFFICES ASSUME TypeInv, OwnerInv, OneRunPerPolicy, PageFrames, ImportInv,
                      ClockInv, SafeInv, [Next]_vars
               PROVE  SafeInv'
    OBVIOUS
  <2>1. CASE UNCHANGED vars
    BY <2>1 DEF vars, SafeInv, SafeTwiceOnlyAcrossPolicies, InHand
  <2> QED BY <2>1, NextCases, SafeQuiet, SafeCommit
<1>3. SafeInv => SafeTwiceOnlyAcrossPolicies
  BY DEF SafeInv
<1> QED BY <1>1, <1>2, <1>3, ClockStep, SpecTypeInv, SpecOwnerInv, SpecPages,
           SpecImportInv, RunsOfAPolicyAreExclusive, PTL DEF Spec
=============================================================================
