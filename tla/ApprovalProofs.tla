--------------------------- MODULE ApprovalProofs ---------------------------
(***************************************************************************)
(* The safety properties of ApprovalQueue, proved for any number of        *)
(* workers, actions, actors and faults: what a status rests on, what the   *)
(* ledger says, and what may be missing from it.                           *)
(***************************************************************************)
EXTENDS ApprovalQueue, FiniteSetTheorems, SequenceTheorems, TLAPS

-----------------------------------------------------------------------------
(* The inductive invariant.                                                *)

\* What the caller of createApprovalRequest asks for.
CreateInput == [action : Actions, key : Keys, actor : Actors,
                requirement : Requirements]

FrameType == [input : Inputs, status : Statuses, approved : Nat,
              fact : Facts \cup {NoFact}, head : Nat]

\* Where decideApproval is, from its first read to its last write.
Deciding == {"decisions", "expire", "authority", "decide", "status"}

ApprovalsIn(D, a) == {d \in D : d.action = a /\ d.verdict = "APPROVED"}

\* The decision itself, as decideApproval counts it.
Own(d) == IF d.verdict = "APPROVED" THEN 1 ELSE 0

\* A worker at p with local variables f, where the tables are R (requests), D
\* (decisions) and L (lapsed).  What it has counted is never more than there
\* is: decisions are not removed, and its own is not among them before it is
\* inserted.
Frame(R, D, L, p, f) ==
  /\ p \in Locations
  /\ f \in FrameType
  /\ p \in {"lookup", "insert"} => f.input \in CreateInput
  /\ p \in Deciding => f.input \in Decision /\ R[f.input.action] # NoRequest
  /\ p \in {"head", "event"} => f.fact \in Facts
  /\ p \notin {"head", "event"} => f.fact = NoFact
  /\ p = "expire" => f.input.action \in L
  /\ p \in {"authority", "decide", "status"} => f.status = "PENDING"
  /\ p \in {"authority", "decide"}
       => f.approved <= Cardinality(ApprovalsIn(D, f.input.action))
  /\ p = "status"
       => /\ f.input \in D
          /\ f.approved + Own(f.input) <= Cardinality(ApprovalsIn(D, f.input.action))

Frames ==
  /\ pc \in [Workers -> Locations]
  /\ frame \in [Workers -> FrameType]
  /\ \A w \in Workers : Frame(requests, decisions, lapsed, pc[w], frame[w])

Tables ==
  /\ requests \in [Actions -> Request \cup {NoRequest}]
  /\ decisions \subseteq Decision
  /\ ledger \in Seq([previous : Nat, fact : Facts])
  /\ authorities \subseteq Actors
  /\ lapsed \subseteq Actions
  /\ faults \in 0..MaxFaults

\* UNIQUE (request_id, approver_actor_id) over finitely many decisions.
OneDecisionEach ==
  /\ IsFiniteSet(decisions)
  /\ \A d, e \in decisions : d.action = e.action /\ d.actor = e.actor => d = e

\* The unique index on organization and key.
KeysAreUnique ==
  \A a, b \in Actions :
    requests[a] # NoRequest /\ requests[b] # NoRequest
      /\ requests[a].key = requests[b].key => a = b

QueueInv == Tables /\ Frames /\ OneDecisionEach /\ KeysAreUnique /\ StatusHasACause

\* No row is removed, and no request changes its key or requirement.
TablesGrow ==
  /\ \A a \in Actions :
       requests[a] # NoRequest =>
         /\ requests'[a] # NoRequest
         /\ requests'[a].key = requests[a].key
         /\ requests'[a].requirement = requests[a].requirement
  /\ decisions \subseteq decisions'
  /\ IsFiniteSet(decisions')
  /\ lapsed \subseteq lapsed'

-----------------------------------------------------------------------------
(* Values and frames.                                                      *)

\* A request is not the absence of one.
LEMMA RequestIsSome == \A r \in Request : r # NoRequest
  BY DEF Request, NoRequest

\* The initial frame is of its type.
LEMMA EmptyFrame ==
  /\ NoFrame \in FrameType
  /\ NoFrame.fact = NoFact
  BY DEF NoFrame, FrameType, Inputs, NoInput, Statuses

\* A fact is not the absence of one.
LEMMA FactIsSome == NoFact \notin Facts
  BY DEF NoFact, Facts

\* Decisions that are added leave the approvals that were there.
LEMMA ApprovalsGrow ==
  ASSUME NEW D, NEW E, D \subseteq E, IsFiniteSet(E), NEW a
  PROVE  /\ Cardinality(ApprovalsIn(D, a)) \in Nat
         /\ Cardinality(ApprovalsIn(E, a)) \in Nat
         /\ Cardinality(ApprovalsIn(D, a)) <= Cardinality(ApprovalsIn(E, a))
<1>1. ApprovalsIn(D, a) \subseteq ApprovalsIn(E, a) /\ ApprovalsIn(E, a) \subseteq E
  BY DEF ApprovalsIn
<1>2. IsFiniteSet(ApprovalsIn(E, a))
  BY <1>1, FS_Subset
<1>3. /\ IsFiniteSet(ApprovalsIn(D, a))
      /\ Cardinality(ApprovalsIn(D, a)) <= Cardinality(ApprovalsIn(E, a))
  BY <1>1, <1>2, FS_Subset
<1> QED BY <1>2, <1>3, FS_CardinalityType

\* A frame stays in order while the tables grow.
LEMMA FrameIsStable ==
  ASSUME Tables, TablesGrow, NEW p, NEW f, Frame(requests, decisions, lapsed, p, f)
  PROVE  Frame(requests', decisions', lapsed', p, f)
<1>1. /\ Cardinality(ApprovalsIn(decisions, f.input.action)) \in Nat
      /\ Cardinality(ApprovalsIn(decisions', f.input.action)) \in Nat
      /\ Cardinality(ApprovalsIn(decisions, f.input.action))
           <= Cardinality(ApprovalsIn(decisions', f.input.action))
  BY ApprovalsGrow DEF TablesGrow
<1>2. f.approved \in Nat /\ Own(f.input) \in Nat
  BY DEF Frame, FrameType, Own
<1>3. p \in Deciding => requests'[f.input.action] # NoRequest
  BY DEF Frame, TablesGrow, Decision
<1>4. p = "expire" => f.input.action \in lapsed'
  BY DEF Frame, TablesGrow
<1>5. p = "status" => f.input \in decisions'
  BY DEF Frame, TablesGrow
<1> HIDE DEF TablesGrow, Tables
<1> QED BY <1>1, <1>2, <1>3, <1>4, <1>5 DEF Frame

\* A step changes the local variables of one worker; the others keep theirs.
LEMMA OneFrame ==
  ASSUME Tables, Frames, TablesGrow, NEW w \in Workers, NEW p, NEW f,
         Frame(requests', decisions', lapsed', p, f),
         pc' = [pc EXCEPT ![w] = p],
         frame' = [frame EXCEPT ![w] = f]
  PROVE  Frames'
<1>1. p \in Locations /\ f \in FrameType
  BY DEF Frame
<1>2. pc' \in [Workers -> Locations] /\ frame' \in [Workers -> FrameType]
  BY <1>1 DEF Frames
<1>3. \A u \in Workers : Frame(requests', decisions', lapsed', pc'[u], frame'[u])
  <2> TAKE u \in Workers
  <2>1. CASE u = w
    BY <2>1 DEF Frames
  <2>2. CASE u # w
    <3>1. pc'[u] = pc[u] /\ frame'[u] = frame[u]
      BY <2>2 DEF Frames
    <3>2. Frame(requests', decisions', lapsed', pc[u], frame[u])
      BY FrameIsStable DEF Frames
    <3> QED BY <3>1, <3>2
  <2> QED BY <2>1, <2>2
<1> QED BY <1>2, <1>3 DEF Frames

\* Leaving a variable alone is assigning it what it holds.
LEMMA Unchanged ==
  ASSUME Frames, NEW w \in Workers
  PROVE  /\ pc = [pc EXCEPT ![w] = pc[w]]
         /\ frame = [frame EXCEPT ![w] = frame[w]]
         /\ Frame(requests, decisions, lapsed, pc[w], frame[w])
  BY DEF Frames

\* Answering a request leaves an empty frame.
LEMMA ReturnFrames ==
  ASSUME Tables, Frames, TablesGrow, NEW w \in Workers, Return(w)
  PROVE  Frames'
<1>1. Frame(requests', decisions', lapsed', "idle", NoFrame)
  BY EmptyFrame DEF Frame, Locations, Deciding
<1> QED BY <1>1, OneFrame DEF Return, Go

\* Calling appendLedgerEvent leaves the event in the frame.
LEMMA CallFrames ==
  ASSUME Tables, Frames, TablesGrow, NEW w \in Workers, NEW fact \in Facts,
         CallAppend(w, fact)
  PROVE  Frames'
<1> DEFINE f == [NoFrame EXCEPT !.fact = fact]
<1>1. f \in FrameType /\ f.fact = fact
  BY EmptyFrame DEF FrameType, NoFrame
<1> HIDE DEF f
<1>2. Frame(requests', decisions', lapsed', "head", f)
  BY <1>1 DEF Frame, Locations, Deciding
<1> QED BY <1>2, OneFrame DEF CallAppend, Go, f

\* Moving on with the same local variables.
LEMMA GoFrames ==
  ASSUME Tables, Frames, TablesGrow, NEW w \in Workers, NEW l, Go(w, l), UNCHANGED frame,
         Frame(requests', decisions', lapsed', l, frame[w])
  PROVE  Frames'
  BY OneFrame, Unchanged DEF Go

-----------------------------------------------------------------------------
(* What a status rests on.                                                 *)

\* The status of request r of action a has its reason in D and L.
Caused(r, D, L, a) ==
  /\ r.status = "APPROVED"
       => Cardinality({d.actor : d \in ApprovalsIn(D, a)}) >= r.requirement.minimum
  /\ r.status = "REJECTED" => \E d \in D : d.action = a /\ d.verdict = "REJECTED"
  /\ r.status = "EXPIRED" => a \in L

\* StatusHasACause, by cases.
LEMMA CauseOfEach ==
  StatusHasACause <=>
    \A a \in Actions :
      requests[a] # NoRequest => Caused(requests[a], decisions, lapsed, a)
  BY DEF StatusHasACause, Caused, Approvals, ApprovalsIn

\* The same of the next state.
LEMMA CauseOfEachPrime ==
  StatusHasACause' <=>
    \A a \in Actions :
      requests'[a] # NoRequest => Caused(requests'[a], decisions', lapsed', a)
  BY DEF StatusHasACause, Caused, Approvals, ApprovalsIn

\* The approvers of finitely many decisions are finitely many.
LEMMA ApproversAreFinite ==
  ASSUME NEW D, IsFiniteSet(D), NEW a
  PROVE  LET A == {d.actor : d \in ApprovalsIn(D, a)}
         IN  IsFiniteSet(A) /\ Cardinality(A) \in Nat
<1> DEFINE S == ApprovalsIn(D, a)
           A == {d.actor : d \in S}
           f == [d \in S |-> d.actor]
<1>1. IsFiniteSet(S)
  BY FS_Subset DEF ApprovalsIn
<1>2. f \in Surjection(S, A)
  BY DEF Surjection
<1> HIDE DEF f, S
<1>3. IsFiniteSet(A)
  BY <1>1, <1>2, FS_Surjection
<1> QED BY <1>3, FS_CardinalityType DEF S

\* Where an approver decides once, the approvers are as many as the approvals.
LEMMA ApproversAreCounted ==
  ASSUME OneDecisionEach, NEW a \in Actions
  PROVE  Cardinality({d.actor : d \in ApprovalsIn(decisions, a)})
           = Cardinality(ApprovalsIn(decisions, a))
<1> DEFINE S == ApprovalsIn(decisions, a)
           A == {d.actor : d \in S}
           f == [d \in S |-> d.actor]
<1>1. IsFiniteSet(S)
  BY FS_Subset DEF ApprovalsIn, OneDecisionEach
<1>2. \A d, e \in S : d.actor = e.actor => d = e
  BY DEF ApprovalsIn, OneDecisionEach
<1>3. f \in Surjection(S, A)
  BY DEF Surjection
<1>4. f \in Injection(S, A)
  BY <1>2 DEF Injection, IsInjective
<1> HIDE DEF f, S
<1>5. Cardinality(A) = Cardinality(S)
  BY <1>1, <1>3, <1>4, FS_Surjection
<1> QED BY <1>5 DEF S

\* More decisions and more lapsed requests take no reason away.
LEMMA CauseIsStable ==
  ASSUME NEW r \in Request, NEW D, NEW E, NEW L, NEW M, NEW a \in Actions,
         D \subseteq E, IsFiniteSet(E), L \subseteq M, Caused(r, D, L, a)
  PROVE  Caused(r, E, M, a)
<1> DEFINE A == {d.actor : d \in ApprovalsIn(D, a)}
           B == {d.actor : d \in ApprovalsIn(E, a)}
<1>1. r.requirement.minimum \in Nat
  BY RequirementsAssumption DEF Request
<1>2. IsFiniteSet(B) /\ Cardinality(B) \in Nat
  BY ApproversAreFinite
<1>3. A \subseteq B
  BY DEF ApprovalsIn
<1>4. Cardinality(A) \in Nat /\ Cardinality(A) <= Cardinality(B)
  BY <1>2, <1>3, FS_Subset, FS_CardinalityType
<1>5. r.status = "APPROVED" => Cardinality(A) >= r.requirement.minimum
  BY DEF Caused
<1>6. r.status = "APPROVED" => Cardinality(B) >= r.requirement.minimum
  BY <1>1, <1>2, <1>4, <1>5
<1> QED BY <1>6 DEF Caused

\* A step that leaves the decisions and the requests but one keeps the others'
\* reasons.
LEMMA CausesKept ==
  ASSUME Tables, StatusHasACause, NEW a \in Actions, NEW r \in Request,
         decisions \subseteq decisions', IsFiniteSet(decisions'),
         lapsed \subseteq lapsed',
         requests' = [requests EXCEPT ![a] = r],
         Caused(r, decisions', lapsed', a)
  PROVE  StatusHasACause'
<1> SUFFICES ASSUME NEW b \in Actions, requests'[b] # NoRequest
             PROVE  Caused(requests'[b], decisions', lapsed', b)
  BY CauseOfEachPrime
<1>1. CASE b = a
  BY <1>1 DEF Tables
<1>2. CASE b # a
  <2>1. requests'[b] = requests[b] /\ requests[b] \in Request
    BY <1>2 DEF Tables
  <2>2. Caused(requests[b], decisions, lapsed, b)
    BY <2>1, CauseOfEach
  <2> QED BY <2>1, <2>2, CauseIsStable
<1> QED BY <1>1, <1>2

\* The reasons stay where no request changes.
LEMMA CausesStay ==
  ASSUME Tables, StatusHasACause, UNCHANGED requests,
         decisions \subseteq decisions', IsFiniteSet(decisions'),
         lapsed \subseteq lapsed'
  PROVE  StatusHasACause'
<1> SUFFICES ASSUME NEW b \in Actions, requests'[b] # NoRequest
             PROVE  Caused(requests'[b], decisions', lapsed', b)
  BY CauseOfEachPrime
<1>1. requests[b] \in Request /\ Caused(requests[b], decisions, lapsed, b)
  BY CauseOfEach DEF Tables
<1> QED BY <1>1, CauseIsStable

-----------------------------------------------------------------------------
(* Steps that leave requests and decisions alone.                          *)

\* What a step keeps that writes none of the three tables.
LEMMA QuietKeeps ==
  ASSUME QueueInv, UNCHANGED <<requests, decisions, lapsed>>
  PROVE  TablesGrow /\ OneDecisionEach' /\ KeysAreUnique' /\ StatusHasACause'
<1>1. StatusHasACause'
  BY CausesStay DEF QueueInv, OneDecisionEach
<1> QED BY <1>1 DEF QueueInv, TablesGrow, OneDecisionEach, KeysAreUnique

\* createApprovalRequest up to its insert.
LEMMA CreateInv ==
  ASSUME QueueInv, NEW w \in Workers, NEW a \in Actions, NEW k \in Keys,
         NEW actor \in Actors, NEW req \in Requirements, Create(w, a, k, actor, req)
  PROVE  QueueInv'
<1> DEFINE in == [action |-> a, key |-> k, actor |-> actor, requirement |-> req]
           f == [frame[w] EXCEPT !.input = in]
<1>1. UNCHANGED <<requests, decisions, ledger, authorities, lapsed, faults>>
  BY DEF Create, db
<1>2. in \in CreateInput
  BY DEF CreateInput
<1>3. frame[w] \in FrameType /\ frame[w].fact = NoFact
  BY DEF QueueInv, Frames, Frame, Create
<1> HIDE DEF in
<1>4. f \in FrameType /\ f.input = in /\ f.fact = NoFact
  BY <1>2, <1>3 DEF FrameType, Inputs, CreateInput
<1>5. frame' = [frame EXCEPT ![w] = f]
  BY DEF Create, in, QueueInv, Frames
<1> HIDE DEF f
<1>6. Frame(requests', decisions', lapsed', "lookup", f)
  BY <1>2, <1>4 DEF Frame, Locations, Deciding
<1>7. Frames'
  BY <1>1, <1>5, <1>6, QuietKeeps, OneFrame DEF Create, Go, QueueInv
<1> QED BY <1>1, <1>7, QuietKeeps DEF QueueInv, Tables

\* LookupKey goes on to the insert or answers.
LEMMA LookupInv ==
  ASSUME QueueInv, NEW w \in Workers, LookupKey(w)
  PROVE  QueueInv'
<1>1. UNCHANGED <<requests, decisions, ledger, authorities, lapsed, faults>>
  BY DEF LookupKey, db
<1>2. TablesGrow
  BY <1>1, QuietKeeps
<1>3. Frame(requests', decisions', lapsed', "insert", frame[w])
  BY <1>1 DEF QueueInv, Frames, Frame, LookupKey, Locations, Deciding
<1>4. Frames'
  BY <1>2, <1>3, GoFrames, ReturnFrames DEF LookupKey, QueueInv
<1> QED BY <1>1, <1>4, QuietKeeps DEF QueueInv, Tables

\* decideApproval reads a request that there is.
LEMMA DecideInv ==
  ASSUME QueueInv, NEW w \in Workers, NEW a \in Actions, NEW actor \in Actors,
         NEW verdict \in Verdicts, Decide(w, a, actor, verdict)
  PROVE  QueueInv'
<1> DEFINE in == [action |-> a, actor |-> actor, verdict |-> verdict]
           f == [[frame[w] EXCEPT !.input = in] EXCEPT !.status = requests[a].status]
<1>1. UNCHANGED <<requests, decisions, ledger, authorities, lapsed, faults>>
  BY DEF Decide, db
<1>2. in \in Decision /\ in.action = a
  BY DEF Decision
<1>3. frame[w] \in FrameType /\ frame[w].fact = NoFact
  BY DEF QueueInv, Frames, Frame, Decide
<1>4. requests[a] # NoRequest /\ requests[a].status \in Statuses
  BY DEF Decide, QueueInv, Tables, Request
<1> HIDE DEF in
<1>5. f \in FrameType /\ f.input = in /\ f.fact = NoFact
  BY <1>2, <1>3, <1>4 DEF FrameType, Inputs
<1>6. frame' = [frame EXCEPT ![w] = f]
  BY DEF Decide, in, QueueInv, Frames
<1> HIDE DEF f
<1>7. Frame(requests', decisions', lapsed', "decisions", f)
  BY <1>1, <1>2, <1>4, <1>5 DEF Frame, Locations, Deciding
<1>8. Frames'
  BY <1>1, <1>6, <1>7, QuietKeeps, OneFrame DEF Decide, Go, QueueInv
<1> QED BY <1>1, <1>8, QuietKeeps DEF QueueInv, Tables

\* ReadDecisions goes on to the check or the mark, or refuses.
LEMMA ReadDecisionsInv ==
  ASSUME QueueInv, NEW w \in Workers, ReadDecisions(w)
  PROVE  QueueInv'
<1> DEFINE a == frame[w].input.action
           n == Cardinality(Approvals(a))
           f == [frame[w] EXCEPT !.approved = n]
<1>1. UNCHANGED <<requests, decisions, ledger, authorities, lapsed, faults>>
  BY DEF ReadDecisions, db
<1>2. TablesGrow
  BY <1>1, QuietKeeps
<1>3. Frame(requests, decisions, lapsed, "decisions", frame[w])
  BY DEF QueueInv, Frames, ReadDecisions
<1>4. Return(w) => Frames'
  BY <1>2, ReturnFrames DEF QueueInv
<1>5. ASSUME a \in lapsed, Go(w, "expire"), UNCHANGED frame
      PROVE  Frames'
  <2>1. Frame(requests', decisions', lapsed', "expire", frame[w])
    BY <1>1, <1>3, <1>5 DEF Frame, Locations, Deciding
  <2> QED BY <1>2, <1>5, <2>1, GoFrames DEF QueueInv
<1>6. ASSUME frame[w].status = "PENDING", Go(w, "authority"),
             frame' = [frame EXCEPT ![w].approved = n]
      PROVE  Frames'
  <2>1. n \in Nat /\ n = Cardinality(ApprovalsIn(decisions, a))
    BY ApprovalsGrow DEF QueueInv, OneDecisionEach, Approvals, ApprovalsIn
  <2> HIDE DEF n
  <2>2. /\ f \in FrameType /\ f.input = frame[w].input /\ f.fact = frame[w].fact
        /\ f.status = frame[w].status /\ f.approved = n
    BY <1>3, <2>1 DEF Frame, FrameType
  <2>3. frame' = [frame EXCEPT ![w] = f]
    BY <1>6 DEF QueueInv, Frames
  <2> HIDE DEF f
  <2>4. Frame(requests', decisions', lapsed', "authority", f)
    BY <1>1, <1>3, <1>6, <2>1, <2>2 DEF Frame, Locations, Deciding
  <2> QED BY <1>2, <1>6, <2>3, <2>4, OneFrame DEF Go, QueueInv
<1>7. Frames'
  BY <1>4, <1>5, <1>6 DEF ReadDecisions, MayDecide
<1> QED BY <1>1, <1>7, QuietKeeps DEF QueueInv, Tables

\* CheckAuthority goes on to the insert or refuses.
LEMMA CheckAuthorityInv ==
  ASSUME QueueInv, NEW w \in Workers, CheckAuthority(w)
  PROVE  QueueInv'
<1>1. UNCHANGED <<requests, decisions, ledger, authorities, lapsed, faults>>
  BY DEF CheckAuthority, db
<1>2. TablesGrow
  BY <1>1, QuietKeeps
<1>3. Frame(requests', decisions', lapsed', "decide", frame[w])
  BY <1>1 DEF QueueInv, Frames, Frame, CheckAuthority, Locations, Deciding
<1>4. Frames'
  BY <1>2, <1>3, GoFrames, ReturnFrames DEF CheckAuthority, QueueInv
<1> QED BY <1>1, <1>4, QuietKeeps DEF QueueInv, Tables

\* appendLedgerEvent reads the head.
LEMMA ReadHeadInv ==
  ASSUME QueueInv, NEW w \in Workers, ReadHead(w)
  PROVE  QueueInv'
<1> DEFINE f == [frame[w] EXCEPT !.head = Len(ledger)]
<1>1. UNCHANGED <<requests, decisions, ledger, authorities, lapsed, faults>>
  BY DEF ReadHead, db
<1>2. Frame(requests, decisions, lapsed, "head", frame[w])
  BY DEF QueueInv, Frames, ReadHead
<1>3. Len(ledger) \in Nat
  BY LenProperties DEF QueueInv, Tables
<1>4. f \in FrameType /\ f.fact = frame[w].fact
  BY <1>2, <1>3 DEF Frame, FrameType
<1>5. frame' = [frame EXCEPT ![w] = f]
  BY DEF ReadHead, QueueInv, Frames
<1> HIDE DEF f
<1>6. Frame(requests', decisions', lapsed', "event", f)
  BY <1>2, <1>4 DEF Frame, Locations, Deciding
<1>7. Frames'
  BY <1>1, <1>5, <1>6, QuietKeeps, OneFrame DEF ReadHead, Go, QueueInv
<1> QED BY <1>1, <1>7, QuietKeeps DEF QueueInv, Tables

\* appendLedgerEvent inserts the event.
LEMMA AppendEventInv ==
  ASSUME QueueInv, NEW w \in Workers, AppendEvent(w)
  PROVE  QueueInv'
<1>1. UNCHANGED <<requests, decisions, authorities, lapsed, faults>>
  BY DEF AppendEvent
<1>2. frame[w].head \in Nat /\ frame[w].fact \in Facts
  BY DEF QueueInv, Frames, Frame, FrameType, AppendEvent
<1>3. ledger' \in Seq([previous : Nat, fact : Facts])
  BY <1>2, AppendProperties DEF AppendEvent, QueueInv, Tables
<1>4. Frames'
  BY <1>1, QuietKeeps, ReturnFrames DEF AppendEvent, QueueInv
<1> QED BY <1>1, <1>3, <1>4, QuietKeeps DEF QueueInv, Tables

\* A fault undoes nothing.
LEMMA CutShortInv ==
  ASSUME QueueInv, NEW w \in Workers, CutShort(w)
  PROVE  QueueInv'
<1>1. UNCHANGED <<requests, decisions, ledger, authorities, lapsed>>
  BY DEF CutShort, db
<1>2. Frames'
  BY <1>1, QuietKeeps, ReturnFrames DEF CutShort, QueueInv
<1>3. faults' \in 0..MaxFaults
  BY RequirementsAssumption DEF CutShort, QueueInv, Tables
<1> QED BY <1>1, <1>2, <1>3, QuietKeeps DEF QueueInv, Tables

\* The frames stay in order where the workers do nothing.
LEMMA FramesKept ==
  ASSUME Tables, Frames, TablesGrow, UNCHANGED <<pc, frame>>
  PROVE  Frames'
<1>1. \A u \in Workers : Frame(requests', decisions', lapsed', pc[u], frame[u])
  BY FrameIsStable DEF Frames
<1> QED BY <1>1 DEF Frames

\* Authorities and time change the environment only.
LEMMA EnvironmentInv ==
  ASSUME QueueInv,
         (\E actor \in Actors : ChangeAuthority(actor)) \/ (\E a \in Actions : Lapse(a))
  PROVE  QueueInv'
<1>1. /\ UNCHANGED <<requests, decisions, ledger, faults, pc, frame>>
      /\ lapsed \subseteq lapsed' /\ lapsed' \subseteq Actions
      /\ authorities' \subseteq Actors
  BY DEF ChangeAuthority, Lapse, db, QueueInv, Tables
<1>2. TablesGrow
  BY <1>1 DEF TablesGrow, QueueInv, OneDecisionEach
<1>3. StatusHasACause'
  BY <1>1, CausesStay DEF QueueInv, OneDecisionEach
<1>4. OneDecisionEach' /\ KeysAreUnique'
  BY <1>1 DEF QueueInv, OneDecisionEach, KeysAreUnique
<1>5. Frames'
  BY <1>1, <1>2, FramesKept DEF QueueInv
<1> QED BY <1>1, <1>3, <1>4, <1>5 DEF QueueInv, Tables

-----------------------------------------------------------------------------
(* Steps that write requests or decisions.                                 *)

\* What a step keeps that gives one request another status.
LEMMA StatusKeeps ==
  ASSUME QueueInv, NEW a \in Actions, requests[a] # NoRequest,
         NEW s \in Statuses \ {"none"},
         requests' = [requests EXCEPT ![a].status = s],
         UNCHANGED <<decisions, lapsed>>,
         Caused([requests[a] EXCEPT !.status = s], decisions, lapsed, a)
  PROVE  /\ requests' \in [Actions -> Request \cup {NoRequest}]
         /\ TablesGrow /\ OneDecisionEach' /\ KeysAreUnique' /\ StatusHasACause'
<1> DEFINE r == [requests[a] EXCEPT !.status = s]
<1>1. requests[a] \in Request
  BY DEF QueueInv, Tables
<1>2. r \in Request /\ r.key = requests[a].key /\ r.requirement = requests[a].requirement
  BY <1>1 DEF Request
<1>3. requests' = [requests EXCEPT ![a] = r]
  BY DEF QueueInv, Tables
<1>4. Caused(r, decisions', lapsed', a)
  OBVIOUS
<1> HIDE DEF r
<1>5. r # NoRequest
  BY <1>2, RequestIsSome
<1>6. TablesGrow
  BY <1>2, <1>3, <1>5 DEF TablesGrow, QueueInv, Tables, OneDecisionEach
<1>7. KeysAreUnique'
  BY <1>2, <1>3, <1>5 DEF QueueInv, Tables, KeysAreUnique
<1>8. StatusHasACause'
  BY <1>2, <1>3, <1>4, CausesKept DEF QueueInv, OneDecisionEach
<1> QED BY <1>2, <1>3, <1>6, <1>7, <1>8 DEF QueueInv, Tables, OneDecisionEach

\* A request is marked only after its time.
LEMMA MarkExpiredInv ==
  ASSUME QueueInv, NEW w \in Workers, MarkExpired(w)
  PROVE  QueueInv'
<1> DEFINE a == frame[w].input.action
           s == IF requests[a].status = "PENDING" THEN "EXPIRED" ELSE requests[a].status
           r == [requests[a] EXCEPT !.status = s]
<1>1. UNCHANGED <<decisions, ledger, authorities, lapsed, faults>>
  BY DEF MarkExpired
<1>2. a \in Actions /\ requests[a] # NoRequest /\ a \in lapsed
  BY DEF QueueInv, Frames, Frame, MarkExpired, Deciding, Decision
<1>3. requests[a] \in Request
  BY <1>2 DEF QueueInv, Tables
<1>4. s \in Statuses \ {"none"}
  BY <1>3 DEF Request, Statuses
<1>5. requests' = [requests EXCEPT ![a].status = s]
  BY DEF MarkExpired
<1>6. Caused(requests[a], decisions, lapsed, a)
  BY <1>2, CauseOfEach DEF QueueInv
<1>7. /\ r.status = s /\ r.requirement = requests[a].requirement
      /\ s = requests[a].status \/ s = "EXPIRED"
  BY <1>3 DEF Request
<1> HIDE DEF s
<1>8. Caused(r, decisions, lapsed, a)
  BY <1>2, <1>6, <1>7 DEF Caused
<1> HIDE DEF a
<1>9. /\ requests' \in [Actions -> Request \cup {NoRequest}]
      /\ TablesGrow /\ OneDecisionEach' /\ KeysAreUnique' /\ StatusHasACause'
  BY <1>1, <1>2, <1>4, <1>5, <1>8, StatusKeeps
<1>10. Frames'
  BY <1>9, ReturnFrames DEF MarkExpired, QueueInv
<1> QED BY <1>1, <1>9, <1>10 DEF QueueInv, Tables

\* The insert of a request finds neither its action nor its key.
LEMMA InsertRequestInv ==
  ASSUME QueueInv, NEW w \in Workers, InsertRequest(w)
  PROVE  QueueInv'
<1> DEFINE in == frame[w].input
           r == [status |-> "PENDING", key |-> in.key, requester |-> in.actor,
                 requirement |-> in.requirement]
           fact == [type |-> "APPROVAL_REQUESTED", action |-> in.action]
<1>1. UNCHANGED <<decisions, ledger, authorities, lapsed, faults>>
  BY DEF InsertRequest
<1>2. in \in CreateInput
  BY DEF QueueInv, Frames, Frame, InsertRequest
<1>3. CASE Return(w) /\ UNCHANGED requests
  <2>1. Frames'
    BY <1>1, <1>3, QuietKeeps, ReturnFrames DEF QueueInv
  <2> QED BY <1>1, <1>3, <2>1, QuietKeeps DEF QueueInv, Tables
<1>4. CASE /\ KeyIsFree(in.action, in.key)
           /\ requests' = [requests EXCEPT ![in.action] = r]
           /\ CallAppend(w, fact)
  <2>1. /\ r \in Request /\ r.status = "PENDING" /\ r.key = in.key
        /\ in.action \in Actions /\ fact \in Facts
    BY <1>2 DEF CreateInput, Request, Statuses, Facts
  <2> HIDE DEF r, fact
  <2>2. /\ requests[in.action] = NoRequest
        /\ \A b \in Actions : requests[b] # NoRequest => requests[b].key # in.key
    BY <1>4 DEF KeyIsFree, WithKey
  <2>3. r # NoRequest
    BY <2>1, RequestIsSome
  <2> HIDE DEF in
  <2>4. TablesGrow
    BY <1>1, <1>4, <2>1, <2>2, <2>3 DEF TablesGrow, QueueInv, Tables, OneDecisionEach
  <2>5. KeysAreUnique'
    BY <1>4, <2>1, <2>2, <2>3 DEF QueueInv, Tables, KeysAreUnique
  <2>6. Caused(r, decisions', lapsed', in.action)
    BY <2>1 DEF Caused
  <2>7. StatusHasACause'
    BY <1>1, <1>4, <2>1, <2>6, CausesKept DEF QueueInv, OneDecisionEach
  <2>8. Frames'
    BY <1>4, <2>1, <2>4, CallFrames DEF QueueInv
  <2> QED BY <1>1, <1>4, <2>1, <2>5, <2>7, <2>8 DEF QueueInv, Tables, OneDecisionEach
<1> QED BY <1>3, <1>4 DEF InsertRequest

\* The insert of a decision finds none of its approver, and is one approval
\* more than was counted if it is an approval.
LEMMA InsertDecisionInv ==
  ASSUME QueueInv, NEW w \in Workers, InsertDecision(w)
  PROVE  QueueInv'
<1> DEFINE in == frame[w].input
           a == in.action
<1>1. UNCHANGED <<requests, ledger, authorities, lapsed, faults>>
  BY DEF InsertDecision
<1>2. Frame(requests, decisions, lapsed, "decide", frame[w])
  BY DEF QueueInv, Frames, InsertDecision
<1>3. CASE Return(w) /\ UNCHANGED decisions
  <2>1. Frames'
    BY <1>1, <1>3, QuietKeeps, ReturnFrames DEF QueueInv
  <2> QED BY <1>1, <1>3, <2>1, QuietKeeps DEF QueueInv, Tables
<1>4. CASE /\ MayInsert(a, in.actor) /\ decisions' = decisions \cup {in}
           /\ Go(w, "status") /\ UNCHANGED frame
  <2>1. in \in Decision /\ requests[a] # NoRequest /\ frame[w].approved \in Nat
    BY <1>2 DEF Frame, FrameType, Deciding
  <2>2. in \notin decisions
    BY <1>4 DEF MayInsert
  <2>3. IsFiniteSet(decisions')
    BY <1>4, FS_AddElement DEF QueueInv, OneDecisionEach
  <2>4. OneDecisionEach'
    BY <1>4, <2>3 DEF QueueInv, OneDecisionEach, MayInsert
  <2>5. TablesGrow
    BY <1>1, <1>4, <2>3 DEF TablesGrow
  <2>6. StatusHasACause'
    BY <1>1, <1>4, <2>3, CausesStay DEF QueueInv
  <2>7. frame[w].approved + Own(in) <= Cardinality(ApprovalsIn(decisions', a))
    <3>1. /\ IsFiniteSet(ApprovalsIn(decisions, a))
          /\ Cardinality(ApprovalsIn(decisions, a)) \in Nat
          /\ Cardinality(ApprovalsIn(decisions', a)) \in Nat
      <4>1. decisions \subseteq decisions'
        BY <1>4
      <4>2. ApprovalsIn(decisions, a) \subseteq decisions
        BY DEF ApprovalsIn
      <4> QED BY <2>3, <4>1, <4>2, ApprovalsGrow, FS_Subset DEF QueueInv, OneDecisionEach
    <3>2. frame[w].approved <= Cardinality(ApprovalsIn(decisions, a))
      BY <1>2 DEF Frame
    <3>3. CASE in.verdict = "APPROVED"
      <4>1. ApprovalsIn(decisions', a) = ApprovalsIn(decisions, a) \cup {in}
        BY <1>4, <3>3 DEF ApprovalsIn
      <4>2. Cardinality(ApprovalsIn(decisions', a))
              = Cardinality(ApprovalsIn(decisions, a)) + 1
        BY <2>2, <3>1, <4>1, FS_AddElement DEF ApprovalsIn
      <4> QED BY <2>1, <3>1, <3>2, <3>3, <4>2 DEF Own
    <3>4. CASE in.verdict # "APPROVED"
      <4>1. ApprovalsIn(decisions', a) = ApprovalsIn(decisions, a)
        BY <1>4, <3>4 DEF ApprovalsIn
      <4> QED BY <2>1, <3>1, <3>2, <3>4, <4>1 DEF Own
    <3> QED BY <3>3, <3>4
  <2>8. Frame(requests', decisions', lapsed', "status", frame[w])
    BY <1>1, <1>2, <1>4, <2>1, <2>7 DEF Frame, Locations, Deciding
  <2>9. Frames'
    BY <1>4, <2>5, <2>8, GoFrames DEF QueueInv
  <2> QED BY <1>1, <1>4, <2>1, <2>4, <2>6, <2>9 DEF QueueInv, Tables, KeysAreUnique
<1> QED BY <1>3, <1>4 DEF InsertDecision

\* What decideApproval has counted, with the decision it has inserted, is no
\* more than there is, so a request it approves has its approvers.
LEMMA UpdateStatusInv ==
  ASSUME QueueInv, NEW w \in Workers, UpdateStatus(w)
  PROVE  QueueInv'
<1> DEFINE in == frame[w].input
           a == in.action
           n == frame[w].approved + Own(in)
           s == NextStatus(in.verdict, n, requests[a].requirement.minimum)
           r == [requests[a] EXCEPT !.status = s]
           fact == [type |-> "APPROVAL_DECIDED", decision |-> in]
<1>1. UNCHANGED <<decisions, ledger, authorities, lapsed, faults>>
  BY DEF UpdateStatus
<1>2. /\ in \in Decision /\ in \in decisions /\ requests[a] # NoRequest
      /\ frame[w].approved \in Nat /\ n <= Cardinality(ApprovalsIn(decisions, a))
  BY DEF QueueInv, Frames, Frame, FrameType, UpdateStatus, Deciding
<1>3. a \in Actions /\ in.verdict \in Verdicts /\ fact \in Facts
  BY <1>2 DEF Decision, Facts
<1>4. requests[a] \in Request /\ requests[a].requirement.minimum \in Nat
  BY <1>2, <1>3, RequirementsAssumption DEF QueueInv, Tables, Request
<1>5. s \in Statuses \ {"none"}
  BY DEF NextStatus, Statuses
<1>6. requests' = [requests EXCEPT ![a].status = s] /\ CallAppend(w, fact)
  BY DEF UpdateStatus, Own
<1>7. Caused(r, decisions, lapsed, a)
  <2>1. r.status = s /\ r.requirement = requests[a].requirement
    BY <1>4 DEF Request
  <2>2. s = "REJECTED" => in.verdict = "REJECTED"
    BY DEF NextStatus
  <2>3. s # "EXPIRED" /\ (s = "APPROVED" => n >= requests[a].requirement.minimum)
    BY DEF NextStatus
  <2>4. n \in Nat
    BY <1>2 DEF Own
  <2>5. /\ Cardinality(ApprovalsIn(decisions, a)) \in Nat
        /\ Cardinality({d.actor : d \in ApprovalsIn(decisions, a)})
             = Cardinality(ApprovalsIn(decisions, a))
    BY <1>3, ApproversAreCounted, ApprovalsGrow DEF QueueInv, OneDecisionEach
  <2> HIDE DEF s, n, r
  <2>6. s = "APPROVED"
          => Cardinality({d.actor : d \in ApprovalsIn(decisions, a)})
               >= requests[a].requirement.minimum
    BY <1>2, <1>4, <2>3, <2>4, <2>5
  <2> QED BY <1>2, <2>1, <2>2, <2>3, <2>6 DEF Caused
<1> HIDE DEF s, a, fact
<1>8. /\ requests' \in [Actions -> Request \cup {NoRequest}]
      /\ TablesGrow /\ OneDecisionEach' /\ KeysAreUnique' /\ StatusHasACause'
  BY <1>1, <1>2, <1>3, <1>5, <1>6, <1>7, StatusKeeps
<1>9. Frames'
  BY <1>3, <1>6, <1>8, CallFrames DEF QueueInv
<1> QED BY <1>1, <1>8, <1>9 DEF QueueInv, Tables

-----------------------------------------------------------------------------
(* The theorems about requests.                                            *)

\* The empty tables are in order.
LEMMA InitQueueInv ==
  ASSUME Init
  PROVE  QueueInv
<1>1. \A w \in Workers : Frame(requests, decisions, lapsed, pc[w], frame[w])
  BY EmptyFrame DEF Init, Frame, Locations, Deciding
<1>2. Frames
  BY <1>1, EmptyFrame DEF Frames, Init, Locations
<1>3. Tables
  BY RequirementsAssumption DEF Init, Tables
<1>4. OneDecisionEach
  BY FS_EmptySet DEF Init, OneDecisionEach
<1>5. KeysAreUnique /\ StatusHasACause
  BY DEF Init, KeysAreUnique, StatusHasACause
<1> QED BY <1>2, <1>3, <1>4, <1>5 DEF QueueInv

\* Every step of an invocation and of its environment keeps the tables in order.
LEMMA QueueInvIsInductive ==
  ASSUME QueueInv, [Next]_vars
  PROVE  QueueInv'
<1>1. ASSUME NEW w \in Workers, Step(w)
      PROVE  QueueInv'
  BY <1>1, LookupInv, InsertRequestInv, ReadDecisionsInv, MarkExpiredInv,
     CheckAuthorityInv, InsertDecisionInv, UpdateStatusInv, ReadHeadInv,
     AppendEventInv, CutShortInv DEF Step
<1>2. CASE UNCHANGED vars
  <2>1. Frames'
    BY <1>2 DEF vars, QueueInv, Frames
  <2>2. UNCHANGED <<requests, decisions, lapsed>>
    BY <1>2 DEF vars
  <2> QED BY <1>2, <2>1, <2>2, QuietKeeps DEF vars, QueueInv, Tables
<1> QED BY <1>1, <1>2, CreateInv, DecideInv, EnvironmentInv DEF Next

\* The tables are in order in every state (createApprovalRequest, decideApproval).
THEOREM QueueInvHolds == Spec => []QueueInv
<1>1. Init => QueueInv
  BY InitQueueInv
<1>2. QueueInv /\ [Next]_vars => QueueInv'
  BY QueueInvIsInductive
<1> QED BY <1>1, <1>2, PTL DEF Spec

\* Every variable keeps its type: in particular no status is written that the
\* readers of the queue do not know (nextStatus of decideApproval).
THEOREM QueueTypeIsCorrect == Spec => []TypeOK
<1>1. QueueInv => TypeOK
  BY DEF QueueInv, Tables, Frames, FrameType, TypeOK
<1> QED BY <1>1, QueueInvHolds, PTL

\* A settled request has its approvers, its rejection or its time behind it,
\* however the invocations of decideApproval interleave.
THEOREM EveryStatusHasACause == Spec => []StatusHasACause
<1>1. QueueInv => StatusHasACause
  BY DEF QueueInv
<1> QED BY <1>1, QueueInvHolds, PTL

\* One idempotency key names at most one request (createApprovalRequest).
THEOREM OneRequestForEachKey == Spec => []OneRequestPerKey
<1>1. ASSUME KeysAreUnique, NEW k \in Keys
      PROVE  Cardinality(WithKey(k)) <= 1
  <2>1. CASE WithKey(k) = {}
    BY <2>1, FS_EmptySet
  <2>2. CASE WithKey(k) # {}
    <3>1. PICK a \in WithKey(k) : TRUE
      BY <2>2
    <3>2. WithKey(k) = {a}
      BY <1>1, <3>1 DEF WithKey, KeysAreUnique
    <3> QED BY <3>2, FS_Singleton
  <2> QED BY <2>1, <2>2
<1>2. QueueInv => OneRequestPerKey
  BY <1>1 DEF QueueInv, OneRequestPerKey
<1> QED BY <1>2, QueueInvHolds, PTL

\* Only UpdateStatus takes a settled status away, for a decision that had read
\* the request as pending.
THEOREM SettledChangesInFlightOnly == Spec => SettledOnlyByDecisionsInFlight
<1> DEFINE Late(a) ==
             \E w \in Workers : /\ frame[w].input.action = a
                                /\ frame[w].status = "PENDING"
                                /\ pc[w] = "status" /\ pc'[w] = "head"
<1>1. ASSUME QueueInv, Next, NEW a \in Actions,
             requests[a].status \in {"APPROVED", "REJECTED", "EXPIRED"}
      PROVE  requests'[a].status = requests[a].status \/ Late(a)
  <2>1. requests[a] \in Request
    BY <1>1 DEF QueueInv, Tables, NoRequest
  <2>2. CASE UNCHANGED requests
    BY <2>2
  <2>3. ASSUME NEW w \in Workers, InsertRequest(w)
        PROVE  requests'[a].status = requests[a].status
    BY <1>1, <2>1, <2>3, RequestIsSome DEF InsertRequest, KeyIsFree, QueueInv, Tables
  <2>4. ASSUME NEW w \in Workers, MarkExpired(w)
        PROVE  requests'[a].status = requests[a].status
    <3>1. CASE frame[w].input.action = a
      BY <1>1, <2>1, <2>4, <3>1 DEF MarkExpired, QueueInv, Tables, Request
    <3>2. CASE frame[w].input.action # a
      BY <2>4, <3>2 DEF MarkExpired, QueueInv, Tables
    <3> QED BY <3>1, <3>2
  <2>5. ASSUME NEW w \in Workers, UpdateStatus(w)
        PROVE  requests'[a].status = requests[a].status \/ Late(a)
    <3>1. CASE frame[w].input.action = a
      <4>1. frame[w].status = "PENDING" /\ pc[w] = "status" /\ pc'[w] = "head"
        BY <1>1, <2>5 DEF UpdateStatus, CallAppend, Go, QueueInv, Frames, Frame
      <4> QED BY <3>1, <4>1
    <3>2. CASE frame[w].input.action # a
      BY <1>1, <2>5, <3>2 DEF UpdateStatus, QueueInv, Tables
    <3> QED BY <3>1, <3>2
  <2>6. ASSUME NEW w \in Workers,
               \/ LookupKey(w) \/ ReadDecisions(w) \/ CheckAuthority(w)
               \/ InsertDecision(w) \/ ReadHead(w) \/ AppendEvent(w) \/ CutShort(w)
        PROVE  UNCHANGED requests
    BY <2>6 DEF LookupKey, ReadDecisions, CheckAuthority, InsertDecision, ReadHead,
                AppendEvent, CutShort, db
  <2>7. ASSUME NEW w \in Workers, Step(w)
        PROVE  requests'[a].status = requests[a].status \/ Late(a)
    BY <2>3, <2>4, <2>5, <2>6, <2>7 DEF Step
  <2>8. \/ UNCHANGED requests \/ \E w \in Workers : Step(w)
    BY <1>1 DEF Next, Create, Decide, ChangeAuthority, Lapse, db
  <2> QED BY <2>2, <2>7, <2>8
<1> DEFINE Kept ==
             \A a \in Actions :
               requests[a].status \in {"APPROVED", "REJECTED", "EXPIRED"}
                 => \/ requests'[a].status = requests[a].status
                    \/ \E w \in Workers : /\ frame[w].input.action = a
                                          /\ frame[w].status = "PENDING"
                                          /\ pc[w] = "status" /\ pc'[w] = "head"
<1>2. QueueInv /\ [Next]_vars => [Kept]_vars
  BY <1>1
<1> QED BY <1>2, QueueInvHolds, PTL DEF Spec, SettledOnlyByDecisionsInFlight

-----------------------------------------------------------------------------
(* What a step does to the ledger.                                         *)

\* From its insert to the end of appendLedgerEvent an invocation carries the
\* event of what it has inserted.
Carrying == {"status", "head", "event"}

EventOf(p, f) ==
  IF p = "status" THEN [type |-> "APPROVAL_DECIDED", decision |-> f.input] ELSE f.fact

Recorded == {ledger[n].fact : n \in DOMAIN ledger}

\* Worker w and nobody else moves; what has happened, the ledger and the
\* faults change in one of five ways.
Others(w) == \A u \in Workers \ {w} : pc'[u] = pc[u] /\ frame'[u] = frame[u]

Idles(w) ==
  /\ pc[w] \notin Carrying /\ pc'[w] \notin Carrying
  /\ Happened' = Happened /\ UNCHANGED <<ledger, faults>>

Begins(w) ==
  /\ pc[w] \notin Carrying /\ pc'[w] \in {"status", "head"}
  /\ EventOf(pc'[w], frame'[w]) \notin Happened
  /\ Happened' = Happened \cup {EventOf(pc'[w], frame'[w])}
  /\ UNCHANGED <<ledger, faults>>

Carries(w) ==
  /\ pc[w] \in Carrying /\ pc'[w] \in Carrying
  /\ EventOf(pc'[w], frame'[w]) = EventOf(pc[w], frame[w])
  /\ pc'[w] = "event" => frame'[w].head = Len(ledger)
  /\ Happened' = Happened /\ UNCHANGED <<ledger, faults>>

Records(w) ==
  /\ pc[w] = "event" /\ pc'[w] = "idle"
  /\ ledger' = Append(ledger, [previous |-> frame[w].head, fact |-> frame[w].fact])
  /\ Happened' = Happened /\ UNCHANGED faults

Drops(w) ==
  /\ pc'[w] = "idle"
  /\ faults' = faults + 1
  /\ Happened' = Happened /\ UNCHANGED ledger

\* Marking or deciding a request does not make it another event.
LEMMA HappenedStays ==
  ASSUME Tables, NEW a \in Actions, requests[a] # NoRequest, NEW s \in Statuses \ {"none"},
         requests' = [requests EXCEPT ![a].status = s], UNCHANGED decisions
  PROVE  Happened' = Happened
<1>1. requests[a] \in Request
  BY DEF Tables
<1>2. [requests[a] EXCEPT !.status = s] \in Request
  BY <1>1 DEF Request
<1>3. requests'[a] = [requests[a] EXCEPT !.status = s]
  BY DEF Tables
<1>4. \A b \in Actions : requests'[b] = NoRequest <=> requests[b] = NoRequest
  BY <1>1, <1>2, <1>3, RequestIsSome DEF Tables
<1> QED BY <1>4 DEF Happened

\* The steps of createApprovalRequest.
LEMMA CreateEffects ==
  ASSUME QueueInv, NEW w \in Workers,
         \/ \E a \in Actions, k \in Keys, actor \in Actors, req \in Requirements :
              Create(w, a, k, actor, req)
         \/ LookupKey(w) \/ InsertRequest(w)
  PROVE  Others(w) /\ (Idles(w) \/ Begins(w))
<1>1. Others(w)
  BY DEF Others, Create, LookupKey, InsertRequest, Go, Return, CallAppend, QueueInv, Frames
<1>2. ASSUME \/ \E a \in Actions, k \in Keys, actor \in Actors, req \in Requirements :
                  Create(w, a, k, actor, req)
             \/ LookupKey(w)
      PROVE  Idles(w)
  <2>1. UNCHANGED <<requests, decisions, ledger, faults>>
    BY <1>2 DEF Create, LookupKey, db
  <2>2. pc[w] \notin Carrying /\ pc'[w] \notin Carrying
    BY <1>2 DEF Create, LookupKey, Go, Return, Carrying, QueueInv, Frames
  <2> QED BY <2>1, <2>2 DEF Idles, Happened
<1>3. ASSUME InsertRequest(w)
      PROVE  Idles(w) \/ Begins(w)
  <2> DEFINE in == frame[w].input
             fact == [type |-> "APPROVAL_REQUESTED", action |-> in.action]
  <2>1. UNCHANGED <<decisions, ledger, faults>> /\ pc[w] = "insert"
    BY <1>3 DEF InsertRequest
  <2>2. in \in CreateInput
    BY <1>3 DEF QueueInv, Frames, Frame, InsertRequest
  <2>3. CASE Return(w) /\ UNCHANGED requests
    BY <2>1, <2>3 DEF Idles, Return, Go, Carrying, QueueInv, Frames, Happened
  <2>4. ASSUME KeyIsFree(in.action, in.key), CallAppend(w, fact),
               requests' = [requests EXCEPT ![in.action] =
                 [status |-> "PENDING", key |-> in.key, requester |-> in.actor,
                  requirement |-> in.requirement]]
        PROVE  Begins(w)
    <3>1. in.action \in Actions /\ requests[in.action] = NoRequest
      BY <2>2, <2>4 DEF CreateInput, KeyIsFree
    <3>2. pc'[w] = "head" /\ frame'[w].fact = fact
      BY <2>4, EmptyFrame DEF CallAppend, Go, QueueInv, Frames, FrameType
    <3>3. requests'[in.action] # NoRequest
      BY <2>4, <3>1 DEF QueueInv, Tables, NoRequest
    <3>4. \A b \in Actions :
            requests'[b] # NoRequest <=> b = in.action \/ requests[b] # NoRequest
      BY <2>4, <3>1, <3>3 DEF QueueInv, Tables
    <3>5. Happened' = Happened \cup {fact}
      BY <2>1, <3>1, <3>4 DEF Happened
    <3>6. fact \notin Happened
      BY <3>1 DEF Happened
    <3> QED BY <2>1, <3>2, <3>5, <3>6 DEF Begins, EventOf, Carrying
  <2> QED BY <1>3, <2>3, <2>4 DEF InsertRequest
<1> QED BY <1>1, <1>2, <1>3

\* The steps of decideApproval.
LEMMA DecideEffects ==
  ASSUME QueueInv, NEW w \in Workers,
         \/ \E a \in Actions, actor \in Actors, verdict \in Verdicts :
              Decide(w, a, actor, verdict)
         \/ ReadDecisions(w) \/ MarkExpired(w) \/ CheckAuthority(w)
         \/ InsertDecision(w) \/ UpdateStatus(w)
  PROVE  Others(w) /\ (Idles(w) \/ Begins(w) \/ Carries(w))
<1> DEFINE in == frame[w].input
           fact == [type |-> "APPROVAL_DECIDED", decision |-> in]
<1>1. Others(w)
  BY DEF Others, Decide, ReadDecisions, MarkExpired, CheckAuthority, InsertDecision,
         UpdateStatus, Go, Return, CallAppend, QueueInv, Frames
<1>2. ASSUME \/ \E a \in Actions, actor \in Actors, verdict \in Verdicts :
                  Decide(w, a, actor, verdict)
             \/ ReadDecisions(w) \/ CheckAuthority(w)
      PROVE  Idles(w)
  <2>1. UNCHANGED <<requests, decisions, ledger, faults>>
    BY <1>2 DEF Decide, ReadDecisions, CheckAuthority, db
  <2>2. pc[w] \notin Carrying /\ pc'[w] \notin Carrying
    BY <1>2 DEF Decide, ReadDecisions, CheckAuthority, Go, Return, Carrying, QueueInv, Frames
  <2> QED BY <2>1, <2>2 DEF Idles, Happened
<1>3. ASSUME MarkExpired(w)
      PROVE  Idles(w)
  <2> DEFINE s == IF requests[in.action].status = "PENDING" THEN "EXPIRED"
                  ELSE requests[in.action].status
  <2>1. in.action \in Actions /\ requests[in.action] # NoRequest
    BY <1>3 DEF QueueInv, Frames, Frame, MarkExpired, Deciding, Decision
  <2>2. s \in Statuses \ {"none"}
    BY <2>1 DEF QueueInv, Tables, Request, Statuses
  <2>3. requests' = [requests EXCEPT ![in.action].status = s] /\ UNCHANGED decisions
    BY <1>3 DEF MarkExpired
  <2> HIDE DEF s
  <2>4. Happened' = Happened
    BY <2>1, <2>2, <2>3, HappenedStays DEF QueueInv
  <2> QED BY <1>3, <2>4 DEF Idles, MarkExpired, Return, Go, Carrying, QueueInv, Frames
<1>4. ASSUME InsertDecision(w)
      PROVE  Idles(w) \/ Begins(w)
  <2>1. UNCHANGED <<requests, ledger, faults>> /\ pc[w] = "decide"
    BY <1>4 DEF InsertDecision
  <2>2. CASE Return(w) /\ UNCHANGED decisions
    BY <2>1, <2>2 DEF Idles, Return, Go, Carrying, QueueInv, Frames, Happened
  <2>3. CASE /\ MayInsert(in.action, in.actor) /\ decisions' = decisions \cup {in}
             /\ Go(w, "status") /\ UNCHANGED frame
    <3>1. in \notin decisions
      BY <2>3 DEF MayInsert
    <3>2. fact \notin Happened
      BY <3>1 DEF Happened
    <3>3. Happened' = Happened \cup {fact}
      BY <2>1, <2>3 DEF Happened
    <3> QED BY <2>1, <2>3, <3>2, <3>3 DEF Begins, EventOf, Carrying, Go, QueueInv, Frames
  <2> QED BY <1>4, <2>2, <2>3 DEF InsertDecision
<1>5. ASSUME UpdateStatus(w)
      PROVE  Carries(w)
  <2> DEFINE n == frame[w].approved + Own(in)
             s == NextStatus(in.verdict, n, requests[in.action].requirement.minimum)
  <2>1. in.action \in Actions /\ requests[in.action] # NoRequest
    BY <1>5 DEF QueueInv, Frames, Frame, UpdateStatus, Deciding, Decision
  <2>2. s \in Statuses \ {"none"}
    BY DEF NextStatus, Statuses
  <2>3. /\ requests' = [requests EXCEPT ![in.action].status = s]
        /\ UNCHANGED <<decisions, ledger, faults>>
        /\ pc[w] = "status" /\ CallAppend(w, fact)
    BY <1>5 DEF UpdateStatus, Own
  <2> HIDE DEF s
  <2>4. Happened' = Happened
    BY <2>1, <2>2, <2>3, HappenedStays DEF QueueInv
  <2>5. pc'[w] = "head" /\ frame'[w].fact = fact
    BY <2>3, EmptyFrame DEF CallAppend, Go, QueueInv, Frames, FrameType
  <2> QED BY <2>3, <2>4, <2>5 DEF Carries, EventOf, Carrying
<1> QED BY <1>1, <1>2, <1>3, <1>4, <1>5

\* The steps of appendLedgerEvent, and a fault in any of the three.
LEMMA AppendEffects ==
  ASSUME QueueInv, NEW w \in Workers, ReadHead(w) \/ AppendEvent(w) \/ CutShort(w)
  PROVE  Others(w) /\ (Carries(w) \/ Records(w) \/ Drops(w))
<1>1. Others(w)
  BY DEF Others, ReadHead, AppendEvent, CutShort, Go, Return, QueueInv, Frames
<1>2. UNCHANGED <<requests, decisions>> /\ Happened' = Happened
  BY DEF ReadHead, AppendEvent, CutShort, db, Happened
<1>3. ASSUME ReadHead(w)
      PROVE  Carries(w)
  <2>1. pc[w] = "head" /\ pc'[w] = "event" /\ UNCHANGED <<ledger, faults>>
    BY <1>3 DEF ReadHead, Go, db, QueueInv, Frames
  <2>2. frame'[w].fact = frame[w].fact /\ frame'[w].head = Len(ledger)
    BY <1>3 DEF ReadHead, QueueInv, Frames, FrameType
  <2> QED BY <1>2, <2>1, <2>2 DEF Carries, Carrying, EventOf
<1>4. AppendEvent(w) => Records(w)
  BY <1>2 DEF AppendEvent, Records, Return, Go, QueueInv, Frames
<1>5. CutShort(w) => Drops(w)
  BY <1>2 DEF CutShort, Drops, Return, Go, db, QueueInv, Frames
<1> QED BY <1>1, <1>3, <1>4, <1>5

\* Every step is one of the five of one worker, or leaves workers and ledger be.
LEMMA Effects ==
  ASSUME QueueInv, [Next]_vars
  PROVE  \/ \E w \in Workers :
              Others(w) /\ (Idles(w) \/ Begins(w) \/ Carries(w) \/ Records(w) \/ Drops(w))
         \/ Happened' = Happened /\ UNCHANGED <<ledger, faults, pc, frame>>
<1>1. ASSUME UNCHANGED vars \/ (\E actor \in Actors : ChangeAuthority(actor))
                            \/ (\E a \in Actions : Lapse(a))
      PROVE  Happened' = Happened /\ UNCHANGED <<ledger, faults, pc, frame>>
  BY <1>1 DEF vars, ChangeAuthority, Lapse, db, Happened
<1> QED BY <1>1, CreateEffects, DecideEffects, AppendEffects DEF Next, Step

-----------------------------------------------------------------------------
(* The ledger.                                                             *)

\* Nothing is recorded or carried twice, and what is carried or recorded has
\* happened; a head that was read is in the ledger.
LedgerInv ==
  /\ \A w \in Workers :
       pc[w] \in Carrying =>
         /\ EventOf(pc[w], frame[w]) \in Happened
         /\ \A n \in DOMAIN ledger : ledger[n].fact # EventOf(pc[w], frame[w])
         /\ \A u \in Workers :
              pc[u] \in Carrying /\ EventOf(pc[u], frame[u]) = EventOf(pc[w], frame[w])
                => u = w
         /\ pc[w] = "event" => frame[w].head <= Len(ledger)
  /\ LedgerIsTrue

\* The new last row of the ledger.
LEMMA LedgerAppended ==
  ASSUME Tables, NEW row \in [previous : Nat, fact : Facts], ledger' = Append(ledger, row)
  PROVE  /\ Len(ledger) \in Nat /\ DOMAIN ledger = 1..Len(ledger)
         /\ DOMAIN ledger' = 1..(Len(ledger) + 1)
         /\ \A n \in DOMAIN ledger : ledger'[n] = ledger[n]
         /\ ledger'[Len(ledger) + 1] = row
<1> DEFINE Row == [previous : Nat, fact : Facts]
<1>1. ledger \in Seq(Row)
  BY DEF Tables
<1> HIDE DEF Row
<1>2. row \in Row
  BY DEF Row
<1> QED BY <1>1, <1>2, LenProperties, AppendProperties

\* An event that is recorded was carried by one worker alone, and its row
\* links to an earlier one.
LEMMA RecordsInv ==
  ASSUME QueueInv, LedgerInv, NEW w \in Workers, Others(w), Records(w)
  PROVE  LedgerInv'
<1> DEFINE row == [previous |-> frame[w].head, fact |-> frame[w].fact]
           last == Len(ledger) + 1
<1>1. /\ frame[w].head \in Nat /\ frame[w].fact \in Facts
      /\ pc[w] \in Carrying /\ EventOf(pc[w], frame[w]) = frame[w].fact
  BY DEF QueueInv, Frames, Frame, FrameType, Records, Carrying, EventOf
<1>2. row \in [previous : Nat, fact : Facts]
  BY <1>1
<1>3. row.previous = frame[w].head /\ row.fact = frame[w].fact
  OBVIOUS
<1>4. ledger' = Append(ledger, row)
  BY DEF Records
<1> HIDE DEF row
<1>5. /\ Len(ledger) \in Nat /\ DOMAIN ledger = 1..Len(ledger)
      /\ DOMAIN ledger' = 1..last
      /\ \A n \in DOMAIN ledger : ledger'[n] = ledger[n]
      /\ ledger'[last] = row
  BY <1>2, <1>4, LedgerAppended DEF QueueInv
<1>6. \A n \in DOMAIN ledger' : n = last \/ (n \in DOMAIN ledger /\ ledger'[n] = ledger[n])
  BY <1>5
<1>7. /\ frame[w].fact \in Happened /\ frame[w].head <= Len(ledger)
      /\ \A n \in DOMAIN ledger : ledger[n].fact # frame[w].fact
      /\ \A u \in Workers \ {w} :
           pc[u] \in Carrying => EventOf(pc[u], frame[u]) # frame[w].fact
  BY <1>1 DEF LedgerInv, Records
<1>8. LedgerIsTrue'
  <2>1. ASSUME NEW n \in DOMAIN ledger'
        PROVE  ledger'[n].fact \in Happened' /\ ledger'[n].previous < n
    <3>1. CASE n = last
      BY <1>1, <1>3, <1>5, <1>7, <3>1 DEF Records
    <3>2. CASE n \in DOMAIN ledger /\ ledger'[n] = ledger[n]
      BY <3>2 DEF LedgerInv, LedgerIsTrue, Records
    <3> QED BY <1>6, <3>1, <3>2
  <2>2. ASSUME NEW n \in DOMAIN ledger', NEW m \in DOMAIN ledger',
               ledger'[m].fact = ledger'[n].fact
        PROVE  m = n
    BY <1>3, <1>5, <1>6, <1>7, <2>2 DEF LedgerInv, LedgerIsTrue
  <2> QED BY <2>1, <2>2 DEF LedgerIsTrue
<1>9. ASSUME NEW u \in Workers, pc'[u] \in Carrying
      PROVE  /\ u # w /\ pc'[u] = pc[u] /\ frame'[u] = frame[u]
             /\ pc[u] \in Carrying
  BY <1>9 DEF Records, Others, Carrying
<1>10. ASSUME NEW u \in Workers, pc'[u] \in Carrying
       PROVE  /\ EventOf(pc[u], frame[u]) \in Happened'
              /\ \A n \in DOMAIN ledger' : ledger'[n].fact # EventOf(pc[u], frame[u])
              /\ pc[u] = "event" => frame[u].head <= Len(ledger')
  <2>1. EventOf(pc[u], frame[u]) \in Happened'
    BY <1>9, <1>10 DEF LedgerInv, Records
  <2>2. \A n \in DOMAIN ledger' : ledger'[n].fact # EventOf(pc[u], frame[u])
    BY <1>3, <1>5, <1>6, <1>7, <1>9, <1>10 DEF LedgerInv
  <2>3. Len(ledger') = last
    <3>1. row \in [previous : Nat, fact : Facts] /\ ledger \in Seq([previous : Nat, fact : Facts])
      BY <1>2 DEF QueueInv, Tables
    <3> QED BY <1>4, <3>1, AppendProperties
  <2>4. pc[u] = "event" => frame[u].head \in Nat /\ frame[u].head <= Len(ledger)
    BY <1>9, <1>10 DEF LedgerInv, QueueInv, Frames, FrameType
  <2> QED BY <1>5, <2>1, <2>2, <2>3, <2>4
<1>11. ASSUME NEW u \in Workers, NEW v \in Workers,
              pc'[u] \in Carrying, pc'[v] \in Carrying,
              EventOf(pc'[u], frame'[u]) = EventOf(pc'[v], frame'[v])
       PROVE  u = v
  BY <1>9, <1>11 DEF LedgerInv
<1> QED BY <1>8, <1>9, <1>10, <1>11 DEF LedgerInv

\* An event begins once: it is new, so nobody carries it and no row has it.
LEMMA CarryingInv ==
  ASSUME QueueInv, LedgerInv, NEW w \in Workers, Others(w),
         Idles(w) \/ Begins(w) \/ Carries(w) \/ Drops(w)
  PROVE  LedgerInv'
<1>1. UNCHANGED ledger /\ Happened \subseteq Happened' /\ Len(ledger) \in Nat
  BY LenProperties DEF Idles, Begins, Carries, Drops, QueueInv, Tables
<1>2. ASSUME NEW u \in Workers, u # w
      PROVE  pc'[u] = pc[u] /\ frame'[u] = frame[u]
  BY <1>2 DEF Others
<1>3. ASSUME pc'[w] \in Carrying
      PROVE  /\ EventOf(pc'[w], frame'[w]) \in Happened'
             /\ \A n \in DOMAIN ledger : ledger[n].fact # EventOf(pc'[w], frame'[w])
             /\ \A u \in Workers \ {w} :
                  pc[u] \in Carrying => EventOf(pc[u], frame[u]) # EventOf(pc'[w], frame'[w])
             /\ pc'[w] = "event" => frame'[w].head <= Len(ledger)
  <2>1. CASE Begins(w)
    BY <2>1 DEF Begins, LedgerInv, LedgerIsTrue
  <2>2. CASE Carries(w)
    BY <1>1, <2>2 DEF Carries, LedgerInv
  <2> QED BY <1>3, <2>1, <2>2 DEF Idles, Drops, Carrying
<1>4. LedgerIsTrue'
  BY <1>1 DEF LedgerInv, LedgerIsTrue
<1>5. ASSUME NEW u \in Workers, pc'[u] \in Carrying
      PROVE  /\ EventOf(pc'[u], frame'[u]) \in Happened'
             /\ \A n \in DOMAIN ledger : ledger[n].fact # EventOf(pc'[u], frame'[u])
             /\ pc'[u] = "event" => frame'[u].head <= Len(ledger)
  <2>1. CASE u = w
    BY <1>3, <1>5, <2>1
  <2>2. CASE u # w
    BY <1>1, <1>2, <1>5, <2>2 DEF LedgerInv
  <2> QED BY <2>1, <2>2
<1>6. ASSUME NEW u \in Workers, NEW v \in Workers,
             pc'[u] \in Carrying, pc'[v] \in Carrying,
             EventOf(pc'[u], frame'[u]) = EventOf(pc'[v], frame'[v])
      PROVE  u = v
  <2>1. CASE u # w /\ v # w
    BY <1>2, <1>6, <2>1 DEF LedgerInv
  <2>2. CASE u = w \/ v = w
    BY <1>2, <1>3, <1>6, <2>2
  <2> QED BY <2>1, <2>2
<1> QED BY <1>1, <1>4, <1>5, <1>6 DEF LedgerInv

\* The ledger is true in every state: no event is recorded that did not happen,
\* none twice, and every row links to an earlier one (appendLedgerEvent).
THEOREM LedgerRecordsWhatHappened == Spec => []LedgerIsTrue
<1>1. Init => LedgerInv
  BY DEF Init, LedgerInv, LedgerIsTrue, Carrying
<1>2. ASSUME QueueInv, LedgerInv, [Next]_vars
      PROVE  LedgerInv'
  <2>1. CASE Happened' = Happened /\ UNCHANGED <<ledger, faults, pc, frame>>
    BY <1>2, <2>1 DEF LedgerInv, LedgerIsTrue
  <2> QED BY <1>2, <2>1, Effects, RecordsInv, CarryingInv
<1>3. LedgerInv => LedgerIsTrue
  BY DEF LedgerInv
<1> QED BY <1>1, <1>2, <1>3, QueueInvHolds, PTL DEF Spec

-----------------------------------------------------------------------------
(* What is missing from the ledger.                                        *)

Missing == Happened \ (Recorded \cup InFlight)

MissingInv == IsFiniteSet(Missing) /\ Cardinality(Missing) \in 0..faults

\* What is in flight is what the workers carry.
LEMMA InFlightIsCarried ==
  ASSUME Frames
  PROVE  \A x : x # NoFact =>
           (x \in InFlight
              <=> \E w \in Workers : pc[w] \in Carrying /\ x = EventOf(pc[w], frame[w]))
<1>1. \A w \in Workers : pc[w] \notin {"head", "event"} => frame[w].fact = NoFact
  BY DEF Frames, Frame
<1> QED BY <1>1 DEF InFlight, Carrying, EventOf

\* The same of the next state.
LEMMA InFlightIsCarriedPrime ==
  ASSUME Frames'
  PROVE  \A x : x # NoFact =>
           (x \in InFlight'
              <=> \E w \in Workers : pc'[w] \in Carrying /\ x = EventOf(pc'[w], frame'[w]))
<1>1. \A w \in Workers : pc'[w] \notin {"head", "event"} => frame'[w].fact = NoFact
  BY DEF Frames, Frame
<1> QED BY <1>1 DEF InFlight, Carrying, EventOf

\* No fact is what happened.
LEMMA HappenedIsSome == NoFact \notin Happened
  BY DEF Happened, NoFact

\* An invocation that is not cut short loses nothing: what it adds it carries,
\* and what it carries no longer is in the ledger.
LEMMA NothingIsLost ==
  ASSUME QueueInv, QueueInv', NEW w \in Workers, Others(w),
         Idles(w) \/ Begins(w) \/ Carries(w) \/ Records(w)
  PROVE  Missing' \subseteq Missing
<1> SUFFICES ASSUME NEW x \in Missing'
             PROVE  x \in Missing
  OBVIOUS
<1>1. x \in Happened' /\ x \notin Recorded' /\ x \notin InFlight' /\ x # NoFact
  BY HappenedIsSome DEF Missing, Happened, NoFact
<1>2. \A u \in Workers : pc'[u] \in Carrying => x # EventOf(pc'[u], frame'[u])
  BY <1>1, InFlightIsCarriedPrime DEF QueueInv
<1>3. x \in Happened
  BY <1>1, <1>2 DEF Idles, Begins, Carries, Records, Carrying
<1>4. Recorded \subseteq Recorded' /\ (Records(w) => frame[w].fact \in Recorded')
  <2>1. CASE UNCHANGED ledger
    BY <2>1 DEF Recorded, Records, Idles, Begins, Carries
  <2>2. CASE Records(w)
    <3> DEFINE row == [previous |-> frame[w].head, fact |-> frame[w].fact]
    <3>1. row \in [previous : Nat, fact : Facts] /\ row.fact = frame[w].fact
      BY <2>2 DEF QueueInv, Frames, Frame, FrameType, Records
    <3>2. ledger' = Append(ledger, row)
      BY <2>2 DEF Records
    <3> HIDE DEF row
    <3>3. /\ Len(ledger) \in Nat /\ DOMAIN ledger = 1..Len(ledger)
          /\ DOMAIN ledger' = 1..(Len(ledger) + 1)
          /\ \A n \in DOMAIN ledger : ledger'[n] = ledger[n]
          /\ ledger'[Len(ledger) + 1] = row
      BY <3>1, <3>2, LedgerAppended DEF QueueInv
    <3>4. DOMAIN ledger \subseteq DOMAIN ledger' /\ Len(ledger) + 1 \in DOMAIN ledger'
      BY <3>3
    <3>5. \A n \in DOMAIN ledger : ledger[n].fact = ledger'[n].fact
      BY <3>3
    <3>6. frame[w].fact = ledger'[Len(ledger) + 1].fact
      BY <3>1, <3>3
    <3> QED BY <3>4, <3>5, <3>6 DEF Recorded
  <2> QED BY <2>1, <2>2 DEF Idles, Begins, Carries
<1>5. x \notin Recorded
  BY <1>1, <1>4
<1>6. ASSUME NEW u \in Workers, pc[u] \in Carrying, x = EventOf(pc[u], frame[u])
      PROVE  FALSE
  <2>1. CASE u # w
    BY <1>2, <1>6, <2>1 DEF Others
  <2>2. CASE u = w /\ Carries(w)
    BY <1>2, <1>6, <2>2 DEF Carries
  <2>3. CASE u = w /\ Records(w)
    BY <1>1, <1>4, <1>6, <2>3 DEF Records, EventOf
  <2> QED BY <1>6, <2>1, <2>2, <2>3 DEF Idles, Begins
<1>7. x \notin InFlight
  BY <1>1, <1>6, InFlightIsCarried DEF QueueInv
<1> QED BY <1>3, <1>5, <1>7 DEF Missing

\* A fault loses at most the event of its invocation.
LEMMA OneIsLost ==
  ASSUME QueueInv, QueueInv', NEW w \in Workers, Others(w), Drops(w)
  PROVE  Missing' \subseteq Missing \cup {EventOf(pc[w], frame[w])}
<1> SUFFICES ASSUME NEW x \in Missing', x # EventOf(pc[w], frame[w])
             PROVE  x \in Missing
  OBVIOUS
<1>1. x \in Happened /\ x \notin Recorded /\ x # NoFact
  BY HappenedIsSome DEF Missing, Drops, Recorded
<1>2. x \notin InFlight'
  BY DEF Missing
<1>3. \A u \in Workers : pc[u] \in Carrying => x # EventOf(pc[u], frame[u])
  BY <1>1, <1>2, InFlightIsCarriedPrime DEF QueueInv, Others
<1> QED BY <1>1, <1>3, InFlightIsCarried DEF QueueInv, Missing

\* Whatever happened and is neither recorded nor carried was lost to a fault,
\* one event to each (createApprovalRequest, decideApproval, appendLedgerEvent).
THEOREM MissingIsLostToFaults == Spec => []MissingOnlyByFaults
<1>1. Init => MissingInv
  <2> SUFFICES ASSUME Init
               PROVE  MissingInv
    OBVIOUS
  <2>1. Missing = {} /\ faults = 0
    BY DEF Init, Missing, Happened
  <2>2. IsFiniteSet({}) /\ Cardinality({}) = 0
    BY FS_EmptySet
  <2>3. IsFiniteSet(Missing) /\ Cardinality(Missing) = 0
    BY <2>1, <2>2, Zenon
  <2> QED BY <2>1, <2>3 DEF MissingInv
<1>2. ASSUME QueueInv, QueueInv', MissingInv, [Next]_vars
      PROVE  MissingInv'
  <2>1. faults \in Nat
    BY <1>2, RequirementsAssumption DEF QueueInv, Tables
  <2>2. ASSUME Missing' \subseteq Missing, faults' = faults
        PROVE  MissingInv'
    <3>1. /\ IsFiniteSet(Missing') /\ Cardinality(Missing') \in Nat
          /\ Cardinality(Missing') <= Cardinality(Missing)
      BY <1>2, <2>2, FS_Subset, FS_CardinalityType DEF MissingInv
    <3> QED BY <1>2, <2>1, <2>2, <3>1 DEF MissingInv
  <2>3. ASSUME NEW x, Missing' \subseteq Missing \cup {x}, faults' = faults + 1
        PROVE  MissingInv'
    <3>1. /\ IsFiniteSet(Missing \cup {x})
          /\ Cardinality(Missing \cup {x}) \in {Cardinality(Missing), Cardinality(Missing) + 1}
      BY <1>2, FS_AddElement DEF MissingInv
    <3>2. /\ IsFiniteSet(Missing') /\ Cardinality(Missing') \in Nat
          /\ Cardinality(Missing') <= Cardinality(Missing \cup {x})
      BY <2>3, <3>1, FS_Subset, FS_CardinalityType
    <3> QED BY <1>2, <2>1, <2>3, <3>1, <3>2 DEF MissingInv
  <2>4. CASE Happened' = Happened /\ UNCHANGED <<ledger, faults, pc, frame>>
    BY <2>2, <2>4 DEF Missing, Recorded, InFlight
  <2>5. ASSUME NEW w \in Workers, Others(w), Drops(w)
        PROVE  MissingInv'
    BY <1>2, <2>3, <2>5, OneIsLost DEF Drops
  <2>6. ASSUME NEW w \in Workers, Others(w),
               Idles(w) \/ Begins(w) \/ Carries(w) \/ Records(w)
        PROVE  MissingInv'
    BY <1>2, <2>2, <2>6, NothingIsLost DEF Idles, Begins, Carries, Records
  <2> QED BY <1>2, <2>4, <2>5, <2>6, Effects
<1>3. QueueInv /\ MissingInv => MissingOnlyByFaults
  <2>1. QueueInv => faults \in Nat
    BY RequirementsAssumption DEF QueueInv, Tables
  <2> QED BY <2>1 DEF MissingInv, MissingOnlyByFaults, Missing, Recorded
<1> QED BY <1>1, <1>2, <1>3, QueueInvHolds, PTL DEF Spec
=============================================================================
