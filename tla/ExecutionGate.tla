--------------------------- MODULE ExecutionGate ---------------------------
(* The states of a consequential action and the predicate that admits its  *)
(* execution (lib/control-plane/control-plane-core.ts and                  *)
(* server/control-plane-execution.ts).  Pure operators on a snapshot.      *)
(*                                                                         *)
(* A snapshot, an envelope, a policy decision and an approval request name *)
(* what they are about by the same fields: org, action, type and hash, the *)
(* hash of the canonical envelope.  Times are numbers; Never is a time     *)
(* that is not set.                                                        *)
EXTENDS Integers, Sequences, FiniteSets, SequencesExt

CONSTANT Never
ASSUME NeverAssumption == Never \notin Int

\* ALLOWED_TRANSITIONS.
AllowedTransitions ==
  [DRAFT |-> {"POLICY_EVALUATION", "CANCELLED"},
   POLICY_EVALUATION |-> {"REVIEW_REQUIRED", "READY", "DENIED", "INVALIDATED", "FAILED"},
   REVIEW_REQUIRED |-> {"APPROVED", "DENIED", "INVALIDATED", "EXPIRED", "CANCELLED"},
   APPROVED |-> {"READY", "INVALIDATED", "EXPIRED", "CANCELLED"},
   READY |-> {"EXECUTING", "INVALIDATED", "EXPIRED", "CANCELLED"},
   EXECUTING |-> {"EXECUTED", "FAILED"},
   EXECUTED |-> {"RECEIPTED", "FAILED"},
   INVALIDATED |-> {"POLICY_EVALUATION", "CANCELLED"},
   EXPIRED |-> {"POLICY_EVALUATION", "CANCELLED"},
   FAILED |-> {"POLICY_EVALUATION", "CANCELLED"},
   RECEIPTED |-> {}, DENIED |-> {}, CANCELLED |-> {}]

IsTransitionAllowed(from, to) == to \in AllowedTransitions[from]

Elapsed(time, now) == time # Never /\ time <= now

-----------------------------------------------------------------------------
(* Checks 1 to 12: the codes of what is wrong with the snapshot.           *)

Code(condition, code) == IF condition THEN {code} ELSE {}

AlignmentReasons(s) ==
  Code(\E x \in {s.envelope, s.policy} : x.org # s.org, "ORGANIZATION_MISMATCH")
  \cup Code(\E x \in {s.envelope, s.policy} : x.action # s.action, "ACTION_ID_MISMATCH")
  \cup Code(\E x \in {s.envelope, s.policy} : x.type # s.type, "ACTION_TYPE_MISMATCH")
  \cup Code(s.policy.hash # s.envelope.hash, "POLICY_ENVELOPE_HASH_MISMATCH")

StateReasons(s) ==
  Code(s.state # "READY", "ACTION_NOT_READY")
  \cup Code(s.globalKill, "GLOBAL_KILL_SWITCH_ACTIVE")
  \cup Code(s.channelKill, "CHANNEL_KILL_SWITCH_ACTIVE")
  \cup Code(s.adapter \notin s.adapters, "UNAUTHORIZED_ADAPTER")
  \cup Code(s.outcomeUnknown, "UNRESOLVED_EXECUTION_ATTEMPT")

PolicyReasons(s) ==
  Code(s.policy.result = "DENY", "POLICY_DENIED")
  \cup Code(Elapsed(s.policy.expires, s.now), "POLICY_EXPIRED")
  \cup Code(Elapsed(s.envelope.deadline, s.now), "EXECUTION_DEADLINE_ELAPSED")

\* The snapshots are a list, or a record whose keys are ids and types.  Of a list
\* the first with the id or the type of the reference counts, and is current if it
\* does not say.
IsListedCurrent(ref, list, now) ==
  LET RefersTo(n) == list[n].id = ref.id \/ list[n].type = ref.type
  IN  \E n \in DOMAIN list :
        /\ RefersTo(n) /\ \A m \in DOMAIN list : m < n => ~RefersTo(m)
        /\ list[n].content = ref.content
        /\ "current" \in DOMAIN list[n] => list[n].current
        /\ ~Elapsed(list[n].expires, now)

\* Of a record the entry of the id counts, or else that of the type; one that names no
\* content has any.
IsEnteredCurrent(ref, entries, now) ==
  LET key == IF ref.id \in DOMAIN entries THEN ref.id ELSE ref.type
  IN  /\ key \in DOMAIN entries
      /\ "content" \in DOMAIN entries[key] => entries[key].content = ref.content
      /\ entries[key].current /\ ~Elapsed(entries[key].expires, now)

IsEvidenceCurrent(ref, snapshots, now) ==
  IF snapshots.form = "list" THEN IsListedCurrent(ref, snapshots.items, now)
  ELSE IsEnteredCurrent(ref, snapshots.items, now)

EvidenceReasons(s) ==
  Code(\E ref \in s.envelope.evidence : ~IsEvidenceCurrent(ref, s.evidence, s.now),
       "STALE_EVIDENCE")

-----------------------------------------------------------------------------
(* Check 13: approvals.  Every decision of every request is held against   *)
(* every requirement, and each one that does not fit adds its reason: two  *)
(* requirements of different roles are never both without one.             *)

RequestReasons(s, r) ==
  Code(r.hash # s.envelope.hash, "APPROVAL_ENVELOPE_MISMATCH")
  \cup Code(r.action # s.action, "APPROVAL_ACTION_MISMATCH")
  \cup Code(r.org # s.org, "APPROVAL_ORGANIZATION_MISMATCH")
  \cup Code(r.type # s.type, "APPROVAL_TARGET_ACTION_MISMATCH")
  \cup Code(Elapsed(r.expires, s.now), "APPROVAL_EXPIRED")

\* The approvals of a request: decisions of any other name are passed over.
Approvals(r) == {d \in r.decisions : d.decision = "APPROVE"}

\* Mutant of DecisionReason: who asks may approve.
DecisionReasonOfAnyone(s, req, d) ==
  IF Elapsed(d.expires, s.now) THEN "APPROVAL_EXPIRED"
  ELSE IF d.actor \notin DOMAIN s.authorities THEN "UNAUTHORIZED_APPROVER_ROLE"
  ELSE LET a == s.authorities[d.actor]
       IN  IF a.org # s.org THEN "APPROVAL_ORGANIZATION_MISMATCH"
           ELSE IF a.role # req.role THEN "UNAUTHORIZED_APPROVER_ROLE"
           ELSE IF a.revoked THEN "AUTHORITY_REVOKED"
           ELSE IF Elapsed(a.until, s.now) THEN "AUTHORITY_EXPIRED" ELSE "none"

\* The first objection to a decision for a requirement.
DecisionReason(s, req, d) ==
  IF Elapsed(d.expires, s.now) THEN "APPROVAL_EXPIRED"
  ELSE IF d.actor \notin DOMAIN s.authorities THEN "UNAUTHORIZED_APPROVER_ROLE"
  ELSE LET a == s.authorities[d.actor]
       IN  IF a.org # s.org THEN "APPROVAL_ORGANIZATION_MISMATCH"
           ELSE IF a.role # req.role THEN "UNAUTHORIZED_APPROVER_ROLE"
           ELSE IF req.scope # "none" /\ a.scope \notin {req.scope, "GLOBAL", "ALL"} THEN
                  "AUTHORITY_SCOPE_MISMATCH"
           ELSE IF a.revoked THEN "AUTHORITY_REVOKED"
           ELSE IF a.from > s.now THEN "AUTHORITY_INACTIVE_FUTURE"
           ELSE IF Elapsed(a.until, s.now) THEN "AUTHORITY_EXPIRED"
           ELSE IF req.separate /\ d.actor = s.envelope.requester THEN
                  "SEPARATION_OF_DUTIES_VIOLATION"
           ELSE "none"

Approvers(s, req) ==
  {d.actor : d \in {d \in UNION {Approvals(r) : r \in s.requests} :
                      DecisionReason(s, req, d) = "none"}}

RequirementReasons(s, req) ==
  Code(Cardinality(Approvers(s, req)) < req.minimum, "MISSING_APPROVAL")
  \cup UNION {RequestReasons(s, r) \cup
                ({DecisionReason(s, req, d) : d \in Approvals(r)} \ {"none"}) :
                r \in s.requests}

ApprovalReasons(s) ==
  IF s.policy.result # "REVIEW_REQUIRED" THEN {}
  ELSE IF s.policy.required = {} THEN {"NO_APPROVAL_REQUIREMENTS_DECLARED"}
  ELSE UNION {RequirementReasons(s, req) : req \in s.policy.required}

-----------------------------------------------------------------------------
\* evaluateExecutionAuthorization: the snapshot is admitted when nothing is
\* wrong with it.
Reasons(s) ==
  StateReasons(s) \cup AlignmentReasons(s) \cup PolicyReasons(s)
    \cup EvidenceReasons(s) \cup ApprovalReasons(s)

Authorized(s) == Reasons(s) = {}
=============================================================================
