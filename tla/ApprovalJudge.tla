---------------------------- MODULE ApprovalJudge ----------------------------
(***************************************************************************)
(* The two-factor approval gate as a pure decision: what approval.ts reads *)
(* and when it lets a paid run through.  No state lives here; the modules  *)
(* that hold the settings document apply these operators to a snapshot.    *)
(***************************************************************************)
EXTENDS Integers

CONSTANTS
    Plans,   \* ids a plan may be issued under (randomUUID)
    NoPlan,  \* the empty id '' that retires a slot
    Jobs,    \* what a plan is for: a request with its plan text or task graph
    NoJob,   \* the empty request ''
    PlanTTL  \* PLAN_TTL_MS, in ticks of the clock

ASSUME JudgeAssumption ==
    /\ NoPlan \notin Plans
    /\ NoJob \notin Jobs
    /\ PlanTTL \in Nat

(***************************************************************************)
(* One gate's keys in the settings document.  The council, the swarm and   *)
(* the proposing round have the same five keys under different names:      *)
(* pendingPlanId / pendingSwarmId / pendingProposeId and so on.            *)
(***************************************************************************)
Slot == [ pending    : Plans \union {NoPlan},
          job        : Jobs \union {NoJob},
          issuedAt   : Nat,
          approved   : Plans \union {NoPlan},
          approvedAt : Nat ]

EmptySlot == [ pending |-> NoPlan, job |-> NoJob, issuedAt |-> 0,
               approved |-> NoPlan, approvedAt |-> 0 ]

(* The slot a freshly issued plan leaves: any earlier approval is void.    *)
IssuedSlot(p, j, t) == [ pending |-> p, job |-> j, issuedAt |-> t,
                         approved |-> NoPlan, approvedAt |-> 0 ]

PlanExpired(s, t) == t - s.issuedAt > PlanTTL

(***************************************************************************)
(* judgeApproval: a plan is held, still live, named by a press that is not *)
(* older than it, and a user turn came strictly later.  The order in which *)
(* the code tests these only picks the sentence it reports.                *)
(***************************************************************************)
Allowed(s, lastUserTurnAt, t) ==
    /\ s.pending # NoPlan
    /\ ~PlanExpired(s, t)
    /\ s.approved = s.pending
    /\ s.approvedAt >= s.issuedAt
    /\ lastUserTurnAt > s.approvedAt

(***************************************************************************)
(* heldUnapproved: a live plan nobody has approved is shown again rather   *)
(* than planned again.                                                     *)
(***************************************************************************)
HeldUnapproved(s, autoApprove, t) ==
    /\ s.pending # NoPlan
    /\ s.approved # s.pending
    /\ ~autoApprove
    /\ ~PlanExpired(s, t)
=============================================================================
