---------------------------- MODULE PipelineWake ----------------------------
(***************************************************************************)
(* Pipeline, with the user's turns told apart by who began them: a person, *)
(* who types or presses a button, or the control (module PipelinePanel),   *)
(* which sends a prompt of its own when a hold is over.  The gate sees the *)
(* same in both.                                                           *)
(***************************************************************************)
EXTENDS Pipeline

VARIABLES
    fired,  \* the hold that was answered, 0 for none
    spoke   \* history: when a person last began a turn

wakeVars == <<vars, fired, spoke>>

WakeInit ==
    /\ Init
    /\ fired = 0 /\ spoke = 0

PersonSpeaks ==
    /\ UserTurn
    /\ spoke' = now
    /\ UNCHANGED fired

(* The prompt the control sends when the hold is over, as the session      *)
(* takes it.                                                               *)
WakeLands ==
    /\ chain.hold > 0 /\ now >= chain.hold /\ fired # chain.hold
    /\ UserTurn
    /\ fired' = chain.hold
    /\ UNCHANGED spoke

(* Whatever else happens is as in Pipeline.                                *)
Otherwise ==
    /\ Next
    /\ ~UserTurn
    /\ UNCHANGED <<fired, spoke>>

WakeSpec == WakeInit /\ [][PersonSpeaks \/ WakeLands \/ Otherwise]_wakeVars

-----------------------------------------------------------------------------
(* "Stamp every user turn ...: the approval gate reads this to confirm a   *)
(* person spoke after pressing Approve" (index.ts:711-712).  The plan has  *)
(* to outlive the hold, so the hold is one whose stated reset is at most   *)
(* PLAN_TTL_MS away (15 min, approval.ts:36): where no reset is stated it  *)
(* lasts DEFAULT_HOLD_MS (30 min, quota-hold.ts:20), and the plan expires. *)
PersonSpoke ==
    call.pc = "ran" /\ call.out.phase = "full" /\ ~call.auto
        => plan[call.out.by].pressedAt < spoke
=============================================================================
