--------------------------- MODULE PipelinePanel ----------------------------
(***************************************************************************)
(* The pipeline control (PipelineControl.tsx) over the chain, of which it  *)
(* sees what ChainSteps keeps: the run, its stage and its hold.            *)
(* It reaches the chain in one way only: a prompt sent into the session,   *)
(* by a button, when a hold is over, or by itself from stage to stage.     *)
(* The session takes a prompt when it is free, or refuses it at any time;  *)
(* in the turn a prompt begins the model calls the tool, or does not.      *)
(*                                                                         *)
(* An effect runs some time after what it depends on changed.              *)
(***************************************************************************)
EXTENDS ChainSteps, FiniteSets

CONSTANTS
    MaxMounts,   \* bound: times the control is mounted anew
    MaxSending,  \* bound: prompts on their way beside those of a hold
    MaxRefused   \* bound: prompts the session refuses

Stages == {"council", "propose", "swarm", "review"}

ASSUME PanelAssumption ==
    /\ NoRun \notin Runs
    /\ Orders \subseteq Seq(Stages) \ {<<>>}
    /\ \A o \in Orders : \A i, j \in DOMAIN o : o[i] = o[j] => i = j
    /\ HoldTime \in Nat \ {0} /\ MaxTime \in Nat

VARIABLES
    auto,      \* settings: pipelineAuto
    busy,      \* a send is awaited
    fired,     \* the hold that was asked, 0 for none
    advanced,  \* the stage a continue was sent for, or "none"
    sending,   \* the prompts on their way
    turn,      \* what the turn the session is in may come to, or "none"
    mounts,    \* history: times the control was mounted anew
    refused,   \* history: prompts refused
    asked      \* history: the holds and stages of runs a prompt was sent for
               \* unasked and not refused, since the control was mounted or
               \* started a run

panel == <<auto, busy, fired, advanced, sending, turn, mounts, refused, asked>>
panelVars == <<chainVars, panel>>

(* A prompt is of a kind, and unasked it is about something: the hold that *)
(* is over, the stage of a run to leave.                                   *)
Unasked == {"wake", "advance"}
RunPrompts == {"run", "autorun"}

PanelInit ==
    /\ ChainInit
    /\ auto = FALSE
    /\ busy = FALSE
    /\ fired = 0 /\ advanced = "none"
    /\ sending = {}
    /\ turn = "none"
    /\ mounts = 0 /\ refused = 0 /\ asked = {}

Running == chain # Over
Stage == chain.order[chain.at]
Held == chain.hold > 0

-----------------------------------------------------------------------------
(* go(prompt), with what it keeps of the render it comes from.             *)
Go(kind, about) ==
    LET p == [kind |-> kind, about |-> about]
    IN  /\ p \notin sending
        /\ kind = "wake" \/ Cardinality({q \in sending : q.kind # "wake"}) < MaxSending
        /\ sending' = sending \union {p}
        /\ busy' = TRUE
        /\ asked' = IF kind \in Unasked THEN asked \union {about} ELSE asked
        /\ UNCHANGED <<chainVars, auto, turn, mounts, refused>>

(* The Run button sends what is picked or typed.                           *)
PressRun ==
    /\ ~Running /\ ~busy
    /\ \E kind \in RunPrompts : Go(kind, <<>>)
    /\ UNCHANGED <<fired, advanced>>

(* Continue, restart, or resume now.                                       *)
Press(kind) ==
    /\ Running /\ ~busy
    /\ kind = "restart" => ~Held
    /\ Go(kind, <<>>)
    /\ UNCHANGED <<fired, advanced>>

(* The hold is over: continue without being asked, once.                   *)
Wake ==
    /\ Held /\ now >= chain.hold /\ fired # chain.hold
    /\ fired' = chain.hold
    /\ Go("wake", <<chain.hold>>)
    /\ UNCHANGED advanced

(* Mutant: what was sent is not noted.                                     *)
AdvanceUnnoted ==
    /\ auto /\ Running /\ ~Held /\ ~busy
    /\ advanced # Stage
    /\ Go("advance", <<chain.id, Stage>>)
    /\ UNCHANGED <<fired, advanced>>

(* The stage is new: continue without being asked, once.                   *)
Advance ==
    /\ auto /\ Running /\ ~Held /\ ~busy
    /\ advanced # Stage
    /\ advanced' = Stage
    /\ Go("advance", <<chain.id, Stage>>)
    /\ UNCHANGED fired

-----------------------------------------------------------------------------
(* A turn that asks to continue, one that asks for a run, and one in which *)
(* anything may be asked.                                                  *)
Turn(kind) == CASE kind \in {"continue", "wake", "advance"} -> "continue"
                [] kind \in RunPrompts -> "run"
                [] OTHER -> "any"

(* The session takes the prompt, and the send resolves: the flag of the    *)
(* run that was picked is written now.                                     *)
Lands(p) ==
    /\ p \in sending /\ turn = "none"
    /\ sending' = sending \ {p}
    /\ busy' = FALSE
    /\ turn' = Turn(p.kind)
    /\ IF p.kind \in RunPrompts
       THEN auto' = (p.kind = "autorun") /\ advanced' = "none" /\ asked' = {a \in asked : Len(a) = 1}
       ELSE UNCHANGED <<auto, advanced, asked>>
    /\ UNCHANGED <<chainVars, fired, mounts, refused>>

(* Mutant: the one restart of a hold is spent, landed or not.              *)
RefusedAndSpent(p) ==
    /\ p \in sending /\ refused < MaxRefused
    /\ sending' = sending \ {p}
    /\ busy' = FALSE
    /\ advanced' = IF p.kind = "advance" THEN "none" ELSE advanced
    /\ refused' = refused + 1
    /\ asked' = asked \ {p.about}
    /\ UNCHANGED <<chainVars, auto, fired, turn, mounts>>

(* The session refuses it: nothing is written, and what was noted as sent  *)
(* is to be sent again.                                                    *)
Refused(p) ==
    /\ p \in sending /\ refused < MaxRefused
    /\ sending' = sending \ {p}
    /\ busy' = FALSE
    /\ fired' = IF p.kind = "wake" THEN 0 ELSE fired
    /\ advanced' = IF p.kind = "advance" THEN "none" ELSE advanced
    /\ refused' = refused + 1
    /\ asked' = asked \ {p.about}
    /\ UNCHANGED <<chainVars, auto, turn, mounts>>

(* The run is over: stop advancing.                                        *)
ClearAuto ==
    /\ auto /\ ~Running
    /\ auto' = FALSE
    /\ UNCHANGED <<chainVars, busy, fired, advanced, sending, turn, mounts, refused, asked>>

(* The session is left and come back to: the refs start afresh.            *)
Remount ==
    /\ mounts < MaxMounts /\ sending = {}
    /\ mounts' = mounts + 1
    /\ busy' = FALSE /\ fired' = 0 /\ advanced' = "none" /\ asked' = {}
    /\ UNCHANGED <<chainVars, auto, sending, turn, refused>>

-----------------------------------------------------------------------------
(* The session.                                                            *)
Typed ==
    /\ turn = "none"
    /\ turn' = "any"
    /\ UNCHANGED <<chainVars, auto, busy, fired, advanced, sending, mounts, refused, asked>>

ModelCalls ==
    /\ turn # "none"
    /\ \/ ContinueChain
       \/ /\ turn = "any" \/ (turn = "run" /\ ~Running)
          /\ \E r \in Runs, order \in Orders : StartChain(r, order)
    /\ UNCHANGED panel

CallGoesOn ==
    /\ IsSpent \/ CallReturns \/ IsLost
    /\ UNCHANGED panel

TurnEnds ==
    /\ turn # "none" /\ called = {}
    /\ turn' = "none"
    /\ UNCHANGED <<chainVars, auto, busy, fired, advanced, sending, mounts, refused, asked>>

Later ==
    /\ TimePasses
    /\ UNCHANGED panel

PanelNext ==
    \/ PressRun \/ \E kind \in {"continue", "restart"} : Press(kind)
    \/ Wake \/ Advance \/ ClearAuto \/ Remount
    \/ \E p \in sending : Lands(p) \/ Refused(p)
    \/ Typed \/ ModelCalls \/ CallGoesOn \/ TurnEnds
    \/ Later

LandsWake == \E p \in sending : p.kind = "wake" /\ Lands(p)

(* Calls return and turns end; the effects run and time goes on; and a     *)
(* session that is free again and again takes the prompt that waits.       *)
PanelSpec ==
    /\ PanelInit /\ [][PanelNext]_panelVars
    /\ WF_panelVars(CallGoesOn) /\ SF_panelVars(TurnEnds)
    /\ WF_panelVars(Wake) /\ WF_panelVars(Later)
    /\ SF_panelVars(LandsWake)

-----------------------------------------------------------------------------
(* A run parked on a spent allowance comes back by itself: once its time   *)
(* is over a prompt for it lands, whatever sends were refused before, if   *)
(* nothing else brought it back (PipelineControl.tsx:279-286).             *)
HoldWakes ==
    \A h \in 1..MaxTime :
        Running /\ chain.hold = h
            ~> \/ ~Running \/ chain.hold # h
               \/ <<h>> \in asked /\ \A p \in sending : p.about # <<h>>

(* While no send was refused, a prompt is sent unasked once for a hold and *)
(* once for a stage, however often the control renders and however its     *)
(* sends overlap (PipelineControl.tsx:173-177, 288-291).                   *)
AskedOnce ==
    [][ \A p \in sending' \ sending :
          p.kind \in Unasked /\ refused = 0 => p.about \notin asked ]_panelVars
=============================================================================
