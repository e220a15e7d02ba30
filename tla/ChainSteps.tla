----------------------------- MODULE ChainSteps -----------------------------
(***************************************************************************)
(* What the pipeline promises of its chain, whatever its stages do and     *)
(* whoever else is about: one call at a time reads the chain and leaves it *)
(* where it was, parked, one stage on, or over.  Module Pipeline implements *)
(* it, module PipelinePanel is built on it.                                *)
(***************************************************************************)
EXTENDS Integers, Sequences

CONSTANTS
    Runs, NoRun,  \* ids of chains
    Orders,       \* stage orders a chain may be started with
    HoldTime,     \* DEFAULT_HOLD_MS, in ticks
    MaxTime       \* bound: last tick of the clock

VARIABLES
    chain,   \* settings: the chain in progress, or Over
    called,  \* host: the call in flight, if there is one: the chain it read,
             \* and until when a spent allowance is to park it (0: none was)
    begun,   \* history: runs started so far
    now      \* Date.now()

chainVars == <<chain, called, begun, now>>

(* at is the place of the chain's stage in its order.                      *)
Over == [ id |-> NoRun, order |-> <<>>, at |-> 0, hold |-> 0 ]
NewChain(r, order) == [ id |-> r, order |-> order, at |-> 1, hold |-> 0 ]

ChainInit ==
    /\ chain = Over
    /\ called = {}
    /\ begun = {}
    /\ now = 1

Begins(c) == called = {} /\ called' = {[read |-> c, until |-> 0]}

ContinueChain ==
    /\ chain # Over
    /\ Begins(chain)
    /\ UNCHANGED <<chain, begun, now>>

StartChain(r, order) ==
    /\ r \notin begun
    /\ Begins(NewChain(r, order))
    /\ begun' = begun \union {r}
    /\ UNCHANGED <<chain, now>>

(* A seat of the stage has spent its allowance.                            *)
IsSpent ==
    /\ \E c \in called : c.until = 0 /\ called' = {[c EXCEPT !.until = now + HoldTime]}
    /\ UNCHANGED <<chain, begun, now>>

(* The call returns: the chain is parked, or it is held still, stops at    *)
(* its gate, goes one stage on, or is over.                                *)
Left(c) ==
    LET free == [c.read EXCEPT !.hold = 0]
    IN  IF c.until # 0 THEN {[c.read EXCEPT !.hold = c.until]}
        ELSE {c.read, free, IF free.at < Len(free.order) THEN [free EXCEPT !.at = @ + 1] ELSE Over}

CallReturns ==
    /\ \E c \in called : chain' \in Left(c)
    /\ called' = {}
    /\ UNCHANGED <<begun, now>>

(* The call is lost, with what it did, to a refused write or a restart.    *)
IsLost ==
    /\ called # {}
    /\ called' = {}
    /\ UNCHANGED <<chain, begun, now>>

TimePasses ==
    /\ now < MaxTime
    /\ now' = now + 1
    /\ UNCHANGED <<chain, called, begun>>

ChainNext ==
    \/ ContinueChain \/ \E r \in Runs, order \in Orders : StartChain(r, order)
    \/ IsSpent \/ CallReturns \/ IsLost
    \/ TimePasses

ChainSpec == ChainInit /\ [][ChainNext]_chainVars
=============================================================================
