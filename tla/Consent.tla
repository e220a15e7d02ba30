------------------------------- MODULE Consent -------------------------------
(***************************************************************************)
(* What the approval gate promises, with nothing said of how: each gate    *)
(* offers at most one plan, a plan is offered once, only an offered plan   *)
(* is pressed, and money is spent only on a plan that is pressed and still *)
(* on offer at its gate when the spending begins.                          *)
(***************************************************************************)
CONSTANTS Gates, Plans, NoPlan

VARIABLES
    offered,  \* what each gate offers
    known,    \* every plan offered so far
    pressed,  \* plans a person pressed Approve on
    spent     \* plans money was spent on

vars == <<offered, known, pressed, spent>>

Init ==
    /\ offered = [g \in Gates |-> NoPlan]
    /\ known = {} /\ pressed = {} /\ spent = {}

Offer(g, p) ==
    /\ p \notin known
    /\ known' = known \union {p}
    /\ offered' = [offered EXCEPT ![g] = p]
    /\ UNCHANGED <<pressed, spent>>

Withdraw(g) ==
    /\ offered' = [offered EXCEPT ![g] = NoPlan]
    /\ UNCHANGED <<known, pressed, spent>>

Press(g) ==
    /\ offered[g] # NoPlan
    /\ pressed' = pressed \union {offered[g]}
    /\ UNCHANGED <<offered, known, spent>>

Spend(g) ==
    /\ offered[g] \in pressed
    /\ spent' = spent \union {offered[g]}
    /\ UNCHANGED <<offered, known, pressed>>

Next == \E g \in Gates : \/ \E p \in Plans : Offer(g, p)
                         \/ Withdraw(g)
                         \/ Press(g)
                         \/ Spend(g)

Spec == Init /\ [][Next]_vars
=============================================================================
