--------------------------- MODULE SwarmRunProofs ---------------------------
(***************************************************************************)
(* What holds of a swarm run for every graph a planner may write, every    *)
(* roster and every set of options.                                        *)
(*                                                                         *)
(* The argument is about knots: sets of units each of which follows        *)
(* another of the set.  No unit of a knot is ever removed, so a graph that *)
(* is let through has none; and when the wave loop finds nothing to run,   *)
(* what is left over is a knot.                                            *)
(*                                                                         *)
(* Units are assigned one by one.  Each goes to a seat that may have it,   *)
(* and of seats alike to one that has least, so the loads stay level; and  *)
(* what was assigned is what the waves ask.                                *)
(***************************************************************************)
EXTENDS SwarmRun, FiniteSetTheorems, TLAPS

(* What is known of walks along the numbers; it is of no seats, so any do. *)
Ladder == INSTANCE CouncilVerdictProofs WITH NumSeats <- 1, Confidences <- {}

Early == {"start", "asking", "checking", "assigning", "plan", "blocked"}

(* The graph is a list of units, and each of them has a state.             *)
Shaped ==
    /\ call \in Calls
    /\ tasks \in Seq(Task)
    /\ unit \in [Ids -> UnitStates]
    /\ phase \in Early \union {"running", "full"}

(* While the search runs, the knots are all in what remains.               *)
Searching ==
    phase = "checking" => \A S \in SUBSET Units : Knot(tasks, S) => S \subseteq remaining

(* A graph that was let through has no knot and nothing outside of it.     *)
Sound ==
    phase \in {"assigning", "running", "full"} =>
        /\ \A S \in SUBSET Units : Knot(tasks, S) => S = {}
        /\ \A u \in Units : After(tasks, u) \subseteq Units

(* No unit moves before the run does, and one that has moved follows only  *)
(* units that are done, only such as did well if a seat was asked for it.  *)
Ordered ==
    /\ phase \in Early => \A u \in Ids : unit[u] = "waiting"
    /\ \A u \in Units : unit[u] # "waiting" => After(tasks, u) \subseteq Done
    /\ AskedInOrder

IInv == Shaped /\ Searching /\ Sound /\ Ordered /\ WholeGraphRuns

(* In a graph without faults every unit follows only units of the graph.   *)
LEMMA FaultlessIsClosed ==
    ASSUME NEW graph \in Seq(Task), NEW profile, ~Faulty(graph, profile)
    PROVE  \A u \in IdsOf(graph) : After(graph, u) \subseteq IdsOf(graph)
<1> SUFFICES ASSUME NEW u \in IdsOf(graph)
             PROVE  After(graph, u) \subseteq IdsOf(graph)
    OBVIOUS
<1>1. PICK i \in DOMAIN graph : graph[i].id = u
      BY DEF IdsOf
<1>2. Place(graph, u) \in DOMAIN graph
  <2>1. \A j \in DOMAIN graph : graph[j].id = u => j = i
        BY <1>1 DEF Faulty, Repeats
  <2>2. i \in Int
        BY DEF Task
  <2> QED
        BY <1>1, <2>1, <2>2 DEF Place
<1> QED
    BY <1>2 DEF Faulty, Dangling, After

LEMMA IdsAreKnown ==
    ASSUME NEW graph \in Seq(Task)
    PROVE  IdsOf(graph) \subseteq Ids
<1>1. \A i \in DOMAIN graph : graph[i] \in Task
      OBVIOUS
<1> QED
    BY <1>1 DEF IdsOf, Task

-----------------------------------------------------------------------------
(* Who is assigned.                                                        *)

LEMMA Upward ==
    ASSUME NEW n \in Nat, NEW G, 0 \in G, \A k \in 1..n : k - 1 \in G => k \in G
    PROVE  0..n \subseteq G
BY Ladder!Upward

(* A roster the code may work with.                                        *)
Staff(seats) == DOMAIN seats \subseteq Seats /\ seats \in [DOMAIN seats -> Worker]

LEMMA HeldIsNat ==
    ASSUME NEW prior \in Seq(Seats \union {Nobody}), NEW s
    PROVE  Held(prior, s) \in Nat /\ IsFiniteSet({i \in DOMAIN prior : prior[i] = s})
<1>1. IsFiniteSet(DOMAIN prior)
  <2>1. DOMAIN prior = 1..Len(prior) /\ Len(prior) \in Nat
        OBVIOUS
  <2> QED
      BY <2>1, FS_Interval
<1>2. IsFiniteSet({i \in DOMAIN prior : prior[i] = s})
      BY <1>1, FS_Subset
<1> QED
    BY <1>2, FS_CardinalityType DEF Held

LEMMA HeldGrows ==
    ASSUME NEW prior \in Seq(Seats \union {Nobody}), NEW w \in Seats \union {Nobody}, NEW s
    PROVE  Held(Append(prior, w), s) = Held(prior, s) + IF w = s THEN 1 ELSE 0
<1> DEFINE before == {i \in DOMAIN prior : prior[i] = s}
           longer == Append(prior, w)
           after  == {i \in DOMAIN longer : longer[i] = s}
           last   == Len(prior) + 1
<1>1. /\ Len(prior) \in Nat /\ DOMAIN prior = 1..Len(prior)
      /\ DOMAIN longer = 1..last /\ longer[last] = w
      /\ \A i \in 1..Len(prior) : longer[i] = prior[i]
      OBVIOUS
<1>2. IsFiniteSet(before) /\ Cardinality(before) \in Nat
      BY HeldIsNat DEF Held
<1>0. Held(prior, s) = Cardinality(before) /\ Held(longer, s) = Cardinality(after)
      BY Zenon DEF Held
<1>3. last \notin before /\ \A i : i \in 1..last <=> i \in 1..Len(prior) \/ i = last
      BY <1>1
<1> HIDE DEF longer, last
<1>4. CASE w = s
  <2>1. after = before \union {last}
        BY <1>1, <1>3, <1>4
  <2>2. Cardinality(before \union {last}) = Cardinality(before) + 1
        BY <1>2, <1>3, FS_AddElement
  <2>3. Cardinality(after) = Cardinality(before) + 1
        BY <2>1, <2>2, Zenon
  <2> HIDE DEF before, after
  <2> QED
      BY <1>0, <1>4, <2>3 DEF longer
<1>5. CASE w # s
  <2>1. after = before
        BY <1>1, <1>3, <1>5
  <2>2. Cardinality(after) = Cardinality(before)
        BY <2>1, Zenon
  <2> HIDE DEF before, after
  <2> QED
      BY <1>0, <1>2, <1>5, <2>2 DEF longer
<1> QED
    BY <1>4, <1>5

(* What is known of who earned a kind.                                     *)
Earning(earned) == earned.ignoreCost \in BOOLEAN

(* Of those able to take a unit one is best.                               *)
LEMMA BestIs ==
    ASSUME NEW seats, Staff(seats), NEW prior \in Seq(Seats \union {Nobody}),
           NEW ignoreCost \in BOOLEAN, NEW able \in SUBSET DOMAIN seats, able # {}
    PROVE  \E s \in able : \A t \in able : Better(seats, prior, ignoreCost, s, t)
<1> DEFINE cost == [s \in able |-> IF ignoreCost THEN 0 ELSE seats[s].cost]
           held == [s \in able |-> Held(prior, s)]
<1>1. \A s \in able : s \in Nat /\ seats[s].cost \in Nat
  <2>1. \A s \in able : s \in Seats /\ seats[s] \in Worker
        BY DEF Staff
  <2>2. \A s \in Seats : s \in Nat
        BY RosterAssumption
  <2>3. \A worker \in Worker : worker.cost \in Nat
        BY DEF Worker, Free, Included, Metered
  <2> QED
      BY <2>1, <2>2, <2>3
<1>2. \A s \in able : cost[s] \in Nat /\ held[s] \in Nat
      BY <1>1, HeldIsNat
<1>3. \A s, t \in able : Better(seats, prior, ignoreCost, s, t) <=>
                           \/ cost[s] < cost[t]
                           \/ cost[s] = cost[t] /\ held[s] < held[t]
                           \/ cost[s] = cost[t] /\ held[s] = held[t] /\ s <= t
  <2>1. ASSUME NEW s \in able, NEW t \in able
        PROVE  Better(seats, prior, ignoreCost, s, t) <=>
                 IF cost[s] # cost[t] THEN cost[s] < cost[t]
                 ELSE IF held[s] # held[t] THEN held[s] < held[t] ELSE s <= t
        BY DEF Better
  <2> QED
      BY <1>1, <1>2, <2>1
<1> HIDE DEF cost, held
<1>4. PICK a \in able : \A t \in able : cost[a] <= cost[t]
  <2> DEFINE T == {n \in Nat : \E s \in able : cost[s] = n}
  <2>1. T \in SUBSET Nat /\ T # {} /\ \A s \in able : cost[s] \in T
        BY <1>2
  <2>2. \A x \in T : \E s \in able : cost[s] = x
        OBVIOUS
  <2> HIDE DEF T
  <2>3. \E x \in T : \A y \in T : x <= y
        BY <2>1, Ladder!LeastNat
  <2> QED
      BY <2>1, <2>2, <2>3
<1> DEFINE cheap == {s \in able : cost[s] = cost[a]}
<1>5. PICK b \in cheap : \A t \in cheap : held[b] <= held[t]
  <2> DEFINE T == {n \in Nat : \E s \in cheap : held[s] = n}
  <2>1. T \in SUBSET Nat /\ T # {} /\ \A s \in cheap : held[s] \in T
        BY <1>2
  <2>2. \A x \in T : \E s \in cheap : held[s] = x
        OBVIOUS
  <2> HIDE DEF T
  <2>3. \E x \in T : \A y \in T : x <= y
        BY <2>1, Ladder!LeastNat
  <2> QED
      BY <2>1, <2>2, <2>3
<1> DEFINE idle == {s \in cheap : held[s] = held[b]}
<1>6. PICK c \in idle : \A t \in idle : c <= t
  <2>1. PICK T \in SUBSET Nat : T = idle /\ T # {}
        BY <1>1
  <2>2. \E x \in T : \A y \in T : x <= y
        BY <2>1, Ladder!LeastNat
  <2> QED
      BY <2>1, <2>2
<1>7. ASSUME NEW t \in able PROVE Better(seats, prior, ignoreCost, c, t)
  <2>1. c \in able /\ cost[c] = cost[a] /\ held[c] = held[b]
        BY <1>6
  <2>2. cost[c] <= cost[t] /\ (cost[c] = cost[t] => held[c] <= held[t])
        BY <1>4, <1>5, <2>1
  <2>3. cost[c] = cost[t] /\ held[c] = held[t] => c <= t
        BY <1>6, <2>1
  <2>4. {cost[c], cost[t], held[c], held[t]} \subseteq Nat
        BY <1>2, <2>1
  <2> QED
      BY <1>3, <2>1, <2>2, <2>3, <2>4
<1> QED
    BY <1>6, <1>7

(* Who gets a unit is switched on and, when the unit names nobody and no   *)
(* kind was earned, holds no more than any other of the same class that    *)
(* takes the same kinds.                                                   *)
Suits(task, seats, earned, prior, w) ==
    /\ w \in Seats \union {Nobody}
    /\ w # Nobody => MayBeNamed(seats, w)
    /\ ~MayBeNamed(seats, task.provider) /\ ~MayBeNamed(seats, earned.winner) =>
         \A t \in DOMAIN seats :
             /\ w # Nobody /\ seats[t].on
             /\ seats[t].cost = seats[w].cost /\ seats[t].kinds = seats[w].kinds
             => Held(prior, w) <= Held(prior, t)

LEMMA WorkerForIs ==
    ASSUME NEW seats, Staff(seats), NEW prior \in Seq(Seats \union {Nobody}), NEW task \in Task,
           NEW earned, Earning(earned)
    PROVE  Suits(task, seats, earned, prior, WorkerFor(task, seats, earned, prior))
<1> DEFINE w == WorkerFor(task, seats, earned, prior)
           able == {s \in DOMAIN seats : seats[s].on /\ Accepts(seats[s], task.kind)}
           earner == IF earned.ignoreCost /\ task.kind = "code" THEN earned.winner ELSE Nobody
           best == CHOOSE s \in able : \A t \in able : Better(seats, prior, earned.ignoreCost, s, t)
<1>1. w = IF MayBeNamed(seats, task.provider) THEN task.provider
          ELSE IF earner \in able THEN earner
          ELSE IF able = {} THEN Nobody ELSE best
      BY DEF WorkerFor
<1>2. DOMAIN seats \subseteq Seats /\ Nobody \notin Seats
      BY RosterAssumption DEF Staff, Nobody
<1>3. able # {} => best \in able /\ \A t \in able : Better(seats, prior, earned.ignoreCost, best, t)
      BY BestIs DEF Earning
<1>4. \A s \in able : s \in Seats /\ MayBeNamed(seats, s)
      BY <1>2 DEF MayBeNamed
<1>5. MayBeNamed(seats, task.provider) => task.provider \in Seats
      BY <1>2 DEF MayBeNamed
<1>6. w \in Seats \union {Nobody} /\ (w # Nobody => MayBeNamed(seats, w))
  <2> HIDE DEF w, able, earner, best
  <2> QED
      BY <1>1, <1>3, <1>4, <1>5
<1>7. ASSUME ~MayBeNamed(seats, task.provider), ~MayBeNamed(seats, earned.winner),
             NEW t \in DOMAIN seats, w # Nobody, seats[t].on,
             seats[t].cost = seats[w].cost, seats[t].kinds = seats[w].kinds
      PROVE  Held(prior, w) <= Held(prior, t)
  <2>1. earner \notin able
    <3>1. Nobody \notin able /\ earned.winner \notin able
          BY <1>2, <1>4, <1>7
    <3> QED
        BY <3>1
  <2>2. w = best /\ able # {}
    <3> HIDE DEF w, able, earner, best
    <3> QED
        BY <1>1, <1>7, <2>1
  <2> HIDE DEF best, w
  <2>3. w \in able /\ \A s \in able : Better(seats, prior, earned.ignoreCost, w, s)
        BY <1>3, <2>2
  <2>4. t \in able
        BY <1>7, <2>3 DEF Accepts
  <2>5. Better(seats, prior, earned.ignoreCost, w, t)
        BY <2>3, <2>4
  <2>6. Held(prior, w) \in Nat /\ Held(prior, t) \in Nat
        BY HeldIsNat
  <2> QED
      BY <1>7, <2>5, <2>6 DEF Better
<1> QED
    BY <1>6, <1>7 DEF Suits

(* Nobody is named for a unit, and no seat earned a kind.                  *)
Unnamed(list, seats, earned) ==
    (\A i \in DOMAIN list : ~MayBeNamed(seats, list[i].provider)) /\ ~MayBeNamed(seats, earned.winner)

(* A plan over seats that are on, spread over those that are alike.        *)
Fair(list, seats, earned, p) ==
    /\ p \in Seq(Seats \union {Nobody})
    /\ \A i \in DOMAIN p : p[i] # Nobody => MayBeNamed(seats, p[i])
    /\ Unnamed(list, seats, earned) =>
         \A s, t \in DOMAIN seats :
            /\ seats[s].on /\ seats[t].on
            /\ seats[s].cost = seats[t].cost /\ seats[s].kinds = seats[t].kinds
            => Held(p, s) <= Held(p, t) + 1

LEMMA NoneHeld == \A s : Held(<<>>, s) = 0
<1> SUFFICES ASSUME NEW s PROVE Held(<<>>, s) = 0
    OBVIOUS
<1>1. DOMAIN <<>> = {}
      OBVIOUS
<1>2. {i \in DOMAIN <<>> : <<>>[i] = s} = {}
      BY <1>1
<1>3. Held(<<>>, s) = Cardinality({})
      BY <1>2, Zenon DEF Held
<1> QED
    BY <1>3, FS_EmptySet

LEMMA NobodyHolds ==
    ASSUME NEW list, NEW seats, NEW earned
    PROVE  Fair(list, seats, earned, <<>>)
<1>1. <<>> \in Seq(Seats \union {Nobody}) /\ DOMAIN <<>> = {}
      OBVIOUS
<1>2. \A s : Held(<<>>, s) = 0
      BY NoneHeld
<1>3. \A i \in DOMAIN <<>> : FALSE
      BY <1>1
<1> QED
    BY <1>1, <1>2, <1>3 DEF Fair

(* One more unit leaves a fair plan fair.                                  *)
LEMMA FairGrows ==
    ASSUME NEW list \in Seq(Task), NEW seats, Staff(seats), NEW earned, Earning(earned),
           NEW i \in DOMAIN list, NEW p, Fair(list, seats, earned, p)
    PROVE  Fair(list, seats, earned, Append(p, WorkerFor(list[i], seats, earned, p)))
<1>1. p \in Seq(Seats \union {Nobody}) /\ list[i] \in Task
      BY DEF Fair
<1>2. PICK w : w = WorkerFor(list[i], seats, earned, p)
      OBVIOUS
<1>0. Suits(list[i], seats, earned, p, w)
  <2>1. PICK task \in Task : task = list[i]
        BY <1>1
  <2>2. Suits(task, seats, earned, p, WorkerFor(task, seats, earned, p))
        BY <1>1, WorkerForIs
  <2> QED
      BY <1>2, <2>1, <2>2
<1>3. /\ w \in Seats \union {Nobody}
      /\ w # Nobody => MayBeNamed(seats, w)
      /\ ~MayBeNamed(seats, list[i].provider) /\ ~MayBeNamed(seats, earned.winner) =>
           \A t \in DOMAIN seats :
               /\ w # Nobody /\ seats[t].on
               /\ seats[t].cost = seats[w].cost /\ seats[t].kinds = seats[w].kinds
               => Held(p, w) <= Held(p, t)
      BY <1>0 DEF Suits
<1>4. /\ Append(p, w) \in Seq(Seats \union {Nobody})
      /\ DOMAIN Append(p, w) = 1..(Len(p) + 1) /\ DOMAIN p = 1..Len(p) /\ Len(p) \in Nat
      /\ Append(p, w)[Len(p) + 1] = w
      /\ \A j \in 1..Len(p) : Append(p, w)[j] = p[j]
      BY <1>1, <1>3
<1>5. ASSUME NEW j \in DOMAIN Append(p, w), Append(p, w)[j] # Nobody
      PROVE  MayBeNamed(seats, Append(p, w)[j])
  <2>1. j \in 1..Len(p) \/ j = Len(p) + 1
        BY <1>4
  <2>2. \A k \in DOMAIN p : p[k] # Nobody => MayBeNamed(seats, p[k])
        BY DEF Fair
  <2> QED
      BY <1>3, <1>4, <1>5, <2>1, <2>2
<1>6. ASSUME Unnamed(list, seats, earned),
             NEW s \in DOMAIN seats, NEW t \in DOMAIN seats, seats[s].on, seats[t].on,
             seats[s].cost = seats[t].cost, seats[s].kinds = seats[t].kinds
      PROVE  Held(Append(p, w), s) <= Held(Append(p, w), t) + 1
  <2>1. Held(p, s) <= Held(p, t) + 1 /\ Held(p, s) \in Nat /\ Held(p, t) \in Nat
        BY <1>1, <1>6, HeldIsNat DEF Fair
  <2>2. /\ Held(Append(p, w), s) = Held(p, s) + IF w = s THEN 1 ELSE 0
        /\ Held(Append(p, w), t) = Held(p, t) + IF w = t THEN 1 ELSE 0
        BY <1>1, <1>3, HeldGrows
  <2>3. w = s => Held(p, s) <= Held(p, t)
    <3>1. s # Nobody
          BY RosterAssumption DEF Staff, Nobody
    <3> QED
        BY <1>3, <1>6, <3>1 DEF Unnamed
  <2> QED
      BY <2>1, <2>2, <2>3
<1>7. Fair(list, seats, earned, Append(p, w))
      BY <1>4, <1>5, <1>6 DEF Fair
<1> QED
    BY <1>2, <1>7

(* The plan is fair, and has a place for every unit.                       *)
LEMMA AssignedIs ==
    ASSUME NEW list \in Seq(Task), NEW seats, Staff(seats), NEW earned, Earning(earned)
    PROVE  /\ Fair(list, seats, earned, AssignWorkers(list, seats, earned))
           /\ Len(AssignWorkers(list, seats, earned)) = Len(list)
<1> DEFINE S == Seq(Seats \union {Nobody})
           n == Len(list)
           Rec(tree) == tree = [k \in 0..n |-> IF k = 0 THEN <<>>
                           ELSE Append(tree[k - 1], WorkerFor(list[k], seats, earned, tree[k - 1]))]
           step == [k \in Nat |-> [p \in S |->
                       IF k \in 1..n THEN Append(p, WorkerFor(list[k], seats, earned, p)) ELSE p]]
<1>1. <<>> \in S /\ n \in Nat /\ DOMAIN list = 1..n /\ \A k \in 1..n : list[k] \in Task
      OBVIOUS
<1>2. step \in [Nat -> [S -> S]]
  <2>1. ASSUME NEW k \in 1..n, NEW p \in S PROVE Append(p, WorkerFor(list[k], seats, earned, p)) \in S
    <3>1. PICK w : w = WorkerFor(list[k], seats, earned, p)
          OBVIOUS
    <3>2. Suits(list[k], seats, earned, p, w)
      <4>1. PICK task \in Task : task = list[k]
            BY <1>1
      <4>2. Suits(task, seats, earned, p, WorkerFor(task, seats, earned, p))
            BY WorkerForIs
      <4> QED
          BY <3>1, <4>1, <4>2
    <3>3. w \in Seats \union {Nobody}
          BY <3>2 DEF Suits
    <3> QED
        BY <3>1, <3>3
  <2> QED
      BY <2>1
<1>3. \A k \in 1..n : \A p \in S : step[k][p] = Append(p, WorkerFor(list[k], seats, earned, p))
      OBVIOUS
<1> HIDE DEF S, step
<1>4. PICK g \in [0..n -> S] : g[0] = <<>> /\ \A k \in 1..n : g[k] = step[k][g[k - 1]]
  <2>1. Ladder!Walks(S, <<>>, step, n)
        BY <1>1, <1>2, Ladder!Walk
  <2> QED
      BY <2>1 DEF Ladder!Walks
<1>5. Rec(g)
  <2>1. ASSUME NEW k \in 1..n PROVE g[k] = Append(g[k - 1], WorkerFor(list[k], seats, earned, g[k - 1]))
    <3>1. g[k - 1] \in S
          BY <1>1
    <3> QED
        BY <1>3, <1>4, <3>1
  <2>2. \A k \in 0..n : g[k] = IF k = 0 THEN <<>>
                               ELSE Append(g[k - 1], WorkerFor(list[k], seats, earned, g[k - 1]))
    <3>1. \A k \in 0..n : k = 0 \/ k \in 1..n
          BY <1>1
    <3> QED
        BY <1>4, <2>1, <3>1
  <2>3. g = [k \in 0..n |-> g[k]]
        BY <1>4
  <2> QED
      BY <2>2, <2>3, Zenon
<1> DEFINE tree == CHOOSE f : Rec(f)
<1>6. Rec(tree)
  <2> HIDE DEF Rec
  <2> QED
      BY <1>5
<1>7. AssignWorkers(list, seats, earned) = tree[n]
      BY DEF AssignWorkers
<1>8. /\ tree[0] = <<>>
      /\ \A k \in 1..n : tree[k] = Append(tree[k - 1], WorkerFor(list[k], seats, earned, tree[k - 1]))
  <2> HIDE DEF tree
  <2>1. 0 \in 0..n /\ \A k \in 1..n : k \in 0..n /\ k # 0
        BY <1>1
  <2> QED
      BY <1>6, <2>1
<1> HIDE DEF tree
<1> DEFINE G == {k \in 0..n : Fair(list, seats, earned, tree[k]) /\ Len(tree[k]) = k}
<1>9. 0 \in G
  <2>1. Fair(list, seats, earned, <<>>) /\ Len(<<>>) = 0 /\ 0 \in 0..n
        BY <1>1, NobodyHolds
  <2> QED
      BY <1>8, <2>1
<1>10. ASSUME NEW k \in 1..n, k - 1 \in G PROVE k \in G
  <2>1. PICK p : p = tree[k - 1]
        OBVIOUS
  <2>2. Fair(list, seats, earned, p) /\ Len(p) = k - 1 /\ k \in DOMAIN list
        BY <1>1, <1>10, <2>1
  <2>3. Fair(list, seats, earned, Append(p, WorkerFor(list[k], seats, earned, p)))
        BY <2>2, FairGrows
  <2>4. tree[k] = Append(p, WorkerFor(list[k], seats, earned, p))
        BY <1>8, <2>1
  <2>5. Len(Append(p, WorkerFor(list[k], seats, earned, p))) = k
    <3>1. PICK w : w = WorkerFor(list[k], seats, earned, p)
          OBVIOUS
    <3>4. p \in Seq(Seats \union {Nobody})
          BY <2>2 DEF Fair
    <3>5. Suits(list[k], seats, earned, p, w)
      <4>1. PICK task \in Task : task = list[k]
            BY <1>1
      <4>2. Suits(task, seats, earned, p, WorkerFor(task, seats, earned, p))
            BY <3>4, WorkerForIs
      <4> QED
          BY <3>1, <4>1, <4>2
    <3>2. p \in S /\ w \in Seats \union {Nobody}
          BY <3>4, <3>5 DEF Suits, S
    <3>3. Len(Append(p, w)) = k
          BY <1>1, <2>2, <3>2 DEF S
    <3> QED
        BY <3>1, <3>3
  <2>6. Fair(list, seats, earned, tree[k]) /\ Len(tree[k]) = k /\ k \in 0..n
        BY <1>1, <2>3, <2>4, <2>5
  <2> QED
      BY <2>6
<1>11. 0..n \subseteq G
  <2> HIDE DEF G, n
  <2>1. \A k \in 1..n : k - 1 \in G => k \in G
        BY <1>10
  <2>2. n \in Nat
        BY <1>1
  <2> QED
      BY <1>9, <2>1, <2>2, Upward
<1>12. n \in G
      BY <1>1, <1>11
<1> QED
    BY <1>7, <1>12

-----------------------------------------------------------------------------
THEOREM InitHolds == Init => IInv
<1> SUFFICES ASSUME Init PROVE IInv
    OBVIOUS
<1>1. Units = {}
      BY DEF Init, Units, IdsOf, NoTasks
<1>2. Shaped
      BY DEF Init, Shaped, NoTasks, Early, UnitStates
<1> QED
    BY <1>1, <1>2 DEF IInv, Init, Searching, Sound, Ordered, AskedInOrder, WholeGraphRuns, Early

-----------------------------------------------------------------------------
(* Steps before the run.                                                   *)

(* Whatever graph is taken up or given up, nothing has moved yet.          *)
LEMMA GraphTaken ==
    ASSUME IInv, phase \in Early, NEW graph \in Seq(Task),
           Blocked(graph) \/ Check(graph)
    PROVE  IInv'
<1>1. tasks' = graph /\ Units' = IdsOf(graph)
      BY DEF Blocked, Check, Units
<1>2. unit' = unit /\ \A u \in Ids : unit[u] = "waiting"
      BY DEF Blocked, Check, IInv, Ordered
<1>3. Units' \subseteq Ids
      BY <1>1, IdsAreKnown
<1>4. phase' \in {"blocked", "checking"}
      BY DEF Blocked, Check
<1>5. Shaped'
      BY <1>1, <1>2, <1>4 DEF IInv, Shaped, Blocked, Check, Early
<1>6. Searching'
      BY <1>1, <1>4 DEF Searching, Blocked, Check
<1>7. Ordered'
  <2>1. \A u \in Ids : unit'[u] = "waiting"
        BY <1>2
  <2>2. AskedInOrder'
        BY <1>3, <2>1 DEF AskedInOrder
  <2> QED
        BY <1>3, <2>1, <2>2 DEF Ordered
<1> QED
    BY <1>4, <1>5, <1>6, <1>7 DEF IInv, Sound, WholeGraphRuns

LEMMA StartHolds == IInv /\ Start => IInv'
<1> SUFFICES ASSUME IInv, Start PROVE IInv'
    OBVIOUS
<1>1. phase = "start" /\ phase \in Early
      BY DEF Start, Early
<1>2. CASE Blocked(NoTasks)
  <2>1. NoTasks \in Seq(Task)
        BY DEF NoTasks
  <2> QED
        BY <1>1, <1>2, <2>1, GraphTaken
<1>3. CASE Check(call.graph)
  <2>1. call \in Calls
        BY DEF IInv, Shaped
  <2>2. call.graph \in Seq(Task)
        BY <2>1, SwarmAssumption
  <2> QED
        BY <1>1, <1>3, <2>2, GraphTaken
<1>4. CASE phase' = "asking" /\ UNCHANGED <<call, roster, tasks, remaining, plan, wave, unit>>
  <2>1. UNCHANGED <<Units, Done>> /\ \A u \in Ids : unit[u] = "waiting"
        BY <1>1, <1>4 DEF Units, Done, IInv, Ordered
  <2> QED
        BY <1>4, <2>1 DEF IInv, Shaped, Searching, Sound, Ordered, AskedInOrder, WholeGraphRuns, Early
<1> QED
    BY <1>2, <1>3, <1>4 DEF Start

LEMMA DecomposeHolds == IInv /\ Decompose => IInv'
<1> SUFFICES ASSUME IInv, phase = "asking", NEW graph \in Replies,
                    Blocked(NoTasks) \/ Blocked(graph) \/ Check(graph)
             PROVE  IInv'
    BY DEF Decompose
<1>1. graph \in Seq(Task) /\ NoTasks \in Seq(Task)
      BY SwarmAssumption DEF NoTasks
<1> QED
    BY <1>1, GraphTaken DEF Early

(* No unit of a knot can be removed: it follows another, which remains.    *)
LEMMA PruneHolds == ASSUME NEW u \in Ids PROVE IInv /\ Prune(u) => IInv'
<1> SUFFICES ASSUME IInv, Prune(u) PROVE IInv'
    OBVIOUS
<1>1. UNCHANGED <<call, tasks, phase, unit, Units, Done>> /\ phase = "checking"
      BY DEF Prune, Units, Done
<1>2. ASSUME NEW S \in SUBSET Units, Knot(tasks, S)
      PROVE  S \subseteq remaining \ {u}
  <2>1. S \subseteq remaining
        BY <1>1, <1>2 DEF IInv, Searching
  <2>2. u \notin S
        BY <1>2, <2>1 DEF Prune, Removable, Knot
  <2> QED
        BY <2>1, <2>2
<1>3. Searching'
      BY <1>1, <1>2 DEF Searching, Prune
<1> QED
    BY <1>1, <1>3 DEF IInv, Shaped, Sound, Ordered, AskedInOrder, WholeGraphRuns

LEMMA CheckedHolds == IInv /\ Checked => IInv'
<1> SUFFICES ASSUME IInv, Checked PROVE IInv'
    OBVIOUS
<1>1. phase = "checking" /\ phase \in Early /\ tasks \in Seq(Task)
      BY DEF Checked, Early, IInv, Shaped
<1>2. CASE Blocked(tasks)
      BY <1>1, <1>2, GraphTaken
<1>3. CASE /\ ~Faulty(tasks, call.profile) /\ remaining = {}
           /\ phase' = "assigning"
           /\ UNCHANGED <<call, roster, tasks, remaining, plan, wave, unit>>
  <2>1. UNCHANGED <<Units, Done>> /\ \A u \in Ids : unit[u] = "waiting"
        BY <1>1, <1>3 DEF Units, Done, IInv, Ordered
  <2>2. \A S \in SUBSET Units : Knot(tasks, S) => S = {}
        BY <1>1, <1>3 DEF IInv, Searching
  <2>3. \A u \in Units : After(tasks, u) \subseteq Units
        BY <1>1, <1>3, FaultlessIsClosed DEF Units
  <2> QED
        BY <1>1, <1>3, <2>1, <2>2, <2>3
        DEF IInv, Shaped, Searching, Sound, Ordered, AskedInOrder, WholeGraphRuns, Early
<1> QED
    BY <1>2, <1>3 DEF Checked

LEMMA AssignHolds == IInv /\ Assign => IInv'
<1> SUFFICES ASSUME IInv, Assign PROVE IInv'
    OBVIOUS
<1>1. UNCHANGED <<call, tasks, unit, Units, Done>> /\ phase = "assigning"
      BY DEF Assign, Units, Done
<1>2. phase' \in {"blocked", "running", "plan"}
      BY DEF Assign
<1>3. \A u \in Ids : unit[u] = "waiting"
      BY <1>1 DEF IInv, Ordered, Early
<1> QED
    BY <1>1, <1>2, <1>3
    DEF IInv, Shaped, Searching, Sound, Ordered, AskedInOrder, WholeGraphRuns, Early

-----------------------------------------------------------------------------
(* Steps of the run.                                                       *)

(* Units that are left over when nothing is ready are a knot: there are    *)
(* none.                                                                   *)
LEMMA NothingReadyMeansDone ==
    ASSUME IInv, phase = "running", Ready = {}
    PROVE  Done = Units
<1>1. ASSUME NEW u \in Units \ Done
      PROVE  After(tasks, u) \intersect (Units \ Done) # {}
  <2>1. ~(After(tasks, u) \subseteq Done)
        BY <1>1 DEF Ready
  <2>2. After(tasks, u) \subseteq Units
        BY <1>1 DEF IInv, Sound
  <2> QED
        BY <2>1, <2>2
<1>2. Knot(tasks, Units \ Done)
      BY <1>1 DEF Knot
<1>3. Units \ Done = {}
      BY <1>2 DEF IInv, Sound
<1> QED
    BY <1>3 DEF Done

LEMMA StartWaveHolds == IInv /\ StartWave => IInv'
<1> SUFFICES ASSUME IInv, StartWave PROVE IInv'
    OBVIOUS
<1>1. UNCHANGED <<call, tasks, Units>> /\ phase = "running"
      BY DEF StartWave, Units
<1>2. phase' = (IF Ready = {} THEN "full" ELSE "running")
      BY <1>1 DEF StartWave
<1>3. unit \in [Ids -> UnitStates] /\ Units \subseteq Ids
      BY IdsAreKnown DEF IInv, Shaped, Units
<1>4. /\ unit' \in [Ids -> UnitStates]
      /\ \A u \in Ids : unit'[u] = IF u \in Ready THEN "queued" ELSE unit[u]
      BY <1>3 DEF StartWave, UnitStates
<1>5. Done' = Done
      BY <1>1, <1>3, <1>4 DEF Done, Ready
<1>6. Shaped'
      BY <1>1, <1>2, <1>4 DEF IInv, Shaped
<1>7. Sound' /\ Searching'
      BY <1>1, <1>2 DEF IInv, Sound, Searching
<1>8. Ordered'
  <2>1. phase' \notin Early
        BY <1>2 DEF Early
  <2>2. \A u \in Units : unit'[u] # "waiting" => After(tasks, u) \subseteq Done
        BY <1>3, <1>4 DEF IInv, Ordered, Ready
  <2>3. AskedInOrder'
    <3>1. ASSUME NEW u \in Units, unit'[u] \in {"asked", "asked again", "ok"},
                 NEW d \in After(tasks, u)
          PROVE  unit'[d] = "ok"
      <4>1. unit[u] = unit'[u]
            BY <1>3, <1>4, <3>1
      <4>2. unit[d] = "ok" /\ d \in Done
            BY <3>1, <4>1 DEF IInv, Ordered, AskedInOrder
      <4> QED
          BY <1>3, <1>4, <4>2 DEF Ready, Done
    <3>2. ASSUME NEW u \in Units, unit'[u] = "skipped"
          PROVE  \E d \in After(tasks, u) : unit'[d] \in {"failed", "skipped"}
      <4>1. unit[u] = unit'[u]
            BY <1>3, <1>4, <3>2
      <4>2. PICK d \in After(tasks, u) : unit[d] \in {"failed", "skipped"}
            BY <3>2, <4>1 DEF IInv, Ordered, AskedInOrder
      <4>3. d \in Done
            BY <3>2, <4>1 DEF IInv, Ordered
      <4> QED
          BY <1>3, <1>4, <4>2, <4>3 DEF Ready, Done
    <3> QED
        BY <1>1, <3>1, <3>2 DEF AskedInOrder
  <2> QED
      BY <1>1, <1>5, <2>1, <2>2, <2>3 DEF Ordered
<1>9. WholeGraphRuns'
      BY <1>1, <1>2, <1>5, NothingReadyMeansDone DEF WholeGraphRuns
<1> QED
    BY <1>6, <1>7, <1>8, <1>9 DEF IInv

(* What a unit may become without disturbing the order: anything but       *)
(* waiting, when it has moved already, is not done, is only asked for once *)
(* all it follows did well, and only left out when some of it did not.     *)
LEMMA MoveHolds ==
    ASSUME IInv, NEW u \in Ids, NEW to \in UnitStates \ {"waiting"},
           unit[u] \in {"queued", "asked", "asked again"},
           unit[u] = "queued" /\ u \in Units /\ to \in {"asked", "asked again", "ok"}
               => \A d \in After(tasks, u) : unit[d] = "ok",
           to = "skipped" => MustSkip(u),
           Move(u, to)
    PROVE  IInv'
<1>1. UNCHANGED <<call, tasks, phase, remaining, Units>>
      BY DEF Move, Units
<1>2. unit \in [Ids -> UnitStates] /\ Units \subseteq Ids
      BY IdsAreKnown DEF IInv, Shaped, Units
<1>3. /\ unit' \in [Ids -> UnitStates]
      /\ \A v \in Ids : unit'[v] = IF v = u THEN to ELSE unit[v]
      BY <1>2 DEF Move
<1>4. Done \subseteq Done'
      BY <1>1, <1>2, <1>3 DEF Done
<1>5. Shaped' /\ Sound' /\ Searching'
      BY <1>1, <1>3 DEF IInv, Shaped, Sound, Searching
<1>6. phase \notin Early
      BY DEF IInv, Ordered
<1>7. \A v \in Units : unit'[v] # "waiting" => After(tasks, v) \subseteq Done'
      BY <1>2, <1>3, <1>4 DEF IInv, Ordered
<1>8. AskedInOrder'
  <2>1. ASSUME NEW v \in Units, unit'[v] # "waiting", NEW d \in After(tasks, v)
        PROVE  d \in Done /\ unit'[d] = unit[d]
    <3>1. unit[v] # "waiting"
          BY <1>2, <1>3, <2>1
    <3>2. d \in Done
          BY <2>1, <3>1 DEF IInv, Ordered
    <3> QED
        BY <1>2, <1>3, <3>2 DEF Done
  <2>2. ASSUME NEW v \in Units, unit'[v] \in {"asked", "asked again", "ok"},
               NEW d \in After(tasks, v)
        PROVE  unit[d] = "ok"
    <3>1. CASE v = u /\ unit[u] = "queued"
          BY <1>2, <1>3, <2>2, <3>1
    <3>2. CASE v = u /\ unit[u] # "queued"
          BY <2>2, <3>2 DEF IInv, Ordered, AskedInOrder
    <3>3. CASE v # u
          BY <1>2, <1>3, <2>2, <3>3 DEF IInv, Ordered, AskedInOrder
    <3> QED
        BY <3>1, <3>2, <3>3
  <2>3. ASSUME NEW v \in Units, unit'[v] = "skipped"
        PROVE  \E d \in After(tasks, v) : unit[d] \in {"failed", "skipped"}
    <3>1. CASE v = u
          BY <1>2, <1>3, <2>3, <3>1 DEF MustSkip
    <3>2. CASE v # u
          BY <1>2, <1>3, <2>3, <3>2 DEF IInv, Ordered, AskedInOrder
    <3> QED
        BY <3>1, <3>2
  <2>4. ASSUME NEW v \in Units, unit'[v] \in {"asked", "asked again", "ok"},
               NEW d \in After(tasks, v)
        PROVE  unit'[d] = "ok"
        BY <2>1, <2>2, <2>4
  <2>5. ASSUME NEW v \in Units, unit'[v] = "skipped"
        PROVE  \E d \in After(tasks, v) : unit'[d] \in {"failed", "skipped"}
        BY <2>1, <2>3, <2>5
  <2> QED
      BY <1>1, <2>4, <2>5 DEF AskedInOrder
<1>9. WholeGraphRuns'
      BY <1>1, <1>4 DEF IInv, WholeGraphRuns, Done
<1> QED
    BY <1>1, <1>5, <1>6, <1>7, <1>8, <1>9 DEF IInv, Ordered

LEMMA UnitStepHolds ==
    ASSUME NEW u \in Ids
    PROVE  IInv /\ (Skip(u) \/ Ask(u) \/ ShowFiles(u) \/ Answer(u)) => IInv'
<1> SUFFICES ASSUME IInv, Skip(u) \/ Ask(u) \/ ShowFiles(u) \/ Answer(u)
             PROVE  IInv'
    OBVIOUS
<1>1. CASE Skip(u)
      BY <1>1, MoveHolds DEF Skip, UnitStates
<1>2. CASE Ask(u)
  <2>1. ASSUME u \in Units PROVE \A d \in After(tasks, u) : unit[d] = "ok"
    <3>1. After(tasks, u) \subseteq Done
          BY <1>2, <2>1 DEF Ask, IInv, Ordered
    <3> QED
        BY <1>2, <3>1 DEF Ask, MustSkip, Done
  <2> QED
      BY <1>2, <2>1, MoveHolds DEF Ask, UnitStates
<1>3. CASE ShowFiles(u)
      BY <1>3, MoveHolds DEF ShowFiles, UnitStates
<1>4. CASE Answer(u)
      BY <1>4, MoveHolds DEF Answer, UnitStates
<1> QED
    BY <1>1, <1>2, <1>3, <1>4

LEMMA Stutters ==
    ASSUME IInv, UNCHANGED <<call, tasks, phase, remaining, unit>>
    PROVE  IInv'
<1>1. UNCHANGED <<Units, Done>>
      BY DEF Units, Done
<1> QED
    BY <1>1 DEF IInv, Shaped, Searching, Sound, Ordered, AskedInOrder, WholeGraphRuns

THEOREM StepHolds == IInv /\ [Next]_vars => IInv'
<1> SUFFICES ASSUME IInv, [Next]_vars PROVE IInv'
    OBVIOUS
<1>1. CASE Start
      BY <1>1, StartHolds
<1>2. CASE Decompose
      BY <1>2, DecomposeHolds
<1>3. CASE Checked
      BY <1>3, CheckedHolds
<1>4. CASE Assign
      BY <1>4, AssignHolds
<1>5. CASE StartWave
      BY <1>5, StartWaveHolds
<1>6. CASE EndWave
      BY <1>6, Stutters DEF EndWave
<1>7. ASSUME NEW u \in Ids, Prune(u)
      PROVE  IInv'
      BY <1>7, PruneHolds
<1>8. ASSUME NEW u \in Ids, Skip(u) \/ Ask(u) \/ ShowFiles(u) \/ Answer(u)
      PROVE  IInv'
      BY <1>8, UnitStepHolds
<1>9. CASE UNCHANGED vars
      BY <1>9, Stutters DEF vars
<1> QED
    BY <1>1, <1>2, <1>3, <1>4, <1>5, <1>6, <1>7, <1>8, <1>9 DEF Next

-----------------------------------------------------------------------------
THEOREM Inductive == Spec => []IInv
<1> QED
    BY InitHolds, StepHolds, PTL DEF Spec

(* A validated graph cannot stall: whatever graph the planner writes, a    *)
(* run that reaches its end has a result for every unit of it.             *)
THEOREM GraphNeverStalls == Spec => []WholeGraphRuns
<1>1. IInv => WholeGraphRuns
      BY DEF IInv
<1> QED
    BY <1>1, Inductive, PTL

(* No seat is ever asked for a unit before all that it follows did well,   *)
(* and a unit is left out only if something it follows was or failed.      *)
THEOREM OrderHolds == Spec => []AskedInOrder
<1>1. IInv => AskedInOrder
      BY DEF IInv, Ordered
<1> QED
    BY <1>1, Inductive, PTL

(* The search by removal lets no circle through.                           *)
THEOREM SearchIsSound == Spec => []CirclesFound
<1>1. IInv => CirclesFound
      BY DEF IInv, Searching, Sound, CirclesFound
<1> QED
    BY <1>1, Inductive, PTL

-----------------------------------------------------------------------------
(* What the run keeps to.                                                  *)

(* The plan is what the roster and the options give, once it is made, and  *)
(* nothing of either changes under it.                                     *)
Planned ==
    /\ Staff(roster)
    /\ remaining \subseteq Units
    /\ phase \in {"start", "asking", "checking", "assigning"} => plan = <<>>
    /\ plan = <<>> \/ plan = AssignWorkers(Routed, Workers, Earned)
    /\ phase \in {"assigning", "running", "full"} => ~Faulty(tasks, call.profile)

(* Only units of the wave are about to be asked or out, one at a time when *)
(* that was asked for.                                                     *)
Paced ==
    /\ wave \subseteq Units
    /\ phase # "running" => wave = {}
    /\ \A u \in Ids : unit[u] \in {"queued", "asked", "asked again"} => u \in wave
    /\ OneAtATime

Keeps == IInv /\ Planned /\ Paced

LEMMA CrewStands ==
    ASSUME UNCHANGED <<call, roster, tasks>>
    PROVE  /\ Routed' = Routed /\ Workers' = Workers /\ Earned' = Earned
           /\ Units' = Units /\ Enabled' = Enabled /\ Working' = Working
BY DEF Routed, Workers, Earned, Units, Enabled, Working

(* The seats a run works with, and the units as they are routed.           *)
LEMMA CrewIs ==
    ASSUME IInv, Planned
    PROVE  /\ Staff(Workers) /\ Earning(Earned)
           /\ Routed \in Seq(Task) /\ Len(Routed) = Len(tasks)
           /\ DOMAIN Workers = Working
           /\ \A s \in Working : Workers[s] = roster[s]
           /\ \A s : MayBeNamed(Workers, s) <=> s \in Enabled
<1>1. DOMAIN roster \subseteq Seats /\ Working \subseteq DOMAIN roster
      BY DEF Planned, Staff, Working
<1>2. \A s \in DOMAIN roster : roster[s] \in Worker
      BY DEF Planned, Staff
<1>3. DOMAIN Workers = Working /\ \A s \in Working : Workers[s] = roster[s]
      BY DEF Workers
<1>4. Staff(Workers)
  <2>1. Workers \in [Working -> Worker]
        BY <1>1, <1>2 DEF Workers
  <2> QED
      BY <1>1, <1>3, <2>1 DEF Staff
<1>5. Earning(Earned)
      BY DEF Earning, Earned
<1>6. \A s : MayBeNamed(Workers, s) <=> s \in Enabled
      BY <1>3 DEF MayBeNamed, Enabled
<1>7. Routed \in Seq(Task) /\ Len(Routed) = Len(tasks)
  <2>1. PICK n \in Nat : n = Len(tasks) /\ DOMAIN tasks = 1..n /\ \A i \in 1..n : tasks[i] \in Task
        BY DEF IInv, Shaped
  <2>2. ASSUME NEW i \in 1..n PROVE Routed[i] \in Task
    <3>1. Routed[i] = IF /\ tasks[i].tier = "ui"
                         /\ call.picked \in Enabled /\ Accepts(roster[call.picked], tasks[i].kind)
                      THEN [tasks[i] EXCEPT !.provider = call.picked] ELSE tasks[i]
          BY <2>1 DEF Routed
    <3>2. call.picked \in Enabled => call.picked \in Seats
          BY <1>1 DEF Enabled
    <3> QED
        BY <2>1, <3>1, <3>2 DEF Task
  <2>3. DOMAIN Routed = 1..n /\ Routed = [i \in 1..n |-> Routed[i]]
        BY <2>1 DEF Routed
  <2>4. [i \in 1..n |-> Routed[i]] \in [1..n -> Task]
        BY <2>2
  <2>5. Routed \in [1..n -> Task]
        BY <2>3, <2>4, Zenon
  <2>6. Routed \in Seq(Task)
        BY <2>5
  <2> QED
      BY <2>1, <2>3, <2>6
<1> QED
    BY <1>3, <1>4, <1>5, <1>6, <1>7

(* What such a plan is like.                                               *)
LEMMA PlanIs ==
    ASSUME IInv, Planned, plan # <<>>
    PROVE  Fair(Routed, Workers, Earned, plan) /\ Len(plan) = Len(tasks)
<1>1. PICK list, seats, earned :
          list = Routed /\ seats = Workers /\ earned = Earned /\ list \in Seq(Task)
      BY CrewIs
<1>2. Staff(seats) /\ Earning(earned) /\ Len(list) = Len(tasks)
      BY <1>1, CrewIs
<1>3. /\ Fair(list, seats, earned, AssignWorkers(list, seats, earned))
      /\ Len(AssignWorkers(list, seats, earned)) = Len(list)
      BY <1>1, <1>2, AssignedIs
<1>4. plan = AssignWorkers(list, seats, earned)
      BY <1>1 DEF Planned
<1> QED
    BY <1>1, <1>2, <1>3, <1>4

LEMMA KeepsInitially == ASSUME Init PROVE Keeps
<1>1. IInv
      BY InitHolds
<1>2. Planned
      BY SwarmAssumption DEF Init, Planned, Staff
<1>3. Paced
      BY DEF Init, Paced, OneAtATime, Units, IdsOf, NoTasks
<1> QED
    BY <1>1, <1>2, <1>3 DEF Keeps

(* Before the run no unit moves.                                           *)
LEMMA EarlyKeeps ==
    ASSUME Keeps, IInv', phase \in {"start", "asking", "checking"},
           UNCHANGED <<call, roster, plan, wave, unit>>,
           phase' \in Early, remaining' \subseteq Units',
           phase' = "assigning" => ~Faulty(tasks', call.profile)
    PROVE  Planned' /\ Paced'
<1>1. plan = <<>> /\ wave = {} /\ Staff(roster)
      BY DEF Keeps, Planned, Paced
<1>2. Planned'
      BY <1>1 DEF Planned, Early, Staff
<1>3. \A u \in Ids : unit'[u] = "waiting"
      BY DEF IInv, Ordered
<1>4. Units' \subseteq Ids
      BY IdsAreKnown DEF IInv, Shaped, Units
<1>5. Paced'
      BY <1>1, <1>3, <1>4 DEF Paced, OneAtATime, Early
<1> QED
    BY <1>2, <1>5

(* During the run the graph, the roster and the plan stand.                *)
LEMMA LaterPlanned ==
    ASSUME Planned, UNCHANGED <<call, roster, tasks, plan, remaining>>,
           phase = phase' \/ (phase = "running" /\ phase' = "full")
    PROVE  Planned'
BY CrewStands DEF Planned, Staff

LEMMA AssignPlans ==
    ASSUME Keeps, IInv', Assign
    PROVE  Planned' /\ Paced'
<1>1. /\ phase = "assigning" /\ UNCHANGED <<call, roster, tasks, remaining, wave, unit>>
      /\ plan' = AssignWorkers(Routed, Workers, Earned)
      /\ phase' \in {"blocked", "running", "plan"}
      BY DEF Assign
<1>2. Routed' = Routed /\ Workers' = Workers /\ Earned' = Earned /\ Units' = Units
      BY <1>1, CrewStands
<1>3. Planned'
      BY <1>1, <1>2 DEF Keeps, Planned, Staff
<1>4. Paced'
      BY <1>1, <1>2 DEF Keeps, Paced, OneAtATime
<1> QED
    BY <1>3, <1>4

LEMMA StartWavePaces ==
    ASSUME Keeps, IInv', StartWave
    PROVE  Planned' /\ Paced'
<1>1. /\ phase = "running" /\ wave = {} /\ wave' = Ready
      /\ phase' = (IF Ready = {} THEN "full" ELSE "running")
      /\ UNCHANGED <<call, roster, tasks, remaining, plan>>
      BY DEF StartWave
<1>2. Planned'
      BY <1>1, LaterPlanned DEF Keeps
<1>3. Units' = Units /\ Units \subseteq Ids /\ Ready \subseteq Units
      BY <1>1, CrewStands, IdsAreKnown DEF Keeps, IInv, Shaped, Units, Ready
<1>4. \A u \in Ids : unit'[u] = IF u \in Ready THEN "queued" ELSE unit[u]
      BY DEF StartWave
<1>5. \A u \in Ids : unit[u] \notin {"queued", "asked", "asked again"}
      BY <1>1 DEF Keeps, Paced
<1>6. \A u \in Ids : /\ unit'[u] \in {"queued", "asked", "asked again"} => u \in wave'
                      /\ unit'[u] \notin {"asked", "asked again"}
      BY <1>1, <1>4, <1>5
<1>7. OneAtATime'
      BY <1>3, <1>6 DEF OneAtATime
<1>8. wave' \subseteq Units' /\ (phase' # "running" => wave' = {})
      BY <1>1, <1>3
<1>9. Paced'
      BY <1>6, <1>7, <1>8 DEF Paced
<1> QED
    BY <1>2, <1>9

(* A unit that moves is of the wave; one that is asked waits its turn.     *)
LEMMA MovePaces ==
    ASSUME Keeps, NEW u \in Ids, NEW to, Move(u, to),
           unit[u] \in {"queued", "asked", "asked again"},
           unit[u] = "queued" /\ to \in {"asked", "asked again"} => TurnOf(u)
    PROVE  Planned' /\ Paced'
<1>1. /\ UNCHANGED <<call, roster, tasks, phase, remaining, plan, wave>>
      /\ unit' = [unit EXCEPT ![u] = to]
      BY DEF Move
<1>2. Planned'
      BY <1>1, LaterPlanned DEF Keeps
<1>3. Units' = Units /\ Units \subseteq Ids /\ unit \in [Ids -> UnitStates]
      BY <1>1, CrewStands, IdsAreKnown DEF Keeps, IInv, Shaped, Units
<1>4. \A v \in Ids : unit'[v] = IF v = u THEN to ELSE unit[v]
      BY <1>1, <1>3
<1>5. /\ wave \subseteq Units /\ (phase # "running" => wave = {}) /\ OneAtATime
      /\ \A v \in Ids : unit[v] \in {"queued", "asked", "asked again"} => v \in wave
      BY DEF Keeps, Paced
<1>6. OneAtATime'
  <2> SUFFICES ASSUME call.sequential, NEW v \in Units, NEW w \in Units,
                      unit'[v] \in {"asked", "asked again"}, unit'[w] \in {"asked", "asked again"}
               PROVE  v = w
      BY <1>1, <1>3 DEF OneAtATime
  <2>1. ASSUME NEW x \in Units, x # u, unit'[x] \in {"asked", "asked again"},
               unit'[u] \in {"asked", "asked again"}
        PROVE  FALSE
    <3>1. unit[x] \in {"asked", "asked again"} /\ x \in wave /\ u \in Units
          BY <1>3, <1>4, <1>5, <2>1
    <3>2. unit[u] \notin {"asked", "asked again"}
          BY <1>5, <2>1, <3>1 DEF OneAtATime
    <3>3. TurnOf(u)
          BY <1>4, <2>1, <3>2
    <3> QED
        BY <3>1, <3>3 DEF TurnOf
  <2>2. CASE v = u \/ w = u
        BY <2>1, <2>2
  <2>3. CASE v # u /\ w # u
        BY <1>3, <1>4, <1>5, <2>3 DEF OneAtATime
  <2> QED
      BY <2>2, <2>3
<1>7. Paced'
      BY <1>1, <1>3, <1>4, <1>5, <1>6 DEF Paced
<1> QED
    BY <1>2, <1>7

LEMMA EndWavePaces ==
    ASSUME Keeps, EndWave
    PROVE  Planned' /\ Paced'
<1>1. /\ wave # {} /\ wave \subseteq Done /\ wave' = {}
      /\ UNCHANGED <<call, roster, tasks, phase, remaining, plan, unit>>
      BY DEF EndWave
<1>2. Planned'
      BY <1>1, LaterPlanned DEF Keeps
<1>3. \A u \in Ids : unit[u] \notin {"queued", "asked", "asked again"}
      BY <1>1 DEF Keeps, Paced, Done
<1>4. Units' = Units
      BY <1>1, CrewStands
<1>5. Paced'
      BY <1>1, <1>3, <1>4 DEF Keeps, Paced, OneAtATime
<1> QED
    BY <1>2, <1>5

LEMMA KeepsSteps == ASSUME Keeps, [Next]_vars PROVE Keeps'
<1>1. IInv'
      BY StepHolds DEF Keeps
<1>2. CASE Start \/ Decompose
  <2>1. phase \in {"start", "asking"}
        BY <1>2 DEF Start, Decompose
  <2>2. \/ \E graph : Blocked(graph) \/ Check(graph)
        \/ phase' = "asking" /\ UNCHANGED <<call, roster, tasks, remaining, plan, wave, unit>>
        BY <1>2 DEF Start, Decompose
  <2>3. CASE \E graph : Blocked(graph) \/ Check(graph)
    <3>1. PICK graph : Blocked(graph) \/ Check(graph)
          BY <2>3
    <3>2. /\ UNCHANGED <<call, roster, plan, wave, unit>> /\ phase' \in {"blocked", "checking"}
          /\ tasks' = graph /\ remaining' \in {{}, IdsOf(graph)}
          BY <3>1 DEF Blocked, Check
    <3>3. remaining' \subseteq Units'
          BY <3>2 DEF Units
    <3> QED
        BY <1>1, <2>1, <3>2, <3>3, EarlyKeeps DEF Early, Keeps
  <2>4. CASE phase' = "asking" /\ UNCHANGED <<call, roster, tasks, remaining, plan, wave, unit>>
    <3>1. remaining' \subseteq Units'
          BY <2>4 DEF Keeps, Planned, Units
    <3> QED
        BY <1>1, <2>1, <2>4, <3>1, EarlyKeeps DEF Early, Keeps
  <2> QED
      BY <2>2, <2>3, <2>4
<1>3. CASE Checked
  <2>1. /\ phase = "checking" /\ UNCHANGED <<call, roster, plan, wave, unit>> /\ tasks' = tasks
        /\ phase' \in {"blocked", "assigning"} /\ remaining' \in {{}, remaining}
        /\ phase' = "assigning" => ~Faulty(tasks, call.profile)
        BY <1>3 DEF Checked, Blocked
  <2>2. remaining' \subseteq Units'
        BY <2>1 DEF Keeps, Planned, Units
  <2> QED
      BY <1>1, <2>1, <2>2, EarlyKeeps DEF Early, Keeps
<1>4. ASSUME NEW u \in Ids, Prune(u) PROVE Keeps'
  <2>1. /\ phase = "checking" /\ UNCHANGED <<call, roster, tasks, phase, plan, wave, unit>>
        /\ remaining' = remaining \ {u}
        BY <1>4 DEF Prune
  <2>2. remaining' \subseteq Units'
        BY <2>1 DEF Keeps, Planned, Units
  <2> QED
      BY <1>1, <2>1, <2>2, EarlyKeeps DEF Early, Keeps
<1>5. CASE Assign
      BY <1>1, <1>5, AssignPlans DEF Keeps
<1>6. CASE StartWave
      BY <1>1, <1>6, StartWavePaces DEF Keeps
<1>7. CASE EndWave
      BY <1>1, <1>7, EndWavePaces DEF Keeps
<1>8. ASSUME NEW u \in Ids, Skip(u) \/ Ask(u) \/ ShowFiles(u) \/ Answer(u) PROVE Keeps'
  <2>1. PICK to : /\ Move(u, to) /\ unit[u] \in {"queued", "asked", "asked again"}
                  /\ unit[u] = "queued" /\ to \in {"asked", "asked again"} => TurnOf(u)
        BY <1>8 DEF Skip, Ask, ShowFiles, Answer
  <2> QED
      BY <1>1, <2>1, MovePaces DEF Keeps
<1>9. CASE UNCHANGED vars
  <2>1. UNCHANGED <<call, roster, tasks, phase, remaining, plan, wave, unit>>
        BY <1>9 DEF vars
  <2>2. Planned'
        BY <2>1, LaterPlanned DEF Keeps
  <2>3. Units' = Units
        BY <2>1, CrewStands
  <2>4. Paced'
        BY <2>1, <2>3 DEF Keeps, Paced, OneAtATime
  <2> QED
      BY <1>1, <2>2, <2>4 DEF Keeps
<1> QED
    BY <1>2, <1>3, <1>4, <1>5, <1>6, <1>7, <1>8, <1>9 DEF Next

(* Distinct units of a mode have no file in common.                        *)
LEMMA ApartIs == ASSUME Keeps PROVE FilesApart
<1> SUFFICES ASSUME call.profile # "none", phase = "running",
                    NEW u \in Units, NEW v \in Units, u # v
             PROVE  FilesOf(tasks, u) \intersect FilesOf(tasks, v) = {}
    BY DEF FilesApart
<1>1. ~Faulty(tasks, call.profile) /\ tasks \in Seq(Task)
      BY DEF Keeps, IInv, Shaped, Planned
<1>2. ASSUME NEW x \in Units
      PROVE  Place(tasks, x) \in DOMAIN tasks /\ tasks[Place(tasks, x)].id = x
  <2>1. PICK i \in DOMAIN tasks : tasks[i].id = x
        BY <1>2 DEF Units, IdsOf
  <2>2. \A j \in DOMAIN tasks : tasks[j].id = x => j = i
        BY <1>1, <2>1 DEF Faulty, Repeats
  <2>3. i \in Int
        BY <1>1
  <2> QED
      BY <2>1, <2>2, <2>3 DEF Place
<1> QED
    BY <1>1, <1>2 DEF FilesOf, Faulty, Overlap

LEMMA PlanKept == ASSUME Keeps PROVE KeepsToPlan /\ LoadIsSpread
<1>1. IInv /\ Planned /\ Paced
      BY DEF Keeps
<1>2. \/ plan = <<>>
      \/ Fair(Routed, Workers, Earned, plan) /\ Len(plan) = Len(tasks)
      BY <1>1, PlanIs
<1>3. plan \in Seq(Seats \union {Nobody}) /\ Len(plan) \in {0, Len(tasks)}
  <2>1. CASE plan = <<>>
        BY <2>1
  <2>2. CASE plan # <<>>
        BY <1>2, <2>2 DEF Fair
  <2> QED
      BY <2>1, <2>2
<1>4. TypeOK
  <2>1. phase \in {"start", "asking", "checking", "assigning", "running"} \union Ended
        BY <1>1 DEF IInv, Shaped, Early, Ended
  <2> QED
      BY <1>1, <1>3, <2>1 DEF TypeOK, IInv, Shaped, Planned, Paced, Staff
<1>5. OffNeverAssigned
  <2> SUFFICES ASSUME NEW i \in DOMAIN plan, plan[i] # Nobody
               PROVE  /\ roster[plan[i]].on
                      /\ call.profile = "fastest" => roster[plan[i]].cost # Free
      BY DEF OffNeverAssigned
  <2>1. plan # <<>>
        OBVIOUS
  <2>2. MayBeNamed(Workers, plan[i])
        BY <1>2, <2>1 DEF Fair
  <2>3. plan[i] \in Enabled
        BY <1>1, <2>2, CrewIs
  <2> QED
      BY <2>3 DEF Enabled, Working
<1>6. LoadIsSpread
  <2> SUFFICES ASSUME NEW s \in Enabled, NEW t \in Enabled,
                      roster[s].cost = roster[t].cost, roster[s].kinds = roster[t].kinds,
                      \A i \in DOMAIN plan : Routed[i].provider \notin Enabled,
                      call.winner \notin Enabled
               PROVE  Held(plan, s) <= Held(plan, t) + 1
      BY DEF LoadIsSpread
  <2>1. CASE plan = <<>>
        BY <2>1, NoneHeld
  <2>2. CASE plan # <<>>
    <3>1. DOMAIN plan = DOMAIN Routed
      <4>1. Len(plan) = Len(Routed) /\ Routed \in Seq(Task)
            BY <1>1, <1>2, <2>2, CrewIs
      <4> QED
          BY <1>3, <4>1
    <3>2. /\ \A x : MayBeNamed(Workers, x) <=> x \in Enabled
          /\ DOMAIN Workers = Working /\ \A x \in Working : Workers[x] = roster[x]
          BY <1>1, CrewIs
    <3>3. Unnamed(Routed, Workers, Earned)
      <4>1. Earned.winner = call.winner
            BY DEF Earned
      <4> QED
          BY <3>1, <3>2, <4>1 DEF Unnamed
    <3>4. s \in Working /\ t \in Working /\ roster[s].on /\ roster[t].on
          BY DEF Enabled
    <3> QED
        BY <1>2, <2>2, <3>2, <3>3, <3>4 DEF Fair
  <2> QED
      BY <2>1, <2>2
<1> QED
    BY <1>1, <1>4, <1>5, <1>6, ApartIs DEF KeepsToPlan, Paced

(* Off workers are never assigned, nor free ones in the fastest mode;      *)
(* units of a mode share no file; and a run asked to go one at a time does *)
(* (roster.ts:163-168, decompose.ts:199-203, swarm.ts:145-152).            *)
THEOREM PlanHolds == Spec => []KeepsToPlan
<1>1. Init /\ [][Next]_vars => []Keeps
      BY KeepsInitially, KeepsSteps, PTL
<1> QED
    BY <1>1, PlanKept, PTL DEF Spec

(* Of two workers of one class that take the same kinds, neither is drained*)
(* while the other sits idle (roster.ts:133-160).                          *)
THEOREM SpreadHolds == Spec => []LoadIsSpread
<1>1. Init /\ [][Next]_vars => []Keeps
      BY KeepsInitially, KeepsSteps, PTL
<1> QED
    BY <1>1, PlanKept, PTL DEF Spec
=============================================================================
