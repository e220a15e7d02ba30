-------------------------- MODULE WebTrafficProofs --------------------------
(***************************************************************************)
(* The search lanes, for any lanes, policies, searches and signals: what   *)
(* the director counts, which lane a search may turn to, and how long a    *)
(* bench stands; and the research round that puts its queries through      *)
(* them, for any seats, replies and widths of the pool.                    *)
(***************************************************************************)
EXTENDS Research, FiniteSetTheorems, TLAPS

Going(w) == w.pc \in {"probing", "running"}
InPlan(w, l) == \E i \in DOMAIN w.plan : w.plan[i] = l

(* What is left of an order and what was reported are all the lanes, and   *)
(* nothing included comes after a metered lane.                            *)
Ordered(w) ==
    /\ Lanes \subseteq w.attempts \union {l \in Lanes : InPlan(w, l)}
    /\ \A i, j \in DOMAIN w.plan : i < j /\ w.plan[i] \in Metered => w.plan[j] \in Metered

(* A search at time t: one under way is on a lane of an order made and     *)
(* begun no later, and one that failed has reported every lane.            *)
Sound(w, t) ==
    /\ w \in Search
    /\ w.at <= t /\ w.since <= t
    /\ Going(w) => w.plan # <<>> /\ Ordered(w)
    /\ w.pc = "failed" => w.attempts = Lanes

(* No lane of the order was benched before it was made.                    *)
Fresh(w, f) ==
    Going(w) => \A l \in Lanes : f[l] # Never /\ InPlan(w, l) => w.at <= f[l]

Counters ==
    /\ inFlight \in [Lanes -> Nat] /\ dispatched \in [Lanes -> Nat]
    /\ succeeded \in [Lanes -> Nat] /\ failed \in [Lanes -> Nat]
    /\ meanMs \in [Lanes -> Nat \union {Untried}]

Clock ==
    /\ policy \in Policies /\ now \in 0..Horizon /\ aborted \subseteq Signals
    /\ failedAt \in [Lanes -> 0..Horizon \union {Never}]
    /\ \A l \in Lanes : failedAt[l] <= now

Searching ==
    /\ search \in [Searches -> Search]
    /\ \A s \in Searches : Sound(search[s], now) /\ Fresh(search[s], failedAt)

(* The searches on a lane, and what one search adds to their number.       *)
OnLane(w, l) == w.pc = "running" /\ Head(w.plan) = l
AllOn(f, l) == {s \in Searches : OnLane(f[s], l)}
Bit(w, l) == IF OnLane(w, l) THEN 1 ELSE 0

Balanced ==
    \A l \in Lanes :
        /\ inFlight[l] = Cardinality(AllOn(search, l))
        /\ dispatched[l] = inFlight[l] + succeeded[l] + failed[l]

IInv == Clock /\ Counters /\ Searching /\ Balanced

-----------------------------------------------------------------------------
(* The invariant says what the runs check.                                 *)

LEMMA ImpliesTypeOK == IInv => TypeOK
<1> QED BY DEF IInv, Clock, Counters, Searching, Sound, Going, TypeOK

LEMMA ImpliesAccounted == IInv => Accounted
<1> SUFFICES ASSUME IInv PROVE Accounted
    OBVIOUS
<1>1. \A l \in Lanes : On(l) = AllOn(search, l)
      BY DEF On, AllOn, OnLane, Running, Lane
<1> QED BY <1>1, ImpliesTypeOK DEF IInv, Balanced, Accounted

LEMMA ImpliesCostLeads == IInv => CostLeads
<1> SUFFICES ASSUME IInv, NEW s \in Searches
             PROVE  /\ Going(search[s]) /\ Lane(s) \in Metered
                         => Lanes \ Metered \subseteq search[s].attempts
                    /\ search[s].pc = "failed" => search[s].attempts = Lanes
    BY DEF CostLeads, Going
<1> DEFINE w == search[s]
<1>1. w \in Search /\ w.plan \in Seq(Lanes) /\ Sound(w, now)
      BY DEF IInv, Searching, Search
<1>2. w.pc = "failed" => w.attempts = Lanes
      BY <1>1 DEF Sound
<1>3. ASSUME Going(w), Head(w.plan) \in Metered, NEW l \in Lanes \ Metered
      PROVE  l \in w.attempts
      <2>1. w.plan # <<>> /\ Ordered(w)
            BY <1>1, <1>3 DEF Sound
      <2>2. 1 \in DOMAIN w.plan /\ w.plan[1] \in Metered
            BY <1>1, <1>3, <2>1
      <2>3. \A j \in DOMAIN w.plan : w.plan[j] \in Metered
            BY <1>1, <2>1, <2>2 DEF Ordered
      <2>4. ~InPlan(w, l)
            BY <1>3, <2>3 DEF InPlan
      <2> QED BY <1>3, <2>1, <2>4 DEF Ordered
<1> QED BY <1>2, <1>3 DEF Lane

LEMMA ImpliesBenchStands == IInv => BenchStands
<1> QED BY DEF IInv, Searching, Fresh, Going, InPlan, BenchStands

-----------------------------------------------------------------------------
(* The steps of a walk, as records.                                        *)

(* A search that is at its first lane and not yet on it.                   *)
Ready(w, t) ==
    /\ w \in Search /\ w.pc \in {"waiting", "probing"}
    /\ w.at <= t /\ w.since <= t /\ Ordered(w)

LEMMA BegunIsSound ==
    ASSUME NEW t \in 0..Horizon, NEW w, Ready(w, t), w.plan # <<>>, NEW ear \in BOOLEAN
    PROVE  Sound([w EXCEPT !.pc = "running", !.since = t, !.spelling = 1, !.ear = ear], t)
<1> DEFINE v == [w EXCEPT !.pc = "running", !.since = t, !.spelling = 1, !.ear = ear]
<1>1. 1 \in 1..Spellings
      BY SearchesAssumption
<1>2. w \in Search /\ v \in Search
      BY <1>1 DEF Ready, Search
<1>3. v.pc = "running" /\ v.at = w.at /\ v.since = t /\ v.plan = w.plan /\ v.attempts = w.attempts
      BY <1>2 DEF Search
<1>4. Ordered(v)
      BY <1>3 DEF Ready, Ordered, InPlan
<1> QED BY <1>2, <1>3, <1>4 DEF Ready, Sound, Going

LEMMA ProbingIsSound ==
    ASSUME NEW t \in 0..Horizon, NEW w, Ready(w, t), w.plan # <<>>
    PROVE  Sound([w EXCEPT !.pc = "probing"], t)
<1> DEFINE v == [w EXCEPT !.pc = "probing"]
<1>1. w \in Search /\ v \in Search
      BY DEF Ready, Search
<1>2. v.pc = "probing" /\ v.at = w.at /\ v.since = w.since /\ v.plan = w.plan /\ v.attempts = w.attempts
      BY <1>1 DEF Search
<1>3. Ordered(v)
      BY <1>2 DEF Ready, Ordered, InPlan
<1> QED BY <1>1, <1>2, <1>3 DEF Ready, Sound, Going

LEMMA WaitingIsSound == Waiting \in Search /\ \A t \in Nat : Sound(Waiting, t)
<1>1. 1 \in 1..Spellings /\ 0 \in 0..Horizon /\ 0 \in 0..MaxSources
      BY SearchesAssumption
<1>2. Waiting.ear \in BOOLEAN
      BY Zenon DEF Waiting
<1>3. Waiting \in Search
      BY <1>1 DEF Waiting, Search, Ended
<1> QED BY <1>3 DEF Waiting, Sound, Going

LEMMA DoneIsSound ==
    ASSUME NEW t \in 0..Horizon, NEW w \in Search, NEW how \in Ended, NEW n \in 0..MaxSources,
           how = "failed" => w.attempts = Lanes
    PROVE  Sound(Done(how, w, n), t)
<1> DEFINE v == Done(how, w, n)
<1>1. Waiting \in Search
      BY WaitingIsSound
<1>2. v \in Search
      BY <1>1 DEF Done, Search
<1>3. v.pc = how /\ v.attempts = w.attempts /\ v.at = 0 /\ v.since = 0
      BY DEF Done, Waiting
<1> QED BY <1>2, <1>3, SearchesAssumption DEF Sound, Going, Ended

(* Nothing left to try means that every lane was reported.                 *)
LEMMA AllReported ==
    ASSUME NEW t, NEW w, Ready(w, t), w.plan = <<>>
    PROVE  w.attempts = Lanes
<1>1. w \in Search /\ w.attempts \subseteq Lanes
      BY DEF Ready, Search
<1>2. \A l : ~InPlan(w, l)
      BY DEF InPlan
<1> QED BY <1>1, <1>2 DEF Ready, Ordered

(* Giving up on the first lane of a sound walk leaves one ready to go on.  *)
LEMMA PastIsReady ==
    ASSUME NEW t \in 0..Horizon, NEW w, Sound(w, t), Going(w)
    PROVE  /\ Ready(Past(w), t) /\ Past(w).at = w.at
           /\ \A l \in Lanes : InPlan(Past(w), l) => InPlan(w, l)
<1> DEFINE v == Past(w)
<1>1. w \in Search /\ w.plan \in Seq(Lanes) /\ w.plan # <<>> /\ Ordered(w) /\ w.at <= t
      BY DEF Sound, Search
<1>2. /\ v.pc = "waiting" /\ v.since = 0 /\ v.at = w.at /\ v.plan = Tail(w.plan)
      /\ v.attempts = w.attempts \union {Head(w.plan)}
      BY DEF Past, Waiting
<1>3. Head(w.plan) \in Lanes /\ Tail(w.plan) \in Seq(Lanes)
      BY <1>1
<1>4. v \in Search
      BY <1>1, <1>3, WaitingIsSound DEF Past, Search
<1>5. \A i \in DOMAIN Tail(w.plan) :
         i + 1 \in DOMAIN w.plan /\ i + 1 # 1 /\ Tail(w.plan)[i] = w.plan[i + 1]
      BY <1>1
<1>6. \A i \in DOMAIN w.plan : i = 1 \/ i - 1 \in DOMAIN Tail(w.plan)
      BY <1>1
<1>7. \A l \in Lanes : InPlan(v, l) => InPlan(w, l)
      BY <1>2, <1>5 DEF InPlan
<1>8. \A l \in Lanes : InPlan(w, l) => InPlan(v, l) \/ l = Head(w.plan)
      <2> SUFFICES ASSUME NEW i \in DOMAIN w.plan, i # 1
                   PROVE  \E j \in DOMAIN v.plan : v.plan[j] = w.plan[i]
          BY <1>1 DEF InPlan
      <2>1. i \in Nat /\ i - 1 \in DOMAIN Tail(w.plan)
            BY <1>1, <1>6
      <2>2. Tail(w.plan)[i - 1] = w.plan[i]
            BY <1>1, <2>1
      <2> QED BY <1>2, <2>1, <2>2
<1>9. \A i, j \in DOMAIN v.plan : i < j /\ v.plan[i] \in Metered => v.plan[j] \in Metered
      <2> SUFFICES ASSUME NEW i \in DOMAIN Tail(w.plan), NEW j \in DOMAIN Tail(w.plan),
                          i < j, Tail(w.plan)[i] \in Metered
                   PROVE  Tail(w.plan)[j] \in Metered
          BY <1>2
      <2>1. i \in Nat /\ j \in Nat
            BY <1>3
      <2> QED BY <1>1, <1>5, <2>1 DEF Ordered
<1>10. Ordered(v)
      BY <1>1, <1>2, <1>8, <1>9 DEF Ordered
<1> QED BY <1>1, <1>2, <1>4, <1>7, <1>10 DEF Ready

-----------------------------------------------------------------------------
(* The order of a new search.                                              *)

(* The keys of a lane never come before themselves.                        *)
LEMMA BeforeIsStrict ==
    ASSUME Counters, NEW l \in Lanes
    PROVE  ~Before(l, l)
<1>1. l \in Nat
      BY LanesAssumption DEF Lanes
<1>2. Weight(l) \in Nat /\ Speed(l) \in Int /\ Rank(l) \in Nat
      BY LanesAssumption DEF Counters, Weight, Speed, Rank, Untried
<1>3. inFlight[l] * Weight(l) \in Int /\ dispatched[l] * Weight(l) \in Int
      BY <1>2 DEF Counters
<1>4. ~LessBusy(l, l)
      BY <1>1, <1>3 DEF LessBusy, Less, Same
<1>5. ~Quicker(l, l)
      BY <1>2, <1>4 DEF Quicker
<1> QED BY <1>1, <1>2, <1>4, <1>5 DEF Before, ByPolicy

(* An order holds every usable lane, the metered ones last.                *)
LEMMA OrderIsReady ==
    ASSUME IInv, NEW p \in Orders
    PROVE  LET w == [ Waiting EXCEPT !.at = now, !.plan = p, !.attempts = Lanes \ Usable ]
           IN  Ready(w, now) /\ w.at = now /\ \A l \in Lanes : InPlan(w, l) => l \in Usable
<1> DEFINE w == [ Waiting EXCEPT !.at = now, !.plan = p, !.attempts = Lanes \ Usable ]
           n == Cardinality(Usable)
<1>1. Usable \subseteq Lanes
      BY LanesAssumption DEF Usable
<1>2. IsFiniteSet(Lanes)
      BY FS_Interval, LanesAssumption DEF Lanes
<1>3. IsFiniteSet(Usable)
      BY <1>1, <1>2, FS_Subset
<1>4. n \in Nat /\ IsFiniteSet(1..n) /\ Cardinality(1..n) = n
      BY <1>3, FS_CardinalityType, FS_Interval
<1>5. p \in [1..n -> Usable] /\ \A i, j \in 1..n : i < j => Before(p[i], p[j])
      BY DEF Orders
<1>6. p \in Injection(1..n, Usable)
      <2> SUFFICES ASSUME NEW i \in 1..n, NEW j \in 1..n, p[i] = p[j], i # j
                   PROVE  FALSE
          BY <1>5 DEF Injection, IsInjective
      <2>1. i < j \/ j < i
            BY <1>4
      <2>2. Before(p[i], p[i])
            BY <1>5, <2>1
      <2>3. p[i] \in Lanes
            BY <1>1, <1>5
      <2> QED BY <2>2, <2>3, BeforeIsStrict DEF IInv
<1>7. p \in Surjection(1..n, Usable)
      BY <1>3, <1>4, <1>6, FS_Injection
<1>8. p \in Seq(Lanes) /\ DOMAIN p = 1..n
      BY <1>1, <1>4, <1>5
<1>9. w.pc = "waiting" /\ w.since = 0 /\ w.at = now /\ w.plan = p /\ w.attempts = Lanes \ Usable
      BY DEF Waiting
<1>10. w \in Search
      BY <1>8, WaitingIsSound DEF IInv, Clock, Search
<1>11. \A l \in Lanes : InPlan(w, l) <=> l \in Usable
      BY <1>5, <1>7, <1>8, <1>9 DEF InPlan, Surjection
<1>12. \A i, j \in DOMAIN p : i < j /\ p[i] \in Metered => p[j] \in Metered
      BY <1>5, <1>8 DEF Before, Rank
<1>13. Ordered(w)
      BY <1>9, <1>11, <1>12 DEF Ordered
<1> QED BY <1>9, <1>10, <1>11, <1>13 DEF Ready, IInv, Clock

-----------------------------------------------------------------------------
(* Counting the searches on a lane.                                        *)

LEMMA CountMoves ==
    ASSUME search \in [Searches -> Search], NEW s \in Searches, NEW w, NEW l,
           search' = [search EXCEPT ![s] = w]
    PROVE  /\ Cardinality(AllOn(search, l)) \in Nat
           /\ Cardinality(AllOn(search', l)) =
                Cardinality(AllOn(search, l)) - Bit(search[s], l) + Bit(w, l)
<1> DEFINE a == AllOn(search, l)
           b == AllOn(search', l)
<1>1. IsFiniteSet(a)
      BY FS_Subset, SearchesAssumption DEF AllOn
<1>2. s \in a <=> Bit(search[s], l) = 1
      BY DEF AllOn, Bit
<1>3. Bit(search[s], l) \in {0, 1}
      BY DEF Bit
<1>4. \A r \in Searches : search'[r] = IF r = s THEN w ELSE search[r]
      OBVIOUS
<1>5. b = IF OnLane(w, l) THEN (a \ {s}) \cup {s} ELSE a \ {s}
      <2>1. \A r \in Searches : r # s => (r \in b <=> r \in a)
            BY <1>4 DEF AllOn
      <2>2. s \in b <=> OnLane(w, l)
            BY <1>4 DEF AllOn
      <2>3. a \subseteq Searches /\ b \subseteq Searches
            BY DEF AllOn
      <2> HIDE DEF a, b
      <2> QED BY <2>1, <2>2, <2>3
<1> HIDE DEF a, b
<1>6. IsFiniteSet(a \ {s}) /\ Cardinality(a \ {s}) = Cardinality(a) - Bit(search[s], l)
      <2>1. Cardinality(a \ {s}) = IF s \in a THEN Cardinality(a) - 1 ELSE Cardinality(a)
            BY <1>1, FS_RemoveElement
      <2>2. Cardinality(a) \in Nat
            BY <1>1, FS_CardinalityType
      <2> QED BY <1>1, <1>2, <1>3, <2>1, <2>2, FS_RemoveElement
<1>7. Cardinality(a) \in Nat /\ Cardinality(a \ {s}) \in Nat
      BY <1>1, <1>6, FS_CardinalityType
<1>8. Cardinality((a \ {s}) \cup {s}) = Cardinality(a \ {s}) + 1
      BY <1>6, FS_AddElement
<1>9. Cardinality(b) = Cardinality(a \ {s}) + Bit(w, l)
      BY <1>5, <1>7, <1>8 DEF Bit
<1>10. Cardinality(b) = Cardinality(a) - Bit(search[s], l) + Bit(w, l)
      BY <1>6, <1>9
<1> QED BY <1>7, <1>10 DEF a, b

(* One search moves on, and the counters with it.                          *)
LEMMA MoveKeepsBalance ==
    ASSUME IInv, Counters', NEW s \in Searches, NEW w,
           search' = [search EXCEPT ![s] = w],
           \A l \in Lanes :
               /\ inFlight'[l] = inFlight[l] - Bit(search[s], l) + Bit(w, l)
               /\ dispatched'[l] = dispatched[l] + Bit(w, l)
               /\ succeeded'[l] + failed'[l] = succeeded[l] + failed[l] + Bit(search[s], l)
    PROVE  Balanced'
<1> SUFFICES ASSUME NEW l \in Lanes
             PROVE  /\ inFlight'[l] = Cardinality(AllOn(search', l))
                    /\ dispatched'[l] = inFlight'[l] + succeeded'[l] + failed'[l]
    BY DEF Balanced
<1>1. Cardinality(AllOn(search', l)) = Cardinality(AllOn(search, l)) - Bit(search[s], l) + Bit(w, l)
      BY CountMoves DEF IInv, Searching
<1>2. /\ inFlight[l] = Cardinality(AllOn(search, l))
      /\ dispatched[l] = inFlight[l] + succeeded[l] + failed[l]
      BY DEF IInv, Balanced
<1>3. /\ {inFlight[l], dispatched[l], succeeded[l], failed[l]} \subseteq Nat
      /\ {inFlight'[l], dispatched'[l], succeeded'[l], failed'[l]} \subseteq Nat
      BY DEF IInv, Counters
<1>4. Bit(w, l) \in {0, 1} /\ Bit(search[s], l) \in {0, 1}
      BY DEF Bit
<1> QED BY <1>1, <1>2, <1>3, <1>4

(* The others stay sound and fresh: a lane benched now is benched no       *)
(* earlier than any of them was ordered.                                   *)
LEMMA MoveKeepsSearching ==
    ASSUME IInv, UNCHANGED now, NEW s \in Searches, NEW w,
           search' = [search EXCEPT ![s] = w],
           Sound(w, now), Fresh(w, failedAt'),
           \A l \in Lanes : failedAt'[l] \in {failedAt[l], now, Never}
    PROVE  Searching'
<1>1. search' \in [Searches -> Search]
      BY DEF IInv, Searching, Sound
<1>2. ASSUME NEW r \in Searches
      PROVE  Sound(search'[r], now) /\ Fresh(search'[r], failedAt')
      <2>1. CASE r = s
            BY <2>1 DEF IInv, Searching
      <2>2. CASE r # s
            <3>1. search'[r] = search[r] /\ Sound(search[r], now) /\ Fresh(search[r], failedAt)
                  BY <2>2 DEF IInv, Searching
            <3>2. search[r].at <= now
                  BY <3>1 DEF Sound
            <3>3. Fresh(search[r], failedAt')
                  BY <3>1, <3>2 DEF Fresh
            <3> QED BY <3>1, <3>3
      <2> QED BY <2>1, <2>2
<1> QED BY <1>1, <1>2 DEF Searching

(* A search moves from a sound record to another, and the counters with it. *)
LEMMA MoveKeeps ==
    ASSUME IInv, Clock', Counters', UNCHANGED now, NEW s \in Searches, NEW w,
           search' = [search EXCEPT ![s] = w], Sound(w, now), Fresh(w, failedAt'),
           \A l \in Lanes : failedAt'[l] \in {failedAt[l], now, Never},
           \A l \in Lanes : inFlight'[l] = inFlight[l] - Bit(search[s], l) + Bit(w, l),
           \A l \in Lanes : dispatched'[l] = dispatched[l] + Bit(w, l),
           \A l \in Lanes :
               succeeded'[l] + failed'[l] = succeeded[l] + failed[l] + Bit(search[s], l)
    PROVE  IInv'
<1>1. Searching'
      BY MoveKeepsSearching
<1>2. Balanced'
      BY MoveKeepsBalance
<1> QED BY <1>1, <1>2 DEF IInv

-----------------------------------------------------------------------------
(* Where a search goes from what is left of its order, in the three ways   *)
(* of Visit and Begin.                                                     *)
Onward(walk, t, w) ==
    \/ walk.plan = <<>> /\ w = Done("failed", walk, 0)
    \/ walk.plan # <<>> /\ w = [walk EXCEPT !.pc = "probing"]
    \/ /\ walk.plan # <<>>
       /\ \E ear \in BOOLEAN :
            w = [walk EXCEPT !.pc = "running", !.since = t, !.spelling = 1, !.ear = ear]

LEMMA OnwardIsSound ==
    ASSUME NEW t \in 0..Horizon, NEW walk, NEW w, Ready(walk, t), Onward(walk, t, w), NEW f,
           \A l \in Lanes : f[l] # Never /\ InPlan(walk, l) => walk.at <= f[l]
    PROVE  Sound(w, t) /\ Fresh(w, f)
<1>1. walk \in Search
      BY DEF Ready
<1>2. CASE walk.plan = <<>> /\ w = Done("failed", walk, 0)
      <2>1. walk.attempts = Lanes
            BY <1>2, AllReported
      <2>2. 0 \in 0..MaxSources /\ "failed" \in Ended
            BY SearchesAssumption DEF Ended
      <2>3. w.pc = "failed"
            BY <1>2 DEF Done, Waiting
      <2> QED BY <1>1, <1>2, <2>1, <2>2, <2>3, DoneIsSound DEF Fresh, Going
<1>3. CASE walk.plan # <<>> /\ w = [walk EXCEPT !.pc = "probing"]
      <2>1. w.plan = walk.plan /\ w.at = walk.at
            BY <1>1, <1>3 DEF Search
      <2> QED BY <1>3, <2>1, ProbingIsSound DEF Fresh, InPlan
<1>4. ASSUME walk.plan # <<>>, NEW ear \in BOOLEAN,
             w = [walk EXCEPT !.pc = "running", !.since = t, !.spelling = 1, !.ear = ear]
      PROVE  Sound(w, t) /\ Fresh(w, f)
      <2>1. w.plan = walk.plan /\ w.at = walk.at
            BY <1>1, <1>4 DEF Search
      <2> QED BY <1>4, <2>1, BegunIsSound DEF Fresh, InPlan
<1> QED BY <1>2, <1>3, <1>4 DEF Onward

(* A counter of the lanes after one search has got on one, or on none.     *)
Counting(n, w) == [l \in Lanes |-> n[l] + Bit(w, l)]

LEMMA CountingIs ==
    ASSUME NEW n \in [Lanes -> Nat], NEW w
    PROVE  /\ Counting(n, w) \in [Lanes -> Nat]
           /\ w.pc # "running" => Counting(n, w) = n
           /\ w.pc = "running" /\ Head(w.plan) \in Lanes
                => Counting(n, w) = [n EXCEPT ![Head(w.plan)] = @ + 1]
<1>1. \A l \in Lanes : Bit(w, l) \in {0, 1}
      BY DEF Bit
<1>2. ASSUME w.pc # "running" PROVE \A l \in Lanes : Bit(w, l) = 0
      BY <1>2 DEF Bit, OnLane
<1>3. ASSUME w.pc = "running" PROVE \A l \in Lanes : Bit(w, l) = IF l = Head(w.plan) THEN 1 ELSE 0
      BY <1>3 DEF Bit, OnLane
<1>4. w.pc # "running" => Counting(n, w) = n
      BY <1>2 DEF Counting
<1>5. w.pc = "running" /\ Head(w.plan) \in Lanes
        => Counting(n, w) = [n EXCEPT ![Head(w.plan)] = @ + 1]
      <2> SUFFICES ASSUME w.pc = "running", Head(w.plan) \in Lanes
                   PROVE  Counting(n, w) = [n EXCEPT ![Head(w.plan)] = @ + 1]
          OBVIOUS
      <2> DEFINE h == Head(w.plan)
      <2>1. \A l \in Lanes : Bit(w, l) = IF l = h THEN 1 ELSE 0
            BY <1>3
      <2> HIDE DEF h
      <2>2. \A l \in Lanes : n[l] + Bit(w, l) = [n EXCEPT ![h] = @ + 1][l]
            BY <2>1
      <2>3. Counting(n, w) = [n EXCEPT ![h] = @ + 1]
            BY <2>2 DEF Counting
      <2> QED BY <2>3 DEF h
<1> QED BY <1>1, <1>4, <1>5 DEF Counting

(* What Visit does is one of these, with the counters that go with it.     *)
LEMMA VisitIsOnward ==
    ASSUME NEW s \in Searches, NEW walk \in Search, NEW load \in [Lanes -> Nat],
           dispatched \in [Lanes -> Nat], Visit(s, walk, load)
    PROVE  \E w : /\ Onward(walk, now, w) /\ search' = [search EXCEPT ![s] = w]
                  /\ inFlight' = Counting(load, w) /\ dispatched' = Counting(dispatched, w)
<1>1. PICK ear \in BOOLEAN : ear = (Head(walk.plan) \in Metered \/ ~Aborted(s))
      OBVIOUS
<1>2. CASE walk.plan = <<>>
      <2> DEFINE w == Done("failed", walk, 0)
      <2>1. w.pc # "running"
            BY DEF Done, Waiting
      <2>2. search' = [search EXCEPT ![s] = w] /\ inFlight' = load /\ UNCHANGED dispatched
            BY <1>2 DEF Visit
      <2> QED BY <1>2, <2>1, <2>2, CountingIs DEF Onward
<1>3. CASE walk.plan # <<>> /\ Head(walk.plan) \in Metered
      <2> DEFINE w == [walk EXCEPT !.pc = "probing"]
      <2>1. w.pc # "running"
            BY DEF Search
      <2>2. search' = [search EXCEPT ![s] = w] /\ inFlight' = load /\ UNCHANGED dispatched
            BY <1>3 DEF Visit
      <2> QED BY <1>3, <2>1, <2>2, CountingIs DEF Onward
<1>4. CASE walk.plan # <<>> /\ Head(walk.plan) \notin Metered
      <2> DEFINE w == [walk EXCEPT !.pc = "running", !.since = now, !.spelling = 1, !.ear = ear]
      <2>1. w.pc = "running" /\ w.plan = walk.plan /\ Head(walk.plan) \in Lanes
            BY <1>4 DEF Search
      <2>2. /\ search' = [search EXCEPT ![s] = w]
            /\ inFlight' = [load EXCEPT ![Head(walk.plan)] = @ + 1]
            /\ dispatched' = [dispatched EXCEPT ![Head(walk.plan)] = @ + 1]
            BY <1>1, <1>4 DEF Visit, Begin
      <2>3. Onward(walk, now, w)
            BY <1>4 DEF Onward
      <2> HIDE DEF w
      <2>4. Counting(load, w) = [load EXCEPT ![Head(w.plan)] = @ + 1]
            BY <2>1, CountingIs
      <2>5. Counting(dispatched, w) = [dispatched EXCEPT ![Head(w.plan)] = @ + 1]
            BY <2>1, CountingIs
      <2> QED BY <2>1, <2>2, <2>3, <2>4, <2>5
<1> QED BY <1>2, <1>3, <1>4

-----------------------------------------------------------------------------
(* The steps.                                                              *)

LEMMA Initially == Init => IInv
<1> SUFFICES ASSUME Init PROVE IInv
    OBVIOUS
<1>1. 0 \in 0..Horizon /\ Never \in Int
      BY SearchesAssumption DEF Never
<1>2. Clock
      BY <1>1, SearchesAssumption DEF Init, Clock, Never
<1>3. Counters
      BY DEF Init, Counters
<1>4. Searching
      BY <1>1, WaitingIsSound DEF Init, Searching, Fresh, Going, Waiting
<1>5. \A l \in Lanes : AllOn(search, l) = {}
      BY DEF Init, AllOn, OnLane, Waiting
<1>6. Balanced
      BY <1>5, FS_EmptySet DEF Init, Balanced
<1> QED BY <1>2, <1>3, <1>4, <1>6 DEF IInv

LEMMA StartKeeps == ASSUME IInv, NEW s \in Searches, Start(s) PROVE IInv'
<1>1. PICK p \in Orders :
         Visit(s, [ Waiting EXCEPT !.at = now, !.plan = p, !.attempts = Lanes \ Usable ], inFlight)
      BY DEF Start
<1> DEFINE walk == [ Waiting EXCEPT !.at = now, !.plan = p, !.attempts = Lanes \ Usable ]
<1>2. Ready(walk, now) /\ walk.at = now /\ \A l \in Lanes : InPlan(walk, l) => l \in Usable
      BY OrderIsReady
<1>3. /\ failedAt' = Forgotten /\ search[s].pc = "waiting"
      /\ UNCHANGED <<policy, now, succeeded, failed, meanMs, aborted>>
      BY DEF Start
<1>4. /\ failedAt \in [Lanes -> 0..Horizon \union {Never}] /\ now \in 0..Horizon
      /\ inFlight \in [Lanes -> Nat] /\ dispatched \in [Lanes -> Nat]
      /\ succeeded \in [Lanes -> Nat] /\ failed \in [Lanes -> Nat]
      BY DEF IInv, Clock, Counters
<1>6. PICK w : /\ Onward(walk, now, w) /\ search' = [search EXCEPT ![s] = w]
               /\ inFlight' = Counting(inFlight, w) /\ dispatched' = Counting(dispatched, w)
      <2>1. walk \in Search
            BY <1>2 DEF Ready
      <2> HIDE DEF walk
      <2>2. Visit(s, walk, inFlight)
            BY <1>1 DEF walk
      <2> QED BY <1>4, <2>1, <2>2, VisitIsOnward
<1> HIDE DEF walk
<1>7. ASSUME NEW l \in Lanes
      PROVE  /\ failedAt'[l] \in {failedAt[l], now, Never}
             /\ failedAt'[l] # Never /\ InPlan(walk, l) => walk.at <= failedAt'[l]
      BY <1>2, <1>3, <1>4 DEF Forgotten
<1>8. failedAt' \in [Lanes -> 0..Horizon \union {Never}]
      BY <1>3, <1>4 DEF Forgotten
<1>9. Clock'
      BY <1>3, <1>7, <1>8 DEF IInv, Clock, Never
<1>10. Counters'
       BY <1>3, <1>4, <1>6, CountingIs DEF IInv, Counters
<1>11. Sound(w, now) /\ Fresh(w, failedAt')
       BY <1>2, <1>4, <1>6, <1>7, OnwardIsSound
<1>12. \A l \in Lanes : Bit(search[s], l) = 0
       BY <1>3 DEF Bit, OnLane
<1>13. ASSUME NEW l \in Lanes
       PROVE  /\ inFlight'[l] = inFlight[l] - Bit(search[s], l) + Bit(w, l)
              /\ dispatched'[l] = dispatched[l] + Bit(w, l)
              /\ succeeded'[l] + failed'[l] = succeeded[l] + failed[l] + Bit(search[s], l)
       <2>1. {inFlight[l], dispatched[l], succeeded[l], failed[l]} \subseteq Nat
             BY <1>4
       <2> QED BY <1>3, <1>6, <1>12, <2>1 DEF Counting
<1> QED BY <1>3, <1>6, <1>7, <1>9, <1>10, <1>11, <1>13, MoveKeeps

(* What is known of a search under way, and of the counters.               *)
LEMMA UnderWay ==
    ASSUME IInv, NEW s \in Searches, Going(search[s])
    PROVE  /\ search[s] \in Search /\ Sound(search[s], now) /\ Fresh(search[s], failedAt)
           /\ search[s].plan \in Seq(Lanes) /\ search[s].plan # <<>> /\ Lane(s) \in Lanes
           /\ failedAt \in [Lanes -> 0..Horizon \union {Never}] /\ now \in 0..Horizon
           /\ inFlight \in [Lanes -> Nat] /\ dispatched \in [Lanes -> Nat]
           /\ succeeded \in [Lanes -> Nat] /\ failed \in [Lanes -> Nat]
           /\ meanMs \in [Lanes -> Nat \union {Untried}]
<1>1. search[s] \in Search /\ Sound(search[s], now) /\ Fresh(search[s], failedAt)
      BY DEF IInv, Searching
<1>2. search[s].plan \in Seq(Lanes) /\ search[s].plan # <<>>
      BY <1>1 DEF Search, Sound
<1>3. Lane(s) \in Lanes
      BY <1>2 DEF Lane
<1> QED BY <1>1, <1>2, <1>3 DEF IInv, Clock, Counters

LEMMA BalanceKeeps == ASSUME IInv, NEW s \in Searches, Balance(s) PROVE IInv'
<1>1. /\ search[s].pc = "probing" /\ Going(search[s])
      /\ UNCHANGED <<policy, now, succeeded, failed, meanMs, failedAt, aborted>>
      BY DEF Balance, Going
<1>2. \A l \in Lanes : Bit(search[s], l) = 0
      BY <1>1 DEF Bit, OnLane
<1>3. PICK w : /\ Sound(w, now) /\ Fresh(w, failedAt) /\ search' = [search EXCEPT ![s] = w]
               /\ inFlight' = Counting(inFlight, w) /\ dispatched' = Counting(dispatched, w)
      <2>1. CASE Visit(s, Past(search[s]), inFlight)
            <3> DEFINE walk == Past(search[s])
            <3>1. Ready(walk, now) /\ walk.at = search[s].at
                  BY <1>1, UnderWay, PastIsReady
            <3>2. \A l \in Lanes : InPlan(walk, l) => InPlan(search[s], l)
                  BY <1>1, UnderWay, PastIsReady
            <3> HIDE DEF walk
            <3>3. Visit(s, walk, inFlight)
                  BY <2>1 DEF walk
            <3>4. walk \in Search
                  BY <3>1 DEF Ready
            <3>5. PICK w : /\ Onward(walk, now, w) /\ search' = [search EXCEPT ![s] = w]
                           /\ inFlight' = Counting(inFlight, w)
                           /\ dispatched' = Counting(dispatched, w)
                  BY <1>1, <3>3, <3>4, UnderWay, VisitIsOnward
            <3>6. \A l \in Lanes : failedAt[l] # Never /\ InPlan(walk, l) => walk.at <= failedAt[l]
                  BY <1>1, <3>1, <3>2, UnderWay DEF Fresh
            <3> QED BY <1>1, <3>1, <3>5, <3>6, UnderWay, OnwardIsSound
      <2>2. CASE Begin(s, search[s], inFlight)
            <3> DEFINE walk == search[s]
            <3>1. PICK ear \in BOOLEAN : ear = (Head(walk.plan) \in Metered \/ ~Aborted(s))
                  OBVIOUS
            <3>2. walk \in Search /\ walk.plan \in Seq(Lanes) /\ walk.plan # <<>>
                  BY <1>1, UnderWay
            <3>3. Ready(walk, now)
                  BY <1>1, UnderWay DEF Ready, Sound
            <3> HIDE DEF walk
            <3>4. Begin(s, walk, inFlight)
                  BY <2>2 DEF walk
            <3> DEFINE w == [walk EXCEPT !.pc = "running", !.since = now, !.spelling = 1, !.ear = ear]
            <3>5. /\ search' = [search EXCEPT ![s] = w]
                  /\ inFlight' = [inFlight EXCEPT ![Head(walk.plan)] = @ + 1]
                  /\ dispatched' = [dispatched EXCEPT ![Head(walk.plan)] = @ + 1]
                  BY <3>1, <3>4 DEF Begin
            <3>6. w.pc = "running" /\ w.plan = walk.plan /\ Head(w.plan) \in Lanes
                  BY <3>2 DEF Search
            <3>7. Onward(walk, now, w)
                  BY <3>2 DEF Onward
            <3> HIDE DEF w
            <3>8. Counting(inFlight, w) = [inFlight EXCEPT ![Head(w.plan)] = @ + 1]
                  BY <1>1, <3>6, UnderWay, CountingIs
            <3>9. Counting(dispatched, w) = [dispatched EXCEPT ![Head(w.plan)] = @ + 1]
                  BY <1>1, <3>6, UnderWay, CountingIs
            <3>10. \A l \in Lanes : failedAt[l] # Never /\ InPlan(walk, l) => walk.at <= failedAt[l]
                  BY <1>1, UnderWay DEF Fresh, walk
            <3>11. Sound(w, now) /\ Fresh(w, failedAt)
                  BY <1>1, <3>3, <3>7, <3>10, UnderWay, OnwardIsSound
            <3> QED BY <3>5, <3>6, <3>8, <3>9, <3>11
      <2> QED BY <2>1, <2>2 DEF Balance
<1>4. Clock'
      BY <1>1 DEF IInv, Clock
<1>5. Counters'
      BY <1>1, <1>3, UnderWay, CountingIs DEF Counters
<1>6. ASSUME NEW l \in Lanes
      PROVE  /\ inFlight'[l] = inFlight[l] - Bit(search[s], l) + Bit(w, l)
             /\ dispatched'[l] = dispatched[l] + Bit(w, l)
             /\ succeeded'[l] + failed'[l] = succeeded[l] + failed[l] + Bit(search[s], l)
      <2>1. {inFlight[l], dispatched[l], succeeded[l], failed[l]} \subseteq Nat
            BY <1>1, UnderWay
      <2> QED BY <1>1, <1>2, <1>3, <2>1 DEF Counting
<1>7. UNCHANGED <<now, failedAt>>
      BY <1>1
<1> QED BY <1>3, <1>4, <1>5, <1>6, <1>7, MoveKeeps

(* A search that is on a lane is counted there, so the count can be taken  *)
(* back.                                                                   *)
LEMMA LeavesLane ==
    ASSUME IInv, NEW s \in Searches, Running(s)
    PROVE  /\ Going(search[s])
           /\ \A l \in Lanes : Bit(search[s], l) = IF l = Lane(s) THEN 1 ELSE 0
           /\ [inFlight EXCEPT ![Lane(s)] = Lowered(@)] \in [Lanes -> Nat]
           /\ \A l \in Lanes :
                [inFlight EXCEPT ![Lane(s)] = Lowered(@)][l] = inFlight[l] - Bit(search[s], l)
<1>1. Going(search[s])
      BY DEF Running, Going
<1>2. Lane(s) \in Lanes /\ inFlight \in [Lanes -> Nat]
      BY <1>1, UnderWay
<1>3. \A l \in Lanes : Bit(search[s], l) = IF l = Lane(s) THEN 1 ELSE 0
      BY DEF Bit, OnLane, Running, Lane
<1>4. inFlight[Lane(s)] # 0
      <2> DEFINE a == AllOn(search, Lane(s))
      <2>1. s \in a
            BY DEF AllOn, OnLane, Running, Lane
      <2>2. IsFiniteSet(a)
            BY FS_Subset, SearchesAssumption DEF AllOn
      <2>3. inFlight[Lane(s)] = Cardinality(a)
            BY <1>2 DEF IInv, Balanced
      <2> HIDE DEF a
      <2> QED BY <2>1, <2>2, <2>3, FS_EmptySet
<1> DEFINE h == Lane(s)
           load == [inFlight EXCEPT ![h] = Lowered(@)]
<1>5. Lowered(inFlight[h]) = inFlight[h] - 1 /\ inFlight[h] - 1 \in Nat
      BY <1>2, <1>4 DEF Lowered
<1>6. \A l \in Lanes : load[l] = IF l = h THEN inFlight[h] - 1 ELSE inFlight[l]
      BY <1>2, <1>5
<1>7. load \in [Lanes -> Nat]
      BY <1>2, <1>5
<1> HIDE DEF load
<1>8. \A l \in Lanes : load[l] = inFlight[l] - Bit(search[s], l)
      BY <1>2, <1>3, <1>6
<1> QED BY <1>1, <1>3, <1>7, <1>8 DEF load

LEMMA FaultKeeps == ASSUME IInv, NEW s \in Searches, Fault(s) PROVE IInv'
<1> DEFINE h == Lane(s)
           walk == Past(search[s])
           load == [inFlight EXCEPT ![h] = Lowered(@)]
<1>1. /\ Running(s) /\ Visit(s, walk, load)
      /\ failed' = [failed EXCEPT ![h] = @ + 1] /\ failedAt' = [failedAt EXCEPT ![h] = now]
      /\ UNCHANGED <<policy, now, succeeded, meanMs, aborted>>
      BY DEF Fault
<1>2. Going(search[s]) /\ h \in Lanes
      BY <1>1, LeavesLane, UnderWay
<1>3. load \in [Lanes -> Nat] /\ \A l \in Lanes : load[l] = inFlight[l] - Bit(search[s], l)
      BY <1>1, LeavesLane
<1>4. \A l \in Lanes : Bit(search[s], l) = IF l = h THEN 1 ELSE 0
      BY <1>1, LeavesLane
<1>5. Ready(walk, now) /\ walk.at = search[s].at /\ walk \in Search
      BY <1>2, UnderWay, PastIsReady DEF Ready
<1>6. \A l \in Lanes : InPlan(walk, l) => InPlan(search[s], l)
      BY <1>2, UnderWay, PastIsReady
<1> HIDE DEF h, walk, load
<1>7. PICK w : /\ Onward(walk, now, w) /\ search' = [search EXCEPT ![s] = w]
               /\ inFlight' = Counting(load, w) /\ dispatched' = Counting(dispatched, w)
      BY <1>1, <1>2, <1>3, <1>5, UnderWay, VisitIsOnward
<1>8. ASSUME NEW l \in Lanes
      PROVE  /\ failedAt'[l] \in {failedAt[l], now, Never}
             /\ failedAt'[l] # Never /\ InPlan(walk, l) => walk.at <= failedAt'[l]
      <2>1. search[s].at <= now
            BY <1>2, UnderWay DEF Sound
      <2>2. failedAt'[l] = IF l = h THEN now ELSE failedAt[l]
            BY <1>1, <1>2, UnderWay
      <2>3. failedAt[l] # Never /\ InPlan(search[s], l) => search[s].at <= failedAt[l]
            BY <1>2, UnderWay DEF Fresh
      <2> QED BY <1>5, <1>6, <2>1, <2>2, <2>3
<1>9. Sound(w, now) /\ Fresh(w, failedAt')
      BY <1>2, <1>5, <1>7, <1>8, UnderWay, OnwardIsSound
<1>10. Clock'
       <2>1. failedAt' \in [Lanes -> 0..Horizon \union {Never}]
             BY <1>1, <1>2, UnderWay
       <2>2. \A l \in Lanes : failedAt'[l] <= now
             BY <1>1, <1>2 DEF IInv, Clock
       <2> QED BY <1>1, <2>1, <2>2 DEF IInv, Clock
<1>11. Counters'
       <2>1. failed' \in [Lanes -> Nat]
             BY <1>1, <1>2, UnderWay
       <2> QED BY <1>1, <1>2, <1>3, <1>7, <2>1, UnderWay, CountingIs DEF Counters
<1>12. ASSUME NEW l \in Lanes
       PROVE  /\ inFlight'[l] = inFlight[l] - Bit(search[s], l) + Bit(w, l)
              /\ dispatched'[l] = dispatched[l] + Bit(w, l)
              /\ succeeded'[l] + failed'[l] = succeeded[l] + failed[l] + Bit(search[s], l)
       <2>1. {inFlight[l], dispatched[l], succeeded[l], failed[l]} \subseteq Nat
             BY <1>2, UnderWay
       <2>2. failed'[l] = failed[l] + Bit(search[s], l) /\ succeeded'[l] = succeeded[l]
             BY <1>1, <1>2, <1>4, <2>1, UnderWay
       <2>3. Bit(search[s], l) \in {0, 1} /\ Bit(w, l) \in {0, 1}
             BY DEF Bit
       <2> QED BY <1>3, <1>7, <2>1, <2>2, <2>3 DEF Counting
<1>13. UNCHANGED now
       BY <1>1
<1> QED BY <1>7, <1>8, <1>9, <1>10, <1>11, <1>12, <1>13, MoveKeeps

(* A search settles well, answered or abandoned: the lane's bench is       *)
(* lifted.                                                                 *)
LEMMA SettleKeeps == ASSUME IInv, NEW s \in Searches, Answer(s) \/ Abandon(s) PROVE IInv'
<1> DEFINE h == Lane(s)
           ms == now - search[s].since
<1>1. /\ Running(s) /\ SettleOk(h, ms) /\ UNCHANGED <<policy, now, aborted>>
      BY DEF Answer, Abandon
<1>2. Going(search[s]) /\ h \in Lanes
      BY <1>1, LeavesLane, UnderWay
<1>3. ms \in Nat
      BY <1>2, UnderWay DEF Sound, Search
<1>4. \A l \in Lanes :
         [inFlight EXCEPT ![h] = Lowered(@)][l] = inFlight[l] - Bit(search[s], l)
      BY <1>1, LeavesLane
<1>5. \A l \in Lanes : Bit(search[s], l) = IF l = h THEN 1 ELSE 0
      BY <1>1, LeavesLane
<1>6. [inFlight EXCEPT ![h] = Lowered(@)] \in [Lanes -> Nat]
      BY <1>1, LeavesLane
<1>7. PICK how \in {"answered", "aborted"}, n \in 0..MaxSources :
         search' = [search EXCEPT ![s] = Done(how, search[s], n)]
      <2>1. 0 \in 0..MaxSources
            BY SearchesAssumption
      <2> QED BY <2>1 DEF Answer, Abandon
<1> DEFINE w == Done(how, search[s], n)
<1>8. w.pc = how
      BY DEF Done, Waiting
<1>9. Sound(w, now)
      BY <1>2, UnderWay, DoneIsSound DEF Ended
<1> HIDE DEF h, ms, w
<1>10. Fresh(w, failedAt')
       BY <1>8 DEF Fresh, Going
<1>11. /\ inFlight' = [inFlight EXCEPT ![h] = Lowered(@)]
       /\ succeeded' = [succeeded EXCEPT ![h] = @ + 1]
       /\ meanMs' = [meanMs EXCEPT ![h] = Rolled(@, ms)]
       /\ failedAt' = [failedAt EXCEPT ![h] = Never]
       /\ UNCHANGED <<dispatched, failed>>
       BY <1>1 DEF SettleOk
<1>12. \A l \in Lanes : failedAt'[l] \in {failedAt[l], now, Never}
       BY <1>2, <1>11, UnderWay
<1>13. Clock'
       <2>1. failedAt' \in [Lanes -> 0..Horizon \union {Never}]
             BY <1>2, <1>11, UnderWay
       <2>2. \A l \in Lanes : failedAt'[l] <= now
             BY <1>2, <1>11, UnderWay DEF IInv, Clock, Never
       <2> QED BY <1>1, <2>1, <2>2 DEF IInv, Clock
<1>14. Counters'
       <2>1. succeeded' \in [Lanes -> Nat]
             BY <1>2, <1>11, UnderWay
       <2>2. Rolled(meanMs[h], ms) \in Nat
             BY <1>2, <1>3, UnderWay DEF Rolled, Untried
       <2>3. meanMs' \in [Lanes -> Nat \union {Untried}]
             BY <1>2, <1>11, <2>2, UnderWay
       <2> QED BY <1>2, <1>6, <1>11, <2>1, <2>3, UnderWay DEF Counters
<1>15. ASSUME NEW l \in Lanes
       PROVE  /\ inFlight'[l] = inFlight[l] - Bit(search[s], l) + Bit(w, l)
              /\ dispatched'[l] = dispatched[l] + Bit(w, l)
              /\ succeeded'[l] + failed'[l] = succeeded[l] + failed[l] + Bit(search[s], l)
       <2>1. {inFlight[l], dispatched[l], succeeded[l], failed[l]} \subseteq Nat
             BY <1>2, UnderWay
       <2>2. succeeded'[l] = succeeded[l] + Bit(search[s], l) /\ failed'[l] = failed[l]
             BY <1>2, <1>5, <1>11, <2>1, UnderWay
       <2>3. Bit(search[s], l) \in {0, 1} /\ Bit(w, l) = 0
             BY <1>8 DEF Bit, OnLane
       <2> QED BY <1>4, <1>11, <2>1, <2>2, <2>3
<1>16. search' = [search EXCEPT ![s] = w] /\ UNCHANGED now
       BY <1>1, <1>7 DEF w
<1> QED BY <1>9, <1>10, <1>12, <1>13, <1>14, <1>15, <1>16, MoveKeeps

LEMMA RespellKeeps == ASSUME IInv, NEW s \in Searches, Respell(s) PROVE IInv'
<1>1. /\ Running(s) /\ search[s].spelling < Spellings
      /\ search' = [search EXCEPT ![s].spelling = @ + 1, ![s].ear = ~Aborted(s)]
      /\ UNCHANGED <<policy, now, lanes, aborted>>
      BY DEF Respell
<1>2. Going(search[s]) /\ search[s] \in Search /\ Sound(search[s], now) /\ Fresh(search[s], failedAt)
      BY <1>1, LeavesLane, UnderWay
<1>3. PICK ear \in BOOLEAN : ear = ~Aborted(s)
      OBVIOUS
<1> DEFINE w == [search[s] EXCEPT !.spelling = @ + 1, !.ear = ear]
<1>4. search' = [search EXCEPT ![s] = w]
      BY <1>1, <1>3 DEF IInv, Searching
<1>5. search[s].spelling + 1 \in 1..Spellings
      BY <1>1, <1>2, SearchesAssumption DEF Search
<1>6. w \in Search
      BY <1>2, <1>5 DEF Search
<1>7. /\ w.pc = search[s].pc /\ w.plan = search[s].plan /\ w.at = search[s].at
      /\ w.since = search[s].since /\ w.attempts = search[s].attempts
      BY <1>2 DEF Search
<1>8. Sound(w, now) /\ Fresh(w, failedAt)
      BY <1>2, <1>6, <1>7 DEF Sound, Fresh, Going, Ordered, InPlan
<1> HIDE DEF w
<1>9. UNCHANGED <<now, inFlight, dispatched, succeeded, failed, meanMs, failedAt, policy, aborted>>
      BY <1>1 DEF lanes
<1>10. Searching'
       BY <1>4, <1>8, <1>9, MoveKeepsSearching
<1>11. \A l \in Lanes : AllOn(search', l) = AllOn(search, l)
       <2> SUFFICES ASSUME NEW l \in Lanes, NEW r \in Searches
                    PROVE  OnLane(search'[r], l) <=> OnLane(search[r], l)
           BY DEF AllOn
       <2>1. CASE r = s
             BY <1>4, <1>7, <2>1 DEF OnLane, IInv, Searching
       <2>2. CASE r # s
             BY <1>4, <2>2 DEF IInv, Searching
       <2> QED BY <2>1, <2>2
<1>12. Balanced'
       BY <1>9, <1>11 DEF IInv, Balanced
<1>13. Clock' /\ Counters'
       BY <1>9 DEF IInv, Clock, Counters
<1> QED BY <1>10, <1>12, <1>13 DEF IInv

LEMMA OthersKeep == ASSUME IInv, (\E g \in Signals : Abort(g)) \/ Tick \/ UNCHANGED vars PROVE IInv'
<1>1. UNCHANGED <<lanes, search, policy>> /\ aborted' \subseteq Signals
      BY DEF Abort, Tick, vars, IInv, Clock
<1>2. now' \in 0..Horizon /\ now <= now'
      BY SearchesAssumption DEF Abort, Tick, vars, IInv, Clock
<1>3. UNCHANGED <<inFlight, dispatched, succeeded, failed, meanMs, failedAt>>
      BY <1>1 DEF lanes
<1>4. Clock'
      <2>1. \A l \in Lanes : failedAt[l] <= now'
            BY <1>2 DEF IInv, Clock, Never
      <2> QED BY <1>1, <1>2, <1>3, <2>1 DEF IInv, Clock
<1>5. Counters' /\ Balanced'
      BY <1>1, <1>3 DEF IInv, Counters, Balanced, AllOn
<1>6. ASSUME NEW s \in Searches PROVE Sound(search[s], now')
      <2>1. Sound(search[s], now) /\ search[s] \in Search /\ now \in 0..Horizon
            BY DEF IInv, Searching, Clock
      <2>2. search[s].at <= now' /\ search[s].since <= now'
            BY <1>2, <2>1, SearchesAssumption DEF Sound, Search
      <2> QED BY <2>1, <2>2 DEF Sound
<1>7. Searching'
      BY <1>1, <1>3, <1>6 DEF IInv, Searching
<1> QED BY <1>4, <1>5, <1>7 DEF IInv

-----------------------------------------------------------------------------
(* The inductive invariant: an order and what was reported make up the     *)
(* lanes, metered ones last; no lane in an order was benched before it was *)
(* made; and the counters are those of the searches.                       *)
THEOREM Inductive == Spec => []IInv
<1>1. IInv /\ [Next]_vars => IInv'
      <2> SUFFICES ASSUME IInv, [Next]_vars PROVE IInv'
          OBVIOUS
      <2>1. ASSUME NEW s \in Searches, Start(s) \/ Proceed(s) PROVE IInv'
            BY <2>1, StartKeeps, BalanceKeeps, SettleKeeps, RespellKeeps, FaultKeeps DEF Proceed
      <2> QED BY <2>1, OthersKeep DEF Next
<1> QED BY <1>1, Initially, PTL DEF Spec

(* The lanes' counters are those of the searches that are really on them,  *)
(* however each search left (traffic.ts:243-279).                          *)
THEOREM CountersHold == Spec => []Accounted
<1> QED BY Inductive, ImpliesAccounted, PTL

(* A metered lane is turned to when every included one was blocked or has  *)
(* failed the search, and a search that fails reported every lane          *)
(* (traffic.ts:25-27).                                                     *)
THEOREM CostHolds == Spec => []CostLeads
<1> QED BY Inductive, ImpliesCostLeads, PTL

(* A benched lane is used, and its bench lifted, only by searches ordered  *)
(* before its fault (traffic.ts:258-270).                                  *)
THEOREM BenchHolds == Spec => []BenchStands
<1> QED BY Inductive, ImpliesBenchStands, PTL

(* Every variable keeps its type, and a search under way is on some lane.  *)
THEOREM TypeCorrect == Spec => []TypeOK
<1> QED BY Inductive, ImpliesTypeOK, PTL

-----------------------------------------------------------------------------
(* The lists of the round: each is built along the natural numbers.        *)
Ladder == INSTANCE CouncilVerdictProofs WITH NumSeats <- 1, Confidences <- {}

LEMMA Upward ==
    ASSUME NEW n \in Nat, NEW G, 0 \in G, \A k \in 1..n : k - 1 \in G => k \in G
    PROVE  0..n \subseteq G
BY Ladder!Upward

LEMMA UptoIs ==
    ASSUME NEW S, NEW list \in Seq(S), NEW n \in Nat
    PROVE  /\ Upto(n, list) \in Seq(S) /\ Len(Upto(n, list)) <= n
           /\ IsInjective(list) => IsInjective(Upto(n, list))
<1> DEFINE m == IF Len(list) < n THEN Len(list) ELSE n
           u == Upto(n, list)
<1>1. m \in 0..Len(list) /\ m <= n
      OBVIOUS
<1>2. u = SubSeq(list, 1, m)
      BY DEF Upto
<1> HIDE DEF m
<1>3. u \in Seq(S) /\ Len(u) = m /\ \A i \in 1..m : u[i] = list[i]
      BY <1>1, <1>2
<1>4. DOMAIN u = 1..m /\ 1..m \subseteq DOMAIN list
      BY <1>1, <1>3
<1> HIDE DEF u
<1> QED
    BY <1>1, <1>3, <1>4 DEF IsInjective, u

(* The list of the distinct keys, as it is built.                          *)
Sifted(list, tree) ==
    /\ DOMAIN tree = 0..Len(list) /\ tree[0] = <<>>
    /\ \A k \in 1..Len(list) :
         tree[k] = IF Contains(tree[k - 1], list[k]) THEN tree[k - 1]
                   ELSE Append(tree[k - 1], list[k])

LEMMA DistinctSteps ==
    ASSUME NEW S, NEW list \in Seq(S)
    PROVE  \E tree : Sifted(list, tree) /\ Distinct(list) = tree[Len(list)]
<1> DEFINE n == Len(list)
           Q == Seq(S)
           Next1(k, p) == IF Contains(p, list[k]) THEN p ELSE Append(p, list[k])
           Rec(tree) == tree = [i \in 0..n |-> IF i = 0 THEN <<>>
                           ELSE IF Contains(tree[i - 1], list[i]) THEN tree[i - 1]
                           ELSE Append(tree[i - 1], list[i])]
           step == [k \in Nat |-> [p \in Q |-> IF k \in 1..n THEN Next1(k, p) ELSE p]]
<1>1. <<>> \in Q /\ n \in Nat /\ \A k \in 1..n : list[k] \in S
      OBVIOUS
<1>2. step \in [Nat -> [Q -> Q]]
      BY <1>1
<1>3. \A k \in 1..n : \A p \in Q : step[k][p] = Next1(k, p)
      OBVIOUS
<1> HIDE DEF step, Next1, Q
<1>4. PICK g \in [0..n -> Q] : g[0] = <<>> /\ \A k \in 1..n : g[k] = step[k][g[k - 1]]
  <2>1. Ladder!Walks(Q, <<>>, step, n)
        BY <1>1, <1>2, Ladder!Walk
  <2> QED
      BY <2>1 DEF Ladder!Walks
<1>5. \A k \in 1..n : g[k] = Next1(k, g[k - 1])
  <2> SUFFICES ASSUME NEW k \in 1..n PROVE g[k] = Next1(k, g[k - 1])
      OBVIOUS
  <2>1. g[k - 1] \in Q
        BY <1>1
  <2> QED
      BY <1>3, <1>4, <2>1
<1>6. Rec(g)
  <2>1. \A k \in 0..n : g[k] = IF k = 0 THEN <<>>
                               ELSE IF Contains(g[k - 1], list[k]) THEN g[k - 1]
                               ELSE Append(g[k - 1], list[k])
    <3>1. \A k \in 0..n : k = 0 \/ k \in 1..n
          BY <1>1
    <3> QED
        BY <1>4, <1>5, <3>1 DEF Next1
  <2>2. g = [k \in 0..n |-> g[k]]
        BY <1>4
  <2> QED
      BY <2>1, <2>2, Zenon
<1> DEFINE tree == CHOOSE f : Rec(f)
<1>7. Rec(tree)
  <2> HIDE DEF Rec
  <2> QED
      BY <1>6
<1>8. Distinct(list) = tree[n]
      BY DEF Distinct
<1>9. Sifted(list, tree)
  <2> HIDE DEF tree
  <2>1. 0 \in 0..n /\ \A k \in 1..n : k \in 0..n /\ k # 0
        BY <1>1
  <2> QED
      BY <1>7, <2>1 DEF Sifted
<1> HIDE DEF tree
<1> QED
    BY <1>8, <1>9

LEMMA DistinctIs ==
    ASSUME NEW S, NEW list \in Seq(S)
    PROVE  Distinct(list) \in Seq(S) /\ IsInjective(Distinct(list))
<1>1. PICK tree : Sifted(list, tree) /\ Distinct(list) = tree[Len(list)]
      BY DistinctSteps
<1> DEFINE n == Len(list)
           G == {k \in 0..n : tree[k] \in Seq(S) /\ IsInjective(tree[k])}
<1>2. n \in Nat /\ \A k \in 1..n : list[k] \in S
      OBVIOUS
<1>3. 0 \in G
  <2>1. <<>> \in Seq(S) /\ IsInjective(<<>>) /\ 0 \in 0..n
        BY DEF IsInjective
  <2>2. tree[0] = <<>>
        BY <1>1 DEF Sifted
  <2> HIDE DEF n
  <2> QED
      BY <2>1, <2>2
<1>4. ASSUME NEW k \in 1..n, k - 1 \in G PROVE k \in G
  <2>1. PICK p : p = tree[k - 1]
        OBVIOUS
  <2>2. p \in Seq(S) /\ IsInjective(p)
        BY <1>4, <2>1
  <2>3. CASE Contains(p, list[k])
        BY <1>1, <1>2, <2>1, <2>2, <2>3 DEF Sifted
  <2>4. CASE ~Contains(p, list[k])
    <3> DEFINE u == Append(p, list[k])
    <3>1. tree[k] = u
          BY <1>1, <2>1, <2>4 DEF Sifted
    <3>2. /\ u \in Seq(S) /\ DOMAIN u = 1..Len(p) + 1 /\ DOMAIN p = 1..Len(p) /\ Len(p) \in Nat
          /\ u[Len(p) + 1] = list[k] /\ \A i \in 1..Len(p) : u[i] = p[i]
          BY <1>2, <2>2
    <3>3. \A i \in 1..Len(p) : p[i] # list[k]
          BY <2>4 DEF Contains
    <3> HIDE DEF u
    <3>4. IsInjective(u)
          BY <2>2, <3>2, <3>3 DEF IsInjective
    <3> QED
        BY <1>2, <3>1, <3>2, <3>4
  <2> QED
      BY <2>3, <2>4
<1>5. n \in G
  <2> HIDE DEF G, n
  <2>1. \A k \in 1..n : k - 1 \in G => k \in G
        BY <1>4
  <2>2. 0..n \subseteq G
        BY <1>2, <1>3, <2>1, Upward
  <2> QED
      BY <1>2, <2>2
<1> QED
    BY <1>1, <1>5

(* The queries of the round, as they are gathered from seat to seat.       *)
LEMMA JoinedIs ==
    ASSUME NEW p \in Seq(Keys), NEW reply \in Seq(Keys)
    PROVE  Distinct(p \o Requested(reply)) \in Seq(Keys)
           /\ IsInjective(Distinct(p \o Requested(reply)))
<1>1. PICK d : d = Distinct(reply) /\ d \in Seq(Keys)
      BY DistinctIs
<1>2. PerSeat \in Nat
      BY ResearchAssumption
<1>3. Upto(PerSeat, d) \in Seq(Keys)
      BY <1>1, <1>2, UptoIs
<1>4. PICK l \in Seq(Keys) : l = p \o Requested(reply)
  <2>1. PICK u \in Seq(Keys) : u = Requested(reply)
        BY <1>1, <1>3 DEF Requested
  <2>2. p \o u \in Seq(Keys)
        OBVIOUS
  <2> QED
      BY <2>1, <2>2
<1>5. Distinct(l) \in Seq(Keys) /\ IsInjective(Distinct(l))
      BY DistinctIs
<1> QED
    BY <1>4, <1>5

LEMMA AskedIs ==
    ASSUME NEW replies \in Replies
    PROVE  /\ Asked(replies) \in Seq(Keys) /\ IsInjective(Asked(replies))
           /\ Len(Asked(replies)) <= MaxQueries
<1> DEFINE n == Len(replies)
           Q == Seq(Keys)
           More(k, p) == Distinct(p \o Requested(replies[k]))
           Rec(tree) == tree = [i \in 0..n |-> IF i = 0 THEN <<>>
                           ELSE Distinct(tree[i - 1] \o Requested(replies[i]))]
           step == [k \in Nat |-> [p \in Q |-> IF k \in 1..n THEN More(k, p) ELSE p]]
<1>1. <<>> \in Q /\ n \in Nat /\ \A k \in 1..n : replies[k] \in Seq(Keys)
      BY ResearchAssumption
<1>2. ASSUME NEW k \in 1..n, NEW p \in Q PROVE More(k, p) \in Q /\ IsInjective(More(k, p))
  <2>1. PICK reply \in Seq(Keys) : reply = replies[k]
        BY <1>1
  <2> QED
      BY <2>1, JoinedIs
<1> HIDE DEF More
<1>3. step \in [Nat -> [Q -> Q]] /\ \A k \in 1..n : \A p \in Q : step[k][p] = More(k, p)
  <2> HIDE DEF Q
  <2> QED
      BY <1>2
<1> HIDE DEF step, Q
<1>4. PICK g \in [0..n -> Q] : g[0] = <<>> /\ \A k \in 1..n : g[k] = step[k][g[k - 1]]
  <2>1. Ladder!Walks(Q, <<>>, step, n)
        BY <1>1, <1>3, Ladder!Walk
  <2> QED
      BY <2>1 DEF Ladder!Walks
<1>5. \A k \in 1..n : g[k - 1] \in Q /\ g[k] = More(k, g[k - 1])
  <2> SUFFICES ASSUME NEW k \in 1..n PROVE g[k - 1] \in Q /\ g[k] = More(k, g[k - 1])
      OBVIOUS
  <2>1. g[k - 1] \in Q
        BY <1>1
  <2> QED
      BY <1>3, <1>4, <2>1
<1>6. Rec(g)
  <2>1. \A k \in 0..n : g[k] = IF k = 0 THEN <<>>
                               ELSE Distinct(g[k - 1] \o Requested(replies[k]))
    <3>1. \A k \in 0..n : k = 0 \/ k \in 1..n
          BY <1>1
    <3> QED
        BY <1>4, <1>5, <3>1 DEF More
  <2>2. g = [k \in 0..n |-> g[k]]
        BY <1>4
  <2> QED
      BY <2>1, <2>2, Zenon
<1> DEFINE tree == CHOOSE f : Rec(f)
<1>7. Rec(tree)
  <2> HIDE DEF Rec
  <2> QED
      BY <1>6
<1>8. Asked(replies) = Upto(MaxQueries, tree[n])
      BY DEF Asked
<1>9. tree[0] = <<>> /\ \A k \in 1..n : tree[k] = More(k, tree[k - 1])
  <2> HIDE DEF tree
  <2>1. 0 \in 0..n /\ \A k \in 1..n : k \in 0..n /\ k # 0
        BY <1>1
  <2> QED
      BY <1>7, <2>1 DEF More
<1> HIDE DEF tree
<1> DEFINE G == {k \in 0..n : tree[k] \in Q /\ IsInjective(tree[k])}
<1>10. 0 \in G
  <2>1. IsInjective(<<>>) /\ 0 \in 0..n
        BY <1>1 DEF IsInjective
  <2> QED
      BY <1>1, <1>9, <2>1
<1>11. \A k \in 1..n : k - 1 \in G => k \in G
  <2> SUFFICES ASSUME NEW k \in 1..n, k - 1 \in G PROVE k \in G
      OBVIOUS
  <2>1. PICK p \in Q : p = tree[k - 1]
        OBVIOUS
  <2>2. More(k, p) \in Q /\ IsInjective(More(k, p)) /\ k \in 0..n
        BY <1>1, <1>2
  <2> QED
      BY <1>9, <2>1, <2>2
<1>12. n \in G
  <2> HIDE DEF G, n
  <2>1. 0..n \subseteq G
        BY <1>1, <1>10, <1>11, Upward
  <2> QED
      BY <1>1, <2>1
<1>13. PICK all \in Seq(Keys) : all = tree[n] /\ IsInjective(all)
      BY <1>12 DEF Q
<1>14. MaxQueries \in Nat
      BY ResearchAssumption
<1>15. /\ Upto(MaxQueries, all) \in Seq(Keys) /\ Len(Upto(MaxQueries, all)) <= MaxQueries
       /\ IsInjective(Upto(MaxQueries, all))
      BY <1>13, <1>14, UptoIs
<1> QED
    BY <1>8, <1>13, <1>15

-----------------------------------------------------------------------------
(* The evidence of the searches 1..n.                                      *)
Entry == [query : Searches, first : Nat, count : Nat]

Chained(b) ==
    \A i \in DOMAIN b :
        /\ b[i].first = IF i = 1 THEN 1 ELSE b[i - 1].first + b[i - 1].count
        /\ i > 1 => b[i - 1].query < b[i].query

Whole(n, found, b) ==
    /\ b \in Seq(Entry)
    /\ \A q \in 1..n : found[q] > 0 <=> \E i \in DOMAIN b : b[i].query = q
    /\ \A i \in DOMAIN b : b[i].query \in 1..n
    /\ Chained(b)

(* The next block of the evidence.                                         *)
Block(q, found, b) == [ query |-> q, first |-> Cited(b) + 1, count |-> found[q] ]

(* The blocks of a list of searches, as they are numbered.                 *)
Numbers(list, found, tree) ==
    /\ tree \in [0..Len(list) -> Seq(Entry)] /\ tree[0] = <<>>
    /\ \A k \in 1..Len(list) :
         tree[k] = IF found[list[k]] = 0 THEN tree[k - 1]
                   ELSE Append(tree[k - 1], Block(list[k], found, tree[k - 1]))

LEMMA BlockIs ==
    ASSUME NEW found \in [Searches -> Nat], NEW q \in Searches, NEW b \in Seq(Entry)
    PROVE  Block(q, found, b) \in Entry
<1>1. CASE b = <<>>
      BY <1>1 DEF Block, Cited, Entry
<1>2. CASE b # <<>>
  <2>1. Last(b) \in Entry
        BY <1>2 DEF Last
  <2>2. Last(b).first \in Nat /\ Last(b).count \in Nat
        BY <2>1 DEF Entry
  <2>3. Cited(b) + 1 \in Nat
        BY <1>2, <2>2 DEF Cited
  <2> QED
      BY <2>3 DEF Block, Entry
<1> QED
    BY <1>1, <1>2

LEMMA NumberedSteps ==
    ASSUME NEW list \in Seq(Searches), NEW found \in [Searches -> Nat]
    PROVE  \E tree : Numbers(list, found, tree) /\ Numbered(list, found) = tree[Len(list)]
<1> DEFINE n == Len(list)
           Q == Seq(Entry)
           More(k, p) == IF found[list[k]] = 0 THEN p ELSE Append(p, Block(list[k], found, p))
           Rec(tree) == tree = [i \in 0..n |-> IF i = 0 THEN <<>>
                           ELSE IF found[list[i]] = 0 THEN tree[i - 1]
                           ELSE Append(tree[i - 1],
                                  [ query |-> list[i], first |-> Cited(tree[i - 1]) + 1,
                                    count |-> found[list[i]] ])]
           step == [k \in Nat |-> [p \in Q |-> IF k \in 1..n THEN More(k, p) ELSE p]]
<1>1. <<>> \in Q /\ n \in Nat /\ \A k \in 1..n : list[k] \in Searches
      OBVIOUS
<1>2. ASSUME NEW k \in 1..n, NEW p \in Q PROVE More(k, p) \in Q
  <2>1. PICK q \in Searches : q = list[k]
        BY <1>1
  <2>2. PICK e \in Entry : e = Block(q, found, p)
        BY BlockIs
  <2>3. Append(p, e) \in Q
        OBVIOUS
  <2> QED
      BY <2>1, <2>2, <2>3
<1> HIDE DEF More
<1>3. step \in [Nat -> [Q -> Q]] /\ \A k \in 1..n : \A p \in Q : step[k][p] = More(k, p)
  <2> HIDE DEF Q
  <2> QED
      BY <1>2
<1> HIDE DEF step, Q
<1>4. PICK g \in [0..n -> Q] : g[0] = <<>> /\ \A k \in 1..n : g[k] = step[k][g[k - 1]]
  <2>1. Ladder!Walks(Q, <<>>, step, n)
        BY <1>1, <1>3, Ladder!Walk
  <2> QED
      BY <2>1 DEF Ladder!Walks
<1>5. \A k \in 1..n : g[k] = More(k, g[k - 1])
  <2> SUFFICES ASSUME NEW k \in 1..n PROVE g[k] = More(k, g[k - 1])
      OBVIOUS
  <2>1. g[k - 1] \in Q
        BY <1>1
  <2> QED
      BY <1>3, <1>4, <2>1
<1>6. Rec(g)
  <2>1. \A k \in 0..n : g[k] = IF k = 0 THEN <<>>
                           ELSE IF found[list[k]] = 0 THEN g[k - 1]
                           ELSE Append(g[k - 1],
                                  [ query |-> list[k], first |-> Cited(g[k - 1]) + 1,
                                    count |-> found[list[k]] ])
    <3>1. \A k \in 0..n : k = 0 \/ k \in 1..n
          BY <1>1
    <3>2. \A k \in 1..n : g[k] = IF found[list[k]] = 0 THEN g[k - 1]
                                 ELSE Append(g[k - 1], Block(list[k], found, g[k - 1]))
          BY <1>5 DEF More
    <3> QED
        BY <1>4, <3>1, <3>2 DEF Block
  <2>2. g = [k \in 0..n |-> g[k]]
        BY <1>4
  <2> QED
      BY <2>1, <2>2, Zenon
<1> DEFINE tree == CHOOSE f : Rec(f)
<1>7. Rec(tree)
  <2> HIDE DEF Rec
  <2> QED
      BY <1>6
<1>8. Numbered(list, found) = tree[n]
      BY DEF Numbered
<1>9. tree[0] = <<>> /\ \A k \in 1..n : tree[k] = More(k, tree[k - 1])
  <2> HIDE DEF tree
  <2>1. 0 \in 0..n /\ \A k \in 1..n : k \in 0..n /\ k # 0
        BY <1>1
  <2>2. \A k \in 1..n : tree[k] = IF found[list[k]] = 0 THEN tree[k - 1]
                           ELSE Append(tree[k - 1],
                                  [ query |-> list[k], first |-> Cited(tree[k - 1]) + 1,
                                    count |-> found[list[k]] ])
        BY <1>7, <2>1
  <2> QED
      BY <1>7, <2>1, <2>2 DEF More, Block
<1>10. DOMAIN tree = 0..n
  <2> HIDE DEF tree
  <2> QED
      BY <1>7
<1> HIDE DEF tree
<1> DEFINE G == {k \in 0..n : tree[k] \in Q}
<1>11. 0 \in G /\ \A k \in 1..n : k - 1 \in G => k \in G
      BY <1>1, <1>2, <1>9
<1>12. 0..n \subseteq G
  <2> HIDE DEF G, n
  <2> QED
      BY <1>1, <1>11, Upward
<1>13. tree = [k \in 0..n |-> tree[k]]
  <2> HIDE DEF Rec
  <2>1. tree = [i \in 0..n |-> IF i = 0 THEN <<>>
                           ELSE IF found[list[i]] = 0 THEN tree[i - 1]
                           ELSE Append(tree[i - 1],
                                  [ query |-> list[i], first |-> Cited(tree[i - 1]) + 1,
                                    count |-> found[list[i]] ])]
        BY <1>7 DEF Rec
  <2> QED
      BY <2>1
<1>14. tree \in [0..n -> Q]
      BY <1>12, <1>13
<1> QED
    BY <1>8, <1>9, <1>14 DEF Numbers, More, Q

LEMMA WholeGrows ==
    ASSUME NEW found \in [Searches -> Nat], NEW k \in 1..MaxQueries, NEW b,
           Whole(k - 1, found, b)
    PROVE  /\ found[k] = 0 => Whole(k, found, b)
           /\ found[k] # 0 => Whole(k, found, Append(b, Block(k, found, b)))
<1>1. /\ k \in Searches /\ found[k] \in Nat /\ b \in Seq(Entry) /\ MaxQueries \in Nat
      /\ \A q \in 1..k : q \in 1..k - 1 \/ q = k
      BY ResearchAssumption DEF Whole
<1>2. /\ \A q \in 1..k - 1 : found[q] > 0 <=> \E i \in DOMAIN b : b[i].query = q
      /\ \A i \in DOMAIN b : b[i].query \in 1..k - 1
      /\ Chained(b)
      BY DEF Whole
<1>3. \A i \in DOMAIN b : b[i].query \in 1..k /\ b[i].query # k
      BY <1>1, <1>2
<1>4. ASSUME found[k] = 0 PROVE Whole(k, found, b)
  <2>1. \A q \in 1..k : found[q] > 0 <=> \E i \in DOMAIN b : b[i].query = q
        BY <1>1, <1>2, <1>3, <1>4
  <2> QED
      BY <1>1, <1>2, <1>3, <2>1 DEF Whole
<1>5. ASSUME found[k] # 0 PROVE Whole(k, found, Append(b, Block(k, found, b)))
  <2>1. PICK e \in Entry : e = Block(k, found, b)
        BY <1>1, BlockIs
  <2>2. e.query = k /\ e.first = Cited(b) + 1 /\ e.count = found[k]
        BY <2>1 DEF Block
  <2> DEFINE u == Append(b, e)
  <2>3. /\ u \in Seq(Entry) /\ Len(b) \in Nat
        /\ DOMAIN u = 1..Len(b) + 1 /\ DOMAIN b = 1..Len(b)
        /\ u[Len(b) + 1] = e /\ \A i \in 1..Len(b) : u[i] = b[i]
        BY <1>1
  <2>4. e.first = IF Len(b) = 0 THEN 1 ELSE b[Len(b)].first + b[Len(b)].count
    <3>1. CASE b = <<>>
          BY <2>2, <3>1 DEF Cited
    <3>2. CASE b # <<>>
      <4>1. Len(b) # 0 /\ b[Len(b)] \in Entry
            BY <1>1, <3>2
      <4>2. b[Len(b)].first \in Nat /\ b[Len(b)].count \in Nat
            BY <4>1 DEF Entry
      <4> QED
          BY <2>2, <3>2, <4>1, <4>2 DEF Cited, Last
    <3> QED
        BY <3>1, <3>2
  <2> HIDE DEF u
  <2>5. \A i \in DOMAIN u : i \in DOMAIN b \/ i = Len(b) + 1
        BY <2>3
  <2>6. \A i \in DOMAIN u : u[i].query \in 1..k
        BY <1>3, <2>2, <2>3, <2>5
  <2>7. \A q \in 1..k : found[q] > 0 <=> \E i \in DOMAIN u : u[i].query = q
    <3> SUFFICES ASSUME NEW q \in 1..k PROVE found[q] > 0 <=> \E i \in DOMAIN u : u[i].query = q
        OBVIOUS
    <3>1. CASE q = k
          BY <1>1, <1>5, <2>2, <2>3, <3>1
    <3>2. CASE q # k
      <4>1. (\E i \in DOMAIN u : u[i].query = q) <=> \E i \in DOMAIN b : b[i].query = q
            BY <2>2, <2>3, <2>5, <3>2
      <4> QED
          BY <1>1, <1>2, <3>2, <4>1
    <3> QED
        BY <3>1, <3>2
  <2>8. Chained(u)
    <3> SUFFICES ASSUME NEW i \in DOMAIN u
                 PROVE  /\ u[i].first = IF i = 1 THEN 1 ELSE u[i - 1].first + u[i - 1].count
                        /\ i > 1 => u[i - 1].query < u[i].query
        BY DEF Chained
    <3>1. CASE i \in DOMAIN b
      <4>1. i # 1 => i - 1 \in DOMAIN b
            BY <2>3, <3>1
      <4> QED
          BY <1>2, <2>3, <3>1, <4>1 DEF Chained
    <3>2. CASE i = Len(b) + 1
      <4>1. i # 1 => i - 1 \in DOMAIN b /\ u[i - 1] = b[i - 1] /\ i - 1 = Len(b)
            BY <2>3, <3>2
      <4>2. i # 1 => b[i - 1].query \in 1..k - 1
            BY <1>2, <4>1
      <4> QED
          BY <2>2, <2>3, <2>4, <3>2, <4>1, <4>2
    <3> QED
        BY <2>5, <3>1, <3>2
  <2>9. Whole(k, found, u)
        BY <2>3, <2>6, <2>7, <2>8 DEF Whole
  <2> QED
      BY <2>1, <2>9 DEF u
<1> QED
    BY <1>4, <1>5

LEMMA NumberedIs ==
    ASSUME NEW found \in [Searches -> Nat], NEW n \in 0..MaxQueries
    PROVE  Whole(n, found, Numbered([q \in 1..n |-> q], found))
<1>1. MaxQueries \in Nat /\ n \in Nat /\ \A q \in 1..n : q \in Searches /\ q \in 1..MaxQueries
      BY ResearchAssumption
<1>2. PICK list : list \in Seq(Searches) /\ list = [q \in 1..n |-> q]
  <2>1. PICK l : l = [q \in 1..n |-> q]
        OBVIOUS
  <2>2. l \in [1..n -> Searches]
        BY <1>1, <2>1
  <2>3. l \in Seq(Searches)
        BY <1>1, <2>2
  <2> QED
      BY <2>1, <2>3
<1>3. Len(list) = n /\ \A k \in 1..n : list[k] = k
      BY <1>1, <1>2
<1>4. PICK tree : Numbers(list, found, tree) /\ Numbered(list, found) = tree[n]
      BY <1>2, <1>3, NumberedSteps
<1> DEFINE G == {k \in 0..n : Whole(k, found, tree[k])}
<1>5. 0 \in G
  <2>1. <<>> \in Seq(Entry) /\ DOMAIN <<>> = {} /\ 1..0 = {}
        OBVIOUS
  <2>2. Whole(0, found, <<>>)
        BY <2>1 DEF Whole, Chained
  <2>3. tree[0] = <<>> /\ 0 \in 0..n
        BY <1>1, <1>4 DEF Numbers
  <2> QED
      BY <2>2, <2>3
<1>6. \A k \in 1..n : k - 1 \in G => k \in G
  <2> SUFFICES ASSUME NEW k \in 1..n, k - 1 \in G PROVE k \in G
      OBVIOUS
  <2>1. PICK b : b = tree[k - 1]
        OBVIOUS
  <2>2. Whole(k - 1, found, b) /\ k \in 1..MaxQueries
        BY <1>1, <2>1
  <2>3. tree[k] = IF found[k] = 0 THEN b ELSE Append(b, Block(k, found, b))
        BY <1>3, <1>4, <2>1 DEF Numbers
  <2>4. Whole(k, found, tree[k])
    <3>1. CASE found[k] = 0
          BY <2>2, <2>3, <3>1, WholeGrows
    <3>2. CASE found[k] # 0
          BY <2>2, <2>3, <3>2, WholeGrows
    <3> QED
        BY <3>1, <3>2
  <2> QED
      BY <1>1, <2>4
<1>7. n \in G
  <2> HIDE DEF G
  <2>1. 0..n \subseteq G
        BY <1>1, <1>5, <1>6, Upward
  <2> QED
      BY <1>1, <2>1
<1> QED
    BY <1>2, <1>4, <1>7

(* The evidence of one search.                                             *)
LEMMA NumberedOne ==
    ASSUME NEW found \in [Searches -> Nat], NEW s \in Searches
    PROVE  LET b == Numbered(<<s>>, found)
           IN  b \in Seq(Entry) /\ Chained(b) /\ \A i \in DOMAIN b : b[i].query = s
<1>1. PICK list : list \in Seq(Searches) /\ list = <<s>>
  <2>1. <<s>> \in Seq(Searches)
        OBVIOUS
  <2> QED
      BY <2>1
<1>2. Len(list) = 1 /\ list[1] = s
      BY <1>1
<1>3. PICK tree : Numbers(list, found, tree) /\ Numbered(list, found) = tree[1]
      BY <1>1, <1>2, NumberedSteps
<1>4. tree[1] = IF found[s] = 0 THEN <<>> ELSE Append(<<>>, Block(s, found, <<>>))
  <2>1. 1 \in 1..Len(list) /\ tree[1 - 1] = <<>>
        BY <1>2, <1>3 DEF Numbers
  <2>2. tree[1] = IF found[list[1]] = 0 THEN tree[1 - 1]
                  ELSE Append(tree[1 - 1], Block(list[1], found, tree[1 - 1]))
        BY <1>3, <2>1 DEF Numbers
  <2> QED
      BY <1>2, <2>1, <2>2
<1>5. tree[1] = <<>> \/ tree[1] = <<[ query |-> s, first |-> 1, count |-> found[s] ]>>
      BY <1>4 DEF Block, Cited
<1>6. Chained(tree[1]) /\ \A i \in DOMAIN tree[1] : tree[1][i].query = s
      BY <1>5 DEF Chained
<1>7. tree[1] \in Seq(Entry)
      BY <1>2, <1>3 DEF Numbers
<1> QED
    BY <1>1, <1>3, <1>6, <1>7

-----------------------------------------------------------------------------
(* What a search does to the others: nothing.                              *)
Moved(s) ==
    /\ search'[s].pc # "waiting"
    /\ \A q \in Searches : q # s => search'[q] = search[q]

LEMMA SetMoves ==
    ASSUME IInv, NEW s \in Searches, NEW w, w.pc # "waiting", search' = [search EXCEPT ![s] = w]
    PROVE  Moved(s)
<1>1. DOMAIN search = Searches
      BY DEF IInv, Searching
<1> QED BY <1>1 DEF Moved

LEMMA VisitMoves ==
    ASSUME IInv, NEW s \in Searches, NEW walk \in Search, NEW load, Visit(s, walk, load)
    PROVE  Moved(s)
<1>1. CASE search' = [search EXCEPT ![s] = Done("failed", walk, 0)]
      BY <1>1, SetMoves DEF Done, Waiting
<1>2. CASE search' = [search EXCEPT ![s] = [walk EXCEPT !.pc = "probing"]]
      BY <1>2, SetMoves DEF Search
<1>3. CASE walk.plan # <<>> /\ Head(walk.plan) \notin Metered
      <2>1. PICK ear \in BOOLEAN : ear = (Head(walk.plan) \in Metered \/ ~Aborted(s))
            OBVIOUS
      <2> DEFINE w == [walk EXCEPT !.pc = "running", !.since = now, !.spelling = 1, !.ear = ear]
      <2>2. search' = [search EXCEPT ![s] = w]
            BY <1>3, <2>1 DEF Visit, Begin
      <2>3. w.pc = "running"
            BY DEF Search
      <2> HIDE DEF w
      <2> QED BY <2>2, <2>3, SetMoves
<1> QED BY <1>1, <1>2, <1>3 DEF Visit

LEMMA StartMoves ==
    ASSUME IInv, NEW s \in Searches, Start(s) PROVE search[s].pc = "waiting" /\ Moved(s)
<1>1. PICK p \in Orders :
         Visit(s, [ Waiting EXCEPT !.at = now, !.plan = p, !.attempts = Lanes \ Usable ], inFlight)
      BY DEF Start
<1> DEFINE walk == [ Waiting EXCEPT !.at = now, !.plan = p, !.attempts = Lanes \ Usable ]
<1>2. walk \in Search
      BY OrderIsReady DEF Ready
<1>3. Visit(s, walk, inFlight)
      BY <1>1
<1> HIDE DEF walk
<1>4. PICK load : load = inFlight
      OBVIOUS
<1> QED BY <1>2, <1>3, <1>4, VisitMoves DEF Start

LEMMA ProceedMoves ==
    ASSUME IInv, NEW s \in Searches, Proceed(s) PROVE Going(search[s]) /\ Moved(s)
<1>1. Going(search[s]) /\ search[s] \in Search
      <2>1. Going(search[s])
            BY DEF Proceed, Balance, Answer, Respell, Fault, Abandon, Running, Going
      <2> QED BY <2>1, UnderWay
<1>2. PICK past : past = Past(search[s])
      OBVIOUS
<1>3. past \in Search
      BY <1>1, <1>2, UnderWay, PastIsReady DEF Ready
<1>4. CASE Balance(s)
      <2>1. CASE Visit(s, Past(search[s]), inFlight)
            <3>1. PICK load : load = inFlight
                  OBVIOUS
            <3> QED BY <1>1, <1>2, <1>3, <2>1, <3>1, VisitMoves
      <2>2. CASE Begin(s, search[s], inFlight)
            <3>1. PICK walk \in Search : walk = search[s]
                  BY <1>1
            <3>2. PICK ear \in BOOLEAN : ear = (Head(walk.plan) \in Metered \/ ~Aborted(s))
                  OBVIOUS
            <3> DEFINE w == [walk EXCEPT !.pc = "running", !.since = now, !.spelling = 1, !.ear = ear]
            <3>3. search' = [search EXCEPT ![s] = w]
                  BY <2>2, <3>1, <3>2 DEF Begin
            <3>4. w.pc = "running"
                  BY DEF Search
            <3> HIDE DEF w
            <3> QED BY <1>1, <3>3, <3>4, SetMoves
      <2> QED BY <1>4, <2>1, <2>2 DEF Balance
<1>5. CASE Fault(s)
      <2>1. PICK load : load = [inFlight EXCEPT ![Lane(s)] = Lowered(@)]
            OBVIOUS
      <2>2. Visit(s, past, load)
            BY <1>2, <1>5, <2>1 DEF Fault
      <2> QED BY <1>1, <1>3, <2>2, VisitMoves
<1>6. CASE Answer(s)
      <2>1. PICK n \in 0..MaxSources : search' = [search EXCEPT ![s] = Done("answered", search[s], n)]
            BY <1>6 DEF Answer
      <2> QED BY <1>1, <2>1, SetMoves DEF Done, Waiting
<1>7. CASE Abandon(s)
      <2>1. search' = [search EXCEPT ![s] = Done("aborted", search[s], 0)]
            BY <1>7 DEF Abandon
      <2> QED BY <1>1, <2>1, SetMoves DEF Done, Waiting
<1>8. CASE Respell(s)
      <2>1. PICK ear \in BOOLEAN : ear = ~Aborted(s)
            OBVIOUS
      <2> DEFINE w == [search[s] EXCEPT !.spelling = @ + 1, !.ear = ear]
      <2>2. search' = [search EXCEPT ![s] = w]
            BY <1>8, <2>1 DEF Respell, IInv, Searching
      <2>3. w.pc = search[s].pc
            BY <1>1 DEF Search
      <2> HIDE DEF w
      <2>4. w.pc # "waiting"
            BY <1>1, <2>3 DEF Going
      <2> QED BY <1>1, <2>2, <2>4, SetMoves
<1> QED BY <1>1, <1>4, <1>5, <1>6, <1>7, <1>8 DEF Proceed

-----------------------------------------------------------------------------
(* The round.                                                              *)
Settled == \A q \in DOMAIN queries : Over(q)

(* The pool.                                                               *)
Pooling ==
    /\ width \in Nat \ {0}
    /\ queries \in Seq(Keys) /\ Len(queries) <= MaxQueries /\ IsInjective(queries)
    /\ next \in 1..Len(queries) + 1
    /\ \A q \in 1..MaxQueries : search[q].pc # "waiting" <=> q < next
    /\ Cardinality(Busy) <= width

(* Where the round is tells what was searched and what was found.          *)
Staged ==
    /\ phase \in {"asking", "searching", "shared", "over"}
    /\ phase = "asking" => queries = <<>>
    /\ phase = "searching" => queries # <<>>
    /\ phase \in {"asking", "searching"} => search[Shared].pc = "waiting"
    /\ phase \in {"shared", "over"} => Settled /\ next = Len(queries) + 1
    /\ phase = "shared" =>
         evidence = <<>> /\ blind /\ \A q \in DOMAIN queries : search[q].sources = 0
    /\ EvidenceWhole /\ SharedLast

RoundIInv == IInv /\ Pooling /\ Staged

LEMMA RoundImplies == RoundIInv => RoundWhole
<1> SUFFICES ASSUME RoundIInv PROVE RoundWhole
    OBVIOUS
<1>1. PoolKeeps
      BY DEF RoundIInv, Pooling, Staged, Settled, PoolKeeps
<1> QED BY <1>1 DEF RoundIInv, Staged, RoundWhole

(* The searches of the round are among those of the lanes.                 *)
LEMMA QueriesAre ==
    ASSUME RoundIInv
    PROVE  /\ Len(queries) \in 0..MaxQueries /\ DOMAIN queries = 1..Len(queries)
           /\ MaxQueries \in Nat /\ next \in Nat /\ next - 1 \in 0..Len(queries)
           /\ \A q \in 1..MaxQueries : q \in Searches /\ q # Shared
           /\ Shared \in Searches
           /\ \A s \in Searches : s \in 1..MaxQueries \/ s = Shared
           /\ IsFiniteSet(Busy)
           /\ \A s \in Searches : search[s] \in Search
<1>1. queries \in Seq(Keys) /\ Len(queries) <= MaxQueries /\ next \in 1..Len(queries) + 1
      BY DEF RoundIInv, Pooling
<1>2. MaxQueries \in Nat /\ Searches = 1..MaxQueries \union {Shared} /\ Shared \notin 1..MaxQueries
      BY ResearchAssumption
<1>3. Len(queries) \in 0..MaxQueries /\ DOMAIN queries = 1..Len(queries) /\ next \in Nat
      /\ next - 1 \in 0..Len(queries)
      BY <1>1, <1>2
<1>4. IsFiniteSet(Busy)
      <2>1. IsFiniteSet(1..next - 1)
            BY <1>3, FS_Interval
      <2> QED BY <2>1, FS_Subset DEF Busy
<1>5. \A s \in Searches : search[s] \in Search
      BY DEF RoundIInv, IInv, Searching
<1> QED BY <1>2, <1>3, <1>4, <1>5

LEMMA RoundInitially == ResearchInit => RoundIInv
<1> SUFFICES ASSUME ResearchInit PROVE RoundIInv
    OBVIOUS
<1>1. IInv
      BY Initially DEF ResearchInit
<1>2. width \in Nat \ {0} /\ MaxQueries \in Nat /\ \A q \in 1..MaxQueries : q \in Searches
      BY ResearchAssumption DEF ResearchInit
<1>3. queries = <<>> /\ next = 1 /\ evidence = <<>> /\ phase = "asking"
      BY DEF ResearchInit
<1>4. <<>> \in Seq(Keys) /\ Len(<<>>) = 0 /\ IsInjective(<<>>)
      BY DEF IsInjective
<1>5. \A q \in 1..MaxQueries : search[q].pc = "waiting" /\ ~(q < next)
      BY <1>2, <1>3 DEF ResearchInit, Init, Waiting
<1>6. Cardinality(Busy) = 0
      <2>1. Busy = {}
            BY <1>3 DEF Busy
      <2> QED BY <2>1, FS_EmptySet
<1>7. Pooling
      BY <1>2, <1>3, <1>4, <1>5, <1>6 DEF Pooling
<1>8. search[Shared].pc = "waiting"
      BY ResearchAssumption DEF ResearchInit, Init, Waiting
<1>9. Staged
      BY <1>3, <1>8 DEF Staged, EvidenceWhole, SharedLast
<1> QED BY <1>1, <1>7, <1>9 DEF RoundIInv

(* The seats' queries are taken.                                           *)
LEMMA CollectKeeps == ASSUME RoundIInv, Collect PROVE RoundIInv'
<1>1. PICK replies \in Replies : queries' = Asked(replies)
      BY DEF Collect
<1>2. /\ phase = "asking" /\ queries = <<>> /\ UNCHANGED <<vars, blind, width, next>>
      /\ IF queries' = <<>> THEN Otherwise(<<>>) ELSE phase' = "searching" /\ UNCHANGED evidence
      BY DEF Collect, RoundIInv, Staged
<1>3. UNCHANGED <<policy, now, lanes, aborted, search>>
      BY <1>2 DEF vars
<1>4. IInv'
      BY <1>2, OthersKeep DEF RoundIInv
<1>5. /\ queries' \in Seq(Keys) /\ IsInjective(queries') /\ Len(queries') <= MaxQueries
      BY <1>1, AskedIs
<1>6. next = 1
      BY <1>2 DEF RoundIInv, Pooling
<1>7. Pooling'
      <2>1. next' \in 1..Len(queries') + 1
            BY <1>2, <1>5, <1>6
      <2>2. Busy' = Busy
            BY <1>2, <1>3 DEF Busy, Over
      <2> QED BY <1>2, <1>3, <1>5, <2>1, <2>2 DEF RoundIInv, Pooling
<1>8. search'[Shared].pc = "waiting"
      BY <1>2, <1>3 DEF RoundIInv, Staged
<1>9. Staged'
      <2>1. CASE queries' = <<>>
            <3>1. DOMAIN queries' = {} /\ Len(queries') = 0
                  BY <2>1
            <3>2. evidence' = <<>> /\ phase' = IF blind THEN "shared" ELSE "over"
                  BY <1>2, <2>1 DEF Otherwise
            <3>3. phase' \in {"shared", "over"} /\ (phase' = "shared" <=> blind)
                  BY <3>2
            <3>4. blind' <=> blind
                  BY <1>2
            <3>5. EvidenceWhole'
                  BY <3>1, <3>2, <3>3, <3>4 DEF EvidenceWhole
            <3>6. SharedLast'
                  BY <1>8, <3>3, <3>4 DEF SharedLast
            <3> QED BY <1>2, <1>6, <3>1, <3>2, <3>3, <3>4, <3>5, <3>6 DEF Staged, Settled
      <2>2. CASE queries' # <<>>
            BY <1>2, <1>8, <2>2 DEF Staged, EvidenceWhole, SharedLast
      <2> QED BY <2>1, <2>2
<1> QED BY <1>4, <1>7, <1>9 DEF RoundIInv

(* A worker takes a query.                                                 *)
LEMMA TakeKeeps == ASSUME RoundIInv, Take PROVE RoundIInv'
<1>1. /\ phase = "searching" /\ next <= Len(queries) /\ Cardinality(Busy) < width
      /\ Start(next) /\ next' = next + 1 /\ UNCHANGED <<phase, blind, width, queries, evidence>>
      BY DEF Take
<1>2. next \in 1..MaxQueries /\ next \in Searches
      BY <1>1, QueriesAre
<1>3. IInv' /\ Moved(next)
      <2>1. PICK s \in Searches : s = next
            BY <1>2
      <2> QED BY <1>1, <2>1, StartKeeps, StartMoves DEF RoundIInv
<1>4. \A q \in 1..MaxQueries : search'[q].pc # "waiting" <=> q < next + 1
      <2> SUFFICES ASSUME NEW q \in 1..MaxQueries
                   PROVE  search'[q].pc # "waiting" <=> q < next + 1
          OBVIOUS
      <2>1. q \in Searches /\ q \in Nat /\ next \in Nat
            BY QueriesAre
      <2>2. CASE q = next
            BY <1>3, <2>1, <2>2 DEF Moved
      <2>3. CASE q # next
            <3>1. search'[q] = search[q]
                  BY <1>3, <2>1, <2>3 DEF Moved
            <3>2. q < next <=> q < next + 1
                  BY <2>1, <2>3
            <3> QED BY <3>1, <3>2 DEF RoundIInv, Pooling
      <2> QED BY <2>2, <2>3
<1>5. Cardinality(Busy') <= width
      <2>1. Busy' \subseteq Busy \union {next}
            <3> SUFFICES ASSUME NEW q \in Busy', q # next PROVE q \in Busy
                OBVIOUS
            <3>1. q \in 1..next /\ ~(search'[q].pc \in Ended)
                  BY <1>1, QueriesAre DEF Busy, Over
            <3>2. q \in 1..next - 1 /\ q \in Searches
                  BY <1>1, <3>1, QueriesAre
            <3>3. search'[q] = search[q]
                  BY <1>3, <3>2 DEF Moved
            <3> QED BY <3>1, <3>2, <3>3 DEF Busy, Over
      <2>2. IsFiniteSet(Busy) /\ IsFiniteSet(Busy \union {next})
            BY QueriesAre, FS_AddElement
      <2>3. Cardinality(Busy \union {next}) <= Cardinality(Busy) + 1
            BY <2>2, FS_AddElement, FS_CardinalityType
      <2>4. IsFiniteSet(Busy') /\ Cardinality(Busy') <= Cardinality(Busy \union {next})
            BY <2>1, <2>2, FS_Subset
      <2>5. {Cardinality(Busy), Cardinality(Busy'), Cardinality(Busy \union {next}), width} \subseteq Nat
            BY <2>2, <2>4, FS_CardinalityType DEF RoundIInv, Pooling
      <2> QED BY <1>1, <2>3, <2>4, <2>5
<1>6. Pooling'
      <2>1. next' \in 1..Len(queries) + 1
            BY <1>1, QueriesAre
      <2> QED BY <1>1, <1>4, <1>5, <2>1 DEF RoundIInv, Pooling
<1>7. search'[Shared].pc = "waiting"
      <2>1. Shared \in Searches /\ Shared # next /\ search[Shared].pc = "waiting"
            BY <1>1, <1>2, QueriesAre DEF RoundIInv, Staged
      <2> QED BY <1>3, <2>1 DEF Moved
<1>8. Staged'
      BY <1>1, <1>7 DEF RoundIInv, Staged, EvidenceWhole, SharedLast
<1> QED BY <1>3, <1>6, <1>8 DEF RoundIInv

(* What was found, once it no longer changes.                              *)
LEMMA FoundIs == ASSUME RoundIInv PROVE Found \in [Searches -> Nat]
<1>1. \A s \in Searches : search[s].sources \in Nat
      BY QueriesAre, SearchesAssumption DEF Search
<1> QED BY <1>1 DEF Found

(* Every query has settled.                                                *)
LEMMA GatherKeeps == ASSUME RoundIInv, Gather PROVE RoundIInv'
<1>1. /\ phase = "searching" /\ next > Len(queries) /\ Busy = {}
      /\ Otherwise(Numbered([q \in DOMAIN queries |-> q], Found))
      /\ UNCHANGED <<vars, blind, width, queries, next>>
      BY DEF Gather
<1>2. UNCHANGED <<policy, now, lanes, aborted, search>>
      BY <1>1 DEF vars
<1>3. IInv'
      BY <1>1, OthersKeep DEF RoundIInv
<1>4. PICK found \in [Searches -> Nat] : found = Found
      BY FoundIs
<1>5. PICK n \in 0..MaxQueries : n = Len(queries) /\ DOMAIN queries = 1..n
      BY QueriesAre
<1>6. PICK b : b = Numbered([q \in 1..n |-> q], found)
      OBVIOUS
<1>7. Whole(n, found, b)
      BY <1>6, NumberedIs
<1>8. evidence' = b /\ phase' = IF b = <<>> /\ blind THEN "shared" ELSE "over"
      BY <1>1, <1>4, <1>5, <1>6 DEF Otherwise
<1>9. next = Len(queries) + 1 /\ Settled
      <2>1. next = Len(queries) + 1
            BY <1>1, QueriesAre
      <2>2. \A q \in 1..n : q \in 1..next - 1
            BY <1>5, <2>1
      <2> QED BY <1>1, <1>5, <2>1, <2>2 DEF Settled, Busy
<1>10. Pooling'
      <2>1. Busy' = Busy
            BY <1>1, <1>2 DEF Busy, Over
      <2> QED BY <1>1, <1>2, <2>1 DEF RoundIInv, Pooling
<1>11. \A q \in 1..n : q \in Searches /\ found[q] = search[q].sources /\ found[q] \in Nat
      BY <1>4, <1>5, QueriesAre DEF Found
<1>12. phase' = "shared" => b = <<>> /\ blind
      BY <1>8
<1>13. phase' = "over" => ~(b = <<>> /\ blind)
      BY <1>8
<1>14. b = <<>> => \A q \in 1..n : search[q].sources = 0
      BY <1>7, <1>11 DEF Whole
<1>15. EvidenceWhole'
      <2> SUFFICES ASSUME phase' = "over" PROVE EvidenceWhole'
          BY DEF EvidenceWhole
      <2>1. \A q \in 1..n : search[q].sources > 0 <=> \E i \in DOMAIN b : b[i].query = q
            BY <1>7, <1>11 DEF Whole
      <2>2. Chained(b)
            BY <1>7 DEF Whole
      <2>3. /\ search' = search /\ queries' = queries /\ (blind' <=> blind) /\ evidence' = b
            BY <1>1, <1>2, <1>8
      <2> QED BY <1>5, <1>13, <2>1, <2>2, <2>3 DEF EvidenceWhole, Chained
<1>16. SharedLast'
      <2>1. search[Shared].pc = "waiting" /\ queries # <<>>
            BY <1>1 DEF RoundIInv, Staged
      <2> QED BY <1>1, <1>2, <2>1 DEF SharedLast
<1>17. Staged'
      <2>1. Settled' /\ next' = Len(queries') + 1
            BY <1>1, <1>2, <1>9 DEF Settled, Over
      <2>2. phase' \in {"shared", "over"}
            BY <1>8
      <2>3. phase' = "shared" =>
              evidence' = <<>> /\ blind' /\ \A q \in DOMAIN queries' : search'[q].sources = 0
            BY <1>1, <1>2, <1>5, <1>8, <1>12, <1>14
      <2> QED BY <1>15, <1>16, <2>1, <2>2, <2>3 DEF Staged
<1> QED BY <1>3, <1>10, <1>17 DEF RoundIInv

(* A search of its own settles without the queries.                        *)
LEMMA SharedKeeps == ASSUME RoundIInv, AskShared \/ SharedIn PROVE RoundIInv'
<1>1. CASE AskShared
      <2>1. /\ phase = "shared" /\ Start(Shared)
            /\ UNCHANGED <<phase, blind, width, queries, next, evidence>>
            BY <1>1 DEF AskShared, round
      <2>2. IInv' /\ Moved(Shared)
            <3>1. PICK s \in Searches : s = Shared
                  BY QueriesAre
            <3> QED BY <2>1, <3>1, StartKeeps, StartMoves DEF RoundIInv
      <2>3. \A q \in 1..MaxQueries : search'[q] = search[q]
            BY <2>2, QueriesAre DEF Moved
      <2>4. \A q \in DOMAIN queries : q \in 1..MaxQueries
            BY QueriesAre
      <2>5. Busy' = Busy
            <3>1. \A q \in 1..next - 1 : search'[q] = search[q]
                  BY <2>3, QueriesAre
            <3> QED BY <2>1, <3>1 DEF Busy, Over
      <2>6. Pooling'
            BY <2>1, <2>3, <2>5 DEF RoundIInv, Pooling
      <2>7. Settled'
            BY <2>1, <2>3, <2>4 DEF RoundIInv, Staged, Settled, Over
      <2>8. SharedLast'
            <3>1. blind /\ \A q \in DOMAIN queries : Over(q) /\ search[q].sources = 0
                  BY <2>1 DEF RoundIInv, Staged, Settled
            <3>2. \A q \in DOMAIN queries : Over(q)' /\ search'[q].sources = 0
                  BY <2>3, <2>4, <3>1 DEF Over
            <3> QED BY <2>1, <3>1, <3>2 DEF SharedLast
      <2>9. Staged'
            BY <2>1, <2>3, <2>4, <2>7, <2>8 DEF RoundIInv, Staged, EvidenceWhole
      <2> QED BY <2>2, <2>6, <2>9 DEF RoundIInv
<1>2. CASE SharedIn
      <2>1. /\ phase = "shared" /\ Over(Shared) /\ phase' = "over"
            /\ evidence' = Numbered(<<Shared>>, Found)
            /\ UNCHANGED <<vars, blind, width, queries, next>>
            BY <1>2 DEF SharedIn
      <2>2. UNCHANGED <<policy, now, lanes, aborted, search>>
            BY <2>1 DEF vars
      <2>3. IInv'
            BY <2>1, OthersKeep DEF RoundIInv
      <2>4. PICK found \in [Searches -> Nat] : found = Found
            BY FoundIs
      <2>5. PICK b : b = Numbered(<<Shared>>, found)
            OBVIOUS
      <2>6. b \in Seq(Entry) /\ Chained(b) /\ \A i \in DOMAIN b : b[i].query = Shared
            BY <2>5, QueriesAre, NumberedOne
      <2>7. Pooling'
            <3>1. Busy' = Busy
                  BY <2>1, <2>2 DEF Busy, Over
            <3> QED BY <2>1, <2>2, <3>1 DEF RoundIInv, Pooling
      <2>8. \A q \in DOMAIN queries : search[q].sources = 0 /\ q # Shared
            BY <2>1, QueriesAre DEF RoundIInv, Staged
      <2>9. EvidenceWhole'
            <3>1. \A q \in DOMAIN queries : ~(search[q].sources > 0) /\ ~(\E i \in DOMAIN b : b[i].query = q)
                  BY <2>6, <2>8
            <3>2. search' = search /\ queries' = queries /\ evidence' = b
                  BY <2>1, <2>2, <2>4, <2>5
            <3> QED BY <2>1, <2>6, <3>1, <3>2 DEF EvidenceWhole, Chained, Over
      <2>10. Staged'
            <3>1. Settled' /\ next' = Len(queries') + 1
                  BY <2>1, <2>2 DEF RoundIInv, Staged, Settled, Over
            <3>2. SharedLast'
                  <4>1. blind /\ \A q \in DOMAIN queries : Over(q) /\ search[q].sources = 0
                        BY <2>1 DEF RoundIInv, Staged, Settled
                  <4> QED BY <2>1, <2>2, <4>1 DEF SharedLast, Over
            <3> QED BY <2>1, <2>9, <3>1, <3>2 DEF Staged
      <2> QED BY <2>3, <2>7, <2>10 DEF RoundIInv
<1> QED BY <1>1, <1>2

(* A search goes on: none that was over changes.                           *)
LEMMA WalkKeeps == ASSUME RoundIInv, NEW s \in Searches, Walk(s) PROVE RoundIInv'
<1>1. Proceed(s) /\ UNCHANGED <<phase, blind, width, queries, next, evidence>>
      BY DEF Walk, round
<1>2. IInv' /\ Going(search[s]) /\ Moved(s)
      BY <1>1, ProceedMoves, BalanceKeeps, SettleKeeps, RespellKeeps, FaultKeeps
      DEF RoundIInv, Proceed
<1>3. \A q \in Searches : Over(q) => search'[q] = search[q]
      BY <1>2 DEF Moved, Going, Over, Ended
<1>4. \A q \in Searches : search'[q].pc # "waiting" <=> search[q].pc # "waiting"
      BY <1>2 DEF Moved, Going
<1>5. Cardinality(Busy') <= width
      <2>1. Busy' \subseteq Busy
            <3> SUFFICES ASSUME NEW q \in 1..next - 1, ~Over(q)' PROVE ~Over(q)
                BY <1>1 DEF Busy
            <3>1. q \in Searches
                  BY QueriesAre
            <3> QED BY <1>3, <3>1 DEF Over
      <2>2. IsFiniteSet(Busy') /\ Cardinality(Busy') <= Cardinality(Busy)
            BY <2>1, FS_Subset, QueriesAre
      <2>3. {Cardinality(Busy), Cardinality(Busy'), width} \subseteq Nat
            BY <2>2, QueriesAre, FS_CardinalityType DEF RoundIInv, Pooling
      <2> QED BY <2>2, <2>3 DEF RoundIInv, Pooling
<1>6. Pooling'
      BY <1>1, <1>4, <1>5, QueriesAre DEF RoundIInv, Pooling
<1>7. \A q \in DOMAIN queries : q \in Searches
      BY QueriesAre
<1>8. search'[Shared].pc # "waiting" <=> search[Shared].pc # "waiting"
      BY <1>4, QueriesAre
<1>9. SharedLast'
      <2>1. \A q \in DOMAIN queries : Over(q) /\ search[q].sources = 0
                                     => Over(q)' /\ search'[q].sources = 0
            BY <1>3, <1>7 DEF Over
      <2>2. Over(Shared) => Over(Shared)'
            BY <1>3, QueriesAre DEF Over
      <2> QED BY <1>1, <1>8, <2>1, <2>2 DEF RoundIInv, Staged, SharedLast
<1>10. Staged'
      <2>1. CASE phase \in {"asking", "searching"}
            BY <1>1, <1>8, <1>9, <2>1 DEF RoundIInv, Staged, EvidenceWhole
      <2>2. CASE phase \in {"shared", "over"}
            <3>1. Settled
                  BY <2>2 DEF RoundIInv, Staged
            <3>2. \A q \in DOMAIN queries : search'[q] = search[q]
                  BY <1>3, <1>7, <3>1 DEF Settled
            <3>3. Settled'
                  BY <1>1, <3>1, <3>2 DEF Settled, Over
            <3>4. EvidenceWhole'
                  BY <1>1, <3>2 DEF RoundIInv, Staged, EvidenceWhole
            <3> QED BY <1>1, <1>9, <2>2, <3>2, <3>3, <3>4 DEF RoundIInv, Staged
      <2> QED BY <2>1, <2>2 DEF RoundIInv, Staged
<1> QED BY <1>2, <1>6, <1>10 DEF RoundIInv

LEMMA RestKeeps ==
    ASSUME RoundIInv,
           \/ \E g \in Signals : Abort(g) /\ UNCHANGED round
           \/ Tick /\ UNCHANGED round
           \/ UNCHANGED allVars
    PROVE  RoundIInv'
<1>1. UNCHANGED <<phase, blind, width, queries, next, evidence>>
      BY DEF round, allVars
<1>2. (\E g \in Signals : Abort(g)) \/ Tick \/ UNCHANGED vars
      BY DEF allVars
<1>3. IInv'
      BY <1>2, OthersKeep DEF RoundIInv
<1>4. UNCHANGED search
      BY <1>2 DEF Abort, Tick, vars
<1>5. Busy' = Busy
      BY <1>1, <1>4 DEF Busy, Over
<1>6. Pooling'
      BY <1>1, <1>4, <1>5 DEF RoundIInv, Pooling
<1>7. Staged'
      BY <1>1, <1>4 DEF RoundIInv, Staged, Settled, EvidenceWhole, SharedLast, Over
<1> QED BY <1>3, <1>6, <1>7 DEF RoundIInv

(* The inductive invariant of a round: the queries taken are the searches  *)
(* begun, what has settled stays as it is, and once no query is left the   *)
(* evidence is all that was found.                                         *)
THEOREM RoundInductive == ResearchSpec => []RoundIInv
<1>1. RoundIInv /\ [RoundNext]_allVars => RoundIInv'
      <2> SUFFICES ASSUME RoundIInv, [RoundNext]_allVars PROVE RoundIInv'
          OBVIOUS
      <2>1. CASE Collect \/ Take \/ Gather
            BY <2>1, CollectKeeps, TakeKeeps, GatherKeeps
      <2>2. CASE AskShared \/ SharedIn
            BY <2>2, SharedKeeps
      <2>3. CASE \E s \in Searches : Walk(s)
            BY <2>3, WalkKeeps
      <2>4. CASE (\E g \in Signals : Abort(g) /\ UNCHANGED round) \/ (Tick /\ UNCHANGED round)
            BY <2>4, RestKeeps
      <2>5. CASE UNCHANGED allVars
            BY <2>5, RestKeeps
      <2> QED BY <2>1, <2>2, <2>3, <2>4, <2>5 DEF RoundNext
<1> QED BY <1>1, RoundInitially, PTL DEF ResearchSpec

(* However many seats ask, whatever of it is the same, however the lanes   *)
(* fail and whenever the round is aborted: each thing is searched for once *)
(* by a pool that keeps to its width, every search has settled as the      *)
(* round ends, and its evidence is all that was found, numbered without a  *)
(* gap in the order it was asked (evidence.ts:146-166, 252-307); the       *)
(* shared search is made for blind seats alone, and never on top of what   *)
(* the queries found (council.ts:982-989).                                 *)
THEOREM RoundHolds == ResearchSpec => []RoundWhole
<1> QED BY RoundInductive, RoundImplies, PTL

(* The lanes keep their promises under the round as on their own.          *)
THEOREM LanesHold == ResearchSpec => [](Accounted /\ CostLeads /\ BenchStands)
<1>1. RoundIInv => Accounted /\ CostLeads /\ BenchStands
      BY ImpliesAccounted, ImpliesCostLeads, ImpliesBenchStands DEF RoundIInv
<1> QED BY <1>1, RoundInductive, PTL
=============================================================================
