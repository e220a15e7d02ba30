------------------------ MODULE CouncilVerdictProofs ------------------------
(***************************************************************************)
(* What holds of a recursion along the natural numbers, of the greatest    *)
(* values of a function, and of a verdict for any roster and any votes.    *)
(***************************************************************************)
EXTENDS CouncilVerdict, Integers, FiniteSetTheorems, WellFoundedInduction, TLAPS

USE SeatsAssumption

(* Among natural numbers there is a least one.                             *)
LEMMA LeastNat ==
    ASSUME NEW T \in SUBSET Nat, T # {}
    PROVE  \E n \in T : \A m \in T : n <= m
<1>1. \E x \in T : \A y \in T : ~ (<<y, x>> \in OpToRel(<, Nat))
      BY WFMin, NatLessThanWellFounded
<1>2. PICK x \in T : \A y \in T : ~ (<<y, x>> \in OpToRel(<, Nat))
      BY <1>1
<1>3. \A y \in T : ~(y < x)
      BY <1>2 DEF OpToRel
<1> QED
    BY <1>3

(* Induction along the natural numbers, for a set of them.                 *)
LEMMA Upward ==
    ASSUME NEW n \in Nat, NEW G, 0 \in G, \A k \in 1..n : k - 1 \in G => k \in G
    PROVE  0..n \subseteq G
<1> DEFINE T == (0..n) \ G
<1>1. SUFFICES ASSUME T # {} PROVE FALSE
      OBVIOUS
<1>2. T \in SUBSET Nat
      OBVIOUS
<1>3. PICK k \in T : \A m \in T : k <= m
      BY <1>1, <1>2, LeastNat
<1>4. k \in 1..n /\ k - 1 \in 0..n /\ ~(k <= k - 1)
      BY <1>3
<1> QED
    BY <1>3, <1>4

(* A value that is carried from step to step has a value at every step.    *)
Walks(S, base, step, n) ==
    \E g \in [0..n -> S] : g[0] = base /\ \A i \in 1..n : g[i] = step[i][g[i - 1]]

LEMMA Walk ==
    ASSUME NEW S, NEW base \in S, NEW step \in [Nat -> [S -> S]], NEW n \in Nat
    PROVE  Walks(S, base, step, n)
<1> DEFINE Good(k) == \E g \in [0..k -> S] :
                          g[0] = base /\ \A i \in 1..k : g[i] = step[i][g[i - 1]]
<1> DEFINE G == {k \in Nat : Good(k)}
<1>1. Good(0)
  <2> DEFINE g == [i \in 0..0 |-> base]
  <2>1. g \in [0..0 -> S] /\ g[0] = base /\ 1..0 = {}
        OBVIOUS
  <2> QED
      BY <2>1
<1>2. ASSUME NEW k \in Nat, k # 0, Good(k - 1) PROVE Good(k)
  <2>1. PICK g \in [0..k - 1 -> S] :
            g[0] = base /\ \A i \in 1..k - 1 : g[i] = step[i][g[i - 1]]
        BY <1>2
  <2> DEFINE h == [i \in 0..k |-> IF i = k THEN step[k][g[k - 1]] ELSE g[i]]
  <2>2. g[k - 1] \in S
        BY <1>2, <2>1
  <2>3. step[k][g[k - 1]] \in S
        BY <2>2
  <2>4. h \in [0..k -> S]
        BY <2>1, <2>3
  <2>5. h[0] = base
        BY <1>2, <2>1
  <2>6. \A i \in 1..k : h[i] = step[i][h[i - 1]]
        BY <1>2, <2>1
  <2> QED
      BY <2>4, <2>5, <2>6
<1> HIDE DEF Good
<1>3. 0 \in G /\ \A k \in 1..n : k - 1 \in G => k \in G
      BY <1>1, <1>2
<1>4. 0..n \subseteq G
  <2> HIDE DEF G
  <2> QED
      BY <1>3, Upward
<1> QED
    BY <1>4 DEF Good, Walks

(* Of some of the seats, one has the greatest value.                       *)
LEMMA BestExists ==
    ASSUME NEW from \in SUBSET Seats, from # {}, NEW value \in [Seats -> Nat]
    PROVE  Best(from, value) # {}
<1> DEFINE Good(k) == \A S \in SUBSET (1..k) : S \subseteq from /\ S # {} => Best(S, value) # {}
<1> DEFINE G == {k \in 0..NumSeats : Good(k)}
<1>1. Good(0)
  <2>1. 1..0 = {}
        OBVIOUS
  <2> QED
      BY <2>1
<1>2. ASSUME NEW k \in 1..NumSeats, Good(k - 1) PROVE Good(k)
  <2> SUFFICES ASSUME NEW S \in SUBSET (1..k), S \subseteq from, S # {}
               PROVE  \E s \in S : \A t \in S : value[t] <= value[s]
      BY DEF Best
  <2> DEFINE R == S \ {k}
  <2>1. R \in SUBSET (1..k - 1) /\ R \subseteq from
        OBVIOUS
  <2>2. CASE R = {}
    <3>1. S = {k} /\ k \in Seats
          BY <2>2 DEF Seats
    <3> QED
        BY <3>1
  <2>3. CASE R # {}
    <3>1. PICK s \in R : \A t \in R : value[t] <= value[s]
          BY <1>2, <2>1, <2>3 DEF Best
    <3>2. s \in Seats /\ \A t \in S : t \in Seats
          OBVIOUS
    <3>3. CASE k \notin S \/ value[k] <= value[s]
          BY <3>1, <3>3
    <3>4. CASE k \in S /\ value[s] <= value[k]
      <4>1. \A t \in R : value[t] \in Nat /\ value[s] \in Nat /\ value[k] \in Nat
            BY <3>2, <3>4
      <4>2. \A t \in S : value[t] <= value[k]
            BY <3>1, <3>4, <4>1
      <4> QED
          BY <3>4, <4>2
    <3>5. k \in S => value[s] \in Nat /\ value[k] \in Nat
          BY <3>2
    <3> QED
        BY <3>3, <3>4, <3>5
  <2> QED
      BY <2>2, <2>3
<1> HIDE DEF Good
<1>3. 0 \in G /\ \A k \in 1..NumSeats : k - 1 \in G => k \in G
      BY <1>1, <1>2
<1>4. 0..NumSeats \subseteq G
  <2> HIDE DEF G
  <2> QED
      BY <1>3, Upward
<1>5. Good(NumSeats) /\ from \in SUBSET (1..NumSeats)
      BY <1>4 DEF Seats
<1> QED
    BY <1>5 DEF Good

(* The best are among those considered, and none of these is better.       *)
LEMMA BestAre ==
    ASSUME NEW from \in SUBSET Seats, NEW value \in [Seats -> Nat], NEW s \in Best(from, value)
    PROVE  s \in from /\ \A t \in from : value[t] \in Nat /\ value[t] <= value[s]
                                         /\ (t \notin Best(from, value) => value[t] < value[s])
<1>1. s \in from /\ s \in Seats /\ \A t \in from : t \in Seats /\ value[t] <= value[s]
      BY DEF Best
<1>2. \A t \in from : value[t] \in Nat /\ value[s] \in Nat
      BY <1>1
<1>3. ASSUME NEW t \in from, value[t] = value[s] PROVE t \in Best(from, value)
      BY <1>1, <1>3 DEF Best
<1> QED
    BY <1>1, <1>2, <1>3

-----------------------------------------------------------------------------
(* Some of the seats have voted.                                           *)
VotesCast(ballots) == DOMAIN ballots \subseteq Seats /\ \A r \in DOMAIN ballots : ballots[r] \in Ballot

(* A vote is cast by one seat, for at most one.                            *)
LEMMA VotersAreSeats ==
    ASSUME NEW ballots, VotesCast(ballots), NEW s \in Seats
    PROVE  /\ Voters(ballots, s) \subseteq Seats
           /\ Peers(ballots, s) \subseteq Voters(ballots, s)
           /\ \A r \in Voters(ballots, s) :
                r \in DOMAIN ballots /\ ballots[r].ok /\ ballots[r].vote = s
                                     /\ ballots[r].confidence \in Nat
<1>1. \A r \in DOMAIN ballots : r \in Seats /\ ballots[r] \in Ballot
      BY DEF VotesCast
<1>2. \A b \in Ballot : b.confidence \in Nat
  <2>1. Confidences \union {0} \subseteq Nat
        OBVIOUS
  <2> QED
      BY <2>1 DEF Ballot
<1> QED
    BY <1>1, <1>2 DEF Voters, Peers

(* What votes come to is a natural number.                                 *)
LEMMA TotalIsNat ==
    ASSUME NEW ballots, NEW s, NEW from,
           \A r \in from : r \in Seats => ballots[r].confidence \in Nat
    PROVE  Total(ballots, from, s) \in Nat
<1> DEFINE Rec(sum) ==
        sum = [r \in 0..NumSeats |->
                  IF r = 0 THEN 0
                  ELSE IF r \in from THEN sum[r - 1] + Weight(ballots, r, s) ELSE sum[r - 1]]
<1> DEFINE step == [r \in Nat |-> [x \in Nat |->
                      IF r \in from /\ r \in Seats THEN x + Weight(ballots, r, s) ELSE x]]
<1>1. \A r \in from : r \in Seats => Weight(ballots, r, s) \in Nat
      BY DEF Weight
<1>2. step \in [Nat -> [Nat -> Nat]]
      BY <1>1
<1>3. PICK g \in [0..NumSeats -> Nat] : g[0] = 0 /\ \A r \in 1..NumSeats : g[r] = step[r][g[r - 1]]
  <2> HIDE DEF step
  <2>1. Walks(Nat, 0, step, NumSeats)
        BY <1>2, Walk
  <2> QED
      BY <2>1 DEF Walks
<1>4. ASSUME NEW r \in 1..NumSeats
      PROVE  g[r] = IF r \in from THEN g[r - 1] + Weight(ballots, r, s) ELSE g[r - 1]
  <2>1. r \in Nat /\ r \in Seats /\ r - 1 \in 0..NumSeats
        BY DEF Seats
  <2>2. g[r - 1] \in Nat
        BY <2>1
  <2>3. step[r][g[r - 1]] = IF r \in from THEN g[r - 1] + Weight(ballots, r, s) ELSE g[r - 1]
        BY <2>1, <2>2
  <2> QED
      BY <1>3, <2>3
<1>5. Rec(g)
      BY <1>3, <1>4
<1> DEFINE sum == CHOOSE t : Rec(t)
<1>6. Rec(sum)
      BY <1>5
<1>7. Total(ballots, from, s) = sum[NumSeats]
      BY DEF Total
<1>8. sum[0] = 0 /\ \A k \in 1..NumSeats :
          sum[k] = IF k \in from THEN sum[k - 1] + Weight(ballots, k, s) ELSE sum[k - 1]
  <2> HIDE DEF sum
  <2>1. 0 \in 0..NumSeats /\ \A k \in 1..NumSeats : k \in 0..NumSeats /\ k # 0
        OBVIOUS
  <2> QED
      BY <1>6, <2>1
<1> HIDE DEF sum
<1> DEFINE G == {k \in 0..NumSeats : sum[k] \in Nat}
<1>9. 0 \in G
      BY <1>8
<1>10. \A k \in 1..NumSeats : k - 1 \in G => k \in G
      BY <1>1, <1>8 DEF Seats
<1>11. 0..NumSeats \subseteq G
  <2> HIDE DEF G
  <2> QED
      BY <1>9, <1>10, Upward
<1> QED
    BY <1>7, <1>11

(* A penalty takes off no more than there is, and a worse one no less.     *)
LEMMA WorseTakesMore ==
    ASSUME NEW x \in Nat, NEW p \in 0..Whole, NEW q \in 0..Whole, p <= q
    PROVE  x * (Whole - p) \in Nat /\ x * (Whole - q) <= x * (Whole - p)
<1>1. PICK d \in Nat, y \in Nat : y = Whole - q /\ Whole - p = y + d
  <2>1. Whole - q \in Nat /\ q - p \in Nat /\ Whole - p = (Whole - q) + (q - p)
        BY DEF Whole
  <2> QED
      BY <2>1
<1>2. x * (y + d) = x * y + x * d
      OBVIOUS
<1>3. x * y \in Nat /\ x * d \in Nat
      OBVIOUS
<1> HIDE DEF Whole
<1>4. x * (Whole - p) = x * y + x * d
      BY <1>1, <1>2
<1>5. x * (Whole - q) = x * y
      BY <1>1
<1> QED
    BY <1>3, <1>4, <1>5

Clear(penalty) == penalty \in [Seats -> 0..Whole]

LEMMA ScoresAreNat ==
    ASSUME NEW ballots, VotesCast(ballots), NEW penalty, Clear(penalty)
    PROVE  /\ PeerScores(ballots, penalty) \in [Seats -> Nat]
           /\ Scores(ballots, penalty) \in [Seats -> Nat]
<1>1. ASSUME NEW s \in Seats
      PROVE  Total(ballots, Peers(ballots, s), s) \in Nat /\ Total(ballots, Voters(ballots, s), s) \in Nat
      BY VotersAreSeats, TotalIsNat
<1>2. ASSUME NEW s \in Seats, NEW x \in Nat PROVE Scaled(penalty, s, x) \in Nat
  <2>1. penalty[s] \in 0..Whole
        BY DEF Clear
  <2>2. penalty[s] <= penalty[s]
        BY <2>1 DEF Whole
  <2>3. x * (Whole - penalty[s]) \in Nat
        BY <2>1, <2>2, WorseTakesMore
  <2> QED
      BY <2>3 DEF Scaled
<1> QED
    BY <1>1, <1>2 DEF PeerScores, Scores

-----------------------------------------------------------------------------
(* Seats that were voted for have one that was voted for first.            *)
LEMMA FirstNamedIsNamed ==
    ASSUME NEW ballots, VotesCast(ballots), NEW from \in SUBSET Seats, from # {},
           \A s \in from : Voters(ballots, s) # {}
    PROVE  FirstNamed(ballots, from) \in from
<1> DEFINE T == {r \in Seats : \E s \in from : r \in Voters(ballots, s)}
<1>1. \A s \in from : Voters(ballots, s) \subseteq Seats
      BY VotersAreSeats
<1>2. T # {} /\ T \in SUBSET Nat
  <2>1. PICK s \in from : Voters(ballots, s) # {}
        OBVIOUS
  <2>2. PICK r \in Voters(ballots, s) : TRUE
        BY <2>1
  <2>3. r \in T
        BY <1>1, <2>2
  <2> QED
      BY <2>3 DEF Seats
<1>3. PICK r \in T : \A q \in T : r <= q
      BY <1>2, LeastNat
<1>4. PICK s \in from : r \in Voters(ballots, s)
      BY <1>3
<1>5. \A t \in from : \A q \in Voters(ballots, t) : r <= q
      BY <1>1, <1>3
<1> QED
    BY <1>4, <1>5 DEF FirstNamed

(* What is one seat, among the seats.                                      *)
LEMMA OneSeat ==
    ASSUME NEW S \in SUBSET Seats
    PROVE  Cardinality(S) = 1 <=> \E s \in Seats : S = {s}
<1>1. IsFiniteSet(S)
  <2>1. IsFiniteSet(Seats)
        BY FS_Interval DEF Seats
  <2> QED
      BY <2>1, FS_Subset
<1> QED
    BY <1>1, FS_Singleton

(* What becomes of the best when the value of one seat falls.              *)
Yields(from, v, w, s) ==
    /\ Best(from, w) = {s} => Best(from, v) = {s}
    /\ \A t \in Seats : t # s /\ Best(from, v) = {t} => Best(from, w) = {t}
    /\ w[s] = v[s] => Best(from, w) = Best(from, v)
    /\ s \in Best(from, w) /\ w[s] < v[s] => Best(from, v) = {s}

LEMMA OneFalls ==
    ASSUME NEW from \in SUBSET Seats, NEW v \in [Seats -> Nat], NEW w \in [Seats -> Nat],
           NEW s \in Seats, \A t \in Seats : t # s => w[t] = v[t], w[s] <= v[s]
    PROVE  Yields(from, v, w, s)
<1>1. \A t \in from : t \in Seats /\ v[t] \in Nat /\ w[t] \in Nat
      OBVIOUS
<1>2. v[s] \in Nat /\ w[s] \in Nat
      OBVIOUS
<1>3. ASSUME s \in Best(from, w), \A t \in from : t # s => w[t] < v[s]
      PROVE  Best(from, v) = {s}
  <2>1. s \in from /\ \A t \in from : t # s => v[t] < v[s]
        BY <1>1, <1>3 DEF Best
  <2>2. s \in Best(from, v)
        BY <1>1, <1>2, <2>1 DEF Best
  <2>3. ASSUME NEW t \in Best(from, v) PROVE t = s
        BY <1>1, <1>2, <2>1 DEF Best
  <2> QED
      BY <2>2, <2>3
<1>4. ASSUME Best(from, w) = {s} PROVE Best(from, v) = {s}
  <2>1. s \in Best(from, w)
        BY <1>4
  <2>2. \A t \in from : t # s => w[t] < w[s]
        BY <1>4, <2>1, BestAre
  <2>3. \A t \in from : t # s => w[t] < v[s]
        BY <1>1, <1>2, <2>2
  <2> QED
      BY <1>3, <2>1, <2>3
<1>5. ASSUME NEW t \in Seats, t # s, Best(from, v) = {t} PROVE Best(from, w) = {t}
  <2>1. t \in Best(from, v)
        BY <1>5
  <2>2. t \in from /\ \A u \in from : u # t => v[u] < v[t]
        BY <1>5, <2>1, BestAre
  <2>3. \A u \in from : w[u] <= v[u] /\ w[t] = v[t]
        BY <1>1, <1>2, <1>5
  <2>4. \A u \in from : u # t => w[u] < w[t]
        BY <1>1, <2>2, <2>3
  <2>5. t \in Best(from, w)
        BY <1>1, <2>2, <2>4 DEF Best
  <2>6. ASSUME NEW u \in Best(from, w) PROVE u = t
        BY <1>1, <2>2, <2>4 DEF Best
  <2> QED
      BY <2>5, <2>6
<1>6. ASSUME w[s] = v[s] PROVE Best(from, w) = Best(from, v)
  <2>1. \A t \in from : w[t] = v[t]
        BY <1>1, <1>6
  <2> QED
      BY <2>1 DEF Best
<1>7. ASSUME s \in Best(from, w), w[s] < v[s] PROVE Best(from, v) = {s}
  <2>1. \A t \in from : w[t] <= w[s]
        BY <1>7 DEF Best
  <2>2. \A t \in from : t # s => w[t] < v[s]
        BY <1>1, <1>2, <1>7, <2>1
  <2> QED
      BY <1>3, <1>7, <2>2
<1> QED
    BY <1>4, <1>5, <1>6, <1>7 DEF Yields

(* A worse penalty for a seat lowers its totals, and nobody else's.        *)
LEMMA PenaltyLowers ==
    ASSUME NEW ballots, VotesCast(ballots), NEW penalty, Clear(penalty), NEW worse, Clear(worse),
           NEW s \in Seats, penalty[s] <= worse[s], \A t \in Seats : t # s => worse[t] = penalty[t]
    PROVE  /\ PeerScores(ballots, worse)[s] <= PeerScores(ballots, penalty)[s]
           /\ Scores(ballots, worse)[s] <= Scores(ballots, penalty)[s]
           /\ \A t \in Seats : t # s =>
                /\ PeerScores(ballots, worse)[t] = PeerScores(ballots, penalty)[t]
                /\ Scores(ballots, worse)[t] = Scores(ballots, penalty)[t]
<1>1. Total(ballots, Peers(ballots, s), s) \in Nat /\ Total(ballots, Voters(ballots, s), s) \in Nat
      BY VotersAreSeats, TotalIsNat
<1>2. penalty[s] \in 0..Whole /\ worse[s] \in 0..Whole
      BY DEF Clear
<1>3. ASSUME NEW x \in Nat PROVE Scaled(worse, s, x) <= Scaled(penalty, s, x)
  <2>1. x * (Whole - worse[s]) <= x * (Whole - penalty[s])
        BY <1>2, WorseTakesMore
  <2> QED
      BY <2>1 DEF Scaled
<1>4. \A x : \A t \in Seats : t # s => Scaled(worse, t, x) = Scaled(penalty, t, x)
      BY DEF Scaled
<1> QED
    BY <1>1, <1>3, <1>4 DEF PeerScores, Scores

(* The votes for a seat can be counted.                                    *)
LEMMA CountsAreNat ==
    ASSUME NEW ballots, VotesCast(ballots)
    PROVE  Counts(ballots) \in [Seats -> Nat]
<1>1. ASSUME NEW s \in Seats PROVE Cardinality(Voters(ballots, s)) \in Nat
  <2>1. IsFiniteSet(Seats)
        BY FS_Interval DEF Seats
  <2>2. IsFiniteSet(Voters(ballots, s))
        BY <2>1, VotersAreSeats, FS_Subset
  <2> QED
      BY <2>2, FS_CardinalityType
<1> QED
    BY <1>1 DEF Counts

(* Where there is a vote, who wins was voted for (council.ts:566-593).     *)
THEOREM WinnerIsNamed ==
    ASSUME NEW ballots, VotesCast(ballots), Named(ballots) # {}, NEW drafts,
           NEW penalty, Clear(penalty)
    PROVE  Tally(ballots, drafts, penalty).winner \in Named(ballots)
<1> DEFINE peer == PeerBest(ballots, penalty)
<1> DEFINE top == TopBest(ballots, penalty)
<1> DEFINE most == Best(top, Counts(ballots))
<1>1. Named(ballots) \in SUBSET Seats /\ Backed(ballots) \subseteq Named(ballots)
      BY VotersAreSeats DEF Named, Backed, Peers
<1>2. peer \subseteq Backed(ballots) /\ top \subseteq Named(ballots) /\ most \subseteq top
      BY DEF PeerBest, TopBest, Best
<1>3. \A t : Sole({t}) = t
      BY DEF Sole
<1>4. Tally(ballots, drafts, penalty).winner =
        IF Cardinality(peer) = 1 THEN Sole(peer)
        ELSE IF Cardinality(top) = 1 THEN Sole(top) ELSE FirstNamed(ballots, most)
  <2>1. \A winner, method, tied : Verdict(winner, method, tied).winner = winner
        BY DEF Verdict
  <2> QED
      BY <2>1 DEF Tally
<1>5. FirstNamed(ballots, most) \in most
  <2>1. Scores(ballots, penalty) \in [Seats -> Nat] /\ Counts(ballots) \in [Seats -> Nat]
        BY ScoresAreNat, CountsAreNat
  <2>2. top # {}
        BY <1>1, <2>1, BestExists DEF TopBest
  <2>3. top \in SUBSET Seats
        BY <1>1, <1>2
  <2> HIDE DEF top
  <2>4. most # {}
        BY <2>1, <2>2, <2>3, BestExists
  <2>5. most \in SUBSET Seats /\ \A s \in most : Voters(ballots, s) # {}
        BY <1>1, <1>2 DEF Named
  <2> HIDE DEF most
  <2> QED
      BY <2>4, <2>5, FirstNamedIsNamed
<1> HIDE DEF peer, top, most
<1>6. CASE Cardinality(peer) = 1
  <2>1. PICK t \in Seats : peer = {t}
        BY <1>1, <1>2, <1>6, OneSeat
  <2> QED
      BY <1>1, <1>2, <1>3, <1>4, <1>6, <2>1
<1>7. CASE Cardinality(peer) # 1 /\ Cardinality(top) = 1
  <2>1. PICK t \in Seats : top = {t}
        BY <1>1, <1>2, <1>7, OneSeat
  <2> QED
      BY <1>1, <1>2, <1>3, <1>4, <1>7, <2>1
<1>8. CASE Cardinality(peer) # 1 /\ Cardinality(top) # 1
      BY <1>2, <1>4, <1>5, <1>8
<1> QED
    BY <1>6, <1>7, <1>8

(* "A fabricated citation has to cost something": a seat that wins with a  *)
(* worse penalty wins with the lighter one, whichever rule decides in      *)
(* either case (council.ts:542-593).                                       *)
THEOREM WorseNeverHelps ==
    ASSUME NEW ballots, VotesCast(ballots), NEW drafts, NEW penalty, Clear(penalty),
           NEW worse, Clear(worse), NEW s \in Seats, penalty[s] <= worse[s],
           \A t \in Seats : t # s => worse[t] = penalty[t],
           Tally(ballots, drafts, worse).winner = s
    PROVE  Tally(ballots, drafts, penalty).winner = s
<1> DEFINE Peer(p) == PeerBest(ballots, p)
<1> DEFINE Top(p) == TopBest(ballots, p)
<1> DEFINE Most(p) == Best(Top(p), Counts(ballots))
<1> DEFINE Winner(p) ==
        IF Cardinality(Peer(p)) = 1 THEN Sole(Peer(p))
        ELSE IF Cardinality(Top(p)) = 1 THEN Sole(Top(p))
        ELSE FirstNamed(ballots, Most(p))
<1>1. CASE Named(ballots) = {}
      BY <1>1 DEF Tally
<1>2. ASSUME Named(ballots) # {}, NEW p PROVE Tally(ballots, drafts, p).winner = Winner(p)
  <2>1. \A winner, method, tied : Verdict(winner, method, tied).winner = winner
        BY DEF Verdict
  <2> QED
      BY <1>2, <2>1 DEF Tally
<1>3. CASE Named(ballots) # {}
  <2>0. \A t : Sole({t}) = t
        BY DEF Sole
  <2>1. Winner(worse) = s
        BY <1>2, <1>3
  <2>2. /\ PeerScores(ballots, penalty) \in [Seats -> Nat]
        /\ PeerScores(ballots, worse) \in [Seats -> Nat]
        /\ Scores(ballots, penalty) \in [Seats -> Nat]
        /\ Scores(ballots, worse) \in [Seats -> Nat]
        BY ScoresAreNat
  <2>3. Backed(ballots) \in SUBSET Seats /\ Named(ballots) \in SUBSET Seats
        BY DEF Backed, Named
  <2>4. /\ Peer(worse) = {s} => Peer(penalty) = {s}
        /\ \A t \in Seats : t # s /\ Peer(penalty) = {t} => Peer(worse) = {t}
    <3> DEFINE v == PeerScores(ballots, penalty)
    <3> DEFINE w == PeerScores(ballots, worse)
    <3>1. w[s] <= v[s] /\ \A t \in Seats : t # s => w[t] = v[t]
          BY PenaltyLowers
    <3>2. v \in [Seats -> Nat] /\ w \in [Seats -> Nat]
          BY <2>2
    <3>3. Yields(Backed(ballots), v, w, s)
      <4> HIDE DEF v, w
      <4> QED
          BY <2>3, <3>1, <3>2, OneFalls
    <3> QED
        BY <3>3 DEF Yields, PeerBest
  <2>5. /\ Top(worse) = {s} => Top(penalty) = {s}
        /\ \A t \in Seats : t # s /\ Top(penalty) = {t} => Top(worse) = {t}
        /\ Scores(ballots, worse)[s] = Scores(ballots, penalty)[s] => Top(worse) = Top(penalty)
        /\ s \in Top(worse) /\ Scores(ballots, worse)[s] < Scores(ballots, penalty)[s]
             => Top(penalty) = {s}
    <3> DEFINE v == Scores(ballots, penalty)
    <3> DEFINE w == Scores(ballots, worse)
    <3>1. w[s] <= v[s] /\ \A t \in Seats : t # s => w[t] = v[t]
          BY PenaltyLowers
    <3>2. v \in [Seats -> Nat] /\ w \in [Seats -> Nat]
          BY <2>2
    <3>3. Yields(Named(ballots), v, w, s)
      <4> HIDE DEF v, w
      <4> QED
          BY <2>3, <3>1, <3>2, OneFalls
    <3> QED
        BY <3>3 DEF Yields, TopBest
  <2>6. \A p : Peer(p) \in SUBSET Seats /\ Top(p) \in SUBSET Seats /\ Top(p) \subseteq Named(ballots)
        BY <2>3 DEF Best, PeerBest, TopBest
  <2>7. \A p : /\ Cardinality(Peer(p)) = 1 <=> \E t \in Seats : Peer(p) = {t}
               /\ Cardinality(Top(p)) = 1 <=> \E t \in Seats : Top(p) = {t}
    <3> HIDE DEF Peer, Top
    <3> QED
        BY <2>6, OneSeat
  <2> HIDE DEF Peer
  <2>8. CASE Cardinality(Peer(worse)) = 1
    <3>1. Peer(worse) = {s}
      <4>1. PICK t \in Seats : Peer(worse) = {t}
            BY <2>7, <2>8
      <4>2. Winner(worse) = Sole(Peer(worse))
            BY <2>8
      <4> QED
          BY <2>0, <2>1, <4>1, <4>2
    <3>2. Peer(penalty) = {s}
          BY <2>4, <3>1
    <3>3. Winner(penalty) = s
          BY <2>0, <2>7, <3>2
    <3> QED
        BY <1>2, <1>3, <3>3
  <2>9. CASE Cardinality(Peer(penalty)) = 1 /\ Cardinality(Peer(worse)) # 1
    <3>1. PICK t \in Seats : Peer(penalty) = {t}
          BY <2>7, <2>9
    <3>2. t = s
          BY <2>4, <2>7, <2>9, <3>1
    <3>3. Winner(penalty) = s
          BY <2>0, <2>9, <3>1, <3>2
    <3> QED
        BY <1>2, <1>3, <3>3
  <2>10. CASE Cardinality(Peer(penalty)) # 1 /\ Cardinality(Peer(worse)) # 1
    <3>1. CASE Top(penalty) = {s}
      <4> HIDE DEF Top
      <4>1. Winner(penalty) = s
            BY <2>0, <2>7, <2>10, <3>1
      <4> QED
          BY <1>2, <1>3, <4>1
    <3>2. CASE Top(penalty) # {s}
      <4>1. Cardinality(Top(worse)) # 1
        <5> SUFFICES ASSUME Cardinality(Top(worse)) = 1 PROVE FALSE
            OBVIOUS
        <5> HIDE DEF Top
        <5>1. PICK t \in Seats : Top(worse) = {t}
              BY <2>7
        <5>2. Winner(worse) = Sole(Top(worse))
              BY <2>10
        <5> HIDE DEF Winner
        <5>3. t = s
              BY <2>0, <2>1, <5>1, <5>2
        <5>4. Top(penalty) = {s}
              BY <2>5, <5>1, <5>3
        <5> QED
            BY <3>2, <5>4
      <4>2. Cardinality(Top(penalty)) # 1
        <5> HIDE DEF Top
        <5> QED
            BY <2>5, <2>7, <3>2, <4>1
      <4>3. FirstNamed(ballots, Most(worse)) = s
            BY <2>1, <2>10, <4>1
      <4>4. s \in Top(worse)
        <5>1. Top(worse) # {}
              BY <1>3, <2>2, <2>3, BestExists DEF TopBest
        <5>2. Counts(ballots) \in [Seats -> Nat]
              BY CountsAreNat
        <5>3. Most(worse) # {} /\ Most(worse) \subseteq Top(worse)
          <6> HIDE DEF Top
          <6>1. Best(Top(worse), Counts(ballots)) # {}
                BY <2>6, <5>1, <5>2, BestExists
          <6> QED
              BY <6>1 DEF Best
        <5>4. \A t \in Most(worse) : t \in Seats /\ Voters(ballots, t) # {}
              BY <2>6, <5>3 DEF Named
        <5>5. Most(worse) \in SUBSET Seats
              BY <5>4
        <5>6. FirstNamed(ballots, Most(worse)) \in Most(worse)
          <6> HIDE DEF Most
          <6> QED
              BY <5>3, <5>4, <5>5, FirstNamedIsNamed
        <5> QED
            BY <4>3, <5>3, <5>6
      <4>5. Top(worse) = Top(penalty)
        <5>1. Scores(ballots, worse)[s] <= Scores(ballots, penalty)[s]
              BY PenaltyLowers
        <5>2. Scores(ballots, worse)[s] \in Nat /\ Scores(ballots, penalty)[s] \in Nat
              BY <2>2
        <5> HIDE DEF Top
        <5> QED
            BY <2>5, <3>2, <4>4, <5>1, <5>2
      <4>6. Winner(penalty) = s
            BY <2>10, <4>2, <4>3, <4>5
      <4> QED
          BY <1>2, <1>3, <4>6
    <3> QED
        BY <3>1, <3>2
  <2> QED
      BY <2>8, <2>9, <2>10
<1> QED
    BY <1>1, <1>3

=============================================================================
