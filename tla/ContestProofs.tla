--------------------------- MODULE ContestProofs ----------------------------
(***************************************************************************)
(* What a contest and a proposing round hand on, and what they may cost,   *)
(* for any roster, units, files and limits, whatever the seats write, ask  *)
(* for and vote.                                                           *)
(*                                                                         *)
(* The argument: the number of calls follows from how far each candidate   *)
(* is and how far the contest is; a paid seat makes a candidate only when  *)
(* the contest has fallen back on it; and nobody is at work on a candidate *)
(* once it is put forward, so that what was reviewed is what is handed on. *)
(***************************************************************************)
EXTENDS ProposalRound, CouncilVerdictProofs

USE SeatsAssumption, ContestAssumption

(* The calls a candidate has cost its seat.                                *)
Steps(m) ==
    IF m.pc = "idle" THEN 0 ELSE IF m.reads /\ m.pc # "reading" THEN 2 ELSE 1

(* It is being made.                                                       *)
AtWork(m) == m.pc \in {"asked", "reading", "writing"}

(* It keeps to its files and limits, and is whole once it is made.         *)
Sound(m) ==
    /\ m.written \subseteq contest.targets \intersect Granted
    /\ m.chars <= MaxWriteTotal
    /\ m.shown <= MaxTotalChars
    /\ m.pc = "made" /\ NeedsFiles /\ ~Proposing => m.written # {} /\ m.refused = {}

(* How each seat stands: it works only in its turn, a paid one only when   *)
(* the free ones failed, and has had no more calls than its part costs.    *)
Seated ==
    \A s \in Seats :
        /\ Sound(maker[s])
        /\ AtWork(maker[s]) => s \in Making
        /\ pc = "start" => maker[s].pc = "idle"
        /\ Economy /\ pc \in {"start", "drafting", "voting", "review"} /\ s \notin FreeSeats
             => maker[s].pc = "idle"
        /\ s \in FreeSeats \/ Proposing =>
             calls[s] <= Steps(maker[s]) + IF pc \in {"start", "drafting"} THEN 0 ELSE 1

(* A contest that got under way had the seats and the roots it needs.      *)
Staffed == ~Proposing /\ pc \notin {"start", "failed"} => ~Refused

(* What is put forward can be used, and was made by a proposer or by the   *)
(* seat of last resort.                                                    *)
Forward ==
    ~Proposing =>
        /\ pc \in {"review", "rereview", "passed"} =>
             /\ chosen \in Seats /\ maker[chosen].pc = "made" /\ ~maker[chosen].blank
             /\ chosen \in Proposers \/ (Economy /\ chosen = Fallback)
        /\ pc \in {"fallback", "rereview"} => Economy /\ chosen = Fallback /\ Fallback # NoSeat
        /\ pc = "voting" => Economy

(* What the paid seats have cost so far.                                   *)
Paying ==
    /\ Economy => spent <= CASE pc \in {"start", "drafting", "voting"} -> 0
                             [] pc = "review" -> 1
                             [] pc = "fallback" -> 1 + Steps(maker[Fallback])
                             [] OTHER -> 4
    /\ contest.profile = "fastest" =>
         spent <= IF pc \in {"start", "drafting"} THEN Steps(maker[contest.assigned]) ELSE 3

(* In a proposing round only candidates that can be shown are voted on.    *)
Proposed ==
    Proposing =>
        /\ pc \in {"start", "drafting", "voting", "passed", "failed"}
        /\ pc \in {"start", "drafting"} => DOMAIN ballots = {}
        /\ \A s \in DOMAIN ballots :
             ballots[s].vote \in UsableSeats \union {NoSeat} /\ (~ballots[s].ok => ballots[s].vote = NoSeat)
        /\ pc = "voting" => Cardinality(UsableSeats) > 1
        /\ pc \in {"voting", "passed"} => \A s \in UsableSeats : maker[s].written # {}

IInv == TypeOK /\ Seated /\ Staffed /\ Forward /\ Paying /\ Proposed /\ HandsOnWell

-----------------------------------------------------------------------------
(* Staged trees that stay within the limits and the granted paths.         *)
Tree == [ written : SUBSET Files, refused : SUBSET Files, chars : Nat ]
Kept(list) ==
    { t \in Tree : /\ t.chars <= MaxWriteTotal
                   /\ t.written \subseteq Granted \intersect { f.path : f \in ToSet(list) } }

LEMMA TakingKeeps ==
    ASSUME NEW list \in Seq(File), NEW i \in 1..Len(list), NEW broken, NEW t \in Kept(list)
    PROVE  Taking(t, list[i], broken) \in Kept(list)
<1> DEFINE file == list[i]
<1>1. file \in File /\ file \in ToSet(list)
      BY DEF ToSet
<1>2. file.path \in Files /\ file.size \in Nat /\ file.path \in { f.path : f \in ToSet(list) }
      BY <1>1 DEF File
<1>3. /\ t.chars \in Nat /\ t.chars <= MaxWriteTotal /\ t.refused \in SUBSET Files
      /\ t.written \in SUBSET Files
      /\ t.written \subseteq Granted \intersect { f.path : f \in ToSet(list) }
      /\ t = [ written |-> t.written, refused |-> t.refused, chars |-> t.chars ]
      BY DEF Kept, Tree
<1> HIDE DEF file
<1>4. \/ /\ Taking(t, file, broken) =
            [ written |-> t.written, refused |-> t.refused \union {file.path}, chars |-> t.chars ]
      \/ /\ file.path \in Granted /\ ~(t.chars + file.size > MaxWriteTotal)
         /\ Taking(t, file, broken) =
              [ written |-> t.written \union {file.path}, refused |-> t.refused,
                chars |-> t.chars + file.size ]
      BY <1>3 DEF Taking
<1>5. MaxWriteTotal \in Nat
      OBVIOUS
<1> QED
    BY <1>2, <1>3, <1>4, <1>5 DEF Kept, Tree, file

(* What a seat writes, whatever it writes and wherever the disk fails, is  *)
(* within its limits and the granted paths (writes.ts:198-231).            *)
LEMMA AppliedKeeps ==
    ASSUME NEW list \in Seq(File), NEW broken
    PROVE  Applied(list, broken) \in Kept(list)
<1> DEFINE S == Kept(list)
           base == [ written |-> {}, refused |-> {}, chars |-> 0 ]
           n == Len(list)
           Rec(tree) == tree = [i \in 0..n |-> IF i = 0 THEN base ELSE Taking(tree[i - 1], list[i], broken)]
           step == [i \in Nat |-> [t \in S |-> IF i \in 1..n THEN Taking(t, list[i], broken) ELSE t]]
<1>1. base \in S /\ n \in Nat
      BY DEF Kept, Tree
<1>2. step \in [Nat -> [S -> S]]
      BY TakingKeeps
<1>3. \A i \in 1..n : \A t \in S : step[i][t] = Taking(t, list[i], broken)
      OBVIOUS
<1> HIDE DEF S, base, step
<1>4. PICK g \in [0..n -> S] : g[0] = base /\ \A i \in 1..n : g[i] = step[i][g[i - 1]]
  <2>1. Walks(S, base, step, n)
        BY <1>1, <1>2, Walk
  <2> QED
      BY <2>1 DEF Walks
<1>5. Rec(g)
  <2>1. ASSUME NEW i \in 1..n PROVE g[i] = Taking(g[i - 1], list[i], broken)
        BY <1>3, <1>4
  <2>2. \A i \in 0..n : g[i] = IF i = 0 THEN base ELSE Taking(g[i - 1], list[i], broken)
    <3>1. \A i \in 0..n : i = 0 \/ i \in 1..n
          BY <1>1
    <3> QED
        BY <1>4, <2>1, <3>1
  <2>3. g = [i \in 0..n |-> g[i]]
        BY <1>4
  <2> QED
      BY <2>2, <2>3, Zenon
<1> DEFINE tree == CHOOSE f : Rec(f)
<1>6. Rec(tree)
  <2> HIDE DEF Rec
  <2> QED
      BY <1>5
<1>7. Applied(list, broken) = tree[n]
      BY DEF Applied, base
<1>8. tree[0] = base /\ \A i \in 1..n : tree[i] = Taking(tree[i - 1], list[i], broken)
  <2> HIDE DEF tree
  <2>1. 0 \in 0..n /\ \A i \in 1..n : i \in 0..n /\ i # 0
        BY <1>1
  <2> QED
      BY <1>6, <2>1
<1> HIDE DEF tree
<1> DEFINE G == {k \in 0..n : tree[k] \in S}
<1>9. 0 \in G /\ \A k \in 1..n : k - 1 \in G => k \in G
  <2>1. 0 \in G
        BY <1>1, <1>8
  <2>2. ASSUME NEW k \in 1..n, tree[k - 1] \in S PROVE tree[k] \in S
    <3>1. Taking(tree[k - 1], list[k], broken) \in Kept(list)
          BY <2>2, TakingKeeps DEF S
    <3> QED
        BY <1>8, <3>1 DEF S
  <2> QED
      BY <2>1, <2>2
<1>10. 0..n \subseteq G
  <2> HIDE DEF G
  <2> QED
      BY <1>1, <1>9, Upward
<1> QED
    BY <1>1, <1>7, <1>10 DEF S

(* A block of shown files that is within its limit.                        *)
Blocks == { b \in [ read : Nat, chars : Nat ] : b.chars <= MaxTotalChars }

LEMMA ShowingKeeps ==
    ASSUME NEW file \in File, NEW broken, NEW b \in Blocks
    PROVE  Showing(b, file, broken) \in Blocks
<1>1. /\ file.size \in Nat /\ b.read \in Nat /\ b.chars \in Nat /\ b.chars <= MaxTotalChars
      /\ {MaxTotalChars, MaxFileChars} \subseteq Nat
      BY DEF File, Blocks
<1> DEFINE left == MaxTotalChars - b.chars
           cap  == IF MaxFileChars < left THEN MaxFileChars ELSE left
           kept == IF file.path \in broken THEN 0 ELSE IF file.size < cap THEN file.size ELSE cap
<1>2. left \in Nat /\ cap \in Nat /\ kept \in Nat /\ kept <= left
      BY <1>1
<1>3. Showing(b, file, broken) = IF file.path \notin Granted \/ b.read = MaxReads THEN b
                                 ELSE [ read |-> b.read + 1, chars |-> b.chars + kept ]
      BY DEF Showing
<1> HIDE DEF kept
<1>4. b.chars + kept \in Nat /\ b.chars + kept <= MaxTotalChars /\ b.read + 1 \in Nat
      BY <1>1, <1>2
<1> QED
    BY <1>3, <1>4 DEF Blocks

(* A seat is shown no more than the block holds, whatever it asks for      *)
(* (files.ts:240-268).                                                     *)
LEMMA GatheredKeeps ==
    ASSUME NEW list \in Seq(File), NEW broken
    PROVE  Gathered(list, broken) \in Blocks
<1> DEFINE S == Blocks
           base == [ read |-> 0, chars |-> 0 ]
           n == Len(list)
           Rec(block) == block = [i \in 0..n |-> IF i = 0 THEN base ELSE Showing(block[i - 1], list[i], broken)]
           step == [i \in Nat |-> [t \in S |-> IF i \in 1..n THEN Showing(t, list[i], broken) ELSE t]]
<1>1. base \in S /\ n \in Nat
      BY DEF Blocks
<1>2. step \in [Nat -> [S -> S]]
      BY ShowingKeeps
<1>3. \A i \in 1..n : \A t \in S : step[i][t] = Showing(t, list[i], broken)
      OBVIOUS
<1> HIDE DEF S, base, step
<1>4. PICK g \in [0..n -> S] : g[0] = base /\ \A i \in 1..n : g[i] = step[i][g[i - 1]]
  <2>1. Walks(S, base, step, n)
        BY <1>1, <1>2, Walk
  <2> QED
      BY <2>1 DEF Walks
<1>5. Rec(g)
  <2>1. ASSUME NEW i \in 1..n PROVE g[i] = Showing(g[i - 1], list[i], broken)
        BY <1>3, <1>4
  <2>2. \A i \in 0..n : g[i] = IF i = 0 THEN base ELSE Showing(g[i - 1], list[i], broken)
    <3>1. \A i \in 0..n : i = 0 \/ i \in 1..n
          BY <1>1
    <3> QED
        BY <1>4, <2>1, <3>1
  <2>3. g = [i \in 0..n |-> g[i]]
        BY <1>4
  <2> QED
      BY <2>2, <2>3, Zenon
<1> DEFINE block == CHOOSE f : Rec(f)
<1>6. Rec(block)
  <2> HIDE DEF Rec
  <2> QED
      BY <1>5
<1>7. Gathered(list, broken) = block[n]
      BY DEF Gathered, base
<1>8. block[0] = base /\ \A i \in 1..n : block[i] = Showing(block[i - 1], list[i], broken)
  <2> HIDE DEF block
  <2>1. 0 \in 0..n /\ \A i \in 1..n : i \in 0..n /\ i # 0
        BY <1>1
  <2> QED
      BY <1>6, <2>1
<1> HIDE DEF block
<1> DEFINE G == {k \in 0..n : block[k] \in S}
<1>9. 0 \in G /\ \A k \in 1..n : k - 1 \in G => k \in G
  <2>1. 0 \in G
        BY <1>1, <1>8
  <2>2. ASSUME NEW k \in 1..n, block[k - 1] \in S PROVE block[k] \in S
    <3>1. Showing(block[k - 1], list[k], broken) \in Blocks
          BY <2>2, ShowingKeeps DEF S
    <3> QED
        BY <1>8, <3>1 DEF S
  <2> QED
      BY <2>1, <2>2
<1>10. 0..n \subseteq G
  <2> HIDE DEF G
  <2> QED
      BY <1>1, <1>9, Upward
<1> QED
    BY <1>1, <1>7, <1>10 DEF S

-----------------------------------------------------------------------------
LEMMA MinIsOne == ASSUME NEW S \in SUBSET Seats, S # {} PROVE Min(S) \in S
<1>1. S \in SUBSET Nat
      BY DEF Seats
<1>2. \E n \in S : \A m \in S : n <= m
      BY <1>1, LeastNat
<1> QED
    BY <1>2 DEF Min

(* Another seat is taken where there is one.                               *)
LEMMA FirstButIs ==
    ASSUME NEW S \in SUBSET Seats, NEW s
    PROVE  /\ S = {} => FirstBut(S, s) = NoSeat
           /\ S # {} => FirstBut(S, s) \in S
           /\ S # {} /\ FirstBut(S, s) = s => S = {s}
<1>1. CASE S = {}
      BY <1>1 DEF FirstBut, First
<1>2. CASE S # {} /\ S \subseteq {s}
  <2>1. FirstBut(S, s) = Min(S) /\ S = {s}
        BY <1>2 DEF FirstBut, First
  <2> QED
      BY <1>2, <2>1, MinIsOne
<1>3. CASE ~(S \subseteq {s})
  <2>1. FirstBut(S, s) = Min(S \ {s}) /\ S \ {s} # {} /\ S \ {s} \in SUBSET Seats
        BY <1>3 DEF FirstBut
  <2>2. Min(S \ {s}) \in S \ {s}
        BY <2>1, MinIsOne
  <2> QED
      BY <1>3, <2>1, <2>2
<1> QED
    BY <1>1, <1>2, <1>3

(* Who can be what.                                                        *)
Parts ==
    /\ Proposers \subseteq Seats /\ Paid \subseteq Seats
    /\ Economy => Proposers \subseteq FreeSeats
    /\ contest.profile = "fastest" => Proposers = {contest.assigned}
    /\ Proposing => Proposers = contest.eligible
    /\ Reviewer # NoSeat => Reviewer \in Seats \ FreeSeats
    /\ Reviewer # NoSeat /\ Reviewer = contest.assigned => contest.reviewers = {Reviewer}
    /\ Fallback # NoSeat => Fallback \in Seats \ FreeSeats
    /\ Fallback # NoSeat /\ Fallback = Reviewer => Paid = {Reviewer}
    /\ contest.assigned \in Seats

LEMMA Roles == ASSUME contest \in Contests PROVE Parts
<1>1. /\ contest.profile \in {"economy", "fastest", "propose"} /\ contest.assigned \in Seats
      /\ contest.eligible \in SUBSET Seats /\ contest.reviewers \in SUBSET Seats
      /\ contest.reviewers \intersect FreeSeats = {}
      BY DEF Contest
<1>2. Paid \in SUBSET Seats /\ Paid \intersect FreeSeats = {}
      BY <1>1 DEF Paid
<1>3. /\ Economy => Proposers \subseteq FreeSeats
      /\ contest.profile = "fastest" => Proposers = {contest.assigned}
      /\ Proposing => Proposers = contest.eligible
      /\ Proposers \subseteq Seats
      BY <1>1 DEF Proposers, Economy, Proposing
<1>4. /\ Reviewer # NoSeat => Reviewer \in contest.reviewers
      /\ Reviewer # NoSeat /\ Reviewer = contest.assigned => contest.reviewers = {Reviewer}
      BY <1>1, FirstButIs DEF Reviewer
<1>5. /\ Fallback # NoSeat => Fallback \in Paid
      /\ Fallback # NoSeat /\ Fallback = Reviewer => Paid = {Reviewer}
  <2>1. PICK r : r = Reviewer
        OBVIOUS
  <2>2. Fallback = FirstBut(Paid, r)
        BY <2>1 DEF Fallback
  <2>3. PICK P \in SUBSET Seats : P = Paid
        BY <1>2
  <2>4. /\ P = {} => FirstBut(P, r) = NoSeat
        /\ P # {} => FirstBut(P, r) \in P
        /\ P # {} /\ FirstBut(P, r) = r => P = {r}
        BY FirstButIs
  <2> QED
      BY <2>1, <2>2, <2>3, <2>4
<1> QED
    BY <1>1, <1>2, <1>3, <1>4, <1>5 DEF Parts

(* What calls to some of the seats add to what the paid ones cost.         *)
LEMMA CallsCost ==
    ASSUME NEW S \in SUBSET Seats
    PROVE  /\ Cardinality(S \ FreeSeats) \in Nat
           /\ S \subseteq FreeSeats => Cardinality(S \ FreeSeats) = 0
           /\ \A s : S = {s} => Cardinality(S \ FreeSeats) <= 1
<1>1. IsFiniteSet(S)
  <2>1. IsFiniteSet(Seats)
        BY FS_Interval DEF Seats
  <2> QED
      BY <2>1, FS_Subset
<1>2. IsFiniteSet(S \ FreeSeats)
      BY <1>1, FS_Subset
<1>3. Cardinality(S \ FreeSeats) \in Nat
      BY <1>2, FS_CardinalityType
<1>4. ASSUME S \subseteq FreeSeats PROVE Cardinality(S \ FreeSeats) = 0
  <2>1. S \ FreeSeats = {}
        BY <1>4
  <2> QED
      BY <2>1, FS_EmptySet
<1>5. ASSUME NEW s, S = {s} PROVE Cardinality(S \ FreeSeats) <= 1
  <2>1. Cardinality({}) = 0 /\ Cardinality({s}) = 1
        BY FS_EmptySet, FS_Singleton
  <2>2. S \ FreeSeats = {} \/ S \ FreeSeats = {s}
        BY <1>5
  <2>3. Cardinality(S \ FreeSeats) = 0 \/ Cardinality(S \ FreeSeats) = 1
        BY <2>1, <2>2, Zenon
  <2> QED
      BY <2>3
<1> QED
    BY <1>3, <1>4, <1>5

-----------------------------------------------------------------------------
(* The parts of a contest do not change.                                   *)
SameCast ==
    /\ Proposers' = Proposers /\ Fallback' = Fallback /\ Reviewer' = Reviewer /\ Paid' = Paid
    /\ Economy' = Economy /\ Proposing' = Proposing
    /\ NeedsFiles' = NeedsFiles /\ Staging' = Staging /\ Refused' = Refused

LEMMA CastStands == ASSUME contest' = contest PROVE SameCast
BY DEF SameCast, Proposers, Fallback, Reviewer, Paid, Economy, Proposing, NeedsFiles, Staging,
       Refused

(* A seat goes on with its candidate, and with nothing else.               *)
MakerMoves(s) ==
    /\ s \in Making
    /\ UNCHANGED <<contest, pc, ballots, chosen, checked, aborted>>
    /\ maker' \in [Seats -> Maker] /\ \A t \in Seats : t # s => maker'[t] = maker[t]
    /\ Sound(maker'[s])
    /\ \/ UNCHANGED <<calls, spent>> /\ Steps(maker[s]) <= Steps(maker'[s])
       \/ Call({s}) /\ Steps(maker[s]) + 1 <= Steps(maker'[s])

LEMMA AskMoves == ASSUME IInv, NEW s \in Seats, Ask(s) \/ ProposeAsk(s) PROVE MakerMoves(s)
<1>1. /\ maker' = [maker EXCEPT ![s].pc = "asked"] /\ maker[s].pc = "idle"
      /\ UNCHANGED <<contest, pc, ballots, chosen, checked, aborted>> /\ Call({s})
      BY DEF Ask, ProposeAsk, Become
<1>2. s \in Making
      BY DEF Ask, ProposeAsk, Making
<1>3. maker[s] \in Maker /\ Sound(maker[s]) /\ maker \in [Seats -> Maker]
      BY DEF IInv, TypeOK, Seated
<1>4. maker'[s] = [maker[s] EXCEPT !.pc = "asked"] /\ \A t \in Seats : t # s => maker'[t] = maker[t]
      BY <1>1, <1>3
<1>5. maker'[s] \in Maker /\ maker'[s].pc = "asked" /\ Sound(maker'[s])
      BY <1>3, <1>4 DEF Maker, Sound
<1>6. maker' \in [Seats -> Maker]
      BY <1>1, <1>3, <1>5
<1>7. Steps(maker[s]) = 0 /\ Steps(maker'[s]) \in {1, 2}
      BY <1>1, <1>5 DEF Steps
<1> QED
    BY <1>1, <1>2, <1>4, <1>5, <1>6, <1>7 DEF MakerMoves

(* What is at work is in its turn, and what it needs is there.             *)
LEMMA AtWorkIs ==
    ASSUME IInv, NEW s \in Seats, AtWork(maker[s])
    PROVE  /\ s \in Making /\ maker[s] \in Maker /\ maker \in [Seats -> Maker] /\ Sound(maker[s])
           /\ ~Proposing /\ NeedsFiles => Staging
<1>1. s \in Making /\ maker[s] \in Maker /\ maker \in [Seats -> Maker] /\ Sound(maker[s])
      BY DEF IInv, TypeOK, Seated
<1>2. pc \in {"drafting", "fallback"}
      BY <1>1 DEF Making
<1> QED
    BY <1>1, <1>2 DEF IInv, Staffed, Refused

LEMMA FreshIs ==
    /\ Unasked \in Maker
    /\ Unasked = [ pc |-> "idle", reads |-> FALSE, blank |-> FALSE, shown |-> 0,
                   written |-> {}, chars |-> 0, refused |-> {} ]
    /\ 0 <= MaxWriteTotal /\ 0 <= MaxTotalChars
BY DEF Unasked, Maker

LEMMA FailsMoves == ASSUME IInv, NEW s \in Seats, Fails(s) PROVE MakerMoves(s)
<1> DEFINE m == [ Unasked EXCEPT !.pc = "spoilt", !.reads = maker[s].reads ]
<1>2. AtWork(maker[s]) /\ maker[s].reads \in BOOLEAN
           /\ Steps(maker[s]) = IF maker[s].reads THEN 2 ELSE 1
      BY DEF Fails, AtWork, Steps, IInv, TypeOK, Maker
<1>1. m \in Maker /\ Sound(m) /\ Steps(m) = Steps(maker[s])
      BY <1>2, FreshIs DEF Maker, Sound, Steps
<1>3. maker' = [maker EXCEPT ![s] = m]
      BY DEF Fails
<1> HIDE DEF m
<1>9. /\ maker' \in [Seats -> Maker] /\ maker'[s] = m
     /\ \A t \in Seats : t # s => maker'[t] = maker[t]
      BY <1>1, <1>3 DEF IInv, TypeOK
<1>10. s \in Making /\ Sound(maker'[s]) /\ Steps(maker'[s]) = Steps(m)
      BY <1>1, <1>2, <1>9, AtWorkIs
<1> QED
    BY <1>1, <1>2, <1>9, <1>10 DEF MakerMoves, Fails

LEMMA AsksToReadMoves == ASSUME IInv, NEW s \in Seats, AsksToRead(s) PROVE MakerMoves(s)
<1> DEFINE m == [ maker[s] EXCEPT !.pc = "reading" ]
<1>1. AtWork(maker[s]) /\ Steps(maker[s]) = 1
      BY DEF AsksToRead, AtWork, Steps
<1>2. maker[s] \in Maker /\ Sound(maker[s])
      BY <1>1, AtWorkIs
<1>3. m \in Maker /\ Sound(m) /\ Steps(m) = 1
      BY <1>2 DEF Maker, Sound, Steps
<1>4. maker' = [maker EXCEPT ![s] = m]
      BY DEF AsksToRead, Become
<1> HIDE DEF m
<1>9. /\ maker' \in [Seats -> Maker] /\ maker'[s] = m
     /\ \A t \in Seats : t # s => maker'[t] = maker[t]
      BY <1>3, <1>4 DEF IInv, TypeOK
<1>10. s \in Making /\ Sound(maker'[s]) /\ Steps(maker'[s]) = Steps(m)
      BY <1>1, <1>3, <1>9, AtWorkIs
<1> QED
    BY <1>1, <1>3, <1>9, <1>10 DEF MakerMoves, AsksToRead

LEMMA RepliesMoves == ASSUME IInv, NEW s \in Seats, Replies(s) PROVE MakerMoves(s)
<1>1. PICK blank \in BOOLEAN :
          maker' = [maker EXCEPT ![s] = [ Unasked EXCEPT
                       !.blank = blank, !.pc = IF Staging THEN "writing" ELSE "made",
                       !.reads = maker[s].reads ]]
      BY DEF Replies
<1> DEFINE m == [ Unasked EXCEPT !.blank = blank, !.pc = IF Staging THEN "writing" ELSE "made",
                       !.reads = maker[s].reads ]
<1>2. AtWork(maker[s]) /\ maker[s].reads \in BOOLEAN
           /\ Steps(maker[s]) = IF maker[s].reads THEN 2 ELSE 1
      BY DEF Replies, AtWork, Steps, IInv, TypeOK, Maker
<1>3. m \in Maker /\ Sound(m) /\ Steps(m) = Steps(maker[s])
  <2>1. ~Proposing /\ NeedsFiles => Staging
        BY <1>2, AtWorkIs
  <2>2. CASE Staging
    <3>1. m = [ Unasked EXCEPT !.blank = blank, !.pc = "writing", !.reads = maker[s].reads ]
          BY <2>2
    <3> HIDE DEF m
    <3> QED
        BY <1>2, <3>1, FreshIs DEF Maker, Sound, Steps
  <2>3. CASE ~Staging
    <3>1. m = [ Unasked EXCEPT !.blank = blank, !.pc = "made", !.reads = maker[s].reads ]
          BY <2>3
    <3> HIDE DEF m
    <3> QED
        BY <1>2, <2>1, <2>3, <3>1, FreshIs DEF Maker, Sound, Steps
  <2> QED
      BY <2>2, <2>3
<1>4. maker' = [maker EXCEPT ![s] = m]
      BY <1>1
<1> HIDE DEF m
<1>9. /\ maker' \in [Seats -> Maker] /\ maker'[s] = m
     /\ \A t \in Seats : t # s => maker'[t] = maker[t]
      BY <1>3, <1>4 DEF IInv, TypeOK
<1>10. s \in Making /\ Sound(maker'[s]) /\ Steps(maker'[s]) = Steps(m)
      BY <1>2, <1>3, <1>9, AtWorkIs
<1> QED
    BY <1>2, <1>3, <1>9, <1>10 DEF MakerMoves, Replies

LEMMA KeepsMoves == ASSUME IInv, NEW s \in Seats, Keeps(s) PROVE MakerMoves(s)
<1> DEFINE m == [ Unasked EXCEPT !.pc = "writing", !.reads = maker[s].reads ]
<1>2. AtWork(maker[s]) /\ maker[s].reads \in BOOLEAN
           /\ Steps(maker[s]) = IF maker[s].reads THEN 2 ELSE 1
      BY DEF Keeps, AtWork, Steps, IInv, TypeOK, Maker
<1>1. m \in Maker /\ Sound(m) /\ Steps(m) = Steps(maker[s])
      BY <1>2, FreshIs DEF Maker, Sound, Steps
<1>3. maker' = [maker EXCEPT ![s] = m]
      BY DEF Keeps
<1> HIDE DEF m
<1>9. /\ maker' \in [Seats -> Maker] /\ maker'[s] = m
     /\ \A t \in Seats : t # s => maker'[t] = maker[t]
      BY <1>1, <1>3 DEF IInv, TypeOK
<1>10. s \in Making /\ Sound(maker'[s]) /\ Steps(maker'[s]) = Steps(m)
      BY <1>1, <1>2, <1>9, AtWorkIs
<1> QED
    BY <1>1, <1>2, <1>9, <1>10 DEF MakerMoves, Keeps

LEMMA ReadsMoves == ASSUME IInv, NEW s \in Seats, Reads(s) PROVE MakerMoves(s)
<1>1. AtWork(maker[s]) /\ Steps(maker[s]) = 1
      BY DEF Reads, AtWork, Steps
<1>2. maker[s] \in Maker /\ Sound(maker[s]) /\ (~Proposing /\ NeedsFiles => Staging)
      BY <1>1, AtWorkIs
<1>3. CASE contest.roots
  <2>1. PICK list \in Wanted : \E broken \in Broken(list) :
            maker' = [maker EXCEPT ![s].pc = "asked", ![s].reads = TRUE,
                                   ![s].shown = Gathered(list, broken).chars]
        BY <1>3 DEF Reads
  <2>2. PICK broken \in Broken(list) :
            maker' = [maker EXCEPT ![s].pc = "asked", ![s].reads = TRUE,
                                   ![s].shown = Gathered(list, broken).chars]
        BY <2>1
  <2>3. PICK shown \in Nat : shown <= MaxTotalChars /\ shown = Gathered(list, broken).chars
        BY GatheredKeeps DEF Blocks
  <2> DEFINE m == [ maker[s] EXCEPT !.pc = "asked", !.reads = TRUE, !.shown = shown ]
  <2>4. m \in Maker /\ Sound(m) /\ Steps(m) = 2
        BY <1>2, <2>3 DEF Maker, Sound, Steps
  <2>5. maker' = [maker EXCEPT ![s] = m]
        BY <2>2, <2>3
  <2> HIDE DEF m
  <2>9. /\ maker' \in [Seats -> Maker] /\ maker'[s] = m
       /\ \A t \in Seats : t # s => maker'[t] = maker[t]
        BY <2>4, <2>5 DEF IInv, TypeOK
  <2>10. s \in Making /\ Sound(maker'[s]) /\ Steps(maker'[s]) = Steps(m)
        BY <1>1, <1>3, <2>4, <2>9, AtWorkIs
  <2> QED
      BY <1>1, <1>3, <2>4, <2>9, <2>10 DEF MakerMoves, Reads
<1>4. CASE ~contest.roots
  <2> DEFINE m == [ maker[s] EXCEPT !.pc = "made" ]
  <2>1. m \in Maker /\ Sound(m) /\ Steps(m) \in {1, 2}
        BY <1>2, <1>4 DEF Maker, Sound, Steps, Staging
  <2>2. maker' = [maker EXCEPT ![s] = m]
        BY <1>4 DEF Reads, Become
  <2> HIDE DEF m
  <2>9. /\ maker' \in [Seats -> Maker] /\ maker'[s] = m
       /\ \A t \in Seats : t # s => maker'[t] = maker[t]
        BY <2>1, <2>2 DEF IInv, TypeOK
  <2>10. s \in Making /\ Sound(maker'[s]) /\ Steps(maker'[s]) = Steps(m)
        BY <1>1, <1>4, <2>1, <2>9, AtWorkIs
  <2> QED
      BY <1>1, <1>4, <2>1, <2>9, <2>10 DEF MakerMoves, Reads
<1> QED
    BY <1>3, <1>4

LEMMA WritesMoves == ASSUME IInv, NEW s \in Seats, Writes(s) PROVE MakerMoves(s)
<1>1. AtWork(maker[s]) /\ maker[s].pc = "writing" /\ Steps(maker[s]) \in {1, 2}
      BY DEF Writes, AtWork, Steps
<1>0. UNCHANGED <<contest, pc, ballots, chosen, checked, aborted, calls, spent>>
      BY DEF Writes
<1>2. maker[s] \in Maker /\ Sound(maker[s])
      BY <1>1, AtWorkIs
<1>3. CASE Become(s, "spoilt")
  <2> DEFINE m == [ maker[s] EXCEPT !.pc = "spoilt" ]
  <2>1. m \in Maker /\ Sound(m) /\ Steps(m) = Steps(maker[s])
        BY <1>1, <1>2 DEF Maker, Sound, Steps
  <2>2. maker' = [maker EXCEPT ![s] = m]
        BY <1>3 DEF Become
  <2> HIDE DEF m
  <2>9. /\ maker' \in [Seats -> Maker] /\ maker'[s] = m
       /\ \A t \in Seats : t # s => maker'[t] = maker[t]
        BY <2>1, <2>2 DEF IInv, TypeOK
  <2>10. s \in Making /\ Sound(maker'[s]) /\ Steps(maker'[s]) = Steps(m)
        BY <1>1, <2>1, <2>9, AtWorkIs
  <2> QED
      BY <1>0, <1>1, <2>1, <2>9, <2>10 DEF MakerMoves
<1>4. CASE ~Become(s, "spoilt")
  <2>1. PICK list \in Proposals :
            /\ { f.path : f \in ToSet(list) } \subseteq contest.targets
            /\ \E broken \in Broken(list) :
                 maker' = [maker EXCEPT
                     ![s].pc = IF Applied(list, broken).refused # {} \/ Applied(list, broken).written = {}
                               THEN "spoilt" ELSE "made",
                     ![s].written = Applied(list, broken).written,
                     ![s].chars = Applied(list, broken).chars,
                     ![s].refused = Applied(list, broken).refused ]
        BY <1>4 DEF Writes
  <2>2. PICK tree \in Kept(list) :
            maker' = [maker EXCEPT
                ![s].pc = IF tree.refused # {} \/ tree.written = {} THEN "spoilt" ELSE "made",
                ![s].written = tree.written, ![s].chars = tree.chars, ![s].refused = tree.refused ]
        BY <2>1, AppliedKeeps
  <2> DEFINE m == [ maker[s] EXCEPT
                !.pc = IF tree.refused # {} \/ tree.written = {} THEN "spoilt" ELSE "made",
                !.written = tree.written, !.chars = tree.chars, !.refused = tree.refused ]
  <2>3. /\ tree.written \in SUBSET Files /\ tree.refused \in SUBSET Files /\ tree.chars \in Nat
        /\ tree.chars <= MaxWriteTotal /\ tree.written \subseteq contest.targets \intersect Granted
        BY <2>1 DEF Kept, Tree
  <2>4. m \in Maker /\ Sound(m) /\ Steps(m) = Steps(maker[s])
        BY <1>1, <1>2, <2>3 DEF Maker, Sound, Steps
  <2>5. maker' = [maker EXCEPT ![s] = m]
        BY <2>2
  <2> HIDE DEF m
  <2>9. /\ maker' \in [Seats -> Maker] /\ maker'[s] = m
       /\ \A t \in Seats : t # s => maker'[t] = maker[t]
        BY <2>4, <2>5 DEF IInv, TypeOK
  <2>10. s \in Making /\ Sound(maker'[s]) /\ Steps(maker'[s]) = Steps(m)
        BY <1>1, <2>4, <2>9, AtWorkIs
  <2> QED
      BY <1>0, <1>1, <2>4, <2>9, <2>10 DEF MakerMoves
<1> QED
    BY <1>3, <1>4

LEMMA StagesMoves == ASSUME IInv, Proposing, NEW s \in Seats, Stages(s) PROVE MakerMoves(s)
<1>1. AtWork(maker[s]) /\ maker[s].pc = "writing" /\ Steps(maker[s]) \in {1, 2}
      BY DEF Stages, AtWork, Steps
<1>0. UNCHANGED <<contest, pc, ballots, chosen, checked, aborted, calls, spent>>
      BY DEF Stages
<1>2. maker[s] \in Maker /\ Sound(maker[s])
      BY <1>1, AtWorkIs
<1>3. contest.targets = Files
      BY DEF IInv, TypeOK, Proposing
<1>4. CASE Become(s, "spoilt")
  <2> DEFINE m == [ maker[s] EXCEPT !.pc = "spoilt" ]
  <2>1. m \in Maker /\ Sound(m) /\ Steps(m) = Steps(maker[s])
        BY <1>1, <1>2 DEF Maker, Sound, Steps
  <2>2. maker' = [maker EXCEPT ![s] = m]
        BY <1>4 DEF Become
  <2> HIDE DEF m
  <2>9. /\ maker' \in [Seats -> Maker] /\ maker'[s] = m
       /\ \A t \in Seats : t # s => maker'[t] = maker[t]
        BY <2>1, <2>2 DEF IInv, TypeOK
  <2>10. s \in Making /\ Sound(maker'[s]) /\ Steps(maker'[s]) = Steps(m)
        BY <1>1, <2>1, <2>9, AtWorkIs
  <2> QED
      BY <1>0, <1>1, <2>1, <2>9, <2>10 DEF MakerMoves
<1>5. CASE ~Become(s, "spoilt")
  <2>1. PICK list \in Proposals : \E broken \in Broken(list) :
            maker' = [maker EXCEPT
                ![s].pc = "made", ![s].written = Applied(list, broken).written,
                ![s].chars = Applied(list, broken).chars,
                ![s].refused = Applied(list, broken).refused ]
        BY <1>5 DEF Stages
  <2>2. PICK tree \in Kept(list) :
            maker' = [maker EXCEPT
                ![s].pc = "made", ![s].written = tree.written, ![s].chars = tree.chars,
                ![s].refused = tree.refused ]
        BY <2>1, AppliedKeeps
  <2> DEFINE m == [ maker[s] EXCEPT !.pc = "made", !.written = tree.written,
                                    !.chars = tree.chars, !.refused = tree.refused ]
  <2>3. /\ tree.written \in SUBSET Files /\ tree.refused \in SUBSET Files /\ tree.chars \in Nat
        /\ tree.chars <= MaxWriteTotal /\ tree.written \subseteq contest.targets \intersect Granted
        BY <1>3 DEF Kept, Tree
  <2>4. m \in Maker /\ Sound(m) /\ Steps(m) = Steps(maker[s])
        BY <1>1, <1>2, <2>3 DEF Maker, Sound, Steps
  <2>5. maker' = [maker EXCEPT ![s] = m]
        BY <2>2
  <2> HIDE DEF m
  <2>9. /\ maker' \in [Seats -> Maker] /\ maker'[s] = m
       /\ \A t \in Seats : t # s => maker'[t] = maker[t]
        BY <2>4, <2>5 DEF IInv, TypeOK
  <2>10. s \in Making /\ Sound(maker'[s]) /\ Steps(maker'[s]) = Steps(m)
        BY <1>1, <2>4, <2>9, AtWorkIs
  <2> QED
      BY <1>0, <1>1, <2>4, <2>9, <2>10 DEF MakerMoves
<1> QED
    BY <1>4, <1>5

-----------------------------------------------------------------------------
(* Calls are counted for the seats they go to, and for what those cost.    *)
LEMMA CallCounts ==
    ASSUME TypeOK, NEW S \in SUBSET Seats, Call(S)
    PROVE  /\ calls' \in [Seats -> Nat] /\ spent' \in Nat
           /\ \A t \in Seats : calls'[t] = calls[t] + IF t \in S THEN 1 ELSE 0
           /\ S \subseteq FreeSeats => spent' = spent
           /\ \A s : S = {s} => spent' <= spent + 1
<1>1. /\ Cardinality(S \ FreeSeats) \in Nat
      /\ S \subseteq FreeSeats => Cardinality(S \ FreeSeats) = 0
      /\ \A s : S = {s} => Cardinality(S \ FreeSeats) <= 1
      BY CallsCost
<1>2. spent \in Nat /\ calls \in [Seats -> Nat]
      BY DEF TypeOK
<1>3. spent' = spent + Cardinality(S \ FreeSeats)
      /\ calls' = [s \in Seats |-> calls[s] + IF s \in S THEN 1 ELSE 0]
      BY DEF Call
<1>4. PICK c \in Nat : c = Cardinality(S \ FreeSeats)
      BY <1>1
<1>5. spent' \in Nat /\ (S \subseteq FreeSeats => spent' = spent)
      BY <1>1, <1>2, <1>3, <1>4
<1>6. ASSUME NEW s, S = {s} PROVE spent' <= spent + 1
  <2>1. Cardinality(S \ FreeSeats) <= 1
        BY <1>1, <1>6
  <2> QED
      BY <1>2, <1>3, <1>4, <2>1
<1>7. /\ calls' \in [Seats -> Nat]
      /\ \A t \in Seats : calls'[t] = calls[t] + IF t \in S THEN 1 ELSE 0
      BY <1>2, <1>3
<1> QED
    BY <1>5, <1>6, <1>7

LEMMA MakerMovesKeeps == ASSUME IInv, NEW s \in Seats, MakerMoves(s) PROVE IInv'
<1>1. /\ s \in Making
      /\ UNCHANGED <<contest, pc, ballots, chosen, checked, aborted>>
      /\ maker' \in [Seats -> Maker] /\ \A t \in Seats : t # s => maker'[t] = maker[t]
      /\ Sound(maker'[s])
      BY DEF MakerMoves
<1>2. Steps(maker[s]) \in 0..2 /\ Steps(maker'[s]) \in 0..2
      BY DEF Steps
<1>3. \/ UNCHANGED <<calls, spent>> /\ Steps(maker[s]) <= Steps(maker'[s])
      \/ /\ calls' \in [Seats -> Nat] /\ spent' \in Nat
         /\ \A t \in Seats : calls'[t] = calls[t] + IF t = s THEN 1 ELSE 0
         /\ s \in FreeSeats => spent' = spent
         /\ spent' <= spent + 1
         /\ Steps(maker[s]) + 1 <= Steps(maker'[s])
  <2>1. ASSUME Call({s}) PROVE /\ calls' \in [Seats -> Nat] /\ spent' \in Nat
                               /\ \A t \in Seats : calls'[t] = calls[t] + IF t = s THEN 1 ELSE 0
                               /\ s \in FreeSeats => spent' = spent
                               /\ spent' <= spent + 1
    <3>1. PICK S \in SUBSET Seats : S = {s}
          OBVIOUS
    <3>2. TypeOK /\ Call(S)
          BY <2>1, <3>1 DEF IInv
    <3>3. /\ calls' \in [Seats -> Nat] /\ spent' \in Nat
          /\ \A t \in Seats : calls'[t] = calls[t] + IF t \in S THEN 1 ELSE 0
          /\ S \subseteq FreeSeats => spent' = spent
          /\ \A r : S = {r} => spent' <= spent + 1
          BY <3>2, CallCounts
    <3> QED
        BY <3>1, <3>3
  <2> QED
      BY <2>1 DEF MakerMoves
<1>4. SameCast /\ Parts
      BY <1>1, CastStands, Roles DEF IInv, TypeOK
<1>5. \/ pc = "drafting" /\ s \in Proposers
      \/ pc = "fallback" /\ s = Fallback
      BY <1>1 DEF Making
<1>6. Making' = Making
      BY <1>1, <1>4 DEF Making, SameCast
<1>7. TypeOK'
      BY <1>1, <1>3 DEF IInv, TypeOK
<1>8. Seated'
  <2> SUFFICES ASSUME NEW t \in Seats
      PROVE  /\ Sound(maker[t])'
             /\ AtWork(maker[t])' => t \in Making'
             /\ pc' = "start" => maker'[t].pc = "idle"
             /\ Economy' /\ pc' \in {"start", "drafting", "voting", "review"} /\ t \notin FreeSeats
                  => maker'[t].pc = "idle"
             /\ t \in FreeSeats \/ Proposing' =>
                  calls'[t] <= Steps(maker[t])' + IF pc' \in {"start", "drafting"} THEN 0 ELSE 1
      BY DEF Seated
  <2>0. /\ Sound(maker[t])
        /\ AtWork(maker[t]) => t \in Making
        /\ Economy /\ pc \in {"start", "drafting", "voting", "review"} /\ t \notin FreeSeats
             => maker[t].pc = "idle"
        /\ t \in FreeSeats \/ Proposing =>
             calls[t] <= Steps(maker[t]) + IF pc \in {"start", "drafting"} THEN 0 ELSE 1
        BY DEF IInv, Seated
  <2>1. CASE t # s
    <3>1. maker'[t] = maker[t] /\ pc' = pc /\ contest' = contest
          BY <1>1, <2>1
    <3>2. Sound(maker[t])' /\ (AtWork(maker[t])' => t \in Making')
          BY <1>4, <1>6, <2>0, <3>1 DEF Sound, AtWork, SameCast
    <3>3. calls'[t] = calls[t]
          BY <1>3, <2>1 DEF IInv, TypeOK
    <3>4. Steps(maker[t])' = Steps(maker[t])
          BY <3>1 DEF Steps
    <3>5. /\ pc' = "start" => maker'[t].pc = "idle"
          /\ Economy' /\ pc' \in {"start", "drafting", "voting", "review"} /\ t \notin FreeSeats
               => maker'[t].pc = "idle"
      <4>1. pc # "start"
            BY <1>5
      <4> QED
          BY <1>4, <2>0, <3>1, <4>1 DEF SameCast
    <3>6. t \in FreeSeats \/ Proposing' =>
            calls'[t] <= Steps(maker[t])' + IF pc' \in {"start", "drafting"} THEN 0 ELSE 1
          BY <1>4, <2>0, <3>1, <3>3, <3>4 DEF SameCast
    <3> QED
        BY <3>2, <3>5, <3>6
  <2>2. CASE t = s
    <3>1. Sound(maker[t])'
          BY <1>1, <1>4, <2>2 DEF Sound, SameCast
    <3>2. t \in Making' /\ pc' # "start"
          BY <1>1, <1>5, <1>6, <2>2
    <3>3. ~(Economy' /\ pc' \in {"start", "drafting", "voting", "review"} /\ t \notin FreeSeats)
          BY <1>1, <1>4, <1>5, <2>2 DEF Parts, SameCast
    <3>4. calls[s] \in Nat
          BY DEF IInv, TypeOK
    <3>5. Steps(maker[t])' = Steps(maker'[s])
          BY <2>2 DEF Steps
    <3>6. t \in FreeSeats \/ Proposing' =>
            calls'[t] <= Steps(maker[t])' + IF pc' \in {"start", "drafting"} THEN 0 ELSE 1
          BY <1>1, <1>2, <1>3, <1>4, <2>0, <2>2, <3>4, <3>5 DEF SameCast
    <3> QED
        BY <3>1, <3>2, <3>3, <3>6
  <2> QED
      BY <2>1, <2>2
<1>9. Staffed'
      BY <1>1, <1>4 DEF IInv, Staffed, SameCast
<1>10. Forward'
      BY <1>1, <1>4, <1>5 DEF IInv, Forward, SameCast
<1>11. Paying'
  <2>1. spent \in Nat /\ contest' = contest /\ pc' = pc
        BY <1>1 DEF IInv, TypeOK
  <2>2. ASSUME Economy PROVE spent' <= CASE pc' \in {"start", "drafting", "voting"} -> 0
                                         [] pc' = "review" -> 1
                                         [] pc' = "fallback" -> 1 + Steps(maker'[Fallback])
                                         [] OTHER -> 4
    <3>1. CASE pc = "drafting" /\ s \in Proposers
      <4>1. s \in FreeSeats
            BY <1>4, <2>2, <3>1 DEF Parts
      <4>2. spent <= 0
            BY <2>2, <3>1 DEF IInv, Paying
      <4> QED
          BY <1>3, <2>1, <3>1, <4>1, <4>2
    <3>2. CASE pc = "fallback" /\ s = Fallback
      <4>1. spent <= 1 + Steps(maker[s])
            BY <2>2, <3>2 DEF IInv, Paying
      <4> QED
          BY <1>2, <1>3, <2>1, <3>2, <4>1
    <3> QED
        BY <1>5, <3>1, <3>2
  <2>3. ASSUME contest.profile = "fastest"
        PROVE  spent' <= IF pc' \in {"start", "drafting"} THEN Steps(maker'[contest.assigned]) ELSE 3
    <3>1. pc = "drafting" /\ s = contest.assigned
          BY <1>4, <1>5, <2>3 DEF Parts, IInv, Forward, Economy, Proposing
    <3>2. spent <= Steps(maker[s])
          BY <2>3, <3>1 DEF IInv, Paying
    <3> QED
        BY <1>2, <1>3, <2>1, <3>1, <3>2
  <2>4. Steps(maker[Fallback])' = Steps(maker'[Fallback])
        /\ Steps(maker[contest.assigned])' = Steps(maker'[contest.assigned])
        BY <1>4, <2>1 DEF Steps, SameCast
  <2> QED
      BY <1>4, <2>1, <2>2, <2>3, <2>4 DEF Paying, SameCast
<1>12. Proposed'
      BY <1>1, <1>4, <1>5 DEF IInv, Proposed, SameCast
<1>13. HandsOnWell'
      BY <1>1, <1>5, <1>7 DEF HandsOnWell, OnlyAccepted, SelectedWell
<1> QED
    BY <1>7, <1>8, <1>9, <1>10, <1>11, <1>12, <1>13 DEF IInv

-----------------------------------------------------------------------------
(* The contest goes on while nobody is at work: the candidates stand, but  *)
(* for what could be read back of them, and a seat that has made its own   *)
(* may be called once more.                                                *)
PhaseMoves ==
    /\ UNCHANGED contest
    /\ maker' \in [Seats -> Maker] /\ calls' \in [Seats -> Nat]
    /\ \A s \in Seats :
         /\ ~AtWork(maker[s])
         /\ maker'[s].pc = maker[s].pc /\ maker'[s].reads = maker[s].reads
         /\ maker'[s].written = maker[s].written /\ maker'[s].refused = maker[s].refused
         /\ maker'[s].chars = maker[s].chars /\ maker'[s].shown = maker[s].shown
         /\ s \in FreeSeats \/ Proposing =>
              calls'[s] <= calls[s] + IF pc = "drafting" /\ pc' # "drafting" THEN 1 ELSE 0
    /\ pc # "start" => pc' # "drafting"
    /\ pc' # "start"
    /\ Economy /\ pc' \in {"voting", "review"} => pc \in {"drafting", "voting"}

LEMMA PhaseSeated == ASSUME IInv, PhaseMoves PROVE Seated'
<1>1. SameCast
      BY CastStands DEF PhaseMoves
<1> SUFFICES ASSUME NEW s \in Seats
    PROVE  /\ Sound(maker[s])'
           /\ AtWork(maker[s])' => s \in Making'
           /\ pc' = "start" => maker'[s].pc = "idle"
           /\ Economy' /\ pc' \in {"start", "drafting", "voting", "review"} /\ s \notin FreeSeats
                => maker'[s].pc = "idle"
           /\ s \in FreeSeats \/ Proposing' =>
                calls'[s] <= Steps(maker[s])' + IF pc' \in {"start", "drafting"} THEN 0 ELSE 1
    BY DEF Seated
<1>2. /\ Sound(maker[s])
      /\ Economy /\ pc \in {"start", "drafting", "voting", "review"} /\ s \notin FreeSeats
           => maker[s].pc = "idle"
      /\ s \in FreeSeats \/ Proposing =>
           calls[s] <= Steps(maker[s]) + IF pc \in {"start", "drafting"} THEN 0 ELSE 1
      /\ calls[s] \in Nat
      BY DEF IInv, Seated, TypeOK
<1>3. Sound(maker[s])'
      BY <1>1, <1>2 DEF PhaseMoves, Sound, SameCast
<1>4. Steps(maker[s])' = Steps(maker[s]) /\ Steps(maker[s]) \in 0..2
      BY DEF PhaseMoves, Steps
<1>5. ~AtWork(maker[s])'
      BY DEF PhaseMoves, AtWork
<1>6. pc' # "start"
      BY DEF PhaseMoves
<1>7. Economy' /\ pc' \in {"start", "drafting", "voting", "review"} /\ s \notin FreeSeats
        => maker'[s].pc = "idle"
      BY <1>1, <1>2 DEF PhaseMoves, SameCast
<1>8. ASSUME s \in FreeSeats \/ Proposing
      PROVE  calls'[s] <= Steps(maker[s])' + IF pc' \in {"start", "drafting"} THEN 0 ELSE 1
  <2>1. calls'[s] <= calls[s] + IF pc = "drafting" /\ pc' # "drafting" THEN 1 ELSE 0
        BY <1>8 DEF PhaseMoves
  <2>2. pc' # "start" /\ (pc # "start" => pc' # "drafting")
        BY DEF PhaseMoves
  <2>3. calls[s] <= Steps(maker[s]) + IF pc \in {"start", "drafting"} THEN 0 ELSE 1
        BY <1>2, <1>8
  <2>4. calls'[s] \in Nat
        BY DEF PhaseMoves
  <2> QED
      BY <1>2, <1>4, <2>1, <2>2, <2>3, <2>4
<1> QED
    BY <1>1, <1>3, <1>5, <1>6, <1>7, <1>8 DEF SameCast

(* Nobody is at work once the candidates of a phase are settled.           *)
LEMMA NobodyAtWork ==
    ASSUME IInv, \A s \in Making : Settled(s)
    PROVE  \A s \in Seats : ~AtWork(maker[s])
BY DEF IInv, Seated, Settled, AtWork

(* A free seat is not called on to review.                                 *)
LEMMA SubmitCosts ==
    ASSUME IInv, ~Proposing, pc \notin {"start", "failed"}, NEW s, NEW next, Submit(s, next)
    PROVE  /\ calls' \in [Seats -> Nat] /\ spent' \in Nat /\ spent' <= spent + 1
           /\ \A t \in FreeSeats : calls'[t] = calls[t]
<1>1. Reviewer \in Seats \ FreeSeats
      BY Roles DEF IInv, TypeOK, Staffed, Refused, Parts
<1>2. PICK S \in SUBSET Seats : S = {Reviewer}
      BY <1>1
<1>3. Call(S) /\ TypeOK
      BY <1>2 DEF Submit, IInv
<1>4. /\ calls' \in [Seats -> Nat] /\ spent' \in Nat
      /\ \A t \in Seats : calls'[t] = calls[t] + IF t \in S THEN 1 ELSE 0
      /\ \A r : S = {r} => spent' <= spent + 1
      BY <1>3, CallCounts
<1>5. spent' <= spent + 1
      BY <1>2, <1>4
<1>6. ASSUME NEW t \in FreeSeats PROVE calls'[t] = calls[t]
  <2>1. t \in Seats /\ t \notin S /\ calls[t] \in Nat
        BY <1>1, <1>2 DEF IInv, TypeOK
  <2> QED
      BY <1>4, <2>1
<1> QED
    BY <1>4, <1>5, <1>6

(* Under economy one seat is left to try.                                  *)
LEMMA EscalateGoes ==
    ASSUME IInv, Escalate
    PROVE  /\ chosen' \in Seats \union {NoSeat}
           /\ \/ pc' = "failed"
              \/ Economy /\ pc' = "fallback" /\ chosen' = Fallback /\ Fallback # NoSeat
BY Roles DEF Escalate, IInv, TypeOK, Parts

LEMMA BeginKeeps == ASSUME IInv, ~Proposing, Begin PROVE IInv'
<1>1. /\ pc = "start" /\ pc' \in {"drafting", "failed"} /\ (pc' = "drafting" => ~Refused)
      /\ UNCHANGED <<contest, maker, ballots, chosen, checked, aborted, calls, spent>>
      BY DEF Begin
<1>2. SameCast /\ Parts
      BY <1>1, CastStands, Roles DEF IInv, TypeOK
<1>3. PhaseMoves
  <2>1. \A s \in Seats : maker[s].pc = "idle" /\ calls[s] \in Nat
        BY <1>1 DEF IInv, Seated, TypeOK
  <2> QED
      BY <1>1, <2>1 DEF PhaseMoves, AtWork, IInv, TypeOK
<1>4. TypeOK' /\ Seated'
      BY <1>1, <1>3, PhaseSeated DEF IInv, TypeOK
<1>5. Staffed' /\ Forward' /\ Proposed'
      BY <1>1, <1>2 DEF Staffed, Forward, Proposed, SameCast
<1>6. Paying'
  <2>1. /\ spent \in Nat /\ spent' = spent
        /\ Steps(maker[contest.assigned])' = Steps(maker[contest.assigned])
        /\ Steps(maker[contest.assigned]) \in 0..2
        BY <1>1 DEF IInv, TypeOK, Steps
  <2>2. /\ Economy => spent <= 0
        /\ contest.profile = "fastest" => spent <= Steps(maker[contest.assigned])
        BY <1>1 DEF IInv, Paying
  <2> QED
      BY <1>1, <1>2, <2>1, <2>2 DEF Paying, SameCast
<1>7. HandsOnWell'
      BY <1>1, <1>2, <1>4 DEF HandsOnWell, OnlyAccepted, SelectedWell, SameCast
<1> QED
    BY <1>4, <1>5, <1>6, <1>7 DEF IInv

LEMMA DraftsInKeeps == ASSUME IInv, ~Proposing, DraftsIn PROVE IInv'
<1>1. /\ pc = "drafting" /\ UNCHANGED <<contest, maker, ballots, checked, aborted>>
      /\ \A s \in Proposers : Settled(s)
      BY DEF DraftsIn
<1>2. SameCast /\ Parts
      BY <1>1, CastStands, Roles DEF IInv, TypeOK
<1>3. \A s \in Seats : ~AtWork(maker[s])
      BY <1>1, NobodyAtWork DEF Making
<1>4. /\ calls \in [Seats -> Nat] /\ spent \in Nat
      /\ Economy => spent <= 0
      /\ contest.profile = "fastest" => spent <= Steps(maker[contest.assigned])
      /\ Steps(maker[contest.assigned]) \in 0..2
      BY <1>1 DEF IInv, TypeOK, Paying, Steps
<1>5. /\ chosen' \in Seats \union {NoSeat} /\ calls' \in [Seats -> Nat] /\ spent' \in Nat
      /\ \A t \in Seats : t \in FreeSeats => calls'[t] <= calls[t] + 1
      /\ \/ Economy /\ pc' = "voting" /\ spent' = spent
         \/ pc' = "review" /\ chosen' \in UsableSeats /\ spent' <= spent + 1
         \/ pc' = "failed" /\ spent' = spent
         \/ Economy /\ pc' = "fallback" /\ chosen' = Fallback /\ Fallback # NoSeat /\ spent' = spent
  <2>1. CASE Economy /\ Cardinality(UsableSeats) > 1
    <3>1. PICK S \in SUBSET Seats : S = Proposers
          BY <1>2 DEF Parts
    <3>2. Call(S) /\ TypeOK /\ pc' = "voting" /\ chosen' = chosen
          BY <2>1, <3>1 DEF DraftsIn, IInv
    <3>3. /\ calls' \in [Seats -> Nat] /\ spent' \in Nat
          /\ \A t \in Seats : calls'[t] = calls[t] + IF t \in S THEN 1 ELSE 0
          /\ S \subseteq FreeSeats => spent' = spent
          BY <3>2, CallCounts
    <3>4. S \subseteq FreeSeats
          BY <1>2, <2>1, <3>1 DEF Parts
    <3>5. \A t \in Seats : calls'[t] <= calls[t] + 1
          BY <1>4, <3>3
    <3> QED
        BY <2>1, <3>2, <3>3, <3>4, <3>5 DEF IInv, TypeOK
  <2>2. CASE ~(Economy /\ Cardinality(UsableSeats) > 1) /\ UsableSeats # {}
    <3>1. PICK s \in UsableSeats : s = Min(UsableSeats)
      <4>1. PICK S \in SUBSET Seats : S = UsableSeats
            BY <1>2 DEF UsableSeats, Parts
      <4>2. Min(S) \in S
            BY <2>2, <4>1, MinIsOne
      <4> QED
          BY <4>1, <4>2
    <3>2. Submit(s, "review") /\ s \in Seats
          BY <1>2, <2>2, <3>1 DEF DraftsIn, UsableSeats, Parts
    <3>3. /\ calls' \in [Seats -> Nat] /\ spent' \in Nat /\ spent' <= spent + 1
          /\ \A t \in FreeSeats : calls'[t] = calls[t]
          BY <1>1, <3>2, SubmitCosts
    <3>4. \A t \in FreeSeats : t \in Seats => calls'[t] <= calls[t] + 1
          BY <1>4, <3>3
    <3> QED
        BY <3>1, <3>2, <3>3, <3>4 DEF Submit
  <2>3. CASE ~(Economy /\ Cardinality(UsableSeats) > 1) /\ UsableSeats = {}
    <3>1. Escalate /\ UNCHANGED <<calls, spent>>
          BY <2>3 DEF DraftsIn
    <3>2. \A t \in Seats : calls'[t] <= calls[t] + 1
          BY <1>4, <3>1
    <3> QED
        BY <1>4, <3>1, <3>2, EscalateGoes
  <2> QED
      BY <2>1, <2>2, <2>3
<1>6. TypeOK'
      BY <1>1, <1>5 DEF IInv, TypeOK
<1>7. Seated'
  <2>1. PhaseMoves
        BY <1>1, <1>3, <1>5 DEF PhaseMoves, IInv, TypeOK
  <2> QED
      BY <2>1, PhaseSeated
<1>8. Staffed' /\ Proposed'
      BY <1>1, <1>2, <1>5 DEF IInv, Staffed, Proposed, SameCast
<1>9. Forward'
      BY <1>1, <1>2, <1>5 DEF Forward, UsableSeats, Parts, SameCast
<1>10. Paying'
  <2>1. Steps(maker[Fallback])' \in 0..2
        BY DEF Steps
  <2> QED
      BY <1>1, <1>2, <1>4, <1>5, <2>1 DEF Paying, SameCast, Economy
<1>11. HandsOnWell'
      BY <1>2, <1>5, <1>6 DEF HandsOnWell, OnlyAccepted, SelectedWell, SameCast
<1> QED
    BY <1>6, <1>7, <1>8, <1>9, <1>10, <1>11 DEF IInv

(* A vote that is cast moves nothing else.                                 *)
LEMMA VoteSeated ==
    ASSUME IInv, pc = "voting", UNCHANGED <<contest, pc, maker, calls>>
    PROVE  Seated'
<1>1. PhaseMoves
  <2>1. \A s \in Seats : ~AtWork(maker[s])
        BY NobodyAtWork DEF Making
  <2>2. \A s \in Seats : calls[s] \in Nat
        BY DEF IInv, TypeOK
  <2> QED
      BY <2>1, <2>2 DEF PhaseMoves, IInv, TypeOK
<1> QED
    BY <1>1, PhaseSeated

(* The vote of a seat joins those that are in.                             *)
LEMMA WithVoteIs ==
    ASSUME TypeOK, NEW s \in Seats, NEW b \in Ballot
    PROVE  /\ DOMAIN WithVote(s, b) = DOMAIN ballots \union {s}
           /\ WithVote(s, b)[s] = b
           /\ \A r \in DOMAIN ballots : r # s => WithVote(s, b)[r] = ballots[r]
           /\ DOMAIN WithVote(s, b) \subseteq Seats
           /\ \A r \in DOMAIN WithVote(s, b) : WithVote(s, b)[r] \in Ballot
BY DEF WithVote, TypeOK

LEMMA VotesKeeps == ASSUME IInv, ~Proposing, NEW s \in Seats, Votes(s) PROVE IInv'
<1>1. /\ pc = "voting" /\ UNCHANGED <<contest, pc, maker, chosen, checked, aborted, calls, spent>>
      /\ \E b \in Ballot : ballots' = WithVote(s, b)
      BY DEF Votes
<1>2. SameCast
      BY <1>1, CastStands
<1>3. PICK b \in Ballot : ballots' = WithVote(s, b)
      BY <1>1
<1>4. TypeOK'
      BY <1>1, <1>3, WithVoteIs DEF IInv, TypeOK
<1>5. Seated'
      BY <1>1, VoteSeated
<1>6. Staffed' /\ Forward' /\ Proposed'
      BY <1>1, <1>2 DEF IInv, Staffed, Forward, Proposed, SameCast
<1>7. Paying'
      BY <1>1, <1>2 DEF IInv, Paying, SameCast
<1>8. HandsOnWell'
      BY <1>1, <1>2, <1>4 DEF HandsOnWell, OnlyAccepted, SelectedWell, SameCast
<1> QED
    BY <1>4, <1>5, <1>6, <1>7, <1>8 DEF IInv

LEMMA VotesInKeeps == ASSUME IInv, ~Proposing, VotesIn PROVE IInv'
<1>1. /\ pc = "voting" /\ Economy /\ UNCHANGED <<contest, maker, checked, aborted>>
      /\ ballots' = <<>>
      BY DEF VotesIn, IInv, Forward
<1>2. SameCast /\ Parts
      BY <1>1, CastStands, Roles DEF IInv, TypeOK
<1>3. \A s \in Seats : ~AtWork(maker[s])
      BY <1>1, NobodyAtWork DEF Making
<1>4. /\ calls \in [Seats -> Nat] /\ spent \in Nat /\ spent <= 0 /\ contest.profile = "economy"
      BY <1>1 DEF IInv, TypeOK, Paying, Economy
<1>5. /\ chosen' \in Seats \union {NoSeat} /\ calls' \in [Seats -> Nat] /\ spent' \in Nat
      /\ \A t \in Seats : t \in FreeSeats => calls'[t] <= calls[t]
      /\ \/ pc' = "review" /\ chosen' \in UsableSeats /\ spent' <= spent + 1
         \/ pc' = "failed" /\ spent' = spent
         \/ pc' = "fallback" /\ chosen' = Fallback /\ Fallback # NoSeat /\ spent' = spent
  <2> DEFINE winner == Tally(ballots, [s \in UsableSeats |-> "answer"], Clean).winner
  <2>0. \/ winner \in UsableSeats /\ Submit(winner, "review")
        \/ Escalate /\ UNCHANGED <<calls, spent>>
        BY DEF VotesIn
  <2> HIDE DEF winner
  <2>1. CASE winner \in UsableSeats /\ Submit(winner, "review")
    <3>1. PICK s \in UsableSeats : s = winner
          BY <2>1
    <3>2. Submit(s, "review") /\ s \in Seats
          BY <1>2, <2>1, <3>1 DEF UsableSeats, Parts
    <3>3. /\ calls' \in [Seats -> Nat] /\ spent' \in Nat /\ spent' <= spent + 1
          /\ \A t \in FreeSeats : calls'[t] = calls[t]
          BY <1>1, <3>2, SubmitCosts
    <3>4. \A t \in FreeSeats : t \in Seats => calls'[t] <= calls[t]
          BY <1>4, <3>3
    <3> QED
        BY <3>1, <3>2, <3>3, <3>4 DEF Submit
  <2>2. CASE Escalate /\ UNCHANGED <<calls, spent>>
    <3>1. \A t \in Seats : calls'[t] <= calls[t]
          BY <1>4, <2>2
    <3> QED
        BY <1>4, <2>2, <3>1, EscalateGoes
  <2> QED
      BY <2>0, <2>1, <2>2
<1>6. TypeOK'
  <2>1. DOMAIN ballots' = {}
        BY <1>1
  <2> QED
      BY <1>1, <1>5, <2>1 DEF IInv, TypeOK
<1>7. Seated'
  <2>1. PhaseMoves
        BY <1>1, <1>3, <1>4, <1>5 DEF PhaseMoves, IInv, TypeOK
  <2> QED
      BY <2>1, PhaseSeated
<1>8. Staffed' /\ Proposed'
      BY <1>1, <1>2, <1>5 DEF IInv, Staffed, Proposed, SameCast
<1>9. Forward'
      BY <1>1, <1>2, <1>5 DEF Forward, UsableSeats, Parts, SameCast
<1>10. Paying'
  <2>1. Steps(maker[Fallback])' \in 0..2
        BY DEF Steps
  <2> QED
      BY <1>1, <1>2, <1>4, <1>5, <2>1 DEF Paying, SameCast, Economy
<1>11. HandsOnWell'
      BY <1>2, <1>5, <1>6 DEF HandsOnWell, OnlyAccepted, SelectedWell, SameCast
<1> QED
    BY <1>6, <1>7, <1>8, <1>9, <1>10, <1>11 DEF IInv

-----------------------------------------------------------------------------
(* Who reviewed what is put forward.                                       *)
LEMMA ReviewedByAnother ==
    ASSUME IInv, ~Proposing, pc \in {"review", "rereview"}
    PROVE  /\ Reviewer \in Seats \ FreeSeats
           /\ Reviewer = chosen =>
                IF Economy THEN Paid = {Reviewer} ELSE contest.reviewers = {Reviewer}
<1>1. Parts
      BY Roles DEF IInv, TypeOK
<1>2. Reviewer # NoSeat
      BY DEF IInv, Staffed, Refused
<1>3. chosen \in Proposers \/ (Economy /\ chosen = Fallback)
      BY DEF IInv, Forward
<1>4. contest.profile \in {"economy", "fastest", "propose"}
      BY DEF IInv, TypeOK, Contest
<1>5. CASE Economy
      BY <1>1, <1>2, <1>3, <1>5 DEF Parts
<1>6. CASE ~Economy
      BY <1>1, <1>2, <1>3, <1>4, <1>6 DEF Parts, Economy, Proposing
<1> QED
    BY <1>5, <1>6

(* A review that accepted is of the candidate as it is.                    *)
LEMMA AcceptedIsRight ==
    ASSUME IInv, ~Proposing, pc \in {"review", "rereview"}, checked' \in Verdicts,
           Accepted(checked'), UNCHANGED <<contest, maker, chosen>>, TypeOK'
    PROVE  OnlyAccepted'
<1>1. SameCast
      BY CastStands
<1>2. checked'.of = chosen /\ checked'.candidate = maker[chosen] /\ checked'.says /\ ~checked'.erred
      BY DEF Verdicts, Accepted
<1>3. maker[chosen].pc = "made" /\ ~maker[chosen].blank
      BY DEF IInv, Forward
<1>4. /\ Reviewer \notin FreeSeats
      /\ Reviewer = chosen =>
           IF Economy THEN Paid = {Reviewer} ELSE contest.reviewers = {Reviewer}
      BY ReviewedByAnother
<1> QED
    BY <1>1, <1>2, <1>3, <1>4 DEF OnlyAccepted, SameCast

LEMMA VerdictsTyped ==
    ASSUME TypeOK, pc \in {"review", "rereview"}, ~Proposing, IInv
    PROVE  Verdicts \subseteq [ of : Seats \union {NoSeat}, candidate : Maker, says : BOOLEAN,
                                erred : BOOLEAN ]
<1>1. chosen \in Seats /\ maker[chosen] \in Maker
      BY DEF IInv, Forward, TypeOK
<1> QED
    BY <1>1 DEF Verdicts

LEMMA ReviewInKeeps == ASSUME IInv, ~Proposing, ReviewIn PROVE IInv'
<1>1. /\ pc = "review" /\ UNCHANGED <<contest, maker, ballots, aborted, calls, spent>>
      /\ checked' \in Verdicts
      BY DEF ReviewIn
<1>2. SameCast /\ Parts
      BY <1>1, CastStands, Roles DEF IInv, TypeOK
<1>3. \A s \in Seats : ~AtWork(maker[s])
      BY <1>1, NobodyAtWork DEF Making
<1>4. /\ calls \in [Seats -> Nat] /\ spent \in Nat
      /\ Economy => spent <= 1
      /\ contest.profile = "fastest" => spent <= 3
      BY <1>1 DEF IInv, TypeOK, Paying
<1>5. /\ chosen' \in Seats \union {NoSeat}
      /\ \/ pc' = "passed" /\ chosen' = chosen /\ Accepted(checked')
         \/ pc' = "failed"
         \/ Economy /\ pc' = "fallback" /\ chosen' = Fallback /\ Fallback # NoSeat
      BY EscalateGoes DEF ReviewIn, IInv, TypeOK
<1>6. TypeOK'
  <2>1. checked' \in [ of : Seats \union {NoSeat}, candidate : Maker, says : BOOLEAN,
                       erred : BOOLEAN ]
        BY <1>1, VerdictsTyped DEF IInv
  <2> QED
      BY <1>1, <1>5, <2>1 DEF IInv, TypeOK
<1>7. Seated'
  <2>1. \A t \in Seats : calls'[t] <= calls[t]
        BY <1>1, <1>4
  <2>2. PhaseMoves
        BY <1>1, <1>3, <1>4, <1>5, <2>1 DEF PhaseMoves, IInv, TypeOK
  <2> QED
      BY <2>2, PhaseSeated
<1>8. Staffed' /\ Proposed'
      BY <1>1, <1>2, <1>5 DEF IInv, Staffed, Proposed, SameCast
<1>9. Forward'
      BY <1>1, <1>2, <1>5 DEF IInv, Forward, SameCast
<1>10. Paying'
  <2>1. Steps(maker[Fallback])' \in 0..2
        BY DEF Steps
  <2> QED
      BY <1>1, <1>2, <1>4, <1>5, <2>1 DEF Paying, SameCast, Economy
<1>11. HandsOnWell'
  <2>1. OnlyAccepted'
    <3>1. CASE pc' = "passed"
          BY <1>1, <1>5, <1>6, <3>1, AcceptedIsRight
    <3>2. CASE pc' # "passed"
          BY <1>6, <3>2 DEF OnlyAccepted
    <3> QED
        BY <3>1, <3>2
  <2> QED
      BY <1>2, <2>1 DEF HandsOnWell, SelectedWell, SameCast
<1> QED
    BY <1>6, <1>7, <1>8, <1>9, <1>10, <1>11 DEF IInv

LEMMA FallbackInKeeps == ASSUME IInv, ~Proposing, FallbackIn PROVE IInv'
<1>1. /\ pc = "fallback" /\ UNCHANGED <<contest, maker, ballots, aborted>>
      /\ Settled(Fallback)
      /\ Economy /\ chosen = Fallback /\ Fallback # NoSeat /\ contest.profile = "economy"
      BY DEF FallbackIn, IInv, Forward, Economy
<1>2. SameCast /\ Parts
      BY <1>1, CastStands, Roles DEF IInv, TypeOK
<1>3. \A s \in Seats : ~AtWork(maker[s])
      BY <1>1, NobodyAtWork DEF Making
<1>4. calls \in [Seats -> Nat] /\ spent \in Nat /\ spent <= 3
  <2>1. spent <= 1 + Steps(maker[Fallback]) /\ Steps(maker[Fallback]) \in 0..2
        BY <1>1 DEF IInv, Paying, Steps
  <2> QED
      BY <2>1 DEF IInv, TypeOK
<1>5. /\ calls' \in [Seats -> Nat] /\ spent' \in Nat /\ spent' <= 4
      /\ \A t \in Seats : t \in FreeSeats => calls'[t] <= calls[t]
      /\ chosen' = Fallback
      /\ \/ /\ pc' = "rereview" /\ checked' = checked
            /\ maker[Fallback].pc = "made" /\ ~maker[Fallback].blank
         \/ pc' = "failed" /\ checked' = NoReview
  <2>1. CASE maker[Fallback].pc = "made" /\ ~maker[Fallback].blank
    <3>1. PICK s : s = Fallback
          OBVIOUS
    <3>2. Submit(s, "rereview") /\ checked' = checked
          BY <2>1, <3>1 DEF FallbackIn
    <3>3. /\ calls' \in [Seats -> Nat] /\ spent' \in Nat /\ spent' <= spent + 1
          /\ \A t \in FreeSeats : calls'[t] = calls[t]
          BY <1>1, <3>2, SubmitCosts
    <3>4. \A t \in FreeSeats : t \in Seats => calls'[t] <= calls[t]
          BY <1>4, <3>3
    <3> QED
        BY <1>4, <2>1, <3>1, <3>2, <3>3, <3>4 DEF Submit
  <2>2. CASE ~(maker[Fallback].pc = "made" /\ ~maker[Fallback].blank)
    <3>1. pc' = "failed" /\ checked' = NoReview /\ UNCHANGED <<chosen, calls, spent>>
          BY <2>2 DEF FallbackIn
    <3>2. \A t \in Seats : calls'[t] <= calls[t]
          BY <1>4, <3>1
    <3> QED
        BY <1>1, <1>4, <3>1, <3>2
  <2> QED
      BY <2>1, <2>2
<1>6. TypeOK'
  <2>1. NoReview \in [ of : Seats \union {NoSeat}, candidate : Maker, says : BOOLEAN,
                       erred : BOOLEAN ]
        BY FreshIs DEF NoReview
  <2> QED
      BY <1>1, <1>2, <1>5, <2>1 DEF IInv, TypeOK, Parts
<1>7. Seated'
  <2>1. PhaseMoves
        BY <1>1, <1>3, <1>4, <1>5 DEF PhaseMoves, IInv, TypeOK
  <2> QED
      BY <2>1, PhaseSeated
<1>8. Staffed' /\ Proposed'
      BY <1>1, <1>2, <1>5 DEF IInv, Staffed, Proposed, SameCast
<1>9. Forward'
      BY <1>1, <1>2, <1>5 DEF Forward, Parts, SameCast
<1>10. Paying'
      BY <1>1, <1>2, <1>5 DEF Paying, SameCast
<1>11. HandsOnWell'
      BY <1>2, <1>5, <1>6 DEF HandsOnWell, OnlyAccepted, SelectedWell, SameCast
<1> QED
    BY <1>6, <1>7, <1>8, <1>9, <1>10, <1>11 DEF IInv

LEMMA RereviewInKeeps == ASSUME IInv, ~Proposing, RereviewIn PROVE IInv'
<1>1. /\ pc = "rereview" /\ UNCHANGED <<contest, maker, ballots, chosen, aborted, calls, spent>>
      /\ checked' \in Verdicts
      /\ (pc' = "passed" /\ Accepted(checked')) \/ pc' = "failed"
      BY DEF RereviewIn
<1>2. SameCast /\ Economy /\ contest.profile = "economy"
      BY <1>1, CastStands DEF IInv, Forward, Economy
<1>3. \A s \in Seats : ~AtWork(maker[s])
      BY <1>1, NobodyAtWork DEF Making
<1>4. calls \in [Seats -> Nat] /\ spent \in Nat /\ spent <= 4
      BY <1>1, <1>2 DEF IInv, TypeOK, Paying
<1>5. TypeOK'
  <2>1. checked' \in [ of : Seats \union {NoSeat}, candidate : Maker, says : BOOLEAN,
                       erred : BOOLEAN ]
        BY <1>1, VerdictsTyped DEF IInv
  <2> QED
      BY <1>1, <2>1 DEF IInv, TypeOK
<1>6. Seated'
  <2>1. \A t \in Seats : calls'[t] <= calls[t]
        BY <1>1, <1>4
  <2>2. PhaseMoves
        BY <1>1, <1>3, <1>4, <2>1 DEF PhaseMoves, IInv, TypeOK
  <2> QED
      BY <2>2, PhaseSeated
<1>7. Staffed' /\ Proposed' /\ Forward'
      BY <1>1, <1>2 DEF IInv, Staffed, Proposed, Forward, SameCast
<1>8. Paying'
      BY <1>1, <1>2, <1>4 DEF Paying, SameCast
<1>9. HandsOnWell'
  <2>1. OnlyAccepted'
    <3>1. CASE pc' = "passed"
          BY <1>1, <1>5, <3>1, AcceptedIsRight
    <3>2. CASE pc' # "passed"
          BY <1>5, <3>2 DEF OnlyAccepted
    <3> QED
        BY <3>1, <3>2
  <2> QED
      BY <1>2, <2>1 DEF HandsOnWell, SelectedWell, SameCast
<1> QED
    BY <1>5, <1>6, <1>7, <1>8, <1>9 DEF IInv

LEMMA AbortKeeps == ASSUME IInv, ~Proposing, Abort PROVE IInv'
<1>1. /\ UNCHANGED <<contest, pc, maker, ballots, chosen, checked, calls, spent>> /\ aborted' = TRUE
      BY DEF Abort
<1>2. SameCast /\ Making' = Making
      BY <1>1, CastStands DEF SameCast, Making
<1>3. TypeOK'
      BY <1>1 DEF IInv, TypeOK
<1>4. Seated'
      BY <1>1, <1>2 DEF IInv, Seated, Sound, AtWork, Steps, SameCast
<1>5. Staffed' /\ Proposed' /\ Forward'
      BY <1>1, <1>2 DEF IInv, Staffed, Proposed, Forward, SameCast
<1>6. Paying'
      BY <1>1, <1>2 DEF IInv, Paying, SameCast, Steps
<1>7. HandsOnWell'
      BY <1>1, <1>2, <1>3 DEF IInv, HandsOnWell, OnlyAccepted, SelectedWell, SameCast
<1> QED
    BY <1>3, <1>4, <1>5, <1>6, <1>7 DEF IInv

-----------------------------------------------------------------------------
(* A round is no contest under a mode.                                     *)
LEMMA RoundIsNoContest ==
    ASSUME TypeOK, Proposing
    PROVE  ~Economy /\ contest.profile # "fastest" /\ Proposers \in SUBSET Seats
BY Roles DEF TypeOK, Proposing, Economy, Parts

(* What such a step leaves to show.                                        *)
LEMMA RoundKeeps ==
    ASSUME IInv, Proposing, UNCHANGED contest, TypeOK', Seated', Proposed', SelectedWell'
    PROVE  IInv'
<1>1. SameCast /\ contest.profile = "propose"
      BY CastStands DEF Proposing
<1>2. Staffed' /\ Forward' /\ Paying' /\ OnlyAccepted'
      BY <1>1, RoundIsNoContest DEF IInv, Staffed, Forward, Paying, OnlyAccepted, SameCast
<1> QED
    BY <1>2 DEF IInv, HandsOnWell

LEMMA ProposeBeginKeeps == ASSUME IInv, Proposing, ProposeBegin PROVE IInv'
<1>1. /\ pc = "start" /\ pc' \in {"drafting", "failed"}
      /\ UNCHANGED <<contest, maker, ballots, chosen, checked, aborted, calls, spent>>
      BY DEF ProposeBegin
<1>2. SameCast
      BY <1>1, CastStands
<1>3. DOMAIN ballots = {}
      BY <1>1 DEF IInv, Proposed
<1>4. PhaseMoves
  <2>1. \A s \in Seats : maker[s].pc = "idle" /\ calls[s] \in Nat
        BY <1>1 DEF IInv, Seated, TypeOK
  <2> QED
      BY <1>1, <2>1 DEF PhaseMoves, AtWork, IInv, TypeOK
<1>5. TypeOK' /\ Seated'
      BY <1>1, <1>4, PhaseSeated DEF IInv, TypeOK
<1>6. Proposed' /\ SelectedWell'
      BY <1>1, <1>3 DEF Proposed, SelectedWell
<1> QED
    BY <1>1, <1>5, <1>6, RoundKeeps

LEMMA SelectKeeps == ASSUME IInv, Proposing, Select PROVE IInv'
<1>1. /\ pc = "drafting" /\ UNCHANGED <<contest, ballots, checked, aborted>>
      /\ \A s \in Proposers : Settled(s)
      BY DEF Select
<1>2. PICK unread \in SUBSET { s \in Proposers : maker[s].pc = "made" } :
        /\ maker' = [ s \in Seats |-> [ maker[s] EXCEPT !.blank = s \notin Readable(unread) ] ]
        /\ \/ /\ Readable(unread) = {}
              /\ pc' = "failed" /\ UNCHANGED <<chosen, calls, spent>>
           \/ /\ Cardinality(Readable(unread)) = 1
              /\ pc' = "passed" /\ chosen' = Sole(Readable(unread)) /\ UNCHANGED <<calls, spent>>
           \/ /\ Cardinality(Readable(unread)) > 1
              /\ pc' = "voting" /\ Call(Proposers) /\ UNCHANGED chosen
      BY DEF Select
<1>3. SameCast /\ Proposers \in SUBSET Seats /\ TypeOK /\ DOMAIN ballots = {}
      BY <1>1, CastStands, RoundIsNoContest DEF IInv, Proposed
<1>4. PICK R \in SUBSET Seats : R = Readable(unread)
      BY <1>3 DEF Readable
<1>5. /\ maker \in [Seats -> Maker] /\ calls \in [Seats -> Nat] /\ spent \in Nat
      /\ chosen \in Seats \union {NoSeat}
      BY DEF IInv, TypeOK
<1>6. maker' = [ s \in Seats |-> [ maker[s] EXCEPT !.blank = s \notin R ] ]
      BY <1>2, <1>4
<1>7. ASSUME NEW s \in Seats
      PROVE  /\ maker'[s] \in Maker /\ (~maker'[s].blank <=> s \in R)
             /\ maker'[s].pc = maker[s].pc /\ maker'[s].reads = maker[s].reads
             /\ maker'[s].written = maker[s].written /\ maker'[s].refused = maker[s].refused
             /\ maker'[s].chars = maker[s].chars /\ maker'[s].shown = maker[s].shown
  <2>1. maker[s] \in Maker
        BY <1>5
  <2>2. maker'[s] = [ maker[s] EXCEPT !.blank = s \notin R ]
        BY <1>6
  <2>3. (s \notin R) \in BOOLEAN
        OBVIOUS
  <2> QED
      BY <2>1, <2>2, <2>3 DEF Maker
<1>8. maker' \in [Seats -> Maker]
      BY <1>6, <1>7
<1>9. UsableSeats' = R
  <2>1. UsableSeats' = { s \in Proposers : maker'[s].pc = "made" /\ ~maker'[s].blank }
        BY <1>3 DEF UsableSeats, SameCast
  <2>2. \A s \in R : s \in Proposers /\ maker[s].pc = "made"
        BY <1>4 DEF Readable
  <2>3. ASSUME NEW s \in R PROVE s \in UsableSeats'
    <3>1. s \in Seats /\ maker'[s].pc = "made" /\ ~maker'[s].blank
          BY <1>7, <2>2, <2>3
    <3> QED
        BY <2>1, <2>2, <3>1
  <2>4. ASSUME NEW s \in UsableSeats' PROVE s \in R
    <3>1. s \in Seats /\ ~maker'[s].blank
          BY <1>3, <2>1, <2>4
    <3> QED
        BY <1>7, <3>1
  <2> QED
      BY <2>3, <2>4
<1>10. \A s \in R : maker'[s].written # {}
  <2>1. \A s \in R : maker[s].written # {}
        BY <1>4 DEF Readable
  <2> QED
      BY <1>7, <2>1
<1>11. /\ calls' \in [Seats -> Nat] /\ spent' \in Nat
       /\ \A t \in Seats : calls'[t] <= calls[t] + 1
       /\ \/ R = {} /\ pc' = "failed" /\ chosen' = chosen
          \/ pc' = "passed" /\ chosen' \in Seats /\ R = {chosen'}
          \/ Cardinality(R) > 1 /\ pc' = "voting" /\ chosen' = chosen
  <2>1. CASE R = {} /\ pc' = "failed" /\ UNCHANGED <<chosen, calls, spent>>
        BY <1>5, <2>1
  <2>2. CASE /\ Cardinality(R) = 1 /\ pc' = "passed" /\ chosen' = Sole(R)
             /\ UNCHANGED <<calls, spent>>
    <3>1. PICK s \in Seats : R = {s}
          BY <2>2, OneSeat
    <3>2. chosen' = s
          BY <2>2, <3>1 DEF Sole
    <3>3. R = {chosen'} /\ chosen' \in Seats
          BY <3>1, <3>2
    <3>4. /\ calls' \in [Seats -> Nat] /\ spent' \in Nat
          /\ \A t \in Seats : calls'[t] <= calls[t] + 1
          BY <1>5, <2>2
    <3> QED
        BY <2>2, <3>3, <3>4
  <2>3. CASE Cardinality(R) > 1 /\ pc' = "voting" /\ Call(Proposers) /\ chosen' = chosen
    <3>1. PICK S \in SUBSET Seats : S = Proposers
          BY <1>3
    <3>2. Call(S)
          BY <2>3, <3>1
    <3>3. /\ calls' \in [Seats -> Nat] /\ spent' \in Nat
          /\ \A t \in Seats : calls'[t] = calls[t] + IF t \in S THEN 1 ELSE 0
          BY <1>3, <3>2, CallCounts
    <3>4. \A t \in Seats : calls'[t] <= calls[t] + 1
          BY <1>5, <3>3
    <3> QED
        BY <2>3, <3>3, <3>4
  <2> QED
      BY <1>2, <1>4, <2>1, <2>2, <2>3
<1>12. TypeOK'
      BY <1>1, <1>5, <1>8, <1>11 DEF IInv, TypeOK
<1>13. Seated'
  <2>1. \A s \in Seats : ~AtWork(maker[s])
        BY <1>1, NobodyAtWork DEF Making
  <2>2. PhaseMoves
        BY <1>1, <1>3, <1>7, <1>8, <1>11, <2>1, RoundIsNoContest DEF PhaseMoves
  <2> QED
      BY <2>2, PhaseSeated
<1>14. DOMAIN ballots' = {}
      BY <1>1, <1>3
<1>15. Proposed'
  <2>1. Cardinality(R) > 1 => Cardinality(UsableSeats') > 1
        BY <1>9, Zenon
  <2> QED
      BY <1>9, <1>10, <1>11, <1>14, <2>1 DEF Proposed
<1>16. SelectedWell'
      BY <1>9, <1>10, <1>11, <1>14 DEF SelectedWell
<1> QED
    BY <1>1, <1>12, <1>13, <1>15, <1>16, RoundKeeps

LEMMA ProposeVotesKeeps == ASSUME IInv, Proposing, NEW s \in Seats, ProposeVotes(s) PROVE IInv'
<1>1. /\ pc = "voting" /\ UNCHANGED <<contest, pc, maker, chosen, checked, aborted, calls, spent>>
      /\ \E b \in Ballot : /\ b.vote \in UsableSeats \union {NoSeat} /\ (~b.ok => b = Lost)
                           /\ ballots' = WithVote(s, b)
      BY DEF ProposeVotes, OnBallot
<1>2. SameCast
      BY <1>1, CastStands
<1>3. PICK b \in Ballot : /\ b.vote \in UsableSeats \union {NoSeat} /\ (~b.ok => b = Lost)
                          /\ ballots' = WithVote(s, b)
      BY <1>1
<1>4. /\ DOMAIN ballots' = DOMAIN ballots \union {s} /\ DOMAIN ballots' \subseteq Seats
      /\ ballots'[s] = b
      /\ \A r \in DOMAIN ballots : r # s => ballots'[r] = ballots[r]
      /\ \A r \in DOMAIN ballots' : ballots'[r] \in Ballot
  <2>1. TypeOK
        BY DEF IInv
  <2>2. /\ DOMAIN WithVote(s, b) = DOMAIN ballots \union {s}
        /\ WithVote(s, b)[s] = b
        /\ \A r \in DOMAIN ballots : r # s => WithVote(s, b)[r] = ballots[r]
        /\ DOMAIN WithVote(s, b) \subseteq Seats
        /\ \A r \in DOMAIN WithVote(s, b) : WithVote(s, b)[r] \in Ballot
        BY <2>1, WithVoteIs
  <2> QED
      BY <1>3, <2>2
<1>5. TypeOK'
      BY <1>1, <1>4 DEF IInv, TypeOK
<1>6. Seated'
      BY <1>1, VoteSeated
<1>7. UsableSeats' = UsableSeats
      BY <1>1, <1>2 DEF UsableSeats, SameCast
<1>8. /\ Cardinality(UsableSeats) > 1 /\ \A t \in UsableSeats : maker[t].written # {}
      /\ \A r \in DOMAIN ballots :
           ballots[r].vote \in UsableSeats \union {NoSeat} /\ (~ballots[r].ok => ballots[r].vote = NoSeat)
      BY <1>1 DEF IInv, Proposed
<1>9. ~b.ok => b.vote = NoSeat
      BY <1>3 DEF Lost
<1>10. \A r \in DOMAIN ballots' :
           ballots'[r].vote \in UsableSeats \union {NoSeat} /\ (~ballots'[r].ok => ballots'[r].vote = NoSeat)
      BY <1>3, <1>4, <1>8, <1>9
<1>11. Proposed'
  <2>1. Cardinality(UsableSeats') > 1
        BY <1>7, <1>8, Zenon
  <2> QED
      BY <1>1, <1>7, <1>8, <1>10, <2>1 DEF Proposed
<1>12. SelectedWell'
      BY <1>1 DEF SelectedWell
<1> QED
    BY <1>1, <1>5, <1>6, <1>11, <1>12, RoundKeeps

(* The vote settles on a version as soon as one was named.                 *)
LEMMA VoteSettles ==
    ASSUME IInv, Proposing, pc = "voting"
    PROVE  LET winner == Tally(ballots, [s \in UsableSeats |-> "answer"], Clean).winner
           IN  /\ winner \in UsableSeats =>
                    \E s \in DOMAIN ballots : ballots[s].ok /\ ballots[s].vote = winner
               /\ winner \notin UsableSeats => \A s \in DOMAIN ballots : ballots[s].vote = NoSeat
<1> DEFINE drafts == [s \in UsableSeats |-> "answer"]
<1> DEFINE winner == Tally(ballots, drafts, Clean).winner
<1>1. /\ UsableSeats \in SUBSET Seats /\ Cardinality(UsableSeats) > 1
      /\ \A s \in DOMAIN ballots : /\ s \in Seats /\ ballots[s] \in Ballot
                                   /\ ballots[s].vote \in UsableSeats \union {NoSeat}
                                   /\ (~ballots[s].ok => ballots[s].vote = NoSeat)
  <2>1. Proposers \in SUBSET Seats
        BY RoundIsNoContest DEF IInv
  <2> QED
      BY <2>1 DEF IInv, Proposed, TypeOK, UsableSeats
<1>2. PICK cast : cast = ballots
      OBVIOUS
<1>3. VotesCast(cast) /\ Clear(Clean)
      BY <1>1, <1>2 DEF VotesCast, Clear, Clean, Whole
<1>4. CASE Named(cast) # {}
  <2>1. Tally(cast, drafts, Clean).winner \in Named(cast)
    <3>1. PICK d : d = drafts
          OBVIOUS
    <3> QED
        BY <1>3, <1>4, <3>1, WinnerIsNamed
  <2>2. winner \in Named(ballots)
        BY <1>2, <2>1
  <2> HIDE DEF winner
  <2>3. PICK r \in DOMAIN ballots : ballots[r].ok /\ ballots[r].vote = winner
        BY <2>2 DEF Named, Voters
  <2>4. winner \in Seats /\ winner # NoSeat
        BY <2>2 DEF Named, Seats, NoSeat
  <2>5. winner \in UsableSeats
        BY <1>1, <2>3, <2>4
  <2>6. \E s \in DOMAIN ballots : ballots[s].ok /\ ballots[s].vote = winner
        BY <2>3
  <2> QED
      BY <2>5, <2>6 DEF winner
<1>5. CASE Named(cast) = {}
  <2>1. winner = NoSeat
    <3>1. UsableDrafts(drafts) = UsableSeats
          BY DEF UsableDrafts, Usable
    <3>2. Cardinality(UsableDrafts(drafts)) = Cardinality(UsableSeats)
          BY <3>1, Zenon
    <3>3. Cardinality(UsableDrafts(drafts)) # 1
          BY <1>1, <3>2
    <3>4. Named(ballots) = {}
          BY <1>2, <1>5
    <3> HIDE DEF drafts
    <3>5. Tally(ballots, drafts, Clean) = NoVerdict
          BY <3>3, <3>4 DEF Tally
    <3> QED
        BY <3>5 DEF NoVerdict, Verdict
  <2> HIDE DEF winner
  <2>2. winner \notin UsableSeats
        BY <1>1, <2>1 DEF Seats, NoSeat
  <2>3. ASSUME NEW s \in DOMAIN ballots, ballots[s].vote # NoSeat PROVE FALSE
    <3>1. ballots[s].ok /\ ballots[s].vote \in Seats
          BY <1>1, <2>3
    <3>2. s \in Voters(ballots, ballots[s].vote)
          BY <3>1 DEF Voters
    <3>3. ballots[s].vote \in Named(ballots)
          BY <3>1, <3>2 DEF Named
    <3> QED
        BY <1>2, <1>5, <3>3
  <2> QED
      BY <2>2, <2>3 DEF winner
<1> QED
    BY <1>4, <1>5

LEMMA ProposeVotesInKeeps == ASSUME IInv, Proposing, ProposeVotesIn PROVE IInv'
<1>1. /\ pc = "voting" /\ UNCHANGED <<contest, maker, ballots, checked, aborted, calls, spent>>
      BY DEF ProposeVotesIn
<1>2. SameCast
      BY <1>1, CastStands
<1>3. \/ /\ pc' = "passed" /\ chosen' \in UsableSeats
         /\ \E s \in DOMAIN ballots : ballots[s].ok /\ ballots[s].vote = chosen'
      \/ /\ pc' = "failed" /\ chosen' = chosen
         /\ \A s \in DOMAIN ballots : ballots[s].vote = NoSeat
  <2> DEFINE winner == Tally(ballots, [s \in UsableSeats |-> "answer"], Clean).winner
  <2>1. /\ winner \in UsableSeats =>
             \E s \in DOMAIN ballots : ballots[s].ok /\ ballots[s].vote = winner
        /\ winner \notin UsableSeats => \A s \in DOMAIN ballots : ballots[s].vote = NoSeat
        BY <1>1, VoteSettles
  <2>2. \/ winner \in UsableSeats /\ pc' = "passed" /\ chosen' = winner
        \/ winner \notin UsableSeats /\ pc' = "failed" /\ chosen' = chosen
        BY DEF ProposeVotesIn
  <2> HIDE DEF winner
  <2> QED
      BY <2>1, <2>2
<1>4. UsableSeats' = UsableSeats /\ UsableSeats \subseteq Seats
      BY <1>1, <1>2, RoundIsNoContest DEF UsableSeats, SameCast, IInv
<1>5. /\ \A t \in UsableSeats : maker[t].written # {}
      /\ \A r \in DOMAIN ballots :
           ballots[r].vote \in UsableSeats \union {NoSeat} /\ (~ballots[r].ok => ballots[r].vote = NoSeat)
      BY <1>1 DEF IInv, Proposed
<1>6. TypeOK'
      BY <1>1, <1>3, <1>4 DEF IInv, TypeOK
<1>7. Seated'
  <2>1. \A s \in Seats : ~AtWork(maker[s])
        BY <1>1, NobodyAtWork DEF Making
  <2>2. \A s \in Seats : calls'[s] <= calls[s]
        BY <1>1 DEF IInv, TypeOK
  <2>3. PhaseMoves
        BY <1>1, <1>3, <2>1, <2>2 DEF PhaseMoves, IInv, TypeOK
  <2> QED
      BY <2>3, PhaseSeated
<1>8. Proposed'
      BY <1>1, <1>3, <1>4, <1>5 DEF Proposed
<1>9. SelectedWell'
      BY <1>1, <1>3, <1>4, <1>5 DEF SelectedWell
<1> QED
    BY <1>1, <1>6, <1>7, <1>8, <1>9, RoundKeeps

-----------------------------------------------------------------------------
LEMMA InitHolds == ASSUME Init PROVE IInv
<1>1. TypeOK
  <2>1. DOMAIN ballots = {}
        BY DEF Init
  <2>2. checked \in [ of : Seats \union {NoSeat}, candidate : Maker, says : BOOLEAN,
                      erred : BOOLEAN ]
        BY FreshIs DEF Init, NoReview
  <2>3. maker \in [Seats -> Maker] /\ calls \in [Seats -> Nat]
        BY FreshIs DEF Init
  <2> QED
      BY <2>1, <2>2, <2>3 DEF Init, TypeOK
<1>2. Seated
      BY FreshIs DEF Init, Seated, Sound, AtWork, Steps, Unasked
<1>3. Staffed /\ Forward /\ Proposed
      BY DEF Init, Staffed, Forward, Proposed
<1>4. Paying
  <2>1. Steps(maker[contest.assigned]) \in 0..2
        BY DEF Steps
  <2> QED
      BY <2>1 DEF Init, Paying
<1>5. HandsOnWell
      BY <1>1 DEF Init, HandsOnWell, OnlyAccepted, SelectedWell
<1> QED
    BY <1>1, <1>2, <1>3, <1>4, <1>5 DEF IInv

LEMMA StepHolds == ASSUME IInv, [RoundNext]_vars PROVE IInv'
<1>1. CASE Proposing /\ ProposeStep
  <2>1. ASSUME NEW s \in Seats, ProposeAsk(s) \/ Silent(s) \/ AsksToRead(s) \/ Reads(s) \/ Keeps(s)
                                \/ Stages(s)
        PROVE  IInv'
    <3>1. MakerMoves(s)
          BY <1>1, <2>1, AskMoves, FailsMoves, AsksToReadMoves, ReadsMoves, KeepsMoves, StagesMoves
          DEF Silent
    <3> QED
        BY <3>1, MakerMovesKeeps
  <2> QED
      BY <1>1, <2>1, ProposeBeginKeeps, SelectKeeps, ProposeVotesKeeps, ProposeVotesInKeeps
      DEF ProposeStep
<1>2. CASE ~Proposing /\ Next
  <2>1. ASSUME NEW s \in Seats, Produce(s) PROVE IInv'
    <3>1. MakerMoves(s)
          BY <2>1, AskMoves, FailsMoves, AsksToReadMoves, RepliesMoves, ReadsMoves, WritesMoves
          DEF Produce
    <3> QED
        BY <3>1, MakerMovesKeeps
  <2> QED
      BY <1>2, <2>1, BeginKeeps, DraftsInKeeps, VotesInKeeps, ReviewInKeeps, FallbackInKeeps,
         RereviewInKeeps, AbortKeeps, VotesKeeps DEF Next, Step
<1>3. CASE UNCHANGED vars
  <2>1. /\ UNCHANGED <<contest, pc, maker, ballots, chosen, checked, aborted, calls, spent>>
        BY <1>3 DEF vars
  <2>2. SameCast /\ Making' = Making /\ UsableSeats' = UsableSeats
        BY <2>1, CastStands DEF SameCast, Making, UsableSeats
  <2>3. TypeOK'
        BY <2>1 DEF IInv, TypeOK
  <2>4. Seated'
        BY <2>1, <2>2 DEF IInv, Seated, Sound, AtWork, Steps, SameCast
  <2>5. Staffed' /\ Forward' /\ Paying'
        BY <2>1, <2>2 DEF IInv, Staffed, Forward, Paying, SameCast, Steps
  <2>6. Proposed'
    <3>1. Cardinality(UsableSeats') = Cardinality(UsableSeats)
          BY <2>2, Zenon
    <3> QED
        BY <2>1, <2>2, <3>1 DEF IInv, Proposed, SameCast
  <2>7. HandsOnWell'
        BY <2>1, <2>2, <2>3 DEF IInv, HandsOnWell, OnlyAccepted, SelectedWell, SameCast
  <2> QED
      BY <2>3, <2>4, <2>5, <2>6, <2>7 DEF IInv
<1> QED
    BY <1>1, <1>2, <1>3 DEF RoundNext

(* The invariant of a contest and of a proposing round.                    *)
THEOREM Inductive == RoundSpec => []IInv
<1> QED
    BY InitHolds, StepHolds, PTL DEF RoundSpec

(* Whatever comes out of a contest was accepted by a paid seat as it now   *)
(* is, and whatever comes out of a round can be read back and was the only *)
(* version or was voted for; a vote that settles on nothing named nothing  *)
(* (swarm-contest.ts:102-118, select.ts:173-243).                          *)
THEOREM HandsOn == RoundSpec => []HandsOnWell
<1>1. IInv => HandsOnWell
      BY DEF IInv
<1> QED
    BY <1>1, Inductive, PTL

LEMMA InvWithin == ASSUME IInv PROVE WithinBounds
<1>1. StagedWithin
  <2> SUFFICES ASSUME NEW s \in Seats
      PROVE  /\ maker[s].written \subseteq contest.targets \intersect Granted
             /\ maker[s].chars <= MaxWriteTotal
             /\ maker[s].shown <= MaxTotalChars
             /\ s = chosen /\ pc \in {"review", "rereview", "passed"} /\ NeedsFiles =>
                  /\ maker[s].written # {}
                  /\ contest.profile # "propose" => maker[s].refused = {}
      BY DEF StagedWithin
  <2>1. Sound(maker[s])
        BY DEF IInv, Seated
  <2>2. ASSUME s = chosen, pc \in {"review", "rereview", "passed"}, NeedsFiles
        PROVE  maker[s].written # {} /\ (~Proposing => maker[s].refused = {})
    <3>1. CASE ~Proposing
          BY <2>1, <2>2, <3>1 DEF IInv, Forward, Sound
    <3>2. CASE Proposing
          BY <2>2, <3>2 DEF IInv, Proposed, HandsOnWell, SelectedWell
    <3> QED
        BY <3>1, <3>2
  <2> QED
      BY <2>1, <2>2 DEF Sound, Proposing
<1>2. OneRead
  <2> SUFFICES ASSUME NEW s \in Seats, s \in FreeSeats \/ Proposing
      PROVE  calls[s] <= IF maker[s].reads THEN 3 ELSE 2
      BY DEF OneRead, Proposing
  <2>1. /\ calls[s] <= Steps(maker[s]) + IF pc \in {"start", "drafting"} THEN 0 ELSE 1
        /\ Steps(maker[s]) \in 0..2 /\ (maker[s].reads \/ Steps(maker[s]) <= 1)
        /\ calls[s] \in Nat
        BY DEF IInv, Seated, TypeOK, Steps
  <2> QED
      BY <2>1
<1>3. WithinEstimate
  <2>1. ASSUME NEW s \in FreeSeats PROVE calls[s] <= 3
    <3>1. s \in Seats /\ calls[s] \in Nat
          BY DEF IInv, TypeOK
    <3> QED
        BY <1>2, <3>1 DEF OneRead
  <2>2. /\ Steps(maker[Fallback]) \in 0..2 /\ Steps(maker[contest.assigned]) \in 0..2
        /\ spent \in Nat
        BY DEF IInv, TypeOK, Steps
  <2>3. Economy => spent <= 4
        BY <2>2 DEF IInv, Paying
  <2>4. contest.profile = "fastest" => spent <= 3
        BY <2>2 DEF IInv, Paying
  <2> QED
      BY <2>1, <2>3, <2>4 DEF WithinEstimate, Economy
<1> QED
    BY <1>1, <1>2, <1>3 DEF WithinBounds

(* A tree holds granted files of the unit within the limits, the calls of  *)
(* a contest stay within what the approved estimate counted, and a seat of *)
(* a proposing round, whose gate tells of two calls, costs a third only    *)
(* for the one time it is shown files, whatever the seats ask for, write   *)
(* and fail at (writes.ts:198-231, swarm.ts:431-468, propose.ts:155-189).  *)
THEOREM Bounds == RoundSpec => []WithinBounds
<1> QED
    BY InvWithin, Inductive, PTL

(* Every variable keeps its type.                                          *)
THEOREM TypeCorrect == RoundSpec => []TypeOK
<1>1. IInv => TypeOK
      BY DEF IInv
<1> QED
    BY <1>1, Inductive, PTL
=============================================================================
