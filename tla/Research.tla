------------------------------ MODULE Research ------------------------------
(***************************************************************************)
(* The research round of a council: the searches its seats asked for, run  *)
(* by a pool of workers through the lanes of WebTraffic, and the numbered  *)
(* evidence the round ends with.                                           *)
(***************************************************************************)
EXTENDS WebTraffic, SequencesExt

CONSTANTS
    Keys,       \* the keys of the queries there are
    Replies,    \* what the seats may reply: for each seat, queries as keys
    PerSeat,    \* MAX_QUERIES_PER_SEAT
    MaxQueries, \* MAX_QUERIES_TOTAL
    Widths,     \* the values of researchConcurrency to consider
    Shared      \* the one search of gatherEvidence

ASSUME ResearchAssumption ==
    /\ PerSeat \in Nat \ {0} /\ MaxQueries \in Nat \ {0}
    /\ Widths \subseteq Nat \ {0}
    /\ Replies \subseteq Seq(Seq(Keys))
    /\ Searches = 1..MaxQueries \union {Shared} /\ Shared \notin 1..MaxQueries

VARIABLES
    phase,      \* of the round
    blind,      \* some seat has no search of its own: one is owed a shared one
    width,      \* the workers of the pool
    queries,    \* what is searched for, in the order it was asked
    next,       \* the next query a worker takes
    evidence    \* the numbered sources of each query

round == <<phase, blind, width, queries, next, evidence>>
allVars == <<vars, round>>

ResearchInit ==
    /\ Init
    /\ phase = "asking"
    /\ blind \in BOOLEAN
    /\ width \in Widths
    /\ queries = <<>>
    /\ next = 1
    /\ evidence = <<>>

-----------------------------------------------------------------------------
(* The first n of a list.                                                  *)
Upto(n, list) == SubSeq(list, 1, IF Len(list) < n THEN Len(list) ELSE n)

(* Each key once, where it first came.                                     *)
Distinct(list) ==
    LET seen[i \in 0..Len(list)] ==
          IF i = 0 THEN <<>>
          ELSE IF Contains(seen[i - 1], list[i]) THEN seen[i - 1]
          ELSE Append(seen[i - 1], list[i])
    IN  seen[Len(list)]

(* parseSearchRequests: the queries taken from one reply.                  *)
Requested(reply) == Upto(PerSeat, Distinct(reply))

(* The queries of the round: of all seats, each once, as many as allowed.  *)
Asked(replies) ==
    LET asked[i \in 0..Len(replies)] ==
          IF i = 0 THEN <<>> ELSE Distinct(asked[i - 1] \o Requested(replies[i]))
    IN  Upto(MaxQueries, asked[Len(replies)])

(* What each search has found so far.                                      *)
Found == [s \in Searches |-> search[s].sources]

(* The number of the last source so far.                                   *)
Cited(blocks) == IF blocks = <<>> THEN 0 ELSE Last(blocks).first + Last(blocks).count - 1

(* Only a search that answered with sources has a block, and the sources   *)
(* are numbered on from block to block, in the order the queries were      *)
(* asked and not the order they came back.                                 *)
Numbered(list, found) ==
    LET blocks[i \in 0..Len(list)] ==
          IF i = 0 THEN <<>>
          ELSE IF found[list[i]] = 0 THEN blocks[i - 1]
          ELSE Append(blocks[i - 1],
                      [ query |-> list[i], first |-> Cited(blocks[i - 1]) + 1,
                        count |-> found[list[i]] ])
    IN  blocks[Len(list)]

Busy == { q \in 1..next - 1 : ~Over(q) }

-----------------------------------------------------------------------------
(* Without a search to show, the seats that cannot search get one search   *)
(* of the question itself.                                                 *)
Otherwise(blocks) ==
    /\ evidence' = blocks
    /\ phase' = IF blocks = <<>> /\ blind THEN "shared" ELSE "over"

(* The seats have replied.                                                 *)
Collect ==
    /\ phase = "asking"
    /\ \E replies \in Replies :
         /\ queries' = Asked(replies)
         /\ IF queries' = <<>> THEN Otherwise(<<>>)
            ELSE phase' = "searching" /\ UNCHANGED evidence
    /\ UNCHANGED <<vars, blind, width, next>>

(* Mutant: the queries go out all at once.                                 *)
TakeAtOnce ==
    /\ phase = "searching" /\ next <= Len(queries)
    /\ Start(next)
    /\ next' = next + 1
    /\ UNCHANGED <<phase, blind, width, queries, evidence>>

(* A worker of the pool takes the next query.                              *)
Take ==
    /\ phase = "searching" /\ next <= Len(queries)
    /\ Cardinality(Busy) < width
    /\ Start(next)
    /\ next' = next + 1
    /\ UNCHANGED <<phase, blind, width, queries, evidence>>

(* All of them have settled, whichever way.                                *)
Gather ==
    /\ phase = "searching" /\ next > Len(queries) /\ Busy = {}
    /\ Otherwise(Numbered([q \in DOMAIN queries |-> q], Found))
    /\ UNCHANGED <<vars, blind, width, queries, next>>

(* gatherEvidence: one search shared by all.                               *)
AskShared ==
    /\ phase = "shared"
    /\ Start(Shared)
    /\ UNCHANGED round

SharedIn ==
    /\ phase = "shared" /\ Over(Shared)
    /\ evidence' = Numbered(<<Shared>>, Found)
    /\ phase' = "over"
    /\ UNCHANGED <<vars, blind, width, queries, next>>

Walk(s) == Proceed(s) /\ UNCHANGED round
RoundNext ==
    \/ Collect \/ Take \/ Gather \/ AskShared \/ SharedIn
    \/ \E s \in Searches : Walk(s)
    \/ \E g \in Signals : Abort(g) /\ UNCHANGED round
    \/ Tick /\ UNCHANGED round

ResearchSpec ==
    /\ ResearchInit /\ [][RoundNext]_allVars
    /\ WF_allVars(Collect \/ Take \/ Gather \/ AskShared \/ SharedIn)
    /\ \A s \in Searches : WF_allVars(Walk(s))

-----------------------------------------------------------------------------
(* The pool keeps to its width, searches for each thing once and in the    *)
(* order it was asked, and ends with every search settled, so that the     *)
(* caller pays for no search twice (evidence.ts:146-165, 254-264).         *)
PoolKeeps ==
    /\ Cardinality(Busy) <= width
    /\ IsInjective(queries)
    /\ \A q \in 1..MaxQueries : search[q].pc # "waiting" <=> q < next
    /\ phase = "over" => \A q \in DOMAIN queries : Over(q)

(* The round ends with what every answered search found, whatever became   *)
(* of the others, and its sources are numbered from 1 without a gap in the *)
(* order the queries were asked (evidence.ts:277-292).                     *)
EvidenceWhole ==
    phase = "over" =>
        /\ \A q \in DOMAIN queries :
             search[q].sources > 0 <=> \E i \in DOMAIN evidence : evidence[i].query = q
        /\ \A i \in DOMAIN evidence :
             /\ evidence[i].first =
                  IF i = 1 THEN 1 ELSE evidence[i - 1].first + evidence[i - 1].count
             /\ i > 1 => evidence[i - 1].query < evidence[i].query

(* The shared search is a last resort: it is made for blind seats alone,   *)
(* never before the queries have settled and never on top of a source they *)
(* found, and when nothing was asked blind seats are not left without it   *)
(* (council.ts:982-989).  Whether it is made when queries were asked and   *)
(* found nothing the property leaves open: the code makes it then, the     *)
(* comment above that line says it does not.                               *)
SharedLast ==
    /\ search[Shared].pc # "waiting" =>
         blind /\ \A q \in DOMAIN queries : Over(q) /\ search[q].sources = 0
    /\ phase = "over" /\ blind /\ queries = <<>> => Over(Shared)

(* All three, of the round that serves every seat.                         *)
RoundWhole == PoolKeeps /\ EvidenceWhole /\ SharedLast

(* The round ends, however its lanes fail and whenever it is aborted.      *)
RoundEnds == <>(phase = "over")
=============================================================================
