----------------------------- MODULE WebTraffic -----------------------------
(***************************************************************************)
(* The search lanes of the web-search-cli package: the TrafficDirector     *)
(* that orders the lanes of each search and remembers how each behaved,    *)
(* the RoutingSearchProvider that walks that order, and the providers it   *)
(* walks, a child process for a CLI lane and a request for the metered     *)
(* one.                                                                    *)
(*                                                                         *)
(* One event loop: an action is what runs between two awaits.  A search    *)
(* is ordered once and may await many times while it walks, so its order   *)
(* grows stale while other searches bench and free the same lanes.         *)
(***************************************************************************)
EXTENDS Integers, Sequences, FiniteSets

CONSTANTS
    LaneCount,  \* configured lanes, numbered in declaration order
    Metered,    \* the lanes billed per search; the others are included
    Keyed,      \* the lanes whose provider is available()
    Capacity,   \* the declared capacity of each lane
    Policies,   \* the traffic policies to consider
    Cooldown,   \* COOLDOWN_MS, in ticks
    Searches,   \* calls of search() that may be made
    Signals,    \* the abort signals those calls are given
    SignalOf,   \* which search is given which
    Spellings,  \* executableCandidates of a command
    MaxSources, \* bound: sources that one reply cites
    Horizon     \* bound: the last tick of the clock

Lanes == 1..LaneCount

ASSUME LanesAssumption ==
    /\ LaneCount \in Nat
    /\ Metered \subseteq Lanes /\ Keyed \subseteq Lanes
    /\ Capacity \in [Lanes -> Nat]
    /\ Policies \subseteq {"balanced", "cheapest", "fastest"}
ASSUME SearchesAssumption ==
    /\ IsFiniteSet(Searches)
    /\ SignalOf \in [Searches -> Signals]
    /\ Cooldown \in Nat /\ Spellings \in Nat \ {0}
    /\ MaxSources \in Nat /\ Horizon \in Nat

VARIABLES
    policy,     \* TrafficDirector.policy
    now,        \* the clock, in ticks
    inFlight, dispatched, succeeded, failed,  \* the LaneState counters
    meanMs,     \* the rolling latency, in hundredths of a tick
    failedAt,   \* when the lane was benched, or Never
    aborted,    \* the signals that have been aborted
    search      \* the calls of search()

lanes == <<inFlight, dispatched, succeeded, failed, meanMs, failedAt>>
vars == <<policy, now, lanes, aborted, search>>

Never == -1
Untried == -1

(* plan is what is left of the order, its first lane the one being used;   *)
(* attempts holds the lanes reported blocked, skipped or failed; ear says  *)
(* whether an abort reaches what runs on the lane.                         *)
Ended == {"answered", "failed", "aborted"}
Search ==
    [ pc : {"waiting", "probing", "running"} \union Ended, at : 0..Horizon,
      plan : Seq(Lanes), attempts : SUBSET Lanes, since : 0..Horizon,
      spelling : 1..Spellings, ear : BOOLEAN, sources : 0..MaxSources ]
Waiting ==
    [ pc |-> "waiting", at |-> 0, plan |-> <<>>, attempts |-> {}, since |-> 0,
      spelling |-> 1, ear |-> FALSE, sources |-> 0 ]

Lane(s) == Head(search[s].plan)
Running(s) == search[s].pc = "running"

(* Mutant: a search that was aborted settles nothing.                      *)
OverUnlessAborted(s) == search[s].pc \in Ended \ {"aborted"}

Over(s) == search[s].pc \in Ended
On(l) == { s \in Searches : Running(s) /\ Lane(s) = l }
Aborted(s) == SignalOf[s] \in aborted

Init ==
    /\ policy \in Policies
    /\ now = 0
    /\ inFlight = [l \in Lanes |-> 0]
    /\ dispatched = [l \in Lanes |-> 0]
    /\ succeeded = [l \in Lanes |-> 0]
    /\ failed = [l \in Lanes |-> 0]
    /\ meanMs = [l \in Lanes |-> Untried]
    /\ failedAt = [l \in Lanes |-> Never]
    /\ aborted = {}
    /\ search = [s \in Searches |-> Waiting]

-----------------------------------------------------------------------------
(* TrafficDirector.                                                        *)

Cooling(l) == failedAt[l] # Never /\ now - failedAt[l] < Cooldown

Usable == { l \in Keyed : ~Cooling(l) }

(* Asking whether a lane cools forgets a fault whose cooldown is over.     *)
Forgotten == [l \in Lanes |-> IF l \in Usable THEN Never ELSE failedAt[l]]

Rank(l) == IF l \in Metered THEN 1 ELSE 0
Weight(l) == IF Capacity[l] = 0 THEN 1 ELSE Capacity[l]
Less(n, a, b) == n[a] * Weight(b) < n[b] * Weight(a)
Same(n, a, b) == n[a] * Weight(b) = n[b] * Weight(a)
Speed(l) == IF meanMs[l] = Untried THEN 0 ELSE meanMs[l]

LessBusy(a, b) ==
    \/ Less(inFlight, a, b)
    \/ /\ Same(inFlight, a, b)
       /\ Less(dispatched, a, b) \/ (Same(dispatched, a, b) /\ a < b)

Quicker(a, b) == Speed(a) < Speed(b) \/ (Speed(a) = Speed(b) /\ LessBusy(a, b))

ByPolicy(a, b) ==
    \/ policy = "cheapest" /\ a < b
    \/ policy = "fastest" /\ Quicker(a, b)
    \/ policy = "balanced" /\ LessBusy(a, b)

(* Mutant: the policy outranks the cost.                                   *)
PolicyFirst(a, b) == ByPolicy(a, b)

(* The keys of a come before the keys of b.                                *)
Before(a, b) == Rank(a) < Rank(b) \/ (Rank(a) = Rank(b) /\ ByPolicy(a, b))

(* The usable lanes, best first.  The keys end in the lane's number, so    *)
(* there is one such order.                                                *)
Orders ==
    { p \in [1..Cardinality(Usable) -> Usable] :
        \A i, j \in DOMAIN p : i < j => Before(p[i], p[j]) }

(* A mean latency is kept in hundredths: exact for the first three         *)
(* samples, rounded down after that.                                       *)
Rolled(mean, ms) ==
    IF mean = Untried THEN 100 * ms ELSE (7 * mean + 300 * ms) \div 10

Lowered(n) == IF n = 0 THEN 0 ELSE n - 1

(* settle(name, true, ms)                                                  *)
SettleOk(l, ms) ==
    /\ inFlight' = [inFlight EXCEPT ![l] = Lowered(@)]
    /\ succeeded' = [succeeded EXCEPT ![l] = @ + 1]
    /\ meanMs' = [meanMs EXCEPT ![l] = Rolled(@, ms)]
    /\ failedAt' = [failedAt EXCEPT ![l] = Never]
    /\ UNCHANGED <<dispatched, failed>>

-----------------------------------------------------------------------------
(* RoutingSearchProvider.search                                            *)

(* begin(name), and what the provider does before it first awaits.  load   *)
(* is inFlight as the walk left it.  A CLI listens for the abort from then *)
(* on, which a signal aborted already never sends; fetch looks first.      *)
Begin(s, walk, load) ==
    LET l == Head(walk.plan) IN
    /\ inFlight' = [load EXCEPT ![l] = @ + 1]
    /\ dispatched' = [dispatched EXCEPT ![l] = @ + 1]
    /\ search' = [search EXCEPT ![s] =
         [ walk EXCEPT !.pc = "running", !.since = now, !.spelling = 1,
                       !.ear = l \in Metered \/ ~Aborted(s) ]]

(* The walk goes on without its first lane, which is reported.             *)
Past(walk) ==
    [ Waiting EXCEPT !.at = walk.at, !.plan = Tail(walk.plan),
                     !.attempts = walk.attempts \union {Head(walk.plan)} ]

(* The call returns or throws.                                             *)
Done(how, walk, n) ==
    [ Waiting EXCEPT !.pc = how, !.attempts = walk.attempts, !.sources = n ]

(* Take the next lane of the order; only a metered one has a balance that  *)
(* must be awaited first.                                                  *)
Visit(s, walk, load) ==
    \/ /\ walk.plan = <<>>
       /\ search' = [search EXCEPT ![s] = Done("failed", walk, 0)]
       /\ inFlight' = load
       /\ UNCHANGED dispatched
    \/ /\ walk.plan # <<>> /\ Head(walk.plan) \in Metered
       /\ search' = [search EXCEPT ![s] = [walk EXCEPT !.pc = "probing"]]
       /\ inFlight' = load
       /\ UNCHANGED dispatched
    \/ /\ walk.plan # <<>> /\ Head(walk.plan) \notin Metered
       /\ Begin(s, walk, load)

Start(s) ==
    /\ search[s].pc = "waiting"
    /\ failedAt' = Forgotten
    /\ \E p \in Orders :
         Visit(s, [ Waiting EXCEPT !.at = now, !.plan = p, !.attempts = Lanes \ Usable ],
               inFlight)
    /\ UNCHANGED <<policy, now, succeeded, failed, meanMs, aborted>>

(* The balance is read: a lane known to be dry is skipped, and one whose   *)
(* balance is unknown is not.                                              *)
Balance(s) ==
    /\ search[s].pc = "probing"
    /\ \/ Visit(s, Past(search[s]), inFlight)
       \/ Begin(s, search[s], inFlight)
    /\ UNCHANGED <<policy, now, succeeded, failed, meanMs, failedAt, aborted>>

(* A lane that was told of the abort has nothing more to say.              *)
Hushed(s) == search[s].ear /\ Aborted(s)

Answer(s) ==
    /\ Running(s) /\ ~Hushed(s)
    /\ SettleOk(Lane(s), now - search[s].since)
    /\ \E n \in 0..MaxSources :
         search' = [search EXCEPT ![s] = Done("answered", @, n)]
    /\ UNCHANGED <<policy, now, aborted>>

(* A spelling of the command that cannot be spawned gives way to the next. *)
Respell(s) ==
    /\ Running(s) /\ ~Hushed(s)
    /\ Lane(s) \notin Metered /\ search[s].spelling < Spellings
    /\ search' = [search EXCEPT ![s].spelling = @ + 1, ![s].ear = ~Aborted(s)]
    /\ UNCHANGED <<policy, now, lanes, aborted>>

(* Mutant: the bench is counted from the start of the attempt.             *)
FaultFromStart(s) ==
    /\ Running(s) /\ ~Aborted(s)
    /\ failed' = [failed EXCEPT ![Lane(s)] = @ + 1]
    /\ failedAt' = [failedAt EXCEPT ![Lane(s)] = search[s].since]
    /\ Visit(s, Past(search[s]), [inFlight EXCEPT ![Lane(s)] = Lowered(@)])
    /\ UNCHANGED <<policy, now, succeeded, meanMs, aborted>>

(* The lane throws: a time limit, an exit code, no command by any          *)
(* spelling, an HTTP status.  Benched, and the walk goes on.               *)
Fault(s) ==
    /\ Running(s) /\ ~Aborted(s)
    /\ failed' = [failed EXCEPT ![Lane(s)] = @ + 1]
    /\ failedAt' = [failedAt EXCEPT ![Lane(s)] = now]
    /\ Visit(s, Past(search[s]), [inFlight EXCEPT ![Lane(s)] = Lowered(@)])
    /\ UNCHANGED <<policy, now, succeeded, meanMs, aborted>>

(* Mutant: an abandoned search is not settled.                             *)
WalksOut(s) ==
    /\ Running(s) /\ Aborted(s)
    /\ search' = [search EXCEPT ![s] = Done("aborted", @, 0)]
    /\ UNCHANGED <<policy, now, lanes, aborted>>

(* The lane throws to a caller that has aborted, killed for it or not.     *)
Abandon(s) ==
    /\ Running(s) /\ Aborted(s)
    /\ SettleOk(Lane(s), now - search[s].since)
    /\ search' = [search EXCEPT ![s] = Done("aborted", @, 0)]
    /\ UNCHANGED <<policy, now, aborted>>

Abort(g) ==
    /\ g \notin aborted
    /\ aborted' = aborted \union {g}
    /\ UNCHANGED <<policy, now, lanes, search>>

Tick ==
    /\ now < Horizon
    /\ now' = now + 1
    /\ UNCHANGED <<policy, lanes, aborted, search>>

(* What a search called already does next.                                 *)
Proceed(s) == Balance(s) \/ Answer(s) \/ Respell(s) \/ Fault(s) \/ Abandon(s)

Next ==
    \/ \E s \in Searches : Start(s) \/ Proceed(s)
    \/ \E g \in Signals : Abort(g)
    \/ Tick

(* Every lane returns: a CLI by its timer, a request by the limits of      *)
(* fetch.                                                                  *)
Spec == Init /\ [][Next]_vars /\ \A s \in Searches : WF_vars(Proceed(s))

-----------------------------------------------------------------------------
TypeOK ==
    /\ policy \in Policies /\ now \in 0..Horizon /\ aborted \subseteq Signals
    /\ inFlight \in [Lanes -> Nat] /\ dispatched \in [Lanes -> Nat]
    /\ succeeded \in [Lanes -> Nat] /\ failed \in [Lanes -> Nat]
    /\ meanMs \in [Lanes -> Nat \union {Untried}]
    /\ failedAt \in [Lanes -> 0..Horizon \union {Never}]
    /\ search \in [Searches -> Search]
    /\ \A s \in Searches : search[s].pc \in {"probing", "running"} => search[s].plan # <<>>

(* The counters of a lane are those of the searches that are really on it, *)
(* whatever way each search left it: begin() and settle() are paired on    *)
(* every path of search() (traffic.ts:243-279).                            *)
Accounted ==
    /\ TypeOK
    /\ \A l \in Lanes :
         /\ inFlight[l] = Cardinality(On(l))
         /\ dispatched[l] = inFlight[l] + succeeded[l] + failed[l]

(* A search is on a metered lane, or asks for its balance, only when every *)
(* included lane was blocked as it was ordered or has failed it since; and *)
(* a search fails only with every lane accounted for (traffic.ts:25-27).   *)
CostLeads ==
    \A s \in Searches :
        /\ search[s].pc \in {"probing", "running"} /\ Lane(s) \in Metered
             => Lanes \ Metered \subseteq search[s].attempts
        /\ search[s].pc = "failed" => search[s].attempts = Lanes

(* While a lane is benched, only searches ordered before its fault use it  *)
(* or have it still in their order: whatever lifts the bench early was     *)
(* begun by one of those (traffic.ts:258-270).                             *)
BenchStands ==
    \A s \in Searches, l \in Lanes :
        /\ failedAt[l] # Never
        /\ search[s].pc \in {"probing", "running"}
        /\ \E i \in DOMAIN search[s].plan : search[s].plan[i] = l
        => search[s].at <= failedAt[l]
=============================================================================
