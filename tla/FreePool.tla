------------------------------ MODULE FreePool ------------------------------
(***************************************************************************)
(* The proxy of free models: the catalogue it refreshes, the pool it       *)
(* rotates through with its benched models and their timers, the           *)
(* keep-alive loop, and the requests being served.                         *)
(*                                                                         *)
(* The proxy runs on one event loop, and its locks are held over no await: *)
(* an action is what runs between two awaits.  There is no clock: a sleep  *)
(* or a timer ends when it likes, and a model goes cold when it likes.     *)
(***************************************************************************)
EXTENDS Integers, Sequences, SequencesExt

CONSTANTS
    Models,     \* chat models the catalogue may list as free
    Requests,   \* requests that may be served at the same time
    KeepAlive,  \* the values of --keep-alive to consider
    MaxErrors,  \* MAX_CONSECUTIVE_ERRORS
    MaxRetries, \* MAX_RETRIES
    MaxTimers   \* bound: re-enable timers pending for one model

ASSUME PoolAssumption ==
    /\ KeepAlive \subseteq BOOLEAN
    /\ MaxErrors \in Nat \ {0} /\ MaxRetries \in Nat \ {0} /\ MaxTimers \in Nat \ {0}

VARIABLES
    listed,     \* Discovery._models: what the last refresh found free
    pooled,     \* WarmPool._states
    older,      \* the pairs of pooled models by last_used, the earlier first
    warm,       \* those used within the time to live
    benched,    \* those not is_healthy
    errors,     \* consecutive_errors, counted up to MaxErrors
    timers,     \* _re_enable tasks pending for each id
    keepAlive,  \* whether the keep-alive loop runs
    pinger,     \* the keep-alive loop
    req         \* the requests being served

pool == <<pooled, older, warm, benched, errors, timers>>
poolVars == <<listed, pool, keepAlive, pinger, req>>

AutoId == "proxy-auto"

(* said is history: the models whose payloads the client was sent.  An     *)
(* answer that is not streamed is one whose payloads wait for its success. *)
Request == [ pc : {"idle", "choosing", "sent", "backoff"}, pin : Models \union {AutoId},
             tried : SeqOf(Models, MaxRetries), said : SUBSET Models ]
Idle == [ pc |-> "idle", pin |-> AutoId, tried |-> <<>>, said |-> {} ]

(* The orders models may have been used in: no two at the same time.       *)
UseOrders(S) ==
    { R \in SUBSET (S \X S) :
        /\ \A m, n \in S : <<m, n>> \in R <=> m # n /\ <<n, m>> \notin R
        /\ \A m, n, o \in S : <<m, n>> \in R /\ <<n, o>> \in R => <<m, o>> \in R }

PoolTypeOK ==
    /\ listed \subseteq Models
    /\ pooled \subseteq Models /\ older \in UseOrders(pooled)
    /\ warm \subseteq pooled
    /\ benched \subseteq pooled
    /\ errors \in [Models -> 0..MaxErrors]
    /\ timers \in [Models -> 0..MaxTimers]
    /\ keepAlive \in BOOLEAN
    /\ pinger \in [ pc : {"asleep", "pinging"}, targets : SUBSET Models ]
    /\ req \in [Requests -> Request]

(* The catalogue is fetched and the pool built from it before the proxy    *)
(* serves; all of it counts as just used, in the order of the catalogue.   *)
PoolInit ==
    /\ listed \in SUBSET Models
    /\ pooled = listed
    /\ older \in UseOrders(listed)
    /\ warm = listed
    /\ benched = {}
    /\ errors = [m \in Models |-> 0]
    /\ timers = [m \in Models |-> 0]
    /\ keepAlive \in KeepAlive
    /\ pinger = [ pc |-> "asleep", targets |-> {} ]
    /\ req = [r \in Requests |-> Idle]

-----------------------------------------------------------------------------
(* Bookkeeping of the pool.                                                *)

(* The model counts as just used: every other one is older.                *)
Touched(m) == { p \in older : m \notin {p[1], p[2]} } \union ((pooled \ {m}) \X {m})

(* Mutant: the exclusion list is not consulted.                            *)
CandidatesAll(tried) == pooled \ benched

Candidates(tried) == pooled \ (benched \union ToSet(tried))

(* The warm candidates are preferred, when there are any.                  *)
Preferred(tried) ==
    IF Candidates(tried) \intersect warm = {} THEN Candidates(tried)
    ELSE Candidates(tried) \intersect warm

(* The least recently used of some models.                                 *)
Oldest(S) == { m \in S : \A n \in S \ {m} : <<m, n>> \in older }

(* Mutant: a model is benched and nothing is scheduled to bring it back.   *)
MarkErrorForGood(m, retryable) ==
    IF m \notin pooled THEN UNCHANGED <<benched, errors, timers>>
    ELSE LET n == IF errors[m] = MaxErrors THEN MaxErrors ELSE errors[m] + 1
         IN  /\ errors' = [errors EXCEPT ![m] = n]
             /\ benched' = IF ~retryable \/ n = MaxErrors THEN benched \union {m} ELSE benched
             /\ UNCHANGED timers

(* A model is benched at the third error in a row, or at once when the     *)
(* error was no passing one; each benching starts a timer of its own.      *)
MarkError(m, retryable) ==
    IF m \notin pooled THEN UNCHANGED <<benched, errors, timers>>
    ELSE LET n == IF errors[m] = MaxErrors THEN MaxErrors ELSE errors[m] + 1
         IN  /\ errors' = [errors EXCEPT ![m] = n]
             /\ IF ~retryable \/ n = MaxErrors
                THEN /\ timers[m] < MaxTimers
                     /\ timers' = [timers EXCEPT ![m] = @ + 1]
                     /\ benched' = benched \union {m}
                ELSE UNCHANGED <<timers, benched>>

MarkSuccess(m) ==
    errors' = IF m \in pooled THEN [errors EXCEPT ![m] = 0] ELSE errors

-----------------------------------------------------------------------------
(* Timers, age and the catalogue.                                          *)
ReEnable(m) ==
    /\ timers[m] > 0
    /\ timers' = [timers EXCEPT ![m] = @ - 1]
    /\ benched' = benched \ {m}
    /\ errors' = IF m \in pooled THEN [errors EXCEPT ![m] = 0] ELSE errors
    /\ UNCHANGED <<listed, pooled, older, warm, keepAlive, pinger, req>>

(* Time passes: the least recently used of the warm models goes cold.      *)
GoCold ==
    /\ \E m \in Oldest(warm) : warm' = warm \ {m}
    /\ UNCHANGED <<listed, pooled, older, benched, errors, timers, keepAlive, pinger, req>>

(* A refresh that fails changes nothing.                                   *)
Refresh ==
    /\ listed' \in SUBSET Models
    /\ UNCHANGED <<pool, keepAlive, pinger, req>>

-----------------------------------------------------------------------------
(* The keep-alive loop, when it was asked for: it wakes, pings the healthy *)
(* models that have not been used lately (all that are cold, and some that *)
(* soon will be), and rebuilds the pool from the catalogue.                *)
PingCold ==
    /\ keepAlive
    /\ pinger.pc = "asleep"
    /\ \E old \in SUBSET pooled :
         /\ pooled \ warm \subseteq old
         /\ old \X (pooled \ old) \subseteq older
         /\ pinger' = [ pc |-> "pinging", targets |-> old \ benched ]
    /\ UNCHANGED <<listed, pool, keepAlive, req>>

(* A ping answers or fails; a failed one counts, and benches nothing.      *)
Pinged(m) ==
    /\ m \in pinger.targets
    /\ pinger' = [pinger EXCEPT !.targets = @ \ {m}]
    /\ \/ /\ older' = Touched(m)
          /\ warm' = warm \union {m}
          /\ errors' = [errors EXCEPT ![m] = 0]
       \/ /\ errors' = [errors EXCEPT ![m] = IF @ = MaxErrors THEN @ ELSE @ + 1]
          /\ UNCHANGED <<older, warm>>
    /\ UNCHANGED <<listed, pooled, benched, timers, keepAlive, req>>

(* Mutant: models the catalogue dropped are kept.                          *)
StillListed == pooled

(* What the catalogue dropped leaves the pool.                             *)
Surviving == pooled \intersect listed

Rebuild ==
    /\ pinger.pc = "pinging" /\ pinger.targets = {}
    /\ pinger' = [pinger EXCEPT !.pc = "asleep"]
    /\ LET new == listed \ pooled
       IN  /\ pooled' = Surviving \union new
           /\ \E among \in UseOrders(new) :
                older' = (older \intersect (Surviving \X Surviving))
                           \union (Surviving \X new) \union among
           /\ warm' = (warm \intersect Surviving) \union new
    /\ benched' = benched \intersect Surviving
    /\ errors' = [m \in Models |-> IF m \in Surviving THEN errors[m] ELSE 0]
    /\ UNCHANGED <<listed, timers, keepAlive, req>>

-----------------------------------------------------------------------------
(* A request, from its arrival to the end of its answer.                   *)
Arrive(r, pin) ==
    /\ req[r].pc = "idle"
    /\ pin = AutoId \/ pin \in pooled
    /\ req' = [req EXCEPT ![r] =
                 [ pc |-> "choosing", pin |-> pin, tried |-> <<>>, said |-> {} ]]
    /\ UNCHANGED <<listed, pool, keepAlive, pinger>>

AttemptLeft(r) == Len(req[r].tried) < MaxRetries
Choosing(r) == req[r].pc \in {"choosing", "backoff"} /\ AttemptLeft(r)

Send(r, m) == req' = [req EXCEPT ![r].pc = "sent", ![r].tried = Append(@, m)]
Again(r, pc) == req' = [req EXCEPT ![r].pc = pc]
End(r) == req' = [req EXCEPT ![r] = Idle]

(* Mutant: a request pinned to a model that left the pool waits for it.    *)
AwaitPinned(r) ==
    LET m == req[r].pin
    IN  /\ Choosing(r)
        /\ m # AutoId /\ m \in pooled
        /\ Send(r, m)
        /\ UNCHANGED <<listed, pool, keepAlive, pinger>>

(* A pinned request keeps to its model, which the pool is asked for once   *)
(* more as the serving begins, and leaves no trace in the rotation.        *)
ChoosePinned(r) ==
    LET m == req[r].pin
    IN  /\ Choosing(r)
        /\ m # AutoId
        /\ IF req[r].tried = <<>> /\ m \notin pooled THEN End(r) ELSE Send(r, m)
        /\ UNCHANGED <<listed, pool, keepAlive, pinger>>

(* An auto request takes the next model, or fails when there is none left. *)
ChooseNext(r) ==
    /\ Choosing(r)
    /\ req[r].pin = AutoId
    /\ \/ /\ Candidates(req[r].tried) = {}
          /\ End(r)
          /\ UNCHANGED <<older, warm>>
       \/ \E m \in Oldest(Preferred(req[r].tried)) :
            /\ Send(r, m)
            /\ older' = Touched(m)
            /\ warm' = warm \union {m}
    /\ UNCHANGED <<listed, pooled, benched, errors, timers, keepAlive, pinger>>

(* The sleep after the last attempt is over: the request fails.            *)
Exhausted(r) ==
    /\ req[r].pc = "backoff" /\ ~AttemptLeft(r)
    /\ End(r)
    /\ UNCHANGED <<listed, pool, keepAlive, pinger>>

(* A payload of a streamed answer goes out to the client.                  *)
Emit(r) ==
    /\ req[r].pc = "sent"
    /\ req' = [req EXCEPT ![r].said = @ \union {Last(req[r].tried)}]
    /\ UNCHANGED <<listed, pool, keepAlive, pinger>>

Succeed(r) ==
    /\ req[r].pc = "sent"
    /\ MarkSuccess(Last(req[r].tried))
    /\ End(r)
    /\ UNCHANGED <<listed, pooled, older, warm, benched, timers, keepAlive, pinger>>

(* Rate limit, server error, timeout, refused connection: sleep, and try   *)
(* on when an attempt is left; an answer that has begun breaks off.        *)
FailForNow(r) ==
    /\ req[r].pc = "sent"
    /\ MarkError(Last(req[r].tried), TRUE)
    /\ IF req[r].said = {} THEN Again(r, "backoff") ELSE End(r)
    /\ UNCHANGED <<listed, pooled, older, warm, keepAlive, pinger>>

(* A refusal by status: the model is benched, an auto request tries on.    *)
FailForGood(r) ==
    /\ req[r].pc = "sent" /\ req[r].said = {}
    /\ MarkError(Last(req[r].tried), FALSE)
    /\ IF AttemptLeft(r) /\ req[r].pin = AutoId THEN Again(r, "choosing") ELSE End(r)
    /\ UNCHANGED <<listed, pooled, older, warm, keepAlive, pinger>>

(* An error no handler names, a connection dropped mid-answer say: the     *)
(* request fails and the model is not charged with it.                     *)
Break(r) ==
    /\ req[r].pc = "sent"
    /\ End(r)
    /\ UNCHANGED <<listed, pool, keepAlive, pinger>>

Upstream(r) == Succeed(r) \/ FailForNow(r) \/ FailForGood(r) \/ Break(r)
Choose(r) == ChoosePinned(r) \/ ChooseNext(r) \/ Exhausted(r)
Loop == PingCold \/ Rebuild

PoolNext ==
    \/ \E m \in Models : ReEnable(m)
    \/ GoCold \/ Refresh
    \/ Loop
    \/ \E m \in Models : Pinged(m)
    \/ \E r \in Requests :
         \/ \E pin \in Models \union {AutoId} : Arrive(r, pin)
         \/ Choose(r) \/ Emit(r) \/ Upstream(r)

(* The event loop runs every task that is ready: a sleep ends and a timer  *)
(* fires.  A call that is out is no ready task, and its timeouts bound one *)
(* read or write of it, never the whole: of its end nothing is assumed.    *)
Fairness ==
    /\ \A m \in Models : WF_poolVars(ReEnable(m))
    /\ WF_poolVars(Loop)
    /\ \A r \in Requests : WF_poolVars(Choose(r))

PoolSpec == PoolInit /\ [][PoolNext]_poolVars /\ Fairness

-----------------------------------------------------------------------------
(* What a client reads of one answer comes from one model: a model is only *)
(* swapped out before any payload has gone out.                            *)
OneVoice == \A r \in Requests : \A m, n \in req[r].said : m = n

(* An auto request never goes to the same model twice, benched and brought *)
(* back in between or not.                                                 *)
NeverTwice ==
    \A r \in Requests : req[r].pin = AutoId =>
        \A i, j \in DOMAIN req[r].tried : req[r].tried[i] = req[r].tried[j] => i = j

(* No model is benched without a timer that will bring it back.            *)
Scheduled == \A m \in benched : timers[m] > 0

(* What holds of every request and of every bench, whatever the pool does  *)
(* around them.                                                            *)
RequestsOK == PoolTypeOK /\ OneVoice /\ NeverTwice /\ Scheduled

(* No model stays benched for good: whatever failed while its timer ran,   *)
(* and whether it left the pool and came back meanwhile, it is re-enabled. *)
BenchedComesBack ==
    \A m \in Models : m \in benched ~> m \notin benched

(* A request whose calls end is answered or failed: its retries and its    *)
(* sleeps, a model that leaves the pool, an empty pool or a broken stream  *)
(* never leave it hanging.  It can hang in a call alone: an upstream that  *)
(* sends a line now and then, one that is no payload included, or a client *)
(* that leaves what it is sent unread is within every timeout there is.    *)
RequestsEnd ==
    \A r \in Requests :
        []<>(req[r].pc # "sent") => (req[r].pc # "idle" ~> req[r].pc = "idle")

(* With the keep-alive loop, and rounds of pings that end, a model the     *)
(* catalogue dropped leaves the pool, unless it is listed again before the *)
(* loop comes round.  A ping kept open holds the loop up.                  *)
DroppedLeaves ==
    \A m \in Models :
        []<>(pinger.targets = {}) =>
            (keepAlive /\ m \notin listed ~> m \in listed \/ m \notin pooled)
=============================================================================
