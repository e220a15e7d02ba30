--------------------------- MODULE EdgeProofs -----------------------------
(***************************************************************************)
(* What the council meets at its edges.                                    *)
(*                                                                         *)
(* The calls to a seat, for any seats, limits and number of calls: what a  *)
(* call holds while it is under way, that it lets go of all of it, and     *)
(* that it takes no longer than its cap.  The proxy of free models a       *)
(* hosted seat may be pointed at, for any models, requests and limits.     *)
(* And the control in the browser, for any chains, clocks and mounts: that *)
(* it sends nothing unasked twice.                                         *)
(***************************************************************************)
EXTENDS SeatCall, FreePool, PipelinePanel, TLAPS

Spawning == {"spawning", "starting"}
Requesting == {"connecting", "refused", "whole", "stream"}

(* A call of a command is in a state of commands, one of a hosted seat in  *)
(* a state of requests; and no call is made before the probe is over.      *)
Tracks ==
    /\ pc \in {"start", "probing"} => made = 0
    /\ pc = "probing" => held = {"socket"}
    /\ pc \in Spawning \union {"child"} => seat.transport = "cli"
    /\ pc \in Requesting => seat.transport = "openrouter"

(* The time a call has taken and the time it has left are its cap, and     *)
(* what it took after an abort is nothing or, for a command begun under    *)
(* it, all.                                                                *)
Timed ==
    /\ pc \in Spawning => spent = 0
    /\ pc = "starting" => left = Cap
    /\ pc \in Requesting \union {"child"} => spent + left = Cap
    /\ pc \in Spawning \union Requesting => late = 0
    /\ pc = "child" => late = IF aborted THEN spent ELSE 0

IInv == AtRest /\ Tracks /\ Timed /\ InTime

-----------------------------------------------------------------------------
LEMMA CapIsPositive == ASSUME seat \in SeatConfigs PROVE Cap \in Nat \ {0}
<1> QED BY SeatAssumption DEF Cap, SeatConfig

LEMMA SpellingsAreSome == ASSUME seat \in SeatConfigs PROVE seat.spellings \in Nat \ {0}
<1>1. seat \in SeatConfig
      BY SeatAssumption
<1> QED BY <1>1 DEF SeatConfig

LEMMA Initially == Init => IInv
<1> SUFFICES ASSUME Init PROVE IInv
    OBVIOUS
<1>1. seat \in SeatConfigs /\ seat.spellings \in Nat
      BY SeatAssumption DEF Init, SeatConfig
<1>2. {heard, aborted} \subseteq BOOLEAN
      BY Zenon DEF Init
<1>3. reply \in [text : BOOLEAN, error : Errors]
      BY DEF Init, NoReply, Errors
<1>4. made \in 0..Calls /\ spelling \in 0..seat.spellings
      BY <1>1, SeatAssumption DEF Init
<1>5. TypeOK
      BY <1>1, <1>2, <1>3, <1>4 DEF Init, TypeOK
<1> QED BY <1>5 DEF Init, IInv, AtRest, Tracks, Timed, InTime, Spawning, Requesting

(* What is true of a seat at rest is kept by any return that says why      *)
(* there is no text.                                                       *)
LEMMA ReturnKeeps ==
    ASSUME IInv, reply' \in [text : BOOLEAN, error : Errors], held' = {}, pc' = "ready",
           reply'.error # "none" \/ reply'.text \/ seat.transport = "cli",
           made' \in 0..Calls, aborted' \in BOOLEAN, heard' \in BOOLEAN,
           UNCHANGED <<seat, spelling, left, quiet>>,
           spent' \in Nat, late' \in Nat,
           made' > 0 => spent' <= Cap /\ (late' > 0 => seat.transport = "cli" /\ late' = spent')
    PROVE  IInv'
<1>1. TypeOK'
      BY DEF IInv, AtRest, TypeOK
<1>2. AtRest'
      BY <1>1 DEF AtRest
<1>3. Cap' = Cap
      BY DEF Cap
<1> QED BY <1>2, <1>3 DEF IInv, Tracks, Timed, InTime, Spawning, Requesting

-----------------------------------------------------------------------------
(* The probe, and the start of a call.                                     *)

LEMMA ProbeKeeps ==
    ASSUME IInv, Probe \/ ProbeTimesOut \/ \E next \in {"ready", "over"} : Probed(next)
    PROVE  IInv'
<1>1. Cap' = Cap
      BY DEF Cap, Probe, Probed, ProbeTimesOut
<1>2. CASE Probe
      <2>1. TypeOK'
            BY <1>2, SeatAssumption DEF IInv, AtRest, TypeOK, Probe
      <2>2. made' = 0
            BY <1>2 DEF IInv, Tracks, Probe
      <2> QED BY <1>2, <2>1, <2>2
              DEF IInv, AtRest, Tracks, Timed, InTime, Probe, Spawning, Requesting
<1>3. ASSUME NEW next \in {"ready", "over"}, Probed(next)
      PROVE  IInv'
      <2>1. TypeOK'
            BY <1>3 DEF IInv, AtRest, TypeOK, Probed
      <2>2. made' = 0
            BY <1>3 DEF IInv, Tracks, Probed
      <2> QED BY <1>3, <2>1, <2>2
              DEF IInv, AtRest, Tracks, Timed, InTime, Probed, Spawning, Requesting
<1> QED BY <1>2, <1>3 DEF ProbeTimesOut

LEMMA AskKeeps == ASSUME IInv, Ask PROVE IInv'
<1>1. seat \in SeatConfigs /\ Cap \in Nat \ {0} /\ Cap' = Cap /\ seat' = seat
      BY CapIsPositive DEF IInv, AtRest, TypeOK, Ask, Cap
<1>2. made' \in 0..Calls /\ spent' = 0 /\ late' = 0 /\ UNCHANGED aborted
      BY SeatAssumption DEF IInv, AtRest, TypeOK, Ask
<1>3. heard' = FALSE
      BY Zenon DEF Ask
<1>4. heard' \in BOOLEAN /\ aborted' \in BOOLEAN
      BY <1>2, <1>3 DEF IInv, AtRest, TypeOK
<1>5. CASE Return(FALSE, "unconfigured") /\ UNCHANGED <<spelling, left>>
      <2>1. reply' = [text |-> FALSE, error |-> "unconfigured"] /\ held' = {} /\ pc' = "ready"
            BY <1>5 DEF Return
      <2>2. UNCHANGED <<seat, spelling, left, quiet>>
            BY <1>5 DEF Ask
      <2>3. reply' \in [text : BOOLEAN, error : Errors] /\ reply'.error # "none"
            BY <2>1 DEF Errors
      <2> QED BY <1>1, <1>2, <1>4, <2>1, <2>2, <2>3, ReturnKeeps
<1>6. CASE /\ seat.transport = "cli" /\ pc' = "spawning" /\ spelling' = 1
           /\ UNCHANGED <<held, left, reply>>
      <2>1. spelling' \in 0..seat.spellings
            BY <1>1, <1>6, SpellingsAreSome
      <2>2. TypeOK'
            BY <1>1, <1>2, <1>4, <1>6, <2>1 DEF IInv, AtRest, TypeOK, Ask
      <2>3. held' = {}
            BY <1>6 DEF IInv, AtRest, Ask
      <2> QED BY <1>1, <1>2, <1>6, <2>2, <2>3
              DEF IInv, AtRest, Tracks, Timed, InTime, Spawning, Requesting
<1>7. CASE /\ seat.transport = "openrouter" /\ pc' = "connecting"
           /\ held' = {"request"} /\ left' = Cap
           /\ UNCHANGED <<spelling, reply>>
      <2>1. TypeOK'
            BY <1>1, <1>2, <1>4, <1>7 DEF IInv, AtRest, TypeOK, Ask
      <2> QED BY <1>1, <1>2, <1>7, <2>1
              DEF IInv, AtRest, Tracks, Timed, InTime, Spawning, Requesting
<1> QED BY <1>5, <1>6, <1>7 DEF Ask

-----------------------------------------------------------------------------
(* The command of a seat.                                                  *)

LEMMA SpawnKeeps == ASSUME IInv, Spawn PROVE IInv'
<1>1. Cap \in Nat \ {0} /\ Cap' = Cap
      BY CapIsPositive DEF IInv, AtRest, TypeOK, Spawn, Cap
<1>2. heard' = FALSE
      BY Zenon DEF Spawn
<1>3. heard' \in BOOLEAN /\ aborted' \in BOOLEAN
      BY <1>2 DEF IInv, AtRest, TypeOK, Spawn
<1>4. TypeOK'
      BY <1>1, <1>3 DEF IInv, AtRest, TypeOK, Spawn
<1> QED BY <1>1, <1>4
        DEF IInv, AtRest, Tracks, Timed, InTime, Spawn, Spawning, Requesting

(* A command that is not there, or cannot be started, took no time.        *)
LEMMA MissingKeeps == ASSUME IInv, Missing \/ CannotStart PROVE IInv'
<1>1. Cap \in Nat \ {0} /\ Cap' = Cap
      BY CapIsPositive DEF IInv, AtRest, TypeOK, Missing, CannotStart, Cap
<1>2. /\ UNCHANGED <<seat, made, left, quiet, heard, aborted, spent, late>>
      /\ spent = 0 /\ late = 0 /\ seat.transport = "cli"
      BY DEF IInv, Tracks, Timed, Missing, CannotStart, Spawning
<1>3. made' \in 0..Calls /\ heard' \in BOOLEAN /\ aborted' \in BOOLEAN
      BY <1>2 DEF IInv, AtRest, TypeOK
<1>4. CASE /\ Missing /\ pc' = "spawning" /\ spelling' = spelling + 1
           /\ held' = {} /\ UNCHANGED reply /\ spelling < seat.spellings
      <2>1. seat.spellings \in Nat
            BY SpellingsAreSome DEF IInv, AtRest, TypeOK
      <2>2. spelling' \in 0..seat'.spellings
            BY <1>2, <1>4, <2>1 DEF IInv, AtRest, TypeOK
      <2>3. TypeOK'
            BY <1>2, <1>3, <1>4, <2>2 DEF IInv, AtRest, TypeOK
      <2> QED BY <1>1, <1>2, <1>4, <2>3
              DEF IInv, AtRest, Tracks, Timed, InTime, Spawning, Requesting
<1>5. ASSUME NEW error \in {"missing", "spawn"}, Return(FALSE, error), UNCHANGED spelling
      PROVE  IInv'
      <2>1. reply' = [text |-> FALSE, error |-> error] /\ held' = {} /\ pc' = "ready"
            BY <1>5 DEF Return
      <2>2. reply' \in [text : BOOLEAN, error : Errors] /\ reply'.error # "none"
            BY <2>1 DEF Errors
      <2> QED BY <1>1, <1>2, <1>3, <1>5, <2>1, <2>2, ReturnKeeps
<1> QED BY <1>4, <1>5 DEF Missing, CannotStart

LEMMA ChildKeeps == ASSUME IInv, Started \/ Prints PROVE IInv'
<1>1. Cap \in Nat \ {0} /\ Cap' = Cap
      BY CapIsPositive DEF IInv, AtRest, TypeOK, Started, Prints, Cap
<1>2. CASE Started
      <2>1. TypeOK'
            BY <1>2 DEF IInv, AtRest, TypeOK, Started
      <2>2. spent = 0 /\ late = 0 /\ left = Cap
            BY <1>2 DEF IInv, Timed, Started, Spawning
      <2> QED BY <1>1, <1>2, <2>1, <2>2
              DEF IInv, AtRest, Tracks, Timed, InTime, Started, Spawning, Requesting
<1>3. CASE Prints
      <2>1. heard' = TRUE
            BY <1>3, Zenon DEF Prints
      <2>2. TypeOK'
            BY <1>3, <2>1 DEF IInv, AtRest, TypeOK, Prints
      <2> QED BY <1>1, <1>3, <2>2
              DEF IInv, AtRest, Tracks, Timed, InTime, Prints, Spawning, Requesting
<1> QED BY <1>2, <1>3

(* What a call that is under way may return with: the time it has taken is *)
(* within its cap.                                                         *)
LEMMA WithinCap ==
    ASSUME IInv, pc \in Requesting \union {"child"}
    PROVE  spent <= Cap /\ (late > 0 => seat.transport = "cli" /\ late = spent)
<1>1. Cap \in Nat
      BY CapIsPositive DEF IInv, AtRest, TypeOK
<1>2. spent + left = Cap /\ left \in Nat /\ spent \in Nat
      BY DEF IInv, Timed, AtRest, TypeOK
<1>3. late > 0 => pc = "child" /\ late = spent
      BY DEF IInv, Timed, Requesting
<1> QED BY <1>1, <1>2, <1>3 DEF IInv, Tracks

LEMMA EndsKeep == ASSUME IInv, Exits \/ TimesOut PROVE IInv'
<1>1. PICK error \in {"none", "exit", "timed out"} : Return(heard, error)
      BY DEF Exits, TimesOut
<1>2. /\ UNCHANGED <<seat, made, spelling, left, quiet, heard, aborted, spent, late>>
      /\ pc = "child"
      BY DEF Exits, TimesOut
<1>3. reply' = [text |-> heard, error |-> error] /\ held' = {} /\ pc' = "ready"
      BY <1>1 DEF Return
<1>4. reply' \in [text : BOOLEAN, error : Errors]
      BY <1>2, <1>3 DEF Errors, IInv, AtRest, TypeOK
<1>5. seat.transport = "cli"
      BY <1>2 DEF IInv, Tracks
<1>6. made' \in 0..Calls /\ heard \in BOOLEAN /\ aborted' \in BOOLEAN /\ heard' \in BOOLEAN
      BY <1>2 DEF IInv, AtRest, TypeOK
<1>7. spent' \in Nat /\ late' \in Nat
      BY <1>2 DEF IInv, AtRest, TypeOK
<1>8. spent' <= Cap /\ (late' > 0 => seat.transport = "cli" /\ late' = spent')
      BY <1>2, WithinCap
<1> QED BY <1>2, <1>3, <1>4, <1>5, <1>6, <1>7, <1>8, ReturnKeeps

-----------------------------------------------------------------------------
(* The request of a hosted seat.                                           *)

LEMMA RespondsKeeps == ASSUME IInv, Responds \/ Chunk PROVE IInv'
<1>1. Cap' = Cap /\ seat.idle \in Nat
      BY SeatAssumption DEF IInv, AtRest, TypeOK, SeatConfig, Responds, Chunk, Cap
<1>2. CASE Responds
      <2>1. TypeOK'
            BY <1>1, <1>2 DEF IInv, AtRest, TypeOK, Responds
      <2> QED BY <1>1, <1>2, <2>1
              DEF IInv, AtRest, Tracks, Timed, InTime, Responds, Spawning, Requesting
<1>3. CASE Chunk
      <2>1. heard \in BOOLEAN
            BY DEF IInv, AtRest, TypeOK
      <2>2. heard' \in BOOLEAN
            BY <1>3, <2>1, Zenon DEF Chunk
      <2>3. TypeOK'
            BY <1>1, <1>3, <2>2 DEF IInv, AtRest, TypeOK, Chunk
      <2> QED BY <1>1, <1>3, <2>3
              DEF IInv, AtRest, Tracks, Timed, InTime, Chunk, Spawning, Requesting
<1> QED BY <1>2, <1>3

(* Nothing a request returns is empty and well.                            *)
LEMMA RequestEnds == ASSUME IInv, Arrives \/ Refuses \/ Breaks \/ Cut PROVE IInv'
<1>1. /\ UNCHANGED <<seat, made, spelling, left, quiet, aborted, spent, late>>
      /\ pc \in Requesting
      BY DEF Arrives, Refuses, Breaks, Cut, IInv, AtRest, Requesting, TypeOK, Tracks
<1>2. heard \in BOOLEAN
      BY DEF IInv, AtRest, TypeOK
<1>3. heard' \in BOOLEAN
      <2>1. CASE heard' \in {heard} \union BOOLEAN
            BY <1>2, <2>1
      <2>2. Arrives => heard' \in {heard} \union BOOLEAN
            BY Zenon DEF Arrives
      <2>3. Refuses \/ Breaks \/ Cut => heard' = heard
            BY Zenon DEF Refuses, Breaks, Cut
      <2> QED BY <2>1, <2>2, <2>3
<1>4. held' = {} /\ pc' = "ready"
      BY DEF Arrives, Refuses, Breaks, Cut, Return
<1>5. reply' \in [text : BOOLEAN, error : Errors] /\ (reply'.error # "none" \/ reply'.text)
      <2>1. CASE Arrives
            BY <1>3, <2>1 DEF Arrives, Return, Errors
      <2>2. CASE Refuses \/ Breaks \/ Cut
            <3>1. PICK error \in {"http", "failed"} : reply' = [text |-> FALSE, error |-> error]
                  BY <2>2 DEF Refuses, Breaks, Cut, Return
            <3> QED BY <3>1 DEF Errors
      <2> QED BY <2>1, <2>2
<1>6. made' \in 0..Calls /\ aborted' \in BOOLEAN /\ spent' \in Nat /\ late' \in Nat
      BY <1>1 DEF IInv, AtRest, TypeOK
<1>7. spent' <= Cap /\ (late' > 0 => seat.transport = "cli" /\ late' = spent')
      BY <1>1, WithinCap
<1> QED BY <1>1, <1>3, <1>4, <1>5, <1>6, <1>7, ReturnKeeps

-----------------------------------------------------------------------------
(* The abort and the clock.                                                *)

LEMMA AbortKeeps == ASSUME IInv, Abort PROVE IInv'
<1>1. UNCHANGED <<seat, made, spelling, left, quiet, heard, spent, late>> /\ ~aborted
      BY DEF Abort
<1>2. aborted' = TRUE
      BY Zenon DEF Abort
<1>3. aborted' \in BOOLEAN /\ made' \in 0..Calls /\ heard' \in BOOLEAN /\ heard \in BOOLEAN
      BY <1>1, <1>2 DEF IInv, AtRest, TypeOK
<1>4. Cap' = Cap /\ Cap \in Nat \ {0}
      BY <1>1, CapIsPositive DEF Cap, IInv, AtRest, TypeOK
<1>5. CASE "listener" \in held /\ Return(heard, "aborted")
      <2>1. reply' = [text |-> heard, error |-> "aborted"] /\ held' = {} /\ pc' = "ready"
            BY <1>5 DEF Return
      <2>2. reply' \in [text : BOOLEAN, error : Errors] /\ reply'.error # "none"
            BY <1>3, <2>1 DEF Errors
      <2>3. pc \in {"starting", "child"}
            BY <1>5 DEF IInv, AtRest, TypeOK, Tracks
      <2>4. spent' \in Nat /\ late' \in Nat
            BY <1>1 DEF IInv, AtRest, TypeOK
      <2>5. spent' <= Cap /\ late' = 0
            BY <1>1, <1>4, <2>3, WithinCap DEF IInv, Timed, Spawning
      <2> QED BY <1>1, <1>3, <2>1, <2>2, <2>4, <2>5, ReturnKeeps
<1>6. CASE "listener" \notin held /\ UNCHANGED <<reply, held, pc>>
      <2>1. TypeOK'
            BY <1>1, <1>3, <1>6 DEF IInv, AtRest, TypeOK
      <2>2. pc # "child"
            BY <1>6 DEF IInv, AtRest
      <2> QED BY <1>1, <1>4, <1>6, <2>1, <2>2
              DEF IInv, AtRest, Tracks, Timed, InTime, Spawning, Requesting
<1> QED BY <1>5, <1>6 DEF Abort

LEMMA TickKeeps == ASSUME IInv, Tick PROVE IInv'
<1>1. UNCHANGED <<seat, pc, made, spelling, held, heard, aborted, reply>>
      BY DEF Tick
<1>2. Cap' = Cap /\ Cap \in Nat \ {0}
      BY <1>1, CapIsPositive DEF Cap, IInv, AtRest, TypeOK
<1>3. /\ left' = left - 1 /\ left \in Nat \ {0}
      /\ spent' = spent + 1 /\ spent \in Nat
      BY DEF Tick, Due, IInv, AtRest, TypeOK
<1>4. quiet' \in Nat
      <2>1. "idle" \in held => "request" \in held /\ quiet # 0
            BY DEF Tick, Due, Fired, IInv, AtRest, TypeOK, Tracks
      <2> QED BY <2>1 DEF Tick, IInv, AtRest, TypeOK
<1>5. late' = (IF aborted THEN late + 1 ELSE late) /\ late' \in Nat
      BY DEF Tick, IInv, AtRest, TypeOK
<1>6. TypeOK'
      BY <1>1, <1>3, <1>4, <1>5 DEF IInv, AtRest, TypeOK
<1>7. AtRest'
      BY <1>1, <1>6 DEF IInv, AtRest
<1>8. pc \in Requesting => ~aborted
      BY DEF Tick, Due, Fired, IInv, AtRest, Requesting
<1>9. pc \in {"probing"} \union Requesting \union {"child"}
      BY DEF Tick, Requesting
<1>10. Tracks'
      BY <1>1 DEF IInv, Tracks
<1>11. Timed'
      BY <1>1, <1>2, <1>3, <1>5, <1>8, <1>9 DEF IInv, Timed, Spawning, Requesting
<1>12. InTime'
      <2>1. CASE pc = "probing"
            BY <1>1, <2>1 DEF IInv, Tracks, InTime
      <2>2. CASE pc \in Requesting \union {"child"}
            <3>1. spent' <= Cap'
                  BY <1>2, <1>3, <2>2 DEF IInv, Timed
            <3>2. late' > 0 => seat.transport = "cli" /\ late' = spent'
                  BY <1>1, <1>3, <1>5, <1>8, <2>2 DEF IInv, Timed, Tracks, Requesting
            <3> QED BY <1>1, <3>1, <3>2 DEF InTime
      <2> QED BY <1>9, <2>1, <2>2
<1> QED BY <1>7, <1>10, <1>11, <1>12 DEF IInv

-----------------------------------------------------------------------------
(* The inductive invariant: what a call holds follows from where it is,    *)
(* and the time it took and the time it has left add up to its cap.        *)
THEOREM Inductive == Spec => []IInv
<1>1. Init => IInv
      BY Initially
<1>2. IInv /\ [Next]_vars => IInv'
      <2> SUFFICES ASSUME IInv, [Next]_vars PROVE IInv'
          OBVIOUS
      <2>1. CASE Probe \/ ProbeTimesOut \/ \E next \in {"ready", "over"} : Probed(next)
            BY <2>1, ProbeKeeps
      <2>2. CASE Ask
            BY <2>2, AskKeeps
      <2>3. CASE Spawn
            BY <2>3, SpawnKeeps
      <2>4. CASE Missing \/ CannotStart
            BY <2>4, MissingKeeps
      <2>5. CASE Started \/ Prints
            BY <2>5, ChildKeeps
      <2>6. CASE Exits \/ TimesOut
            BY <2>6, EndsKeep
      <2>7. CASE Responds \/ Chunk
            BY <2>7, RespondsKeeps
      <2>8. CASE Arrives \/ Refuses \/ Breaks \/ Cut
            BY <2>8, RequestEnds
      <2>9. CASE Abort
            BY <2>9, AbortKeeps
      <2>10. CASE Tick
            BY <2>10, TickKeeps
      <2>11. CASE UNCHANGED vars
            <3>1. Cap' = Cap
                  BY <2>11 DEF vars, Cap
            <3> QED BY <2>11, <3>1
                    DEF vars, IInv, AtRest, TypeOK, Tracks, Timed, InTime, Spawning, Requesting
      <2> QED BY <2>1, <2>2, <2>3, <2>4, <2>5, <2>6, <2>7, <2>8, <2>9, <2>10, <2>11
              DEF Next, Own, Others
<1> QED BY <1>1, <1>2, PTL DEF Spec

(* No child, timer, listener, socket or request outlives the call it was   *)
(* for, while a call is under way what can end it is in place, and a reply *)
(* without text says why unless a command ended well and printed nothing   *)
(* (seats.ts:461-484, 777-799, 889-944).                                   *)
THEOREM NothingIsLeft == Spec => []AtRest
<1>1. IInv => AtRest
      BY DEF IInv
<1> QED BY <1>1, Inductive, PTL

(* A call ends within its cap whatever spellings were tried and whatever   *)
(* keeps its stream alive, and only a command begun under an abort goes on *)
(* after one (seats.ts:474-482, 641-643, 973).                             *)
THEOREM CapHolds == Spec => []InTime
<1>1. IInv => InTime
      BY DEF IInv
<1> QED BY <1>1, Inductive, PTL
-----------------------------------------------------------------------------
(* The proxy of free models.                                               *)

NoRepeats(t) == \A i, j \in DOMAIN t : t[i] = t[j] => i = j

(* A request: while it chooses or sleeps nothing was said, once it is sent *)
(* only the model it was last sent to has spoken.                          *)
Kept(w) ==
    /\ w \in Request
    /\ w.pc = "idle" => w.tried = <<>> /\ w.said = {}
    /\ w.pc \in {"choosing", "backoff"} => w.said = {}
    /\ w.pc = "sent" => w.tried # <<>> /\ w.said \subseteq {Last(w.tried)}
    /\ w.pin = AutoId => NoRepeats(w.tried)

(* The loop only pings models of the pool: it rebuilds it afterwards.      *)
PoolIInv ==
    /\ PoolTypeOK /\ Scheduled
    /\ pinger.targets \subseteq pooled
    /\ \A r \in Requests : Kept(req[r])

LEMMA PoolImplies == PoolIInv => RequestsOK
<1> SUFFICES ASSUME PoolIInv PROVE RequestsOK
    OBVIOUS
<1>1. ASSUME NEW r \in Requests PROVE \A m, n \in req[r].said : m = n
  <2>1. Kept(req[r]) /\ req[r] \in Request
        BY DEF PoolIInv, Kept
  <2>2. req[r].said = {} \/ req[r].said \subseteq {Last(req[r].tried)}
        BY <2>1 DEF Kept, Request
  <2> QED
      BY <2>2
<1>2. NeverTwice
      BY DEF PoolIInv, Kept, NeverTwice, NoRepeats
<1> QED
    BY <1>1, <1>2 DEF RequestsOK, OneVoice, PoolIInv

-----------------------------------------------------------------------------
(* What was tried.                                                         *)
LEMMA TriedIs ==
    ASSUME NEW S, NEW n \in Nat, NEW t
    PROVE  t \in SeqOf(S, n) <=> t \in Seq(S) /\ Len(t) <= n
<1>1. ASSUME t \in SeqOf(S, n) PROVE t \in Seq(S) /\ Len(t) <= n
  <2>1. PICK m \in 0..n : t \in [1..m -> S]
        BY <1>1 DEF SeqOf
  <2> QED
      BY <2>1
<1>2. ASSUME t \in Seq(S), Len(t) <= n PROVE t \in SeqOf(S, n)
  <2>1. Len(t) \in 0..n /\ t \in [1..Len(t) -> S]
        BY <1>2
  <2> QED
      BY <2>1 DEF SeqOf
<1> QED
    BY <1>1, <1>2

LEMMA IdleIsKept == Kept(Idle)
<1>1. <<>> \in SeqOf(Models, MaxRetries)
  <2>1. <<>> \in Seq(Models) /\ Len(<<>>) <= MaxRetries /\ MaxRetries \in Nat
        BY PoolAssumption
  <2> HIDE DEF SeqOf
  <2> QED
      BY <2>1, TriedIs
<1> QED
    BY <1>1 DEF Kept, Idle, Request, NoRepeats, AutoId

LEMMA SentIsKept ==
    ASSUME NEW w, Kept(w), w.pc \in {"choosing", "backoff"}, Len(w.tried) < MaxRetries,
           NEW m \in Models,
           w.pin = AutoId => m \notin ToSet(w.tried)
    PROVE  Kept([ pc |-> "sent", pin |-> w.pin, tried |-> Append(w.tried, m), said |-> {} ])
<1> DEFINE t == w.tried
           u == Append(t, m)
<1>1. w \in Request /\ w.said = {} /\ Len(t) < MaxRetries /\ t \in SeqOf(Models, MaxRetries)
      BY DEF Kept, Request
<1>2. t \in Seq(Models) /\ MaxRetries \in Nat
      BY <1>1, TriedIs, PoolAssumption
<1>3. /\ u \in Seq(Models) /\ Len(u) = Len(t) + 1 /\ u # <<>>
      /\ DOMAIN u = 1..Len(t) + 1 /\ DOMAIN t = 1..Len(t) /\ Len(t) \in Nat
      /\ u[Len(t) + 1] = m /\ \A i \in DOMAIN t : u[i] = t[i]
      BY <1>2
<1>4. u \in SeqOf(Models, MaxRetries)
  <2>1. u \in Seq(Models) /\ Len(u) <= MaxRetries
        BY <1>1, <1>2, <1>3
  <2> HIDE DEF u
  <2> QED
      BY <1>2, <2>1, TriedIs
<1>5. w.pin = AutoId => NoRepeats(u)
  <2> SUFFICES ASSUME w.pin = AutoId PROVE NoRepeats(u)
      OBVIOUS
  <2>1. NoRepeats(t) /\ \A i \in DOMAIN t : t[i] # m
        BY DEF Kept, ToSet
  <2> QED
      BY <1>3, <2>1 DEF NoRepeats
<1> DEFINE v == [ pc |-> "sent", pin |-> w.pin, tried |-> u, said |-> {} ]
<1>6. v.pc = "sent" /\ v.pin = w.pin /\ v.tried = u /\ v.said = {}
      OBVIOUS
<1> HIDE DEF u
<1>7. v \in Request
      BY <1>1, <1>4 DEF Request
<1> HIDE DEF v
<1>8. Kept(v)
      BY <1>3, <1>5, <1>6, <1>7 DEF Kept
<1> QED
    BY <1>8 DEF v, u

LEMMA RetryIsKept ==
    ASSUME NEW w, Kept(w), w.said = {}, NEW pc1 \in {"choosing", "backoff"}
    PROVE  Kept([w EXCEPT !.pc = pc1])
BY DEF Kept, Request

LEMMA SpokenIsKept ==
    ASSUME NEW w, Kept(w), w.pc = "sent"
    PROVE  Kept([w EXCEPT !.said = @ \union {Last(w.tried)}]) /\ Last(w.tried) \in Models
<1>1. w.tried \in Seq(Models) /\ w.tried # <<>> /\ w \in Request
      BY TriedIs, PoolAssumption DEF Kept, Request
<1>2. Last(w.tried) \in Models
      BY <1>1 DEF Last
<1> QED
    BY <1>1, <1>2 DEF Kept, Request

-----------------------------------------------------------------------------
(* The order of last use.                                                  *)
LEMMA TouchedIsOrder ==
    ASSUME older \in UseOrders(pooled), NEW m \in pooled
    PROVE  Touched(m) \in UseOrders(pooled)
<1>1. \A a, b : <<a, b>> \in Touched(m) <=> \/ <<a, b>> \in older /\ a # m /\ b # m
                                            \/ a \in pooled /\ a # m /\ b = m
      BY DEF Touched, UseOrders
<1>2. Touched(m) \in SUBSET (pooled \X pooled)
      BY DEF Touched, UseOrders
<1> HIDE DEF Touched
<1> QED
    BY <1>1, <1>2 DEF UseOrders

LEMMA JoinedIsOrder ==
    ASSUME NEW S, NEW T, NEW U, NEW R \in UseOrders(S), NEW Q \in UseOrders(U),
           T \subseteq S, S \intersect U = {}
    PROVE  (R \intersect (T \X T)) \union (T \X U) \union Q \in UseOrders(T \union U)
<1> DEFINE J == (R \intersect (T \X T)) \union (T \X U) \union Q
<1>1. \A a, b : <<a, b>> \in J <=> \/ a \in T /\ b \in T /\ <<a, b>> \in R
                                   \/ a \in T /\ b \in U
                                   \/ a \in U /\ b \in U /\ <<a, b>> \in Q
      BY DEF UseOrders
<1>2. J \in SUBSET ((T \union U) \X (T \union U))
      BY DEF UseOrders
<1> HIDE DEF J
<1>3. \A a, b \in T \union U : <<a, b>> \in J <=> a # b /\ <<b, a>> \notin J
      BY <1>1 DEF UseOrders
<1>4. \A a, b, c \in T \union U : <<a, b>> \in J /\ <<b, c>> \in J => <<a, c>> \in J
      BY <1>1 DEF UseOrders
<1> QED
    BY <1>2, <1>3, <1>4 DEF UseOrders

-----------------------------------------------------------------------------
(* The steps.                                                              *)
LEMMA PoolInitially == PoolInit => PoolIInv
<1> SUFFICES ASSUME PoolInit PROVE PoolIInv
    OBVIOUS
<1>1. \A r \in Requests : req[r] = Idle
      BY DEF PoolInit
<1>2. \A r \in Requests : Kept(req[r])
      BY <1>1, IdleIsKept
<1>3. Idle \in Request
      BY IdleIsKept DEF Kept
<1>4. PoolTypeOK
  <2>1. req \in [Requests -> Request] /\ keepAlive \in BOOLEAN
        BY <1>3, PoolAssumption DEF PoolInit
  <2>2. errors \in [Models -> 0..MaxErrors] /\ timers \in [Models -> 0..MaxTimers]
        BY PoolAssumption DEF PoolInit
  <2> QED
      BY <2>1, <2>2 DEF PoolInit, PoolTypeOK
<1> QED
    BY <1>2, <1>4 DEF PoolInit, PoolIInv, Scheduled

(* A step of one request.                                                  *)
LEMMA RequestMoves ==
    ASSUME PoolIInv, NEW r \in Requests, NEW w, Kept(w), req' = [req EXCEPT ![r] = w]
    PROVE  req' \in [Requests -> Request] /\ \A q \in Requests : Kept(req'[q])
<1>1. w \in Request /\ req \in [Requests -> Request]
      BY DEF PoolIInv, PoolTypeOK, Kept
<1>2. \A q \in Requests : req'[q] = IF q = r THEN w ELSE req[q]
      BY <1>1
<1>3. \A q \in Requests : Kept(req[q])
      BY DEF PoolIInv
<1> QED
    BY <1>1, <1>2, <1>3

(* The bookkeeping of an error keeps the pool well.                        *)
LEMMA MarkKeeps ==
    ASSUME PoolIInv, NEW m \in Models, NEW again \in BOOLEAN, MarkError(m, again)
    PROVE  /\ benched' \subseteq pooled /\ errors' \in [Models -> 0..MaxErrors]
           /\ timers' \in [Models -> 0..MaxTimers]
           /\ \A n \in benched' : timers'[n] > 0
<1>1. /\ benched \subseteq pooled /\ pooled \subseteq Models
      /\ errors \in [Models -> 0..MaxErrors] /\ timers \in [Models -> 0..MaxTimers]
      /\ \A n \in benched : timers[n] > 0 /\ timers[n] \in Nat
      /\ MaxErrors \in Nat /\ MaxTimers \in Nat
      BY PoolAssumption DEF PoolIInv, PoolTypeOK, Scheduled
<1>2. CASE UNCHANGED <<benched, errors, timers>>
      BY <1>1, <1>2
<1>3. CASE m \in pooled
  <2> DEFINE n == IF errors[m] = MaxErrors THEN MaxErrors ELSE errors[m] + 1
  <2>1. errors' = [errors EXCEPT ![m] = n] /\ n \in 0..MaxErrors
        BY <1>1, <1>3 DEF MarkError
  <2>2. \/ /\ timers[m] < MaxTimers
           /\ timers' = [timers EXCEPT ![m] = timers[m] + 1]
           /\ benched' = benched \union {m}
        \/ UNCHANGED <<timers, benched>>
        BY <1>3 DEF MarkError
  <2>3. errors' \in [Models -> 0..MaxErrors]
        BY <1>1, <2>1
  <2>4. CASE UNCHANGED <<timers, benched>>
        BY <1>1, <2>3, <2>4
  <2>5. CASE /\ timers[m] < MaxTimers
             /\ timers' = [timers EXCEPT ![m] = timers[m] + 1]
             /\ benched' = benched \union {m}
    <3>1. timers[m] \in 0..MaxTimers /\ timers[m] + 1 \in 0..MaxTimers /\ timers[m] + 1 > 0
          BY <1>1, <2>5
    <3>2. timers' \in [Models -> 0..MaxTimers] /\ timers'[m] > 0
          BY <1>1, <2>5, <3>1
    <3>3. \A k \in benched : timers'[k] > 0
          BY <1>1, <2>5, <3>1
    <3> QED
        BY <1>1, <1>3, <2>3, <2>5, <3>2, <3>3
  <2> QED
      BY <2>2, <2>4, <2>5
<1> QED
    BY <1>2, <1>3 DEF MarkError

LEMMA ChooseKeeps == ASSUME PoolIInv, NEW r \in Requests, Choose(r) PROVE PoolIInv'
<1> DEFINE w == req[r]
<1>1. Kept(w) /\ w \in Request /\ req \in [Requests -> Request] /\ w.pc \in {"choosing", "backoff"}
      BY DEF PoolIInv, PoolTypeOK, Kept, Choose, ChoosePinned, ChooseNext, Choosing, Exhausted
<1>2. w = [ pc |-> w.pc, pin |-> w.pin, tried |-> w.tried, said |-> {} ]
  <2>1. w.said = {}
        BY <1>1 DEF Kept
  <2> QED
      BY <1>1, <2>1 DEF Request
<1>3. ASSUME NEW m \in Models, w.pin = AutoId => m \notin ToSet(w.tried), Choosing(r), Send(r, m)
      PROVE  req' \in [Requests -> Request] /\ \A q \in Requests : Kept(req'[q])
  <2> DEFINE v == [ pc |-> "sent", pin |-> w.pin, tried |-> Append(w.tried, m), said |-> {} ]
  <2>1. Kept(v)
    <3>0. Len(w.tried) < MaxRetries
          BY <1>3 DEF Choosing, AttemptLeft
    <3>1. PICK w0 : w0 = w
          OBVIOUS
    <3> HIDE DEF w
    <3>2. Kept([ pc |-> "sent", pin |-> w0.pin, tried |-> Append(w0.tried, m), said |-> {} ])
          BY <1>1, <1>3, <3>0, <3>1, SentIsKept
    <3> QED
        BY <3>1, <3>2
  <2>2. req' = [req EXCEPT ![r] = v]
        BY <1>1, <1>2, <1>3 DEF Send
  <2> HIDE DEF v
  <2> QED
      BY <2>1, <2>2, RequestMoves
<1>4. ASSUME End(r) PROVE req' \in [Requests -> Request] /\ \A q \in Requests : Kept(req'[q])
      BY <1>4, IdleIsKept, RequestMoves DEF End
<1>5. CASE ChoosePinned(r)
  <2>1. UNCHANGED <<listed, pool, keepAlive, pinger>> /\ w.pin \in Models /\ w.pin # AutoId
        BY <1>1, <1>5 DEF ChoosePinned, Request
  <2>2. Choosing(r) /\ (End(r) \/ Send(r, w.pin))
        BY <1>5 DEF ChoosePinned
  <2>3. req' \in [Requests -> Request] /\ \A q \in Requests : Kept(req'[q])
    <3>1. PICK m \in Models : m = w.pin
          BY <2>1
    <3> QED
        BY <1>3, <1>4, <2>1, <2>2, <3>1
  <2> QED
      BY <2>1, <2>3 DEF PoolIInv, PoolTypeOK, Scheduled, pool
<1>6. CASE ChooseNext(r)
  <2>1. UNCHANGED <<listed, pooled, benched, errors, timers, keepAlive, pinger>> /\ w.pin = AutoId /\ Choosing(r)
        BY <1>6 DEF ChooseNext
  <2>2. CASE End(r) /\ UNCHANGED <<older, warm>>
        BY <1>4, <2>1, <2>2 DEF PoolIInv, PoolTypeOK, Scheduled
  <2>3. CASE \E m \in Oldest(Preferred(w.tried)) :
                 Send(r, m) /\ older' = Touched(m) /\ warm' = warm \union {m}
    <3>1. PICK m \in Oldest(Preferred(w.tried)) :
                 Send(r, m) /\ older' = Touched(m) /\ warm' = warm \union {m}
          BY <2>3
    <3>2. m \in pooled /\ m \notin ToSet(w.tried) /\ m \in Models
          BY DEF Oldest, Preferred, Candidates, PoolIInv, PoolTypeOK
    <3>3. req' \in [Requests -> Request] /\ \A q \in Requests : Kept(req'[q])
      <4>1. PICK n \in Models : n = m
            BY <3>2
      <4> QED
          BY <1>3, <2>1, <3>1, <3>2, <4>1
    <3>4. older' \in UseOrders(pooled)
          BY <3>1, <3>2, TouchedIsOrder DEF PoolIInv, PoolTypeOK
    <3>5. warm' \subseteq pooled
          BY <3>1, <3>2 DEF PoolIInv, PoolTypeOK
    <3> QED
        BY <2>1, <3>3, <3>4, <3>5 DEF PoolIInv, PoolTypeOK, Scheduled
  <2> QED
      BY <1>6, <2>2, <2>3 DEF ChooseNext
<1>7. CASE Exhausted(r)
  <2>1. req' \in [Requests -> Request] /\ \A q \in Requests : Kept(req'[q])
        BY <1>4, <1>7 DEF Exhausted
  <2> QED
      BY <1>7, <2>1 DEF Exhausted, PoolIInv, PoolTypeOK, Scheduled, pool
<1> QED
    BY <1>5, <1>6, <1>7 DEF Choose

LEMMA ArriveKeeps ==
    ASSUME PoolIInv, NEW r \in Requests, NEW pin \in Models \union {AutoId}, Arrive(r, pin)
    PROVE  PoolIInv'
<1> DEFINE v == [ pc |-> "choosing", pin |-> pin, tried |-> <<>>, said |-> {} ]
<1>1. Kept(v)
  <2>1. Idle \in Request /\ Idle.tried = <<>>
        BY IdleIsKept DEF Kept, Idle
  <2>2. v \in Request
        BY <2>1 DEF Request, Idle
  <2> QED
      BY <2>2, PoolAssumption DEF Kept, NoRepeats
<1>2. req' = [req EXCEPT ![r] = v]
      BY DEF Arrive
<1>3. req' \in [Requests -> Request] /\ \A q \in Requests : Kept(req'[q])
  <2> HIDE DEF v
  <2> QED
      BY <1>1, <1>2, RequestMoves
<1> QED
    BY <1>3 DEF Arrive, PoolIInv, PoolTypeOK, Scheduled, pool

LEMMA EmitKeeps == ASSUME PoolIInv, NEW r \in Requests, Emit(r) PROVE PoolIInv'
<1>1. PICK w : w = req[r]
      OBVIOUS
<1>2. Kept(w) /\ w.pc = "sent" /\ req \in [Requests -> Request]
      BY <1>1 DEF PoolIInv, PoolTypeOK, Emit
<1> DEFINE v == [w EXCEPT !.said = @ \union {Last(w.tried)}]
<1>3. Kept(v)
      BY <1>2, SpokenIsKept
<1>4. req' = [req EXCEPT ![r] = v]
      BY <1>1, <1>2 DEF Emit
<1>5. req' \in [Requests -> Request] /\ \A q \in Requests : Kept(req'[q])
  <2> HIDE DEF v
  <2> QED
      BY <1>3, <1>4, RequestMoves
<1> QED
    BY <1>5 DEF Emit, PoolIInv, PoolTypeOK, Scheduled, pool

LEMMA UpstreamKeeps == ASSUME PoolIInv, NEW r \in Requests, Upstream(r) PROVE PoolIInv'
<1>1. PICK w : w = req[r]
      OBVIOUS
<1>2. Kept(w) /\ w.pc = "sent" /\ w \in Request /\ req \in [Requests -> Request]
      BY <1>1 DEF PoolIInv, PoolTypeOK, Kept, Upstream, Succeed, FailForNow, FailForGood, Break
<1>3. PICK m \in Models : m = Last(w.tried)
      BY <1>2, SpokenIsKept
<1>4. ASSUME End(r) PROVE req' \in [Requests -> Request] /\ \A q \in Requests : Kept(req'[q])
      BY <1>4, IdleIsKept, RequestMoves DEF End
<1>5. ASSUME w.said = {}, NEW pc1 \in {"choosing", "backoff"}, Again(r, pc1)
      PROVE  req' \in [Requests -> Request] /\ \A q \in Requests : Kept(req'[q])
  <2> DEFINE v == [w EXCEPT !.pc = pc1]
  <2>1. Kept(v)
        BY <1>1, <1>2, <1>5, RetryIsKept
  <2>2. req' = [req EXCEPT ![r] = v]
        BY <1>1, <1>5 DEF Again
  <2> HIDE DEF v
  <2> QED
      BY <2>1, <2>2, RequestMoves
<1>6. CASE Succeed(r)
  <2>1. errors' \in [Models -> 0..MaxErrors]
        BY <1>6, PoolAssumption DEF Succeed, MarkSuccess, PoolIInv, PoolTypeOK
  <2>2. req' \in [Requests -> Request] /\ \A q \in Requests : Kept(req'[q])
        BY <1>4, <1>6 DEF Succeed
  <2> QED
      BY <1>6, <2>1, <2>2 DEF Succeed, PoolIInv, PoolTypeOK, Scheduled
<1>7. CASE FailForNow(r) \/ FailForGood(r)
  <2>1. UNCHANGED <<listed, pooled, older, warm, keepAlive, pinger>>
        BY <1>7 DEF FailForNow, FailForGood
  <2>2. MarkError(m, TRUE) \/ MarkError(m, FALSE)
        BY <1>1, <1>3, <1>7 DEF FailForNow, FailForGood
  <2>3. /\ benched' \subseteq pooled /\ errors' \in [Models -> 0..MaxErrors]
        /\ timers' \in [Models -> 0..MaxTimers]
        /\ \A n \in benched' : timers'[n] > 0
        BY <2>2, MarkKeeps
  <2>4. req' \in [Requests -> Request] /\ \A q \in Requests : Kept(req'[q])
        BY <1>1, <1>4, <1>5, <1>7 DEF FailForNow, FailForGood
  <2> QED
      BY <2>1, <2>3, <2>4 DEF PoolIInv, PoolTypeOK, Scheduled
<1>8. CASE Break(r)
  <2>1. req' \in [Requests -> Request] /\ \A q \in Requests : Kept(req'[q])
        BY <1>4, <1>8 DEF Break
  <2> QED
      BY <1>8, <2>1 DEF Break, PoolIInv, PoolTypeOK, Scheduled, pool
<1> QED
    BY <1>6, <1>7, <1>8 DEF Upstream

(* A timer fires: the model it was for is benched no more.                 *)
LEMMA ReEnableKeeps == ASSUME PoolIInv, NEW m \in Models, ReEnable(m) PROVE PoolIInv'
<1>1. timers \in [Models -> 0..MaxTimers] /\ timers[m] > 0 /\ timers[m] \in Nat
      BY PoolAssumption DEF PoolIInv, PoolTypeOK, ReEnable
<1>2. timers' = [timers EXCEPT ![m] = timers[m] - 1] /\ timers[m] - 1 \in 0..MaxTimers
      BY <1>1, PoolAssumption DEF ReEnable
<1>3. timers' \in [Models -> 0..MaxTimers] /\ \A n \in Models \ {m} : timers'[n] = timers[n]
      BY <1>1, <1>2
<1>4. errors' \in [Models -> 0..MaxErrors]
      BY PoolAssumption DEF PoolIInv, PoolTypeOK, ReEnable
<1>5. benched' = benched \ {m} /\ benched \subseteq pooled /\ pooled \subseteq Models
      BY DEF ReEnable, PoolIInv, PoolTypeOK
<1>6. \A n \in benched' : timers'[n] > 0
      BY <1>3, <1>5 DEF PoolIInv, Scheduled
<1> QED
    BY <1>3, <1>4, <1>5, <1>6 DEF ReEnable, PoolIInv, PoolTypeOK, Scheduled

LEMMA AgeKeeps == ASSUME PoolIInv, GoCold \/ Refresh PROVE PoolIInv'
<1>1. CASE GoCold
  <2>1. warm' \subseteq pooled /\ UNCHANGED <<listed, pooled, older, benched, errors, timers, keepAlive, pinger, req>>
        BY <1>1 DEF GoCold, PoolIInv, PoolTypeOK
  <2> QED
      BY <2>1 DEF PoolIInv, PoolTypeOK, Scheduled
<1>2. CASE Refresh
      BY <1>2 DEF Refresh, PoolIInv, PoolTypeOK, Scheduled, pool
<1> QED
    BY <1>1, <1>2

LEMMA PingKeeps == ASSUME PoolIInv, PingCold PROVE PoolIInv'
<1>1. PICK old \in SUBSET pooled : pinger' = [ pc |-> "pinging", targets |-> old \ benched ]
      BY DEF PingCold
<1>2. /\ pinger' \in [ pc : {"asleep", "pinging"}, targets : SUBSET Models ]
      /\ pinger'.targets \subseteq pooled
      BY <1>1 DEF PoolIInv, PoolTypeOK
<1> QED
    BY <1>2 DEF PingCold, PoolIInv, PoolTypeOK, Scheduled, pool

LEMMA PingedKeeps == ASSUME PoolIInv, NEW m \in Models, Pinged(m) PROVE PoolIInv'
<1>1. m \in pooled /\ pinger \in [ pc : {"asleep", "pinging"}, targets : SUBSET Models ]
      BY DEF Pinged, PoolIInv, PoolTypeOK
<1>2. pinger' = [pinger EXCEPT !.targets = pinger.targets \ {m}]
      BY <1>1 DEF Pinged
<1>3. /\ pinger' \in [ pc : {"asleep", "pinging"}, targets : SUBSET Models ]
      /\ pinger'.targets \subseteq pooled
      BY <1>1, <1>2 DEF PoolIInv, PoolTypeOK
<1>4. UNCHANGED <<listed, pooled, benched, timers, keepAlive, req>>
      BY DEF Pinged
<1>5. errors \in [Models -> 0..MaxErrors] /\ warm \subseteq pooled /\ older \in UseOrders(pooled)
      BY DEF PoolIInv, PoolTypeOK
<1>6. CASE older' = Touched(m) /\ warm' = warm \union {m} /\ errors' = [errors EXCEPT ![m] = 0]
  <2>1. older' \in UseOrders(pooled) /\ warm' \subseteq pooled
        BY <1>1, <1>5, <1>6, TouchedIsOrder
  <2>2. errors' \in [Models -> 0..MaxErrors]
        BY <1>5, <1>6, PoolAssumption
  <2> QED
      BY <1>3, <1>4, <2>1, <2>2 DEF PoolIInv, PoolTypeOK, Scheduled
<1>7. CASE /\ errors' = [errors EXCEPT ![m] = IF @ = MaxErrors THEN @ ELSE @ + 1]
           /\ UNCHANGED <<older, warm>>
  <2>1. errors' \in [Models -> 0..MaxErrors]
        BY <1>5, <1>7, PoolAssumption
  <2> QED
      BY <1>3, <1>4, <1>7, <2>1 DEF PoolIInv, PoolTypeOK, Scheduled
<1> QED
    BY <1>6, <1>7 DEF Pinged

LEMMA RebuildKeeps == ASSUME PoolIInv, Rebuild PROVE PoolIInv'
<1> DEFINE new == listed \ pooled
<1>1. PICK among \in UseOrders(new) :
          older' = (older \intersect (Surviving \X Surviving)) \union (Surviving \X new) \union among
      BY DEF Rebuild
<1>2. /\ pooled' = Surviving \union new /\ warm' = (warm \intersect Surviving) \union new
      /\ benched' = benched \intersect Surviving
      /\ pinger.targets = {} /\ pinger' = [pinger EXCEPT !.pc = "asleep"]
      /\ errors' = [k \in Models |-> IF k \in Surviving THEN errors[k] ELSE 0]
      /\ UNCHANGED <<listed, timers, keepAlive, req>>
      BY DEF Rebuild
<1>3. /\ listed \subseteq Models /\ pooled \subseteq Models /\ Surviving \subseteq pooled
      /\ older \in UseOrders(pooled) /\ pooled \intersect new = {}
      BY DEF PoolIInv, PoolTypeOK, Surviving
<1>4. older' \in UseOrders(pooled')
  <2> HIDE DEF new
  <2> QED
      BY <1>1, <1>2, <1>3, JoinedIsOrder
<1>5. errors' \in [Models -> 0..MaxErrors]
      BY <1>2, PoolAssumption DEF PoolIInv, PoolTypeOK
<1>6. /\ pinger' \in [ pc : {"asleep", "pinging"}, targets : SUBSET Models ]
      /\ pinger'.targets = {}
      BY <1>2 DEF PoolIInv, PoolTypeOK
<1>7. /\ listed' \subseteq Models /\ pooled' \subseteq Models
      /\ warm' \subseteq pooled' /\ benched' \subseteq pooled' /\ benched' \subseteq benched
      BY <1>2, <1>3 DEF PoolIInv, PoolTypeOK
<1> HIDE DEF new
<1> QED
    BY <1>2, <1>4, <1>5, <1>6, <1>7 DEF PoolIInv, PoolTypeOK, Scheduled

-----------------------------------------------------------------------------
THEOREM PoolInductive == PoolSpec => []PoolIInv
<1>1. PoolInit => PoolIInv
      BY PoolInitially
<1>2. PoolIInv /\ [PoolNext]_poolVars => PoolIInv'
  <2> SUFFICES ASSUME PoolIInv, [PoolNext]_poolVars PROVE PoolIInv'
      OBVIOUS
  <2>1. CASE \E m \in Models : ReEnable(m)
        BY <2>1, ReEnableKeeps
  <2>2. CASE GoCold \/ Refresh
        BY <2>2, AgeKeeps
  <2>3. CASE Loop
        BY <2>3, PingKeeps, RebuildKeeps DEF Loop
  <2>4. CASE \E r \in Requests : \E pin \in Models \union {AutoId} : Arrive(r, pin)
        BY <2>4, ArriveKeeps
  <2>5. CASE \E r \in Requests : Choose(r) \/ Emit(r) \/ Upstream(r)
        BY <2>5, ChooseKeeps, EmitKeeps, UpstreamKeeps
  <2>6. CASE UNCHANGED poolVars
        BY <2>6 DEF poolVars, pool, PoolIInv, PoolTypeOK, Scheduled
  <2>7. CASE \E m \in Models : Pinged(m)
        BY <2>7, PingedKeeps
  <2> QED
      BY <2>1, <2>2, <2>3, <2>4, <2>5, <2>6, <2>7 DEF PoolNext
<1> QED
    BY <1>1, <1>2, PTL DEF PoolSpec

(* Whatever the pool does around a request, what its client reads comes    *)
(* from one model, an auto request goes to no model twice, and no model is *)
(* benched without a timer to bring it back (scheduler.py:69-157,          *)
(* pool.py:125-133, 207-213).                                              *)
THEOREM RequestsHold == PoolSpec => []RequestsOK
BY PoolInductive, PoolImplies, PTL

-----------------------------------------------------------------------------
(* The pipeline control.                                                   *)

(* A chain that was begun.                                                 *)
Begun(ch) ==
    /\ ch = [ id |-> ch.id, order |-> ch.order, at |-> ch.at, hold |-> ch.hold ]
    /\ ch.id \in begun /\ ch.order \in Orders
    /\ ch.at \in 1..Len(ch.order) /\ ch.hold \in Nat

(* The clock, the chain and the call that read it, which goes on with the  *)
(* chain as it is or with one that is new.                                 *)
Clocked ==
    /\ now \in Nat /\ begun \subseteq Runs
    /\ chain # Over => Begun(chain)
    /\ chain.hold \in Nat /\ chain.hold <= now + HoldTime
    /\ \A c \in called :
         /\ c = [ read |-> c.read, until |-> c.until ]
         /\ Begun(c.read) /\ c.until \in Nat
         /\ c.read = chain \/ (c.read.id # chain.id /\ c.read.hold = 0)
         /\ c.until # 0 => chain.hold <= c.until /\ c.until <= now + HoldTime

(* The hold that was asked is the latest there was.                        *)
Noted ==
    /\ fired \in Nat /\ fired <= now
    /\ chain.hold # 0 => fired <= chain.hold
    /\ \A c \in called : c.until # 0 => fired <= c.until

AskedToLeave(r, stage) == <<r, stage>> \in asked

(* A prompt was sent to leave the stages of the chain it has come through, *)
(* and the one it is at only as the last.                                  *)
Behind ==
    chain # Over =>
        \A stage \in Stages : AskedToLeave(chain.id, stage) =>
            /\ \E j \in 1..chain.at : stage = chain.order[j]
            /\ stage = Stage => advanced = stage

(* What was asked since the control was mounted, while nothing was refused: *)
(* holds that are over, stages of runs that were begun, none of a run that *)
(* the chain is not at yet.                                                *)
Recorded ==
    refused = 0 =>
        /\ \A a \in asked : \/ \E h \in 1..fired : a = <<h>>
                            \/ \E r \in begun, stage \in Stages : a = <<r, stage>>
        /\ Behind
        /\ \A c \in called : c.read # chain =>
             \A stage \in Stages : ~AskedToLeave(c.read.id, stage)

PanelIInv == refused \in Nat /\ Clocked /\ Noted /\ Recorded

(* What the invariant speaks of.                                           *)
asks == <<chainVars, fired, advanced, refused, asked>>

(* What is asked for a hold is nothing asked for a stage.                  *)
LEMMA HoldOrStage ==
    /\ \A h, r, stage : <<h>> # <<r, stage>>
    /\ \A h, g : <<h>> = <<g>> => h = g
    /\ \A h : Len(<<h>>) = 1
    /\ \A r, stage : Len(<<r, stage>>) = 2
<1>1. \A h : Len(<<h>>) = 1
      OBVIOUS
<1>2. \A r, stage : Len(<<r, stage>>) = 2
      OBVIOUS
<1>3. \A h, g : <<h>> = <<g>> => h = g
      OBVIOUS
<1>4. \A h, r, stage : <<h>> # <<r, stage>>
      BY <1>1, <1>2
<1> QED
    BY <1>1, <1>2, <1>3, <1>4

(* The stages of a run in progress are stages, each there once.            *)
LEMMA StagesApart ==
    ASSUME NEW ch, Begun(ch)
    PROVE  /\ \A j \in 1..Len(ch.order) : ch.order[j] \in Stages
           /\ \A i, j \in 1..Len(ch.order) : ch.order[i] = ch.order[j] => i = j
           /\ Len(ch.order) \in Nat /\ ch.at \in Nat
<1>1. ch.order \in Orders /\ ch.at \in 1..Len(ch.order)
      BY DEF Begun
<1>2. ch.order \in Seq(Stages)
      BY <1>1, PanelAssumption
<1>3. \A i, j \in DOMAIN ch.order : ch.order[i] = ch.order[j] => i = j
      BY <1>1, PanelAssumption
<1>4. DOMAIN ch.order = 1..Len(ch.order) /\ Len(ch.order) \in Nat
      BY <1>2
<1>5. \A j \in 1..Len(ch.order) : ch.order[j] \in Stages
      BY <1>2
<1> QED
    BY <1>1, <1>3, <1>4, <1>5

LEMMA PanelInitHolds == PanelInit => PanelIInv
<1> SUFFICES ASSUME PanelInit PROVE PanelIInv
    OBVIOUS
<1>1. chain = Over /\ called = {} /\ begun = {} /\ now = 1 /\ fired = 0 /\ refused = 0 /\ asked = {}
      BY DEF PanelInit, ChainInit
<1>2. chain.hold = 0
      BY <1>1 DEF Over
<1>3. Clocked
      BY <1>1, <1>2, PanelAssumption DEF Clocked
<1>4. Noted
      BY <1>1, <1>2 DEF Noted
<1>5. Recorded
      BY <1>1 DEF Recorded, Behind
<1> QED
    BY <1>1, <1>3, <1>4, <1>5 DEF PanelIInv

LEMMA AsksStill == ASSUME PanelIInv, UNCHANGED asks PROVE PanelIInv'
<1>1. /\ chain' = chain /\ called' = called /\ begun' = begun /\ now' = now
      /\ fired' = fired /\ advanced' = advanced /\ refused' = refused /\ asked' = asked
      BY DEF asks, chainVars
<1>2. Clocked'
      BY <1>1 DEF PanelIInv, Clocked, Begun
<1>3. Noted'
      BY <1>1 DEF PanelIInv, Noted
<1>4. Recorded'
      BY <1>1 DEF PanelIInv, Recorded, Behind, AskedToLeave, Stage
<1> QED
    BY <1>1, <1>2, <1>3, <1>4 DEF PanelIInv

(* What a press sends is asked by a person.                                *)
LEMMA PressKeeps ==
    ASSUME PanelIInv, PressRun \/ (\E kind \in {"continue", "restart"} : Press(kind))
    PROVE  PanelIInv' /\ \A p \in sending' \ sending : p.kind \notin Unasked
<1>1. PICK kind \in RunPrompts \union {"continue", "restart"} :
          Go(kind, <<>>) /\ UNCHANGED <<fired, advanced>>
      BY DEF PressRun, Press
<1>2. kind \notin Unasked
      BY <1>1 DEF RunPrompts, Unasked
<1>3. UNCHANGED asks
      BY <1>1, <1>2 DEF Go, asks
<1>4. sending' = sending \union {[kind |-> kind, about |-> <<>>]}
      BY <1>1 DEF Go
<1> QED
    BY <1>2, <1>3, <1>4, AsksStill

(* A hold is asked later than any before it.                               *)
LEMMA WakeKeeps ==
    ASSUME PanelIInv, Wake
    PROVE  PanelIInv' /\ (refused = 0 => <<chain.hold>> \notin asked)
<1>1. /\ chain' = chain /\ called' = called /\ begun' = begun /\ now' = now
      /\ fired' = chain.hold /\ advanced' = advanced /\ refused' = refused
      /\ asked' = asked \union {<<chain.hold>>}
      BY DEF Wake, Go, chainVars, Unasked
<1>2. chain.hold > 0 /\ chain.hold <= now /\ fired # chain.hold
      BY DEF Wake, Held, PanelIInv, Clocked
<1>3. chain.hold \in Nat /\ now \in Nat /\ fired \in Nat /\ fired < chain.hold
      BY <1>2 DEF PanelIInv, Clocked, Noted
<1>4. ASSUME refused = 0 PROVE <<chain.hold>> \notin asked
  <2>1. SUFFICES ASSUME <<chain.hold>> \in asked PROVE FALSE
        OBVIOUS
  <2>2. \/ \E h \in 1..fired : <<chain.hold>> = <<h>>
        \/ \E r \in begun, stage \in Stages : <<chain.hold>> = <<r, stage>>
        BY <1>4, <2>1 DEF PanelIInv, Recorded
  <2>3. PICK h \in 1..fired : <<chain.hold>> = <<h>>
        BY <2>2, HoldOrStage
  <2>4. chain.hold = h
        BY <2>3, HoldOrStage
  <2> QED
      BY <2>4, <1>3
<1>5. Clocked'
      BY <1>1 DEF PanelIInv, Clocked, Begun
<1>6. Noted'
      BY <1>1, <1>2, <1>3 DEF PanelIInv, Noted, Clocked
<1>7. ASSUME refused = 0 PROVE Recorded'
  <2>1. \A r, stage : AskedToLeave(r, stage)' <=> AskedToLeave(r, stage)
        BY <1>1, HoldOrStage DEF AskedToLeave
  <2>2. Behind'
        BY <1>1, <1>7, <2>1 DEF PanelIInv, Recorded, Behind, Stage
  <2>3. \A c \in called' : c.read # chain' => \A stage \in Stages : ~AskedToLeave(c.read.id, stage)'
        BY <1>1, <1>7, <2>1 DEF PanelIInv, Recorded
  <2>4. ASSUME NEW a \in asked'
        PROVE  \/ \E h \in 1..fired' : a = <<h>>
               \/ \E r \in begun', stage \in Stages : a = <<r, stage>>
    <3>1. CASE a \in asked
      <4>1. CASE \E h \in 1..fired : a = <<h>>
        <5>1. PICK h \in 1..fired : a = <<h>>
              BY <4>1
        <5>2. h \in 1..fired'
              BY <1>1, <1>3
        <5> QED
            BY <5>1, <5>2
      <4>2. CASE \E r \in begun, stage \in Stages : a = <<r, stage>>
            BY <4>2, <1>1
      <4> QED
          BY <3>1, <4>1, <4>2, <1>7 DEF PanelIInv, Recorded
    <3>2. CASE a = <<chain.hold>>
      <4>1. chain.hold \in 1..fired'
            BY <1>1, <1>2, <1>3
      <4> QED
          BY <3>2, <4>1
    <3> QED
        BY <2>4, <1>1, <3>1, <3>2
  <2> QED
      BY <2>2, <2>3, <2>4 DEF Recorded, AskedToLeave
<1>8. Recorded'
      BY <1>1, <1>7 DEF Recorded
<1> QED
    BY <1>1, <1>4, <1>5, <1>6, <1>8 DEF PanelIInv

(* The stage is asked for, and it is the last that was.                    *)
LEMMA AdvanceKeeps ==
    ASSUME PanelIInv, Advance
    PROVE  PanelIInv' /\ (refused = 0 => <<chain.id, Stage>> \notin asked)
<1>1. /\ chain' = chain /\ called' = called /\ begun' = begun /\ now' = now
      /\ fired' = fired /\ advanced' = Stage /\ refused' = refused
      /\ asked' = asked \union {<<chain.id, Stage>>}
      BY DEF Advance, Go, chainVars, Unasked
<1>2. chain # Over /\ advanced # Stage
      BY DEF Advance, Running
<1>3. Begun(chain)
      BY <1>2 DEF PanelIInv, Clocked
<1>4. chain.id \in begun /\ chain.at \in 1..Len(chain.order)
      BY <1>3 DEF Begun
<1>5. Stage \in Stages
      BY <1>3, <1>4, StagesApart DEF Stage
<1>6. ASSUME refused = 0 PROVE <<chain.id, Stage>> \notin asked
  <2>1. Behind
        BY <1>6 DEF PanelIInv, Recorded
  <2>2. AskedToLeave(chain.id, Stage) => advanced = Stage
        BY <2>1, <1>2, <1>5 DEF Behind
  <2> QED
      BY <2>2, <1>2 DEF AskedToLeave
<1>7. Clocked'
      BY <1>1 DEF PanelIInv, Clocked, Begun
<1>8. Noted'
      BY <1>1 DEF PanelIInv, Noted
<1>9. ASSUME refused = 0 PROVE Recorded'
  <2>1. \A r, stage : AskedToLeave(r, stage)' => AskedToLeave(r, stage) \/ (r = chain.id /\ stage = Stage)
        BY <1>1 DEF AskedToLeave
  <2>2. \A a \in asked' : \/ \E h \in 1..fired' : a = <<h>>
                          \/ \E r \in begun', stage \in Stages : a = <<r, stage>>
        BY <1>1, <1>4, <1>5, <1>9 DEF PanelIInv, Recorded
  <2>3. Behind'
    <3>1. SUFFICES ASSUME NEW stage \in Stages, AskedToLeave(chain.id, stage)'
                   PROVE  /\ \E j \in 1..chain.at : stage = chain.order[j]
                          /\ stage = Stage => Stage = stage
          BY <1>1 DEF Behind, Stage
    <3>2. CASE stage = Stage
      <4>1. chain.at \in 1..chain.at /\ stage = chain.order[chain.at]
            BY <3>2, <1>3, <1>4, StagesApart DEF Stage
      <4> QED
          BY <4>1
    <3>3. CASE AskedToLeave(chain.id, stage)
          BY <3>3, <1>2, <1>9 DEF PanelIInv, Recorded, Behind
    <3> QED
        BY <1>1, <3>1, <3>2, <3>3, <2>1 DEF AskedToLeave
  <2>4. ASSUME NEW c \in called', c.read # chain', NEW stage \in Stages
        PROVE  ~AskedToLeave(c.read.id, stage)'
    <3>1. c.read.id # chain.id
          BY <2>4, <1>1 DEF PanelIInv, Clocked
    <3>2. ~AskedToLeave(c.read.id, stage)
          BY <2>4, <1>1, <1>9 DEF PanelIInv, Recorded
    <3> QED
        BY <3>1, <3>2, <2>1
  <2> QED
      BY <2>2, <2>3, <2>4 DEF Recorded
<1>10. Recorded'
      BY <1>1, <1>9 DEF Recorded
<1> QED
    BY <1>1, <1>6, <1>7, <1>8, <1>10 DEF PanelIInv

(* A new run starts the stages afresh, and leaves the holds.               *)
LEMMA LandsKeeps ==
    ASSUME PanelIInv, NEW p \in sending, Lands(p)
    PROVE  PanelIInv'
<1>1. /\ chain' = chain /\ called' = called /\ begun' = begun /\ now' = now
      /\ fired' = fired /\ refused' = refused
      BY DEF Lands, chainVars
<1>2. CASE advanced' = advanced /\ asked' = asked
      BY <1>1, <1>2, AsksStill DEF asks, chainVars
<1>3. CASE advanced' = "none" /\ asked' = {a \in asked : Len(a) = 1}
  <2>1. Clocked'
        BY <1>1 DEF PanelIInv, Clocked, Begun
  <2>2. Noted'
        BY <1>1 DEF PanelIInv, Noted
  <2>3. \A r, stage : ~AskedToLeave(r, stage)'
        BY <1>3, HoldOrStage DEF AskedToLeave
  <2>4. Recorded'
        BY <1>1, <1>3, <2>3 DEF PanelIInv, Recorded, Behind
  <2> QED
      BY <1>1, <2>1, <2>2, <2>4 DEF PanelIInv
<1> QED
    BY <1>2, <1>3 DEF Lands

LEMMA RefusedKeeps ==
    ASSUME PanelIInv, NEW p \in sending, Refused(p)
    PROVE  PanelIInv'
<1>1. /\ chain' = chain /\ called' = called /\ begun' = begun /\ now' = now
      /\ fired' \in {0, fired} /\ refused' = refused + 1
      BY DEF Refused, chainVars
<1>2. refused \in Nat /\ refused' # 0 /\ refused' \in Nat
      BY <1>1 DEF PanelIInv
<1>3. Clocked'
      BY <1>1 DEF PanelIInv, Clocked, Begun
<1>4. Noted'
      BY <1>1 DEF PanelIInv, Noted, Clocked
<1> QED
    BY <1>2, <1>3, <1>4 DEF PanelIInv, Recorded

LEMMA RemountKeeps == ASSUME PanelIInv, Remount PROVE PanelIInv'
<1>1. /\ chain' = chain /\ called' = called /\ begun' = begun /\ now' = now
      /\ fired' = 0 /\ refused' = refused /\ asked' = {}
      BY DEF Remount, chainVars
<1>2. Clocked'
      BY <1>1 DEF PanelIInv, Clocked, Begun
<1>3. Noted'
      BY <1>1 DEF PanelIInv, Noted, Clocked
<1>4. Recorded'
      BY <1>1 DEF Recorded, Behind, AskedToLeave
<1> QED
    BY <1>1, <1>2, <1>3, <1>4 DEF PanelIInv

(* The call goes on with the chain as it is, or with one of a run that was *)
(* not begun, of which nothing was asked.                                  *)
LEMMA ModelCallsKeeps == ASSUME PanelIInv, ModelCalls PROVE PanelIInv'
<1>1. /\ fired' = fired /\ advanced' = advanced /\ refused' = refused /\ asked' = asked
      BY DEF ModelCalls, panel
<1>2. chain' = chain /\ now' = now
      BY DEF ModelCalls, ContinueChain, StartChain
<1>3. \A r, stage : AskedToLeave(r, stage)' <=> AskedToLeave(r, stage)
      BY <1>1 DEF AskedToLeave
<1>4. PICK ch : /\ called' = {[read |-> ch, until |-> 0]}
                /\ \/ ch = chain /\ chain # Over /\ begun' = begun
                   \/ \E r \in Runs, order \in Orders :
                        r \notin begun /\ ch = NewChain(r, order) /\ begun' = begun \union {r}
      BY DEF ModelCalls, ContinueChain, StartChain, Begins
<1>5. begun \subseteq begun' /\ begun' \subseteq Runs
      BY <1>4 DEF PanelIInv, Clocked
<1> DEFINE Apart(c) ==
        /\ c = chain \/ (c.id # chain.id /\ c.hold = 0)
        /\ refused = 0 /\ c # chain => \A stage \in Stages : ~AskedToLeave(c.id, stage)
<1>6. Begun(ch)' /\ Apart(ch)
  <2>1. CASE ch = chain /\ chain # Over /\ begun' = begun
        BY <2>1 DEF PanelIInv, Clocked, Begun
  <2>2. ASSUME NEW r \in Runs, NEW order \in Orders,
               r \notin begun, ch = NewChain(r, order), begun' = begun \union {r}
        PROVE  Begun(ch)' /\ Apart(ch)
    <3>1. ch = [ id |-> r, order |-> order, at |-> 1, hold |-> 0 ]
          BY <2>2 DEF NewChain
    <3>2. ch.id = r /\ ch.order = order /\ ch.at = 1 /\ ch.hold = 0
          BY <3>1
    <3>3. order \in Seq(Stages) /\ order # <<>>
          BY PanelAssumption
    <3>4. 1 \in 1..Len(order)
          BY <3>3
    <3>5. Begun(ch)'
          BY <2>2, <3>1, <3>2, <3>4 DEF Begun
    <3>6. ch.id # chain.id
      <4>1. CASE chain = Over
            BY <4>1, <3>2, PanelAssumption DEF Over
      <4>2. CASE chain # Over
            BY <4>2, <2>2, <3>2 DEF PanelIInv, Clocked, Begun
      <4> QED
          BY <4>1, <4>2
    <3>7. ASSUME refused = 0, NEW stage \in Stages PROVE ~AskedToLeave(ch.id, stage)
      <4>1. SUFFICES ASSUME <<r, stage>> \in asked PROVE FALSE
            BY <3>2 DEF AskedToLeave
      <4>2. \/ \E h \in 1..fired : <<r, stage>> = <<h>>
            \/ \E q \in begun, s \in Stages : <<r, stage>> = <<q, s>>
            BY <3>7, <4>1 DEF PanelIInv, Recorded
      <4>3. PICK q \in begun, s \in Stages : <<r, stage>> = <<q, s>>
            BY <4>2, HoldOrStage
      <4>4. r = q
            BY <4>3
      <4> QED
          BY <4>4, <2>2
    <3> QED
        BY <3>2, <3>5, <3>6, <3>7
  <2> QED
      BY <1>4, <2>1, <2>2
<1>7. \A c \in called' : c = [read |-> ch, until |-> 0] /\ c.read = ch /\ c.until = 0
      BY <1>4
<1>8. Clocked'
  <2>1. now' \in Nat /\ chain'.hold \in Nat /\ chain'.hold <= now' + HoldTime
        BY <1>2 DEF PanelIInv, Clocked
  <2>2. chain' # Over => Begun(chain)'
        BY <1>2, <1>5 DEF PanelIInv, Clocked, Begun
  <2>3. ASSUME NEW c \in called'
        PROVE  /\ c = [ read |-> c.read, until |-> c.until ]
               /\ Begun(c.read)' /\ c.until \in Nat
               /\ c.read = chain' \/ (c.read.id # chain'.id /\ c.read.hold = 0)
               /\ c.until # 0 => chain'.hold <= c.until /\ c.until <= now' + HoldTime
    <3>1. c = [read |-> ch, until |-> 0] /\ c.read = ch /\ c.until = 0
          BY <2>3, <1>7
    <3>2. Begun(c.read)'
          BY <3>1, <1>6 DEF Begun
    <3> QED
        BY <3>1, <3>2, <1>2, <1>6
  <2> QED
      BY <1>5, <2>1, <2>2, <2>3 DEF Clocked
<1>9. Noted'
      BY <1>1, <1>2, <1>7 DEF PanelIInv, Noted
<1>10. ASSUME refused = 0 PROVE Recorded'
  <2>1. \A a \in asked' : \/ \E h \in 1..fired' : a = <<h>>
                          \/ \E r \in begun', stage \in Stages : a = <<r, stage>>
        BY <1>1, <1>5, <1>10 DEF PanelIInv, Recorded
  <2>2. Behind'
        BY <1>1, <1>2, <1>3, <1>10 DEF PanelIInv, Recorded, Behind, Stage
  <2>3. \A c \in called' : c.read # chain' => \A stage \in Stages : ~AskedToLeave(c.read.id, stage)'
        BY <1>2, <1>3, <1>6, <1>7, <1>10
  <2> QED
      BY <2>1, <2>2, <2>3 DEF Recorded
<1>11. Recorded'
      BY <1>1, <1>10 DEF Recorded
<1> QED
    BY <1>1, <1>8, <1>9, <1>11 DEF PanelIInv

(* A seat of the stage has spent its allowance: the hold is to be later    *)
(* than any there was.                                                     *)
LEMMA IsSpentKeeps ==
    ASSUME PanelIInv, IsSpent, UNCHANGED panel
    PROVE  PanelIInv'
<1>1. /\ chain' = chain /\ begun' = begun /\ now' = now
      /\ fired' = fired /\ advanced' = advanced /\ refused' = refused /\ asked' = asked
      BY DEF IsSpent, panel
<1>2. PICK c \in called : c.until = 0 /\ called' = {[c EXCEPT !.until = now + HoldTime]}
      BY DEF IsSpent
<1>3. c = [ read |-> c.read, until |-> c.until ] /\ Begun(c.read)
      BY <1>2 DEF PanelIInv, Clocked
<1>4. c.read = chain \/ (c.read.id # chain.id /\ c.read.hold = 0)
      BY <1>2 DEF PanelIInv, Clocked
<1>5. [c EXCEPT !.until = now + HoldTime] = [ read |-> c.read, until |-> now + HoldTime ]
      BY <1>3
<1>6. \A d \in called' : /\ d = [ read |-> d.read, until |-> d.until ]
                         /\ d.read = c.read /\ d.until = now + HoldTime
      BY <1>2, <1>5
<1>7. now \in Nat /\ chain.hold \in Nat /\ chain.hold <= now + HoldTime /\ HoldTime \in Nat
      /\ fired \in Nat /\ fired <= now
      BY PanelAssumption DEF PanelIInv, Clocked, Noted
<1>8. Clocked'
  <2>1. ASSUME NEW d \in called'
        PROVE  /\ d = [ read |-> d.read, until |-> d.until ]
               /\ Begun(d.read)' /\ d.until \in Nat
               /\ d.read = chain' \/ (d.read.id # chain'.id /\ d.read.hold = 0)
               /\ d.until # 0 => chain'.hold <= d.until /\ d.until <= now' + HoldTime
    <3>1. d = [ read |-> d.read, until |-> d.until ] /\ d.read = c.read /\ d.until = now + HoldTime
          BY <2>1, <1>6
    <3>2. Begun(d.read)'
          BY <3>1, <1>1, <1>3 DEF Begun
    <3> QED
        BY <3>1, <3>2, <1>1, <1>4, <1>7
  <2>2. chain' # Over => Begun(chain)'
        BY <1>1 DEF PanelIInv, Clocked, Begun
  <2>3. now' \in Nat /\ begun' \subseteq Runs /\ chain'.hold \in Nat /\ chain'.hold <= now' + HoldTime
        BY <1>1 DEF PanelIInv, Clocked
  <2> QED
      BY <2>1, <2>2, <2>3 DEF Clocked
<1>9. Noted'
  <2>1. \A d \in called' : d.until # 0 => fired' <= d.until
        BY <1>1, <1>6, <1>7
  <2> QED
      BY <1>1, <2>1 DEF PanelIInv, Noted
<1>10. ASSUME refused = 0 PROVE Recorded'
  <2>1. \A d \in called' : d.read # chain' => \A stage \in Stages : ~AskedToLeave(d.read.id, stage)'
        BY <1>1, <1>2, <1>6, <1>10 DEF PanelIInv, Recorded, AskedToLeave
  <2>2. Behind'
        BY <1>1, <1>10 DEF PanelIInv, Recorded, Behind, Stage, AskedToLeave
  <2> QED
      BY <1>1, <1>10, <2>1, <2>2 DEF PanelIInv, Recorded
<1>11. Recorded'
      BY <1>1, <1>10 DEF Recorded
<1> QED
    BY <1>1, <1>8, <1>9, <1>11 DEF PanelIInv

(* What a call leaves is a chain of the run it read, where it was or a     *)
(* stage further, or none; if parked, then later than any hold before.     *)
LEMMA LeftIs ==
    ASSUME PanelIInv, NEW c \in called, NEW ch \in Left(c), ch # Over
    PROVE  /\ Begun(ch)
           /\ ch.id = c.read.id /\ ch.order = c.read.order
           /\ ch.at \in {c.read.at, c.read.at + 1}
           /\ ch.hold \in {0, c.read.hold, c.until} /\ (c.until # 0 => ch.hold = c.until)
<1> DEFINE r == c.read
<1>1. /\ r = [ id |-> r.id, order |-> r.order, at |-> r.at, hold |-> r.hold ]
      /\ r.id \in begun /\ r.order \in Orders /\ r.at \in 1..Len(r.order) /\ r.hold \in Nat
      /\ c.until \in Nat
      BY DEF PanelIInv, Clocked, Begun
<1>2. r.order \in Seq(Stages) /\ Len(r.order) \in Nat /\ r.at \in Nat
      BY <1>1, PanelAssumption
<1> HIDE DEF r
<1>3. [r EXCEPT !.hold = 0] = [ id |-> r.id, order |-> r.order, at |-> r.at, hold |-> 0 ]
      BY <1>1
<1>4. [r EXCEPT !.hold = c.until] = [ id |-> r.id, order |-> r.order, at |-> r.at, hold |-> c.until ]
      BY <1>1
<1> DEFINE free == [ id |-> r.id, order |-> r.order, at |-> r.at, hold |-> 0 ]
<1>5. [free EXCEPT !.at = @ + 1] = [ id |-> r.id, order |-> r.order, at |-> r.at + 1, hold |-> 0 ]
      OBVIOUS
<1>6. CASE c.until # 0
  <2>1. ch = [ id |-> r.id, order |-> r.order, at |-> r.at, hold |-> c.until ]
        BY <1>4, <1>6 DEF Left, r
  <2>2. ch.id = r.id /\ ch.order = r.order /\ ch.at = r.at /\ ch.hold = c.until
        BY <2>1
  <2> QED
      BY <1>1, <2>1, <2>2 DEF Begun, r
<1>7. CASE c.until = 0
  <2>1. ch \in {r, free} \/ (r.at < Len(r.order) /\ ch = [free EXCEPT !.at = @ + 1])
        BY <1>3, <1>7 DEF Left, r
  <2>2. CASE ch = r
        BY <1>1, <1>7, <2>2 DEF Begun, r
  <2>3. CASE ch = free
    <3>1. ch.id = r.id /\ ch.order = r.order /\ ch.at = r.at /\ ch.hold = 0
          BY <2>3
    <3> QED
        BY <1>1, <1>7, <2>3, <3>1 DEF Begun, r
  <2>4. CASE r.at < Len(r.order) /\ ch = [free EXCEPT !.at = @ + 1]
    <3>1. ch = [ id |-> r.id, order |-> r.order, at |-> r.at + 1, hold |-> 0 ]
          BY <2>4, <1>5
    <3>2. ch.id = r.id /\ ch.order = r.order /\ ch.at = r.at + 1 /\ ch.hold = 0
          BY <3>1
    <3>3. r.at + 1 \in 1..Len(r.order)
          BY <1>2, <2>4
    <3> QED
        BY <1>1, <1>7, <3>1, <3>2, <3>3 DEF Begun, r
  <2> QED
      BY <2>1, <2>2, <2>3, <2>4
<1> QED
    BY <1>6, <1>7

LEMMA CallReturnsKeeps ==
    ASSUME PanelIInv, CallReturns, UNCHANGED panel
    PROVE  PanelIInv'
<1>1. /\ called' = {} /\ begun' = begun /\ now' = now
      /\ fired' = fired /\ advanced' = advanced /\ refused' = refused /\ asked' = asked
      BY DEF CallReturns, panel
<1>2. PICK c \in called : chain' \in Left(c)
      BY DEF CallReturns
<1>3. PICK ch : ch = chain'
      OBVIOUS
<1>4. /\ Begun(c.read) /\ c.until \in Nat
      /\ c.read = chain \/ (c.read.id # chain.id /\ c.read.hold = 0)
      /\ c.until # 0 => chain.hold <= c.until /\ c.until <= now + HoldTime /\ fired <= c.until
      BY <1>2 DEF PanelIInv, Clocked, Noted
<1>5. now \in Nat /\ HoldTime \in Nat /\ chain.hold \in Nat /\ chain.hold <= now + HoldTime
      /\ fired \in Nat /\ (chain.hold # 0 => fired <= chain.hold)
      BY PanelAssumption DEF PanelIInv, Clocked, Noted
<1>6. ch # Over =>
          /\ Begun(ch)
          /\ ch.id = c.read.id /\ ch.order = c.read.order
          /\ ch.at \in {c.read.at, c.read.at + 1}
          /\ ch.hold \in {0, c.read.hold, c.until} /\ (c.until # 0 => ch.hold = c.until)
      BY <1>2, <1>3, LeftIs
<1>7. ch = Over => ch.hold = 0
      BY DEF Over
<1>8. /\ ch.hold \in Nat /\ ch.hold <= now + HoldTime
      /\ ch.hold # 0 => fired <= ch.hold
      BY <1>4, <1>5, <1>6, <1>7
<1>9. Clocked'
      BY <1>1, <1>3, <1>5, <1>6, <1>8 DEF PanelIInv, Clocked, Begun
<1>10. Noted'
      BY <1>1, <1>3, <1>5, <1>8 DEF PanelIInv, Noted
<1>11. ASSUME refused = 0, ch # Over, NEW stage \in Stages, AskedToLeave(ch.id, stage)
       PROVE  /\ \E j \in 1..ch.at : stage = ch.order[j]
              /\ stage = ch.order[ch.at] => advanced = stage
  <2>1. c.read = chain
        BY <1>2, <1>6, <1>11 DEF PanelIInv, Recorded
  <2>2. chain # Over
        BY <2>1, <1>4, PanelAssumption DEF Begun, Over, PanelIInv, Clocked
  <2>3. /\ \E j \in 1..chain.at : stage = chain.order[j]
        /\ stage = chain.order[chain.at] => advanced = stage
        BY <1>6, <1>11, <2>1, <2>2 DEF PanelIInv, Recorded, Behind, Stage
  <2>4. PICK j \in 1..chain.at : stage = chain.order[j]
        BY <2>3
  <2>5. ch.order = chain.order /\ ch.at \in {chain.at, chain.at + 1} /\ chain.at \in Nat
        BY <1>4, <1>6, <1>11, <2>1, StagesApart
  <2>6. j \in 1..ch.at /\ stage = ch.order[j]
        BY <2>4, <2>5
  <2>7. stage = ch.order[ch.at] => advanced = stage
    <3>1. CASE ch.at = chain.at
          BY <3>1, <2>3, <2>5
    <3>2. CASE ch.at = chain.at + 1
      <4>1. Begun(ch)
            BY <1>6, <1>11
      <4>2. ch.at \in 1..Len(ch.order) /\ j \in 1..Len(ch.order) /\ j # ch.at
            BY <4>1, <3>2, <2>4, <2>5, StagesApart DEF Begun
      <4>3. ch.order[j] # ch.order[ch.at]
            BY <4>1, <4>2, StagesApart
      <4> QED
          BY <4>3, <2>6
    <3> QED
        BY <2>5, <3>1, <3>2
  <2> QED
      BY <2>6, <2>7
<1>12. ASSUME refused = 0 PROVE Recorded'
  <2>1. Behind'
        BY <1>1, <1>3, <1>11, <1>12 DEF Behind, Stage, AskedToLeave
  <2> QED
      BY <1>1, <1>12, <2>1 DEF PanelIInv, Recorded
<1>13. Recorded'
      BY <1>1, <1>12 DEF Recorded
<1> QED
    BY <1>1, <1>9, <1>10, <1>13 DEF PanelIInv

LEMMA IsLostKeeps ==
    ASSUME PanelIInv, IsLost, UNCHANGED panel
    PROVE  PanelIInv'
<1>1. /\ chain' = chain /\ called' = {} /\ begun' = begun /\ now' = now
      /\ fired' = fired /\ advanced' = advanced /\ refused' = refused /\ asked' = asked
      BY DEF IsLost, panel
<1>2. Clocked'
      BY <1>1 DEF PanelIInv, Clocked, Begun
<1>3. Noted'
      BY <1>1 DEF PanelIInv, Noted
<1>4. Recorded'
      BY <1>1 DEF PanelIInv, Recorded, Behind, Stage, AskedToLeave
<1> QED
    BY <1>1, <1>2, <1>3, <1>4 DEF PanelIInv

LEMMA LaterKeeps == ASSUME PanelIInv, Later PROVE PanelIInv'
<1>1. /\ chain' = chain /\ called' = called /\ begun' = begun /\ now' = now + 1
      /\ fired' = fired /\ advanced' = advanced /\ refused' = refused /\ asked' = asked
      BY DEF Later, TimePasses, panel
<1>2. now \in Nat /\ HoldTime \in Nat
      BY PanelAssumption DEF PanelIInv, Clocked
<1>3. Clocked'
      BY <1>1, <1>2 DEF PanelIInv, Clocked, Begun
<1>4. Noted'
      BY <1>1, <1>2 DEF PanelIInv, Noted
<1>5. Recorded'
      BY <1>1 DEF PanelIInv, Recorded, Behind, Stage, AskedToLeave
<1> QED
    BY <1>1, <1>3, <1>4, <1>5 DEF PanelIInv

(* Nothing but these two sends a prompt unasked.                           *)
LEMMA PanelStep ==
    ASSUME PanelIInv, [PanelNext]_panelVars
    PROVE  /\ PanelIInv'
           /\ \A p \in sending' \ sending :
                p.kind \in Unasked /\ refused = 0 => p.about \notin asked
<1>1. CASE UNCHANGED panelVars
  <2>1. UNCHANGED asks /\ sending' = sending
        BY <1>1 DEF panelVars, panel, asks
  <2> QED
      BY <2>1, AsksStill
<1>2. CASE PressRun \/ (\E kind \in {"continue", "restart"} : Press(kind))
      BY <1>2, PressKeeps
<1>3. CASE Wake
  <2>1. \A p \in sending' \ sending : p = [kind |-> "wake", about |-> <<chain.hold>>]
        BY <1>3 DEF Wake, Go
  <2> QED
      BY <1>3, <2>1, WakeKeeps
<1>4. CASE Advance
  <2>1. \A p \in sending' \ sending : p = [kind |-> "advance", about |-> <<chain.id, Stage>>]
        BY <1>4 DEF Advance, Go
  <2> QED
      BY <1>4, <2>1, AdvanceKeeps
<1>5. CASE ClearAuto \/ Typed \/ TurnEnds
  <2>1. UNCHANGED asks /\ sending' = sending
        BY <1>5 DEF ClearAuto, Typed, TurnEnds, asks
  <2> QED
      BY <2>1, AsksStill
<1>6. CASE Remount
  <2>1. sending' = sending
        BY <1>6 DEF Remount
  <2> QED
      BY <1>6, <2>1, RemountKeeps
<1>7. ASSUME NEW p \in sending, Lands(p) \/ Refused(p)
      PROVE  PanelIInv' /\ sending' \subseteq sending
  <2>1. sending' \subseteq sending
        BY <1>7 DEF Lands, Refused
  <2> QED
      BY <1>7, <2>1, LandsKeeps, RefusedKeeps
<1>8. CASE ModelCalls
  <2>1. sending' = sending
        BY <1>8 DEF ModelCalls, panel
  <2> QED
      BY <1>8, <2>1, ModelCallsKeeps
<1>9. CASE CallGoesOn
  <2>1. UNCHANGED panel /\ sending' = sending
        BY <1>9 DEF CallGoesOn, panel
  <2> QED
      BY <1>9, <2>1, IsSpentKeeps, CallReturnsKeeps, IsLostKeeps DEF CallGoesOn
<1>10. CASE Later
  <2>1. sending' = sending
        BY <1>10 DEF Later, panel
  <2> QED
      BY <1>10, <2>1, LaterKeeps
<1> QED
    BY <1>1, <1>2, <1>3, <1>4, <1>5, <1>6, <1>7, <1>8, <1>9, <1>10 DEF PanelNext

THEOREM PanelInductive == PanelSpec => []PanelIInv
<1>1. PanelIInv /\ [PanelNext]_panelVars => PanelIInv'
      BY PanelStep
<1> QED
    BY PanelInitHolds, <1>1, PTL DEF PanelSpec

(* While no send was refused, the control sends unasked one prompt for a   *)
(* hold and one for a stage of a run, for any runs, orders and clocks,     *)
(* however its effects run and its prompts overlap                         *)
(* (PipelineControl.tsx:173-177, 279-291).                                 *)
THEOREM AskedHolds == PanelSpec => AskedOnce
<1>1. PanelIInv /\ [PanelNext]_panelVars =>
          [ \A p \in sending' \ sending :
              p.kind \in Unasked /\ refused = 0 => p.about \notin asked ]_panelVars
      BY PanelStep
<1> QED
    BY PanelInductive, <1>1, PTL DEF PanelSpec, AskedOnce
=============================================================================
