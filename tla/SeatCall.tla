------------------------------ MODULE SeatCall ------------------------------
(***************************************************************************)
(* The calls a run makes to one seat (seats.ts): the probe of a local      *)
(* backend, the command of a CLI seat in each spelling the platform may    *)
(* know it by, and the request of a hosted seat, streamed or whole.  What  *)
(* the seat says is kept only as far as there is any; time is counted in   *)
(* the limits' units, and a timer that is due fires before it goes on.     *)
(***************************************************************************)
EXTENDS Integers

CONSTANTS
    SeatConfigs,  \* the seats to consider
    RunLimit,     \* the run's cap on a call
    ProbeLimit,   \* PROBE_TIMEOUT_MS
    Calls         \* how many calls the run makes to the seat

(* ready: a command is configured, or a model and the key it needs; local: *)
(* it answers through a loopback backend; spellings: how many the command  *)
(* has; cap: the seat's own, 0 when it has none; idle: the silence a       *)
(* stream is allowed.                                                      *)
SeatConfig ==
    [ transport : {"cli", "openrouter"}, ready : BOOLEAN, local : BOOLEAN,
      spellings : Nat \ {0}, cap : Nat, idle : Nat \ {0} ]

ASSUME SeatAssumption ==
    /\ SeatConfigs \subseteq SeatConfig
    /\ {RunLimit, ProbeLimit, Calls} \subseteq Nat \ {0}

VARIABLES
    seat,      \* the seat
    pc,        \* what is awaited
    made,      \* the calls made
    spelling,  \* the candidate being spawned
    held,      \* what the call holds that must be let go
    left,      \* time left of the limit in force
    quiet,     \* time left before a stream is judged dead
    heard,     \* the seat has said something
    aborted,   \* the run's signal
    reply,     \* what the last call returned
    spent,     \* history: time the call has taken
    late       \* history: how much of it after an abort the call could hear

vars == <<seat, pc, made, spelling, held, left, quiet, heard, aborted, reply, spent, late>>

Errors == {"none", "unconfigured", "missing", "spawn", "timed out", "aborted", "exit",
           "http", "empty", "failed"}
NoReply == [ text |-> FALSE, error |-> "none" ]

(* A seat's own cap wins over the run's, in both directions.               *)
Cap == IF seat.cap = 0 THEN RunLimit ELSE seat.cap

Init ==
    /\ seat \in SeatConfigs
    /\ pc = "start"
    /\ made = 0 /\ spelling = 0
    /\ held = {} /\ left = 0 /\ quiet = 0
    /\ heard = FALSE /\ aborted = FALSE
    /\ reply = NoReply
    /\ spent = 0 /\ late = 0

-----------------------------------------------------------------------------
(* probeSeat: a refused connection says at once what a call says at its    *)
(* limit, so a seat whose backend is down is never called.                 *)
Probe ==
    /\ pc = "start"
    /\ IF seat.local
       THEN pc' = "probing" /\ held' = {"socket"} /\ left' = ProbeLimit
       ELSE pc' = "ready" /\ UNCHANGED <<held, left>>
    /\ UNCHANGED <<seat, made, spelling, quiet, heard, aborted, reply, spent, late>>

(* Connected, refused, or given up on when the time is up.                 *)
Probed(next) ==
    /\ pc = "probing"
    /\ pc' = next
    /\ held' = {}
    /\ UNCHANGED <<seat, made, spelling, left, quiet, heard, aborted, reply, spent, late>>

ProbeTimesOut == left = 0 /\ Probed("over")

-----------------------------------------------------------------------------
(* A call returns, and lets go of what it holds.                           *)
Return(text, error) ==
    /\ reply' = [ text |-> text, error |-> error ]
    /\ held' = {}
    /\ pc' = "ready"

(* askSeat: an unconfigured seat fails at once; a request is sent under    *)
(* the run's signal and a limit of its own.                                *)
Ask ==
    /\ pc = "ready" /\ made < Calls
    /\ made' = made + 1
    /\ spent' = 0 /\ late' = 0
    /\ heard' = FALSE
    /\ \/ ~seat.ready /\ Return(FALSE, "unconfigured") /\ UNCHANGED <<spelling, left>>
       \/ /\ seat.ready /\ seat.transport = "cli"
          /\ pc' = "spawning" /\ spelling' = 1
          /\ UNCHANGED <<held, left, reply>>
       \/ /\ seat.ready /\ seat.transport = "openrouter"
          /\ pc' = "connecting" /\ held' = {"request"} /\ left' = Cap
          /\ UNCHANGED <<spelling, reply>>
    /\ UNCHANGED <<seat, quiet, aborted>>

(* runOnce: spawn throws, or a child is there with its timer and with an   *)
(* ear for the abort, though not for one that came before.                 *)
Spawn ==
    /\ pc = "spawning"
    /\ pc' = "starting"
    /\ held' = {"child", "timer", "listener"}
    /\ left' = Cap
    /\ heard' = FALSE
    /\ UNCHANGED <<seat, made, spelling, quiet, aborted, reply, spent, late>>

(* This spelling is not there, whether spawn throws or the child says so:  *)
(* the next gets its turn.                                                 *)
Missing ==
    /\ pc \in {"spawning", "starting"}
    /\ IF spelling < seat.spellings
       THEN pc' = "spawning" /\ spelling' = spelling + 1 /\ held' = {} /\ UNCHANGED reply
       ELSE Return(FALSE, "missing") /\ UNCHANGED spelling
    /\ UNCHANGED <<seat, made, left, quiet, heard, aborted, spent, late>>

(* It is there and cannot be started.                                      *)
CannotStart ==
    /\ pc \in {"spawning", "starting"}
    /\ Return(FALSE, "spawn")
    /\ UNCHANGED <<seat, made, spelling, left, quiet, heard, aborted, spent, late>>

Started ==
    /\ pc = "starting"
    /\ pc' = "child"
    /\ UNCHANGED <<seat, made, spelling, held, left, quiet, heard, aborted, reply, spent, late>>

Prints ==
    /\ pc = "child" /\ ~heard
    /\ heard' = TRUE
    /\ UNCHANGED <<seat, pc, made, spelling, held, left, quiet, aborted, reply, spent, late>>

(* What was printed is the answer if the child ends well, be it nothing,   *)
(* and is returned beside the error if not.                                *)
Exits ==
    /\ pc = "child"
    /\ \E error \in {"none", "exit"} : Return(heard, error)
    /\ UNCHANGED <<seat, made, spelling, left, quiet, heard, aborted, spent, late>>

(* Mutant: the call is answered and the child left to itself.              *)
TimesOutAlone ==
    /\ pc = "child" /\ left = 0
    /\ reply' = [ text |-> heard, error |-> "timed out" ]
    /\ held' = {"child"}
    /\ pc' = "ready"
    /\ UNCHANGED <<seat, made, spelling, left, quiet, heard, aborted, spent, late>>

(* Mutant: a child that has printed nothing is taken to be at work.        *)
TimesOutOnceHeard ==
    /\ pc = "child" /\ left = 0 /\ heard
    /\ Return(heard, "timed out")
    /\ UNCHANGED <<seat, made, spelling, left, quiet, heard, aborted, spent, late>>

(* The child is killed and the call answered with what there is.           *)
TimesOut ==
    /\ pc = "child" /\ left = 0
    /\ Return(heard, "timed out")
    /\ UNCHANGED <<seat, made, spelling, left, quiet, heard, aborted, spent, late>>

-----------------------------------------------------------------------------
(* The reply begins: refused by its status, streamed, or whole.            *)
Responds ==
    /\ pc = "connecting"
    /\ \/ pc' \in {"refused", "whole"} /\ UNCHANGED <<held, quiet>>
       \/ pc' = "stream" /\ held' = held \union {"idle"} /\ quiet' = seat.idle
    /\ UNCHANGED <<seat, made, spelling, left, heard, aborted, reply, spent, late>>

(* Mutant: whatever arrives is taken for proof that the call is well.      *)
ChunkExtends ==
    /\ pc = "stream"
    /\ quiet' = seat.idle /\ left' = Cap
    /\ heard' \in {heard, TRUE}
    /\ UNCHANGED <<seat, pc, made, spelling, held, aborted, reply, spent, late>>

(* Bytes arrive, of the answer or to keep the connection warm.             *)
Chunk ==
    /\ pc = "stream"
    /\ quiet' = seat.idle
    /\ heard' \in {heard, TRUE}
    /\ UNCHANGED <<seat, pc, made, spelling, held, left, aborted, reply, spent, late>>

(* The stream ends, finished or cut off alike, or the body is there.       *)
Arrives ==
    /\ \/ pc = "stream" /\ heard' = heard
       \/ pc = "whole" /\ heard' \in BOOLEAN
    /\ Return(heard', IF heard' THEN "none" ELSE "empty")
    /\ UNCHANGED <<seat, made, spelling, left, quiet, aborted, spent, late>>

Refuses ==
    /\ pc = "refused"
    /\ Return(FALSE, "http")
    /\ UNCHANGED <<seat, made, spelling, left, quiet, heard, aborted, spent, late>>

(* The connection fails, or the body is not what it should be.             *)
Breaks ==
    /\ pc \in {"connecting", "whole", "stream"}
    /\ Return(FALSE, "failed")
    /\ UNCHANGED <<seat, made, spelling, left, quiet, heard, aborted, spent, late>>

(* Mutant: the request is sent under its own limits only.                  *)
FiredByLimit == left = 0 \/ ("idle" \in held /\ quiet = 0)

(* One of the signals of the request has fired: what was heard is lost.    *)
Fired == aborted \/ left = 0 \/ ("idle" \in held /\ quiet = 0)

Cut ==
    /\ "request" \in held /\ Fired
    /\ Return(FALSE, IF pc = "refused" THEN "http" ELSE "failed")
    /\ UNCHANGED <<seat, made, spelling, left, quiet, heard, aborted, spent, late>>

-----------------------------------------------------------------------------
(* The probe found nobody there, or the run has made its calls.            *)
Finished == pc = "over" \/ (pc = "ready" /\ made = Calls)

(* The run is aborted: a child that listens is killed there and then.      *)
Abort ==
    /\ ~aborted /\ ~Finished
    /\ aborted' = TRUE
    /\ IF "listener" \in held
       THEN Return(heard, "aborted")
       ELSE UNCHANGED <<reply, held, pc>>
    /\ UNCHANGED <<seat, made, spelling, left, quiet, heard, spent, late>>

(* A timer or a signal that is due is served before time goes on.          *)
Due == left = 0 \/ ("request" \in held /\ Fired)

Tick ==
    /\ pc \in {"probing", "child", "connecting", "refused", "whole", "stream"}
    /\ ~Due
    /\ left' = left - 1
    /\ quiet' = IF "idle" \in held THEN quiet - 1 ELSE quiet
    /\ spent' = spent + 1
    /\ late' = IF aborted THEN late + 1 ELSE late
    /\ UNCHANGED <<seat, pc, made, spelling, held, heard, aborted, reply>>

-----------------------------------------------------------------------------
(* What the program and its timers do, whatever the seat does.             *)
Own ==
    \/ Probe \/ ProbeTimesOut \/ Ask \/ Spawn \/ Missing \/ CannotStart \/ Started
    \/ TimesOut \/ Cut \/ Tick

(* What the seat, its backend and the user do, if they ever do.            *)
Others ==
    \/ \E next \in {"ready", "over"} : Probed(next)
    \/ Prints \/ Exits \/ Responds \/ Chunk \/ Arrives \/ Refuses \/ Breaks
    \/ Abort

Next == Own \/ Others

(* Nothing is assumed of the seat: that it ever connects, prints, ends or  *)
(* falls silent.  The program's steps are taken and time goes on.          *)
Spec == Init /\ [][Next]_vars /\ WF_vars(Own)

-----------------------------------------------------------------------------
TypeOK ==
    /\ seat \in SeatConfigs
    /\ pc \in {"start", "probing", "ready", "spawning", "starting", "child",
               "connecting", "refused", "whole", "stream", "over"}
    /\ made \in 0..Calls /\ spelling \in 0..seat.spellings
    /\ held \subseteq {"socket", "child", "timer", "listener", "request", "idle"}
    /\ {left, quiet, spent, late} \subseteq Nat
    /\ {heard, aborted} \subseteq BOOLEAN
    /\ reply \in [ text : BOOLEAN, error : Errors ]

(* When no call is under way nothing of one is left: no child runs, no     *)
(* timer, listener, socket or request is held; while one is, it holds all  *)
(* that will end it.  And a reply without text says why, unless a command  *)
(* ended well and printed nothing (seats.ts:461-484, 777-799, 889-944).    *)
(* The overall limit of a request is an AbortSignal.timeout nobody can     *)
(* cancel (seats.ts:636): it fires later and ends nothing any more, so it  *)
(* is part of what "request" stands for, and not counted beyond it.        *)
AtRest ==
    /\ TypeOK
    /\ pc \in {"start", "ready", "spawning", "over"} => held = {}
    /\ pc \in {"starting", "child"} => held = {"child", "timer", "listener"}
    /\ pc \in {"connecting", "refused", "whole"} => held = {"request"}
    /\ pc = "stream" => held = {"request", "idle"}
    /\ pc = "ready" /\ made > 0 /\ ~reply.text /\ reply.error = "none"
         => seat.transport = "cli"

(* A call takes no longer than its cap, over all the spellings tried and   *)
(* whatever keeps a stream alive; and one that goes on after an abort is   *)
(* that of a command, begun when the run was aborted already               *)
(* (seats.ts:474-482, 641-643, 973).                                       *)
InTime ==
    made > 0 =>
        /\ spent <= Cap
        /\ late > 0 => seat.transport = "cli" /\ late = spent

(* The seat is done with, though its backend accepts and says nothing, its *)
(* command hangs, or its stream never stops (seats.ts:469-488, 641-643).   *)
AllAnswered == <>Finished
=============================================================================
