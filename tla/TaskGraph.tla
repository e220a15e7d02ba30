------------------------------ MODULE TaskGraph ------------------------------
(***************************************************************************)
(* The graph of units a swarm runs (decompose.ts): what a planning seat's  *)
(* reply is read into, and the faults that keep it from running.           *)
(*                                                                         *)
(* A graph is the sequence of units as they were listed.  Circularity is   *)
(* not among the faults here: the code finds it by removing units one at a *)
(* time, and the module that runs a graph does the same.                   *)
(***************************************************************************)
EXTENDS Integers, Sequences

CONSTANTS
    Ids,      \* identifiers a reply may use, for units and for what they follow
    MaxTasks  \* MAX_TASKS

ASSUME TaskGraphAssumption == MaxTasks \in Nat

Profiles == {"none", "economy", "fastest"}

IdsOf(tasks) == {tasks[i].id : i \in DOMAIN tasks}

(* The unit an identifier names: the last one listed under it.             *)
Place(tasks, u) ==
    CHOOSE i \in DOMAIN tasks : tasks[i].id = u /\ \A j \in DOMAIN tasks : tasks[j].id = u => j <= i
After(tasks, u) == tasks[Place(tasks, u)].after
FilesOf(tasks, u) == tasks[Place(tasks, u)].files

Repeats(tasks) == \E i, j \in DOMAIN tasks : i # j /\ tasks[i].id = tasks[j].id

(* Economy needs conditions a unit can be reviewed against.                *)
Vague(tasks, profile) == profile = "economy" /\ \E i \in DOMAIN tasks : ~tasks[i].acceptance

(* With a mode, two units never target the same file.                      *)
Overlap(tasks, profile) ==
    /\ profile # "none"
    /\ \E i, j \in DOMAIN tasks :
         tasks[i].id # tasks[j].id /\ tasks[i].files \intersect tasks[j].files # {}

(* Mutant: what a unit follows need not exist.                             *)
DanglingSelf(tasks) == \E i \in DOMAIN tasks : tasks[i].id \in tasks[i].after

Dangling(tasks) ==
    \E i \in DOMAIN tasks : tasks[i].id \in tasks[i].after \/ ~(tasks[i].after \subseteq IdsOf(tasks))

NothingStarts(tasks) == \A i \in DOMAIN tasks : tasks[i].after # {}

Faulty(tasks, profile) ==
    \/ Len(tasks) \notin 1..MaxTasks
    \/ Repeats(tasks)
    \/ Vague(tasks, profile)
    \/ Overlap(tasks, profile)
    \/ Dangling(tasks)
    \/ NothingStarts(tasks)

(* Units each of which follows another of them: none of them can ever run. *)
(* A graph that has such units is circular.                                *)
Knot(tasks, S) == \A u \in S : After(tasks, u) \intersect S # {}
=============================================================================
