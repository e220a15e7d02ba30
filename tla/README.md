# TLA+ models of the council, its gates, its swarm and its proxy

These modules model the parts of the repository where order, money and failure
meet: who may spend, what a chain of paid stages keeps between calls, how a
roster of models is asked and counted, and how a proxy rotates through free
models. TLC checks each on small instances. TLAPS proves the properties that
matter most for every instance.

Paths below are relative to `src/packages/council/tool-council/src/` unless they
name another directory.

## 1. The system

A host program mounts plugins and shows a browser client. A model in a session
calls *tools*. The tools here ask several language models (*seats*), which cost
money or a share of a subscription, and a person approves that in the browser.

| Component | State | Operations | Talks to |
|---|---|---|---|
| **Approval gate** (`approval.ts`, `index.ts`) | per gate, in settings: pending plan, its request, when it was issued, approved plan, when it was approved; in memory: time of the last user turn | a tool call reads a snapshot, is judged, plans or pays, then issues or retires; Approve, Discard, auto-approve | settings document, browser, session turns |
| **Pipeline** (`pipeline.ts`, `quota-hold.ts`, `index.ts`) | the chain in settings: run, order, stage, graph, candidates, pick, hold | one call advances one stage; a spent allowance parks it | the three gates, council, propose and swarm |
| **Pipeline panel** (`PipelineControl.tsx`) | the hold it answered, the stage it asked for, a send under way; in settings: auto-advance | Run, Continue, Restart, Resume; a prompt of its own when a hold is over or a stage is done | session, settings |
| **Gate strip, call cards** (`ui-council-budget`) | none of their own | offer Approve, Discard or the pick; write settings | settings |
| **Council run** (`council.ts`, `merge.ts`, `verify.ts`) | one run: round, replies, absent backends, plan, drafts, reviews | probe, plan, vote, merge, gate, research, draft, review, audit, tally | seats, web, files |
| **Run records** (`runs.ts`, `council.ts`) | a JSON file per run: drafts, reviews, amendments | file, load, amend, prune | disk, seats |
| **Swarm run** (`swarm.ts`, `decompose.ts`) | a graph of units, assignment, wave, what became of each | decompose, check, assign, run waves, skip | seats, roster, files |
| **Swarm roster** (`roster.ts`) | none: computed from seats and overrides | assign a seat to each unit | swarm, panels |
| **Unit contest** (`swarm-contest.ts`) | candidates of one unit | propose, vote, paid review, one escalation | seats, staging |
| **Seat calls** (`seats.ts`) | a child process or a stream | ask, time out, abort, probe | CLIs, OpenRouter, the proxy |
| **Proposal round** (`propose.ts`, `select.ts`, `writes.ts`, `files.ts`) | a candidate tree per seat, on disk | propose, read once, stage, read back, vote, select | seats, staging, its gate |
| **Staged copies** (`staging.ts`) | none | check a batch of files and write them | session files |
| **Free model proxy** (`src/proxies/openrouter-free`) | catalogue, pool in rotation order, benched models, error counts, timers | refresh, rebuild, choose, forward, retry, bench, re-enable, ping | OpenRouter, clients |
| **Web search routing** (`web-search-cli`) | load, record and cooldown of each lane | order lanes, begin, settle, fall to the next | CLIs, metered search |
| **Claude quota, agent memory** | a published reading; a table and a digest file | read on request; remember, forget, render | CLI, storage |
| **Prices, budget, usage, reports, presets** | none or a cache | arithmetic and rendering | accounts, logs |
| **Panels, scripts, host patches** | settings they mirror; processes | show, switch, start, stop | host |

### What is hard here, and what makes each part correct

* **Gates.** A tool reads settings once, awaits minutes of work and then writes
  from what it read. Presses, turns, other calls, refused writes and a restart
  come in between; Approve itself is two unawaited writes. Correct means: no
  spending without a press on that very plan and a later message; an approval
  pays once; a waiting plan is not displaced.
* **Pipeline.** Chain and gate are separate writes; council and review share a
  gate; a pick may be made during a stage. Correct means: no stage before the
  work of those before it, each on an approval of its own, and the pick kept.
* **Council.** Every seat can fail in every round, in any order; the plan can be
  voted, merged, fallen back to or skipped. Correct means: the gate holds
  whichever way planning went, a plan is found if any seat can write one, an
  absent backend is called once, and the count of votes means what it says.
* **Amendments.** Records are read, improved and written back without a lock.
  Correct means: first answers survive, retries are capped, kept votes that
  are out of date are named.
* **Swarm.** A model writes the graph, so it may be anything. Correct means: no
  run stalls on it, no unit runs before or despite what it depends on, only what
  hangs on a failure is left out, no switched-off seat works, and load is spread.
* **Contest.** Proposers, voters, a reviewer and one escalation can each fail, and
  a vote may name anyone. Correct means: nothing leaves a unit that a reviewer
  did not accept, calls stay within what the approved estimate counted, and reads
  and staged bytes within their limits.
* **Proposal round.** Any seat may fail, stage nothing, or stage what cannot be read
  back, and a vote may name anyone. Correct means: what is selected is there and
  was the only version or was voted for, within the same limits on files, and a
  seat costs two calls and one read.
* **Seats.** A child or a stream can end by itself, by its timer, by an abort or
  by an error, and several of these at once. Correct means: nothing it held
  outlives a call, and a call ends within its cap.
* **Search.** A search is ordered once and walks for minutes while others bench
  and free the same lanes; a round of them runs on a pool. Correct means: the
  counters are true, money is the last resort, a bench lasts, and the evidence is
  whole and in the order asked.
* **Panel.** It knows the chain only from settings, one effect later, and its
  prompts may wait, overlap or be refused. Correct means: a parked chain comes
  back, and nothing is asked twice.
* **Proxy.** Timers, a refreshed catalogue, a keep-alive loop and requests
  interleave at each await. Correct means: an answer has one author, a request
  never retries a model that failed it, every benching ends, and every request
  whose calls end, and no request goes to a model that is not free.

`PROJECT.json` lists the hazards line by line with the properties that cover
them, and the ones no property covers with the reason.

## 2. The modules

| Module | Models | Kind |
|---|---|---|
| `ApprovalJudge` | the decision of `approval.ts` as operators on a gate's slot | pure |
| `ApprovalGate` | calls, settings, presses, turns, clock, restarts | system |
| `Consent` | what a gate promises: offer, press, spend; `ApprovalGate` implements it | abstract specification |
| `Pipeline` | the chain, on the gates of `ApprovalJudge` (`INSTANCE`) | system |
| `ChainSteps` | what the chain promises; `Pipeline` implements it | abstract specification |
| `PipelinePanel` | the control in the browser, over `ChainSteps` | system |
| `PipelineWake` | `Pipeline` with turns told apart: a person's, or the prompt of a hold that is over | system |
| `CouncilVerdict` | outcomes, ballots, weights and the tally | pure |
| `CouncilRun` | one council run, on `CouncilVerdict` | system |
| `CouncilAmend` | one record and its overlapping amendments, on `CouncilVerdict` | system |
| `TaskGraph` | graphs of units and their faults | pure |
| `Roster` | which seat takes which unit (a fold over the units) | pure |
| `SwarmRun` | one swarm run, on `TaskGraph` and `Roster` | system |
| `UnitContest` | one contested unit, with its reads, staged writes, vote, review and escalation | system |
| `ProposalRound` | the proposing round and its vote, on the seats, reads and trees of `UnitContest`, whose contests go on in it as they are | system |
| `SeatCall` | the calls a run makes to one seat: probe, spellings, child, stream, timers, abort | system |
| `WebTraffic` | the lanes of web search, and searches that walk them | system |
| `Research` | a council's research round, on `WebTraffic` | system |
| `FreePool` | the proxy: catalogue, pool, keep-alive loop, requests | system |
| `ApprovalGateProofs`, `PipelineProofs`, `SwarmRunProofs` | theorems about the module they are named for | proofs |
| `CouncilVerdictProofs` | about `CouncilVerdict`, and about recursion along the natural numbers, which other proofs cite | proofs |
| `CouncilRunProofs` | about `CouncilRun` and `CouncilAmend` | proofs |
| `ContestProofs` | about `UnitContest` and `ProposalRound` | proofs |
| `WebTrafficProofs` | about `WebTraffic` and `Research` | proofs |
| `EdgeProofs` | about `SeatCall`, `FreePool` and `PipelinePanel` | proofs |
| `MC*` | the same systems on the instances TLC checks | instances |

A definition whose comment begins "Mutant:" is a plausible mistake in the
definition that follows it. No specification uses one. It is there to show that
the property it breaks does depend on that line of the code.

### How state and actions correspond to the code

**ApprovalGate.** A `Slot` is the five settings keys of a gate. `Ask` is the head
of a tool's `execute`: settings are read, the approval is judged, a waiting plan
is shown again. `BeginPaid` is the spending call; the await lies between it and
`ReturnPlan`, `ReturnBlocked` or `ReturnFull`, which write the slot from what was
read. `PressApprove`, `ApprovedIdArrives` and `ApprovedAtArrives` are the two
writes of Approve. `UserTurn` stamps memory, `Restart` forgets it. What a plan
was issued for, whether it was pressed and whether it was paid is history.

**Pipeline.** `chain` is the pipeline part of settings. A call has three steps
other actors may come between: `Snapshot`, the stage with the write of its gate,
`WriteChain`. Approve is one step here; `ApprovalGate` takes it apart. What the
workers of a swarm report is left out: it is written and never read back.
`BystanderIssues` and `BystanderSpends` are the standalone tools on the same gates.

**ChainSteps** keeps of all that the run, the place in its order and the hold: a
call reads the chain and leaves it alone, parked, one stage on or over.
`PipelinePanel` needs no more.

**PipelinePanel.** `Press`, `Wake` and `Advance` send a prompt; `Lands` is the
session taking it, `Refused` the session refusing it, `ModelCalls` the model
calling the tool in the turn it began, `TurnEnds` the model not doing so. `Wake` has
no guard on a send under way, as in the code. `ClearAuto` may run before the first
call ends, since the id of the run is written only then (`index.ts:234-235` of
`ui-council-budget`). A stage is compared by name even across runs.

**CouncilRun.** One phase per round. `Reply` ends one seat's call with one of six
outcomes: text, no text, an error that still carries text (a CLI seat cut off),
an error, an error that means nothing listens, or not called at all. The code
asks seats at once or in sequence; a seat is asked once per round and only its
own reply can put it on the absent list, so both do the same and one action
stands for both. Research decides nothing here but the order (drafts follow in
any case): `Research` takes it apart. The audit is a penalty per draft.

**CouncilVerdict.** Scores are whole numbers. A confidence is a natural number,
a self-vote weighs 1 and another 2, a penalty is in tenths, so each score is a
fixed multiple of the code's. The code compares floating-point numbers; a tie
broken by rounding is outside the model.

**CouncilAmend.** `Resume` reads the record, `Redraft` asks the seats without a
draft, `Rereview` asks the reviewers that erred, writes the record back or fails
to, and reports. `begun` counts what was spent; `slipped` remembers that an
amendment overlapped another or was not saved. The verdict of an amendment is
that of `CouncilVerdict` and is not recomputed here.

**SwarmRun.** `Decompose` takes whatever a seat writes. `Prune` removes one unit
nothing left holds back, as `validateGraph` does in its search for a circle.
`Assign` applies `Roster`. `StartWave`, `Ask`, `ShowFiles`, `Answer`, `Skip` and
`EndWave` are the wave loop; `TurnOf` is the sequential option. With a mode a
unit is a contest, here one answer: `UnitContest` takes it apart.

**UnitContest.** A seat is its place in the roster, a maker is what one seat is
doing: asked, shown files, made something or spoilt. `Gathered` is `gatherFiles`
and `Applied` is `applyWrites`, each a fold over a list with two limits; any path
may turn out unreadable. `Submit`, `Votes`, `VotesIn`, `ReviewIn`, `Escalate`,
`FallbackIn` and `RereviewIn` are the course of the contest. `calls` counts what
the estimate of `swarm.ts:431-433` prices; a maker's `reads` stays set when it was
shown files once, which is what a third call must be for (`OneRead`).

**ProposalRound.** A round is a contest with profile `propose` and goes by steps of its
own: `ProposeAsk`, `Silent`, `AsksToRead`, `Reads` and `Keeps` are a seat's reply and
its one read, `Stages` its tree, `Select` the reading back, and `ProposeVotes` and
`ProposeVotesIn` the vote. The first reply stands when the one that was shown files
fails. `RoundNext` is either course, so one run and one invariant cover both.

**SeatCall.** `left` is the time the call may still take, `held` what it has open: a
child, a listener, timers, a request. `Spawn`, `Missing` and `CannotStart` go through
the spellings; `Exits` and `TimesOut` end a child; `Responds`, `Chunk`, `Arrives`,
`Refuses`, `Breaks` and `Cut` are a hosted request. A listener added after the abort
hears nothing. `Tick` passes one unit, and not past a timer that is due.

**WebTraffic.** The counters of a lane, the bench of a lane, and per search what is
left of its order, the lanes reported, and whether an abort reaches what runs.
`Start` orders; `Balance`, `Answer`, `Respell`, `Fault` and `Abandon` are what may
happen next on the lane in use. An aborted search settles its lane as answered,
as `router.ts:119-124` does. **Research** adds the pool: `Collect` deduplicates what
the seats asked for, `Take` is a worker, `Gather` numbers the evidence, `AskShared`
is the one search owed to seats without their own.

**FreePool.** The proxy runs on one event loop, so an action is what runs between
two awaits. There is no clock: a sleep ends when it likes. The times of last use,
which `get_model` sorts by, matter only as an order: `pooled` are the models in
the pool and `older` the pairs of them of which the first was used before the second.
A call that is out ends by one of `Upstream`, or never: its timeouts bound one read
each, so nothing is assumed of its end, nor of that of a ping.

## 3. What is checked

Each property of a passing run has a mutant in `PROJECT.json` under which TLC
finds it violated. `TypeOK` is part of one invariant of most runs.

| Run | Instance | Shows |
|---|---|---|
| `gate_one` | 2 gates, 1 call at a time, 2 plans, 2 requests, 1 restart, writes may fail | `Consent`, `SingleUse`, `HeldPlanStands`, `KeepsPromise` (refinement of `Consent`) |
| `gate_overlap` (violation) | 1 gate, 2 calls, nothing fails | overlapping calls both pay on one approval |
| `pipeline_all` | 1 chain of 4 stages, 2 plans, 1 restart, holds, blocked stages, refused writes, the standalone council beside it | `StagesWhole`, `StagePassesItsGate`, `ApprovalCarriesOneStage`, `PickSurvives`, `KeepsPromises` (refinement of `ChainSteps`) |
| `pipeline_wake` (violation) | 1 chain that holds while it plans | the prompt of the countdown confirms an approval no person spoke after |
| `panel_all` | 2 chains of two stages, the control mounted twice, a prompt refused | `HoldWakes`, `AskedOnce` |
| `council_all` | 3 seats: one probed, one hosted, one preferred; 2 confidences, 2 penalties | `PlanningEndsWell`, `FiledWell`, `PenaltyNeverHelps`, `AbsentAskedOnce`, `RunEnds` |
| `amend_all` | 3 seats, 2 callers, 4 amendments, cap 3 | `FirstAnswersKept`, `RetriesCapped`, `FirstReportHonest` |
| `swarm_all` | graphs of up to 3 units, valid or not, 4 rosters, 3 modes | `WholeGraphRuns`, `AskedInOrder`, `CirclesFound`, `KeepsToPlan`, `LoadIsSpread`, `RunEnds` |
| `contest_all` | units of both modes and proposing rounds, up to 3 free seats, up to 2 paid, 3 files | `HandsOnWell` (`OnlyAccepted` for a contest, `SelectedWell` for a round), `WithinBounds`, `ContestEnds` |
| `seat_all` | 5 kinds of seat, 3 calls, an abort at any point | `AtRest`, `InTime`, `AllAnswered` |
| `research_all` | 3 lanes, the third metered, 3 queries two at a time, 3 policies | `Accounted`, `CostLeads`, `BenchStands`, `RoundWhole`, `RoundEnds` |
| `pool_all` | 2 models, 1 request, with and without keep-alive | `RequestsOK`, `BenchedComesBack`, `RequestsEnd`, `DroppedLeaves` |

### Bounds, and why they are enough

* *Gates.* The clock stops at `MaxTime` and a plan lives one tick: three ticks
  hold issue, press, message and expiry in every order, equal times included.
  Two plans let one displace the other; two requests let one be run for the
  other. Overlap is cut from `gate_one` because `gate_overlap` refutes single use
  with it; the proof of consent has no bound on calls.
* *Pipeline.* One chain through every stage, so that council and review meet at
  their gate; two plans so that one can take the place of the other. A hold and a
  plan last one tick of three. `MCPipeline` gives a `VIEW`, which leaves out history
  nothing refers to any more. What a second chain inherits from an abandoned one
  is checked in `panel_all`, and proved for any number of chains.
* *Panel.* Two runs of two stages: a stage name can recur in another run, and a
  hold in another stage. One prompt on its way beside those of a hold, one
  refused, one new mount (only with nothing in flight, since a prompt outlives
  the control that sent it): each is the first that makes a difference.
  `AskedOnce` speaks of runs in which no send was refused.
* *Council.* Three seats are the least with a peer tie, a majority of two and a
  voter that is neither. Confidence 3 beats 1 even at half weight. One penalty
  (0.5, an invented tool call) is enough to turn any decision there.
* *Amendments.* The code's own cap and one more; two callers because a file has
  one last writer. Three seats give two drafts to compare and one to recover.
* *Swarm.* Every dependency relation on three units is tried, plus lists that are
  empty, too long, repeating or dangling. `MAX_TASKS` is three instead of twelve.
* *Contest.* Three free seats are the least with a vote of two for a third; two
  paid ones the least with a reviewer that is not the fallback. Files of one to
  three units against limits of two each and three in all reach both limits. Of
  proposing rounds there are one at once, one in turn with a paid seat, one
  without source roots and one without seats.
* *Seats.* Limits of one to five ticks put the probe, the idle limit, the cap of the
  seat and that of the run in every order; two spellings let the first be
  missing; after three calls an abort has met a call before, in and between.
* *Search.* Two free lanes are the least to fall from one to the next before the
  metered one; the cooldown is one tick, so a bench ends within a round; three
  queries on two workers let one be taken while another is out. A query is
  its key: the four there are come from seats that repeat themselves, repeat each
  other and ask for one more than the limit.
* *Proxy.* With two models a request can use up both. `MaxTimers` caps the re-enable
  timers of one model at one, so that in the run no model is benched again while
  its timer runs: two timers of one model at a time are covered for the invariants
  only, by the proof (`RequestsHold` has any bound), and not for liveness.

`CHECK_DEADLOCK FALSE` stands only where a run of the program ends, the
amendments are used up, or the panel has nothing left to do.

### Fairness

Safety needs none. `SwarmRun` and `CouncilRun` assume that something enabled
eventually happens (`WF_vars(Next)`): their loops await calls, and a call ends
by its answer, its time limit, or an abort, which is what `SeatCall` shows.
`SeatCall` itself assumes only its own steps, its timers and the clock (`Own`):
nothing is assumed of the seat. `UnitContest` assumes its calls return (`Step`),
not that anyone aborts, and `ProposalRound` the same of a round (`RoundStep`).
`WebTraffic` assumes that a search on a lane gets on (`Proceed`), since every lane
has a time limit, the metered one that of `fetch`; `Research` assumes the same of
its workers.
`FreePool` assumes weak fairness of what the event loop runs once it is ready: each
re-enable timer, the keep-alive loop as it wakes and as its round of pings is
over, and each request as it chooses or as its sleep ends. A pending read is no
ready task, so a call to a provider and a ping get none: the timeouts there
(`scheduler.py:166` and `:229`, `pool.py:188`) are those of httpx, for one read or
write at a time, and a stream may send comment lines for ever, which
`scheduler.py:189-190` skips. `RequestsEnd` is therefore said of requests whose calls
end, and `DroppedLeaves` of pings that end, as a premise (`[]<>`) of the property.
`BenchedComesBack` needs neither. Nothing is assumed of arrivals or refreshes.
`PipelinePanel` assumes weak fairness of calls, of the effect that wakes a hold and
of the clock, and strong fairness of a turn ending and of the session taking the
prompt of a hold: the session is taken and freed again and again, so weak
fairness would say nothing. `ApprovalGate`, `Pipeline` and `CouncilAmend` have no
liveness property: what a person does is not fair.

## 4. What is proved

Every invariant and every action property of the passing runs, the two
refinements included, is a theorem: it holds for every value of the constants
that meets the named `ASSUME`s. These say that bounds are numbers, that null
values are not values, that seats are among the seats, that an order has each
stage once, and what inputs are: the seats of a roster are workers
(`SwarmAssumption`), a reply of a research round is a list of queries and the shared
search is none of those numbered (`ResearchAssumption`). TLC evaluates each on the
instances. `SingleUse`, `HeldPlanStands` and `KeepsPromise` are proved, as they are
checked, for calls that do not overlap. Each theorem follows from an inductive
invariant.

* **`ApprovalGateProofs`**: type correctness and `ConsentHolds`, for any number of
  overlapping calls, refused writes and restarts. `Consent` says nothing of the
  slot, so it is not inductive. `IInv` adds that what a slot holds was issued for
  its gate and request; that an approved id was pressed, and its time is that of
  a press or the very time of issue; that a call carries the plan, press and
  turn it was judged on; and that memory never knows a later turn than there was.
  Then `UsedOnce` (`SingleUse`), `PlanStands` (`HeldPlanStands`) and `PromiseKept`
  (`KeepsPromise`), for calls that do not overlap (`OneCaller`), which `gate_overlap`
  shows they need. `Solo` adds to `IInv` that a press still travelling is on a plan
  not yet approved; hence that what a call found at its gate stays so until it
  returns; and that a plan paid for is being worked on, lost, or pending nowhere.
* **`PipelineProofs`**: type correctness, `StagesKept`, `PickKept`, `GatesPassed`,
  `OneStageEach`, and `ChainKept`, that `Pipeline` implements `ChainSteps`. `Shape` says
  what a call carries in each of its steps; `Came` that a chain stands no further
  than its work; `Asked` that what a slot holds was issued for the stage it is
  approved for, no earlier than it says; `Spent` that a plan that paid is at no
  gate it could pay at again.
* **`CouncilVerdictProofs`**: `WinnerIsNamed` (if any vote names a seat, the winner is
  one that a vote named) and `WorseNeverHelps` (a seat that wins with the greater
  penalty wins with the lesser one, all else equal), by lemmas on totals over a
  set of voters and on the seats that have the most. `Upward` is induction along the
  natural numbers for a *set* of them, `Walk` what a recursive function does along
  them; `LeastNat` and `BestExists` are minimum and maximum. The proofs below cite
  them.
* **`CouncilRunProofs`**: `PlanningEndsWell`, `FiledWell`, `PenaltyNeverHelps`,
  `AbsentAskedOnce`. `IInv` adds that what a seat said counts only if it answered in
  this round, that each absent seat is on the absent list before the round ends,
  and that the planners not yet tried are exactly those on the queue;
  `PenaltyNeverHelps` is `WorseNeverHelps` on the ballots of the run.
  Then all properties of `amend_all`, for any number of overlapping callers.
  `FirstAnswersKept` speaks of two writes that know nothing of each other, so the
  invariant says that the seats with a first answer are the same in the record and
  in every copy under way, and that a copy is what was read plus the drafts got
  since. For the report it adds that on a record never amended each vote was cast
  on the drafts it holds; for the cap, that until something slips the record counts
  every amendment but the one under way. `RunFilesOriginal` joins the two: what
  a run files is a record an amendment may start from.
* **`SwarmRunProofs`**: `WholeGraphRuns`, `AskedInOrder` (both ways: a unit is asked
  for only when all it follows did well, and left out only when some of it did not)
  and `CirclesFound`. A *knot*
  is a set of units each of which follows another of it. Removing a unit nothing
  holds back removes it from no knot, so the knots stay in what remains; when
  nothing remains there is none, and the units not done would be one if no wave
  could start. Then `KeepsToPlan` and `LoadIsSpread`, along the fold that assigns the
  units one by one: each step hands its unit to a seat that may have it, and where
  no unit names one, to a seat of its class with the least load, so that of two
  alike none has two units more (`Fair`). What was assigned is what is worked, one
  at a time where the run is sequential (`Keeps`).
* **`ContestProofs`**: type correctness, `HandsOnWell` and `WithinBounds`, for
  contests and proposing rounds. The number of calls a seat made is bounded by how
  far its candidate is, and under economy a paid seat is idle until the free ones
  failed (`Seated`); paid calls are bounded by how far the contest is (`Paying`); what
  is put forward is made and nobody is at work on it (`Forward`), so what was reviewed
  is what is handed on. Reads and writes are folds over a list; each
  step keeps the tree within its limits. `WithinBounds` holds a contest to the calls
  its estimate counted (`WithinEstimate`), and a free seat, or any seat of a round, to
  two calls and one more if it was shown files (`OneRead`).
* **`WebTrafficProofs`**: type correctness, `CountersHold`, `CostHolds` and
  `BenchHolds`, for any lanes and overlapping searches. What is left of an order
  and what was reported are together all lanes, metered ones last; no lane in an
  order was benched before the order was made; a counter is the cardinality of
  the searches on its lane. `LanesHold` says the same of the lanes under a research
  round, and `RoundHolds` is `RoundWhole`: `Pooling` says that the queries taken
  are the searches begun, and no more are out than the pool is wide, `Staged` that
  what has settled stays, that the evidence, once there, is all that was found, and
  that the shared search is begun only once nothing was found (`SharedLast`).
  That the queries are distinct and the evidence is numbered without a gap are
  lemmas on three recursive functions.
* **`EdgeProofs`**, of seats: `NothingIsLeft` and `CapHolds`. `Tracks` reads what is held
  off the place a call is in; `Timed` says that the time taken and the time left add
  up to the cap, over all spellings. Of the proxy: `RequestsHold`. `PoolIInv` says that
  the order of last use is a strict order of exactly the pooled models, that only
  those are warm, benched or pinged, and that a request which chooses or sleeps has
  said nothing. Of the control: `AskedHolds` (`AskedOnce`). The hold
  it noted is the latest there was, so a hold that differs is a later one; and the
  stages it asked to leave are those the chain came through, with the one it is at
  only as the last.

Some proofs are about systems that share no name; they are in one module where
the parts meet (`EdgeProofs`) or where one is built on the other.

The SMT backend of tlapm 1.4.5 is given an axiom by which every function on `1..n` is
a sequence of length `n` even where the encoding has not made it one. To be sure
that no proof leans on it, each was also run with that axiom restricted to
sequences; all pass both ways.

### Only model-checked

* Liveness, and with it everything about `ENABLED`: `RunEnds` of the council and of the
  swarm, `ContestEnds`, `RoundEnds`, `AllAnswered`, `RequestsEnd`, `BenchedComesBack`,
  `DroppedLeaves`, `HoldWakes`. The provers installed do not reason about fairness.
* The two violations, which are counterexamples.

## 5. Where code and words disagree

Two have a run.

* `README.md:59` has approvals single-use; overlapping calls pay twice on one
  (`gate_overlap`).
* `index.ts:711-712` has a user turn show that a person spoke after the press, and
  `GateStrip.tsx:16-18` has the two acts separate; the prompt `PipelineControl.tsx:280-286`
  sends by itself counts as one (`pipeline_wake`). The plan must outlive the hold:
  the seat has to state a reset at most `PLAN_TTL_MS` away (15 minutes,
  `approval.ts:36`), as the instance does with `HoldTime = PlanTTL`. Where no reset is
  stated the hold is `DEFAULT_HOLD_MS` (30 minutes, `quota-hold.ts:20`), and the plan
  has expired when the prompt comes.

The others are in the models, and are hazards or notes in `PROJECT.json`.

* `pipeline.ts:155` has the approved graph stored verbatim; a swarm blocked without
  a problem (`swarm.ts:446`) overwrites it while its plan waits.
* `pipeline.ts:315` has a resumed chain cost no new planning; parked during its
  paid stage it has to be planned and approved again (`index.ts:1562-1571`).
* `README.md:79-80` has no seat crown itself; on a tie among the others it can
  (`council.ts:571-577`).
* The proxy's `README.md:25` has it never pay; without the keep-alive loop, the
  default, its pool is never rebuilt (`pool.py:65`). Warm models are preferred
  (`pool.py:96`), so at a slow rate one model takes every request.
* A call of the proxy has no limit in all, only one for each read
  (`scheduler.py:166`, `:229`): an upstream that sends a comment line now and then
  (`:189-190`), or a client that stops reading, keeps its request open for ever, and
  a ping kept open (`pool.py:188`) keeps the keep-alive loop from its rebuild.
* `council.ts:984-986` has the shared search "only when nothing was asked for, or when
  the research round is switched off"; line 987 makes it for blind seats whenever
  there is no evidence, so also when queries were asked and none brought a source.
  `Research` does what line 987 does; `SharedLast` leaves that case open.
* The gate of a proposing round tells of one writing and one voting call a seat
  (`propose.ts:148`); a seat that asks to read first is paid for a third
  (`propose.ts:174`). The gate of a contest does count reads (`swarm.ts:468`). So
  `WithinEstimate` is said of contests only, and of a round `OneRead`.
* The review of a chain is handed no units: they are written (`index.ts:1746`) and
  read back by none (`pipeline.ts:178`).
* A chain abandoned by Restart leaves its pick to the next (`index.ts:1748-1750`).
* The strip shows the first gate that holds a plan, so an expired plan hides a
  later gate (`GateStrip.tsx:228`).
* The cap on amendments does not hold of overlapping ones or of records that
  could not be saved (`runs.ts:34`, `index.ts:903`). A second amendment that recovers no
  draft does not name the votes the first made stale (`council.ts:717`).
* A child that starts after the abort does not hear of it (`seats.ts:477`; in
  `web-search-cli`, `index.ts:504`): it runs to its time limit.
* An aborted search settles its lane as a success (`router.ts:119-124`): the bench
  of the lane is lifted and its latency counts. The balance and the metered
  request have no time limit of their own.
* The overall limit of a hosted call is an `AbortSignal.timeout` (`seats.ts:636`) that
  nothing cancels: it lingers after the call until it fires, and then ends nothing.
  `AtRest` does not count it as held.
* A command that ends well and says nothing counts as an answer; a stream that is
  cut off is returned as a whole answer; a last line without a newline is
  dropped. `seats.ts:144` says of a reply what an error with text and an empty
  success do not keep.
* `gatherFiles` drops paths past `MAX_READS_TOTAL` without a word (`files.ts:200-203`
  against `:241`).
* The votes of a contest may name a spoilt candidate or nobody: then usable free
  drafts are thrown away for a paid one, which its own maker may come to review.
  Writes made before a failure stay in the staged tree. An abort is looked at only
  once (`swarm-contest.ts:106`).

## 6. What is not modelled

Text: prompts, parsing beyond what it yields, reports, wording of quota failures.
Numbers shown to people: estimates, balances, capacity, usage. Paths: the roots
that confine reads and writes are a set of granted paths. Staged copies: one
tool that writes what it is handed. Pruning of
records and the choice of the latest. `revive()` and `stats()` of the search lanes,
which nobody calls. The quota reading, the agent memory, the panels that only
show, the scripts and the patches of the host.

## 7. Plan

Done: the gates, the pipeline and its panel, the council and its amendments, the
swarm, its contests and the proposal round, seats, search and the proxy. Every
invariant and every action property of the passing runs is a theorem.

1. `SwarmRun`'s single answer shown to be what `UnitContest` promises.
2. `Pipeline` under the control of `PipelinePanel`: the composition of the two, so that
   what the panel assumes of the chain is what `ChainKept` proves of it.
3. Agent memory and its digest.
