# Verification of the aipro V3 coordinator

aipro takes GitHub issues that an operator opted in, lets a developer agent and
several blind reviewer agents work on each of them through CAO sessions, and
publishes a draft pull request once a complete review wave has cleared one
immutable head. One coordinator process does this per target checkout. All that
survives the coordinator is what it wrote to GitHub (a state comment and labels
on the issue), the CAO sessions, and git; so the interesting questions are what
happens when requests of several writers interleave, when the process dies
between two effects, and when people or agents change things behind its back.

The modules here are written from the Python sources under
`src/ai_pr_orchestrator`. `PROJECT.json` maps every modelling definition to the
lines it stands for.

## Inventory

| Component (source) | State it keeps | Operations | Correct when |
|---|---|---|---|
| Issue queue (`v3/queue.py`) | state comment (version, phase, claim, extras), lifecycle labels | claim, heartbeat, save, transition, reject, abandon, cancel, reclaim, repair, list | one owner at a time; no update lost; terminal is final; labels agree and release nothing that still runs |
| GitHub client (`github/client.py`, `fake.py`) | none (retries) | REST and GraphQL requests | a repeated or refused request does not change who owns the item |
| Foreman loop (`v3/foreman.py`) | everything in `extras`: coder turn, review waves, findings, head, budgets | run, resume, coder turn, review wave, settle, gate, publish, escalate | prompts are never sent twice; only reviewed heads are published; done is verified; every item ends |
| Scheduler and service (`v3/scheduler.py`, `cli.py`) | native lock | resume active items, then start ready ones | active work first; one coordinator per checkout |
| CAO controller (`v3/cao.py`) | registry of sessions, activity times; CAO's own sessions | start, adopt, submit, poll, terminate, verify stop | at most one turn per digest; stop means gone |
| Lane executor (`v3/cao_lane.py`, `lanes.py`) | none | execute, collect | a result belongs to the prompt that asked for it |
| Git operations (`v3/git_ops.py`) | worktrees, clones, ownership records | create, verify, commit, push, reviewer clone, retire | the pushed head is the reviewed one; every checkout it made is on record, only those are deleted |
| CI gate (`v3/ci_gate.py`) | none | evaluate | pass only with every required check green at the head |
| Findings (`v3/findings.py`) | findings, dispositions | admit, deduplicate, detect conflicts, apply, compact | no finding is dropped or settled silently |
| Reconcile planner (`v3/reconcile.py`) | none | inventories to plan | nothing live or unknown is deleted |
| Capacity broker, telemetry (`v3/broker.py`, `telemetry*.py`) | reservations, samples, health | reserve, release, select, poll | no more is reserved than the quota allows |
| Cleanup (`v3/cleanup.py`) | none | sweep | no checkout goes under a live lane; what a terminal run retains goes in the end |
| Catalog, router, config, interfaces, status, audit, logging | none | lookups, parsing, reporting | not modelled |

How they interact: `cli._serve_foreman` polls `ContinuousForeman.step`, which
sweeps retained resources and then resumes or runs items through the foreman; the
foreman calls the queue (GitHub),
the broker, the lane executor (CAO), git and the pull request API in sequence. A
heartbeat thread saves the lease while a lane works, and reviewers of one wave
run in threads of their own. Agents reach only their checkout.

## Modules

| Module | What it is |
|---|---|
| `WorkQueue` | the queue at the grain of GitHub requests, with any number of hosts |
| `LeaseRecord` | abstract: one record, created once, written by its owner, taken over when expired, final when terminal |
| `WorkQueueProofs` | proofs about `WorkQueue`, and that it implements `LeaseRecord` |
| `Scheduling` | several issues and one developer slot: the passes of the scheduler, drives in outline, lifecycle labels one request at a time |
| `SchedulingProofs` | proofs about `Scheduling` |
| `ForemanRun` | one item through the policy loop, with crashes, faults, agents, CI, operators |
| `RunContract` | abstract: the documented life of an item |
| `ForemanProofs` | proofs about `ForemanRun`, and that it implements `RunContract` |
| `LaneSession` | the turns of one agent: lane executor and CAO controller, request by request |
| `LaneSessionProofs` | proofs about `LaneSession` |
| `Adjudication` | review findings over the rounds of a run: reports, answers, decisions, the archive |
| `AdjudicationProofs` | proofs about `Adjudication` |
| `ModelCapacity` | reservation of models by several dispatchers |
| `ReviewWave` | the main thread and the heartbeat thread of a review wave, and a rival host, over one state comment |
| `ReviewWaveProofs` | proofs about `ReviewWave` |
| `Checkouts` | worktree, reviewer clone, their ownership records, and the sweep that retires them |
| `CheckoutsProofs` | proofs about `Checkouts` |
| `ReconcilePlan` | the reconciliation plan as a function of a bundle of observations |
| `DecisionProofs` | proofs about `ModelCapacity` and `ReconcilePlan`, the two that decide and store nothing |
| `MCWorkQueue`, `MCForemanRun`, `MCReconcilePlan`, `MCAdjudication`, `MCModelCapacity` | instances for TLC |

`ForemanRun` is the frame the others hang in. Its saves are the atomic record
that `WorkQueue` is shown to implement (`RefinesRecord`); its developer and
reviewer sessions are `LaneSession` seen from outside (launched, prompted,
answered, stopped); its `open` flag is what `Adjudication` computes; its
nondeterministic refusal of a dispatch is what `ModelCapacity` may answer.
`ReviewWave` opens the one place where saves of a single run overlap, which
`ForemanRun` treats as one step per receipt. `Checkouts` keeps of a drive only
what its checkouts and lanes see, and adds what happens to them between drives.
`Scheduling` sets several items side by side and keeps of a drive what decides which
of them may have a developer. A `ReconcilePlan` is made from the traces a dead `ForemanRun` leaves behind.

### WorkQueue

`comments`, `lastId` and `labels` are GitHub; `pc` and `call` are each host's
`GitHubIssueQueue` call in progress; `handle` is the state a foreman works from.
An operation (`Claim`, `Heartbeat`, `Transition`, `Abandon`, `Save`, `Reclaim`,
`Reject`) computes the block it wants to write, exactly as the method does before
it enters `save_state`. The requests follow one by one: `Check` (find the comment
and compare `updated_at`), then `Patch` and `Verify`, or `Post`, `Settle` (the
rescan), `Delete` and `Arbitrate`; then `SyncLabels` and `LabelCall`. `Crash`
drops the call at any of these points, `ResponseLost` lets a write take effect
and the call fail, `PostTwice` is the client's retry. A block is reduced to
version, phase, claim, expiry and whether a lane may be running. A version is a
fresh number because `updated_at` has microseconds. `Overlap = FALSE` restricts
the model to what `docs/V3_ARCHITECTURE.md` calls one deployment per repository:
hosts fail and replace each other, but two calls are not in progress at once.

`LeaseRecord` says what callers may rely on then; `WorkQueue` implements it with
the authoritative (earliest) comment as the record.

### ForemanRun

`gh` is the durable state of the item, `run` the memory of the process (its
program counter and the locals that matter), `dev` and `rev` the CAO sessions,
`tree` the checkout and `remote`, `pr`, `ci` the branch, the pull request and the
verdict at each head. `cleared`, `published`, `prompted` and `asked` are history.
An action is one durable write or one effect on CAO, git or GitHub. `Crash`
replaces `run` by `NotRunning`; `RunWork`/`ResumeWork` then rebuild it from `gh`
as `resume_work` does. Saves are atomic here: that is `RefinesRecord` of the
queue. Heads are numbers, findings are open, proposed or settled, budgets that
depend on prices or prompt length are a nondeterministic refusal. The heartbeat
thread is reduced to the two verdicts it can give the loop (`KeeperStops` for a
lost authorization, `KeeperFails` for a failed save). `Fail` is the handler in
`run_work` that persists a crash; errors at CAO and pull request steps leave the
item active, as a crash does. `Requeue` is the documented act of an operator who
returns an escalated item.

`RunContract` is the order of phases, the budgets and the clearance rule of
`docs/V3_ARCHITECTURE.md`; `ForemanRun` implements it under the identity mapping
of phase, usage and round.

### Scheduling

`gh` is the durable state of every issue, `labels` and `optin` its labels, `dev` the
issues with a live developer session, `run` the memory of the coordinator: where it
is in a pass, the issue at hand, the rest of the ready list. `ResumeActive`,
`ListReady`, `StartNext` and `EndDrive` are `ContinuousForeman.step`; `Claim` to
`Settle` are the drive, in the order of `run_work` and `resume_work`. A step that
saves a phase goes to `labels`, where `ChangeLabel` makes one request of
`_apply_phase_labels` after the other, in the order of `_lifecycle_labels`, and
`LabelsDone` goes on with the drive. `Crash`, `LabelFails`, `RequestFails`,
`SessionFails` and `AuthorUnread` differ in what the code does next: nothing, the
escalation in `run_work`, an error that leaves the item as it is, a cancellation.
`Fail` is the difference between `run_work`, which escalates, and `resume_work`,
which lets the error out. Operators cancel, requeue and set labels between passes,
and may opt an issue out at any time.

`cut` is history: an issue at work whose label change broke off where neither the
active nor the review label is there, until its labels are right again. Left out:
claims of other hosts and running leases (`WorkQueue`), failing coder attempts,
reviewers and the publication (`ForemanRun`), checkouts (`Checkouts`). An expired
lease is a choice of `ResumeActive`; whether an author is trusted is a choice of
`Claim`.

### LaneSession

`cao` is the session and its metadata in the CAO server, `agent` the process in
the terminal, `ctl` the controller's memory of the session, `exec` the call of
`CaoLaneExecutor.execute` in progress. `Lookup`, `Launch`, `Replace`, `Adopt`,
`Precheck`, `Clear`, `Input`, `Restore`, `Poll`, `Output`, `Stop` and `Confirm`
are one request each, in the order of `start_session`, `submit_work`, the polling
loop and `terminate_session`. `TransportLost` lets a request take effect and its
response be lost, `Unavailable` lets it fail, `Crash` forgets `ctl` and `exec`.
The agent picks up what is in its inbox, may look idle or waiting for a moment
(`Blink`), and ends in idle, completed or error.

A prompt is the number of its turn and so is its digest; the foreman never
composes the same prompt twice in a run. Time is one bit, whether the session is
past its age limit. The loop's `max_poll_seconds` is not there: it starts with the
same session and is checked after `observe`, so that the age limit comes first.
`Pause < Settle` is the assumption of the idle-settle rule itself: an agent at
work does not look idle for `idle_settle_polls` polls in a row. Without it the
code does take an unfinished turn for finished, and `AnswerIsOwn` fails.

### Adjudication

`findings` and `archived` are the registry and the durable lists it is rebuilt
from, `history` the dispositions, `requests` the proposals that each seat of a
wave decides on, `seat` the next result to be consumed. `Plan` assigns
adjudicators, `Consume` uses one lane's result as a whole or not at all,
`Settle` recomputes conflicts, defers, archives and saves, `Respond` is the
developer's turn, `Remediate` a repair after failing checks. Turns are numbered:
review-1 is turn 1, response-1 turn 2. A result brings at most one new finding;
reviewers choose ids, claims and severities freely. Claims overlap as a parameter
says, which stands for path, line range and wording. Thread ids are left out,
because no reviewer may set one (`_require_new_finding`), so the branches for
review threads are never taken. Stagnation and budgets are a nondeterministic
escalation in `Settle`. A crash inside a wave is in `ForemanRun`.

Worth knowing when reading the runs: a report that repeats a
deferred finding at the same head makes the result unusable, and with it the wave
(`reconcile` raises); so does an id used again after the head moved.

### ModelCapacity

`outstanding`, `external`, `leases` and `issued` are the fields of
`PolicyBroker`; `stage`, `chain`, `seats` and `next` are a dispatcher, that is, one pass
of `_plan_review_seats`, `_restore_review_seats` or `_run_lane`: what it does, the refs
it tries for its next seat, its list of seats, and where its release loop is. It may
break off while it places (`Select`, `Refuse`), while it authorises and saves (`Record`)
or while the seats run (`Finish`); each of these enters the loop over the list
(`GiveUp`, `Unwind`), and `ReleaseSeat` is one round of it. Reserving and
releasing hold the lock, so each is one step. Scores, quota, health and every
rejection that depends on telemetry are left open: `Select` may pick any chain of
eligible models that respects independence and distinct providers, or none.
`Pin` is a configured, durable or restored assignment, tried without fallbacks
and whatever its rank. One foreman seats its lanes one after the other; the lock
is there for callers that share a broker, and the model has several.

### ReviewWave

`state` is the block in the issue: its claim and the receipts and report of one
wave. Each of the two threads has a step and a save in progress; `held` says which
of them hold the version that is stored now, which is all a comparison of
`updated_at` tells them. `LoadReceipt` and `Fresh` are the two loads that
`_record_review_result` and `_save_fresh` make, one for the extras and one for the
version; `Check`, `Write` and `MainSaved`/`KeeperSaved` are the requests of
`save_state`. `Beat` starts a heartbeat from `current`, the state the keeper saved
last. `Reclaim` is a rival's takeover once the lease is over, `Crash` ends both
threads and `Resume` starts them again from the stored receipts, as `resume_work`
does. `Drain`, `Join` and `Reload` are the end of `_dispatch_review_wave`, `Round`
is `_persist_round`.

`overtaken` is history: a write fell between the comparison and the edit of
another save. GitHub has no conditional edit, so in that window a receipt can be
lost although both saves report success; a report can then be stored without one of
its results, and `_recovered_review_report` refuses it. The safety properties are
stated for everything outside this window.

### Checkouts

`rec` are the ownership records in the protected git directory, `dir` says who made
the directory at a path, `session` whose lane lives there, `gh` is what the state
comment says about them, `co` the coordinator: it is either in a sweep
(`SweepInventory` to `SweepProbe`, the reads and checks of `CleanupSweeper.sweep`)
or in a drive of the item (`Claim` to `Release`). A checkout is made by
`RecordCheckout`, `CreateCheckout` and `MarkMaterialized`, and removed by `Remove`
and `Unlink`, each one effect, with `Crash` between any two; a crash may also leave
a record torn, and a command may fail after each of them. Removal is shared: `co.next` is where it returns to, and its failure
means what it means there. Others act at any time: an operator queues the item
again or deletes its state comment, another host takes the run over, records its
lanes as stopped and ends it or dies before it does (this host then reclaims it),
the lane registry loses the reviewer, a lane writes to its checkout (which makes it
young again). Somebody may make a directory at a path of ours whenever there is none (`Occupy`): one
of his own (`Human`), one that the code cannot tell from ours (`Lookalike`: the same
repository, branch and head), or an empty one (`Vacant`), which `git worktree add` and
`git clone` take over and in which he may go on to work. `elsewhere` and `cut` are
history: the runs whose stop another host recorded, and the paths where a removal broke
off between the directory and its record. A later wave's clone has a path of its own and
is left open; only the reviewer's lane is renamed; that somebody removes a directory of
ours is left out.

### ReconcilePlan

A bundle of observations (work items, sessions, worktrees, pull requests) is a
constant of a behaviour, and one step makes its plan: `PlanOne` is the
short-circuits, the decision table (`CrashPoint`), the duplicates and the orphan
clean-ups of `ReconcilePlanner`, `PlanMany` the pass over all items with the
protection of leased resources and the de-duplication of branches. Clocks are
comparisons already made (`old`, a claim that is `fresh` or `stale`). `aipro
reconcile` passes empty session and worktree inventories; the planner is modelled
with the shared inventories its interface takes. Which of several sessions an
action names is abstracted.

## Runs

| Run | Bounds | What it shows |
|---|---|---|
| `WorkQueueSerial` | 2 hosts, 2 comments, 6 writes, 2 faults, no overlap | lease exclusive, no lost update, labels that agree and never release a live lane, refinement of `LeaseRecord` (which has terminal phases final) |
| `WorkQueueRace` | 3 hosts, 3 comments, 1 fault, overlap | at most one claimant wins; the earliest comment is never deleted |
| `ForemanCrash` | 2 reviewers, 1 crash, 1 fault | no prompt twice and none that was not reserved, receipts kept |
| `ForemanMixed` | 1 reviewer, 1 crash, 1 fault, 1 outside act | only reviewed heads published, done verified, developer stopped on release, refinement of `RunContract`, and every item nothing disturbed comes to a terminal phase |
| `ForemanLanes` | 1 reviewer, 1 crash, 2 faults | violation: `lanes_stopped` of an earlier stop is believed |
| `LaneSession` | 2 turns, 2 models, 1 crash, 2 faults | a prompt is delivered at most once, answers belong to their turn, nothing works on after an answer, every turn ends |
| `ReviewWave` | 2 lanes, 2 heartbeats, a lease of 1 in 2 units of time, 1 fault or crash | receipts stick, late writes are rejected, a report can be recovered, the wave ends |
| `Scheduling` | 2 issues, 1 round, 2 crashes or failed requests, 1 act of an operator | one developer at a time unless a label change broke off; every ready issue is taken up |
| `Checkouts` | 2 runs, 1 crash, 2 failures, 2 outside acts | checkouts always on record, none of somebody else removed where no removal broke off, none under a lane unless another host recorded the stop of its run, retained ones removed in the end |
| `Adjudication` | 3 lanes, 3 rounds, 2 reports of 2 overlapping claims, 3 ids, 2 rationales | no report lost, settled only by right and for good, independent adjudicators, no refused rebuttal repeated |
| `ModelCapacity` | 2 dispatchers of 2 seats, 3 models, 5 leases | caps kept, releases count once, dispatches that break off return their seats |
| `ReconcilePlan` | one item in every situation with up to 3 of 8 sessions; two items that cross in run, branch and sessions | one branch action per run, nothing leased cleaned, recovery needs a lease |

No run lists `TypeOK`: it is proved of every module that has one.

Why the bounds are enough: two hosts and two comments make every race of the
compare-and-swap and of the arbitration, the third host of `WorkQueueRace` lets
two losers clean up at once; six writes allow claim, progress, expiry, takeover,
drain and a new claim. In the foreman runs two coder invocations, two rounds and
two commits give one repair after a review or after CI, and the exhaustion of
each counter; one crash reaches every window between two effects, and the item
is then driven to its end. In `LaneSession` the second turn meets whatever the
first left in the terminal, in the metadata and in memory, and two faults let one
hit the recovery from the other. In `Adjudication` two findings are the least that
conflict, three lanes leave one that is independent of both, and three rounds
admit a rebuttal, its refusal, another answer and the rebuttal again. In
`ModelCapacity` the second dispatcher takes the slot between ranking and
reserving. The rules of a plan look at no more than two sessions of one role and
at two items. In `ReviewWave` the lease of 1 lets the keeper renew once and a rival
come in at either side of it; two lanes make a receipt that is there while the
other is written. In `Checkouts` a failure hits the recovery from the crash or from
another failure, the second run id meets what the first left behind, and two outside acts
are the least that take a run to another host and hand it back, or put a directory
somewhere and requeue the run that left it free. In `Scheduling` a
second issue is what the slot can be given to by mistake, and two failures let one
hit the repair of the labels that the other left wrong.

With `Overlap = TRUE`, `LeaseExclusive` and `NoLostUpdate` fail: the re-read
after the `PATCH` does not make it atomic. `docs/V3_ARCHITECTURE.md` says so and
asks for one deployment, which is why those properties are checked without
overlap and the arbitration with it, and why the theorems about them assume `~Overlap`.

Other disagreements were met while modelling; the models contain the behaviours,
and the properties checked hold in spite of them.

- *One developer issue runs at a time* (`docs/V3_FOREMAN.md:9`). `_apply_phase_labels`
  goes through the labels in their order and so removes the old label of an issue
  before it adds the one of a later place: a claim removes the ready label first, a
  transition to the review the active one. A coordinator that dies in between, or
  whose second request fails, leaves a run in progress that `list_active` does not
  find, with its developer session alive; the next pass claims another issue and
  launches a second developer. One crash is enough. When the label is put back by
  hand there are two active issues, and `step` refuses to go on.
  `OneDeveloper` is stated for everything else, through `cut`.
- `_settle_gate` (`foreman.py:677`) says that a CI-only resume cannot safely dispatch
  local remediation. An item that waits for CI and dies between its claim and the
  transition to the gate, or after it was saved as queued and before its labels
  follow, is resumed by `resume_work`, which takes neither phase for the gate and
  starts a development round.
- The keeper of a review wave renews from the state it saved last
  (`foreman.py:2064`): after the main thread has saved a receipt the next heartbeat
  raises `StateConflictError`, and a wave whose claim was never lost is escalated,
  although `foreman.py:2050-2053` speaks of a lost claim. In `ReviewWave` this is
  `KeeperFailsOnlyOnLostClaim`, which does not hold.
- A create whose response is lost is posted again by the client (`client.py:483`): the
  host that had won the arbitration knows only its second comment, deletes it and
  raises `ClaimConflictError` against itself, although `queue.py:27-31` says that the
  earliest claim wins (`PostTwice`).
- `reconcile.py:38-43` says that no further action is emitted for an item once a
  manual one is, while an `ESCALATE` from the decision table is followed by the orphan
  clean-ups of that item (`reconcile.py:731`, `PlanOne`).

- *Human checkouts are retained* (`docs/V3_FOREMAN.md:157`). A removal deletes the
  directory first and its record last (`git_ops.py:237-238`, `264-265`). When the
  coordinator dies or a command fails in between, the record still says materialized,
  and `retire_checkout` removes whatever somebody makes at that path before the next
  sweep: of a reviewer's clone nothing but the record is verified, of a worktree that it
  is one of this repository on the recorded branch. `HumanCheckoutsRetained` says that
  this does not happen; TLC refutes it with one run, one crash and one outside act.
  `HumanKept` is stated for every path where no removal broke off, through `cut`.
- *Every later duplicate is deleted* (`queue.py:408-409`). Claimants that arbitrate at
  once delete the same duplicates; the one that comes second gets a 404, which ends its
  loop over them and its claim, also if its comment is the earliest. Duplicates further
  down the list stay: `DuplicatesDeleted` does not hold with three hosts and no fault at
  all. No claimant wins wrongly by it (`AtMostOneClaimWinner`, `FirstCommentStays`).
- *Stopped* means stopped on the host that says so. `terminate_session` asks the CAO
  server of its own host and counts a session unknown there as terminated
  (`cao.py:807-822`); `lanes_stopped` in the state comment does not name the host. A
  host that takes over an expired claim records the lanes of the first host as
  stopped although they run on; when the first host claims the item again after a
  requeue, it finds the stop recorded, skips it, and removes the worktree under its
  own live lane, while `docs/V3_FOREMAN.md:148-150` lets only confirmed stops
  authorize cleanup. `LanesHaveCheckouts` is stated for everything else, through
  `elsewhere`.

Deadlock is not checked: a finished item, or an exhausted bound, is a state the
system really stops in.

## Fairness

Safety needs none. `EventuallySettled` assumes weak fairness of the loop (the
service polls for ever and every blocking call has a timeout), of the lanes (a
turn ends or the collect times out) and of CI reports. It speaks of behaviours
without crashes, faults and outside acts: after several of those the code stops on
purpose and asks for reconciliation (`docs/V3_FOREMAN.md`, Recovery).

`TurnEnds` assumes weak fairness of the executor (it polls, and the service calls
it again after a failure), of time (a session grows old) and of a closing session
(CAO does close it). Nothing is assumed of the agent: it may hang. The cases the
documentation leaves to an operator, `NeedsOperator`, are part of the property.

`WaveEnds` assumes that the main thread and its reviewers go on, and that a keeper
which waits sees the stop event. A request of the keeper may hang for ever.

`EveryReadyServed` assumes weak fairness of the coordinator alone (the service polls
for ever), nothing of CI and nothing of its timeout. It speaks of behaviours without
failures and operators: after some of those the code stops on purpose, with two
active issues or an active one that cannot be resumed, and no issue is served until
an operator acts.

`RetainedRemoved` assumes that the service polls and that time passes. Its premise,
`Sweepable`, is what the sweep asks for before it touches anything: confirmed
stops, readable records, and states of their runs. A torn record or a deleted state
comment stops every sweep until an operator acts (`docs/V3_FOREMAN.md`: unknown or
mismatched ownership requires manual inspection).

## Proofs

Every safety property that a passing run checks is also proved, for every value of
the constants, and so are the two refinements. Each proof module has one inductive
invariant, the conjunction of named parts; its lemmas take the parts through the
actions one at a time, and the theorems at the end read the properties off. TLC
checked each invariant at the bounds of the runs, or beyond them, before it was
proved. What an invariant holds beyond the property is the argument why the property
holds, and is what to read first.

**`WorkQueueProofs`**, for any hosts and bounds and either value of `Overlap`:
`TypeCorrect`; `FirstStays` (`[]FirstCommentStays`) and `ClaimWinner`
(`[]AtMostOneClaimWinner`). Ids are handed
out in order, so comment 1 is the earliest of any scan; a settling call has posted,
so the scan is not empty; the set it deletes excludes the earliest, and only the
author of comment 1 has the `first` flag. None of these is inductive without the
others.

With calls that do not overlap (`~Overlap`) the invariant is `Serial`: one call at a
time is in progress (`OneCall`); the stored version is the highest there is
(`Versioned`); the claim a host holds *is* the authoritative block, or was overtaken
after its lease ran out (`HandleHeld`); what a call is about to write, if the version
it compared is still there, continues, drains, takes over or creates the record as
the specification of that call allows (`CallSound`); what it wrote is there until it
returns (`CallWrote`); and the labels agree, or the call in progress has the rest of
them to do (`LabelsHeld`, `LabelsTodo`). From it follow `LeaseHeld`, `UpdatesKept`,
`ReleaseConfirmed`, `LabelsFollow`, and `IsRecord`, the refinement of `LeaseRecord`:
posts and patches are `Create`, `OwnWrite`, `Drain` or `TakeOver`, every other step
leaves the earliest comment as it is. The hypothesis is what
`docs/V3_ARCHITECTURE.md` asks for, one deployment, and is satisfied by the run
`WorkQueueSerial`; without it `LeaseExclusive` and `NoLostUpdate` are false.

**`ForemanProofs`**, for any finite set of reviewers and any budgets, crashes, faults
and outside acts. `RunInv` is `TypeOK`, `Durable` (what is true of the stored state
and the world, whoever is running) and `Memory` (what each step of the loop knows).
Its parts say which durable phase stands behind each program counter, that
rounds are taken in order and a recorded wave is of a round begun, that the report of
the current round agrees with the open findings, that heads only grow and what is on
the branch was pushed by the loop or is foreign, what a session remembers of the
prompts it was given, and that a developer session which lives belongs to a recorded
turn with no stop after it. `RunInvariant`, `ForemanTyped`, `PromptsOnce`,
`ReviewedOnly` and `DeveloperGone` are invariants; `DoneVerified` and
`NothingRewritten` action properties, by cases on what a step writes (`WriteStep`);
`KeepsContract` is the refinement of `RunContract`, step by step. A crash leaves
`Durable` as it is and `Memory` holds trivially of the process that is gone: that the
invariant has this form is what crash safety means here.

**`SchedulingProofs`**, for any finite set of issues and any bounds:
`SchedulingTyped` and `OneAtATime` (`[]OneDeveloper`). That at most one
issue has a developer is not inductive: it depends on what the next pass can read.
The invariant `SlotInv` says that between passes every issue with a developer is
found by `list_active` or is in `cut`, and in a pass only the issue at hand has one
(`SlotKnown`); that a live developer is on record, with no stop recorded
(`DevelopersRecorded`), so that a stored confirmation is to be believed and a
terminal item keeps the active label; and what each step of the drive and of a
label change knows of the issue at hand (`StepKnows`, `LabelsKnow`). The lemma
`Leaving` draws from these that whatever ends a pass, at any step, what it leaves
running is found or on record as cut. `ChangeLabel` needs the order of the labels:
the review label goes only when the active one is there already, or a developer of
a cancelled run would be hidden by the repair of its labels.

**`LaneSessionProofs`**, for any number of turns, models, crashes and faults, any
`Settle` and any `Pause < Settle`: `LaneInvariant`, `LaneTyped`, `PromptedOnce`,
`AnswersAreOwn`, `NothingWorksOn`. `LaneInv` says that turns follow one another and an
unanswered one is resumed (`InOrder`); that the digest stored in the session is the
one of the present turn whenever its prompt was sent (`Digests`), and where it was not
sent yet (`NotYet`); and that stored evidence of activity, once the digest is the
present one, is about the present turn (`Evidence`): the agent has begun it, and
while it is at it the controller counted no more idle readings than the agent made
pauses. With `Pause < Settle` this is why a turn read as completed has ended. The
order of `Clear` (digest and evidence in one request, before the input) is what makes
`Evidence` inductive; `CrashStep` and `TransportLostStep` need that the old evidence
went with it.

**`ReviewWaveProofs`**, for any non-empty set of reviewers, any lease, clock and number
of heartbeats: `WaveTyped`, `ReceiptsKept` (`ReceiptsStick`), `TakeoverStands`
(`LateWritesRejected`), `ReportStands` (`[]ReportRecoverable`). `WaveInv` says that
nobody holds the version of a rival's claim (`ClaimInv`) and a dead process remembers
nothing; and, unless a write fell between the comparison and the edit of another
(`overtaken`), that a thread which holds the stored version writes what is there but
for the claim (`KeeperInv`) or what is there and what it adds (`MainInv`), that the
results main has are stored or about to be (`ReceiptInv`), and that no copy of the
state has a report without every result (`ReportInv`).

**`CheckoutsProofs`**, for any number of runs, crashes, failures and outside acts:
`CheckoutsTyped`, `DirectoriesRecorded` (`[]OwnedRecorded`), `LanesKeepCheckouts`
(`[]LanesHaveCheckouts`), and the action property `OthersKeepTheirs` (`HumanKept`).
`CheckoutInv` adds in what order run ids are handed out (`RunInv`), who removes and where
to it returns (`TaskInv`), what a materialized record is worth (`MadeInv`): our own
directory is there unless a removal has come between the two, and whoever lives there is
of the run that made it; and which durable state a live lane has behind it (`CoderInv`,
`WaveInv`): a developer that lives is a coder's with no stop on record, a reviewer has a
wave. `HumanKept` follows from the first half of `MadeInv`: where no removal broke off
there is no record under which anything else could be removed. The second half keeps a
lane alive in a directory that only looks like ours. The attempt to prove
`LanesHaveCheckouts` without `elsewhere` failed at the reclaimed run, which is how the
disagreement about stops of other hosts was found.

**`AdjudicationProofs`**, for any lanes, claims, overlap, ids, rationales and rounds:
`FindingsInvariant`, `AdjudicationTyped`, `ReportsKept` (`[]NothingLost`),
`Settlement` (`[]SettledByRight`), `DecidedApart` (`[]IndependentAdjudicator`),
`RebuttalsDiffer` (`[]NoRebuttalTwice`) and the action property `OutcomesStand`
(`SettledStays`). A finding keeps id, key, lane and turn from the report to the
archive, so each step is told by what it does to one finding; turns number waves and
answers, so that a decision made now never counts for an earlier turn (`Numbered`,
`Decided`). `FindingsInv` says besides what a lane may be asked (`Asked`, `Waits`), that
a finding is as severe as its reports (`Severe`), that what is accepted or archived was
accepted by a lane (`Accepted`, `Archived`), and that a deferred one was contested by
nobody (`Uncontested`).

**`DecisionProofs`** has the broker and the planner, which share no state; the names of
`ReconcilePlan` (`PlanSpec`, `PlanTypeOK`) are its own so that one module can extend both.
Of `ModelCapacity`, for any catalog, any number of dispatchers and seats:
`CapacityTyped`, `LeasesCounted`, `CapKept` and `LeasesReturned`. The inductive
invariant adds to these four that every lease and every seat in a list has an id that
was issued (so the next lease is new, and counting it adds one), that the set of leases
is finite, that a dispatcher still placing has fewer seats than it needs, and, for
`LeasesReturned`, that every lease is in the list of its dispatcher, at a place the
release loop has yet to come to (`Accounted`): an exit past the loop, or a loop that
starts late or ends early, would leave one behind it. A counter that could be decremented twice would break `CapKept` one step later,
which is why neither is inductive without the other. Of `ReconcilePlan`, for any
items, sessions, worktrees, pull requests and bundles: `PlanTyped`, `RecoveryOwned`,
`OneBranch` and `LeasedKept`, from the invariant that a plan is empty or the one made
from the bundle, and lemmas about where the actions of a plan come from.

Assumptions: `QueueAssumption`, `RunAssumption`, `SchedulingAssumption`,
`CheckoutAssumption` and `CapacityAssumption` say that bounds are numbers, sets that
are counted finite, and values that stand for nothing distinct from the others.
`WaveAssumption` asks for one reviewer at least, as a round does (`foreman.py:1238`).
`AdjudicationAssumption` says that a lane has one seat, that overlap is symmetric, and
that the developer and the foreman are no reviewers. `PlanAssumption` and
`InputAssumption` say what a bundle is. `LaneAssumption` has the one that is about the
world: `Pause < Settle`, the assumption of the idle-settle rule. TLC evaluates all of
them in the runs.

Model-checked only, because they are outside the prover's reach: the liveness
properties `EventuallySettled`, `TurnEnds`, `WaveEnds`, `EveryReadyServed` and
`RetainedRemoved`, which need fairness and `ENABLED`. What the run `ForemanLanes`
refutes is of course not a theorem; `DeveloperGone` is the part of it that holds.

## Plan

Done: all modules above, a theorem for every safety property and action property of
the runs, and both refinements. Next, in this order:

1. Theorems that connect modules: that the saves of `ReviewWave` implement the receipts
   of `ForemanRun` outside its window.
2. The CI gate's verdict from single checks, and the ranking of the broker, as
   operators with lemmas.
3. The two hazards without a property: the duplicate comment that is left behind, and
   the save that shortens a lease.

## Not modelled

Within `ForemanRun`: the comparison of two CI failures by their hash (`foreman.py:744`;
any second failure counts as the same, and the iteration bound ends both), a
save of a receipt that fails (`foreman.py:1218`, `2032`; `KeeperFails` gives the same
outcome), and the escalations for a pull request that is closed, gone or has another
base. Within `ReconcilePlan`: a session without a run id (`reconcile.py:1152`). Within
`Checkouts`: that the removal of a checkout also compares the role and the branch or head
in its record, which no step changes.

The CI gate is its verdict at a head: pass, fail (no check at all included) or
pending. Serialisation and schema checks, size compaction of the state block, prompts and
report texts, telemetry readings, scores and prices, configuration, logging,
status and audit output, GraphQL and pagination. They carry no state that the
properties above relate, or are pure input and output.
