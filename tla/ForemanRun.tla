----------------------------- MODULE ForemanRun -----------------------------
(***************************************************************************)
(* One work item driven by the policy loop (v3/foreman.py, resumed by      *)
(* v3/scheduler.py): claim, checkout, coder turn, blind review wave, gate, *)
(* terminal write.  The loop is a process whose memory is disposable: it   *)
(* may die between any two of its effects, and the next pass rebuilds what *)
(* it does from the durable GitHub state, the CAO sessions and the         *)
(* checkout.  One step of the model is one durable write or one effect on  *)
(* CAO, git or GitHub; writes are atomic because one host's saves          *)
(* implement an atomic record (WorkQueue, RefinesRecord).                  *)
(*                                                                         *)
(* Heads are numbers: 0 is the default branch, a commit takes the next     *)
(* one.  Findings are reduced to whether an open one exists and whether    *)
(* the developer's answer to the open ones awaits adjudication.            *)
(***************************************************************************)
EXTENDS Naturals, FiniteSets

CONSTANTS
  Reviewers,      \* review_policy.reviewer_lanes
  MaxCoder,       \* safety.max_coder_invocations_per_run
  MaxFailures,    \* escalation.max_consecutive_coder_failures
  MaxRounds,      \* review_policy.max_review_rounds
  MaxIterations,  \* safety.max_total_iterations
  MaxStagnant,    \* escalation.stagnation_rounds_threshold
  MaxCommits,     \* safety.max_commits_per_run
  MaxCrashes,     \* bound: process deaths
  MaxFaults,      \* bound: failed or uncertain requests
  MaxMeddling     \* bound: acts of operators and of strangers

ASSUME RunAssumption ==
  /\ {MaxCoder, MaxFailures, MaxRounds, MaxIterations, MaxStagnant, MaxCommits,
      MaxCrashes, MaxFaults, MaxMeddling} \subseteq Nat
  /\ IsFiniteSet(Reviewers)

Terminal == {"done", "failed", "escalated", "cancelled"}
Phases == Terminal \cup {"none", "queued", "claiming", "coding", "reviewing",
                         "ci_gating", "updating_pr"}
Rounds == 1..MaxRounds
Foreign == MaxCommits + 1          \* a head pushed by somebody else
Heads == 0..Foreign
Asks == {"nothing", "ci", "review"}

\* What a finished coder turn leaves: a sound report, edits outside the path
\* policy, or a report that is not valid.
Reports == {"ok", "forbidden", "invalid"}

\* extras.coder_turn: the durable dispatch intent and its receipt.
Turn == [inv : 0..MaxCoder, round : 0..MaxRounds, head : Heads, asks : BOOLEAN,
         consumed : BOOLEAN, got : {"none", "empty", "fail"} \cup Reports]
NoTurn == [inv |-> 0, round |-> 0, head |-> 0, asks |-> FALSE,
           consumed |-> FALSE, got |-> "none"]

\* extras.review_waves[round]: planned seats, prompts, receipts, report.
Results == {"clean", "minor", "major", "bad"}
Wave == [planned : BOOLEAN, head : Heads, prompts : BOOLEAN,
         requests : SUBSET Reviewers, got : [Reviewers -> Results \cup {"none"}],
         report : {"none", "clean", "open"}]
NoWave == [planned |-> FALSE, head |-> 0, prompts |-> FALSE, requests |-> {},
           got |-> [l \in Reviewers |-> "none"], report |-> "none"]

\* The durable state.  round is the number in round_id ("review-n" in phase
\* reviewing, "response-n" in phase coding); proposed says that the open
\* findings carry the developer's answers; settled names the round whose
\* persisted decisions accepted or deferred a finding.
State == [phase : Phases, round : 0..MaxRounds, head : Heads, worktree : BOOLEAN,
          usage : 0..MaxCoder, turn : Turn, failures : 0..MaxCoder,
          noChanges : BOOLEAN, stopped : BOOLEAN, open : BOOLEAN,
          proposed : BOOLEAN, settled : 0..MaxRounds, waves : [Rounds -> Wave],
          stagnant : 0..MaxStagnant, pr : BOOLEAN, ciFailed : BOOLEAN]

\* The loop's memory.
Steps == {"off", "claim", "checkout", "verify", "top", "coder", "coding", "turn",
          "dispatch", "working", "result", "retry", "finish_coder", "proposals", "review",
          "commit", "snapshot", "plan", "prompts", "seats", "progress",
          "cleanup_seats", "reviewed", "gate", "publish", "published", "pr", "record_pr",
          "evaluate", "updating", "stop", "stopped", "settle", "release"}
Verdicts == {"done", "failed", "escalated", "cancelled", "queued"}
Outcomes == Results \cup {"none", "sent", "error", "uncertain"}
Run == [pc : Steps, driver : {"work", "resume", "crash"}, atGate : BOOLEAN,
        recover : BOOLEAN, resume : BOOLEAN, asks : Asks, rounds : 0..MaxRounds,
        head : Heads, verdict : Verdicts, lost : BOOLEAN, failed : BOOLEAN,
        out : [Reviewers -> Outcomes]]
NotRunning == [pc |-> "off", driver |-> "work", atGate |-> FALSE, recover |-> FALSE,
               resume |-> FALSE, asks |-> "nothing", rounds |-> 0, head |-> 0,
               verdict |-> "done", lost |-> FALSE, failed |-> FALSE,
               out |-> [l \in Reviewers |-> "none"]]

\* CAO sessions: the turn whose input digest is recorded (0: none yet).
DevSession == [inv : 0..MaxCoder, st : {"none", "idle", "busy", "fail"} \cup Reports]
NoDev == [inv |-> 0, st |-> "none"]
RevSession == [round : 0..MaxRounds, head : Heads,
               st : {"none", "idle", "busy"} \cup Results]
NoRev == [round |-> 0, head |-> 0, st |-> "none"]
NoRevs == [l \in Reviewers |-> NoRev]

VARIABLES
  gh,        \* the durable state in the issue
  run,       \* the loop's memory
  dev, rev,  \* the developer's and the reviewers' CAO sessions
  tree,      \* the developer's checkout: its HEAD, dirty, present
  remote,    \* head of the remote branch (0: not pushed)
  pr,        \* an open pull request exists for the branch
  ci,        \* what CI reports for each head
  enabled,   \* the issue is authorized (opt-in label, trusted author)
  overdue,   \* max_run_seconds have passed since run_started_at
  crashes, faults, meddling,
  prompted,  \* history: deliveries of each coder invocation's prompt
  asked,     \* history: deliveries of each wave's prompt to each reviewer
  cleared,   \* history: heads a complete wave left without open findings
  published  \* history: heads the loop pushed

vars == <<gh, run, dev, rev, tree, remote, pr, ci, enabled, overdue, crashes,
          faults, meddling, prompted, asked, cleared, published>>
world == <<remote, pr, ci, enabled, overdue, crashes, faults, meddling>>
history == <<prompted, asked, cleared, published>>
sessions == <<dev, rev>>

TypeOK ==
  /\ gh \in State /\ run \in Run
  /\ dev \in DevSession /\ rev \in [Reviewers -> RevSession]
  /\ tree \in [head : Heads, dirty : BOOLEAN, there : BOOLEAN]
  /\ remote \in Heads /\ pr \in BOOLEAN
  /\ ci \in [Heads -> {"pending", "pass", "fail"}]
  /\ enabled \in BOOLEAN /\ overdue \in BOOLEAN
  /\ crashes \in 0..MaxCrashes /\ faults \in 0..MaxFaults /\ meddling \in 0..MaxMeddling
  /\ prompted \in [1..MaxCoder -> 0..2]
  /\ asked \in [Rounds -> [Reviewers -> 0..2]]
  /\ cleared \subseteq Heads /\ published \subseteq Heads

Init ==
  /\ gh = [phase |-> "none", round |-> 0, head |-> 0, worktree |-> FALSE,
           usage |-> 0, turn |-> NoTurn, failures |-> 0, noChanges |-> FALSE,
           stopped |-> FALSE, open |-> FALSE, proposed |-> FALSE, settled |-> 0,
           waves |-> [r \in Rounds |-> NoWave], stagnant |-> 0, pr |-> FALSE,
           ciFailed |-> FALSE]
  /\ run = NotRunning
  /\ dev = NoDev /\ rev = NoRevs
  /\ tree = [head |-> 0, dirty |-> FALSE, there |-> FALSE]
  /\ remote = 0 /\ pr = FALSE /\ ci = [h \in Heads |-> "pending"]
  /\ enabled \in BOOLEAN /\ overdue = FALSE
  /\ crashes = 0 /\ faults = 0 /\ meddling = 0
  /\ prompted = [i \in 1..MaxCoder |-> 0]
  /\ asked = [r \in Rounds |-> [l \in Reviewers |-> 0]]
  /\ cleared = {} /\ published = {}
----------------------------------------------------------------------------
At(step) == run.pc = step
Goto(step) == run' = [run EXCEPT !.pc = step]

\* _ForemanEscalation and the other ends of a run: stop the lanes first.
End(verdict) == run' = [run EXCEPT !.pc = "stop", !.verdict = verdict]
Escalate == End("escalated")

\* Errors that leave the item active for reconciliation: a CAO transport
\* error, a busy or uncertain session, PRReconciliationError.
Propagate == run' = NotRunning

\* Any other exception: run_work persists the crash, once, if there is a state
\* to persist it in; resume_work and a failing crash handler let it propagate.
Fail == IF run.driver = "work" /\ gh.phase # "none"
        THEN run' = [run EXCEPT !.pc = "stop", !.verdict = "escalated", !.driver = "crash"]
        ELSE Propagate

\* _heartbeat before a step: an issue that lost its authorization is cancelled.
Authorized(next) == IF enabled THEN Goto(next) ELSE End("cancelled")

CurrentWave == gh.waves[gh.round]
Waved == \E r \in Rounds : gh.waves[r].planned
----------------------------------------------------------------------------
(* Taking the item up.                                                     *)

\* What _run_loop reads from the durable state before its first round.
LoopFrom(r) ==
  LET recover == gh.phase = "reviewing" IN
    [r EXCEPT !.pc = "top", !.recover = recover,
              !.rounds = IF recover THEN gh.round - 1 ELSE gh.round,
              !.asks = IF gh.open THEN "review" ELSE "nothing", !.head = gh.head]

\* run_work on a ready issue; an unauthorized new one is rejected.
RunWork ==
  /\ At("off") /\ gh.phase \in {"none", "queued"}
  /\ \/ /\ gh.phase = "none" /\ ~enabled
        /\ gh' = [gh EXCEPT !.phase = "escalated"]
        /\ UNCHANGED run
     \/ /\ gh.phase = "queued" \/ enabled
        /\ run' = [NotRunning EXCEPT !.pc = "claim",
                                     !.atGate = gh.phase = "queued" /\ gh.pr]
        /\ UNCHANGED gh
  /\ UNCHANGED <<sessions, tree, world, history>>

\* queue.claim; it refuses an issue whose opt-in label is gone.
ClaimItem ==
  /\ At("claim")
  /\ \/ enabled /\ gh' = [gh EXCEPT !.phase = "claiming"] /\ Goto("checkout")
     \/ ~enabled /\ UNCHANGED gh /\ Fail
  /\ UNCHANGED <<sessions, tree, world, history>>

\* _acquire_checkout, the branch and the worktree.  One left behind by a
\* crash before it was recorded is in the way.
AcquireCheckout ==
  /\ At("checkout")
  /\ \/ /\ gh.worktree \/ run.atGate
        /\ Goto("verify") /\ UNCHANGED tree
     \/ /\ ~gh.worktree /\ ~run.atGate /\ ~tree.there
        /\ tree' = [tree EXCEPT !.there = TRUE, !.dirty = FALSE]
        /\ Goto("verify")
     \/ ~gh.worktree /\ ~run.atGate /\ tree.there /\ Fail /\ UNCHANGED tree
  /\ UNCHANGED <<gh, sessions, world, history>>

VerifyCheckout ==
  /\ At("verify")
  /\ \/ run.atGate /\ run' = LoopFrom(run) /\ UNCHANGED gh
     \/ ~run.atGate /\ ~tree.there /\ Fail /\ UNCHANGED gh
     \/ /\ ~run.atGate /\ tree.there /\ gh.worktree
        /\ IF gh.head = tree.head THEN run' = LoopFrom(run) ELSE Escalate
        /\ UNCHANGED gh
     \/ /\ ~run.atGate /\ tree.there /\ ~gh.worktree
        /\ gh' = [gh EXCEPT !.worktree = TRUE, !.head = tree.head]
        /\ run' = LoopFrom(run)
  /\ UNCHANGED <<sessions, tree, world, history>>

\* resume_work on this host's unfinished run.  Without a durable intent for
\* its phase or without its resources the run needs reconciliation.
Recoverable ==
  /\ gh.phase \in {"claiming", "coding", "reviewing", "ci_gating", "updating_pr"}
  /\ gh.phase = "coding" => gh.turn.inv # 0
  /\ gh.phase = "reviewing" => CurrentWave.planned
  /\ gh.phase \in {"ci_gating", "updating_pr"} \/ (gh.worktree /\ tree.there)

ResumeWork ==
  /\ At("off") /\ Recoverable
  /\ LET atGate == gh.phase \in {"ci_gating", "updating_pr"}
         started == [NotRunning EXCEPT !.driver = "resume", !.atGate = atGate]
     IN run' = IF ~enabled
               THEN [started EXCEPT !.pc = "stop", !.verdict = "cancelled"]
               ELSE IF ~atGate /\ gh.head # tree.head
               THEN [started EXCEPT !.pc = "stop", !.verdict = "escalated"]
               ELSE LoopFrom(started)
  /\ UNCHANGED <<gh, sessions, tree, world, history>>

\* The head of _run_loop's while.
LoopTop ==
  /\ At("top")
  /\ IF overdue THEN Escalate
     ELSE IF run.atGate THEN Goto("gate")
     ELSE IF run.recover \/ gh.proposed THEN Goto("review")
     ELSE Goto("coder")
  /\ UNCHANGED <<gh, sessions, tree, world, history>>
----------------------------------------------------------------------------
(* The coder turn.                                                         *)

\* _coder_attempt: collect the unconsumed turn, or prepare the next one.
StartCoder ==
  /\ At("coder")
  /\ \/ /\ gh.phase = "coding" /\ gh.turn.inv # 0 /\ ~gh.turn.consumed
        /\ IF /\ gh.turn.inv = gh.usage /\ gh.turn.round = gh.round
              /\ gh.turn.head = gh.head /\ gh.turn.asks = (run.asks = "review")
           THEN run' = [run EXCEPT !.pc = "dispatch", !.resume = TRUE]
           ELSE Escalate
        /\ UNCHANGED gh
     \/ /\ gh.phase # "coding" \/ gh.turn.inv = 0 \/ gh.turn.consumed
        /\ IF gh.usage >= MaxCoder
           THEN Escalate /\ UNCHANGED gh
           ELSE /\ gh' = [gh EXCEPT !.head = tree.head]
                /\ run' = [run EXCEPT !.pc = "coding", !.resume = FALSE]
  /\ UNCHANGED <<sessions, tree, world, history>>

BeginCoding ==
  /\ At("coding")
  /\ gh' = [gh EXCEPT !.phase = "coding"]
  /\ Authorized("turn")
  /\ UNCHANGED <<sessions, tree, world, history>>

\* Mutant of PrepareTurn: the invocation is not reserved with its intent.
PrepareTurnUnreserved ==
  /\ At("turn")
  /\ gh' = [gh EXCEPT !.stopped = FALSE,
              !.turn = [inv |-> gh.usage + 1, round |-> gh.round, head |-> gh.head,
                        asks |-> run.asks = "review", consumed |-> FALSE, got |-> "none"]]
  /\ Goto("dispatch")
  /\ UNCHANGED <<sessions, tree, world, history>>

\* _prepare_worker_turn: intent and reservation in one write, unless the
\* prompt or the spend budget is exhausted.
PrepareTurn ==
  /\ At("turn")
  /\ \/ Escalate /\ UNCHANGED gh
     \/ /\ gh' = [gh EXCEPT !.stopped = FALSE, !.usage = gh.usage + 1,
                    !.turn = [inv |-> gh.usage + 1, round |-> gh.round, head |-> gh.head,
                              asks |-> run.asks = "review", consumed |-> FALSE,
                              got |-> "none"]]
        /\ Goto("dispatch")
  /\ UNCHANGED <<sessions, tree, world, history>>

\* A receipt, a missing session, or a session that holds this very turn.
ReuseTurn ==
  /\ At("dispatch")
  /\ \/ gh.turn.got # "none" /\ Goto("result")
     \/ gh.turn.got = "none" /\ (run.resume \/ run.lost) /\ dev.st = "none" /\ Fail
     \/ gh.turn.got = "none" /\ dev.st # "none" /\ dev.inv = gh.turn.inv /\ Goto("working")
  /\ UNCHANGED <<gh, sessions, tree, world, history>>

LaunchCoder ==
  /\ At("dispatch") /\ gh.turn.got = "none" /\ ~run.resume /\ dev.st = "none"
  /\ dev' = [inv |-> 0, st |-> "idle"]
  /\ UNCHANGED <<gh, run, rev, tree, world, history>>

\* submit_work: the digest is recorded, then the input is sent.
SubmitCoder ==
  /\ At("dispatch") /\ gh.turn.got = "none"
  /\ dev.st # "none" /\ dev.inv # gh.turn.inv
  /\ \/ /\ dev.inv = 0 \/ dev.st \in Reports
        /\ dev' = [inv |-> gh.turn.inv, st |-> "busy"]
        /\ prompted' = [prompted EXCEPT ![gh.turn.inv] = @ + 1]
        /\ Goto("working")
     \/ /\ dev.inv # 0 /\ dev.st \notin Reports
        /\ Propagate /\ UNCHANGED <<dev, prompted>>
  /\ UNCHANGED <<gh, rev, tree, world, asked, cleared, published>>

\* A transport error: the input may or may not have been delivered.
SubmitCoderUncertain ==
  /\ At("dispatch") /\ gh.turn.got = "none"
  /\ dev.st # "none" /\ dev.inv # gh.turn.inv
  /\ dev.inv = 0 \/ dev.st \in Reports
  /\ faults < MaxFaults /\ faults' = faults + 1
  /\ \/ /\ dev' = [inv |-> gh.turn.inv, st |-> "busy"]
        /\ prompted' = [prompted EXCEPT ![gh.turn.inv] = @ + 1]
     \/ /\ dev' = [inv |-> gh.turn.inv, st |-> "idle"]
        /\ UNCHANGED prompted
  /\ Propagate
  /\ UNCHANGED <<gh, rev, tree, remote, pr, ci, enabled, overdue, crashes, meddling,
                 asked, cleared, published>>

\* Mutant of CollectCoder: a failed session is waited for.
CollectCoderSuccess ==
  /\ At("working") /\ dev.st \in {"none"} \cup Reports
  /\ IF run.lost THEN Escalate /\ UNCHANGED gh
     ELSE /\ gh' = [gh EXCEPT !.turn.got =
                      IF dev.st = "none" THEN "fail"
                      ELSE IF dev.st = "ok" /\ tree.head = 0 /\ ~tree.dirty THEN "empty"
                      ELSE dev.st]
          /\ Goto("result")
  /\ UNCHANGED <<sessions, tree, world, history>>

\* collect and _record_worker_result.  A keeper that lost the claim spoils
\* the turn before its result is recorded.
CollectCoder ==
  /\ At("working") /\ dev.st \in {"none", "fail"} \cup Reports
  /\ IF run.lost THEN Escalate /\ UNCHANGED gh
     ELSE /\ gh' = [gh EXCEPT !.turn.got =
                      IF dev.st = "none" THEN "fail"
                      ELSE IF dev.st = "ok" /\ tree.head = 0 /\ ~tree.dirty THEN "empty"
                      ELSE dev.st]
          /\ Goto("result")
  /\ UNCHANGED <<sessions, tree, world, history>>

\* _run_coder after an attempt: head check, then success or failure.
JudgeCoder ==
  /\ At("result")
  /\ \/ tree.head # gh.head /\ Escalate /\ UNCHANGED gh
     \/ /\ tree.head = gh.head /\ gh.turn.got # "fail"
        /\ Goto("finish_coder") /\ UNCHANGED gh
     \/ /\ tree.head = gh.head /\ gh.turn.got = "fail"
        /\ gh' = [gh EXCEPT !.turn.consumed = TRUE, !.failures = @ + 1]
        /\ Goto("retry")
  /\ UNCHANGED <<sessions, tree, world, history>>

\* _failed_coder's termination, then the retry budget.
RetryCoder ==
  /\ At("retry")
  /\ dev' = NoDev
  /\ IF gh.usage >= MaxCoder \/ gh.failures >= MaxFailures THEN Escalate ELSE Goto("coder")
  /\ UNCHANGED <<gh, rev, tree, world, history>>

\* _finish_coder and _policy_violation.
FinishCoder ==
  /\ At("finish_coder")
  /\ \/ gh.turn.got = "invalid" /\ Escalate /\ UNCHANGED gh
     \/ /\ gh.turn.got # "invalid"
        /\ gh' = [gh EXCEPT !.noChanges = gh.turn.got = "empty", !.failures = 0]
        /\ IF gh.turn.got = "forbidden" THEN End("failed")
           ELSE Goto(IF run.asks = "review" THEN "proposals" ELSE "review")
  /\ UNCHANGED <<sessions, tree, world, history>>

\* _record_proposals: an answer to every open finding, or none is usable.
RecordProposals ==
  /\ At("proposals")
  /\ \/ Escalate /\ UNCHANGED gh
     \/ gh' = [gh EXCEPT !.proposed = gh.open] /\ Goto("review")
  /\ UNCHANGED <<sessions, tree, world, history>>
----------------------------------------------------------------------------
(* The review wave.                                                        *)

\* _validate_review_progress, and then back to the development round.
Validated(r) ==
  IF \/ gh.open /\ gh.round >= MaxIterations
     \/ gh.round > 1 /\ gh.stagnant >= MaxStagnant
  THEN [r EXCEPT !.pc = "stop", !.verdict = "escalated"]
  ELSE [r EXCEPT !.pc = "reviewed", !.recover = FALSE, !.rounds = gh.round,
                 !.head = CurrentWave.head]

\* _review: take up the recorded wave or begin the next round.
Review ==
  /\ At("review")
  /\ \/ overdue /\ Escalate /\ UNCHANGED <<gh, rev>>
     \/ /\ ~overdue /\ gh.phase = "reviewing" /\ CurrentWave.planned /\ UNCHANGED gh
        /\ \/ /\ CurrentWave.head = tree.head /\ CurrentWave.prompts /\ ~tree.dirty
              /\ IF CurrentWave.report = "none"
                 THEN /\ run' = [run EXCEPT !.pc = "seats", !.resume = TRUE]
                      /\ UNCHANGED rev
                 ELSE run' = Validated(run) /\ rev' = NoRevs
           \/ /\ ~(CurrentWave.head = tree.head /\ CurrentWave.prompts /\ ~tree.dirty)
              /\ Escalate /\ UNCHANGED rev
     \/ /\ ~overdue /\ gh.phase # "reviewing" /\ UNCHANGED rev
        /\ IF run.rounds >= MaxRounds
           THEN Escalate /\ UNCHANGED gh
           ELSE /\ gh' = [gh EXCEPT !.phase = "reviewing", !.round = run.rounds + 1]
                /\ Authorized("commit")
  /\ UNCHANGED <<dev, tree, world, history>>

\* _snapshot: the developer's edits become one commit.
CommitSnapshot ==
  /\ At("commit")
  /\ IF tree.dirty /\ tree.head >= MaxCommits
     THEN Escalate /\ UNCHANGED tree
     ELSE /\ tree' = [tree EXCEPT !.head = IF tree.dirty THEN @ + 1 ELSE @, !.dirty = FALSE]
          /\ Goto("snapshot")
  /\ UNCHANGED <<gh, sessions, world, history>>

RecordSnapshot ==
  /\ At("snapshot")
  /\ gh' = [gh EXCEPT !.head = tree.head]
  /\ run' = [run EXCEPT !.pc = "plan", !.head = tree.head]
  /\ UNCHANGED <<sessions, tree, world, history>>

\* _plan_review_seats: the lanes that adjudicate the pending proposals are
\* asked.  No independent lane, or no budget: escalation.
PlanSeats ==
  /\ At("plan")
  /\ \/ Escalate /\ UNCHANGED gh
     \/ \E requests \in IF gh.proposed THEN {{l} : l \in Reviewers} ELSE {{}} :
          /\ gh' = [gh EXCEPT !.waves[gh.round] =
                      [NoWave EXCEPT !.planned = TRUE, !.head = run.head,
                                     !.requests = requests]]
          /\ Goto("prompts")
  /\ UNCHANGED <<sessions, tree, world, history>>

RecordPrompts ==
  /\ At("prompts")
  /\ gh' = [gh EXCEPT !.waves[gh.round].prompts = TRUE]
  /\ run' = [run EXCEPT !.pc = "seats", !.resume = FALSE,
                        !.out = [l \in Reviewers |-> "none"], !.lost = FALSE]
  /\ UNCHANGED <<sessions, tree, world, history>>

\* A seat's thread: "none" until it has a session, "sent" while it waits.
Pending(l) == At("seats") /\ run.out[l] \in {"none", "sent"}
Open(l) == Pending(l) /\ CurrentWave.got[l] = "none"
Outcome(l, o) == run' = [run EXCEPT !.out[l] = o]
SameTurn(l) == rev[l].st # "none" /\ rev[l].round = gh.round
Free(l) == rev[l].round = 0 \/ rev[l].st \in {"clean", "minor", "major"}

\* A recorded result stands; a seat cannot go on with a session that is
\* missing, attributed to another head, or busy with another turn.
ReuseSeat(l) ==
  /\ \/ Pending(l) /\ CurrentWave.got[l] # "none" /\ Outcome(l, CurrentWave.got[l])
     \/ /\ Open(l)
        /\ \/ rev[l].st = "none" /\ (run.resume \/ run.out[l] = "sent")
           \/ rev[l].st # "none" /\ rev[l].head # CurrentWave.head
        /\ Outcome(l, "error")
     \/ /\ Open(l) /\ rev[l].st # "none" /\ rev[l].head = CurrentWave.head
        /\ ~SameTurn(l) /\ ~Free(l)
        /\ Outcome(l, "uncertain")
  /\ UNCHANGED <<gh, sessions, tree, world, history>>

LaunchReviewer(l) ==
  /\ Open(l) /\ ~run.resume /\ run.out[l] = "none" /\ rev[l].st = "none"
  /\ rev' = [rev EXCEPT ![l] = [round |-> 0, head |-> CurrentWave.head, st |-> "idle"]]
  /\ Outcome(l, "sent")
  /\ UNCHANGED <<gh, dev, tree, world, history>>

CanSubmit(l) ==
  Open(l) /\ rev[l].st # "none" /\ rev[l].head = CurrentWave.head /\ ~SameTurn(l) /\ Free(l)

SubmitReviewer(l) ==
  /\ CanSubmit(l)
  /\ rev' = [rev EXCEPT ![l].round = gh.round, ![l].st = "busy"]
  /\ asked' = [asked EXCEPT ![gh.round][l] = @ + 1]
  /\ Outcome(l, "sent")
  /\ UNCHANGED <<gh, dev, tree, world, prompted, cleared, published>>

SubmitReviewerUncertain(l) ==
  /\ CanSubmit(l) /\ faults < MaxFaults /\ faults' = faults + 1
  /\ \/ /\ rev' = [rev EXCEPT ![l].round = gh.round, ![l].st = "busy"]
        /\ asked' = [asked EXCEPT ![gh.round][l] = @ + 1]
     \/ /\ rev' = [rev EXCEPT ![l].round = gh.round, ![l].st = "idle"]
        /\ UNCHANGED asked
  /\ Outcome(l, "uncertain")
  /\ UNCHANGED <<gh, dev, tree, remote, pr, ci, enabled, overdue, crashes, meddling,
                 prompted, cleared, published>>

\* Mutant of CollectReviewer: the wave is written back from the copy the
\* round started with, without the receipts of the other seats.
CollectReviewerStale(l) ==
  /\ Open(l) /\ SameTurn(l) /\ rev[l].st \in Results
  /\ gh' = [gh EXCEPT !.waves[gh.round].got =
                        [m \in Reviewers |-> IF m = l THEN rev[l].st ELSE "none"]]
  /\ Outcome(l, rev[l].st)
  /\ UNCHANGED <<sessions, tree, world, history>>

\* The seat's result reaches the main thread, which records it at once on
\* the freshly loaded wave.
CollectReviewer(l) ==
  /\ Open(l) /\ SameTurn(l) /\ rev[l].st \in Results
  /\ gh' = [gh EXCEPT !.waves[gh.round].got[l] = rev[l].st]
  /\ Outcome(l, rev[l].st)
  /\ UNCHANGED <<sessions, tree, world, history>>

\* All seats answered.  Decisions on a finding that is no longer open are
\* invalid, so a seat that settled one cannot be consumed a second time.
Settles(l) == run.out[l] = "minor" \/ (l \in CurrentWave.requests /\ run.out[l] = "clean")
Valid(l) ==
  /\ run.out[l] \in {"clean", "minor", "major"}
  /\ ~(gh.settled = gh.round /\ Settles(l))

\* _collect_review_outcomes, _settle_review_findings and _persist_round.
PersistRound ==
  /\ At("seats") /\ \A l \in Reviewers : ~Pending(l)
  /\ \/ /\ \E l \in Reviewers : run.out[l] = "uncertain"
        /\ Propagate /\ UNCHANGED gh
     \/ /\ \A l \in Reviewers : run.out[l] # "uncertain"
        /\ LET asks == CurrentWave.requests
               accepted == asks # {} /\ \A l \in asks : Valid(l) /\ run.out[l] = "clean"
               decided == asks # {} /\ \A l \in asks : Valid(l)
           IN gh' = [gh EXCEPT
                !.open = \/ \E l \in Reviewers : Valid(l) /\ run.out[l] = "major"
                         \/ gh.open /\ ~accepted,
                !.proposed = gh.proposed /\ ~decided,
                !.settled = IF \E l \in Reviewers : Valid(l) /\ Settles(l)
                            THEN gh.round ELSE @]
        /\ run' = [run EXCEPT !.pc = "progress",
                     !.failed = run.lost \/ \E l \in Reviewers : ~Valid(l)]
  /\ UNCHANGED <<sessions, tree, world, history>>

\* Mutant of SaveProgress: an incomplete wave is reported like a complete one.
SaveProgressIncomplete ==
  /\ At("progress")
  /\ LET report == IF gh.open THEN "open" ELSE "clean" IN
       /\ gh' = [gh EXCEPT !.waves[gh.round].report = report]
       /\ cleared' = IF run.failed \/ gh.open THEN cleared
                     ELSE cleared \cup {CurrentWave.head}
  /\ run' = [run EXCEPT !.pc = "cleanup_seats", !.failed = FALSE]
  /\ UNCHANGED <<sessions, tree, world, prompted, asked, published>>

\* _save_review_progress: a report only if no seat failed; a repeated
\* signature, or a round without signal, counts as stagnant.
SaveProgress ==
  /\ At("progress")
  /\ LET report == IF run.failed THEN "none" ELSE IF gh.open THEN "open" ELSE "clean"
         signal == gh.open \/ gh.settled = gh.round
         more == IF gh.stagnant < MaxStagnant THEN gh.stagnant + 1 ELSE MaxStagnant
     IN /\ \E stagnant \in (IF signal THEN {0} ELSE {})
                              \cup (IF ~signal \/ gh.round > 1 THEN {more} ELSE {}) :
             gh' = [gh EXCEPT !.waves[gh.round].report = report, !.stagnant = stagnant]
        /\ cleared' = IF report = "clean" THEN cleared \cup {CurrentWave.head} ELSE cleared
  /\ Goto("cleanup_seats")
  /\ UNCHANGED <<sessions, tree, world, prompted, asked, published>>

\* _cleanup_review_results, unless the claim was lost; then the verdict.
CleanupSeats ==
  /\ At("cleanup_seats")
  /\ rev' = [l \in Reviewers |->
               IF ~run.lost /\ run.out[l] \in Results THEN NoRev ELSE rev[l]]
  /\ IF run.failed THEN Escalate ELSE run' = Validated(run)
  /\ UNCHANGED <<gh, dev, tree, world, history>>

\* The end of _development_round.
Reviewed ==
  /\ At("reviewed")
  /\ IF overdue THEN Escalate
     ELSE IF gh.open THEN run' = [run EXCEPT !.pc = "top", !.asks = "review"]
     ELSE IF gh.noChanges /\ ~tree.dirty /\ tree.head = 0 THEN End("done")
     ELSE Goto("gate")
  /\ UNCHANGED <<gh, sessions, tree, world, history>>
----------------------------------------------------------------------------
(* The gate.                                                               *)

\* _evaluate_gate up to the heartbeat.
BeginGate ==
  /\ At("gate")
  /\ gh' = [gh EXCEPT !.phase = "ci_gating"]
  /\ Authorized(IF run.atGate THEN "pr" ELSE "publish")
  /\ UNCHANGED <<sessions, tree, world, history>>

\* Mutant of Publish: what the checkout holds now is pushed.
PublishCheckout ==
  /\ At("publish")
  /\ remote' = tree.head /\ published' = published \cup {tree.head}
  /\ Goto("published")
  /\ UNCHANGED <<gh, sessions, tree, pr, ci, enabled, overdue, crashes, faults, meddling,
                 prompted, asked, cleared>>

\* _publish_snapshot.  The push is not forced: it fails on a foreign head.
Publish ==
  /\ At("publish")
  /\ \/ /\ tree.head # run.head \/ tree.dirty
        /\ Escalate /\ UNCHANGED <<remote, published>>
     \/ /\ tree.head = run.head /\ ~tree.dirty /\ remote = Foreign
        /\ Fail /\ UNCHANGED <<remote, published>>
     \/ /\ tree.head = run.head /\ ~tree.dirty /\ remote # Foreign
        /\ remote' = run.head /\ published' = published \cup {run.head}
        /\ Goto("published")
  /\ UNCHANGED <<gh, sessions, tree, pr, ci, enabled, overdue, crashes, faults, meddling,
                 prompted, asked, cleared>>

PersistResources ==
  /\ At("published")
  /\ gh' = [gh EXCEPT !.head = tree.head]
  /\ Goto("pr")
  /\ UNCHANGED <<sessions, tree, world, history>>

\* _reconcile_pr: the recorded pull request, an open one for the branch, or
\* a new one, which needs a branch on the remote.
ReconcilePR ==
  /\ At("pr")
  /\ \/ gh.pr /\ (IF remote = run.head THEN Goto("evaluate") ELSE Propagate) /\ UNCHANGED pr
     \/ ~gh.pr /\ pr /\ Goto("record_pr") /\ UNCHANGED pr
     \/ ~gh.pr /\ ~pr /\ remote = 0 /\ Propagate /\ UNCHANGED pr
     \/ ~gh.pr /\ ~pr /\ remote # 0 /\ pr' = TRUE /\ Goto("record_pr")
  /\ UNCHANGED <<gh, sessions, tree, remote, ci, enabled, overdue, crashes, faults,
                 meddling, history>>

\* _record_pr, then _ensure_pr's comparison with the reviewed snapshot.
RecordPR ==
  /\ At("record_pr")
  /\ gh' = [gh EXCEPT !.pr = TRUE]
  /\ IF remote = run.head THEN Goto("evaluate") ELSE Propagate
  /\ UNCHANGED <<sessions, tree, world, history>>

\* Pending checks wait in the queue, or escalate after ci_wait_timeout.
\* Failed ones go back to the developer while the budgets last.
RepairCI ==
  IF gh.stagnant >= MaxStagnant \/ run.rounds >= MaxIterations \/ gh.ciFailed
  THEN Escalate /\ UNCHANGED gh
  ELSE /\ gh' = [gh EXCEPT !.ciFailed = TRUE]
       /\ run' = [run EXCEPT !.pc = "top", !.asks = "ci"]

\* Mutant of SettleGate: the head is not compared with the evaluated one.
SettleGateAnyHead ==
  /\ At("evaluate")
  /\ \/ ci[remote] = "pass" /\ Goto("updating") /\ UNCHANGED gh
     \/ ci[remote] = "pending" /\ (End("queued") \/ Escalate) /\ UNCHANGED gh
     \/ ci[remote] = "fail" /\ (IF run.atGate THEN Escalate /\ UNCHANGED gh ELSE RepairCI)
  /\ UNCHANGED <<sessions, tree, world, history>>

\* _evaluate_gate's verdict and _settle_gate.
SettleGate ==
  /\ At("evaluate")
  /\ \/ remote # run.head /\ Propagate /\ UNCHANGED gh
     \/ /\ remote = run.head /\ ci[run.head] = "pass"
        /\ Goto("updating") /\ UNCHANGED gh
     \/ /\ remote = run.head /\ ci[run.head] = "pending"
        /\ End("queued") \/ Escalate
        /\ UNCHANGED gh
     \/ /\ remote = run.head /\ ci[run.head] = "fail"
        /\ IF run.atGate THEN Escalate /\ UNCHANGED gh ELSE RepairCI
  /\ UNCHANGED <<sessions, tree, world, history>>

UpdatePR ==
  /\ At("updating")
  /\ gh' = [gh EXCEPT !.phase = "updating_pr"]
  /\ End("done")
  /\ UNCHANGED <<sessions, tree, world, history>>
----------------------------------------------------------------------------
(* The end of a run: stop the lanes, record that, write the verdict,       *)
(* release the checkout.                                                   *)

\* Mutant of StopLanes: the verdict is written without stopping anybody.
StopLanesLater ==
  /\ At("stop") /\ Goto("settle")
  /\ UNCHANGED <<gh, sessions, tree, world, history>>

\* _confirm_lanes_stopped: reviewers of every recorded wave, then the
\* developer; nothing when they were once confirmed stopped.
StopLanes ==
  /\ At("stop")
  /\ \/ gh.stopped /\ Goto("settle") /\ UNCHANGED sessions
     \/ /\ ~gh.stopped
        /\ rev' = IF Waved THEN NoRevs ELSE rev
        /\ dev' = IF gh.turn.inv # 0 THEN NoDev ELSE dev
        /\ Goto("stopped")
  /\ UNCHANGED <<gh, tree, world, history>>

\* A termination is not confirmed: the item stays active.
StopFails ==
  /\ At("stop") /\ ~gh.stopped /\ faults < MaxFaults /\ faults' = faults + 1
  /\ \E S \in SUBSET Reviewers :
       rev' = [l \in Reviewers |-> IF Waved /\ l \in S THEN NoRev ELSE rev[l]]
  /\ Propagate
  /\ UNCHANGED <<gh, dev, tree, remote, pr, ci, enabled, overdue, crashes, meddling,
                 history>>

RecordStopped ==
  /\ At("stopped")
  /\ gh' = [gh EXCEPT !.stopped = TRUE]
  /\ Goto("settle")
  /\ UNCHANGED <<sessions, tree, world, history>>

\* The verdict; an escalation finds out that the issue was cancelled.
Settle ==
  /\ At("settle")
  /\ gh' = [gh EXCEPT !.phase = IF run.verdict = "escalated" /\ ~enabled
                                THEN "cancelled" ELSE run.verdict]
  /\ IF gh'.phase \in Terminal \ {"cancelled"} /\ ~(run.driver # "resume" /\ run.atGate)
     THEN Goto("release") ELSE Propagate
  /\ UNCHANGED <<sessions, tree, world, history>>

\* _cleanup_terminal_worktree; a checkout it cannot vouch for is retained.
Release ==
  /\ At("release")
  /\ \/ gh.worktree /\ tree' = [tree EXCEPT !.there = FALSE, !.dirty = FALSE]
     \/ UNCHANGED tree
  /\ Propagate
  /\ UNCHANGED <<gh, sessions, world, history>>
----------------------------------------------------------------------------
(* Lanes, CI, operators, strangers and faults.                             *)

\* The developer's turn ends, with edits or without.
DevFinishes ==
  /\ dev.st = "busy"
  /\ \/ \E st \in {"ok", "invalid", "fail"} : dev' = [dev EXCEPT !.st = st] /\ UNCHANGED tree
     \/ /\ tree.there /\ tree' = [tree EXCEPT !.dirty = TRUE]
        /\ \E st \in Reports \cup {"fail"} : dev' = [dev EXCEPT !.st = st]
  /\ UNCHANGED <<gh, run, rev, world, history>>

\* An input that never arrived: the collector waits until it times out.
DevTimesOut ==
  /\ At("working") /\ dev.st = "idle"
  /\ dev' = [dev EXCEPT !.st = "fail"]
  /\ UNCHANGED <<gh, run, rev, tree, world, history>>

ReviewerFinishes(l) ==
  /\ rev[l].st = "busy"
  /\ \E st \in Results : rev' = [rev EXCEPT ![l].st = st]
  /\ UNCHANGED <<gh, run, dev, tree, world, history>>

ReviewerTimesOut(l) ==
  /\ Pending(l) /\ SameTurn(l) /\ rev[l].st = "idle"
  /\ rev' = [rev EXCEPT ![l].st = "bad"]
  /\ UNCHANGED <<gh, run, dev, tree, world, history>>

CIReports ==
  /\ remote # 0 /\ ci[remote] = "pending"
  /\ \E st \in {"pass", "fail"} : ci' = [ci EXCEPT ![remote] = st]
  /\ UNCHANGED <<gh, run, sessions, tree, remote, pr, enabled, overdue, crashes, faults,
                 meddling, history>>

\* Failed checks are run again.
Rerun ==
  /\ meddling < MaxMeddling /\ meddling' = meddling + 1
  /\ remote # 0 /\ ci[remote] = "fail" /\ ci' = [ci EXCEPT ![remote] = "pending"]
  /\ UNCHANGED <<gh, run, sessions, tree, remote, pr, enabled, overdue, crashes, faults,
                 history>>

Deadline ==
  /\ ~overdue /\ gh.phase # "none" /\ overdue' = TRUE
  /\ UNCHANGED <<gh, run, sessions, tree, remote, pr, ci, enabled, crashes, faults,
                 meddling, history>>

Meddle == meddling < MaxMeddling /\ meddling' = meddling + 1

\* The opt-in label is removed or restored.
ToggleEnabled ==
  /\ Meddle /\ enabled' = ~enabled
  /\ UNCHANGED <<gh, run, sessions, tree, remote, pr, ci, overdue, crashes, faults, history>>

\* The operator's answer to needs-human: the state goes back to queued.
Requeue ==
  /\ Meddle /\ At("off") /\ gh.phase = "escalated" /\ gh.turn.inv # 0
  /\ gh' = [gh EXCEPT !.phase = "queued"]
  /\ UNCHANGED <<run, sessions, tree, remote, pr, ci, enabled, overdue, crashes, faults,
                 history>>

ForeignPush ==
  /\ Meddle /\ remote # 0 /\ remote' = Foreign
  /\ UNCHANGED <<gh, run, sessions, tree, pr, ci, enabled, overdue, crashes, faults, history>>

\* The developer commits by itself, or goes on editing after its report.
DevOversteps ==
  /\ Meddle /\ tree.there /\ dev.st # "none"
  /\ \/ tree.head < MaxCommits /\ tree' = [tree EXCEPT !.head = @ + 1, !.dirty = FALSE]
     \/ tree' = [tree EXCEPT !.dirty = TRUE]
  /\ UNCHANGED <<gh, run, sessions, remote, pr, ci, enabled, overdue, crashes, faults,
                 history>>

\* The keeper's heartbeat finds the issue revoked and stops the lanes at
\* once, or it fails: either way the result of the lane is void.
KeeperStops ==
  /\ At("dispatch") \/ At("working") \/ At("seats")
  /\ ~enabled /\ ~run.lost
  /\ rev' = IF Waved THEN NoRevs ELSE rev
  /\ dev' = IF gh.stopped THEN dev ELSE NoDev
  /\ run' = [run EXCEPT !.lost = TRUE]
  /\ UNCHANGED <<gh, tree, world, history>>

KeeperFails ==
  /\ At("dispatch") \/ At("working") \/ At("seats")
  /\ ~run.lost /\ faults < MaxFaults /\ faults' = faults + 1
  /\ run' = [run EXCEPT !.lost = TRUE]
  /\ UNCHANGED <<gh, sessions, tree, remote, pr, ci, enabled, overdue, crashes, meddling,
                 history>>

\* A request of the loop's own fails for good before it takes effect.  (At
\* the CAO and pull request steps such an error leaves the item active, as a
\* crash does.)
RequestFails ==
  /\ run.pc \notin {"off", "dispatch", "working", "seats", "pr", "record_pr", "release"}
  /\ faults < MaxFaults /\ faults' = faults + 1
  /\ Fail
  /\ UNCHANGED <<gh, sessions, tree, remote, pr, ci, enabled, overdue, crashes, meddling,
                 history>>

Crash ==
  /\ ~At("off") /\ crashes < MaxCrashes /\ crashes' = crashes + 1
  /\ run' = NotRunning
  /\ UNCHANGED <<gh, sessions, tree, remote, pr, ci, enabled, overdue, faults, meddling,
                 history>>

Loop ==
  \/ RunWork \/ ClaimItem \/ AcquireCheckout \/ VerifyCheckout \/ ResumeWork \/ LoopTop
  \/ StartCoder \/ BeginCoding \/ PrepareTurn \/ ReuseTurn \/ LaunchCoder \/ SubmitCoder
  \/ CollectCoder \/ JudgeCoder \/ RetryCoder \/ FinishCoder \/ RecordProposals
  \/ Review \/ CommitSnapshot \/ RecordSnapshot \/ PlanSeats \/ RecordPrompts
  \/ \E l \in Reviewers : ReuseSeat(l) \/ LaunchReviewer(l) \/ SubmitReviewer(l)
                          \/ CollectReviewer(l)
  \/ PersistRound \/ SaveProgress \/ CleanupSeats \/ Reviewed
  \/ BeginGate \/ Publish \/ PersistResources \/ ReconcilePR \/ RecordPR \/ SettleGate
  \/ UpdatePR \/ StopLanes \/ RecordStopped \/ Settle \/ Release

Lanes ==
  \/ DevFinishes \/ DevTimesOut
  \/ \E l \in Reviewers : ReviewerFinishes(l) \/ ReviewerTimesOut(l)

Faults ==
  \/ SubmitCoderUncertain \/ StopFails \/ KeeperStops \/ KeeperFails \/ RequestFails
  \/ Crash \/ \E l \in Reviewers : SubmitReviewerUncertain(l)

Operators == Rerun \/ ToggleEnabled \/ Requeue \/ ForeignPush \/ DevOversteps

Next == Loop \/ Lanes \/ Faults \/ CIReports \/ Deadline \/ Operators

Spec == Init /\ [][Next]_vars

\* cli.py's service polls for ever, CAO turns end or time out, CI answers.
FairSpec == Spec /\ WF_vars(Loop) /\ WF_vars(Lanes) /\ WF_vars(CIReports)
----------------------------------------------------------------------------
(* Properties.                                                             *)

\* V3_FOREMAN.md, Recovery: restart collects the matching turn, so no coder
\* invocation and no reviewer of a wave is ever prompted twice; and intent and
\* reservation are durable before the prompt leaves (foreman.py:1999-2026), so
\* a restart cannot reset the invocation budget or forget the wave.
NoPromptTwice ==
  /\ \A i \in 1..MaxCoder : prompted[i] <= 1 /\ (prompted[i] > 0 => i <= gh.usage)
  /\ \A r \in Rounds, l \in Reviewers :
       /\ asked[r][l] <= 1
       /\ asked[r][l] > 0 => gh.waves[r].planned /\ gh.waves[r].prompts

\* foreman.py:2616: exactly the reviewed snapshots are pushed, whatever the
\* developer does to the checkout meanwhile and wherever the run restarts.
OnlyReviewedPublished == published \subseteq cleared

\* V3_ARCHITECTURE.md:28-29: a run becomes done with a head that a complete
\* wave cleared, and CI passed there or nothing was changed.
DoneIsVerified ==
  [][gh.phase # "done" /\ gh'.phase = "done" =>
       /\ run.head \in cleared
       /\ \/ run.head \in published /\ ci[run.head] = "pass"
          \/ gh.noChanges /\ run.head = 0]_vars

\* A finished or queued item has no developer: two developers never share a
\* lane home or a checkout.
DeveloperStoppedWhenReleased ==
  gh.phase \in Terminal \cup {"queued"} => dev.st = "none"

\* Recovery never rewrites a wave: its plan, its receipts and its report stay
\* as they were first recorded; nor does it replace a coder's receipt.
ReceiptsKept ==
  [][/\ \A r \in Rounds : gh.waves[r].planned =>
          LET old == gh.waves[r]
              new == gh'.waves[r] IN
            /\ new.planned /\ new.head = old.head /\ new.requests = old.requests
            /\ \A l \in Reviewers : old.got[l] # "none" => new.got[l] = old.got[l]
            /\ old.report # "none" => new.report = old.report
     /\ gh.turn.got # "none" /\ gh'.turn.inv = gh.turn.inv => gh'.turn.got = gh.turn.got
     /\ gh'.turn.inv >= gh.turn.inv /\ gh'.usage >= gh.usage]_vars

\* cli.py's service polls for ever: unless a fault, a crash or another actor
\* came in between, every item comes to a terminal phase and stays there.
EventuallySettled ==
  <>(crashes + faults + meddling > 0) \/ <>[](gh.phase \in Terminal)

\* The life of the item, as its durable state shows it, is the documented one.
Contract == INSTANCE RunContract WITH
  phase <- gh.phase, usage <- gh.usage, round <- gh.round
RefinesContract == Contract!Spec

\* V3_FOREMAN.md, Recovery: all attributed developer and reviewer sessions are
\* confirmed stopped before a terminal transition or CI requeue.
LanesStoppedWhenReleased ==
  gh.phase \in Terminal \cup {"queued"} =>
    dev.st = "none" /\ \A l \in Reviewers : rev[l].st = "none"
=============================================================================
