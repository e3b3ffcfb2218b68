--------------------------- MODULE ForemanProofs ---------------------------
(***************************************************************************)
(* The life of one item, for any reviewers, budgets, crashes, failures and *)
(* acts of others: no prompt leaves twice, only reviewed heads are pushed, *)
(* done is verified, nothing that was recorded is rewritten, and every     *)
(* step is one of the contract or invisible to it.                         *)
(***************************************************************************)
EXTENDS ForemanRun, TLAPS

Released == Terminal \cup {"queued"}
Active == {"claiming", "coding", "reviewing", "ci_gating", "updating_pr"}

\* Before, in and after the review of a round, and the gate.
Before == {"top", "coder", "coding", "turn", "dispatch", "working", "result", "retry",
           "finish_coder", "proposals", "review"}
Turning == {"dispatch", "working", "result"}
Coding == Turning \cup {"turn", "retry", "finish_coder", "proposals"}
Opening == {"commit", "snapshot", "plan"}
Waving == {"prompts", "seats", "progress", "cleanup_seats", "reviewed"}
Gating == {"publish", "published", "pr", "record_pr", "evaluate", "updating"}
Ending == {"stop", "stopped", "settle"}

\* The durable phase behind each step of the loop.
PhaseInv ==
  /\ At("claim") => gh.phase \in {"none", "queued"}
  /\ run.pc \in {"checkout", "verify"} => gh.phase = "claiming"
  /\ run.pc \in {"top", "coder", "coding", "review"} =>
       gh.phase \in Active /\ (gh.phase = "updating_pr" => At("top") /\ run.atGate)
  /\ run.pc \in {"top", "gate"} /\ run.atGate => gh.phase \in {"claiming", "ci_gating", "updating_pr"}
  /\ run.pc \in Coding => gh.phase = "coding"
  /\ At("review") => gh.phase # "ci_gating"
  /\ run.pc \in Opening \cup Waving => gh.phase = "reviewing"
  /\ At("gate") /\ ~run.atGate => gh.phase = "reviewing"
  /\ run.pc \in Gating => gh.phase = "ci_gating"
  /\ run.pc \in Ending => gh.phase \in Active \cup {"queued"}
  /\ At("release") => gh.phase \in Terminal

\* Rounds are taken one after the other; a recorded wave is of a round begun.
RoundKept ==
  /\ gh.phase = "reviewing" => gh.round # 0
  /\ \A r \in Rounds : gh.waves[r].planned => r <= gh.round
RoundAt ==
  /\ run.recover /\ run.pc \in Before =>
       /\ run.pc \in {"top", "review"} /\ ~run.atGate
       /\ gh.phase = "reviewing" /\ CurrentWave.planned
  /\ run.pc \in Before /\ ~run.recover => run.rounds = gh.round
  /\ run.pc \in (Before \ {"top"}) \cup Opening \cup Waving => ~run.atGate
  /\ run.pc \in Gating \cup {"gate", "reviewed"} => run.rounds = gh.round /\ ~run.recover
  /\ run.pc \in Opening => ~CurrentWave.planned
  /\ run.pc \in Waving => CurrentWave.planned

\* Proposals answer open findings, and none is open past the review.
OpenKept == gh.proposed => gh.open
OpenAt ==
  /\ At("top") /\ gh.phase = "ci_gating" /\ ~run.atGate => ~gh.open
  /\ run.pc \in Gating \cup {"gate"} /\ ~run.atGate => ~gh.open

\* What a report says: that of the current round agrees with the findings.
ReportKept ==
  /\ \A r \in Rounds : /\ (gh.waves[r].report # "none" \/ gh.waves[r].prompts) => gh.waves[r].planned
                       /\ gh.waves[r].report = "clean" => gh.waves[r].head \in cleared
  /\ gh.phase = "reviewing" /\ CurrentWave.report # "none" =>
       (CurrentWave.report = "open" <=> gh.open)
ReportAt ==
  /\ At("prompts") => ~CurrentWave.prompts
  /\ run.pc \in {"prompts", "seats", "progress"} => CurrentWave.report = "none"
  /\ At("seats") => CurrentWave.prompts
  /\ At("cleanup_seats") /\ ~run.failed => CurrentWave.report # "none"
  /\ At("reviewed") => CurrentWave.report # "none" /\ run.head = CurrentWave.head

\* The invocation budget, and the turn that used the last of it.
TurnKept ==
  /\ gh.turn.inv = gh.usage /\ gh.failures <= gh.usage
  /\ gh.usage # 0 /\ ~gh.turn.consumed => gh.failures < gh.usage
  /\ gh.phase = "none" => gh.usage = 0
TurnAt ==
  /\ run.pc \in {"coding", "turn"} => gh.usage < MaxCoder
  /\ run.pc \in Turning => gh.usage # 0 /\ ~gh.turn.consumed
  /\ At("working") => gh.turn.got = "none"

\* What a session remembers of the prompts it was given.
PromptKept ==
  /\ gh.usage # 0 /\ prompted[gh.usage] > 0 /\ dev.st # "none" => dev.inv = gh.usage
  /\ gh.round # 0 => \A l \in Reviewers :
       asked[gh.round][l] > 0 /\ rev[l].st # "none" => rev[l].round = gh.round
PromptAt ==
  /\ At("dispatch") /\ ~run.resume => prompted[gh.usage] = 0 /\ ~gh.stopped
  /\ At("seats") /\ ~run.resume => \A l \in Reviewers :
       run.out[l] = "none" => asked[gh.round][l] = 0

\* A developer is a turn's, and none is left behind a recorded stop.
DevKept == dev.st # "none" => gh.usage # 0 /\ ~gh.stopped
DevAt == run.pc \in {"stopped", "settle"} => dev.st = "none"

\* Heads only grow; what is on the branch was pushed by the loop or is foreign.
HeadKept ==
  /\ tree.head <= MaxCommits /\ gh.head <= tree.head
  /\ \A r \in Rounds : gh.waves[r].head <= tree.head
  /\ remote # Foreign => remote <= tree.head
  /\ remote \notin {0, Foreign} => remote \in published
  /\ gh.pr \/ pr => remote # 0
HeadAt ==
  /\ run.head <= tree.head
  /\ At("record_pr") => pr
  /\ At("evaluate") => remote # 0

\* What clears the head at hand.
Verified ==
  /\ run.head \in cleared
  /\ \/ run.head \in published /\ ci[run.head] = "pass"
     \/ gh.noChanges /\ run.head = 0
ClearInv ==
  /\ run.pc \in {"gate", "publish"} /\ ~run.atGate => run.head \in cleared
  /\ At("publish") => ~run.atGate
  /\ At("updating") => Verified
  /\ run.pc \in Ending =>
       /\ run.verdict = "done" => Verified /\ gh.phase \in {"updating_pr", "reviewing"}
       /\ run.verdict = "failed" => gh.phase = "coding"
       /\ run.verdict = "queued" => gh.phase = "ci_gating"

\* What holds wherever the loop died, and what it knows while it lives.
Durable ==
  /\ NoPromptTwice /\ OnlyReviewedPublished /\ DeveloperStoppedWhenReleased
  /\ RoundKept /\ OpenKept /\ ReportKept /\ TurnKept /\ PromptKept /\ DevKept /\ HeadKept
Memory ==
  /\ PhaseInv /\ RoundAt /\ OpenAt /\ ReportAt /\ TurnAt /\ PromptAt /\ DevAt /\ HeadAt
  /\ ClearInv
RunInv == TypeOK /\ Durable /\ Memory
----------------------------------------------------------------------------
(* Types.                                                                  *)

USE RunAssumption

LEMMA InitTypes == Init => TypeOK
<1> SUFFICES ASSUME Init PROVE TypeOK
  OBVIOUS
<1>1. NoTurn \in Turn /\ NoWave \in Wave /\ 0 \in Heads
  BY DEF NoTurn, Turn, NoWave, Wave, Heads, Foreign, Results
<1>2. gh \in State
  BY <1>1 DEF Init, State, Phases
<1>3. run \in Run
  BY <1>1 DEF Init, NotRunning, Run, Steps, Asks, Verdicts, Outcomes, Results
<1>4. dev \in DevSession /\ rev \in [Reviewers -> RevSession]
  BY <1>1 DEF Init, NoDev, DevSession, NoRevs, NoRev, RevSession, Results, Reports
<1>5. /\ remote \in Heads /\ ci \in [Heads -> {"pending", "pass", "fail"}]
      /\ tree \in [head : Heads, dirty : BOOLEAN, there : BOOLEAN]
  BY <1>1 DEF Init
<1>6. /\ crashes \in 0..MaxCrashes /\ faults \in 0..MaxFaults /\ meddling \in 0..MaxMeddling
  BY DEF Init
<1>7. asked \in [Rounds -> [Reviewers -> 0..2]] /\ prompted \in [1..MaxCoder -> 0..2]
  BY DEF Init
<1> QED
  BY <1>2, <1>3, <1>4, <1>5, <1>6, <1>7 DEF Init, TypeOK

\* The parts of the state and of the memory that the invariant reads.
Typed ==
  /\ gh.phase \in Phases /\ gh.round \in 0..MaxRounds /\ gh.head \in Heads
  /\ gh.usage \in 0..MaxCoder /\ gh.turn \in Turn /\ gh.failures \in 0..MaxCoder
  /\ gh.waves \in [Rounds -> Wave]
  /\ gh.open \in BOOLEAN /\ gh.proposed \in BOOLEAN /\ gh.stopped \in BOOLEAN
  /\ gh.pr \in BOOLEAN /\ gh.noChanges \in BOOLEAN
  /\ run.pc \in Steps /\ run.rounds \in 0..MaxRounds /\ run.head \in Heads
  /\ run.out \in [Reviewers -> Outcomes] /\ run.verdict \in Verdicts
  /\ tree.head \in Heads /\ tree.dirty \in BOOLEAN

LEMMA Types == TypeOK => Typed
<1> SUFFICES ASSUME TypeOK PROVE Typed
  OBVIOUS
<1>1. gh \in State /\ run \in Run
  BY DEF TypeOK
<1>2. /\ gh.phase \in Phases /\ gh.round \in 0..MaxRounds /\ gh.head \in Heads
      /\ gh.usage \in 0..MaxCoder /\ gh.turn \in Turn /\ gh.failures \in 0..MaxCoder
      /\ gh.waves \in [Rounds -> Wave]
      /\ gh.open \in BOOLEAN /\ gh.proposed \in BOOLEAN /\ gh.stopped \in BOOLEAN
      /\ gh.pr \in BOOLEAN /\ gh.noChanges \in BOOLEAN
  BY <1>1 DEF State
<1>3. /\ run.pc \in Steps /\ run.rounds \in 0..MaxRounds /\ run.head \in Heads
      /\ run.out \in [Reviewers -> Outcomes] /\ run.verdict \in Verdicts
  BY <1>1 DEF Run
<1> QED
  BY <1>2, <1>3 DEF TypeOK, Typed

\* Every write of the durable state is of one of these forms.
LEMMA StateStep ==
  ASSUME TypeOK, Durable, Memory, Next
  PROVE  gh' \in State
<1>t. gh \in State /\ Typed /\ tree.head \in Heads /\ run \in Run
  BY Types DEF TypeOK, Typed
<1>a. \A p \in Phases : [gh EXCEPT !.phase = p] \in State
  BY <1>t DEF State
<1>b. /\ [gh EXCEPT !.worktree = TRUE, !.head = tree.head] \in State
      /\ [gh EXCEPT !.head = tree.head] \in State
      /\ [gh EXCEPT !.pr = TRUE] \in State /\ [gh EXCEPT !.stopped = TRUE] \in State
      /\ [gh EXCEPT !.ciFailed = TRUE] \in State
  BY <1>t DEF State
<1>c. \A w \in Wave : [gh EXCEPT !.waves[gh.round] = w] \in State
  <2> SUFFICES ASSUME NEW w \in Wave PROVE [gh EXCEPT !.waves[gh.round] = w] \in State
    OBVIOUS
  <2>1. [gh.waves EXCEPT ![gh.round] = w] \in [Rounds -> Wave]
    BY <1>t DEF Typed
  <2> QED
    BY <1>t, <2>1 DEF State
<1>d. {"claiming", "coding", "reviewing", "ci_gating", "updating_pr", "queued"} \subseteq Phases
      /\ Terminal \subseteq Phases /\ Verdicts \subseteq Phases
  BY DEF Phases, Terminal, Verdicts
<1>1. CASE RunWork \/ ClaimItem \/ VerifyCheckout \/ StartCoder \/ BeginCoding
  <2>1. gh' = gh \/ (\E p \in Phases : gh' = [gh EXCEPT !.phase = p])
        \/ gh' = [gh EXCEPT !.worktree = TRUE, !.head = tree.head] \/ gh' = [gh EXCEPT !.head = tree.head]
    BY <1>1, <1>d DEF RunWork, ClaimItem, VerifyCheckout, StartCoder, BeginCoding, Terminal
  <2> QED
    BY <1>a, <1>b, <1>t, <2>1
<1>2. CASE PrepareTurn
  <2>1. [inv |-> gh.usage + 1, round |-> gh.round, head |-> gh.head, asks |-> run.asks = "review",
         consumed |-> FALSE, got |-> "none"] \in Turn
    BY <1>2, <1>t DEF PrepareTurn, Durable, Memory, TurnKept, TurnAt, Typed, Turn, At
  <2>2. gh.usage + 1 \in 0..MaxCoder
    BY <1>2, <1>t DEF PrepareTurn, Durable, Memory, TurnKept, TurnAt, Typed, At
  <2>3. ASSUME NEW t \in Turn
        PROVE  [gh EXCEPT !.stopped = FALSE, !.usage = gh.usage + 1, !.turn = t] \in State
    BY <1>t, <2>2 DEF State
  <2> QED
    BY <1>2, <1>t, <2>1, <2>3 DEF PrepareTurn
<1>3. CASE CollectCoder
  <2>1. \A g \in {"none", "empty", "fail"} \cup Reports : [gh EXCEPT !.turn.got = g] \in State
    <3> SUFFICES ASSUME NEW g \in {"none", "empty", "fail"} \cup Reports
                 PROVE  [gh EXCEPT !.turn.got = g] \in State
      OBVIOUS
    <3>1. [gh.turn EXCEPT !.got = g] \in Turn
      BY <1>t DEF Typed, Turn
    <3> QED
      BY <1>t, <3>1 DEF State
  <2>2. gh' = gh \/ \E g \in {"none", "empty", "fail"} \cup Reports : gh' = [gh EXCEPT !.turn.got = g]
    BY <1>3 DEF CollectCoder
  <2> QED
    BY <1>t, <2>1, <2>2
<1>4. CASE JudgeCoder
  <2>1. [gh.turn EXCEPT !.consumed = TRUE] \in Turn
    BY <1>t DEF Typed, Turn
  <2>2. gh.failures + 1 \in 0..MaxCoder
    BY <1>4, <1>t DEF JudgeCoder, Durable, Memory, TurnKept, TurnAt, Typed, At, Turning
  <2>3. [gh EXCEPT !.turn.consumed = TRUE, !.failures = @ + 1] \in State
    BY <1>t, <2>1, <2>2 DEF State
  <2> QED
    BY <1>4, <1>t, <2>3 DEF JudgeCoder
<1>5. CASE FinishCoder \/ RecordProposals
  <2>1. ASSUME NEW b \in BOOLEAN PROVE [gh EXCEPT !.noChanges = b, !.failures = 0] \in State
    <3>1. 0 \in 0..MaxCoder
      OBVIOUS
    <3>2. CASE b = TRUE
      BY <1>t, <3>1, <3>2 DEF State
    <3>3. CASE b = FALSE
      BY <1>t, <3>1, <3>3 DEF State
    <3> QED
      BY <3>2, <3>3
  <2>3. CASE FinishCoder
    <3>1. (gh.turn.got = "empty") \in BOOLEAN
      OBVIOUS
    <3>2. gh' = gh \/ gh' = [gh EXCEPT !.noChanges = (gh.turn.got = "empty"), !.failures = 0]
      BY <2>3, Zenon DEF FinishCoder
    <3> QED
      BY <1>t, <2>1, <3>1, <3>2, Zenon
  <2>2. [gh EXCEPT !.proposed = gh.open] \in State
    BY <1>t DEF State
  <2> QED
    BY <1>5, <1>t, <2>2, <2>3 DEF RecordProposals
<1>6. CASE Review
  <2>1. CASE gh' = [gh EXCEPT !.phase = "reviewing", !.round = run.rounds + 1] /\ run.rounds < MaxRounds
    <3>1. run.rounds + 1 \in 0..MaxRounds
      BY <1>t, <2>1 DEF Typed
    <3> QED
      BY <1>t, <1>d, <2>1, <3>1 DEF State
  <2> QED
    BY <1>6, <1>t, <2>1 DEF Review, Typed
<1>7. CASE RecordSnapshot \/ PersistResources \/ RecordPR \/ RecordStopped \/ SettleGate
  BY <1>7, <1>b, <1>t DEF RecordSnapshot, PersistResources, RecordPR, RecordStopped, SettleGate, RepairCI
<1>8. CASE PlanSeats
  <2>1. \A S \in SUBSET Reviewers :
          [NoWave EXCEPT !.planned = TRUE, !.head = run.head, !.requests = S] \in Wave
    BY <1>t DEF Typed, NoWave, Wave, Results
  <2>2. gh' = gh \/ \E S \in SUBSET Reviewers : gh' = [gh EXCEPT !.waves[gh.round] =
          [NoWave EXCEPT !.planned = TRUE, !.head = run.head, !.requests = S]]
    <3>1. (IF gh.proposed THEN {{l} : l \in Reviewers} ELSE {{}}) \subseteq SUBSET Reviewers
      OBVIOUS
    <3> QED
      BY <1>8, <3>1 DEF PlanSeats
  <2> QED
    BY <1>c, <1>t, <2>1, <2>2
<1>9. CASE RecordPrompts \/ SaveProgress \/ \E l \in Reviewers : CollectReviewer(l)
  <2>1. gh.round \in Rounds
    <3>1. At("prompts") \/ At("progress") \/ At("seats")
      BY <1>9 DEF RecordPrompts, SaveProgress, CollectReviewer, Open, Pending
    <3> QED
      BY <1>t, <3>1 DEF Durable, Memory, PhaseInv, RoundKept, RoundAt, Typed, Rounds, At, Waving
  <2>2. CurrentWave \in Wave
    BY <1>t, <2>1 DEF CurrentWave, Typed
  <2>3. CASE RecordPrompts
    <3>1. [CurrentWave EXCEPT !.prompts = TRUE] \in Wave
      BY <2>2 DEF Wave
    <3>2. [gh.waves EXCEPT ![gh.round].prompts = TRUE] \in [Rounds -> Wave]
      BY <1>t, <2>1, <3>1 DEF CurrentWave, Typed
    <3>3. [gh EXCEPT !.waves[gh.round].prompts = TRUE] \in State
      BY <1>t, <3>2 DEF State
    <3> QED
      BY <2>3, <3>3 DEF RecordPrompts
  <2>4. CASE SaveProgress
    <3>1. \A r \in {"none", "clean", "open"} : [CurrentWave EXCEPT !.report = r] \in Wave
      BY <2>2 DEF Wave
    <3>2. \A r \in {"none", "clean", "open"} :
            [gh.waves EXCEPT ![gh.round].report = r] \in [Rounds -> Wave]
      BY <1>t, <2>1, <3>1 DEF CurrentWave, Typed
    <3>3. \A r \in {"none", "clean", "open"}, n \in 0..MaxStagnant :
            [gh EXCEPT !.waves[gh.round].report = r, !.stagnant = n] \in State
      BY <1>t, <3>2 DEF State
    <3>4. gh.stagnant \in 0..MaxStagnant
      BY <1>t DEF State
    <3>5. \E r \in {"none", "clean", "open"}, n \in 0..MaxStagnant :
            gh' = [gh EXCEPT !.waves[gh.round].report = r, !.stagnant = n]
      <4> DEFINE report == IF run.failed THEN "none" ELSE IF gh.open THEN "open" ELSE "clean"
                 signal == gh.open \/ gh.settled = gh.round
                 more == IF gh.stagnant < MaxStagnant THEN gh.stagnant + 1 ELSE MaxStagnant
                 counts == (IF signal THEN {0} ELSE {})
                             \cup (IF ~signal \/ gh.round > 1 THEN {more} ELSE {})
      <4>1. counts \subseteq 0..MaxStagnant
        BY <3>4
      <4>2. report \in {"none", "clean", "open"}
        OBVIOUS
      <4>3. \E n \in counts : gh' = [gh EXCEPT !.waves[gh.round].report = report, !.stagnant = n]
        BY <2>4, Zenon DEF SaveProgress
      <4> HIDE DEF report, counts
      <4> QED
        BY <4>1, <4>2, <4>3
    <3> QED
      BY <3>3, <3>5
  <2>5. CASE \E l \in Reviewers : CollectReviewer(l)
    <3> SUFFICES ASSUME NEW l \in Reviewers, CollectReviewer(l) PROVE gh' \in State
      BY <2>5
    <3>1. \A x \in Results : [CurrentWave EXCEPT !.got[l] = x] \in Wave
      <4> SUFFICES ASSUME NEW x \in Results PROVE [CurrentWave EXCEPT !.got[l] = x] \in Wave
        OBVIOUS
      <4>1. [CurrentWave.got EXCEPT ![l] = x] \in [Reviewers -> Results \cup {"none"}]
        BY <2>2 DEF Wave
      <4> QED
        BY <2>2, <4>1 DEF Wave
    <3>2. \A x \in Results : [gh.waves EXCEPT ![gh.round].got[l] = x] \in [Rounds -> Wave]
      BY <1>t, <2>1, <3>1 DEF CurrentWave, Typed
    <3>3. \A x \in Results : [gh EXCEPT !.waves[gh.round].got[l] = x] \in State
      BY <1>t, <3>2 DEF State
    <3> QED
      BY <3>3 DEF CollectReviewer
  <2> QED
    BY <1>9, <2>3, <2>4, <2>5
<1>10. CASE PersistRound
  <2>1. \A a, b \in BOOLEAN, n \in 0..MaxRounds :
          [gh EXCEPT !.open = a, !.proposed = b, !.settled = n] \in State
    BY <1>t DEF State
  <2>2. gh.settled \in 0..MaxRounds /\ gh.open \in BOOLEAN /\ gh.proposed \in BOOLEAN
    BY <1>t DEF State
  <2>3. gh' = gh \/ \E a, b \in BOOLEAN, n \in 0..MaxRounds :
          gh' = [gh EXCEPT !.open = a, !.proposed = b, !.settled = n]
    BY <1>10, <1>t, <2>2 DEF PersistRound, Typed
  <2> QED
    BY ZenonT(40), <1>t, <2>1, <2>3
<1>11. CASE BeginGate \/ UpdatePR \/ Settle \/ Requeue
  <2>1. \E p \in Phases : gh' = [gh EXCEPT !.phase = p]
    BY <1>11, <1>d, <1>t DEF BeginGate, UpdatePR, Settle, Requeue, Typed, Terminal
  <2> QED
    BY <1>a, <2>1
<1>12. CASE \/ AcquireCheckout \/ ResumeWork \/ LoopTop \/ ReuseTurn \/ LaunchCoder \/ SubmitCoder
            \/ RetryCoder \/ CommitSnapshot \/ CleanupSeats \/ Reviewed \/ Publish \/ ReconcilePR
            \/ StopLanes \/ Release
            \/ \E l \in Reviewers : ReuseSeat(l) \/ LaunchReviewer(l) \/ SubmitReviewer(l)
  BY <1>12, <1>t DEF AcquireCheckout, ResumeWork, LoopTop, ReuseTurn, LaunchCoder, SubmitCoder,
     RetryCoder, CommitSnapshot, CleanupSeats, Reviewed, Publish, ReconcilePR, StopLanes, Release,
     ReuseSeat, LaunchReviewer, SubmitReviewer
<1>13. CASE Lanes \/ Faults \/ CIReports \/ Deadline \/ (Operators /\ ~Requeue)
  BY <1>13, <1>t DEF Lanes, Faults, CIReports, Deadline, Operators, DevFinishes, DevTimesOut,
     ReviewerFinishes, ReviewerTimesOut, SubmitCoderUncertain, StopFails, KeeperStops, KeeperFails,
     RequestFails, Crash, SubmitReviewerUncertain, Rerun, ToggleEnabled, ForeignPush, DevOversteps
<1> QED
  BY <1>1, <1>2, <1>3, <1>4, <1>5, <1>6, <1>7, <1>8, <1>9, <1>10, <1>11, <1>12, <1>13
  DEF Next, Loop, Operators

\* Moves of the memory, and where they lead.
LEMMA MemoryOf ==
  ASSUME TypeOK
  PROVE  /\ NotRunning \in Run
         /\ \A pc \in Steps : Goto(pc) => run' \in Run
         /\ \A v \in Verdicts : End(v) => run' \in Run
         /\ Escalate \/ Propagate \/ Fail => run' \in Run
         /\ \A pc \in Steps : Authorized(pc) => run' \in Run
<1>t. run \in Run
  BY DEF TypeOK
<1>1. NotRunning \in Run
  BY DEF NotRunning, Run, Steps, Asks, Verdicts, Outcomes, Results, Heads, Foreign
<1>2. \A pc \in Steps : [run EXCEPT !.pc = pc] \in Run
  BY <1>t DEF Run
<1>3. \A v \in Verdicts : [run EXCEPT !.pc = "stop", !.verdict = v] \in Run
  <2>1. "stop" \in Steps
    BY DEF Steps
  <2> QED
    BY <1>t, <2>1 DEF Run
<1>4. [run EXCEPT !.pc = "stop", !.verdict = "escalated", !.driver = "crash"] \in Run
  <2>1. "stop" \in Steps /\ "escalated" \in Verdicts
    BY DEF Steps, Verdicts
  <2> QED
    BY <1>t, <2>1 DEF Run
<1>5. "escalated" \in Verdicts /\ "cancelled" \in Verdicts
  BY DEF Verdicts
<1> QED
  BY <1>1, <1>2, <1>3, <1>4, <1>5 DEF Goto, End, Escalate, Propagate, Fail, Authorized

LEMMA MemoryStep ==
  ASSUME TypeOK, Durable, Memory, Next
  PROVE  run' \in Run
<1>t. run \in Run /\ Typed
  BY Types DEF TypeOK
<1>s. /\ "off" \in Steps /\ "claim" \in Steps /\ "checkout" \in Steps /\ "verify" \in Steps
      /\ "top" \in Steps /\ "coder" \in Steps /\ "coding" \in Steps /\ "turn" \in Steps
      /\ "dispatch" \in Steps /\ "working" \in Steps /\ "result" \in Steps /\ "retry" \in Steps
      /\ "finish_coder" \in Steps /\ "proposals" \in Steps /\ "review" \in Steps
      /\ "commit" \in Steps /\ "snapshot" \in Steps /\ "plan" \in Steps /\ "prompts" \in Steps
      /\ "seats" \in Steps /\ "progress" \in Steps
      /\ "cleanup_seats" \in Steps /\ "reviewed" \in Steps /\ "gate" \in Steps
      /\ "publish" \in Steps /\ "published" \in Steps /\ "pr" \in Steps /\ "record_pr" \in Steps
      /\ "evaluate" \in Steps /\ "updating" \in Steps /\ "stop" \in Steps /\ "stopped" \in Steps
      /\ "settle" \in Steps /\ "release" \in Steps
  BY DEF Steps
<1>v. /\ "done" \in Verdicts /\ "failed" \in Verdicts /\ "escalated" \in Verdicts
      /\ "cancelled" \in Verdicts /\ "queued" \in Verdicts
      /\ "nothing" \in Asks /\ "ci" \in Asks /\ "review" \in Asks
  BY DEF Verdicts, Asks
<1>n. NotRunning \in Run
  BY MemoryOf
<1>l. ASSUME NEW r \in Run, gh.phase = "reviewing" => gh.round # 0
      PROVE  LoopFrom(r) \in Run
  <2>1. gh.round - 1 \in 0..MaxRounds \/ gh.phase # "reviewing"
    BY <1>l, <1>t DEF Typed
  <2>2. \A b \in BOOLEAN, n \in 0..MaxRounds, a \in Asks :
          [r EXCEPT !.pc = "top", !.recover = b, !.rounds = n, !.asks = a, !.head = gh.head] \in Run
    BY <1>t, <1>s DEF Run, Typed
  <2>3. PICK b \in BOOLEAN : b = (gh.phase = "reviewing")
    OBVIOUS
  <2>4. CASE gh.phase = "reviewing"
    <3>1. LoopFrom(r) = [r EXCEPT !.pc = "top", !.recover = TRUE, !.rounds = gh.round - 1,
                                  !.asks = IF gh.open THEN "review" ELSE "nothing", !.head = gh.head]
      BY <2>4 DEF LoopFrom
    <3> QED
      BY ZenonT(40), <1>l, <1>s, <1>t, <1>v, <2>1, <2>4, <3>1 DEF Run, Typed
  <2>5. CASE gh.phase # "reviewing"
    <3>1. LoopFrom(r) = [r EXCEPT !.pc = "top", !.recover = FALSE, !.rounds = gh.round,
                                  !.asks = IF gh.open THEN "review" ELSE "nothing", !.head = gh.head]
      BY <2>5 DEF LoopFrom
    <3> QED
      BY <1>l, <1>s, <1>t, <1>v, <2>5, <3>1 DEF Run, Typed
  <2> QED
    BY <2>4, <2>5
<1>m. /\ gh.phase = "reviewing" => gh.round # 0
  BY DEF Durable, Memory, RoundKept, RoundAt
<1>d. ASSUME gh.round \in Rounds PROVE Validated(run) \in Run
  <2>1. CurrentWave.head \in Heads
    BY <1>d, <1>t DEF CurrentWave, Typed, Wave
  <2> QED
    BY <1>s, <1>t, <1>v, <2>1 DEF Validated, Run, Typed
<1>r. gh.phase = "reviewing" => gh.round \in Rounds
  BY <1>m, <1>t DEF Typed, Rounds
<1>o. \A l \in Reviewers, o \in Outcomes : Outcome(l, o) => run' \in Run
  <2> SUFFICES ASSUME NEW l \in Reviewers, NEW o \in Outcomes
               PROVE  [run EXCEPT !.out[l] = o] \in Run
    BY DEF Outcome
  <2>1. [run.out EXCEPT ![l] = o] \in [Reviewers -> Outcomes]
    BY <1>t DEF Typed
  <2> QED
    BY <1>t, <2>1 DEF Run
<1>1. CASE RunWork
  <2>1. ASSUME NEW b \in BOOLEAN PROVE [NotRunning EXCEPT !.pc = "claim", !.atGate = b] \in Run
    BY <1>n, <1>s DEF Run
  <2>2. run' = run \/ run' = [NotRunning EXCEPT !.pc = "claim", !.atGate = gh.phase = "queued" /\ gh.pr]
    BY <1>1, Zenon DEF RunWork
  <2>3. (gh.phase = "queued" /\ gh.pr) \in BOOLEAN
    OBVIOUS
  <2> QED
    BY <1>t, <2>1, <2>2, <2>3, Zenon
<1>2. CASE ClaimItem \/ AcquireCheckout
  BY <1>2, <1>s, MemoryOf DEF ClaimItem, AcquireCheckout
<1>3. CASE VerifyCheckout
  <2>1. Fail \/ Escalate \/ run' = LoopFrom(run)
    BY <1>3 DEF VerifyCheckout
  <2> QED
    BY <1>l, <1>m, <1>t, <2>1, MemoryOf
<1>4. CASE ResumeWork
  <2>1. ASSUME NEW b \in BOOLEAN
        PROVE  /\ [NotRunning EXCEPT !.driver = "resume", !.atGate = b] \in Run
               /\ \A v \in Verdicts :
                    [[NotRunning EXCEPT !.driver = "resume", !.atGate = b]
                       EXCEPT !.pc = "stop", !.verdict = v] \in Run
    BY <1>n, <1>s DEF Run
  <2>2. PICK b \in BOOLEAN : LET started == [NotRunning EXCEPT !.driver = "resume", !.atGate = b] IN
          \/ run' = [started EXCEPT !.pc = "stop", !.verdict = "cancelled"]
          \/ run' = [started EXCEPT !.pc = "stop", !.verdict = "escalated"]
          \/ run' = LoopFrom(started)
    <3>1. (gh.phase \in {"ci_gating", "updating_pr"}) \in BOOLEAN
      OBVIOUS
    <3> QED
      BY <1>4, <3>1, Zenon DEF ResumeWork
  <2> DEFINE started == [NotRunning EXCEPT !.driver = "resume", !.atGate = b]
  <2>3. started \in Run
    BY <2>1
  <2>4. [started EXCEPT !.pc = "stop", !.verdict = "cancelled"] \in Run
        /\ [started EXCEPT !.pc = "stop", !.verdict = "escalated"] \in Run
    BY <1>v, <2>1
  <2>5. LoopFrom(started) \in Run
    BY <1>l, <1>m, <2>3
  <2> HIDE DEF started
  <2> QED
    BY <2>2, <2>4, <2>5 DEF started
<1>5. CASE LoopTop \/ BeginCoding \/ PrepareTurn \/ ReuseTurn \/ LaunchCoder \/ SubmitCoder
  BY <1>5, <1>s, <1>t, MemoryOf DEF LoopTop, BeginCoding, PrepareTurn, ReuseTurn, LaunchCoder, SubmitCoder
<1>6. CASE StartCoder
  <2>1. /\ [run EXCEPT !.pc = "dispatch", !.resume = TRUE] \in Run
        /\ [run EXCEPT !.pc = "coding", !.resume = FALSE] \in Run
    BY <1>s, <1>t DEF Run
  <2> QED
    BY <1>6, <2>1, MemoryOf DEF StartCoder
<1>7. CASE CollectCoder \/ JudgeCoder \/ RetryCoder \/ FinishCoder \/ RecordProposals \/ CommitSnapshot
  BY <1>7, <1>s, <1>v, MemoryOf
  DEF CollectCoder, JudgeCoder, RetryCoder, FinishCoder, RecordProposals, CommitSnapshot
<1>8. CASE Review
  <2>1. [run EXCEPT !.pc = "seats", !.resume = TRUE] \in Run
    BY <1>s, <1>t DEF Run
  <2> QED
    BY <1>8, <1>d, <1>r, <1>s, <2>1, MemoryOf DEF Review
<1>9. CASE RecordSnapshot \/ PlanSeats
  <2>1. [run EXCEPT !.pc = "plan", !.head = tree.head] \in Run
    BY <1>s, <1>t DEF Run, Typed
  <2> QED
    BY <1>9, <1>s, <2>1, MemoryOf DEF RecordSnapshot, PlanSeats
<1>10. CASE RecordPrompts
  <2>1. [l \in Reviewers |-> "none"] \in [Reviewers -> Outcomes]
    BY DEF Outcomes
  <2> QED
    BY <1>10, <1>s, <1>t, <2>1 DEF RecordPrompts, Run
<1>11. CASE \E l \in Reviewers : ReuseSeat(l) \/ LaunchReviewer(l) \/ SubmitReviewer(l)
                                 \/ CollectReviewer(l) \/ SubmitReviewerUncertain(l)
  <2> SUFFICES ASSUME NEW l \in Reviewers,
                      ReuseSeat(l) \/ LaunchReviewer(l) \/ SubmitReviewer(l)
                        \/ CollectReviewer(l) \/ SubmitReviewerUncertain(l)
               PROVE  run' \in Run
    BY <1>11
  <2>1. Results \subseteq Outcomes /\ {"error", "uncertain", "sent"} \subseteq Outcomes
    BY DEF Outcomes
  <2>2. ReuseSeat(l) => CurrentWave.got[l] \in Outcomes \/ Outcome(l, "error") \/ Outcome(l, "uncertain")
    <3>1. At("seats") /\ ReuseSeat(l) => gh.round \in Rounds
      BY <1>r DEF Durable, Memory, PhaseInv, At, Waving
    <3>2. gh.round \in Rounds => CurrentWave.got[l] \in Results \cup {"none"}
      BY <1>t DEF CurrentWave, Typed, Wave
    <3>3. Results \cup {"none"} \subseteq Outcomes
      BY DEF Outcomes
    <3>4. ReuseSeat(l) => At("seats")
      BY DEF ReuseSeat, Pending, Open
    <3> QED
      BY <3>1, <3>2, <3>3, <3>4
  <2> QED
    BY <1>o, <2>1, <2>2 DEF ReuseSeat, LaunchReviewer, SubmitReviewer, CollectReviewer, SubmitReviewerUncertain
<1>12. CASE PersistRound
  <2>1. ASSUME NEW b \in BOOLEAN PROVE [run EXCEPT !.pc = "progress", !.failed = b] \in Run
    BY <1>s, <1>t DEF Run
  <2>2. Propagate \/ run' = [run EXCEPT !.pc = "progress",
                               !.failed = run.lost \/ \E l \in Reviewers : ~Valid(l)]
    BY <1>12, Zenon DEF PersistRound
  <2>3. (run.lost \/ \E l \in Reviewers : ~Valid(l)) \in BOOLEAN
    OBVIOUS
  <2> QED
    BY <2>1, <2>2, <2>3, MemoryOf, Zenon
<1>13. CASE SaveProgress
  BY <1>13, <1>s, MemoryOf DEF SaveProgress
<1>14. CASE CleanupSeats
  <2>1. gh.round \in Rounds
    BY <1>14, <1>r DEF CleanupSeats, Durable, Memory, PhaseInv, At, Waving
  <2> QED
    BY <1>14, <1>d, <2>1, MemoryOf DEF CleanupSeats
<1>15. CASE Reviewed \/ SettleGate
  <2>1. \A a \in Asks : [run EXCEPT !.pc = "top", !.asks = a] \in Run
    BY <1>s, <1>t DEF Run
  <2> QED
    BY <1>15, <1>s, <1>v, <2>1, MemoryOf DEF Reviewed, SettleGate, RepairCI
<1>16. CASE BeginGate \/ Publish \/ PersistResources \/ ReconcilePR \/ RecordPR \/ UpdatePR
  BY <1>16, <1>s, <1>v, MemoryOf DEF BeginGate, Publish, PersistResources, ReconcilePR, RecordPR, UpdatePR
<1>17. CASE StopLanes \/ RecordStopped \/ Settle \/ Release
  BY <1>17, <1>s, MemoryOf DEF StopLanes, RecordStopped, Settle, Release
<1>18. CASE SubmitCoderUncertain \/ StopFails \/ RequestFails \/ Crash
  BY <1>18, MemoryOf DEF SubmitCoderUncertain, StopFails, RequestFails, Crash, Propagate
<1>19. CASE KeeperStops \/ KeeperFails
  <2>1. [run EXCEPT !.lost = TRUE] \in Run
    BY <1>t DEF Run
  <2> QED
    BY <1>19, <2>1 DEF KeeperStops, KeeperFails
<1>20. CASE Lanes \/ CIReports \/ Deadline \/ Operators
  BY <1>20, <1>t DEF Lanes, CIReports, Deadline, Operators, DevFinishes, DevTimesOut,
     ReviewerFinishes, ReviewerTimesOut, Rerun, ToggleEnabled, Requeue, ForeignPush, DevOversteps
<1> QED
  BY <1>1, <1>2, <1>3, <1>4, <1>5, <1>6, <1>7, <1>8, <1>9, <1>10, <1>11, <1>12, <1>13, <1>14, <1>15,
     <1>16, <1>17, <1>18, <1>19, <1>20
  DEF Next, Loop, Faults

\* The sessions and what they were sent; the checkout, the branch and the rest.
SessionsOK ==
  /\ dev \in DevSession /\ rev \in [Reviewers -> RevSession]
  /\ prompted \in [1..MaxCoder -> 0..2]
  /\ asked \in [Rounds -> [Reviewers -> 0..2]]
WorldOK ==
  /\ tree \in [head : Heads, dirty : BOOLEAN, there : BOOLEAN]
  /\ remote \in Heads /\ pr \in BOOLEAN
  /\ ci \in [Heads -> {"pending", "pass", "fail"}]
  /\ enabled \in BOOLEAN /\ overdue \in BOOLEAN
  /\ crashes \in 0..MaxCrashes /\ faults \in 0..MaxFaults /\ meddling \in 0..MaxMeddling
  /\ cleared \subseteq Heads /\ published \subseteq Heads

LEMMA SessionStep ==
  ASSUME TypeOK, Durable, Memory, Next
  PROVE  SessionsOK'
<1>t. SessionsOK /\ Typed
  BY Types DEF TypeOK, SessionsOK
<1>n. /\ NoDev \in DevSession /\ [inv |-> 0, st |-> "idle"] \in DevSession
      /\ NoRev \in RevSession /\ NoRevs \in [Reviewers -> RevSession]
  BY DEF NoDev, DevSession, Reports, NoRev, NoRevs, RevSession, Heads, Foreign
<1>1. CASE UNCHANGED <<dev, rev, prompted, asked>>
  BY <1>1, <1>t DEF SessionsOK
<1>2. CASE LaunchCoder \/ RetryCoder
  BY <1>2, <1>t, <1>n DEF LaunchCoder, RetryCoder, SessionsOK, world, history
<1>3. CASE SubmitCoder \/ SubmitCoderUncertain
  <2>1. gh.turn.inv \in 1..MaxCoder
    BY <1>3, <1>t DEF SubmitCoder, SubmitCoderUncertain, Durable, Memory, TurnKept, TurnAt, At, Turning, Typed, Turn
  <2>2. \A st \in {"idle", "busy"} : [inv |-> gh.turn.inv, st |-> st] \in DevSession
    BY <2>1 DEF DevSession
  <2>3. [prompted EXCEPT ![gh.turn.inv] = @ + 1] \in [1..MaxCoder -> 0..2]
    <3>1. prompted[gh.turn.inv] \in 0..2 /\ prompted[gh.turn.inv] <= 1
      BY <1>t, <2>1 DEF SessionsOK, Durable, NoPromptTwice
    <3>2. prompted[gh.turn.inv] + 1 \in 0..2
      BY <3>1
    <3> QED
      BY <1>t, <2>1, <3>2 DEF SessionsOK
  <2> QED
    BY <1>3, <1>t, <2>2, <2>3 DEF SubmitCoder, SubmitCoderUncertain, SessionsOK, world, history
<1>4. CASE Review
  BY <1>4, <1>t, <1>n DEF Review, SessionsOK, world, history
<1>r. ASSUME NEW l \in Reviewers, Open(l)
      PROVE  gh.round \in Rounds /\ CurrentWave \in Wave /\ CurrentWave.head \in Heads
  <2>1. gh.phase = "reviewing"
    BY <1>r DEF Open, Pending, Durable, Memory, PhaseInv, At, Waving
  <2>2. gh.round \in Rounds
    BY <2>1, <1>t DEF Durable, Memory, RoundKept, RoundAt, Typed, Rounds
  <2> QED
    BY <2>2, <1>t DEF CurrentWave, Typed, Wave
<1>5. CASE \E l \in Reviewers : LaunchReviewer(l)
  <2> SUFFICES ASSUME NEW l \in Reviewers, LaunchReviewer(l) PROVE SessionsOK'
    BY <1>5
  <2>1. [round |-> 0, head |-> CurrentWave.head, st |-> "idle"] \in RevSession
    BY <1>r DEF LaunchReviewer, RevSession
  <2> QED
    BY <2>1, <1>t DEF LaunchReviewer, SessionsOK, world, history
<1>6. CASE \E l \in Reviewers : SubmitReviewer(l) \/ SubmitReviewerUncertain(l)
  <2> SUFFICES ASSUME NEW l \in Reviewers, SubmitReviewer(l) \/ SubmitReviewerUncertain(l)
               PROVE  SessionsOK'
    BY <1>6
  <2>1. gh.round \in Rounds
    BY <1>r DEF SubmitReviewer, SubmitReviewerUncertain, CanSubmit
  <2>2. ASSUME NEW st \in {"idle", "busy"}
        PROVE  [rev EXCEPT ![l].round = gh.round, ![l].st = st] \in [Reviewers -> RevSession]
    <3>1. [rev[l] EXCEPT !.round = gh.round, !.st = st] \in RevSession
      <4>1. rev[l] \in RevSession /\ gh.round \in 0..MaxRounds
        BY <1>t, <2>1 DEF SessionsOK, Typed
      <4> QED
        BY <4>1 DEF RevSession
    <3> QED
      BY <1>t, <3>1 DEF SessionsOK
  <2>3. [asked EXCEPT ![gh.round][l] = @ + 1] \in [Rounds -> [Reviewers -> 0..2]]
    <3>1. [asked[gh.round] EXCEPT ![l] = @ + 1] \in [Reviewers -> 0..2]
      BY SMTT(20), <1>t, <2>1 DEF SessionsOK, Durable, NoPromptTwice
    <3> QED
      BY <1>t, <2>1, <3>1 DEF SessionsOK
  <2> QED
    BY <1>t, <2>2, <2>3 DEF SubmitReviewer, SubmitReviewerUncertain, SessionsOK, world
<1>7. CASE CleanupSeats \/ StopFails
  <2>1. dev' = dev /\ prompted' = prompted /\ asked' = asked
    BY <1>7 DEF CleanupSeats, StopFails, world, history
  <2>2. rev' \in [Reviewers -> RevSession]
    BY <1>7, <1>t, <1>n DEF CleanupSeats, StopFails, SessionsOK
  <2> QED
    BY <1>t, <2>1, <2>2 DEF SessionsOK
<1>8. CASE StopLanes \/ KeeperStops
  BY <1>8, <1>t, <1>n DEF StopLanes, KeeperStops, SessionsOK, sessions, world, history
<1>9. CASE DevFinishes \/ DevTimesOut
  <2>1. \A st \in Reports \cup {"fail"} : [dev EXCEPT !.st = st] \in DevSession
    BY <1>t DEF SessionsOK, DevSession
  <2> QED
    BY <1>9, <1>t, <2>1 DEF DevFinishes, DevTimesOut, Reports, SessionsOK, world, history
<1>10. CASE \E l \in Reviewers : ReviewerFinishes(l) \/ ReviewerTimesOut(l)
  <2> SUFFICES ASSUME NEW l \in Reviewers, ReviewerFinishes(l) \/ ReviewerTimesOut(l)
               PROVE  SessionsOK'
    BY <1>10
  <2>1. ASSUME NEW st \in Results PROVE [rev EXCEPT ![l].st = st] \in [Reviewers -> RevSession]
    <3>1. [rev[l] EXCEPT !.st = st] \in RevSession
      BY <1>t DEF SessionsOK, RevSession
    <3> QED
      BY <1>t, <3>1 DEF SessionsOK
  <2> QED
    BY <1>t, <2>1 DEF ReviewerFinishes, ReviewerTimesOut, Results, SessionsOK, world, history
<1>11. CASE \/ RunWork \/ ClaimItem \/ AcquireCheckout \/ VerifyCheckout \/ ResumeWork \/ LoopTop
            \/ StartCoder \/ BeginCoding \/ PrepareTurn \/ ReuseTurn \/ CollectCoder \/ JudgeCoder
            \/ FinishCoder \/ RecordProposals \/ CommitSnapshot \/ RecordSnapshot \/ PlanSeats
            \/ RecordPrompts \/ (\E l \in Reviewers : ReuseSeat(l) \/ CollectReviewer(l))
            \/ PersistRound \/ SaveProgress \/ Reviewed
  BY <1>11, <1>1 DEF RunWork, ClaimItem, AcquireCheckout, VerifyCheckout, ResumeWork, LoopTop,
     StartCoder, BeginCoding, PrepareTurn, ReuseTurn, CollectCoder, JudgeCoder, FinishCoder,
     RecordProposals, CommitSnapshot, RecordSnapshot, PlanSeats, RecordPrompts, ReuseSeat,
     CollectReviewer, PersistRound, SaveProgress, Reviewed, sessions, history
<1>12. CASE \/ BeginGate \/ Publish \/ PersistResources \/ ReconcilePR \/ RecordPR \/ SettleGate
            \/ UpdatePR \/ RecordStopped \/ Settle \/ Release
  BY <1>12, <1>1 DEF BeginGate, Publish, PersistResources, ReconcilePR, RecordPR, SettleGate,
     UpdatePR, RecordStopped, Settle, Release, sessions, history
<1>13. CASE KeeperFails \/ RequestFails \/ Crash \/ CIReports \/ Deadline \/ Operators
  BY <1>13, <1>1 DEF KeeperFails, RequestFails, Crash, CIReports, Deadline, Operators, Rerun,
     ToggleEnabled, Requeue, ForeignPush, DevOversteps, sessions, history
<1> QED
  BY <1>2, <1>3, <1>4, <1>5, <1>6, <1>7, <1>8, <1>9, <1>10, <1>11, <1>12, <1>13
  DEF Next, Loop, Lanes, Faults

LEMMA WorldStep ==
  ASSUME TypeOK, Durable, Memory, Next
  PROVE  WorldOK'
<1>t. WorldOK /\ Typed
  BY Types DEF TypeOK, WorldOK
<1>h. 0..MaxCommits \subseteq Heads /\ Foreign \in Heads
  BY DEF Heads, Foreign
<1>1. CASE UNCHANGED <<tree, world, cleared, published>>
  BY <1>1, <1>t DEF WorldOK, world
<1>2. CASE AcquireCheckout \/ Release
  <2>1. UNCHANGED <<world, cleared, published>>
    BY <1>2 DEF AcquireCheckout, Release, history
  <2>2. tree' \in [head : Heads, dirty : BOOLEAN, there : BOOLEAN]
    BY <1>2, <1>t DEF AcquireCheckout, Release, WorldOK
  <2> QED
    BY <1>t, <2>1, <2>2 DEF WorldOK, world
<1>3. CASE CommitSnapshot
  <2>1. UNCHANGED <<world, cleared, published>>
    BY <1>3 DEF CommitSnapshot, history
  <2>2. CASE tree.dirty
    <3>1. tree.head >= MaxCommits \/ tree.head + 1 \in Heads
      BY <1>t, <1>h DEF WorldOK, Heads
    <3>2. tree' \in [head : Heads, dirty : BOOLEAN, there : BOOLEAN]
      BY ZenonT(40), <1>3, <1>t, <2>2, <3>1 DEF CommitSnapshot, WorldOK
    <3> QED
      BY <1>t, <2>1, <3>2 DEF WorldOK, world
  <2>3. CASE ~tree.dirty
    <3>1. tree' \in [head : Heads, dirty : BOOLEAN, there : BOOLEAN]
      BY <1>3, <1>t, <2>3 DEF CommitSnapshot, WorldOK
    <3> QED
      BY <1>t, <2>1, <3>1 DEF WorldOK, world
  <2> QED
    BY <2>2, <2>3
<1>4. CASE SaveProgress
  <2>1. gh.round \in Rounds
    BY <1>4, <1>t DEF SaveProgress, Durable, Memory, PhaseInv, RoundKept, RoundAt, At, Waving, Typed, Rounds
  <2>2. CurrentWave.head \in Heads
    BY <1>t, <2>1 DEF CurrentWave, Typed, Wave
  <2>3. cleared' \in {cleared, cleared \cup {CurrentWave.head}}
    BY <1>4 DEF SaveProgress
  <2> QED
    BY <1>4, <1>t, <2>2, <2>3 DEF SaveProgress, WorldOK, world
<1>5. CASE Publish \/ ReconcilePR
  BY <1>5, <1>t DEF Publish, ReconcilePR, WorldOK, Typed, history
<1>6. CASE CIReports \/ Rerun
  BY <1>6, <1>t DEF CIReports, Rerun, WorldOK, history
<1>7. CASE Deadline \/ ToggleEnabled \/ Requeue \/ ForeignPush
  <2>1. (~enabled) \in BOOLEAN
    OBVIOUS
  <2>2. enabled' \in BOOLEAN /\ overdue' \in BOOLEAN
    BY <1>7, <1>t, <2>1, Zenon DEF Deadline, ToggleEnabled, Requeue, ForeignPush, WorldOK
  <2>3. /\ UNCHANGED <<tree, pr, ci, crashes, faults, cleared, published>>
        /\ meddling' \in 0..MaxMeddling /\ remote' \in Heads
    BY <1>7, <1>t, <1>h DEF Deadline, ToggleEnabled, Requeue, ForeignPush, Meddle, WorldOK, history
  <2> QED
    BY <1>t, <2>2, <2>3 DEF WorldOK
<1>8. CASE DevFinishes \/ DevOversteps
  <2>1. tree' \in [head : Heads, dirty : BOOLEAN, there : BOOLEAN]
    <3>1. tree.head < MaxCommits => tree.head + 1 \in Heads
      BY SMTT(20), <1>t DEF WorldOK, Heads, Foreign
    <3>2. /\ [tree EXCEPT !.dirty = TRUE] \in [head : Heads, dirty : BOOLEAN, there : BOOLEAN]
          /\ tree.head < MaxCommits => [tree EXCEPT !.head = @ + 1, !.dirty = FALSE]
                                         \in [head : Heads, dirty : BOOLEAN, there : BOOLEAN]
      BY <1>t, <3>1 DEF WorldOK
    <3> QED
      BY <1>8, <1>t, <3>2 DEF DevFinishes, DevOversteps, WorldOK
  <2> QED
    BY <1>8, <1>t, <2>1 DEF DevFinishes, DevOversteps, Meddle, WorldOK, world, history
<1>9. CASE SubmitCoderUncertain \/ StopFails \/ KeeperFails \/ RequestFails \/ Crash
           \/ \E l \in Reviewers : SubmitReviewerUncertain(l)
  <2>1. UNCHANGED <<tree, remote, pr, ci, enabled, overdue, meddling, cleared, published>>
    BY <1>9 DEF SubmitCoderUncertain, StopFails, KeeperFails, RequestFails, Crash,
       SubmitReviewerUncertain, history
  <2>2. CASE Crash
    <3>1. crashes + 1 \in 0..MaxCrashes \/ crashes >= MaxCrashes
      BY <1>t DEF WorldOK
    <3> QED
      BY <1>t, <2>1, <2>2, <3>1 DEF Crash, WorldOK
  <2>3. CASE ~Crash
    <3>1. faults + 1 \in 0..MaxFaults \/ faults >= MaxFaults
      BY <1>t DEF WorldOK
    <3>2. faults' = faults + 1 /\ faults < MaxFaults /\ crashes' = crashes
      BY <1>9, <2>3 DEF SubmitCoderUncertain, StopFails, KeeperFails, RequestFails,
         SubmitReviewerUncertain
    <3> QED
      BY <1>t, <2>1, <3>1, <3>2 DEF WorldOK
  <2> QED
    BY <2>2, <2>3
<1>10. CASE \/ RunWork \/ ClaimItem \/ VerifyCheckout \/ ResumeWork \/ LoopTop
            \/ StartCoder \/ BeginCoding \/ PrepareTurn \/ ReuseTurn \/ LaunchCoder \/ SubmitCoder
            \/ CollectCoder \/ JudgeCoder \/ RetryCoder \/ FinishCoder \/ RecordProposals
            \/ Review \/ RecordSnapshot \/ PlanSeats \/ RecordPrompts
  BY <1>10, <1>1 DEF RunWork, ClaimItem, VerifyCheckout, ResumeWork, LoopTop, StartCoder,
     BeginCoding, PrepareTurn, ReuseTurn, LaunchCoder, SubmitCoder, CollectCoder, JudgeCoder,
     RetryCoder, FinishCoder, RecordProposals, Review, RecordSnapshot, PlanSeats, RecordPrompts,
     history
<1>11. CASE \/ (\E l \in Reviewers : ReuseSeat(l) \/ LaunchReviewer(l) \/ SubmitReviewer(l)
                                     \/ CollectReviewer(l))
            \/ PersistRound \/ CleanupSeats \/ Reviewed \/ BeginGate \/ PersistResources
            \/ RecordPR \/ SettleGate \/ UpdatePR \/ StopLanes \/ RecordStopped \/ Settle
  BY <1>11, <1>1 DEF ReuseSeat, LaunchReviewer, SubmitReviewer, CollectReviewer, PersistRound,
     CleanupSeats, Reviewed, BeginGate, PersistResources, RecordPR, SettleGate, UpdatePR, StopLanes,
     RecordStopped, Settle, history
<1>12. CASE DevTimesOut \/ KeeperStops \/ \E l \in Reviewers : ReviewerFinishes(l) \/ ReviewerTimesOut(l)
  BY <1>12, <1>1 DEF DevTimesOut, KeeperStops, ReviewerFinishes, ReviewerTimesOut, history
<1> QED
  BY <1>2, <1>3, <1>4, <1>5, <1>6, <1>7, <1>8, <1>9, <1>10, <1>11, <1>12
  DEF Next, Loop, Lanes, Faults, Operators

LEMMA TypeStep == RunInv /\ [Next]_vars => TypeOK'
<1> SUFFICES ASSUME RunInv, [Next]_vars PROVE TypeOK'
  OBVIOUS
<1>1. CASE Next
  BY <1>1, StateStep, MemoryStep, SessionStep, WorldStep DEF RunInv, TypeOK, SessionsOK, WorldOK
<1>2. CASE UNCHANGED vars
  BY <1>2 DEF RunInv, vars, TypeOK
<1> QED
  BY <1>1, <1>2
----------------------------------------------------------------------------
(* Steps of the loop.                                                      *)

\* What a step leaves alone of the memory and of the durable state.
Held ==
  /\ run'.atGate = run.atGate /\ run'.recover = run.recover /\ run'.resume = run.resume
  /\ run'.rounds = run.rounds /\ run'.head = run.head /\ run'.failed = run.failed
  /\ run'.out = run.out
KeepsWaves == gh'.round = gh.round /\ gh'.waves = gh.waves
KeepsOpen == gh'.open = gh.open /\ gh'.proposed = gh.proposed
KeepsTurn == gh'.turn = gh.turn /\ gh'.usage = gh.usage /\ gh'.failures = gh.failures
KeepsRest ==
  gh'.head = gh.head /\ gh'.stopped = gh.stopped /\ gh'.pr = gh.pr /\ gh'.noChanges = gh.noChanges

\* The run dies, or goes on to its end without success.
Quits ==
  \/ run'.pc = "off" /\ run'.head = 0
  \/ run'.pc = "stop" /\ run'.verdict \in {"escalated", "cancelled"} /\ run'.head = run.head

LEMMA Moves ==
  ASSUME TypeOK
  PROVE  /\ \A s : Goto(s) => run'.pc = s /\ Held /\ run'.verdict = run.verdict
         /\ \A v : End(v) => run'.pc = "stop" /\ run'.verdict = v /\ Held
         /\ Escalate => Quits
         /\ End("cancelled") => Quits
         /\ Propagate => run'.pc = "off" /\ Quits
         /\ Fail => Quits /\ (run'.pc = "stop" => gh.phase # "none")
         /\ \A s : Authorized(s) => Quits \/ (run'.pc = s /\ Held)
<1>t. run \in Run
  BY DEF TypeOK
<1>1. \A s : Goto(s) => run'.pc = s /\ Held /\ run'.verdict = run.verdict
  BY <1>t DEF Goto, Held, Run
<1>2. \A v : End(v) => run'.pc = "stop" /\ run'.verdict = v /\ Held
  BY <1>t DEF End, Held, Run
<1>3. Propagate => run'.pc = "off" /\ Quits
  BY DEF Propagate, NotRunning, Quits
<1>4. Escalate => Quits
  BY <1>2 DEF Escalate, Quits, Held
<1>5. End("cancelled") => Quits
  BY <1>2 DEF Quits, Held
<1>6. Fail => Quits /\ (run'.pc = "stop" => gh.phase # "none")
  <2>1. run' = [run EXCEPT !.pc = "stop", !.verdict = "escalated", !.driver = "crash"] =>
          run'.pc = "stop" /\ run'.verdict = "escalated" /\ run'.head = run.head
    BY <1>t DEF Run
  <2> QED
    BY <1>3, <2>1 DEF Fail, Quits
<1>7. \A s : Authorized(s) => Quits \/ (run'.pc = s /\ Held)
  BY <1>1, <1>5 DEF Authorized
<1> QED
  BY <1>1, <1>2, <1>3, <1>4, <1>5, <1>6, <1>7

\* A run that quits leaves nothing to say of its memory.
LEMMA QuitsMemory ==
  ASSUME TypeOK, Quits, tree'.head \in Heads, run.head <= tree'.head,
         run'.pc = "stop" => gh'.phase \in Active \cup {"queued"}
  PROVE  Memory'
<1>1. run'.head <= tree'.head /\ run'.pc \in {"off", "stop"}
  BY DEF Quits, Heads, Foreign
<1>2. PhaseInv' /\ HeadAt'
  BY <1>1 DEF PhaseInv, HeadAt, At, Coding, Turning, Opening, Waving, Gating, Ending
<1>3. RoundAt' /\ OpenAt' /\ ReportAt'
  BY <1>1 DEF RoundAt, OpenAt, ReportAt, At, Before, Opening, Waving, Gating
<1>4. TurnAt' /\ PromptAt' /\ DevAt'
  BY <1>1 DEF TurnAt, PromptAt, DevAt, At, Turning
<1>5. ClearInv'
  BY <1>1 DEF ClearInv, Quits, At, Ending
<1> QED
  BY <1>2, <1>3, <1>4, <1>5 DEF Memory

\* A step that only moves the loop on leaves what is durable as it was.
LEMMA DurableSame ==
  ASSUME Durable,
         UNCHANGED <<gh, dev, rev, prompted, asked, cleared, published, remote, pr>>,
         tree'.head = tree.head
  PROVE  Durable'
<1>1. NoPromptTwice' /\ OnlyReviewedPublished' /\ DeveloperStoppedWhenReleased'
  BY DEF Durable, NoPromptTwice, OnlyReviewedPublished, DeveloperStoppedWhenReleased
<1>2. RoundKept' /\ OpenKept' /\ ReportKept' /\ TurnKept'
  BY DEF Durable, RoundKept, OpenKept, ReportKept, TurnKept, CurrentWave
<1>3. PromptKept' /\ DevKept' /\ HeadKept'
  BY DEF Durable, PromptKept, DevKept, HeadKept
<1> QED
  BY <1>1, <1>2, <1>3 DEF Durable

\* The phase behind a step at which the loop can still escalate.
LEMMA Unsettled ==
  ASSUME TypeOK, Memory, run.pc \notin {"off", "release"}, gh.phase # "none"
  PROVE  gh.phase \in Active \cup {"queued"}
<1>1. run.pc \in Steps
  BY Types DEF Typed
<1> QED
  BY <1>1 DEF Memory, PhaseInv, Steps, At, Active, Coding, Turning, Opening, Waving, Gating, Ending

LEMMA MoveOff ==
  ASSUME RunInv, Quits, run.pc \notin {"off", "release"},
         run'.pc = "stop" => gh.phase # "none",
         UNCHANGED <<gh, dev, rev, prompted, asked, cleared, published, remote, pr, tree>>
  PROVE  Durable' /\ Memory'
<1>1. Durable'
  BY DurableSame DEF RunInv
<1>2. tree'.head \in Heads /\ run.head <= tree'.head
  BY Types DEF RunInv, Typed, Memory, HeadAt
<1>3. run'.pc = "stop" => gh'.phase \in Active \cup {"queued"}
  BY Unsettled DEF RunInv
<1> QED
  BY <1>1, <1>2, <1>3, QuitsMemory DEF RunInv

\* The groups of steps, and the parts a write leaves alone, from here on.
USE DEF At, Held, CurrentWave, KeepsWaves, KeepsOpen, KeepsTurn, KeepsRest, Before, Coding, Turning,
    Opening, Waving, Gating, Ending, Active

\* Taking the item up.
LEMMA Uptake ==
  ASSUME RunInv, RunWork \/ ClaimItem \/ AcquireCheckout \/ VerifyCheckout \/ ResumeWork \/ LoopTop
  PROVE  Durable' /\ Memory'
<1>t. TypeOK /\ Typed /\ Durable /\ Memory /\ run \in Run /\ gh \in State
  BY Types DEF RunInv, TypeOK
<1>h. tree.head \in Nat /\ gh.head \in Nat
  BY <1>t DEF Typed, Heads, Foreign
<1>1. CASE RunWork
  <2>a. UNCHANGED <<dev, rev, prompted, asked, cleared, published, remote, pr, ci, tree>> /\ At("off")
    BY <1>1 DEF RunWork, sessions, world, history
  <2>1. CASE gh.phase = "none" /\ gh' = [gh EXCEPT !.phase = "escalated"] /\ run' = run
    <3>a. gh'.phase = "escalated" /\ KeepsWaves /\ KeepsOpen /\ KeepsTurn /\ KeepsRest
      BY <1>t, <2>1 DEF State
    <3>b. dev.st = "none"
      BY <1>t, <2>1 DEF Durable, TurnKept, DevKept
    <3>1. Durable'
      BY <1>t, <2>a, <2>1, <3>a, <3>b DEF RunInv, Durable, Memory, NoPromptTwice,
         OnlyReviewedPublished, DeveloperStoppedWhenReleased, Terminal, RoundKept, OpenKept,
         ReportKept, TurnKept, PromptKept, DevKept, HeadKept
    <3>2. Memory'
      BY <1>t, <2>a, <2>1, <3>a DEF RunInv, Durable, Memory, PhaseInv, RoundAt, HeadAt, OpenAt,
         ReportAt, TurnAt, PromptAt, DevAt, ClearInv, Verified
    <3> QED
      BY <3>1, <3>2
  <2>2. CASE /\ gh.phase \in {"none", "queued"} /\ gh' = gh
             /\ run' = [NotRunning EXCEPT !.pc = "claim", !.atGate = gh.phase = "queued" /\ gh.pr]
    <3>a. run'.pc = "claim" /\ run'.head = 0
      BY <2>2 DEF NotRunning
    <3>1. Durable'
      BY <1>t, <2>a, <2>2, DurableSame
    <3>2. Memory'
      BY <1>t, <1>h, <2>a, <2>2, <3>a DEF RunInv, Durable, Memory, PhaseInv, RoundAt, HeadAt,
         OpenAt, ReportAt, TurnAt, PromptAt, DevAt, ClearInv, Verified
    <3> QED
      BY <3>1, <3>2
  <2> QED
    BY <1>1, <2>1, <2>2 DEF RunWork
<1>2. CASE ClaimItem
  <2>a. UNCHANGED <<dev, rev, prompted, asked, cleared, published, remote, pr, ci, tree>> /\ At("claim")
    BY <1>2 DEF ClaimItem, sessions, world, history
  <2>1. CASE gh' = [gh EXCEPT !.phase = "claiming"] /\ Goto("checkout")
    <3>a. gh'.phase = "claiming" /\ KeepsWaves /\ KeepsOpen /\ KeepsTurn /\ KeepsRest
      BY <1>t, <2>1 DEF State
    <3>b. run'.pc = "checkout" /\ Held
      BY <1>t, <2>1, Moves
    <3>1. Durable'
      BY <1>t, <2>a, <3>a DEF RunInv, Durable, Memory, NoPromptTwice, OnlyReviewedPublished,
         DeveloperStoppedWhenReleased, Terminal, RoundKept, OpenKept, ReportKept, TurnKept,
         PromptKept, DevKept, HeadKept
    <3>2. Memory'
      BY <1>t, <2>a, <3>a, <3>b DEF RunInv, Durable, Memory, PhaseInv, RoundAt, HeadAt, OpenAt,
         ReportAt, TurnAt, PromptAt, DevAt, ClearInv, Verified
    <3> QED
      BY <3>1, <3>2
  <2>2. CASE gh' = gh /\ Fail
    BY <1>t, <2>a, <2>2, Moves, MoveOff
  <2> QED
    BY <1>2, <2>1, <2>2 DEF ClaimItem
<1>3. CASE AcquireCheckout
  <2>a. UNCHANGED <<gh, dev, rev, prompted, asked, cleared, published, remote, pr, ci>>
        /\ tree'.head = tree.head /\ At("checkout") /\ gh.phase = "claiming"
    BY <1>3, <1>t DEF AcquireCheckout, sessions, world, history, TypeOK, Memory, PhaseInv
  <2>1. CASE Fail /\ UNCHANGED tree
    BY <1>t, <2>a, <2>1, Moves, MoveOff
  <2>2. CASE Goto("verify")
    <3>a. run'.pc = "verify" /\ Held
      BY <1>t, <2>2, Moves
    <3>1. Durable'
      BY <1>t, <2>a, DurableSame
    <3>2. Memory'
      BY <1>t, <2>a, <3>a DEF RunInv, Durable, Memory, PhaseInv, RoundAt, HeadAt, OpenAt,
         ReportAt, TurnAt, PromptAt, DevAt, ClearInv, Verified
    <3> QED
      BY <3>1, <3>2
  <2> QED
    BY <1>3, <2>1, <2>2 DEF AcquireCheckout
<1>4. CASE VerifyCheckout
  <2>a. UNCHANGED <<dev, rev, prompted, asked, cleared, published, remote, pr, ci, tree>>
        /\ At("verify") /\ gh.phase = "claiming"
    BY <1>4, <1>t DEF VerifyCheckout, sessions, world, history, Memory, PhaseInv
  <2>1. CASE (Fail \/ Escalate) /\ UNCHANGED gh
    BY <1>t, <2>a, <2>1, Moves, MoveOff
  <2>2. CASE run' = LoopFrom(run) /\ (gh' = gh \/ gh' = [gh EXCEPT !.worktree = TRUE, !.head = tree.head])
    <3>a. /\ run'.pc = "top" /\ ~run'.recover /\ run'.rounds = gh.round /\ run'.head = gh.head
          /\ run'.atGate = run.atGate
      BY <1>t, <2>a, <2>2 DEF LoopFrom, Run
    <3>b. gh'.phase = gh.phase /\ KeepsWaves /\ KeepsOpen /\ KeepsTurn /\ gh'.stopped = gh.stopped
          /\ gh'.pr = gh.pr /\ gh'.head <= tree.head /\ gh'.noChanges = gh.noChanges
      <4>1. gh.head <= tree.head /\ tree.head <= tree.head
        BY <1>t, <1>h DEF Durable, HeadKept
      <4>2. CASE gh' = gh
        BY <4>1, <4>2
      <4>3. CASE gh' = [gh EXCEPT !.worktree = TRUE, !.head = tree.head]
        BY <1>t, <4>1, <4>3 DEF State
      <4> QED
        BY <2>2, <4>2, <4>3
    <3>1. Durable'
      BY <1>t, <2>a, <3>b DEF RunInv, Durable, Memory, NoPromptTwice, OnlyReviewedPublished,
         DeveloperStoppedWhenReleased, Terminal, RoundKept, OpenKept, ReportKept, TurnKept,
         PromptKept, DevKept, HeadKept
    <3>2. Memory'
      BY <1>t, <1>h, <2>a, <3>a, <3>b DEF RunInv, Durable, Memory, PhaseInv, RoundAt, HeadAt,
         OpenAt, ReportAt, TurnAt, PromptAt, DevAt, ClearInv, Verified, HeadKept
    <3> QED
      BY <3>1, <3>2
  <2> QED
    BY <1>4, <2>1, <2>2 DEF VerifyCheckout
<1>5. CASE ResumeWork
  <2>a. UNCHANGED <<gh, dev, rev, prompted, asked, cleared, published, remote, pr, ci, tree>>
        /\ Recoverable
    BY <1>5 DEF ResumeWork, sessions, world, history
  <2>d. Durable'
    BY <1>t, <2>a, DurableSame
  <2> DEFINE atGate == gh.phase \in {"ci_gating", "updating_pr"}
             started == [NotRunning EXCEPT !.driver = "resume", !.atGate = atGate]
  <2>b. /\ run' = [started EXCEPT !.pc = "stop", !.verdict = "cancelled"]
           \/ run' = [started EXCEPT !.pc = "stop", !.verdict = "escalated"]
           \/ run' = LoopFrom(started)
    BY <1>5, Zenon DEF ResumeWork
  <2>1. CASE run' = [started EXCEPT !.pc = "stop", !.verdict = "cancelled"]
             \/ run' = [started EXCEPT !.pc = "stop", !.verdict = "escalated"]
    <3>a. run'.pc = "stop" /\ run'.verdict \in {"escalated", "cancelled"} /\ run'.head = 0
      BY <2>1 DEF NotRunning
    <3>b. gh.phase \in Active
      BY <2>a DEF Recoverable
    <3>1. Memory'
      BY <1>t, <1>h, <2>a, <3>a, <3>b DEF RunInv, Durable, Memory, PhaseInv, RoundAt, HeadAt,
         OpenAt, ReportAt, TurnAt, PromptAt, DevAt, ClearInv, Verified
    <3> QED
      BY <2>d, <3>1
  <2>2. CASE run' = LoopFrom(started)
    <3>a. /\ run'.pc = "top" /\ run'.head = gh.head
          /\ (run'.recover <=> gh.phase = "reviewing")
          /\ (gh.phase # "reviewing" => run'.rounds = gh.round)
          /\ (run'.atGate <=> atGate)
      BY <2>2 DEF LoopFrom, NotRunning
    <3>b. gh.phase \in Active /\ (gh.phase = "reviewing" => CurrentWave.planned)
      BY <2>a DEF Recoverable
    <3>1. Memory'
      BY <1>t, <1>h, <2>a, <3>a, <3>b DEF RunInv, Durable, Memory, PhaseInv, RoundAt, HeadAt,
         OpenAt, ReportAt, TurnAt, PromptAt, DevAt, ClearInv, Verified, HeadKept
    <3> QED
      BY <2>d, <3>1
  <2> HIDE DEF started, atGate
  <2> QED
    BY <2>b, <2>1, <2>2
<1>6. CASE LoopTop
  <2>a. UNCHANGED <<gh, dev, rev, prompted, asked, cleared, published, remote, pr, ci, tree>>
        /\ At("top")
    BY <1>6 DEF LoopTop, sessions, world, history
  <2>d. Durable'
    BY <1>t, <2>a, DurableSame
  <2>1. CASE Escalate
    <3>1. gh.phase \in Active
      BY <1>t, <2>a DEF Memory, PhaseInv
    <3> QED
      BY <1>t, <2>a, <2>1, <3>1, Moves, MoveOff
  <2>2. CASE Goto("gate") /\ run.atGate
    <3>a. run'.pc = "gate" /\ Held /\ run.atGate
      BY <1>t, <2>2, Moves
    <3>1. Memory'
      BY <1>t, <2>a, <3>a DEF RunInv, Durable, Memory, PhaseInv, RoundAt, HeadAt, OpenAt,
         ReportAt, TurnAt, PromptAt, DevAt, ClearInv, Verified
    <3> QED
      BY <2>d, <3>1
  <2>3. CASE Goto("review") /\ ~run.atGate /\ (run.recover \/ gh.proposed)
    <3>a. run'.pc = "review" /\ Held /\ ~run.atGate /\ (run.recover \/ gh.proposed)
      BY <1>t, <2>3, Moves
    <3>1. Memory'
      BY <1>t, <2>a, <3>a DEF RunInv, Durable, Memory, PhaseInv, RoundAt, HeadAt, OpenAt,
         ReportAt, TurnAt, PromptAt, DevAt, ClearInv, Verified, OpenKept
    <3> QED
      BY <2>d, <3>1
  <2>4. CASE Goto("coder") /\ ~run.atGate /\ ~run.recover
    <3>a. run'.pc = "coder" /\ Held /\ ~run.atGate /\ ~run.recover
      BY <1>t, <2>4, Moves
    <3>1. Memory'
      BY <1>t, <2>a, <3>a DEF RunInv, Durable, Memory, PhaseInv, RoundAt, HeadAt, OpenAt,
         ReportAt, TurnAt, PromptAt, DevAt, ClearInv, Verified
    <3> QED
      BY <2>d, <3>1
  <2> QED
    BY <1>6, <2>1, <2>2, <2>3, <2>4 DEF LoopTop
<1> QED
  BY <1>1, <1>2, <1>3, <1>4, <1>5, <1>6

\* The coder turn.
LEMMA CoderStep ==
  ASSUME RunInv, \/ StartCoder \/ BeginCoding \/ PrepareTurn \/ ReuseTurn \/ LaunchCoder
                 \/ CollectCoder \/ JudgeCoder \/ RetryCoder \/ FinishCoder \/ RecordProposals
  PROVE  Durable' /\ Memory'
<1>t. TypeOK /\ Typed /\ Durable /\ Memory /\ run \in Run /\ gh \in State /\ gh.turn \in Turn
  BY Types DEF RunInv, TypeOK, Typed
<1>h. tree.head \in Nat /\ gh.head \in Nat /\ gh.usage \in Nat /\ gh.failures \in Nat
  BY <1>t DEF Typed, Heads, Foreign
<1>p. run.pc \in Coding => gh.phase = "coding"
  BY <1>t DEF Memory, PhaseInv
<1>1. CASE StartCoder
  <2>a. UNCHANGED <<dev, rev, prompted, asked, cleared, published, remote, pr, ci, tree>>
        /\ At("coder") /\ gh.phase \in Active
    BY <1>1, <1>t DEF StartCoder, sessions, world, history, Memory, PhaseInv
  <2>1. CASE Escalate /\ UNCHANGED gh
    BY <1>t, <2>a, <2>1, Moves, MoveOff
  <2>2. CASE /\ run' = [run EXCEPT !.pc = "dispatch", !.resume = TRUE] /\ gh' = gh
             /\ gh.phase = "coding" /\ gh.turn.inv # 0 /\ ~gh.turn.consumed
    <3>a. /\ run'.pc = "dispatch" /\ run'.resume /\ run'.head = run.head /\ run'.atGate = run.atGate
          /\ run'.recover = run.recover /\ run'.rounds = run.rounds
      BY <1>t, <2>2 DEF Run
    <3>1. Durable'
      BY <1>t, <2>a, <2>2, DurableSame
    <3>2. Memory'
      BY <1>t, <2>a, <2>2, <3>a DEF RunInv, Durable, Memory, PhaseInv, RoundAt, HeadAt, OpenAt,
         ReportAt, TurnAt, PromptAt, DevAt, ClearInv, Verified, TurnKept
    <3> QED
      BY <3>1, <3>2
  <2>3. CASE /\ gh' = [gh EXCEPT !.head = tree.head] /\ gh.usage < MaxCoder
             /\ run' = [run EXCEPT !.pc = "coding", !.resume = FALSE]
    <3>a. /\ run'.pc = "coding" /\ run'.head = run.head /\ run'.atGate = run.atGate
          /\ run'.recover = run.recover /\ run'.rounds = run.rounds
      BY <1>t, <2>3 DEF Run
    <3>b. gh'.phase = gh.phase /\ KeepsWaves /\ KeepsOpen /\ KeepsTurn /\ gh'.stopped = gh.stopped
          /\ gh'.pr = gh.pr /\ gh'.head = tree.head
      BY <1>t, <2>3 DEF State
    <3>1. Durable'
      BY <1>t, <1>h, <2>a, <3>b DEF RunInv, Durable, Memory, NoPromptTwice, OnlyReviewedPublished,
         DeveloperStoppedWhenReleased, Terminal, RoundKept, OpenKept, ReportKept, TurnKept,
         PromptKept, DevKept, HeadKept
    <3>2. Memory'
      BY <1>t, <2>a, <2>3, <3>a, <3>b DEF RunInv, Durable, Memory, PhaseInv, RoundAt, HeadAt,
         OpenAt, ReportAt, TurnAt, PromptAt, DevAt, ClearInv, Verified
    <3> QED
      BY <3>1, <3>2
  <2> QED
    BY <1>1, <1>h, <2>1, <2>2, <2>3 DEF StartCoder
<1>2. CASE BeginCoding
  <2>a. UNCHANGED <<dev, rev, prompted, asked, cleared, published, remote, pr, ci, tree>>
        /\ At("coding") /\ gh.phase \in Active
    BY <1>2, <1>t DEF BeginCoding, sessions, world, history, Memory, PhaseInv
  <2>b. gh'.phase = "coding" /\ KeepsWaves /\ KeepsOpen /\ KeepsTurn /\ KeepsRest
    BY <1>t, <1>2 DEF BeginCoding, State
  <2>c. Quits \/ (run'.pc = "turn" /\ Held)
    BY <1>t, <1>2, Moves DEF BeginCoding
  <2>1. Durable'
    BY <1>t, <2>a, <2>b DEF RunInv, Durable, Memory, NoPromptTwice, OnlyReviewedPublished,
       DeveloperStoppedWhenReleased, Terminal, RoundKept, OpenKept, ReportKept, TurnKept,
       PromptKept, DevKept, HeadKept
  <2>2. CASE Quits
    <3>1. run.head <= tree'.head /\ tree'.head \in Heads
      BY <1>t, <2>a DEF Typed, Memory, HeadAt
    <3> QED
      BY <1>t, <2>b, <2>1, <2>2, <3>1, QuitsMemory
  <2>3. CASE run'.pc = "turn" /\ Held
    <3>1. Memory'
      BY <1>t, <2>a, <2>b, <2>3 DEF RunInv, Durable, Memory, PhaseInv, RoundAt, HeadAt, OpenAt,
         ReportAt, TurnAt, PromptAt, DevAt, ClearInv, Verified
    <3> QED
      BY <2>1, <3>1
  <2> QED
    BY <2>c, <2>2, <2>3
<1>3. CASE PrepareTurn
  <2>a. UNCHANGED <<dev, rev, prompted, asked, cleared, published, remote, pr, ci, tree>>
        /\ At("turn") /\ gh.phase = "coding"
    BY <1>3, <1>p DEF PrepareTurn, sessions, world, history
  <2>1. CASE Escalate /\ UNCHANGED gh
    BY <1>t, <2>a, <2>1, Moves, MoveOff
  <2>2. CASE /\ gh' = [gh EXCEPT !.stopped = FALSE, !.usage = gh.usage + 1,
                         !.turn = [inv |-> gh.usage + 1, round |-> gh.round, head |-> gh.head,
                                   asks |-> run.asks = "review", consumed |-> FALSE,
                                   got |-> "none"]]
             /\ Goto("dispatch")
    <3>a. run'.pc = "dispatch" /\ Held
      BY <1>t, <2>2, Moves
    <3>b. /\ gh'.phase = gh.phase /\ KeepsWaves /\ KeepsOpen /\ gh'.failures = gh.failures
          /\ gh'.pr = gh.pr /\ gh'.head = gh.head /\ gh'.noChanges = gh.noChanges
          /\ gh'.usage = gh.usage + 1 /\ ~gh'.stopped
          /\ gh'.turn.inv = gh.usage + 1 /\ ~gh'.turn.consumed /\ gh'.turn.got = "none"
      BY <1>t, <2>2 DEF State
    <3>c. gh.usage + 1 \in 1..MaxCoder /\ prompted[gh.usage + 1] = 0
      <4>1. gh.usage + 1 \in 1..MaxCoder
        BY <1>t, <1>h, <2>a DEF Memory, TurnAt, Typed
      <4>2. prompted[gh.usage + 1] \in 0..2 /\ ~(prompted[gh.usage + 1] > 0)
        BY SMTT(20), <1>t, <1>h, <4>1 DEF TypeOK, Durable, NoPromptTwice
      <4> QED
        BY <4>1, <4>2
    <3>1. Durable'
      BY <1>t, <1>h, <2>a, <3>b, <3>c DEF RunInv, Durable, Memory, OnlyReviewedPublished,
         DeveloperStoppedWhenReleased, Terminal, NoPromptTwice, RoundKept, OpenKept, ReportKept,
         TurnKept, DevKept, HeadKept, PromptKept
    <3>2. Memory'
      BY <1>t, <1>h, <2>a, <3>a, <3>b, <3>c DEF RunInv, Durable, Memory, PhaseInv, RoundAt,
         HeadAt, OpenAt, ReportAt, TurnAt, PromptAt, DevAt, ClearInv, Verified
    <3> QED
      BY <3>1, <3>2
  <2> QED
    BY <1>3, <2>1, <2>2 DEF PrepareTurn
<1>4. CASE ReuseTurn
  <2>a. UNCHANGED <<gh, dev, rev, prompted, asked, cleared, published, remote, pr, ci, tree>>
        /\ At("dispatch") /\ gh.phase = "coding"
    BY <1>4, <1>p DEF ReuseTurn, sessions, world, history
  <2>d. Durable'
    BY <1>t, <2>a, DurableSame
  <2>1. CASE Fail
    BY <1>t, <2>a, <2>1, Moves, MoveOff
  <2>2. CASE Goto("result") \/ (gh.turn.got = "none" /\ Goto("working"))
    <3>a. (run'.pc = "result" \/ (gh.turn.got = "none" /\ run'.pc = "working")) /\ Held
      BY <1>t, <2>2, Moves
    <3>1. Memory'
      BY <1>t, <2>a, <3>a DEF RunInv, Durable, Memory, PhaseInv, RoundAt, HeadAt, OpenAt,
         ReportAt, TurnAt, PromptAt, DevAt, ClearInv, Verified
    <3> QED
      BY <2>d, <3>1
  <2> QED
    BY <1>4, <2>1, <2>2 DEF ReuseTurn
<1>5. CASE LaunchCoder
  <2>a. UNCHANGED <<gh, run, rev, prompted, asked, cleared, published, remote, pr, ci, tree>>
        /\ At("dispatch") /\ gh.phase = "coding" /\ ~run.resume
        /\ dev' = [inv |-> 0, st |-> "idle"]
    BY <1>5, <1>p DEF LaunchCoder, sessions, world, history
  <2>b. gh.usage # 0 /\ prompted[gh.usage] = 0 /\ ~gh.stopped
    BY <1>t, <2>a DEF Memory, TurnAt, PromptAt
  <2>1. Durable'
    BY <1>t, <2>a, <2>b DEF RunInv, Durable, Memory, NoPromptTwice, OnlyReviewedPublished,
       DeveloperStoppedWhenReleased, Terminal, RoundKept, OpenKept, ReportKept, TurnKept,
       PromptKept, DevKept, HeadKept
  <2>2. Memory'
    BY <1>t, <2>a DEF RunInv, Durable, Memory, PhaseInv, RoundAt, HeadAt, OpenAt, ReportAt,
       TurnAt, PromptAt, DevAt, ClearInv, Verified
  <2> QED
    BY <2>1, <2>2
<1>6. CASE CollectCoder
  <2>a. UNCHANGED <<dev, rev, prompted, asked, cleared, published, remote, pr, ci, tree>>
        /\ At("working") /\ gh.phase = "coding"
    BY <1>6, <1>p DEF CollectCoder, sessions, world, history
  <2>1. CASE Escalate /\ UNCHANGED gh
    BY <1>t, <2>a, <2>1, Moves, MoveOff
  <2>2. CASE Goto("result") /\ \E g \in {"none", "fail", "empty"} \cup Reports : gh' = [gh EXCEPT !.turn.got = g]
    <3>a. run'.pc = "result" /\ Held
      BY <1>t, <2>2, Moves
    <3>b. /\ gh'.phase = gh.phase /\ KeepsWaves /\ KeepsOpen /\ KeepsRest
          /\ gh'.usage = gh.usage /\ gh'.failures = gh.failures
          /\ gh'.turn.inv = gh.turn.inv /\ gh'.turn.consumed = gh.turn.consumed
      BY <1>t, <2>2 DEF State, Turn
    <3>1. Durable'
      BY <1>t, <2>a, <3>b DEF RunInv, Durable, Memory, NoPromptTwice, OnlyReviewedPublished,
         DeveloperStoppedWhenReleased, Terminal, RoundKept, OpenKept, ReportKept, TurnKept,
         PromptKept, DevKept, HeadKept
    <3>2. Memory'
      BY <1>t, <2>a, <3>a, <3>b DEF RunInv, Durable, Memory, PhaseInv, RoundAt, HeadAt, OpenAt,
         ReportAt, TurnAt, PromptAt, DevAt, ClearInv, Verified
    <3> QED
      BY <3>1, <3>2
  <2> QED
    BY <1>6, <2>1, <2>2 DEF CollectCoder
<1>7. CASE JudgeCoder
  <2>a. UNCHANGED <<dev, rev, prompted, asked, cleared, published, remote, pr, ci, tree>>
        /\ At("result") /\ gh.phase = "coding"
    BY <1>7, <1>p DEF JudgeCoder, sessions, world, history
  <2>1. CASE Escalate /\ UNCHANGED gh
    BY <1>t, <2>a, <2>1, Moves, MoveOff
  <2>2. CASE Goto("finish_coder") /\ UNCHANGED gh
    <3>a. run'.pc = "finish_coder" /\ Held
      BY <1>t, <2>2, Moves
    <3>1. Durable'
      BY <1>t, <2>a, <2>2, DurableSame
    <3>2. Memory'
      BY <1>t, <2>a, <2>2, <3>a DEF RunInv, Durable, Memory, PhaseInv, RoundAt, HeadAt, OpenAt,
         ReportAt, TurnAt, PromptAt, DevAt, ClearInv, Verified
    <3> QED
      BY <3>1, <3>2
  <2>3. CASE Goto("retry") /\ gh' = [gh EXCEPT !.turn.consumed = TRUE, !.failures = @ + 1]
    <3>a. run'.pc = "retry" /\ Held
      BY <1>t, <2>3, Moves
    <3>b. /\ gh'.phase = gh.phase /\ KeepsWaves /\ KeepsOpen /\ KeepsRest
          /\ gh'.usage = gh.usage /\ gh'.failures = gh.failures + 1
          /\ gh'.turn.inv = gh.turn.inv /\ gh'.turn.consumed
      BY <1>t, <2>3 DEF State, Turn
    <3>c. gh.failures + 1 <= gh.usage
      BY <1>t, <1>h, <2>a DEF Durable, Memory, TurnKept, TurnAt
    <3>1. Durable'
      BY <1>t, <2>a, <3>b, <3>c DEF RunInv, Durable, Memory, NoPromptTwice, OnlyReviewedPublished,
         DeveloperStoppedWhenReleased, Terminal, RoundKept, OpenKept, ReportKept, TurnKept,
         PromptKept, DevKept, HeadKept
    <3>2. Memory'
      BY <1>t, <2>a, <3>a, <3>b DEF RunInv, Durable, Memory, PhaseInv, RoundAt, HeadAt, OpenAt,
         ReportAt, TurnAt, PromptAt, DevAt, ClearInv, Verified
    <3> QED
      BY <3>1, <3>2
  <2> QED
    BY <1>7, <2>1, <2>2, <2>3 DEF JudgeCoder
<1>8. CASE RetryCoder
  <2>a. UNCHANGED <<gh, rev, prompted, asked, cleared, published, remote, pr, ci, tree>>
        /\ At("retry") /\ gh.phase = "coding" /\ dev' = NoDev
    BY <1>8, <1>p DEF RetryCoder, sessions, world, history
  <2>b. Quits \/ (run'.pc = "coder" /\ Held)
    BY <1>8, <1>t, Moves DEF RetryCoder
  <2>1. Durable'
    BY <1>t, <2>a DEF RunInv, Durable, Memory, NoPromptTwice, OnlyReviewedPublished,
       DeveloperStoppedWhenReleased, Terminal, RoundKept, OpenKept, ReportKept, TurnKept,
       PromptKept, DevKept, HeadKept, NoDev
  <2>2. CASE Quits
    <3>1. run.head <= tree'.head /\ tree'.head \in Heads
      BY <1>t, <2>a DEF Typed, Memory, HeadAt
    <3> QED
      BY <1>t, <2>a, <2>1, <2>2, <3>1, QuitsMemory
  <2>3. CASE run'.pc = "coder" /\ Held
    <3>1. Memory'
      BY <1>t, <2>a, <2>3 DEF RunInv, Durable, Memory, PhaseInv, RoundAt, HeadAt, OpenAt,
         ReportAt, TurnAt, PromptAt, DevAt, ClearInv, Verified
    <3> QED
      BY <2>1, <3>1
  <2> QED
    BY <2>b, <2>2, <2>3
<1>9. CASE FinishCoder
  <2>a. UNCHANGED <<dev, rev, prompted, asked, cleared, published, remote, pr, ci, tree>>
        /\ At("finish_coder") /\ gh.phase = "coding"
    BY <1>9, <1>p DEF FinishCoder, sessions, world, history
  <2>1. CASE Escalate /\ UNCHANGED gh
    BY <1>t, <2>a, <2>1, Moves, MoveOff
  <2>2. CASE /\ gh' = [gh EXCEPT !.noChanges = gh.turn.got = "empty", !.failures = 0]
             /\ End("failed") \/ Goto("proposals") \/ Goto("review")
    <3>a. /\ \/ run'.pc = "stop" /\ run'.verdict = "failed"
             \/ run'.pc \in {"proposals", "review"}
          /\ Held
      BY <1>t, <2>2, Moves
    <3>b. /\ gh'.phase = gh.phase /\ KeepsWaves /\ KeepsOpen /\ gh'.turn = gh.turn
          /\ gh'.usage = gh.usage /\ gh'.failures = 0 /\ gh'.head = gh.head
          /\ gh'.stopped = gh.stopped /\ gh'.pr = gh.pr
      BY <1>t, <2>2 DEF State
    <3>1. Durable'
      BY <1>t, <1>h, <2>a, <3>b DEF RunInv, Durable, Memory, NoPromptTwice, OnlyReviewedPublished,
         DeveloperStoppedWhenReleased, Terminal, RoundKept, OpenKept, ReportKept, TurnKept,
         PromptKept, DevKept, HeadKept
    <3>2. Memory'
      BY <1>t, <2>a, <3>a, <3>b DEF RunInv, Durable, Memory, PhaseInv, RoundAt, HeadAt, OpenAt,
         ReportAt, TurnAt, PromptAt, DevAt, ClearInv, Verified
    <3> QED
      BY <3>1, <3>2
  <2> QED
    BY <1>9, <2>1, <2>2 DEF FinishCoder
<1>10. CASE RecordProposals
  <2>a. UNCHANGED <<dev, rev, prompted, asked, cleared, published, remote, pr, ci, tree>>
        /\ At("proposals") /\ gh.phase = "coding"
    BY <1>10, <1>p DEF RecordProposals, sessions, world, history
  <2>1. CASE Escalate /\ UNCHANGED gh
    BY <1>t, <2>a, <2>1, Moves, MoveOff
  <2>2. CASE gh' = [gh EXCEPT !.proposed = gh.open] /\ Goto("review")
    <3>a. run'.pc = "review" /\ Held
      BY <1>t, <2>2, Moves
    <3>b. /\ gh'.phase = gh.phase /\ KeepsWaves /\ KeepsTurn /\ KeepsRest
          /\ gh'.proposed = gh.open /\ gh'.open = gh.open
      BY <1>t, <2>2 DEF State
    <3>1. Durable'
      BY <1>t, <2>a, <3>b DEF RunInv, Durable, Memory, NoPromptTwice, OnlyReviewedPublished,
         DeveloperStoppedWhenReleased, Terminal, RoundKept, OpenKept, ReportKept, TurnKept,
         PromptKept, DevKept, HeadKept
    <3>2. Memory'
      BY <1>t, <2>a, <3>a, <3>b DEF RunInv, Durable, Memory, PhaseInv, RoundAt, HeadAt, OpenAt,
         ReportAt, TurnAt, PromptAt, DevAt, ClearInv, Verified
    <3> QED
      BY <3>1, <3>2
  <2> QED
    BY <1>10, <2>1, <2>2 DEF RecordProposals
<1> QED
  BY <1>1, <1>2, <1>3, <1>4, <1>5, <1>6, <1>7, <1>8, <1>9, <1>10

\* The prompt of a turn leaves once: a session that was given it has its digest.
LEMMA SubmitStep ==
  ASSUME RunInv, SubmitCoder \/ SubmitCoderUncertain
  PROVE  Durable' /\ Memory'
<1>t. TypeOK /\ Typed /\ Durable /\ Memory /\ run \in Run
  BY Types DEF RunInv, TypeOK
<1>a. UNCHANGED <<gh, rev, asked, cleared, published, remote, pr, ci, tree>>
      /\ At("dispatch") /\ gh.phase = "coding" /\ dev.st # "none" /\ dev.inv # gh.turn.inv
  BY <1>t DEF SubmitCoder, SubmitCoderUncertain, sessions, world, history, Memory, PhaseInv
<1>b. gh.turn.inv = gh.usage /\ gh.usage \in 1..MaxCoder
  BY <1>t, <1>a DEF Durable, TurnKept, Memory, TurnAt, Typed
<1>c. prompted[gh.usage] = 0
  <2>1. prompted[gh.usage] \in 0..2 /\ ~(prompted[gh.usage] > 0)
    BY <1>t, <1>a, <1>b DEF TypeOK, Durable, PromptKept
  <2> QED
    BY <2>1
<1>d. CASE dev' = dev /\ prompted' = prompted
  <2>1. Durable'
    BY <1>t, <1>a, <1>d, DurableSame
  <2>2. Quits
    BY <1>a, <1>b, <1>d, <1>t, Moves DEF SubmitCoder, SubmitCoderUncertain
  <2> QED
    BY <1>a, <1>d, <2>2, MoveOff
<1>e. CASE /\ dev' = [inv |-> gh.turn.inv, st |-> "busy"] \/ dev' = [inv |-> gh.turn.inv, st |-> "idle"]
           /\ prompted' = [prompted EXCEPT ![gh.turn.inv] = @ + 1] \/ prompted' = prompted
  <2>a. dev'.st # "none" /\ dev'.inv = gh.usage
    BY <1>b, <1>e
  <2>b. /\ prompted'[gh.usage] \in 0..1
        /\ \A i \in 1..MaxCoder : i # gh.usage => prompted'[i] = prompted[i]
    BY SMTT(20), <1>b, <1>c, <1>e, <1>t DEF TypeOK
  <2>c. \A i \in 1..MaxCoder : prompted'[i] <= 1 /\ (prompted'[i] > 0 => i <= gh.usage)
    <3> SUFFICES ASSUME NEW i \in 1..MaxCoder
                 PROVE  prompted'[i] <= 1 /\ (prompted'[i] > 0 => i <= gh.usage)
      OBVIOUS
    <3>1. CASE i = gh.usage
      BY <1>b, <2>b, <3>1
    <3>2. CASE i # gh.usage
      BY <1>t, <2>b, <3>2 DEF Durable, NoPromptTwice
    <3> QED
      BY <3>1, <3>2
  <2>1. Durable'
    BY <1>t, <1>a, <2>a, <2>c DEF RunInv, Durable, Memory, NoPromptTwice, OnlyReviewedPublished,
       DeveloperStoppedWhenReleased, Terminal, RoundKept, OpenKept, ReportKept, TurnKept,
       PromptKept, DevKept, HeadKept
  <2>2. CASE Quits
    <3>1. run.head <= tree'.head /\ tree'.head \in Heads
      BY <1>t, <1>a DEF Typed, Memory, HeadAt
    <3> QED
      BY <1>t, <1>a, <2>1, <2>2, <3>1, QuitsMemory
  <2>3. CASE run'.pc = "working" /\ Held
    <3>1. gh.turn.got = "none"
      BY DEF SubmitCoder, SubmitCoderUncertain
    <3>2. Memory'
      BY <1>t, <1>a, <2>3, <3>1 DEF RunInv, Durable, Memory, PhaseInv, RoundAt, HeadAt, OpenAt,
         ReportAt, TurnAt, PromptAt, DevAt, ClearInv, Verified
    <3> QED
      BY <2>1, <3>2
  <2>4. Quits \/ (run'.pc = "working" /\ Held)
    BY <1>t, Moves DEF SubmitCoder, SubmitCoderUncertain
  <2> QED
    BY <2>2, <2>3, <2>4
<1> QED
  BY <1>d, <1>e DEF SubmitCoder, SubmitCoderUncertain

\* After a wave with a report: the end of the round, or the loop's end.
LEMMA ValidatedMemory ==
  ASSUME RunInv, Durable', gh.round \in Rounds, run' = Validated(run),
         gh.phase = "reviewing", CurrentWave.planned, CurrentWave.report # "none",
         ~run.atGate,
         UNCHANGED <<gh, tree, pr, remote, ci, published, cleared>>
  PROVE  Memory'
<1>t. TypeOK /\ Typed /\ Durable /\ Memory /\ run \in Run
  BY Types DEF RunInv, TypeOK
<1>1. CASE run' = [run EXCEPT !.pc = "stop", !.verdict = "escalated"]
  <2>1. Quits
    BY <1>1, <1>t DEF Quits, Run
  <2>2. run.head <= tree'.head /\ tree'.head \in Heads
    BY <1>t DEF Typed, Memory, HeadAt
  <2> QED
    BY <1>t, <2>1, <2>2, QuitsMemory
<1>2. CASE run' = [run EXCEPT !.pc = "reviewed", !.recover = FALSE, !.rounds = gh.round,
                              !.head = CurrentWave.head]
  <2>a. /\ run'.pc = "reviewed" /\ ~run'.recover /\ run'.rounds = gh.round
        /\ run'.head = CurrentWave.head /\ run'.atGate = run.atGate
    BY <1>2, <1>t DEF Run
  <2>b. CurrentWave.head <= tree.head
    BY <1>t DEF Durable, HeadKept
  <2>1. Memory'
    BY <1>t, <2>a, <2>b DEF RunInv, Durable, Memory, PhaseInv, RoundAt, HeadAt, OpenAt, ReportAt,
       TurnAt, PromptAt, DevAt, ClearInv, Verified
  <2> QED
    BY <2>1
<1> QED
  BY <1>1, <1>2 DEF Validated

\* The wave up to its prompts.
LEMMA OpeningStep ==
  ASSUME RunInv, Review \/ CommitSnapshot \/ RecordSnapshot \/ PlanSeats \/ RecordPrompts
  PROVE  Durable' /\ Memory'
<1>t. TypeOK /\ Typed /\ Durable /\ Memory /\ run \in Run /\ gh \in State
  BY Types DEF RunInv, TypeOK
<1>h. tree.head \in Nat /\ gh.head \in Nat /\ gh.round \in Nat /\ run.head \in Nat
  BY <1>t DEF Typed, Heads, Foreign
<1>r. gh.phase = "reviewing" => gh.round \in Rounds /\ CurrentWave \in Wave
  BY <1>t DEF Durable, RoundKept, Typed, Rounds
<1>1. CASE Review
  <2>a. UNCHANGED <<dev, prompted, asked, cleared, published, remote, pr, ci, tree>>
        /\ At("review") /\ gh.phase \in Active /\ ~run.atGate
    BY <1>1, <1>t DEF Review, sessions, world, history, Memory, PhaseInv, RoundAt
  <2>1. CASE Escalate /\ UNCHANGED <<gh, rev>>
    BY <1>t, <2>a, <2>1, Moves, MoveOff
  <2>2. CASE /\ run' = [run EXCEPT !.pc = "seats", !.resume = TRUE] /\ UNCHANGED <<gh, rev>>
             /\ gh.phase = "reviewing" /\ CurrentWave.planned /\ CurrentWave.prompts
             /\ CurrentWave.report = "none"
    <3>a. /\ run'.pc = "seats" /\ run'.resume /\ run'.head = run.head /\ run'.atGate = run.atGate
          /\ run'.recover = run.recover /\ run'.rounds = run.rounds
      BY <1>t, <2>2 DEF Run
    <3>1. Durable'
      BY <1>t, <2>a, <2>2, DurableSame
    <3>2. Memory'
      BY <1>t, <2>a, <2>2, <3>a DEF RunInv, Durable, Memory, PhaseInv, RoundAt, HeadAt, OpenAt,
         ReportAt, TurnAt, PromptAt, DevAt, ClearInv, Verified
    <3> QED
      BY <3>1, <3>2
  <2>3. CASE /\ run' = Validated(run) /\ rev' = NoRevs /\ UNCHANGED gh
             /\ gh.phase = "reviewing" /\ CurrentWave.planned /\ CurrentWave.report # "none"
    <3>a. \A l \in Reviewers : rev'[l].st = "none"
      BY <2>3 DEF NoRevs, NoRev
    <3>1. Durable'
      BY <1>t, <2>a, <2>3, <3>a DEF RunInv, Durable, Memory, NoPromptTwice, OnlyReviewedPublished,
         DeveloperStoppedWhenReleased, Terminal, RoundKept, OpenKept, ReportKept, TurnKept,
         PromptKept, DevKept, HeadKept
    <3> QED
      BY <1>t, <1>r, <2>a, <2>3, <3>1, ValidatedMemory
  <2>4. CASE /\ gh' = [gh EXCEPT !.phase = "reviewing", !.round = run.rounds + 1]
             /\ Authorized("commit") /\ UNCHANGED rev /\ gh.phase # "reviewing"
             /\ run.rounds < MaxRounds
    <3>a. run.rounds = gh.round /\ ~run.recover
      BY <1>t, <2>a, <2>4 DEF Memory, RoundAt
    <3>b. /\ gh'.phase = "reviewing" /\ gh'.round = gh.round + 1 /\ gh'.waves = gh.waves
          /\ KeepsOpen /\ KeepsTurn /\ KeepsRest
      BY <1>t, <2>4, <3>a DEF State
    <3>c. gh.round + 1 \in Rounds /\ ~gh.waves[gh.round + 1].planned
      <4>1. gh.round + 1 \in Rounds /\ ~(gh.round + 1 <= gh.round)
        BY <1>t, <1>h, <2>4, <3>a DEF Rounds
      <4> QED
        BY <1>t, <4>1 DEF Durable, RoundKept
    <3>d. gh.waves[gh.round + 1].report = "none"
          /\ \A l \in Reviewers : ~(asked[gh.round + 1][l] > 0)
      BY <1>t, <3>c DEF Durable, ReportKept, NoPromptTwice
    <3>e. \A r \in Rounds : gh.waves[r].planned => r <= gh.round + 1
      <4> SUFFICES ASSUME NEW r \in Rounds, gh.waves[r].planned PROVE r <= gh.round + 1
        OBVIOUS
      <4>1. r <= gh.round /\ r \in Nat
        BY <1>t DEF Durable, RoundKept, Rounds
      <4> QED
        BY <1>h, <4>1
    <3>1. Durable'
      BY <1>t, <1>h, <2>a, <2>4, <3>b, <3>c, <3>d, <3>e DEF RunInv, Durable, Memory,
         NoPromptTwice, OnlyReviewedPublished, DeveloperStoppedWhenReleased, Terminal, RoundKept,
         OpenKept, ReportKept, TurnKept, PromptKept, DevKept, HeadKept
    <3>2. CASE Quits
      <4>1. run.head <= tree'.head /\ tree'.head \in Heads
        BY <1>t, <2>a DEF Typed, Memory, HeadAt
      <4> QED
        BY <1>t, <3>b, <3>1, <3>2, <4>1, QuitsMemory
    <3>3. CASE run'.pc = "commit" /\ Held
      <4>1. Memory'
        BY <1>t, <2>a, <3>a, <3>b, <3>c, <3>d, <3>3 DEF RunInv, Durable, Memory, PhaseInv,
           RoundAt, HeadAt, OpenAt, ReportAt, TurnAt, PromptAt, DevAt, ClearInv, Verified
      <4> QED
        BY <3>1, <4>1
    <3> QED
      BY <1>t, <2>4, <3>2, <3>3, Moves
  <2>5. CASE gh.phase # "reviewing" /\ ~overdue
    <3>1. run.rounds \in Nat
      BY <1>t DEF Typed
    <3> QED
      BY <1>1, <2>1, <2>4, <2>5, <3>1 DEF Review
  <2>6. CASE gh.phase = "reviewing" /\ ~overdue
    BY <1>1, <2>1, <2>2, <2>3, <2>6 DEF Review
  <2> QED
    BY <1>1, <2>1, <2>5, <2>6 DEF Review
<1>2. CASE CommitSnapshot
  <2>a. UNCHANGED <<gh, dev, rev, prompted, asked, cleared, published, remote, pr, ci>>
        /\ At("commit") /\ gh.phase = "reviewing"
    BY <1>2, <1>t DEF CommitSnapshot, sessions, world, history, Memory, PhaseInv
  <2>1. CASE Escalate /\ UNCHANGED tree
    BY <1>t, <2>a, <2>1, Moves, MoveOff
  <2>2. CASE /\ tree' = [tree EXCEPT !.head = IF tree.dirty THEN @ + 1 ELSE @, !.dirty = FALSE]
             /\ ~(tree.dirty /\ tree.head >= MaxCommits) /\ Goto("snapshot")
    <3>a. run'.pc = "snapshot" /\ Held
      BY <1>t, <2>2, Moves
    <3>b. tree'.head = IF tree.dirty THEN tree.head + 1 ELSE tree.head
      BY <1>t, <2>2 DEF TypeOK
    <3>c. tree'.head \in Nat /\ tree.head <= tree'.head /\ tree'.head <= MaxCommits
      BY <1>t, <1>h, <2>2, <3>b DEF Durable, HeadKept
    <3>1. HeadKept'
      <4>1. \A r \in Rounds : gh.waves[r].head \in Nat
        BY <1>t DEF Typed, Wave, Heads, Foreign
      <4>2. remote \in Nat
        BY <1>t DEF TypeOK, Heads, Foreign
      <4> QED
        BY <1>t, <1>h, <2>a, <3>c, <4>1, <4>2 DEF Durable, HeadKept
    <3>2. Durable'
      BY <1>t, <2>a, <3>1 DEF RunInv, Durable, Memory, NoPromptTwice, OnlyReviewedPublished,
         DeveloperStoppedWhenReleased, Terminal, RoundKept, OpenKept, ReportKept, TurnKept,
         PromptKept, DevKept, HeadKept
    <3>3. run'.head <= tree'.head
      BY <1>t, <1>h, <3>a, <3>c DEF Memory, HeadAt
    <3>4. Memory'
      BY <1>t, <2>a, <3>a, <3>3 DEF RunInv, Durable, Memory, PhaseInv, RoundAt, HeadAt, OpenAt,
         ReportAt, TurnAt, PromptAt, DevAt, ClearInv, Verified
    <3> QED
      BY <3>2, <3>4
  <2> QED
    BY <1>2, <2>1, <2>2 DEF CommitSnapshot
<1>3. CASE RecordSnapshot
  <2>a. UNCHANGED <<dev, rev, prompted, asked, cleared, published, remote, pr, ci, tree>>
        /\ At("snapshot") /\ gh.phase = "reviewing"
    BY <1>3, <1>t DEF RecordSnapshot, sessions, world, history, Memory, PhaseInv
  <2>b. gh'.phase = gh.phase /\ KeepsWaves /\ KeepsOpen /\ KeepsTurn /\ gh'.stopped = gh.stopped
        /\ gh'.pr = gh.pr /\ gh'.head = tree.head
    BY <1>t, <1>3 DEF RecordSnapshot, State
  <2>c. /\ run'.pc = "plan" /\ run'.head = tree.head /\ run'.atGate = run.atGate
        /\ run'.recover = run.recover /\ run'.rounds = run.rounds
    BY <1>t, <1>3 DEF RecordSnapshot, Run
  <2>1. Durable'
    BY <1>t, <1>h, <2>a, <2>b DEF RunInv, Durable, Memory, NoPromptTwice, OnlyReviewedPublished,
       DeveloperStoppedWhenReleased, Terminal, RoundKept, OpenKept, ReportKept, TurnKept,
       PromptKept, DevKept, HeadKept
  <2>2. Memory'
    BY <1>t, <1>h, <2>a, <2>b, <2>c DEF RunInv, Durable, Memory, PhaseInv, RoundAt, HeadAt,
       OpenAt, ReportAt, TurnAt, PromptAt, DevAt, ClearInv, Verified
  <2> QED
    BY <2>1, <2>2
<1>4. CASE PlanSeats
  <2>a. UNCHANGED <<dev, rev, prompted, asked, cleared, published, remote, pr, ci, tree>>
        /\ At("plan") /\ gh.phase = "reviewing"
    BY <1>4, <1>t DEF PlanSeats, sessions, world, history, Memory, PhaseInv
  <2>1. CASE Escalate /\ UNCHANGED gh
    BY <1>t, <2>a, <2>1, Moves, MoveOff
  <2>2. CASE /\ Goto("prompts")
             /\ \E S \in SUBSET Reviewers : gh' = [gh EXCEPT !.waves[gh.round] =
                  [NoWave EXCEPT !.planned = TRUE, !.head = run.head, !.requests = S]]
    <3>a. run'.pc = "prompts" /\ Held
      BY <1>t, <2>2, Moves
    <3>b. /\ gh'.phase = gh.phase /\ gh'.round = gh.round /\ KeepsOpen /\ KeepsTurn /\ KeepsRest
      BY <1>t, <2>2 DEF State
    <3>c. /\ gh'.waves[gh.round].planned /\ gh'.waves[gh.round].head = run.head
          /\ gh'.waves[gh.round].report = "none" /\ ~gh'.waves[gh.round].prompts
      BY <1>t, <1>r, <2>a, <2>2 DEF State, NoWave
    <3>d. \A r \in Rounds : r # gh.round => gh'.waves[r] = gh.waves[r]
      BY <1>t, <2>2 DEF State
    <3>e. \A l \in Reviewers : ~(asked[gh.round][l] > 0)
      BY <1>t, <1>r, <2>a DEF Durable, Memory, NoPromptTwice, RoundAt
    <3>f. run.head <= tree.head
      BY <1>t DEF Memory, HeadAt
    <3>1. Durable'
      BY <1>t, <1>h, <1>r, <2>a, <3>b, <3>c, <3>d, <3>e, <3>f DEF RunInv, Durable, Memory,
         NoPromptTwice, OnlyReviewedPublished, DeveloperStoppedWhenReleased, Terminal, RoundKept,
         OpenKept, ReportKept, TurnKept, PromptKept, DevKept, HeadKept
    <3>2. Memory'
      BY <1>t, <1>r, <2>a, <3>a, <3>b, <3>c DEF RunInv, Durable, Memory, PhaseInv, RoundAt,
         HeadAt, OpenAt, ReportAt, TurnAt, PromptAt, DevAt, ClearInv, Verified
    <3> QED
      BY <3>1, <3>2
  <2>3. \/ Escalate /\ UNCHANGED gh
        \/ /\ Goto("prompts")
           /\ \E S \in SUBSET Reviewers : gh' = [gh EXCEPT !.waves[gh.round] =
                  [NoWave EXCEPT !.planned = TRUE, !.head = run.head, !.requests = S]]
    <3>1. (IF gh.proposed THEN {{l} : l \in Reviewers} ELSE {{}}) \subseteq SUBSET Reviewers
      OBVIOUS
    <3> QED
      BY <1>4, <3>1 DEF PlanSeats
  <2> QED
    BY <2>1, <2>2, <2>3
<1>5. CASE RecordPrompts
  <2>a. UNCHANGED <<dev, rev, prompted, asked, cleared, published, remote, pr, ci, tree>>
        /\ At("prompts") /\ gh.phase = "reviewing"
    BY <1>5, <1>t DEF RecordPrompts, sessions, world, history, Memory, PhaseInv
  <2>b. gh'.phase = gh.phase /\ gh'.round = gh.round /\ KeepsOpen /\ KeepsTurn /\ KeepsRest
    BY <1>t, <1>5 DEF RecordPrompts, State
  <2>c. /\ gh'.waves[gh.round].prompts /\ gh'.waves[gh.round].planned = gh.waves[gh.round].planned
        /\ gh'.waves[gh.round].head = gh.waves[gh.round].head
        /\ gh'.waves[gh.round].report = gh.waves[gh.round].report
        /\ \A r \in Rounds : r # gh.round => gh'.waves[r] = gh.waves[r]
    BY <1>t, <1>r, <1>5, <2>a DEF RecordPrompts, State, Wave
  <2>d. /\ run'.pc = "seats" /\ ~run'.resume /\ run'.head = run.head /\ run'.atGate = run.atGate
        /\ run'.recover = run.recover /\ run'.rounds = run.rounds
    BY <1>t, <1>5 DEF RecordPrompts, Run
  <2>e. gh.waves[gh.round].planned /\ ~gh.waves[gh.round].prompts
        /\ gh.waves[gh.round].report = "none"
    BY <1>t, <2>a DEF Memory, RoundAt, ReportAt
  <2>f. \A l \in Reviewers : asked[gh.round][l] = 0
    <3> SUFFICES ASSUME NEW l \in Reviewers PROVE asked[gh.round][l] = 0
      OBVIOUS
    <3>1. asked[gh.round][l] \in 0..2 /\ ~(asked[gh.round][l] > 0)
      BY <1>t, <1>r, <2>a, <2>e DEF TypeOK, Durable, NoPromptTwice
    <3> QED
      BY <3>1
  <2>1. Durable'
    BY ZenonT(40), <1>t, <1>r, <2>a, <2>b, <2>c, <2>e DEF RunInv, Durable, Memory, NoPromptTwice,
       OnlyReviewedPublished, DeveloperStoppedWhenReleased, Terminal, RoundKept, OpenKept,
       ReportKept, TurnKept, PromptKept, DevKept, HeadKept
  <2>2. Memory'
    BY <1>t, <1>r, <2>a, <2>b, <2>c, <2>d, <2>e, <2>f DEF RunInv, Durable, Memory, PhaseInv,
       RoundAt, HeadAt, OpenAt, ReportAt, TurnAt, PromptAt, DevAt, ClearInv, Verified
  <2> QED
    BY <2>1, <2>2
<1> QED
  BY <1>1, <1>2, <1>3, <1>4, <1>5

\* The seats of a wave: a seat that was asked has a session that knows it.
LEMMA SeatStep ==
  ASSUME RunInv, NEW l \in Reviewers,
         ReuseSeat(l) \/ LaunchReviewer(l) \/ SubmitReviewer(l) \/ CollectReviewer(l)
           \/ SubmitReviewerUncertain(l)
  PROVE  Durable' /\ Memory'
<1>t. TypeOK /\ Typed /\ Durable /\ Memory /\ run \in Run /\ gh \in State
  BY Types DEF RunInv, TypeOK
<1>r. gh.phase = "reviewing" => gh.round \in Rounds /\ CurrentWave \in Wave
  BY <1>t DEF Durable, RoundKept, Typed, Rounds
<1>a. UNCHANGED <<dev, prompted, cleared, published, remote, pr, ci, tree>> /\ At("seats")
      /\ run.out[l] \in {"none", "sent"}
  BY DEF ReuseSeat, LaunchReviewer, SubmitReviewer, CollectReviewer, SubmitReviewerUncertain,
     CanSubmit, Open, Pending, sessions, world, history
<1>b. /\ gh.phase = "reviewing" /\ gh.round \in Rounds /\ gh.round # 0
      /\ gh.waves[gh.round].planned /\ gh.waves[gh.round].prompts
      /\ gh.waves[gh.round].report = "none"
  <2>1. gh.phase = "reviewing"
    BY <1>t, <1>a DEF Memory, PhaseInv
  <2> QED
    BY <1>t, <1>a, <1>r, <2>1 DEF Memory, RoundAt, ReportAt, Rounds
<1>o. \A o : Outcome(l, o) =>
        /\ run'.pc = run.pc /\ run'.resume = run.resume /\ run'.head = run.head
        /\ run'.atGate = run.atGate /\ run'.recover = run.recover /\ run'.rounds = run.rounds
        /\ run'.out[l] = o /\ \A m \in Reviewers : m # l => run'.out[m] = run.out[m]
  BY <1>t DEF Outcome, Run
<1>c. /\ run'.pc = run.pc /\ run'.resume = run.resume /\ run'.head = run.head
      /\ run'.atGate = run.atGate /\ run'.recover = run.recover /\ run'.rounds = run.rounds
      /\ run'.out[l] # "none" /\ \A m \in Reviewers : m # l => run'.out[m] = run.out[m]
  BY <1>o DEF ReuseSeat, LaunchReviewer, SubmitReviewer, CollectReviewer, SubmitReviewerUncertain,
     Results
<1>1. CASE ReuseSeat(l)
  <2>a. UNCHANGED <<gh, rev, asked>>
    BY <1>1 DEF ReuseSeat, sessions, history
  <2>1. Durable'
    BY <1>t, <1>a, <2>a, DurableSame
  <2>2. Memory'
    BY <1>t, <1>a, <1>b, <1>c, <2>a DEF RunInv, Durable, Memory, PhaseInv, RoundAt, HeadAt,
       OpenAt, ReportAt, TurnAt, PromptAt, DevAt, ClearInv, Verified
  <2> QED
    BY <2>1, <2>2
<1>2. CASE LaunchReviewer(l)
  <2>a. /\ UNCHANGED <<gh, asked>> /\ ~run.resume /\ run.out[l] = "none"
        /\ \A m \in Reviewers : m # l => rev'[m] = rev[m]
    BY <1>2, <1>t DEF LaunchReviewer, history, TypeOK
  <2>b. asked[gh.round][l] = 0
    BY <1>t, <1>a, <2>a DEF Memory, PromptAt
  <2>1. Durable'
    BY <1>t, <1>a, <1>b, <2>a, <2>b DEF RunInv, Durable, Memory, NoPromptTwice,
       OnlyReviewedPublished, DeveloperStoppedWhenReleased, Terminal, RoundKept, OpenKept,
       ReportKept, TurnKept, PromptKept, DevKept, HeadKept
  <2>2. Memory'
    BY <1>t, <1>a, <1>b, <1>c, <2>a DEF RunInv, Durable, Memory, PhaseInv, RoundAt, HeadAt,
       OpenAt, ReportAt, TurnAt, PromptAt, DevAt, ClearInv, Verified
  <2> QED
    BY <2>1, <2>2
<1>3. CASE SubmitReviewer(l) \/ SubmitReviewerUncertain(l)
  <2>a. UNCHANGED gh /\ rev[l].st # "none" /\ rev[l].round # gh.round
    BY <1>3 DEF SubmitReviewer, SubmitReviewerUncertain, CanSubmit, SameTurn
  <2>b. asked[gh.round][l] = 0
    <3>1. asked[gh.round][l] \in 0..2 /\ ~(asked[gh.round][l] > 0)
      BY <1>t, <1>b, <2>a DEF TypeOK, Durable, PromptKept
    <3> QED
      BY <3>1
  <2>c. /\ rev'[l].round = gh.round
        /\ \A m \in Reviewers : m # l => rev'[m] = rev[m]
    BY <1>3, <1>t DEF SubmitReviewer, SubmitReviewerUncertain, TypeOK, RevSession
  <2>d. /\ asked'[gh.round][l] \in 0..1
        /\ \A m \in Reviewers : m # l => asked'[gh.round][m] = asked[gh.round][m]
        /\ \A r \in Rounds : r # gh.round => asked'[r] = asked[r]
    BY <1>3, <1>t, <1>b, <2>b DEF SubmitReviewer, SubmitReviewerUncertain, TypeOK
  <2>e. \A r \in Rounds, m \in Reviewers :
          /\ asked'[r][m] <= 1
          /\ asked'[r][m] > 0 => gh.waves[r].planned /\ gh.waves[r].prompts
    <3> SUFFICES ASSUME NEW r \in Rounds, NEW m \in Reviewers
                 PROVE  /\ asked'[r][m] <= 1
                        /\ asked'[r][m] > 0 => gh.waves[r].planned /\ gh.waves[r].prompts
      OBVIOUS
    <3>1. CASE r = gh.round /\ m = l
      BY <1>b, <2>d, <3>1
    <3>2. CASE ~(r = gh.round /\ m = l)
      <4>1. asked'[r][m] = asked[r][m]
        BY <2>d, <3>2
      <4> QED
        BY <1>t, <4>1 DEF Durable, NoPromptTwice
    <3> QED
      BY <3>1, <3>2
  <2>1. Durable'
    BY <1>t, <1>a, <1>b, <2>a, <2>c, <2>d, <2>e DEF RunInv, Durable, Memory, NoPromptTwice,
       OnlyReviewedPublished, DeveloperStoppedWhenReleased, Terminal, RoundKept, OpenKept,
       ReportKept, TurnKept, PromptKept, DevKept, HeadKept
  <2>2. Memory'
    BY <1>t, <1>a, <1>b, <1>c, <2>a, <2>d DEF RunInv, Durable, Memory, PhaseInv, RoundAt, HeadAt,
       OpenAt, ReportAt, TurnAt, PromptAt, DevAt, ClearInv, Verified
  <2> QED
    BY <2>1, <2>2
<1>4. CASE CollectReviewer(l)
  <2>a. UNCHANGED <<rev, asked>>
    BY <1>4 DEF CollectReviewer, sessions, history
  <2>b. gh'.phase = gh.phase /\ gh'.round = gh.round /\ KeepsOpen /\ KeepsTurn /\ KeepsRest
    BY <1>t, <1>4 DEF CollectReviewer, State
  <2>c. /\ gh'.waves[gh.round].prompts = gh.waves[gh.round].prompts
        /\ gh'.waves[gh.round].planned = gh.waves[gh.round].planned
        /\ gh'.waves[gh.round].head = gh.waves[gh.round].head
        /\ gh'.waves[gh.round].report = gh.waves[gh.round].report
        /\ \A r \in Rounds : r # gh.round => gh'.waves[r] = gh.waves[r]
    BY ZenonT(40), <1>t, <1>b, <1>4 DEF CollectReviewer, State, Wave
  <2>1. Durable'
    BY ZenonT(40), <1>t, <1>a, <1>b, <2>a, <2>b, <2>c DEF RunInv, Durable, Memory, NoPromptTwice,
       OnlyReviewedPublished, DeveloperStoppedWhenReleased, Terminal, RoundKept, OpenKept,
       ReportKept, TurnKept, PromptKept, DevKept, HeadKept
  <2>2. Memory'
    BY <1>t, <1>a, <1>b, <1>c, <2>a, <2>b, <2>c DEF RunInv, Durable, Memory, PhaseInv, RoundAt,
       HeadAt, OpenAt, ReportAt, TurnAt, PromptAt, DevAt, ClearInv, Verified
  <2> QED
    BY <2>1, <2>2
<1> QED
  BY <1>1, <1>2, <1>3, <1>4

\* The end of the wave and of the round.
LEMMA ReportStep ==
  ASSUME RunInv, PersistRound \/ SaveProgress \/ CleanupSeats \/ Reviewed
  PROVE  Durable' /\ Memory'
<1>t. TypeOK /\ Typed /\ Durable /\ Memory /\ run \in Run /\ gh \in State
  BY Types DEF RunInv, TypeOK
<1>r. gh.phase = "reviewing" => gh.round \in Rounds /\ CurrentWave \in Wave
  BY <1>t DEF Durable, RoundKept, Typed, Rounds
<1>p. run.pc \in Waving =>
        /\ gh.phase = "reviewing" /\ gh.round \in Rounds /\ gh.round # 0 /\ ~run.atGate
        /\ gh.waves[gh.round].planned
  BY <1>t, <1>r DEF Memory, PhaseInv, RoundAt, Rounds
<1>1. CASE PersistRound
  <2>a. UNCHANGED <<dev, rev, prompted, asked, cleared, published, remote, pr, ci, tree>>
        /\ At("seats") /\ gh.phase = "reviewing"
    BY <1>1, <1>p DEF PersistRound, sessions, world, history
  <2>1. CASE Propagate /\ UNCHANGED gh
    BY <1>t, <2>a, <2>1, Moves, MoveOff
  <2>2. CASE \A l \in Reviewers : run.out[l] # "uncertain"
    <3> DEFINE asks == CurrentWave.requests
               accepted == asks # {} /\ \A l \in asks : Valid(l) /\ run.out[l] = "clean"
               decided == asks # {} /\ \A l \in asks : Valid(l)
               open == (\E l \in Reviewers : Valid(l) /\ run.out[l] = "major") \/ (gh.open /\ ~accepted)
               proposed == gh.proposed /\ ~decided
               settled == IF \E l \in Reviewers : Valid(l) /\ Settles(l) THEN gh.round ELSE gh.settled
    <3>u. ~(\E l \in Reviewers : run.out[l] = "uncertain")
      BY <2>2
    <3>a. gh' = [gh EXCEPT !.open = open, !.proposed = proposed, !.settled = settled]
      BY <1>1, <3>u, Zenon DEF PersistRound
    <3>b. run' = [run EXCEPT !.pc = "progress",
                    !.failed = run.lost \/ \E l \in Reviewers : ~Valid(l)]
      BY <1>1, <3>u, Zenon DEF PersistRound
    <3>c. proposed => open
      BY <1>t DEF Durable, OpenKept
    <3>d. open \in BOOLEAN /\ proposed \in BOOLEAN
      OBVIOUS
    <3> HIDE DEF open, proposed, settled
    <3>e. gh'.phase = gh.phase /\ KeepsWaves /\ KeepsTurn /\ KeepsRest
          /\ gh'.open = open /\ gh'.proposed = proposed
      BY <1>t, <3>a DEF State
    <3>f. /\ run'.pc = "progress" /\ run'.head = run.head /\ run'.atGate = run.atGate
          /\ run'.recover = run.recover /\ run'.rounds = run.rounds
      BY <1>t, <3>b DEF Run
    <3>g. gh.waves[gh.round].report = "none"
      BY <1>t, <2>a DEF Memory, ReportAt
    <3>1. Durable'
      BY <1>t, <1>p, <2>a, <3>c, <3>e, <3>g DEF RunInv, Durable, Memory, NoPromptTwice,
         OnlyReviewedPublished, DeveloperStoppedWhenReleased, Terminal, RoundKept, OpenKept,
         ReportKept, TurnKept, PromptKept, DevKept, HeadKept
    <3>2. Memory'
      BY <1>t, <1>p, <2>a, <3>e, <3>f, <3>g DEF RunInv, Durable, Memory, PhaseInv, RoundAt,
         HeadAt, OpenAt, ReportAt, TurnAt, PromptAt, DevAt, ClearInv, Verified
    <3> QED
      BY <3>1, <3>2
  <2> QED
    BY <1>1, <2>1, <2>2 DEF PersistRound
<1>2. CASE SaveProgress
  <2>a. UNCHANGED <<dev, rev, prompted, asked, published, remote, pr, ci, tree>>
        /\ At("progress")
    BY <1>2 DEF SaveProgress, sessions, world
  <2>b. gh.phase = "reviewing" /\ gh.round \in Rounds /\ gh.waves[gh.round].planned
        /\ gh.waves[gh.round].report = "none"
    BY <1>t, <1>p, <2>a DEF Memory, ReportAt
  <2> DEFINE report == IF run.failed THEN "none" ELSE IF gh.open THEN "open" ELSE "clean"
             signal == gh.open \/ gh.settled = gh.round
             more == IF gh.stagnant < MaxStagnant THEN gh.stagnant + 1 ELSE MaxStagnant
             counts == (IF signal THEN {0} ELSE {})
                         \cup (IF ~signal \/ gh.round > 1 THEN {more} ELSE {})
  <2>c. \E n \in counts : gh' = [gh EXCEPT !.waves[gh.round].report = report, !.stagnant = n]
    BY <1>2, Zenon DEF SaveProgress
  <2>d. cleared' = IF report = "clean" THEN cleared \cup {CurrentWave.head} ELSE cleared
    BY <1>2, Zenon DEF SaveProgress
  <2>e. /\ (report = "none" <=> run.failed)
        /\ (report # "none" => (report = "open" <=> gh.open))
    BY <1>t DEF Typed
  <2> HIDE DEF report, counts
  <2>f. run'.pc = "cleanup_seats" /\ Held
    BY <1>2, <1>t, Moves DEF SaveProgress
  <2>g. gh'.phase = gh.phase /\ gh'.round = gh.round /\ KeepsOpen /\ KeepsTurn /\ KeepsRest
    BY <1>t, <2>c DEF State
  <2>h. /\ gh'.waves[gh.round].prompts = gh.waves[gh.round].prompts
        /\ gh'.waves[gh.round].planned = gh.waves[gh.round].planned
        /\ gh'.waves[gh.round].head = gh.waves[gh.round].head
        /\ gh'.waves[gh.round].report = report
        /\ \A r \in Rounds : r # gh.round => gh'.waves[r] = gh.waves[r]
    <3>1. gh'.waves = [gh.waves EXCEPT ![gh.round].report = report]
      BY <1>t, <2>c DEF State
    <3>2. gh.waves \in [Rounds -> Wave] /\ gh.waves[gh.round] \in Wave
      BY <1>t, <2>b DEF Typed
    <3>3. gh'.waves[gh.round] = [gh.waves[gh.round] EXCEPT !.report = report]
      BY <2>b, <3>1, <3>2
    <3>4. \A r \in Rounds : r # gh.round => gh'.waves[r] = gh.waves[r]
      BY <2>b, <3>1, <3>2
    <3> QED
      BY ZenonT(40), <2>b, <3>2, <3>3, <3>4 DEF Wave
  <2>i. cleared \subseteq cleared' /\ (report = "clean" => gh.waves[gh.round].head \in cleared')
    BY <2>d
  <2>1. Durable'
    BY ZenonT(40), <1>t, <2>a, <2>b, <2>e, <2>g, <2>h, <2>i DEF RunInv, Durable, Memory, NoPromptTwice,
       OnlyReviewedPublished, DeveloperStoppedWhenReleased, Terminal, RoundKept, OpenKept,
       ReportKept, TurnKept, PromptKept, DevKept, HeadKept
  <2>2. Memory'
    BY <1>t, <1>p, <2>a, <2>b, <2>e, <2>f, <2>g, <2>h DEF RunInv, Durable, Memory, PhaseInv,
       RoundAt, HeadAt, OpenAt, ReportAt, TurnAt, PromptAt, DevAt, ClearInv, Verified
  <2> QED
    BY <2>1, <2>2
<1>3. CASE CleanupSeats
  <2>a. UNCHANGED <<gh, dev, prompted, asked, cleared, published, remote, pr, ci, tree>>
        /\ At("cleanup_seats") /\ gh.phase = "reviewing"
    BY <1>3, <1>p DEF CleanupSeats, sessions, world, history
  <2>b. \A l \in Reviewers : rev'[l].st = "none" \/ rev'[l] = rev[l]
    BY <1>3 DEF CleanupSeats, NoRev
  <2>1. Durable'
    BY <1>t, <2>a, <2>b DEF RunInv, Durable, Memory, NoPromptTwice, OnlyReviewedPublished,
       DeveloperStoppedWhenReleased, Terminal, RoundKept, OpenKept, ReportKept, TurnKept,
       PromptKept, DevKept, HeadKept
  <2>2. CASE Escalate
    <3>1. run.head <= tree'.head /\ tree'.head \in Heads
      BY <1>t, <2>a DEF Typed, Memory, HeadAt
    <3>2. Quits
      BY <1>t, <2>2, Moves
    <3> QED
      BY <1>t, <2>a, <2>1, <3>1, <3>2, QuitsMemory
  <2>3. CASE run' = Validated(run) /\ ~run.failed
    <3>1. CurrentWave.report # "none" /\ CurrentWave.planned /\ gh.round \in Rounds /\ ~run.atGate
      BY <1>t, <1>p, <2>a, <2>3 DEF Memory, ReportAt, RoundAt
    <3> QED
      BY <2>a, <2>1, <2>3, <3>1, ValidatedMemory
  <2> QED
    BY <1>3, <2>2, <2>3 DEF CleanupSeats
<1>4. CASE Reviewed
  <2>a. UNCHANGED <<gh, dev, rev, prompted, asked, cleared, published, remote, pr, ci, tree>>
        /\ At("reviewed") /\ gh.phase = "reviewing"
    BY <1>4, <1>p DEF Reviewed, sessions, world, history
  <2>b. /\ gh.round \in Rounds /\ gh.waves[gh.round].planned /\ ~run.atGate /\ ~run.recover
        /\ run.rounds = gh.round /\ gh.waves[gh.round].report # "none"
        /\ run.head = gh.waves[gh.round].head
    BY <1>t, <1>p, <2>a DEF Memory, RoundAt, ReportAt
  <2>c. ~gh.open => run.head \in cleared
    <3>1. gh.waves[gh.round].report \in {"none", "clean", "open"}
      BY <1>t, <2>b DEF Typed, Wave
    <3>2. ~gh.open => gh.waves[gh.round].report = "clean"
      BY <1>t, <2>a, <2>b, <3>1 DEF Durable, ReportKept
    <3> QED
      BY <1>t, <2>b, <3>2 DEF Durable, ReportKept
  <2>d. Durable'
    BY <1>t, <2>a, DurableSame
  <2>1. CASE Escalate
    BY <1>t, <2>a, <2>1, Moves, MoveOff
  <2>2. CASE run' = [run EXCEPT !.pc = "top", !.asks = "review"]
    <3>a. /\ run'.pc = "top" /\ run'.head = run.head /\ run'.atGate = run.atGate
          /\ run'.recover = run.recover /\ run'.rounds = run.rounds
      BY <1>t, <2>2 DEF Run
    <3>1. Memory'
      BY <1>t, <2>a, <2>b, <3>a DEF RunInv, Durable, Memory, PhaseInv, RoundAt, HeadAt, OpenAt,
         ReportAt, TurnAt, PromptAt, DevAt, ClearInv, Verified
    <3> QED
      BY <2>d, <3>1
  <2>3. CASE End("done") /\ ~gh.open /\ gh.noChanges /\ tree.head = 0
    <3>a. run'.pc = "stop" /\ run'.verdict = "done" /\ Held
      BY <1>t, <2>3, Moves
    <3>b. run.head = 0
      BY <1>t, <2>3 DEF Memory, HeadAt, Typed, Heads, Foreign
    <3>1. Memory'
      BY <1>t, <2>a, <2>b, <2>c, <2>3, <3>a, <3>b DEF RunInv, Durable, Memory, PhaseInv, RoundAt,
         HeadAt, OpenAt, ReportAt, TurnAt, PromptAt, DevAt, ClearInv, Verified
    <3> QED
      BY <2>d, <3>1
  <2>4. CASE Goto("gate") /\ ~gh.open
    <3>a. run'.pc = "gate" /\ Held
      BY <1>t, <2>4, Moves
    <3>1. Memory'
      BY <1>t, <2>a, <2>b, <2>c, <2>4, <3>a DEF RunInv, Durable, Memory, PhaseInv, RoundAt,
         HeadAt, OpenAt, ReportAt, TurnAt, PromptAt, DevAt, ClearInv, Verified
    <3> QED
      BY <2>d, <3>1
  <2> QED
    BY <1>4, <2>1, <2>2, <2>3, <2>4 DEF Reviewed
<1> QED
  BY <1>1, <1>2, <1>3, <1>4

\* The gate: what is pushed was cleared, and what passes was pushed.
LEMMA GateStep ==
  ASSUME RunInv, \/ BeginGate \/ Publish \/ PersistResources \/ ReconcilePR \/ RecordPR
                 \/ SettleGate \/ UpdatePR
  PROVE  Durable' /\ Memory'
<1>t. TypeOK /\ Typed /\ Durable /\ Memory /\ run \in Run /\ gh \in State
  BY Types DEF RunInv, TypeOK
<1>h. tree.head \in Nat /\ run.head \in Nat /\ remote \in Nat /\ Foreign \in Nat
  <2>1. remote \in Heads /\ tree.head \in Heads /\ run.head \in Heads
    BY <1>t DEF TypeOK, Typed
  <2> QED
    BY <2>1 DEF Heads, Foreign
<1>p. run.pc \in Gating => gh.phase = "ci_gating"
  BY <1>t DEF Memory, PhaseInv
<1>1. CASE BeginGate
  <2>a. UNCHANGED <<dev, rev, prompted, asked, cleared, published, remote, pr, ci, tree>>
        /\ At("gate") /\ gh.phase \in Active
    BY <1>1, <1>t DEF BeginGate, sessions, world, history, Memory, PhaseInv
  <2>b. gh'.phase = "ci_gating" /\ KeepsWaves /\ KeepsOpen /\ KeepsTurn /\ KeepsRest
    BY <1>t, <1>1 DEF BeginGate, State
  <2>1. Durable'
    BY <1>t, <2>a, <2>b DEF RunInv, Durable, Memory, NoPromptTwice, OnlyReviewedPublished,
       DeveloperStoppedWhenReleased, Terminal, RoundKept, OpenKept, ReportKept, TurnKept,
       PromptKept, DevKept, HeadKept
  <2>c. Quits \/ (run'.pc = (IF run.atGate THEN "pr" ELSE "publish") /\ Held)
    BY <1>t, <1>1, Moves DEF BeginGate
  <2>2. CASE Quits
    <3>1. run.head <= tree'.head /\ tree'.head \in Heads
      BY <1>t, <2>a DEF Typed, Memory, HeadAt
    <3> QED
      BY <1>t, <2>b, <2>1, <2>2, <3>1, QuitsMemory
  <2>3. CASE run'.pc = (IF run.atGate THEN "pr" ELSE "publish") /\ Held
    <3>1. Memory'
      BY <1>t, <2>a, <2>b, <2>3 DEF RunInv, Durable, Memory, PhaseInv, RoundAt, HeadAt, OpenAt,
         ReportAt, TurnAt, PromptAt, DevAt, ClearInv, Verified
    <3> QED
      BY <2>1, <3>1
  <2> QED
    BY <2>c, <2>2, <2>3
<1>2. CASE Publish
  <2>a. UNCHANGED <<gh, dev, rev, prompted, asked, cleared, pr, ci, tree>>
        /\ At("publish") /\ gh.phase = "ci_gating"
    BY <1>2, <1>p DEF Publish, sessions
  <2>1. CASE (Escalate \/ Fail) /\ UNCHANGED <<remote, published>>
    BY <1>t, <2>a, <2>1, Moves, MoveOff
  <2>2. CASE /\ tree.head = run.head /\ remote # Foreign /\ remote' = run.head
             /\ published' = published \cup {run.head} /\ Goto("published")
    <3>a. run'.pc = "published" /\ Held
      BY <1>t, <2>2, Moves
    <3>b. run.head \in cleared
      BY <1>t, <2>a DEF Memory, ClearInv
    <3>c. gh.pr \/ pr => run.head # 0
      <4>1. gh.pr \/ pr => remote # 0 /\ remote <= tree.head
        BY <1>t, <2>2 DEF Durable, HeadKept
      <4> QED
        BY <1>h, <2>2, <4>1
    <3>d. run.head <= tree.head
      BY <1>h, <2>2
    <3>1. Durable'
      BY <1>t, <1>h, <2>a, <2>2, <3>b, <3>c, <3>d DEF RunInv, Durable, Memory, NoPromptTwice,
         OnlyReviewedPublished, DeveloperStoppedWhenReleased, Terminal, RoundKept, OpenKept,
         ReportKept, TurnKept, PromptKept, DevKept, HeadKept
    <3>2. Memory'
      BY <1>t, <1>h, <2>a, <2>2, <3>a DEF RunInv, Durable, Memory, PhaseInv, RoundAt, HeadAt,
         OpenAt, ReportAt, TurnAt, PromptAt, DevAt, ClearInv, Verified
    <3> QED
      BY <3>1, <3>2
  <2> QED
    BY <1>2, <2>1, <2>2 DEF Publish
<1>3. CASE PersistResources
  <2>a. UNCHANGED <<dev, rev, prompted, asked, cleared, published, remote, pr, ci, tree>>
        /\ At("published") /\ gh.phase = "ci_gating"
    BY <1>3, <1>p DEF PersistResources, sessions, world, history
  <2>b. gh'.phase = gh.phase /\ KeepsWaves /\ KeepsOpen /\ KeepsTurn /\ gh'.stopped = gh.stopped
        /\ gh'.pr = gh.pr /\ gh'.head = tree.head
    BY <1>t, <1>3 DEF PersistResources, State
  <2>c. run'.pc = "pr" /\ Held
    BY <1>t, <1>3, Moves DEF PersistResources
  <2>1. Durable'
    BY <1>t, <1>h, <2>a, <2>b DEF RunInv, Durable, Memory, NoPromptTwice, OnlyReviewedPublished,
       DeveloperStoppedWhenReleased, Terminal, RoundKept, OpenKept, ReportKept, TurnKept,
       PromptKept, DevKept, HeadKept
  <2>2. Memory'
    BY <1>t, <2>a, <2>b, <2>c DEF RunInv, Durable, Memory, PhaseInv, RoundAt, HeadAt, OpenAt,
       ReportAt, TurnAt, PromptAt, DevAt, ClearInv, Verified
  <2> QED
    BY <2>1, <2>2
<1>4. CASE ReconcilePR
  <2>a. UNCHANGED <<gh, dev, rev, prompted, asked, cleared, published, remote, ci, tree>>
        /\ At("pr") /\ gh.phase = "ci_gating"
    BY <1>4, <1>p DEF ReconcilePR, sessions, history
  <2>1. CASE Propagate /\ UNCHANGED pr
    BY <1>t, <2>a, <2>1, Moves, MoveOff
  <2>2. CASE Goto("evaluate") /\ gh.pr /\ UNCHANGED pr
    <3>a. run'.pc = "evaluate" /\ Held
      BY <1>t, <2>2, Moves
    <3>b. remote # 0
      BY <1>t, <2>2 DEF Durable, HeadKept
    <3>1. Durable'
      BY <1>t, <2>a, <2>2, DurableSame
    <3>2. Memory'
      BY <1>t, <2>a, <2>2, <3>a, <3>b DEF RunInv, Durable, Memory, PhaseInv, RoundAt, HeadAt,
         OpenAt, ReportAt, TurnAt, PromptAt, DevAt, ClearInv, Verified
    <3> QED
      BY <3>1, <3>2
  <2>3. CASE Goto("record_pr") /\ ((pr /\ pr' = pr) \/ (remote # 0 /\ pr' = TRUE))
    <3>a. run'.pc = "record_pr" /\ Held
      BY <1>t, <2>3, Moves
    <3>1. Durable'
      BY <1>t, <2>a, <2>3 DEF RunInv, Durable, Memory, NoPromptTwice, OnlyReviewedPublished,
         DeveloperStoppedWhenReleased, Terminal, RoundKept, OpenKept, ReportKept, TurnKept,
         PromptKept, DevKept, HeadKept
    <3>2. Memory'
      BY <1>t, <2>a, <2>3, <3>a DEF RunInv, Durable, Memory, PhaseInv, RoundAt, HeadAt, OpenAt,
         ReportAt, TurnAt, PromptAt, DevAt, ClearInv, Verified
    <3> QED
      BY <3>1, <3>2
  <2> QED
    BY <1>4, <2>1, <2>2, <2>3 DEF ReconcilePR
<1>5. CASE RecordPR
  <2>a. UNCHANGED <<dev, rev, prompted, asked, cleared, published, remote, pr, ci, tree>>
        /\ At("record_pr") /\ gh.phase = "ci_gating"
    BY <1>5, <1>p DEF RecordPR, sessions, world, history
  <2>b. gh'.phase = gh.phase /\ KeepsWaves /\ KeepsOpen /\ KeepsTurn /\ gh'.stopped = gh.stopped
        /\ gh'.head = gh.head /\ gh'.noChanges = gh.noChanges
    BY <1>t, <1>5 DEF RecordPR, State
  <2>c. pr /\ remote # 0
    BY <1>t, <2>a DEF Memory, HeadAt, Durable, HeadKept
  <2>1. Durable'
    BY <1>t, <2>a, <2>b, <2>c DEF RunInv, Durable, Memory, NoPromptTwice, OnlyReviewedPublished,
       DeveloperStoppedWhenReleased, Terminal, RoundKept, OpenKept, ReportKept, TurnKept,
       PromptKept, DevKept, HeadKept
  <2>d. Quits \/ (run'.pc = "evaluate" /\ Held)
    BY <1>t, <1>5, Moves DEF RecordPR
  <2>2. CASE Quits
    <3>1. run.head <= tree'.head /\ tree'.head \in Heads
      BY <1>t, <2>a DEF Typed, Memory, HeadAt
    <3> QED
      BY <1>t, <2>a, <2>b, <2>1, <2>2, <3>1, QuitsMemory
  <2>3. CASE run'.pc = "evaluate" /\ Held
    <3>1. Memory'
      BY <1>t, <2>a, <2>b, <2>c, <2>3 DEF RunInv, Durable, Memory, PhaseInv, RoundAt, HeadAt,
         OpenAt, ReportAt, TurnAt, PromptAt, DevAt, ClearInv, Verified
    <3> QED
      BY <2>1, <3>1
  <2> QED
    BY <2>d, <2>2, <2>3
<1>6. CASE SettleGate
  <2>a. UNCHANGED <<dev, rev, prompted, asked, cleared, published, remote, pr, ci, tree>>
        /\ At("evaluate") /\ gh.phase = "ci_gating"
    BY <1>6, <1>p DEF SettleGate, sessions, world, history
  <2>1. CASE (Propagate \/ Escalate) /\ UNCHANGED gh
    BY <1>t, <2>a, <2>1, Moves, MoveOff
  <2>2. CASE Goto("updating") /\ UNCHANGED gh /\ remote = run.head /\ ci[run.head] = "pass"
    <3>a. run'.pc = "updating" /\ Held
      BY <1>t, <2>2, Moves
    <3>b. run.head # 0 /\ run.head # Foreign
      <4>1. run.head # 0
        BY <1>t, <2>a, <2>2 DEF Memory, HeadAt
      <4>2. run.head <= tree.head /\ tree.head <= MaxCommits
        BY <1>t DEF Memory, HeadAt, Durable, HeadKept
      <4> QED
        BY <1>h, <4>1, <4>2 DEF Foreign
    <3>c. run.head \in published /\ run.head \in cleared
      BY <1>t, <2>2, <3>b DEF Durable, HeadKept, OnlyReviewedPublished
    <3>1. Durable'
      BY <1>t, <2>a, <2>2, DurableSame
    <3>2. Memory'
      BY <1>t, <2>a, <2>2, <3>a, <3>c DEF RunInv, Durable, Memory, PhaseInv, RoundAt, HeadAt,
         OpenAt, ReportAt, TurnAt, PromptAt, DevAt, ClearInv, Verified
    <3> QED
      BY <3>1, <3>2
  <2>3. CASE End("queued") /\ UNCHANGED gh
    <3>a. run'.pc = "stop" /\ run'.verdict = "queued" /\ Held
      BY <1>t, <2>3, Moves
    <3>1. Durable'
      BY <1>t, <2>a, <2>3, DurableSame
    <3>2. Memory'
      BY <1>t, <2>a, <2>3, <3>a DEF RunInv, Durable, Memory, PhaseInv, RoundAt, HeadAt, OpenAt,
         ReportAt, TurnAt, PromptAt, DevAt, ClearInv, Verified
    <3> QED
      BY <3>1, <3>2
  <2>4. CASE /\ gh' = [gh EXCEPT !.ciFailed = TRUE] /\ ~run.atGate
             /\ run' = [run EXCEPT !.pc = "top", !.asks = "ci"]
    <3>a. /\ run'.pc = "top" /\ run'.head = run.head /\ run'.atGate = run.atGate
          /\ run'.recover = run.recover /\ run'.rounds = run.rounds
      BY <1>t, <2>4 DEF Run
    <3>b. gh'.phase = gh.phase /\ KeepsWaves /\ KeepsOpen /\ KeepsTurn /\ KeepsRest
      BY <1>t, <2>4 DEF State
    <3>1. Durable'
      BY <1>t, <2>a, <3>b DEF RunInv, Durable, Memory, NoPromptTwice, OnlyReviewedPublished,
         DeveloperStoppedWhenReleased, Terminal, RoundKept, OpenKept, ReportKept, TurnKept,
         PromptKept, DevKept, HeadKept
    <3>2. Memory'
      BY <1>t, <2>a, <2>4, <3>a, <3>b DEF RunInv, Durable, Memory, PhaseInv, RoundAt, HeadAt,
         OpenAt, ReportAt, TurnAt, PromptAt, DevAt, ClearInv, Verified
    <3> QED
      BY <3>1, <3>2
  <2> QED
    BY <1>6, <2>1, <2>2, <2>3, <2>4 DEF SettleGate, RepairCI
<1>7. CASE UpdatePR
  <2>a. UNCHANGED <<dev, rev, prompted, asked, cleared, published, remote, pr, ci, tree>>
        /\ At("updating") /\ gh.phase = "ci_gating"
    BY <1>7, <1>p DEF UpdatePR, sessions, world, history
  <2>b. gh'.phase = "updating_pr" /\ KeepsWaves /\ KeepsOpen /\ KeepsTurn /\ KeepsRest
    BY <1>t, <1>7 DEF UpdatePR, State
  <2>c. run'.pc = "stop" /\ run'.verdict = "done" /\ Held
    BY <1>t, <1>7, Moves DEF UpdatePR
  <2>1. Durable'
    BY <1>t, <2>a, <2>b DEF RunInv, Durable, Memory, NoPromptTwice, OnlyReviewedPublished,
       DeveloperStoppedWhenReleased, Terminal, RoundKept, OpenKept, ReportKept, TurnKept,
       PromptKept, DevKept, HeadKept
  <2>2. Memory'
    BY <1>t, <2>a, <2>b, <2>c DEF RunInv, Durable, Memory, PhaseInv, RoundAt, HeadAt, OpenAt,
       ReportAt, TurnAt, PromptAt, DevAt, ClearInv, Verified
  <2> QED
    BY <2>1, <2>2
<1> QED
  BY <1>1, <1>2, <1>3, <1>4, <1>5, <1>6, <1>7

\* The end of a run: the lanes are gone before the verdict is written.
LEMMA EndStep ==
  ASSUME RunInv, StopLanes \/ StopFails \/ RecordStopped \/ Settle \/ Release
  PROVE  Durable' /\ Memory'
<1>t. TypeOK /\ Typed /\ Durable /\ Memory /\ run \in Run /\ gh \in State
  BY Types DEF RunInv, TypeOK
<1>p. run.pc \in Ending => gh.phase \in Active \cup {"queued"}
  BY <1>t DEF Memory, PhaseInv
<1>1. CASE StopLanes
  <2>a. UNCHANGED <<gh, prompted, asked, cleared, published, remote, pr, ci, tree>> /\ At("stop")
    BY <1>1 DEF StopLanes, sessions, world, history
  <2>b. /\ dev' = dev \/ dev'.st = "none"
        /\ \A l \in Reviewers : rev'[l] = rev[l] \/ rev'[l].st = "none"
    BY <1>1 DEF StopLanes, sessions, NoDev, NoRevs, NoRev
  <2>c. dev'.st = "none"
    BY <1>1, <1>t DEF StopLanes, sessions, NoDev, Durable, DevKept, TurnKept
  <2>d. run'.pc \in {"settle", "stopped"} /\ Held /\ run'.verdict = run.verdict
    BY <1>1, <1>t, Moves DEF StopLanes
  <2>1. Durable'
    BY <1>t, <2>a, <2>b, <2>c DEF RunInv, Durable, Memory, NoPromptTwice, OnlyReviewedPublished,
       DeveloperStoppedWhenReleased, Terminal, RoundKept, OpenKept, ReportKept, TurnKept,
       PromptKept, DevKept, HeadKept
  <2>2. Memory'
    BY <1>t, <1>p, <2>a, <2>c, <2>d DEF RunInv, Durable, Memory, PhaseInv, RoundAt, HeadAt,
       OpenAt, ReportAt, TurnAt, PromptAt, DevAt, ClearInv, Verified
  <2> QED
    BY <2>1, <2>2
<1>2. CASE StopFails
  <2>a. UNCHANGED <<gh, dev, prompted, asked, cleared, published, remote, pr, ci, tree>> /\ At("stop")
    BY <1>2 DEF StopFails, history
  <2>b. \A l \in Reviewers : rev'[l] = rev[l] \/ rev'[l].st = "none"
    BY <1>2 DEF StopFails, NoRev
  <2>c. Quits
    BY <1>2, <1>t, Moves DEF StopFails
  <2>1. Durable'
    BY <1>t, <2>a, <2>b DEF RunInv, Durable, Memory, NoPromptTwice, OnlyReviewedPublished,
       DeveloperStoppedWhenReleased, Terminal, RoundKept, OpenKept, ReportKept, TurnKept,
       PromptKept, DevKept, HeadKept
  <2>2. run.head <= tree'.head /\ tree'.head \in Heads
    BY <1>t, <2>a DEF Typed, Memory, HeadAt
  <2>3. gh'.phase \in Active \cup {"queued"}
    BY <1>p, <2>a
  <2> QED
    BY <1>t, <2>c, <2>1, <2>2, <2>3, QuitsMemory
<1>3. CASE RecordStopped
  <2>a. UNCHANGED <<dev, rev, prompted, asked, cleared, published, remote, pr, ci, tree>> /\ At("stopped")
    BY <1>3 DEF RecordStopped, sessions, world, history
  <2>b. gh'.phase = gh.phase /\ KeepsWaves /\ KeepsOpen /\ KeepsTurn /\ gh'.pr = gh.pr
        /\ gh'.head = gh.head /\ gh'.noChanges = gh.noChanges
    BY <1>t, <1>3 DEF RecordStopped, State
  <2>c. run'.pc = "settle" /\ Held /\ run'.verdict = run.verdict
    BY <1>t, <1>3, Moves DEF RecordStopped
  <2>d. dev.st = "none"
    BY <1>t, <2>a DEF Memory, DevAt
  <2>1. Durable'
    BY <1>t, <2>a, <2>b, <2>d DEF RunInv, Durable, Memory, NoPromptTwice, OnlyReviewedPublished,
       DeveloperStoppedWhenReleased, Terminal, RoundKept, OpenKept, ReportKept, TurnKept,
       PromptKept, DevKept, HeadKept
  <2>2. Memory'
    BY <1>t, <1>p, <2>a, <2>b, <2>c, <2>d DEF RunInv, Durable, Memory, PhaseInv, RoundAt, HeadAt,
       OpenAt, ReportAt, TurnAt, PromptAt, DevAt, ClearInv, Verified
  <2> QED
    BY <2>1, <2>2
<1>4. CASE Settle
  <2>a. UNCHANGED <<dev, rev, prompted, asked, cleared, published, remote, pr, ci, tree>> /\ At("settle")
    BY <1>4 DEF Settle, sessions, world, history
  <2>b. gh'.phase \in Verdicts /\ KeepsWaves /\ KeepsOpen /\ KeepsTurn /\ KeepsRest
    BY <1>t, <1>4 DEF Settle, State, Typed, Verdicts
  <2>c. dev.st = "none"
    BY <1>t, <2>a DEF Memory, DevAt
  <2>d. (run'.pc = "off" /\ Quits) \/ (run'.pc = "release" /\ Held /\ gh'.phase \in Terminal)
    BY <1>t, <1>4, Moves DEF Settle
  <2>1. Durable'
    BY <1>t, <2>a, <2>b, <2>c DEF RunInv, Durable, Memory, NoPromptTwice, OnlyReviewedPublished,
       DeveloperStoppedWhenReleased, Terminal, RoundKept, OpenKept, ReportKept, TurnKept,
       PromptKept, DevKept, HeadKept, Verdicts
  <2>2. CASE run'.pc = "off" /\ Quits
    <3>1. run.head <= tree'.head /\ tree'.head \in Heads
      BY <1>t, <2>a DEF Typed, Memory, HeadAt
    <3> QED
      BY <1>t, <2>1, <2>2, <3>1, QuitsMemory
  <2>3. CASE run'.pc = "release" /\ Held /\ gh'.phase \in Terminal
    <3>1. Memory'
      BY <1>t, <2>a, <2>b, <2>c, <2>3 DEF RunInv, Durable, Memory, PhaseInv, RoundAt, HeadAt,
         OpenAt, ReportAt, TurnAt, PromptAt, DevAt, ClearInv, Verified
    <3> QED
      BY <2>1, <3>1
  <2> QED
    BY <2>d, <2>2, <2>3
<1>5. CASE Release
  <2>a. UNCHANGED <<gh, dev, rev, prompted, asked, cleared, published, remote, pr, ci>>
        /\ tree'.head = tree.head
    BY <1>5, <1>t DEF Release, sessions, world, history, TypeOK
  <2>b. run'.pc = "off" /\ Quits
    BY <1>5, <1>t, Moves DEF Release
  <2>1. Durable'
    BY <1>t, <2>a, DurableSame
  <2>2. run.head <= tree'.head /\ tree'.head \in Heads
    BY <1>t, <2>a DEF Typed, Memory, HeadAt
  <2> QED
    BY <1>t, <2>b, <2>1, <2>2, QuitsMemory
<1> QED
  BY <1>1, <1>2, <1>3, <1>4, <1>5

\* What others do to a run that is under way.
LEMMA OthersStep ==
  ASSUME RunInv, \/ DevFinishes \/ DevTimesOut \/ CIReports \/ Deadline \/ Rerun \/ ToggleEnabled
                 \/ Requeue \/ ForeignPush \/ DevOversteps
                 \/ \E l \in Reviewers : ReviewerFinishes(l) \/ ReviewerTimesOut(l)
  PROVE  Durable' /\ Memory'
<1>t. TypeOK /\ Typed /\ Durable /\ Memory /\ run \in Run /\ gh \in State
  BY Types DEF RunInv, TypeOK
<1>h. tree.head \in Nat /\ gh.head \in Nat /\ run.head \in Nat
  BY <1>t DEF Typed, Heads, Foreign
<1>1. CASE DevFinishes \/ DevTimesOut
  <2>a. UNCHANGED <<gh, run, rev, prompted, asked, cleared, published, remote, pr, ci>>
        /\ tree'.head = tree.head /\ dev.st # "none" /\ dev'.inv = dev.inv
    BY <1>1, <1>t DEF DevFinishes, DevTimesOut, world, history, TypeOK, DevSession
  <2>1. Durable'
    BY <1>t, <2>a DEF RunInv, Durable, Memory, NoPromptTwice, OnlyReviewedPublished,
       DeveloperStoppedWhenReleased, Terminal, RoundKept, OpenKept, ReportKept, TurnKept,
       PromptKept, DevKept, HeadKept
  <2>2. Memory'
    BY <1>t, <2>a DEF RunInv, Durable, Memory, PhaseInv, RoundAt, HeadAt, OpenAt, ReportAt,
       TurnAt, PromptAt, DevAt, ClearInv, Verified
  <2> QED
    BY <2>1, <2>2
<1>2. CASE \E l \in Reviewers : ReviewerFinishes(l) \/ ReviewerTimesOut(l)
  <2> SUFFICES ASSUME NEW l \in Reviewers, ReviewerFinishes(l) \/ ReviewerTimesOut(l)
               PROVE  Durable' /\ Memory'
    BY <1>2
  <2>a. UNCHANGED <<gh, run, dev, prompted, asked, cleared, published, remote, pr, ci, tree>>
        /\ rev[l].st # "none"
    BY DEF ReviewerFinishes, ReviewerTimesOut, world, history
  <2>b. rev'[l].round = rev[l].round /\ \A m \in Reviewers : m # l => rev'[m] = rev[m]
    <3>1. rev \in [Reviewers -> RevSession]
      BY <1>t DEF TypeOK
    <3>2. \E st \in Results : rev' = [rev EXCEPT ![l].st = st]
      BY DEF ReviewerFinishes, ReviewerTimesOut, Results
    <3> QED
      BY <3>1, <3>2 DEF RevSession
  <2>1. Durable'
    BY <1>t, <2>a, <2>b DEF RunInv, Durable, Memory, NoPromptTwice, OnlyReviewedPublished,
       DeveloperStoppedWhenReleased, Terminal, RoundKept, OpenKept, ReportKept, TurnKept,
       PromptKept, DevKept, HeadKept
  <2>2. Memory'
    BY <1>t, <2>a DEF RunInv, Durable, Memory, PhaseInv, RoundAt, HeadAt, OpenAt, ReportAt,
       TurnAt, PromptAt, DevAt, ClearInv, Verified
  <2> QED
    BY <2>1, <2>2
<1>3. CASE CIReports \/ Rerun
  <2>a. UNCHANGED <<gh, run, dev, rev, prompted, asked, cleared, published, remote, pr, tree>>
    BY <1>3 DEF CIReports, Rerun, sessions, history
  <2>b. \A h \in Heads : ci[h] = "pass" => ci'[h] = "pass"
    BY <1>3, <1>t DEF CIReports, Rerun, TypeOK
  <2>c. Verified => Verified'
    BY <1>t, <2>a, <2>b DEF Verified, Typed
  <2>1. Durable'
    BY <1>t, <2>a, DurableSame
  <2>2. Memory'
    BY <1>t, <2>a, <2>c DEF RunInv, Durable, Memory, PhaseInv, RoundAt, HeadAt, OpenAt, ReportAt,
       TurnAt, PromptAt, DevAt, ClearInv
  <2> QED
    BY <2>1, <2>2
<1>4. CASE Deadline \/ ToggleEnabled
  <2>a. UNCHANGED <<gh, run, dev, rev, prompted, asked, cleared, published, remote, pr, ci, tree>>
    BY <1>4 DEF Deadline, ToggleEnabled, sessions, history
  <2>1. Durable'
    BY <1>t, <2>a, DurableSame
  <2>2. Memory'
    BY <1>t, <2>a DEF RunInv, Durable, Memory, PhaseInv, RoundAt, HeadAt, OpenAt, ReportAt,
       TurnAt, PromptAt, DevAt, ClearInv, Verified
  <2> QED
    BY <2>1, <2>2
<1>5. CASE Requeue
  <2>a. UNCHANGED <<run, dev, rev, prompted, asked, cleared, published, remote, pr, ci, tree>>
        /\ At("off") /\ gh.phase = "escalated"
    BY <1>5 DEF Requeue, sessions, history
  <2>b. gh'.phase = "queued" /\ KeepsWaves /\ KeepsOpen /\ KeepsTurn /\ KeepsRest
    BY <1>t, <1>5 DEF Requeue, State
  <2>1. Durable'
    BY <1>t, <2>a, <2>b DEF RunInv, Durable, Memory, NoPromptTwice, OnlyReviewedPublished,
       DeveloperStoppedWhenReleased, Terminal, RoundKept, OpenKept, ReportKept, TurnKept,
       PromptKept, DevKept, HeadKept
  <2>2. Memory'
    BY <1>t, <2>a, <2>b DEF RunInv, Durable, Memory, PhaseInv, RoundAt, HeadAt, OpenAt, ReportAt,
       TurnAt, PromptAt, DevAt, ClearInv, Verified
  <2> QED
    BY <2>1, <2>2
<1>6. CASE ForeignPush
  <2>a. UNCHANGED <<gh, run, dev, rev, prompted, asked, cleared, published, pr, ci, tree>>
        /\ remote' = Foreign
    BY <1>6 DEF ForeignPush, sessions, history
  <2>b. Foreign # 0
    BY DEF Foreign
  <2>1. Durable'
    BY <1>t, <2>a, <2>b DEF RunInv, Durable, Memory, NoPromptTwice, OnlyReviewedPublished,
       DeveloperStoppedWhenReleased, Terminal, RoundKept, OpenKept, ReportKept, TurnKept,
       PromptKept, DevKept, HeadKept
  <2>2. Memory'
    BY <1>t, <2>a, <2>b DEF RunInv, Durable, Memory, PhaseInv, RoundAt, HeadAt, OpenAt, ReportAt,
       TurnAt, PromptAt, DevAt, ClearInv, Verified
  <2> QED
    BY <2>1, <2>2
<1>7. CASE DevOversteps
  <2>a. UNCHANGED <<gh, run, dev, rev, prompted, asked, cleared, published, remote, pr, ci>>
    BY <1>7 DEF DevOversteps, sessions, history
  <2>b. tree'.head \in Nat /\ tree.head <= tree'.head /\ tree'.head <= MaxCommits
    <3>1. tree'.head = tree.head \/ (tree.head < MaxCommits /\ tree'.head = tree.head + 1)
      BY <1>7, <1>t DEF DevOversteps, TypeOK
    <3> QED
      BY <1>t, <1>h, <3>1 DEF Durable, HeadKept
  <2>1. HeadKept'
    <3>1. \A r \in Rounds : gh.waves[r].head \in Nat
      BY <1>t DEF Typed, Wave, Heads, Foreign
    <3>2. remote \in Nat
      BY <1>t DEF TypeOK, Heads, Foreign
    <3> QED
      BY <1>t, <1>h, <2>a, <2>b, <3>1, <3>2 DEF Durable, HeadKept
  <2>2. Durable'
    BY <1>t, <2>a, <2>1 DEF RunInv, Durable, Memory, NoPromptTwice, OnlyReviewedPublished,
       DeveloperStoppedWhenReleased, Terminal, RoundKept, OpenKept, ReportKept, TurnKept,
       PromptKept, DevKept, HeadKept
  <2>3. run'.head <= tree'.head
    BY <1>t, <1>h, <2>a, <2>b DEF Memory, HeadAt
  <2>4. Memory'
    BY <1>t, <2>a, <2>3 DEF RunInv, Durable, Memory, PhaseInv, RoundAt, HeadAt, OpenAt, ReportAt,
       TurnAt, PromptAt, DevAt, ClearInv, Verified
  <2> QED
    BY <2>2, <2>4
<1> QED
  BY <1>1, <1>2, <1>3, <1>4, <1>5, <1>6, <1>7

\* The keeper, failed requests and deaths.
LEMMA FaultStep ==
  ASSUME RunInv, KeeperStops \/ KeeperFails \/ RequestFails \/ Crash
  PROVE  Durable' /\ Memory'
<1>t. TypeOK /\ Typed /\ Durable /\ Memory /\ run \in Run /\ gh \in State
  BY Types DEF RunInv, TypeOK
<1>1. CASE KeeperStops \/ KeeperFails
  <2>a. UNCHANGED <<gh, prompted, asked, cleared, published, remote, pr, ci, tree>>
    BY <1>1 DEF KeeperStops, KeeperFails, world, history
  <2>b. /\ dev' = dev \/ dev'.st = "none"
        /\ \A l \in Reviewers : rev'[l] = rev[l] \/ rev'[l].st = "none"
    BY <1>1 DEF KeeperStops, KeeperFails, sessions, NoDev, NoRevs, NoRev
  <2>c. run'.pc = run.pc /\ Held /\ run'.verdict = run.verdict
    BY <1>1, <1>t DEF KeeperStops, KeeperFails, Run
  <2>1. Durable'
    BY <1>t, <2>a, <2>b DEF RunInv, Durable, Memory, NoPromptTwice, OnlyReviewedPublished,
       DeveloperStoppedWhenReleased, Terminal, RoundKept, OpenKept, ReportKept, TurnKept,
       PromptKept, DevKept, HeadKept
  <2>2. Memory'
    BY <1>t, <2>a, <2>b, <2>c DEF RunInv, Durable, Memory, PhaseInv, RoundAt, HeadAt, OpenAt,
       ReportAt, TurnAt, PromptAt, DevAt, ClearInv, Verified
  <2> QED
    BY <2>1, <2>2
<1>2. CASE RequestFails
  <2>a. UNCHANGED <<gh, dev, rev, prompted, asked, cleared, published, remote, pr, tree>>
        /\ run.pc \notin {"off", "release"}
    BY <1>2 DEF RequestFails, sessions, history
  <2> QED
    BY <1>2, <1>t, <2>a, Moves, MoveOff DEF RequestFails
<1>3. CASE Crash
  <2>a. UNCHANGED <<gh, dev, rev, prompted, asked, cleared, published, remote, pr, tree>>
    BY <1>3 DEF Crash, sessions, history
  <2>b. Quits /\ run'.pc = "off"
    BY <1>3 DEF Crash, Quits, NotRunning
  <2>1. Durable'
    BY <1>t, <2>a, DurableSame
  <2>2. run.head <= tree'.head /\ tree'.head \in Heads
    BY <1>t, <2>a DEF Typed, Memory, HeadAt
  <2> QED
    BY <1>t, <2>b, <2>1, <2>2, QuitsMemory
<1> QED
  BY <1>1, <1>2, <1>3

LEMMA InitRun == Init => RunInv
<1> SUFFICES ASSUME Init PROVE RunInv
  OBVIOUS
<1>1. TypeOK
  BY InitTypes
<1>a. /\ gh.phase = "none" /\ gh.round = 0 /\ gh.head = 0 /\ gh.usage = 0 /\ gh.failures = 0
      /\ gh.turn.inv = 0 /\ ~gh.open /\ ~gh.proposed /\ ~gh.pr /\ ~pr /\ remote = 0
      /\ run.pc = "off" /\ run.head = 0 /\ dev.st = "none" /\ tree.head = 0 /\ published = {}
  BY DEF Init, NoTurn, NotRunning, NoDev
<1>b. \A r \in Rounds : /\ ~gh.waves[r].planned /\ ~gh.waves[r].prompts
                        /\ gh.waves[r].report = "none" /\ gh.waves[r].head = 0
  BY DEF Init, NoWave
<1>c. /\ \A i \in 1..MaxCoder : prompted[i] = 0
      /\ \A r \in Rounds, l \in Reviewers : asked[r][l] = 0
  BY DEF Init
<1>2. Durable
  BY <1>a, <1>b, <1>c DEF Durable, NoPromptTwice, OnlyReviewedPublished,
     DeveloperStoppedWhenReleased, Terminal, RoundKept, OpenKept, ReportKept, TurnKept,
     PromptKept, DevKept, HeadKept
<1>3. Memory
  BY <1>a DEF Memory, PhaseInv, RoundAt, HeadAt, OpenAt, ReportAt, TurnAt, PromptAt, DevAt,
     ClearInv, Verified
<1> QED
  BY <1>1, <1>2, <1>3 DEF RunInv

LEMMA RunStep == RunInv /\ [Next]_vars => RunInv'
<1> SUFFICES ASSUME RunInv, [Next]_vars PROVE RunInv'
  OBVIOUS
<1>1. TypeOK'
  BY TypeStep
<1>2. CASE Next
  <2>1. CASE \E l \in Reviewers : ReuseSeat(l) \/ LaunchReviewer(l) \/ SubmitReviewer(l)
                                  \/ CollectReviewer(l) \/ SubmitReviewerUncertain(l)
    BY <1>1, <2>1, SeatStep DEF RunInv
  <2> QED
    BY <1>1, <1>2, <2>1, Uptake, CoderStep, SubmitStep, OpeningStep, ReportStep, GateStep,
       EndStep, OthersStep, FaultStep
    DEF RunInv, Next, Loop, Lanes, Faults, Operators
<1>3. CASE UNCHANGED vars
  <2>a. UNCHANGED <<gh, run, dev, rev, prompted, asked, cleared, published, remote, pr, ci, tree>>
    BY <1>3 DEF vars
  <2>t. Durable /\ Memory
    BY DEF RunInv
  <2>1. Durable'
    BY <2>a, <2>t, DurableSame
  <2>2. Memory'
    BY <2>a, <2>t DEF RunInv, Durable, Memory, PhaseInv, RoundAt, HeadAt, OpenAt, ReportAt,
       TurnAt, PromptAt, DevAt, ClearInv, Verified
  <2> QED
    BY <1>1, <2>1, <2>2 DEF RunInv
<1> QED
  BY <1>2, <1>3

\* The inductive invariant holds in every state of every run.
THEOREM RunInvariant == Spec => []RunInv
<1>1. Init => RunInv
  BY InitRun
<1>2. RunInv /\ [Next]_vars => RunInv'
  BY RunStep
<1> QED
  BY <1>1, <1>2, PTL DEF Spec
HIDE DEF At, Held, CurrentWave, KeepsWaves, KeepsOpen, KeepsTurn, KeepsRest, Before, Coding, Turning,
    Opening, Waving, Gating, Ending, Active
----------------------------------------------------------------------------
(* What follows.                                                           *)

\* The durable state, the loop's memory, the sessions, the checkout and the
\* counters keep their types (RunState and the sidecars of domain.py).
THEOREM ForemanTyped == Spec => []TypeOK
<1>1. RunInv => TypeOK
  BY DEF RunInv
<1> QED
  BY <1>1, RunInvariant, PTL

\* No coder invocation and no reviewer of a wave is prompted twice, and a
\* prompt leaves only after its intent and its reservation are durable
\* (_prepare_worker_turn, _plan_review_seats; reuse on resume), whatever dies
\* or fails in between.
THEOREM PromptsOnce == Spec => []NoPromptTwice
<1>1. RunInv => NoPromptTwice
  BY DEF RunInv, Durable
<1> QED
  BY <1>1, RunInvariant, PTL

\* Only heads that a complete wave left without open findings are pushed
\* (_publish_snapshot after _development_round), whatever the developer does
\* to the checkout meanwhile.
THEOREM ReviewedOnly == Spec => []OnlyReviewedPublished
<1>1. RunInv => OnlyReviewedPublished
  BY DEF RunInv, Durable
<1> QED
  BY <1>1, RunInvariant, PTL

\* No developer is left behind a verdict or a requeue (_confirm_lanes_stopped
\* comes before the write in every ending of run_work and resume_work).
THEOREM DeveloperGone == Spec => []DeveloperStoppedWhenReleased
<1>1. RunInv => DeveloperStoppedWhenReleased
  BY DEF RunInv, Durable
<1> QED
  BY <1>1, RunInvariant, PTL

\* What a step writes of what the contract sees, of the turn and of the waves.
LEMMA WriteStep ==
  ASSUME RunInv, Next
  PROVE  \/ UNCHANGED gh
         \/ gh.phase = "none" /\ gh' = [gh EXCEPT !.phase = "escalated"]
         \/ gh.phase \in {"none", "queued"} /\ gh' = [gh EXCEPT !.phase = "claiming"]
         \/ gh' = [gh EXCEPT !.worktree = TRUE, !.head = tree.head]
         \/ gh' = [gh EXCEPT !.head = tree.head]
         \/ At("coding") /\ gh' = [gh EXCEPT !.phase = "coding"]
         \/ PrepareTurn \/ CollectCoder \/ JudgeCoder
         \/ \E b \in BOOLEAN : gh' = [gh EXCEPT !.noChanges = b, !.failures = 0]
         \/ gh' = [gh EXCEPT !.proposed = gh.open]
         \/ Review \/ PlanSeats \/ RecordPrompts \/ PersistRound \/ SaveProgress
         \/ \E l \in Reviewers : CollectReviewer(l)
         \/ At("gate") /\ gh' = [gh EXCEPT !.phase = "ci_gating"]
         \/ gh' = [gh EXCEPT !.pr = TRUE]
         \/ gh' = [gh EXCEPT !.ciFailed = TRUE]
         \/ At("updating") /\ gh' = [gh EXCEPT !.phase = "updating_pr"]
         \/ gh' = [gh EXCEPT !.stopped = TRUE]
         \/ Settle
         \/ gh.phase = "escalated" /\ gh' = [gh EXCEPT !.phase = "queued"]
<1>t. Memory
  BY DEF RunInv
<1>1. CASE RunWork \/ ClaimItem \/ VerifyCheckout \/ StartCoder \/ BeginCoding
  BY <1>1, <1>t DEF RunWork, ClaimItem, VerifyCheckout, StartCoder, BeginCoding, Memory, PhaseInv, At
<1>2. CASE FinishCoder
  <2>1. (gh.turn.got = "empty") \in BOOLEAN
    OBVIOUS
  <2> QED
    BY <1>2, <2>1, Zenon DEF FinishCoder
<1>3. CASE RecordProposals \/ RecordSnapshot \/ BeginGate \/ PersistResources \/ RecordPR \/ SettleGate
  BY <1>3 DEF RecordProposals, RecordSnapshot, BeginGate, PersistResources, RecordPR, SettleGate, RepairCI
<1>4. CASE UpdatePR \/ RecordStopped \/ Requeue
  BY <1>4 DEF UpdatePR, RecordStopped, Requeue
<1>5. CASE \/ PrepareTurn \/ CollectCoder \/ JudgeCoder \/ Review \/ PlanSeats \/ RecordPrompts
           \/ PersistRound \/ SaveProgress \/ Settle \/ \E l \in Reviewers : CollectReviewer(l)
  BY <1>5
<1>6. CASE \/ AcquireCheckout \/ ResumeWork \/ LoopTop \/ ReuseTurn \/ LaunchCoder \/ SubmitCoder
           \/ RetryCoder \/ CommitSnapshot \/ CleanupSeats \/ Reviewed \/ Publish \/ ReconcilePR
           \/ StopLanes \/ Release
           \/ \E l \in Reviewers : ReuseSeat(l) \/ LaunchReviewer(l) \/ SubmitReviewer(l)
  BY <1>6 DEF AcquireCheckout, ResumeWork, LoopTop, ReuseTurn, LaunchCoder, SubmitCoder,
     RetryCoder, CommitSnapshot, CleanupSeats, Reviewed, Publish, ReconcilePR, StopLanes, Release,
     ReuseSeat, LaunchReviewer, SubmitReviewer
<1>7. CASE Lanes \/ Faults \/ CIReports \/ Deadline \/ (Operators /\ ~Requeue)
  BY <1>7 DEF Lanes, Faults, CIReports, Deadline, Operators, DevFinishes, DevTimesOut,
     ReviewerFinishes, ReviewerTimesOut, SubmitCoderUncertain, StopFails, KeeperStops, KeeperFails,
     RequestFails, Crash, SubmitReviewerUncertain, Rerun, ToggleEnabled, ForeignPush, DevOversteps
<1> QED
  BY <1>1, <1>2, <1>3, <1>4, <1>5, <1>6, <1>7 DEF Next, Loop, Operators

\* A run becomes done with a head that a complete wave cleared, and that head
\* was pushed and passed CI, or nothing was changed (_settle_gate, and the end
\* of _development_round).
THEOREM DoneVerified == Spec => DoneIsVerified
<1> DEFINE Done == gh.phase # "done" /\ gh'.phase = "done" => Verified
<1>1. RunInv /\ [Next]_vars => Done
  <2> SUFFICES ASSUME RunInv, [Next]_vars, gh.phase # "done", gh'.phase = "done" PROVE Verified
    OBVIOUS
  <2>t. gh \in State /\ Typed /\ Memory
    BY Types DEF RunInv, TypeOK
  <2>1. Next
    BY DEF vars
  <2>2. Settle
    <3>1. PrepareTurn \/ CollectCoder \/ JudgeCoder \/ RecordPrompts \/ PlanSeats \/ SaveProgress
            => gh'.phase = gh.phase
      BY <2>t DEF PrepareTurn, CollectCoder, JudgeCoder, RecordPrompts, PlanSeats, SaveProgress, State
    <3>2. PersistRound => gh'.phase = gh.phase
      BY <2>t DEF PersistRound, State
    <3>3. Review => gh'.phase \in {gh.phase, "reviewing"}
      BY <2>t DEF Review, State
    <3>4. (\E l \in Reviewers : CollectReviewer(l)) => gh'.phase = gh.phase
      BY <2>t DEF CollectReviewer, State
    <3>5. \A b \in BOOLEAN : gh' = [gh EXCEPT !.noChanges = b, !.failures = 0] => gh'.phase = gh.phase
      BY <2>t DEF State
    <3> QED
      BY ZenonT(40), <2>1, <2>t, <3>1, <3>2, <3>3, <3>4, <3>5, WriteStep DEF State
  <2>3. run.verdict = "done" /\ At("settle")
    BY <2>2, <2>t DEF Settle, State
  <2> QED
    BY <2>t, <2>3 DEF Memory, ClearInv, At, Ending
<1>2. Done => (gh.phase # "done" /\ gh'.phase = "done" =>
                 /\ run.head \in cleared
                 /\ \/ run.head \in published /\ ci[run.head] = "pass"
                    \/ gh.noChanges /\ run.head = 0)
  BY DEF Verified
<1> QED
  BY <1>1, <1>2, RunInvariant, PTL DEF Spec, DoneIsVerified

\* What ReceiptsKept says of one step.
WavesStand ==
  \A r \in Rounds : gh.waves[r].planned =>
    LET old == gh.waves[r]
        new == gh'.waves[r] IN
      /\ new.planned /\ new.head = old.head /\ new.requests = old.requests
      /\ \A l \in Reviewers : old.got[l] # "none" => new.got[l] = old.got[l]
      /\ old.report # "none" => new.report = old.report
TurnStands ==
  /\ gh.turn.got # "none" /\ gh'.turn.inv = gh.turn.inv => gh'.turn.got = gh.turn.got
  /\ gh'.turn.inv >= gh.turn.inv /\ gh'.usage >= gh.usage

LEMMA StandsSame ==
  ASSUME TypeOK
  PROVE  /\ gh'.waves = gh.waves => WavesStand
         /\ gh'.turn = gh.turn /\ gh'.usage = gh.usage => TurnStands
<1>1. gh.turn.inv \in Nat /\ gh.usage \in Nat
  BY Types DEF Typed, Turn
<1> QED
  BY <1>1 DEF WavesStand, TurnStands

LEMMA ReceiptStep == RunInv /\ [Next]_vars => WavesStand /\ TurnStands
<1> SUFFICES ASSUME RunInv, [Next]_vars PROVE WavesStand /\ TurnStands
  OBVIOUS
<1>t. TypeOK /\ gh \in State /\ gh.turn \in Turn /\ Typed /\ Memory /\ Durable
  BY Types DEF RunInv, TypeOK, Typed
<1>n. gh.usage \in Nat /\ gh.turn.inv = gh.usage
  BY <1>t DEF Typed, Durable, TurnKept
<1>w. gh.phase = "reviewing" => gh.round \in Rounds /\ gh.waves[gh.round] \in Wave
  BY <1>t DEF Durable, RoundKept, Typed, Rounds
<1>1. CASE UNCHANGED gh
  BY <1>1, <1>t, StandsSame
<1>2. CASE PrepareTurn
  <2>1. WavesStand
    <3>1. gh'.waves = gh.waves
      BY <1>2, <1>t DEF PrepareTurn, State
    <3> QED
      BY <1>t, <3>1, StandsSame
  <2>2. CASE gh' = gh
    BY <1>t, <2>2, StandsSame
  <2>3. CASE gh'.turn.inv = gh.usage + 1 /\ gh'.usage = gh.usage + 1
    <3>1. TurnStands
      BY <1>n, <2>3 DEF TurnStands
    <3> QED
      BY <2>1, <3>1
  <2>4. gh' = gh \/ (gh'.turn.inv = gh.usage + 1 /\ gh'.usage = gh.usage + 1)
    <3>1. CASE gh' = [gh EXCEPT !.stopped = FALSE, !.usage = gh.usage + 1,
                         !.turn = [inv |-> gh.usage + 1, round |-> gh.round, head |-> gh.head,
                                   asks |-> run.asks = "review", consumed |-> FALSE,
                                   got |-> "none"]]
      BY <1>t, <3>1 DEF State
    <3> QED
      BY <1>2, <3>1 DEF PrepareTurn
  <2> QED
    BY <2>2, <2>3, <2>4
<1>3. CASE CollectCoder
  <2>1. gh.turn.got = "none"
    BY <1>3, <1>t DEF CollectCoder, Memory, TurnAt, At
  <2>2. gh'.waves = gh.waves /\ gh'.usage = gh.usage /\ gh'.turn.inv = gh.turn.inv
    BY <1>3, <1>t DEF CollectCoder, State, Turn
  <2>3. TurnStands
    BY <1>n, <2>1, <2>2 DEF TurnStands
  <2> QED
    BY <1>t, <2>2, <2>3, StandsSame
<1>4. CASE JudgeCoder
  <2>1. gh'.waves = gh.waves /\ gh'.usage = gh.usage /\ gh'.turn.inv = gh.turn.inv
        /\ gh'.turn.got = gh.turn.got
    <3>1. CASE gh' = [gh EXCEPT !.turn.consumed = TRUE, !.failures = @ + 1]
      BY <1>t, <3>1 DEF State, Turn
    <3> QED
      BY <1>1, <1>4, <3>1 DEF JudgeCoder
  <2>2. TurnStands
    BY <1>n, <2>1 DEF TurnStands
  <2> QED
    BY <1>t, <2>1, <2>2, StandsSame
<1>5. CASE PersistRound
  <2>1. gh'.waves = gh.waves /\ gh'.turn = gh.turn /\ gh'.usage = gh.usage
    BY <1>5, <1>t DEF PersistRound, State
  <2> QED
    BY <1>t, <2>1, StandsSame
<1>6. CASE Review \/ Settle
  <2>1. gh'.waves = gh.waves /\ gh'.turn = gh.turn /\ gh'.usage = gh.usage
    BY <1>6, <1>t DEF Review, Settle, State
  <2> QED
    BY <1>t, <2>1, StandsSame
<1>7. CASE PlanSeats
  <2>1. gh'.turn = gh.turn /\ gh'.usage = gh.usage
        /\ \A r \in Rounds : r # gh.round => gh'.waves[r] = gh.waves[r]
    BY <1>7, <1>t DEF PlanSeats, State
  <2>2. gh.phase = "reviewing" /\ ~gh.waves[gh.round].planned
    BY <1>7, <1>t DEF PlanSeats, Memory, PhaseInv, RoundAt, Opening, CurrentWave, At
  <2>3. WavesStand
    BY <1>t, <2>1, <2>2 DEF WavesStand
  <2> QED
    BY <1>t, <2>1, <2>3, StandsSame
<1>8. CASE RecordPrompts \/ SaveProgress \/ \E l \in Reviewers : CollectReviewer(l)
  <2>1. gh'.turn = gh.turn /\ gh'.usage = gh.usage
        /\ \A r \in Rounds : r # gh.round => gh'.waves[r] = gh.waves[r]
    <3>1. CASE RecordPrompts \/ \E l \in Reviewers : CollectReviewer(l)
      BY <1>t, <3>1 DEF RecordPrompts, CollectReviewer, State
    <3>2. CASE SaveProgress
      <4>1. \E x, n : gh' = [gh EXCEPT !.waves[gh.round].report = x, !.stagnant = n]
        BY <3>2, Zenon DEF SaveProgress
      <4>2. PICK x, n : gh' = [gh EXCEPT !.waves[gh.round].report = x, !.stagnant = n]
        BY <4>1
      <4> QED
        BY <1>t, <4>2 DEF State
    <3> QED
      BY <1>8, <3>1, <3>2
  <2>2. gh.round \in Rounds /\ gh.waves[gh.round] \in Wave
    BY <1>8, <1>t, <1>w DEF RecordPrompts, SaveProgress, CollectReviewer, Open, Pending, Memory,
       PhaseInv, Waving, At
  <2> DEFINE old == gh.waves[gh.round]
             new == gh'.waves[gh.round]
  <2>3. /\ new.planned = old.planned /\ new.head = old.head /\ new.requests = old.requests
        /\ \A l \in Reviewers : old.got[l] # "none" => new.got[l] = old.got[l]
        /\ old.report # "none" => new.report = old.report
    <3>1. CASE RecordPrompts
      <4>1. new = [old EXCEPT !.prompts = TRUE]
        BY <3>1, <1>t, <2>2 DEF RecordPrompts, State
      <4> QED
        BY <2>2, <4>1 DEF Wave
    <3>2. CASE SaveProgress
      <4>1. old.report = "none"
        BY <3>2, <1>t DEF SaveProgress, Memory, ReportAt, CurrentWave, At
      <4>2. \E x : new = [old EXCEPT !.report = x]
        <5>1. PICK x, n : gh' = [gh EXCEPT !.waves[gh.round].report = x, !.stagnant = n]
          BY <3>2, Zenon DEF SaveProgress
        <5>2. gh'.waves = [gh.waves EXCEPT ![gh.round].report = x]
          BY <1>t, <5>1 DEF State
        <5> QED
          BY <1>t, <2>2, <5>2 DEF Typed
      <4> QED
        BY <2>2, <4>1, <4>2 DEF Wave
    <3>3. CASE \E l \in Reviewers : CollectReviewer(l)
      <4>1. PICK l \in Reviewers : CollectReviewer(l)
        BY <3>3
      <4>2. new = [old EXCEPT !.got[l] = rev[l].st]
        BY <4>1, <1>t, <2>2 DEF CollectReviewer, State
      <4>3. old.got[l] = "none"
        BY <4>1 DEF CollectReviewer, Open, CurrentWave
      <4> QED
        BY <2>2, <4>2, <4>3 DEF Wave
    <3> QED
      BY <1>8, <3>1, <3>2, <3>3
  <2>4. WavesStand
    <3> SUFFICES ASSUME NEW r \in Rounds, gh.waves[r].planned
                 PROVE  LET o == gh.waves[r]
                            n == gh'.waves[r] IN
                          /\ n.planned /\ n.head = o.head /\ n.requests = o.requests
                          /\ \A l \in Reviewers : o.got[l] # "none" => n.got[l] = o.got[l]
                          /\ o.report # "none" => n.report = o.report
      BY DEF WavesStand
    <3>1. CASE r = gh.round
      BY <2>3, <3>1
    <3>2. CASE r # gh.round
      BY <2>1, <3>2
    <3> QED
      BY <3>1, <3>2
  <2> QED
    BY <1>t, <2>1, <2>4, StandsSame
<1>9. CASE gh'.waves = gh.waves /\ gh'.turn = gh.turn /\ gh'.usage = gh.usage
  BY <1>9, <1>t, StandsSame
<1>10. CASE Next
  <2>1. \A b \in BOOLEAN : gh' = [gh EXCEPT !.noChanges = b, !.failures = 0] =>
          gh'.waves = gh.waves /\ gh'.turn = gh.turn /\ gh'.usage = gh.usage
    BY <1>t DEF State
  <2>2. \A b : gh' = [gh EXCEPT !.phase = b] =>
          gh'.waves = gh.waves /\ gh'.turn = gh.turn /\ gh'.usage = gh.usage
    BY <1>t DEF State
  <2>3. \/ gh' = [gh EXCEPT !.worktree = TRUE, !.head = tree.head]
        \/ gh' = [gh EXCEPT !.head = tree.head] \/ gh' = [gh EXCEPT !.proposed = gh.open]
        \/ gh' = [gh EXCEPT !.pr = TRUE] \/ gh' = [gh EXCEPT !.ciFailed = TRUE]
        \/ gh' = [gh EXCEPT !.stopped = TRUE]
        => gh'.waves = gh.waves /\ gh'.turn = gh.turn /\ gh'.usage = gh.usage
    BY <1>t DEF State
  <2> QED
    BY <1>10, <1>1, <1>2, <1>3, <1>4, <1>5, <1>6, <1>7, <1>8, <1>9, <2>1, <2>2, <2>3, WriteStep
<1> QED
  BY <1>1, <1>10 DEF vars

\* Recovery rewrites nothing: the plan, the receipts and the report of a wave
\* and the receipt of a coder turn stay as they were first recorded, and the
\* invocation count never shrinks (record_review_result, _record_worker_result,
\* _prepare_worker_turn).
THEOREM NothingRewritten == Spec => ReceiptsKept
<1>1. WavesStand /\ TurnStands =>
        /\ \A r \in Rounds : gh.waves[r].planned =>
             LET old == gh.waves[r]
                 new == gh'.waves[r] IN
               /\ new.planned /\ new.head = old.head /\ new.requests = old.requests
               /\ \A l \in Reviewers : old.got[l] # "none" => new.got[l] = old.got[l]
               /\ old.report # "none" => new.report = old.report
        /\ gh.turn.got # "none" /\ gh'.turn.inv = gh.turn.inv => gh'.turn.got = gh.turn.got
        /\ gh'.turn.inv >= gh.turn.inv /\ gh'.usage >= gh.usage
  BY DEF WavesStand, TurnStands
<1> QED
  BY <1>1, RunInvariant, ReceiptStep, PTL DEF Spec, ReceiptsKept
----------------------------------------------------------------------------
(* Every step is one of the contract, or one it does not see.              *)

seen == <<gh.phase, gh.usage, gh.round>>
kept == <<gh.usage, gh.round>>

\* What the heads' histories gain: SaveProgress clears, Publish pushes.
LEMMA HistoryStep ==
  ASSUME Next
  PROVE  (~SaveProgress => cleared' = cleared) /\ (~Publish => published' = published)
<1>1. CASE \/ RunWork \/ ClaimItem \/ AcquireCheckout \/ VerifyCheckout \/ ResumeWork \/ LoopTop
           \/ StartCoder \/ BeginCoding \/ PrepareTurn \/ ReuseTurn \/ LaunchCoder \/ SubmitCoder
           \/ CollectCoder \/ JudgeCoder \/ RetryCoder \/ FinishCoder \/ RecordProposals
  BY <1>1 DEF RunWork, ClaimItem, AcquireCheckout, VerifyCheckout, ResumeWork, LoopTop, StartCoder,
     BeginCoding, PrepareTurn, ReuseTurn, LaunchCoder, SubmitCoder, CollectCoder, JudgeCoder,
     RetryCoder, FinishCoder, RecordProposals, history
<1>2. CASE \/ Review \/ CommitSnapshot \/ RecordSnapshot \/ PlanSeats \/ RecordPrompts
           \/ PersistRound \/ SaveProgress \/ CleanupSeats \/ Reviewed
           \/ \E l \in Reviewers : ReuseSeat(l) \/ LaunchReviewer(l) \/ SubmitReviewer(l)
                                   \/ CollectReviewer(l)
  BY <1>2 DEF Review, CommitSnapshot, RecordSnapshot, PlanSeats, RecordPrompts, PersistRound,
     SaveProgress, CleanupSeats, Reviewed, ReuseSeat, LaunchReviewer, SubmitReviewer,
     CollectReviewer, history
<1>3. CASE \/ BeginGate \/ Publish \/ PersistResources \/ ReconcilePR \/ RecordPR \/ SettleGate
           \/ UpdatePR \/ StopLanes \/ RecordStopped \/ Settle \/ Release
  BY <1>3 DEF BeginGate, Publish, PersistResources, ReconcilePR, RecordPR, SettleGate, UpdatePR,
     StopLanes, RecordStopped, Settle, Release, history
<1>4. CASE Lanes \/ Faults \/ CIReports \/ Deadline \/ Operators
  BY <1>4 DEF Lanes, Faults, CIReports, Deadline, Operators, DevFinishes, DevTimesOut,
     ReviewerFinishes, ReviewerTimesOut, SubmitCoderUncertain, StopFails, KeeperStops, KeeperFails,
     RequestFails, Crash, SubmitReviewerUncertain, Rerun, ToggleEnabled, Requeue, ForeignPush,
     DevOversteps, history
<1> QED
  BY <1>1, <1>2, <1>3, <1>4 DEF Next, Loop

LEMMA ContractStep == RunInv /\ [Next]_vars => [Contract!Next]_(Contract!vars)
<1> SUFFICES ASSUME RunInv, Next PROVE [Contract!Next]_(Contract!vars)
  BY DEF vars, Contract!vars
<1>t. TypeOK /\ gh \in State /\ Typed /\ Memory /\ Durable
  BY Types DEF RunInv, TypeOK
<1>a. gh.usage \in Nat /\ gh.round \in Nat
  BY <1>t DEF Typed
<1>c. ~SaveProgress => cleared' = cleared
  BY HistoryStep
<1>p. ~Publish => published' = published
  BY HistoryStep
<1>1. CASE Publish
  <2>1. gh' = gh /\ cleared' = cleared /\ gh.phase = "ci_gating"
    BY <1>1, <1>t DEF Publish, Memory, PhaseInv, Gating, At
  <2>2. run.head \in cleared
    BY <1>1, <1>t DEF Publish, Memory, ClearInv, At
  <2>3. published' = published \/ published' = published \cup {run.head}
    BY <1>1 DEF Publish
  <2>4. Contract!Publish \/ UNCHANGED <<seen, cleared, published>>
    BY <2>1, <2>2, <2>3 DEF Contract!Publish, seen
  <2> QED
    BY <2>4 DEF Contract!Next, Contract!vars, seen
<1>2. CASE SaveProgress
  <2>1. published' = published /\ gh.phase = "reviewing" /\ gh.round \in Rounds
    BY <1>2, <1>t DEF SaveProgress, Memory, PhaseInv, Waving, At, Durable, RoundKept, Typed, Rounds
  <2>2. UNCHANGED seen
    <3>1. PICK x, n : gh' = [gh EXCEPT !.waves[gh.round].report = x, !.stagnant = n]
      BY <1>2, Zenon DEF SaveProgress
    <3> QED
      BY <1>t, <3>1 DEF State, seen
  <2>3. CurrentWave.head \in Heads
    BY <1>t, <2>1 DEF CurrentWave, Typed, Wave
  <2>4. cleared' = cleared \/ cleared' = cleared \cup {CurrentWave.head}
    BY <1>2 DEF SaveProgress
  <2>5. Contract!Clear \/ UNCHANGED <<seen, cleared, published>>
    BY <2>1, <2>2, <2>3, <2>4 DEF Contract!Clear, seen
  <2> QED
    BY <2>5 DEF Contract!Next, Contract!vars, seen
<1>h. CASE ~SaveProgress /\ ~Publish
  <2>h. cleared' = cleared /\ published' = published
    BY <1>c, <1>h, <1>p
  <2>s. ASSUME UNCHANGED seen PROVE [Contract!Next]_(Contract!vars)
    BY <2>h, <2>s DEF seen, Contract!vars
  <2>e. ASSUME NEW p, gh' = [gh EXCEPT !.phase = p] PROVE gh'.phase = p /\ UNCHANGED kept
    BY <1>t, <2>e DEF State, kept
  <2>1. CASE gh.phase = "none" /\ gh' = [gh EXCEPT !.phase = "escalated"]
    <3>1. Contract!Reject
      BY <2>1, <2>e, <2>h DEF Contract!Reject, Contract!Move, kept
    <3> QED
      BY <3>1 DEF Contract!Next
  <2>2. CASE gh.phase \in {"none", "queued"} /\ gh' = [gh EXCEPT !.phase = "claiming"]
    <3>1. Contract!Claim
      BY <2>2, <2>e, <2>h DEF Contract!Claim, Contract!Move, kept
    <3> QED
      BY <3>1 DEF Contract!Next
  <2>3. CASE At("coding") /\ gh' = [gh EXCEPT !.phase = "coding"]
    <3>1. gh.phase \in {"claiming", "coding", "reviewing", "ci_gating"}
      BY <1>t, <2>3 DEF Memory, PhaseInv, At, Active
    <3>2. Contract!BeginCoding
      BY <2>3, <2>e, <2>h, <3>1 DEF Contract!BeginCoding, Contract!Move, kept
    <3> QED
      BY <3>2 DEF Contract!Next
  <2>4. CASE PrepareTurn
    <3>1. gh.phase = "coding" /\ gh.usage < MaxCoder
      BY <2>4, <1>t DEF PrepareTurn, Memory, PhaseInv, TurnAt, Coding, At
    <3>2. CASE gh' = [gh EXCEPT !.stopped = FALSE, !.usage = gh.usage + 1,
                        !.turn = [inv |-> gh.usage + 1, round |-> gh.round, head |-> gh.head,
                                  asks |-> run.asks = "review", consumed |-> FALSE,
                                  got |-> "none"]]
      <4>1. gh'.phase = gh.phase /\ gh'.usage = gh.usage + 1 /\ gh'.round = gh.round
        BY <1>t, <3>2 DEF State
      <4>2. Contract!SpendCoder
        BY <2>h, <3>1, <4>1 DEF Contract!SpendCoder
      <4> QED
        BY <4>2 DEF Contract!Next
    <3>3. CASE UNCHANGED gh
      BY <2>s, <3>3 DEF seen
    <3> QED
      BY <2>4, <3>2, <3>3 DEF PrepareTurn
  <2>5. CASE Review
    <3>1. CASE gh' = [gh EXCEPT !.phase = "reviewing", !.round = run.rounds + 1]
               /\ gh.phase # "reviewing" /\ ~(run.rounds >= MaxRounds)
      <4>1. gh.phase \in {"claiming", "coding"} /\ run.rounds = gh.round
        <5>1. At("review")
          BY <2>5 DEF Review
        <5> QED
          BY <1>t, <3>1, <5>1 DEF Memory, PhaseInv, RoundAt, Before, Active, At
      <4>2. gh'.phase = "reviewing" /\ gh'.usage = gh.usage /\ gh'.round = gh.round + 1
        BY <1>t, <3>1, <4>1 DEF State
      <4>3. Contract!BeginRound
        BY <1>a, <2>h, <3>1, <4>1, <4>2 DEF Contract!BeginRound, Contract!Move
      <4> QED
        BY <4>3 DEF Contract!Next
    <3>2. CASE UNCHANGED gh
      BY <2>s, <3>2 DEF seen
    <3> QED
      BY <2>5, <3>1, <3>2 DEF Review
  <2>6. CASE At("gate") /\ gh' = [gh EXCEPT !.phase = "ci_gating"]
    <3>1. gh.phase \in {"claiming", "reviewing", "ci_gating", "updating_pr"}
      BY <1>t, <2>6 DEF Memory, PhaseInv, At
    <3>2. Contract!BeginGate
      BY <2>6, <2>e, <2>h, <3>1 DEF Contract!BeginGate, Contract!Move, kept
    <3> QED
      BY <3>2 DEF Contract!Next
  <2>7. CASE At("updating") /\ gh' = [gh EXCEPT !.phase = "updating_pr"]
    <3>1. gh.phase = "ci_gating"
      BY <1>t, <2>7 DEF Memory, PhaseInv, Gating, At
    <3>2. Contract!PassGate
      BY <2>7, <2>e, <2>h, <3>1 DEF Contract!PassGate, Contract!Move, kept
    <3> QED
      BY <3>2 DEF Contract!Next
  <2>8. CASE Settle
    <3>1. gh'.phase = (IF run.verdict = "escalated" /\ ~enabled THEN "cancelled" ELSE run.verdict)
          /\ UNCHANGED kept
      BY <2>8, <2>e DEF Settle
    <3>2. /\ gh.phase \in Active \cup {"queued"}
          /\ run.verdict = "done" => gh.phase \in {"updating_pr", "reviewing"} /\ cleared # {}
          /\ run.verdict = "failed" => gh.phase = "coding"
          /\ run.verdict = "queued" => gh.phase = "ci_gating"
      BY <2>8, <1>t DEF Settle, Memory, PhaseInv, ClearInv, Verified, Ending, At
    <3>3. run.verdict \in Verdicts
      BY <1>t DEF Typed
    <3>4. CASE run.verdict \in {"escalated", "cancelled"}
      <4>1. Contract!Finish
        BY <2>h, <3>1, <3>2, <3>4 DEF Contract!Finish, Contract!Move, Contract!Active, Active, kept
      <4> QED
        BY <4>1 DEF Contract!Next
    <3>5. CASE run.verdict \in {"done", "failed"}
      <4>1. Contract!Finish
        BY <2>h, <3>1, <3>2, <3>5 DEF Contract!Finish, Contract!Move, kept
      <4> QED
        BY <4>1 DEF Contract!Next
    <3>6. CASE run.verdict = "queued"
      <4>1. Contract!Requeue
        BY <2>h, <3>1, <3>2, <3>6 DEF Contract!Requeue, Contract!Move, kept
      <4> QED
        BY <4>1 DEF Contract!Next
    <3> QED
      BY <3>3, <3>4, <3>5, <3>6 DEF Verdicts
  <2>9. CASE gh.phase = "escalated" /\ gh' = [gh EXCEPT !.phase = "queued"]
    <3>1. Contract!Requeue
      BY <2>9, <2>e, <2>h DEF Contract!Requeue, Contract!Move, kept
    <3> QED
      BY <3>1 DEF Contract!Next
  <2>10. CASE \/ CollectCoder \/ JudgeCoder \/ PlanSeats \/ RecordPrompts \/ PersistRound
              \/ \E l \in Reviewers : CollectReviewer(l)
    <3>1. CASE CollectCoder \/ JudgeCoder \/ PlanSeats \/ RecordPrompts
      BY <1>t, <2>s, <3>1 DEF CollectCoder, JudgeCoder, PlanSeats, RecordPrompts, State, seen
    <3>2. CASE PersistRound \/ \E l \in Reviewers : CollectReviewer(l)
      BY <1>t, <2>s, <3>2 DEF PersistRound, CollectReviewer, State, seen
    <3> QED
      BY <2>10, <3>1, <3>2
  <2>11. CASE \/ UNCHANGED gh \/ gh' = [gh EXCEPT !.worktree = TRUE, !.head = tree.head]
              \/ gh' = [gh EXCEPT !.head = tree.head] \/ gh' = [gh EXCEPT !.proposed = gh.open]
              \/ gh' = [gh EXCEPT !.pr = TRUE] \/ gh' = [gh EXCEPT !.ciFailed = TRUE]
              \/ gh' = [gh EXCEPT !.stopped = TRUE]
              \/ \E b \in BOOLEAN : gh' = [gh EXCEPT !.noChanges = b, !.failures = 0]
    <3>1. UNCHANGED seen
      BY <1>t, <2>11 DEF State, seen
    <3> QED
      BY <2>s, <3>1
  <2> QED
    BY <1>h, <2>1, <2>2, <2>3, <2>4, <2>5, <2>6, <2>7, <2>8, <2>9, <2>10, <2>11, WriteStep
<1> QED
  BY <1>1, <1>2, <1>h

\* The life of an item is the documented one (V3_ARCHITECTURE.md and the
\* phases of domain.py): every durable write of the loop, and of whoever
\* resumes it, is a step of RunContract or invisible there.
THEOREM KeepsContract == Spec => RefinesContract
<1>1. Init => Contract!Init
  BY DEF Init, Contract!Init
<1>2. RunInv /\ [Next]_vars => [Contract!Next]_(Contract!vars)
  BY ContractStep
<1> QED
  BY <1>1, <1>2, RunInvariant, PTL DEF Spec, RefinesContract, Contract!Spec
=============================================================================
