----------------------------- MODULE Checkouts -----------------------------
(***************************************************************************)
(* The checkouts of one issue and who may remove them: ownership records   *)
(* (v3/git_ops.py), the foreman that makes and uses the developer's        *)
(* worktree and a reviewer's clone (v3/foreman.py), and the sweeper that   *)
(* retires what terminal runs leave behind (v3/cleanup.py), which the      *)
(* service runs before every pass (cli.py).  The three share one thread.   *)
(* The coordinator may die between any two effects; operators, agents and  *)
(* another host act between any two.                                       *)
(*                                                                         *)
(* A drive is reduced to what its checkouts see: one coder turn, one       *)
(* review wave with one seat, the gate, the stop.  ForemanRun has the      *)
(* rest.                                                                   *)
(***************************************************************************)
EXTENDS Naturals

CONSTANTS
  MaxRuns,      \* bound: run ids the issue ever gets
  MaxCrashes,   \* bound: deaths of the coordinator
  MaxFaults,    \* bound: failed requests and commands
  MaxMeddling   \* bound: acts of operators and of the other host

ASSUME CheckoutAssumption == {MaxRuns, MaxCrashes, MaxFaults, MaxMeddling} \subseteq Nat

Paths == {"dev", "rev"}    \* issue-N and issue-N-review-1-lane under the worktree root
Runs == 1..MaxRuns
Human == MaxRuns + 1       \* a directory that somebody else made and uses
Lookalike == MaxRuns + 2   \* one that passes for ours: same repository, branch, head
Vacant == MaxRuns + 3      \* one that somebody made and left empty
Theirs == {Human, Lookalike}
Phases == {"none", "queued", "active", "terminal", "cancelled"}
Terminal == {"terminal", "cancelled"}

\* An ownership record.  "torn" is a file that a dying writer left behind
\* empty; "intent" is materialized: false, "made" is materialized: true.
Record == [run : 0..MaxRuns, st : {"none", "torn", "intent", "made"}]
NoRecord == [run |-> 0, st |-> "none"]

\* The durable state: phase, run id, whether this host holds the claim, and
\* the extras worktree, coder_turn, review_waves, pr_number, lanes_stopped.
State == [phase : Phases, run : 0..MaxRuns, mine : BOOLEAN, worktree : BOOLEAN,
          coder : BOOLEAN, wave : {"none", "planned", "prompted", "reported", "gated"},
          pr : BOOLEAN, stopped : BOOLEAN]
NoState == [phase |-> "none", run |-> 0, mine |-> FALSE, worktree |-> FALSE,
            coder |-> FALSE, wave |-> "none", pr |-> FALSE, stopped |-> FALSE]

\* The coordinator's memory.  In a sweep "state" is the durable state it
\* read and "current" says that it still is that (states are compared whole,
\* updated_at included); in a drive "state" carries the run id.  "next" is
\* where the removal of a checkout returns to; "recovered" says that the wave
\* had its report already.
Steps == {"off", "states", "sessions", "targets", "probe", "schedule", "acquire", "record",
          "create", "mark", "persist", "loop", "turn", "plan", "prompts", "seat", "report",
          "seats_end", "gate", "stop", "stopped", "settle", "release", "remove", "unlink"}
Jobs == {"sweep", "work", "resume"}
Verdicts == {"terminal", "queued"}
Memory == [pc : Steps, job : Jobs, p : Paths, next : Steps, sessions : SUBSET Paths,
           records : SUBSET Paths, targets : SUBSET Paths, state : State,
           current : BOOLEAN, atGate : BOOLEAN, recovered : BOOLEAN, verdict : Verdicts]
Resting == [pc |-> "off", job |-> "sweep", p |-> "dev", next |-> "off", sessions |-> {},
            records |-> {}, targets |-> {}, state |-> NoState, current |-> FALSE,
            atGate |-> FALSE, recovered |-> FALSE, verdict |-> "terminal"]

VARIABLES
  gh,       \* the durable state in the issue
  rec,      \* ownership records in the protected git directory
  dir,      \* the run that made the directory at a path, or what others put
            \* there (0: there is none)
  session,  \* the run whose lane lives in a path's CAO session (0: none)
  co,       \* the coordinator's memory
  age,      \* 0: touched of late, 1: past the session TTL, 2: past the checkout TTL
  lastRun,  \* the newest run id
  renamed,  \* the reviewer's lane is no longer in the lane registry
  crashes, faults, meddling,
  elsewhere, \* history: the runs whose stop another host recorded
  cut       \* history: the paths where a removal broke off before the record went

vars == <<gh, rec, dir, session, co, age, lastRun, renamed, crashes, faults, meddling, elsewhere, cut>>
files == <<rec, dir, cut>>
durable == <<gh, age, lastRun, elsewhere>>
bounds == <<renamed, crashes, faults, meddling>>

TypeOK ==
  /\ gh \in State
  /\ rec \in [Paths -> Record]
  /\ dir \in [Paths -> 0..Vacant]
  /\ session \in [Paths -> 0..MaxRuns]
  /\ co \in Memory
  /\ age \in 0..2 /\ lastRun \in 0..MaxRuns /\ renamed \in BOOLEAN
  /\ crashes \in 0..MaxCrashes /\ faults \in 0..MaxFaults /\ meddling \in 0..MaxMeddling
  /\ elsewhere \subseteq Runs /\ cut \subseteq Paths

\* A ready issue; somebody may already have a directory where ours would go.
Init ==
  /\ gh = NoState /\ rec = [p \in Paths |-> NoRecord]
  /\ dir \in [Paths -> {0, Vacant} \cup Theirs]
  /\ session = [p \in Paths |-> 0] /\ co = Resting
  /\ age = 0 /\ lastRun = 0 /\ renamed = FALSE
  /\ crashes = 0 /\ faults = 0 /\ meddling = 0 /\ elsewhere = {} /\ cut = {}
----------------------------------------------------------------------------
At(step) == co.pc = step
Goto(step) == co' = [co EXCEPT !.pc = step]
Rest == co' = Resting
path == co.p

\* One request or command fails for good before it takes effect.
Fault == faults < MaxFaults /\ faults' = faults + 1

\* A durable write of the coordinator's own: updated_at is now.
Write(s) == gh' = s /\ age' = 0 /\ UNCHANGED <<lastRun, elsewhere>>

\* _load's ownership check and the compare-and-swap of a save: an item that
\* was taken over or reset is left alone.
Owned == gh.phase = "active" /\ gh.mine /\ gh.run = co.state.run
Save(s, step) == IF Owned THEN Write(s) /\ Goto(step) ELSE Rest /\ UNCHANGED durable

\* _ForemanEscalation: the lanes are stopped and the item is escalated.  Any
\* other exception does that in run_work and propagates from resume_work.
Escalate == co' = [co EXCEPT !.pc = "stop", !.verdict = "terminal"]
Fail == IF co.job = "work" THEN Escalate ELSE Rest

\* _can_cleanup.
CanCleanup(s) ==
  /\ s.phase \in Terminal /\ s.mine
  /\ s.coder \/ s.wave # "none" => s.stopped
----------------------------------------------------------------------------
(* CleanupSweeper.sweep.  Any exception ends the pass; the next one starts *)
(* over.                                                                   *)

\* session_inventory, which may miss live sessions, and checkout_inventory,
\* which fails on a record that cannot be read.
SweepInventory ==
  /\ At("off")
  /\ LET live == {p \in Paths : session[p] # 0} IN
     \E listed \in SUBSET live :
       /\ IF listed = live THEN UNCHANGED faults ELSE Fault
       /\ IF \E p \in Paths : rec[p].st = "torn" THEN Rest
          ELSE co' = [Resting EXCEPT !.pc = "states", !.sessions = listed,
                        !.records = {p \in Paths : rec[p].st # "none"}]
  /\ UNCHANGED <<files, session, durable, renamed, crashes, meddling>>

\* cleanup_states, then cleanup_session_targets: every listed session needs
\* the state of its run, and confirmed stops if that is terminal.
SweepStates ==
  /\ At("states")
  /\ IF \/ \E p \in co.sessions : session[p] # gh.run
        \/ co.sessions # {} /\ gh.phase \in Terminal /\ ~CanCleanup(gh)
     THEN Rest
     ELSE co' = [co EXCEPT !.pc = "sessions", !.state = gh, !.current = TRUE,
                   !.sessions = IF gh.phase \in Terminal THEN @ ELSE {}]
  /\ UNCHANGED <<files, session, durable, bounds>>

\* cleanup_session_reference.
Referenced(p, s) == IF p = "dev" THEN s.worktree ELSE s.wave # "none"

\* _sessions: a retained session is stopped once its TTL is over, while its
\* state is the one that was read.  A stop that is not confirmed raises.
SweepSession(p) ==
  /\ At("sessions") /\ p \in co.sessions
  /\ \/ /\ age >= 1 /\ co.current /\ Referenced(p, co.state)
        /\ session' = [session EXCEPT ![p] = 0]
        /\ co' = [co EXCEPT !.sessions = @ \ {p}]
        /\ UNCHANGED faults
     \/ /\ age = 0 \/ ~co.current \/ ~Referenced(p, co.state)
        /\ Rest /\ UNCHANGED <<session, faults>>
     \/ Fault /\ Rest /\ UNCHANGED session
  /\ UNCHANGED <<files, durable, renamed, crashes, meddling>>

\* _checkouts: the targets of cleanup_checkout_targets that have expired.
\* Every record needs the state of its run.
SweepCheckouts ==
  /\ At("sessions") /\ co.sessions = {}
  /\ IF \E p \in co.records : rec[p].run # co.state.run THEN Rest
     ELSE co' = [co EXCEPT !.pc = "targets",
                   !.targets = {p \in co.records : /\ CanCleanup(co.state)
                                                   /\ rec[p].st = "made" /\ age = 2}]
  /\ UNCHANGED <<files, session, durable, bounds>>

\* verify_cleanup_state before each removal; then the pass is over.
SweepVerify ==
  /\ At("targets")
  /\ \/ \E p \in co.targets :
          IF co.current THEN co' = [co EXCEPT !.pc = "probe", !.p = p] ELSE Rest
     \/ co.targets = {} /\ Goto("schedule")
  /\ UNCHANGED <<files, session, durable, bounds>>

\* Mutant of Probed: only the lanes of the registry.
ProbedOfRegistry(s) == IF renamed THEN {"dev"} ELSE Paths

\* The sessions require_run_stopped asks for: the lanes of the registry and
\* those of the recorded waves.
Probed(s) == IF renamed /\ s.wave = "none" THEN {"dev"} ELSE Paths

SweepProbe ==
  /\ At("probe")
  /\ IF \E p \in Probed(co.state) : session[p] = co.state.run THEN Rest
     ELSE co' = [co EXCEPT !.pc = "remove", !.next = "targets"]
  /\ UNCHANGED <<files, session, durable, bounds>>
----------------------------------------------------------------------------
(* Removing a checkout: retire_checkout of the sweeper, cleanup_worktree   *)
(* and cleanup_review_checkout of the foreman.                             *)

\* Mutant of Gone: the sweeper passes over a directory that is gone, too.
GoneKept == co' = [co EXCEPT !.pc = co.next, !.targets = @ \ {path}]

\* There is no directory: only the sweeper forgets the record.
Gone == IF co.job = "sweep" THEN Goto("unlink") ELSE Goto(co.next)

\* verify_checkout, _verify_checkout_record, _verify_developer_repository: only
\* the developer's directory is looked at itself.
Verified ==
  /\ rec[path] = [run |-> co.state.run, st |-> "made"]
  /\ path = "dev" => dir[path] \in Runs \cup {Lookalike}

\* A wave whose seats cannot be cleaned up is escalated; one that was
\* recovered raises out of resume_work.
SeatsKept == IF co.recovered THEN Rest ELSE Escalate

\* The end of a run and of a failed wave carry on when a checkout cannot be
\* removed.
Kept ==
  CASE co.job = "sweep" -> Rest
    [] co.next = "gate"  -> SeatsKept
    [] OTHER             -> Goto(co.next)

\* The directory goes first and its record last.
Remove ==
  /\ At("remove")
  /\ \/ dir[path] = 0 /\ Gone /\ UNCHANGED <<dir, faults>>
     \/ /\ dir[path] # 0 /\ Verified
        /\ dir' = [dir EXCEPT ![path] = 0] /\ Goto("unlink") /\ UNCHANGED faults
     \/ /\ dir[path] # 0 /\ (IF Verified THEN Fault ELSE UNCHANGED faults)
        /\ Kept /\ UNCHANGED dir
  /\ UNCHANGED <<rec, cut, session, durable, renamed, crashes, meddling>>

\* The place of the record is asked of git once more; forget_missing_checkout
\* fails if a directory has come in the meantime.
Unlink ==
  /\ At("unlink")
  /\ \/ /\ rec' = [rec EXCEPT ![path] = NoRecord] /\ cut' = cut \ {path}
        /\ co' = [co EXCEPT !.pc = co.next, !.targets = @ \ {path}]
        /\ UNCHANGED faults
     \/ Fault /\ Kept /\ cut' = cut \cup {path} /\ UNCHANGED rec
  /\ UNCHANGED <<dir, session, durable, renamed, crashes, meddling>>
----------------------------------------------------------------------------
(* ContinuousForeman.step and the drive of the item.                       *)

\* _process_ready: the run id of the state, a new one if there is none.
RunId == IF gh.phase = "none" THEN lastRun + 1 ELSE gh.run

\* run_work and queue.claim of a ready issue.
Claim ==
  /\ At("schedule") /\ gh.phase \in {"none", "queued"}
  /\ gh.phase = "none" => lastRun < MaxRuns
  /\ LET claimed == [gh EXCEPT !.phase = "active", !.run = RunId, !.mine = TRUE] IN
       /\ gh' = claimed /\ age' = 0 /\ lastRun' = IF RunId > lastRun THEN RunId ELSE lastRun
       /\ co' = [Resting EXCEPT !.pc = "acquire", !.job = "work", !.state = claimed,
                   !.atGate = gh.phase = "queued" /\ gh.pr]
  /\ UNCHANGED <<files, session, elsewhere, bounds>>

\* ContinuousForeman._resume: another host's claim is reclaimed once its lease
\* is over.  resume_work: a run without its worktree needs reconciliation.
Resume ==
  /\ At("schedule") /\ gh.phase = "active"
  /\ LET claimed == [gh EXCEPT !.mine = TRUE] IN
       /\ Write(claimed)
       /\ IF gh.worktree \/ gh.wave = "gated"
          THEN co' = [Resting EXCEPT !.pc = "acquire", !.job = "resume", !.state = claimed,
                        !.atGate = gh.wave = "gated"]
          ELSE Rest
  /\ UNCHANGED <<files, session, bounds>>

NothingToDo ==
  /\ At("schedule")
  /\ \/ gh.phase \in Terminal \/ (gh.phase = "active" /\ ~gh.mine)
     \/ gh.phase = "none" /\ lastRun = MaxRuns
  /\ Rest
  /\ UNCHANGED <<files, session, durable, bounds>>

\* git_ops.verify_checkout of the developer's worktree, and its branch and head.
OwnWorktree ==
  rec["dev"] = [run |-> co.state.run, st |-> "made"] /\ dir["dev"] \in Runs \cup {Lookalike}

\* _acquire_checkout: none is needed at the gate; the one on record is
\* verified; otherwise one is made.
Acquire ==
  /\ At("acquire")
  /\ \/ co.atGate /\ Goto("gate")
     \/ ~co.atGate /\ gh.worktree /\ (IF OwnWorktree THEN Goto("loop") ELSE Fail)
     \/ ~co.atGate /\ ~gh.worktree /\ co' = [co EXCEPT !.pc = "record", !.p = "dev"]
  /\ UNCHANGED <<files, session, durable, bounds>>

\* Mutants of RecordCheckout: an existing record is overwritten; the record
\* says materialized before there is a checkout.
RecordCheckoutOver ==
  /\ At("record")
  /\ rec' = [rec EXCEPT ![path] = [run |-> co.state.run, st |-> "intent"]]
  /\ Goto("create")
  /\ UNCHANGED <<dir, cut, session, durable, bounds>>
RecordCheckoutMade ==
  /\ At("record")
  /\ \/ /\ rec[path] = NoRecord
        /\ rec' = [rec EXCEPT ![path] = [run |-> co.state.run, st |-> "made"]]
        /\ Goto("create")
     \/ rec[path] # NoRecord /\ Fail /\ UNCHANGED rec
  /\ UNCHANGED <<dir, cut, session, durable, bounds>>

\* _record_checkout: the intent, in a file that must not exist yet.  A
\* reviewer's clone needs its source.
RecordCheckout ==
  /\ At("record")
  /\ \/ /\ rec[path] = NoRecord
        /\ path = "rev" => OwnWorktree
        /\ rec' = [rec EXCEPT ![path] = [run |-> co.state.run, st |-> "intent"]]
        /\ Goto("create")
     \/ /\ rec[path] # NoRecord \/ (path = "rev" /\ ~OwnWorktree)
        /\ Fail /\ UNCHANGED rec
  /\ UNCHANGED <<dir, cut, session, durable, bounds>>

\* git worktree add, git clone: both take an empty directory that is there
\* already, and no other.  A later command may fail when it is made.
CreateCheckout ==
  /\ At("create")
  /\ LET taken == dir[path] \notin {0, Vacant}
         made == [dir EXCEPT ![path] = co.state.run]
     IN \/ taken /\ Fail /\ UNCHANGED <<dir, faults>>
        \/ ~taken /\ dir' = made /\ Goto("mark") /\ UNCHANGED faults
        \/ ~taken /\ dir' \in {dir, made} /\ Fault /\ Fail
  /\ UNCHANGED <<rec, cut, session, durable, renamed, crashes, meddling>>

\* _mark_materialized.
MarkMaterialized ==
  /\ At("mark")
  /\ rec' = [rec EXCEPT ![path].st = "made"]
  /\ Goto(IF path = "dev" THEN "persist" ELSE "prompts")
  /\ UNCHANGED <<dir, cut, session, durable, bounds>>

\* _persist_resources.
Persist ==
  /\ At("persist")
  /\ Save([gh EXCEPT !.worktree = TRUE], "loop")
  /\ UNCHANGED <<files, session, bounds>>

\* _run_loop: a coder turn, the wave to recover, or, when the developer's
\* answers wait for it, the next wave.
LoopTop ==
  /\ At("loop")
  /\ \/ /\ co.job = "resume" /\ gh.wave \in {"planned", "prompted", "reported"}
        /\ CASE gh.wave = "planned"  -> Escalate
             [] gh.wave = "prompted" -> Goto("seat")
             [] gh.wave = "reported" -> co' = [co EXCEPT !.pc = "seats_end", !.next = "gate",
                                                                    !.recovered = TRUE]
        /\ UNCHANGED durable
     \/ /\ co.job = "work" \/ gh.wave \in {"none", "gated"}
        /\ Save([gh EXCEPT !.coder = TRUE, !.stopped = FALSE], "turn")
     \/ co.job = "work" /\ gh.coder /\ Goto("plan") /\ UNCHANGED durable
  /\ UNCHANGED <<files, session, bounds>>

\* The coder's session; the turn succeeds or not.
CoderTurn ==
  /\ At("turn")
  /\ \/ /\ session' = [session EXCEPT !["dev"] = co.state.run]
        /\ Goto("plan") \/ Escalate
        /\ UNCHANGED faults
     \/ Fault /\ Rest /\ UNCHANGED session
  /\ UNCHANGED <<files, durable, renamed, crashes, meddling>>

\* _plan_review_seats, when the clone of an earlier wave is gone.  A later
\* wave has a path of its own; what comes of it is left open.
PlanSeats ==
  /\ At("plan")
  /\ IF rec["rev"] = NoRecord
     THEN IF Owned THEN /\ Write([gh EXCEPT !.wave = "planned"])
                        /\ co' = [co EXCEPT !.pc = "record", !.p = "rev"]
                   ELSE Rest /\ UNCHANGED durable
     ELSE (Goto("gate") \/ Escalate) /\ UNCHANGED durable
  /\ UNCHANGED <<files, session, bounds>>

\* The end of _materialize_review_seats, _record_review_prompts.  A prompt
\* over the budget takes the new clone back.
RecordPrompts ==
  /\ At("prompts")
  /\ \/ Save([gh EXCEPT !.wave = "prompted"], "seat")
     \/ co' = [co EXCEPT !.pc = "remove", !.next = "stop"] /\ UNCHANGED durable
  /\ UNCHANGED <<files, session, bounds>>

\* _execute_review_seat: the reviewer's session in its clone.
RunSeat ==
  /\ At("seat")
  /\ IF dir["rev"] \notin {co.state.run, Lookalike} THEN Escalate /\ UNCHANGED <<session, faults>>
     ELSE \/ session' = [session EXCEPT !["rev"] = co.state.run] /\ Goto("report") /\ UNCHANGED faults
          \/ Fault /\ Rest /\ UNCHANGED session
  /\ UNCHANGED <<files, durable, renamed, crashes, meddling>>

\* _save_review_progress: the report of a complete wave, none of a failed one.
SaveReport ==
  /\ At("report")
  /\ \/ /\ Owned /\ Write([gh EXCEPT !.wave = "reported"])
        /\ co' = [co EXCEPT !.pc = "seats_end", !.next = "gate"]
     \/ /\ Owned /\ Write(gh)
        /\ co' = [co EXCEPT !.pc = "seats_end", !.next = "stop"]
     \/ ~Owned /\ Rest /\ UNCHANGED durable
  /\ UNCHANGED <<files, session, bounds>>

\* _cleanup_review_results, _recovered_review_report: first the session, then
\* its clone.
EndSeats ==
  /\ At("seats_end")
  /\ \/ /\ session' = [session EXCEPT !["rev"] = 0] /\ UNCHANGED faults
        /\ co' = [co EXCEPT !.pc = "remove", !.p = "rev"]
     \/ Fault /\ SeatsKept /\ UNCHANGED session
  /\ UNCHANGED <<files, durable, renamed, crashes, meddling>>

\* _evaluate_gate and its verdict: pending checks wait in the queue.
Gate ==
  /\ At("gate")
  /\ \E verdict \in Verdicts :
       IF Owned
       THEN /\ Write([gh EXCEPT !.wave = "gated", !.pr = TRUE])
            /\ co' = [co EXCEPT !.pc = "stop", !.verdict = verdict]
       ELSE Rest /\ UNCHANGED durable
  /\ UNCHANGED <<files, session, bounds>>

\* _confirm_lanes_stopped; nothing when a stop is on record.
StopLanes ==
  /\ At("stop")
  /\ \/ ~Owned /\ Rest /\ UNCHANGED <<session, faults>>
     \/ Owned /\ gh.stopped /\ Goto("settle") /\ UNCHANGED <<session, faults>>
     \/ /\ Owned /\ ~gh.stopped /\ Goto("stopped") /\ UNCHANGED faults
        /\ session' = [dev |-> IF gh.coder THEN 0 ELSE session["dev"],
                       rev |-> IF gh.wave # "none" THEN 0 ELSE session["rev"]]
     \/ Owned /\ ~gh.stopped /\ Fault /\ Rest /\ UNCHANGED session
  /\ UNCHANGED <<files, durable, renamed, crashes, meddling>>

RecordStopped ==
  /\ At("stopped")
  /\ Save([gh EXCEPT !.stopped = TRUE], "settle")
  /\ UNCHANGED <<files, session, bounds>>

\* The verdict; the issue may have been revoked meanwhile.
Settle ==
  /\ At("settle")
  /\ \E phase \in IF co.verdict = "queued" THEN {"queued"} ELSE Terminal :
       Save([gh EXCEPT !.phase = phase], "release")
  /\ UNCHANGED <<files, session, bounds>>

\* _cleanup_terminal_worktree, which run_work leaves out at the gate.
Release ==
  /\ At("release")
  /\ IF /\ gh.phase = "terminal" /\ gh.mine /\ gh.run = co.state.run /\ gh.worktree
        /\ co.job = "work" => ~co.atGate
     THEN co' = [co EXCEPT !.pc = "remove", !.p = "dev", !.next = "off"]
     ELSE Rest
  /\ UNCHANGED <<files, session, durable, bounds>>
----------------------------------------------------------------------------
(* Time, agents, operators, another host, death.                           *)

\* Only the age of what a terminal run left matters.
Age ==
  /\ gh.phase \in Terminal /\ age < 2 /\ age' = age + 1
  /\ UNCHANGED <<gh, lastRun, elsewhere, files, session, co, bounds>>

\* A lane writes to its checkout.
LaneEdits ==
  /\ age = 2 /\ \E p \in Paths : session[p] # 0 /\ dir[p] # 0
  /\ age' = 1
  /\ UNCHANGED <<gh, lastRun, elsewhere, files, session, co, bounds>>

\* Somebody makes a directory at a free path, or moves into an empty one.
Occupy(p) ==
  /\ \/ dir[p] = 0 /\ meddling < MaxMeddling /\ meddling' = meddling + 1
        /\ \E there \in Theirs \cup {Vacant} : dir' = [dir EXCEPT ![p] = there]
     \/ dir[p] = Vacant /\ UNCHANGED meddling
        /\ \E there \in Theirs : dir' = [dir EXCEPT ![p] = there]
  /\ age' = IF age = 2 THEN 1 ELSE age
  /\ UNCHANGED <<gh, lastRun, elsewhere, rec, cut, session, co, renamed, crashes, faults>>

\* A write that is not the coordinator's: what a sweep read is no longer current.
Foreign(s) ==
  /\ gh' = s /\ age' = 0 /\ co' = [co EXCEPT !.current = FALSE]
  /\ UNCHANGED <<lastRun, files, session, renamed, crashes, faults>>
Meddle == meddling < MaxMeddling /\ meddling' = meddling + 1

\* An operator queues the item again, or deletes its state comment.
Requeue ==
  /\ gh.phase = "terminal" /\ Meddle /\ Foreign([gh EXCEPT !.phase = "queued"])
  /\ UNCHANGED elsewhere
DeleteState == gh.phase # "none" /\ Meddle /\ Foreign(NoState) /\ UNCHANGED elsewhere

\* The lease expires; another host goes on with the run, records a stop and
\* ends it, or dies before it does.  Lanes are stopped in the host's own CAO: a
\* session that this one does not know counts as terminated (cao.py:807-822).
TakeOver ==
  /\ gh.phase = "active" /\ gh.mine /\ Meddle /\ Foreign([gh EXCEPT !.mine = FALSE])
  /\ UNCHANGED elsewhere
OtherSettles ==
  /\ gh.phase = "active" /\ ~gh.mine /\ UNCHANGED meddling
  /\ \E phase \in {"active", "terminal"} : Foreign([gh EXCEPT !.phase = phase, !.stopped = TRUE])
  /\ elsewhere' = elsewhere \cup {gh.run}

\* Death, between two effects or in the middle of writing a record.  The
\* next start may bring another lane registry.
Crash ==
  /\ ~At("off") /\ crashes < MaxCrashes /\ crashes' = crashes + 1 /\ Rest
  /\ \/ UNCHANGED rec
     \/ /\ At("mark") \/ (At("record") /\ rec[path] = NoRecord)
        /\ rec' = [rec EXCEPT ![path] = [run |-> co.state.run, st |-> "torn"]]
  /\ cut' = IF At("unlink") THEN cut \cup {path} ELSE cut
  /\ renamed' \in {renamed, TRUE}
  /\ UNCHANGED <<durable, dir, session, faults, meddling>>

Sweep ==
  \/ SweepInventory \/ SweepStates \/ SweepCheckouts \/ SweepVerify \/ SweepProbe
  \/ \E p \in Paths : SweepSession(p)
Drive ==
  \/ Claim \/ Resume \/ NothingToDo \/ Acquire \/ RecordCheckout \/ CreateCheckout
  \/ MarkMaterialized \/ Persist \/ LoopTop \/ CoderTurn \/ PlanSeats \/ RecordPrompts
  \/ RunSeat \/ SaveReport \/ EndSeats \/ Gate \/ StopLanes \/ RecordStopped \/ Settle
  \/ Release
Coordinator == Sweep \/ Drive \/ Remove \/ Unlink
Others ==
  \/ Age \/ LaneEdits \/ (\E p \in Paths : Occupy(p)) \/ Requeue \/ DeleteState \/ TakeOver \/ OtherSettles

Next == Coordinator \/ Others \/ Crash

Spec == Init /\ [][Next]_vars

\* The service polls for ever and time passes.
FairSpec == Spec /\ WF_vars(Coordinator) /\ WF_vars(Age)
----------------------------------------------------------------------------
(* Properties.                                                             *)

\* git_ops.py:238-300: what others keep at a path is not deleted, though the
\* coordinator recorded an allocation there or finds a record of a checkout of
\* its own, unless a removal broke off at this very path between the directory
\* and the record.
HumanKept == [][\A p \in Paths : dir[p] \in Theirs /\ p \notin cut => dir'[p] = dir[p]]_dir

\* V3_FOREMAN.md:157: human checkouts are retained.  It does not hold: after a
\* removal that broke off, the record that is left speaks for whatever somebody
\* puts at the path, and the next removal takes it.
HumanCheckoutsRetained == [][\A p \in Paths : dir[p] \in Theirs => dir'[p] = dir[p]]_dir

\* git_ops.py:92-110 and 199-208: a directory the coordinator made always has
\* the record of the run that made it, so that the inventory finds it after
\* any crash, and no later run takes it over.
OwnedRecorded ==
  \A p \in Paths : dir[p] \in Runs => rec[p].st # "none" /\ rec[p].run = dir[p]

\* cleanup.py:57-66, foreman.py:1590-1604: a live lane keeps the checkout it
\* was launched in, whoever cleans up, whatever the inventory of sessions
\* misses and however the lane registry changes.  A run whose stop another
\* host recorded is left out: that host has not seen the lanes of this one.
LanesHaveCheckouts ==
  \A p \in Paths : session[p] # 0 /\ session[p] \notin elsewhere =>
    \/ dir[p] = session[p] /\ rec[p] = [run |-> session[p], st |-> "made"]
    \/ dir[p] = Lookalike

\* V3_SOAK.md:50-52: what a terminal run of this host leaves behind is removed
\* in the end, across crashes in the middle of a removal, unless a record is
\* unreadable, belongs to a run without a durable state, or is of a worktree in
\* whose place somebody put a directory.
Sweepable ==
  /\ CanCleanup(gh)
  /\ \A p \in Paths :
       /\ rec[p].st # "torn" /\ rec[p].run \in {0, gh.run}
       /\ rec[p].st = "made" /\ p = "dev" => dir[p] \notin {Human, Vacant}
       /\ session[p] # 0 => session[p] = gh.run /\ Referenced(p, gh)
RetainedRemoved == <>[]Sweepable => <>[](\A p \in Paths : rec[p].st # "made")
=============================================================================
