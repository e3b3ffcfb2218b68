----------------------------- MODULE Scheduling -----------------------------
(***************************************************************************)
(* Several issues and one developer slot: the pass of the scheduler        *)
(* (v3/scheduler.py) that resumes the active issue or starts the ready     *)
(* ones, what of a drive (v3/foreman.py) decides who holds the slot, and   *)
(* the lifecycle labels (v3/queue.py), from which alone a new pass learns  *)
(* which issue is active.  A phase is saved first; its labels follow, one  *)
(* request at a time, and the coordinator may die between any two.         *)
(*                                                                         *)
(* A drive is reduced to claim, coder turns, review waves, gate, stop and  *)
(* verdict; ForemanRun has the rest, and WorkQueue the claims of several   *)
(* hosts.                                                                  *)
(***************************************************************************)
EXTENDS Naturals, FiniteSets

CONSTANTS
  Issues,       \* issue numbers
  MaxRounds,    \* review_policy.max_review_rounds
  MaxFailures,  \* bound: deaths of the coordinator and failed requests
  MaxMeddling   \* bound: acts of operators

ASSUME SchedulingAssumption ==
  /\ Issues \subseteq Nat /\ IsFiniteSet(Issues) /\ 0 \notin Issues
  /\ {MaxRounds, MaxFailures, MaxMeddling} \subseteq Nat

Terminal == {"done", "failed", "escalated", "cancelled"}
Working == {"claiming", "coding", "reviewing", "ci_gating", "updating_pr"}
Phases == Terminal \cup Working \cup {"none", "queued"}

\* The lifecycle labels by their place in _lifecycle_labels.
Order == [work |-> 1, active |-> 2, review |-> 3, needs_human |-> 4, done |-> 5, error |-> 6]
Lifecycle == DOMAIN Order
PhaseLabel(phase) ==
  CASE phase = "queued" -> "work"
    [] phase = "reviewing" -> "review"
    [] phase = "escalated" -> "needs_human"
    [] phase = "done" -> "done"
    [] phase = "failed" -> "error"
    [] phase \in {"none", "cancelled"} -> "nothing"
    [] OTHER -> "active"

\* The durable state.  turn is extras.coder_turn: a dispatch intent, one with
\* its result, or that of an earlier round; wave says that the round has its
\* wave intent.
Turns == {"none", "sent", "done", "old"}
State == [phase : Phases, turn : Turns, wave : BOOLEAN, round : 0..MaxRounds,
          worktree : BOOLEAN, pr : BOOLEAN, stopped : BOOLEAN]
NoState == [phase |-> "none", turn |-> "none", wave |-> FALSE, round |-> 0,
            worktree |-> FALSE, pr |-> FALSE, stopped |-> FALSE]

\* The coordinator's memory: the issue at hand, the rest of the list of
\* ready ones, and for a label change its target and where it returns to.
Steps == {"rest", "ready", "claim", "acquire", "resume", "code", "dispatch", "launch",
          "work", "review", "plan", "wave", "gate", "evaluate", "stop", "stopped",
          "settle", "out", "labels"}
Memory == [pc : Steps, cur : Issues \cup {0}, todo : SUBSET Issues,
           driver : {"none", "work", "resume"}, atGate : BOOLEAN,
           verdict : Terminal \cup {"queued"}, target : Lifecycle \cup {"nothing"},
           next : Steps]
Resting == [pc |-> "rest", cur |-> 0, todo |-> {}, driver |-> "none", atGate |-> FALSE,
            verdict |-> "done", target |-> "nothing", next |-> "rest"]

VARIABLES
  gh,       \* the durable state in each issue
  labels,   \* the lifecycle labels of each issue
  optin,    \* the stable opt-in label of each issue
  dev,      \* the issues that have a live developer session
  run,      \* the coordinator's memory
  cut,      \* history: issues at work whose label change broke off with no active label
  failures, meddling

vars == <<gh, labels, optin, dev, run, cut, failures, meddling>>
bounds == <<failures, meddling>>
github == <<gh, labels, optin>>

TypeOK ==
  /\ gh \in [Issues -> State]
  /\ labels \in [Issues -> SUBSET Lifecycle]
  /\ optin \in [Issues -> BOOLEAN]
  /\ dev \subseteq Issues /\ run \in Memory /\ cut \subseteq Issues
  /\ failures \in 0..MaxFailures /\ meddling \in 0..MaxMeddling

\* Operators have queued every issue and opted it in.
Init ==
  /\ gh = [i \in Issues |-> NoState]
  /\ labels = [i \in Issues |-> {"work"}]
  /\ optin = [i \in Issues |-> TRUE]
  /\ dev = {}
  /\ run = Resting /\ cut = {}
  /\ failures = 0 /\ meddling = 0
----------------------------------------------------------------------------
(* What a pass reads.                                                      *)

\* Mutant of Active: issues under review are not looked for.
ActiveUnreviewed == {i \in Issues : \/ "active" \in labels[i]
                                    \/ "work" \in labels[i] /\ gh[i].phase \in Working}

\* list_active: by label, and among the ready ones by state.
Active == {i \in Issues : \/ labels[i] \cap {"active", "review"} # {}
                          \/ "work" \in labels[i] /\ gh[i].phase \in Working}

\* list_ready.
Ready == {i \in Issues : "work" \in labels[i] /\ optin[i] /\ gh[i].phase \in {"none", "queued"}}

\* An issue at work that no pass would find.
Unlisted == {i \in Issues : gh[i].phase \in Working} \ Active
----------------------------------------------------------------------------
(* Steps of the coordinator.                                               *)

At(pc) == run.pc = pc
Cur == run.cur
Mine == gh[Cur]
Goto(pc) == run' = [run EXCEPT !.pc = pc]
Verdict(v) == run' = [run EXCEPT !.pc = "stop", !.verdict = v]

\* An error that nobody on the way handles ends the pass.
Propagate == run' = Resting

\* run_work's handler escalates what this run holds; resume_work has none.
Fail ==
  IF run.driver = "work" /\ Mine.phase \notin Terminal \cup {"none"}
  THEN Verdict("escalated") ELSE Propagate

\* The state is saved, then its labels follow.
Saved(state, target, next) ==
  /\ gh' = [gh EXCEPT ![Cur] = state]
  /\ run' = [run EXCEPT !.pc = "labels", !.target = target, !.next = next]

\* _apply_state_labels: a terminal item with an unconfirmed developer stays
\* on the active label.
StateLabel(state) ==
  IF state.phase \in Terminal /\ state.turn # "none" /\ ~state.stopped
  THEN "active" ELSE PhaseLabel(state.phase)

Transition(state, next) == Saved(state, StateLabel(state), next)

\* _apply_phase_labels: the first label in the order that is wrong.
Wrong == {l \in Lifecycle : (l = run.target) # (l \in labels[Cur])}
ChangeLabel ==
  /\ At("labels")
  /\ \E l \in Wrong :
       /\ \A m \in Wrong : Order[l] <= Order[m]
       /\ labels' = [labels EXCEPT ![Cur] = IF l = run.target THEN @ \cup {l} ELSE @ \ {l}]
  /\ UNCHANGED <<gh, optin, dev, run, cut, bounds>>

LabelsDone ==
  /\ At("labels") /\ Wrong = {}
  /\ IF run.next = "rest" THEN Propagate ELSE Goto(run.next)
  /\ cut' = cut \ {Cur}
  /\ UNCHANGED <<github, dev, bounds>>

\* What a broken label change leaves behind.
Broken == IF At("labels") THEN cut \cup (Unlisted \cap {Cur}) ELSE cut
----------------------------------------------------------------------------
(* A pass: ContinuousForeman.step.                                         *)

\* _resume of the one active issue.  A terminal one has its labels repaired; an
\* expired lease is reclaimed first, which applies the labels of the phase again.
ResumeActive(i) ==
  /\ At("rest") /\ Active = {i}
  /\ LET resumed == [Resting EXCEPT !.cur = i, !.driver = "resume", !.pc = "resume"]
         repair(label, next) ==
           run' = [resumed EXCEPT !.pc = "labels", !.target = label, !.next = next]
     IN \/ gh[i].phase \in Terminal /\ repair(StateLabel(gh[i]), "rest")
        \/ /\ gh[i].phase \notin Terminal
           /\ run' = resumed \/ repair(PhaseLabel(gh[i].phase), "resume")
  /\ UNCHANGED <<github, dev, cut, bounds>>

\* _process_ready, with nothing active.
ListReady ==
  /\ At("rest") /\ Active = {} /\ Ready # {}
  /\ run' = [Resting EXCEPT !.pc = "ready", !.todo = Ready]
  /\ UNCHANGED <<github, dev, cut, bounds>>

\* The next of the list, in the order of the numbers.
StartNext ==
  /\ At("ready")
  /\ \/ run.todo = {} /\ Propagate
     \/ \E i \in run.todo :
          /\ \A j \in run.todo : i <= j
          /\ run' = [run EXCEPT !.pc = "claim", !.cur = i, !.todo = @ \ {i}, !.driver = "work",
                                !.atGate = gh[i].phase = "queued" /\ gh[i].pr]
  /\ UNCHANGED <<github, dev, cut, bounds>>

\* Mutant of EndDrive: every outcome ends the pass.
EndDriveAlways ==
  /\ At("out") /\ Propagate
  /\ UNCHANGED <<github, dev, cut, bounds>>

\* Only an item that waits for its CI lets the pass go on.
EndDrive ==
  /\ At("out")
  /\ IF run.driver = "work" /\ run.verdict = "queued"
     THEN run' = [Resting EXCEPT !.pc = "ready", !.todo = run.todo]
     ELSE Propagate
  /\ UNCHANGED <<github, dev, cut, bounds>>
----------------------------------------------------------------------------
(* A drive: run_work and resume_work.                                      *)

\* An issue whose author is not trusted is rejected, one opted out since it
\* was listed is refused, any other one is claimed with its history.
Claim ==
  /\ At("claim")
  /\ \/ /\ Mine.phase = "none"
        /\ gh' = [gh EXCEPT ![Cur] = [NoState EXCEPT !.phase = "escalated"]]
        /\ run' = [run EXCEPT !.pc = "labels", !.target = "needs_human", !.next = "out",
                              !.verdict = "escalated"]
     \/ optin[Cur] /\ Saved([Mine EXCEPT !.phase = "claiming"], "active", "acquire")
     \/ ~optin[Cur] /\ Fail /\ UNCHANGED gh
  /\ UNCHANGED <<labels, optin, dev, cut, bounds>>

\* _acquire_checkout; an item with a pull request goes on at its gate.  (The
\* checkout of a requeued item may be gone: GiveUp.)
Acquire ==
  /\ At("acquire")
  /\ IF run.atGate THEN Goto("gate") /\ UNCHANGED gh
     ELSE gh' = [gh EXCEPT ![Cur].worktree = TRUE] /\ Goto("code")
  /\ UNCHANGED <<labels, optin, dev, cut, bounds>>

\* resume_work: what the phase needs must be there.
Recoverable(s) ==
  /\ s.phase \in {"ci_gating", "updating_pr"} \/ s.worktree
  /\ s.phase = "coding" => s.turn # "none"
  /\ s.phase = "reviewing" => s.wave

ResumeWork ==
  /\ At("resume")
  /\ IF ~Recoverable(Mine) THEN Propagate
     ELSE IF ~optin[Cur] THEN Verdict("cancelled")
     ELSE IF Mine.phase \in {"ci_gating", "updating_pr"}
     THEN run' = [run EXCEPT !.pc = "gate", !.atGate = TRUE]
     ELSE Goto(IF Mine.phase = "reviewing" THEN "wave" ELSE "code")
  /\ UNCHANGED <<github, dev, cut, bounds>>

\* _coder_attempt: collect the turn of an interrupted drive, or begin one.
Code ==
  /\ At("code")
  /\ \/ /\ Mine.phase = "coding" /\ UNCHANGED gh
        /\ CASE Mine.turn = "done" -> Goto("review")
             [] Mine.turn = "sent" -> IF Cur \in dev THEN Goto("work") ELSE Fail
             [] OTHER -> Verdict("escalated")
     \/ /\ Mine.phase # "coding"
        /\ Transition([Mine EXCEPT !.phase = "coding",
                         !.turn = IF @ = "none" THEN @ ELSE "old"], "dispatch")
  /\ UNCHANGED <<labels, optin, dev, cut, bounds>>

\* _prepare_worker_turn: the intent, which takes the confirmation back.
Dispatch ==
  /\ At("dispatch")
  /\ IF optin[Cur]
     THEN /\ gh' = [gh EXCEPT ![Cur].turn = "sent", ![Cur].stopped = FALSE]
          /\ Goto("launch")
     ELSE Verdict("cancelled") /\ UNCHANGED gh
  /\ UNCHANGED <<labels, optin, dev, cut, bounds>>

Launch ==
  /\ At("launch")
  /\ dev' = dev \cup {Cur} /\ Goto("work")
  /\ UNCHANGED <<github, cut, bounds>>

\* The turn's result is recorded.  A forbidden edit fails the run.
Work ==
  /\ At("work")
  /\ gh' = [gh EXCEPT ![Cur].turn = "done"]
  /\ Goto("review") \/ Verdict("failed")
  /\ UNCHANGED <<labels, optin, dev, cut, bounds>>

\* _begin_review_round.
Review ==
  /\ At("review")
  /\ IF Mine.round >= MaxRounds
     THEN Verdict("escalated") /\ UNCHANGED gh
     ELSE Transition([Mine EXCEPT !.phase = "reviewing", !.round = @ + 1, !.wave = FALSE],
                     "plan")
  /\ UNCHANGED <<labels, optin, dev, cut, bounds>>

Plan ==
  /\ At("plan")
  /\ IF optin[Cur]
     THEN gh' = [gh EXCEPT ![Cur].wave = TRUE] /\ Goto("wave")
     ELSE Verdict("cancelled") /\ UNCHANGED gh
  /\ UNCHANGED <<labels, optin, dev, cut, bounds>>

\* The reviewers leave findings, or a clean head, or nothing was changed.
Wave ==
  /\ At("wave")
  /\ Goto("code") \/ Goto("gate") \/ Verdict("done")
  /\ UNCHANGED <<github, dev, cut, bounds>>

Gate ==
  /\ At("gate")
  /\ Transition([Mine EXCEPT !.phase = "ci_gating"], "evaluate")
  /\ UNCHANGED <<labels, optin, dev, cut, bounds>>

\* _evaluate_gate and _settle_gate: CI passed, is pending (for too long), or
\* failed; nothing is repaired without the checkout of this drive.
Evaluate ==
  /\ At("evaluate")
  /\ IF ~optin[Cur] THEN Verdict("cancelled") /\ UNCHANGED gh
     ELSE \/ /\ gh' = [gh EXCEPT ![Cur].pr = TRUE, ![Cur].phase = "updating_pr"]
             /\ run' = [run EXCEPT !.pc = "labels", !.target = "active", !.next = "stop",
                                   !.verdict = "done"]
          \/ /\ gh' = [gh EXCEPT ![Cur].pr = TRUE]
             /\ \/ Verdict("queued") \/ Verdict("escalated")
                \/ ~run.atGate /\ Goto("code")
  /\ UNCHANGED <<labels, optin, dev, cut, bounds>>

\* Budgets, the deadline, a moved head, an invalid report.
GiveUp ==
  /\ run.pc \in {"acquire", "code", "work", "review", "plan", "wave", "gate"}
  /\ Verdict("escalated")
  /\ UNCHANGED <<github, dev, cut, bounds>>

\* _confirm_lanes_stopped, unless a stop is on record.
StopLanes ==
  /\ At("stop")
  /\ IF Mine.stopped THEN Goto("settle") /\ UNCHANGED dev
     ELSE dev' = dev \ {Cur} /\ Goto("stopped")
  /\ UNCHANGED <<github, cut, bounds>>

RecordStopped ==
  /\ At("stopped")
  /\ gh' = [gh EXCEPT ![Cur].stopped = TRUE] /\ Goto("settle")
  /\ UNCHANGED <<labels, optin, dev, cut, bounds>>

\* The verdict, which is a cancellation when the issue was opted out.
Settle ==
  /\ At("settle")
  /\ LET verdict == IF run.verdict = "escalated" /\ ~optin[Cur]
                    THEN "cancelled" ELSE run.verdict
     IN Transition([Mine EXCEPT !.phase = verdict], "out")
  /\ UNCHANGED <<labels, optin, dev, cut, bounds>>
----------------------------------------------------------------------------
(* Failures and operators.                                                 *)

Fault == failures < MaxFailures /\ failures' = failures + 1 /\ UNCHANGED meddling

Crash ==
  /\ Fault /\ ~At("rest")
  /\ cut' = Broken /\ Propagate
  /\ UNCHANGED <<github, dev>>

\* A label request fails: inside a drive this is a LabelSyncError.
LabelFails ==
  /\ Fault /\ At("labels") /\ Wrong # {}
  /\ cut' = Broken
  /\ IF run.next \in {"rest", "resume"} THEN Propagate ELSE Fail
  /\ UNCHANGED <<github, dev>>

\* An issue whose author cannot be read counts as revoked.
AuthorUnread ==
  /\ Fault /\ run.pc \in {"resume", "dispatch", "plan", "evaluate"}
  /\ Verdict("cancelled")
  /\ UNCHANGED <<github, dev, cut>>

\* Any other request of GitHub or git.
RequestFails ==
  /\ Fault
  /\ run.pc \in {"claim", "acquire", "code", "dispatch", "review", "plan", "stopped", "settle"}
  /\ Fail \/ (run.pc \in {"stopped", "settle"} /\ Propagate)
  /\ UNCHANGED <<github, dev, cut>>

\* A launch or a stop is uncertain, the pull request cannot be reconciled:
\* the item stays as it is.
SessionFails ==
  /\ Fault /\ run.pc \in {"launch", "work", "stop", "evaluate"} /\ Propagate
  /\ \/ At("launch") /\ dev' = dev \cup {Cur}
     \/ At("stop") /\ ~Mine.stopped /\ dev' = dev \ {Cur}
     \/ UNCHANGED dev
  /\ UNCHANGED <<github, cut>>

Meddle == meddling < MaxMeddling /\ meddling' = meddling + 1 /\ UNCHANGED failures

OptOut(i) ==
  /\ Meddle /\ optin[i] /\ optin' = [optin EXCEPT ![i] = FALSE]
  /\ UNCHANGED <<gh, labels, dev, run, cut>>

\* Between passes: queue.cancel, and the confirmation it asks for.
Cancel(i) ==
  /\ Meddle /\ At("rest") /\ gh[i].phase \in Working
  /\ LET state == [gh[i] EXCEPT !.phase = "cancelled"]
     IN /\ gh' = [gh EXCEPT ![i] = state]
        /\ labels' = [labels EXCEPT ![i] = {StateLabel(state)} \ {"nothing"}]
  /\ UNCHANGED <<optin, dev, run, cut>>

Confirm(i) ==
  /\ At("rest") /\ gh[i].phase = "cancelled" /\ ~gh[i].stopped
  /\ gh' = [gh EXCEPT ![i].stopped = TRUE] /\ dev' = dev \ {i}
  /\ UNCHANGED <<labels, optin, run, cut, bounds>>

\* An escalated item goes back to the queue, a label is put by hand.
Requeue(i) ==
  /\ Meddle /\ At("rest") /\ gh[i].phase = "escalated"
  /\ gh' = [gh EXCEPT ![i].phase = "queued"]
  /\ labels' = [labels EXCEPT ![i] = {"work"}]
  /\ UNCHANGED <<optin, dev, run, cut>>

PutLabel(i) ==
  /\ Meddle /\ At("rest")
  /\ \E l \in {"work", "active"} \ labels[i] :
       /\ IF l = "work" THEN gh[i].phase \in Terminal ELSE i \in Unlisted
       /\ labels' = [labels EXCEPT ![i] = @ \cup {l}]
  /\ UNCHANGED <<gh, optin, dev, run, cut>>

Pass == (\E i \in Issues : ResumeActive(i)) \/ ListReady \/ StartNext \/ EndDrive
Drive == \/ Claim \/ Acquire \/ ResumeWork \/ Code \/ Dispatch \/ Launch \/ Work \/ Review
         \/ Plan \/ Wave \/ Gate \/ Evaluate \/ GiveUp \/ StopLanes \/ RecordStopped \/ Settle
Coordinator == Pass \/ Drive \/ ChangeLabel \/ LabelsDone
Failure == Crash \/ LabelFails \/ AuthorUnread \/ RequestFails \/ SessionFails
Outside == \E i \in Issues : \/ OptOut(i) \/ Cancel(i) \/ Confirm(i)
                             \/ Requeue(i) \/ PutLabel(i)

Next == Coordinator \/ Failure \/ Outside
Spec == Init /\ [][Next]_vars

\* The service polls for ever.  Nothing is assumed of CI or of the timeout.
FairSpec == Spec /\ WF_vars(Coordinator)
----------------------------------------------------------------------------
\* One developer issue runs at a time (docs/V3_FOREMAN.md): two issues have a
\* live developer session only if the label change of one of them broke off
\* between the removal of its old label and the addition of its active one
\* (_apply_phase_labels), so that list_active did not find it.
OneDeveloper == \A i, j \in dev : i # j => {i, j} \cap cut # {}

\* An issue that waits for its CI does not hold the developer slot
\* (ContinuousForeman._process_ready): with no failure and no operator about,
\* every ready issue is taken up in the end, and every one
\* that waits for CI is polled again, even if CI never reports on another.
EveryReadyServed ==
  \A i \in Issues :
    (i \in Ready) ~> (i \notin Ready \/ failures + meddling > 0)
=============================================================================
