-------------------------- MODULE SchedulingProofs --------------------------
(***************************************************************************)
(* One developer at a time, for any set of issues and any bounds: the      *)
(* labels that a drive leaves behind show whatever it left running, except *)
(* where a label change broke off.                                         *)
(***************************************************************************)
EXTENDS Scheduling, TLAPS

\* A live developer belongs to an issue at work, or to one cancelled without
\* confirmation; its dispatch is on record, and no stop is.
DevelopersRecorded ==
  \A i \in dev : /\ gh[i].phase \in Working \cup {"cancelled"}
                 /\ gh[i].turn # "none" /\ ~gh[i].stopped

Found == Active \cup cut
Driving == ~At("rest") /\ ~At("ready")

\* Between passes every developer can be found; in a pass only the issue at
\* hand has one.
SlotKnown ==
  /\ At("rest") => dev \subseteq Found /\ OneDeveloper
  /\ ~At("rest") => dev \subseteq cut \cup {Cur}
  /\ At("ready") => Cur = 0
  /\ Driving => Cur \in Issues

\* Where a drive has stopped its developer.
Released == At("stopped") \/ At("settle") \/ At("out") \/ (At("labels") /\ run.next = "out")

\* What each step knows of the issue at hand.
StepKnows ==
  /\ Released => Cur \notin dev
  /\ Driving /\ ~At("labels") /\ (Cur \in dev \/ At("dispatch") \/ At("launch"))
       => Cur \in Found
  /\ At("dispatch") => Mine.phase = "coding"
  /\ At("launch") => Mine.phase = "coding" /\ Mine.turn = "sent" /\ ~Mine.stopped

\* What a label change knows of it.
LabelsKnow ==
  At("labels") =>
    /\ run.next = "rest" /\ Cur \in dev =>
         /\ gh[Cur].phase = "cancelled" /\ run.target = "active"
         /\ labels[Cur] \cap {"active", "review"} # {}
    /\ run.next \notin {"rest", "out"} /\ Cur \in dev =>
         Mine.phase \in Working /\ run.target \in {"active", "review"}
    /\ run.next = "dispatch" => Mine.phase = "coding" /\ run.target = "active"
    /\ run.next \notin {"launch", "labels", "ready", "stopped", "settle"}

Known == SlotKnown /\ StepKnows /\ LabelsKnow
SlotInv == TypeOK /\ DevelopersRecorded /\ Known

LEMMA InitSlot == Init => SlotInv
<1> SUFFICES ASSUME Init PROVE SlotInv
  OBVIOUS
<1>1. NoState \in State /\ Resting \in Memory
  BY SchedulingAssumption
  DEF State, NoState, Phases, Turns, Memory, Resting, Steps, Terminal
<1>2. {"work"} \in SUBSET Lifecycle
  BY DEF Lifecycle, Order
<1>3. TypeOK
  BY <1>1, <1>2, SchedulingAssumption DEF Init, TypeOK
<1>4. DevelopersRecorded /\ Known
  BY DEF Init, DevelopersRecorded, Known, SlotKnown, StepKnows, LabelsKnow, Driving, Released, At,
         Found, Resting, OneDeveloper
<1> QED
  BY <1>3, <1>4 DEF SlotInv

LEMMA LifecycleIs == Lifecycle = {"work", "active", "review", "needs_human", "done", "error"}
  BY DEF Lifecycle, Order

\* What a step may make of the memory.
LEMMA MemoryOf ==
  ASSUME TypeOK
  PROVE  /\ Resting \in Memory
         /\ \A pc \in Steps : [run EXCEPT !.pc = pc] \in Memory
         /\ \A v \in Terminal \cup {"queued"} :
              [run EXCEPT !.pc = "stop", !.verdict = v] \in Memory
         /\ \A t \in Lifecycle \cup {"nothing"}, n \in Steps :
              [run EXCEPT !.pc = "labels", !.target = t, !.next = n] \in Memory
<1> run \in Memory
  BY DEF TypeOK
<1>1. {"rest", "stop", "labels"} \subseteq Steps /\ "done" \in Terminal
  BY DEF Steps, Terminal
<1>2. Resting \in Memory
  BY <1>1 DEF Memory, Resting
<1>3. \A pc \in Steps : [run EXCEPT !.pc = pc] \in Memory
  BY DEF Memory
<1>4. \A v \in Terminal \cup {"queued"} : [run EXCEPT !.pc = "stop", !.verdict = v] \in Memory
  BY <1>1 DEF Memory
<1>5. \A t \in Lifecycle \cup {"nothing"}, n \in Steps :
        [run EXCEPT !.pc = "labels", !.target = t, !.next = n] \in Memory
  BY <1>1 DEF Memory
<1> QED
  BY <1>2, <1>3, <1>4, <1>5

\* The labels that belong to a phase.
LEMMA LabelTypes ==
  /\ \A phase : PhaseLabel(phase) \in Lifecycle \cup {"nothing"}
  /\ \A state : StateLabel(state) \in Lifecycle \cup {"nothing"}
  /\ \A phase \in Working : PhaseLabel(phase) \in {"active", "review"}
<1>1. \A phase : PhaseLabel(phase) \in Lifecycle \cup {"nothing"}
  BY LifecycleIs DEF PhaseLabel
<1>2. \A state : StateLabel(state) \in Lifecycle \cup {"nothing"}
  BY <1>1, LifecycleIs DEF StateLabel
<1>3. \A phase \in Working : PhaseLabel(phase) \in {"active", "review"}
  BY DEF PhaseLabel, Working
<1> QED
  BY <1>1, <1>2, <1>3

LEMMA TypeStep ==
  ASSUME TypeOK, Driving => Cur \in Issues, [Next]_vars
  PROVE  TypeOK'
<1> USE DEF TypeOK
<1>a. /\ "rest" \in Steps /\ "ready" \in Steps /\ "claim" \in Steps /\ "acquire" \in Steps
      /\ "resume" \in Steps /\ "code" \in Steps /\ "dispatch" \in Steps /\ "launch" \in Steps
      /\ "work" \in Steps /\ "review" \in Steps /\ "plan" \in Steps /\ "wave" \in Steps
      /\ "gate" \in Steps /\ "evaluate" \in Steps /\ "stop" \in Steps /\ "stopped" \in Steps
      /\ "settle" \in Steps /\ "out" \in Steps /\ "labels" \in Steps
  BY DEF Steps
<1>b. Terminal \subseteq Phases /\ Working \subseteq Phases /\ {"none", "queued"} \subseteq Phases
  BY DEF Phases
<1>c. ASSUME NEW state \in State, Cur \in Issues
      PROVE  [gh EXCEPT ![Cur] = state] \in [Issues -> State]
  BY <1>c
<1>d. Cur \in Issues => Mine \in State
  BY DEF Mine
<1>e. Propagate \/ (\E pc \in Steps : Goto(pc)) \/ (\E v \in Terminal \cup {"queued"} : Verdict(v))
        => run' \in Memory
  BY MemoryOf DEF Propagate, Goto, Verdict
<1>f. Fail => run' \in Memory
  BY <1>e DEF Fail, Terminal
<1>g. ASSUME NEW state, NEW target, NEW next, state \in State, next \in Steps, Cur \in Issues,
             target \in Lifecycle \cup {"nothing"}, Saved(state, target, next)
      PROVE  gh' \in [Issues -> State] /\ run' \in Memory
  BY <1>c, <1>g, MemoryOf DEF Saved
<1>h. ASSUME NEW state, NEW next, state \in State, next \in Steps, Cur \in Issues,
             Transition(state, next)
      PROVE  gh' \in [Issues -> State] /\ run' \in Memory
  BY <1>g, <1>h, LabelTypes DEF Transition
<1>i. Broken \subseteq Issues
  BY DEF Broken, Unlisted
<1>j. Fault => failures' \in 0 .. MaxFailures /\ meddling' \in 0 .. MaxMeddling
  BY SchedulingAssumption DEF Fault
<1>k. Meddle => failures' \in 0 .. MaxFailures /\ meddling' \in 0 .. MaxMeddling
  BY SchedulingAssumption DEF Meddle
<1>1. CASE Pass
  <2>1. ASSUME NEW i \in Issues, ResumeActive(i) PROVE TypeOK'
    <3> DEFINE resumed == [Resting EXCEPT !.cur = i, !.driver = "resume", !.pc = "resume"]
    <3>1. resumed \in Memory
      BY <1>a, MemoryOf DEF Memory
    <3>2. \A t \in Lifecycle \cup {"nothing"}, n \in Steps :
            [resumed EXCEPT !.pc = "labels", !.target = t, !.next = n] \in Memory
      BY <3>1, <1>a DEF Memory
    <3> HIDE DEF resumed
    <3>3. run' \in Memory
      <4>1. PICK t \in Lifecycle \cup {"nothing"}, n \in Steps :
              run' = resumed \/ run' = [resumed EXCEPT !.pc = "labels", !.target = t, !.next = n]
        BY <2>1, <1>a, LabelTypes DEF ResumeActive, resumed
      <4> QED
        BY <4>1, <3>1, <3>2
    <3> QED
      BY <2>1, <3>3 DEF ResumeActive, bounds, github
  <2>2. CASE ListReady
    BY <2>2, <1>a DEF ListReady, Memory, Resting, bounds, github, Ready, Terminal
  <2>3. CASE StartNext
    <3>1. ASSUME NEW i \in run.todo, NEW b \in BOOLEAN
          PROVE  [run EXCEPT !.pc = "claim", !.cur = i, !.todo = @ \ {i}, !.driver = "work",
                             !.atGate = b] \in Memory
      BY <1>a DEF Memory
    <3>2. CASE Propagate
      BY <3>2, <2>3, <1>e DEF StartNext, bounds, github
    <3>3. CASE ~Propagate
      <4>1. PICK i \in run.todo :
              run' = [run EXCEPT !.pc = "claim", !.cur = i, !.todo = @ \ {i}, !.driver = "work",
                                 !.atGate = gh[i].phase = "queued" /\ gh[i].pr]
        BY <2>3, <3>3 DEF StartNext
      <4>2. (gh[i].phase = "queued" /\ gh[i].pr) \in BOOLEAN
        OBVIOUS
      <4>3. run' \in Memory
        BY <4>1, <4>2, <3>1
      <4> QED
        BY <2>3, <4>3 DEF StartNext, bounds, github
    <3> QED
      BY <3>2, <3>3
  <2>4. CASE EndDrive
    <3>1. [Resting EXCEPT !.pc = "ready", !.todo = run.todo] \in Memory
      BY <1>a, MemoryOf DEF Memory
    <3> QED
      BY <2>4, <3>1, <1>e DEF EndDrive, bounds, github
  <2> QED
    BY <1>1, <2>1, <2>2, <2>3, <2>4 DEF Pass
<1>2. CASE Drive
  <2>0. Cur \in Issues
    BY <1>2 DEF Drive, Claim, Acquire, ResumeWork, Code, Dispatch, Launch, Work, Review, Plan,
                Wave, Gate, Evaluate, GiveUp, StopLanes, RecordStopped, Settle, Driving, At
  <2>s. Mine \in State
    BY <2>0, <1>d
  <2>1. CASE Claim
    <3>1. [NoState EXCEPT !.phase = "escalated"] \in State
      <4>1. NoState \in State
        BY SchedulingAssumption DEF State, NoState, Phases, Turns
      <4> QED
        BY <4>1, <1>b DEF State, Terminal
    <3>a. [Mine EXCEPT !.phase = "claiming"] \in State
      BY <2>s, <1>b DEF State, Working
    <3>2. gh' \in [Issues -> State] /\ run' \in Memory
      <4>1. CASE optin[Cur] /\ Saved([Mine EXCEPT !.phase = "claiming"], "active", "acquire")
        BY <4>1, <3>a, <2>0, <1>a, <1>g, LifecycleIs
      <4>2. CASE ~optin[Cur] /\ Fail /\ UNCHANGED gh
        BY <4>2, <1>f
      <4>3. CASE /\ gh' = [gh EXCEPT ![Cur] = [NoState EXCEPT !.phase = "escalated"]]
                 /\ run' = [run EXCEPT !.pc = "labels", !.target = "needs_human", !.next = "out",
                                       !.verdict = "escalated"]
        <5>1. run' \in Memory
          BY <4>3, <1>a, LifecycleIs DEF Memory, Terminal
        <5> QED
          BY <4>3, <5>1, <3>1, <2>0, <1>c
      <4> QED
        BY <2>1, <4>1, <4>2, <4>3 DEF Claim
    <3> QED
      BY <2>1, <3>2 DEF Claim, bounds
  <2>2. CASE Acquire
    <3>1. [gh EXCEPT ![Cur].worktree = TRUE] \in [Issues -> State]
      BY <2>0, <2>s DEF State
    <3> QED
      BY <2>2, <3>1, <1>a, <1>e DEF Acquire, bounds
  <2>3. CASE ResumeWork
    <3>1. [run EXCEPT !.pc = "gate", !.atGate = TRUE] \in Memory
      BY <1>a DEF Memory
    <3> QED
      BY <2>3, <3>1, <1>a, <1>e DEF ResumeWork, bounds, github, Terminal
  <2>4. CASE Code
    <3>1. [Mine EXCEPT !.phase = "coding", !.turn = IF @ = "none" THEN @ ELSE "old"] \in State
      BY <2>s, <1>b DEF State, Turns, Working
    <3>2. CASE Mine.phase # "coding"
      BY <2>4, <3>1, <3>2, <2>0, <1>a, <1>h DEF Code, bounds
    <3>3. CASE Mine.phase = "coding"
      <4>1. Goto("review") \/ Goto("work") \/ Fail \/ Verdict("escalated")
        BY <2>4, <3>3 DEF Code
      <4> QED
        BY <4>1, <2>4, <3>3, <1>a, <1>e, <1>f DEF Code, bounds, Terminal
    <3> QED
      BY <3>2, <3>3
  <2>5. CASE Dispatch
    BY <2>5, <2>0, <2>s, <1>a, <1>e DEF Dispatch, bounds, State, Turns, Terminal
  <2>6. CASE Launch
    BY <2>6, <2>0, <1>a, <1>e DEF Launch, bounds, github
  <2>7. CASE Work
    BY <2>7, <2>0, <2>s, <1>a, <1>e DEF Work, bounds, State, Turns, Terminal
  <2>8. CASE Review
    <3>1. CASE Mine.round >= MaxRounds
      BY <2>8, <3>1, <1>e DEF Review, bounds, Terminal
    <3>2. CASE ~(Mine.round >= MaxRounds)
      <4>1. Mine.round + 1 \in 0 .. MaxRounds
        BY <3>2, <2>s, SchedulingAssumption DEF State
      <4>2. [Mine EXCEPT !.phase = "reviewing", !.round = @ + 1, !.wave = FALSE] \in State
        BY <4>1, <2>s, <1>b DEF State, Working
      <4> QED
        BY <2>8, <3>2, <4>2, <2>0, <1>a, <1>h DEF Review, bounds
    <3> QED
      BY <3>1, <3>2
  <2>9. CASE Plan
    <3>1. [gh EXCEPT ![Cur].wave = TRUE] \in [Issues -> State]
      BY <2>0, <2>s DEF State
    <3> QED
      BY <2>9, <3>1, <1>a, <1>e DEF Plan, bounds, Terminal
  <2>10. CASE Wave
    BY <2>10, <1>a, <1>e DEF Wave, bounds, github, Terminal
  <2>11. CASE Gate
    <3>1. [Mine EXCEPT !.phase = "ci_gating"] \in State
      BY <2>s, <1>b DEF State, Working
    <3> QED
      BY <2>11, <3>1, <2>0, <1>a, <1>h DEF Gate, bounds
  <2>12. CASE Evaluate
    <3>1. [run EXCEPT !.pc = "labels", !.target = "active", !.next = "stop", !.verdict = "done"] \in Memory
      BY <1>a, LifecycleIs DEF Memory, Terminal
    <3>2. [gh EXCEPT ![Cur].pr = TRUE] \in [Issues -> State]
      BY <2>0, <2>s DEF State
    <3>3. [gh EXCEPT ![Cur].pr = TRUE, ![Cur].phase = "updating_pr"] \in [Issues -> State]
      BY <2>0, <2>s, <1>b DEF State, Working
    <3> QED
      BY <2>12, <3>1, <3>2, <3>3, <1>a, <1>e DEF Evaluate, bounds, Terminal
  <2>13. CASE GiveUp
    BY <2>13, <1>e DEF GiveUp, bounds, github, Terminal
  <2>14. CASE StopLanes
    BY <2>14, <1>a, <1>e DEF StopLanes, bounds, github
  <2>15. CASE RecordStopped
    BY <2>15, <2>0, <2>s, <1>a, <1>e DEF RecordStopped, bounds, State
  <2>16. CASE Settle
    <3> DEFINE verdict == IF run.verdict = "escalated" /\ ~optin[Cur]
                          THEN "cancelled" ELSE run.verdict
    <3>1. verdict \in Phases
      BY <1>b DEF Memory, Terminal
    <3>2. [Mine EXCEPT !.phase = verdict] \in State
      BY <3>1, <2>s DEF State
    <3>3. Transition([Mine EXCEPT !.phase = verdict], "out")
      BY <2>16 DEF Settle
    <3> HIDE DEF verdict
    <3> QED
      BY <2>16, <3>2, <3>3, <2>0, <1>a, <1>h DEF Settle, bounds
  <2> QED
    BY <1>2, <2>1, <2>2, <2>3, <2>4, <2>5, <2>6, <2>7, <2>8, <2>9, <2>10, <2>11, <2>12, <2>13,
       <2>14, <2>15, <2>16 DEF Drive
<1>3. CASE ChangeLabel
  <2>1. Cur \in Issues
    BY <1>3 DEF ChangeLabel, Driving, At
  <2>2. PICK l \in Lifecycle : labels' = [labels EXCEPT ![Cur] =
                                            IF l = run.target THEN @ \cup {l} ELSE @ \ {l}]
    BY <1>3 DEF ChangeLabel, Wrong
  <2>3. labels' \in [Issues -> SUBSET Lifecycle]
    BY <2>1, <2>2
  <2> QED
    BY <1>3, <2>3 DEF ChangeLabel, bounds
<1>4. CASE LabelsDone
  BY <1>4, <1>e DEF LabelsDone, bounds, github, Memory
<1>5. CASE Failure
  <2>1. CASE Crash
    BY <2>1, <1>e, <1>i, <1>j DEF Crash, github
  <2>2. CASE LabelFails
    BY <2>2, <1>e, <1>f, <1>i, <1>j DEF LabelFails, github
  <2>3. CASE AuthorUnread
    BY <2>3, <1>e, <1>j DEF AuthorUnread, github, Terminal
  <2>4. CASE RequestFails
    BY <2>4, <1>e, <1>f, <1>j DEF RequestFails, github
  <2>5. CASE SessionFails
    BY <2>5, <1>e, <1>j DEF SessionFails, github, Driving, At
  <2> QED
    BY <1>5, <2>1, <2>2, <2>3, <2>4, <2>5 DEF Failure
<1>6. CASE Outside
  <2>1. PICK i \in Issues : OptOut(i) \/ Cancel(i) \/ Confirm(i) \/ Requeue(i) \/ PutLabel(i)
    BY <1>6 DEF Outside
  <2>2. CASE OptOut(i)
    BY <2>2, <1>k DEF OptOut
  <2>3. CASE Cancel(i)
    <3>1. [gh[i] EXCEPT !.phase = "cancelled"] \in State
      BY <1>b DEF State, Terminal
    <3> QED
      BY <2>3, <3>1, <1>k, LabelTypes DEF Cancel
  <2>4. CASE Confirm(i)
    BY <2>4 DEF Confirm, bounds, State
  <2>5. CASE Requeue(i)
    BY <2>5, <1>k, <1>b, LifecycleIs DEF Requeue, State
  <2>6. CASE PutLabel(i)
    <3>1. PICK l \in {"work", "active"} : labels' = [labels EXCEPT ![i] = @ \cup {l}]
      BY <2>6 DEF PutLabel
    <3> QED
      BY <2>6, <3>1, <1>k, LifecycleIs DEF PutLabel
  <2> QED
    BY <2>1, <2>2, <2>3, <2>4, <2>5, <2>6
<1>7. CASE UNCHANGED vars
  BY <1>7 DEF vars
<1> QED
  BY <1>1, <1>2, <1>3, <1>4, <1>5, <1>6, <1>7 DEF Next, Coordinator
----------------------------------------------------------------------------
\* The issues that a pass finds are those of the same labels and phases.
LEMMA ActiveSame ==
  ASSUME UNCHANGED labels, \A i \in Issues : gh'[i].phase = gh[i].phase
  PROVE  Active' = Active
BY DEF Active

\* What has to be known of the issue at hand where the next step is a given one.
LEMMA KnownAtRest ==
  ASSUME run'.pc = "rest", NEW c, dev' \subseteq cut' \cup {c}, dev' \subseteq (Active \cup cut)'
  PROVE  Known'
<1>1. OneDeveloper'
  BY DEF OneDeveloper
<1> QED
  BY <1>1 DEF Known, SlotKnown, StepKnows, LabelsKnow, Found, Driving, Released, At

LEMMA KnownAtReady ==
  ASSUME run'.pc = "ready", run'.cur = 0, dev' \subseteq cut'
  PROVE  Known'
BY DEF Known, SlotKnown, StepKnows, LabelsKnow, Found, Driving, Released, At, Cur

LEMMA KnownInDrive ==
  ASSUME run'.pc \notin {"rest", "ready", "labels"}, run'.cur \in Issues,
         dev' \subseteq cut' \cup {run'.cur},
         run'.pc \in {"stopped", "settle", "out"} => run'.cur \notin dev',
         run'.cur \in dev' \/ run'.pc \in {"dispatch", "launch"}
           => run'.cur \in (Active \cup cut)',
         run'.pc \in {"dispatch", "launch"} => gh'[run'.cur].phase = "coding",
         run'.pc = "launch" => gh'[run'.cur].turn = "sent" /\ ~gh'[run'.cur].stopped
  PROVE  Known'
<1>1. SlotKnown'
  BY DEF SlotKnown, Driving, At, Cur
<1>2. StepKnows'
  BY DEF StepKnows, Found, Driving, Released, At, Cur, Mine
<1>3. LabelsKnow'
  BY DEF LabelsKnow, At
<1> QED
  BY <1>1, <1>2, <1>3 DEF Known

LEMMA KnownAtLabels ==
  ASSUME run'.pc = "labels", run'.cur \in Issues, dev' \subseteq cut' \cup {run'.cur},
         run'.next = "out" => run'.cur \notin dev',
         LabelsKnow'
  PROVE  Known'
BY DEF Known, SlotKnown, StepKnows, Released, Driving, At, Cur

\* A step may change what is recorded of one issue.
LEMMA RecordedStep ==
  ASSUME DevelopersRecorded, NEW c,
         \A i \in dev' : i # c => i \in dev /\ gh'[i] = gh[i],
         c \in dev' => /\ gh'[c].phase \in Working \cup {"cancelled"}
                       /\ gh'[c].turn # "none" /\ ~gh'[c].stopped
  PROVE  DevelopersRecorded'
BY DEF DevelopersRecorded

\* Whatever ends a pass now, what it leaves running is found, or on record as
\* left by a broken label change.
LEMMA Leaving ==
  ASSUME SlotInv, ~At("rest")
  PROVE  /\ dev \subseteq Active \cup Broken
         /\ dev \subseteq Broken \cup {Cur}
         /\ cut \subseteq Broken
         /\ ~At("labels") => Broken = cut
<1>1. cut \subseteq Broken /\ (~At("labels") => Broken = cut)
  BY DEF Broken
<1>2. dev \subseteq Issues /\ dev \subseteq cut \cup {Cur}
  BY DEF SlotInv, TypeOK, Known, SlotKnown
<1>3. ASSUME Cur \in dev PROVE Cur \in Active \cup Broken
  <2>1. Cur \in Issues /\ Driving
    BY <1>2, <1>3, SchedulingAssumption DEF SlotInv, Known, SlotKnown, Driving
  <2>2. CASE ~At("labels")
    BY <2>1, <2>2, <1>1, <1>3 DEF SlotInv, Known, StepKnows, Found
  <2>3. CASE At("labels") /\ run.next = "rest"
    BY <2>1, <2>3, <1>3 DEF SlotInv, Known, LabelsKnow, Active
  <2>4. CASE At("labels") /\ run.next = "out"
    BY <2>4, <1>3 DEF SlotInv, Known, StepKnows, Released
  <2>5. CASE At("labels") /\ run.next \notin {"rest", "out"}
    BY <2>1, <2>5, <1>3 DEF SlotInv, Known, LabelsKnow, Broken, Unlisted, Mine
  <2> QED
    BY <2>2, <2>3, <2>4, <2>5
<1> QED
  BY <1>1, <1>2, <1>3
----------------------------------------------------------------------------
LEMMA PassStep ==
  ASSUME SlotInv, Pass
  PROVE  DevelopersRecorded' /\ Known'
<1> USE DEF github, bounds
<1>1. UNCHANGED <<gh, labels, dev, cut>>
  BY DEF Pass, ResumeActive, ListReady, StartNext, EndDrive
<1>2. DevelopersRecorded' /\ Active' = Active
  BY <1>1, ActiveSame DEF SlotInv, DevelopersRecorded
<1>3. dev \subseteq Issues /\ run \in Memory
  BY DEF SlotInv, TypeOK
<1>4. ASSUME NEW i \in Issues, ResumeActive(i) PROVE Known'
  <2>1. dev \subseteq cut \cup {i} /\ Active = {i}
    BY <1>4 DEF ResumeActive, SlotInv, Known, SlotKnown, Found
  <2>2. PICK t, n :
          \/ /\ gh[i].phase \in Terminal /\ t = StateLabel(gh[i]) /\ n = "rest"
             /\ run'.pc = "labels" /\ run'.cur = i /\ run'.target = t /\ run'.next = n
          \/ /\ gh[i].phase \notin Terminal /\ run'.cur = i
             /\ \/ run'.pc = "resume"
                \/ /\ t = PhaseLabel(gh[i].phase) /\ n = "resume"
                   /\ run'.pc = "labels" /\ run'.target = t /\ run'.next = n
    BY <1>4 DEF ResumeActive, Resting
  <2>3. CASE run'.pc = "resume"
    BY <2>1, <2>2, <2>3, <1>1, <1>2, KnownInDrive
  <2>4. CASE run'.pc = "labels"
    <3>1. CASE gh[i].phase \in Terminal
      <4>1. ASSUME i \in dev PROVE /\ gh[i].phase = "cancelled" /\ t = "active"
                                   /\ labels[i] \cap {"active", "review"} # {}
        <5>1. gh[i].phase = "cancelled" /\ gh[i].turn # "none" /\ ~gh[i].stopped
          BY <4>1, <3>1 DEF SlotInv, DevelopersRecorded, Working, Terminal
        <5> QED
          BY <5>1, <3>1, <2>1, <2>2, <2>4 DEF StateLabel, Active, Working
      <4>2. LabelsKnow'
        BY <4>1, <3>1, <2>2, <2>4, <1>1 DEF LabelsKnow, At, Cur
      <4> QED
        BY <4>2, <3>1, <2>1, <2>2, <2>4, <1>1, KnownAtLabels
    <3>2. CASE gh[i].phase \notin Terminal
      <4>1. run'.cur = i /\ run'.next = "resume" /\ run'.target = PhaseLabel(gh[i].phase)
        BY <3>2, <2>2, <2>4
      <4>2. ASSUME i \in dev PROVE gh[i].phase \in Working /\ run'.target \in {"active", "review"}
        BY <4>2, <4>1, <3>2, LabelTypes DEF SlotInv, DevelopersRecorded, Terminal
      <4>3. LabelsKnow'
        BY <4>1, <4>2, <1>1 DEF LabelsKnow, At, Cur, Mine
      <4> QED
        BY <4>3, <4>1, <2>1, <2>4, <1>1, KnownAtLabels
    <3> QED
      BY <3>1, <3>2
  <2> QED
    BY <2>2, <2>3, <2>4
<1>5. CASE ListReady
  <2>1. dev \subseteq cut /\ run'.pc = "ready" /\ run'.cur = 0
    BY <1>5 DEF ListReady, Resting, SlotInv, Known, SlotKnown, Found
  <2> QED
    <3>1. dev' \subseteq cut'
      BY <2>1, <1>1
    <3> QED
      BY <2>1, <3>1, <1>2, KnownAtReady
<1>6. CASE StartNext
  <2>1. dev \subseteq cut
    BY <1>3, <1>6, SchedulingAssumption DEF StartNext, SlotInv, Known, SlotKnown, At
  <2>2. CASE Propagate
    BY <2>1, <2>2, <1>1, <1>2, KnownAtRest DEF Propagate, Resting
  <2>3. CASE ~Propagate
    <3>1. run.todo \subseteq Issues
      BY <1>3 DEF Memory
    <3>2. run'.pc = "claim" /\ run'.cur \in Issues
      BY ZenonT(40), <1>6, <2>3, <3>1, <1>3 DEF StartNext, Memory
    <3> QED
      BY <2>1, <3>2, <1>1, <1>2, KnownInDrive
  <2> QED
    BY <2>2, <2>3
<1>7. CASE EndDrive
  <2>1. dev \subseteq cut
    BY <1>7 DEF EndDrive, SlotInv, Known, SlotKnown, StepKnows, Released, At
  <2>2. run'.pc = "rest" \/ (run'.pc = "ready" /\ run'.cur = 0)
    <3>1. CASE run' = Resting
      BY <3>1 DEF Resting
    <3>2. CASE run' = [Resting EXCEPT !.pc = "ready", !.todo = run.todo]
      BY <3>2 DEF Resting
    <3> QED
      BY <1>7, <3>1, <3>2 DEF EndDrive, Propagate
  <2> QED
    BY <2>1, <2>2, <1>1, <1>2, KnownAtRest, KnownAtReady
<1> QED
  BY <1>2, <1>4, <1>5, <1>6, <1>7 DEF Pass

LEMMA LabelStep ==
  ASSUME SlotInv, ChangeLabel \/ LabelsDone
  PROVE  DevelopersRecorded' /\ Known'
<1> USE DEF github, bounds
<1>1. /\ At("labels") /\ Cur \in Issues /\ UNCHANGED <<gh, dev>>
      /\ dev \subseteq cut \cup {Cur} /\ run.target \in Lifecycle \cup {"nothing"}
      /\ run \in Memory
  BY DEF ChangeLabel, LabelsDone, SlotInv, TypeOK, Memory, Known, SlotKnown, Driving, At
<1>2. DevelopersRecorded'
  BY <1>1 DEF SlotInv, DevelopersRecorded
<1>3. LabelsKnow /\ (run.next = "out" => Cur \notin dev)
  BY <1>1 DEF SlotInv, Known, StepKnows, Released
<1>4. CASE ChangeLabel
  <2>1. UNCHANGED <<run, cut>>
    BY <1>4 DEF ChangeLabel
  <2>2. PICK l \in Wrong :
          /\ \A m \in Wrong : Order[l] <= Order[m]
          /\ labels' = [labels EXCEPT ![Cur] = IF l = run.target THEN @ \cup {l} ELSE @ \ {l}]
    BY <1>4 DEF ChangeLabel
  <2>3. labels'[Cur] = IF l = run.target THEN labels[Cur] \cup {l} ELSE labels[Cur] \ {l}
    BY <2>2, <1>1 DEF SlotInv, TypeOK
  <2>4. ASSUME run.target = "active", labels[Cur] \cap {"active", "review"} # {}
        PROVE  labels'[Cur] \cap {"active", "review"} # {}
    <3>1. CASE l = "active"
      BY <3>1, <2>3, <2>4
    <3>2. CASE l = "review"
      <4>1. "active" \notin Wrong
        BY <3>2, <2>2 DEF Order
      <4>2. "active" \in labels[Cur]
        BY <4>1, <2>4, LifecycleIs DEF Wrong
      <4> QED
        BY <4>2, <3>2, <2>3
    <3>3. CASE l \notin {"active", "review"}
      BY <3>3, <2>3, <2>4
    <3> QED
      BY <3>1, <3>2, <3>3
  <2>5. LabelsKnow'
    BY <2>1, <2>4, <1>1, <1>3 DEF LabelsKnow, At, Cur, Mine
  <2> QED
    BY <2>1, <2>5, <1>1, <1>2, <1>3, KnownAtLabels DEF At, Cur
<1>5. CASE LabelsDone
  <2>1. cut' = cut \ {Cur} /\ UNCHANGED labels /\ Wrong = {}
    BY <1>5 DEF LabelsDone
  <2>2. run.target \in Lifecycle => run.target \in labels[Cur]
    BY <2>1 DEF Wrong
  <2>3. Active' = Active
    BY <2>1, <1>1, ActiveSame
  <2>4. run.target \in {"active", "review"} => Cur \in Active
    BY <2>2, <1>1, LifecycleIs DEF Active
  <2>5. CASE run.next = "rest"
    <3>1. Cur \in dev => Cur \in Active
      BY <2>5, <1>1, <1>3 DEF LabelsKnow, Active
    <3>2. run'.pc = "rest"
      BY <1>5, <2>5 DEF LabelsDone, Propagate, Resting
    <3> QED
      BY <3>1, <3>2, <2>1, <2>3, <1>1, <1>2, KnownAtRest
  <2>6. CASE run.next # "rest"
    <3>1. run'.pc = run.next /\ run'.cur = Cur
      BY <1>1, <1>5, <2>6 DEF LabelsDone, Goto, Memory, Cur
    <3>2. run.next \notin {"rest", "launch", "labels", "ready", "stopped", "settle"}
      BY <1>1, <1>3, <2>6 DEF LabelsKnow
    <3>3. run.next = "dispatch" => Mine.phase = "coding" /\ run.target = "active"
      BY <1>1, <1>3 DEF LabelsKnow
    <3>4. Cur \in dev => run.target \in {"active", "review"}
      BY <1>1, <1>3, <2>6 DEF LabelsKnow
    <3>5. Cur \in dev \/ run.next = "dispatch" => Cur \in Active
      BY <3>3, <3>4, <2>4
    <3> QED
      BY <3>1, <3>2, <3>3, <3>5, <2>1, <2>3, <1>1, <1>2, <1>3, KnownInDrive DEF Mine
  <2> QED
    BY <2>5, <2>6
<1> QED
  BY <1>4, <1>5

LEMMA OutsideStep ==
  ASSUME SlotInv, Outside
  PROVE  DevelopersRecorded' /\ Known'
<1> USE DEF Meddle, bounds
<1>0. /\ gh \in [Issues -> State] /\ labels \in [Issues -> SUBSET Lifecycle]
      /\ dev \subseteq Issues /\ DevelopersRecorded
      /\ At("rest") => dev \subseteq Active \cup cut /\ OneDeveloper
  BY DEF SlotInv, TypeOK, Known, SlotKnown, Found
<1>1. PICK i \in Issues : OptOut(i) \/ Cancel(i) \/ Confirm(i) \/ Requeue(i) \/ PutLabel(i)
  BY DEF Outside
<1>2. CASE OptOut(i)
  <2>1. UNCHANGED <<gh, labels, dev, run, cut>>
    BY <1>2 DEF OptOut
  <2>2. Active' = Active
    BY <2>1, ActiveSame
  <2>3. SlotKnown'
    BY <2>1, <2>2 DEF SlotInv, Known, SlotKnown, Driving, At, Cur, Found, OneDeveloper
  <2>4. StepKnows'
    BY <2>1, <2>2 DEF SlotInv, Known, StepKnows, Released, Driving, At, Cur, Mine, Found
  <2>5. LabelsKnow'
    BY <2>1 DEF SlotInv, Known, LabelsKnow, At, Cur, Mine
  <2> QED
    BY <2>1, <2>3, <2>4, <2>5, <1>0 DEF Known, DevelopersRecorded
<1>3. ASSUME At("rest"), UNCHANGED <<run, cut>>, dev' \subseteq dev,
             dev' \subseteq (Active \cup cut)'
      PROVE  Known'
  <2>1. OneDeveloper'
    BY <1>0, <1>3 DEF OneDeveloper
  <2> QED
    BY <2>1, <1>3 DEF Known, SlotKnown, StepKnows, LabelsKnow, Found, Driving, Released, At
<1>4. CASE Cancel(i)
  <2>1. /\ At("rest") /\ UNCHANGED <<dev, run, cut>>
        /\ gh' = [gh EXCEPT ![i].phase = "cancelled"]
        /\ labels' = [labels EXCEPT ![i] =
                        {StateLabel([gh[i] EXCEPT !.phase = "cancelled"])} \ {"nothing"}]
    BY <1>4, <1>0 DEF Cancel
  <2>2. /\ gh'[i].phase = "cancelled" /\ gh'[i].turn = gh[i].turn
        /\ gh'[i].stopped = gh[i].stopped
        /\ \A j \in Issues : j # i => gh'[j] = gh[j] /\ labels'[j] = labels[j]
    BY <2>1, <1>0 DEF State
  <2>3. DevelopersRecorded'
    BY <2>1, <2>2, <1>0, RecordedStep DEF DevelopersRecorded
  <2>4. i \in dev => "active" \in labels'[i]
    <3>1. i \in dev => StateLabel([gh[i] EXCEPT !.phase = "cancelled"]) = "active"
      BY <1>0 DEF DevelopersRecorded, StateLabel, Terminal, State
    <3> QED
      BY <3>1, <2>1, <1>0
  <2>5. dev' \subseteq (Active \cup cut)'
    BY <2>1, <2>2, <2>4, <1>0 DEF Active
  <2> QED
    BY <2>1, <2>3, <2>5, <1>3
<1>5. CASE Confirm(i)
  <2>1. /\ At("rest") /\ UNCHANGED <<labels, run, cut>> /\ dev' = dev \ {i}
        /\ gh' = [gh EXCEPT ![i].stopped = TRUE]
    BY <1>5 DEF Confirm
  <2>2. \A j \in Issues : (j # i => gh'[j] = gh[j]) /\ gh'[j].phase = gh[j].phase
    BY <2>1, <1>0 DEF State
  <2>3. DevelopersRecorded' /\ Active' = Active
    BY <2>1, <2>2, <1>0, RecordedStep, ActiveSame
  <2> QED
    BY <2>1, <2>3, <1>0, <1>3
<1>6. CASE Requeue(i)
  <2>1. /\ At("rest") /\ UNCHANGED <<dev, run, cut>> /\ i \notin dev
        /\ gh' = [gh EXCEPT ![i].phase = "queued"]
        /\ labels' = [labels EXCEPT ![i] = {"work"}]
    BY <1>6, <1>0 DEF Requeue, DevelopersRecorded, Working
  <2>2. \A j \in Issues : j # i => gh'[j] = gh[j] /\ labels'[j] = labels[j]
    BY <2>1, <1>0
  <2>3. DevelopersRecorded' /\ dev' \subseteq (Active \cup cut)'
    BY <2>1, <2>2, <1>0, RecordedStep DEF Active
  <2> QED
    BY <2>1, <2>3, <1>3
<1>7. CASE PutLabel(i)
  <2>1. At("rest") /\ UNCHANGED <<gh, dev, run, cut>>
    BY <1>7 DEF PutLabel
  <2>2. \A j \in Issues : labels[j] \subseteq labels'[j]
    BY <1>7, <1>0 DEF PutLabel
  <2>3. Active \subseteq Active'
    BY <2>1, <2>2 DEF Active
  <2>4. DevelopersRecorded'
    BY <2>1, <1>0 DEF DevelopersRecorded
  <2> QED
    BY <2>1, <2>3, <2>4, <1>0, <1>3
<1> QED
  BY <1>1, <1>2, <1>4, <1>5, <1>6, <1>7

LEMMA DriveStep ==
  ASSUME SlotInv, Drive
  PROVE  DevelopersRecorded' /\ Known'
<1> USE DEF github, bounds
<1>1. /\ Driving /\ ~At("labels") /\ Cur \in Issues /\ UNCHANGED <<labels, cut>>
      /\ run \in Memory /\ gh \in [Issues -> State] /\ Mine \in State /\ Mine = gh[Cur]
      /\ dev \subseteq cut \cup {Cur} /\ DevelopersRecorded
      /\ Released \/ Mine.stopped => Cur \notin dev
      /\ Cur \in dev \/ At("dispatch") \/ At("launch") => Cur \in Active \cup cut
  <2>1. Driving /\ ~At("labels") /\ UNCHANGED <<labels, cut>>
    BY DEF Drive, Claim, Acquire, ResumeWork, Code, Dispatch, Launch, Work, Review, Plan,
           Wave, Gate, Evaluate, GiveUp, StopLanes, RecordStopped, Settle, Driving, At
  <2>2. Cur \in Issues /\ dev \subseteq cut \cup {Cur}
    BY <2>1 DEF SlotInv, Known, SlotKnown, Driving
  <2> QED
    BY <2>1, <2>2 DEF SlotInv, TypeOK, DevelopersRecorded, Known, StepKnows, Found, Mine
\* The state keeps its phase, its dispatch and its developer.
<1>2. ASSUME dev' \subseteq dev, \A i \in Issues : i # Cur => gh'[i] = gh[i],
             gh'[Cur].phase = Mine.phase, gh'[Cur].stopped = Mine.stopped,
             Mine.turn # "none" => gh'[Cur].turn # "none"
      PROVE  DevelopersRecorded' /\ Active' = Active
  <2>1. Active' = Active
    BY <1>1, <1>2, ActiveSame
  <2>2. dev' \subseteq Issues
    BY <1>2 DEF SlotInv, TypeOK
  <2> QED
    BY <1>1, <1>2, <2>1, <2>2, RecordedStep DEF DevelopersRecorded
\* The drive goes on, or gives up.
<1>3. ASSUME Active' = Active, dev' \subseteq dev,
             \/ \E pc \in Steps \ {"rest", "ready", "labels", "dispatch", "launch", "stopped",
                                    "settle", "out"} : Goto(pc)
             \/ \E v : Verdict(v)
             \/ run'.pc = "gate" /\ run'.cur = Cur
             \/ Propagate
      PROVE  Known'
  <2>1. CASE Propagate
    BY <2>1, <1>1, <1>3, KnownAtRest DEF Propagate, Resting
  <2>2. CASE ~Propagate
    <3>1. /\ run'.cur = Cur
          /\ run'.pc \notin {"rest", "ready", "labels", "dispatch", "launch", "stopped",
                             "settle", "out"}
      BY <2>2, <1>1, <1>3 DEF Goto, Verdict, Memory, Cur
    <3> QED
      BY <3>1, <1>1, <1>3, KnownInDrive
  <2> QED
    BY <2>1, <2>2
<1>4. Fail => Propagate \/ (\E v : Verdict(v))
  BY DEF Fail
\* A transition of an issue that may be at work.
<1>5. ASSUME NEW state \in State, NEW target, NEW next \in Steps \ {"out", "rest"},
             Saved(state, target, next), UNCHANGED dev,
             target \in {"active", "review"}, state.phase \in Working,
             state.stopped = Mine.stopped, Mine.turn # "none" => state.turn # "none",
             next = "dispatch" => state.phase = "coding" /\ target = "active",
             next \notin {"launch", "labels", "ready", "stopped", "settle"}
      PROVE  DevelopersRecorded' /\ Known'
  <2>1. gh'[Cur] = state /\ \A i \in Issues : i # Cur => gh'[i] = gh[i]
    BY <1>1, <1>5 DEF Saved
  <2>2. dev \subseteq Issues
    BY DEF SlotInv, TypeOK
  <2>3. DevelopersRecorded'
    BY <1>1, <1>5, <2>1, <2>2, RecordedStep DEF DevelopersRecorded
  <2>4. run'.pc = "labels" /\ run'.cur = Cur /\ run'.target = target /\ run'.next = next
    BY <1>1, <1>5 DEF Saved, Memory, Cur
  <2>5. LabelsKnow'
    BY <1>5, <2>1, <2>4 DEF LabelsKnow, At, Cur, Mine
  <2> QED
    BY <2>3, <2>4, <2>5, <1>1, <1>5, KnownAtLabels
\* A transition of an issue that has no developer.
<1>6. ASSUME NEW state, run'.pc = "labels", run'.cur = Cur, run'.next = "out", UNCHANGED dev,
             gh' = [gh EXCEPT ![Cur] = state], Cur \notin dev
      PROVE  DevelopersRecorded' /\ Known'
  <2>1. \A i \in Issues : i # Cur => gh'[i] = gh[i]
    BY <1>1, <1>6
  <2>2. dev \subseteq Issues
    BY DEF SlotInv, TypeOK
  <2>3. DevelopersRecorded'
    BY <1>1, <1>6, <2>1, <2>2, RecordedStep
  <2>4. LabelsKnow'
    BY <1>6 DEF LabelsKnow, At, Cur
  <2> QED
    BY <2>3, <2>4, <1>1, <1>6, KnownAtLabels
<1>11. CASE Claim
  <2>1. UNCHANGED dev
    BY <1>11 DEF Claim
  <2>2. CASE optin[Cur] /\ Saved([Mine EXCEPT !.phase = "claiming"], "active", "acquire")
    <3>1. /\ [Mine EXCEPT !.phase = "claiming"] \in State
          /\ [Mine EXCEPT !.phase = "claiming"].phase \in Working
      BY <1>1 DEF State, Phases, Working
    <3> QED
      BY <2>1, <2>2, <3>1, <1>1, <1>5 DEF State, Steps
  <2>3. CASE ~optin[Cur] /\ Fail /\ UNCHANGED gh
    BY <2>1, <2>3, <1>1, <1>2, <1>3, <1>4
  <2>4. CASE /\ Mine.phase = "none"
             /\ gh' = [gh EXCEPT ![Cur] = [NoState EXCEPT !.phase = "escalated"]]
             /\ run' = [run EXCEPT !.pc = "labels", !.target = "needs_human", !.next = "out",
                                   !.verdict = "escalated"]
    <3>1. Cur \notin dev
      BY <2>4, <1>1 DEF DevelopersRecorded, Working
    <3>2. run'.pc = "labels" /\ run'.cur = Cur /\ run'.next = "out"
      BY <2>4, <1>1 DEF Memory, Cur
    <3> QED
      BY <2>1, <2>4, <3>1, <3>2, <1>6
  <2> QED
    BY <1>11, <2>2, <2>3, <2>4 DEF Claim
<1>12. CASE Acquire
  <2>1. /\ UNCHANGED dev /\ \A i \in Issues : i # Cur => gh'[i] = gh[i]
        /\ gh'[Cur].phase = Mine.phase /\ gh'[Cur].stopped = Mine.stopped
        /\ gh'[Cur].turn = Mine.turn
    BY <1>12, <1>1 DEF Acquire, State
  <2>2. Goto("gate") \/ Goto("code")
    BY <1>12 DEF Acquire
  <2> QED
    BY <2>1, <2>2, <1>2, <1>3 DEF Steps
<1>13. CASE ResumeWork
  <2>1. UNCHANGED <<gh, dev>>
    BY <1>13 DEF ResumeWork
  <2>2. \/ Propagate \/ Verdict("cancelled") \/ Goto("wave") \/ Goto("code")
        \/ run'.pc = "gate" /\ run'.cur = Cur
    BY <1>13, <1>1 DEF ResumeWork, Memory, Cur
  <2> QED
    BY <2>1, <2>2, <1>1, <1>2, <1>3 DEF Steps
<1>14. CASE Code
  <2>1. UNCHANGED dev
    BY <1>14 DEF Code
  <2>2. CASE Mine.phase = "coding"
    <3>1. Goto("review") \/ Goto("work") \/ Fail \/ Verdict("escalated")
      BY <1>14, <2>2 DEF Code
    <3>2. UNCHANGED gh
      BY <1>14, <2>2 DEF Code
    <3> QED
      BY <2>1, <3>1, <3>2, <1>1, <1>2, <1>3, <1>4 DEF Steps
  <2>3. CASE Mine.phase # "coding"
    <3> DEFINE state == [Mine EXCEPT !.phase = "coding", !.turn = IF @ = "none" THEN @ ELSE "old"]
    <3>1. /\ state \in State /\ state.phase = "coding" /\ state.stopped = Mine.stopped
          /\ Mine.turn # "none" => state.turn # "none"
      BY <1>1 DEF State, Phases, Working, Turns
    <3>2. Transition(state, "dispatch")
      BY <1>14, <2>3 DEF Code
    <3> HIDE DEF state
    <3>3. StateLabel(state) = "active" /\ state.phase \in Working
      BY <3>1 DEF StateLabel, PhaseLabel, Terminal, Working
    <3> QED
      BY <2>1, <3>1, <3>2, <3>3, <1>5 DEF Transition, Steps
  <2> QED
    BY <2>2, <2>3
<1>15. CASE Dispatch
  <2>1. UNCHANGED dev /\ At("dispatch") /\ Mine.phase = "coding" /\ Cur \in Active \cup cut
    BY <1>15, <1>1 DEF Dispatch, SlotInv, Known, StepKnows
  <2>2. CASE optin[Cur]
    <3>1. /\ gh'[Cur].phase = "coding" /\ gh'[Cur].turn = "sent" /\ ~gh'[Cur].stopped
          /\ \A i \in Issues : i # Cur => gh'[i] = gh[i]
      BY <1>15, <2>1, <2>2, <1>1 DEF Dispatch, State
    <3>2. run'.pc = "launch" /\ run'.cur = Cur
      BY <1>15, <2>2, <1>1 DEF Dispatch, Goto, Memory, Cur
    <3>3. dev \subseteq Issues
      BY DEF SlotInv, TypeOK
    <3>4. DevelopersRecorded'
      BY <3>1, <3>3, <2>1, <1>1, RecordedStep DEF Working
    <3>5. Active' = Active
      BY <3>1, <2>1, <1>1, ActiveSame
    <3> QED
      BY <3>1, <3>2, <3>4, <3>5, <2>1, <1>1, KnownInDrive
  <2>3. CASE ~optin[Cur]
    <3>1. UNCHANGED gh /\ Verdict("cancelled")
      BY <1>15, <2>3 DEF Dispatch
    <3> QED
      BY <2>1, <3>1, <1>1, <1>2, <1>3
  <2> QED
    BY <2>2, <2>3
<1>16. CASE Launch
  <2>1. /\ UNCHANGED gh /\ dev' = dev \cup {Cur} /\ Cur \in Active \cup cut
        /\ Mine.phase = "coding" /\ Mine.turn = "sent" /\ ~Mine.stopped
    BY <1>16, <1>1 DEF Launch, SlotInv, Known, StepKnows
  <2>2. run'.pc = "work" /\ run'.cur = Cur
    BY <1>16, <1>1 DEF Launch, Goto, Memory, Cur
  <2>3. Active' = Active
    BY <2>1, <1>1, ActiveSame
  <2>4. DevelopersRecorded'
    BY <2>1, <1>1, RecordedStep DEF Working
  <2> QED
    BY <2>1, <2>2, <2>3, <2>4, <1>1, KnownInDrive
<1>17. CASE Work
  <2>1. /\ UNCHANGED dev /\ \A i \in Issues : i # Cur => gh'[i] = gh[i]
        /\ gh'[Cur].phase = Mine.phase /\ gh'[Cur].stopped = Mine.stopped
        /\ gh'[Cur].turn = "done"
    BY <1>17, <1>1 DEF Work, State
  <2>2. Goto("review") \/ Verdict("failed")
    BY <1>17 DEF Work
  <2> QED
    BY <2>1, <2>2, <1>2, <1>3 DEF Steps
<1>18. CASE Review
  <2>1. UNCHANGED dev
    BY <1>18 DEF Review
  <2>2. CASE Mine.round >= MaxRounds
    <3>1. UNCHANGED gh /\ Verdict("escalated")
      BY <1>18, <2>2 DEF Review
    <3> QED
      BY <2>1, <3>1, <1>1, <1>2, <1>3
  <2>3. CASE ~(Mine.round >= MaxRounds)
    <3> DEFINE state == [Mine EXCEPT !.phase = "reviewing", !.round = @ + 1, !.wave = FALSE]
    <3>0. Mine.round + 1 \in 0 .. MaxRounds
      BY <2>3, <1>1, SchedulingAssumption DEF State
    <3>1. /\ state \in State /\ state.phase = "reviewing" /\ state.stopped = Mine.stopped
          /\ state.turn = Mine.turn
      BY <3>0, <1>1 DEF State, Phases, Working
    <3>2. Transition(state, "plan")
      BY <1>18, <2>3 DEF Review
    <3> HIDE DEF state
    <3>3. StateLabel(state) = "review" /\ state.phase \in Working
      BY <3>1 DEF StateLabel, PhaseLabel, Terminal, Working
    <3> QED
      BY <2>1, <3>1, <3>2, <3>3, <1>5 DEF Transition, Steps
  <2> QED
    BY <2>2, <2>3
<1>19. CASE Plan
  <2>1. /\ UNCHANGED dev /\ \A i \in Issues : i # Cur => gh'[i] = gh[i]
        /\ gh'[Cur].phase = Mine.phase /\ gh'[Cur].stopped = Mine.stopped
        /\ gh'[Cur].turn = Mine.turn
    BY <1>19, <1>1 DEF Plan, State
  <2>2. Goto("wave") \/ Verdict("cancelled")
    BY <1>19 DEF Plan
  <2> QED
    BY <2>1, <2>2, <1>2, <1>3 DEF Steps
<1>20. CASE Wave
  <2>1. UNCHANGED <<gh, dev>> /\ (Goto("code") \/ Goto("gate") \/ Verdict("done"))
    BY <1>20 DEF Wave
  <2> QED
    BY <2>1, <1>1, <1>2, <1>3 DEF Steps
<1>21. CASE Gate
  <2> DEFINE state == [Mine EXCEPT !.phase = "ci_gating"]
  <2>1. /\ state \in State /\ state.phase = "ci_gating" /\ state.stopped = Mine.stopped
        /\ state.turn = Mine.turn
    BY <1>1 DEF State, Phases, Working
  <2>2. UNCHANGED dev /\ Transition(state, "evaluate")
    BY <1>21 DEF Gate
  <2> HIDE DEF state
  <2>3. StateLabel(state) = "active" /\ state.phase \in Working
    BY <2>1 DEF StateLabel, PhaseLabel, Terminal, Working
  <2> QED
    BY <2>1, <2>2, <2>3, <1>5 DEF Transition, Steps
<1>22. CASE Evaluate
  <2>1. UNCHANGED dev
    BY <1>22 DEF Evaluate
  <2>2. CASE ~optin[Cur]
    <3>1. UNCHANGED gh /\ Verdict("cancelled")
      BY <1>22, <2>2 DEF Evaluate
    <3> QED
      BY <2>1, <3>1, <1>1, <1>2, <1>3
  <2>3. CASE /\ gh' = [gh EXCEPT ![Cur].pr = TRUE]
             /\ Verdict("queued") \/ Verdict("escalated") \/ Goto("code")
    <3>1. /\ \A i \in Issues : i # Cur => gh'[i] = gh[i]
          /\ gh'[Cur].phase = Mine.phase /\ gh'[Cur].stopped = Mine.stopped
          /\ gh'[Cur].turn = Mine.turn
      BY <2>3, <1>1 DEF State
    <3> QED
      BY <2>1, <2>3, <3>1, <1>2, <1>3 DEF Steps
  <2>4. CASE /\ gh' = [gh EXCEPT ![Cur].pr = TRUE, ![Cur].phase = "updating_pr"]
             /\ run' = [run EXCEPT !.pc = "labels", !.target = "active", !.next = "stop",
                                   !.verdict = "done"]
    <3>1. /\ \A i \in Issues : i # Cur => gh'[i] = gh[i]
          /\ gh'[Cur].phase = "updating_pr" /\ gh'[Cur].stopped = Mine.stopped
          /\ gh'[Cur].turn = Mine.turn
      BY <2>4, <1>1 DEF State
    <3>2. /\ run'.pc = "labels" /\ run'.cur = Cur /\ run'.target = "active"
          /\ run'.next = "stop"
      BY <2>4, <1>1 DEF Memory, Cur
    <3>3. DevelopersRecorded'
      <4>1. dev \subseteq Issues
        BY DEF SlotInv, TypeOK
      <4> QED
        BY <4>1, <2>1, <3>1, <1>1, RecordedStep DEF DevelopersRecorded, Working
    <3>4. LabelsKnow'
      BY <3>1, <3>2 DEF LabelsKnow, At, Cur, Mine, Working
    <3> QED
      BY <2>1, <3>2, <3>3, <3>4, <1>1, KnownAtLabels
  <2> QED
    BY <1>22, <2>2, <2>3, <2>4 DEF Evaluate
<1>23. CASE GiveUp
  <2>1. UNCHANGED <<gh, dev>> /\ Verdict("escalated")
    BY <1>23 DEF GiveUp
  <2> QED
    BY <2>1, <1>1, <1>2, <1>3
<1>24. CASE StopLanes
  <2>1. UNCHANGED gh /\ dev' \subseteq dev /\ Cur \notin dev'
    BY <1>24, <1>1 DEF StopLanes
  <2>2. run'.pc \in {"settle", "stopped"} /\ run'.cur = Cur
    BY <1>24, <1>1 DEF StopLanes, Goto, Memory, Cur
  <2>3. DevelopersRecorded'
    BY <2>1, <1>1, <1>2
  <2> QED
    BY <2>1, <2>2, <2>3, <1>1, KnownInDrive
<1>25. CASE RecordStopped
  <2>1. /\ UNCHANGED dev /\ Cur \notin dev /\ \A i \in Issues : i # Cur => gh'[i] = gh[i]
    BY <1>25, <1>1 DEF RecordStopped, Released
  <2>2. run'.pc = "settle" /\ run'.cur = Cur
    BY <1>25, <1>1 DEF RecordStopped, Goto, Memory, Cur
  <2>3. DevelopersRecorded'
    <3>1. dev \subseteq Issues
      BY DEF SlotInv, TypeOK
    <3> QED
      BY <2>1, <3>1, <1>1, RecordedStep
  <2> QED
    BY <2>1, <2>2, <2>3, <1>1, KnownInDrive
<1>26. CASE Settle
  <2>1. UNCHANGED dev /\ Cur \notin dev
    BY <1>26, <1>1 DEF Settle, Released
  <2>2. PICK v, t : Saved([Mine EXCEPT !.phase = v], t, "out")
    BY <1>26 DEF Settle, Transition
  <2>3. run'.pc = "labels" /\ run'.cur = Cur /\ run'.next = "out"
    BY <2>2, <1>1 DEF Saved, Memory, Cur
  <2> QED
    BY <2>1, <2>2, <2>3, <1>6 DEF Saved
<1> QED
  BY <1>11, <1>12, <1>13, <1>14, <1>15, <1>16, <1>17, <1>18, <1>19, <1>20, <1>21, <1>22, <1>23,
     <1>24, <1>25, <1>26 DEF Drive

LEMMA FailureStep ==
  ASSUME SlotInv, Failure
  PROVE  DevelopersRecorded' /\ Known'
<1>1. UNCHANGED <<gh, labels>> /\ ~At("rest") /\ Active' = Active
  <2>1. UNCHANGED <<gh, labels>> /\ ~At("rest")
    BY DEF Failure, Crash, LabelFails, AuthorUnread, RequestFails, SessionFails, github, At
  <2> QED
    BY <2>1, ActiveSame
<1>2. /\ DevelopersRecorded /\ run \in Memory /\ (Driving => Cur \in Issues)
  BY DEF SlotInv, TypeOK, Known, SlotKnown
<1>3. dev' \subseteq dev => DevelopersRecorded'
  BY <1>1, <1>2 DEF DevelopersRecorded
<1>4. ASSUME dev' \subseteq dev, cut' = Broken, Propagate
      PROVE  Known'
  BY <1>1, <1>4, Leaving, KnownAtRest DEF Propagate, Resting
<1>5. ASSUME dev' \subseteq dev, cut' = Broken, Driving, NEW v, Verdict(v)
      PROVE  Known'
  <2>1. run'.pc = "stop" /\ run'.cur = Cur
    BY <1>2, <1>5 DEF Verdict, Memory, Cur
  <2> QED
    BY <2>1, <1>1, <1>2, <1>5, Leaving, KnownInDrive
<1>6. Fail => Propagate \/ (\E v : Verdict(v))
  BY DEF Fail
<1>7. CASE Crash
  BY <1>7, <1>3, <1>4 DEF Crash
<1>8. CASE LabelFails
  <2>1. dev' \subseteq dev /\ cut' = Broken /\ Driving
    BY <1>8 DEF LabelFails, Driving, At
  <2> QED
    BY <1>8, <2>1, <1>3, <1>4, <1>5, <1>6 DEF LabelFails
<1>9. CASE AuthorUnread
  <2>1. dev' \subseteq dev /\ cut' = cut /\ Driving /\ ~At("labels") /\ Verdict("cancelled")
    BY <1>9 DEF AuthorUnread, Driving, At
  <2> QED
    BY <2>1, <1>1, <1>3, <1>5, Leaving
<1>10. CASE RequestFails
  <2>1. dev' \subseteq dev /\ cut' = cut /\ Driving /\ ~At("labels")
    BY <1>10 DEF RequestFails, Driving, At
  <2>2. Fail \/ Propagate
    BY <1>10 DEF RequestFails
  <2> QED
    BY <2>1, <2>2, <1>1, <1>3, <1>4, <1>5, <1>6, Leaving
<1>11. CASE SessionFails
  <2>1. cut' = cut /\ Driving /\ ~At("labels") /\ Propagate
    BY <1>11 DEF SessionFails, Driving, At
  <2>2. CASE dev' \subseteq dev
    BY <2>1, <2>2, <1>1, <1>3, <1>4, Leaving
  <2>3. CASE At("launch") /\ dev' = dev \cup {Cur}
    <3>1. /\ Cur \in Active \cup cut /\ Mine.phase = "coding" /\ Mine.turn = "sent"
          /\ ~Mine.stopped
      BY <2>1, <2>3 DEF SlotInv, Known, StepKnows, Found
    <3>2. DevelopersRecorded'
      BY <3>1, <2>3, <1>1, <1>2, RecordedStep DEF Working, Mine
    <3>3. dev' \subseteq cut' \cup {Cur} /\ dev' \subseteq (Active \cup cut)'
      BY <3>1, <2>1, <2>3, <1>1, Leaving
    <3> QED
      BY <3>2, <3>3, <2>1, KnownAtRest DEF Propagate, Resting
  <2> QED
    BY <1>11, <2>2, <2>3 DEF SessionFails
<1> QED
  BY <1>7, <1>8, <1>9, <1>10, <1>11 DEF Failure

\* Every step keeps the invariant.
LEMMA SlotStep == SlotInv /\ [Next]_vars => SlotInv'
<1> SUFFICES ASSUME SlotInv, [Next]_vars PROVE SlotInv'
  OBVIOUS
<1>1. TypeOK'
  BY TypeStep DEF SlotInv, Known, SlotKnown
<1>2. CASE Next
  <2>1. DevelopersRecorded' /\ Known'
    BY <1>2, PassStep, DriveStep, LabelStep, FailureStep, OutsideStep DEF Next, Coordinator
  <2> QED
    BY <2>1, <1>1 DEF SlotInv
<1>3. CASE UNCHANGED vars
  <2>1. Active' = Active
    BY <1>3, ActiveSame DEF vars
  <2>2. SlotKnown'
    BY <1>3, <2>1 DEF vars, SlotInv, Known, SlotKnown, Driving, At, Cur, Found, OneDeveloper
  <2>3. StepKnows'
    BY <1>3, <2>1 DEF vars, SlotInv, Known, StepKnows, Released, Driving, At, Cur, Mine, Found
  <2>4. LabelsKnow' /\ DevelopersRecorded'
    BY <1>3 DEF vars, SlotInv, Known, LabelsKnow, At, Cur, Mine, DevelopersRecorded
  <2> QED
    BY <2>2, <2>3, <2>4, <1>1 DEF SlotInv, Known
<1> QED
  BY <1>2, <1>3

\* The memory and the durable states are of their types at every step of the
\* passes, the drives, the label changes and the failures.
THEOREM SchedulingTyped == Spec => []TypeOK
<1>1. SlotInv => TypeOK
  BY DEF SlotInv
<1> QED
  BY <1>1, InitSlot, SlotStep, PTL DEF Spec

\* At most one issue has a live developer session, except where a change of
\* lifecycle labels (queue.py, _apply_phase_labels) broke off and left a run
\* that list_active cannot find: for any number of issues, of failures and of
\* crashes at any step.
THEOREM OneAtATime == Spec => []OneDeveloper
<1>1. SlotInv => OneDeveloper
  <2>1. SlotInv => (At("rest") => OneDeveloper) /\ (~At("rest") => dev \subseteq cut \cup {Cur})
    BY DEF SlotInv, Known, SlotKnown
  <2> QED
    BY <2>1 DEF OneDeveloper
<1> QED
  BY <1>1, InitSlot, SlotStep, PTL DEF Spec
=============================================================================
