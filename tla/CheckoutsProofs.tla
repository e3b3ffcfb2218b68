-------------------------- MODULE CheckoutsProofs --------------------------
(***************************************************************************)
(* Who removes what, for any number of runs, crashes, failures and acts of *)
(* others: what somebody else keeps at a path stays, unless a removal     *)
(* broke off there, what the coordinator made is on record, and no lane    *)
(* loses its checkout, unless another host recorded the stop of its run.   *)
(***************************************************************************)
EXTENDS Checkouts, TLAPS

run == co.state.run
SweepSteps == {"states", "sessions", "targets", "probe"}
DriveSteps == {"acquire", "record", "create", "mark", "persist", "loop", "turn", "plan",
               "prompts", "seat", "report", "seats_end", "gate", "stop", "stopped", "settle",
               "release"}
Removing == At("remove") \/ At("unlink")

\* A lane that must have its checkout.
Lives(p) == session[p] # 0 /\ session[p] \notin elsewhere

\* Run ids are handed out in order; who drives has one.
RunInv ==
  /\ gh.phase # "none" => gh.run # 0
  /\ gh.phase = "none" => gh.wave = "none"
  /\ gh.run <= lastRun /\ run <= lastRun /\ \A p \in Paths : session[p] <= lastRun
  /\ co.pc \in DriveSteps \/ (Removing /\ co.job # "sweep") => run # 0 /\ gh.run \in {0, run}

\* Who removes, and where to it returns.
TaskInv ==
  /\ co.pc \in DriveSteps => co.job # "sweep"
  /\ co.pc \in SweepSteps => co.job = "sweep"
  /\ At("seats_end") => co.next \in {"gate", "stop"}
  /\ Removing => \/ co.job = "sweep" /\ co.next = "targets"
                 \/ co.job # "sweep" /\ co.next \in {"gate", "stop", "off"}

\* What the record of a materialized checkout is worth: the coordinator's own
\* directory is there until a removal has come to it, and whoever lives there
\* is of the run that made it.
MadeInv ==
  \A p \in Paths : rec[p].st = "made" =>
    /\ dir[p] \in Runs \/ p \in cut \/ (At("unlink") /\ p = path)
    /\ Lives(p) => rec[p].run = session[p]

\* What the coordinator knows of the checkout at hand.
HandInv ==
  /\ At("create") => rec[path] = [run |-> run, st |-> "intent"]
  /\ At("mark") => rec[path] = [run |-> run, st |-> "intent"] /\ dir[path] = run
  /\ At("unlink") => dir[path] \notin Runs
  /\ co.pc \in {"persist", "loop", "turn"} => OwnWorktree
  /\ At("prompts") => /\ path = "rev" /\ rec["rev"] = [run |-> run, st |-> "made"]
                      /\ ~Lives("rev")
  /\ At("remove") /\ Lives(path) => session[path] # run

\* A developer that lives is a coder's, and no stop of it is on record.
CoderInv ==
  /\ Lives("dev") /\ session["dev"] = gh.run => gh.coder /\ ~gh.stopped
  /\ At("turn") /\ run = gh.run /\ run \notin elsewhere => gh.coder /\ ~gh.stopped
  /\ co.pc \in {"stopped", "settle", "release"} /\ Lives("dev") => session["dev"] # run

\* A reviewer that lives has a wave, and a prompted wave has the clone of its own
\* run, if any.
WaveInv ==
  /\ session["rev"] # 0 /\ session["rev"] = gh.run => gh.wave # "none"
  /\ At("seat") /\ run = gh.run => gh.wave # "none"
  /\ co.pc \in SweepSteps \ {"states"} \/ (Removing /\ co.job = "sweep") =>
       (session["rev"] # 0 /\ session["rev"] = run => co.state.wave # "none")
  /\ gh.wave = "prompted" \/ At("seat") => rec["rev"].st \in {"none", "made"}
  /\ gh.wave = "prompted" /\ rec["rev"].st = "made" => rec["rev"].run = gh.run
  /\ At("seat") /\ rec["rev"].st = "made" => rec["rev"].run = run
  /\ co.pc \in {"record", "create", "mark"} /\ path = "rev" => gh.wave \in {"planned", "none"}

Known == RunInv /\ TaskInv /\ MadeInv /\ HandInv /\ CoderInv /\ WaveInv
CheckoutInv == TypeOK /\ OwnedRecorded /\ LanesHaveCheckouts /\ Known

\* What a step may make of the memory and of the durable state.
LEMMA MemoryOf ==
  ASSUME TypeOK
  PROVE  /\ NoState \in State /\ Resting \in Memory
         /\ \A pc \in Steps : [co EXCEPT !.pc = pc] \in Memory
         /\ Escalate \/ Fail \/ Rest \/ SeatsKept => co' \in Memory
<1> USE CheckoutAssumption DEF TypeOK
<1>1. NoState \in State
  BY DEF NoState, State, Phases
<1>2. "stop" \in Steps /\ "off" \in Steps /\ "terminal" \in Verdicts /\ "sweep" \in Jobs
      /\ "dev" \in Paths
  BY DEF Steps, Verdicts, Jobs, Paths
<1>3. Resting \in Memory
  BY <1>1, <1>2 DEF Resting, Memory
<1>4. \A pc \in Steps : [co EXCEPT !.pc = pc] \in Memory
  BY DEF Memory
<1>5. Escalate => co' \in Memory
  BY <1>2 DEF Memory, Escalate
<1> QED
  BY <1>1, <1>3, <1>4, <1>5 DEF Fail, Rest, SeatsKept

\* A move to a step, with the checkout at hand and where its removal returns;
\* the end of a pass.
Moved(step, p, next) ==
  /\ co'.pc = step /\ co'.p = p /\ co'.next = next
  /\ co'.job = co.job /\ co'.state = co.state
Held(step) == Moved(step, co.p, co.next)
Ended == co'.pc = "off" /\ co'.job = "sweep" /\ co'.state.run = 0

LEMMA Moves ==
  ASSUME TypeOK
  PROVE  /\ \A step : Goto(step) => Held(step)
         /\ Rest => Ended
         /\ Escalate => Held("stop")
         /\ Fail => Held("stop") \/ Ended
         /\ SeatsKept => Held("stop") \/ Ended
         /\ \A step : co' = [co EXCEPT !.pc = step] => Held(step)
         /\ \A step, p : co' = [co EXCEPT !.pc = step, !.p = p] => Moved(step, p, co.next)
         /\ \A step, next : co' = [co EXCEPT !.pc = step, !.next = next] => Moved(step, co.p, next)
         /\ \A step, next : co' = [co EXCEPT !.pc = step, !.next = next, !.recovered = TRUE]
                             => Moved(step, co.p, next)
         /\ \A step, v : co' = [co EXCEPT !.pc = step, !.verdict = v] => Held(step)
<1> USE DEF TypeOK, Memory, Moved, Held
<1>1. \A step : Goto(step) => Held(step)
  BY DEF Goto
<1>2. Escalate => Held("stop")
  BY DEF Escalate
<1>3. Rest => Ended
  BY DEF Rest, Resting, Ended, NoState
<1>4. \A step : co' = [co EXCEPT !.pc = step] => Held(step)
  OBVIOUS
<1>5. \A step, p : co' = [co EXCEPT !.pc = step, !.p = p] => Moved(step, p, co.next)
  OBVIOUS
<1>6. /\ \A step, next : co' = [co EXCEPT !.pc = step, !.next = next] => Moved(step, co.p, next)
      /\ \A step, next : co' = [co EXCEPT !.pc = step, !.next = next, !.recovered = TRUE]
                          => Moved(step, co.p, next)
  OBVIOUS
<1>7. \A step, v : co' = [co EXCEPT !.pc = step, !.verdict = v] => Held(step)
  OBVIOUS
<1> QED
  BY <1>1, <1>2, <1>3, <1>4, <1>5, <1>6, <1>7 DEF Fail, SeatsKept

LEMMA InitCheckouts == Init => CheckoutInv
<1> SUFFICES ASSUME Init PROVE CheckoutInv
  OBVIOUS
<1> USE CheckoutAssumption
<1>1. NoState \in State /\ Resting \in Memory
  <2>1. NoState \in State
    BY DEF NoState, State, Phases
  <2> QED
    BY <2>1 DEF Resting, Memory, Steps, Verdicts, Jobs, Paths
<1>2. TypeOK
  <2>1. NoRecord \in Record
    BY DEF NoRecord, Record
  <2>2. dir \in [Paths -> 0..Vacant]
    BY DEF Init, Human, Lookalike, Vacant, Theirs
  <2>3. gh \in State /\ co \in Memory
    BY <1>1 DEF Init
  <2>4. /\ age \in 0..2 /\ lastRun \in 0..MaxRuns /\ crashes \in 0..MaxCrashes
        /\ faults \in 0..MaxFaults /\ meddling \in 0..MaxMeddling
    BY DEF Init
  <2> QED
    BY <2>1, <2>2, <2>3, <2>4 DEF Init, TypeOK
<1>3. OwnedRecorded /\ LanesHaveCheckouts
  BY DEF Init, OwnedRecorded, LanesHaveCheckouts, Runs, Human, Lookalike, Vacant, Theirs
<1>4. /\ co.pc = "off" /\ co.state.run = 0 /\ gh.run = 0 /\ gh.phase = "none" /\ gh.wave = "none"
      /\ \A p \in Paths : rec[p].st = "none"
  BY DEF Init, Resting, NoState, NoRecord
<1>5. Known
  BY <1>4 DEF run, Init, Known, RunInv, TaskInv, MadeInv, HandInv, CoderInv, WaveInv, Lives, At, Removing, SweepSteps, DriveSteps, Paths
<1> QED
  BY <1>2, <1>3, <1>5 DEF CheckoutInv

LEMMA TypeStep == TypeOK /\ RunInv /\ [Next]_vars => TypeOK'
<1> SUFFICES ASSUME TypeOK, RunInv, [Next]_vars PROVE TypeOK'
  OBVIOUS
<1> USE CheckoutAssumption DEF TypeOK, path
<1>a. /\ "off" \in Steps /\ "states" \in Steps /\ "sessions" \in Steps /\ "targets" \in Steps
      /\ "probe" \in Steps /\ "schedule" \in Steps /\ "acquire" \in Steps /\ "record" \in Steps
      /\ "create" \in Steps /\ "mark" \in Steps /\ "persist" \in Steps /\ "loop" \in Steps
      /\ "turn" \in Steps /\ "plan" \in Steps /\ "prompts" \in Steps /\ "seat" \in Steps
      /\ "report" \in Steps /\ "seats_end" \in Steps /\ "gate" \in Steps /\ "stop" \in Steps
      /\ "stopped" \in Steps /\ "settle" \in Steps /\ "release" \in Steps /\ "remove" \in Steps
      /\ "unlink" \in Steps
  BY DEF Steps
<1>b. \A step \in Steps : Goto(step) => co' \in Memory
  BY MemoryOf DEF Goto
<1>c. Escalate \/ Fail \/ Rest \/ SeatsKept => co' \in Memory
  BY MemoryOf
<1>d. Fault => faults' \in 0..MaxFaults
  BY DEF Fault
<1>e. Meddle => meddling' \in 0..MaxMeddling
  BY DEF Meddle
<1>f. \A s \in State : Write(s) => gh' \in State /\ age' \in 0..2
                                  /\ lastRun' = lastRun /\ elsewhere' = elsewhere
  BY DEF Write
<1>g. \A s \in State, step \in Steps : Save(s, step) =>
        gh' \in State /\ age' \in 0..2 /\ lastRun' = lastRun /\ elsewhere' = elsewhere
        /\ co' \in Memory
  BY <1>b, <1>c, <1>f DEF Save, durable
<1>h. \A s \in State : Foreign(s) =>
        gh' \in State /\ age' \in 0..2 /\ co' \in Memory
  <2>1. [co EXCEPT !.current = FALSE] \in Memory
    BY DEF Memory
  <2> QED
    BY <2>1 DEF Foreign
<1>i. /\ \A phase \in Phases : /\ [gh EXCEPT !.phase = phase] \in State
                              /\ [gh EXCEPT !.phase = phase, !.stopped = TRUE] \in State
      /\ \A w \in {"none", "planned", "prompted", "reported", "gated"} :
           [gh EXCEPT !.wave = w] \in State /\ [gh EXCEPT !.wave = w, !.pr = TRUE] \in State
      /\ [gh EXCEPT !.worktree = TRUE] \in State /\ [gh EXCEPT !.stopped = TRUE] \in State
      /\ [gh EXCEPT !.coder = TRUE, !.stopped = FALSE] \in State
      /\ \A b \in BOOLEAN : [gh EXCEPT !.mine = b] \in State
      /\ \A r \in 0..MaxRuns, phase \in Phases :
           [gh EXCEPT !.phase = phase, !.run = r, !.mine = TRUE] \in State
  BY DEF State
<1>j. Terminal \subseteq Phases /\ {"none", "queued", "active"} \subseteq Phases
  BY DEF Terminal, Phases
<1>k. /\ "dev" \in Paths /\ "rev" \in Paths /\ Paths = {"dev", "rev"}
      /\ co.state.run \in 0..MaxRuns /\ co.p \in Paths /\ co.next \in Steps
  <2>1. co.p \in Paths /\ co.next \in Steps /\ co.state \in State
    BY DEF Memory
  <2> QED
    BY <2>1 DEF Paths, State
<1>l. /\ \A p \in Paths : [co EXCEPT !.pc = "probe", !.p = p] \in Memory
      /\ [co EXCEPT !.pc = "record", !.p = "dev"] \in Memory
      /\ [co EXCEPT !.pc = "record", !.p = "rev"] \in Memory
      /\ [co EXCEPT !.pc = "remove", !.p = "rev"] \in Memory
      /\ [co EXCEPT !.pc = "remove", !.p = "dev", !.next = "off"] \in Memory
      /\ [co EXCEPT !.pc = "remove", !.next = "targets"] \in Memory
      /\ [co EXCEPT !.pc = "remove", !.next = "stop"] \in Memory
      /\ [co EXCEPT !.pc = "seats_end", !.next = "gate"] \in Memory
      /\ [co EXCEPT !.pc = "seats_end", !.next = "stop"] \in Memory
      /\ [co EXCEPT !.pc = "seats_end", !.next = "gate", !.recovered = TRUE] \in Memory
      /\ \A v \in Verdicts : [co EXCEPT !.pc = "stop", !.verdict = v] \in Memory
  BY ZenonT(40), <1>a, <1>k DEF Memory
<1>m. /\ \A r \in 0..MaxRuns, st \in {"none", "torn", "intent", "made"} :
           [run |-> r, st |-> st] \in Record
      /\ NoRecord \in Record /\ rec[path] \in Record
      /\ \A r \in Record : [rec EXCEPT ![path] = r] \in [Paths -> Record]
  BY <1>k DEF Record, NoRecord
<1>n. "sweep" \in Jobs /\ "work" \in Jobs /\ "resume" \in Jobs
  BY DEF Jobs
<1>1. CASE SweepInventory
  <2>1. \A S, T \in SUBSET Paths :
          [Resting EXCEPT !.pc = "states", !.sessions = S, !.records = T] \in Memory
    BY <1>a, MemoryOf DEF Memory
  <2>2. Rest \/ \E S, T \in SUBSET Paths :
          co' = [Resting EXCEPT !.pc = "states", !.sessions = S, !.records = T]
    BY <1>1 DEF SweepInventory
  <2>4. co' \in Memory
    BY <1>c, <2>1, <2>2
  <2>3. faults' \in 0..MaxFaults
    BY <1>1, <1>d DEF SweepInventory
  <2> QED
    BY <1>1, <2>3, <2>4 DEF SweepInventory, files, durable
<1>2. CASE SweepStates
  <2>1. \A S \in SUBSET Paths :
          [co EXCEPT !.pc = "sessions", !.state = gh, !.current = TRUE, !.sessions = S] \in Memory
    BY <1>a DEF Memory
  <2>2. co.sessions \in SUBSET Paths
    BY DEF Memory
  <2>3. Rest \/ \E S \in SUBSET Paths : co' = [co EXCEPT !.pc = "sessions", !.state = gh,
                                                        !.current = TRUE, !.sessions = S]
    BY <1>2, <2>2 DEF SweepStates
  <2> QED
    BY <1>2, <1>c, <2>1, <2>3 DEF SweepStates, files, durable, bounds
<1>3. CASE \E p \in Paths : SweepSession(p)
  <2>1. \A p : [co EXCEPT !.sessions = @ \ {p}] \in Memory
    BY DEF Memory
  <2>2. session' \in [Paths -> 0..MaxRuns]
    BY <1>3 DEF SweepSession
  <2>3. co' \in Memory
    BY <1>3, <1>c, <2>1 DEF SweepSession
  <2>4. faults' \in 0..MaxFaults
    BY <1>3, <1>d DEF SweepSession
  <2> QED
    BY <1>3, <2>2, <2>3, <2>4 DEF SweepSession, files, durable
<1>4. CASE SweepCheckouts
  <2>1. \A S \in SUBSET Paths : [co EXCEPT !.pc = "targets", !.targets = S] \in Memory
    BY <1>a DEF Memory
  <2>2. co.records \in SUBSET Paths
    BY DEF Memory
  <2>3. Rest \/ \E S \in SUBSET Paths : co' = [co EXCEPT !.pc = "targets", !.targets = S]
    BY <1>4, <2>2 DEF SweepCheckouts
  <2> QED
    BY <1>4, <1>c, <2>1, <2>3 DEF SweepCheckouts, files, durable, bounds
<1>5. CASE SweepVerify
  <2>1. co.targets \subseteq Paths
    BY DEF Memory
  <2> QED
    BY <1>5, <1>a, <1>b, <1>c, <1>l, <2>1 DEF SweepVerify, files, durable, bounds
<1>6. CASE SweepProbe
  BY <1>6, <1>a, <1>c, <1>l DEF SweepProbe, files, durable, bounds
<1>7. CASE Remove
  <2>1. co' \in Memory
    BY <1>7, <1>a, <1>b, <1>c, <1>k DEF Remove, Gone, Kept
  <2>2. faults' \in 0..MaxFaults /\ dir' \in [Paths -> 0..Vacant]
    BY <1>7, <1>d, <1>k DEF Remove, Vacant
  <2> QED
    BY <1>7, <2>1, <2>2 DEF Remove, durable
<1>8. CASE Unlink
  <2>1. [co EXCEPT !.pc = co.next, !.targets = @ \ {path}] \in Memory
    BY <1>k DEF Memory
  <2>2. co' \in Memory /\ faults' \in 0..MaxFaults
    BY <1>8, <2>1, <1>b, <1>c, <1>d, <1>k DEF Unlink, Kept
  <2>3. rec' \in [Paths -> Record] /\ cut' \subseteq Paths
    BY <1>8, <1>k, <1>m DEF Unlink
  <2> QED
    BY <1>8, <2>2, <2>3 DEF Unlink, durable
<1>9. CASE Claim
  <2>1. RunId \in 0..MaxRuns /\ lastRun' \in 0..MaxRuns
    BY <1>9 DEF Claim, RunId, State
  <2>2. \A s \in State, b \in BOOLEAN : [Resting EXCEPT !.pc = "acquire", !.job = "work",
                                         !.state = s, !.atGate = b] \in Memory
    BY <1>a, <1>n, MemoryOf DEF Memory
  <2>3. [gh EXCEPT !.phase = "active", !.run = RunId, !.mine = TRUE] \in State
    BY <2>1, <1>i, <1>j
  <2>4. (gh.phase = "queued" /\ gh.pr) \in BOOLEAN
    OBVIOUS
  <2>5. gh' \in State /\ co' \in Memory
    BY <1>9, <2>2, <2>3 DEF Claim, State
  <2> QED
    BY <1>9, <2>1, <2>5 DEF Claim, files, bounds
<1>10. CASE Resume
  <2>1. \A s \in State, b \in BOOLEAN : [Resting EXCEPT !.pc = "acquire", !.job = "resume",
                                         !.state = s, !.atGate = b] \in Memory
    BY <1>a, <1>n, MemoryOf DEF Memory
  <2>2. [gh EXCEPT !.mine = TRUE] \in State
    BY <1>i
  <2>3. co' \in Memory
    BY <1>10, <1>c, <2>1, <2>2 DEF Resume
  <2> QED
    BY <1>10, <1>f, <2>2, <2>3 DEF Resume, files, bounds
<1>11. CASE NothingToDo
  BY <1>11, <1>c DEF NothingToDo, files, durable, bounds
<1>12. CASE Acquire
  BY <1>12, <1>a, <1>b, <1>c, <1>k, <1>l DEF Acquire, files, durable, bounds
<1>13. CASE RecordCheckout
  <2>1. rec' \in [Paths -> Record]
    BY ZenonT(40), <1>13, <1>k, <1>m DEF RecordCheckout
  <2>2. co' \in Memory
    BY <1>13, <1>a, <1>b, <1>c DEF RecordCheckout
  <2> QED
    BY <1>13, <2>1, <2>2 DEF RecordCheckout, durable, bounds
<1>14. CASE CreateCheckout
  <2>1. dir' \in [Paths -> 0..Vacant]
    BY <1>14, <1>k DEF CreateCheckout, Vacant
  <2>2. co' \in Memory /\ faults' \in 0..MaxFaults
    BY <1>14, <1>a, <1>b, <1>c, <1>d DEF CreateCheckout
  <2> QED
    BY <1>14, <2>1, <2>2 DEF CreateCheckout, durable
<1>15. CASE MarkMaterialized
  <2>1. [rec EXCEPT ![path].st = "made"] \in [Paths -> Record]
    BY <1>k, <1>m DEF Record
  <2> QED
    BY <1>15, <1>a, <1>b, <2>1 DEF MarkMaterialized, durable, bounds
<1>16. CASE Persist
  BY <1>16, <1>a, <1>g, <1>i DEF Persist, files, bounds
<1>17. CASE LoopTop
  <2>1. CASE Save([gh EXCEPT !.coder = TRUE, !.stopped = FALSE], "turn")
    BY <1>17, <2>1, <1>a, <1>g, <1>i DEF LoopTop, files, bounds
  <2>2. CASE UNCHANGED durable /\ Goto("plan")
    BY <1>17, <2>2, <1>a, <1>b DEF LoopTop, files, durable, bounds
  <2>3. CASE /\ gh.wave \in {"planned", "prompted", "reported"} /\ UNCHANGED durable
             /\ CASE gh.wave = "planned"  -> Escalate
                  [] gh.wave = "prompted" -> Goto("seat")
                  [] gh.wave = "reported" -> co' = [co EXCEPT !.pc = "seats_end", !.next = "gate",
                                                                         !.recovered = TRUE]
    <3>1. co' \in Memory
      BY <2>3, <1>a, <1>b, <1>c, <1>l
    <3> QED
      BY <1>17, <2>3, <3>1 DEF LoopTop, files, durable, bounds
  <2> QED
    BY <1>17, <2>1, <2>2, <2>3 DEF LoopTop
<1>18. CASE CoderTurn
  <2>1. session' \in [Paths -> 0..MaxRuns]
    BY <1>18, <1>k DEF CoderTurn
  <2>2. co' \in Memory /\ faults' \in 0..MaxFaults
    BY <1>18, <1>a, <1>b, <1>c, <1>d DEF CoderTurn
  <2> QED
    BY <1>18, <2>1, <2>2 DEF CoderTurn, files, durable
<1>19. CASE PlanSeats
  <2>1. co' \in Memory
    BY <1>19, <1>a, <1>b, <1>c, <1>k, <1>l DEF PlanSeats
  <2>2. gh' \in State /\ age' \in 0..2 /\ lastRun' = lastRun /\ elsewhere' = elsewhere
    BY <1>19, <1>f, <1>i DEF PlanSeats, durable
  <2> QED
    BY <1>19, <2>1, <2>2 DEF PlanSeats, files, bounds
<1>20. CASE RecordPrompts
  <2>1. CASE UNCHANGED durable
    BY <1>20, <2>1, <1>a, <1>b, <1>c, <1>g, <1>i, <1>l DEF RecordPrompts, files, durable, bounds
  <2>2. CASE Save([gh EXCEPT !.wave = "prompted"], "seat")
    BY <1>20, <2>2, <1>a, <1>g, <1>i DEF RecordPrompts, files, bounds
  <2> QED
    BY <1>20, <2>1, <2>2 DEF RecordPrompts
<1>21. CASE RunSeat
  <2>1. session' \in [Paths -> 0..MaxRuns]
    BY <1>21, <1>k DEF RunSeat
  <2>2. co' \in Memory /\ faults' \in 0..MaxFaults
    BY <1>21, <1>a, <1>b, <1>c, <1>d DEF RunSeat
  <2> QED
    BY <1>21, <2>1, <2>2 DEF RunSeat, files, durable
<1>22. CASE SaveReport
  <2>1. co' \in Memory
    BY <1>22, <1>a, <1>c, <1>l DEF SaveReport
  <2>2. gh' \in State /\ age' \in 0..2 /\ lastRun' = lastRun /\ elsewhere' = elsewhere
    BY <1>22, <1>f, <1>i DEF SaveReport, durable
  <2> QED
    BY <1>22, <2>1, <2>2 DEF SaveReport, files, bounds
<1>23. CASE EndSeats
  <2>1. session' \in [Paths -> 0..MaxRuns]
    BY <1>23 DEF EndSeats
  <2>2. co' \in Memory /\ faults' \in 0..MaxFaults
    BY <1>23, <1>a, <1>c, <1>d, <1>k, <1>l DEF EndSeats
  <2> QED
    BY <1>23, <2>1, <2>2 DEF EndSeats, files, durable
<1>24. CASE Gate
  <2>1. co' \in Memory
    BY <1>24, <1>a, <1>c, <1>l DEF Gate
  <2>2. gh' \in State /\ age' \in 0..2 /\ lastRun' = lastRun /\ elsewhere' = elsewhere
    BY <1>24, <1>f, <1>i DEF Gate, durable, Verdicts
  <2> QED
    BY <1>24, <2>1, <2>2 DEF Gate, files, bounds
<1>25. CASE StopLanes
  <2>1. session' \in [Paths -> 0..MaxRuns]
    BY <1>25, <1>k DEF StopLanes
  <2>2. co' \in Memory /\ faults' \in 0..MaxFaults
    BY <1>25, <1>a, <1>b, <1>c, <1>d DEF StopLanes
  <2> QED
    BY <1>25, <2>1, <2>2 DEF StopLanes, files, durable
<1>26. CASE RecordStopped
  BY <1>26, <1>a, <1>g, <1>i DEF RecordStopped, files, bounds
<1>27. CASE Settle
  <2>1. PICK phase \in Phases : Save([gh EXCEPT !.phase = phase], "release")
    BY <1>27, <1>j DEF Settle
  <2> QED
    BY <1>27, <2>1, <1>a, <1>g, <1>i DEF Settle, files, bounds
<1>28. CASE Release
  BY <1>28, <1>a, <1>c, <1>k, <1>l DEF Release, files, durable, bounds
<1>29. CASE Age \/ LaneEdits
  BY <1>29 DEF Age, LaneEdits, files, bounds
<1>30. CASE Requeue \/ DeleteState \/ TakeOver
  <2>1. PICK s \in State : Foreign(s)
    BY <1>30, <1>i, <1>j, MemoryOf DEF Requeue, DeleteState, TakeOver
  <2>2. Meddle /\ UNCHANGED elsewhere
    BY <1>30 DEF Requeue, DeleteState, TakeOver
  <2> QED
    BY <2>1, <2>2, <1>e, <1>h DEF Foreign, files
<1>31. CASE OtherSettles
  <2>1. PICK s \in State : Foreign(s)
    BY <1>31, <1>i, <1>j, MemoryOf DEF OtherSettles, Terminal
  <2>2. gh.run \in Runs
    BY <1>31 DEF OtherSettles, RunInv, State, Runs
  <2> QED
    BY <1>31, <2>1, <2>2, <1>h DEF OtherSettles, Foreign, files
<1>32. CASE Crash
  <2>1. rec' \in [Paths -> Record]
    <3>1. PICK torn \in Record : torn = [run |-> co.state.run, st |-> "torn"]
      BY <1>k, <1>m
    <3>2. rec' \in {rec, [rec EXCEPT ![path] = torn]}
      BY <1>32, <3>1 DEF Crash
    <3>3. rec \in [Paths -> Record] /\ [rec EXCEPT ![path] = torn] \in [Paths -> Record]
      BY <1>m, <3>1 DEF TypeOK
    <3> QED
      BY <3>2, <3>3
  <2>2. crashes' \in 0..MaxCrashes
    BY <1>32 DEF Crash
  <2>3. renamed' \in BOOLEAN /\ cut' \subseteq Paths
    BY <1>32, <1>k DEF Crash
  <2> QED
    BY <1>32, <1>c, <2>1, <2>2, <2>3 DEF Crash, durable
<1>33. CASE UNCHANGED vars
  BY <1>33 DEF vars, files
<1>34. CASE \E p \in Paths : Occupy(p)
  <2>1. dir' \in [Paths -> 0..Vacant]
    BY <1>34 DEF Occupy, Human, Lookalike, Vacant, Theirs
  <2>2. meddling' \in 0..MaxMeddling /\ age' \in 0..2
    BY <1>34 DEF Occupy
  <2> QED
    BY <1>34, <2>1, <2>2 DEF Occupy
<1> QED
  BY <1>1, <1>2, <1>3, <1>4, <1>5, <1>6, <1>7, <1>8, <1>9, <1>10, <1>11, <1>12, <1>13, <1>14, <1>15,
     <1>16, <1>17, <1>18, <1>19, <1>20, <1>21, <1>22, <1>23, <1>24, <1>25, <1>26, <1>27, <1>28, <1>29,
     <1>30, <1>31, <1>32, <1>33, <1>34
  DEF Next, Coordinator, Others, Sweep, Drive

\* What the steps' proofs need of the types.
Typed ==
  /\ gh \in State /\ rec \in [Paths -> Record] /\ dir \in [Paths -> 0..Vacant]
  /\ session \in [Paths -> 0..MaxRuns] /\ co.p \in Paths /\ co.state \in State
  /\ gh.run \in Nat /\ co.state.run \in Nat /\ lastRun \in Nat
  /\ \A p \in Paths : session[p] \in Nat /\ (session[p] # 0 => session[p] \in Runs)
  /\ Human \notin Runs /\ Lookalike \notin Runs /\ Vacant \notin Runs /\ 0 \notin Runs
  /\ Human # 0 /\ Lookalike # 0 /\ Vacant \notin {0, Human, Lookalike}
  /\ co.state.run # 0 => co.state.run \in Runs

LEMMA Types == TypeOK => Typed
<1> SUFFICES ASSUME TypeOK PROVE Typed
  OBVIOUS
<1> USE CheckoutAssumption DEF TypeOK
<1>1. co.p \in Paths /\ co.state \in State
  BY DEF Memory
<1>2. gh.run \in Nat /\ co.state.run \in Nat
  BY <1>1 DEF State
<1>3. \A p \in Paths : session[p] \in Nat /\ (session[p] # 0 => session[p] \in Runs)
  BY DEF Runs
<1>4. /\ Human \notin Runs /\ Lookalike \notin Runs /\ Vacant \notin Runs /\ 0 \notin Runs
      /\ Human # 0 /\ Lookalike # 0 /\ Vacant \notin {0, Human, Lookalike}
  BY DEF Human, Lookalike, Vacant, Runs
<1>5. co.state.run # 0 => co.state.run \in Runs
  BY <1>1 DEF State, Runs
<1> QED
  BY <1>1, <1>2, <1>3, <1>4, <1>5 DEF Typed

\* The sweep.
LEMMA SweepStep ==
  ASSUME CheckoutInv, TypeOK',
         SweepInventory \/ SweepStates \/ (\E p \in Paths : SweepSession(p)) \/ SweepCheckouts \/ SweepVerify \/ SweepProbe
  PROVE  CheckoutInv'
<1> SUFFICES OwnedRecorded' /\ LanesHaveCheckouts' /\ Known'
  BY DEF CheckoutInv
<1>t. TypeOK /\ Typed
  BY Types DEF CheckoutInv
<1> USE DEF CheckoutInv, Known, Typed, At, Removing, SweepSteps, DriveSteps, run, path, Held, Moved, Ended
<1>1. CASE SweepInventory
  <2>a. At("off") /\ (Ended \/ (co'.pc = "states" /\ co'.job = "sweep" /\ co'.state.run = 0))
    <3>1. /\ At("off")
          /\ \/ Rest
             \/ \E S, T \in SUBSET Paths :
                  co' = [Resting EXCEPT !.pc = "states", !.sessions = S, !.records = T]
      BY <1>1 DEF SweepInventory
    <3>2. \A S, T \in SUBSET Paths :
            co' = [Resting EXCEPT !.pc = "states", !.sessions = S, !.records = T]
              => co'.pc = "states" /\ co'.job = "sweep" /\ co'.state.run = 0
      BY DEF Resting, NoState
    <3> QED
      BY <3>1, <3>2, <1>t, Moves
  <2>b. UNCHANGED <<rec, dir, cut, session, gh, lastRun, elsewhere>>
    BY <1>1 DEF SweepInventory, files, durable, bounds
  <2>1. OwnedRecorded' /\ MadeInv'
    BY <2>a, <2>b, <1>t DEF OwnedRecorded, MadeInv, Lives
  <2>2. LanesHaveCheckouts'
    BY <2>a, <2>b, <1>t DEF LanesHaveCheckouts, Lives
  <2>3. RunInv' /\ TaskInv'
    BY <2>a, <2>b, <1>t DEF RunInv, TaskInv
  <2>4. HandInv'
    BY <2>a, <2>b, <1>t DEF HandInv, OwnWorktree, Lives, TaskInv
  <2>5. CoderInv'
    BY <2>a, <2>b, <1>t DEF CoderInv, Lives, TaskInv
  <2>6. WaveInv'
    BY <2>a, <2>b, <1>t DEF WaveInv, TaskInv
  <2> QED
    BY <2>1, <2>2, <2>3, <2>4, <2>5, <2>6
<1>2. CASE SweepStates
  <2>a. At("states") /\ (Ended \/ (co'.pc = "sessions" /\ co'.job = co.job /\ co'.state = gh))
    <3>1. /\ At("states")
          /\ \/ Rest
             \/ \E S : co' = [co EXCEPT !.pc = "sessions", !.state = gh, !.current = TRUE, !.sessions = S]
      BY <1>2 DEF SweepStates
    <3>2. \A S : co' = [co EXCEPT !.pc = "sessions", !.state = gh, !.current = TRUE, !.sessions = S]
                  => co'.pc = "sessions" /\ co'.job = co.job /\ co'.state = gh
      BY <1>t DEF TypeOK, Memory
    <3> QED
      BY Zenon, <3>1, <3>2, <1>t, Moves DEF At, Ended
  <2>b. UNCHANGED <<rec, dir, cut, session, gh, lastRun, elsewhere>>
    BY <1>2 DEF SweepStates, files, durable, bounds
  <2>1. OwnedRecorded' /\ MadeInv'
    BY <2>a, <2>b, <1>t DEF OwnedRecorded, MadeInv, Lives
  <2>2. LanesHaveCheckouts'
    BY <2>a, <2>b, <1>t DEF LanesHaveCheckouts, Lives
  <2>3. RunInv' /\ TaskInv'
    BY <2>a, <2>b, <1>t DEF RunInv, TaskInv
  <2>4. HandInv'
    BY <2>a, <2>b, <1>t DEF HandInv, OwnWorktree, Lives, TaskInv
  <2>5. CoderInv'
    BY <2>a, <2>b, <1>t DEF CoderInv, Lives, TaskInv
  <2>6. WaveInv'
    BY <2>a, <2>b, <1>t DEF WaveInv, TaskInv
  <2> QED
    BY <2>1, <2>2, <2>3, <2>4, <2>5, <2>6
<1>3. CASE \E p \in Paths : SweepSession(p)
  <2>a. At("sessions") /\ (Ended \/ (co'.pc = "sessions" /\ co'.job = co.job /\ co'.state = co.state))
    BY <1>3, <1>t, Moves DEF SweepSession, TypeOK, Memory
  <2>b. UNCHANGED <<rec, dir, cut, gh, lastRun, elsewhere>>
    BY <1>3 DEF SweepSession, files, durable, bounds
  <2>c. \A p \in Paths : session'[p] \in {session[p], 0}
    BY <1>3, <1>t DEF SweepSession
  <2>1. OwnedRecorded' /\ MadeInv'
    BY <2>a, <2>b, <2>c, <1>t DEF OwnedRecorded, MadeInv, Lives
  <2>2. LanesHaveCheckouts'
    BY <2>a, <2>b, <2>c, <1>t DEF LanesHaveCheckouts, Lives
  <2>3. RunInv' /\ TaskInv'
    BY <2>a, <2>b, <2>c, <1>t DEF RunInv, TaskInv
  <2>4. HandInv'
    BY <2>a, <2>b, <2>c, <1>t DEF HandInv, OwnWorktree, Lives, TaskInv
  <2>5. CoderInv'
    BY <2>a, <2>b, <2>c, <1>t DEF CoderInv, Lives, TaskInv, Paths
  <2>6. WaveInv'
    BY <2>a, <2>b, <2>c, <1>t DEF WaveInv, TaskInv, Paths
  <2> QED
    BY <2>1, <2>2, <2>3, <2>4, <2>5, <2>6
<1>4. CASE SweepCheckouts
  <2>a. At("sessions") /\ (Ended \/ (co'.pc = "targets" /\ co'.job = co.job /\ co'.state = co.state))
    BY ZenonT(40), <1>4, <1>t, Moves DEF SweepCheckouts, TypeOK, Memory
  <2>b. UNCHANGED <<rec, dir, cut, session, gh, lastRun, elsewhere>>
    BY <1>4 DEF SweepCheckouts, files, durable, bounds
  <2>1. OwnedRecorded' /\ MadeInv'
    BY <2>a, <2>b, <1>t DEF OwnedRecorded, MadeInv, Lives
  <2>2. LanesHaveCheckouts'
    BY <2>a, <2>b, <1>t DEF LanesHaveCheckouts, Lives
  <2>3. RunInv' /\ TaskInv'
    BY <2>a, <2>b, <1>t DEF RunInv, TaskInv
  <2>4. HandInv'
    BY <2>a, <2>b, <1>t DEF HandInv, OwnWorktree, Lives, TaskInv
  <2>5. CoderInv'
    BY <2>a, <2>b, <1>t DEF CoderInv, Lives, TaskInv
  <2>6. WaveInv'
    BY <2>a, <2>b, <1>t DEF WaveInv, TaskInv
  <2> QED
    BY <2>1, <2>2, <2>3, <2>4, <2>5, <2>6
<1>5. CASE SweepVerify
  <2>a. At("targets") /\ (Ended \/ Held("schedule") \/ (co'.pc = "probe" /\ co'.job = co.job /\ co'.state = co.state))
    <3>1. /\ At("targets")
          /\ \/ Rest \/ Goto("schedule")
             \/ \E p \in Paths : co' = [co EXCEPT !.pc = "probe", !.p = p]
      <4>1. co.targets \subseteq Paths
        BY <1>t DEF TypeOK, Memory
      <4> QED
        BY <1>5, <4>1 DEF SweepVerify
    <3> QED
      BY Zenon, <3>1, <1>t, Moves DEF At, Held, Moved
  <2>b. UNCHANGED <<rec, dir, cut, session, gh, lastRun, elsewhere>>
    BY <1>5 DEF SweepVerify, files, durable, bounds
  <2>1. OwnedRecorded' /\ MadeInv'
    BY <2>a, <2>b, <1>t DEF OwnedRecorded, MadeInv, Lives
  <2>2. LanesHaveCheckouts'
    BY <2>a, <2>b, <1>t DEF LanesHaveCheckouts, Lives
  <2>3. RunInv' /\ TaskInv'
    BY <2>a, <2>b, <1>t DEF RunInv, TaskInv
  <2>4. HandInv'
    BY <2>a, <2>b, <1>t DEF HandInv, OwnWorktree, Lives, TaskInv
  <2>5. CoderInv'
    BY <2>a, <2>b, <1>t DEF CoderInv, Lives, TaskInv
  <2>6. WaveInv'
    BY <2>a, <2>b, <1>t DEF WaveInv, TaskInv
  <2> QED
    BY <2>1, <2>2, <2>3, <2>4, <2>5, <2>6
<1>6. CASE SweepProbe
  <2>a. At("probe") /\ (Ended \/ (Moved("remove", path, "targets") /\ \A p \in Probed(co.state) : session[p] # run))
    BY ZenonT(40), <1>6, <1>t, Moves DEF SweepProbe, TypeOK, Memory
  <2>b. UNCHANGED <<rec, dir, cut, session, gh, lastRun, elsewhere>>
    BY <1>6 DEF SweepProbe, files, durable, bounds
  <2>c. co'.pc = "remove" /\ session[path] # 0 => session[path] # run
    BY <2>a, <1>t DEF Probed, TaskInv, WaveInv, Paths
  <2>1. OwnedRecorded' /\ MadeInv'
    BY <2>a, <2>b, <2>c, <1>t DEF OwnedRecorded, MadeInv, Lives
  <2>2. LanesHaveCheckouts'
    BY <2>a, <2>b, <2>c, <1>t DEF LanesHaveCheckouts, Lives
  <2>3. RunInv' /\ TaskInv'
    BY <2>a, <2>b, <2>c, <1>t DEF RunInv, TaskInv
  <2>4. HandInv'
    BY <2>a, <2>b, <2>c, <1>t DEF HandInv, OwnWorktree, Lives, TaskInv
  <2>5. CoderInv'
    BY <2>a, <2>b, <2>c, <1>t DEF CoderInv, Lives, TaskInv
  <2>6. WaveInv'
    BY <2>a, <2>b, <2>c, <1>t DEF WaveInv, TaskInv
  <2> QED
    BY <2>1, <2>2, <2>3, <2>4, <2>5, <2>6
<1> QED
  BY <1>1, <1>2, <1>3, <1>4, <1>5, <1>6

\* The removal of a checkout.
LEMMA RemovalStep ==
  ASSUME CheckoutInv, TypeOK',
         Remove \/ Unlink
  PROVE  CheckoutInv'
<1> SUFFICES OwnedRecorded' /\ LanesHaveCheckouts' /\ Known'
  BY DEF CheckoutInv
<1>t. TypeOK /\ Typed
  BY Types DEF CheckoutInv
<1> USE DEF CheckoutInv, Known, Typed, At, Removing, SweepSteps, DriveSteps, run, path, Held, Moved, Ended
<1>1. CASE Remove
  <2>a. /\ At("remove")
        /\ \/ dir[path] = 0 /\ UNCHANGED dir /\ Held("unlink")
           \/ Verified /\ dir' = [dir EXCEPT ![path] = 0] /\ Held("unlink")
           \/ UNCHANGED dir /\ Ended
           \/ UNCHANGED dir /\ co.job # "sweep" /\ (Held("stop") \/ Held(co.next))
    <3>1. CASE dir[path] = 0 /\ Gone /\ UNCHANGED dir
      BY <1>1, <3>1, <1>t, Moves DEF Remove, Gone
    <3>2. CASE Verified /\ dir' = [dir EXCEPT ![path] = 0] /\ Goto("unlink")
      BY <1>1, <3>2, <1>t, Moves DEF Remove
    <3>3. CASE UNCHANGED dir /\ Kept
      <4>1. UNCHANGED dir /\ (Rest \/ (co.job # "sweep" /\ (SeatsKept \/ Goto(co.next))))
        BY <3>3, <1>1 DEF Remove, TaskInv, Kept
      <4> QED
        BY <1>1, <4>1, <1>t, Moves DEF Remove
    <3> QED
      BY <1>1, <3>1, <3>2, <3>3 DEF Remove
  <2>b. UNCHANGED <<rec, cut, session, gh, lastRun, elsewhere>>
    BY <1>1 DEF Remove, files, durable, bounds
  <2>c. dir' # dir => ~Lives(path)
    BY <2>a, <1>t DEF HandInv, MadeInv, Lives, Verified
  <2>d. \A p \in Paths : p # path => dir'[p] = dir[p]
    BY <2>a, <1>t
  <2>e. dir'[path] \in {dir[path], 0} /\ (co'.pc = "unlink" => dir'[path] = 0)
    BY <2>a, <1>t DEF TaskInv
  <2>f. dir' = dir \/ (co'.pc = "unlink" /\ co'.p = path)
    BY <2>a
  <2>1. OwnedRecorded' /\ MadeInv'
    BY <2>a, <2>c, <2>f, <2>b, <2>d, <2>e, <1>t DEF OwnedRecorded, MadeInv, Lives, Runs
  <2>2. LanesHaveCheckouts'
    BY <2>a, <2>b, <2>c, <2>d, <2>e, <1>t DEF LanesHaveCheckouts, Lives
  <2>3. RunInv' /\ TaskInv'
    BY <2>a, <2>b, <2>c, <2>d, <2>e, <1>t DEF RunInv, TaskInv
  <2>4. HandInv'
    BY <2>a, <2>b, <2>c, <2>d, <2>e, <1>t DEF HandInv, OwnWorktree, Lives, TaskInv
  <2>5. CoderInv'
    BY <2>a, <2>b, <2>c, <2>d, <2>e, <1>t DEF CoderInv, Lives, TaskInv
  <2>6. WaveInv'
    BY <2>a, <2>b, <2>c, <2>d, <2>e, <1>t DEF WaveInv, TaskInv
  <2> QED
    BY <2>1, <2>2, <2>3, <2>4, <2>5, <2>6
<1>2. CASE Unlink
  <2>a. /\ At("unlink")
        /\ \/ /\ rec' = [rec EXCEPT ![path] = NoRecord] /\ cut' = cut \ {path}
              /\ co'.pc = co.next /\ co'.job = co.job /\ co'.state = co.state
           \/ /\ UNCHANGED rec /\ cut' = cut \cup {path}
              /\ Ended \/ (co.job # "sweep" /\ (Held("stop") \/ Held(co.next)))
    <3>1. CASE co' = [co EXCEPT !.pc = co.next, !.targets = @ \ {path}]
      <4>1. co'.pc = co.next /\ co'.p = co.p /\ co'.next = co.next /\ co'.job = co.job
            /\ co'.state = co.state
        BY <3>1, <1>t DEF TypeOK, Memory
      <4>2. Kept => Ended \/ (co.job # "sweep" /\ (Held("stop") \/ Held(co.next)))
        BY <1>2, <1>t, Moves DEF Unlink, Kept, TaskInv
      <4> QED
        BY <1>2, <4>1, <4>2 DEF Unlink
    <3>2. CASE Kept /\ UNCHANGED rec /\ cut' = cut \cup {path}
      BY <1>2, <3>2, <1>t, Moves DEF Unlink, Kept, TaskInv
    <3> QED
      BY <1>2, <3>1, <3>2 DEF Unlink
  <2>b. UNCHANGED <<dir, session, gh, lastRun, elsewhere>>
    BY <1>2 DEF Unlink, files, durable, bounds
  <2>c. dir[path] \notin Runs /\ (Lives(path) => dir[path] = Lookalike)
    BY <2>a, <1>t DEF HandInv, LanesHaveCheckouts, Lives
  <2>d. /\ rec'[path].st = "none" \/ (rec' = rec /\ path \in cut')
        /\ \A p \in Paths : p # path => rec'[p] = rec[p] /\ (p \in cut => p \in cut')
    BY <2>a, <1>t DEF NoRecord
  <2>e. /\ co'.pc \in {"targets", "gate", "stop", "off"}
        /\ co'.pc = "targets" => co.job = "sweep" /\ co'.state = co.state
    BY <2>a DEF TaskInv
  <2>f. rec'["rev"] = rec["rev"] \/ rec'["rev"].st = "none"
    BY <2>d DEF Paths
  <2>1. OwnedRecorded' /\ MadeInv'
    BY <2>a, <2>b, <2>c, <2>d, <1>t DEF OwnedRecorded, MadeInv, Lives, Runs
  <2>2. LanesHaveCheckouts'
    BY <2>a, <2>b, <2>c, <2>d, <1>t DEF LanesHaveCheckouts, Lives
  <2>3. RunInv' /\ TaskInv'
    BY <2>a, <2>b, <2>c, <2>d, <1>t DEF RunInv, TaskInv
  <2>4. HandInv'
    BY <2>a, <2>b, <2>c, <2>d, <1>t DEF HandInv, OwnWorktree, Lives, TaskInv
  <2>5. CoderInv'
    BY <2>a, <2>b, <2>c, <2>d, <1>t DEF CoderInv, Lives, TaskInv
  <2>6. WaveInv'
    BY <2>a, <2>b, <2>e, <2>f DEF WaveInv
  <2> QED
    BY <2>1, <2>2, <2>3, <2>4, <2>5, <2>6
<1> QED
  BY <1>1, <1>2

\* Taking an issue up.
LEMMA TakeStep ==
  ASSUME CheckoutInv, TypeOK',
         Claim \/ Resume \/ NothingToDo \/ Acquire
  PROVE  CheckoutInv'
<1> SUFFICES OwnedRecorded' /\ LanesHaveCheckouts' /\ Known'
  BY DEF CheckoutInv
<1>t. TypeOK /\ Typed
  BY Types DEF CheckoutInv
<1> USE DEF CheckoutInv, Known, Typed, At, Removing, SweepSteps, DriveSteps, run, path, Held, Moved, Ended
<1>1. CASE Claim
  <2>a. At("schedule") /\ co'.pc = "acquire" /\ co'.job = "work" /\ co'.state.run = RunId
    BY <1>1, <1>t DEF Claim, Resting, State
  <2>b. UNCHANGED <<rec, dir, cut, session, elsewhere>>
    BY <1>1 DEF Claim, files, durable, bounds
  <2>c. gh'.run = RunId /\ gh'.phase = "active" /\ gh'.wave = gh.wave /\ gh'.coder = gh.coder /\ gh'.stopped = gh.stopped
    BY <1>1, <1>t DEF Claim, State
  <2>d. \/ RunId = lastRun + 1 /\ lastRun' = lastRun + 1 /\ gh.wave = "none"
        \/ RunId = gh.run /\ gh.run # 0 /\ lastRun' = lastRun
    BY <1>1, <1>t DEF Claim, RunId, RunInv
  <2>e. \A p \in Paths : session[p] <= lastRun
    BY DEF RunInv
  <2>1. OwnedRecorded' /\ MadeInv'
    BY <2>a, <2>b, <2>c, <2>d, <2>e, <1>t DEF OwnedRecorded, MadeInv, Lives
  <2>2. LanesHaveCheckouts'
    BY <2>a, <2>b, <2>c, <2>d, <2>e, <1>t DEF LanesHaveCheckouts, Lives
  <2>3. RunInv' /\ TaskInv'
    BY <2>a, <2>b, <2>c, <2>d, <2>e, <1>t DEF RunInv, TaskInv
  <2>4. HandInv'
    BY <2>a, <2>b, <2>c, <2>d, <2>e, <1>t DEF HandInv, OwnWorktree, Lives, TaskInv
  <2>5. CoderInv'
    BY <2>a, <2>b, <2>c, <2>d, <2>e, <1>t DEF CoderInv, Lives, TaskInv, RunInv, Paths
  <2>6. WaveInv'
    BY <2>a, <2>b, <2>c, <2>d, <2>e, <1>t DEF WaveInv, TaskInv, RunInv, Paths
  <2> QED
    BY <2>1, <2>2, <2>3, <2>4, <2>5, <2>6
<1>2. CASE Resume
  <2>a. At("schedule") /\ (Ended \/ (co'.pc = "acquire" /\ co'.job = "resume" /\ co'.state.run = gh.run))
    <3>1. /\ At("schedule")
          /\ \/ Rest
             \/ \E b \in BOOLEAN :
                  co' = [Resting EXCEPT !.pc = "acquire", !.job = "resume",
                           !.state = [gh EXCEPT !.mine = TRUE], !.atGate = b]
      BY <1>2 DEF Resume
    <3>2. \A b \in BOOLEAN, s \in State :
            co' = [Resting EXCEPT !.pc = "acquire", !.job = "resume", !.state = s, !.atGate = b]
              => co'.pc = "acquire" /\ co'.job = "resume" /\ co'.state.run = s.run
      BY DEF Resting
    <3>3. [gh EXCEPT !.mine = TRUE] \in State /\ [gh EXCEPT !.mine = TRUE].run = gh.run
      BY <1>t DEF TypeOK, State
    <3> QED
      BY <3>1, <3>2, <3>3, <1>t, Moves
  <2>b. UNCHANGED <<rec, dir, cut, session, lastRun, elsewhere>>
    BY <1>2 DEF Resume, Write, files, durable, bounds
  <2>c. gh'.run = gh.run /\ gh'.phase = gh.phase /\ gh'.wave = gh.wave /\ gh'.coder = gh.coder /\ gh'.stopped = gh.stopped /\ gh.phase = "active"
    BY <1>2, <1>t DEF Resume, Write, State
  <2>1. OwnedRecorded' /\ MadeInv'
    BY <2>a, <2>b, <2>c, <1>t DEF OwnedRecorded, MadeInv, Lives
  <2>2. LanesHaveCheckouts'
    BY <2>a, <2>b, <2>c, <1>t DEF LanesHaveCheckouts, Lives
  <2>3. RunInv' /\ TaskInv'
    BY <2>a, <2>b, <2>c, <1>t DEF RunInv, TaskInv
  <2>4. HandInv'
    BY <2>a, <2>b, <2>c, <1>t DEF HandInv, OwnWorktree, Lives, TaskInv
  <2>5. CoderInv'
    BY <2>a, <2>b, <2>c, <1>t DEF CoderInv, Lives, TaskInv
  <2>6. WaveInv'
    BY <2>a, <2>b, <2>c, <1>t DEF WaveInv, TaskInv
  <2> QED
    BY <2>1, <2>2, <2>3, <2>4, <2>5, <2>6
<1>3. CASE NothingToDo
  <2>a. At("schedule") /\ Ended
    BY <1>3, <1>t, Moves DEF NothingToDo
  <2>b. UNCHANGED <<rec, dir, cut, session, gh, lastRun, elsewhere>>
    BY <1>3 DEF NothingToDo, files, durable, bounds
  <2>1. OwnedRecorded' /\ MadeInv'
    BY <2>a, <2>b, <1>t DEF OwnedRecorded, MadeInv, Lives
  <2>2. LanesHaveCheckouts'
    BY <2>a, <2>b, <1>t DEF LanesHaveCheckouts, Lives
  <2>3. RunInv' /\ TaskInv'
    BY <2>a, <2>b, <1>t DEF RunInv, TaskInv
  <2>4. HandInv'
    BY <2>a, <2>b, <1>t DEF HandInv, OwnWorktree, Lives, TaskInv
  <2>5. CoderInv'
    BY <2>a, <2>b, <1>t DEF CoderInv, Lives, TaskInv
  <2>6. WaveInv'
    BY <2>a, <2>b, <1>t DEF WaveInv, TaskInv
  <2> QED
    BY <2>1, <2>2, <2>3, <2>4, <2>5, <2>6
<1>4. CASE Acquire
  <2>a. /\ At("acquire")
        /\ \/ Ended \/ Held("stop") \/ Held("gate") \/ (OwnWorktree /\ Held("loop"))
           \/ Moved("record", "dev", co.next)
    BY ZenonT(40), <1>4, <1>t, Moves DEF Acquire, TypeOK, Memory
  <2>b. UNCHANGED <<rec, dir, cut, session, gh, lastRun, elsewhere>>
    BY <1>4 DEF Acquire, files, durable, bounds
  <2>1. OwnedRecorded' /\ MadeInv'
    BY <2>a, <2>b, <1>t DEF OwnedRecorded, MadeInv, Lives
  <2>2. LanesHaveCheckouts'
    BY <2>a, <2>b, <1>t DEF LanesHaveCheckouts, Lives
  <2>3. RunInv' /\ TaskInv'
    BY <2>a, <2>b, <1>t DEF RunInv, TaskInv
  <2>4. HandInv'
    BY <2>a, <2>b, <1>t DEF HandInv, OwnWorktree, Lives, TaskInv
  <2>5. CoderInv'
    BY <2>a, <2>b, <1>t DEF CoderInv, Lives, TaskInv
  <2>6. WaveInv'
    BY <2>a, <2>b, <1>t DEF WaveInv, TaskInv
  <2> QED
    BY <2>1, <2>2, <2>3, <2>4, <2>5, <2>6
<1> QED
  BY <1>1, <1>2, <1>3, <1>4

\* Making a checkout.
LEMMA MakeStep ==
  ASSUME CheckoutInv, TypeOK',
         RecordCheckout \/ CreateCheckout \/ MarkMaterialized \/ Persist
  PROVE  CheckoutInv'
<1> SUFFICES OwnedRecorded' /\ LanesHaveCheckouts' /\ Known'
  BY DEF CheckoutInv
<1>t. TypeOK /\ Typed
  BY Types DEF CheckoutInv
<1> USE DEF CheckoutInv, Known, Typed, At, Removing, SweepSteps, DriveSteps, run, path, Held, Moved, Ended
<1>1. CASE RecordCheckout
  <2>a. /\ At("record")
        /\ \/ rec[path] = NoRecord /\ rec' = [rec EXCEPT ![path] = [run |-> run, st |-> "intent"]] /\ Held("create")
           \/ UNCHANGED rec /\ (Held("stop") \/ Ended)
    BY <1>1, <1>t, Moves DEF RecordCheckout
  <2>b. UNCHANGED <<dir, cut, session, gh, lastRun, elsewhere>>
    BY <1>1 DEF RecordCheckout, files, durable, bounds
  <2>c. rec' # rec => /\ Lives(path) => dir[path] = Lookalike
                      /\ dir[path] \notin Runs /\ rec'[path] = [run |-> run, st |-> "intent"]
    BY <2>a, <1>t DEF LanesHaveCheckouts, OwnedRecorded, Lives, NoRecord
  <2>d. \A p \in Paths : p # path => rec'[p] = rec[p]
    BY <2>a, <1>t
  <2>1. OwnedRecorded' /\ MadeInv'
    BY <2>a, <2>b, <2>c, <2>d, <1>t DEF OwnedRecorded, MadeInv, Lives
  <2>2. LanesHaveCheckouts'
    BY <2>a, <2>b, <2>c, <2>d, <1>t DEF LanesHaveCheckouts, Lives
  <2>3. RunInv' /\ TaskInv'
    BY <2>a, <2>b, <2>c, <2>d, <1>t DEF RunInv, TaskInv
  <2>4. HandInv'
    BY <2>a, <2>b, <2>c, <2>d, <1>t DEF HandInv, OwnWorktree, Lives, TaskInv
  <2>5. CoderInv'
    BY <2>a, <2>b, <2>c, <2>d, <1>t DEF CoderInv, Lives, TaskInv
  <2>6. WaveInv'
    BY <2>a, <2>b, <2>c, <2>d, <1>t DEF WaveInv, TaskInv, Paths
  <2> QED
    BY <2>1, <2>2, <2>3, <2>4, <2>5, <2>6
<1>2. CASE CreateCheckout
  <2>a. /\ At("create")
        /\ \/ dir[path] \in {0, Vacant} /\ dir' = [dir EXCEPT ![path] = run] /\ Held("mark")
           \/ dir[path] \in {0, Vacant} /\ dir' = [dir EXCEPT ![path] = run] /\ (Held("stop") \/ Ended)
           \/ UNCHANGED dir /\ (Held("stop") \/ Ended)
    BY <1>2, <1>t, Moves DEF CreateCheckout
  <2>b. UNCHANGED <<rec, cut, session, gh, lastRun, elsewhere>>
    BY <1>2 DEF CreateCheckout, files, durable, bounds
  <2>c. rec[path] = [run |-> run, st |-> "intent"] /\ (Lives(path) => dir[path] = Lookalike)
    BY <2>a, <1>t DEF HandInv, LanesHaveCheckouts, Lives
  <2>d. \A p \in Paths : p # path => dir'[p] = dir[p]
    BY <2>a, <1>t
  <2>e. /\ dir'[path] \in {dir[path], run} /\ (co'.pc = "mark" => dir'[path] = run)
        /\ dir' # dir => dir[path] # Lookalike
    BY <2>a, <1>t
  <2>1. OwnedRecorded' /\ MadeInv'
    BY <2>a, <2>b, <2>c, <2>d, <2>e, <1>t DEF OwnedRecorded, MadeInv, Lives
  <2>2. LanesHaveCheckouts'
    BY <2>a, <2>b, <2>c, <2>d, <2>e, <1>t DEF LanesHaveCheckouts, Lives
  <2>3. RunInv' /\ TaskInv'
    BY <2>a, <2>b, <2>c, <2>d, <2>e, <1>t DEF RunInv, TaskInv
  <2>4. HandInv'
    BY <2>a, <2>b, <2>c, <2>d, <2>e, <1>t DEF HandInv, OwnWorktree, Lives, TaskInv
  <2>5. CoderInv'
    BY <2>a, <2>b, <2>c, <2>d, <2>e, <1>t DEF CoderInv, Lives, TaskInv
  <2>6. WaveInv'
    BY <2>a, <2>b, <2>c, <2>d, <2>e, <1>t DEF WaveInv, TaskInv
  <2> QED
    BY <2>1, <2>2, <2>3, <2>4, <2>5, <2>6
<1>3. CASE MarkMaterialized
  <2>a. At("mark") /\ rec' = [rec EXCEPT ![path].st = "made"] /\ Held(IF path = "dev" THEN "persist" ELSE "prompts")
    BY <1>3, <1>t, Moves DEF MarkMaterialized
  <2>b. UNCHANGED <<dir, cut, session, gh, lastRun, elsewhere>>
    BY <1>3 DEF MarkMaterialized, files, durable, bounds
  <2>c. rec[path] = [run |-> run, st |-> "intent"] /\ ~Lives(path) /\ dir[path] = run /\ run # 0
    BY <2>a, <1>t DEF HandInv, LanesHaveCheckouts, Lives, RunInv
  <2>d. rec'[path] = [run |-> run, st |-> "made"]
    BY <2>a, <2>c, <1>t
  <2>e. \A p \in Paths : p # path => rec'[p] = rec[p]
    BY <2>a, <1>t
  <2>f. path \in {"dev", "rev"}
    BY <1>t DEF Paths
  <2>1. OwnedRecorded' /\ MadeInv'
    BY <2>a, <2>b, <2>c, <2>d, <2>e, <2>f, <1>t DEF OwnedRecorded, MadeInv, Lives
  <2>2. LanesHaveCheckouts'
    BY <2>a, <2>b, <2>c, <2>d, <2>e, <2>f, <1>t DEF LanesHaveCheckouts, Lives
  <2>3. RunInv' /\ TaskInv'
    BY <2>a, <2>b, <2>c, <2>d, <2>e, <2>f, <1>t DEF RunInv, TaskInv
  <2>4. HandInv'
    BY <2>a, <2>b, <2>c, <2>d, <2>e, <2>f, <1>t DEF HandInv, OwnWorktree, Lives, TaskInv
  <2>5. CoderInv'
    BY <2>a, <2>b, <2>c, <2>d, <2>e, <2>f, <1>t DEF CoderInv, Lives, TaskInv
  <2>6. WaveInv'
    BY <2>a, <2>b, <2>c, <2>d, <2>e, <2>f, <1>t DEF WaveInv, TaskInv
  <2> QED
    BY <2>1, <2>2, <2>3, <2>4, <2>5, <2>6
<1>4. CASE Persist
  <2>a. At("persist") /\ (Ended \/ (Owned /\ Held("loop")))
    BY <1>4, <1>t, Moves DEF Persist, Save
  <2>b. UNCHANGED <<rec, dir, cut, session, lastRun, elsewhere>>
    BY <1>4 DEF Persist, Save, Write, files, durable, bounds
  <2>c. gh'.run = gh.run /\ gh'.phase = gh.phase /\ gh'.wave = gh.wave /\ gh'.coder = gh.coder /\ gh'.stopped = gh.stopped
    BY <1>4, <1>t DEF Persist, Save, Write, State, durable
  <2>1. OwnedRecorded' /\ MadeInv'
    BY <2>a, <2>b, <2>c, <1>t DEF OwnedRecorded, MadeInv, Lives
  <2>2. LanesHaveCheckouts'
    BY <2>a, <2>b, <2>c, <1>t DEF LanesHaveCheckouts, Lives
  <2>3. RunInv' /\ TaskInv'
    BY <2>a, <2>b, <2>c, <1>t DEF RunInv, TaskInv
  <2>4. HandInv'
    BY <2>a, <2>b, <2>c, <1>t DEF HandInv, OwnWorktree, Lives, TaskInv
  <2>5. CoderInv'
    BY <2>a, <2>b, <2>c, <1>t DEF CoderInv, Lives, TaskInv
  <2>6. WaveInv'
    BY <2>a, <2>b, <2>c, <1>t DEF WaveInv, TaskInv
  <2> QED
    BY <2>1, <2>2, <2>3, <2>4, <2>5, <2>6
<1> QED
  BY <1>1, <1>2, <1>3, <1>4

\* A round.
LEMMA RoundStep ==
  ASSUME CheckoutInv, TypeOK',
         LoopTop \/ CoderTurn \/ PlanSeats \/ RecordPrompts \/ RunSeat \/ SaveReport \/ EndSeats
  PROVE  CheckoutInv'
<1> SUFFICES OwnedRecorded' /\ LanesHaveCheckouts' /\ Known'
  BY DEF CheckoutInv
<1>t. TypeOK /\ Typed
  BY Types DEF CheckoutInv
<1> USE DEF CheckoutInv, Known, Typed, At, Removing, SweepSteps, DriveSteps, run, path, Held, Moved, Ended
<1>1. CASE LoopTop
  <2>a. /\ At("loop")
        /\ \/ UNCHANGED gh /\ (Ended \/ Held("stop") \/ Held("plan") \/ Moved("seats_end", path, "gate"))
           \/ UNCHANGED gh /\ gh.wave = "prompted" /\ Held("seat")
           \/ Owned /\ gh' = [gh EXCEPT !.coder = TRUE, !.stopped = FALSE] /\ Held("turn")
    <3>1. At("loop")
      BY <1>1 DEF LoopTop
    <3>2. CASE /\ gh.wave \in {"planned", "prompted", "reported"} /\ UNCHANGED gh
               /\ CASE gh.wave = "planned"  -> Escalate
                    [] gh.wave = "prompted" -> Goto("seat")
                    [] gh.wave = "reported" -> co' = [co EXCEPT !.pc = "seats_end", !.next = "gate",
                                                                           !.recovered = TRUE]
      <4>1. \/ Escalate \/ (gh.wave = "prompted" /\ Goto("seat"))
            \/ co' = [co EXCEPT !.pc = "seats_end", !.next = "gate", !.recovered = TRUE]
        BY <3>2
      <4> QED
        BY Zenon, <3>1, <3>2, <4>1, <1>t, Moves DEF At, Held, Moved
    <3>3. CASE UNCHANGED gh /\ (Rest \/ Goto("plan"))
      BY Zenon, <3>1, <3>3, <1>t, Moves DEF At, Held, Moved
    <3>4. CASE Owned /\ gh' = [gh EXCEPT !.coder = TRUE, !.stopped = FALSE] /\ Goto("turn")
      BY Zenon, <3>1, <3>4, <1>t, Moves DEF At, Held, Moved
    <3> QED
      BY <1>1, <3>2, <3>3, <3>4 DEF LoopTop, Save, Write, durable
  <2>b. UNCHANGED <<rec, dir, cut, session, lastRun, elsewhere>>
    BY <1>1 DEF LoopTop, Save, Write, files, durable, bounds
  <2>c. /\ gh'.run = gh.run /\ gh'.phase = gh.phase /\ gh'.wave = gh.wave
        /\ gh' = gh \/ (gh'.coder /\ ~gh'.stopped)
    BY <2>a, <1>t DEF State
  <2>d. gh' = gh \/ co'.pc = "turn"
    BY <2>a
  <2>e. co'.pc = "turn" => gh'.coder /\ ~gh'.stopped
    BY <2>a, <1>t DEF State
  <2>g. co'.pc = "seat" => gh.wave = "prompted" /\ gh.run = run
    BY <2>a DEF RunInv
  <2>1. OwnedRecorded' /\ MadeInv'
    BY <2>a, <2>b, <2>c, <2>d, <2>e, <1>t DEF OwnedRecorded, MadeInv, Lives
  <2>2. LanesHaveCheckouts'
    BY <2>a, <2>b, <2>c, <2>d, <2>e, <1>t DEF LanesHaveCheckouts, Lives
  <2>3. RunInv' /\ TaskInv'
    BY <2>a, <2>b, <2>c, <2>d, <2>e, <1>t DEF RunInv, TaskInv
  <2>4. HandInv'
    BY <2>a, <2>b, <2>c, <2>d, <2>e, <1>t DEF HandInv, OwnWorktree, Lives, TaskInv
  <2>5. CoderInv'
    BY <2>a, <2>b, <2>c, <2>d, <2>e, <1>t DEF CoderInv, Lives, TaskInv
  <2>6. WaveInv'
    BY <2>g, <2>a, <2>b, <2>c, <2>d, <2>e, <1>t DEF WaveInv, TaskInv
  <2> QED
    BY <2>1, <2>2, <2>3, <2>4, <2>5, <2>6
<1>2. CASE CoderTurn
  <2>a. At("turn") /\ (Ended \/ Held("plan") \/ Held("stop"))
    BY <1>2, <1>t, Moves DEF CoderTurn
  <2>b. UNCHANGED <<rec, dir, cut, gh, lastRun, elsewhere>>
    BY <1>2 DEF CoderTurn, files, durable, bounds
  <2>c. session' = session \/ session' = [session EXCEPT !["dev"] = run]
    BY <1>2, <1>t DEF CoderTurn
  <2>d. session'["rev"] = session["rev"] /\ session'["dev"] \in {session["dev"], run}
    BY <2>c, <1>t DEF Paths
  <2>e. rec["dev"] = [run |-> run, st |-> "made"] /\ dir["dev"] \in {run, Lookalike}
    BY <2>a, <1>t DEF HandInv, OwnWorktree, OwnedRecorded, Paths
  <2>f. \A p \in Paths : p = "dev" \/ p = "rev"
    BY DEF Paths
  <2>1. OwnedRecorded' /\ MadeInv'
    BY <2>a, <2>b, <2>c, <2>d, <2>e, <2>f, <1>t DEF OwnedRecorded, MadeInv, Lives
  <2>2. LanesHaveCheckouts'
    BY <2>a, <2>b, <2>c, <2>d, <2>e, <2>f, <1>t DEF LanesHaveCheckouts, Lives
  <2>3. RunInv' /\ TaskInv'
    BY <2>a, <2>b, <2>c, <2>d, <2>e, <2>f, <1>t DEF RunInv, TaskInv
  <2>4. HandInv'
    BY <2>a, <2>b, <2>c, <2>d, <2>e, <2>f, <1>t DEF HandInv, OwnWorktree, Lives, TaskInv
  <2>5. CoderInv'
    BY <2>a, <2>b, <2>c, <2>d, <2>e, <2>f, <1>t DEF CoderInv, Lives, TaskInv
  <2>6. WaveInv'
    BY <2>a, <2>b, <2>c, <2>d, <2>e, <2>f, <1>t DEF WaveInv, TaskInv
  <2> QED
    BY <2>1, <2>2, <2>3, <2>4, <2>5, <2>6
<1>3. CASE PlanSeats
  <2>a. /\ At("plan")
        /\ \/ gh' = [gh EXCEPT !.wave = "planned"] /\ rec["rev"] = NoRecord /\ Moved("record", "rev", co.next)
           \/ UNCHANGED gh /\ (Ended \/ Held("gate") \/ Held("stop"))
    <3>1. /\ At("plan")
          /\ \/ /\ gh' = [gh EXCEPT !.wave = "planned"] /\ rec["rev"] = NoRecord
                /\ co' = [co EXCEPT !.pc = "record", !.p = "rev"]
             \/ UNCHANGED gh /\ (Rest \/ Goto("gate") \/ Escalate)
      BY <1>3 DEF PlanSeats, Write, durable
    <3> QED
      BY Zenon, <3>1, <1>t, Moves DEF At, Held, Moved
  <2>b. UNCHANGED <<rec, dir, cut, session, lastRun, elsewhere>>
    BY <1>3 DEF PlanSeats, Write, files, durable, bounds
  <2>c. /\ gh'.run = gh.run /\ gh'.phase = gh.phase /\ gh'.coder = gh.coder /\ gh'.stopped = gh.stopped
        /\ gh' = gh \/ (gh'.wave = "planned" /\ co'.pc = "record")
        /\ co'.pc = "record" => gh'.wave = "planned"
    BY <2>a, <1>t DEF State
  <2>o. gh' = gh \/ (gh.phase = "active" /\ gh.run = run)
    BY <1>3 DEF PlanSeats, Save, Write, Owned, durable
  <2>1. OwnedRecorded' /\ MadeInv'
    BY <2>a, <2>b, <2>c, <1>t DEF OwnedRecorded, MadeInv, Lives
  <2>2. LanesHaveCheckouts'
    BY <2>a, <2>b, <2>c, <1>t DEF LanesHaveCheckouts, Lives
  <2>3. RunInv' /\ TaskInv'
    BY <2>o, <2>a, <2>b, <2>c, <1>t DEF RunInv, TaskInv
  <2>4. HandInv'
    BY <2>a, <2>b, <2>c, <1>t DEF HandInv, OwnWorktree, Lives, TaskInv
  <2>5. CoderInv'
    BY <2>a, <2>b, <2>c, <1>t DEF CoderInv, Lives, TaskInv
  <2>6. WaveInv'
    BY <2>o, <2>a, <2>b, <2>c, <1>t DEF WaveInv, TaskInv
  <2> QED
    BY <2>1, <2>2, <2>3, <2>4, <2>5, <2>6
<1>4. CASE RecordPrompts
  <2>a. /\ At("prompts")
        /\ \/ UNCHANGED gh /\ (Ended \/ Moved("remove", path, "stop"))
           \/ gh' = [gh EXCEPT !.wave = "prompted"] /\ Held("seat")
    <3>1. /\ At("prompts")
          /\ \/ UNCHANGED gh /\ (Rest \/ co' = [co EXCEPT !.pc = "remove", !.next = "stop"])
             \/ gh' = [gh EXCEPT !.wave = "prompted"] /\ Goto("seat")
      BY <1>4 DEF RecordPrompts, Save, Write, durable
    <3> QED
      BY Zenon, <3>1, <1>t, Moves DEF At, Held, Moved
  <2>b. UNCHANGED <<rec, dir, cut, session, lastRun, elsewhere>>
    BY <1>4 DEF RecordPrompts, Save, Write, files, durable, bounds
  <2>c. /\ gh'.run = gh.run /\ gh'.phase = gh.phase /\ gh'.coder = gh.coder /\ gh'.stopped = gh.stopped
        /\ gh' = gh \/ gh'.wave = "prompted"
        /\ co'.pc = "seat" => gh'.wave = "prompted"
    BY <2>a, <1>t DEF State
  <2>d. path = "rev" /\ rec["rev"] = [run |-> run, st |-> "made"] /\ ~Lives("rev") /\ run # 0
    BY <2>a DEF HandInv, RunInv
  <2>o. gh' = gh \/ (gh.phase = "active" /\ gh.run = run)
    BY <1>4 DEF RecordPrompts, Save, Write, Owned, durable
  <2>1. OwnedRecorded' /\ MadeInv'
    BY <2>a, <2>b, <2>c, <2>d, <1>t DEF OwnedRecorded, MadeInv, Lives
  <2>2. LanesHaveCheckouts'
    BY <2>a, <2>b, <2>c, <2>d, <1>t DEF LanesHaveCheckouts, Lives
  <2>3. RunInv' /\ TaskInv'
    BY <2>o, <2>a, <2>b, <2>c, <2>d, <1>t DEF RunInv, TaskInv
  <2>4. HandInv'
    BY <2>a, <2>b, <2>c, <2>d, <1>t DEF HandInv, OwnWorktree, Lives, TaskInv
  <2>5. CoderInv'
    BY <2>a, <2>b, <2>c, <2>d, <1>t DEF CoderInv, Lives, TaskInv
  <2>6. WaveInv'
    BY <2>o, <2>a, <2>b, <2>c, <2>d, <1>t DEF WaveInv, TaskInv
  <2> QED
    BY <2>1, <2>2, <2>3, <2>4, <2>5, <2>6
<1>5. CASE RunSeat
  <2>a. At("seat") /\ (Ended \/ Held("report") \/ Held("stop"))
    BY <1>5, <1>t, Moves DEF RunSeat
  <2>b. UNCHANGED <<rec, dir, cut, gh, lastRun, elsewhere>>
    BY <1>5 DEF RunSeat, files, durable, bounds
  <2>c. session' = session \/ (session' = [session EXCEPT !["rev"] = run] /\ dir["rev"] \in {run, Lookalike})
    BY <1>5, <1>t DEF RunSeat
  <2>d. session'["dev"] = session["dev"] /\ session'["rev"] \in {session["rev"], run}
    BY <2>c, <1>t DEF Paths
  <2>e. dir["rev"] = run => rec["rev"] = [run |-> run, st |-> "made"]
    <3>1. run \in Runs /\ rec["rev"] \in Record /\ rec["rev"].st \in {"none", "made"}
      BY <2>a, <1>t DEF RunInv, WaveInv, Runs, TypeOK, Memory, State, Paths
    <3> QED
      BY <3>1 DEF OwnedRecorded, Record, Paths
  <2>g. rec["rev"].st = "made" => rec["rev"].run = run
    BY <2>a DEF WaveInv
  <2>f. \A p \in Paths : p = "dev" \/ p = "rev"
    BY DEF Paths
  <2>1. OwnedRecorded' /\ MadeInv'
    BY <2>g, <2>a, <2>b, <2>c, <2>d, <2>e, <2>f, <1>t DEF OwnedRecorded, MadeInv, Lives
  <2>2. LanesHaveCheckouts'
    BY <2>g, <2>a, <2>b, <2>c, <2>d, <2>e, <2>f, <1>t DEF LanesHaveCheckouts, Lives
  <2>3. RunInv' /\ TaskInv'
    BY <2>a, <2>b, <2>c, <2>d, <2>e, <2>f, <1>t DEF RunInv, TaskInv
  <2>4. HandInv'
    BY <2>a, <2>b, <2>c, <2>d, <2>e, <2>f, <1>t DEF HandInv, OwnWorktree, Lives, TaskInv
  <2>5. CoderInv'
    BY <2>a, <2>b, <2>c, <2>d, <2>e, <2>f, <1>t DEF CoderInv, Lives, TaskInv
  <2>6. WaveInv'
    BY <2>a, <2>b, <2>c, <2>d, <2>e, <2>f, <1>t DEF WaveInv, TaskInv
  <2> QED
    BY <2>1, <2>2, <2>3, <2>4, <2>5, <2>6
<1>6. CASE SaveReport
  <2>a. At("report") /\ (Ended \/ Moved("seats_end", path, "gate") \/ Moved("seats_end", path, "stop"))
    BY ZenonT(40), <1>6, <1>t, Moves DEF SaveReport, TypeOK, Memory
  <2>b. UNCHANGED <<rec, dir, cut, session, lastRun, elsewhere>>
    BY <1>6 DEF SaveReport, Write, files, durable, bounds
  <2>c. /\ gh'.run = gh.run /\ gh'.phase = gh.phase /\ gh'.coder = gh.coder /\ gh'.stopped = gh.stopped
        /\ gh'.wave \in {gh.wave, "reported"}
    BY <1>6, <1>t DEF SaveReport, Write, State, durable
  <2>o. gh' = gh \/ (gh.phase = "active" /\ gh.run = run)
    BY <1>6 DEF SaveReport, Save, Write, Owned, durable
  <2>1. OwnedRecorded' /\ MadeInv'
    BY <2>a, <2>b, <2>c, <1>t DEF OwnedRecorded, MadeInv, Lives
  <2>2. LanesHaveCheckouts'
    BY <2>a, <2>b, <2>c, <1>t DEF LanesHaveCheckouts, Lives
  <2>3. RunInv' /\ TaskInv'
    BY <2>o, <2>a, <2>b, <2>c, <1>t DEF RunInv, TaskInv
  <2>4. HandInv'
    BY <2>a, <2>b, <2>c, <1>t DEF HandInv, OwnWorktree, Lives, TaskInv
  <2>5. CoderInv'
    BY <2>a, <2>b, <2>c, <1>t DEF CoderInv, Lives, TaskInv
  <2>6. WaveInv'
    BY <2>o, <2>a, <2>b, <2>c, <1>t DEF WaveInv, TaskInv
  <2> QED
    BY <2>1, <2>2, <2>3, <2>4, <2>5, <2>6
<1>7. CASE EndSeats
  <2>a. /\ At("seats_end")
        /\ \/ session' = [session EXCEPT !["rev"] = 0] /\ Moved("remove", "rev", co.next)
           \/ UNCHANGED session /\ (Ended \/ Held("stop"))
    <3>1. /\ At("seats_end")
          /\ \/ session' = [session EXCEPT !["rev"] = 0] /\ co' = [co EXCEPT !.pc = "remove", !.p = "rev"]
             \/ UNCHANGED session /\ SeatsKept
      BY <1>7 DEF EndSeats
    <3>2. SeatsKept => Held("stop") \/ Ended
      BY <1>t, Moves
    <3>3. co' = [co EXCEPT !.pc = "remove", !.p = "rev"] => Moved("remove", "rev", co.next)
      BY Zenon, <1>t, Moves
    <3> QED
      BY <3>1, <3>2, <3>3
  <2>b. UNCHANGED <<rec, dir, cut, gh, lastRun, elsewhere>>
    BY <1>7 DEF EndSeats, files, durable, bounds
  <2>c. session'["dev"] = session["dev"] /\ session'["rev"] \in {session["rev"], 0} /\ (co'.pc = "remove" => session'["rev"] = 0)
    BY <2>a, <1>t DEF Paths
  <2>f. \A p \in Paths : p = "dev" \/ p = "rev"
    BY DEF Paths
  <2>1. OwnedRecorded' /\ MadeInv'
    BY <2>a, <2>b, <2>c, <2>f, <1>t DEF OwnedRecorded, MadeInv, Lives
  <2>2. LanesHaveCheckouts'
    BY <2>a, <2>b, <2>c, <2>f, <1>t DEF LanesHaveCheckouts, Lives
  <2>3. RunInv' /\ TaskInv'
    BY <2>a, <2>b, <2>c, <2>f, <1>t DEF RunInv, TaskInv
  <2>4. HandInv'
    BY <2>a, <2>b, <2>c, <2>f, <1>t DEF HandInv, OwnWorktree, Lives, TaskInv
  <2>5. CoderInv'
    BY <2>a, <2>b, <2>c, <2>f, <1>t DEF CoderInv, Lives, TaskInv
  <2>6. WaveInv'
    BY <2>a, <2>b, <2>c, <2>f, <1>t DEF WaveInv, TaskInv
  <2> QED
    BY <2>1, <2>2, <2>3, <2>4, <2>5, <2>6
<1> QED
  BY <1>1, <1>2, <1>3, <1>4, <1>5, <1>6, <1>7

\* The gate and the end.
LEMMA EndStep ==
  ASSUME CheckoutInv, TypeOK',
         Gate \/ StopLanes \/ RecordStopped \/ Settle \/ Release
  PROVE  CheckoutInv'
<1> SUFFICES OwnedRecorded' /\ LanesHaveCheckouts' /\ Known'
  BY DEF CheckoutInv
<1>t. TypeOK /\ Typed
  BY Types DEF CheckoutInv
<1> USE DEF CheckoutInv, Known, Typed, At, Removing, SweepSteps, DriveSteps, run, path, Held, Moved, Ended
<1>1. CASE Gate
  <2>a. At("gate") /\ (Ended \/ Held("stop"))
    <3>1. Rest \/ \E v \in Verdicts : co' = [co EXCEPT !.pc = "stop", !.verdict = v]
      BY <1>1 DEF Gate
    <3>2. At("gate")
      BY <1>1 DEF Gate
    <3> QED
      BY Zenon, <3>1, <3>2, <1>t, Moves DEF At, Held, Moved
  <2>b. UNCHANGED <<rec, dir, cut, session, lastRun, elsewhere>>
    BY <1>1 DEF Gate, Write, files, durable, bounds
  <2>c. /\ gh'.run = gh.run /\ gh'.phase = gh.phase /\ gh'.coder = gh.coder /\ gh'.stopped = gh.stopped
        /\ gh'.wave \in {gh.wave, "gated"}
    BY <1>1, <1>t DEF Gate, Write, State, durable
  <2>o. gh' = gh \/ (gh.phase = "active" /\ gh.run = run)
    BY <1>1 DEF Gate, Save, Write, Owned, durable
  <2>1. OwnedRecorded' /\ MadeInv'
    BY <2>a, <2>b, <2>c, <1>t DEF OwnedRecorded, MadeInv, Lives
  <2>2. LanesHaveCheckouts'
    BY <2>a, <2>b, <2>c, <1>t DEF LanesHaveCheckouts, Lives
  <2>3. RunInv' /\ TaskInv'
    BY <2>o, <2>a, <2>b, <2>c, <1>t DEF RunInv, TaskInv
  <2>4. HandInv'
    BY <2>a, <2>b, <2>c, <1>t DEF HandInv, OwnWorktree, Lives, TaskInv
  <2>5. CoderInv'
    BY <2>a, <2>b, <2>c, <1>t DEF CoderInv, Lives, TaskInv
  <2>6. WaveInv'
    BY <2>o, <2>a, <2>b, <2>c, <1>t DEF WaveInv, TaskInv
  <2> QED
    BY <2>1, <2>2, <2>3, <2>4, <2>5, <2>6
<1>2. CASE StopLanes
  <2>a. /\ At("stop")
        /\ \/ Ended /\ UNCHANGED session
           \/ Owned /\ gh.stopped /\ Held("settle") /\ UNCHANGED session
           \/ Owned /\ Held("stopped")
              /\ session' = [dev |-> IF gh.coder THEN 0 ELSE session["dev"],
                             rev |-> IF gh.wave # "none" THEN 0 ELSE session["rev"]]
    BY <1>2, <1>t, Moves DEF StopLanes
  <2>b. UNCHANGED <<rec, dir, cut, gh, lastRun, elsewhere>>
    BY <1>2 DEF StopLanes, files, durable, bounds
  <2>c. /\ session'["dev"] \in {session["dev"], 0} /\ session'["rev"] \in {session["rev"], 0}
        /\ co'.pc = "stopped" /\ gh.coder => session'["dev"] = 0
    BY <2>a, <1>t DEF Paths
  <2>d. co'.pc \in {"stopped", "settle"} => gh.run = run
    BY <2>a DEF Owned
  <2>f. \A p \in Paths : p = "dev" \/ p = "rev"
    BY DEF Paths
  <2>1. OwnedRecorded' /\ MadeInv'
    BY <2>a, <2>b, <2>c, <2>d, <2>f, <1>t DEF OwnedRecorded, MadeInv, Lives
  <2>2. LanesHaveCheckouts'
    BY <2>a, <2>b, <2>c, <2>d, <2>f, <1>t DEF LanesHaveCheckouts, Lives
  <2>3. RunInv' /\ TaskInv'
    BY <2>a, <2>b, <2>c, <2>d, <2>f, <1>t DEF RunInv, TaskInv
  <2>4. HandInv'
    BY <2>a, <2>b, <2>c, <2>d, <2>f, <1>t DEF HandInv, OwnWorktree, Lives, TaskInv
  <2>5. CoderInv'
    BY <2>a, <2>b, <2>c, <2>d, <2>f, <1>t DEF CoderInv, Lives, TaskInv
  <2>6. WaveInv'
    BY <2>a, <2>b, <2>c, <2>d, <2>f, <1>t DEF WaveInv, TaskInv
  <2> QED
    BY <2>1, <2>2, <2>3, <2>4, <2>5, <2>6
<1>3. CASE RecordStopped
  <2>a. At("stopped") /\ ((Ended /\ gh' = gh) \/ (Owned /\ Held("settle") /\ gh' = [gh EXCEPT !.stopped = TRUE]))
    BY <1>3, <1>t, Moves DEF RecordStopped, Save, Write, durable
  <2>b. UNCHANGED <<rec, dir, cut, session, lastRun, elsewhere>>
    BY <1>3 DEF RecordStopped, Save, Write, files, durable, bounds
  <2>c. /\ gh'.run = gh.run /\ gh'.phase = gh.phase /\ gh'.coder = gh.coder /\ gh'.wave = gh.wave
        /\ gh'.stopped = gh.stopped \/ gh.run = run
    BY <2>a, <1>t DEF State, Owned
  <2>1. OwnedRecorded' /\ MadeInv'
    BY <2>a, <2>b, <2>c, <1>t DEF OwnedRecorded, MadeInv, Lives
  <2>2. LanesHaveCheckouts'
    BY <2>a, <2>b, <2>c, <1>t DEF LanesHaveCheckouts, Lives
  <2>3. RunInv' /\ TaskInv'
    BY <2>a, <2>b, <2>c, <1>t DEF RunInv, TaskInv
  <2>4. HandInv'
    BY <2>a, <2>b, <2>c, <1>t DEF HandInv, OwnWorktree, Lives, TaskInv
  <2>5. CoderInv'
    BY <2>a, <2>b, <2>c, <1>t DEF CoderInv, Lives, TaskInv
  <2>6. WaveInv'
    BY <2>a, <2>b, <2>c, <1>t DEF WaveInv, TaskInv
  <2> QED
    BY <2>1, <2>2, <2>3, <2>4, <2>5, <2>6
<1>4. CASE Settle
  <2>a. At("settle") /\ (Ended \/ Held("release"))
    BY <1>4, <1>t, Moves DEF Settle, Save
  <2>b. UNCHANGED <<rec, dir, cut, session, lastRun, elsewhere>>
    BY <1>4 DEF Settle, Save, Write, files, durable, bounds
  <2>c. /\ gh'.run = gh.run /\ gh'.coder = gh.coder /\ gh'.wave = gh.wave /\ gh'.stopped = gh.stopped
        /\ gh' = gh \/ (gh.run = run /\ run # 0 /\ gh'.phase # "none")
    BY <1>4, <1>t, <2>a DEF Settle, Save, Write, durable, State, Owned, RunInv, Terminal
  <2>1. OwnedRecorded' /\ MadeInv'
    BY <2>a, <2>b, <2>c, <1>t DEF OwnedRecorded, MadeInv, Lives
  <2>2. LanesHaveCheckouts'
    BY <2>a, <2>b, <2>c, <1>t DEF LanesHaveCheckouts, Lives
  <2>3. RunInv' /\ TaskInv'
    BY <2>a, <2>b, <2>c, <1>t DEF RunInv, TaskInv
  <2>4. HandInv'
    BY <2>a, <2>b, <2>c, <1>t DEF HandInv, OwnWorktree, Lives, TaskInv
  <2>5. CoderInv'
    BY <2>a, <2>b, <2>c, <1>t DEF CoderInv, Lives, TaskInv
  <2>6. WaveInv'
    BY <2>a, <2>b, <2>c, <1>t DEF WaveInv, TaskInv
  <2> QED
    BY <2>1, <2>2, <2>3, <2>4, <2>5, <2>6
<1>5. CASE Release
  <2>a. At("release") /\ (Ended \/ Moved("remove", "dev", "off"))
    <3>1. At("release") /\ (Rest \/ co' = [co EXCEPT !.pc = "remove", !.p = "dev", !.next = "off"])
      BY <1>5 DEF Release
    <3>2. co' = [co EXCEPT !.pc = "remove", !.p = "dev", !.next = "off"] => Moved("remove", "dev", "off")
      BY <1>t DEF TypeOK, Memory
    <3> QED
      BY <3>1, <3>2, <1>t, Moves
  <2>b. UNCHANGED <<rec, dir, cut, session, gh, lastRun, elsewhere>>
    BY <1>5 DEF Release, files, durable, bounds
  <2>1. OwnedRecorded' /\ MadeInv'
    BY <2>a, <2>b, <1>t DEF OwnedRecorded, MadeInv, Lives
  <2>2. LanesHaveCheckouts'
    BY <2>a, <2>b, <1>t DEF LanesHaveCheckouts, Lives
  <2>3. RunInv' /\ TaskInv'
    BY <2>a, <2>b, <1>t DEF RunInv, TaskInv
  <2>4. HandInv'
    BY <2>a, <2>b, <1>t DEF HandInv, OwnWorktree, Lives, TaskInv, CoderInv
  <2>5. CoderInv'
    BY <2>a, <2>b, <1>t DEF CoderInv, Lives, TaskInv
  <2>6. WaveInv'
    BY <2>a, <2>b, <1>t DEF WaveInv, TaskInv
  <2> QED
    BY <2>1, <2>2, <2>3, <2>4, <2>5, <2>6
<1> QED
  BY <1>1, <1>2, <1>3, <1>4, <1>5

\* Time, others and death.
LEMMA OtherStep ==
  ASSUME CheckoutInv, TypeOK',
         Age \/ LaneEdits \/ (\E p \in Paths : Occupy(p)) \/ UNCHANGED vars \/ Requeue \/ DeleteState \/ TakeOver \/ OtherSettles \/ Crash
  PROVE  CheckoutInv'
<1> SUFFICES OwnedRecorded' /\ LanesHaveCheckouts' /\ Known'
  BY DEF CheckoutInv
<1>t. TypeOK /\ Typed
  BY Types DEF CheckoutInv
<1> USE DEF CheckoutInv, Known, Typed, At, Removing, SweepSteps, DriveSteps, run, path, Held, Moved, Ended
<1>1. CASE Age \/ LaneEdits \/ UNCHANGED vars
  <2>b. UNCHANGED <<rec, dir, cut, session, co, gh, lastRun, elsewhere>>
    BY <1>1 DEF Age, LaneEdits, vars, files, durable, bounds
  <2>1. OwnedRecorded' /\ MadeInv'
    BY <2>b, <1>t DEF OwnedRecorded, MadeInv, Lives
  <2>2. LanesHaveCheckouts'
    BY <2>b, <1>t DEF LanesHaveCheckouts, Lives
  <2>3. RunInv' /\ TaskInv'
    BY <2>b, <1>t DEF RunInv, TaskInv
  <2>4. HandInv'
    BY <2>b, <1>t DEF HandInv, OwnWorktree, Lives, TaskInv
  <2>5. CoderInv'
    BY <2>b, <1>t DEF CoderInv, Lives, TaskInv
  <2>6. WaveInv'
    BY <2>b, <1>t DEF WaveInv, TaskInv
  <2> QED
    BY <2>1, <2>2, <2>3, <2>4, <2>5, <2>6
<1>2. CASE Requeue
  <2>a. co'.pc = co.pc /\ co'.p = co.p /\ co'.job = co.job /\ co'.next = co.next /\ co'.state = co.state
    BY <1>2, <1>t DEF Requeue, Foreign, TypeOK, Memory
  <2>b. UNCHANGED <<rec, dir, cut, session, lastRun, elsewhere>>
    BY <1>2 DEF Requeue, Foreign, files, durable, bounds
  <2>c. gh'.run = gh.run /\ gh.phase # "none" /\ gh'.phase # "none" /\ gh'.wave = gh.wave /\ gh'.coder = gh.coder /\ gh'.stopped = gh.stopped
    BY <1>2, <1>t DEF Requeue, Foreign, State, NoState
  <2>1. OwnedRecorded' /\ MadeInv'
    BY <2>a, <2>b, <2>c, <1>t DEF OwnedRecorded, MadeInv, Lives
  <2>2. LanesHaveCheckouts'
    BY <2>a, <2>b, <2>c, <1>t DEF LanesHaveCheckouts, Lives
  <2>3. RunInv' /\ TaskInv'
    BY <2>a, <2>b, <2>c, <1>t DEF RunInv, TaskInv
  <2>4. HandInv'
    BY <2>a, <2>b, <2>c, <1>t DEF HandInv, OwnWorktree, Lives, TaskInv
  <2>5. CoderInv'
    BY <2>a, <2>b, <2>c, <1>t DEF CoderInv, Lives, TaskInv
  <2>6. WaveInv'
    BY <2>a, <2>b, <2>c, <1>t DEF WaveInv, TaskInv
  <2> QED
    BY <2>1, <2>2, <2>3, <2>4, <2>5, <2>6
<1>3. CASE DeleteState
  <2>a. co'.pc = co.pc /\ co'.p = co.p /\ co'.job = co.job /\ co'.next = co.next /\ co'.state = co.state
    BY <1>3, <1>t DEF DeleteState, Foreign, TypeOK, Memory
  <2>b. UNCHANGED <<rec, dir, cut, session, lastRun, elsewhere>>
    BY <1>3 DEF DeleteState, Foreign, files, durable, bounds
  <2>c. gh'.run = 0 /\ gh'.phase = "none" /\ gh'.wave = "none"
    BY <1>3, <1>t DEF DeleteState, Foreign, State, NoState
  <2>1. OwnedRecorded' /\ MadeInv'
    BY <2>a, <2>b, <2>c, <1>t DEF OwnedRecorded, MadeInv, Lives
  <2>2. LanesHaveCheckouts'
    BY <2>a, <2>b, <2>c, <1>t DEF LanesHaveCheckouts, Lives
  <2>3. RunInv' /\ TaskInv'
    BY <2>a, <2>b, <2>c, <1>t DEF RunInv, TaskInv
  <2>4. HandInv'
    BY <2>a, <2>b, <2>c, <1>t DEF HandInv, OwnWorktree, Lives, TaskInv
  <2>5. CoderInv'
    BY <2>a, <2>b, <2>c, <1>t DEF CoderInv, Lives, TaskInv, RunInv, Paths
  <2>6. WaveInv'
    BY <2>a, <2>b, <2>c, <1>t DEF WaveInv, TaskInv, RunInv, Paths
  <2> QED
    BY <2>1, <2>2, <2>3, <2>4, <2>5, <2>6
<1>4. CASE TakeOver
  <2>a. co'.pc = co.pc /\ co'.p = co.p /\ co'.job = co.job /\ co'.next = co.next /\ co'.state = co.state
    BY <1>4, <1>t DEF TakeOver, Foreign, TypeOK, Memory
  <2>b. UNCHANGED <<rec, dir, cut, session, lastRun, elsewhere>>
    BY <1>4 DEF TakeOver, Foreign, files, durable, bounds
  <2>c. gh'.run = gh.run /\ gh'.phase = gh.phase /\ gh'.wave = gh.wave /\ gh'.coder = gh.coder /\ gh'.stopped = gh.stopped
    BY <1>4, <1>t DEF TakeOver, Foreign, State, NoState
  <2>1. OwnedRecorded' /\ MadeInv'
    BY <2>a, <2>b, <2>c, <1>t DEF OwnedRecorded, MadeInv, Lives
  <2>2. LanesHaveCheckouts'
    BY <2>a, <2>b, <2>c, <1>t DEF LanesHaveCheckouts, Lives
  <2>3. RunInv' /\ TaskInv'
    BY <2>a, <2>b, <2>c, <1>t DEF RunInv, TaskInv
  <2>4. HandInv'
    BY <2>a, <2>b, <2>c, <1>t DEF HandInv, OwnWorktree, Lives, TaskInv
  <2>5. CoderInv'
    BY <2>a, <2>b, <2>c, <1>t DEF CoderInv, Lives, TaskInv
  <2>6. WaveInv'
    BY <2>a, <2>b, <2>c, <1>t DEF WaveInv, TaskInv
  <2> QED
    BY <2>1, <2>2, <2>3, <2>4, <2>5, <2>6
<1>5. CASE OtherSettles
  <2>a. co'.pc = co.pc /\ co'.p = co.p /\ co'.job = co.job /\ co'.next = co.next /\ co'.state = co.state
    BY <1>5, <1>t DEF OtherSettles, Foreign, TypeOK, Memory
  <2>b. UNCHANGED <<rec, dir, cut, session, lastRun>>
    BY <1>5 DEF OtherSettles, Foreign, files, durable, bounds
  <2>c. gh'.run = gh.run /\ gh.phase # "none" /\ gh'.phase # "none" /\ gh'.wave = gh.wave /\ elsewhere' = elsewhere \cup {gh.run}
    BY <1>5, <1>t DEF OtherSettles, Foreign, State
  <2>1. OwnedRecorded' /\ MadeInv'
    BY <2>a, <2>b, <2>c, <1>t DEF OwnedRecorded, MadeInv, Lives
  <2>2. LanesHaveCheckouts'
    BY <2>a, <2>b, <2>c, <1>t DEF LanesHaveCheckouts, Lives
  <2>3. RunInv' /\ TaskInv'
    BY <2>a, <2>b, <2>c, <1>t DEF RunInv, TaskInv
  <2>4. HandInv'
    BY <2>a, <2>b, <2>c, <1>t DEF HandInv, OwnWorktree, Lives, TaskInv
  <2>5. CoderInv'
    BY <2>a, <2>b, <2>c, <1>t DEF CoderInv, Lives, TaskInv
  <2>6. WaveInv'
    BY <2>a, <2>b, <2>c, <1>t DEF WaveInv, TaskInv
  <2> QED
    BY <2>1, <2>2, <2>3, <2>4, <2>5, <2>6
<1>6. CASE Crash
  <2>a. Ended
    BY <1>6, <1>t, Moves DEF Crash
  <2>b. UNCHANGED <<dir, session, gh, lastRun, elsewhere>>
    BY <1>6 DEF Crash, files, durable, bounds
  <2>c. \/ rec' = rec
        \/ /\ rec' = [rec EXCEPT ![path] = [run |-> run, st |-> "torn"]]
           /\ At("mark") \/ (At("record") /\ rec[path] = NoRecord)
    BY <1>6, <1>t DEF Crash
  <2>d. rec' # rec => rec'[path] = [run |-> run, st |-> "torn"] /\ rec[path].st # "made" /\ (dir[path] \in Runs => dir[path] = run)
    BY <2>c, <1>t DEF HandInv, OwnedRecorded, NoRecord
  <2>e. \A p \in Paths : p # path => rec'[p] = rec[p]
    BY <2>c, <1>t
  <2>f. rec' # rec /\ path = "rev" => gh.wave \in {"planned", "none"}
    BY <2>c DEF WaveInv
  <2>g. cut \subseteq cut' /\ (At("unlink") => path \in cut')
    BY <1>6 DEF Crash
  <2>1. OwnedRecorded' /\ MadeInv'
    BY <2>g, <2>a, <2>b, <2>c, <2>d, <2>e, <2>f, <1>t DEF OwnedRecorded, MadeInv, Lives
  <2>2. LanesHaveCheckouts'
    BY <2>a, <2>b, <2>c, <2>d, <2>e, <2>f, <1>t DEF LanesHaveCheckouts, Lives
  <2>3. RunInv' /\ TaskInv'
    BY <2>a, <2>b, <2>c, <2>d, <2>e, <2>f, <1>t DEF RunInv, TaskInv
  <2>4. HandInv'
    BY <2>a, <2>b, <2>c, <2>d, <2>e, <2>f, <1>t DEF HandInv, OwnWorktree, Lives, TaskInv
  <2>5. CoderInv'
    BY <2>a, <2>b, <2>c, <2>d, <2>e, <2>f, <1>t DEF CoderInv, Lives, TaskInv
  <2>6. WaveInv'
    BY <2>a, <2>b, <2>c, <2>d, <2>e, <2>f, <1>t DEF WaveInv, TaskInv, Paths
  <2> QED
    BY <2>1, <2>2, <2>3, <2>4, <2>5, <2>6
<1>7. CASE \E p \in Paths : Occupy(p)
  <2>a. PICK q \in Paths : Occupy(q)
    BY <1>7
  <2>b. UNCHANGED <<rec, cut, session, co, gh, lastRun, elsewhere>>
    BY <2>a DEF Occupy
  <2>c. dir[q] \in {0, Vacant} /\ dir'[q] \notin Runs /\ \A p \in Paths : p # q => dir'[p] = dir[p]
    BY <2>a, <1>t DEF Occupy, Theirs
  <2>d. \A p \in Paths : dir[p] \in Runs \cup {Lookalike} => dir'[p] = dir[p]
    BY <2>c, <1>t
  <2>1. OwnedRecorded' /\ MadeInv'
    BY <2>b, <2>c, <2>d, <1>t DEF OwnedRecorded, MadeInv, Lives
  <2>2. LanesHaveCheckouts'
    BY <2>b, <2>d, <1>t DEF LanesHaveCheckouts, Lives
  <2>3. RunInv' /\ TaskInv'
    BY <2>b, <1>t DEF RunInv, TaskInv
  <2>4. HandInv'
    BY <2>b, <2>c, <2>d, <1>t DEF HandInv, OwnWorktree, Lives, TaskInv, Paths, RunInv
  <2>5. CoderInv'
    BY <2>b, <1>t DEF CoderInv, Lives, TaskInv
  <2>6. WaveInv'
    BY <2>b, <1>t DEF WaveInv, TaskInv
  <2> QED
    BY <2>1, <2>2, <2>3, <2>4, <2>5, <2>6
<1> QED
  BY <1>1, <1>2, <1>3, <1>4, <1>5, <1>6, <1>7

LEMMA CheckoutStep == CheckoutInv /\ [Next]_vars => CheckoutInv'
<1> SUFFICES ASSUME CheckoutInv, [Next]_vars PROVE CheckoutInv'
  OBVIOUS
<1>1. TypeOK'
  BY TypeStep DEF CheckoutInv, Known
<1>2. CASE Sweep
  BY <1>1, <1>2, SweepStep DEF Sweep
<1>3. CASE Remove \/ Unlink
  BY <1>1, <1>3, RemovalStep
<1>4. CASE Drive
  BY <1>1, <1>4, TakeStep, MakeStep, RoundStep, EndStep DEF Drive
<1>5. CASE Others \/ Crash \/ UNCHANGED vars
  BY <1>1, <1>5, OtherStep DEF Others
<1> QED
  BY <1>2, <1>3, <1>4, <1>5 DEF Next, Coordinator

LEMMA CheckoutInvariant == Spec => []CheckoutInv
  BY InitCheckouts, CheckoutStep, PTL DEF Spec

\* A step that changes what is at a path puts something where there was nothing,
\* moves into an empty directory, or removes what the record of a run calls its
\* own; and a record does not outlive its checkout where no removal broke off.
LEMMA DirectoryStep ==
  ASSUME CheckoutInv, Next, NEW p \in Paths, dir[p] \in Theirs, p \notin cut
  PROVE  dir'[p] = dir[p]
<1>t. TypeOK /\ Typed
  BY Types DEF CheckoutInv
<1>o. dir[p] \notin Runs /\ dir[p] \notin {0, Vacant}
  BY <1>t DEF Typed, Theirs
<1> USE CheckoutAssumption DEF Typed, path, run
<1>1. CASE Remove
  <2>1. \/ UNCHANGED dir
        \/ dir' = [dir EXCEPT ![path] = 0] /\ rec[path].st = "made" /\ At("remove")
    BY <1>1 DEF Remove, Verified
  <2>2. rec[p].st = "made" => At("unlink")
    BY <1>o DEF CheckoutInv, Known, MadeInv
  <2>3. At("remove") => ~At("unlink")
    BY DEF At
  <2> QED
    BY <2>1, <2>2, <2>3, <1>t
<1>2. CASE CreateCheckout
  <2>1. UNCHANGED dir \/ (dir[path] \in {0, Vacant} /\ dir' = [dir EXCEPT ![path] = run])
    BY <1>2 DEF CreateCheckout
  <2> QED
    BY <2>1, <1>o, <1>t
<1>3. CASE Sweep
  BY <1>3 DEF Sweep, SweepInventory, SweepStates, SweepSession, SweepCheckouts, SweepVerify, SweepProbe, files
<1>4. CASE Drive /\ ~CreateCheckout
  BY <1>4 DEF Drive, Claim, Resume, NothingToDo, Acquire, RecordCheckout, MarkMaterialized, Persist,
     LoopTop, CoderTurn, PlanSeats, RecordPrompts, RunSeat, SaveReport, EndSeats, Gate, StopLanes,
     RecordStopped, Settle, Release, files
<1>5. CASE \E q \in Paths : Occupy(q)
  BY <1>5, <1>o, <1>t DEF Occupy
<1>6. CASE Unlink \/ (Others /\ ~\E q \in Paths : Occupy(q)) \/ Crash
  BY <1>6 DEF Unlink, Others, Crash, Age, LaneEdits, Requeue, DeleteState, TakeOver, OtherSettles,
     Foreign, files
<1> QED
  BY <1>1, <1>2, <1>3, <1>4, <1>5, <1>6 DEF Next, Coordinator
----------------------------------------------------------------------------
\* The durable state, the records and the coordinator's memory keep their types.
THEOREM CheckoutsTyped == Spec => []TypeOK
<1>1. CheckoutInv => TypeOK
  BY DEF CheckoutInv
<1> QED
  BY <1>1, CheckoutInvariant, PTL

\* git_ops.py:92-110 and 199-208: the inventory finds every directory that the
\* coordinator made, after any crash, and no later run takes it over.
THEOREM DirectoriesRecorded == Spec => []OwnedRecorded
<1>1. CheckoutInv => OwnedRecorded
  BY DEF CheckoutInv
<1> QED
  BY <1>1, CheckoutInvariant, PTL

\* cleanup.py:57-66, foreman.py:1590-1604: neither the sweeper nor the foreman
\* takes the checkout from under a lane of this host.
THEOREM LanesKeepCheckouts == Spec => []LanesHaveCheckouts
<1>1. CheckoutInv => LanesHaveCheckouts
  BY DEF CheckoutInv
<1> QED
  BY <1>1, CheckoutInvariant, PTL

\* git_ops.py:238-300: no removal reaches what somebody else keeps at a path,
\* where no removal broke off between the directory and the record.
THEOREM OthersKeepTheirs == Spec => HumanKept
<1>1. CheckoutInv /\ [Next]_vars =>
        [\A p \in Paths : dir[p] \in Theirs /\ p \notin cut => dir'[p] = dir[p]]_dir
  <2> SUFFICES ASSUME CheckoutInv, [Next]_vars, dir' # dir, NEW p \in Paths, dir[p] \in Theirs,
                      p \notin cut
               PROVE  dir'[p] = dir[p]
    OBVIOUS
  <2>1. Next
    BY DEF vars, files
  <2> QED
    BY <2>1, DirectoryStep
<1> QED
  BY <1>1, CheckoutInvariant, PTL DEF Spec, HumanKept
=============================================================================
