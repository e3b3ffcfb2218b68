-------------------------- MODULE ReviewWaveProofs --------------------------
(***************************************************************************)
(* What two threads write into one state comment, for any set of           *)
(* reviewers, any lease and any bounds: no write that its version check    *)
(* covers loses a reviewer's result, undoes a takeover or leaves a report  *)
(* without the results it rests on.                                        *)
(***************************************************************************)
EXTENDS ReviewWave, TLAPS

Copies == {state, base, current, call["main"], call["keeper"]}

\* b has the results that a has, and the one is the other but for the claim.
Keeps(a, b) == \A l \in Lanes : a.receipts[l] = "result" => b.receipts[l] = "result"
Alike(a, b) == a.receipts = b.receipts /\ a.report = b.report
Complete(s) == s.report => \A l \in Lanes : s.receipts[l] = "result"

\* What the seat in main's memory says of l's receipt.
Answered(l) == seat[l] \in {"ok", "stored"}
Holds(s, l) == Answered(l) => s.receipts[l] = "result"

\* Nobody holds the version of a rival's claim, and no thread writes one.
ClaimInv ==
  /\ state.owner = "rival" => held = {}
  /\ base.owner = "us" /\ current.owner = "us"
  /\ call["main"].owner = "us" /\ call["keeper"].owner = "us"

\* A dead process remembers nothing and beats no more.
DeadInv ==
  At("main", "dead") => base = Planned /\ call["main"] = Planned /\ call["keeper"] = Planned
                        /\ At("keeper", "off")

\* What is saved, by the step.
StageInv ==
  /\ pc["main"] \in {"wait", "load", "join", "reload"} => stage = "receipt"
  /\ At("main", "round") => stage = "round"

\* A result is in no copy before main has it from the seat.
SeatInv ==
  /\ At("main", "load") => seat[lane] \in {"ok", "error"}
  /\ \A l \in Lanes :
       \/ Answered(l)
       \/ /\ state.receipts[l] # "result" /\ base.receipts[l] # "result"
          /\ current.receipts[l] # "result"
          /\ call["main"].receipts[l] # "result" /\ call["keeper"].receipts[l] # "result"

\* While the keeper holds the version, it renews what is there.
KeeperInv ==
  "keeper" \in held =>
    /\ pc["keeper"] \in {"wait", "check", "write"} => Alike(current, state)
    /\ pc["keeper"] \in {"check", "write"} => Alike(call["keeper"], current)
    /\ At("keeper", "verify") => Alike(call["keeper"], state)

\* Main writes what is there and what it adds.
MainInv ==
  /\ pc["main"] \in {"fresh", "check", "write", "verify", "round"} => Keeps(state, base)
  /\ pc["main"] \in {"check", "write"} => Keeps(call["main"], base)
  /\ "main" \in held /\ pc["main"] \in {"check", "write"} => Keeps(state, call["main"])
  /\ "main" \in held /\ At("main", "verify") => Alike(call["main"], state)

\* As long as the wave goes well, what main has is stored or about to be.
ReceiptInv ==
  stage = "receipt" =>
    /\ pc["main"] \in {"wait", "join", "reload"} => \A l \in Lanes : Holds(state, l)
    /\ At("main", "load") => \A l \in Lanes \ {lane} : Holds(state, l)
    /\ pc["main"] \in {"fresh", "check", "write", "verify"} => \A l \in Lanes : Holds(base, l)
    /\ pc["main"] \in {"check", "write", "verify"} => call["main"] = base

\* A report comes with every result, in every copy.
ReportInv == \A s \in Copies : Complete(s)

Covered == KeeperInv /\ MainInv /\ ReceiptInv /\ ReportInv
WaveInv == TypeOK /\ ClaimInv /\ DeadInv /\ StageInv /\ SeatInv /\ (~overtaken => Covered)

\* States that a step may make.
LEMMA StatesOf ==
  ASSUME TypeOK
  PROVE  /\ Planned \in State
         /\ \A s \in State : Renewed(s) \in State
         /\ \A r \in {"result", "error"} : [state EXCEPT !.receipts[lane] = r] \in State
         /\ \A b \in BOOLEAN : [state EXCEPT !.report = b] \in State
         /\ [Renewed(state) EXCEPT !.owner = "rival"] \in State
<1> USE WaveAssumption DEF TypeOK, State
<1>1. Lease \in Nat /\ MaxClock \in Nat
  OBVIOUS
<1>2. Planned \in State
  BY <1>1 DEF Planned
<1>3. clock + Lease \in 0..(MaxClock + Lease)
  BY <1>1
<1>4. \A s \in State : Renewed(s) \in State
  BY <1>3 DEF Renewed
<1>5. \A r \in {"result", "error"} : [state EXCEPT !.receipts[lane] = r] \in State
  OBVIOUS
<1>6. \A b \in BOOLEAN : [state EXCEPT !.report = b] \in State
  OBVIOUS
<1>7. [Renewed(state) EXCEPT !.owner = "rival"] \in State
  <2>1. state \in State
    OBVIOUS
  <2>2. Renewed(state) \in State
    BY <1>4, <2>1
  <2> QED
    BY <2>2
<1> QED
  BY <1>2, <1>4, <1>5, <1>6, <1>7

LEMMA InitWave == Init => WaveInv
<1> SUFFICES ASSUME Init PROVE WaveInv
  OBVIOUS
<1>1. (CHOOSE l \in Lanes : TRUE) \in Lanes
  BY WaveAssumption
<1>2. Planned \in State
  BY WaveAssumption DEF Planned, State
<1>3. TypeOK
  <2>1. {state, base, current} \subseteq State /\ call \in [Threads -> State]
    BY <1>2 DEF Init
  <2>2. held \subseteq Threads /\ pc \in [Threads -> Steps]
    BY DEF Init, Threads, Steps
  <2>3. stage \in Stages /\ lane \in Lanes /\ seat \in [Lanes -> Outcomes] /\ failure \in Failures
    BY <1>1 DEF Init, Stages, Outcomes, Failures
  <2>4. clock \in 0..MaxClock /\ beats \in 0..MaxBeats /\ faults \in 0..MaxFaults
    BY WaveAssumption DEF Init
  <2> QED
    BY <2>1, <2>2, <2>3, <2>4 DEF Init, TypeOK
<1>4. ClaimInv /\ DeadInv /\ StageInv /\ SeatInv
  BY DEF Init, ClaimInv, DeadInv, StageInv, SeatInv, Answered, At, Planned, Threads
<1>5. KeeperInv /\ MainInv /\ ReceiptInv
  BY DEF Init, KeeperInv, MainInv, ReceiptInv, Alike, Holds, Answered, At, Planned, Threads
<1>6. ReportInv
  <2>1. \A s \in Copies : s = Planned
    BY DEF Init, Copies, Threads
  <2>2. Planned.report = FALSE
    BY DEF Planned
  <2> QED
    BY <2>1, <2>2 DEF ReportInv, Complete
<1> QED
  BY <1>3, <1>4, <1>5, <1>6 DEF WaveInv, Covered

LEMMA TypeStep == TypeOK /\ [Next]_vars => TypeOK'
<1> SUFFICES ASSUME TypeOK, [Next]_vars PROVE TypeOK'
  OBVIOUS
<1> USE WaveAssumption, StatesOf DEF TypeOK
<1>a. {"main", "keeper"} \subseteq Threads
  BY DEF Threads
<1>b. /\ {"wait", "load", "fresh", "check", "write", "verify", "drain", "leave"} \subseteq Steps
      /\ {"join", "reload", "round", "stop_lanes", "off", "dead", "end"} \subseteq Steps
  BY DEF Steps
<1>c. \A t \in Threads, step \in Steps : Goto(t, step) => pc' \in [Threads -> Steps]
  BY DEF Goto
<1>d. Raise => pc' \in [Threads -> Steps]
  BY <1>a, <1>b, <1>c DEF Raise
<1>e. \A t \in Threads : Forget(t) => call' \in [Threads -> State]
  BY DEF Forget
<1>f. \A t \in Threads, s \in State, h \in SUBSET Threads :
        Begin(t, s, h) => held' \in SUBSET Threads /\ call' \in [Threads -> State]
                          /\ pc' \in [Threads -> Steps]
  BY <1>b, <1>c DEF Begin
<1>g. Fault => faults' \in 0..MaxFaults
  BY DEF Fault
<1>h. \A why \in Failures : KeeperEnds(why) =>
        /\ pc' \in [Threads -> Steps] /\ call' \in [Threads -> State]
        /\ current' \in State /\ failure' \in Failures
  BY <1>a, <1>b, <1>c, <1>e DEF KeeperEnds
<1>i. {"receipt", "round", "report"} \subseteq Stages
  BY DEF Stages
<1>j. {"none", "revoked", "expired", "conflict", "lost", "fault"} \subseteq Failures
  BY DEF Failures
<1>k. {"running", "stored", "ok", "error"} \subseteq Outcomes
  BY DEF Outcomes
<1>1. CASE Reclaim
  BY <1>1 DEF Reclaim, main, keeper
<1>2. CASE Tick
  BY <1>2 DEF Tick, store, main, keeper
<1>3. CASE Crash
  BY <1>3, <1>a, <1>b, <1>g DEF Crash, store, main, keeper
<1>4. CASE \E t \in Threads : Check(t) \/ Write(t)
  BY <1>4, <1>a, <1>b, <1>c DEF Check, Write, store, main, keeper
<1>5. CASE \E l \in Lanes : Collect(l)
  BY <1>5, <1>a, <1>b, <1>c, <1>k DEF Collect, store, main, keeper
<1>6. CASE LoadReceipt
  BY <1>6, <1>a, <1>b, <1>c, <1>d DEF LoadReceipt, store, main, keeper
<1>7. CASE Fresh
  BY <1>7, <1>a, <1>d, <1>f DEF Fresh, store, main, keeper
<1>8. CASE MainSaved
  <2>1. call' \in [Threads -> State]
    BY <1>8, <1>a, <1>e DEF MainSaved
  <2>2. pc' \in [Threads -> Steps] /\ base' \in State /\ stage' \in Stages
    <3> USE <1>8, <1>a, <1>b, <1>c, <1>i DEF MainSaved
    <3>1. CASE stage = "receipt"
      BY <3>1
    <3>2. CASE stage = "round"
      BY <3>2
    <3>3. CASE stage = "report"
      BY <3>3
    <3> QED
      BY <3>1, <3>2, <3>3 DEF Stages
  <2> QED
    BY <2>1, <2>2, <1>8 DEF MainSaved, store, main, keeper
<1>9. CASE MainFails
  BY <1>9, <1>a, <1>d, <1>e, <1>g DEF MainFails, store, main, keeper
<1>10. CASE Drain
  BY <1>10, <1>a, <1>b, <1>c DEF Drain, store, main, keeper
<1>11. CASE Join
  BY <1>11, <1>a, <1>b, <1>c DEF Join, store, main, keeper
<1>12. CASE Reload
  <2>1. Accepted \in BOOLEAN
    BY DEF Accepted
  <2> QED
    BY <2>1, <1>12, <1>a, <1>b, <1>c, <1>i DEF Reload, store, main, keeper
<1>13. CASE Round
  BY <1>13, <1>a, <1>b, <1>c, <1>f, <1>i DEF Round, store, main, keeper
<1>14. CASE Resume
  <2>1. pc' \in [Threads -> Steps]
    BY <1>14, <1>a, <1>b, <1>c DEF Resume
  <2>2. state' \in State /\ current' \in State /\ held' \in SUBSET Threads
    BY <1>14, <1>a DEF Resume, store
  <2>3. seat' \in [Lanes -> Outcomes] /\ stage' \in Stages /\ failure' \in Failures
    BY <1>14, <1>i, <1>j, <1>k DEF Resume
  <2> QED
    BY <2>1, <2>2, <2>3, <1>14 DEF Resume, store, main, keeper
<1>15. CASE Beat
  BY <1>15, <1>a, <1>b, <1>c, <1>f, <1>h, <1>j DEF Beat, Compared, store, main, keeper
<1>16. CASE KeeperSaved
  BY <1>16, <1>a, <1>b, <1>c, <1>e DEF KeeperSaved, store, main, keeper
<1>17. CASE KeeperFails
  BY <1>17, <1>g, <1>h, <1>j DEF KeeperFails, store, main, keeper
<1>18. CASE StopLanes
  BY <1>18, <1>h, <1>j DEF StopLanes, store, main, keeper
<1>19. CASE KeeperStops
  BY <1>19, <1>a, <1>b, <1>c DEF KeeperStops, store, main, keeper
<1>20. CASE UNCHANGED vars
  BY <1>20 DEF vars, store, main, keeper
<1> QED
  BY <1>1, <1>2, <1>3, <1>4, <1>5, <1>6, <1>7, <1>8, <1>9, <1>10, <1>11, <1>12, <1>13, <1>14,
     <1>15, <1>16, <1>17, <1>18, <1>19, <1>20
  DEF Next, Main, Keeper, Threads

\* The main thread's steps.
LEMMA MainStep ==
  ASSUME WaveInv, TypeOK',
         (\E l \in Lanes : Collect(l)) \/ LoadReceipt \/ Fresh \/ MainSaved \/ MainFails \/ Drain \/ Join \/ Reload \/ Round \/ Resume
  PROVE  WaveInv'
<1> USE DEF WaveInv, TypeOK, Threads, At, Goto, Planned, State, store, main, keeper
<1>1. CASE \E l \in Lanes : Collect(l)
  <2> USE <1>1 DEF Collect
  <2>1. ClaimInv' /\ DeadInv' /\ StageInv'
    BY DEF ClaimInv, DeadInv, StageInv
  <2>2. SeatInv'
    BY DEF SeatInv, Answered
  <2>3. ASSUME ~overtaken' PROVE KeeperInv' /\ MainInv'
    BY <2>3 DEF Covered, KeeperInv, MainInv, Alike, Keeps
  <2>4. ASSUME ~overtaken' PROVE ReceiptInv'
    BY <2>4 DEF Covered, ReceiptInv, KeeperInv, MainInv, Alike, Holds, Answered
  <2>5. ASSUME ~overtaken' PROVE ReportInv'
    BY <2>5 DEF Covered, ReportInv, Copies, Complete
  <2> QED
    BY <2>1, <2>2, <2>3, <2>4, <2>5 DEF WaveInv, Covered
<1>2. CASE LoadReceipt
  <2> USE <1>2
  <2>a. CASE ~Owned
    <3>1. /\ pc'["main"] \in {"drain", "end"} /\ pc'["keeper"] = pc["keeper"]
          /\ UNCHANGED <<state, held, overtaken, base, call, stage, lane, seat, current>>
      BY <2>a DEF LoadReceipt, Raise
    <3>2. ClaimInv' /\ DeadInv' /\ StageInv' /\ SeatInv'
      BY <3>1 DEF ClaimInv, DeadInv, StageInv, SeatInv, Answered
    <3>3. ASSUME ~overtaken' PROVE Covered'
      BY <3>1, <3>3 DEF Covered, KeeperInv, MainInv, ReceiptInv, ReportInv, Copies, Complete, Alike, Keeps,
                        Holds, Answered
    <3> QED
      BY <3>2, <3>3
  <2>b. CASE Owned
    <3>1. /\ pc'["main"] = "fresh" /\ pc'["keeper"] = pc["keeper"] /\ At("main", "load")
          /\ UNCHANGED <<state, held, overtaken, call, stage, lane, seat, current>>
          /\ base' = [state EXCEPT !.receipts[lane] = IF seat[lane] = "ok" THEN "result" ELSE "error"]
      BY <2>b DEF LoadReceipt
    <3>2. /\ base'.owner = "us" /\ base'.report = state.report
          /\ \A l \in Lanes \ {lane} : base'.receipts[l] = state.receipts[l]
          /\ base'.receipts[lane] = IF seat[lane] = "ok" THEN "result" ELSE "error"
      BY <3>1, <2>b DEF Owned
    <3>3. seat[lane] \in {"ok", "error"} /\ (~Answered(lane) => state.receipts[lane] # "result")
      BY <3>1 DEF SeatInv
    <3>4. ClaimInv' /\ DeadInv' /\ StageInv'
      BY <3>1, <3>2 DEF ClaimInv, DeadInv, StageInv
    <3>5. SeatInv'
      BY <3>1, <3>2, <3>3 DEF SeatInv, Answered
    <3>6. ASSUME ~overtaken' PROVE KeeperInv' /\ Keeps(state, base)'
      BY <3>1, <3>2, <3>3, <3>6 DEF Covered, KeeperInv, Alike, Keeps, Answered
    <3>7. ASSUME ~overtaken' PROVE MainInv'
      BY <3>1, <3>6, <3>7 DEF MainInv
    <3>8. ASSUME ~overtaken' PROVE ReceiptInv'
      BY <3>1, <3>2, <3>3, <3>8 DEF Covered, ReceiptInv, Holds, Answered
    <3>9. ASSUME ~overtaken' PROVE ReportInv'
      <4>1. Complete(base)'
        BY <3>1, <3>2, <3>3, <3>9 DEF Covered, ReportInv, Copies, Complete, Answered
      <4> QED
        BY <4>1, <3>1, <3>9 DEF Covered, ReportInv, Copies, Complete
    <3> QED
      BY <3>4, <3>5, <3>6, <3>7, <3>8, <3>9 DEF Covered
  <2> QED
    BY <2>a, <2>b
<1>3. CASE Fresh
  <2> USE <1>3 DEF Fresh, MayWrite, Raise, Owned, Begin
  <2>1. ClaimInv' /\ DeadInv' /\ StageInv'
    BY DEF ClaimInv, DeadInv, StageInv
  <2>2. SeatInv'
    BY DEF SeatInv, Answered
  <2>3. ASSUME ~overtaken' PROVE KeeperInv' /\ MainInv'
    BY <2>3 DEF Covered, KeeperInv, MainInv, Alike, Keeps
  <2>4. ASSUME ~overtaken' PROVE ReceiptInv'
    BY <2>4 DEF Covered, ReceiptInv, KeeperInv, MainInv, Alike, Holds, Answered
  <2>5. ASSUME ~overtaken' PROVE ReportInv'
    BY <2>5 DEF Covered, ReportInv, Copies, Complete
  <2> QED
    BY <2>1, <2>2, <2>3, <2>4, <2>5 DEF WaveInv, Covered
<1>4. CASE MainSaved
  <2>a. /\ At("main", "verify") /\ "main" \in held
        /\ call'["main"] = Planned /\ call'["keeper"] = call["keeper"]
        /\ UNCHANGED <<state, held, overtaken, lane, seat, current>>
    BY <1>4 DEF MainSaved, Saved, Forget
  <2>b. /\ pc'["keeper"] = pc["keeper"]
        /\ \/ stage = "receipt" /\ pc'["main"] = "wait" /\ base' = Planned /\ stage' = stage
           \/ stage = "round" /\ pc'["main"] = "fresh" /\ base' = base /\ stage' = "report"
           \/ stage = "report" /\ pc'["main"] = "end" /\ base' = base /\ stage' = stage
    <3> USE <1>4 DEF MainSaved
    <3>1. CASE stage = "receipt"
      BY <3>1
    <3>2. CASE stage = "round"
      BY <3>2
    <3>3. CASE stage = "report"
      BY <3>3
    <3> QED
      BY <3>1, <3>2, <3>3 DEF Stages
  <2>1. ClaimInv' /\ DeadInv' /\ StageInv'
    BY <2>a, <2>b DEF ClaimInv, DeadInv, StageInv
  <2>2. SeatInv'
    BY <2>a, <2>b DEF SeatInv, Answered
  <2>3. ASSUME ~overtaken' PROVE KeeperInv' /\ MainInv'
    BY ZenonT(40), <2>a, <2>b, <2>3 DEF Covered, KeeperInv, MainInv, Alike, Keeps
  <2>4. ASSUME ~overtaken' PROVE ReceiptInv'
    BY <2>a, <2>b, <2>4 DEF Covered, ReceiptInv, MainInv, Alike, Holds, Answered
  <2>5. ASSUME ~overtaken' PROVE ReportInv'
    BY <2>a, <2>b, <2>5 DEF Covered, ReportInv, Copies, Complete
  <2> QED
    BY <2>1, <2>2, <2>3, <2>4, <2>5 DEF WaveInv, Covered
<1>5. CASE MainFails
  <2> USE <1>5 DEF MainFails, Conflict, Raise, Forget
  <2>1. ClaimInv' /\ DeadInv' /\ StageInv'
    BY DEF ClaimInv, DeadInv, StageInv
  <2>2. SeatInv'
    BY DEF SeatInv, Answered
  <2>3. ASSUME ~overtaken' PROVE KeeperInv' /\ MainInv'
    BY <2>3 DEF Covered, KeeperInv, MainInv, Alike, Keeps
  <2>4. ASSUME ~overtaken' PROVE ReceiptInv'
    BY <2>4 DEF Covered, ReceiptInv, KeeperInv, MainInv, Alike, Holds, Answered
  <2>5. ASSUME ~overtaken' PROVE ReportInv'
    BY <2>5 DEF Covered, ReportInv, Copies, Complete
  <2> QED
    BY <2>1, <2>2, <2>3, <2>4, <2>5 DEF WaveInv, Covered
<1>6. CASE Drain
  <2> USE <1>6 DEF Drain
  <2>1. ClaimInv' /\ DeadInv' /\ StageInv'
    BY DEF ClaimInv, DeadInv, StageInv
  <2>2. SeatInv'
    BY DEF SeatInv, Answered
  <2>3. ASSUME ~overtaken' PROVE KeeperInv' /\ MainInv'
    BY <2>3 DEF Covered, KeeperInv, MainInv, Alike, Keeps
  <2>4. ASSUME ~overtaken' PROVE ReceiptInv'
    BY <2>4 DEF Covered, ReceiptInv, KeeperInv, MainInv, Alike, Holds, Answered
  <2>5. ASSUME ~overtaken' PROVE ReportInv'
    BY <2>5 DEF Covered, ReportInv, Copies, Complete
  <2> QED
    BY <2>1, <2>2, <2>3, <2>4, <2>5 DEF WaveInv, Covered
<1>7. CASE Join
  <2> USE <1>7 DEF Join
  <2>1. ClaimInv' /\ DeadInv' /\ StageInv'
    BY DEF ClaimInv, DeadInv, StageInv
  <2>2. SeatInv'
    BY DEF SeatInv, Answered
  <2>3. ASSUME ~overtaken' PROVE KeeperInv' /\ MainInv'
    BY <2>3 DEF Covered, KeeperInv, MainInv, Alike, Keeps
  <2>4. ASSUME ~overtaken' PROVE ReceiptInv'
    BY <2>4 DEF Covered, ReceiptInv, KeeperInv, MainInv, Alike, Holds, Answered
  <2>5. ASSUME ~overtaken' PROVE ReportInv'
    BY <2>5 DEF Covered, ReportInv, Copies, Complete
  <2> QED
    BY <2>1, <2>2, <2>3, <2>4, <2>5 DEF WaveInv, Covered
<1>8. CASE Reload
  <2> USE <1>8 DEF Reload, Accepted, Owned
  <2>1. ClaimInv' /\ DeadInv' /\ StageInv'
    BY DEF ClaimInv, DeadInv, StageInv
  <2>2. SeatInv'
    BY DEF SeatInv, Answered
  <2>3. ASSUME ~overtaken' PROVE KeeperInv' /\ MainInv'
    BY <2>3 DEF Covered, KeeperInv, MainInv, Alike, Keeps
  <2>4. ASSUME ~overtaken' PROVE ReceiptInv'
    BY <2>4 DEF Covered, ReceiptInv, KeeperInv, MainInv, Alike, Holds, Answered
  <2>5. ASSUME ~overtaken' PROVE ReportInv'
    <3>1. Complete(base)'
      <4>1. \A l \in Lanes : Holds(state, l)
        BY <2>5 DEF Covered, StageInv, ReceiptInv
      <4>2. CASE UNCHANGED base
        BY <4>2, <2>5 DEF Covered, ReportInv, Copies, Complete
      <4>3. CASE base' = [state EXCEPT !.report = Accepted]
        BY <4>1, <4>3 DEF Complete, Holds, Answered
      <4> QED
        BY <4>2, <4>3
    <3> QED
      BY <3>1, <2>5 DEF Covered, ReportInv, Copies, Complete
  <2> QED
    BY <2>1, <2>2, <2>3, <2>4, <2>5 DEF WaveInv, Covered
<1>9. CASE Round
  <2> USE <1>9 DEF Round, Owned, Begin
  <2>1. ClaimInv' /\ DeadInv' /\ StageInv'
    BY DEF ClaimInv, DeadInv, StageInv
  <2>2. SeatInv'
    BY DEF SeatInv, Answered
  <2>3. ASSUME ~overtaken' PROVE KeeperInv' /\ MainInv'
    BY <2>3 DEF Covered, KeeperInv, MainInv, Alike, Keeps
  <2>4. ASSUME ~overtaken' PROVE ReceiptInv'
    <3>1. stage = "round" /\ stage' # "receipt"
      BY DEF StageInv
    <3> QED
      BY <3>1 DEF ReceiptInv
  <2>5. ASSUME ~overtaken' PROVE ReportInv'
    BY <2>5 DEF Covered, ReportInv, Copies, Complete
  <2> QED
    BY <2>1, <2>2, <2>3, <2>4, <2>5 DEF WaveInv, Covered
<1>10. CASE Resume
  <2> USE <1>10 DEF Resume, Owned, Renewed
  <2>1. ClaimInv' /\ DeadInv' /\ StageInv'
    BY DEF ClaimInv, DeadInv, StageInv
  <2>2. SeatInv'
    <3>1. CASE UNCHANGED seat
      BY <3>1 DEF SeatInv, Answered
    <3>2. CASE Owned /\ seat' = [l \in Lanes |->
                       IF state.receipts[l] = "result" THEN "stored" ELSE "running"]
      <4>1. pc'["main"] # "load" /\ UNCHANGED <<call, base>> /\ state'.receipts = state.receipts
            /\ current'.receipts \in {state.receipts, current.receipts}
        OBVIOUS
      <4>2. base = Planned /\ call["main"] = Planned /\ call["keeper"] = Planned
        BY DEF DeadInv
      <4> QED
        BY <3>2, <4>1, <4>2 DEF SeatInv, Answered
    <3> QED
      BY <3>1, <3>2
  <2>3. ASSUME ~overtaken' PROVE KeeperInv' /\ MainInv'
    BY <2>3 DEF Covered, KeeperInv, MainInv, Alike, Keeps
  <2>4. ASSUME ~overtaken' PROVE ReceiptInv'
    BY <2>4 DEF Covered, ReceiptInv, KeeperInv, MainInv, Alike, Holds, Answered
  <2>5. ASSUME ~overtaken' PROVE ReportInv'
    BY <2>5 DEF Covered, ReportInv, Copies, Complete
  <2> QED
    BY <2>1, <2>2, <2>3, <2>4, <2>5 DEF WaveInv, Covered
<1> QED
  BY <1>1, <1>2, <1>3, <1>4, <1>5, <1>6, <1>7, <1>8, <1>9, <1>10

\* The keeper's.
LEMMA KeeperStep ==
  ASSUME WaveInv, TypeOK',
         Beat \/ KeeperSaved \/ KeeperFails \/ StopLanes \/ KeeperStops
  PROVE  WaveInv'
<1> USE DEF WaveInv, TypeOK, Threads, At, Goto, Planned, State, store, main, keeper
<1>1. CASE Beat
  <2> USE <1>1 DEF Beat, Compared, Begin, KeeperEnds, Forget, Renewed
  <2>1. ClaimInv' /\ DeadInv' /\ StageInv'
    BY DEF ClaimInv, DeadInv, StageInv
  <2>2. SeatInv'
    BY DEF SeatInv, Answered
  <2>3. ASSUME ~overtaken' PROVE KeeperInv' /\ MainInv'
    BY <2>3 DEF Covered, KeeperInv, MainInv, Alike, Keeps
  <2>4. ASSUME ~overtaken' PROVE ReceiptInv'
    BY <2>4 DEF Covered, ReceiptInv, KeeperInv, MainInv, Alike, Holds, Answered
  <2>5. ASSUME ~overtaken' PROVE ReportInv'
    BY <2>5 DEF Covered, ReportInv, Copies, Complete
  <2> QED
    BY <2>1, <2>2, <2>3, <2>4, <2>5 DEF WaveInv, Covered
<1>2. CASE KeeperSaved
  <2> USE <1>2 DEF KeeperSaved, Saved, Forget
  <2>1. ClaimInv' /\ DeadInv' /\ StageInv'
    BY DEF ClaimInv, DeadInv, StageInv
  <2>2. SeatInv'
    BY DEF SeatInv, Answered
  <2>3. ASSUME ~overtaken' PROVE KeeperInv' /\ MainInv'
    BY <2>3 DEF Covered, KeeperInv, MainInv, Alike, Keeps
  <2>4. ASSUME ~overtaken' PROVE ReceiptInv'
    BY <2>4 DEF Covered, ReceiptInv, KeeperInv, MainInv, Alike, Holds, Answered
  <2>5. ASSUME ~overtaken' PROVE ReportInv'
    BY <2>5 DEF Covered, ReportInv, Copies, Complete
  <2> QED
    BY <2>1, <2>2, <2>3, <2>4, <2>5 DEF WaveInv, Covered
<1>3. CASE KeeperFails
  <2> USE <1>3 DEF KeeperFails, Conflict, KeeperEnds, Forget
  <2>1. ClaimInv' /\ DeadInv' /\ StageInv'
    BY DEF ClaimInv, DeadInv, StageInv
  <2>2. SeatInv'
    BY DEF SeatInv, Answered
  <2>3. ASSUME ~overtaken' PROVE KeeperInv' /\ MainInv'
    BY <2>3 DEF Covered, KeeperInv, MainInv, Alike, Keeps
  <2>4. ASSUME ~overtaken' PROVE ReceiptInv'
    BY <2>4 DEF Covered, ReceiptInv, KeeperInv, MainInv, Alike, Holds, Answered
  <2>5. ASSUME ~overtaken' PROVE ReportInv'
    BY <2>5 DEF Covered, ReportInv, Copies, Complete
  <2> QED
    BY <2>1, <2>2, <2>3, <2>4, <2>5 DEF WaveInv, Covered
<1>4. CASE StopLanes
  <2> USE <1>4 DEF StopLanes, KeeperEnds, Forget
  <2>1. ClaimInv' /\ DeadInv' /\ StageInv'
    BY DEF ClaimInv, DeadInv, StageInv
  <2>2. SeatInv'
    BY DEF SeatInv, Answered
  <2>3. ASSUME ~overtaken' PROVE KeeperInv' /\ MainInv'
    BY <2>3 DEF Covered, KeeperInv, MainInv, Alike, Keeps
  <2>4. ASSUME ~overtaken' PROVE ReceiptInv'
    BY <2>4 DEF Covered, ReceiptInv, KeeperInv, MainInv, Alike, Holds, Answered
  <2>5. ASSUME ~overtaken' PROVE ReportInv'
    BY <2>5 DEF Covered, ReportInv, Copies, Complete
  <2> QED
    BY <2>1, <2>2, <2>3, <2>4, <2>5 DEF WaveInv, Covered
<1>5. CASE KeeperStops
  <2> USE <1>5 DEF KeeperStops
  <2>1. ClaimInv' /\ DeadInv' /\ StageInv'
    BY DEF ClaimInv, DeadInv, StageInv
  <2>2. SeatInv'
    BY DEF SeatInv, Answered
  <2>3. ASSUME ~overtaken' PROVE KeeperInv' /\ MainInv'
    BY <2>3 DEF Covered, KeeperInv, MainInv, Alike, Keeps
  <2>4. ASSUME ~overtaken' PROVE ReceiptInv'
    BY <2>4 DEF Covered, ReceiptInv, KeeperInv, MainInv, Alike, Holds, Answered
  <2>5. ASSUME ~overtaken' PROVE ReportInv'
    BY <2>5 DEF Covered, ReportInv, Copies, Complete
  <2> QED
    BY <2>1, <2>2, <2>3, <2>4, <2>5 DEF WaveInv, Covered
<1> QED
  BY <1>1, <1>2, <1>3, <1>4, <1>5

\* Those of save_state, and of the world.
LEMMA SharedStep ==
  ASSUME WaveInv, TypeOK',
         (\E t \in Threads : Check(t)) \/ Write("main") \/ Write("keeper") \/ Reclaim \/ Tick \/ Crash \/ UNCHANGED vars
  PROVE  WaveInv'
<1> USE DEF WaveInv, TypeOK, Threads, At, Goto, Planned, State, store, main, keeper
<1>1. CASE \E t \in Threads : Check(t)
  <2> USE <1>1 DEF Check
  <2>1. ClaimInv' /\ DeadInv' /\ StageInv'
    BY DEF ClaimInv, DeadInv, StageInv
  <2>2. SeatInv'
    BY DEF SeatInv, Answered
  <2>3. ASSUME ~overtaken' PROVE KeeperInv' /\ MainInv'
    BY <2>3 DEF Covered, KeeperInv, MainInv, Alike, Keeps
  <2>4. ASSUME ~overtaken' PROVE ReceiptInv'
    BY <2>4 DEF Covered, ReceiptInv, KeeperInv, MainInv, Alike, Holds, Answered
  <2>5. ASSUME ~overtaken' PROVE ReportInv'
    BY <2>5 DEF Covered, ReportInv, Copies, Complete
  <2> QED
    BY <2>1, <2>2, <2>3, <2>4, <2>5 DEF WaveInv, Covered
<1>2. CASE Write("main")
  <2>a. /\ pc["main"] = "write" /\ pc'["main"] = "verify" /\ pc'["keeper"] = pc["keeper"]
        /\ state' = call["main"] /\ held' = {"main"}
        /\ ~overtaken' => ~overtaken /\ "main" \in held
        /\ UNCHANGED <<call, base, stage, lane, seat, current>>
    BY <1>2 DEF Write
  <2>1. ClaimInv' /\ DeadInv' /\ StageInv'
    BY <2>a DEF ClaimInv, DeadInv, StageInv
  <2>2. SeatInv'
    BY <2>a DEF SeatInv, Answered
  <2>3. ASSUME ~overtaken' PROVE KeeperInv' /\ MainInv'
    BY <2>a, <2>3 DEF Covered, KeeperInv, MainInv, Alike, Keeps
  <2>4. ASSUME ~overtaken' PROVE ReceiptInv'
    BY <2>a, <2>4 DEF Covered, ReceiptInv, KeeperInv, Alike, Holds, Answered
  <2>5. ASSUME ~overtaken' PROVE ReportInv'
    BY <2>a, <2>5 DEF Covered, ReportInv, Copies
  <2> QED
    BY <2>1, <2>2, <2>3, <2>4, <2>5 DEF Covered
<1>3. CASE Write("keeper")
  <2>a. /\ pc["keeper"] = "write" /\ pc'["keeper"] = "verify" /\ pc'["main"] = pc["main"]
        /\ state' = call["keeper"] /\ held' = {"keeper"}
        /\ ~overtaken' => ~overtaken /\ "keeper" \in held
        /\ UNCHANGED <<call, base, stage, lane, seat, current>>
    BY <1>3 DEF Write
  <2>1. ClaimInv' /\ DeadInv' /\ StageInv'
    BY <2>a DEF ClaimInv, DeadInv, StageInv
  <2>2. SeatInv'
    BY <2>a DEF SeatInv, Answered
  <2>3. ASSUME ~overtaken' PROVE KeeperInv' /\ MainInv'
    BY <2>a, <2>3 DEF Covered, KeeperInv, MainInv, Alike, Keeps
  <2>4. ASSUME ~overtaken' PROVE ReceiptInv'
    BY <2>a, <2>4 DEF Covered, ReceiptInv, KeeperInv, Alike, Holds, Answered
  <2>5. ASSUME ~overtaken' PROVE ReportInv'
    BY <2>a, <2>5 DEF Covered, ReportInv, Copies
  <2> QED
    BY <2>1, <2>2, <2>3, <2>4, <2>5 DEF Covered
<1>4. CASE Reclaim
  <2> USE <1>4 DEF Reclaim, Owned, Renewed
  <2>1. ClaimInv' /\ DeadInv' /\ StageInv'
    BY DEF ClaimInv, DeadInv, StageInv
  <2>2. SeatInv'
    BY DEF SeatInv, Answered
  <2>3. ASSUME ~overtaken' PROVE KeeperInv' /\ MainInv'
    BY <2>3 DEF Covered, KeeperInv, MainInv, Alike, Keeps
  <2>4. ASSUME ~overtaken' PROVE ReceiptInv'
    BY <2>4 DEF Covered, ReceiptInv, KeeperInv, MainInv, Alike, Holds, Answered
  <2>5. ASSUME ~overtaken' PROVE ReportInv'
    <3>1. state'.receipts = state.receipts /\ state'.report = state.report
      OBVIOUS
    <3>2. Complete(state)'
      BY <3>1, <2>5 DEF Covered, ReportInv, Copies, Complete
    <3>3. \A s \in Copies : Complete(s)
      BY <2>5 DEF Covered, ReportInv
    <3>4. UNCHANGED <<base, current, call>>
      OBVIOUS
    <3>5. Copies' \subseteq Copies \cup {state'}
      BY ONLY <3>4 DEF Copies
    <3>6. \A s \in Copies' : Complete(s)
      BY ONLY <3>2, <3>3, <3>5 DEF Complete
    <3>7. ReportInv' <=> \A s \in Copies' : Complete(s)
      BY ONLY DEF ReportInv, Complete
    <3> QED
      BY ONLY <3>6, <3>7
  <2> QED
    BY <2>1, <2>2, <2>3, <2>4, <2>5 DEF WaveInv, Covered
<1>5. CASE Tick
  <2> USE <1>5 DEF Tick
  <2>1. ClaimInv' /\ DeadInv' /\ StageInv'
    BY DEF ClaimInv, DeadInv, StageInv
  <2>2. SeatInv'
    BY DEF SeatInv, Answered
  <2>3. ASSUME ~overtaken' PROVE KeeperInv' /\ MainInv'
    BY <2>3 DEF Covered, KeeperInv, MainInv, Alike, Keeps
  <2>4. ASSUME ~overtaken' PROVE ReceiptInv'
    BY <2>4 DEF Covered, ReceiptInv, KeeperInv, MainInv, Alike, Holds, Answered
  <2>5. ASSUME ~overtaken' PROVE ReportInv'
    BY <2>5 DEF Covered, ReportInv, Copies, Complete
  <2> QED
    BY <2>1, <2>2, <2>3, <2>4, <2>5 DEF WaveInv, Covered
<1>6. CASE Crash
  <2> USE <1>6 DEF Crash
  <2>1. ClaimInv' /\ DeadInv' /\ StageInv'
    BY DEF ClaimInv, DeadInv, StageInv
  <2>2. SeatInv'
    BY DEF SeatInv, Answered
  <2>3. ASSUME ~overtaken' PROVE KeeperInv' /\ MainInv'
    BY <2>3 DEF Covered, KeeperInv, MainInv, Alike, Keeps
  <2>4. ASSUME ~overtaken' PROVE ReceiptInv'
    BY <2>4 DEF Covered, ReceiptInv, KeeperInv, MainInv, Alike, Holds, Answered
  <2>5. ASSUME ~overtaken' PROVE ReportInv'
    BY <2>5 DEF Covered, ReportInv, Copies, Complete
  <2> QED
    BY <2>1, <2>2, <2>3, <2>4, <2>5 DEF WaveInv, Covered
<1>7. CASE UNCHANGED vars
  <2> USE <1>7 DEF vars
  <2>1. ClaimInv' /\ DeadInv' /\ StageInv'
    BY DEF ClaimInv, DeadInv, StageInv
  <2>2. SeatInv'
    BY DEF SeatInv, Answered
  <2>3. ASSUME ~overtaken' PROVE KeeperInv' /\ MainInv'
    BY <2>3 DEF Covered, KeeperInv, MainInv, Alike, Keeps
  <2>4. ASSUME ~overtaken' PROVE ReceiptInv'
    BY <2>4 DEF Covered, ReceiptInv, KeeperInv, MainInv, Alike, Holds, Answered
  <2>5. ASSUME ~overtaken' PROVE ReportInv'
    BY <2>5 DEF Covered, ReportInv, Copies, Complete
  <2> QED
    BY <2>1, <2>2, <2>3, <2>4, <2>5 DEF WaveInv, Covered
<1> QED
  BY <1>1, <1>2, <1>3, <1>4, <1>5, <1>6, <1>7

LEMMA WaveStep == WaveInv /\ [Next]_vars => WaveInv'
<1> SUFFICES ASSUME WaveInv, [Next]_vars PROVE WaveInv'
  OBVIOUS
<1>1. TypeOK'
  BY TypeStep DEF WaveInv
<1>2. CASE Main
  BY <1>1, <1>2, MainStep, SharedStep DEF Main, Threads
<1>3. CASE Keeper
  BY <1>1, <1>3, KeeperStep, SharedStep DEF Keeper, Threads
<1>4. CASE Reclaim \/ Tick \/ Crash \/ UNCHANGED vars
  BY <1>1, <1>4, SharedStep
<1> QED
  BY <1>2, <1>3, <1>4 DEF Next

LEMMA WaveInvariant == Spec => []WaveInv
<1> QED
  BY InitWave, WaveStep, PTL DEF Spec

\* What a step makes of the record: only a thread that holds its version, the
\* rival or a resume writes it, unless a write falls on an unread version.
LEMMA RecordSteps ==
  ASSUME WaveInv, [Next]_vars, ~overtaken'
  PROVE  /\ ~overtaken
         /\ \/ UNCHANGED state
            \/ \E t \in Threads : Write(t) /\ t \in held
            \/ Owned /\ state'.receipts = state.receipts
<1> USE DEF store
<1>1. CASE UNCHANGED vars
  BY <1>1 DEF vars
<1>2. CASE \E t \in Threads : Write(t)
  BY <1>2 DEF Write
<1>3. CASE Reclaim \/ Resume
  <2>1. \A s \in State : Renewed(s).receipts = s.receipts
                         /\ [Renewed(s) EXCEPT !.owner = "rival"].receipts = s.receipts
    BY DEF Renewed, State
  <2>2. state \in State
    BY DEF WaveInv, TypeOK
  <2>3. CASE Reclaim
    BY <2>1, <2>2, <2>3 DEF Reclaim
  <2>4. CASE Resume
    BY <2>1, <2>2, <2>4 DEF Resume
  <2> QED
    BY <1>3, <2>3, <2>4
<1>4. CASE (\E t \in Threads : Check(t)) \/ (\E l \in Lanes : Collect(l))
  BY <1>4 DEF Check, Collect
<1>5. CASE LoadReceipt \/ Fresh \/ MainSaved \/ MainFails \/ Drain \/ Join \/ Reload \/ Round
  <2>1. CASE LoadReceipt \/ Fresh \/ Drain \/ Join \/ Reload \/ Round
    BY <2>1 DEF LoadReceipt, Fresh, Drain, Join, Reload, Round
  <2>2. CASE MainSaved \/ MainFails
    <3>1. UNCHANGED store
      BY <2>2 DEF MainSaved, MainFails
    <3> QED
      BY <3>1
  <2> QED
    BY <1>5, <2>1, <2>2
<1>6. CASE Beat \/ KeeperSaved \/ KeeperFails \/ StopLanes \/ KeeperStops \/ Tick \/ Crash
  BY <1>6 DEF Beat, KeeperSaved, KeeperFails, StopLanes, KeeperStops, Tick, Crash
<1> QED
  BY <1>1, <1>2, <1>3, <1>4, <1>5, <1>6 DEF Next, Main, Keeper, Threads

\* A covered write has the results of the record it replaces.
LEMMA CoveredWrite ==
  ASSUME WaveInv, NEW t \in Threads, Write(t), t \in held, ~overtaken
  PROVE  Keeps(state, state')
<1>1. CASE t = "main"
  BY <1>1 DEF Write, At, WaveInv, Covered, MainInv
<1>2. CASE t = "keeper"
  BY <1>2 DEF Write, At, WaveInv, Covered, KeeperInv, Alike, Keeps
<1> QED
  BY <1>1, <1>2 DEF Threads
----------------------------------------------------------------------------
\* The threads, their saves and the record keep their types.
THEOREM WaveTyped == Spec => []TypeOK
<1>1. WaveInv => TypeOK
  BY DEF WaveInv
<1> QED
  BY <1>1, WaveInvariant, PTL

\* foreman.py:1204-1218, queue.py:610-641: a reviewer's stored result survives
\* receipts, heartbeats, a takeover and a restart.
THEOREM ReceiptsKept == Spec => ReceiptsStick
<1>1. ASSUME WaveInv, [Next]_vars, ~overtaken', NEW l \in Lanes, state.receipts[l] = "result"
      PROVE  state'.receipts[l] = "result"
  BY <1>1, RecordSteps, CoveredWrite DEF Keeps
<1>2. WaveInv /\ [Next]_vars =>
        [~overtaken' => \A l \in Lanes :
           state.receipts[l] = "result" => state'.receipts[l] = "result"]_state
  BY <1>1
<1> QED
  BY <1>2, WaveInvariant, PTL DEF Spec, ReceiptsStick

\* queue.py:377-379, 610-641: what the threads of this host had read before a
\* takeover does not reach the record after it.
THEOREM TakeoverStands == Spec => LateWritesRejected
<1>1. ASSUME WaveInv, [Next]_vars, ~overtaken', state.owner = "rival"
      PROVE  state'.owner = "rival"
  BY <1>1, RecordSteps DEF WaveInv, ClaimInv, Owned
<1>2. WaveInv /\ [Next]_vars =>
        [~overtaken' /\ state.owner = "rival" => state'.owner = "rival"]_state
  BY <1>1
<1> QED
  BY <1>2, WaveInvariant, PTL DEF Spec, LateWritesRejected

\* foreman.py:1140-1154: behind a stored report are the results of all lanes.
THEOREM ReportStands == Spec => []ReportRecoverable
<1>1. WaveInv => ReportRecoverable
  BY DEF WaveInv, Covered, ReportInv, Copies, Complete, ReportRecoverable
<1> QED
  BY <1>1, WaveInvariant, PTL
=============================================================================
