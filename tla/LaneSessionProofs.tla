------------------------- MODULE LaneSessionProofs -------------------------
(***************************************************************************)
(* What the turns of a lane keep for any number of turns, models, crashes  *)
(* and failed requests.  The digest in the metadata of the session says    *)
(* whether the prompt of the present turn was sent; the evidence of        *)
(* activity, once a digest is there, is about that turn alone.             *)
(***************************************************************************)
EXTENDS LaneSession, TLAPS

Turn == exec.turn
There == cao.there # "none"
In(steps) == exec.pc \in steps
Stopping(reason) == In({"stop", "confirm"}) /\ exec.why = reason

\* Turns follow one another: all before the present one are answered, none
\* after it was touched; an unanswered one that execute has left is resumed.
InOrder ==
  /\ \A t \in Turns : t < Turn => Answered(t)
  /\ \A t \in Turns : t > Turn => ~Answered(t) /\ taken[t] = 0
  /\ exec.pc # "off" => Turn # 0
  /\ exec.cleanup \/ Stopping("failed") => Turn # 0 /\ Answered(Turn)
  /\ exec.pc # "off" /\ ~Stopping("failed") => ~Answered(Turn)
  /\ exec.pc = "off" /\ Turn # 0 /\ ~Answered(Turn) => exec.resume

\* The agent works on what was put into its inbox.
AgentSound ==
  /\ ~There => agent = NoAgent
  /\ \A t \in Turns : agent.inbox = t \/ agent.doing = t \/ t \in finished => taken[t] = 1
  /\ agent.doing # 0 => agent.inbox = 0 /\ agent.status \in Activity \cup {"idle"}
  /\ agent.status \in Activity => agent.doing # 0
  /\ agent.status = "idle" /\ agent.doing # 0 => agent.pause < Pause
  /\ agent.status = "error" => agent.inbox = 0
  /\ There /\ cao.digest = 0 => agent.status # "error" /\ agent.doing = 0 /\ agent.inbox = 0

\* Digests of the present turn and of earlier ones.
Digests ==
  /\ cao.digest <= Turn /\ ctl.digest <= Turn
  /\ In({"replace", "adopt", "precheck", "clear", "input", "restore", "poll"}) /\ There =>
       ctl.digest = cao.digest
  /\ In({"input", "restore", "poll", "output"}) => ctl.digest = Turn
  /\ In({"launch", "precheck", "clear"}) \/ (In({"lookup"}) /\ ~exec.resume) => ctl.digest # Turn
  /\ In({"input", "restore"}) => exec.before.digest < Turn
  /\ \A t \in Turns : t = Turn /\ taken[t] = 1 /\ There => cao.digest = t
  /\ \A t \in Turns : t = Turn /\ taken[t] = 1 /\ In({"adopt"}) => ctl.digest = t

\* Where the prompt was not sent yet.
Unsent ==
  \/ In({"replace", "launch", "precheck", "clear", "input", "restore"}) \/ Stopping("model")
  \/ In({"lookup"}) /\ ~exec.resume
NotYet ==
  /\ Unsent => \A t \in Turns : t = Turn => taken[t] = 0
  /\ In({"clear", "input", "restore"}) /\ There =>
       agent.status # "error" /\ agent.doing = 0 /\ agent.inbox = 0
  /\ In({"replace", "launch"}) \/ Stopping("model") => ~exec.resume

\* The agent has begun the present turn, and may have ended it.
Ended == agent.doing = 0 /\ agent.inbox = 0 /\ agent.last = Turn /\ Turn \in finished
Began ==
  \/ agent.doing = Turn
  \/ Ended
  \/ agent.doing = 0 /\ agent.inbox = 0 /\ agent.status = "error"

\* Evidence of activity that belongs to the present turn.
Evidence ==
  /\ There /\ cao.digest = Turn /\ cao.seen /\ Turn # 0 =>
       Began /\ (agent.doing = Turn => ctl.idle <= agent.pause)
  /\ There /\ ctl.digest = Turn /\ ctl.active /\ Turn # 0 =>
       Began /\ (agent.doing = Turn => ctl.idle <= agent.pause)
  /\ ~ctl.active => ctl.idle = 0
  /\ ~exec.before.active => exec.before.idle = 0

AtOutput ==
  In({"output"}) =>
    /\ exec.why \in {"failed", "error"}
    /\ There /\ exec.why = "error" => Ended
    /\ There /\ exec.why = "failed" => agent.status = "error"

LaneInv ==
  /\ TypeOK /\ InOrder /\ AgentSound /\ Digests /\ NotYet /\ Evidence /\ AtOutput
  /\ PromptOnce /\ AnswerIsOwn /\ QuietAfterAnswer
----------------------------------------------------------------------------
(* The pieces of a step.                                                   *)

LEMMA Sizes ==
  /\ MaxTurns \in Nat /\ Settle \in Nat /\ Pause \in Nat /\ Pause < Settle
  /\ MaxCrashes \in Nat /\ MaxFaults \in Nat
BY LaneAssumption

\* The fields that are numbers.
LEMMA Typed ==
  ASSUME TypeOK
  PROVE  /\ exec.turn \in Nat /\ exec.turn <= MaxTurns /\ exec.turn \in Numbers
         /\ cao.digest \in Nat /\ ctl.digest \in Nat /\ exec.before.digest \in Nat
         /\ ctl.idle \in Nat /\ ctl.idle <= Settle /\ agent.pause \in Nat /\ agent.pause <= Pause
         /\ agent.doing \in Numbers /\ agent.inbox \in Numbers /\ agent.last \in Numbers
         /\ exec.turn # 0 => exec.turn \in Turns
         /\ \A t \in Turns : t \in Nat /\ t # 0 /\ t \in Numbers
         /\ \A n \in Numbers : n \in Nat /\ (n = 0 \/ n \in Turns)
<1>1. \A n \in Numbers : n \in Nat /\ n <= MaxTurns /\ (n = 0 \/ n \in Turns)
  BY Sizes DEF Numbers, Turns
<1>2. \A t \in Turns : t \in Nat /\ t # 0 /\ t \in Numbers
  BY Sizes DEF Numbers, Turns
<1>3. exec.turn \in Numbers /\ cao.digest \in Numbers /\ ctl.digest \in Numbers
      /\ exec.before.digest \in Numbers
      /\ agent.doing \in Numbers /\ agent.inbox \in Numbers /\ agent.last \in Numbers
      /\ ctl.idle \in 0 .. Settle /\ agent.pause \in 0 .. Pause
  BY DEF TypeOK, Session, Agent, Memory, Exec
<1>4. ctl.idle \in Nat /\ ctl.idle <= Settle /\ agent.pause \in Nat /\ agent.pause <= Pause
  BY <1>3, Sizes
<1> QED BY <1>1, <1>2, <1>3, <1>4

\* The agent works on the present turn or on none.
LEMMA Current ==
  ASSUME LaneInv
  PROVE  /\ agent.doing \in {0, Turn} /\ agent.inbox \in {0, Turn}
         /\ \A t \in Turns : t # Turn => agent.doing # t /\ agent.inbox # t
<1>1. ASSUME NEW t \in Turns, t # Turn PROVE agent.doing # t /\ agent.inbox # t
  <2>1. TypeOK /\ InOrder /\ AgentSound /\ QuietAfterAnswer
    BY DEF LaneInv
  <2>2. t \in Nat /\ Turn \in Nat
    BY <2>1, Typed DEF Turn
  <2>3. CASE t < Turn
    BY <2>1, <2>3 DEF InOrder, QuietAfterAnswer
  <2>4. CASE t > Turn
    BY <2>1, <2>4 DEF InOrder, AgentSound
  <2> QED BY <1>1, <2>2, <2>3, <2>4
<1>2. /\ agent.doing \in Numbers /\ agent.inbox \in Numbers
      /\ \A n \in Numbers : n \in Nat /\ (n = 0 \/ n \in Turns)
  BY Typed DEF LaneInv
<1> QED BY <1>1, <1>2

\* Execute goes on, with the same turn.
Kept ==
  /\ exec' \in Exec /\ exec'.turn = exec.turn /\ exec'.model = exec.model
  /\ exec'.before = exec.before

LEMMA GotoIs ==
  ASSUME exec \in Exec, NEW step \in Steps, Goto(step)
  PROVE  /\ Kept /\ exec'.pc = step /\ exec'.resume = exec.resume
         /\ exec'.why = exec.why /\ exec'.cleanup = exec.cleanup
BY DEF Goto, Kept, Exec

LEMMA StopForIs ==
  ASSUME exec \in Exec, NEW reason \in Reasons, StopFor(reason)
  PROVE  /\ Kept /\ exec'.pc = "stop" /\ exec'.resume = exec.resume
         /\ exec'.why = reason /\ exec'.cleanup = exec.cleanup
<1>1. "stop" \in Steps
  BY DEF Steps
<1> QED BY <1>1 DEF StopFor, Kept, Exec

LEMMA RaiseIs ==
  ASSUME exec \in Exec, Raise
  PROVE  /\ Kept /\ exec'.pc = "off" /\ exec'.resume = TRUE
         /\ exec'.why = exec.why /\ exec'.cleanup = FALSE
<1>1. "off" \in Steps
  BY DEF Steps
<1> QED BY <1>1 DEF Raise, Kept, Exec

LEMMA FaultIs ==
  ASSUME TypeOK, Fault
  PROVE  crashes' \in 0 .. MaxCrashes /\ faults' \in 0 .. MaxFaults
BY Sizes DEF TypeOK, Fault

\* What the world keeps apart from where execute is.
World == TypeOK /\ AgentSound /\ Evidence /\ PromptOnce /\ AnswerIsOwn /\ QuietAfterAnswer
Place == InOrder /\ Digests /\ NotYet /\ AtOutput

LEMMA Both == LaneInv <=> World /\ Place
BY DEF LaneInv, World, Place

\* Steps of execute that change nothing else.
LEMMA OnlyExec ==
  ASSUME LaneInv, Kept, UNCHANGED <<cao, agent, ctl, answer, taken, finished>>,
         crashes' \in 0 .. MaxCrashes, faults' \in 0 .. MaxFaults
  PROVE  World'
<1>1. TypeOK' /\ PromptOnce' /\ AnswerIsOwn'
  BY DEF LaneInv, TypeOK, PromptOnce, AnswerIsOwn, Kept
<1>2. AgentSound' /\ QuietAfterAnswer'
  BY DEF LaneInv, AgentSound, QuietAfterAnswer, There, Answered
<1>3. Evidence'
  BY DEF LaneInv, Evidence, Kept, There, Turn, Began, Ended
<1> QED BY <1>1, <1>2, <1>3 DEF World

\* Steps that change no agent and no answer.
LEMMA Books ==
  ASSUME LaneInv, exec' \in Exec, cao' \in Session, ctl' \in Memory,
         UNCHANGED <<agent, answer, taken, finished>>,
         cao'.there = "none" <=> cao.there = "none",
         There /\ cao'.digest = 0 => agent.status # "error" /\ agent.doing = 0 /\ agent.inbox = 0,
         Evidence', crashes' \in 0 .. MaxCrashes, faults' \in 0 .. MaxFaults
  PROVE  World'
<1>1. TypeOK' /\ PromptOnce' /\ AnswerIsOwn'
  BY DEF LaneInv, TypeOK, PromptOnce, AnswerIsOwn
<1>2. QuietAfterAnswer'
  BY DEF LaneInv, QuietAfterAnswer, Answered
<1>3. AgentSound'
  BY DEF LaneInv, AgentSound, There
<1> QED BY <1>1, <1>2, <1>3 DEF World

\* Steps that end a session, or begin a new one.
LEMMA Afresh ==
  ASSUME LaneInv, exec' \in Exec, exec'.turn = exec.turn, exec'.before = exec.before,
         cao' \in Session, cao'.digest = 0, cao'.seen = FALSE, agent' = NoAgent,
         ctl' \in Memory, ~ctl'.active => ctl'.idle = 0,
         cao'.there # "none" /\ ctl'.active => ctl'.digest # Turn,
         UNCHANGED <<answer, taken, finished>>,
         crashes' \in 0 .. MaxCrashes, faults' \in 0 .. MaxFaults
  PROVE  World'
<1>t. 0 \in Numbers /\ 0 \in 0 .. Pause /\ "starting" \in Statuses
  BY Sizes DEF Numbers, Statuses
<1>0. /\ agent' \in Agent /\ agent'.inbox = 0 /\ agent'.doing = 0 /\ agent'.status = "starting"
      /\ agent'.pause = 0 /\ agent'.last = 0
  BY <1>t DEF NoAgent, Agent
<1>1. TypeOK' /\ PromptOnce' /\ AnswerIsOwn'
  BY <1>0 DEF LaneInv, TypeOK, PromptOnce, AnswerIsOwn
<1>2. QuietAfterAnswer'
  BY <1>0, Typed DEF LaneInv, QuietAfterAnswer, Answered
<1>3. AgentSound'
  BY <1>0, Typed DEF LaneInv, AgentSound, There, Activity
<1>4. Evidence'
  BY <1>0 DEF LaneInv, Evidence, There, Turn
<1> QED BY <1>1, <1>2, <1>3, <1>4 DEF World

LEMMA RecoverStep == ASSUME LaneInv, Recover PROVE LaneInv'
<1>1. /\ exec.pc = "off" /\ exec.turn # 0 /\ ~Answered(exec.turn)
      /\ UNCHANGED <<cao, agent, ctl, answer, taken, finished, crashes, faults>>
  BY DEF Recover, At, history, bounds
<1>2. /\ Kept /\ exec'.pc = "lookup" /\ exec'.resume = exec.resume
      /\ exec'.why = exec.why /\ exec'.cleanup = exec.cleanup
  BY GotoIs DEF LaneInv, TypeOK, Steps, Recover
<1>3. World'
  BY <1>1, <1>2, OnlyExec DEF LaneInv, TypeOK
<1>4. InOrder /\ Digests /\ NotYet /\ AtOutput
  BY DEF LaneInv
<1>5. exec.resume
  BY <1>1, <1>4 DEF InOrder, Turn
<1>6. InOrder'
  BY <1>1, <1>2, <1>4 DEF InOrder, Turn, Stopping, In, Answered, Kept
<1>7. Digests'
  BY <1>1, <1>2, <1>4, <1>5 DEF Digests, Turn, There, In, Kept
<1>8. NotYet' /\ AtOutput'
  BY <1>1, <1>2, <1>4, <1>5 DEF NotYet, Unsent, AtOutput, Turn, There, In, Stopping, Kept
<1> QED BY <1>3, <1>6, <1>7, <1>8, Both DEF World, LaneInv

LEMMA DispatchStep == ASSUME LaneInv, Dispatch PROVE LaneInv'
<1>t. /\ exec.turn \in Nat /\ MaxTurns \in Nat /\ cao.digest \in Nat /\ ctl.digest \in Nat
      /\ exec.turn # 0 => exec.turn \in Turns
      /\ \A t \in Turns : t \in Nat
  BY Sizes, Typed DEF LaneInv
<1>1. /\ exec.pc = "off" /\ ~exec.cleanup /\ exec.turn < MaxTurns
      /\ exec.turn # 0 => Answered(exec.turn)
      /\ UNCHANGED <<cao, agent, ctl, answer, taken, finished, crashes, faults>>
  BY DEF Dispatch, At, history, bounds
<1>n. exec.turn + 1 \in Turns /\ exec.turn + 1 \in Numbers
  BY <1>t, <1>1 DEF Turns, Numbers
<1>2. PICK m \in Models :
        exec' = [exec EXCEPT !.pc = "lookup", !.turn = exec.turn + 1, !.resume = FALSE, !.model = m]
  BY DEF Dispatch
<1>3. /\ exec' \in Exec /\ exec'.pc = "lookup" /\ exec'.turn = exec.turn + 1
      /\ exec'.resume = FALSE /\ exec'.cleanup = FALSE /\ exec'.before = exec.before
  <2>1. exec \in Exec /\ "lookup" \in Steps
    BY DEF LaneInv, TypeOK, Steps
  <2> QED BY <1>1, <1>2, <1>n, <2>1 DEF Exec
<1>4. InOrder /\ Digests /\ NotYet /\ AtOutput /\ Evidence
  BY DEF LaneInv
<1>5. cao.digest # exec.turn + 1 /\ ctl.digest # exec.turn + 1
  BY <1>t, <1>4 DEF Digests, Turn
<1>6. Evidence'
  BY <1>1, <1>3, <1>4, <1>5 DEF Evidence, Turn, There
<1>7. World'
  BY <1>1, <1>3, <1>6, Books DEF LaneInv, TypeOK, AgentSound, There
<1>a. /\ \A t \in Turns : t < exec.turn + 1 => Answered(t)
      /\ \A t \in Turns : t > exec.turn + 1 => ~Answered(t) /\ taken[t] = 0
      /\ ~Answered(exec.turn + 1) /\ taken[exec.turn + 1] = 0
  <2>1. \A t \in Turns : t < exec.turn + 1 => t < exec.turn \/ t = exec.turn
    BY <1>t
  <2>2. \A t \in Turns : t > exec.turn + 1 => t > exec.turn
    BY <1>t
  <2>3. exec.turn + 1 > exec.turn
    BY <1>t
  <2>4. \A t \in Turns : t = exec.turn => exec.turn # 0
    BY Typed DEF LaneInv
  <2> QED BY <1>1, <1>4, <1>n, <2>1, <2>2, <2>3, <2>4 DEF InOrder, Turn
<1>8. InOrder'
  <2>1. exec.turn + 1 # 0
    BY <1>t
  <2> QED BY <1>1, <1>3, <1>a, <2>1 DEF InOrder, Turn, Stopping, In, Answered
<1>9. Digests'
  <2>1. cao.digest <= exec.turn + 1 /\ ctl.digest <= exec.turn + 1
    BY <1>t, <1>4 DEF Digests, Turn
  <2> QED BY <1>1, <1>3, <1>5, <1>a, <2>1 DEF Digests, Turn, There, In
<1>10. NotYet' /\ AtOutput'
  BY <1>1, <1>3, <1>a DEF NotYet, Unsent, AtOutput, Turn, In, Stopping
<1> QED BY <1>7, <1>8, <1>9, <1>10, Both DEF World, LaneInv

LEMMA StopFailedStep == ASSUME LaneInv, StopFailed PROVE LaneInv'
<1>1. /\ exec.pc = "off" /\ exec.cleanup
      /\ UNCHANGED <<cao, agent, ctl, answer, taken, finished, crashes, faults>>
  BY DEF StopFailed, At, history, bounds
<1>2. /\ Kept /\ exec'.pc = "stop" /\ exec'.why = "failed" /\ exec'.cleanup = exec.cleanup
      /\ exec'.resume = exec.resume
  BY StopForIs DEF LaneInv, TypeOK, Reasons, StopFailed
<1>3. World'
  BY <1>1, <1>2, OnlyExec DEF LaneInv, TypeOK
<1>4. InOrder /\ Digests /\ NotYet /\ AtOutput
  BY DEF LaneInv
<1>5. exec.turn # 0 /\ Answered(exec.turn)
  BY <1>1, <1>4 DEF InOrder, Turn
<1>6. InOrder'
  BY <1>1, <1>2, <1>4, <1>5 DEF InOrder, Turn, Stopping, In, Answered, Kept
<1>7. Digests'
  BY <1>1, <1>2, <1>4 DEF Digests, Turn, There, In, Kept
<1>8. NotYet' /\ AtOutput'
  BY <1>1, <1>2, <1>4 DEF NotYet, Unsent, AtOutput, Turn, There, In, Stopping, Kept
<1> QED BY <1>3, <1>6, <1>7, <1>8, Both DEF World, LaneInv

\* Execute gives the turn up, or goes on to stop the session.
LEMMA Leave ==
  ASSUME LaneInv, World', Kept, exec.pc # "off",
         UNCHANGED <<answer, taken>>,
         cao'.there # "none" => cao.there # "none",
         cao'.there # "none" => cao'.digest = cao.digest,
         cao'.digest \in {0, cao.digest}, ctl'.digest \in {0, ctl.digest, cao.digest},
         \/ /\ exec'.pc = "off" /\ exec'.resume = TRUE /\ exec'.cleanup = FALSE
         \/ /\ exec'.pc = "stop" /\ exec'.why \in {"error", "timeout", "busy", "stale"}
            /\ exec'.cleanup = exec.cleanup /\ ~Stopping("failed")
  PROVE  LaneInv'
<1>t. exec.turn \in Nat /\ cao.digest \in Nat /\ ctl.digest \in Nat
  BY Typed DEF LaneInv
<1>1. InOrder /\ Digests
  BY DEF LaneInv
<1>2. InOrder'
  BY <1>1 DEF InOrder, Turn, Stopping, In, Answered, Kept
<1>3. Digests'
  <2>1. cao'.digest <= exec.turn /\ ctl'.digest <= exec.turn
    BY <1>t, <1>1 DEF Digests, Turn
  <2> QED BY <1>1, <2>1 DEF Digests, Turn, There, In, Kept
<1>4. NotYet' /\ AtOutput'
  BY DEF NotYet, Unsent, AtOutput, In, Stopping
<1> QED BY <1>2, <1>3, <1>4, Both DEF World, LaneInv

LEMMA UnavailableStep == ASSUME LaneInv, Unavailable PROVE LaneInv'
<1>1. /\ exec.pc # "off" /\ ~Stopping("failed")
      /\ UNCHANGED <<cao, agent, ctl, answer, taken, finished>> /\ Fault /\ StopFor("error")
  BY DEF Unavailable, history, Stopping, In
<1>2. /\ Kept /\ exec'.pc = "stop" /\ exec'.why = "error" /\ exec'.cleanup = exec.cleanup
  BY <1>1, StopForIs DEF LaneInv, TypeOK, Reasons
<1>3. World'
  BY <1>1, <1>2, OnlyExec, FaultIs DEF LaneInv
<1> QED BY <1>1, <1>2, <1>3, Leave

LEMMA AttachedIs ==
  ASSUME NEW memory \in Memory
  PROVE  /\ Attached(memory) \in {"poll", "clear", "precheck"}
         /\ Attached(memory) = "poll" <=> memory.digest = exec.turn
BY DEF Attached

LEMMA RegisteredIs ==
  ASSUME LaneInv, There
  PROVE  /\ Registered \in Memory /\ Registered.digest = cao.digest
         /\ Registered.active = cao.seen
         /\ ~cao.seen => Registered.idle = 0
         /\ cao.seen => Registered.idle = ctl.idle
<1> DEFINE idle == IF cao.seen THEN ctl.idle ELSE 0
<1>1. idle \in 0 .. Settle /\ cao.seen \in BOOLEAN /\ cao.digest \in Numbers
  BY Sizes DEF LaneInv, TypeOK, Memory, Session
<1>2. Registered = [known |-> TRUE, digest |-> cao.digest, active |-> cao.seen, idle |-> idle]
  BY DEF Registered
<1>3. (~cao.seen => idle = 0) /\ (cao.seen => idle = ctl.idle)
  OBVIOUS
<1> HIDE DEF idle
<1> QED BY <1>1, <1>2, <1>3 DEF Memory

LEMMA LookupStep == ASSUME LaneInv, Lookup PROVE LaneInv'
<1>0. /\ exec.pc = "lookup" /\ UNCHANGED <<cao, agent, answer, taken, finished, crashes, faults>>
      /\ exec \in Exec
  BY DEF Lookup, At, history, bounds, LaneInv, TypeOK
<1>i. InOrder /\ Digests /\ NotYet /\ AtOutput /\ Evidence
  BY DEF LaneInv
<1>1. CASE cao.there = "none" /\ UNCHANGED ctl /\ exec.resume /\ Raise
  <2>1. Kept /\ exec'.pc = "off" /\ exec'.resume = TRUE /\ exec'.cleanup = FALSE
    BY <1>0, <1>1, RaiseIs
  <2>2. World'
    BY <1>0, <1>1, <2>1, OnlyExec DEF LaneInv, TypeOK
  <2> QED BY <1>0, <1>1, <2>1, <2>2, Leave
<1>2. CASE cao.there = "none" /\ UNCHANGED ctl /\ ~exec.resume /\ Goto("launch")
  <2>1. /\ Kept /\ exec'.pc = "launch" /\ exec'.resume = exec.resume
        /\ exec'.why = exec.why /\ exec'.cleanup = exec.cleanup
    BY <1>0, <1>2, GotoIs DEF Steps
  <2>2. World'
    BY <1>0, <1>2, <2>1, OnlyExec DEF LaneInv, TypeOK
  <2>3. InOrder'
    BY <1>0, <1>2, <1>i, <2>1 DEF InOrder, Turn, Stopping, In, Answered, Kept
  <2>4. Digests'
    BY <1>0, <1>2, <1>i, <2>1 DEF Digests, Turn, There, In, Kept
  <2>5. NotYet' /\ AtOutput'
    BY <1>0, <1>2, <1>i, <2>1 DEF NotYet, Unsent, AtOutput, Turn, There, In, Stopping, Kept
  <2> QED BY <2>2, <2>3, <2>4, <2>5, Both DEF World, LaneInv
<1>3. CASE cao.there # "none" /\ ctl' = Registered
  <2>1. /\ Registered \in Memory /\ Registered.digest = cao.digest
        /\ Registered.active = cao.seen
        /\ ~cao.seen => Registered.idle = 0
        /\ cao.seen => Registered.idle = ctl.idle
    BY <1>3, RegisteredIs DEF There
  <2> DEFINE step == IF exec.resume THEN "adopt"
                     ELSE IF cao.model # exec.model THEN "replace" ELSE Attached(Registered)
  <2>2. Goto(step)
    BY <1>3 DEF Lookup
  <2>3. /\ step \in {"adopt", "replace", "poll", "clear", "precheck"}
        /\ step = "adopt" => exec.resume
        /\ step # "adopt" => ~exec.resume
        /\ step \in {"poll", "clear", "precheck"} => (step = "poll" <=> cao.digest = exec.turn)
    BY <2>1, AttachedIs DEF LaneInv, TypeOK
  <2>4. exec.resume \in BOOLEAN
    BY <1>0 DEF Exec
  <2> HIDE DEF step
  <2>5. step \in Steps
    BY <2>3 DEF Steps
  <2>6. /\ Kept /\ exec'.pc = step /\ exec'.resume = exec.resume
        /\ exec'.why = exec.why /\ exec'.cleanup = exec.cleanup
    BY <1>0, <2>2, <2>5, GotoIs
  <2>7. Evidence'
    <3>1. cao.seen \in BOOLEAN /\ ctl'.digest = cao.digest /\ ctl'.active = cao.seen
          /\ (~cao.seen => ctl'.idle = 0) /\ (cao.seen => ctl'.idle = ctl.idle)
      BY <1>3, <2>1 DEF LaneInv, TypeOK, Session
    <3>2. /\ cao' = cao /\ agent' = agent /\ finished' = finished /\ exec'.turn = exec.turn
          /\ exec'.before = exec.before
      BY <1>0, <2>6 DEF Kept
    <3>3. Began' <=> Began
      BY <3>2 DEF Began, Ended, Turn
    <3>4. ASSUME cao.digest = exec.turn, cao.seen, exec.turn # 0
          PROVE  Began /\ (agent.doing = exec.turn => ctl'.idle <= agent.pause)
      BY <1>3, <1>i, <3>1, <3>4 DEF Evidence, There, Turn
    <3> HIDE DEF Began
    <3> QED BY <1>3, <1>i, <3>1, <3>2, <3>3, <3>4 DEF Evidence, There, Turn
  <2>8. World'
    BY <1>0, <1>3, <2>1, <2>6, <2>7, Books DEF LaneInv, TypeOK, AgentSound, There, Kept
  <2>9. InOrder'
    BY <1>0, <1>i, <2>3, <2>6 DEF InOrder, Turn, Stopping, In, Answered, Kept
  <2>c. step = "clear" => cao.digest = 0
    <3>1. step = "clear" => Attached(Registered) = "clear"
      BY <2>3 DEF step
    <3>2. Attached(Registered) = "clear" => Registered.digest = 0
      BY DEF Attached
    <3> QED BY <2>1, <3>1, <3>2
  <2>10. Digests'
    BY <1>0, <1>3, <1>i, <2>1, <2>3, <2>6 DEF Digests, Turn, There, In, Kept
  <2>11. NotYet'
    <3>1. ~exec.resume => \A t \in Turns : t = exec.turn => taken[t] = 0
      BY <1>0, <1>i DEF NotYet, Unsent, In, Turn
    <3>2. step = "clear" => agent.status # "error" /\ agent.doing = 0 /\ agent.inbox = 0
      BY <1>3, <2>c DEF LaneInv, AgentSound, There
    <3> QED BY <1>0, <2>3, <2>6, <3>1, <3>2 DEF NotYet, Unsent, Turn, There, In, Stopping, Kept
  <2>12. AtOutput'
    BY <2>3, <2>6 DEF AtOutput, In
  <2> QED BY <2>8, <2>9, <2>10, <2>11, <2>12, Both DEF World, LaneInv
<1> QED BY <1>0, <1>1, <1>2, <1>3 DEF Lookup

LEMMA CreatedIs ==
  ASSUME exec \in Exec
  PROVE  /\ Created \in Session /\ Created.there = "up" /\ Created.digest = 0
         /\ Created.seen = FALSE
<1>1. 0 \in Numbers /\ exec.model \in Models
  BY Sizes DEF Numbers, Exec
<1> QED BY <1>1 DEF Created, NoSession, Session

LEMMA NoMemoryIs ==
  /\ NoMemory \in Memory /\ NoMemory.digest = 0 /\ NoMemory.active = FALSE /\ NoMemory.idle = 0
<1>1. 0 \in Numbers /\ 0 \in 0 .. Settle
  BY Sizes DEF Numbers
<1> QED BY <1>1 DEF NoMemory, Memory

LEMMA NoSessionIs ==
  NoSession \in Session /\ NoSession.there = "none" /\ NoSession.digest = 0 /\ NoSession.seen = FALSE
<1>1. 0 \in Numbers
  BY Sizes DEF Numbers
<1> QED BY <1>1 DEF NoSession, Session

LEMMA LaunchStep == ASSUME LaneInv, Launch PROVE LaneInv'
<1>0. /\ exec.pc = "launch" /\ cao' = Created /\ agent' = NoAgent
      /\ ctl' = [NoMemory EXCEPT !.known = TRUE]
      /\ UNCHANGED <<answer, taken, finished, crashes, faults>> /\ exec \in Exec
  BY DEF Launch, At, history, bounds, LaneInv, TypeOK
<1>i. InOrder /\ Digests /\ NotYet
  BY DEF LaneInv
<1>t. exec.turn \in Nat /\ exec.turn # 0
  BY <1>0, <1>i, Typed DEF LaneInv, InOrder, Turn
<1>1. /\ Kept /\ exec'.pc = "clear" /\ exec'.resume = exec.resume
      /\ exec'.why = exec.why /\ exec'.cleanup = exec.cleanup
  BY <1>0, GotoIs DEF Steps, Launch
<1>2. /\ Created \in Session /\ Created.there = "up" /\ Created.digest = 0
      /\ Created.seen = FALSE
  BY <1>0, CreatedIs
<1>3. ctl' \in Memory /\ ctl'.digest = 0 /\ ctl'.active = FALSE /\ ctl'.idle = 0
  BY <1>0, NoMemoryIs DEF Memory
<1>4. World'
  BY <1>0, <1>1, <1>2, <1>3, Afresh DEF LaneInv, TypeOK, Kept
<1>5. InOrder'
  BY <1>0, <1>i, <1>1 DEF InOrder, Turn, Stopping, In, Answered, Kept
<1>s. \A t \in Turns : t = exec.turn => taken[t] = 0
  BY <1>0, <1>i DEF NotYet, Unsent, In, Turn
<1>6. Digests'
  BY <1>0, <1>1, <1>2, <1>3, <1>t, <1>s DEF Digests, Turn, There, In, Kept
<1>7. NotYet' /\ AtOutput'
  BY <1>0, <1>1, <1>s DEF NotYet, Unsent, AtOutput, Turn, There, In, Stopping, Kept, NoAgent
<1> QED BY <1>4, <1>5, <1>6, <1>7, Both DEF World, LaneInv
----------------------------------------------------------------------------
(* Readings of the status.                                                 *)

LEMMA ObservedIs ==
  ASSUME TypeOK, AgentSound, Observed
  PROVE  /\ cao' \in Session /\ cao'.there = cao.there /\ cao'.digest = cao.digest
         /\ cao'.seen => cao.seen \/ agent.status \in Activity
         /\ agent' \in Agent /\ agent'.inbox = agent.inbox /\ agent'.doing = agent.doing
         /\ agent'.last = agent.last
         /\ agent'.status = agent.status
              \/ (agent.doing # 0 /\ agent.status = "idle" /\ agent'.status = "processing")
         /\ agent'.status = "idle" /\ agent.doing # 0 => agent'.pause < Pause
         /\ agent.doing # 0 /\ ctl.idle <= agent.pause => ctl'.idle <= agent'.pause
         /\ ctl' \in Memory /\ ctl'.digest = ctl.digest
         /\ ctl'.active = (ctl.active \/ agent.status \in Activity)
         /\ (~ctl.active => ctl.idle = 0) => (~ctl'.active => ctl'.idle = 0)
         /\ agent.status \in Activity => ctl'.idle = 0
         /\ crashes' \in 0 .. MaxCrashes /\ faults' \in 0 .. MaxFaults
<1>t. /\ ctl.idle \in Nat /\ ctl.idle <= Settle /\ agent.pause \in Nat /\ agent.pause <= Pause
      /\ Pause \in Nat /\ Settle \in Nat
  BY Sizes, Typed
<1>y. cao \in Session /\ agent \in Agent /\ ctl \in Memory
  BY DEF TypeOK
<1>1. /\ cao' \in Session /\ cao'.there = cao.there /\ cao'.digest = cao.digest
      /\ cao'.seen => cao.seen \/ agent.status \in Activity
      /\ crashes' \in 0 .. MaxCrashes /\ faults' \in 0 .. MaxFaults
  <2>1. CASE UNCHANGED cao /\ Fault
    BY <2>1, <1>y, FaultIs
  <2>2. CASE cao' = [cao EXCEPT !.seen = cao.seen \/ agent.status \in Activity] /\ UNCHANGED bounds
    <3> DEFINE seen == cao.seen \/ agent.status \in Activity
    <3>1. seen \in BOOLEAN
      BY <1>y DEF Session
    <3>2. cao' = [cao EXCEPT !.seen = seen]
      BY <2>2
    <3> HIDE DEF seen
    <3>3. cao' \in Session /\ cao'.there = cao.there /\ cao'.digest = cao.digest /\ cao'.seen = seen
      BY <1>y, <3>1, <3>2 DEF Session
    <3>4. seen => cao.seen \/ agent.status \in Activity
      BY DEF seen
    <3>5. crashes' \in 0 .. MaxCrashes /\ faults' \in 0 .. MaxFaults
      BY <2>2 DEF TypeOK, bounds
    <3> QED BY <3>3, <3>4, <3>5
  <2> QED BY <2>1, <2>2 DEF Observed
<1>2. /\ Readings \in Nat /\ Readings <= Settle /\ Readings \in 0 .. Settle
      /\ Readings <= ctl.idle + 1
      /\ agent.status # "idle" => Readings = 0
      /\ ~ctl.active /\ ctl.idle = 0 => Readings = 0
  BY <1>t DEF Readings
<1>3. /\ ctl' \in Memory /\ ctl'.digest = ctl.digest /\ ctl'.idle = Readings
      /\ ctl'.active = (ctl.active \/ agent.status \in Activity)
  <2> DEFINE active == ctl.active \/ agent.status \in Activity
  <2>1. active \in BOOLEAN
    BY <1>y DEF Memory
  <2>2. ctl' = [ctl EXCEPT !.active = active, !.idle = Readings]
    BY DEF Observed
  <2> HIDE DEF active
  <2>3. ctl' \in Memory /\ ctl'.digest = ctl.digest /\ ctl'.idle = Readings /\ ctl'.active = active
    BY <1>y, <1>2, <2>1, <2>2 DEF Memory
  <2> QED BY <2>3 DEF active
<1>6. /\ (~ctl.active => ctl.idle = 0) => (~ctl'.active => ctl'.idle = 0)
      /\ agent.status \in Activity => ctl'.idle = 0
  <2>1. agent.status \in Activity => agent.status # "idle"
    BY DEF Activity
  <2>2. agent.status \in Activity => ctl'.idle = 0
    BY <1>2, <1>3, <2>1
  <2>3. ASSUME ~ctl.active => ctl.idle = 0, ~ctl'.active PROVE ctl'.idle = 0
    <3>1. ~ctl.active
      BY <1>3, <2>3
    <3> QED BY <1>2, <1>3, <2>3, <3>1
  <2> QED BY <2>2, <2>3
<1>4. CASE Pausing
  <2>1. agent.doing # 0 /\ agent.status = "idle" /\ agent.pause < Pause
    BY <1>4 DEF Pausing, AgentSound
  <2> DEFINE status == IF agent.pause + 1 < Pause THEN "idle" ELSE "processing"
  <2>2. agent' = [agent EXCEPT !.pause = agent.pause + 1, !.status = status]
    BY <1>4, <2>1 DEF Observed
  <2>3. /\ status \in Statuses /\ status \in {"idle", "processing"}
        /\ status = "idle" => agent.pause + 1 < Pause
    BY DEF Statuses, Activity
  <2>4. agent.pause + 1 \in 0 .. Pause
    BY <1>t, <2>1
  <2> HIDE DEF status
  <2>5. /\ agent' \in Agent /\ agent'.inbox = agent.inbox /\ agent'.doing = agent.doing
        /\ agent'.last = agent.last /\ agent'.pause = agent.pause + 1 /\ agent'.status = status
    BY <1>y, <2>2, <2>3, <2>4 DEF Agent
  <2>6. ctl.idle <= agent.pause => ctl'.idle <= agent'.pause
    BY <1>t, <1>2, <1>3, <2>5
  <2>7. agent.status \notin Activity
    BY <2>1 DEF Activity
  <2>8. /\ agent'.status = agent.status
           \/ (agent.doing # 0 /\ agent.status = "idle" /\ agent'.status = "processing")
        /\ agent'.status = "idle" /\ agent.doing # 0 => agent'.pause < Pause
    BY <2>1, <2>3, <2>5
  <2> QED BY <1>1, <1>3, <1>6, <2>5, <2>6, <2>8
<1>5. CASE ~Pausing
  <2>1. agent' = [agent EXCEPT !.pause = 0]
    BY <1>5 DEF Observed
  <2>2. 0 \in 0 .. Pause
    BY <1>t
  <2>3. /\ agent' \in Agent /\ agent'.inbox = agent.inbox /\ agent'.doing = agent.doing
        /\ agent'.last = agent.last /\ agent'.pause = 0 /\ agent'.status = agent.status
    BY <1>y, <2>1, <2>2 DEF Agent
  <2>4. agent.doing # 0 => agent.status # "idle"
    BY <1>5 DEF Pausing
  <2>5. agent.doing # 0 /\ ctl.idle <= agent.pause => ctl'.idle <= agent'.pause
    BY <1>2, <1>3, <2>3, <2>4
  <2>6. agent'.status = "idle" /\ agent.doing # 0 => agent'.pause < Pause
    BY <2>3, <2>4
  <2> QED BY <1>1, <1>3, <1>6, <2>3, <2>5, <2>6
<1> QED BY <1>4, <1>5

LEMMA ObservedWorld ==
  ASSUME LaneInv, There, Observed, In({"replace", "adopt", "precheck", "poll"}), Kept,
         UNCHANGED <<answer, taken, finished>>
  PROVE  World'
<1>o. /\ cao' \in Session /\ cao'.there = cao.there /\ cao'.digest = cao.digest
      /\ cao'.seen => cao.seen \/ agent.status \in Activity
      /\ agent' \in Agent /\ agent'.inbox = agent.inbox /\ agent'.doing = agent.doing
      /\ agent'.last = agent.last
      /\ agent'.status = agent.status
           \/ (agent.doing # 0 /\ agent.status = "idle" /\ agent'.status = "processing")
      /\ agent'.status = "idle" /\ agent.doing # 0 => agent'.pause < Pause
      /\ agent.doing # 0 /\ ctl.idle <= agent.pause => ctl'.idle <= agent'.pause
      /\ ctl' \in Memory /\ ctl'.digest = ctl.digest
      /\ ctl'.active = (ctl.active \/ agent.status \in Activity)
      /\ (~ctl.active => ctl.idle = 0) => (~ctl'.active => ctl'.idle = 0)
      /\ agent.status \in Activity => ctl'.idle = 0
      /\ crashes' \in 0 .. MaxCrashes /\ faults' \in 0 .. MaxFaults
  BY ObservedIs DEF LaneInv
<1>i. AgentSound /\ Evidence /\ Digests
  BY DEF LaneInv
<1>1. TypeOK' /\ PromptOnce' /\ AnswerIsOwn'
  BY <1>o DEF LaneInv, TypeOK, PromptOnce, AnswerIsOwn, Kept
<1>2. QuietAfterAnswer'
  BY <1>o DEF LaneInv, QuietAfterAnswer, Answered
<1>3. AgentSound'
  BY <1>o, <1>i DEF AgentSound, There, Activity
<1>c. agent.status \in Activity => agent.doing = exec.turn
  BY <1>i, Current DEF AgentSound, Turn
<1>d. ctl.digest = cao.digest
  BY <1>i DEF Digests, In
<1>b. Began /\ exec.turn # 0 => Began'
  BY <1>o, Typed DEF Began, Ended, Turn, Kept, LaneInv
<1>p. /\ agent.pause \in Nat /\ agent'.pause \in Nat
  BY <1>o, Typed, Sizes DEF LaneInv, Agent
<1>4. Evidence'
  <2>1. ASSUME exec.turn # 0, cao.digest = exec.turn,
               cao.seen \/ ctl.active \/ agent.status \in Activity
        PROVE  Began /\ (agent.doing = exec.turn => ctl'.idle <= agent'.pause)
    <3>1. CASE agent.status \in Activity
      <4>1. agent.doing = exec.turn /\ ctl'.idle = 0
        BY <1>c, <1>o, <3>1
      <4>2. ctl'.idle <= agent'.pause
        BY <4>1, <1>p
      <4> QED BY <4>1, <4>2 DEF Began, Turn
    <3>2. CASE cao.seen \/ ctl.active
      BY <1>d, <1>i, <1>o, <2>1, <3>2 DEF Evidence, Turn
    <3> QED BY <2>1, <3>1, <3>2
  <2>2. ~ctl'.active => ctl'.idle = 0
    BY <1>i, <1>o DEF Evidence
  <2>3. ~exec'.before.active => exec'.before.idle = 0
    BY <1>i DEF Evidence, Kept
  <2>4. agent'.doing = agent.doing /\ exec'.turn = exec.turn
    BY <1>o DEF Kept
  <2> HIDE DEF Began
  <2> QED BY <1>b, <1>d, <1>o, <2>1, <2>2, <2>3, <2>4 DEF Evidence, Turn
<1> QED BY <1>1, <1>2, <1>3, <1>4 DEF World

\* A session with another model is stopped before anything was sent.
LEMMA StopModel ==
  ASSUME LaneInv, World', exec.pc = "replace", Kept, exec'.pc = "stop", exec'.why = "model",
         exec'.resume = exec.resume, exec'.cleanup = exec.cleanup, UNCHANGED <<answer, taken>>,
         cao'.there = cao.there, cao'.digest = cao.digest, ctl'.digest = ctl.digest
  PROVE  LaneInv'
<1>1. InOrder /\ Digests /\ NotYet
  BY DEF LaneInv
<1>2. InOrder'
  BY <1>1 DEF InOrder, Turn, Stopping, In, Answered, Kept
<1>3. Digests'
  BY <1>1 DEF Digests, Turn, There, In, Kept
<1>4. NotYet' /\ AtOutput'
  BY <1>1 DEF NotYet, Unsent, AtOutput, Turn, There, In, Stopping, Kept
<1> QED BY <1>2, <1>3, <1>4, Both DEF World, LaneInv

LEMMA ReplaceStep == ASSUME LaneInv, Replace PROVE LaneInv'
<1>0. /\ exec.pc = "replace" /\ exec \in Exec /\ UNCHANGED <<answer, taken, finished>>
      /\ StopFor("model") \/ Raise
      /\ (cao.there # "none" /\ Observed) \/ UNCHANGED <<cao, agent, ctl, crashes, faults>>
  BY DEF Replace, At, history, bounds, LaneInv, TypeOK
<1>1. /\ Kept
      /\ \/ /\ exec'.pc = "stop" /\ exec'.why = "model" /\ exec'.resume = exec.resume
            /\ exec'.cleanup = exec.cleanup
         \/ exec'.pc = "off" /\ exec'.resume = TRUE /\ exec'.cleanup = FALSE
  BY <1>0, StopForIs, RaiseIs DEF Reasons
<1>2. cao'.there = cao.there /\ cao'.digest = cao.digest /\ ctl'.digest = ctl.digest
  BY <1>0, ObservedIs DEF LaneInv
<1>3. World'
  <2>1. CASE cao.there # "none" /\ Observed
    BY <1>0, <1>1, <2>1, ObservedWorld DEF There, In
  <2>2. CASE UNCHANGED <<cao, agent, ctl, crashes, faults>>
    BY <1>0, <1>1, <2>2, OnlyExec DEF LaneInv, TypeOK
  <2> QED BY <1>0, <2>1, <2>2
<1>4. cao.digest \in {0, cao.digest} /\ ctl.digest \in {0, ctl.digest, cao.digest}
  OBVIOUS
<1>5. CASE exec'.pc = "stop"
  BY <1>0, <1>1, <1>2, <1>3, <1>5, StopModel
<1>6. CASE exec'.pc = "off"
  BY <1>0, <1>1, <1>2, <1>3, <1>4, <1>6, Leave
<1> QED BY <1>1, <1>5, <1>6

LEMMA AdoptStep == ASSUME LaneInv, Adopt PROVE LaneInv'
<1>0. /\ exec.pc = "adopt" /\ exec \in Exec /\ UNCHANGED <<answer, taken, finished>>
      /\ StopFor("stale") \/ Raise \/ Goto(Attached(ctl))
      /\ (cao.there # "none" /\ Observed) \/ UNCHANGED <<cao, agent, ctl, crashes, faults>>
  BY DEF Adopt, At, history, bounds, LaneInv, TypeOK
<1>a. /\ Attached(ctl) \in {"poll", "clear", "precheck"}
      /\ Attached(ctl) = "poll" <=> ctl.digest = exec.turn
      /\ Attached(ctl) = "clear" => ctl.digest = 0
  BY AttachedIs DEF LaneInv, TypeOK, Attached
<1>b. Attached(ctl) \in Steps
  BY <1>a DEF Steps
<1>1. /\ Kept
      /\ \/ /\ exec'.pc = "stop" /\ exec'.why = "stale" /\ exec'.resume = exec.resume
            /\ exec'.cleanup = exec.cleanup
         \/ exec'.pc = "off" /\ exec'.resume = TRUE /\ exec'.cleanup = FALSE
         \/ /\ exec'.pc = Attached(ctl) /\ exec'.resume = exec.resume
            /\ exec'.cleanup = exec.cleanup
  <2>1. CASE StopFor("stale")
    BY <1>0, <2>1, StopForIs DEF Reasons
  <2>2. CASE Raise
    BY <1>0, <2>2, RaiseIs
  <2>3. CASE Goto(Attached(ctl))
    BY <1>0, <1>b, <2>3, GotoIs
  <2> QED BY <1>0, <2>1, <2>2, <2>3
<1>2. cao'.there = cao.there /\ cao'.digest = cao.digest /\ ctl'.digest = ctl.digest
  BY <1>0, ObservedIs DEF LaneInv
<1>3. World'
  <2>1. CASE cao.there # "none" /\ Observed
    BY <1>0, <1>1, <2>1, ObservedWorld DEF There, In
  <2>2. CASE UNCHANGED <<cao, agent, ctl, crashes, faults>>
    BY <1>0, <1>1, <2>2, OnlyExec DEF LaneInv, TypeOK
  <2> QED BY <1>0, <2>1, <2>2
<1>4. cao.digest \in {0, cao.digest} /\ ctl.digest \in {0, ctl.digest, cao.digest}
  OBVIOUS
<1>5. CASE exec'.pc \in {"stop", "off"}
  <2>1. ~Stopping("failed")
    BY <1>0 DEF Stopping, In
  <2>2. exec'.pc = "stop" => exec'.why = "stale" /\ exec'.cleanup = exec.cleanup
    BY <1>1, <1>a
  <2>3. exec'.pc = "off" => exec'.resume = TRUE /\ exec'.cleanup = FALSE
    BY <1>1, <1>a
  <2> QED BY <1>0, <1>1, <1>2, <1>3, <1>4, <1>5, <2>1, <2>2, <2>3, Leave
<1>6. CASE exec'.pc = Attached(ctl) /\ exec'.pc \notin {"stop", "off"}
  <2>1. InOrder /\ Digests
    BY DEF LaneInv
  <2>2. exec'.resume = exec.resume /\ exec'.cleanup = exec.cleanup
    BY <1>1, <1>6
  <2>3. InOrder'
    BY <1>0, <1>1, <1>a, <1>6, <2>1, <2>2 DEF InOrder, Turn, Stopping, In, Answered, Kept
  <2>4. Digests'
    BY <1>0, <1>1, <1>2, <1>a, <1>6, <2>1, <2>2 DEF Digests, Turn, There, In, Kept
  <2>5. NotYet'
    <3>1. Attached(ctl) # "poll" => \A t \in Turns : t = exec.turn => taken[t] # 1
      BY <1>0, <1>a, <2>1 DEF Digests, Turn, In
    <3>2. \A t \in Turns : taken[t] # 1 => taken[t] = 0
      BY DEF LaneInv, PromptOnce, TypeOK
    <3>3. cao'.there # "none" /\ exec'.pc = "clear" =>
            agent'.status # "error" /\ agent'.doing = 0 /\ agent'.inbox = 0
      <4>1. cao'.there # "none" /\ exec'.pc = "clear" => cao'.digest = 0
        BY <1>0, <1>2, <1>6, <1>a, <2>1 DEF Digests, There, In
      <4> QED BY <1>3, <4>1 DEF World, AgentSound, There
    <3> QED BY <1>0, <1>1, <1>6, <1>a, <3>1, <3>2, <3>3 DEF NotYet, Unsent, Turn, There, In, Stopping, Kept
  <2>6. AtOutput'
    BY <1>6, <1>a DEF AtOutput, In
  <2> QED BY <1>3, <2>3, <2>4, <2>5, <2>6, Both DEF World, LaneInv
<1> QED BY <1>1, <1>5, <1>6

LEMMA PrecheckStep == ASSUME LaneInv, Precheck PROVE LaneInv'
<1>0. /\ exec.pc = "precheck" /\ exec \in Exec /\ UNCHANGED <<answer, taken, finished>>
      /\ StopFor("busy") \/ Raise \/ (Goto("clear") /\ Lifecycle = "completed"
                                        /\ cao.there # "none" /\ Observed)
      /\ (cao.there # "none" /\ Observed) \/ UNCHANGED <<cao, agent, ctl, crashes, faults>>
  BY DEF Precheck, At, history, bounds, LaneInv, TypeOK
<1>1. /\ Kept
      /\ \/ /\ exec'.pc = "stop" /\ exec'.why = "busy" /\ exec'.resume = exec.resume
            /\ exec'.cleanup = exec.cleanup
         \/ exec'.pc = "off" /\ exec'.resume = TRUE /\ exec'.cleanup = FALSE
         \/ /\ exec'.pc = "clear" /\ exec'.resume = exec.resume /\ exec'.cleanup = exec.cleanup
            /\ Lifecycle = "completed" /\ cao.there # "none" /\ Observed
  <2>1. CASE StopFor("busy")
    BY <1>0, <2>1, StopForIs DEF Reasons
  <2>2. CASE Raise
    BY <1>0, <2>2, RaiseIs
  <2>3. CASE Goto("clear") /\ Lifecycle = "completed" /\ cao.there # "none" /\ Observed
    <3>1. "clear" \in Steps
      BY DEF Steps
    <3> QED BY <1>0, <2>3, <3>1, GotoIs
  <2> QED BY <1>0, <2>1, <2>2, <2>3
<1>2. cao'.there = cao.there /\ cao'.digest = cao.digest /\ ctl'.digest = ctl.digest
  BY <1>0, ObservedIs DEF LaneInv
<1>3. World'
  <2>1. CASE cao.there # "none" /\ Observed
    BY <1>0, <1>1, <2>1, ObservedWorld DEF There, In
  <2>2. CASE UNCHANGED <<cao, agent, ctl, crashes, faults>>
    BY <1>0, <1>1, <2>2, OnlyExec DEF LaneInv, TypeOK
  <2> QED BY <1>0, <2>1, <2>2
<1>4. cao.digest \in {0, cao.digest} /\ ctl.digest \in {0, ctl.digest, cao.digest}
  OBVIOUS
<1>5. CASE exec'.pc \in {"stop", "off"}
  <2>1. ~Stopping("failed")
    BY <1>0 DEF Stopping, In
  <2>2. exec'.pc = "stop" => exec'.why = "busy" /\ exec'.cleanup = exec.cleanup
    BY <1>1
  <2>3. exec'.pc = "off" => exec'.resume = TRUE /\ exec'.cleanup = FALSE
    BY <1>1
  <2> QED BY <1>0, <1>1, <1>2, <1>3, <1>4, <1>5, <2>1, <2>2, <2>3, Leave
<1>6. CASE exec'.pc = "clear"
  <2>1. InOrder /\ Digests /\ NotYet
    BY DEF LaneInv
  <2>2. /\ exec'.resume = exec.resume /\ exec'.cleanup = exec.cleanup
        /\ Lifecycle = "completed" /\ cao.there # "none" /\ Observed
    BY <1>1, <1>6
  <2>3. InOrder'
    BY <1>0, <1>1, <1>6, <2>1, <2>2 DEF InOrder, Turn, Stopping, In, Answered, Kept
  <2>4. Digests'
    BY <1>0, <1>1, <1>2, <1>6, <2>1, <2>2 DEF Digests, Turn, There, In, Kept
  <2>s. /\ \A t \in Turns : t = exec.turn => taken[t] = 0
        /\ exec.turn \in Turns
    <3>1. exec.turn # 0
      BY <1>0, <2>1 DEF InOrder, Turn
    <3> QED BY <1>0, <2>1, <3>1, Typed DEF NotYet, Unsent, In, Turn, LaneInv
  <2>q. agent.doing = 0 /\ agent.inbox = 0
    <3>1. agent.doing # exec.turn /\ agent.inbox # exec.turn
      BY <2>s DEF LaneInv, AgentSound
    <3> QED BY <3>1, Current DEF Turn
  <2>r. agent.status # "error"
    BY <2>2 DEF Lifecycle
  <2>5. agent'.status = agent.status /\ agent'.doing = 0 /\ agent'.inbox = 0
    BY <2>2, <2>q, ObservedIs DEF LaneInv
  <2>6. NotYet' /\ AtOutput'
    BY <1>0, <1>1, <1>6, <2>s, <2>r, <2>5 DEF NotYet, Unsent, AtOutput, Turn, There, In, Stopping, Kept
  <2> QED BY <1>3, <2>3, <2>4, <2>6, Both DEF World, LaneInv
<1> QED BY <1>1, <1>5, <1>6
----------------------------------------------------------------------------
(* Results.                                                                *)

LEMMA AnswerStep ==
  ASSUME LaneInv, exec.pc # "off", ~Stopping("failed"),
         NEW kind \in Endings \ {"none"}, NEW of \in Numbers, Answer(kind, of),
         kind = "completed" => of = Turn /\ Turn \in finished,
         agent.doing = 0, agent.inbox = 0,
         UNCHANGED <<cao, agent, taken, finished, crashes, faults>>,
         ctl' \in Memory, ctl'.digest \in {0, ctl.digest},
         ctl'.active => ctl' = ctl, ~ctl'.active => ctl'.idle = 0
  PROVE  LaneInv'
<1>i. InOrder /\ Digests /\ Evidence /\ TypeOK
  BY DEF LaneInv
<1>t. /\ exec.turn \in Turns /\ exec.turn # 0 /\ exec.turn \in Nat
      /\ cao.digest \in Nat /\ ctl.digest \in Nat
      /\ \A t \in Turns : t # 0
  BY <1>i, Typed DEF InOrder, Turn
<1>1. /\ exec' \in Exec /\ exec'.pc = "off" /\ exec'.turn = exec.turn /\ exec'.resume = FALSE
      /\ exec'.cleanup = (kind # "completed") /\ exec'.before = exec.before
  <2>1. exec \in Exec /\ "off" \in Steps
    BY <1>i DEF TypeOK, Steps
  <2> DEFINE cleanup == kind # "completed"
  <2>2. exec' = [exec EXCEPT !.pc = "off", !.resume = FALSE, !.cleanup = cleanup]
    BY DEF Answer
  <2>3. cleanup \in BOOLEAN
    OBVIOUS
  <2> HIDE DEF cleanup
  <2>4. /\ exec' \in Exec /\ exec'.pc = "off" /\ exec'.turn = exec.turn /\ exec'.resume = FALSE
        /\ exec'.cleanup = cleanup /\ exec'.before = exec.before
    BY <2>1, <2>2, <2>3 DEF Exec
  <2> QED BY <2>4 DEF cleanup
<1>2. /\ answer' \in [Turns -> [kind : Endings, of : Numbers]]
      /\ answer'[exec.turn].kind = kind /\ answer'[exec.turn].of = of
      /\ \A t \in Turns : t # exec.turn => answer'[t] = answer[t]
  BY <1>i, <1>t DEF Answer, TypeOK
<1>3. TypeOK'
  BY <1>1, <1>2, <1>i DEF TypeOK
<1>4. PromptOnce' /\ AgentSound'
  BY DEF LaneInv, PromptOnce, AgentSound, There
<1>5. AnswerIsOwn'
  <2>1. ASSUME NEW t \in Turns, answer'[t].kind = "completed" PROVE t \in finished /\ answer'[t].of = t
    <3>1. CASE t = exec.turn
      BY <1>2, <2>1, <3>1 DEF Turn
    <3>2. CASE t # exec.turn
      BY <1>2, <2>1, <3>2 DEF LaneInv, AnswerIsOwn
    <3> QED BY <3>1, <3>2
  <2> QED BY <2>1 DEF AnswerIsOwn
<1>6. QuietAfterAnswer'
  BY <1>t DEF QuietAfterAnswer
<1>7. Evidence'
  <2>1. agent.doing # exec.turn
    BY <1>t
  <2>2. Began' <=> Began
    BY <1>1 DEF Began, Ended, Turn
  <2> HIDE DEF Began
  <2> QED BY <1>1, <1>i, <2>1, <2>2 DEF Evidence, There, Turn
<1>8. InOrder'
  <2>1. \A t \in Turns : t # exec.turn => (Answered(t)' <=> Answered(t))
    BY <1>2 DEF Answered
  <2>3. \A t \in Turns : t < exec.turn \/ t > exec.turn => t # exec.turn
    BY <1>t, Typed, <1>i
  <2>4. \A t \in Turns : t < exec.turn => Answered(t)'
    BY <1>i, <2>1, <2>3 DEF InOrder, Turn
  <2>5. \A t \in Turns : t > exec.turn => ~Answered(t)' /\ taken[t] = 0
    BY <1>i, <2>1, <2>3 DEF InOrder, Turn
  <2>6. /\ Turn' = exec.turn /\ exec'.pc = "off" /\ ~Stopping("failed")' /\ taken' = taken
    BY <1>1 DEF Turn, Stopping, In
  <2> HIDE DEF Answered
  <2>7. Answered(Turn)'
    BY <1>1, <1>2 DEF Turn, Answered
  <2> QED BY <1>t, <2>4, <2>5, <2>6, <2>7 DEF InOrder
<1>9. Digests'
  <2>1. ctl'.digest <= exec.turn /\ cao.digest <= exec.turn
    BY <1>t, <1>i DEF Digests, Turn
  <2> QED BY <1>1, <1>i, <2>1 DEF Digests, Turn, There, In
<1>10. NotYet' /\ AtOutput'
  BY <1>1 DEF NotYet, Unsent, AtOutput, In, Stopping
<1> QED BY <1>3, <1>4, <1>5, <1>6, <1>7, <1>8, <1>9, <1>10 DEF LaneInv

LEMMA PollStep == ASSUME LaneInv, Poll PROVE LaneInv'
<1>0. exec.pc = "poll" /\ exec \in Exec /\ UNCHANGED <<taken, finished>>
  BY DEF Poll, At, history, LaneInv, TypeOK
<1>i. InOrder /\ Digests /\ Evidence /\ AgentSound /\ TypeOK
  BY DEF LaneInv
<1>s. ~Stopping("failed") /\ ~Stopping("model")
  BY <1>0 DEF Stopping, In
<1>t. exec.turn # 0
  BY <1>0, <1>i DEF InOrder, Turn
<1>1. CASE cao.there = "none" /\ ctl' = [ctl EXCEPT !.active = FALSE, !.idle = 0]
           /\ Answer("disappeared", 0) /\ UNCHANGED <<cao, agent, bounds>>
  <2>1. agent.doing = 0 /\ agent.inbox = 0
    BY <1>1, <1>i DEF AgentSound, There, NoAgent
  <2>2. ctl' \in Memory /\ ctl'.digest = ctl.digest /\ ctl'.active = FALSE /\ ctl'.idle = 0
    <3>1. ctl \in Memory /\ 0 \in 0 .. Settle
      BY <1>i, Sizes DEF TypeOK
    <3> QED BY <1>1, <3>1 DEF Memory
  <2>3. 0 \in Numbers /\ "disappeared" \in Endings \ {"none"}
    BY Sizes DEF Numbers, Endings
  <2>4. "disappeared" # "completed"
    OBVIOUS
  <2>5. UNCHANGED <<cao, agent, taken, finished, crashes, faults>>
    BY <1>0, <1>1 DEF bounds
  <2> QED BY <1>0, <1>1, <1>s, <2>1, <2>2, <2>3, <2>4, <2>5, AnswerStep
<1>2. CASE cao.there # "none" /\ Observed /\ UNCHANGED answer
  <2>1. cao'.there = cao.there /\ cao'.digest = cao.digest /\ ctl'.digest = ctl.digest
    BY <1>i, <1>2, ObservedIs
  <2>2. Kept => World'
    BY <1>0, <1>2, ObservedWorld DEF There, In
  <2>3. CASE StopFor("timeout")
    <3>1. Kept /\ exec'.pc = "stop" /\ exec'.why = "timeout" /\ exec'.cleanup = exec.cleanup
      BY <1>0, <2>3, StopForIs DEF Reasons
    <3>2. cao.digest \in {0, cao.digest} /\ ctl.digest \in {0, ctl.digest, cao.digest}
      OBVIOUS
    <3> QED BY <1>0, <1>2, <1>s, <2>1, <2>2, <3>1, <3>2, Leave
  <2>4. CASE UNCHANGED exec
    <3>1. Kept
      BY <1>0, <2>4 DEF Kept
    <3>2. InOrder'
      BY <1>0, <1>2, <1>i, <2>4 DEF InOrder, Turn, Stopping, In, Answered
    <3>3. Digests'
      BY <1>0, <1>i, <2>1, <2>4 DEF Digests, Turn, There, In
    <3>4. NotYet' /\ AtOutput'
      BY <1>0, <2>4 DEF NotYet, Unsent, AtOutput, Turn, In, Stopping
    <3> QED BY <2>2, <3>1, <3>2, <3>3, <3>4, Both DEF World, LaneInv
  <2>5. CASE /\ Lifecycle # "running"
             /\ exec' = [exec EXCEPT !.pc = "output", !.why = IF Lifecycle = "failed"
                                                               THEN "failed" ELSE "error"]
    <3> DEFINE why == IF Lifecycle = "failed" THEN "failed" ELSE "error"
    <3>1. why \in Reasons /\ why \in {"failed", "error"} /\ "output" \in Steps
      BY DEF Reasons, Steps
    <3>2. exec' = [exec EXCEPT !.pc = "output", !.why = why]
      BY <2>5
    <3>3. why = "failed" => agent.status = "error"
      BY <2>5 DEF Lifecycle
    <3>4. why = "error" => Lifecycle = "completed"
      BY <2>5 DEF Lifecycle
    <3> HIDE DEF why
    <3>5. /\ Kept /\ exec'.pc = "output" /\ exec'.why = why /\ exec'.resume = exec.resume
          /\ exec'.cleanup = exec.cleanup
      BY <1>0, <3>1, <3>2 DEF Kept, Exec
    <3>6. World'
      BY <2>2, <3>5
    <3>7. InOrder'
      BY <1>0, <1>2, <1>i, <3>5 DEF InOrder, Turn, Stopping, In, Answered, Kept
    <3>8. Digests'
      BY <1>0, <1>i, <2>1, <3>5 DEF Digests, Turn, There, In, Kept
    <3>9. NotYet'
      BY <3>5 DEF NotYet, Unsent, In, Stopping
    <3>10. why = "error" => Ended
      <4> SUFFICES ASSUME Lifecycle = "completed" PROVE Ended
        BY <3>4
      <4>1. ctl.digest = exec.turn
        BY <1>0, <1>i DEF Digests, In, Turn
      <4>2. ctl.active /\ agent.status \in {"idle", "completed"}
            /\ (agent.status = "idle" => ctl.idle + 1 >= Settle)
        BY <1>t, <4>1 DEF Lifecycle
      <4>3. Began /\ (agent.doing = exec.turn => ctl.idle <= agent.pause)
        BY <1>2, <1>i, <1>t, <4>1, <4>2 DEF Evidence, There, Turn
      <4>4. agent.doing # exec.turn
        <5>1. CASE agent.status = "completed"
          BY <1>i, <1>t, <5>1 DEF AgentSound, Activity
        <5>2. ASSUME agent.status = "idle", agent.doing = exec.turn PROVE FALSE
          <6>1. agent.pause < Pause /\ ctl.idle <= agent.pause /\ ctl.idle + 1 >= Settle
            BY <1>i, <1>t, <4>2, <4>3, <5>2 DEF AgentSound
          <6>2. ctl.idle \in Nat /\ agent.pause \in Nat
            BY <1>i, Typed
          <6> QED BY <6>1, <6>2, Sizes
        <5> QED BY <4>2, <5>1, <5>2
      <4> QED BY <4>2, <4>3, <4>4 DEF Began, Turn
    <3>11. AtOutput'
      <4>1. why = "error" => Ended'
        BY <1>0, <1>2, <1>i, <3>5, <3>10, ObservedIs DEF Ended, Turn, Kept
      <4>2. why = "failed" => agent'.status = "error"
        BY <1>2, <1>i, <3>3, ObservedIs
      <4> QED BY <3>1, <3>5, <4>1, <4>2 DEF AtOutput
    <3> QED BY <3>6, <3>7, <3>8, <3>9, <3>11, Both DEF World, LaneInv
  <2>6. \/ StopFor("timeout") \/ UNCHANGED exec
        \/ /\ Lifecycle # "running"
           /\ exec' = [exec EXCEPT !.pc = "output", !.why = IF Lifecycle = "failed"
                                                             THEN "failed" ELSE "error"]
    BY <1>2 DEF Poll
  <2> QED BY <2>3, <2>4, <2>5, <2>6
<1> QED BY <1>1, <1>2 DEF Poll

LEMMA OutputStep == ASSUME LaneInv, Output PROVE LaneInv'
<1>0. exec.pc = "output" /\ exec \in Exec
      /\ UNCHANGED <<cao, agent, ctl, taken, finished, crashes, faults>>
  BY DEF Output, At, history, bounds, LaneInv, TypeOK
<1>i. Evidence /\ AgentSound /\ AtOutput /\ TypeOK
  BY DEF LaneInv
<1>s. ~Stopping("failed")
  BY <1>0 DEF Stopping, In
<1>1. CASE cao.there # "none" /\ Answer(IF exec.why = "failed" THEN "failed" ELSE "completed", agent.last)
  <2> DEFINE kind == IF exec.why = "failed" THEN "failed" ELSE "completed"
  <2>1. kind \in Endings \ {"none"} /\ agent.last \in Numbers
    BY <1>i, Typed DEF Endings
  <2>2. kind = "completed" => Ended
    BY <1>0, <1>1, <1>i DEF AtOutput, In, There
  <2>3. kind = "failed" => agent.status = "error"
    BY <1>0, <1>1, <1>i DEF AtOutput, In, There
  <2>4. agent.doing = 0 /\ agent.inbox = 0
    BY <1>i, <2>2, <2>3 DEF AgentSound, Ended, Activity
  <2>5. kind = "completed" => agent.last = Turn /\ Turn \in finished
    BY <2>2 DEF Ended
  <2>6. Answer(kind, agent.last)
    BY <1>1
  <2>7. ctl' \in Memory /\ ctl' = ctl /\ (~ctl'.active => ctl'.idle = 0)
    BY <1>0, <1>i DEF TypeOK, Evidence
  <2> HIDE DEF kind
  <2> QED BY <1>0, <1>s, <2>1, <2>4, <2>5, <2>6, <2>7, AnswerStep
<1>2. CASE StopFor("error") /\ UNCHANGED answer
  <2>1. Kept /\ exec'.pc = "stop" /\ exec'.why = "error" /\ exec'.cleanup = exec.cleanup
    BY <1>0, <1>2, StopForIs DEF Reasons
  <2>2. World'
    BY <1>0, <1>2, <2>1, OnlyExec, <1>i DEF TypeOK
  <2> QED BY <1>0, <1>2, <1>s, <2>1, <2>2, Leave
<1> QED BY <1>1, <1>2 DEF Output
----------------------------------------------------------------------------
(* The input and what surrounds it.                                        *)

LEMMA ClearStep == ASSUME LaneInv, Clear PROVE LaneInv'
<1>0. exec.pc = "clear" /\ exec \in Exec /\ UNCHANGED <<agent, answer, taken, finished, crashes, faults>>
  BY DEF Clear, At, history, bounds, LaneInv, TypeOK
<1>i. InOrder /\ Digests /\ NotYet /\ Evidence /\ TypeOK
  BY DEF LaneInv
<1>t. /\ exec.turn \in Nat /\ exec.turn # 0 /\ exec.turn \in Numbers
      /\ ctl.digest \in Nat /\ cao.digest \in Nat
  BY <1>0, <1>i, Typed DEF InOrder, Turn
<1>1. CASE /\ cao.there # "none" /\ ctl' = Prepared(ctl)
           /\ cao' = [cao EXCEPT !.digest = exec.turn, !.seen = Prepared(ctl).active]
           /\ exec' = [exec EXCEPT !.pc = "input", !.before = ctl]
  <2>1. /\ ctl' \in Memory /\ ctl'.digest = exec.turn /\ ctl'.active = FALSE /\ ctl'.idle = 0
        /\ ctl \in Memory
    <3>1. ctl \in Memory /\ 0 \in 0 .. Settle
      BY <1>i, Sizes DEF TypeOK
    <3> QED BY <1>1, <1>t, <3>1 DEF Prepared, Memory
  <2>2. /\ cao' \in Session /\ cao'.digest = exec.turn /\ cao'.seen = FALSE
        /\ cao'.there = cao.there
    <3>1. Prepared(ctl).active = FALSE
      BY <1>1, <2>1
    <3>2. cao' = [cao EXCEPT !.digest = exec.turn, !.seen = FALSE]
      BY <1>1, <3>1
    <3>3. cao \in Session
      BY <1>i DEF TypeOK
    <3> QED BY <1>t, <3>2, <3>3 DEF Session
  <2>3. /\ exec' \in Exec /\ exec'.pc = "input" /\ exec'.before = ctl /\ exec'.turn = exec.turn
        /\ exec'.why = exec.why /\ exec'.resume = exec.resume /\ exec'.cleanup = exec.cleanup
    BY <1>0, <1>1, <2>1 DEF Exec, Steps
  <2>4. Evidence'
    BY <1>i, <2>1, <2>2, <2>3 DEF Evidence, There, Turn
  <2>5. World'
    BY <1>0, <1>t, <1>i, <2>1, <2>2, <2>3, <2>4, Books DEF TypeOK
  <2>6. InOrder'
    BY <1>0, <1>i, <2>3 DEF InOrder, Turn, Stopping, In, Answered
  <2>7. Digests'
    <3>1. ctl.digest < exec.turn
      BY <1>0, <1>i, <1>t DEF Digests, In, Turn
    <3> QED BY <1>0, <1>t, <1>i, <2>1, <2>2, <2>3, <3>1 DEF Digests, Turn, There, In
  <2>8. NotYet' /\ AtOutput'
    BY <1>0, <1>i, <2>2, <2>3 DEF NotYet, Unsent, AtOutput, Turn, There, In, Stopping
  <2> QED BY <2>5, <2>6, <2>7, <2>8, Both DEF World, LaneInv
<1>2. CASE StopFor("error") /\ UNCHANGED <<cao, ctl>>
  <2>1. Kept /\ exec'.pc = "stop" /\ exec'.why = "error" /\ exec'.cleanup = exec.cleanup
    BY <1>0, <1>2, StopForIs DEF Reasons
  <2>2. World'
    BY <1>0, <1>2, <2>1, OnlyExec, <1>i DEF TypeOK
  <2>3. ~Stopping("failed")
    BY <1>0 DEF Stopping, In
  <2> QED BY <1>0, <1>2, <2>1, <2>2, <2>3, Leave
<1> QED BY <1>1, <1>2 DEF Clear

\* Execute is over, without an answer.
LEMMA Off ==
  ASSUME LaneInv, World', Kept, exec'.pc = "off", exec'.cleanup = FALSE,
         exec.turn # 0 /\ ~Answered(exec.turn) => exec'.resume,
         UNCHANGED answer, \A t \in Turns : t # exec.turn => taken'[t] = taken[t],
         cao'.digest <= exec.turn, ctl'.digest <= exec.turn,
         \A t \in Turns : t = exec.turn /\ taken'[t] = 1 /\ cao'.there # "none" => cao'.digest = t
  PROVE  LaneInv'
<1>t. exec.turn \in Nat /\ \A t \in Turns : t \in Nat
  BY Typed DEF LaneInv
<1>1. InOrder
  BY DEF LaneInv
<1>2. InOrder'
  <2>1. \A t \in Turns : t > exec.turn => t # exec.turn
    BY <1>t
  <2> QED BY <1>1, <2>1 DEF InOrder, Turn, Stopping, In, Answered, Kept
<1>3. Digests'
  BY DEF Digests, Turn, There, In, Kept
<1>4. NotYet' /\ AtOutput'
  BY DEF NotYet, Unsent, AtOutput, In, Stopping
<1> QED BY <1>2, <1>3, <1>4, Both DEF World, LaneInv

\* The prompt reaches the inbox.
LEMMA DeliveredWorld ==
  ASSUME LaneInv, exec.pc = "input", Delivered, Kept, UNCHANGED <<cao, ctl, answer, finished>>,
         crashes' \in 0 .. MaxCrashes, faults' \in 0 .. MaxFaults
  PROVE  /\ World' /\ cao.digest = exec.turn /\ ctl.digest = exec.turn
         /\ \A t \in Turns : t # exec.turn => taken'[t] = taken[t]
<1>i. InOrder /\ Digests /\ NotYet /\ Evidence /\ TypeOK /\ AgentSound
  BY DEF LaneInv
<1>t. /\ exec.turn \in Nat /\ exec.turn # 0 /\ exec.turn \in Numbers /\ exec.turn \in Turns
      /\ exec.turn <= MaxTurns /\ MaxTurns \in Nat /\ 1 <= MaxTurns
  BY <1>i, Typed, Sizes DEF InOrder, Turn
<1>0. /\ cao.there # "none" /\ agent' = [agent EXCEPT !.inbox = exec.turn]
      /\ taken' = [taken EXCEPT ![exec.turn] = @ + 1]
  BY DEF Delivered
<1>1. cao.digest = exec.turn /\ ctl.digest = exec.turn
  BY <1>0, <1>i DEF Digests, There, In, Turn
<1>2. taken[exec.turn] = 0 /\ agent.status # "error" /\ agent.doing = 0 /\ agent.inbox = 0
  BY <1>0, <1>t, <1>i DEF NotYet, Unsent, In, Turn, There
<1>3. /\ taken' \in [Turns -> 0 .. MaxTurns] /\ taken'[exec.turn] = 1
      /\ \A t \in Turns : t # exec.turn => taken'[t] = taken[t]
  BY <1>0, <1>t, <1>2, <1>i DEF TypeOK
<1>4. /\ agent' \in Agent /\ agent'.inbox = exec.turn /\ agent'.doing = 0
      /\ agent'.status = agent.status /\ agent'.last = agent.last /\ agent'.pause = agent.pause
  BY <1>0, <1>t, <1>2, <1>i DEF TypeOK, Agent
<1>5. TypeOK'
  BY <1>3, <1>4, <1>i DEF TypeOK, Kept
<1>6. PromptOnce' /\ AnswerIsOwn'
  BY <1>3 DEF LaneInv, PromptOnce, AnswerIsOwn
<1>7. QuietAfterAnswer'
  BY <1>4, <1>t, <1>i, Typed DEF LaneInv, QuietAfterAnswer, InOrder, Turn, Answered, Stopping, In
<1>8. AgentSound'
  <2>1. ASSUME NEW t \in Turns, agent'.inbox = t \/ agent'.doing = t \/ t \in finished
        PROVE  taken'[t] = 1
    <3>1. CASE t = exec.turn
      BY <1>3, <3>1
    <3>2. CASE t # exec.turn
      <4>1. t \in finished
        BY <1>4, <2>1, <3>2, Typed, <1>i
      <4> QED BY <1>3, <1>i, <3>2, <4>1 DEF AgentSound
    <3> QED BY <3>1, <3>2
  <2>2. agent.status \notin Activity
    BY <1>2, <1>i DEF AgentSound
  <2> QED BY <1>0, <1>1, <1>2, <1>4, <1>t, <2>1, <2>2 DEF AgentSound, There
<1>9. Evidence'
  <2>1. ~Began
    <3>1. Turn \notin finished
      BY <1>2, <1>t, <1>i DEF AgentSound, Turn
    <3> QED BY <1>2, <1>t, <3>1 DEF Began, Ended, Turn
  <2>2. ~cao.seen /\ ~ctl.active
    BY <1>0, <1>1, <1>t, <1>i, <2>1 DEF Evidence, There, Turn
  <2> QED BY <1>i, <2>2 DEF Evidence, Kept
<1> QED BY <1>1, <1>3, <1>5, <1>6, <1>7, <1>8, <1>9 DEF World

LEMMA InputStep == ASSUME LaneInv, Input PROVE LaneInv'
<1>0. exec.pc = "input" /\ exec \in Exec /\ UNCHANGED <<cao, ctl, answer, finished>>
  BY DEF Input, At, LaneInv, TypeOK
<1>i. InOrder /\ Digests /\ NotYet /\ TypeOK
  BY DEF LaneInv
<1>t. exec.turn \in Nat /\ \A t \in Turns : t \in Nat
  BY <1>i, Typed
<1>1. CASE Delivered /\ Goto("poll") /\ UNCHANGED bounds
  <2>1. /\ Kept /\ exec'.pc = "poll" /\ exec'.resume = exec.resume
        /\ exec'.why = exec.why /\ exec'.cleanup = exec.cleanup
    BY <1>0, <1>1, GotoIs DEF Steps
  <2>2. /\ World' /\ cao.digest = exec.turn /\ ctl.digest = exec.turn
        /\ \A t \in Turns : t # exec.turn => taken'[t] = taken[t]
    BY <1>0, <1>1, <1>i, <2>1, DeliveredWorld DEF bounds, TypeOK
  <2>3. InOrder'
    <3>1. \A t \in Turns : t > exec.turn => t # exec.turn
      BY <1>t
    <3> QED BY <1>0, <1>i, <2>1, <2>2, <3>1 DEF InOrder, Turn, Stopping, In, Answered, Kept
  <2>4. Digests'
    BY <1>0, <1>i, <2>1, <2>2 DEF Digests, Turn, There, In, Kept
  <2>5. NotYet' /\ AtOutput'
    BY <2>1 DEF NotYet, Unsent, AtOutput, In, Stopping
  <2> QED BY <2>2, <2>3, <2>4, <2>5, Both DEF World, LaneInv
<1>2. CASE cao.there # "none" /\ Fault /\ Goto("restore") /\ UNCHANGED <<agent, taken>>
  <2>1. /\ Kept /\ exec'.pc = "restore" /\ exec'.resume = exec.resume
        /\ exec'.why = exec.why /\ exec'.cleanup = exec.cleanup
    BY <1>0, <1>2, GotoIs DEF Steps
  <2>2. World'
    BY <1>0, <1>2, <1>i, <2>1, OnlyExec, FaultIs
  <2>3. InOrder'
    BY <1>0, <1>2, <1>i, <2>1 DEF InOrder, Turn, Stopping, In, Answered, Kept
  <2>4. Digests'
    BY <1>0, <1>2, <1>i, <2>1 DEF Digests, Turn, There, In, Kept
  <2>5. NotYet' /\ AtOutput'
    BY <1>0, <1>2, <1>i, <2>1 DEF NotYet, Unsent, AtOutput, Turn, There, In, Stopping, Kept
  <2> QED BY <2>2, <2>3, <2>4, <2>5, Both DEF World, LaneInv
<1>3. CASE StopFor("error") /\ UNCHANGED <<agent, taken, bounds>>
  <2>1. Kept /\ exec'.pc = "stop" /\ exec'.why = "error" /\ exec'.cleanup = exec.cleanup
    BY <1>0, <1>3, StopForIs DEF Reasons
  <2>2. World'
    BY <1>0, <1>3, <2>1, OnlyExec, <1>i DEF TypeOK, bounds
  <2>3. ~Stopping("failed")
    BY <1>0 DEF Stopping, In
  <2> QED BY <1>0, <1>3, <2>1, <2>2, <2>3, Leave
<1> QED BY <1>1, <1>2, <1>3 DEF Input

LEMMA RestoreStep == ASSUME LaneInv, Restore PROVE LaneInv'
<1>0. /\ exec.pc = "restore" /\ exec \in Exec /\ Raise
      /\ UNCHANGED <<agent, answer, taken, finished, crashes, faults>>
  BY DEF Restore, At, history, bounds, LaneInv, TypeOK
<1>i. InOrder /\ Digests /\ NotYet /\ Evidence /\ TypeOK
  BY DEF LaneInv
<1>t. exec.turn \in Nat /\ exec.before.digest \in Nat
  BY <1>i, Typed
<1>1. Kept /\ exec'.pc = "off" /\ exec'.resume = TRUE /\ exec'.cleanup = FALSE
  BY <1>0, RaiseIs
<1>2. CASE UNCHANGED <<cao, ctl>>
  <2>1. World'
    BY <1>0, <1>1, <1>2, OnlyExec, <1>i DEF TypeOK
  <2> QED BY <1>0, <1>1, <1>2, <2>1, Leave
<1>3. CASE /\ cao.there # "none" /\ ctl' = exec.before
           /\ cao' = [cao EXCEPT !.digest = exec.before.digest, !.seen = exec.before.active]
  <2>1. exec.before \in Memory
    BY <1>0 DEF Exec
  <2>2. /\ cao' \in Session /\ cao'.there = cao.there /\ cao'.digest = exec.before.digest
    <3>1. cao \in Session
      BY <1>i DEF TypeOK
    <3> QED BY <1>3, <2>1, <3>1 DEF Session, Memory
  <2>3. exec.before.digest < exec.turn
    BY <1>0, <1>i DEF Digests, In, Turn
  <2>4. exec.before.digest # exec.turn /\ exec.before.digest <= exec.turn
    BY <1>t, <2>3
  <2>5. Evidence'
    BY <1>1, <1>3, <1>i, <2>2, <2>4 DEF Evidence, Turn, Kept
  <2>6. There => agent.status # "error" /\ agent.doing = 0 /\ agent.inbox = 0
    BY <1>0, <1>i DEF NotYet, In
  <2>7. World'
    BY <1>0, <1>1, <1>3, <1>i, <2>1, <2>2, <2>5, <2>6, Books DEF TypeOK, Kept
  <2>8. \A t \in Turns : t = exec.turn => taken[t] = 0
    BY <1>0, <1>i DEF NotYet, Unsent, In, Turn
  <2>9. taken' = taken /\ UNCHANGED answer
    BY <1>0
  <2>10. \A t \in Turns : t = exec.turn /\ taken'[t] = 1 /\ cao'.there # "none" => cao'.digest = t
    BY <2>8, <2>9
  <2>11. cao'.digest <= exec.turn /\ ctl'.digest <= exec.turn
    BY <1>3, <2>2, <2>4
  <2> QED BY <1>1, <2>7, <2>9, <2>10, <2>11, Off
<1> QED BY <1>2, <1>3 DEF Restore
----------------------------------------------------------------------------
(* The end of a session, and of the coordinator.                           *)

LEMMA StopStep == ASSUME LaneInv, Stop PROVE LaneInv'
<1>0. /\ exec.pc = "stop" /\ exec \in Exec
      /\ UNCHANGED <<ctl, answer, taken, finished, crashes, faults>>
  BY DEF Stop, At, history, bounds, LaneInv, TypeOK
<1>i. InOrder /\ Digests /\ NotYet /\ Evidence /\ TypeOK /\ AgentSound
  BY DEF LaneInv
<1>t. exec.turn \in Nat
  BY <1>i, Typed
<1>1. /\ Kept /\ exec'.pc = "confirm" /\ exec'.resume = exec.resume
      /\ exec'.why = exec.why /\ exec'.cleanup = exec.cleanup
  BY <1>0, GotoIs DEF Steps, Stop
<1>2. InOrder'
  BY <1>0, <1>1, <1>i DEF InOrder, Turn, Stopping, In, Answered, Kept
<1>n. (NotYet /\ AtOutput)'
  BY <1>0, <1>1, <1>i DEF NotYet, Unsent, AtOutput, Turn, There, In, Stopping, Kept
<1>3. CASE cao' = NoSession /\ agent' = NoAgent
  <2>1. /\ cao' \in Session /\ cao'.there = "none" /\ cao'.digest = 0 /\ cao'.seen = FALSE
    BY <1>3, NoSessionIs
  <2>2. World'
    BY <1>0, <1>1, <1>3, <1>i, <2>1, Afresh DEF TypeOK, Kept, Evidence
  <2>3. Digests'
    BY <1>0, <1>1, <1>i, <1>t, <2>1 DEF Digests, Turn, There, In, Kept
  <2> QED BY <1>2, <1>n, <2>2, <2>3, Both DEF World, LaneInv, Place
<1>4. CASE cao.there # "none" /\ cao' = [cao EXCEPT !.there = "closing"] /\ UNCHANGED agent
  <2>1. /\ cao' \in Session /\ cao'.there = "closing" /\ cao'.digest = cao.digest
        /\ cao'.seen = cao.seen
    BY <1>4, <1>i DEF TypeOK, Session
  <2>2. Evidence'
    BY <1>0, <1>1, <1>4, <1>i, <2>1 DEF Evidence, There, Turn, Kept, Began, Ended
  <2>3. World'
    BY <1>0, <1>1, <1>4, <1>i, <2>1, <2>2, Books DEF TypeOK, Kept, AgentSound, There
  <2>4. Digests'
    BY <1>0, <1>1, <1>4, <1>i, <2>1 DEF Digests, Turn, There, In, Kept
  <2> QED BY <1>2, <1>n, <2>3, <2>4, Both DEF World, LaneInv, Place
<1> QED BY <1>3, <1>4 DEF Stop

LEMMA ConfirmStep == ASSUME LaneInv, Confirm PROVE LaneInv'
<1>0. /\ exec.pc = "confirm" /\ exec \in Exec
      /\ UNCHANGED <<cao, agent, taken, finished, crashes, faults>>
  BY DEF Confirm, At, history, bounds, LaneInv, TypeOK
<1>i. InOrder /\ Digests /\ NotYet /\ Evidence /\ TypeOK /\ AgentSound
  BY DEF LaneInv
<1>t. exec.turn \in Nat /\ exec.turn # 0 /\ cao.digest \in Nat
  BY <1>0, <1>i, Typed DEF InOrder, Turn
<1>1. ASSUME cao.there = "none", ctl' = NoMemory PROVE Confirm => LaneInv'
  <2>0. agent.doing = 0 /\ agent.inbox = 0
    BY <1>1, <1>i DEF AgentSound, There, NoAgent
  <2>1. /\ ctl' \in Memory /\ ctl'.digest = 0 /\ ctl'.active = FALSE /\ ctl'.idle = 0
    BY <1>1, NoMemoryIs
  <2>w. Kept /\ UNCHANGED answer => World'
    <3> SUFFICES ASSUME Kept, UNCHANGED answer PROVE World'
      OBVIOUS
    <3>1. Evidence'
      BY <1>0, <1>1, <1>i, <2>1 DEF Evidence, There, Kept
    <3> QED BY <1>0, <1>1, <1>i, <2>1, <3>1, Books DEF TypeOK, Kept, There
  <2>2. CASE exec.why = "timeout" /\ Answer("timed_out", 0)
    <3>1. 0 \in Numbers /\ "timed_out" \in Endings \ {"none"} /\ "timed_out" # "completed"
      BY Sizes DEF Numbers, Endings
    <3>2. ~Stopping("failed")
      BY <2>2 DEF Stopping
    <3>3. ~ctl'.active /\ ctl'.digest \in {0, ctl.digest} /\ exec.pc # "off"
      BY <1>0, <2>1
    <3> QED BY <1>0, <2>0, <2>1, <2>2, <3>1, <3>2, <3>3, AnswerStep
  <2>3. CASE exec.why = "model" /\ Goto("launch") /\ UNCHANGED answer
    <3>1. /\ Kept /\ exec'.pc = "launch" /\ exec'.resume = exec.resume
          /\ exec'.why = exec.why /\ exec'.cleanup = exec.cleanup
      BY <1>0, <2>3, GotoIs DEF Steps
    <3>2. Stopping("model") /\ ~Stopping("failed")
      BY <1>0, <2>3 DEF Stopping, In
    <3>3. InOrder'
      BY <1>0, <1>i, <2>3, <3>1, <3>2 DEF InOrder, Turn, Stopping, In, Answered, Kept
    <3>4. Digests'
      BY <1>0, <1>1, <1>i, <1>t, <2>1, <3>1 DEF Digests, Turn, There, In, Kept
    <3>5. (NotYet /\ AtOutput)'
      BY <1>0, <1>i, <3>1, <3>2 DEF NotYet, Unsent, AtOutput, Turn, There, In, Stopping, Kept
    <3> QED BY <2>w, <2>3, <3>1, <3>3, <3>4, <3>5, Both DEF World, LaneInv, Place
  <2>4. CASE exec.why = "failed" /\ exec' = [exec EXCEPT !.pc = "off", !.cleanup = FALSE]
             /\ UNCHANGED answer
    <3>1. Kept /\ exec'.pc = "off" /\ exec'.cleanup = FALSE
      BY <1>0, <2>4 DEF Kept, Exec, Steps
    <3>2. Answered(exec.turn)
      BY <1>0, <1>i, <2>4 DEF InOrder, Stopping, In, Turn
    <3>3. cao'.digest <= exec.turn /\ ctl'.digest <= exec.turn /\ cao'.there = "none"
      BY <1>0, <1>1, <1>i, <1>t, <2>1 DEF Digests, Turn
    <3> QED BY <1>0, <2>w, <2>4, <3>1, <3>2, <3>3, Off
  <2>5. CASE Raise /\ UNCHANGED answer
    <3>1. Kept /\ exec'.pc = "off" /\ exec'.resume = TRUE /\ exec'.cleanup = FALSE
      BY <1>0, <2>5, RaiseIs
    <3> QED BY <1>0, <1>1, <2>1, <2>w, <2>5, <3>1, Leave
  <2> QED BY <1>1, <2>2, <2>3, <2>4, <2>5 DEF Confirm
<1>2. CASE cao.there # "none" /\ UNCHANGED <<ctl, answer>> /\ Raise
  <2>1. Kept /\ exec'.pc = "off" /\ exec'.resume = TRUE /\ exec'.cleanup = FALSE
    BY <1>0, <1>2, RaiseIs
  <2>2. World'
    BY <1>0, <1>2, <2>1, OnlyExec, <1>i DEF TypeOK
  <2> QED BY <1>0, <1>2, <2>1, <2>2, Leave
<1>3. CASE /\ cao.there # "none" /\ UNCHANGED <<ctl, answer>>
           /\ exec.why \in {"timeout", "busy"} /\ StopFor("error")
  <2>1. Kept /\ exec'.pc = "stop" /\ exec'.why = "error" /\ exec'.cleanup = exec.cleanup
    BY <1>0, <1>3, StopForIs DEF Reasons
  <2>2. World'
    BY <1>0, <1>3, <2>1, OnlyExec, <1>i DEF TypeOK
  <2>3. ~Stopping("failed")
    BY <1>3 DEF Stopping
  <2> QED BY <1>0, <1>3, <2>1, <2>2, <2>3, Leave
<1> QED BY <1>1, <1>2, <1>3 DEF Confirm

LEMMA CrashStep == ASSUME LaneInv, Crash PROVE LaneInv'
<1> DEFINE resume == exec.turn # 0 /\ ~Answered(exec.turn)
<1>0. /\ ctl' = NoMemory /\ exec \in Exec
      /\ UNCHANGED <<cao, agent, answer, taken, finished, faults>>
      /\ exec' = [exec EXCEPT !.pc = "off", !.cleanup = FALSE, !.resume = resume]
  BY DEF Crash, history, LaneInv, TypeOK
<1>c. crashes' \in 0 .. MaxCrashes /\ faults' \in 0 .. MaxFaults
  BY Sizes DEF Crash, LaneInv, TypeOK
<1>i. InOrder /\ Digests /\ Evidence /\ TypeOK /\ AgentSound
  BY DEF LaneInv
<1>t. exec.turn \in Nat /\ cao.digest \in Nat /\ agent.pause \in Nat
  BY <1>i, Typed
<1>r. resume \in BOOLEAN
  OBVIOUS
<1>a. exec.turn # 0 /\ ~Answered(exec.turn) => resume
  OBVIOUS
<1> HIDE DEF resume
<1>1. Kept /\ exec'.pc = "off" /\ exec'.cleanup = FALSE /\ exec'.resume = resume
  BY <1>0, <1>r DEF Kept, Exec, Steps
<1>2. ctl' \in Memory /\ ctl'.digest = 0 /\ ctl'.active = FALSE /\ ctl'.idle = 0
  BY <1>0, NoMemoryIs
<1>3. Evidence'
  BY <1>0, <1>1, <1>2, <1>i, <1>t DEF Evidence, There, Turn, Kept, Began, Ended
<1>4. World'
  BY <1>0, <1>1, <1>2, <1>3, <1>c, <1>i, Books DEF TypeOK, Kept, AgentSound, There
<1>5. cao'.digest <= exec.turn /\ ctl'.digest <= exec.turn
  BY <1>0, <1>2, <1>i, <1>t DEF Digests, Turn
<1>6. \A t \in Turns : t = exec.turn /\ taken'[t] = 1 /\ cao'.there # "none" => cao'.digest = t
  BY <1>0, <1>i DEF Digests, Turn, There
<1> QED BY <1>0, <1>1, <1>4, <1>5, <1>6, <1>a, Off

LEMMA TransportLostStep == ASSUME LaneInv, TransportLost PROVE LaneInv'
<1>0. /\ exec.pc # "off" /\ exec \in Exec /\ Raise /\ Fault
      /\ UNCHANGED <<ctl, answer, finished>>
  BY DEF TransportLost, At, LaneInv, TypeOK
<1>i. InOrder /\ Digests /\ NotYet /\ Evidence /\ TypeOK
  BY DEF LaneInv
<1>t. /\ exec.turn \in Nat /\ exec.turn # 0 /\ exec.turn \in Numbers
      /\ ctl.digest \in Nat /\ cao.digest \in Nat
  BY <1>0, <1>i, Typed DEF InOrder, Turn
<1>c. crashes' \in 0 .. MaxCrashes /\ faults' \in 0 .. MaxFaults
  BY <1>0, <1>i, FaultIs
<1>r. Kept /\ exec'.pc = "off" /\ exec'.resume = TRUE /\ exec'.cleanup = FALSE
  BY <1>0, RaiseIs
<1>d. cao.digest <= exec.turn /\ ctl.digest <= exec.turn
  BY <1>i DEF Digests, Turn
<1>1. CASE UNCHANGED <<cao, agent, taken>>
  <2>1. World'
    BY <1>0, <1>1, <1>r, <1>c, OnlyExec
  <2> QED BY <1>0, <1>1, <1>r, <2>1, Leave
<1>2. CASE /\ At("launch") /\ cao' = Created /\ agent' = NoAgent /\ UNCHANGED taken
  <2>1. /\ cao' \in Session /\ cao'.digest = 0 /\ cao'.seen = FALSE
    BY <1>0, <1>2, CreatedIs
  <2>2. ctl.digest # exec.turn /\ \A t \in Turns : t = exec.turn => taken[t] = 0
    BY <1>2, <1>i DEF Digests, NotYet, Unsent, In, Turn, At
  <2>3. World'
    BY <1>0, <1>2, <1>r, <1>c, <1>i, <2>1, <2>2, Afresh DEF TypeOK, Kept, Evidence, Turn
  <2>4. \A t \in Turns : t = exec.turn /\ taken'[t] = 1 /\ cao'.there # "none" => cao'.digest = t
    BY <1>2, <2>2
  <2>5. cao'.digest <= exec.turn /\ ctl'.digest <= exec.turn
    BY <1>0, <1>d, <1>t, <2>1
  <2> QED BY <1>0, <1>2, <1>r, <2>3, <2>4, <2>5, Off
<1>3. CASE /\ At("clear") /\ cao.there # "none" /\ UNCHANGED <<agent, taken>>
           /\ cao' = [cao EXCEPT !.digest = exec.turn, !.seen = FALSE]
  <2>1. /\ cao' \in Session /\ cao'.there = cao.there /\ cao'.digest = exec.turn
        /\ cao'.seen = FALSE
    BY <1>3, <1>i, <1>t DEF TypeOK, Session
  <2>2. ctl.digest # exec.turn
    BY <1>3, <1>i DEF Digests, In, Turn, At
  <2>3. Evidence'
    BY <1>0, <1>i, <1>r, <2>1, <2>2 DEF Evidence, There, Turn, Kept
  <2>4. World'
    BY <1>0, <1>3, <1>r, <1>c, <1>i, <1>t, <2>1, <2>3, Books DEF TypeOK, Kept
  <2>5. \A t \in Turns : t = exec.turn /\ taken'[t] = 1 /\ cao'.there # "none" => cao'.digest = t
    BY <2>1
  <2>6. cao'.digest <= exec.turn /\ ctl'.digest <= exec.turn
    BY <1>0, <1>d, <1>t, <2>1
  <2> QED BY <1>0, <1>3, <1>r, <2>4, <2>5, <2>6, Off
<1>4. CASE At("input") /\ Delivered /\ UNCHANGED cao
  <2>1. /\ World' /\ cao.digest = exec.turn /\ ctl.digest = exec.turn
        /\ \A t \in Turns : t # exec.turn => taken'[t] = taken[t]
    BY <1>0, <1>4, <1>r, <1>c, DeliveredWorld DEF At
  <2>2. cao'.digest <= exec.turn /\ ctl'.digest <= exec.turn
    BY <1>0, <1>4, <1>d
  <2> QED BY <1>0, <1>4, <1>r, <2>1, <2>2, Off
<1>5. CASE cao' = NoSession /\ agent' = NoAgent /\ UNCHANGED taken
  <2>1. /\ cao' \in Session /\ cao'.there = "none" /\ cao'.digest = 0 /\ cao'.seen = FALSE
    BY <1>5, NoSessionIs
  <2>2. World'
    BY <1>0, <1>5, <1>r, <1>c, <1>i, <2>1, Afresh DEF TypeOK, Kept, Evidence
  <2>3. cao'.digest <= exec.turn /\ ctl'.digest <= exec.turn
    BY <1>0, <1>d, <1>t, <2>1
  <2> QED BY <1>0, <1>5, <1>r, <2>1, <2>2, <2>3, Off
<1> QED BY <1>1, <1>2, <1>3, <1>4, <1>5 DEF TransportLost
----------------------------------------------------------------------------
(* CAO and the agent.                                                      *)

LEMMA DisappearStep == ASSUME LaneInv, Disappear PROVE LaneInv'
<1>0. cao' = NoSession /\ agent' = NoAgent /\ UNCHANGED <<ctl, exec, answer, taken, finished>>
  BY DEF Disappear, history
<1>i. InOrder /\ Digests /\ NotYet /\ AtOutput /\ Evidence /\ TypeOK
  BY DEF LaneInv
<1>t. exec.turn \in Nat
  BY <1>i, Typed
<1>c. crashes' \in 0 .. MaxCrashes /\ faults' \in 0 .. MaxFaults
  BY <1>i, FaultIs DEF Disappear, bounds, TypeOK
<1>1. /\ cao' \in Session /\ cao'.there = "none" /\ cao'.digest = 0 /\ cao'.seen = FALSE
  BY <1>0, NoSessionIs
<1>2. World'
  BY <1>0, <1>1, <1>c, <1>i, Afresh DEF TypeOK, Evidence
<1>3. InOrder'
  BY <1>0, <1>i DEF InOrder, Turn, Stopping, In, Answered
<1>4. Digests'
  BY <1>0, <1>1, <1>i, <1>t DEF Digests, Turn, There, In
<1>5. NotYet' /\ AtOutput'
  BY <1>0, <1>1, <1>i DEF NotYet, Unsent, AtOutput, Turn, There, In, Stopping
<1> QED BY <1>2, <1>3, <1>4, <1>5, Both DEF World, LaneInv

LEMMA AgeStep == ASSUME LaneInv, Age PROVE LaneInv'
<1>0. /\ cao' = [cao EXCEPT !.old = TRUE]
      /\ UNCHANGED <<agent, ctl, exec, answer, taken, finished, crashes, faults>>
  BY DEF Age, history, bounds
<1>i. InOrder /\ Digests /\ NotYet /\ AtOutput /\ Evidence /\ TypeOK /\ AgentSound
  BY DEF LaneInv
<1>1. /\ cao' \in Session /\ cao'.there = cao.there /\ cao'.digest = cao.digest
      /\ cao'.seen = cao.seen
  BY <1>0, <1>i DEF TypeOK, Session
<1>2. Evidence'
  BY <1>0, <1>1, <1>i DEF Evidence, There, Turn, Began, Ended
<1>3. World'
  BY <1>0, <1>1, <1>2, <1>i, Books DEF TypeOK, AgentSound, There
<1>4. InOrder'
  BY <1>0, <1>i DEF InOrder, Turn, Stopping, In, Answered
<1>5. Digests'
  BY <1>0, <1>1, <1>i DEF Digests, Turn, There, In
<1>6. NotYet' /\ AtOutput'
  BY <1>0, <1>1, <1>i DEF NotYet, Unsent, AtOutput, Turn, There, In, Stopping, Ended
<1> QED BY <1>3, <1>4, <1>5, <1>6, Both DEF World, LaneInv
\* What every act of the agent keeps.
Quiet == agent.status # "error" /\ agent.doing = 0 /\ agent.inbox = 0

LEMMA AgentActs ==
  ASSUME LaneInv, There, agent' \in Agent, agent.status # "error",
         UNCHANGED <<cao, ctl, exec, answer, taken, crashes, faults>>,
         agent'.inbox \in {0, agent.inbox}, agent'.doing \in {0, agent.doing, agent.inbox},
         \/ finished' = finished
         \/ agent.doing # 0 /\ finished' = finished \cup {agent.doing},
         agent'.doing # 0 => agent'.inbox = 0 /\ agent'.status \in Activity \cup {"idle"},
         agent'.status \in Activity => agent'.doing # 0,
         agent'.status = "idle" /\ agent'.doing # 0 => agent'.pause < Pause,
         agent'.status = "error" => agent'.inbox = 0,
         Quiet => Quiet', Ended => Ended', Began /\ Turn # 0 => Began',
         Began /\ agent'.doing = Turn /\ Turn # 0 =>
           agent.doing = Turn /\ agent'.pause = agent.pause
  PROVE  LaneInv'
<1>i. InOrder /\ Digests /\ NotYet /\ AtOutput /\ Evidence /\ TypeOK /\ AgentSound
  BY DEF LaneInv
<1>t. /\ agent.doing \in Numbers /\ agent.inbox \in Numbers
      /\ \A n \in Numbers : n \in Nat /\ (n = 0 \/ n \in Turns)
      /\ \A t \in Turns : t # 0
  BY <1>i, Typed
<1>1. TypeOK' /\ PromptOnce' /\ AnswerIsOwn'
  BY <1>t DEF LaneInv, TypeOK, PromptOnce, AnswerIsOwn
<1>2. QuietAfterAnswer'
  BY <1>t DEF LaneInv, QuietAfterAnswer, Answered
<1>3. AgentSound'
  <2>1. \A t \in Turns : agent'.inbox = t \/ agent'.doing = t \/ t \in finished' => taken'[t] = 1
    BY <1>t, <1>i DEF AgentSound
  <2>2. There' /\ cao'.digest = 0 => Quiet'
    BY <1>i DEF AgentSound, Quiet, There
  <2> QED BY <2>1, <2>2 DEF AgentSound, There, Quiet
<1>4. Evidence'
  <2>1. UNCHANGED <<There, Turn>>
    BY DEF There, Turn
  <2> HIDE DEF There, Turn, Began
  <2> QED BY <1>i, <2>1 DEF Evidence
<1>5. InOrder'
  BY <1>i DEF InOrder, Turn, Stopping, In, Answered
<1>6. Digests'
  BY <1>i DEF Digests, Turn, There, In
<1>7. NotYet'
  BY <1>i DEF NotYet, Unsent, Turn, There, In, Stopping, Quiet
<1>8. AtOutput'
  BY <1>i DEF AtOutput, There, In
<1> QED BY <1>1, <1>2, <1>3, <1>4, <1>5, <1>6, <1>7, <1>8 DEF LaneInv

LEMMA ReadyStep == ASSUME LaneInv, Ready PROVE LaneInv'
<1>0. /\ There /\ agent.status = "starting" /\ agent' = [agent EXCEPT !.status = "idle"]
      /\ UNCHANGED <<cao, ctl, exec, answer, taken, finished, crashes, faults>>
  BY DEF Ready, AgentStep, There, bounds
<1>i. TypeOK /\ AgentSound
  BY DEF LaneInv
<1>1. /\ agent' \in Agent /\ agent'.status = "idle" /\ agent'.inbox = agent.inbox
      /\ agent'.doing = agent.doing /\ agent'.last = agent.last /\ agent'.pause = agent.pause
  BY <1>0, <1>i DEF TypeOK, Agent, Statuses
<1>2. agent.doing = 0
  BY <1>0, <1>i DEF AgentSound, Activity
<1>3. (Quiet => Quiet') /\ (Ended => Ended')
  BY <1>0, <1>1 DEF Quiet, Ended, Turn
<1>4. Began /\ Turn # 0 => Began' /\ agent'.doing # Turn
  BY <1>0, <1>1, <1>2, <1>3 DEF Began, Turn
<1> QED BY <1>0, <1>1, <1>2, <1>3, <1>4, AgentActs DEF Activity

LEMMA PickUpStep == ASSUME LaneInv, PickUp PROVE LaneInv'
<1>0. /\ There /\ agent.inbox # 0 /\ agent.doing = 0 /\ agent.status \in {"idle", "completed"}
      /\ agent' = [agent EXCEPT !.status = "processing", !.doing = agent.inbox, !.inbox = 0]
      /\ UNCHANGED <<cao, ctl, exec, answer, taken, finished, crashes, faults>>
  BY DEF PickUp, AgentStep, There, bounds
<1>i. TypeOK /\ AgentSound
  BY DEF LaneInv
<1>1. /\ agent' \in Agent /\ agent'.status = "processing" /\ agent'.inbox = 0
      /\ agent'.doing = agent.inbox
  <2>1. 0 \in Numbers /\ "processing" \in Statuses
    BY Sizes DEF Numbers, Statuses, Activity
  <2> QED BY <1>0, <1>i, <2>1 DEF TypeOK, Agent
<1>2. ~Quiet /\ ~Ended /\ (Turn # 0 => ~Began)
  BY <1>0 DEF Quiet, Ended, Began, Turn
<1> QED BY <1>0, <1>1, <1>2, AgentActs DEF Activity

LEMMA FinishStep == ASSUME LaneInv, Finish PROVE LaneInv'
<1>0. /\ There /\ agent.doing # 0 /\ agent.status = "processing"
      /\ finished' = finished \cup {agent.doing}
      /\ UNCHANGED <<cao, ctl, exec, answer, taken, crashes, faults>>
  BY DEF Finish, AgentStep, There, bounds
<1>p. PICK status \in {"completed", "idle"} :
        agent' = [agent EXCEPT !.status = status, !.doing = 0, !.last = agent.doing]
  BY DEF Finish, AgentStep
<1>i. TypeOK /\ AgentSound
  BY DEF LaneInv
<1>1. /\ agent' \in Agent /\ agent'.status = status /\ agent'.inbox = agent.inbox
      /\ agent'.doing = 0 /\ agent'.last = agent.doing
  <2>1. 0 \in Numbers /\ status \in Statuses
    BY Sizes DEF Numbers, Statuses, Activity
  <2> QED BY <1>p, <1>i, <2>1 DEF TypeOK, Agent
<1>2. ~Quiet /\ ~Ended /\ agent.inbox = 0
  BY <1>0, <1>i DEF Quiet, Ended, AgentSound
<1>3. Began => agent.doing = Turn
  BY <1>0, <1>2 DEF Began
<1>4. agent.doing = Turn => Began'
  BY <1>0, <1>1, <1>2 DEF Began, Ended, Turn
<1>5. agent'.status \notin Activity /\ agent'.status # "error"
  BY <1>1 DEF Activity
<1> QED BY <1>0, <1>1, <1>2, <1>3, <1>4, <1>5, AgentActs

LEMMA BlinkStep == ASSUME LaneInv, Blink PROVE LaneInv'
<1>0. /\ There /\ agent.doing # 0 /\ agent.status \in {"processing", "idle", "waiting"}
      /\ UNCHANGED <<cao, ctl, exec, answer, taken, finished, crashes, faults>>
  BY DEF Blink, AgentStep, There, bounds
<1>p. PICK status \in {"idle", "waiting", "processing"} :
        /\ status = "idle" => agent.pause < Pause
        /\ agent' = [agent EXCEPT !.status = status]
  BY DEF Blink, AgentStep
<1>i. TypeOK /\ AgentSound
  BY DEF LaneInv
<1>1. /\ agent' \in Agent /\ agent'.status = status /\ agent'.inbox = agent.inbox
      /\ agent'.doing = agent.doing /\ agent'.last = agent.last /\ agent'.pause = agent.pause
  <2>1. status \in Statuses
    BY DEF Statuses, Activity
  <2> QED BY <1>p, <1>i, <2>1 DEF TypeOK, Agent
<1>2. ~Quiet /\ ~Ended /\ agent.inbox = 0
  BY <1>0, <1>i DEF Quiet, Ended, AgentSound
<1>3. Began => agent.doing = Turn
  BY <1>0, <1>2 DEF Began
<1>4. agent.doing = Turn => Began'
  BY <1>0, <1>1 DEF Began, Turn
<1> QED BY <1>0, <1>p, <1>1, <1>2, <1>3, <1>4, AgentActs DEF Activity

LEMMA FailStep == ASSUME LaneInv, Fail PROVE LaneInv'
<1>0. /\ There /\ agent.doing # 0 /\ agent' = [agent EXCEPT !.status = "error", !.doing = 0]
      /\ UNCHANGED <<cao, ctl, exec, answer, taken, finished, crashes, faults>>
  BY DEF Fail, AgentStep, There, bounds
<1>i. TypeOK /\ AgentSound
  BY DEF LaneInv
<1>1. agent' \in Agent /\ agent'.status = "error" /\ agent'.inbox = agent.inbox /\ agent'.doing = 0
  <2>1. 0 \in Numbers /\ "error" \in Statuses
    BY Sizes DEF Numbers, Statuses
  <2> QED BY <1>0, <1>i, <2>1 DEF TypeOK, Agent
<1>2. ~Quiet /\ ~Ended /\ agent.inbox = 0 /\ agent.status # "error"
  BY <1>0, <1>i DEF Quiet, Ended, AgentSound, Activity
<1>3. Began'
  BY <1>1, <1>2 DEF Began
<1> QED BY <1>0, <1>1, <1>2, <1>3, AgentActs DEF Activity
----------------------------------------------------------------------------
(* The theorems.                                                           *)

LEMMA InitLane == ASSUME Init PROVE LaneInv
<1>0. /\ cao = NoSession /\ agent = NoAgent /\ ctl = NoMemory
      /\ exec.pc = "off" /\ exec.turn = 0 /\ exec.cleanup = FALSE /\ exec.before = NoMemory
      /\ answer = [t \in Turns |-> [kind |-> "none", of |-> 0]]
      /\ taken = [t \in Turns |-> 0] /\ finished = {} /\ crashes = 0 /\ faults = 0
  BY DEF Init
<1>t. /\ 0 \in Numbers /\ 0 \in 0 .. Pause /\ 0 \in 0 .. MaxTurns /\ 0 \in 0 .. MaxCrashes
      /\ 0 \in 0 .. MaxFaults /\ "starting" \in Statuses /\ "none" \in Endings
      /\ \A t \in Turns : t \in Nat /\ t # 0 /\ ~(t < 0)
  BY Sizes DEF Numbers, Statuses, Endings, Turns
<1>1. /\ NoMemory \in Memory /\ NoMemory.digest = 0 /\ NoMemory.active = FALSE /\ NoMemory.idle = 0
  BY NoMemoryIs
<1>2. /\ cao \in Session /\ cao.there = "none" /\ cao.digest = 0
  BY <1>0, NoSessionIs
<1>3. /\ agent \in Agent /\ agent.doing = 0 /\ agent.inbox = 0 /\ agent.status = "starting"
  BY <1>0, <1>t DEF NoAgent, Agent
<1>4. exec \in Exec
  <2>1. "off" \in Steps /\ "error" \in Reasons
    BY DEF Steps, Reasons
  <2> QED BY <1>1, <1>t, <2>1 DEF Init, Exec
<1>5. TypeOK
  BY <1>0, <1>t, <1>1, <1>2, <1>3, <1>4 DEF TypeOK
<1>6. \A t \in Turns : ~Answered(t) /\ taken[t] = 0
  BY <1>0 DEF Answered
<1>7. InOrder
  BY <1>0, <1>t, <1>6 DEF InOrder, Turn, Stopping, In
<1>8. AgentSound
  BY <1>0, <1>2, <1>3, <1>t DEF AgentSound, There, Activity
<1>9. Digests
  BY <1>0, <1>1, <1>2, <1>6 DEF Digests, Turn, There, In
<1>10. NotYet /\ AtOutput
  BY <1>0 DEF NotYet, Unsent, AtOutput, In, Stopping
<1>11. Evidence
  BY <1>0, <1>1, <1>2 DEF Evidence, There, Turn
<1>12. PromptOnce /\ AnswerIsOwn /\ QuietAfterAnswer
  <2>1. \A t \in Turns : answer[t].kind = "none"
    BY <1>0
  <2> QED BY <1>6, <2>1 DEF PromptOnce, AnswerIsOwn, QuietAfterAnswer, Answered
<1> QED BY <1>5, <1>7, <1>8, <1>9, <1>10, <1>11, <1>12 DEF LaneInv

LEMMA Stutter == ASSUME LaneInv, UNCHANGED vars PROVE LaneInv'
<1>0. UNCHANGED <<cao, agent, ctl, exec, answer, taken, finished, crashes, faults>>
  BY DEF vars
<1>1. TypeOK' /\ PromptOnce' /\ AnswerIsOwn' /\ QuietAfterAnswer'
  BY <1>0 DEF LaneInv, TypeOK, PromptOnce, AnswerIsOwn, QuietAfterAnswer, Answered
<1>2. InOrder' /\ AgentSound' /\ Digests'
  BY <1>0 DEF LaneInv, InOrder, AgentSound, Digests, Turn, There, In, Stopping, Answered
<1>3. NotYet' /\ Evidence' /\ AtOutput'
  BY <1>0 DEF LaneInv, NotYet, Unsent, Evidence, AtOutput, Began, Ended, Turn, There, In, Stopping
<1> QED BY <1>1, <1>2, <1>3 DEF LaneInv

LEMMA NextLane == ASSUME LaneInv, [Next]_vars PROVE LaneInv'
<1>1. CASE Dispatch \/ Recover \/ StopFailed
  BY <1>1, DispatchStep, RecoverStep, StopFailedStep
<1>2. CASE Lookup \/ Launch \/ Replace \/ Adopt \/ Precheck
  BY <1>2, LookupStep, LaunchStep, ReplaceStep, AdoptStep, PrecheckStep
<1>3. CASE Clear \/ Input \/ Restore \/ Poll \/ Output
  BY <1>3, ClearStep, InputStep, RestoreStep, PollStep, OutputStep
<1>4. CASE Stop \/ Confirm \/ Disappear \/ Age
  BY <1>4, StopStep, ConfirmStep, DisappearStep, AgeStep
<1>5. CASE TransportLost \/ Unavailable \/ Crash
  BY <1>5, TransportLostStep, UnavailableStep, CrashStep
<1>6. CASE Ready \/ PickUp \/ Finish \/ Blink \/ Fail
  BY <1>6, ReadyStep, PickUpStep, FinishStep, BlinkStep, FailStep
<1>7. CASE UNCHANGED vars
  BY <1>7, Stutter
<1> QED BY <1>1, <1>2, <1>3, <1>4, <1>5, <1>6, <1>7 DEF Next, Executor, Faults, Outside

\* However requests fail, the coordinator dies and sessions are lost, the
\* digest and the evidence in the metadata of the session agree with what the
\* agent did (cao.py:705-734, 1014-1025, 1113-1135).
THEOREM LaneInvariant == Spec => []LaneInv
<1>1. Init => LaneInv
  BY InitLane
<1>2. LaneInv /\ [Next]_vars => LaneInv'
  BY NextLane
<1> QED BY <1>1, <1>2, PTL DEF Spec

\* Every field of the session, the agent and execute keeps its type, the
\* count of idle readings its limit.
THEOREM LaneTyped == Spec => []TypeOK
<1>1. LaneInv => TypeOK
  BY DEF LaneInv
<1> QED BY <1>1, LaneInvariant, PTL

\* A prompt reaches an agent at most once, over any number of recoveries
\* (V3_CAO.md section 3, cao_lane.py:136).
THEOREM PromptedOnce == Spec => []PromptOnce
<1>1. LaneInv => PromptOnce
  BY DEF LaneInv
<1> QED BY <1>1, LaneInvariant, PTL

\* The idle-settle rule and the evidence it asks for are enough: a completed
\* turn was ended by the agent, and its output is its own (cao.py:1113-1135).
THEOREM AnswersAreOwn == Spec => []AnswerIsOwn
<1>1. LaneInv => AnswerIsOwn
  BY DEF LaneInv
<1> QED BY <1>1, LaneInvariant, PTL

\* No agent works on a turn that was reported (cao.py:705-734, 1014-1025).
THEOREM NothingWorksOn == Spec => []QuietAfterAnswer
<1>1. LaneInv => QuietAfterAnswer
  BY DEF LaneInv
<1> QED BY <1>1, LaneInvariant, PTL
=============================================================================
