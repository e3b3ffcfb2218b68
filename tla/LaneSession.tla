---------------------------- MODULE LaneSession ----------------------------
(***************************************************************************)
(* The turns of one lane of one run: CaoLaneExecutor.execute (cao_lane.py) *)
(* on top of CaoSessionController (cao.py), against the CAO server and the *)
(* agent in its terminal.  One step is one HTTP request, or one act of the *)
(* agent.  The controller's memory is lost in a crash; the metadata of the *)
(* session in CAO is not.                                                  *)
(*                                                                         *)
(* A prompt with its context is the number of its turn (the foreman never  *)
(* composes the same one twice), and so is its digest; 0 is none.          *)
(***************************************************************************)
EXTENDS Naturals

CONSTANTS
  MaxTurns,      \* bound: turns the foreman dispatches
  Models,        \* model assignments the broker may lease
  Settle,        \* idle_settle_polls
  Pause,         \* idle readings in a row that a working agent may cause
  MaxCrashes,    \* bound: coordinator deaths
  MaxFaults      \* bound: requests that fail, and sessions that CAO loses

\* Pause < Settle is what the idle-settle rule relies on.
ASSUME LaneAssumption ==
  /\ {MaxTurns, Settle, Pause, MaxCrashes, MaxFaults} \subseteq Nat
  /\ Pause < Settle

Turns == 1..MaxTurns
Numbers == 0..MaxTurns
Activity == {"processing", "waiting"}
Statuses == Activity \cup {"starting", "idle", "completed", "error"}
Steps == {"off", "lookup", "replace", "launch", "adopt", "precheck", "clear", "input",
          "restore", "poll", "output", "stop", "confirm"}

\* What a stop is for: a session past its budget (found while polling, before
\* input or on adoption), an error of execute, a failed turn, a new model.
Reasons == {"timeout", "busy", "stale", "error", "failed", "model"}
Endings == {"none", "completed", "failed", "timed_out", "disappeared"}

VARIABLES
  cao,       \* the session in CAO: presence and durable metadata
  agent,     \* the process in its terminal
  ctl,       \* the controller's memory of the session
  exec,      \* the call of execute in progress, and the turn it is for
  answer,    \* each turn's result, and the turn whose output it holds
  taken,     \* history: how often each turn's prompt reached the agent
  finished,  \* history: turns the agent brought to an end
  crashes, faults

vars == <<cao, agent, ctl, exec, answer, taken, finished, crashes, faults>>
history == <<taken, finished>>
bounds == <<crashes, faults>>

\* "closing": DELETE was accepted, the session has not disappeared.
Session == [there : {"none", "up", "closing"}, digest : Numbers, seen : BOOLEAN,
            old : BOOLEAN, model : Models \cup {0}]
NoSession == [there |-> "none", digest |-> 0, seen |-> FALSE, old |-> FALSE, model |-> 0]
Agent == [status : Statuses, inbox : Numbers, doing : Numbers, last : Numbers,
          pause : 0..Pause]
NoAgent == [status |-> "starting", inbox |-> 0, doing |-> 0, last |-> 0, pause |-> 0]

\* active is _active_seen, which agrees with activity_seen of the metadata it
\* holds; idle is _idle_readings, counted up to Settle.
Memory == [known : BOOLEAN, digest : Numbers, active : BOOLEAN, idle : 0..Settle]
NoMemory == [known |-> FALSE, digest |-> 0, active |-> FALSE, idle |-> 0]
Exec == [pc : Steps, turn : Numbers, resume : BOOLEAN, model : Models,
         why : Reasons, before : Memory, cleanup : BOOLEAN]

TypeOK ==
  /\ cao \in Session /\ agent \in Agent /\ ctl \in Memory /\ exec \in Exec
  /\ answer \in [Turns -> [kind : Endings, of : Numbers]]
  /\ taken \in [Turns -> 0..MaxTurns] /\ finished \subseteq Turns
  /\ crashes \in 0..MaxCrashes /\ faults \in 0..MaxFaults

Init ==
  /\ cao = NoSession /\ agent = NoAgent /\ ctl = NoMemory
  /\ exec \in [pc : {"off"}, turn : {0}, resume : {FALSE}, model : Models,
               why : {"error"}, before : {NoMemory}, cleanup : {FALSE}]
  /\ answer = [t \in Turns |-> [kind |-> "none", of |-> 0]]
  /\ taken = [t \in Turns |-> 0] /\ finished = {}
  /\ crashes = 0 /\ faults = 0
----------------------------------------------------------------------------
At(step) == exec.pc = step
Goto(step) == exec' = [exec EXCEPT !.pc = step]
StopFor(reason) == exec' = [exec EXCEPT !.pc = "stop", !.why = reason]

\* execute raises: the turn has no result, the next pass recovers it.
Raise == exec' = [exec EXCEPT !.pc = "off", !.resume = TRUE, !.cleanup = FALSE]

Answered(t) == answer[t].kind # "none"

\* The lane result.  The foreman stops the session of a turn that failed.
Answer(kind, of) ==
  /\ answer' = [answer EXCEPT ![exec.turn] = [kind |-> kind, of |-> of]]
  /\ exec' = [exec EXCEPT !.pc = "off", !.resume = FALSE, !.cleanup = kind # "completed"]

Fault == faults < MaxFaults /\ faults' = faults + 1 /\ crashes' = crashes

Registered ==
  [known |-> TRUE, digest |-> cao.digest, active |-> cao.seen,
   idle |-> IF cao.seen THEN ctl.idle ELSE 0]

\* Mutant of Attached: a recovered turn is submitted again.
AttachedAnew(memory) == IF memory.digest = 0 THEN "clear" ELSE "precheck"

\* execute, once it has a handle: collect a matching turn, or submit.
Attached(memory) ==
  IF memory.digest = exec.turn THEN "poll"
  ELSE IF memory.digest = 0 THEN "clear" ELSE "precheck"

\* _lifecycle: what a status means, with the evidence the controller has.
Lifecycle ==
  CASE agent.status = "idle"      -> IF ctl.active /\ ctl.idle + 1 >= Settle
                                     THEN "completed" ELSE "running"
    [] agent.status = "completed" -> IF ctl.digest # 0 /\ ~ctl.active
                                     THEN "running" ELSE "completed"
    [] agent.status = "error"     -> "failed"
    [] OTHER                      -> "running"

\* Mutant of Expired: only a turn that showed activity can time out.
ExpiredIfActive == Lifecycle = "running" /\ cao.old /\ ctl.active
Expired == Lifecycle = "running" /\ cao.old

\* An idle reading counts once activity was seen; any other one starts over.
Readings ==
  IF agent.status # "idle" THEN 0
  ELSE IF ctl.active /\ ctl.idle < Settle THEN ctl.idle + 1 ELSE ctl.idle
----------------------------------------------------------------------------
(* The foreman, for this lane.                                             *)

Dispatch ==
  /\ At("off") /\ ~exec.cleanup /\ exec.turn < MaxTurns
  /\ exec.turn # 0 => Answered(exec.turn)
  /\ \E m \in Models :
       /\ exec.turn # 0 /\ answer[exec.turn].kind = "completed" => m = exec.model
       /\ exec' = [exec EXCEPT !.pc = "lookup", !.turn = exec.turn + 1,
                                !.resume = FALSE, !.model = m]
  /\ UNCHANGED <<cao, agent, ctl, answer, history, bounds>>

\* A later pass, or a restarted coordinator, takes the turn up again.
Recover ==
  /\ At("off") /\ exec.turn # 0 /\ ~Answered(exec.turn)
  /\ Goto("lookup")
  /\ UNCHANGED <<cao, agent, ctl, answer, history, bounds>>

\* _failed_coder and the reviewers' clean-up: terminate_session.
StopFailed ==
  /\ At("off") /\ exec.cleanup
  /\ StopFor("failed")
  /\ UNCHANGED <<cao, agent, ctl, answer, history, bounds>>
----------------------------------------------------------------------------
(* The requests of execute.                                                *)

\* _lookup_session, then start_session or recover_session.  A session with
\* another model is only replaced when it has come to an end.
Lookup ==
  /\ At("lookup")
  /\ \/ /\ cao.there = "none"
        /\ IF exec.resume THEN Raise ELSE Goto("launch")
        /\ UNCHANGED ctl
     \/ /\ cao.there # "none" /\ ctl' = Registered
        /\ Goto(IF exec.resume THEN "adopt"
                ELSE IF cao.model # exec.model THEN "replace" ELSE Attached(Registered))
  /\ UNCHANGED <<cao, agent, answer, history, bounds>>

Created == [NoSession EXCEPT !.there = "up", !.model = exec.model]

Launch ==
  /\ At("launch") /\ cao.there = "none"
  /\ cao' = Created
  /\ agent' = NoAgent
  /\ ctl' = [NoMemory EXCEPT !.known = TRUE]
  /\ Goto("clear")
  /\ UNCHANGED <<answer, history, bounds>>

\* An agent inside a turn is not read as idle more than Pause times in a row.
Pausing == agent.doing # 0 /\ agent.status = "idle"

\* The effect of reading the status on both sides: evidence of activity goes
\* to the metadata, unless that PATCH fails, which is not reported.
Observed ==
  /\ ctl' = [ctl EXCEPT !.active = @ \/ agent.status \in Activity, !.idle = Readings]
  /\ \/ /\ cao' = [cao EXCEPT !.seen = @ \/ agent.status \in Activity]
        /\ UNCHANGED bounds
     \/ /\ agent.status \in Activity /\ ~cao.seen
        /\ Fault /\ UNCHANGED cao
  /\ agent' = IF Pausing
              THEN [agent EXCEPT !.pause = @ + 1,
                                 !.status = IF agent.pause + 1 < Pause THEN @ ELSE "processing"]
              ELSE [agent EXCEPT !.pause = 0]


\* _adoptable_session, of a session with another model assignment.
Replace ==
  /\ At("replace")
  /\ \/ /\ cao.there # "none" /\ Observed
        /\ IF Lifecycle = "failed" \/ Expired THEN StopFor("model") ELSE Raise
     \/ /\ cao.there = "none" /\ StopFor("model")
        /\ UNCHANGED <<cao, agent, ctl, bounds>>
  /\ UNCHANGED <<answer, history>>

\* adopt_session validates the model and observes once; a session past its
\* budget is stopped, and execute then finds nothing registered.
Adopt ==
  /\ At("adopt")
  /\ \/ /\ cao.model # exec.model /\ Raise
        /\ UNCHANGED <<cao, agent, ctl, bounds>>
     \/ /\ cao.model = exec.model /\ cao.there # "none" /\ Observed
        /\ IF Expired THEN StopFor("stale") ELSE Goto(Attached(ctl))
     \/ /\ cao.there = "none" /\ Goto(Attached(ctl))
        /\ UNCHANGED <<cao, agent, ctl, bounds>>
  /\ UNCHANGED <<answer, history>>

\* submit_work on a session that had a turn: only after it completed.
Precheck ==
  /\ At("precheck")
  /\ \/ /\ cao.there # "none" /\ Observed
        /\ IF Lifecycle = "completed" THEN Goto("clear")
           ELSE IF Expired THEN StopFor("busy") ELSE Raise
     \/ /\ cao.there = "none" /\ Raise
        /\ UNCHANGED <<cao, agent, ctl, bounds>>
  /\ UNCHANGED <<answer, history>>

\* Mutant of Prepared: the evidence of the previous turn is kept.
PreparedWithEvidence(memory) == [memory EXCEPT !.digest = exec.turn]
Prepared(memory) == [memory EXCEPT !.digest = exec.turn, !.active = FALSE, !.idle = 0]

\* _clear_activity: digest and missing evidence, before the input.
Clear ==
  /\ At("clear")
  /\ \/ /\ cao.there # "none"
        /\ ctl' = Prepared(ctl)
        /\ cao' = [cao EXCEPT !.digest = exec.turn, !.seen = Prepared(ctl).active]
        /\ exec' = [exec EXCEPT !.pc = "input", !.before = ctl]
     \/ /\ cao.there = "none" /\ StopFor("error")
        /\ UNCHANGED <<cao, ctl>>
  /\ UNCHANGED <<agent, answer, history, bounds>>

Delivered ==
  /\ cao.there # "none"
  /\ agent' = [agent EXCEPT !.inbox = exec.turn]
  /\ taken' = [taken EXCEPT ![exec.turn] = @ + 1]

\* POST input.  A terminal that takes no input now answers 409.
Input ==
  /\ At("input")
  /\ \/ Delivered /\ Goto("poll") /\ UNCHANGED bounds
     \/ /\ cao.there # "none" /\ Fault /\ Goto("restore")
        /\ UNCHANGED <<agent, taken>>
     \/ /\ cao.there = "none" /\ StopFor("error")
        /\ UNCHANGED <<agent, taken, bounds>>
  /\ UNCHANGED <<cao, ctl, answer, finished>>

\* _restore_activity after the 409, then SessionBusyError.
Restore ==
  /\ At("restore")
  /\ \/ /\ cao.there # "none"
        /\ cao' = [cao EXCEPT !.digest = exec.before.digest, !.seen = exec.before.active]
        /\ ctl' = exec.before
     \/ cao.there = "none" /\ UNCHANGED <<cao, ctl>>
  /\ Raise
  /\ UNCHANGED <<agent, answer, history, bounds>>

Poll ==
  /\ At("poll")
  /\ \/ /\ cao.there # "none" /\ Observed
        /\ IF Lifecycle # "running"
           THEN exec' = [exec EXCEPT !.pc = "output", !.why = IF Lifecycle = "failed"
                                                             THEN "failed" ELSE "error"]
           ELSE IF Expired THEN StopFor("timeout") ELSE UNCHANGED exec
        /\ UNCHANGED answer
     \/ /\ cao.there = "none"
        /\ ctl' = [ctl EXCEPT !.active = FALSE, !.idle = 0]
        /\ Answer("disappeared", 0)
        /\ UNCHANGED <<cao, agent, bounds>>
  /\ UNCHANGED history

\* final_output.  A response that does not parse, or a session that is gone,
\* is an error of execute, which stops the session.
Output ==
  /\ At("output")
  /\ \/ /\ cao.there # "none"
        /\ Answer(IF exec.why = "failed" THEN "failed" ELSE "completed", agent.last)
     \/ /\ exec.why # "failed" \/ cao.there = "none"
        /\ StopFor("error") /\ UNCHANGED answer
  /\ UNCHANGED <<cao, agent, ctl, history, bounds>>

\* DELETE; CAO takes the session down at once or later.
Stop ==
  /\ At("stop") /\ Goto("confirm")
  /\ \/ cao' = NoSession /\ agent' = NoAgent
     \/ /\ cao.there # "none" /\ cao' = [cao EXCEPT !.there = "closing"]
        /\ UNCHANGED agent
  /\ UNCHANGED <<ctl, answer, history, bounds>>

\* Mutant of Confirm: an accepted DELETE is taken for the end of the session.
ConfirmTrusting ==
  /\ At("confirm") /\ ctl' = NoMemory
  /\ CASE exec.why = "timeout" -> Answer("timed_out", 0)
       [] exec.why = "model"   -> Goto("launch") /\ UNCHANGED answer
       [] exec.why = "failed"  -> /\ exec' = [exec EXCEPT !.pc = "off", !.cleanup = FALSE]
                                  /\ UNCHANGED answer
       [] OTHER                -> Raise /\ UNCHANGED answer
  /\ UNCHANGED <<cao, agent, history, bounds>>

\* require_session_absent.  While the session is still there an error is
\* raised, and execute tries once more to stop it.
Confirm ==
  /\ At("confirm")
  /\ \/ /\ cao.there = "none" /\ ctl' = NoMemory
        /\ CASE exec.why = "timeout" -> Answer("timed_out", 0)
             [] exec.why = "model"   -> Goto("launch") /\ UNCHANGED answer
             [] exec.why = "failed"  -> /\ exec' = [exec EXCEPT !.pc = "off", !.cleanup = FALSE]
                                        /\ UNCHANGED answer
             [] OTHER                -> Raise /\ UNCHANGED answer
     \/ /\ cao.there # "none" /\ UNCHANGED <<ctl, answer>>
        /\ IF exec.why \in {"timeout", "busy"} THEN StopFor("error") ELSE Raise
  /\ UNCHANGED <<cao, agent, history, bounds>>
----------------------------------------------------------------------------
(* Failed requests.                                                        *)

\* CaoTransportError: the request may have had its effect; execute raises and
\* leaves the session alone.
TransportLost ==
  /\ ~At("off") /\ Fault /\ Raise
  /\ \/ UNCHANGED <<cao, agent, taken>>
     \/ /\ At("launch") /\ cao.there = "none"
        /\ cao' = Created /\ agent' = NoAgent /\ UNCHANGED taken
     \/ /\ At("clear") /\ cao.there # "none"
        /\ cao' = [cao EXCEPT !.digest = exec.turn, !.seen = FALSE]
        /\ UNCHANGED <<agent, taken>>
     \/ At("input") /\ Delivered /\ UNCHANGED cao
     \/ At("stop") /\ cao' = NoSession /\ agent' = NoAgent /\ UNCHANGED taken
  /\ UNCHANGED <<ctl, answer, finished>>

\* CaoUnavailableError: the request did not arrive.  Once there is a handle
\* execute stops the session before it raises.
Unavailable ==
  /\ \/ exec.pc \in {"precheck", "clear", "input", "poll", "output"}
     \/ exec.pc \in {"stop", "confirm"} /\ exec.why \in {"timeout", "busy"}
  /\ Fault /\ StopFor("error")
  /\ UNCHANGED <<cao, agent, ctl, answer, history>>

Crash ==
  /\ crashes < MaxCrashes /\ crashes' = crashes + 1
  /\ ~At("off") \/ exec.cleanup \/ ctl.known
  /\ ctl' = NoMemory
  /\ exec' = [exec EXCEPT !.pc = "off", !.cleanup = FALSE,
                          !.resume = exec.turn # 0 /\ ~Answered(exec.turn)]
  /\ UNCHANGED <<cao, agent, answer, history, faults>>
----------------------------------------------------------------------------
(* CAO and the agent.                                                      *)

AgentStep(new) == cao.there # "none" /\ agent' = new
                  /\ UNCHANGED <<cao, ctl, exec, answer, taken, bounds>>

Ready == agent.status = "starting" /\ AgentStep([agent EXCEPT !.status = "idle"])
         /\ UNCHANGED finished

PickUp ==
  /\ agent.inbox # 0 /\ agent.doing = 0 /\ agent.status \in {"idle", "completed"}
  /\ AgentStep([agent EXCEPT !.status = "processing", !.doing = agent.inbox, !.inbox = 0])
  /\ UNCHANGED finished

Finish ==
  /\ agent.doing # 0 /\ agent.status = "processing"
  /\ \E status \in {"completed", "idle"} :
       AgentStep([agent EXCEPT !.status = status, !.doing = 0, !.last = agent.doing])
  /\ finished' = finished \cup {agent.doing}

\* Between two commands the agent may look idle, or it asks something.
Blink ==
  /\ agent.doing # 0
  /\ \/ /\ agent.status = "processing"
        /\ \E status \in {"idle", "waiting"} :
             /\ status = "idle" => agent.pause < Pause
             /\ AgentStep([agent EXCEPT !.status = status])
     \/ agent.status \in {"idle", "waiting"} /\ AgentStep([agent EXCEPT !.status = "processing"])
  /\ UNCHANGED finished

Fail ==
  /\ agent.doing # 0
  /\ AgentStep([agent EXCEPT !.status = "error", !.doing = 0])
  /\ UNCHANGED finished

Age ==
  /\ cao.there # "none" /\ ~cao.old /\ cao' = [cao EXCEPT !.old = TRUE]
  /\ UNCHANGED <<agent, ctl, exec, answer, history, bounds>>

\* A session that was told to close does so; another one may be lost.
Disappear ==
  /\ \/ cao.there = "closing" /\ UNCHANGED bounds
     \/ cao.there = "up" /\ Fault
  /\ cao' = NoSession /\ agent' = NoAgent
  /\ UNCHANGED <<ctl, exec, answer, history>>

Executor ==
  \/ Dispatch \/ Recover \/ StopFailed \/ Lookup \/ Launch \/ Replace \/ Adopt \/ Precheck
  \/ Clear \/ Input \/ Restore \/ Poll \/ Output \/ Stop \/ Confirm
Faults == TransportLost \/ Unavailable \/ Crash
Outside == Ready \/ PickUp \/ Finish \/ Blink \/ Fail \/ Disappear

Next == Executor \/ Faults \/ Outside \/ Age

Spec == Init /\ [][Next]_vars

\* The executor polls for ever, time passes, and a closing session closes.
FairSpec == Spec /\ WF_vars(Executor) /\ WF_vars(Age)
                 /\ WF_vars(cao.there = "closing" /\ Disappear)
----------------------------------------------------------------------------
(* Properties.                                                             *)

\* V3_CAO.md section 3 and cao_lane.py:136: a turn is submitted once or its
\* result collected; whatever is lost or restarted, its prompt reaches an
\* agent at most once.
PromptOnce == \A t \in Turns : taken[t] <= 1

\* cao.py:1113-1135: a completed turn was really brought to its end by the
\* agent, and its output is the one of that turn, not what an earlier turn
\* left behind.
AnswerIsOwn ==
  \A t \in Turns : answer[t].kind = "completed" => t \in finished /\ answer[t].of = t

\* cao.py:705-734, 1014-1025: no agent works any more on a turn that was
\* reported, however it ended; so a retry never meets its predecessor.
QuietAfterAnswer ==
  \A t \in Turns : Answered(t) => agent.doing # t /\ agent.inbox # t

\* V3_FOREMAN.md, Recovery: a missing expected session, a session in error or
\* one with another model is left to the operator.
NeedsOperator ==
  /\ exec.resume
  /\ \/ cao.there = "none" \/ cao.model # exec.model
     \/ cao.digest # exec.turn /\ agent.status = "error"

\* cao_lane.py:168-202: a turn is answered, by time-out at the latest, or it is
\* one the operator must look at.
TurnEnds == \A t \in Turns : exec.turn = t ~> Answered(t) \/ NeedsOperator
=============================================================================
