----------------------------- MODULE ReviewWave -----------------------------
(***************************************************************************)
(* The threads that share one state comment while a review wave runs       *)
(* (v3/foreman.py): the coordinator's main thread records each reviewer's  *)
(* outcome as it comes and then the round and the report; its heartbeat    *)
(* thread renews the lease from the state it saved last.  Every request is *)
(* one step: a save compares versions in one and writes in the next        *)
(* (v3/queue.py).  A rival host reclaims the item once its lease is over;  *)
(* its save is one step here, WorkQueue has two hosts' saves.              *)
(*                                                                         *)
(* A state is its claim and the wave's receipts, all of them in the extras *)
(* that a save writes as a whole.  Versions matter only by equality with   *)
(* the stored one, so that "held" says which threads hold it: every write  *)
(* brings a version that only its writer holds.  Checkouts and sessions of *)
(* the seats are the subject of Checkouts and LaneSession.                 *)
(***************************************************************************)
EXTENDS Naturals

CONSTANTS
  Lanes,        \* the reviewers of the wave
  Lease,        \* lease length in clock units
  MaxClock,     \* bound on time
  MaxBeats,     \* bound: heartbeats the keeper starts
  MaxFaults     \* bound: failed requests and deaths of this host's coordinator

\* A policy without reviewers never gets as far as a wave (foreman.py:1237-1238).
ASSUME WaveAssumption == {Lease, MaxClock, MaxBeats, MaxFaults} \subseteq Nat /\ Lanes # {}

Threads == {"main", "keeper"}
Steps == {"wait", "load", "fresh", "check", "write", "verify", "drain", "leave", "join",
          "reload", "round", "stop_lanes", "off", "dead", "end"}
Stages == {"receipt", "round", "report"}
Outcomes == {"running", "stored", "ok", "error"}
Failures == {"none", "revoked", "expired", "conflict", "lost", "fault"}
State == [owner : {"us", "rival"}, expires : 0..(MaxClock + Lease),
          receipts : [Lanes -> {"none", "result", "error"}], report : BOOLEAN]

VARIABLES
  state,      \* the state block of the issue
  held,       \* threads that hold the version of state (updated_at)
  pc,         \* each thread's step
  call,       \* what each thread's save writes
  base,       \* main: the state whose extras it will write
  stage,      \* main: what it saves
  lane,       \* main: whose receipt it saves
  seat,       \* main: the outcomes it has; "stored": the wave's own receipt has one
  beaten,     \* main: it saw a failure of the keeper at the join
  current,    \* keeper: the state it saved last
  failure,    \* keeper: why it ended, "none" if it did not fail
  clock, beats, faults,
  overtaken   \* history: a write fell on another version than the compared one

store == <<state, held, overtaken>>
main == <<base, stage, lane, seat, beaten>>
keeper == <<current, failure, beats>>
vars == <<store, pc, call, main, keeper, clock, faults>>

TypeOK ==
  /\ {state, base, current} \subseteq State /\ held \subseteq Threads
  /\ pc \in [Threads -> Steps] /\ call \in [Threads -> State]
  /\ stage \in Stages /\ lane \in Lanes /\ seat \in [Lanes -> Outcomes]
  /\ failure \in Failures /\ {beaten, overtaken} \subseteq BOOLEAN
  /\ clock \in 0..MaxClock /\ beats \in 0..MaxBeats /\ faults \in 0..MaxFaults

\* The wave is planned, its prompts are recorded, the pool is submitted and
\* the keeper is started with the state of that save.
Planned == [owner |-> "us", expires |-> Lease,
            receipts |-> [l \in Lanes |-> "none"], report |-> FALSE]
Init ==
  /\ state = Planned /\ base = Planned /\ current = Planned /\ held = {"keeper"}
  /\ pc = [t \in Threads |-> "wait"] /\ call = [t \in Threads |-> Planned]
  /\ stage = "receipt" /\ lane = (CHOOSE l \in Lanes : TRUE)
  /\ seat = [l \in Lanes |-> "running"] /\ beaten = FALSE /\ failure = "none"
  /\ clock = 0 /\ beats = 0 /\ faults = 0
  /\ overtaken = FALSE
----------------------------------------------------------------------------
At(t, step) == pc[t] = step
Goto(t, step) == pc' = [pc EXCEPT ![t] = step]
Fault == faults < MaxFaults /\ faults' = faults + 1

\* _load: host_id and claimed_at are those of this host's claim.
Owned == state.owner = "us"

\* queue.heartbeat: only the lease changes.
Renewed(s) == [s EXCEPT !.expires = clock + Lease]

\* Begin a save of s over the version that holders hold.
Begin(t, s, holders) ==
  /\ held' = holders /\ call' = [call EXCEPT ![t] = s] /\ Goto(t, "check")
Forget(t) == call' = [call EXCEPT ![t] = Planned]
----------------------------------------------------------------------------
(* save_state, for every thread.                                           *)

Check(t) ==
  /\ At(t, "check") /\ t \in held /\ Goto(t, "write")
  /\ UNCHANGED <<store, call, main, keeper, clock, faults>>

Write(t) ==
  /\ At(t, "write") /\ Goto(t, "verify")
  /\ state' = call[t] /\ held' = {t}
  /\ overtaken' = (overtaken \/ t \notin held)
  /\ UNCHANGED <<call, main, keeper, clock, faults>>

\* StateConflictError: another version before the write, or after it.
Conflict(t) == pc[t] \in {"check", "verify"} /\ t \notin held
Saved(t) == At(t, "verify") /\ t \in held
----------------------------------------------------------------------------
(* The main thread.                                                        *)

\* An exception leaves the wave by way of the pool and the keeper.  After the
\* wave it ends the thread's part, escalated (_persist_round) or raised.
Raise == Goto("main", IF stage = "receipt" THEN "drain" ELSE "end")

\* as_completed yields a seat: _execute_review_seat returned or raised.  That
\* it happened earlier shows in nothing else.
Collect(l) ==
  /\ At("main", "wait") /\ seat[l] \in {"running", "stored"}
  /\ \E outcome \in {"ok", "error"} :
       /\ seat[l] = "stored" => outcome = "ok"
       /\ seat' = [seat EXCEPT ![l] = outcome]
  /\ lane' = l /\ Goto("main", "load")
  /\ UNCHANGED <<store, call, base, stage, beaten, keeper, clock, faults>>

\* _record_review_result: the receipt is put into the extras of one load.
LoadReceipt ==
  /\ At("main", "load")
  /\ IF Owned
     THEN /\ base' = [state EXCEPT !.receipts[lane] =
                        IF seat[lane] = "ok" THEN "result" ELSE "error"]
          /\ Goto("main", "fresh")
     ELSE Raise /\ UNCHANGED base
  /\ UNCHANGED <<store, call, stage, lane, seat, beaten, keeper, clock, faults>>

\* Mutant of MayWrite: whoever holds the claim.
MayWriteAnyway == TRUE
MayWrite == Owned

\* _save_fresh: the version is that of another load.
Fresh ==
  /\ At("main", "fresh")
  /\ IF MayWrite THEN Begin("main", base, held \cup {"main"})
                 ELSE Raise /\ UNCHANGED <<held, call>>
  /\ UNCHANGED <<state, overtaken, main, keeper, clock, faults>>

\* The next seat, the report, the end.
MainSaved ==
  /\ Saved("main") /\ Forget("main")
  /\ CASE stage = "receipt" -> Goto("main", "wait") /\ base' = Planned /\ UNCHANGED stage
       [] stage = "round"   -> Goto("main", "fresh") /\ stage' = "report" /\ UNCHANGED base
       [] stage = "report"  -> Goto("main", "end") /\ UNCHANGED <<base, stage>>
  /\ UNCHANGED <<store, lane, seat, beaten, keeper, clock, faults>>

MainFails ==
  /\ \/ Conflict("main") /\ UNCHANGED faults
     \/ pc["main"] \in {"load", "fresh", "check", "write", "verify"} /\ Fault
  /\ Raise /\ Forget("main") /\ base' = Planned
  /\ UNCHANGED <<store, stage, lane, seat, beaten, keeper, clock>>

\* The pool waits for its seats and the keeper is told to stop.  Collected is
\* Lanes, or an exception is on its way out.
Drain ==
  /\ \/ At("main", "wait") /\ Goto("main", "join")
        /\ \A l \in Lanes : seat[l] \in {"ok", "error"}
     \/ At("main", "drain") /\ Goto("main", "leave")
  /\ UNCHANGED <<store, call, main, keeper, clock, faults>>

Stopping == pc["main"] \in {"leave", "join", "reload", "end"} \/ stage # "receipt"

\* Mutant of Joined: main waits for the keeper as long as it takes.
JoinedForever == At("keeper", "off")

\* join(timeout=5): the keeper is gone, or busy with a request for too long.
Joined == ~At("keeper", "wait")

\* A failure of the keeper counts unless an exception is on its way out.
Join ==
  /\ Joined
  /\ \/ At("main", "leave") /\ Goto("main", "end") /\ UNCHANGED beaten
     \/ At("main", "join") /\ Goto("main", "reload") /\ beaten' = (failure # "none")
  /\ UNCHANGED <<store, call, base, stage, lane, seat, keeper, clock, faults>>

\* Mutant of Accepted: failed reviewers do not keep the report back.
AcceptedAnyway == ~beaten
Accepted == ~beaten /\ \A l \in Lanes : seat[l] = "ok"

\* The end of _dispatch_review_wave.  The error of a seat is raised if it
\* leaves the session uncertain; the report of a wave without failures goes
\* into the extras of this load.
Reload ==
  /\ At("main", "reload")
  /\ \/ /\ ~Owned \/ \E l \in Lanes : seat[l] = "error"
        /\ Goto("main", "end") /\ UNCHANGED <<base, stage>>
     \/ /\ Owned /\ base' = [state EXCEPT !.report = Accepted]
        /\ stage' = "round" /\ Goto("main", "round")
  /\ UNCHANGED <<store, call, lane, seat, beaten, keeper, clock, faults>>

\* _persist_round: from its own load, or nothing when there is no news.
Round ==
  /\ At("main", "round")
  /\ \/ ~Owned /\ Goto("main", "end") /\ UNCHANGED <<held, call, stage>>
     \/ Owned /\ Begin("main", state, held \cup {"main"}) /\ UNCHANGED stage
     \/ Owned /\ stage' = "report" /\ Goto("main", "fresh") /\ UNCHANGED <<held, call>>
  /\ UNCHANGED <<state, overtaken, base, lane, seat, beaten, keeper, clock, faults>>
----------------------------------------------------------------------------
(* The keeper: _lease_heartbeat, _heartbeat, queue.heartbeat.              *)

KeeperEnds(why) ==
  Goto("keeper", "off") /\ failure' = why /\ Forget("keeper") /\ current' = Planned

\* Mutant of Compared: the newest version, though the extras are the keeper's.
ComparedNewest == held \cup {"keeper"}
Compared == held

\* The operator may have revoked the issue's opt-in.
Beat ==
  /\ At("keeper", "wait") /\ ~Stopping /\ beats < MaxBeats
  /\ beats' = beats + 1
  /\ \/ Goto("keeper", "stop_lanes") /\ UNCHANGED <<held, call, current, failure>>
     \/ clock > current.expires /\ KeeperEnds("expired") /\ UNCHANGED held
     \/ /\ clock <= current.expires
        /\ Begin("keeper", Renewed(current), Compared)
        /\ UNCHANGED <<current, failure>>
  /\ UNCHANGED <<state, overtaken, main, clock, faults>>

KeeperSaved ==
  /\ Saved("keeper")
  /\ current' = call["keeper"] /\ Forget("keeper") /\ Goto("keeper", "wait")
  /\ UNCHANGED <<store, main, failure, beats, clock, faults>>

KeeperFails ==
  /\ \/ Conflict("keeper") /\ KeeperEnds("conflict") /\ UNCHANGED faults
     \/ /\ pc["keeper"] \in {"check", "write", "verify", "stop_lanes"}
        /\ Fault /\ KeeperEnds("fault")
  /\ UNCHANGED <<store, main, beats, clock>>

\* The lanes of a revoked issue are stopped if the claim is still ours.
StopLanes ==
  /\ At("keeper", "stop_lanes") /\ KeeperEnds(IF Owned THEN "revoked" ELSE "lost")
  /\ UNCHANGED <<store, main, beats, clock, faults>>

KeeperStops ==
  /\ At("keeper", "wait") /\ Stopping /\ Goto("keeper", "off")
  /\ UNCHANGED <<store, call, main, keeper, clock, faults>>
----------------------------------------------------------------------------
(* The rival, time, death.                                                 *)

\* reclaim_expired: everything but the claim is kept.
Reclaim ==
  /\ Owned /\ clock > state.expires
  /\ state' = [Renewed(state) EXCEPT !.owner = "rival"]
  /\ held' = {}
  /\ UNCHANGED <<overtaken, pc, call, main, keeper, clock, faults>>

Tick ==
  /\ clock < MaxClock /\ clock' = clock + 1
  /\ UNCHANGED <<store, pc, call, main, keeper, faults>>

\* Both threads die with the process.
Crash ==
  /\ pc["main"] \notin {"end", "dead"} /\ Fault
  /\ pc' = [pc EXCEPT !["main"] = "dead", !["keeper"] = "off"]
  /\ call' = [call EXCEPT !["main"] = Planned, !["keeper"] = Planned]
  /\ base' = Planned /\ current' = Planned
  /\ UNCHANGED <<store, stage, lane, seat, beaten, failure, beats, clock>>

\* resume_work, after reclaim_expired if it comes late: a heartbeat, then the
\* wave with the receipts it has.  There is
\* nothing left to run in a wave with a report, after a takeover, or for a
\* revoked issue.
Resume ==
  /\ At("main", "dead")
  /\ \/ Goto("main", "end") /\ UNCHANGED <<store, stage, seat, beaten, current, failure>>
     \/ /\ Owned /\ ~state.report
        /\ state' = Renewed(state)
        /\ held' = {"keeper"} /\ current' = state'
        /\ seat' = [l \in Lanes |->
                      IF state.receipts[l] = "result" THEN "stored" ELSE "running"]
        /\ stage' = "receipt" /\ beaten' = FALSE /\ failure' = "none"
        /\ pc' = [pc EXCEPT !["main"] = "wait", !["keeper"] = "wait"]
        /\ UNCHANGED overtaken
  /\ UNCHANGED <<call, base, lane, beats, clock, faults>>

Main ==
  \/ LoadReceipt \/ Fresh \/ Check("main") \/ Write("main") \/ MainSaved \/ MainFails
  \/ Drain \/ Join \/ Reload \/ Round \/ Resume
  \/ \E l \in Lanes : Collect(l)
Keeper ==
  \/ Beat \/ Check("keeper") \/ Write("keeper") \/ KeeperSaved \/ KeeperFails
  \/ StopLanes \/ KeeperStops

Next == Main \/ Keeper \/ Reclaim \/ Tick \/ Crash

Spec == Init /\ [][Next]_vars

\* The main thread and its reviewers go on; a request of the keeper may hang.
FairSpec == Spec /\ WF_vars(Main) /\ WF_vars(KeeperStops)
----------------------------------------------------------------------------
(* Properties.                                                             *)

\* foreman.py:1204-1218 and queue.py:610-641: two threads write whole extras,
\* yet what a reviewer answered stays in the durable wave, through heartbeats,
\* a takeover and a restart.  Only a write that falls between the comparison
\* and the edit of another save can lose it (queue.py:377-379).
ReceiptsStick ==
  [][~overtaken' => \A l \in Lanes :
       state.receipts[l] = "result" => state'.receipts[l] = "result"]_state

\* V3_FOREMAN.md:102: after a takeover no late write of this host's threads
\* reaches the record, whatever they had read before.
LateWritesRejected ==
  [][~overtaken' /\ state.owner = "rival" => state'.owner = "rival"]_state

\* foreman.py:1140-1154: a wave with a report is recovered from the stored
\* result of each of its lanes, so that each of them must be there.
ReportRecoverable ==
  state.report /\ ~overtaken => \A l \in Lanes : state.receipts[l] = "result"

\* foreman.py:2073-2078: the wave ends though a heartbeat hangs.
WaveEnds == <>(pc["main"] = "end")

\* foreman.py:2050-2053: the keeper fails on a conflict only when the claim
\* was lost.  It does not hold: a receipt of the main thread is enough, as the
\* keeper renews from what it saved last.
KeeperFailsOnlyOnLostClaim == failure = "conflict" => state.owner = "rival"
=============================================================================
