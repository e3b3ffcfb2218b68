----------------------------- MODULE WorkQueue -----------------------------
(***************************************************************************)
(* The GitHub issue queue (v3/queue.py) as several coordinator hosts see   *)
(* it: one issue, the comments on it that carry a state block, its         *)
(* lifecycle labels, and the calls of each host's GitHubIssueQueue.  Every *)
(* GitHub request is one step, because GitHub offers no transaction: the   *)
(* precondition of a save is read in one request and the write is another. *)
(*                                                                         *)
(* A state block is abstracted to what the queue's guarantees tell apart:  *)
(* its version (updated_at), its phase, its claim and whether a lane may   *)
(* still be running for it.  Two writes never carry the same updated_at    *)
(* (it has microseconds), so a version is a fresh number.                  *)
(***************************************************************************)
EXTENDS Naturals

CONSTANTS
  Hosts,         \* coordinator deployments, one process each (flock, cli.py)
  None,
  Targets,       \* phases a foreman moves the item to
  Lease,         \* lease length in clock units (lease_seconds)
  MaxComments,   \* bound: comments ever posted
  MaxStamp,      \* bound: writes ever started
  MaxClock,      \* bound on time
  MaxFaults,     \* bound: crashes, failed calls and lost responses
  Overlap        \* may the calls of two hosts overlap in time?

Terminal == {"done", "failed", "escalated", "cancelled"}
Phases == Terminal \cup {"queued", "claiming", "planning", "coding", "reviewing",
                         "ci_gating", "updating_pr"}
Labels == {"enabled", "active", "review", "needs_human", "done", "error"}
Ids == 1..MaxComments
Kinds == {"claim", "reject", "heartbeat", "transition", "save", "reclaim", "repair"}
Steps == {"idle", "check", "write", "verify", "settle", "delete", "sync", "label"}

\* WorkflowState with the claim attribution kept in its extras.  "lanes" is
\* "none" before a coder turn is recorded, then "live" until lanes_stopped.
Block == [stamp : 0..MaxStamp, phase : Phases, owner : Hosts \cup {None},
          claimed : 0..MaxStamp, expires : 0..(MaxClock + Lease),
          lanes : {"none", "live", "stopped"}]
NoBlock == [stamp |-> 0, phase |-> "queued", owner |-> None,
            claimed |-> 0, expires |-> 0, lanes |-> "none"]

ASSUME QueueAssumption ==
  /\ Targets \subseteq Phases
  /\ {Lease, MaxComments, MaxStamp, MaxClock, MaxFaults} \subseteq Nat
  /\ Overlap \in BOOLEAN
  /\ None \notin Hosts \cup Block

\* One call in progress.  expected = 0 is the create-only precondition.
Call == [kind : Kinds, expected : 0..MaxStamp, new : Block, id : 0..MaxComments,
         rivals : SUBSET Ids, first : BOOLEAN, todo : SUBSET Labels]
NoCall == [kind |-> "claim", expected |-> 0, new |-> NoBlock, id |-> 0,
           rivals |-> {}, first |-> FALSE, todo |-> {}]

VARIABLES
  comments,   \* the issue's state comments by id (None: never posted or deleted)
  lastId,     \* the newest comment id GitHub handed out
  labels,     \* lifecycle labels on the issue
  clock, stamps, faults,
  pc, call,   \* each host's call in progress
  handle,     \* the state each host's foreman works from (None: no claim)
  created     \* history: comments whose create-only save returned normally

vars == <<comments, lastId, labels, clock, stamps, faults, pc, call, handle, created>>
store == <<comments, lastId>>
----------------------------------------------------------------------------
Present == {i \in Ids : comments[i] # None}
Earliest(S) == CHOOSE i \in S : \A j \in S : i <= j

\* load_state: the first state comment in listing order, which is id order.
Authoritative == IF Present = {} THEN None ELSE comments[Earliest(Present)]

\* Claim.is_stale and is_claim_stale (a state without a claim is stale).
Stale(b) == b.owner = None \/ clock > b.expires

\* _load's ownership check: host_id and claimed_at (the run id is per claim).
SameClaim(b, c) == b.owner = c.owner /\ b.claimed = c.claimed

PhaseLabel(phase) ==
  CASE phase = "queued"    -> {"enabled"}
    [] phase = "reviewing" -> {"review"}
    [] phase = "escalated" -> {"needs_human"}
    [] phase = "done"      -> {"done"}
    [] phase = "failed"    -> {"error"}
    [] phase = "cancelled" -> {}
    [] OTHER               -> {"active"}

\* A terminal run whose developer is unconfirmed keeps the active label.
Unconfirmed(b) == b.phase \in Terminal /\ b.lanes = "live"
\* Mutant of TargetLabels: a terminal label without asking about the lanes.
TrustedLabels(b) == PhaseLabel(b.phase)
TargetLabels(b) == PhaseLabel(IF Unconfirmed(b) THEN "coding" ELSE b.phase)

\* The order of _lifecycle_labels, in which labels are changed one by one.
Rank(l) == CASE l = "enabled" -> 1 [] l = "active" -> 2 [] l = "review" -> 3
             [] l = "needs_human" -> 4 [] l = "done" -> 5 [] OTHER -> 6
NextLabel(S) == CHOOSE l \in S : \A m \in S : Rank(l) <= Rank(m)

Idle(h) == pc[h] = "idle"
Alone(h) == Overlap \/ \A g \in Hosts \ {h} : Idle(g)
----------------------------------------------------------------------------
TypeOK ==
  /\ comments \in [Ids -> Block \cup {None}]
  /\ lastId \in 0..MaxComments
  /\ labels \subseteq Labels
  /\ clock \in 0..MaxClock
  /\ stamps \in 0..MaxStamp
  /\ faults \in 0..MaxFaults
  /\ pc \in [Hosts -> Steps]
  /\ call \in [Hosts -> Call]
  /\ handle \in [Hosts -> Block \cup {None}]
  /\ created \subseteq 0..MaxComments

\* An issue the operator opted in and labelled ready, with no state yet.
Init ==
  /\ comments = [i \in Ids |-> None]
  /\ lastId = 0
  /\ labels = {"enabled"}
  /\ clock = 0 /\ stamps = 0 /\ faults = 0
  /\ pc = [h \in Hosts |-> "idle"]
  /\ call = [h \in Hosts |-> NoCall]
  /\ handle = [h \in Hosts |-> None]
  /\ created = {}
----------------------------------------------------------------------------
(* Starting a call: what it computes from its arguments or from a fresh    *)
(* load_state before save_state is entered.                                *)

Start(h, kind, expected, block) ==
  /\ Idle(h) /\ Alone(h) /\ stamps < MaxStamp
  /\ stamps' = stamps + 1
  /\ call' = [call EXCEPT ![h] = [NoCall EXCEPT
                !.kind = kind, !.expected = expected,
                !.new = [block EXCEPT !.stamp = stamps + 1]]]
  /\ pc' = [pc EXCEPT ![h] = "check"]
  /\ UNCHANGED <<store, labels, clock, faults, handle, created>>

\* The claim a host writes: its own, with a full lease from now.
Claimed(b, h) == [b EXCEPT !.owner = h, !.claimed = stamps + 1,
                           !.expires = clock + Lease]

\* claim: create-only on an issue without state, compare-and-swap on a
\* queued one.  The listing that led here may be arbitrarily old.
Claim(h) ==
  /\ handle[h] = None
  /\ LET existing == Authoritative IN
       \/ /\ existing = None
          /\ Start(h, "claim", 0, Claimed([NoBlock EXCEPT !.phase = "claiming"], h))
       \/ /\ existing # None /\ existing.phase = "queued"
          /\ Start(h, "claim", existing.stamp,
                   Claimed([existing EXCEPT !.phase = "claiming"], h))

\* reject: an unauthorized issue gets a terminal state and no claim.
Reject(h) ==
  /\ handle[h] = None /\ Authoritative = None
  /\ Start(h, "reject", 0, [NoBlock EXCEPT !.phase = "escalated"])

\* heartbeat: from the caller's handle, not from a fresh load.
Heartbeat(h) ==
  /\ handle[h] # None /\ handle[h].owner = h /\ ~Stale(handle[h])
  /\ Start(h, "heartbeat", handle[h].stamp,
           [handle[h] EXCEPT !.expires = clock + Lease])

Transition(h, phase) ==
  /\ handle[h] # None /\ handle[h].phase \notin Terminal
  /\ Start(h, "transition", handle[h].stamp, [handle[h] EXCEPT !.phase = phase])

\* Mutant of Abandon: a claim is drained while its lanes may still run.
AbandonRunning(h) ==
  /\ handle[h] # None /\ handle[h] = Authoritative /\ handle[h].owner = h
  /\ Start(h, "transition", handle[h].stamp,
           [handle[h] EXCEPT !.phase = "queued", !.owner = None,
                             !.claimed = 0, !.expires = 0])

\* abandon: drain a stopped claim back to the queue, without its lease keys.
Abandon(h) ==
  /\ handle[h] # None /\ handle[h] = Authoritative
  /\ handle[h].owner = h /\ handle[h].lanes = "stopped"
  /\ Start(h, "transition", handle[h].stamp,
           [handle[h] EXCEPT !.phase = "queued", !.owner = None,
                             !.claimed = 0, !.expires = 0])

\* The foreman's other writes: _save_fresh on a freshly loaded, owned state,
\* recording a coder turn or that every lane is confirmed stopped.
Save(h, lanes) ==
  /\ handle[h] # None
  /\ LET fresh == Authoritative IN
       /\ fresh # None /\ SameClaim(fresh, handle[h])
       /\ fresh.phase \notin Terminal
       /\ Start(h, "save", fresh.stamp, [fresh EXCEPT !.lanes = lanes])

\* Mutant of Reclaim: the lease is not looked at.
ReclaimRunning(h) ==
  /\ handle[h] = None
  /\ LET running == Authoritative IN
       /\ running # None /\ running.phase \notin Terminal \cup {"queued"}
       /\ Start(h, "reclaim", running.stamp, Claimed(running, h))

\* reclaim_expired on a freshly loaded state (scheduler._resume).
Reclaim(h) ==
  /\ handle[h] = None
  /\ LET stale == Authoritative IN
       /\ stale # None /\ stale.phase \notin Terminal \cup {"queued"}
       /\ Stale(stale)
       /\ Start(h, "reclaim", stale.stamp, Claimed(stale, h))

\* A restarted or recovering foreman takes up its own unfinished claim.
Adopt(h) ==
  /\ Idle(h) /\ Alone(h) /\ handle[h] = None
  /\ LET state == Authoritative IN
       /\ state # None /\ state.phase \notin Terminal \cup {"queued"}
       /\ state.owner = h
       /\ handle' = [handle EXCEPT ![h] = state]
  /\ UNCHANGED <<store, labels, clock, stamps, faults, pc, call, created>>

\* repair_labels: no write of the state, only the label calls.
RepairLabels(h) ==
  /\ Idle(h) /\ Alone(h) /\ handle[h] = None
  /\ LET current == Authoritative IN
       /\ current # None /\ current.phase \in Terminal \cup {"queued"}
       /\ labels # TargetLabels(current)
       /\ call' = [call EXCEPT ![h] = [NoCall EXCEPT !.kind = "repair", !.new = current]]
  /\ pc' = [pc EXCEPT ![h] = "sync"]
  /\ UNCHANGED <<store, labels, clock, stamps, faults, handle, created>>
----------------------------------------------------------------------------
(* The requests of save_state.                                             *)

\* The call raises: whatever the foreman held is no longer usable.
Raise(h) ==
  /\ pc' = [pc EXCEPT ![h] = "idle"]
  /\ call' = [call EXCEPT ![h] = NoCall]
  /\ handle' = [handle EXCEPT ![h] = None]

\* Mutant of Check: an update does not compare updated_at.
CheckAnyVersion(h) ==
  /\ pc[h] = "check"
  /\ (call[h].expected = 0) = (Present = {})
  /\ pc' = [pc EXCEPT ![h] = "write"]
  /\ call' = [call EXCEPT ![h].id = IF Present = {} THEN 0 ELSE Earliest(Present)]
  /\ UNCHANGED <<store, labels, clock, stamps, faults, handle, created>>

\* _find_state_comment and the precondition.
Check(h) ==
  /\ pc[h] = "check"
  /\ \/ /\ IF call[h].expected = 0 THEN Present = {}
           ELSE Present # {} /\ Authoritative.stamp = call[h].expected
        /\ pc' = [pc EXCEPT ![h] = "write"]
        /\ call' = [call EXCEPT ![h].id = IF Present = {} THEN 0 ELSE Earliest(Present)]
        /\ UNCHANGED handle
     \/ /\ IF call[h].expected = 0 THEN Present # {}
           ELSE Present = {} \/ Authoritative.stamp # call[h].expected
        /\ Raise(h)
  /\ UNCHANGED <<store, labels, clock, stamps, faults, created>>

Post(h) ==
  /\ pc[h] = "write" /\ call[h].expected = 0 /\ lastId < MaxComments
  /\ lastId' = lastId + 1
  /\ comments' = [comments EXCEPT ![lastId + 1] = call[h].new]
  /\ call' = [call EXCEPT ![h].id = lastId + 1]
  /\ pc' = [pc EXCEPT ![h] = "settle"]
  /\ UNCHANGED <<labels, clock, stamps, faults, handle, created>>

\* The client retries a POST whose response was lost: two comments, and the
\* id of the second one.
PostTwice(h) ==
  /\ pc[h] = "write" /\ call[h].expected = 0 /\ lastId + 1 < MaxComments
  /\ faults < MaxFaults /\ faults' = faults + 1
  /\ lastId' = lastId + 2
  /\ comments' = [comments EXCEPT ![lastId + 1] = call[h].new,
                                  ![lastId + 2] = call[h].new]
  /\ call' = [call EXCEPT ![h].id = lastId + 2]
  /\ pc' = [pc EXCEPT ![h] = "settle"]
  /\ UNCHANGED <<labels, clock, stamps, handle, created>>

\* Mutant of Settle: every claimant takes its own comment for the winner.
SettleForOwn(h) ==
  /\ pc[h] = "settle"
  /\ call' = [call EXCEPT ![h].rivals = Present \ {call[h].id}, ![h].first = TRUE]
  /\ pc' = [pc EXCEPT ![h] = "delete"]
  /\ UNCHANGED <<store, labels, clock, stamps, faults, handle, created>>

\* _settle_after_create, the rescan.
Settle(h) ==
  /\ pc[h] = "settle"
  /\ LET own == call[h].id IN
       call' = [call EXCEPT ![h].rivals = {i \in Present : i # Earliest(Present)},
                            ![h].first = own \in Present /\ own = Earliest(Present)]
  /\ pc' = [pc EXCEPT ![h] = "delete"]
  /\ UNCHANGED <<store, labels, clock, stamps, faults, handle, created>>

\* Deleting a later duplicate.  A rival claimant may already have deleted it:
\* DELETE answers 404 and the call raises.
Delete(h) ==
  /\ pc[h] = "delete" /\ call[h].rivals # {}
  /\ LET d == Earliest(call[h].rivals) IN
       \/ /\ comments[d] # None
          /\ comments' = [comments EXCEPT ![d] = None]
          /\ call' = [call EXCEPT ![h].rivals = @ \ {d}]
          /\ UNCHANGED <<pc, handle>>
       \/ comments[d] = None /\ Raise(h) /\ UNCHANGED comments
  /\ UNCHANGED <<lastId, labels, clock, stamps, faults, created>>

\* The arbitration's verdict: only the earliest comment's author goes on.
Arbitrate(h) ==
  /\ pc[h] = "delete" /\ call[h].rivals = {}
  /\ \/ /\ call[h].first
        /\ pc' = [pc EXCEPT ![h] = "sync"]
        /\ handle' = [handle EXCEPT ![h] = call[h].new]
        /\ created' = created \cup {call[h].id}
        /\ UNCHANGED call
     \/ ~call[h].first /\ Raise(h) /\ UNCHANGED created
  /\ UNCHANGED <<store, labels, clock, stamps, faults>>

Patch(h) ==
  /\ pc[h] = "write" /\ call[h].expected # 0
  /\ comments' = [comments EXCEPT ![call[h].id] = call[h].new]
  /\ pc' = [pc EXCEPT ![h] = "verify"]
  /\ UNCHANGED <<lastId, labels, clock, stamps, faults, call, handle, created>>

\* The re-read after the PATCH.  claim, transition and reclaim go on to the
\* labels; heartbeats and saves are done.
Verify(h) ==
  /\ pc[h] = "verify"
  /\ LET found == comments[call[h].id] IN
       \/ /\ found # None /\ found.stamp = call[h].new.stamp
          /\ handle' = [handle EXCEPT ![h] = call[h].new]
          /\ \/ /\ call[h].kind \in {"claim", "transition", "reclaim"}
                /\ pc' = [pc EXCEPT ![h] = "sync"]
                /\ UNCHANGED call
             \/ /\ call[h].kind \in {"heartbeat", "save"}
                /\ pc' = [pc EXCEPT ![h] = "idle"]
                /\ call' = [call EXCEPT ![h] = NoCall]
       \/ (found = None \/ found.stamp # call[h].new.stamp) /\ Raise(h)
  /\ UNCHANGED <<store, labels, clock, stamps, faults, created>>
----------------------------------------------------------------------------
(* _apply_state_labels: read the labels, then one request per change.      *)

\* The call returns.  A finished item leaves the host without a claim; so
\* does the error raised for an unconfirmed developer.
Return(h) ==
  /\ pc' = [pc EXCEPT ![h] = "idle"]
  /\ call' = [call EXCEPT ![h] = NoCall]
  /\ handle' = IF call[h].new.phase \in Terminal \cup {"queued"}
               THEN [handle EXCEPT ![h] = None] ELSE handle

\* Mutant of SyncLabels: only the new label is applied, none is removed.
SyncLabelsAddOnly(h) ==
  /\ pc[h] = "sync"
  /\ LET todo == TargetLabels(call[h].new) \ labels IN
       \/ todo = {} /\ Return(h)
       \/ /\ todo # {}
          /\ call' = [call EXCEPT ![h].todo = todo]
          /\ pc' = [pc EXCEPT ![h] = "label"]
          /\ UNCHANGED handle
  /\ UNCHANGED <<store, labels, clock, stamps, faults, created>>

SyncLabels(h) ==
  /\ pc[h] = "sync"
  /\ LET target == TargetLabels(call[h].new)
         todo == (labels \ target) \cup (target \ labels) IN
       \/ todo = {} /\ Return(h)
       \/ /\ todo # {}
          /\ call' = [call EXCEPT ![h].todo = todo]
          /\ pc' = [pc EXCEPT ![h] = "label"]
          /\ UNCHANGED handle
  /\ UNCHANGED <<store, labels, clock, stamps, faults, created>>

\* Adding is idempotent; removing a label that is gone answers 404.
LabelCall(h) ==
  /\ pc[h] = "label"
  /\ LET l == NextLabel(call[h].todo)
         adding == l \in TargetLabels(call[h].new) IN
       \/ /\ adding \/ l \in labels
          /\ labels' = IF adding THEN labels \cup {l} ELSE labels \ {l}
          /\ IF call[h].todo = {l}
             THEN Return(h)
             ELSE /\ call' = [call EXCEPT ![h].todo = @ \ {l}]
                  /\ UNCHANGED <<pc, handle>>
       \/ ~adding /\ l \notin labels /\ Raise(h) /\ UNCHANGED labels
  /\ UNCHANGED <<store, clock, stamps, faults, created>>
----------------------------------------------------------------------------
(* Faults and time.                                                        *)

\* A request fails after its retries and before it took effect, or the
\* process dies between two requests: either way the host starts over.
Crash(h) ==
  /\ faults < MaxFaults /\ faults' = faults + 1
  /\ ~Idle(h) \/ handle[h] # None
  /\ Raise(h)
  /\ UNCHANGED <<store, labels, clock, stamps, created>>

\* A write took effect but every response was lost: the call raises.
ResponseLost(h) ==
  /\ pc[h] = "write" /\ faults < MaxFaults /\ faults' = faults + 1
  /\ \/ /\ call[h].expected # 0
        /\ comments' = [comments EXCEPT ![call[h].id] = call[h].new]
        /\ UNCHANGED lastId
     \/ /\ call[h].expected = 0 /\ lastId < MaxComments
        /\ lastId' = lastId + 1
        /\ comments' = [comments EXCEPT ![lastId + 1] = call[h].new]
  /\ Raise(h)
  /\ UNCHANGED <<labels, clock, stamps, created>>

Tick ==
  /\ clock < MaxClock /\ clock' = clock + 1
  /\ UNCHANGED <<store, labels, stamps, faults, pc, call, handle, created>>

HostStep(h) ==
  \/ Claim(h) \/ Reject(h) \/ Heartbeat(h) \/ Abandon(h) \/ Reclaim(h)
  \/ Adopt(h) \/ RepairLabels(h)
  \/ \E phase \in Targets : Transition(h, phase)
  \/ \E lanes \in {"live", "stopped"} : Save(h, lanes)
  \/ Check(h) \/ Post(h) \/ PostTwice(h) \/ Settle(h) \/ Delete(h) \/ Arbitrate(h)
  \/ Patch(h) \/ Verify(h) \/ SyncLabels(h) \/ LabelCall(h)
  \/ Crash(h) \/ ResponseLost(h)

Next == Tick \/ \E h \in Hosts : HostStep(h)

Spec == Init /\ [][Next]_vars
----------------------------------------------------------------------------
(* Properties.                                                             *)

\* queue.py:27-31: however many hosts post a first state comment at once, at
\* most one create-only save ever returns, so at most one foreman proceeds.
AtMostOneClaimWinner == \A i, j \in created : i = j

\* queue.py:405-429, why: the first comment has the least id, so every rescan
\* elects it, nobody deletes it and only its author returns.  Inductive
\* together with TypeOK.
FirstKept ==
  /\ Present # {} => lastId >= 1
  /\ lastId >= 1 => comments[1] # None
  /\ created \subseteq {1}
FirstRespected(h) ==
  /\ pc[h] \in {"settle", "delete"} => lastId >= 1
  /\ (pc[h] = "write" /\ call[h].expected # 0) => lastId >= 1
  /\ pc[h] = "delete" => /\ 1 \notin call[h].rivals
                         /\ call[h].first => call[h].id = 1
FirstCommentStays == FirstKept /\ \A h \in Hosts : FirstRespected(h)

\* queue.py:405-410: once every claimant is through, one state comment is left.
\* It does not hold: a rival may have deleted a duplicate after it was listed,
\* and the 404 of that one ends the loop before it comes to the later ones.
DuplicatesDeleted ==
  (faults = 0 /\ \A h \in Hosts : Idle(h)) => \A i, j \in Present : i = j

\* A host that works on the item: it holds a claim whose lease is running and
\* is not just now giving the item up.
Working(h) ==
  /\ handle[h] # None /\ ~Stale(handle[h])
  /\ Idle(h) \/ call[h].new.phase \notin Terminal \cup {"queued"}

\* queue.py:37-41: two hosts never work on the item at once; a paused owner
\* and a reclaiming host included.
LeaseExclusive == \A g, h \in Hosts : Working(g) /\ Working(h) => g = h

\* queue.py:22-25: a state a host committed stays authoritative until that
\* host, or a successor with a claim of its own, commits another one.
NoLostUpdate ==
  \A h \in Hosts :
    /\ Idle(h) /\ handle[h] # None
    /\ \/ ~Stale(handle[h])
       \/ SameClaim(Authoritative, handle[h])
    => handle[h] = Authoritative

\* queue.py:692-699: no label announces a terminal run as released while the
\* run's developer has not been confirmed stopped.
NoReleaseWhileLive ==
  (Authoritative # None /\ Unconfirmed(Authoritative))
    => labels \cap {"needs_human", "done", "error"} = {}

\* Between calls, and unless one was cut short, the labels the scheduler
\* lists by agree with the phase in the authoritative comment.
LabelsAgree ==
  (faults = 0 /\ Authoritative # None /\ \A h \in Hosts : Idle(h))
    => labels = TargetLabels(Authoritative)

\* The queue with calls that do not overlap implements one atomic record.
Record == INSTANCE LeaseRecord WITH record <- Authoritative
RefinesRecord == Record!Spec
=============================================================================
