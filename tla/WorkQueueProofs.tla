-------------------------- MODULE WorkQueueProofs --------------------------
(***************************************************************************)
(* What the queue guarantees for every number of hosts, calls, faults and  *)
(* comments.  With calls that may overlap the whole argument is that the   *)
(* first comment ever posted has the least id, that every rescan finds it  *)
(* and that nobody ever deletes it.  With calls that do not overlap the    *)
(* claims, the labels and the refinement of one atomic record rest on it.  *)
(***************************************************************************)
EXTENDS WorkQueue, TLAPS, WellFoundedInduction

LEMMA EarliestIsLeast ==
  ASSUME NEW S, S \subseteq Nat, S # {}
  PROVE  Earliest(S) \in S /\ \A j \in S : Earliest(S) <= j
<1> DEFINE Less == {ss \in Nat \X Nat : ss[1] < ss[2]}
<1>1. IsWellFoundedOn(Less, Nat)
  BY NatLessThanWellFounded DEF OpToRel
<1>2. \E i \in S : \A j \in S : ~(<<j, i>> \in Less)
  <2> HIDE DEF Less
  <2> QED BY <1>1, WFMin
<1>3. PICK i \in S : \A j \in S : ~(<<j, i>> \in Less)
  BY <1>2
<1>4. \A j \in S : i <= j
  <2> TAKE j \in S
  <2>1. i \in Nat /\ j \in Nat
    OBVIOUS
  <2>2. (j < i) => <<j, i>> \in Less
    BY <2>1
  <2>3. ~(j < i)
    BY <1>3, <2>2
  <2> QED BY <2>1, <2>3
<1>5. QED
  BY <1>4 DEF Earliest

----------------------------------------------------------------------------
(* Type correctness.                                                       *)

LEMMA BoundsAreNat ==
  {Lease, MaxComments, MaxStamp, MaxClock, MaxFaults} \subseteq Nat
BY QueueAssumption

LEMMA AuthoritativeIsBlock ==
  ASSUME TypeOK
  PROVE  /\ Present \subseteq Ids
         /\ Present # {} => Earliest(Present) \in Present
         /\ Authoritative \in Block \cup {None}
         /\ Authoritative # None => Authoritative \in Block
<1>1. Present \subseteq Ids /\ Ids \subseteq Nat
  BY DEF Present, Ids
<1>2. Present # {} => Earliest(Present) \in Present
  BY <1>1, EarliestIsLeast, Zenon
<1>3. Authoritative \in Block \cup {None}
  BY <1>1, <1>2 DEF Authoritative, TypeOK, Present
<1>4. QED
  BY <1>1, <1>2, <1>3

LEMMA NoCallIsCall == NoCall \in Call
BY BoundsAreNat, SMTT(20) DEF NoCall, Call, NoBlock, Block, Kinds, Phases, Terminal

LEMMA StartType ==
  ASSUME TypeOK, NEW h \in Hosts, NEW kind \in Kinds, NEW expected \in 0..MaxStamp,
         NEW block \in Block, Start(h, kind, expected, block)
  PROVE  TypeOK'
<1>1. stamps + 1 \in 0..MaxStamp
  BY BoundsAreNat DEF Start, TypeOK
<1>2. [block EXCEPT !.stamp = stamps + 1] \in Block
  BY <1>1 DEF Block
<1>3. [NoCall EXCEPT !.kind = kind, !.expected = expected,
                     !.new = [block EXCEPT !.stamp = stamps + 1]] \in Call
  BY <1>2, NoCallIsCall DEF Call
<1>4. call' \in [Hosts -> Call]
  BY <1>3 DEF Start, TypeOK
<1>5. QED
  BY <1>1, <1>4 DEF Start, TypeOK, Steps, store

LEMMA RaiseType ==
  ASSUME TypeOK, NEW h \in Hosts, Raise(h)
  PROVE  /\ pc' \in [Hosts -> Steps]
         /\ call' \in [Hosts -> Call]
         /\ handle' \in [Hosts -> Block \cup {None}]
BY NoCallIsCall DEF TypeOK, Raise, Steps

LEMMA ReturnType ==
  ASSUME TypeOK, NEW h \in Hosts, Return(h)
  PROVE  /\ pc' \in [Hosts -> Steps]
         /\ call' \in [Hosts -> Call]
         /\ handle' \in [Hosts -> Block \cup {None}]
BY NoCallIsCall DEF TypeOK, Return, Steps

LEMMA ClaimedType ==
  ASSUME TypeOK, stamps < MaxStamp, NEW b \in Block, NEW h \in Hosts
  PROVE  Claimed(b, h) \in Block
<1>1. stamps + 1 \in 0..MaxStamp /\ clock + Lease \in 0..(MaxClock + Lease)
  BY BoundsAreNat DEF TypeOK
<1>2. QED
  BY <1>1 DEF Claimed, Block

LEMMA InitType == Init => TypeOK
BY BoundsAreNat, NoCallIsCall
   DEF Init, TypeOK, Ids, Labels, Steps, Block

LEMMA NextType == TypeOK /\ [Next]_vars => TypeOK'
<1> SUFFICES ASSUME TypeOK, [Next]_vars PROVE TypeOK'
  OBVIOUS
<1> USE BoundsAreNat
<1>1. CASE UNCHANGED vars
  BY <1>1 DEF vars, TypeOK
<1>2. CASE Tick
  BY <1>2 DEF Tick, TypeOK, store
<1>3. ASSUME NEW h \in Hosts, HostStep(h) PROVE TypeOK'
  <2> USE AuthoritativeIsBlock
  <2>1. CASE Claim(h)
    <3>1. NoBlock \in Block /\ [NoBlock EXCEPT !.phase = "claiming"] \in Block
      BY DEF NoBlock, Block, Phases
    <3>2. stamps < MaxStamp
      BY <2>1 DEF Claim, Start
    <3>3. CASE Start(h, "claim", 0, Claimed([NoBlock EXCEPT !.phase = "claiming"], h))
      BY <3>1, <3>2, <3>3, ClaimedType, StartType DEF Kinds
    <3>4. CASE /\ Authoritative # None
               /\ Start(h, "claim", Authoritative.stamp,
                        Claimed([Authoritative EXCEPT !.phase = "claiming"], h))
      <4>1. [Authoritative EXCEPT !.phase = "claiming"] \in Block
            /\ Authoritative.stamp \in 0..MaxStamp
        BY <3>4 DEF Block, Phases
      <4>2. Claimed([Authoritative EXCEPT !.phase = "claiming"], h) \in Block
        BY <4>1, <3>2, ClaimedType
      <4> QED BY <4>1, <4>2, <3>4, StartType DEF Kinds
    <3> QED BY <2>1, <3>3, <3>4 DEF Claim
  <2>2. CASE Reject(h)
    <3>1. [NoBlock EXCEPT !.phase = "escalated"] \in Block
      BY DEF NoBlock, Block, Phases, Terminal
    <3> QED BY <2>2, <3>1, StartType DEF Reject, Kinds
  <2>3. CASE Heartbeat(h)
    <3>1. handle[h] \in Block /\ clock + Lease \in 0..(MaxClock + Lease)
      BY <2>3 DEF Heartbeat, TypeOK
    <3>2. [handle[h] EXCEPT !.expires = clock + Lease] \in Block
          /\ handle[h].stamp \in 0..MaxStamp
      BY <3>1 DEF Block
    <3> QED BY <2>3, <3>2, StartType DEF Heartbeat, Kinds
  <2>4. CASE Abandon(h)
    <3>1. handle[h] \in Block
      BY <2>4 DEF Abandon, TypeOK
    <3>2. [handle[h] EXCEPT !.phase = "queued", !.owner = None, !.claimed = 0,
                            !.expires = 0] \in Block
          /\ handle[h].stamp \in 0..MaxStamp
      <4>1. 0 \in 0..MaxStamp /\ 0 \in 0..(MaxClock + Lease) /\ "queued" \in Phases
        BY DEF Phases
      <4> QED BY <3>1, <4>1 DEF Block
    <3> QED BY <2>4, <3>2, StartType DEF Abandon, Kinds
  <2>5. CASE Reclaim(h)
    <3>1. Authoritative \in Block /\ stamps < MaxStamp
      BY <2>5 DEF Reclaim, Start
    <3>2. Claimed(Authoritative, h) \in Block /\ Authoritative.stamp \in 0..MaxStamp
      BY <3>1, ClaimedType DEF Block
    <3> QED BY <2>5, <3>2, StartType DEF Reclaim, Kinds
  <2>6. CASE Adopt(h)
    BY <2>6 DEF Adopt, TypeOK, store
  <2>7. CASE RepairLabels(h)
    <3>1. [NoCall EXCEPT !.kind = "repair", !.new = Authoritative] \in Call
      BY <2>7, NoCallIsCall DEF RepairLabels, Call, Kinds
    <3> QED BY <2>7, <3>1 DEF RepairLabels, TypeOK, store, Steps
  <2>8. ASSUME NEW phase \in Targets, Transition(h, phase) PROVE TypeOK'
    <3>1. handle[h] \in Block /\ phase \in Phases
      BY <2>8, QueueAssumption DEF Transition, TypeOK
    <3>2. [handle[h] EXCEPT !.phase = phase] \in Block
          /\ handle[h].stamp \in 0..MaxStamp
      BY <3>1 DEF Block
    <3> QED BY <2>8, <3>2, StartType DEF Transition, Kinds
  <2>9. ASSUME NEW lanes \in {"live", "stopped"}, Save(h, lanes) PROVE TypeOK'
    <3>1. Authoritative \in Block
      BY <2>9 DEF Save
    <3>2. [Authoritative EXCEPT !.lanes = lanes] \in Block
          /\ Authoritative.stamp \in 0..MaxStamp
      BY <3>1 DEF Block
    <3> QED BY <2>9, <3>2, StartType DEF Save, Kinds
  <2>10. CASE Check(h)
    <3>1. (IF Present = {} THEN 0 ELSE Earliest(Present)) \in 0..MaxComments
      BY DEF Ids
    <3>2. CASE Raise(h)
      BY <2>10, <3>2, RaiseType DEF Check, TypeOK, store
    <3>3. CASE /\ pc' = [pc EXCEPT ![h] = "write"]
               /\ call' = [call EXCEPT ![h].id = IF Present = {} THEN 0
                                                 ELSE Earliest(Present)]
               /\ UNCHANGED handle
      BY <2>10, <3>1, <3>3 DEF Check, TypeOK, store, Steps, Call
    <3> QED BY <2>10, <3>2, <3>3 DEF Check
  <2>11. CASE Post(h)
    <3>1. lastId + 1 \in 0..MaxComments
      BY <2>11 DEF Post, TypeOK
    <3>2. call[h].new \in Block /\ [call[h] EXCEPT !.id = lastId + 1] \in Call
      BY <3>1 DEF TypeOK, Call
    <3>3. call' = [call EXCEPT ![h] = [call[h] EXCEPT !.id = lastId + 1]]
      BY <2>11, Zenon DEF Post
    <3>4. call' \in [Hosts -> Call]
      BY <3>2, <3>3 DEF TypeOK
    <3> QED BY <2>11, <3>1, <3>2, <3>4 DEF Post, TypeOK, store, Steps
  <2>12. CASE PostTwice(h)
    <3>1. lastId + 2 \in 0..MaxComments /\ faults + 1 \in 0..MaxFaults
      BY <2>12 DEF PostTwice, TypeOK
    <3>2. call[h].new \in Block /\ [call[h] EXCEPT !.id = lastId + 2] \in Call
      BY <3>1 DEF TypeOK, Call
    <3>3. call' = [call EXCEPT ![h] = [call[h] EXCEPT !.id = lastId + 2]]
      BY <2>12, Zenon DEF PostTwice
    <3>4. call' \in [Hosts -> Call]
      BY <3>2, <3>3 DEF TypeOK
    <3> QED BY <2>12, <3>1, <3>2, <3>4 DEF PostTwice, TypeOK, store, Steps
  <2>13. CASE Settle(h)
    <3> DEFINE later == {i \in Present : i # Earliest(Present)}
               own == call[h].id \in Present /\ call[h].id = Earliest(Present)
    <3>1. [call[h] EXCEPT !.rivals = later, !.first = own] \in Call
      <4>1. later \in SUBSET Ids /\ own \in BOOLEAN
        OBVIOUS
      <4>2. call[h] \in Call
        BY DEF TypeOK
      <4> HIDE DEF later, own
      <4> QED BY <4>1, <4>2 DEF Call
    <3>2. call' = [call EXCEPT ![h] = [call[h] EXCEPT !.rivals = later, !.first = own]]
      BY <2>13 DEF Settle, TypeOK
    <3>3. call' \in [Hosts -> Call]
      <4> HIDE DEF later, own
      <4> QED BY <3>1, <3>2 DEF TypeOK
    <3> QED BY <2>13, <3>3 DEF Settle, TypeOK, store, Steps
  <2>14. CASE Delete(h)
    <3>1. call[h].new.stamp \in 0..MaxStamp
      BY DEF TypeOK, Call, Block
    <3>2. CASE Raise(h) /\ UNCHANGED comments
      BY <2>14, <3>1, <3>2, RaiseType DEF Delete, TypeOK
    <3>3. CASE /\ comments' = [comments EXCEPT ![Earliest(call[h].rivals)] = None]
               /\ call' = [call EXCEPT ![h].rivals = @ \ {Earliest(call[h].rivals)}]
               /\ UNCHANGED <<pc, handle>>
      <4> DEFINE left == call[h].rivals \ {Earliest(call[h].rivals)}
      <4>1. [call[h] EXCEPT !.rivals = left] \in Call
        BY DEF TypeOK, Call
      <4>2. call' = [call EXCEPT ![h] = [call[h] EXCEPT !.rivals = left]]
        BY <3>3 DEF TypeOK
      <4>3. call' \in [Hosts -> Call]
        <5> HIDE DEF left
        <5> QED BY <4>1, <4>2 DEF TypeOK
      <4> QED BY <2>14, <3>3, <4>3 DEF Delete, TypeOK
    <3> QED BY <2>14, <3>2, <3>3 DEF Delete
  <2>15. CASE Arbitrate(h)
    <3>1. call[h].new \in Block /\ call[h].new.stamp \in 0..MaxStamp
          /\ call[h].id \in 0..MaxComments
      BY DEF TypeOK, Call, Block
    <3>2. CASE call[h].first
      BY <2>15, <3>1, <3>2 DEF Arbitrate, TypeOK, store, Steps
    <3>3. CASE ~call[h].first
      BY <2>15, <3>1, <3>3, RaiseType DEF Arbitrate, TypeOK, store
    <3> QED BY <3>2, <3>3
  <2>16. CASE Patch(h)
    BY <2>16 DEF Patch, TypeOK, store, Steps, Call
  <2>17. CASE Verify(h)
    <3>1. call[h].new \in Block
      BY DEF TypeOK, Call
    <3>2. CASE Raise(h)
      BY <2>17, <3>2, RaiseType DEF Verify, TypeOK, store
    <3>3. CASE ~Raise(h)
      BY <2>17, <3>1, <3>3, NoCallIsCall DEF Verify, TypeOK, store, Steps
    <3> QED BY <3>2, <3>3
  <2>18. CASE SyncLabels(h)
    <3>1. TargetLabels(call[h].new) \subseteq Labels
      BY DEF TargetLabels, PhaseLabel, Labels
    <3>2. CASE Return(h)
      BY <2>18, <3>2, ReturnType DEF SyncLabels, TypeOK, store
    <3>3. CASE ~Return(h)
      <4> DEFINE target == TargetLabels(call[h].new)
                 todo == (labels \ target) \cup (target \ labels)
      <4>1. [call[h] EXCEPT !.todo = todo] \in Call
        <5>1. todo \in SUBSET Labels /\ call[h] \in Call
          BY <3>1 DEF TypeOK
        <5> HIDE DEF todo
        <5> QED BY <5>1 DEF Call
      <4>2. call' = [call EXCEPT ![h] = [call[h] EXCEPT !.todo = todo]]
        BY <2>18, <3>3 DEF SyncLabels, TypeOK
      <4>3. call' \in [Hosts -> Call]
        <5> HIDE DEF todo
        <5> QED BY <4>1, <4>2 DEF TypeOK
      <4> QED BY <2>18, <3>3, <4>3 DEF SyncLabels, TypeOK, store, Steps
    <3> QED BY <3>2, <3>3
  <2>19. CASE LabelCall(h)
    <3>1. TargetLabels(call[h].new) \subseteq Labels
      BY DEF TargetLabels, PhaseLabel, Labels
    <3>2. labels' \subseteq Labels
      BY <2>19, <3>1 DEF LabelCall, TypeOK
    <3>3. /\ pc' \in [Hosts -> Steps] /\ call' \in [Hosts -> Call]
          /\ handle' \in [Hosts -> Block \cup {None}]
      <4>1. CASE Return(h) \/ Raise(h)
        BY <4>1, ReturnType, RaiseType
      <4>2. CASE ~(Return(h) \/ Raise(h))
        BY <2>19, <4>2 DEF LabelCall, TypeOK, Call
      <4> QED BY <4>1, <4>2
    <3> QED BY <2>19, <3>2, <3>3 DEF LabelCall, TypeOK, store
  <2>20. CASE Crash(h)
    BY <2>20, RaiseType DEF Crash, TypeOK, store
  <2>21. CASE ResponseLost(h)
    <3>1. call[h].new \in Block
      BY DEF TypeOK, Call
    <3> QED BY <2>21, <3>1, RaiseType DEF ResponseLost, TypeOK
  <2> QED
    BY <1>3, <2>1, <2>2, <2>3, <2>4, <2>5, <2>6, <2>7, <2>8, <2>9, <2>10, <2>11, <2>12,
       <2>13, <2>14, <2>15, <2>16, <2>17, <2>18, <2>19, <2>20, <2>21 DEF HostStep
<1> QED
  BY <1>1, <1>2, <1>3 DEF Next

\* Every reachable state is well typed.
THEOREM TypeCorrect == Spec => []TypeOK
BY InitType, NextType, PTL DEF Spec
----------------------------------------------------------------------------
(* The first comment.                                                      *)

LEMMA FirstIsEarliest ==
  ASSUME TypeOK, lastId >= 1, comments[1] # None
  PROVE  Present # {} /\ 1 \in Present /\ Earliest(Present) = 1
<1>1. 1 \in Present /\ Present \subseteq Ids /\ Ids \subseteq Nat
  BY BoundsAreNat DEF TypeOK, Present, Ids
<1>2. Earliest(Present) \in Present /\ Earliest(Present) <= 1
  BY <1>1, EarliestIsLeast, Zenon
<1>3. Earliest(Present) \in Ids
  BY <1>1, <1>2, Zenon
<1>4. \A i \in Ids : i <= 1 => i = 1
  BY BoundsAreNat DEF Ids
<1> QED
  BY <1>1, <1>2, <1>3, <1>4, Zenon

\* The steps of one host leave what concerns the others alone.
LEMMA FrameFirst ==
  ASSUME TypeOK, FirstCommentStays, NEW h \in Hosts,
         lastId' \in Nat, lastId' >= lastId, FirstKept', FirstRespected(h)',
         \A g \in Hosts \ {h} : pc'[g] = pc[g] /\ call'[g] = call[g]
  PROVE  FirstCommentStays'
<1>1. lastId \in Nat
  BY BoundsAreNat DEF TypeOK
<1>2. ASSUME NEW g \in Hosts \ {h} PROVE FirstRespected(g)'
  BY <1>1, <1>2 DEF FirstCommentStays, FirstRespected
<1> QED BY <1>2 DEF FirstCommentStays

\* A host whose call is not in one of the steps of a save owes nothing.
LEMMA QuietFirst ==
  ASSUME TypeOK, FirstCommentStays, NEW h \in Hosts,
         lastId' \in Nat, lastId' >= lastId, FirstKept',
         pc' \in [Hosts -> Steps],
         pc'[h] \notin {"write", "settle", "delete"},
         \A g \in Hosts \ {h} : pc'[g] = pc[g] /\ call'[g] = call[g]
  PROVE  FirstCommentStays'
BY FrameFirst DEF FirstRespected

LEMMA InitFirst == Init => FirstCommentStays
<1> SUFFICES ASSUME Init PROVE FirstCommentStays
  OBVIOUS
<1>1. Present = {} /\ lastId = 0 /\ created = {}
  BY DEF Init, Present
<1>2. \A h \in Hosts : pc[h] = "idle"
  BY DEF Init
<1> QED BY <1>1, <1>2 DEF FirstCommentStays, FirstKept, FirstRespected

LEMMA HostStepFirst ==
  ASSUME TypeOK, TypeOK', FirstCommentStays, NEW h \in Hosts, HostStep(h)
  PROVE  FirstCommentStays'
<1> USE BoundsAreNat
<1>n. lastId \in Nat /\ lastId' \in Nat /\ FirstKept
  BY DEF TypeOK, FirstCommentStays
<1>k. ASSUME UNCHANGED <<comments, lastId, created>> PROVE FirstKept'
  BY <1>n, <1>k DEF FirstKept, Present
<1>0. ASSUME UNCHANGED <<comments, lastId, created>>, Raise(h) \/ Return(h)
      PROVE  FirstCommentStays'
  BY <1>0, <1>n, <1>k, QuietFirst DEF Raise, Return, TypeOK
<1>1. ASSUME NEW kind, NEW expected, NEW block, Start(h, kind, expected, block)
      PROVE  FirstCommentStays'
  BY <1>1, <1>n, <1>k, QuietFirst DEF Start, store, TypeOK
<1>2. CASE \/ Claim(h) \/ Reject(h) \/ Heartbeat(h) \/ Abandon(h) \/ Reclaim(h)
           \/ \E phase \in Targets : Transition(h, phase)
           \/ \E lanes \in {"live", "stopped"} : Save(h, lanes)
  BY <1>2, <1>1 DEF Claim, Reject, Heartbeat, Abandon, Reclaim, Transition, Save
<1>3. CASE Adopt(h)
  BY <1>3, <1>n, <1>k DEF Adopt, store, FirstCommentStays, FirstRespected
<1>4. CASE RepairLabels(h)
  BY <1>4, <1>n, <1>k, QuietFirst DEF RepairLabels, store, TypeOK
<1>5. CASE Check(h)
  <2>1. CASE Raise(h)
    BY <1>5, <2>1, <1>0 DEF Check, store
  <2>2. CASE ~Raise(h)
    <3>1. /\ pc' = [pc EXCEPT ![h] = "write"]
          /\ IF call[h].expected = 0 THEN Present = {} ELSE Present # {}
          /\ UNCHANGED <<comments, lastId, created>>
          /\ call'[h].expected = call[h].expected
          /\ \A g \in Hosts \ {h} : call'[g] = call[g]
      BY <1>5, <2>2 DEF Check, store, TypeOK, Call
    <3>2. FirstRespected(h)'
      BY <3>1, <1>n DEF FirstKept, FirstRespected, TypeOK
    <3> QED BY <3>1, <3>2, <1>n, <1>k, FrameFirst DEF TypeOK
  <2> QED BY <2>1, <2>2
<1>6. CASE Post(h)
  <2>1. lastId' >= 1 /\ lastId' >= lastId /\ UNCHANGED created
    BY <1>6, <1>n DEF Post
  <2>2. call[h].new # None
    BY QueueAssumption DEF TypeOK, Call
  <2>3. comments'[1] # None
    BY <1>6, <1>n, <2>2 DEF Post, FirstKept, TypeOK, Ids
  <2> QED
    BY <1>6, <2>1, <2>3, <1>n, FrameFirst DEF Post, FirstKept, FirstRespected, TypeOK
<1>7. CASE PostTwice(h)
  <2>1. lastId' >= 1 /\ lastId' >= lastId /\ UNCHANGED created
    BY <1>7, <1>n DEF PostTwice
  <2>2. call[h].new # None
    BY QueueAssumption DEF TypeOK, Call
  <2>3. comments'[1] # None
    BY SMTT(20), <1>7, <1>n, <2>2 DEF PostTwice, FirstKept, TypeOK, Ids
  <2> QED
    BY <1>7, <2>1, <2>3, <1>n, FrameFirst DEF PostTwice, FirstKept, FirstRespected, TypeOK
<1>8. CASE Settle(h)
  <2>1. lastId >= 1 /\ comments[1] # None
    BY <1>8, <1>n DEF Settle, FirstCommentStays, FirstRespected, FirstKept
  <2>2. Earliest(Present) = 1
    BY <2>1, FirstIsEarliest
  <2>3. /\ pc' = [pc EXCEPT ![h] = "delete"]
        /\ 1 \notin call'[h].rivals
        /\ call'[h].first => call'[h].id = 1
        /\ UNCHANGED <<comments, lastId, created>>
        /\ \A g \in Hosts \ {h} : call'[g] = call[g]
    BY <1>8, <2>2 DEF Settle, store, TypeOK, Call
  <2> QED BY <2>1, <2>3, <1>n, <1>k, FrameFirst DEF FirstRespected, TypeOK
<1>9. CASE Delete(h)
  <2> DEFINE d == Earliest(call[h].rivals)
  <2>1. call[h].rivals # {} /\ call[h].rivals \subseteq Ids /\ Ids \subseteq Nat
    <3>1. call[h] \in Call
      BY DEF TypeOK
    <3>2. call[h].rivals \subseteq Ids
      BY <3>1 DEF Call
    <3> QED BY <1>9, <3>2 DEF Delete, Ids
  <2>2. lastId >= 1 /\ comments[1] # None /\ 1 \notin call[h].rivals
    BY <1>9, <1>n DEF Delete, FirstCommentStays, FirstRespected, FirstKept
  <2>3. d \in call[h].rivals
    BY <2>1, EarliestIsLeast, Zenon
  <2>4. d # 1 /\ d \in Ids
    BY <2>1, <2>2, <2>3
  <2>5. UNCHANGED <<lastId, created>> /\ (Raise(h) => UNCHANGED comments)
    BY <1>9, <2>4 DEF Delete, Raise, TypeOK
  <2>6. CASE Raise(h)
    BY <2>5, <2>6, <1>0
  <2>7. CASE ~Raise(h)
    <3>1. /\ comments' = [comments EXCEPT ![d] = None]
          /\ call' = [call EXCEPT ![h].rivals = @ \ {d}]
          /\ UNCHANGED pc
      BY <1>9, <2>7 DEF Delete
    <3>2. FirstKept'
      <4> HIDE DEF d
      <4> QED BY <3>1, <2>2, <2>4, <2>5, <1>n DEF FirstKept, TypeOK
    <3>3. FirstRespected(h)'
      <4> HIDE DEF d
      <4> QED BY <3>1, <2>2, <2>5, <1>9 DEF Delete, FirstRespected, FirstCommentStays, TypeOK, Call
    <3>4. \A g \in Hosts \ {h} : pc'[g] = pc[g] /\ call'[g] = call[g]
      BY <3>1 DEF TypeOK
    <3> QED BY <3>2, <3>3, <3>4, <2>5, <1>n, FrameFirst
  <2> QED BY <2>6, <2>7
<1>10. CASE Arbitrate(h)
  <2>1. CASE Raise(h) /\ UNCHANGED created
    BY <1>10, <2>1, <1>0 DEF Arbitrate, store
  <2>2. CASE ~(Raise(h) /\ UNCHANGED created)
    <3>1. /\ pc' = [pc EXCEPT ![h] = "sync"] /\ UNCHANGED <<comments, lastId, call>>
          /\ created' = created \cup {call[h].id} /\ call[h].first
      BY <1>10, <2>2 DEF Arbitrate, store
    <3>2. call[h].id = 1
      BY <1>10, <3>1 DEF Arbitrate, FirstCommentStays, FirstRespected
    <3>3. FirstKept'
      BY <3>1, <3>2, <1>n DEF FirstKept, Present
    <3> QED BY <3>1, <3>3, <1>n, QuietFirst DEF TypeOK
  <2> QED BY <2>1, <2>2
<1>11. CASE Patch(h)
  <2>1. lastId >= 1 /\ call[h].new # None
    BY <1>11, QueueAssumption DEF Patch, FirstCommentStays, FirstRespected, TypeOK, Call
  <2>2. FirstKept'
    BY <1>11, <2>1, <1>n DEF Patch, FirstKept, TypeOK
  <2> QED BY <1>11, <2>2, <1>n, QuietFirst DEF Patch, TypeOK
<1>12. CASE Verify(h)
  <2>1. CASE Raise(h)
    BY <1>12, <2>1, <1>0 DEF Verify, store
  <2>2. CASE ~Raise(h)
    <3>1. /\ UNCHANGED <<comments, lastId, created>>
          /\ pc'[h] \in {"sync", "idle"}
          /\ \A g \in Hosts \ {h} : pc'[g] = pc[g] /\ call'[g] = call[g]
      BY <1>12, <2>2 DEF Verify, store, TypeOK
    <3> QED BY <3>1, <1>n, <1>k, QuietFirst DEF TypeOK
  <2> QED BY <2>1, <2>2
<1>13. CASE SyncLabels(h)
  <2>1. CASE Return(h)
    BY <1>13, <2>1, <1>0 DEF SyncLabels, store
  <2>2. CASE ~Return(h)
    <3>1. /\ UNCHANGED <<comments, lastId, created>>
          /\ pc' = [pc EXCEPT ![h] = "label"]
          /\ \A g \in Hosts \ {h} : call'[g] = call[g]
      BY <1>13, <2>2 DEF SyncLabels, store, TypeOK
    <3> QED BY <3>1, <1>n, <1>k, QuietFirst DEF TypeOK
  <2> QED BY <2>1, <2>2
<1>14. CASE LabelCall(h)
  <2>1. CASE Return(h) \/ Raise(h)
    BY <1>14, <2>1, <1>0 DEF LabelCall, store
  <2>2. CASE ~(Return(h) \/ Raise(h))
    <3>1. /\ UNCHANGED <<comments, lastId, created, pc>> /\ pc[h] = "label"
          /\ \A g \in Hosts \ {h} : call'[g] = call[g]
      BY <1>14, <2>2 DEF LabelCall, store, TypeOK
    <3> QED BY <3>1, <1>n, <1>k, QuietFirst DEF TypeOK
  <2> QED BY <2>1, <2>2
<1>15. CASE Crash(h)
  BY <1>15, <1>0 DEF Crash, store
<1>16. CASE ResponseLost(h)
  <2>1. /\ lastId' >= 1 /\ lastId' >= lastId /\ UNCHANGED created
        /\ call[h].new # None /\ Raise(h)
    BY <1>16, <1>n, QueueAssumption
    DEF ResponseLost, FirstCommentStays, FirstRespected, TypeOK, Call
  <2>2. FirstKept'
    <3>1. CASE UNCHANGED lastId /\ comments' = [comments EXCEPT ![call[h].id] = call[h].new]
      BY <2>1, <3>1, <1>n DEF FirstKept, TypeOK, Ids
    <3>2. CASE /\ lastId' = lastId + 1
               /\ comments' = [comments EXCEPT ![lastId + 1] = call[h].new]
      BY <2>1, <3>2, <1>n DEF FirstKept, TypeOK, Ids
    <3> QED BY <1>16, <3>1, <3>2 DEF ResponseLost
  <2> QED BY <2>1, <2>2, <1>n, QuietFirst DEF Raise, TypeOK
<1> QED
  BY <1>2, <1>3, <1>4, <1>5, <1>6, <1>7, <1>8, <1>9, <1>10, <1>11, <1>12, <1>13, <1>14,
     <1>15, <1>16 DEF HostStep

LEMMA NextFirst ==
  TypeOK /\ TypeOK' /\ FirstCommentStays /\ [Next]_vars => FirstCommentStays'
<1> SUFFICES ASSUME TypeOK, TypeOK', FirstCommentStays, [Next]_vars
             PROVE  FirstCommentStays'
  OBVIOUS
<1>1. CASE UNCHANGED vars
  BY <1>1 DEF vars, FirstCommentStays, FirstKept, FirstRespected, Present
<1>2. CASE Tick
  BY <1>2 DEF Tick, store, FirstCommentStays, FirstKept, FirstRespected, Present
<1>3. CASE \E h \in Hosts : HostStep(h)
  BY <1>3, HostStepFirst
<1> QED BY <1>1, <1>2, <1>3 DEF Next

\* The first comment is kept and respected by every host, always.
THEOREM FirstStays == Spec => []FirstCommentStays
BY InitFirst, NextFirst, TypeCorrect, PTL DEF Spec

\* At most one create-only save of a first comment ever returns, with any
\* number of hosts, whatever they post and delete at once.
THEOREM ClaimWinner == Spec => []AtMostOneClaimWinner
<1>1. FirstCommentStays => AtMostOneClaimWinner
  BY DEF FirstCommentStays, FirstKept, AtMostOneClaimWinner
<1>2. QED
  BY <1>1, FirstStays, PTL
----------------------------------------------------------------------------
(* Calls that do not overlap.  What the four guarantees of the queue rest  *)
(* on, when every call sees the effect of the one before: a host that      *)
(* holds a claim either holds the authoritative state itself, or one whose *)
(* lease ran out before another host wrote; and a call about to write has  *)
(* compared the version of that very state.                                *)

Ended == Terminal \cup {"queued"}
Waiting(h) == pc[h] \in {"idle", "check", "write"}
Released == {"needs_human", "done", "error"}

\* One call at a time.
OneCall == \A g, h \in Hosts : ~Idle(g) /\ ~Idle(h) => g = h

\* The authoritative state has a version, and one that was handed out.
Versioned == Authoritative # None => Authoritative.stamp \in 1..stamps

\* A claim a host holds is the authoritative state, or was overtaken by
\* another host after its lease ran out.
HandleHeld(h) ==
  handle[h] # None /\ Waiting(h) =>
    /\ Authoritative # None
    /\ handle[h].owner = h /\ handle[h].phase \notin Ended /\ handle[h].stamp >= 1
    /\ \/ handle[h] = Authoritative
       \/ /\ handle[h].stamp < Authoritative.stamp
          /\ Authoritative.owner # h /\ Stale(handle[h])

\* What a call may replace an authoritative state a by: the owner goes on,
\* the owner drains it, or a host takes over what is queued or stale.
Continues(h, kind, a, b) ==
  /\ a.owner = h /\ a.phase \notin Ended
  /\ b.owner = h /\ b.claimed = a.claimed
  /\ kind \in {"transition", "heartbeat", "save"}
  /\ kind \in {"heartbeat", "save"} => b.phase = a.phase /\ b.phase \notin Ended
Drains(h, kind, a, b) ==
  /\ a.owner = h /\ a.phase \notin Ended /\ a.lanes = "stopped"
  /\ b = [a EXCEPT !.stamp = b.stamp, !.phase = "queued", !.owner = None,
                   !.claimed = 0, !.expires = 0]
  /\ kind = "transition"
TakesOver(h, kind, a, b) ==
  /\ \/ a.phase = "queued" /\ b.phase = "claiming"
     \/ a.phase \notin Ended /\ Stale(a) /\ b.phase = a.phase
  /\ b.owner = h /\ b.claimed = b.stamp /\ b.lanes = a.lanes
  /\ kind \in {"claim", "reclaim"}
Creates(h, b) ==
  \/ b.owner = h /\ b.phase = "claiming"
  \/ b.owner = None /\ b.phase = "escalated"
Replaces(h, kind, a, b) ==
  Continues(h, kind, a, b) \/ Drains(h, kind, a, b) \/ TakesOver(h, kind, a, b)

\* A call that has not written yet would, if its precondition holds, create
\* the record or replace it in one of these ways.
CallSound(h) ==
  pc[h] \in {"check", "write"} =>
    /\ call[h].new.stamp = stamps /\ stamps >= 1
    /\ Authoritative # None => Authoritative.stamp < stamps
    /\ call[h].expected = 0 => Authoritative = None /\ Creates(h, call[h].new)
    /\ (call[h].expected # 0 /\ Authoritative # None
         /\ Authoritative.stamp = call[h].expected)
         => Replaces(h, call[h].kind, Authoritative, call[h].new)
    /\ pc[h] = "write" /\ call[h].expected # 0 =>
         /\ Authoritative # None /\ Authoritative.stamp = call[h].expected
         /\ call[h].id = 1

\* A call that has written, or found, its state works on the authoritative
\* one until it returns.
CallWrote(h) ==
  ~Waiting(h) =>
    /\ Authoritative = call[h].new
    /\ \/ Authoritative.owner = h
       \/ Authoritative.owner = None /\ Authoritative.phase \in Ended
       \/ /\ call[h].kind = "repair" /\ pc[h] \in {"sync", "label"}
          /\ Authoritative.phase \in Ended /\ handle[h] = None
    /\ pc[h] \in {"sync", "label"} => handle[h] \in {None, Authoritative}
    /\ pc[h] = "verify" =>
         /\ call[h].id = 1
         /\ call[h].kind \in {"claim", "transition", "reclaim", "heartbeat", "save"}
         /\ call[h].kind \in {"heartbeat", "save"} => Authoritative.phase \notin Ended

\* No label announces a release, but of a terminal run with no live lane.
Releasable(b) == b # None /\ b.phase \in Terminal /\ b.lanes # "live"
ReleaseHeld == Releasable(Authoritative) \/ labels \cap Released = {}

\* A host changing labels has exactly the differences left to do.
LabelsTodo(h) ==
  pc[h] = "label" =>
    /\ call[h].todo # {}
    /\ call[h].todo = (labels \ TargetLabels(call[h].new))
                        \cup (TargetLabels(call[h].new) \ labels)

\* Without faults a create posts one comment and returns.
OnlyComment(h) ==
  faults = 0 =>
    /\ pc[h] = "settle" => Present = {1} /\ call[h].id = 1
    /\ pc[h] = "delete" => call[h].rivals = {} /\ call[h].first

\* Without faults the labels agree unless a host is about to change them.
Labelled(h) == Waiting(h) \/ (pc[h] = "verify" /\ call[h].kind \in {"heartbeat", "save"})
LabelsHeld ==
  (faults = 0 /\ Authoritative # None /\ \A h \in Hosts : Labelled(h))
    => labels = TargetLabels(Authoritative)

HostSound(h) ==
  /\ HandleHeld(h) /\ CallSound(h) /\ CallWrote(h) /\ LabelsTodo(h) /\ OnlyComment(h)
Serial ==
  /\ ~Overlap
  /\ OneCall /\ Versioned /\ ReleaseHeld /\ LabelsHeld
  /\ \A h \in Hosts : HostSound(h)

\* What load_state reads: the first comment, once there is one.
ReadsFirst ==
  /\ lastId \in Nat
  /\ lastId >= 1 => /\ Present # {} /\ Earliest(Present) = 1 /\ 1 \in Ids
                    /\ Authoritative = comments[1] /\ Authoritative \in Block
                    /\ Authoritative # None
  /\ lastId = 0 => Present = {} /\ Authoritative = None

LEMMA FirstIsRead == TypeOK /\ FirstCommentStays => ReadsFirst
<1> SUFFICES ASSUME TypeOK, FirstCommentStays PROVE ReadsFirst
  OBVIOUS
<1>1. lastId \in Nat
  BY BoundsAreNat DEF TypeOK
<1>2. ASSUME lastId >= 1
      PROVE  /\ Present # {} /\ Earliest(Present) = 1 /\ 1 \in Ids
             /\ Authoritative = comments[1] /\ Authoritative \in Block
             /\ Authoritative # None
  <2>1. comments[1] # None
    BY <1>2 DEF FirstCommentStays, FirstKept
  <2>2. Present # {} /\ 1 \in Present /\ Earliest(Present) = 1
    BY <1>2, <2>1, FirstIsEarliest
  <2>3. 1 \in Ids
    BY <2>2 DEF Present
  <2>4. Authoritative = comments[1]
    BY <2>2 DEF Authoritative
  <2> QED BY <2>1, <2>2, <2>3, <2>4 DEF TypeOK
<1>3. ASSUME lastId = 0 PROVE Present = {} /\ Authoritative = None
  BY <1>3, <1>1 DEF FirstCommentStays, FirstKept, Authoritative
<1> QED BY <1>1, <1>2, <1>3 DEF ReadsFirst

LEMMA FirstIsReadAfter ==
  ASSUME (TypeOK /\ FirstCommentStays)' PROVE ReadsFirst'
BY FirstIsRead, PTL

LEMMA InitSerial == ~Overlap /\ Init => Serial
<1> SUFFICES ASSUME ~Overlap, Init PROVE Serial
  OBVIOUS
<1>1. Present = {} /\ Authoritative = None
  BY DEF Init, Present, Authoritative
<1>2. /\ \A h \in Hosts : pc[h] = "idle" /\ handle[h] = None
      /\ labels = {"enabled"}
  BY DEF Init
<1> QED
  BY <1>1, <1>2 DEF Serial, OneCall, Versioned, ReleaseHeld, LabelsHeld, HostSound, Idle,
     Waiting, HandleHeld, CallSound, CallWrote, LabelsTodo, OnlyComment, Released

\* Only one host is in a call: the others are idle when a host takes a step,
\* unless it dies.
LEMMA OthersIdle ==
  ASSUME TypeOK, Serial, NEW h \in Hosts, HostStep(h), ~Crash(h)
  PROVE  \A g \in Hosts \ {h} : Idle(g)
<1>1. CASE ~Idle(h)
  BY <1>1 DEF Serial, OneCall
<1>2. CASE Alone(h)
  BY <1>2 DEF Alone, Serial
<1>3. ASSUME NEW kind, NEW expected, NEW block, Start(h, kind, expected, block)
      PROVE  Alone(h)
  BY <1>3 DEF Start
<1>4. CASE Idle(h) /\ ~Alone(h)
  <2>1. \/ Claim(h) \/ Reject(h) \/ Heartbeat(h) \/ Abandon(h) \/ Reclaim(h)
        \/ Adopt(h) \/ RepairLabels(h)
        \/ \E phase \in Targets : Transition(h, phase)
        \/ \E lanes \in {"live", "stopped"} : Save(h, lanes)
    BY <1>4 DEF HostStep, Idle, Check, Post, PostTwice, Settle, Delete, Arbitrate, Patch,
       Verify, SyncLabels, LabelCall, ResponseLost
  <2> QED
    BY <1>4, <2>1, <1>3 DEF Claim, Reject, Heartbeat, Abandon, Reclaim, Adopt, RepairLabels,
       Transition, Save
<1> QED BY <1>1, <1>2, <1>4

\* What a step of h leaves alone, when the others are idle: it is enough to
\* look at the record, the labels, h itself and the claims the others hold.
LEMMA FrameSerial ==
  ASSUME TypeOK, Serial, NEW h \in Hosts, \A g \in Hosts \ {h} : Idle(g),
         \A g \in Hosts \ {h} :
           pc'[g] = pc[g] /\ call'[g] = call[g] /\ handle'[g] = handle[g],
         Versioned', ReleaseHeld', LabelsHeld', HostSound(h)',
         \A g \in Hosts \ {h} : HandleHeld(g)'
  PROVE  Serial'
<1>1. ASSUME NEW g \in Hosts \ {h} PROVE HostSound(g)' /\ Idle(g)'
  BY <1>1 DEF HostSound, Idle, CallSound, CallWrote, LabelsTodo, OnlyComment, Waiting
<1>2. OneCall'
  BY <1>1 DEF OneCall
<1> QED BY <1>1, <1>2 DEF Serial

\* A step that does not change the record.
LEMMA ReadSerial ==
  ASSUME TypeOK, Serial, NEW h \in Hosts, \A g \in Hosts \ {h} : Idle(g),
         \A g \in Hosts \ {h} :
           pc'[g] = pc[g] /\ call'[g] = call[g] /\ handle'[g] = handle[g],
         Authoritative' = Authoritative, clock' = clock,
         stamps' \in Nat, stamps' >= stamps,
         ReleaseHeld', LabelsHeld', HostSound(h)'
  PROVE  Serial'
<1>2. Versioned'
  BY BoundsAreNat DEF Serial, Versioned, TypeOK
<1>3. ASSUME NEW g \in Hosts \ {h} PROVE HandleHeld(g)'
  BY <1>3 DEF Serial, HostSound, HandleHeld, Waiting, Stale
<1> QED BY <1>2, <1>3, FrameSerial

\* A write that replaces the record in one of the ways of Replaces, or
\* creates it.
LEMMA WriteSerial ==
  ASSUME TypeOK, Serial, NEW h \in Hosts, \A g \in Hosts \ {h} : Idle(g),
         \A g \in Hosts \ {h} :
           pc'[g] = pc[g] /\ call'[g] = call[g] /\ handle'[g] = handle[g],
         pc[h] = "write", Authoritative' = call[h].new, UNCHANGED <<clock, stamps, labels>>,
         stamps >= 1,
         LabelsHeld', HostSound(h)'
  PROVE  Serial'
<1> DEFINE a == Authoritative
           b == call[h].new
<1>t. /\ b \in Block /\ b # None /\ stamps \in Nat
      /\ a \in Block \cup {None}
      /\ \A g \in Hosts : handle[g] \in Block \cup {None}
  BY BoundsAreNat, AuthoritativeIsBlock, QueueAssumption DEF TypeOK, Call
<1>w. CallSound(h)
  BY DEF Serial, HostSound
<1>s. b.stamp = stamps /\ (a # None => a.stamp < stamps)
  BY <1>w DEF CallSound
<1>r. \/ a = None /\ Creates(h, b)
      \/ a # None /\ Replaces(h, call[h].kind, a, b)
  BY <1>w DEF CallSound
<1>1. Versioned'
  BY <1>t, <1>s DEF Versioned
<1>2. ReleaseHeld'
  <2>1. CASE a = None \/ (a # None /\ a.phase \notin Terminal)
    BY <2>1 DEF Serial, ReleaseHeld, Releasable
  <2>2. a = None \/ a.phase \notin Terminal
    BY <1>r DEF Replaces, Continues, Drains, TakesOver, Ended, Terminal
  <2> QED BY <2>1, <2>2
<1>3. ASSUME NEW g \in Hosts \ {h} PROVE HandleHeld(g)'
  <2> SUFFICES ASSUME handle[g] # None
               PROVE  HandleHeld(g)'
    BY DEF HandleHeld
  <2>1. /\ a # None /\ handle[g].owner = g /\ handle[g].phase \notin Ended
        /\ handle[g].stamp >= 1
        /\ handle[g] = a \/ (handle[g].stamp < a.stamp /\ a.owner # g /\ Stale(handle[g]))
    BY DEF Serial, HostSound, HandleHeld, Idle, Waiting
  <2>2. Replaces(h, call[h].kind, a, b)
    BY <2>1, <1>r
  <2>3. b.owner \in {h, None} /\ g # None
    <3>1. CASE Drains(h, call[h].kind, a, b)
      <4>1. a \in Block
        BY <1>t, <2>1
      <4>2. [a EXCEPT !.stamp = b.stamp, !.phase = "queued", !.owner = None,
                      !.claimed = 0, !.expires = 0].owner = None
        BY <4>1 DEF Block
      <4> QED BY <3>1, <4>2, QueueAssumption DEF Drains
    <3> QED BY <3>1, <2>2, QueueAssumption DEF Replaces, Continues, TakesOver
  <2>4. handle[g] = a => Stale(handle[g])
    BY <2>1, <2>2 DEF Replaces, Continues, Drains, TakesOver, Ended
  <2>5. handle[g].stamp < b.stamp
    <3>1. handle[g].stamp \in Nat /\ a.stamp \in Nat
      BY <1>t, <2>1, BoundsAreNat DEF Block
    <3> QED BY <3>1, <1>t, <1>s, <2>1
  <2>6. Stale(handle[g])' = Stale(handle[g])
    BY DEF Stale
  <2> QED BY <1>t, <2>1, <2>3, <2>4, <2>5, <2>6 DEF HandleHeld
<1> QED BY <1>1, <1>2, <1>3, FrameSerial

LEMMA StartSerial ==
  ASSUME TypeOK, TypeOK', Serial, NEW h \in Hosts, \A g \in Hosts \ {h} : Idle(g),
         NEW kind \in Kinds, NEW expected \in 0..MaxStamp, NEW block \in Block,
         Start(h, kind, expected, block),
         expected = 0 => Authoritative = None /\ Creates(h, block),
         (expected # 0 /\ Authoritative # None /\ Authoritative.stamp = expected)
           => Replaces(h, kind, Authoritative, [block EXCEPT !.stamp = stamps + 1])
  PROVE  Serial'
<1> DEFINE new == [block EXCEPT !.stamp = stamps + 1]
<1>1. /\ pc[h] = "idle" /\ pc' = [pc EXCEPT ![h] = "check"] /\ stamps' = stamps + 1
      /\ stamps \in Nat /\ stamps' \in Nat
      /\ UNCHANGED <<comments, lastId, labels, clock, faults, handle, created>>
  BY BoundsAreNat DEF Start, Idle, store, TypeOK
<1>2. /\ call'[h].kind = kind /\ call'[h].expected = expected /\ call'[h].new = new
      /\ \A g \in Hosts \ {h} : call'[g] = call[g]
  <2> DEFINE c == [NoCall EXCEPT !.kind = kind, !.expected = expected, !.new = new]
  <2>1. call' = [call EXCEPT ![h] = c]
    BY DEF Start
  <2>2. c.kind = kind /\ c.expected = expected /\ c.new = new
    BY DEF NoCall
  <2> HIDE DEF c
  <2> QED BY <2>1, <2>2 DEF TypeOK
<1>3. new.stamp = stamps + 1 /\ new.owner = block.owner /\ new.phase = block.phase
  BY DEF Block
<1> HIDE DEF new
<1>4. Authoritative' = Authoritative
  BY <1>1 DEF Authoritative, Present, Earliest
<1>5. pc'[h] = "check" /\ \A g \in Hosts \ {h} : pc'[g] = pc[g]
  BY <1>1 DEF TypeOK
<1>6. \A b, k : Replaces(h, k, Authoritative, b)' <=> Replaces(h, k, Authoritative, b)
  BY <1>1, <1>4 DEF Replaces, Continues, Drains, TakesOver, Stale
<1>7. CallSound(h)'
  <2>1. Authoritative # None => Authoritative.stamp < stamps + 1
    BY <1>1 DEF Serial, Versioned
  <2>2. expected = 0 => Creates(h, new)
    BY <1>3 DEF Creates
  <2>3. (expected # 0 /\ Authoritative # None /\ Authoritative.stamp = expected)
           => Replaces(h, kind, Authoritative, new)
    BY DEF new
  <2> QED BY <1>1, <1>2, <1>3, <1>4, <1>5, <1>6, <2>1, <2>2, <2>3 DEF CallSound
<1>8. HandleHeld(h)'
  BY <1>1, <1>4, <1>5 DEF Serial, HostSound, HandleHeld, Waiting, Stale
<1>9. CallWrote(h)' /\ LabelsTodo(h)' /\ OnlyComment(h)'
  BY <1>5 DEF CallWrote, Waiting, LabelsTodo, OnlyComment
<1>10. LabelsHeld'
  BY <1>1, <1>4 DEF Serial, LabelsHeld, Labelled, Waiting, Idle
<1>11. ReleaseHeld'
  BY <1>1, <1>4 DEF Serial, ReleaseHeld
<1> QED
  BY <1>1, <1>2, <1>4, <1>5, <1>7, <1>8, <1>9, <1>10, <1>11, ReadSerial DEF HostSound

\* A host that is idle again holds nothing it may not hold.
LEMMA IdleSound ==
  ASSUME NEW h \in Hosts, (pc[h])' = "idle", HandleHeld(h)'
  PROVE  HostSound(h)'
BY DEF HostSound, CallSound, CallWrote, Waiting, LabelsTodo, OnlyComment

\* A call that raises leaves its host without a claim.
LEMMA RaiseSound ==
  ASSUME TypeOK, NEW h \in Hosts, Raise(h)
  PROVE  /\ HostSound(h)' /\ pc'[h] = "idle"
         /\ \A g \in Hosts \ {h} :
              pc'[g] = pc[g] /\ call'[g] = call[g] /\ handle'[g] = handle[g]
<1>1. /\ pc'[h] = "idle" /\ handle'[h] = None
      /\ \A g \in Hosts \ {h} :
           pc'[g] = pc[g] /\ call'[g] = call[g] /\ handle'[g] = handle[g]
  BY DEF Raise, TypeOK
<1> QED BY <1>1, IdleSound DEF HandleHeld

LEMMA BeginSerial ==
  ASSUME TypeOK, TypeOK', Serial, NEW h \in Hosts, \A g \in Hosts \ {h} : Idle(g),
         \/ Claim(h) \/ Reject(h) \/ Heartbeat(h) \/ Abandon(h) \/ Reclaim(h)
         \/ \E phase \in Targets : Transition(h, phase)
         \/ \E lanes \in {"live", "stopped"} : Save(h, lanes)
  PROVE  Serial'
<1> DEFINE a == Authoritative
           stamped(b) == [b EXCEPT !.stamp = stamps + 1]
<1>t. /\ stamps \in Nat /\ a \in Block \cup {None} /\ handle[h] \in Block \cup {None}
      /\ None \notin Block /\ None \notin Hosts /\ 0 \in 0..MaxStamp
      /\ clock + Lease \in 0..(MaxClock + Lease)
  BY BoundsAreNat, AuthoritativeIsBlock, QueueAssumption DEF TypeOK
<1>v. /\ a # None => a.stamp \in 0..MaxStamp /\ a.stamp # 0
      /\ handle[h] # None => handle[h].stamp \in 0..MaxStamp
  BY <1>t DEF Serial, Versioned, Block
<1>i. ASSUME NEW kind, NEW expected, NEW block, Start(h, kind, expected, block)
      PROVE  Idle(h) /\ stamps < MaxStamp
  BY <1>i DEF Start
<1>h. ASSUME handle[h] # None, Idle(h)
      PROVE  /\ a # None /\ a \in Block /\ handle[h] \in Block
             /\ handle[h].owner = h /\ handle[h].phase \notin Ended /\ handle[h].stamp >= 1
             /\ \/ handle[h] = a
                \/ handle[h].stamp # a.stamp /\ a.owner # h
  <2>1. /\ a # None /\ handle[h].owner = h /\ handle[h].phase \notin Ended
        /\ handle[h].stamp >= 1
        /\ handle[h] = a \/ (handle[h].stamp < a.stamp /\ a.owner # h)
    BY <1>h DEF Serial, HostSound, HandleHeld, Waiting, Idle
  <2>2. handle[h].stamp \in Nat
    BY <1>t, <1>h, BoundsAreNat DEF Block
  <2>3. handle[h].stamp < a.stamp => handle[h].stamp # a.stamp
    BY <2>2
  <2> QED BY <2>1, <2>3, <1>t, <1>h
<1>1. CASE Claim(h)
  <2>1. CASE a = None /\ Start(h, "claim", 0, Claimed([NoBlock EXCEPT !.phase = "claiming"], h))
    <3> DEFINE b == Claimed([NoBlock EXCEPT !.phase = "claiming"], h)
    <3>1. [NoBlock EXCEPT !.phase = "claiming"] \in Block
      BY BoundsAreNat DEF NoBlock, Block, Phases
    <3>2. b \in Block /\ stamps < MaxStamp
      BY <2>1, <1>i, <3>1, ClaimedType
    <3>3. Creates(h, b)
      BY DEF Creates, Claimed, NoBlock
    <3>4. Start(h, "claim", 0, b)
      BY <2>1
    <3> HIDE DEF b
    <3> QED BY <3>2, <3>3, <3>4, <2>1, <1>t, StartSerial DEF Kinds
  <2>2. CASE /\ a # None /\ a.phase = "queued"
             /\ Start(h, "claim", a.stamp, Claimed([a EXCEPT !.phase = "claiming"], h))
    <3> DEFINE c == [a EXCEPT !.phase = "claiming"]
               b == Claimed(c, h)
    <3>1. c \in Block /\ c.lanes = a.lanes /\ c.phase = "claiming"
      BY <2>2, <1>t DEF Block, Phases
    <3>2. b \in Block
      <4> HIDE DEF c
      <4> QED BY <3>1, <2>2, <1>i, ClaimedType
    <3>3. /\ stamped(b).owner = h /\ stamped(b).claimed = stamped(b).stamp
          /\ stamped(b).phase = "claiming" /\ stamped(b).lanes = a.lanes
      <4> HIDE DEF c
      <4> QED BY <3>1 DEF Claimed, Block
    <3>4. Replaces(h, "claim", a, stamped(b))
      <4> HIDE DEF b
      <4> QED BY <3>3, <2>2 DEF Replaces, TakesOver
    <3>5. Start(h, "claim", a.stamp, b)
      BY <2>2
    <3> HIDE DEF b
    <3> QED BY <3>2, <3>4, <3>5, <2>2, <1>v, StartSerial DEF Kinds
  <2> QED BY <1>1, <2>1, <2>2 DEF Claim
<1>2. CASE Reject(h)
  <2> DEFINE b == [NoBlock EXCEPT !.phase = "escalated"]
  <2>1. b \in Block /\ Creates(h, b)
    BY BoundsAreNat DEF NoBlock, Block, Phases, Terminal, Creates
  <2>2. Start(h, "reject", 0, b) /\ a = None
    BY <1>2 DEF Reject
  <2> HIDE DEF b
  <2> QED BY <2>1, <2>2, <1>t, StartSerial DEF Kinds
<1>3. CASE Heartbeat(h)
  <2> DEFINE b == [handle[h] EXCEPT !.expires = clock + Lease]
  <2>1. handle[h] # None /\ Start(h, "heartbeat", handle[h].stamp, b)
    BY <1>3 DEF Heartbeat
  <2>2. handle[h] \in Block /\ handle[h].stamp \in 0..MaxStamp
    BY <2>1, <1>t, <1>v
  <2>3. /\ b \in Block /\ stamped(b).owner = handle[h].owner
        /\ stamped(b).claimed = handle[h].claimed /\ stamped(b).phase = handle[h].phase
    BY <2>2, <1>t DEF Block
  <2>4. handle[h].stamp = a.stamp => Replaces(h, "heartbeat", a, stamped(b))
    <3> HIDE DEF b
    <3> QED BY <2>1, <2>3, <1>i, <1>h DEF Replaces, Continues
  <2>5. handle[h].stamp # 0
    BY <2>1, <1>i, <1>h
  <2> HIDE DEF b
  <2> QED BY <2>1, <2>2, <2>3, <2>4, <2>5, StartSerial DEF Kinds
<1>4. CASE Abandon(h)
  <2> DEFINE b == [handle[h] EXCEPT !.phase = "queued", !.owner = None, !.claimed = 0,
                                    !.expires = 0]
  <2>1. /\ handle[h] # None /\ Start(h, "transition", handle[h].stamp, b)
        /\ handle[h] = a /\ a.owner = h /\ a.lanes = "stopped"
    BY <1>4 DEF Abandon
  <2>2. a \in Block /\ a.stamp \in 0..MaxStamp /\ a.stamp # 0
    BY <2>1, <1>t, <1>v
  <2>3. b \in Block
    <3>1. 0 \in 0..MaxStamp /\ 0 \in 0..(MaxClock + Lease) /\ "queued" \in Phases
      BY BoundsAreNat DEF Phases
    <3> QED BY <2>1, <2>2, <3>1 DEF Block
  <2>4. stamped(b) = [a EXCEPT !.stamp = stamped(b).stamp, !.phase = "queued",
                               !.owner = None, !.claimed = 0, !.expires = 0]
    BY <2>1, <2>2 DEF Block
  <2>5. Replaces(h, "transition", a, stamped(b))
    <3> HIDE DEF b
    <3> QED BY <2>1, <2>4, <1>i, <1>h DEF Replaces, Drains
  <2> HIDE DEF b
  <2> QED BY <2>1, <2>2, <2>3, <2>5, StartSerial DEF Kinds
<1>5. CASE Reclaim(h)
  <2> DEFINE b == Claimed(a, h)
  <2>1. /\ a # None /\ a.phase \notin Ended /\ Stale(a)
        /\ Start(h, "reclaim", a.stamp, b)
    BY <1>5 DEF Reclaim, Ended
  <2>2. b \in Block
    BY <2>1, <1>t, <1>i, ClaimedType
  <2>3. /\ stamped(b).owner = h /\ stamped(b).claimed = stamped(b).stamp
        /\ stamped(b).phase = a.phase /\ stamped(b).lanes = a.lanes
    <3>1. a \in Block
      BY <2>1, <1>t
    <3> HIDE DEF a
    <3> QED BY <3>1 DEF Claimed, Block
  <2>4. Replaces(h, "reclaim", a, stamped(b))
    <3> HIDE DEF b
    <3> QED BY <2>1, <2>3 DEF Replaces, TakesOver
  <2> HIDE DEF b
  <2> QED BY <2>1, <2>2, <2>4, <1>v, StartSerial DEF Kinds
<1>6. ASSUME NEW phase \in Targets, Transition(h, phase) PROVE Serial'
  <2> DEFINE b == [handle[h] EXCEPT !.phase = phase]
  <2>1. handle[h] # None /\ Start(h, "transition", handle[h].stamp, b)
    BY <1>6 DEF Transition
  <2>2. handle[h] \in Block /\ handle[h].stamp \in 0..MaxStamp /\ phase \in Phases
    BY <2>1, <1>t, <1>v, QueueAssumption
  <2>3. /\ b \in Block /\ stamped(b).owner = handle[h].owner
        /\ stamped(b).claimed = handle[h].claimed
    BY <2>2 DEF Block
  <2>4. handle[h].stamp = a.stamp => Replaces(h, "transition", a, stamped(b))
    <3> HIDE DEF b
    <3> QED BY <2>1, <2>3, <1>i, <1>h DEF Replaces, Continues
  <2>5. handle[h].stamp # 0
    BY <2>1, <1>i, <1>h
  <2> HIDE DEF b
  <2> QED BY <2>1, <2>2, <2>3, <2>4, <2>5, StartSerial DEF Kinds
<1>7. ASSUME NEW lanes \in {"live", "stopped"}, Save(h, lanes) PROVE Serial'
  <2> DEFINE b == [a EXCEPT !.lanes = lanes]
  <2>1. /\ handle[h] # None /\ a # None /\ SameClaim(a, handle[h])
        /\ Start(h, "save", a.stamp, b)
    BY <1>7 DEF Save
  <2>2. a = handle[h] /\ a.owner = h /\ a.phase \notin Ended
    BY <2>1, <1>i, <1>h DEF SameClaim
  <2>3. /\ b \in Block /\ stamped(b).owner = a.owner
        /\ stamped(b).claimed = a.claimed /\ stamped(b).phase = a.phase
    BY <2>1, <1>t DEF Block
  <2>4. Replaces(h, "save", a, stamped(b))
    <3> HIDE DEF b
    <3> QED BY <2>2, <2>3 DEF Replaces, Continues
  <2> HIDE DEF b
  <2> QED BY <2>1, <2>3, <2>4, <1>v, StartSerial DEF Kinds
<1> QED BY <1>1, <1>2, <1>3, <1>4, <1>5, <1>6, <1>7

LEMMA LookupSerial ==
  ASSUME TypeOK, TypeOK', Serial, ReadsFirst, NEW h \in Hosts,
         \A g \in Hosts \ {h} : Idle(g),
         Adopt(h) \/ RepairLabels(h) \/ Check(h) \/ Settle(h)
  PROVE  Serial'
<1> DEFINE a == Authoritative
<1>t. a \in Block \cup {None} /\ None \notin Block /\ stamps \in Nat /\ HostSound(h)
  BY BoundsAreNat, AuthoritativeIsBlock, QueueAssumption DEF TypeOK, Serial
<1>0. /\ UNCHANGED <<comments, lastId, labels, clock, stamps, faults, created>>
      /\ stamps' \in Nat /\ stamps' >= stamps
  BY <1>t DEF Adopt, RepairLabels, Check, Settle, store
<1>a. Authoritative' = a /\ Present' = Present
  BY <1>0 DEF Authoritative, Present, Earliest
<1>r. ReleaseHeld'
  BY <1>0, <1>a DEF Serial, ReleaseHeld
<1>l. Waiting(h) => LabelsHeld'
  BY <1>0, <1>a DEF Serial, LabelsHeld, Labelled, Waiting, Idle
<1>1. CASE Adopt(h)
  <2>1. /\ pc'[h] = "idle" /\ handle'[h] = a /\ pc[h] = "idle"
        /\ a # None /\ a.owner = h /\ a.phase \notin Ended
        /\ \A g \in Hosts \ {h} :
             pc'[g] = pc[g] /\ call'[g] = call[g] /\ handle'[g] = handle[g]
    BY <1>1 DEF Adopt, TypeOK, Idle, Ended
  <2>2. a.stamp >= 1
    BY <2>1, <1>t DEF Serial, Versioned
  <2>3. HostSound(h)'
    BY <2>1, <2>2, <1>a, IdleSound DEF HandleHeld
  <2> QED BY <2>1, <2>3, <1>0, <1>a, <1>r, <1>l, ReadSerial DEF Waiting
<1>2. CASE RepairLabels(h)
  <2>1. /\ pc'[h] = "sync" /\ UNCHANGED handle /\ handle[h] = None
        /\ a # None /\ a.phase \in Ended
        /\ \A g \in Hosts \ {h} : pc'[g] = pc[g] /\ call'[g] = call[g]
    BY <1>2 DEF RepairLabels, TypeOK, Ended
  <2>2. call'[h].kind = "repair" /\ call'[h].new = a
    <3> HIDE DEF a
    <3>1. call' = [call EXCEPT ![h] = [NoCall EXCEPT !.kind = "repair", !.new = a]]
      BY <1>2 DEF RepairLabels, a
    <3> QED BY <3>1 DEF TypeOK, NoCall
  <2>3. HostSound(h)'
    BY <2>1, <2>2, <1>a DEF HostSound, HandleHeld, CallSound, CallWrote, Waiting, LabelsTodo,
       OnlyComment
  <2>4. LabelsHeld'
    BY <2>1 DEF LabelsHeld, Labelled, Waiting
  <2> QED BY <2>1, <2>3, <2>4, <1>0, <1>a, <1>r, ReadSerial
<1>3. CASE Check(h)
  <2>0. pc[h] = "check"
    BY <1>3 DEF Check
  <2>1. CASE Raise(h)
    BY <2>0, <2>1, <1>0, <1>a, <1>r, <1>l, RaiseSound, ReadSerial DEF Waiting
  <2>2. CASE ~Raise(h)
    <3>1. /\ IF call[h].expected = 0 THEN Present = {}
             ELSE Present # {} /\ a.stamp = call[h].expected
          /\ pc' = [pc EXCEPT ![h] = "write"] /\ UNCHANGED handle
          /\ call' = [call EXCEPT ![h].id = IF Present = {} THEN 0 ELSE Earliest(Present)]
      BY <1>3, <2>2 DEF Check
    <3>2. /\ call'[h].id = IF Present = {} THEN 0 ELSE Earliest(Present)
          /\ call'[h].kind = call[h].kind /\ call'[h].expected = call[h].expected
          /\ call'[h].new = call[h].new
          /\ \A g \in Hosts \ {h} : call'[g] = call[g] /\ pc'[g] = pc[g]
          /\ pc'[h] = "write"
      BY <3>1 DEF TypeOK, Call
    <3>3. call[h].expected # 0 => a # None /\ a.stamp = call[h].expected /\ call'[h].id = 1
      BY <3>1, <3>2 DEF ReadsFirst, TypeOK
    <3>4. \A b, k : Replaces(h, k, Authoritative, b)' <=> Replaces(h, k, Authoritative, b)
      BY <1>0, <1>a DEF Replaces, Continues, Drains, TakesOver, Stale
    <3>5. CallSound(h)'
      BY <2>0, <3>2, <3>3, <3>4, <1>0, <1>a, <1>t DEF HostSound, CallSound, Creates
    <3>6. HandleHeld(h)'
      BY <2>0, <3>1, <3>2, <1>0, <1>a, <1>t DEF HostSound, HandleHeld, Waiting, Stale
    <3>7. HostSound(h)'
      BY <3>2, <3>5, <3>6 DEF HostSound, CallWrote, Waiting, LabelsTodo, OnlyComment
    <3> QED BY <2>0, <3>1, <3>2, <3>7, <1>0, <1>a, <1>r, <1>l, ReadSerial DEF Waiting
  <2> QED BY <2>1, <2>2
<1>4. CASE Settle(h)
  <2> DEFINE later == {i \in Present : i # Earliest(Present)}
             own == call[h].id \in Present /\ call[h].id = Earliest(Present)
  <2>1. /\ pc[h] = "settle" /\ pc' = [pc EXCEPT ![h] = "delete"] /\ UNCHANGED handle
        /\ call' = [call EXCEPT ![h] = [call[h] EXCEPT !.rivals = later, !.first = own]]
    BY <1>4 DEF Settle, TypeOK
  <2>2. /\ call'[h].rivals = later /\ call'[h].first = own
        /\ call'[h].kind = call[h].kind /\ call'[h].new = call[h].new
        /\ \A g \in Hosts \ {h} : call'[g] = call[g] /\ pc'[g] = pc[g]
        /\ pc'[h] = "delete"
    <3>1. call[h] \in Call
      BY DEF TypeOK
    <3> HIDE DEF later, own
    <3> QED BY <2>1, <3>1 DEF TypeOK, Call
  <2>3. faults = 0 => later = {} /\ own
    <3>1. ASSUME faults = 0 PROVE Present = {1} /\ call[h].id = 1 /\ Earliest(Present) = 1
      BY <2>1, <3>1, <1>t DEF HostSound, OnlyComment, ReadsFirst
    <3> QED BY <3>1
  <2> HIDE DEF later, own
  <2>4. OnlyComment(h)'
    BY <2>2, <2>3, <1>0 DEF OnlyComment
  <2>5. CallWrote(h)'
    BY <2>1, <2>2, <1>a, <1>t DEF HostSound, CallWrote, Waiting
  <2>6. HostSound(h)'
    BY <2>2, <2>4, <2>5 DEF HostSound, HandleHeld, CallSound, Waiting, LabelsTodo
  <2>7. LabelsHeld'
    BY <2>2 DEF LabelsHeld, Labelled, Waiting
  <2> QED BY <2>1, <2>2, <2>6, <2>7, <1>0, <1>a, <1>r, ReadSerial
<1> QED BY <1>1, <1>2, <1>3, <1>4

\* Whatever request writes, and whether or not its response arrives, the
\* record becomes the state of the call.
LEMMA WriteEffect ==
  ASSUME TypeOK, Serial, ReadsFirst, ReadsFirst', NEW h \in Hosts,
         Post(h) \/ PostTwice(h) \/ Patch(h) \/ ResponseLost(h)
  PROVE  /\ pc[h] = "write" /\ Authoritative' = call[h].new /\ stamps >= 1
         /\ lastId' >= 1 /\ UNCHANGED <<clock, stamps, labels>>
         /\ \A g \in Hosts \ {h} :
              pc'[g] = pc[g] /\ call'[g] = call[g] /\ handle'[g] = handle[g]
<1>0. /\ pc[h] = "write" /\ UNCHANGED <<clock, stamps, labels>>
      /\ \A g \in Hosts \ {h} :
           pc'[g] = pc[g] /\ call'[g] = call[g] /\ handle'[g] = handle[g]
  <2>1. CASE Post(h)
    BY <2>1 DEF Post, TypeOK
  <2>2. CASE PostTwice(h)
    BY <2>2 DEF PostTwice, TypeOK
  <2>3. CASE Patch(h)
    BY <2>3 DEF Patch, TypeOK
  <2>4. CASE ResponseLost(h)
    BY <2>4 DEF ResponseLost, Raise, TypeOK
  <2> QED BY <2>1, <2>2, <2>3, <2>4
<1>w. CallSound(h)
  BY DEF Serial, HostSound
<1>t. lastId \in Nat /\ stamps \in Nat /\ call[h].new.stamp \in Nat
  BY BoundsAreNat DEF ReadsFirst, TypeOK, Call, Block
<1>1. ASSUME call[h].expected = 0
      PROVE  lastId' >= 1 /\ comments'[1] = call[h].new
  <2>1. lastId = 0
    BY <1>0, <1>1, <1>w, <1>t DEF CallSound, ReadsFirst
  <2>2. CASE Post(h)
    <3>1. 1 \in Ids /\ lastId + 1 = 1
      BY <2>1, <2>2, BoundsAreNat DEF Post, Ids
    <3> QED BY <2>2, <3>1 DEF Post, TypeOK
  <2>3. CASE PostTwice(h)
    <3>1. 1 \in Ids /\ lastId + 1 = 1 /\ lastId + 2 = 2
      BY <2>1, <2>3, BoundsAreNat DEF PostTwice, Ids
    <3> QED BY <2>3, <3>1 DEF PostTwice, TypeOK
  <2>4. CASE ResponseLost(h)
    <3>1. 1 \in Ids /\ lastId + 1 = 1
      BY <1>1, <2>1, <2>4, BoundsAreNat DEF ResponseLost, Ids
    <3> QED BY <1>1, <2>4, <3>1 DEF ResponseLost, TypeOK
  <2>5. ~Patch(h)
    BY <1>1 DEF Patch
  <2> QED BY <2>2, <2>3, <2>4, <2>5
<1>2. ASSUME call[h].expected # 0
      PROVE  lastId' >= 1 /\ comments'[1] = call[h].new
  <2>1. Authoritative # None /\ Authoritative.stamp = call[h].expected /\ call[h].id = 1
    BY <1>0, <1>2, <1>w DEF CallSound
  <2>2. lastId >= 1 /\ 1 \in Ids
    BY <2>1, <1>t DEF ReadsFirst
  <2>3. CASE Patch(h)
    BY <2>1, <2>2, <2>3 DEF Patch, TypeOK
  <2>4. CASE ResponseLost(h)
    BY <1>2, <2>1, <2>2, <2>4 DEF ResponseLost, TypeOK
  <2>5. ~Post(h) /\ ~PostTwice(h)
    BY <1>2 DEF Post, PostTwice
  <2> QED BY <2>3, <2>4, <2>5
<1>3. lastId' >= 1 /\ Authoritative' = call[h].new
  BY <1>1, <1>2 DEF ReadsFirst
<1>4. stamps >= 1
  BY <1>0, <1>w DEF CallSound
<1> QED BY <1>0, <1>3, <1>4

LEMMA WriteStepSerial ==
  ASSUME TypeOK, TypeOK', Serial, ReadsFirst, ReadsFirst', NEW h \in Hosts,
         \A g \in Hosts \ {h} : Idle(g),
         Post(h) \/ PostTwice(h) \/ Patch(h) \/ ResponseLost(h)
  PROVE  Serial'
<1> DEFINE a == Authoritative
           b == call[h].new
<1>t. /\ b \in Block /\ None \notin Block /\ a \in Block \cup {None}
      /\ faults \in Nat /\ HostSound(h) /\ lastId \in Nat
  BY BoundsAreNat, AuthoritativeIsBlock, QueueAssumption DEF TypeOK, Call, Serial
<1>e. /\ pc[h] = "write" /\ Authoritative' = b /\ stamps >= 1 /\ lastId' >= 1
      /\ UNCHANGED <<clock, stamps, labels>>
      /\ \A g \in Hosts \ {h} :
           pc'[g] = pc[g] /\ call'[g] = call[g] /\ handle'[g] = handle[g]
  BY WriteEffect
<1>w. \/ call[h].expected = 0 /\ a = None /\ Creates(h, b)
      \/ call[h].expected # 0 /\ a # None /\ call[h].id = 1 /\ Replaces(h, call[h].kind, a, b)
  BY <1>t, <1>e DEF HostSound, CallSound
<1>o. \/ b.owner = h
      \/ b.owner = None /\ b.phase \in Ended
  <2>1. CASE a # None /\ Drains(h, call[h].kind, a, b)
    <3>1. a \in Block
      BY <1>t, <2>1
    <3> DEFINE d == [a EXCEPT !.stamp = b.stamp, !.phase = "queued", !.owner = None,
                              !.claimed = 0, !.expires = 0]
    <3>2. d.owner = None /\ d.phase = "queued"
      BY <3>1 DEF Block
    <3>3. b = d
      BY <2>1 DEF Drains
    <3> HIDE DEF d, b
    <3> QED BY <3>2, <3>3 DEF Ended
  <2> QED
    BY <2>1, <1>w DEF Creates, Replaces, Continues, TakesOver, Ended, Terminal
<1>1. CASE Post(h) \/ PostTwice(h)
  <2>1. /\ pc'[h] = "settle" /\ call'[h].new = b /\ call[h].expected = 0 /\ a = None
        /\ UNCHANGED handle
    <3>1. CASE Post(h)
      BY <3>1, <1>w DEF Post, TypeOK, Call
    <3>2. CASE PostTwice(h)
      BY <3>2, <1>w DEF PostTwice, TypeOK, Call
    <3> QED BY <1>1, <3>1, <3>2
  <2>2. CallWrote(h)'
    BY <2>1, <1>e, <1>o DEF CallWrote, Waiting
  <2>3. OnlyComment(h)'
    <3>1. CASE Post(h)
      <4>1. lastId = 0 /\ Present = {} /\ lastId + 1 = 1
        BY <2>1, <1>t DEF ReadsFirst
      <4>2. call'[h].id = 1 /\ comments' = [comments EXCEPT ![1] = b]
        BY <3>1, <4>1 DEF Post, TypeOK, Call
      <4>3. 1 \in Ids
        BY <1>e DEF ReadsFirst
      <4>4. Present' = {1}
        BY <4>1, <4>2, <4>3, <1>t DEF Present, TypeOK
      <4> QED BY <2>1, <4>2, <4>4 DEF OnlyComment
    <3>2. CASE PostTwice(h)
      <4>1. faults' # 0
        BY <3>2, <1>t DEF PostTwice
      <4> QED BY <4>1 DEF OnlyComment
    <3> QED BY <1>1, <3>1, <3>2
  <2>4. HostSound(h)'
    BY <2>1, <2>2, <2>3 DEF HostSound, HandleHeld, CallSound, Waiting, LabelsTodo
  <2>5. LabelsHeld'
    BY <2>1 DEF LabelsHeld, Labelled, Waiting
  <2> QED BY <2>4, <2>5, <1>e, WriteSerial
<1>2. CASE Patch(h)
  <2>1. /\ pc'[h] = "verify" /\ UNCHANGED <<call, handle, faults>> /\ call[h].expected # 0
    BY <1>2 DEF Patch, TypeOK
  <2>2. /\ a # None /\ a \in Block /\ call[h].id = 1 /\ Replaces(h, call[h].kind, a, b)
    BY <2>1, <1>w, <1>t
  <2>3. /\ call[h].kind \in {"claim", "transition", "reclaim", "heartbeat", "save"}
        /\ call[h].kind \in {"heartbeat", "save"} =>
             /\ b.phase = a.phase /\ b.phase \notin Ended
    BY <2>2 DEF Replaces, Continues, Drains, TakesOver
  <2>4. CallWrote(h)'
    BY <2>1, <2>2, <2>3, <1>e, <1>o DEF CallWrote, Waiting
  <2>5. HostSound(h)'
    BY <2>1, <2>4 DEF HostSound, HandleHeld, CallSound, Waiting, LabelsTodo, OnlyComment
  <2>6. LabelsHeld'
    <3>1. ASSUME call[h].kind \in {"heartbeat", "save"}
          PROVE  TargetLabels(b) = TargetLabels(a)
      BY <3>1, <2>3 DEF TargetLabels, Unconfirmed, Ended
    <3>2. faults = 0 => labels = TargetLabels(a)
      BY <2>2, <1>e DEF Serial, LabelsHeld, Labelled, Waiting, Idle
    <3> QED BY <2>1, <3>1, <3>2, <1>e DEF LabelsHeld, Labelled, Waiting
  <2> QED BY <2>5, <2>6, <1>e, WriteSerial
<1>3. CASE ResponseLost(h)
  <2>1. Raise(h) /\ faults' # 0
    BY <1>3, <1>t DEF ResponseLost
  <2> QED BY <2>1, <1>e, RaiseSound, WriteSerial DEF LabelsHeld
<1> QED BY <1>1, <1>2, <1>3

LEMMA SettleSerial ==
  ASSUME TypeOK, TypeOK', Serial, FirstCommentStays, ReadsFirst, ReadsFirst',
         NEW h \in Hosts, \A g \in Hosts \ {h} : Idle(g),
         Delete(h) \/ Arbitrate(h) \/ Verify(h)
  PROVE  Serial'
<1> DEFINE a == Authoritative
           b == call[h].new
<1>t. /\ b \in Block /\ None \notin Block /\ stamps \in Nat /\ HostSound(h) /\ None \notin Hosts
  BY BoundsAreNat, QueueAssumption DEF TypeOK, Call, Serial
<1>0. /\ UNCHANGED <<lastId, labels, clock, stamps, faults>> /\ stamps' >= stamps
  BY <1>t DEF Delete, Arbitrate, Verify, store
<1>b. /\ ~Waiting(h) /\ a = b /\ a # None /\ pc[h] \in {"delete", "verify"}
      /\ a.owner = h \/ (a.owner = None /\ a.phase \in Ended)
  BY <1>t DEF Delete, Arbitrate, Verify, Waiting, HostSound, CallWrote
<1>n. lastId >= 1 /\ Authoritative = comments[1]
  BY <1>b DEF ReadsFirst
<1>1. CASE Delete(h)
  <2> DEFINE d == Earliest(call[h].rivals)
  <2>1. pc[h] = "delete" /\ call[h].rivals # {} /\ faults' # 0
    BY <1>1, <1>0, <1>t DEF Delete, HostSound, OnlyComment
  <2>2. d # 1
    <3>1. call[h].rivals \subseteq Ids /\ Ids \subseteq Nat
      BY DEF TypeOK, Call, Ids
    <3>2. d \in call[h].rivals
      BY <2>1, <3>1, EarliestIsLeast, Zenon
    <3> QED BY <2>1, <3>2 DEF FirstCommentStays, FirstRespected
  <2> HIDE DEF d
  <2>3. \/ /\ comments' = [comments EXCEPT ![d] = None]
           /\ call' = [call EXCEPT ![h].rivals = @ \ {d}] /\ UNCHANGED <<pc, handle>>
        \/ Raise(h) /\ UNCHANGED comments
    BY <1>1 DEF Delete, d
  <2>4. Authoritative' = a
    BY <1>0, <1>n, <2>2, <2>3 DEF ReadsFirst, TypeOK
  <2>5. ReleaseHeld' /\ LabelsHeld'
    BY <1>0, <2>1, <2>4 DEF Serial, ReleaseHeld, LabelsHeld
  <2>6. CASE Raise(h)
    BY <1>0, <1>t, <2>4, <2>5, <2>6, RaiseSound, ReadSerial
  <2>7. CASE ~Raise(h)
    <3>1. /\ call'[h].new = b /\ call'[h].kind = call[h].kind /\ pc'[h] = "delete"
          /\ UNCHANGED handle
          /\ \A g \in Hosts \ {h} : call'[g] = call[g] /\ pc'[g] = pc[g]
      BY <2>1, <2>3, <2>7 DEF TypeOK, Call
    <3>2. CallWrote(h)'
      BY <1>b, <2>4, <3>1 DEF CallWrote, Waiting
    <3>3. HostSound(h)'
      BY <2>1, <3>1, <3>2 DEF HostSound, HandleHeld, CallSound, Waiting, LabelsTodo, OnlyComment
    <3> QED BY <1>0, <1>t, <2>4, <2>5, <3>1, <3>3, ReadSerial
  <2> QED BY <2>6, <2>7
<1>2. CASE Arbitrate(h)
  <2>0. UNCHANGED <<comments>> /\ pc[h] = "delete"
    BY <1>2 DEF Arbitrate, store
  <2>1. Authoritative' = a
    BY <2>0 DEF Authoritative, Present, Earliest
  <2>2. ReleaseHeld'
    BY <1>0, <2>1 DEF Serial, ReleaseHeld
  <2>3. CASE call[h].first
    <3>1. /\ pc'[h] = "sync" /\ UNCHANGED call /\ handle'[h] = b
          /\ \A g \in Hosts \ {h} : handle'[g] = handle[g] /\ pc'[g] = pc[g]
      BY <1>2, <2>3 DEF Arbitrate, Raise, TypeOK
    <3>3. CallWrote(h)'
      BY <1>b, <2>1, <3>1 DEF CallWrote, Waiting
    <3>4. HostSound(h)' /\ LabelsHeld'
      BY <3>1, <3>3 DEF HostSound, HandleHeld, CallSound, Waiting, LabelsTodo, OnlyComment,
         LabelsHeld, Labelled
    <3> QED BY <1>0, <1>t, <2>1, <2>2, <3>1, <3>4, ReadSerial
  <2>4. CASE ~call[h].first
    <3>1. Raise(h) /\ faults' # 0
      BY <1>2, <1>0, <1>t, <2>0, <2>4 DEF Arbitrate, HostSound, OnlyComment
    <3> QED BY <1>0, <1>t, <2>1, <2>2, <3>1, RaiseSound, ReadSerial DEF LabelsHeld
  <2> QED BY <2>3, <2>4
<1>3. CASE Verify(h)
  <2>0. UNCHANGED comments /\ pc[h] = "verify"
    BY <1>3 DEF Verify, store
  <2>1. Authoritative' = a
    BY <2>0 DEF Authoritative, Present, Earliest
  <2>2. ReleaseHeld'
    BY <1>0, <2>1 DEF Serial, ReleaseHeld
  <2>3. /\ comments[call[h].id] = b
        /\ call[h].kind \in {"claim", "transition", "reclaim", "heartbeat", "save"}
        /\ call[h].kind \in {"heartbeat", "save"} => a.phase \notin Ended
    BY <2>0, <1>b, <1>n, <1>t DEF HostSound, CallWrote
  <2>4. a.owner = h \/ (a.owner = None /\ a.phase \in Ended)
    BY <1>b, <2>3
  <2>5. /\ handle' = [handle EXCEPT ![h] = b]
        /\ \/ /\ call[h].kind \in {"claim", "transition", "reclaim"}
              /\ pc' = [pc EXCEPT ![h] = "sync"] /\ UNCHANGED call
           \/ /\ call[h].kind \in {"heartbeat", "save"}
              /\ pc' = [pc EXCEPT ![h] = "idle"]
              /\ call' = [call EXCEPT ![h] = NoCall]
    BY <1>3, <1>b, <1>t, <2>3 DEF Verify
  <2>6. CASE /\ pc' = [pc EXCEPT ![h] = "sync"] /\ UNCHANGED call
             /\ call[h].kind \in {"claim", "transition", "reclaim"}
    <3>1. /\ pc'[h] = "sync" /\ UNCHANGED call /\ handle'[h] = b
          /\ \A g \in Hosts \ {h} : handle'[g] = handle[g] /\ pc'[g] = pc[g]
      BY <2>5, <2>6 DEF TypeOK
    <3>2. CallWrote(h)'
      BY <1>b, <2>1, <2>4, <3>1 DEF CallWrote, Waiting
    <3>3. HostSound(h)' /\ LabelsHeld'
      BY <3>1, <3>2 DEF HostSound, HandleHeld, CallSound, Waiting, LabelsTodo, OnlyComment,
         LabelsHeld, Labelled
    <3> QED BY <1>0, <1>t, <2>1, <2>2, <3>1, <3>3, ReadSerial
  <2>7. CASE /\ pc' = [pc EXCEPT ![h] = "idle"] /\ call' = [call EXCEPT ![h] = NoCall]
             /\ call[h].kind \in {"heartbeat", "save"}
    <3>1. /\ pc'[h] = "idle" /\ handle'[h] = b
          /\ \A g \in Hosts \ {h} :
               handle'[g] = handle[g] /\ pc'[g] = pc[g] /\ call'[g] = call[g]
      BY <2>5, <2>7 DEF TypeOK
    <3>2. a.owner = h /\ a.phase \notin Ended /\ a.stamp >= 1
      BY <2>3, <2>4, <2>7, <1>b, <1>t DEF Serial, Versioned
    <3>3. HostSound(h)'
      BY <1>b, <2>1, <3>1, <3>2, IdleSound DEF HandleHeld
    <3>4. LabelsHeld'
      BY <1>0, <1>b, <2>0, <2>1, <2>7 DEF Serial, LabelsHeld, Labelled, Waiting, Idle
    <3> QED BY <1>0, <1>t, <2>1, <2>2, <3>1, <3>3, <3>4, ReadSerial
  <2> QED BY <2>5, <2>6, <2>7
<1> QED BY <1>1, <1>2, <1>3

LEMMA ReturnSound ==
  ASSUME TypeOK, Serial, NEW h \in Hosts, Return(h), pc[h] \in {"sync", "label"},
         Authoritative' = Authoritative
  PROVE  /\ HostSound(h)' /\ pc'[h] = "idle"
         /\ \A g \in Hosts \ {h} :
              pc'[g] = pc[g] /\ call'[g] = call[g] /\ handle'[g] = handle[g]
<1> DEFINE a == Authoritative
           b == call[h].new
<1>1. /\ a = b /\ handle[h] \in {None, a} /\ a # None
      /\ \/ a.owner = h
         \/ a.phase \in Ended
  <2>1. b \in Block /\ None \notin Block
    BY QueueAssumption DEF TypeOK, Call
  <2> QED BY <2>1 DEF Serial, HostSound, CallWrote, Waiting
<1>2. /\ pc'[h] = "idle"
      /\ handle'[h] = IF b.phase \in Ended THEN None ELSE handle[h]
      /\ \A g \in Hosts \ {h} :
           pc'[g] = pc[g] /\ call'[g] = call[g] /\ handle'[g] = handle[g]
  BY DEF Return, TypeOK, Ended
<1>3. a.stamp >= 1
  BY <1>1, BoundsAreNat DEF Serial, Versioned, TypeOK
<1>4. HandleHeld(h)'
  BY <1>1, <1>2, <1>3 DEF HandleHeld
<1> QED BY <1>2, <1>4, IdleSound

\* What announces a release: the label of a terminal run without live lanes.
LEMMA ReleaseLabels ==
  ASSUME NEW b \in Block, b.phase \notin Terminal \/ b.lanes = "live"
  PROVE  TargetLabels(b) \cap Released = {}
BY DEF TargetLabels, Unconfirmed, PhaseLabel, Released, Terminal

\* The next label call is for one of the labels to change.
LEMMA NextIsIn ==
  ASSUME NEW S, S \subseteq Labels, S # {}
  PROVE  NextLabel(S) \in S
<1> DEFINE ranks == {Rank(l) : l \in S}
<1>1. ranks \subseteq Nat /\ ranks # {}
  BY DEF Rank
<1>2. Earliest(ranks) \in ranks /\ \A j \in ranks : Earliest(ranks) <= j
  BY <1>1, EarliestIsLeast
<1>3. \E l \in S : \A m \in S : Rank(l) <= Rank(m)
  BY <1>2
<1> QED BY <1>3 DEF NextLabel

LEMMA LabelSerial ==
  ASSUME TypeOK, TypeOK', Serial, NEW h \in Hosts, \A g \in Hosts \ {h} : Idle(g),
         SyncLabels(h) \/ LabelCall(h)
  PROVE  Serial'
<1> DEFINE a == Authoritative
           b == call[h].new
           target == TargetLabels(b)
<1>t. /\ b \in Block /\ None \notin Block /\ stamps \in Nat /\ HostSound(h)
      /\ labels \subseteq Labels
  BY BoundsAreNat, QueueAssumption DEF TypeOK, Call, Serial
<1>0. UNCHANGED <<comments, lastId, clock, stamps, faults>> /\ stamps' >= stamps
  BY <1>t DEF SyncLabels, LabelCall, store
<1>b. ~Waiting(h) /\ a = b /\ a # None /\ pc[h] \in {"sync", "label"}
  BY <1>t DEF SyncLabels, LabelCall, Waiting, HostSound, CallWrote
<1>a. Authoritative' = a
  BY <1>0 DEF Authoritative, Present, Earliest
<1>l. ASSUME NEW l \in target PROVE Releasable(b) \/ l \notin Released
  BY <1>t, <1>b, ReleaseLabels DEF Releasable
<1>u. Releasable(b) \/ labels \cap Released = {}
  BY <1>b DEF Serial, ReleaseHeld
<1> HIDE DEF target
<1>1. CASE SyncLabels(h)
  <2> DEFINE todo == (labels \ target) \cup (target \ labels)
  <2>1. /\ UNCHANGED labels /\ pc[h] = "sync"
        /\ \/ todo = {} /\ Return(h)
           \/ /\ todo # {}
              /\ call' = [call EXCEPT ![h].todo = todo]
              /\ pc' = [pc EXCEPT ![h] = "label"]
              /\ UNCHANGED handle
    BY <1>1 DEF SyncLabels, target
  <2>2. ReleaseHeld'
    BY <1>a, <2>1 DEF Serial, ReleaseHeld
  <2>3. CASE todo = {} /\ Return(h)
    <3>1. labels = target
      BY <2>3
    <3>2. LabelsHeld'
      BY <3>1, <2>1, <1>a, <1>b DEF LabelsHeld, target
    <3> QED BY <1>0, <1>a, <1>t, <2>1, <2>2, <2>3, <3>2, ReturnSound, ReadSerial
  <2>4. CASE /\ todo # {} /\ call' = [call EXCEPT ![h].todo = todo]
             /\ pc' = [pc EXCEPT ![h] = "label"] /\ UNCHANGED handle
    <3>1. /\ call'[h].todo = todo /\ call'[h].new = b /\ call'[h].kind = call[h].kind
          /\ pc'[h] = "label"
          /\ \A g \in Hosts \ {h} : call'[g] = call[g] /\ pc'[g] = pc[g]
      <4>1. call' = [call EXCEPT ![h] = [call[h] EXCEPT !.todo = todo]] /\ call[h] \in Call
        BY <2>4 DEF TypeOK
      <4> HIDE DEF todo
      <4> QED BY <4>1, <2>4 DEF TypeOK, Call
    <3>2. LabelsTodo(h)'
      BY <2>1, <2>4, <3>1 DEF LabelsTodo, target
    <3>3. CallWrote(h)'
      BY <1>a, <1>b, <1>t, <2>1, <2>4, <3>1 DEF HostSound, CallWrote, Waiting
    <3>4. HostSound(h)' /\ LabelsHeld'
      BY <3>1, <3>2, <3>3 DEF HostSound, HandleHeld, CallSound, Waiting, OnlyComment,
         LabelsHeld, Labelled
    <3> QED BY <1>0, <1>a, <1>t, <2>2, <2>4, <3>1, <3>4, ReadSerial
  <2> QED BY <2>1, <2>3, <2>4
<1>2. CASE LabelCall(h)
  <2> DEFINE todo == call[h].todo
             l == NextLabel(todo)
  <2>1. /\ todo # {} /\ todo = (labels \ target) \cup (target \ labels) /\ pc[h] = "label"
        /\ todo \subseteq Labels
    BY <1>2, <1>t DEF LabelCall, HostSound, LabelsTodo, target, TypeOK, Call
  <2>2. l \in todo
    BY <2>1, NextIsIn
  <2>3. /\ labels' = IF l \in target THEN labels \cup {l} ELSE labels \ {l}
        /\ \/ todo = {l} /\ Return(h)
           \/ /\ todo # {l} /\ call' = [call EXCEPT ![h].todo = @ \ {l}]
              /\ UNCHANGED <<pc, handle>>
    BY <1>2, <2>1, <2>2 DEF LabelCall, target
  <2> HIDE DEF l
  <2>4. (labels' \ target) \cup (target \ labels') = todo \ {l}
    BY <2>1, <2>2, <2>3
  <2>5. ReleaseHeld'
    BY <1>a, <1>b, <1>l, <1>u, <2>3 DEF ReleaseHeld
  <2>6. CASE todo = {l} /\ Return(h)
    <3>1. labels' = target
      BY <2>4, <2>6
    <3>2. LabelsHeld'
      BY <3>1, <1>a, <1>b DEF LabelsHeld, target
    <3> QED BY <1>0, <1>a, <1>t, <2>1, <2>5, <2>6, <3>2, ReturnSound, ReadSerial
  <2>7. CASE /\ todo # {l} /\ call' = [call EXCEPT ![h].todo = @ \ {l}]
             /\ UNCHANGED <<pc, handle>>
    <3>1. /\ call'[h].todo = todo \ {l} /\ call'[h].new = b /\ call'[h].kind = call[h].kind
          /\ \A g \in Hosts \ {h} : call'[g] = call[g]
      BY <2>7 DEF TypeOK, Call
    <3>2. LabelsTodo(h)'
      BY <2>2, <2>4, <2>7, <3>1 DEF LabelsTodo, target
    <3>3. CallWrote(h)'
      BY <1>a, <1>b, <1>t, <2>1, <2>7, <3>1 DEF HostSound, CallWrote, Waiting
    <3>4. HostSound(h)' /\ LabelsHeld'
      BY <2>1, <2>7, <3>1, <3>2, <3>3 DEF HostSound, HandleHeld, CallSound, Waiting,
         OnlyComment, LabelsHeld, Labelled
    <3> QED BY <1>0, <1>a, <1>t, <2>5, <2>7, <3>1, <3>4, ReadSerial
  <2> QED BY <2>3, <2>6, <2>7
<1> QED BY <1>1, <1>2

\* A host may die while another one is in a call.
LEMMA CrashSerial ==
  ASSUME TypeOK, Serial, NEW h \in Hosts, Crash(h)
  PROVE  Serial'
<1>1. /\ UNCHANGED <<comments, lastId, labels, clock, stamps>> /\ faults' # 0 /\ Raise(h)
  BY BoundsAreNat DEF Crash, store, TypeOK
<1>2. Authoritative' = Authoritative
  BY <1>1 DEF Authoritative, Present, Earliest
<1>3. /\ HostSound(h)' /\ pc'[h] = "idle"
      /\ \A g \in Hosts \ {h} :
           pc'[g] = pc[g] /\ call'[g] = call[g] /\ handle'[g] = handle[g]
  BY <1>1, RaiseSound
<1>4. ASSUME NEW g \in Hosts \ {h} PROVE HostSound(g)'
  <2>1. HandleHeld(g)' /\ LabelsTodo(g)' /\ OnlyComment(g)'
    BY <1>1, <1>2, <1>3 DEF Serial, HostSound, HandleHeld, LabelsTodo, OnlyComment, Waiting,
       Stale
  <2>2. \A b, k : Replaces(g, k, Authoritative, b)' <=> Replaces(g, k, Authoritative, b)
    BY <1>1, <1>2 DEF Replaces, Continues, Drains, TakesOver, Stale
  <2>3. CallSound(g)'
    BY <1>1, <1>2, <1>3, <2>2 DEF Serial, HostSound, CallSound, Creates
  <2>4. CallWrote(g)'
    BY <1>1, <1>2, <1>3 DEF Serial, HostSound, CallWrote, Waiting
  <2> QED BY <2>1, <2>3, <2>4 DEF HostSound
<1>5. OneCall'
  BY <1>3 DEF Serial, OneCall, Idle
<1>6. Versioned' /\ ReleaseHeld' /\ LabelsHeld'
  BY <1>1, <1>2 DEF Serial, Versioned, ReleaseHeld, LabelsHeld
<1> QED BY <1>3, <1>4, <1>5, <1>6 DEF Serial

\* A lease that ran out stays so.
LEMMA TickSerial ==
  ASSUME TypeOK, Serial, Tick
  PROVE  Serial'
<1>1. /\ UNCHANGED <<comments, lastId, labels, stamps, faults, pc, call, handle>>
      /\ clock \in Nat /\ clock' = clock + 1
  BY BoundsAreNat DEF Tick, store, TypeOK
<1>2. Authoritative' = Authoritative
  BY <1>1 DEF Authoritative, Present, Earliest
<1>4. ASSUME NEW g \in Hosts PROVE HostSound(g)'
  <2>1. HandleHeld(g)'
    <3>1. handle[g] \in Block \cup {None}
      BY DEF TypeOK
    <3>2. ASSUME handle[g] # None, Stale(handle[g])
          PROVE  Stale(handle[g])'
      <4>1. handle[g].expires \in Nat
        BY <3>1, <3>2, BoundsAreNat DEF Block
      <4> QED BY <1>1, <3>2, <4>1 DEF Stale
    <3> QED BY <1>1, <1>2, <3>2 DEF Serial, HostSound, HandleHeld, Waiting
  <2>2. ASSUME Authoritative # None,
               Replaces(g, call[g].kind, Authoritative, call[g].new)
        PROVE  Replaces(g, call[g].kind, Authoritative, call[g].new)'
    <3>1. Authoritative \in Block
      BY <2>2, AuthoritativeIsBlock
    <3>2. Stale(Authoritative) => Stale(Authoritative)'
      <4> DEFINE a == Authoritative
      <4>1. a \in Block /\ a' = a
        BY <3>1, <1>2
      <4>2. a.expires \in Nat
        BY <4>1, BoundsAreNat DEF Block
      <4> HIDE DEF a
      <4>3. Stale(a) => Stale(a)'
        BY <1>1, <4>1, <4>2 DEF Stale
      <4> QED BY <4>3 DEF a
    <3> QED BY <1>1, <1>2, <2>2, <3>2 DEF Replaces, Continues, Drains, TakesOver
  <2>3. CallSound(g)'
    BY <1>1, <1>2, <2>2 DEF Serial, HostSound, CallSound, Creates
  <2>4. CallWrote(g)' /\ LabelsTodo(g)' /\ OnlyComment(g)'
    BY <1>1, <1>2 DEF Serial, HostSound, CallWrote, Waiting, LabelsTodo, OnlyComment, Present
  <2> QED BY <2>1, <2>3, <2>4 DEF HostSound
<1>5. OneCall' /\ Versioned' /\ ReleaseHeld' /\ LabelsHeld'
  BY <1>1, <1>2 DEF Serial, OneCall, Idle, Versioned, ReleaseHeld, LabelsHeld, Labelled, Waiting
<1> QED BY <1>4, <1>5 DEF Serial

LEMMA NextSerial ==
  ASSUME TypeOK, TypeOK', FirstCommentStays, FirstCommentStays', Serial, [Next]_vars
  PROVE  Serial'
<1>r. ReadsFirst /\ ReadsFirst'
  BY FirstIsRead, FirstIsReadAfter
<1>1. CASE UNCHANGED vars
  <2>1. /\ Authoritative' = Authoritative
        /\ UNCHANGED <<comments, labels, clock, stamps, faults, pc, call, handle>>
    BY <1>1 DEF vars, Authoritative, Present, Earliest
  <2>2. ASSUME NEW g \in Hosts PROVE HostSound(g)'
    <3>1. HandleHeld(g)' /\ CallWrote(g)' /\ LabelsTodo(g)' /\ OnlyComment(g)'
      BY <2>1 DEF Serial, HostSound, HandleHeld, CallWrote, LabelsTodo, OnlyComment, Waiting,
         Stale, Present
    <3>2. CallSound(g)'
      BY <2>1 DEF Serial, HostSound, CallSound, Replaces, Continues, Drains, TakesOver,
         Creates, Stale
    <3> QED BY <3>1, <3>2 DEF HostSound
  <2>3. OneCall' /\ Versioned' /\ ReleaseHeld' /\ LabelsHeld'
    BY <2>1 DEF Serial, OneCall, Idle, Versioned, ReleaseHeld, LabelsHeld, Labelled, Waiting
  <2> QED BY <2>2, <2>3 DEF Serial
<1>2. CASE Tick
  BY <1>2, TickSerial
<1>3. ASSUME NEW h \in Hosts, HostStep(h) PROVE Serial'
  <2>1. CASE Crash(h)
    BY <2>1, CrashSerial
  <2>2. CASE ~Crash(h)
    <3>1. \A g \in Hosts \ {h} : Idle(g)
      BY <1>3, <2>2, OthersIdle
    <3>2. CASE \/ Claim(h) \/ Reject(h) \/ Heartbeat(h) \/ Abandon(h) \/ Reclaim(h)
               \/ \E phase \in Targets : Transition(h, phase)
               \/ \E lanes \in {"live", "stopped"} : Save(h, lanes)
      BY <3>1, <3>2, BeginSerial
    <3>3. CASE Adopt(h) \/ RepairLabels(h) \/ Check(h) \/ Settle(h)
      BY <1>r, <3>1, <3>3, LookupSerial
    <3>4. CASE Post(h) \/ PostTwice(h) \/ Patch(h) \/ ResponseLost(h)
      BY <1>r, <3>1, <3>4, WriteStepSerial
    <3>5. CASE Delete(h) \/ Arbitrate(h) \/ Verify(h)
      BY <1>r, <3>1, <3>5, SettleSerial
    <3>6. CASE SyncLabels(h) \/ LabelCall(h)
      BY <3>1, <3>6, LabelSerial
    <3> QED BY <1>3, <2>2, <3>2, <3>3, <3>4, <3>5, <3>6 DEF HostStep
  <2> QED BY <2>1, <2>2
<1> QED BY <1>1, <1>2, <1>3 DEF Next

\* With calls that do not overlap, a host's claim is the authoritative state
\* or was overtaken after its lease ran out, and no call writes anything but
\* what the state it compared with allows.
THEOREM CallsAreSerial == ~Overlap /\ Spec => []Serial
<1>1. TypeOK /\ TypeOK' /\ FirstCommentStays /\ FirstCommentStays' /\ Serial
        /\ [Next]_vars => Serial'
  BY NextSerial
<1> QED
  BY <1>1, InitSerial, TypeCorrect, FirstStays, PTL DEF Spec

\* Two hosts never work on the item at once, a paused owner and a host that
\* takes over its expired claim included.
THEOREM LeaseHeld == ~Overlap /\ Spec => []LeaseExclusive
<1>1. TypeOK /\ Serial => LeaseExclusive
  <2> SUFFICES ASSUME TypeOK, Serial, NEW g \in Hosts, NEW h \in Hosts,
                      Working(g), Working(h), g # h
               PROVE  FALSE
    BY DEF LeaseExclusive
  <2> DEFINE Owns(i) == Authoritative # None /\ Authoritative.owner = i
  <2>1. ASSUME NEW i \in Hosts, Working(i), Waiting(i) PROVE Owns(i)
    BY <2>1 DEF Serial, HostSound, HandleHeld, Working
  <2>2. ASSUME NEW i \in Hosts, Working(i), ~Waiting(i) PROVE Owns(i)
    <3>1. call[i].new \in Block /\ None \notin Block
      BY QueueAssumption DEF TypeOK, Call
    <3> QED
      BY <2>2, <3>1 DEF Serial, HostSound, CallWrote, Working, Waiting, Idle, Ended
  <2>3. Owns(g) /\ Owns(h)
    BY <2>1, <2>2
  <2> QED BY <2>3
<1> QED
  BY <1>1, CallsAreSerial, TypeCorrect, PTL

\* A state a host committed stays authoritative until that host, or a
\* successor with a claim of its own, commits another one.
THEOREM UpdatesKept == ~Overlap /\ Spec => []NoLostUpdate
<1>1. Serial => NoLostUpdate
  BY DEF Serial, HostSound, HandleHeld, NoLostUpdate, Waiting, Idle, SameClaim
<1> QED
  BY <1>1, CallsAreSerial, PTL

\* No label announces a terminal run as released while its developer has not
\* been confirmed stopped, whatever request of whichever call failed.
THEOREM ReleaseConfirmed == ~Overlap /\ Spec => []NoReleaseWhileLive
<1>1. Serial => NoReleaseWhileLive
  BY DEF Serial, ReleaseHeld, Releasable, NoReleaseWhileLive, Unconfirmed, Released
<1> QED
  BY <1>1, CallsAreSerial, PTL

\* Between calls, as long as none was cut short, the labels agree with the
\* phase in the authoritative comment.
THEOREM LabelsFollow == ~Overlap /\ Spec => []LabelsAgree
<1>1. Serial => LabelsAgree
  BY DEF Serial, LabelsHeld, LabelsAgree, Labelled, Waiting, Idle
<1> QED
  BY <1>1, CallsAreSerial, PTL

\* No other step of a host changes the record.
LEMMA ReadEffect ==
  ASSUME TypeOK, FirstCommentStays, ReadsFirst, ReadsFirst', NEW h \in Hosts, HostStep(h),
         ~(Post(h) \/ PostTwice(h) \/ Patch(h) \/ ResponseLost(h))
  PROVE  Authoritative' = Authoritative /\ clock' = clock
<1>0. ASSUME NEW kind, NEW expected, NEW block, Start(h, kind, expected, block)
      PROVE  UNCHANGED <<comments, clock>>
  BY <1>0 DEF Start, store
<1>1. CASE Delete(h)
  <2> DEFINE d == Earliest(call[h].rivals)
  <2>1. /\ lastId >= 1 /\ call[h].rivals # {} /\ UNCHANGED <<lastId, clock>>
        /\ 1 \notin call[h].rivals
    BY <1>1 DEF Delete, FirstCommentStays, FirstRespected
  <2>2. d # 1
    <3>1. call[h].rivals \subseteq Ids /\ Ids \subseteq Nat
      BY DEF TypeOK, Call, Ids
    <3>2. d \in call[h].rivals
      BY <2>1, <3>1, EarliestIsLeast, Zenon
    <3> QED BY <2>1, <3>2
  <2>3. comments' = [comments EXCEPT ![d] = None] \/ UNCHANGED comments
    BY <1>1 DEF Delete
  <2> HIDE DEF d
  <2>4. comments'[1] = comments[1]
    BY <2>1, <2>2, <2>3 DEF ReadsFirst, TypeOK
  <2> QED BY <2>1, <2>4 DEF ReadsFirst
<1>2. CASE ~Delete(h)
  <2>1. UNCHANGED <<comments, clock>>
    <3>1. CASE \/ Claim(h) \/ Reject(h) \/ Heartbeat(h) \/ Abandon(h) \/ Reclaim(h)
               \/ \E phase \in Targets : Transition(h, phase)
               \/ \E lanes \in {"live", "stopped"} : Save(h, lanes)
      BY <1>0, <3>1 DEF Claim, Reject, Heartbeat, Abandon, Reclaim, Transition, Save
    <3>2. CASE \/ Adopt(h) \/ RepairLabels(h) \/ Check(h) \/ Settle(h) \/ Arbitrate(h)
               \/ Verify(h) \/ SyncLabels(h) \/ LabelCall(h) \/ Crash(h)
      BY <3>2 DEF Adopt, RepairLabels, Check, Settle, Arbitrate, Verify, SyncLabels,
         LabelCall, Crash, store
    <3> QED BY <1>2, <3>1, <3>2 DEF HostStep
  <2> QED BY <2>1 DEF Authoritative, Present, Earliest
<1> QED BY <1>1, <1>2

LEMMA RecordStep ==
  ASSUME TypeOK, TypeOK', FirstCommentStays, FirstCommentStays', Serial, [Next]_vars
  PROVE  [Record!Write \/ Record!Tick]_<<Authoritative, clock>>
<1> DEFINE a == Authoritative
<1>r. ReadsFirst /\ ReadsFirst'
  BY FirstIsRead, FirstIsReadAfter
<1>1. CASE UNCHANGED vars
  BY <1>1 DEF vars, Authoritative, Present, Earliest
<1>2. CASE Tick
  <2>1. Authoritative' = a /\ clock' = clock + 1
    BY <1>2 DEF Tick, store, Authoritative, Present, Earliest
  <2> QED BY <2>1 DEF Record!Tick
<1>3. ASSUME NEW h \in Hosts, HostStep(h),
             Post(h) \/ PostTwice(h) \/ Patch(h) \/ ResponseLost(h)
      PROVE  Record!Write
  <2> DEFINE b == call[h].new
             k == call[h].kind
  <2>1. pc[h] = "write" /\ Authoritative' = b /\ clock' = clock
    BY <1>3, <1>r, WriteEffect
  <2>2. /\ b.stamp = stamps /\ (a # None => a.stamp < stamps)
        /\ (a = None /\ Creates(h, b)) \/ (a # None /\ Replaces(h, k, a, b))
    BY <2>1 DEF Serial, HostSound, CallSound
  <2>3. b # None /\ stamps \in Nat /\ (a # None => a.stamp \in Nat)
    <3>1. b \in Block
      BY DEF TypeOK, Call
    <3> QED
      BY <3>1, BoundsAreNat, QueueAssumption, AuthoritativeIsBlock DEF TypeOK, Block
  <2>4. a # None => b.stamp > a.stamp
    BY <2>2, <2>3
  <2>5. CASE a = None /\ Creates(h, b)
    <3>1. Record!Create
      BY <2>1, <2>3, <2>5 DEF Creates, Record!Create
    <3> QED BY <2>1, <3>1 DEF Record!Write
  <2>6. CASE a # None /\ Continues(h, k, a, b)
    <3>1. Record!OwnWrite
      BY <2>1, <2>3, <2>4, <2>6 DEF Continues, Record!OwnWrite, Record!NewVersion, Ended,
         Record!Terminal, Terminal
    <3> QED BY <2>1, <3>1 DEF Record!Write
  <2>7. CASE a # None /\ Drains(h, k, a, b)
    <3>1. Record!Drain
      BY <2>1, <2>3, <2>4, <2>7 DEF Drains, Record!Drain, Record!NewVersion, Ended,
         Record!Terminal, Terminal
    <3> QED BY <2>1, <3>1 DEF Record!Write
  <2>8. CASE a # None /\ TakesOver(h, k, a, b)
    <3>1. Record!TakeOver
      BY <2>1, <2>3, <2>4, <2>8 DEF TakesOver, Record!TakeOver, Record!NewVersion, Ended,
         Record!Terminal, Terminal, Stale, Record!Expired
    <3> QED BY <2>1, <3>1 DEF Record!Write
  <2> QED BY <2>2, <2>5, <2>6, <2>7, <2>8 DEF Replaces
<1>4. ASSUME NEW h \in Hosts, HostStep(h),
             ~(Post(h) \/ PostTwice(h) \/ Patch(h) \/ ResponseLost(h))
      PROVE  UNCHANGED <<Authoritative, clock>>
  BY <1>4, <1>r, ReadEffect
<1> QED BY <1>1, <1>2, <1>3, <1>4 DEF Next

\* With calls that do not overlap the issue, its comments and the requests
\* on them are one record that is created once, written by the owner of its
\* claim, and taken over only when requeued or expired.
THEOREM IsRecord == ~Overlap /\ Spec => RefinesRecord
<1>1. Init => Record!Init
  BY DEF Init, Record!Init, Authoritative, Present
<1>2. TypeOK /\ TypeOK' /\ FirstCommentStays /\ FirstCommentStays' /\ Serial /\ [Next]_vars
        => [Record!Write \/ Record!Tick]_<<Authoritative, clock>>
  BY RecordStep
<1> QED
  BY <1>1, <1>2, CallsAreSerial, FirstStays, TypeCorrect, PTL
  DEF Spec, RefinesRecord, Record!Spec
=============================================================================
