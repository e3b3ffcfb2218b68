--------------------------- MODULE ReconcilePlan ---------------------------
(***************************************************************************)
(* The recovery planner (reconcile.py): one pass over all work items, from *)
(* what GitHub, CAO and git show to a set of actions.  The pass is a pure  *)
(* function; the module has one step, taken once on every bundle of        *)
(* observations in Inputs.                                                 *)
(*                                                                         *)
(* Clocks are compared, never read, so an observation carries the result   *)
(* of the comparison: a lease is fresh or stale, a session or a worktree   *)
(* is past its TTL or not, a commit or a push is newer than the claim.     *)
(***************************************************************************)
EXTENDS Naturals, FiniteSets

CONSTANTS
  Items,      \* work items, numbered in the order of inputs_list
  Runs,       \* run ids
  Reviewers,  \* lanes with role reviewer
  Names,      \* session ids
  Inputs      \* bundles of observations to plan for

ASSUME PlanAssumption == Items \subseteq Nat \ {0} /\ IsFiniteSet(Items)

Developer == "developer"
Lanes == Reviewers \cup {Developer}
None == 0

\* What the issue says.  branch and pr are those of the claim; a branch is
\* named by the item it belongs to, and so is its pull request.
Observation ==
  [phase : {"none", "active", "terminal"}, run : Runs \cup {None},
   claim : {"none", "fresh", "stale"}, branch : Items \cup {None}, pr : Items \cup {None},
   published : BOOLEAN,     \* a finding carries a thread_id
   disposed : BOOLEAN,      \* there are findings, all of them have a disposition
   ci : BOOLEAN]            \* a gate decision without pending checks

Session == [id : Names, item : Items \cup {None}, run : Runs, lane : Lanes,
            ended : BOOLEAN, success : BOOLEAN, old : BOOLEAN]
Worktree == [branch : Items, committed : BOOLEAN, pushed : BOOLEAN, old : BOOLEAN,
             default : BOOLEAN]
PullRequest == [branch : Items, moved : BOOLEAN]

Bundle == [obs : [Items -> Observation], sessions : SUBSET Session,
           trees : SUBSET Worktree, prs : SUBSET PullRequest]

Manual == {"escalate", "halt"}
Recovery == {"resume", "collect", "relaunch"}
Cleanup == {"clean_session", "clean_worktree"}
Kinds == Manual \cup Recovery \cup Cleanup \cup {"noop"}

\* by is the item whose observation led to the action, item the one that it
\* names; target is the session or branch that a clean-up removes.
Action == [kind : Kinds, by : Items, item : Items \cup {None}, run : Runs \cup {None},
           target : Names \cup Items \cup {None}]

\* A claim is read from the state (claim_from_state).
ASSUME InputAssumption ==
  \A b \in Inputs : b \in Bundle /\ \A i \in Items : b.obs[i].phase = "none" => b.obs[i].claim = "none"

VARIABLES inputs, plan
planVars == <<inputs, plan>>

PlanTypeOK == inputs \in Inputs /\ plan \subseteq Action
----------------------------------------------------------------------------
(* Observations of item i in bundle b.                                     *)

HasState(b, i) == b.obs[i].phase # "none"
HasClaim(b, i) == b.obs[i].claim # "none"
HasBranch(b, i) == HasClaim(b, i) /\ b.obs[i].branch # None
HasPr(b, i) == HasClaim(b, i) /\ b.obs[i].pr # None
Fresh(b, i) == b.obs[i].claim = "fresh"

OfItem(b, i) == {s \in b.sessions : s.item = i}
OfRun(b, i) == IF HasState(b, i) THEN {s \in b.sessions : s.run = b.obs[i].run} ELSE {}
Live(S) == {s \in S : ~s.ended}
Ended(S) == {s \in S : s.ended}
Coding(b, i) == {s \in OfItem(b, i) : s.lane = Developer}
Reviewing(b, i) == {s \in OfItem(b, i) : s.lane \in Reviewers}
OneLane(S) == Cardinality({s.lane : s \in S}) = 1

TreeOf(b, i) == {t \in b.trees : HasBranch(b, i) /\ t.branch = b.obs[i].branch}
CoderSucceeded(b, i) == \E s \in Coding(b, i) : s.ended /\ s.success
CommitRecorded(b, i) == CoderSucceeded(b, i) /\ \E t \in TreeOf(b, i) : t.committed
BranchPushed(b, i) == \E t \in TreeOf(b, i) : t.pushed

\* By the number of the claim, or by its branch.
RecordedHeadMoved(b, i) ==
  HasPr(b, i) /\ \E p \in b.prs : p.branch = b.obs[i].pr /\ p.moved
BranchHeadMoved(b, i) ==
  HasBranch(b, i) /\ \E p \in b.prs : p.branch = b.obs[i].branch /\ p.moved

\* Mutant of LiveSessions and LiveBranches: only the item being planned.
LiveSessionsOf(b, i) ==
  {s \in OfItem(b, i) : Fresh(b, i) /\ s.run = b.obs[i].run}

\* What some item holds a live lease for, over the whole list of inputs.
LiveSessions(b, i) ==
  {s \in b.sessions : \E j \in Items : Fresh(b, j) /\ s.item = j /\ s.run = b.obs[j].run}
LiveBranches(b) == {b.obs[j].branch : j \in {k \in Items : Fresh(b, k) /\ HasBranch(b, k)}}
----------------------------------------------------------------------------
(* The plan for one item.                                                  *)

Act(b, i, kind) ==
  [kind |-> kind, by |-> i, item |-> i, run |-> b.obs[i].run, target |-> None]

\* _plan_duplicate_sessions: the verdict on the sessions of the run.
Duplicates(b, i) ==
  LET all == OfRun(b, i)
      live == Live(all)
      ended == Ended(all)
  IN IF Cardinality(all) < 2 THEN "none"
     ELSE IF Cardinality(live) >= 2 /\ OneLane(live) THEN "escalate"
     ELSE IF live # {} /\ ended # {} THEN (IF OneLane(all) THEN "escalate" ELSE "collect")
     ELSE "none"

Row(holds, kind) == [holds |-> holds, kind |-> kind]

\* _CRASH_DECISION_TABLE: the order of the rows is their priority.
Table(b, i) ==
  LET claim == HasClaim(b, i)
      pr == HasPr(b, i)
      branch == HasBranch(b, i)
      active == Live(OfItem(b, i)) # {}
      coded == Ended(Coding(b, i)) # {}
      reviewed == Ended(Reviewing(b, i)) # {}
      o == b.obs[i]
  IN <<Row(BranchHeadMoved(b, i), "halt"),
       Row(HasState(b, i) /\ ~Fresh(b, i) /\ o.phase # "terminal", "escalate"),
       Row(Cardinality(Live(Coding(b, i))) >= 2, "escalate"),
       Row(claim /\ pr /\ ~reviewed /\ ~active, "resume"),
       Row(claim /\ pr /\ reviewed /\ ~o.published, "collect"),
       Row(claim /\ pr /\ o.published /\ ~o.disposed, "relaunch"),
       Row(claim /\ pr /\ o.disposed /\ ~o.ci, "resume"),
       Row(claim /\ o.disposed /\ o.ci /\ ~pr, "relaunch"),
       Row(claim /\ pr /\ o.phase # "terminal", "resume"),
       Row(claim /\ coded /\ CoderSucceeded(b, i) /\ ~CommitRecorded(b, i), "collect"),
       Row(claim /\ coded /\ CommitRecorded(b, i) /\ ~BranchPushed(b, i), "collect"),
       Row(claim /\ ~branch /\ Fresh(b, i), "resume"),
       Row(branch /\ ~pr /\ BranchPushed(b, i) /\ ~active, "resume"),
       Row(branch /\ TreeOf(b, i) # {} /\ ~active, "relaunch"),
       Row(claim /\ active /\ ~coded, "collect"),
       Row(o.phase = "terminal", "noop"),
       Row(~HasState(b, i), "noop")>>

\* _plan_crash_point: the first row that applies, if any.
CrashPoint(b, i) ==
  LET table == Table(b, i)
      rows == {k \in DOMAIN table : table[k].holds}
  IN {Act(b, i, table[k].kind) : k \in {m \in rows : \A n \in rows : m <= n}}

OrphanSessions(b, i) ==
  {[kind |-> "clean_session", by |-> i, item |-> s.item, run |-> None, target |-> s.id]
     : s \in {x \in b.sessions : x.item # None /\ x.old /\ x \notin LiveSessions(b, i)}}

OrphanWorktrees(b, i) ==
  {[kind |-> "clean_worktree", by |-> i, item |-> None, run |-> None,
    target |-> t.branch]
     : t \in {x \in b.trees : x.old /\ ~x.default /\ x.branch \notin LiveBranches(b)}}

\* Mutant of PlanOne: a terminal item is planned for like any other.
PlanOneAlways(b, i) ==
  IF RecordedHeadMoved(b, i) THEN {Act(b, i, "halt")}
  ELSE IF Duplicates(b, i) # "none" THEN {Act(b, i, Duplicates(b, i))}
  ELSE CrashPoint(b, i) \cup OrphanSessions(b, i) \cup OrphanWorktrees(b, i)

\* _plan_one: terminal items first, then what stops the planner, then the
\* crash point together with the orphans.
PlanOne(b, i) ==
  IF b.obs[i].phase = "terminal" THEN {Act(b, i, "noop")}
  ELSE IF RecordedHeadMoved(b, i) THEN {Act(b, i, "halt")}
  ELSE IF HasState(b, i) /\ b.obs[i].claim = "stale" THEN {Act(b, i, "escalate")}
  ELSE IF Duplicates(b, i) # "none" THEN {Act(b, i, Duplicates(b, i))}
  ELSE CrashPoint(b, i) \cup OrphanSessions(b, i) \cup OrphanWorktrees(b, i)
----------------------------------------------------------------------------
(* The plan for all items.                                                 *)

\* Mutant of Finalize: one branch action per run and branch.
FinalizeByBranch(b, actions) ==
  {a \in actions : a.kind = "relaunch" =>
     ~ \E e \in actions : /\ e.kind = "relaunch" /\ e.run = a.run /\ e.by < a.by
                          /\ b.obs[e.by].branch = b.obs[a.by].branch}

\* _finalize: the first branch action of a run is kept.
Finalize(b, actions) ==
  {a \in actions : a.kind = "relaunch" =>
     ~ \E e \in actions : e.kind = "relaunch" /\ e.run = a.run /\ e.by < a.by}

\* plan_many; a plan without actions is the single NOOP, shown here as {}.
PlanMany(b) == Finalize(b, UNION {PlanOne(b, i) : i \in Items})

PlanInit == inputs \in Inputs /\ plan = {}

\* aipro reconcile plans once and prints what it found.
Reconcile == plan = {} /\ plan' = PlanMany(inputs) /\ UNCHANGED inputs

PlanNext == Reconcile
PlanSpec == PlanInit /\ [][PlanNext]_planVars
----------------------------------------------------------------------------
(* Properties.                                                             *)

\* reconcile.py:25-28, 1159-1184: at most one action of a plan creates or
\* moves a branch of a given run, whichever items claim that run.
OneBranchPerRun ==
  \A a, c \in plan : a.kind = "relaunch" /\ c.kind = "relaunch" /\ a.run = c.run => a = c

\* reconcile.py:46-68: nothing that some item holds a live lease for is
\* cleaned, whichever item the plan was made for; nor is a default branch,
\* something younger than its TTL, or a session that names no item.
NothingLeasedCleaned ==
  \A a \in plan :
    /\ a.kind = "clean_session" =>
         \E s \in inputs.sessions :
           /\ s.id = a.target /\ s.old /\ s.item # None
           /\ ~ (Fresh(inputs, s.item) /\ inputs.obs[s.item].run = s.run)
    /\ a.kind = "clean_worktree" =>
         \E t \in inputs.trees :
           /\ t.branch = a.target /\ t.old /\ ~t.default
           /\ \A j \in Items : Fresh(inputs, j) => inputs.obs[j].branch # t.branch

\* reconcile.py:697-703, 763-791: work is resumed, collected or launched again
\* only for an item that is not terminal and whose lease has not expired,
\* since another foreman may own it by then.
RecoveryNeedsLease ==
  \A a \in plan : a.kind \in Recovery =>
    inputs.obs[a.item].phase = "active" /\ inputs.obs[a.item].claim # "stale"
=============================================================================
