-------------------------- MODULE MCReconcilePlan --------------------------
(* Bundles for TLC: one item in every situation, and two items that cross. *)
EXTENDS ReconcilePlan

Untracked ==
  [phase |-> "none", run |-> None, claim |-> "none", branch |-> None, pr |-> None,
   published |-> FALSE, disposed |-> FALSE, ci |-> FALSE]
Unclaimed(i, r, phase) == [Untracked EXCEPT !.phase = phase, !.run = r]
Claimed(i, r, phase, claim, branch) ==
  [Unclaimed(i, r, phase) EXCEPT !.claim = claim, !.branch = branch]

\* Every observation of item 1 on run 1.
Situations ==
  {Untracked} \cup {Unclaimed(1, 1, p) : p \in {"active", "terminal"}} \cup
  {o \in [phase : {"active", "terminal"}, run : {1}, claim : {"fresh", "stale"},
          branch : {None, 1}, pr : {None, 1}, published : BOOLEAN, disposed : BOOLEAN,
          ci : BOOLEAN] :
     /\ o.pr # None => o.branch # None
     /\ o.claim = "stale" \/ o.phase = "terminal" => ~o.disposed /\ ~o.ci}

Sess(id, i, r, lane, ended, success, old) ==
  [id |-> id, item |-> i, run |-> r, lane |-> lane, ended |-> ended,
   success |-> success, old |-> old]

Rev == CHOOSE l \in Reviewers : TRUE
Rev2 == CHOOSE l \in Reviewers \ {Rev} : TRUE
OwnSessions ==
  {Sess(11, 1, 1, Developer, FALSE, FALSE, FALSE), Sess(12, 1, 1, Developer, FALSE, FALSE, TRUE),
   Sess(13, 1, 1, Developer, TRUE, TRUE, FALSE), Sess(14, 1, 1, Developer, TRUE, FALSE, TRUE),
   Sess(15, 1, 1, Rev, FALSE, FALSE, FALSE), Sess(16, 1, 1, Rev, TRUE, TRUE, FALSE),
   Sess(17, 1, 2, Developer, FALSE, FALSE, TRUE), Sess(18, 1, 1, Rev2, FALSE, FALSE, FALSE)}

Trees(i) == [branch : {i}, committed : BOOLEAN, pushed : BOOLEAN, old : BOOLEAN,
             default : {FALSE}]
Prs(i) == {{}} \cup {{[branch |-> i, moved |-> m]} : m \in BOOLEAN}

OneItem ==
  [obs : {[i \in Items |-> IF i = 1 THEN o ELSE Untracked] : o \in Situations},
   sessions : {S \in SUBSET OwnSessions : Cardinality(S) <= 3},
   trees : {{}} \cup {{t} : t \in Trees(1)}, prs : Prs(1)]

\* Two items, on one run or two, on one branch or two, that see each other's
\* sessions and worktrees.
Brief(i, r, b) ==
  {Untracked, Unclaimed(i, r, "active"), Claimed(i, r, "active", "fresh", None),
   Claimed(i, r, "active", "fresh", b), Claimed(i, r, "active", "stale", b),
   Claimed(i, r, "terminal", "fresh", b), Unclaimed(i, r, "terminal"),
   [Claimed(i, r, "active", "fresh", b) EXCEPT !.pr = b, !.published = TRUE]}

CrossedSessions ==
  {Sess(12, 1, 1, Developer, FALSE, FALSE, TRUE), Sess(13, 1, 1, Developer, TRUE, TRUE, FALSE),
   Sess(21, 2, 2, Developer, FALSE, FALSE, TRUE), Sess(22, 2, 1, Rev, TRUE, TRUE, TRUE)}
Old(i) == [branch |-> i, committed |-> FALSE, pushed |-> FALSE, old |-> TRUE, default |-> FALSE]
Default == [Old(2) EXCEPT !.default = TRUE]

TwoItems ==
  UNION {[obs : {[i \in Items |-> IF i = 1 THEN o ELSE p] :
                   o \in Brief(1, 1, 1), p \in Brief(2, r, b)},
          sessions : SUBSET CrossedSessions,
          trees : {{}, {Old(1)}, {Old(2)}, {Default}, {Old(1), Old(2)}}, prs : {{}}]
         : r \in Runs, b \in Items}

MCInputs == OneItem \cup TwoItems
=============================================================================
