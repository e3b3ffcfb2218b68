---------------------------- MODULE Adjudication ----------------------------
(***************************************************************************)
(* The life of review findings over the rounds of one run: findings.py and *)
(* the parts of foreman.py that use it.  A review wave plans who answers   *)
(* which proposal, consumes the results of its lanes in seat order, defers *)
(* what policy lets it, and archives what is settled; the developer then   *)
(* answers every finding that is still open, or the run goes to the gate.  *)
(*                                                                         *)
(* A wave and an answer are turns, numbered in order: review-1 is turn 1,  *)
(* response-1 is turn 2, and so on.  What a crash does to a wave is the    *)
(* subject of ForemanRun; here every turn is a sequence of whole steps.    *)
(***************************************************************************)
EXTENDS Integers, Sequences, FiniteSets

CONSTANTS
  Seats,      \* reviewer lanes, in the order of the review policy
  Claims,     \* what a reviewer may claim; a claim has its place in a file
  Overlaps,   \* pairs of claims whose line ranges overlap
  Ids,        \* finding ids, which reviewers choose freely
  Reasons,    \* rationales of a rebuttal, as normalize_claim tells them apart
  MaxRounds,  \* max_review_rounds
  MaxReports  \* bound on the reports of one run

Lanes == {Seats[i] : i \in DOMAIN Seats}

ASSUME AdjudicationAssumption ==
  /\ Seats \in Seq(Lanes) /\ Seats # <<>>
  /\ \A i, j \in DOMAIN Seats : Seats[i] = Seats[j] => i = j
  /\ Overlaps \subseteq Claims \X Claims
  /\ \A p \in Overlaps : <<p[2], p[1]>> \in Overlaps
  /\ MaxRounds \in Nat /\ MaxReports \in Nat
  /\ {"developer", "foreman"} \cap Lanes = {}

Developer == "developer"
Foreman == "foreman"
None == 0
Turns == 1 .. 2 * MaxRounds + 1
Heads == 1 .. MaxRounds + 1

\* key is what finding_dedup_key digests: the head and the claim with its
\* place.  group holds the ids of the conflict group, {} outside of one.
Finding == [id : Ids, claim : Claims, head : Heads, lane : Lanes, turn : Turns,
            severity : {"minor", "major"}, status : {"open", "deferred", "accepted"},
            group : SUBSET Ids, sources : SUBSET Lanes]
Disposition == [finding : Ids, action : {"fix", "rebut", "accept", "reply_deferred"},
                by : Lanes \cup {Developer, Foreman}, turn : Turns,
                to : Turns \cup {None}, why : Reasons \cup {None}]
Report == [lane : Lanes, claim : Claims, head : Heads, turn : Turns,
           severity : {"minor", "major"}]

VARIABLES
  phase,      \* where the run is
  turn, head, \* of the wave or of the answer that comes next
  findings,   \* state.findings, and the registry of the wave
  archived,   \* state.archived
  history,    \* state.dispositions
  requests,   \* the proposals that each seat of the wave decides on
  seat,       \* the next seat whose result is consumed
  failed,     \* some result of the wave was not usable
  reports     \* what reviewers reported in results that were used
vars == <<phase, turn, head, findings, archived, history, requests, seat, failed, reports>>

NoRequests == [l \in Lanes |-> {}]

TypeOK ==
  /\ phase \in {"planning", "reviewing", "coding", "clear", "escalated"}
  /\ turn \in Turns /\ head \in Heads
  /\ findings \subseteq Finding /\ archived \subseteq Finding
  /\ history \subseteq Disposition
  /\ requests \in [Lanes -> SUBSET Ids]
  /\ seat \in 1 .. Len(Seats) + 1 /\ failed \in BOOLEAN
  /\ reports \subseteq Report
  /\ \A f, g \in findings \cup archived : f.id = g.id => f = g

Init ==
  /\ phase = "planning" /\ turn = 1 /\ head = 1
  /\ findings = {} /\ archived = {} /\ history = {} /\ reports = {}
  /\ requests = NoRequests /\ seat = 1 /\ failed = FALSE
----------------------------------------------------------------------------
(* The registry.                                                           *)

SameKey(f, g) == f.claim = g.claim /\ f.head = g.head

Conflict(f, g) == f.lane # g.lane /\ <<f.claim, g.claim>> \in Overlaps /\ f.claim # g.claim

\* The connected component of f under Conflict.
Component(S, f) ==
  {g.id : g \in {x \in S : \A T \in SUBSET S :
     (f \in T /\ \A y \in T, z \in S : Conflict(y, z) => z \in T) => x \in T}}

Contested(S, f) == \E g \in S : Conflict(f, g)

\* detect_conflicts: every group is computed anew.
DetectConflicts(S) ==
  {[f EXCEPT !.group = IF Contested(S, f) THEN Component(S, f) ELSE {}] : f \in S}

Higher(s, t) == IF "major" \in {s, t} THEN "major" ELSE "minor"

\* Mutants of Merge: the first report keeps its severity, or its sources.
MergeSources(e, f) == [e EXCEPT !.sources = e.sources \cup f.sources]
MergeSeverity(e, f) == [e EXCEPT !.severity = Higher(e.severity, f.severity)]

\* _merge_duplicate_findings: the established finding with what the other
\* one adds.
Merge(e, f) == [e EXCEPT !.severity = Higher(e.severity, f.severity),
                         !.sources = e.sources \cup f.sources]

\* The errors of reconcile and of _apply_review_result.
IdReused(S, f) == \E e \in S : e.id = f.id /\ ~SameKey(e, f)
Contradicts(S, f) == \E e \in S : SameKey(e, f) /\ e.status # f.status
IdArchived(f) == \E a \in archived : a.id = f.id

\* Mutant of Refused: a report about something settled is merged.
RefusedUnlessSettled(S, f) == IdReused(S, f) \/ IdArchived(f)

Refused(S, f) == IdReused(S, f) \/ Contradicts(S, f) \/ IdArchived(f)

\* reconcile, where it does not raise: a repeated report adds to the finding
\* that has its key, any other one is a finding of its own.
Reconcile(S, new) ==
  {IF \E f \in new : SameKey(e, f) THEN Merge(e, CHOOSE f \in new : SameKey(e, f)) ELSE e : e \in S}
    \cup {f \in new : ~ \E e \in S : SameKey(e, f)}
----------------------------------------------------------------------------
(* Proposals and who decides on them.                                      *)

Open(S) == {f \in S : f.status = "open"}
ResponsesTo(f) == {d \in history : d.finding = f.id}

\* _pending_proposals: the last decision on f when it is an answer of the
\* developer.
Pending(f) ==
  {d \in ResponsesTo(f) : d.by = Developer /\ \A e \in ResponsesTo(f) : e.turn <= d.turn}

FixRequired(f) == \E d \in ResponsesTo(f) : d.action = "fix" /\ d.to # None

\* Mutant of NeedsIndependent: a conflict does not count.
NeedsIndependentIfRefused(S, f) == FixRequired(f)

NeedsIndependent(S, f) == f.group # {} \/ FixRequired(f)

Origins(S, f) == {f.lane} \cup {g.lane : g \in {x \in S : f.group # {} /\ x.group = f.group}}

\* _adjudicator: the lane itself, or the first lane that is no origin; {}
\* when there is none.
Adjudicator(S, f) ==
  IF ~NeedsIndependent(S, f) THEN {f.lane}
  ELSE LET free == {i \in DOMAIN Seats : Seats[i] \notin Origins(S, f)}
       IN {Seats[i] : i \in {j \in free : \A k \in free : j <= k}}

Escalate == phase' = "escalated"
----------------------------------------------------------------------------
(* A wave.                                                                 *)

\* _begin_review_round and _plan_review_seats.
Plan ==
  /\ phase = "planning"
  /\ LET S == DetectConflicts(findings)
         asked == {f \in Open(S) : Pending(f) # {}}
     IN IF turn > 2 * MaxRounds - 1 \/ \E f \in asked : Adjudicator(S, f) = {}
        THEN Escalate /\ UNCHANGED <<findings, requests>>
        ELSE /\ phase' = "reviewing"
             /\ findings' = S
             /\ requests' = [l \in Lanes |-> {f.id : f \in {x \in asked : l \in Adjudicator(S, x)}}]
  /\ seat' = 1 /\ failed' = FALSE
  /\ UNCHANGED <<turn, head, archived, history, reports>>

Proposal(id) == CHOOSE d \in history : \E f \in findings : f.id = id /\ d \in Pending(f)

\* What a lane may report: nothing, or one finding of its own.
NewFindings(l) ==
  {[id |-> i, claim |-> c, head |-> head, lane |-> l, turn |-> turn, severity |-> s,
    status |-> "open", group |-> {}, sources |-> {l}]
     : i \in Ids, c \in Claims, s \in {"minor", "major"}}

\* _consume_review_outcome of a result with these decisions and the reports
\* new, at most one: it is used as a whole or not at all.
Use(l, accepted, new) ==
  LET settled == {IF f.id \in accepted THEN [f EXCEPT !.status = "accepted"] ELSE f : f \in findings}
  IN IF \E f \in new : Refused(settled, f)
     THEN failed' = TRUE /\ UNCHANGED <<findings, history, reports>>
     ELSE /\ findings' = Reconcile(settled, new)
          /\ history' = history \cup
               {[finding |-> id, action |-> IF id \in accepted THEN "accept" ELSE "fix", by |-> l,
                 turn |-> turn, to |-> Proposal(id).turn, why |-> None] : id \in requests[l]}
          /\ reports' = reports \cup
               {[lane |-> l, claim |-> f.claim, head |-> f.head, turn |-> turn,
                 severity |-> f.severity] : f \in new}
          /\ UNCHANGED failed

Consume ==
  /\ phase = "reviewing" /\ seat <= Len(Seats)
  /\ seat' = seat + 1
  /\ LET l == Seats[seat]
     IN \/ \E accepted \in SUBSET requests[l] :
             \/ Use(l, accepted, {})
             \/ \E f \in NewFindings(l) : Cardinality(reports) < MaxReports /\ Use(l, accepted, {f})
        \/ failed' = TRUE /\ UNCHANGED <<findings, history, reports>>
  /\ UNCHANGED <<phase, turn, head, archived, requests>>

\* Mutant of Deferable: contested findings are deferred too.
DeferableIfMinor(f) == f.severity = "minor"

\* _deferable_finding, after detect_conflicts.
Deferable(f) == f.severity = "minor" /\ f.group = {}

\* _settle_review_findings, compact, _persist_round, _save_review_progress.
\* The check for stagnation may stop the run; ForemanRun models it.
Settle ==
  /\ phase = "reviewing" /\ seat = Len(Seats) + 1
  /\ LET S == DetectConflicts(findings)
         minor == {f \in Open(S) : Deferable(f)}
         settled == {IF f \in minor THEN [f EXCEPT !.status = "deferred"] ELSE f : f \in S}
     IN /\ findings' = {f \in settled : f.status # "accepted"}
        /\ archived' = archived \cup {f \in settled : f.status = "accepted"}
        /\ history' = history \cup
             {[finding |-> f.id, action |-> "reply_deferred", by |-> Foreman, turn |-> turn,
               to |-> None, why |-> None] : f \in minor}
        /\ \/ phase' = "escalated"
           \/ ~failed /\ Open(settled) # {} /\ phase' = "coding"
           \/ ~failed /\ Open(settled) = {} /\ phase' = "clear"
  /\ turn' = turn + 1
  /\ requests' = NoRequests
  /\ UNCHANGED <<head, seat, failed, reports>>
----------------------------------------------------------------------------
(* An answer of the developer.                                             *)

\* Mutant of Repeated: only the last rebuttal is looked at.
RepeatedLast(f, why) ==
  \E p \in ResponsesTo(f), d \in ResponsesTo(f) :
    /\ p.action = "rebut" /\ p.why = why /\ p.turn = turn - 2
    /\ d.action = "fix" /\ d.to = p.turn

\* _reject_repeated_rebuttals: this rationale was refused before.
Repeated(f, why) ==
  \E p \in ResponsesTo(f), d \in ResponsesTo(f) :
    /\ p.action = "rebut" /\ p.why = why
    /\ d.action = "fix" /\ d.to = p.turn

\* _record_proposals: one answer to each open finding; the checkout may have
\* been changed by it.
Respond ==
  /\ phase = "coding"
  /\ \E answers \in [Open(findings) -> Reasons \cup {None}] :
       IF \E f \in Open(findings) : answers[f] # None /\ Repeated(f, answers[f])
       THEN Escalate /\ UNCHANGED history
       ELSE /\ phase' = "planning"
            /\ history' = history \cup
                 {[finding |-> f.id, action |-> IF answers[f] = None THEN "fix" ELSE "rebut",
                   by |-> Developer, turn |-> turn, to |-> None, why |-> answers[f]]
                    : f \in Open(findings)}
  /\ turn' = turn + 1
  /\ head' \in {head, head + 1}
  /\ UNCHANGED <<findings, archived, requests, seat, failed, reports>>

\* _settle_gate: required checks failed, and the developer works on them; no
\* finding is open, so none is answered.
Remediate ==
  /\ phase = "clear"
  /\ phase' = "planning"
  /\ turn' = turn + 1
  /\ head' \in {head, head + 1}
  /\ UNCHANGED <<findings, archived, history, requests, seat, failed, reports>>

Next == Plan \/ Consume \/ Settle \/ Respond \/ Remediate
Spec == Init /\ [][Next]_vars
----------------------------------------------------------------------------
(* Properties.                                                             *)

Known == findings \cup archived

\* findings.py:252-258, 536-560: whatever a reviewer reported in a result that
\* was used is a finding or an archived one, and names the reviewer among its
\* sources, however often it was merged and settled.
NothingLost ==
  \A r \in reports : \E f \in Known : SameKey(f, r) /\ r.lane \in f.sources

\* A reviewer accepted the answer that the developer gave last to f.
AnswerAccepted(f) ==
  \E d, p \in ResponsesTo(f) :
    /\ d.action = "accept" /\ d.by \in Lanes
    /\ p.by = Developer /\ p.turn = d.to
    /\ \A q \in ResponsesTo(f) : q.by = Developer /\ q.turn < d.turn => q.turn <= p.turn

\* foreman.py:1319-1347, 1606-1620: nothing leaves the open findings but by a
\* reviewer who accepts the answer of the developer, or, where no reviewer
\* has rated it major since it was found, by the policy, unless
\* another lane still contests it; and the gate is reached with none open.
SettledByRight ==
  /\ \A f \in archived : AnswerAccepted(f)
  /\ \A f \in findings, r \in reports :
       f.status = "deferred" /\ SameKey(f, r) /\ r.turn >= f.turn => r.severity = "minor"
  /\ \A f \in findings, g \in Known : Conflict(f, g) =>
       \A d \in ResponsesTo(f) : d.action = "reply_deferred" /\ g.turn <= d.turn =>
         \E e \in ResponsesTo(g) : e.action = "accept" /\ e.turn < d.turn
  /\ phase = "clear" => Open(findings) = {}

\* foreman.py:1632-1649: an answer to a finding that another lane contests, or
\* that a reviewer refused before, is decided by a lane that neither reported
\* the finding nor contests it.
IndependentAdjudicator ==
  \A l \in Lanes : \A f \in findings :
    LET rivals == {g \in findings : Conflict(f, g) /\ g.turn < turn}
        refused == \E d \in ResponsesTo(f) : d.action = "fix" /\ d.by \in Lanes /\ d.turn < turn
    IN (f.id \in requests[l] /\ (refused \/ rivals # {})) =>
         l # f.lane /\ \A g \in rivals : g.lane # l

\* foreman.py:1708-1727: a rebuttal that was refused is never made again with
\* the same rationale, however many rounds lie in between.
NoRebuttalTwice ==
  \A p, d, q \in history :
    (/\ p.action = "rebut" /\ d.action = "fix" /\ d.to = p.turn /\ d.finding = p.finding
     /\ q.action = "rebut" /\ q.finding = p.finding /\ q.turn > d.turn) => q.why # p.why

\* findings.py:463-467, 519-536: a finding that is settled keeps its outcome,
\* its severity and its id for good.
SettledStays ==
  [][\A f \in Known : f.status # "open" =>
       \E g \in findings' \cup archived' :
         g.id = f.id /\ g.status = f.status /\ g.severity = f.severity /\ SameKey(g, f)]_vars
=============================================================================
