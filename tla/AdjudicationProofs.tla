------------------------- MODULE AdjudicationProofs -------------------------
(***************************************************************************)
(* What the findings of a run keep for any number of lanes, claims and     *)
(* rounds.  A finding keeps its identity (id, key, lane, turn) from the    *)
(* report that made it to the archive, so that every step can be told by   *)
(* what it does to one finding; and decisions are numbered by turns, so    *)
(* that what is decided now never counts for an earlier turn.              *)
(***************************************************************************)
EXTENDS Adjudication, TLAPS

\* What never changes in a finding.
Same(f, g) ==
  /\ f.id = g.id /\ f.claim = g.claim /\ f.head = g.head
  /\ f.lane = g.lane /\ f.turn = g.turn

\* Waves have odd turns, answers even ones; heads come with answers.
Numbered ==
  /\ phase = "reviewing" => turn <= 2 * MaxRounds - 1
  /\ phase \in {"coding", "clear"} => turn <= 2 * MaxRounds /\ 2 * head <= turn
  /\ phase \in {"planning", "reviewing"} => 2 * head <= turn + 1

\* A decision is about a finding there is; only a lane of the wave decides in
\* the turn that is not over, and on an answer that was given before.
Decided(d) ==
  /\ d.turn <= turn
  /\ d.turn = turn => phase = "reviewing" /\ d.by \in Lanes
  /\ d.by \in Lanes => d.to # None /\ d.action # "reply_deferred"
  /\ d.to < d.turn
  /\ \E f \in Known : f.id = d.finding

\* What was reported in this wave is not settled yet.
Told(r) ==
  /\ r.turn <= turn
  /\ r.turn = turn => phase = "reviewing" /\ \E f \in findings : SameKey(f, r)

\* A lane is asked about findings that wait for it, and for it alone.
Asked ==
  /\ phase # "reviewing" => requests = NoRequests
  /\ \A l \in Lanes : \A id \in requests[l] :
       /\ \E f \in findings : f.id = id /\ f.status # "deferred"
       /\ \A m \in Lanes : id \in requests[m] => m = l
Waits ==
  \A i \in DOMAIN Seats : \A f \in findings :
    i >= seat /\ f.id \in requests[Seats[i]] => Pending(f) # {}

\* A finding is as severe as its reports, and only minor ones are deferred.
Severe ==
  /\ \A f \in findings, r \in reports :
       SameKey(f, r) /\ r.turn >= f.turn /\ r.severity = "major" => f.severity = "major"
  /\ \A f \in findings : f.status = "deferred" => f.severity = "minor"

\* What is accepted was accepted by a lane, and what is archived in an
\* earlier turn.
Accepted == \A f \in findings : f.status = "accepted" => AnswerAccepted(f)
Archived ==
  \A f \in archived :
    /\ f.status = "accepted" /\ AnswerAccepted(f)
    /\ \E e \in ResponsesTo(f) : e.action = "accept" /\ e.turn < turn

\* A finding was deferred when no other lane contested it.
Uncontested ==
  \A f \in findings, g \in Known : Conflict(f, g) =>
    \A d \in ResponsesTo(f) : d.action = "reply_deferred" /\ g.turn <= d.turn =>
      \E e \in ResponsesTo(g) : e.action = "accept" /\ e.turn < d.turn

FindingsInv ==
  /\ TypeOK /\ Numbered
  /\ \A f \in findings, a \in archived : f.id # a.id
  /\ \A d \in history : Decided(d)
  /\ \A r \in reports : Told(r)
  /\ Asked /\ Waits
  /\ NothingLost
  /\ Severe /\ Accepted /\ Archived /\ Uncontested
  /\ (phase = "clear" => Open(findings) = {})
  /\ IndependentAdjudicator
  /\ NoRebuttalTwice
----------------------------------------------------------------------------
(* The operators of the registry.                                          *)

LEMMA SeatsAre ==
  /\ DOMAIN Seats \subseteq Int /\ \A i \in DOMAIN Seats : Seats[i] \in Lanes
  /\ Len(Seats) \in Nat /\ DOMAIN Seats = 1 .. Len(Seats)
  /\ \A i, j \in DOMAIN Seats : Seats[i] = Seats[j] => i = j
  /\ Developer \notin Lanes /\ Foreman \notin Lanes /\ MaxRounds \in Nat
<1>1. Seats \in Seq(Lanes)
  BY AdjudicationAssumption
<1>2. DOMAIN Seats = 1 .. Len(Seats) /\ Len(Seats) \in Nat
  BY <1>1
<1>3. \A i \in DOMAIN Seats : Seats[i] \in Lanes
  BY DEF Lanes
<1>4. Developer \notin Lanes /\ Foreman \notin Lanes
  BY AdjudicationAssumption DEF Developer, Foreman
<1> QED
  BY <1>2, <1>3, <1>4, AdjudicationAssumption

LEMMA ConflictBoth == ASSUME NEW f, NEW g, Conflict(f, g) PROVE Conflict(g, f)
BY AdjudicationAssumption DEF Conflict

\* Two conflicting findings are in one conflict group.
LEMMA OneComponent ==
  ASSUME NEW S, NEW f \in S, NEW g \in S, Conflict(f, g)
  PROVE  Component(S, f) = Component(S, g) /\ f.id \in Component(S, f)
<1> DEFINE Closed(T) == \A y \in T, z \in S : Conflict(y, z) => z \in T
           Reached(e) == {x \in S : \A T \in SUBSET S : (e \in T /\ Closed(T)) => x \in T}
<1>1. \A T \in SUBSET S : Closed(T) => (f \in T <=> g \in T)
  BY ConflictBoth
<1>2. Reached(f) = Reached(g) /\ f \in Reached(f)
  <2> HIDE DEF Closed
  <2> QED BY <1>1
<1>3. Component(S, f) = {x.id : x \in Reached(f)} /\ Component(S, g) = {x.id : x \in Reached(g)}
  BY DEF Component
<1> HIDE DEF Reached
<1> QED BY <1>2, <1>3

LEMMA AdjudicatorIs ==
  ASSUME NEW S, NEW f
  PROVE  /\ \A l, m \in Adjudicator(S, f) : l = m
         /\ NeedsIndependent(S, f) => \A l \in Adjudicator(S, f) : l \notin Origins(S, f)
<1> DEFINE free == {i \in DOMAIN Seats : Seats[i] \notin Origins(S, f)}
           first == {j \in free : \A k \in free : j <= k}
<1>1. CASE ~NeedsIndependent(S, f)
  BY <1>1 DEF Adjudicator
<1>2. CASE NeedsIndependent(S, f)
  <2>1. Adjudicator(S, f) = {Seats[i] : i \in first}
    BY <1>2 DEF Adjudicator
  <2>2. \A i, j \in first : i = j
    BY SeatsAre
  <2>3. \A i \in first : Seats[i] \notin Origins(S, f)
    OBVIOUS
  <2> HIDE DEF first
  <2> QED BY <2>1, <2>2, <2>3
<1> QED BY <1>1, <1>2

\* A finding with its conflict group, and with a decision on it.
Regroup(S, f) == [f EXCEPT !.group = IF Contested(S, f) THEN Component(S, f) ELSE {}]
Decide(f, accepted) == IF f.id \in accepted THEN [f EXCEPT !.status = "accepted"] ELSE f

LEMMA RegroupIs ==
  ASSUME NEW S, S \subseteq Finding, NEW f \in S
  PROVE  /\ Regroup(S, f) \in Finding /\ Same(f, Regroup(S, f))
         /\ Regroup(S, f).severity = f.severity /\ Regroup(S, f).status = f.status
         /\ Regroup(S, f).sources = f.sources
         /\ Regroup(S, f).group = IF Contested(S, f) THEN Component(S, f) ELSE {}
<1> DEFINE group == IF Contested(S, f) THEN Component(S, f) ELSE {}
<1>1. f \in Finding /\ Component(S, f) \subseteq Ids
  BY DEF Component, Finding
<1>2. group \in SUBSET Ids
  BY <1>1
<1>3. Regroup(S, f) = [f EXCEPT !.group = group]
  BY DEF Regroup
<1> HIDE DEF group
<1>4. /\ Regroup(S, f) \in Finding /\ Same(f, Regroup(S, f))
      /\ Regroup(S, f).severity = f.severity /\ Regroup(S, f).status = f.status
      /\ Regroup(S, f).sources = f.sources
      /\ Regroup(S, f).group = group
  BY <1>1, <1>2, <1>3 DEF Same, Finding
<1> QED BY <1>4 DEF group

LEMMA DetectIs == ASSUME NEW S PROVE DetectConflicts(S) = {Regroup(S, f) : f \in S}
BY DEF DetectConflicts, Regroup

LEMMA DecideIs ==
  ASSUME NEW f \in Finding, NEW accepted
  PROVE  /\ Decide(f, accepted) \in Finding /\ Same(f, Decide(f, accepted))
         /\ Decide(f, accepted).severity = f.severity
         /\ Decide(f, accepted).sources = f.sources
         /\ Decide(f, accepted).group = f.group
         /\ Decide(f, accepted).status = IF f.id \in accepted THEN "accepted" ELSE f.status
BY DEF Decide, Finding, Same

LEMMA MergeIs ==
  ASSUME NEW e \in Finding, NEW f \in Finding
  PROVE  /\ Merge(e, f) \in Finding /\ Same(e, Merge(e, f))
         /\ Merge(e, f).status = e.status /\ Merge(e, f).group = e.group
         /\ Merge(e, f).sources = e.sources \cup f.sources
         /\ Merge(e, f).severity = Higher(e.severity, f.severity)
<1> DEFINE sources == e.sources \cup f.sources
           severity == Higher(e.severity, f.severity)
<1>1. sources \in SUBSET Lanes /\ severity \in {"minor", "major"}
  BY DEF Higher, Finding
<1>2. Merge(e, f) = [e EXCEPT !.severity = severity, !.sources = sources]
  BY DEF Merge
<1> HIDE DEF sources, severity
<1>3. /\ Merge(e, f) \in Finding /\ Same(e, Merge(e, f))
      /\ Merge(e, f).status = e.status /\ Merge(e, f).group = e.group
      /\ Merge(e, f).sources = sources /\ Merge(e, f).severity = severity
  BY <1>1, <1>2 DEF Same, Finding
<1> QED BY <1>3 DEF sources, severity

\* An established finding with what the reports of one result, at most one,
\* add to it.
Grow(e, new) ==
  IF \E f \in new : SameKey(e, f) THEN Merge(e, CHOOSE f \in new : SameKey(e, f)) ELSE e

LEMMA ReconcileIs ==
  ASSUME NEW S, NEW new
  PROVE  Reconcile(S, new) =
           {Grow(e, new) : e \in S} \cup {f \in new : ~ \E e \in S : SameKey(e, f)}
BY DEF Reconcile, Grow

LEMMA GrowIs ==
  ASSUME NEW e \in Finding, NEW new, new \subseteq Finding, \A x, y \in new : x = y
  PROVE  /\ Grow(e, new) \in Finding /\ Same(e, Grow(e, new))
         /\ Grow(e, new).status = e.status
         /\ e.sources \subseteq Grow(e, new).sources
         /\ e.severity = "major" => Grow(e, new).severity = "major"
         /\ \A n \in new : SameKey(e, n) =>
              /\ n.sources \subseteq Grow(e, new).sources
              /\ n.severity = "major" => Grow(e, new).severity = "major"
         /\ (~ \E n \in new : SameKey(e, n)) => Grow(e, new) = e
<1>1. CASE ~ \E n \in new : SameKey(e, n)
  <2>1. Grow(e, new) = e
    BY <1>1 DEF Grow
  <2> QED BY <1>1, <2>1 DEF Same
<1>2. ASSUME NEW n \in new, SameKey(e, n)
      PROVE  /\ Grow(e, new) \in Finding /\ Same(e, Grow(e, new))
             /\ Grow(e, new).status = e.status
             /\ e.sources \subseteq Grow(e, new).sources
             /\ e.severity = "major" => Grow(e, new).severity = "major"
             /\ n.sources \subseteq Grow(e, new).sources
             /\ n.severity = "major" => Grow(e, new).severity = "major"
  <2>1. (CHOOSE f \in new : SameKey(e, f)) = n
    BY <1>2
  <2>2. Grow(e, new) = Merge(e, n)
    BY <1>2, <2>1 DEF Grow
  <2>3. n \in Finding
    OBVIOUS
  <2>4. /\ Merge(e, n) \in Finding /\ Same(e, Merge(e, n))
        /\ Merge(e, n).status = e.status
        /\ Merge(e, n).sources = e.sources \cup n.sources
        /\ Merge(e, n).severity = Higher(e.severity, n.severity)
    BY <2>3, MergeIs
  <2>5. "major" \in {e.severity, n.severity} => Higher(e.severity, n.severity) = "major"
    BY DEF Higher
  <2> QED BY <2>2, <2>4, <2>5
<1>3. CASE \E n \in new : SameKey(e, n)
  <2>1. PICK n \in new : SameKey(e, n)
    BY <1>3
  <2>2. \A x \in new : x = n
    BY <2>1
  <2> QED BY <1>2, <1>3, <2>1, <2>2
<1> QED BY <1>1, <1>3

\* An accepted answer stays the last one when decisions of this turn are added.
LEMMA AcceptedStays ==
  ASSUME \A d \in history : d.turn \in Nat /\ d.turn <= turn, turn \in Nat,
         history \subseteq history', \A d \in history' \ history : d.turn = turn,
         NEW f, NEW g, f.id = g.id, AnswerAccepted(f)
  PROVE  /\ AnswerAccepted(g)'
         /\ \E e \in ResponsesTo(g)' : e.action = "accept" /\ e.turn <= turn
<1>1. PICK d \in ResponsesTo(f), p \in ResponsesTo(f) :
        /\ d.action = "accept" /\ d.by \in Lanes
        /\ p.by = Developer /\ p.turn = d.to
        /\ \A q \in ResponsesTo(f) : q.by = Developer /\ q.turn < d.turn => q.turn <= p.turn
  BY DEF AnswerAccepted
<1>2. d \in history /\ d.turn <= turn /\ d.turn \in Nat
      /\ d \in ResponsesTo(g)' /\ p \in ResponsesTo(g)'
  BY <1>1 DEF ResponsesTo
<1>3. ASSUME NEW q \in ResponsesTo(g)', q.by = Developer, q.turn < d.turn
      PROVE  q.turn <= p.turn
  <2>1. q \in history' /\ q.finding = f.id
    BY DEF ResponsesTo
  <2>2. q \in history
    BY <1>2, <1>3, <2>1
  <2> QED BY <1>1, <1>3, <2>1, <2>2 DEF ResponsesTo
<1> QED BY <1>1, <1>2, <1>3 DEF AnswerAccepted
----------------------------------------------------------------------------
(* The steps.                                                              *)

\* What SettledStays says of one step.
Stays ==
  \A f \in Known : f.status # "open" =>
    \E g \in findings' \cup archived' :
      g.id = f.id /\ g.status = f.status /\ g.severity = f.severity /\ SameKey(g, f)

LEMMA InitFindings == Init => FindingsInv
<1> SUFFICES ASSUME Init PROVE FindingsInv
  OBVIOUS
<1> USE SeatsAre
<1>a. 1 \in Turns /\ 1 \in Heads /\ 1 \in 1 .. Len(Seats) + 1
  BY DEF Turns, Heads
<1>b. NoRequests \in [Lanes -> SUBSET Ids]
  BY DEF NoRequests
<1>1. TypeOK
  BY <1>a, <1>b DEF Init, TypeOK
<1>2. Numbered /\ Asked /\ Waits
  BY DEF Init, Numbered, Asked, Waits, NoRequests
<1>3. /\ NothingLost /\ Severe /\ Accepted /\ Archived /\ Uncontested
      /\ IndependentAdjudicator /\ NoRebuttalTwice
  BY DEF Init, NothingLost, Severe, Accepted, Archived, Uncontested, IndependentAdjudicator,
     NoRebuttalTwice
<1> QED BY <1>1, <1>2, <1>3 DEF Init, FindingsInv

\* Steps that leave the findings and the reports alone and only add answers.
LEMMA AnswerStep ==
  ASSUME FindingsInv, UNCHANGED <<findings, archived, requests, reports>>,
         requests = NoRequests, phase' \notin {"reviewing", "clear"},
         Numbered', phase' \in {"planning", "coding", "escalated"},
         turn' \in Turns, turn' >= turn, head' \in Heads, seat' \in 1 .. Len(Seats) + 1,
         failed' \in BOOLEAN, phase # "reviewing",
         history \subseteq history', history' \subseteq Disposition,
         history' # history => turn' = turn + 1,
         \A d \in history' \ history :
           /\ d.turn = turn /\ d.by = Developer /\ d.to = None
           /\ d.action \in {"fix", "rebut"}
           /\ \E f \in findings : f.id = d.finding
           /\ d.action = "rebut" =>
                \A p, e \in history :
                  (/\ p.finding = d.finding /\ e.finding = d.finding /\ p.action = "rebut"
                   /\ e.action = "fix" /\ e.to = p.turn) => p.why # d.why
  PROVE  FindingsInv' /\ Stays
<1> USE DEF FindingsInv
<1>1. TypeOK'
  BY DEF TypeOK
<1>2. Known' = Known /\ Stays
  BY DEF Known, Stays, SameKey
<1>t. turn \in Nat /\ turn' \in Nat /\ turn >= 1
      /\ \A d \in history' : d.turn \in Nat /\ d.to \in Nat /\ d.turn >= 1
  BY SeatsAre DEF TypeOK, Turns, Disposition, None
<1>n. \A l \in Lanes : requests'[l] = {}
  BY DEF NoRequests
<1>3. \A d \in history' : Decided(d)'
  <2>1. ASSUME NEW d \in history PROVE Decided(d)'
    BY <1>t, <1>2, <2>1 DEF Decided
  <2>2. ASSUME NEW d \in history' \ history PROVE Decided(d)'
    <3>1. d.turn = turn /\ turn' = turn + 1 /\ d.by = Developer /\ d.to = None
      BY <2>2
    <3>2. \E f \in Known : f.id = d.finding
      BY <2>2 DEF Known
    <3> QED BY <1>t, <1>2, <3>1, <3>2, SeatsAre DEF Decided, None
  <2> QED BY <2>1, <2>2
<1>4. \A r \in reports' : Told(r)'
  <2>1. \A r \in reports : r.turn \in Nat
    BY SeatsAre DEF TypeOK, Report, Turns
  <2> QED BY <1>t, <2>1 DEF Told
<1>5. Asked' /\ Waits'
  BY <1>n, SeatsAre DEF Asked, Waits
<1>6. NothingLost' /\ Severe'
  BY <1>2 DEF NothingLost, Severe, SameKey
<1>a. ASSUME NEW f, AnswerAccepted(f) PROVE AnswerAccepted(f)'
  <2>1. \A d \in history : d.turn \in Nat /\ d.turn <= turn
    BY <1>t DEF Decided
  <2> QED BY <1>a, <1>t, <2>1, AcceptedStays
<1>7. Accepted' /\ Archived'
  <2>1. ASSUME NEW f \in archived
        PROVE  \E e \in ResponsesTo(f)' : e.action = "accept" /\ e.turn < turn'
    <3>1. PICK e \in ResponsesTo(f) : e.action = "accept" /\ e.turn < turn
      BY DEF Archived
    <3> QED BY <1>t, <3>1 DEF ResponsesTo
  <2> QED BY <1>a, <2>1 DEF Accepted, Archived
<1>8. Uncontested'
  <2> SUFFICES ASSUME NEW f \in findings, NEW g \in Known, Conflict(f, g),
                      NEW d \in ResponsesTo(f)', d.action = "reply_deferred", g.turn <= d.turn
               PROVE  \E e \in ResponsesTo(g)' : e.action = "accept" /\ e.turn < d.turn
    BY <1>2 DEF Uncontested, Conflict
  <2>1. d \in ResponsesTo(f)
    BY DEF ResponsesTo
  <2>2. PICK e \in ResponsesTo(g) : e.action = "accept" /\ e.turn < d.turn
    BY <2>1 DEF Uncontested
  <2> QED BY <2>2 DEF ResponsesTo
<1>9. IndependentAdjudicator'
  BY <1>n DEF IndependentAdjudicator
<1>10. NoRebuttalTwice'
  <2> SUFFICES ASSUME NEW x \in history', NEW d \in history', NEW q \in history',
                      x.action = "rebut", d.action = "fix", d.to = x.turn,
                      d.finding = x.finding, q.action = "rebut", q.finding = x.finding,
                      q.turn > d.turn
               PROVE  q.why # x.why
    BY DEF NoRebuttalTwice
  <2>1. d \in history
    BY <1>t DEF None
  <2>2. x \in history
    <3>1. d.to < d.turn /\ d.turn <= turn
      BY <2>1 DEF Decided
    <3> QED BY <1>t, <3>1
  <2>3. CASE q \in history
    BY <2>1, <2>2, <2>3 DEF NoRebuttalTwice
  <2>4. CASE q \notin history
    BY <2>1, <2>2, <2>4
  <2> QED BY <2>3, <2>4
<1> QED
  BY <1>1, <1>2, <1>3, <1>4, <1>5, <1>6, <1>7, <1>8, <1>9, <1>10

LEMMA RespondStep ==
  ASSUME FindingsInv, Respond \/ Remediate
  PROVE  FindingsInv' /\ Stays
<1>m. MaxRounds \in Nat /\ Len(Seats) \in Nat /\ Developer \notin Lanes
  BY SeatsAre
<1>1. /\ phase \in {"coding", "clear"} /\ turn' = turn + 1 /\ head' \in {head, head + 1}
      /\ UNCHANGED <<findings, archived, requests, seat, failed, reports>>
      /\ phase' \in {"planning", "escalated"}
  BY DEF Respond, Remediate, Escalate
<1>2. /\ turn <= 2 * MaxRounds /\ 2 * head <= turn /\ turn \in Nat /\ head \in Nat /\ head >= 1
      /\ turn >= 1
  BY <1>1, <1>m DEF FindingsInv, Numbered, TypeOK, Turns, Heads
<1>3. turn' \in Turns /\ head' \in Heads /\ Numbered'
  <2>1. turn' = turn + 1 /\ turn' \in Turns
    BY <1>1, <1>2, <1>m DEF Turns
  <2>2. head' \in Nat /\ head' >= 1 /\ head' <= head + 1
    BY <1>1, <1>2
  <2>3. head' <= MaxRounds + 1 /\ 2 * head' <= turn' + 1
    <3>1. \A t, h, m \in Nat : t <= 2 * m /\ 2 * h <= t => h <= m /\ 2 * h <= t + 2
      OBVIOUS
    <3>2. \A t, h \in Nat : 2 * h <= t => 2 * (h + 1) <= t + 1 + 1
      OBVIOUS
    <3>3. CASE head' = head
      BY <3>1, <3>3, <2>1, <1>2, <1>m
    <3>4. CASE head' = head + 1
      BY <3>1, <3>2, <3>4, <2>1, <1>2, <1>m
    <3> QED BY <1>1, <3>3, <3>4
  <2>4. head' \in Heads
    BY <2>2, <2>3, <1>m DEF Heads
  <2>5. Numbered'
    BY <1>1, <1>2, <2>1, <2>3, <1>m DEF Numbered
  <2> QED BY <2>1, <2>4, <2>5
<1>4. requests = NoRequests
  BY <1>1 DEF FindingsInv, Asked
<1>5. /\ history \subseteq history' /\ history' \subseteq Disposition
      /\ \A d \in history' \ history :
           /\ d.turn = turn /\ d.by = Developer /\ d.to = None
           /\ d.action \in {"fix", "rebut"}
           /\ \E f \in findings : f.id = d.finding
           /\ d.action = "rebut" =>
                \A p, e \in history :
                  (/\ p.finding = d.finding /\ e.finding = d.finding /\ p.action = "rebut"
                   /\ e.action = "fix" /\ e.to = p.turn) => p.why # d.why
  <2>1. CASE UNCHANGED history
    BY <2>1 DEF FindingsInv, TypeOK
  <2>2. CASE Respond /\ history' # history
    <3>1. PICK answers \in [Open(findings) -> Reasons \cup {None}] :
            /\ ~ \E f \in Open(findings) : answers[f] # None /\ Repeated(f, answers[f])
            /\ history' = history \cup
                 {[finding |-> f.id, action |-> IF answers[f] = None THEN "fix" ELSE "rebut",
                   by |-> Developer, turn |-> turn, to |-> None, why |-> answers[f]]
                    : f \in Open(findings)}
      BY <2>2 DEF Respond
    <3>2. ASSUME NEW d \in history' \ history
          PROVE  /\ d \in Disposition
                 /\ d.turn = turn /\ d.by = Developer /\ d.to = None
                 /\ d.action \in {"fix", "rebut"}
                 /\ \E f \in findings : f.id = d.finding
                 /\ d.action = "rebut" =>
                      \A p, e \in history :
                        (/\ p.finding = d.finding /\ e.finding = d.finding /\ p.action = "rebut"
                         /\ e.action = "fix" /\ e.to = p.turn) => p.why # d.why
      <4>1. PICK f \in Open(findings) :
              d = [finding |-> f.id, action |-> IF answers[f] = None THEN "fix" ELSE "rebut",
                   by |-> Developer, turn |-> turn, to |-> None, why |-> answers[f]]
        BY <3>1
      <4>2. f \in findings /\ f.id \in Ids /\ answers[f] \in Reasons \cup {None}
            /\ turn \in Turns
        BY DEF Open, FindingsInv, TypeOK, Finding
      <4>3. d \in Disposition
        BY <4>1, <4>2 DEF Disposition
      <4>4. ASSUME NEW p \in history, NEW e \in history, d.action = "rebut",
                   p.finding = d.finding, e.finding = d.finding, p.action = "rebut",
                   e.action = "fix", e.to = p.turn, p.why = d.why
            PROVE  FALSE
        <5>1. answers[f] # None /\ d.why = answers[f] /\ d.finding = f.id
          BY <4>1, <4>4
        <5>2. p \in ResponsesTo(f) /\ e \in ResponsesTo(f)
          BY <4>4, <5>1 DEF ResponsesTo
        <5>3. Repeated(f, answers[f])
          BY <4>4, <5>1, <5>2 DEF Repeated
        <5> QED BY <3>1, <5>1, <5>3
      <4> QED BY <4>1, <4>2, <4>3, <4>4
    <3> QED BY <3>1, <3>2 DEF FindingsInv, TypeOK
  <2> QED BY <2>1, <2>2 DEF Remediate
<1>6. seat' \in 1 .. Len(Seats) + 1 /\ failed' \in BOOLEAN
  BY <1>1 DEF FindingsInv, TypeOK
<1> QED
  BY <1>1, <1>2, <1>3, <1>4, <1>5, <1>6, AnswerStep

LEMMA PlanStep ==
  ASSUME FindingsInv, Plan
  PROVE  FindingsInv' /\ Stays
<1>m. MaxRounds \in Nat /\ Len(Seats) \in Nat /\ Developer \notin Lanes
  BY SeatsAre
<1> DEFINE S == DetectConflicts(findings)
           asked == {f \in Open(S) : Pending(f) # {}}
<1>0. /\ phase = "planning" /\ seat' = 1 /\ failed' = FALSE
      /\ UNCHANGED <<turn, head, archived, history, reports>>
      /\ turn \in Nat /\ head \in Nat
  BY <1>m DEF Plan, FindingsInv, TypeOK, Turns, Heads
<1>e. requests = NoRequests
  BY <1>0 DEF FindingsInv, Asked
<1>1. CASE Escalate /\ UNCHANGED <<findings, requests>>
  <2>1. phase' = "escalated"
    BY <1>1 DEF Escalate
  <2>2. Numbered' /\ turn' \in Turns /\ head' \in Heads /\ history \subseteq Disposition
    BY <1>0, <2>1 DEF FindingsInv, TypeOK, Numbered
  <2>3. turn' >= turn /\ failed' \in BOOLEAN
    <3>1. turn' = turn /\ turn \in Nat
      BY <1>0
    <3>2. turn' >= turn
      BY <3>1
    <3> QED BY <1>0, <3>2
  <2>4. seat' \in 1 .. Len(Seats) + 1
    <3>1. Len(Seats) \in Nat
      BY SeatsAre
    <3>2. \A n \in Nat : 1 \in 1 .. n + 1
      OBVIOUS
    <3> QED BY <3>1, <3>2, <1>0
  <2> QED BY <1>0, <1>1, <1>e, <2>1, <2>2, <2>3, <2>4, AnswerStep
<1>2. CASE ~(Escalate /\ UNCHANGED <<findings, requests>>)
  <2>1. /\ turn <= 2 * MaxRounds - 1 /\ phase' = "reviewing" /\ findings' = S
        /\ requests' = [l \in Lanes |-> {f.id : f \in {x \in asked : l \in Adjudicator(S, x)}}]
    <3>1. Plan /\ ~(Escalate /\ UNCHANGED <<findings, requests>>)
      BY <1>2
    <3>2. ~(turn > 2 * MaxRounds - 1) /\ phase' = "reviewing" /\ findings' = S
          /\ requests' = [l \in Lanes |-> {f.id : f \in {x \in asked : l \in Adjudicator(S, x)}}]
      BY <3>1 DEF Plan
    <3>3. turn <= 2 * MaxRounds - 1
      <4>1. \A t, m \in Nat : ~(t > 2 * m - 1) => t <= 2 * m - 1
        OBVIOUS
      <4> QED BY <3>2, <4>1, <1>0, <1>m
    <3> QED BY <3>2, <3>3
  <2>s. S = {Regroup(findings, f) : f \in findings} /\ findings \subseteq Finding
        /\ archived \subseteq Finding
    BY DetectIs DEF FindingsInv, TypeOK
  <2>r. \A f \in findings :
          LET g == Regroup(findings, f) IN
            /\ g \in S /\ g \in Finding /\ Same(f, g) /\ g.severity = f.severity
            /\ g.status = f.status /\ g.sources = f.sources
            /\ g.group = IF Contested(findings, f) THEN Component(findings, f) ELSE {}
    BY <2>s, RegroupIs
  <2>f. \A f \in findings : \E g \in S :
          /\ Same(f, g) /\ g.severity = f.severity /\ g.status = f.status
          /\ g.sources = f.sources
    BY <2>r
  <2>b. \A g \in S : g \in Finding /\ \E f \in findings :
          /\ Same(f, g) /\ g.severity = f.severity /\ g.status = f.status
          /\ g.sources = f.sources
          /\ g.group = IF Contested(findings, f) THEN Component(findings, f) ELSE {}
    BY <2>s, <2>r
  <2>u. \A g, x \in S : g.id = x.id => g = x
    <3> SUFFICES ASSUME NEW g \in S, NEW x \in S, g.id = x.id PROVE g = x
      OBVIOUS
    <3>1. PICK f1 \in findings : g = Regroup(findings, f1)
      BY <2>s
    <3>2. PICK f2 \in findings : x = Regroup(findings, f2)
      BY <2>s
    <3>3. f1.id = f2.id
      BY <3>1, <3>2, <2>r DEF Same
    <3>4. f1 = f2
      BY <3>3 DEF FindingsInv, TypeOK
    <3> QED BY <3>1, <3>2, <3>4
  <2>q. ASSUME NEW l \in Lanes
        PROVE  \A id \in requests'[l] : \E f \in S :
                 f.id = id /\ f.status = "open" /\ Pending(f) # {} /\ l \in Adjudicator(S, f)
    BY <2>1 DEF Open
  <2> HIDE DEF S, asked
  <2>2. TypeOK'
    <3>1. requests' \in [Lanes -> SUBSET Ids]
      <4>1. ASSUME NEW l \in Lanes PROVE requests'[l] \subseteq Ids
        BY <2>q, <2>b DEF Finding
      <4>2. requests' = [l \in Lanes |-> requests'[l]]
        BY <2>1
      <4> QED BY <4>1, <4>2
    <3>2. \A f, g \in findings' \cup archived' : f.id = g.id => f = g
      <4>1. \A f \in S, a \in archived : f.id # a.id
        BY <2>b DEF FindingsInv, Same
      <4>2. \A f, g \in archived : f.id = g.id => f = g
        BY DEF FindingsInv, TypeOK
      <4>3. findings' = S /\ archived' = archived
        BY <1>0, <2>1
      <4> QED BY <4>1, <4>2, <4>3, <2>u
    <3>3. seat' \in 1 .. Len(Seats) + 1
      <4>1. Len(Seats) \in Nat
        BY SeatsAre
      <4>2. \A n \in Nat : 1 \in 1 .. n + 1
        OBVIOUS
      <4> QED BY <4>1, <4>2, <1>0
    <3> QED BY <1>0, <2>1, <2>b, <3>1, <3>2, <3>3 DEF FindingsInv, TypeOK
  <2>3. \A f \in findings', a \in archived' : f.id # a.id
    BY <1>0, <2>1, <2>b DEF FindingsInv, Same
  <2>4. Numbered'
    BY <1>0, <2>1 DEF FindingsInv, Numbered
  <2>k. /\ \A f \in Known : \E g \in Known' : Same(f, g) /\ f.sources \subseteq g.sources
        /\ \A g \in Known' : \E f \in Known : Same(f, g)
    BY <1>0, <2>1, <2>f, <2>b DEF Known, Same
  <2>5. \A d \in history' : Decided(d)'
    BY <1>0, <2>1, <2>k DEF FindingsInv, Decided, Same
  <2>6. \A r \in reports' : Told(r)'
    BY <1>0, <2>1 DEF FindingsInv, Told
  <2>7. Asked'
    <3>1. ASSUME NEW l \in Lanes, NEW id \in requests'[l]
          PROVE  /\ \E f \in findings' : f.id = id /\ f.status # "deferred"
                 /\ \A m \in Lanes : id \in requests'[m] => m = l
      <4>1. PICK f \in S : f.id = id /\ f.status = "open" /\ l \in Adjudicator(S, f)
        BY <2>q
      <4>2. ASSUME NEW m \in Lanes, id \in requests'[m] PROVE m = l
        <5>1. PICK g \in S : g.id = id /\ m \in Adjudicator(S, g)
          BY <2>q, <4>2
        <5>2. g = f
          BY <4>1, <5>1, <2>u
        <5> QED BY <4>1, <5>1, <5>2, AdjudicatorIs
      <4> QED BY <2>1, <4>1, <4>2
    <3> QED BY <2>1, <3>1 DEF Asked
  <2>8. Waits'
    <3> SUFFICES ASSUME NEW i \in DOMAIN Seats, NEW f \in findings', f.id \in requests'[Seats[i]]
                 PROVE  Pending(f)' # {}
      BY DEF Waits
    <3>1. PICK g \in S : g.id = f.id /\ Pending(g) # {}
      <4>1. Seats[i] \in Lanes
        BY DEF Lanes
      <4> QED BY <2>q, <4>1
    <3>2. g = f
      BY <2>1, <2>u, <3>1
    <3>3. Pending(f)' = Pending(f)
      BY <1>0 DEF Pending, ResponsesTo
    <3> QED BY <3>1, <3>2, <3>3
  <2>9. NothingLost'
    <3> SUFFICES ASSUME NEW r \in reports
                 PROVE  \E f \in Known' : SameKey(f, r) /\ r.lane \in f.sources
      BY <1>0 DEF NothingLost, SameKey
    <3>1. PICK f \in Known : SameKey(f, r) /\ r.lane \in f.sources
      BY DEF FindingsInv, NothingLost
    <3> QED BY <2>k, <3>1 DEF Same, SameKey
  <2>10. Severe'
    BY <1>0, <2>1, <2>b DEF FindingsInv, Severe, Same, SameKey
  <2>a. ASSUME NEW f, NEW g, f.id = g.id, AnswerAccepted(f) PROVE AnswerAccepted(g)'
    BY <1>0, <2>a DEF AnswerAccepted, ResponsesTo
  <2>11. Accepted'
    <3> SUFFICES ASSUME NEW g \in S, g.status = "accepted" PROVE AnswerAccepted(g)'
      BY <2>1 DEF Accepted
    <3>1. PICK f \in findings : Same(f, g) /\ g.status = f.status
      BY <2>b
    <3> QED BY <2>a, <3>1 DEF FindingsInv, Accepted, Same
  <2>12. Archived'
    BY <1>0, <2>a DEF FindingsInv, Archived, ResponsesTo
  <2>13. Uncontested'
    <3> SUFFICES ASSUME NEW f \in S, NEW g \in Known', Conflict(f, g),
                        NEW d \in ResponsesTo(f), d.action = "reply_deferred", g.turn <= d.turn
                 PROVE  \E e \in ResponsesTo(g) : e.action = "accept" /\ e.turn < d.turn
      BY <1>0, <2>1 DEF Uncontested, Conflict, ResponsesTo
    <3>1. PICK f0 \in findings : Same(f0, f)
      BY <2>b
    <3>2. PICK g0 \in Known : Same(g0, g)
      BY <2>k
    <3>3. Conflict(f0, g0) /\ ResponsesTo(f0) = ResponsesTo(f) /\ ResponsesTo(g0) = ResponsesTo(g)
      BY <3>1, <3>2 DEF Conflict, Same, ResponsesTo
    <3> QED BY <3>2, <3>3 DEF FindingsInv, Uncontested, Same
  <2>14. IndependentAdjudicator'
    <3> SUFFICES ASSUME NEW l \in Lanes, NEW f \in S, f.id \in requests'[l],
                        \/ \E d \in ResponsesTo(f) : d.action = "fix" /\ d.by \in Lanes
                        \/ \E g \in S : Conflict(f, g)
                 PROVE  l # f.lane /\ \A g \in S : Conflict(f, g) => g.lane # l
      BY <1>0, <2>1 DEF IndependentAdjudicator, Conflict, ResponsesTo
    <3>1. l \in Adjudicator(S, f)
      <4>1. PICK g \in S : g.id = f.id /\ l \in Adjudicator(S, g)
        BY <2>q
      <4> QED BY <2>u, <4>1
    <3>2. PICK f0 \in findings :
            /\ Same(f0, f)
            /\ f.group = IF Contested(findings, f0) THEN Component(findings, f0) ELSE {}
      BY <2>b
    <3>3. ASSUME NEW g \in S, Conflict(f, g)
          PROVE  f.group # {} /\ g.group = f.group
      <4>1. PICK g0 \in findings :
              /\ Same(g0, g)
              /\ g.group = IF Contested(findings, g0) THEN Component(findings, g0) ELSE {}
        BY <2>b
      <4>2. Conflict(f0, g0) /\ Conflict(g0, f0)
        BY <3>2, <3>3, <4>1, ConflictBoth DEF Conflict, Same
      <4>3. Contested(findings, f0) /\ Contested(findings, g0)
        BY <4>2 DEF Contested
      <4> QED BY <3>2, <4>1, <4>2, <4>3, OneComponent
    <3>4. NeedsIndependent(S, f)
      <4>1. CASE \E d \in ResponsesTo(f) : d.action = "fix" /\ d.by \in Lanes
        BY <4>1 DEF FindingsInv, Decided, ResponsesTo, NeedsIndependent, FixRequired
      <4>2. CASE \E g \in S : Conflict(f, g)
        BY <3>3, <4>2 DEF NeedsIndependent
      <4> QED BY <4>1, <4>2
    <3>5. l \notin Origins(S, f)
      BY <3>1, <3>4, AdjudicatorIs
    <3> QED BY <3>3, <3>5 DEF Origins
  <2>15. NoRebuttalTwice'
    BY <1>0 DEF FindingsInv, NoRebuttalTwice
  <2>16. Stays
    <3> SUFFICES ASSUME NEW f \in Known
                 PROVE  \E g \in findings' \cup archived' :
                          g.id = f.id /\ g.status = f.status /\ g.severity = f.severity
                          /\ SameKey(g, f)
      BY DEF Stays
    <3>1. CASE f \in archived
      BY <1>0, <3>1 DEF SameKey
    <3>2. CASE f \in findings
      BY <2>1, <2>f, <3>2 DEF Same, SameKey
    <3> QED BY <3>1, <3>2 DEF Known
  <2> QED
    BY <2>1, <2>2, <2>3, <2>4, <2>5, <2>6, <2>7, <2>8, <2>9, <2>10, <2>11, <2>12, <2>13, <2>14,
       <2>15, <2>16 DEF FindingsInv
<1> QED BY <1>1, <1>2

LEMMA SettleStep ==
  ASSUME FindingsInv, Settle
  PROVE  FindingsInv' /\ Stays
<1> DEFINE S == DetectConflicts(findings)
           minor == {f \in Open(S) : Deferable(f)}
           Defer(f) == IF f \in minor THEN [f EXCEPT !.status = "deferred"] ELSE f
           settled == {Defer(f) : f \in S}
           After(f) == Defer(Regroup(findings, f))
           Free(f) == f.status = "open" /\ f.severity = "minor"
                      /\ ~ \E g \in findings : Conflict(f, g)
<1>1. /\ phase = "reviewing" /\ turn' = turn + 1 /\ requests' = NoRequests
      /\ UNCHANGED <<head, seat, failed, reports>>
      /\ findings' = {f \in settled : f.status # "accepted"}
      /\ archived' = archived \cup {f \in settled : f.status = "accepted"}
      /\ history' = history \cup
           {[finding |-> f.id, action |-> "reply_deferred", by |-> Foreman, turn |-> turn,
             to |-> None, why |-> None] : f \in minor}
      /\ phase' \in {"escalated", "coding", "clear"}
      /\ phase' = "clear" => Open(settled) = {}
  BY DEF Settle
<1>2. settled = {After(f) : f \in findings} /\ findings \subseteq Finding
  BY DetectIs DEF FindingsInv, TypeOK
<1>t. /\ turn \in Nat /\ turn >= 1 /\ turn \in Turns /\ turn + 1 \in Turns
      /\ 2 * head <= turn + 1 /\ turn + 1 <= 2 * MaxRounds
      /\ \A d \in history : d.turn \in Nat /\ d.turn <= turn
      /\ \A r \in reports : r.turn \in Nat /\ r.turn <= turn
  <2>1. turn \in Turns /\ turn <= 2 * MaxRounds - 1 /\ MaxRounds \in Nat /\ 2 * head <= turn + 1
    BY <1>1, SeatsAre DEF FindingsInv, TypeOK, Numbered
  <2>2. \A d \in history : d.turn \in Nat /\ d.turn <= turn
    BY <2>1 DEF FindingsInv, TypeOK, Disposition, Turns, Decided
  <2>3. \A r \in reports : r.turn \in Nat /\ r.turn <= turn
    BY <2>1 DEF FindingsInv, TypeOK, Report, Turns, Told
  <2>4. turn \in Nat /\ turn >= 1 /\ turn + 1 \in Turns /\ turn + 1 <= 2 * MaxRounds
    BY <2>1 DEF Turns
  <2> QED BY <2>1, <2>2, <2>3, <2>4
<1>m. \A g \in minor : g \in S /\ g.status = "open" /\ g.severity = "minor" /\ g.group = {}
  BY DEF Open, Deferable
<1>r. ASSUME NEW f \in findings
      PROVE  /\ After(f) \in Finding /\ Same(f, After(f))
             /\ After(f).severity = f.severity /\ After(f).sources = f.sources
             /\ After(f).status # f.status => Free(f) /\ After(f).status = "deferred"
  <2> DEFINE g == Regroup(findings, f)
  <2>1. /\ g \in Finding /\ Same(f, g) /\ g.severity = f.severity
        /\ g.status = f.status /\ g.sources = f.sources
        /\ g.group = IF Contested(findings, f) THEN Component(findings, f) ELSE {}
    BY <1>2, RegroupIs
  <2>2. CASE g \notin minor
    BY <2>1, <2>2
  <2>3. CASE g \in minor
    <3>1. g.status = "open" /\ g.severity = "minor" /\ g.group = {}
      BY <1>m, <2>3
    <3>2. ~ \E h \in findings : Conflict(f, h)
      BY <2>1, <3>1, OneComponent DEF Contested
    <3>3. After(f) = [g EXCEPT !.status = "deferred"]
      BY <2>3
    <3>4. [g EXCEPT !.status = "deferred"] \in Finding
      BY <2>1 DEF Finding
    <3>5. /\ [g EXCEPT !.status = "deferred"].status = "deferred"
          /\ [g EXCEPT !.status = "deferred"].severity = g.severity
          /\ [g EXCEPT !.status = "deferred"].sources = g.sources
          /\ Same(g, [g EXCEPT !.status = "deferred"])
      BY <2>1 DEF Same, Finding
    <3> HIDE DEF minor, g
    <3> QED BY <2>1, <3>1, <3>2, <3>3, <3>4, <3>5 DEF Same
  <2> QED BY <2>2, <2>3
<1>h. \A d \in history' \ history :
        /\ d \in Disposition /\ d.action = "reply_deferred" /\ d.by = Foreman
        /\ d.turn = turn /\ d.to = None
        /\ \E f \in findings : f.id = d.finding /\ Free(f)
  <2> SUFFICES ASSUME NEW d \in history' \ history
               PROVE  /\ d \in Disposition /\ d.action = "reply_deferred" /\ d.by = Foreman
                      /\ d.turn = turn /\ d.to = None
                      /\ \E f \in findings : f.id = d.finding /\ Free(f)
    OBVIOUS
  <2>1. PICK g \in minor :
          d = [finding |-> g.id, action |-> "reply_deferred", by |-> Foreman, turn |-> turn,
               to |-> None, why |-> None]
    BY <1>1
  <2>2. g \in S /\ g.status = "open" /\ g.severity = "minor" /\ g.group = {}
    BY <1>m
  <2>3. PICK f \in findings : g = Regroup(findings, f)
    BY <2>2, DetectIs
  <2>4. /\ g \in Finding /\ Same(f, g) /\ g.severity = f.severity /\ g.status = f.status
        /\ g.group = IF Contested(findings, f) THEN Component(findings, f) ELSE {}
    BY <1>2, <2>3, RegroupIs
  <2>5. Free(f) /\ f.id = d.finding
    BY <2>1, <2>2, <2>4, OneComponent DEF Contested, Same
  <2>6. d \in Disposition
    BY <1>t, <2>1, <2>4 DEF Disposition, Finding
  <2> QED BY <2>1, <2>5, <2>6
<1>c. history \subseteq history'
  BY <1>1
<1> HIDE DEF S, minor, settled, After
<1>k. /\ \A f \in findings : \E g \in settled :
           /\ Same(f, g) /\ g.severity = f.severity /\ g.sources = f.sources
           /\ g.status # f.status => Free(f) /\ g.status = "deferred"
      /\ \A g \in settled : g \in Finding /\ \E f \in findings :
           /\ Same(f, g) /\ g.severity = f.severity /\ g.sources = f.sources
           /\ g.status # f.status => Free(f) /\ g.status = "deferred"
  BY <1>2, <1>r
<1>u. \A g, x \in settled : g.id = x.id => g = x
  <2> SUFFICES ASSUME NEW g \in settled, NEW x \in settled, g.id = x.id PROVE g = x
    OBVIOUS
  <2>1. PICK f1 \in findings : g = After(f1)
    BY <1>2
  <2>2. PICK f2 \in findings : x = After(f2)
    BY <1>2
  <2>3. f1.id = f2.id
    BY <2>1, <2>2, <1>r DEF Same
  <2>4. f1 = f2
    BY <2>3 DEF FindingsInv, TypeOK
  <2> QED BY <2>1, <2>2, <2>4
<1>n. Known' = archived \cup settled
  BY <1>1 DEF Known
<1>s. /\ \A f \in Known : \E g \in Known' : Same(f, g) /\ f.sources = g.sources
      /\ \A g \in Known' : \E f \in Known : Same(f, g)
  BY <1>k, <1>n DEF Known, Same
<1>l. \A l \in Lanes : requests'[l] = {}
  BY <1>1 DEF NoRequests
<1>3. TypeOK'
  <2>1. findings' \subseteq Finding /\ archived' \subseteq Finding
    BY <1>1, <1>k DEF FindingsInv, TypeOK
  <2>2. history' \subseteq Disposition
    BY <1>h DEF FindingsInv, TypeOK
  <2>3. requests' \in [Lanes -> SUBSET Ids]
    BY <1>1 DEF NoRequests
  <2>4. \A f, g \in findings' \cup archived' : f.id = g.id => f = g
    <3>1. \A f \in settled, a \in archived : f.id # a.id
      BY <1>k DEF FindingsInv, Same
    <3>2. \A f, g \in archived : f.id = g.id => f = g
      BY DEF FindingsInv, TypeOK
    <3> QED BY <1>n, <1>u, <3>1, <3>2 DEF Known
  <2>5. turn' \in Turns /\ head' \in Heads /\ phase' \in {"coding", "clear", "escalated"}
        /\ seat' \in 1 .. Len(Seats) + 1 /\ failed' \in BOOLEAN /\ reports' \subseteq Report
    BY <1>1, <1>t DEF FindingsInv, TypeOK
  <2> QED BY <2>1, <2>2, <2>3, <2>4, <2>5 DEF TypeOK
<1>4. \A f \in findings', a \in archived' : f.id # a.id
  <2> SUFFICES ASSUME NEW f \in findings', NEW a \in archived', f.id = a.id PROVE FALSE
    OBVIOUS
  <2>1. f \in settled /\ f.status # "accepted"
    BY <1>1
  <2>2. CASE a \in archived
    BY <1>k, <2>1, <2>2 DEF FindingsInv, Same
  <2>3. CASE a \in settled /\ a.status = "accepted"
    BY <1>u, <2>1, <2>3
  <2> QED BY <1>1, <2>2, <2>3
<1>5. Numbered'
  <2>1. phase' \in {"coding", "clear", "escalated"} /\ turn' <= 2 * MaxRounds /\ 2 * head' <= turn'
    BY <1>1, <1>t
  <2> QED BY <2>1 DEF Numbered
<1>6. \A d \in history' : Decided(d)'
  <2>1. ASSUME NEW d \in history PROVE Decided(d)'
    <3>1. d.turn <= turn' /\ d.turn # turn'
      BY <1>1, <1>t
    <3>2. \E f \in Known' : f.id = d.finding
      BY <1>s DEF FindingsInv, Decided, Same
    <3> QED BY <3>1, <3>2 DEF FindingsInv, Decided
  <2>2. ASSUME NEW d \in history' \ history PROVE Decided(d)'
    <3>1. d.turn <= turn' /\ d.turn # turn' /\ d.to < d.turn
      BY <1>1, <1>t, <1>h DEF None
    <3>2. \E f \in Known' : f.id = d.finding
      BY <1>h, <1>s DEF Known, Same
    <3>3. d.by \notin Lanes
      BY <1>h, SeatsAre
    <3> QED BY <3>1, <3>2, <3>3 DEF Decided
  <2> QED BY <2>1, <2>2
<1>7. \A r \in reports' : Told(r)'
  <2>1. \A r \in reports' : r.turn <= turn' /\ r.turn # turn'
    BY <1>1, <1>t
  <2> QED BY <2>1 DEF Told
<1>8. Asked' /\ Waits'
  BY <1>1, <1>l, SeatsAre DEF Asked, Waits
<1>9. NothingLost'
  <2> SUFFICES ASSUME NEW r \in reports
               PROVE  \E f \in Known' : SameKey(f, r) /\ r.lane \in f.sources
    BY <1>1 DEF NothingLost, SameKey
  <2>1. PICK f \in Known : SameKey(f, r) /\ r.lane \in f.sources
    BY DEF FindingsInv, NothingLost
  <2> QED BY <1>s, <2>1 DEF Same, SameKey
<1>10. Severe'
  <2>1. \A g \in findings' : \E f \in findings :
          /\ Same(f, g) /\ g.severity = f.severity
          /\ g.status # f.status => Free(f) /\ g.status = "deferred"
    BY <1>1, <1>k
  <2> QED BY <1>1, <2>1 DEF FindingsInv, Severe, Same, SameKey
<1>a. ASSUME NEW f, NEW g, f.id = g.id, AnswerAccepted(f)
      PROVE  /\ AnswerAccepted(g)'
             /\ \E e \in ResponsesTo(g)' : e.action = "accept" /\ e.turn < turn'
  <2>1. AnswerAccepted(g)' /\ \E e \in ResponsesTo(g)' : e.action = "accept" /\ e.turn <= turn
    BY <1>a, <1>c, <1>h, <1>t, AcceptedStays
  <2>2. \A e \in ResponsesTo(g)' : e.turn \in Nat
    BY <1>h, <1>t DEF ResponsesTo
  <2> QED BY <1>1, <1>t, <2>1, <2>2
<1>11. Accepted'
  BY <1>1 DEF Accepted
<1>12. Archived'
  <2> SUFFICES ASSUME NEW g \in archived'
               PROVE  /\ g.status = "accepted" /\ AnswerAccepted(g)'
                      /\ \E e \in ResponsesTo(g)' : e.action = "accept" /\ e.turn < turn'
    BY DEF Archived
  <2>1. CASE g \in archived
    BY <1>a, <2>1 DEF FindingsInv, Archived
  <2>2. CASE g \in settled /\ g.status = "accepted"
    <3>1. PICK f \in findings : Same(f, g) /\ f.status = "accepted"
      BY <1>k, <2>2
    <3>2. AnswerAccepted(f)
      BY <3>1 DEF FindingsInv, Accepted
    <3> QED BY <1>a, <2>2, <3>1, <3>2 DEF Same
  <2> QED BY <1>1, <2>1, <2>2
<1>13. Uncontested'
  <2> SUFFICES ASSUME NEW f \in findings', NEW g \in Known', Conflict(f, g),
                      NEW d \in ResponsesTo(f)', d.action = "reply_deferred", g.turn <= d.turn
               PROVE  \E e \in ResponsesTo(g)' : e.action = "accept" /\ e.turn < d.turn
    BY DEF Uncontested, Conflict
  <2>1. PICK f0 \in findings : Same(f0, f)
    BY <1>1, <1>k
  <2>2. PICK g0 \in Known : Same(g0, g)
    BY <1>s
  <2>3. Conflict(f0, g0) /\ g0.turn <= d.turn
    BY <2>1, <2>2 DEF Conflict, Same
  <2>4. ASSUME NEW e \in ResponsesTo(g0) PROVE e \in ResponsesTo(g)'
    BY <1>c, <2>2 DEF ResponsesTo, Same
  <2>5. d \in history' /\ d.finding = f0.id
    BY <2>1 DEF ResponsesTo, Same
  <2>6. CASE d \in history
    <3>1. d \in ResponsesTo(f0)
      BY <2>5, <2>6 DEF ResponsesTo
    <3> QED BY <2>3, <2>4, <3>1 DEF FindingsInv, Uncontested
  <2>7. CASE d \notin history
    <3>1. d.turn = turn /\ \E x \in findings : x.id = f0.id /\ Free(x)
      BY <1>h, <2>5, <2>7
    <3>2. Free(f0)
      BY <3>1 DEF FindingsInv, TypeOK
    <3>3. g0 \in archived
      BY <2>2, <2>3, <3>2 DEF Known
    <3> QED BY <2>4, <3>1, <3>3 DEF FindingsInv, Archived
  <2> QED BY <2>6, <2>7
<1>14. phase' = "clear" => Open(findings)' = {}
  BY <1>1 DEF Open
<1>15. IndependentAdjudicator'
  BY <1>l DEF IndependentAdjudicator
<1>16. NoRebuttalTwice'
  BY <1>h DEF FindingsInv, NoRebuttalTwice
<1>17. Stays
  <2> SUFFICES ASSUME NEW f \in Known, f.status # "open"
               PROVE  \E g \in findings' \cup archived' :
                        g.id = f.id /\ g.status = f.status /\ g.severity = f.severity
                        /\ SameKey(g, f)
    BY DEF Stays
  <2>1. CASE f \in archived
    BY <1>1, <2>1 DEF SameKey
  <2>2. CASE f \in findings
    BY <1>k, <1>n, <2>2 DEF Known, Same, SameKey
  <2> QED BY <2>1, <2>2 DEF Known
<1> QED
  BY <1>3, <1>4, <1>5, <1>6, <1>7, <1>8, <1>9, <1>10, <1>11, <1>12, <1>13, <1>14, <1>15, <1>16,
     <1>17 DEF FindingsInv

\* IndependentAdjudicator without its definitions.
Apart ==
  \A m \in Lanes, f \in findings :
    (/\ f.id \in requests[m]
     /\ \/ \E d \in ResponsesTo(f) : d.action = "fix" /\ d.by \in Lanes /\ d.turn < turn
        \/ \E h \in findings : Conflict(f, h) /\ h.turn < turn) =>
    m # f.lane /\ \A h \in findings : Conflict(f, h) /\ h.turn < turn => h.lane # m

LEMMA ApartIs == IndependentAdjudicator <=> Apart
BY DEF IndependentAdjudicator, Apart

\* A result that is used: what it decides and the reports new, at most one.
LEMMA UseStep ==
  ASSUME FindingsInv, phase = "reviewing", NEW l \in Lanes,
         NEW k \in DOMAIN Seats, seat = k, l = Seats[k], seat' = k + 1,
         UNCHANGED <<phase, turn, head, archived, requests>>, failed' \in BOOLEAN,
         NEW accepted \in SUBSET requests[l],
         NEW new, new \subseteq NewFindings(l), \A x, y \in new : x = y,
         \A n \in new : ~Refused({Decide(f, accepted) : f \in findings}, n),
         findings' = Reconcile({Decide(f, accepted) : f \in findings}, new),
         history' = history \cup
           {[finding |-> id, action |-> IF id \in accepted THEN "accept" ELSE "fix", by |-> l,
             turn |-> turn, to |-> Proposal(id).turn, why |-> None] : id \in requests[l]},
         reports' = reports \cup
           {[lane |-> l, claim |-> f.claim, head |-> f.head, turn |-> turn,
             severity |-> f.severity] : f \in new}
  PROVE  FindingsInv' /\ Stays
<1> DEFINE S == {Decide(f, accepted) : f \in findings}
           After(f) == Grow(Decide(f, accepted), new)
           Kept(f, g) ==
             /\ Same(f, g) /\ f.sources \subseteq g.sources
             /\ f.severity = "major" => g.severity = "major"
             /\ g.status = IF f.id \in accepted THEN "accepted" ELSE f.status
             /\ \A n \in new : SameKey(f, n) =>
                  /\ n.sources \subseteq g.sources
                  /\ n.severity = "major" => g.severity = "major"
             /\ g.status # "open" => g.severity = f.severity
           Fresh(n) ==
             /\ n \in new
             /\ \A f \in findings : ~SameKey(f, n)
             /\ \A f \in Known : f.id # n.id
<1>t. /\ turn \in Nat /\ turn >= 1 /\ turn \in Turns /\ head \in Heads
      /\ \A d \in history : d.turn \in Nat /\ d.turn <= turn
      /\ \A r \in reports : r.turn \in Nat /\ r.turn <= turn
  <2>1. turn \in Turns /\ head \in Heads /\ MaxRounds \in Nat
    BY SeatsAre DEF FindingsInv, TypeOK
  <2>2. \A d \in history : d.turn \in Nat /\ d.turn <= turn
    BY <2>1 DEF FindingsInv, TypeOK, Disposition, Turns, Decided
  <2>3. \A r \in reports : r.turn \in Nat /\ r.turn <= turn
    BY <2>1 DEF FindingsInv, TypeOK, Report, Turns, Told
  <2>4. turn \in Nat /\ turn >= 1
    BY <2>1 DEF Turns
  <2> QED BY <2>1, <2>2, <2>3, <2>4
<1>i. findings \subseteq Finding /\ archived \subseteq Finding /\ requests \in [Lanes -> SUBSET Ids]
  BY DEF FindingsInv, TypeOK
<1>w. \A n \in new :
        /\ n \in Finding /\ n.turn = turn /\ n.lane = l /\ n.status = "open"
        /\ n.sources = {l} /\ n.head = head
  BY <1>t DEF NewFindings, Finding
<1>d. \A f \in findings :
        LET e == Decide(f, accepted) IN
          /\ e \in S /\ e \in Finding /\ Same(f, e) /\ e.severity = f.severity
          /\ e.sources = f.sources
          /\ e.status = IF f.id \in accepted THEN "accepted" ELSE f.status
  BY <1>i, DecideIs
<1>v. \A n \in new, f \in findings :
        /\ SameKey(f, n) => (IF f.id \in accepted THEN "accepted" ELSE f.status) = "open"
        /\ f.id = n.id => SameKey(f, n)
  <2> SUFFICES ASSUME NEW n \in new, NEW f \in findings
               PROVE  /\ SameKey(f, n) =>
                           (IF f.id \in accepted THEN "accepted" ELSE f.status) = "open"
                      /\ f.id = n.id => SameKey(f, n)
    OBVIOUS
  <2>1. PICK e \in S : /\ Same(f, e)
                       /\ e.status = IF f.id \in accepted THEN "accepted" ELSE f.status
    BY <1>d
  <2>2. ~IdReused(S, n) /\ ~Contradicts(S, n)
    BY DEF Refused
  <2>3. SameKey(e, n) <=> SameKey(f, n)
    BY <2>1 DEF Same, SameKey
  <2>4. SameKey(e, n) => e.status = n.status
    BY <2>2 DEF Contradicts
  <2>5. e.id = n.id => SameKey(e, n)
    BY <2>2 DEF IdReused
  <2> QED BY <1>w, <2>1, <2>3, <2>4, <2>5 DEF Same
<1>r. ASSUME NEW f \in findings
      PROVE  After(f) \in Finding /\ Kept(f, After(f))
  <2> DEFINE e == Decide(f, accepted)
  <2>1. /\ e \in Finding /\ Same(f, e) /\ e.severity = f.severity
        /\ e.sources = f.sources
        /\ e.status = IF f.id \in accepted THEN "accepted" ELSE f.status
    BY <1>d
  <2>2. new \subseteq Finding
    BY <1>w
  <2> HIDE DEF e
  <2>3. /\ Grow(e, new) \in Finding /\ Same(e, Grow(e, new))
        /\ Grow(e, new).status = e.status
        /\ e.sources \subseteq Grow(e, new).sources
        /\ e.severity = "major" => Grow(e, new).severity = "major"
        /\ \A n \in new : SameKey(e, n) =>
             /\ n.sources \subseteq Grow(e, new).sources
             /\ n.severity = "major" => Grow(e, new).severity = "major"
        /\ (~ \E n \in new : SameKey(e, n)) => Grow(e, new) = e
    BY <2>1, <2>2, GrowIs
  <2>4. After(f) = Grow(e, new)
    BY DEF e
  <2>5. \A n \in new : SameKey(e, n) <=> SameKey(f, n)
    BY <2>1 DEF Same, SameKey
  <2>6. Grow(e, new).status # "open" => Grow(e, new).severity = f.severity
    BY <1>v, <2>1, <2>3, <2>5
  <2>7. Same(f, Grow(e, new))
    BY <2>1, <2>3 DEF Same
  <2> HIDE DEF After
  <2> QED BY <2>1, <2>3, <2>4, <2>5, <2>6, <2>7
<1>1. findings' = {After(f) : f \in findings} \cup {n \in new : \A f \in findings : ~SameKey(f, n)}
  <2>1. findings' = {Grow(e, new) : e \in S} \cup {n \in new : ~ \E e \in S : SameKey(e, n)}
    BY ReconcileIs
  <2>2. {Grow(e, new) : e \in S} = {After(f) : f \in findings}
    OBVIOUS
  <2>3. \A n \in new : (~ \E e \in S : SameKey(e, n)) <=> \A f \in findings : ~SameKey(f, n)
    <3> SUFFICES ASSUME NEW n \in new
                 PROVE  (~ \E e \in S : SameKey(e, n)) <=> \A f \in findings : ~SameKey(f, n)
      OBVIOUS
    <3>1. ASSUME NEW e \in S PROVE \E f \in findings : SameKey(f, n) <=> SameKey(e, n)
      <4>1. PICK f \in findings : e = Decide(f, accepted)
        OBVIOUS
      <4> QED BY <1>d, <4>1 DEF Same, SameKey
    <3>2. ASSUME NEW f \in findings PROVE \E e \in S : SameKey(f, n) <=> SameKey(e, n)
      BY <1>d DEF Same, SameKey
    <3> HIDE DEF S
    <3> QED BY <3>1, <3>2
  <2> HIDE DEF S, After
  <2> QED BY <2>1, <2>2, <2>3
<1> HIDE DEF S, After
<1>f. \A n \in new : (\A f \in findings : ~SameKey(f, n)) => Fresh(n)
  <2>1. \A n \in new : \A a \in archived : a.id # n.id
    BY DEF Refused, IdArchived
  <2> QED BY <1>v, <2>1 DEF Known
<1>k. /\ \A f \in findings : \E g \in findings' : Kept(f, g)
      /\ \A g \in findings' : g \in Finding /\ (Fresh(g) \/ \E f \in findings : Kept(f, g))
  <2>1. ASSUME NEW f \in findings PROVE \E g \in findings' : Kept(f, g)
    <3> HIDE DEF Kept
    <3> QED BY <1>1, <1>r
  <2>2. ASSUME NEW g \in findings'
        PROVE  g \in Finding /\ (Fresh(g) \/ \E f \in findings : Kept(f, g))
    <3>1. CASE g \in {After(f) : f \in findings}
      <4> HIDE DEF Kept, Fresh
      <4> QED BY <1>r, <3>1
    <3>2. CASE g \in new /\ \A f \in findings : ~SameKey(f, g)
      <4> HIDE DEF Kept, Fresh
      <4> QED BY <1>f, <1>w, <3>2
    <3> QED BY <1>1, <3>1, <3>2
  <2> HIDE DEF Kept, Fresh
  <2> QED BY <2>1, <2>2
<1>e. \A n \in new : \E g \in findings' :
        SameKey(g, n) /\ l \in g.sources /\ (n.severity = "major" => g.severity = "major")
  <2> SUFFICES ASSUME NEW n \in new
               PROVE  \E g \in findings' :
                        /\ SameKey(g, n) /\ l \in g.sources
                        /\ n.severity = "major" => g.severity = "major"
    OBVIOUS
  <2>1. CASE \A f \in findings : ~SameKey(f, n)
    <3>1. n \in findings'
      BY <1>1, <2>1
    <3> QED BY <1>w, <3>1 DEF SameKey
  <2>2. ASSUME NEW f \in findings, SameKey(f, n)
        PROVE  \E g \in findings' :
                 /\ SameKey(g, n) /\ l \in g.sources
                 /\ n.severity = "major" => g.severity = "major"
    <3>1. PICK g \in findings' : Kept(f, g)
      BY <1>k
    <3> QED BY <1>w, <2>2, <3>1 DEF Same, SameKey
  <2> QED BY <2>1, <2>2
<1>u. \A g, x \in findings' : g.id = x.id => g = x
  <2> SUFFICES ASSUME NEW g \in findings', NEW x \in findings', g.id = x.id PROVE g = x
    OBVIOUS
  <2>1. \A y \in findings' : Fresh(y) \/ \E f \in findings : y = After(f) /\ y.id = f.id
    <3> SUFFICES ASSUME NEW y \in findings'
                 PROVE  Fresh(y) \/ \E f \in findings : y = After(f) /\ y.id = f.id
      OBVIOUS
    <3>1. CASE y \in {After(f) : f \in findings}
      BY <1>r, <3>1 DEF Same
    <3>2. CASE y \in new /\ \A f \in findings : ~SameKey(f, y)
      BY <1>f, <3>2
    <3> QED BY <1>1, <3>1, <3>2
  <2>2. CASE Fresh(g) /\ Fresh(x)
    BY <2>2
  <2>3. CASE Fresh(g) /\ ~Fresh(x)
    BY <2>1, <2>3 DEF Known
  <2>4. CASE ~Fresh(g) /\ Fresh(x)
    BY <2>1, <2>4 DEF Known
  <2>5. CASE ~Fresh(g) /\ ~Fresh(x)
    <3>1. PICK f1 \in findings : g = After(f1) /\ g.id = f1.id
      BY <2>1, <2>5
    <3>2. PICK f2 \in findings : x = After(f2) /\ x.id = f2.id
      BY <2>1, <2>5
    <3>3. f1 = f2
      BY <3>1, <3>2 DEF FindingsInv, TypeOK
    <3> QED BY <3>1, <3>2, <3>3
  <2> QED BY <2>2, <2>3, <2>4, <2>5
<1>b. \A n : Fresh(n) =>
        /\ n.turn = turn /\ n.status = "open" /\ n \in Finding
        /\ \A f \in Known : f.id # n.id
        /\ \A f \in findings : ~SameKey(f, n)
  BY <1>w
<1>p. ASSUME NEW id \in requests[l]
      PROVE  /\ Proposal(id) \in history /\ Proposal(id).finding = id
             /\ Proposal(id).by = Developer
             /\ Proposal(id).turn \in Turns /\ Proposal(id).turn # None
             /\ Proposal(id).turn < turn
             /\ \A q \in history : q.finding = id => q.turn <= Proposal(id).turn
             /\ \E f \in findings : f.id = id /\ f.status # "deferred"
  <2>1. PICK f \in findings : f.id = id /\ f.status # "deferred"
    BY DEF FindingsInv, Asked
  <2>2. Pending(f) # {}
    <3>1. k >= seat /\ k \in DOMAIN Seats /\ f.id \in requests[Seats[k]]
      BY <2>1, SeatsAre
    <3> QED BY <3>1 DEF FindingsInv, Waits
  <2>3. PICK d \in Pending(f) : TRUE
    BY <2>2
  <2>4. d \in history /\ \E x \in findings : x.id = id /\ d \in Pending(x)
    BY <2>1, <2>3 DEF Pending, ResponsesTo
  <2>5. Proposal(id) \in history /\ \E x \in findings : x.id = id /\ Proposal(id) \in Pending(x)
    BY <2>4 DEF Proposal
  <2> DEFINE p == Proposal(id)
  <2> HIDE DEF p
  <2>6. /\ p \in history /\ p.finding = id /\ p.by = Developer
        /\ \A q \in history : q.finding = id => q.turn <= p.turn
    BY <2>5 DEF p, Pending, ResponsesTo
  <2>7. p.turn \in Turns
    BY <2>6 DEF FindingsInv, TypeOK, Disposition
  <2>8. p.turn # turn
    BY <2>6, SeatsAre DEF FindingsInv, Decided
  <2>9. p.turn < turn
    BY <1>t, <2>6, <2>8
  <2>10. p.turn # None
    BY <1>t, <2>7, SeatsAre DEF Turns, None
  <2> QED BY <2>1, <2>6, <2>7, <2>9, <2>10 DEF p
<1>h. \A d \in history' \ history :
        /\ d \in Disposition /\ d.action \in {"accept", "fix"} /\ d.by = l /\ d.turn = turn
        /\ d.to # None /\ d.to < d.turn /\ d.finding \in requests[l]
        /\ \E f \in findings : f.id = d.finding
  <2> SUFFICES ASSUME NEW d \in history' \ history
               PROVE  /\ d \in Disposition /\ d.action \in {"accept", "fix"} /\ d.by = l
                      /\ d.turn = turn
                      /\ d.to # None /\ d.to < d.turn /\ d.finding \in requests[l]
                      /\ \E f \in findings : f.id = d.finding
    OBVIOUS
  <2>1. PICK id \in requests[l] :
          d = [finding |-> id, action |-> IF id \in accepted THEN "accept" ELSE "fix", by |-> l,
               turn |-> turn, to |-> Proposal(id).turn, why |-> None]
    OBVIOUS
  <2>2. /\ Proposal(id).turn \in Turns /\ Proposal(id).turn # None /\ Proposal(id).turn < turn
        /\ \E f \in findings : f.id = id
    BY <1>p
  <2>3. id \in Ids
    BY <1>i
  <2>4. d \in Disposition
    BY <1>t, <2>1, <2>2, <2>3 DEF Disposition
  <2> QED BY <2>1, <2>2, <2>4
<1>c. history \subseteq history'
  OBVIOUS
<1>s. /\ \A f \in Known : \E g \in Known' : Same(f, g) /\ f.sources \subseteq g.sources
      /\ \A g \in Known' : Fresh(g) \/ \E f \in Known : Same(f, g)
  <2>1. \A f \in Known : \E g \in Known' : Same(f, g) /\ f.sources \subseteq g.sources
    BY <1>k DEF Known, Same
  <2>2. \A g \in Known' : Fresh(g) \/ \E f \in Known : Same(f, g)
    <3> SUFFICES ASSUME NEW g \in Known' PROVE Fresh(g) \/ \E f \in Known : Same(f, g)
      OBVIOUS
    <3>1. CASE g \in archived
      BY <3>1 DEF Known, Same
    <3>2. CASE g \in findings'
      BY <1>k, <3>2 DEF Known
    <3> QED BY <3>1, <3>2 DEF Known
  <2> QED BY <2>1, <2>2
<1>a. \A f, g : f.id = g.id /\ AnswerAccepted(f) =>
        /\ AnswerAccepted(g)'
  BY <1>c, <1>h, <1>t, AcceptedStays
<1>z. ASSUME NEW f \in findings, f.id \in accepted
      PROVE  AnswerAccepted(f)'
  <2> DEFINE p == Proposal(f.id)
             d == [finding |-> f.id, action |-> "accept", by |-> l, turn |-> turn,
                   to |-> p.turn, why |-> None]
  <2>1. f.id \in requests[l]
    BY <1>z
  <2>2. /\ p \in history /\ p.finding = f.id /\ p.by = Developer
        /\ \A q \in history : q.finding = f.id => q.turn <= p.turn
    BY <1>p, <2>1
  <2>3. d \in history'
    BY <1>z, <2>1
  <2>4. d \in ResponsesTo(f)' /\ p \in ResponsesTo(f)'
    BY <2>2, <2>3 DEF ResponsesTo
  <2>5. d.action = "accept" /\ d.by \in Lanes /\ p.turn = d.to
    OBVIOUS
  <2>6. ASSUME NEW q \in ResponsesTo(f)', q.by = Developer PROVE q.turn <= p.turn
    <3>1. q \in history
      BY <1>h, <2>6, SeatsAre DEF ResponsesTo
    <3> QED BY <2>2, <3>1 DEF ResponsesTo
  <2> HIDE DEF p, d
  <2> QED BY <2>2, <2>4, <2>5, <2>6 DEF AnswerAccepted
<1> HIDE DEF Fresh
<1>q. \A m \in Lanes : \A id \in requests[m] : \E f \in findings : f.id = id
  BY DEF FindingsInv, Asked
<1>x. \A f \in findings : f \in Known
  BY DEF Known
<1>2. TypeOK'
  <2>1. findings' \subseteq Finding /\ archived' \subseteq Finding
    BY <1>i, <1>k
  <2>2. history' \subseteq Disposition
    BY <1>h DEF FindingsInv, TypeOK
  <2>3. reports' \subseteq Report
    <3>1. \A n \in new : [lane |-> l, claim |-> n.claim, head |-> n.head, turn |-> turn,
                           severity |-> n.severity] \in Report
      BY <1>t, <1>w DEF Report, Finding
    <3> QED BY <3>1 DEF FindingsInv, TypeOK
  <2>4. \A f, g \in findings' \cup archived' : f.id = g.id => f = g
    <3>1. \A f \in findings', a \in archived : f.id # a.id
      BY <1>b, <1>k DEF FindingsInv, Same, Known
    <3>2. \A f, g \in archived : f.id = g.id => f = g
      BY DEF FindingsInv, TypeOK
    <3>3. archived' = archived
      OBVIOUS
    <3> QED BY <1>u, <3>1, <3>2, <3>3
  <2>5. /\ phase' \in {"planning", "reviewing", "coding", "clear", "escalated"}
        /\ turn' \in Turns /\ head' \in Heads /\ requests' \in [Lanes -> SUBSET Ids]
        /\ failed' \in BOOLEAN
    BY DEF FindingsInv, TypeOK
  <2>6. seat' \in 1 .. Len(Seats) + 1
    <3>1. Len(Seats) \in Nat /\ k \in 1 .. Len(Seats)
      BY SeatsAre
    <3> QED BY <3>1
  <2> QED BY <2>1, <2>2, <2>3, <2>4, <2>5, <2>6 DEF TypeOK
<1>3. \A f \in findings', a \in archived' : f.id # a.id
  BY <1>b, <1>k DEF FindingsInv, Same, Known
<1>4. Numbered'
  BY DEF FindingsInv, Numbered
<1>5. \A d \in history' : Decided(d)'
  <2>1. ASSUME NEW d \in history PROVE Decided(d)'
    BY <1>s DEF FindingsInv, Decided, Same
  <2>2. ASSUME NEW d \in history' \ history PROVE Decided(d)'
    <3>1. d.turn <= turn' /\ phase' = "reviewing"
      BY <1>h, <1>t
    <3>2. \E f \in Known' : f.id = d.finding
      BY <1>h, <1>s, <1>x DEF Same
    <3> QED BY <1>h, <3>1, <3>2 DEF Decided
  <2> QED BY <2>1, <2>2
<1>6. \A r \in reports' : Told(r)'
  <2>1. ASSUME NEW r \in reports PROVE Told(r)'
    <3>1. Told(r)
      BY DEF FindingsInv
    <3>2. CASE r.turn = turn
      <4>1. PICK f \in findings : SameKey(f, r)
        BY <3>1, <3>2 DEF Told
      <4>2. PICK g \in findings' : Kept(f, g)
        BY <1>k
      <4>3. SameKey(g, r)
        BY <4>1, <4>2 DEF Same, SameKey
      <4> QED BY <3>1, <4>3 DEF Told, SameKey
    <3>3. CASE r.turn # turn
      BY <3>1, <3>3 DEF Told
    <3> QED BY <3>2, <3>3
  <2>2. ASSUME NEW n \in new,
               NEW r, r = [lane |-> l, claim |-> n.claim, head |-> n.head, turn |-> turn,
                           severity |-> n.severity]
        PROVE  Told(r)'
    <3>1. r.turn = turn /\ r.claim = n.claim /\ r.head = n.head /\ turn <= turn
      BY <1>t, <2>2
    <3>2. \E g \in findings' : g.claim = n.claim /\ g.head = n.head
      BY <1>e DEF SameKey
    <3> QED BY <3>1, <3>2 DEF Told, SameKey
  <2> QED BY <2>1, <2>2
<1>7. Asked'
  <2>1. ASSUME NEW m \in Lanes, NEW id \in requests[m]
        PROVE  \E f \in findings' : f.id = id /\ f.status # "deferred"
    <3>1. PICK f \in findings : f.id = id /\ f.status # "deferred"
      BY DEF FindingsInv, Asked
    <3> QED BY ZenonT(40), <1>k, <3>1 DEF Same
  <2> QED BY <2>1 DEF FindingsInv, Asked
<1>8. Waits'
  <2> SUFFICES ASSUME NEW i \in DOMAIN Seats, NEW g \in findings', i >= k + 1,
                      g.id \in requests[Seats[i]]
               PROVE  Pending(g)' # {}
    BY DEF Waits
  <2>1. Seats[i] \in Lanes /\ Seats[i] # l /\ i >= seat
    BY SeatsAre
  <2>2. PICK f \in findings : Same(f, g)
    BY <1>b, <1>k, <1>q, <1>x, <2>1
  <2>3. f.id \in requests[Seats[i]]
    BY <2>2 DEF Same
  <2>4. Pending(f) # {}
    BY <2>1, <2>3 DEF FindingsInv, Waits
  <2>5. f.id \notin requests[l]
    BY <2>1, <2>3 DEF FindingsInv, Asked
  <2>6. ResponsesTo(g)' = ResponsesTo(f)
    BY <1>c, <1>h, <2>2, <2>5 DEF ResponsesTo, Same
  <2>7. Pending(g)' = Pending(f)
    BY <2>6 DEF Pending
  <2> QED BY <2>4, <2>7
<1>9. NothingLost'
  <2>1. ASSUME NEW r \in reports
        PROVE  \E f \in Known' : SameKey(f, r) /\ r.lane \in f.sources
    <3>1. PICK f \in Known : SameKey(f, r) /\ r.lane \in f.sources
      BY DEF FindingsInv, NothingLost
    <3> QED BY <1>s, <3>1 DEF Same, SameKey
  <2>2. ASSUME NEW n \in new,
               NEW r, r = [lane |-> l, claim |-> n.claim, head |-> n.head, turn |-> turn,
                           severity |-> n.severity]
        PROVE  \E f \in Known' : SameKey(f, r) /\ r.lane \in f.sources
    BY <1>e, <2>2 DEF SameKey, Known
  <2> QED BY <2>1, <2>2 DEF NothingLost, SameKey
<1>10. Severe'
  <2>1. ASSUME NEW g \in findings', NEW r \in reports', SameKey(g, r), r.turn >= g.turn,
               r.severity = "major"
        PROVE  g.severity = "major"
    <3>1. CASE r \in reports /\ Fresh(g)
      <4>1. r.turn = turn
        BY <1>b, <1>t, <2>1, <3>1
      <4>2. PICK f \in findings : SameKey(f, r)
        <5>1. Told(r)
          BY <3>1 DEF FindingsInv
        <5> QED BY <4>1, <5>1 DEF Told
      <4> QED BY <1>b, <2>1, <3>1, <4>2 DEF SameKey
    <3>2. CASE r \in reports /\ ~Fresh(g)
      <4>1. PICK f \in findings : Kept(f, g)
        BY <1>k, <3>2
      <4>2. SameKey(f, r) /\ r.turn >= f.turn
        BY <2>1, <4>1 DEF Same, SameKey
      <4>3. f.severity = "major"
        BY <2>1, <3>2, <4>2 DEF FindingsInv, Severe
      <4> QED BY <4>1, <4>3
    <3>3. ASSUME NEW n \in new,
                 r = [lane |-> l, claim |-> n.claim, head |-> n.head, turn |-> turn,
                      severity |-> n.severity]
          PROVE  g.severity = "major"
      <4>1. SameKey(g, n) /\ n.severity = "major"
        BY <2>1, <3>3 DEF SameKey
      <4>2. CASE Fresh(g)
        BY <4>1, <4>2 DEF Fresh
      <4>3. CASE ~Fresh(g)
        <5>1. PICK f \in findings : Kept(f, g)
          BY <1>k, <4>3
        <5>2. SameKey(f, n)
          BY <4>1, <5>1 DEF Same, SameKey
        <5> QED BY <4>1, <5>1, <5>2
      <4> QED BY <4>2, <4>3
    <3> QED BY <3>1, <3>2, <3>3
  <2>2. ASSUME NEW g \in findings', g.status = "deferred" PROVE g.severity = "minor"
    <3>1. PICK f \in findings : Kept(f, g)
      BY <1>b, <1>k, <2>2
    <3>2. f.status = "deferred" /\ g.severity = f.severity
      BY <2>2, <3>1
    <3> QED BY <3>2 DEF FindingsInv, Severe
  <2> QED BY <2>1, <2>2 DEF Severe, SameKey
<1>11. Accepted'
  <2> SUFFICES ASSUME NEW g \in findings', g.status = "accepted" PROVE AnswerAccepted(g)'
    BY DEF Accepted
  <2>1. PICK f \in findings : Kept(f, g)
    BY <1>b, <1>k
  <2>2. CASE f.id \in accepted
    <3>1. AnswerAccepted(f)' /\ f.id = g.id
      BY <1>z, <2>1, <2>2 DEF Same
    <3> QED BY <3>1 DEF AnswerAccepted, ResponsesTo
  <2>3. CASE f.id \notin accepted
    <3>1. AnswerAccepted(f) /\ f.id = g.id
      BY <2>1, <2>3 DEF FindingsInv, Accepted, Same
    <3> QED BY <1>a, <3>1
  <2> QED BY <2>2, <2>3
<1>12. Archived'
  <2> SUFFICES ASSUME NEW g \in archived
               PROVE  /\ g.status = "accepted" /\ AnswerAccepted(g)'
                      /\ \E e \in ResponsesTo(g)' : e.action = "accept" /\ e.turn < turn'
    BY DEF Archived
  <2>1. /\ g.status = "accepted" /\ AnswerAccepted(g)
        /\ \E e \in ResponsesTo(g) : e.action = "accept" /\ e.turn < turn
    BY DEF FindingsInv, Archived
  <2>2. AnswerAccepted(g)'
    BY <1>a, <2>1
  <2> QED BY <1>c, <2>1, <2>2 DEF ResponsesTo
<1>13. Uncontested'
  <2> SUFFICES ASSUME NEW f \in findings', NEW g \in Known', Conflict(f, g),
                      NEW d \in ResponsesTo(f)', d.action = "reply_deferred", g.turn <= d.turn
               PROVE  \E e \in ResponsesTo(g)' : e.action = "accept" /\ e.turn < d.turn
    BY DEF Uncontested, Conflict
  <2>1. d \in history /\ d.finding = f.id
    BY <1>h DEF ResponsesTo
  <2>2. ~Fresh(f)
    <3>1. \E x \in Known : x.id = f.id
      BY <2>1 DEF FindingsInv, Decided
    <3> QED BY <1>b, <3>1
  <2>3. d.turn # turn /\ d.turn < turn
    <3>1. d.turn # turn
      BY <2>1 DEF FindingsInv, Decided
    <3> QED BY <1>t, <2>1, <3>1
  <2>4. ~Fresh(g)
    BY <1>b, <1>t, <2>1, <2>3
  <2>5. PICK f0 \in findings : Same(f0, f)
    BY <1>k, <2>2
  <2>6. PICK g0 \in Known : Same(g0, g)
    BY <1>s, <2>4
  <2>7. Conflict(f0, g0) /\ d \in ResponsesTo(f0) /\ g0.turn <= d.turn
    BY <2>1, <2>5, <2>6 DEF Conflict, Same, ResponsesTo
  <2>8. PICK e \in ResponsesTo(g0) : e.action = "accept" /\ e.turn < d.turn
    BY <2>7 DEF FindingsInv, Uncontested
  <2> QED BY <1>c, <2>6, <2>8 DEF ResponsesTo, Same
<1>14. phase' # "clear"
  OBVIOUS
<1>15. IndependentAdjudicator'
  <2> SUFFICES ASSUME NEW m \in Lanes, NEW g \in findings', g.id \in requests[m],
                      \/ \E d \in ResponsesTo(g)' : d.action = "fix" /\ d.by \in Lanes /\ d.turn < turn
                      \/ \E h \in findings' : Conflict(g, h) /\ h.turn < turn
               PROVE  /\ m # g.lane
                      /\ \A h \in findings' : Conflict(g, h) /\ h.turn < turn => h.lane # m
    <3>1. IndependentAdjudicator' <=> Apart'
      BY ApartIs, PTL
    <3> QED BY <3>1 DEF Apart
  <2>1. PICK f \in findings : Same(f, g)
    BY <1>b, <1>k, <1>q, <1>x
  <2>2. \A h \in findings' : Conflict(g, h) /\ h.turn < turn =>
          \E h0 \in findings : Same(h0, h) /\ Conflict(f, h0) /\ h0.turn < turn
    <3> SUFFICES ASSUME NEW h \in findings', Conflict(g, h), h.turn < turn
                 PROVE  \E h0 \in findings : Same(h0, h) /\ Conflict(f, h0) /\ h0.turn < turn
      OBVIOUS
    <3>1. PICK h0 \in findings : Same(h0, h)
      BY <1>b, <1>k, <1>t
    <3> QED BY <2>1, <3>1 DEF Same, Conflict
  <2>3. \/ \E d \in ResponsesTo(f) : d.action = "fix" /\ d.by \in Lanes /\ d.turn < turn
        \/ \E h0 \in findings : Conflict(f, h0) /\ h0.turn < turn
    <3>1. ASSUME NEW d \in ResponsesTo(g)', d.turn < turn PROVE d \in ResponsesTo(f)
      BY <1>h, <1>t, <2>1, <3>1 DEF ResponsesTo, Same
    <3> QED BY <2>2, <3>1
  <2>4. f.id \in requests[m]
    BY <2>1 DEF Same
  <2>5. m # f.lane /\ \A h0 \in findings : Conflict(f, h0) /\ h0.turn < turn => h0.lane # m
    BY <2>3, <2>4 DEF FindingsInv, IndependentAdjudicator
  <2> QED BY <2>1, <2>2, <2>5 DEF Same
<1>16. NoRebuttalTwice'
  <2> SUFFICES ASSUME NEW x \in history', NEW d \in history', NEW q \in history',
                      x.action = "rebut", d.action = "fix", d.to = x.turn,
                      d.finding = x.finding, q.action = "rebut", q.finding = x.finding,
                      q.turn > d.turn
               PROVE  q.why # x.why
    BY DEF NoRebuttalTwice
  <2>1. x \in history /\ q \in history
    BY <1>h
  <2>2. d \in history
    BY <1>h, <1>t, <2>1
  <2> QED BY <2>1, <2>2 DEF FindingsInv, NoRebuttalTwice
<1>17. Stays
  <2> SUFFICES ASSUME NEW f \in Known, f.status # "open"
               PROVE  \E g \in findings' \cup archived' :
                        g.id = f.id /\ g.status = f.status /\ g.severity = f.severity
                        /\ SameKey(g, f)
    BY DEF Stays
  <2>1. CASE f \in archived
    BY <2>1 DEF SameKey
  <2>2. CASE f \in findings
    <3>1. PICK g \in findings' : Kept(f, g)
      BY <1>k, <2>2
    <3>2. f.id \in accepted => f.status = "accepted"
      <4>1. f.id \in accepted => \E x \in findings : x.id = f.id /\ x.status # "deferred"
        BY <1>p
      <4>2. f.id \in accepted => f.status # "deferred"
        BY <2>2, <4>1 DEF FindingsInv, TypeOK
      <4> QED BY <1>i, <2>2, <4>2 DEF Finding
    <3> QED BY <3>1, <3>2 DEF Same, SameKey
  <2> QED BY <2>1, <2>2 DEF Known
<1> QED
  BY <1>2, <1>3, <1>4, <1>5, <1>6, <1>7, <1>8, <1>9, <1>10, <1>11, <1>12, <1>13, <1>14, <1>15,
     <1>16, <1>17 DEF FindingsInv

\* A result that is not used leaves what the findings are.
LEMMA UnusedStep ==
  ASSUME FindingsInv, phase = "reviewing", seat \in 1 .. Len(Seats), seat' = seat + 1,
         UNCHANGED <<phase, turn, head, findings, archived, history, requests, reports>>,
         failed' \in BOOLEAN
  PROVE  FindingsInv' /\ Stays
<1>1. seat' \in 1 .. Len(Seats) + 1 /\ seat \in Nat /\ seat' \in Nat /\ seat' >= seat
  BY SeatsAre
<1>2. TypeOK'
  BY <1>1 DEF FindingsInv, TypeOK
<1>3. Waits'
  <2> SUFFICES ASSUME NEW i \in DOMAIN Seats, NEW f \in findings, i >= seat',
                      f.id \in requests[Seats[i]]
               PROVE  Pending(f) # {}
    BY DEF Waits, Pending, ResponsesTo
  <2>1. i >= seat
    BY <1>1, SeatsAre
  <2> QED BY <2>1 DEF FindingsInv, Waits
<1>4. \A d \in history' : Decided(d)'
  BY DEF FindingsInv, Decided, Known
<1>5. \A r \in reports' : Told(r)'
  BY DEF FindingsInv, Told
<1>6. Numbered' /\ Asked' /\ NothingLost' /\ Severe'
  BY DEF FindingsInv, Numbered, Asked, NothingLost, Severe, Known
<1>7. Accepted' /\ Archived'
  BY DEF FindingsInv, Accepted, Archived, AnswerAccepted, ResponsesTo
<1>8. Uncontested'
  BY DEF FindingsInv, Uncontested, Known, ResponsesTo
<1>9. IndependentAdjudicator'
  BY DEF FindingsInv, IndependentAdjudicator, ResponsesTo
<1>10. NoRebuttalTwice' /\ (phase' = "clear" => Open(findings)' = {})
  BY DEF FindingsInv, NoRebuttalTwice
<1>11. \A f \in findings', a \in archived' : f.id # a.id
  BY DEF FindingsInv
<1>12. Stays
  BY DEF Stays, Known, SameKey
<1> QED
  BY <1>2, <1>3, <1>4, <1>5, <1>6, <1>7, <1>8, <1>9, <1>10, <1>11, <1>12 DEF FindingsInv

LEMMA ConsumeStep ==
  ASSUME FindingsInv, Consume
  PROVE  FindingsInv' /\ Stays
<1> DEFINE l == Seats[seat]
<1>1. /\ phase = "reviewing" /\ seat \in DOMAIN Seats /\ seat \in 1 .. Len(Seats)
      /\ l \in Lanes /\ seat' = seat + 1
      /\ UNCHANGED <<phase, turn, head, archived, requests>>
  <2>1. seat \in 1 .. Len(Seats) + 1 /\ seat <= Len(Seats)
    BY DEF Consume, FindingsInv, TypeOK
  <2>2. seat \in 1 .. Len(Seats)
    BY <2>1, SeatsAre
  <2> QED BY <2>2, SeatsAre DEF Consume
<1>2. \/ \E accepted \in SUBSET requests[l], new \in SUBSET NewFindings(l) :
           (\A x, y \in new : x = y) /\ Use(l, accepted, new)
      \/ failed' = TRUE /\ UNCHANGED <<findings, history, reports>>
  <2>1. \A n \in NewFindings(l) : {n} \in SUBSET NewFindings(l) /\ \A x, y \in {n} : x = y
    OBVIOUS
  <2>2. {} \in SUBSET NewFindings(l) /\ \A x, y \in {} : x = y
    OBVIOUS
  <2>3. \/ \E accepted \in SUBSET requests[l] :
             \/ Use(l, accepted, {})
             \/ \E f \in NewFindings(l) : Use(l, accepted, {f})
        \/ failed' = TRUE /\ UNCHANGED <<findings, history, reports>>
    BY DEF Consume
  <2> HIDE DEF l
  <2> QED BY <2>1, <2>2, <2>3
<1>3. failed \in BOOLEAN
  BY DEF FindingsInv, TypeOK
<1>4. CASE failed' = TRUE /\ UNCHANGED <<findings, history, reports>>
  BY <1>1, <1>4, UnusedStep
<1>5. ASSUME NEW accepted \in SUBSET requests[l], NEW new \in SUBSET NewFindings(l),
             \A x, y \in new : x = y, Use(l, accepted, new)
      PROVE  FindingsInv' /\ Stays
  <2> DEFINE S == {Decide(f, accepted) : f \in findings}
  <2>1. S = {IF f.id \in accepted THEN [f EXCEPT !.status = "accepted"] ELSE f : f \in findings}
    BY DEF Decide
  <2> HIDE DEF S, l
  <2>2. CASE \E f \in new : Refused(S, f)
    <3>1. failed' = TRUE /\ UNCHANGED <<findings, history, reports>>
      BY <1>5, <2>1, <2>2 DEF Use
    <3> QED BY <1>4, <3>1
  <2>3. CASE ~ \E f \in new : Refused(S, f)
    <3>1. /\ findings' = Reconcile(S, new)
          /\ history' = history \cup
               {[finding |-> id, action |-> IF id \in accepted THEN "accept" ELSE "fix", by |-> l,
                 turn |-> turn, to |-> Proposal(id).turn, why |-> None] : id \in requests[l]}
          /\ reports' = reports \cup
               {[lane |-> l, claim |-> f.claim, head |-> f.head, turn |-> turn,
                 severity |-> f.severity] : f \in new}
          /\ UNCHANGED failed
      BY <1>5, <2>1, <2>3 DEF Use
    <3>2. failed' \in BOOLEAN
      BY <1>3, <3>1
    <3>3. l = Seats[seat]
      BY DEF l
    <3>4. /\ findings' = Reconcile({Decide(f, accepted) : f \in findings}, new)
          /\ \A n \in new : ~Refused({Decide(f, accepted) : f \in findings}, n)
      BY <2>3, <3>1 DEF S
    <3> QED BY <1>1, <1>5, <3>1, <3>2, <3>3, <3>4, UseStep
  <2> QED BY <2>2, <2>3
<1> QED BY <1>2, <1>4, <1>5

LEMMA FindingsStep ==
  ASSUME FindingsInv, [Next]_vars
  PROVE  FindingsInv' /\ (Stays \/ UNCHANGED vars)
<1>1. CASE Plan
  BY <1>1, PlanStep
<1>2. CASE Consume
  BY <1>2, ConsumeStep
<1>3. CASE Settle
  BY <1>3, SettleStep
<1>4. CASE Respond \/ Remediate
  BY <1>4, RespondStep
<1>5. CASE UNCHANGED vars
  <2>1. TypeOK' /\ Numbered' /\ Asked'
    BY <1>5 DEF vars, FindingsInv, TypeOK, Numbered, Asked
  <2>2. Waits' /\ NothingLost' /\ Severe'
    BY <1>5 DEF vars, FindingsInv, Waits, Pending, ResponsesTo, NothingLost, Known, Severe
  <2>3. Accepted' /\ Archived'
    BY <1>5 DEF vars, FindingsInv, Accepted, Archived, AnswerAccepted, ResponsesTo
  <2>4. Uncontested' /\ IndependentAdjudicator' /\ NoRebuttalTwice'
    BY <1>5 DEF vars, FindingsInv, Uncontested, Known, ResponsesTo, IndependentAdjudicator,
       NoRebuttalTwice
  <2>5. /\ \A d \in history' : Decided(d)'
        /\ \A r \in reports' : Told(r)'
        /\ \A f \in findings', a \in archived' : f.id # a.id
        /\ phase' = "clear" => Open(findings)' = {}
    BY <1>5 DEF vars, FindingsInv, Decided, Told, Known
  <2> QED BY <1>5, <2>1, <2>2, <2>3, <2>4, <2>5 DEF FindingsInv
<1> QED BY <1>1, <1>2, <1>3, <1>4, <1>5 DEF Next
----------------------------------------------------------------------------
(* The theorems.                                                           *)

\* What the waves, the answers and the archive keep between them, for any
\* number of lanes, claims, ids, rationales and rounds.
THEOREM FindingsInvariant == Spec => []FindingsInv
<1>1. FindingsInv /\ [Next]_vars => FindingsInv'
  BY FindingsStep
<1> QED BY InitFindings, <1>1, PTL DEF Spec

\* Every record of the run has its type, and an id names one finding of those
\* there are and those archived.
THEOREM AdjudicationTyped == Spec => []TypeOK
<1>1. FindingsInv => TypeOK
  BY DEF FindingsInv
<1> QED BY FindingsInvariant, <1>1, PTL

\* findings.py:252-258, 536-560: merging, settling and archiving lose no
\* report and no reviewer who made it.
THEOREM ReportsKept == Spec => []NothingLost
<1>1. FindingsInv => NothingLost
  BY DEF FindingsInv
<1> QED BY FindingsInvariant, <1>1, PTL

\* foreman.py:1319-1347, 1606-1620: a finding is archived because a reviewer
\* accepted the last answer to it, and deferred because no reviewer rated it
\* major and no other lane contested it.
THEOREM Settlement == Spec => []SettledByRight
<1>1. ASSUME FindingsInv PROVE SettledByRight
  <2>1. \A f \in archived : AnswerAccepted(f)
    BY <1>1 DEF FindingsInv, Archived
  <2>2. ASSUME NEW f \in findings, NEW r \in reports, f.status = "deferred", SameKey(f, r),
               r.turn >= f.turn
        PROVE  r.severity = "minor"
    <3>1. f.severity = "minor" /\ (r.severity = "major" => f.severity = "major")
      BY <1>1, <2>2 DEF FindingsInv, Severe
    <3>2. r.severity \in {"minor", "major"}
      BY <1>1 DEF FindingsInv, TypeOK, Report
    <3> QED BY <3>1, <3>2
  <2>3. Uncontested /\ (phase = "clear" => Open(findings) = {})
    BY <1>1 DEF FindingsInv
  <2> QED BY <2>1, <2>2, <2>3 DEF SettledByRight, Uncontested
<1> QED BY FindingsInvariant, <1>1, PTL

\* foreman.py:1632-1649: who decides on a contested or refused answer has no
\* part in the dispute.
THEOREM DecidedApart == Spec => []IndependentAdjudicator
<1>1. FindingsInv => IndependentAdjudicator
  BY DEF FindingsInv
<1> QED BY FindingsInvariant, <1>1, PTL

\* foreman.py:1708-1727: no rationale is refused twice for one finding,
\* however many rounds the run has.
THEOREM RebuttalsDiffer == Spec => []NoRebuttalTwice
<1>1. FindingsInv => NoRebuttalTwice
  BY DEF FindingsInv
<1> QED BY FindingsInvariant, <1>1, PTL

\* findings.py:463-467, 519-536: no step reopens, rates anew or drops a finding
\* that is settled.
THEOREM OutcomesStand == Spec => SettledStays
<1> DEFINE Step ==
      \A f \in Known : f.status # "open" =>
        \E g \in findings' \cup archived' :
          g.id = f.id /\ g.status = f.status /\ g.severity = f.severity /\ SameKey(g, f)
<1>1. ASSUME FindingsInv, [Next]_vars PROVE [Step]_vars
  BY <1>1, FindingsStep DEF Stays
<1>2. SettledStays <=> [][Step]_vars
  BY PTL DEF SettledStays
<1> HIDE DEF Step
<1>3. FindingsInv /\ [Next]_vars => [Step]_vars
  BY <1>1
<1>4. Spec => [][Step]_vars
  BY FindingsInvariant, <1>3, PTL DEF Spec
<1> QED BY <1>2, <1>4
=============================================================================
