--------------------------- MODULE ModelCapacity ---------------------------
(***************************************************************************)
(* Reservation of model capacity (broker.py) and how the foreman seats its *)
(* lanes with it (foreman.py).  A dispatcher places its seats one after    *)
(* the other: it has the candidates ranked against what it knows, walks    *)
(* the primary and its fallbacks until one can be reserved, and releases   *)
(* its seats one after the other when they ran or one cannot be placed.    *)
(*                                                                         *)
(* A reservation and a release hold the lock of the broker, so each is one *)
(* step; a ranking does not, and may be stale by the time it is used.      *)
(* Scores and rejections depend on telemetry: any choice among the         *)
(* candidates, in any order, is considered.                                *)
(***************************************************************************)
EXTENDS Integers, Sequences, FiniteSets

CONSTANTS
  Models,        \* entries of the catalog
  Cap,           \* max_concurrency of each model, or Unlimited
  Provider,      \* the failure domain of each model
  Family,        \* the lineage of each model, or NoFamily
  Dispatchers,   \* callers that share the broker
  Seats,         \* lanes of one dispatch
  IndependentOf, \* models that each seat must differ from in family
  Distinct,      \* broker.require_distinct_fallback_provider
  MaxFallbacks,  \* broker.max_fallbacks
  MaxExternal,   \* bound on the dispatches declared as running elsewhere
  MaxLeases      \* bound on the leases issued

Unlimited == -1
NoFamily == ""

ASSUME CapacityAssumption ==
  /\ Cap \in [Models -> Nat \cup {Unlimited}]
  /\ Seats \in Nat \ {0}
  /\ IndependentOf \in [1 .. Seats -> SUBSET Models] /\ Distinct \in BOOLEAN
  /\ MaxFallbacks \in Nat /\ MaxExternal \in Nat /\ MaxLeases \in Nat

\* Lease ids are unique: they end in _next_lease_seq.
Lease == [id : 1 .. MaxLeases, model : Models, owner : Dispatchers, seat : 1 .. Seats]

VARIABLES
  outstanding,  \* _outstanding
  external,     \* _external
  leases,       \* _leases, with the caller and the seat each was issued to
  issued,       \* _next_lease_seq
  stage,        \* of each dispatcher: what it does next
  chain,        \* the refs it still tries for its next seat
  seats,        \* the leases of its list of seats, some of them perhaps released
  next          \* the seat that its release loop is at
vars == <<outstanding, external, leases, issued, stage, chain, seats, next>>
books == <<outstanding, external, leases, issued>>
places == <<seats, next>>

Chains == {<<>>} \cup UNION {[1 .. n -> Models] : n \in 1 .. MaxFallbacks + 1}

Stages == {"idle", "placing", "trying", "placed", "running", "releasing"}

TypeOK ==
  /\ outstanding \in [Models -> Nat] /\ external \in [Models -> Nat]
  /\ leases \subseteq Lease /\ issued \in 0 .. MaxLeases
  /\ stage \in [Dispatchers -> Stages]
  /\ chain \in [Dispatchers -> Seq(Models)]
  /\ seats \in [Dispatchers -> Seq(Lease)] /\ next \in [Dispatchers -> Nat \ {0}]

Init ==
  /\ outstanding = [m \in Models |-> 0] /\ external = [m \in Models |-> 0]
  /\ leases = {} /\ issued = 0
  /\ stage = [d \in Dispatchers |-> "idle"]
  /\ chain = [d \in Dispatchers |-> <<>>]
  /\ seats = [d \in Dispatchers |-> <<>>] /\ next = [d \in Dispatchers |-> 1]
----------------------------------------------------------------------------
(* Ranking.                                                                *)

\* The next seat of d is placed; its seats so far are the in_flight of its demand.
NextSeat(d) == Len(seats[d]) + 1
InFlight(d, m) == Cardinality({i \in DOMAIN seats[d] : seats[d][i].model = m})

\* An adjudication needs a known family on both sides, and different ones.
Independent(m, seat) ==
  \A o \in IndependentOf[seat] :
    Family[o] # NoFamily /\ Family[m] # NoFamily /\ Family[m] # Family[o]

\* _reject: what does not depend on telemetry, as d knows it.
Eligible(d) ==
  {m \in Models : Independent(m, NextSeat(d)) /\ (Cap[m] = Unlimited \/ InFlight(d, m) < Cap[m])}

\* One ref may follow another in a chain.
Alternate(m, n) == m # n /\ (Distinct => Provider[m] # Provider[n])

\* The primary and its fallbacks (_fallback_chain), each an alternate of all
\* the others; Chains bounds their number.
Chained(refs) == \A i, j \in DOMAIN refs : i # j => Alternate(refs[i], refs[j])

\* The loop over the seats that gives them back.
Unwind(d) == stage' = [stage EXCEPT ![d] = "releasing"] /\ next' = [next EXCEPT ![d] = 1]

\* Mutant of GiveUp: without the except clause the error leaves at once.
GiveUpAtOnce(d) == stage' = [stage EXCEPT ![d] = "idle"] /\ UNCHANGED next

\* The except clause around the placing of seats: those in the list go back.
GiveUp(d) == Unwind(d)

\* select: telemetry may reject any eligible model and rank the others in any
\* order; the chain is what is left, and a seat without one fails the dispatch.
Select(d) ==
  /\ stage[d] = "placing"
  /\ \/ GiveUp(d) /\ UNCHANGED chain
     \/ \E refs \in Chains \ {<<>>} :
          /\ \A i \in DOMAIN refs : refs[i] \in Eligible(d)
          /\ Chained(refs)
          /\ chain' = [chain EXCEPT ![d] = refs]
          /\ stage' = [stage EXCEPT ![d] = "trying"]
          /\ UNCHANGED next
  /\ UNCHANGED <<books, seats>>

\* A lane with a configured model, a developer with a durable one, or a seat
\* of a restored wave: this model, whatever its cap, and no fallback.
Pin(d) ==
  /\ stage[d] = "placing"
  /\ \E m \in Models : Independent(m, NextSeat(d)) /\ chain' = [chain EXCEPT ![d] = <<m>>]
  /\ stage' = [stage EXCEPT ![d] = "trying"]
  /\ UNCHANGED <<books, places>>
----------------------------------------------------------------------------
(* Reservations.                                                           *)

Start(d) ==
  /\ stage[d] = "idle"
  /\ stage' = [stage EXCEPT ![d] = "placing"]
  /\ seats' = [seats EXCEPT ![d] = <<>>] /\ next' = [next EXCEPT ![d] = 1]
  /\ UNCHANGED <<books, chain>>

Larger(a, b) == IF a < b THEN b ELSE a

\* Mutant of Free: what other callers declared is not counted.
FreeAsDeclared(m, declared) == Cap[m] = Unlimited \/ outstanding[m] + declared < Cap[m]

\* The check of reserve.
Free(m, declared) ==
  Cap[m] = Unlimited \/ outstanding[m] + Larger(external[m], declared) < Cap[m]

\* _reserve_decision: reserve the next ref of the chain, or go on to the one
\* after it; without any left the dispatch fails.
Reserve(d, declared) ==
  LET m == Head(chain[d])
      lease == [id |-> issued + 1, model |-> m, owner |-> d, seat |-> NextSeat(d)]
  IN /\ stage[d] = "trying" /\ chain[d] # <<>> /\ issued < MaxLeases
     /\ Free(m, declared)
     /\ outstanding' = [outstanding EXCEPT ![m] = @ + 1]
     /\ external' = [external EXCEPT ![m] = Larger(@, declared)]
     /\ leases' = leases \cup {lease} /\ issued' = issued + 1
     /\ seats' = [seats EXCEPT ![d] = Append(@, lease)]
     /\ chain' = [chain EXCEPT ![d] = <<>>]
     /\ stage' = [stage EXCEPT ![d] = IF NextSeat(d) = Seats THEN "placed" ELSE "placing"]
     /\ UNCHANGED next

Refuse(d, declared) ==
  /\ stage[d] = "trying" /\ chain[d] # <<>>
  /\ ~Free(Head(chain[d]), declared)
  /\ chain' = [chain EXCEPT ![d] = Tail(@)]
  /\ IF Len(chain[d]) = 1 THEN GiveUp(d) ELSE UNCHANGED <<stage, next>>
  /\ UNCHANGED <<books, seats>>

\* The spend of every seat is authorised and the wave saved, or one of them
\* fails and takes the seats along.
Record(d) ==
  /\ stage[d] = "placed"
  /\ \/ stage' = [stage EXCEPT ![d] = "running"] /\ UNCHANGED next
     \/ GiveUp(d)
  /\ UNCHANGED <<books, seats, chain>>

\* The seats ran, or the wave broke off before: the finally clause.
Finish(d) ==
  /\ stage[d] = "running" /\ Unwind(d)
  /\ UNCHANGED <<books, seats, chain>>
----------------------------------------------------------------------------
(* Releases.                                                               *)

\* Mutant of Released: a lease is known by its model.
ReleasedByModel(lease) == \A l \in leases : l.model # lease.model

\* release: a lease that is not recorded any more is not released again.
Released(lease) == lease \notin leases

Give(lease) ==
  LET m == lease.model
      left == outstanding[m] - 1
  IN IF Released(lease)
     THEN UNCHANGED <<outstanding, external, leases>>
     ELSE /\ outstanding' = [outstanding EXCEPT ![m] = left]
          /\ external' = [external EXCEPT ![m] = IF left = 0 THEN 0 ELSE @]
          /\ leases' = leases \ {lease}

\* One round of the loop.
ReleaseSeat(d) ==
  /\ stage[d] = "releasing" /\ next[d] \in DOMAIN seats[d]
  /\ Give(seats[d][next[d]])
  /\ next' = [next EXCEPT ![d] = @ + 1]
  /\ UNCHANGED <<issued, stage, chain, seats>>

\* release takes a lease that was given back already.
ReleaseAgain(d) ==
  /\ \E i \in DOMAIN seats[d] : i < next[d] /\ Give(seats[d][i])
  /\ UNCHANGED <<issued, stage, chain, places>>

\* The loop is through: the dispatch returns, or raises what broke it off.
End(d) ==
  /\ stage[d] = "releasing" /\ next[d] \notin DOMAIN seats[d]
  /\ stage' = [stage EXCEPT ![d] = "idle"]
  /\ UNCHANGED <<books, chain, places>>

Next == \E d \in Dispatchers :
  \/ Start(d) \/ Select(d) \/ Pin(d) \/ Record(d) \/ Finish(d)
  \/ ReleaseSeat(d) \/ ReleaseAgain(d) \/ End(d)
  \/ \E declared \in 0 .. MaxExternal : Reserve(d, declared) \/ Refuse(d, declared)

Spec == Init /\ [][Next]_vars
----------------------------------------------------------------------------
(* Properties.                                                             *)

OfModel(m) == {l \in leases : l.model = m}

\* broker.py:385-391: what is reserved, with what runs elsewhere, never exceeds
\* the cap of a model, whatever dispatchers rank and reserve at the same time.
WithinCap ==
  \A m \in Models : Cap[m] # Unlimited =>
    Cardinality(OfModel(m)) + external[m] <= Cap[m]

\* broker.py:426-431: the counter of a model is the number of its leases, so
\* no double release frees a slot that is in use and none is lost.
Counted == \A m \in Models : outstanding[m] = Cardinality(OfModel(m))

\* foreman.py:1026-1028, 1187-1190, 1409-1412: wherever a dispatch breaks off,
\* with whatever seats it had by then, no lease outlives it: every lease is of a
\* seat of a dispatch that is still under way.
NothingLeaked ==
  \A l \in leases :
    stage[l.owner] # "idle" /\ \E i \in DOMAIN seats[l.owner] : seats[l.owner][i] = l
=============================================================================
