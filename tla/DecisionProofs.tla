--------------------------- MODULE DecisionProofs ---------------------------
(***************************************************************************)
(* The two parts that decide and store nothing: the broker, which answers  *)
(* a dispatch from the books it keeps in memory, and the planner, which    *)
(* answers a bundle of observations with actions.  They share no state.    *)
(*                                                                         *)
(* No model is overbooked and no lease is lost or released twice, for any  *)
(* catalog, any number of dispatchers and any bounds; no plan moves a      *)
(* branch twice, cleans what is leased or takes up work of a lost lease,   *)
(* for any bundle.                                                         *)
(***************************************************************************)
EXTENDS ModelCapacity, ReconcilePlan, FiniteSetTheorems, TLAPS

----------------------------------------------------------------------------
(* The broker.                                                             *)

\* The leases are finite in number and their ids were issued, so that the next
\* one is new.
Known == IsFiniteSet(leases) /\ \A l \in leases : l.id <= issued

\* A dispatcher has fewer seats than it needs while it places them.
Missing ==
  \A d \in Dispatchers : stage[d] \in {"placing", "trying"} => Len(seats[d]) < Seats

\* A lease is in the list of its dispatcher, and a release loop has yet to come
\* to it: this is why the end of the loop finds nothing left.
Ahead(l, i) ==
  /\ i \in DOMAIN seats[l.owner] /\ seats[l.owner][i] = l
  /\ stage[l.owner] = "releasing" => next[l.owner] <= i
Accounted == \A l \in leases : stage[l.owner] # "idle" /\ \E i \in Nat : Ahead(l, i)

CapacityInv == TypeOK /\ Known /\ Missing /\ Counted /\ WithinCap /\ Accounted

\* Only a reservation and a release change these.
Reserved == <<outstanding, external, leases>>

LEMMA InitCapacity == Init => CapacityInv
<1> SUFFICES ASSUME Init PROVE CapacityInv
  OBVIOUS
<1>1. TypeOK
  <2>1. <<>> \in Seq(Models) /\ <<>> \in Seq(Lease) /\ 1 \in Nat \ {0}
    OBVIOUS
  <2> QED
    BY <2>1, CapacityAssumption DEF Init, TypeOK, Stages
<1>2. \A m \in Models : OfModel(m) = {}
  BY DEF Init, OfModel
<1>3. Counted
  BY <1>2, FS_EmptySet DEF Counted, Init
<1>4. WithinCap
  <2> SUFFICES ASSUME NEW m \in Models, Cap[m] # Unlimited
               PROVE  Cardinality(OfModel(m)) + external[m] <= Cap[m]
    BY DEF WithinCap
  <2>1. Cap[m] \in Nat /\ external[m] = 0 /\ Cardinality(OfModel(m)) = 0
    BY <1>2, FS_EmptySet, CapacityAssumption DEF Init
  <2> QED
    BY <2>1
<1>5. Known /\ Missing /\ Accounted
  BY FS_EmptySet DEF Init, Known, Missing, Accounted
<1> QED
  BY <1>1, <1>3, <1>4, <1>5 DEF CapacityInv

\* The books of one model are finite, and a lease in them counts.
LEMMA ModelBooks ==
  ASSUME Known, NEW m \in Models
  PROVE  IsFiniteSet(OfModel(m)) /\ Cardinality(OfModel(m)) \in Nat
<1>1. OfModel(m) \in SUBSET leases
  BY DEF OfModel
<1> QED
  BY <1>1, FS_Subset, FS_CardinalityType DEF Known

\* A step that changes no book keeps what is said about the books alone.
LEMMA BooksKept ==
  ASSUME Known, Counted, WithinCap, UNCHANGED Reserved, issued' = issued
  PROVE  Known' /\ Counted' /\ WithinCap'
<1>1. \A m \in Models : OfModel(m)' = OfModel(m)
  BY DEF OfModel, Reserved
<1> QED
  BY <1>1 DEF Known, Counted, WithinCap, Reserved

\* Any prefix of a chain that a dispatcher picks is a sequence of models.
LEMMA ChainsAreSequences == Chains \subseteq Seq(Models)
<1> SUFFICES ASSUME NEW refs \in Chains PROVE refs \in Seq(Models)
  OBVIOUS
<1>1. CASE refs = <<>>
  BY <1>1
<1>2. CASE \E n \in 1 .. MaxFallbacks + 1 : refs \in [1 .. n -> Models]
  <2>1. PICK n \in Nat : refs \in [1 .. n -> Models]
    BY <1>2, CapacityAssumption
  <2> QED
    BY <2>1
<1> QED
  BY <1>1, <1>2 DEF Chains

\* A reservation: the new lease is counted once, under the cap, and is the last
\* seat of its dispatcher.
LEMMA ReserveKeeps ==
  ASSUME CapacityInv, NEW d \in Dispatchers, NEW declared \in 0 .. MaxExternal,
         Reserve(d, declared)
  PROVE  CapacityInv'
<1>0. TypeOK /\ Known /\ Missing /\ Counted /\ WithinCap /\ Accounted
  BY DEF CapacityInv
<1>1. PICK m \in Models : m = Head(chain[d])
  BY <1>0 DEF Reserve, TypeOK
<1>a. PICK lease : lease = [id |-> issued + 1, model |-> m, owner |-> d, seat |-> NextSeat(d)]
  OBVIOUS
<1>2. stage[d] = "trying" /\ issued + 1 \in 1 .. MaxLeases /\ Free(m, declared)
  BY <1>0, <1>1, CapacityAssumption DEF Reserve, TypeOK
<1>3. /\ outstanding' = [outstanding EXCEPT ![m] = @ + 1]
      /\ external' = [external EXCEPT ![m] = Larger(@, declared)]
      /\ leases' = leases \cup {lease} /\ issued' = issued + 1
      /\ seats' = [seats EXCEPT ![d] = Append(@, lease)]
      /\ chain' = [chain EXCEPT ![d] = <<>>]
      /\ stage' = [stage EXCEPT ![d] = IF NextSeat(d) = Seats THEN "placed" ELSE "placing"]
      /\ next' = next
  BY <1>1, <1>a DEF Reserve
<1>4. lease \notin leases
  BY <1>0, <1>a DEF Known, TypeOK
<1>5. seats[d] \in Seq(Lease) /\ Len(seats[d]) \in Nat /\ Len(seats[d]) < Seats
  BY <1>0, <1>2 DEF Missing, TypeOK
<1>6. NextSeat(d) \in 1 .. Seats
  BY <1>5, CapacityAssumption DEF NextSeat
<1>7. lease \in Lease
  BY <1>a, <1>1, <1>2, <1>6 DEF Lease
<1>8. declared \in Nat /\ Larger(external[m], declared) \in Nat
  BY <1>0, <1>1, CapacityAssumption DEF TypeOK, Larger
<1>9. TypeOK'
  <2>1. outstanding' \in [Models -> Nat] /\ external' \in [Models -> Nat]
    BY <1>0, <1>1, <1>3, <1>8 DEF TypeOK
  <2>2. leases' \subseteq Lease /\ issued' \in 0 .. MaxLeases
    BY <1>0, <1>2, <1>3, <1>7 DEF TypeOK
  <2>3. stage' \in [Dispatchers -> Stages] /\ next' \in [Dispatchers -> Nat \ {0}]
    BY <1>0, <1>3 DEF TypeOK, Stages
  <2>4. chain' \in [Dispatchers -> Seq(Models)]
    BY <1>0, <1>3 DEF TypeOK
  <2>5. seats' \in [Dispatchers -> Seq(Lease)]
    <3>1. Append(seats[d], lease) \in Seq(Lease)
      BY <1>5, <1>7
    <3> QED
      BY <1>0, <1>3, <3>1 DEF TypeOK
  <2> QED
    BY <2>1, <2>2, <2>3, <2>4, <2>5 DEF TypeOK
<1>10. Known'
  <2>1. IsFiniteSet(leases')
    BY <1>0, <1>3, FS_AddElement DEF Known
  <2>2. \A l \in leases' : l.id <= issued'
    BY <1>0, <1>3, <1>a DEF Known, TypeOK, Lease
  <2> QED
    BY <2>1, <2>2 DEF Known
<1>11. Missing'
  <2> SUFFICES ASSUME NEW e \in Dispatchers, stage'[e] \in {"placing", "trying"}
               PROVE  Len(seats'[e]) < Seats
    BY DEF Missing
  <2>1. CASE e = d
    <3>1. seats'[d] = Append(seats[d], lease)
      BY <1>0, <1>3 DEF TypeOK
    <3>2. Len(seats'[d]) = NextSeat(d)
      BY <3>1, <1>5, <1>7 DEF NextSeat
    <3>3. NextSeat(d) # Seats
      BY <1>0, <1>3, <2>1 DEF TypeOK
    <3> QED
      BY <2>1, <3>2, <3>3, <1>6, CapacityAssumption
  <2>2. CASE e # d
    BY <1>0, <1>3, <2>2 DEF TypeOK, Missing
  <2> QED
    BY <2>1, <2>2
<1>12. /\ OfModel(m)' = OfModel(m) \cup {lease}
       /\ \A n \in Models \ {m} : OfModel(n)' = OfModel(n)
  BY <1>3, <1>a DEF OfModel
<1>13. /\ Cardinality(OfModel(m)') = Cardinality(OfModel(m)) + 1
       /\ Cardinality(OfModel(m)) \in Nat
  <2>1. lease \notin OfModel(m)
    BY <1>4 DEF OfModel
  <2>2. IsFiniteSet(OfModel(m)) /\ Cardinality(OfModel(m)) \in Nat
    BY <1>0, ModelBooks
  <2>3. Cardinality(OfModel(m) \cup {lease}) = Cardinality(OfModel(m)) + 1
    BY <2>1, <2>2, FS_AddElement
  <2> QED
    BY <1>12, <2>2, <2>3
<1>14. Counted'
  BY <1>0, <1>1, <1>3, <1>12, <1>13 DEF Counted, TypeOK
<1>15. WithinCap'
  <2> SUFFICES ASSUME NEW n \in Models, Cap[n] # Unlimited
               PROVE  Cardinality(OfModel(n)') + external'[n] <= Cap[n]
    BY DEF WithinCap
  <2>1. CASE n = m
    <3>1. external'[m] = Larger(external[m], declared)
      BY <1>0, <1>1, <1>3 DEF TypeOK
    <3>2. Cardinality(OfModel(m)) + Larger(external[m], declared) < Cap[m]
      BY <1>0, <1>1, <1>2, <2>1 DEF Free, Counted
    <3>3. Cap[m] \in Nat
      BY <1>1, <2>1, CapacityAssumption
    <3> QED
      BY <2>1, <3>1, <3>2, <3>3, <1>8, <1>13
  <2>2. CASE n # m
    BY <1>0, <1>1, <1>3, <1>12, <2>2 DEF WithinCap, TypeOK
  <2> QED
    BY <2>1, <2>2
<1>16. Accounted'
  <2>1. stage'[d] \in {"placing", "placed"} /\ seats'[d] = Append(seats[d], lease)
    BY <1>0, <1>3 DEF TypeOK
  <2>2. ASSUME NEW l \in leases'
        PROVE  stage'[l.owner] # "idle" /\ \E i \in Nat : Ahead(l, i)'
    <3>1. CASE l = lease
      <4>1. l.owner = d /\ Len(seats[d]) + 1 \in Nat
        BY <1>5, <1>a, <3>1
      <4>2. Len(seats[d]) + 1 \in DOMAIN seats'[d] /\ seats'[d][Len(seats[d]) + 1] = l
        BY <1>5, <1>7, <2>1, <3>1
      <4> QED
        BY <2>1, <4>1, <4>2 DEF Ahead
    <3>2. CASE l \in leases
      <4>1. PICK i \in Nat : Ahead(l, i)
        BY <1>0, <3>2 DEF Accounted
      <4>2. l.owner \in Dispatchers /\ stage[l.owner] # "idle"
        BY <1>0, <3>2 DEF Accounted, TypeOK, Lease
      <4>3. CASE l.owner = d
        <5>1. i \in DOMAIN seats'[d] /\ seats'[d][i] = seats[d][i]
          BY <1>5, <1>7, <2>1, <4>1, <4>3 DEF Ahead
        <5> QED
          BY <2>1, <4>1, <4>3, <5>1 DEF Ahead
      <4>4. CASE l.owner # d
        BY <1>0, <1>3, <4>1, <4>2, <4>4 DEF Ahead, TypeOK
      <4> QED
        BY <4>3, <4>4
    <3> QED
      BY <1>3, <3>1, <3>2
  <2> QED
    BY <2>2 DEF Accounted
<1> QED
  BY <1>9, <1>10, <1>11, <1>14, <1>15, <1>16 DEF CapacityInv

\* A release: the lease is struck off once, and the last one of a model takes
\* the declared dispatches with it.
LEMMA GiveKeeps ==
  ASSUME TypeOK, Known, Counted, WithinCap, NEW lease \in Lease, Give(lease), issued' = issued
  PROVE  /\ outstanding' \in [Models -> Nat] /\ external' \in [Models -> Nat]
         /\ leases' = leases \ {lease}
         /\ Known' /\ Counted' /\ WithinCap'
<1>1. CASE Released(lease)
  <2>1. UNCHANGED Reserved /\ leases' = leases \ {lease}
    BY <1>1 DEF Give, Reserved, Released
  <2> QED
    BY <2>1, BooksKept DEF Reserved, TypeOK
<1>2. CASE lease \in leases
  <2>1. PICK m \in Models : m = lease.model
    BY DEF Lease
  <2>2. /\ outstanding' = [outstanding EXCEPT ![m] = outstanding[m] - 1]
        /\ external' = [external EXCEPT ![m] = IF outstanding[m] - 1 = 0 THEN 0 ELSE @]
        /\ leases' = leases \ {lease}
    BY <1>2, <2>1 DEF Give, Released
  <2>3. IsFiniteSet(OfModel(m)) /\ Cardinality(OfModel(m)) \in Nat /\ lease \in OfModel(m)
    BY <1>2, <2>1, ModelBooks DEF OfModel
  <2>4. /\ OfModel(m)' = OfModel(m) \ {lease}
        /\ \A n \in Models \ {m} : OfModel(n)' = OfModel(n)
    BY <2>1, <2>2 DEF OfModel
  <2>5. /\ Cardinality(OfModel(m) \ {lease}) = Cardinality(OfModel(m)) - 1
        /\ Cardinality(OfModel(m) \ {lease}) \in Nat
    BY <2>3, FS_RemoveElement, FS_CardinalityType
  <2>6. outstanding[m] = Cardinality(OfModel(m)) /\ outstanding[m] - 1 \in Nat
    BY <2>3, <2>5 DEF Counted
  <2>7. outstanding' \in [Models -> Nat] /\ external' \in [Models -> Nat]
    BY <2>2, <2>6 DEF TypeOK
  <2>8. Known'
    BY <2>2, FS_RemoveElement DEF Known
  <2>9. Counted'
    BY <2>2, <2>4, <2>5, <2>6 DEF Counted, TypeOK
  <2>10. WithinCap'
    <3> SUFFICES ASSUME NEW n \in Models, Cap[n] # Unlimited
                 PROVE  Cardinality(OfModel(n)') + external'[n] <= Cap[n]
      BY DEF WithinCap
    <3>1. CASE n = m
      <4>1. Cardinality(OfModel(m)) + external[m] <= Cap[m] /\ Cap[m] \in Nat
        BY <3>1, CapacityAssumption DEF WithinCap
      <4>2. external[m] \in Nat /\ external'[m] \in {0, external[m]}
        BY <2>2 DEF TypeOK
      <4>3. Cardinality(OfModel(n)') = Cardinality(OfModel(m)) - 1
        BY <2>4, <2>5, <3>1
      <4>4. external'[n] <= external[m] /\ external'[n] \in Nat
        BY <3>1, <4>2
      <4> QED
        BY <2>3, <3>1, <4>1, <4>2, <4>3, <4>4
    <3>2. CASE n # m
      BY <2>2, <2>4, <3>2 DEF WithinCap, TypeOK
    <3> QED
      BY <3>1, <3>2
  <2> QED
    BY <2>2, <2>7, <2>8, <2>9, <2>10
<1> QED
  BY <1>1, <1>2 DEF Released

\* A round of the loop strikes off the lease it is at, so that the others are
\* still ahead of it.
LEMMA RoundKeeps ==
  ASSUME CapacityInv, NEW d \in Dispatchers, ReleaseSeat(d)
  PROVE  CapacityInv'
<1>0. TypeOK /\ Known /\ Missing /\ Counted /\ WithinCap /\ Accounted
  BY DEF CapacityInv
<1>1. PICK lease \in Lease : lease = seats[d][next[d]] /\ Give(lease)
  BY <1>0 DEF ReleaseSeat, TypeOK
<1>2. /\ stage[d] = "releasing" /\ next' = [next EXCEPT ![d] = @ + 1]
      /\ UNCHANGED <<issued, stage, chain, seats>>
  BY DEF ReleaseSeat
<1>3. /\ outstanding' \in [Models -> Nat] /\ external' \in [Models -> Nat]
      /\ leases' = leases \ {lease} /\ Known' /\ Counted' /\ WithinCap'
  BY <1>0, <1>1, <1>2, GiveKeeps
<1>4. TypeOK' /\ Missing'
  BY <1>0, <1>2, <1>3 DEF TypeOK, Missing
<1>5. Accounted'
  <2> SUFFICES ASSUME NEW l \in leases'
               PROVE  stage'[l.owner] # "idle" /\ \E i \in Nat : Ahead(l, i)'
    BY DEF Accounted
  <2>1. l \in leases /\ l # lease /\ l.owner \in Dispatchers
    BY <1>0, <1>3 DEF TypeOK, Lease
  <2>2. PICK i \in Nat : Ahead(l, i)
    BY <1>0, <2>1 DEF Accounted
  <2>3. l.owner = d => i # next[d]
    BY <1>1, <2>1, <2>2 DEF Ahead
  <2>4. Ahead(l, i)'
    BY <1>0, <1>2, <2>1, <2>2, <2>3 DEF Ahead, TypeOK
  <2> QED
    BY <1>0, <1>2, <2>1, <2>4 DEF Accounted
<1> QED
  BY <1>3, <1>4, <1>5 DEF CapacityInv

\* A repeated release takes nothing that a loop has not come to yet.
LEMMA AgainKeeps ==
  ASSUME CapacityInv, NEW d \in Dispatchers, ReleaseAgain(d)
  PROVE  CapacityInv'
<1>0. TypeOK /\ Known /\ Missing /\ Counted /\ WithinCap /\ Accounted
  BY DEF CapacityInv
<1>1. PICK lease \in Lease : Give(lease)
  BY <1>0 DEF ReleaseAgain, TypeOK
<1>2. UNCHANGED <<issued, stage, chain, seats, next>>
  BY DEF ReleaseAgain, places
<1>3. /\ outstanding' \in [Models -> Nat] /\ external' \in [Models -> Nat]
      /\ leases' = leases \ {lease} /\ Known' /\ Counted' /\ WithinCap'
  BY <1>0, <1>1, <1>2, GiveKeeps
<1>4. TypeOK' /\ Missing' /\ Accounted'
  BY <1>0, <1>2, <1>3 DEF TypeOK, Missing, Accounted, Ahead
<1> QED
  BY <1>3, <1>4 DEF CapacityInv

\* A dispatcher that goes from one stage to another, or starts its loop, with
\* its seats as they are, loses sight of none of its leases.
LEMMA MoveKeeps ==
  ASSUME CapacityInv, TypeOK', UNCHANGED <<books, seats>>, NEW d \in Dispatchers,
         stage[d] # "idle",
         NEW to \in Stages \ {"idle"}, stage' = [stage EXCEPT ![d] = to],
         to \in {"placing", "trying"} => stage[d] \in {"placing", "trying"},
         \/ to # "releasing" /\ next' = next
         \/ next' = [next EXCEPT ![d] = 1]
  PROVE  CapacityInv'
<1>0. TypeOK /\ Known /\ Missing /\ Counted /\ WithinCap /\ Accounted
  BY DEF CapacityInv
<1>1. Known' /\ Counted' /\ WithinCap'
  BY <1>0, BooksKept DEF books, Reserved
<1>2. Missing'
  BY <1>0 DEF Missing, TypeOK
<1>3. Accounted'
  <2> SUFFICES ASSUME NEW l \in leases'
               PROVE  stage'[l.owner] # "idle" /\ \E i \in Nat : Ahead(l, i)'
    BY DEF Accounted
  <2>1. l \in leases /\ l.owner \in Dispatchers
    BY <1>0 DEF TypeOK, Lease, books
  <2>2. PICK i \in Nat : Ahead(l, i)
    BY <1>0, <2>1 DEF Accounted
  <2>3. i \in DOMAIN seats'[l.owner] /\ seats'[l.owner][i] = l /\ 1 <= i
    BY <1>0, <2>1, <2>2 DEF Ahead, TypeOK
  <2>4. stage'[l.owner] = "releasing" => next'[l.owner] <= i
    BY <1>0, <2>1, <2>2, <2>3 DEF Ahead, TypeOK, Stages
  <2> QED
    BY <1>0, <2>1, <2>3, <2>4 DEF Ahead, Accounted, TypeOK
<1> QED
  BY <1>1, <1>2, <1>3 DEF CapacityInv

\* The start of a release loop is well typed.
LEMMA UnwindTyped ==
  ASSUME TypeOK, NEW d \in Dispatchers, Unwind(d)
  PROVE  stage' \in [Dispatchers -> Stages] /\ next' \in [Dispatchers -> Nat \ {0}]
  BY DEF TypeOK, Unwind, Stages

\* Every step keeps the invariant.
LEMMA StepKeeps == CapacityInv /\ [Next]_vars => CapacityInv'
<1> SUFFICES ASSUME CapacityInv, [Next]_vars PROVE CapacityInv'
  OBVIOUS
<1>0. TypeOK /\ Known /\ Missing /\ Counted /\ WithinCap /\ Accounted
  BY DEF CapacityInv
<1>1. ASSUME UNCHANGED Reserved, issued' = issued, TypeOK', Missing', Accounted'
      PROVE  CapacityInv'
  BY <1>0, <1>1, BooksKept DEF CapacityInv
<1>2. ASSUME NEW d \in Dispatchers, Start(d)
      PROVE  CapacityInv'
  <2>1. TypeOK'
    BY <1>0, <1>2 DEF Start, TypeOK, Stages, books
  <2>2. Missing'
    BY <1>0, <1>2, CapacityAssumption DEF Start, TypeOK, Missing
  <2>3. Accounted'
    <3> SUFFICES ASSUME NEW l \in leases'
                 PROVE  stage'[l.owner] # "idle" /\ \E i \in Nat : Ahead(l, i)'
      BY DEF Accounted
    <3>1. l \in leases /\ l.owner \in Dispatchers
      BY <1>0, <1>2 DEF TypeOK, Lease, Start, books
    <3>2. stage[l.owner] # "idle" /\ l.owner # d
      BY <1>0, <1>2, <3>1 DEF Accounted, Start
    <3>3. PICK i \in Nat : Ahead(l, i)
      BY <1>0, <3>1 DEF Accounted
    <3> QED
      BY <1>0, <1>2, <3>1, <3>2, <3>3 DEF Ahead, Start, TypeOK
  <2> QED
    BY <1>1, <1>2, <2>1, <2>2, <2>3 DEF Start, books, Reserved
<1>3. ASSUME NEW d \in Dispatchers, Select(d)
      PROVE  CapacityInv'
  <2>1. TypeOK'
    <3>1. \/ UNCHANGED chain
          \/ \E refs \in Seq(Models) : chain' = [chain EXCEPT ![d] = refs]
      BY <1>3, ChainsAreSequences DEF Select
    <3>2. chain' \in [Dispatchers -> Seq(Models)]
      BY <1>0, <3>1 DEF TypeOK
    <3>3. stage' \in [Dispatchers -> Stages] /\ next' \in [Dispatchers -> Nat \ {0}]
      <4>1. CASE GiveUp(d)
        BY <1>0, <4>1, UnwindTyped DEF GiveUp
      <4>2. CASE ~GiveUp(d)
        BY <1>0, <1>3, <4>2 DEF Select, TypeOK, Stages
      <4> QED
        BY <4>1, <4>2
    <3>4. UNCHANGED <<books, seats>>
      BY <1>3 DEF Select
    <3> QED
      BY <1>0, <3>2, <3>3, <3>4 DEF TypeOK, books
  <2> QED
    BY <1>3, <2>1, MoveKeeps DEF Select, GiveUp, Unwind, Stages
<1>4. ASSUME NEW d \in Dispatchers, Pin(d)
      PROVE  CapacityInv'
  <2>1. TypeOK'
    BY <1>0, <1>4 DEF Pin, TypeOK, Stages, books, places
  <2> QED
    BY <1>4, <2>1, MoveKeeps DEF Pin, Stages, places
<1>5. ASSUME NEW d \in Dispatchers, NEW declared \in 0 .. MaxExternal, Refuse(d, declared)
      PROVE  CapacityInv'
  <2>1. TypeOK'
    <3>1. chain' \in [Dispatchers -> Seq(Models)]
      BY <1>0, <1>5 DEF Refuse, TypeOK
    <3>2. /\ stage' \in [Dispatchers -> Stages]
          /\ next' \in [Dispatchers -> Nat \ {0}]
      <4>1. CASE GiveUp(d)
        BY <1>0, <4>1, UnwindTyped DEF GiveUp
      <4>2. CASE ~GiveUp(d)
        BY <1>0, <1>5, <4>2 DEF Refuse, TypeOK
      <4> QED
        BY <4>1, <4>2
    <3>3. UNCHANGED <<books, seats>>
      BY <1>5 DEF Refuse
    <3> QED
      BY <1>0, <3>1, <3>2, <3>3 DEF TypeOK, books
  <2>2. CASE Len(chain[d]) = 1
    BY <1>5, <2>1, <2>2, MoveKeeps DEF Refuse, GiveUp, Unwind, Stages
  <2>3. CASE Len(chain[d]) # 1
    <3>1. Missing' /\ Accounted'
      BY <1>0, <1>5, <2>3 DEF Refuse, Missing, Accounted, Ahead, books
    <3> QED
      BY <1>1, <1>5, <2>1, <3>1 DEF Refuse, books, Reserved
  <2> QED
    BY <2>2, <2>3
<1>6. ASSUME NEW d \in Dispatchers, Record(d)
      PROVE  CapacityInv'
  <2>1. TypeOK'
    <3>1. /\ stage' \in [Dispatchers -> Stages]
          /\ next' \in [Dispatchers -> Nat \ {0}]
      <4>1. CASE GiveUp(d)
        BY <1>0, <4>1, UnwindTyped DEF GiveUp
      <4>2. CASE ~GiveUp(d)
        BY <1>0, <1>6, <4>2 DEF Record, TypeOK, Stages
      <4> QED
        BY <4>1, <4>2
    <3>2. UNCHANGED <<books, seats, chain>>
      BY <1>6 DEF Record
    <3> QED
      BY <1>0, <3>1, <3>2 DEF TypeOK, books
  <2> QED
    BY <1>6, <2>1, MoveKeeps DEF Record, GiveUp, Unwind, Stages
<1>7. ASSUME NEW d \in Dispatchers, Finish(d)
      PROVE  CapacityInv'
  <2>1. TypeOK'
    BY <1>0, <1>7 DEF Finish, Unwind, TypeOK, Stages, books
  <2> QED
    BY <1>7, <2>1, MoveKeeps DEF Finish, Unwind, Stages
<1>8. ASSUME NEW d \in Dispatchers, End(d)
      PROVE  CapacityInv'
  <2>1. TypeOK' /\ Missing'
    BY <1>0, <1>8 DEF End, TypeOK, Stages, Missing, books, places
  <2>2. Accounted'
    <3> SUFFICES ASSUME NEW l \in leases'
                 PROVE  stage'[l.owner] # "idle" /\ \E i \in Nat : Ahead(l, i)'
      BY DEF Accounted
    <3>1. l \in leases /\ l.owner \in Dispatchers
      BY <1>0, <1>8 DEF TypeOK, Lease, End, books
    <3>2. PICK i \in Nat : Ahead(l, i)
      BY <1>0, <3>1 DEF Accounted
    <3>3. l.owner # d
      BY <1>0, <1>8, <3>1, <3>2 DEF Ahead, End, TypeOK
    <3> QED
      BY <1>0, <1>8, <3>1, <3>2, <3>3 DEF Ahead, Accounted, End, TypeOK, places
  <2> QED
    BY <1>1, <1>8, <2>1, <2>2 DEF End, books, Reserved
<1>9. CASE UNCHANGED vars
  <2>1. UNCHANGED Reserved /\ issued' = issued
    BY <1>9 DEF vars, Reserved
  <2>2. TypeOK' /\ Missing' /\ Accounted'
    BY <1>0, <1>9 DEF vars, TypeOK, Missing, Accounted, Ahead
  <2> QED
    BY <1>1, <2>1, <2>2
<1> QED
  BY <1>2, <1>3, <1>4, <1>5, <1>6, <1>7, <1>8, <1>9, ReserveKeeps, RoundKeeps, AgainKeeps DEF Next

LEMMA CapacityAlways == Spec => []CapacityInv
  BY InitCapacity, StepKeeps, PTL DEF Spec

\* The books are well typed: in particular no counter ever becomes negative.
THEOREM CapacityTyped == Spec => []TypeOK
<1>1. CapacityInv => TypeOK
  BY DEF CapacityInv
<1> QED
  BY <1>1, CapacityAlways, PTL

\* Each counter is the number of the leases of its model: releases count once,
\* however often a clean-up path repeats them.
THEOREM LeasesCounted == Spec => []Counted
<1>1. CapacityInv => Counted
  BY DEF CapacityInv
<1> QED
  BY <1>1, CapacityAlways, PTL

\* No model is overbooked, whatever any number of dispatchers rank, declare,
\* reserve and release in any order.
THEOREM CapKept == Spec => []WithinCap
<1>1. CapacityInv => WithinCap
  BY DEF CapacityInv
<1> QED
  BY <1>1, CapacityAlways, PTL

\* Wherever a dispatch breaks off, its release loop comes to every lease it got:
\* none outlives the dispatch it was issued to.
THEOREM LeasesReturned == Spec => []NothingLeaked
<1>1. CapacityInv => NothingLeaked
  BY DEF CapacityInv, Accounted, Ahead, NothingLeaked
<1> QED
  BY <1>1, CapacityAlways, PTL
----------------------------------------------------------------------------
(* The planner: what a plan promises for any work items, sessions,         *)
(* worktrees and pull requests.                                            *)

\* A plan is made in one step from the bundle it is for.
Planned == inputs \in Inputs /\ (plan = {} \/ plan = PlanMany(inputs))

LEMMA PlannedAlways == PlanSpec => []Planned
<1>1. PlanInit => Planned
  BY DEF PlanInit, Planned
<1>2. Planned /\ [PlanNext]_planVars => Planned'
  BY DEF Planned, PlanNext, Reconcile, planVars
<1>3. QED
  BY <1>1, <1>2, PTL DEF PlanSpec

\* The table yields at most one action, attributed to its item.
LEMMA OneCrashPoint ==
  ASSUME NEW b, NEW i, NEW a \in CrashPoint(b, i), NEW c \in CrashPoint(b, i)
  PROVE  a = c /\ a.by = i /\ a.item = i
<1> DEFINE table == Table(b, i)
           rows == {k \in DOMAIN table : table[k].holds}
           first == {m \in rows : \A n \in rows : m <= n}
<1>1. DOMAIN table \subseteq Nat
  BY DEF Table
<1>2. \A k, m \in first : k = m
  BY <1>1
<1>3. PICK k \in first : a = Act(b, i, table[k].kind)
  BY DEF CrashPoint
<1>4. PICK m \in first : c = Act(b, i, table[m].kind)
  BY DEF CrashPoint
<1>5. QED
  BY <1>2, <1>3, <1>4 DEF Act

\* Where the actions of a plan come from.
LEMMA Sources ==
  ASSUME NEW b, NEW a \in PlanMany(b)
  PROVE  \E i \in Items : a \in PlanOne(b, i)
  BY DEF PlanMany, Finalize

\* Actions that take up work come from the crash point of the item they name,
\* or are the collection of an ended session's result.
LEMMA RecoverySource ==
  ASSUME NEW b, NEW i \in Items, NEW a \in PlanOne(b, i), a.kind \in Recovery
  PROVE  /\ a.by = i /\ a.item = i
         /\ b.obs[i].phase # "terminal"
         /\ ~ (HasState(b, i) /\ b.obs[i].claim = "stale")
         /\ a \in CrashPoint(b, i) \/ a = Act(b, i, "collect")
<1>1. a \notin OrphanSessions(b, i) \cup OrphanWorktrees(b, i)
  BY DEF OrphanSessions, OrphanWorktrees, Recovery
<1>2. Duplicates(b, i) \in {"none", "escalate", "collect"}
  BY DEF Duplicates
<1>3. \A kind : Act(b, i, kind).kind = kind /\ Act(b, i, kind).by = i /\ Act(b, i, kind).item = i
  BY DEF Act
<1>4. b.obs[i].phase # "terminal"
  BY <1>3 DEF PlanOne, Recovery
<1>5. ~ RecordedHeadMoved(b, i) /\ ~ (HasState(b, i) /\ b.obs[i].claim = "stale")
  BY <1>3, <1>4 DEF PlanOne, Recovery
<1>6. CASE Duplicates(b, i) # "none"
  BY <1>2, <1>3, <1>4, <1>5, <1>6 DEF PlanOne, Recovery
<1>7. CASE Duplicates(b, i) = "none"
  <2>1. a \in CrashPoint(b, i)
    BY <1>1, <1>4, <1>5, <1>7 DEF PlanOne
  <2>2. QED
    BY <2>1, <1>4, <1>5, OneCrashPoint
<1>8. QED
  BY <1>6, <1>7

\* Without a state there is no run whose sessions could be collected, and
\* every row of the table that takes up work asks for a claim.
LEMMA UntrackedIsLeft ==
  ASSUME NEW b, NEW i \in Items, NEW a \in PlanOne(b, i),
         ~ HasState(b, i), ~ HasClaim(b, i)
  PROVE  a.kind \notin Recovery
<1>1. Duplicates(b, i) = "none"
  <2>1. Cardinality(OfRun(b, i)) = 0
    BY FS_EmptySet DEF OfRun
  <2>2. QED
    BY <2>1 DEF Duplicates
<1>2. SUFFICES ASSUME a.kind \in Recovery
               PROVE  FALSE
  OBVIOUS
<1>3. a \in CrashPoint(b, i)
  BY <1>1, <1>2, RecoverySource DEF PlanOne, OrphanSessions, OrphanWorktrees, Recovery, Act
<1> DEFINE table == Table(b, i)
<1>4. PICK k \in DOMAIN table : table[k].holds /\ a.kind = table[k].kind
  BY <1>3 DEF CrashPoint, Act
<1>5. ~ HasPr(b, i) /\ ~ HasBranch(b, i)
  BY DEF HasPr, HasBranch
<1>6. DOMAIN table = 1..17
  BY DEF Table
<1>7. \A m \in 4..15 : ~ table[m].holds
  <2>1. /\ ~ table[4].holds /\ ~ table[5].holds /\ ~ table[6].holds /\ ~ table[7].holds
        /\ ~ table[8].holds /\ ~ table[9].holds /\ ~ table[10].holds /\ ~ table[11].holds
    BY <1>5 DEF Table, Row
  <2>2. ~ table[12].holds /\ ~ table[13].holds /\ ~ table[14].holds /\ ~ table[15].holds
    BY <1>5 DEF Table, Row
  <2>3. QED
    BY <2>1, <2>2
<1>8. \A m \in {1, 2, 3, 16, 17} : table[m].kind \notin Recovery
  BY DEF Table, Row, Recovery
<1>9. QED
  BY <1>2, <1>4, <1>6, <1>7, <1>8

\* reconcile.py:763-791: no plan takes up work whose lease has expired, work
\* that is over, or work that was never tracked.
THEOREM RecoveryOwned == PlanSpec => []RecoveryNeedsLease
<1>1. Planned => RecoveryNeedsLease
  <2>1. SUFFICES ASSUME Planned, NEW a \in plan, a.kind \in Recovery
                 PROVE  inputs.obs[a.item].phase = "active" /\ inputs.obs[a.item].claim # "stale"
    BY DEF RecoveryNeedsLease
  <2>2. inputs \in Inputs /\ plan = PlanMany(inputs)
    BY <2>1 DEF Planned
  <2>3. PICK i \in Items : a \in PlanOne(inputs, i)
    BY <2>2, Sources
  <2>4. a.item = i /\ inputs.obs[i].phase # "terminal"
        /\ ~ (HasState(inputs, i) /\ inputs.obs[i].claim = "stale")
    BY <2>1, <2>3, RecoverySource
  <2>5. inputs \in Bundle /\ (inputs.obs[i].phase = "none" => inputs.obs[i].claim = "none")
    BY <2>2, InputAssumption
  <2>6. inputs.obs[i].phase \in {"none", "active", "terminal"}
    BY <2>5 DEF Bundle, Observation
  <2>7. inputs.obs[i].phase # "none"
    BY <2>1, <2>3, <2>5, UntrackedIsLeft DEF HasState, HasClaim
  <2>8. QED
    BY <2>4, <2>5, <2>6, <2>7 DEF HasState
<1>2. QED
  BY <1>1, PlannedAlways, PTL

\* reconcile.py:1159-1184: a plan holds at most one branch action of a run.
\* Two of them by one item are the same crash point; of two items the later
\* one is dropped.
THEOREM OneBranch == PlanSpec => []OneBranchPerRun
<1>1. Planned => OneBranchPerRun
  <2>1. SUFFICES ASSUME Planned, NEW a \in plan, NEW c \in plan,
                        a.kind = "relaunch", c.kind = "relaunch", a.run = c.run
                 PROVE  a = c
    BY DEF OneBranchPerRun
  <2>2. plan = PlanMany(inputs)
    BY <2>1 DEF Planned
  <2>3. PICK i \in Items : a \in PlanOne(inputs, i)
    BY <2>2, Sources
  <2>4. PICK j \in Items : c \in PlanOne(inputs, j)
    BY <2>2, Sources
  <2>5. Act(inputs, i, "collect").kind = "collect" /\ Act(inputs, j, "collect").kind = "collect"
    BY DEF Act
  <2>6. a.by = i /\ c.by = j /\ a \in CrashPoint(inputs, i) /\ c \in CrashPoint(inputs, j)
    BY <2>1, <2>3, <2>4, <2>5, RecoverySource DEF Recovery
  <2>7. ~ (a.by < c.by) /\ ~ (c.by < a.by)
    BY <2>1, <2>2 DEF PlanMany, Finalize
  <2>8. i = j
    BY <2>6, <2>7, PlanAssumption
  <2>9. QED
    BY <2>6, <2>8, OneCrashPoint
<1>2. QED
  BY <1>1, PlannedAlways, PTL

\* Clean-ups come from the inventories; every other action has another kind.
LEMMA CleanupSource ==
  ASSUME NEW b, NEW i \in Items, NEW a \in PlanOne(b, i), a.kind \in Cleanup
  PROVE  a \in OrphanSessions(b, i) \cup OrphanWorktrees(b, i)
<1>1. \A kind : Act(b, i, kind).kind = kind
  BY DEF Act
<1>2. Duplicates(b, i) \in {"none", "escalate", "collect"}
  BY DEF Duplicates
<1>3. a \notin CrashPoint(b, i)
  <2> DEFINE table == Table(b, i)
  <2>1. SUFFICES ASSUME NEW k \in DOMAIN table, a = Act(b, i, table[k].kind)
                 PROVE  FALSE
    BY DEF CrashPoint
  <2>2. \A m \in 1..17 : table[m].kind \in Manual \cup Recovery \cup {"noop"}
    BY DEF Table, Row, Manual, Recovery
  <2>3. DOMAIN table = 1..17
    BY DEF Table
  <2>4. QED
    BY <1>1, <2>1, <2>2, <2>3 DEF Cleanup, Manual, Recovery
<1>4. QED
  BY <1>1, <1>2, <1>3 DEF PlanOne, Cleanup

\* reconcile.py:46-68: what any item of the pass holds a live lease for is not
\* cleaned by the plan of another one.
THEOREM LeasedKept == PlanSpec => []NothingLeasedCleaned
<1>1. Planned => NothingLeasedCleaned
  <2>1. SUFFICES ASSUME Planned, NEW a \in plan, a.kind \in Cleanup
                 PROVE
    /\ a.kind = "clean_session" =>
         \E s \in inputs.sessions :
           /\ s.id = a.target /\ s.old /\ s.item # None
           /\ ~ (Fresh(inputs, s.item) /\ inputs.obs[s.item].run = s.run)
    /\ a.kind = "clean_worktree" =>
         \E t \in inputs.trees :
           /\ t.branch = a.target /\ t.old /\ ~t.default
           /\ \A j \in Items : Fresh(inputs, j) => inputs.obs[j].branch # t.branch
    BY DEF NothingLeasedCleaned, Cleanup
  <2>2. inputs \in Bundle /\ plan = PlanMany(inputs)
    BY <2>1, InputAssumption DEF Planned
  <2>3. PICK i \in Items : a \in PlanOne(inputs, i)
    BY <2>2, Sources
  <2>4. CASE a \in OrphanSessions(inputs, i)
    <3>1. PICK s \in inputs.sessions :
            s.item # None /\ s.old /\ s \notin LiveSessions(inputs, i)
            /\ a.kind = "clean_session" /\ a.target = s.id
      BY <2>4 DEF OrphanSessions
    <3>2. s.item \in Items
      BY <2>2, <3>1 DEF Bundle, Session
    <3>3. ~ (Fresh(inputs, s.item) /\ inputs.obs[s.item].run = s.run)
      BY <3>1, <3>2 DEF LiveSessions
    <3>4. QED
      BY <3>1, <3>3
  <2>5. CASE a \in OrphanWorktrees(inputs, i)
    <3>1. PICK t \in inputs.trees :
            t.old /\ ~t.default /\ t.branch \notin LiveBranches(inputs)
            /\ a.kind = "clean_worktree" /\ a.target = t.branch
      BY <2>5 DEF OrphanWorktrees
    <3>2. t.branch \in Items
      BY <2>2, <3>1 DEF Bundle, Worktree
    <3>3. ASSUME NEW j \in Items, Fresh(inputs, j), inputs.obs[j].branch = t.branch
          PROVE  FALSE
      <4>1. t.branch # None
        BY <3>2, PlanAssumption DEF None
      <4>2. HasBranch(inputs, j)
        BY <3>3, <4>1 DEF HasBranch, HasClaim, Fresh
      <4>3. QED
        BY <3>1, <3>3, <4>2 DEF LiveBranches
    <3>4. QED
      BY <3>1, <3>3
  <2>6. QED
    BY <2>1, <2>3, <2>4, <2>5, CleanupSource
<1>2. QED
  BY <1>1, PlannedAlways, PTL

LEMMA ActTyped ==
  ASSUME NEW b \in Bundle, NEW i \in Items, NEW kind \in Kinds
  PROVE  Act(b, i, kind) \in Action
<1>1. b.obs[i].run \in Runs \cup {None}
  BY DEF Bundle, Observation
<1>2. QED
  BY <1>1 DEF Act, Action

\* Every row of the table names a kind of action.
LEMMA RowKinds ==
  ASSUME NEW b, NEW i, NEW k \in DOMAIN Table(b, i)
  PROVE  Table(b, i)[k].kind \in Kinds
<1>1. DOMAIN Table(b, i) = 1 .. 17
  BY DEF Table
<1>2. {"halt", "escalate", "resume", "collect", "relaunch", "noop"} \subseteq Kinds
  BY DEF Kinds, Manual, Recovery
<1>3. CASE k \in 1 .. 6
  BY <1>2, <1>3 DEF Table, Row
<1>4. CASE k \in 7 .. 12
  BY <1>2, <1>4 DEF Table, Row
<1>5. CASE k \in 13 .. 17
  BY <1>2, <1>5 DEF Table, Row
<1>6. QED
  BY <1>1, <1>3, <1>4, <1>5

\* A plan consists of known actions: each is attributed to an item of the
\* pass, names an item, a run and a target that there are, or none
\* (Action, reconcile.py:129-149).
THEOREM PlanTyped == PlanSpec => []PlanTypeOK
<1>1. ASSUME Planned PROVE PlanTypeOK
  <2>1. inputs \in Inputs /\ inputs \in Bundle
    BY <1>1, InputAssumption DEF Planned
  <2>2. ASSUME NEW i \in Items PROVE PlanOne(inputs, i) \subseteq Action
    <3>1. /\ Act(inputs, i, "noop") \in Action /\ Act(inputs, i, "halt") \in Action
          /\ Act(inputs, i, "escalate") \in Action /\ Act(inputs, i, "collect") \in Action
      BY <2>1, ActTyped DEF Kinds, Manual, Recovery
    <3>2. Duplicates(inputs, i) \in {"none", "escalate", "collect"}
      BY DEF Duplicates
    <3>3. CrashPoint(inputs, i) \subseteq Action
      BY <2>1, ActTyped, RowKinds DEF CrashPoint
    <3>4. OrphanSessions(inputs, i) \subseteq Action
      BY <2>1 DEF OrphanSessions, Action, Bundle, Session, Kinds, Cleanup
    <3>5. OrphanWorktrees(inputs, i) \subseteq Action
      BY <2>1 DEF OrphanWorktrees, Action, Bundle, Worktree, Kinds, Cleanup
    <3>6. QED
      BY <3>1, <3>2, <3>3, <3>4, <3>5 DEF PlanOne
  <2>3. PlanMany(inputs) \subseteq Action
    BY <2>2, Sources
  <2>4. QED
    BY <1>1, <2>1, <2>3 DEF Planned, PlanTypeOK
<1>2. QED
  BY <1>1, PlannedAlways, PTL
=============================================================================
