------------------------- MODULE DurableRoomProofs -------------------------
(***************************************************************************)
(* What DurableRoom promises, for every number of players, places and      *)
(* world entries and every configuration: whatever implements it keeps its *)
(* world, its host and the right to write through every fault.             *)
(***************************************************************************)
EXTENDS DurableRoom, FiniteSetTheorems, TLAPS

\* What the relay's configuration and the bound on versions are assumed to be.
Sensible ==
  /\ NoId \notin Ids
  /\ RoomCapacity \in Nat
  /\ MaxVersion \in Nat
  /\ HostPlayerId \in Ids \cup {NoId}

\* Order with what an induction over the players needs.
Inv ==
  /\ TypeOK
  /\ IsFiniteSet(present)
  /\ Order

\* An empty room is in order.
LEMMA InvInit == Sensible /\ Init => Inv
BY FS_EmptySet DEF Sensible, Init, Inv, TypeOK, Order

\* Players who go leave no more behind.
LEMMA FewerPresent ==
  ASSUME Sensible, Inv, present' \subseteq present
  PROVE  IsFiniteSet(present') /\ Cardinality(present') <= RoomCapacity
<1>1. IsFiniteSet(present) /\ Cardinality(present) <= RoomCapacity
  BY DEF Inv, Order
<1>2. IsFiniteSet(present') /\ Cardinality(present') <= Cardinality(present)
  BY <1>1, FS_Subset
<1>3. Cardinality(present) \in Nat /\ Cardinality(present') \in Nat
  BY <1>1, <1>2, FS_CardinalityType
<1>4. QED
  BY <1>1, <1>2, <1>3 DEF Sensible

\* Every step keeps the order.
LEMMA InvStep == Sensible /\ Inv /\ [Next]_vars => Inv'
<1> SUFFICES ASSUME Sensible, Inv, [Next]_vars
             PROVE  Inv'
  OBVIOUS
<1> USE DEF Sensible, Inv, TypeOK, Order
<1>1. ASSUME NEW i \in Ids, NEW claimed \in BOOLEAN, Join(i, claimed)
      PROVE  Inv'
  <2>1. /\ IsFiniteSet(present')
        /\ Cardinality(present') = Cardinality(present) + 1
    BY <1>1, FS_AddElement DEF Join
  <2>2. Cardinality(present) \in Nat
    BY FS_CardinalityType
  <2>3. Cardinality(present') <= RoomCapacity
    BY <1>1, <2>1, <2>2 DEF Join
  <2>4. TypeOK'
    BY <1>1 DEF Join
  <2>5. host' \in present' => host' \in writers'
    BY <1>1 DEF Join
  <2>6. QED
    BY <2>1, <2>3, <2>4, <2>5
<1>2. ASSUME NEW i \in Ids, Leave(i)
      PROVE  Inv'
  <2>1. IsFiniteSet(present') /\ Cardinality(present') <= RoomCapacity
    BY <1>2, FewerPresent DEF Leave
  <2>2. TypeOK'
    BY <1>2 DEF Leave, Succeeds, Stays
  <2>3. QED
    BY <1>2, <2>1, <2>2 DEF Leave, Stays
<1>3. ASSUME NEW i \in Ids, Drop(i)
      PROVE  Inv'
  <2>1. IsFiniteSet(present') /\ Cardinality(present') <= RoomCapacity
    BY <1>3, FewerPresent DEF Drop
  <2>2. TypeOK'
    BY <1>3 DEF Drop, Stays
  <2>3. QED
    BY <1>3, <2>1, <2>2 DEF Drop, Stays
<1>4. ASSUME NEW i \in Ids, Appear(i)
      PROVE  Inv'
  BY <1>4 DEF Appear
<1>5. ASSUME NEW w \in World, Publish(w)
      PROVE  Inv'
  <2>1. world[w] + 1 \in 0..MaxVersion
    BY <1>5 DEF Publish
  <2>2. QED
    BY <1>5, <2>1 DEF Publish
<1>6. CASE HangUp
  BY <1>6 DEF HangUp, Stays
<1>7. CASE Restart
  BY <1>7, FewerPresent DEF Restart
<1>8. CASE UNCHANGED vars
  BY <1>8 DEF vars
<1>9. QED
  BY <1>1, <1>2, <1>3, <1>4, <1>5, <1>6, <1>7, <1>8 DEF Next

\* Inv is an invariant.
LEMMA InvInvariant == Sensible => (Spec => []Inv)
<1> SUFFICES ASSUME Sensible
             PROVE  Spec => []Inv
  OBVIOUS
<1>1. Init => Inv
  BY InvInit
<1>2. Inv /\ [Next]_vars => Inv'
  BY InvStep
<1>3. QED
  BY <1>1, <1>2, PTL DEF Spec

\* Under every fault the room is bounded, and a host who is present may write.
THEOREM OrderIsKept == Sensible => (Spec => []Order)
<1> SUFFICES ASSUME Sensible
             PROVE  Spec => []Order
  OBVIOUS
<1>1. Inv => Order
  BY DEF Inv
<1>2. QED
  BY <1>1, InvInvariant, PTL

\* No fault and no restart takes a world update back.
THEOREM WorldGoesForward == Sensible => (Spec => NeverBack)
<1> SUFFICES ASSUME Sensible
             PROVE  Spec => NeverBack
  OBVIOUS
<1>1. ASSUME Inv, [Next]_vars
      PROVE  \A w \in World : world'[w] \in {world[w], world[w] + 1}
  BY <1>1 DEF Next, vars, Join, Leave, Drop, HangUp, Appear, Publish, Restart, Inv, TypeOK
<1>2. QED
  BY <1>1, InvInvariant, PTL DEF Spec, NeverBack

\* A host loses the role only by leaving, or to the configured player.
THEOREM HostIsKept == Sensible => (Spec => HostStays)
<1> SUFFICES ASSUME Sensible
             PROVE  Spec => HostStays
  OBVIOUS
<1>1. ASSUME Inv, [Next]_vars, host # NoId, host' # host
      PROVE  \/ host \in present /\ host \notin present'
             \/ host' = HostPlayerId /\ HostPlayerId \in present' \ present
  BY <1>1 DEF Next, vars, Join, Leave, Drop, HangUp, Appear, Publish, Restart
<1>2. QED
  BY <1>1, InvInvariant, PTL DEF Spec, HostStays

\* Nobody but a host is ever given the right to write.
THEOREM WritersWereHosts == Sensible => (Spec => OnlyHostsWrite)
<1> SUFFICES ASSUME Sensible
             PROVE  Spec => OnlyHostsWrite
  OBVIOUS
<1>1. ASSUME [Next]_vars
      PROVE  writers' \subseteq writers \cup {host'}
  BY <1>1 DEF Next, vars, Join, Leave, Drop, HangUp, Appear, Publish, Restart
<1>2. QED
  BY <1>1, PTL DEF Spec, OnlyHostsWrite
=============================================================================
