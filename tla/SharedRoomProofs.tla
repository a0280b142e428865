-------------------------- MODULE SharedRoomProofs --------------------------
(***************************************************************************)
(* The abstract room keeps its own promises, for every number of players,  *)
(* places and world entries.                                               *)
(***************************************************************************)
EXTENDS SharedRoom, FiniteSetTheorems, TLAPS

\* What the relay's configuration and the bound on versions are assumed to be.
Sensible == NoId \notin Ids /\ RoomCapacity \in Nat /\ MaxVersion \in Nat

\* Leadership with what an induction over the players needs.
Inv ==
  /\ TypeOK
  /\ IsFiniteSet(present)
  /\ Leadership

\* An empty room has no leader and nobody who asks to lead.
LEMMA InvInit == Sensible /\ Init => Inv
BY FS_EmptySet DEF Sensible, Init, Inv, TypeOK, Leadership

\* Every operation keeps the room's bound and its leader.
LEMMA InvStep == Sensible /\ Inv /\ [Next]_vars => Inv'
<1> SUFFICES ASSUME Sensible, Inv, [Next]_vars
             PROVE  Inv'
  OBVIOUS
<1> USE DEF Sensible, Inv, TypeOK, Leadership
<1>1. ASSUME NEW i \in Ids, NEW claimed \in BOOLEAN, Join(i, claimed)
      PROVE  Inv'
  <2>1. /\ IsFiniteSet(present')
        /\ Cardinality(present') = Cardinality(present) + 1
    BY <1>1, FS_AddElement DEF Join
  <2>2. Cardinality(present) \in Nat
    BY FS_CardinalityType
  <2>3. Cardinality(present') <= RoomCapacity
    BY <1>1, <2>1, <2>2 DEF Join
  <2>4. TypeOK'
    BY <1>1 DEF Join
  <2>5. /\ host' # NoId => host' \in claimants'
        /\ claimants' # {} => host' # NoId
    BY <1>1 DEF Join
  <2>6. QED
    BY <2>1, <2>3, <2>4, <2>5
<1>2. ASSUME NEW i \in Ids, Leave(i)
      PROVE  Inv'
  <2>1. /\ IsFiniteSet(present')
        /\ Cardinality(present') <= Cardinality(present)
    BY <1>2, FS_Subset DEF Leave
  <2>2. /\ Cardinality(present) \in Nat
        /\ Cardinality(present') \in Nat
    BY <2>1, FS_CardinalityType
  <2>3. Cardinality(present') <= RoomCapacity
    BY <2>1, <2>2
  <2>4. TypeOK'
    BY <1>2 DEF Leave
  <2>5. /\ host' # NoId => host' \in claimants'
        /\ claimants' # {} => host' # NoId
    BY <1>2 DEF Leave
  <2>6. QED
    BY <2>1, <2>3, <2>4, <2>5
<1>3. ASSUME NEW i \in Ids, Appear(i)
      PROVE  Inv'
  BY <1>3 DEF Appear
<1>4. ASSUME NEW w \in World, Publish(w)
      PROVE  Inv'
  <2>1. world[w] + 1 \in 0..MaxVersion
    BY <1>4 DEF Publish
  <2>2. QED
    BY <1>4, <2>1 DEF Publish
<1>5. CASE UNCHANGED vars
  BY <1>5 DEF vars
<1>6. QED
  BY <1>1, <1>2, <1>3, <1>4, <1>5 DEF Next

\* The abstract room of RelayServer never overfills, and somebody leads it
\* exactly while somebody asked to.
THEOREM RoomIsLed == Sensible => (Spec => []Leadership)
<1> SUFFICES ASSUME Sensible
             PROVE  Spec => []Leadership
  OBVIOUS
<1>1. Init => Inv
  BY InvInit
<1>2. Inv /\ [Next]_vars => Inv'
  BY InvStep
<1>3. Inv => Leadership
  BY DEF Inv
<1>4. QED
  BY <1>1, <1>2, <1>3, PTL DEF Spec
=============================================================================
