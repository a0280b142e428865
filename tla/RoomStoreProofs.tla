-------------------------- MODULE RoomStoreProofs ---------------------------
(***************************************************************************)
(* Proofs about RoomStore, for any rooms, file names and players: the      *)
(* types with the capacity of each room, that a room outlives the process  *)
(* unless its own file is cut or taken by a room of another name, and what *)
(* a room still says of players that are not in it.                        *)
(***************************************************************************)
EXTENDS RoomStore, FiniteSetTheorems, TLAPS

\* Memory holds what the room was last changed to, or has forgotten it.
Known == \A r \in Rooms : memory[r] \in {None, EmptyRoom, last[r]}

\* It has not while somebody is in the room, or connected.
InUse ==
  \A r \in Rooms, i \in Ids : Heard(r, i) => memory[r] = last[r] /\ last[r] # None

\* Who is connected without a session was left behind.
Adrift == \A r \in Rooms, i \in Ids : adrift[r][i] > 0 => i \in leftBehind[r]

\* Whom the last state names was in the room, or was left behind; and it names a
\* host while there is a claimant.
Own ==
  \A r \in Rooms :
    /\ last[r].players \subseteq members[r] \cup leftBehind[r]
    /\ last[r].host \in members[r] \cup leftBehind[r] \cup {NoId, NoRoom}
    /\ claimants[r] # {} => last[r].host # NoId

\* The file of a room holds its last state, or is cut, or holds another room.
OnFile ==
  \A r \in Rooms :
    LET f == file[FileOf[r]] IN
    /\ f.room = r => f.state = last[r] /\ last[r] # None
    /\ last[r] # None => f = Torn \/ f.room \in Rooms

\* A write is under way only while the process lives, and it will write the last state.
InWriting ==
  writing # NoRoom =>
    phase # "down" /\ memory[writing] = last[writing] /\ last[writing] # None

\* A process that is down remembers nobody.
NobodyThere ==
  phase = "down" => \A r \in Rooms : memory[r] = None /\ \A i \in Ids : ~Heard(r, i)

StoreInv ==
  /\ StoreTypeOK
  /\ Known /\ InUse /\ Adrift /\ Own /\ OnFile /\ InWriting /\ NobodyThere /\ SurvivesRestart

\* All but the types.
Rest == Known /\ InUse /\ Adrift /\ Own /\ OnFile /\ InWriting /\ NobodyThere /\ SurvivesRestart

LEMMA NoneIsNoState == None \notin RoomState /\ EmptyRoom \in RoomState /\ EmptyRoom # None
<1>1. None.host = NoRoom /\ EmptyRoom.host = NoId /\ 0 \in 0..MaxVersion
  BY StoreAssumption DEF None, EmptyRoom
<1>2. \A s \in RoomState : s.host \in Ids \cup {NoId}
  BY DEF RoomState
<1>3. NoRoom \notin Ids \cup {NoId}
  BY StoreAssumption
<1>4. EmptyRoom \in RoomState
  BY <1>1 DEF EmptyRoom, RoomState
<1> QED
  BY <1>1, <1>2, <1>3, <1>4

LEMMA NoneIsBlank == None.players = {} /\ None.host = NoRoom /\ EmptyRoom.players = {}
BY DEF None, EmptyRoom

\* A cut file, like one that is missing, names no room.
LEMMA NoRoomThere == Torn.room = NoRoom /\ Missing.room = NoRoom /\ NoRoom \notin Rooms
BY StoreAssumption DEF Torn, Missing

-----------------------------------------------------------------------------
(* Storing a room.                                                         *)

LEMMA StoreEffect ==
  ASSUME StoreTypeOK, NEW r \in Rooms, NEW s \in RoomState, Store(r, s)
  PROVE  /\ memory' \in [Rooms -> RoomState \cup {None}]
         /\ last' \in [Rooms -> RoomState \cup {None}]
         /\ file' \in [Files -> [room : Rooms, state : RoomState] \cup {Missing, Torn}]
         /\ writing' = r
         /\ memory'[r] = s /\ last'[r] = s /\ file'[FileOf[r]] = Torn
         /\ \A q \in Rooms \ {r} :
              /\ memory'[q] = memory[q] /\ last'[q] = last[q]
              /\ file'[FileOf[q]] \in {file[FileOf[q]], Torn}
<1> USE DEF Store, StoreTypeOK
<1>1. FileOf \in [Rooms -> Files]
  BY StoreAssumption
<1>2. memory' \in [Rooms -> RoomState \cup {None}] /\ last' \in [Rooms -> RoomState \cup {None}]
  OBVIOUS
<1>3. file' \in [Files -> [room : Rooms, state : RoomState] \cup {Missing, Torn}]
  BY <1>1
<1>4. file'[FileOf[r]] = Torn /\ \A q \in Rooms : file'[FileOf[q]] \in {file[FileOf[q]], Torn}
  BY <1>1
<1> QED
  BY <1>2, <1>3, <1>4

\* A handler may store what names only players that are, or were left, in the room.
LEMMA StoreKeeps ==
  ASSUME StoreTypeOK, Rest, Runs, NEW r \in Rooms, NEW s \in RoomState, Store(r, s),
         phase' = phase,
         \A q \in Rooms \ {r} : /\ members'[q] = members[q] /\ claimants'[q] = claimants[q]
                                /\ leftBehind'[q] = leftBehind[q],
         adrift' = adrift,
         \A i \in Ids : adrift[r][i] > 0 => i \in leftBehind'[r],
         s.players \subseteq members'[r] \cup leftBehind'[r],
         s.host \in members'[r] \cup leftBehind'[r] \cup {NoId},
         claimants'[r] # {} => s.host # NoId
  PROVE  Rest'
<1>1. /\ writing' = r
      /\ memory'[r] = s /\ last'[r] = s /\ file'[FileOf[r]] = Torn
      /\ \A q \in Rooms \ {r} :
           /\ memory'[q] = memory[q] /\ last'[q] = last[q]
           /\ file'[FileOf[q]] \in {file[FileOf[q]], Torn}
  BY StoreEffect
<1>2. s # None
  BY NoneIsNoState
<1>3. Known' /\ InUse' /\ Adrift'
  <2>1. Known'
    BY <1>1, <1>2 DEF Rest, Known
  <2>2. InUse'
    BY <1>1, <1>2 DEF Rest, InUse, Heard
  <2>3. Adrift'
    BY DEF Rest, Adrift
  <2> QED
    BY <2>1, <2>2, <2>3
<1>4. Own'
  BY <1>1 DEF Rest, Own
<1>5. OnFile'
  BY <1>1, <1>2, NoRoomThere DEF Rest, OnFile
<1>6. InWriting' /\ NobodyThere'
  BY <1>1, <1>2 DEF InWriting, NobodyThere, Runs
<1>7. SurvivesRestart'
  BY <1>1 DEF Rest, SurvivesRestart, Runs
<1> QED
  BY <1>3, <1>4, <1>5, <1>6, <1>7 DEF Rest

-----------------------------------------------------------------------------
(* The types.                                                              *)

LEMMA Counting ==
  ASSUME NEW S, S \subseteq Ids, NEW i \in Ids
  PROVE  /\ IsFiniteSet(S) /\ Cardinality(S) \in Nat
         /\ i \notin S => Cardinality(S \cup {i}) = Cardinality(S) + 1
         /\ i \in S => Cardinality(S \ {i}) = Cardinality(S) - 1
<1>1. IsFiniteSet(S)
  BY StoreAssumption, FS_Subset
<1> QED
  BY <1>1, FS_CardinalityType, FS_AddElement, FS_RemoveElement

LEMMA PopTypes ==
  ASSUME StoreTypeOK, NEW r \in Rooms, NEW i \in members[r], Pop(r, i)
  PROVE  /\ members' \in [Rooms -> SUBSET Ids]
         /\ claimants' \in [Rooms -> SUBSET Ids]
         /\ \A q \in Rooms : claimants'[q] \subseteq members'[q]
         /\ \A q \in Rooms : Cardinality(members'[q]) <= RoomCapacity
<1> USE DEF StoreTypeOK, Pop
<1>1. /\ members' \in [Rooms -> SUBSET Ids] /\ claimants' \in [Rooms -> SUBSET Ids]
      /\ \A q \in Rooms : claimants'[q] \subseteq members'[q]
  OBVIOUS
<1>2. ASSUME NEW q \in Rooms PROVE Cardinality(members'[q]) <= RoomCapacity
  <2>1. CASE q = r
    <3>1. members'[q] = members[q] \ {i} /\ members[q] \subseteq Ids /\ i \in Ids
      BY <2>1
    <3>2. /\ Cardinality(members[q]) \in Nat /\ Cardinality(members[q]) <= RoomCapacity
          /\ Cardinality(members'[q]) = Cardinality(members[q]) - 1
      BY <2>1, <3>1, Counting
    <3> HIDE DEF StoreTypeOK
    <3> QED
      BY <3>2, StoreAssumption
  <2>2. CASE q # r
    BY <2>2
  <2> QED
    BY <2>1, <2>2
<1> QED
  BY <1>1, <1>2

LEMMA StateOfType ==
  ASSUME StoreTypeOK, NEW r \in Rooms
  PROVE  StateOf(r) \in RoomState
BY NoneIsNoState DEF StoreTypeOK, StateOf

\* What _register_client stores.
Joined(r, i, claimed) ==
  LET s == StateOf(r) IN
  IF i = HostPlayerId \/ (s.host = NoId /\ claimed) THEN [s EXCEPT !.host = i] ELSE s

LEMMA JoinedState ==
  ASSUME StoreTypeOK, NEW r \in Rooms, NEW i \in Ids, NEW claimed \in BOOLEAN
  PROVE  /\ Joined(r, i, claimed) \in RoomState
         /\ Joined(r, i, claimed).players = StateOf(r).players
         /\ Joined(r, i, claimed).host \in {StateOf(r).host, i}
         /\ claimed => Joined(r, i, claimed).host # NoId
         /\ StateOf(r).host # NoId => Joined(r, i, claimed).host # NoId
<1>1. StateOf(r) \in RoomState
  BY StateOfType
<1>2. i # NoId
  BY StoreAssumption
<1> HIDE DEF StateOf
<1> QED
  BY <1>1, <1>2 DEF Joined, RoomState

\* What _unregister_client stores.
Left(r, i, next) ==
  LET s == WithoutPlayer(memory[r], i) IN
  IF s.host = i THEN [s EXCEPT !.host = next] ELSE s

LEMMA LeftState ==
  ASSUME StoreTypeOK, NEW r \in Rooms, NEW i \in members[r], memory[r] # None,
         NEW next \in Successors(r, i)
  PROVE  /\ next \in (members[r] \ {i}) \cup {NoId}
         /\ claimants[r] \ {i} # {} => next # NoId
         /\ Left(r, i, next) \in RoomState
         /\ Left(r, i, next).players = memory[r].players \ {i}
         /\ Left(r, i, next).host = IF memory[r].host = i THEN next ELSE memory[r].host
<1>1. memory[r] \in RoomState /\ members[r] \subseteq Ids /\ claimants[r] \subseteq members[r]
  BY DEF StoreTypeOK
<1>2. NoId \notin Ids
  BY StoreAssumption
<1>3. /\ next \in (members[r] \ {i}) \cup {NoId}
      /\ claimants[r] \ {i} # {} => next # NoId
  BY <1>1, <1>2 DEF Successors
<1> QED
  BY <1>1, <1>3 DEF Left, WithoutPlayer, RoomState

\* Whoever is connected to a room finds its state in memory.
LEMMA HeardHasState ==
  ASSUME Rest, NEW r \in Rooms, NEW i \in Ids, Heard(r, i)
  PROVE  memory[r] = last[r] /\ memory[r] # None
BY DEF Rest, InUse

LEMMA MemberHasState ==
  ASSUME StoreTypeOK, Rest, NEW r \in Rooms, NEW i \in members[r]
  PROVE  memory[r] = last[r] /\ memory[r] # None
<1>1. i \in Ids /\ Heard(r, i)
  BY DEF StoreTypeOK, Heard
<1> QED
  BY <1>1, HeardHasState

LEMMA TypesHold ==
  ASSUME StoreTypeOK, Rest, [Next]_vars
  PROVE  StoreTypeOK'
<1> USE DEF sessionVars, writeVars, countVars
<1>1. ASSUME NEW r \in Rooms, Refuse(r) PROVE StoreTypeOK'
  <2>1. StateOf(r) \in RoomState
    BY StateOfType
  <2> QED
    BY <1>1, <2>1 DEF Refuse, StoreTypeOK
<1>2. ASSUME NEW r \in Rooms, NEW i \in Ids, NEW claimed \in BOOLEAN, Register(r, i, claimed)
      PROVE  StoreTypeOK'
  <2>1. Store(r, Joined(r, i, claimed)) /\ Joined(r, i, claimed) \in RoomState
    BY <1>2, JoinedState DEF Register, Joined
  <2>2. \A q \in Rooms : Cardinality(members'[q]) <= RoomCapacity
    <3> SUFFICES ASSUME NEW q \in Rooms PROVE Cardinality(members'[q]) <= RoomCapacity
      OBVIOUS
    <3>1. CASE q = r
      <4>1. members[r] \subseteq Ids /\ members'[r] = members[r] \cup {i} /\ i \notin members[r]
        BY <1>2 DEF Register, StoreTypeOK
      <4>2. /\ Cardinality(members[r]) \in Nat /\ Cardinality(members[r]) < RoomCapacity
            /\ Cardinality(members'[r]) = Cardinality(members[r]) + 1
        BY <1>2, <4>1, Counting DEF Register, HasPlace
      <4> QED
        BY <3>1, <4>2, StoreAssumption
    <3>2. CASE q # r
      BY <1>2, <3>2 DEF Register, StoreTypeOK
    <3> QED
      BY <3>1, <3>2
  <2>3. /\ members' \in [Rooms -> SUBSET Ids] /\ claimants' \in [Rooms -> SUBSET Ids]
        /\ \A q \in Rooms : claimants'[q] \subseteq members'[q]
    BY <1>2 DEF Register, StoreTypeOK
  <2>4. joins' \in Nat /\ UNCHANGED <<phase, adrift, leftBehind, crashes>>
    BY <1>2 DEF Register, StoreTypeOK
  <2> QED
    BY <2>1, <2>2, <2>3, <2>4, StoreEffect DEF StoreTypeOK
<1>3. ASSUME NEW r \in Rooms, NEW i \in Ids, Message(r, i) PROVE StoreTypeOK'
  <2>1. memory[r] \in RoomState
    BY <1>3, HeardHasState DEF Message, StoreTypeOK
  <2>2. PICK s \in RoomState : Store(r, s)
    <3>1. [memory[r] EXCEPT !.players = @ \cup {i}] \in RoomState
      BY <2>1 DEF RoomState
    <3>2. memory[r].world < MaxVersion => [memory[r] EXCEPT !.world = @ + 1] \in RoomState
      BY <2>1, StoreAssumption DEF RoomState
    <3>3. memory[r] = last[r]
      BY <1>3, HeardHasState DEF Message
    <3> QED
      BY <1>3, <2>1, <3>1, <3>2, <3>3 DEF Message
  <2>3. UNCHANGED <<phase, sessionVars, leftBehind, countVars>>
    BY <1>3 DEF Message
  <2> QED
    BY <2>2, <2>3, StoreEffect DEF StoreTypeOK
<1>4. ASSUME NEW r \in Rooms, NEW i \in Ids, Unregister(r, i) \/ UnregisterOther(r, i)
      PROVE  StoreTypeOK'
  <2>1. Remove(r, i) /\ i \in members[r] /\ Pop(r, i)
    BY <1>4 DEF Unregister, UnregisterOther, Remove
  <2>2. memory[r] # None
    BY <2>1, MemberHasState
  <2>3. PICK next \in Successors(r, i) : Store(r, Left(r, i, next))
    <3>1. Successors(r, i) # {}
      BY DEF Successors
    <3> QED
      BY <2>1, <3>1 DEF Remove, Left
  <2>4. Left(r, i, next) \in RoomState
    BY <2>1, <2>2, LeftState
  <2>5. leftBehind' \in [Rooms -> SUBSET Ids] /\ UNCHANGED <<phase, adrift, countVars>>
    BY <1>4 DEF Unregister, UnregisterOther, StoreTypeOK
  <2> QED
    BY <2>1, <2>3, <2>4, <2>5, PopTypes, StoreEffect DEF StoreTypeOK
<1>11. ASSUME NEW r \in Rooms, NEW i \in Ids, UnregisterNone(r, i) PROVE StoreTypeOK'
  <2>1. adrift' \in [Rooms -> [Ids -> Nat]]
    BY <1>11 DEF UnregisterNone, StoreTypeOK
  <2> QED
    BY <1>11, <2>1 DEF UnregisterNone, StoreTypeOK
<1>5. ASSUME NEW r \in Rooms, NEW i \in Ids, Evict(r, i) PROVE StoreTypeOK'
  <2>1. i \in members[r] /\ Pop(r, i)
    BY <1>5 DEF Evict
  <2>2. /\ leftBehind' \in [Rooms -> SUBSET Ids] /\ adrift' \in [Rooms -> [Ids -> Nat]]
        /\ UNCHANGED <<phase, memory, writeVars, last, countVars>>
    BY <1>5 DEF Evict, StoreTypeOK
  <2> QED
    BY <2>1, <2>2, PopTypes DEF StoreTypeOK
<1>6. CASE Written
  <2>1. FileOf[writing] \in Files /\ writing \in Rooms /\ memory[writing] \in RoomState
    BY <1>6, StoreAssumption DEF Written, StoreTypeOK, Rest, InWriting
  <2> QED
    BY <1>6, <2>1 DEF Written, StoreTypeOK
<1>7. CASE Crash \/ Exit
  <2>1. Gone /\ UNCHANGED <<file, last, joins>> /\ crashes' \in Nat /\ writing' \in {writing, NoRoom}
    BY <1>7 DEF Crash, Exit, StoreTypeOK
  <2>2. Cardinality({}) = 0
    BY FS_EmptySet
  <2> QED
    BY <2>1, <2>2, StoreAssumption DEF Gone, StoreTypeOK
<1>8. CASE Stop
  BY <1>8 DEF Stop, StoreTypeOK
<1>9. CASE Start
  <2>1. \A r \in Rooms : Loads(FileOf[r]) => file[FileOf[r]].state \in RoomState
    BY StoreAssumption DEF StoreTypeOK, Loads
  <2> QED
    BY <1>9, <2>1 DEF Start, StoreTypeOK
<1>10. CASE UNCHANGED vars
  BY <1>10 DEF vars, StoreTypeOK
<1> QED
  BY <1>1, <1>2, <1>3, <1>4, <1>5, <1>6, <1>7, <1>8, <1>9, <1>10, <1>11 DEF Next

-----------------------------------------------------------------------------
(* What the file says, and what memory makes of it.                        *)

LEMMA RestHolds ==
  ASSUME StoreTypeOK, Rest, [Next]_vars
  PROVE  Rest'
<1> USE DEF sessionVars, writeVars, countVars
<1>0. /\ last \in [Rooms -> RoomState \cup {None}] /\ members \in [Rooms -> SUBSET Ids]
      /\ \A r \in Rooms : claimants[r] \subseteq members[r]
      /\ claimants \in [Rooms -> SUBSET Ids] /\ leftBehind \in [Rooms -> SUBSET Ids]
      /\ memory \in [Rooms -> RoomState \cup {None}] /\ adrift \in [Rooms -> [Ids -> Nat]]
  BY DEF StoreTypeOK
<1>1. ASSUME NEW r \in Rooms, Refuse(r) PROVE Rest'
  <2>1. /\ memory'[r] = StateOf(r) /\ \A q \in Rooms \ {r} : memory'[q] = memory[q]
        /\ phase # "down" /\ writing = NoRoom
        /\ UNCHANGED <<phase, members, claimants, adrift, file, writing, last, leftBehind>>
    BY <1>0, <1>1 DEF Refuse, Runs
  <2>2. memory[r] = None => StateOf(r) = EmptyRoom
    BY DEF StateOf
  <2>3. memory[r] # None => StateOf(r) = memory[r]
    BY DEF StateOf
  <2>4. Known' /\ Adrift' /\ Own' /\ OnFile' /\ NobodyThere'
    BY <2>1, <2>2, <2>3 DEF Rest, Known, Adrift, Own, OnFile, NobodyThere
  <2>6. InUse'
    BY <2>1, <2>3 DEF Rest, InUse, Heard
  <2>5. InWriting' /\ SurvivesRestart'
    <3>1. \A q \in Rooms : last[q] # None /\ memory[q] = last[q] => memory'[q] = last[q]
      BY <2>1, <2>3
    <3>2. SurvivesRestart'
      BY <2>1, <3>1 DEF Rest, SurvivesRestart
    <3> QED
      BY <2>1, <3>2 DEF InWriting
  <2> QED
    BY <2>4, <2>5, <2>6 DEF Rest
<1>2. ASSUME NEW r \in Rooms, NEW i \in Ids, NEW claimed \in BOOLEAN, Register(r, i, claimed)
      PROVE  Rest'
  <2> DEFINE s == Joined(r, i, claimed)
  <2>1. Runs /\ Store(r, s) /\ UNCHANGED <<phase, adrift, leftBehind>>
    BY <1>2 DEF Register, Joined
  <2>2. /\ members'[r] = members[r] \cup {i}
        /\ claimants'[r] = IF claimed THEN claimants[r] \cup {i} ELSE claimants[r]
        /\ \A q \in Rooms \ {r} : members'[q] = members[q] /\ claimants'[q] = claimants[q]
    BY <1>0, <1>2 DEF Register
  <2>3. /\ s \in RoomState /\ s.players = StateOf(r).players
        /\ s.host \in {StateOf(r).host, i}
        /\ claimed => s.host # NoId
        /\ StateOf(r).host # NoId => s.host # NoId
    BY JoinedState
  <2>4. StateOf(r) = EmptyRoom \/ StateOf(r) = last[r]
    BY DEF Rest, Known, StateOf
  <2>5. /\ StateOf(r).players \subseteq members[r] \cup leftBehind[r]
        /\ StateOf(r).host \in members[r] \cup leftBehind[r] \cup {NoId}
    <3>1. CASE StateOf(r) = EmptyRoom
      BY <3>1 DEF EmptyRoom
    <3>2. CASE StateOf(r) = last[r]
      <4>1. StateOf(r) \in RoomState
        BY StateOfType
      <4>2. StateOf(r).host # NoRoom
        BY <4>1, StoreAssumption DEF RoomState
      <4> QED
        BY <3>2, <4>2 DEF Rest, Own
    <3> QED
      BY <2>4, <3>1, <3>2
  <2>6. claimants[r] # {} => StateOf(r).host # NoId
    <3> SUFFICES ASSUME claimants[r] # {} PROVE StateOf(r).host # NoId
      OBVIOUS
    <3>1. memory[r] = last[r] /\ memory[r] # None
      BY <1>0, MemberHasState
    <3> QED
      BY <3>1 DEF Rest, Own, StateOf
  <2>7. /\ s.players \subseteq members'[r] \cup leftBehind'[r]
        /\ s.host \in members'[r] \cup leftBehind'[r] \cup {NoId}
        /\ claimants'[r] # {} => s.host # NoId
    BY <2>1, <2>2, <2>3, <2>5, <2>6
  <2>8. \A j \in Ids : adrift[r][j] > 0 => j \in leftBehind'[r]
    BY <2>1 DEF Rest, Adrift
  <2> HIDE DEF s
  <2> QED
    BY <2>1, <2>2, <2>3, <2>7, <2>8, StoreKeeps
<1>3. ASSUME NEW r \in Rooms, NEW i \in Ids, Message(r, i) PROVE Rest'
  <2>1. /\ Heard(r, i) /\ Runs
        /\ UNCHANGED <<phase, members, claimants, adrift, leftBehind>>
    BY <1>3 DEF Message
  <2>2. memory[r] \in RoomState /\ memory[r] = last[r]
    BY <1>0, <2>1, HeardHasState
  <2>5. i \in members[r] \cup leftBehind[r] /\ \A j \in Ids : adrift[r][j] > 0 => j \in leftBehind'[r]
    BY <2>1 DEF Heard, Rest, Adrift
  <2>3. PICK s \in RoomState : /\ Store(r, s)
                               /\ s.players \subseteq memory[r].players \cup {i}
                               /\ s.host = memory[r].host
    <3>1. LET t == [memory[r] EXCEPT !.players = @ \cup {i}] IN
          t \in RoomState /\ t.players = memory[r].players \cup {i} /\ t.host = memory[r].host
      BY <2>2 DEF RoomState
    <3>2. memory[r].world < MaxVersion =>
            LET t == [memory[r] EXCEPT !.world = @ + 1] IN
            t \in RoomState /\ t.players = memory[r].players /\ t.host = memory[r].host
      BY <2>2, StoreAssumption DEF RoomState
    <3> QED
      BY <1>3, <2>2, <3>1, <3>2 DEF Message
  <2>4. /\ last[r].players \subseteq members[r] \cup leftBehind[r]
        /\ last[r].host \in members[r] \cup leftBehind[r] \cup {NoId}
        /\ claimants[r] # {} => last[r].host # NoId
    <3>1. last[r].host # NoRoom
      BY <2>2, StoreAssumption DEF RoomState
    <3> QED
      BY <3>1 DEF Rest, Own
  <2> QED
    BY <2>1, <2>2, <2>3, <2>4, <2>5, StoreKeeps
<1>4. ASSUME NEW r \in Rooms, NEW i \in Ids, Unregister(r, i) \/ UnregisterOther(r, i)
      PROVE  Rest'
  <2>1. Remove(r, i) /\ i \in members[r] /\ Runs /\ Pop(r, i) /\ UNCHANGED <<phase, adrift>>
    BY <1>4 DEF Unregister, UnregisterOther, Remove
  <2>2. memory[r] \in RoomState /\ memory[r] = last[r] /\ memory[r] # None
    BY <1>0, <2>1, MemberHasState, NoneIsNoState
  <2>3. PICK next \in Successors(r, i) : Store(r, Left(r, i, next))
    <3>1. Successors(r, i) # {}
      BY DEF Successors
    <3> QED
      BY <2>1, <3>1 DEF Remove, Left
  <2>4. /\ next \in (members[r] \ {i}) \cup {NoId}
        /\ claimants[r] \ {i} # {} => next # NoId
        /\ Left(r, i, next) \in RoomState
        /\ Left(r, i, next).players = memory[r].players \ {i}
        /\ Left(r, i, next).host = IF memory[r].host = i THEN next ELSE memory[r].host
    BY <2>1, <2>2, LeftState
  <2>5. /\ members'[r] = members[r] \ {i} /\ claimants'[r] = claimants[r] \ {i}
        /\ leftBehind'[r] \in {leftBehind[r], leftBehind[r] \ {i}}
        /\ \A j \in Ids : adrift[r][j] > 0 => j \in leftBehind'[r]
        /\ \A q \in Rooms \ {r} : /\ members'[q] = members[q] /\ claimants'[q] = claimants[q]
                                  /\ leftBehind'[q] = leftBehind[q]
    BY <1>0, <1>4, <2>1 DEF Unregister, UnregisterOther, Pop, Rest, Adrift
  <2>6. /\ last[r].players \subseteq members[r] \cup leftBehind[r]
        /\ last[r].host \in members[r] \cup leftBehind[r] \cup {NoId}
        /\ claimants[r] # {} => last[r].host # NoId
    <3>1. last[r].host # NoRoom
      BY <2>2, StoreAssumption DEF RoomState
    <3> QED
      BY <3>1 DEF Rest, Own
  <2>7. /\ Left(r, i, next).players \subseteq members'[r] \cup leftBehind'[r]
        /\ Left(r, i, next).host \in members'[r] \cup leftBehind'[r] \cup {NoId}
        /\ claimants'[r] # {} => Left(r, i, next).host # NoId
    BY <2>2, <2>4, <2>5, <2>6
  <2> QED
    BY <2>1, <2>3, <2>4, <2>5, <2>7, StoreKeeps
<1>11. ASSUME NEW r \in Rooms, NEW i \in Ids, UnregisterNone(r, i) PROVE Rest'
  <2>1. /\ \A q \in Rooms, j \in Ids : adrift'[q][j] > 0 => adrift[q][j] > 0
        /\ UNCHANGED <<phase, members, claimants, memory, file, writing, last, leftBehind>>
    BY <1>0, <1>11 DEF UnregisterNone
  <2>2. \A q \in Rooms, j \in Ids : Heard(q, j)' => Heard(q, j)
    BY <2>1 DEF Heard
  <2>3. InUse' /\ Adrift' /\ NobodyThere'
    BY <2>1, <2>2 DEF Rest, InUse, Adrift, NobodyThere
  <2> QED
    BY <2>1, <2>3 DEF Rest, Known, Own, OnFile, InWriting, SurvivesRestart
<1>5. ASSUME NEW r \in Rooms, NEW i \in Ids, Evict(r, i) PROVE Rest'
  <2>1. /\ i \in members[r]
        /\ members'[r] = members[r] \ {i} /\ claimants'[r] = claimants[r] \ {i}
        /\ leftBehind'[r] = leftBehind[r] \cup {i}
        /\ \A j \in Ids : j # i => adrift'[r][j] = adrift[r][j]
        /\ \A q \in Rooms \ {r} : /\ members'[q] = members[q] /\ claimants'[q] = claimants[q]
                                  /\ leftBehind'[q] = leftBehind[q]
                                  /\ adrift'[q] = adrift[q]
        /\ UNCHANGED <<phase, memory, file, writing, last>>
        /\ phase # "down"
    BY <1>0, <1>5 DEF Evict, Pop, Runs
  <2>2. \A q \in Rooms, j \in Ids : Heard(q, j)' => Heard(q, j)
    BY <2>1 DEF Heard
  <2>3. InUse'
    BY <2>1, <2>2 DEF Rest, InUse
  <2>4. Own' /\ Adrift'
    <3>1. Adrift'
      BY <2>1 DEF Rest, Adrift
    <3>2. Own'
      BY <2>1 DEF Rest, Own
    <3> QED
      BY <3>1, <3>2
  <2>5. Known' /\ OnFile' /\ InWriting' /\ NobodyThere' /\ SurvivesRestart'
    BY <2>1 DEF Rest, Known, OnFile, InWriting, NobodyThere, SurvivesRestart
  <2> QED
    BY <2>3, <2>4, <2>5 DEF Rest
<1>6. CASE Written
  <2>1. /\ writing \in Rooms /\ writing' = NoRoom
        /\ memory[writing] = last[writing] /\ last[writing] # None
        /\ UNCHANGED <<phase, members, claimants, adrift, memory, last, leftBehind>>
    BY <1>6 DEF Written, StoreTypeOK, Rest, InWriting
  <2>2. \A q \in Rooms : file'[FileOf[q]] = IF FileOf[q] = FileOf[writing]
                           THEN [room |-> writing, state |-> memory[writing]]
                           ELSE file[FileOf[q]]
    BY <1>6, StoreAssumption DEF Written, StoreTypeOK
  <2>3. OnFile'
    BY <2>1, <2>2 DEF Rest, OnFile
  <2>4. SurvivesRestart'
    BY <2>1, <2>2 DEF Rest, SurvivesRestart
  <2> QED
    BY <2>1, <2>3, <2>4 DEF Rest, Known, InUse, Heard, Adrift, Own, InWriting, NobodyThere
<1>7. CASE Crash \/ Exit
  <2>1. Gone /\ UNCHANGED <<file, last>> /\ writing' = NoRoom
    BY <1>7 DEF Crash, Exit
  <2>2. /\ phase' = "down"
        /\ \A r \in Rooms : /\ memory'[r] = None /\ members'[r] = {} /\ claimants'[r] = {}
                            /\ leftBehind'[r] = leftBehind[r] \cup members[r]
                            /\ \A i \in Ids : ~(adrift'[r][i] > 0)
    BY <2>1 DEF Gone
  <2> QED
    BY <2>1, <2>2
    DEF Rest, Known, InUse, Heard, Adrift, Own, OnFile, InWriting, NobodyThere, SurvivesRestart
<1>8. CASE Stop
  BY <1>8 DEF Stop, Rest, Known, InUse, Heard, Adrift, Own, OnFile, InWriting, NobodyThere, SurvivesRestart
<1>9. CASE Start
  <2>1. /\ phase = "down" /\ phase' = "up"
        /\ UNCHANGED <<members, claimants, adrift, file, writing, last, leftBehind>>
    BY <1>9 DEF Start
  <2>2. ASSUME NEW r \in Rooms
        PROVE  \/ memory'[r] = None
               \/ memory'[r] = last[r] /\ last[r] # None
    BY <1>9, <2>2 DEF Start, Rest, OnFile
  <2>3. ASSUME NEW r \in Rooms, last[r] # None
        PROVE  \/ memory'[r] = last[r]
               \/ file[FileOf[r]] = Torn
               \/ file[FileOf[r]].room \in Rooms \ {r}
    <3>1. CASE file[FileOf[r]].room = r /\ file[FileOf[r]] # Torn
      <4>1. Loads(FileOf[r]) /\ file[FileOf[r]].state = last[r]
        BY <2>3, <3>1, NoRoomThere DEF Loads, Rest, OnFile
      <4> QED
        BY <1>9, <3>1, <4>1 DEF Start
    <3>2. CASE file[FileOf[r]].room # r
      BY <2>3, <3>2 DEF Rest, OnFile
    <3> QED
      BY <3>1, <3>2
  <2> QED
    BY <2>1, <2>2, <2>3
    DEF Rest, Known, InUse, Heard, Adrift, Own, OnFile, InWriting, NobodyThere, SurvivesRestart
<1>10. CASE UNCHANGED vars
  BY <1>10
  DEF vars, Rest, Known, InUse, Heard, Adrift, Own, OnFile, InWriting, NobodyThere, SurvivesRestart
<1> QED
  BY <1>1, <1>2, <1>3, <1>4, <1>5, <1>6, <1>7, <1>8, <1>9, <1>10, <1>11 DEF Next

-----------------------------------------------------------------------------
(* The theorems.                                                           *)

LEMMA InitHolds == Init => StoreInv
<1> SUFFICES ASSUME Init PROVE StoreInv
  OBVIOUS
<1>1. Cardinality({}) = 0
  BY FS_EmptySet
<1>2. StoreTypeOK
  BY <1>1, StoreAssumption DEF Init, StoreTypeOK
<1>3. \A r \in Rooms : /\ members[r] = {} /\ claimants[r] = {} /\ leftBehind[r] = {}
                       /\ memory[r] = None /\ last[r] = None /\ file[FileOf[r]] = Missing
                       /\ \A i \in Ids : ~(adrift[r][i] > 0)
  BY StoreAssumption DEF Init
<1>4. writing = NoRoom /\ phase = "down"
  BY DEF Init
<1> QED
  BY <1>2, <1>3, <1>4, NoneIsBlank, NoRoomThere
  DEF StoreInv, Known, InUse, Heard, Adrift, Own, OnFile, InWriting, NobodyThere, SurvivesRestart

LEMMA InvHolds == Spec => []StoreInv
<1>1. StoreInv /\ [Next]_vars => StoreInv'
  BY TypesHold, RestHolds DEF StoreInv, Rest
<1> QED
  BY InitHolds, <1>1, PTL DEF Spec

\* The store keeps its types, and no room is over its capacity.
THEOREM StoreTypes == Spec => []StoreTypeOK
BY InvHolds, PTL DEF StoreInv

\* A room outlives any number of restarts unless its own file is cut or taken.
THEOREM RoomsSurvive == Spec => []SurvivesRestart
BY InvHolds, PTL DEF StoreInv

\* A room remembers only its own: members, and those left behind.
THEOREM NoStrangersRemembered == Spec => []RemembersItsOwn
<1>1. StoreInv => RemembersItsOwn
  BY NoneIsBlank DEF StoreInv, Known, Own, RemembersItsOwn
<1> QED
  BY InvHolds, <1>1, PTL

\* A claimant is led by a member or by one left behind.
THEOREM ClaimantsAreLed == Spec => []LedByItsOwn
<1>1. StoreInv => LedByItsOwn
  <2> SUFFICES ASSUME StoreInv, NEW r \in Rooms, claimants[r] # {}
               PROVE  memory[r].host \in members[r] \cup leftBehind[r]
    BY DEF LedByItsOwn
  <2>1. memory[r] = last[r] /\ last[r] # None
    BY DEF StoreInv, StoreTypeOK, InUse, Heard
  <2>2. last[r].host # NoRoom
    BY <2>1, StoreAssumption DEF StoreInv, StoreTypeOK, RoomState
  <2> QED
    BY <2>1, <2>2 DEF StoreInv, Own
<1> QED
  BY InvHolds, <1>1, PTL
=============================================================================
