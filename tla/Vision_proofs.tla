--------------------------- MODULE Vision_proofs ---------------------------
(***************************************************************************)
(* The components of the postprocess thread, one by one: the places of the *)
(* persons, the modes of the cascade, the faces carried over, and the      *)
(* actions.                                                                *)
(***************************************************************************)
EXTENDS WorldPersons, Cascade, FaceCache, ActionResults, BasicLemmas

-----------------------------------------------------------------------------
(***************************************************************************)
(* World coordinates: no track has two places and none has another one's   *)
(* anchor, for any persons and seats.  What the code relies on without a   *)
(* test is that the seats up to the count are taken and the others say so. *)
(***************************************************************************)

\* A place nobody has says so, or is zeroed memory; one that somebody has is a track's.
PlacesTold ==
  \A i \in Seats : IF persons[i].active THEN persons[i].id >= 0
                   ELSE persons[i].id \in {0, -1}

PersonsInv == PersonsTypeOK /\ PlacesTold /\ OnePlace /\ OwnAnchor

LEMMA PersonsConstants ==
  /\ PersonIds \subseteq Nat /\ 0 \in PersonIds
  /\ MaxPersons \in Nat \ {0} /\ Timeout \in Nat \ {0} /\ Period \in Nat \ {0}
BY PersonsAssumption

LEMMA PersonsInitInv == PersonsInit => PersonsInv
<1> SUFFICES ASSUME PersonsInit PROVE PersonsInv
  OBVIOUS
<1> USE PersonsConstants
<1>1. Zeroed \in Persons
  BY DEF Zeroed, Persons
<1>2. persons = [i \in Seats |-> Zeroed] /\ numPersons = 0 /\ sincePrune = Period
  BY DEF PersonsInit
<1>3. PersonsTypeOK
  BY <1>1, <1>2 DEF PersonsTypeOK
<1>4. PlacesTold /\ OwnAnchor
  BY <1>2 DEF PlacesTold, OwnAnchor, Zeroed
<1>5. OnePlace
  BY <1>2 DEF OnePlace, Zeroed, Seats
<1>6. QED BY <1>3, <1>4, <1>5 DEF PersonsInv

\* The places up to the count are taken by tracks, the others are free.
LEMMA SeatsTaken ==
  ASSUME PersonsInv
  PROVE  /\ \A i \in Seats : persons[i] \in Persons /\ persons[i].id \in Int
         /\ \A i \in Seats : i <= numPersons <=> (persons[i].active /\ persons[i].id >= 0)
         /\ numPersons \in 0..MaxPersons
         /\ \A i \in 1..numPersons : i \in Seats
         /\ \A i, k \in 1..numPersons : persons[i].id = persons[k].id => i = k
<1>1. \A i \in Seats : persons[i] \in Persons /\ persons[i].id \in Int
  <2>1. \A p \in Persons : p.id \in Int
    <3>1. \A x \in PersonIds \cup {-1} : x \in Int
      BY PersonsConstants
    <3>2. QED BY <3>1 DEF Persons
  <2>2. \A i \in Seats : persons[i] \in Persons
    BY DEF PersonsInv, PersonsTypeOK
  <2>3. QED BY <2>1, <2>2
<1>2. \A i \in Seats : i <= numPersons <=> (persons[i].active /\ persons[i].id >= 0)
  BY DEF PersonsInv, PlacesTold, OnePlace
<1>3. numPersons \in 0..MaxPersons /\ \A i \in 1..numPersons : i \in Seats
  BY PersonsConstants DEF PersonsInv, PersonsTypeOK, Seats
<1>4. QED BY <1>1, <1>2, <1>3 DEF PersonsInv, OnePlace

\* Somebody has been there longest.
LEMMA OldestSeat ==
  ASSUME PersonsInv
  PROVE  \E i \in Seats : \A k \in Seats :
           persons[i].age > persons[k].age \/ (persons[i].age = persons[k].age /\ i <= k)
<1> DEFINE age == [i \in Seats |-> persons[i].age]
<1>1. age \in [1..MaxPersons -> 0..(Timeout + 1)]
  BY SeatsTaken DEF Seats, Persons
<1>2. Timeout + 1 \in Nat /\ MaxPersons \in Nat \ {0}
  BY PersonsConstants
<1>3. PICK i \in 1..MaxPersons : \A k \in 1..MaxPersons :
        age[i] > age[k] \/ (age[i] = age[k] /\ i <= k)
  <2> HIDE DEF age
  <2>1. QED BY <1>1, <1>2, HasOldest
<1>4. QED BY <1>3 DEF Seats

\* A track gets its own place, or the first that is free, or with none free any.
LEMMA SeatOf ==
  ASSUME PersonsInv, NEW t \in PersonIds
  PROVE  /\ Seat(t) \in Seats
         /\ \/ Seat(t) <= numPersons /\ persons[Seat(t)].id = t
            \/ /\ \A k \in 1..numPersons : persons[k].id # t
               /\ \/ Seat(t) = numPersons + 1
                  \/ numPersons = MaxPersons
<1> DEFINE own  == {i \in 1..numPersons : persons[i].id = t}
           free == {i \in Seats : persons[i].id < 0 \/ ~persons[i].active}
<1>1. /\ numPersons \in 0..MaxPersons /\ MaxPersons \in Nat
      /\ \A i \in 1..numPersons : i \in Seats
      /\ \A i \in Seats : i <= numPersons <=> (persons[i].active /\ persons[i].id >= 0)
      /\ \A i \in Seats : persons[i].id \in Int
  BY SeatsTaken, PersonsConstants
<1>2. CASE own # {}
  <2>1. own \in SUBSET (1..numPersons)
    OBVIOUS
  <2>2. 1 \in Int /\ numPersons \in Int
    BY <1>1
  <2>3. Min(own) \in own
    <3> HIDE DEF own
    <3>1. own \in SUBSET Int /\ IsFiniteSet(own)
      BY <2>1, <2>2, PartOfInterval, Zenon
    <3>2. QED BY <3>1, <1>2, MinOf
  <2>4. Seat(t) = Min(own)
    BY <1>2 DEF Seat
  <2>5. Seat(t) \in 1..numPersons /\ persons[Seat(t)].id = t
    BY <2>3, <2>4
  <2>6. QED BY <2>5, <1>1
<1>3. CASE own = {} /\ free # {}
  <2>1. free \in SUBSET (1..MaxPersons)
    BY DEF Seats
  <2>2. 1 \in Int /\ MaxPersons \in Int
    BY <1>1
  <2>3. Min(free) \in free /\ \A y \in free : Min(free) <= y
    <3> HIDE DEF free
    <3>1. free \in SUBSET Int /\ IsFiniteSet(free)
      BY <2>1, <2>2, PartOfInterval, Zenon
    <3>2. QED BY <3>1, <1>3, MinOf
  <2>4. Seat(t) = Min(free)
    BY <1>3 DEF Seat
  <2>5. Seat(t) \in Seats /\ ~(Seat(t) <= numPersons)
    BY <2>3, <2>4, <1>1
  <2>6. numPersons + 1 \in Seats
    BY <2>5, <1>1 DEF Seats
  <2>7. numPersons + 1 \in free
    <3>1. ~(numPersons + 1 <= numPersons)
      BY <1>1
    <3>2. ~(persons[numPersons + 1].active /\ persons[numPersons + 1].id >= 0)
      BY <2>6, <3>1, <1>1
    <3>3. QED BY <2>6, <3>2, <1>1
  <2>8. Seat(t) <= numPersons + 1
    BY <2>3, <2>4, <2>7
  <2>9. Seat(t) = numPersons + 1
    BY <2>5, <2>8, <1>1 DEF Seats
  <2>10. QED BY <2>5, <2>9, <1>3
<1>4. CASE own = {} /\ free = {}
  <2>1. Seat(t) = CHOOSE i \in Seats : \A k \in Seats :
            persons[i].age > persons[k].age \/ (persons[i].age = persons[k].age /\ i <= k)
    BY <1>4 DEF Seat
  <2>2. Seat(t) \in Seats
    BY <2>1, OldestSeat
  <2>3. MaxPersons \in Seats
    BY PersonsConstants DEF Seats
  <2>4. persons[MaxPersons].active /\ persons[MaxPersons].id >= 0
    BY <2>3, <1>1, <1>4
  <2>5. numPersons = MaxPersons
    BY <2>3, <2>4, <1>1
  <2>6. QED BY <2>2, <2>5, <1>4
<1>5. QED BY <1>2, <1>3, <1>4

LEMMA RegisterInv ==
  ASSUME PersonsInv, NEW t \in PersonIds, Register(t)
  PROVE  PersonsInv'
<1> USE PersonsConstants
<1>1. PICK i \in Seats :
        /\ \/ i <= numPersons /\ persons[i].id = t
           \/ /\ \A k \in 1..numPersons : persons[k].id # t
              /\ i = numPersons + 1 \/ numPersons = MaxPersons
        /\ persons' = [persons EXCEPT ![i] =
             [id |-> t, active |-> TRUE, age |-> 0, from |-> Anchor(t, persons[i])]]
        /\ numPersons' = Max({numPersons, i}) /\ sincePrune' = sincePrune
  BY SeatOf DEF Register
<1>2. /\ \A k \in Seats : persons[k] \in Persons /\ persons[k].id \in Int
      /\ \A k \in Seats : k <= numPersons <=> (persons[k].active /\ persons[k].id >= 0)
      /\ numPersons \in 0..MaxPersons
      /\ \A j, k \in 1..numPersons : persons[j].id = persons[k].id => j = k
      /\ sincePrune \in 0..Period /\ persons \in [Seats -> Persons]
  BY SeatsTaken DEF PersonsInv, PersonsTypeOK
<1>3. t \in Nat /\ i \in 1..MaxPersons
  BY DEF Seats
<1>4. numPersons' = IF numPersons < i THEN i ELSE numPersons
  BY <1>1, <1>2, <1>3, MaxOfTwo
<1>5. numPersons' \in 0..MaxPersons
  BY <1>2, <1>3, <1>4
<1>6. Anchor(t, persons[i]) \in PersonIds \cup {Origin}
  BY <1>1, <1>2 DEF Anchor, Persons
<1> DEFINE new == [id |-> t, active |-> TRUE, age |-> 0, from |-> Anchor(t, persons[i])]
<1>7. new \in Persons
  BY <1>6 DEF Persons
<1>8. persons'[i] = new /\ \A k \in Seats \ {i} : persons'[k] = persons[k]
  BY <1>1, <1>2
<1>9. PersonsTypeOK'
  BY <1>1, <1>2, <1>5, <1>7 DEF PersonsTypeOK
<1>10. PlacesTold'
  BY <1>3, <1>8 DEF PlacesTold, PersonsInv
<1>11. \A k \in Seats : persons'[k].active <=> k <= numPersons'
  <2>1. ASSUME NEW k \in Seats PROVE persons'[k].active <=> k <= numPersons'
    <3>1. k \in 1..MaxPersons /\ (persons[k].active <=> k <= numPersons)
      BY DEF PersonsInv, OnePlace, Seats
    <3>2. CASE k = i
      BY <3>1, <3>2, <1>2, <1>4, <1>8
    <3>3. CASE k # i
      BY <3>1, <3>3, <1>1, <1>2, <1>3, <1>4, <1>8
    <3>4. QED BY <3>2, <3>3
  <2>2. QED BY <2>1
<1>12. ASSUME NEW j \in 1..numPersons', NEW k \in 1..numPersons',
              persons'[j].id = persons'[k].id
       PROVE  j = k
  <2>1. j \in Seats /\ k \in Seats
    BY <1>5, <1>12 DEF Seats
  <2>2. ASSUME NEW x \in 1..numPersons', x # i, persons[x].id = t
        PROVE  FALSE
    <3>1. x \in 1..numPersons
      BY <2>2, <1>1, <1>2, <1>3, <1>4
    <3>2. QED BY <2>2, <3>1, <1>1, <1>2, <1>3
  <2>3. CASE j # i /\ k # i
    <3>1. j \in 1..numPersons /\ k \in 1..numPersons
      BY <2>3, <1>1, <1>2, <1>3, <1>4
    <3>2. QED BY <3>1, <2>1, <2>3, <1>2, <1>8, <1>12
  <2>4. CASE j = i /\ k # i
    BY <2>1, <2>2, <2>4, <1>8, <1>12
  <2>5. CASE j # i /\ k = i
    BY <2>1, <2>2, <2>5, <1>8, <1>12
  <2>6. QED BY <2>3, <2>4, <2>5
<1>13. OnePlace'
  BY <1>11, <1>12 DEF OnePlace
<1>14. ASSUME t # 0 PROVE Anchor(t, persons[i]) = t
  <2>1. CASE persons[i].id # t
    BY <2>1 DEF Anchor
  <2>2. CASE persons[i].id = t
    <3>1. persons[i].active
      BY <2>2, <1>3, <1>14 DEF PersonsInv, PlacesTold
    <3>2. QED BY <2>2, <3>1, <1>14 DEF PersonsInv, OwnAnchor, Anchor
  <2>3. QED BY <2>1, <2>2
<1>15. OwnAnchor'
  BY <1>8, <1>14 DEF PersonsInv, OwnAnchor
<1>16. QED BY <1>9, <1>10, <1>13, <1>15 DEF PersonsInv

\* Those that stay move up in their order: place i gets the i-th of them.
LEMMA PruneInv == ASSUME PersonsInv, Prune PROVE PersonsInv'
<1> USE PersonsConstants
<1>1. /\ persons' = [i \in Seats |-> Compacted(i)]
      /\ numPersons' = Cardinality(Kept) /\ sincePrune' = 0
  BY DEF Prune
<1>2. /\ \A k \in Seats : persons[k] \in Persons /\ persons[k].id \in Int
      /\ \A k \in Seats : k <= numPersons <=> (persons[k].active /\ persons[k].id >= 0)
      /\ numPersons \in 0..MaxPersons
      /\ \A i \in 1..numPersons : i \in Seats
      /\ \A j, k \in 1..numPersons : persons[j].id = persons[k].id => j = k
  BY SeatsTaken
<1>3. Kept \in SUBSET (1..numPersons) /\ numPersons \in Nat
  BY <1>2 DEF Kept
<1>4. Cardinality(Kept) \in 0..numPersons
  <2>1. IsFiniteSet(1..numPersons) /\ Cardinality(1..numPersons) = numPersons
    BY <1>3, FS_Interval
  <2>2. Cardinality(Kept) <= numPersons
    BY <1>3, <2>1, FS_Subset
  <2>3. 1 \in Int /\ numPersons \in Int
    BY <1>3
  <2>4. Cardinality(Kept) \in Nat
    BY <1>3, <2>3, PartOfInterval, Zenon
  <2>5. QED BY <2>2, <2>4, <1>3
<1> DEFINE from(i) == CHOOSE k \in Kept : RankIn(Kept, k) = i
<1>5. ASSUME NEW i \in 1..Cardinality(Kept)
      PROVE  from(i) \in Kept /\ RankIn(Kept, from(i)) = i
  <2>1. \E k \in Kept : RankIn(Kept, k) = i
    BY <1>3, HasRank
  <2>2. QED BY <2>1
<1>6. ASSUME NEW i \in 1..Cardinality(Kept), NEW k \in 1..Cardinality(Kept),
             from(i) = from(k)
      PROVE  i = k
  <2>1. RankIn(Kept, from(i)) = i /\ RankIn(Kept, from(k)) = k
    BY <1>5
  <2>2. QED BY <2>1, <1>6
<1>7. \A i \in Seats :
        persons'[i] = IF i <= Cardinality(Kept) THEN persons[from(i)]
                      ELSE IF i <= numPersons THEN Cleared ELSE persons[i]
  BY <1>1 DEF Compacted, RankIn
<1> HIDE DEF from
<1>8. ASSUME NEW i \in Seats, i <= Cardinality(Kept)
      PROVE  /\ from(i) \in 1..numPersons /\ from(i) \in Seats
             /\ persons'[i] = persons[from(i)]
  <2>1. i \in 1..Cardinality(Kept)
    BY <1>4, <1>8 DEF Seats
  <2>2. QED BY <2>1, <1>2, <1>3, <1>5, <1>7, <1>8
<1>9. ASSUME NEW i \in Seats, ~(i <= Cardinality(Kept))
      PROVE  persons'[i] = Cleared \/ (persons'[i] = persons[i] /\ ~persons[i].active)
  <2>1. persons[i].active <=> i <= numPersons
    BY DEF PersonsInv, OnePlace
  <2>2. QED BY <2>1, <1>7, <1>9
<1>10. Cleared \in Persons
  BY DEF Cleared, Persons
<1>11. PersonsTypeOK'
  <2>1. \A i \in Seats : persons'[i] \in Persons
    BY <1>2, <1>8, <1>9, <1>10
  <2>2. numPersons' \in 0..MaxPersons
    <3>1. numPersons' \in 0..numPersons
      BY <1>1, <1>4
    <3>2. QED BY <3>1, <1>2
  <2>3. persons' \in [Seats -> Persons]
    BY <2>1, <1>1
  <2>4. QED BY <2>2, <2>3, <1>1 DEF PersonsTypeOK
<1>12. PlacesTold' /\ OwnAnchor'
  <2>1. ASSUME NEW i \in Seats
        PROVE  /\ IF persons'[i].active THEN persons'[i].id >= 0
                  ELSE persons'[i].id \in {0, -1}
               /\ persons'[i].active /\ persons'[i].id # 0
                    => persons'[i].from = persons'[i].id
    <3>1. CASE i <= Cardinality(Kept)
      BY <3>1, <1>8 DEF PersonsInv, PlacesTold, OwnAnchor
    <3>2. CASE ~(i <= Cardinality(Kept))
      BY <3>2, <1>9 DEF PersonsInv, PlacesTold, Cleared
    <3>3. QED BY <3>1, <3>2
  <2>2. QED BY <2>1 DEF PlacesTold, OwnAnchor
<1>13. \A i \in Seats : persons'[i].active <=> i <= numPersons'
  <2>1. ASSUME NEW i \in Seats PROVE persons'[i].active <=> i <= numPersons'
    <3>1. CASE i <= Cardinality(Kept)
      <4>1. persons[from(i)].active
        BY <3>1, <1>8, <1>2
      <4>2. QED BY <4>1, <3>1, <1>1, <1>8
    <3>2. CASE ~(i <= Cardinality(Kept))
      BY <3>2, <1>1, <1>9 DEF Cleared
    <3>3. QED BY <3>1, <3>2
  <2>2. QED BY <2>1
<1>14. ASSUME NEW j \in 1..numPersons', NEW k \in 1..numPersons',
              persons'[j].id = persons'[k].id
       PROVE  j = k
  <2>1. /\ j \in 1..Cardinality(Kept) /\ k \in 1..Cardinality(Kept)
        /\ j \in Seats /\ k \in Seats
        /\ j <= Cardinality(Kept) /\ k <= Cardinality(Kept)
    BY <1>1, <1>2, <1>4 DEF Seats
  <2>2. persons[from(j)].id = persons[from(k)].id
    BY <2>1, <1>8, <1>14
  <2>3. from(j) = from(k)
    BY <2>1, <2>2, <1>2, <1>8
  <2>4. QED BY <2>1, <2>3, <1>6
<1>15. OnePlace'
  BY <1>13, <1>14 DEF OnePlace
<1>16. QED BY <1>11, <1>12, <1>15 DEF PersonsInv

LEMMA PersonsTickInv == ASSUME PersonsInv, PersonsTick PROVE PersonsInv'
<1> USE PersonsConstants
<1>1. /\ persons' = [i \in Seats |->
            IF persons[i].active
              THEN [persons[i] EXCEPT !.age = Min({persons[i].age + 1, Timeout + 1})]
            ELSE persons[i]]
      /\ sincePrune' = Min({sincePrune + 1, Period}) /\ numPersons' = numPersons
  BY DEF PersonsTick
<1>2. sincePrune' \in 0..Period
  <2>1. sincePrune \in 0..Period
    BY DEF PersonsInv, PersonsTypeOK
  <2>2. sincePrune' = IF sincePrune + 1 < Period THEN sincePrune + 1 ELSE Period
    BY <2>1, <1>1, MinOfTwo
  <2>3. QED BY <2>1, <2>2
<1>3. ASSUME NEW i \in Seats
      PROVE  /\ persons'[i] \in Persons
             /\ persons'[i].id = persons[i].id /\ persons'[i].active = persons[i].active
             /\ persons'[i].from = persons[i].from
  <2>1. persons[i] \in Persons
    BY DEF PersonsInv, PersonsTypeOK
  <2>2. PICK a : a = Min({persons[i].age + 1, Timeout + 1})
    OBVIOUS
  <2>3. a \in 0..(Timeout + 1)
    <3>1. persons[i].age \in 0..(Timeout + 1)
      BY <2>1 DEF Persons
    <3>2. a = IF persons[i].age + 1 < Timeout + 1 THEN persons[i].age + 1 ELSE Timeout + 1
      BY <2>2, <3>1, MinOfTwo
    <3>3. QED BY <3>1, <3>2
  <2>4. persons'[i] = IF persons[i].active THEN [persons[i] EXCEPT !.age = a]
                      ELSE persons[i]
    BY <1>1, <2>2
  <2>5. QED BY <2>1, <2>3, <2>4 DEF Persons
<1>4. PersonsTypeOK'
  <2>1. persons' \in [Seats -> Persons]
    BY <1>1, <1>3
  <2>2. QED BY <2>1, <1>1, <1>2 DEF PersonsInv, PersonsTypeOK
<1>5. PlacesTold' /\ OwnAnchor'
  BY <1>3 DEF PersonsInv, PlacesTold, OwnAnchor
<1>6. OnePlace'
  <2>1. \A i \in 1..numPersons : i \in Seats
    BY SeatsTaken
  <2>2. QED BY <2>1, <1>1, <1>3 DEF PersonsInv, OnePlace
<1>7. QED BY <1>4, <1>5, <1>6 DEF PersonsInv

LEMMA PersonsInvariant == PersonsSpec => []PersonsInv
<1>1. PersonsInit => PersonsInv
  BY PersonsInitInv
<1>2. PersonsInv /\ [PersonsNext]_personsVars => PersonsInv'
  <2>1. ASSUME PersonsInv, UNCHANGED personsVars PROVE PersonsInv'
    BY <2>1 DEF personsVars, PersonsInv, PersonsTypeOK, PlacesTold, OnePlace, OwnAnchor
  <2>2. QED BY <2>1, RegisterInv, PruneInv, PersonsTickInv DEF PersonsNext
<1>3. QED BY <1>1, <1>2, PTL DEF PersonsSpec

\* Every place is that of a track or free, and the count stays within the table.
THEOREM PersonsTypesHold == PersonsSpec => []PersonsTypeOK
<1>1. PersonsInv => PersonsTypeOK
  BY DEF PersonsInv
<1>2. QED BY <1>1, PersonsInvariant, PTL

\* A track has one place, and the places are taken from the front without a gap, for
\* any size of the table, any tracks and any timeout (world_coord_register_person,
\* world_coord_prune_timeout).
THEOREM TracksHaveOnePlace == PersonsSpec => []OnePlace
<1>1. PersonsInv => OnePlace
  BY DEF PersonsInv
<1>2. QED BY <1>1, PersonsInvariant, PTL

\* A place that is taken over gets an anchor of its new track's.
THEOREM AnchorsAreOwn == PersonsSpec => []OwnAnchor
<1>1. PersonsInv => OwnAnchor
  BY DEF PersonsInv
<1>2. QED BY <1>1, PersonsInvariant, PTL

-----------------------------------------------------------------------------
(***************************************************************************)
(* The modes of the cascade: each change is earned by a row of frames, for *)
(* any limits.  The counters stand for the rows they have seen.            *)
(***************************************************************************)

\* What the counters of a mode owe to the frames seen: the rows good and bad.
CountersEarned ==
  /\ mode = "searching" => lostFor = 0 /\ inMode <= good
  /\ mode # "searching" => lostFor <= bad

CascadeInv == CascadeTypeOK /\ CountersEarned

LEMMA CascadeConstants ==
  /\ Settle \in Nat \ {0} /\ LostFrames \in Nat \ {0} /\ Validate \in Nat \ {0}
  /\ StaticSkip \in Nat \ {0} /\ LowSkip \in Nat \ {0} /\ Cycle \in Nat \ {0}
  /\ FaceDelay \in Nat \ {0} /\ MaxPeople \in Nat \ {0}
BY CascadeAssumption

LEMMA CascadeInitInv == CascadeInit => CascadeInv
<1> SUFFICES ASSUME CascadeInit PROVE CascadeInv
  OBVIOUS
<1> USE CascadeConstants
<1>1. [confirmed |-> 0, all |-> 0] \in Counts
  BY DEF Counts
<1>2. CascadeTypeOK
  BY <1>1 DEF CascadeInit, CascadeTypeOK, Scenes
<1>3. CountersEarned
  BY DEF CascadeInit, CountersEarned
<1>4. QED BY <1>2, <1>3 DEF CascadeInv

\* A row that is counted up to its limit.
LEMMA OneMoreOf ==
  ASSUME NEW limit \in Nat, NEW n \in 0..limit
  PROVE  /\ OneMore(n, limit) \in 0..limit
         /\ \A k \in Nat : k <= n /\ k < limit => k + 1 <= OneMore(n, limit)
BY DEF OneMore

\* The next mode and its counters, in each mode: a row of Settle frames leads to
\* TRACKING, one of LostFrames out of it.
LEMMA StepEarned ==
  ASSUME CascadeInv, NEW d \in 0..MaxPeople, NEW next, next = CascadeStep(d),
         mode' = next[1], inMode' = next[2], lostFor' = next[3],
         good' = IF known.confirmed > 0 THEN OneMore(good, Settle) ELSE 0,
         bad' = IF mode = "validating" \/ (mode = "tracking" /\ Crowd(d)) THEN bad
                ELSE IF known.confirmed = 0 THEN OneMore(bad, LostFrames) ELSE 0
  PROVE  /\ mode' \in {"searching", "tracking", "validating"}
         /\ inMode' \in Nat /\ lostFor' \in 0..(LostFrames - 1)
         /\ good' \in 0..Settle /\ bad' \in 0..LostFrames
         /\ CountersEarned'
         /\ mode = "searching" /\ mode' = "tracking" => good' >= Settle
         /\ mode = "tracking" /\ mode' = "searching" => bad' >= LostFrames
<1> USE CascadeConstants
<1>1. /\ mode \in {"searching", "tracking", "validating"}
      /\ inMode \in Nat /\ lostFor \in 0..(LostFrames - 1)
      /\ good \in 0..Settle /\ bad \in 0..LostFrames
      /\ known.confirmed \in Nat
      /\ CountersEarned
  BY DEF CascadeInv, CascadeTypeOK, Counts
<1>2. /\ OneMore(good, Settle) \in 0..Settle
      /\ \A k \in Nat : k <= good /\ k < Settle => k + 1 <= OneMore(good, Settle)
  BY <1>1, OneMoreOf
<1>3. /\ OneMore(bad, LostFrames) \in 0..LostFrames
      /\ \A k \in Nat : k <= bad /\ k < LostFrames => k + 1 <= OneMore(bad, LostFrames)
  BY <1>1, OneMoreOf
<1>4. CASE mode = "searching"
  <2>1. next = SearchingStep
    BY <1>4 DEF CascadeStep
  <2>2. QED BY <1>1, <1>2, <1>3, <1>4, <2>1 DEF SearchingStep, CountersEarned
<1>5. CASE mode = "tracking"
  <2>1. next = TrackingStep(d)
    BY <1>5 DEF CascadeStep
  <2>2. (inMode + 1) % Validate \in Nat
    BY <1>1
  <2>3. CASE Crowd(d)
    BY <1>1, <1>2, <1>5, <2>1, <2>3 DEF TrackingStep, CountersEarned
  <2>4. CASE ~Crowd(d) /\ known.confirmed = 0
    BY <1>1, <1>2, <1>3, <1>5, <2>1, <2>2, <2>4 DEF TrackingStep, CountersEarned
  <2>5. CASE ~Crowd(d) /\ known.confirmed # 0
    BY <1>1, <1>2, <1>5, <2>1, <2>2, <2>5 DEF TrackingStep, CountersEarned
  <2>6. QED BY <2>3, <2>4, <2>5
<1>6. CASE mode = "validating"
  <2>1. next = <<"tracking", 0, lostFor>>
    BY <1>6 DEF CascadeStep
  <2>2. QED BY <1>1, <1>2, <1>6, <2>1 DEF CountersEarned
<1>7. QED BY <1>1, <1>4, <1>5, <1>6

\* A countdown starts at FaceDelay or at 3.
LEMMA CountdownType ==
  ASSUME faceIn \in 0..(FaceDelay + 3), NEW s, NEW d, NEW m
  PROVE  Countdown(s, d, m) \in 0..(FaceDelay + 3)
<1> DEFINE left  == IF faceIn > 0 THEN faceIn - 1 ELSE 0
           turn  == (count + 1) % FaceInterval(m, d) = 0 \/ faceIn = 1
           again == IF ~turn /\ people >= 0 /\ d > people THEN FaceDelay ELSE left
<1>1. left \in 0..(FaceDelay + 3)
  BY CascadeConstants
<1>2. again \in {FaceDelay, left}
  OBVIOUS
<1>3. again \in 0..(FaceDelay + 3) /\ 3 \in 0..(FaceDelay + 3)
  BY <1>1, <1>2, CascadeConstants
<1>4. Countdown(s, d, m) \in {3, again}
  BY DEF Countdown
<1>5. QED BY <1>3, <1>4

Flips ==
  /\ mode = "searching" /\ mode' = "tracking" => good' >= Settle
  /\ mode = "tracking" /\ mode' = "searching" => bad' >= LostFrames

LEMMA ProcessInv ==
  ASSUME CascadeInv, NEW s \in Scenes, NEW d \in 0..MaxPeople, ProcessFrame(s, d)
  PROVE  CascadeInv' /\ Flips
<1> USE CascadeConstants
<1>1. PICK next : /\ next = CascadeStep(d)
                  /\ mode' = next[1] /\ inMode' = next[2] /\ lostFor' = next[3]
                  /\ faceIn' = Countdown(s, d, next[1])
  BY DEF ProcessFrame
<1>2. /\ good' = IF known.confirmed > 0 THEN OneMore(good, Settle) ELSE 0
      /\ bad' = IF mode = "validating" \/ (mode = "tracking" /\ Crowd(d)) THEN bad
                ELSE IF known.confirmed = 0 THEN OneMore(bad, LostFrames) ELSE 0
  BY DEF ProcessFrame
<1>3. /\ mode' \in {"searching", "tracking", "validating"}
      /\ inMode' \in Nat /\ lostFor' \in 0..(LostFrames - 1)
      /\ good' \in 0..Settle /\ bad' \in 0..LostFrames
      /\ CountersEarned' /\ Flips
  BY <1>1, <1>2, StepEarned DEF Flips
<1>4. faceIn' \in 0..(FaceDelay + 3)
  BY <1>1, CountdownType DEF CascadeInv, CascadeTypeOK
<1>5. /\ count' = (count + 1) % Cycle /\ skips' = 0 /\ scene' = s /\ people' = d
      /\ known' = known
  BY DEF ProcessFrame
<1>6. count' \in 0..(Cycle - 1)
  BY <1>5 DEF CascadeInv, CascadeTypeOK
<1>7. skips' \in 0..(StaticSkip + LowSkip) /\ people' \in -1..MaxPeople
  BY <1>5
<1>8. CascadeTypeOK'
  BY <1>3, <1>4, <1>5, <1>6, <1>7 DEF CascadeInv, CascadeTypeOK
<1>9. QED BY <1>3, <1>8 DEF CascadeInv

LEMMA SkipInv ==
  ASSUME CascadeInv, NEW s \in Scenes, SkipFrame(s)
  PROVE  CascadeInv' /\ mode' = mode
<1> USE CascadeConstants
<1>1. /\ count' = (count + 1) % Cycle /\ skips' = skips + 1 /\ scene' = s
      /\ UNCHANGED <<mode, inMode, lostFor, faceIn, people, known, good, bad>>
      /\ skips < Budget(s)
  BY DEF SkipFrame, Skipped
<1>2. Budget(s) \in 0..(StaticSkip + LowSkip)
  BY DEF Budget
<1>3. skips' \in 0..(StaticSkip + LowSkip) /\ count' \in 0..(Cycle - 1)
  BY <1>1, <1>2 DEF CascadeInv, CascadeTypeOK
<1>4. QED BY <1>1, <1>3 DEF CascadeInv, CascadeTypeOK, CountersEarned

LEMMA CascadeNextInv ==
  CascadeInv /\ [CascadeNext]_cascadeVars => CascadeInv' /\ Flips
<1> SUFFICES ASSUME CascadeInv, [CascadeNext]_cascadeVars PROVE CascadeInv' /\ Flips
  OBVIOUS
<1>1. ASSUME NEW k \in Counts, Sync(k) PROVE CascadeInv' /\ mode' = mode
  BY <1>1 DEF Sync, CascadeInv, CascadeTypeOK, CountersEarned
<1>2. ASSUME NEW s \in Scenes, NEW d \in 0..MaxPeople, SkipFrame(s) \/ ProcessFrame(s, d)
      PROVE  CascadeInv' /\ Flips
  <2>1. CASE SkipFrame(s)
    BY <2>1, SkipInv DEF Flips
  <2>2. CASE ProcessFrame(s, d)
    BY <2>2, ProcessInv
  <2>3. QED BY <1>2, <2>1, <2>2
<1>3. ASSUME UNCHANGED cascadeVars PROVE CascadeInv' /\ mode' = mode
  BY <1>3 DEF cascadeVars, CascadeInv, CascadeTypeOK, CountersEarned
<1>4. QED BY <1>1, <1>2, <1>3 DEF CascadeNext, CascadeFrame, Flips

LEMMA CascadeInvariant == CascadeSpec => []CascadeInv
<1>1. CascadeInit => CascadeInv
  BY CascadeInitInv
<1>2. CascadeInv /\ [CascadeNext]_cascadeVars => CascadeInv'
  BY CascadeNextInv
<1>3. QED BY <1>1, <1>2, PTL DEF CascadeSpec

\* The counters of a mode stay within its limits: a mode never waits on a count that
\* has run past its limit, and no more frames are skipped than the budget has.
THEOREM CountersStayInRange == CascadeSpec => []CascadeTypeOK
<1>1. CascadeInv => CascadeTypeOK
  BY DEF CascadeInv
<1>2. QED BY <1>1, CascadeInvariant, PTL

\* Tracking begins only after Settle frames in a row with a confirmed track, and ends
\* only after LostFrames in a row without (cascade_update_state), for all intervals,
\* delays and limits.
THEOREM FlipsAreEarned == CascadeSpec => FlipsEarned
<1>1. CascadeInv /\ [CascadeNext]_cascadeVars => [Flips]_cascadeVars
  BY CascadeNextInv
<1>2. CascadeSpec => [][Flips]_cascadeVars
  BY <1>1, CascadeInvariant, PTL DEF CascadeSpec
<1>3. QED BY <1>2 DEF FlipsEarned, Flips

-----------------------------------------------------------------------------
(***************************************************************************)
(* Faces: tracks are shown with their own last face and for no longer than *)
(* the timeout, for every size of the cache, every timeout and any tracks. *)
(* FaceCarried says nothing of the slots, which it rests on: every slot is *)
(* its track's only one and agrees with the history of that track.         *)
(***************************************************************************)

\* A track that has a face, and not lost its slot, has the slot.
FaceKept ==
  \A t \in FaceTracks : sinceFace[t] < ShowFor /\ t \notin crowdedOut => SlotsOf(t) # {}

\* What a slot says of its track.
SlotTrue(i) ==
  /\ cache[i].track \notin crowdedOut
  /\ lastFace[cache[i].track] = {cache[i].face}
  /\ sinceFace[cache[i].track] =
       IF cache[i].age < ShowFor THEN cache[i].age ELSE ShowFor

SlotsTrue == \A i \in CacheSeats : Used(i) => SlotTrue(i)

ShownTrue == \A t \in FaceTracks : onTrack[t] \subseteq lastFace[t]

FaceInv == FaceTypeOK /\ OneSlotPerTrack /\ FaceKept /\ SlotsTrue /\ ShownTrue

LEMMA FaceConstants ==
  /\ CacheSlots \in Nat \ {0} /\ ShowFor \in Nat \ {0} /\ FaceTracks \subseteq Nat
  /\ Vacant \notin Cached
BY FaceCacheAssumption DEF Cached

LEMMA FaceInitInv == FaceInit => FaceInv
<1> SUFFICES ASSUME FaceInit PROVE FaceInv
  OBVIOUS
<1>1. \A i \in CacheSeats : ~Used(i)
  BY DEF FaceInit, Used
<1>2. FaceTypeOK
  BY FaceConstants DEF FaceInit, FaceTypeOK
<1>3. QED
  BY <1>1, <1>2, FaceConstants
  DEF FaceInit, FaceInv, OneSlotPerTrack, FaceKept, SlotsTrue, ShownTrue

\* A track's own slot is taken if it has one; the one that is taken instead of it
\* belongs to nobody, or to a track that is then crowded out.
LEMMA MatchInv ==
  ASSUME FaceInv, NEW t \in FaceTracks, NEW f \in FaceNames, MatchFace(t, f)
  PROVE  FaceInv'
<1> USE FaceConstants DEF FaceInv
<1>1. PICK i \in CacheSeats :
        /\ For(t, i)
        /\ cache' = [cache EXCEPT ![i] = [track |-> t, face |-> f, age |-> 0]]
        /\ crowdedOut' = (crowdedOut \ {t})
                           \cup (IF Used(i) THEN {cache[i].track} \ {t} ELSE {})
  BY DEF MatchFace
<1> DEFINE new == [track |-> t, face |-> f, age |-> 0]
<1>2. /\ lastFace' = [lastFace EXCEPT ![t] = {f}]
      /\ sinceFace' = [sinceFace EXCEPT ![t] = 0]
      /\ onTrack' = [onTrack EXCEPT ![t] = {f}]
      /\ matched' = matched \cup {t}
  BY DEF MatchFace
\* No other slot is the track's.
<1>3. ASSUME NEW k \in CacheSeats, Used(k), cache[k].track = t PROVE k = i
  <2>1. SlotsOf(t) = {k}
    BY <1>3 DEF SlotsOf, OneSlotPerTrack
  <2>2. Min(SlotsOf(t)) = k
    BY <2>1, MinOfOne DEF CacheSeats
  <2>3. QED BY <1>1, <2>1, <2>2 DEF For
<1>4. new \in Cached /\ new # Vacant
  BY DEF Cached
<1>5. FaceTypeOK'
  <2>1. cache' \in [CacheSeats -> Cached \cup {Vacant}]
    BY <1>1, <1>4 DEF FaceTypeOK
  <2>2. crowdedOut' \subseteq FaceTracks
    BY <1>1 DEF FaceTypeOK, Used, Cached
  <2>3. QED BY <2>1, <2>2, <1>2 DEF FaceTypeOK
<1>6. /\ cache'[i] = new /\ Used(i)'
      /\ \A k \in CacheSeats \ {i} : cache'[k] = cache[k] /\ (Used(k)' <=> Used(k))
  BY <1>1, <1>4 DEF FaceTypeOK, Used
<1>7. OneSlotPerTrack'
  BY <1>3, <1>6 DEF OneSlotPerTrack
<1>8. ASSUME NEW k \in CacheSeats, Used(k)' PROVE SlotTrue(k)'
  <2>1. CASE k = i
    BY <2>1, <1>1, <1>2, <1>6 DEF SlotTrue, FaceTypeOK
  <2>2. CASE k # i
    <3>1. Used(k) /\ cache'[k] = cache[k] /\ cache[k].track \in FaceTracks
      BY <2>2, <1>6, <1>8 DEF FaceTypeOK, Cached, Used
    <3>2. cache[k].track # t
      BY <3>1, <2>2, <1>3
    <3>3. Used(i) => cache[i].track # cache[k].track
      BY <3>1, <2>2 DEF OneSlotPerTrack
    <3>4. SlotTrue(k)
      BY <3>1 DEF SlotsTrue
    <3>5. cache[k].track \notin crowdedOut'
      BY <1>1, <3>2, <3>3, <3>4 DEF SlotTrue
    <3>6. QED BY <1>2, <3>1, <3>2, <3>4, <3>5 DEF SlotTrue, FaceTypeOK
  <2>3. QED BY <2>1, <2>2
<1>9. ASSUME NEW x \in FaceTracks, sinceFace'[x] < ShowFor, x \notin crowdedOut'
      PROVE  \E k \in CacheSeats : Used(k)' /\ cache'[k].track = x
  <2>1. CASE x = t
    BY <2>1, <1>6
  <2>2. CASE x # t
    <3>1. sinceFace[x] < ShowFor /\ x \notin crowdedOut
      BY <2>2, <1>1, <1>2, <1>9 DEF FaceTypeOK
    <3>2. PICK k \in CacheSeats : Used(k) /\ cache[k].track = x
      BY <3>1 DEF FaceKept, SlotsOf
    <3>3. k # i
      BY <3>2, <2>2, <1>1, <1>9
    <3>4. QED BY <3>2, <3>3, <1>6
  <2>3. QED BY <2>1, <2>2
<1>10. FaceKept'
  BY <1>9 DEF FaceKept, SlotsOf
<1>11. ShownTrue'
  BY <1>2 DEF ShownTrue, FaceTypeOK
<1>12. QED BY <1>5, <1>7, <1>8, <1>10, <1>11 DEF SlotsTrue

\* Slots and the history of their tracks age together; a slot that is cleared has
\* been silent for long.
LEMMA CarryInv ==
  ASSUME FaceInv, NEW present \in SUBSET FaceTracks, CarryFaces(present)
  PROVE  FaceInv'
<1> USE FaceConstants DEF FaceInv
<1>1. /\ \A i \in CacheSeats : cache'[i] = Aged(i)
      /\ cache' = [i \in CacheSeats |-> Aged(i)]
      /\ lastFace' = lastFace /\ crowdedOut' = crowdedOut /\ matched' = {}
      /\ \A t \in FaceTracks :
           onTrack'[t] = IF t \in matched THEN onTrack[t]
                         ELSE IF t \in present THEN FoundFor(t) ELSE {}
      /\ onTrack' \in [FaceTracks -> SUBSET FaceNames] <=>
           \A t \in FaceTracks : onTrack'[t] \in SUBSET FaceNames
  BY DEF CarryFaces
<1>2. /\ \A t \in FaceTracks :
           sinceFace'[t] = IF sinceFace[t] + 1 < ShowFor THEN sinceFace[t] + 1 ELSE ShowFor
      /\ sinceFace' \in [FaceTracks -> 0..ShowFor]
  <2>1. sinceFace' = [t \in FaceTracks |-> Min({sinceFace[t] + 1, ShowFor})]
    BY DEF CarryFaces
  <2>2. ASSUME NEW t \in FaceTracks
        PROVE  /\ sinceFace[t] \in 0..ShowFor
               /\ Min({sinceFace[t] + 1, ShowFor})
                    = IF sinceFace[t] + 1 < ShowFor THEN sinceFace[t] + 1 ELSE ShowFor
    <3>1. sinceFace[t] \in 0..ShowFor
      BY DEF FaceTypeOK
    <3>2. sinceFace[t] + 1 \in Int /\ ShowFor \in Int
      BY <3>1
    <3>3. QED BY <3>1, <3>2, MinOfTwo
  <2>3. QED BY <2>1, <2>2
\* A slot that is used now was so before, a frame younger.
<1>3. ASSUME NEW i \in CacheSeats, Used(i)'
      PROVE  /\ Used(i) /\ cache[i] \in Cached /\ cache[i].age + 1 <= 2 * ShowFor
             /\ cache'[i] \in Cached /\ cache'[i].track = cache[i].track
             /\ cache'[i].face = cache[i].face /\ cache'[i].age = cache[i].age + 1
  <2>1. Used(i) /\ ~(cache[i].age + 1 > 2 * ShowFor)
        /\ cache'[i] = [cache[i] EXCEPT !.age = @ + 1]
    BY <1>1, <1>3 DEF Aged, Used
  <2>2. cache[i] \in Cached
    BY <2>1 DEF FaceTypeOK, Used
  <2>3. QED BY <2>1, <2>2 DEF Cached
<1>4. ASSUME NEW t \in FaceTracks PROVE FoundFor(t) \subseteq lastFace[t]
  BY DEF FoundFor, SlotsOf, SlotsTrue, SlotTrue
<1>5. ShownTrue' /\ onTrack' \in [FaceTracks -> SUBSET FaceNames]
  <2>1. ASSUME NEW t \in FaceTracks PROVE onTrack'[t] \subseteq lastFace[t]
    BY <2>1, <1>1, <1>4 DEF ShownTrue
  <2>2. \A t \in FaceTracks : lastFace[t] \subseteq FaceNames
    BY DEF FaceTypeOK
  <2>3. QED BY <2>1, <2>2, <1>1 DEF ShownTrue
<1>6. FaceTypeOK'
  <2>1. cache' \in [CacheSeats -> Cached \cup {Vacant}]
    BY <1>1, <1>3 DEF Used
  <2>2. QED BY <2>1, <1>1, <1>2, <1>5 DEF FaceTypeOK
<1>7. OneSlotPerTrack'
  BY <1>3 DEF OneSlotPerTrack
<1>8. ASSUME NEW i \in CacheSeats, Used(i)' PROVE SlotTrue(i)'
  <2>0. SlotTrue(i) /\ cache[i] \in Cached
    BY <1>3, <1>8 DEF SlotsTrue
  <2>1. cache[i].track \in FaceTracks /\ cache[i].age \in Nat
    BY <2>0 DEF Cached
  <2>2. /\ sinceFace'[cache[i].track] =
             IF sinceFace[cache[i].track] + 1 < ShowFor
               THEN sinceFace[cache[i].track] + 1 ELSE ShowFor
        /\ sinceFace[cache[i].track] =
             IF cache[i].age < ShowFor THEN cache[i].age ELSE ShowFor
    BY <1>2, <2>0, <2>1 DEF SlotTrue
  <2>3. sinceFace'[cache[i].track] =
          IF cache'[i].age < ShowFor THEN cache'[i].age ELSE ShowFor
    BY <1>3, <1>8, <2>1, <2>2
  <2>4. QED BY <1>1, <1>3, <1>8, <2>0, <2>3 DEF SlotTrue
<1>9. FaceKept'
  <2>1. ASSUME NEW t \in FaceTracks, sinceFace'[t] < ShowFor, t \notin crowdedOut
        PROVE  \E i \in CacheSeats : Used(i)' /\ cache'[i].track = t
    <3>1. sinceFace[t] \in Nat /\ sinceFace[t] + 1 < ShowFor
      BY <1>2, <2>1 DEF FaceTypeOK
    <3>2. PICK i \in CacheSeats : Used(i) /\ cache[i].track = t
      BY <3>1, <2>1 DEF FaceKept, SlotsOf
    <3>3. cache[i] \in Cached /\ cache[i].age = sinceFace[t]
      BY <3>1, <3>2 DEF SlotsTrue, SlotTrue, FaceTypeOK, Used, Cached
    <3>4. cache'[i] = [cache[i] EXCEPT !.age = @ + 1]
      BY <3>1, <3>2, <3>3, <1>1 DEF Aged
    <3>5. cache'[i] \in Cached /\ cache'[i].track = t
      BY <3>1, <3>2, <3>3, <3>4 DEF Cached
    <3>6. QED BY <3>5 DEF Used
  <2>2. QED BY <2>1, <1>1 DEF FaceKept, SlotsOf
<1>10. QED BY <1>5, <1>6, <1>7, <1>8, <1>9 DEF SlotsTrue

LEMMA FaceNextInv == FaceInv /\ [FaceNext]_faceVars => FaceInv'
<1> SUFFICES ASSUME FaceInv, [FaceNext]_faceVars PROVE FaceInv'
  OBVIOUS
<1>1. ASSUME NobodyThere PROVE FaceInv'
  BY <1>1
  DEF NobodyThere, FaceInv, FaceTypeOK, OneSlotPerTrack, FaceKept, SlotsTrue, SlotTrue,
      ShownTrue, SlotsOf, Used
<1>2. ASSUME UNCHANGED faceVars PROVE FaceInv'
  BY <1>2
  DEF faceVars, FaceInv, FaceTypeOK, OneSlotPerTrack, FaceKept, SlotsTrue, SlotTrue,
      ShownTrue, SlotsOf, Used
<1>3. QED BY <1>1, <1>2, MatchInv, CarryInv DEF FaceNext

\* What the cache finds for a track follows from what its slot says.
LEMMA InvCarried == FaceInv => FaceCarried
<1> SUFFICES ASSUME FaceInv, NEW t \in FaceTracks
             PROVE  /\ onTrack[t] \subseteq lastFace[t]
                    /\ FoundFor(t) = IF sinceFace[t] < ShowFor /\ t \notin crowdedOut
                                       THEN lastFace[t] ELSE {}
  BY DEF FaceCarried
<1> USE FaceConstants DEF FaceInv
<1>1. CASE SlotsOf(t) = {}
  BY <1>1 DEF FoundFor, FaceKept, ShownTrue
<1>2. CASE SlotsOf(t) # {}
  <2>1. PICK i \in SlotsOf(t) : TRUE
    BY <1>2
  <2>2. SlotsOf(t) = {i} /\ i \in CacheSeats /\ Used(i) /\ cache[i].track = t
    BY <2>1 DEF SlotsOf, OneSlotPerTrack
  <2>3. t \notin crowdedOut /\ lastFace[t] = {cache[i].face}
        /\ (sinceFace[t] < ShowFor <=> cache[i].age < ShowFor)
    BY <2>2 DEF SlotsTrue, SlotTrue
  <2>4. FoundFor(t) = IF cache[i].age < ShowFor THEN {cache[i].face} ELSE {}
    BY <2>2 DEF FoundFor
  <2>5. QED BY <2>3, <2>4 DEF ShownTrue
<1>3. QED BY <1>1, <1>2

-----------------------------------------------------------------------------
\* The cache and what is remembered of each track keep their ranges.
THEOREM FaceTypesHold == FaceSpec => []FaceTypeOK
BY FaceInitInv, FaceNextInv, PTL DEF FaceSpec, FaceInv

\* A track has one slot at most, for every size of the cache.
THEOREM OneSlot == FaceSpec => []OneSlotPerTrack
BY FaceInitInv, FaceNextInv, PTL DEF FaceSpec, FaceInv

\* For every size of the cache and every timeout: a track is shown with its own last
\* face, without a gap and no longer than the timeout, unless its slot was taken.
THEOREM FacesCarried == FaceSpec => []FaceCarried
BY FaceInitInv, FaceNextInv, InvCarried, PTL DEF FaceSpec

-----------------------------------------------------------------------------
(***************************************************************************)
(* Actions are shown in order, for every size of the window, every         *)
(* interval and any number of predictions.  A result that waits to be      *)
(* fetched is of a run no earlier than any that was shown: runs are        *)
(* numbered as they begin, and there is one at a time.                     *)
(***************************************************************************)

\* A result with an action that no frame has fetched yet.
Waiting == hasNew /\ latest # 0

ActionNumbers ==
  /\ runs \in Nat /\ latest \in Nat /\ kept \in Nat /\ shown \in Nat /\ newest \in Nat

\* What is shown is behind what waits, and that behind the runs begun.
NewestLast ==
  /\ kept <= newest /\ newest <= runs
  /\ Waiting => newest <= latest /\ latest <= runs

ActionInv == ActionNumbers /\ NewestLast /\ ActionOrder

LEMMA ActionInitInv == ActionInit => ActionInv
<1> SUFFICES ASSUME ActionInit PROVE ActionInv
  OBVIOUS
<1>1. ActionNumbers /\ kept <= newest /\ newest <= runs
  BY DEF ActionInit, ActionNumbers
<1>2. ~Waiting
  BY DEF ActionInit, Waiting
<1>3. ActionOrder
  BY DEF ActionInit, ActionOrder
<1>4. QED BY <1>1, <1>2, <1>3 DEF ActionInv, NewestLast

\* What a frame shows is what waited, nothing, or what it carries on.
LEMMA ShownIs ==
  ASSUME NEW pose \in BOOLEAN, NEW carried, ShowAction(pose, carried)
  PROVE  /\ (shown' = latest /\ Waiting /\ ~Waiting') \/ shown' = 0 \/ shown' = carried
         /\ Waiting' => Waiting
         /\ newest' = IF shown' > newest THEN shown' ELSE newest
         /\ runs' = runs /\ latest' = latest
<1>1. /\ shown' = (IF pose /\ hasNew THEN latest ELSE carried)
      /\ hasNew' = (hasNew /\ ~pose) /\ latest' = latest /\ runs' = runs
      /\ newest' = IF shown' > newest THEN shown' ELSE newest
  BY DEF ShowAction, Fetched
<1>2. Waiting' => Waiting
  BY <1>1 DEF Waiting
<1>3. CASE pose /\ hasNew /\ latest # 0
  <2>1. Waiting /\ ~Waiting' /\ shown' = latest
    BY <1>1, <1>3 DEF Waiting
  <2>2. QED BY <1>1, <1>2, <2>1
<1>4. CASE pose /\ hasNew /\ latest = 0
  <2>1. shown' = 0
    BY <1>1, <1>4
  <2>2. QED BY <1>1, <1>2, <2>1
<1>5. CASE ~(pose /\ hasNew)
  <2>1. shown' = carried
    BY <1>1, <1>5
  <2>2. QED BY <1>1, <1>2, <2>1
<1>6. QED BY <1>3, <1>4, <1>5

\* A frame keeps the order, whether it carries nothing on or the last result.
LEMMA ShowInv ==
  ASSUME ActionNumbers, NewestLast, NEW pose \in BOOLEAN, NEW carried \in {0, kept},
         ShowAction(pose, carried)
  PROVE  /\ shown' \in Nat /\ newest' \in Nat /\ runs' = runs /\ latest' = latest
         /\ kept <= newest' /\ shown' <= newest' /\ newest' <= runs'
         /\ Waiting' => newest' <= latest' /\ latest' <= runs'
         /\ shown' = 0 \/ shown' = carried \/ shown' = newest'
<1>1. carried \in Nat /\ carried <= newest
  BY DEF ActionNumbers, NewestLast
<1>2. CASE shown' = latest /\ Waiting /\ ~Waiting'
  BY <1>2, ShownIs DEF ActionNumbers, NewestLast
<1>3. CASE shown' = 0 \/ shown' = carried
  BY <1>1, <1>3, ShownIs DEF ActionNumbers, NewestLast
<1>4. QED BY <1>2, <1>3, ShownIs

LEMMA ActionNextInv == ActionInv /\ [ActionNext]_actionVars => ActionInv'
<1> SUFFICES ASSUME ActionInv, [ActionNext]_actionVars PROVE ActionInv'
  OBVIOUS
<1> USE DEF ActionInv
<1>1. ASSUME NEW pose \in BOOLEAN, ProcessedFrame(pose) PROVE ActionInv'
  <2>1. ShowAction(pose, 0) /\ kept' = shown'
    BY <1>1 DEF ProcessedFrame, Blank
  <2>2. ActionNumbers' /\ NewestLast'
    BY <2>1, ShowInv DEF ActionNumbers, NewestLast
  <2>3. shown' = 0 \/ shown' = newest'
    BY <2>1, ShowInv
  <2>4. QED BY <2>2, <2>3 DEF ActionOrder
<1>2. ASSUME SkippedFrame PROVE ActionInv'
  <2> DEFINE pose == keptPose = "yes"
  <2>1. ShowAction(pose, kept) /\ kept' = kept /\ skipped' = TRUE
    BY <1>2 DEF SkippedFrame
  <2>2. ActionNumbers' /\ NewestLast'
    BY <2>1, ShowInv DEF ActionNumbers, NewestLast
  <2>3. shown' = 0 \/ shown' = kept' \/ shown' = newest'
    BY <2>1, ShowInv
  <2>4. QED BY <2>1, <2>2, <2>3 DEF ActionOrder
<1>3. ASSUME UNCHANGED <<runs, latest, kept, shown, newest, hasNew, skipped>>
      PROVE  ActionInv'
  BY <1>3 DEF ActionNumbers, NewestLast, Waiting, ActionOrder
<1>4. ASSUME CountFrame PROVE ActionInv'
  BY <1>3, <1>4 DEF CountFrame
<1>5. ASSUME RunBegins PROVE ActionInv'
  <2>1. runs' = runs + 1 /\ UNCHANGED <<latest, kept, shown, newest, hasNew, skipped>>
    BY <1>5 DEF RunBegins
  <2>2. (Waiting' <=> Waiting) /\ ActionOrder'
    BY <2>1 DEF Waiting, ActionOrder
  <2>3. ActionNumbers' /\ NewestLast'
    BY <2>1, <2>2 DEF ActionNumbers, NewestLast
  <2>4. QED BY <2>2, <2>3
<1>6. ASSUME RunEnds PROVE ActionInv'
  <2>1. latest' \in {0, runs} /\ UNCHANGED <<runs, kept, shown, newest, skipped>>
    BY <1>6 DEF RunEnds
  <2>2. (Waiting' => latest' # 0) /\ ActionOrder'
    BY <2>1 DEF Waiting, ActionOrder
  <2>3. ActionNumbers' /\ NewestLast'
    BY <2>1, <2>2 DEF ActionNumbers, NewestLast
  <2>4. QED BY <2>2, <2>3
<1>7. ASSUME UNCHANGED actionVars PROVE ActionInv'
  BY <1>3, <1>7 DEF actionVars
<1>8. QED BY <1>1, <1>2, <1>4, <1>5, <1>6, <1>7 DEF ActionNext

-----------------------------------------------------------------------------
\* For every window, interval and ring, and any number of predictions: the actions
\* shown follow the order of the predictions, but for what a skipped frame repeats.
THEOREM ActionsInOrder == ActionSpec => []ActionOrder
BY ActionInitInv, ActionNextInv, PTL DEF ActionSpec, ActionInv

LEMMA ShowTypes ==
  ASSUME ActionTypeOK, NEW pose \in BOOLEAN, NEW carried \in 0..MaxRuns,
         ShowAction(pose, carried)
  PROVE  /\ fill' \in 0..Window /\ uncounted' \in 0..InFlight
         /\ shown' \in 0..MaxRuns /\ newest' \in 0..MaxRuns /\ hasNew' \in BOOLEAN
         /\ UNCHANGED <<sinceRun, tcn, runs, latest>>
<1>1. shown' \in {latest, carried} /\ newest' \in {shown', newest}
  BY DEF ShowAction, Fetched
<1>2. shown' \in 0..MaxRuns /\ newest' \in 0..MaxRuns
  BY <1>1 DEF ActionTypeOK
<1>3. fill' \in 0..Window /\ uncounted' \in 0..InFlight
  <2>1. /\ Window \in Nat /\ InFlight \in Nat /\ fill \in 0..Window
        /\ uncounted \in 0..InFlight
    BY ActionAssumption DEF ActionTypeOK
  <2>2. Upto1(fill, Window) \in 0..Window
    BY <2>1 DEF Upto1
  <2>3. QED BY <2>1, <2>2 DEF ShowAction
<1>4. hasNew' \in BOOLEAN /\ UNCHANGED <<sinceRun, tcn, runs, latest>>
  BY DEF ShowAction
<1>5. QED BY <1>2, <1>3, <1>4

LEMMA ActionNextTypes == ActionTypeOK /\ [ActionNext]_actionVars => ActionTypeOK'
<1> SUFFICES ASSUME ActionTypeOK, [ActionNext]_actionVars PROVE ActionTypeOK'
  OBVIOUS
<1>1. Window \in Nat /\ InFlight \in Nat /\ Interval \in Nat \ {0} /\ MaxRuns \in Nat
  BY ActionAssumption
<1>2. ASSUME NEW pose \in BOOLEAN, ProcessedFrame(pose) PROVE ActionTypeOK'
  <2>1. ShowAction(pose, 0) /\ 0 \in 0..MaxRuns
    BY <1>1, <1>2 DEF ProcessedFrame, Blank
  <2>2. kept' = shown' /\ keptPose' \in {"none", "yes", "no"} /\ skipped' = FALSE
    BY <1>2 DEF ProcessedFrame
  <2>3. QED BY <2>1, <2>2, ShowTypes DEF ActionTypeOK
<1>3. CASE SkippedFrame
  <2>1. PICK pose \in BOOLEAN : pose = (keptPose = "yes")
    OBVIOUS
  <2>2. ShowAction(pose, kept) /\ kept \in 0..MaxRuns
    BY <1>3, <2>1 DEF SkippedFrame, ActionTypeOK
  <2>3. kept' = kept /\ keptPose' = keptPose /\ skipped' = TRUE
    BY <1>3 DEF SkippedFrame
  <2>4. QED BY <2>2, <2>3, ShowTypes DEF ActionTypeOK
<1>4. CASE CountFrame
  BY <1>1, <1>4 DEF CountFrame, Upto1, ActionTypeOK
<1>5. CASE RunBegins
  BY <1>1, <1>5 DEF RunBegins, ActionTypeOK
<1>6. CASE RunEnds
  BY <1>1, <1>6 DEF RunEnds, ActionTypeOK
<1>7. CASE UNCHANGED actionVars
  BY <1>7 DEF actionVars, ActionTypeOK
<1>8. QED BY <1>2, <1>3, <1>4, <1>5, <1>6, <1>7 DEF ActionNext

\* The window fills no further than its size, and no more frames wait to be counted
\* than the ring has slots.
THEOREM ActionTypesHold == ActionSpec => []ActionTypeOK
<1>1. ActionInit => ActionTypeOK
  <2> SUFFICES ASSUME ActionInit PROVE ActionTypeOK
    OBVIOUS
  <2>1. /\ fill \in 0..Window /\ uncounted \in 0..InFlight /\ sinceRun \in 0..Interval
        /\ runs \in 0..MaxRuns /\ {latest, kept, shown, newest} \subseteq 0..MaxRuns
    BY ActionAssumption DEF ActionInit
  <2>2. hasNew \in BOOLEAN /\ skipped \in BOOLEAN
    BY DEF ActionInit
  <2>3. tcn \in {"idle", "running"} /\ keptPose \in {"none", "yes", "no"}
    BY DEF ActionInit
  <2>4. QED BY <2>1, <2>2, <2>3 DEF ActionTypeOK
<1>2. QED BY <1>1, ActionNextTypes, PTL DEF ActionSpec

=============================================================================
