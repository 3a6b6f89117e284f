--------------------------- MODULE GameObjectProofs ---------------------------
(***************************************************************************)
(* Proofs about GameObjectRegistry, for every table capacity, generation   *)
(* width and set of kinds and objects, and about GameObjectEvents, for     *)
(* every number of addresses, births, handles and matches.                 *)
(*                                                                         *)
(* The registry's invariant, RegistryInv, pairs the structural facts       *)
(* (index, free stack) with the history of issued handles: a handle of the *)
(* running scene is in force exactly while its slot has not been freed     *)
(* since, and each free moves the slot's generation one step away from the *)
(* handle's.  The first part ends with what GameObjectEvents takes the     *)
(* registry for: it implements HandleTable.                                *)
(*                                                                         *)
(* The handlers' invariant, EventsInv, adds to the invariants the runs     *)
(* check what the handlers rely on without saying so: that an index entry  *)
(* leads to a handle in force, that a round handle kept in round_ is the   *)
(* indexed one, that nobody but the purchase path is under way while an    *)
(* event is being delivered, and that a match's watch set is closed before *)
(* the next match can end.                                                 *)
(***************************************************************************)
EXTENDS GameObjectRegistry, GameObjectEvents, FiniteSetTheorems, TLAPS

-----------------------------------------------------------------------------
(* One more increment, while a scene frees a slot at most MaxReuse times. *)
LEMMA AdvanceStep ==
  ASSUME NEW g \in Generation, NEW n \in 0 .. (MaxReuse - 1)
  PROVE  NextGeneration(Advance(g, n)) = Advance(g, n + 1)
  BY GenerationAssumption DEF NextGeneration, Advance, Generation

(* Within one scene a generation never comes round to where it started. *)
LEMMA AdvanceDiffers ==
  ASSUME NEW g \in Generation, NEW n \in 1 .. MaxReuse
  PROVE  Advance(g, n) # g
  BY GenerationAssumption DEF Advance, Generation

LEMMA NextGenerationType ==
  ASSUME NEW g \in Generation
  PROVE  NextGeneration(g) \in Generation
  BY GenerationAssumption DEF NextGeneration, Generation

(* The id add_locked() takes is an empty slot of the enlarged vector. *)
LEMMA TakenIdEmpty ==
  ASSUME RegistryInv, freeIds # <<>> \/ size < Capacity
  PROVE  /\ TakeId \in Id
         /\ TakeId \notin LiveIds
         /\ freeIds = <<>> => TakeId = size + 1
         /\ freeIds # <<>> => TakeId \in 1 .. size
         /\ EmptySlot(slots[TakeId])
  <1> USE CapacityAssumption DEF RegistryInv, RegistryTypeOK
  <1>1. CASE freeIds = <<>>
    BY <1>1 DEF TakeId, UnusedFresh, Id, LiveIds
  <1>2. CASE freeIds # <<>>
    <2>1. Len(freeIds) \in 1 .. Len(freeIds)
      BY <1>2
    <2>2. freeIds[Len(freeIds)] \in (1 .. size) \ LiveIds
      BY <2>1 DEF FreeListExact
    <2>3. QED
      BY <1>2, <2>2 DEF TakeId, LiveIds, Id
  <1>3. QED
    BY <1>1, <1>2

-----------------------------------------------------------------------------
LEMMA RegistryInitInv == RegistryInit => RegistryInv
  <1> SUFFICES ASSUME RegistryInit PROVE RegistryInv
    OBVIOUS
  <1> USE CapacityAssumption, GenerationAssumption, SceneAssumption,
          KindAssumption, NullObjectAssumption
  <1>1. RegistryTypeOK
    <2>1. NewSlot \in Slot
      BY DEF NewSlot, Slot, Generation
    <2>2. QED
      BY <2>1 DEF RegistryInit, RegistryTypeOK, Scene, Id
  <1>2. LiveIds = {}
    BY DEF RegistryInit, LiveIds
  <1>3. IndexSound /\ FreeListExact /\ LiveInScene /\ LiveIssued
    BY <1>2 DEF RegistryInit, IndexSound, FreeListExact, LiveInScene, LiveIssued
  <1>4. UnusedFresh
    BY DEF RegistryInit, UnusedFresh, EmptySlot, NewSlot
  <1>5. IssuedTracked
    BY DEF RegistryInit, IssuedTracked
  <1>6. QED
    BY <1>1, <1>3, <1>4, <1>5 DEF RegistryInv

(* A filled slot: what add_locked() leaves behind. *)
LEMMA AddInv ==
  ASSUME RegistryInv, NEW k \in Kind, NEW o \in Object, AddLocked(k, o)
  PROVE  RegistryInv'
  <1> USE CapacityAssumption, NullObjectAssumption
  <1> DEFINE id == TakeId
             s  == [generation |-> slots[id].generation, scene |-> scene,
                    kind |-> k, object |-> o]
             e  == [handle |-> HandleOf(id, s), object |-> o,
                    reuse |-> reuse[id]]
  <1>1. /\ id \in Id
        /\ id \notin LiveIds
        /\ freeIds = <<>> => id = size + 1
        /\ freeIds # <<>> => id \in 1 .. size
        /\ EmptySlot(slots[id])
    BY TakenIdEmpty DEF AddLocked
  <1>2. RegistryTypeOK
    BY DEF RegistryInv
  <1>3. /\ slots' = [slots EXCEPT ![id] = s]
        /\ index' = [index EXCEPT ![<<k, o>>] = id]
        /\ issued' = issued \cup {e}
        /\ scene' = scene /\ reuse' = reuse
        /\ freeIds = <<>> => size' = size + 1 /\ freeIds' = freeIds
        /\ freeIds # <<>> =>
             size' = size /\ freeIds' = SubSeq(freeIds, 1, Len(freeIds) - 1)
    BY DEF AddLocked
  <1>4. s \in Slot /\ e \in Issued
    BY <1>1, <1>2 DEF RegistryTypeOK, Slot, Issued, Handle, HandleOf, Scene
  <1> HIDE DEF id, s, e
  <1>5. slots' \in [Id -> Slot] /\ slots'[id] = s
        /\ \A i \in Id : i # id => slots'[i] = slots[i]
    BY <1>1, <1>2, <1>3, <1>4 DEF RegistryTypeOK
  <1>6. size' \in 0 .. Capacity /\ size <= size' /\ id <= size'
    <2>1. CASE freeIds = <<>>
      BY <1>1, <1>2, <1>3, <2>1 DEF RegistryTypeOK, Id
    <2>2. CASE freeIds # <<>>
      BY <1>1, <1>2, <1>3, <2>2 DEF RegistryTypeOK, Id
    <2>3. QED
      BY <2>1, <2>2
  <1>7. ~EmptySlot(slots'[id])
    BY <1>5 DEF EmptySlot, s
  <1>8. LiveIds' = LiveIds \cup {id}
    <2>1. \A i \in 1 .. size' : i # id => i \in 1 .. size
      BY <1>1, <1>2, <1>3 DEF RegistryTypeOK, Id
    <2>2. \A i \in 1 .. size : i \in 1 .. size' /\ i \in Id
      BY <1>2, <1>6 DEF RegistryTypeOK, Id
    <2>3. id \in 1 .. size'
      BY <1>1, <1>6 DEF Id
    <2>4. QED
      BY <1>5, <1>7, <2>1, <2>2, <2>3 DEF LiveIds, EmptySlot
  <1>9. RegistryTypeOK'
    <2>1. index' \in [Kind \X Object -> 0 .. Capacity]
      BY <1>1, <1>2, <1>3 DEF RegistryTypeOK, Id
    <2>2. freeIds' \in Seq(Id)
      <3>1. CASE freeIds = <<>>
        BY <1>2, <1>3, <3>1 DEF RegistryTypeOK
      <3>2. CASE freeIds # <<>>
        <4>1. freeIds \in Seq(Id) /\ Len(freeIds) \in Nat \ {0}
          BY <1>2, <3>2 DEF RegistryTypeOK
        <4>2. SubSeq(freeIds, 1, Len(freeIds) - 1) \in Seq(Id)
          BY <4>1
        <4>3. QED
          BY <1>3, <3>2, <4>2
      <3>3. QED
        BY <3>1, <3>2
    <2>3. QED
      BY <1>2, <1>3, <1>4, <1>5, <1>6, <2>1, <2>2 DEF RegistryTypeOK
  <1>10. IndexSound'
    <2> SUFFICES ASSUME NEW k2 \in Kind, NEW o2 \in Object,
                        index'[<<k2, o2>>] # 0
                 PROVE  /\ index'[<<k2, o2>>] \in LiveIds'
                        /\ slots'[index'[<<k2, o2>>]].kind = k2
                        /\ slots'[index'[<<k2, o2>>]].object = o2
      BY DEF IndexSound
    <2>1. CASE <<k2, o2>> = <<k, o>>
      <3>1. index'[<<k2, o2>>] = id
        BY <1>2, <1>3, <2>1 DEF RegistryTypeOK
      <3>2. QED
        BY <1>5, <1>8, <2>1, <3>1 DEF s
    <2>2. CASE <<k2, o2>> # <<k, o>>
      <3>1. index'[<<k2, o2>>] = index[<<k2, o2>>]
        BY <1>2, <1>3, <2>2 DEF RegistryTypeOK
      <3>2. /\ index[<<k2, o2>>] \in LiveIds
            /\ slots[index[<<k2, o2>>]].kind = k2
            /\ slots[index[<<k2, o2>>]].object = o2
        BY <3>1 DEF RegistryInv, IndexSound
      <3>3. index[<<k2, o2>>] # id /\ index[<<k2, o2>>] \in Id
        BY <1>1, <1>2, <3>2 DEF LiveIds, RegistryTypeOK, Id
      <3>4. QED
        BY <1>5, <1>8, <3>1, <3>2, <3>3
    <2>3. QED
      BY <2>1, <2>2
  <1>11. FreeListExact'
    <2>1. FreeListExact
      BY DEF RegistryInv
    <2>2. CASE freeIds = <<>>
      <3>1. freeIds' = <<>> /\ size' = size + 1 /\ id = size + 1
        BY <1>1, <1>3, <2>2
      <3>2. (1 .. size') \ LiveIds' = {}
        BY <1>2, <1>8, <2>1, <2>2, <3>1 DEF FreeListExact, RegistryTypeOK
      <3>3. QED
        BY <3>1, <3>2 DEF FreeListExact
    <2>3. CASE freeIds # <<>>
      <3>1. /\ size' = size
            /\ Len(freeIds) \in Nat \ {0}
            /\ Len(freeIds') = Len(freeIds) - 1
            /\ \A i \in 1 .. Len(freeIds') : freeIds'[i] = freeIds[i]
            /\ id = freeIds[Len(freeIds)]
        BY <1>2, <1>3, <2>3 DEF RegistryTypeOK, id, TakeId
      <3>2. \A i \in 1 .. Len(freeIds') : freeIds[i] # id
        BY <2>1, <3>1 DEF FreeListExact
      <3>3. \A i \in 1 .. Len(freeIds') : freeIds'[i] \in (1 .. size') \ LiveIds'
        BY <1>8, <2>1, <3>1, <3>2 DEF FreeListExact
      <3>4. \A i, j \in 1 .. Len(freeIds') : freeIds'[i] = freeIds'[j] => i = j
        BY <2>1, <3>1 DEF FreeListExact
      <3>5. ASSUME NEW x \in (1 .. size') \ LiveIds'
            PROVE  \E i \in 1 .. Len(freeIds') : freeIds'[i] = x
        <4>1. PICK i \in 1 .. Len(freeIds) : freeIds[i] = x
          BY <1>8, <2>1, <3>1, <3>5 DEF FreeListExact
        <4>2. i # Len(freeIds)
          BY <1>8, <3>1, <3>5, <4>1
        <4>3. i \in 1 .. Len(freeIds')
          BY <3>1, <4>2
        <4>4. QED
          BY <3>1, <4>1, <4>3
      <3>6. QED
        BY <3>3, <3>4, <3>5 DEF FreeListExact
    <2>4. QED
      BY <2>2, <2>3
  <1>12. LiveInScene'
    BY <1>1, <1>2, <1>3, <1>5, <1>8 DEF LiveInScene, RegistryInv, s, LiveIds,
       RegistryTypeOK, Id
  <1>13. UnusedFresh'
    BY <1>2, <1>3, <1>5, <1>6
       DEF UnusedFresh, RegistryInv, RegistryTypeOK, Id, EmptySlot
  <1>14. IssuedTracked'
    <2> SUFFICES ASSUME NEW e2 \in issued'
                 PROVE  /\ e2.handle.id <= size'
                        /\ e2.handle.scene <= scene
                        /\ e2.handle.scene = scene =>
                             /\ e2.reuse <= reuse[e2.handle.id]
                             /\ slots'[e2.handle.id].generation =
                                  Advance(e2.handle.generation,
                                          reuse[e2.handle.id] - e2.reuse)
                        /\ (e2.handle.scene = scene
                              /\ e2.reuse = reuse[e2.handle.id]) =>
                             /\ slots'[e2.handle.id].object = e2.object
                             /\ slots'[e2.handle.id].kind = e2.handle.kind
      BY <1>3 DEF IssuedTracked, InForce
    <2>1. CASE e2 = e
      <3>1. /\ e2.handle.id = id /\ e2.handle.scene = scene
            /\ e2.reuse = reuse[id] /\ e2.object = o /\ e2.handle.kind = k
            /\ e2.handle.generation = s.generation
        BY <2>1 DEF e, s, HandleOf
      <3>2. Advance(s.generation, 0) = s.generation
        BY <1>4, GenerationAssumption DEF Advance, Slot, Generation
      <3>3. reuse[id] - e2.reuse = 0 /\ reuse[id] <= reuse[id] /\ scene <= scene
        BY <1>1, <1>2, <3>1 DEF RegistryTypeOK, Scene
      <3>4. slots'[id].object = o /\ slots'[id].kind = k
        BY <1>5 DEF s
      <3>5. QED
        BY <1>5, <1>6, <3>1, <3>2, <3>3, <3>4
    <2>2. CASE e2 \in issued
      <3>1. IssuedTracked
        BY DEF RegistryInv
      <3>2. e2.handle.id \in Id /\ e2.handle.id <= size
        BY <1>2, <2>2, <3>1 DEF RegistryTypeOK, Issued, Handle, IssuedTracked
      <3>3. CASE e2.handle.id # id
        BY <1>2, <1>5, <1>6, <2>2, <3>1, <3>2, <3>3
           DEF IssuedTracked, InForce, RegistryTypeOK, Id
      <3>4. CASE e2.handle.id = id
        <4>1. ~InForce(e2)
          <5>1. slots[id].object \notin Object
            BY <1>1 DEF EmptySlot
          <5>2. e2.object \in Object
            BY <1>2, <2>2 DEF RegistryTypeOK, Issued
          <5>3. QED
            BY <2>2, <3>1, <3>4, <5>1, <5>2 DEF IssuedTracked
        <4>2. slots'[id].generation = slots[id].generation
          BY <1>5 DEF s
        <4>3. QED
          BY <1>2, <1>6, <2>2, <3>1, <3>2, <3>4, <4>1, <4>2
             DEF IssuedTracked, InForce, RegistryTypeOK, Id
      <3>5. QED
        BY <3>3, <3>4
    <2>3. QED
      BY <1>3, <2>1, <2>2
  <1>15. LiveIssued'
    <2> SUFFICES ASSUME NEW i \in LiveIds'
                 PROVE  [handle |-> HandleOf(i, slots'[i]),
                         object |-> slots'[i].object,
                         reuse |-> reuse[i]] \in issued'
      BY <1>3 DEF LiveIssued, HandleOf
    <2>1. CASE i = id
      BY <1>3, <1>5, <2>1 DEF e, s
    <2>2. CASE i # id
      <3>1. i \in LiveIds
        BY <1>8, <2>2
      <3>2. i \in Id
        BY <1>2, <3>1 DEF LiveIds, RegistryTypeOK, Id
      <3>3. QED
        BY <1>3, <1>5, <2>2, <3>1, <3>2 DEF RegistryInv, LiveIssued
    <2>3. QED
      BY <2>1, <2>2
  <1>16. QED
    BY <1>9, <1>10, <1>11, <1>12, <1>13, <1>14, <1>15 DEF RegistryInv

-----------------------------------------------------------------------------
(* A freed slot: what invalidate() leaves behind. *)
LEMMA InvalidateInv ==
  ASSUME RegistryInv, NEW e0 \in issued, Invalidate(e0.handle)
  PROVE  RegistryInv'
  <1> USE NullObjectAssumption, CapacityAssumption
  <1> DEFINE id == e0.handle.id
             s  == [slots[id] EXCEPT !.object = NullObject,
                                     !.generation = NextGeneration(@)]
  <1>1. RegistryTypeOK
    BY DEF RegistryInv
  <1>2. /\ id \in 1 .. size /\ id \in Id /\ id \in LiveIds
        /\ slots[id] \in Slot
    BY <1>1 DEF Invalidate, RegistryTypeOK, Id, LiveIds, Matches
  <1>3. /\ slots' = [slots EXCEPT ![id] = s]
        /\ index' = Unindex(id, slots[id])
        /\ freeIds' = Append(freeIds, id)
        /\ reuse[id] < MaxReuse
        /\ reuse' = [reuse EXCEPT ![id] = @ + 1]
        /\ size' = size /\ scene' = scene /\ issued' = issued
    BY DEF Invalidate
  <1>4. /\ s \in Slot /\ s.object = NullObject
        /\ s.generation = NextGeneration(slots[id].generation)
        /\ s.kind = slots[id].kind /\ s.scene = slots[id].scene
    BY <1>2, NextGenerationType DEF Slot
  <1> HIDE DEF id, s
  <1>5. /\ slots' \in [Id -> Slot] /\ slots'[id] = s
        /\ \A i \in Id : i # id => slots'[i] = slots[i]
    BY <1>1, <1>2, <1>3, <1>4 DEF RegistryTypeOK
  <1>6. /\ reuse' \in [Id -> 0 .. MaxReuse] /\ reuse'[id] = reuse[id] + 1
        /\ \A i \in Id : i # id => reuse'[i] = reuse[i]
    BY <1>1, <1>2, <1>3, GenerationAssumption DEF RegistryTypeOK
  <1>7. LiveIds' = LiveIds \ {id}
    <2>1. \A i \in 1 .. size : i \in Id
      BY <1>1 DEF RegistryTypeOK, Id
    <2>2. QED
      BY <1>3, <1>4, <1>5, <2>1 DEF LiveIds, EmptySlot
  <1>8. \A k \in Kind, o \in Object :
          index'[<<k, o>>] = (IF index[<<k, o>>] = id THEN 0
                                                      ELSE index[<<k, o>>])
    <2> SUFFICES ASSUME NEW k \in Kind, NEW o \in Object
                 PROVE  index'[<<k, o>>] =
                          (IF index[<<k, o>>] = id THEN 0 ELSE index[<<k, o>>])
      OBVIOUS
    <2>1. id # 0
      BY <1>2
    <2>2. index[<<k, o>>] = id => k = slots[id].kind /\ o = slots[id].object
      BY <2>1 DEF RegistryInv, IndexSound
    <2>3. QED
      BY <1>1, <1>3, <2>1, <2>2 DEF Unindex, RegistryTypeOK
  <1>9. RegistryTypeOK'
    <2>1. index' \in [Kind \X Object -> 0 .. Capacity]
      <3>1. index \in [Kind \X Object -> 0 .. Capacity] /\ 0 \in 0 .. Capacity
        BY <1>1 DEF RegistryTypeOK
      <3>2. \A key : [index EXCEPT ![key] = 0] \in [Kind \X Object -> 0 .. Capacity]
        BY <3>1
      <3>3. QED
        BY <1>3, <3>1, <3>2 DEF Unindex
    <2>2. freeIds' \in Seq(Id)
      BY <1>1, <1>2, <1>3 DEF RegistryTypeOK
    <2>3. QED
      BY <1>1, <1>3, <1>5, <1>6, <2>1, <2>2 DEF RegistryTypeOK
  <1>10. IndexSound'
    <2> SUFFICES ASSUME NEW k \in Kind, NEW o \in Object,
                        index'[<<k, o>>] # 0
                 PROVE  /\ index'[<<k, o>>] \in LiveIds'
                        /\ slots'[index'[<<k, o>>]].kind = k
                        /\ slots'[index'[<<k, o>>]].object = o
      BY DEF IndexSound
    <2>1. index'[<<k, o>>] = index[<<k, o>>] /\ index[<<k, o>>] # id
      BY <1>8
    <2>2. /\ index[<<k, o>>] \in LiveIds
          /\ slots[index[<<k, o>>]].kind = k
          /\ slots[index[<<k, o>>]].object = o
      BY <2>1 DEF RegistryInv, IndexSound
    <2>3. index[<<k, o>>] \in Id
      BY <1>1, <2>2 DEF LiveIds, RegistryTypeOK, Id
    <2>4. QED
      BY <1>5, <1>7, <2>1, <2>2, <2>3
  <1>11. FreeListExact'
    <2>1. FreeListExact
      BY DEF RegistryInv
    <2>2. /\ Len(freeIds) \in Nat
          /\ Len(freeIds') = Len(freeIds) + 1
          /\ \A i \in 1 .. Len(freeIds) : freeIds'[i] = freeIds[i]
          /\ freeIds'[Len(freeIds) + 1] = id
      BY <1>1, <1>2, <1>3 DEF RegistryTypeOK
    <2>3. \A i \in 1 .. Len(freeIds) : freeIds[i] # id
      BY <1>2, <2>1 DEF FreeListExact
    <2>4. \A i \in 1 .. Len(freeIds') : freeIds'[i] \in (1 .. size') \ LiveIds'
      BY <1>2, <1>3, <1>7, <2>1, <2>2 DEF FreeListExact
    <2>5. \A i, j \in 1 .. Len(freeIds') : freeIds'[i] = freeIds'[j] => i = j
      BY <2>1, <2>2, <2>3 DEF FreeListExact
    <2>6. ASSUME NEW x \in (1 .. size') \ LiveIds'
          PROVE  \E i \in 1 .. Len(freeIds') : freeIds'[i] = x
      <3>1. CASE x = id
        <4>1. Len(freeIds) + 1 \in 1 .. Len(freeIds')
          BY <2>2
        <4>2. QED
          BY <2>2, <3>1, <4>1
      <3>2. CASE x # id
        <4>1. PICK i \in 1 .. Len(freeIds) : freeIds[i] = x
          BY <1>3, <1>7, <2>1, <2>6, <3>2 DEF FreeListExact
        <4>2. i \in 1 .. Len(freeIds')
          BY <2>2
        <4>3. QED
          BY <2>2, <4>1, <4>2
      <3>3. QED
        BY <3>1, <3>2
    <2>7. QED
      BY <2>4, <2>5, <2>6 DEF FreeListExact
  <1>12. LiveInScene'
    <2> SUFFICES ASSUME NEW i \in LiveIds' PROVE slots'[i].scene = scene'
      BY DEF LiveInScene
    <2>1. i \in LiveIds /\ i # id
      BY <1>7
    <2>2. i \in Id
      BY <1>1, <2>1 DEF LiveIds, RegistryTypeOK, Id
    <2>3. QED
      BY <1>3, <1>5, <2>1, <2>2 DEF RegistryInv, LiveInScene
  <1>13. UnusedFresh'
    <2>1. \A i \in Id : i > size => i # id
      BY <1>1, <1>2 DEF RegistryTypeOK, Id
    <2>2. QED
      BY <1>3, <1>5, <1>6, <2>1 DEF UnusedFresh, RegistryInv, EmptySlot
  <1>14. IssuedTracked'
    <2> SUFFICES ASSUME NEW e \in issued
                 PROVE  /\ e.handle.id <= size
                        /\ e.handle.scene <= scene
                        /\ e.handle.scene = scene =>
                             /\ e.reuse <= reuse'[e.handle.id]
                             /\ slots'[e.handle.id].generation =
                                  Advance(e.handle.generation,
                                          reuse'[e.handle.id] - e.reuse)
                        /\ (e.handle.scene = scene
                              /\ e.reuse = reuse'[e.handle.id]) =>
                             /\ slots'[e.handle.id].object = e.object
                             /\ slots'[e.handle.id].kind = e.handle.kind
      BY <1>3 DEF IssuedTracked, InForce
    <2>1. IssuedTracked
      BY DEF RegistryInv
    <2>2. /\ e.handle.id \in Id /\ e.handle.generation \in Generation
          /\ e.reuse \in 0 .. MaxReuse
      BY <1>1 DEF RegistryTypeOK, Issued, Handle
    <2>3. CASE e.handle.id # id
      BY <1>5, <1>6, <2>1, <2>2, <2>3 DEF IssuedTracked, InForce
    <2>4. CASE e.handle.id = id
      <3>1. reuse[id] \in 0 .. MaxReuse /\ MaxReuse \in Nat
        BY <1>1, <1>2, GenerationAssumption DEF RegistryTypeOK
      <3>2. CASE e.handle.scene # scene
        BY <2>1, <3>2 DEF IssuedTracked
      <3>3. CASE e.handle.scene = scene
        <4>1. /\ e.reuse <= reuse[id]
              /\ slots[id].generation =
                   Advance(e.handle.generation, reuse[id] - e.reuse)
          BY <2>1, <2>4, <3>3 DEF IssuedTracked
        <4>2. reuse[id] - e.reuse \in 0 .. (MaxReuse - 1)
          BY <1>3, <2>2, <3>1, <4>1
        <4>3. slots'[id].generation =
                Advance(e.handle.generation, reuse[id] - e.reuse + 1)
          BY <1>4, <1>5, <2>2, <4>1, <4>2, AdvanceStep
        <4>4. reuse'[id] - e.reuse = reuse[id] - e.reuse + 1 /\ e.reuse < reuse'[id]
          BY <1>6, <2>2, <3>1, <4>1
        <4>5. e.reuse <= reuse'[id] /\ e.reuse # reuse'[id]
          BY <1>6, <2>2, <3>1, <4>4
        <4>6. QED
          BY <2>1, <2>4, <4>3, <4>4, <4>5 DEF IssuedTracked
      <3>4. QED
        BY <3>2, <3>3
    <2>5. QED
      BY <2>3, <2>4
  <1>15. LiveIssued'
    <2> SUFFICES ASSUME NEW i \in LiveIds'
                 PROVE  [handle |-> HandleOf(i, slots'[i]),
                         object |-> slots'[i].object,
                         reuse |-> reuse'[i]] \in issued
      BY <1>3 DEF LiveIssued, HandleOf
    <2>1. i \in LiveIds /\ i # id
      BY <1>7
    <2>2. i \in Id
      BY <1>1, <2>1 DEF LiveIds, RegistryTypeOK, Id
    <2>3. QED
      BY <1>5, <1>6, <2>1, <2>2 DEF RegistryInv, LiveIssued
  <1>16. QED
    BY <1>9, <1>10, <1>11, <1>12, <1>13, <1>14, <1>15 DEF RegistryInv

(* begin_scene() leaves no slot in use. *)
LEMMA SceneEmptiesSlots ==
  ASSUME RegistryInv, BeginScene
  PROVE  /\ \A id \in Id : slots'[id] \in Slot /\ EmptySlot(slots'[id])
         /\ LiveIds' = {}
  <1> USE NullObjectAssumption, CapacityAssumption
  <1>1. RegistryTypeOK
    BY DEF RegistryInv
  <1>2. size' = size
    BY DEF BeginScene
  <1>3. \A id \in Id :
          /\ slots'[id] \in Slot
          /\ EmptySlot(slots'[id])
    <2> SUFFICES ASSUME NEW id \in Id
                 PROVE  slots'[id] \in Slot /\ EmptySlot(slots'[id])
      OBVIOUS
    <2>1. slots[id] \in Slot
      BY <1>1 DEF RegistryTypeOK
    <2>2. CASE id <= size
      <3>1. slots'[id] = [slots[id] EXCEPT !.object = NullObject,
                                           !.generation = NextGeneration(@)]
        BY <2>2 DEF BeginScene
      <3>2. QED
        BY <2>1, <3>1, NextGenerationType DEF Slot, EmptySlot
    <2>3. CASE ~(id <= size)
      <3>1. slots'[id] = slots[id]
        BY <2>3 DEF BeginScene
      <3>2. id > size
        BY <1>1, <2>3 DEF RegistryTypeOK, Id
      <3>3. QED
        BY <2>1, <3>1, <3>2 DEF RegistryInv, UnusedFresh, EmptySlot
    <2>4. QED
      BY <2>2, <2>3
  <1>4. LiveIds' = {}
    BY <1>1, <1>2, <1>3 DEF LiveIds, RegistryTypeOK, Id, EmptySlot
  <1>5. QED
    BY <1>3, <1>4

(* An emptied table: what begin_scene() leaves behind. *)
LEMMA BeginSceneInv ==
  ASSUME RegistryInv, BeginScene
  PROVE  RegistryInv'
  <1> USE NullObjectAssumption, CapacityAssumption
  <1>1. RegistryTypeOK
    BY DEF RegistryInv
  <1>2. /\ scene' = scene + 1 /\ scene < MaxScene
        /\ size' = size /\ issued' = issued
        /\ index' = [key \in Kind \X Object |-> 0]
        /\ freeIds' = [i \in 1 .. size |-> i]
        /\ reuse' = [id \in Id |-> 0]
    BY DEF BeginScene
  <1>3. \A id \in Id : slots'[id] \in Slot /\ EmptySlot(slots'[id])
    BY SceneEmptiesSlots
  <1>4. LiveIds' = {}
    BY SceneEmptiesSlots
  <1>5. RegistryTypeOK'
    <2>1. slots' \in [Id -> Slot]
      <3>1. slots' = [id \in Id |-> slots'[id]]
        BY DEF BeginScene
      <3>2. QED
        BY <1>3, <3>1
    <2>2. freeIds' \in Seq(Id)
      <3>1. size \in Nat /\ \A i \in 1 .. size : i \in Id
        BY <1>1 DEF RegistryTypeOK, Id
      <3>2. QED
        BY <1>2, <3>1
    <2>3. scene' \in Scene
      BY <1>1, <1>2, SceneAssumption DEF RegistryTypeOK, Scene
    <2>4. reuse' \in [Id -> 0 .. MaxReuse]
      BY <1>2, GenerationAssumption
    <2>5. index' \in [Kind \X Object -> 0 .. Capacity]
      BY <1>2
    <2>6. QED
      BY <1>1, <1>2, <2>1, <2>2, <2>3, <2>4, <2>5 DEF RegistryTypeOK
  <1>6. IndexSound' /\ LiveInScene' /\ LiveIssued'
    BY <1>2, <1>4 DEF IndexSound, LiveInScene, LiveIssued
  <1>7. FreeListExact'
    <2>1. size \in Nat
      BY <1>1 DEF RegistryTypeOK
    <2>2. Len(freeIds') = size /\ \A i \in 1 .. size : freeIds'[i] = i
      BY <1>2, <2>1
    <2>3. QED
      BY <1>2, <1>4, <2>1, <2>2 DEF FreeListExact
  <1>8. UnusedFresh'
    BY <1>2, <1>3 DEF UnusedFresh, EmptySlot
  <1>9. IssuedTracked'
    <2>1. \A e \in issued : e.handle.id <= size /\ e.handle.scene < scene + 1
      BY <1>1 DEF RegistryInv, IssuedTracked, RegistryTypeOK, Issued, Handle, Scene
    <2>2. \A e \in issued : e.handle.scene \in Nat
      BY <1>1 DEF RegistryTypeOK, Issued, Handle, Scene
    <2>3. \A e \in issued : e.handle.scene <= scene + 1 /\ e.handle.scene # scene + 1
      BY <1>1, <2>1, <2>2 DEF RegistryTypeOK, Scene
    <2>4. QED
      BY <1>2, <2>1, <2>3 DEF IssuedTracked, InForce
  <1>10. QED
    BY <1>5, <1>6, <1>7, <1>8, <1>9 DEF RegistryInv

LEMMA RegistryNextInv ==
  ASSUME RegistryInv, [RegistryNext]_registryVars
  PROVE  RegistryInv'
  <1>1. CASE UNCHANGED registryVars
    <2>1. /\ size' = size /\ slots' = slots /\ index' = index
          /\ freeIds' = freeIds /\ scene' = scene /\ reuse' = reuse
          /\ issued' = issued
      BY <1>1 DEF registryVars
    <2>2. LiveIds' = LiveIds
      BY <2>1 DEF LiveIds, EmptySlot
    <2>3. QED
      BY <2>1, <2>2 DEF RegistryInv, RegistryTypeOK, IndexSound, FreeListExact,
         LiveInScene, UnusedFresh, IssuedTracked, LiveIssued, InForce,
         EmptySlot, HandleOf
  <1>2. CASE \E k \in Kind, o \in Object : Add(k, o)
    BY <1>2, AddInv DEF Add
  <1>3. CASE \E k \in Kind, o \in Object : FindOrAdd(k, o)
    BY <1>1, <1>3, AddInv DEF FindOrAdd
  <1>4. CASE \E e \in issued : Invalidate(e.handle)
    BY <1>4, InvalidateInv
  <1>5. CASE BeginScene
    BY <1>5, BeginSceneInv
  <1>6. QED
    BY <1>1, <1>2, <1>3, <1>4, <1>5 DEF RegistryNext

(* The registry's inductive invariant: every entry point of                *)
(* game_object.cpp keeps the index, the free stack and the issued handles  *)
(* consistent with the slots.                                              *)
THEOREM RegistryInvariant == RegistrySpec => []RegistryInv
  <1>1. RegistryInv /\ [RegistryNext]_registryVars => RegistryInv'
    BY RegistryNextInv
  <1>2. QED
    BY RegistryInitInv, <1>1, PTL DEF RegistrySpec

(* Every variable keeps its type. *)
THEOREM RegistryTyped == RegistrySpec => []RegistryTypeOK
  <1>1. RegistryInv => RegistryTypeOK
    BY DEF RegistryInv
  <1>2. QED
    BY RegistryInvariant, <1>1, PTL

(* An index entry leads to the live slot of the object it is kept for      *)
(* (game_object.cpp:33,105-108), whatever the order of the calls.          *)
THEOREM IndexAlwaysSound == RegistrySpec => []IndexSound
  <1>1. RegistryInv => IndexSound
    BY DEF RegistryInv
  <1>2. QED
    BY RegistryInvariant, <1>1, PTL

(* The free stack is exactly the set of empty slots, each once             *)
(* (game_object.cpp:19-28,114,124-134).                                    *)
THEOREM FreeListAlwaysExact == RegistrySpec => []FreeListExact
  <1>1. RegistryInv => FreeListExact
    BY DEF RegistryInv
  <1>2. QED
    BY RegistryInvariant, <1>1, PTL

-----------------------------------------------------------------------------
(* resolve() answers exactly by whether the handle is in force: the        *)
(* generation alone tells a freed slot's old handle from its new one.      *)
LEMMA ResolveValue ==
  RegistryInv =>
    \A e \in issued : Resolve(e.handle, e.handle.kind) =
                        IF InForce(e) THEN e.object ELSE NullObject
  <1> SUFFICES ASSUME RegistryInv, NEW e \in issued
               PROVE  Resolve(e.handle, e.handle.kind) =
                        IF InForce(e) THEN e.object ELSE NullObject
    OBVIOUS
  <1> USE NullObjectAssumption, CapacityAssumption
  <1> DEFINE h == e.handle
  <1>1. RegistryTypeOK /\ IssuedTracked /\ LiveInScene
    BY DEF RegistryInv
  <1>2. /\ h.id \in Id /\ h.generation \in Generation /\ h.scene \in Scene
        /\ e.object \in Object /\ e.reuse \in 0 .. MaxReuse
        /\ reuse[h.id] \in 0 .. MaxReuse
    BY <1>1 DEF RegistryTypeOK, Issued, Handle
  <1>3. h.id \in 1 .. size
    BY <1>1, <1>2 DEF IssuedTracked, RegistryTypeOK, Id
  <1>4. CASE InForce(e)
    <2>1. slots[h.id].object = e.object /\ slots[h.id].kind = h.kind
      BY <1>1, <1>4 DEF IssuedTracked
    <2>2. h.id \in LiveIds
      BY <1>2, <1>3, <2>1 DEF LiveIds, EmptySlot
    <2>3. slots[h.id].scene = scene /\ h.scene = scene
      BY <1>1, <1>4, <2>2 DEF LiveInScene, InForce
    <2>4. slots[h.id].generation = Advance(h.generation, 0)
      <3>1. reuse[h.id] - e.reuse = 0
        BY <1>2, <1>4, GenerationAssumption DEF InForce
      <3>2. QED
        BY <1>1, <2>3, <3>1 DEF IssuedTracked
    <2>5. Advance(h.generation, 0) = h.generation
      BY <1>2, GenerationAssumption DEF Advance, Generation
    <2>6. QED
      BY <1>2, <1>3, <1>4, <2>1, <2>3, <2>4, <2>5
         DEF Resolve, Matches, EmptySlot
  <1>5. CASE ~InForce(e) /\ h.scene # scene
    BY <1>5 DEF Resolve, Matches
  <1>6. CASE ~InForce(e) /\ h.scene = scene
    <2>1. /\ e.reuse <= reuse[h.id] /\ e.reuse # reuse[h.id]
          /\ slots[h.id].generation =
               Advance(h.generation, reuse[h.id] - e.reuse)
      BY <1>1, <1>6 DEF IssuedTracked, InForce
    <2>2. reuse[h.id] - e.reuse \in 1 .. MaxReuse
      BY <1>2, <2>1, GenerationAssumption
    <2>3. slots[h.id].generation # h.generation
      BY <1>2, <2>1, <2>2, AdvanceDiffers
    <2>4. QED
      BY <1>6, <2>3 DEF Resolve, Matches
  <1>7. QED
    BY <1>4, <1>5, <1>6

(* resolve() never answers with an object the handle was not issued for,   *)
(* whatever kind the caller expects (game_object.cpp:137-150).             *)
THEOREM HandlesResolveToTheirObject == RegistrySpec => []ResolvesToItsObject
  <1>1. RegistryInv => ResolvesToItsObject
    <2> SUFFICES ASSUME RegistryInv, NEW e \in issued, NEW k \in Kind
                 PROVE  Resolve(e.handle, k) \in {e.object, NullObject}
      BY DEF ResolvesToItsObject
    <2>1. CASE k = e.handle.kind
      BY <2>1, ResolveValue
    <2>2. CASE k # e.handle.kind
      BY <2>2 DEF Resolve
    <2>3. QED
      BY <2>1, <2>2
  <1>2. QED
    BY RegistryInvariant, <1>1, PTL

(* No step of the registry puts an outdated handle back in force. *)
LEMMA OutdatedStaysOutdated ==
  ASSUME RegistryInv, [RegistryNext]_registryVars,
         NEW e \in issued, ~InForce(e)
  PROVE  e \in issued' /\ ~InForce(e)'
  <1>1. RegistryTypeOK /\ IssuedTracked
    BY DEF RegistryInv
  <1>2. /\ e.handle.id \in Id /\ e.handle.scene \in Nat /\ e.handle.scene <= scene
        /\ e.reuse \in Nat /\ reuse[e.handle.id] \in Nat /\ scene \in Nat
    BY <1>1, CapacityAssumption, SceneAssumption, GenerationAssumption
       DEF RegistryTypeOK, IssuedTracked, Issued, Handle, Scene
  <1>3. CASE UNCHANGED registryVars
    BY <1>3 DEF registryVars, InForce
  <1>4. ASSUME NEW k \in Kind, NEW o \in Object, AddLocked(k, o)
        PROVE  e \in issued' /\ ~InForce(e)'
    BY <1>4 DEF AddLocked, InForce
  <1>5. ASSUME NEW e0 \in issued, Invalidate(e0.handle)
        PROVE  e \in issued' /\ ~InForce(e)'
    <2>1. /\ issued' = issued /\ scene' = scene
          /\ reuse' = [reuse EXCEPT ![e0.handle.id] = @ + 1]
      BY <1>5 DEF Invalidate
    <2>2. reuse'[e.handle.id] \in {reuse[e.handle.id], reuse[e.handle.id] + 1}
      BY <1>1, <1>2, <2>1 DEF RegistryTypeOK
    <2>3. CASE e.handle.scene # scene
      BY <2>1, <2>3 DEF InForce
    <2>4. CASE e.handle.scene = scene
      <3>1. e.reuse <= reuse[e.handle.id] /\ e.reuse # reuse[e.handle.id]
        BY <1>1, <2>4 DEF IssuedTracked, InForce
      <3>2. e.reuse # reuse'[e.handle.id]
        BY <1>2, <2>2, <3>1
      <3>3. QED
        BY <2>1, <3>2 DEF InForce
    <2>5. QED
      BY <2>3, <2>4
  <1>6. CASE BeginScene
    <2>1. issued' = issued /\ scene' = scene + 1
      BY <1>6 DEF BeginScene
    <2>2. e.handle.scene # scene + 1
      BY <1>2
    <2>3. QED
      BY <2>1, <2>2 DEF InForce
  <1>7. QED
    BY <1>3, <1>4, <1>5, <1>6 DEF RegistryNext, Add, FindOrAdd

(* A handle that stopped resolving never resolves again: IDs may be        *)
(* reused, but an old wrapper never reaches the replacement object.        *)
THEOREM StaleHandlesStayStale == RegistrySpec => StaleStaysStale
  <1>0. (RegistryInv =>
           \A e \in issued : Resolve(e.handle, e.handle.kind) =
                               IF InForce(e) THEN e.object ELSE NullObject)'
    BY ResolveValue, PTL
  <1>1. RegistryInv /\ [RegistryNext]_registryVars =>
          [\A e \in issued :
             Resolve(e.handle, e.handle.kind) = NullObject =>
               Resolve(e.handle, e.handle.kind)' = NullObject]_registryVars
    <2> SUFFICES ASSUME RegistryInv, [RegistryNext]_registryVars,
                        NEW e \in issued,
                        Resolve(e.handle, e.handle.kind) = NullObject
                 PROVE  Resolve(e.handle, e.handle.kind)' = NullObject
      OBVIOUS
    <2>1. e.object \in Object
      BY DEF RegistryInv, RegistryTypeOK, Issued
    <2>2. ~InForce(e)
      BY <2>1, ResolveValue, NullObjectAssumption
    <2>3. e \in issued' /\ ~InForce(e)'
      BY <2>2, OutdatedStaysOutdated
    <2>4. RegistryInv'
      BY RegistryNextInv
    <2>5. RegistryInv' /\ e \in issued' =>
            Resolve(e.handle, e.handle.kind)' =
              IF InForce(e)' THEN e.object ELSE NullObject
      BY <1>0
    <2>6. QED
      BY <2>3, <2>4, <2>5
  <1>2. QED
    BY RegistryInvariant, <1>1, PTL DEF RegistrySpec, StaleStaysStale

-----------------------------------------------------------------------------
(* The refinement: each step of the registry is a step of HandleTable, or  *)
(* changes neither its bindings nor its retired handles.                   *)
BindingOf(id) ==
  [handle |-> HandleOf(id, slots[id]), object |-> slots[id].object]

LEMMA BoundWereIssued ==
  ASSUME RegistryInv
  PROVE  /\ \A id \in LiveIds : \E e \in issued : e.handle = HandleOf(id, slots[id])
         /\ Table!BoundHandles \subseteq {e.handle : e \in issued}
         /\ Table!BoundHandles \cup RetiredHandles = {e.handle : e \in issued}
  <1>1. ASSUME NEW id \in LiveIds
        PROVE  \E e \in issued : e.handle = HandleOf(id, slots[id])
    <2>1. [handle |-> HandleOf(id, slots[id]), object |-> slots[id].object,
           reuse |-> reuse[id]] \in issued
      BY DEF RegistryInv, LiveIssued
    <2>2. QED
      BY <2>1
  <1>2. Table!BoundHandles = {HandleOf(id, slots[id]) : id \in LiveIds}
    <2>1. LiveBindings = {BindingOf(id) : id \in LiveIds}
      BY DEF LiveBindings, BindingOf
    <2>2. \A id : BindingOf(id).handle = HandleOf(id, slots[id])
      BY DEF BindingOf
    <2>3. QED
      BY <2>1, <2>2 DEF Table!BoundHandles
  <1>3. Table!BoundHandles \subseteq {e.handle : e \in issued}
    BY <1>1, <1>2
  <1>4. RetiredHandles = {e.handle : e \in issued} \ Table!BoundHandles
    BY DEF RetiredHandles, Table!BoundHandles
  <1>5. QED
    BY <1>1, <1>3, <1>4

(* A handle add_locked() makes was never returned before. *)
LEMMA AddedHandleFresh ==
  ASSUME RegistryInv, NEW k \in Kind, NEW o \in Object, AddLocked(k, o),
         NEW e \in issued
  PROVE  e.handle # [id |-> TakeId, generation |-> slots[TakeId].generation,
                     scene |-> scene, kind |-> k]
  <1> DEFINE id == TakeId
  <1> SUFFICES ASSUME e.handle.id = id, e.handle.scene = scene,
                      e.handle.generation = slots[id].generation
               PROVE  FALSE
    OBVIOUS
  <1>1. RegistryTypeOK /\ IssuedTracked
    BY DEF RegistryInv
  <1>2. id \in Id /\ EmptySlot(slots[id])
    BY TakenIdEmpty DEF AddLocked
  <1> HIDE DEF id
  <1>3. /\ e.object \in Object /\ e.reuse \in 0 .. MaxReuse
        /\ reuse[id] \in 0 .. MaxReuse /\ e.handle.generation \in Generation
    BY <1>1, <1>2 DEF RegistryTypeOK, Issued, Handle
  <1>4. ~InForce(e)
    BY <1>1, <1>2, <1>3, NullObjectAssumption DEF IssuedTracked, EmptySlot
  <1>5. e.reuse <= reuse[id] /\ e.reuse # reuse[id]
    BY <1>1, <1>4 DEF IssuedTracked, InForce
  <1>6. reuse[id] - e.reuse \in 1 .. MaxReuse
    BY <1>3, <1>5, GenerationAssumption
  <1>7. slots[id].generation # e.handle.generation
    BY <1>1, <1>3, <1>6, AdvanceDiffers DEF IssuedTracked
  <1>8. QED
    BY <1>7

LEMMA AddIssues ==
  ASSUME RegistryInv, NEW k \in Kind, NEW o \in Object, AddLocked(k, o)
  PROVE  Table!TableNext
  <1> USE NullObjectAssumption, CapacityAssumption
  <1> DEFINE id == TakeId
             h  == [id |-> id, generation |-> slots[id].generation,
                    scene |-> scene, kind |-> k]
             b  == [handle |-> h, object |-> o]
  <1>1. RegistryTypeOK
    BY DEF RegistryInv
  <1>2. /\ id \in Id /\ id \notin LiveIds
        /\ freeIds = <<>> => id = size + 1
        /\ freeIds # <<>> => id \in 1 .. size
    BY TakenIdEmpty DEF AddLocked
  <1>3. slots[id] \in Slot /\ h \in Handle /\ b \in Table!Binding
    <2>1. slots[id] \in Slot
      BY <1>1, <1>2 DEF RegistryTypeOK
    <2>2. h \in Handle
      BY <1>1, <1>2, <2>1 DEF RegistryTypeOK, Handle, Slot
    <2>3. QED
      BY <2>1, <2>2 DEF Table!Binding
  <1>4. /\ slots'[id].object = o /\ HandleOf(id, slots'[id]) = h
        /\ \A i \in Id : i # id => slots'[i] = slots[i]
    BY <1>1, <1>2 DEF AddLocked, HandleOf, RegistryTypeOK
  <1>5. \E r : issued' = issued \cup {[handle |-> h, object |-> o, reuse |-> r]}
    BY DEF AddLocked, HandleOf
  <1>6. /\ size' \in 0 .. Capacity /\ size <= size' /\ id <= size'
        /\ freeIds = <<>> => size' = size + 1
        /\ freeIds # <<>> => size' = size
    <2>1. CASE freeIds = <<>>
      BY <1>1, <1>2, <2>1 DEF AddLocked, RegistryTypeOK, Id
    <2>2. CASE freeIds # <<>>
      BY <1>1, <1>2, <2>2 DEF AddLocked, RegistryTypeOK, Id
    <2>3. QED
      BY <2>1, <2>2
  <1>7. \A e \in issued : e.handle # h
    BY AddedHandleFresh
  <1>8. LiveIds' = LiveIds \cup {id}
    <2>1. \A i \in 1 .. size' : i # id => i \in 1 .. size
      BY <1>1, <1>2, <1>6 DEF RegistryTypeOK, Id
    <2>2. \A i \in 1 .. size : i \in 1 .. size' /\ i \in Id
      BY <1>1, <1>6 DEF RegistryTypeOK, Id
    <2>3. id \in 1 .. size'
      BY <1>2, <1>6 DEF Id
    <2>4. QED
      BY <1>4, <2>1, <2>2, <2>3 DEF LiveIds, EmptySlot
  <1> HIDE DEF id, h
  <1>9. LiveBindings' = LiveBindings \cup {b}
    <2>1. \A i \in LiveIds : i \in Id /\ i # id
      BY <1>1, <1>2 DEF LiveIds, RegistryTypeOK, Id
    <2>2. \A i \in LiveIds : slots'[i] = slots[i]
      BY <1>4, <2>1
    <2>3. LiveBindings' =
            {[handle |-> HandleOf(i, slots'[i]), object |-> slots'[i].object] :
               i \in LiveIds \cup {id}}
      BY <1>8 DEF LiveBindings, HandleOf
    <2>4. QED
      BY <1>4, <2>2, <2>3 DEF LiveBindings
  <1>10. RetiredHandles' = RetiredHandles
    <2>1. RetiredHandles' = {e.handle : e \in issued'} \ {c.handle : c \in LiveBindings'}
      BY DEF RetiredHandles
    <2>2. {e.handle : e \in issued'} = {e.handle : e \in issued} \cup {h}
      <3>1. PICK r : issued' = issued \cup {[handle |-> h, object |-> o, reuse |-> r]}
        BY <1>5
      <3> DEFINE new == [handle |-> h, object |-> o, reuse |-> r]
      <3>2. new.handle = h /\ issued' = issued \cup {new}
        BY <3>1
      <3> HIDE DEF new
      <3>3. QED
        BY <3>2
    <2>3. {c.handle : c \in LiveBindings'} = {c.handle : c \in LiveBindings} \cup {h}
      <3>1. b.handle = h
        OBVIOUS
      <3> HIDE DEF b
      <3>2. QED
        BY <1>9, <3>1
    <2>4. h \notin {e.handle : e \in issued}
      BY <1>7
    <2>5. QED
      BY <2>1, <2>2, <2>3, <2>4 DEF RetiredHandles
  <1>11. Table!Issue(b)
    <2>1. b.handle \notin Table!BoundHandles \cup RetiredHandles
      BY <1>7, BoundWereIssued
    <2>2. QED
      BY <1>9, <1>10, <2>1 DEF Table!Issue
  <1>12. QED
    BY <1>3, <1>11 DEF Table!TableNext

LEMMA InvalidateRetires ==
  ASSUME RegistryInv, NEW e0 \in issued, Invalidate(e0.handle)
  PROVE  Table!TableNext
  <1> USE NullObjectAssumption, CapacityAssumption
  <1> DEFINE id == e0.handle.id
             b  == BindingOf(id)
  <1>1. RegistryTypeOK
    BY DEF RegistryInv
  <1>2. id \in LiveIds /\ id \in Id
    BY <1>1 DEF Invalidate, RegistryTypeOK, Id, LiveIds, Matches
  <1>3. /\ slots'[id].object = NullObject
        /\ \A i \in Id : i # id => slots'[i] = slots[i]
        /\ size' = size /\ issued' = issued
    <2>1. slots[id] \in Slot
      BY <1>1, <1>2 DEF RegistryTypeOK
    <2>2. QED
      BY <1>1, <1>2, <2>1 DEF Invalidate, RegistryTypeOK, Slot
  <1> HIDE DEF id
  <1>4. LiveIds' = LiveIds \ {id}
    <2>1. \A i \in 1 .. size : i \in Id
      BY <1>1 DEF RegistryTypeOK, Id
    <2>2. QED
      BY <1>3, <2>1 DEF LiveIds, EmptySlot
  <1>5. LiveBindings' = LiveBindings \ {b}
    <2>1. \A i \in LiveIds : i \in Id
      BY <1>1 DEF LiveIds, RegistryTypeOK, Id
    <2>2. \A i \in LiveIds \ {id} : slots'[i] = slots[i]
      BY <1>3, <2>1
    <2>3. LiveBindings' = {BindingOf(i) : i \in LiveIds \ {id}}
      BY <1>4, <2>2 DEF LiveBindings, HandleOf, BindingOf
    <2>4. LiveBindings = {BindingOf(i) : i \in LiveIds}
      BY DEF LiveBindings, BindingOf
    <2>5. \A i \in LiveIds : BindingOf(i) = b => i = id
      <3>1. \A i : BindingOf(i).handle.id = i
        BY DEF BindingOf, HandleOf
      <3>2. QED
        BY <3>1
    <2>6. QED
      BY <2>3, <2>4, <2>5
  <1>6. b \in LiveBindings
    BY <1>2 DEF LiveBindings, BindingOf
  <1>7. RetiredHandles' = RetiredHandles \cup {b.handle}
    <2>1. RetiredHandles' = {e.handle : e \in issued} \ {c.handle : c \in LiveBindings'}
      BY <1>3 DEF RetiredHandles
    <2>2. b.handle \in {e.handle : e \in issued}
      BY <1>2, BoundWereIssued DEF BindingOf
    <2>3. \A c \in LiveBindings : c.handle = b.handle => c = b
      <3>1. \A c \in LiveBindings : c = BindingOf(c.handle.id)
        BY DEF LiveBindings, BindingOf, HandleOf
      <3>2. QED
        BY <1>6, <3>1
    <2>4. {c.handle : c \in LiveBindings'} = {c.handle : c \in LiveBindings} \ {b.handle}
      BY <1>5, <2>3
    <2>5. QED
      BY <2>1, <2>2, <2>4 DEF RetiredHandles
  <1>8. Table!Retire(b)
    BY <1>5, <1>6, <1>7 DEF Table!Retire
  <1>9. QED
    BY <1>6, <1>8 DEF Table!TableNext

LEMMA BeginSceneRetiresAll ==
  ASSUME RegistryInv, BeginScene
  PROVE  Table!TableNext
  <1>1. LiveIds' = {}
    BY SceneEmptiesSlots
  <1>2. LiveBindings' = {}
    BY <1>1 DEF LiveBindings
  <1>3. RetiredHandles' = {e.handle : e \in issued}
    BY <1>2 DEF BeginScene, RetiredHandles
  <1>4. RetiredHandles' = RetiredHandles \cup Table!BoundHandles
    BY <1>3, BoundWereIssued
  <1>5. QED
    BY <1>2, <1>4 DEF Table!TableNext, Table!RetireAll

(* The registry implements HandleTable: a handle is bound once, when it is *)
(* issued, and is never bound again after invalidate() or begin_scene().   *)
THEOREM RegistryImplementsTable == RegistrySpec => ImplementsTable
  <1>1. RegistryInit => Table!TableInit
    <2> SUFFICES ASSUME RegistryInit PROVE Table!TableInit
      OBVIOUS
    <2>1. LiveIds = {}
      BY DEF RegistryInit, LiveIds
    <2>2. QED
      BY <2>1 DEF Table!TableInit, RegistryInit, LiveBindings, RetiredHandles
  <1>2. RegistryInv /\ [RegistryNext]_registryVars =>
          [Table!TableNext]_(Table!tableVars)
    <2> SUFFICES ASSUME RegistryInv, [RegistryNext]_registryVars
                 PROVE  Table!TableNext \/ UNCHANGED Table!tableVars
      OBVIOUS
    <2>1. CASE UNCHANGED registryVars
      <3>1. /\ size' = size /\ slots' = slots /\ issued' = issued
        BY <2>1 DEF registryVars
      <3>2. LiveBindings' = LiveBindings
        BY <3>1 DEF LiveBindings, LiveIds, EmptySlot, HandleOf
      <3>3. QED
        BY <3>1, <3>2 DEF Table!tableVars, RetiredHandles
    <2>2. CASE \E k \in Kind, o \in Object : Add(k, o)
      BY <2>2, AddIssues DEF Add
    <2>3. CASE \E k \in Kind, o \in Object : FindOrAdd(k, o)
      BY <2>1, <2>3, AddIssues DEF FindOrAdd
    <2>4. CASE \E e \in issued : Invalidate(e.handle)
      BY <2>4, InvalidateRetires
    <2>5. CASE BeginScene
      BY <2>5, BeginSceneRetiresAll
    <2>6. QED
      BY <2>1, <2>2, <2>3, <2>4, <2>5 DEF RegistryNext
  <1>3. QED
    BY RegistryInvariant, <1>1, <1>2, PTL
       DEF RegistrySpec, ImplementsTable, Table!TableSpec

-----------------------------------------------------------------------------
(* The gameplay event handlers: the parts of the inductive invariant.      *)
InPurchase == {"checking", "bought"}
Absent == {"free", "lost"}
Past == {"gone", "rejected", "left"}
AllStages == Settled \cup InGame \cup {"free", "lost", "checking"}
NativeObject == [kind : NativeKind \cup {"none"}, stage : AllStages,
                 serial : 0 .. MaxBirth, announced : Nat, preview : BOOLEAN]
ObjectType == obj \in [Address -> NativeObject]

(* The registry: handles in force and index entries are each other's       *)
(* inverse, and every handle in force is an old one.                       *)
KeyOf(b) == <<b.kind, b.object>>
RegistryOK(r) ==
  /\ r = [live |-> r.live, index |-> r.index, next |-> r.next]
  /\ r.next \in 1 .. (MaxHandle + 1)
  /\ r.index \in [Key -> 0 .. MaxHandle]
  /\ DOMAIN r.live \subseteq 1 .. (r.next - 1)
  /\ \A h \in DOMAIN r.live :
       KeyOf(r.live[h]) \in Key /\ r.index[KeyOf(r.live[h])] = h
  /\ \A key \in Key : r.index[key] # 0 =>
       r.index[key] \in DOMAIN r.live /\ KeyOf(r.live[r.index[key]]) = key

(* A handle in force for an address names what lives there. *)
NamesLive(r, o) ==
  \A h \in DOMAIN r.live : r.live[h].object \in Address =>
    /\ o[r.live[h].object].kind = r.live[h].kind
    /\ o[r.live[h].object].serial = r.live[h].serial
    /\ o[r.live[h].object].stage \notin Past

RestType ==
  /\ match \in 0 .. MaxHandle
  /\ round \in 0 .. MaxHandle
  /\ purchased \in Address \cup {NoObject}
  /\ vetoed \in Address \cup {NoObject}
  /\ phase \in {"menu", "init", "play", "uninit"}
  /\ births \in 0 .. MaxBirth
  /\ matches \in Nat

(* The game's objects: a place without an object has no kind, only towers  *)
(* are previews, and in the menus nothing of a match is in the game.       *)
ObjectsOK ==
  \A a \in Address :
    /\ obj[a].stage \in Absent => obj[a].kind = "none"
    /\ obj[a].stage \notin Absent => obj[a].kind \in NativeKind
    /\ obj[a].preview = TRUE => obj[a].kind = "Tower"
    /\ phase = "menu" => obj[a].stage \notin InGame
    /\ obj[a].stage \in InPurchase => phase = "play"

(* The purchase path: one purchase at a time, its tower a preview that was *)
(* announced, or refused by the mods and remembered as such.               *)
PurchaseOK ==
  /\ \A a, b \in Address :
       obj[a].stage \in InPurchase /\ obj[b].stage \in InPurchase => a = b
  /\ \A a \in Address :
       /\ obj[a].stage \in InPurchase => call.event = "none"
       /\ obj[a].stage = "bought" =>
            obj[a].announced = 1 /\ purchased = a
       /\ obj[a].stage = "checking" =>
            \/ vetoed = a /\ obj[a].announced = 0
            \/ purchased = a /\ obj[a].announced = 1
       /\ obj[a].preview = TRUE /\ obj[a].stage = "new" => obj[a].announced = 0
       /\ obj[a].preview = TRUE /\ obj[a].stage \in InGame => obj[a].announced = 1

(* The event being delivered, and what its return relies on. *)
Delivering ==
  /\ call = [event |-> call.event, kind |-> call.kind, object |-> call.object,
             handle |-> call.handle, flag |-> call.flag]
  /\ call.flag \in BOOLEAN
  /\ call.event = "none" => call = NoCall
  /\ call.event = "match.ended" =>
       registry.live = <<>> /\ \A key \in Key : registry.index[key] = 0
  /\ call.event # "none" /\ call.event # "match.ended" /\ call.handle # 0 =>
       /\ <<call.kind, call.object>> \in Key
       /\ registry.index[<<call.kind, call.object>>] = call.handle
  /\ call.event \in {"round", "round.ended"} =>
       call.kind = "Round" /\ call.object = Receiver /\ call.handle = round

(* An event about an object at an address. *)
ObjectCall ==
  /\ call.event = "destroyed" =>
       /\ call.kind \in Constructed /\ call.object \in Address
       /\ call.kind \in NativeKind /\ call.handle # 0
  /\ \A row \in ObjectEvents : call.event = row.event =>
       /\ call.object \in Address /\ call.kind = row.kind /\ call.handle # 0
       /\ obj[call.object].kind = row.kind /\ obj[call.object].stage \in row.from
       /\ phase = "play"
  /\ call.event = "bloon.spawning" =>
       /\ call.object \in Address /\ call.kind = "Bloon" /\ call.handle # 0
       /\ obj[call.object].kind = "Bloon" /\ obj[call.object].stage = "new"
       /\ phase = "play"
  /\ call.event = "tower.placing" =>
       /\ call.object \in Address /\ call.kind = "Tower" /\ call.handle # 0
       /\ obj[call.object].kind = "Tower" /\ obj[call.object].stage = "new"
       /\ phase \in {"init", "play"}
       /\ call.flag = TRUE => obj[call.object].preview = TRUE /\ phase = "play"
       /\ call.flag = FALSE => obj[call.object].preview = FALSE

(* round_ is the handle the receiver is indexed by, until match.ended has  *)
(* been delivered.                                                         *)
RoundIndexed ==
  call.event # "match.ended" => registry.index[<<"Round", Receiver>>] = round

(* The ledger. *)
LedgerType ==
  /\ DOMAIN watched \subseteq Address
  /\ DOMAIN outstanding \subseteq Address
  /\ \A a \in DOMAIN watched :
       /\ watched[a] \in NativeKind
       /\ a \in DOMAIN outstanding /\ outstanding[a] = watched[a]
  /\ captured \in [NativeKind -> Nat]
  /\ fates \in [NativeKind -> [destroyed : Nat, reused : Nat]]
  /\ phase # "menu" => DOMAIN watched = {}
Watching(w, k) == {a \in DOMAIN w : w[a] = k}
LedgerAdds ==
  \A k \in NativeKind :
    captured[k] = fates[k].destroyed + fates[k].reused
                    + Cardinality(Watching(watched, k))

EventsInv ==
  /\ RegistryOK(registry)
  /\ ObjectType
  /\ RestType
  /\ NamesLive(registry, obj)
  /\ ObjectsOK
  /\ PurchaseOK
  /\ Delivering
  /\ ObjectCall
  /\ RoundIndexed
  /\ LedgerType
  /\ LedgerAdds

-----------------------------------------------------------------------------
(* Keys.  Kinds and addresses are read off a key, and the scene's own keys *)
(* are no native object's.                                                 *)
LEMMA Keys ==
  /\ \A k \in NativeKind, a \in Address : <<k, a>> \in Key
  /\ <<"Match", Screen>> \in Key
  /\ <<"Round", Receiver>> \in Key
  /\ <<"Player", Lives>> \in Key
  /\ \A k : \A a \in Address : <<k, a>> \in Key => k \in NativeKind
  /\ Screen \notin Address /\ Receiver \notin Address /\ Lives \notin Address
  /\ "Round" \notin NativeKind /\ "none" \notin NativeKind
<1>1. Screen \notin Address /\ Receiver \notin Address /\ Lives \notin Address
  BY AddressAssumption
<1> QED  BY <1>1, NativeKindAssumption DEF Key, Screen, Receiver, Lives

LEMMA EmptyFunction == DOMAIN <<>> = {}
  OBVIOUS

(* add() of an untracked object: one more handle in force, and its index   *)
(* entry; the old ones stay.                                               *)
LEMMA AddToFacts ==
  ASSUME NEW r, RegistryOK(r), r.next <= MaxHandle,
         NEW k, NEW o, NEW n, <<k, o>> \in Key, r.index[<<k, o>>] = 0
  PROVE  /\ RegistryOK(AddTo(r, k, o, n))
         /\ AddTo(r, k, o, n).index = [r.index EXCEPT ![<<k, o>>] = r.next]
         /\ AddTo(r, k, o, n).next = r.next + 1
         /\ DOMAIN AddTo(r, k, o, n).live = DOMAIN r.live \cup {r.next}
         /\ \A h \in DOMAIN r.live : AddTo(r, k, o, n).live[h] = r.live[h]
         /\ AddTo(r, k, o, n).live[r.next] =
              Binding(k, o, n)
<1> DEFINE b == Binding(k, o, n)
           s == AddTo(r, k, o, n)
<1>1. s.live = Overlay([h \in {r.next} |-> b], r.live) /\ s.next = r.next + 1
      /\ s.index = [r.index EXCEPT ![<<k, o>>] = r.next]
      /\ s = [live |-> s.live, index |-> s.index, next |-> s.next]
  BY DEF AddTo
<1>2. b.kind = k /\ b.object = o
  BY DEF Binding
<1> HIDE DEF s, b
<1>3. /\ r.next \in Nat \ {0} /\ r.next \notin DOMAIN r.live
      /\ r.index \in [Key -> 0 .. MaxHandle] /\ MaxHandle \in Nat
  BY BoundsAssumption DEF RegistryOK
<1>4. /\ DOMAIN s.live = DOMAIN r.live \cup {r.next}
      /\ \A h \in DOMAIN r.live : s.live[h] = r.live[h]
      /\ s.live[r.next] = b
  BY <1>1, <1>3 DEF Overlay
<1>5. s.index \in [Key -> 0 .. MaxHandle]
  BY <1>1, <1>3
<1>6. \A key \in Key : s.index[key] = IF key = <<k, o>> THEN r.next ELSE r.index[key]
  BY <1>1, <1>3
<1>7. s.next \in 1 .. (MaxHandle + 1) /\ DOMAIN s.live \subseteq 1 .. (s.next - 1)
  BY <1>1, <1>3, <1>4 DEF RegistryOK
<1>8. ASSUME NEW h \in DOMAIN s.live
      PROVE  KeyOf(s.live[h]) \in Key /\ s.index[KeyOf(s.live[h])] = h
  <2>1. CASE h = r.next
    BY <2>1, <1>4, <1>2, <1>6 DEF KeyOf
  <2>2. CASE h \in DOMAIN r.live
    <3>1. KeyOf(r.live[h]) \in Key /\ r.index[KeyOf(r.live[h])] = h /\ h # 0
      BY <2>2 DEF RegistryOK
    <3> QED  BY <3>1, <2>2, <1>4, <1>6
  <2> QED  BY <2>1, <2>2, <1>4
<1>9. ASSUME NEW key \in Key, s.index[key] # 0
      PROVE  s.index[key] \in DOMAIN s.live /\ KeyOf(s.live[s.index[key]]) = key
  <2>1. CASE key = <<k, o>>
    BY <2>1, <1>2, <1>4, <1>6 DEF KeyOf
  <2>2. CASE key # <<k, o>>
    BY <2>2, <1>4, <1>6, <1>9 DEF RegistryOK
  <2> QED  BY <2>1, <2>2
<1> QED  BY <1>1, <1>4, <1>5, <1>7, <1>8, <1>9 DEF RegistryOK, s, b

(* invalidate(): that handle and its index entry go, nothing else. *)
LEMMA InvalidateFacts ==
  ASSUME NEW r, RegistryOK(r), NEW h
  PROVE  /\ RegistryOK(InvalidateIn(r, h))
         /\ InvalidateIn(r, h).next = r.next
         /\ DOMAIN InvalidateIn(r, h).live = DOMAIN r.live \ {h}
         /\ \A g \in DOMAIN r.live \ {h} : InvalidateIn(r, h).live[g] = r.live[g]
         /\ \A key \in Key : InvalidateIn(r, h).index[key] =
                               IF r.index[key] = h THEN 0 ELSE r.index[key]
<1> DEFINE s == InvalidateIn(r, h)
           old == KeyOf(r.live[h])
<1>0. r.index \in [Key -> 0 .. MaxHandle] /\ 0 \notin DOMAIN r.live
  BY DEF RegistryOK
<1>1. CASE h \notin DOMAIN r.live
  <2>1. s = r
    BY <1>1 DEF InvalidateIn
  <2>2. \A key \in Key : r.index[key] = h => r.index[key] = 0
    BY <1>1 DEF RegistryOK
  <2> QED  BY <2>1, <2>2, <1>1
<1>2. CASE h \in DOMAIN r.live
  <2>1. /\ s.live = [g \in DOMAIN r.live \ {h} |-> r.live[g]]
        /\ s.index = [r.index EXCEPT ![old] = IF r.index[old] = h THEN 0 ELSE r.index[old]]
        /\ s.next = r.next
        /\ s = [live |-> s.live, index |-> s.index, next |-> s.next]
    BY <1>2 DEF InvalidateIn, Restrict, KeyOf, RegistryOK
  <2>2. old \in Key /\ r.index[old] = h
    BY <1>2 DEF RegistryOK
  <2> HIDE DEF s, old
  <2>3. \A key \in Key : r.index[key] = h => key = old
    BY <1>2, <1>0 DEF RegistryOK, old
  <2>4. \A key \in Key : s.index[key] = IF r.index[key] = h THEN 0 ELSE r.index[key]
    BY <2>1, <2>2, <2>3, <1>0
  <2>5. s.index \in [Key -> 0 .. MaxHandle]
    BY <2>1, <2>2, <1>0, BoundsAssumption
  <2>6. DOMAIN s.live = DOMAIN r.live \ {h} /\ \A g \in DOMAIN r.live \ {h} : s.live[g] = r.live[g]
    BY <2>1
  <2>7. \A g \in DOMAIN s.live : KeyOf(s.live[g]) \in Key /\ s.index[KeyOf(s.live[g])] = g
    BY <2>4, <2>6 DEF RegistryOK
  <2>8. \A key \in Key : s.index[key] # 0 =>
          s.index[key] \in DOMAIN s.live /\ KeyOf(s.live[s.index[key]]) = key
    BY <2>4, <2>6 DEF RegistryOK
  <2>9. RegistryOK(s)
    BY <2>1, <2>5, <2>6, <2>7, <2>8 DEF RegistryOK
  <2> QED  BY <2>9, <2>1, <2>4, <2>6 DEF s
<1> QED  BY <1>1, <1>2

(* begin_scene(): no handle stays in force. *)
LEMMA SceneFacts ==
  ASSUME NEW r, RegistryOK(r)
  PROVE  /\ RegistryOK(SceneBegunIn(r))
         /\ SceneBegunIn(r).next = r.next
         /\ SceneBegunIn(r).live = <<>>
         /\ DOMAIN SceneBegunIn(r).live = {}
         /\ \A key \in Key : SceneBegunIn(r).index[key] = 0
<1> DEFINE s == SceneBegunIn(r)
<1>1. /\ s.live = <<>> /\ s.index = [key \in Key |-> 0] /\ s.next = r.next
      /\ s = [live |-> s.live, index |-> s.index, next |-> s.next]
  BY DEF SceneBegunIn, RegistryOK
<1> HIDE DEF s
<1>2. DOMAIN s.live = {}
  BY <1>1, EmptyFunction
<1>3. RegistryOK(s)
  BY <1>1, <1>2, BoundsAssumption DEF RegistryOK
<1> QED  BY <1>1, <1>2, <1>3 DEF s

(* find_or_add(): the object has a handle afterwards, its own if it had    *)
(* one; other objects keep theirs.                                         *)
LEMMA FindOrAddToFacts ==
  ASSUME NEW r, RegistryOK(r), r.next <= MaxHandle,
         NEW k, NEW o, <<k, o>> \in Key
  PROVE  /\ RegistryOK(FindOrAddTo(r, k, o))
         /\ FindOrAddTo(r, k, o).index[<<k, o>>] # 0
         /\ \A key \in Key : r.index[key] # 0 \/ key # <<k, o>> =>
              FindOrAddTo(r, k, o).index[key] = r.index[key]
         /\ \A h \in DOMAIN FindOrAddTo(r, k, o).live :
              \/ /\ h \in DOMAIN r.live
                 /\ FindOrAddTo(r, k, o).live[h] = r.live[h]
              \/ FindOrAddTo(r, k, o).live[h] =
                   Binding(k, o, Serial(o))
         /\ r.index[<<k, o>>] = 0 => FindOrAddTo(r, k, o).index[<<k, o>>] = r.next
<1>1. CASE r.index[<<k, o>>] # 0
  BY <1>1 DEF FindOrAddTo
<1>2. CASE r.index[<<k, o>>] = 0
  <2> DEFINE s == AddTo(r, k, o, Serial(o))
  <2>1. FindOrAddTo(r, k, o) = s
    BY <1>2 DEF FindOrAddTo
  <2>2. /\ RegistryOK(s)
        /\ s.index = [r.index EXCEPT ![<<k, o>>] = r.next]
        /\ DOMAIN s.live = DOMAIN r.live \cup {r.next}
        /\ \A h \in DOMAIN r.live : s.live[h] = r.live[h]
        /\ s.live[r.next] = Binding(k, o, Serial(o))
    BY <1>2, AddToFacts
  <2> HIDE DEF s
  <2>3. r.index \in [Key -> 0 .. MaxHandle] /\ r.next # 0
    BY DEF RegistryOK
  <2> QED  BY <1>2, <2>1, <2>2, <2>3
<1> QED  BY <1>1, <1>2

(* An object at an address has at most the handle its index entry gives.  *)
LEMMA OnlyHandle ==
  ASSUME NEW r, NEW o, RegistryOK(r), NamesLive(r, o),
         NEW h \in DOMAIN r.live, NEW a \in Address, r.live[h].object = a
  PROVE  /\ r.index[<<o[a].kind, a>>] = h /\ h # 0
         /\ <<o[a].kind, a>> \in Key /\ o[a].kind \in NativeKind
         /\ o[a].kind = r.live[h].kind
<1>1. r.live[h].kind = o[a].kind
  BY DEF NamesLive
<1>2. KeyOf(r.live[h]) = <<o[a].kind, a>>
  BY <1>1 DEF KeyOf
<1>3. h # 0 /\ KeyOf(r.live[h]) \in Key /\ r.index[KeyOf(r.live[h])] = h
  BY DEF RegistryOK
<1> QED  BY <1>1, <1>2, <1>3, Keys

(* Fewer handles in force, the same objects. *)
LEMMA NamesAfterInvalidate ==
  ASSUME NEW r, NEW o, RegistryOK(r), NamesLive(r, o), NEW h
  PROVE  NamesLive(InvalidateIn(r, h), o)
<1>1. /\ DOMAIN InvalidateIn(r, h).live = DOMAIN r.live \ {h}
      /\ \A g \in DOMAIN r.live \ {h} : InvalidateIn(r, h).live[g] = r.live[g]
  BY InvalidateFacts
<1> QED  BY <1>1 DEF NamesLive

(* object_event() of an object that lives, or of one of the scene's own. *)
LEMMA NamesAfterFind ==
  ASSUME NEW r, RegistryOK(r), r.next <= MaxHandle, NamesLive(r, obj),
         NEW k, NEW o, <<k, o>> \in Key,
         o \in Address => obj[o].kind = k /\ obj[o].stage \notin Past
  PROVE  NamesLive(FindOrAddTo(r, k, o), obj)
<1> DEFINE s == FindOrAddTo(r, k, o)
<1>1. \A h \in DOMAIN s.live :
        \/ h \in DOMAIN r.live /\ s.live[h] = r.live[h]
        \/ s.live[h] = Binding(k, o, Serial(o))
  BY FindOrAddToFacts
<1> HIDE DEF s
<1>2. SUFFICES ASSUME NEW h \in DOMAIN s.live, s.live[h].object \in Address
               PROVE  /\ obj[s.live[h].object].kind = s.live[h].kind
                      /\ obj[s.live[h].object].serial = s.live[h].serial
                      /\ obj[s.live[h].object].stage \notin Past
  BY DEF NamesLive, s
<1>3. CASE h \in DOMAIN r.live /\ s.live[h] = r.live[h]
  BY <1>2, <1>3 DEF NamesLive
<1>4. CASE s.live[h] = Binding(k, o, Serial(o))
  BY <1>2, <1>4 DEF Binding, Serial
<1> QED  BY <1>1, <1>2, <1>3, <1>4

(* A step of one object. *)
LEMMA StageFacts ==
  ASSUME ObjectType, NEW a \in Address, NEW stage \in AllStages, SetStage(a, stage)
  PROVE  /\ ObjectType'
         /\ obj'[a].stage = stage
         /\ \A b \in Address :
              /\ b # a => obj'[b].stage = obj[b].stage
              /\ obj'[b].kind = obj[b].kind
              /\ obj'[b].serial = obj[b].serial
              /\ obj'[b].announced = obj[b].announced
              /\ obj'[b].preview = obj[b].preview
  BY DEF ObjectType, NativeObject, SetStage

LEMMA AnnouncedFacts ==
  ASSUME ObjectType, NEW a \in Address, NEW stage \in AllStages, NEW count \in Nat,
         SetAnnounced(a, stage, count)
  PROVE  /\ ObjectType'
         /\ obj'[a].stage = stage /\ obj'[a].announced = count
         /\ \A b \in Address :
              /\ b # a => obj'[b].stage = obj[b].stage /\ obj'[b].announced = obj[b].announced
              /\ obj'[b].kind = obj[b].kind
              /\ obj'[b].serial = obj[b].serial
              /\ obj'[b].preview = obj[b].preview
<1>1. obj' = [obj EXCEPT ![a] = [obj[a] EXCEPT !.stage = stage, !.announced = count]]
  BY DEF SetAnnounced
<1>2. obj[a] \in NativeObject /\ obj \in [Address -> NativeObject]
  BY DEF ObjectType
<1> DEFINE n == [obj[a] EXCEPT !.stage = stage, !.announced = count]
<1>3. /\ n \in NativeObject /\ n.stage = stage /\ n.announced = count
      /\ n.kind = obj[a].kind /\ n.serial = obj[a].serial /\ n.preview = obj[a].preview
  BY <1>2 DEF NativeObject
<1> HIDE DEF n
<1>4. obj' = [obj EXCEPT ![a] = n]
  BY <1>1 DEF n
<1>5. obj'[a] = n /\ \A b \in Address : b # a => obj'[b] = obj[b]
  BY <1>4, <1>2
<1>6. ObjectType'
  BY <1>4, <1>3, <1>2 DEF ObjectType
<1> QED  BY <1>3, <1>5, <1>6

(* An object goes, or a new one comes. *)
LEMMA ReplaceFacts ==
  ASSUME ObjectType, NEW a \in Address, NEW new \in NativeObject,
         obj' = [obj EXCEPT ![a] = new]
  PROVE  /\ ObjectType'
         /\ obj'[a] = new
         /\ \A b \in Address : b # a => obj'[b] = obj[b]
  BY DEF ObjectType

LEMMA NothingType == Nothing \in NativeObject
  BY BoundsAssumption DEF Nothing, NativeObject, AllStages

(* A tracked object has not had its terminal event. *)
LEMMA TrackedLives ==
  ASSUME RegistryOK(registry), NamesLive(registry, obj), NEW a \in Address, NEW k,
         <<k, a>> \in Key, registry.index[<<k, a>>] # 0
  PROVE  obj[a].stage \notin Past /\ obj[a].kind = k
<1> DEFINE h == registry.index[<<k, a>>]
<1>1. h \in DOMAIN registry.live /\ KeyOf(registry.live[h]) = <<k, a>>
  BY DEF RegistryOK
<1>2. registry.live[h].object = a /\ registry.live[h].kind = k
  BY <1>1 DEF KeyOf
<1> QED  BY <1>1, <1>2 DEF NamesLive

-----------------------------------------------------------------------------
(* The ledger's counts. *)
LEMMA WatchingFinite ==
  ASSUME NEW w, DOMAIN w \subseteq Address, NEW k
  PROVE  IsFiniteSet(Watching(w, k)) /\ Cardinality(Watching(w, k)) \in Nat
<1>1. Watching(w, k) \subseteq Address
  BY DEF Watching
<1>2. IsFiniteSet(Watching(w, k))
  BY <1>1, AddressAssumption, FS_Subset
<1> QED  BY <1>2, FS_CardinalityType

(* destroyed() and constructed(): a watched object moves from the watch    *)
(* set to its fate, and nothing else moves.                                *)
LEMMA BoundaryFacts ==
  ASSUME LedgerType, LedgerAdds, NEW a \in Address, NEW fate \in {"destroyed", "reused"},
         LedgerBoundary(a, fate), phase' = phase
  PROVE  LedgerType' /\ LedgerAdds'
<1>1. /\ watched' = [x \in DOMAIN watched \ {a} |-> watched[x]]
      /\ outstanding' = [x \in DOMAIN outstanding \ {a} |-> outstanding[x]]
      /\ captured' = captured
      /\ fates' = IF a \in DOMAIN watched
                  THEN [fates EXCEPT ![watched[a]][fate] = fates[watched[a]][fate] + 1]
                  ELSE fates
  BY DEF LedgerBoundary, Forget, Restrict
<1>2. fates \in [NativeKind -> [destroyed : Nat, reused : Nat]]
      /\ \A x \in DOMAIN watched : watched[x] \in NativeKind
  BY DEF LedgerType
<1>3. a \in DOMAIN watched =>
        /\ fates' \in [NativeKind -> [destroyed : Nat, reused : Nat]]
        /\ fates'[watched[a]].destroyed + fates'[watched[a]].reused
             = fates[watched[a]].destroyed + fates[watched[a]].reused + 1
        /\ \A k \in NativeKind : k # watched[a] => fates'[k] = fates[k]
  <2> SUFFICES ASSUME a \in DOMAIN watched
               PROVE  /\ fates' \in [NativeKind -> [destroyed : Nat, reused : Nat]]
                      /\ fates'[watched[a]].destroyed + fates'[watched[a]].reused
                           = fates[watched[a]].destroyed + fates[watched[a]].reused + 1
                      /\ \A k \in NativeKind : k # watched[a] => fates'[k] = fates[k]
    OBVIOUS
  <2> DEFINE old == fates[watched[a]]
             new == [old EXCEPT ![fate] = old[fate] + 1]
  <2>1. old \in [destroyed : Nat, reused : Nat] /\ watched[a] \in NativeKind
    BY <1>2
  <2>2. new \in [destroyed : Nat, reused : Nat]
        /\ new.destroyed + new.reused = old.destroyed + old.reused + 1
    <3>1. CASE fate = "destroyed"
      BY <3>1, <2>1
    <3>2. CASE fate = "reused"
      BY <3>2, <2>1
    <3> QED  BY <3>1, <3>2
  <2>3. fates' = [fates EXCEPT ![watched[a]] = new]
    BY <1>1
  <2> HIDE DEF new
  <2> QED  BY <2>1, <2>2, <2>3, <1>2
<1>4. LedgerType'
  BY <1>1, <1>2, <1>3 DEF LedgerType
<1>5. ASSUME NEW k \in NativeKind
      PROVE  captured'[k] = fates'[k].destroyed + fates'[k].reused
                              + Cardinality(Watching(watched', k))
  <2>1. captured[k] = fates[k].destroyed + fates[k].reused + Cardinality(Watching(watched, k))
    BY DEF LedgerAdds
  <2>2. IsFiniteSet(Watching(watched, k)) /\ Cardinality(Watching(watched, k)) \in Nat
    BY WatchingFinite DEF LedgerType
  <2>3. fates[k] \in [destroyed : Nat, reused : Nat]
    BY <1>2
  <2>4. CASE a \in DOMAIN watched /\ watched[a] = k
    <3>1. Watching(watched', k) = Watching(watched, k) \ {a} /\ a \in Watching(watched, k)
      BY <1>1, <2>4 DEF Watching
    <3>2. Cardinality(Watching(watched', k)) = Cardinality(Watching(watched, k)) - 1
      BY <3>1, <2>2, FS_RemoveElement
    <3>3. fates'[k].destroyed + fates'[k].reused = fates[k].destroyed + fates[k].reused + 1
      BY <2>4, <1>3
    <3>4. fates'[k] \in [destroyed : Nat, reused : Nat]
      BY <2>4, <1>3
    <3> QED  BY <3>2, <3>3, <3>4, <2>1, <2>2, <2>3, <1>1
  <2>5. CASE ~(a \in DOMAIN watched /\ watched[a] = k)
    <3>1. Watching(watched', k) = Watching(watched, k)
      BY <1>1, <2>5 DEF Watching
    <3>2. fates'[k] = fates[k]
      BY <2>5, <1>1, <1>3
    <3> QED  BY <3>1, <3>2, <2>1, <1>1
  <2> QED  BY <2>4, <2>5
<1> QED  BY <1>4, <1>5 DEF LedgerAdds

(* settle(): the counts start again, from nothing watched. *)
LEMMA SettleFacts ==
  ASSUME LedgerType, Settle
  PROVE  LedgerType' /\ LedgerAdds'
<1>1. DOMAIN watched' = {}
  BY EmptyFunction DEF Settle
<1>2. ASSUME NEW k \in NativeKind
      PROVE  captured'[k] = fates'[k].destroyed + fates'[k].reused
                              + Cardinality(Watching(watched', k))
  <2>1. Watching(watched', k) = {}
    BY <1>1 DEF Watching
  <2>2. captured'[k] = 0 /\ fates'[k] = [destroyed |-> 0, reused |-> 0]
    BY DEF Settle
  <2> QED  BY <2>1, <2>2, FS_EmptySet
<1>3. LedgerType'
  BY <1>1 DEF LedgerType, Settle
<1> QED  BY <1>2, <1>3 DEF LedgerAdds

(* capture() at the end of a match: with nothing watched before, every     *)
(* object still tracked is counted once under its kind.                    *)
LEMMA CaptureFacts ==
  ASSUME LedgerType, LedgerAdds, DOMAIN watched = {}, Capture, phase' = "menu"
  PROVE  LedgerType' /\ LedgerAdds'
<1> DEFINE found == [a \in Survivors |-> SurvivorKind(a)]
<1>1. /\ watched' = Overlay(found, watched)
      /\ outstanding' = Overlay(found, outstanding)
      /\ captured' = [k \in NativeKind |->
           captured[k] + Cardinality({a \in Survivors : found[a] = k})]
      /\ fates' = fates
  BY DEF Capture
<1>2. DOMAIN found = Survivors /\ Survivors \subseteq Address
  BY DEF Survivors
<1>3. ASSUME NEW a \in Survivors
      PROVE  found[a] \in NativeKind
  BY <1>2 DEF Survivors, SurvivorKind
<1> HIDE DEF found
<1>4. DOMAIN watched' = Survivors /\ \A a \in Survivors : watched'[a] = found[a]
  BY <1>1, <1>2 DEF Overlay
<1>5. /\ DOMAIN outstanding' = Survivors \cup DOMAIN outstanding
      /\ \A a \in Survivors : outstanding'[a] = found[a]
  BY <1>1, <1>2 DEF Overlay
<1>6. ASSUME NEW k \in NativeKind
      PROVE  /\ captured'[k] \in Nat
             /\ captured'[k] = fates'[k].destroyed + fates'[k].reused
                              + Cardinality(Watching(watched', k))
  <2>1. Watching(watched', k) = {a \in Survivors : found[a] = k}
    BY <1>4 DEF Watching
  <2>2. Cardinality(Watching(watched', k)) \in Nat
    BY WatchingFinite, <1>4, <1>2
  <2>3. captured[k] \in Nat /\ fates[k] \in [destroyed : Nat, reused : Nat]
    BY DEF LedgerType
  <2>4. Watching(watched, k) = {}
    BY DEF Watching
  <2>5. captured[k] = fates[k].destroyed + fates[k].reused
    <3>1. captured[k] = fates[k].destroyed + fates[k].reused
                          + Cardinality(Watching(watched, k))
      BY DEF LedgerAdds
    <3>2. Cardinality(Watching(watched, k)) = 0
      BY <2>4, FS_EmptySet
    <3> QED  BY <3>1, <3>2, <2>3
  <2>6. captured'[k] = captured[k] + Cardinality(Watching(watched', k))
    BY <1>1, <2>1
  <2> QED  BY <2>2, <2>3, <2>5, <2>6, <1>1
<1>7. captured' \in [NativeKind -> Nat]
  BY <1>1, <1>6
<1>8. LedgerType'
  BY <1>1, <1>2, <1>3, <1>4, <1>5, <1>7 DEF LedgerType
<1> QED  BY <1>6, <1>8 DEF LedgerAdds

(* The events of towers and bloons: which stages they start from, and that *)
(* only a terminal one leads out of the game.                              *)
OtherEvents == {"none", "match.starting", "match.started", "match.ending",
                "match.ended", "round", "round.ended", "lives", "created",
                "destroyed", "bloon.spawning", "tower.placing"}
RowOK(row) ==
  /\ row.event \notin OtherEvents
  /\ row.kind \in {"Tower", "Bloon"}
  /\ row.from \subseteq InGame \cup {"new"}
  /\ row.from \cap InPurchase = {}
  /\ row.kind = "Tower" => row.from \subseteq InGame
  /\ row.to \in InGame \cup {"gone"} /\ row.to \notin InPurchase
  /\ row.back \subseteq {"placed", "live"}
  /\ \/ row.terminal = FALSE /\ row.to # "gone"
     \/ row.terminal = TRUE /\ row.to = "gone" /\ row.back = {}
RowOf(e) ==
  CASE e = "tower.upgrading" -> Upgrading
    [] e = "tower.selling"   -> Selling
    [] e = "bloon.popping"   -> Popping
    [] e = "bloon.leaking"   -> Leaking
    [] e = "tower.placed"   -> Row("tower.placed",   "Tower", {"owned"},     "placed", {}, FALSE)
    [] e = "tower.upgraded" -> Row("tower.upgraded", "Tower", {"upgrading"}, "placed", {}, FALSE)
    [] e = "tower.sold"     -> Row("tower.sold",     "Tower", {"selling"},   "gone",   {}, TRUE)
    [] e = "bloon.spawned"  -> Row("bloon.spawned", "Bloon", {"owned", "new"}, "live", {}, FALSE)
    [] e = "bloon.popped"   -> Row("bloon.popped",  "Bloon", {"popping"},      "gone", {}, TRUE)
    [] e = "bloon.leaked"   -> Row("bloon.leaked",  "Bloon", {"leaking"},      "gone", {}, TRUE)
LEMMA Rows ==
  /\ \A row \in ObjectEvents : RowOK(row)
  /\ \A r1, r2 \in ObjectEvents : r1.event = r2.event => r1 = r2
<1> USE DEF Row, Upgrading, Selling, Popping, Leaking
<1>1. ASSUME NEW row \in {Upgrading, Selling, Popping, Leaking}
      PROVE  RowOK(row) /\ row = RowOf(row.event)
  <2>1. CASE row = Upgrading
    BY <2>1 DEF RowOK, OtherEvents, InGame, InPurchase, RowOf
  <2>2. CASE row = Selling
    BY <2>2 DEF RowOK, OtherEvents, InGame, InPurchase, RowOf
  <2>3. CASE row = Popping
    BY <2>3 DEF RowOK, OtherEvents, InGame, InPurchase, RowOf
  <2>4. CASE row = Leaking
    BY <2>4 DEF RowOK, OtherEvents, InGame, InPurchase, RowOf
  <2> QED  BY <2>1, <2>2, <2>3, <2>4
<1>2. ASSUME NEW row \in TowerReports
      PROVE  RowOK(row) /\ row = RowOf(row.event)
  <2>1. CASE row = Row("tower.placed",   "Tower", {"owned"},     "placed", {}, FALSE)
    BY <2>1 DEF RowOK, OtherEvents, InGame, InPurchase, RowOf
  <2>2. CASE row = Row("tower.upgraded", "Tower", {"upgrading"}, "placed", {}, FALSE)
    BY <2>2 DEF RowOK, OtherEvents, InGame, InPurchase, RowOf
  <2>3. CASE row = Row("tower.sold",     "Tower", {"selling"},   "gone",   {}, TRUE)
    BY <2>3 DEF RowOK, OtherEvents, InGame, InPurchase, RowOf
  <2> QED  BY <2>1, <2>2, <2>3 DEF TowerReports
<1>3. ASSUME NEW row \in BloonReports
      PROVE  RowOK(row) /\ row = RowOf(row.event)
  <2>1. CASE row = Row("bloon.spawned", "Bloon", {"owned", "new"}, "live", {}, FALSE)
    BY <2>1 DEF RowOK, OtherEvents, InGame, InPurchase, RowOf
  <2>2. CASE row = Row("bloon.popped",  "Bloon", {"popping"},      "gone", {}, TRUE)
    BY <2>2 DEF RowOK, OtherEvents, InGame, InPurchase, RowOf
  <2>3. CASE row = Row("bloon.leaked",  "Bloon", {"leaking"},      "gone", {}, TRUE)
    BY <2>3 DEF RowOK, OtherEvents, InGame, InPurchase, RowOf
  <2> QED  BY <2>1, <2>2, <2>3 DEF BloonReports
<1>4. \A row \in ObjectEvents : RowOK(row) /\ row = RowOf(row.event)
  BY <1>1, <1>2, <1>3 DEF ObjectEvents
<1> QED  BY <1>4

(* invalidate() of the handle an index entry leads to clears that entry.   *)
LEMMA KeyInvalidated ==
  ASSUME NEW r, RegistryOK(r), NEW key0 \in Key
  PROVE  /\ RegistryOK(InvalidateIn(r, r.index[key0]))
         /\ InvalidateIn(r, r.index[key0]).next = r.next
         /\ \A key \in Key : InvalidateIn(r, r.index[key0]).index[key] =
                               IF key = key0 THEN 0 ELSE r.index[key]
<1>1. \A key \in Key : r.index[key] # 0 /\ r.index[key] = r.index[key0] => key = key0
  BY DEF RegistryOK
<1> QED  BY <1>1, InvalidateFacts

(* After that no handle in force names the object at that address. *)
LEMMA NobodyNames ==
  ASSUME NEW r, NEW o, RegistryOK(r), NamesLive(r, o), NEW a \in Address,
         r.index[<<o[a].kind, a>>] = 0 \/ o[a].kind \notin NativeKind \/ o[a].stage \in Past
  PROVE  \A h \in DOMAIN r.live : r.live[h].object # a
<1>1. SUFFICES ASSUME NEW h \in DOMAIN r.live, r.live[h].object = a
               PROVE  FALSE
  OBVIOUS
<1>2. o[a].stage \notin Past
  BY <1>1 DEF NamesLive
<1> QED  BY <1>1, <1>2, OnlyHandle

(* Other objects' handles do not mind what becomes of an unnamed one. *)
LEMMA NamesElsewhere ==
  ASSUME NEW r, NEW o, NEW p, NamesLive(r, o), NEW a \in Address,
         \A h \in DOMAIN r.live : r.live[h].object # a,
         \A b \in Address : b # a =>
           p[b].kind = o[b].kind /\ p[b].serial = o[b].serial /\ p[b].stage = o[b].stage
  PROVE  NamesLive(r, p)
  BY DEF NamesLive

(* An object in force may change, as long as it does not end. *)
LEMMA NamesStill ==
  ASSUME NEW r, NEW o, NEW p, NamesLive(r, o),
         \A b \in Address :
           /\ p[b].kind = o[b].kind /\ p[b].serial = o[b].serial
           /\ p[b].stage \in Past => o[b].stage \in Past
  PROVE  NamesLive(r, p)
  BY DEF NamesLive


-----------------------------------------------------------------------------
(* One lemma per action.  A step is taken from a state in which EventsInv  *)
(* holds; each part of it is shown for the next state.                     *)
USE DEF eventVars, ledgerVars, gameVars, At, InPurchase

LEMMA ReturnInv ==
  ASSUME EventsInv, Return
  PROVE  EventsInv'
<1> USE DEF EventsInv, Return
<1>R. RegistryOK(registry)'
  OBVIOUS
<1>N. NamesLive(registry, obj)'
  OBVIOUS
<1>T. ObjectType' /\ RestType'
  BY DEF ObjectType, RestType
<1>O. ObjectsOK'
  BY DEF ObjectsOK
<1>P. PurchaseOK'
  BY DEF PurchaseOK, NoCall
<1>D. Delivering'
  BY DEF Delivering, NoCall
<1>C. ObjectCall'
  BY Rows DEF RowOK, ObjectCall, OtherEvents, NoCall
<1>I. RoundIndexed'
  BY DEF RoundIndexed, NoCall
<1>L. LedgerType' /\ LedgerAdds'
  BY DEF LedgerType, LedgerAdds
<1> QED  BY <1>R, <1>N, <1>T, <1>O, <1>P, <1>D, <1>C, <1>I, <1>L

LEMMA MatchEndedReturnInv ==
  ASSUME EventsInv, MatchEndedReturn
  PROVE  EventsInv'
<1> USE DEF EventsInv, MatchEndedReturn
<1>R. RegistryOK(registry)'
  OBVIOUS
<1>N. NamesLive(registry, obj)'
  OBVIOUS
<1>T. ObjectType' /\ RestType'
  BY BoundsAssumption DEF ObjectType, RestType
<1>O. ObjectsOK'
  BY DEF ObjectsOK
<1>P. PurchaseOK'
  BY DEF PurchaseOK, NoCall
<1>D. Delivering'
  BY DEF Delivering, NoCall
<1>C. ObjectCall'
  BY Rows DEF RowOK, ObjectCall, OtherEvents, NoCall
<1>I. RoundIndexed'
  BY Keys, BoundsAssumption DEF RoundIndexed, Delivering, NoCall
<1>L. LedgerType' /\ LedgerAdds'
  BY DEF LedgerType, LedgerAdds
<1> QED  BY <1>R, <1>N, <1>T, <1>O, <1>P, <1>D, <1>C, <1>I, <1>L

LEMMA RoundEventInv ==
  ASSUME EventsInv, NEW e \in {"round", "round.ended"}, RoundEvent(e)
  PROVE  EventsInv'
<1> USE DEF EventsInv, RoundEvent, Quiet
<1>R. RegistryOK(registry)'
  OBVIOUS
<1>N. NamesLive(registry, obj)'
  OBVIOUS
<1>T. ObjectType' /\ RestType'
  BY DEF ObjectType, RestType
<1>O. ObjectsOK'
  BY DEF ObjectsOK
<1>P. PurchaseOK'
  BY DEF PurchaseOK, NoCall
<1>D. Delivering'
  BY Keys DEF Delivering, RoundIndexed, NoCall
<1>C. ObjectCall'
  BY Rows DEF RowOK, ObjectCall, OtherEvents, NoCall
<1>I. RoundIndexed'
  BY DEF RoundIndexed, NoCall
<1>L. LedgerType' /\ LedgerAdds'
  BY DEF LedgerType, LedgerAdds
<1> QED  BY <1>R, <1>N, <1>T, <1>O, <1>P, <1>D, <1>C, <1>I, <1>L

LEMMA MatchEventInv ==
  ASSUME EventsInv,
         NEW e \in {"match.started", "match.ending"},
         NEW from \in {"init", "play"}, NEW to \in {"play", "uninit"}, MatchEvent(e, from, to)
  PROVE  EventsInv'
<1> USE DEF EventsInv, MatchEvent, Quiet
<1>k. <<"Match", Screen>> \in Key
  BY Keys
<1>a. Screen \in Address => obj[Screen].kind = "Match" /\ obj[Screen].stage \notin Past
  BY Keys DEF Past
<1>p. /\ registry' = FindOrAddTo(registry, "Match", Screen)
      /\ call' = [event |-> e, kind |-> "Match", object |-> Screen,
                  handle |-> registry'.index[<<"Match", Screen>>], flag |-> FALSE]
  BY DEF Deliver, DeliverFrom
<1>d. /\ RegistryOK(registry') /\ NamesLive(registry', obj')
      /\ registry'.index[<<"Match", Screen>>] # 0
      /\ \A key \in Key : registry.index[key] # 0 \/ key # <<"Match", Screen>> =>
           registry'.index[key] = registry.index[key]
  BY <1>k, <1>a, <1>p, FindOrAddToFacts, NamesAfterFind
<1>c. /\ call'.event = e /\ call'.kind = "Match" /\ call'.object = Screen
      /\ call'.handle = registry'.index[<<"Match", Screen>>] /\ call'.flag = FALSE
  BY ONLY <1>p
<1> HIDE DEF DeliverFrom, Deliver
<1>R. RegistryOK(registry)'
  BY <1>d
<1>N. NamesLive(registry, obj)'
  BY <1>d
<1>T. ObjectType' /\ RestType'
  BY <1>d, <1>k DEF ObjectType, RestType, RegistryOK
<1>O. ObjectsOK'
  BY DEF ObjectsOK
<1>P. PurchaseOK'
  BY <1>c DEF PurchaseOK, Quiet
<1>D. Delivering'
  BY <1>p, <1>d, <1>c, <1>k, Keys DEF Delivering, NoCall
<1>C. ObjectCall'
  BY <1>c, <1>d, Rows DEF RowOK, ObjectCall, OtherEvents
<1>I. RoundIndexed'
  BY <1>d, <1>c, Keys DEF RoundIndexed, Delivering, NoCall, Quiet
<1>L. LedgerType' /\ LedgerAdds'
  BY DEF LedgerType, LedgerAdds
<1> QED  BY <1>R, <1>N, <1>T, <1>O, <1>P, <1>D, <1>C, <1>I, <1>L

LEMMA LivesEventInv ==
  ASSUME EventsInv, LivesEvent
  PROVE  EventsInv'
<1> USE DEF EventsInv, LivesEvent, Quiet
<1>k. <<"Player", Lives>> \in Key
  BY Keys
<1>a. Lives \in Address => obj[Lives].kind = "Player" /\ obj[Lives].stage \notin Past
  BY Keys DEF Past
<1>p. /\ registry' = FindOrAddTo(registry, "Player", Lives)
      /\ call' = [event |-> "lives", kind |-> "Player", object |-> Lives,
                  handle |-> registry'.index[<<"Player", Lives>>], flag |-> FALSE]
  BY DEF Deliver, DeliverFrom
<1>d. /\ RegistryOK(registry') /\ NamesLive(registry', obj')
      /\ registry'.index[<<"Player", Lives>>] # 0
      /\ \A key \in Key : registry.index[key] # 0 \/ key # <<"Player", Lives>> =>
           registry'.index[key] = registry.index[key]
  BY <1>k, <1>a, <1>p, FindOrAddToFacts, NamesAfterFind
<1>c. /\ call'.event = "lives" /\ call'.kind = "Player" /\ call'.object = Lives
      /\ call'.handle = registry'.index[<<"Player", Lives>>] /\ call'.flag = FALSE
  BY ONLY <1>p
<1> HIDE DEF DeliverFrom, Deliver
<1>R. RegistryOK(registry)'
  BY <1>d
<1>N. NamesLive(registry, obj)'
  BY <1>d
<1>T. ObjectType' /\ RestType'
  BY DEF ObjectType, RestType
<1>O. ObjectsOK'
  BY DEF ObjectsOK
<1>P. PurchaseOK'
  BY <1>c DEF PurchaseOK, Quiet
<1>D. Delivering'
  BY <1>p, <1>d, <1>c, <1>k, Keys DEF Delivering, NoCall
<1>C. ObjectCall'
  BY <1>c, <1>d, Rows DEF RowOK, ObjectCall, OtherEvents
<1>I. RoundIndexed'
  BY <1>d, <1>c, Keys DEF RoundIndexed, Delivering, NoCall, Quiet
<1>L. LedgerType' /\ LedgerAdds'
  BY DEF LedgerType, LedgerAdds
<1> QED  BY <1>R, <1>N, <1>T, <1>O, <1>P, <1>D, <1>C, <1>I, <1>L

LEMMA DestroyTrackedInv ==
  ASSUME EventsInv, NEW a \in Address, DestroyTracked(a)
  PROVE  EventsInv'
<1> USE DEF EventsInv, DestroyTracked, Quiet
<1>k. <<obj[a].kind, a>> \in Key
  BY Keys DEF ObjectsOK, Settled, Absent, Constructed
<1>a. a \in Address => obj[a].kind = obj[a].kind /\ obj[a].stage \notin Past
  BY <1>k, TrackedLives DEF Tracked
<1>p. /\ registry' = FindOrAddTo(registry, obj[a].kind, a)
      /\ call' = [event |-> "destroyed", kind |-> obj[a].kind, object |-> a,
                  handle |-> registry'.index[<<obj[a].kind, a>>], flag |-> FALSE]
  BY DEF Deliver, DeliverFrom
<1>d. /\ RegistryOK(registry') /\ NamesLive(registry', obj')
      /\ registry'.index[<<obj[a].kind, a>>] # 0
      /\ \A key \in Key : registry.index[key] # 0 \/ key # <<obj[a].kind, a>> =>
           registry'.index[key] = registry.index[key]
  BY <1>k, <1>a, <1>p, FindOrAddToFacts, NamesAfterFind
<1>c. /\ call'.event = "destroyed" /\ call'.kind = obj[a].kind /\ call'.object = a
      /\ call'.handle = registry'.index[<<obj[a].kind, a>>] /\ call'.flag = FALSE
  BY ONLY <1>p
<1> HIDE DEF DeliverFrom, Deliver
<1>R. RegistryOK(registry)'
  BY <1>d
<1>N. NamesLive(registry, obj)'
  BY <1>d
<1>T. ObjectType' /\ RestType'
  BY DEF ObjectType, RestType
<1>O. ObjectsOK'
  BY DEF ObjectsOK
<1>P. PurchaseOK'
  BY <1>c DEF PurchaseOK, Quiet
<1>D. Delivering'
  BY <1>p, <1>d, <1>c, <1>k, Keys DEF Delivering, NoCall
<1>C. ObjectCall'
  BY <1>c, <1>d, Rows DEF RowOK, ObjectCall, OtherEvents, ObjectsOK, Settled, Absent, Constructed
<1>I. RoundIndexed'
  BY <1>d, <1>c, Keys DEF RoundIndexed, Delivering, NoCall, Quiet
<1>L. LedgerType' /\ LedgerAdds'
  BY DEF LedgerType, LedgerAdds
<1> QED  BY <1>R, <1>N, <1>T, <1>O, <1>P, <1>D, <1>C, <1>I, <1>L

LEMMA ObjectEventInv ==
  ASSUME EventsInv, NEW row \in ObjectEvents, NEW a \in Address, ObjectEvent(row, a)
  PROVE  EventsInv'
<1> USE DEF EventsInv, ObjectEvent, Quiet
<1>k. <<row.kind, a>> \in Key
  BY Keys, Rows DEF ObjectsOK, Absent, RowOK, InGame
<1>a. a \in Address => obj[a].kind = row.kind /\ obj[a].stage \notin Past
  BY Rows DEF Past, RowOK, InGame
<1>p. /\ registry' = FindOrAddTo(registry, row.kind, a)
      /\ call' = [event |-> row.event, kind |-> row.kind, object |-> a,
                  handle |-> registry'.index[<<row.kind, a>>], flag |-> FALSE]
  BY DEF Deliver, DeliverFrom
<1>d. /\ RegistryOK(registry') /\ NamesLive(registry', obj')
      /\ registry'.index[<<row.kind, a>>] # 0
      /\ \A key \in Key : registry.index[key] # 0 \/ key # <<row.kind, a>> =>
           registry'.index[key] = registry.index[key]
  BY <1>k, <1>a, <1>p, FindOrAddToFacts, NamesAfterFind
<1>c. /\ call'.event = row.event /\ call'.kind = row.kind /\ call'.object = a
      /\ call'.handle = registry'.index[<<row.kind, a>>] /\ call'.flag = FALSE
  BY ONLY <1>p
<1> HIDE DEF DeliverFrom, Deliver
<1>R. RegistryOK(registry)'
  BY <1>d
<1>N. NamesLive(registry, obj)'
  BY <1>d
<1>T. ObjectType' /\ RestType'
  BY DEF ObjectType, RestType
<1>O. ObjectsOK'
  BY DEF ObjectsOK
<1>P. PurchaseOK'
  BY <1>c DEF PurchaseOK, Quiet
<1>D. Delivering'
  BY <1>p, <1>d, <1>c, <1>k, Keys, Rows DEF Delivering, NoCall, RowOK, OtherEvents
<1>C. ObjectCall'
  BY <1>c, <1>d, Rows DEF RowOK, ObjectCall, OtherEvents
<1>I. RoundIndexed'
  BY <1>d, <1>c, Keys DEF RoundIndexed, Delivering, NoCall, Quiet
<1>L. LedgerType' /\ LedgerAdds'
  BY DEF LedgerType, LedgerAdds
<1> QED  BY <1>R, <1>N, <1>T, <1>O, <1>P, <1>D, <1>C, <1>I, <1>L

LEMMA BloonSpawningInv ==
  ASSUME EventsInv, NEW a \in Address, NEW fromRound \in BOOLEAN, BloonSpawning(a, fromRound)
  PROVE  EventsInv'
<1> USE DEF EventsInv, BloonSpawning, Quiet
<1>k. <<"Bloon", a>> \in Key
  BY Keys DEF ObjectsOK, Absent
<1>a. a \in Address => obj[a].kind = "Bloon" /\ obj[a].stage \notin Past
  BY Keys DEF Past
<1>p. /\ registry' = FindOrAddTo(registry, "Bloon", a)
      /\ call' = [event |-> "bloon.spawning", kind |-> "Bloon", object |-> a,
                  handle |-> registry'.index[<<"Bloon", a>>], flag |-> fromRound]
  BY DEF Deliver, DeliverFrom
<1>d. /\ RegistryOK(registry') /\ NamesLive(registry', obj')
      /\ registry'.index[<<"Bloon", a>>] # 0
      /\ \A key \in Key : registry.index[key] # 0 \/ key # <<"Bloon", a>> =>
           registry'.index[key] = registry.index[key]
  BY <1>k, <1>a, <1>p, FindOrAddToFacts, NamesAfterFind
<1>c. /\ call'.event = "bloon.spawning" /\ call'.kind = "Bloon" /\ call'.object = a
      /\ call'.handle = registry'.index[<<"Bloon", a>>] /\ call'.flag = fromRound
  BY ONLY <1>p
<1> HIDE DEF DeliverFrom, Deliver
<1>R. RegistryOK(registry)'
  BY <1>d
<1>N. NamesLive(registry, obj)'
  BY <1>d
<1>T. ObjectType' /\ RestType'
  BY DEF ObjectType, RestType
<1>O. ObjectsOK'
  BY DEF ObjectsOK
<1>P. PurchaseOK'
  BY <1>c DEF PurchaseOK, Quiet
<1>D. Delivering'
  BY <1>p, <1>d, <1>c, <1>k, Keys DEF Delivering, NoCall
<1>C. ObjectCall'
  BY <1>c, <1>d, Rows DEF RowOK, ObjectCall, OtherEvents
<1>I. RoundIndexed'
  BY <1>d, <1>c, Keys DEF RoundIndexed, Delivering, NoCall, Quiet
<1>L. LedgerType' /\ LedgerAdds'
  BY DEF LedgerType, LedgerAdds
<1> QED  BY <1>R, <1>N, <1>T, <1>O, <1>P, <1>D, <1>C, <1>I, <1>L

LEMMA PurchaseCheckInv ==
  ASSUME EventsInv, NEW a \in Address, PurchaseCheck(a)
  PROVE  EventsInv'
<1> USE DEF EventsInv, PurchaseCheck, Quiet
<1>v. obj[a].preview = TRUE /\ obj[a].kind = "Tower" /\ obj[a].stage = "new"
  BY DEF ObjectType, NativeObject, ObjectsOK
<1>k. <<"Tower", a>> \in Key
  BY <1>v, Keys DEF ObjectsOK, Absent
<1>a. a \in Address => obj[a].kind = "Tower" /\ obj[a].stage \notin Past
  BY <1>v DEF Past
<1>p. /\ registry' = FindOrAddTo(registry, "Tower", a)
      /\ call' = [event |-> "tower.placing", kind |-> "Tower", object |-> a,
                  handle |-> registry'.index[<<"Tower", a>>], flag |-> TRUE]
  BY DEF Deliver, DeliverFrom
<1>d. /\ RegistryOK(registry') /\ NamesLive(registry', obj')
      /\ registry'.index[<<"Tower", a>>] # 0
      /\ \A key \in Key : registry.index[key] # 0 \/ key # <<"Tower", a>> =>
           registry'.index[key] = registry.index[key]
  BY <1>k, <1>a, <1>p, FindOrAddToFacts, NamesAfterFind
<1>c. /\ call'.event = "tower.placing" /\ call'.kind = "Tower" /\ call'.object = a
      /\ call'.handle = registry'.index[<<"Tower", a>>] /\ call'.flag = TRUE
  BY ONLY <1>p
<1> HIDE DEF DeliverFrom, Deliver
<1>R. RegistryOK(registry)'
  BY <1>d
<1>N. NamesLive(registry, obj)'
  BY <1>d
<1>T. ObjectType' /\ RestType'
  BY DEF ObjectType, RestType
<1>O. ObjectsOK'
  BY DEF ObjectsOK
<1>P. PurchaseOK'
  BY <1>c DEF PurchaseOK, Quiet
<1>D. Delivering'
  BY <1>p, <1>d, <1>c, <1>k, Keys DEF Delivering, NoCall
<1>C. ObjectCall'
  BY <1>v, <1>c, <1>d, Rows DEF RowOK, ObjectCall, OtherEvents
<1>I. RoundIndexed'
  BY <1>d, <1>c, Keys DEF RoundIndexed, Delivering, NoCall, Quiet
<1>L. LedgerType' /\ LedgerAdds'
  BY DEF LedgerType, LedgerAdds
<1> QED  BY <1>R, <1>N, <1>T, <1>O, <1>P, <1>D, <1>C, <1>I, <1>L

LEMMA PlaceInv ==
  ASSUME EventsInv, NEW a \in Address, Place(a)
  PROVE  EventsInv'
<1> USE DEF EventsInv, Place, AtManager
<1>v. /\ obj[a].preview = FALSE /\ obj[a].kind = "Tower" /\ obj[a].stage = "new"
      /\ \A b \in Address : obj[b].stage \notin InPurchase
  BY DEF ObjectType, NativeObject, PurchaseOK
<1>k. <<"Tower", a>> \in Key
  BY Keys DEF ObjectsOK, Absent
<1>a. a \in Address => obj[a].kind = "Tower" /\ obj[a].stage \notin Past
  BY <1>v DEF Past
<1>p. /\ registry' = FindOrAddTo(registry, "Tower", a)
      /\ call' = [event |-> "tower.placing", kind |-> "Tower", object |-> a,
                  handle |-> registry'.index[<<"Tower", a>>], flag |-> FALSE]
  BY DEF Deliver, DeliverFrom
<1>d. /\ RegistryOK(registry') /\ NamesLive(registry', obj')
      /\ registry'.index[<<"Tower", a>>] # 0
      /\ \A key \in Key : registry.index[key] # 0 \/ key # <<"Tower", a>> =>
           registry'.index[key] = registry.index[key]
  BY <1>k, <1>a, <1>p, FindOrAddToFacts, NamesAfterFind
<1>c. /\ call'.event = "tower.placing" /\ call'.kind = "Tower" /\ call'.object = a
      /\ call'.handle = registry'.index[<<"Tower", a>>] /\ call'.flag = FALSE
  BY ONLY <1>p
<1> HIDE DEF DeliverFrom, Deliver
<1>R. RegistryOK(registry)'
  BY <1>d
<1>N. NamesLive(registry, obj)'
  BY <1>d
<1>T. ObjectType' /\ RestType'
  BY DEF ObjectType, RestType
<1>O. ObjectsOK'
  BY DEF ObjectsOK
<1>P. PurchaseOK'
  BY <1>v, <1>c DEF PurchaseOK
<1>D. Delivering'
  BY <1>p, <1>d, <1>c, <1>k, Keys DEF Delivering, NoCall
<1>C. ObjectCall'
  BY <1>v, <1>c, <1>d, Rows DEF RowOK, ObjectCall, OtherEvents
<1>I. RoundIndexed'
  BY <1>d, <1>c, Keys DEF RoundIndexed, Delivering, NoCall, Quiet
<1>L. LedgerType' /\ LedgerAdds'
  BY DEF LedgerType, LedgerAdds
<1> QED  BY <1>R, <1>N, <1>T, <1>O, <1>P, <1>D, <1>C, <1>I, <1>L

LEMMA DestroyUntrackedInv ==
  ASSUME EventsInv, NEW a \in Address, DestroyUntracked(a)
  PROVE  EventsInv'
<1> USE DEF EventsInv, DestroyUntracked, Quiet
<1>c. call' = NoCall /\ call'.event = "none"
  BY DEF NoCall
<1>o. /\ ObjectType' /\ obj'[a] = Nothing
      /\ \A b \in Address : b # a => obj'[b] = obj[b]
  BY NothingType, ReplaceFacts
<1>f. \A b \in Address : b # a =>
        /\ obj'[b].kind = obj[b].kind /\ obj'[b].serial = obj[b].serial
        /\ obj'[b].stage = obj[b].stage
  BY <1>o
<1>h. \A h \in DOMAIN registry.live : registry.live[h].object # a
  BY NobodyNames DEF Tracked
<1>l. LedgerType' /\ LedgerAdds'
  BY BoundaryFacts
<1>R. RegistryOK(registry)'
  OBVIOUS
<1>N. NamesLive(registry, obj)'
  BY <1>f, <1>h DEF NamesLive
<1>T. ObjectType' /\ RestType'
  BY <1>o DEF RestType
<1>O. ObjectsOK'
  BY <1>o DEF ObjectsOK, Nothing, Absent, InGame
<1>P. PurchaseOK'
  BY <1>o, <1>c DEF PurchaseOK, Nothing, InGame
<1>D. Delivering'
  BY <1>c DEF Delivering, NoCall
<1>C. ObjectCall'
  BY <1>c, Rows DEF RowOK, ObjectCall, OtherEvents
<1>I. RoundIndexed'
  BY <1>c DEF RoundIndexed, NoCall
<1>L. LedgerType' /\ LedgerAdds'
  BY <1>l
<1> QED  BY <1>R, <1>N, <1>T, <1>O, <1>P, <1>D, <1>C, <1>I, <1>L

LEMMA LoseInv ==
  ASSUME EventsInv, NEW a \in Address, Lose(a)
  PROVE  EventsInv'
<1> USE DEF EventsInv, Lose, Quiet
<1>c. call' = NoCall /\ call'.event = "none"
  BY DEF NoCall
<1> DEFINE lost == [Nothing EXCEPT !.stage = "lost"]
<1>n. lost \in NativeObject /\ lost.kind = "none" /\ lost.stage = "lost" /\ lost.preview = FALSE
  <2>1. /\ lost \in NativeObject /\ lost.stage = "lost"
        /\ lost.kind = Nothing.kind /\ lost.preview = Nothing.preview
    BY ONLY NothingType DEF NativeObject, AllStages
  <2> QED  BY ONLY <2>1 DEF Nothing
<1>e. obj' = [obj EXCEPT ![a] = lost]
  OBVIOUS
<1> HIDE DEF lost
<1>o. /\ ObjectType' /\ obj'[a] = lost
      /\ \A b \in Address : b # a => obj'[b] = obj[b]
  BY <1>n, <1>e, ReplaceFacts
<1>f. \A b \in Address : b # a =>
        /\ obj'[b].kind = obj[b].kind /\ obj'[b].serial = obj[b].serial
        /\ obj'[b].stage = obj[b].stage
  BY <1>o
<1>h. \A h \in DOMAIN registry.live : registry.live[h].object # a
  BY NobodyNames DEF Past
<1>R. RegistryOK(registry)'
  OBVIOUS
<1>N. NamesLive(registry, obj)'
  BY <1>f, <1>h DEF NamesLive
<1>T. ObjectType' /\ RestType'
  BY <1>o DEF RestType
<1>O. ObjectsOK'
  BY <1>o, <1>n DEF ObjectsOK, Absent, InGame
<1>P. PurchaseOK'
  BY <1>o, <1>n, <1>c DEF PurchaseOK, InGame
<1>D. Delivering'
  BY <1>c DEF Delivering, NoCall
<1>C. ObjectCall'
  BY <1>c, Rows DEF RowOK, ObjectCall, OtherEvents
<1>I. RoundIndexed'
  BY <1>c DEF RoundIndexed, NoCall
<1>L. LedgerType' /\ LedgerAdds'
  BY DEF LedgerType, LedgerAdds
<1> QED  BY <1>R, <1>N, <1>T, <1>O, <1>P, <1>D, <1>C, <1>I, <1>L

LEMMA DestroySilentlyInv ==
  ASSUME EventsInv, NEW a \in Address, DestroySilently(a)
  PROVE  EventsInv'
<1> USE DEF EventsInv, DestroySilently, Quiet
<1>c. call' = NoCall /\ call'.event = "none"
  BY DEF NoCall
<1>k. <<obj[a].kind, a>> \in Key /\ <<obj[a].kind, a>> # <<"Round", Receiver>>
  BY Keys DEF ObjectsOK, Absent, Settled
<1>o. /\ ObjectType' /\ obj'[a] = Nothing
      /\ \A b \in Address : b # a => obj'[b] = obj[b]
  BY NothingType, ReplaceFacts
<1>p. registry' = InvalidateIn(registry, registry.index[<<obj[a].kind, a>>])
  OBVIOUS
<1>d. /\ RegistryOK(registry') /\ NamesLive(registry', obj)
      /\ registry'.index[<<obj[a].kind, a>>] = 0
      /\ registry'.index[<<"Round", Receiver>>] = registry.index[<<"Round", Receiver>>]
  <2>1. /\ RegistryOK(registry')
        /\ \A key \in Key : registry'.index[key] =
                               IF key = <<obj[a].kind, a>> THEN 0 ELSE registry.index[key]
    BY <1>k, <1>p, KeyInvalidated
  <2>2. NamesLive(registry', obj)
    BY <1>p, NamesAfterInvalidate
  <2> QED  BY <2>1, <2>2, <1>k, <1>p, Keys
<1>f. \A b \in Address : b # a =>
        /\ obj'[b].kind = obj[b].kind /\ obj'[b].serial = obj[b].serial
        /\ obj'[b].stage = obj[b].stage
  BY <1>o
<1>h. \A h \in DOMAIN registry'.live : registry'.live[h].object # a
  BY <1>d, NobodyNames
<1>R. RegistryOK(registry)'
  BY <1>d
<1>N. NamesLive(registry, obj)'
  BY ONLY <1>f, <1>d, <1>h DEF NamesLive
<1>T. ObjectType' /\ RestType'
  BY <1>o DEF RestType
<1>O. ObjectsOK'
  BY <1>o DEF ObjectsOK, Nothing, Absent, InGame
<1>P. PurchaseOK'
  BY <1>o, <1>c DEF PurchaseOK, Nothing, InGame
<1>D. Delivering'
  BY <1>c DEF Delivering, NoCall
<1>C. ObjectCall'
  BY <1>c, Rows DEF RowOK, ObjectCall, OtherEvents
<1>I. RoundIndexed'
  BY <1>c, <1>d DEF RoundIndexed, NoCall
<1>L. LedgerType' /\ LedgerAdds'
  BY DEF LedgerType, LedgerAdds
<1> QED  BY <1>R, <1>N, <1>T, <1>O, <1>P, <1>D, <1>C, <1>I, <1>L

LEMMA DestroyReturnInv ==
  ASSUME EventsInv, DestroyReturn
  PROVE  EventsInv'
<1> USE DEF EventsInv, DestroyReturn
<1>c. call' = NoCall /\ call'.event = "none"
  BY DEF NoCall
<1>a. /\ call.object \in Address /\ <<call.kind, call.object>> \in Key
      /\ registry.index[<<call.kind, call.object>>] = call.handle /\ call.handle # 0
      /\ <<call.kind, call.object>> # <<"Round", Receiver>>
  BY Keys DEF ObjectCall, Delivering
<1>b. obj[call.object].kind = call.kind
  BY <1>a, TrackedLives
<1>o. /\ ObjectType' /\ obj'[call.object] = Nothing
      /\ \A b \in Address : b # call.object => obj'[b] = obj[b]
  BY <1>a, NothingType, ReplaceFacts
<1>p. registry' = InvalidateIn(registry, call.handle)
  OBVIOUS
<1>d. /\ RegistryOK(registry') /\ NamesLive(registry', obj)
      /\ registry'.index[<<obj[call.object].kind, call.object>>] = 0
      /\ registry'.index[<<"Round", Receiver>>] = registry.index[<<"Round", Receiver>>]
  <2>1. /\ RegistryOK(registry')
        /\ \A key \in Key : registry'.index[key] =
                               IF key = <<obj[call.object].kind, call.object>> THEN 0 ELSE registry.index[key]
    BY <1>a, <1>b, <1>p, KeyInvalidated
  <2>2. NamesLive(registry', obj)
    BY <1>p, NamesAfterInvalidate
  <2> QED  BY <2>1, <2>2, <1>a, <1>b, <1>p, Keys
<1>f. \A b \in Address : b # call.object =>
        /\ obj'[b].kind = obj[b].kind /\ obj'[b].serial = obj[b].serial
        /\ obj'[b].stage = obj[b].stage
  BY <1>o
<1>h. \A h \in DOMAIN registry'.live : registry'.live[h].object # call.object
  BY <1>a, <1>d, NobodyNames
<1>R. RegistryOK(registry)'
  BY <1>d
<1>N. NamesLive(registry, obj)'
  BY <1>f, <1>d, <1>h, <1>a DEF NamesLive
<1>T. ObjectType' /\ RestType'
  BY <1>o DEF RestType
<1>O. ObjectsOK'
  BY <1>o, <1>a DEF ObjectsOK, Nothing, Absent, InGame
<1>P. PurchaseOK'
  BY <1>o, <1>c, <1>a DEF PurchaseOK, Nothing, InGame
<1>D. Delivering'
  BY <1>c DEF Delivering, NoCall
<1>C. ObjectCall'
  BY <1>c, Rows DEF RowOK, ObjectCall, OtherEvents
<1>I. RoundIndexed'
  BY <1>c, <1>d DEF RoundIndexed, NoCall
<1>L. LedgerType' /\ LedgerAdds'
  BY DEF LedgerType, LedgerAdds
<1> QED  BY <1>R, <1>N, <1>T, <1>O, <1>P, <1>D, <1>C, <1>I, <1>L

LEMMA ObjectEventReturnInv ==
  ASSUME EventsInv, NEW row \in ObjectEvents, ObjectEventReturn(row)
  PROVE  EventsInv'
<1> USE DEF EventsInv, ObjectEventReturn
<1>c. call' = NoCall /\ call'.event = "none"
  BY DEF NoCall
<1>r. RowOK(row)
  BY Rows
<1>a. /\ call.object \in Address /\ <<row.kind, call.object>> \in Key /\ call.kind = row.kind
      /\ obj[call.object].kind = row.kind /\ obj[call.object].stage \in row.from
      /\ phase = "play" /\ call.event \notin OtherEvents /\ call.handle # 0
  BY <1>r, Keys DEF ObjectCall, ObjectsOK, RowOK, InGame, Absent
<1>b. /\ registry.index[<<row.kind, call.object>>] = call.handle
      /\ <<row.kind, call.object>> # <<"Round", Receiver>>
  BY <1>a, Keys DEF Delivering, OtherEvents
<1>s. PICK stage \in {row.to} \cup row.back : SetStage(call.object, stage)
  OBVIOUS
<1>t. /\ stage \in InGame \cup {"gone"} /\ stage \notin InPurchase /\ stage \in AllStages
      /\ stage = "gone" => row.terminal = TRUE
  BY <1>r DEF RowOK, InGame, AllStages, Settled
<1>o. /\ ObjectType' /\ obj'[call.object].stage = stage
      /\ \A b \in Address :
              /\ b # call.object => obj'[b].stage = obj[b].stage
              /\ obj'[b].kind = obj[b].kind
              /\ obj'[b].serial = obj[b].serial
              /\ obj'[b].announced = obj[b].announced
              /\ obj'[b].preview = obj[b].preview
  BY <1>a, <1>s, <1>t, StageFacts
<1>p. registry' = IF row.terminal = TRUE THEN InvalidateIn(registry, call.handle) ELSE registry
  BY <1>r DEF RowOK
<1>d. /\ RegistryOK(registry') /\ NamesLive(registry', obj)
      /\ row.terminal = TRUE => registry'.index[<<obj[call.object].kind, call.object>>] = 0
      /\ registry'.index[<<"Round", Receiver>>] = registry.index[<<"Round", Receiver>>]
  <2> HIDE DEF EventsInv, ObjectEventReturn
  <2>0. RegistryOK(registry) /\ NamesLive(registry, obj)
    BY DEF EventsInv
  <2>1. CASE row.terminal = TRUE
    <3> DEFINE key == <<row.kind, call.object>>
    <3>1. key \in Key /\ registry' = InvalidateIn(registry, registry.index[key])
      BY <2>1, <1>a, <1>b, <1>p
    <3>2. /\ RegistryOK(registry')
          /\ \A k \in Key : registry'.index[k] = IF k = key THEN 0 ELSE registry.index[k]
      BY <3>1, <2>0, KeyInvalidated
    <3>3. NamesLive(registry', obj)
      BY <3>1, <2>0, NamesAfterInvalidate
    <3> QED  BY <3>1, <3>2, <3>3, <1>a, <1>b, Keys
  <2>2. CASE row.terminal # TRUE
    BY <2>0, <2>2, <1>p
  <2> QED  BY <2>1, <2>2
<1>n. NamesLive(registry', obj')
  <2>1. CASE row.terminal = TRUE
    <3>1. \A h \in DOMAIN registry'.live : registry'.live[h].object # call.object
      BY <2>1, <1>a, <1>d, NobodyNames
    <3> QED  BY <3>1, <1>a, <1>o, <1>d, NamesElsewhere
  <2>2. CASE row.terminal # TRUE
    <3>1. stage \notin Past
      BY <2>2, <1>t DEF Past, InGame
    <3> QED  BY <3>1, <1>a, <1>o, <1>d, NamesStill
  <2> QED  BY <2>1, <2>2
<1>v. obj[call.object].preview = TRUE => obj[call.object].stage \in InGame
  BY <1>a, <1>r DEF ObjectsOK, RowOK
<1>R. RegistryOK(registry)'
  BY <1>d
<1>N. NamesLive(registry, obj)'
  BY <1>n
<1>T. ObjectType' /\ RestType'
  BY <1>o DEF RestType
<1>O. ObjectsOK'
  BY <1>o, <1>a, <1>t, <1>r DEF ObjectsOK, Absent, InGame, RowOK
<1>P. PurchaseOK'
  BY <1>o, <1>c, <1>a, <1>t, <1>v DEF PurchaseOK, InGame
<1>D. Delivering'
  BY <1>c DEF Delivering, NoCall
<1>C. ObjectCall'
  BY <1>c, Rows DEF RowOK, ObjectCall, OtherEvents
<1>I. RoundIndexed'
  BY <1>c, <1>d, <1>a DEF RoundIndexed, NoCall, OtherEvents
<1>L. LedgerType' /\ LedgerAdds'
  BY DEF LedgerType, LedgerAdds
<1> QED  BY <1>R, <1>N, <1>T, <1>O, <1>P, <1>D, <1>C, <1>I, <1>L

LEMMA BloonSpawningReturnInv ==
  ASSUME EventsInv, NEW cancelled \in BOOLEAN, BloonSpawningReturn(cancelled)
  PROVE  EventsInv'
<1> USE DEF EventsInv, BloonSpawningReturn
<1>c. call' = NoCall /\ call'.event = "none"
  BY DEF NoCall
<1>a. /\ call.object \in Address /\ call.kind = "Bloon"
      /\ obj[call.object].kind = "Bloon" /\ obj[call.object].stage = "new"
      /\ phase = "play" /\ call.handle # 0 /\ <<"Bloon", call.object>> \in Key
      /\ registry.index[<<"Bloon", call.object>>] = call.handle
      /\ obj[call.object].preview = FALSE
  BY Keys DEF ObjectCall, ObjectsOK, Absent, Delivering, ObjectType, NativeObject
<1>s. PICK stage \in {"rejected", "owned"} :
        /\ SetStage(call.object, stage) /\ (stage = "rejected" => cancelled = TRUE)
  OBVIOUS
<1>o. /\ ObjectType' /\ obj'[call.object].stage = stage
      /\ \A b \in Address :
              /\ b # call.object => obj'[b].stage = obj[b].stage
              /\ obj'[b].kind = obj[b].kind
              /\ obj'[b].serial = obj[b].serial
              /\ obj'[b].announced = obj[b].announced
              /\ obj'[b].preview = obj[b].preview
  <2>1. stage \in AllStages
    BY DEF AllStages, InGame, Settled
  <2> QED  BY <2>1, <1>a, <1>s, StageFacts
<1>p. registry' = IF cancelled = TRUE THEN InvalidateIn(registry, call.handle) ELSE registry
  OBVIOUS
<1>d. /\ RegistryOK(registry') /\ NamesLive(registry', obj)
      /\ cancelled = TRUE => registry'.index[<<obj[call.object].kind, call.object>>] = 0
      /\ registry'.index[<<"Round", Receiver>>] = registry.index[<<"Round", Receiver>>]
  <2>k. <<"Bloon", call.object>> # <<"Round", Receiver>> /\ <<"Round", Receiver>> \in Key
    BY Keys
  <2>1. CASE cancelled = TRUE
    <3>1. /\ RegistryOK(registry')
          /\ \A key \in Key : registry'.index[key] =
               IF key = <<"Bloon", call.object>> THEN 0 ELSE registry.index[key]
      BY <2>1, <1>a, <1>p, KeyInvalidated
    <3>2. NamesLive(registry', obj)
      BY <2>1, <1>p, NamesAfterInvalidate
    <3> QED  BY <3>1, <3>2, <1>a, <2>k
  <2>2. CASE cancelled # TRUE
    BY <2>2, <1>p
  <2> QED  BY <2>1, <2>2
<1>n. NamesLive(registry', obj')
  <2>1. CASE cancelled = TRUE
    <3>1. \A h \in DOMAIN registry'.live : registry'.live[h].object # call.object
      BY <2>1, <1>a, <1>d, NobodyNames
    <3> QED  BY <3>1, <1>a, <1>o, <1>d, NamesElsewhere
  <2>2. CASE cancelled # TRUE
    <3>1. stage \notin Past
      BY <2>2, <1>s DEF Past
    <3> QED  BY <3>1, <1>a, <1>o, <1>d, NamesStill
  <2> QED  BY <2>1, <2>2
<1>R. RegistryOK(registry)'
  BY <1>d
<1>N. NamesLive(registry, obj)'
  BY <1>n
<1>T. ObjectType' /\ RestType'
  BY <1>o DEF RestType
<1>O. ObjectsOK'
  BY <1>o, <1>a DEF ObjectsOK, Absent, InGame
<1>P. PurchaseOK'
  BY <1>o, <1>c, <1>a DEF PurchaseOK, InGame
<1>D. Delivering'
  BY <1>c DEF Delivering, NoCall
<1>C. ObjectCall'
  BY <1>c, Rows DEF RowOK, ObjectCall, OtherEvents
<1>I. RoundIndexed'
  BY <1>c, <1>d, <1>a DEF RoundIndexed, NoCall
<1>L. LedgerType' /\ LedgerAdds'
  BY DEF LedgerType, LedgerAdds
<1> QED  BY <1>R, <1>N, <1>T, <1>O, <1>P, <1>D, <1>C, <1>I, <1>L

LEMMA CostCheckInv ==
  ASSUME EventsInv, NEW a \in Address, CostCheck(a)
  PROVE  EventsInv'
<1> USE DEF EventsInv, CostCheck
<1>c. call' = NoCall /\ call'.event = "none"
  BY DEF NoCall
<1>a. /\ a \in Address /\ obj[a].kind \in NativeKind /\ phase = "play"
      /\ \/ vetoed = a /\ obj[a].announced = 0
         \/ purchased = a /\ obj[a].announced = 1
      /\ \A b \in Address : b # a => obj[b].stage \notin InPurchase
  BY DEF ObjectsOK, PurchaseOK, Absent
<1>b. PICK affordable \in IF vetoed = a THEN {FALSE} ELSE BOOLEAN :
        SetAnnounced(a, IF affordable THEN "bought" ELSE "new",
                     IF affordable THEN obj[a].announced ELSE 0)
  OBVIOUS
<1> DEFINE stage == IF affordable THEN "bought" ELSE "new"
           count == IF affordable THEN obj[a].announced ELSE 0
<1>s. /\ SetAnnounced(a, stage, count) /\ stage \in {"bought", "new"}
      /\ stage = "bought" => purchased = a /\ count = 1
      /\ stage = "new" => count = 0
      /\ count \in Nat
  <2>1. CASE affordable = TRUE
    BY <1>a, <1>b, <2>1
  <2>2. CASE affordable = FALSE
    BY <1>a, <1>b, <2>2
  <2> QED  BY <2>1, <2>2
<1> HIDE DEF stage, count
<1>o. /\ ObjectType' /\ obj'[a].stage = stage /\ obj'[a].announced = count
      /\ \A b \in Address :
              /\ b # a => obj'[b].stage = obj[b].stage /\ obj'[b].announced = obj[b].announced
              /\ obj'[b].kind = obj[b].kind
              /\ obj'[b].serial = obj[b].serial
              /\ obj'[b].preview = obj[b].preview
  <2>1. stage \in AllStages
    BY <1>s DEF AllStages, InGame, Settled
  <2> QED  BY <2>1, <1>s, <1>a, AnnouncedFacts
<1>n. NamesLive(registry', obj')
  <2>1. stage \notin Past
    BY <1>s DEF Past
  <2> QED  BY <2>1, <1>o, <1>a, NamesStill
<1>R. RegistryOK(registry)'
  OBVIOUS
<1>N. NamesLive(registry, obj)'
  BY <1>n
<1>T. ObjectType' /\ RestType'
  BY <1>o DEF RestType
<1>O. ObjectsOK'
  BY <1>o, <1>a, <1>s DEF ObjectsOK, Absent, InGame
<1>P. PurchaseOK'
  BY <1>o, <1>c, <1>a, <1>s DEF PurchaseOK, InGame
<1>D. Delivering'
  BY <1>c DEF Delivering, NoCall
<1>C. ObjectCall'
  BY <1>c, Rows DEF RowOK, ObjectCall, OtherEvents
<1>I. RoundIndexed'
  BY <1>c DEF RoundIndexed, NoCall
<1>L. LedgerType' /\ LedgerAdds'
  BY DEF LedgerType, LedgerAdds
<1> QED  BY <1>R, <1>N, <1>T, <1>O, <1>P, <1>D, <1>C, <1>I, <1>L

LEMMA PurchaseReturnInv ==
  ASSUME EventsInv, NEW cancelled \in BOOLEAN, PurchaseReturn(cancelled)
  PROVE  EventsInv'
<1> USE DEF EventsInv, PurchaseReturn
<1>c. call' = NoCall /\ call'.event = "none"
  BY DEF NoCall
<1>a. /\ call.object \in Address /\ obj[call.object].kind = "Tower"
      /\ obj[call.object].stage = "new" /\ obj[call.object].announced = 0
      /\ obj[call.object].preview = TRUE /\ phase = "play"
      /\ \A b \in Address : obj[b].stage \notin InPurchase
  BY DEF ObjectCall, Delivering, PurchaseOK
<1>b. PICK free \in IF cancelled THEN {FALSE} ELSE BOOLEAN :
        SetAnnounced(call.object, IF free THEN "bought" ELSE "checking",
                     IF cancelled THEN 0 ELSE obj[call.object].announced + 1)
  OBVIOUS
<1> DEFINE stage == IF free THEN "bought" ELSE "checking"
           count == IF cancelled THEN 0 ELSE obj[call.object].announced + 1
<1>s. /\ SetAnnounced(call.object, stage, count) /\ stage \in {"bought", "checking"}
      /\ stage = "bought" => purchased' = call.object /\ count = 1
      /\ stage = "checking" =>
           \/ vetoed' = call.object /\ count = 0
           \/ purchased' = call.object /\ count = 1
      /\ count \in Nat
  <2>1. CASE free = TRUE
    BY <1>a, <1>b, <2>1
  <2>2. CASE free = FALSE
    BY <1>a, <1>b, <2>2
  <2> QED  BY <2>1, <2>2
<1> HIDE DEF stage, count
<1>o. /\ ObjectType' /\ obj'[call.object].stage = stage /\ obj'[call.object].announced = count
      /\ \A b \in Address :
              /\ b # call.object => obj'[b].stage = obj[b].stage /\ obj'[b].announced = obj[b].announced
              /\ obj'[b].kind = obj[b].kind
              /\ obj'[b].serial = obj[b].serial
              /\ obj'[b].preview = obj[b].preview
  <2>1. stage \in AllStages
    BY <1>s DEF AllStages, InGame, Settled
  <2> QED  BY <2>1, <1>s, <1>a, AnnouncedFacts
<1>n. NamesLive(registry', obj')
  <2>1. stage \notin Past
    BY <1>s DEF Past
  <2> QED  BY <2>1, <1>o, <1>a, NamesStill
<1>R. RegistryOK(registry)'
  OBVIOUS
<1>N. NamesLive(registry, obj)'
  BY <1>n
<1>T. ObjectType' /\ RestType'
  BY <1>o, <1>a DEF RestType
<1>O. ObjectsOK'
  BY <1>o, <1>a, <1>s DEF ObjectsOK, Absent, InGame
<1>P. PurchaseOK'
  BY <1>o, <1>c, <1>a, <1>s DEF PurchaseOK, InGame
<1>D. Delivering'
  BY <1>c DEF Delivering, NoCall
<1>C. ObjectCall'
  BY <1>c, Rows DEF RowOK, ObjectCall, OtherEvents
<1>I. RoundIndexed'
  BY <1>c DEF RoundIndexed, NoCall
<1>L. LedgerType' /\ LedgerAdds'
  BY DEF LedgerType, LedgerAdds
<1> QED  BY <1>R, <1>N, <1>T, <1>O, <1>P, <1>D, <1>C, <1>I, <1>L

LEMMA PlaceReturnInv ==
  ASSUME EventsInv, PlaceReturn
  PROVE  EventsInv'
<1> USE DEF EventsInv, PlaceReturn
<1>c. call' = NoCall /\ call'.event = "none"
  BY DEF NoCall
<1>a. /\ call.object \in Address /\ obj[call.object].kind = "Tower"
      /\ obj[call.object].stage = "new" /\ obj[call.object].preview = FALSE
      /\ phase \in {"init", "play"} /\ obj[call.object].announced \in Nat
  BY DEF ObjectCall, Delivering, ObjectType, NativeObject
<1> DEFINE stage == "owned"
           count == obj[call.object].announced + 1
<1>s. SetAnnounced(call.object, stage, count) /\ stage = "owned" /\ count \in Nat
  BY <1>a
<1> HIDE DEF stage, count
<1>o. /\ ObjectType' /\ obj'[call.object].stage = stage /\ obj'[call.object].announced = count
      /\ \A b \in Address :
              /\ b # call.object => obj'[b].stage = obj[b].stage /\ obj'[b].announced = obj[b].announced
              /\ obj'[b].kind = obj[b].kind
              /\ obj'[b].serial = obj[b].serial
              /\ obj'[b].preview = obj[b].preview
  <2>1. stage \in AllStages
    BY <1>s DEF AllStages, InGame, Settled
  <2> QED  BY <2>1, <1>s, <1>a, AnnouncedFacts
<1>n. NamesLive(registry', obj')
  <2>1. stage \notin Past
    BY <1>s DEF Past
  <2> QED  BY <2>1, <1>o, <1>a, NamesStill
<1>R. RegistryOK(registry)'
  OBVIOUS
<1>N. NamesLive(registry, obj)'
  BY <1>n
<1>T. ObjectType' /\ RestType'
  BY <1>o DEF RestType
<1>O. ObjectsOK'
  BY <1>o, <1>a, <1>s DEF ObjectsOK, Absent, InGame
<1>P. PurchaseOK'
  BY <1>o, <1>c, <1>a, <1>s DEF PurchaseOK, InGame
<1>D. Delivering'
  BY <1>c DEF Delivering, NoCall
<1>C. ObjectCall'
  BY <1>c, Rows DEF RowOK, ObjectCall, OtherEvents
<1>I. RoundIndexed'
  BY <1>c DEF RoundIndexed, NoCall
<1>L. LedgerType' /\ LedgerAdds'
  BY DEF LedgerType, LedgerAdds
<1> QED  BY <1>R, <1>N, <1>T, <1>O, <1>P, <1>D, <1>C, <1>I, <1>L

LEMMA PlacePurchasedInv ==
  ASSUME EventsInv, NEW a \in Address, PlacePurchased(a)
  PROVE  EventsInv'
<1> USE DEF EventsInv, PlacePurchased, AtManager
<1>c. call' = NoCall /\ call'.event = "none"
  BY DEF NoCall
<1>a. /\ obj[a].kind = "Tower" /\ phase \in {"init", "play"}
      /\ obj[a].stage \in {"bought", "new"}
      /\ obj[a].preview = TRUE => obj[a].announced = 1
      /\ \A b \in Address : b # a => obj[b].stage \notin InPurchase
  BY DEF PurchaseOK, ObjectType, NativeObject
<1>o. /\ ObjectType' /\ obj'[a].stage = "owned"
      /\ \A b \in Address :
              /\ b # a => obj'[b].stage = obj[b].stage
              /\ obj'[b].kind = obj[b].kind
              /\ obj'[b].serial = obj[b].serial
              /\ obj'[b].announced = obj[b].announced
              /\ obj'[b].preview = obj[b].preview
  <2>1. "owned" \in AllStages
    BY DEF AllStages, InGame
  <2> QED  BY <2>1, StageFacts
<1>n. NamesLive(registry', obj')
  BY <1>o, <1>a, NamesStill DEF Past
<1>R. RegistryOK(registry)'
  OBVIOUS
<1>N. NamesLive(registry, obj)'
  BY <1>n
<1>T. ObjectType' /\ RestType'
  BY <1>o DEF RestType
<1>O. ObjectsOK'
  BY <1>o, <1>a DEF ObjectsOK, Absent, InGame
<1>P. PurchaseOK'
  BY <1>o, <1>c, <1>a DEF PurchaseOK, InGame
<1>D. Delivering'
  BY <1>c DEF Delivering, NoCall
<1>C. ObjectCall'
  BY <1>c, Rows DEF RowOK, ObjectCall, OtherEvents
<1>I. RoundIndexed'
  BY <1>c DEF RoundIndexed, NoCall
<1>L. LedgerType' /\ LedgerAdds'
  BY DEF LedgerType, LedgerAdds
<1> QED  BY <1>R, <1>N, <1>T, <1>O, <1>P, <1>D, <1>C, <1>I, <1>L

LEMMA RoundEndedReturnInv ==
  ASSUME EventsInv, RoundEndedReturn
  PROVE  EventsInv'
<1> USE DEF EventsInv, RoundEndedReturn
<1>c. call' = NoCall /\ call'.event = "none"
  BY DEF NoCall
<1>b. registry.index[<<"Round", Receiver>>] = round /\ <<"Round", Receiver>> \in Key
  BY Keys DEF RoundIndexed, NoCall
<1>p. registry' = InvalidateIn(registry, registry.index[<<"Round", Receiver>>])
  BY <1>b DEF Delivering
<1>d. /\ RegistryOK(registry') /\ NamesLive(registry', obj)
      /\ registry'.index[<<"Round", Receiver>>] = 0
  BY <1>b, <1>p, KeyInvalidated, NamesAfterInvalidate
<1>R. RegistryOK(registry)'
  BY <1>d
<1>N. NamesLive(registry, obj)'
  BY <1>d
<1>T. ObjectType' /\ RestType'
  BY BoundsAssumption DEF ObjectType, RestType
<1>O. ObjectsOK'
  BY DEF ObjectsOK
<1>P. PurchaseOK'
  BY <1>c DEF PurchaseOK
<1>D. Delivering'
  BY <1>c DEF Delivering, NoCall
<1>C. ObjectCall'
  BY <1>c, Rows DEF RowOK, ObjectCall, OtherEvents
<1>I. RoundIndexed'
  BY <1>d DEF RoundIndexed
<1>L. LedgerType' /\ LedgerAdds'
  BY DEF LedgerType, LedgerAdds
<1> QED  BY <1>R, <1>N, <1>T, <1>O, <1>P, <1>D, <1>C, <1>I, <1>L

LEMMA BeginRoundInv ==
  ASSUME EventsInv, BeginRound
  PROVE  EventsInv'
<1> USE DEF EventsInv, BeginRound, Quiet
<1>c. call' = NoCall /\ call'.event = "none"
  BY DEF NoCall
<1>b. registry.index[<<"Round", Receiver>>] = round /\ <<"Round", Receiver>> \in Key
  BY Keys DEF RoundIndexed, NoCall
<1> DEFINE r == InvalidateIn(registry, registry.index[<<"Round", Receiver>>])
<1>p. registry' = AddTo(r, "Round", Receiver, 0)
  BY <1>b
<1>d. /\ RegistryOK(r) /\ NamesLive(r, obj) /\ r.next = registry.next
      /\ r.index[<<"Round", Receiver>>] = 0
  BY <1>b, KeyInvalidated, NamesAfterInvalidate
<1> HIDE DEF r
<1>e. /\ RegistryOK(registry')
      /\ registry'.index = [r.index EXCEPT ![<<"Round", Receiver>>] = r.next]
      /\ DOMAIN registry'.live = DOMAIN r.live \cup {r.next}
      /\ \A h \in DOMAIN r.live : registry'.live[h] = r.live[h]
      /\ registry'.live[r.next] = Binding("Round", Receiver, 0)
  BY <1>p, <1>d, <1>b, AddToFacts
<1>n. NamesLive(registry', obj)
  BY <1>d, <1>e, Keys DEF NamesLive, Binding
<1>i. registry'.index[<<"Round", Receiver>>] = round'
  BY <1>d, <1>e, <1>b DEF RegistryOK
<1>R. RegistryOK(registry)'
  BY <1>e
<1>N. NamesLive(registry, obj)'
  BY <1>n
<1>T. ObjectType' /\ RestType'
  BY BoundsAssumption DEF ObjectType, RestType, RegistryOK
<1>O. ObjectsOK'
  BY DEF ObjectsOK
<1>P. PurchaseOK'
  BY <1>c DEF PurchaseOK
<1>D. Delivering'
  BY <1>c DEF Delivering, NoCall
<1>C. ObjectCall'
  BY <1>c, Rows DEF RowOK, ObjectCall, OtherEvents
<1>I. RoundIndexed'
  BY <1>i DEF RoundIndexed
<1>L. LedgerType' /\ LedgerAdds'
  BY DEF LedgerType, LedgerAdds
<1> QED  BY <1>R, <1>N, <1>T, <1>O, <1>P, <1>D, <1>C, <1>I, <1>L

LEMMA MatchStartingInv ==
  ASSUME EventsInv, MatchStarting
  PROVE  EventsInv'
<1> USE DEF EventsInv, MatchStarting, Quiet
<1>s. /\ RegistryOK(SceneBegunIn(registry)) /\ SceneBegunIn(registry).next = registry.next
      /\ DOMAIN SceneBegunIn(registry).live = {}
      /\ \A key \in Key : SceneBegunIn(registry).index[key] = 0
  BY SceneFacts
<1>m. NamesLive(SceneBegunIn(registry), obj)
  BY <1>s DEF NamesLive
<1>l. LedgerType' /\ LedgerAdds'
  BY SettleFacts
<1>k. <<"Match", Screen>> \in Key
  BY Keys
<1>a. Screen \in Address => obj[Screen].kind = "Match" /\ obj[Screen].stage \notin Past
  BY Keys DEF Past
<1>p. /\ registry' = FindOrAddTo(SceneBegunIn(registry), "Match", Screen)
      /\ call' = [event |-> "match.starting", kind |-> "Match", object |-> Screen,
                  handle |-> registry'.index[<<"Match", Screen>>], flag |-> FALSE]
  BY DEF Deliver, DeliverFrom
<1>d. /\ RegistryOK(registry') /\ NamesLive(registry', obj')
      /\ registry'.index[<<"Match", Screen>>] # 0
      /\ \A key \in Key : SceneBegunIn(registry).index[key] # 0 \/ key # <<"Match", Screen>> =>
           registry'.index[key] = SceneBegunIn(registry).index[key]
  BY <1>s, <1>m, <1>k, <1>a, <1>p, FindOrAddToFacts, NamesAfterFind
<1>c. /\ call'.event = "match.starting" /\ call'.kind = "Match" /\ call'.object = Screen
      /\ call'.handle = registry'.index[<<"Match", Screen>>] /\ call'.flag = FALSE
  BY ONLY <1>p
<1> HIDE DEF DeliverFrom, Deliver
<1>R. RegistryOK(registry)'
  BY <1>d
<1>N. NamesLive(registry, obj)'
  BY <1>d
<1>T. ObjectType' /\ RestType'
  BY BoundsAssumption DEF ObjectType, RestType, RegistryOK
<1>O. ObjectsOK'
  BY DEF ObjectsOK
<1>P. PurchaseOK'
  BY <1>c DEF PurchaseOK, Quiet
<1>D. Delivering'
  BY <1>p, <1>d, <1>c, <1>k, Keys DEF Delivering, NoCall
<1>C. ObjectCall'
  BY <1>c, <1>d, Rows DEF RowOK, ObjectCall, OtherEvents
<1>I. RoundIndexed'
  BY <1>d, <1>s, Keys DEF RoundIndexed
<1>L. LedgerType' /\ LedgerAdds'
  BY <1>l
<1> QED  BY <1>R, <1>N, <1>T, <1>O, <1>P, <1>D, <1>C, <1>I, <1>L

LEMMA MatchEndedInv ==
  ASSUME EventsInv, MatchEnded
  PROVE  EventsInv'
<1> USE DEF EventsInv, MatchEnded, Quiet
<1>c. /\ call'.event = "match.ended" /\ call'.kind = "Match" /\ call'.object = Screen
      /\ call'.handle = match /\ call'.flag = FALSE
      /\ call' = [event |-> call'.event, kind |-> call'.kind, object |-> call'.object,
                  handle |-> call'.handle, flag |-> call'.flag]
  BY DEF NoCall
<1>d. /\ RegistryOK(registry') /\ registry'.live = <<>> /\ DOMAIN registry'.live = {}
      /\ \A key \in Key : registry'.index[key] = 0
  BY SceneFacts
<1>o. /\ ObjectType'
      /\ \A a \in Address :
           /\ obj[a].stage \in Absent => obj'[a] = obj[a]
           /\ obj[a].stage \notin Absent => obj'[a].stage = "left" /\ obj'[a].kind = obj[a].kind
                                              /\ obj'[a].preview = obj[a].preview
  <2>1. \A a \in Address : obj'[a] = IF obj[a].stage \in Absent THEN obj[a]
                                     ELSE [obj[a] EXCEPT !.stage = "left"]
    BY DEF Absent
  <2>2. \A a \in Address : obj[a] \in NativeObject
    BY DEF ObjectType
  <2>3. \A a \in Address : obj'[a] \in NativeObject
    BY <2>1, <2>2 DEF NativeObject, AllStages, Settled
  <2>4. ObjectType'
    BY <2>3 DEF ObjectType
  <2> QED  BY <2>1, <2>2, <2>4 DEF NativeObject
<1>l. LedgerType' /\ LedgerAdds'
  BY CaptureFacts DEF LedgerType
<1>R. RegistryOK(registry)'
  BY <1>d
<1>N. NamesLive(registry, obj)'
  BY <1>d DEF NamesLive
<1>T. ObjectType' /\ RestType'
  BY <1>o DEF RestType
<1>O. ObjectsOK'
  BY <1>o DEF ObjectsOK, Absent, InGame
<1>P. PurchaseOK'
  BY <1>o DEF PurchaseOK, InGame, Absent
<1>D. Delivering'
  BY <1>c, <1>d DEF Delivering, NoCall
<1>C. ObjectCall'
  BY <1>c, Rows DEF ObjectCall, RowOK, OtherEvents
<1>I. RoundIndexed'
  BY <1>c DEF RoundIndexed
<1>L. LedgerType' /\ LedgerAdds'
  BY <1>l
<1> QED  BY <1>R, <1>N, <1>T, <1>O, <1>P, <1>D, <1>C, <1>I, <1>L

LEMMA ConstructInv ==
  ASSUME EventsInv, NEW k \in NativeKind, NEW a \in Address, Construct(k, a)
  PROVE  EventsInv'
<1> USE DEF EventsInv, Construct, Quiet
<1>b. PICK preview \in IF k = "Tower" THEN BOOLEAN ELSE {FALSE} :
        obj' = [obj EXCEPT ![a] =
                 [kind |-> k, stage |-> "new", serial |-> births + 1,
                  announced |-> 0, preview |-> preview]]
  OBVIOUS
<1> DEFINE new == [kind |-> k, stage |-> "new", serial |-> births + 1,
                   announced |-> 0, preview |-> preview]
<1>n. /\ new \in NativeObject /\ new.kind = k /\ new.stage = "new" /\ new.serial = births + 1
      /\ new.announced = 0 /\ (new.preview = TRUE => k = "Tower")
      /\ births' \in 0 .. MaxBirth
  <2>1. births + 1 \in 0 .. MaxBirth /\ births' = births + 1
    BY BoundsAssumption DEF RestType
  <2>2. preview \in BOOLEAN /\ (preview = TRUE => k = "Tower")
    BY <1>b
  <2>3. new \in NativeObject
    BY <2>1, <2>2 DEF NativeObject, AllStages, Settled
  <2> QED  BY <2>1, <2>2, <2>3
<1>e. obj' = [obj EXCEPT ![a] = new]
  BY <1>b
<1> HIDE DEF new
<1>o. /\ ObjectType' /\ obj'[a] = new
      /\ \A b \in Address : b # a => obj'[b] = obj[b]
  BY <1>n, <1>e, ReplaceFacts
<1>f. \A b \in Address : b # a =>
        /\ obj'[b].kind = obj[b].kind /\ obj'[b].serial = obj[b].serial
        /\ obj'[b].stage = obj[b].stage
  BY <1>o
<1>h. \A h \in DOMAIN registry.live : registry.live[h].object # a
  BY NobodyNames, Keys DEF ObjectsOK, Absent
<1>m. NamesLive(registry, obj')
  BY <1>f, <1>h DEF NamesLive
<1>k. <<k, a>> \in Key /\ <<k, a>> # <<"Round", Receiver>> /\ <<"Round", Receiver>> \in Key
      /\ k \in NativeKind
  BY Keys
<1>l. LedgerType' /\ LedgerAdds'
  <2>1. CASE k \in Constructed
    BY <2>1, BoundaryFacts
  <2>2. CASE k \notin Constructed
    BY <2>2 DEF LedgerType, LedgerAdds
  <2> QED  BY <2>1, <2>2
<1> DEFINE created == [event |-> "created", kind |-> k, object |-> a,
                       handle |-> registry.next, flag |-> FALSE]
<1>r. \/ registry' = registry /\ call' = NoCall
      \/ /\ registry' = AddTo(registry, k, a, births + 1)
         /\ call' = created /\ registry.index[<<k, a>>] = 0
  BY DEF Tracked
<1>q. /\ RegistryOK(registry') /\ NamesLive(registry', obj')
      /\ registry'.index[<<"Round", Receiver>>] = registry.index[<<"Round", Receiver>>]
      /\ call' = created => registry'.index[<<k, a>>] = registry.next
  <2>1. CASE registry' = registry /\ call' = NoCall
    BY <2>1, <1>m DEF NoCall
  <2>2. CASE /\ registry' = AddTo(registry, k, a, births + 1)
             /\ call' = created /\ registry.index[<<k, a>>] = 0
    <3>1. /\ RegistryOK(registry')
          /\ registry'.index = [registry.index EXCEPT ![<<k, a>>] = registry.next]
          /\ DOMAIN registry'.live = DOMAIN registry.live \cup {registry.next}
          /\ \A h \in DOMAIN registry.live : registry'.live[h] = registry.live[h]
          /\ registry'.live[registry.next] = Binding(k, a, births + 1)
      BY <2>2, <1>k, AddToFacts
    <3>2. NamesLive(registry', obj')
      BY <3>1, <1>m, <1>o, <1>n DEF NamesLive, Binding, Past
    <3>3. registry.index \in [Key -> 0 .. MaxHandle]
      BY DEF RegistryOK
    <3> QED  BY <3>1, <3>2, <3>3, <1>k
  <2> QED  BY <2>1, <2>2, <1>r
<1>c. \/ call' = NoCall /\ call'.event = "none"
      \/ call' = created /\ call'.event = "created" /\ call'.kind = k /\ call'.object = a
           /\ call'.handle = registry.next /\ call'.flag = FALSE
           /\ call' = [event |-> call'.event, kind |-> call'.kind, object |-> call'.object,
                       handle |-> call'.handle, flag |-> call'.flag]
  BY <1>r DEF NoCall
<1> HIDE DEF created
<1>R. RegistryOK(registry)'
  BY <1>q
<1>N. NamesLive(registry, obj)'
  BY <1>q
<1>T. ObjectType' /\ RestType'
  BY <1>o, <1>n DEF RestType
<1>O. ObjectsOK'
  BY <1>o, <1>n, <1>k DEF ObjectsOK, Absent, InGame
<1>P. PurchaseOK'
  BY <1>o, <1>n DEF PurchaseOK, InGame
<1>D. Delivering'
  BY <1>c, <1>q, <1>k DEF Delivering, NoCall
<1>C. ObjectCall'
  BY <1>c, Rows DEF RowOK, ObjectCall, OtherEvents
<1>I. RoundIndexed'
  BY <1>q, <1>c DEF RoundIndexed, NoCall
<1>L. LedgerType' /\ LedgerAdds'
  BY <1>l
<1> QED  BY <1>R, <1>N, <1>T, <1>O, <1>P, <1>D, <1>C, <1>I, <1>L

-----------------------------------------------------------------------------
LEMMA InitInv ==
  ASSUME Init
  PROVE  EventsInv
<1> USE DEF Init
<1>1. RegistryOK(registry)
  BY BoundsAssumption, EmptyFunction DEF RegistryOK
<1>2. ObjectType
  BY NothingType DEF ObjectType
<1>3. RestType
  BY BoundsAssumption DEF RestType
<1>4. NamesLive(registry, obj)
  BY EmptyFunction DEF NamesLive
<1>5. ObjectsOK /\ PurchaseOK
  BY DEF ObjectsOK, PurchaseOK, Nothing, Absent, InGame
<1>6. Delivering
  BY DEF Delivering, NoCall
<1>7. ObjectCall
  BY Rows DEF ObjectCall, NoCall, RowOK, OtherEvents
<1>8. RoundIndexed
  BY Keys DEF RoundIndexed
<1>9. LedgerType
  BY EmptyFunction DEF LedgerType
<1>10. LedgerAdds
  <2> SUFFICES ASSUME NEW k \in NativeKind
               PROVE  captured[k] = fates[k].destroyed + fates[k].reused
                                      + Cardinality(Watching(watched, k))
    BY DEF LedgerAdds
  <2>1. Watching(watched, k) = {}
    BY EmptyFunction DEF Watching
  <2>2. Cardinality(Watching(watched, k)) = 0
    BY <2>1, FS_EmptySet
  <2> QED  BY <2>2
<1> QED  BY <1>1, <1>2, <1>3, <1>4, <1>5, <1>6, <1>7, <1>8, <1>9, <1>10 DEF EventsInv

LEMMA StutterInv ==
  ASSUME EventsInv, UNCHANGED vars
  PROVE  EventsInv'
<1> USE DEF EventsInv, vars
<1>1. RegistryOK(registry)' /\ NamesLive(registry, obj)'
  OBVIOUS
<1>2. ObjectType' /\ RestType' /\ ObjectsOK' /\ PurchaseOK'
  BY DEF ObjectType, RestType, ObjectsOK, PurchaseOK
<1>3. Delivering' /\ ObjectCall' /\ RoundIndexed'
  BY DEF Delivering, ObjectCall, RoundIndexed
<1>4. LedgerType' /\ LedgerAdds'
  BY DEF LedgerType, LedgerAdds
<1> QED  BY <1>1, <1>2, <1>3, <1>4

LEMMA NextInv ==
  ASSUME EventsInv, [Next]_vars
  PROVE  EventsInv'
<1>1. CASE MatchNext
  BY <1>1, MatchStartingInv, MatchEventInv, MatchEndedInv, MatchEndedReturnInv, ReturnInv
  DEF MatchNext, MatchStarted, MatchEnding
<1>2. CASE RoundNext
  BY <1>2, BeginRoundInv, RoundEventInv, RoundEndedReturnInv, LivesEventInv DEF RoundNext
<1>3. CASE LifetimeNext
  BY <1>3, ConstructInv, DestroyUntrackedInv, DestroySilentlyInv, DestroyTrackedInv, LoseInv,
     DestroyReturnInv DEF LifetimeNext
<1>4. CASE ObjectNext
  BY <1>4, ObjectEventInv, ObjectEventReturnInv, BloonSpawningInv, BloonSpawningReturnInv
  DEF ObjectNext
<1>5. CASE PurchaseNext
  BY <1>5, PurchaseCheckInv, CostCheckInv, PlacePurchasedInv, PlaceInv, PurchaseReturnInv,
     PlaceReturnInv DEF PurchaseNext
<1>6. CASE UNCHANGED vars
  BY <1>6, StutterInv
<1> QED  BY <1>1, <1>2, <1>3, <1>4, <1>5, <1>6 DEF Next

-----------------------------------------------------------------------------
(* The results.                                                            *)

(* The inductive invariant holds in every reachable state: what each       *)
(* handler of object_events.hpp relies on when it runs is true.            *)
THEOREM EventsInvariant == Spec => []EventsInv
<1>1. Init => EventsInv
  BY InitInv
<1>2. EventsInv /\ [Next]_vars => EventsInv'
  BY NextInv
<1> QED  BY <1>1, <1>2, PTL DEF Spec

(* Whatever objects the game creates, destroys and reuses the addresses    *)
(* of: every handle in force names the very object that lives at its       *)
(* address, has not outlived its terminal event, and is the one its index  *)
(* entry leads to.                                                         *)
THEOREM HandlesStayConsistent == Spec => []HandlesConsistent
<1>1. EventsInv => HandlesConsistent
  <2> SUFFICES ASSUME EventsInv
               PROVE  HandlesConsistent
    OBVIOUS
  <2> USE DEF EventsInv
  <2>1. TypeOK
    <3>1. obj \in [Address -> [kind : NativeKind \cup {"none"},
                stage : Settled \cup InGame \cup {"free", "lost", "checking"},
                serial : 0 .. MaxBirth, announced : Nat, preview : BOOLEAN]]
      BY DEF ObjectType, NativeObject, AllStages
    <3> QED  BY <3>1 DEF TypeOK, RegistryOK, RestType, LedgerType
  <2>2. LiveNamesLive
    BY DEF LiveNamesLive, NamesLive, Past, At
  <2>3. EveryLiveHandleIndexed
    BY DEF EveryLiveHandleIndexed, RegistryOK, KeyOf
  <2> QED  BY <2>1, <2>2, <2>3 DEF HandlesConsistent
<1> QED  BY <1>1, EventsInvariant, PTL

(* A wrapper stays valid for the whole delivery that carries it, terminal  *)
(* events included; during match.ended no wrapper is valid.                *)
THEOREM WrapperValidInDelivery == Spec => []ValidWhileDelivered
<1>1. EventsInv => ValidWhileDelivered
  <2> SUFFICES ASSUME EventsInv
               PROVE  ValidWhileDelivered
    OBVIOUS
  <2> USE DEF EventsInv
  <2>1. CASE call # NoCall /\ call.event # "match.ended" /\ call.handle # 0
    <3> DEFINE key == <<call.kind, call.object>>
    <3>1. key \in Key /\ registry.index[key] = call.handle
      BY <2>1 DEF Delivering
    <3>2. call.handle \in DOMAIN registry.live /\ KeyOf(registry.live[call.handle]) = key
      BY <3>1, <2>1 DEF RegistryOK
    <3> QED  BY <3>2, <2>1 DEF ValidWhileDelivered, KeyOf
  <2>2. call.event = "match.ended" => DOMAIN registry.live = {}
    BY EmptyFunction DEF Delivering
  <2> QED  BY <2>1, <2>2 DEF ValidWhileDelivered
<1> QED  BY <1>1, EventsInvariant, PTL

(* A purchase that goes through was announced by tower.placing exactly     *)
(* once, whatever earlier purchases were cancelled or refused.             *)
THEOREM PurchaseOnce == Spec => []PurchaseAnnouncedOnce
<1>1. EventsInv => PurchaseAnnouncedOnce
  BY DEF EventsInv, PurchaseOK, PurchaseAnnouncedOnce, At
<1> QED  BY <1>1, EventsInvariant, PTL

(* Every captured survivor is accounted for once, for every number of      *)
(* objects and matches.                                                    *)
THEOREM LedgerIsBalanced == Spec => []LedgerBalanced
<1>1. EventsInv => LedgerBalanced
  BY DEF EventsInv, LedgerType, LedgerAdds, LedgerBalanced, Watching
<1> QED  BY <1>1, EventsInvariant, PTL

-----------------------------------------------------------------------------
(* No step moves the index entry of a tower or bloon in the game.          *)
Kept ==
  \A a \in Address :
    LET key == <<obj[a].kind, a>>
    IN  /\ At(a, InGame) /\ obj[a].kind \in {"Tower", "Bloon"}
        /\ registry.index[key] # 0
        /\ obj'[a].serial = obj[a].serial /\ obj'[a].stage \in InGame
        => registry'.index[key] = registry.index[key]

(* It is enough that the entries a step clears are of objects that are not *)
(* in the game, or end with the step.                                      *)
LEMMA KeptIf ==
  ASSUME EventsInv,
         \A a \in Address :
           /\ obj[a].stage \in InGame /\ obj'[a].stage \in InGame
           /\ <<obj[a].kind, a>> \in Key /\ registry.index[<<obj[a].kind, a>>] # 0
           => registry'.index[<<obj[a].kind, a>>] = registry.index[<<obj[a].kind, a>>]
  PROVE  Kept
<1>1. \A a \in Address : obj[a].stage \in InGame => <<obj[a].kind, a>> \in Key
  BY Keys DEF EventsInv, ObjectsOK, Absent, InGame
<1> QED  BY <1>1 DEF Kept

LEMMA KeptByDelivery ==
  ASSUME EventsInv, NEW e, NEW k, NEW o, NEW flag, <<k, o>> \in Key,
         registry.next <= MaxHandle, Deliver(e, k, o, flag)
  PROVE  Kept
<1>1. registry' = FindOrAddTo(registry, k, o)
  BY DEF Deliver, DeliverFrom
<1>2. \A key \in Key : registry.index[key] # 0 \/ key # <<k, o>> =>
        registry'.index[key] = registry.index[key]
  BY <1>1, FindOrAddToFacts DEF EventsInv
<1> QED  BY <1>2, KeptIf

LEMMA KeptByInvalidate ==
  ASSUME EventsInv, NEW key0 \in Key,
         registry' = InvalidateIn(registry, registry.index[key0]),
         \A a \in Address : key0 = <<obj[a].kind, a>> =>
           obj[a].stage \notin InGame \/ obj'[a].stage \notin InGame
  PROVE  Kept
<1>1. \A key \in Key : key # key0 => registry'.index[key] = registry.index[key]
  BY KeyInvalidated DEF EventsInv
<1> QED  BY <1>1, KeptIf

LEMMA MatchKept ==
  ASSUME EventsInv, MatchNext
  PROVE  Kept
<1>1. CASE MatchStarting
  BY <1>1, KeptIf DEF MatchStarting, EventsInv, ObjectsOK
<1>2. CASE MatchStarted
  BY <1>2, Keys, KeptByDelivery DEF MatchStarted, MatchEvent, Quiet
<1>3. CASE MatchEnding
  BY <1>3, Keys, KeptByDelivery DEF MatchEnding, MatchEvent, Quiet
<1>4. CASE MatchEnded
  <2>1. \A a \in Address : obj'[a].stage \notin InGame
    <3>1. \A a \in Address : obj'[a] = IF At(a, {"free", "lost"}) THEN obj[a]
                                       ELSE [obj[a] EXCEPT !.stage = "left"]
      BY <1>4 DEF MatchEnded
    <3>2. \A a \in Address : obj[a] \in NativeObject
      BY DEF EventsInv, ObjectType
    <3> QED  BY <3>1, <3>2 DEF NativeObject, At, InGame
  <2> QED  BY <2>1, KeptIf
<1>5. CASE MatchEndedReturn
  BY <1>5, KeptIf DEF MatchEndedReturn
<1>6. CASE Return
  BY <1>6, KeptIf DEF Return
<1> QED  BY <1>1, <1>2, <1>3, <1>4, <1>5, <1>6 DEF MatchNext

LEMMA RoundKept ==
  ASSUME EventsInv, RoundNext
  PROVE  Kept
<1> DEFINE key0 == <<"Round", Receiver>>
<1>k. key0 \in Key /\ \A a \in Address : key0 # <<obj[a].kind, a>>
  BY Keys
<1>1. CASE BeginRound
  <2> DEFINE r == InvalidateIn(registry, round)
  <2>1. round = registry.index[key0]
    BY <1>1 DEF BeginRound, Quiet, NoCall, EventsInv, RoundIndexed
  <2>2. /\ RegistryOK(r) /\ r.next = registry.next
        /\ \A key \in Key : r.index[key] = IF key = key0 THEN 0 ELSE registry.index[key]
    BY <2>1, <1>k, KeyInvalidated DEF EventsInv
  <2>3. registry' = AddTo(r, "Round", Receiver, 0) /\ registry.next <= MaxHandle
    BY <1>1 DEF BeginRound, Quiet
  <2> HIDE DEF r
  <2>4. registry'.index = [r.index EXCEPT ![key0] = r.next]
    BY <2>2, <2>3, <1>k, AddToFacts
  <2>5. r.index \in [Key -> 0 .. MaxHandle]
    BY <2>2 DEF RegistryOK
  <2>6. \A key \in Key : key # key0 => registry'.index[key] = registry.index[key]
    BY <2>2, <2>4, <2>5
  <2> QED  BY <2>6, <1>k, KeptIf
<1>2. CASE RoundEvent("round") \/ RoundEvent("round.ended")
  BY <1>2, KeptIf DEF RoundEvent
<1>3. CASE RoundEndedReturn
  <2>1. call.handle = registry.index[key0]
    BY <1>3 DEF RoundEndedReturn, EventsInv, RoundIndexed, Delivering
  <2>2. registry' = InvalidateIn(registry, registry.index[key0])
    BY <2>1, <1>3 DEF RoundEndedReturn
  <2> QED  BY <2>2, <1>k, KeptByInvalidate
<1>4. CASE LivesEvent
  BY <1>4, Keys, KeptByDelivery DEF LivesEvent, Quiet
<1> QED  BY <1>1, <1>2, <1>3, <1>4 DEF RoundNext

LEMMA LifetimeKept ==
  ASSUME EventsInv, LifetimeNext
  PROVE  Kept
<1>1. ASSUME NEW k \in NativeKind, NEW a \in Address, Construct(k, a)
      PROVE  Kept
  <2>1. \/ registry' = registry
        \/ /\ registry' = AddTo(registry, k, a, births + 1)
           /\ registry.index[<<k, a>>] = 0
    BY <1>1 DEF Construct, Tracked
  <2>2. registry.next <= MaxHandle /\ <<k, a>> \in Key
    BY <1>1, Keys DEF Construct, Quiet
  <2>3. registry.index \in [Key -> 0 .. MaxHandle]
    BY DEF EventsInv, RegistryOK
  <2>4. \A key \in Key : registry.index[key] # 0 => registry'.index[key] = registry.index[key]
    <3>1. CASE registry' = registry
      BY <3>1
    <3>2. CASE /\ registry' = AddTo(registry, k, a, births + 1)
               /\ registry.index[<<k, a>>] = 0
      <4>1. registry'.index = [registry.index EXCEPT ![<<k, a>>] = registry.next]
        BY <3>2, <2>2, AddToFacts DEF EventsInv
      <4> QED  BY <4>1, <3>2, <2>3
    <3> QED  BY <3>1, <3>2, <2>1
  <2> QED  BY <2>4, KeptIf
<1>2. ASSUME NEW a \in Address, DestroyUntracked(a)
      PROVE  Kept
  BY <1>2, KeptIf DEF DestroyUntracked
<1>3. ASSUME NEW a \in Address, DestroySilently(a)
      PROVE  Kept
  <2>1. <<obj[a].kind, a>> \in Key
    BY <1>3, Keys DEF DestroySilently, Quiet, EventsInv, ObjectsOK, Absent, Settled, At
  <2>2. obj'[a] = Nothing
    BY <1>3 DEF DestroySilently, EventsInv, ObjectType
  <2>3. obj'[a].stage \notin InGame
    BY <2>2 DEF Nothing, InGame
  <2> QED  BY <1>3, <2>1, <2>3, KeptByInvalidate DEF DestroySilently
<1>4. ASSUME NEW a \in Address, DestroyTracked(a)
      PROVE  Kept
  <2>1. <<obj[a].kind, a>> \in Key
    BY <1>4, Keys DEF DestroyTracked, Quiet, EventsInv, ObjectsOK, Absent, Settled, At
  <2> QED  BY <1>4, <2>1, KeptByDelivery DEF DestroyTracked, Quiet
<1>5. ASSUME NEW a \in Address, Lose(a)
      PROVE  Kept
  BY <1>5, KeptIf DEF Lose
<1>6. ASSUME DestroyReturn
      PROVE  Kept
  <2>1. /\ call.object \in Address /\ <<call.kind, call.object>> \in Key
        /\ registry.index[<<call.kind, call.object>>] = call.handle
    BY <1>6, Keys DEF DestroyReturn, EventsInv, ObjectCall, Delivering
  <2>2. obj'[call.object] = Nothing
    BY <1>6, <2>1 DEF DestroyReturn, EventsInv, ObjectType
  <2>3. obj'[call.object].stage \notin InGame
    BY <2>2 DEF Nothing, InGame
  <2> QED  BY <1>6, <2>1, <2>3, KeptByInvalidate DEF DestroyReturn
<1> QED  BY <1>1, <1>2, <1>3, <1>4, <1>5, <1>6 DEF LifetimeNext

LEMMA ObjectKept ==
  ASSUME EventsInv, ObjectNext
  PROVE  Kept
<1>1. ASSUME NEW row \in ObjectEvents, NEW a \in Address, ObjectEvent(row, a)
      PROVE  Kept
  <2>1. <<row.kind, a>> \in Key
    BY <1>1, Keys, Rows DEF ObjectEvent, EventsInv, ObjectsOK, Absent, RowOK, InGame, At
  <2> QED  BY <1>1, <2>1, KeptByDelivery DEF ObjectEvent, Quiet
<1>2. ASSUME NEW row \in ObjectEvents, ObjectEventReturn(row)
      PROVE  Kept
  <2>1. RowOK(row)
    BY Rows
  <2>2. CASE row.terminal = FALSE
    <3>1. registry' = registry
      BY <1>2, <2>2 DEF ObjectEventReturn
    <3> QED  BY <3>1, KeptIf
  <2>3. CASE row.terminal = TRUE
    <3>1. /\ call.object \in Address /\ call.event = row.event /\ call.kind = row.kind
          /\ call.event \notin OtherEvents /\ call.handle # 0
          /\ registry' = InvalidateIn(registry, call.handle)
      BY <1>2, <2>1, <2>3 DEF ObjectEventReturn, EventsInv, ObjectCall, RowOK
    <3>2. /\ <<call.kind, call.object>> \in Key
          /\ registry.index[<<call.kind, call.object>>] = call.handle
      BY <3>1 DEF EventsInv, Delivering, OtherEvents
    <3>3. SetStage(call.object, "gone")
      BY <1>2, <2>1, <2>3 DEF ObjectEventReturn, RowOK
    <3>4. obj'[call.object].stage \notin InGame
      BY <3>1, <3>3 DEF SetStage, EventsInv, ObjectType, NativeObject, InGame
    <3> QED  BY <3>1, <3>2, <3>4, KeptByInvalidate
  <2> QED  BY <2>1, <2>2, <2>3 DEF RowOK
<1>3. ASSUME NEW a \in Address, NEW fromRound \in BOOLEAN, BloonSpawning(a, fromRound)
      PROVE  Kept
  <2>1. <<"Bloon", a>> \in Key
    BY <1>3, Keys DEF BloonSpawning, EventsInv, ObjectsOK, Absent, At
  <2> QED  BY <1>3, <2>1, KeptByDelivery DEF BloonSpawning, Quiet
<1>4. ASSUME NEW cancelled \in BOOLEAN, BloonSpawningReturn(cancelled)
      PROVE  Kept
  <2>1. /\ call.object \in Address /\ obj[call.object].stage = "new"
        /\ <<call.kind, call.object>> \in Key
        /\ registry.index[<<call.kind, call.object>>] = call.handle
    BY <1>4 DEF BloonSpawningReturn, EventsInv, ObjectCall, Delivering
  <2>2. registry' = registry \/ registry' = InvalidateIn(registry, call.handle)
    BY <1>4 DEF BloonSpawningReturn
  <2>3. CASE registry' = registry
    BY <2>3, KeptIf
  <2>4. CASE registry' = InvalidateIn(registry, call.handle)
    BY <2>4, <2>1, KeptByInvalidate DEF InGame
  <2> QED  BY <2>2, <2>3, <2>4
<1> QED  BY <1>1, <1>2, <1>3, <1>4 DEF ObjectNext

LEMMA PurchaseKept ==
  ASSUME EventsInv, PurchaseNext
  PROVE  Kept
<1>1. ASSUME NEW a \in Address, PurchaseCheck(a)
      PROVE  Kept
  <2>1. <<"Tower", a>> \in Key
    BY <1>1, Keys DEF PurchaseCheck, EventsInv, ObjectsOK, Absent, At
  <2> QED  BY <1>1, <2>1, KeptByDelivery DEF PurchaseCheck, Quiet
<1>2. ASSUME NEW a \in Address, CostCheck(a)
      PROVE  Kept
  BY <1>2, KeptIf DEF CostCheck
<1>3. ASSUME NEW a \in Address, PlacePurchased(a)
      PROVE  Kept
  BY <1>3, KeptIf DEF PlacePurchased
<1>4. ASSUME NEW a \in Address, Place(a)
      PROVE  Kept
  <2>1. <<"Tower", a>> \in Key
    BY <1>4, Keys DEF Place, AtManager, EventsInv, ObjectsOK, Absent, At
  <2> QED  BY <1>4, <2>1, KeptByDelivery DEF Place, AtManager
<1>5. ASSUME NEW cancelled \in BOOLEAN, PurchaseReturn(cancelled)
      PROVE  Kept
  BY <1>5, KeptIf DEF PurchaseReturn
<1>6. ASSUME PlaceReturn
      PROVE  Kept
  BY <1>6, KeptIf DEF PlaceReturn
<1> QED  BY <1>1, <1>2, <1>3, <1>4, <1>5, <1>6 DEF PurchaseNext

(* A tower or bloon keeps its handle through every non-terminal event,     *)
(* whatever is constructed, destroyed or replaced around it.               *)
THEOREM HandleIsKept == Spec => HandleKept
<1>1. EventsInv /\ [Next]_vars => [Kept]_vars
  BY MatchKept, RoundKept, LifetimeKept, ObjectKept, PurchaseKept DEF Next
<1>2. [Kept]_vars =>
        [\A a \in Address :
           LET key == <<obj[a].kind, a>>
           IN  /\ At(a, InGame) /\ obj[a].kind \in {"Tower", "Bloon"}
               /\ registry.index[key] # 0
               /\ obj'[a].serial = obj[a].serial /\ obj'[a].stage \in InGame
               => registry'.index[key] = registry.index[key]]_vars
  BY DEF Kept
<1> QED  BY <1>1, <1>2, EventsInvariant, PTL DEF Spec, HandleKept
=============================================================================
