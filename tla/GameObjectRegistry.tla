------------------------- MODULE GameObjectRegistry -------------------------
(***************************************************************************)
(* GameObjectRegistry (src/native/runtime/game_object.cpp): the table that *)
(* lets Lua hold a native game object by an opaque handle.  Every public   *)
(* member function takes the registry's mutex for its whole body, so each  *)
(* is one step.                                                            *)
(*                                                                         *)
(* slots_ is a vector: slots[1 .. size] are its elements (the code's ids   *)
(* are 1-based).  index_ maps a (kind, object) key to an id, 0 where the   *)
(* key is absent.  free_ids_ is a stack, its top is the last element.      *)
(*                                                                         *)
(* Bounds.  GenMod stands for 2^32: generations run over 1 .. GenMod-1 and *)
(* wrap to 1.  MaxReuse bounds how often one slot is freed in one scene;   *)
(* it keeps a scene short of one full turn of the generation counter.      *)
(* MaxScene stands for 2^64 - 1 and the scene counter's wrap is left out.  *)
(***************************************************************************)
EXTENDS Integers, Sequences

CONSTANTS
  Kind,       \* the enumerators of GameObjectKind in use, "Match" among them
  Object,     \* native object addresses
  NullObject,   \* nullptr
  Capacity,   \* the largest number of slots, numeric_limits<uint32>::max()
  GenMod,     \* 2^32, the generation counter's modulus
  MaxReuse,   \* bound: invalidations of one slot within one scene
  MaxScene    \* bound: scenes begun

ASSUME CapacityAssumption == Capacity \in Nat \ {0}
ASSUME GenerationAssumption ==
  GenMod \in Nat /\ MaxReuse \in Nat /\ MaxReuse + 2 <= GenMod
ASSUME SceneAssumption == MaxScene \in Nat \ {0}
ASSUME KindAssumption == "Match" \in Kind
ASSUME NullObjectAssumption == NullObject \notin Object

VARIABLES
  size,      \* slots_.size()
  slots,     \* slots_
  index,     \* index_
  freeIds,   \* free_ids_
  scene,     \* scene_
  reuse,     \* history: invalidations of each slot since the scene began
  issued     \* history: every handle returned, its object, and reuse then

registryVars == <<size, slots, index, freeIds, scene, reuse, issued>>

Id == 1 .. Capacity
Generation == 1 .. (GenMod - 1)
Scene == 1 .. MaxScene
Slot == [generation : Generation, scene : 0 .. MaxScene, kind : Kind,
         object : Object \cup {NullObject}]
Handle == [id : Id, generation : Generation, scene : Scene, kind : Kind]
Issued == [handle : Handle, object : Object, reuse : 0 .. MaxReuse]

(* Deviations.  An operator introduced by "Deviation" is a plausible       *)
(* mistake in the definition that follows it; no action uses it.           *)
(* Deviation: the generation stays. *)
NextGenerationUnchanged(g) == g

(* ++slot.generation, skipping 0. *)
NextGeneration(g) == IF g = GenMod - 1 THEN 1 ELSE g + 1

EmptySlot(s) == s.object = NullObject
HandleOf(id, s) ==
  [id |-> id, generation |-> s.generation, scene |-> s.scene, kind |-> s.kind]
LiveIds == {id \in 1 .. size : ~EmptySlot(slots[id])}

(* find(): the handle index_ leads to. *)
Found(k, o) == index[<<k, o>>] # 0
FindHandle(k, o) == HandleOf(index[<<k, o>>], slots[index[<<k, o>>]])

(* Deviation: the generation is not compared. *)
MatchesAnyGeneration(h, s) ==
  ~EmptySlot(s) /\ s.scene = h.scene /\ s.kind = h.kind

(* resolve(): the object behind a handle, if every part still matches. *)
Matches(h, s) ==
  /\ ~EmptySlot(s)
  /\ s.generation = h.generation
  /\ s.scene = h.scene
  /\ s.kind = h.kind
Resolve(h, k) ==
  IF h.id \in 1 .. size /\ h.kind = k /\ Matches(h, slots[h.id])
     /\ slots[h.id].scene = scene
  THEN slots[h.id].object
  ELSE NullObject

-----------------------------------------------------------------------------
(* Slot{}: what push_back({}) appends. *)
NewSlot == [generation |-> 1, scene |-> 0, kind |-> "Match", object |-> NullObject]

RegistryInit ==
  /\ size = 0
  /\ slots = [id \in Id |-> NewSlot]
  /\ index = [key \in Kind \X Object |-> 0]
  /\ freeIds = <<>>
  /\ scene = 1
  /\ reuse = [id \in Id |-> 0]
  /\ issued = {}

(* The slot add_locked() takes: the top of free_ids_, else a new element. *)
TakeId ==
  IF freeIds = <<>> THEN size + 1 ELSE freeIds[Len(freeIds)]

(* add_locked(): nothing happens, and {} is returned, in a full table. *)
AddLocked(k, o) ==
  /\ freeIds # <<>> \/ size < Capacity
  /\ LET id == TakeId
         s  == [generation |-> slots[id].generation, scene |-> scene,
                kind |-> k, object |-> o]
     IN  /\ slots' = [slots EXCEPT ![id] = s]
         /\ index' = [index EXCEPT ![<<k, o>>] = id]
         /\ issued' = issued \cup {[handle |-> HandleOf(id, s), object |-> o,
                                    reuse |-> reuse[id]]}
  /\ IF freeIds = <<>>
     THEN size' = size + 1 /\ UNCHANGED freeIds
     ELSE freeIds' = SubSeq(freeIds, 1, Len(freeIds) - 1) /\ UNCHANGED size
  /\ UNCHANGED <<scene, reuse>>

(* add(): called for a new round receiver and for a new attack. *)
Add(k, o) == AddLocked(k, o)

(* find_or_add(): a tracked object keeps the handle it has. *)
FindOrAdd(k, o) ==
  IF Found(k, o) THEN UNCHANGED registryVars ELSE AddLocked(k, o)

(* The index entry goes only if it is the invalidated slot's own. *)
Unindex(id, s) ==
  IF index[<<s.kind, s.object>>] = id
  THEN [index EXCEPT ![<<s.kind, s.object>>] = 0]
  ELSE index

(* invalidate(): a handle that no longer matches its slot is refused. *)
Invalidate(h) ==
  /\ h.id \in 1 .. size
  /\ Matches(h, slots[h.id])
  /\ reuse[h.id] < MaxReuse
  /\ index' = Unindex(h.id, slots[h.id])
  /\ slots' = [slots EXCEPT
                 ![h.id] = [slots[h.id] EXCEPT
                              !.object = NullObject,
                              !.generation = NextGeneration(@)]]
  /\ freeIds' = Append(freeIds, h.id)
  /\ reuse' = [reuse EXCEPT ![h.id] = @ + 1]
  /\ UNCHANGED <<size, scene, issued>>

(* Deviation: the free stack is not cleared before it is refilled. *)
BeginSceneKeepingFreeIds ==
  /\ scene < MaxScene
  /\ scene' = scene + 1
  /\ index' = [key \in Kind \X Object |-> 0]
  /\ slots' = [id \in Id |->
                 IF id <= size
                 THEN [slots[id] EXCEPT !.object = NullObject,
                                        !.generation = NextGeneration(@)]
                 ELSE slots[id]]
  /\ freeIds' = freeIds \o [i \in 1 .. size |-> i]
  /\ reuse' = [id \in Id |-> 0]
  /\ UNCHANGED <<size, issued>>

(* begin_scene(): every slot is emptied and its generation moves on. *)
BeginScene ==
  /\ scene < MaxScene
  /\ scene' = scene + 1
  /\ index' = [key \in Kind \X Object |-> 0]
  /\ slots' = [id \in Id |->
                 IF id <= size
                 THEN [slots[id] EXCEPT !.object = NullObject,
                                        !.generation = NextGeneration(@)]
                 ELSE slots[id]]
  /\ freeIds' = [i \in 1 .. size |-> i]
  /\ reuse' = [id \in Id |-> 0]
  /\ UNCHANGED <<size, issued>>

RegistryNext ==
  \/ \E k \in Kind, o \in Object : Add(k, o)
  \/ \E k \in Kind, o \in Object : FindOrAdd(k, o)
  \/ \E e \in issued : Invalidate(e.handle)
  \/ BeginScene

RegistrySpec == RegistryInit /\ [][RegistryNext]_registryVars

-----------------------------------------------------------------------------
(* Every variable keeps its type. *)
RegistryTypeOK ==
  /\ size \in 0 .. Capacity
  /\ slots \in [Id -> Slot]
  /\ index \in [Kind \X Object -> 0 .. Capacity]
  /\ freeIds \in Seq(Id)
  /\ scene \in Scene
  /\ reuse \in [Id -> 0 .. MaxReuse]
  /\ issued \subseteq Issued

(* game_object.cpp:33,105-108: an index entry leads to a live slot that      *)
(* holds exactly the indexed kind and object, through every order of adds,  *)
(* re-adds of the same object and invalidations.                            *)
IndexSound ==
  \A k \in Kind, o \in Object :
    index[<<k, o>>] # 0 =>
      /\ index[<<k, o>>] \in LiveIds
      /\ slots[index[<<k, o>>]].kind = k
      /\ slots[index[<<k, o>>]].object = o

(* game_object.cpp:19-28,114,133: the free stack holds each empty slot      *)
(* once and no other, so no add can take a slot that is in use and no slot  *)
(* is lost.                                                                 *)
FreeListExact ==
  /\ \A i \in 1 .. Len(freeIds) : freeIds[i] \in (1 .. size) \ LiveIds
  /\ \A i, j \in 1 .. Len(freeIds) : freeIds[i] = freeIds[j] => i = j
  /\ \A id \in (1 .. size) \ LiveIds :
       \E i \in 1 .. Len(freeIds) : freeIds[i] = id

(* game_object.cpp:137-150: whatever happened since it was issued, a handle *)
(* resolves to the object it was issued for or to nothing.                  *)
ResolvesToItsObject ==
  \A e \in issued : \A k \in Kind :
    Resolve(e.handle, k) \in {e.object, NullObject}

(* gameplay-events.md "IDs may be reused, but a new generation prevents an  *)
(* old wrapper from resolving to the replacement object": a handle that     *)
(* stopped resolving never resolves again.                                  *)
StaleStaysStale ==
  [][\A e \in issued :
       Resolve(e.handle, e.handle.kind) = NullObject =>
         Resolve(e.handle, e.handle.kind)' = NullObject]_registryVars

-----------------------------------------------------------------------------
(* The strengthening that makes the invariants inductive. *)

(* The generation reached from g after n increments, n < GenMod - 1. *)
Advance(g, n) == IF g + n < GenMod THEN g + n ELSE g + n - (GenMod - 1)

(* A slot in use was filled in the running scene. *)
LiveInScene == \A id \in LiveIds : slots[id].scene = scene

(* Slots past the end of the vector are as push_back({}) will make them. *)
UnusedFresh ==
  \A id \in Id : id > size => EmptySlot(slots[id]) /\ reuse[id] = 0

(* In force: issued in this scene and the slot not freed since. *)
InForce(e) == e.handle.scene = scene /\ e.reuse = reuse[e.handle.id]

IssuedTracked ==
  \A e \in issued :
    /\ e.handle.id <= size
    /\ e.handle.scene <= scene
    /\ e.handle.scene = scene =>
         /\ e.reuse <= reuse[e.handle.id]
         /\ slots[e.handle.id].generation =
              Advance(e.handle.generation, reuse[e.handle.id] - e.reuse)
    /\ InForce(e) =>
         /\ slots[e.handle.id].object = e.object
         /\ slots[e.handle.id].kind = e.handle.kind

LiveIssued ==
  \A id \in LiveIds :
    [handle |-> HandleOf(id, slots[id]), object |-> slots[id].object,
     reuse |-> reuse[id]] \in issued

RegistryInv ==
  /\ RegistryTypeOK
  /\ IndexSound
  /\ FreeListExact
  /\ LiveInScene
  /\ UnusedFresh
  /\ IssuedTracked
  /\ LiveIssued

-----------------------------------------------------------------------------
(* The refinement: live slots are the bindings in force. *)
LiveBindings ==
  {[handle |-> HandleOf(id, slots[id]), object |-> slots[id].object] :
     id \in LiveIds}
RetiredHandles ==
  {e.handle : e \in issued} \ {b.handle : b \in LiveBindings}

Table == INSTANCE HandleTable
           WITH bound <- LiveBindings, retired <- RetiredHandles
ImplementsTable == Table!TableSpec
=============================================================================
