--------------------------- MODULE RegistryProofs ---------------------------
(***************************************************************************)
(* The safety invariants of the compositor; that it implements the         *)
(* registry of surfaces, and that it unmaps every buffer it mapped and     *)
(* closes every descriptor it knows of.  Each event has one of five        *)
(* effects on the table of surfaces; each effect is a step of the          *)
(* registry, or none that it sees.                                         *)
(***************************************************************************)
EXTENDS CompositorProofs, FiniteSetTheorems

\* A leaf that names no prover goes to SMT, to Zenon and to SMT once more, the
\* solver's encoding being limited by the clock.
USE SMTT(30), Zenon, SMTT(60)

-----------------------------------------------------------------------------
(* The inductive invariant holds.                                          *)

\* Any set of slots is finite.
LEMMA SlotsFinite ==
  ASSUME NEW S, S \subseteq Slots
  PROVE  IsFiniteSet(S) /\ Cardinality(S) \in Nat
<1>1. IsFiniteSet(Slots)
  BY FS_Interval, Constants DEF Slots
<1> QED
  BY <1>1, FS_Subset, FS_CardinalityType

\* The invariants hold throughout.
LEMMA Invariant == Spec => [](IInv /\ DisplayInv)
<1>1. Counting
  BY SlotsFinite DEF Counting
<1>2. IInv /\ DisplayInv /\ [Next]_vars => IInv' /\ DisplayInv'
  BY <1>1, StepInvariant
<1> QED
  BY <1>2, InitInvariant, PTL DEF Spec

-----------------------------------------------------------------------------
(* The theorems.                                                           *)

\* Every variable of the compositor keeps its type; above all, the tables of
\* surfaces, pending descriptors and grabs never hold more than they can.
THEOREM CompositorTypes == Spec => []TypeOK
<1>1. IInv => TypeOK
  BY DEF IInv
<1> QED
  BY <1>1, Invariant, PTL

\* However window managers come and go, wm_client is a connected client with
\* the capability, or NULL.
THEOREM WmPointer == Spec => []WmIsConnected
<1>1. IInv => WmIsConnected
  BY DEF IInv
<1> QED
  BY <1>1, Invariant, PTL

\* No surface outlives its owner's connection on any error path, and the layers
\* from the shell's upward are root's.
THEOREM SurfaceOwnership == Spec => []SurfacesAreOwned
<1>1. IInv => SurfacesAreOwned
  BY DEF IInv, SlotsOK, SlotOK, SurfacesAreOwned, InUse
<1> QED
  BY <1>1, Invariant, PTL

\* The focus that lgp_state_close_client and lgp_handle_destroy_surface leave
\* behind is harmless: keys never reach a client the focused surface does not
\* belong to.
THEOREM FocusNeverStrays == Spec => []KeysNeverStray
<1>1. ASSUME IInv PROVE KeysNeverStray
  <2>1. clients \subseteq Sessions /\ 0 \notin clients
    BY <1>1, Constants DEF IInv, TypeOK, Sessions
  <2>2. wm # 0 => wm \in clients
    BY <1>1 DEF IInv, WmIsConnected
  <2>3. \A i \in InUse : i \in Slots /\ surf[i].id # 0 /\ surf[i].owner \in clients
    BY <1>1 DEF IInv, SlotsOK, SlotOK, InUse
  <2>4. \A i \in Find(focus.surface) : surf[i].owner = focus.session
    BY <1>1, <2>3 DEF IInv, FocusOK, Find
  <2>5. focus.session < next_session /\ focus.surface < next_surface
    BY <1>1 DEF IInv, FocusOK
  <2>6. ASSUME NEW k \in Keys, NEW i \in Find(focus.surface)
        PROVE  Reached({KeyTarget(k)}) \in {{surf[i].owner}, {wm}}
    <3>1. surf[i].owner = focus.session /\ focus.session \in clients
      BY <2>3, <2>4, <2>6 DEF Find
    <3>2. KeyTarget(k) \in clients /\ KeyTarget(k) \in {wm, focus.session}
      BY <2>2, <3>1 DEF KeyTarget
    <3> QED
      BY <3>1, <3>2 DEF Reached
  <2>7. ASSUME NEW x \in 0..Width - 1
        PROVE  Reached(MotionTargets(x)) = MotionTargets(x) \ {0}
    <3>1. PointerTarget(surf, wm, x) \subseteq InUse
      BY DEF PointerTarget, Hittable, InUse
    <3> QED
      BY <2>1, <2>2, <2>3, <3>1 DEF Reached, MotionTargets
  <2> QED
    BY <2>4, <2>5, <2>6, <2>7 DEF KeysNeverStray
<1> QED
  BY <1>1, Invariant, PTL

\* The compositor serves only with its socket's name in place and the display
\* in its hands.
THEOREM ServesTheDisplay == Spec => []ServesWhatItHolds
<1>1. DisplayInv => ServesWhatItHolds
  BY DEF DisplayInv, Needed, Base, Device, Buffer, Resources,
     ServesWhatItHolds,
         Serving
<1> QED
  BY <1>1, Invariant, PTL

\* Whichever step of the start fails, main gives back all of the display it had
\* acquired.
THEOREM UnwindsTheDisplay == Spec => []ReturnsTheDisplay
<1>1. DisplayInv => ReturnsTheDisplay
  BY DEF DisplayInv, Needed, Optional, ReturnsTheDisplay
<1> QED
  BY <1>1, Invariant, PTL

-----------------------------------------------------------------------------
(* Owners by id.                                                           *)

\* The slots of the table s that are in use, and those of them with a buffer.
Used(s) == {i \in Slots : s[i].id # 0}
Mapped(s) == {i \in Used(s) : s[i].mapped}

\* o gives the surfaces of the table s their owners.
Owns(o, s) ==
  /\ DOMAIN o = {s[i].id : i \in Used(s)}
  /\ o = [id \in DOMAIN o |-> o[id]]
  /\ \A i \in Used(s) : o[s[i].id] = s[i].owner

\* With ids that are unique, any slot CHOOSE finds for an id is the right one.
LEMMA OwnersByChoice ==
  ASSUME NEW s, \A i, j \in Slots : s[i].id = s[j].id /\ s[i].id # 0 => i = j
  PROVE  Owns([id \in {s[i].id : i \in Used(s)} |->
                 s[CHOOSE i \in {j \in Used(s) : s[j].id = id} : TRUE].owner], s)
<1> DEFINE o == [id \in {s[i].id : i \in Used(s)} |->
                   s[CHOOSE i \in {j \in Used(s) : s[j].id = id} : TRUE].owner]
<1>1. ASSUME NEW i \in Used(s)
      PROVE  (CHOOSE k \in {j \in Used(s) : s[j].id = s[i].id} : TRUE) = i
  <2>1. {j \in Used(s) : s[j].id = s[i].id} = {i}
    BY <1>1 DEF Used
  <2> QED
    BY <2>1
<1>2. ASSUME NEW i \in Used(s) PROVE o[s[i].id] = s[i].owner
  <2>1. s[i].id \in {s[k].id : k \in Used(s)}
    BY <1>2
  <2>2. o[s[i].id] = s[CHOOSE k \in {j \in Used(s) : s[j].id = s[i].id} : TRUE].owner
    BY <2>1
  <2> QED
    BY <1>1, <2>2, Zenon
<1>3. DOMAIN o = {s[i].id : i \in Used(s)} /\ o = [id \in DOMAIN o |-> o[id]]
  OBVIOUS
<1> HIDE DEF o
<1>4. Owns(o, s)
  BY <1>2, <1>3 DEF Owns
<1> QED
  BY <1>4 DEF o

\* OwnerOf is such a function, before a step and after it.
LEMMA OwnerOfOwns ==
  ASSUME IInv, IInv'
  PROVE  Owns(OwnerOf, surf) /\ Owns(OwnerOf', surf')
<1>1. Owns(OwnerOf, surf)
  <2>1. \A i, j \in Slots : surf[i].id = surf[j].id /\ surf[i].id # 0 => i = j
    BY DEF IInv, IdsUnique
  <2> QED
    BY <2>1, OwnersByChoice DEF OwnerOf, Ids, InUse, Find, Used
<1>2. Owns(OwnerOf', surf')
  <2>1. \A i, j \in Slots : surf'[i].id = surf'[j].id /\ surf'[i].id # 0 => i = j
    BY DEF IInv, IdsUnique
  <2> QED
    BY <2>1, OwnersByChoice, Zenon DEF OwnerOf, Ids, InUse, Find, Used
<1> QED
  BY <1>1, <1>2

-----------------------------------------------------------------------------
(* The effects of an event.                                                *)

SameOwner(i) == surf'[i].id = surf[i].id /\ surf'[i].owner = surf[i].owner

\* Clients and surfaces are who they were.
Quiet ==
  /\ UNCHANGED <<clients, next_session, next_surface>>
  /\ \A i \in Slots : SameOwner(i)

\* The client c has gone, and its surfaces with it.
Gone(c) ==
  /\ clients' = clients \ {c} /\ UNCHANGED next_session
  /\ next_surface' \in {next_surface, next_surface + 1}
  /\ \A i \in Slots : IF surf[i].owner = c THEN surf'[i].id = 0 ELSE SameOwner(i)

\* c has a new surface in slot i.
Made(c, i) ==
  /\ UNCHANGED <<clients, next_session>> /\ next_surface' = next_surface + 1
  /\ surf[i].id = 0 /\ surf'[i].id = next_surface /\ surf'[i].owner = c
  /\ \A j \in Slots \ {i} : SameOwner(j)

\* The surface in slot i has gone.
Dropped(i) ==
  /\ UNCHANGED <<clients, next_session, next_surface>>
  /\ surf[i].id # 0 /\ surf'[i].id = 0
  /\ \A j \in Slots \ {i} : SameOwner(j)

Effect ==
  \/ Quiet \/ Accept
  \/ \E c \in clients : Gone(c) \/ (\E i \in Slots : Made(c, i))
  \/ \E i \in Slots : Dropped(i)

\* maps follows the number of slots with a buffer.
MapsFollow == maps' - maps = Cardinality(Mapped(surf')) - Cardinality(Mapped(surf))

\* lgp_state_close_client lets the client's surfaces go and no others.
LEMMA CloseEffect ==
  ASSUME IInv, NEW c \in clients, NEW s, LeftBehind(s, c), NEW leaked,
         \A i \in Slots : s[i].owner = c => surf[i].owner = c \/ surf[i].id = 0,
         CloseWith(c, s, leaked),
         next_surface' \in {next_surface, next_surface + 1}
  PROVE  Gone(c) /\ MapsFollow
<1>1. \A i \in Slots : surf'[i] = IF s[i].owner = c THEN Free ELSE s[i]
  BY DEF CloseWith, Released
<1>2. c # 0 /\ \A i \in Slots : surf[i].id = 0 => surf[i].owner = 0 /\ ~surf[i].mapped
  BY Constants DEF IInv, TypeOK, Sessions, SlotsOK, SlotOK
<1>3. \A i \in Slots : IF surf[i].owner = c THEN surf'[i] = Free
                       ELSE SameOwner(i) /\ (surf[i].id # 0 => surf'[i].mapped = surf[i].mapped)
  BY <1>1, <1>2 DEF LeftBehind, SameSlot, SameOwner, Free
<1>4. Gone(c)
  BY <1>3 DEF Gone, CloseWith, Free
<1>5. MapsFollow
  <2> DEFINE mine == {i \in Of(c) : surf[i].mapped}
  <2>1. Mapped(surf') = Mapped(surf) \ mine /\ mine \subseteq Mapped(surf)
    <3>1. mine = {i \in Mapped(surf) : surf[i].owner = c}
      BY DEF Mapped, Used, Of, InUse
    <3>2. \A i \in Slots : i \in Mapped(surf') <=> i \in Mapped(surf) /\ surf[i].owner # c
      <4> SUFFICES ASSUME NEW i \in Slots
                   PROVE  i \in Mapped(surf') <=> i \in Mapped(surf) /\ surf[i].owner # c
        OBVIOUS
      <4>1. CASE surf[i].owner = c
        BY <1>3, <4>1 DEF Mapped, Used, Free
      <4>2. CASE surf[i].owner # c
        BY <1>3, <4>2 DEF Mapped, Used, SameOwner
      <4> QED
        BY <4>1, <4>2
    <3>3. Mapped(surf) \subseteq Slots /\ Mapped(surf') \subseteq Slots
      BY DEF Mapped, Used
    <3> HIDE DEF mine
    <3> QED
      BY <3>1, <3>2, <3>3
  <2>2. Mapped(surf) \subseteq Slots
    BY DEF Mapped, Used
  <2>3. IsFiniteSet(Mapped(surf)) /\ Cardinality(Mapped(surf)) \in Nat
    BY <2>2, SlotsFinite
  <2>4. Cardinality(mine) \in Nat /\ Mapped(surf) \cap mine = mine
    BY <2>1, <2>2, SlotsFinite
  <2>5. Cardinality(Mapped(surf) \ mine) = Cardinality(Mapped(surf)) - Cardinality(mine)
    <3> HIDE DEF mine
    <3>1. Cardinality(Mapped(surf) \ mine)
            = Cardinality(Mapped(surf)) - Cardinality(Mapped(surf) \cap mine)
      BY <2>3, FS_Difference, ZenonT(60)
    <3> QED
      BY <2>4, <3>1
  <2>6. maps' = maps - Cardinality(mine) /\ maps \in Int
    BY DEF CloseWith, IInv, TypeOK
  <2> QED
    BY <2>1, <2>3, <2>4, <2>5, <2>6 DEF MapsFollow
<1> QED
  BY <1>4, <1>5

\* The same where the handler has touched nothing.
LEMMA CloseEffectAsIs ==
  ASSUME IInv, NEW c \in clients, NEW leaked, CloseWith(c, surf, leaked),
         UNCHANGED next_surface
  PROVE  Gone(c) /\ MapsFollow
<1>1. LeftBehind(surf, c)
  BY DEF LeftBehind, SameSlot, IInv, TypeOK
<1> QED
  BY <1>1, CloseEffect

\* A step that leaves every slot's surface and mapping, and the counter.
LEMMA QuietMaps ==
  ASSUME IInv, UNCHANGED maps, \A i \in Slots : SameSlot(surf', i)
  PROVE  MapsFollow
<1>1. Mapped(surf') = Mapped(surf)
  BY DEF Mapped, Used, SameSlot
<1>2. Cardinality(Mapped(surf)) \in Nat
  BY SlotsFinite DEF Mapped, Used
<1> QED
  BY <1>1, <1>2 DEF MapsFollow, IInv, TypeOK

\* Handlers that touch neither clients nor surfaces.
LEMMA UntouchedEffect ==
  ASSUME IInv, UNCHANGED <<clients, next_session, surf, next_surface, maps>>
  PROVE  Quiet /\ MapsFollow
<1>1. Quiet
  BY DEF Quiet, SameOwner
<1>2. \A i \in Slots : SameSlot(surf', i)
  BY DEF SameSlot
<1> QED
  BY <1>1, <1>2, QuietMaps

\* A new client has no surface yet.
LEMMA AcceptEffect ==
  ASSUME IInv, Accept
  PROVE  MapsFollow
<1>1. \A i \in Slots : SameSlot(surf', i)
  BY DEF SameSlot, Accept
<1> QED
  BY <1>1, QuietMaps DEF Accept

\* Descriptors are queued, or cost the client its connection.
LEMMA ReceiveFdsEffect ==
  ASSUME IInv, NEW c \in clients, NEW n, ReceiveFds(c, n)
  PROVE  (Quiet \/ Gone(c)) /\ MapsFollow
<1>1. CASE UNCHANGED <<clients, next_session, surf, next_surface, focus, wm,
                       grabs, lost, maps>>
  BY <1>1, UntouchedEffect
<1>2. CASE \E leaked : CloseWith(c, surf, leaked) /\ UNCHANGED next_surface
  BY <1>2, CloseEffectAsIs
<1> QED
  BY <1>1, <1>2 DEF ReceiveFds

\* HELLO touches no surface.
LEMMA HelloEffect ==
  ASSUME IInv, NEW c \in clients, NEW requested, Hello(c, requested)
  PROVE  (Quiet \/ Gone(c)) /\ MapsFollow
<1>1. CASE Close(c)
  BY <1>1, CloseEffectAsIs DEF Close
<1>2. CASE UNCHANGED <<clients, next_session, surf, next_surface, focus, grabs,
                       opened, lost, maps>>
  BY <1>2, UntouchedEffect
<1> QED
  BY <1>1, <1>2 DEF Hello

\* lgp_handle_create_surface fills a free slot under a new id, or uses the id up
\* and lets the client go.
LEMMA CreateEffect ==
  ASSUME IInv, NEW c \in clients, NEW r \in Requests, Create(c, r)
  PROVE  (Quiet \/ Gone(c) \/ (\E i \in Slots : Made(c, i))) /\ MapsFollow
<1> DEFINE s(i) == [surf EXCEPT ![i] = NewSurface(c, r, i)]
<1>1. CASE UNCHANGED scene
  BY <1>1, UntouchedEffect DEF scene
<1>2. ASSUME NEW i \in FirstFree, next_surface <= MaxSurface,
             next_surface' = next_surface + 1,
             \/ /\ surf' = s(i)
                /\ UNCHANGED <<clients, client, next_session, wm, grabs, opened,
                               lost, maps>>
             \/ CloseWith(c, s(i), 0)
      PROVE  (Gone(c) \/ (\E j \in Slots : Made(c, j))) /\ MapsFollow
  <2>1. i \in Slots /\ surf[i].id = 0 /\ surf \in [Slots -> Surface]
    BY <1>2 DEF FirstFree, InUse, IInv, TypeOK
  <2>2. /\ s(i)[i].id = next_surface /\ s(i)[i].owner = c /\ ~s(i)[i].mapped
        /\ \A j \in Slots \ {i} : s(i)[j] = surf[j]
    BY <2>1 DEF NewSurface, NextId
  <2>3. s(i) \in [Slots -> Surface]
    <3>1. NewSurface(c, r, i) \in Surface
      <4>1. r.x \in Int /\ r.w \in Nat /\ r.layer \in Nat
        BY CompositorAssumption
      <4>2. next_surface \in 0..MaxSurface /\ c \in 0..MaxSession
        BY <1>2, Constants DEF IInv, TypeOK, Sessions
      <4>3. "NORMAL" \in {"NORMAL", "HIDDEN", "MINIMIZED"} /\ FALSE \in BOOLEAN
        OBVIOUS
      <4> QED
        BY ONLY <4>1, <4>2, <4>3, SMTT(30), SMTT(60) DEF NewSurface, NextId, Surface
    <3> QED
      BY <2>1, <3>1
  <2> HIDE DEF s
  <2>4. CASE CloseWith(c, s(i), 0)
    <3>1. surf[i].owner # c
      BY <2>1, Constants DEF IInv, TypeOK, Sessions,
         SlotsOK, SlotOK
    <3>2. LeftBehind(s(i), c)
      BY <2>1, <2>2, <2>3, <3>1 DEF LeftBehind, SameSlot
    <3>3. \A j \in Slots : s(i)[j].owner = c => surf[j].owner = c \/ surf[j].id = 0
      BY <2>1, <2>2
    <3> QED
      BY <1>2, <2>4, <3>2, <3>3, CloseEffect
  <2>5. CASE surf' = s(i) /\ UNCHANGED <<clients, client, next_session, wm, grabs,
                                         opened, lost, maps>>
    <3>1. Made(c, i)
      BY <1>2, <2>1, <2>2, <2>5 DEF Made, SameOwner
    <3>2. Mapped(surf') = Mapped(surf)
      BY <2>1, <2>2, <2>5 DEF Mapped, Used
    <3>3. Cardinality(Mapped(surf)) \in Nat
      BY SlotsFinite DEF Mapped, Used
    <3>4. MapsFollow
      BY <2>5, <3>2, <3>3 DEF MapsFollow, IInv, TypeOK
    <3> QED
      BY <2>1, <3>1, <3>4
  <2> QED
    BY <1>2, <2>4, <2>5
<1>3. \/ UNCHANGED scene
      \/ \E i \in FirstFree :
           /\ next_surface <= MaxSurface /\ next_surface' = next_surface + 1
           /\ \/ /\ surf' = s(i)
                 /\ UNCHANGED <<clients, client, next_session, wm, grabs, opened,
                                lost, maps>>
              \/ CloseWith(c, s(i), 0)
  BY ONLY Create(c, r) DEF Create
<1> HIDE DEF s
<1> QED
  BY <1>1, <1>2, <1>3, ZenonT(60)

\* lgp_handle_destroy_surface frees the slot of one of the client's surfaces.
LEMMA DestroyEffect ==
  ASSUME IInv, NEW c \in clients, NEW id, Destroy(c, id)
  PROVE  (Gone(c) \/ (\E i \in Slots : Dropped(i))) /\ MapsFollow
<1>1. CASE Close(c)
  BY <1>1, CloseEffectAsIs DEF Close
<1>2. ASSUME NEW i \in OwnSlot(c, id), surf' = [surf EXCEPT ![i] = Free],
             maps' = (IF surf[i].mapped THEN maps - 1 ELSE maps),
             UNCHANGED <<clients, client, next_session, next_surface, focus, wm,
                         grabs, opened, lost>>
      PROVE  (\E j \in Slots : Dropped(j)) /\ MapsFollow
  <2>1. i \in Slots /\ surf[i].id # 0 /\ surf \in [Slots -> Surface] /\ maps \in Int
    BY <1>2 DEF OwnSlot, Find, InUse, IInv, TypeOK
  <2>2. surf'[i] = Free /\ \A j \in Slots \ {i} : surf'[j] = surf[j]
    BY <1>2, <2>1
  <2>3. Dropped(i)
    BY <1>2, <2>1, <2>2 DEF Dropped, SameOwner, Free
  <2>4. Mapped(surf') = Mapped(surf) \ {i} /\ (i \in Mapped(surf) <=> surf[i].mapped)
    BY <2>1, <2>2 DEF Mapped, Used, Free
  <2>5. IsFiniteSet(Mapped(surf)) /\ Cardinality(Mapped(surf)) \in Nat
    BY SlotsFinite DEF Mapped, Used
  <2>6. CASE surf[i].mapped
    <3>1. Cardinality(Mapped(surf) \ {i}) = Cardinality(Mapped(surf)) - 1
      BY <2>4, <2>5, <2>6, FS_RemoveElement, ZenonT(60)
    <3>2. maps' = maps - 1 /\ Cardinality(Mapped(surf')) = Cardinality(Mapped(surf)) - 1
      BY <1>2, <2>4, <2>6, <3>1, ZenonT(60)
    <3>3. MapsFollow
      BY <2>1, <2>5, <3>2 DEF MapsFollow
    <3> QED
      BY <2>1, <2>3, <3>3
  <2>7. CASE ~surf[i].mapped
    <3>1. Mapped(surf') = Mapped(surf)
      BY <2>4, <2>7
    <3> QED
      BY <1>2, <2>1, <2>3, <2>5, <2>7, <3>1 DEF MapsFollow
  <2> QED
    BY <2>6, <2>7
<1> QED
  BY <1>1, <1>2, Zenon DEF Destroy

\* lgp_handle_commit_buffer gives one surface a mapping, in the place of the one
\* it had.
LEMMA CommitEffect ==
  ASSUME IInv, NEW c \in clients, NEW id, Commit(c, id)
  PROVE  (Quiet \/ Gone(c)) /\ MapsFollow
<1>1. CASE Close(c)
  BY <1>1, CloseEffectAsIs DEF Close
<1>2. ASSUME NEW i \in Mappable(c, id),
             maps' = (IF surf[i].mapped THEN maps ELSE maps + 1),
             Repaint([surf EXCEPT ![i].mapped = TRUE])
      PROVE  Quiet /\ MapsFollow
  <2>1. i \in Slots /\ surf[i].id # 0 /\ surf \in [Slots -> Surface] /\ maps \in Int
    BY <1>2 DEF Mappable, OwnSlot, Find, InUse, IInv, TypeOK
  <2>2. /\ surf'[i].mapped /\ surf'[i].id = surf[i].id
        /\ surf'[i].owner = surf[i].owner
        /\ \A j \in Slots \ {i} : surf'[j] = surf[j]
    <3>1. surf[i] \in Surface /\ surf' = [surf EXCEPT ![i].mapped = TRUE]
      BY <1>2, <2>1 DEF Repaint
    <3> QED
      BY <2>1, <3>1 DEF Surface
  <2>3. Quiet
    BY <1>2, <2>2 DEF Quiet, SameOwner, Repaint
  <2>4. /\ Mapped(surf') = Mapped(surf) \cup {i}
        /\ i \in Mapped(surf) <=> surf[i].mapped
    BY <2>1, <2>2 DEF Mapped, Used
  <2>5. IsFiniteSet(Mapped(surf)) /\ Cardinality(Mapped(surf)) \in Nat
    BY SlotsFinite DEF Mapped, Used
  <2>6. CASE surf[i].mapped
    <3>1. Mapped(surf') = Mapped(surf)
      BY <2>4, <2>6
    <3> QED
      BY <1>2, <2>1, <2>3, <2>5, <2>6, <3>1 DEF MapsFollow
  <2>7. CASE ~surf[i].mapped
    <3>1. Cardinality(Mapped(surf) \cup {i}) = Cardinality(Mapped(surf)) + 1
      BY <2>4, <2>5, <2>7, FS_AddElement
    <3>2. maps' = maps + 1 /\ Cardinality(Mapped(surf')) = Cardinality(Mapped(surf)) + 1
      BY <1>2, <2>4, <2>7, <3>1
    <3> QED
      BY <2>1, <2>3, <2>5, <3>2 DEF MapsFollow
  <2> QED
    BY <2>6, <2>7
<1> QED
  BY <1>1, <1>2, ZenonT(60) DEF Commit

\* The window manager moves or hides a surface.
LEMMA MovedEffect ==
  ASSUME IInv, NEW c \in clients, NEW s \in [Slots -> Surface],
         \A i \in Slots : SameSlot(s, i),
         \/ Repaint(s) /\ UNCHANGED <<client, opened, maps>>
         \/ CloseWith(c, s, 0) /\ UNCHANGED next_surface
  PROVE  (Quiet \/ Gone(c)) /\ MapsFollow
<1>1. CASE Repaint(s) /\ UNCHANGED <<client, opened, maps>>
  <2>1. \A i \in Slots : SameSlot(surf', i)
    BY <1>1 DEF Repaint, SameSlot
  <2>2. Quiet
    BY <1>1, <2>1 DEF Quiet, Repaint, SameOwner, SameSlot
  <2> QED
    BY <1>1, <2>1, <2>2, QuietMaps
<1>2. CASE CloseWith(c, s, 0) /\ UNCHANGED next_surface
  <2>1. LeftBehind(s, c) /\ \A i \in Slots : s[i].owner = c => surf[i].owner = c
    BY DEF LeftBehind, SameSlot
  <2> QED
    BY <1>2, <2>1, CloseEffect
<1> QED
  BY <1>1, <1>2

\* lgp_handle_wm_set_position.
LEMMA WmSetPositionEffect ==
  ASSUME IInv, NEW c \in clients, NEW id, NEW x \in Positions, WmSetPosition(c, id, x)
  PROVE  (Quiet \/ Gone(c)) /\ MapsFollow
<1>1. CASE Close(c)
  BY <1>1, CloseEffectAsIs DEF Close
<1>2. CASE UNCHANGED scene
  BY <1>2, UntouchedEffect DEF scene
<1>3. ASSUME NEW i \in Find(id),
             \/ /\ Repaint([surf EXCEPT ![i].x = x])
                /\ UNCHANGED <<client, opened, maps>>
             \/ /\ CloseWith(c, [surf EXCEPT ![i].x = x], 0)
                /\ UNCHANGED next_surface
      PROVE  (Quiet \/ Gone(c)) /\ MapsFollow
  <2> DEFINE s == [surf EXCEPT ![i].x = x]
  <2>1. i \in Slots /\ surf \in [Slots -> Surface] /\ x \in Int
    BY <1>3, Constants DEF Find, InUse, IInv, TypeOK
  <2>2. [surf[i] EXCEPT !.x = x] \in Surface
    BY <2>1 DEF Surface
  <2>3. s \in [Slots -> Surface] /\ \A j \in Slots : SameSlot(s, j)
    BY <2>1, <2>2 DEF SameSlot, Surface
  <2>4. \/ Repaint(s) /\ UNCHANGED <<client, opened, maps>>
        \/ CloseWith(c, s, 0) /\ UNCHANGED next_surface
    BY <1>3
  <2> HIDE DEF s
  <2> QED
    BY <2>3, <2>4, MovedEffect
<1> QED
  BY <1>1, <1>2, <1>3, ZenonT(60) DEF WmSetPosition

\* lgp_handle_wm_set_state.
LEMMA WmSetStateEffect ==
  ASSUME IInv, NEW c \in clients, NEW id, NEW new \in {"NORMAL", "HIDDEN"},
         WmSetState(c, id, new)
  PROVE  (Quiet \/ Gone(c)) /\ MapsFollow
<1> DEFINE s == [i \in Slots |-> IF i \in Find(id) THEN [surf[i] EXCEPT !.state = new]
                                ELSE surf[i]]
<1>1. CASE Close(c)
  BY <1>1, CloseEffectAsIs DEF Close
<1>2. CASE \/ Repaint(s) /\ UNCHANGED <<client, opened, maps>>
           \/ CloseWith(c, s, 0) /\ UNCHANGED next_surface
  <2>1. surf \in [Slots -> Surface]
    BY DEF IInv, TypeOK
  <2>2. \A i \in Slots : [surf[i] EXCEPT !.state = new] \in Surface
    BY <2>1 DEF Surface
  <2>3. s \in [Slots -> Surface] /\ \A j \in Slots : SameSlot(s, j)
    BY <2>1, <2>2 DEF SameSlot, Surface
  <2> HIDE DEF s
  <2> QED
    BY <1>2, <2>3, MovedEffect
<1> QED
  BY <1>1, <1>2 DEF WmSetState

\* The handlers that draw, move the focus or grab a key.
LEMMA OtherEffects ==
  ASSUME IInv, NEW c \in clients,
         FillRect(c) \/ (\E k \in Keys : WmGrabKey(c, k))
           \/ (\E id \in 0..MaxSurface : WmSetFocus(c, id))
  PROVE  (Quiet \/ Gone(c)) /\ MapsFollow
<1>1. CASE Close(c)
  BY <1>1, CloseEffectAsIs DEF Close
<1>2. CASE UNCHANGED <<clients, next_session, surf, next_surface, maps>>
  BY <1>2, UntouchedEffect
<1> QED
  BY <1>1, <1>2 DEF FillRect, Repaint, WmGrabKey, WmSetFocus

\* So does every message of a client.
LEMMA MessageEffect ==
  ASSUME IInv, NEW c \in clients, Message(c)
  PROVE  Effect /\ MapsFollow
<1>1. CASE \E requested \in CapRequests : Hello(c, requested)
  BY <1>1, HelloEffect DEF Effect
<1>2. CASE \E r \in Requests : Create(c, r)
  BY <1>2, CreateEffect DEF Effect
<1>3. CASE FillRect(c) \/ (\E k \in Keys : WmGrabKey(c, k))
             \/ (\E id \in 0..MaxSurface : WmSetFocus(c, id))
  BY <1>3, OtherEffects DEF Effect
<1>4. CASE \E id \in 1..MaxSurface : Destroy(c, id) \/ Commit(c, id)
  BY <1>4, DestroyEffect, CommitEffect DEF Effect
<1>5. CASE \E id \in 1..MaxSurface, x \in Positions : WmSetPosition(c, id, x)
  BY <1>5, WmSetPositionEffect DEF Effect
<1>6. CASE \E id \in 1..MaxSurface, new \in {"NORMAL", "HIDDEN"} : WmSetState(c, id, new)
  BY <1>6, WmSetStateEffect DEF Effect
<1> QED
  BY <1>1, <1>2, <1>3, <1>4, <1>5, <1>6 DEF Message

\* Every event has one of the five effects, and keeps count of the mappings.
LEMMA EventEffect ==
  ASSUME IInv, Event
  PROVE  Effect /\ MapsFollow
<1>1. CASE Accept
  BY <1>1, AcceptEffect DEF Effect
<1>2. CASE \E c \in clients : Disconnect(c)
  BY <1>2, CloseEffectAsIs DEF Disconnect, Close, Effect
<1>3. CASE \E c \in clients : Message(c)
  BY <1>3, MessageEffect
<1>4. CASE \E c \in clients : \E n \in 1..MaxFds : ReceiveFds(c, n)
  BY <1>4, ReceiveFdsEffect DEF Effect
<1>5. CASE \E x \in 0..Width - 1 : PointerButton(x)
  BY <1>5, UntouchedEffect DEF PointerButton, Effect
<1> QED
  BY <1>1, <1>2, <1>3, <1>4, <1>5 DEF Event

-----------------------------------------------------------------------------
(* Mappings.                                                               *)

\* Every mapping the compositor holds is that of one surface on the screen, for
\* any number of slots and clients: none leaks, and none is unmapped twice.
THEOREM NoMappingLeaks == Spec => []MapsAccounted
<1>1. MapsAccounted <=> maps = Cardinality(Mapped(surf))
  BY DEF MapsAccounted, Mapped, Used, InUse
<1>2. MapsAccounted' <=> maps' = Cardinality(Mapped(surf'))
  BY DEF MapsAccounted, Mapped, Used, InUse
<1>3. ASSUME SceneInit PROVE MapsAccounted
  <2>1. {i \in InUse : surf[i].mapped} = {}
    BY <1>3 DEF SceneInit, InUse, Free
  <2> QED
    BY <1>3, <2>1, FS_EmptySet, ZenonT(60) DEF MapsAccounted, SceneInit
<1>4. Init => MapsAccounted
  BY <1>3 DEF Init, SceneInit
<1>5. IInv /\ IInv' /\ MapsAccounted /\ [Next]_vars => MapsAccounted'
  <2> SUFFICES ASSUME IInv, IInv', MapsAccounted, [Next]_vars PROVE MapsAccounted'
    OBVIOUS
  <2>1. CASE UNCHANGED scene
    BY <2>1 DEF scene, MapsAccounted, InUse
  <2>2. CASE Serve
    <3>1. MapsFollow
      BY <2>2, EventEffect DEF Serve
    <3>2. Mapped(surf) \subseteq Slots /\ Mapped(surf') \subseteq Slots
      BY DEF Mapped, Used
    <3>3. Cardinality(Mapped(surf)) \in Nat /\ Cardinality(Mapped(surf')) \in Nat
      BY <3>2, SlotsFinite
    <3>4. maps \in Int /\ maps' \in Int
      BY DEF IInv, TypeOK
    <3> QED
      BY <1>1, <1>2, <3>1, <3>3, <3>4 DEF MapsFollow
  <2>3. CASE Stop
    <3>1. {i \in InUse' : surf'[i].mapped} = {}
      BY <2>3 DEF Stop, SceneEnds, InUse, Free
    <3> QED
      BY <2>3, <3>1, FS_EmptySet, ZenonT(60) DEF MapsAccounted, Stop, SceneEnds
  <2> QED
    BY <2>1, <2>2, <2>3 DEF Next, vars
<1> QED
  BY <1>4, <1>5, Invariant, PTL DEF Spec

-----------------------------------------------------------------------------
(* The registry.                                                           *)

\* What the registry sees of the state: ids are natural numbers below the
\* counters.
LEMMA IdsBelow ==
  ASSUME IInv
  PROVE  /\ next_session \in Nat \ {0} /\ next_surface \in Nat \ {0}
         /\ clients \subseteq 1..next_session - 1
         /\ \A i \in Slots : surf[i].id \in Nat /\ surf[i].id < next_surface
<1>1. next_session \in Nat \ {0} /\ next_surface \in Nat \ {0}
  BY Constants DEF IInv, TypeOK
<1>2. \A c \in clients : c \in Nat \ {0} /\ c < next_session
  BY Constants DEF IInv, TypeOK, Sessions, ClientsOK
<1>3. \A i \in Slots : surf[i].id \in Nat /\ surf[i].id < next_surface
  BY <1>1, Constants DEF IInv, TypeOK, Surface, SlotsOK,
     SlotOK
<1> QED
  BY <1>1, <1>2, <1>3

\* With the same surfaces the owners are the same.
LEMMA SameOwners ==
  ASSUME NEW o, NEW p, NEW s, NEW t, Owns(o, s), Owns(p, t),
         \A i \in Slots : s[i].id = t[i].id /\ s[i].owner = t[i].owner
  PROVE  o = p
<1>1. Used(s) = Used(t)
  BY DEF Used
<1>2. DOMAIN o = DOMAIN p
  BY <1>1 DEF Owns, Used
<1>3. \A id \in DOMAIN o : o[id] = p[id]
  BY <1>1 DEF Owns, Used
<1> QED
  BY <1>2, <1>3 DEF Owns

\* A client that goes takes its surfaces out of the registry.
LEMMA GoneIsLeave ==
  ASSUME IInv, IInv', NEW c \in clients, Gone(c)
  PROVE  Registry!Leave(c)
<1>1. Owns(OwnerOf, surf) /\ Owns(OwnerOf', surf')
  BY OwnerOfOwns
<1>2. DOMAIN OwnerOf' = {t \in DOMAIN OwnerOf : OwnerOf[t] # c}
  BY <1>1 DEF Owns, Used, Gone, SameOwner
<1>3. \A id \in DOMAIN OwnerOf' : OwnerOf'[id] = OwnerOf[id]
  BY <1>1, <1>2 DEF Owns, Used, Gone, SameOwner
<1>4. OwnerOf' = [id \in DOMAIN OwnerOf' |-> OwnerOf'[id]]
  BY <1>1 DEF Owns
<1>5. OwnerOf' = [s \in {t \in DOMAIN OwnerOf : OwnerOf[t] # c} |-> OwnerOf[s]]
  BY <1>2, <1>3, <1>4
<1>6. 1..next_surface - 1 \subseteq 1..next_surface' - 1
  BY IdsBelow DEF Gone
<1>7. clients' = clients \ {c} /\ 1..next_session' - 1 = 1..next_session - 1
  BY DEF Gone
<1> QED
  BY <1>5, <1>6, <1>7 DEF Registry!Leave, Registry!Later

\* A new surface is registered under an id that was never given out.
LEMMA MadeIsMake ==
  ASSUME IInv, IInv', NEW c \in clients, NEW i \in Slots, Made(c, i)
  PROVE  \E s \in 1..next_surface' - 1 : Registry!Make(c, s)
<1> DEFINE new == next_surface
<1>1. Owns(OwnerOf, surf) /\ Owns(OwnerOf', surf')
  BY OwnerOfOwns
<1>2. /\ new \in Nat \ {0} /\ surf'[i].id = new /\ surf'[i].owner = c /\ surf[i].id = 0
      /\ next_surface' = new + 1
      /\ \A j \in Slots \ {i} : SameOwner(j)
      /\ \A j \in Slots : surf[j].id # new
  BY IdsBelow DEF Made
<1> HIDE DEF new
<1>3. Used(surf') = Used(surf) \cup {i} /\ i \notin Used(surf)
  BY <1>2 DEF Used, SameOwner
<1>4. DOMAIN OwnerOf' = DOMAIN OwnerOf \cup {new}
  BY <1>1, <1>2, <1>3 DEF Owns, SameOwner, Used
<1>5. ASSUME NEW id \in DOMAIN OwnerOf'
      PROVE  OwnerOf'[id] = IF id = new THEN c ELSE OwnerOf[id]
  <2>1. PICK j \in Used(surf') : surf'[j].id = id
    BY <1>1, <1>5 DEF Owns
  <2>2. OwnerOf'[id] = surf'[j].owner
    BY <1>1, <2>1 DEF Owns
  <2>3. CASE j = i
    BY <1>2, <2>1, <2>2, <2>3
  <2>4. CASE j # i
    <3>1. j \in Used(surf) /\ j \in Slots /\ surf[j].id = id /\ surf[j].owner = surf'[j].owner
      BY <1>2, <1>3, <2>1, <2>4 DEF SameOwner, Used
    <3> QED
      BY <1>1, <1>2, <2>2, <3>1 DEF Owns
  <2> QED
    BY <2>3, <2>4
<1>6. OwnerOf' = [t \in DOMAIN OwnerOf \cup {new} |-> IF t = new THEN c ELSE OwnerOf[t]]
  BY <1>1, <1>4, <1>5, ZenonT(60) DEF Owns
<1>7. /\ new \notin 1..next_surface - 1 /\ new \in 1..next_surface' - 1
      /\ (1..next_surface - 1) \cup {new} \subseteq 1..next_surface' - 1
  BY <1>2 DEF new
<1>8. clients' = clients /\ 1..next_session' - 1 = 1..next_session - 1
  BY DEF Made
<1>9. Registry!Make(c, new)
  BY <1>6, <1>7, <1>8 DEF Registry!Make
<1> QED
  BY <1>7, <1>9

\* A destroyed surface leaves the registry, and no other.
LEMMA DroppedIsDrop ==
  ASSUME IInv, IInv', NEW i \in Slots, Dropped(i)
  PROVE  \E s \in DOMAIN OwnerOf : Registry!Drop(s)
<1> DEFINE old == surf[i].id
<1>1. Owns(OwnerOf, surf) /\ Owns(OwnerOf', surf')
  BY OwnerOfOwns
<1>2. /\ i \in Used(surf) /\ surf'[i].id = 0
      /\ \A j \in Slots \ {i} : SameOwner(j) /\ surf[j].id # old
  BY DEF Dropped, Used, IInv, IdsUnique
<1>3. old \in DOMAIN OwnerOf
  BY <1>1, <1>2 DEF Owns
<1> HIDE DEF old
<1>4. Used(surf') = Used(surf) \ {i}
  BY <1>2 DEF Used, SameOwner
<1>5. DOMAIN OwnerOf' = DOMAIN OwnerOf \ {old}
  <2>1. DOMAIN OwnerOf' = {surf[j].id : j \in Used(surf) \ {i}}
    BY <1>1, <1>2, <1>4 DEF Owns, SameOwner, Used
  <2>2. DOMAIN OwnerOf = {surf[j].id : j \in Used(surf)}
    BY <1>1 DEF Owns
  <2> QED
    BY <1>2, <2>1, <2>2 DEF Used, old
<1>6. \A id \in DOMAIN OwnerOf' : OwnerOf'[id] = OwnerOf[id]
  BY <1>1, <1>2, <1>4 DEF Owns, SameOwner, Used
<1>7. OwnerOf' = [t \in DOMAIN OwnerOf \ {old} |-> OwnerOf[t]]
  BY <1>1, <1>5, <1>6, ZenonT(60) DEF Owns
<1>8. Registry!Drop(old)
  BY <1>7 DEF Registry!Drop, Dropped
<1> QED
  BY <1>3, <1>8

\* A client that arrives, or takes a session id and does not.
LEMMA AcceptIsArrive ==
  ASSUME IInv, IInv', Accept
  PROVE  Registry!Arrive
<1>1. OwnerOf' = OwnerOf
  BY DEF Accept, OwnerOf, Ids, InUse, Find
<1>2. /\ clients \subseteq clients' /\ clients' \subseteq clients \cup {next_session}
      /\ next_session' = next_session + 1 /\ next_surface' = next_surface
  BY DEF Accept
<1>3. /\ 1..next_session - 1 \subseteq 1..next_session' - 1
      /\ clients' \subseteq 1..next_session' - 1
      /\ next_session \notin 1..next_session - 1
  BY <1>2, IdsBelow
<1> QED
  BY <1>1, <1>2, <1>3 DEF Registry!Arrive, Registry!Later

\* A table of free slots owns nothing.
LEMMA NothingOwned ==
  ASSUME NEW o, NEW s, Owns(o, s), \A i \in Slots : s[i].id = 0
  PROVE  o = [id \in {} |-> 0]
<1>1. DOMAIN o = {}
  BY DEF Owns, Used
<1> QED
  BY <1>1 DEF Owns

\* The compositor implements SurfaceRegistry, for any number of slots, clients
\* and surfaces: through every error path of every handler, a surface belongs
\* to the client that created it until that client destroys it or goes, and no
\* id of a client or of a surface is given out twice.
THEOREM ImplementsRegistry == Spec => KeepsRegistry
<1>1. Init => Registry!RegInit
  <2> SUFFICES ASSUME Init PROVE Registry!RegInit
    OBVIOUS
  <2>1. \A i \in Slots : surf[i].id = 0
    BY DEF Init, SceneInit, Free
  <2>2. Ids = {}
    BY <2>1 DEF Ids, InUse
  <2>3. OwnerOf = [id \in {} |-> 0]
    BY <2>2 DEF OwnerOf
  <2> QED
    BY <2>3 DEF Init, SceneInit, Registry!RegInit, Registry!NoOwners
<1>2. IInv /\ IInv' /\ [Next]_vars => [Registry!RegNext]_(Registry!reg)
  <2> SUFFICES ASSUME IInv, IInv', [Next]_vars
               PROVE  Registry!RegNext \/ UNCHANGED Registry!reg
    OBVIOUS
  <2>1. CASE UNCHANGED scene
    BY <2>1 DEF scene, Registry!reg, OwnerOf, Ids, InUse, Find
  <2>2. CASE Serve
    <3>1. Effect
      BY <2>2, EventEffect DEF Serve
    <3>2. CASE Quiet
      <4>1. OwnerOf' = OwnerOf
        BY <3>2, OwnerOfOwns, SameOwners DEF Quiet, SameOwner
      <4> QED
        BY <3>2, <4>1 DEF Quiet, Registry!reg
    <3>3. CASE Accept
      BY <3>3, AcceptIsArrive DEF Registry!RegNext
    <3>4. CASE \E c \in clients : Gone(c)
      BY <3>4, GoneIsLeave DEF Registry!RegNext
    <3>5. CASE \E c \in clients, i \in Slots : Made(c, i)
      BY <3>5, MadeIsMake DEF Registry!RegNext
    <3>6. CASE \E i \in Slots : Dropped(i)
      BY <3>6, DroppedIsDrop DEF Registry!RegNext
    <3> QED
      BY <3>1, <3>2, <3>3, <3>4, <3>5, <3>6 DEF Effect
  <2>3. CASE Stop
    <3>1. \A i \in Slots : surf'[i].id = 0
      BY <2>3 DEF Stop, SceneEnds, Free
    <3>2. OwnerOf' = [id \in {} |-> 0]
      BY <3>1, OwnerOfOwns, NothingOwned
    <3> QED
      BY <2>3, <3>2 DEF Stop, SceneEnds, Registry!RegNext,
         Registry!End,
                        Registry!NoOwners
  <2> QED
    BY <2>1, <2>2, <2>3 DEF Next, vars
<1> QED
  BY <1>1, <1>2, Invariant, PTL DEF Spec, KeepsRegistry, Registry!RegSpec

-----------------------------------------------------------------------------
(* Descriptors.                                                            *)

\* The descriptors of the clients C when f says what is known of each.
HeldBy(C, f) == {p \in Sessions \X (0..MaxFds) : p[1] \in C /\ p[2] <= f[p[1]].fds}

\* Clients and their queues are bounded, so that descriptors can be counted.
LEMMA HeldFinite ==
  ASSUME NEW C, NEW f
  PROVE  IsFiniteSet(HeldBy(C, f)) /\ Cardinality(HeldBy(C, f)) \in Nat
<1>1. IsFiniteSet(Sessions) /\ IsFiniteSet(0..MaxFds)
  BY FS_Interval, Constants DEF Sessions
<1>2. IsFiniteSet(Sessions \X (0..MaxFds))
  BY <1>1, FS_Product, ZenonT(60)
<1>3. HeldBy(C, f) \in SUBSET (Sessions \X (0..MaxFds))
  BY DEF HeldBy
<1> QED
  BY <1>2, <1>3, FS_Subset, FS_CardinalityType

\* Only the number of descriptors queued matters.
LEMMA HeldSame ==
  ASSUME NEW C, NEW f, NEW g, \A c \in C : f[c].fds = g[c].fds
  PROVE  HeldBy(C, f) = HeldBy(C, g)
BY DEF HeldBy

\* A client holds its socket and what is queued for it.
LEMMA HeldSplit ==
  ASSUME NEW C, C \subseteq Sessions, NEW f, NEW c \in C, f[c].fds \in 0..MaxFds
  PROVE  Cardinality(HeldBy(C, f)) = Cardinality(HeldBy(C \ {c}, f)) + 1 + f[c].fds
<1> DEFINE A == HeldBy(C \ {c}, f)
           B == {c} \X (0..f[c].fds)
           k == f[c].fds
<1>1. k \in Nat /\ k <= MaxFds /\ 0..k \subseteq 0..MaxFds
  BY Constants
<1>2. HeldBy(C, f) = A \cup B
  <2>1. \A p \in Sessions \X (0..MaxFds) : p \in HeldBy(C, f) <=> p \in A \cup B
    <3> SUFFICES ASSUME NEW a \in Sessions, NEW b \in 0..MaxFds
                 PROVE  <<a, b>> \in HeldBy(C, f) <=> <<a, b>> \in A \cup B
      OBVIOUS
    <3>1. CASE a = c
      BY <1>1, <3>1, Constants DEF HeldBy
    <3>2. CASE a # c
      BY <3>2 DEF HeldBy
    <3> QED
      BY <3>1, <3>2
  <2>2. B \subseteq Sessions \X (0..MaxFds)
    BY <1>1
  <2>3. HeldBy(C, f) \subseteq Sessions \X (0..MaxFds) /\ A \subseteq Sessions \X (0..MaxFds)
    BY DEF HeldBy
  <2> HIDE DEF A, B
  <2> QED
    BY <2>1, <2>2, <2>3
<1>3. A \cap B = {}
  BY DEF HeldBy
<1>4. IsFiniteSet({c}) /\ Cardinality({c}) = 1
  BY FS_Singleton, ZenonT(60)
<1>5. IsFiniteSet(0..k) /\ Cardinality(0..k) = k + 1
  BY ONLY <1>1, FS_Interval, SMTT(30), SMTT(60)
<1>6. IsFiniteSet(B) /\ Cardinality(B) = Cardinality({c}) * Cardinality(0..k)
  BY <1>4, <1>5, FS_Product, Zenon
<1>7. IsFiniteSet(A) /\ Cardinality(A) \in Nat
  BY HeldFinite
<1> HIDE DEF A, B, k
<1>8. Cardinality(A \cup B) = Cardinality(A) + Cardinality(B) - Cardinality(A \cap B)
  BY <1>6, <1>7, FS_Union, ZenonT(60)
<1>9. Cardinality(A \cap B) = 0 /\ Cardinality(B) = 1 + k
  <2>1. Cardinality(A \cap B) = 0
    BY <1>3, FS_EmptySet, ZenonT(60)
  <2> QED
    BY ONLY <1>1, <1>4, <1>5, <1>6, <2>1, SMTT(30), SMTT(60)
<1> QED
  BY <1>1, <1>2, <1>7, <1>8, <1>9 DEF A, k

\* What the argument needs of the types.
LEMMA FdTypes ==
  ASSUME IInv
  PROVE  /\ clients \subseteq Sessions /\ client \in [Sessions -> Client]
         /\ opened \in Int /\ lost \in Int
         /\ \A c \in Sessions : client[c].fds \in 0..MaxFds /\ client[c].fds \in Nat
<1>1. /\ clients \subseteq Sessions /\ client \in [Sessions -> Client]
      /\ opened \in Int /\ lost \in 0..MaxLost
  BY ZenonT(60) DEF IInv, TypeOK
<1>2. \A x \in Client : x.fds \in 0..MaxFds
  BY DEF Client
<1>3. MaxFds \in Nat /\ MaxLost \in Nat
  BY Constants
<1> QED
  BY <1>1, <1>2, <1>3

\* opened follows the number of descriptors held or forgotten.
FdsFollow ==
  opened' - opened
    = lost' - lost + Cardinality(HeldBy(clients', client')) - Cardinality(HeldBy(clients, client))

\* Handlers that take or queue no descriptor.
LEMMA SameFds ==
  ASSUME IInv, UNCHANGED <<clients, opened, lost>>,
         \A c \in clients : client'[c].fds = client[c].fds
  PROVE  FdsFollow
<1>1. HeldBy(clients, client') = HeldBy(clients, client)
  BY HeldSame
<1>2. Cardinality(HeldBy(clients, client)) \in Nat
  BY HeldFinite
<1>3. opened \in Int /\ lost \in Int
  BY FdTypes
<1> QED
  BY <1>1, <1>2, <1>3 DEF FdsFollow

\* lgp_state_close_client closes all of a client's.
LEMMA CloseFds ==
  ASSUME IInv, NEW c \in clients, NEW s, NEW leaked \in Int, CloseWith(c, s, leaked)
  PROVE  FdsFollow
<1>1. /\ clients' = clients \ {c} /\ client' = [client EXCEPT ![c] = NoClient]
      /\ opened' = opened + leaked - (1 + client[c].fds) /\ lost' = lost + leaked
  BY DEF CloseWith
<1>2. /\ clients \subseteq Sessions /\ client \in [Sessions -> Client]
      /\ opened \in Int /\ lost \in Int
  BY FdTypes
<1>3. client[c].fds \in 0..MaxFds /\ client[c].fds \in Nat
  BY <1>2, FdTypes
<1>4. HeldBy(clients \ {c}, client') = HeldBy(clients \ {c}, client)
  <2>1. \A d \in clients \ {c} : client'[d].fds = client[d].fds
    BY <1>1, <1>2
  <2> QED
    BY <2>1, HeldSame, ZenonT(60)
<1>5. Cardinality(HeldBy(clients, client))
        = Cardinality(HeldBy(clients \ {c}, client)) + 1 + client[c].fds
  BY <1>2, <1>3, HeldSplit
<1>6. Cardinality(HeldBy(clients \ {c}, client)) \in Nat
  BY HeldFinite
<1>7. Cardinality(HeldBy(clients', client')) = Cardinality(HeldBy(clients \ {c}, client))
  BY <1>1, <1>4
<1> QED
  BY ONLY <1>1, <1>2, <1>3, <1>5, <1>6, <1>7, leaked \in Int, SMTT(30), SMTT(60) DEF FdsFollow

\* lgp_client_queue_fd and lgp_client_take_fd move the count with the queue.
LEMMA MovedFds ==
  ASSUME IInv, IInv', NEW c \in clients, NEW d \in Int, UNCHANGED <<clients, lost>>,
         client' = [client EXCEPT ![c].fds = @ + d], opened' = opened + d
  PROVE  FdsFollow
<1>1. /\ clients \subseteq Sessions /\ client \in [Sessions -> Client]
      /\ client' \in [Sessions -> Client] /\ opened \in Int /\ lost \in Int
  <2>1. client' \in [Sessions -> Client]
    BY Zenon DEF IInv, TypeOK
  <2> QED
    BY <2>1, FdTypes
<1>2. /\ client[c].fds \in 0..MaxFds /\ client[c].fds \in Nat
      /\ client'[c].fds \in 0..MaxFds /\ client'[c].fds \in Nat
  BY <1>1, Constants DEF Client
<1>3. client'[c].fds = client[c].fds + d
  BY <1>1 DEF Client
<1>4. HeldBy(clients \ {c}, client') = HeldBy(clients \ {c}, client)
  <2>1. \A e \in clients \ {c} : client'[e].fds = client[e].fds
    BY <1>1
  <2> QED
    BY <2>1, HeldSame, ZenonT(60)
<1>5. /\ Cardinality(HeldBy(clients, client))
           = Cardinality(HeldBy(clients \ {c}, client)) + 1 + client[c].fds
      /\ Cardinality(HeldBy(clients, client'))
           = Cardinality(HeldBy(clients \ {c}, client')) + 1 + client'[c].fds
  BY <1>1, <1>2, HeldSplit, ZenonT(60)
<1>6. Cardinality(HeldBy(clients \ {c}, client)) \in Nat
  BY HeldFinite
<1>7. clients' = clients /\ lost' = lost /\ opened' = opened + d
  OBVIOUS
<1> QED
  BY ONLY <1>1, <1>2, <1>3, <1>4, <1>5, <1>6, <1>7, d \in Int, SMTT(30), SMTT(60) DEF FdsFollow

\* A new client has its socket.
LEMMA AcceptFds ==
  ASSUME IInv, IInv', Accept
  PROVE  FdsFollow
<1>1. CASE UNCHANGED <<clients, client, opened>>
  BY <1>1, SameFds DEF Accept
<1>2. CASE \E u \in Uids :
             /\ clients' = clients \cup {next_session}
             /\ client' = [client EXCEPT ![next_session] = NewClient(u)]
             /\ opened' = opened + 1
  <2> DEFINE n == next_session
  <2>1. /\ clients \subseteq Sessions /\ client \in [Sessions -> Client]
        /\ clients' \subseteq Sessions /\ opened \in Int /\ lost \in Int
    <3>1. clients' \subseteq Sessions
      BY Zenon DEF IInv, TypeOK
    <3> QED
      BY <3>1, FdTypes
  <2>2. n \in Sessions /\ n \notin clients
    <3>1. n \in 1..MaxSession + 1 /\ n <= MaxSession /\ \A c \in clients : c < n
      BY ZenonT(60) DEF Accept, IInv, TypeOK, ClientsOK
    <3> HIDE DEF n
    <3> QED
      BY <3>1, Constants DEF Sessions
  <2>3. clients' \ {n} = clients /\ n \in clients' /\ client'[n].fds = 0 /\ opened' = opened + 1
        /\ \A c \in clients : client'[c].fds = client[c].fds
    BY <1>2, <2>1, <2>2 DEF NewClient
  <2>4. 0 \in 0..MaxFds
    BY Constants
  <2> HIDE DEF n
  <2>5. Cardinality(HeldBy(clients', client')) =
          Cardinality(HeldBy(clients' \ {n}, client')) + 1 + 0
    <3> DEFINE C == clients'
               f == client'
    <3>1. C \subseteq Sessions /\ n \in C /\ f[n].fds \in 0..MaxFds /\ f[n].fds = 0
      BY <2>1, <2>3, <2>4
    <3> HIDE DEF C, f
    <3>2. Cardinality(HeldBy(C, f)) = Cardinality(HeldBy(C \ {n}, f)) + 1 + f[n].fds
      BY <3>1, HeldSplit, ZenonT(60)
    <3> QED
      BY <3>1, <3>2 DEF C, f
  <2>6. HeldBy(clients' \ {n}, client') = HeldBy(clients, client)
    BY <2>3, HeldSame, ZenonT(60)
  <2>7. Cardinality(HeldBy(clients, client)) \in Nat
    BY HeldFinite
  <2>8. lost' = lost
    BY DEF Accept
  <2> QED
    BY ONLY <2>1, <2>3, <2>5, <2>6, <2>7, <2>8, SMTT(30), SMTT(60) DEF FdsFollow
<1> QED
  BY <1>1, <1>2 DEF Accept

\* lgp_client_read_available, whether it queues what came or forgets some.
LEMMA ReceivedFds ==
  ASSUME IInv, IInv', NEW c \in clients, NEW n \in 1..MaxFds, ReceiveFds(c, n)
  PROVE  FdsFollow
<1>1. n \in Int /\ MaxFds - client[c].fds \in Int
  BY Constants, FdTypes
<1>2. CASE /\ client' = Queued(c, n) /\ opened' = opened + n
           /\ UNCHANGED <<clients, next_session, surf, next_surface, focus, wm,
                          grabs, lost, maps>>
  BY <1>1, <1>2, MovedFds, ZenonT(60) DEF Queued
<1>3. CASE \E leaked \in Int : CloseWith(c, surf, leaked)
  BY <1>3, CloseFds
<1> QED
  BY <1>1, <1>2, <1>3 DEF ReceiveFds

\* Every message either leaves descriptors alone, takes one for a commit, or
\* ends the connection.
LEMMA MessageFds ==
  ASSUME IInv, IInv', NEW c \in clients, Message(c)
  PROVE  FdsFollow
<1>0. 0 \in Int /\ client \in [Sessions -> Client] /\ clients \subseteq Sessions
  BY FdTypes
<1>1. CASE \E s : CloseWith(c, s, 0)
  BY <1>0, <1>1, CloseFds
<1>2. CASE UNCHANGED <<clients, client, opened, lost>>
  BY <1>2, SameFds
<1>3. CASE UNCHANGED <<clients, opened, lost>> /\ \E granted :
             client' = [client EXCEPT ![c].hello = TRUE, ![c].caps = granted]
  <2>1. \A d \in clients : client'[d].fds = client[d].fds
    BY <1>0, <1>3 DEF Client
  <2> QED
    BY <1>3, <2>1, SameFds, ZenonT(60)
<1>4. CASE client' = Taken(c) /\ opened' = opened - 1 /\ UNCHANGED <<clients, lost>>
  <2>1. client' = [client EXCEPT ![c].fds = @ + (-1)] /\ opened' = opened + (-1)
    <3>1. client[c].fds \in Int /\ opened \in Int
      BY <1>0, FdTypes
    <3>2. client[c].fds - 1 = client[c].fds + (-1) /\ opened - 1 = opened + (-1)
      BY <3>1
    <3> QED
      BY <1>4, <3>2, ZenonT(60) DEF Taken
  <2> QED
    BY <1>4, <2>1, -1 \in Int, MovedFds, Zenon
<1>5. CASE \E requested \in CapRequests : Hello(c, requested)
  BY <1>1, <1>3, <1>5, ZenonT(60) DEF Hello, Close
<1>6. CASE \E r \in Requests : Create(c, r)
  BY <1>1, <1>2, <1>6, ZenonT(60) DEF Create, scene
<1>7. CASE FillRect(c) \/ (\E k \in Keys : WmGrabKey(c, k))
             \/ (\E id \in 0..MaxSurface : WmSetFocus(c, id))
  BY <1>1, <1>2, <1>7 DEF FillRect, WmGrabKey, WmSetFocus, Repaint, Close
<1>8. CASE \E id \in 1..MaxSurface : Destroy(c, id)
  BY <1>1, <1>2, <1>8 DEF Destroy, Close
<1>9. CASE \E id \in 1..MaxSurface : Commit(c, id)
  BY <1>1, <1>4, <1>9 DEF Commit, Repaint, Close
<1>10. CASE \E id \in 1..MaxSurface, x \in Positions : WmSetPosition(c, id, x)
  BY <1>1, <1>2, <1>10, ZenonT(60) DEF WmSetPosition, Repaint, Close, scene
<1>11. CASE \E id \in 1..MaxSurface, new \in {"NORMAL", "HIDDEN"} : WmSetState(c, id, new)
  BY <1>1, <1>2, <1>11 DEF WmSetState, Repaint, Close
<1> QED
  BY <1>5, <1>6, <1>7, <1>8, <1>9, <1>10, <1>11 DEF Message

\* No event loses count of the descriptors.
LEMMA EventFds ==
  ASSUME IInv, IInv', Event
  PROVE  FdsFollow
<1>1. CASE Accept
  BY <1>1, AcceptFds
<1>2. CASE \E c \in clients : Disconnect(c)
  BY <1>2, CloseFds, 0 \in Int DEF Disconnect, Close
<1>3. CASE \E c \in clients : Message(c)
  BY <1>3, MessageFds
<1>4. CASE \E c \in clients : \E n \in 1..MaxFds : ReceiveFds(c, n)
  BY <1>4, ReceivedFds
<1>5. CASE \E x \in 0..Width - 1 : PointerButton(x)
  BY <1>5, SameFds DEF PointerButton
<1> QED
  BY <1>1, <1>2, <1>3, <1>4, <1>5 DEF Event

\* The descriptors the compositor has open are those of its clients and the
\* ones lgp_client_read_available forgot, for any number of clients and any
\* length of the queue: on no path of any handler is one closed twice, or kept
\* by nobody.
THEOREM NoDescriptorLeaks == Spec => []DescriptorsAccounted
<1>1. Descriptors = HeldBy(clients, client) /\ Descriptors' = HeldBy(clients', client')
  BY DEF Descriptors, HeldBy
<1>2. ASSUME SceneInit PROVE DescriptorsAccounted
  <2>1. Descriptors = {}
    BY <1>2 DEF Descriptors, SceneInit
  <2> QED
    BY <1>2, <2>1, FS_EmptySet DEF DescriptorsAccounted, SceneInit
<1>3. Init => DescriptorsAccounted
  BY <1>2 DEF Init
<1>4. IInv /\ IInv' /\ DescriptorsAccounted /\ [Next]_vars => DescriptorsAccounted'
  <2> SUFFICES ASSUME IInv, IInv', DescriptorsAccounted, [Next]_vars PROVE DescriptorsAccounted'
    OBVIOUS
  <2>1. CASE UNCHANGED scene
    BY <2>1 DEF scene, DescriptorsAccounted, Descriptors
  <2>2. CASE Serve
    <3>1. FdsFollow
      BY <2>2, EventFds DEF Serve
    <3>2. /\ Cardinality(HeldBy(clients, client)) \in Nat
          /\ Cardinality(HeldBy(clients', client')) \in Nat
      BY HeldFinite
    <3>3. opened \in Int /\ opened' \in Int /\ lost \in Int /\ lost' \in Int
      <4>1. opened' \in Int /\ lost' \in 0..MaxLost
        BY ZenonT(60) DEF IInv, TypeOK
      <4> QED
        BY <4>1, FdTypes, Constants
    <3> QED
      BY <1>1, <3>1, <3>2, <3>3 DEF FdsFollow, DescriptorsAccounted
  <2>3. CASE Stop
    <3>1. Descriptors' = {}
      BY <2>3 DEF Stop, SceneEnds, Descriptors
    <3>2. opened' = 0 /\ lost' = 0
      BY <2>3 DEF Stop, SceneEnds
    <3>3. Cardinality(Descriptors') = 0
      BY <3>1, FS_EmptySet
    <3> QED
      BY <3>2, <3>3 DEF DescriptorsAccounted
  <2> QED
    BY <2>1, <2>2, <2>3 DEF Next, vars
<1> QED
  BY <1>3, <1>4, Invariant, PTL DEF Spec

=============================================================================
