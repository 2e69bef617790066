-------------------------- MODULE CompositorProofs --------------------------
(***************************************************************************)
(* The inductive invariant of Compositor, for every screen, every number   *)
(* of slots, clients, surfaces and descriptors, and every set of requests: *)
(* every step keeps it.  RegistryProofs draws the theorems from it.        *)
(***************************************************************************)
EXTENDS Compositor, TLAPS

\* A leaf that names no prover goes to SMT, to Zenon and to SMT once more, the
\* solver's encoding being limited by the clock.
USE SMTT(30), Zenon, SMTT(60)

-----------------------------------------------------------------------------
(* The inductive invariant.                                                *)

\* Session ids are below the counter, what only root may have is root's, and
\* before HELLO a client has nothing.
ClientsOK ==
  \A c \in clients :
    /\ c < next_session
    /\ client[c].caps \cap Privileged # {} => client[c].uid = 0
    /\ ~client[c].hello => client[c].caps = {}

\* A slot in use belongs to a client there is and has an id that was given
\* out; a free one belongs to nobody, so that no client's end touches it.
SlotOK(i) ==
  IF surf[i].id = 0 THEN surf[i].owner = 0 /\ ~surf[i].mapped
  ELSE /\ surf[i].owner \in clients /\ surf[i].id < next_surface
       /\ surf[i].layer >= SHELL => client[surf[i].owner].uid = 0

SlotsOK == \A i \in Slots : SlotOK(i)

IdsUnique == \A i, j \in Slots : surf[i].id = surf[j].id /\ surf[i].id # 0 => i = j

\* The remembered focus is of the past or right.
FocusOK ==
  /\ focus.session < next_session /\ focus.surface < next_surface
  /\ \A i \in Slots : surf[i].id # 0 /\ surf[i].id = focus.surface
                        => surf[i].owner = focus.session

IInv == TypeOK /\ WmIsConnected /\ ClientsOK /\ SlotsOK /\ IdsUnique /\ FocusOK

-----------------------------------------------------------------------------
(* Facts about the constants.                                              *)

\* What the assumption says of the constants that are numbers and sets.
LEMMA Constants ==
  /\ SurfaceMax \in Nat /\ Width \in Nat \ {0}
  /\ MaxSession \in Nat /\ MaxSurface \in Nat /\ MaxFds \in Nat /\ MaxLost \in Nat
  /\ MaxGrabs \in Nat /\ 0 \in Uids /\ Uids \subseteq Nat
  /\ CapRequests \subseteq SUBSET Caps /\ Positions \subseteq Int
BY CompositorAssumption

\* The two id counters start at one and only grow.
LEMMA Counters ==
  ASSUME next_session \in 1..MaxSession + 1, next_surface \in 1..MaxSurface + 1
  PROVE  next_session \in Nat \ {0} /\ next_surface \in Nat \ {0}
BY Constants

\* An empty slot and an unused session have the types of used ones.
LEMMA EmptyTypes ==
  Free \in Surface /\ NoClient \in Client /\ \A u \in Uids : NewClient(u) \in Client
<1>1. Free \in Surface
  BY Constants DEF Free, Surface
<1>2. ASSUME NEW u \in Uids PROVE NewClient(u) \in Client
  <2>1. u \in Uids /\ FALSE \in BOOLEAN /\ {} \in SUBSET Caps /\ 0 \in 0..MaxFds
    BY Constants
  <2> QED
    BY ONLY <2>1 DEF Client, NewClient
<1> QED
  BY <1>1, <1>2, Constants DEF NoClient

\* Sets of slots can be counted.  It follows from SurfaceMax being a number;
\* RegistryProofs proves it, with the theory of finite sets, which the steps
\* below have no other use for.
Counting == \A S \in SUBSET Slots : Cardinality(S) \in Nat

-----------------------------------------------------------------------------
(* The scene before the first client.                                      *)

\* The scene main initialises satisfies the invariant.
LEMMA EmptyScene ==
  ASSUME phase \in Phases, held \subseteq Resources, sock \in BOOLEAN, SceneInit
  PROVE  IInv
<1>1. TypeOK
  <2>1. client \in [Sessions -> Client] /\ surf \in [Slots -> Surface]
    BY EmptyTypes DEF SceneInit
  <2>2. grabs \in Seq(Keys) /\ Len(grabs) = 0
    BY DEF SceneInit
  <2> QED
    BY <2>1, <2>2, Constants DEF SceneInit, TypeOK, Sessions
<1>2. WmIsConnected /\ ClientsOK
  BY DEF SceneInit, WmIsConnected, ClientsOK
<1>3. SlotsOK /\ IdsUnique /\ FocusOK
  BY DEF SceneInit, SlotsOK, SlotOK, IdsUnique, FocusOK, Free
<1> QED
  BY <1>1, <1>2, <1>3 DEF IInv

\* The same of the scene after the compositor has ended.
LEMMA EndedScene ==
  ASSUME phase' \in Phases, held' \subseteq Resources, sock' \in BOOLEAN, SceneEnds
  PROVE  IInv'
<1>1. TypeOK'
  <2>1. client' \in [Sessions -> Client] /\ surf' \in [Slots -> Surface]
    BY EmptyTypes DEF SceneEnds
  <2>2. grabs' \in Seq(Keys) /\ Len(grabs') = 0
    BY DEF SceneEnds
  <2> QED
    BY <2>1, <2>2, Constants DEF SceneEnds, TypeOK, Sessions
<1>2. WmIsConnected' /\ ClientsOK'
  BY DEF SceneEnds, WmIsConnected, ClientsOK
<1>3. SlotsOK' /\ IdsUnique' /\ FocusOK'
  BY DEF SceneEnds, SlotsOK, SlotOK, IdsUnique, FocusOK, Free
<1> QED
  BY <1>1, <1>2, <1>3 DEF IInv

-----------------------------------------------------------------------------
(* A client goes.                                                          *)

\* What the invariant sees of a slot is as it was.
SameSlot(s, i) ==
  s[i].id = surf[i].id /\ s[i].owner = surf[i].owner /\ s[i].layer = surf[i].layer
    /\ s[i].mapped = surf[i].mapped

\* The surfaces a handler may have left behind before its client goes: c has
\* those it had, perhaps one more, and no other slot was touched.
LeftBehind(s, c) ==
  /\ s \in [Slots -> Surface]
  /\ \A i \in Slots : s[i].owner = c \/ SameSlot(s, i)
  /\ \A i \in Slots : surf[i].owner = c => s[i].owner = c

\* lgp_state_close_client preserves the invariant, on every path that ends in
\* it.
LEMMA CloseKeeps ==
  ASSUME Counting, IInv, NEW c \in clients, NEW s, LeftBehind(s, c),
         NEW leaked \in Nat, lost + leaked <= MaxLost, CloseWith(c, s, leaked),
         next_surface' \in {next_surface, next_surface + 1},
         next_surface' <= MaxSurface + 1, UNCHANGED display
  PROVE  IInv'
<1> USE Constants
<1>1. /\ c \in Sessions /\ c # 0 /\ client[c] \in Client
      /\ next_surface \in Nat /\ next_session \in Nat
  BY DEF IInv, TypeOK, Sessions
<1>2. /\ surf' \in [Slots -> Surface]
      /\ \A i \in Slots : surf'[i] = IF s[i].owner = c THEN Free ELSE s[i]
  BY EmptyTypes DEF CloseWith, Released, LeftBehind
<1>3. /\ client' \in [Sessions -> Client]
      /\ \A d \in clients' : d \in clients /\ d # c /\ client'[d] = client[d]
      /\ clients' = clients \ {c}
  BY <1>1, EmptyTypes DEF CloseWith, IInv, TypeOK
<1>4. TypeOK'
  <2>1. maps' \in Int /\ opened' \in Int /\ lost' \in 0..MaxLost
    <3>1. Cardinality({i \in Of(c) : surf[i].mapped}) \in Nat
      BY Zenon DEF Counting, Of, InUse
    <3>2. client[c].fds \in Nat
      BY <1>1 DEF Client
    <3>3. opened \in Int /\ lost \in 0..MaxLost /\ maps \in Int
      BY DEF IInv, TypeOK
    <3>4. /\ maps' = maps - Cardinality({i \in Of(c) : surf[i].mapped})
          /\ opened' = opened + leaked - (1 + client[c].fds)
          /\ lost' = lost + leaked
      BY DEF CloseWith
    <3> QED
      BY <3>1, <3>2, <3>3, <3>4
  <2>2. wm' \in 0..MaxSession /\ clients' \subseteq Sessions
    BY <1>3 DEF CloseWith, IInv, TypeOK
  <2>3. next_surface' \in 1..MaxSurface + 1
    BY <1>1 DEF IInv, TypeOK
  <2> QED
    BY <1>2, <1>3, <2>1, <2>2, <2>3, Zenon DEF CloseWith, IInv, TypeOK,
       display
<1>5. WmIsConnected'
  BY <1>1, <1>3 DEF CloseWith, IInv, WmIsConnected, TypeOK
<1>6. ClientsOK'
  BY <1>3 DEF CloseWith, IInv, ClientsOK
<1>7. \A i \in Slots : \/ surf'[i] = Free
                       \/ /\ surf'[i].owner = surf[i].owner /\ surf[i].owner # c
                          /\ surf'[i].id = surf[i].id /\ surf'[i].layer = surf[i].layer
                          /\ surf'[i].mapped = surf[i].mapped
  BY <1>2 DEF LeftBehind, SameSlot
<1>8. SlotsOK'
  <2> SUFFICES ASSUME NEW i \in Slots PROVE SlotOK(i)'
    BY DEF SlotsOK
  <2>1. CASE surf'[i] = Free
    BY <2>1 DEF SlotOK, Free
  <2>2. CASE surf'[i] # Free
    <3>1. SlotOK(i) /\ surf[i] \in Surface
      BY DEF IInv, SlotsOK, TypeOK
    <3> QED
      BY <1>1, <1>3, <1>7, <2>2, <3>1 DEF SlotOK, Surface
  <2> QED
    BY <2>1, <2>2
<1>9. IdsUnique' /\ FocusOK'
  <2>1. \A i \in Slots : surf'[i].id # 0 =>
          surf'[i].id = surf[i].id /\ surf'[i].owner = surf[i].owner
    BY <1>7 DEF Free
  <2>2. focus.surface \in Nat
    BY DEF IInv, TypeOK
  <2> QED
    BY <1>1, <2>1, <2>2 DEF IInv, IdsUnique, FocusOK, CloseWith
<1> QED
  BY <1>4, <1>5, <1>6, <1>8, <1>9 DEF IInv

\* Nothing was left behind but what was there.
LEMMA CloseKeepsAsIs ==
  ASSUME Counting, IInv, NEW c \in clients, NEW leaked \in Nat, lost + leaked <= MaxLost,
         CloseWith(c, surf, leaked), UNCHANGED <<next_surface, display>>
  PROVE  IInv'
<1>1. LeftBehind(surf, c)
  BY DEF LeftBehind, SameSlot, IInv, TypeOK
<1>2. next_surface' = next_surface /\ next_surface' <= MaxSurface + 1
  BY Constants DEF IInv, TypeOK
<1> QED
  BY <1>1, <1>2, CloseKeeps

\* The plain end of a connection.
LEMMA CloseIsSafe ==
  ASSUME Counting, IInv, NEW c \in clients, Close(c), UNCHANGED display
  PROVE  IInv'
<1>1. CloseWith(c, surf, 0) /\ lost + 0 <= MaxLost
  BY Constants DEF Close, IInv, TypeOK
<1> QED
  BY <1>1, CloseKeepsAsIs DEF Close

-----------------------------------------------------------------------------
(* A handler that keeps its client.                                        *)

\* lgp_repaint_surfaces, after a change the invariant does not see: the
\* position, state or mapping of surfaces.
LEMMA RepaintKeeps ==
  ASSUME IInv, NEW s \in [Slots -> Surface],
         \A i \in Slots : s[i].id = surf[i].id /\ s[i].owner = surf[i].owner
                           /\ s[i].layer = surf[i].layer
                           /\ (s[i].mapped => surf[i].mapped \/ surf[i].id # 0),
         Repaint(s), client' \in [Sessions -> Client],
         \A c \in clients : client'[c].uid = client[c].uid
                            /\ client'[c].caps = client[c].caps
                            /\ client'[c].hello = client[c].hello,
         opened' \in Int, maps' \in Int, UNCHANGED display
  PROVE  IInv'
<1>1. TypeOK'
  BY DEF Repaint, IInv, TypeOK, display
<1>2. WmIsConnected' /\ ClientsOK'
  BY DEF Repaint, IInv, WmIsConnected, ClientsOK
<1>3. SlotsOK'
  <2> SUFFICES ASSUME NEW i \in Slots PROVE SlotOK(i)'
    BY DEF SlotsOK
  <2>1. SlotOK(i)
    BY DEF IInv, SlotsOK
  <2> QED
    BY <2>1 DEF SlotOK, Repaint
<1>4. IdsUnique' /\ FocusOK'
  BY DEF Repaint, IInv, IdsUnique, FocusOK
<1> QED
  BY <1>1, <1>2, <1>3, <1>4 DEF IInv

\* A new client takes a session id above all others and has no capability.
LEMMA AcceptKeeps ==
  ASSUME IInv, Accept, UNCHANGED display
  PROVE  IInv'
<1> USE Constants
<1>1. next_session \in Sessions /\ next_session \in Nat /\ next_session \notin clients
  <2>1. next_session \in 1..MaxSession + 1 /\ next_session <= MaxSession
    BY DEF Accept, IInv, TypeOK
  <2>2. \A c \in clients : c < next_session
    BY DEF IInv, ClientsOK
  <2> QED
    BY <2>1, <2>2 DEF Sessions
<1>2. /\ client \in [Sessions -> Client] /\ clients \subseteq Sessions
      /\ opened \in Int
  BY DEF IInv, TypeOK
<1>3. /\ client' \in [Sessions -> Client] /\ clients' \subseteq Sessions
      /\ opened' \in Int
      /\ clients \subseteq clients' /\ clients' \subseteq clients \cup {next_session}
      /\ \A c \in clients : client'[c] = client[c]
      /\ next_session \in clients' =>
           client'[next_session].caps = {}
  <2>1. CASE UNCHANGED <<clients, client, opened>>
    BY <1>1, <1>2, <2>1
  <2>2. ASSUME NEW u \in Uids,
               clients' = clients \cup {next_session},
               client' = [client EXCEPT ![next_session] = NewClient(u)],
               opened' = opened + 1
        PROVE  /\ client' \in [Sessions -> Client] /\ clients' \subseteq Sessions
               /\ opened' \in Int
               /\ clients \subseteq clients'
               /\ clients' \subseteq clients \cup {next_session}
               /\ \A c \in clients : client'[c] = client[c]
               /\ client'[next_session].caps = {}
    <3>1. client'[next_session] = NewClient(u) /\ NewClient(u) \in Client
      BY <1>1, <1>2, <2>2, EmptyTypes
    <3>2. NewClient(u).caps = {}
      BY DEF NewClient
    <3>3. client' \in [Sessions -> Client]
      BY <1>1, <1>2, <2>2, <3>1
    <3>4. \A c \in clients : client'[c] = client[c]
      BY <1>1, <1>2, <2>2
    <3> QED
      BY <1>1, <1>2, <2>2, <3>1, <3>2, <3>3, <3>4
  <2> QED
    BY <2>1, <2>2 DEF Accept
<1>4. TypeOK'
  <2>1. next_session' \in 1..MaxSession + 1
    BY <1>1 DEF Accept, Sessions
  <2> QED
    BY <1>3, <2>1, Zenon DEF Accept, IInv, TypeOK, display
<1>5. WmIsConnected'
  BY <1>3 DEF Accept, IInv, WmIsConnected
<1>6. ClientsOK'
  <2> SUFFICES ASSUME NEW c \in clients'
               PROVE  /\ c < next_session + 1
                      /\ client'[c].caps \cap Privileged # {} => client'[c].uid = 0
                      /\ ~client'[c].hello => client'[c].caps = {}
    BY DEF Accept, ClientsOK
  <2>1. CASE c = next_session
    BY <1>1, <1>3, <2>1
  <2>2. CASE c # next_session
    <3>1. c \in clients /\ c \in Nat
      BY <1>2, <1>3, <2>2 DEF Sessions
    <3> QED
      BY <1>1, <1>3, <3>1 DEF IInv, ClientsOK
  <2> QED
    BY <2>1, <2>2
<1>7. SlotsOK'
  <2> SUFFICES ASSUME NEW i \in Slots PROVE SlotOK(i)'
    BY DEF SlotsOK
  <2>1. SlotOK(i)
    BY DEF IInv, SlotsOK
  <2> QED
    BY <1>3, <2>1 DEF SlotOK, Accept
<1>8. IdsUnique' /\ FocusOK'
  <2>1. focus.session \in Nat
    BY DEF IInv, TypeOK
  <2> QED
    BY <1>1, <2>1 DEF Accept, IInv, IdsUnique, FocusOK
<1> QED
  BY <1>4, <1>5, <1>6, <1>7, <1>8 DEF IInv

\* The per-client record changes in its descriptors only.
LEMMA FdsKeep ==
  ASSUME IInv, NEW c \in clients, NEW n \in 0..MaxFds,
         client' = [client EXCEPT ![c].fds = n], opened' \in Int,
         UNCHANGED <<clients, next_session, surf, next_surface, focus, wm, grabs,
                     lost, maps, display>>
  PROVE  IInv'
<1>1. c \in Sessions /\ client \in [Sessions -> Client]
  BY DEF IInv, TypeOK
<1>2. [client[c] EXCEPT !.fds = n] \in Client
  BY <1>1 DEF Client
<1>3. client' \in [Sessions -> Client]
  BY <1>1, <1>2
<1>4. \A d \in clients : client'[d].uid = client[d].uid /\ client'[d].caps = client[d].caps
                         /\ client'[d].hello = client[d].hello
  BY <1>1, <1>2, Zenon DEF IInv, TypeOK, Client
<1>5. Repaint(surf) /\ surf \in [Slots -> Surface] /\ maps' \in Int
  BY DEF Repaint, IInv, TypeOK
<1> QED
  BY <1>3, <1>4, <1>5, RepaintKeeps

\* Descriptors are queued up to the limit, or cost the client its connection.
LEMMA ReceiveFdsKeeps ==
  ASSUME Counting, IInv, NEW c \in clients, NEW n \in 1..MaxFds, ReceiveFds(c, n),
         UNCHANGED display
  PROVE  IInv'
<1> USE Constants
<1> DEFINE room == MaxFds - client[c].fds
<1>1. client[c].fds \in 0..MaxFds /\ opened \in Int /\ lost \in 0..MaxLost
  BY DEF IInv, TypeOK, Client
<1>2. CASE n <= room /\ client' = Queued(c, n) /\ opened' = opened + n
           /\ UNCHANGED <<clients, next_session, surf, next_surface, focus, wm,
                          grabs, lost, maps>>
  <2>1. client' = [client EXCEPT ![c].fds = client[c].fds + n]
    BY <1>2 DEF Queued, IInv, TypeOK
  <2>2. client[c].fds + n \in 0..MaxFds /\ opened' \in Int
    BY <1>1, <1>2
  <2> QED
    BY <1>2, <2>1, <2>2, FdsKeep, Zenon
<1>3. CASE n > room /\ lost + (n - room - 1) <= MaxLost
           /\ CloseWith(c, surf, n - room - 1) /\ UNCHANGED next_surface
  <2>1. n - room - 1 \in Nat
    BY <1>1, <1>3
  <2> HIDE DEF room
  <2> QED
    BY <1>3, <2>1, CloseKeepsAsIs
<1>4. CASE lost + n <= MaxLost /\ CloseWith(c, surf, n) /\ UNCHANGED next_surface
  BY <1>4, CloseKeepsAsIs
<1> QED
  BY <1>2, <1>3, <1>4 DEF ReceiveFds

\* HELLO grants what the uid may have; the first one to have WM becomes wm_client,
\* and who had nothing before cannot have been it.
LEMMA HelloKeeps ==
  ASSUME Counting, IInv, NEW c \in clients, NEW requested \in CapRequests,
         Hello(c, requested), UNCHANGED display
  PROVE  IInv'
<1> DEFINE granted == Negotiate(client[c].uid, requested)
<1>1. CASE Close(c)
  BY <1>1, CloseIsSafe
<1>2. CASE /\ ~client[c].hello
           /\ client' = [client EXCEPT ![c].hello = TRUE, ![c].caps = granted]
           /\ wm' = WmAfterHello(c, granted)
           /\ UNCHANGED <<clients, next_session, surf, next_surface, focus, grabs,
                          opened, lost, maps>>
  <2>1. /\ c \in Sessions /\ client[c] \in Client /\ granted \in SUBSET Caps
        /\ granted \cap Privileged # {} => client[c].uid = 0
    BY Constants DEF IInv, TypeOK, Negotiate, Open, Privileged, Client
  <2> HIDE DEF granted
  <2>2. /\ client' \in [Sessions -> Client]
        /\ \A d \in clients : client'[d].uid = client[d].uid
        /\ \A d \in clients \ {c} : client'[d] = client[d]
        /\ client'[c].caps = granted /\ client'[c].hello
    BY <1>2, <2>1, Zenon DEF IInv, TypeOK, Client
  <2>3. wm' = IF "WM" \in granted THEN c ELSE wm
    BY <1>2 DEF WmAfterHello
  <2>4. TypeOK'
    <3>1. wm' \in 0..MaxSession
      BY <2>1, <2>3 DEF IInv, TypeOK, Sessions
    <3> QED
      BY <1>2, <2>2, <3>1, Zenon DEF IInv, TypeOK, display
  <2>5. WmIsConnected'
    <3>1. CASE "WM" \in granted
      BY <1>2, <2>2, <2>3, <3>1 DEF WmIsConnected
    <3>2. CASE "WM" \notin granted /\ wm # c
      BY <1>2, <2>2, <2>3, <3>2, Zenon DEF WmIsConnected, IInv
    <3>3. CASE "WM" \notin granted /\ wm = c
      <4>1. client[c].caps = {}
        BY <1>2 DEF IInv, ClientsOK
      <4>2. c # 0
        BY <2>1, Constants DEF Sessions
      <4> QED
        BY <4>1, <4>2, <3>3 DEF WmIsConnected, IInv
    <3> QED
      BY <3>1, <3>2, <3>3
  <2>6. ClientsOK'
    <3> SUFFICES ASSUME NEW d \in clients
                 PROVE  /\ d < next_session
                        /\ client'[d].caps \cap Privileged # {} => client'[d].uid = 0
                        /\ ~client'[d].hello => client'[d].caps = {}
      BY <1>2, Zenon DEF ClientsOK
    <3>1. CASE d = c
      BY <2>1, <2>2, <3>1 DEF IInv, ClientsOK
    <3>2. CASE d # c
      BY <2>2, <3>2 DEF IInv, ClientsOK
    <3> QED
      BY <3>1, <3>2
  <2>7. SlotsOK'
    <3> SUFFICES ASSUME NEW i \in Slots PROVE SlotOK(i)'
      BY DEF SlotsOK
    <3>1. SlotOK(i)
      BY DEF IInv, SlotsOK
    <3> QED
      BY <1>2, <2>2, <3>1, ZenonT(60) DEF SlotOK
  <2>8. IdsUnique' /\ FocusOK'
    BY <1>2 DEF IInv, IdsUnique, FocusOK
  <2> QED
    BY <2>4, <2>5, <2>6, <2>7, <2>8 DEF IInv
<1> QED
  BY <1>1, <1>2, Zenon DEF Hello

\* lgp_surface_validate_request lets a client into the layers from the shell's
\* upward only with a capability that is root's.
LEMMA HighLayersNeedCaps ==
  ASSUME NEW caps, NEW r, r.layer \in Nat, Validate(caps, r) = "OK", r.layer >= SHELL
  PROVE  caps \cap Privileged # {}
<1>1. CASE r.type = "ISLAND" \/ r.type \in {"CHROME", "SHELL", "OVERLAY"}
  <2>1. "ISLAND" \in caps \/ "SHELL" \in caps
    BY <1>1 DEF Validate
  <2> QED
    BY <2>1 DEF Privileged
<1>2. CASE ~(r.type = "ISLAND" \/ r.type \in {"CHROME", "SHELL", "OVERLAY"})
  <2>1. r.layer = APPLICATION \/ r.layer = WALLPAPER
    BY <1>2 DEF Validate
  <2> QED
    BY <2>1 DEF APPLICATION, WALLPAPER, SHELL
<1> QED
  BY <1>1, <1>2

\* A surface gets the next id and a free slot; the focus may move to it.
LEMMA CreateKeeps ==
  ASSUME Counting, IInv, NEW c \in clients, NEW r \in Requests, Create(c, r), UNCHANGED display
  PROVE  IInv'
<1> USE Constants
<1> DEFINE s(i) == [surf EXCEPT ![i] = NewSurface(c, r, i)]
           new(i) == NewSurface(c, r, i)
<1>1. CASE UNCHANGED scene
  BY <1>1 DEF IInv, TypeOK, WmIsConnected, ClientsOK,
     SlotsOK, SlotOK,
     IdsUnique,
              FocusOK, scene, display
<1>2. ASSUME NEW i \in FirstFree, Validate(client[c].caps, r) = "OK",
             next_surface <= MaxSurface, next_surface' = next_surface + 1,
             \/ /\ surf' = s(i)
                /\ focus' = IF r.layer = APPLICATION
                            THEN [session |-> c, surface |-> NextId(i)] ELSE focus
                /\ UNCHANGED <<clients, client, next_session, wm, grabs, opened,
                               lost, maps>>
             \/ CloseWith(c, s(i), 0)
      PROVE  IInv'
  <2>1. /\ i \in Slots /\ surf[i].id = 0 /\ surf \in [Slots -> Surface]
        /\ c \in Sessions /\ c \in 1..MaxSession /\ c < next_session
        /\ next_surface \in 1..MaxSurface
    <3>1. /\ i \in Slots \ InUse /\ surf \in [Slots -> Surface]
          /\ clients \subseteq Sessions /\ c < next_session
          /\ next_surface \in 1..MaxSurface + 1
      BY <1>2, Zenon DEF FirstFree, IInv, TypeOK, ClientsOK
    <3>2. i \in Slots /\ surf[i].id = 0
      BY <3>1, Zenon DEF InUse
    <3>3. next_surface \in 1..MaxSurface
      BY ONLY <1>2, <3>1, Constants, SMTT(30), SMTT(60)
    <3> QED
      BY <3>1, <3>2, <3>3, Zenon DEF Sessions
  <2>2. /\ new(i).id = next_surface /\ new(i).owner = c /\ new(i).layer = r.layer
        /\ new(i).mapped = FALSE
    BY DEF NewSurface, NextId
  <2>3. new(i) \in Surface
    <3>1. r.x \in Int /\ r.w \in Nat /\ r.layer \in Nat
      BY CompositorAssumption
    <3>2. next_surface \in 0..MaxSurface /\ c \in 0..MaxSession
      BY <2>1
    <3>3. "NORMAL" \in {"NORMAL", "HIDDEN", "MINIMIZED"} /\ FALSE \in BOOLEAN
      OBVIOUS
    <3> QED
      BY ONLY <3>1, <3>2, <3>3 DEF NewSurface, NextId, Surface
  <2> HIDE DEF new
  <2>4. /\ s(i) \in [Slots -> Surface] /\ s(i)[i] = new(i)
        /\ \A j \in Slots \ {i} : s(i)[j] = surf[j]
    BY <2>1, <2>3 DEF new
  <2> HIDE DEF s
  <2>5. CASE CloseWith(c, s(i), 0)
    <3>1. LeftBehind(s(i), c)
      BY <2>1, <2>2, <2>4 DEF LeftBehind, SameSlot
    <3>2. next_surface' <= MaxSurface + 1 /\ lost + 0 <= MaxLost
      <4>1. next_surface' = next_surface + 1 /\ lost \in 0..MaxLost
        BY <1>2, Zenon DEF IInv, TypeOK
      <4> QED
        BY ONLY <2>1, <4>1, Constants
    <3> QED
      BY <1>2, <2>5, <3>1, <3>2, CloseKeeps
  <2>6. CASE /\ surf' = s(i)
             /\ focus' = IF r.layer = APPLICATION
                         THEN [session |-> c, surface |-> NextId(i)] ELSE focus
             /\ UNCHANGED <<clients, client, next_session, wm, grabs, opened,
                            lost, maps>>
    <3>1. TypeOK'
      <4>1. focus' \in [session : 0..MaxSession, surface : 0..MaxSurface]
        BY <2>1, <2>6 DEF NextId, IInv, TypeOK
      <4>2. next_surface' \in 1..MaxSurface + 1
        BY <1>2, <2>1
      <4> QED
        BY <2>4, <2>6, <4>1, <4>2, Zenon DEF IInv, TypeOK, display
    <3>2. WmIsConnected' /\ ClientsOK'
      BY <2>6 DEF IInv, WmIsConnected, ClientsOK
    <3>3. SlotsOK'
      <4> SUFFICES ASSUME NEW j \in Slots PROVE SlotOK(j)'
        BY DEF SlotsOK
      <4>1. CASE j = i
        <5>1. r.layer >= SHELL => client[c].uid = 0
          <6>1. r.layer \in Nat
            BY CompositorAssumption, ZenonT(60)
          <6> QED
            BY <1>2, <6>1, HighLayersNeedCaps, Zenon DEF IInv, ClientsOK
        <5> QED
          BY <1>2, <2>1, <2>2, <2>4, <2>6, <4>1, <5>1
             DEF SlotOK
      <4>2. CASE j # i
        <5>1. SlotOK(j) /\ surf'[j] = surf[j] /\ surf[j].id \in Nat
          BY <2>1, <2>4, <2>6, <4>2 DEF IInv, SlotsOK,
             Surface
        <5>2. next_surface' = next_surface + 1 /\ UNCHANGED <<clients, client>>
          BY <1>2, <2>6, Zenon
        <5>3. next_surface \in Nat
          BY ONLY <2>1, Constants, SMTT(30), SMTT(60)
        <5> QED
          BY ONLY <5>1, <5>2, <5>3, SMTT(30), SMTT(60) DEF SlotOK
      <4> QED
        BY <4>1, <4>2
    <3>4. \A j \in Slots : j # i /\ surf[j].id # 0 => surf[j].id < next_surface
      BY DEF IInv, SlotsOK, SlotOK
    <3>5. \A j \in Slots : surf[j].id \in Nat
      BY <2>1 DEF Surface
    <3>6. IdsUnique'
      BY <2>1, <2>2, <2>4, <2>6, <3>4, <3>5 DEF IInv,
         IdsUnique
    <3>7. FocusOK'
      <4>1. CASE r.layer = APPLICATION
        BY <1>2, <2>1, <2>2, <2>4, <2>6, <3>4, <3>5, <4>1
           DEF FocusOK, NextId
      <4>2. CASE r.layer # APPLICATION
        <5>1. focus.surface < next_surface /\ focus.surface \in Nat
          BY DEF IInv, FocusOK, TypeOK
        <5> QED
          BY <1>2, <2>1, <2>2, <2>4, <2>6, <4>2, <5>1
             DEF IInv,
             FocusOK
      <4> QED
        BY <4>1, <4>2
    <3> QED
      BY <3>1, <3>2, <3>3, <3>6, <3>7 DEF IInv
  <2> QED
    BY <1>2, <2>5, <2>6
<1>3. \/ UNCHANGED scene
      \/ \E i \in FirstFree :
           /\ Validate(client[c].caps, r) = "OK" /\ next_surface <= MaxSurface
           /\ next_surface' = next_surface + 1
           /\ \/ /\ surf' = s(i)
                 /\ focus' = IF r.layer = APPLICATION
                             THEN [session |-> c, surface |-> NextId(i)] ELSE focus
                 /\ UNCHANGED <<clients, client, next_session, wm, grabs, opened,
                                lost, maps>>
              \/ CloseWith(c, s(i), 0)
  BY ONLY Create(c, r), SMTT(30), SMTT(60) DEF Create
<1> HIDE DEF s
<1> QED
  BY <1>1, <1>2, <1>3, ZenonT(60)

\* A slot is freed; the focus may be left behind.
LEMMA DestroyKeeps ==
  ASSUME Counting, IInv, NEW c \in clients, NEW id \in 1..MaxSurface, Destroy(c, id),
         UNCHANGED display
  PROVE  IInv'
<1>1. CASE Close(c)
  BY <1>1, CloseIsSafe
<1>2. ASSUME NEW i \in OwnSlot(c, id), surf' = [surf EXCEPT ![i] = Free],
             maps' = (IF surf[i].mapped THEN maps - 1 ELSE maps),
             UNCHANGED <<clients, client, next_session, next_surface, focus, wm,
                         grabs, opened, lost>>
      PROVE  IInv'
  <2>1. i \in Slots /\ surf \in [Slots -> Surface] /\ maps' \in Int
    BY <1>2 DEF OwnSlot, Find, InUse, IInv, TypeOK
  <2>2. /\ surf' \in [Slots -> Surface] /\ surf'[i] = Free
        /\ \A j \in Slots \ {i} : surf'[j] = surf[j]
    BY <1>2, <2>1, EmptyTypes
  <2>3. TypeOK'
    BY <1>2, <2>1, <2>2 DEF IInv, TypeOK, display
  <2>4. WmIsConnected' /\ ClientsOK'
    BY <1>2, Zenon DEF IInv, WmIsConnected, ClientsOK
  <2>5. SlotsOK'
    <3> SUFFICES ASSUME NEW j \in Slots PROVE SlotOK(j)'
      BY DEF SlotsOK
    <3>1. CASE j = i
      BY ONLY <2>2, <3>1, SMTT(30), SMTT(60) DEF SlotOK, Free
    <3>2. CASE j # i
      <4>1. SlotOK(j) /\ surf'[j] = surf[j]
        BY <2>2, <3>2, Zenon DEF IInv, SlotsOK
      <4>2. UNCHANGED <<clients, client, next_surface>>
        BY <1>2, Zenon
      <4> QED
        BY ONLY <4>1, <4>2 DEF SlotOK
    <3> QED
      BY <3>1, <3>2
  <2>6. \A j \in Slots : surf'[j].id # 0 => surf'[j] = surf[j]
    BY <2>2 DEF Free
  <2>7. IdsUnique' /\ FocusOK'
    BY <1>2, <2>6 DEF IInv, IdsUnique, FocusOK
  <2> QED
    BY <2>3, <2>4, <2>5, <2>7 DEF IInv
<1> QED
  BY <1>1, <1>2 DEF Destroy

\* A surface gets a mapping and its client has one descriptor less.
LEMMA CommitKeeps ==
  ASSUME Counting, IInv, NEW c \in clients, NEW id \in 1..MaxSurface, Commit(c, id),
         UNCHANGED display
  PROVE  IInv'
<1>1. CASE Close(c)
  BY <1>1, CloseIsSafe
<1>2. ASSUME NEW i \in Mappable(c, id), client' = Taken(c), opened' = opened - 1,
             maps' = (IF surf[i].mapped THEN maps ELSE maps + 1),
             Repaint([surf EXCEPT ![i].mapped = TRUE])
      PROVE  IInv'
  <2> DEFINE s == [surf EXCEPT ![i].mapped = TRUE]
  <2>1. /\ i \in Slots /\ surf[i].id # 0 /\ client[c].fds # 0
        /\ surf \in [Slots -> Surface] /\ client \in [Sessions -> Client]
        /\ c \in Sessions /\ clients \subseteq Sessions
        /\ opened' \in Int /\ maps' \in Int
    BY <1>2 DEF Mappable, OwnSlot, Find, InUse, IInv,
       TypeOK
  <2>2. [surf[i] EXCEPT !.mapped = TRUE] \in Surface
    <3>1. surf[i] \in Surface
      BY <2>1
    <3> QED
      BY ONLY <3>1, Zenon DEF Surface
  <2>3. /\ s \in [Slots -> Surface]
        /\ \A j \in Slots : s[j].id = surf[j].id /\ s[j].owner = surf[j].owner
                            /\ s[j].layer = surf[j].layer
                            /\ (s[j].mapped => surf[j].mapped \/ surf[j].id # 0)
    BY <2>1, <2>2 DEF Surface
  <2>4. client[c] \in Client /\ client[c].fds - 1 \in 0..MaxFds
    BY <2>1, Constants DEF Client
  <2>5. [client[c] EXCEPT !.fds = client[c].fds - 1] \in Client
    BY <2>4 DEF Client
  <2>6. client' \in [Sessions -> Client]
    BY <1>2, <2>1, <2>5 DEF Taken
  <2>7. \A d \in clients : client'[d].uid = client[d].uid
                           /\ client'[d].caps = client[d].caps
                           /\ client'[d].hello = client[d].hello
    BY <1>2, <2>1, <2>4 DEF Taken, Client
  <2>8. Repaint(s)
    BY <1>2
  <2> HIDE DEF s
  <2> QED
    BY <2>1, <2>3, <2>6, <2>7, <2>8, RepaintKeeps
<1> QED
  BY <1>1, <1>2, ZenonT(60) DEF Commit

\* Drawing changes no table.
LEMMA FillRectKeeps ==
  ASSUME Counting, IInv, NEW c \in clients, FillRect(c), UNCHANGED display
  PROVE  IInv'
<1>1. CASE Close(c)
  BY <1>1, CloseIsSafe
<1>2. CASE Repaint(surf) /\ UNCHANGED <<client, opened, maps>>
  BY <1>2, RepaintKeeps, Zenon DEF IInv, TypeOK
<1> QED
  BY <1>1, <1>2 DEF FillRect

\* What the window manager's requests do to the scene: nothing the invariant
\* sees, whether the repaint succeeds or costs it its connection.
LEMMA MovedKeeps ==
  ASSUME Counting, IInv, NEW c \in clients, NEW s \in [Slots -> Surface],
         \A i \in Slots : SameSlot(s, i),
         \/ Repaint(s) /\ UNCHANGED <<client, opened, maps>>
         \/ CloseWith(c, s, 0) /\ UNCHANGED next_surface,
         UNCHANGED display
  PROVE  IInv'
<1>1. CASE Repaint(s) /\ UNCHANGED <<client, opened, maps>>
  BY <1>1, RepaintKeeps, Zenon DEF IInv, TypeOK, SameSlot
<1>2. CASE CloseWith(c, s, 0) /\ UNCHANGED next_surface
  <2>1. LeftBehind(s, c)
    BY DEF LeftBehind, SameSlot
  <2>2. next_surface' <= MaxSurface + 1 /\ lost + 0 <= MaxLost
    <3>1. /\ next_surface' = next_surface /\ next_surface \in 1..MaxSurface + 1
          /\ lost \in 0..MaxLost
      BY <1>2, Zenon DEF IInv, TypeOK
    <3> QED
      BY ONLY <3>1, Constants
  <2> QED
    BY <1>2, <2>1, <2>2, CloseKeeps
<1> QED
  BY <1>1, <1>2, Zenon

\* The focus moves to a surface there is, or to none.
LEMMA FocusKeeps ==
  ASSUME IInv,
         \/ focus' = [session |-> 0, surface |-> 0]
         \/ \E i \in InUse : focus' = [session |-> surf[i].owner, surface |-> surf[i].id],
         UNCHANGED <<clients, client, next_session, surf, next_surface, wm, grabs,
                     opened, lost, maps, display>>
  PROVE  IInv'
<1> USE Constants
<1>1. next_session \in Nat \ {0} /\ next_surface \in Nat \ {0}
  <2>1. next_session \in 1..MaxSession + 1 /\ next_surface \in 1..MaxSurface + 1
    BY Zenon DEF IInv, TypeOK
  <2> QED
    BY ONLY <2>1, Counters
<1>2. ASSUME NEW i \in InUse
      PROVE  /\ surf[i].owner \in 0..MaxSession /\ surf[i].id \in 0..MaxSurface
             /\ surf[i].owner < next_session /\ surf[i].id < next_surface
             /\ surf[i].id # 0 /\ i \in Slots
  <2>1. i \in Slots /\ surf[i].id # 0 /\ surf[i] \in Surface
    BY <1>2, Zenon DEF InUse, IInv, TypeOK
  <2>2. surf[i].owner \in clients /\ surf[i].id < next_surface
    BY <2>1, Zenon DEF IInv, SlotsOK, SlotOK
  <2>3. surf[i].owner < next_session
    BY <2>2, Zenon DEF IInv, ClientsOK
  <2>4. surf[i].owner \in 0..MaxSession /\ surf[i].id \in 0..MaxSurface
    BY ONLY <2>1 DEF Surface
  <2> QED
    BY ONLY <2>1, <2>2, <2>3, <2>4
<1>3. focus' \in [session : 0..MaxSession, surface : 0..MaxSurface]
  <2>1. CASE focus' = [session |-> 0, surface |-> 0]
    BY ONLY <2>1, Constants, SMTT(30), SMTT(60)
  <2>2. ASSUME NEW i \in InUse,
               focus' = [session |-> surf[i].owner, surface |-> surf[i].id]
        PROVE  focus' \in [session : 0..MaxSession, surface : 0..MaxSurface]
    BY ONLY <1>2, <2>2
  <2> QED
    BY <2>1, <2>2, Zenon
<1>4. TypeOK'
  BY <1>3, Zenon DEF IInv, TypeOK, display
<1>5. FocusOK'
  <2>1. CASE focus' = [session |-> 0, surface |-> 0]
    BY <1>1, <2>1 DEF FocusOK
  <2>2. ASSUME NEW i \in InUse,
               focus' = [session |-> surf[i].owner, surface |-> surf[i].id]
        PROVE  FocusOK'
    BY <1>2, <2>2 DEF FocusOK, IInv, IdsUnique
  <2> QED
    BY <2>1, <2>2
<1> QED
  BY <1>4, <1>5, ZenonT(60) DEF IInv, WmIsConnected, ClientsOK, SlotsOK,
     SlotOK, IdsUnique

\* lgp_handle_wm_set_position preserves the invariant.
LEMMA WmSetPositionKeeps ==
  ASSUME Counting, IInv, NEW c \in clients, NEW id \in 1..MaxSurface, NEW x \in Positions,
         WmSetPosition(c, id, x), UNCHANGED display
  PROVE  IInv'
<1>1. CASE Close(c)
  BY <1>1, CloseIsSafe
<1>2. CASE UNCHANGED scene
  BY <1>2, Zenon DEF IInv, TypeOK, WmIsConnected, ClientsOK, SlotsOK, SlotOK,
     IdsUnique,
              FocusOK, scene, display
<1>3. ASSUME NEW i \in Find(id),
             \/ /\ Repaint([surf EXCEPT ![i].x = x])
                /\ UNCHANGED <<client, opened, maps>>
             \/ /\ CloseWith(c, [surf EXCEPT ![i].x = x], 0)
                /\ UNCHANGED next_surface
      PROVE  IInv'
  <2> DEFINE s == [surf EXCEPT ![i].x = x]
  <2>1. i \in Slots /\ surf \in [Slots -> Surface] /\ x \in Int
    BY <1>3, Constants DEF Find, InUse, IInv, TypeOK
  <2>2. [surf[i] EXCEPT !.x = x] \in Surface
    BY <2>1 DEF Surface
  <2>3. s \in [Slots -> Surface] /\ \A j \in Slots : SameSlot(s, j)
    BY <2>1, <2>2 DEF SameSlot, Surface
  <2>4. \/ Repaint(s) /\ UNCHANGED <<client, opened, maps>>
        \/ CloseWith(c, s, 0) /\ UNCHANGED next_surface
    BY <1>3
  <2> HIDE DEF s
  <2> QED
    BY <2>3, <2>4, MovedKeeps
<1> QED
  BY <1>1, <1>2, <1>3, Zenon DEF WmSetPosition

\* lgp_handle_wm_set_focus preserves the invariant.
LEMMA WmSetFocusKeeps ==
  ASSUME Counting, IInv, NEW c \in clients, NEW id \in 0..MaxSurface, WmSetFocus(c, id),
         UNCHANGED display
  PROVE  IInv'
<1>1. CASE Close(c)
  BY <1>1, CloseIsSafe
<1>2. CASE /\ \/ id = 0 /\ focus' = [session |-> 0, surface |-> 0]
              \/ \E i \in Find(id) :
                   focus' = [session |-> surf[i].owner, surface |-> id]
           /\ UNCHANGED <<clients, client, next_session, surf, next_surface, wm,
                          grabs, opened, lost, maps>>
  <2>1. \/ focus' = [session |-> 0, surface |-> 0]
        \/ \E i \in InUse : focus' = [session |-> surf[i].owner, surface |-> surf[i].id]
    BY <1>2 DEF Find
  <2> QED
    BY <1>2, <2>1, FocusKeeps
<1> QED
  BY <1>1, <1>2 DEF WmSetFocus

\* lgp_handle_wm_set_state preserves the invariant.
LEMMA WmSetStateKeeps ==
  ASSUME Counting, IInv, NEW c \in clients, NEW id \in 1..MaxSurface,
         NEW new \in {"NORMAL", "HIDDEN"}, WmSetState(c, id, new), UNCHANGED display
  PROVE  IInv'
<1> DEFINE s == [i \in Slots |-> IF i \in Find(id) THEN [surf[i] EXCEPT !.state = new]
                                ELSE surf[i]]
<1>1. CASE Close(c)
  BY <1>1, CloseIsSafe
<1>2. CASE \/ Repaint(s) /\ UNCHANGED <<client, opened, maps>>
           \/ CloseWith(c, s, 0) /\ UNCHANGED next_surface
  <2>1. surf \in [Slots -> Surface]
    BY DEF IInv, TypeOK
  <2>2. \A i \in Slots : [surf[i] EXCEPT !.state = new] \in Surface
    BY <2>1 DEF Surface
  <2>3. s \in [Slots -> Surface] /\ \A j \in Slots : SameSlot(s, j)
    BY <2>1, <2>2 DEF SameSlot, Surface
  <2> HIDE DEF s
  <2> QED
    BY <1>2, <2>3, MovedKeeps
<1> QED
  BY <1>1, <1>2 DEF WmSetState

\* lgp_handle_wm_grab_key fills the table up to its length.
LEMMA WmGrabKeyKeeps ==
  ASSUME Counting, IInv, NEW c \in clients, NEW k \in Keys, WmGrabKey(c, k), UNCHANGED display
  PROVE  IInv'
<1>1. CASE Close(c)
  BY <1>1, CloseIsSafe
<1>2. CASE /\ grabs' = IF Len(grabs) < MaxGrabs THEN Append(grabs, k) ELSE grabs
           /\ UNCHANGED <<clients, client, next_session, surf, next_surface, focus,
                          wm, opened, lost, maps>>
  <2>1. grabs' \in Seq(Keys) /\ Len(grabs') <= MaxGrabs
    BY <1>2, Constants DEF IInv, TypeOK
  <2>2. TypeOK'
    BY <1>2, <2>1, Zenon DEF IInv, TypeOK, display
  <2> QED
    BY <1>2, <2>2, Zenon DEF IInv, WmIsConnected, ClientsOK, SlotsOK, SlotOK,
       IdsUnique,
                      FocusOK
<1> QED
  BY <1>1, <1>2, ZenonT(60) DEF WmGrabKey

\* So does every message of a client.
LEMMA MessageKeeps ==
  ASSUME Counting, IInv, NEW c \in clients, Message(c), UNCHANGED display
  PROVE  IInv'
<1>1. CASE \E requested \in CapRequests : Hello(c, requested)
  BY <1>1, HelloKeeps
<1>2. CASE \E r \in Requests : Create(c, r)
  BY <1>2, CreateKeeps
<1>3. CASE FillRect(c)
  BY <1>3, FillRectKeeps
<1>4. CASE \E k \in Keys : WmGrabKey(c, k)
  BY <1>4, WmGrabKeyKeeps
<1>5. CASE \E id \in 1..MaxSurface : Destroy(c, id) \/ Commit(c, id)
  BY <1>5, DestroyKeeps, CommitKeeps
<1>6. CASE \E id \in 0..MaxSurface : WmSetFocus(c, id)
  BY <1>6, WmSetFocusKeeps
<1>7. CASE \E id \in 1..MaxSurface, x \in Positions : WmSetPosition(c, id, x)
  BY <1>7, WmSetPositionKeeps
<1>8. CASE \E id \in 1..MaxSurface, new \in {"NORMAL", "HIDDEN"} : WmSetState(c, id, new)
  BY <1>8, WmSetStateKeeps
<1> QED
  BY <1>1, <1>2, <1>3, <1>4, <1>5, <1>6, <1>7, <1>8 DEF Message

\* A press focuses a surface there is.
LEMMA PointerButtonKeeps ==
  ASSUME IInv, NEW x \in 0..Width - 1, PointerButton(x), UNCHANGED display
  PROVE  IInv'
<1>1. PICK i \in PointerTarget(surf, wm, x) :
        /\ focus' = [session |-> surf[i].owner, surface |-> surf[i].id]
        /\ UNCHANGED <<clients, client, next_session, surf, next_surface, wm, grabs,
                       opened, lost, maps>>
  BY DEF PointerButton
<1>2. i \in InUse
  BY DEF PointerTarget, Hittable, InUse
<1> QED
  BY <1>1, <1>2, FocusKeeps

\* Every event of the loop preserves the invariant.
LEMMA EventKeeps ==
  ASSUME Counting, IInv, Event, UNCHANGED display
  PROVE  IInv'
<1>1. CASE Accept
  BY <1>1, AcceptKeeps
<1>2. CASE \E c \in clients : Disconnect(c)
  BY <1>2, CloseIsSafe DEF Disconnect
<1>3. CASE \E c \in clients : Message(c)
  BY <1>3, MessageKeeps
<1>4. CASE \E c \in clients : \E n \in 1..MaxFds : ReceiveFds(c, n)
  BY <1>4, ReceiveFdsKeeps
<1>5. CASE \E x \in 0..Width - 1 : PointerButton(x)
  BY <1>5, PointerButtonKeeps
<1> QED
  BY <1>1, <1>2, <1>3, <1>4, <1>5 DEF Event

-----------------------------------------------------------------------------
(* The process around the scene.                                           *)

\* What main has acquired for sure when it gets to a phase.
Needed(p) ==
  (IF p \in {"start", "exit"} THEN {} ELSE {"log"})
    \cup (IF p \in {"start", "epoll", "exit"} THEN {} ELSE {"epoll", "signal"})
    \cup (IF p \in {"start", "epoll", "drm", "exit"} THEN {} ELSE Device)
    \cup (IF p \in {"crtc", "socket", "loop"} THEN Buffer ELSE {})
    \cup (IF p = "loop" THEN {"listen"} ELSE {})

\* What it may have besides.
Optional(p) ==
  (IF p \in {"buffer", "crtc", "socket", "loop"} THEN {"input"} ELSE {})
    \cup (IF p = "loop" THEN {"polled"} ELSE {})
    \cup (IF p = "exit" THEN {"input", "epoll", "signal"} ELSE {})

DisplayInv ==
  /\ phase \in Phases /\ sock \in BOOLEAN
  /\ Needed(phase) \subseteq held /\ held \subseteq Needed(phase) \cup Optional(phase)
  /\ phase = "loop" => sock

\* Each step of main up to the loop, and each way out of it, keeps what is held
\* in line with the phase.
LEMMA DisplayStep ==
  ASSUME DisplayInv, StartUp \/ CleanUp \/ Die \/ Respawn
  PROVE  DisplayInv'
<1> USE DEF DisplayInv, Needed, Optional, Phases, Base, Device, Buffer, Resources,
            Advance, Fail
<1> DEFINE SetsOK == /\ phase \in Phases /\ Needed(phase) \subseteq held
                     /\ held \subseteq Needed(phase) \cup Optional(phase)
           SockOK == sock \in BOOLEAN /\ (phase = "loop" => sock)
<1>1. CASE LogInit
  BY <1>1 DEF LogInit
<1>2. CASE EpollInit
  BY <1>2 DEF EpollInit
<1>3. CASE DrmOpen
  BY <1>3 DEF DrmOpen
<1>4. CASE ConnectorSetup
  BY <1>4 DEF ConnectorSetup
<1>5. CASE InputInit
  BY <1>5 DEF InputInit
<1>6. CASE BufferCreate
  BY <1>6 DEF BufferCreate, err_destroy, err_rmfb
<1>7. CASE CrtcCommit
  BY <1>7 DEF CrtcCommit
<1>8. CASE SocketInit
  <2>1. /\ phase = "socket" /\ Base \cup Device \cup Buffer \subseteq held
        /\ held \subseteq Base \cup Device \cup Buffer \cup {"input"}
    BY <1>8 DEF SocketInit
  <2>2. CASE /\ phase' = "loop" /\ sock' = TRUE
             /\ \E added \in {{}, {"polled"}} : held' = held \cup {"listen"} \cup added
    <3>1. SetsOK'
      <4>1. /\ phase' = "loop" /\ "listen" \in held' /\ held \subseteq held'
            /\ held' \subseteq held \cup {"listen", "polled"}
        BY ONLY <2>2
      <4> QED
        BY <2>1, <4>1
    <3>2. SockOK'
      BY ONLY <2>2, ZenonT(60)
    <3> QED
      BY ONLY <3>1, <3>2, ZenonT(60) DEF DisplayInv
  <2>3. CASE /\ phase' = "exit"
             /\ held' = held \ (Buffer \cup Device \cup Base)
             /\ sock' \in {sock, FALSE, TRUE}
    <3>1. SetsOK'
      BY <2>1, <2>3
    <3>2. SockOK'
      <4>1. sock \in BOOLEAN /\ phase' # "loop"
        BY <2>3
      <4> QED
        BY ONLY <2>3, <4>1, Zenon
    <3> QED
      BY ONLY <3>1, <3>2, Zenon DEF DisplayInv
  <2> QED
    BY <1>8, <2>2, <2>3, ZenonT(60) DEF SocketInit
<1>9. CASE CleanUp
  <2>1. SetsOK'
    BY <1>9 DEF CleanUp
  <2>2. SockOK'
    <3>1. phase' # "loop" /\ sock' = FALSE
      BY ONLY <1>9, ZenonT(60) DEF CleanUp
    <3> QED
      BY ONLY <3>1, Zenon
  <2> QED
    BY ONLY <2>1, <2>2, Zenon DEF DisplayInv
<1>10. CASE Die
  BY <1>10 DEF Die
<1>11. CASE Respawn
  BY <1>11 DEF Respawn
<1> QED
  BY <1>1, <1>2, <1>3, <1>4, <1>5, <1>6, <1>7, <1>8, <1>9, <1>10, <1>11,
     ZenonT(60)
     DEF StartUp

\* What main may hold in any phase is one of the things it can acquire.
LEMMA HoldsResources ==
  ASSUME NEW p, NEW h, h \subseteq Needed(p) \cup Optional(p)
  PROVE  h \subseteq Resources
BY DEF Needed, Optional, Resources, Base, Device, Buffer

\* The scene stands while main moves from phase to phase.
LEMMA StandingScene ==
  ASSUME IInv, DisplayInv', UNCHANGED scene
  PROVE  IInv'
<1>1. TypeOK'
  <2>1. phase' \in Phases /\ held' \subseteq Resources /\ sock' \in BOOLEAN
    <3>1. phase' \in Phases /\ sock' \in BOOLEAN
      BY ZenonT(60) DEF DisplayInv
    <3> QED
      BY <3>1, HoldsResources, Zenon DEF DisplayInv
  <2> QED
    BY <2>1 DEF IInv, TypeOK, scene
<1>2. WmIsConnected' /\ ClientsOK' /\ IdsUnique' /\ FocusOK'
  BY DEF IInv, WmIsConnected, ClientsOK, IdsUnique, FocusOK,
     scene
<1>3. SlotsOK'
  BY DEF IInv, SlotsOK, SlotOK, scene
<1> QED
  BY <1>1, <1>2, <1>3 DEF IInv

\* Both invariants hold to begin with.
LEMMA InitInvariant == Init => IInv /\ DisplayInv
<1> SUFFICES ASSUME Init PROVE IInv /\ DisplayInv
  OBVIOUS
<1>1. phase = "start" /\ held = {} /\ sock \in BOOLEAN /\ SceneInit
  BY DEF Init, InitDisplay
<1>2. phase \in Phases /\ held \subseteq Resources
  BY <1>1 DEF Phases
<1>3. Needed(phase) \subseteq held /\ phase # "loop"
  BY <1>1 DEF Needed
<1>4. DisplayInv
  BY <1>1, <1>2, <1>3 DEF DisplayInv
<1> QED
  BY <1>1, <1>2, <1>4, EmptyScene

\* Every step of the program preserves the two invariants together.
LEMMA StepInvariant ==
  Counting /\ IInv /\ DisplayInv /\ [Next]_vars => IInv' /\ DisplayInv'
<1> SUFFICES ASSUME Counting, IInv, DisplayInv, [Next]_vars
             PROVE  IInv' /\ DisplayInv'
  OBVIOUS
<1>1. CASE StartUp /\ UNCHANGED scene
  BY <1>1, DisplayStep, StandingScene
<1>2. CASE Serve
  <2>1. DisplayInv'
    BY <1>2 DEF Serve, display, DisplayInv, Needed, Optional
  <2> QED
    BY <1>2, <2>1, EventKeeps DEF Serve
<1>3. CASE Stop
  <2>1. DisplayInv'
    BY <1>3, DisplayStep DEF Stop
  <2>2. phase' \in Phases /\ held' \subseteq Resources /\ sock' \in BOOLEAN
    <3>1. phase' \in Phases /\ sock' \in BOOLEAN
      BY <2>1, Zenon DEF DisplayInv
    <3> QED
      BY <2>1, <3>1, HoldsResources, Zenon DEF DisplayInv
  <2> QED
    BY <1>3, <2>1, <2>2, EndedScene DEF Stop
<1>4. CASE Respawn /\ UNCHANGED scene
  BY <1>4, DisplayStep, StandingScene
<1>5. CASE UNCHANGED vars
  <2>1. DisplayInv' /\ UNCHANGED scene
    BY <1>5 DEF vars, DisplayInv, Needed, Optional
  <2> QED
    BY <2>1, StandingScene
<1> QED
  BY <1>1, <1>2, <1>3, <1>4, <1>5 DEF Next

=============================================================================
