----------------------------- MODULE Compositor -----------------------------
(***************************************************************************)
(* lgp-compositor: the clients of the display protocol, their surfaces,    *)
(* the window manager, keyboard focus and key grabs, and the descriptors   *)
(* and mappings held for them, inside the process of module Display.       *)
(*                                                                         *)
(* The loop is single-threaded: an action is one epoll event handled to    *)
(* the end, for a client one complete message.  Which message comes next   *)
(* from which client, and when a client goes away, is arbitrary.           *)
(***************************************************************************)
EXTENDS Display, LgpScene, FiniteSets, Sequences, Functions

CONSTANTS
  MaxSession,   \* bound: clients accepted in the life of a compositor
  MaxSurface,   \* bound: surfaces created in the life of a compositor
  MaxFds,       \* LGP_CLIENT_MAX_PENDING_FDS
  MaxLost,      \* bound: descriptors received and forgotten
  MaxGrabs,     \* the length of grabbed_keys
  Uids,         \* the users that connect; 0 is root
  CapRequests,  \* what clients ask for in HELLO
  Requests,     \* the payloads of CREATE_SURFACE
  Positions,    \* where the window manager puts surfaces
  Keys          \* key and modifier combinations

ASSUME CompositorAssumption ==
  /\ SurfaceMax \in Nat /\ Width \in Nat \ {0}
  /\ MaxSession \in Nat /\ MaxSurface \in Nat /\ MaxFds \in Nat /\ MaxLost \in Nat
  /\ MaxGrabs \in Nat /\ 0 \in Uids /\ Uids \subseteq Nat
  /\ CapRequests \subseteq SUBSET Caps /\ Positions \subseteq Int
  /\ \A r \in Requests : r.x \in Int /\ r.w \in Nat /\ r.layer \in Nat

VARIABLES
  clients,       \* session ids of the connected clients
  client,        \* per session: uid, hello_done, caps_granted, pending_fd_count
  next_session,  \* next_session_id
  surf,          \* surface_manager.surfaces
  next_surface,  \* next_surface_id
  focus,         \* keyboard_focus_session_id and keyboard_focus_surface_id
  wm,            \* session of wm_client, 0 for NULL
  grabs,         \* grabbed_keys
  opened,        \* open descriptors: client sockets and received buffers
  lost,          \* of these, received buffers no structure refers to
  maps           \* mappings of client buffers

scene == <<clients, client, next_session, surf, next_surface, focus, wm, grabs,
           opened, lost, maps>>
vars == <<phase, held, sock, scene>>

Sessions == 1..MaxSession
NewClient(u) == [uid |-> u, hello |-> FALSE, caps |-> {}, fds |-> 0]
NoClient == NewClient(0)
Client == [uid : Uids, hello : BOOLEAN, caps : SUBSET Caps, fds : 0..MaxFds]
Surface == [id : 0..MaxSurface, owner : 0..MaxSession, layer : Nat, x : Int,
            w : Nat, state : {"NORMAL", "HIDDEN", "MINIMIZED"}, mapped : BOOLEAN]

InUse == {i \in Slots : surf[i].id # 0}
Find(id) == {i \in InUse : surf[i].id = id}
Of(c) == {i \in InUse : surf[i].owner = c}

\* lgp_compositor_state_t as main initialises it.
SceneInit ==
  /\ clients = {} /\ client = [c \in Sessions |-> NoClient] /\ next_session = 1
  /\ surf = [i \in Slots |-> Free] /\ next_surface = 1
  /\ focus = [session |-> 0, surface |-> 0] /\ wm = 0 /\ grabs = << >>
  /\ opened = 0 /\ lost = 0 /\ maps = 0

SceneEnds ==
  /\ clients' = {} /\ client' = [c \in Sessions |-> NoClient] /\ next_session' = 1
  /\ surf' = [i \in Slots |-> Free] /\ next_surface' = 1
  /\ focus' = [session |-> 0, surface |-> 0] /\ wm' = 0 /\ grabs' = << >>
  /\ opened' = 0 /\ lost' = 0 /\ maps' = 0

Init == InitDisplay /\ SceneInit

-----------------------------------------------------------------------------
(* Clients come and go.                                                    *)

\* lgp_surface_manager_destroy_for_client, on the surfaces s.
Released(s, c) == [i \in Slots |-> IF s[i].owner = c THEN Free ELSE s[i]]

\* Mutant of CloseWith: lgp_client_destroy forgets the pending descriptors.
CloseWithLeak(c, s, leaked) ==
  /\ wm' = IF wm = c THEN 0 ELSE wm
  /\ surf' = Released(s, c)
  /\ maps' = maps - Cardinality({i \in Of(c) : surf[i].mapped})
  /\ clients' = clients \ {c}
  /\ client' = [client EXCEPT ![c] = NoClient]
  /\ opened' = opened + leaked - 1
  /\ lost' = lost + leaked
  /\ UNCHANGED <<next_session, focus, grabs>>

\* lgp_state_close_client, after a handler that left the surfaces s: the
\* surfaces of c with their mappings, its list entry, its socket and its
\* pending descriptors.  leaked counts descriptors received for c that no
\* structure refers to.  Focus and grabs stay as they are, nothing is
\* repainted and the window manager is not told.
CloseWith(c, s, leaked) ==
  /\ wm' = IF wm = c THEN 0 ELSE wm
  /\ surf' = Released(s, c)
  /\ maps' = maps - Cardinality({i \in Of(c) : surf[i].mapped})
  /\ clients' = clients \ {c}
  /\ client' = [client EXCEPT ![c] = NoClient]
  /\ opened' = opened + leaked - (1 + client[c].fds)
  /\ lost' = lost + leaked
  /\ UNCHANGED <<next_session, focus, grabs>>

Close(c) == CloseWith(c, surf, 0) /\ UNCHANGED next_surface

\* accept4, lgp_client_create and the registration with epoll; a client that
\* cannot be registered has used up its session id.
Accept ==
  /\ "polled" \in held /\ next_session <= MaxSession
  /\ \/ \E u \in Uids :
          /\ clients' = clients \cup {next_session}
          /\ client' = [client EXCEPT ![next_session] = NewClient(u)]
          /\ opened' = opened + 1
     \/ UNCHANGED <<clients, client, opened>>
  /\ next_session' = next_session + 1
  /\ UNCHANGED <<surf, next_surface, focus, wm, grabs, lost, maps>>

\* recvmsg returns end of file or an error; a frame whose length is below the
\* header's or above the buffer's; an unknown type; a malformed payload.
Disconnect(c) == Close(c)

\* lgp_client_queue_fd and lgp_client_take_fd.
Queued(c, n) == [client EXCEPT ![c].fds = @ + n]
Taken(c)     == [client EXCEPT ![c].fds = @ - 1]

\* lgp_client_read_available takes n descriptors off a message.  The queue
\* holds MaxFds: the first one beyond is closed, those after it are forgotten,
\* and the client goes.  A control message the kernel had to cut short
\* (MSG_CTRUNC) is not looked at: what did arrive with it is forgotten.
ReceiveFds(c, n) ==
  LET room == MaxFds - client[c].fds
  IN  \/ /\ n <= room
         /\ client' = Queued(c, n)
         /\ opened' = opened + n
         /\ UNCHANGED <<clients, next_session, surf, next_surface, focus, wm,
                        grabs, lost, maps>>
      \/ /\ n > room /\ lost + (n - room - 1) <= MaxLost
         /\ CloseWith(c, surf, n - room - 1) /\ UNCHANGED next_surface
      \/ /\ lost + n <= MaxLost
         /\ CloseWith(c, surf, n) /\ UNCHANGED next_surface

\* A new window manager takes the place of an older one, which keeps its
\* capability.
WmAfterHello(c, granted) == IF "WM" \in granted THEN c ELSE wm

\* lgp_hello_handle and the registration of the window manager.  A short or
\* repeated HELLO, another major version and a reply that cannot be written
\* end the connection.
Hello(c, requested) ==
  LET granted == Negotiate(client[c].uid, requested)
  IN  \/ /\ ~client[c].hello
         /\ client' = [client EXCEPT ![c].hello = TRUE, ![c].caps = granted]
         /\ wm' = WmAfterHello(c, granted)
         /\ UNCHANGED <<clients, next_session, surf, next_surface, focus, grabs,
                        opened, lost, maps>>
      \/ Close(c)

-----------------------------------------------------------------------------
(* Surfaces.                                                               *)

\* Mutant of NextId: the id of a surface is that of its slot.
NextIdOfSlot(i) == i

\* The id lgp_surface_manager_create gives to the surface in slot i.
NextId(i) == next_surface

\* The slot it takes, if there is one.
FirstFree == {i \in Slots \ InUse : 1..(i - 1) \subseteq InUse}

\* The surface lgp_surface_manager_create puts there.
NewSurface(c, r, i) ==
  [id |-> NextId(i), owner |-> c, layer |-> r.layer, x |-> r.x, w |-> r.w,
   state |-> "NORMAL", mapped |-> FALSE]

\* lgp_handle_create_surface.  A refused request is answered and the client
\* stays.  If the answer cannot be written the client goes, and with it the
\* surface it would have had; its id is used up.
Create(c, r) ==
  LET ok == Validate(client[c].caps, r) = "OK"
      s(i) == [surf EXCEPT ![i] = NewSurface(c, r, i)]
  IN  \/ \E i \in FirstFree :
           /\ ok /\ next_surface <= MaxSurface
           /\ next_surface' = next_surface + 1
           /\ \/ /\ surf' = s(i)
                 /\ focus' = IF r.layer = APPLICATION
                             THEN [session |-> c, surface |-> NextId(i)] ELSE focus
                 /\ UNCHANGED <<clients, client, next_session, wm, grabs, opened,
                                lost, maps>>
              \/ CloseWith(c, s(i), 0)
      \/ ~(ok /\ FirstFree # {}) /\ UNCHANGED scene

\* lgp_surface_manager_destroy: the slot c may empty.
OwnSlot(c, id) == {i \in Find(id) : surf[i].owner = c}

\* lgp_handle_destroy_surface: only the owner's own surface, else the client
\* goes.  lgp_surface_release drops the mapping; the focus stays.
Destroy(c, id) ==
  \/ \E i \in OwnSlot(c, id) :
       /\ surf' = [surf EXCEPT ![i] = Free]
       /\ maps' = IF surf[i].mapped THEN maps - 1 ELSE maps
       /\ UNCHANGED <<clients, client, next_session, next_surface, focus, wm,
                      grabs, opened, lost>>
  \/ OwnSlot(c, id) = {} /\ Close(c)

\* lgp_repaint_surfaces once the surfaces have become s: the flip is queued, or
\* one is in flight and what was drawn is shown all the same (EBUSY).  The
\* handlers that repaint let their client go if the flip fails otherwise.
Repaint(s) ==
  /\ surf' = s
  /\ UNCHANGED <<clients, next_session, next_surface, focus, wm, grabs, lost>>

\* lgp_surface_manager_commit: the slot that gets the buffer.
Mappable(c, id) == IF client[c].fds = 0 THEN {} ELSE OwnSlot(c, id)

\* Mutant of Commit: the buffer mapped before is not unmapped.
CommitKeepsMap(c, id) ==
  \/ \E i \in Mappable(c, id) :
       /\ client' = Taken(c)
       /\ opened' = opened - 1
       /\ maps' = maps + 1
       /\ Repaint([surf EXCEPT ![i].mapped = TRUE])
  \/ Close(c)

\* lgp_handle_commit_buffer takes the oldest pending descriptor, maps it and
\* closes it; the mapping it had before goes.  Without a descriptor, for a
\* surface of another client, for a buffer of the wrong size or format, and if
\* mmap or the flip fails, the client goes.
Commit(c, id) ==
  \/ \E i \in Mappable(c, id) :
       /\ client' = Taken(c)
       /\ opened' = opened - 1
       /\ maps' = IF surf[i].mapped THEN maps ELSE maps + 1
       /\ Repaint([surf EXCEPT ![i].mapped = TRUE])
  \/ Close(c)

\* lgp_handle_fill_rect draws over everything, for clients that may; here a
\* flip that is still in flight ends the connection too.
FillRect(c) ==
  \/ /\ "DIRECT" \in client[c].caps
     /\ Repaint(surf)
     /\ UNCHANGED <<client, opened, maps>>
  \/ Close(c)

-----------------------------------------------------------------------------
(* The window manager's requests; anyone without the capability goes.      *)

\* lgp_handle_wm_set_position: an unknown surface, and a place where it would
\* reach over the right edge or be off the left one, are ignored.
WmSetPosition(c, id, x) ==
  LET at == {i \in Find(id) : -surf[i].w <= x /\ x + surf[i].w <= Width}
  IN  \/ /\ "WM" \in client[c].caps
         /\ \/ at = {} /\ UNCHANGED scene
            \/ \E i \in at :
                 LET s == [surf EXCEPT ![i].x = x]
                 IN  \/ Repaint(s) /\ UNCHANGED <<client, opened, maps>>
                     \/ CloseWith(c, s, 0) /\ UNCHANGED next_surface
      \/ "WM" \notin client[c].caps /\ Close(c)

\* lgp_handle_wm_set_focus: 0 is for no focus; a surface that has gone costs
\* the window manager its connection.
WmSetFocus(c, id) ==
  \/ /\ "WM" \in client[c].caps
     /\ \/ id = 0 /\ focus' = [session |-> 0, surface |-> 0]
        \/ \E i \in Find(id) : focus' = [session |-> surf[i].owner, surface |-> id]
     /\ UNCHANGED <<clients, client, next_session, surf, next_surface, wm, grabs,
                    opened, lost, maps>>
  \/ ~("WM" \in client[c].caps /\ (id = 0 \/ Find(id) # {})) /\ Close(c)

\* lgp_handle_wm_set_state repaints even for a surface it does not find.
WmSetState(c, id, new) ==
  LET s == [i \in Slots |-> IF i \in Find(id) THEN [surf[i] EXCEPT !.state = new]
                            ELSE surf[i]]
  IN  \/ /\ "WM" \in client[c].caps
         /\ \/ Repaint(s) /\ UNCHANGED <<client, opened, maps>>
            \/ CloseWith(c, s, 0) /\ UNCHANGED next_surface
      \/ "WM" \notin client[c].caps /\ Close(c)

\* lgp_handle_wm_grab_key: nothing takes a grab back, and one beyond the
\* length of the table is dropped.
WmGrabKey(c, k) ==
  \/ /\ "WM" \in client[c].caps
     /\ grabs' = IF Len(grabs) < MaxGrabs THEN Append(grabs, k) ELSE grabs
     /\ UNCHANGED <<clients, client, next_session, surf, next_surface, focus, wm,
                    opened, lost, maps>>
  \/ "WM" \notin client[c].caps /\ Close(c)

\* lgp_handle_client_message: nothing but HELLO is heard before HELLO.
Message(c) ==
  \/ \E requested \in CapRequests : Hello(c, requested)
  \/ /\ client[c].hello
     /\ \/ \E r \in Requests : Create(c, r)
        \/ FillRect(c)
        \/ \E k \in Keys : WmGrabKey(c, k)
        \/ \E id \in 1..MaxSurface : Destroy(c, id) \/ Commit(c, id)
        \/ \E id \in 0..MaxSurface : WmSetFocus(c, id)
        \/ \E id \in 1..MaxSurface, x \in Positions : WmSetPosition(c, id, x)
        \/ \E id \in 1..MaxSurface, new \in {"NORMAL", "HIDDEN"} :
             WmSetState(c, id, new)

-----------------------------------------------------------------------------
(* Input and the display.                                                  *)

\* Mutant of PointerButton: the surface is remembered without its session.
PointerButtonHalf(x) ==
  \E i \in PointerTarget(surf, wm, x) :
    /\ "input" \in held
    /\ focus' = [focus EXCEPT !.surface = surf[i].id]
    /\ UNCHANGED <<clients, client, next_session, surf, next_surface, wm, grabs,
                   opened, lost, maps>>

\* lgp_dispatch_pointer_button: a press moves the focus to what is under it.
PointerButton(x) ==
  \E i \in PointerTarget(surf, wm, x) :
    /\ "input" \in held
    /\ focus' = [session |-> surf[i].owner, surface |-> surf[i].id]
    /\ UNCHANGED <<clients, client, next_session, surf, next_surface, wm, grabs,
                   opened, lost, maps>>

\* lgp_dispatch_keyboard_key: the session a key is meant for, 0 for none.
KeyTarget(k) == IF wm # 0 /\ k \in Range(grabs) THEN wm ELSE focus.session

\* lgp_dispatch_pointer_motion: the window manager, and the surface's owner.
MotionTargets(x) == {wm} \cup {surf[i].owner : i \in PointerTarget(surf, wm, x)}

\* An event is written to the client that has the session id, if there is one.
Reached(targets) == targets \cap clients

Event ==
  \/ Accept
  \/ \E c \in clients : Disconnect(c) \/ Message(c)
                        \/ (\E n \in 1..MaxFds : ReceiveFds(c, n))
  \/ \E x \in 0..Width - 1 : PointerButton(x)

Serve == Serving /\ Event /\ UNCHANGED display

\* lgp_state_close_all_clients and the rest of main, or the kernel.
Stop == (CleanUp \/ Die) /\ SceneEnds

Next ==
  \/ StartUp /\ UNCHANGED scene
  \/ Serve
  \/ Stop
  \/ Respawn /\ UNCHANGED scene

Spec == Init /\ [][Next]_vars

-----------------------------------------------------------------------------

TypeOK ==
  /\ phase \in Phases /\ held \subseteq Resources /\ sock \in BOOLEAN
  /\ clients \subseteq Sessions /\ client \in [Sessions -> Client]
  /\ next_session \in 1..MaxSession + 1 /\ next_surface \in 1..MaxSurface + 1
  /\ surf \in [Slots -> Surface]
  /\ focus \in [session : 0..MaxSession, surface : 0..MaxSurface]
  /\ wm \in 0..MaxSession
  /\ grabs \in Seq(Keys) /\ Len(grabs) <= MaxGrabs
  /\ opened \in Int /\ lost \in 0..MaxLost /\ maps \in Int

\* wm_client is never left pointing at a client that has been destroyed, nor
\* at one without the capability, whatever ends connections and in whatever
\* order several window managers come and go (lgp_state_close_client).
WmIsConnected == wm # 0 => wm \in clients /\ "WM" \in client[wm].caps

\* Every surface on the screen has an owner that is still connected, and the
\* layers from the shell's upward are only ever occupied by root's clients
\* (lgp_caps_negotiate with lgp_surface_validate_request).
SurfacesAreOwned ==
  \A i \in InUse : /\ surf[i].owner \in clients
                   /\ surf[i].layer >= SHELL => client[surf[i].owner].uid = 0

\* Keys typed for a surface never reach a client it does not belong to: while
\* the focused surface exists the keys go to its owner, and once it is gone
\* the remembered ids are of the past, so that no later client or surface can
\* inherit the focus by reusing them (focus is never cleared when a surface or
\* a client goes).  Pointer motion over a surface always finds its owner.
KeysNeverStray ==
  /\ \A i \in Find(focus.surface) : surf[i].owner = focus.session
  /\ focus.session < next_session /\ focus.surface < next_surface
  /\ \A k \in Keys, i \in Find(focus.surface) :
       Reached({KeyTarget(k)}) \in {{surf[i].owner}, {wm}}
  /\ \A x \in 0..Width - 1 : Reached(MotionTargets(x)) = MotionTargets(x) \ {0}

\* A client's descriptors: its socket, <<c, 0>>, and those queued for a commit.
Descriptors ==
  {p \in Sessions \X (0..MaxFds) : p[1] \in clients /\ p[2] <= client[p[1]].fds}

\* No descriptor is closed twice or kept without someone to close it: those
\* open are the clients' and the ones lgp_client_read_available forgets on its
\* error paths.
DescriptorsAccounted == opened = lost + Cardinality(Descriptors)

\* Every mapping of a client buffer is that of one surface: commit over an
\* older buffer, destruction and disconnection all unmap.
MapsAccounted == maps = Cardinality({i \in InUse : surf[i].mapped})

Ids == {surf[i].id : i \in InUse}
OwnerOf == [id \in Ids |-> surf[CHOOSE i \in Find(id) : TRUE].owner]

Registry == INSTANCE SurfaceRegistry WITH
  live <- clients, known <- 1..next_session - 1,
  owner <- OwnerOf, issued <- 1..next_surface - 1

\* The compositor implements the registry of surfaces: slots are reused, but
\* no surface is lost to another's creation, none outlives its owner, and no
\* id comes back, through every error path of every handler.
KeepsRegistry == Registry!RegSpec
=============================================================================
