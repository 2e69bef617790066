------------------------------ MODULE LgpScene ------------------------------
(***************************************************************************)
(* The rules of the compositor's scene as functions of its state: which    *)
(* capabilities a client is granted, which surfaces it may create, what is *)
(* drawn over what, and which surface the pointer is on.                   *)
(*                                                                         *)
(* A surface occupies x .. x + w - 1 of one axis; the code treats the      *)
(* other axis in the same way.  A slot whose id is 0 is not in use.        *)
(***************************************************************************)
EXTENDS Integers

CONSTANTS
  SurfaceMax,   \* LGP_SURFACE_MAX
  Width         \* hdisplay of the mode

Slots == 1..SurfaceMax

WALLPAPER    == 0
APPLICATION  == 100
SHELL        == 200
LUNA_ISLAND  == 500
SYSTEM_MODAL == 600
layer_order  == {100 * n : n \in 0..7}

Free == [id |-> 0, owner |-> 0, layer |-> 0, x |-> 0, w |-> 0,
         state |-> "NORMAL", mapped |-> FALSE]

\* lgp_caps_negotiate: DMA-BUF and cursor shapes are granted to nobody.
Caps == {"CANVAS", "DIRECT", "CLIPBOARD", "SHELL", "ISLAND", "WM", "DMA_BUF", "CURSOR"}
Open == {"CANVAS", "DIRECT", "CLIPBOARD"}
Privileged == {"SHELL", "ISLAND", "WM"}

Negotiate(uid, requested) ==
  requested \cap (IF uid = 0 THEN Open \cup Privileged ELSE Open)

\* lgp_surface_is_in_display, for the limit of 16384 in both directions.
InDisplay(r) == r.w > 0 /\ r.w <= 16384 /\ -16384 <= r.x /\ r.x <= 16384

\* lgp_surface_validate_request, by the type of the surface.
Validate(caps, r) ==
  CASE ~InDisplay(r)    -> "INVALID"
    [] r.type = "WINDOW" -> IF r.layer = APPLICATION THEN "OK" ELSE "INVALID"
    [] r.type = "CANVAS" ->
         IF "CANVAS" \notin caps THEN "DENIED"
         ELSE IF r.layer \in {APPLICATION, WALLPAPER} THEN "OK" ELSE "INVALID"
    [] r.type = "ISLAND" ->
         IF "ISLAND" \notin caps THEN "DENIED"
         ELSE IF r.layer = LUNA_ISLAND THEN "OK" ELSE "INVALID"
    [] r.type \in {"CHROME", "SHELL", "OVERLAY"} ->
         IF "SHELL" \notin caps THEN "DENIED"
         ELSE IF r.layer \in SHELL..SYSTEM_MODAL THEN "OK" ELSE "INVALID"
    [] OTHER            -> "INVALID"

Shown(s) == s.state \notin {"HIDDEN", "MINIMIZED"}
Covers(s, x) == s.x <= x /\ x < s.x + s.w

\* lgp_surface_manager_composite: the slots it draws; a surface entirely off the
\* screen has no pixels left to draw.
Painted(surf) ==
  {i \in Slots : /\ surf[i].id # 0 /\ surf[i].layer \in layer_order /\ surf[i].mapped
                 /\ Shown(surf[i])
                 /\ surf[i].x < Width /\ surf[i].x + surf[i].w > 0}

\* It draws layer by layer upwards and, in a layer, by slot: the opaque surface
\* left at a pixel once all are drawn, if there is one.
PixelOf(surf, x) ==
  LET over == {i \in Painted(surf) : Covers(surf[i], x)}
  IN  {i \in over : \A j \in over :
         surf[j].layer < surf[i].layer \/ (surf[j].layer = surf[i].layer /\ j <= i)}

\* lgp_find_pointer_target walks the slots and keeps the first one of the
\* highest layer below the shell's, passing over the window manager's own.
Hittable(surf, wm, x) ==
  {i \in Slots : /\ surf[i].id # 0
                 /\ wm = 0 \/ surf[i].owner # wm
                 /\ surf[i].layer \in APPLICATION..(SHELL - 1)
                 /\ Shown(surf[i]) /\ Covers(surf[i], x)}

PointerTarget(surf, wm, x) ==
  LET hit == Hittable(surf, wm, x)
  IN  {i \in hit : \A j \in hit :
         surf[j].layer < surf[i].layer \/ (surf[j].layer = surf[i].layer /\ i <= j)}
=============================================================================
