------------------------------ MODULE Painting ------------------------------
(***************************************************************************)
(* lgp_surface_manager_composite on one surface, in bytes: what it reads   *)
(* of the mapping and writes of the scanout buffer, how it blends, and how *)
(* the cursor is drawn, for every geometry that create, commit and the     *)
(* window manager let through.                                             *)
(***************************************************************************)
EXTENDS Integers

CONSTANTS
  DisplayW, DisplayH,  \* the front buffer, in pixels
  Pitch,               \* its bytes per row
  Extents,             \* bound: widths and heights of surfaces
  Places,              \* bound: positions of surfaces
  Slack,               \* bound: by how much stride and size miss the minimum
  Levels               \* bound: channel and alpha values

ASSUME PaintingAssumption ==
  DisplayW \in Nat \ {0} /\ DisplayH \in Nat \ {0} /\ Pitch \in Nat
    /\ Pitch >= 4 * DisplayW /\ Levels \subseteq 0..255
    /\ Extents \subseteq Nat /\ Places \subseteq Int /\ Slack \subseteq Int

VARIABLE picture   \* the surface, commit and pixel values at hand

\* lgp_surface_commit_payload_t beside the surface it is for.
Pictures ==
  {[x |-> x, y |-> y, w |-> w, h |-> h, cw |-> cw, stride |-> 4 * w + k,
    size |-> (4 * w + k) * h + m, s |-> s, a |-> a, d |-> d] :
     x \in Places, y \in Places, w \in Extents, h \in Extents, cw \in Extents,
     k \in Slack, m \in Slack, s \in {0}, a \in {0}, d \in {0}}

Shades ==
  {[x |-> 0, y |-> 0, w |-> 1, h |-> 1, cw |-> 1, stride |-> 4, size |-> 4,
    s |-> s, a |-> a, d |-> d] : s \in Levels, a \in Levels, d \in Levels}

\* Mutant of CommitAccepts: byte_size is not compared with the rows.
CommitAcceptsAnySize(p) == p.cw = p.w /\ p.stride >= p.cw * 4 /\ p.size # 0

\* The checks of lgp_surface_manager_commit on the payload (the height is
\* compared like the width).
CommitAccepts(p) ==
  /\ p.cw = p.w
  /\ p.stride >= p.cw * 4
  /\ p.size >= p.stride * p.h /\ p.size # 0

\* The part of start .. start + extent - 1 that is on a display of this size.
Clip(start, extent, display) ==
  {z \in 0..display - 1 : start <= z /\ z < start + extent}

\* Byte offsets of the pixels copied, in the mapping and in the front buffer.
SrcBytes(p) ==
  {(y - p.y) * p.stride + (x - p.x) * 4 + b :
     x \in Clip(p.x, p.w, DisplayW), y \in Clip(p.y, p.h, DisplayH), b \in 0..3}
DstBytes(xs, ys) == {y * Pitch + x * 4 + b : x \in xs, y \in ys, b \in 0..3}

\* One channel of a pixel with alpha over what was there.
Blend(s, a, d) ==
  CASE a = 255 -> s [] a = 0 -> d [] OTHER -> (s * a + d * (255 - a)) \div 255

\* draw_software_cursor: eight by twelve pixels from the cursor's position.
CursorBytes(cx, cy) ==
  DstBytes(Clip(cx, 8, DisplayW), Clip(cy, 12, DisplayH))

PaintInit == picture \in Pictures \cup Shades
PaintNext == UNCHANGED picture

-----------------------------------------------------------------------------

\* Compositing stays in its bounds.  A buffer that commit accepted is read only
\* inside its mapping, and drawing it, or the cursor at any place, writes only
\* inside the front buffer, wherever the surface lies: partly or wholly off any
\* edge.  A blended channel lies between the two it is made of, so it fits its
\* byte and never spills into the next channel.
PaintsInBounds ==
  LET screen == 0..(Pitch * DisplayH - 1)
      r == Blend(picture.s, picture.a, picture.d)
  IN  /\ CommitAccepts(picture) =>
           /\ SrcBytes(picture) \subseteq 0..picture.size - 1
           /\ DstBytes(Clip(picture.x, picture.w, DisplayW),
                       Clip(picture.y, picture.h, DisplayH)) \subseteq screen
           /\ picture.x >= 0 /\ picture.y >= 0
                => CursorBytes(picture.x, picture.y) \subseteq screen
      /\ \/ picture.s <= r /\ r <= picture.d
         \/ picture.d <= r /\ r <= picture.s

=============================================================================
