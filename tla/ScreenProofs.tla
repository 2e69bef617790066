---------------------------- MODULE ScreenProofs ----------------------------
(***************************************************************************)
(* From luna-init's splash to the compositor's screen.  The screen is      *)
(* handed over in text mode and what was mounted is unmounted again, for   *)
(* every table of early mounts, every fstab.toml and every size of the     *)
(* mount table.  What is drawn stays on the screen, and what the pointer,  *)
(* the modifiers and the buttons are taken to be is what the devices say,  *)
(* for every size of display, surface and frame and every resolution of    *)
(* the pointer.                                                            *)
(***************************************************************************)
EXTENDS Startup, SplashPaint, LgpInput, Painting, FiniteSetTheorems, TLAPS

\* A leaf that names no prover goes to SMT, to Zenon and to SMT once more, the
\* solver's encoding being limited by the clock.
USE SMTT(30), Zenon, SMTT(60)

-----------------------------------------------------------------------------

(* Arithmetic with factors that are not constants.                         *)

\* Scaling by a factor keeps the order.
LEMMA TimesMono ==
  ASSUME NEW a \in Int, NEW b \in Int, NEW s \in Nat, a <= b
  PROVE  a * s <= b * s
  OBVIOUS

\* Dividing takes scaling back.
LEMMA TimesDiv ==
  ASSUME NEW k \in Int, NEW s \in Nat \ {0}
  PROVE  (k * s) \div s = k
  OBVIOUS

\* A scaled position below a scaled width is a position below the width.
LEMMA DivBound ==
  ASSUME NEW a \in Nat, NEW w \in Nat, NEW s \in Nat \ {0}, a < w * s
  PROVE  a \div s \in 0..w - 1
  OBVIOUS

-----------------------------------------------------------------------------
(* The compositor's input, module LgpInput.                                *)

InputSpec == InputInit /\ [][InputNext]_input

\* One axis of the pointer: where lgp_input_clamp_pointer leaves it.
OnAxis(v, extent) == v \in Nat /\ v < extent * Sub

\* InputMatchesDevices, with what it rests on: the pointer is on the screen in
\* its own unit, and the raw pump's remembered buttons are the reported ones.
InputInv ==
  /\ backend \in {"libinput", "raw"}
  /\ pointer \in [x : Int, y : Int]
  /\ OnAxis(pointer.x, ScreenW) /\ OnAxis(pointer.y, ScreenH)
  /\ btn_down \subseteq Buttons
  /\ backend = "raw" => last = reported
  /\ InputMatchesDevices

\* Clamping, rounding down and clamping again agree with rounding down.
LEMMA AxisClamped ==
  ASSUME NEW v \in Int, NEW extent \in Nat \ {0},
         NEW c, c = IF v < 0 THEN 0
                    ELSE IF v >= extent * Sub THEN (extent - 1) * Sub ELSE v
  PROVE  OnAxis(c, extent) /\ c \div Sub \in 0..extent - 1
<1> USE InputAssumption
<1>1. (extent - 1) * Sub \in Nat /\ (extent - 1) * Sub < extent * Sub
  OBVIOUS
<1>2. 0 < extent * Sub /\ extent * Sub \in Nat
  OBVIOUS
<1>3. OnAxis(c, extent)
  BY <1>1, <1>2 DEF OnAxis
<1> QED
  BY <1>3, DivBound, ZenonT(60) DEF OnAxis

\* Whatever place a pump computes, pointer and cursor stay together.
LEMMA MoveKeeps ==
  ASSUME NEW p \in [x : Int, y : Int], MoveTo(p)
  PROVE  /\ pointer' \in [x : Int, y : Int]
         /\ OnAxis(pointer'.x, ScreenW) /\ OnAxis(pointer'.y, ScreenH)
         /\ cursor' = [x |-> pointer'.x \div Sub, y |-> pointer'.y \div Sub]
         /\ cursor'.x \in 0..ScreenW - 1 /\ cursor'.y \in 0..ScreenH - 1
<1> DEFINE cx == Clamp(p).x
           cy == Clamp(p).y
<1>1. OnAxis(cx, ScreenW) /\ cx \div Sub \in 0..ScreenW - 1
  BY InputAssumption, AxisClamped, Zenon DEF Clamp
<1>2. OnAxis(cy, ScreenH) /\ cy \div Sub \in 0..ScreenH - 1
  BY InputAssumption, AxisClamped, Zenon DEF Clamp
<1>3. pointer' = [x |-> cx, y |-> cy]
  BY DEF MoveTo, Clamp
<1>4. cursor' = [x |-> cx \div Sub, y |-> cy \div Sub]
  <2> HIDE DEF cx, cy
  <2>1. cursor' = SetPosition(cx \div Sub, cy \div Sub)
    BY DEF MoveTo, cx, cy
  <2> QED
    BY <1>1, <1>2, <2>1, InputAssumption DEF SetPosition
<1> HIDE DEF cx, cy
<1> QED
  BY <1>1, <1>2, <1>3, <1>4 DEF OnAxis

\* When input starts no button or modifier is held.
LEMMA InputStarts == InputInit => InputInv
<1> SUFFICES ASSUME InputInit PROVE InputInv
  OBVIOUS
<1> USE InputAssumption
<1>1. ASSUME NEW extent \in Nat \ {0}
      PROVE  /\ OnAxis((extent \div 2) * Sub, extent)
             /\ ((extent \div 2) * Sub) \div Sub = extent \div 2
             /\ extent \div 2 \in 0..extent - 1
  <2>1. extent \div 2 \in 0..extent - 1
    OBVIOUS
  <2>2. (extent \div 2) * Sub \in Nat /\ (extent \div 2) * Sub < extent * Sub
    BY <2>1
  <2> QED
    BY <2>1, <2>2, TimesDiv DEF OnAxis
<1>2. cursor = [x |-> ScreenW \div 2, y |-> ScreenH \div 2]
  BY <1>1 DEF InputInit, SetPosition
<1> QED
  BY <1>1, <1>2 DEF InputInit, InputInv, InputMatchesDevices, Buttons, OnAxis

\* Every event of a device keeps what is believed of the devices and what is
\* so in step.
LEMMA InputStep == InputInv /\ [InputNext]_input => InputInv'
<1> SUFFICES ASSUME InputInv, [InputNext]_input
             PROVE  InputInv'
  OBVIOUS
<1> USE InputAssumption
<1>1. ASSUME NEW dx \in Deltas, NEW dy \in Deltas, Motion(dx, dy)
      PROVE  InputInv'
  <2>1. [x |-> pointer.x + dx, y |-> pointer.y + dy] \in [x : Int, y : Int]
    BY DEF InputInv
  <2>2. MoveTo([x |-> pointer.x + dx, y |-> pointer.y + dy])
    BY <1>1 DEF Motion
  <2> QED
    BY <1>1, <2>1, <2>2, MoveKeeps DEF InputInv, InputMatchesDevices, Motion
<1>2. ASSUME NEW b \in Buttons, Button(b)
      PROVE  InputInv'
  <2>1. btn_down' \subseteq Buttons
    BY <1>2 DEF Button, InputInv
  <2> QED
    BY <1>2, <2>1 DEF InputInv, InputMatchesDevices, Button
<1>3. ASSUME NEW dx \in Deltas, NEW dy \in Deltas, NEW down \in SUBSET Buttons,
             Packet(dx, dy, down)
      PROVE  InputInv'
  <2> DEFINE p == [x |-> pointer.x + Extend(dx % 256, dx < 0) * Sub,
                   y |-> pointer.y - Extend(dy % 256, dy < 0) * Sub]
  <2>1. p \in [x : Int, y : Int]
    <3>1. Extend(dx % 256, dx < 0) \in Int /\ Extend(dy % 256, dy < 0) \in Int
      BY DEF Extend
    <3> QED
      BY <3>1 DEF InputInv
  <2>2. MoveTo(p)
    BY <1>3 DEF Packet
  <2>3. reported' = down
    BY <1>3 DEF Packet, InputInv, InputMatchesDevices
  <2> HIDE DEF p
  <2> QED
    BY <1>3, <2>1, <2>2, <2>3, MoveKeeps
    DEF InputInv, InputMatchesDevices, Packet
<1>4. ASSUME NEW k \in ModKeys \cup PlainKeys, NEW value \in 0..2,
             KeyChanges(k, value)
      PROVE  InputInv'
  <2>1. mods' \subseteq {MaskOf(j) : j \in key_down' \cap ModKeys}
    BY <1>4 DEF KeyChanges, UpdateModifiers, InputInv,
       InputMatchesDevices
  <2>2. \A m \in Masks \ mods' : {j \in ModKeys : MaskOf(j) = m} # {} =>
          ~({j \in ModKeys : MaskOf(j) = m} \subseteq key_down')
    BY <1>4 DEF KeyChanges, UpdateModifiers, InputInv,
       InputMatchesDevices
  <2> QED
    BY <1>4, <2>1, <2>2 DEF KeyChanges, InputInv, InputMatchesDevices
<1>5. CASE UNCHANGED input
  BY <1>5 DEF input, InputInv, InputMatchesDevices
<1> QED
  BY <1>1, <1>2, <1>3, <1>4, <1>5 DEF InputNext, HandleKey, RawKey

\* The cursor is where the next click goes, on the screen, buttons are reported
\* as they are and no modifier sticks (lgp_input.c, both pumps), for every
\* display, every resolution of the pointer and every size of a movement.
THEOREM InputFollowsDevices == InputSpec => []InputMatchesDevices
<1>1. InputInv => InputMatchesDevices
  BY DEF InputInv
<1> QED
  BY <1>1, InputStarts, InputStep, PTL DEF InputSpec

-----------------------------------------------------------------------------
(* Compositing, module Painting.                                           *)

\* A channel that is mixed lies between the two it is mixed of.
LEMMA BlendBetween ==
  ASSUME NEW s \in 0..255, NEW a \in 0..255, NEW d \in 0..255
  PROVE  \/ s <= Blend(s, a, d) /\ Blend(s, a, d) <= d
         \/ d <= Blend(s, a, d) /\ Blend(s, a, d) <= s
<1> DEFINE n == s * a + d * (255 - a)
<1>1. ASSUME NEW lo \in 0..255, NEW hi \in 0..255,
             255 * lo <= n, n <= 255 * hi
      PROVE  lo <= n \div 255 /\ n \div 255 <= hi
  <2>1. n \in Int
    OBVIOUS
  <2> HIDE DEF n
  <2> QED
    BY <1>1, <2>1
<1>2. Blend(s, a, d) \in {s, d, n \div 255}
  BY DEF Blend
<1>3. CASE s <= d
  <2>1. s * (255 - a) <= d * (255 - a) /\ s * a <= d * a
    BY <1>3, TimesMono
  <2>2. 255 * s <= n /\ n <= 255 * d
    BY <2>1
  <2>3. s <= n \div 255 /\ n \div 255 <= d
    BY <1>1, <2>2, ZenonT(60)
  <2> HIDE DEF n
  <2> QED
    BY <1>2, <1>3, <2>3
<1>4. CASE d < s
  <2>1. d * (255 - a) <= s * (255 - a) /\ d * a <= s * a
    BY <1>4, TimesMono
  <2>2. 255 * d <= n /\ n <= 255 * s
    BY <2>1
  <2>3. d <= n \div 255 /\ n \div 255 <= s
    BY <1>1, <2>2, ZenonT(60)
  <2> HIDE DEF n
  <2> QED
    BY <1>2, <1>4, <2>3
<1> QED
  BY <1>3, <1>4

\* A pixel on the display has its bytes in the front buffer.
LEMMA OnTheFront ==
  ASSUME NEW xs \in SUBSET (0..DisplayW - 1), NEW ys \in SUBSET (0..DisplayH - 1)
  PROVE  DstBytes(xs, ys) \subseteq 0..(Pitch * DisplayH - 1)
<1> SUFFICES ASSUME NEW x \in xs, NEW y \in ys, NEW b \in 0..3
             PROVE  y * Pitch + x * 4 + b \in 0..(Pitch * DisplayH - 1)
  BY DEF DstBytes
<1> USE PaintingAssumption
<1>1. x \in 0..DisplayW - 1 /\ y \in 0..DisplayH - 1
  OBVIOUS
<1>2. y * Pitch <= (DisplayH - 1) * Pitch /\ 0 * Pitch <= y * Pitch
  BY <1>1, TimesMono
<1> QED
  BY <1>1, <1>2

\* A pixel of an accepted buffer has its bytes in the mapping.
LEMMA InTheMapping ==
  ASSUME NEW p, p.x \in Int, p.y \in Int, p.w \in Nat, p.h \in Nat,
         p.stride \in Int, p.size \in Int, CommitAccepts(p)
  PROVE  SrcBytes(p) \subseteq 0..p.size - 1
<1> SUFFICES ASSUME NEW x \in Clip(p.x, p.w, DisplayW),
                    NEW y \in Clip(p.y, p.h, DisplayH), NEW b \in 0..3
             PROVE  (y - p.y) * p.stride + (x - p.x) * 4 + b \in 0..p.size - 1
  BY DEF SrcBytes
<1> DEFINE col == x - p.x
           row == y - p.y
<1>1. col \in Nat /\ col <= p.w - 1 /\ row \in Nat /\ row <= p.h - 1
  BY PaintingAssumption DEF Clip
<1>2. p.stride \in Nat /\ p.stride >= 4 * p.w /\ p.size >= p.stride * p.h
  BY DEF CommitAccepts
<1> HIDE DEF col, row
<1>3. row * p.stride <= (p.h - 1) * p.stride /\ 0 * p.stride <= row * p.stride
  BY <1>1, <1>2, TimesMono
<1>4. row * p.stride + col * 4 + b \in 0..p.size - 1
  BY <1>1, <1>2, <1>3
<1> QED
  BY <1>4 DEF col, row

PaintSpec == PaintInit /\ [][PaintNext]_picture

\* Compositing reads only the mapping of a buffer that commit accepted, writes
\* only the front buffer, and blends without a carry into the next channel
\* (lgp_surface_manager_composite, draw_software_cursor), for every display and
\* every size, place, stride and byte count of a surface.
THEOREM PaintingStaysInBounds == PaintSpec => []PaintsInBounds
<1>1. ASSUME picture \in Pictures \cup Shades
      PROVE  PaintsInBounds
  <2> USE PaintingAssumption
  <2>1. /\ picture.x \in Int /\ picture.y \in Int
        /\ picture.w \in Nat /\ picture.h \in Nat
        /\ picture.stride \in Int /\ picture.size \in Int
        /\ picture.s \in 0..255 /\ picture.a \in 0..255 /\ picture.d \in 0..255
    <3>1. CASE picture \in Pictures
      <4>1. PICK x \in Places, y \in Places, w \in Extents, h \in Extents,
                 cw \in Extents, k \in Slack, m \in Slack :
              picture = [x |-> x, y |-> y, w |-> w, h |-> h, cw |-> cw,
                         stride |-> 4 * w + k, size |-> (4 * w + k) * h + m,
                         s |-> 0, a |-> 0, d |-> 0]
        BY <3>1 DEF Pictures
      <4>2. 4 * w + k \in Int /\ (4 * w + k) * h + m \in Int
        OBVIOUS
      <4> QED
        BY <4>1, <4>2
    <3>2. CASE picture \in Shades
      <4>1. PICK s \in Levels, a \in Levels, d \in Levels :
              picture = [x |-> 0, y |-> 0, w |-> 1, h |-> 1, cw |-> 1,
                         stride |-> 4, size |-> 4, s |-> s, a |-> a, d |-> d]
        BY <3>2 DEF Shades
      <4> QED
        BY <4>1
    <3> QED
      BY <1>1, <3>1, <3>2, ZenonT(60)
  <2>2. ASSUME NEW start, NEW extent, NEW display
        PROVE  Clip(start, extent, display) \in SUBSET (0..display - 1)
    BY DEF Clip
  <2>3. CommitAccepts(picture) => SrcBytes(picture) \subseteq 0..picture.size - 1
    BY <2>1, InTheMapping
  <2>4. DstBytes(Clip(picture.x, picture.w, DisplayW),
                 Clip(picture.y, picture.h, DisplayH))
          \subseteq 0..(Pitch * DisplayH - 1)
    BY <2>2, OnTheFront
  <2>5. CursorBytes(picture.x, picture.y) \subseteq 0..(Pitch * DisplayH - 1)
    BY <2>2, OnTheFront DEF CursorBytes
  <2> QED
    BY <2>1, <2>3, <2>4, <2>5, BlendBetween, ZenonT(60) DEF PaintsInBounds
<1>2. PaintInit => picture \in Pictures \cup Shades
  BY Zenon DEF PaintInit
<1>3. picture \in Pictures \cup Shades /\ [PaintNext]_picture
        => (picture \in Pictures \cup Shades)'
  BY DEF PaintNext, Pictures, Shades
<1> QED
  BY <1>1, <1>2, <1>3, PTL DEF PaintSpec

-----------------------------------------------------------------------------
(* The splash, module SplashPaint.                                         *)

\* A line holds the pixels of its row, at each depth put_pixel knows.
LEMMA LineHoldsRow ==
  ASSUME fb \in Screens
  PROVE  /\ fb.w \in Nat /\ fb.h \in Nat /\ fb.hidden \in Nat
         /\ fb.img_w \in Nat /\ fb.img_h \in Nat
         /\ line_length(fb) \in Nat
         /\ fb.bpp = 32 => line_length(fb) >= 4 * fb.w /\ line_length(fb) % 4 = 0
         /\ fb.bpp = 24 => line_length(fb) >= 3 * fb.w
         /\ fb.bpp = 16 => line_length(fb) >= 2 * fb.w
<1> USE SplashPaintAssumption
<1>1. /\ fb.w \in Nat /\ fb.h \in Nat /\ fb.hidden \in Nat
      /\ fb.img_w \in Nat /\ fb.img_h \in Nat /\ fb.bpp \in Nat /\ fb.pad \in Nat
      /\ fb.bpp = 32 => fb.pad % 4 = 0
  BY Zenon DEF Screens
<1>2. fb.w * fb.bpp \in Nat
  BY <1>1
<1>3. line_length(fb) \in Nat
  BY <1>1, <1>2 DEF line_length
<1>4. ASSUME fb.bpp = 32
      PROVE  line_length(fb) >= 4 * fb.w /\ line_length(fb) % 4 = 0
  <2>1. (fb.w * 32) \div 8 = 4 * fb.w
    BY <1>1
  <2> QED
    BY <1>1, <1>4, <2>1 DEF line_length
<1>5. fb.bpp = 24 => line_length(fb) >= 3 * fb.w
  BY <1>1 DEF line_length
<1>6. fb.bpp = 16 => line_length(fb) >= 2 * fb.w
  BY <1>1 DEF line_length
<1> QED
  BY <1>1, <1>3, <1>4, <1>5, <1>6

\* What one put_pixel writes is in the mapping.
LEMMA PixelInMapping ==
  ASSUME fb \in Screens, NEW x \in Int, NEW y \in Int
  PROVE  put_pixel(fb, x, y) \subseteq 0 .. Size(fb) - 1
<1> DEFINE L == line_length(fb)
<1>1. CASE x \in 0 .. fb.w - 1 /\ y \in 0 .. fb.h - 1
  <2>1. fb.w \in Nat /\ fb.h \in Nat /\ fb.hidden \in Nat /\ L \in Nat
    BY LineHoldsRow
  <2>2. Size(fb) = (fb.h + fb.hidden) * L
    BY DEF Size
  <2>3. fb.bpp = 32 => L >= 4 * fb.w
    BY LineHoldsRow
  <2>4. fb.bpp = 24 => L >= 3 * fb.w
    BY LineHoldsRow
  <2>5. fb.bpp = 16 => L >= 2 * fb.w
    BY LineHoldsRow
  <2> HIDE DEF L
  <2>6. 0 * L <= y * L /\ (y + 1) * L <= (fb.h + fb.hidden) * L
    BY <1>1, <2>1, TimesMono
  <2>7. y * L \in Nat /\ y * L + L <= Size(fb) /\ Size(fb) \in Nat
    BY <1>1, <2>1, <2>2, <2>6
  <2>8. CASE fb.bpp = 32
    <3>1. put_pixel(fb, x, y) = {4 * ((y * L) \div 4 + x) + b : b \in 0 .. 3}
      BY <1>1, <2>8 DEF put_pixel, L
    <3> QED
      BY <1>1, <2>1, <2>3, <2>7, <2>8, <3>1
  <2>9. CASE fb.bpp = 16
    <3>1. put_pixel(fb, x, y) = {2 * ((y * L) \div 2 + x) + b : b \in 0 .. 1}
      BY <1>1, <2>9 DEF put_pixel, L
    <3> QED
      BY <1>1, <2>1, <2>5, <2>7, <2>9, <3>1
  <2>10. CASE fb.bpp = 24
    <3>1. put_pixel(fb, x, y) = {y * L + 3 * x + b : b \in 0 .. 2}
      BY <1>1, <2>10 DEF put_pixel, L
    <3> QED
      BY <1>1, <2>1, <2>4, <2>7, <2>10, <3>1
  <2>11. CASE fb.bpp \notin {16, 24, 32}
    BY <2>11 DEF put_pixel
  <2> QED
    BY <2>8, <2>9, <2>10, <2>11
<1>2. CASE ~(x \in 0 .. fb.w - 1 /\ y \in 0 .. fb.h - 1)
  BY <1>2 DEF put_pixel
<1> QED
  BY <1>1, <1>2

\* A word of a visible row and column, at 32 bits.
LEMMA WordIsVisible ==
  ASSUME fb \in Screens, fb.bpp = 32,
         NEW r \in 0 .. fb.h - 1, NEW c \in 0 .. fb.w - 1
  PROVE  /\ r * stride(fb) + c \in 0 .. Size(fb) \div 4 - 1
         /\ (r * stride(fb) + c) % stride(fb) < fb.w
         /\ (r * stride(fb) + c) \div stride(fb) < fb.h
<1> DEFINE S == stride(fb)
<1>1. fb.w \in Nat /\ fb.h \in Nat /\ fb.hidden \in Nat
  BY LineHoldsRow
<1>2. S \in Nat /\ S >= fb.w /\ line_length(fb) = 4 * S
  <2>1. line_length(fb) \in Nat /\ line_length(fb) >= 4 * fb.w
          /\ line_length(fb) % 4 = 0
    BY LineHoldsRow
  <2> QED
    BY <1>1, <2>1 DEF stride
<1>3. Size(fb) = (fb.h + fb.hidden) * (4 * S)
  BY <1>2 DEF Size
<1> HIDE DEF S
<1>4. Size(fb) \div 4 = (fb.h + fb.hidden) * S
  <2>1. Size(fb) = 4 * ((fb.h + fb.hidden) * S) /\ (fb.h + fb.hidden) * S \in Int
    BY <1>1, <1>2, <1>3
  <2> QED
    BY <2>1
<1>5. 0 * S <= r * S /\ (r + 1) * S <= (fb.h + fb.hidden) * S
  BY <1>1, <1>2, TimesMono
<1>6. r * S + c \in 0 .. Size(fb) \div 4 - 1
  BY <1>1, <1>2, <1>4, <1>5
<1>7. (r * S + c) \div S = r /\ (r * S + c) % S = c
  BY <1>1, <1>2
<1> QED
  BY <1>1, <1>6, <1>7 DEF S

\* The screen at hand never changes while it is drawn on.
SplashSpec == fb \in Screens /\ [][UNCHANGED fb]_fb

\* Text, logo and bars stay in the mapping of the framebuffer at every depth,
\* and at 32 bits so do frames and overlay, with every word of a frame on a
\* visible pixel (render.c, frames.c), for every size and padding of screen and
\* frame.
THEOREM SplashStaysOnScreen == SplashSpec => []DrawsOnScreen
<1>1. ASSUME fb \in Screens
      PROVE  DrawsOnScreen
  <2>1. /\ fb.w \in Nat /\ fb.h \in Nat /\ fb.img_w \in Nat /\ fb.img_h \in Nat
    BY <1>1, LineHoldsRow
  <2>2. Drawn(fb) \subseteq 0 .. Size(fb) - 1
    <3> SUFFICES ASSUME NEW x \in -2 .. fb.w + 2, NEW y \in -2 .. fb.h + 2
                 PROVE  put_pixel(fb, x, y) \subseteq 0 .. Size(fb) - 1
      BY DEF Drawn
    <3>1. x \in Int /\ y \in Int
      BY <2>1
    <3> QED
      BY <1>1, <3>1, PixelInMapping
  <2>3. ASSUME fb.bpp = 32
        PROVE  Band(fb) \subseteq 0 .. Size(fb) \div 4 - 1
    <3> SUFFICES ASSUME NEW x \in 0 .. fb.w - 1,
                        NEW y \in (fb.h * 85) \div 100 .. fb.h - 1
                 PROVE  y * stride(fb) + x \in 0 .. Size(fb) \div 4 - 1
      BY DEF Band
    <3>1. y \in 0 .. fb.h - 1
      BY <2>1
    <3> QED
      BY <1>1, <2>3, <3>1, WordIsVisible
  <2>4. ASSUME fb.bpp = 32, NEW k \in Blit(fb)
        PROVE  /\ k \in 0 .. Size(fb) \div 4 - 1
               /\ k % stride(fb) < fb.w /\ k \div stride(fb) < fb.h
    <3> DEFINE dw == Smaller(fb.img_w, fb.w)
               dh == Smaller(fb.img_h, fb.h)
               x0 == (fb.w - dw) \div 2
               y0 == (fb.h - dh) \div 2
    <3>1. dw \in Nat /\ dw <= fb.w /\ dh \in Nat /\ dh <= fb.h
      BY <2>1 DEF Smaller
    <3>2. PICK row \in 0 .. dh - 1, col \in 0 .. dw - 1 :
            k = (y0 + row) * stride(fb) + x0 + col
      BY DEF Blit
    <3> HIDE DEF dw, dh
    <3>3. y0 + row \in 0 .. fb.h - 1 /\ x0 + col \in 0 .. fb.w - 1
      BY <2>1, <3>1
    <3>4. k = (y0 + row) * stride(fb) + (x0 + col)
      <4>1. stride(fb) \in Int
        BY <1>1, LineHoldsRow DEF stride
      <4>2. x0 \in Int /\ (y0 + row) * stride(fb) \in Int
        BY <2>1, <3>1, <4>1
      <4> HIDE DEF x0, y0
      <4> QED
        BY <3>2, <4>2
    <3> HIDE DEF x0, y0
    <3> QED
      BY <1>1, <2>4, <3>3, <3>4, WordIsVisible
  <2> QED
    BY <2>2, <2>3, <2>4 DEF DrawsOnScreen
<1>2. fb \in Screens /\ [UNCHANGED fb]_fb => (fb \in Screens)'
  BY DEF Screens
<1> QED
  BY <1>1, <1>2, PTL DEF SplashSpec

-----------------------------------------------------------------------------
(* luna-init's start and end beside luna-splash, module Startup.           *)

StartupSpec == StartupInit /\ [][StartupNext]_startup

-----------------------------------------------------------------------------
(* The screen.                                                             *)

\* The console is in graphics only while luna-splash holds it open or after it
\* died by force, and luna-init knows the pid of a splash that lives.
ScreenInv ==
  /\ tty \in {"text", "graphics"}
  /\ tty = "graphics" => tty_fd \/ killed
  /\ tty_fd => Alive /\ splash # "forked"
  /\ Alive => splash_pid
  /\ at \in {"early", "log", "splash"} => splash = "none"
  /\ at = "graphics" => ~Alive

\* At power on the screen is in text mode.
LEMMA ScreenStarts == StartupInit => ScreenInv
  BY DEF StartupInit, SplashInit, ScreenInv, Alive

\* What main and the event loop do.
LEMMA LunaKeepsScreen ==
  ASSUME ScreenInv, Luna
  PROVE  ScreenInv'
<1> USE DEF ScreenInv, Alive, init, screen
<1>1. CASE MountEarly
  BY <1>1 DEF MountEarly
<1>2. CASE LogInit
  BY <1>2 DEF LogInit
<1>3. CASE SplashStart
  BY <1>3 DEF SplashStart
<1>4. CASE EventLoopInit
  BY <1>4 DEF EventLoopInit, Panic, SplashUpdate
<1>5. CASE MountFstab
  BY <1>5 DEF MountFstab, Panic
<1>6. CASE EarlyHooks
  BY <1>6 DEF EarlyHooks, SplashUpdate
<1>7. CASE StartServices
  BY <1>7 DEF StartServices, Panic, SplashUpdate
<1>8. CASE ReapSplash
  BY <1>8 DEF ReapSplash, Waiting
<1>9. CASE BootComplete
  BY <1>9 DEF BootComplete, SplashUpdate
<1>10. CASE SplashTimer
  BY <1>10 DEF SplashTimer
<1>11. CASE SplashStop
  BY <1>11 DEF SplashStop
<1>12. CASE SplashWait
  BY <1>12 DEF SplashWait
<1>13. CASE Graphics
  BY <1>13 DEF Graphics
<1>14. CASE Shutdown
  BY <1>14 DEF Shutdown
<1>15. CASE EventLoopFails
  BY <1>15 DEF EventLoopFails
<1>16. CASE UnmountAll
  BY <1>16 DEF UnmountAll
<1> QED
  BY <1>1, <1>2, <1>3, <1>4, <1>5, <1>6, <1>7, <1>8, <1>9, <1>10, <1>11,
     <1>12, <1>13, <1>14, <1>15, <1>16, ZenonT(60) DEF Luna

\* What luna-splash does: it leaves graphics on every way out but one.
LEMMA SplashKeepsScreen ==
  ASSUME ScreenInv, SplashNext, UNCHANGED init
  PROVE  ScreenInv'
<1> USE DEF ScreenInv, Alive, init
<1>1. CASE EnterGraphics
  BY <1>1 DEF EnterGraphics
<1>2. CASE OpenScreen
  BY <1>2 DEF OpenScreen, Cleanup
<1>3. CASE SetupSignals
  BY <1>3 DEF SetupSignals, Cleanup
<1>4. CASE ChooseMode
  BY <1>4 DEF ChooseMode
<1>5. CASE PipeReady
  BY <1>5 DEF PipeReady
<1>6. CASE ReadEvent
  BY <1>6 DEF ReadEvent
<1>7. CASE Drained
  BY <1>7 DEF Drained
<1>8. CASE FrameTick
  BY <1>8 DEF FrameTick
<1>9. CASE HandleTerm
  BY <1>9 DEF HandleTerm, Cleanup
<1>10. CASE SplashDies
  BY <1>10 DEF SplashDies
<1> QED
  BY <1>1, <1>2, <1>3, <1>4, <1>5, <1>6, <1>7, <1>8, <1>9, <1>10, ZenonT(60)
  DEF SplashNext, Progress

\* Stage 5 hands the screen over in text mode on every way through luna-splash
\* that does not end by force (splash_stop, the label cleanup of luna-splash).
THEOREM HandsOverText == StartupSpec => []TextAtHandOver
<1>1. ScreenInv /\ [StartupNext]_startup => ScreenInv'
  <2>1. ScreenInv /\ UNCHANGED startup => ScreenInv'
    BY DEF ScreenInv, Alive, startup, init, screen
  <2> QED
    BY <2>1, LunaKeepsScreen, SplashKeepsScreen DEF StartupNext
<1>2. ScreenInv => TextAtHandOver
  BY DEF ScreenInv, TextAtHandOver
<1> QED
  BY <1>1, <1>2, ScreenStarts, PTL DEF StartupSpec

-----------------------------------------------------------------------------
(* The way down.                                                           *)

\* Where p stands among the first n entries of the mount table g.
Tracked(g, p, n) == {k \in 1 .. n : g[k] = p}

\* How much of the table is still to be unmounted.
Left == IF at \in {"unmount", "fallen", "off"} THEN i ELSE Len(g_mounts)

TableTypes ==
  /\ mounts \in [MountPoints -> Nat]
  /\ g_mounts \in Seq(MountPoints)
  /\ mine \subseteq MountPoints
  /\ full \in BOOLEAN

\* A mount point of luna-init's has at most as many mounts as the first n
\* entries of the table speak of it; the others have at most the kernel's own.
Covered(n) ==
  /\ \A p \in MountPoints \ mine :
       mounts[p] = 0 \/ (p \in Single /\ mounts[p] = 1)
  /\ ~full => \A p \in mine : mounts[p] <= Cardinality(Tracked(g_mounts, p, n))

\* The indices of main's loops are in range and the rest of the table covers
\* what is mounted.
MountInv ==
  /\ TableTypes
  /\ i \in Nat
  /\ fstab \in Seq(MountPoints \cup {Incomplete})
  /\ at = "early" => i \in DOMAIN Early
  /\ at = "fstab" => i > 0
  /\ Left <= Len(g_mounts)
  /\ Covered(Left)
  /\ at = "off" => i = 0

\* From Stage 0 until the log is closed for good an entry has a file, unless
\* the file could not be opened.
LogInv ==
  /\ log \in [file : {"none", "boot", "runtime"}, open : BOOLEAN,
              failed : BOOLEAN]
  /\ at \notin {"early", "log", "fallen", "off"} => log.open \/ log.failed

\* The mounts of a table that are tracked can be counted.
LEMMA TrackedCount ==
  ASSUME NEW g, NEW p, NEW n \in Nat
  PROVE  /\ IsFiniteSet(Tracked(g, p, n))
         /\ Cardinality(Tracked(g, p, n)) \in Nat
<1>1. IsFiniteSet(1 .. n)
  BY FS_Interval
<1> QED
  BY <1>1, FS_Subset, FS_CardinalityType DEF Tracked

\* One entry more or less changes the count of its own mount point only.
LEMMA TrackedStep ==
  ASSUME NEW g, NEW p, NEW n \in Nat
  PROVE  Cardinality(Tracked(g, p, n + 1)) =
           IF g[n + 1] = p THEN Cardinality(Tracked(g, p, n)) + 1
           ELSE Cardinality(Tracked(g, p, n))
<1>1. CASE g[n + 1] = p
  <2>1. Tracked(g, p, n + 1) = Tracked(g, p, n) \cup {n + 1}
    BY <1>1 DEF Tracked
  <2>2. n + 1 \notin Tracked(g, p, n)
    BY DEF Tracked
  <2> QED
    BY <1>1, <2>1, <2>2, TrackedCount, FS_AddElement
<1>2. CASE g[n + 1] # p
  <2>1. Tracked(g, p, n + 1) = Tracked(g, p, n)
    BY <1>2 DEF Tracked
  <2> QED
    BY <1>2, <2>1
<1> QED
  BY <1>1, <1>2

\* A mount that is made is put into the table, or the table is full.
LEMMA MountsKeep ==
  ASSUME TableTypes, Covered(Len(g_mounts)), NEW q \in MountPoints, Mounts(q)
  PROVE  TableTypes' /\ Covered(Len(g_mounts))'
<1> DEFINE n == Len(g_mounts)
<1>1. n \in Nat
  BY DEF TableTypes
<1>2. TableTypes'
  <2>1. mounts' \in [MountPoints -> Nat]
    BY DEF Mounts, TableTypes
  <2>2. g_mounts' \in Seq(MountPoints)
    BY DEF Mounts, TrackMount, TableTypes
  <2>3. mine' \subseteq MountPoints
    BY DEF Mounts, TrackMount, TableTypes
  <2>4. full' \in BOOLEAN
    BY DEF Mounts, TrackMount
  <2> QED
    BY <2>1, <2>2, <2>3, <2>4 DEF TableTypes
<1>3. ASSUME NEW p \in MountPoints, p \notin mine'
      PROVE  mounts'[p] = 0 \/ (p \in Single /\ mounts'[p] = 1)
  BY <1>3 DEF Mounts, TrackMount, TableTypes, Covered
<1>4. ASSUME ~full', NEW p \in mine'
      PROVE  mounts'[p] <= Cardinality(Tracked(g_mounts', p, Len(g_mounts')))
  <2>1. ~full /\ g_mounts' = Append(g_mounts, q)
    BY <1>4, Zenon DEF Mounts, TrackMount
  <2>2. Len(g_mounts') = n + 1 /\ g_mounts'[n + 1] = q
    BY <2>1 DEF TableTypes
  <2>3. Tracked(g_mounts', p, n) = Tracked(g_mounts, p, n)
    BY <2>1 DEF Tracked, TableTypes
  <2>4. Cardinality(Tracked(g_mounts', p, n + 1)) =
          IF q = p THEN Cardinality(Tracked(g_mounts, p, n)) + 1
          ELSE Cardinality(Tracked(g_mounts, p, n))
    BY <1>1, <2>2, <2>3, TrackedStep
  <2>5. Cardinality(Tracked(g_mounts, p, n)) \in Nat
    BY <1>1, TrackedCount
  <2>6. p \in MountPoints
    BY <1>2 DEF TableTypes
  <2> HIDE DEF n
  <2>7. CASE p \in mine
    <3>1. mounts[p] <= Cardinality(Tracked(g_mounts, p, n))
      BY <2>1, <2>7 DEF Covered, n
    <3>2. mounts'[p] \in {mounts[p], IF q = p THEN mounts[p] + 1 ELSE mounts[p]}
      BY <2>6 DEF Mounts, TableTypes
    <3>3. mounts[p] \in Nat
      BY <2>6 DEF TableTypes
    <3> QED
      BY <2>2, <2>4, <2>5, <3>1, <3>2, <3>3
  <2>8. CASE p \notin mine
    <3>1. p = q
      BY <1>4, <2>8 DEF Mounts, TrackMount
    <3>2. mounts'[p] = 1
      BY <2>6, <2>8, <3>1 DEF Mounts, TableTypes, Covered
    <3> QED
      BY <2>2, <2>4, <2>5, <3>1, <3>2
  <2> QED
    BY <2>7, <2>8
<1> QED
  BY <1>2, <1>3, <1>4 DEF Covered

\* Unmounting one entry leaves the entries before it to cover the rest.
LEMMA DetachKeeps ==
  ASSUME TableTypes, NEW n \in Nat, n + 1 <= Len(g_mounts), Covered(n + 1),
         mounts' = Detached(g_mounts[n + 1]), UNCHANGED <<g_mounts, mine, full>>
  PROVE  /\ TableTypes'
         /\ \A p \in MountPoints \ mine :
              mounts'[p] = 0 \/ (p \in Single /\ mounts'[p] = 1)
         /\ ~full => \A p \in mine :
              mounts'[p] <= Cardinality(Tracked(g_mounts, p, n))
<1> DEFINE q == g_mounts[n + 1]
<1>1. q \in MountPoints
  BY DEF TableTypes
<1>2. TableTypes'
  BY <1>1 DEF TableTypes, Detached
<1>3. ASSUME NEW p \in MountPoints \ mine
      PROVE  mounts'[p] = 0 \/ (p \in Single /\ mounts'[p] = 1)
  BY <1>1, <1>3 DEF Detached, TableTypes, Covered
<1>4. ASSUME ~full, NEW p \in mine
      PROVE  mounts'[p] <= Cardinality(Tracked(g_mounts, p, n))
  <2>1. p \in MountPoints
    BY DEF TableTypes
  <2>2. mounts[p] <= Cardinality(Tracked(g_mounts, p, n + 1))
    BY <1>4 DEF Covered
  <2>3. Cardinality(Tracked(g_mounts, p, n + 1)) =
          IF q = p THEN Cardinality(Tracked(g_mounts, p, n)) + 1
          ELSE Cardinality(Tracked(g_mounts, p, n))
    BY TrackedStep
  <2>4. Cardinality(Tracked(g_mounts, p, n)) \in Nat /\ mounts[p] \in Nat
    BY <2>1, TrackedCount DEF TableTypes
  <2>5. mounts'[p] = IF p = q /\ mounts[q] > 0 THEN mounts[q] - 1
                     ELSE IF Parent[p] = q /\ p # q /\ mounts[q] > 0 THEN 0
                     ELSE mounts[p]
    BY <2>1 DEF Detached
  <2> HIDE DEF q
  <2> QED
    BY <2>2, <2>3, <2>4, <2>5
<1> QED
  BY <1>2, <1>3, <1>4

\* luna-init starts with an empty table and has mounted nothing.
LEMMA MountStarts == StartupInit => MountInv
<1> SUFFICES ASSUME StartupInit PROVE MountInv
  OBVIOUS
<1>0. /\ at = "early" /\ i = 1 /\ fstab \in Fstabs
      /\ mounts \in [MountPoints -> {0, 1}]
      /\ \A p \in MountPoints : mounts[p] = 1 => p = "dev"
      /\ g_mounts = << >> /\ mine = {} /\ full = FALSE
  BY DEF StartupInit
<1>1. fstab \in Seq(MountPoints \cup {Incomplete})
  BY ONLY <1>0, StartupAssumption
<1>2. mounts \in [MountPoints -> Nat] /\ g_mounts \in Seq(MountPoints)
  BY ONLY <1>0
<1>3. TableTypes
  BY <1>0, <1>2, Zenon DEF TableTypes
<1>4. 1 \in DOMAIN Early
  BY ONLY StartupAssumption
<1>5. Left = 0 /\ Len(g_mounts) = 0 /\ i \in Nat
  BY <1>0 DEF Left
<1>6. Covered(Left)
  BY <1>0, StartupAssumption DEF Covered
<1> QED
  BY <1>0, <1>1, <1>3, <1>4, <1>5, <1>6 DEF MountInv

\* A step that leaves the tables alone and stays out of the way down.
LEMMA TablesRest ==
  ASSUME MountInv, UNCHANGED <<mounts, g_mounts, mine, full, fstab>>,
         at \notin {"unmount", "fallen", "off"},
         at' \notin {"unmount", "fallen", "off"},
         i' \in Nat, at' = "early" => i' \in DOMAIN Early, at' = "fstab" => i' > 0
  PROVE  MountInv'
<1>1. Left = Len(g_mounts) /\ Left' = Len(g_mounts)
  BY DEF Left
<1>2. Covered(Left)'
  BY <1>1 DEF MountInv, Covered
<1> QED
  BY <1>1, <1>2 DEF MountInv, TableTypes

\* A mount that succeeds, early or from fstab.toml.
LEMMA TablesGrow ==
  ASSUME MountInv, NEW q \in MountPoints, Mounts(q), UNCHANGED fstab,
         at \notin {"unmount", "fallen", "off"},
         at' \notin {"unmount", "fallen", "off"},
         i' \in Nat, at' = "early" => i' \in DOMAIN Early, at' = "fstab" => i' > 0
  PROVE  MountInv'
<1>1. Left = Len(g_mounts) /\ Left' = Len(g_mounts')
  BY DEF Left
<1>2. TableTypes' /\ Covered(Len(g_mounts))'
  BY <1>1, MountsKeep DEF MountInv
<1>3. Left' <= Len(g_mounts')
  BY <1>1, <1>2 DEF TableTypes
<1>4. Covered(Left)'
  BY <1>1, <1>2 DEF Covered
<1> QED
  BY <1>2, <1>3, <1>4 DEF MountInv

\* Every step of startup and shutdown keeps count of the mounts.
LEMMA MountStep ==
  ASSUME MountInv, [StartupNext]_startup
  PROVE  MountInv'
<1> USE StartupAssumption
<1>1. CASE MountEarly
  <2>1. i \in DOMAIN Early /\ i' = i + 1 /\ at' \in {"early", "log"}
          /\ (at' = "early" => i # Len(Early)) /\ UNCHANGED fstab
    BY <1>1 DEF MountEarly, MountInv
  <2>2. i' \in Nat /\ (at' = "early" => i' \in DOMAIN Early)
    BY <2>1
  <2>3. CASE Mounts(Early[i])
    <3>1. Early[i] \in MountPoints
      BY <2>1
    <3> QED
      BY <1>1, <2>1, <2>2, <2>3, <3>1, TablesGrow DEF MountEarly
  <2>4. CASE MountFails
    BY <1>1, <2>1, <2>2, <2>4, TablesRest DEF MountEarly, MountFails
  <2> QED
    BY <1>1, <2>3, <2>4 DEF MountEarly
<1>2. CASE LogInit
  BY <1>2, TablesRest DEF LogInit, MountInv
<1>3. CASE SplashStart
  BY <1>3, TablesRest DEF SplashStart, MountInv
<1>4. CASE EventLoopInit
  BY <1>4, TablesRest DEF EventLoopInit, Panic, MountInv
<1>5. CASE MountFstab
  <2>0. at = "fstab"
    BY <1>5, Zenon DEF MountFstab
  <2>1. i \in Nat /\ i > 0 /\ i + 1 \in Nat /\ i + 1 > 0
    BY <2>0 DEF MountInv
  <2>2. CASE /\ i <= Len(fstab) /\ fstab[i] # Incomplete /\ Mounts(fstab[i])
             /\ i' = i + 1 /\ UNCHANGED <<at, fstab>>
    <3>1. fstab[i] \in MountPoints
      BY <2>1, <2>2 DEF MountInv
    <3> QED
      BY <2>0, <2>1, <2>2, <3>1, TablesGrow
  <2>3. CASE MountFails /\ i' = i + 1 /\ UNCHANGED <<at, fstab>>
    BY <2>0, <2>1, <2>3, TablesRest DEF MountFails
  <2>4. CASE Panic
    BY <2>0, <2>1, <2>4, TablesRest DEF Panic
  <2>5. CASE at' = "hooks" /\ UNCHANGED <<fstab, i, mounts, g_mounts, mine, full>>
    BY <2>0, <2>1, <2>5, TablesRest
  <2> QED
    BY <1>5, <2>2, <2>3, <2>4, <2>5 DEF MountFstab
<1>6. CASE EarlyHooks
  BY <1>6, TablesRest DEF EarlyHooks, MountInv
<1>7. CASE StartServices
  BY <1>7, TablesRest DEF StartServices, Panic, MountInv
<1>8. CASE ReapSplash
  BY <1>8, TablesRest DEF ReapSplash, Waiting, init, MountInv
<1>9. CASE BootComplete
  BY <1>9, TablesRest DEF BootComplete, MountInv
<1>10. CASE SplashTimer
  BY <1>10, TablesRest DEF SplashTimer, MountInv
<1>11. CASE SplashStop
  BY <1>11, TablesRest DEF SplashStop, MountInv
<1>12. CASE SplashWait
  BY <1>12, TablesRest DEF SplashWait, MountInv
<1>13. CASE Graphics
  BY <1>13, TablesRest DEF Graphics, MountInv
<1>14. CASE Shutdown \/ EventLoopFails
  <2>1. /\ at \notin {"unmount", "fallen", "off"} /\ at' \in {"unmount", "fallen"}
        /\ i' = Len(g_mounts) /\ UNCHANGED <<mounts, g_mounts, mine, full, fstab>>
    BY <1>14 DEF Shutdown, EventLoopFails, Waiting
  <2>2. Left = Len(g_mounts) /\ Left' = Len(g_mounts)
    BY <2>1 DEF Left
  <2>3. Covered(Left)' /\ TableTypes'
    BY <2>1, <2>2 DEF MountInv, Covered, TableTypes
  <2> QED
    BY <2>1, <2>2, <2>3 DEF MountInv, TableTypes
<1>15. CASE UnmountAll
  <2>1. at \in {"unmount", "fallen"} /\ UNCHANGED <<fstab, g_mounts, mine, full>>
    BY <1>15 DEF UnmountAll
  <2>2. Left = i /\ i <= Len(g_mounts) /\ i \in Nat
    BY <2>1 DEF MountInv, Left
  <2>3. CASE i > 0 /\ mounts' = Detached(g_mounts[i]) /\ i' = i - 1 /\ at' = at
    <3> DEFINE n == i - 1
    <3>1. n \in Nat /\ n + 1 = i /\ i' = n /\ n <= Len(g_mounts)
      BY <2>2, <2>3 DEF MountInv, TableTypes
    <3> HIDE DEF n
    <3>2. Left' = n
      BY <2>1, <2>3, <3>1 DEF Left
    <3>3. Covered(n + 1)
      BY <2>2, <3>1 DEF MountInv
    <3>4. TableTypes' /\ Covered(Left)'
      <4>1. /\ TableTypes'
            /\ \A p \in MountPoints \ mine :
                 mounts'[p] = 0 \/ (p \in Single /\ mounts'[p] = 1)
            /\ ~full => \A p \in mine :
                 mounts'[p] <= Cardinality(Tracked(g_mounts, p, n))
        BY <2>1, <2>2, <2>3, <3>1, <3>3, DetachKeeps DEF MountInv
      <4> QED
        BY <2>1, <3>2, <4>1 DEF Covered
    <3> QED
      BY <2>1, <2>3, <3>1, <3>2, <3>4 DEF MountInv
  <2>4. CASE i = 0 /\ at' = "off" /\ UNCHANGED <<mounts, i>>
    <3>1. Left' = Left
      BY <2>1, <2>4 DEF Left
    <3> QED
      BY <2>1, <2>2, <2>4, <3>1 DEF MountInv, TableTypes, Covered
  <2> QED
    BY <1>15, <2>3, <2>4 DEF UnmountAll
<1>16. CASE UNCHANGED init
  <2>1. Left' = Left
    BY <1>16 DEF init, Left
  <2> QED
    BY <1>16, <2>1 DEF init, MountInv, TableTypes, Covered
<1> QED
  BY <1>1, <1>2, <1>3, <1>4, <1>5, <1>6, <1>7, <1>8, <1>9, <1>10, <1>11,
     <1>12, <1>13, <1>14, <1>15, <1>16 DEF StartupNext, Luna, startup

\* Every step keeps what is known of the log.
LEMMA LogStep ==
  ASSUME LogInv, [StartupNext]_startup
  PROVE  LogInv'
<1>1. CASE LogInit
  <2>1. PICK ok \in BOOLEAN : log' = [file |-> "boot", open |-> ok, failed |-> ~ok]
    BY <1>1, Zenon DEF LogInit
  <2> QED
    BY <2>1, Zenon DEF LogInv
<1>2. CASE Graphics
  <2>1. PICK ok \in BOOLEAN :
          log' = [file |-> "runtime", open |-> ok, failed |-> ~ok]
    BY <1>2, Zenon DEF Graphics, SwitchToRuntime
  <2> QED
    BY <2>1, Zenon DEF LogInv
<1>3. CASE LogClose /\ at' \in {"fallen", "off"}
  BY <1>3, Zenon DEF LogClose, LogInv
<1>4. CASE /\ UNCHANGED log
           /\ at' \in {"early", "log", "fallen", "off"}
                \/ at \notin {"early", "log", "fallen", "off"}
  BY <1>4 DEF LogInv
<1>5. CASE Luna
  <2>1. CASE EventLoopFails \/ UnmountAll
    BY <1>3, <1>4, <2>1 DEF EventLoopFails, UnmountAll
  <2>2. CASE MountEarly
    BY <1>4, <2>2 DEF MountEarly
  <2>3. CASE SplashStart \/ EventLoopInit \/ EarlyHooks \/ StartServices
    <3>1. CASE SplashStart
      BY <1>4, <3>1 DEF SplashStart
    <3>2. CASE EventLoopInit
      BY <1>4, <3>2 DEF EventLoopInit, Panic
    <3>3. CASE EarlyHooks
      BY <1>4, <3>3 DEF EarlyHooks, Panic
    <3>4. CASE StartServices
      BY <1>4, <3>4 DEF StartServices, Panic
    <3> QED
      BY <2>3, <3>1, <3>2, <3>3, <3>4, ZenonT(60)
  <2>4. CASE MountFstab
    <3>1. at = "fstab" /\ log' = log
      BY <2>4, ZenonT(60) DEF MountFstab, Panic
    <3> QED
      BY <1>4, <3>1
  <2>5. CASE ReapSplash \/ BootComplete \/ SplashTimer \/ Shutdown
    <3>1. CASE ReapSplash
      BY <1>4, <3>1 DEF ReapSplash, Waiting, init
    <3>2. CASE BootComplete
      BY <1>4, <3>2 DEF BootComplete
    <3>3. CASE SplashTimer
      BY <1>4, <3>3 DEF SplashTimer
    <3>4. CASE Shutdown
      BY <1>4, <3>4 DEF Shutdown, Waiting
    <3> QED
      BY <2>5, <3>1, <3>2, <3>3, <3>4, Zenon
  <2>6. CASE SplashStop \/ SplashWait
    BY <1>4, <2>6 DEF SplashStop, SplashWait
  <2> QED
    BY <1>1, <1>2, <1>5, <2>1, <2>2, <2>3, <2>4, <2>5, <2>6 DEF Luna
<1>6. CASE UNCHANGED init
  BY <1>6 DEF init, LogInv
<1> QED
  BY <1>5, <1>6 DEF StartupNext, startup

\* What luna-init mounted is unmounted when the machine goes down, unless the
\* table overflowed, and the warnings on the way have a log file (track_mount,
\* mount_unmount_all, luna_log_close), for every fstab.toml and every nesting
\* and repetition of mount points.
THEOREM ShutsDownInOrder == StartupSpec => []ShutdownIsOrderly
<1>1. StartupInit => MountInv /\ LogInv
  <2>1. StartupInit => LogInv
    BY DEF StartupInit, LogInv
  <2> QED
    BY <2>1, MountStarts
<1>2. MountInv /\ LogInv /\ [StartupNext]_startup => (MountInv /\ LogInv)'
  BY MountStep, LogStep
<1>3. MountInv /\ LogInv => ShutdownIsOrderly
  <2> SUFFICES ASSUME MountInv, LogInv PROVE ShutdownIsOrderly
    OBVIOUS
  <2>1. ASSUME at = "off", ~full, NEW p \in mine
        PROVE  mounts[p] = 0
    <3>1. Left = 0
      BY <2>1 DEF MountInv, Left
    <3>2. Tracked(g_mounts, p, 0) = {}
      BY DEF Tracked
    <3>3. mounts[p] <= 0
      BY <2>1, <3>1, <3>2, FS_EmptySet, Zenon DEF MountInv, Covered
    <3> QED
      BY <2>1, <3>3 DEF MountInv, TableTypes
  <2>2. at = "unmount" => Sink("WARN") # "stderr" \/ log.failed
    BY DEF LogInv, Sink
  <2> QED
    BY <2>1, <2>2 DEF ShutdownIsOrderly
<1> QED
  BY <1>1, <1>2, <1>3, PTL DEF StartupSpec
=============================================================================
