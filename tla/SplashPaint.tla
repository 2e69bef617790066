---------------------------- MODULE SplashPaint -----------------------------
(***************************************************************************)
(* What luna-splash writes to the framebuffer, in bytes, for every         *)
(* geometry the kernel may report.                                         *)
(***************************************************************************)
EXTENDS Integers

CONSTANTS Sides,     \* bound: widths and heights of screen and frames
          Depths,    \* bits per pixel
          Padding    \* bound: bytes and rows beyond the visible screen

ASSUME SplashPaintAssumption ==
  Sides \subseteq Nat /\ Depths \subseteq Nat /\ Padding \subseteq Nat

VARIABLE fb          \* the screen and the frame at hand

\* render_init: xres, yres, bits_per_pixel, line_length, yres_virtual; a frame
\* as stbi_load returns it.  A line is a whole number of words at 32 bits.
Screens ==
  {s \in [w : Sides, h : Sides, bpp : Depths, pad : Padding, hidden : Padding,
          img_w : Sides, img_h : Sides] :
     s.bpp = 32 => s.pad % 4 = 0}

line_length(s) == (s.w * s.bpp) \div 8 + s.pad
Size(s) == (s.h + s.hidden) * line_length(s)

\* Mutant of put_pixel: the right edge is taken to be on the screen.
put_pixel_edge(s, x, y) ==
  IF x \notin 0 .. s.w \/ y \notin 0 .. s.h - 1 THEN {}
  ELSE CASE s.bpp = 32 ->
              {4 * ((y * line_length(s)) \div 4 + x) + b : b \in 0 .. 3}
         [] s.bpp = 16 ->
              {2 * ((y * line_length(s)) \div 2 + x) + b : b \in 0 .. 1}
         [] s.bpp = 24 -> {y * line_length(s) + 3 * x + b : b \in 0 .. 2}
         [] OTHER -> {}

\* The bytes put_pixel writes for a point anywhere; text, logo, bars and
\* backgrounds all draw through it.
put_pixel(s, x, y) ==
  IF x \notin 0 .. s.w - 1 \/ y \notin 0 .. s.h - 1 THEN {}
  ELSE CASE s.bpp = 32 ->
              {4 * ((y * line_length(s)) \div 4 + x) + b : b \in 0 .. 3}
         [] s.bpp = 16 ->
              {2 * ((y * line_length(s)) \div 2 + x) + b : b \in 0 .. 1}
         [] s.bpp = 24 -> {y * line_length(s) + 3 * x + b : b \in 0 .. 2}
         [] OTHER -> {}

\* render_text, render_logo and the bars start from a centre that may lie
\* outside a small screen.
Drawn(s) ==
  UNION {put_pixel(s, x, y) : x \in -2 .. s.w + 2, y \in -2 .. s.h + 2}

stride(s) == line_length(s) \div 4

Smaller(a, b) == IF a < b THEN a ELSE b

\* The words frames_load_next writes: the frame centred at its own size, or
\* the part of it that the screen can hold.
Blit(s) ==
  LET draw_w == Smaller(s.img_w, s.w)
      draw_h == Smaller(s.img_h, s.h)
      x_off == (s.w - draw_w) \div 2
      y_off == (s.h - draw_h) \div 2
  IN  {(y_off + row) * stride(s) + x_off + col :
         row \in 0 .. draw_h - 1, col \in 0 .. draw_w - 1}

\* The words the overlay reads and darkens: the bottom 15 per cent.
Band(s) ==
  {y * stride(s) + x : x \in 0 .. s.w - 1, y \in (s.h * 85) \div 100 .. s.h - 1}

-----------------------------------------------------------------------------

\* Whatever the screen's depth, padding and size, drawing stays within the
\* mapping of the framebuffer, and at 32 bits so do frames and overlay, and a
\* centred frame never wraps: each word it writes belongs to a visible pixel
\* (put_pixel, frames_load_next, render_overlay_progress).  At other depths the
\* stride in words is not one of pixels, and a frame may run past the end.
DrawsOnScreen ==
  /\ Drawn(fb) \subseteq 0 .. Size(fb) - 1
  /\ fb.bpp = 32 =>
       /\ Band(fb) \subseteq 0 .. Size(fb) \div 4 - 1
       /\ Blit(fb) \subseteq 0 .. Size(fb) \div 4 - 1
       /\ \A k \in Blit(fb) : k % stride(fb) < fb.w /\ k \div stride(fb) < fb.h

=============================================================================
