---------------------------- MODULE MCCompositor ----------------------------
(***************************************************************************)
(* A small compositor for TLC: a window and a shell surface on a screen    *)
(* two pixels wide.                                                        *)
(***************************************************************************)
EXTENDS Compositor

MCRequests ==
  {[type |-> "WINDOW",  layer |-> 100, x |-> 0, w |-> 2],
   [type |-> "SHELL",   layer |-> 200, x |-> -1, w |-> 2]}

MCCapRequests == {{"DIRECT", "SHELL", "WM"}}

\* Half off the left edge, and beyond the right one.
MCPositions == {-1, Width}

\* Without input devices nothing happens that could not happen with them, so
\* clients are served only where there are some.
ScenesWithInput == "input" \in held \/ next_session = 1

\* "Pointer events: routed to the surface under the cursor" (01_lgp.md): where
\* an application's surface is what the screen shows at a pixel, a press there
\* goes to that surface.
ClickHitsWhatIsSeen ==
  \A x \in 0..Width - 1 :
    \A i \in PixelOf(surf, x) :
      surf[i].layer = APPLICATION /\ surf[i].owner # wm
        => PointerTarget(surf, wm, x) = {i}
=============================================================================
