------------------------------ MODULE LgpInput ------------------------------
(***************************************************************************)
(* Pointer, modifiers and buttons as the compositor keeps them, for both   *)
(* ways it can be built: on libinput, and on /dev/input/mice with an evdev *)
(* keyboard.                                                               *)
(*                                                                         *)
(* libinput moves the pointer by fractions of a pixel: positions are kept  *)
(* in units of 1/Sub pixel.  key_down and btn_down are the keyboard and    *)
(* the mouse themselves.                                                   *)
(***************************************************************************)
EXTENDS Integers

CONSTANTS
  ScreenW, ScreenH,  \* the mode of the display
  Sub,               \* bound: steps per pixel
  Deltas,            \* bound: how far one event moves the pointer
  ModKeys,           \* keys that are modifiers
  PlainKeys          \* keys that are not

ASSUME InputAssumption ==
  ScreenW \in Nat \ {0} /\ ScreenH \in Nat \ {0} /\ Sub \in Nat \ {0}
    /\ Deltas \subseteq Int /\ ModKeys \cap PlainKeys = {}

VARIABLES
  backend,    \* "libinput" or "raw"
  pointer,    \* pointer_x and pointer_y
  cursor,     \* g_cursor
  mods,       \* modifiers
  last,       \* last_left and last_right of the raw pump
  reported,       \* what the clients were last told about each button
  key_down, btn_down

input == <<backend, pointer, cursor, mods, last, reported, key_down, btn_down>>

Buttons == {"left", "right"}
Masks == {"SHIFT", "CTRL"}
MaskOf(k) == IF k \in {"LEFTSHIFT", "RIGHTSHIFT"} THEN "SHIFT" ELSE "CTRL"

\* lgp_cursor_set_position clamps a second time.
SetPosition(x, y) ==
  [x |-> IF x < 0 THEN 0 ELSE IF x >= ScreenW THEN ScreenW - 1 ELSE x,
   y |-> IF y < 0 THEN 0 ELSE IF y >= ScreenH THEN ScreenH - 1 ELSE y]

\* lgp_input_clamp_pointer.
Clamp(p) ==
  [x |-> IF p.x < 0 THEN 0 ELSE IF p.x >= ScreenW * Sub THEN (ScreenW - 1) * Sub ELSE p.x,
   y |-> IF p.y < 0 THEN 0 ELSE IF p.y >= ScreenH * Sub THEN (ScreenH - 1) * Sub ELSE p.y]

\* lgp_input_set_screen.
InputInit ==
  /\ backend \in {"libinput", "raw"}
  /\ pointer = [x |-> (ScreenW \div 2) * Sub, y |-> (ScreenH \div 2) * Sub]
  /\ cursor = SetPosition(ScreenW \div 2, ScreenH \div 2)
  /\ mods = {} /\ last = {} /\ reported = {} /\ key_down = {} /\ btn_down = {}

\* Both pumps: the pointer moves, is clamped and truncated, the cursor follows
\* and the motion is sent.
MoveTo(p) ==
  /\ pointer' = Clamp(p)
  /\ cursor' = SetPosition(Clamp(p).x \div Sub, Clamp(p).y \div Sub)

\* lgp_input_handle_pointer_motion.
Motion(dx, dy) ==
  /\ backend = "libinput"
  /\ MoveTo([x |-> pointer.x + dx, y |-> pointer.y + dy])
  /\ UNCHANGED <<backend, mods, last, reported, key_down, btn_down>>

\* lgp_input_handle_pointer_button.
Button(b) ==
  /\ backend = "libinput"
  /\ btn_down' = IF b \in btn_down THEN btn_down \ {b} ELSE btn_down \cup {b}
  /\ reported' = btn_down'
  /\ UNCHANGED <<backend, pointer, cursor, mods, last, key_down>>

\* A byte of a PS/2 packet with its sign bit from the first byte.
Extend(byte, sign) == IF sign THEN byte - 256 ELSE byte

\* lgp_input_pump_raw_mouse, one packet: deltas are two's complement, y points
\* up, and the buttons' state comes with every packet.
Packet(dx, dy, down) ==
  LET sx == Extend(dx % 256, dx < 0)
      sy == Extend(dy % 256, dy < 0)
      changed == {b \in Buttons : (b \in down) # (b \in last)}
  IN  /\ backend = "raw"
      /\ btn_down' = down
      /\ MoveTo([x |-> pointer.x + sx * Sub, y |-> pointer.y - sy * Sub])
      /\ reported' = (reported \ changed) \cup (down \cap changed)
      /\ last' = down
      /\ UNCHANGED <<backend, mods, key_down>>

\* Mutant of UpdateModifiers: a repeat counts as a release.
UpdateModifiersRepeat(k, value) ==
  IF k \notin ModKeys THEN mods
  ELSE IF value = 1 THEN mods \cup {MaskOf(k)} ELSE mods \ {MaskOf(k)}

\* lgp_input_update_modifiers: value is 1 for a press, 2 for a repeat and 0
\* for a release.
UpdateModifiers(k, value) ==
  IF k \notin ModKeys THEN mods
  ELSE IF value \in {1, 2} THEN mods \cup {MaskOf(k)} ELSE mods \ {MaskOf(k)}

\* A key is pressed, held or released, and the modifiers follow.
KeyChanges(k, value) ==
  /\ (value = 1) = (k \notin key_down)
  /\ key_down' = IF value = 0 THEN key_down \ {k} ELSE key_down \cup {k}
  /\ mods' = UpdateModifiers(k, value)
  /\ UNCHANGED <<backend, pointer, cursor, last, reported, btn_down>>

\* lgp_input_handle_keyboard_key: libinput reports no repeats.
HandleKey(k, value) == backend = "libinput" /\ value # 2 /\ KeyChanges(k, value)

\* lgp_input_pump_raw_keyboard.
RawKey(k, value) == backend = "raw" /\ KeyChanges(k, value)

InputNext ==
  \/ \E dx, dy \in Deltas : Motion(dx, dy)
  \/ \E b \in Buttons : Button(b)
  \/ \E dx, dy \in Deltas, down \in SUBSET Buttons : Packet(dx, dy, down)
  \/ \E k \in ModKeys \cup PlainKeys, value \in 0..2 :
       HandleKey(k, value) \/ RawKey(k, value)

-----------------------------------------------------------------------------

\* What the compositor keeps of the input devices is how they are, through any
\* sequence of their events.  The cursor is drawn where the next click will be
\* delivered, on the screen: pointer and cursor are two copies of the position,
\* in different units and clamped apart.  Every press of a button is reported
\* once and so is its release (the raw pump reports differences to a remembered
\* state, several in one packet).  A modifier is set only while one of its keys
\* is down, and is set while all of them are; with one of a pair down it is not
\* if the other was released last.
InputMatchesDevices ==
  /\ cursor = [x |-> pointer.x \div Sub, y |-> pointer.y \div Sub]
  /\ cursor.x \in 0..ScreenW - 1 /\ cursor.y \in 0..ScreenH - 1
  /\ reported = btn_down
  /\ mods \subseteq {MaskOf(k) : k \in key_down \cap ModKeys}
  /\ \A m \in Masks \ mods : {k \in ModKeys : MaskOf(k) = m} # {} =>
       ~({k \in ModKeys : MaskOf(k) = m} \subseteq key_down)
=============================================================================
