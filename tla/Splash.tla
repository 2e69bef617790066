------------------------------- MODULE Splash -------------------------------
(***************************************************************************)
(* luna-splash, the process that owns the screen while luna-init boots: it *)
(* switches the console to graphics, opens the framebuffer, blocks and     *)
(* polls its signals, plays frames or draws a still picture, reads         *)
(* progress from the pipe luna-init writes, and on SIGTERM fades out and   *)
(* gives the console back.                                                 *)
(*                                                                         *)
(* A byte of the pipe is <<percent, i>>, the i-th of the message for that  *)
(* percentage; its MsgLen-th byte is the newline.                          *)
(***************************************************************************)
EXTENDS Integers, Sequences, Functions

CONSTANTS MsgLen,     \* the longest message of luna-init, in bytes
          Chunk,      \* what ipc_read_event reads at once (63)
          BufMax,     \* MAX_IPC_MSG
          FrameFiles, \* bound: how many frame*.png there may be
          MetaFps     \* bound: what meta.txt may say of the frame rate

\* What ipc_read_event needs to lose nothing: an unfinished message and the
\* next chunk fit its buffer.  luna-init's longest message has 31 bytes.
ASSUME ChunksFit == /\ {MsgLen, Chunk, BufMax} \subseteq Nat \ {0}
                    /\ MsgLen - 1 + Chunk < BufMax

VARIABLES splash,      \* where the process is
          tty,         \* the mode of /dev/tty0
          tty_fd,      \* whether luna-splash has it open
          pipe, wend,  \* unread bytes; whether luna-init holds the write end
          buffer,      \* the bytes of an unfinished message
          last_pct, shown,
          fps,         \* the frame rate of the film, 0 for a still picture
          term,        \* SIGTERM is pending
          killed       \* luna-splash died without its cleanup

screen == <<splash, tty, tty_fd, pipe, wend, buffer, last_pct, shown,
            fps, term, killed>>

Alive == splash \notin {"none", "zombie", "reaped"}

SplashInit ==
  /\ splash = "none" /\ tty = "text" /\ tty_fd = FALSE
  /\ pipe = << >> /\ wend = FALSE /\ buffer = << >>
  /\ last_pct = -1 /\ shown = -1 /\ fps = 0
  /\ term = FALSE /\ killed = FALSE

\* The child cannot execute luna-splash and exits, or main starts: the console
\* goes to graphics if it can be opened at all.
EnterGraphics ==
  /\ splash = "forked"
  /\ \/ splash' = "zombie" /\ UNCHANGED <<tty, tty_fd>>
     \/ splash' = "graphics" /\ tty' = "graphics" /\ tty_fd' = TRUE
     \/ splash' = "graphics" /\ UNCHANGED <<tty, tty_fd>>
  /\ UNCHANGED <<pipe, wend, buffer, last_pct, shown, fps, term, killed>>

\* The label cleanup of main, which every way out passes.
Cleanup ==
  /\ splash' = "zombie"
  /\ tty' = IF tty_fd THEN "text" ELSE tty
  /\ tty_fd' = FALSE
  /\ UNCHANGED <<pipe, wend, buffer, last_pct, shown, fps, term, killed>>

\* Mutant of OpenScreen: a main that returns when there is no framebuffer.
OpenScreenReturns ==
  /\ splash = "graphics"
  /\ \/ splash' = "unmasked" /\ UNCHANGED <<tty, tty_fd>>
     \/ splash' = "zombie" /\ UNCHANGED <<tty, tty_fd>>
  /\ UNCHANGED <<pipe, wend, buffer, last_pct, shown, fps, term, killed>>

\* render_init opens and maps /dev/fb0, or fails.
OpenScreen ==
  /\ splash = "graphics"
  /\ \/ /\ splash' = "unmasked"
        /\ UNCHANGED <<tty, tty_fd, pipe, wend, buffer, last_pct, shown,
                       fps, term, killed>>
     \/ Cleanup

\* epoll and setup_signals: from here on SIGTERM is read, not suffered.
SetupSignals ==
  /\ splash = "unmasked"
  /\ \/ /\ splash' = "masked"
        /\ UNCHANGED <<tty, tty_fd, pipe, wend, buffer, last_pct, shown,
                       fps, term, killed>>
     \/ Cleanup

frame_mode == fps > 0

MaxFrames == 512

\* frames_init's count: the directory may be missing, hold no frame, or more
\* than the table does.
frames_init(files) == IF files < MaxFrames THEN files ELSE MaxFrames

\* read_meta: the file is optional and its number is taken as it is.
read_meta == {30} \cup MetaFps

frames_get_fps(s_fps) == IF s_fps > 0 THEN s_fps ELSE 30

frame_ns == 1000000000 \div fps

\* timerfd_settime: no interval at 0, EINVAL at a whole second, which main
\* does not notice.
FrameTimerRuns == frame_ns \in 1 .. 999999999

\* frames_init and the frame timer decide between film and still picture.
ChooseMode ==
  /\ splash = "masked"
  /\ splash' = "loop"
  /\ \E files \in FrameFiles, rate \in read_meta :
       \/ frames_init(files) > 0 /\ fps' = frames_get_fps(rate) /\ shown' = -1
       \/ fps' = 0 /\ shown' = 0
  /\ UNCHANGED <<tty, tty_fd, pipe, wend, buffer, last_pct, term, killed>>

-----------------------------------------------------------------------------

HasLine(b) == \E i \in DOMAIN b : b[i][2] = MsgLen
LineEnd(b) == CHOOSE i \in DOMAIN b :
                b[i][2] = MsgLen /\ \A j \in 1 .. i - 1 : b[j][2] # MsgLen

\* atoi of what stands before the bar; 0 if the message has lost its head.
Percent(line) == IF line[1][2] = 1 THEN line[1][1] ELSE 0

\* Mutant of Remain: the buffer is emptied after each message.
RemainNothing(b) == << >>

\* The memmove at the end of ipc_read_event.
Remain(b) == SubSeq(b, LineEnd(b) + 1, Len(b))

Upto(b, n) == SubSeq(b, 1, IF Len(b) < n THEN Len(b) ELSE n)

\* The buffer after one read of at most Chunk bytes, which is only done if no
\* complete message is left in it; what does not fit is dropped.
Filled ==
  IF HasLine(buffer) THEN buffer
  ELSE Upto(buffer \o Upto(pipe, Chunk), BufMax - 1)

Unread == IF HasLine(buffer) THEN pipe ELSE SubSeq(pipe, Chunk + 1, Len(pipe))

\* epoll reports the pipe: bytes, or that nobody can write to it any more.
PipeReady ==
  /\ splash = "loop"
  /\ pipe # << >> \/ ~wend
  /\ splash' = "drain"
  /\ UNCHANGED <<tty, tty_fd, pipe, wend, buffer, last_pct, shown, fps,
                 term, killed>>

\* ipc_read_event returns a message.
ReadEvent ==
  /\ splash = "drain"
  /\ HasLine(Filled)
  /\ last_pct' = Percent(Filled)
  /\ buffer' = Remain(Filled)
  /\ pipe' = Unread
  /\ UNCHANGED <<splash, tty, tty_fd, wend, shown, fps, term, killed>>

\* ipc_read_event returns false; the still picture is drawn anew.
Drained ==
  /\ splash = "drain"
  /\ ~HasLine(Filled)
  /\ buffer' = Filled
  /\ pipe' = Unread
  /\ splash' = "loop"
  /\ shown' = IF frame_mode THEN shown ELSE last_pct
  /\ UNCHANGED <<tty, tty_fd, wend, last_pct, fps, term, killed>>

\* The frame timer: the next frame, and the progress bar over it.
FrameTick ==
  /\ splash = "loop" /\ frame_mode /\ FrameTimerRuns
  /\ shown' = IF last_pct >= 0 THEN last_pct ELSE shown
  /\ UNCHANGED <<splash, tty, tty_fd, pipe, wend, buffer, last_pct, fps,
                 term, killed>>

\* The signalfd: running becomes false, the picture fades, and main cleans up.
HandleTerm ==
  /\ splash = "loop" /\ term
  /\ Cleanup

\* A fault, or SIGTERM while it still has its default action.
SplashDies ==
  /\ Alive
  /\ splash' = "zombie" /\ killed' = TRUE /\ tty_fd' = FALSE
  /\ UNCHANGED <<tty, pipe, wend, buffer, last_pct, shown, fps, term>>

Progress == EnterGraphics \/ OpenScreen \/ SetupSignals \/ ChooseMode
            \/ PipeReady \/ ReadEvent \/ Drained

SplashNext == Progress \/ FrameTick \/ HandleTerm \/ SplashDies

\* The process runs, and epoll_wait reports each of its three descriptors.
SplashFair == WF_screen(Progress) /\ SF_screen(FrameTick) /\ SF_screen(HandleTerm)
=============================================================================
