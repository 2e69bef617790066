------------------------------ MODULE Startup -------------------------------
(***************************************************************************)
(* luna-init around its services: the early mounts, the log, the splash    *)
(* process, fstab.toml, the event loop's one hand-over of the screen at    *)
(* Stage 5, the emergency shell, and the way down through                  *)
(* mount_unmount_all.  What the services do meanwhile is Supervisor's; the *)
(* splash process is Splash's.                                             *)
(***************************************************************************)
EXTENDS Splash

CONSTANTS Early,        \* the mount points of mount_early, in order
          Critical,     \* CRITICAL_MOUNTPOINTS
          Single,       \* mounting twice answers EBUSY (proc, sysfs, devtmpfs)
          Parent,       \* the mount point each mount point lies in, or itself
          Fstabs,       \* the [[mount]] entries of fstab.toml
          MountMax      \* MOUNT_MAX_ENTRIES

MountPoints == DOMAIN Parent

\* An entry of fstab.toml that lacks a field.
Incomplete == "incomplete"

\* The kernel has mounted at most devtmpfs before luna-init runs, which answers
\* EBUSY.
ASSUME StartupAssumption ==
  /\ Early \in Seq(MountPoints) /\ Early # << >>
  /\ Fstabs \subseteq Seq(MountPoints \cup {Incomplete})
  /\ Critical \subseteq MountPoints
  /\ Single \subseteq MountPoints /\ "dev" \in Single
  /\ Parent \in [MountPoints -> MountPoints]
  /\ MountMax \in Nat

VARIABLES at,         \* the next thing main does
          fstab, i,   \* the table read at Stage 2; the index of a loop
          mounts,     \* the kernel's mounts at each mount point
          g_mounts,   \* what luna-init will unmount
          mine, full, \* what it mounted; whether the table overflowed
          log,        \* the file in use, whether it is open
          splash_pid, \* whether luna-init remembers the splash's pid
          sent,       \* the last percentage written
          timerless   \* the splash timer could not be created

init == <<at, fstab, i, mounts, g_mounts, mine, full, log, splash_pid, sent,
          timerless>>
startup == <<init, screen>>

StartupInit ==
  /\ SplashInit
  /\ at = "early" /\ i = 1
  /\ fstab \in Fstabs
  /\ mounts \in [MountPoints -> {0, 1}]
  /\ \A p \in MountPoints : mounts[p] = 1 => p = "dev"   \* DEVTMPFS_MOUNT
  /\ g_mounts = << >> /\ mine = {} /\ full = FALSE
  /\ log = [file |-> "none", open |-> FALSE, failed |-> FALSE]
  /\ splash_pid = FALSE /\ sent = -1 /\ timerless = FALSE

-----------------------------------------------------------------------------

\* track_mount: beyond the table a mount is forgotten.
TrackMount(p) ==
  /\ g_mounts' = IF Len(g_mounts) >= MountMax THEN g_mounts
                 ELSE Append(g_mounts, p)
  /\ full' = (full \/ Len(g_mounts) >= MountMax)
  /\ mine' = mine \cup {p}

\* do_mount succeeds, among others because the file system is already there.
Mounts(p) ==
  /\ mounts' = IF p \in Single /\ mounts[p] > 0 THEN mounts
               ELSE [mounts EXCEPT ![p] = @ + 1]
  /\ TrackMount(p)

\* mkdir or mount fails.
MountFails == UNCHANGED <<mounts, g_mounts, mine, full>>

\* One call of mount_early.  main does not look at its result, so a failure
\* of a critical mount only skips the rest.
MountEarly ==
  /\ at = "early"
  /\ \/ /\ Mounts(Early[i])
        /\ i' = i + 1
        /\ at' = IF i = Len(Early) THEN "log" ELSE at
     \/ /\ MountFails
        /\ i' = i + 1
        /\ at' = IF i = Len(Early) \/ Early[i] \in Critical THEN "log" ELSE at
  /\ UNCHANGED <<fstab, log, splash_pid, sent, timerless, screen>>

\* luna_log_init: without a boot log entries go to stderr.
LogInit ==
  /\ at = "log" /\ at' = "splash"
  /\ \E ok \in BOOLEAN : log' = [file |-> "boot", open |-> ok, failed |-> ~ok]
  /\ UNCHANGED <<fstab, i, mounts, g_mounts, mine, full, splash_pid, sent,
                 timerless, screen>>

\* splash_start; without a pipe or a process luna-init boots without a splash.
SplashStart ==
  /\ at = "splash" /\ at' = "epoll"
  /\ \/ /\ splash' = "forked" /\ wend' = TRUE /\ splash_pid' = TRUE
        /\ UNCHANGED <<tty, tty_fd, pipe, buffer, last_pct, shown, fps,
                       term, killed>>
     \/ UNCHANGED <<splash_pid, screen>>
  /\ UNCHANGED <<fstab, i, mounts, g_mounts, mine, full, log, sent, timerless>>

\* splash_update: one write, lost if nobody reads.
SplashUpdate(percent) ==
  /\ IF wend
       THEN /\ sent' = percent
            /\ pipe' = IF Alive
                         THEN pipe \o [k \in 1 .. MsgLen |-> <<percent, k>>]
                         ELSE pipe
       ELSE UNCHANGED <<sent, pipe>>
  /\ UNCHANGED <<splash, tty, tty_fd, wend, buffer, last_pct, shown,
                 fps, term, killed>>

\* panic_drop_to_shell replaces PID 1 by a shell, or waits for ever.
Panic ==
  /\ at' = "panic"
  /\ UNCHANGED <<fstab, i, mounts, g_mounts, mine, full, log, splash_pid, sent,
                 timerless, screen>>

\* Stage 1: epoll and signalfd; then Stage 2 announces itself.
EventLoopInit ==
  /\ at = "epoll"
  /\ \/ Panic
     \/ /\ at' = "fstab" /\ i' = 1
        /\ SplashUpdate(20)
        /\ UNCHANGED <<fstab, mounts, g_mounts, mine, full, log, splash_pid,
                       timerless>>

\* mount_fstab: a file that cannot be parsed and a critical mount that fails
\* end in the emergency shell; an incomplete entry and any other failure are
\* passed over.
MountFstab ==
  /\ at = "fstab"
  /\ \/ /\ i = 1
        /\ Panic
     \/ /\ i <= Len(fstab)
        /\ \/ fstab[i] # Incomplete /\ Mounts(fstab[i])
           \/ fstab[i] \notin Critical /\ MountFails
        /\ i' = i + 1
        /\ UNCHANGED <<at, fstab, log, splash_pid, sent, timerless, screen>>
     \/ /\ i <= Len(fstab)
        /\ fstab[i] \in Critical
        /\ Panic
     \/ /\ i > Len(fstab)
        /\ at' = "hooks"
        /\ UNCHANGED <<fstab, i, mounts, g_mounts, mine, full, log, splash_pid,
                       sent, timerless, screen>>

\* Stage 3 (host name and entropy, whose failures are only logged) and the
\* start of Stage 4.
EarlyHooks ==
  /\ at \in {"hooks", "load"}
  /\ \/ at = "hooks" /\ at' = "load" /\ SplashUpdate(40)
     \/ at = "load" /\ at' = "services" /\ SplashUpdate(60)
  /\ UNCHANGED <<fstab, i, mounts, g_mounts, mine, full, log, splash_pid,
                 timerless>>

\* Stage 4: no services, a graph that cannot be built, or supervisor_start_all.
StartServices ==
  /\ at = "services"
  /\ \/ Panic
     \/ /\ at' = "loop"
        /\ \/ SplashUpdate(80)
           \/ UNCHANGED <<sent, screen>>
        /\ UNCHANGED <<fstab, i, mounts, g_mounts, mine, full, log, splash_pid,
                       timerless>>

-----------------------------------------------------------------------------

Waiting == at \in {"loop", "armed", "idle"}

\* The general reaper meets luna-splash among the dead.
ReapSplash ==
  /\ Waiting /\ splash = "zombie"
  /\ splash' = "reaped"
  /\ UNCHANGED <<init, tty, tty_fd, pipe, wend, buffer, last_pct, shown,
                 fps, term, killed>>

\* The services have settled: the last message, and the timer of 3.5 seconds,
\* or a sleep of as long in the handler.
BootComplete ==
  /\ at = "loop"
  /\ SplashUpdate(100)
  /\ \/ at' = "armed" /\ UNCHANGED timerless
     \/ at' = "stop" /\ timerless' = TRUE
  /\ UNCHANGED <<fstab, i, mounts, g_mounts, mine, full, log, splash_pid>>

SplashTimer ==
  /\ at = "armed" /\ at' = "stop"
  /\ UNCHANGED <<fstab, i, mounts, g_mounts, mine, full, log, splash_pid, sent,
                 timerless, screen>>

\* splash_stop closes the pipe and, if it has a pid, sends SIGTERM, which is
\* deadly until luna-splash has blocked it.
SplashStop ==
  /\ at = "stop" /\ at' = "wait"
  /\ wend' = FALSE
  /\ IF splash_pid /\ splash \in {"forked", "graphics", "unmasked"}
       THEN /\ splash' = "zombie" /\ killed' = TRUE /\ tty_fd' = FALSE
            /\ UNCHANGED term
       ELSE /\ term' = (splash_pid /\ Alive)
            /\ UNCHANGED <<splash, killed, tty_fd>>
  /\ UNCHANGED <<tty, pipe, buffer, last_pct, shown, fps, fstab, i,
                 mounts, g_mounts, mine, full, log, splash_pid, sent, timerless>>

\* Mutant of SplashWait: waitpid is repeated until it yields the splash's pid,
\* which a process that was reaped before never does.
SplashWaitForPid ==
  /\ at = "wait"
  /\ splash = "zombie" /\ splash' = "reaped"
  /\ at' = IF timerless THEN "idle" ELSE "graphics"
  /\ splash_pid' = FALSE
  /\ UNCHANGED <<tty, tty_fd, pipe, wend, buffer, last_pct, shown, fps,
                 term, killed, fstab, i, mounts, g_mounts, mine, full, log,
                 sent, timerless>>

\* waitpid: at once if there is no pid or it was reaped before (ECHILD).
SplashWait ==
  /\ at = "wait"
  /\ ~splash_pid \/ ~Alive
  /\ splash' = IF splash = "zombie" THEN "reaped" ELSE splash
  /\ splash_pid' = FALSE
  /\ at' = IF timerless THEN "idle" ELSE "graphics"
  /\ UNCHANGED <<tty, tty_fd, pipe, wend, buffer, last_pct, shown, fps,
                 term, killed, fstab, i, mounts, g_mounts, mine, full, log,
                 sent, timerless>>

\* luna_log_switch_to_runtime: the boot log is closed, the runtime log may fail
\* to open.
SwitchToRuntime ==
  \E ok \in BOOLEAN : log' = [file |-> "runtime", open |-> ok, failed |-> ~ok]

\* luna_log_close, on whichever file is open.
LogClose == log' = [log EXCEPT !.open = FALSE]

\* luna_log and log_write_entry: where an entry goes.  From Stage 5 on only WARN
\* and worse is kept.
Sink(level) ==
  IF log.file = "runtime" /\ level \in {"DEBUG", "INFO"} THEN "discarded"
  ELSE IF log.open THEN log.file ELSE "stderr"

\* The rest of Stage 5: lgp-compositor, or a shell on tty1 if it cannot start,
\* and the runtime log.
Graphics ==
  /\ at = "graphics" /\ at' = "idle"
  /\ SwitchToRuntime
  /\ UNCHANGED <<fstab, i, mounts, g_mounts, mine, full, splash_pid, sent,
                 timerless, screen>>

\* shutdown_run, on a request or a signal.
Shutdown ==
  /\ Waiting
  /\ at' = "unmount" /\ i' = Len(g_mounts)
  /\ UNCHANGED <<fstab, mounts, g_mounts, mine, full, log, splash_pid, sent,
                 timerless, screen>>

\* epoll_wait fails: main closes the log and calls shutdown_run.
EventLoopFails ==
  /\ Waiting
  /\ at' = "fallen" /\ i' = Len(g_mounts)
  /\ LogClose
  /\ UNCHANGED <<fstab, mounts, g_mounts, mine, full, splash_pid, sent,
                 timerless, screen>>

\* umount2 with MNT_DETACH takes what is mounted below along; on a mount point
\* that has nothing mounted it fails.
Detached(p) ==
  [q \in MountPoints |->
     IF q = p /\ mounts[p] > 0 THEN mounts[p] - 1
     ELSE IF Parent[q] = p /\ q # p /\ mounts[p] > 0 THEN 0 ELSE mounts[q]]

\* Mutant of UnmountAll: the loop ends before index 0.
UnmountAllButFirst ==
  /\ at \in {"unmount", "fallen"}
  /\ \/ /\ i > 1
        /\ mounts' = Detached(g_mounts[i]) /\ i' = i - 1
        /\ UNCHANGED <<at, log>>
     \/ /\ i <= 1 /\ at' = "off"
        /\ LogClose
        /\ UNCHANGED <<mounts, i>>
  /\ UNCHANGED <<fstab, g_mounts, mine, full, splash_pid, sent, timerless,
                 screen>>

\* mount_unmount_all, last mount first; then luna_log_close, sync and reboot.
UnmountAll ==
  /\ at \in {"unmount", "fallen"}
  /\ \/ /\ i > 0
        /\ mounts' = Detached(g_mounts[i]) /\ i' = i - 1
        /\ UNCHANGED <<at, log>>
     \/ /\ i = 0 /\ at' = "off"
        /\ LogClose
        /\ UNCHANGED <<mounts, i>>
  /\ UNCHANGED <<fstab, g_mounts, mine, full, splash_pid, sent, timerless,
                 screen>>

Luna == MountEarly \/ LogInit \/ SplashStart \/ EventLoopInit \/ MountFstab
        \/ EarlyHooks \/ StartServices \/ ReapSplash \/ BootComplete
        \/ SplashTimer \/ SplashStop \/ SplashWait \/ Graphics \/ Shutdown
        \/ EventLoopFails \/ UnmountAll

StartupNext ==
  \/ Luna
  \/ SplashNext /\ at # "off" /\ UNCHANGED init

\* splash_stop's waitpid is the one place where luna-init waits for a process.
StartupFair == WF_startup(SplashWait) /\ SplashFair

-----------------------------------------------------------------------------

\* A shutdown is orderly.  What luna-init mounted, at boot or from fstab.toml,
\* twice or once, is gone when the machine goes down, unless the table could
\* not hold it: a mount point that answered EBUSY is in the table as well and
\* its second unmount is allowed to fail (track_mount, mount_unmount_all).  The
\* warnings on the way, such as a file system that cannot be unmounted, go to
\* the log file in use and not to a console nobody reads, if the file could be
\* opened: luna_log_close comes after the last unmount ("after all components
\* that may still call LUNA_* log macros have finished running").
ShutdownIsOrderly ==
  /\ at = "off" /\ ~full => \A p \in mine : mounts[p] = 0
  /\ at = "unmount" => Sink("WARN") # "stderr" \/ log.failed

\* When Stage 5 starts the compositor, the console is back in text mode on
\* every path through luna-splash, whether it ran, found no framebuffer or
\* could not be started; only a splash that died by force may have left it in
\* graphics ("Wait synchronously so KD_TEXT is restored before we continue").
TextAtHandOver ==
  at = "graphics" => tty = "text" \/ killed

\* A percentage luna-init has announced comes to be shown, by film and by still
\* picture alike, unless luna-splash ends or a later one is sent: chunked reads
\* neither lose a message nor tear one (ipc_read_event).  A film whose frame
\* timer cannot be set (one frame per second) is left out: it stands still and
\* shows nothing.
ProgressIsShown ==
  \A p \in {20, 40, 60, 80, 100} :
    sent = p /\ splash = "loop" /\ (frame_mode => FrameTimerRuns)
      ~> shown = p \/ sent # p \/ ~Alive

\* splash_stop returns: luna-splash answers SIGTERM in whatever state it is, and
\* if it is already dead, reaped or not, waitpid does not block.
StopReturns == at = "wait" ~> at # "wait"

\* The emergency shell is on a console that shows text (panic.h, "Drop to
\* emergency busybox shell on TTY1").
PanicIsVisible == at = "panic" => tty = "text"
=============================================================================
