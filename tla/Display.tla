------------------------------ MODULE Display -------------------------------
(***************************************************************************)
(* The process around lgp-compositor's event loop: the order in which main *)
(* acquires the log, epoll, the signalfd, the DRM device, the input        *)
(* devices, the scanout buffer and the listening socket, what each failure *)
(* path gives back, the cleanup at the end, and death without cleanup.     *)
(*                                                                         *)
(* held is what the program has acquired and not released; what is left in *)
(* it when main returns is left to the kernel.  sock is the socket's name  *)
(* in /run/lgp, which outlives the process.                                *)
(***************************************************************************)
EXTENDS Integers

VARIABLES phase, held, sock

display == <<phase, held, sock>>

Phases == {"start", "epoll", "drm", "connector", "input", "buffer", "crtc",
           "socket", "loop", "exit"}
Base   == {"log", "epoll", "signal"}
Device == {"drm", "master", "resources"}
Buffer == {"handle", "fb", "map"}
Resources == Base \cup Device \cup Buffer \cup {"input", "listen", "polled"}

Serving == phase = "loop"

InitDisplay == phase = "start" /\ held = {} /\ sock \in BOOLEAN

Advance(next, gained) ==
  phase' = next /\ held' = held \cup gained /\ UNCHANGED sock

\* main returns 1 after releasing these.
Fail(released) ==
  phase' = "exit" /\ held' = held \ released /\ UNCHANGED sock

LogInit ==
  /\ phase = "start"
  /\ Advance("epoll", {"log"}) \/ Fail({})

\* epoll_create1 and lgp_signal_init; if either failed only the log is closed.
\* A signalfd that cannot be registered is closed with the rest.
EpollInit ==
  /\ phase = "epoll"
  /\ \/ Advance("drm", {"epoll", "signal"})
     \/ Fail(Base)
     \/ \E got \in {{}, {"epoll"}, {"signal"}} :
           phase' = "exit" /\ held' = got /\ UNCHANGED sock

\* drm_device_open closes the card again if it cannot become master or has no
\* resources, so that there is nothing of the device to release.
DrmOpen ==
  /\ phase = "drm"
  /\ Advance("connector", Device) \/ Fail(Base)

\* drm_connector_setup finds no connector with a mode and a CRTC:
\* drm_device_close undoes the open.
ConnectorSetup ==
  /\ phase = "connector"
  /\ Advance("input", {}) \/ Fail(Device \cup Base)

\* lgp_input_init may find no device; the compositor goes on without.
InputInit ==
  /\ phase = "input"
  /\ \E found \in {{}, {"input"}} : Advance("buffer", found)

\* The labels at the end of kms_dumb_buffer_create: what is left of a buffer
\* that got this far.
err_destroy(got) == got \ {"handle"}
err_rmfb(got)    == err_destroy(got \ {"fb"})

\* Mutant of BufferCreate: a buffer that cannot be mapped goes to err_destroy.
BufferCreateKeepsFb ==
  /\ phase = "buffer"
  /\ \/ Advance("crtc", Buffer)
     \/ \E got \in {{}, {"handle"}, {"handle", "fb"}} :
          /\ phase' = "exit"
          /\ held' = (held \ (Device \cup Base)) \cup err_destroy(got)
          /\ UNCHANGED sock

\* kms_dumb_buffer_create: the handle, AddFB2 or AddFB, MAP_DUMB and mmap.
BufferCreate ==
  /\ phase = "buffer"
  /\ \/ Advance("crtc", Buffer)
     \/ \E got \in {{}, {"handle"}, {"handle", "fb"}} :
          /\ phase' = "exit"
          /\ held' = (held \ (Device \cup Base)) \cup
                     (CASE got = {} -> {}
                        [] got = {"handle"} -> err_destroy(got)
                        [] OTHER -> err_rmfb(got))
          /\ UNCHANGED sock

\* kms_crtc_commit; on failure kms_dumb_buffer_destroy and drm_device_close.
CrtcCommit ==
  /\ phase = "crtc"
  /\ Advance("socket", {}) \/ Fail(Buffer \cup Device \cup Base)

\* lgp_socket_server_init removes the name a crashed compositor left, then
\* binds and listens.  A failure closes the socket; it comes before the
\* unlink, between unlink and bind, or after bind, which leaves the new name.
\* main enters the loop even if the socket could not be added to epoll
\* ("polled").
SocketInit ==
  /\ phase = "socket"
  /\ \/ /\ phase' = "loop" /\ sock' = TRUE
        /\ \E added \in {{}, {"polled"}} : held' = held \cup {"listen"} \cup added
     \/ /\ phase' = "exit"
        /\ held' = held \ (Buffer \cup Device \cup Base)
        /\ sock' \in {sock, FALSE, TRUE}

\* SIGTERM or SIGINT on the signalfd clears running (SIGHUP does nothing).  No
\* handler reads running, so the events left in the batch might as well have
\* come before; then lgp_input_cleanup, the socket and its name, the buffer,
\* the device, the signalfd, epoll and the log.
CleanUp ==
  /\ phase = "loop"
  /\ phase' = "exit"
  /\ held' = held \ Resources
  /\ sock' = FALSE

\* The process is killed, or takes a fault: the kernel takes everything.
Die ==
  /\ phase # "exit"
  /\ phase' = "exit" /\ held' = {} /\ UNCHANGED sock

\* luna-init starts it again.
Respawn ==
  /\ phase = "exit"
  /\ phase' = "start" /\ held' = {} /\ UNCHANGED sock

StartUp == LogInit \/ EpollInit \/ DrmOpen \/ ConnectorSetup \/ InputInit
           \/ BufferCreate \/ CrtcCommit \/ SocketInit

-----------------------------------------------------------------------------

\* Clients can connect exactly while the compositor serves: the name in
\* /run/lgp is that of its socket, whatever an earlier compositor left there,
\* and it has the buffer and the device that a commit draws on
\* (lgp_socket_server_init and the order of main).
ServesWhatItHolds ==
  Serving => /\ sock
             /\ Resources \ {"input", "polled"} \subseteq held

\* However far main got, it returns with the scanout buffer, the DRM device
\* and the listening socket released in full; only the input devices and half
\* an event loop are left to the kernel.
ReturnsTheDisplay ==
  phase = "exit" => held \subseteq {"input", "epoll", "signal"}
=============================================================================
