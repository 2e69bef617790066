-------------------------------- MODULE Ctl ---------------------------------
(***************************************************************************)
(* The conversation between luna-init-ctl and luna-init's control socket:  *)
(* callers connect, write one request and read once, while the event loop  *)
(* accepts one connection, reads it without waiting, does what it says,    *)
(* writes a line per handler and closes.  What a handler does to a service *)
(* is reduced to whether it has a process; module Supervisor has the rest. *)
(***************************************************************************)
EXTENDS Integers, Sequences, Functions

CONSTANTS
  Callers,    \* runs of luna-init-ctl
  Loaded,     \* services in the table
  Asked       \* command lines to try: [cmd, name], name "" for none

VARIABLES
  caller,   \* per caller: where it is, and its exit code
  asks,     \* per caller: its command line
  backlog,  \* connections not accepted yet
  serving,  \* the connection being served, or none
  handlers, \* the handlers its request still has to go through
  replies,  \* per caller: the lines written to it, "ok" for "ok":true
  closed,   \* connections luna-init has closed
  done,     \* per caller: the answers of the handlers that ran for it
  svc,      \* per service: "process", "waiting" for a restart, or "stopped"
  socket    \* whether there is a control socket, or luna-init has shut down

ctl == <<caller, asks, backlog, serving, handlers, replies, closed, done, svc, socket>>

NoCaller == "no caller"

ASSUME CtlAssumption == NoCaller \notin Callers

CtlInit ==
  /\ caller = [c \in Callers |-> [at |-> "start", exit |-> "none"]]
  /\ asks \in [Callers -> Asked]
  /\ backlog = << >> /\ serving = NoCaller /\ handlers = << >> /\ closed = {}
  /\ replies = [c \in Callers |-> << >>] /\ done = [c \in Callers |-> << >>]
  /\ svc \in [Loaded -> {"process", "waiting", "stopped"}]
  /\ socket \in {"none", "listening"}

Exits(c, code) == caller' = [caller EXCEPT ![c] = [at |-> "done", exit |-> code]]
Goes(c, where) == caller' = [caller EXCEPT ![c].at = where]

NeedsName == {"start", "stop", "restart", "reload"}
Known     == NeedsName \cup {"list", "status", "shutdown", "reboot"}

\* luna-init-ctl's main and connect_to_daemon: a bad command line or no socket
\* ends it with 1.
Call(c) ==
  /\ caller[c].at = "start"
  /\ IF \/ asks[c].cmd \notin Known \/ (asks[c].cmd \in NeedsName /\ asks[c].name = "")
        \/ socket # "listening"
     THEN Exits(c, "1") /\ UNCHANGED backlog
     ELSE Goes(c, "connected") /\ backlog' = Append(backlog, c)
  /\ UNCHANGED <<asks, serving, handlers, replies, closed, done, svc, socket>>

\* send_command's write.  If luna-init has closed the connection it is SIGPIPE.
WriteRequest(c) ==
  /\ caller[c].at = "connected"
  /\ IF c \in closed THEN Exits(c, "SIGPIPE") ELSE Goes(c, "sent")
  /\ UNCHANGED <<asks, backlog, serving, handlers, replies, closed, done, svc, socket>>

\* One read takes the lines that are there; the code is that of an "ok":true
\* anywhere among them, and 255 for a connection closed without a line.
ExitCode(lines) ==
  IF lines = << >> THEN "255" ELSE IF "ok" \in Range(lines) THEN "0" ELSE "1"

ReadReply(c) ==
  /\ caller[c].at = "sent"
  /\ replies[c] # << >> \/ c \in closed
  /\ Exits(c, ExitCode(replies[c]))
  /\ UNCHANGED <<asks, backlog, serving, handlers, replies, closed, done, svc, socket>>

\* dispatch: restart is stop and then start, with a line from each.
HandlersOf(request) ==
  IF request.cmd = "restart" THEN <<"stop", "start">> ELSE <<request.cmd>>

\* Mutant of CtlAccept: the accepted connection blocks until there is something to
\* read.
CtlAcceptBlocking ==
  /\ socket = "listening" /\ serving = NoCaller /\ backlog # << >>
  /\ caller[backlog[1]].at # "connected"
  /\ serving' = backlog[1] /\ handlers' = HandlersOf(asks[backlog[1]])
  /\ backlog' = Tail(backlog)
  /\ UNCHANGED <<caller, asks, replies, closed, done, svc, socket>>

\* ctl_server_accept up to dispatch.  A request that has not arrived yet is not
\* waited for: the connection is closed.
CtlAccept ==
  /\ socket = "listening" /\ serving = NoCaller /\ backlog # << >>
  /\ backlog' = Tail(backlog)
  /\ IF caller[backlog[1]].at = "connected"
     THEN closed' = closed \cup {backlog[1]} /\ UNCHANGED <<serving, handlers>>
     ELSE /\ serving' = backlog[1] /\ handlers' = HandlersOf(asks[backlog[1]])
          /\ UNCHANGED closed
  /\ UNCHANGED <<caller, asks, replies, done, svc, socket>>

OkField(ok) == IF ok THEN "ok" ELSE "error"

\* A handler has come to its end and written its line.
Answer(ok) ==
  /\ handlers' = Tail(handlers)
  /\ replies' = [replies EXCEPT ![serving] = Append(@, OkField(ok))]
  /\ done' = [done EXCEPT ![serving] = Append(@, OkField(ok))]
  /\ UNCHANGED <<caller, asks, backlog, serving, closed>>

Handling(h) == handlers # << >> /\ handlers[1] = h
Name == asks[serving].name

\* handle_list and handle_status; without a name status is of the whole.
HandleReport ==
  /\ Handling("list") \/ Handling("status")
  /\ Answer(handlers[1] = "list" \/ Name = "" \/ Name \in Loaded)
  /\ UNCHANGED <<svc, socket>>

\* handle_start and supervisor_start_one: the pump may start a process, leave
\* the service waiting for its dependencies, or fail to spawn it.
HandleStart ==
  /\ Handling("start")
  /\ \/ Name \notin Loaded /\ Answer(FALSE) /\ UNCHANGED svc
     \/ Name \in Loaded /\ svc[Name] = "process" /\ Answer(TRUE) /\ UNCHANGED svc
     \/ /\ Name \in Loaded /\ svc[Name] # "process"
        /\ \E now \in {"process", "waiting", "stopped"} :
             Answer(now # "stopped") /\ svc' = [svc EXCEPT ![Name] = now]
  /\ UNCHANGED socket

\* Mutant of HandleStop: it returns without its line if there is no process.
HandleStopSilent ==
  /\ Handling("stop")
  /\ IF Name \in Loaded /\ svc[Name] = "process"
     THEN Answer(TRUE) /\ svc' = [svc EXCEPT ![Name] = "stopped"]
     ELSE /\ handlers' = Tail(handlers) /\ done' = [done EXCEPT ![serving] = Append(@, "ok")]
          /\ UNCHANGED <<caller, asks, backlog, serving, closed, replies, svc>>
  /\ UNCHANGED socket

\* handle_stop says ok whatever supervisor_stop_one met: a service that waits
\* for its restart goes on waiting.
HandleStop ==
  /\ Handling("stop")
  /\ Answer(TRUE)
  /\ svc' = [s \in Loaded |-> IF s = Name /\ svc[s] = "process" THEN "stopped" ELSE svc[s]]
  /\ UNCHANGED socket

HandleReload ==
  /\ Handling("reload")
  /\ Answer(Name \in Loaded /\ svc[Name] = "process")
  /\ UNCHANGED <<svc, socket>>

\* shutdown and reboot answer first; shutdown_run does not return.
HandleShutdown ==
  /\ Handling("shutdown") \/ Handling("reboot")
  /\ Answer(TRUE)
  /\ svc' = [s \in Loaded |-> "stopped"] /\ socket' = "shut down"

CtlClose ==
  /\ serving # NoCaller /\ handlers = << >>
  /\ closed' = closed \cup {serving} /\ serving' = NoCaller
  /\ UNCHANGED <<caller, asks, backlog, handlers, replies, done, svc, socket>>

\* A process exits and is to be started again, and is.
ServiceMoves(s) ==
  /\ socket = "listening" /\ serving = NoCaller
  /\ svc[s] # "stopped"
  /\ svc' = [svc EXCEPT ![s] = IF @ = "process" THEN "waiting" ELSE "process"]
  /\ UNCHANGED <<caller, asks, backlog, serving, handlers, replies, closed, done, socket>>

LunaInit == CtlAccept \/ HandleReport \/ HandleStart \/ HandleStop \/ HandleReload
            \/ HandleShutdown \/ CtlClose

CtlNext ==
  \/ \E c \in Callers : Call(c) \/ WriteRequest(c) \/ ReadReply(c)
  \/ LunaInit
  \/ \E s \in Loaded : ServiceMoves(s)

CtlFair == WF_ctl(LunaInit) /\ \A c \in Callers : WF_ctl(ReadReply(c))

-----------------------------------------------------------------------------

\* What luna-init-ctl tells its caller is what happened.  One that was refused,
\* cut off or left without an answer may safely ask again, since nothing was
\* done for it: this is what makes it harmless that ctl_server_accept drops
\* requests that arrive a moment late.  Otherwise exit code 0 means the handler
\* ran and succeeded and 1 that it did not, except for a restart, which exits
\* with 0 as soon as the stop has answered.
CallersAreToldTheTruth ==
  \A c \in Callers :
    /\ \/ caller[c].exit \in {"SIGPIPE", "255"}
       \/ caller[c].exit = "1" /\ replies[c] = << >>
       => done[c] = << >>
    /\ asks[c].cmd # "restart" =>
         /\ caller[c].exit = "0" => done[c] = <<"ok">>
         /\ caller[c].exit = "1" => done[c] \in {<<"error">>, << >>}

\* A caller whose request was written gets its answer or is cut off, unless the
\* machine goes down: no other caller, not even one that connects and never
\* writes, holds up the event loop.
RequestsEnd ==
  \A c \in Callers : (caller[c].at = "sent") ~> (caller[c].at = "done" \/ socket = "shut down")
=============================================================================
