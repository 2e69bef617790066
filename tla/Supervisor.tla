----------------------------- MODULE Supervisor -----------------------------
(***************************************************************************)
(* luna-init after Stage 3: the service table, the supervisor, the reaper, *)
(* the control commands, reload, Stage 5 and shutdown, together with the   *)
(* child processes as the kernel sees them.                                *)
(*                                                                         *)
(* luna-init is one thread.  pc says where it is: "loop" is epoll_wait,    *)
(* every other value is a point inside a handler at which child processes  *)
(* and clocks may have moved on.  A handler runs from "loop" to "end"; the *)
(* boot-complete test then closes the batch of events.                     *)
(*                                                                         *)
(* Time is abstracted to the comparisons the code makes with it:           *)
(* n \in delayed is now < scheduled_start_ms, whether a readiness timeout  *)
(* has passed is a choice of each pump.                                    *)
(***************************************************************************)
EXTENDS DepGraph

CONSTANTS
  Pids,        \* process ids the kernel hands out, reused once reaped
  NoPid,       \* pid field 0: no process
  NoName,      \* runs[p] of a free pid; target outside a stop
  Dirs,        \* tables the services directory can load as, in readdir order
  Compositor,  \* "lgp-compositor"
  Shell,       \* "luna-shell"
  Policy,      \* restart_policy
  Attempts,    \* restart_attempts
  Method,      \* ready_method; "probe" stands for file, socket and http
  MaxCount,    \* SERVICE_MAX_COUNT
  Commands,    \* requests the operator issues in this instance
  MaxOps       \* bound on the number of those requests

ASSUME SupervisorAssumption ==
  /\ NoPid \notin Pids
  /\ NoName \notin Names
  /\ {Compositor, Shell} \subseteq Names
  /\ Policy \in [Names -> {"never", "always", "on-failure"}]
  /\ Attempts \in [Names -> Nat]
  /\ Method \in [Names -> {"none", "probe", "signal"}]
  /\ MaxCount \in Nat /\ MaxOps \in Nat
  /\ \A t \in Dirs : t \in Tables /\ Len(t) <= MaxCount

VARIABLES
  table,      \* names in g_services, in index order
  state,      \* service_state_t, "UNLOADED" for names not in the table
  pid,        \* the pid field
  restarts,   \* restart_count
  delayed,    \* services with now < scheduled_start_ms
  deps,       \* dep_indices, as left by the last depgraph_build
  order,      \* what depgraph_topo_sort makes of g_edge, << >> for -1
  sigready,   \* the table positions whose g_signal_ready flag is set
  os,         \* each pid: "free", "alive", "dying" (SIGKILL sent), or a zombie
              \* that exited with 0 ("ok") or otherwise ("err")
  runs,       \* the service a process was spawned for
  chld,       \* a SIGCHLD is pending on the signalfd
  usr1,       \* sender of the pending SIGUSR1, NoPid if none
  pc, then,   \* where luna-init is; where the callee returns to
  target,     \* the service a stop is waiting for
  queue,      \* names a loop over the services has still to visit
  stage,      \* "boot", "armed" (splash timer set), "graphics", "fallback"
  splash,     \* luna-splash still owns the display
  ops,        \* operator requests issued so far
  spawns,     \* history: spawns since the last operator start or load
  signalled   \* history: unreaped processes that sent SIGUSR1

tableVars   == <<table, deps, order>>
serviceVars == <<tableVars, state, pid, restarts, delayed, sigready, spawns>>
kernelVars  == <<os, runs, chld, usr1, signalled>>
loopVars    == <<pc, then, target, queue, stage, splash, ops>>
vars == <<serviceVars, kernelVars, loopVars>>

States == {"UNLOADED", "PENDING", "STARTING", "RUNNING", "DEGRADED",
           "STOPPING", "STOPPED", "FAILED"}
PCs    == {"loop", "ready", "spawn", "wait", "restart", "shell", "reap",
           "end", "down", "off"}
Zombies == {"ok", "err"}

InTable == Loaded(table)
Slot(n) == CHOOSE i \in 1..Len(table) : table[i] = n

-----------------------------------------------------------------------------
(* Child processes and clocks.                                             *)

\* A process exits; its status is 0 or not.  The kernel raises SIGCHLD.
Exit(p) ==
  /\ pc # "off"
  /\ \/ os[p] = "alive" /\ \E how \in Zombies : os' = [os EXCEPT ![p] = how]
     \/ os[p] = "dying" /\ os' = [os EXCEPT ![p] = "err"]
  /\ chld' = TRUE
  /\ UNCHANGED <<serviceVars, runs, usr1, signalled, loopVars>>

\* A process tells PID 1 that it is ready.  SIGUSR1 does not queue: while one
\* is pending, another is dropped.
SendReady(p) ==
  /\ pc # "off"
  /\ os[p] = "alive" /\ Method[runs[p]] = "signal" /\ p \notin signalled
  /\ signalled' = signalled \cup {p}
  /\ usr1' = IF usr1 = NoPid THEN p ELSE usr1
  /\ UNCHANGED <<serviceVars, os, runs, chld, loopVars>>

\* restart_delay_ms passes.
DelayPasses(n) ==
  /\ pc # "off" /\ n \in delayed
  /\ delayed' = delayed \ {n}
  /\ UNCHANGED <<tableVars, state, pid, restarts, sigready, spawns,
                 kernelVars, loopVars>>

\* A pid is reaped and becomes free for the next fork.
Free(p) ==
  /\ os' = [os EXCEPT ![p] = "free"]
  /\ runs' = [runs EXCEPT ![p] = NoName]
  /\ signalled' = signalled \ {p}

-----------------------------------------------------------------------------
(* supervisor_pump.                                                        *)

Starting == {n \in InTable : state[n] = "STARTING"}

\* STARTING services whose readiness test can succeed in this pump: no test,
\* a file, socket or http probe (decided outside), or the SIGUSR1 flag.
MayBeReady ==
  {n \in Starting : Method[n] \in {"none", "probe"} \/ Slot(n) \in sigready}

\* The start order without what waits for its restart delay.  A pump reads the
\* clock once, so a delay that passes while it spawns is seen by the next one.
Due == SelectSeq(order, LAMBDA n : n \notin delayed)

\* Mutant of CheckReadiness: a service that is not ready is looked at again
\* for ever, its timeout never expires.
CheckReadinessForEver ==
  /\ pc = "ready"
  /\ \E ready \in SUBSET MayBeReady :
       /\ {n \in Starting : Method[n] = "none"} \subseteq ready
       /\ state' = [n \in Names |-> IF n \in ready THEN "RUNNING" ELSE state[n]]
  /\ queue' = Due
  /\ pc' = "spawn"
  /\ UNCHANGED <<tableVars, pid, restarts, delayed, sigready, spawns,
                 kernelVars, then, target, stage, splash, ops>>

\* Step 1.  A service found ready is RUNNING; of the others, those whose
\* timeout has expired by the pump's clock are DEGRADED, their process left
\* alone.  The readiness test reads the clock again and fails once the timeout
\* is past, so a service that is ready in time may still not be found ready.
CheckReadiness ==
  /\ pc = "ready"
  /\ \E ready \in SUBSET MayBeReady : \E expired \in SUBSET (Starting \ ready) :
       /\ {n \in Starting : Method[n] = "none"} \subseteq ready
       /\ state' = [n \in Names |-> IF n \in ready THEN "RUNNING"
                                    ELSE IF n \in expired THEN "DEGRADED"
                                    ELSE state[n]]
  /\ queue' = Due
  /\ pc' = "spawn"
  /\ UNCHANGED <<tableVars, pid, restarts, delayed, sigready, spawns,
                 kernelVars, then, target, stage, splash, ops>>

\* Mutant of Startable: a dependency that was merely spawned will do.
StartableAfterSpawn ==
  {n \in Names : /\ state[n] = "PENDING"
                 /\ n \notin delayed
                 /\ \A d \in deps[n] :
                      state[d] \in {"STARTING", "RUNNING", "DEGRADED"}}

\* Step 2 starts a service when it is due and all its after-dependencies are
\* RUNNING or DEGRADED.
Startable ==
  {n \in Names : /\ state[n] = "PENDING"
                 /\ n \notin delayed
                 /\ \A d \in deps[n] : state[d] \in {"RUNNING", "DEGRADED"}}

\* n is the next name of the queue in S; those before it are skipped.
NextIs(n, S) ==
  \E k \in 1..Len(queue) :
     /\ n = queue[k] /\ n \in S
     /\ \A j \in 1..(k - 1) : queue[j] \notin S
     /\ queue' = SubSeq(queue, k + 1, Len(queue))

NoneLeft(S) == \A k \in 1..Len(queue) : queue[k] \notin S

\* spawn_service: fork and exec.  The pid field is overwritten.
SpawnService(n, p) ==
  /\ pc = "spawn" /\ NextIs(n, Startable)
  /\ os[p] = "free"
  /\ os' = [os EXCEPT ![p] = "alive"]
  /\ runs' = [runs EXCEPT ![p] = n]
  /\ pid' = [pid EXCEPT ![n] = p]
  /\ state' = [state EXCEPT ![n] = "STARTING"]
  /\ spawns' = [spawns EXCEPT ![n] = @ + 1]
  /\ UNCHANGED <<tableVars, restarts, delayed, sigready, chld, usr1, signalled,
                 pc, then, target, stage, splash, ops>>

\* spawn_service: the binary is missing or fork fails.
SpawnFails(n) ==
  /\ pc = "spawn" /\ NextIs(n, Startable)
  /\ state' = [state EXCEPT ![n] = "DEGRADED"]
  /\ UNCHANGED <<tableVars, pid, restarts, delayed, sigready, spawns,
                 kernelVars, pc, then, target, stage, splash, ops>>

PumpReturns ==
  /\ pc = "spawn" /\ NoneLeft(Startable)
  /\ pc' = then
  /\ queue' = << >>
  /\ UNCHANGED <<serviceVars, kernelVars, then, target, stage, splash, ops>>

-----------------------------------------------------------------------------
(* supervisor_start_one and supervisor_stop_one, and their callers.        *)

\* Returns at once when the service is unknown, RUNNING or STARTING; else
\* resets it to PENDING and pumps.  The pid field is left as it is.
StartOne(n, return) ==
  IF n \notin InTable \/ state[n] \in {"RUNNING", "STARTING"}
    THEN /\ pc' = return
         /\ UNCHANGED <<state, restarts, delayed, spawns, then>>
    ELSE /\ state' = [state EXCEPT ![n] = "PENDING"]
         /\ restarts' = [restarts EXCEPT ![n] = 0]
         /\ delayed' = delayed \ {n}
         /\ spawns' = [spawns EXCEPT ![n] = 0]
         /\ pc' = "ready" /\ then' = return

\* Returns at once when the service is unknown or has no process; else sends
\* the stop signal and waits.
StopOne(n, return) ==
  IF n \notin InTable \/ pid[n] = NoPid
    THEN /\ pc' = return
         /\ UNCHANGED <<state, then>>
    ELSE /\ state' = [state EXCEPT ![n] = "STOPPING"]
         /\ pc' = "wait" /\ then' = return

\* The polled waitpid finds the process gone and reaps it.
StopReaped ==
  /\ pc = "wait" /\ os[pid[target]] \in Zombies
  /\ Free(pid[target])
  /\ state' = [state EXCEPT ![target] = "STOPPED"]
  /\ pid' = [pid EXCEPT ![target] = NoPid]
  /\ pc' = then
  /\ UNCHANGED <<tableVars, restarts, delayed, sigready, spawns, chld, usr1,
                 then, target, queue, stage, splash, ops>>

\* stop_timeout_ms passes: SIGKILL, one waitpid that does not block, and the
\* service is STOPPED whether or not that waitpid reaped the process.
StopTimesOut ==
  /\ pc = "wait" /\ os[pid[target]] = "alive"
  /\ \/ /\ os' = [os EXCEPT ![pid[target]] = "dying"]
        /\ UNCHANGED <<runs, signalled, chld>>
     \/ /\ Free(pid[target])
        /\ chld' = TRUE
  /\ state' = [state EXCEPT ![target] = "STOPPED"]
  /\ pid' = [pid EXCEPT ![target] = NoPid]
  /\ pc' = then
  /\ UNCHANGED <<tableVars, restarts, delayed, sigready, spawns, usr1,
                 then, target, queue, stage, splash, ops>>

\* An operator request arrives on the control socket or as a signal.
Request(c) ==
  /\ pc = "loop" /\ c \in Commands /\ ops < MaxOps
  /\ ops' = ops + 1

\* handle_start
CtlStart(n) ==
  /\ Request("start")
  /\ StartOne(n, "end")
  /\ UNCHANGED <<tableVars, pid, sigready, kernelVars, target, queue, stage,
                 splash>>

\* handle_stop, and the first half of "restart", which goes on to "restart"
CtlStop(n) ==
  /\ \/ Request("stop") /\ StopOne(n, "end")
     \/ Request("restart") /\ StopOne(n, "restart")
  /\ target' = n
  /\ UNCHANGED <<tableVars, pid, restarts, delayed, sigready, spawns,
                 kernelVars, queue, stage, splash>>

\* the second half of "restart": handle_start
CtlRestart ==
  /\ pc = "restart"
  /\ StartOne(target, "end")
  /\ UNCHANGED <<tableVars, pid, sigready, kernelVars, target, queue, stage,
                 splash, ops>>

\* SIGHUP or a change in the services directory: service_load_all reads every
\* entry afresh (state PENDING, pid 0) and depgraph_build's result is ignored.
Reload ==
  /\ Request("reload")
  /\ \E t \in Dirs :
       /\ table' = t /\ deps' = [n \in Names |-> Deps(t, n)] /\ order' = TopoSort(t)
       /\ state' = [n \in Names |-> IF n \in Loaded(t) THEN "PENDING"
                                                       ELSE "UNLOADED"]
  /\ pid' = [n \in Names |-> NoPid]
  /\ restarts' = [n \in Names |-> 0]
  /\ delayed' = {}
  /\ spawns' = [n \in Names |-> 0]
  /\ pc' = "end"
  /\ UNCHANGED <<sigready, kernelVars, then, target, queue, stage, splash>>

-----------------------------------------------------------------------------
(* The event loop.                                                         *)

\* The 100 ms timer: supervisor_pump.
Tick ==
  /\ pc = "loop"
  /\ pc' = "ready" /\ then' = "end"
  /\ UNCHANGED <<serviceVars, kernelVars, target, queue, stage, splash, ops>>

\* SIGUSR1 is read: supervisor_signal_ready for its sender.
ReadSigUsr1 ==
  /\ pc = "loop" /\ usr1 # NoPid
  /\ sigready' = sigready \cup {i \in 1..Len(table) : pid[table[i]] = usr1}
  /\ usr1' = NoPid
  /\ pc' = "end"
  /\ UNCHANGED <<tableVars, state, pid, restarts, delayed, spawns, os, runs,
                 chld, signalled, then, target, queue, stage, splash, ops>>

\* SIGCHLD is read: reaper_reap_all.
ReadSigChld ==
  /\ pc = "loop" /\ chld
  /\ chld' = FALSE
  /\ pc' = "reap"
  /\ UNCHANGED <<serviceVars, os, runs, usr1, signalled, then, target, queue,
                 stage, splash, ops>>

\* The policy wants a process that ended as how to be started again.
ShouldRestart(n, how) ==
  \/ Policy[n] = "always"
  \/ Policy[n] = "on-failure" /\ how = "err"

\* Mutants of OnExit: the pid field is not reset; the budget is compared
\* before it is charged.
OnExitKeepsPid(n, how) ==
  /\ restarts' = [restarts EXCEPT ![n] = @ + 1]
  /\ state' = [state EXCEPT ![n] = "DEGRADED"]
  /\ UNCHANGED <<pid, delayed>>

OnExitOneMore(n, how) ==
  /\ pid' = [pid EXCEPT ![n] = NoPid]
  /\ restarts' = [restarts EXCEPT ![n] = @ + 1]
  /\ IF restarts[n] > Attempts[n]
       THEN state' = [state EXCEPT ![n] = "DEGRADED"] /\ UNCHANGED delayed
       ELSE /\ state' = [state EXCEPT ![n] = "PENDING"]
            /\ delayed' = delayed \cup {n}

\* reaper_on_exit for the service n whose process ended as how.
OnExit(n, how) ==
  /\ pid' = [pid EXCEPT ![n] = NoPid]
  /\ IF state[n] \in {"STOPPING", "STOPPED"} \/ ~ShouldRestart(n, how)
       THEN /\ state' = [state EXCEPT ![n] = "STOPPED"]
            /\ UNCHANGED <<restarts, delayed>>
       ELSE /\ restarts' = [restarts EXCEPT ![n] = @ + 1]
            /\ IF restarts[n] + 1 > Attempts[n]
                 THEN /\ state' = [state EXCEPT ![n] = "DEGRADED"]
                      /\ UNCHANGED delayed
                 ELSE /\ state' = [state EXCEPT ![n] = "PENDING"]
                      /\ delayed' = delayed \cup {n}

\* waitpid(-1) returns one zombie; its service, if any, is told.
ReapOne(p) ==
  /\ pc = "reap" /\ os[p] \in Zombies
  /\ Free(p)
  /\ \/ \E n \in InTable : pid[n] = p /\ OnExit(n, os[p])
     \/ /\ \A n \in InTable : pid[n] # p
        /\ UNCHANGED <<state, pid, restarts, delayed>>
  /\ UNCHANGED <<tableVars, sigready, spawns, chld, usr1, loopVars>>

\* Mutant of ReapDone: waitpid is not called until it finds nothing.
ReapDoneEarly ==
  /\ pc = "reap"
  /\ pc' = "end"
  /\ UNCHANGED <<serviceVars, kernelVars, then, target, queue, stage, splash,
                 ops>>

\* waitpid finds no further zombie: the reaper loop ends.
ReapDone ==
  /\ pc = "reap" /\ \A p \in Pids : os[p] \notin Zombies
  /\ pc' = "end"
  /\ UNCHANGED <<serviceVars, kernelVars, then, target, queue, stage, splash,
                 ops>>

\* Mutant of SplashTimerFires: the compositor is started without stopping
\* luna-splash first.
SplashTimerKeepsSplash ==
  /\ pc = "loop" /\ stage = "armed"
  /\ stage' = "graphics"
  /\ StartOne(Compositor, "shell")
  /\ UNCHANGED <<tableVars, pid, sigready, kernelVars, target, queue, splash,
                 ops>>

\* The splash timer: Stage 5 stops luna-splash and starts the compositor.
SplashTimerFires ==
  /\ pc = "loop" /\ stage = "armed"
  /\ stage' = "graphics" /\ splash' = FALSE
  /\ StartOne(Compositor, "shell")
  /\ UNCHANGED <<tableVars, pid, sigready, kernelVars, target, queue, ops>>

\* Stage 5 goes on to luna-shell unless starting the compositor failed.
StartShell ==
  /\ pc = "shell"
  /\ IF Compositor \in InTable /\ state[Compositor] \notin {"DEGRADED", "FAILED"}
       THEN StartOne(Shell, "end")
       ELSE pc' = "end" /\ UNCHANGED <<state, restarts, delayed, spawns, then>>
  /\ UNCHANGED <<tableVars, pid, sigready, kernelVars, target, queue, stage,
                 splash, ops>>

\* Back in the event loop, with nothing left of the handler's locals.
HandlerReturns ==
  /\ pc = "end"
  /\ pc' = "loop" /\ then' = "loop" /\ target' = NoName

\* Another descriptor of the same epoll batch is ready.
NextEvent ==
  /\ HandlerReturns
  /\ UNCHANGED <<serviceVars, kernelVars, queue, stage, splash, ops>>

\* Mutant of IsBootComplete: services held up by a stopped one count too.
IsBootCompleteStrict ==
  \A n \in InTable : state[n] \notin {"PENDING", "STARTING"}

\* supervisor_is_boot_complete: nothing is PENDING or STARTING except what
\* waits directly on a STOPPED service.
IsBootComplete ==
  \A n \in InTable :
     state[n] \in {"PENDING", "STARTING"} =>
        \E d \in deps[n] : state[d] = "STOPPED"

\* The end of a batch: the first time boot is complete the splash timer is
\* set, or, when no timerfd can be had, luna-splash is stopped at once.
EndOfBatch ==
  /\ HandlerReturns
  /\ IF stage = "boot" /\ IsBootComplete
       THEN \/ stage' = "armed" /\ UNCHANGED splash
            \/ stage' = "fallback" /\ splash' = FALSE
       ELSE UNCHANGED <<stage, splash>>
  /\ UNCHANGED <<serviceVars, kernelVars, queue, ops>>

-----------------------------------------------------------------------------
(* shutdown_run.                                                           *)

Shutdown ==
  /\ Request("shutdown")
  /\ queue' = [i \in 1..Len(table) |-> table[Len(table) + 1 - i]]
  /\ pc' = "down"
  /\ UNCHANGED <<serviceVars, kernelVars, then, target, stage, splash>>

Stoppable == {n \in Names : state[n] \in {"RUNNING", "STARTING"}}

\* The next RUNNING or STARTING service, last table entry first, is stopped.
ShutdownStop(n) ==
  /\ pc = "down" /\ NextIs(n, Stoppable)
  /\ target' = n
  /\ StopOne(n, "down")
  /\ UNCHANGED <<tableVars, pid, restarts, delayed, sigready, spawns,
                 kernelVars, stage, splash, ops>>

\* Filesystems are unmounted and the kernel is told to power off.
PowerOff ==
  /\ pc = "down" /\ NoneLeft(Stoppable)
  /\ pc' = "off" /\ queue' = << >>
  /\ UNCHANGED <<serviceVars, kernelVars, then, target, stage, splash, ops>>

\* The machine is off.
Off == pc = "off" /\ UNCHANGED vars

-----------------------------------------------------------------------------
\* Stage 4 of main: the table is loaded, its graph is good (a bad one drops to
\* the panic shell), and supervisor_start_all has marked every service PENDING
\* but the compositor, and is about to pump.
Init ==
  /\ table \in {t \in Dirs : BuildOk(t)}
  /\ deps = [n \in Names |-> Deps(table, n)] /\ order = TopoSort(table)
  /\ state = [n \in Names |-> IF n \notin Loaded(table) THEN "UNLOADED"
                              ELSE IF n = Compositor THEN "STOPPED"
                              ELSE "PENDING"]
  /\ pid = [n \in Names |-> NoPid]
  /\ restarts = [n \in Names |-> 0]
  /\ delayed = {}
  /\ sigready = {}
  /\ spawns = [n \in Names |-> 0]
  /\ os = [p \in Pids |-> "free"]
  /\ runs = [p \in Pids |-> NoName]
  /\ chld = FALSE /\ usr1 = NoPid /\ signalled = {}
  /\ pc = "ready" /\ then = "loop" /\ target = NoName /\ queue = << >>
  /\ stage = "boot" /\ splash = TRUE /\ ops = 0

Environment ==
  \/ \E p \in Pids : Exit(p) \/ SendReady(p)
  \/ \E n \in Names : DelayPasses(n)

Pump ==
  \/ CheckReadiness
  \/ \E n \in Names : (\E p \in Pids : SpawnService(n, p)) \/ SpawnFails(n)
  \/ PumpReturns

\* The rest of a handler that has begun.
Handler ==
  \/ Pump
  \/ StopReaped \/ StopTimesOut \/ CtlRestart
  \/ (\E p \in Pids : ReapOne(p)) \/ ReapDone
  \/ StartShell
  \/ (\E n \in Names : ShutdownStop(n)) \/ PowerOff

Operator ==
  \/ \E n \in Names : CtlStart(n) \/ CtlStop(n)
  \/ Reload \/ Shutdown

Next ==
  \/ Environment \/ Handler \/ Operator
  \/ Tick \/ ReadSigUsr1 \/ ReadSigChld \/ SplashTimerFires
  \/ NextEvent \/ EndOfBatch
  \/ Off

Spec == Init /\ [][Next]_vars

\* A handler that has begun runs to its end.  epoll reports every descriptor
\* that stays ready and a batch is finite, so each event source is served
\* again and again, and so is the end of the batch.  Delays pass, SIGKILL takes
\* effect, and the timeout of a STARTING service does not stay in the future
\* for ever.  Nothing is assumed of the services themselves.
Fairness ==
  /\ WF_vars(Handler) /\ WF_vars(NextEvent \/ EndOfBatch)
  /\ SF_vars(EndOfBatch) /\ SF_vars(Tick) /\ SF_vars(ReadSigUsr1)
  /\ SF_vars(ReadSigChld) /\ SF_vars(SplashTimerFires)
  /\ \A n \in Names :
       /\ WF_vars(DelayPasses(n))
       /\ SF_vars(CheckReadiness /\ state[n] = "STARTING" /\ state'[n] # "STARTING")
  /\ \A p \in Pids : WF_vars(os[p] = "dying" /\ Exit(p))

FairSpec == Spec /\ Fairness

-----------------------------------------------------------------------------
(* What holds in every reachable state.                                    *)

\* Every variable has the type its C declaration and its uses give it.
TypeOK ==
  /\ table \in Dirs /\ deps \in [Names -> SUBSET Names]
  /\ state \in [Names -> States]
  /\ pid \in [Names -> Pids \cup {NoPid}]
  /\ restarts \in [Names -> Nat] /\ spawns \in [Names -> Nat]
  /\ delayed \subseteq Names
  /\ sigready \subseteq 1..MaxCount
  /\ os \in [Pids -> {"free", "alive", "dying"} \cup Zombies]
  /\ runs \in [Pids -> Names \cup {NoName}]
  /\ chld \in BOOLEAN /\ usr1 \in Pids \cup {NoPid} /\ signalled \subseteq Pids
  /\ pc \in PCs /\ then \in {"loop", "end", "restart", "shell", "down"}
  /\ target \in Names \cup {NoName}
  /\ stage \in {"boot", "armed", "graphics", "fallback"}
  /\ splash \in BOOLEAN /\ ops \in 0..MaxOps

\* A pid in the service table is an unreaped child that was spawned for that
\* very service, and two services never hold the same pid.  So the kill and
\* waitpid calls of supervisor_stop_one never reach a process that the kernel
\* has since given the pid to, and reaper_on_exit blames the right service.
PidsAreOwn ==
  \A n \in Names : pid[n] # NoPid =>
     os[pid[n]] \notin {"free", "dying"} /\ runs[pid[n]] = n

\* A service is STARTING, RUNNING or STOPPING only while it has a process, and
\* STOPPED or FAILED only when the table has let go of it.
StateMatchesPid ==
  \A n \in Names :
     /\ state[n] \in {"STARTING", "RUNNING", "STOPPING"} => pid[n] # NoPid
     /\ state[n] \in {"STOPPED", "FAILED", "UNLOADED"} => pid[n] = NoPid

\* Between two interventions of the operator (a start or a reload) a service
\* is spawned at most restart_attempts + 1 times, whatever its processes do
\* and whichever way each start ended: reaper_on_exit's budget is never
\* bypassed by readiness timeouts or by stops.
RestartsBounded == \A n \in Names : spawns[n] <= Attempts[n] + 1

\* No zombie is forgotten: while one exists, a SIGCHLD is pending or the
\* reaper loop is still running (signal_read consumes the signal before
\* reaper_reap_all polls).
ZombiesAreAnnounced ==
  \A p \in Pids : os[p] \in Zombies => chld \/ pc = "reap"

\* The compositor is not started while luna-splash owns the display: Stage 4
\* leaves it out and Stage 5 stops the splash first.
CompositorAfterSplash == splash => pid[Compositor] = NoPid

(* What no step may do.                                                    *)

\* A process is created only for a service whose after-list has come up or
\* been given up on, whatever the order of the table, and never once shutdown
\* has begun.
SpawnsAreGated ==
  [][\A n \in Names : spawns'[n] > spawns[n] =>
        /\ pc # "down"
        /\ \A i \in 1..Len(After[n]) :
             state'[After[n][i]] \in {"RUNNING", "DEGRADED"}]_vars

(* What must happen.                                                       *)

\* Every exited child is reaped, unless the machine is shutting down.
ZombiesAreReaped ==
  \A p \in Pids : os[p] \in Zombies ~> (os[p] \notin Zombies \/ pc \in {"down", "off"})

\* Left alone, the supervisor comes to rest with no service STARTING, none
\* waiting for a restart delay, and none PENDING whose dependencies are all
\* RUNNING or DEGRADED: every service that can be brought up has been tried.
Settles ==
  <>[](\A n \in InTable : /\ state[n] # "STARTING" /\ n \notin delayed
                          /\ n \notin Startable)

\* Stage 4 ends: luna-splash is stopped in the end, whatever the services do.
SplashIsReleased == <>~splash
=============================================================================
