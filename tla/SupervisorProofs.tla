-------------------------- MODULE SupervisorProofs --------------------------
(***************************************************************************)
(* The safety invariants of Supervisor for every set of services, pids and *)
(* service directories, every graph, policy and restart budget.            *)
(***************************************************************************)
EXTENDS Supervisor, TLAPS

\* A leaf that names no prover goes to SMT, to Zenon and to SMT once more, the
\* solver's encoding being limited by the clock.
USE SMTT(30), Zenon, SMTT(60)

-----------------------------------------------------------------------------
(* Facts about the constants.                                              *)

\* The assumptions on the constants that are not about tables.
LEMMA SimpleConstants ==
  /\ NoPid \notin Pids /\ NoName \notin Names
  /\ Compositor \in Names /\ Shell \in Names
  /\ MaxCount \in Nat /\ MaxOps \in Nat
  /\ Attempts \in [Names -> Nat]
BY SupervisorAssumption

\* Every name found in a table the directory can load as is a service name.
LEMMA LoadedNames ==
  ASSUME NEW t \in Dirs
  PROVE  Loaded(t) \subseteq Names
BY SupervisorAssumption DEF Loaded, Tables

\* A loaded table fits in g_services, so its positions are flag positions.
LEMMA TableFits ==
  ASSUME NEW t \in Dirs
  PROVE  1..Len(t) \subseteq 1..MaxCount
<1>1. Len(t) \in Nat /\ Len(t) <= MaxCount
  BY SupervisorAssumption DEF Tables
<1> QED
  BY <1>1, SupervisorAssumption

\* What depgraph_build stores in dep_indices are services.
LEMMA DepsNames ==
  ASSUME NEW t \in Dirs, NEW n \in Names
  PROVE  Deps(t, n) \subseteq Names
<1>1. t \in Seq(Names)
  BY SupervisorAssumption DEF Tables
<1>2. SUFFICES ASSUME NEW r \in Resolved(t)
               PROVE  Refs(t, r[1])[r[2]] \in Names
  BY DEF Deps
<1>3. PICK i \in 1..Len(t) : r \in {i} \X (1..Len(Refs(t, i)))
  BY DEF Resolved
<1>4. r[1] = i /\ r[2] \in 1..Len(Refs(t, i))
  BY <1>3
<1>5. t[i] \in Names
  BY <1>1
<1>6. After[t[i]] \in Seq(Names) /\ Before[t[i]] \in Seq(Names)
  BY <1>5, DependsAssumption
<1>7. Refs(t, i) \in Seq(Names)
  BY <1>6 DEF Refs
<1> QED
  BY <1>4, <1>7

-----------------------------------------------------------------------------
(* Type correctness.                                                       *)

\* The variables supervisor_start_one assigns keep their types.
LEMMA StartOneType ==
  ASSUME TypeOK, NEW n \in Names \cup {NoName},
         NEW return \in {"end", "shell"}, StartOne(n, return)
  PROVE  /\ state' \in [Names -> States]
         /\ restarts' \in [Names -> Nat] /\ spawns' \in [Names -> Nat]
         /\ delayed' \subseteq Names
         /\ pc' \in PCs /\ then' \in {"loop", "end", "restart", "shell", "down"}
<1> USE DEF TypeOK, States, PCs
<1>1. CASE n \notin InTable \/ state[n] \in {"RUNNING", "STARTING"}
  BY <1>1 DEF StartOne
<1>2. CASE ~(n \notin InTable \/ state[n] \in {"RUNNING", "STARTING"})
  BY <1>2 DEF StartOne
<1> QED
  BY <1>1, <1>2

\* So do the variables supervisor_stop_one assigns before it waits.
LEMMA StopOneType ==
  ASSUME TypeOK, NEW n \in Names,
         NEW return \in {"end", "restart", "down"}, StopOne(n, return)
  PROVE  /\ state' \in [Names -> States]
         /\ pc' \in PCs /\ then' \in {"loop", "end", "restart", "shell", "down"}
<1> USE DEF TypeOK, States, PCs
<1>1. CASE n \notin InTable \/ pid[n] = NoPid
  BY <1>1 DEF StopOne
<1>2. CASE ~(n \notin InTable \/ pid[n] = NoPid)
  BY <1>2 DEF StopOne
<1> QED
  BY <1>1, <1>2

\* And those reaper_on_exit assigns.
LEMMA OnExitType ==
  ASSUME TypeOK, NEW n \in Names, NEW how, OnExit(n, how)
  PROVE  /\ state' \in [Names -> States]
         /\ pid' \in [Names -> Pids \cup {NoPid}]
         /\ restarts' \in [Names -> Nat]
         /\ delayed' \subseteq Names
<1> USE DEF TypeOK, States
<1>1. CASE state[n] \in {"STOPPING", "STOPPED"} \/ ~ShouldRestart(n, how)
  BY <1>1 DEF OnExit
<1>2. CASE /\ ~(state[n] \in {"STOPPING", "STOPPED"} \/ ~ShouldRestart(n, how))
           /\ restarts[n] + 1 > Attempts[n]
  BY <1>2 DEF OnExit
<1>3. CASE /\ ~(state[n] \in {"STOPPING", "STOPPED"} \/ ~ShouldRestart(n, how))
           /\ ~(restarts[n] + 1 > Attempts[n])
  BY <1>3 DEF OnExit
<1> QED
  BY <1>1, <1>2, <1>3

\* Every variable keeps its type in every behaviour of luna-init.
THEOREM TypeCorrect == Spec => []TypeOK
<1>1. Init => TypeOK
  <2> SUFFICES ASSUME Init PROVE TypeOK
    OBVIOUS
  <2>1. table \in Dirs
    BY DEF Init
  <2>2. deps \in [Names -> SUBSET Names]
    BY <2>1, DepsNames DEF Init
  <2>3. state \in [Names -> States]
    BY DEF Init, States
  <2>4. /\ pid \in [Names -> Pids \cup {NoPid}]
        /\ restarts \in [Names -> Nat] /\ spawns \in [Names -> Nat]
    BY DEF Init
  <2>5. /\ os \in [Pids -> {"free", "alive", "dying"} \cup Zombies]
        /\ runs \in [Pids -> Names \cup {NoName}]
    BY DEF Init
  <2>6. chld \in BOOLEAN /\ splash \in BOOLEAN
    BY Zenon DEF Init
  <2> QED
    BY <2>1, <2>2, <2>3, <2>4, <2>5, <2>6, SimpleConstants DEF Init, TypeOK,
       PCs
<1>2. TypeOK /\ [Next]_vars => TypeOK'
  <2> SUFFICES ASSUME TypeOK, [Next]_vars PROVE TypeOK'
    OBVIOUS
  <2> USE DEF TypeOK, States, PCs, Zombies, tableVars, serviceVars,
          kernelVars, loopVars
  <2>1. ASSUME NEW p \in Pids, Exit(p) PROVE TypeOK'
    <3>1. CASE os[p] = "alive"
      BY <2>1, <3>1 DEF Exit
    <3>2. CASE os[p] = "dying"
      BY <2>1, <3>2 DEF Exit
    <3> QED
      BY <2>1, <3>1, <3>2 DEF Exit
  <2>2. ASSUME NEW p \in Pids, SendReady(p) PROVE TypeOK'
    BY <2>2 DEF SendReady
  <2>3. ASSUME NEW n \in Names, DelayPasses(n) PROVE TypeOK'
    BY <2>3 DEF DelayPasses
  <2>4. CASE CheckReadiness
    BY <2>4 DEF CheckReadiness
  <2>5. ASSUME NEW n \in Names, NEW p \in Pids, SpawnService(n, p)
        PROVE TypeOK'
    BY <2>5 DEF SpawnService
  <2>6. ASSUME NEW n \in Names, SpawnFails(n) PROVE TypeOK'
    BY <2>6 DEF SpawnFails
  <2>7. CASE PumpReturns
    BY <2>7 DEF PumpReturns
  <2>8. CASE StopReaped
    BY <2>8, ZenonT(60) DEF StopReaped, Free
  <2>9. CASE StopTimesOut
    BY <2>9, ZenonT(40) DEF StopTimesOut, Free
  <2>10. CASE CtlRestart
    BY <2>10, StartOneType DEF CtlRestart
  <2>11. ASSUME NEW p \in Pids, ReapOne(p) PROVE TypeOK'
    <3>1. ASSUME NEW n \in InTable, OnExit(n, os[p]) PROVE TypeOK'
      BY <2>11, <3>1, LoadedNames, OnExitType DEF ReapOne, Free, InTable
    <3>2. CASE UNCHANGED <<state, pid, restarts, delayed>>
      BY <2>11, <3>2 DEF ReapOne, Free
    <3> QED
      BY <2>11, <3>1, <3>2 DEF ReapOne
  <2>12. CASE ReapDone
    BY <2>12 DEF ReapDone
  <2>13. CASE StartShell
    BY <2>13, StartOneType, SimpleConstants DEF StartShell
  <2>14. ASSUME NEW n \in Names, ShutdownStop(n) PROVE TypeOK'
    BY <2>14, StopOneType DEF ShutdownStop
  <2>15. CASE PowerOff
    BY <2>15 DEF PowerOff
  <2>16. ASSUME NEW n \in Names, CtlStart(n) PROVE TypeOK'
    BY <2>16, StartOneType, SimpleConstants DEF CtlStart, Request
  <2>17. ASSUME NEW n \in Names, CtlStop(n) PROVE TypeOK'
    BY <2>17, StopOneType, SimpleConstants DEF CtlStop, Request
  <2>18. CASE Reload
    BY <2>18, DepsNames, SimpleConstants DEF Reload, Request
  <2>19. CASE Shutdown
    BY <2>19, SimpleConstants DEF Shutdown, Request
  <2>20. CASE Tick
    BY <2>20 DEF Tick
  <2>21. CASE ReadSigUsr1
    BY <2>21, TableFits, Zenon DEF ReadSigUsr1
  <2>22. CASE ReadSigChld
    BY <2>22, ZenonT(60) DEF ReadSigChld
  <2>23. CASE SplashTimerFires
    BY <2>23, StartOneType, SimpleConstants, Zenon DEF SplashTimerFires
  <2>24. CASE NextEvent
    BY <2>24 DEF NextEvent, HandlerReturns
  <2>25. CASE EndOfBatch
    BY <2>25, Zenon DEF EndOfBatch, HandlerReturns
  <2>26. CASE UNCHANGED vars
    BY <2>26 DEF vars
  <2> QED
    BY <2>1, <2>2, <2>3, <2>4, <2>5, <2>6, <2>7, <2>8, <2>9, <2>10, <2>11,
       <2>12, <2>13, <2>14, <2>15, <2>16, <2>17, <2>18, <2>19, <2>20, <2>21,
       <2>22, <2>23, <2>24, <2>25, <2>26, ZenonT(60)
    DEF Next, Environment, Handler, Pump, Operator, Off
<1> QED
  BY <1>1, <1>2, PTL DEF Spec

-----------------------------------------------------------------------------
(* Zombies.                                                                *)

\* A zombie always has a SIGCHLD or a running reaper loop ahead of it: the
\* flag is raised with every exit and lowered only on entering the loop, and
\* the loop is left only when no zombie is left.
THEOREM ZombiesAnnounced == Spec => []ZombiesAreAnnounced
<1>1. Init => ZombiesAreAnnounced
  BY DEF Init, ZombiesAreAnnounced, Zombies
<1>2. TypeOK /\ ZombiesAreAnnounced /\ [Next]_vars => ZombiesAreAnnounced'
  <2> SUFFICES ASSUME TypeOK, ZombiesAreAnnounced, [Next]_vars PROVE ZombiesAreAnnounced'
    OBVIOUS
  <2> USE SimpleConstants DEF ZombiesAreAnnounced, Zombies, TypeOK, tableVars, serviceVars,
          kernelVars, loopVars
  <2>1. ASSUME NEW p \in Pids, Exit(p) PROVE ZombiesAreAnnounced'
    BY <2>1 DEF Exit
  <2>2. ASSUME NEW p \in Pids, SendReady(p) PROVE ZombiesAreAnnounced'
    BY <2>2 DEF SendReady
  <2>3. ASSUME NEW n \in Names, DelayPasses(n) PROVE ZombiesAreAnnounced'
    BY <2>3 DEF DelayPasses
  <2>4. CASE CheckReadiness
    BY <2>4 DEF CheckReadiness, Starting, MayBeReady
  <2>5. ASSUME NEW n \in Names, NEW p \in Pids, SpawnService(n, p) PROVE ZombiesAreAnnounced'
    BY <2>5 DEF SpawnService
  <2>6. ASSUME NEW n \in Names, SpawnFails(n) PROVE ZombiesAreAnnounced'
    BY <2>6 DEF SpawnFails
  <2>7. CASE PumpReturns
    BY <2>7 DEF PumpReturns
  <2>8. CASE StopReaped
    BY <2>8 DEF StopReaped, Free
  <2>9. CASE StopTimesOut
    BY <2>9 DEF StopTimesOut, Free
  <2>10. CASE CtlRestart
    BY <2>10 DEF CtlRestart, StartOne
  <2>11. ASSUME NEW p \in Pids, ReapOne(p) PROVE ZombiesAreAnnounced'
    BY <2>11 DEF ReapOne, Free, OnExit
  <2>12. CASE ReapDone
    BY <2>12 DEF ReapDone
  <2>13. CASE StartShell
    BY <2>13 DEF StartShell, StartOne
  <2>14. ASSUME NEW n \in Names, ShutdownStop(n) PROVE ZombiesAreAnnounced'
    BY <2>14 DEF ShutdownStop, StopOne, Stoppable
  <2>15. CASE PowerOff
    BY <2>15 DEF PowerOff
  <2>16. ASSUME NEW n \in Names, CtlStart(n) PROVE ZombiesAreAnnounced'
    BY <2>16 DEF CtlStart, StartOne, Request
  <2>17. ASSUME NEW n \in Names, CtlStop(n) PROVE ZombiesAreAnnounced'
    BY <2>17 DEF CtlStop, StopOne, Request
  <2>18. CASE Reload
    BY <2>18 DEF Reload, Request
  <2>19. CASE Shutdown
    BY <2>19 DEF Shutdown, Request
  <2>20. CASE Tick
    BY <2>20 DEF Tick
  <2>21. CASE ReadSigUsr1
    BY <2>21 DEF ReadSigUsr1
  <2>22. CASE ReadSigChld
    BY <2>22 DEF ReadSigChld
  <2>23. CASE SplashTimerFires
    BY <2>23 DEF SplashTimerFires, StartOne
  <2>24. CASE NextEvent
    BY <2>24 DEF NextEvent, HandlerReturns
  <2>25. CASE EndOfBatch
    BY <2>25 DEF EndOfBatch, HandlerReturns
  <2>26. CASE UNCHANGED vars
    BY <2>26 DEF vars
  <2> QED
    BY <2>1, <2>2, <2>3, <2>4, <2>5, <2>6, <2>7, <2>8, <2>9, <2>10,
       <2>11, <2>12, <2>13, <2>14, <2>15, <2>16, <2>17, <2>18,
       <2>19, <2>20, <2>21, <2>22, <2>23, <2>24, <2>25, <2>26
    DEF Next, Environment, Handler, Pump, Operator, Off
<1> QED
  BY <1>1, <1>2, TypeCorrect, PTL DEF Spec

-----------------------------------------------------------------------------
(* Ownership of pids.                                                      *)

\* A name outside the table is UNLOADED.
TableCovers == \A n \in Names : state[n] # "UNLOADED" => n \in InTable

\* While a stop waits, it waits for a service that has a process.
WaitsForProcess == pc = "wait" => target \in Names /\ pid[target] # NoPid

\* Inductive: pids in the table are unreaped and spawned for their service,
\* the state agrees with the pid, and only loaded services have either.
Ownership == PidsAreOwn /\ StateMatchesPid /\ TableCovers /\ WaitsForProcess

\* Ownership is an invariant of luna-init.
THEOREM OwnershipInvariant == Spec => []Ownership
<1>1. Init => Ownership
  BY SimpleConstants DEF Init, Ownership, PidsAreOwn,
     StateMatchesPid,
     TableCovers, WaitsForProcess, InTable
<1>2. TypeOK /\ Ownership /\ [Next]_vars => Ownership'
  <2> SUFFICES ASSUME TypeOK, Ownership, [Next]_vars PROVE Ownership'
    OBVIOUS
  <2> USE SimpleConstants DEF Ownership, PidsAreOwn, StateMatchesPid,
          TableCovers, WaitsForProcess, InTable, Zombies, TypeOK, tableVars, serviceVars,
          kernelVars, loopVars
  <2>1. ASSUME NEW p \in Pids, Exit(p) PROVE Ownership'
    BY <2>1 DEF Exit
  <2>2. ASSUME NEW p \in Pids, SendReady(p) PROVE Ownership'
    BY <2>2 DEF SendReady
  <2>3. ASSUME NEW n \in Names, DelayPasses(n) PROVE Ownership'
    BY <2>3 DEF DelayPasses
  <2>4. CASE CheckReadiness
    BY <2>4 DEF CheckReadiness, Starting, MayBeReady
  <2>5. ASSUME NEW n \in Names, NEW p \in Pids, SpawnService(n, p) PROVE Ownership'
    <3>1. state[n] = "PENDING"
      BY <2>5 DEF SpawnService, NextIs, Startable
    <3> QED
      BY <2>5, <3>1 DEF SpawnService
  <2>6. ASSUME NEW n \in Names, SpawnFails(n) PROVE Ownership'
    <3>1. state[n] = "PENDING"
      BY <2>6 DEF SpawnFails, NextIs, Startable
    <3> QED
      BY <2>6, <3>1 DEF SpawnFails
  <2>7. CASE PumpReturns
    BY <2>7 DEF PumpReturns
  <2>8. CASE StopReaped
    BY <2>8 DEF StopReaped, Free
  <2>9. CASE StopTimesOut
    BY <2>9 DEF StopTimesOut, Free
  <2>10. CASE CtlRestart
    BY <2>10 DEF CtlRestart, StartOne
  <2>11. ASSUME NEW p \in Pids, ReapOne(p) PROVE Ownership'
    <3>1. ASSUME NEW n \in InTable, pid[n] = p, OnExit(n, os[p])
          PROVE  Ownership'
      <4>1. n \in Names
        BY LoadedNames
      <4>2. \A m \in Names : pid[m] = p => m = n
        BY <3>1, <4>1
      <4>3. /\ state' = [state EXCEPT ![n] = state'[n]]
            /\ state'[n] \in {"STOPPED", "DEGRADED", "PENDING"}
            /\ pid' = [pid EXCEPT ![n] = NoPid]
        BY <3>1, <4>1 DEF OnExit
      <4> QED
        BY <2>11, <3>1, <4>1, <4>2, <4>3 DEF ReapOne, Free
    <3>2. CASE /\ \A n \in InTable : pid[n] # p
               /\ UNCHANGED <<state, pid, restarts, delayed>>
      <4>1. \A n \in Names : pid[n] # p
        BY <3>2
      <4> QED
        BY <2>11, <3>2, <4>1 DEF ReapOne, Free
    <3> QED
      BY <2>11, <3>1, <3>2 DEF ReapOne
  <2>12. CASE ReapDone
    BY <2>12 DEF ReapDone
  <2>13. CASE StartShell
    BY <2>13 DEF StartShell, StartOne
  <2>14. ASSUME NEW n \in Names, ShutdownStop(n) PROVE Ownership'
    BY <2>14 DEF ShutdownStop, StopOne, Stoppable
  <2>15. CASE PowerOff
    BY <2>15 DEF PowerOff
  <2>16. ASSUME NEW n \in Names, CtlStart(n) PROVE Ownership'
    BY <2>16 DEF CtlStart, StartOne, Request
  <2>17. ASSUME NEW n \in Names, CtlStop(n) PROVE Ownership'
    BY <2>17 DEF CtlStop, StopOne, Request
  <2>18. CASE Reload
    BY <2>18 DEF Reload, Request
  <2>19. CASE Shutdown
    BY <2>19 DEF Shutdown, Request
  <2>20. CASE Tick
    BY <2>20 DEF Tick
  <2>21. CASE ReadSigUsr1
    BY <2>21 DEF ReadSigUsr1
  <2>22. CASE ReadSigChld
    BY <2>22 DEF ReadSigChld
  <2>23. CASE SplashTimerFires
    BY <2>23 DEF SplashTimerFires, StartOne
  <2>24. CASE NextEvent
    BY <2>24 DEF NextEvent, HandlerReturns
  <2>25. CASE EndOfBatch
    BY <2>25 DEF EndOfBatch, HandlerReturns
  <2>26. CASE UNCHANGED vars
    BY <2>26 DEF vars
  <2> QED
    BY <2>1, <2>2, <2>3, <2>4, <2>5, <2>6, <2>7, <2>8, <2>9, <2>10,
       <2>11, <2>12, <2>13, <2>14, <2>15, <2>16, <2>17, <2>18,
       <2>19, <2>20, <2>21, <2>22, <2>23, <2>24, <2>25, <2>26, ZenonT(60)
    DEF Next, Environment, Handler, Pump, Operator, Off
<1> QED
  BY <1>1, <1>2, TypeCorrect, PTL DEF Spec

\* The pid of a service is always an unreaped process of that service, and
\* its state says whether it has one.
THEOREM PidOwnership == Spec => [](PidsAreOwn /\ StateMatchesPid)
<1>1. Ownership => PidsAreOwn /\ StateMatchesPid
  BY DEF Ownership
<1> QED
  BY <1>1, OwnershipInvariant, PTL

-----------------------------------------------------------------------------
(* The restart budget.                                                     *)

\* Inductive: every spawn but the first since the operator's last word has
\* been paid for by an exit, a service that is to be spawned is one behind,
\* and a service with a process has not used up its budget.
Budget ==
  \A n \in Names :
     /\ spawns[n] <= restarts[n] + 1 /\ spawns[n] <= Attempts[n] + 1
     /\ state[n] = "PENDING" => spawns[n] <= restarts[n] /\ restarts[n] <= Attempts[n]
     /\ pid[n] # NoPid => restarts[n] <= Attempts[n]

\* A service is spawned at most restart_attempts + 1 times between two
\* interventions of the operator.
THEOREM RestartBudget == Spec => []RestartsBounded
<1>1. Init => Budget
  BY SimpleConstants DEF Init, Budget
<1>2. TypeOK /\ Budget /\ [Next]_vars => Budget'
  <2> SUFFICES ASSUME TypeOK, Budget, [Next]_vars PROVE Budget'
    OBVIOUS
  <2> USE SimpleConstants DEF Budget, TypeOK, tableVars, serviceVars,
          kernelVars, loopVars
  <2>1. ASSUME NEW p \in Pids, Exit(p) PROVE Budget'
    BY <2>1 DEF Exit
  <2>2. ASSUME NEW p \in Pids, SendReady(p) PROVE Budget'
    BY <2>2 DEF SendReady
  <2>3. ASSUME NEW n \in Names, DelayPasses(n) PROVE Budget'
    BY <2>3 DEF DelayPasses
  <2>4. CASE CheckReadiness
    BY <2>4 DEF CheckReadiness, Starting, MayBeReady
  <2>5. ASSUME NEW n \in Names, NEW p \in Pids, SpawnService(n, p) PROVE Budget'
    <3>1. state[n] = "PENDING"
      BY <2>5, ZenonT(60) DEF SpawnService, NextIs, Startable
    <3> QED
      BY <2>5, <3>1 DEF SpawnService
  <2>6. ASSUME NEW n \in Names, SpawnFails(n) PROVE Budget'
    <3>1. state[n] = "PENDING"
      BY <2>6 DEF SpawnFails, NextIs, Startable
    <3> QED
      BY <2>6, <3>1 DEF SpawnFails
  <2>7. CASE PumpReturns
    BY <2>7 DEF PumpReturns
  <2>8. CASE StopReaped
    BY <2>8 DEF StopReaped, Free
  <2>9. CASE StopTimesOut
    BY <2>9 DEF StopTimesOut, Free
  <2>10. CASE CtlRestart
    BY <2>10 DEF CtlRestart, StartOne
  <2>11. ASSUME NEW p \in Pids, ReapOne(p) PROVE Budget'
    BY <2>11 DEF ReapOne, Free, OnExit
  <2>12. CASE ReapDone
    BY <2>12 DEF ReapDone
  <2>13. CASE StartShell
    BY <2>13 DEF StartShell, StartOne
  <2>14. ASSUME NEW n \in Names, ShutdownStop(n) PROVE Budget'
    BY <2>14 DEF ShutdownStop, StopOne, Stoppable
  <2>15. CASE PowerOff
    BY <2>15 DEF PowerOff
  <2>16. ASSUME NEW n \in Names, CtlStart(n) PROVE Budget'
    BY <2>16 DEF CtlStart, StartOne, Request
  <2>17. ASSUME NEW n \in Names, CtlStop(n) PROVE Budget'
    BY <2>17 DEF CtlStop, StopOne, Request
  <2>18. CASE Reload
    BY <2>18 DEF Reload, Request
  <2>19. CASE Shutdown
    BY <2>19 DEF Shutdown, Request
  <2>20. CASE Tick
    BY <2>20 DEF Tick
  <2>21. CASE ReadSigUsr1
    BY <2>21 DEF ReadSigUsr1
  <2>22. CASE ReadSigChld
    BY <2>22 DEF ReadSigChld
  <2>23. CASE SplashTimerFires
    BY <2>23 DEF SplashTimerFires, StartOne
  <2>24. CASE NextEvent
    BY <2>24 DEF NextEvent, HandlerReturns
  <2>25. CASE EndOfBatch
    BY <2>25 DEF EndOfBatch, HandlerReturns
  <2>26. CASE UNCHANGED vars
    BY <2>26 DEF vars
  <2> QED
    BY <2>1, <2>2, <2>3, <2>4, <2>5, <2>6, <2>7, <2>8, <2>9, <2>10,
       <2>11, <2>12, <2>13, <2>14, <2>15, <2>16, <2>17, <2>18,
       <2>19, <2>20, <2>21, <2>22, <2>23, <2>24, <2>25, <2>26, ZenonT(60)
    DEF Next, Environment, Handler, Pump, Operator, Off
<1>3. Budget => RestartsBounded
  BY DEF Budget, RestartsBounded
<1> QED
  BY <1>1, <1>2, <1>3, TypeCorrect, PTL DEF Spec

-----------------------------------------------------------------------------
(* Stage 5.                                                                *)

\* Inductive, as long as nobody starts or restarts services by hand or has
\* the definitions reloaded: until Stage 5 releases the splash the compositor
\* is not even PENDING, and no start by hand is under way.
StageOrder ==
  /\ splash => state[Compositor] \in {"STOPPED", "UNLOADED"} /\ pid[Compositor] = NoPid
  /\ pc = "shell" \/ then = "shell" => ~splash
  /\ pc # "restart" /\ then # "restart"

\* luna-init itself never starts the compositor while luna-splash owns the
\* display, whatever the services and the other requests do.
THEOREM StageFiveOrder ==
  ASSUME Commands \cap {"start", "restart", "reload"} = {}
  PROVE  Spec => []CompositorAfterSplash
<1>1. Init => StageOrder
  BY SimpleConstants DEF Init, StageOrder
<1>2. TypeOK /\ StageOrder /\ [Next]_vars => StageOrder'
  <2> SUFFICES ASSUME TypeOK, StageOrder, [Next]_vars PROVE StageOrder'
    OBVIOUS
  <2> USE SimpleConstants DEF StageOrder, TypeOK, tableVars, serviceVars,
          kernelVars, loopVars
  <2>1. ASSUME NEW p \in Pids, Exit(p) PROVE StageOrder'
    BY <2>1 DEF Exit
  <2>2. ASSUME NEW p \in Pids, SendReady(p) PROVE StageOrder'
    BY <2>2 DEF SendReady
  <2>3. ASSUME NEW n \in Names, DelayPasses(n) PROVE StageOrder'
    BY <2>3 DEF DelayPasses
  <2>4. CASE CheckReadiness
    BY <2>4 DEF CheckReadiness, Starting, MayBeReady
  <2>5. ASSUME NEW n \in Names, NEW p \in Pids, SpawnService(n, p) PROVE StageOrder'
    BY <2>5 DEF SpawnService, NextIs, Startable
  <2>6. ASSUME NEW n \in Names, SpawnFails(n) PROVE StageOrder'
    BY <2>6 DEF SpawnFails, NextIs, Startable
  <2>7. CASE PumpReturns
    BY <2>7 DEF PumpReturns
  <2>8. CASE StopReaped
    BY <2>8 DEF StopReaped, Free
  <2>9. CASE StopTimesOut
    BY <2>9 DEF StopTimesOut, Free
  <2>10. CASE CtlRestart
    BY <2>10 DEF CtlRestart, StartOne
  <2>11. ASSUME NEW p \in Pids, ReapOne(p) PROVE StageOrder'
    BY <2>11 DEF ReapOne, Free, OnExit
  <2>12. CASE ReapDone
    BY <2>12 DEF ReapDone
  <2>13. CASE StartShell
    BY <2>13 DEF StartShell, StartOne
  <2>14. ASSUME NEW n \in Names, ShutdownStop(n) PROVE StageOrder'
    BY <2>14 DEF ShutdownStop, StopOne, Stoppable
  <2>15. CASE PowerOff
    BY <2>15 DEF PowerOff
  <2>16. ASSUME NEW n \in Names, CtlStart(n) PROVE StageOrder'
    BY <2>16 DEF CtlStart, StartOne, Request
  <2>17. ASSUME NEW n \in Names, CtlStop(n) PROVE StageOrder'
    BY <2>17 DEF CtlStop, StopOne, Request
  <2>18. CASE Reload
    BY <2>18 DEF Reload, Request
  <2>19. CASE Shutdown
    BY <2>19 DEF Shutdown, Request
  <2>20. CASE Tick
    BY <2>20 DEF Tick
  <2>21. CASE ReadSigUsr1
    BY <2>21 DEF ReadSigUsr1
  <2>22. CASE ReadSigChld
    BY <2>22 DEF ReadSigChld
  <2>23. CASE SplashTimerFires
    BY <2>23 DEF SplashTimerFires, StartOne
  <2>24. CASE NextEvent
    BY <2>24 DEF NextEvent, HandlerReturns
  <2>25. CASE EndOfBatch
    BY <2>25 DEF EndOfBatch, HandlerReturns
  <2>26. CASE UNCHANGED vars
    BY <2>26 DEF vars
  <2> QED
    BY <2>1, <2>2, <2>3, <2>4, <2>5, <2>6, <2>7, <2>8, <2>9, <2>10,
       <2>11, <2>12, <2>13, <2>14, <2>15, <2>16, <2>17, <2>18,
       <2>19, <2>20, <2>21, <2>22, <2>23, <2>24, <2>25, <2>26, ZenonT(60)
    DEF Next, Environment, Handler, Pump, Operator, Off
<1>3. StageOrder => CompositorAfterSplash
  BY DEF StageOrder, CompositorAfterSplash
<1> QED
  BY <1>1, <1>2, <1>3, TypeCorrect, PTL DEF Spec

-----------------------------------------------------------------------------
(* The start gate.                                                         *)

\* The first entries of a concatenation.
LEMMA ConcatLeft ==
  ASSUME NEW S, NEW a \in Seq(S), NEW b \in Seq(S), NEW j \in 1..Len(a)
  PROVE  j \in 1..Len(a \o b) /\ (a \o b)[j] = a[j]
  OBVIOUS

\* When every reference resolves, dep_indices holds the whole after-list.
LEMMA AfterResolved ==
  ASSUME NEW t \in Dirs, AllResolved(t), NEW n \in Loaded(t),
         NEW j \in 1..Len(After[n])
  PROVE  After[n][j] \in Deps(t, n)
<1>1. t \in Seq(Names)
  BY SupervisorAssumption DEF Tables
<1>2. PICK i \in 1..Len(t) : t[i] = n
  BY DEF Loaded
<1>3. n \in Names /\ After[n] \in Seq(Names) /\ Before[n] \in Seq(Names)
  BY <1>1, <1>2, DependsAssumption
<1>4. Refs(t, i) = After[n] \o Before[n]
  BY <1>2 DEF Refs
<1>5. j \in 1..Len(Refs(t, i)) /\ Refs(t, i)[j] = After[n][j]
  <2>1. /\ j \in 1..Len(After[n] \o Before[n])
        /\ (After[n] \o Before[n])[j] = After[n][j]
    BY <1>3, ConcatLeft, ZenonT(60)
  <2> QED
    BY <1>4, <2>1, Zenon
<1>6. <<i, j>> \in Resolved(t)
  <2>1. \A k \in 1..i : k \in 1..Len(t)
    BY <1>1
  <2>2. \A k \in 1..i : \A l \in 1..Len(Refs(t, k)) : ~Missing(t, k, l)
    BY <2>1, ZenonT(60) DEF AllResolved
  <2>3. <<i, j>> \in UNION {{k} \X (1..Len(Refs(t, k))) : k \in 1..Len(t)}
    BY <1>5
  <2> QED
    BY ONLY <2>2, <2>3, SMTT(30), SMTT(60) DEF Resolved
<1>7. j <= Len(After[n])
  BY <1>3
<1> DEFINE r == <<i, j>>
<1>8. r \in {q \in Resolved(t) : t[q[1]] = n /\ q[2] <= Len(After[n])}
  BY <1>2, <1>6, <1>7
<1>9. Refs(t, r[1])[r[2]] = After[n][j]
  BY <1>5
<1> HIDE DEF r
<1> QED
  BY <1>8, <1>9, Zenon DEF Deps

\* Inductive, as long as the definitions are not reloaded: dep_indices of a
\* loaded service covers its after-list.
GateComplete ==
  \A n \in InTable : \A j \in 1..Len(After[n]) : After[n][j] \in deps[n]

\* Without a reload, whose depgraph_build may stop half way, no service is
\* spawned before its after-list is RUNNING or DEGRADED.
THEOREM SpawnGate ==
  ASSUME "reload" \notin Commands
  PROVE  Spec => SpawnsAreGated
<1>1. Init => GateComplete
  <2> SUFFICES ASSUME Init, NEW n \in InTable, NEW j \in 1..Len(After[n])
               PROVE  After[n][j] \in deps[n]
    BY DEF GateComplete
  <2>1. table \in Dirs /\ AllResolved(table) /\ n \in Loaded(table)
    BY DEF Init, BuildOk, InTable
  <2>2. n \in Names /\ deps[n] = Deps(table, n)
    BY <2>1, LoadedNames DEF Init
  <2> QED
    BY <2>1, <2>2, AfterResolved
<1>2. GateComplete /\ [Next]_vars => GateComplete'
  <2> SUFFICES ASSUME GateComplete, [Next]_vars PROVE GateComplete'
    OBVIOUS
  <2>1. UNCHANGED <<table, deps>>
    BY Zenon DEF Next, Environment, Exit, SendReady, DelayPasses, Handler,
       Pump,
       CheckReadiness, SpawnService, SpawnFails, PumpReturns, StopReaped,
       StopTimesOut, CtlRestart, ReapOne, ReapDone, StartShell, ShutdownStop,
       PowerOff, Operator, CtlStart, CtlStop, Reload, Request, Shutdown, Tick,
       ReadSigUsr1, ReadSigChld, SplashTimerFires, NextEvent, EndOfBatch, Off,
       vars, tableVars, serviceVars, kernelVars, loopVars
  <2> QED
    BY <2>1 DEF GateComplete, InTable
<1>3. TypeOK /\ Ownership /\ GateComplete /\ [Next]_vars =>
        [\A n \in Names : spawns'[n] > spawns[n] =>
           /\ pc # "down"
           /\ \A i \in 1..Len(After[n]) :
                state'[After[n][i]] \in {"RUNNING", "DEGRADED"}]_vars
  <2> SUFFICES ASSUME TypeOK, Ownership, GateComplete, [Next]_vars,
                      NEW n \in Names, spawns'[n] > spawns[n]
               PROVE  /\ pc # "down"
                      /\ \A i \in 1..Len(After[n]) :
                           state'[After[n][i]] \in {"RUNNING", "DEGRADED"}
    OBVIOUS
  <2>1. \E p \in Pids : SpawnService(n, p)
    <3>1. ASSUME NEW m \in Names, NEW p \in Pids, SpawnService(m, p), m # n
          PROVE  FALSE
      BY <3>1 DEF SpawnService, TypeOK
    <3>2. ASSUME NEW m \in Names \cup {NoName}, NEW return, StartOne(m, return)
          PROVE  FALSE
      BY <3>2 DEF StartOne, TypeOK
    <3>3. ASSUME NEW p \in Pids, ReapOne(p) PROVE FALSE
      BY <3>3 DEF ReapOne, TypeOK
    <3>4. CASE Reload
      BY <3>4 DEF Reload, TypeOK
    <3>5. CASE \E m \in Names : CtlStart(m)
      BY <3>2, <3>5 DEF CtlStart
    <3>6. CASE CtlRestart
      BY <3>2, <3>6 DEF CtlRestart, TypeOK
    <3>7. CASE SplashTimerFires
      BY <3>2, <3>7, SimpleConstants, ZenonT(60) DEF SplashTimerFires
    <3>8. CASE StartShell
      BY <3>2, <3>8, SimpleConstants DEF StartShell, TypeOK
    <3>9. UNCHANGED spawns => FALSE
      BY DEF TypeOK
    <3>10. CASE Environment
      BY <3>9, <3>10, ZenonT(60) DEF Environment, Exit, SendReady, DelayPasses,
         serviceVars
    <3>11. CASE CheckReadiness \/ PumpReturns \/ StopReaped \/ StopTimesOut
                \/ ReapDone \/ PowerOff \/ Shutdown \/ Tick \/ ReadSigUsr1
                \/ ReadSigChld \/ NextEvent \/ EndOfBatch \/ UNCHANGED vars
      BY <3>9, <3>11, Zenon DEF CheckReadiness, PumpReturns, StopReaped,
         StopTimesOut,
         ReapDone, PowerOff, Shutdown, Tick, ReadSigUsr1, ReadSigChld,
         NextEvent, EndOfBatch, vars, serviceVars
    <3>12. CASE \E m \in Names : SpawnFails(m) \/ ShutdownStop(m) \/ CtlStop(m)
      BY <3>9, <3>12 DEF SpawnFails, ShutdownStop, CtlStop
    <3> QED
      BY <3>1, <3>3, <3>4, <3>5, <3>6, <3>7, <3>8, <3>10, <3>11, <3>12
      DEF Next, Handler, Pump, Operator, Off
  <2>2. PICK p \in Pids : SpawnService(n, p)
    BY <2>1, Zenon
  <2>3. pc = "spawn" /\ n \in Startable
    BY <2>2 DEF SpawnService, NextIs
  <2>4. n \in InTable
    BY <2>3 DEF Startable, Ownership, TableCovers
  <2>5. \A d \in deps[n] : state'[d] = state[d]
    BY <2>2, <2>3 DEF Startable, SpawnService, TypeOK
  <2> QED
    BY <2>3, <2>4, <2>5 DEF GateComplete, Startable
<1> QED
  BY <1>1, <1>2, <1>3, TypeCorrect, OwnershipInvariant, PTL
  DEF Spec, SpawnsAreGated
=============================================================================
