---------------------------- MODULE MCSupervisor ----------------------------
(***************************************************************************)
(* Instances of Supervisor for TLC.  The spine is that of the shipped      *)
(* service files: dbus, the compositor after dbus, the shell after the     *)
(* compositor, in a directory order that is not the start order.  The pair *)
(* leaves dbus out and lets the compositor report readiness by SIGUSR1.    *)
(***************************************************************************)
EXTENDS Supervisor, TLC

AllNames == {"dbus", "lgp-compositor", "luna-shell"}
PairNames == {"lgp-compositor", "luna-shell"}

SpineAfter == [n \in AllNames |->
                 CASE n = "dbus" -> << >>
                   [] n = "lgp-compositor" -> <<"dbus">>
                   [] n = "luna-shell" -> <<"lgp-compositor">>]
PairAfter == [n \in PairNames |->
                IF n = "luna-shell" THEN <<"lgp-compositor">> ELSE << >>]
NoBefore == [n \in Names |-> << >>]

SpineDirs == {<<"luna-shell", "dbus", "lgp-compositor">>}
PairDir == {<<"lgp-compositor", "luna-shell">>}
\* The directory as it was, listed in the other order, and without the
\* compositor's file.
ChangingDirs == {<<"lgp-compositor", "luna-shell">>,
                 <<"luna-shell", "lgp-compositor">>, <<"luna-shell">>}

AlwaysRestart == [n \in Names |-> "always"]
MixedPolicy == [n \in Names |->
                  IF n = "luna-shell" THEN "on-failure" ELSE "always"]
OneForDbus == [n \in Names |-> IF n = "dbus" THEN 1 ELSE 0]
OneForCompositor == [n \in Names |-> IF n = "lgp-compositor" THEN 1 ELSE 0]
NoRestarts == [n \in Names |-> 0]
OneEach == [n \in Names |-> 1]

SpineMethod == [n \in Names |->
                  IF n = "luna-shell" THEN "none" ELSE "probe"]
PairMethod == [n \in Names |->
                 IF n = "luna-shell" THEN "none" ELSE "signal"]

\* A service that waits for the shell, and so for the compositor at one remove.
IslandNames == {"lgp-compositor", "luna-shell", "luna-island"}
IslandAfter == [n \in IslandNames |->
                  CASE n = "lgp-compositor" -> << >>
                    [] n = "luna-shell" -> <<"lgp-compositor">>
                    [] n = "luna-island" -> <<"luna-shell">>]
IslandDirs == {<<"lgp-compositor", "luna-shell", "luna-island">>}

\* dbus is also listed to start before the shell.
ShellLast == [n \in AllNames |->
                IF n = "dbus" THEN <<"luna-shell">> ELSE << >>]

AllProbe == [n \in Names |-> "probe"]

PidSymmetry == Permutations(Pids)
=============================================================================
