----------------------------- MODULE MCStartup ------------------------------
(***************************************************************************)
(* luna-init's start, hand-over and end beside luna-splash, and what       *)
(* luna-splash draws; side says what this behaviour is about.              *)
(***************************************************************************)
EXTENDS Startup, SplashPaint

VARIABLE side

MCEarly == <<"proc", "sys", "dev", "cgroup">>
MCCritical == {"proc", "sys", "dev"}
MCParent == [p \in {"proc", "sys", "dev", "cgroup", "pts", "tmp"} |->
               CASE p = "cgroup" -> "sys" [] p = "pts" -> "dev" [] OTHER -> p]
\* The shape of the shipped file; one that repeats a mount; one with an
\* incomplete entry and no critical mount.
MCFstabs == {<<"proc", "sys", "dev", "pts", "tmp">>,
             <<"tmp", "tmp", "dev">>,
             <<"incomplete", "tmp">>}

all == <<startup, fb, side>>

PaintRests == fb = CHOOSE s \in Screens : TRUE
StartupRests == StartupInit /\ mounts["dev"] = 1 /\ fstab = <<"incomplete", "tmp">>

Init ==
  \/ side = "boot" /\ StartupRests /\ PaintRests
  \/ side = "mounts" /\ StartupInit /\ PaintRests
  \/ side = "screen" /\ StartupRests /\ fb \in Screens

\* Mounts and splash meet only in the order of main, so each is explored in
\* full beside a plain run of the other: "boot" has early mounts that succeed,
\* "mounts" has no splash.
Next ==
  /\ UNCHANGED side
  /\ \/ /\ side = "boot" /\ StartupNext /\ UNCHANGED fb
        /\ at = "early" => Len(g_mounts') = i
     \/ /\ side = "mounts" /\ StartupNext /\ UNCHANGED fb
        /\ splash' = "none"

Spec == Init /\ [][Next]_all /\ StartupFair
=============================================================================
