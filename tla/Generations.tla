---------------------------- MODULE Generations -----------------------------
(***************************************************************************)
(* System generations of mahina-control-d: candidate creation, activation, *)
(* health attestation, rollback, pinning and retention pruning.            *)
(*                                                                         *)
(* The daemon serves one request at a time.  What makes it hard is that an *)
(* operation is a series of separate durable writes, each atomic (write to *)
(* a temporary file, fsync, rename), and the machine can lose power or a   *)
(* write can fail between any two of them.  An action is the code up to    *)
(* and including one durable write; pc names the write that comes next.    *)
(***************************************************************************)
EXTENDS Integers, Sequences, FiniteSets

CONSTANTS
  MaxId,        \* bound: the last generation id handed out
  Quota,        \* retention_quota
  MaxAttempts,  \* max_attempts of a trial
  Pinnable,     \* generations that requests pin and unpin
  Explicit,     \* whether attest and rollback requests name a generation
  Faults,       \* "crash": power may be lost; "error": a write may fail
  MaxFaults     \* bound: how often one of these happens

Base == 1                  \* DEFAULT_BASELINE_GEN_ID
Ids  == Base..MaxId
None == 0                  \* no generation; no candidate

ASSUME GenerationsAssumption ==
  /\ MaxId \in Nat /\ Base <= MaxId /\ Quota \in Nat /\ MaxAttempts \in Nat
  /\ Pinnable \subseteq Ids /\ Explicit \in BOOLEAN /\ Faults \subseteq {"crash", "error"}
  /\ MaxFaults \in Nat

VARIABLES
  reg,       \* registry.json
  manifest,  \* <id>.manifest.json, NoManifest if there is none
  boot,      \* boot-state
  limine,    \* limine.conf: the generations of its first entries in order,
             \* the default before the others, and of the entries after them
  rootfs,    \* generations whose rootfs subvolume exists
  pc, arg,   \* the next write and the generation it is about
  todo,      \* prunable generations not yet deleted
  faults,    \* how many faults there have been
  last       \* history: the last boot-changing operation, "none" once one
             \* has been cut short or boot-state has moved on by itself

vars == <<reg, manifest, boot, limine, rootfs, pc, arg, todo, faults, last>>
files == <<reg, manifest, boot, limine, rootfs>>

Statuses == {"Staged", "Candidate", "Healthy", "Superseded", "Failed", "Pruned"}
PCs == {"idle", "snapshot", "stage", "register", "cleanup", "unstage",
        "entry", "candidate", "list", "healthy", "promote", "default",
        "prune", "sweep", "fail", "revert", "restore", "reentry"}
Creating == {"snapshot", "stage", "register", "cleanup", "unstage"}
NoManifest == [status |-> "none", parent |-> None]

Exists(g) == manifest[g] # NoManifest

\* The request is over.
Return == pc' = "idle" /\ arg' = None /\ todo' = {}

\* LimineConfigGenerator::generate: the trial candidate if the registry knows
\* it, the current generation, the fallback, then the other retained ones.
Entries(r, candidate) ==
  LET one(g, test) == IF test THEN <<g>> ELSE << >>
  IN  [first  |-> one(candidate, candidate \in r.list)
                    \o one(r.current, candidate # r.current)
                    \o one(r.fallback, r.fallback \notin {r.current, candidate}),
       others |-> {g \in r.list \ {r.current, r.fallback, candidate} :
                     r.status[g] \in {"Healthy", "Superseded"}}]

\* The generations that the boot menu offers.
Menu == {limine.first[i] : i \in DOMAIN limine.first} \cup limine.others

-----------------------------------------------------------------------------
(* transactional_create_candidate.                                         *)

\* Mutant of Create: the counter is left for the registration to save.
CreateKeepsNext ==
  /\ pc = "idle" /\ reg.next <= MaxId
  /\ arg' = reg.next
  /\ pc' = "snapshot"
  /\ UNCHANGED <<reg, manifest, boot, limine, rootfs, todo, last>>

\* allocate_next_id; the free-space check has passed.
Create ==
  /\ pc = "idle" /\ reg.next <= MaxId
  /\ arg' = reg.next
  /\ reg' = [reg EXCEPT !.next = @ + 1]
  /\ pc' = "snapshot"
  /\ UNCHANGED <<manifest, boot, limine, rootfs, todo, last>>

Snapshot ==
  /\ pc = "snapshot"
  /\ rootfs' = rootfs \cup {arg}
  /\ pc' = "stage"
  /\ UNCHANGED <<reg, manifest, boot, limine, arg, todo, last>>

StageManifest ==
  /\ pc = "stage"
  /\ manifest' = [manifest EXCEPT ![arg] =
                    [status |-> "Staged", parent |-> reg.current]]
  /\ pc' = "register"
  /\ UNCHANGED <<reg, boot, limine, rootfs, arg, todo, last>>

Register ==
  /\ pc = "register"
  /\ reg' = [reg EXCEPT !.list = @ \cup {arg}, !.status[arg] = "Staged"]
  /\ Return
  /\ UNCHANGED <<manifest, boot, limine, rootfs, last>>

\* The cleanup closure, after a failed write.
Cleanup ==
  /\ pc = "cleanup"
  /\ rootfs' = rootfs \ {arg}
  /\ pc' = "unstage"
  /\ UNCHANGED <<reg, manifest, boot, limine, arg, todo, last>>

\* remove_file of the manifest.
Unstage ==
  /\ pc = "unstage"
  /\ manifest' = [manifest EXCEPT ![arg] = NoManifest]
  /\ Return
  /\ UNCHANGED <<reg, boot, limine, rootfs, last>>

-----------------------------------------------------------------------------
(* activate_candidate.                                                     *)

\* The checks, and the trial record in boot-state.
Activate(g) ==
  /\ pc = "idle"
  /\ Exists(g) /\ manifest[g].status \in {"Staged", "Candidate"}
  /\ manifest[g].parent = reg.current
  /\ boot' = [gen |-> g, attempts |-> 0, stage |-> "trial",
              fallback |-> reg.current, health |-> "Pending"]
  /\ arg' = g /\ pc' = "entry" /\ last' = "none"
  /\ UNCHANGED <<reg, manifest, limine, rootfs, todo>>

WriteTrialEntry ==
  /\ pc = "entry"
  /\ limine' = Entries(reg, arg)
  /\ pc' = "candidate"
  /\ UNCHANGED <<reg, manifest, boot, rootfs, arg, todo, last>>

MarkCandidate ==
  /\ pc = "candidate"
  /\ manifest' = [manifest EXCEPT ![arg].status = "Candidate"]
  /\ pc' = "list"
  /\ UNCHANGED <<reg, boot, limine, rootfs, arg, todo, last>>

ListCandidate ==
  /\ pc = "list"
  /\ reg' = IF arg \in reg.list
              THEN [reg EXCEPT !.status[arg] = "Candidate"] ELSE reg
  /\ Return /\ last' = "activate"
  /\ UNCHANGED <<manifest, boot, limine, rootfs>>

\* BootState::record_attempt, called from early boot while a trial runs.
RecordAttempt ==
  /\ pc = "idle" /\ boot.stage = "trial"
  /\ boot' = IF boot.attempts + 1 > MaxAttempts
               THEN [boot EXCEPT !.attempts = @ + 1, !.stage = "failed_rollback",
                                 !.gen = boot.fallback, !.health = "Failed"]
               ELSE [boot EXCEPT !.attempts = @ + 1]
  /\ last' = IF boot'.stage = "trial" THEN last ELSE "none"
  /\ UNCHANGED <<reg, manifest, limine, rootfs, pc, arg, todo>>

-----------------------------------------------------------------------------
(* attest_and_mark_healthy, by uid 0 and with the health checks passed.    *)

Attest(g) ==
  /\ pc = "idle" /\ (g = boot.gen \/ Explicit) /\ Exists(g)
  /\ boot' = [boot EXCEPT !.gen = g, !.attempts = 0, !.stage = "normal",
                          !.health = "Healthy"]
  /\ arg' = g /\ pc' = "healthy" /\ last' = "none"
  /\ UNCHANGED <<reg, manifest, limine, rootfs, todo>>

MarkHealthy ==
  /\ pc = "healthy"
  /\ manifest' = [manifest EXCEPT ![arg].status = "Healthy"]
  /\ pc' = "promote"
  /\ UNCHANGED <<reg, boot, limine, rootfs, arg, todo, last>>

\* Mutant of Promote: the test for an already current target is missing.
PromoteAlways ==
  /\ pc = "promote"
  /\ reg' = [reg EXCEPT !.current = arg, !.fallback = reg.current]
  /\ pc' = "default"
  /\ UNCHANGED <<manifest, boot, limine, rootfs, arg, todo, last>>

\* The target becomes current and the old current generation the fallback;
\* nobody else loses the is_fallback mark.
Promote ==
  /\ pc = "promote"
  /\ LET old == reg.current
         listed == reg.list \cap {arg}
     IN  reg' = IF old = arg
           THEN [reg EXCEPT !.isCurrent = @ \cup listed,
                  !.status = [g \in Ids |-> IF g \in listed THEN "Healthy" ELSE @[g]]]
           ELSE [reg EXCEPT !.current = arg, !.fallback = old,
                  !.isCurrent = (@ \ {old}) \cup listed,
                  !.isFallback = (@ \cup (reg.list \cap {old})) \ listed,
                  !.status = [g \in Ids |->
                     IF g \in listed THEN "Healthy"
                     ELSE IF g = old /\ @[g] = "Healthy" THEN "Superseded"
                     ELSE @[g]]]
  /\ pc' = "default"
  /\ UNCHANGED <<manifest, boot, limine, rootfs, arg, todo, last>>

\* Mutant of Candidates: the pin tests are missing.
CandidatesWithPinned(r) ==
  {g \in r.list : /\ g \notin {r.current, r.fallback}
                  /\ g \notin r.isCurrent \cup r.isFallback
                  /\ r.status[g] \in {"Superseded", "Failed"}}

\* Mutant of Candidates: the fallback tests are missing.
CandidatesWithFallback(r) ==
  {g \in r.list : /\ g # r.current /\ g \notin r.isCurrent
                  /\ g \notin r.isPinned \cup r.pins
                  /\ r.status[g] \in {"Superseded", "Failed"}}

\* prunable_generations: the oldest of the superseded and failed ones that
\* carry no protection, as many as there are entries beyond the quota.
Candidates(r) ==
  {g \in r.list : /\ g \notin {r.current, r.fallback}
                  /\ g \notin r.isCurrent \cup r.isFallback
                  /\ g \notin r.isPinned \cup r.pins
                  /\ r.status[g] \in {"Superseded", "Failed"}}

Prunable(r) ==
  {g \in Candidates(r) :
     Cardinality({h \in Candidates(r) : h < g}) < Cardinality(r.list) - Quota}

\* limine.conf without the trial entry, and then execute_retention_prune.
WriteDefault ==
  /\ pc = "default"
  /\ limine' = Entries(reg, None)
  /\ IF Prunable(reg) = {}
       THEN Return /\ last' = "attest"
       ELSE todo' = Prunable(reg) /\ pc' = "prune" /\ UNCHANGED <<arg, last>>
  /\ UNCHANGED <<reg, manifest, boot, rootfs>>

\* The oldest one is next.
NextPruned == CHOOSE g \in todo : \A h \in todo : g <= h

\* delete_snapshot and remove_dir_all.
PruneSnapshot ==
  /\ pc = "prune" /\ todo # {}
  /\ arg' = NextPruned
  /\ rootfs' = rootfs \ {NextPruned}
  /\ pc' = "sweep"
  /\ UNCHANGED <<reg, manifest, boot, limine, todo, last>>

\* Its manifest, if there is one.
PruneManifest ==
  /\ pc = "sweep"
  /\ manifest' = [manifest EXCEPT ![arg].status =
                    IF Exists(arg) THEN "Pruned" ELSE @]
  /\ todo' = todo \ {arg}
  /\ pc' = "prune"
  /\ UNCHANGED <<reg, boot, limine, rootfs, arg, last>>

PruneRegistry ==
  /\ pc = "prune" /\ todo = {}
  /\ reg' = [reg EXCEPT !.status = [g \in Ids |->
               IF g \in Prunable(reg) THEN "Pruned" ELSE @[g]]]
  /\ Return /\ last' = "attest"
  /\ UNCHANGED <<manifest, boot, limine, rootfs>>

-----------------------------------------------------------------------------
(* rollback, to the named generation or to the designated fallback.        *)

\* The current generation is marked failed if it is a candidate; with nothing
\* to mark, boot-state is the first write.
Rollback(g) ==
  /\ pc = "idle" /\ (g = reg.fallback \/ Explicit) /\ g \in reg.list
  /\ arg' = g /\ last' = "none"
  /\ pc' = IF g # reg.current /\ manifest[reg.current].status = "Candidate"
             THEN "fail" ELSE "revert"
  /\ UNCHANGED <<reg, manifest, boot, limine, rootfs, todo>>

MarkFailed ==
  /\ pc = "fail"
  /\ manifest' = [manifest EXCEPT ![reg.current].status = "Failed"]
  /\ pc' = "revert"
  /\ UNCHANGED <<reg, boot, limine, rootfs, arg, todo, last>>

\* Mutant of WriteRevert: boot-state keeps the generation it names.
WriteRevertKeepsGen ==
  /\ pc = "revert"
  /\ boot' = [boot EXCEPT !.attempts = 0, !.stage = "failed_rollback",
                          !.fallback = arg, !.health = "Healthy"]
  /\ pc' = "restore"
  /\ UNCHANGED <<reg, manifest, limine, rootfs, arg, todo, last>>

WriteRevert ==
  /\ pc = "revert"
  /\ boot' = [gen |-> arg, attempts |-> 0, stage |-> "failed_rollback",
              fallback |-> arg, health |-> "Healthy"]
  /\ pc' = "restore"
  /\ UNCHANGED <<reg, manifest, limine, rootfs, arg, todo, last>>

Restore ==
  /\ pc = "restore"
  /\ LET old == reg.current
         left == {old} \ {arg}
     IN  reg' = [reg EXCEPT !.current = arg,
                  !.isCurrent = (@ \ left) \cup {arg},
                  !.status = [g \in Ids |->
                     IF g \in left /\ @[g] = "Candidate" THEN "Failed" ELSE @[g]]]
  /\ pc' = "reentry"
  /\ UNCHANGED <<manifest, boot, limine, rootfs, arg, todo, last>>

WriteReentry ==
  /\ pc = "reentry"
  /\ limine' = Entries(reg, None)
  /\ Return /\ last' = "rollback"
  /\ UNCHANGED <<reg, manifest, boot, rootfs>>

-----------------------------------------------------------------------------
(* set_pinned.                                                             *)

\* The manifest's own is_pinned, saved first, is only reported and left out.
SetPinned(g, pinned) ==
  /\ pc = "idle" /\ (pinned \/ g \notin {reg.current, reg.fallback})
  /\ reg' = IF pinned
       THEN [reg EXCEPT !.pins = @ \cup {g},
                        !.isPinned = @ \cup (reg.list \cap {g})]
       ELSE [reg EXCEPT !.pins = @ \ {g}, !.isPinned = @ \ {g}]
  /\ UNCHANGED <<manifest, boot, limine, rootfs, pc, arg, todo, last>>

-----------------------------------------------------------------------------
\* Power is lost, or the daemon dies, before the next write.
Crash ==
  /\ pc # "idle" /\ "crash" \in Faults
  /\ Return
  /\ last' = IF pc \in Creating THEN last ELSE "none"

\* The next write fails: creation cleans up, a few errors are ignored, and
\* for the rest the operation returns the error.
WriteFails ==
  /\ "error" \in Faults
  /\ \/ /\ pc \in {"stage", "register"} /\ pc' = "cleanup"
        /\ UNCHANGED <<arg, todo, last>>
     \/ /\ pc = "cleanup" /\ pc' = "unstage"
        /\ UNCHANGED <<arg, todo, last>>
     \/ /\ pc \in {"snapshot", "unstage"} /\ Return
        /\ UNCHANGED last
     \/ /\ pc = "prune" /\ todo # {} /\ arg' = NextPruned /\ pc' = "sweep"
        /\ UNCHANGED <<todo, last>>
     \/ /\ pc = "sweep" /\ todo' = todo \ {arg} /\ pc' = "prune"
        /\ UNCHANGED <<arg, last>>
     \/ /\ pc = "fail" /\ pc' = "revert"
        /\ UNCHANGED <<arg, todo, last>>
     \/ /\ pc \notin Creating \cup {"idle", "sweep", "fail"}
        /\ (pc = "prune" => todo = {})
        /\ Return /\ last' = "none"

Fault ==
  /\ faults < MaxFaults /\ faults' = faults + 1
  /\ Crash \/ WriteFails
  /\ UNCHANGED files

\* What init_if_needed writes on first use, next to the installed baseline.
Init ==
  /\ reg = [current |-> Base, fallback |-> Base, next |-> Base + 1,
            pins |-> {Base}, list |-> {Base},
            status |-> [g \in Ids |-> IF g = Base THEN "Healthy" ELSE "Staged"],
            isCurrent |-> {Base}, isFallback |-> {Base}, isPinned |-> {Base}]
  /\ manifest = [g \in Ids |->
       IF g = Base THEN [status |-> "Healthy", parent |-> None]
                   ELSE NoManifest]
  /\ boot = [gen |-> Base, attempts |-> 0, stage |-> "normal",
             fallback |-> Base, health |-> "Healthy"]
  /\ limine = [first |-> <<Base>>, others |-> {}] /\ rootfs = {Base}
  /\ pc = "idle" /\ arg = None /\ todo = {} /\ faults = 0 /\ last = "none"

Request ==
  \/ Create
  \/ \E g \in Ids : Activate(g) \/ Attest(g) \/ Rollback(g)
  \/ \E g \in Pinnable, pinned \in BOOLEAN : SetPinned(g, pinned)

NextWrite ==
  \/ Snapshot \/ StageManifest \/ Register \/ Cleanup \/ Unstage
  \/ WriteTrialEntry \/ MarkCandidate \/ ListCandidate
  \/ MarkHealthy \/ Promote \/ WriteDefault
  \/ PruneSnapshot \/ PruneManifest \/ PruneRegistry
  \/ MarkFailed \/ WriteRevert \/ Restore \/ WriteReentry

Next ==
  \/ (Request \/ NextWrite \/ RecordAttempt) /\ UNCHANGED faults
  \/ Fault

Spec == Init /\ [][Next]_vars

-----------------------------------------------------------------------------
(* Properties.                                                             *)

\* The files and the daemon's progress keep their types; a trial counts at
\* most max_attempts attempts (BootState::record_attempt) and at most one more
\* is ever recorded.
TypeOK ==
  /\ reg \in [current : Ids, fallback : Ids, next : Base..MaxId + 1,
              pins : SUBSET Ids, list : SUBSET Ids, status : [Ids -> Statuses],
              isCurrent : SUBSET Ids, isFallback : SUBSET Ids,
              isPinned : SUBSET Ids]
  /\ manifest \in [Ids -> {NoManifest} \cup
       [status : Statuses, parent : Ids \cup {None}]]
  /\ boot \in [gen : Ids, attempts : 0..MaxAttempts + 1,
               stage : {"normal", "trial", "failed_rollback"},
               fallback : Ids, health : {"Pending", "Healthy", "Failed"}]
  /\ boot.stage = "trial" => boot.attempts <= MaxAttempts
  /\ limine \in [first : Seq(Ids), others : SUBSET Ids]
  /\ rootfs \subseteq Ids /\ todo \subseteq Ids
  /\ pc \in PCs /\ arg \in Ids \cup {None} /\ faults \in 0..MaxFaults
  /\ last \in {"none", "activate", "attest", "rollback"}

\* allocate_next_id saves the counter before anything is made for the id, so
\* wherever creation is cut short the next candidate gets an id for which no
\* subvolume, manifest or registry entry was left behind.
IdsAreFresh ==
  \A g \in Ids : g >= reg.next =>
     g \notin rootfs \cup reg.list /\ ~Exists(g)

\* What execute_retention_prune deletes is nothing the machine may boot: not
\* the current, fallback or a pinned generation (state.rs: "Strict
\* invariant"), not what boot-state names, and not an entry of limine.conf,
\* which is not rewritten after the sweep.
PruneIsSafe ==
  [][\A g \in rootfs \ rootfs' : pc = "prune" =>
        g \notin {reg.current, reg.fallback, boot.gen} \cup reg.pins \cup Menu]_vars

\* An attestation or a rollback that ran to its end left the three places
\* that name the running generation in agreement, whatever was left behind
\* by operations cut short before it: registry, boot-state and the default
\* entry of limine.conf.
SwitchIsComplete ==
  last \in {"attest", "rollback"} =>
     boot.gen = reg.current /\ limine.first[1] = reg.current /\ boot.stage # "trial"

\* Only a rollback makes the fallback coincide with the current generation:
\* promotion always leaves the generation it replaced as the way back, also
\* when attestation is repeated after a crash.
PromotionKeepsWayBack ==
  [][reg.current # reg.fallback /\ reg'.current = reg'.fallback
       => pc = "restore"]_vars

\* At every moment of an upgrade, a power loss included, each entry of
\* limine.conf, the generation boot-state names and the one it falls back to
\* after max_attempts have a rootfs to boot.
AlwaysBootable ==
  /\ Menu \subseteq rootfs
  /\ {boot.gen, boot.fallback, reg.current, reg.fallback} \subseteq rootfs
=============================================================================
