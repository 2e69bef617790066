------------------------- MODULE GenerationsProofs --------------------------
(***************************************************************************)
(* Generations, for any number of them, any quota, any faults and any      *)
(* requests: ids are never reused, a switch that ran to its end left all   *)
(* places in agreement, and retention deletes nothing that may boot; and   *)
(* for upgrades that follow the intended path, something always boots.     *)
(* And, sharing no state with them, the relay of luna-ai-d, for every      *)
(* answer and every way it is cut into reads.                              *)
(***************************************************************************)
EXTENDS Generations, AiRelay, WellFoundedInduction, TLAPS

\* A leaf that names no prover goes to SMT, to Zenon and to SMT once more, the
\* solver's encoding being limited by the clock.
USE SMTT(30), Zenon, SMTT(60)

\* What of the types the argument needs.
RegistryType ==
  [current : Ids, fallback : Ids, next : Base..MaxId + 1,
   pins : SUBSET Ids, list : SUBSET Ids, status : [Ids -> Statuses],
   isCurrent : SUBSET Ids, isFallback : SUBSET Ids, isPinned : SUBSET Ids]

ManifestType ==
  {NoManifest} \cup [status : Statuses, parent : Ids \cup {None}]

Types ==
  /\ reg \in RegistryType
  /\ manifest \in [Ids -> ManifestType]
  /\ arg \in Ids \cup {None} /\ pc \in PCs

\* Every id an operation still works on has been handed out before.
Handed ==
  /\ reg.current < reg.next
  /\ pc # "idle" => arg \in Ids /\ arg < reg.next
  /\ \A g \in todo : g \in Ids /\ g < reg.next
  /\ pc = "sweep" => arg \in todo

IdsInv == Types /\ Handed /\ IdsAreFresh

\* First use leaves only the baseline behind.
LEMMA IdsInit == Init => IdsInv
<1> USE GenerationsAssumption DEF Base, Ids, None
<1> SUFFICES ASSUME Init PROVE IdsInv
  OBVIOUS
<1>1. Types
  BY DEF Init, Types, RegistryType, ManifestType, Statuses, PCs, NoManifest
<1>2. Handed
  BY DEF Init, Handed
<1>3. IdsAreFresh
  BY DEF Init, IdsAreFresh, Exists
<1> QED
  BY <1>1, <1>2, <1>3 DEF IdsInv

\* What retention selects is in the registry.
LEMMA PrunableListed == \A g \in Prunable(reg) : g \in reg.list
  BY DEF Prunable, Candidates

\* What is listed, or has a manifest, was handed out.
LEMMA KnownIsHanded ==
  ASSUME IdsInv
  PROVE  \A g \in Ids : g \in reg.list \/ Exists(g) => g < reg.next
  BY GenerationsAssumption DEF IdsInv, Types, RegistryType, IdsAreFresh, Ids,
     Base

\* A set of ids that is not empty has a least one.
LEMMA LeastId ==
  ASSUME NEW P, P \subseteq Nat, P # {}
  PROVE  \E k \in P : \A l \in P : ~(l < k)
<1>1. \E k \in P : \A l \in P : ~(<<l, k>> \in OpToRel(<, Nat))
  BY NatLessThanWellFounded, WFMin
<1> QED
  BY <1>1, Zenon DEF OpToRel

\* The oldest prunable generation is a prunable one.
LEMMA NextIsTodo ==
  ASSUME todo # {}, todo \subseteq Ids
  PROVE  NextPruned \in todo
<1>1. todo \subseteq Nat
  BY GenerationsAssumption DEF Ids, Base
<1>2. \E k \in todo : \A l \in todo : ~(l < k)
  BY <1>1, LeastId, Zenon
<1>3. \E k \in todo : \A l \in todo : k <= l
  BY <1>1, <1>2
<1> QED
  BY <1>3 DEF NextPruned

\* Each step keeps the invariant.
LEMMA IdsStep == IdsInv /\ [Next]_vars => IdsInv'
<1> USE GenerationsAssumption
<1> SUFFICES ASSUME IdsInv, [Next]_vars PROVE IdsInv'
  OBVIOUS
<1>0. Types /\ Handed /\ IdsAreFresh
  BY DEF IdsInv
<1>1. ASSUME Create PROVE IdsInv'
  <2>1. Types'
    <3>1. reg.next \in Base..MaxId + 1 /\ reg.next <= MaxId
      BY <1>0, <1>1 DEF Types, RegistryType, Create
    <3>2. reg.next \in Ids /\ reg.next + 1 \in Base..MaxId + 1
      BY <3>1 DEF Ids, Base
    <3>3. reg' \in RegistryType
      BY <3>2, <1>0, <1>1 DEF Types, RegistryType, Create
    <3> QED
      BY <3>2, <3>3, <1>0, <1>1 DEF Types, PCs, Create
  <2>2. Handed'
    BY <1>0, <1>1 DEF Types, RegistryType, Handed, Create, Ids, Base
  <2>3. IdsAreFresh'
    BY <1>0, <1>1 DEF Types, RegistryType, Handed, IdsAreFresh, Exists, Create,
       Ids, Base
  <2> QED
    BY <2>1, <2>2, <2>3 DEF IdsInv
<1>2. ASSUME Snapshot PROVE IdsInv'
  <2>1. Types'
    BY <1>0, <1>2 DEF Types, Handed, PCs, Snapshot
  <2>2. Handed'
    BY <1>0, <1>2 DEF Types, RegistryType, Handed, Snapshot, Ids, Base
  <2>3. IdsAreFresh'
    BY <1>0, <1>2 DEF Types, RegistryType, Handed, IdsAreFresh, Exists,
       Snapshot, Ids, Base
  <2> QED
    BY <2>1, <2>2, <2>3 DEF IdsInv
<1>3. ASSUME StageManifest PROVE IdsInv'
  <2>1. Types'
    BY <1>0, <1>3 DEF Types, RegistryType, ManifestType, Handed, PCs, Statuses,
       NoManifest, Exists, Return, StageManifest, Ids, Base, None
  <2>2. Handed'
    BY <1>0, <1>3 DEF Types, RegistryType, Handed, StageManifest, Ids, Base
  <2>3. IdsAreFresh'
    BY <1>0, <1>3 DEF Types, RegistryType, Handed, IdsAreFresh, Exists,
       StageManifest, Ids, Base
  <2> QED
    BY <2>1, <2>2, <2>3 DEF IdsInv
<1>4. ASSUME Register PROVE IdsInv'
  <2>1. Types'
    <3>1. reg' \in RegistryType
      BY <1>0, <1>4, Zenon DEF Types, RegistryType, Handed, Statuses, Register,
         Base
    <3> QED
      BY <3>1, <1>0, <1>4 DEF Types, Handed, PCs, Return, Register
  <2>2. Handed'
    BY <1>0, <1>4 DEF Types, RegistryType, Handed, PCs, Exists, Return,
       Register, Ids, Base, None
  <2>3. IdsAreFresh'
    BY <1>0, <1>4 DEF Types, RegistryType, Handed, IdsAreFresh, Exists,
       Register, Ids, Base
  <2> QED
    BY <2>1, <2>2, <2>3 DEF IdsInv
<1>5. ASSUME Cleanup PROVE IdsInv'
  <2>1. Types'
    BY <1>0, <1>5 DEF Types, Handed, PCs, Cleanup
  <2>2. Handed'
    BY <1>0, <1>5 DEF Types, RegistryType, Handed, Cleanup, Ids, Base
  <2>3. IdsAreFresh'
    BY <1>0, <1>5 DEF Types, RegistryType, Handed, IdsAreFresh, Exists,
       Cleanup, Ids, Base
  <2> QED
    BY <2>1, <2>2, <2>3 DEF IdsInv
<1>6. ASSUME Unstage PROVE IdsInv'
  <2>1. Types'
    BY <1>0, <1>6 DEF Types, RegistryType, ManifestType, Handed, PCs, Statuses,
       NoManifest, Exists, Return, Unstage, Ids, Base, None
  <2>2. Handed'
    BY <1>0, <1>6 DEF Types, RegistryType, Handed, PCs, Exists, Return,
       Unstage, Ids, Base, None
  <2>3. IdsAreFresh'
    BY <1>0, <1>6 DEF Types, RegistryType, Handed, IdsAreFresh, Exists,
       Unstage, Ids, Base
  <2> QED
    BY <2>1, <2>2, <2>3 DEF IdsInv
<1>7. ASSUME NEW g \in Ids, Activate(g) PROVE IdsInv'
  <2>1. Types'
    BY <1>0, <1>7, KnownIsHanded DEF Types, Handed, PCs, Activate
  <2>2. Handed'
    BY <1>0, <1>7, KnownIsHanded DEF Types, RegistryType, Handed, Activate,
       Ids, Base
  <2>3. IdsAreFresh'
    BY <1>0, <1>7, KnownIsHanded DEF Types, RegistryType, Handed, IdsAreFresh,
       Exists, Activate, Ids, Base
  <2> QED
    BY <2>1, <2>2, <2>3 DEF IdsInv
<1>8. ASSUME WriteTrialEntry PROVE IdsInv'
  <2>1. Types'
    BY <1>0, <1>8 DEF Types, Handed, PCs, WriteTrialEntry
  <2>2. Handed'
    BY <1>0, <1>8 DEF Types, RegistryType, Handed, WriteTrialEntry, Ids, Base
  <2>3. IdsAreFresh'
    BY <1>0, <1>8 DEF Types, RegistryType, Handed, IdsAreFresh, Exists,
       WriteTrialEntry, Ids, Base
  <2> QED
    BY <2>1, <2>2, <2>3 DEF IdsInv
<1>9. ASSUME MarkCandidate PROVE IdsInv'
  <2>1. Types'
    <3>1. manifest' \in [Ids -> ManifestType]
      BY <1>0, <1>9 DEF Types, RegistryType, ManifestType, NoManifest, Exists,
         Handed, Statuses, MarkCandidate
    <3> QED
      BY <3>1, <1>0, <1>9 DEF Types, PCs, MarkCandidate
  <2>2. Handed'
    BY <1>0, <1>9 DEF Types, RegistryType, Handed, MarkCandidate, Ids, Base
  <2>3. IdsAreFresh'
    BY <1>0, <1>9 DEF Types, RegistryType, Handed, IdsAreFresh, Exists,
       MarkCandidate, Ids, Base
  <2> QED
    BY <2>1, <2>2, <2>3 DEF IdsInv
<1>10. ASSUME ListCandidate PROVE IdsInv'
  <2>1. Types'
    <3>1. reg' \in RegistryType
      BY <1>0, <1>10 DEF Types, RegistryType, Handed, Statuses, ListCandidate,
         Base
    <3> QED
      BY <3>1, <1>0, <1>10 DEF Types, Handed, PCs, Return, ListCandidate
  <2>2. Handed'
    BY <1>0, <1>10 DEF Types, RegistryType, Handed, PCs, Exists, Return,
       ListCandidate, Ids, Base, None
  <2>3. IdsAreFresh'
    BY <1>0, <1>10 DEF Types, RegistryType, Handed, IdsAreFresh, Exists,
       ListCandidate, Ids, Base
  <2> QED
    BY <2>1, <2>2, <2>3 DEF IdsInv
<1>11. ASSUME RecordAttempt PROVE IdsInv'
  <2>1. Types'
    BY <1>0, <1>11 DEF Types, Handed, PCs, RecordAttempt
  <2>2. Handed'
    BY <1>0, <1>11 DEF Types, RegistryType, Handed, RecordAttempt, Ids, Base
  <2>3. IdsAreFresh'
    BY <1>0, <1>11 DEF Types, RegistryType, Handed, IdsAreFresh, Exists,
       RecordAttempt, Ids, Base
  <2> QED
    BY <2>1, <2>2, <2>3 DEF IdsInv
<1>12. ASSUME NEW g \in Ids, Attest(g) PROVE IdsInv'
  <2>1. Types'
    BY <1>0, <1>12, KnownIsHanded DEF Types, Handed, PCs, Attest
  <2>2. Handed'
    BY <1>0, <1>12, KnownIsHanded DEF Types, RegistryType, Handed, Attest, Ids,
       Base
  <2>3. IdsAreFresh'
    BY <1>0, <1>12, KnownIsHanded DEF Types, RegistryType, Handed, IdsAreFresh,
       Exists, Attest, Ids, Base
  <2> QED
    BY <2>1, <2>2, <2>3 DEF IdsInv
<1>13. ASSUME MarkHealthy PROVE IdsInv'
  <2>1. Types'
    <3>1. manifest' \in [Ids -> ManifestType]
      BY <1>0, <1>13 DEF Types, RegistryType, ManifestType, NoManifest, Exists,
         Handed, Statuses, MarkHealthy
    <3> QED
      BY <3>1, <1>0, <1>13 DEF Types, PCs, MarkHealthy
  <2>2. Handed'
    BY <1>0, <1>13 DEF Types, RegistryType, Handed, MarkHealthy, Ids, Base
  <2>3. IdsAreFresh'
    BY <1>0, <1>13 DEF Types, RegistryType, Handed, IdsAreFresh, Exists,
       MarkHealthy, Ids, Base
  <2> QED
    BY <2>1, <2>2, <2>3 DEF IdsInv
<1>14. ASSUME Promote PROVE IdsInv'
  <2>1. Types'
    <3>1. reg' \in RegistryType
      BY <1>0, <1>14, ZenonT(60) DEF Types, RegistryType, Handed, Statuses, Promote,
         Base
    <3> QED
      BY <3>1, <1>0, <1>14 DEF Types, Handed, PCs, Promote
  <2>2. Handed'
    BY <1>0, <1>14 DEF Types, RegistryType, Handed, Promote, Ids, Base
  <2>3. IdsAreFresh'
    BY <1>0, <1>14 DEF Types, RegistryType, Handed, IdsAreFresh, Exists,
       Promote, Ids, Base
  <2> QED
    BY <2>1, <2>2, <2>3 DEF IdsInv
<1>15. ASSUME WriteDefault PROVE IdsInv'
  <2>1. Types'
    BY <1>0, <1>15, KnownIsHanded, PrunableListed DEF Types, RegistryType,
       ManifestType, Handed, PCs, Statuses, NoManifest, Exists, Return,
       WriteDefault, Ids, Base, None
  <2>2. Handed'
    BY <1>0, <1>15, KnownIsHanded, PrunableListed DEF Types, RegistryType,
       Handed, PCs, Exists, Return, WriteDefault, Ids, Base, None
  <2>3. IdsAreFresh'
    BY <1>0, <1>15, KnownIsHanded, PrunableListed DEF Types, RegistryType,
       Handed, IdsAreFresh, Exists, WriteDefault, Ids, Base
  <2> QED
    BY <2>1, <2>2, <2>3 DEF IdsInv
<1>16. ASSUME PruneSnapshot PROVE IdsInv'
  <2>1. Types'
    BY <1>0, <1>16, NextIsTodo DEF Types, Handed, PCs, PruneSnapshot
  <2>2. Handed'
    BY <1>0, <1>16, NextIsTodo DEF Types, RegistryType, Handed, PruneSnapshot,
       Ids, Base
  <2>3. IdsAreFresh'
    BY <1>0, <1>16, NextIsTodo DEF Types, RegistryType, Handed, IdsAreFresh,
       Exists, PruneSnapshot, Ids, Base
  <2> QED
    BY <2>1, <2>2, <2>3 DEF IdsInv
<1>17. ASSUME PruneManifest PROVE IdsInv'
  <2>1. Types'
    <3>1. manifest' \in [Ids -> ManifestType]
      BY <1>0, <1>17 DEF Types, RegistryType, ManifestType, NoManifest, Exists,
         Handed, Statuses, PruneManifest
    <3> QED
      BY <3>1, <1>0, <1>17 DEF Types, PCs, PruneManifest
  <2>2. Handed'
    BY <1>0, <1>17 DEF Types, RegistryType, Handed, PCs, Exists, Return,
       PruneManifest, Ids, Base, None
  <2>3. IdsAreFresh'
    BY <1>0, <1>17 DEF Types, RegistryType, Handed, IdsAreFresh, Exists,
       PruneManifest, Ids, Base
  <2> QED
    BY <2>1, <2>2, <2>3 DEF IdsInv
<1>18. ASSUME PruneRegistry PROVE IdsInv'
  <2>1. Types'
    <3>1. reg' \in RegistryType
      BY <1>0, <1>18 DEF Types, RegistryType, Handed, Statuses, PruneRegistry,
         Base
    <3> QED
      BY <3>1, <1>0, <1>18 DEF Types, Handed, PCs, Return, PruneRegistry
  <2>2. Handed'
    BY <1>0, <1>18 DEF Types, RegistryType, Handed, PCs, Exists, Return,
       PruneRegistry, Ids, Base, None
  <2>3. IdsAreFresh'
    BY <1>0, <1>18 DEF Types, RegistryType, Handed, IdsAreFresh, Exists,
       PruneRegistry, Ids, Base
  <2> QED
    BY <2>1, <2>2, <2>3 DEF IdsInv
<1>19. ASSUME NEW g \in Ids, Rollback(g) PROVE IdsInv'
  <2>1. Types'
    BY <1>0, <1>19, KnownIsHanded DEF Types, Handed, PCs, Rollback
  <2>2. Handed'
    BY <1>0, <1>19, KnownIsHanded DEF Types, RegistryType, Handed, Rollback,
       Ids, Base
  <2>3. IdsAreFresh'
    BY <1>0, <1>19, KnownIsHanded DEF Types, RegistryType, Handed, IdsAreFresh,
       Exists, Rollback, Ids, Base
  <2> QED
    BY <2>1, <2>2, <2>3 DEF IdsInv
<1>20. ASSUME MarkFailed PROVE IdsInv'
  <2>1. Types'
    <3>1. manifest' \in [Ids -> ManifestType]
      BY <1>0, <1>20 DEF Types, RegistryType, ManifestType, NoManifest, Exists,
         Handed, Statuses, MarkFailed
    <3> QED
      BY <3>1, <1>0, <1>20 DEF Types, PCs, MarkFailed
  <2>2. Handed'
    BY <1>0, <1>20 DEF Types, RegistryType, Handed, MarkFailed, Ids, Base
  <2>3. IdsAreFresh'
    BY <1>0, <1>20 DEF Types, RegistryType, Handed, IdsAreFresh, Exists,
       MarkFailed, Ids, Base
  <2> QED
    BY <2>1, <2>2, <2>3 DEF IdsInv
<1>21. ASSUME WriteRevert PROVE IdsInv'
  <2>1. Types'
    BY <1>0, <1>21 DEF Types, Handed, PCs, WriteRevert
  <2>2. Handed'
    BY <1>0, <1>21 DEF Types, RegistryType, Handed, WriteRevert, Ids, Base
  <2>3. IdsAreFresh'
    BY <1>0, <1>21 DEF Types, RegistryType, Handed, IdsAreFresh, Exists,
       WriteRevert, Ids, Base
  <2> QED
    BY <2>1, <2>2, <2>3 DEF IdsInv
<1>22. ASSUME Restore PROVE IdsInv'
  <2>1. Types'
    <3>1. reg' \in RegistryType
      BY <1>0, <1>22, Zenon DEF Types, RegistryType, Handed, Statuses, Restore,
         Base
    <3> QED
      BY <3>1, <1>0, <1>22 DEF Types, Handed, PCs, Restore
  <2>2. Handed'
    BY <1>0, <1>22 DEF Types, RegistryType, Handed, Restore, Ids, Base
  <2>3. IdsAreFresh'
    BY <1>0, <1>22 DEF Types, RegistryType, Handed, IdsAreFresh, Exists,
       Restore, Ids, Base
  <2> QED
    BY <2>1, <2>2, <2>3 DEF IdsInv
<1>23. ASSUME WriteReentry PROVE IdsInv'
  <2>1. Types'
    BY <1>0, <1>23 DEF Types, RegistryType, ManifestType, Handed, PCs,
       Statuses, NoManifest, Exists, Return, WriteReentry, Ids, Base, None
  <2>2. Handed'
    BY <1>0, <1>23 DEF Types, RegistryType, Handed, PCs, Exists, Return,
       WriteReentry, Ids, Base, None
  <2>3. IdsAreFresh'
    BY <1>0, <1>23 DEF Types, RegistryType, Handed, IdsAreFresh, Exists,
       WriteReentry, Ids, Base
  <2> QED
    BY <2>1, <2>2, <2>3 DEF IdsInv
<1>24. ASSUME NEW g \in Pinnable, NEW pinned \in BOOLEAN, SetPinned(g, pinned)
       PROVE  IdsInv'
  <2>1. Types'
    <3>1. reg' \in RegistryType
      BY <1>0, <1>24, ZenonT(60) DEF Types, RegistryType, Handed, Statuses,
         SetPinned, Base
    <3> QED
      BY <3>1, <1>0, <1>24 DEF Types, Handed, PCs, SetPinned
  <2>2. Handed'
    BY <1>0, <1>24 DEF Types, RegistryType, Handed, SetPinned, Ids, Base
  <2>3. IdsAreFresh'
    BY <1>0, <1>24 DEF Types, RegistryType, Handed, IdsAreFresh, Exists,
       SetPinned, Ids, Base
  <2> QED
    BY <2>1, <2>2, <2>3 DEF IdsInv
<1>25. ASSUME Fault PROVE IdsInv'
  <2>1. Types'
    BY <1>0, <1>25, NextIsTodo DEF Types, RegistryType, ManifestType,
       Handed,
       PCs, Statuses, NoManifest, Exists, Return, Fault, Crash, WriteFails,
       Creating, files, Ids, Base, None
  <2>2. Handed'
    BY <1>0, <1>25, NextIsTodo DEF Types, RegistryType, Handed, PCs, Exists,
       Return, Fault, Crash, WriteFails, Creating, files, Ids, Base, None
  <2>3. IdsAreFresh'
    BY <1>0, <1>25, NextIsTodo DEF Types, RegistryType, Handed, IdsAreFresh,
       Exists, Fault, Crash, WriteFails, Creating, files, Ids, Base
  <2> QED
    BY <2>1, <2>2, <2>3 DEF IdsInv
<1>26. ASSUME UNCHANGED vars PROVE IdsInv'
  <2>1. Types'
    BY <1>0, <1>26 DEF Types, RegistryType, ManifestType, Handed, PCs,
       Statuses, NoManifest, Exists, Return, vars, files, Ids, Base, None
  <2>2. Handed'
    BY <1>0, <1>26 DEF Types, RegistryType, Handed, vars, files, Ids, Base
  <2>3. IdsAreFresh'
    BY <1>0, <1>26 DEF Types, RegistryType, Handed, IdsAreFresh, Exists, vars,
       files, Ids, Base
  <2> QED
    BY <2>1, <2>2, <2>3 DEF IdsInv
<1> QED
  BY <1>1, <1>2, <1>3, <1>4, <1>5, <1>6, <1>7, <1>8, <1>9, <1>10, <1>11,
     <1>12, <1>13, <1>14, <1>15, <1>16, <1>17, <1>18, <1>19, <1>20, <1>21,
     <1>22, <1>23, <1>24, <1>25, <1>26 DEF Next, Request, NextWrite

\* IdsAreFresh, for every bound, quota, fault and sequence of requests: an id is
\* never handed out while something of an earlier attempt carries it.
THEOREM IdsNeverReused == Spec => []IdsAreFresh
<1>1. IdsInv => IdsAreFresh
  BY DEF IdsInv
<1> QED
  BY IdsInit, IdsStep, <1>1, PTL DEF Spec

-----------------------------------------------------------------------------
(* A switch of generations that ran to its end.                            *)

BootType ==
  [gen : Ids, attempts : 0..MaxAttempts + 1,
   stage : {"normal", "trial", "failed_rollback"},
   fallback : Ids, health : {"Pending", "Healthy", "Failed"}]

LimineType == [first : Seq(Ids), others : SUBSET Ids]

\* The types of the files that ids do not depend on.
FileTypes ==
  /\ boot \in BootType
  /\ boot.stage = "trial" => boot.attempts <= MaxAttempts
  /\ limine \in LimineType
  /\ rootfs \subseteq Ids
  /\ last \in {"none", "activate", "attest", "rollback"}

\* limine.conf never names anything but generations.
LEMMA EntriesType ==
  ASSUME NEW r \in RegistryType, NEW c \in Ids \cup {None}
  PROVE  Entries(r, c) \in LimineType
<1> DEFINE one(g, test) == IF test THEN <<g>> ELSE << >>
<1>1. c \in r.list => c \in Ids
  BY DEF RegistryType
<1>2. one(c, c \in r.list) \in Seq(Ids)
  BY <1>1
<1>3. r.current \in Ids /\ r.fallback \in Ids
  BY DEF RegistryType
<1>4. /\ one(r.current, c # r.current) \in Seq(Ids)
      /\ one(r.fallback, r.fallback \notin {r.current, c}) \in Seq(Ids)
  BY <1>3
<1>5. one(c, c \in r.list) \o one(r.current, c # r.current)
        \o one(r.fallback, r.fallback \notin {r.current, c}) \in Seq(Ids)
  <2> HIDE DEF one
  <2> QED
    BY <1>2, <1>4
<1>6. r.list \subseteq Ids
  BY DEF RegistryType
<1> QED
  BY <1>5, <1>6 DEF Entries, LimineType

\* What the first entries of limine.conf are.
LEMMA FirstEntries ==
  ASSUME NEW r \in RegistryType, NEW c \in Ids \cup {None}
  PROVE  \A i \in DOMAIN Entries(r, c).first :
           Entries(r, c).first[i]
             \in {r.current, r.fallback} \cup ({c} \cap r.list)
<1>1. CASE c \in r.list
  BY <1>1 DEF Entries
<1>2. CASE c \notin r.list
  BY <1>2 DEF Entries
<1> QED
  BY <1>1, <1>2

\* Without a trial the current generation is the default.
LEMMA DefaultEntry ==
  ASSUME NEW r \in RegistryType
  PROVE  Entries(r, None).first[1] = r.current
<1>1. None \notin r.list /\ None # r.current
  BY GenerationsAssumption DEF RegistryType, Ids, Base, None
<1> QED
  BY <1>1 DEF Entries

\* An operation that changes what boots.
Switching == PCs \ (Creating \cup {"idle"})

\* The three places that name the running generation agree.
InAgreement ==
  /\ boot.gen = reg.current /\ limine.first[1] = reg.current
  /\ boot.stage # "trial"

\* How far attestation and rollback have brought the three places together.
SwitchInv ==
  /\ FileTypes
  /\ pc \in Switching => last = "none"
  /\ pc \in {"healthy", "promote", "default", "restore", "reentry"} =>
       boot.gen = arg /\ boot.stage # "trial"
  /\ pc \in {"default", "reentry"} => reg.current = arg
  /\ pc \in {"prune", "sweep"} => InAgreement
  /\ SwitchIsComplete

\* No switch is under way when the system is installed.
LEMMA SwitchInit == Init => SwitchInv
<1> SUFFICES ASSUME Init PROVE SwitchInv
  OBVIOUS
<1>1. FileTypes
  BY GenerationsAssumption DEF Init, FileTypes, BootType, LimineType, Ids, Base
<1> QED
  BY <1>1 DEF Init, SwitchInv, SwitchIsComplete, Switching, Creating

\* Each step keeps the types of the files.
LEMMA FileTypesStep ==
  ASSUME IdsInv, FileTypes, [Next]_vars
  PROVE  FileTypes'
<1> USE GenerationsAssumption
<1>0. Types /\ Handed
  BY DEF IdsInv
<1>1. ASSUME Create PROVE FileTypes'
  BY <1>0, <1>1 DEF FileTypes, Create
<1>2. ASSUME Snapshot PROVE FileTypes'
  BY <1>0, <1>2 DEF FileTypes, Snapshot, Handed
<1>3. ASSUME StageManifest PROVE FileTypes'
  BY <1>0, <1>3 DEF FileTypes, StageManifest
<1>4. ASSUME Register PROVE FileTypes'
  BY <1>0, <1>4 DEF FileTypes, Register
<1>5. ASSUME Cleanup PROVE FileTypes'
  BY <1>0, <1>5 DEF FileTypes, Cleanup
<1>6. ASSUME Unstage PROVE FileTypes'
  BY <1>0, <1>6 DEF FileTypes, Unstage
<1>7. ASSUME NEW g \in Ids, Activate(g) PROVE FileTypes'
  BY <1>0, <1>7 DEF Types, FileTypes, Activate, BootType, RegistryType
<1>8. ASSUME WriteTrialEntry PROVE FileTypes'
  BY <1>0, <1>8, EntriesType DEF Types, FileTypes, WriteTrialEntry
<1>9. ASSUME MarkCandidate PROVE FileTypes'
  BY <1>0, <1>9 DEF FileTypes, MarkCandidate
<1>10. ASSUME ListCandidate PROVE FileTypes'
  BY <1>0, <1>10 DEF FileTypes, ListCandidate
<1>11. ASSUME RecordAttempt PROVE FileTypes'
  <2>1. boot.attempts \in 0..MaxAttempts /\ boot.fallback \in Ids
    BY <1>0, <1>11 DEF FileTypes, BootType, RecordAttempt
  <2>2. boot.attempts + 1 \in 0..MaxAttempts + 1
    BY <2>1
  <2>3. CASE boot.attempts + 1 > MaxAttempts
    <3>1. boot' = [boot EXCEPT !.attempts = @ + 1, !.stage = "failed_rollback",
                               !.gen = boot.fallback, !.health = "Failed"]
      BY <1>11, <2>3 DEF RecordAttempt
    <3>2. boot' \in BootType /\ boot'.stage # "trial"
      BY <2>1, <2>2, <3>1, Zenon DEF FileTypes, BootType
    <3> QED
      BY <3>2, <1>11 DEF FileTypes, RecordAttempt
  <2>4. CASE ~(boot.attempts + 1 > MaxAttempts)
    <3>1. boot' = [boot EXCEPT !.attempts = @ + 1]
      BY <1>11, <2>4 DEF RecordAttempt
    <3>2. boot' \in BootType /\ boot'.attempts <= MaxAttempts
      BY <2>1, <2>2, <2>4, <3>1 DEF FileTypes, BootType
    <3> QED
      BY <3>2, <1>11 DEF FileTypes, RecordAttempt
  <2> QED
    BY <2>3, <2>4
<1>12. ASSUME NEW g \in Ids, Attest(g) PROVE FileTypes'
  <2>1. boot' = [boot EXCEPT !.gen = g, !.attempts = 0, !.stage = "normal",
                             !.health = "Healthy"]
    BY <1>12 DEF Attest
  <2>2. 0 \in 0..MaxAttempts + 1
    OBVIOUS
  <2>3. boot' \in BootType /\ boot'.stage = "normal"
    BY <2>1, <2>2, Zenon DEF FileTypes, BootType
  <2> QED
    BY <2>3, <1>12 DEF FileTypes, Attest
<1>13. ASSUME MarkHealthy PROVE FileTypes'
  BY <1>0, <1>13 DEF FileTypes, MarkHealthy
<1>14. ASSUME Promote PROVE FileTypes'
  BY <1>0, <1>14 DEF FileTypes, Promote
<1>15. ASSUME WriteDefault PROVE FileTypes'
  BY <1>0, <1>15, EntriesType DEF Types, FileTypes, WriteDefault
<1>16. ASSUME PruneSnapshot PROVE FileTypes'
  BY <1>0, <1>16 DEF FileTypes, PruneSnapshot
<1>17. ASSUME PruneManifest PROVE FileTypes'
  BY <1>0, <1>17 DEF FileTypes, PruneManifest
<1>18. ASSUME PruneRegistry PROVE FileTypes'
  BY <1>0, <1>18 DEF FileTypes, PruneRegistry
<1>19. ASSUME NEW g \in Ids, Rollback(g) PROVE FileTypes'
  BY <1>0, <1>19 DEF FileTypes, Rollback
<1>20. ASSUME MarkFailed PROVE FileTypes'
  BY <1>0, <1>20 DEF FileTypes, MarkFailed
<1>21. ASSUME WriteRevert PROVE FileTypes'
  BY <1>0, <1>21 DEF FileTypes, WriteRevert, Handed, BootType
<1>22. ASSUME Restore PROVE FileTypes'
  BY <1>0, <1>22 DEF FileTypes, Restore
<1>23. ASSUME WriteReentry PROVE FileTypes'
  BY <1>0, <1>23, EntriesType DEF Types, FileTypes, WriteReentry
<1>24. ASSUME NEW g \in Pinnable, NEW pinned \in BOOLEAN, SetPinned(g, pinned)
       PROVE  FileTypes'
  BY <1>0, <1>24 DEF FileTypes, SetPinned
<1>25. ASSUME Fault PROVE FileTypes'
  BY <1>0, <1>25 DEF FileTypes, Fault, Crash, WriteFails, files
<1>26. ASSUME UNCHANGED vars PROVE FileTypes'
  BY <1>0, <1>26 DEF FileTypes, vars
<1> QED
  BY <1>1, <1>2, <1>3, <1>4, <1>5, <1>6, <1>7, <1>8, <1>9, <1>10, <1>11, <1>12,
     <1>13, <1>14, <1>15, <1>16, <1>17, <1>18, <1>19, <1>20, <1>21, <1>22,
     <1>23, <1>24, <1>25, <1>26 DEF Next, Request, NextWrite

\* Each step keeps it.
LEMMA SwitchStep ==
  ASSUME IdsInv, SwitchInv, [Next]_vars
  PROVE  SwitchInv'
<1> DEFINE Progress ==
      /\ pc \in Switching => last = "none"
      /\ pc \in {"healthy", "promote", "default", "restore", "reentry"} =>
           boot.gen = arg /\ boot.stage # "trial"
      /\ pc \in {"default", "reentry"} => reg.current = arg
      /\ pc \in {"prune", "sweep"} => InAgreement
      /\ SwitchIsComplete
<1>0. Types /\ FileTypes /\ Progress
  BY DEF IdsInv, SwitchInv
<1> USE DEF PCs, Creating, Switching, InAgreement, SwitchIsComplete
<1>1. ASSUME Create PROVE Progress'
  BY <1>0, <1>1 DEF Create
<1>2. ASSUME Snapshot PROVE Progress'
  BY <1>0, <1>2 DEF Snapshot
<1>3. ASSUME StageManifest PROVE Progress'
  BY <1>0, <1>3 DEF StageManifest
<1>4. ASSUME Register PROVE Progress'
  BY <1>0, <1>4 DEF Register, Return
<1>5. ASSUME Cleanup PROVE Progress'
  BY <1>0, <1>5 DEF Cleanup
<1>6. ASSUME Unstage PROVE Progress'
  BY <1>0, <1>6 DEF Unstage, Return
<1>7. ASSUME NEW g \in Ids, Activate(g) PROVE Progress'
  BY <1>0, <1>7 DEF Activate
<1>8. ASSUME WriteTrialEntry PROVE Progress'
  BY <1>0, <1>8 DEF WriteTrialEntry
<1>9. ASSUME MarkCandidate PROVE Progress'
  BY <1>0, <1>9 DEF MarkCandidate
<1>10. ASSUME ListCandidate PROVE Progress'
  BY <1>0, <1>10 DEF ListCandidate, Return
<1>11. ASSUME RecordAttempt PROVE Progress'
  BY <1>0, <1>11 DEF RecordAttempt
<1>12. ASSUME NEW g \in Ids, Attest(g) PROVE Progress'
  BY <1>0, <1>12 DEF Attest
<1>13. ASSUME MarkHealthy PROVE Progress'
  BY <1>0, <1>13 DEF MarkHealthy
<1>14. ASSUME Promote PROVE Progress'
  BY <1>0, <1>14 DEF Promote
<1>15. ASSUME WriteDefault PROVE Progress'
  BY <1>0, <1>15, DefaultEntry DEF WriteDefault, Types, Return
<1>16. ASSUME PruneSnapshot PROVE Progress'
  BY <1>0, <1>16 DEF PruneSnapshot
<1>17. ASSUME PruneManifest PROVE Progress'
  BY <1>0, <1>17 DEF PruneManifest
<1>18. ASSUME PruneRegistry PROVE Progress'
  BY <1>0, <1>18 DEF PruneRegistry, Return
<1>19. ASSUME NEW g \in Ids, Rollback(g) PROVE Progress'
  BY <1>0, <1>19 DEF Rollback
<1>20. ASSUME MarkFailed PROVE Progress'
  BY <1>0, <1>20 DEF MarkFailed
<1>21. ASSUME WriteRevert PROVE Progress'
  BY <1>0, <1>21 DEF WriteRevert
<1>22. ASSUME Restore PROVE Progress'
  BY <1>0, <1>22 DEF Restore
<1>23. ASSUME WriteReentry PROVE Progress'
  BY <1>0, <1>23, DefaultEntry DEF WriteReentry, Types, Return
<1>24. ASSUME NEW g \in Pinnable, NEW pinned \in BOOLEAN, SetPinned(g, pinned)
       PROVE  Progress'
  BY <1>0, <1>24 DEF SetPinned
<1>25. ASSUME Fault PROVE Progress'
  BY <1>0, <1>25 DEF Fault, Crash, WriteFails, files, Return
<1>26. ASSUME UNCHANGED vars PROVE Progress'
  BY <1>0, <1>26 DEF vars
<1>27. Progress'
  BY <1>1, <1>2, <1>3, <1>4, <1>5, <1>6, <1>7, <1>8, <1>9, <1>10, <1>11, <1>12,
     <1>13, <1>14, <1>15, <1>16, <1>17, <1>18, <1>19, <1>20, <1>21, <1>22,
     <1>23, <1>24, <1>25, <1>26, ZenonT(60) DEF Next, Request, NextWrite
<1> HIDE DEF PCs, Creating, Switching, InAgreement, SwitchIsComplete
<1>28. FileTypes'
  BY <1>0, FileTypesStep
<1> QED
  BY <1>27, <1>28 DEF SwitchInv

\* SwitchIsComplete, for every bound, quota, fault and sequence of requests.
THEOREM SwitchCompletes == Spec => []SwitchIsComplete
<1>1. SwitchInv => SwitchIsComplete
  BY DEF SwitchInv
<1>2. IdsInv /\ SwitchInv /\ [Next]_vars => SwitchInv'
  BY SwitchStep
<1> QED
  BY IdsInit, IdsStep, SwitchInit, <1>1, <1>2, PTL DEF Spec

-----------------------------------------------------------------------------
(* Retention.                                                              *)

\* Why nothing that boots is deleted: a superseded generation keeps its
\* is_fallback mark, so only failed ones are ever selected, and limine.conf
\* offers no failed one.
RetentionInv ==
  /\ \A g \in Ids : reg.status[g] = "Superseded" => g \in reg.isFallback
  /\ \A g \in Ids \ reg.list : reg.status[g] = "Staged"
  /\ pc \in {"prune", "sweep"} =>
       todo \subseteq Candidates(reg) /\ limine = Entries(reg, None)

\* What retention relies on holds of the first generation.
LEMMA RetentionInit == Init => RetentionInv
  BY DEF Init, RetentionInv

\* No write and no request, prune included, takes away what retention relies
\* on.
LEMMA RetentionStep ==
  ASSUME IdsInv, RetentionInv, [Next]_vars
  PROVE  RetentionInv'
<1>0. Types
  BY DEF IdsInv
<1> USE DEF RetentionInv
<1>1. ASSUME Create PROVE RetentionInv'
  BY <1>0, <1>1 DEF Create
<1>2. ASSUME Snapshot PROVE RetentionInv'
  BY <1>0, <1>2 DEF Snapshot
<1>3. ASSUME StageManifest PROVE RetentionInv'
  BY <1>0, <1>3 DEF StageManifest
<1>4. ASSUME Register PROVE RetentionInv'
  BY <1>0, <1>4 DEF Register, Return
<1>5. ASSUME Cleanup PROVE RetentionInv'
  BY <1>0, <1>5 DEF Cleanup
<1>6. ASSUME Unstage PROVE RetentionInv'
  BY <1>0, <1>6 DEF Unstage, Return
<1>7. ASSUME NEW g \in Ids, Activate(g) PROVE RetentionInv'
  BY <1>0, <1>7 DEF Activate
<1>8. ASSUME WriteTrialEntry PROVE RetentionInv'
  BY <1>0, <1>8 DEF WriteTrialEntry
<1>9. ASSUME MarkCandidate PROVE RetentionInv'
  BY <1>0, <1>9 DEF MarkCandidate
<1>10. ASSUME ListCandidate PROVE RetentionInv'
  BY <1>0, <1>10 DEF ListCandidate, Return
<1>11. ASSUME RecordAttempt PROVE RetentionInv'
  BY <1>0, <1>11 DEF RecordAttempt
<1>12. ASSUME NEW g \in Ids, Attest(g) PROVE RetentionInv'
  BY <1>0, <1>12 DEF Attest
<1>13. ASSUME MarkHealthy PROVE RetentionInv'
  BY <1>0, <1>13 DEF MarkHealthy
<1>14. ASSUME Promote PROVE RetentionInv'
  BY <1>0, <1>14 DEF Promote
<1>15. ASSUME WriteDefault PROVE RetentionInv'
  BY <1>0, <1>15, Zenon DEF WriteDefault, Return, Prunable
<1>16. ASSUME PruneSnapshot PROVE RetentionInv'
  BY <1>0, <1>16 DEF PruneSnapshot
<1>17. ASSUME PruneManifest PROVE RetentionInv'
  BY <1>0, <1>17 DEF PruneManifest
<1>18. ASSUME PruneRegistry PROVE RetentionInv'
  BY <1>0, <1>18 DEF PruneRegistry, Return, Prunable, Candidates
<1>19. ASSUME NEW g \in Ids, Rollback(g) PROVE RetentionInv'
  BY <1>0, <1>19 DEF Rollback
<1>20. ASSUME MarkFailed PROVE RetentionInv'
  BY <1>0, <1>20 DEF MarkFailed
<1>21. ASSUME WriteRevert PROVE RetentionInv'
  BY <1>0, <1>21 DEF WriteRevert
<1>22. ASSUME Restore PROVE RetentionInv'
  BY <1>0, <1>22 DEF Restore
<1>23. ASSUME WriteReentry PROVE RetentionInv'
  BY <1>0, <1>23 DEF WriteReentry, Return
<1>24. ASSUME NEW g \in Pinnable, NEW pinned \in BOOLEAN, SetPinned(g, pinned)
       PROVE  RetentionInv'
  BY <1>0, <1>24 DEF SetPinned
<1>25. ASSUME Fault PROVE RetentionInv'
  BY <1>0, <1>25 DEF Fault, Crash, WriteFails, files, Return
<1>26. ASSUME UNCHANGED vars PROVE RetentionInv'
  BY <1>0, <1>26 DEF vars
<1> QED
  BY <1>1, <1>2, <1>3, <1>4, <1>5, <1>6, <1>7, <1>8, <1>9, <1>10, <1>11, <1>12,
     <1>13, <1>14, <1>15, <1>16, <1>17, <1>18, <1>19, <1>20, <1>21, <1>22,
     <1>23, <1>24, <1>25, <1>26, ZenonT(60) DEF Next, Request, NextWrite

\* PruneIsSafe, for every quota, any faults and any sequence of requests.
THEOREM PruningIsSafe == Spec => PruneIsSafe
<1> DEFINE Safe == \A g \in rootfs \ rootfs' : pc = "prune" =>
      g \notin {reg.current, reg.fallback, boot.gen} \cup reg.pins \cup Menu
<1>1. ASSUME IdsInv, SwitchInv, RetentionInv, [Next]_vars PROVE [Safe]_vars
  <2>1. SUFFICES ASSUME NEW g \in rootfs \ rootfs', pc = "prune"
                 PROVE  g \notin {reg.current, reg.fallback, boot.gen}
                                  \cup reg.pins \cup Menu
    OBVIOUS
  <2>2. PruneSnapshot
    BY <1>1, <2>1 DEF Next, Request, NextWrite, vars, Fault, files, Create,
       Snapshot, StageManifest, Register, Cleanup, Unstage, Activate,
       WriteTrialEntry, MarkCandidate, ListCandidate, RecordAttempt, Attest,
       MarkHealthy, Promote, WriteDefault, PruneManifest, PruneRegistry,
       Rollback, MarkFailed, WriteRevert, Restore, WriteReentry, SetPinned
  <2>3. g \in todo
    BY <1>1, <2>1, <2>2, NextIsTodo DEF IdsInv, Handed, PruneSnapshot
  <2>4. g \in Candidates(reg) /\ limine = Entries(reg, None)
    BY <1>1, <2>1, <2>3 DEF RetentionInv
  <2>5. /\ g \in Ids /\ g \in reg.list /\ g \notin {reg.current, reg.fallback}
        /\ g \notin reg.pins /\ reg.status[g] = "Failed"
    BY <1>1, <2>4 DEF Candidates, RetentionInv, IdsInv, Types, RegistryType
  <2>6. boot.gen = reg.current
    BY <1>1, <2>1 DEF SwitchInv, InAgreement
  <2>7. g \notin limine.others
    BY <2>4, <2>5 DEF Entries
  <2>8. \A i \in DOMAIN limine.first :
          limine.first[i] \in {reg.current, reg.fallback}
    <3>1. /\ reg \in RegistryType /\ None \in Ids \cup {None}
          /\ None \notin reg.list
      BY <1>1, GenerationsAssumption DEF IdsInv, Types, RegistryType, Ids,
         Base, None
    <3> QED
      BY <2>4, <3>1, FirstEntries
  <2> QED
    BY <2>5, <2>6, <2>7, <2>8 DEF Menu
<1>2. IdsInv /\ SwitchInv /\ [Next]_vars => SwitchInv'
  BY SwitchStep
<1>3. IdsInv /\ RetentionInv /\ [Next]_vars => RetentionInv'
  BY RetentionStep
<1>4. IdsInv /\ SwitchInv /\ RetentionInv /\ [Next]_vars => [Safe]_vars
  BY <1>1
<1> QED
  BY IdsInit, IdsStep, SwitchInit, RetentionInit, <1>2, <1>3, <1>4, PTL
     DEF Spec, PruneIsSafe

\* PromotionKeepsWayBack: of the writes that touch the registry only those of
\* promotion and of rollback change the current or the fallback generation.
THEOREM WayBackIsKept == Spec => PromotionKeepsWayBack
<1> DEFINE Kept == reg.current # reg.fallback /\ reg'.current = reg'.fallback
                     => pc = "restore"
<1>1. ASSUME Types, [Next]_vars PROVE [Kept]_vars
  <2>1. CASE Promote
    BY <1>1, <2>1 DEF Promote
  <2>2. CASE Restore
    BY <2>2 DEF Restore
  <2>3. CASE UNCHANGED <<reg.current, reg.fallback>>
    BY <2>3
  <2>4. Promote \/ Restore \/ UNCHANGED <<reg.current, reg.fallback>>
    BY <1>1, ZenonT(60) DEF Next, Request, NextWrite, vars, Fault, files,
       Create, Snapshot,
       StageManifest, Register, Cleanup, Unstage, Activate, WriteTrialEntry,
       MarkCandidate, ListCandidate, RecordAttempt, Attest, MarkHealthy,
       WriteDefault, PruneSnapshot, PruneManifest, PruneRegistry, Rollback,
       MarkFailed, WriteRevert, WriteReentry, SetPinned, Types, RegistryType
  <2> QED
    BY <2>1, <2>2, <2>3, <2>4
<1>2. IdsInv => Types
  BY DEF IdsInv
<1>3. Types /\ [Next]_vars => [Kept]_vars
  BY <1>1
<1> QED
  BY IdsInit, IdsStep, <1>2, <1>3, PTL DEF Spec, PromotionKeepsWayBack

-----------------------------------------------------------------------------
(* Upgrades in which only power is lost and requests name no generation.   *)

Untried(g) == manifest[g].status \in {"Staged", "Candidate"}

\* What upgrades that follow the intended path never do.  The generations that
\* are or were current have been attested, so their status is not Candidate,
\* none of them ever fails, and retention finds nothing to delete; a subvolume
\* exists before anything names it.
UpgradeInv ==
  /\ pc \notin {"cleanup", "unstage", "prune", "sweep", "fail"}
  /\ \A g \in Ids : Exists(g) \/ g \in reg.list => g \in rootfs
  /\ pc \notin {"idle", "snapshot"} => arg \in rootfs
  /\ pc \in {"snapshot", "stage"} => ~Exists(arg)
  /\ pc \in {"entry", "candidate"} => Untried(arg)
  /\ pc = "list" => manifest[arg].status = "Candidate"
  /\ pc = "promote" => Exists(arg) /\ ~Untried(arg)
  /\ pc \in {"revert", "restore"} => arg = reg.fallback
  /\ \A g \in {reg.current, reg.fallback} :
       Exists(g) /\ ~Untried(g) /\ reg.status[g] # "Candidate"
  /\ \A g \in Ids : reg.status[g] # "Failed"
  /\ AlwaysBootable

\* The first generation boots.
LEMMA UpgradeInit == Init => UpgradeInv
  BY GenerationsAssumption DEF Init, UpgradeInv, Untried, Exists, NoManifest,
     AlwaysBootable, Menu, Ids, Base

\* limine.conf offers what the registry lists or names.
LEMMA MenuIsWritten ==
  ASSUME NEW r \in RegistryType, NEW c \in Ids \cup {None},
         limine' = Entries(r, c)
  PROVE  Menu' \subseteq {r.current, r.fallback} \cup r.list
<1>1. ASSUME NEW i \in DOMAIN limine'.first
      PROVE  limine'.first[i] \in {r.current, r.fallback} \cup r.list
  BY FirstEntries
<1>2. limine'.others \subseteq r.list
  BY DEF Entries
<1> QED
  BY <1>1, <1>2 DEF Menu

\* No write of an upgrade leaves nothing that boots.
LEMMA UpgradeStep ==
  ASSUME "error" \notin Faults, ~Explicit,
         IdsInv, SwitchInv, RetentionInv, UpgradeInv, [Next]_vars
  PROVE  UpgradeInv'
<1> USE GenerationsAssumption
<1>0. Types /\ Handed /\ IdsAreFresh /\ FileTypes
  BY DEF IdsInv, SwitchInv
<1> USE DEF UpgradeInv, AlwaysBootable, Untried, Exists
<1>1. ASSUME Create PROVE UpgradeInv'
  BY <1>0, <1>1 DEF Types, RegistryType, Menu, Create, IdsAreFresh, Ids
<1>2. ASSUME Snapshot PROVE UpgradeInv'
  BY <1>0, <1>2 DEF Menu, Snapshot
<1>3. ASSUME StageManifest PROVE UpgradeInv'
  BY <1>0, <1>3 DEF Menu, StageManifest
<1>4. ASSUME Register PROVE UpgradeInv'
  BY <1>0, <1>4 DEF Menu, Register, Return
<1>5. ASSUME Cleanup PROVE UpgradeInv'
  BY <1>0, <1>5 DEF Cleanup
<1>6. ASSUME Unstage PROVE UpgradeInv'
  BY <1>0, <1>6 DEF Unstage
<1>7. ASSUME NEW g \in Ids, Activate(g) PROVE UpgradeInv'
  BY <1>0, <1>7 DEF Menu, Activate
<1>8. ASSUME WriteTrialEntry PROVE UpgradeInv'
  <2>1. /\ reg \in RegistryType /\ arg \in Ids \cup {None}
        /\ UNCHANGED <<reg, rootfs>>
    BY <1>0, <1>8 DEF Types, WriteTrialEntry
  <2>2. Menu' \subseteq {reg.current, reg.fallback} \cup reg.list
    BY <1>8, <2>1, MenuIsWritten DEF WriteTrialEntry
  <2>3. Menu' \subseteq rootfs'
    BY <1>0, <2>1, <2>2 DEF RegistryType
  <2> QED
    BY <1>8, <2>3 DEF WriteTrialEntry
<1>9. ASSUME MarkCandidate PROVE UpgradeInv'
  BY <1>0, <1>9 DEF Types, Handed, Menu, MarkCandidate
<1>10. ASSUME ListCandidate PROVE UpgradeInv'
  BY <1>0, <1>10 DEF Menu, ListCandidate, Return
<1>11. ASSUME RecordAttempt PROVE UpgradeInv'
  BY <1>0, <1>11 DEF Menu, RecordAttempt
<1>12. ASSUME NEW g \in Ids, Attest(g) PROVE UpgradeInv'
  BY <1>0, <1>12 DEF Menu, Attest
<1>13. ASSUME MarkHealthy PROVE UpgradeInv'
  BY <1>0, <1>13 DEF Types, NoManifest, Handed, Menu, MarkHealthy
<1>14. ASSUME Promote PROVE UpgradeInv'
  BY <1>0, <1>14 DEF Types, RegistryType, Handed, Menu, Promote, RetentionInv
<1>15. ASSUME WriteDefault PROVE UpgradeInv'
  <2>1. /\ reg \in RegistryType /\ None \in Ids \cup {None}
        /\ UNCHANGED <<reg, rootfs>>
    BY <1>0, <1>15 DEF Types, WriteDefault
  <2>2. Menu' \subseteq {reg.current, reg.fallback} \cup reg.list
    BY <1>15, <2>1, MenuIsWritten DEF WriteDefault
  <2>3. Menu' \subseteq rootfs'
    BY <1>0, <2>1, <2>2 DEF RegistryType
  <2>4. Prunable(reg) = {}
    BY <1>0 DEF Prunable, Candidates, RetentionInv, Types, RegistryType
  <2> QED
    BY <1>15, <2>3, <2>4 DEF WriteDefault, Return
<1>16. ASSUME PruneSnapshot PROVE UpgradeInv'
  BY <1>0, <1>16 DEF PruneSnapshot
<1>17. ASSUME PruneManifest PROVE UpgradeInv'
  BY <1>0, <1>17 DEF PruneManifest
<1>18. ASSUME PruneRegistry PROVE UpgradeInv'
  BY <1>0, <1>18 DEF PruneRegistry
<1>19. ASSUME NEW g \in Ids, Rollback(g) PROVE UpgradeInv'
  BY <1>0, <1>19 DEF Menu, Rollback
<1>20. ASSUME MarkFailed PROVE UpgradeInv'
  BY <1>0, <1>20 DEF MarkFailed
<1>21. ASSUME WriteRevert PROVE UpgradeInv'
  BY <1>0, <1>21 DEF Menu, WriteRevert
<1>22. ASSUME Restore PROVE UpgradeInv'
  BY <1>0, <1>22 DEF Handed, Menu, Restore
<1>23. ASSUME WriteReentry PROVE UpgradeInv'
  <2>1. /\ reg \in RegistryType /\ None \in Ids \cup {None}
        /\ UNCHANGED <<reg, rootfs>>
    BY <1>0, <1>23 DEF Types, WriteReentry
  <2>2. Menu' \subseteq {reg.current, reg.fallback} \cup reg.list
    BY <1>23, <2>1, MenuIsWritten DEF WriteReentry
  <2>3. Menu' \subseteq rootfs'
    BY <1>0, <2>1, <2>2 DEF RegistryType
  <2> QED
    BY <1>23, <2>3 DEF WriteReentry, Return
<1>24. ASSUME NEW g \in Pinnable, NEW pinned \in BOOLEAN, SetPinned(g, pinned)
       PROVE  UpgradeInv'
  BY <1>0, <1>24 DEF Menu, SetPinned
<1>25. ASSUME Fault PROVE UpgradeInv'
  BY <1>0, <1>25 DEF Menu, Fault, Crash, WriteFails, files, Return
<1>26. ASSUME UNCHANGED vars PROVE UpgradeInv'
  BY <1>0, <1>26 DEF Menu, vars
<1> QED
  BY <1>1, <1>2, <1>3, <1>4, <1>5, <1>6, <1>7, <1>8, <1>9, <1>10, <1>11, <1>12,
     <1>13, <1>14, <1>15, <1>16, <1>17, <1>18, <1>19, <1>20, <1>21, <1>22,
     <1>23, <1>24, <1>25, <1>26, ZenonT(60) DEF Next, Request, NextWrite

\* AlwaysBootable, for every number of generations and quota, however often
\* power is lost.
THEOREM UpgradesAreBootable ==
  ASSUME "error" \notin Faults, ~Explicit
  PROVE  Spec => []AlwaysBootable
<1>1. UpgradeInv => AlwaysBootable
  BY DEF UpgradeInv
<1>2. IdsInv /\ SwitchInv /\ [Next]_vars => SwitchInv'
  BY SwitchStep
<1>3. IdsInv /\ RetentionInv /\ [Next]_vars => RetentionInv'
  BY RetentionStep
<1>4. IdsInv /\ SwitchInv /\ RetentionInv /\ UpgradeInv /\ [Next]_vars
        => UpgradeInv'
  BY UpgradeStep
<1> QED
  BY IdsInit, IdsStep, SwitchInit, RetentionInit, UpgradeInit, <1>1, <1>2,
     <1>3,
     <1>4, PTL DEF Spec

-----------------------------------------------------------------------------

\* The types of all of the state: what the files can hold, and that a trial
\* never records more than one attempt over its limit (record_attempt).
THEOREM GenerationTypes == Spec => []TypeOK
<1> DEFINE FaultsType == faults \in 0..MaxFaults
<1>1. Init => FaultsType
  BY GenerationsAssumption DEF Init
<1>2. FaultsType /\ [Next]_vars => FaultsType'
  BY GenerationsAssumption DEF Next, Fault, vars
<1>3. IdsInv /\ SwitchInv /\ FaultsType => TypeOK
  BY DEF IdsInv, Types, Handed, SwitchInv, FileTypes, TypeOK, RegistryType,
     ManifestType, BootType, LimineType
<1>4. IdsInv /\ SwitchInv /\ [Next]_vars => SwitchInv'
  BY SwitchStep
<1> QED
  BY IdsInit, IdsStep, SwitchInit, <1>1, <1>2, <1>3, <1>4, PTL DEF Spec

-----------------------------------------------------------------------------

(* The relay of luna-ai-d, module AiRelay.  Its loop is always at the      *)
(* beginning of the first line it has not taken, and waits for more only   *)
(* when that line is not complete.                                         *)

Lines == Len(stream.lines)
Taken == Len(relayed)

\* Before the end of the headers was found, nothing has been taken; headers
\* that fit the buffer are still in it.
InHeaders ==
  /\ relaying # "lines" /\ relayed = << >>
  /\ stream.header < BufSize => base = 0 /\ bytes_read < stream.header

\* From there on the loop, or the buffer, is at the beginning of a line.
InLines ==
  /\ relaying = "lines" => pos = BeginOf(Taken + 1)
  /\ relaying # "lines" =>
       /\ base = BeginOf(Taken + 1)
       /\ Taken < Lines => bytes_read < stream.lines[Taken + 1].end

\* What a line may be worth.
Messages == {<<"chunk">>, <<"chunk", "done">>, << >>}

RelayInv ==
  /\ stream \in Streams /\ bytes_read \in Nat /\ base \in Nat /\ pos \in Nat
  /\ headers_passed \in BOOLEAN /\ relaying \in {"read", "lines", "done"}
  /\ \/ relayed = <<Failed>> /\ relaying = "done"
     \/ /\ relayed \in Seq(Messages) /\ Taken <= Lines /\ bytes_read <= AnswerSize
        /\ \A i \in 1..Taken : relayed[i] = Said(stream.lines[i])
        /\ IF headers_passed THEN InLines ELSE InHeaders

\* What the lines of an answer are, and that they follow one another.
LEMMA AnswerTypes ==
  ASSUME stream \in Streams
  PROVE  /\ stream.header \in Nat /\ stream.header >= 2 /\ Lines \in Nat
         /\ \A i \in 1..Lines : stream.lines[i].end \in Nat /\ Said(stream.lines[i]) \in Messages
         /\ \A i \in 1..Lines + 1 : BeginOf(i) \in Nat
         /\ \A i \in 1..Lines : BeginOf(i + 1) = stream.lines[i].end
         /\ \A i \in 1..Lines : \A j \in 1..i : BeginOf(j) < stream.lines[i].end
         /\ \A i \in 1..Lines + 1 : BeginOf(i) <= AnswerSize
<1>1. /\ stream.header \in Nat /\ stream.header >= 2
      /\ stream.lines \in Seq([kind : {"chunk", "last", "other"}, end : Nat])
      /\ \A i \in 1..Lines :
           /\ stream.header < stream.lines[i].end
           /\ \A j \in 1..i - 1 : stream.lines[j].end < stream.lines[i].end
  BY RelayAssumption DEF Lines, Blank
<1>2. Lines \in Nat /\ \A i \in 1..Lines : stream.lines[i].end \in Nat
  <2> DEFINE Line == [kind : {"chunk", "last", "other"}, end : Nat]
  <2>1. \A l \in Line : l.end \in Nat
    OBVIOUS
  <2>2. stream.lines \in Seq(Line)
    BY <1>1
  <2> HIDE DEF Line
  <2>3. Lines \in Nat /\ \A i \in 1..Lines : stream.lines[i] \in Line
    BY ONLY <2>2 DEF Lines
  <2> QED
    BY ONLY <2>1, <2>3
<1>3. \A i \in 1..Lines : Said(stream.lines[i]) \in Messages
  BY ZenonT(60) DEF Said, Messages
<1>4. \A i \in 1..Lines + 1 : BeginOf(i) \in Nat
  BY <1>1, <1>2 DEF BeginOf
<1>5. \A i \in 1..Lines : BeginOf(i + 1) = stream.lines[i].end
  BY <1>2 DEF BeginOf
<1>6. \A i \in 1..Lines : \A j \in 1..i : BeginOf(j) < stream.lines[i].end
  <2> TAKE i \in 1..Lines
  <2> TAKE j \in 1..i
  <2>1. CASE j = 1
    BY <1>1, <2>1 DEF BeginOf
  <2>2. CASE j # 1
    <3>1. j - 1 \in 1..i - 1
      BY ONLY <1>2, <2>2, i \in 1..Lines, j \in 1..i
    <3> QED
      BY <1>1, <2>2, <3>1 DEF BeginOf
  <2> QED
    BY <2>1, <2>2
<1>7. \A i \in 1..Lines + 1 : BeginOf(i) <= AnswerSize
  <2> TAKE i \in 1..Lines + 1
  <2>1. CASE i = Lines + 1
    BY <1>4, <1>2, <2>1 DEF AnswerSize, Lines
  <2>2. CASE i # Lines + 1
    <3>1. Lines \in 1..Lines /\ i \in 1..Lines
      BY <1>2, <2>2
    <3>2. BeginOf(i) < stream.lines[Lines].end /\ AnswerSize = stream.lines[Lines].end
      BY <1>5, <1>6, <3>1 DEF AnswerSize, Lines
    <3> QED
      BY <1>2, <1>4, <3>1, <3>2
  <2> QED
    BY <2>1, <2>2
<1> QED
  BY <1>1, <1>2, <1>3, <1>4, <1>5, <1>6, <1>7

\* inference_prompt begins with an empty buffer.
LEMMA RelayStarts == RelayInit => RelayInv
<1> SUFFICES ASSUME RelayInit PROVE RelayInv
  OBVIOUS
<1>1. stream \in Streams
  BY DEF RelayInit
<1>2. /\ stream.header \in Nat /\ stream.header >= 2 /\ Lines \in Nat /\ AnswerSize \in Nat
  BY <1>1, AnswerTypes DEF AnswerSize, Lines
<1>3. relayed = << >> /\ Taken = 0
  BY DEF RelayInit, Taken
<1> QED
  <2>1. InHeaders /\ bytes_read <= AnswerSize
    BY <1>2 DEF RelayInit, InHeaders
  <2>2. relayed \in Seq(Messages) /\ \A i \in 1..Taken : relayed[i] = Said(stream.lines[i])
    BY <1>3
  <2>3. /\ bytes_read \in Nat /\ base \in Nat /\ pos \in Nat /\ Taken <= Lines
        /\ relaying \in {"read", "lines", "done"}
    BY <1>2, <1>3 DEF RelayInit
  <2>4. headers_passed \in BOOLEAN /\ ~headers_passed
    BY Zenon DEF RelayInit
  <2> QED
    BY <1>1, <2>1, <2>2, <2>3, <2>4, Zenon DEF RelayInv

\* A read: what it adds does not move the buffer, but when it ends the headers
\* the loop begins behind them.
LEMMA ReadStreamKeeps ==
  ASSUME RelayInv, ReadStream
  PROVE  RelayInv'
<1>0. /\ relaying = "read" /\ UNCHANGED <<stream, relayed>> /\ stream \in Streams
      /\ relayed # <<Failed>> \/ relaying # "done"
  BY DEF ReadStream, RelayInv
<1>1. /\ relayed \in Seq(Messages) /\ Taken <= Lines
      /\ \A i \in 1..Taken : relayed[i] = Said(stream.lines[i])
      /\ IF headers_passed THEN InLines ELSE InHeaders
      /\ base \in Nat /\ pos \in Nat /\ headers_passed \in BOOLEAN /\ bytes_read \in Nat
  BY <1>0 DEF RelayInv
<1>2. /\ stream.header \in Nat /\ stream.header >= 2 /\ Lines \in Nat /\ AnswerSize \in Nat
      /\ BeginOf(1) = stream.header
  BY <1>0, AnswerTypes DEF AnswerSize, Lines, BeginOf
<1>3. PICK n \in bytes_read + 1..AnswerSize :
        /\ n - base <= BufSize - 1
        /\ bytes_read' = n
        /\ IF headers_passed \/ HeadersEnd(n)
           THEN /\ headers_passed' = TRUE /\ relaying' = "lines"
                /\ pos' = IF headers_passed THEN base ELSE stream.header
                /\ UNCHANGED base
           ELSE /\ base' = IF n - base >= BufSize - 1 THEN n ELSE base
                /\ UNCHANGED <<pos, headers_passed, relaying>>
  BY DEF ReadStream
<1>4. /\ Lines' = Lines /\ Taken' = Taken /\ AnswerSize' = AnswerSize
      /\ n \in Nat /\ n <= AnswerSize
      /\ \A i : BeginOf(i)' = BeginOf(i)
  BY <1>0, <1>1, <1>2, <1>3 DEF Lines, Taken, AnswerSize, BeginOf
<1>5. CASE headers_passed
  <2>1. /\ headers_passed' = TRUE /\ relaying' = "lines" /\ pos' = base /\ base' = base
    BY <1>3, <1>5
  <2>2. base = BeginOf(Taken + 1)
    BY <1>0, <1>1, <1>5 DEF InLines
  <2>3. InLines'
    BY <2>1, <2>2, <1>4 DEF InLines
  <2> QED
    BY <1>0, <1>1, <1>3, <1>4, <2>1, <2>3 DEF RelayInv
<1>6. CASE ~headers_passed /\ HeadersEnd(n)
  <2>1. /\ headers_passed' = TRUE /\ relaying' = "lines" /\ pos' = stream.header /\ base' = base
    BY <1>3, <1>6
  <2>2. relayed = << >> /\ Taken = 0
    BY <1>1, <1>6 DEF InHeaders, Taken
  <2>3. InLines'
    BY <2>1, <2>2, <1>2, <1>4 DEF InLines
  <2> QED
    BY <1>0, <1>1, <1>2, <1>3, <1>4, <2>1, <2>3 DEF RelayInv
<1>7. CASE ~headers_passed /\ ~HeadersEnd(n)
  <2>1. /\ base' = IF n - base >= BufSize - 1 THEN n ELSE base
        /\ UNCHANGED <<pos, headers_passed, relaying>>
    BY <1>3, <1>7
  <2>2. InHeaders
    BY <1>1, <1>7
  <2>3. BufSize \in Nat
    BY RelayAssumption
  <2>4. ASSUME stream.header < BufSize
        PROVE  base' = 0 /\ n < stream.header
    <3>1. base = 0
      BY <2>2, <2>4 DEF InHeaders
    <3>2. n < stream.header
      BY <1>2, <1>4, <1>7, <3>1 DEF HeadersEnd, Blank
    <3> QED
      BY <1>2, <1>4, <2>1, <2>3, <2>4, <3>1, <3>2
  <2>5. InHeaders'
    BY <1>0, <1>3, <2>1, <2>2, <2>4 DEF InHeaders
  <2>6. base' \in Nat
    BY <1>1, <1>4, <2>1
  <2> QED
    BY <1>0, <1>1, <1>3, <1>4, <1>7, <2>1, <2>5, <2>6 DEF RelayInv
<1> QED
  BY <1>1, <1>5, <1>6, <1>7

\* A turn of the loop: the line it finds is the first that was not taken.
LEMMA RelayLineKeeps ==
  ASSUME RelayInv, NEW i \in 1..Lines, RelayLine(i)
  PROVE  RelayInv'
<1>0. /\ relaying = "lines" /\ Finds(i) /\ stream \in Streams
      /\ relayed' = Append(relayed, IF pos = BeginOf(i) THEN Said(stream.lines[i]) ELSE << >>)
      /\ pos' = stream.lines[i].end
      /\ UNCHANGED <<stream, bytes_read, base, headers_passed, relaying>>
  BY DEF RelayLine, RelayInv
<1>1. /\ relayed \in Seq(Messages) /\ Taken <= Lines /\ bytes_read <= AnswerSize
      /\ \A j \in 1..Taken : relayed[j] = Said(stream.lines[j])
      /\ headers_passed /\ pos = BeginOf(Taken + 1)
      /\ base \in Nat /\ bytes_read \in Nat /\ headers_passed \in BOOLEAN
  BY <1>0 DEF RelayInv, InLines, InHeaders
<1>2. /\ Lines \in Nat /\ Taken \in Nat
      /\ \A j \in 1..Lines : stream.lines[j].end \in Nat /\ Said(stream.lines[j]) \in Messages
      /\ \A j \in 1..Lines + 1 : BeginOf(j) \in Nat
      /\ \A j \in 1..Lines : BeginOf(j + 1) = stream.lines[j].end
      /\ \A j \in 1..Lines : \A k \in 1..j : BeginOf(k) < stream.lines[j].end
  <2>1. Taken \in Nat
    BY <1>1 DEF Taken
  <2> QED
    BY <1>0, <2>1, AnswerTypes, Zenon
<1>3. i = Taken + 1
  <2>1. pos < stream.lines[i].end /\ \A j \in 1..i - 1 : stream.lines[j].end <= pos
    BY <1>0 DEF Finds
  <2>2. ASSUME i <= Taken PROVE FALSE
    <3>1. i \in 1..Taken /\ Taken \in 1..Lines /\ i + 1 \in 1..Lines + 1
      BY <1>1, <1>2, <2>2
    <3>2. pos = stream.lines[Taken].end
      BY <1>1, <1>2, <3>1
    <3>3. CASE i = Taken
      BY <1>2, <2>1, <3>1, <3>2, <3>3
    <3>4. CASE i # Taken
      <4>1. i + 1 \in 1..Taken
        BY <1>2, <3>1, <3>4
      <4>2. BeginOf(i + 1) < stream.lines[Taken].end /\ BeginOf(i + 1) = stream.lines[i].end
        BY <1>2, <3>1, <4>1
      <4> QED
        BY <1>2, <2>1, <3>1, <3>2, <4>2
    <3> QED
      BY <3>3, <3>4
  <2>3. ASSUME i > Taken + 1 PROVE FALSE
    <3>0. Lines \in Nat /\ Taken \in Nat
      BY <1>2
    <3>1. Taken + 1 \in 1..i - 1 /\ Taken + 1 \in 1..Lines /\ Taken + 1 \in 1..Lines + 1
      BY ONLY <2>3, <3>0, i \in 1..Lines, SMTT(30), SMTT(60)
    <3>2. stream.lines[Taken + 1].end <= pos /\ pos < stream.lines[Taken + 1].end
      BY <1>1, <1>2, <2>1, <3>1
    <3> QED
      BY <1>1, <1>2, <3>1, <3>2
  <2> QED
    BY <1>2, <2>2, <2>3
<1>4. /\ relayed' = Append(relayed, Said(stream.lines[i])) /\ pos' = BeginOf(i + 1)
      /\ Said(stream.lines[i]) \in Messages /\ pos' \in Nat
  BY <1>0, <1>1, <1>2, <1>3
<1>5. /\ relayed' \in Seq(Messages) /\ Len(relayed') = Len(relayed) + 1
      /\ \A j \in 1..Len(relayed) : relayed'[j] = relayed[j]
      /\ relayed'[Len(relayed) + 1] = Said(stream.lines[i])
  BY ONLY <1>1, <1>4, SMTT(30), SMTT(60)
<1>6. /\ Lines' = Lines /\ Taken' = Taken + 1 /\ AnswerSize' = AnswerSize
      /\ \A j : BeginOf(j)' = BeginOf(j)
  BY <1>0, <1>5 DEF Lines, Taken, AnswerSize, BeginOf
<1>7. \A j \in 1..Taken' : relayed'[j] = Said(stream.lines[j])
  <2> TAKE j \in 1..Taken'
  <2>1. Taken \in Nat /\ Taken' = Taken + 1 /\ Len(relayed) = Taken
    BY <1>2, <1>6 DEF Taken
  <2>2. j \in 1..Taken \/ j = i
    BY ONLY <1>3, <2>1, j \in 1..Taken', SMTT(30), SMTT(60)
  <2>3. CASE j \in 1..Taken
    BY <1>1, <1>5, <2>1, <2>3
  <2>4. CASE j = i
    BY <1>3, <1>5, <2>1, <2>4
  <2> QED
    BY <2>2, <2>3, <2>4
<1>8. InLines'
  BY <1>0, <1>2, <1>3, <1>4, <1>6 DEF InLines
<1>9. Taken' <= Lines' /\ relayed' \in Seq(Messages)
  BY <1>2, <1>3, <1>5, <1>6
<1> QED
  BY <1>0, <1>1, <1>4, <1>6, <1>7, <1>8, <1>9, ZenonT(60) DEF RelayInv

\* The loop ends: the first line that was not taken is not complete.
LEMMA LinesEndKeeps ==
  ASSUME RelayInv, LinesEnd
  PROVE  RelayInv'
<1>0. /\ relaying = "lines" /\ relaying' = "read" /\ base' = pos /\ stream \in Streams
      /\ \A i \in 1..Lines : ~Finds(i)
      /\ UNCHANGED <<stream, bytes_read, pos, headers_passed, relayed>>
  BY DEF LinesEnd, NewBase, RelayInv, Lines
<1>1. /\ relayed \in Seq(Messages) /\ Taken <= Lines /\ bytes_read <= AnswerSize
      /\ \A j \in 1..Taken : relayed[j] = Said(stream.lines[j])
      /\ headers_passed /\ pos = BeginOf(Taken + 1)
      /\ pos \in Nat /\ bytes_read \in Nat /\ headers_passed \in BOOLEAN
  BY <1>0 DEF RelayInv, InLines, InHeaders
<1>2. ASSUME Taken < Lines PROVE bytes_read < stream.lines[Taken + 1].end
  <2>1. Taken + 1 \in 1..Lines /\ Taken \in Nat
    BY <1>0, <1>1, <1>2, AnswerTypes DEF Taken
  <2>2. stream.lines[Taken + 1].end \in Nat /\ pos < stream.lines[Taken + 1].end
    BY <1>0, <1>1, <2>1, AnswerTypes
  <2>3. \A j \in 1..Taken : stream.lines[j].end <= pos
    <3> TAKE j \in 1..Taken
    <3>1. j \in 1..Lines /\ Taken \in 1..Lines /\ stream.lines[j].end \in Nat
      BY <1>0, <1>1, <1>2, <2>1, AnswerTypes
    <3>2. pos = stream.lines[Taken].end
      BY <1>0, <1>1, <3>1, AnswerTypes
    <3>3. CASE j = Taken
      BY <3>1, <3>2, <3>3
    <3>4. CASE j # Taken
      <4>1. j + 1 \in 1..Taken
        BY <2>1, <3>4
      <4>2. BeginOf(j + 1) < stream.lines[Taken].end /\ BeginOf(j + 1) = stream.lines[j].end
        BY <1>0, <3>1, <4>1, AnswerTypes
      <4> QED
        BY <1>1, <3>1, <3>2, <4>2
    <3> QED
      BY <3>3, <3>4
  <2>4. ~(stream.lines[Taken + 1].end <= bytes_read)
    BY <1>0, <2>1, <2>2, <2>3 DEF Finds
  <2> QED
    BY <1>1, <2>2, <2>4
<1>3. /\ Lines' = Lines /\ Taken' = Taken /\ AnswerSize' = AnswerSize
      /\ \A j : BeginOf(j)' = BeginOf(j)
  BY <1>0 DEF Lines, Taken, AnswerSize, BeginOf
<1>4. InLines'
  BY <1>0, <1>1, <1>2, <1>3 DEF InLines
<1> QED
  BY <1>0, <1>1, <1>3, <1>4 DEF RelayInv

\* The relay ends, or never begins.
LEMMA RelayEndKeeps ==
  ASSUME RelayInv, StreamEnds \/ PromptFails
  PROVE  RelayInv'
<1>1. CASE PromptFails
  BY <1>1 DEF PromptFails, RelayInv
<1>2. CASE StreamEnds
  <2>1. /\ relaying = "read" /\ relaying' = "done"
        /\ UNCHANGED <<stream, bytes_read, base, pos, headers_passed, relayed>>
    BY <1>2 DEF StreamEnds
  <2>2. /\ Lines' = Lines /\ Taken' = Taken /\ AnswerSize' = AnswerSize
        /\ \A j : BeginOf(j)' = BeginOf(j)
    BY <2>1 DEF Lines, Taken, AnswerSize, BeginOf
  <2> QED
    BY <2>1, <2>2 DEF RelayInv, InLines, InHeaders
<1> QED
  BY <1>1, <1>2

\* Every turn of its loops keeps the place in the answer.
LEMMA RelayKeeps == RelayInv /\ [RelayNext]_relay => RelayInv'
<1> SUFFICES ASSUME RelayInv, [RelayNext]_relay PROVE RelayInv'
  OBVIOUS
<1>1. CASE UNCHANGED relay
  BY <1>1 DEF relay, RelayInv, InLines, InHeaders, Lines, Taken, AnswerSize, BeginOf
<1>2. CASE \E i \in 1..Len(stream.lines) : RelayLine(i)
  BY <1>2, RelayLineKeeps DEF Lines
<1> QED
  BY <1>1, <1>2, ReadStreamKeeps, LinesEndKeeps, RelayEndKeeps DEF RelayNext

\* However the inference server's answer is cut into reads, inference_prompt
\* relays its lines in order and once each, all of them once all was read, and
\* finds its buffer full only when a line does not fit it: for every set of
\* answers and every size of the buffer.
THEOREM RelayOrder == RelayInit /\ [][RelayNext]_relay => []RelaysInOrder
<1>1. ASSUME RelayInv PROVE RelaysInOrder
  <2> SUFFICES ASSUME relayed # <<Failed>> PROVE RelaysInOrder
    BY DEF RelaysInOrder
  <2>1. /\ relayed \in Seq(Messages) /\ Taken <= Lines /\ bytes_read <= AnswerSize
        /\ \A j \in 1..Taken : relayed[j] = Said(stream.lines[j])
        /\ IF headers_passed THEN InLines ELSE InHeaders
        /\ stream \in Streams /\ base \in Nat /\ bytes_read \in Nat
    BY <1>1 DEF RelayInv
  <2>2. /\ stream.header \in Nat /\ Lines \in Nat /\ Taken \in Nat
        /\ \A j \in 1..Lines : stream.lines[j].end \in Nat
        /\ \A j \in 1..Lines + 1 : BeginOf(j) \in Nat /\ BeginOf(j) <= AnswerSize
        /\ \A j \in 1..Lines : BeginOf(j + 1) = stream.lines[j].end
        /\ AnswerSize \in Nat
    BY <2>1, AnswerTypes DEF Taken, AnswerSize, Lines
  <2>3. ASSUME stream.header < BufSize, relaying # "lines"
        PROVE  bytes_read = AnswerSize => Taken = Lines
    <3>1. CASE headers_passed
      <4>1. Taken < Lines => bytes_read < stream.lines[Taken + 1].end
        BY <2>1, <2>3, <3>1 DEF InLines
      <4>2. Taken < Lines => stream.lines[Taken + 1].end <= AnswerSize
        <5> HAVE Taken < Lines
        <5>1. Taken + 1 \in 1..Lines /\ Taken + 2 \in 1..Lines + 1 /\ (Taken + 1) + 1 = Taken + 2
          BY <2>2
        <5> QED
          BY <2>2, <5>1
      <4>3. Taken < Lines => stream.lines[Taken + 1].end \in Nat
        BY <2>2
      <4>4. /\ Taken \in Nat /\ Lines \in Nat /\ Taken <= Lines
            /\ bytes_read \in Nat /\ AnswerSize \in Nat
        BY <2>1, <2>2
      <4> QED
        BY ONLY <4>1, <4>2, <4>3, <4>4
    <3>2. CASE ~headers_passed
      <4>1. bytes_read < stream.header /\ stream.header = BeginOf(1)
        BY <2>1, <2>3, <3>2 DEF InHeaders, BeginOf
      <4> QED
        BY <2>1, <2>2, <4>1
    <3> QED
      BY <3>1, <3>2
  <2>4. ASSUME stream.header < BufSize, relaying # "lines",
               \A i \in 1..Lines : stream.lines[i].end - BeginOf(i) < BufSize
        PROVE  bytes_read - base < BufSize - 1
    <3>0. BufSize \in Nat /\ BufSize >= 2
      BY RelayAssumption
    <3>1. CASE headers_passed
      <4>1. base = BeginOf(Taken + 1) /\ (Taken < Lines => bytes_read < stream.lines[Taken + 1].end)
        BY <2>1, <2>4, <3>1 DEF InLines
      <4>2. CASE Taken < Lines
        <5>1. Taken + 1 \in 1..Lines
          BY <2>2, <4>2
        <5> QED
          BY <2>1, <2>2, <2>4, <3>0, <4>1, <4>2, <5>1
      <4>3. CASE ~(Taken < Lines)
        <5>1. base = AnswerSize
          BY <2>1, <2>2, <4>1, <4>3 DEF AnswerSize, Lines
        <5> QED
          BY <2>1, <2>2, <3>0, <5>1
      <4> QED
        BY <4>2, <4>3
    <3>2. CASE ~headers_passed
      <4>1. bytes_read < stream.header /\ base = 0
        BY <2>1, <2>4, <3>2 DEF InHeaders
      <4> QED
        BY <2>1, <2>2, <2>4, <3>0, <4>1
    <3> QED
      BY <3>1, <3>2
  <2> QED
    BY <2>1, <2>3, <2>4 DEF RelaysInOrder, Lines, Taken
<1> QED
  BY <1>1, RelayStarts, RelayKeeps, PTL

=============================================================================
