------------------------ MODULE SnapshotFanoutProofs ------------------------
(***************************************************************************)
(* The theorems about SnapshotFanout, for any fan-out, any number of       *)
(* snapshots kept and any course of edits, builds, crashes and errors.     *)
(*                                                                         *)
(* Whatever a lagging list shows, it shows snapshots that were taken, so   *)
(* one that is sorted behind KeepSnapshots others has as many that are not *)
(* older.  The recorded snapshot has no more of those than records were    *)
(* lost and seconds shared so far.                                         *)
(***************************************************************************)
EXTENDS SnapshotFanout, FiniteSetTheorems, SequenceTheorems, TLAPS

Project == [fanout : 0..MaxFanout, every : BOOLEAN, last : Nat]

PCs == {"idle", "snapshot", "create", "patch", "prune", "list", "clones", "delete", "seed", "finish"}

RecState == [pc : PCs, base : Project, list : SUBSET Nat, todo : SUBSET Nat, victim : Nat,
             wait : BOOLEAN, late : BOOLEAN]

Types ==
    /\ left \in Course
    /\ bp \in Project /\ bpSeen \in Project
    /\ at \in Seq(Nat) /\ old \in Nat
    /\ snaps \in SUBSET Nat /\ snapsSeen \in SUBSET Nat
    /\ clones \in [Clone -> Nat] /\ clonesSeen \in SUBSET Nat
    /\ busy \in SUBSET Clone
    /\ rec \in RecState

\* Every list of snapshots names snapshots that were taken.
TakenOnly ==
    /\ snaps \subseteq 1..taken
    /\ snapsSeen \subseteq 1..taken
    /\ rec.list \subseteq 1..taken

\* No snapshot is of a later second than the last one taken.
Chronological == \A r \in 1..taken : at[r] <= at[taken]

\* The snapshot about to be recorded is the last one taken.
PatchIsNewest == rec.pc = "patch" => rec.base.last = taken /\ taken > 0

\* The clone about to be deleted was idle when it was read.
VictimWasIdle == rec.pc = "delete" => (rec.victim \in busy => rec.late)

IInv ==
    /\ Types
    /\ TakenOnly
    /\ Chronological
    /\ PruningKeepsTheNewest
    /\ PatchIsNewest
    /\ VictimWasIdle

\* The losses, and the shared seconds, that the course has left.
Losses == left.patches + left.crashes + left.lost + left.ties

\* The snapshots not older than the recorded one, and the losses to come, are
\* fewer than the snapshots kept, the one about to be recorded aside; so are
\* those not older than the last one taken, which may be recorded next.  Or
\* there will never be enough snapshots for one to be pruned.
FewUnrecorded ==
    \/ /\ Losses < KeepSnapshots
       /\ bp.last # None =>
             Cardinality(NotOlder(bp.last)) + Losses <
                KeepSnapshots + (IF rec.pc = "patch" THEN 1 ELSE 0)
       /\ taken > 0 => Cardinality(NotOlder(taken)) + Losses < KeepSnapshots
    \/ taken + left.snaps < KeepSnapshots

RecordInv ==
    /\ bp.last <= taken
    /\ RecordedSnapshotExists
    /\ FewUnrecorded

-----------------------------------------------------------------------------
(* Counting.                                                               *)

LEMMA TakenNat == ASSUME Types PROVE taken \in Nat
  BY LenProperties DEF Types, taken

\* There are no more snapshots not older than s than were taken.
LEMMA NotOlderFinite ==
    ASSUME Types, NEW s
    PROVE  /\ IsFiniteSet(NotOlder(s)) /\ Cardinality(NotOlder(s)) \in Nat
           /\ Cardinality(NotOlder(s)) <= taken
<1>1. NotOlder(s) \subseteq 1..taken
  BY Zenon DEF NotOlder
<1>2. taken \in Nat /\ 1 \in Int /\ taken \in Int
  BY TakenNat
<1>3. IsFiniteSet(1..taken) /\ Cardinality(1..taken) = IF 1 > taken THEN 0 ELSE taken - 1 + 1
  BY <1>2, FS_Interval, Zenon
<1>4. /\ IsFiniteSet(NotOlder(s)) /\ Cardinality(NotOlder(s)) \in Nat
      /\ Cardinality(NotOlder(s)) <= Cardinality(1..taken)
  BY <1>1, <1>3, FS_Subset, FS_CardinalityType, Zenon
<1>5. Cardinality(1..taken) = taken
  BY <1>2, <1>3
<1> QED BY <1>4, <1>5, Zenon

\* What a course of events has left is counted down to zero.
LEMMA Spent ==
    ASSUME NEW c \in Course
    PROVE  /\ c.snaps > 0 => [c EXCEPT !.snaps = @ - 1] \in Course
           /\ c.edits > 0 => [c EXCEPT !.edits = @ - 1] \in Course
           /\ c.builds > 0 => [c EXCEPT !.builds = @ - 1] \in Course
           /\ c.crashes > 0 => [c EXCEPT !.crashes = @ - 1] \in Course
           /\ c.patches > 0 => [c EXCEPT !.patches = @ - 1] \in Course
           /\ c.lost > 0 => [c EXCEPT !.lost = @ - 1] \in Course
           /\ c.errors > 0 => [c EXCEPT !.errors = @ - 1] \in Course
           /\ c.snaps > 0 /\ c.ties > 0 => [c EXCEPT !.snaps = @ - 1, !.ties = @ - 1] \in Course
<1>1. /\ c.snaps \in Nat /\ c.edits \in Nat /\ c.builds \in Nat /\ c.crashes \in Nat
      /\ c.patches \in Nat /\ c.lost \in Nat /\ c.ties \in Nat /\ c.errors \in Nat
  BY Zenon DEF Course
<1>2. \A n \in Nat : n > 0 => n - 1 \in Nat
  OBVIOUS
<1> QED BY <1>1, <1>2, Zenon DEF Course

LEMMA TakenSpent ==
    ASSUME NEW bounds \in Course, bounds.snaps = left.snaps, bounds.ties = left.ties, Taken(bounds)
    PROVE  left' \in Course
  BY Spent, Zenon DEF Taken

\* The losses to come, as a number.
LEMMA LossesNat ==
    ASSUME left \in Course
    PROVE  /\ left.patches \in Nat /\ left.crashes \in Nat /\ left.lost \in Nat /\ left.ties \in Nat
           /\ left.snaps \in Nat /\ Losses \in Nat
<1>1. /\ left.patches \in Nat /\ left.crashes \in Nat /\ left.lost \in Nat /\ left.ties \in Nat
      /\ left.snaps \in Nat
  BY Zenon DEF Course
<1> QED BY <1>1 DEF Losses

\* A snapshot that is pruned has KeepSnapshots others that are not older.
LEMMA PrunedIsOld ==
    ASSUME Types, TakenOnly, NEW gone \in SUBSET rec.list, pruned(rec.list, gone), NEW s \in gone
    PROVE  Cardinality(NotOlder(s)) >= KeepSnapshots
<1> DEFINE kept == rec.list \ gone
<1>1. Cardinality(kept) = KeepSnapshots /\ \A r \in kept : at[s] <= at[r]
  BY Zenon DEF pruned
<1>2. rec.list \subseteq 1..taken /\ at \in Seq(Nat) /\ taken \in Nat
  BY TakenNat, Zenon DEF TakenOnly, Types
<1>3. \A r \in 1..taken : at[r] \in Nat
  BY <1>2, LenProperties DEF taken
<1>4. kept \subseteq NotOlder(s)
  <2> SUFFICES ASSUME NEW r \in kept PROVE r \in 1..taken /\ r # s /\ at[r] >= at[s]
    BY Zenon DEF NotOlder
  <2>1. r \in 1..taken /\ s \in 1..taken /\ r # s
    BY <1>2, Zenon
  <2> QED BY <1>1, <1>3, <2>1
<1>5. Cardinality(kept) <= Cardinality(NotOlder(s)) /\ Cardinality(NotOlder(s)) \in Nat
  BY <1>4, NotOlderFinite, FS_Subset, Zenon
<1>6. KeepSnapshots \in Nat
  BY FanoutAssumption
<1> HIDE DEF kept
<1> QED BY <1>1, <1>5, <1>6

\* A snapshot is taken: it is not older than any other, and the others not
\* older than it are those of the same second, if it shares one.
LEMMA TakenIs ==
    ASSUME Types, Chronological, NEW bounds, Taken(bounds)
    PROVE  /\ at' \in Seq(Nat) /\ taken' = taken + 1
           /\ snaps' = snaps \cup {taken'}
           /\ \A r \in 1..taken' : at'[r] <= at'[taken']
           /\ \A r \in 1..taken : NotOlder(r)' = NotOlder(r) \cup {taken'}
           /\ \/ /\ NotOlder(taken)' = {}
                 /\ left' = [bounds EXCEPT !.snaps = @ - 1]
              \/ /\ taken > 0 /\ left.ties > 0
                 /\ NotOlder(taken)' = NotOlder(taken) \cup {taken}
                 /\ left' = [bounds EXCEPT !.snaps = @ - 1, !.ties = @ - 1]
<1>0. at \in Seq(Nat) /\ taken \in Nat /\ taken = Len(at) /\ old \in Nat
  BY TakenNat DEF Types, taken
<1>1. \A r \in 1..taken : at[r] \in Nat /\ at[r] <= at[taken]
  BY <1>0, LenProperties DEF Chronological
<1>2. PICK t : /\ at' = Append(at, t)
               /\ \/ /\ t = IF taken = 0 THEN 1 ELSE at[taken] + 1
                     /\ left' = [bounds EXCEPT !.snaps = @ - 1]
                  \/ /\ taken > old /\ left.ties > 0 /\ t = at[taken]
                     /\ left' = [bounds EXCEPT !.snaps = @ - 1, !.ties = @ - 1]
  BY Zenon DEF Taken
<1>3. t \in Nat
  BY <1>0, <1>1, <1>2
<1>4. /\ at' \in Seq(Nat) /\ Len(at') = taken + 1 /\ at'[taken + 1] = t
      /\ \A r \in 1..taken : at'[r] = at[r]
  BY <1>0, <1>2, <1>3, AppendProperties
<1>5. taken' = taken + 1
  BY <1>4, Zenon DEF taken
<1>6. snaps' = snaps \cup {taken'}
  BY <1>5, Zenon DEF Taken
<1>7. \A r \in 1..taken' : r \in 1..taken \/ r = taken'
  BY <1>0, <1>5
<1>8. \A r \in 1..taken : at'[r] = at[r] /\ at[r] <= t /\ r # taken'
  BY <1>0, <1>1, <1>2, <1>4, <1>5
<1>9. /\ taken' \in 1..taken' /\ at'[taken'] = t /\ t >= t /\ t <= t /\ 1..taken \subseteq 1..taken'
  BY <1>0, <1>3, <1>4, <1>5
<1>10. \A r \in 1..taken' : at'[r] <= at'[taken']
  BY <1>7, <1>8, <1>9, Zenon
<1>11. ASSUME NEW x \in 1..taken PROVE NotOlder(x)' = NotOlder(x) \cup {taken'}
  <2>1. t >= at[x]
    BY <1>1, <1>3, <1>8
  <2> QED BY <1>7, <1>8, <1>9, <2>1, Zenon DEF NotOlder
<1>12. CASE /\ t = IF taken = 0 THEN 1 ELSE at[taken] + 1
            /\ left' = [bounds EXCEPT !.snaps = @ - 1]
  <2>1. \A r \in 1..taken : ~(at[r] >= t)
    BY <1>0, <1>1, <1>12
  <2>2. NotOlder(taken)' = {}
    BY <1>7, <1>8, <1>9, <2>1, Zenon DEF NotOlder
  <2> QED BY <1>4, <1>5, <1>6, <1>10, <1>11, <1>12, <2>2, Zenon
<1>13. CASE /\ taken > old /\ left.ties > 0 /\ t = at[taken]
            /\ left' = [bounds EXCEPT !.snaps = @ - 1, !.ties = @ - 1]
  <2>1. taken > 0 /\ taken \in 1..taken
    BY <1>0, <1>13
  <2>2. NotOlder(taken)' = NotOlder(taken) \cup {taken}
    BY <1>7, <1>8, <1>9, <1>13, <2>1, Zenon DEF NotOlder
  <2> QED BY <1>4, <1>5, <1>6, <1>10, <1>11, <1>13, <2>1, <2>2, Zenon
<1> QED BY <1>2, <1>12, <1>13, Zenon

-----------------------------------------------------------------------------
(* The inductive invariant.                                                *)

LEMMA RestingType == Resting \in RecState
<1>1. 0 \in 0..MaxFanout /\ 0 \in Nat
  BY FanoutAssumption
<1>2. [fanout |-> 0, every |-> FALSE, last |-> None] \in Project
  BY <1>1 DEF Project, None
<1> QED BY <1>1, <1>2, Zenon DEF Resting, RecState, PCs

\* Whatever a reconcile does to its own state keeps its type.
LEMMA RecTypes ==
    ASSUME rec \in RecState, bpSeen \in Project, snapsSeen \in SUBSET Nat,
           clonesSeen \in SUBSET Nat, taken' \in Nat, bp' \in Project, Reconcile
    PROVE  rec' \in RecState
<1>1. CASE recGet
  <2>1. rec' = [Resting EXCEPT !.pc = IF bpSeen.every THEN "snapshot" ELSE "list", !.base = bpSeen]
    BY <1>1 DEF recGet
  <2> QED BY <2>1, RestingType, Zenon DEF RecState, PCs
<1>2. CASE maybeSnapshot
  <2>1. PICK c \in {"create", "list"} : rec' = [rec EXCEPT !.list = snapsSeen, !.wait = TRUE, !.pc = c]
    BY <1>2, Zenon DEF maybeSnapshot
  <2> QED BY <2>1, Zenon DEF RecState, PCs
<1>3. CASE createSnapshot
  <2>1. rec' = [rec EXCEPT !.pc = "patch", !.list = @ \cup {taken'}, !.base.last = taken']
    BY <1>3, Zenon DEF createSnapshot
  <2>2. rec.list \cup {taken'} \in SUBSET Nat
    BY Zenon DEF RecState
  <2> QED BY <2>1, <2>2, Zenon DEF RecState, PCs, Project
<1>4. CASE createFails \/ patchLastSnapshot \/ pruneSnapshots \/ deleteClone
  <2>1. PICK c \in PCs : \/ rec' = [rec EXCEPT !.pc = c]
                         \/ rec' = [rec EXCEPT !.pc = c, !.base = bp']
    BY <1>4, Zenon DEF createFails, patchLastSnapshot, pruneSnapshots, deleteClone, PCs
  <2> QED BY <2>1, Zenon DEF RecState
<1>5. CASE listClones
  <2>1. PICK S \in SUBSET Nat : rec' = [rec EXCEPT !.pc = "clones", !.todo = S]
    BY <1>5, Zenon DEF listClones
  <2> QED BY <2>1, Zenon DEF RecState, PCs
<1>6. ASSUME NEW i \in Clone, readClone(i) PROVE rec' \in RecState
  <2>0. i \in Nat
    BY FanoutAssumption DEF Clone
  <2>1. rec.todo \ {i} \in SUBSET Nat
    BY Zenon DEF RecState
  <2>2. CASE i \in busy
    <3>1. rec' = [rec EXCEPT !.todo = rec.todo \ {i}, !.wait = TRUE]
      BY <1>6, <2>2, Zenon DEF readClone
    <3> QED BY <2>1, <3>1, Zenon DEF RecState
  <2>3. CASE i \notin busy
    <3>1. rec' = [rec EXCEPT !.todo = rec.todo \ {i}, !.pc = "delete", !.victim = i, !.late = FALSE]
      BY <1>6, <2>3, Zenon DEF readClone
    <3> QED BY <2>0, <2>1, <3>1, Zenon DEF RecState, PCs
  <2> QED BY <2>2, <2>3
<1>7. CASE clonesPruned
  <2>1. PICK c \in PCs : rec' = [rec EXCEPT !.pc = c, !.todo = 1..rec.base.fanout]
    BY <1>7, Zenon DEF clonesPruned, PCs
  <2>2. 1..rec.base.fanout \in SUBSET Nat
    BY DEF RecState, Project
  <2> QED BY <2>1, <2>2, Zenon DEF RecState
<1>8. CASE seedClone
  <2>1. \/ rec' = [rec EXCEPT !.pc = "finish"]
        \/ \E i : rec' = [rec EXCEPT !.todo = rec.todo \ {i}]
    BY <1>8, Zenon DEF seedClone
  <2> QED BY <2>1, Zenon DEF RecState, PCs
<1>9. CASE finish
  BY <1>9, RestingType DEF finish
<1> QED BY <1>1, <1>2, <1>3, <1>4, <1>5, <1>6, <1>7, <1>8, <1>9, Zenon DEF Reconcile

\* A reconcile keeps the types.
LEMMA ReconcileTypes ==
    ASSUME Types, Chronological, Reconcile
    PROVE  Types'
<1>0. ASSUME UNCHANGED at PROVE taken' = taken
  BY <1>0, Zenon DEF taken
<1>1. ASSUME taken' \in Nat, bp' \in Project PROVE rec' \in RecState
  BY <1>1, RecTypes DEF Types
<1>2. CASE UNCHANGED <<world, copies, old, busy, left>>
  BY <1>0, <1>1, <1>2, TakenNat DEF Types, world, copies
<1>3. CASE createSnapshot
  <2>1. at' \in Seq(Nat) /\ taken' \in Nat /\ snaps' \in SUBSET Nat
    <3>1. at' \in Seq(Nat) /\ taken' = taken + 1 /\ snaps' = snaps \cup {taken'}
      BY <1>3, TakenIs, Zenon DEF createSnapshot
    <3>2. taken' \in Nat
      BY <3>1, TakenNat
    <3> QED BY <3>1, <3>2, Zenon DEF Types
  <2>2. left' \in Course
    BY <1>3, TakenSpent, Zenon DEF createSnapshot, Types
  <2> QED BY <1>1, <1>3, <2>1, <2>2 DEF createSnapshot, copies, Types
<1>4. CASE patchLastSnapshot
  <2>1. bp' \in Project
    BY <1>4 DEF patchLastSnapshot, RecState, Project, Types
  <2>2. left' \in Course
    BY <1>4, Spent, Zenon DEF patchLastSnapshot, Types
  <2> QED BY <1>0, <1>1, <1>4, <2>1, <2>2, TakenNat DEF patchLastSnapshot, copies, Types
<1>5. CASE pruneSnapshots
  BY <1>0, <1>1, <1>5, TakenNat DEF pruneSnapshots, copies, Types
<1>6. CASE deleteClone
  BY <1>0, <1>1, <1>6, 0 \in Nat, TakenNat, Zenon DEF deleteClone, VictimGone, copies, Types, None
<1>7. CASE seedClone
  <2>1. rec.base.last \in Nat
    BY DEF Types, RecState, Project
  <2>2. clones' = clones \/ \E i : clones' = [clones EXCEPT ![i] = rec.base.last]
    BY <1>7, Zenon DEF seedClone
  <2>3. clones' \in [Clone -> Nat]
    BY <2>1, <2>2 DEF Types
  <2> QED BY <1>0, <1>1, <1>7, <2>3, TakenNat, Zenon DEF seedClone, copies, Types
<1> QED BY <1>2, <1>3, <1>4, <1>5, <1>6, <1>7, Zenon
    DEF Reconcile, recGet, maybeSnapshot, createFails, listClones, readClone, clonesPruned, finish

\* So does a create whose answer is lost.
LEMMA LostTypes == ASSUME Types, Chronological, createAnswerLost PROVE Types'
<1>1. at' \in Seq(Nat) /\ snaps' \in SUBSET Nat
  <2>1. at' \in Seq(Nat) /\ taken' = taken + 1 /\ snaps' = snaps \cup {taken'}
    BY TakenIs, Zenon DEF createAnswerLost
  <2>2. taken' \in Nat
    BY <2>1, TakenNat
  <2> QED BY <2>1, <2>2, Zenon DEF Types
<1>2. left' \in Course
  <2> DEFINE bounds == [left EXCEPT !.lost = @ - 1]
  <2>1. bounds \in Course /\ Taken(bounds)
    BY Spent, Zenon DEF createAnswerLost, Types
  <2>2. bounds.snaps = left.snaps /\ bounds.ties = left.ties
    BY Zenon DEF Types, Course
  <2> QED BY <2>1, <2>2, TakenSpent, Zenon
<1>3. rec' \in RecState
  BY Zenon DEF createAnswerLost, RecState, PCs, Types
<1> QED BY <1>1, <1>2, <1>3, Zenon DEF createAnswerLost, copies, Types

\* So do the other errors, the informers, the users and a new leader.
LEMMA WorldTypes ==
    ASSUME Types, Next, ~Reconcile, ~createAnswerLost
    PROVE  Types'
<1>0. Present \in SUBSET Nat
  BY FanoutAssumption DEF Present, Clone
<1>1. CASE readCloneFails \/ deleteCloneFails \/ seedCloneFails
  <2>1. left' \in Course
    BY <1>1, Spent, Zenon DEF readCloneFails, deleteCloneFails, seedCloneFails, EndsFanout, Types
  <2>2. rec' \in RecState
    <3>1. rec' = [rec EXCEPT !.pc = "finish"]
      BY <1>1, Zenon DEF readCloneFails, deleteCloneFails, seedCloneFails, EndsFanout
    <3> QED BY <3>1, Zenon DEF RecState, PCs, Types
  <2>3. clones' \in [Clone -> Nat] /\ busy' \in SUBSET Clone
    <3>1. rec.base.last \in Nat /\ None \in Nat
      BY DEF Types, RecState, Project, None
    <3>2. \/ clones' = clones
          \/ \E i : clones' = [clones EXCEPT ![i] = rec.base.last] \/ clones' = [clones EXCEPT ![i] = None]
      BY <1>1, Zenon DEF readCloneFails, deleteCloneFails, seedCloneFails, VictimGone, world
    <3>3. busy' \subseteq busy
      BY <1>1, Zenon DEF readCloneFails, deleteCloneFails, seedCloneFails, VictimGone
    <3> QED BY <3>1, <3>2, <3>3 DEF Types
  <2>4. UNCHANGED <<bp, bpSeen, snaps, snapsSeen, at, old, clonesSeen>>
    BY <1>1, Zenon DEF readCloneFails, deleteCloneFails, seedCloneFails, world, copies
  <2> QED BY <2>1, <2>2, <2>3, <2>4, Zenon DEF Types
<1>2. CASE TimerFires \/ SyncProjects \/ SyncSnaps \/ CadencePasses
  BY <1>0, <1>2, TakenNat, Zenon DEF TimerFires, SyncProjects, SyncSnaps, CadencePasses, world, copies, Types
<1>3. CASE EditSpec
  <2>1. left' \in Course
    BY <1>3, Spent, Zenon DEF EditSpec, Types
  <2>2. bp' \in Project
    <3>1. PICK n \in 0..left.fanout, on \in BOOLEAN : bp' = [bp EXCEPT !.fanout = n, !.every = on]
      BY <1>3, Zenon DEF EditSpec
    <3>2. n \in 0..MaxFanout
      BY FanoutAssumption DEF Types, Course
    <3> QED BY <3>1, <3>2, Zenon DEF Types, Project
  <2> QED BY <1>3, <2>1, <2>2, Zenon DEF EditSpec, copies, Types
<1>4. CASE NewLeader
  <2>1. left' \in Course
    BY <1>4, Spent, Zenon DEF NewLeader, Types
  <2> QED BY <1>0, <1>4, <2>1, RestingType, Zenon DEF NewLeader, world, Types
<1>5. ASSUME NEW i \in Clone, BuildOnClone(i) PROVE Types'
  <2>1. left' \in Course
    BY <1>5, Spent, Zenon DEF BuildOnClone, Types
  <2>2. rec' \in RecState
    <3>1. PICK x \in BOOLEAN : rec' = [rec EXCEPT !.late = x]
      BY <1>5, Zenon DEF BuildOnClone, Types, RecState
    <3> QED BY <3>1, Zenon DEF RecState, Types
  <2>3. busy' \in SUBSET Clone
    BY <1>5, Zenon DEF BuildOnClone, Types
  <2> QED BY <1>5, <2>1, <2>2, <2>3, Zenon DEF BuildOnClone, world, copies, Types
<1>6. ASSUME NEW i \in Clone, BuildEnds(i) PROVE Types'
  BY <1>6, Zenon DEF BuildEnds, world, copies, Types
<1> QED BY <1>1, <1>2, <1>3, <1>4, <1>5, <1>6, Zenon DEF Next
\* What a step of a reconcile leaves in its state: a list it had or read, no
\* patch to write unless it has just taken a snapshot, no victim that is busy.
LEMMA Moves ==
    ASSUME Types, Reconcile, ~createSnapshot
    PROVE  /\ rec'.list \in {rec.list, {}, snapsSeen}
           /\ rec'.pc # "patch"
           /\ rec'.pc = "delete" => rec'.victim \notin busy /\ busy' = busy
<1> DEFINE Moved == /\ rec'.list \in {rec.list, {}, snapsSeen}
                    /\ rec'.pc # "patch"
                    /\ rec'.pc = "delete" => rec'.victim \notin busy /\ busy' = busy
<1>0. rec \in RecState
  BY DEF Types
<1>1. CASE recGet
  <2>1. rec'.list = {} /\ rec'.pc \in {"snapshot", "list"}
    BY <1>1, Zenon DEF recGet, Resting
  <2> QED BY <2>1
<1>2. CASE maybeSnapshot
  <2>1. rec'.list = snapsSeen /\ rec'.pc \in {"create", "list"}
    BY <1>0, <1>2, Zenon DEF maybeSnapshot, RecState
  <2> QED BY <2>1
<1>3. CASE createFails \/ patchLastSnapshot \/ pruneSnapshots \/ deleteClone
  <2>1. PICK c \in {"list", "prune", "clones"} :
            rec' = [rec EXCEPT !.pc = c] \/ rec' = [rec EXCEPT !.pc = c, !.base = bp']
    BY <1>3, Zenon DEF createFails, patchLastSnapshot, pruneSnapshots, deleteClone
  <2>2. rec'.list = rec.list /\ rec'.pc = c
    BY <1>0, <2>1, Zenon DEF RecState
  <2> QED BY <2>2
<1>4. CASE listClones \/ clonesPruned
  <2>1. rec'.list = rec.list /\ rec'.pc \in {"clones", "finish", "seed"}
    BY <1>0, <1>4, Zenon DEF listClones, clonesPruned, RecState
  <2> QED BY <2>1
<1>5. ASSUME NEW i \in Clone, readClone(i) PROVE Moved
  <2>1. CASE i \in busy
    <3>1. rec' = [rec EXCEPT !.todo = rec.todo \ {i}, !.wait = TRUE] /\ rec.pc = "clones"
      BY <1>5, <2>1, Zenon DEF readClone
    <3>2. rec'.list = rec.list /\ rec'.pc = "clones"
      BY <1>0, <3>1, Zenon DEF RecState
    <3> QED BY <3>2
  <2>2. CASE i \notin busy
    <3>1. rec' = [rec EXCEPT !.todo = rec.todo \ {i}, !.pc = "delete", !.victim = i, !.late = FALSE]
      BY <1>5, <2>2, Zenon DEF readClone
    <3>2. rec'.list = rec.list /\ rec'.pc = "delete" /\ rec'.victim = i
      BY <1>0, <3>1, Zenon DEF RecState
    <3> QED BY <1>5, <2>2, <3>2 DEF readClone
  <2> QED BY <2>1, <2>2
<1>6. CASE seedClone
  <2>1. /\ rec.pc = "seed"
        /\ \/ rec' = [rec EXCEPT !.pc = "finish"]
           \/ \E i : rec' = [rec EXCEPT !.todo = rec.todo \ {i}]
    BY <1>6, Zenon DEF seedClone
  <2>2. rec'.list = rec.list /\ rec'.pc \in {"seed", "finish"}
    BY <1>0, <2>1, Zenon DEF RecState
  <2> QED BY <2>2
<1>7. CASE finish
  <2>1. rec'.list = {} /\ rec'.pc = "idle"
    BY <1>7, Zenon DEF finish, Resting
  <2> QED BY <2>1
<1> QED BY <1>1, <1>2, <1>3, <1>4, <1>5, <1>6, <1>7, Zenon DEF Reconcile

\* Taking a snapshot, whether its answer arrives or not.
LEMMA CreateKeeps ==
    ASSUME IInv, createSnapshot \/ createAnswerLost
    PROVE  /\ TakenOnly' /\ Chronological' /\ PruningKeepsTheNewest'
           /\ PatchIsNewest' /\ VictimWasIdle'
<1>0. Types /\ TakenOnly /\ Chronological /\ PruningKeepsTheNewest /\ rec \in RecState
  BY Zenon DEF IInv, Types
<1>1. KeepSnapshots \in Nat \ {0} /\ taken \in Nat
  BY <1>0, TakenNat, FanoutAssumption
<1>2. PICK bounds : Taken(bounds)
  BY Zenon DEF createSnapshot, createAnswerLost
<1>3. /\ at' \in Seq(Nat) /\ taken' = taken + 1
      /\ snaps' = snaps \cup {taken'}
      /\ \A r \in 1..taken' : at'[r] <= at'[taken']
      /\ \A r \in 1..taken : NotOlder(r)' = NotOlder(r) \cup {taken'}
  BY <1>0, <1>2, TakenIs, Zenon
<1>4. /\ 1..taken \subseteq 1..taken' /\ taken' \in 1..taken' /\ taken' > 0
      /\ \A r \in 1..taken' : r \in 1..taken \/ r = taken'
  BY <1>1, <1>3
<1>5. /\ rec'.list \subseteq rec.list \cup {taken'} /\ rec'.pc # "delete" /\ snapsSeen' = snapsSeen
      /\ rec'.pc = "patch" => rec'.base.last = taken'
  <2>1. CASE createSnapshot
    <3>1. rec' = [rec EXCEPT !.pc = "patch", !.list = @ \cup {taken'}, !.base.last = taken']
      BY <2>1, Zenon DEF createSnapshot
    <3>2. rec'.list = rec.list \cup {taken'} /\ rec'.pc = "patch" /\ rec'.base.last = taken'
      BY <1>0, <3>1, Zenon DEF RecState, Project
    <3> QED BY <2>1, <3>2 DEF createSnapshot, copies
  <2>2. CASE createAnswerLost
    <3>1. rec'.list = rec.list /\ rec'.pc = "list"
      BY <1>0, <2>2, Zenon DEF createAnswerLost, RecState
    <3> QED BY <2>2, <3>1 DEF createAnswerLost, copies
  <2> QED BY <2>1, <2>2
<1>6. TakenOnly'
  BY <1>0, <1>3, <1>4, <1>5, Zenon DEF TakenOnly
<1>7. Chronological'
  BY <1>3, Zenon DEF Chronological
<1>8. PruningKeepsTheNewest'
  <2> SUFFICES ASSUME NEW x \in 1..taken', Cardinality(NotOlder(x)') < KeepSnapshots
               PROVE  x \in snaps'
    BY Zenon DEF PruningKeepsTheNewest
  <2>1. CASE x = taken'
    BY <1>3, <2>1, Zenon
  <2>2. CASE x \in 1..taken
    <3>1. /\ IsFiniteSet(NotOlder(x)) /\ NotOlder(x)' = NotOlder(x) \cup {taken'}
          /\ Cardinality(NotOlder(x)) \in Nat
      BY <1>0, <1>3, <2>2, NotOlderFinite, Zenon
    <3>2. IsFiniteSet(NotOlder(x)') /\ NotOlder(x) \subseteq NotOlder(x)'
      <4>1. IsFiniteSet(NotOlder(x) \cup {taken'})
        BY <3>1, FS_AddElement
      <4> QED BY <3>1, <4>1, Zenon
    <3>3. Cardinality(NotOlder(x)) <= Cardinality(NotOlder(x)') /\ Cardinality(NotOlder(x)') \in Nat
      BY <3>2, FS_Subset, FS_CardinalityType, Zenon
    <3>4. Cardinality(NotOlder(x)) < KeepSnapshots
      BY <1>1, <3>1, <3>3
    <3> QED BY <1>0, <1>3, <2>2, <3>4, Zenon DEF PruningKeepsTheNewest
  <2> QED BY <1>4, <2>1, <2>2, Zenon
<1>9. PatchIsNewest' /\ VictimWasIdle'
  BY <1>4, <1>5 DEF PatchIsNewest, VictimWasIdle
<1> QED BY <1>6, <1>7, <1>8, <1>9, Zenon

\* The rest of a reconcile's step.
LEMMA ReconcileKeeps ==
    ASSUME IInv, Reconcile
    PROVE  IInv'
<1>0. Types /\ TakenOnly /\ Chronological /\ PruningKeepsTheNewest /\ Types'
  BY ReconcileTypes DEF IInv
<1>1. KeepSnapshots \in Nat \ {0} /\ taken \in Nat
  BY <1>0, TakenNat, FanoutAssumption
<1>2. CASE createSnapshot
  BY <1>0, <1>2, CreateKeeps, Zenon DEF IInv
<1>3. CASE ~createSnapshot
  <2>1. /\ rec'.list \in {rec.list, {}, snapsSeen}
        /\ rec'.pc # "patch"
        /\ rec'.pc = "delete" => rec'.victim \notin busy /\ busy' = busy
    BY <1>0, <1>3, Moves
  <2>2. PatchIsNewest' /\ VictimWasIdle'
    BY <2>1, Zenon DEF PatchIsNewest, VictimWasIdle
  <2>3. at' = at /\ snapsSeen' = snapsSeen
    BY <1>3, Zenon DEF Reconcile, recGet, maybeSnapshot, createFails, patchLastSnapshot, pruneSnapshots,
       listClones, readClone, deleteClone, clonesPruned, seedClone, finish, world, copies
  <2>4. taken' = taken /\ Chronological' /\ \A s : NotOlder(s)' = NotOlder(s)
    BY <1>0, <2>3, Zenon DEF Chronological, NotOlder, taken
  <2>5. \E gone \in SUBSET rec.list : \E deleted \in SUBSET gone :
            snaps' = snaps \ deleted /\ (deleted # {} => pruned(rec.list, gone))
    <3>1. CASE pruneSnapshots
      BY <3>1, Zenon DEF pruneSnapshots
    <3>2. CASE ~pruneSnapshots
      <4>1. snaps' = snaps
        BY <1>3, <3>2, Zenon DEF Reconcile, recGet, maybeSnapshot, createFails, patchLastSnapshot,
           listClones, readClone, deleteClone, clonesPruned, seedClone, finish, world
      <4>2. {} \in SUBSET rec.list /\ {} \in SUBSET {} /\ snaps' = snaps \ {}
        BY <4>1, Zenon
      <4> QED BY <4>2, Zenon
    <3> QED BY <3>1, <3>2, Zenon
  <2>6. PICK gone \in SUBSET rec.list : \E deleted :
            /\ deleted \subseteq gone /\ snaps' = snaps \ deleted
            /\ deleted # {} => pruned(rec.list, gone)
    BY <2>5, Zenon
  <2> PICK deleted : /\ deleted \subseteq gone /\ snaps' = snaps \ deleted
                     /\ deleted # {} => pruned(rec.list, gone)
    BY <2>6
  <2>7. TakenOnly'
    BY <1>0, <2>1, <2>3, <2>4, <2>6, Zenon DEF TakenOnly
  <2>8. PruningKeepsTheNewest'
    <3> SUFFICES ASSUME NEW x \in 1..taken, Cardinality(NotOlder(x)) < KeepSnapshots
                 PROVE  x \in snaps'
      BY <2>4, Zenon DEF PruningKeepsTheNewest
    <3>1. x \in snaps
      BY <1>0, Zenon DEF PruningKeepsTheNewest
    <3>2. ASSUME x \in deleted PROVE FALSE
      <4>1. Cardinality(NotOlder(x)) >= KeepSnapshots /\ Cardinality(NotOlder(x)) \in Nat
        BY <1>0, <2>6, <3>2, PrunedIsOld, NotOlderFinite, Zenon
      <4> QED BY <1>1, <4>1
    <3> QED BY <2>6, <3>1, <3>2, Zenon
  <2> QED BY <1>0, <2>2, <2>4, <2>7, <2>8, Zenon DEF IInv
<1> QED BY <1>2, <1>3

\* Errors, informers, users, builds and a new leader take no snapshot, and
\* none away.
LEMMA WorldKeeps ==
    ASSUME IInv, Next, ~Reconcile, ~createAnswerLost
    PROVE  IInv'
<1>0. /\ Types /\ TakenOnly /\ Chronological /\ PruningKeepsTheNewest /\ PatchIsNewest /\ VictimWasIdle
      /\ Types' /\ rec \in RecState
  BY WorldTypes DEF IInv, Types
<1>1. at' = at /\ snaps' = snaps /\ snapsSeen' \in {snapsSeen, snaps}
  BY Zenon DEF Next, readCloneFails, deleteCloneFails, seedCloneFails, TimerFires, SyncProjects, SyncSnaps,
     CadencePasses, EditSpec, NewLeader, BuildOnClone, BuildEnds, world, copies
<1>2. taken' = taken /\ Chronological' /\ PruningKeepsTheNewest'
  BY <1>0, <1>1, Zenon DEF Chronological, PruningKeepsTheNewest, NotOlder, taken
<1>3. CASE readCloneFails \/ deleteCloneFails \/ seedCloneFails
  <2>1. rec' = [rec EXCEPT !.pc = "finish"]
    BY <1>3, Zenon DEF readCloneFails, deleteCloneFails, seedCloneFails, EndsFanout
  <2>2. rec'.list = rec.list /\ rec'.pc = "finish"
    BY <1>0, <2>1, Zenon DEF RecState
  <2> QED BY <1>0, <1>1, <1>2, <2>2 DEF IInv, TakenOnly, PatchIsNewest, VictimWasIdle
<1>4. CASE TimerFires \/ SyncProjects \/ SyncSnaps \/ CadencePasses \/ EditSpec
  <2>1. rec' = rec /\ busy' = busy
    BY <1>4, Zenon DEF TimerFires, SyncProjects, SyncSnaps, CadencePasses, EditSpec
  <2> QED BY <1>0, <1>1, <1>2, <2>1, Zenon DEF IInv, TakenOnly, PatchIsNewest, VictimWasIdle
<1>5. CASE NewLeader
  <2>1. rec'.list = {} /\ rec'.pc = "idle"
    BY <1>5, Zenon DEF NewLeader, Resting
  <2> QED BY <1>0, <1>1, <1>2, <2>1 DEF IInv, TakenOnly, PatchIsNewest, VictimWasIdle
<1>6. ASSUME NEW i \in Clone, BuildOnClone(i) PROVE IInv'
  <2> DEFINE late == rec.late \/ (rec.pc = "delete" /\ i = rec.victim)
  <2>1. rec' = [rec EXCEPT !.late = late] /\ busy' = busy \cup {i}
    BY <1>6, Zenon DEF BuildOnClone
  <2> HIDE DEF late
  <2>2. /\ rec'.list = rec.list /\ rec'.pc = rec.pc /\ rec'.base = rec.base
        /\ rec'.victim = rec.victim /\ rec'.late = late
    BY <1>0, <2>1, Zenon DEF RecState
  <2>3. VictimWasIdle'
    <3> SUFFICES ASSUME rec.pc = "delete", rec.victim \in busy' PROVE rec'.late
      BY <2>2, Zenon DEF VictimWasIdle
    <3>1. late
      BY <1>0, <2>1, Zenon DEF VictimWasIdle, late
    <3> QED BY <2>2, <3>1
  <2> QED BY <1>0, <1>1, <1>2, <2>2, <2>3, Zenon DEF IInv, TakenOnly, PatchIsNewest
<1>7. ASSUME NEW i \in Clone, BuildEnds(i) PROVE IInv'
  <2>1. rec' = rec /\ busy' \subseteq busy
    BY <1>7, Zenon DEF BuildEnds
  <2> QED BY <1>0, <1>1, <1>2, <2>1, Zenon DEF IInv, TakenOnly, PatchIsNewest, VictimWasIdle
<1> QED BY <1>3, <1>4, <1>5, <1>6, <1>7, Zenon DEF Next

\* No snapshot, no clone and no reconcile at the start.
LEMMA InitKeeps == Init => IInv
<1> SUFFICES ASSUME Init PROVE IInv
  OBVIOUS
<1>1. left \in Course /\ MaxFanout \in Nat
  BY FanoutAssumption DEF Init
<1>2. PICK n \in 0..left.fanout : bp = [fanout |-> n, every |-> TRUE, last |-> None]
  BY Zenon DEF Init
<1>3. bp \in Project
  <2>1. n \in 0..MaxFanout /\ None \in Nat
    BY <1>1 DEF Course, None
  <2> QED BY <1>2, <2>1, Zenon DEF Project
<1>4. clones \in [Clone -> Nat]
  BY DEF Init, None
<1>5. rec = Resting /\ rec.list = {} /\ rec.pc = "idle"
  BY Zenon DEF Init, Resting
<1>6. Types
  BY <1>1, <1>3, <1>4, <1>5, RestingType DEF Init, Types
<1>7. TakenOnly /\ Chronological /\ PruningKeepsTheNewest
  <2>1. taken = 0
    BY DEF Init, taken
  <2> QED BY <1>5, <2>1 DEF Init, TakenOnly, Chronological, PruningKeepsTheNewest
<1> QED BY <1>5, <1>6, <1>7 DEF IInv, PatchIsNewest, VictimWasIdle

LEMMA NextKeeps == IInv /\ [Next]_vars => IInv'
<1> SUFFICES ASSUME IInv, [Next]_vars PROVE IInv'
  OBVIOUS
<1>1. CASE UNCHANGED vars
  BY <1>1, Zenon DEF vars, IInv, Types, TakenOnly, Chronological, PruningKeepsTheNewest, NotOlder, taken,
     PatchIsNewest, VictimWasIdle
<1>2. CASE createAnswerLost
  BY <1>2, CreateKeeps, LostTypes, Zenon DEF IInv
<1>3. CASE Next /\ ~createAnswerLost
  BY <1>3, ReconcileKeeps, WorldKeeps, Zenon
<1> QED BY <1>1, <1>2, <1>3

\* The inductive invariant holds in every reachable state.
THEOREM InductiveInvariant == Spec => []IInv
  BY InitKeeps, NextKeeps, PTL DEF Spec

-----------------------------------------------------------------------------
(* Pruning.                                                                *)

\* Whatever snapshots the informer copy shows, for any number kept, any crashes,
\* errors and shared seconds, the KeepSnapshots newest snapshots are there.
THEOREM PruningSparesNewest == Spec => []PruningKeepsTheNewest
<1>1. IInv => PruningKeepsTheNewest
  BY DEF IInv
<1> QED BY <1>1, InductiveInvariant, PTL

\* However the cached list of clones, the fresh reads and new builds
\* interleave, a clone that is deleted while a build runs on it was idle when
\* it was read: the build came in between.
THEOREM ClonePruneConfirmed == Spec => ClonePruneIsConfirmed
<1> DEFINE Confirmed == \A i \in Clone : i \in busy /\ clones[i] # None /\ clones'[i] = None => rec.late
<1>1. IInv /\ [Next]_vars => Confirmed
  <2> SUFFICES ASSUME IInv, [Next]_vars, NEW i \in Clone, i \in busy, clones[i] # None, clones'[i] = None
               PROVE  rec.late
    OBVIOUS
  <2>1. clones \in [Clone -> Nat]
    BY DEF IInv, Types
  <2>2. ~seedClone /\ ~seedCloneFails
    <3> SUFFICES ASSUME seedClone \/ seedCloneFails PROVE FALSE
      OBVIOUS
    <3>1. PICK j : clones[j] = None /\ clones' = [clones EXCEPT ![j] = rec.base.last]
      BY Zenon DEF seedClone, seedCloneFails
    <3> QED BY <2>1, <3>1, Zenon
  <2>3. rec.pc = "delete" /\ VictimGone
    BY <2>2, Zenon DEF Next, createAnswerLost, deleteClone, deleteCloneFails, Reconcile, recGet, maybeSnapshot, createSnapshot, createFails,
       patchLastSnapshot, pruneSnapshots, listClones, readClone, clonesPruned, finish, readCloneFails,
       TimerFires, SyncProjects, SyncSnaps, CadencePasses, EditSpec, NewLeader, BuildOnClone, BuildEnds,
       world, vars
  <2>4. i = rec.victim
    BY <2>1, <2>3, Zenon DEF VictimGone
  <2> QED BY <2>3, <2>4, Zenon DEF IInv, VictimWasIdle
<1> HIDE DEF Confirmed
<1>2. Spec => [][Confirmed]_vars
  BY <1>1, InductiveInvariant, PTL DEF Spec
<1> QED BY <1>2 DEF ClonePruneIsConfirmed, Confirmed
-----------------------------------------------------------------------------
(* The recorded snapshot.                                                  *)

LEMMA RecordInit == ASSUME FewLosses, Init PROVE RecordInv
<1>1. left \in Courses /\ left \in Course /\ taken = 0 /\ bp.last = 0 /\ rec.pc = "idle"
  BY FanoutAssumption DEF Init, Resting, None, taken
<1>2. Losses < KeepSnapshots \/ left.snaps < KeepSnapshots
  BY <1>1, Zenon DEF FewLosses, Losses
<1>3. left.snaps \in Nat /\ KeepSnapshots \in Nat
  BY <1>1, FanoutAssumption DEF Course
<1>4. RecordedSnapshotExists
  BY <1>1 DEF RecordedSnapshotExists, None
<1> QED BY <1>1, <1>2, <1>3, <1>4 DEF RecordInv, FewUnrecorded, None

\* A step that moves no snapshot, no record and no loss of one.
LEMMA RecordStays ==
    ASSUME RecordInv, UNCHANGED <<at, snaps>>, bp'.last = bp.last, UNCHANGED Losses,
           left'.snaps = left.snaps, rec'.pc = "patch" <=> rec.pc = "patch"
    PROVE  RecordInv'
<1>1. (IF rec'.pc = "patch" THEN 1 ELSE 0) = (IF rec.pc = "patch" THEN 1 ELSE 0)
  OBVIOUS
<1>2. taken' = taken /\ NotOlder(bp.last)' = NotOlder(bp.last) /\ NotOlder(taken)' = NotOlder(taken)
  BY Zenon DEF taken, NotOlder
<1>3. FewUnrecorded'
  BY <1>1, <1>2, Zenon DEF RecordInv, FewUnrecorded
<1>4. RecordedSnapshotExists'
  BY Zenon DEF RecordInv, RecordedSnapshotExists
<1> QED BY <1>2, <1>3, <1>4, Zenon DEF RecordInv

\* A snapshot is taken: it may be recorded next.
LEMMA RecordTaken ==
    ASSUME IInv, RecordInv, createSnapshot \/ createAnswerLost
    PROVE  RecordInv'
<1> DEFINE recorded == Cardinality(NotOlder(bp.last))
           newest == Cardinality(NotOlder(taken))
           lost == IF rec'.pc = "patch" THEN 0 ELSE 1
<1>0. Types /\ Chronological /\ rec \in RecState /\ left \in Course /\ bp \in Project
  BY DEF IInv, Types
<1>1. /\ KeepSnapshots \in Nat \ {0} /\ taken \in Nat /\ bp.last \in Nat /\ bp.last <= taken
      /\ left.snaps \in Nat /\ Losses \in Nat /\ recorded \in Nat /\ newest \in Nat
  <2>1. recorded \in Nat /\ newest \in Nat
    BY <1>0, NotOlderFinite, Zenon
  <2> HIDE DEF recorded, newest
  <2> QED BY <1>0, <2>1, TakenNat, FanoutAssumption DEF Course, Project, Losses, RecordInv
<1>2. PICK bounds : /\ Taken(bounds) /\ rec.pc = "create" /\ bp' = bp
                    /\ \/ rec'.pc = "patch" /\ bounds = left
                       \/ rec'.pc = "list" /\ left.lost > 0 /\ bounds = [left EXCEPT !.lost = @ - 1]
  <2>1. CASE createSnapshot
    <3>1. rec'.pc = "patch"
      BY <1>0, <2>1, Zenon DEF createSnapshot, RecState
    <3> QED BY <2>1, <3>1, Zenon DEF createSnapshot
  <2>2. CASE createAnswerLost
    <3>1. rec'.pc = "list"
      BY <1>0, <2>2, Zenon DEF createAnswerLost, RecState
    <3> QED BY <2>2, <3>1, Zenon DEF createAnswerLost
  <2> QED BY <2>1, <2>2
<1>3. /\ taken' = taken + 1 /\ snaps' = snaps \cup {taken'}
      /\ \A r \in 1..taken : NotOlder(r)' = NotOlder(r) \cup {taken'}
      /\ \/ /\ NotOlder(taken)' = {}
            /\ left' = [bounds EXCEPT !.snaps = @ - 1]
         \/ /\ taken > 0 /\ left.ties > 0
            /\ NotOlder(taken)' = NotOlder(taken) \cup {taken}
            /\ left' = [bounds EXCEPT !.snaps = @ - 1, !.ties = @ - 1]
  BY <1>0, <1>2, TakenIs, Zenon
<1>4. bp.last # None => recorded' = recorded + 1
  <2> SUFFICES ASSUME bp.last # None PROVE recorded' = recorded + 1
    OBVIOUS
  <2>1. bp.last \in 1..taken /\ taken' \notin 1..taken
    BY <1>1, <1>3 DEF None
  <2>2. NotOlder(bp.last)' = NotOlder(bp.last) \cup {taken'}
    BY <1>2, <1>3, <2>1, Zenon
  <2>3. taken' \notin NotOlder(bp.last)
    BY <2>1, Zenon DEF NotOlder
  <2> QED BY <1>0, <2>2, <2>3, NotOlderFinite, FS_AddElement, Zenon
<1>41. /\ bounds \in Course
       /\ bounds.patches = left.patches /\ bounds.crashes = left.crashes /\ bounds.ties = left.ties
       /\ bounds.lost = left.lost - lost /\ bounds.snaps = left.snaps
  <2>1. left.lost - 0 = left.lost
    BY <1>0, LossesNat
  <2>2. CASE rec'.pc = "patch" /\ bounds = left
    BY <1>0, <2>1, <2>2, Zenon
  <2>3. CASE rec'.pc = "list" /\ left.lost > 0 /\ bounds = [left EXCEPT !.lost = @ - 1]
    <3>1. bounds \in Course /\ lost = 1
      BY <1>0, <2>3, Spent, Zenon
    <3> QED BY <1>0, <2>3, <3>1, Zenon DEF Course
  <2> QED BY <1>2, <2>2, <2>3, Zenon
<1>42. /\ left'.patches = left.patches /\ left'.crashes = left.crashes
       /\ left'.lost = left.lost - lost /\ left'.snaps = left.snaps - 1
       /\ left' = [bounds EXCEPT !.snaps = @ - 1] => left'.ties = left.ties
       /\ left' = [bounds EXCEPT !.snaps = @ - 1, !.ties = @ - 1] => left'.ties = left.ties - 1
  BY <1>3, <1>41, Zenon DEF Course
<1>43. lost \in {0, 1}
  BY Zenon
<1>5. \/ newest' = 0 /\ Losses' = Losses - lost
      \/ taken > 0 /\ newest' = newest + 1 /\ Losses' = Losses - lost - 1
  <2>1. CASE NotOlder(taken)' = {} /\ left' = [bounds EXCEPT !.snaps = @ - 1]
    <3>1. newest' = 0
      BY <2>1, FS_EmptySet
    <3>2. left'.ties = left.ties
      BY <1>42, <2>1
    <3> HIDE DEF newest, lost
    <3>3. Losses' = Losses - lost
      BY <1>0, <1>42, <1>43, <3>2, LossesNat DEF Losses
    <3> QED BY <3>1, <3>3
  <2>2. CASE /\ taken > 0 /\ NotOlder(taken)' = NotOlder(taken) \cup {taken}
             /\ left' = [bounds EXCEPT !.snaps = @ - 1, !.ties = @ - 1]
    <3>1. taken \notin NotOlder(taken)
      BY Zenon DEF NotOlder
    <3>2. newest' = newest + 1
      BY <1>0, <2>2, <3>1, NotOlderFinite, FS_AddElement, Zenon
    <3>3. left'.ties = left.ties - 1
      BY <1>42, <2>2
    <3> HIDE DEF newest, lost
    <3>4. Losses' = Losses - lost - 1
      BY <1>0, <1>42, <1>43, <3>3, LossesNat DEF Losses
    <3> QED BY <2>2, <3>2, <3>4
  <2> QED BY <1>3, <2>1, <2>2, Zenon
<1>6. left'.snaps = left.snaps - 1
  BY <1>42
<1>7. RecordedSnapshotExists'
  BY <1>2, <1>3, Zenon DEF RecordInv, RecordedSnapshotExists
<1>8. \/ /\ Losses < KeepSnapshots
         /\ bp.last # None => recorded + Losses < KeepSnapshots
         /\ taken > 0 => newest + Losses < KeepSnapshots
      \/ taken + left.snaps < KeepSnapshots
  <2>1. (IF rec.pc = "patch" THEN 1 ELSE 0) = 0
    BY <1>2
  <2> QED BY <1>1, <2>1 DEF RecordInv, FewUnrecorded
<1>9. (IF rec'.pc = "patch" THEN 1 ELSE 0) = 1 - lost /\ lost \in {0, 1}
  BY <1>2
<1> HIDE DEF recorded, newest, lost
<1>10. \/ /\ Losses' < KeepSnapshots
          /\ bp'.last # None => recorded' + Losses' < KeepSnapshots + (1 - lost)
          /\ taken' > 0 => newest' + Losses' < KeepSnapshots
       \/ taken' + left'.snaps < KeepSnapshots
  BY <1>1, <1>2, <1>3, <1>4, <1>5, <1>6, <1>8, <1>9
<1>11. FewUnrecorded'
  BY <1>9, <1>10, Zenon DEF FewUnrecorded, recorded, newest
<1>12. bp'.last <= taken'
  BY <1>1, <1>2, <1>3
<1> QED BY <1>7, <1>11, <1>12, Zenon DEF RecordInv

\* A snapshot with fewer others that are not older than are kept is there.
LEMMA NewestExists ==
    ASSUME IInv, FewUnrecorded, taken > 0
    PROVE  taken \in snaps
<1>0. Types /\ left \in Course
  BY DEF IInv, Types
<1>1. /\ taken \in Nat /\ KeepSnapshots \in Nat /\ left.snaps \in Nat /\ Losses \in Nat
      /\ Cardinality(NotOlder(taken)) \in Nat /\ Cardinality(NotOlder(taken)) <= taken
  <2>1. KeepSnapshots \in Nat
    BY FanoutAssumption
  <2> QED BY <1>0, <2>1, TakenNat, NotOlderFinite, LossesNat, Zenon
<1>2. Cardinality(NotOlder(taken)) < KeepSnapshots /\ taken \in 1..taken
  BY <1>1 DEF FewUnrecorded
<1> QED BY <1>2, Zenon DEF IInv, PruningKeepsTheNewest

\* The record of the newest snapshot is written, or lost.
LEMMA RecordPatched ==
    ASSUME IInv, RecordInv, patchLastSnapshot
    PROVE  RecordInv'
<1> DEFINE recorded == Cardinality(NotOlder(bp.last))
           newest == Cardinality(NotOlder(taken))
<1>0. Types /\ rec \in RecState /\ left \in Course /\ bp \in Project
  BY DEF IInv, Types
<1>1. /\ KeepSnapshots \in Nat \ {0} /\ taken \in Nat /\ bp.last \in Nat /\ bp.last <= taken
      /\ left.snaps \in Nat /\ Losses \in Nat /\ recorded \in Nat /\ newest \in Nat
  <2>1. recorded \in Nat /\ newest \in Nat
    BY <1>0, NotOlderFinite, Zenon
  <2> HIDE DEF recorded, newest
  <2> QED BY <1>0, <2>1, TakenNat, FanoutAssumption DEF Course, Project, Losses, RecordInv
<1>2. rec.pc = "patch" /\ at' = at /\ snaps' = snaps /\ rec.base.last = taken /\ taken > 0
  BY Zenon DEF patchLastSnapshot, IInv, PatchIsNewest
<1>3. rec'.pc = "prune"
  BY <1>0, Zenon DEF patchLastSnapshot, RecState
<1>4. /\ bp'.last \in {bp.last, taken}
      /\ left'.snaps = left.snaps
      /\ \/ Losses' = Losses /\ bp'.last = taken
         \/ Losses' = Losses - 1
  <2>1. CASE bp' = [bp EXCEPT !.last = rec.base.last] /\ left' = left
    BY <1>0, <1>2, <2>1 DEF Project, Losses
  <2>2. CASE /\ left' = [left EXCEPT !.patches = @ - 1]
             /\ bp' \in {bp, [bp EXCEPT !.last = rec.base.last]}
    <3>1. bp'.last \in {bp.last, taken}
      BY <1>0, <1>2, <2>2 DEF Project
    <3>2. /\ left'.snaps = left.snaps /\ left'.patches = left.patches - 1
          /\ left'.crashes = left.crashes /\ left'.lost = left.lost /\ left'.ties = left.ties
      BY <1>0, <2>2, Zenon DEF Course
    <3> QED BY <1>0, <3>1, <3>2, LossesNat DEF Losses
  <2> QED BY <2>1, <2>2, Zenon DEF patchLastSnapshot
<1>5. /\ taken' = taken /\ newest' = newest
      /\ recorded' = recorded \/ (bp'.last = taken /\ recorded' = newest)
      /\ bp'.last = bp.last => recorded' = recorded
      /\ bp'.last = taken => recorded' = newest
  BY <1>2, <1>4, Zenon DEF NotOlder, taken
<1>6. taken \in snaps
  BY <1>2, NewestExists DEF RecordInv
<1>7. RecordedSnapshotExists'
  BY <1>2, <1>4, <1>6, Zenon DEF RecordInv, RecordedSnapshotExists
<1>8. \/ /\ Losses < KeepSnapshots
         /\ bp.last # None => recorded + Losses < KeepSnapshots + 1
         /\ newest + Losses < KeepSnapshots
      \/ taken + left.snaps < KeepSnapshots
  BY <1>2, Zenon DEF RecordInv, FewUnrecorded
<1> HIDE DEF recorded, newest
<1>9. \/ /\ Losses' < KeepSnapshots
         /\ bp'.last # None => recorded' + Losses' < KeepSnapshots
         /\ taken' > 0 => newest' + Losses' < KeepSnapshots
      \/ taken' + left'.snaps < KeepSnapshots
  BY <1>1, <1>4, <1>5, <1>8 DEF None
<1>10. KeepSnapshots + (IF rec'.pc = "patch" THEN 1 ELSE 0) = KeepSnapshots
  BY <1>1, <1>3
<1>11. FewUnrecorded'
  BY <1>9, <1>10, Zenon DEF FewUnrecorded, recorded, newest
<1>12. bp'.last <= taken'
  BY <1>1, <1>4, <1>5
<1> QED BY <1>7, <1>11, <1>12, Zenon DEF RecordInv

\* The recorded snapshot is not pruned.
LEMMA RecordPruned ==
    ASSUME IInv, RecordInv, pruneSnapshots
    PROVE  RecordInv'
<1>0. Types /\ TakenOnly /\ rec \in RecState /\ left \in Course
  BY DEF IInv, Types
<1>1. PICK gone \in SUBSET rec.list :
        pruned(rec.list, gone) /\ \E deleted : deleted \subseteq gone /\ snaps' = snaps \ deleted
  BY Zenon DEF pruneSnapshots
<1>2. rec.pc = "prune" /\ rec'.pc = "list" /\ UNCHANGED <<at, bp, left>>
  BY <1>0, Zenon DEF pruneSnapshots, RecState
<1>3. taken' = taken /\ NotOlder(bp.last)' = NotOlder(bp.last) /\ NotOlder(taken)' = NotOlder(taken)
  BY <1>2, Zenon DEF taken, NotOlder
<1>4. (IF rec'.pc = "patch" THEN 1 ELSE 0) = 0 /\ (IF rec.pc = "patch" THEN 1 ELSE 0) = 0
  BY <1>2
<1>5. FewUnrecorded'
  BY <1>2, <1>3, <1>4, Zenon DEF RecordInv, FewUnrecorded, Losses
<1>6. ASSUME bp.last # None, bp.last \in gone PROVE FALSE
  <2>1. /\ KeepSnapshots \in Nat /\ taken \in Nat /\ left.snaps \in Nat /\ Losses \in Nat
    BY <1>0, TakenNat, LossesNat, FanoutAssumption
  <2>2. /\ Cardinality(NotOlder(bp.last)) >= KeepSnapshots /\ Cardinality(NotOlder(bp.last)) \in Nat
        /\ Cardinality(NotOlder(bp.last)) <= taken
    BY <1>0, <1>1, <1>6, PrunedIsOld, NotOlderFinite, Zenon
  <2> QED BY <1>4, <1>6, <2>1, <2>2 DEF RecordInv, FewUnrecorded
<1>7. RecordedSnapshotExists'
  BY <1>1, <1>2, <1>6, Zenon DEF RecordInv, RecordedSnapshotExists
<1> QED BY <1>2, <1>3, <1>5, <1>7, Zenon DEF RecordInv

\* The newest snapshot is recorded before anything is pruned; a record that is
\* lost uses up one of the course's losses.
LEMMA RecordKeeps ==
    ASSUME IInv, RecordInv, [Next]_vars
    PROVE  RecordInv'
<1>0. Types /\ rec \in RecState /\ left \in Course /\ bp \in Project
  BY DEF IInv, Types
<1>1. /\ KeepSnapshots \in Nat \ {0} /\ taken \in Nat /\ bp.last \in Nat
      /\ left.snaps \in Nat /\ Losses \in Nat
  BY <1>0, TakenNat, LossesNat, FanoutAssumption DEF Project
<1>2. CASE createSnapshot \/ createAnswerLost
  BY <1>2, RecordTaken
<1>3. CASE patchLastSnapshot
  BY <1>3, RecordPatched
<1>4. CASE pruneSnapshots
  BY <1>4, RecordPruned
<1>5. CASE Reconcile /\ ~createSnapshot /\ ~patchLastSnapshot /\ ~pruneSnapshots
  <2>1. rec.pc # "patch" /\ UNCHANGED <<at, snaps, bp, left>>
    BY <1>5, Zenon DEF Reconcile, recGet, maybeSnapshot, createFails, listClones, readClone, deleteClone,
       clonesPruned, seedClone, finish, world
  <2>2. rec'.pc # "patch"
    BY <1>0, <1>5, Moves
  <2> QED BY <2>1, <2>2, RecordStays, Zenon DEF Losses
<1>6. CASE readCloneFails \/ deleteCloneFails \/ seedCloneFails
  <2>1. left' = [left EXCEPT !.errors = @ - 1] /\ UNCHANGED <<at, snaps, bp>> /\ rec.pc # "patch"
    BY <1>6, Zenon DEF readCloneFails, deleteCloneFails, seedCloneFails, EndsFanout, world
  <2>2. Losses' = Losses /\ left'.snaps = left.snaps
    BY <1>0, <2>1, Zenon DEF Course, Losses
  <2>3. rec' = [rec EXCEPT !.pc = "finish"]
    BY <1>6, Zenon DEF readCloneFails, deleteCloneFails, seedCloneFails, EndsFanout
  <2>4. rec'.pc = "finish"
    BY <1>0, <2>3, Zenon DEF RecState
  <2> QED BY <2>1, <2>2, <2>4, RecordStays
<1>7. CASE TimerFires \/ SyncProjects \/ SyncSnaps \/ CadencePasses \/ UNCHANGED vars
  <2>1. UNCHANGED <<at, snaps, bp, left, rec>>
    BY <1>7, Zenon DEF TimerFires, SyncProjects, SyncSnaps, CadencePasses, world, vars
  <2> QED BY <2>1, RecordStays, Zenon DEF Losses
<1>8. CASE EditSpec
  <2>1. left' = [left EXCEPT !.edits = @ - 1] /\ UNCHANGED <<at, snaps, rec>>
    BY <1>8, Zenon DEF EditSpec
  <2>2. Losses' = Losses /\ left'.snaps = left.snaps
    BY <1>0, <2>1, Zenon DEF Course, Losses
  <2>3. PICK n, on : bp' = [bp EXCEPT !.fanout = n, !.every = on]
    BY <1>8, Zenon DEF EditSpec
  <2>4. bp'.last = bp.last
    BY <1>0, <2>3, Zenon DEF Project
  <2> QED BY <2>1, <2>2, <2>4, RecordStays, Zenon
<1>9. CASE NewLeader
  <2>1. /\ left.crashes > 0 /\ left' = [left EXCEPT !.crashes = @ - 1]
        /\ UNCHANGED <<at, snaps, bp>> /\ rec'.pc = "idle"
    BY <1>9, Zenon DEF NewLeader, world, Resting
  <2>2. /\ left'.patches = left.patches /\ left'.crashes = left.crashes - 1 /\ left'.lost = left.lost
        /\ left'.ties = left.ties /\ left'.snaps = left.snaps
    BY <1>0, <2>1, Zenon DEF Course
  <2>3. Losses' = Losses - 1
    BY <1>0, <2>2, LossesNat DEF Losses
  <2>4. taken' = taken /\ NotOlder(bp.last)' = NotOlder(bp.last) /\ NotOlder(taken)' = NotOlder(taken)
    BY <2>1, Zenon DEF taken, NotOlder
  <2>5. Cardinality(NotOlder(bp.last)) \in Nat /\ Cardinality(NotOlder(taken)) \in Nat
    BY <1>0, NotOlderFinite, Zenon
  <2>6. FewUnrecorded'
    BY <1>1, <2>1, <2>2, <2>3, <2>4, <2>5 DEF RecordInv, FewUnrecorded
  <2>7. RecordedSnapshotExists'
    BY <2>1, Zenon DEF RecordInv, RecordedSnapshotExists
  <2> QED BY <2>1, <2>4, <2>6, <2>7, Zenon DEF RecordInv
<1>10. ASSUME NEW i \in Clone, BuildOnClone(i) PROVE RecordInv'
  <2>1. left' = [left EXCEPT !.builds = @ - 1] /\ UNCHANGED <<at, snaps, bp>>
    BY <1>10, Zenon DEF BuildOnClone, world
  <2>2. Losses' = Losses /\ left'.snaps = left.snaps
    BY <1>0, <2>1, Zenon DEF Course, Losses
  <2>3. PICK x : rec' = [rec EXCEPT !.late = x]
    BY <1>10, Zenon DEF BuildOnClone
  <2>4. rec'.pc = rec.pc
    BY <1>0, <2>3, Zenon DEF RecState
  <2> QED BY <2>1, <2>2, <2>4, RecordStays, Zenon
<1>11. ASSUME NEW i \in Clone, BuildEnds(i) PROVE RecordInv'
  <2>1. UNCHANGED <<at, snaps, bp, left, rec>>
    BY <1>11, Zenon DEF BuildEnds, world
  <2> QED BY <2>1, RecordStays, Zenon DEF Losses
<1> QED BY <1>2, <1>3, <1>4, <1>5, <1>6, <1>7, <1>8, <1>9, <1>10, <1>11, Zenon DEF Next

\* With any number of edits and errors between the snapshot, its record and the
\* prune: status.lastSnapshot names a snapshot that exists, if fewer snapshots
\* go unrecorded (the patch fails, the answer of the create is lost, the leader
\* crashes) or share a second with the one before than are kept.
THEOREM RecordedExists == ASSUME FewLosses PROVE Spec => []RecordedSnapshotExists
<1>1. Init => IInv /\ RecordInv
  BY InitKeeps, RecordInit
<1>2. (IInv /\ RecordInv) /\ [Next]_vars => (IInv /\ RecordInv)'
  BY NextKeeps, RecordKeeps
<1>3. IInv /\ RecordInv => RecordedSnapshotExists
  BY DEF RecordInv
<1> QED BY <1>1, <1>2, <1>3, PTL DEF Spec
=============================================================================
