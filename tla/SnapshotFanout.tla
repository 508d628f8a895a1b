--------------------------- MODULE SnapshotFanout ---------------------------
(***************************************************************************)
(* Durability snapshots of a project's cache and the fan-out clones that   *)
(* are seeded from them: maybeSnapshot, pruneSnapshots and reconcileFanout *)
(* of the BuildProject controller.  The reconciler reads projects (clones  *)
(* are projects too) and snapshots from two informer copies that lag       *)
(* independently, and records the newest snapshot in the status with an    *)
(* unlocked patch whose failure is only logged.                            *)
(*                                                                         *)
(* Snapshots are numbered in the order they were taken, and at[s] is the   *)
(* creation timestamp of snapshot s, in whole seconds of one clock: two of *)
(* them may share a second.  Copies lag by much less than the cadence.  No *)
(* route chooses a clone, so what registers builds on one is outside the   *)
(* code.                                                                   *)
(***************************************************************************)
EXTENDS Naturals, Sequences, FiniteSets, FiniteSetsExt

CONSTANTS
    MaxFanout,      \* bound on spec.fanout
    KeepSnapshots,  \* --keep-snapshots
    Courses         \* what may happen; a behaviour follows one of them

\* The bounds on what happens: the fan-out, snapshots taken, edits of the spec, builds on
\* clones, crashes of the leader, patches of LastSnapshot that fail, creates of
\* a snapshot whose answer is lost, snapshots taken in the same second as the
\* one before, calls about a clone that fail; calm, when edits are made only
\* while the reconciler rests.
Course == [fanout : 0..MaxFanout, snaps : Nat, edits : Nat, builds : Nat, crashes : Nat,
           patches : Nat, lost : Nat, ties : Nat, errors : Nat, calm : BOOLEAN]

ASSUME FanoutAssumption ==
    /\ {MaxFanout, KeepSnapshots} \subseteq Nat \ {0}
    /\ Courses \subseteq Course

VARIABLES
    bp,      \* spec.fanout, whether snapshots are on, status.lastSnapshot
    bpSeen,
    snaps,   \* the VolumeSnapshots
    snapsSeen,
    at,      \* creation timestamps of the snapshots taken so far
    old,     \* the last snapshot that is older than the cadence
    clones,  \* the snapshot each clone was seeded from, 0 when there is none
    clonesSeen,
    busy,    \* clones with a build in flight
    rec,     \* the reconcile in progress
    queued,  \* the project is in the work queue
    timer,   \* ... or will be, after RequeueAfter
    left     \* what is left of the course's bounds

world == <<bp, snaps, at, clones>>
copies == <<bpSeen, snapsSeen, clonesSeen>>
vars == <<bp, bpSeen, snaps, snapsSeen, at, old, clones, clonesSeen, busy,
          rec, queued, timer, left>>

Clone == 1..MaxFanout
None == 0   \* no snapshot, no clone
taken == Len(at)

\* last is the in-memory LastSnapshot, list the snapshots listed, todo the
\* clones still to be looked at, wait whether to come back; late, a history,
\* tells that the victim got a build since the read that found it idle.
Resting == [pc |-> "idle", base |-> [fanout |-> 0, every |-> FALSE, last |-> None],
            list |-> {}, todo |-> {}, victim |-> 0, wait |-> FALSE, late |-> FALSE]

Init ==
    /\ left \in Courses
    /\ \E n \in 0..left.fanout : bp = [fanout |-> n, every |-> TRUE, last |-> None]
    /\ bpSeen = bp
    /\ snaps = {} /\ snapsSeen = {} /\ at = <<>> /\ old = 0
    /\ clones = [i \in Clone |-> None] /\ clonesSeen = {}
    /\ busy = {}
    /\ rec = Resting
    /\ queued = TRUE /\ timer = FALSE

-----------------------------------------------------------------------------
(* The reconcile.                                                          *)

\* A priority queue gives up the pending wake-up when it hands the project
\* out early, a delaying queue keeps it.
recGet ==
    /\ rec.pc = "idle"
    /\ queued
    /\ queued' = FALSE /\ timer' \in {timer, FALSE}
    /\ rec' = [Resting EXCEPT !.pc = IF bpSeen.every THEN "snapshot" ELSE "list",
                              !.base = bpSeen]
    /\ UNCHANGED <<world, copies, old, busy, left>>

\* The newest snapshot listed is older than the cadence.
Due(list) == list = {} \/ Max(list) <= old

\* maybeSnapshot up to the decision.
maybeSnapshot ==
    /\ rec.pc = "snapshot"
    /\ rec' = [rec EXCEPT !.list = snapsSeen, !.wait = TRUE,
                          !.pc = IF Due(snapsSeen) THEN "create" ELSE "list"]
    /\ UNCHANGED <<world, copies, old, busy, queued, timer, left>>

\* A new snapshot: of a later second than the last one, or of the same if
\* that one is younger than the cadence.
Taken(bounds) ==
    /\ left.snaps > 0
    /\ snaps' = snaps \cup {taken + 1}
    /\ \/ /\ at' = Append(at, IF taken = 0 THEN 1 ELSE at[taken] + 1)
          /\ left' = [bounds EXCEPT !.snaps = @ - 1]
       \/ /\ taken > old /\ left.ties > 0
          /\ at' = Append(at, at[taken])
          /\ left' = [bounds EXCEPT !.snaps = @ - 1, !.ties = @ - 1]

createSnapshot ==
    /\ rec.pc = "create"
    /\ Taken(left)
    /\ rec' = [rec EXCEPT !.pc = "patch", !.list = @ \cup {taken'}, !.base.last = taken']
    /\ UNCHANGED <<bp, clones, copies, old, busy, queued, timer>>

\* The snapshot is there but the answer is an error: it is neither recorded
\* nor pruned by.
createAnswerLost ==
    /\ rec.pc = "create"
    /\ left.lost > 0
    /\ Taken([left EXCEPT !.lost = @ - 1])
    /\ rec' = [rec EXCEPT !.pc = "list"]
    /\ UNCHANGED <<bp, clones, copies, old, busy, queued, timer>>

\* The snapshot is put off by a cadence; the rest of the reconcile goes on.
createFails ==
    /\ rec.pc = "create"
    /\ rec' = [rec EXCEPT !.pc = "list"]
    /\ UNCHANGED <<world, copies, old, busy, queued, timer, left>>

\* The merge patch carries only LastSnapshot, and its answer brings the rest of
\* the project up to date.  If it fails (before or after the server applied it)
\* the reconcile goes on with its own idea of the project.
patchLastSnapshot ==
    /\ rec.pc = "patch"
    /\ \/ /\ bp' = [bp EXCEPT !.last = rec.base.last] /\ left' = left
          /\ rec' = [rec EXCEPT !.pc = "prune", !.base = bp']
       \/ /\ left.patches > 0
          /\ left' = [left EXCEPT !.patches = @ - 1]
          /\ bp' \in {bp, [bp EXCEPT !.last = rec.base.last]}
          /\ rec' = [rec EXCEPT !.pc = "prune"]
    /\ UNCHANGED <<snaps, at, clones, copies, old, busy, queued, timer>>

\* Mutant: one too few is kept.
pruned_OffByOne(list, gone) ==
    \/ gone = {} /\ Cardinality(list) < KeepSnapshots
    \/ /\ Cardinality(list \ gone) = KeepSnapshots - 1
       /\ \A s \in gone, r \in list \ gone : at[s] <= at[r]

\* Mutant: the sort is the wrong way round.
pruned_Newest(list, gone) ==
    \/ gone = {} /\ Cardinality(list) <= KeepSnapshots
    \/ /\ Cardinality(list \ gone) = KeepSnapshots
       /\ \A s \in gone, r \in list \ gone : at[s] >= at[r]

\* All but the newest KeepSnapshots of the snapshots listed: the sort is by the
\* second, and leaves those of one second in any order.
pruned(list, gone) ==
    \/ gone = {} /\ Cardinality(list) <= KeepSnapshots
    \/ /\ Cardinality(list \ gone) = KeepSnapshots
       /\ \A s \in gone, r \in list \ gone : at[s] <= at[r]

\* Each delete may fail, and nobody looks.
pruneSnapshots ==
    /\ rec.pc = "prune"
    /\ \E gone \in SUBSET rec.list :
        /\ pruned(rec.list, gone)
        /\ \E deleted \in SUBSET gone : snaps' = snaps \ deleted
    /\ rec' = [rec EXCEPT !.pc = "list"]
    /\ UNCHANGED <<bp, at, clones, copies, old, busy, queued, timer, left>>

\* reconcileFanout: the clones beyond the fan-out, from the cached list.
listClones ==
    /\ rec.pc = "list"
    /\ rec' = [rec EXCEPT !.pc = "clones", !.todo = {i \in clonesSeen : i > rec.base.fanout}]
    /\ UNCHANGED <<world, copies, old, busy, queued, timer, left>>

\* Mutant: the cached list is believed.
readClone_Cached(i) ==
    /\ rec.pc = "clones"
    /\ i \in rec.todo
    /\ rec' = [rec EXCEPT !.todo = @ \ {i}, !.pc = "delete", !.victim = i, !.late = FALSE]
    /\ UNCHANGED <<world, copies, old, busy, queued, timer, left>>

\* Mutant: a busy clone is left and nobody comes back to it.
readClone_NotDeferred(i) ==
    /\ rec.pc = "clones"
    /\ i \in rec.todo
    /\ rec' = IF i \in busy
              THEN [rec EXCEPT !.todo = @ \ {i}]
              ELSE [rec EXCEPT !.todo = @ \ {i}, !.pc = "delete", !.victim = i, !.late = FALSE]
    /\ UNCHANGED <<world, copies, old, busy, queued, timer, left>>

\* freshInflightEntries of a clone: a busy one is left for later.
readClone(i) ==
    /\ rec.pc = "clones"
    /\ i \in rec.todo
    /\ rec' = IF i \in busy
              THEN [rec EXCEPT !.todo = @ \ {i}, !.wait = TRUE]
              ELSE [rec EXCEPT !.todo = @ \ {i}, !.pc = "delete", !.victim = i, !.late = FALSE]
    /\ UNCHANGED <<world, copies, old, busy, queued, timer, left>>

\* An error ends reconcileFanout and is logged; nothing asks to come back.
EndsFanout ==
    /\ left.errors > 0
    /\ left' = [left EXCEPT !.errors = @ - 1]
    /\ rec' = [rec EXCEPT !.pc = "finish"]

readCloneFails ==
    /\ rec.pc = "clones" /\ rec.todo # {}
    /\ EndsFanout
    /\ UNCHANGED <<world, copies, old, busy, queued, timer>>

VictimGone ==
    /\ clones' = [clones EXCEPT ![rec.victim] = None]
    /\ busy' = busy \ {rec.victim}

deleteClone ==
    /\ rec.pc = "delete"
    /\ VictimGone
    /\ rec' = [rec EXCEPT !.pc = "clones"]
    /\ UNCHANGED <<bp, snaps, at, copies, old, queued, timer, left>>

\* The delete may have been done although it returns an error.
deleteCloneFails ==
    /\ rec.pc = "delete"
    /\ VictimGone \/ UNCHANGED <<clones, busy>>
    /\ EndsFanout
    /\ UNCHANGED <<bp, snaps, at, copies, old, queued, timer>>

clonesPruned ==
    /\ rec.pc = "clones" /\ rec.todo = {}
    /\ rec' = [rec EXCEPT !.pc = IF rec.base.last = None THEN "finish" ELSE "seed",
                          !.todo = 1..rec.base.fanout]
    /\ UNCHANGED <<world, copies, old, busy, queued, timer, left>>

\* One turn of the second loop, in the order of the clones.  The cache may
\* not show a clone that is there: the create fails and ends the loop.
seedClone ==
    /\ rec.pc = "seed" /\ rec.todo # {}
    /\ LET i == Min(rec.todo)
           next == [rec EXCEPT !.todo = @ \ {i}]
       IN  \/ /\ i \in clonesSeen
              /\ rec' = next /\ clones' = clones
           \/ /\ i \notin clonesSeen /\ clones[i] = None
              /\ clones' = [clones EXCEPT ![i] = rec.base.last]
              /\ rec' = next
           \/ /\ i \notin clonesSeen /\ clones[i] # None
              /\ rec' = [rec EXCEPT !.pc = "finish"] /\ clones' = clones
    /\ UNCHANGED <<bp, snaps, at, copies, old, busy, queued, timer, left>>

\* The clone cannot be looked up or created, or its create is not answered.
seedCloneFails ==
    /\ rec.pc = "seed" /\ rec.todo # {}
    /\ LET i == Min(rec.todo)
       IN  \/ clones' = clones
           \/ /\ i \notin clonesSeen /\ clones[i] = None
              /\ clones' = [clones EXCEPT ![i] = rec.base.last]
    /\ EndsFanout
    /\ UNCHANGED <<bp, snaps, at, copies, old, busy, queued, timer>>

\* RequeueAfter, if a snapshot will be due or a clone was left.
finish ==
    /\ rec.pc = "finish" \/ (rec.pc = "seed" /\ rec.todo = {})
    /\ timer' \in {timer \/ rec.wait} \cup (IF queued THEN {FALSE} ELSE {})
    /\ rec' = Resting
    /\ UNCHANGED <<world, copies, old, busy, queued, left>>

Reconcile ==
    \/ recGet \/ maybeSnapshot \/ createSnapshot \/ createFails \/ patchLastSnapshot
    \/ pruneSnapshots \/ listClones \/ (\E i \in Clone : readClone(i)) \/ deleteClone
    \/ clonesPruned \/ seedClone \/ finish

-----------------------------------------------------------------------------
(* The rest of the world.                                                  *)

Present == {i \in Clone : clones[i] # None}

CopiesCurrent == bpSeen = bp /\ clonesSeen = Present /\ snapsSeen = snaps

\* Every interval is much longer than a copy lags.
TimerFires ==
    /\ timer /\ CopiesCurrent
    /\ timer' = FALSE /\ queued' = TRUE
    /\ UNCHANGED <<world, copies, old, busy, rec, left>>

\* Events of the project enqueue it; those of a clone enqueue the clone.
SyncProjects ==
    /\ bpSeen # bp \/ clonesSeen # Present
    /\ bpSeen' = bp /\ clonesSeen' = Present
    /\ queued' = (queued \/ bpSeen # bp)
    /\ UNCHANGED <<world, snapsSeen, old, busy, rec, timer, left>>

\* Events of the snapshots enqueue their owner.
SyncSnaps ==
    /\ snapsSeen # snaps
    /\ snapsSeen' = snaps /\ queued' = TRUE
    /\ UNCHANGED <<world, bpSeen, clonesSeen, old, busy, rec, timer, left>>

CadencePasses ==
    /\ CopiesCurrent /\ rec.pc = "idle"
    /\ old # taken
    /\ old' = taken
    /\ UNCHANGED <<world, copies, busy, rec, queued, timer, left>>

EditSpec ==
    /\ left.edits > 0
    /\ left.calm => CopiesCurrent /\ rec.pc = "idle" /\ ~queued
    /\ left' = [left EXCEPT !.edits = @ - 1]
    /\ \E n \in 0..left.fanout, on \in BOOLEAN : bp' = [bp EXCEPT !.fanout = n, !.every = on]
    /\ UNCHANGED <<snaps, at, clones, copies, old, busy, rec, queued, timer>>

BuildOnClone(i) ==
    /\ left.builds > 0
    /\ clones[i] # None /\ i \notin busy
    /\ left' = [left EXCEPT !.builds = @ - 1]
    /\ busy' = busy \cup {i}
    /\ rec' = [rec EXCEPT !.late = @ \/ (rec.pc = "delete" /\ i = rec.victim)]
    /\ UNCHANGED <<world, copies, old, queued, timer>>

BuildEnds(i) ==
    /\ i \in busy
    /\ busy' = busy \ {i}
    /\ UNCHANGED <<world, copies, old, rec, queued, timer, left>>

\* The leader crashes; by the time the next one is elected its copies have
\* caught up, and it starts with every project in its queue.
NewLeader ==
    /\ left.crashes > 0
    /\ left' = [left EXCEPT !.crashes = @ - 1]
    /\ rec' = Resting
    /\ queued' = TRUE /\ timer' = FALSE
    /\ bpSeen' = bp /\ clonesSeen' = Present /\ snapsSeen' = snaps
    /\ UNCHANGED <<world, old, busy>>

Next ==
    \/ Reconcile
    \/ createAnswerLost \/ readCloneFails \/ deleteCloneFails \/ seedCloneFails
    \/ TimerFires \/ SyncProjects \/ SyncSnaps \/ CadencePasses
    \/ EditSpec \/ NewLeader
    \/ \E i \in Clone : BuildOnClone(i) \/ BuildEnds(i)

Spec == Init /\ [][Next]_vars

\* The manager runs what is queued, watches deliver, timers fire and builds
\* end.
FairSpec ==
    /\ Spec
    /\ WF_vars(Reconcile) /\ WF_vars(TimerFires)
    /\ WF_vars(SyncProjects) /\ WF_vars(SyncSnaps)
    /\ \A i \in Clone : WF_vars(BuildEnds(i))

-----------------------------------------------------------------------------
\* The snapshots that pruneSnapshots may take to be newer than s: those of a
\* later second, and the others of the same.
NotOlder(s) == {r \in 1..taken : r # s /\ at[r] >= at[s]}

\* Whatever the copies show and whatever fails, the newest KeepSnapshots are
\* there; snapshots of one second, which the sort cannot tell apart, all count
\* as newer than each other (pruneSnapshots).
PruningKeepsTheNewest ==
    \A s \in 1..taken : Cardinality(NotOlder(s)) < KeepSnapshots => s \in snaps

\* Fewer snapshots go unrecorded (the patch fails, the leader crashes, the
\* answer of the create is lost) or share a second with the one before than
\* are kept; or none is ever pruned.
FewLosses ==
    \A c \in Courses : \/ c.patches + c.crashes + c.lost + c.ties < KeepSnapshots
                       \/ c.snaps < KeepSnapshots

\* status.lastSnapshot names a snapshot that exists, so that forks and clones
\* can be seeded from it, as long as FewLosses (maybeSnapshot patches before
\* it prunes, only logs an error, and prunes by the second).
RecordedSnapshotExists == bp.last # None => bp.last \in snaps

\* A clone is deleted under a build only if the build came after the fresh
\* read that found the clone idle (reconcileFanout).
ClonePruneIsConfirmed ==
    [][\A i \in Clone : i \in busy /\ clones[i] # None /\ clones'[i] = None => rec.late]_vars

\* Lowering the fan-out removes the clones beyond it, busy ones once their
\* builds are over (reconcileFanout, and the requeue it asks for), provided
\* that no call about a clone fails and edits do not overtake the reconciler:
\* nothing else brings it back to a clone it missed.
SurplusClonesGo ==
    left.calm /\ left.errors = 0 =>
        \A i \in Clone : clones[i] # None /\ i > bp.fanout
                            ~> clones[i] = None \/ i <= bp.fanout

\* "Takes a durability VolumeSnapshot ... when the cadence is due": none is
\* taken while the newest is younger than the cadence.
OneSnapshotPerCadence == [][at' # at => Due(snaps)]_vars
=============================================================================
