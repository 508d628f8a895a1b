-------------------------- MODULE MCSnapshotFanout --------------------------
(* SnapshotFanout on two clones, along six courses.                        *)
EXTENDS SnapshotFanout

\* Snapshots are taken and pruned; a crash, an error or a second that two
\* snapshots share comes in the way of each of the following.
Snapshots == [fanout |-> 0, snaps |-> 4, edits |-> 1, builds |-> 0, crashes |-> 0, patches |-> 0,
              lost |-> 0, ties |-> 0, errors |-> 0, calm |-> FALSE]

\* Calls about clones fail, and edits overtake the reconciler.
Rough == [Snapshots EXCEPT !.fanout = 2, !.snaps = 1, !.builds = 1, !.errors = 1]

\* Clones come and go; a crash, a lost patch and builds delay that.
Quiet == [Snapshots EXCEPT !.fanout = 2, !.snaps = 1, !.builds = 2, !.crashes = 1, !.patches = 1,
                           !.calm = TRUE]

AllCourses == {[Snapshots EXCEPT !.crashes = 1], [Snapshots EXCEPT !.patches = 1],
               [Snapshots EXCEPT !.lost = 1], [Snapshots EXCEPT !.ties = 1], Rough, Quiet}

ASSUME FewLossesAssumption == FewLosses
=============================================================================
