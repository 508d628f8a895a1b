---------------------------- MODULE MCStatusStore ----------------------------
(***************************************************************************)
(* A small instance of StatusStore for TLC: two replicas and two builds,   *)
(* in casts that each bring one kind of conflict about.  A project         *)
(* whose cache policy is "never" has no export to elect, which keeps the   *)
(* casts that are not about it small.                                      *)
(***************************************************************************)
EXTENDS StatusStore, TLC

CONSTANTS r1, r2, b1, b2, w1, k1

ReplicaSymmetry == Permutations({r1, r2})

\* A route, or a prewarm, and the leader's sweep write a project with builds that
\* an older release counted.
Sweeping == [cast |-> {<<"route", b1>>} \cup Reconciles, api |-> Legacy(1, "never")]
Touching == [cast |-> Touches \cup Reconciles, api |-> Legacy(2, "never")]

\* Two builds that may fail, one of which is released without its token.
Releasing == [cast |-> Routes \cup {<<"complete", b2>>}, api |-> Legacy(0, "never")]

\* Two builds for the one place that a build an older release counted leaves.
Capping == [cast |-> Routes, api |-> Legacy(1, "never")]

\* A build that is released by its token, once or again, next to two that an
\* older release counted.
Again == [cast |-> {<<"route", b1>>} \cup Completes, api |-> Legacy(2, "never")]

\* Two routes that ask for the export.
Exporting == [cast |-> Routes, api |-> Legacy(0, "cadence")]

\* A route and a prewarm that create the project.
Creating == [cast |-> {<<"route", b1>>} \cup Touches, api |-> Absent]

MCStarts == {Sweeping, Touching, Releasing, Capping, Again, Exporting, Creating}

MCEdits == {<<"cadence", "always">>}
=============================================================================
