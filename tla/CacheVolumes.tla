---------------------------- MODULE CacheVolumes ----------------------------
(***************************************************************************)
(* Who deletes a cache volume: the reconciler reaping an idle fork         *)
(* (reapFork), the sweeper of orphaned claims (pvc_sweeper.go), and the    *)
(* garbage collector behind a deleted BuildProject; against the routes     *)
(* that create the project again under the same name.  The reconciler and  *)
(* the sweeper work from informer copies, and both delete by name.         *)
(*                                                                         *)
(* Copies lag by much less than a grace period, so nothing comes of age    *)
(* before the copy has seen it.  Scaling and rolling are DaemonLifecycle's *)
(* subject; here the daemon only has its StatefulSet and its claim.        *)
(***************************************************************************)
EXTENDS Naturals

CONSTANT MaxBorn    \* how many incarnations of the project there may be

ASSUME VolumesAssumption == MaxBorn \in Nat

VARIABLES
    fork,    \* is this the key of a fork?  Never changes
    bp,      \* the BuildProject; uid = 0 when there is none
    bpSeen,  \* the leader's informer copy
    born,    \* incarnations so far
    sts,     \* uid of the project that owns the StatefulSet, 0 when none
    pvc,     \* the claim: [uid, old], uid of the project it was made for
    route,   \* a /route for the key: "off", "ensured" or "on"
    rec,     \* the reconcile in progress
    sweep    \* the sweep in progress

vars == <<fork, bp, bpSeen, born, sts, pvc, route, rec, sweep>>

NoProject == [uid |-> 0, idle |-> FALSE, old |-> FALSE, busy |-> FALSE]
NoClaim == [uid |-> 0, old |-> FALSE]

\* base is the copy the reconcile works on; late, a history, tells that a
\* build was registered since the read that confirmed the decision.
Resting == [pc |-> "idle", base |-> NoProject, late |-> FALSE]

Unswept == [pc |-> "idle", live |-> FALSE]

Init ==
    /\ fork \in BOOLEAN
    /\ bp = NoProject /\ bpSeen = NoProject
    /\ born = 0
    /\ sts = 0
    /\ pvc = NoClaim
    /\ route = "off"
    /\ rec = Resting
    /\ sweep = Unswept

-----------------------------------------------------------------------------
(* Routes.                                                                 *)

\* ensureBuildProject.  A project just created may miss its first stamp of
\* LastBuildTime, and then looks idle.
Ensure(stamped) ==
    /\ route = "off"
    /\ route' = "ensured"
    /\ IF bpSeen.uid # 0 \/ bp.uid # 0
       THEN UNCHANGED <<bp, born>>
       ELSE /\ born < MaxBorn
            /\ born' = born + 1
            /\ bp' = [NoProject EXCEPT !.uid = born + 1, !.idle = ~stamped]
    /\ UNCHANGED <<fork, bpSeen, sts, pvc, rec, sweep>>

\* StartInflight; on a project that is gone it fails after its retries.
StartInflight ==
    /\ route = "ensured"
    /\ route' = "on"
    /\ bp' = IF bp.uid = 0 THEN bp ELSE [bp EXCEPT !.busy = TRUE, !.idle = FALSE]
    /\ rec' = [rec EXCEPT !.late = rec.pc \in {"reapPVC", "reapBP"}]
    /\ UNCHANGED <<fork, bpSeen, born, sts, pvc, sweep>>

EndInflight ==
    /\ route = "on"
    /\ route' = "off"
    /\ bp' = [bp EXCEPT !.busy = FALSE]
    /\ UNCHANGED <<fork, bpSeen, born, sts, pvc, rec, sweep>>

-----------------------------------------------------------------------------
(* Reconcile, as far as it decides between keeping and reaping.            *)

Goto(pc) == rec' = [rec EXCEPT !.pc = pc]

\* Get from the cache and desiredReplicas.
recGet ==
    /\ rec.pc = "idle"
    /\ bpSeen.uid # 0
    /\ rec' = [pc |-> IF bpSeen.busy \/ ~bpSeen.idle THEN "ensure" ELSE "confirm",
               base |-> bpSeen, late |-> FALSE]
    /\ UNCHANGED <<fork, bp, bpSeen, born, sts, pvc, route, sweep>>

\* Mutant: the copy is asked again.
recConfirm_Cached ==
    /\ rec.pc = "confirm"
    /\ rec' = CASE bpSeen.busy -> [rec EXCEPT !.pc = "ensure"]
                [] ~bpSeen.busy /\ fork /\ rec.base.old -> [rec EXCEPT !.pc = "reapPVC"]
                [] OTHER -> Resting
    /\ UNCHANGED <<fork, bp, bpSeen, born, sts, pvc, route, sweep>>

\* freshInflightEntries: a project that is gone has none.  A fork younger
\* than forkReapGrace is left for later, an idle canonical one is scaled
\* to zero and keeps its claim.
recConfirm ==
    /\ rec.pc = "confirm"
    /\ rec' = CASE bp.busy -> [rec EXCEPT !.pc = "ensure"]
                [] ~bp.busy /\ fork /\ rec.base.old -> [rec EXCEPT !.pc = "reapPVC"]
                [] OTHER -> Resting
    /\ UNCHANGED <<fork, bp, bpSeen, born, sts, pvc, route, sweep>>

\* ensureStatefulSet, owned by the incarnation that was read.
recEnsure ==
    /\ rec.pc = "ensure"
    /\ sts' = IF sts = 0 THEN rec.base.uid ELSE sts
    /\ rec' = Resting
    /\ UNCHANGED <<fork, bp, bpSeen, born, pvc, route, sweep>>

\* The claim is looked up in the cache, which may not show a new one yet.
reapPVC ==
    /\ rec.pc = "reapPVC"
    /\ pvc' \in {NoClaim, pvc}
    /\ Goto("reapBP")
    /\ UNCHANGED <<fork, bp, bpSeen, born, sts, route, sweep>>

\* Deletes whatever project has the name now.
reapBP ==
    /\ rec.pc = "reapBP"
    /\ bp' = NoProject
    /\ rec' = Resting
    /\ UNCHANGED <<fork, bpSeen, born, sts, pvc, route, sweep>>

\* A call fails; the reconcile is repeated from the start.
recFails ==
    /\ rec.pc # "idle"
    /\ rec' = Resting
    /\ UNCHANGED <<fork, bp, bpSeen, born, sts, pvc, route, sweep>>

-----------------------------------------------------------------------------
(* The sweeper: projects are listed first, claims second.  Claims are      *)
(* listed from a cache too; sweeps are much further apart than a copy lags,*)
(* so the listing of a claim is only as old as its sweep.                  *)

sweepProjects ==
    /\ sweep.pc = "idle"
    /\ sweep' = [pc |-> "listed", live |-> bpSeen.uid # 0]
    /\ UNCHANGED <<fork, bp, bpSeen, born, sts, pvc, route, rec>>

\* Mutant: no grace for young claims.
sweepClaims_NoGrace ==
    /\ sweep.pc = "listed"
    /\ sweep' = [sweep EXCEPT !.pc = IF sweep.live \/ pvc.uid = 0 THEN "idle" ELSE "delete"]
    /\ UNCHANGED <<fork, bp, bpSeen, born, sts, pvc, route, rec>>

\* A claim whose project was listed is kept, and so is a young one.
sweepClaims ==
    /\ sweep.pc = "listed"
    /\ sweep' = [sweep EXCEPT !.pc = IF sweep.live \/ ~pvc.old THEN "idle" ELSE "delete"]
    /\ UNCHANGED <<fork, bp, bpSeen, born, sts, pvc, route, rec>>

\* Mutant: the delete is only logged.
sweepDelete_Logged ==
    /\ sweep.pc = "delete"
    /\ sweep' = Unswept
    /\ UNCHANGED <<fork, bp, bpSeen, born, sts, pvc, route, rec>>

sweepDelete ==
    /\ sweep.pc = "delete"
    /\ pvc' = NoClaim
    /\ sweep' = Unswept
    /\ UNCHANGED <<fork, bp, bpSeen, born, sts, route, rec>>

\* A list or a delete fails: the next tick tries again.
sweepFails ==
    /\ sweep.pc # "idle"
    /\ sweep' = Unswept
    /\ UNCHANGED <<fork, bp, bpSeen, born, sts, pvc, route, rec>>

\* The leader crashes; another replica reconciles and sweeps from the start.
NewLeader ==
    /\ rec.pc # "idle" \/ sweep.pc # "idle"
    /\ rec' = Resting /\ sweep' = Unswept
    /\ UNCHANGED <<fork, bp, bpSeen, born, sts, pvc, route>>

-----------------------------------------------------------------------------
(* The cluster.                                                            *)

SyncBP ==
    /\ bpSeen # bp
    /\ bpSeen' = bp
    /\ UNCHANGED <<fork, bp, born, sts, pvc, route, rec, sweep>>

\* Somebody deletes the BuildProject.
DeletedByHand ==
    /\ bp.uid # 0
    /\ bp' = NoProject
    /\ UNCHANGED <<fork, bpSeen, born, sts, pvc, route, rec, sweep>>

\* The StatefulSet goes with its owner; a fork's takes its claim along.
CascadeDelete ==
    /\ sts \notin {0, bp.uid}
    /\ sts' = 0
    /\ pvc' = IF fork THEN NoClaim ELSE pvc
    /\ UNCHANGED <<fork, bp, bpSeen, born, route, rec, sweep>>

\* The StatefulSet makes its claim, or takes over the one it finds.
MakeClaim ==
    /\ sts # 0
    /\ pvc.uid = 0
    /\ pvc' = [uid |-> sts, old |-> FALSE]
    /\ UNCHANGED <<fork, bp, bpSeen, born, sts, route, rec, sweep>>

\* The idle window passes.
GoesIdle ==
    /\ bp.uid # 0 /\ ~bp.busy /\ ~bp.idle
    /\ bp' = [bp EXCEPT !.idle = TRUE]
    /\ UNCHANGED <<fork, bpSeen, born, sts, pvc, route, rec, sweep>>

\* forkReapGrace passes: longer than a copy lags or a route takes to register.
ProjectAges ==
    /\ bp.uid # 0 /\ ~bp.old
    /\ bpSeen.uid = bp.uid
    /\ route # "ensured"
    /\ bp' = [bp EXCEPT !.old = TRUE]
    /\ UNCHANGED <<fork, bpSeen, born, sts, pvc, route, rec, sweep>>

\* The sweeper's grace passes: longer than a copy lags or a sweep takes.
ClaimAges ==
    /\ pvc.uid # 0 /\ ~pvc.old
    /\ bpSeen.uid = bp.uid
    /\ sweep.pc = "idle"
    /\ pvc' = [pvc EXCEPT !.old = TRUE]
    /\ UNCHANGED <<fork, bp, bpSeen, born, sts, route, rec, sweep>>

Reconcile == recGet \/ recConfirm \/ recEnsure \/ reapPVC \/ reapBP

Next ==
    \/ (\E stamped \in BOOLEAN : Ensure(stamped)) \/ StartInflight \/ EndInflight
    \/ Reconcile \/ recFails
    \/ sweepProjects \/ sweepClaims \/ sweepDelete \/ sweepFails \/ NewLeader
    \/ SyncBP \/ DeletedByHand \/ CascadeDelete \/ MakeClaim
    \/ GoesIdle \/ ProjectAges \/ ClaimAges

Spec == Init /\ [][Next]_vars

\* The sweeper has its ticker and does not fail for ever, and the cluster and
\* time go on.
FairSpec ==
    /\ Spec
    /\ WF_vars(sweepProjects) /\ SF_vars(sweepClaims) /\ SF_vars(sweepDelete)
    /\ WF_vars(SyncBP) /\ WF_vars(CascadeDelete) /\ SF_vars(ClaimAges)

-----------------------------------------------------------------------------
\* A fork is reaped under a registered build only if the build was registered
\* after the fresh read that found none (Reconcile, reapFork).
ForkReapIsConfirmed == [][rec.pc = "reapBP" /\ bp.busy /\ bp'.uid = 0 /\ rec'.pc = "idle"
                            => rec.late]_vars

\* The claim made for the project that exists is never swept: what the
\* sweeper's grace is for ("a project still being created isn't raced").  Not
\* so for a fork: its claim can go with its StatefulSet and be made anew
\* between the sweeper's list and its delete, which is by name.
SweepSparesOwnClaim ==
    [][~fork /\ sweep.pc = "delete" /\ sweep'.pc = "idle" /\ pvc.uid # 0 /\ pvc'.uid = 0
            => pvc.uid # bp.uid]_vars

\* A claim whose project is gone for good is reclaimed, whoever crashed in
\* the middle of deleting what (PVCSweeper, "the catch-all backstop").
OrphanIsReclaimed == pvc.uid # 0 /\ bp.uid = 0 ~> pvc.uid = 0 \/ bp.uid # 0

\* "Hold off until the fork has had its chance": a fork younger than
\* forkReapGrace is not reaped (Reconcile, the birth-window guard).
NewbornForkIsSpared ==
    [][rec.pc = "reapBP" /\ bp.uid # 0 /\ bp'.uid = 0 /\ rec'.pc = "idle" => bp.old]_vars

\* "Its BuildProject still exists -- keep the (possibly warm) cache" (sweep).
SweepSparesLiveProject ==
    [][sweep.pc = "delete" /\ sweep'.pc = "idle" /\ pvc.uid # 0 /\ pvc'.uid = 0
            => bp.uid = 0]_vars
=============================================================================
