------------------------- MODULE CacheVolumesProofs -------------------------
(***************************************************************************)
(* The safety theorems about CacheVolumes, for any number of incarnations. *)
(***************************************************************************)
EXTENDS CacheVolumes, TLAPS

Incarnations == [uid : Nat, idle : BOOLEAN, old : BOOLEAN, busy : BOOLEAN]
VolumeClaims == [uid : Nat, old : BOOLEAN]

Typed ==
    /\ fork \in BOOLEAN
    /\ bp \in Incarnations /\ bpSeen \in Incarnations
    /\ born \in Nat /\ sts \in Nat
    /\ pvc \in VolumeClaims
    /\ rec \in [pc : {"idle", "confirm", "ensure", "reapPVC", "reapBP"},
                base : Incarnations, late : BOOLEAN]
    /\ sweep \in [pc : {"idle", "listed", "delete"}, live : BOOLEAN]

\* No uid is ahead of the incarnations born, so that a new one is new to every
\* object, copy and local variable.
UidsAreOld ==
    /\ bp.uid <= born /\ bpSeen.uid <= born /\ sts <= born
    /\ pvc.uid <= born /\ rec.base.uid <= born

\* Only a fork is reaped, and one that builds only by a build registered after
\* the confirming read.
ReapOK ==
    rec.pc \in {"reapPVC", "reapBP"} => fork /\ (bp.busy => rec.late)

\* A claim that has come of age under its own project is known to the copy,
\* so a sweep that missed the project looks at another incarnation's claim.
SweepOK ==
    /\ pvc.old => pvc.uid # 0
    /\ pvc.old /\ pvc.uid = bp.uid => bpSeen.uid = bp.uid
    /\ sweep.pc = "listed" /\ ~sweep.live /\ pvc.old => pvc.uid # bp.uid
    /\ sweep.pc = "delete" /\ ~fork => pvc.uid # 0 /\ pvc.uid # bp.uid

IInv == Typed /\ UidsAreOld /\ ReapOK /\ SweepOK

\* The inductive invariant holds before the project is first routed to.
LEMMA InitKeeps == Init => IInv
  BY DEF Init, IInv, Typed, UidsAreOld, ReapOK, SweepOK, Incarnations, VolumeClaims, NoProject,
     NoClaim, Resting, Unswept

\* Routes.
LEMMA RouteSteps ==
  ASSUME IInv, (\E stamped \in BOOLEAN : Ensure(stamped)) \/ StartInflight \/ EndInflight
  PROVE  IInv'
<1> USE DEF IInv, Typed, UidsAreOld, ReapOK, SweepOK
<1>1. ASSUME NEW stamped \in BOOLEAN, Ensure(stamped) PROVE IInv'
  <2>1. UNCHANGED <<fork, bpSeen, sts, pvc, rec, sweep>>
    BY <1>1, Zenon DEF Ensure
  <2>2. CASE UNCHANGED <<bp, born>>
    BY <2>1, <2>2
  <2>3. CASE /\ born' = born + 1
             /\ bp' = [NoProject EXCEPT !.uid = born + 1, !.idle = ~stamped]
    <3>1. bp' \in Incarnations /\ bp'.uid = born + 1 /\ bp'.busy = FALSE
      <4> DEFINE i == ~stamped
      <4>1. i \in BOOLEAN
        OBVIOUS
      <4>2. bp' = [uid |-> born + 1, idle |-> i, old |-> FALSE, busy |-> FALSE]
        BY <2>3, Zenon DEF NoProject
      <4>3. born + 1 \in Nat
        OBVIOUS
      <4> HIDE DEF i
      <4> QED BY <4>1, <4>2, <4>3 DEF Incarnations
    <3>2. pvc.uid \in Nat /\ bpSeen.uid \in Nat /\ rec.base.uid \in Nat
      BY DEF Incarnations, VolumeClaims
    <3> QED BY <2>1, <2>3, <3>1, <3>2
  <2> QED BY <1>1, <2>2, <2>3, Zenon DEF Ensure
<1>2. CASE StartInflight
  <2>1. UNCHANGED <<fork, bpSeen, born, sts, pvc, sweep>>
    BY <1>2 DEF StartInflight
  <2>2. bp' \in Incarnations /\ bp'.uid = bp.uid
    BY <1>2, Zenon DEF StartInflight, Incarnations
  <2>3. /\ rec' \in [pc : {"idle", "confirm", "ensure", "reapPVC", "reapBP"},
                     base : Incarnations, late : BOOLEAN]
        /\ rec'.pc = rec.pc /\ rec'.base = rec.base
        /\ rec.pc \in {"reapPVC", "reapBP"} => rec'.late
    <3> DEFINE l == rec.pc \in {"reapPVC", "reapBP"}
    <3>1. l \in BOOLEAN /\ (rec.pc \in {"reapPVC", "reapBP"} => l)
      OBVIOUS
    <3>2. rec' = [rec EXCEPT !.late = l]
      BY <1>2 DEF StartInflight
    <3> HIDE DEF l
    <3> QED BY <3>1, <3>2
  <2> QED BY <2>1, <2>2, <2>3
<1>3. CASE EndInflight
  <2>1. UNCHANGED <<fork, bpSeen, born, sts, pvc, rec, sweep>>
    BY <1>3 DEF EndInflight
  <2>2. bp' \in Incarnations /\ bp'.uid = bp.uid /\ bp'.busy = FALSE
    BY <1>3, Zenon DEF EndInflight, Incarnations
  <2> QED BY <2>1, <2>2
<1> QED BY <1>1, <1>2, <1>3

\* Reconciles, with the reaping of a fork.
LEMMA ReconcileSteps ==
  ASSUME IInv, Reconcile \/ recFails \/ NewLeader
  PROVE  IInv'
<1> USE DEF IInv, Typed, UidsAreOld, ReapOK, SweepOK, Incarnations, VolumeClaims, NoProject,
        NoClaim, Resting, Unswept, Goto
<1>1. CASE recGet
  BY <1>1 DEF recGet
<1>2. CASE recConfirm
  BY <1>2 DEF recConfirm
<1>3. CASE recEnsure
  BY <1>3 DEF recEnsure
<1>4. CASE reapPVC
  <2>1. CASE pvc' = NoClaim
    BY <1>4, <2>1 DEF reapPVC
  <2>2. CASE pvc' = pvc
    BY <1>4, <2>2 DEF reapPVC
  <2> QED BY <1>4, <2>1, <2>2 DEF reapPVC
<1>5. CASE reapBP
  BY <1>5 DEF reapBP
<1>6. CASE recFails
  BY <1>6 DEF recFails
<1>7. CASE NewLeader
  BY <1>7 DEF NewLeader
<1> QED BY <1>1, <1>2, <1>3, <1>4, <1>5, <1>6, <1>7 DEF Reconcile

\* The sweeper.
LEMMA SweepSteps ==
  ASSUME IInv, sweepProjects \/ sweepClaims \/ sweepDelete \/ sweepFails
  PROVE  IInv'
<1> USE DEF IInv, Typed, UidsAreOld, ReapOK, SweepOK, Incarnations, VolumeClaims, NoClaim, Unswept
<1>1. CASE sweepProjects
  BY <1>1 DEF sweepProjects
<1>2. CASE sweepClaims
  BY <1>2 DEF sweepClaims
<1>3. CASE sweepDelete
  BY <1>3 DEF sweepDelete
<1>4. CASE sweepFails
  BY <1>4 DEF sweepFails
<1> QED BY <1>1, <1>2, <1>3, <1>4

\* The cluster and the passing of time.
LEMMA ClusterSteps ==
  ASSUME IInv,
         SyncBP \/ DeletedByHand \/ CascadeDelete \/ MakeClaim \/ GoesIdle \/ ProjectAges
           \/ ClaimAges
  PROVE  IInv'
<1> USE DEF IInv, Typed, UidsAreOld, ReapOK, SweepOK, Incarnations, VolumeClaims, NoProject, NoClaim
<1>1. CASE SyncBP
  BY <1>1 DEF SyncBP
<1>2. CASE DeletedByHand
  BY <1>2 DEF DeletedByHand
<1>3. CASE CascadeDelete
  BY <1>3 DEF CascadeDelete
<1>4. CASE MakeClaim
  BY <1>4 DEF MakeClaim
<1>5. CASE GoesIdle
  <2>1. UNCHANGED <<fork, bpSeen, born, sts, pvc, rec, sweep>>
    BY <1>5 DEF GoesIdle
  <2>2. bp' \in Incarnations /\ bp'.uid = bp.uid /\ bp'.busy = bp.busy
    BY <1>5, Zenon DEF GoesIdle
  <2> HIDE DEF Incarnations, VolumeClaims
  <2> QED BY <2>1, <2>2
<1>6. CASE ProjectAges
  <2>1. UNCHANGED <<fork, bpSeen, born, sts, pvc, rec, sweep>>
    BY <1>6 DEF ProjectAges
  <2>2. bp' \in Incarnations /\ bp'.uid = bp.uid /\ bp'.busy = bp.busy
    BY <1>6, Zenon DEF ProjectAges
  <2> HIDE DEF Incarnations, VolumeClaims
  <2> QED BY <2>1, <2>2
<1>7. CASE ClaimAges
  <2>1. /\ UNCHANGED <<fork, bp, bpSeen, born, sts, rec, sweep>>
        /\ sweep.pc = "idle" /\ bpSeen.uid = bp.uid /\ pvc.uid # 0
    BY <1>7 DEF ClaimAges
  <2>2. pvc' \in VolumeClaims /\ pvc'.uid = pvc.uid
    BY <1>7, Zenon DEF ClaimAges
  <2> HIDE DEF Incarnations, VolumeClaims
  <2> QED BY <2>1, <2>2
<1> QED BY <1>1, <1>2, <1>3, <1>4, <1>5, <1>6, <1>7

\* Every step keeps the inductive invariant.
LEMMA NextKeeps == IInv /\ [Next]_vars => IInv'
<1> SUFFICES ASSUME IInv, [Next]_vars PROVE IInv'
  OBVIOUS
<1>1. CASE UNCHANGED vars
  BY <1>1 DEF vars, IInv, Typed, UidsAreOld, ReapOK, SweepOK
<1>2. CASE Next
  BY <1>2, RouteSteps, ReconcileSteps, SweepSteps, ClusterSteps DEF Next
<1> QED BY <1>1, <1>2

\* The inductive invariant holds in every reachable state.
THEOREM InductiveInvariant == Spec => []IInv
  BY InitKeeps, NextKeeps, PTL DEF Spec

\* A fork is reaped under a build only if that was registered after the fresh
\* read that found the fork idle.
THEOREM ReapsAreConfirmed == Spec => ForkReapIsConfirmed
<1> DEFINE Confirmed ==
      rec.pc = "reapBP" /\ bp.busy /\ bp'.uid = 0 /\ rec'.pc = "idle" => rec.late
<1>1. IInv /\ [Next]_vars => [Confirmed]_vars
  BY DEF IInv, ReapOK
<1> QED BY <1>1, InductiveInvariant, PTL DEF Spec, ForkReapIsConfirmed

\* The sweeper never takes the claim a canonical project has made for itself,
\* although it lists projects before claims and deletes by name.
THEOREM SweepSparesOwn == Spec => SweepSparesOwnClaim
<1> DEFINE Spared ==
      ~fork /\ sweep.pc = "delete" /\ sweep'.pc = "idle" /\ pvc.uid # 0 /\ pvc'.uid = 0
        => pvc.uid # bp.uid
<1>1. IInv /\ [Next]_vars => [Spared]_vars
  BY DEF IInv, SweepOK
<1> QED BY <1>1, InductiveInvariant, PTL DEF Spec, SweepSparesOwnClaim
=============================================================================
