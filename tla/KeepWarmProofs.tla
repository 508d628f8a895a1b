--------------------------- MODULE KeepWarmProofs ---------------------------
(***************************************************************************)
(* What keeps a daemon up and what takes it down.                          *)
(*                                                                         *)
(* First TakedownsAreConfirmed of DaemonLifecycle, for any builds, set-ups *)
(* and windows, with or without faults.  Then InflightSlice, for any       *)
(* tokens, cap, windows and clock bound, with replicas' clocks in step:    *)
(* the slice of in-flight builds agrees with the set the concurrent models *)
(* use, and the warm window a project earns follows its build cadence.     *)
(***************************************************************************)
EXTENDS DaemonLifecycle, InflightSlice, FiniteSetTheorems, SequenceTheorems, TLAPS

Windows(w) == (0..w) \cup {None}
Registry == [Builds -> Windows(MaxBuild)]

Ages == Nat \cup {None}
StatusType == [reg : Registry, last : Ages]
StsType == [tmpl : {None, 0, 1}, replicas : {0, 1}, held : Ages]
SeenType == [tmpl : {None, 0, 1}, replicas : {0, 1}, held : Ages, ready : BOOLEAN]
RecType == [pc : {"idle", "confirm", "pdb", "sts", "patch", "status"},
            live : Registry, roll : Registry, desired : {0, 1}, current : BOOLEAN,
            swept : BOOLEAN, held : BOOLEAN, late : SUBSET Builds]

Typed ==
    /\ status \in StatusType /\ statusSeen \in StatusType
    /\ sts \in StsType /\ stsSeen \in SeenType
    /\ want \in {0, 1}
    /\ rec \in RecType

\* A StatefulSet is never seen before it exists, and has no replica before.
StsOK ==
    /\ sts.tmpl = None => sts.replicas = 0
    /\ stsSeen.tmpl # None => sts.tmpl # None

\* A reconcile about to scale to zero, or to roll a daemon it believes idle,
\* knows every live build but those registered since its confirming read.
ConfirmOK(r, kept) ==
    /\ r.pc \in {"pdb", "sts", "patch"} /\ r.desired = 0 => kept \subseteq r.late
    /\ r.pc = "patch" /\ Holds(r.roll) = {} => kept \subseteq r.late

LifecycleInv == Typed /\ StsOK /\ ConfirmOK(rec, Live)

-----------------------------------------------------------------------------
(* The registry.                                                           *)

\* ExpireInflight returns a registry, and holds no more than it is given.
LEMMA UnexpiredType ==
  ASSUME NEW reg \in Registry
  PROVE  Unexpired(reg) \in Registry /\ Holds(Unexpired(reg)) \subseteq Holds(reg)
  BY LifecycleAssumption DEF Registry, Windows, Unexpired, Holds

\* Time makes entries older; it holds nothing more, and makes nothing live.
LEMMA AgeType ==
  ASSUME NEW reg \in Registry
  PROVE  /\ AgeRegistry(reg) \in Registry
         /\ Holds(AgeRegistry(reg)) = Holds(reg)
         /\ Holds(Unexpired(AgeRegistry(reg))) \subseteq Holds(Unexpired(reg))
<1>1. \A b \in Builds : /\ Older(reg[b], MaxBuild) \in Windows(MaxBuild)
                        /\ Older(reg[b], MaxBuild) = None <=> reg[b] = None
                        /\ reg[b] = MaxBuild => Older(reg[b], MaxBuild) = MaxBuild
  BY LifecycleAssumption DEF Registry, Windows, Older
<1>2. AgeRegistry(reg) \in Registry
  BY <1>1 DEF AgeRegistry, Registry
<1> QED BY <1>1, <1>2 DEF AgeRegistry, Holds, Unexpired

\* Registering a build makes at most that build live.
LEMMA RegisterLive ==
  ASSUME NEW reg \in Registry, NEW b \in Builds
  PROVE  /\ [Unexpired(reg) EXCEPT ![b] = 0] \in Registry
         /\ Holds(Unexpired([Unexpired(reg) EXCEPT ![b] = 0])) \subseteq Holds(Unexpired(reg)) \cup {b}
<1>1. Unexpired(reg) \in Registry
  BY UnexpiredType
<1>2. [Unexpired(reg) EXCEPT ![b] = 0] \in Registry
  BY <1>1, LifecycleAssumption DEF Registry, Windows
<1> QED BY <1>1, <1>2 DEF Registry, Unexpired, Holds

\* Releasing a build makes none live.
LEMMA ReleaseLive ==
  ASSUME NEW reg \in Registry, NEW b \in Builds
  PROVE  /\ [Unexpired(reg) EXCEPT ![b] = None] \in Registry
         /\ Holds(Unexpired([Unexpired(reg) EXCEPT ![b] = None])) \subseteq Holds(Unexpired(reg))
<1>1. Unexpired(reg) \in Registry
  BY UnexpiredType
<1>2. [Unexpired(reg) EXCEPT ![b] = None] \in Registry
  BY <1>1, LifecycleAssumption DEF Registry, Windows
<1> QED BY <1>1, <1>2 DEF Registry, Unexpired, Holds

\* A reconcile at rest decides nothing.
LEMMA RestingOK == Resting \in RecType /\ \A kept : ConfirmOK(Resting, kept)
<1>1. NoEntries \in Registry
  BY DEF NoEntries, Registry, Windows
<1> QED BY <1>1 DEF Resting, RecType, ConfirmOK

\* The inductive invariant holds for a project that was just created.
LEMMA InitKeeps == Init => LifecycleInv
<1> SUFFICES ASSUME Init PROVE LifecycleInv
  OBVIOUS
<1>1. status \in StatusType /\ statusSeen \in StatusType
  BY DEF Init, StatusType, Ages, NoEntries, Registry, Windows
<1>2. /\ sts \in StsType /\ sts.replicas = 0
      /\ stsSeen \in SeenType /\ stsSeen.tmpl = None
  BY DEF Init, NoSts, Reported, Serves, StsType, SeenType, Ages
<1> QED BY <1>1, <1>2, RestingOK DEF Init, LifecycleInv, Typed, StsOK

-----------------------------------------------------------------------------
(* Reconcile.                                                              *)

\* recGet goes to the takedown only through the confirming read.
LEMMA GetStep == ASSUME LifecycleInv, recGet PROVE LifecycleInv'
<1> DEFINE kept == Unexpired(statusSeen.reg)
           des  == desiredReplicas(statusSeen, kept)
           cur  == statusSeen = status
           swp  == kept # statusSeen.reg
<1>1. kept \in Registry
  BY UnexpiredType DEF LifecycleInv, Typed, StatusType
<1>2. des \in {0, 1} /\ cur \in BOOLEAN /\ swp \in BOOLEAN
  BY DEF desiredReplicas
<1>3. /\ rec' = [Resting EXCEPT !.pc = IF des = 0 THEN "confirm" ELSE "pdb",
                                !.live = kept, !.desired = des, !.current = cur, !.swept = swp]
      /\ UNCHANGED <<status, statusSeen, sts, stsSeen, want>>
  BY DEF recGet, Goto, objects, world, caches, config
<1> HIDE DEF kept, des, cur, swp
<1>4. /\ rec' \in RecType /\ rec'.pc \in {"confirm", "pdb"}
      /\ rec'.pc = "pdb" => rec'.desired # 0
  BY <1>1, <1>2, <1>3, RestingOK, Zenon DEF RecType
<1> QED BY <1>3, <1>4 DEF LifecycleInv, Typed, StsOK, ConfirmOK, Live

\* The confirming read finds no build, or the takedown is called off.
LEMMA ConfirmStep == ASSUME LifecycleInv, recConfirm PROVE LifecycleInv'
<1> DEFINE fresh == Unexpired(status.reg)
<1>1. fresh \in Registry
  BY UnexpiredType DEF LifecycleInv, Typed, StatusType
<1>2. UNCHANGED <<status, statusSeen, sts, stsSeen, want>> /\ Live = Holds(fresh)
  BY DEF recConfirm, objects, world, caches, config, Live
<1>3. CASE Holds(fresh) = {}
  <2>1. rec' = [rec EXCEPT !.pc = "pdb"]
    BY <1>3 DEF recConfirm, Goto
  <2>2. rec' \in RecType /\ rec'.pc = "pdb"
    BY <2>1 DEF LifecycleInv, Typed, RecType
  <2> QED BY <1>2, <1>3, <2>2 DEF LifecycleInv, Typed, StsOK, ConfirmOK, Live
<1>4. CASE Holds(fresh) # {}
  <2>1. rec' = [rec EXCEPT !.pc = "pdb", !.live = fresh, !.desired = 1, !.swept = TRUE]
    BY <1>4 DEF recConfirm, Goto
  <2> HIDE DEF fresh
  <2>2. rec' \in RecType /\ rec'.pc = "pdb" /\ rec'.desired = 1
    BY <1>1, <2>1, Zenon DEF LifecycleInv, Typed, RecType
  <2> QED BY <1>2, <2>2 DEF LifecycleInv, Typed, StsOK, ConfirmOK, Live
<1> QED BY <1>3, <1>4

\* The budget, and the creation of the StatefulSet.
LEMMA BudgetAndCreateSteps == ASSUME LifecycleInv, ensurePDB \/ createSts PROVE LifecycleInv'
<1>1. CASE ensurePDB
  <2>1. /\ rec' = [rec EXCEPT !.pc = "sts"] /\ rec.pc = "pdb"
        /\ UNCHANGED <<status, statusSeen, sts, stsSeen, want>>
    BY <1>1 DEF ensurePDB, Goto, world, caches, config
  <2>2. /\ rec' \in RecType /\ rec'.pc = "sts"
        /\ rec'.desired = rec.desired /\ rec'.late = rec.late
    BY <2>1 DEF LifecycleInv, Typed, RecType
  <2> QED BY <2>1, <2>2 DEF LifecycleInv, Typed, StsOK, ConfirmOK, Live
<1>2. CASE createSts
  <2>1. UNCHANGED <<status, statusSeen, stsSeen, want>> /\ stsSeen.tmpl = None
    BY <1>2 DEF createSts, world, caches, config
  <2>2. CASE sts.tmpl = None
    <3>1. /\ sts' = [NoSts EXCEPT !.tmpl = want, !.replicas = rec.desired]
          /\ rec' = [rec EXCEPT !.pc = "status", !.late = {}]
      BY <1>2, <2>2 DEF createSts, Goto
    <3>2. rec' \in RecType /\ rec'.pc = "status"
      BY <3>1, Zenon DEF LifecycleInv, Typed, RecType
    <3>3. sts' \in StsType /\ sts'.tmpl # None
      <4>1. sts' = [tmpl |-> want, replicas |-> rec.desired, held |-> None]
        BY <3>1, Zenon DEF NoSts
      <4>2. want \in {0, 1} /\ rec.desired \in {0, 1}
        BY DEF LifecycleInv, Typed, RecType
      <4> QED BY <4>1, <4>2, LifecycleAssumption DEF StsType, Ages
    <3> QED BY <2>1, <3>2, <3>3 DEF LifecycleInv, Typed, StsOK, ConfirmOK
  <2>3. CASE sts.tmpl # None
    <3>1. rec' = Resting /\ UNCHANGED sts
      BY <1>2, <2>3 DEF createSts, Goto
    <3> QED BY <2>1, <3>1, RestingOK DEF LifecycleInv, Typed, StsOK
  <2> QED BY <2>2, <2>3
<1> QED BY <1>1, <1>2

\* The second confirming read, before a roll.
LEMMA RollConfirmStep == ASSUME LifecycleInv, recRollConfirm PROVE LifecycleInv'
<1> DEFINE fresh == Unexpired(status.reg)
           late  == IF rec.desired = 0 THEN rec.late ELSE {}
<1>1. fresh \in Registry
  BY UnexpiredType DEF LifecycleInv, Typed, StatusType
<1>2. /\ rec' = [rec EXCEPT !.pc = "patch", !.roll = fresh, !.late = late] /\ rec.pc = "sts"
      /\ UNCHANGED <<status, statusSeen, sts, stsSeen, want>>
  BY DEF recRollConfirm, Goto, objects, world, caches, config
<1>3. late \in SUBSET Builds /\ Live = Holds(fresh)
  BY DEF LifecycleInv, Typed, RecType, Live
<1>4. rec.desired = 0 => Live \subseteq late
  BY <1>2 DEF LifecycleInv, ConfirmOK
<1> HIDE DEF fresh, late
<1>5. /\ rec' \in RecType /\ rec'.desired = rec.desired
      /\ rec'.roll = fresh /\ rec'.late = late
  BY <1>1, <1>2, <1>3, Zenon DEF LifecycleInv, Typed, RecType
<1>6. Live' = Live
  BY <1>2 DEF Live
<1> QED BY <1>2, <1>3, <1>4, <1>5, <1>6 DEF LifecycleInv, Typed, StsOK, ConfirmOK

\* The patch leaves a StatefulSet that exists, and a reconcile that is done
\* with its decision.
LEMMA PatchStep == ASSUME LifecycleInv, patchSts PROVE LifecycleInv'
<1> DEFINE changed == stsSeen.tmpl # want
           held    == changed /\ holdRoll(Known)
           stamp   == IF ~held THEN None ELSE IF stsSeen.held = None THEN 0 ELSE stsSeen.held
           tmpl    == IF changed /\ ~held THEN want ELSE sts.tmpl
           reps    == IF stsSeen.replicas = rec.desired THEN sts.replicas ELSE rec.desired
           hold    == IF stamp = stsSeen.held THEN sts.held ELSE stamp
<1>1. /\ stsSeen.tmpl # None
      /\ sts' = [tmpl |-> tmpl, replicas |-> reps, held |-> hold]
      /\ rec' = [rec EXCEPT !.pc = "status", !.held = held, !.roll = NoEntries, !.late = {}]
      /\ UNCHANGED <<status, statusSeen, stsSeen, want>>
  BY DEF patchSts, Goto, world, caches, config
<1>2. /\ sts.tmpl \in {0, 1} /\ sts.replicas \in {0, 1} /\ sts.held \in Ages
      /\ stsSeen.held \in Ages /\ rec.desired \in {0, 1} /\ want \in {0, 1}
  BY <1>1 DEF LifecycleInv, Typed, StsOK, StsType, SeenType, RecType
<1>3. held \in BOOLEAN
  BY DEF holdRoll
<1> HIDE DEF held
<1>4. tmpl \in {0, 1} /\ reps \in {0, 1} /\ hold \in Ages
  BY <1>2 DEF Ages
<1> HIDE DEF tmpl, reps, hold, stamp, changed
<1>5. sts' \in StsType /\ sts'.tmpl # None
  BY <1>1, <1>4, LifecycleAssumption DEF StsType
<1>6. NoEntries \in Registry
  BY DEF NoEntries, Registry, Windows
<1>7. rec' \in RecType /\ rec'.pc = "status"
  BY <1>1, <1>3, <1>6, Zenon DEF LifecycleInv, Typed, RecType
<1> QED BY <1>1, <1>5, <1>7 DEF LifecycleInv, Typed, StsOK, ConfirmOK

\* The end of a reconcile, and the ways it is cut short.
LEMMA FinishSteps == ASSUME LifecycleInv, recFinish \/ wake \/ recFails \/ Upgrade PROVE LifecycleInv'
<1>1. CASE recFinish
  <2>1. rec' = Resting /\ UNCHANGED <<statusSeen, sts, stsSeen, want>>
    BY <1>1 DEF recFinish, Goto, world, caches, config
  <2>2. UNCHANGED status \/ status' = [status EXCEPT !.reg = rec.live]
    BY <1>1 DEF recFinish
  <2>3. status' \in StatusType
    BY <2>2 DEF LifecycleInv, Typed, StatusType, RecType
  <2> QED BY <2>1, <2>3, RestingOK DEF LifecycleInv, Typed, StsOK
<1>2. CASE wake
  BY <1>2 DEF wake, objects, world, caches, config, LifecycleInv, Typed, StsOK, ConfirmOK, Live
<1>3. CASE recFails \/ Upgrade
  <2>1. rec' = Resting /\ want' \in {0, 1} /\ UNCHANGED <<status, statusSeen, sts, stsSeen>>
    BY <1>3 DEF recFails, Upgrade, Goto, objects, world, caches, config, LifecycleInv, Typed
  <2> QED BY <2>1, RestingOK DEF LifecycleInv, Typed, StsOK
<1> QED BY <1>1, <1>2, <1>3

-----------------------------------------------------------------------------
(* Everybody else.                                                         *)

\* A status write is noticed by a reconcile that is past its reads.
LEMMA OutdatedOK ==
  ASSUME NEW r \in RecType, NEW new \in SUBSET Builds, NEW kept, ConfirmOK(r, kept)
  PROVE  Outdated(r, new) \in RecType /\ ConfirmOK(Outdated(r, new), kept \cup new)
<1>1. CASE r.pc = "idle"
  BY <1>1 DEF Outdated, ConfirmOK
<1>2. CASE r.pc # "idle"
  <2> DEFINE late == IF r.pc \in {"confirm", "status"} THEN r.late ELSE r.late \cup new
  <2>1. late \in SUBSET Builds
    BY DEF RecType
  <2>2. Outdated(r, new) = [r EXCEPT !.current = FALSE, !.late = late]
    BY <1>2 DEF Outdated, RecType
  <2>3. r.pc \in {"pdb", "sts", "patch"} => late = r.late \cup new
    OBVIOUS
  <2> HIDE DEF late
  <2>4. /\ Outdated(r, new) \in RecType
        /\ Outdated(r, new).pc = r.pc /\ Outdated(r, new).desired = r.desired
        /\ Outdated(r, new).roll = r.roll /\ Outdated(r, new).late = late
    BY <2>1, <2>2, Zenon DEF RecType
  <2> QED BY <2>3, <2>4 DEF ConfirmOK
<1> QED BY <1>1, <1>2

\* Routes and releases.
LEMMA ClientSteps ==
  ASSUME LifecycleInv, NEW b \in Builds, Route(b) \/ RouteUnregistered(b) \/ Finish(b) \/ Vanish(b)
  PROVE  LifecycleInv'
<1>1. UNCHANGED <<statusSeen, sts, stsSeen, want>>
  BY DEF Route, RouteUnregistered, Finish, Vanish, objects, caches, config
<1>2. CASE UNCHANGED <<status, rec>>
  BY <1>1, <1>2 DEF LifecycleInv, Typed, StsOK, ConfirmOK, Live
<1>3. status.reg \in Registry /\ rec \in RecType /\ ConfirmOK(rec, Live)
  BY DEF LifecycleInv, Typed, StatusType
<1>4. CASE Route(b)
  <2>1. /\ status' = [reg |-> [Unexpired(status.reg) EXCEPT ![b] = 0], last |-> 0]
        /\ rec' = Outdated(rec, {b})
    BY <1>4 DEF Route, Goto
  <2>2. status' \in StatusType /\ Live' \subseteq Live \cup {b}
    BY <1>3, <2>1, RegisterLive DEF StatusType, Ages, Live
  <2>3. rec' \in RecType /\ ConfirmOK(rec', Live \cup {b})
    BY <1>3, <2>1, OutdatedOK
  <2> QED BY <1>1, <2>2, <2>3 DEF LifecycleInv, Typed, StsOK, ConfirmOK
<1>5. CASE /\ status' = [reg |-> [Unexpired(status.reg) EXCEPT ![b] = None], last |-> 0]
           /\ rec' = Outdated(rec, {})
  <2>1. status' \in StatusType /\ Live' \subseteq Live
    BY <1>3, <1>5, ReleaseLive DEF StatusType, Ages, Live
  <2>2. rec' \in RecType /\ ConfirmOK(rec', Live \cup {})
    BY <1>3, <1>5, OutdatedOK
  <2> QED BY <1>1, <2>1, <2>2 DEF LifecycleInv, Typed, StsOK, ConfirmOK
<1>6. Finish(b) => \/ UNCHANGED <<status, rec>>
                   \/ /\ status' = [reg |-> [Unexpired(status.reg) EXCEPT ![b] = None], last |-> 0]
                      /\ rec' = Outdated(rec, {})
  BY DEF Finish, Goto
<1> QED BY <1>2, <1>4, <1>5, <1>6 DEF RouteUnregistered, Vanish, objects

\* Pods, node drains and the informers.
LEMMA KubernetesSteps ==
  ASSUME LifecycleInv,
         PodReady \/ PodStops \/ PodBreaks \/ PodRecovers \/ Drain
           \/ SyncStatus \/ SyncSts \/ SyncPDB
  PROVE  LifecycleInv'
<1>1. CASE UNCHANGED <<status, statusSeen, sts, stsSeen, want, rec>>
  BY <1>1 DEF LifecycleInv, Typed, StsOK, ConfirmOK, Live
<1>2. CASE SyncStatus
  <2>1. statusSeen' = status /\ UNCHANGED <<status, sts, stsSeen, want, rec>>
    BY <1>2 DEF SyncStatus, Enqueue, objects, config
  <2> QED BY <2>1 DEF LifecycleInv, Typed, StsOK, ConfirmOK, Live
<1>3. CASE SyncSts
  <2> DEFINE up == Serves(pod.state)
  <2>1. /\ stsSeen' = [tmpl |-> sts.tmpl, replicas |-> sts.replicas, held |-> sts.held, ready |-> up]
        /\ UNCHANGED <<status, statusSeen, sts, want, rec>>
    BY <1>3 DEF SyncSts, Enqueue, Reported, objects, config
  <2>2. up \in BOOLEAN
    BY DEF Serves
  <2> HIDE DEF up
  <2>3. stsSeen' \in SeenType /\ stsSeen'.tmpl = sts.tmpl
    BY <2>1, <2>2 DEF LifecycleInv, Typed, StsType, SeenType
  <2> QED BY <2>1, <2>3 DEF LifecycleInv, Typed, StsOK, ConfirmOK, Live
<1> QED
  BY <1>1, <1>2, <1>3
  DEF PodReady, PodStops, PodBreaks, PodRecovers, Drain, kube, caches, config, SyncPDB, Enqueue,
      objects

\* The clock.
LEMMA TickStep == ASSUME LifecycleInv, Tick PROVE LifecycleInv'
<1>1. \A age \in Ages : \A w : Older(age, w) \in Ages
  BY DEF Ages, Older
<1>2. ASSUME NEW rd \in StatusType PROVE AgeStatus(rd) \in StatusType
  BY <1>1, <1>2, AgeType DEF AgeStatus, StatusType
<1>3. status' \in StatusType /\ statusSeen' \in StatusType
  BY <1>2 DEF Tick, LifecycleInv, Typed
<1>4. /\ sts' \in StsType /\ sts'.tmpl = sts.tmpl /\ sts'.replicas = sts.replicas
      /\ stsSeen' \in SeenType /\ stsSeen'.tmpl = stsSeen.tmpl
  BY <1>1 DEF Tick, AgeSts, LifecycleInv, Typed, StsType, SeenType
<1>5. /\ AgeRegistry(rec.live) \in Registry /\ AgeRegistry(rec.roll) \in Registry
      /\ Holds(AgeRegistry(rec.roll)) = Holds(rec.roll)
  BY AgeType DEF LifecycleInv, Typed, RecType
<1>6. /\ rec' \in RecType /\ rec'.pc = rec.pc /\ rec'.desired = rec.desired
      /\ rec'.late = rec.late /\ rec'.roll = AgeRegistry(rec.roll)
  BY <1>5, Zenon DEF Tick, LifecycleInv, Typed, RecType
<1>7. Live' \subseteq Live
  BY AgeType DEF Tick, LifecycleInv, Typed, StatusType, AgeStatus, Live
<1> QED BY <1>3, <1>4, <1>5, <1>6, <1>7 DEF Tick, config, LifecycleInv, Typed, StsOK, ConfirmOK

\* Every step keeps the inductive invariant.
LEMMA NextKeeps == LifecycleInv /\ [Next]_vars => LifecycleInv'
<1> SUFFICES ASSUME LifecycleInv, [Next]_vars PROVE LifecycleInv'
  OBVIOUS
<1>1. CASE UNCHANGED vars
  BY <1>1 DEF vars, objects, caches, config, LifecycleInv, Typed, StsOK, ConfirmOK, Live
<1>2. CASE Next
  BY <1>2, GetStep, ConfirmStep, BudgetAndCreateSteps, RollConfirmStep, PatchStep, FinishSteps,
     ClientSteps, KubernetesSteps, TickStep DEF Next, Reconcile
<1> QED BY <1>1, <1>2

\* The inductive invariant holds in every reachable state.
THEOREM LifecycleInvariant == Spec => []LifecycleInv
  BY InitKeeps, NextKeeps, PTL DEF Spec

\* The StatefulSet is written by createSts, patchSts and the clock alone.
LEMMA WritersOfSts ==
  ASSUME Next
  PROVE  UNCHANGED sts \/ createSts \/ patchSts \/ Tick
  BY Zenon DEF Next, Reconcile, recGet, recConfirm, ensurePDB, recRollConfirm, recFinish, wake, recFails,
     Upgrade, Route, RouteUnregistered, Finish, Vanish, PodReady, PodStops, PodBreaks, PodRecovers,
     Drain, SyncStatus, SyncSts, SyncPDB, Enqueue, objects

\* A takedown hits only builds registered after the reconcile's confirming
\* read, whatever the informer copies said.
THEOREM TakedownsConfirmed == Spec => TakedownsAreConfirmed
<1> DEFINE Confirmed ==
      ScaledDown \/ (Rolled /\ Holds(Known) = {}) => Live \subseteq rec.late
<1>1. LifecycleInv /\ [Next]_vars => [Confirmed]_vars
  <2> SUFFICES ASSUME LifecycleInv, Next, ScaledDown \/ (Rolled /\ Holds(Known) = {})
               PROVE  Live \subseteq rec.late
    OBVIOUS
  <2>1. sts \in StsType /\ rec \in RecType
    BY DEF LifecycleInv, Typed
  <2>2. CASE createSts
    <3>1. (sts.replicas = 0 /\ ~Rolled) \/ UNCHANGED sts
      BY <2>2 DEF createSts, LifecycleInv, StsOK, Rolled
    <3> QED BY <3>1 DEF ScaledDown, Rolled
  <2>3. CASE Tick
    <3>1. sts'.tmpl = sts.tmpl /\ sts'.replicas = sts.replicas
      BY <2>1, <2>3 DEF Tick, AgeSts, StsType
    <3> QED BY <2>1, <3>1 DEF ScaledDown, Rolled, StsType
  <2>4. CASE patchSts
    <3>1. /\ rec.pc = "patch" \/ (rec.pc = "sts" /\ (stsSeen.tmpl = want \/ Holds(rec.live) # {}))
          /\ sts'.replicas = IF stsSeen.replicas = rec.desired THEN sts.replicas ELSE rec.desired
          /\ stsSeen.tmpl = want => sts'.tmpl = sts.tmpl
      BY <2>4 DEF patchSts
    <3>2. CASE ScaledDown
      <4>1. rec.desired = 0
        BY <3>1, <3>2 DEF ScaledDown
      <4> QED BY <3>1, <4>1 DEF LifecycleInv, ConfirmOK
    <3>3. CASE Rolled /\ Holds(Known) = {}
      <4>1. rec.pc = "patch"
        BY <3>1, <3>3 DEF Rolled, Known
      <4> QED BY <3>3, <4>1 DEF LifecycleInv, ConfirmOK, Known
    <3> QED BY <3>2, <3>3
  <2>5. CASE UNCHANGED sts
    BY <2>5 DEF ScaledDown, Rolled
  <2> QED BY <2>2, <2>3, <2>4, <2>5, WritersOfSts
<1> QED BY <1>1, LifecycleInvariant, PTL DEF Spec, TakedownsAreConfirmed

-----------------------------------------------------------------------------
(* Indices and the elements at them.                                       *)

\* A set of indices that is not empty has a least one.
LEMMA LeastIndex ==
    ASSUME NEW T, T \subseteq Nat, T # {}
    PROVE  \E x \in T : \A y \in T : x <= y
<1>1. PICK x \in T : \A y \in T : ~(<<y, x>> \in OpToRel(<, Nat))
  BY NatLessThanWellFounded, WFMin, Zenon
<1>2. \A y \in T : ~(y < x)
  BY <1>1, Zenon DEF OpToRel
<1> QED BY <1>2

\* The rank of an index in I is its place among those of I, and there is one
\* index for every place.
LEMMA Ranks ==
    ASSUME NEW n \in Nat, NEW I, I \subseteq 1..n
    PROVE  /\ IsFiniteSet(I) /\ Cardinality(I) \in 0..n
           /\ \A i, j \in I : i < j =>
                 Cardinality({m \in I : m <= i}) < Cardinality({m \in I : m <= j})
           /\ \A k \in 1..Cardinality(I) : \E i \in I : Cardinality({m \in I : m <= i}) = k
<1> DEFINE upto(i) == {m \in I : m <= i}
           rank == [i \in I |-> Cardinality(upto(i))]
<1>1. IsFiniteSet(1..n) /\ Cardinality(1..n) = n
  <2>1. 1 \in Int /\ n \in Int
    OBVIOUS
  <2>2. IsFiniteSet(1..n) /\ Cardinality(1..n) = IF 1 > n THEN 0 ELSE n - 1 + 1
    BY <2>1, FS_Interval, Zenon
  <2> QED BY <2>2
<1>2. IsFiniteSet(I) /\ Cardinality(I) \in Nat /\ Cardinality(I) <= n
  BY <1>1, FS_Subset, FS_CardinalityType, Zenon
<1>3. \A i \in I : /\ IsFiniteSet(upto(i)) /\ Cardinality(upto(i)) \in Nat
                   /\ Cardinality(upto(i)) <= Cardinality(I)
  <2> TAKE i \in I
  <2>1. upto(i) \in SUBSET I
    OBVIOUS
  <2> QED BY <1>2, <2>1, FS_Subset, FS_CardinalityType, Zenon
<1>4. \A i \in I : Cardinality(upto(i)) # 0
  <2> TAKE i \in I
  <2>1. i \in upto(i)
    OBVIOUS
  <2> QED BY <1>3, <2>1, FS_EmptySet, Zenon
<1>5. \A i, j \in I : i < j => Cardinality(upto(i)) < Cardinality(upto(j))
  <2> SUFFICES ASSUME NEW i \in I, NEW j \in I, i < j
               PROVE  Cardinality(upto(i)) < Cardinality(upto(j))
    OBVIOUS
  <2>1. upto(i) \in SUBSET upto(j) /\ j \in upto(j) /\ j \notin upto(i)
    <3>1. \A m \in I : m \in Int
      OBVIOUS
    <3>2. \A m \in I : m <= i => m <= j
      BY <3>1
    <3>3. j <= j /\ ~(j <= i)
      BY <3>1
    <3> QED BY <3>2, <3>3, Zenon
  <2>2. /\ Cardinality(upto(i)) <= Cardinality(upto(j))
        /\ Cardinality(upto(i)) # Cardinality(upto(j))
    BY <1>3, <2>1, FS_Subset, Zenon
  <2>3. Cardinality(upto(i)) \in Nat /\ Cardinality(upto(j)) \in Nat
    BY <1>3, Zenon
  <2> HIDE DEF upto
  <2> QED BY <2>2, <2>3
<1>6. rank \in Injection(I, 1..Cardinality(I))
  <2>1. \A i \in I : rank[i] \in 1..Cardinality(I)
    <3> HIDE DEF upto
    <3> QED BY <1>2, <1>3, <1>4
  <2>2. \A i, j \in I : rank[i] = rank[j] => i = j
    <3> SUFFICES ASSUME NEW i \in I, NEW j \in I, rank[i] = rank[j] PROVE i = j
      OBVIOUS
    <3>1. rank[i] = Cardinality(upto(i)) /\ rank[j] = Cardinality(upto(j))
      BY Zenon
    <3>2. Cardinality(upto(i)) \in Nat /\ Cardinality(upto(j)) \in Nat
      BY <1>3, Zenon
    <3>3. i \in Int /\ j \in Int
      OBVIOUS
    <3>4. ~(i < j) /\ ~(j < i)
      <4>1. /\ i < j => Cardinality(upto(i)) < Cardinality(upto(j))
            /\ j < i => Cardinality(upto(j)) < Cardinality(upto(i))
        BY <1>5, Zenon
      <4>2. Cardinality(upto(i)) = Cardinality(upto(j))
        BY <3>1
      <4> HIDE DEF upto, rank
      <4> QED BY <3>2, <4>1, <4>2
    <3> QED BY <3>3, <3>4
  <2>3. rank \in [I -> 1..Cardinality(I)]
    BY <2>1, Zenon
  <2> HIDE DEF rank
  <2> QED BY <2>2, <2>3, Zenon DEF Injection, IsInjective
<1>7. rank \in Surjection(I, 1..Cardinality(I))
  <2>1. IsFiniteSet(1..Cardinality(I)) /\ Cardinality(1..Cardinality(I)) = Cardinality(I)
    <3>1. 1 \in Int /\ Cardinality(I) \in Int
      BY <1>2
    <3>2. /\ IsFiniteSet(1..Cardinality(I))
          /\ Cardinality(1..Cardinality(I)) =
                IF 1 > Cardinality(I) THEN 0 ELSE Cardinality(I) - 1 + 1
      BY <3>1, FS_Interval, Zenon
    <3> QED BY <1>2, <3>2
  <2> HIDE DEF rank
  <2> QED BY <1>6, <2>1, FS_Injection, Zenon
<1>8. \A k \in 1..Cardinality(I) : \E i \in I : rank[i] = k
  <2> HIDE DEF rank
  <2> QED BY <1>7, Zenon DEF Surjection
<1> QED BY <1>2, <1>5, <1>8

\* h lists the indices in I in order, and with them what Sift returns.
Picks(h, s, I) ==
    /\ h \in [1..Cardinality(I) -> I]
    /\ \A k \in 1..Cardinality(I) : Sift(s, I)[k] = s[h[k]]
    /\ \A k, m \in 1..Cardinality(I) : k < m => h[k] < h[m]
    /\ \A i \in I : \E k \in 1..Cardinality(I) : h[k] = i

\* Sift keeps the elements at I, each once, and in order.
LEMMA SiftIs ==
    ASSUME NEW T, NEW s \in Seq(T), NEW I, I \subseteq 1..Len(s)
    PROVE  /\ Sift(s, I) \in Seq(T)
           /\ Len(Sift(s, I)) = Cardinality(I)
           /\ Cardinality(I) \in 0..Len(s)
           /\ \E h : Picks(h, s, I)
<1> DEFINE rank(i) == Cardinality({j \in I : j <= i})
           N == Cardinality(I)
           h == [k \in 1..N |-> CHOOSE i \in I : rank(i) = k]
<1>1. Len(s) \in Nat /\ \A k \in 1..Len(s) : s[k] \in T
  BY LenProperties
<1>0. \A i \in I : i \in Int
  BY <1>1
<1>2. /\ N \in 0..Len(s)
      /\ \A i, j \in I : i < j => rank(i) < rank(j)
      /\ \A k \in 1..N : \E i \in I : rank(i) = k
  BY <1>1, Ranks, Zenon
<1>3. Sift(s, I) = [k \in 1..N |-> s[CHOOSE i \in I : rank(i) = k]]
  BY Zenon DEF Sift
<1> HIDE DEF rank, N
<1>4. \A k \in 1..N : h[k] \in I /\ rank(h[k]) = k
  BY <1>2, Zenon
<1>5. \A k \in 1..N : Sift(s, I)[k] = s[h[k]]
  BY <1>3, Zenon
<1> HIDE DEF h
<1>6. h \in [1..N -> I]
  BY <1>4, Zenon DEF h
<1>7. \A k, m \in 1..N : k < m => h[k] < h[m]
  <2> SUFFICES ASSUME NEW k \in 1..N, NEW m \in 1..N, k < m PROVE h[k] < h[m]
    OBVIOUS
  <2>1. h[k] \in I /\ h[m] \in I /\ rank(h[k]) = k /\ rank(h[m]) = m
    BY <1>4, Zenon
  <2>2. h[k] # h[m] /\ ~(h[m] < h[k])
    <3>1. h[m] < h[k] => m < k
      BY <1>2, <2>1, Zenon
    <3>2. k \in Int /\ m \in Int
      BY <1>2
    <3> QED BY <2>1, <3>1, <3>2
  <2>3. h[k] \in Int /\ h[m] \in Int
    BY <1>0, <2>1, Zenon
  <2> QED BY <2>2, <2>3
<1>8. \A i \in I : \E k \in 1..N : h[k] = i
  <2> SUFFICES ASSUME NEW i \in I PROVE \E k \in 1..N : h[k] = i
    OBVIOUS
  <2>1. rank(i) \in 1..N
    <3>1. IsFiniteSet(I)
      BY <1>1, Ranks, Zenon
    <3>2. {j \in I : j <= i} \in SUBSET I /\ i \in {j \in I : j <= i}
      OBVIOUS
    <3>3. /\ rank(i) \in Nat /\ rank(i) <= N /\ rank(i) # 0
      BY <3>1, <3>2, FS_Subset, FS_CardinalityType, FS_EmptySet, Zenon DEF rank, N
    <3> QED BY <1>2, <3>3
  <2>2. h[rank(i)] \in I /\ rank(h[rank(i)]) = rank(i)
    BY <1>4, <2>1, Zenon
  <2>3. ~(h[rank(i)] < i) /\ ~(i < h[rank(i)])
    <3>1. /\ h[rank(i)] < i => rank(h[rank(i)]) < rank(i)
          /\ i < h[rank(i)] => rank(i) < rank(h[rank(i)])
      BY <1>2, <2>2, Zenon
    <3>2. rank(i) \in Int
      BY <1>2, <2>1
    <3> QED BY <2>2, <3>1, <3>2
  <2>4. h[rank(i)] \in Int /\ i \in Int
    BY <1>0, <2>2, Zenon
  <2>5. h[rank(i)] = i
    BY <2>3, <2>4
  <2> QED BY <2>1, <2>5, Zenon
<1>9. Sift(s, I) \in [1..N -> T] /\ N \in Nat
  <2>1. \A k \in 1..N : Sift(s, I)[k] \in T
    BY <1>1, <1>4, <1>5, Zenon
  <2>2. Sift(s, I) = [k \in 1..N |-> Sift(s, I)[k]]
    BY <1>3, Zenon
  <2>3. N \in Nat
    BY <1>1, <1>2
  <2> QED BY <2>1, <2>2, <2>3, Zenon
<1>10. Sift(s, I) \in Seq(T) /\ Len(Sift(s, I)) = N
  BY <1>9, SeqDef
<1>11. Picks(h, s, I)
  BY <1>5, <1>6, <1>7, <1>8, Zenon DEF N, Picks
<1> QED BY <1>2, <1>10, <1>11, Zenon DEF N

\* The elements from index a on.
LEMMA SiftSuffix ==
    ASSUME NEW T, NEW s \in Seq(T), NEW a \in 1..(Len(s) + 1)
    PROVE  /\ Sift(s, a..Len(s)) \in Seq(T)
           /\ Len(Sift(s, a..Len(s))) = Len(s) - a + 1
           /\ \A k \in 1..(Len(s) - a + 1) : Sift(s, a..Len(s))[k] = s[a + k - 1]
<1> DEFINE I == a..Len(s)
           N == Len(s) - a + 1
           rank(i) == Cardinality({j \in I : j <= i})
<1>1. Len(s) \in Nat /\ a \in Int
  BY LenProperties
<1>2. \A b \in Int : a <= b + 1 => Cardinality(a..b) = b - a + 1
  <2> SUFFICES ASSUME NEW b \in Int, a <= b + 1 PROVE Cardinality(a..b) = b - a + 1
    OBVIOUS
  <2>1. Cardinality(a..b) = IF a > b THEN 0 ELSE b - a + 1
    BY <1>1, FS_Interval, Zenon
  <2> QED BY <1>1, <2>1
<1>3. Cardinality(I) = N
  BY <1>1, <1>2
<1>4. \A i \in I : rank(i) = i - a + 1
  <2> SUFFICES ASSUME NEW i \in I PROVE rank(i) = i - a + 1
    OBVIOUS
  <2>1. {j \in I : j <= i} = a..i
    BY <1>1
  <2>2. i \in Int /\ a <= i + 1
    BY <1>1
  <2> QED BY <1>2, <2>1, <2>2, Zenon
<1>5. Sift(s, I) = [k \in 1..Cardinality(I) |-> s[CHOOSE i \in I : rank(i) = k]]
  BY Zenon DEF Sift
<1>6. \A k \in 1..N : (CHOOSE i \in I : rank(i) = k) = a + k - 1
  <2> SUFFICES ASSUME NEW k \in 1..N PROVE (CHOOSE i \in I : rank(i) = k) = a + k - 1
    BY Zenon
  <2>1. a + k - 1 \in I /\ rank(a + k - 1) = k
    <3>1. a + k - 1 \in I /\ k \in Int
      BY <1>1
    <3> HIDE DEF rank, I
    <3> QED BY <1>1, <1>4, <3>1
  <2>2. \A i \in I : rank(i) = k => i = a + k - 1
    <3> SUFFICES ASSUME NEW i \in I, rank(i) = k PROVE i = a + k - 1
      OBVIOUS
    <3>1. rank(i) = i - a + 1 /\ i \in Int /\ k \in Int
      BY <1>1, <1>4
    <3> HIDE DEF rank, I
    <3> QED BY <1>1, <3>1
  <2> HIDE DEF rank, I
  <2> QED BY <2>1, <2>2, Zenon
<1> HIDE DEF rank
<1>7. \A k \in 1..N : Sift(s, I)[k] = s[a + k - 1]
  <2> HIDE DEF I, N
  <2> QED BY <1>3, <1>5, <1>6, Zenon
<1>8. I \subseteq 1..Len(s)
  BY <1>1
<1>9. Sift(s, I) \in Seq(T) /\ Len(Sift(s, I)) = Cardinality(I)
  <2> HIDE DEF I
  <2> QED BY <1>8, SiftIs, Zenon
<1> QED BY <1>3, <1>7, <1>9, Zenon

\* The last n elements, or all when there are fewer.
LEMMA NewestIs ==
    ASSUME NEW T, NEW s \in Seq(T), NEW n \in Nat \ {0}
    PROVE  LET m == IF Len(s) > n THEN n ELSE Len(s)
           IN  /\ Newest(s, n) \in Seq(T)
               /\ Len(Newest(s, n)) = m
               /\ \A k \in 1..m : Newest(s, n)[k] = s[Len(s) - m + k]
<1> DEFINE m == IF Len(s) > n THEN n ELSE Len(s)
           a == IF Len(s) > n THEN Len(s) - n + 1 ELSE 1
<1>1. Len(s) \in Nat /\ \A k \in 1..Len(s) : s[k] \in T
  BY LenProperties
<1>2. a \in Int /\ Len(s) \in Int /\ a >= 1 /\ a = Len(s) - m + 1 /\ m \in Nat
  BY <1>1
<1>3. Newest(s, n) = SubSeq(s, a, Len(s))
  BY Zenon DEF Newest
<1> HIDE DEF a, m
<1>4. \A k \in a..Len(s) : s[k] \in T
  BY <1>1, <1>2
<1>5. /\ SubSeq(s, a, Len(s)) \in Seq(T)
      /\ Len(SubSeq(s, a, Len(s))) = IF a <= Len(s) THEN Len(s) - a + 1 ELSE 0
      /\ \A k \in 1..(Len(s) - a + 1) : SubSeq(s, a, Len(s))[k] = s[a + k - 1]
  BY <1>2, <1>4, SubSeqProperties
<1>6. (IF a <= Len(s) THEN Len(s) - a + 1 ELSE 0) = m
  BY <1>2
<1>7. \A k \in 1..m : SubSeq(s, a, Len(s))[k] = s[Len(s) - m + k]
  <2> SUFFICES ASSUME NEW k \in 1..m PROVE SubSeq(s, a, Len(s))[k] = s[Len(s) - m + k]
    BY Zenon
  <2>1. k \in 1..(Len(s) - a + 1) /\ a + k - 1 = Len(s) - m + k
    BY <1>2
  <2> QED BY <1>5, <2>1
<1> QED BY <1>3, <1>5, <1>6, <1>7, Zenon DEF m

-----------------------------------------------------------------------------
(* The cadence ring.                                                       *)

Chronological(times) == \A i, j \in 1..Len(times) : i < j => times[i] <= times[j]

\* What is within the window is what was started last.
LEMMA WindowIsSuffix ==
    ASSUME NEW times \in Seq(Int), Chronological(times), NEW t \in Int
    PROVE  \E a \in 1..(Len(times) + 1) : InWindow(times, t) = a..Len(times)
<1> DEFINE W == InWindow(times, t)
<1>1. Len(times) \in Nat /\ DOMAIN times = 1..Len(times) /\ \A i \in 1..Len(times) : times[i] \in Int
  BY LenProperties
<1>2. W = {i \in 1..Len(times) : t - times[i] <= AdaptiveWindow}
  BY <1>1, Zenon DEF InWindow
<1> HIDE DEF W
<1>3. CASE W = {}
  <2>1. W = (Len(times) + 1)..Len(times)
    BY <1>1, <1>3
  <2> QED BY <1>1, <2>1 DEF W
<1>4. CASE W # {}
  <2>1. W \subseteq Nat
    BY <1>1, <1>2
  <2>2. PICK a \in W : \A i \in W : a <= i
    BY <1>4, <2>1, LeastIndex, Zenon
  <2>3. a \in 1..Len(times) /\ t - times[a] <= AdaptiveWindow
    BY <1>2, <2>2, Zenon
  <2>4. ASSUME NEW i \in a..Len(times) PROVE i \in W
    <3>1. i \in 1..Len(times) /\ i \in Int /\ a \in Int
      BY <1>1, <2>3
    <3>2. times[a] <= times[i]
      <4>1. CASE a = i
        BY <1>1, <2>3, <4>1
      <4>2. CASE a < i
        BY <2>3, <3>1, <4>2, Zenon DEF Chronological
      <4> QED BY <3>1, <4>1, <4>2
    <3>3. t - times[i] <= AdaptiveWindow
      <4>1. times[a] \in Int /\ times[i] \in Int
        BY <1>1, <2>3, <3>1, Zenon
      <4> QED BY <2>3, <3>2, <4>1, CadenceAssumption
    <3> QED BY <1>2, <3>1, <3>3, Zenon
  <2>5. \A i \in W : i \in a..Len(times)
    BY <1>1, <1>2, <2>2, <2>3
  <2>6. W = a..Len(times)
    BY <2>4, <2>5, Zenon
  <2>7. a \in 1..(Len(times) + 1)
    BY <1>1, <2>3
  <2> QED BY <2>6, <2>7, Zenon DEF W
<1> QED BY <1>3, <1>4

\* The ring is the end of the history; what it lacks has left the window, or
\* the ring is full.
Records(times, all, t) ==
    /\ times \in Seq(Int) /\ all \in Seq(Int)
    /\ Chronological(all)
    /\ \A i \in 1..Len(all) : all[i] <= t
    /\ Len(times) <= RecentBuildTimesCap
    /\ \E d \in 0..Len(all) :
        /\ Len(times) = Len(all) - d
        /\ \A k \in 1..Len(times) : times[k] = all[d + k]
        /\ \/ Len(times) = RecentBuildTimesCap
           \/ \A i \in 1..d : t - all[i] > AdaptiveWindow

LEMMA RecordsIf ==
    ASSUME NEW times \in Seq(Int), NEW all \in Seq(Int), NEW t, Chronological(all),
           \A i \in 1..Len(all) : all[i] <= t,
           Len(times) <= RecentBuildTimesCap,
           NEW d \in 0..Len(all), Len(times) = Len(all) - d,
           \A k \in 1..Len(times) : times[k] = all[d + k],
           \/ Len(times) = RecentBuildTimesCap
           \/ \A i \in 1..d : t - all[i] > AdaptiveWindow
    PROVE  Records(times, all, t)
BY Zenon DEF Records

\* A later moment.
LEMMA RecordsAge ==
    ASSUME NEW times, NEW all, NEW t \in Int, Records(times, all, t)
    PROVE  Records(times, all, t + 1)
<1>1. Len(all) \in Nat /\ \A i \in 1..Len(all) : all[i] \in Int
  BY LenProperties DEF Records
<1>2. \A i \in 1..Len(all) : all[i] <= t + 1
  BY <1>1 DEF Records
<1>3. PICK d \in 0..Len(all) :
        /\ Len(times) = Len(all) - d
        /\ \A k \in 1..Len(times) : times[k] = all[d + k]
        /\ \/ Len(times) = RecentBuildTimesCap
           \/ \A i \in 1..d : t - all[i] > AdaptiveWindow
  BY Zenon DEF Records
<1>4. (\A i \in 1..d : t - all[i] > AdaptiveWindow) => \A i \in 1..d : (t + 1) - all[i] > AdaptiveWindow
  <2> SUFFICES ASSUME NEW i \in 1..d, t - all[i] > AdaptiveWindow PROVE (t + 1) - all[i] > AdaptiveWindow
    BY Zenon
  <2>1. all[i] \in Int
    BY <1>1
  <2> QED BY <2>1, CadenceAssumption
<1>5. /\ times \in Seq(Int) /\ all \in Seq(Int) /\ Chronological(all)
      /\ Len(times) <= RecentBuildTimesCap
  BY Zenon DEF Records
<1>6. \/ Len(times) = RecentBuildTimesCap
      \/ \A i \in 1..d : (t + 1) - all[i] > AdaptiveWindow
  BY <1>3, <1>4, Zenon
<1> DEFINE later == t + 1
<1>7. /\ \A i \in 1..Len(all) : all[i] <= later
      /\ \/ Len(times) = RecentBuildTimesCap
         \/ \A i \in 1..d : later - all[i] > AdaptiveWindow
  BY <1>2, <1>6, Zenon
<1> HIDE DEF later
<1>8. Records(times, all, later)
  BY <1>3, <1>5, <1>7, RecordsIf, Zenon
<1> QED BY <1>8, Zenon DEF later

\* Pruning the ring at time t.
LEMMA PrunedRecords ==
    ASSUME NEW times, NEW all, NEW t \in Int, Records(times, all, t)
    PROVE  Records(Sift(times, InWindow(times, t)), all, t)
<1> DEFINE cap == RecentBuildTimesCap
<1>1. /\ times \in Seq(Int) /\ Len(times) \in Nat /\ Len(times) <= cap
      /\ all \in Seq(Int) /\ Len(all) \in Nat /\ \A i \in 1..Len(all) : all[i] \in Int
      /\ DOMAIN times = 1..Len(times)
      /\ \A i, j \in 1..Len(all) : i < j => all[i] <= all[j]
  BY LenProperties DEF Records, Chronological
<1>2. PICK d \in 0..Len(all) :
        /\ Len(times) = Len(all) - d
        /\ \A k \in 1..Len(times) : times[k] = all[d + k]
        /\ \/ Len(times) = cap
           \/ \A i \in 1..d : t - all[i] > AdaptiveWindow
  BY Zenon DEF Records
<1>3. \A k \in 1..Len(times) : d + k \in 1..Len(all) /\ times[k] = all[d + k]
  BY <1>1, <1>2
<1>4. Chronological(times)
  <2> SUFFICES ASSUME NEW i \in 1..Len(times), NEW j \in 1..Len(times), i < j
               PROVE  times[i] <= times[j]
    BY Zenon DEF Chronological
  <2>1. d + i < d + j
    BY <1>1, <1>2
  <2> QED BY <1>1, <1>3, <2>1, Zenon
<1>5. PICK a \in 1..(Len(times) + 1) : InWindow(times, t) = a..Len(times)
  BY <1>1, <1>4, WindowIsSuffix, Zenon
<1> DEFINE pruned == Sift(times, InWindow(times, t))
           e == d + a - 1
<1>6. /\ pruned \in Seq(Int)
      /\ Len(pruned) = Len(times) - a + 1
      /\ \A k \in 1..(Len(times) - a + 1) : pruned[k] = times[a + k - 1]
  BY <1>1, <1>5, SiftSuffix, Zenon
<1> HIDE DEF pruned
<1>7. e \in 0..Len(all) /\ Len(pruned) = Len(all) - e /\ Len(pruned) <= cap
  BY <1>1, <1>2, <1>6, CadenceAssumption
<1>8. \A k \in 1..Len(pruned) : pruned[k] = all[e + k]
  <2> SUFFICES ASSUME NEW k \in 1..Len(pruned) PROVE pruned[k] = all[e + k]
    BY Zenon
  <2>1. k \in 1..(Len(times) - a + 1) /\ a + k - 1 \in 1..Len(times) /\ d + (a + k - 1) = e + k
    BY <1>1, <1>2, <1>6
  <2>2. pruned[k] = times[a + k - 1]
    BY <1>6, <2>1, Zenon
  <2>3. times[a + k - 1] = all[d + (a + k - 1)]
    BY <1>2, <2>1
  <2> QED BY <2>1, <2>2, <2>3
<1>9. \/ Len(pruned) = cap
      \/ \A i \in 1..e : t - all[i] > AdaptiveWindow
  <2>1. CASE a = 1
    <3>1. e = d /\ Len(pruned) = Len(times)
      BY <1>1, <1>2, <1>6, <2>1
    <3> QED BY <1>2, <3>1
  <2>2. CASE a # 1
    <3> SUFFICES ASSUME NEW i \in 1..e PROVE t - all[i] > AdaptiveWindow
      BY Zenon
    <3>1. /\ a - 1 \in 1..Len(times) /\ e \in 1..Len(all) /\ i \in 1..Len(all)
          /\ a - 1 \notin InWindow(times, t)
      BY <1>1, <1>2, <1>5, <2>2
    <3>2. times[a - 1] = all[e]
      <4>1. d + (a - 1) = e
        BY <1>2
      <4> QED BY <1>3, <3>1, <4>1
    <3>3. ~(t - all[e] <= AdaptiveWindow)
      BY <1>1, <3>1, <3>2, Zenon DEF InWindow
    <3>4. all[i] <= all[e]
      <4>1. i = e \/ i < e
        BY <1>2
      <4>2. all[i] \in Int /\ all[e] \in Int
        BY <1>1, <3>1, Zenon
      <4>3. i < e => all[i] <= all[e]
        BY <1>1, <3>1, Zenon
      <4> HIDE DEF e
      <4> QED BY <4>1, <4>2, <4>3
    <3>5. all[i] \in Int /\ all[e] \in Int
      BY <1>1, <3>1, Zenon
    <3> HIDE DEF e
    <3> QED BY <3>3, <3>4, <3>5, CadenceAssumption
  <2> QED BY <2>1, <2>2
<1> HIDE DEF e
<1>10. Records(pruned, all, t)
  <2>1. \A i \in 1..Len(all) : all[i] <= t
    BY Zenon DEF Records
  <2>2. Chronological(all)
    BY Zenon DEF Records
  <2> QED BY <1>1, <1>6, <1>7, <1>8, <1>9, <2>1, <2>2, RecordsIf, Zenon
<1> QED BY <1>10, Zenon DEF pruned

\* One more build, now.
LEMMA RecordsStart ==
    ASSUME NEW times, NEW all, NEW t \in Int, Records(times, all, t)
    PROVE  Records(Newest(Append(times, t), RecentBuildTimesCap), Append(all, t), t)
<1> DEFINE cap == RecentBuildTimesCap
           more == Append(times, t)
           history == Append(all, t)
           m == IF Len(more) > cap THEN cap ELSE Len(more)
           kept == Newest(more, cap)
<1>0. cap \in Nat \ {0} /\ AdaptiveWindow \in Nat
  BY CadenceAssumption, Zenon
<1>1. /\ times \in Seq(Int) /\ Len(times) \in Nat /\ Len(times) <= cap
      /\ all \in Seq(Int) /\ Len(all) \in Nat /\ \A i \in 1..Len(all) : all[i] \in Int /\ all[i] <= t
      /\ \A i, j \in 1..Len(all) : i < j => all[i] <= all[j]
  BY LenProperties DEF Records, Chronological
<1>2. PICK d \in 0..Len(all) :
        /\ Len(times) = Len(all) - d
        /\ \A k \in 1..Len(times) : times[k] = all[d + k]
        /\ \/ Len(times) = cap
           \/ \A i \in 1..d : t - all[i] > AdaptiveWindow
  BY Zenon DEF Records
<1>3. /\ more \in Seq(Int) /\ Len(more) = Len(times) + 1
      /\ \A k \in 1..Len(times) : more[k] = times[k]
      /\ more[Len(times) + 1] = t
  BY <1>1, AppendProperties
<1>4. /\ history \in Seq(Int) /\ Len(history) = Len(all) + 1
      /\ \A k \in 1..Len(all) : history[k] = all[k]
      /\ history[Len(all) + 1] = t
  BY <1>1, AppendProperties
<1>5. /\ kept \in Seq(Int)
      /\ Len(kept) = m
      /\ \A k \in 1..m : kept[k] = more[Len(more) - m + k]
  BY <1>0, <1>3, NewestIs, Zenon
<1> HIDE DEF more, history, kept
<1>l. /\ Len(times) \in Nat /\ Len(all) \in Nat /\ Len(times) <= cap
      /\ Len(times) = Len(all) - d
      /\ Len(more) = Len(times) + 1 /\ Len(history) = Len(all) + 1 /\ Len(kept) = m
  BY <1>1, <1>2, <1>3, <1>4, <1>5, Zenon
<1>6. \A k \in 1..Len(more) : more[k] = history[d + k]
  <2> SUFFICES ASSUME NEW k \in 1..Len(more) PROVE more[k] = history[d + k]
    BY Zenon
  <2>1. CASE k = Len(times) + 1
    <3>1. d + k = Len(all) + 1
      BY <1>1, <1>2, <2>1
    <3> QED BY <1>3, <1>4, <2>1, <3>1
  <2>2. CASE k # Len(times) + 1
    <3>1. k \in 1..Len(times) /\ d + k \in 1..Len(all)
      BY <1>1, <1>2, <1>3, <2>2
    <3> QED BY <1>2, <1>3, <1>4, <3>1, Zenon
  <2> QED BY <2>1, <2>2
<1>7. Chronological(history)
  <2> SUFFICES ASSUME NEW i \in 1..Len(history), NEW j \in 1..Len(history), i < j
               PROVE  history[i] <= history[j]
    BY Zenon DEF Chronological
  <2>1. i \in 1..Len(all)
    BY <1>1, <1>4
  <2>2. CASE j = Len(all) + 1
    BY <1>1, <1>4, <2>1, <2>2, Zenon
  <2>3. CASE j # Len(all) + 1
    <3>1. j \in 1..Len(all)
      BY <1>l, <2>3
    <3> QED BY <1>1, <1>4, <2>1, <3>1, Zenon
  <2> QED BY <2>2, <2>3
<1>8. \A i \in 1..Len(history) : history[i] <= t
  <2> SUFFICES ASSUME NEW i \in 1..Len(history) PROVE history[i] <= t
    BY Zenon
  <2>1. CASE i = Len(all) + 1
    BY <1>4, <2>1
  <2>2. CASE i # Len(all) + 1
    <3>1. i \in 1..Len(all)
      BY <1>1, <1>4, <2>2
    <3> QED BY <1>1, <1>4, <3>1, Zenon
  <2> QED BY <2>1, <2>2
<1> DEFINE e == d + (Len(more) - m)
<1>9. /\ m \in Nat /\ Len(kept) <= cap
      /\ e \in 0..Len(history) /\ Len(kept) = Len(history) - e
      /\ Len(more) > cap => Len(kept) = cap
      /\ ~(Len(more) > cap) => e = d /\ d <= Len(all) /\ Len(times) # cap
  <2>1. CASE Len(more) > cap
    <3>1. m = cap /\ Len(kept) = cap /\ Len(times) = cap
      BY <1>0, <1>l, <2>1
    <3> QED BY <1>0, <1>l, <2>1, <3>1
  <2>2. CASE ~(Len(more) > cap)
    <3>1. m = Len(more) /\ e = d
      BY <1>0, <1>l, <2>2
    <3> QED BY <1>0, <1>l, <2>2, <3>1
  <2> QED BY <2>1, <2>2
<1>10. \A k \in 1..Len(kept) : kept[k] = history[e + k]
  <2> SUFFICES ASSUME NEW k \in 1..Len(kept) PROVE kept[k] = history[e + k]
    BY Zenon
  <2>1. k \in 1..m /\ Len(more) - m + k \in 1..Len(more) /\ d + (Len(more) - m + k) = e + k
    BY <1>0, <1>1, <1>2, <1>3, <1>5
  <2>2. kept[k] = more[Len(more) - m + k]
    BY <1>5, <2>1, Zenon
  <2>3. more[Len(more) - m + k] = history[d + (Len(more) - m + k)]
    BY <1>6, <2>1, Zenon
  <2> HIDE DEF m, e
  <2> QED BY <2>1, <2>2, <2>3, Zenon
<1>11. \/ Len(kept) = cap
       \/ \A i \in 1..e : t - history[i] > AdaptiveWindow
  <2>1. CASE Len(more) > cap
    BY <1>9, <2>1, Zenon
  <2>2. CASE ~(Len(more) > cap)
    <3>1. \A i \in 1..d : t - all[i] > AdaptiveWindow /\ history[i] = all[i]
      <4>1. \A i \in 1..d : i \in 1..Len(all)
        BY <1>1
      <4> QED BY <1>2, <1>4, <1>9, <2>2, <4>1, Zenon
    <3> QED BY <1>9, <2>2, <3>1, Zenon
  <2> QED BY <2>1, <2>2
<1> HIDE DEF e, m
<1>12. Records(kept, history, t)
  BY <1>4, <1>5, <1>7, <1>8, <1>9, <1>10, <1>11, RecordsIf, Zenon
<1> QED BY <1>12, Zenon DEF kept, more, history

\* The ring counts the builds of the window, up to its own length.
LEMMA RingCounts ==
    ASSUME NEW times, NEW all, NEW t \in Int, Records(times, all, t)
    PROVE  LET n == BuildsInWindow(times, t)
               recent == Cardinality(InWindow(all, t))
           IN  /\ n \in Nat /\ recent \in Nat
               /\ \/ n = recent /\ n <= RecentBuildTimesCap
                  \/ n = RecentBuildTimesCap /\ recent > RecentBuildTimesCap
<1> DEFINE cap == RecentBuildTimesCap
<1>1. /\ times \in Seq(Int) /\ Len(times) \in Nat /\ Len(times) <= cap /\ DOMAIN times = 1..Len(times)
      /\ all \in Seq(Int) /\ Len(all) \in Nat /\ Chronological(all) /\ DOMAIN all = 1..Len(all)
  BY LenProperties DEF Records
<1>2. PICK d \in 0..Len(all) :
        /\ Len(times) = Len(all) - d
        /\ \A k \in 1..Len(times) : times[k] = all[d + k]
        /\ \/ Len(times) = cap
           \/ \A i \in 1..d : t - all[i] > AdaptiveWindow
  BY Zenon DEF Records
<1>3. PICK a \in 1..(Len(all) + 1) : InWindow(all, t) = a..Len(all)
  BY <1>1, WindowIsSuffix, Zenon
<1> DEFINE b == IF a > d THEN a - d ELSE 1
<1>4. InWindow(times, t) = b..Len(times)
  <2>1. \A k \in 1..Len(times) : k \in InWindow(times, t) <=> d + k \in InWindow(all, t)
    <3> SUFFICES ASSUME NEW k \in 1..Len(times)
                 PROVE  k \in InWindow(times, t) <=> d + k \in InWindow(all, t)
      BY Zenon
    <3>1. d + k \in 1..Len(all) /\ times[k] = all[d + k]
      BY <1>1, <1>2
    <3> QED BY <1>1, <3>1, Zenon DEF InWindow
  <2>2. \A k \in 1..Len(times) : d + k \in a..Len(all) <=> k \in b..Len(times)
    BY <1>1, <1>2
  <2>3. InWindow(times, t) \subseteq 1..Len(times) /\ b..Len(times) \subseteq 1..Len(times)
    BY <1>1, <1>2 DEF InWindow
  <2> HIDE DEF b
  <2> QED BY <1>3, <2>1, <2>2, <2>3, Zenon
<1>5. Cardinality(InWindow(all, t)) = Len(all) - a + 1
  <2>1. a \in Int /\ Len(all) \in Int
    BY <1>1
  <2>2. Cardinality(a..Len(all)) = IF a > Len(all) THEN 0 ELSE Len(all) - a + 1
    BY <2>1, FS_Interval, Zenon
  <2> QED BY <1>3, <2>1, <2>2
<1>6. Cardinality(InWindow(times, t)) = Len(times) - b + 1
  <2>1. b \in Int /\ Len(times) \in Int /\ b <= Len(times) + 1
    BY <1>1, <1>2
  <2>2. Cardinality(b..Len(times)) = IF b > Len(times) THEN 0 ELSE Len(times) - b + 1
    BY <2>1, FS_Interval, Zenon
  <2> HIDE DEF b
  <2> QED BY <1>4, <2>1, <2>2
<1>7. a > d \/ Len(times) = cap
  <2> SUFFICES ASSUME ~(a > d), \A i \in 1..d : t - all[i] > AdaptiveWindow PROVE FALSE
    BY <1>2, Zenon
  <2>1. a \in 1..d /\ a \in InWindow(all, t)
    BY <1>1, <1>3
  <2>2. t - all[a] <= AdaptiveWindow /\ t - all[a] > AdaptiveWindow /\ all[a] \in Int
    BY <1>1, <2>1 DEF InWindow
  <2> QED BY <2>2, CadenceAssumption
<1> DEFINE n == BuildsInWindow(times, t)
           recent == Cardinality(InWindow(all, t))
<1>8. n = Len(times) - b + 1 /\ recent = Len(all) - a + 1
  BY <1>5, <1>6, Zenon DEF BuildsInWindow
<1>9. /\ Len(times) \in Nat /\ Len(all) \in Nat /\ Len(times) <= cap /\ cap \in Nat
      /\ Len(times) = Len(all) - d
  BY <1>1, <1>2, CadenceAssumption, Zenon
<1> HIDE DEF n, recent
<1>10. /\ n \in Nat /\ recent \in Nat
       /\ (n = recent /\ n <= cap) \/ (n = cap /\ recent > cap)
  BY <1>7, <1>8, <1>9
<1> QED BY <1>10, Zenon DEF n, recent

\* The record keeps the promise of the idle window.
LEMMA RecordsEarnTheWindow ==
    ASSUME now \in Int, Records(ring, started, now)
    PROVE  WarmWindowFollowsCadence
<1> DEFINE n == BuildsInWindow(ring, now)
           recent == Cardinality(InWindow(started, now))
           cap == RecentBuildTimesCap
<1>1. /\ n \in Nat /\ recent \in Nat
      /\ (n = recent /\ n <= cap) \/ (n = cap /\ recent > cap)
  BY RingCounts, Zenon
<1>2. cap \in Nat \ {0} /\ AdaptiveMax \in Int /\ IdleTimeouts \subseteq Nat
  BY CadenceAssumption, Zenon
<1> SUFFICES ASSUME NEW base \in IdleTimeouts
             PROVE  /\ effectiveIdle(base, TRUE, ring, now) = base
                    /\ recent <= cap \/ base * cap >= AdaptiveMax =>
                         effectiveIdle(base, FALSE, ring, now) =
                             IF base >= AdaptiveMax \/ recent = 0 THEN base
                             ELSE Least(base * recent, AdaptiveMax)
  BY Zenon DEF WarmWindowFollowsCadence
<1>3. base \in Nat
  BY <1>2, Zenon
<1>4. effectiveIdle(base, TRUE, ring, now) = base
  BY Zenon DEF effectiveIdle
<1>5. effectiveIdle(base, FALSE, ring, now) =
        IF AdaptiveMax <= 0 \/ base <= 0 \/ base >= AdaptiveMax \/ n <= 1
        THEN base ELSE Least(base * n, AdaptiveMax)
  BY Zenon DEF effectiveIdle
<1> HIDE DEF n, recent, cap
<1>6. base * n \in Nat /\ base * recent \in Nat /\ base * cap \in Nat
  BY <1>1, <1>2, <1>3
<1>7. /\ n = 1 => base * n = base
      /\ cap = 1 => base * cap = base
      /\ base = 0 => base * n = 0 /\ base * cap = 0
  BY <1>1, <1>2, <1>3
<1>8. recent > cap => base * recent >= base * cap
  BY <1>1, <1>2, <1>3
<1>9. (n = recent => base * n = base * recent) /\ (n = cap => base * n = base * cap)
  BY Zenon
<1> DEFINE bn == base * n
           br == base * recent
           bc == base * cap
<1>10. ASSUME recent <= cap \/ bc >= AdaptiveMax
       PROVE  effectiveIdle(base, FALSE, ring, now) =
                  IF base >= AdaptiveMax \/ recent = 0 THEN base ELSE Least(br, AdaptiveMax)
  <2>1. effectiveIdle(base, FALSE, ring, now) =
          IF AdaptiveMax <= 0 \/ base <= 0 \/ base >= AdaptiveMax \/ n <= 1
          THEN base ELSE IF bn < AdaptiveMax THEN bn ELSE AdaptiveMax
    BY <1>5, Zenon DEF Least
  <2>2. Least(br, AdaptiveMax) = IF br < AdaptiveMax THEN br ELSE AdaptiveMax
    BY Zenon DEF Least
  <2>3. /\ bn \in Nat /\ br \in Nat /\ bc \in Nat
        /\ n = 1 => bn = base
        /\ cap = 1 => bc = base
        /\ base = 0 => bn = 0 /\ bc = 0
        /\ n = recent => bn = br
        /\ n = cap => bn = bc
        /\ recent > cap => br >= bc
    BY <1>6, <1>7, <1>8, <1>9, Zenon
  <2> HIDE DEF bn, br, bc
  <2>4. (IF AdaptiveMax <= 0 \/ base <= 0 \/ base >= AdaptiveMax \/ n <= 1
         THEN base ELSE IF bn < AdaptiveMax THEN bn ELSE AdaptiveMax)
          = IF base >= AdaptiveMax \/ recent = 0 THEN base
            ELSE IF br < AdaptiveMax THEN br ELSE AdaptiveMax
    BY <1>1, <1>2, <1>3, <1>10, <2>3
  <2> QED BY <2>1, <2>2, <2>4, Zenon
<1> QED BY <1>4, <1>10, Zenon

-----------------------------------------------------------------------------
(* The slice.                                                              *)

\* Stored ids: hashed tokens and adopted ones.
Ids == {S!InflightID(token) : token \in Tokens} \cup {S!AdoptedID(i) : i \in 1..InflightCap}

SliceEntries == [id : Ids, since : Int]

\* A chronological slice within the cap, with no id twice, no date ahead of t,
\* and nothing of the tokens that are not minted yet.
Sliced(es, unused, t) ==
    /\ es \in Seq(SliceEntries)
    /\ Len(es) <= InflightCap
    /\ \A i, j \in 1..Len(es) : i < j => es[i].since <= es[j].since /\ es[i].id # es[j].id
    /\ \A i \in 1..Len(es) : es[i].since <= t
    /\ \A i \in 1..Len(es), token \in unused : es[i].id # S!InflightID(token)

SliceStatus == [entries : Seq(SliceEntries), count : Int, last : Int \cup {NoTime}]

\* The inductive invariant: the status is well-formed and holds a slice as
\* above, the idle clock is not ahead, and the ring is the end of the history.
SliceInv ==
    /\ now \in Int
    /\ tokens \subseteq Tokens
    /\ st \in SliceStatus
    /\ st.last # NoTime => st.last <= now
    /\ Sliced(st.entries, tokens, now)
    /\ Records(ring, started, now)

\* Hashed and adopted ids never meet.
LEMMA IdsDiffer ==
    /\ \A i, token : S!AdoptedID(i) # S!InflightID(token)
    /\ \A i, j : S!AdoptedID(i) = S!AdoptedID(j) => i = j
    /\ \A u, v : S!InflightID(u) = S!InflightID(v) => u = v
BY DEF S!AdoptedID, S!InflightID

\* Whatever leaves entries out and keeps the order.
LEMMA SlicedPart ==
    ASSUME NEW es, NEW unused, NEW t, Sliced(es, unused, t),
           NEW out \in Seq(SliceEntries), Len(out) <= Len(es),
           NEW h \in [1..Len(out) -> 1..Len(es)],
           \A k \in 1..Len(out) : out[k] = es[h[k]],
           \A k, m \in 1..Len(out) : k < m => h[k] < h[m]
    PROVE  Sliced(out, unused, t)
<1>1. Len(out) <= InflightCap
  <2>1. Len(es) \in Nat /\ Len(out) \in Nat /\ Len(es) <= InflightCap
    BY LenProperties DEF Sliced
  <2> QED BY <2>1, SliceAssumption
<1>2. \A i, j \in 1..Len(out) : i < j => out[i].since <= out[j].since /\ out[i].id # out[j].id
  <2> SUFFICES ASSUME NEW i \in 1..Len(out), NEW j \in 1..Len(out), i < j
               PROVE  out[i].since <= out[j].since /\ out[i].id # out[j].id
    BY Zenon
  <2>1. h[i] \in 1..Len(es) /\ h[j] \in 1..Len(es) /\ h[i] < h[j]
    BY Zenon
  <2>2. es[h[i]].since <= es[h[j]].since /\ es[h[i]].id # es[h[j]].id
    BY <2>1, Zenon DEF Sliced
  <2> QED BY <2>2, Zenon
<1>3. \A i \in 1..Len(out) : out[i].since <= t
  <2>1. \A i \in 1..Len(out) : h[i] \in 1..Len(es)
    BY Zenon
  <2>2. \A i \in 1..Len(es) : es[i].since <= t
    BY Zenon DEF Sliced
  <2> QED BY <2>1, <2>2, Zenon
<1>4. \A i \in 1..Len(out), token \in unused : out[i].id # S!InflightID(token)
  <2>1. \A i \in 1..Len(out) : h[i] \in 1..Len(es)
    BY Zenon
  <2>2. \A i \in 1..Len(es), token \in unused : es[i].id # S!InflightID(token)
    BY Zenon DEF Sliced
  <2> QED BY <2>1, <2>2, Zenon
<1> QED BY <1>1, <1>2, <1>3, <1>4, Zenon DEF Sliced

\* What AdoptLegacyInflight leaves alone, and what it makes of a bare count.
Adopts(s) == s.entries = <<>> /\ s.count > 0 /\ s.last # NoTime

Adopted(s) == [i \in 1..Least(s.count, InflightCap) |-> S!Entry(S!AdoptedID(i), s.last)]

With(s, es, n) == [s EXCEPT !.entries = es, !.count = n]

LEMMA StatusWith ==
    ASSUME NEW s \in SliceStatus, NEW es \in Seq(SliceEntries), NEW n \in Int
    PROVE  /\ With(s, es, n) \in SliceStatus
           /\ With(s, es, n).entries = es
           /\ With(s, es, n).last = s.last
<1> DEFINE Es == Seq(SliceEntries)
           L == Int \cup {NoTime}
<1>1. s \in [entries : Es, count : Int, last : L]
  BY Zenon DEF SliceStatus
<1>2. es \in Es
  OBVIOUS
<1> HIDE DEF Es, L
<1>3. /\ With(s, es, n) \in [entries : Es, count : Int, last : L]
      /\ With(s, es, n).entries = es
      /\ With(s, es, n).last = s.last
  BY <1>1, <1>2, Zenon DEF With
<1> QED BY <1>3, Zenon DEF SliceStatus, Es, L

LEMMA AdoptIs ==
    ASSUME NEW s \in SliceStatus
    PROVE  /\ ~Adopts(s) => AdoptLegacyInflight(s) = s
           /\ Adopts(s) => /\ AdoptLegacyInflight(s).entries = Adopted(s)
                           /\ Least(s.count, InflightCap) \in 1..InflightCap
                           /\ Adopted(s) \in Seq(SliceEntries)
                           /\ Len(Adopted(s)) = Least(s.count, InflightCap)
           /\ AdoptLegacyInflight(s) \in SliceStatus
           /\ AdoptLegacyInflight(s).last = s.last
<1>1. s.count \in Int /\ s.last \in Int \cup {NoTime} /\ s.entries \in Seq(SliceEntries)
  BY Zenon DEF SliceStatus
<1>2. CASE ~Adopts(s)
  <2>1. s.entries # <<>> \/ s.count <= 0 \/ s.last = NoTime
    BY <1>1, <1>2 DEF Adopts
  <2>2. AdoptLegacyInflight(s) = s
    BY <2>1, Zenon DEF AdoptLegacyInflight
  <2> QED BY <1>2, <2>2, Zenon
<1>3. CASE Adopts(s)
  <2> DEFINE n == Least(s.count, InflightCap)
             X == Adopted(s)
  <2>1. n \in 1..InflightCap /\ n \in Nat
    BY <1>1, <1>3, SliceAssumption DEF Adopts, Least
  <2>2. \A i \in 1..n : S!Entry(S!AdoptedID(i), s.last) \in SliceEntries
    <3> SUFFICES ASSUME NEW i \in 1..n PROVE S!Entry(S!AdoptedID(i), s.last) \in SliceEntries
      BY Zenon
    <3>1. s.last \in Int
      BY <1>1, <1>3, Zenon DEF Adopts
    <3>2. i \in 1..InflightCap
      <4> HIDE DEF n
      <4> QED BY <2>1, SliceAssumption
    <3>3. S!AdoptedID(i) \in Ids
      BY <3>2, Zenon DEF Ids
    <3> QED BY <3>1, <3>3, Zenon DEF SliceEntries, S!Entry
  <2>3. X = [i \in 1..n |-> S!Entry(S!AdoptedID(i), s.last)]
    BY Zenon DEF Adopted
  <2> HIDE DEF n, X
  <2>4. X \in [1..n -> SliceEntries]
    BY <2>2, <2>3, Zenon
  <2>5. X \in Seq(SliceEntries) /\ Len(X) = n
    BY <2>1, <2>4, SeqDef
  <2>6. capInflight(X) = X
    <3>1. ~(Len(X) > InflightCap)
      BY <2>1, <2>5, SliceAssumption
    <3> QED BY <3>1, Zenon DEF capInflight
  <2>7. AdoptLegacyInflight(s) = With(s, X, n)
    <3>1. ~(s.entries # <<>> \/ s.count <= 0 \/ s.last = NoTime)
      BY <1>1, <1>3 DEF Adopts
    <3>2. AdoptLegacyInflight(s) = SetInflight(s, X)
      BY <2>3, <3>1, Zenon DEF AdoptLegacyInflight, n
    <3> QED BY <2>5, <2>6, <3>2, Zenon DEF SetInflight, With
  <2>8. /\ AdoptLegacyInflight(s).entries = X
        /\ AdoptLegacyInflight(s).last = s.last
        /\ AdoptLegacyInflight(s) \in SliceStatus
    <3>1. n \in Int
      BY <2>1
    <3>2. /\ With(s, X, n) \in SliceStatus
          /\ With(s, X, n).entries = X
          /\ With(s, X, n).last = s.last
      BY <2>5, <3>1, StatusWith, Zenon
    <3> QED BY <2>7, <3>2, Zenon
  <2> QED BY <1>3, <2>1, <2>5, <2>8, Zenon DEF n, X
<1> QED BY <1>2, <1>3

\* Adopted entries all carry the same date, and ids of their own.
LEMMA AdoptSliced ==
    ASSUME NEW s \in SliceStatus, NEW unused, NEW t \in Int,
           Sliced(s.entries, unused, t), s.last # NoTime => s.last <= t
    PROVE  Sliced(AdoptLegacyInflight(s).entries, unused, t)
<1>1. CASE ~Adopts(s)
  BY <1>1, AdoptIs, Zenon
<1>2. CASE Adopts(s)
  <2> DEFINE X == Adopted(s)
             n == Least(s.count, InflightCap)
  <2>1. /\ AdoptLegacyInflight(s).entries = X
        /\ n \in 1..InflightCap /\ X \in Seq(SliceEntries) /\ Len(X) = n
    BY <1>2, AdoptIs, Zenon
  <2>2. \A i \in 1..n : X[i].id = S!AdoptedID(i) /\ X[i].since = s.last
    BY Zenon DEF Adopted, S!Entry
  <2> HIDE DEF X, n
  <2>3. s.last \in Int /\ s.last <= t
    BY <1>2, Zenon DEF Adopts, SliceStatus
  <2>4. Len(X) <= InflightCap
    BY <2>1, SliceAssumption
  <2>5. \A i, j \in 1..Len(X) : i < j => X[i].since <= X[j].since /\ X[i].id # X[j].id
    <3> SUFFICES ASSUME NEW i \in 1..Len(X), NEW j \in 1..Len(X), i < j
                 PROVE  X[i].since <= X[j].since /\ X[i].id # X[j].id
      BY Zenon
    <3>1. i # j /\ s.last <= s.last
      BY <2>1, <2>3, SliceAssumption
    <3>2. S!AdoptedID(i) # S!AdoptedID(j)
      BY <3>1, IdsDiffer, Zenon
    <3>3. i \in 1..n /\ j \in 1..n
      BY <2>1, Zenon
    <3>4. X[i].id = S!AdoptedID(i) /\ X[i].since = s.last /\ X[j].id = S!AdoptedID(j) /\ X[j].since = s.last
      BY <2>2, <3>3, Zenon
    <3> QED BY <3>1, <3>2, <3>4, Zenon
  <2>6. \A i \in 1..Len(X) : X[i].since <= t
    BY <2>1, <2>2, <2>3, Zenon
  <2>7. \A i \in 1..Len(X), token \in unused : X[i].id # S!InflightID(token)
    <3>1. \A i, token : S!AdoptedID(i) # S!InflightID(token)
      BY IdsDiffer, Zenon
    <3>2. \A i \in 1..Len(X) : X[i].id = S!AdoptedID(i)
      BY <2>1, <2>2, Zenon
    <3> QED BY <3>1, <3>2, Zenon
  <2> QED BY <2>1, <2>4, <2>5, <2>6, <2>7, Zenon DEF Sliced
<1> QED BY <1>1, <1>2

\* Leaving entries out keeps a slice a slice, and keeps the others.
LEMMA SiftSliced ==
    ASSUME NEW es, NEW unused, NEW t, Sliced(es, unused, t), NEW I, I \subseteq 1..Len(es)
    PROVE  /\ Sliced(Sift(es, I), unused, t)
           /\ \A e : e \in Range(Sift(es, I)) <=> \E i \in I : e = es[i]
<1> DEFINE out == Sift(es, I)
           N == Cardinality(I)
<1>1. es \in Seq(SliceEntries) /\ Len(es) \in Nat
  BY LenProperties DEF Sliced
<1>2. out \in Seq(SliceEntries) /\ Len(out) = N /\ N \in 0..Len(es)
  BY <1>1, SiftIs, Zenon
<1>3. PICK h : Picks(h, es, I)
  BY <1>1, SiftIs, Zenon
<1>4. /\ h \in [1..N -> I]
      /\ \A k \in 1..N : out[k] = es[h[k]]
      /\ \A k, m \in 1..N : k < m => h[k] < h[m]
      /\ \A i \in I : \E k \in 1..N : h[k] = i
  BY <1>3, Zenon DEF Picks
<1> HIDE DEF out, N
<1>5. Sliced(out, unused, t)
  <2>0. out \in Seq(SliceEntries)
    BY <1>2, Zenon
  <2>1. h \in [1..Len(out) -> 1..Len(es)]
    <3>1. h \in [1..N -> 1..Len(es)]
      BY <1>4, Zenon
    <3> QED BY <1>2, <3>1, Zenon
  <2>2. Len(out) <= Len(es)
    BY <1>1, <1>2
  <2>3. \A k \in 1..Len(out) : out[k] = es[h[k]]
    BY <1>2, <1>4, Zenon
  <2>4. \A k, m \in 1..Len(out) : k < m => h[k] < h[m]
    BY <1>2, <1>4, Zenon
  <2> QED BY <2>0, <2>1, <2>2, <2>3, <2>4, SlicedPart, Zenon
<1>6. \A e : e \in Range(out) <=> \E i \in I : e = es[i]
  <2>1. DOMAIN out = 1..N
    BY <1>2, LenProperties
  <2>2. \A e : e \in Range(out) <=> \E k \in 1..N : e = out[k]
    BY <2>1, Zenon DEF Range
  <2>3. \A k \in 1..N : h[k] \in I /\ out[k] = es[h[k]]
    BY <1>4, Zenon
  <2>4. ASSUME NEW e, e \in Range(out) PROVE \E i \in I : e = es[i]
    <3>1. PICK k \in 1..N : e = out[k]
      BY <2>2, <2>4, Zenon
    <3> QED BY <2>3, <3>1, Zenon
  <2>5. \A i \in I : \E k \in 1..N : h[k] = i
    BY <1>4, Zenon
  <2>6. ASSUME NEW e, NEW i \in I, e = es[i] PROVE e \in Range(out)
    <3>1. PICK k \in 1..N : h[k] = i
      BY <2>5, Zenon
    <3>2. e = out[k]
      BY <2>3, <2>6, <3>1, Zenon
    <3> QED BY <2>2, <3>2, Zenon
  <2> QED BY <2>4, <2>6, Zenon
<1> QED BY <1>5, <1>6, Zenon DEF out

\* Expiry leaves out the outdated entries and nothing else.
LEMMA ExpireSliced ==
    ASSUME NEW es, NEW unused, NEW t, Sliced(es, unused, t), NEW age
    PROVE  /\ Sliced(ExpireInflight(es, t, age), unused, t)
           /\ Range(ExpireInflight(es, t, age)) = S!ExpireInflight(Range(es), t, age)
<1> DEFINE I == {i \in DOMAIN es : t - es[i].since <= age}
<1>1. DOMAIN es = 1..Len(es)
  BY LenProperties DEF Sliced
<1>2. ExpireInflight(es, t, age) = Sift(es, I)
  BY Zenon DEF ExpireInflight
<1>3. /\ Sliced(Sift(es, I), unused, t)
      /\ \A e : e \in Range(Sift(es, I)) <=> \E i \in I : e = es[i]
  <2>1. I \subseteq 1..Len(es)
    BY <1>1, Zenon
  <2> HIDE DEF I
  <2> QED BY <2>1, SiftSliced, Zenon
<1>4. \A e : e \in Range(es) <=> \E i \in DOMAIN es : e = es[i]
  BY Zenon DEF Range
<1>5. Range(Sift(es, I)) = {e \in Range(es) : t - e.since <= age}
  BY <1>3, <1>4, Zenon
<1> QED BY <1>2, <1>3, <1>5, Zenon DEF S!ExpireInflight

\* A slice as a set: each entry counts once.
LEMMA SliceSet ==
    ASSUME NEW es, NEW unused, NEW t, Sliced(es, unused, t)
    PROVE  /\ es \in Seq(SliceEntries) /\ Len(es) \in Nat /\ DOMAIN es = 1..Len(es)
           /\ \A e : e \in Range(es) <=> \E i \in 1..Len(es) : e = es[i]
           /\ \A i \in 1..Len(es) : es[i].since \in Int /\ es[i] \in SliceEntries
           /\ \A i, j \in 1..Len(es) : i # j => es[i].id # es[j].id
           /\ Cardinality(Range(es)) = Len(es)
<1>1. es \in Seq(SliceEntries) /\ Len(es) \in Nat /\ DOMAIN es = 1..Len(es)
  BY LenProperties DEF Sliced
<1>2. \A e : e \in Range(es) <=> \E i \in 1..Len(es) : e = es[i]
  BY <1>1, Zenon DEF Range
<1>3. \A i \in 1..Len(es) : es[i] \in SliceEntries
  BY <1>1, LenProperties
<1>4. \A i \in 1..Len(es) : es[i].since \in Int
  BY <1>3, Zenon DEF SliceEntries
<1>5. ASSUME NEW i \in 1..Len(es), NEW j \in 1..Len(es), i # j PROVE es[i].id # es[j].id
  <2>1. i < j \/ j < i
    BY <1>1, <1>5
  <2>2. i < j => es[i].id # es[j].id
    BY Zenon DEF Sliced
  <2>3. j < i => es[j].id # es[i].id
    BY Zenon DEF Sliced
  <2> QED BY <2>1, <2>2, <2>3, Zenon
<1>6. Cardinality(Range(es)) = Len(es)
  <2>1. es \in Surjection(1..Len(es), Range(es))
    <3>1. es \in [1..Len(es) -> SliceEntries]
      BY <1>1, LenProperties
    <3>2. es \in [1..Len(es) -> Range(es)]
      BY <1>2, <3>1, Zenon
    <3> QED BY <1>2, <3>2, Zenon DEF Surjection
  <2>2. es \in Injection(1..Len(es), Range(es))
    <3>1. es \in [1..Len(es) -> Range(es)]
      BY <2>1, Zenon DEF Surjection
    <3>2. \A i, j \in 1..Len(es) : es[i] = es[j] => i = j
      BY <1>5, Zenon
    <3> QED BY <3>1, <3>2, Zenon DEF Injection, IsInjective
  <2>3. IsFiniteSet(1..Len(es)) /\ Cardinality(1..Len(es)) = Len(es)
    <3>1. 1 \in Int /\ Len(es) \in Int
      BY <1>1
    <3>2. IsFiniteSet(1..Len(es)) /\ Cardinality(1..Len(es)) = IF 1 > Len(es) THEN 0 ELSE Len(es) - 1 + 1
      BY <3>1, FS_Interval, Zenon
    <3> QED BY <1>1, <3>2
  <2> QED BY <2>1, <2>2, <2>3, FS_Surjection, Zenon
<1> QED BY <1>1, <1>2, <1>3, <1>4, <1>5, <1>6, Zenon

\* Taking one entry out.
LEMMA RemoveSliced ==
    ASSUME NEW es, NEW unused, NEW t, Sliced(es, unused, t), NEW d \in 1..Len(es)
    PROVE  /\ Sliced(Sift(es, DOMAIN es \ {d}), unused, t)
           /\ Range(Sift(es, DOMAIN es \ {d})) = Range(es) \ {es[d]}
<1> DEFINE I == DOMAIN es \ {d}
           out == Sift(es, I)
<1>1. DOMAIN es = 1..Len(es)
  BY SliceSet, Zenon
<1>2. /\ Sliced(out, unused, t)
      /\ \A e : e \in Range(out) <=> \E i \in I : e = es[i]
  <2>1. I \subseteq 1..Len(es)
    BY <1>1, Zenon
  <2> HIDE DEF I
  <2> QED BY <2>1, SiftSliced, Zenon
<1>3. \A e : e \in Range(es) <=> \E i \in 1..Len(es) : e = es[i]
  BY SliceSet, Zenon
<1>4. \A i \in 1..Len(es) : i # d => es[i] # es[d]
  BY SliceSet, Zenon
<1> HIDE DEF out
<1>5. \A i : i \in I <=> i \in 1..Len(es) /\ i # d
  BY <1>1, Zenon
<1> HIDE DEF I
<1>6. ASSUME NEW e, e \in Range(out) PROVE e \in Range(es) /\ e # es[d]
  <2>1. PICK i \in I : e = es[i]
    BY <1>2, <1>6, Zenon
  <2> QED BY <1>3, <1>4, <1>5, <2>1, Zenon
<1>7. ASSUME NEW e, e \in Range(es), e # es[d] PROVE e \in Range(out)
  <2>1. PICK i \in 1..Len(es) : e = es[i]
    BY <1>3, <1>7, Zenon
  <2>2. i \in I
    BY <1>5, <1>7, <2>1, Zenon
  <2> QED BY <1>2, <2>1, <2>2, Zenon
<1>8. Range(out) = Range(es) \ {es[d]}
  BY <1>6, <1>7, Zenon
<1> QED BY <1>2, <1>8, Zenon DEF out, I

\* A chronological slice starts with an oldest entry.
LEMMA HeadIsOldest ==
    ASSUME NEW es, NEW unused, NEW t, Sliced(es, unused, t), 1 \in 1..Len(es)
    PROVE  /\ es[1] \in S!Oldest(Range(es))
           /\ \A i \in 1..Len(es) : es[1].since <= es[i].since
<1>1. \A i \in 1..Len(es) : es[1].since <= es[i].since
  <2> SUFFICES ASSUME NEW i \in 1..Len(es) PROVE es[1].since <= es[i].since
    BY Zenon
  <2>1. es[1].since \in Int /\ Len(es) \in Nat
    BY SliceSet, Zenon
  <2>2. i = 1 \/ 1 < i
    BY <2>1
  <2>3. es[1].since <= es[1].since
    BY <2>1
  <2>4. 1 < i => es[1].since <= es[i].since
    BY Zenon DEF Sliced
  <2> QED BY <2>2, <2>3, <2>4, Zenon
<1>2. \A e : e \in Range(es) <=> \E i \in 1..Len(es) : e = es[i]
  BY SliceSet, Zenon
<1>3. \A f \in Range(es) : es[1].since <= f.since
  BY <1>1, <1>2, Zenon
<1>4. es[1] \in Range(es)
  BY <1>2, Zenon
<1> QED BY <1>1, <1>3, <1>4, Zenon DEF S!Oldest

LEMMA SetStart ==
    ASSUME NEW E, NEW token, NEW t
    PROVE  S!StartInflight(E, token, t)
             = IF Cardinality(E) < InflightCap
               THEN {E \cup {S!Entry(S!InflightID(token), t)}}
               ELSE {(E \ {e}) \cup {S!Entry(S!InflightID(token), t)} : e \in S!Oldest(E)}
<1>1. S!Cardinality(E) = Cardinality(E)
  BY Zenon DEF S!Cardinality, Cardinality
<1> QED BY <1>1, Zenon DEF S!StartInflight

\* A new build's entry goes to the end; at the cap the first one makes room.
LEMMA StartSliced ==
    ASSUME NEW es, NEW unused, unused \subseteq Tokens, NEW t \in Int, Sliced(es, unused, t),
           NEW token \in unused
    PROVE  /\ Sliced(StartInflight(es, token, t), unused \ {token}, t)
           /\ Range(StartInflight(es, token, t)) \in S!StartInflight(Range(es), token, t)
<1> DEFINE new == S!Entry(S!InflightID(token), t)
           app == Append(es, new)
           out == StartInflight(es, token, t)
           L == Len(es)
<1>1. /\ es \in Seq(SliceEntries) /\ L \in Nat /\ L <= InflightCap
      /\ Cardinality(Range(es)) = L
  BY SliceSet, Zenon DEF Sliced
<1>2. new \in SliceEntries /\ new.since = t /\ new.id = S!InflightID(token)
  <2>1. S!InflightID(token) \in Ids
    BY Zenon DEF Ids
  <2> QED BY <2>1, Zenon DEF SliceEntries, S!Entry
<1>3. out = capInflight(app)
  BY Zenon DEF StartInflight
<1> HIDE DEF new
<1>4. /\ app \in Seq(SliceEntries) /\ Len(app) = L + 1 /\ app[L + 1] = new
      /\ \A i \in 1..L : app[i] = es[i]
  BY <1>1, <1>2, AppendProperties
<1> HIDE DEF app, out
<1>5. \A i, j \in 1..(L + 1) : i < j => app[i].since <= app[j].since /\ app[i].id # app[j].id
  <2> SUFFICES ASSUME NEW i \in 1..(L + 1), NEW j \in 1..(L + 1), i < j
               PROVE  app[i].since <= app[j].since /\ app[i].id # app[j].id
    BY Zenon
  <2>1. i \in 1..L /\ (j \in 1..L \/ j = L + 1)
    BY <1>1
  <2>2. CASE j \in 1..L
    <3>1. es[i].since <= es[j].since /\ es[i].id # es[j].id
      BY <2>1, <2>2, Zenon DEF Sliced
    <3> QED BY <1>4, <2>1, <2>2, <3>1, Zenon
  <2>3. CASE j = L + 1
    <3>1. es[i].since <= t /\ es[i].id # S!InflightID(token)
      BY <2>1, Zenon DEF Sliced
    <3> QED BY <1>2, <1>4, <2>1, <2>3, <3>1, Zenon
  <2> QED BY <2>1, <2>2, <2>3, Zenon
<1>6. \A i \in 1..(L + 1) : app[i].since <= t
  <2> SUFFICES ASSUME NEW i \in 1..(L + 1) PROVE app[i].since <= t
    BY Zenon
  <2>1. i \in 1..L \/ i = L + 1
    BY <1>1
  <2>2. t <= t
    OBVIOUS
  <2>3. i \in 1..L => es[i].since <= t
    BY Zenon DEF Sliced
  <2> QED BY <1>2, <1>4, <2>1, <2>2, <2>3, Zenon
<1>7. \A i \in 1..(L + 1), u \in unused \ {token} : app[i].id # S!InflightID(u)
  <2> SUFFICES ASSUME NEW i \in 1..(L + 1), NEW u \in unused \ {token} PROVE app[i].id # S!InflightID(u)
    BY Zenon
  <2>1. i \in 1..L \/ i = L + 1
    BY <1>1
  <2>2. i \in 1..L => es[i].id # S!InflightID(u)
    BY Zenon DEF Sliced
  <2>3. S!InflightID(token) # S!InflightID(u)
    BY IdsDiffer, Zenon
  <2> QED BY <1>2, <1>4, <2>1, <2>2, <2>3, Zenon
<1>8. \A e : e \in Range(es) <=> \E i \in 1..L : e = es[i]
  BY SliceSet, Zenon
<1>9. CASE L < InflightCap
  <2>1. out = app
    <3>1. ~(Len(app) > InflightCap)
      BY <1>1, <1>4, <1>9, SliceAssumption
    <3> QED BY <1>3, <3>1, Zenon DEF capInflight
  <2>2. Len(app) <= InflightCap
    BY <1>1, <1>4, <1>9, SliceAssumption
  <2>3. Sliced(app, unused \ {token}, t)
    BY <1>4, <1>5, <1>6, <1>7, <2>2, Zenon DEF Sliced
  <2>4. \A e : e \in Range(app) <=> \E i \in 1..(L + 1) : e = app[i]
    <3>1. \A e : e \in Range(app) <=> \E i \in 1..Len(app) : e = app[i]
      BY <2>3, SliceSet, Zenon
    <3> QED BY <1>4, <3>1
  <2>5. Range(app) = Range(es) \cup {new}
    <3>1. \A i : i \in 1..(L + 1) <=> i \in 1..L \/ i = L + 1
      BY <1>1
    <3>2. \A e : e \in Range(app) <=> (\E i \in 1..L : e = app[i]) \/ e = app[L + 1]
      BY <2>4, <3>1, Zenon
    <3>3. \A e : (\E i \in 1..L : e = app[i]) <=> e \in Range(es)
      BY <1>4, <1>8, Zenon
    <3>4. \A e : e \in Range(app) <=> e \in Range(es) \/ e = new
      BY <1>4, <3>2, <3>3, Zenon
    <3> QED BY <3>4, Zenon
  <2>6. S!StartInflight(Range(es), token, t) = {Range(es) \cup {new}}
    <3>1. Cardinality(Range(es)) < InflightCap
      BY <1>1, <1>9, Zenon
    <3> QED BY <3>1, SetStart, Zenon DEF new
  <2> QED BY <2>1, <2>3, <2>5, <2>6, Zenon DEF out
<1>10. CASE ~(L < InflightCap)
  <2>1. L = InflightCap /\ 1 \in 1..L /\ Len(app) > InflightCap
    BY <1>1, <1>4, <1>10, SliceAssumption
  <2>2. out = Newest(app, InflightCap)
    BY <1>3, <2>1, Zenon DEF capInflight
  <2>3. /\ out \in Seq(SliceEntries) /\ Len(out) = L
        /\ \A k \in 1..L : out[k] = app[k + 1]
    <3>1. InflightCap \in Nat \ {0}
      BY SliceAssumption
    <3>2. /\ Newest(app, InflightCap) \in Seq(SliceEntries)
          /\ Len(Newest(app, InflightCap)) = IF Len(app) > InflightCap THEN InflightCap ELSE Len(app)
          /\ \A k \in 1..(IF Len(app) > InflightCap THEN InflightCap ELSE Len(app)) :
               Newest(app, InflightCap)[k]
                 = app[Len(app) - (IF Len(app) > InflightCap THEN InflightCap ELSE Len(app)) + k]
      BY <1>4, <3>1, NewestIs, Zenon
    <3>3. \A k \in 1..L : (L + 1) - L + k = k + 1
      BY <1>1
    <3>4. (IF Len(app) > InflightCap THEN InflightCap ELSE Len(app)) = L
      BY <2>1, Zenon
    <3>5. \A k \in 1..L : out[k] = app[(L + 1) - L + k]
      BY <1>4, <2>2, <3>2, <3>4, Zenon
    <3> QED BY <2>2, <3>2, <3>3, <3>4, <3>5, Zenon
  <2>4. Sliced(out, unused \ {token}, t)
    <3>1. \A k \in 1..L : k + 1 \in 1..(L + 1)
      BY <1>1
    <3>2. \A i, j \in 1..L : i < j => i + 1 < j + 1
      BY <1>1
    <3>3. \A i, j \in 1..L : i < j => out[i].since <= out[j].since /\ out[i].id # out[j].id
      <4> SUFFICES ASSUME NEW i \in 1..L, NEW j \in 1..L, i < j
                   PROVE  out[i].since <= out[j].since /\ out[i].id # out[j].id
        BY Zenon
      <4>1. i + 1 \in 1..(L + 1) /\ j + 1 \in 1..(L + 1) /\ i + 1 < j + 1
        BY <3>1, <3>2, Zenon
      <4>2. app[i + 1].since <= app[j + 1].since /\ app[i + 1].id # app[j + 1].id
        BY <1>5, <4>1, Zenon
      <4> QED BY <2>3, <4>2, Zenon
    <3>4. \A i \in 1..L : out[i].since <= t
      BY <1>6, <2>3, <3>1, Zenon
    <3>5. \A i \in 1..L, u \in unused \ {token} : out[i].id # S!InflightID(u)
      BY <1>7, <2>3, <3>1, Zenon
    <3> QED BY <1>1, <2>3, <3>3, <3>4, <3>5, Zenon DEF Sliced
  <2>5. \A e : e \in Range(out) <=> \E k \in 1..L : e = out[k]
    <3>1. \A e : e \in Range(out) <=> \E k \in 1..Len(out) : e = out[k]
      BY <2>4, SliceSet, Zenon
    <3> QED BY <2>3, <3>1
  <2>6. Range(out) = (Range(es) \ {es[1]}) \cup {new}
    <3>1. ASSUME NEW e, e \in Range(out) PROVE e \in (Range(es) \ {es[1]}) \cup {new}
      <4>1. PICK k \in 1..L : e = app[k + 1]
        BY <2>3, <2>5, <3>1, Zenon
      <4>2. k + 1 = L + 1 \/ (k + 1 \in 1..L /\ k + 1 # 1)
        BY <1>1
      <4>3. CASE k + 1 = L + 1
        BY <1>4, <4>1, <4>3, Zenon
      <4>4. CASE k + 1 \in 1..L /\ k + 1 # 1
        <5>1. es[k + 1].id # es[1].id
          BY <2>1, <4>4, SliceSet, Zenon
        <5> QED BY <1>4, <1>8, <4>1, <4>4, <5>1, Zenon
      <4> QED BY <4>2, <4>3, <4>4, Zenon
    <3>2. ASSUME NEW e, e \in Range(es), e # es[1] PROVE e \in Range(out)
      <4>1. PICK i \in 1..L : e = es[i]
        BY <1>8, <3>2, Zenon
      <4>2. i # 1
        BY <3>2, <4>1, Zenon
      <4>3. i - 1 \in 1..L /\ (i - 1) + 1 = i
        BY <1>1, <4>2
      <4>4. out[i - 1] = e
        BY <1>4, <2>3, <4>1, <4>3, Zenon
      <4> QED BY <2>5, <4>3, <4>4, Zenon
    <3>3. new \in Range(out)
      <4>1. L \in 1..L
        BY <1>1, <2>1
      <4> QED BY <1>4, <2>3, <2>5, <4>1, Zenon
    <3> QED BY <3>1, <3>2, <3>3, Zenon
  <2>7. es[1] \in S!Oldest(Range(es))
    BY <2>1, HeadIsOldest, Zenon
  <2>8. S!StartInflight(Range(es), token, t)
          = {(Range(es) \ {e}) \cup {new} : e \in S!Oldest(Range(es))}
    <3>1. ~(Cardinality(Range(es)) < InflightCap)
      BY <1>1, <1>10, Zenon
    <3> QED BY <3>1, SetStart, Zenon DEF new
  <2> QED BY <2>4, <2>6, <2>7, <2>8, Zenon DEF out
<1> QED BY <1>9, <1>10

\* The entry an unnamed release drops is the first one, whether or not some
\* are past the cutoff.
LEMMA DropUnnamed ==
    ASSUME NEW es, NEW unused, NEW t, Sliced(es, unused, t), NEW cutoff \in Int
    PROVE  /\ es = <<>> => dropIndex(es, "", cutoff) = 0
           /\ es # <<>> => 1 \in 1..Len(es) /\ dropIndex(es, "", cutoff) = 1
<1> DEFINE past == {i \in DOMAIN es : es[i].since < cutoff}
<1>1. CASE es = <<>>
  <2>1. dropIndex(es, "", cutoff) = 0
    BY <1>1, Zenon DEF dropIndex
  <2> QED BY <1>1, <2>1, Zenon
<1>2. CASE es # <<>>
  <2>1. 1 \in 1..Len(es) /\ DOMAIN es = 1..Len(es) /\ Len(es) \in Nat
    <3>1. es \in Seq(SliceEntries) /\ Len(es) \in Nat /\ DOMAIN es = 1..Len(es)
      BY SliceSet, Zenon
    <3>2. Len(es) # 0
      BY <1>2, <3>1, EmptySeq
    <3> QED BY <3>1, <3>2
  <2>2. CASE past = {}
    <3>1. dropIndex(es, "", cutoff) = 1
      BY <1>2, <2>2, Zenon DEF dropIndex
    <3> QED BY <1>2, <2>1, <3>1, Zenon
  <2>3. CASE past # {}
    <3>1. 1 \in past
      <4>1. PICK i \in 1..Len(es) : es[i].since < cutoff
        BY <2>1, <2>3, Zenon
      <4>2. es[1].since <= es[i].since
        BY <2>1, HeadIsOldest, Zenon
      <4>3. es[1].since \in Int /\ es[i].since \in Int
        BY <2>1, SliceSet, Zenon
      <4>4. es[1].since < cutoff
        BY <4>1, <4>2, <4>3
      <4> QED BY <2>1, <4>4, Zenon
    <3>2. \A j \in past : j \in Int /\ 1 <= j
      BY <2>1
    <3>3. dropIndex(es, "", cutoff) = CHOOSE i \in past : \A j \in past : i <= j
      BY <1>2, <2>3, Zenon DEF dropIndex, Min
    <3> HIDE DEF past
    <3>4. \A i \in past : (\A j \in past : i <= j) => i = 1
      BY <3>1, <3>2
    <3>5. (CHOOSE i \in past : \A j \in past : i <= j) = 1
      BY <3>1, <3>2, <3>4, Zenon
    <3> QED BY <1>2, <2>1, <3>3, <3>5, Zenon
  <2> QED BY <2>2, <2>3, Zenon
<1> QED BY <1>1, <1>2, Zenon

LEMMA IndexIsPositive == \A n \in Nat : \A i \in 1..n : i \in Nat /\ i # 0
OBVIOUS

\* A token drops the entry that carries its hash, or nothing.
LEMMA DropNamed ==
    ASSUME NEW es, NEW unused, NEW t, Sliced(es, unused, t), NEW token, token # "", NEW cutoff
    PROVE  LET d == dropIndex(es, token, cutoff)
           IN  \/ d = 0 /\ \A i \in 1..Len(es) : es[i].id # S!InflightID(token)
               \/ d \in 1..Len(es) /\ d # 0 /\ es[d].id = S!InflightID(token)
<1> DEFINE I == {i \in DOMAIN es : es[i].id = S!InflightID(token)}
<1>1. Len(es) \in Nat /\ DOMAIN es = 1..Len(es)
  BY SliceSet, Zenon
<1>2. dropIndex(es, token, cutoff) = IF I = {} THEN 0 ELSE CHOOSE x \in I : \A y \in I : x <= y
  BY Zenon DEF dropIndex, Min
<1>3. CASE I = {}
  <2>1. \A i \in 1..Len(es) : es[i].id # S!InflightID(token)
    BY <1>1, <1>3, Zenon
  <2> QED BY <1>2, <1>3, <2>1, Zenon
<1>4. CASE I # {}
  <2>1. I \subseteq Nat
    BY <1>1, IndexIsPositive, Zenon
  <2>2. \E x \in I : \A y \in I : x <= y
    <3> HIDE DEF I
    <3> QED BY <1>4, <2>1, LeastIndex, Zenon
  <2>3. dropIndex(es, token, cutoff) \in I
    <3> HIDE DEF I
    <3> QED BY <1>2, <1>4, <2>2, Zenon
  <2>4. \A i \in I : i # 0
    BY <1>1, IndexIsPositive, Zenon
  <2> QED BY <1>1, <2>3, <2>4, Zenon
<1> QED BY <1>3, <1>4, Zenon

\* What a release leaves of a slice.
LEMMA EndSliced ==
    ASSUME NEW es, NEW unused, NEW t, Sliced(es, unused, t), NEW token, NEW cutoff \in Int
    PROVE  LET ends == IF token = "" THEN S!EndOldest(Range(es)) ELSE S!EndInflight(Range(es), token)
           IN  /\ Sliced(endInflight(es, token, cutoff), unused, t)
               /\ IF dropIndex(es, token, cutoff) = 0
                  THEN ends = {}
                  ELSE Range(endInflight(es, token, cutoff)) \in ends
<1> DEFINE d == dropIndex(es, token, cutoff)
           out == endInflight(es, token, cutoff)
<1>1. \A e : e \in Range(es) <=> \E i \in 1..Len(es) : e = es[i]
  BY SliceSet, Zenon
<1>2. d = 0 => out = es
  BY Zenon DEF endInflight
<1>3. d # 0 => out = Sift(es, DOMAIN es \ {d})
  BY Zenon DEF endInflight
<1>4. d \in 1..Len(es) => /\ Sliced(Sift(es, DOMAIN es \ {d}), unused, t)
                          /\ Range(Sift(es, DOMAIN es \ {d})) = Range(es) \ {es[d]}
  <2> HIDE DEF d
  <2> QED BY RemoveSliced, Zenon
<1>5. CASE token = ""
  <2>1. CASE es = <<>>
    <3>1. d = 0
      BY <1>5, <2>1, DropUnnamed, Zenon
    <3>2. Range(es) = {}
      BY <2>1 DEF Range
    <3>3. S!EndOldest(Range(es)) = {}
      BY <3>2, Zenon DEF S!EndOldest, S!Oldest
    <3> HIDE DEF d, out
    <3>4. Sliced(out, unused, t)
      BY <1>2, <3>1, Zenon
    <3> QED BY <1>5, <3>1, <3>3, <3>4, Zenon DEF d, out
  <2>2. CASE es # <<>>
    <3>1. d = 1 /\ 1 \in 1..Len(es) /\ d # 0
      <4>1. d = 1 /\ 1 \in 1..Len(es)
        BY <1>5, <2>2, DropUnnamed, Zenon
      <4>2. Len(es) \in Nat
        BY SliceSet, Zenon
      <4>3. 1 # 0
        BY <4>1, <4>2, IndexIsPositive, Zenon
      <4> HIDE DEF d
      <4> QED BY <4>1, <4>3, Zenon
    <3>2. es[1] \in S!Oldest(Range(es))
      BY <3>1, HeadIsOldest, Zenon
    <3> HIDE DEF d, out
    <3>3. Sliced(out, unused, t) /\ Range(out) = Range(es) \ {es[1]}
      BY <1>3, <1>4, <3>1, Zenon
    <3>4. Range(out) \in S!EndOldest(Range(es))
      BY <3>2, <3>3, Zenon DEF S!EndOldest
    <3> QED BY <1>5, <3>1, <3>3, <3>4, Zenon DEF d, out
  <2> QED BY <2>1, <2>2, Zenon
<1>6. CASE token # ""
  <2>1. \/ d = 0 /\ \A i \in 1..Len(es) : es[i].id # S!InflightID(token)
        \/ d \in 1..Len(es) /\ d # 0 /\ es[d].id = S!InflightID(token)
    BY <1>6, DropNamed, Zenon
  <2>2. CASE d = 0 /\ \A i \in 1..Len(es) : es[i].id # S!InflightID(token)
    <3>1. S!EndInflight(Range(es), token) = {}
      <4>1. {f \in Range(es) : f.id = S!InflightID(token)} = {}
        <5>1. ASSUME NEW f \in Range(es) PROVE f.id # S!InflightID(token)
          <6>1. PICK i \in 1..Len(es) : f = es[i]
            BY <1>1, Zenon
          <6> QED BY <2>2, <6>1, Zenon
        <5> QED BY <5>1, Zenon
      <4> QED BY <4>1, Zenon DEF S!EndInflight
    <3> HIDE DEF d, out
    <3>2. Sliced(out, unused, t)
      BY <1>2, <2>2, Zenon
    <3> QED BY <1>6, <2>2, <3>1, <3>2, Zenon DEF d, out
  <2>3. CASE d \in 1..Len(es) /\ d # 0 /\ es[d].id = S!InflightID(token)
    <3> HIDE DEF d, out
    <3>1. Sliced(out, unused, t) /\ Range(out) = Range(es) \ {es[d]}
      BY <1>3, <1>4, <2>3, Zenon
    <3>2. es[d] \in {f \in Range(es) : f.id = S!InflightID(token)}
      BY <1>1, <2>3, Zenon
    <3>3. Range(out) \in S!EndInflight(Range(es), token)
      BY <3>1, <3>2, Zenon DEF S!EndInflight
    <3> QED BY <1>6, <2>3, <3>1, <3>3, Zenon DEF d, out
  <2> HIDE DEF d, out
  <2> QED BY <2>1, <2>2, <2>3, Zenon
<1> QED BY <1>5, <1>6, Zenon

\* The set model's view of a status.
AsSet(s) == [entries |-> Range(s.entries), count |-> s.count, last |-> s.last]

LEMMA AdoptAgrees ==
    ASSUME NEW s \in SliceStatus
    PROVE  Range(AdoptLegacyInflight(s).entries) = S!AdoptLegacyInflight(AsSet(s)).entries
<1> DEFINE a == AsSet(s)
<1>1. a.entries = Range(s.entries) /\ a.count = s.count /\ a.last = s.last
  BY Zenon DEF AsSet
<1>2. s.count \in Int /\ s.entries \in Seq(SliceEntries)
  BY Zenon DEF SliceStatus
<1>3. Range(s.entries) = {} <=> s.entries = <<>>
  <2>1. s.entries = <<>> => Range(s.entries) = {}
    BY DEF Range
  <2>2. s.entries # <<>> => 1 \in DOMAIN s.entries
    <3>1. s.entries # <<>> => Len(s.entries) \in Nat \ {0} /\ DOMAIN s.entries = 1..Len(s.entries)
      BY <1>2, EmptySeq, LenProperties
    <3> QED BY <3>1
  <2> QED BY <2>1, <2>2, Zenon DEF Range
<1>4. CASE ~Adopts(s)
  <2>1. AdoptLegacyInflight(s) = s
    BY <1>4, AdoptIs, Zenon
  <2>2. a.entries # {} \/ a.count <= 0 \/ a.last = NoTime
    <3>1. s.entries # <<>> \/ s.count <= 0 \/ s.last = NoTime
      BY <1>2, <1>4 DEF Adopts
    <3> QED BY <1>1, <1>3, <3>1, Zenon
  <2> HIDE DEF a
  <2>3. S!AdoptLegacyInflight(a) = a
    BY <2>2, Zenon DEF S!AdoptLegacyInflight
  <2> QED BY <1>1, <2>1, <2>3, Zenon DEF a
<1>5. CASE Adopts(s)
  <2> DEFINE n == Least(s.count, InflightCap)
             E == {S!Entry(S!AdoptedID(i), s.last) : i \in 1..n}
             m == IF a.count > InflightCap THEN InflightCap ELSE a.count
             F == {S!Entry(S!AdoptedID(i), a.last) : i \in 1..m}
  <2>1. AdoptLegacyInflight(s).entries = Adopted(s)
    BY <1>5, AdoptIs, Zenon
  <2>2. Range(Adopted(s)) = E
    BY Zenon DEF Range, Adopted
  <2>3. ~(a.entries # {} \/ a.count <= 0 \/ a.last = NoTime)
    <3>1. s.entries = <<>> /\ ~(s.count <= 0) /\ s.last # NoTime
      BY <1>2, <1>5 DEF Adopts
    <3> QED BY <1>1, <1>3, <3>1, Zenon
  <2>4. m = n
    <3>1. (IF s.count > InflightCap THEN InflightCap ELSE s.count) = Least(s.count, InflightCap)
      BY <1>2, SliceAssumption DEF Least
    <3> QED BY <1>1, <3>1, Zenon
  <2>5. F = E
    <3> HIDE DEF n, m
    <3> QED BY <1>1, <2>4, Zenon
  <2>6. S!AdoptLegacyInflight(a) = [a EXCEPT !.entries = F, !.count = m]
    <3>1. a.entries = {} /\ ~(a.count <= 0) /\ a.last # NoTime
      BY <2>3, Zenon
    <3> HIDE DEF a
    <3> QED BY <3>1, Zenon DEF S!AdoptLegacyInflight
  <2> HIDE DEF F, E, m, n
  <2>7. [a EXCEPT !.entries = F, !.count = m].entries = F
    BY Zenon DEF AsSet
  <2> QED BY <2>1, <2>2, <2>5, <2>6, <2>7, Zenon
<1> QED BY <1>4, <1>5, Zenon

\* What every status write of the routing API starts from.
LEMMA LiveAgrees ==
    ASSUME NEW s \in SliceStatus, NEW unused, NEW t \in Int,
           Sliced(s.entries, unused, t), s.last # NoTime => s.last <= t
    PROVE  /\ Sliced(live(s, t), unused, t)
           /\ Range(live(s, t)) = S!live(AsSet(s), t)
<1> DEFINE es == AdoptLegacyInflight(s).entries
<1>1. Sliced(es, unused, t)
  BY AdoptSliced, Zenon
<1>2. Range(es) = S!AdoptLegacyInflight(AsSet(s)).entries
  BY AdoptAgrees, Zenon
<1>3. CASE MaxBuildSeconds <= 0
  <2>1. live(s, t) = es
    BY <1>3, Zenon DEF live
  <2>2. S!live(AsSet(s), t) = S!AdoptLegacyInflight(AsSet(s)).entries
    BY <1>3, Zenon DEF S!live
  <2> HIDE DEF es
  <2> QED BY <1>1, <1>2, <2>1, <2>2, Zenon
<1>4. CASE ~(MaxBuildSeconds <= 0)
  <2>1. live(s, t) = ExpireInflight(es, t, MaxBuildSeconds)
    BY <1>4, Zenon DEF live
  <2>2. S!live(AsSet(s), t) = S!ExpireInflight(S!AdoptLegacyInflight(AsSet(s)).entries, t, MaxBuildSeconds)
    BY <1>4, Zenon DEF S!live
  <2> HIDE DEF es
  <2>3. /\ Sliced(ExpireInflight(es, t, MaxBuildSeconds), unused, t)
        /\ Range(ExpireInflight(es, t, MaxBuildSeconds)) = S!ExpireInflight(Range(es), t, MaxBuildSeconds)
    BY <1>1, ExpireSliced, Zenon
  <2> QED BY <1>2, <2>1, <2>2, <2>3, Zenon
<1> QED BY <1>3, <1>4, Zenon

LEMMA SliceInvAgrees == SliceInv => SliceAgreesWithSet
<1> SUFFICES ASSUME SliceInv PROVE SliceAgreesWithSet
  BY Zenon
<1> DEFINE as == AsSet(st)
           cut == now - MaxBuildSeconds
           es == live(st, now)
           ends(token) == IF token = "" THEN S!EndOldest(S!live(as, now))
                                        ELSE S!EndInflight(S!live(as, now), token)
<1>1. /\ now \in Int /\ tokens \subseteq Tokens /\ st \in SliceStatus
      /\ st.last # NoTime => st.last <= now
      /\ Sliced(st.entries, tokens, now)
  BY Zenon DEF SliceInv
<1>2. cut \in Int
  BY <1>1, SliceAssumption
<1>3. Sliced(es, tokens, now) /\ Range(es) = S!live(as, now)
  BY <1>1, LiveAgrees, Zenon
<1>4. Range(AdoptLegacyInflight(st).entries) = S!AdoptLegacyInflight(as).entries
  BY <1>1, AdoptAgrees, Zenon
<1>5. \A i, j \in DOMAIN st.entries : i < j => st.entries[i].since <= st.entries[j].since
  <2>1. DOMAIN st.entries = 1..Len(st.entries)
    BY <1>1, SliceSet, Zenon
  <2> QED BY <1>1, <2>1, Zenon DEF Sliced
<1> HIDE DEF es, as, cut
<1>6. ASSUME NEW token \in tokens
      PROVE  Range(StartInflight(es, token, now)) \in S!StartInflight(S!live(as, now), token, now)
  <2>1. Range(StartInflight(es, token, now)) \in S!StartInflight(Range(es), token, now)
    BY <1>1, <1>3, StartSliced, Zenon
  <2> QED BY <1>3, <2>1, Zenon
<1>7. ASSUME NEW token
      PROVE  IF dropIndex(es, token, cut) = 0 THEN ends(token) = {}
             ELSE Range(endInflight(es, token, cut)) \in ends(token)
  <2>1. IF dropIndex(es, token, cut) = 0
        THEN (IF token = "" THEN S!EndOldest(Range(es)) ELSE S!EndInflight(Range(es), token)) = {}
        ELSE Range(endInflight(es, token, cut))
               \in (IF token = "" THEN S!EndOldest(Range(es)) ELSE S!EndInflight(Range(es), token))
    BY <1>2, <1>3, EndSliced, Zenon
  <2>2. ends(token) = IF token = "" THEN S!EndOldest(Range(es)) ELSE S!EndInflight(Range(es), token)
    BY <1>3, Zenon
  <2> QED BY <2>1, <2>2, Zenon
<1> HIDE DEF ends
<1> QED BY <1>3, <1>4, <1>5, <1>6, <1>7, Zenon DEF SliceAgreesWithSet, es, as, cut, ends, AsSet

\* A later moment.
LEMMA SlicedAge ==
    ASSUME NEW es, NEW unused, NEW t \in Int, Sliced(es, unused, t)
    PROVE  Sliced(es, unused, t + 1)
<1>1. \A i \in 1..Len(es) : es[i].since <= t + 1
  <2> SUFFICES ASSUME NEW i \in 1..Len(es) PROVE es[i].since <= t + 1
    BY Zenon
  <2>1. es[i].since \in Int
    BY SliceSet, Zenon
  <2>2. es[i].since <= t
    BY Zenon DEF Sliced
  <2> QED BY <2>1, <2>2
<1> QED BY <1>1, Zenon DEF Sliced

\* Writing a slice that is within the cap.
LEMMA SetSliced ==
    ASSUME NEW s \in SliceStatus, NEW es, NEW unused, NEW t, Sliced(es, unused, t)
    PROVE  /\ SetInflight(s, es) \in SliceStatus
           /\ SetInflight(s, es).entries = es
           /\ SetInflight(s, es).last = s.last
<1>1. es \in Seq(SliceEntries) /\ Len(es) \in Nat /\ Len(es) <= InflightCap
  BY SliceSet, Zenon DEF Sliced
<1>2. ~(Len(es) > InflightCap) /\ Len(es) \in Int
  BY <1>1, SliceAssumption
<1>3. SetInflight(s, es) = With(s, es, Len(es))
  BY <1>2, Zenon DEF SetInflight, capInflight, With
<1>4. /\ With(s, es, Len(es)) \in SliceStatus
      /\ With(s, es, Len(es)).entries = es
      /\ With(s, es, Len(es)).last = s.last
  BY <1>1, <1>2, StatusWith, Zenon
<1> QED BY <1>3, <1>4, Zenon

LEMMA StatusUsed ==
    ASSUME NEW s \in SliceStatus, NEW t \in Int
    PROVE  /\ [s EXCEPT !.last = t] \in SliceStatus
           /\ [s EXCEPT !.last = t].entries = s.entries
           /\ [s EXCEPT !.last = t].last = t
<1> DEFINE Es == Seq(SliceEntries)
           L == Int \cup {NoTime}
<1>1. s \in [entries : Es, count : Int, last : L] /\ t \in L
  BY Zenon DEF SliceStatus
<1> HIDE DEF Es, L
<1>2. /\ [s EXCEPT !.last = t] \in [entries : Es, count : Int, last : L]
      /\ [s EXCEPT !.last = t].entries = s.entries
      /\ [s EXCEPT !.last = t].last = t
  BY <1>1, Zenon
<1> QED BY <1>2, Zenon DEF SliceStatus, Es, L

-----------------------------------------------------------------------------
(* The invariant.                                                          *)

LEMMA SliceInvInit == SliceInit => SliceInv
<1> SUFFICES ASSUME SliceInit PROVE SliceInv
  BY Zenon
<1>1. /\ st \in [entries : {<<>>}, count : 0..InflightCap + 1, last : {NoTime, 0}]
      /\ ring = <<>> /\ now = 0 /\ tokens = Tokens /\ started = <<>>
  BY Zenon DEF SliceInit
<1>2. st.entries = <<>> /\ st.last \in {NoTime, 0}
  BY <1>1, Zenon
<1>3. st \in SliceStatus
  <2>1. 0..InflightCap + 1 \subseteq Int /\ 0 \in Int
    BY SliceAssumption
  <2>2. <<>> \in Seq(SliceEntries)
    BY EmptySeq
  <2> QED BY <1>1, <2>1, <2>2, Zenon DEF SliceStatus
<1>4. st.last # NoTime => st.last <= now
  <2>1. 0 <= 0
    OBVIOUS
  <2> QED BY <1>1, <1>2, <2>1, Zenon
<1>5. ASSUME NEW T PROVE <<>> \in Seq(T) /\ Len(<<>>) = 0 /\ \A i \in 1..Len(<<>>) : FALSE
  BY EmptySeq
<1>6. Sliced(<<>>, tokens, now)
  <2>1. Len(<<>>) <= InflightCap
    BY <1>5, SliceAssumption
  <2> QED BY <1>5, <2>1, Zenon DEF Sliced
<1>7. Records(<<>>, <<>>, now)
  <2>1. Len(<<>>) <= RecentBuildTimesCap /\ 0 \in 0..Len(<<>>) /\ Len(<<>>) = Len(<<>>) - 0
    BY <1>5, CadenceAssumption
  <2>2. Chronological(<<>>)
    BY <1>5, Zenon DEF Chronological
  <2>3. \A i \in 1..0 : now - <<>>[i] > AdaptiveWindow
    OBVIOUS
  <2> QED BY <1>5, <2>1, <2>2, <2>3, RecordsIf, Zenon
<1>8. now \in Int
  BY <1>1
<1> QED BY <1>1, <1>2, <1>3, <1>4, <1>6, <1>7, <1>8, Zenon DEF SliceInv

\* Every call, sweep and tick keeps it, when the replicas' clocks agree.
LEMMA SliceInvNext ==
    ASSUME Skew = 0, SliceInv, [SliceNext]_sliceVars
    PROVE  SliceInv'
<1>1. /\ now \in Int /\ tokens \subseteq Tokens /\ st \in SliceStatus
      /\ st.last # NoTime => st.last <= now
      /\ Sliced(st.entries, tokens, now)
      /\ Records(ring, started, now)
  BY Zenon DEF SliceInv
<1>2. now <= now /\ \A t \in Clocks : t = now
  BY <1>1 DEF Clocks
<1> DEFINE adopted == AdoptLegacyInflight(st)
           es == live(st, now)
<1>3. /\ adopted \in SliceStatus /\ adopted.last = st.last
      /\ Sliced(adopted.entries, tokens, now)
  BY <1>1, AdoptIs, AdoptSliced, Zenon
<1>4. Sliced(es, tokens, now)
  BY <1>1, LiveAgrees, Zenon
<1> HIDE DEF es, adopted
<1>5. ASSUME NEW token \in Tokens, Start(token, now) PROVE SliceInv'
  <2> DEFINE out == StartInflight(es, token, now)
             s == SetInflight(adopted, out)
  <2>1. /\ token \in tokens /\ st' = [s EXCEPT !.last = now]
        /\ ring' = RecordBuildTime(ring, now) /\ started' = Append(started, now)
        /\ tokens' = tokens \ {token} /\ now' = now
    BY <1>5, Zenon DEF Start, es, adopted
  <2>2. Sliced(out, tokens \ {token}, now)
    BY <1>1, <1>4, <2>1, StartSliced, Zenon
  <2> HIDE DEF out
  <2>3. s \in SliceStatus /\ s.entries = out
    BY <1>3, <2>2, SetSliced, Zenon
  <2> HIDE DEF s
  <2>4. st' \in SliceStatus /\ st'.entries = out /\ st'.last = now
    BY <1>1, <2>1, <2>3, StatusUsed, Zenon
  <2>5. Records(ring', started', now)
    <3>1. Records(Sift(ring, InWindow(ring, now)), started, now)
      BY <1>1, PrunedRecords, Zenon
    <3>2. Records(Newest(Append(Sift(ring, InWindow(ring, now)), now), RecentBuildTimesCap),
                  Append(started, now), now)
      BY <1>1, <3>1, RecordsStart, Zenon
    <3> QED BY <2>1, <3>2, Zenon DEF RecordBuildTime
  <2>6. tokens' \subseteq Tokens
    BY <1>1, <2>1, Zenon
  <2>7. Sliced(st'.entries, tokens', now')
    BY <2>1, <2>2, <2>4, Zenon
  <2>8. Records(ring', started', now')
    BY <2>1, <2>5, Zenon
  <2> QED BY <1>1, <1>2, <2>1, <2>4, <2>6, <2>7, <2>8, Zenon DEF SliceInv
<1>6. ASSUME NEW token, End(token, now) PROVE SliceInv'
  <2> DEFINE cutoff == now - MaxBuildSeconds
             out == endInflight(es, token, cutoff)
             s == SetInflight(adopted, out)
  <2>1. st' = [s EXCEPT !.last = now] /\ UNCHANGED <<ring, now, tokens, started>>
    BY <1>6, Zenon DEF End, es, adopted
  <2>2. cutoff \in Int
    BY <1>1, SliceAssumption
  <2> HIDE DEF cutoff
  <2>3. Sliced(out, tokens, now)
    BY <1>4, <2>2, EndSliced, Zenon
  <2> HIDE DEF out
  <2>4. s \in SliceStatus /\ s.entries = out
    BY <1>3, <2>3, SetSliced, Zenon
  <2> HIDE DEF s
  <2>5. st' \in SliceStatus /\ st'.entries = out /\ st'.last = now
    BY <1>1, <2>1, <2>4, StatusUsed, Zenon
  <2> QED BY <1>1, <1>2, <2>1, <2>3, <2>5, Zenon DEF SliceInv
<1>7. ASSUME Sweep(now) PROVE SliceInv'
  <2> DEFINE out == ExpireInflight(adopted.entries, now, S!maxBuildAge)
             s == SetInflight(adopted, out)
  <2>1. st' = s /\ UNCHANGED <<ring, now, tokens, started>>
    BY <1>7, Zenon DEF Sweep, adopted
  <2>2. Sliced(out, tokens, now)
    BY <1>3, ExpireSliced, Zenon
  <2> HIDE DEF out
  <2>3. s \in SliceStatus /\ s.entries = out /\ s.last = st.last
    BY <1>3, <2>2, SetSliced, Zenon
  <2> HIDE DEF s
  <2> QED BY <1>1, <2>1, <2>2, <2>3, Zenon DEF SliceInv
<1>8. ASSUME SliceTick PROVE SliceInv'
  <2>1. now' = now + 1 /\ UNCHANGED <<st, ring, tokens, started>>
    BY <1>8, Zenon DEF SliceTick
  <2>2. now + 1 \in Int
    BY <1>1
  <2>3. st.last # NoTime => st.last <= now + 1
    <3>1. st.last \in Int \cup {NoTime}
      BY <1>1, Zenon DEF SliceStatus
    <3> DEFINE l == st.last
    <3> HIDE DEF l
    <3>2. l \in Int /\ l <= now => l <= now + 1
      BY <1>1
    <3> QED BY <1>1, <3>1, <3>2, Zenon DEF l
  <2>4. Sliced(st.entries, tokens, now + 1) /\ Records(ring, started, now + 1)
    BY <1>1, SlicedAge, RecordsAge, Zenon
  <2> QED BY <1>1, <2>1, <2>2, <2>3, <2>4, Zenon DEF SliceInv
<1>9. ASSUME UNCHANGED sliceVars PROVE SliceInv'
  <2>1. UNCHANGED <<st, ring, now, tokens, started>>
    BY <1>9, Zenon DEF sliceVars
  <2> QED BY <1>1, <2>1, Zenon DEF SliceInv
<1> QED BY <1>2, <1>5, <1>6, <1>7, <1>8, <1>9, Zenon DEF SliceNext

\* Whatever sequence of route, complete and sweep calls a status goes through,
\* with replicas' clocks in step, its slice stays chronological, within the
\* cap and free of duplicate ids, and its ring holds the builds of the window.
THEOREM SliceInvariant == ASSUME Skew = 0 PROVE SliceSpec => []SliceInv
BY SliceInvInit, SliceInvNext, PTL DEF SliceSpec

\* Each operation of inflight.go on the slice (adopt, expire, start, end by
\* token and without one) does to its entries what the set operation of
\* InflightSet does; in particular an unnamed release, which looks for the
\* first entry past the cutoff and else takes the first, takes an oldest one.
THEOREM SlicesAgreeWithSets == ASSUME Skew = 0 PROVE SliceSpec => []SliceAgreesWithSet
BY SliceInvariant, SliceInvAgrees, PTL

\* The idle window effectiveIdle grants is the spec's, times the builds of the
\* trailing window, capped: pruning the ring when a build is recorded, pruning
\* it again when it is counted, and bounding its length lose no build that
\* would lengthen the window.
THEOREM WindowFollowsCadence == ASSUME Skew = 0 PROVE SliceSpec => []WarmWindowFollowsCadence
<1>1. SliceInv => WarmWindowFollowsCadence
  BY RecordsEarnTheWindow, Zenon DEF SliceInv
<1> QED BY <1>1, SliceInvariant, PTL
=============================================================================
