-------------------------- MODULE VolumeGuardProofs --------------------------
(***************************************************************************)
(* The theorems about the two guards of a cache volume: the operator that  *)
(* grows it (AutoGrow) and the sidecar that prunes it and shuts down in    *)
(* order (Companion).  For any sizes, any factor above one, any sizes set  *)
(* by hand, any drain and any grace period.                                *)
(***************************************************************************)
EXTENDS AutoGrow, Companion, TLAPS

(* AutoGrow.                                                               *)

Claims == [req : Nat, cap : Nat, pending : BOOLEAN]
Projects == [gi : Nat, busy : BOOLEAN]
Passes == [pc : {"idle", "confirm", "bounce", "probe", "growGet", "growPut", "recordGet"},
           gi : Nat, late : BOOLEAN, base : Claims]

Typed ==
    /\ pvc \in Claims /\ pvcSeen \in Claims
    /\ bp \in Projects /\ bpSeen \in Projects
    /\ granted \in Nat /\ hand \in Nat
    /\ gates \subseteq {"bounce", "probe"}
    /\ rec \in Passes

\* The filesystem is never larger than what was granted, that never more than
\* was asked for, the recorded size never ahead of the claim, and a copy never
\* ahead of its object.
Ordered ==
    /\ pvc.cap <= granted /\ granted <= pvc.req
    /\ bp.gi <= pvc.req
    /\ pvcSeen.req <= pvc.req /\ bpSeen.gi <= bp.gi

\* What a pass of maybeAutoGrow knows at each of its steps.
PassOK ==
    /\ rec.base.req <= pvc.req
    /\ rec.pc \in {"growGet", "growPut"} => rec.gi <= MaxGi
    /\ rec.pc = "growPut" => rec.base.req < rec.gi
    /\ rec.pc = "recordGet" => rec.gi <= pvc.req
    /\ rec.pc = "bounce" /\ bp.busy => rec.late

GrowthInv == Typed /\ Ordered /\ PassOK /\ GrowthStaysInQuota

\* The target is a size, and never beyond the quota.
LEMMA TargetInQuota ==
  ASSUME NEW currentGi \in Nat, NEW over \in BOOLEAN
  PROVE  /\ autoGrowTarget(currentGi, over) \in Int
         /\ autoGrowTarget(currentGi, over) <= MaxGi
<1> DEFINE next == (currentGi * FactorNum + FactorDen - 1) \div FactorDen
<1>1. next \in Int
  <2>1. currentGi * FactorNum \in Int
    BY GrowAssumption
  <2>2. currentGi * FactorNum + FactorDen - 1 \in Int
    BY <2>1, GrowAssumption
  <2> QED BY <2>2, GrowAssumption
<1>2. autoGrowTarget(currentGi, over) =
        IF currentGi >= MaxGi \/ ~over THEN 0 ELSE IF next < MaxGi THEN next ELSE MaxGi
  BY DEF autoGrowTarget
<1> HIDE DEF next
<1> QED BY <1>1, <1>2, GrowAssumption

\* The inductive invariant holds when the project is created.
LEMMA GrowthInitKeeps == Init => GrowthInv
  BY GrowAssumption
  DEF Init, GrowthInv, Typed, Ordered, PassOK, GrowthStaysInQuota, Claims, Projects, Passes, Resting

\* The steps of a pass that write neither the claim nor the project keep what
\* the pass knows.
LEMMA DecisionSteps ==
  ASSUME GrowthInv,
         startBounce \/ confirmIdle \/ bounce \/ startProbe \/ probeFails \/ growGet
           \/ growConflict \/ NewLeader
  PROVE  GrowthInv'
<1> USE DEF GrowthInv, Typed, Ordered, PassOK, GrowthStaysInQuota, Claims, Projects, Passes,
        Resting, objects, copies, Goto, Done
<1>1. CASE startBounce
  BY <1>1 DEF startBounce
<1>2. CASE confirmIdle
  <2>1. Typed'
    BY <1>2, Zenon DEF confirmIdle
  <2>2. Ordered' /\ GrowthStaysInQuota'
    BY <1>2 DEF confirmIdle
  <2>3. PassOK'
    BY <1>2 DEF confirmIdle
  <2> QED BY <2>1, <2>2, <2>3
<1>3. CASE bounce
  BY <1>3 DEF bounce
<1>4. CASE startProbe
  BY <1>4, Zenon DEF startProbe
<1>5. CASE probeFails
  BY <1>5 DEF probeFails
<1>6. CASE growGet
  <2>1. Typed'
    BY <1>6, Zenon DEF growGet
  <2>2. Ordered' /\ GrowthStaysInQuota'
    BY <1>6 DEF growGet
  <2>3. PassOK'
    BY <1>6 DEF growGet
  <2> QED BY <2>1, <2>2, <2>3
<1>7. CASE growConflict
  <2>1. Typed'
    <3>1. CASE Goto("growGet")
      BY <1>7, <3>1 DEF growConflict
    <3>2. CASE Done
      BY <1>7, <3>2 DEF growConflict
    <3> QED BY <1>7, <3>1, <3>2 DEF growConflict
  <2>2. Ordered' /\ GrowthStaysInQuota'
    BY <1>7 DEF growConflict
  <2>3. PassOK'
    BY <1>7 DEF growConflict
  <2> QED BY <2>1, <2>2, <2>3
<1>8. CASE NewLeader
  BY <1>8 DEF NewLeader
<1> QED BY <1>1, <1>2, <1>3, <1>4, <1>5, <1>6, <1>7, <1>8

\* The decision after a probe asks for no more than the quota, and for more
\* than the claim it has read.
LEMMA ProbedStep ==
  ASSUME GrowthInv, NEW over \in BOOLEAN, probed(over)
  PROVE  GrowthInv'
<1> DEFINE currentGi == IF rec.base.req > rec.gi THEN rec.base.req ELSE rec.gi
           next == autoGrowTarget(currentGi, over)
<1>1. rec.base.req \in Nat /\ rec.gi \in Nat /\ currentGi \in Nat
  BY DEF GrowthInv, Typed, Passes, Claims
<1>2. next \in Int /\ next <= MaxGi
  BY <1>1, TargetInQuota
<1>3. /\ rec.pc = "probe"
      /\ \/ next > rec.base.req /\ rec' = [rec EXCEPT !.pc = "growGet", !.gi = next]
         \/ rec' = [rec EXCEPT !.pc = "recordGet", !.gi = rec.base.req]
         \/ rec' = Resting
      /\ UNCHANGED <<objects, copies, granted, up, gates, hand>>
  BY DEF probed, Done
<1> HIDE DEF next, currentGi
<1> USE DEF GrowthInv, Typed, Ordered, PassOK, GrowthStaysInQuota, Claims, Projects, Passes, Resting,
        objects, copies
<1>4. CASE next > rec.base.req /\ rec' = [rec EXCEPT !.pc = "growGet", !.gi = next]
  <2>1. next \in Nat
    BY <1>1, <1>2, <1>4
  <2>2. Typed'
    BY <1>3, <1>4, <2>1, Zenon
  <2>3. Ordered' /\ GrowthStaysInQuota'
    BY <1>3
  <2>4. PassOK'
    BY <1>2, <1>3, <1>4
  <2> QED BY <2>2, <2>3, <2>4
<1>5. CASE rec' = [rec EXCEPT !.pc = "recordGet", !.gi = rec.base.req]
  BY <1>1, <1>3, <1>5, Zenon
<1>6. CASE rec' = Resting
  BY <1>3, <1>6
<1> QED BY <1>3, <1>4, <1>5, <1>6

\* The two writes of a pass: the claim, then the spec.
LEMMA WriteSteps ==
  ASSUME GrowthInv, growPut \/ recordSpecGi
  PROVE  GrowthInv'
<1> USE DEF GrowthInv, Typed, Ordered, PassOK, GrowthStaysInQuota, Claims, Projects, Passes,
        Resting, objects, copies, Goto, Done
<1>1. CASE growPut
  <2>1. Typed'
    BY <1>1 DEF growPut
  <2>2. Ordered' /\ GrowthStaysInQuota'
    <3>1. /\ pvc'.req = rec.gi /\ pvc'.cap = pvc.cap /\ pvc.req < rec.gi /\ rec.gi <= MaxGi
          /\ UNCHANGED <<bp, copies, granted, hand>>
      BY <1>1 DEF growPut
    <3> QED BY <2>1, <3>1, GrowAssumption
  <2>3. PassOK'
    BY <1>1 DEF growPut
  <2> QED BY <2>1, <2>2, <2>3
<1>2. CASE recordSpecGi
  <2>1. Typed'
    <3> Resting \in Passes
      OBVIOUS
    <3> HIDE DEF Resting
    <3>1. rec' = Resting /\ UNCHANGED <<pvc, copies, granted, gates, hand>>
      BY <1>2 DEF recordSpecGi
    <3>2. bp' = [bp EXCEPT !.gi = rec.gi] \/ UNCHANGED bp
      BY <1>2 DEF recordSpecGi
    <3>3. bp' \in Projects
      BY <3>2
    <3> QED BY <3>1, <3>3
  <2>2. Ordered' /\ GrowthStaysInQuota'
    BY <1>2 DEF recordSpecGi
  <2>3. PassOK'
    BY <1>2 DEF recordSpecGi
  <2> QED BY <2>1, <2>2, <2>3
<1> QED BY <1>1, <1>2

\* Everybody else: the gates, informers, builds, the operator, storage, pods.
LEMMA EnvironmentSteps ==
  ASSUME GrowthInv,
         \/ \E g \in {"bounce", "probe"} : GateOpens(g)
         \/ SyncPVC \/ SyncBP \/ Route \/ Complete
         \/ \E n \in HandSizes : GrownByHand(n)
         \/ BackendExpands \/ (\E resized \in BOOLEAN : PodStarts(resized)) \/ PodStops
  PROVE  GrowthInv'
<1> USE DEF GrowthInv, Typed, Ordered, PassOK, GrowthStaysInQuota, Claims, Projects, Passes,
        objects, copies
<1>1. ASSUME NEW g \in {"bounce", "probe"}, GateOpens(g) PROVE GrowthInv'
  BY <1>1 DEF GateOpens
<1>2. CASE SyncPVC
  BY <1>2 DEF SyncPVC
<1>3. CASE SyncBP
  BY <1>3 DEF SyncBP
<1>4. CASE Route
  <2>1. Typed'
    BY <1>4, Zenon DEF Route
  <2>2. bp'.gi = bp.gi /\ bp'.busy /\ UNCHANGED <<pvc, copies, granted, hand>>
    BY <1>4, Zenon DEF Route
  <2>3. Ordered' /\ GrowthStaysInQuota'
    BY <2>2
  <2>4. PassOK'
    <3>1. /\ rec'.pc = rec.pc /\ rec'.gi = rec.gi /\ rec'.base = rec.base
          /\ rec'.late = (rec.pc = "bounce")
      BY <1>4, Zenon DEF Route
    <3> QED BY <2>2, <3>1, Zenon
  <2> QED BY <2>1, <2>3, <2>4
<1>5. CASE Complete
  <2>1. Typed'
    BY <1>5, Zenon DEF Complete
  <2>2. bp'.gi = bp.gi /\ ~bp'.busy /\ UNCHANGED <<pvc, copies, granted, rec, hand>>
    BY <1>5, Zenon DEF Complete
  <2>3. Ordered' /\ GrowthStaysInQuota'
    BY <2>2
  <2>4. PassOK'
    BY <2>2, Zenon
  <2> QED BY <2>1, <2>3, <2>4
<1>6. ASSUME NEW n \in HandSizes, GrownByHand(n) PROVE GrowthInv'
  BY <1>6, GrowAssumption DEF GrownByHand
<1>7. CASE BackendExpands
  <2>1. Typed'
    BY <1>7, Zenon DEF BackendExpands
  <2>2. Ordered' /\ GrowthStaysInQuota'
    BY <1>7 DEF BackendExpands
  <2>3. PassOK'
    BY <1>7 DEF BackendExpands
  <2> QED BY <2>1, <2>2, <2>3
<1>8. ASSUME NEW resized \in BOOLEAN, PodStarts(resized) PROVE GrowthInv'
  <2>1. Typed'
    BY <1>8, Zenon DEF PodStarts
  <2>2. Ordered' /\ GrowthStaysInQuota'
    BY <1>8 DEF PodStarts
  <2>3. PassOK'
    BY <1>8 DEF PodStarts
  <2> QED BY <2>1, <2>2, <2>3
<1>9. CASE PodStops
  BY <1>9 DEF PodStops
<1> QED BY <1>1, <1>2, <1>3, <1>4, <1>5, <1>6, <1>7, <1>8, <1>9

\* Every step keeps the inductive invariant.
LEMMA GrowthNextKeeps == GrowthInv /\ [Next]_vars => GrowthInv'
<1> SUFFICES ASSUME GrowthInv, [Next]_vars PROVE GrowthInv'
  OBVIOUS
<1>1. CASE UNCHANGED vars
  BY <1>1 DEF vars, objects, copies, GrowthInv, Typed, Ordered, PassOK, GrowthStaysInQuota
<1>2. CASE Next
  BY <1>2, DecisionSteps, ProbedStep, WriteSteps, EnvironmentSteps DEF Next, maybeAutoGrow
<1> QED BY <1>1, <1>2

\* The inductive invariant holds in every reachable state.
THEOREM GrowthInvariant == Spec => []GrowthInv
  BY GrowthInitKeeps, GrowthNextKeeps, PTL DEF Spec

\* The sizes stay in order: filesystem, granted, asked for; and the recorded
\* size stays behind the claim, which is written first (growPVC, recordSpecGi).
THEOREM SizesStayOrdered == Spec => []TypeOK
<1>1. GrowthInv => TypeOK
  BY DEF GrowthInv, Typed, Ordered, TypeOK, Claims, Projects
<1> QED BY <1>1, GrowthInvariant, PTL

\* A claim grows beyond AutoGrowMaxGi only by hand.
THEOREM QuotaHolds == Spec => []GrowthStaysInQuota
<1>1. GrowthInv => GrowthStaysInQuota
  BY DEF GrowthInv
<1> QED BY <1>1, GrowthInvariant, PTL

\* Neither the claim nor the recorded size is ever lowered, whatever copies
\* the leader, or two leaders in turn, have acted on.
THEOREM ShrinkNeverHappens == Spec => NeverShrinks
<1> DEFINE Grows == pvc'.req >= pvc.req /\ bp'.gi >= bp.gi
<1>1. GrowthInv /\ [Next]_vars => [Grows]_vars
  <2> SUFFICES ASSUME GrowthInv, Next PROVE Grows
    OBVIOUS
  <2> USE DEF GrowthInv, Typed, PassOK, Claims, Projects, Passes, objects, copies
  <2>1. CASE growPut
    BY <2>1 DEF growPut
  <2>2. CASE recordSpecGi
    BY <2>2 DEF recordSpecGi
  <2>3. ASSUME NEW n \in HandSizes, GrownByHand(n) PROVE Grows
    BY <2>3, GrowAssumption DEF GrownByHand
  <2>4. CASE Route \/ Complete
    BY <2>4 DEF Route, Complete
  <2>5. CASE BackendExpands
    BY <2>5 DEF BackendExpands
  <2>6. ASSUME NEW resized \in BOOLEAN, PodStarts(resized) PROVE Grows
    BY <2>6 DEF PodStarts
  <2>7. CASE UNCHANGED objects
    BY <2>7
  <2> QED
    BY <2>1, <2>2, <2>3, <2>4, <2>5, <2>6, <2>7, Zenon
    DEF Next, maybeAutoGrow, startBounce, confirmIdle, bounce, startProbe, probed, probeFails,
        growGet, growConflict, NewLeader, GateOpens, SyncPVC, SyncBP, PodStops
<1> QED BY <1>1, GrowthInvariant, PTL DEF Spec, NeverShrinks

\* A bounce cuts a build only if it was registered after the fresh read.
THEOREM BounceConfirmed == Spec => BouncesAreConfirmed
<1> DEFINE Confirmed == rec.pc = "bounce" /\ up /\ ~up' /\ bp.busy => rec.late
<1>1. GrowthInv /\ [Next]_vars => [Confirmed]_vars
  BY DEF GrowthInv, PassOK
<1> QED BY <1>1, GrowthInvariant, PTL DEF Spec, BouncesAreConfirmed

-----------------------------------------------------------------------------
(* Companion.                                                              *)

\* What run has done at each of its steps.
ShutdownOrder ==
    /\ main \in {"draining", "shutdown", "waiting", "exited"} => draining
    /\ main \in {"waiting", "exited"} => ~server
    /\ main = "exited" => loop = "done"

CompanionInv == deadline \in Nat /\ ShutdownOrder

\* Of a drain that has gone on for one period, a probe begun before it has been
\* answered once the kubelet has heard anything; after two periods none is left
\* and every answer is "not ready"; after three, one such answer was heard.
DrainHeard ==
    /\ main = "draining" =>
        /\ deadline <= DrainSeconds - 1 /\ heard => probe = "none"
        /\ deadline <= DrainSeconds - 2 => probe = "none"
        /\ deadline <= DrainSeconds - 2 /\ heard => ~ready
        /\ deadline <= DrainSeconds - 3 => ~ready
    /\ main \in {"shutdown", "waiting", "exited"} => probe = "none" /\ ~ready

LEMMA CompanionInitKeeps == CompanionInit => CompanionInv /\ DrainHeard
  BY DEF CompanionInit, CompanionInv, ShutdownOrder, DrainHeard

\* The order of run.
LEMMA MainKeeps ==
    ASSUME CompanionInv, serverDies \/ setDraining \/ drain \/ Shutdown \/ Exit \/ Kill \/ Restart
    PROVE  CompanionInv'
<1> USE DEF CompanionInv, ShutdownOrder, pod
<1>1. CASE serverDies
  BY <1>1 DEF serverDies
<1>2. CASE setDraining
  BY <1>2, TimeAssumption DEF setDraining
<1>3. CASE drain
  BY <1>3 DEF drain
<1>4. CASE Shutdown
  BY <1>4 DEF Shutdown
<1>5. CASE Exit
  BY <1>5 DEF Exit
<1>6. CASE Kill
  BY <1>6 DEF Kill
<1>7. CASE Restart
  BY <1>7 DEF Restart
<1> QED BY <1>1, <1>2, <1>3, <1>4, <1>5, <1>6, <1>7, Zenon

\* The loop and the handler only step in a process that is alive.
LEMMA ThreadsKeep ==
    ASSUME CompanionInv,
           \/ checkInodes \/ prune \/ pruneFails \/ loopStops
           \/ readyz \/ probeWorkers \/ probeUnanswered
    PROVE  CompanionInv'
<1> USE DEF CompanionInv, ShutdownOrder, pod, Alive
<1>1. CASE checkInodes
  BY <1>1 DEF checkInodes, Loop
<1>2. CASE prune
  BY <1>2 DEF prune
<1>3. CASE pruneFails
  BY <1>3 DEF pruneFails, Loop
<1>4. CASE loopStops
  BY <1>4 DEF loopStops, Loop
<1>5. CASE readyz
  <2>1. UNCHANGED <<main, deadline, server, draining, loop>>
    BY <1>5, Zenon DEF readyz, Answer
  <2> QED BY <2>1, Zenon
<1>6. CASE probeWorkers
  BY <1>6 DEF probeWorkers, Answer
<1>7. CASE probeUnanswered
  BY <1>7 DEF probeUnanswered, Answer
<1> QED BY <1>1, <1>2, <1>3, <1>4, <1>5, <1>6, <1>7, Zenon

LEMMA PodAroundKeeps ==
    ASSUME CompanionInv, BuildWrites \/ DaemonChanges \/ Sigterm \/ DaemonStops \/ Tick
    PROVE  CompanionInv'
<1> USE DEF CompanionInv, ShutdownOrder, process
<1>1. CASE BuildWrites
  BY <1>1 DEF BuildWrites
<1>2. CASE DaemonChanges
  BY <1>2 DEF DaemonChanges
<1>3. CASE Sigterm
  BY <1>3 DEF Sigterm, Alive
<1>4. CASE DaemonStops
  BY <1>4 DEF DaemonStops
<1>5. CASE Tick
  BY <1>5 DEF Tick
<1> QED BY <1>1, <1>2, <1>3, <1>4, <1>5, Zenon

LEMMA CompanionNextKeeps == CompanionInv /\ [CompanionNext]_companionVars => CompanionInv'
<1> SUFFICES ASSUME CompanionInv, [CompanionNext]_companionVars PROVE CompanionInv'
  OBVIOUS
<1>1. CASE UNCHANGED companionVars
  BY <1>1, Zenon DEF companionVars, pod, process, CompanionInv, ShutdownOrder
<1> QED BY <1>1, MainKeeps, ThreadsKeep, PodAroundKeeps, Zenon DEF CompanionNext

\* What the kubelet hears during a drain of three periods or more.
LEMMA DrainHeardKeeps ==
    ASSUME DrainSeconds >= 3
    PROVE  CompanionInv /\ DrainHeard /\ [CompanionNext]_companionVars => DrainHeard'
<1> SUFFICES ASSUME CompanionInv, DrainHeard, [CompanionNext]_companionVars PROVE DrainHeard'
  OBVIOUS
<1>0. /\ deadline \in Nat /\ DrainSeconds \in Nat
      /\ main \in {"draining", "shutdown", "waiting", "exited"} => draining
  BY TimeAssumption, Zenon DEF CompanionInv, ShutdownOrder
<1>1. ASSUME UNCHANGED <<deadline, ready, heard, probe>>,
             \/ main' = main
             \/ main' \in {"waiting", "exited"} /\ main \in {"shutdown", "waiting"}
             \/ main' \in {"serving", "killed"}
      PROVE  DrainHeard'
  BY <1>1 DEF DrainHeard
<1>2. CASE setDraining
  BY <1>0, <1>2 DEF setDraining, DrainHeard, pod
<1>3. CASE drain
  <2>1. /\ main = "draining" /\ deadline = 0 /\ main' = "shutdown"
        /\ UNCHANGED <<ready, probe>>
    BY <1>3, Zenon DEF drain, pod
  <2>2. 0 <= DrainSeconds - 2 /\ 0 <= DrainSeconds - 3
    BY <1>0
  <2> QED BY <2>1, <2>2 DEF DrainHeard
<1>4. CASE Restart
  BY <1>4 DEF Restart, DrainHeard
<1>5. CASE Tick
  BY <1>0, <1>5 DEF Tick, DrainHeard
<1>6. CASE readyz
  <2>1. CASE draining /\ Answer(FALSE)
    BY <2>1 DEF Answer, DrainHeard
  <2>2. CASE ~draining
    BY <1>0, <1>6, <2>2, Zenon DEF readyz, DrainHeard
  <2> QED BY <1>6, <2>1, <2>2, Zenon DEF readyz
<1>7. CASE probeWorkers
  BY <1>0, <1>7 DEF probeWorkers, Answer, DrainHeard
<1>8. CASE probeUnanswered
  BY <1>8 DEF probeUnanswered, Answer, DrainHeard
<1>9. CASE \/ serverDies \/ Shutdown \/ Exit \/ Kill
           \/ checkInodes \/ prune \/ pruneFails \/ loopStops
           \/ BuildWrites \/ DaemonChanges \/ Sigterm \/ DaemonStops
  BY <1>1, <1>9, Zenon
  DEF serverDies, Shutdown, Exit, Kill, checkInodes, prune, pruneFails, loopStops, Loop,
      BuildWrites, DaemonChanges, Sigterm, DaemonStops, pod, process
<1>10. CASE UNCHANGED companionVars
  BY <1>1, <1>10, Zenon DEF companionVars, pod, process
<1> QED BY <1>2, <1>3, <1>4, <1>5, <1>6, <1>7, <1>8, <1>9, <1>10, Zenon DEF CompanionNext

\* Every step of the sidecar keeps the order of its shutdown (run, companion's
\* main.go).
THEOREM CompanionInvariant == CompanionSpec => []CompanionInv
<1> QED BY CompanionInitKeeps, CompanionNextKeeps, PTL DEF CompanionSpec

\* A companion that exits by itself has ended its loop, raised the drain flag
\* and closed its server, whatever interleaving of ticks, prunes and probes led
\* there ("exiting 0 for clean volume detach").
THEOREM RestOnExit == CompanionSpec => []AtRestOnExit
<1>1. CompanionInv => AtRestOnExit
  BY DEF CompanionInv, ShutdownOrder, AtRestOnExit
<1> QED BY <1>1, CompanionInvariant, PTL

\* After a drain of three probe periods or more the kubelet has heard that the
\* pod is not ready, for any longer drain and although a probe under way when it
\* began may answer "ready" once more (readyz, drain).
THEOREM DrainNoticed == ASSUME DrainSeconds >= 3 PROVE CompanionSpec => []DrainIsNoticed
<1>1. CompanionInit => DrainHeard
  BY CompanionInitKeeps
<1>2. CompanionInv /\ DrainHeard /\ [CompanionNext]_companionVars => DrainHeard'
  BY DrainHeardKeeps
<1>3. DrainHeard => DrainIsNoticed
  BY DEF DrainHeard, DrainIsNoticed
<1> QED BY <1>1, <1>2, <1>3, CompanionInvariant, PTL DEF CompanionSpec
=============================================================================
