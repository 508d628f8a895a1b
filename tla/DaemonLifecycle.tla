--------------------------- MODULE DaemonLifecycle ---------------------------
(***************************************************************************)
(* One canonical daemon between the routes that want it up and the leader  *)
(* that takes it down: Reconcile of internal/controller, step by step,     *)
(* against /route and /complete on the other replicas, the work queue, the *)
(* StatefulSet controller and the node drains.                             *)
(*                                                                         *)
(* The inflight entries are one registry, written atomically: StatusStore  *)
(* shows that the status implements it.  Time is kept as ages.  Age k      *)
(* stands for a duration strictly between k and k+1 ticks, so no instant   *)
(* falls on a limit, and an age stops at the window it is compared with,   *)
(* so the clock needs no bound.                                            *)
(***************************************************************************)
EXTENDS Integers, FiniteSets, FiniteSetsExt

CONSTANTS
    Builds,     \* build slots; a released slot is used again by a new build
    Setups,     \* the kinds of project and cluster looked at
    MaxBuild,   \* --max-build-seconds, in ticks
    Grace,      \* minBuildGrace, in ticks
    Faults,     \* may reconciles fail, leaders change, pods and writes break?
    None        \* no such age, template or timer

ASSUME LifecycleAssumption ==
    /\ Setups \subseteq [tier : {"warm", "hot"}, idle : Nat, drains : BOOLEAN,
                         upgrades : BOOLEAN, dying : BOOLEAN, builds : Nat \cup {None}]
    /\ MaxBuild \in Nat \ {0} /\ Grace \in Nat
    /\ Faults \in BOOLEAN
    /\ None \notin Nat

VARIABLES
    setup,      \* the tier and its idle window in ticks; are nodes drained, is the
                \* operator upgraded, do clients disappear without /complete, how
                \* many builds come (None: no end)
    status,     \* [reg, last]: age of every build's entry, age of LastBuildTime
    statusSeen, \* the leader's informer copy of it
    sts,        \* the StatefulSet; tmpl = None while it does not exist
    stsSeen,    \* the leader's informer copy of it and of its readiness
    pdb,        \* does the disruption budget exist?
    pdbSeen,    \* the leader's informer copy of it
    want,       \* the pod template the operator renders
    pod,        \* the daemon's pod
    client,     \* [Builds -> what the client of the build is doing]
    rec,        \* the reconcile in progress
    queued,     \* is the project in the work queue?
    timer,      \* ticks left of the pending RequeueAfter
    left        \* how many builds are still to be routed

caches == <<statusSeen, stsSeen, pdbSeen>>
objects == <<status, sts, pdb>>
queue == <<queued, timer>>
clients == <<client, left>>
config == <<setup, want>>
vars == <<objects, caches, config, pod, clients, rec, queue>>

\* One tick older, up to the window.
Older(age, w) == IF age \in {None, w} THEN age ELSE age + 1

NoEntries == [b \in Builds |-> None]

\* ExpireInflight: the entries still younger than the window.
Unexpired(reg) == [b \in Builds |-> IF reg[b] = MaxBuild THEN None ELSE reg[b]]

Holds(reg) == {b \in Builds : reg[b] # None}

Live == Holds(Unexpired(status.reg))

NoSts == [tmpl |-> None, replicas |-> 0, held |-> None]

\* A daemon that was killed for its memory and came back is "scarred": it
\* serves, and its pod carries the OOMKilled mark until the pod is replaced.
Serves(state) == state \in {"ready", "scarred"}

\* A StatefulSet as it is read: with the readiness of its pod.
Reported(s, state) ==
    [tmpl |-> s.tmpl, replicas |-> s.replicas, held |-> s.held, ready |-> Serves(state)]

\* No reconcile is running.  The fields are: the live entries, those the
\* confirming read of a roll found, the replica count, whether the status
\* read is still current, whether its entries are to be rewritten, whether
\* the roll is held, and (a history) the builds registered since the read
\* that confirmed the decision.
Resting == [pc |-> "idle", live |-> NoEntries, roll |-> NoEntries, desired |-> 0,
            current |-> FALSE, swept |-> FALSE, held |-> FALSE, late |-> {}]

NoPod == [state |-> "none", tmpl |-> None]

\* A project that was just created: warm from birth.
Init ==
    /\ setup \in Setups
    /\ status = [reg |-> NoEntries, last |-> 0] /\ statusSeen = status
    /\ sts = NoSts /\ stsSeen = Reported(NoSts, "none")
    /\ pdb = FALSE /\ pdbSeen = FALSE
    /\ want = 0
    /\ pod = NoPod
    /\ client = [b \in Builds |-> "off"]
    /\ rec = Resting
    /\ queued = TRUE
    /\ timer = None
    /\ left = setup.builds

-----------------------------------------------------------------------------
(* Reconcile.                                                              *)

world == <<caches, config, pod, clients>>

Goto(r) == rec' = r

\* The elasticity decision on a status that was read.
desiredReplicas(st, live) ==
    IF setup.tier = "hot" \/ Holds(live) # {} \/ (st.last # None /\ st.last < setup.idle) THEN 1 ELSE 0

\* Get from the informer cache, ExpireInflight, desiredReplicas.  A priority
\* queue (one item per project) gives up the pending wake-up when it hands the
\* project out early, a delaying queue keeps it: both are allowed for.
recGet ==
    LET live == Unexpired(statusSeen.reg)
        des  == desiredReplicas(statusSeen, live)
    IN
    /\ rec.pc = "idle"
    /\ queued
    /\ queued' = FALSE
    /\ Goto([Resting EXCEPT !.pc = IF des = 0 THEN "confirm" ELSE "pdb",
                            !.live = live, !.desired = des,
                            !.current = statusSeen = status,
                            !.swept = live # statusSeen.reg])
    /\ timer' \in {timer, None}
    /\ UNCHANGED <<objects, world>>

\* Mutant: the informer cache is asked again instead of the API server.
recConfirm_Cached ==
    /\ rec.pc = "confirm"
    /\ Goto([rec EXCEPT !.pc = "pdb"])
    /\ UNCHANGED <<objects, queue, world>>

\* About to take the daemon down: freshInflightEntries, from the API server.
recConfirm ==
    LET fresh == Unexpired(status.reg) IN
    /\ rec.pc = "confirm"
    /\ Goto(IF Holds(fresh) = {} THEN [rec EXCEPT !.pc = "pdb"]
            ELSE [rec EXCEPT !.pc = "pdb", !.live = fresh, !.desired = 1, !.swept = TRUE])
    /\ UNCHANGED <<objects, queue, world>>

\* A disruption budget exactly while builds are live, as far as the cache of
\* budgets tells; a failed write is logged and forgotten.
ensurePDB ==
    LET busy == Holds(rec.live) # {} IN
    /\ rec.pc = "pdb"
    /\ \/ pdb' = IF busy = pdbSeen THEN pdb ELSE busy
       \/ Faults /\ UNCHANGED pdb
    /\ Goto([rec EXCEPT !.pc = "sts"])
    /\ UNCHANGED <<status, sts, queue, world>>

\* A cache that misses an existing StatefulSet makes Create fail, and the
\* reconcile with it.
createSts ==
    /\ rec.pc = "sts"
    /\ stsSeen.tmpl = None
    /\ IF sts.tmpl = None
       THEN /\ sts' = [NoSts EXCEPT !.tmpl = want, !.replicas = rec.desired]
            /\ Goto([rec EXCEPT !.pc = "status", !.late = {}])
            /\ UNCHANGED queued
       ELSE /\ Goto(Resting)
            /\ queued' = TRUE
            /\ UNCHANGED sts
    /\ UNCHANGED <<status, pdb, timer, world>>

\* A template change with no live build in sight asks the API server once
\* more.  What this read finds is known to ensureStatefulSet alone.
recRollConfirm ==
    /\ rec.pc = "sts"
    /\ stsSeen.tmpl \notin {None, want}
    /\ Holds(rec.live) = {}
    /\ Goto([rec EXCEPT !.pc = "patch", !.roll = Unexpired(status.reg),
                        !.late = IF rec.desired = 0 THEN @ ELSE {}])
    /\ UNCHANGED <<objects, queue, world>>

\* The entries the reconcile decides the roll on.
Known == IF rec.pc = "patch" THEN rec.roll ELSE rec.live

\* What the pods say is wrong with the daemon.
daemonFailure == pod.state \in {"wedged", "scarred"}

\* Mutant: no absolute cap on the hold.
holdRoll_Unbounded(live) ==
    /\ Holds(live) # {}
    /\ ~daemonFailure
    /\ Min({live[b] : b \in Holds(live)}) < Grace

\* Withhold a changed template from a daemon that serves builds, unless it is
\* wedged, its youngest build had its grace, or the hold lasted too long.
holdRoll(live) ==
    /\ Holds(live) # {}
    /\ ~daemonFailure
    /\ Min({live[b] : b \in Holds(live)}) < Grace
    /\ stsSeen.held = None \/ stsSeen.held < MaxBuild

\* The merge patch carries the fields that differ from the cached copy, with
\* no precondition.  Only the leader writes the spec, so taking the copy here
\* and not a step earlier loses nothing.
patchSts ==
    LET changed == stsSeen.tmpl # want
        held    == changed /\ holdRoll(Known)
        stamp   == IF ~held THEN None ELSE IF stsSeen.held = None THEN 0 ELSE stsSeen.held
    IN
    /\ stsSeen.tmpl # None
    /\ \/ rec.pc = "patch"
       \/ rec.pc = "sts" /\ (~changed \/ Holds(rec.live) # {})
    /\ sts' = [tmpl     |-> IF changed /\ ~held THEN want ELSE sts.tmpl,
               replicas |-> IF stsSeen.replicas = rec.desired THEN sts.replicas ELSE rec.desired,
               held     |-> IF stamp = stsSeen.held THEN sts.held ELSE stamp]
    /\ Goto([rec EXCEPT !.pc = "status", !.held = held, !.roll = NoEntries, !.late = {}])
    /\ UNCHANGED <<status, pdb, queue, world>>

\* Mutant: no poll of a warm daemon for its idle window.
Delays_NoIdlePoll(r) ==
    LET oldest == Max({r.live[b] : b \in Holds(r.live)}) IN
    (IF r.held \/ (r.desired = 1 /\ ~stsSeen.ready) THEN {1} ELSE {})
    \cup (IF Holds(r.live) # {} /\ oldest < MaxBuild THEN {MaxBuild - oldest} ELSE {})

\* The delays a reconcile asks to be woken after.  The polls (idle, scaling
\* and drain re-checks) are one tick; an entry's expiry is what is left of it.
Delays(r) ==
    LET oldest == Max({r.live[b] : b \in Holds(r.live)}) IN
    (IF r.held \/ (r.desired = 1 /\ (setup.tier = "warm" \/ ~stsSeen.ready)) THEN {1} ELSE {})
    \cup (IF Holds(r.live) # {} /\ oldest < MaxBuild THEN {MaxBuild - oldest} ELSE {})

\* Expired entries are swept by a status update, which conflicts when the
\* status moved since it was read; the error puts the project back.  Then the
\* wake-up: the queue keeps the earlier of two.
recFinish ==
    LET due == Delays(rec) \cup ({timer} \ {None}) IN
    /\ rec.pc = "status"
    /\ Goto(Resting)
    /\ IF rec.swept /\ ~rec.current
       THEN /\ queued' = TRUE
            /\ UNCHANGED <<status, timer>>
       ELSE /\ status' = IF rec.swept THEN [status EXCEPT !.reg = rec.live] ELSE status
            /\ timer' \in {IF due = {} THEN None ELSE Min(due)}
                            \cup (IF queued THEN {None} ELSE {})
            /\ UNCHANGED queued
    /\ UNCHANGED <<sts, pdb, world>>

wake ==
    /\ timer = 0
    /\ timer' = None
    /\ queued' = TRUE
    /\ UNCHANGED <<objects, rec, world>>

\* A call to the API server fails, or the leader changes: the new one lists
\* every project.
recFails ==
    /\ Faults
    /\ rec.pc # "idle"
    /\ Goto(Resting)
    /\ queued' = TRUE
    /\ timer' \in {timer, None}
    /\ UNCHANGED <<objects, world>>

\* A new release of the operator renders another template.
Upgrade ==
    /\ setup.upgrades
    /\ want = 0
    /\ want' = 1
    /\ Goto(Resting)
    /\ queued' = TRUE
    /\ timer' = None
    /\ UNCHANGED <<setup, objects, caches, pod, clients>>

-----------------------------------------------------------------------------
(* /route and /complete, on another replica than the leader.               *)

\* A status write outdates the copy of a reconcile in progress.
Outdated(r, new) ==
    IF r.pc = "idle" THEN r
    ELSE [r EXCEPT !.current = FALSE,
                   !.late = IF r.pc \in {"confirm", "status"} THEN @ ELSE @ \cup new]

NewRequest(b) ==
    /\ client[b] = "off"
    /\ status.reg[b] = None
    /\ left # 0
    /\ left' = IF left = None THEN None ELSE left - 1
    /\ client' = [client EXCEPT ![b] = "on"]

\* StartInflight and the stamp of LastBuildTime, in one status write.
Route(b) ==
    /\ NewRequest(b)
    /\ status' = [reg |-> [Unexpired(status.reg) EXCEPT ![b] = 0], last |-> 0]
    /\ Goto(Outdated(rec, {b}))
    /\ UNCHANGED <<sts, pdb, caches, config, pod, queue>>

\* The write failed for good; handleRoute goes on without it.
RouteUnregistered(b) ==
    /\ Faults
    /\ NewRequest(b)
    /\ UNCHANGED <<objects, caches, config, pod, rec, queue>>

\* /complete, or the deferred release of a route that timed out.  EndInflight
\* writes nothing when there is no live entry to release.
Finish(b) ==
    /\ client[b] # "off"
    /\ client' = [client EXCEPT ![b] = "off"]
    /\ IF b \in Live
       THEN /\ status' = [reg |-> [Unexpired(status.reg) EXCEPT ![b] = None], last |-> 0]
            /\ Goto(Outdated(rec, {}))
       ELSE UNCHANGED <<status, rec>>
    /\ UNCHANGED <<sts, pdb, caches, config, pod, queue, left>>

\* The client, or the replica that serves it, is gone before the release.
Vanish(b) ==
    /\ setup.dying
    /\ client[b] # "off"
    /\ client' = [client EXCEPT ![b] = "off"]
    /\ UNCHANGED <<objects, caches, config, pod, rec, queue, left>>

-----------------------------------------------------------------------------
(* Kubernetes: the StatefulSet controller, the kubelet, node drains and    *)
(* the watches that feed the informer caches.                              *)

kube == <<status, pdb, caches, config, clients, rec, queue>>

PodReady ==
    /\ pod.state = "none"
    /\ sts.replicas = 1
    /\ pod' = [state |-> "ready", tmpl |-> sts.tmpl]
    /\ UNCHANGED <<sts, kube>>

\* The controller deletes a pod that is in excess or of another template.
PodStops ==
    /\ pod.state # "none"
    /\ sts.replicas = 0 \/ pod.tmpl # sts.tmpl
    /\ pod' = NoPod
    /\ UNCHANGED <<sts, kube>>

PodBreaks ==
    /\ Faults
    /\ Serves(pod.state)
    /\ pod' = [pod EXCEPT !.state = "wedged"]
    /\ UNCHANGED <<sts, kube>>

PodRecovers ==
    /\ pod.state = "wedged"
    /\ \E state \in {"ready", "scarred"} : pod' = [pod EXCEPT !.state = state]
    /\ UNCHANGED <<sts, kube>>

\* An eviction, which a disruption budget refuses.
Drain ==
    /\ setup.drains
    /\ pod.state # "none"
    /\ ~pdb
    /\ pod' = NoPod
    /\ UNCHANGED <<sts, kube>>

\* A watch event reaches the leader's cache and enqueues the project.
Enqueue(cached, object) ==
    /\ cached # object
    /\ cached' = object
    /\ queued' = TRUE
    /\ UNCHANGED <<objects, config, pod, clients, rec, timer>>

SyncStatus == Enqueue(statusSeen, status) /\ UNCHANGED <<stsSeen, pdbSeen>>

\* Mutants: the controller does not own the StatefulSet, or the budget.
SyncPDB_NotOwned ==
    /\ pdbSeen # pdb
    /\ pdbSeen' = pdb
    /\ UNCHANGED <<objects, statusSeen, stsSeen, config, pod, clients, rec, queue>>

SyncSts == Enqueue(stsSeen, Reported(sts, pod.state)) /\ UNCHANGED <<statusSeen, pdbSeen>>

SyncPDB == Enqueue(pdbSeen, pdb) /\ UNCHANGED <<statusSeen, stsSeen>>

AgeRegistry(reg) == [b \in Builds |-> Older(reg[b], MaxBuild)]
AgeStatus(st) == [reg |-> AgeRegistry(st.reg), last |-> Older(st.last, setup.idle)]
AgeSts(s) == [s EXCEPT !.held = Older(@, MaxBuild)]

Tick ==
    /\ status' = AgeStatus(status) /\ statusSeen' = AgeStatus(statusSeen)
    /\ sts' = AgeSts(sts) /\ stsSeen' = AgeSts(stsSeen)
    /\ rec' = [rec EXCEPT !.live = AgeRegistry(@), !.roll = AgeRegistry(@)]
    /\ timer' = IF timer \in {None, 0} THEN timer ELSE timer - 1
    /\ UNCHANGED <<pdb, pdbSeen, config, pod, clients, queued>>

Reconcile ==
    \/ recGet \/ recConfirm \/ ensurePDB \/ createSts \/ recRollConfirm
    \/ patchSts \/ recFinish

Next ==
    \/ Reconcile \/ wake \/ recFails \/ Upgrade
    \/ \E b \in Builds : Route(b) \/ RouteUnregistered(b) \/ Finish(b) \/ Vanish(b)
    \/ PodReady \/ PodStops \/ PodBreaks \/ PodRecovers \/ Drain
    \/ SyncStatus \/ SyncSts \/ SyncPDB
    \/ Tick

\* The controller works off its queue, timers fire, watches deliver and the
\* StatefulSet controller acts.  Clients owe nothing.
Fairness ==
    /\ WF_vars(Reconcile \/ wake)
    /\ WF_vars(SyncStatus) /\ WF_vars(SyncSts) /\ WF_vars(SyncPDB)
    /\ WF_vars(PodReady \/ PodStops \/ PodRecovers)

Spec == Init /\ [][Next]_vars

\* No help from the clock: what happens, happens because of an event.
EventSpec == Spec /\ Fairness

\* Time passes too: a premise of the properties that need it.
TimePasses == WF_vars(Tick)

-----------------------------------------------------------------------------
(* Properties.                                                             *)

ScaledDown == sts.replicas = 1 /\ sts'.replicas = 0
Rolled == sts.tmpl # None /\ sts'.tmpl # sts.tmpl

\* Scaling to zero, and rolling a daemon believed idle, never hit a build the
\* API server already knew at the reconcile's confirming read, however stale
\* the informer caches were: only a build registered after that read is cut.
TakedownsAreConfirmed ==
    [][ScaledDown \/ (Rolled /\ Holds(Known) = {}) => Live \subseteq rec.late]_vars

\* architecture.md: "scale-to-zero [...] hold[s] off while a build is in
\* flight".
ScaleToZeroHoldsOff == [][ScaledDown => Live = {}]_vars

\* ensureStatefulSet: "a daemon serving builds is never scaled down" while
\* its roll is held because it serves builds.
HeldDaemonIsNotScaledDown == [][ScaledDown => ~rec'.held]_vars

\* minBuildGrace: "a forced roll NEVER severs a build younger than this".
ForcedRollSparesYoungBuilds ==
    [][Rolled => \A b \in Holds(Known) : Known[b] >= Grace]_vars

\* holdRoll "refuses to hold when the daemon is WEDGED [...] rather than merely
\* not-ready": one that serves is not rolled under a build in its grace before
\* the hold has lasted its full window.
ServingDaemonIsNotRolledEarly ==
    [][Rolled /\ Serves(pod.state) /\ stsSeen.held # MaxBuild
            => \A b \in Holds(Known) : Known[b] >= Grace]_vars

\* ensureStatefulSet: "so the roll always lands".  It does, even when builds
\* follow each other without a gap and clients vanish: the StatefulSet comes to
\* the template the operator renders, whenever that changes.
RollLands == TimePasses => []<>(sts.tmpl \in {None, want})

\* A build that stays registered gets a ready daemon under a disruption budget from
\* events alone, with the clock standing still: no stale copy of the status, of the
\* StatefulSet or of the budget leaves it at zero or open to a node drain.
DaemonComesUp ==
    \A b \in Builds : []<>((Serves(pod.state) /\ pdb) \/ b \notin Live)

\* Once no more builds are routed, a warm daemon ends at zero and without a
\* budget, whatever was leaked, even when the last entry leaves by expiring,
\* "which writes nothing and wakes nobody".
QuietProjectGoesDown ==
    TimePasses => (<>[](setup.tier = "warm" /\ left = 0)
                    => <>[](sts.replicas = 0 /\ pod.state = "none" /\ ~pdb))
=============================================================================
