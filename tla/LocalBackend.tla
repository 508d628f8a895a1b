---------------------------- MODULE LocalBackend ----------------------------
(***************************************************************************)
(* One project of the single-host backend (internal/provisioner/local):    *)
(* the routes that provision its Incus instance, the loop that stops it,   *)
(* and the restarts that forget everything but the instance; and the       *)
(* snapshots of its dataset, from which a fork or clone, the child, is     *)
(* seeded.  The mutex covers the in-memory state only; every incus and zfs *)
(* command runs outside it.                                                *)
(*                                                                         *)
(* Ages are kept as in DaemonLifecycle: age k is a duration strictly       *)
(* between k and k+1 ticks, and stops at the window it is compared with.   *)
(* The child's own builds and idle stop are those of any project.          *)
(***************************************************************************)
EXTENDS Integers, FiniteSets

CONSTANTS
    Builds,     \* build slots; a slot is used again by a new build
    Idle,       \* IdleTimeout, in ticks
    MaxBuild,   \* MaxBuildSeconds, in ticks
    Every,      \* SnapshotEvery, in ticks
    Keep,       \* KeepSnapshots, 0 to keep them all
    MaxSnaps,   \* bound on snapshots taken
    Quota,      \* bound: how many builds are routed where nothing fails
    None        \* no such age, state or limit

\* projectState: an entry's, and the last build's, age; the snapshot that is
\* the seed, and its age.
States == [repo : BOOLEAN, inflight : [Builds -> Nat \cup {None}], lastBuild : Nat \cup {None},
           lastSnap : Nat \cup {None}, snapAge : Nat]

ASSUME LocalAssumption ==
    /\ Idle \in Nat /\ MaxBuild \in Nat \ {0} /\ Every \in Nat
    /\ Keep \in Nat /\ MaxSnaps \in Nat
    /\ Quota \in Nat
    /\ None \notin Nat \cup States

VARIABLES
    faults, \* may incus commands fail and buildd restart?  Never changes
    seeds,  \* are snapshots taken and a child routed?  Never changes
    st,     \* projectState, None before the first touch
    inst,   \* the instance: [state, disk]
    route,  \* [Builds -> where the handler, then the client, of the build is]
    rec,    \* the Reconcile pass
    zfs,    \* [snaps, made]: snapshots, numbered as taken, and their count
    child,  \* [pc, seed, data, inst]: the child's Ensure, dataset and instance
    left    \* how many builds are still to be routed; None for no end

scene == <<faults, seeds>>

vars == <<scene, st, inst, route, rec, zfs, child, left>>

NoEntries == [b \in Builds |-> None]

\* stateFor mints it with the key alone: no repo.
bareState == [repo |-> FALSE, inflight |-> NoEntries, lastBuild |-> None,
              lastSnap |-> None, snapAge |-> Every]

stateFor == IF st = None THEN bareState ELSE st

Holds(s) == IF s = None THEN {} ELSE {b \in Builds : s.inflight[b] # None}

Resting == [pc |-> "idle", late |-> {}, due |-> FALSE, age |-> 0, new |-> None, todo |-> {}]

Init ==
    /\ st = None
    /\ inst = [state |-> "absent", disk |-> FALSE]
    /\ route = [b \in Builds |-> "off"]
    /\ rec = Resting
    /\ faults \in BOOLEAN
    /\ seeds \in BOOLEAN /\ (seeds => faults)
    /\ zfs = [snaps |-> {}, made |-> 0]
    /\ child = [pc |-> "off", seed |-> None, data |-> None, inst |-> "absent"]
    /\ left = IF ~faults THEN Quota ELSE IF seeds THEN 1 ELSE None

-----------------------------------------------------------------------------
(* Ensure, on behalf of a route.                                           *)

At(b, pc) == route[b] = pc
Goto(b, pc) == route' = [route EXCEPT ![b] = pc]

NewRequest(b) ==
    /\ At(b, "off")
    /\ left # 0
    /\ left' = IF left = None THEN None ELSE left - 1
    /\ Goto(b, "ensure")
    /\ UNCHANGED <<scene, zfs, child, st, inst, rec>>

\* Mutant: a state that exists is taken as it is.
ensureState_NoHeal(b) ==
    /\ At(b, "ensure")
    /\ st' = IF st = None THEN [bareState EXCEPT !.repo = TRUE] ELSE st
    /\ Goto(b, "lookup")
    /\ UNCHANGED <<scene, zfs, child, inst, rec, left>>

\* The state is created, or a bare one is healed.
ensureState(b) ==
    /\ At(b, "ensure")
    /\ st' = [stateFor EXCEPT !.repo = TRUE]
    /\ Goto(b, "lookup")
    /\ UNCHANGED <<scene, zfs, child, inst, rec, left>>

\* InstanceExists; the CLI takes a failing command for "absent".
InstanceExists(b) ==
    /\ At(b, "lookup")
    /\ \/ Goto(b, IF inst.state = "absent" THEN "init" ELSE "running")
       \/ faults /\ Goto(b, "init")
    /\ UNCHANGED <<scene, zfs, child, st, inst, rec, left>>

Running(b) ==
    /\ At(b, "running")
    /\ Goto(b, IF inst.state = "running" THEN "register" ELSE "start")
    /\ UNCHANGED <<scene, zfs, child, st, inst, rec, left>>

\* incus start, of an instance found stopped or of the one just created.
Start(b) ==
    /\ route[b] \in {"start", "boot"}
    /\ inst.state = "stopped"
    /\ inst' = [inst EXCEPT !.state = "running"]
    /\ Goto(b, "register")
    /\ UNCHANGED <<scene, zfs, child, st, rec, left>>

\* Launch, first command: incus init, after the dataset was ensured.
LaunchInit(b) ==
    /\ At(b, "init")
    /\ inst.state = "absent"
    /\ inst' = [state |-> "stopped", disk |-> FALSE]
    /\ Goto(b, "attach")
    /\ UNCHANGED <<scene, zfs, child, st, rec, left>>

\* Launch, second command: the dataset is attached as the cache disk.
LaunchAttach(b) ==
    /\ At(b, "attach")
    /\ inst' = [inst EXCEPT !.disk = TRUE]
    /\ Goto(b, "boot")
    /\ UNCHANGED <<scene, zfs, child, st, rec, left>>

\* incus init of a name that exists, incus start of a running instance.
Refused(b) ==
    \/ At(b, "init") /\ inst.state # "absent"
    \/ route[b] \in {"start", "boot"} /\ inst.state = "running"

\* An incus command fails and Ensure returns the error: 500.
EnsureFails(b) ==
    /\ Refused(b) \/ (faults /\ route[b] \in {"running", "start", "init", "attach", "boot"})
    /\ Goto(b, "off")
    /\ UNCHANGED <<scene, zfs, child, st, inst, rec, left>>

\* The request is cancelled while incus start runs: the command is killed and
\* Ensure fails, the instance comes up all the same.
StartCancelled(b) ==
    /\ faults
    /\ route[b] \in {"start", "boot"}
    /\ inst.state = "stopped"
    /\ inst' = [inst EXCEPT !.state = "running"]
    /\ Goto(b, "off")
    /\ UNCHANGED <<scene, zfs, child, st, rec, left>>

-----------------------------------------------------------------------------
(* The rest of the handlers.                                               *)

Released(s, b) == [s EXCEPT !.inflight[b] = None, !.lastBuild = 0]

StartInflight(b) ==
    /\ At(b, "register")
    /\ st' = [stateFor EXCEPT !.inflight[b] = 0, !.lastBuild = 0]
    /\ rec' = [rec EXCEPT !.late = @ \cup {b}]
    /\ Goto(b, "wait")
    /\ UNCHANGED <<scene, zfs, child, inst, left>>

\* Ready or WaitReady finds the instance running.
Served(b) ==
    /\ At(b, "wait")
    /\ inst.state = "running"
    /\ Goto(b, "served")
    /\ UNCHANGED <<scene, zfs, child, st, inst, rec, left>>

\* EndInflight: nothing is written, beyond a bare state, for an entry that is
\* not there.
endInflight(b) ==
    st' = IF b \in Holds(st) THEN Released(st, b) ELSE stateFor

\* 504 or 499: the deferred release.
WaitFails(b) ==
    /\ At(b, "wait")
    /\ faults \/ inst.state # "running"
    /\ endInflight(b)
    /\ Goto(b, "off")
    /\ UNCHANGED <<scene, zfs, child, inst, rec, left>>

Complete(b) ==
    /\ At(b, "served")
    /\ endInflight(b)
    /\ Goto(b, "off")
    /\ UNCHANGED <<scene, zfs, child, inst, rec, left>>

\* A cancelled job: /complete never comes.
Vanish(b) ==
    /\ At(b, "served")
    /\ Goto(b, "off")
    /\ UNCHANGED <<scene, zfs, child, st, inst, rec, left>>

-----------------------------------------------------------------------------
(* Reconcile, driven by the ticker of Run.                                 *)

\* Mutant: an entry pins for ever.
Unexpired_Never(s) == s

\* ExpireInflight.
Unexpired(s) ==
    [s EXCEPT !.inflight = [b \in Builds |-> IF @[b] = MaxBuild THEN None ELSE @[b]]]

\* Mutant: only the last activity counts.
idleProject_Unpinned(s) == s.lastBuild = Idle

idleProject(s) == Holds(s) = {} /\ s.lastBuild = Idle

\* A canonical project that has seen a build; lastSnapAt starts at zero.
snapshotDue(s) ==
    /\ seeds /\ zfs.made < MaxSnaps
    /\ s.lastBuild # None
    /\ s.snapAge = Every

\* The stops come first, then the snapshots.
AfterStops(due) == IF due THEN "snap" ELSE "idle"

\* The locked pass: expiry, then the choice of what to stop and to snapshot.
recPass ==
    /\ rec.pc = "idle"
    /\ st # None
    /\ LET s == Unexpired(st) IN
       /\ st' = s
       /\ rec' = [Resting EXCEPT !.pc  = IF idleProject(s) THEN "running"
                                         ELSE AfterStops(snapshotDue(s)),
                                 !.due = snapshotDue(s)]
    /\ UNCHANGED <<scene, zfs, child, inst, route, left>>

recRunning ==
    /\ rec.pc = "running"
    /\ rec' = [rec EXCEPT !.pc = IF inst.state = "running" THEN "stop" ELSE AfterStops(rec.due),
                          !.late = IF inst.state = "running" THEN @ ELSE {}]
    /\ UNCHANGED <<scene, zfs, child, st, inst, route, left>>

\* incus stop; a failure is logged.
recStop ==
    /\ rec.pc = "stop"
    /\ \/ inst' = [inst EXCEPT !.state = "stopped"]
       \/ faults /\ UNCHANGED inst
    /\ rec' = [rec EXCEPT !.pc = AfterStops(rec.due), !.late = {}]
    /\ UNCHANGED <<scene, zfs, child, st, route, left>>

\* zfs snapshot, named after the time of the pass; a failure ends it.
recSnapshot ==
    /\ rec.pc = "snap"
    /\ \/ LET n == zfs.made + 1 IN
          /\ zfs' = [snaps |-> zfs.snaps \cup {n}, made |-> n]
          /\ rec' = [rec EXCEPT !.pc = "record", !.new = n]
       \/ rec' = Resting /\ UNCHANGED zfs
    /\ UNCHANGED <<scene, child, st, inst, route, left>>

\* It becomes the seed, unless the project was forgotten meanwhile.
recRecord ==
    /\ rec.pc = "record"
    /\ st' = IF st = None THEN None ELSE [st EXCEPT !.lastSnap = rec.new, !.snapAge = rec.age]
    /\ rec' = [rec EXCEPT !.pc = "list"]
    /\ UNCHANGED <<scene, zfs, child, inst, route, left>>

Newest(S, k) == {n \in S : Cardinality({m \in S : m > n}) < k}

\* The snapshots past the newest Keep.
Surplus(S) == IF Keep = 0 THEN {} ELSE S \ Newest(S, Keep)

\* ListSnapshots, oldest first; a failure ends the pass.
recList ==
    /\ rec.pc = "list"
    /\ rec' \in {Resting, [rec EXCEPT !.pc = "destroy", !.todo = Surplus(zfs.snaps)]}
    /\ UNCHANGED <<scene, zfs, child, st, inst, route, left>>

\* zfs destroy of the next one, oldest first.  It fails for a snapshot with a
\* clone, and may fail otherwise; the failure is logged.
recDestroy ==
    /\ rec.pc = "destroy"
    /\ IF rec.todo = {}
       THEN rec' = Resting /\ UNCHANGED zfs
       ELSE \E n \in rec.todo :
              /\ \A m \in rec.todo : n <= m
              /\ rec' = [rec EXCEPT !.todo = @ \ {n}]
              /\ \/ child.data # n /\ zfs' = [zfs EXCEPT !.snaps = @ \ {n}]
                 \/ UNCHANGED zfs
    /\ UNCHANGED <<scene, child, st, inst, route, left>>

Reconcile ==
    \/ recPass \/ recRunning \/ recStop
    \/ recSnapshot \/ recRecord \/ recList \/ recDestroy

-----------------------------------------------------------------------------
(* Ensure of a fork, or Fanout's of a clone.                               *)

NoSnapshot == 0   \* latestSnapshot's "", and the origin of an empty dataset
Unlisted == -1    \* the "" of a list that failed

childRequest ==
    /\ seeds
    /\ child.pc = "off"
    /\ child' = [child EXCEPT !.pc = "lookup"]
    /\ UNCHANGED <<scene, zfs, st, inst, route, rec, left>>

childLookup ==
    /\ child.pc = "lookup"
    /\ \/ child' = [child EXCEPT !.pc = IF child.inst = "absent" THEN "seed" ELSE "start"]
       \/ child' = [child EXCEPT !.pc = "seed"]
    /\ UNCHANGED <<scene, zfs, st, inst, route, rec, left>>

\* Mutant: only the in-memory hint is asked.
latestSnapshot_HintOnly ==
    {IF st # None /\ st.lastSnap # None THEN st.lastSnap ELSE NoSnapshot}

\* The in-memory hint, else what ZFS lists; a failing list reads as none.
latestSnapshot ==
    IF st # None /\ st.lastSnap # None THEN {st.lastSnap}
    ELSE {Unlisted} \cup (IF zfs.snaps = {} THEN {NoSnapshot} ELSE Newest(zfs.snaps, 1))

childSeed ==
    /\ child.pc = "seed"
    /\ \E n \in latestSnapshot : child' = [child EXCEPT !.pc = "data", !.seed = n]
    /\ UNCHANGED <<scene, zfs, st, inst, route, rec, left>>

\* zfs clone is refused for a dataset that exists and a snapshot that is gone.
Clonable(n) == child.data = None /\ n \in zfs.snaps

EnsureDataset(d) == IF d = None THEN NoSnapshot ELSE d

\* seedDataset.
childData ==
    /\ child.pc = "data"
    /\ IF child.seed \in {NoSnapshot, Unlisted}
       THEN child' = [child EXCEPT !.pc = "launch", !.seed = None,
                                   !.data = EnsureDataset(@)]
       ELSE /\ Clonable(child.seed)
            /\ child' = [child EXCEPT !.pc = "launch", !.seed = None, !.data = child.seed]
    /\ UNCHANGED <<scene, zfs, st, inst, route, rec, left>>

\* Launch, or the start of an instance that exists.  A launch that fails may
\* leave the instance stopped.
childLaunch ==
    /\ \/ /\ child.pc = "launch" /\ child.inst = "absent"
          /\ \E i \in {"stopped", "running"} : child' = [child EXCEPT !.pc = "off", !.inst = i]
       \/ /\ child.pc = "start"
          /\ child' = [child EXCEPT !.pc = "off", !.inst = "running"]
    /\ UNCHANGED <<scene, zfs, st, inst, route, rec, left>>

\* Any command fails, and Ensure with it.
childFails ==
    /\ child.pc \in {"data", "launch", "start"}
    /\ child' = [child EXCEPT !.pc = "off", !.seed = None]
    /\ UNCHANGED <<scene, zfs, st, inst, route, rec, left>>

Child == childRequest \/ childLookup \/ childSeed \/ childData \/ childLaunch \/ childFails

-----------------------------------------------------------------------------
\* buildd comes back with no projects; the instance, and the builds that run
\* on it, have not noticed.
Restart ==
    /\ faults
    /\ st' = None
    /\ rec' = Resting
    /\ route' = [b \in Builds |-> IF At(b, "served") THEN "served" ELSE "off"]
    /\ child' = [child EXCEPT !.pc = "off", !.seed = None]
    /\ UNCHANGED <<scene, zfs, inst, left>>

Older(age, w) == IF age \in {None, w} THEN age ELSE age + 1

Tick ==
    /\ st' = IF st = None THEN None
             ELSE [st EXCEPT !.inflight = [b \in Builds |-> Older(@[b], MaxBuild)],
                             !.lastBuild = Older(@, Idle),
                             !.snapAge = Older(@, Every)]
    /\ rec' = IF rec.due THEN [rec EXCEPT !.age = Older(@, Every)] ELSE rec
    /\ UNCHANGED <<scene, zfs, child, inst, route, left>>

Handler(b) ==
    \/ ensureState(b) \/ InstanceExists(b) \/ Running(b) \/ Start(b)
    \/ LaunchInit(b) \/ LaunchAttach(b) \/ EnsureFails(b) \/ StartCancelled(b)
    \/ StartInflight(b) \/ Served(b) \/ WaitFails(b)

Next ==
    \/ \E b \in Builds : NewRequest(b) \/ Handler(b) \/ Complete(b) \/ Vanish(b)
    \/ Reconcile \/ Child \/ Restart \/ Tick

Spec == Init /\ [][Next]_vars

\* Handlers and the loop go on, clients end, time passes, and incus stop does
\* not fail for ever.
FairSpec ==
    /\ Spec
    /\ \A b \in Builds : WF_vars(Handler(b)) /\ WF_vars(Complete(b) \/ Vanish(b))
    /\ WF_vars(Reconcile) /\ WF_vars(Tick)
    /\ SF_vars(recStop /\ inst' # inst)

-----------------------------------------------------------------------------
\* A project with a registered build has its repo on record, whatever state a
\* /complete after a restart minted: ensureInstance heals it before the build
\* is registered.  ProjectRepo and the tier are read from that record.
PinnedProjectIsKnown == Holds(st) # {} => st.repo

\* The loop stops the instance under a registered build only if the build was
\* registered after the locked pass that found the project idle (Reconcile).
StopsAreDecidedUnpinned ==
    [][rec.pc = "stop" /\ inst'.state # inst.state => Holds(st) \subseteq rec.late]_vars

\* "Reconcile runs one lifecycle pass: scale idle projects to zero": once no
\* more builds come, the instance ends up stopped, and "a missed /complete
\* cannot pin a daemon forever".  (A start that is cancelled, or a restart of
\* buildd, may leave an instance the loop does not know to be idle.)
QuietInstanceStops == ~faults => <>[](inst.state # "running")

\* A fork or clone that is being launched finds the seed latestSnapshot
\* promises: a snapshot that exists, whatever was pruned and however often
\* buildd was restarted, and none only if there is none or ZFS cannot be asked.
SeedIsFound ==
    [][child.pc = "seed" /\ child'.pc = "data" =>
         \/ child'.seed \in zfs.snaps
         \/ child'.seed = NoSnapshot /\ zfs.snaps = {}
         \/ child'.seed = Unlisted]_vars

\* HostOps: "the operations are idempotent and safe to retry".  The clone of a
\* child whose launch failed is there, and zfs clone refuses to make it again.
RetriesAreSafe == child.pc = "data" /\ child.seed \in zfs.snaps => Clonable(child.seed)

\* "StartInflight registers a routed build under id, pinning the instance warm
\* against the scale-to-zero loop until it is released or expires."
InflightPinsInstance ==
    [][inst.state = "running" /\ inst'.state = "stopped" => Holds(st) = {}]_vars

\* "It is idempotent: an existing stopped instance is started; a missing one
\* is launched on its (seeded) dataset": no Ensure fails by itself.
EnsureIsIdempotent == \A b \in Builds : ~Refused(b)

\* An instance that runs has its retained dataset attached: "a missing one is
\* launched on its (seeded) dataset" (Ensure).
RunsOnItsDataset == inst.state = "running" => inst.disk
=============================================================================
