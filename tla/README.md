# buildkit-operator in TLA+

TLA+ specifications of buildkit-operator, checked with TLC on small instances, with
theorems checked by TLAPS. `PROJECT.json` is the index: which definition models which
lines, what each run checks, the mutants that show each property can fail, the hazards
and the theorems.

- [The system](#the-system)
- [Modules](#modules)
- [Runs](#runs)
- [Bounds](#bounds), [fairness](#fairness) and [modelling conventions](#conventions)
- [Proofs](#proofs)
- [Where code and docs disagree](#where-code-and-docs-disagree)
- [Not modelled](#not-modelled)

## The system

buildkit-operator keeps one buildkitd per project (repository, component, target,
architecture) next to its cache volume, starts it when a build is routed to it and takes it
down when it is idle.

| part | code | state | operations |
|---|---|---|---|
| in-flight set | `api/v1alpha1/inflight.go`, `adaptive.go` | `status.inflight`, its count, the ring of build times | start, end (by token, oldest), expire, adopt a bare count, record |
| routing API (every replica) | `cmd/buildd/route.go`, `internal/provisioner/k8s` | status of the BuildProject, cold-start semaphore | `/route`, `/prewarm`, `/complete`, export grant, wait for readiness |
| reconciler (leader) | `internal/controller/buildproject_controller.go` | StatefulSet, disruption budget, snapshots, clones, forks, status | scale, roll, hold a roll, reap, snapshot, prune, fan out |
| auto-grow (leader) | `autogrow.go` | claim, spec size, two gates | probe, grow, adopt, bounce |
| PVC sweeper (leader) | `pvc_sweeper.go` | claims | list, delete orphans |
| single-host backend | `internal/provisioner/local` | in-memory projects, Incus instances, ZFS datasets | ensure, launch, register, release, idle pass, snapshot, prune, seed a fork or clone |
| gateway | `cmd/gateway` | connections, slots, WaitGroup | accept, peek, dial, pipe, drain |
| client | `cmd/build` | one run: route, builder, build | route, (re-)create the builder, build, release |
| companion | `cmd/companion` | drain flag, inode sample, probes | readiness, inode backstop, usage, shutdown |

How they interact: the replicas of buildd and the leader share nothing but the API server.
Each reads through its own informer copy, which lags. A status update is accepted only at
the version it was read at; a merge patch is accepted at any version; a delete is by name.
The leader confirms what can hurt a build with an uncached read, and acts on it a moment
later. The client holds a daemon through its entry in `status.inflight` and gives it back
with `/complete`, or never; entries expire after `--max-build-seconds`. What makes this hard
is in `PROJECT.json` under `hazards`, each at the line where it bites.

## Modules

| module | models | state and actions |
|---|---|---|
| `InflightSet` | `inflight.go` as operators on the set of entries | no state; an operation that must choose between entries of one age returns all its possible results |
| `InflightSlice` | the same code literally, on slices; the ring of build times and the idle window it earns | a status, its ring and a clock; one action per operation |
| `InflightRegistry` | the abstract promise of the status: a registry of counted builds | register (with what the cap displaces), release, forget what has expired; each atomic |
| `StatusStore` | every writer of one status | `api` is the object with its `rv`, `cache[r]` a replica's copy, `proc[p]` a handler between its reads and writes; `Sync` moves a copy to the latest version |
| `DaemonLifecycle` | `Reconcile` step by step for one daemon: confirm, budget, StatefulSet, held and forced roll, requeue | objects, the leader's copies, the work queue with its timer, the pod, the clients |
| `DaemonServing` | `Ready`/`WaitReady`/cold-start semaphore over the StatefulSet status | the StatefulSet with observed generation and revisions, a route's copy, the pod, the routes |
| `AutoGrow` | `maybeAutoGrow` | claim and project with their copies, size granted by the storage, gates |
| `CacheVolumes` | `reapFork`, the sweeper, the cascade behind a deleted project | incarnations of one name, by uid |
| `SnapshotFanout` | `maybeSnapshot`, `pruneSnapshots`, `reconcileFanout` | snapshots numbered as taken with the second each was created in, clones, two copies, queue and timer |
| `LocalBackend` | the single-host provisioner | in-memory project, instance, handlers, the reconcile pass, the dataset's snapshots, and the `Ensure` of a fork or clone (`child`); the mutex and each `incus` or `zfs` command are the step boundaries |
| `Gateway` | the gateway process | main thread, one record per connection with two directions, slots |
| `BuildClient` | runs of the client against one project's registry and one host's builder | `pc`, the entries oldest first up to the cap, the jobs the registry failed to count, the endpoint, the builder |
| `Companion` | the sidecar's main thread, inode loop and handlers | see the module's `VARIABLES` |
| `MCStatusStore`, `MCDaemonLifecycle`, `MCSnapshotFanout`, `MCBuildClient` | the scenarios TLC starts from | |
| `MCInflightSlice` | `InflightSlice` for TLC, with `Sift` compared with the library's `SelectSeq` | |
| `StatusStoreProofs`, `StatusStoreRefines`, `KeepWarmProofs`, `CacheVolumesProofs`, `SnapshotFanoutProofs`, `LocalBackendProofs`, `DataPathProofs`, `VolumeGuardProofs` | [proofs](#proofs) | |

A label such as `recConfirm` or `growGet` names one step of the function it maps to, up to
its next read or write of shared state. A definition whose name ends in `_Something` is a
mutant: the same operation with a plausible mistake, used only to show that a property
notices it.

`DataPathProofs` is about three components, `VolumeGuardProofs` and `KeepWarmProofs` about
two each, so the names every component has carry a prefix in all but one of them:
`ServingInit`, `ClientNext`, `CompanionSpec`, `SliceInit`.

`DaemonLifecycle`, `DaemonServing` and `BuildClient` write the registry in one step. That is
what `StatusStore` justifies: `ImplementsRegistry` states that the status object, through
the mapping `Registry`, implements `InflightRegistry`. TLC checks it on an instance, and
`StatusStoreRefines` proves it.

## Runs

Where a component has several scenarios, they are initial states of one run: a variable that
never changes (`faults`, `seeds`, `fork`, `setup`, `cast`, the course in `left`) or, in
`StatusStore`, the set `Starts`, says which one a behaviour follows.

| run | distinct states | shows |
|---|---|---|
| `StatusStore` | 1.0 M | the status implements the abstract registry; a registered build stays counted until released, shed or expired; the count follows the entries; one export grant per window; the idle clock never goes back. Seven casts (`MCStatusStore`): a sweep next to a route, and next to a prewarm; two builds of which one is released without its token; two builds for one place under the cap; a release made twice next to a bare count; two routes that ask for the export; a project being created |
| `Lifecycle` | 1.8 M | scale-downs and rolls are confirmed by a fresh read in the same pass, under failing calls, a dying pod and an upgrade |
| `LifecycleLive` | 307 k | a registered build gets its daemon and its budget from events alone; a quiet warm project ends at zero without a budget; a new template is rolled out although builds follow each other without a gap |
| `Serving` | 1.0 M | a status that says "serving" is about the current pod; every route is answered although cold starts take turns, fail or lose their client |
| `InflightSlice` | 57 k | slices and sets agree and the slice stays chronological; the idle window is the spec's times the builds of the trailing window, up to its maximum |
| `AutoGrow` | 246 k | sizes stay ordered, growth never shrinks a claim and stays in its quota, bounces follow a fresh read |
| `Local` | 110 k | a project with a build has its specification on record; stops are decided without a build; a fork or clone finds its seed; quiet instances stop |
| `CacheVolumes` | 242 k | forks are reaped on a fresh read; a living project's own claim is spared; orphans are reclaimed |
| `SnapshotFanout` | 272 k | through snapshots of one second, lost patches and answers, crashes and failing calls: the newest snapshots are kept, the recorded one exists while fewer of these come together than are kept, clones are pruned on a fresh read, surplus clones go unless a call about them fails |
| `Gateway` | 275 k | slots, half-close, drain of streaming builds |
| `BuildClient` | 825 k | the registry covers what streams, but for registrations that did not apply or were shed at the cap; entries are left behind only where no call is answered or a status write does not apply; a build goes to an address in which the one it was routed to occurs |
| `Companion` | 1.2 k | at rest on exit, the drain is noticed, inodes recover, shutdown completes |

## Bounds

Each bound is a constant with a name. In `StatusStore`, two replicas are enough for a stale
reader and a writer, and two builds for a release that could hit the wrong entry.
`InflightCap` is 2 and a bare count of 2 makes a registration exceed it; `MaxBuildSeconds` is
1 and `MaxTime` 2, so entries expire. `MaxTries` is 2, so a retry succeeds and retries run
out. `MaxVersion` limits only the versions written by reconciles and edits. The casts keep
apart conflicts that do not meet in one state; the proofs below cover them together.

`DaemonLifecycle` and `LocalBackend` have no bound on time. Time is kept as ages: age k is a
duration strictly between k and k+1 ticks, and stays at the window it is compared with. The
state space is finite without cutting behaviours, which the liveness properties need. A
set-up's `builds` bounds the builds routed; it is `None` where builds must be able to go on
for ever, as in the set-up of `RollLands`. Entries expire after two ticks in `Lifecycle`,
where an old and a young entry must differ, and after one in `LifecycleLive`. `Lifecycle` has
two set-ups: an upgrade with one build, and two builds one after the other without it. The
lifecycle runs use one build slot, used again
and again; `TakedownsAreConfirmed` is proved for any number. `Lifecycle` leaves node drains
out (they happen in `LifecycleLive`) to stay within minutes.

`LocalBackend`: where nothing fails, `Quota` (3) builds are routed, with any number where
commands fail and buildd restarts. Snapshots are taken in a third scene, with one build, as
they start with the first: `MaxSnaps` (3) with one kept, so that a seed is remembered, a
newer one replaces it and one with a clone cannot be destroyed.

`SnapshotFanout` bounds snapshots, edits, builds on clones, crashes, lost patches, lost
answers of creates, snapshots that share a second and failing calls about clones per course,
so that each fault meets each operation; `RecordedSnapshotExists` needs fewer of the losses
and ties in a course than `KeepSnapshots`. `CacheVolumes` allows three incarnations: one that
leaves a claim, one that takes it over, one created during the sweep. `AutoGrow` uses a factor
of 3/2 from 2 Gi to 5 Gi, so that rounding up and the clamp both happen, and hand-set sizes on
both sides of the limit. `InflightSlice` routes four builds with a cap and a ring of three.
`BuildClient` has three jobs, a cap of two entries, so that a third build sheds one, and two
endpoints, of which one occurs in the other (`Within`: two ports where one begins like the
other). In its casts jobs run side by side, all naming their builds or not, or one by one
while the address changes; `flaky` jobs are those whose status writes may not apply. `Gateway`
has two connections for one slot. `Companion` has a drain of 3 probe periods where the default
is 8 (120 s at 15 s); what matters is that it is not shorter than 3 (`DrainNoticed`), and that
it equals the grace period.

Deadlock is checked, except where the system really stops: bounded clocks in `StatusStore`
and `InflightSlice`, exhausted edits in `SnapshotFanout`, processes that exit in `Gateway`,
`BuildClient` and `Companion`.

## Fairness

- Weak fairness of a reconcile in progress, of the queue and its timers, of informer syncs and
  of the pod's own progress: the manager's worker loop, the watch and the kubelet run
  continuously. `EventSpec` leaves the clock without fairness, so that `DaemonComesUp` is
  driven by events alone; `RollLands` and `QuietProjectGoesDown` have `TimePasses`, weak
  fairness of the clock, as a premise.
- The cold-start channel is strongly fair for each sender: blocked senders of a Go channel are
  served first in, first out.
- The sweeper's steps and `incus stop` are strongly fair: they are retried on a ticker, and do
  not fail for ever.
- In the companion, strong fairness says that a `statfs` or a prune that is tried for ever
  succeeds at some point, and that `select` does not pass a cancelled context over for ever.
- `LocalBackend` and `SnapshotFanout` let builds end; `Gateway` lets both ends of a stream end.

No fairness is assumed of clients of `/route`, of operators, of faults, or of anything the
code does not schedule.

## Conventions

- controller-runtime has two work queues, which differ in what becomes of a timer when the
  item is queued earlier; `DaemonLifecycle` and `SnapshotFanout` allow both.
- Informer copies jump to the latest version; intermediate versions are not delivered one by
  one, which is what a re-list or coalescing in the store does, and the stale states remain.
- `metav1.Time` is stored in seconds; clocks of replicas agree, except
  for the `Skew` of `InflightSlice`, 0 in its run.
- The ten-hour resync of the informers is left out of the liveness runs: no property relies
  on it, and a violation that it would heal is one that lasts for hours.
- The deletion of a BuildProject is in `CacheVolumes` and not in `StatusStore`.
- A pod that was killed for its memory carries that mark after it serves again (`"scarred"`
  in `DaemonLifecycle`), since `daemonFailure` reads the last termination.

## Proofs

The theorems hold for any sets of replicas, builds, connections and so on and for any windows,
caps and bounds the named `ASSUME`s allow (`--max-build-seconds` may be unset, for example).
Each safety theorem follows from an inductive invariant, which is stronger than the
property: in the middle of a handler, what it has read and decided must be related to the
objects it is about to change. TLC finds each invariant to hold on the instance of its
run. Each proof has one lemma or step per action.

| module | theorems | invariant |
|---|---|---|
| `StatusStoreProofs` | `TypeCorrect`, `RegisteredStayCounted`, `OneExporterPerWindow`, `IdleClockMonotone` | below |
| `StatusStoreRefines` | `ProjectionHolds`; `RefinesRegistry`: `Spec => ImplementsRegistry` | below |
| `KeepWarmProofs`: `DaemonLifecycle` | `TakedownsConfirmed` | a reconcile about to scale to zero, or to roll a daemon it believes idle, knows every live build but those registered since its confirming read (`ConfirmOK`); a StatefulSet is not seen before it exists (`StsOK`) |
| `KeepWarmProofs`: `InflightSlice` | `SlicesAgreeWithSets`, `WindowFollowsCadence` | the slice is chronological, within the cap, holds no id twice, no date ahead of the clock and no token that was not minted (`Sliced`); the ring is the end of the history of starts, and what it lacks has left the window, or the ring is full (`Records`) |
| `CacheVolumesProofs` | `ReapsAreConfirmed`, `SweepSparesOwn` | no uid is ahead of the incarnations born (`UidsAreOld`); a fork being reaped builds only since its fresh read (`ReapOK`); a claim that came of age under its own project is known to the copy, so a sweep that missed the project looks at another incarnation's claim (`SweepOK`) |
| `SnapshotFanoutProofs` | `PruningSparesNewest`, `ClonePruneConfirmed`, `RecordedExists` | every list of snapshots names snapshots that were taken (`TakenOnly`), so one with `KeepSnapshots` newer ones in a stale list is not among the newest there are (`PruningKeepsTheNewest`); no snapshot is of a later second than the last one taken (`Chronological`); a clone about to be deleted builds only since it was read (`VictimWasIdle`); the snapshots that may pass for newer than the recorded one, and the losses and ties still to come, are fewer than the snapshots kept (`FewUnrecorded`) |
| `LocalBackendProofs` | `PinnedIsKnown`, `StopsDecidedUnpinned`, `SeedFound` | a route past `ensureState` finds the state it healed, as a restart ends the routes too (`RoutesAreKnown`); while a stop is decided, whoever holds the project registered since (`HoldersAreLate`); the seed on record exists, and is the newest snapshot while surplus ones are destroyed (`SeedExists`) |
| `DataPathProofs`: `DaemonServing` | `ServingPodIsCurrent` | a report that counts the pod as updated, and that no patch has outdated, is about a pod of the current template (`ReportHolds`) |
| `DataPathProofs`: `BuildClient` | `EntriesCover`, `LeaksExcused`, `RunWhereRouted` | no job has two entries, none before its `/route`, and there are no fewer entries, with the registrations that did not apply or were shed, than jobs under way (`EntriesCount`): a release without an id may take another job's entry, but one entry goes for one job; with ids, a job under way has its own entry or is one of those; an entry belongs to a job under way or to one that left in an excused way (`EntriesExcused`), which bounds the entries by an injection; one job at a time finds the builder at an address its own occurs in (`BuilderFits`) |
| `DataPathProofs`: `Gateway` | `SlotsMatch`, `NoTruncation`, `DrainCoversStreams` | per connection, how far each direction is and where one that streamed at SIGTERM can be (`ConnOK`); slots are the admitted connections (`SlotsOK`); a drain that is over found those done (`DrainOK`) |
| `VolumeGuardProofs`: `AutoGrow` | `SizesStayOrdered`, `QuotaHolds`, `ShrinkNeverHappens`, `BounceConfirmed` | filesystem, granted, asked for and recorded sizes and their copies are ordered (`Ordered`); a growth in progress has a target within the quota and above what it read, and a bounce meets only builds registered since its fresh read (`PassOK`) |
| `VolumeGuardProofs`: `Companion` | `RestOnExit`, `DrainNoticed` | what `run` has done at each of its steps (`ShutdownOrder`); after one period of a drain no probe from before it is left once the kubelet has heard anything, after two every answer is "not ready", after three one was heard (`DrainHeard`) |

Some theorems need more than the assumptions on types and finiteness. `RecordedExists`
assumes `FewLosses`: in each course, fewer patches and answers are lost, passes crash and
snapshots share a second with the one before than `KeepSnapshots`, all together, or too few
snapshots are taken for one to be pruned. It is a hypothesis of
that theorem only, which TLC evaluates for the run's courses; without it the recorded snapshot
is pruned (see below). `DrainNoticed` assumes a drain of at least three probe periods; the
default is 8, and TLC finds a counterexample for 2. The theorems about `InflightSlice` assume
`Skew = 0`, one clock for all replicas; with any other value the slice need not be chronological
(see below).

In `StatusStore`, no property is inductive alone: a handler holding an old copy could write
it back. `IInv` adds what rules that out: a copy, in a cache or in the hands of a handler, is
never newer than the object, and a copy with the object's version equals the object. So an
accepted update was computed from the current object, and only has to keep what the current
object counts; a merge patch touches no entry. The lemmas `AdoptKeeps`, `LiveKeeps`,
`LiveInflightKeeps`, `StartKeeps`, `EndKeeps` and `SetInflightType` say what each operation
keeps. For the grants, `GrantsRecorded` ties the grants made to the time recorded in the
object. A second invariant, `RInv`, says that every copy respects the cap and agrees with its
count, that a sweep keeps no entry its base does not have, that a route which has not
registered yet has no entry and a build never two, and that only a release without a token
takes the oldest.
`StrongerInvariant` proves both together; `ProjectionHolds` and the simulation rest on it.

`RefinesRegistry` maps the status to `InflightRegistry`: `entries` to the builds with an entry
in the object (`Registered`), `unnamed` to the number of releases without a token that are
still under way (`Waiting`). The initial states map to the registry's, and each step maps to a
registration with what the cap displaces, a request to release, a release, an expiry, a tick,
or a stutter
(`NextMaps`): an applied write, also one whose answer is lost, is the registry's step.

The slice operations filter. `SelectSeq` is recursive, so `InflightSlice` filters with `Sift`,
which lists the elements at a set of indices by their rank in that set; TLC finds it equal to
`SelectSeq` on all short sequences (`SiftIsSelectSeq`). `SiftIs` says that it keeps those
elements, each once and in order, by counting ranks instead of induction over the sequence.
From there on, the argument about the slice is about order: as it is chronological, its first
entry is an oldest one (`HeadIsOldest`), so what the cap sheds is what the set sheds
(`StartSliced`), and a release without a token takes the first entry whether or not some are
past the cutoff (`DropUnnamed`). As ids are not repeated, the slice is as long as its set is
large (`SliceSet`), so both reach the cap together. For the ring, what is within the window
is a suffix of the history (`WindowIsSuffix`), pruning removes a prefix (`PrunedRecords`), and
so the ring counts the builds of the window up to its length (`RingCounts`).

Only model-checked: every liveness property, as TLAPS proves neither fairness nor `ENABLED`.
Every safety property that a run checks is also a theorem.

## Where code and docs disagree

The modules also define statements that a comment or a document of the repository makes and
that the code does not keep. They are in no `.cfg`; added to the one named here, TLC finds
the behaviour. Most are narrow races that end in a retried build or in a resource held until
it expires. Lines are of files under `src/`.

| run | statement | what the code does | what the text says |
|---|---|---|---|
| `StatusStore` | `FailedRouteLeavesNoEntry` | the deferred release of a failed route reads the informer cache, does not find the entry written a moment before, and leaves it (`k8s.go:283`) | `route.go:171-173`: "otherwise a failed cold start (504/499) pins the daemon warm for up to --max-build-seconds"; `k8s.go:201`: "unlike a route, a release never races a just-created project" |
| `Lifecycle` | `ScaleToZeroHoldsOff` | a build registered between the confirming read and the patch is scaled to zero (`buildproject_controller.go:411`) | `docs/architecture.md:94`: "scale-to-zero and fork reaping hold off while a build is in flight" |
| `Lifecycle` | `HeldDaemonIsNotScaledDown` | the read that confirms a roll finds a build, the roll is held, and the 0 replicas decided before are written all the same (line 403) | lines 349-350: "a daemon serving builds is never scaled down" |
| `Lifecycle` | `ForcedRollSparesYoungBuilds` | a roll held for longer than the maximum is forced whatever the age of the youngest build (line 574) | lines 536-537: "a forced roll NEVER severs a build younger than this" |
| `Lifecycle` | `ServingDaemonIsNotRolledEarly` | the mark of an old OOM kill makes a daemon that serves count as wedged (line 615) | lines 549-552: the hold is refused when the daemon is "WEDGED [...] rather than merely not-ready" |
| `Serving` | `NeverHandedAnOutgoingPod` | `Ready` decides on a copy of the StatefulSet that may be older than a roll (`k8s.go:128`) | `docs/architecture.md:99-100`: "a build is never handed the endpoint of a pod Kubernetes is about to delete" |
| `AutoGrow` | `GrowthDoesNotCompound` | the check for an expansion in flight reads a cached claim, the size grown from may already record the growth that claim misses (`autogrow.go:183`) | `autogrow.go:174-177`: "must not compound into further growth" |
| `Local` | `InflightPinsInstance` | the stop runs outside the mutex on a list made inside it (`local.go:430`) | `local.go:301-302`: "pinning the instance warm against the scale-to-zero loop" |
| `Local` | `EnsureIsIdempotent`, `RunsOnItsDataset` | two routes both launch a missing instance and one answers 500; a route between init and attach starts the instance without its disk (`local.go:157`, `185`) | `local.go:110-111`: "is idempotent: an existing stopped instance is started; a missing one is launched on its (seeded) dataset" |
| `Local` | `RetriesAreSafe` | after a launch that failed, the dataset of a fork exists, and `zfs clone` onto it fails at every retry (`local.go:201`) | `host.go:31-32`: "the operations are idempotent and safe to retry" |
| `CacheVolumes` | `NewbornForkIsSpared` | the grace is measured on the cached incarnation, the delete is by name (`buildproject_controller.go:499`) | line 146: "Hold off until the fork has had its chance" |
| `CacheVolumes` | `SweepSparesLiveProject` | projects are listed before claims: a project re-created in between loses the warm claim it took over (`pvc_sweeper.go:103`) | `pvc_sweeper.go:95`: "its BuildProject still exists — keep the (possibly warm) cache" |
| `SnapshotFanout` | `OneSnapshotPerCadence` | the cached list misses the snapshot just taken and a second is taken (`buildproject_controller.go:644`) | lines 630-631: "when the cadence (SnapshotEverySec) is due" |
| `BuildClient` | `DryRunLeavesNoEntry` | a dry run has registered a build and skips the release (`cmd/build/main.go:213`) | lines 211-212: "Skipped on dry-run (no route side effect)" |
| `BuildClient` | `BuildsRunAtTheirAddress` | the address is looked for anywhere in what `buildx inspect` prints, so a builder at an address that only begins with it is kept (`cmd/build/main.go:406`) | lines 381-382: "Keep it only if its endpoint still matches" |
| `Companion` | `NotReadyOnceDraining` | `ready` loads the flag before it probes, and may answer after the drain began (`state.go:46`) | `state.go:21-22`: "once draining we always report not-ready" |
| `Companion` | `DrainFitsGrace` | the grace period equals the default drain, so the kubelet kills the process before it has shut down (`statefulset.go:324`) | `cmd/companion/main.go:13-15`: "let in-flight work settle, then exit 0" |

Others show when a premise or a constant of a checked property is changed:

- `QuietProjectGoesDown` for the budget of a hot project (`builds |-> 1` in its set-up): an
  entry expires between the read and the requeue, which is then not asked for, and the budget
  stays (`buildproject_controller.go:256`);
- with `Skew = 1` in `InflightSlice.cfg`: entries dated by two replicas are not chronological
  (`inflight.go:46-47`: "The set is chronological");
- without `~faults` in `QuietInstanceStops`, with `Quota` builds in each scene: an
  instance whose start was cancelled, or that ran when buildd restarted, has no last build and is never stopped (`local.go:413`);
- with as many losses and ties in a course of `SnapshotFanout` as snapshots are kept, one of
  them a failed patch (`buildproject_controller.go:672`): the recorded snapshot is pruned. The
  others are another failed patch, a crash before it, a create that was made and whose answer was
  lost (line 664), or a snapshot of the same second that the sort takes for the newer one
  (line 698);
- without the premise of `SurplusClonesGo`: a read of a clone or a delete that fails, or an
  edit that overtakes the copy of a new clone, leaves a surplus clone for good when nothing else
  enqueues the project (lines 720, 732 and 743);
- without `uncounted` in `EntriesCoverBuilds`: a registration is best effort, so a build whose
  status write keeps conflicting streams without an entry (`route.go:170`), and one more build
  than the cap sheds the entry of the oldest (`inflight.go:49`);
- without `cast.exclusive` in `BuildsRunWhereRouted`: jobs side by side on a host share the
  builder's name (`cmd/build/main.go:383`);
- without `~fork` in `SweepSparesOwnClaim`: a fork's claim can be made anew between the
  sweeper's list and its delete.

## Not modelled

- Pure functions on strings: project keys (`internal/router`), the SNI parser, flags,
  environment variables, the matching of per-repository defaults. Without the characters
  nothing is left of them; what they return is a model value or a choice.
- Verification of identity tokens, done by libraries; its verdict is a choice in
  `BuildClient`.
- The rate limiter, a library's token bucket that turns a request away before any state is
  touched: a request that was not made.
- Rendering of manifests, metrics, certificates, start-up wiring, generated deep copies, the
  docker development host.
- How often an idle daemon is looked at again (`idleRecheckInterval`): in `DaemonLifecycle`
  the poll is one tick, and the window a constant of the set-up.
- Network addresses and egress profiles of single-host instances; the builds and the idle stop
  of a fork there, which are those of any project.
- On the single host, `/prewarm` (`Touch`, which restarts the idle clock of a project) and the S3
  decision, which reads and stamps fields nothing else there reads.
- Edits of `spec.cacheVolumeGi` by hand, which `k8s.go:77` mentions: in `AutoGrow` a person grows
  the claim. `TypeOK` says of the sizes that the recorded one never exceeds what the claim asks
  for; that rests on this, as an edit of the spec alone could record a larger one.
- The usage and metrics handlers of the companion, which only read counters. They are loaded
  one by one, so an answer can mix two samples.

The StatefulSet controller, the kubelet, the storage backend, informers, Incus and ZFS are
external: they are modelled by what the code relies on, and marked so in the map.
