---------------------------- MODULE BuildClient ----------------------------
(***************************************************************************)
(* The client of the routing API (cmd/build): resolve, route, build on the *)
(* buildx builder of the project, release; with the two ends it meets:     *)
(* the registry of in-flight builds buildd keeps (one project, the oldest  *)
(* entry first) with the decisions of handleComplete, and the builder that *)
(* every job of one runner host shares under one name.                     *)
(*                                                                         *)
(* A job is one run of the client.  A status write is one step here        *)
(* (StatusStore models how it is made), which may not apply for some jobs. *)
(* No entry is old enough to expire.                                       *)
(***************************************************************************)
EXTENDS Integers, Sequences, FiniteSets, SequencesExt

CONSTANTS
    Jobs,            \* runs of the client on one host, for one project
    Endpoints,       \* addresses buildd may hand out for the daemon
    Within,          \* pairs <<a, b>>: a occurs in what buildx prints of a builder at b
    InflightCap,     \* entries a status holds at most
    Casts,           \* how the jobs and buildd may be set up
    None

\* old: jobs whose client omits the build id; dry: jobs run with --dry-run;
\* flaky: jobs whose status writes may not apply (the conflicts outlast the
\* retries, the request is cancelled, the cache does not show the entry yet);
\* exclusive: the host runs one job at a time; requireBuildID: buildd refuses
\* a release without a build id; moves: the address of the daemon may change.
ASSUME CastsAssumption ==
    Casts \subseteq [old : SUBSET Jobs, dry : SUBSET Jobs, flaky : SUBSET Jobs,
                    exclusive : BOOLEAN, requireBuildID : BOOLEAN, moves : BOOLEAN]
ASSUME ClientAssumption ==
    /\ IsFiniteSet(Jobs)
    /\ None \notin Endpoints /\ Within \subseteq Endpoints \X Endpoints
    /\ InflightCap \in Nat \ {0}

VARIABLES
    cast,      \* the set-up, which never changes
    pc,        \* where each job is
    resp,      \* the endpoint /route gave it
    ran,       \* the endpoint its build was sent to
    fate,      \* how an exited job left the registry
    stale,     \* jobs whose identity token has expired
    entries,   \* status.inflight of the project
    uncounted, \* jobs whose registration did not apply or was shed at the cap
    endpoint,  \* the address buildd hands out now
    builder    \* the endpoint of the host's builder, None when there is none

clientVars == <<cast, pc, resp, ran, fate, stale, entries, uncounted, endpoint, builder>>

ClientInit ==
    /\ cast \in Casts
    /\ pc = [j \in Jobs |-> "start"]
    /\ resp = [j \in Jobs |-> None]
    /\ ran = [j \in Jobs |-> None]
    /\ fate = [j \in Jobs |-> "none"]
    /\ stale = {}
    /\ entries = <<>>
    /\ uncounted = {}
    /\ endpoint \in Endpoints
    /\ builder \in Endpoints \cup {None}

Moves(j, here, there) == pc[j] = here /\ pc' = [pc EXCEPT ![j] = there]

Exits(j, how) ==
    /\ pc' = [pc EXCEPT ![j] = "exited"]
    /\ fate' = [fate EXCEPT ![j] = how]

Running == {j \in Jobs : pc[j] \notin {"start", "exited"}}

-----------------------------------------------------------------------------
(* /route *)

\* The entries are appended one by one, so that the cap sheds at most one.
Register(j) ==
    LET all == Append(entries, j) IN
    \/ /\ Len(all) <= InflightCap
       /\ entries' = all
       /\ UNCHANGED uncounted
    \/ /\ Len(all) > InflightCap
       /\ entries' = Tail(all)
       /\ uncounted' = uncounted \cup {Head(all)}

\* buildd registers the build before it waits for the daemon, and goes on if
\* the write does not apply.
routeBuild(j) ==
    /\ Moves(j, "start", "routing")
    /\ cast.exclusive => Running = {}
    /\ \/ Register(j)
       \/ /\ j \in cast.flaky
          /\ uncounted' = uncounted \cup {j} /\ UNCHANGED entries
    /\ UNCHANGED <<cast, resp, ran, fate, stale, endpoint, builder>>

routed(j) ==
    /\ Moves(j, "routing", "routed")
    /\ resp' = [resp EXCEPT ![j] = endpoint]
    /\ UNCHANGED <<cast, ran, fate, stale, entries, uncounted, endpoint, builder>>

\* The daemon does not come up, or the client's --route-wait runs out while
\* buildd still waits: buildd releases the entry, the client exits.
routeFails(j) ==
    /\ pc[j] = "routing"
    /\ Exits(j, "unrouted")
    /\ \/ entries' = RemoveFirst(entries, j)
       \/ j \in cast.flaky /\ UNCHANGED entries
    /\ UNCHANGED <<cast, resp, ran, stale, uncounted, endpoint, builder>>

\* --route-wait runs out when buildd has already answered.
answerLost(j) ==
    /\ pc[j] = "routing"
    /\ Exits(j, "unanswered")
    /\ UNCHANGED <<cast, resp, ran, stale, entries, uncounted, endpoint, builder>>

\* The deferred release is not installed on a dry run.
dryRun(j) ==
    /\ pc[j] = "routed" /\ j \in cast.dry
    /\ Exits(j, "dry")
    /\ UNCHANGED <<cast, resp, ran, stale, entries, uncounted, endpoint, builder>>

-----------------------------------------------------------------------------
(* ensureBuilder: every step is one docker command *)

\* "buildx create" refuses a name that exists.
createBuilder(j) ==
    /\ j \notin cast.dry
    /\ \/ /\ builder = None
          /\ Moves(j, "routed", "ready")
          /\ builder' = resp[j]
       \/ /\ builder # None
          /\ Moves(j, "routed", "exists")
          /\ UNCHANGED builder
    /\ UNCHANGED <<cast, resp, ran, fate, stale, entries, uncounted, endpoint>>

\* Mutant: an existing builder is kept whatever its endpoint.
builderHasEndpoint_Any(j) == builder # None

\* The address is looked for in what "buildx inspect" prints.
Occurs(a, b) == a = b \/ <<a, b>> \in Within

builderHasEndpoint(j) == builder # None /\ Occurs(resp[j], builder)

\* A builder that cannot be inspected does not match.
inspectBuilder(j) ==
    /\ \/ builderHasEndpoint(j) /\ Moves(j, "exists", "ready")
       \/ Moves(j, "exists", "remove")
    /\ UNCHANGED <<cast, resp, ran, fate, stale, entries, uncounted, endpoint, builder>>

\* The error of "buildx rm" is dropped.
removeBuilder(j) ==
    /\ Moves(j, "remove", "recreate")
    /\ builder' \in {builder, None}
    /\ UNCHANGED <<cast, resp, ran, fate, stale, entries, uncounted, endpoint>>

recreateBuilder(j) ==
    /\ builder = None
    /\ Moves(j, "recreate", "ready")
    /\ builder' = resp[j]
    /\ UNCHANGED <<cast, resp, ran, fate, stale, entries, uncounted, endpoint>>

\* A create fails (the second one also on a name that is taken again), or
\* buildx finds no builder of that name: run returns, its defer still runs.
runFails(j) ==
    /\ \/ j \notin cast.dry /\ Moves(j, "routed", "done")
       \/ Moves(j, "recreate", "done")
       \/ builder = None /\ Moves(j, "ready", "done")
    /\ UNCHANGED <<cast, resp, ran, fate, stale, entries, uncounted, endpoint, builder>>

-----------------------------------------------------------------------------
(* The build, and its release *)

runStreaming(j) ==
    /\ builder # None
    /\ Moves(j, "ready", "building")
    /\ ran' = [ran EXCEPT ![j] = builder]
    /\ UNCHANGED <<cast, resp, fate, stale, entries, uncounted, endpoint, builder>>

buildEnds(j) ==
    /\ Moves(j, "building", "done")
    /\ UNCHANGED <<cast, resp, ran, fate, stale, entries, uncounted, endpoint, builder>>

\* An id names its own entry; without one the oldest entry goes.
EndInflight(j) ==
    IF j \in cast.old
    THEN IF entries = <<>> THEN entries ELSE Tail(entries)
    ELSE RemoveFirst(entries, j)

\* Mutant: a live identity is asked of every release.
MayRelease_LiveIdentity(j) == j \notin stale

\* A caller whose identity has expired must name a build; so must everybody
\* when requireBuildID is set.
MayRelease(j) == j \in cast.old => j \notin stale /\ ~cast.requireBuildID

\* An expired identity is answered for by an entry that went.
Authorized(j, released) == j \in stale => released

\* An update that returns an error may have been made.
Releases(j, released) ==
    \/ /\ entries' = EndInflight(j)
       /\ released = (entries' # entries)
    \/ /\ j \in cast.flaky /\ ~released
       /\ entries' \in {entries, EndInflight(j)}

\* Mutant: the client sends a second release, as a retry would.
completeBuild_Twice(j) ==
    /\ pc[j] = "done" /\ MayRelease(j)
    /\ \/ Exits(j, "released")
       \/ UNCHANGED <<pc, fate>>
    /\ entries' = EndInflight(j)
    /\ UNCHANGED <<cast, resp, ran, stale, uncounted, endpoint, builder>>

completeBuild(j) ==
    /\ pc[j] = "done" /\ MayRelease(j)
    /\ \E released \in BOOLEAN :
        /\ Releases(j, released)
        /\ \/ Authorized(j, released) /\ Exits(j, IF released THEN "released" ELSE "unreleased")
           \/ ~Authorized(j, released) /\ Exits(j, "denied")
    /\ UNCHANGED <<cast, resp, ran, stale, uncounted, endpoint, builder>>

\* handleComplete denies the call.  The client ignores the answer.
completeDenied(j) ==
    /\ pc[j] = "done" /\ ~MayRelease(j)
    /\ Exits(j, "denied")
    /\ UNCHANGED <<cast, resp, ran, stale, entries, uncounted, endpoint, builder>>

\* The call does not reach buildd in its 10 seconds, the rate limiter turns
\* it away, or the ownership of the project cannot be read.
completeLost(j) ==
    /\ pc[j] = "done"
    /\ Exits(j, "lost")
    /\ UNCHANGED <<cast, resp, ran, stale, entries, uncounted, endpoint, builder>>

-----------------------------------------------------------------------------
(* The environment *)

\* The CI system cancels a job by killing its runner.
Killed(j) ==
    /\ pc[j] \in {"routed", "exists", "remove", "recreate", "ready", "building", "done"}
    /\ Exits(j, "killed")
    /\ UNCHANGED <<cast, resp, ran, stale, entries, uncounted, endpoint, builder>>

TokenExpires(j) ==
    /\ pc[j] = "building"
    /\ stale' = stale \cup {j}
    /\ UNCHANGED <<cast, pc, resp, ran, fate, entries, uncounted, endpoint, builder>>

\* buildd is reconfigured (a gateway host, a namespace, a port).
Reconfigured ==
    /\ cast.moves
    /\ endpoint' \in Endpoints \ {endpoint}
    /\ UNCHANGED <<cast, pc, resp, ran, fate, stale, entries, uncounted, builder>>

ClientNext ==
    \/ \E j \in Jobs :
        \/ routeBuild(j) \/ routed(j) \/ routeFails(j) \/ answerLost(j) \/ dryRun(j)
        \/ createBuilder(j) \/ inspectBuilder(j) \/ removeBuilder(j)
        \/ recreateBuilder(j) \/ runFails(j)
        \/ runStreaming(j) \/ buildEnds(j)
        \/ completeBuild(j) \/ completeDenied(j) \/ completeLost(j)
        \/ Killed(j) \/ TokenExpires(j)
    \/ Reconfigured

ClientSpec == ClientInit /\ [][ClientNext]_clientVars

-----------------------------------------------------------------------------

Building == {j \in Jobs : pc[j] = "building"}

\* The ways a job may end and leave an entry to --max-build-seconds: no call
\* to /complete is answered, or the write of the release may not apply.
Leaky(j) ==
    \/ fate[j] \in {"unanswered", "dry", "lost", "killed"}
    \/ fate[j] \in {"unrouted", "denied", "unreleased"} /\ j \in cast.flaky

\* The registry counts every build that streams on the daemon, but for those
\* whose registration did not apply or was shed at the cap, however the
\* releases interleave: a release without an id may retire the entry of
\* another build, and then leaves its own behind (completeBuild sends exactly
\* one release for each registration).  Where every client echoes its build
\* id, each of these builds has its own entry.
EntriesCoverBuilds ==
    /\ Cardinality(Building) <= Len(entries) + Cardinality(uncounted)
    /\ cast.old = {} => Building \ uncounted \subseteq ToSet(entries)

\* Where every client echoes its build id, an entry outlives its client only
\* for a reason the code leaves to the expiry: every other way out of run, a
\* failing builder or an identity that expired during the build included,
\* goes through the deferred completeBuild and is let in by handleComplete
\* ("a caller that names a LIVE build id is authorized by that alone").
\* (A client that omits the id may retire the entry of a job whose own
\* release then finds nothing, and leave its own.)
LeaksAreExcused ==
    cast.old = {} =>
        Len(entries) <= Cardinality(Running) + Cardinality({j \in Jobs : Leaky(j)})

\* ensureBuilder keeps a builder only if the address /route gave the job occurs
\* in its description, so a build is sent to an address its own one occurs in,
\* on a host that runs one job at a time: the builder has one name for all the
\* jobs of a host.  Where no address occurs in another it is sent to its own.
BuildsRunWhereRouted ==
    cast.exclusive => \A j \in Jobs : ran[j] # None => Occurs(resp[j], ran[j])

\* run: the release is "Skipped on dry-run (no route side effect)".
DryRunLeavesNoEntry == \A j \in ToSet(entries) : fate[j] # "dry"

\* ensureBuilder: "Keep it only if its endpoint still matches".
BuildsRunAtTheirAddress == cast.exclusive => \A j \in Jobs : ran[j] \in {None, resp[j]}
=============================================================================
