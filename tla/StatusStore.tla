----------------------------- MODULE StatusStore -----------------------------
(***************************************************************************)
(* Every writer of one BuildProject's status, step by step: the handlers   *)
(* of /route, /prewarm and /complete on any buildd replica                 *)
(* (cmd/buildd/route.go over internal/provisioner/k8s/k8s.go) and the      *)
(* leader's reconcile loop (internal/controller).                          *)
(*                                                                         *)
(* A handler reads the object from its replica's informer cache, which may *)
(* lag the API server, changes the copy and writes it back.  The API       *)
(* server accepts a status update only at the resourceVersion it was read  *)
(* at (409 otherwise), and a merge patch at any version.                   *)
(***************************************************************************)
EXTENDS InflightSet

CONSTANTS
    Replicas,        \* buildd replicas, each with its own informer cache
    Builds,          \* routed builds; a build stands for its own token
    Unnamed,         \* builds whose client sends /complete without a token
    Prewarms,        \* /prewarm requests
    Reconcilers,     \* reconcile workers: one, or two around a failover
    Starts,          \* bound: who takes part, and the object they find
    ExportInterval,  \* cadence window of the cold-cache export
    MaxTries,        \* statusBackoff().Steps
    Lossy,           \* may a status write fail other than by conflict?
    Edits,           \* changes <<from, to>> of the cache policy
    MaxTime,         \* bound on the clock
    MaxVersion       \* bound on versions written by reconciles and edits

VARIABLES
    now,     \* wall clock
    api,     \* the object on the API server; rv = 0 while it does not exist
    cache,   \* [Replicas -> object]: the informer caches
    proc,    \* [Procs -> control state of a handler or reconcile]
    born,    \* [Builds -> time of the registered entry, None before]
    asked,   \* builds whose own release was requested
    shed,    \* builds whose entry an operation on another build displaced
    grantAt  \* [Builds -> when the build was granted the cadence export]

vars == <<now, api, cache, proc, born, asked, shed, grantAt>>

Routes     == {"route"} \X Builds
Completes  == {"complete"} \X Builds
Touches    == {"prewarm"} \X Prewarms
Reconciles == {"reconcile"} \X Reconcilers
Procs      == Routes \cup Completes \cup Touches \cup Reconciles

Policies == {"cadence", "always", "never"}

EmptyStatus == [entries |-> {}, count |-> 0, last |-> None, grant |-> None]

Absent == [rv |-> 0, policy |-> "cadence", st |-> EmptyStatus]

Idle == [pc |-> "idle", op |-> "none", rep |-> None,
         base |-> Absent, t |-> 0, tries |-> 0, live |-> {}]

\* A request that is never made.
Over == [Idle EXCEPT !.pc = "failed"]

\* A project with no build on record, or one left by a release of the operator
\* that kept a bare count of running builds.
Legacy(n, c) == [rv |-> 1, policy |-> c,
                 st |-> [entries |-> {}, count |-> n, last |-> 0, grant |-> None]]

ASSUME StoreAssumption ==
    /\ Replicas # {}
    /\ Unnamed \subseteq Builds
    /\ Edits \subseteq Policies \X Policies
    /\ ExportInterval \in Int
    /\ MaxTries \in Nat \ {0}
    /\ Lossy \in BOOLEAN
    /\ MaxTime \in Nat
    /\ MaxVersion \in Nat

\* The project does not exist yet, or is found as it was left.
ASSUME StartAssumption ==
    \A s \in Starts : \/ s.api = Absent
                      \/ /\ s.api.st.count \in Nat
                         /\ s.api.policy \in Policies
                         /\ s.api = Legacy(s.api.st.count, s.api.policy)

Init ==
    /\ now = 0
    /\ \E s \in Starts :
        /\ api = s.api
        /\ proc = [p \in Procs |-> IF p \in s.cast THEN Idle ELSE Over]
    /\ cache = [r \in Replicas |-> api]
    /\ born = [b \in Builds |-> None]
    /\ asked = {}
    /\ shed = {}
    /\ grantAt = [b \in Builds |-> None]

history == <<born, asked, shed, grantAt>>

-----------------------------------------------------------------------------
(* Control of one process.                                                 *)

Goto(p, s) == proc' = [proc EXCEPT ![p] = s]

At(p, pc) == proc[p].pc = pc

\* The working copy is dropped at the end of every attempt.
Between(s, pc) == [Idle EXCEPT !.pc = pc, !.rep = s.rep]

\* Enter a status operation: a fresh retry loop that starts with a Get.
Call(s, op) == [Between(s, "get") EXCEPT !.op = op]

End(pc) == [Idle EXCEPT !.pc = pc]

\* Where a process goes when its status operation is over.  handleRoute does
\* not look at the outcome of StartInflight.
Return(p) ==
    CASE p[1] = "reconcile"                       -> End("idle")
      [] p[1] = "route" /\ proc[p].op = "start"   -> Between(proc[p], "serve")
      [] p[1] = "route" /\ proc[p].op = "end"     -> End("failed")
      [] OTHER                                    -> End("done")

-----------------------------------------------------------------------------
(* Ensure: find the project or create it, then stamp LastBuildTime.        *)

\* A request reaches some replica.
Begin(p, r) ==
    /\ p \in Routes \cup Touches
    /\ At(p, "idle")
    /\ Goto(p, [Idle EXCEPT !.pc = "ensure", !.rep = r])
    /\ UNCHANGED <<now, api, cache, history>>

FirstOp(p) == IF p[1] = "route" THEN "start" ELSE "touch"

ensureFound(p) ==
    /\ At(p, "ensure")
    /\ cache[proc[p].rep].rv > 0
    /\ Goto(p, Call(proc[p], FirstOp(p)))
    /\ UNCHANGED <<now, api, cache, history>>

\* The cache misses the project: Create, where AlreadyExists is success.
ensureCreate(p) ==
    /\ At(p, "ensure")
    /\ cache[proc[p].rep].rv = 0
    /\ IF api.rv = 0
       THEN /\ api' = [Absent EXCEPT !.rv = 1]
            /\ Goto(p, [proc[p] EXCEPT !.pc = "stamp", !.base = api', !.t = now])
       ELSE /\ Goto(p, Call(proc[p], FirstOp(p)))
            /\ UNCHANGED api
    /\ UNCHANGED <<now, cache, history>>

\* Create fails: the handler answers 500 and registers nothing.
ensureFails(p) ==
    /\ At(p, "ensure")
    /\ Lossy
    /\ cache[proc[p].rep].rv = 0
    /\ Goto(p, End("failed"))
    /\ UNCHANGED <<now, api, cache, history>>

\* Mutant: the stamp goes out without a precondition.
stampCreated_Blind(p) ==
    /\ At(p, "stamp")
    /\ api' = [api EXCEPT !.rv = @ + 1, !.st = [@ EXCEPT !.last = proc[p].t]]
    /\ Goto(p, Call(proc[p], FirstOp(p)))
    /\ UNCHANGED <<now, cache, history>>

\* The stamp is written on the created object; a failure is only logged.
stampCreated(p) ==
    /\ At(p, "stamp")
    /\ \/ /\ proc[p].base.rv = api.rv
          /\ api' = [api EXCEPT !.rv = @ + 1, !.st = [@ EXCEPT !.last = proc[p].t]]
       \/ /\ proc[p].base.rv # api.rv \/ Lossy
          /\ UNCHANGED api
    /\ Goto(p, Call(proc[p], FirstOp(p)))
    /\ UNCHANGED <<now, cache, history>>

-----------------------------------------------------------------------------
(* touchStatus and the grant loop of S3CacheDecision: Get from the cache,  *)
(* change the copy, Status().Update, again on conflict.                    *)

\* Mutant: the window ends one tick early.
GrantDue_Early(s) ==
    /\ s.base.policy = "cadence"
    /\ s.base.st.grant = None \/ s.t - s.base.st.grant >= ExportInterval - 1

\* May this process be granted the export of the cadence window on base?
GrantDue(s) ==
    /\ s.base.policy = "cadence"
    /\ s.base.st.grant = None \/ s.t - s.base.st.grant >= ExportInterval

\* The statuses the operation may write; none when there is nothing to do.
Results(p) ==
    LET s  == proc[p]
        st == s.base.st
        Inflight(S) == {[SetInflight(st, es) EXCEPT !.last = s.t] : es \in S}
    IN  CASE s.op = "start"     -> Inflight(StartInflight(live(st, s.t), p[2], s.t))
          [] s.op = "end"       -> Inflight(EndInflight(live(st, s.t), p[2]))
          [] s.op = "endOldest" -> Inflight(EndOldest(live(st, s.t)))
          [] s.op = "touch"     -> {[st EXCEPT !.last = s.t]}
          [] s.op = "grant"     -> IF GrantDue(s) THEN {[st EXCEPT !.grant = s.t]} ELSE {}
          [] s.op = "sweep"     -> {SetInflight(st, s.live)}
          [] OTHER              -> {}

\* A project the cache does not have is retried, except by a release.
getMissing(p) ==
    LET s == proc[p] IN
    /\ At(p, "get")
    /\ cache[s.rep].rv = 0
    /\ IF s.op \in {"start", "touch", "grant"} /\ s.tries + 1 < MaxTries
       THEN Goto(p, [s EXCEPT !.tries = @ + 1])
       ELSE Goto(p, Return(p))
    /\ UNCHANGED <<now, api, cache, history>>

getCached(p) ==
    /\ At(p, "get")
    /\ cache[proc[p].rep].rv > 0
    /\ Goto(p, [proc[p] EXCEPT !.pc = "put", !.base = cache[proc[p].rep], !.t = now])
    /\ UNCHANGED <<now, api, cache, history>>

\* mutate reported "nothing to do": no write at all.
putNothing(p) ==
    /\ At(p, "put")
    /\ Results(p) = {}
    /\ Goto(p, Return(p))
    /\ UNCHANGED <<now, api, cache, history>>

\* The builds whose entry goes because of somebody else's operation.
Displaced(p, st) ==
    IF proc[p].op \in {"start", "endOldest"}
    THEN {b \in Builds : \E e \in live(proc[p].base.st, proc[p].t) :
                            e.id = InflightID(b) /\ e \notin st.entries}
    ELSE {}

\* The API server takes the write.
Store(p, st) ==
    /\ api' = [api EXCEPT !.rv = @ + 1, !.st = st]
    /\ born' = IF proc[p].op = "start"
               THEN [born EXCEPT ![p[2]] = proc[p].t] ELSE born
    /\ shed' = shed \cup Displaced(p, st)

\* Mutant: the update carries no resourceVersion.
putApplied_Blind(p) ==
    /\ At(p, "put")
    /\ \E st \in Results(p) : Store(p, st)
    /\ grantAt' = IF proc[p].op = "grant"
                  THEN [grantAt EXCEPT ![p[2]] = proc[p].t] ELSE grantAt
    /\ Goto(p, IF p[1] = "reconcile" THEN [Idle EXCEPT !.pc = "snapshot"] ELSE Return(p))
    /\ UNCHANGED <<now, cache, asked>>

\* The update goes through at the version the copy was read at.
putApplied(p) ==
    /\ At(p, "put")
    /\ proc[p].base.rv = api.rv
    /\ \E st \in Results(p) : Store(p, st)
    /\ grantAt' = IF proc[p].op = "grant"
                  THEN [grantAt EXCEPT ![p[2]] = proc[p].t] ELSE grantAt
    /\ Goto(p, IF p[1] = "reconcile" THEN [Idle EXCEPT !.pc = "snapshot"] ELSE Return(p))
    /\ UNCHANGED <<now, cache, asked>>

\* 409: read again, while tries last.  A reconcile returns the error.
putConflict(p) ==
    LET s == proc[p] IN
    /\ At(p, "put")
    /\ s.base.rv # api.rv
    /\ Results(p) # {}
    /\ IF s.tries + 1 < MaxTries /\ p[1] # "reconcile"
       THEN Goto(p, [Call(s, s.op) EXCEPT !.tries = s.tries + 1])
       ELSE Goto(p, Return(p))
    /\ UNCHANGED <<now, api, cache, history>>

\* Any other failure ends the operation, whether or not the server took the
\* write before the answer was lost.
putLost(p) ==
    /\ Lossy
    /\ At(p, "put")
    /\ Results(p) # {}
    /\ \/ /\ proc[p].base.rv = api.rv
          /\ \E st \in Results(p) : Store(p, st)
       \/ UNCHANGED <<api, born, shed>>
    /\ Goto(p, Return(p))
    /\ UNCHANGED <<now, cache, asked, grantAt>>

-----------------------------------------------------------------------------
(* handleRoute after StartInflight, and handleComplete.                    *)

\* The daemon is serving: routed = true, then the cache decision.
serveReady(p) ==
    /\ At(p, "serve")
    /\ Goto(p, Between(proc[p], "s3"))
    /\ UNCHANGED <<now, api, cache, history>>

\* Client gone or cold start timed out: the deferred release runs.
serveFails(p) ==
    /\ At(p, "serve")
    /\ asked' = asked \cup {p[2]}
    /\ Goto(p, Call(proc[p], "end"))
    /\ UNCHANGED <<now, api, cache, born, shed, grantAt>>

\* First read of S3CacheDecision; a project that stays missing fails open.
s3Missing(p) ==
    LET s == proc[p] IN
    /\ At(p, "s3")
    /\ cache[s.rep].rv = 0
    /\ Goto(p, IF s.tries + 1 < MaxTries THEN [s EXCEPT !.tries = @ + 1] ELSE End("done"))
    /\ UNCHANGED <<now, api, cache, history>>

\* Only the cadence policy with a window needs the grant.
s3Read(p) ==
    /\ At(p, "s3")
    /\ cache[proc[p].rep].rv > 0
    /\ Goto(p, IF cache[proc[p].rep].policy = "cadence" /\ ExportInterval > 0
               THEN Call(proc[p], "grant") ELSE End("done"))
    /\ UNCHANGED <<now, api, cache, history>>

\* The client of a routed build releases it, once or again, on any replica.
BeginComplete(b, r) ==
    LET p == <<"complete", b>> IN
    /\ At(<<"route", b>>, "done")
    /\ proc[p].pc \in {"idle", "done"}
    /\ Goto(p, Call([Idle EXCEPT !.rep = r], IF b \in Unnamed THEN "endOldest" ELSE "end"))
    /\ asked' = IF b \in Unnamed THEN asked ELSE asked \cup {b}
    /\ UNCHANGED <<now, api, cache, born, shed, grantAt>>

-----------------------------------------------------------------------------
(* Reconcile, as far as it touches the status.                             *)

recGet(p, r) ==
    /\ p \in Reconciles
    /\ At(p, "idle")
    /\ api.rv < MaxVersion
    /\ cache[r].rv > 0
    /\ Goto(p, [Idle EXCEPT !.pc = "decide", !.op = "sweep", !.rep = r, !.base = cache[r],
                            !.t = now, !.live = liveInflight(cache[r].st, now)])
    /\ UNCHANGED <<now, api, cache, history>>

recKeep(p) ==
    /\ At(p, "decide")
    /\ Goto(p, [proc[p] EXCEPT !.pc = "put"])
    /\ UNCHANGED <<now, api, cache, history>>

\* About to take the daemon down: read the entries from the API server, and
\* decide on those if there are any.
recFresh(p) ==
    /\ At(p, "decide")
    /\ proc[p].live = {}
    /\ Goto(p, [proc[p] EXCEPT !.pc = "put", !.live = liveInflight(api.st, now)])
    /\ UNCHANGED <<now, api, cache, history>>

\* Neither replicas, phase nor condition changed, and the entries are right
\* as they stand: no status write.
recUnchanged(p) ==
    /\ p \in Reconciles
    /\ At(p, "put")
    /\ Results(p) = {proc[p].base.st}
    /\ Goto(p, [Idle EXCEPT !.pc = "snapshot"])
    /\ UNCHANGED <<now, api, cache, history>>

\* Error return, nothing left to do, or the worker dies.
recReturn(p) ==
    /\ p \in Reconciles
    /\ proc[p].pc \in {"decide", "put", "snapshot"}
    /\ Goto(p, Idle)
    /\ UNCHANGED <<now, api, cache, history>>

\* maybeSnapshot persists LastSnapshot by a merge patch: a new version, no
\* precondition, and no other field touched.
patchLastSnapshot(p) ==
    /\ At(p, "snapshot")
    /\ api' = [api EXCEPT !.rv = @ + 1]
    /\ Goto(p, Idle)
    /\ UNCHANGED <<now, cache, history>>

-----------------------------------------------------------------------------
(* The environment.                                                        *)

\* Somebody edits the spec of the project.
EditPolicy(e) ==
    /\ api.rv \in 1..(MaxVersion - 1)
    /\ api.policy = e[1]
    /\ api' = [api EXCEPT !.rv = @ + 1, !.policy = e[2]]
    /\ UNCHANGED <<now, cache, proc, history>>

\* A watch event brings a replica's cache up to date.
Sync(r) ==
    /\ cache[r] # api
    /\ cache' = [cache EXCEPT ![r] = api]
    /\ UNCHANGED <<now, api, proc, history>>

Tick ==
    /\ now < MaxTime
    /\ now' = now + 1
    /\ UNCHANGED <<api, cache, proc, history>>

Step(p) ==
    \/ ensureFound(p) \/ ensureCreate(p) \/ ensureFails(p) \/ stampCreated(p)
    \/ getMissing(p) \/ getCached(p)
    \/ putNothing(p) \/ putApplied(p) \/ putConflict(p) \/ putLost(p)
    \/ serveReady(p) \/ serveFails(p) \/ s3Missing(p) \/ s3Read(p)
    \/ recKeep(p) \/ recFresh(p) \/ recUnchanged(p) \/ recReturn(p)
    \/ patchLastSnapshot(p)

Next ==
    \/ \E p \in Procs : Step(p)
    \/ \E p \in Procs, r \in Replicas : Begin(p, r) \/ recGet(p, r)
    \/ \E b \in Builds, r \in Replicas : BeginComplete(b, r)
    \/ \E e \in Edits : EditPolicy(e)
    \/ \E r \in Replicas : Sync(r)
    \/ Tick

Spec == Init /\ [][Next]_vars

-----------------------------------------------------------------------------
(* Properties.                                                             *)

Maybe(S) == S \cup {None}

EntryIDs == {InflightID(b) : b \in Builds} \cup {AdoptedID(i) : i \in 1..InflightCap}

Entries == [id : EntryIDs, since : Int]

Status == [entries : SUBSET Entries, count : Nat, last : Maybe(Int), grant : Maybe(Int)]

Object == [rv : Nat, policy : Policies, st : Status]

PCs == {"idle", "ensure", "stamp", "get", "put", "serve", "s3", "done", "failed",
        "decide", "snapshot"}

Ops == {"none", "start", "end", "endOldest", "touch", "grant", "sweep"}

ProcState == [pc : PCs, op : Ops, rep : Maybe(Replicas), base : Object,
              t : Nat, tries : Nat, live : SUBSET Entries]

\* The shape of the state: objects, caches, control states and histories.
TypeOK ==
    /\ now \in Nat
    /\ api \in Object
    /\ cache \in [Replicas -> Object]
    /\ proc \in [Procs -> ProcState]
    /\ born \in [Builds -> Maybe(Nat)]
    /\ asked \subseteq Builds
    /\ shed \subseteq Builds
    /\ grantAt \in [Builds -> Maybe(Nat)]

\* A build that /route registered, that nobody asked to release, that no
\* other operation displaced and that is still within --max-build-seconds has
\* its entry, with its own date, on the API server: neither a stale replica,
\* a retry, a lost answer nor a concurrent sweep drops or re-dates it.
RegisteredBuildsStayCounted ==
    \A b \in Builds :
        /\ born[b] # None
        /\ b \notin asked \cup shed
        /\ now - born[b] <= maxBuildAge
        => Entry(InflightID(b), born[b]) \in api.st.entries

\* S3CacheDecision elects at most one exporter per cadence window, whichever
\* replicas the routes land on and however stale their caches are.
SingleExporterPerWindow ==
    \A b, c \in Builds :
        /\ b # c
        /\ grantAt[b] # None
        /\ grantAt[c] # None
        => \/ grantAt[b] - grantAt[c] >= ExportInterval
           \/ grantAt[c] - grantAt[b] >= ExportInterval

\* The count that old readers see and the entries agree whenever there are
\* entries, and the set respects the cap: SetInflight is the only writer.
ProjectionMatchesEntries ==
    /\ api.st.entries # {} => api.st.count = Cardinality(api.st.entries)
    /\ Cardinality(api.st.entries) <= InflightCap

\* LastBuildTime, the idle clock, never moves back: a reconcile or a handler
\* that worked on a stale copy conflicts instead of clobbering it.
LastBuildTimeNeverRegresses ==
    [][api.st.last # None => api'.st.last # None /\ api'.st.last >= api.st.last]_vars

\* handleRoute: "on any error path below we must release the inflight here —
\* otherwise a failed cold start (504/499) pins the daemon warm".
FailedRouteLeavesNoEntry ==
    \A b \in Builds :
        At(<<"route", b>>, "failed")
        => \A e \in api.st.entries : e.id # InflightID(b)

Pending(b) == proc[<<"complete", b>>].pc \in {"get", "put"}

\* Releases without a token that are under way.
Waiting == {b \in Unnamed : Pending(b)}

\* The builds a set of entries stands for.
Registered(es) ==
    {[build |-> x[1], since |-> x[2].since] :
       x \in {y \in Builds \X es : y[2].id = InflightID(y[1])}}

\* The registry the status implements.
Registry == INSTANCE InflightRegistry WITH
    Window  <- maxBuildAge,
    entries <- Registered(api.st.entries),
    unnamed <- Cardinality(Waiting)

\* Through caches, conflicts, retries and sweeps, the entries on the API
\* server only ever change as the abstract registry allows.
ImplementsRegistry == Registry!Spec
=============================================================================
