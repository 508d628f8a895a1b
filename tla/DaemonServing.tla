---------------------------- MODULE DaemonServing ----------------------------
(***************************************************************************)
(* Handing out the endpoint of a daemon while its StatefulSet is scaled    *)
(* and rolled: Ready and WaitReady of the routing replica, which read its  *)
(* informer copy of the StatefulSet, against the leader, which patches the *)
(* spec after a fresh read of the registered builds, and the StatefulSet   *)
(* controller, which reports what it did after the fact.  The routes of    *)
(* one replica share the cold-start semaphore.                             *)
(*                                                                         *)
(* DaemonLifecycle has the reconcile in full; here the leader is reduced   *)
(* to its decision and its patch, and no roll is forced.                   *)
(***************************************************************************)
EXTENDS Naturals

CONSTANTS
    Routes,         \* the /route requests for this daemon
    Templates,      \* the pod templates the operator may render
    ColdStartSlots, \* capacity of coldStartSem
    Idler           \* the leader with nothing decided

ASSUME ServingAssumption ==
    /\ ColdStartSlots \in Nat \ {0}
    /\ Templates # {}

VARIABLES
    sts,     \* the StatefulSet: spec, and the status last written for it
    seen,    \* the routing replica's informer copy of it
    pod,     \* the daemon's pod
    leader,  \* the spec the leader is about to patch in, or Idler
    route,   \* [Routes -> where the handler is]
    sem      \* tokens held in coldStartSem

servingVars == <<sts, seen, pod, leader, route, sem>>

Specs == [tmpl : Templates, replicas : {0, 1}]

\* status.observed stands for ObservedGeneration >= Generation.
Statuses == [observed : BOOLEAN, ready : BOOLEAN, updated : BOOLEAN,
             current : Templates, update : Templates]

ServingInit ==
    /\ \E t \in Templates :
        /\ sts = [spec |-> [tmpl |-> t, replicas |-> 0],
                  status |-> [observed |-> TRUE, ready |-> FALSE, updated |-> FALSE,
                              current |-> t, update |-> t]]
        /\ pod = [state |-> "none", tmpl |-> t]
    /\ seen = sts
    /\ leader = Idler
    /\ route = [r \in Routes |-> "off"]
    /\ sem = 0

-----------------------------------------------------------------------------
(* The routing replica.                                                    *)

\* Mutant: a status about an older generation counts.
daemonServing_AnyGeneration(s) ==
    s.status.ready /\ s.status.updated /\ s.status.current = s.status.update

\* A ready replica that is also the pod we currently want.
daemonServing(s) ==
    /\ s.status.observed
    /\ s.status.ready
    /\ s.status.updated
    /\ s.status.current = s.status.update

Answer(r, state) == route' = [route EXCEPT ![r] = state]

\* Ensure and StartInflight: from here on the build is registered.
StartInflight(r) ==
    /\ route[r] = "off"
    /\ Answer(r, "registered")
    /\ UNCHANGED <<sts, seen, pod, leader, sem>>

\* The warm path, or the way to the cold one.
Ready(r) ==
    /\ route[r] = "registered"
    /\ Answer(r, IF daemonServing(seen) THEN "served" ELSE "queued")
    /\ UNCHANGED <<sts, seen, pod, leader, sem>>

AcquireColdStart(r) ==
    /\ route[r] = "queued"
    /\ sem < ColdStartSlots
    /\ sem' = sem + 1
    /\ Answer(r, "cold")
    /\ UNCHANGED <<sts, seen, pod, leader>>

\* 499: the client left the queue; the deferred release drops its entry.
ClientGone(r) ==
    /\ route[r] = "queued"
    /\ Answer(r, "off")
    /\ UNCHANGED <<sts, seen, pod, leader, sem>>

\* A poll of WaitReady that finds the daemon serving.
WaitReady(r) ==
    /\ route[r] = "cold"
    /\ daemonServing(seen)
    /\ Answer(r, "served")
    /\ sem' = sem - 1
    /\ UNCHANGED <<sts, seen, pod, leader>>

\* Mutant: the error path returns with the cold-start token.
WaitReadyFails_KeepsToken(r) ==
    /\ route[r] = "cold"
    /\ ~daemonServing(seen)
    /\ Answer(r, "off")
    /\ UNCHANGED <<sts, seen, pod, leader, sem>>

\* The wait budget or the client ran out after a poll that found nothing.
WaitReadyFails(r) ==
    /\ route[r] = "cold"
    /\ ~daemonServing(seen)
    /\ Answer(r, "off")
    /\ sem' = sem - 1
    /\ UNCHANGED <<sts, seen, pod, leader>>

\* /complete.
handleComplete(r) ==
    /\ route[r] = "served"
    /\ Answer(r, "off")
    /\ UNCHANGED <<sts, seen, pod, leader, sem>>

SyncSts ==
    /\ seen # sts
    /\ seen' = sts
    /\ UNCHANGED <<sts, pod, leader, route, sem>>

-----------------------------------------------------------------------------
(* The leader.                                                             *)

\* With builds registered the daemon is kept up and its roll is held.
decideSpec(s) ==
    /\ leader = Idler
    /\ s # sts.spec
    /\ (\E r \in Routes : route[r] # "off") => s = [sts.spec EXCEPT !.replicas = 1]
    /\ leader' = s
    /\ UNCHANGED <<sts, seen, pod, route, sem>>

\* The merge patch: no lock, and a new generation.
patchSts ==
    /\ leader # Idler
    /\ sts' = [spec |-> leader, status |-> [sts.status EXCEPT !.observed = FALSE]]
    /\ leader' = Idler
    /\ UNCHANGED <<seen, pod, route, sem>>

-----------------------------------------------------------------------------
(* The cluster.                                                            *)

\* What the StatefulSet controller reports about the pod it finds.
Report ==
    LET exists  == pod.state # "none"
        ready   == pod.state \in {"ready", "dying"}
        updated == pod.state \in {"starting", "ready"} /\ pod.tmpl = sts.spec.tmpl
        done    == exists = ready /\ exists = updated
    IN  [observed |-> TRUE, ready |-> ready, updated |-> updated, update |-> sts.spec.tmpl,
         current |-> IF done THEN sts.spec.tmpl ELSE sts.status.current]

\* A sync of the StatefulSet controller: it deletes the pod that is too many
\* or outdated and creates the one that is missing; the report it then writes
\* is about the pod it found.
StsController ==
    /\ sts' = [sts EXCEPT !.status = Report]
    /\ pod' = CASE pod.state \in {"starting", "ready"}
                       /\ (sts.spec.replicas = 0 \/ pod.tmpl # sts.spec.tmpl) ->
                       [pod EXCEPT !.state = "dying"]
                [] pod.state = "none" /\ sts.spec.replicas = 1 ->
                       [state |-> "starting", tmpl |-> sts.spec.tmpl]
                [] OTHER -> pod
    /\ <<sts', pod'>> # <<sts, pod>>
    /\ UNCHANGED <<seen, leader, route, sem>>

\* Start, container restart, eviction, end of the grace period.
PodStep(from, to) ==
    /\ pod.state = from
    /\ pod' = [pod EXCEPT !.state = to]
    /\ UNCHANGED <<sts, seen, leader, route, sem>>

PodStarts == PodStep("starting", "ready")
PodRestarts == PodStep("ready", "starting")
PodEvicted == PodStep("ready", "dying") \/ PodStep("starting", "dying")
PodGone == PodStep("dying", "none")

-----------------------------------------------------------------------------
Handler(r) == Ready(r) \/ AcquireColdStart(r) \/ WaitReady(r) \/ WaitReadyFails(r)

ServingNext ==
    \/ \E r \in Routes : StartInflight(r) \/ Handler(r) \/ ClientGone(r) \/ handleComplete(r)
    \/ SyncSts
    \/ \E s \in Specs : decideSpec(s)
    \/ patchSts
    \/ StsController \/ PodStarts \/ PodRestarts \/ PodEvicted \/ PodGone

ServingSpec == ServingInit /\ [][ServingNext]_servingVars

\* Every handler goes on, and the channel serves its senders in turn.
ServingFairSpec ==
    /\ ServingSpec
    /\ \A r \in Routes : /\ WF_servingVars(Ready(r) \/ WaitReady(r) \/ WaitReadyFails(r))
                         /\ SF_servingVars(AcquireColdStart(r))

-----------------------------------------------------------------------------
\* While the StatefulSet's own status says "serving", the daemon's pod runs
\* the template of its spec: for the whole of a roll, from the patch to the
\* first report about the new pod, daemonServing is false, although the
\* outgoing pod is counted ready (daemonServing, k8s.go).
ServingMeansCurrentPod ==
    daemonServing(sts) /\ pod.state \in {"starting", "ready"} => pod.tmpl = sts.spec.tmpl

\* Every registered build is answered: the cold-start semaphore is given back
\* on every path of handleRoute, so no route waits behind it for ever.
EveryRouteIsAnswered ==
    \A r \in Routes : []<>(route[r] \in {"off", "served"})

\* "/route stops advertising a daemon mid-roll, so a build is never handed
\* the endpoint of a pod Kubernetes is about to delete" (docs/architecture.md).
NeverHandedAnOutgoingPod ==
    [][\A r \in Routes : route[r] # "served" /\ route'[r] = "served"
            => pod.state = "none" \/ pod.tmpl = sts.spec.tmpl]_servingVars
=============================================================================
