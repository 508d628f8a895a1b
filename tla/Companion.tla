----------------------------- MODULE Companion -----------------------------
(***************************************************************************)
(* The sidecar next to a daemon (cmd/companion): the readiness endpoint,   *)
(* the inode backstop that samples the cache volume and prunes it, and the *)
(* ordered shutdown.                                                       *)
(*                                                                         *)
(* The process has three threads here: main, the inode loop and the        *)
(* /readyz handler (one request at a time).  Of a sample only the inodes   *)
(* matter to the loop; its byte counts go to /usage, whose answer AutoGrow *)
(* takes to be any.  Time only counts during a drain.  Its unit is the     *)
(* period of the readiness probe, so that the kubelet hears an answer in   *)
(* every unit; a drain takes DrainSeconds of them and the pod's grace      *)
(* period GraceSeconds.                                                    *)
(***************************************************************************)
EXTENDS Integers

CONSTANTS
    DrainSeconds,  \* --drain-seconds
    GraceSeconds   \* terminationGracePeriodSeconds

ASSUME TimeAssumption == DrainSeconds \in Nat /\ GraceSeconds \in Nat

VARIABLES
    full,       \* the volume's inodes are over the threshold
    buildkitd,  \* the daemon answers "buildctl debug workers"
    ready,      \* what the kubelet last heard from /readyz
    heard,      \* it heard something in this unit of time
    term,       \* the kubelet has sent SIGTERM
    elapsed,    \* time since then
    main,       \* where run is
    deadline,   \* time left to the drain
    server,     \* the HTTP server listens
    ctx,        \* the signal context is cancelled
    draining,   \* state.draining
    loop,       \* where the inode loop is
    probe       \* a /readyz request

pod == <<full, buildkitd, ready, heard, term, elapsed>>
process == <<main, deadline, server, ctx, draining, loop, probe>>
companionVars == <<pod, process>>

CompanionInit ==
    /\ full \in BOOLEAN
    /\ buildkitd = TRUE /\ ready = FALSE /\ heard = FALSE /\ term = FALSE /\ elapsed = 0
    /\ main = "serving" /\ deadline = 0 /\ server = TRUE
    /\ ctx = FALSE /\ draining = FALSE
    /\ loop = "check"
    /\ probe = "none"

-----------------------------------------------------------------------------
(* main *)

\* ListenAndServe returns an error, which is fatal.
serverDies ==
    /\ server /\ main = "serving"
    /\ server' = FALSE /\ ctx' = TRUE
    /\ UNCHANGED <<pod, main, deadline, draining, loop, probe>>

\* <-ctx.Done(), setDraining, and the deadline of drain.
setDraining ==
    /\ ctx /\ main = "serving"
    /\ draining' = TRUE /\ main' = "draining" /\ deadline' = DrainSeconds
    /\ UNCHANGED <<pod, server, ctx, loop, probe>>

\* No done-file is configured in the pod: the wait runs to its deadline.
drain ==
    /\ main = "draining" /\ deadline = 0
    /\ main' = "shutdown"
    /\ UNCHANGED <<pod, deadline, server, ctx, draining, loop, probe>>

\* Shutdown waits for the open requests, for 5 seconds at most.
Shutdown ==
    /\ main = "shutdown"
    /\ main' = "waiting" /\ server' = FALSE
    /\ UNCHANGED <<pod, deadline, ctx, draining, loop, probe>>

\* Mutant: run returns without waiting for its loops.
Exit_NoWait ==
    /\ main = "waiting"
    /\ main' = "exited"
    /\ UNCHANGED <<pod, deadline, server, ctx, draining, loop, probe>>

\* wg.Wait
Exit ==
    /\ main = "waiting" /\ loop = "done"
    /\ main' = "exited"
    /\ UNCHANGED <<pod, deadline, server, ctx, draining, loop, probe>>

Alive == main \notin {"exited", "killed"}

-----------------------------------------------------------------------------
(* The inode loop *)

Loop(here, there) ==
    /\ Alive /\ loop = here
    /\ loop' = there
    /\ UNCHANGED <<pod, main, deadline, server, ctx, draining, probe>>

\* The loop checks once at the start and then on every tick; a tick may win
\* over a cancelled context.  (A statfs that fails changes nothing.)
checkInodes == full /\ Loop("check", "prune")

\* "buildctl prune --all" empties the cache; the sample taken again only
\* publishes.
prune ==
    /\ Alive /\ loop = "prune" /\ buildkitd
    /\ full' = FALSE
    /\ loop' = "check"
    /\ UNCHANGED <<buildkitd, ready, heard, term, elapsed, main, deadline, server, ctx,
                   draining, probe>>

\* Mutant: the loop returns on an error.
pruneFails_Returns == Loop("prune", "done")

\* buildctl fails, runs into its 5 minutes, or is killed with the context.
pruneFails == Loop("prune", "check")

\* Mutant: the loop does not select on the context.
loopStops_Never == FALSE /\ Loop("check", "done")

loopStops == ctx /\ Loop("check", "done")

-----------------------------------------------------------------------------
(* The /readyz handler *)

Answer(r) ==
    /\ ready' = r /\ heard' = TRUE /\ probe' = "none"
    /\ UNCHANGED <<full, buildkitd, term, elapsed, main, deadline, server, ctx,
                   draining, loop>>

\* Mutant: /readyz only probes the daemon.
readyz_NoDrain ==
    /\ Alive /\ server /\ probe = "none"
    /\ probe' = "probing"
    /\ UNCHANGED <<pod, main, deadline, server, ctx, draining, loop>>

\* /readyz tests the flag, then runs buildctl for up to 3 seconds.
readyz ==
    /\ Alive /\ server /\ probe = "none"
    /\ \/ draining /\ Answer(FALSE)
       \/ /\ ~draining /\ probe' = "probing"
          /\ UNCHANGED <<pod, main, deadline, server, ctx, draining, loop>>

probeWorkers == Alive /\ probe = "probing" /\ Answer(buildkitd)

\* The kubelet's request fails when nobody answers it.
probeUnanswered ==
    /\ ~server \/ ~Alive
    /\ Answer(FALSE)

-----------------------------------------------------------------------------
(* The pod around the process *)

\* Builds write many small files.
BuildWrites ==
    /\ buildkitd /\ ~full
    /\ full' = TRUE
    /\ UNCHANGED <<buildkitd, ready, heard, term, elapsed, process>>

DaemonChanges ==
    /\ ~term
    /\ buildkitd' = ~buildkitd
    /\ UNCHANGED <<full, ready, heard, term, elapsed, process>>

\* The pod is deleted: both containers are signalled, and the daemon stops in
\* its own time.
Sigterm ==
    /\ ~term
    /\ term' = TRUE /\ ctx' = (ctx \/ Alive)
    /\ UNCHANGED <<full, buildkitd, ready, heard, elapsed, main, deadline, server, draining,
                   loop, probe>>

DaemonStops ==
    /\ term /\ buildkitd
    /\ buildkitd' = FALSE
    /\ UNCHANGED <<full, ready, heard, term, elapsed, process>>

\* Only the drain takes time that counts here: every other step of a shutdown
\* is immediate next to it.
Tick ==
    /\ main = "draining" /\ deadline > 0
    /\ heard /\ heard' = FALSE
    /\ term => elapsed < GraceSeconds
    /\ elapsed' = IF term THEN elapsed + 1 ELSE elapsed
    /\ deadline' = deadline - 1
    /\ UNCHANGED <<full, buildkitd, ready, term, main, server, ctx, draining, loop,
                   probe>>

Kill ==
    /\ Alive /\ term /\ elapsed = GraceSeconds
    /\ main' = "killed"
    /\ UNCHANGED <<pod, deadline, server, ctx, draining, loop, probe>>

\* A container that exits in a pod that is not being deleted is restarted.
Restart ==
    /\ main = "exited" /\ ~term
    /\ main' = "serving" /\ deadline' = 0 /\ server' = TRUE
    /\ ctx' = FALSE /\ draining' = FALSE
    /\ loop' = "check"
    /\ probe' = "none"
    /\ UNCHANGED pod

CompanionNext ==
    \/ serverDies \/ setDraining \/ drain \/ Shutdown \/ Exit
    \/ checkInodes \/ prune \/ pruneFails \/ loopStops
    \/ readyz \/ probeWorkers \/ probeUnanswered
    \/ BuildWrites \/ DaemonChanges \/ Sigterm \/ DaemonStops
    \/ Tick \/ Kill \/ Restart

CompanionSpec == CompanionInit /\ [][CompanionNext]_companionVars

\* The threads of the process are scheduled, its calls return, the kubelet
\* probes on a period and restarts the container, time passes.  Strong
\* fairness where an outcome recurs: a statfs and a prune that are
\* tried forever succeed at some point, and the select of the loop does not pass
\* over a cancelled context forever (the ticker is ready once a minute, the
\* context always).
CompanionFairSpec ==
    /\ CompanionSpec
    /\ WF_companionVars(setDraining) /\ WF_companionVars(drain)
    /\ WF_companionVars(Shutdown) /\ WF_companionVars(Exit) /\ WF_companionVars(Restart)
    /\ WF_companionVars(Tick) /\ WF_companionVars(Kill)
    /\ WF_companionVars(checkInodes) /\ WF_companionVars(pruneFails)
    /\ SF_companionVars(prune) /\ SF_companionVars(loopStops)
    /\ SF_companionVars(readyz) /\ WF_companionVars(probeWorkers)
    /\ WF_companionVars(probeUnanswered)

-----------------------------------------------------------------------------

\* run: "exiting 0 for clean volume detach".  A process that exits by itself
\* has no prune running against the volume and no readiness it could still
\* announce: the loops are over and the drain flag is up.
AtRestOnExit == main = "exited" => loop = "done" /\ draining /\ ~server

\* The inode backstop: a volume over the threshold is pruned, unless the
\* process is told to stop or the daemon is down, however many samples or
\* prunes fail before one succeeds.
InodesRecover == full ~> (~full \/ ctx \/ ~buildkitd)

\* A shutdown that began ends: the drain is bounded, the loop gives way, even
\* from the middle of a prune.
ShutdownCompletes == ctx ~> ~Alive

\* "/readyz flips to not-ready on drain so the Service drops it": by the end of
\* a drain of three probe periods or more the kubelet has heard of it, although
\* a probe that was under way may have answered "ready" once more.
DrainIsNoticed == main \in {"shutdown", "waiting", "exited"} => ~ready

\* state: "once draining we always report not-ready".
NotReadyOnceDraining == [][draining /\ probe # "none" => ~ready' \/ UNCHANGED ready]_companionVars

\* "A graceful drain on SIGTERM [...] let in-flight work settle, then exit 0":
\* the process leaves before the kubelet kills it.
DrainFitsGrace == main # "killed"
=============================================================================
