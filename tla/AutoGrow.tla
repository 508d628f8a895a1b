------------------------------ MODULE AutoGrow ------------------------------
(***************************************************************************)
(* maybeAutoGrow (internal/controller/autogrow.go): the leader grows a     *)
(* cache volume that fills up and bounces an idle daemon to have the new   *)
(* size mounted, while builds come and go, operators grow the volume by    *)
(* hand, the storage backend expands it in its own time and the leader     *)
(* may be replaced between any two calls.                                  *)
(*                                                                         *)
(* Gets read informer copies, one per kind, that lag independently.  An    *)
(* Update is compare-and-swap; sizes only grow, so an object that equals   *)
(* the copy has not been written in between.                               *)
(***************************************************************************)
EXTENDS Integers

CONSTANTS
    StartGi,    \* the size the project is created with
    MaxGi,      \* AutoGrowMaxGi
    FactorNum, FactorDen,   \* autoGrowFactor, as a fraction
    HandSizes   \* the sizes an operator may set by hand

ASSUME GrowAssumption ==
    /\ StartGi \in Nat \ {0} /\ MaxGi \in Nat
    /\ FactorDen \in Nat \ {0} /\ FactorNum \in Nat /\ FactorNum > FactorDen
    /\ HandSizes \subseteq Nat

VARIABLES
    pvc,      \* [req, cap, pending]: the claim as the API server has it
    pvcSeen,  \* the leader's copy
    bp,       \* [gi, busy]: spec.CacheVolumeGi, and are builds registered?
    bpSeen,   \* the leader's copy
    granted,  \* the size the storage backend has expanded the volume to
    up,       \* is the daemon's pod ready?
    gates,    \* the gates that are open: subset of {"bounce", "probe"}
    rec,      \* the maybeAutoGrow in progress
    hand      \* history: the largest size set by hand

objects == <<pvc, bp>>
copies == <<pvcSeen, bpSeen>>
vars == <<objects, copies, granted, up, gates, rec, hand>>

\* The fields are the size to write, the object last read, and (a history)
\* whether a build was registered since the confirming read.
Resting == [pc |-> "idle", gi |-> 0, late |-> FALSE,
            base |-> [req |-> 0, cap |-> 0, pending |-> FALSE]]

Init ==
    /\ pvc = [req |-> StartGi, cap |-> StartGi, pending |-> FALSE] /\ pvcSeen = pvc
    /\ bp = [gi |-> StartGi, busy |-> FALSE] /\ bpSeen = bp
    /\ granted = StartGi
    /\ up = TRUE
    /\ gates = {"bounce", "probe"}
    /\ rec = Resting
    /\ hand = 0

-----------------------------------------------------------------------------
\* Mutant: the grown size is not clamped.
autoGrowTarget_Unclamped(currentGi, full) ==
    IF currentGi >= MaxGi \/ ~full THEN 0
    ELSE (currentGi * FactorNum + FactorDen - 1) \div FactorDen

\* The new size, rounded up and clamped to MaxGi; 0 for "no change".
autoGrowTarget(currentGi, full) ==
    LET next == (currentGi * FactorNum + FactorDen - 1) \div FactorDen
    IN  IF currentGi >= MaxGi \/ ~full THEN 0
        ELSE IF next < MaxGi THEN next ELSE MaxGi

Goto(pc) == rec' = [rec EXCEPT !.pc = pc]
Done == rec' = Resting

\* A bounce is due on what the copies say.
BounceDue == pvcSeen.pending /\ ~bpSeen.busy /\ up

\* The claim is read; a pending resize of an idle daemon goes to the bounce,
\* if its gate lets it.
startBounce ==
    /\ rec.pc = "idle"
    /\ BounceDue
    /\ "bounce" \in gates
    /\ gates' = gates \ {"bounce"}
    /\ Goto("confirm")
    /\ UNCHANGED <<objects, copies, granted, up, hand>>

\* Mutant: the informer copy is asked again.
confirmIdle_Cached ==
    /\ rec.pc = "confirm"
    /\ rec' = IF bpSeen.busy THEN Resting ELSE [rec EXCEPT !.pc = "bounce", !.late = FALSE]
    /\ UNCHANGED <<objects, copies, granted, up, gates, hand>>

\* freshInflight, from the API server.
confirmIdle ==
    /\ rec.pc = "confirm"
    /\ rec' = IF bp.busy THEN Resting ELSE [rec EXCEPT !.pc = "bounce", !.late = FALSE]
    /\ UNCHANGED <<objects, copies, granted, up, gates, hand>>

\* The pod is deleted, if it is still there.
bounce ==
    /\ rec.pc = "bounce"
    /\ up' = FALSE
    /\ Done
    /\ UNCHANGED <<objects, copies, granted, gates, hand>>

\* No bounce, and no expansion in flight: the usage is probed, at most once
\* per interval.
startProbe ==
    /\ rec.pc = "idle"
    /\ ~BounceDue
    /\ pvcSeen.req <= pvcSeen.cap
    /\ up
    /\ "probe" \in gates
    /\ gates' = gates \ {"probe"}
    /\ rec' = [Resting EXCEPT !.pc = "probe", !.base = pvcSeen, !.gi = bpSeen.gi]
    /\ UNCHANGED <<objects, copies, granted, up, hand>>

\* Mutant: the spec is recorded first.
probed_SpecFirst(full) ==
    LET next == autoGrowTarget(rec.base.req, full)
    IN
    /\ rec.pc = "probe"
    /\ rec' = IF next = 0 THEN Resting ELSE [rec EXCEPT !.pc = "recordGet", !.gi = next]
    /\ UNCHANGED <<objects, copies, granted, up, gates, hand>>

\* The answer of the companion, and the decision.  Without growth, a size
\* set by hand is adopted into the spec.
probed(full) ==
    LET currentGi == IF rec.base.req > rec.gi THEN rec.base.req ELSE rec.gi
        next == autoGrowTarget(currentGi, full)
    IN
    /\ rec.pc = "probe"
    /\ CASE next > rec.base.req -> rec' = [rec EXCEPT !.pc = "growGet", !.gi = next]
         [] next = 0 /\ rec.base.req > rec.gi ->
                rec' = [rec EXCEPT !.pc = "recordGet", !.gi = rec.base.req]
         [] OTHER -> Done
    /\ UNCHANGED <<objects, copies, granted, up, gates, hand>>

probeFails ==
    /\ rec.pc = "probe"
    /\ Done
    /\ UNCHANGED <<objects, copies, granted, up, gates, hand>>

\* Mutant: whatever the claim asks for is overwritten.
growGet_Overwrites ==
    /\ rec.pc = "growGet"
    /\ rec' = [rec EXCEPT !.pc = "growPut", !.base = pvcSeen]
    /\ UNCHANGED <<objects, copies, granted, up, gates, hand>>

\* The claim is read again; one that already asks for as much is left alone.
growGet ==
    /\ rec.pc = "growGet"
    /\ rec' = IF pvcSeen.req >= rec.gi THEN [rec EXCEPT !.pc = "recordGet"]
              ELSE [rec EXCEPT !.pc = "growPut", !.base = pvcSeen]
    /\ UNCHANGED <<objects, copies, granted, up, gates, hand>>

growPut ==
    /\ rec.pc = "growPut"
    /\ rec.base = pvc
    /\ pvc' = [pvc EXCEPT !.req = rec.gi]
    /\ Goto("recordGet")
    /\ UNCHANGED <<bp, copies, granted, up, gates, hand>>

\* 409: tried again, or given up for this reconcile.
growConflict ==
    /\ rec.pc = "growPut"
    /\ rec.base # pvc
    /\ Goto("growGet") \/ Done
    /\ UNCHANGED <<objects, copies, granted, up, gates, hand>>

\* recordSpecGi: a read and an Update that conflicts unless the copy is
\* current; a conflict is retried or given up.
recordSpecGi ==
    /\ rec.pc = "recordGet"
    /\ \/ bpSeen.gi >= rec.gi /\ Done /\ UNCHANGED bp
       \/ /\ bpSeen.gi < rec.gi /\ bpSeen = bp
          /\ bp' = [bp EXCEPT !.gi = rec.gi]
          /\ Done
       \/ bpSeen.gi < rec.gi /\ bpSeen # bp /\ Done /\ UNCHANGED bp
    /\ UNCHANGED <<pvc, copies, granted, up, gates, hand>>

\* Another replica takes over; the gates are in memory.
NewLeader ==
    /\ Done
    /\ gates' = {"bounce", "probe"}
    /\ UNCHANGED <<objects, copies, granted, up, hand>>

\* The interval has passed.  It is far longer than a copy lags, so there was
\* a moment at which the copies were current.
GateOpens(g) ==
    /\ g \notin gates
    /\ copies = <<pvc, bp>>
    /\ gates' = gates \cup {g}
    /\ UNCHANGED <<objects, copies, granted, up, rec, hand>>

-----------------------------------------------------------------------------
(* Informers, builds, the operator at the keyboard, storage and kubelet.   *)

SyncPVC ==
    /\ pvcSeen # pvc
    /\ pvcSeen' = pvc
    /\ UNCHANGED <<objects, bpSeen, granted, up, gates, rec, hand>>

SyncBP ==
    /\ bpSeen # bp
    /\ bpSeen' = bp
    /\ UNCHANGED <<objects, pvcSeen, granted, up, gates, rec, hand>>

Route ==
    /\ ~bp.busy
    /\ bp' = [bp EXCEPT !.busy = TRUE]
    /\ rec' = [rec EXCEPT !.late = rec.pc = "bounce"]
    /\ UNCHANGED <<pvc, copies, granted, up, gates, hand>>

Complete ==
    /\ bp.busy
    /\ bp' = [bp EXCEPT !.busy = FALSE]
    /\ UNCHANGED <<pvc, copies, granted, up, gates, rec, hand>>

GrownByHand(n) ==
    /\ n > pvc.req
    /\ pvc' = [pvc EXCEPT !.req = n]
    /\ hand' = n
    /\ UNCHANGED <<bp, copies, granted, up, gates, rec>>

\* The backend expands the volume and leaves the filesystem to the kubelet.
BackendExpands ==
    /\ granted < pvc.req
    /\ granted' = pvc.req
    /\ pvc' = [pvc EXCEPT !.pending = TRUE]
    /\ UNCHANGED <<bp, copies, up, gates, rec, hand>>

\* The volume is mounted: a pending resize is applied, unless that fails.
PodStarts(resized) ==
    /\ ~up
    /\ up' = TRUE
    /\ resized => pvc.pending
    /\ pvc' = IF resized THEN [pvc EXCEPT !.cap = granted, !.pending = FALSE] ELSE pvc
    /\ UNCHANGED <<bp, copies, granted, gates, rec, hand>>

\* Scale-to-zero of an idle daemon.
PodStops ==
    /\ up
    /\ ~bp.busy
    /\ up' = FALSE
    /\ UNCHANGED <<objects, copies, granted, gates, rec, hand>>

-----------------------------------------------------------------------------
maybeAutoGrow ==
    \/ startBounce \/ confirmIdle \/ bounce
    \/ startProbe \/ (\E full \in BOOLEAN : probed(full)) \/ probeFails
    \/ growGet \/ growPut \/ growConflict \/ recordSpecGi

Next ==
    \/ maybeAutoGrow \/ NewLeader \/ (\E g \in {"bounce", "probe"} : GateOpens(g))
    \/ SyncPVC \/ SyncBP
    \/ Route \/ Complete
    \/ (\E n \in HandSizes : GrownByHand(n)) \/ BackendExpands
    \/ (\E resized \in BOOLEAN : PodStarts(resized)) \/ PodStops

Spec == Init /\ [][Next]_vars

-----------------------------------------------------------------------------
\* The fields, and the order of the sizes: the filesystem is never larger
\* than what the backend granted, which is never more than was asked for; and
\* the recorded size never exceeds the claim, which is written first (nobody
\* edits the recorded size by hand here).
TypeOK ==
    /\ {pvc.req, pvc.cap, bp.gi, granted} \subseteq Nat
    /\ pvc.cap <= granted /\ granted <= pvc.req
    /\ bp.gi <= pvc.req
    /\ gates \subseteq {"bounce", "probe"}

\* "Shrink never happens": neither the claim nor the recorded size is ever
\* lowered, whoever grew it in between (maybeAutoGrow, recordSpecGi).
NeverShrinks == [][pvc'.req >= pvc.req /\ bp'.gi >= bp.gi]_vars

\* "Growth is automatic, unbounded growth is not": a claim beyond MaxGi was
\* set by hand.
GrowthStaysInQuota == pvc.req > MaxGi => pvc.req \in {StartGi, hand}

\* A bounce deletes the pod of a build only if the build was registered after
\* the fresh read that found the daemon idle (maybeAutoGrow, freshInflight).
BouncesAreConfirmed == [][rec.pc = "bounce" /\ up /\ ~up' /\ bp.busy => rec.late]_vars

\* "A request the storage backend hasn't fulfilled yet [...] must not compound
\* into further growth" (maybeAutoGrow).
GrowthDoesNotCompound ==
    [][rec.pc = "growPut" /\ pvc'.req > pvc.req /\ hand' = hand => pvc.cap >= pvc.req]_vars
=============================================================================
