------------------------- MODULE StatusStoreProofs --------------------------
(***************************************************************************)
(* The theorems about StatusStore, for any number of replicas, builds,     *)
(* requests and reconcile workers, any cap, windows and bounds: its        *)
(* inductive invariant, the lemmas that invariant rests on (what the       *)
(* operators of InflightSet keep, what a status write that passed the      *)
(* version check changes, which control states are in order), one lemma    *)
(* per handler, and what follows.                                          *)
(*                                                                         *)
(* The argument rests on optimistic concurrency: a copy (in a cache or in  *)
(* a handler) is never newer than the API server's object, and equals it   *)
(* when the versions agree, so a write that passes the version check was   *)
(* computed from the current object.                                       *)
(***************************************************************************)
EXTENDS StatusStore, FiniteSetTheorems, TLAPS

\* o is a faithful copy of some version of a, and dated no later than t.
Copy(o, a, t) ==
    /\ o \in Object
    /\ IsFiniteSet(o.st.entries)
    /\ o.rv <= a.rv
    /\ o.rv = a.rv => o = a
    /\ o.st.last # None => o.st.last <= t

Unexpired(a, n) == {e \in a.st.entries : n - e.since <= maxBuildAge}

\* A process at one of these points works on a replica.
Active == {"ensure", "stamp", "get", "put", "serve", "s3", "decide"}

\* What holds of the control state s of process p, given the object a on the
\* API server, the time n and the requested releases ask.
ProcOK(p, s, a, n, ask) ==
    /\ s \in ProcState
    /\ Copy(s.base, a, s.t)
    /\ IsFiniteSet(s.live)
    /\ s.t <= n
    /\ s.op \in {"start", "grant"} \/ s.pc \in {"serve", "s3"} => p \in Routes
    /\ s.op = "end" => p \in Routes \cup Completes /\ p[2] \in ask
    /\ s.op = "grant" => ExportInterval > 0
    /\ s.op = "sweep" => p \in Reconciles /\ s.pc # "get"
    /\ s.pc \in Active => s.rep \in Replicas
    /\ s.op = "sweep" /\ s.base.rv = a.rv => Unexpired(a, n) \subseteq s.live

\* Every grant is on record, so the next one keeps its distance from it.
GrantsRecorded ==
    \A b \in Builds :
        grantAt[b] # None => api.st.grant # None /\ grantAt[b] <= api.st.grant

\* The inductive invariant.
IInv ==
    /\ TypeOK
    /\ api.rv = 0 => api = Absent
    /\ Copy(api, api, now)
    /\ \A r \in Replicas : Copy(cache[r], api, now)
    /\ \A p \in Procs : ProcOK(p, proc[p], api, now, asked)
    /\ RegisteredBuildsStayCounted
    /\ GrantsRecorded
    /\ SingleExporterPerWindow

-----------------------------------------------------------------------------
(* The operators of InflightSet.                                           *)

\* The reconciler's window is positive whatever --max-build-seconds says.
LEMMA maxBuildAgeType == maxBuildAge \in Nat \ {0}
  BY WindowAssumption DEF maxBuildAge

\* Adoption keeps every entry, and yields finitely many well-typed ones.
LEMMA AdoptKeeps ==
    ASSUME NEW st \in Status, IsFiniteSet(st.entries)
    PROVE  /\ AdoptLegacyInflight(st).entries \subseteq Entries
           /\ IsFiniteSet(AdoptLegacyInflight(st).entries)
           /\ st.entries \subseteq AdoptLegacyInflight(st).entries
<1>1. CASE st.entries # {} \/ st.count <= 0 \/ st.last = None
  BY <1>1 DEF AdoptLegacyInflight, Status
<1>2. CASE ~(st.entries # {} \/ st.count <= 0 \/ st.last = None)
  <2> DEFINE n == IF st.count > InflightCap THEN InflightCap ELSE st.count
             es == {Entry(AdoptedID(i), st.last) : i \in 1..n}
  <2>1. AdoptLegacyInflight(st).entries = es
    BY <1>2 DEF AdoptLegacyInflight, Status
  <2>2. n \in Nat /\ n <= InflightCap /\ st.last \in Int
    BY <1>2, CapAssumption DEF Status, Maybe
  <2>3. IsFiniteSet(1..n)
    BY <2>2, FS_Interval
  <2>4. IsFiniteSet(es)
    <3> DEFINE f == [i \in 1..n |-> Entry(AdoptedID(i), st.last)]
    <3> HIDE DEF n
    <3>1. f \in Surjection(1..n, es)
      BY DEF Surjection
    <3> QED BY <2>3, <3>1, FS_Surjection
  <2>5. es \subseteq Entries
    <3> HIDE DEF n
    <3> QED BY <2>2, CapAssumption DEF Entries, Entry, EntryIDs
  <2> QED BY <1>2, <2>1, <2>4, <2>5
<1> QED BY <1>1, <1>2

\* The set an operation of the routing API starts from has every entry that
\* is still within the window.
LEMMA LiveKeeps ==
    ASSUME NEW st \in Status, IsFiniteSet(st.entries), NEW t \in Int
    PROVE  /\ live(st, t) \subseteq Entries
           /\ IsFiniteSet(live(st, t))
           /\ \A e \in st.entries : t - e.since <= maxBuildAge => e \in live(st, t)
<1> DEFINE ad == AdoptLegacyInflight(st).entries
<1>1. ad \subseteq Entries /\ IsFiniteSet(ad) /\ st.entries \subseteq ad
  BY AdoptKeeps
<1> HIDE DEF ad
<1>2. live(st, t) = IF MaxBuildSeconds <= 0 THEN ad
                    ELSE {e \in ad : t - e.since <= MaxBuildSeconds}
  BY DEF live, ad, ExpireInflight
<1>3. live(st, t) \subseteq ad
  BY <1>2
<1>4. IsFiniteSet(live(st, t))
  BY <1>1, <1>3, FS_Subset
<1> QED BY <1>1, <1>2, <1>3, <1>4 DEF maxBuildAge

\* Likewise for what the reconciler counts.
LEMMA LiveInflightKeeps ==
    ASSUME NEW st \in Status, IsFiniteSet(st.entries), NEW t \in Int
    PROVE  /\ liveInflight(st, t) \subseteq Entries
           /\ IsFiniteSet(liveInflight(st, t))
           /\ \A e \in st.entries : t - e.since <= maxBuildAge => e \in liveInflight(st, t)
<1> DEFINE ad == AdoptLegacyInflight(st).entries
<1>1. ad \subseteq Entries /\ IsFiniteSet(ad) /\ st.entries \subseteq ad
  BY AdoptKeeps
<1> HIDE DEF ad
<1>2. liveInflight(st, t) = {e \in ad : t - e.since <= maxBuildAge}
  BY DEF liveInflight, ad, ExpireInflight
<1>3. IsFiniteSet(liveInflight(st, t))
  BY <1>1, <1>2, FS_Subset
<1> QED BY <1>1, <1>2, <1>3

\* Registering keeps all entries but the displaced one.
LEMMA StartKeeps ==
    ASSUME NEW es \in SUBSET Entries, IsFiniteSet(es), NEW b \in Builds, NEW t \in Int,
           NEW res \in StartInflight(es, b, t)
    PROVE  /\ res \in SUBSET Entries
           /\ IsFiniteSet(res)
           /\ Entry(InflightID(b), t) \in res
<1> DEFINE new == Entry(InflightID(b), t)
<1>1. new \in Entries
  BY DEF Entry, Entries, EntryIDs
<1>2. CASE Cardinality(es) < InflightCap
  <2>1. res = es \cup {new}
    BY <1>2 DEF StartInflight
  <2> HIDE DEF new
  <2>2. IsFiniteSet(es \cup {new})
    BY FS_AddElement
  <2> QED BY <1>1, <2>1, <2>2 DEF new
<1>3. CASE ~(Cardinality(es) < InflightCap)
  <2>1. PICK e \in Oldest(es) : res = (es \ {e}) \cup {new}
    BY <1>3 DEF StartInflight
  <2> HIDE DEF new
  <2>2. IsFiniteSet(es \ {e})
    BY FS_RemoveElement
  <2>3. IsFiniteSet((es \ {e}) \cup {new})
    BY <2>2, FS_AddElement
  <2> QED BY <1>1, <2>1, <2>3 DEF new
<1> QED BY <1>2, <1>3

\* A release by token takes only entries with that token's id.
LEMMA EndKeeps ==
    ASSUME NEW es \in SUBSET Entries, IsFiniteSet(es), NEW b, NEW res \in EndInflight(es, b)
    PROVE  /\ res \in SUBSET Entries
           /\ IsFiniteSet(res)
           /\ \A e \in es : e.id # InflightID(b) => e \in res
<1>1. PICK f \in es : f.id = InflightID(b) /\ res = es \ {f}
  BY DEF EndInflight
<1>2. IsFiniteSet(es \ {f})
  BY FS_RemoveElement
<1> QED BY <1>1, <1>2

\* A release without a token takes one entry and adds none.
LEMMA EndOldestKeeps ==
    ASSUME NEW es \in SUBSET Entries, IsFiniteSet(es), NEW res \in EndOldest(es)
    PROVE  res \in SUBSET Entries /\ IsFiniteSet(res)
<1>1. PICK f \in es : res = es \ {f}
  BY DEF EndOldest, Oldest
<1>2. IsFiniteSet(es \ {f})
  BY FS_RemoveElement
<1> QED BY <1>1, <1>2

\* Writing entries and their count yields a status.
LEMMA SetInflightType ==
    ASSUME NEW st \in Status, NEW es \in SUBSET Entries, IsFiniteSet(es)
    PROVE  /\ SetInflight(st, es) \in Status
           /\ SetInflight(st, es).entries = es
           /\ SetInflight(st, es).last = st.last
           /\ SetInflight(st, es).grant = st.grant
<1>1. Cardinality(es) \in Nat
  BY FS_CardinalityType
<1> QED BY <1>1, Zenon DEF SetInflight, Status

-----------------------------------------------------------------------------
(* What a status write that passed the version check changes.              *)

\* An operation applied to the current object keeps the type, the idle clock,
\* the grant on record, and every unexpired entry whose build neither asked
\* for its release nor was displaced.
LEMMA ResultsKeep ==
    ASSUME TypeOK, NEW p \in Procs, ProcOK(p, proc[p], api, now, asked),
           proc[p].base = api, NEW st \in Results(p)
    PROVE  /\ st \in Status
           /\ IsFiniteSet(st.entries)
           /\ st.last = api.st.last \/ st.last = proc[p].t
           /\ \/ st.grant = api.st.grant
              \/ proc[p].op = "grant" /\ GrantDue(proc[p]) /\ st.grant = proc[p].t
           /\ proc[p].op = "grant" => GrantDue(proc[p]) /\ st.grant = proc[p].t
           /\ proc[p].op = "start" => Entry(InflightID(p[2]), proc[p].t) \in st.entries
           /\ \A b \in Builds : \A e \in Unexpired(api, now) :
                 e.id = InflightID(b) => e \in st.entries \/ b \in asked \cup Displaced(p, st)
<1> DEFINE s == proc[p]
           old == api.st
           lv == live(old, s.t)
           Inflight(S) == {[SetInflight(old, es) EXCEPT !.last = s.t] : es \in S}
<1>1. /\ s \in ProcState /\ api \in Object /\ old \in Status /\ IsFiniteSet(old.entries)
      /\ s.t \in Nat /\ now \in Nat /\ s.t <= now
  BY DEF ProcOK, Copy, TypeOK, Object, ProcState
<1>2. lv \in SUBSET Entries /\ IsFiniteSet(lv)
  BY <1>1, LiveKeeps
<1>3. Unexpired(api, now) \subseteq lv
  <2>1. \A e \in old.entries : s.t - e.since <= maxBuildAge => e \in lv
    BY <1>1, LiveKeeps
  <2>2. \A e \in old.entries : e.since \in Int
    BY <1>1 DEF Status, Entries
  <2> QED BY <1>1, <2>1, <2>2, maxBuildAgeType DEF Unexpired
<1>4. ASSUME NEW S, st \in Inflight(S), \A es \in S : es \in SUBSET Entries /\ IsFiniteSet(es)
      PROVE  /\ st \in Status /\ IsFiniteSet(st.entries) /\ st.entries \in S
             /\ st.last = s.t /\ st.grant = old.grant
  <2>1. PICK es \in S : st = [SetInflight(old, es) EXCEPT !.last = s.t]
    BY <1>4
  <2>2. es \in SUBSET Entries /\ IsFiniteSet(es)
    BY <1>4
  <2>3. /\ SetInflight(old, es) \in Status /\ SetInflight(old, es).entries = es
        /\ SetInflight(old, es).grant = old.grant
    BY <1>1, <2>2, SetInflightType
  <2> QED BY <1>1, <2>1, <2>2, <2>3 DEF Status, Maybe
<1> HIDE DEF lv, Inflight
<1>a. CASE s.op = "start"
  <2>1. st \in Inflight(StartInflight(lv, p[2], s.t))
    BY <1>a DEF Results, Inflight, lv
  <2>2. p[2] \in Builds
    BY <1>a DEF ProcOK, Routes
  <2>3. \A es \in StartInflight(lv, p[2], s.t) :
           es \in SUBSET Entries /\ IsFiniteSet(es) /\ Entry(InflightID(p[2]), s.t) \in es
    BY <1>1, <1>2, <2>2, StartKeeps
  <2>4. /\ st \in Status /\ IsFiniteSet(st.entries) /\ st.last = s.t /\ st.grant = old.grant
        /\ st.entries \in StartInflight(lv, p[2], s.t)
    BY <1>4, <2>1, <2>3
  <2>5. \A b \in Builds : \A e \in lv :
           e.id = InflightID(b) => e \in st.entries \/ b \in Displaced(p, st)
    BY <1>a DEF Displaced, lv
  <2> QED BY <1>a, <1>3, <2>3, <2>4, <2>5
<1>b. CASE s.op = "end"
  <2>1. st \in Inflight(EndInflight(lv, p[2]))
    BY <1>b DEF Results, Inflight, lv
  <2>2. \A es \in EndInflight(lv, p[2]) :
           /\ es \in SUBSET Entries /\ IsFiniteSet(es)
           /\ \A e \in lv : e.id # InflightID(p[2]) => e \in es
    BY <1>2, EndKeeps
  <2>3. /\ st \in Status /\ IsFiniteSet(st.entries) /\ st.last = s.t /\ st.grant = old.grant
        /\ st.entries \in EndInflight(lv, p[2])
    BY <1>4, <2>1, <2>2
  <2>4. p[2] \in asked
    BY <1>b DEF ProcOK
  <2>5. \A b : InflightID(b) = InflightID(p[2]) => b = p[2]
    BY DEF InflightID
  <2> QED BY <1>b, <1>3, <2>2, <2>3, <2>4, <2>5
<1>c. CASE s.op = "endOldest"
  <2>1. st \in Inflight(EndOldest(lv))
    BY <1>c DEF Results, Inflight, lv
  <2>2. \A es \in EndOldest(lv) : es \in SUBSET Entries /\ IsFiniteSet(es)
    BY <1>2, EndOldestKeeps
  <2>3. /\ st \in Status /\ IsFiniteSet(st.entries) /\ st.last = s.t /\ st.grant = old.grant
    BY <1>4, <2>1, <2>2
  <2>4. \A b \in Builds : \A e \in lv :
           e.id = InflightID(b) => e \in st.entries \/ b \in Displaced(p, st)
    BY <1>c DEF Displaced, lv
  <2> QED BY <1>c, <1>3, <2>3, <2>4
<1>d. CASE s.op = "touch"
  <2>1. st = [old EXCEPT !.last = s.t]
    BY <1>d DEF Results
  <2> QED BY <1>d, <1>1, <2>1 DEF Status, Maybe, Unexpired
<1>e. CASE s.op = "grant"
  <2>1. GrantDue(s) /\ st = [old EXCEPT !.grant = s.t]
    BY <1>e DEF Results
  <2> QED BY <1>e, <1>1, <2>1 DEF Status, Maybe, Unexpired
<1>f. CASE s.op = "sweep"
  <2>1. st = SetInflight(old, s.live)
    BY <1>f DEF Results
  <2>2. s.live \in SUBSET Entries /\ IsFiniteSet(s.live) /\ Unexpired(api, now) \subseteq s.live
    BY <1>f, <1>1 DEF ProcOK, ProcState
  <2>3. st \in Status /\ st.entries = s.live /\ st.last = old.last /\ st.grant = old.grant
    BY <1>1, <2>1, <2>2, SetInflightType
  <2> QED BY <1>f, <2>2, <2>3
<1>g. CASE s.op \notin {"start", "end", "endOldest", "touch", "grant", "sweep"}
  BY <1>g DEF Results
<1> QED BY <1>a, <1>b, <1>c, <1>d, <1>e, <1>f, <1>g

-----------------------------------------------------------------------------
(* Processes.                                                              *)

\* The object before the project exists is well formed.
LEMMA AbsentOK == Absent \in Object /\ IsFiniteSet(Absent.st.entries) /\ Absent.st.last = None
  BY FS_EmptySet DEF Absent, EmptyStatus, Object, Status, Policies, Maybe

\* A process at rest is well formed.
LEMMA IdleType == Idle \in ProcState
  BY AbsentOK DEF Idle, ProcState, PCs, Ops, Maybe

\* A process that holds no copy is in order, between operations and at the
\* start of one.
LEMMA NoCopyOK ==
    ASSUME IInv, NEW p \in Procs, NEW ask, NEW s \in ProcState,
           s.base = Absent, s.t = 0, s.live = {}, s.op # "sweep",
           s.op \in {"start", "grant"} \/ s.pc \in {"serve", "s3"} => p \in Routes,
           s.op = "end" => p \in Routes \cup Completes /\ p[2] \in ask,
           s.op = "grant" => ExportInterval > 0,
           s.pc \in Active => s.rep \in Replicas
    PROVE  ProcOK(p, s, api, now, ask)
<1>1. Absent.rv = 0
  BY DEF Absent
<1>2. Copy(Absent, api, 0)
  BY <1>1, AbsentOK DEF IInv, Copy, TypeOK, Object
<1> QED BY <1>2, FS_EmptySet DEF ProcOK, IInv, TypeOK

\* The states a process enters when it drops its copy.
LEMMA EndFields ==
    ASSUME NEW pc \in PCs
    PROVE  LET s == End(pc)
           IN  s \in ProcState /\ s.base = Absent /\ s.t = 0 /\ s.live = {} /\ s.op = "none"
               /\ s.pc = pc
  BY IdleType DEF End, Idle, ProcState

\* The state of a process between two operations of its handler.
LEMMA BetweenFields ==
    ASSUME NEW o \in ProcState, NEW pc \in PCs
    PROVE  LET s == Between(o, pc)
           IN  s \in ProcState /\ s.base = Absent /\ s.t = 0 /\ s.live = {} /\ s.op = "none"
               /\ s.pc = pc /\ s.rep = o.rep
  BY IdleType, Zenon DEF Between, Idle, ProcState

\* The state of a process that starts a read-modify-write loop.
Starting(s, op, rep) ==
    /\ s \in ProcState /\ s.base = Absent /\ s.t = 0 /\ s.live = {} /\ s.op = op
    /\ s.pc = "get" /\ s.rep = rep

\* Call leads to it.
LEMMA CallFields ==
    ASSUME NEW o \in ProcState, NEW op \in Ops
    PROVE  Starting(Call(o, op), op, o.rep)
<1>1. "get" \in PCs
  BY DEF PCs
<1>2. LET s == Between(o, "get")
      IN  s \in ProcState /\ s.base = Absent /\ s.t = 0 /\ s.live = {} /\ s.op = "none"
          /\ s.pc = "get" /\ s.rep = o.rep
  BY <1>1, BetweenFields
<1> QED BY <1>2 DEF Call, ProcState, Starting

\* What a process is called tells what it runs.
LEMMA KindOf ==
    ASSUME NEW p \in Procs
    PROVE  /\ p[1] = "route" => p \in Routes
           /\ p[1] = "reconcile" => p \in Reconciles
           /\ p \in Routes \cup Completes => p[2] \in Builds
  BY DEF Procs, Routes, Completes, Touches, Reconciles

\* Where Return leads is in order.
LEMMA ReturnOK ==
    ASSUME IInv, NEW p \in Procs, proc[p].pc \in Active
    PROVE  ProcOK(p, Return(p), api, now, asked)
<1>1. proc[p] \in ProcState /\ proc[p].rep \in Replicas
  BY DEF IInv, TypeOK, ProcOK
<1>2. LET s == Return(p)
      IN  /\ s \in ProcState /\ s.base = Absent /\ s.t = 0 /\ s.live = {} /\ s.op = "none"
          /\ s.pc \in {"serve", "s3"} => p[1] = "route"
          /\ s.pc \in Active => s.rep \in Replicas
  BY <1>1, EndFields, BetweenFields DEF Return, PCs, Active
<1> QED BY <1>2, NoCopyOK, KindOf

\* A process that does not move stays in order when time passes, releases are
\* asked for, or the object gets a new version.
LEMMA BystanderOK ==
    ASSUME NEW p, NEW s, NEW a \in Object, NEW n \in Nat, NEW ask, ProcOK(p, s, a, n, ask),
           NEW a2 \in Object, a2 = a \/ a2.rv = a.rv + 1,
           NEW n2 \in Nat, n <= n2, NEW ask2, ask \subseteq ask2
    PROVE  ProcOK(p, s, a2, n2, ask2)
<1>1. s \in ProcState /\ s.base \in Object /\ s.base.rv \in Nat /\ a.rv \in Nat /\ s.t \in Nat
  BY DEF ProcOK, ProcState, Object
<1>2. Copy(s.base, a2, s.t)
  BY <1>1 DEF ProcOK, Copy
<1>3. Unexpired(a, n2) \subseteq Unexpired(a, n)
  BY maxBuildAgeType DEF Unexpired, Object, Status, Entries
<1>4. s.op = "sweep" /\ s.base.rv = a2.rv => Unexpired(a2, n2) \subseteq s.live
  BY <1>1, <1>3 DEF ProcOK, Copy
<1> QED BY <1>1, <1>2, <1>4 DEF ProcOK

\* A copy stays one as time passes.
LEMMA CopyLater ==
    ASSUME NEW o, NEW a, NEW t \in Nat, NEW t2 \in Nat, t <= t2, Copy(o, a, t)
    PROVE  Copy(o, a, t2)
<1>1. o.st.last \in Maybe(Int)
  BY DEF Copy, Object, Status
<1> QED BY <1>1 DEF Copy, Maybe

-----------------------------------------------------------------------------
(* Every step keeps the invariant: one lemma per handler, for the          *)
(* reconcile loop and for the cluster around them.                         *)

\* One process moves; the object, the caches and the clock stay.
LEMMA MoveStep ==
    ASSUME IInv, NEW p \in Procs, NEW s, proc' = [proc EXCEPT ![p] = s],
           ProcOK(p, s, api, now, asked'), asked \subseteq asked', asked' \subseteq Builds,
           UNCHANGED <<now, api, cache, born, shed, grantAt>>
    PROVE  IInv'
<1>1. TypeOK'
  BY DEF IInv, TypeOK, ProcOK
<1>2. \A q \in Procs : ProcOK(q, proc'[q], api', now', asked')
  <2> TAKE q \in Procs
  <2>1. CASE q = p
    BY <2>1 DEF IInv, TypeOK
  <2>2. CASE q # p
    <3>1. ProcOK(q, proc[q], api, now, asked) /\ proc'[q] = proc[q] /\ api \in Object /\ now \in Nat
      BY <2>2 DEF IInv, TypeOK
    <3> QED BY <3>1, BystanderOK
  <2> QED BY <2>1, <2>2
<1>3. RegisteredBuildsStayCounted'
  BY DEF IInv, RegisteredBuildsStayCounted
<1>4. GrantsRecorded' /\ SingleExporterPerWindow'
  BY DEF IInv, GrantsRecorded, SingleExporterPerWindow
<1> QED BY <1>1, <1>2, <1>3, <1>4 DEF IInv

\* The object gets a new version by the write of one process.
LEMMA WriteStep ==
    ASSUME IInv, NEW p \in Procs, NEW s, proc' = [proc EXCEPT ![p] = s],
           ProcOK(p, s, api', now, asked),
           api' \in Object, api'.rv = api.rv + 1, IsFiniteSet(api'.st.entries),
           api'.st.last # None => api'.st.last <= now,
           born' \in [Builds -> Maybe(Nat)], shed' \subseteq Builds,
           grantAt' \in [Builds -> Maybe(Nat)],
           RegisteredBuildsStayCounted', GrantsRecorded', SingleExporterPerWindow',
           UNCHANGED <<now, cache, asked>>
    PROVE  IInv'
<1>1. TypeOK'
  BY DEF IInv, TypeOK, ProcOK
<1>2. \A q \in Procs : ProcOK(q, proc'[q], api', now', asked')
  <2> TAKE q \in Procs
  <2>1. CASE q = p
    BY <2>1 DEF IInv, TypeOK
  <2>2. CASE q # p
    <3>1. ProcOK(q, proc[q], api, now, asked) /\ proc'[q] = proc[q] /\ api \in Object /\ now \in Nat
      BY <2>2 DEF IInv, TypeOK
    <3> QED BY <3>1, BystanderOK
  <2> QED BY <2>1, <2>2
<1>3. api.rv \in Nat /\ \A r \in Replicas : cache[r].rv \in Nat
  BY DEF IInv, TypeOK, Object
<1>4. \A r \in Replicas : Copy(cache'[r], api', now')
  BY <1>3 DEF IInv, Copy
<1>5. Copy(api', api', now')
  BY <1>3 DEF Copy
<1>6. api'.rv = 0 => api' = Absent
  BY <1>3
<1> QED BY <1>1, <1>2, <1>4, <1>5, <1>6 DEF IInv

\* A status write as the API server applies it.
LEMMA NewVersion ==
    ASSUME NEW a \in Object, NEW st \in Status
    PROVE  LET b == [a EXCEPT !.rv = @ + 1, !.st = st]
           IN  b \in Object /\ b.rv = a.rv + 1 /\ b.st = st
<1> DEFINE v == a.rv + 1
           b == [a EXCEPT !.rv = v, !.st = st]
<1>1. v \in Nat
  BY DEF Object
<1> HIDE DEF v
<1>2. b \in Object
  BY <1>1, Zenon DEF Object
<1>3. b.rv = v /\ b.st = st
  BY DEF Object
<1> QED BY <1>2, <1>3 DEF v

\* The handlers up to their first status operation.
LEMMA EnsureSteps ==
    ASSUME IInv, NEW p \in Procs,
           \/ \E r \in Replicas : Begin(p, r)
           \/ ensureFound(p) \/ ensureCreate(p) \/ ensureFails(p) \/ stampCreated(p)
    PROVE  IInv'
<1> DEFINE s == proc[p]
           op == FirstOp(p)
<1>1. s \in ProcState /\ ProcOK(p, s, api, now, asked) /\ asked \subseteq Builds
  BY DEF IInv, TypeOK
<1>2. op \in {"start", "touch"} /\ (op = "start" => p \in Routes)
  BY KindOf DEF FirstOp
<1> DEFINE c == Call(s, op)
<1>3. /\ c \in ProcState /\ c.base = Absent /\ c.t = 0 /\ c.live = {} /\ c.op = op
      /\ c.pc = "get" /\ c.rep = s.rep
  <2>1. op \in Ops
    BY <1>2 DEF Ops
  <2>2. Starting(c, op, s.rep)
    BY <1>1, <2>1, CallFields, Zenon
  <2> HIDE DEF c
  <2> QED BY <2>2, Zenon DEF Starting
<1>4. s.pc \in Active => ProcOK(p, c, api, now, asked)
  <2> HIDE DEF c, op
  <2> QED BY <1>1, <1>2, <1>3, NoCopyOK DEF ProcOK
<1>a. ASSUME NEW r \in Replicas, Begin(p, r)
      PROVE  IInv'
  <2> DEFINE n == [Idle EXCEPT !.pc = "ensure", !.rep = r]
  <2>1. /\ n \in ProcState /\ n.base = Absent /\ n.t = 0 /\ n.live = {} /\ n.op = "none"
        /\ n.pc = "ensure" /\ n.rep = r
    BY IdleType, Zenon DEF Idle, ProcState, PCs, Maybe
  <2>2. proc' = [proc EXCEPT ![p] = n] /\ UNCHANGED <<now, api, cache, history>>
    BY <1>a, Zenon DEF Begin, Goto
  <2> HIDE DEF n
  <2>3. ProcOK(p, n, api, now, asked)
    BY <2>1, NoCopyOK
  <2> QED BY <1>1, <2>2, <2>3, MoveStep, Zenon DEF history
<1>b. CASE ensureFound(p)
  BY <1>1, <1>4, <1>b, MoveStep, Zenon DEF ensureFound, Goto, history, At, Active
<1>c. CASE ensureCreate(p) /\ api.rv # 0
  BY <1>1, <1>4, <1>c, MoveStep DEF ensureCreate, Goto, history, At, Active
<1>d. CASE ensureCreate(p) /\ api.rv = 0
  <2> DEFINE n == [s EXCEPT !.pc = "stamp", !.base = api', !.t = now]
  <2>1. /\ api = Absent /\ api' = [Absent EXCEPT !.rv = 1] /\ s.pc = "ensure"
        /\ proc' = [proc EXCEPT ![p] = n] /\ UNCHANGED <<now, cache, history>>
    BY <1>d DEF ensureCreate, Goto, IInv, At
  <2>2. /\ api' \in Object /\ api'.rv = 1 /\ api'.st = api.st /\ IsFiniteSet(api'.st.entries)
        /\ api'.st.last = None /\ api.rv = 0
    BY <1>d, <2>1, AbsentOK DEF Object
  <2>3. /\ n \in ProcState /\ n.base = api' /\ n.t = now /\ n.live = s.live /\ n.op = s.op
        /\ n.pc = "stamp" /\ n.rep = s.rep
    BY <1>1, <2>2, Zenon DEF ProcState, PCs, IInv, TypeOK
  <2> HIDE DEF n
  <2>4. Copy(api', api', now)
    BY <2>2 DEF Copy
  <2>5. api'.st.entries = {}
    BY <2>1, <2>2 DEF Absent, EmptyStatus
  <2>6. ProcOK(p, n, api', now, asked)
    BY <1>1, <2>1, <2>3, <2>4, <2>5 DEF ProcOK, Unexpired, IInv, TypeOK, Active
  <2>7. RegisteredBuildsStayCounted' /\ GrantsRecorded' /\ SingleExporterPerWindow'
    BY <2>1, <2>2 DEF IInv, RegisteredBuildsStayCounted, GrantsRecorded,
       SingleExporterPerWindow, history
  <2>8. /\ born' \in [Builds -> Maybe(Nat)] /\ shed' \subseteq Builds
        /\ grantAt' \in [Builds -> Maybe(Nat)]
    BY <2>1 DEF history, IInv, TypeOK
  <2>9. api'.rv = api.rv + 1 /\ (api'.st.last # None => api'.st.last <= now)
    BY <2>2
  <2>10. UNCHANGED <<now, cache, asked>>
    BY <2>1 DEF history
  <2> QED BY <2>1, <2>2, <2>6, <2>7, <2>8, <2>9, <2>10, WriteStep, Zenon
<1>e. CASE ensureFails(p)
  <2>1. ProcOK(p, End("failed"), api, now, asked)
    <3>1. "failed" \in PCs
      BY DEF PCs
    <3> QED BY <3>1, EndFields, NoCopyOK DEF Active
  <2> DEFINE n == End("failed")
  <2>2. proc' = [proc EXCEPT ![p] = n] /\ UNCHANGED <<now, api, cache, history>>
    BY <1>e DEF ensureFails, Goto
  <2> HIDE DEF n
  <2>3. ProcOK(p, n, api, now, asked)
    BY <2>1 DEF n
  <2> QED BY <1>1, <2>2, <2>3, MoveStep, Zenon DEF history
<1>f. CASE stampCreated(p) /\ api' = api
  BY <1>1, <1>4, <1>f, MoveStep, Zenon DEF stampCreated, Goto, history, At, Active
<1>g. CASE stampCreated(p) /\ api' # api
  <2>1. /\ s.pc = "stamp" /\ s.base.rv = api.rv /\ api' = [api EXCEPT !.rv = @ + 1, !.st = [@ EXCEPT !.last = s.t]]
        /\ proc' = [proc EXCEPT ![p] = c] /\ UNCHANGED <<now, cache, history>>
    BY <1>g DEF stampCreated, Goto, At
  <2>2. /\ api \in Object /\ api.st \in Status /\ s.t \in Nat /\ s.t <= now
        /\ IsFiniteSet(api.st.entries) /\ now \in Nat
    BY <1>1 DEF IInv, TypeOK, Object, Copy, ProcOK, ProcState
  <2> DEFINE st == [api.st EXCEPT !.last = s.t]
  <2>a. /\ st \in Status /\ st.entries = api.st.entries /\ st.last = s.t
        /\ st.grant = api.st.grant
    BY <2>2 DEF Status, Maybe
  <2>b. api' = [api EXCEPT !.rv = @ + 1, !.st = st]
    BY <2>1
  <2> HIDE DEF st
  <2>3. /\ api' \in Object /\ api'.rv = api.rv + 1 /\ api'.st.entries = api.st.entries
        /\ api'.st.last = s.t /\ api'.st.grant = api.st.grant
    <3>1. api'.rv = api.rv + 1 /\ api'.st = st /\ api' \in Object
      BY <2>2, <2>a, <2>b, NewVersion, Zenon
    <3> QED BY <3>1, <2>a
  <2> HIDE DEF c
  <2>c. ProcOK(p, c, api, now, asked)
    BY <1>4, <2>1 DEF Active
  <2>d. now <= now
    BY <2>2
  <2>4. ProcOK(p, c, api', now, asked)
    BY <2>2, <2>3, <2>c, <2>d, BystanderOK, Zenon
  <2>5. RegisteredBuildsStayCounted' /\ GrantsRecorded' /\ SingleExporterPerWindow'
    BY <2>1, <2>3 DEF IInv, RegisteredBuildsStayCounted, GrantsRecorded,
       SingleExporterPerWindow, history
  <2>6. /\ born' \in [Builds -> Maybe(Nat)] /\ shed' \subseteq Builds
        /\ grantAt' \in [Builds -> Maybe(Nat)]
    BY <2>1 DEF history, IInv, TypeOK
  <2> QED BY <2>1, <2>2, <2>3, <2>4, <2>5, <2>6, WriteStep, Zenon DEF history
<1> QED BY <1>a, <1>b, <1>c, <1>d, <1>e, <1>f, <1>g

\* A status write at the current version, after which the process holds no
\* copy: shared by the write that is acknowledged and the one whose answer is
\* lost.
LEMMA StoreStep ==
    ASSUME IInv, NEW p \in Procs, proc[p].base.rv = api.rv, NEW st \in Results(p), Store(p, st),
           NEW s, ProcOK(p, s, api, now, asked), proc' = [proc EXCEPT ![p] = s],
           \/ grantAt' = grantAt
           \/ proc[p].op = "grant" /\ grantAt' = [grantAt EXCEPT ![p[2]] = proc[p].t],
           UNCHANGED <<now, cache, asked>>
    PROVE  IInv'
<1> DEFINE o == proc[p]
<1>1. /\ TypeOK /\ ProcOK(p, o, api, now, asked) /\ o.base = api /\ o.t \in Nat /\ o.t <= now
      /\ api \in Object /\ api.st \in Status /\ now \in Nat
  BY Zenon DEF IInv, TypeOK, ProcOK, Copy, ProcState, Object
<1>2. /\ st \in Status /\ IsFiniteSet(st.entries)
      /\ st.last = api.st.last \/ st.last = o.t
      /\ \/ st.grant = api.st.grant
         \/ o.op = "grant" /\ GrantDue(o) /\ st.grant = o.t
      /\ o.op = "grant" => GrantDue(o) /\ st.grant = o.t
      /\ o.op = "start" => Entry(InflightID(p[2]), o.t) \in st.entries
      /\ \A b \in Builds : \A e \in Unexpired(api, now) :
            e.id = InflightID(b) => e \in st.entries \/ b \in asked \cup Displaced(p, st)
  BY <1>1, ResultsKeep
<1>3. api' \in Object /\ api'.rv = api.rv + 1 /\ api'.st = st
  BY <1>1, <1>2, NewVersion, Zenon DEF Store
<1>4. api'.st.last # None => api'.st.last <= now
  BY <1>1, <1>2, <1>3 DEF IInv, Copy
<1>5. ProcOK(p, s, api', now, asked)
  BY <1>1, <1>3, BystanderOK
<1>6. o.op \in {"start", "grant"} => p \in Routes /\ p[2] \in Builds
  BY <1>1, KindOf DEF ProcOK
<1>7. /\ born' \in [Builds -> Maybe(Nat)] /\ shed' \subseteq Builds
      /\ grantAt' \in [Builds -> Maybe(Nat)]
  BY <1>1, <1>6 DEF Store, TypeOK, Maybe, Displaced
<1>8. RegisteredBuildsStayCounted'
  <2> SUFFICES ASSUME NEW b \in Builds, born'[b] # None, b \notin asked' \cup shed',
                      now' - born'[b] <= maxBuildAge
               PROVE  Entry(InflightID(b), born'[b]) \in api'.st.entries
    BY DEF RegisteredBuildsStayCounted
  <2>1. CASE o.op = "start" /\ b = p[2]
    BY <1>1, <1>2, <1>3, <2>1 DEF Store, TypeOK
  <2>2. CASE ~(o.op = "start" /\ b = p[2])
    <3>1. born'[b] = born[b] /\ b \notin asked \cup Displaced(p, st) \cup shed
      BY <1>1, <2>2 DEF Store, TypeOK
    <3> DEFINE e == Entry(InflightID(b), born[b])
    <3>2. e \in api.st.entries
      BY <3>1 DEF IInv, RegisteredBuildsStayCounted
    <3>3. e.id = InflightID(b) /\ e.since = born[b]
      BY DEF Entry
    <3> HIDE DEF e
    <3>4. e \in Unexpired(api, now)
      BY <3>1, <3>2, <3>3 DEF Unexpired
    <3>5. e \in st.entries
      BY <1>2, <3>1, <3>3, <3>4
    <3> QED BY <1>3, <3>1, <3>5 DEF e
  <2> QED BY <2>1, <2>2
<1>9. o.op = "grant" => \A b \in Builds : grantAt[b] # None =>
         o.t - grantAt[b] >= ExportInterval /\ grantAt[b] <= o.t
  <2> SUFFICES ASSUME o.op = "grant", NEW b \in Builds, grantAt[b] # None
               PROVE  o.t - grantAt[b] >= ExportInterval /\ grantAt[b] <= o.t
    OBVIOUS
  <2>1. api.st.grant # None /\ grantAt[b] <= api.st.grant
    BY DEF IInv, GrantsRecorded
  <2>2. o.t - api.st.grant >= ExportInterval /\ ExportInterval > 0 /\ ExportInterval \in Int
    BY <1>1, <1>2, <2>1, StoreAssumption DEF GrantDue, ProcOK
  <2>3. api.st.grant \in Int /\ grantAt[b] \in Nat
    BY <1>1, <2>1 DEF Status, Maybe, TypeOK
  <2> QED BY <1>1, <2>1, <2>2, <2>3
<1>10. GrantsRecorded'
  <2> SUFFICES ASSUME NEW b \in Builds, grantAt'[b] # None
               PROVE  st.grant # None /\ grantAt'[b] <= st.grant
    BY <1>3 DEF GrantsRecorded
  <2>1. o.t # None
    BY <1>1, NoneAssumption
  <2>2. CASE o.op = "grant"
    <3>1. st.grant = o.t /\ o.t <= o.t
      BY <1>1, <1>2, <2>2
    <3>2. grantAt'[b] = grantAt[b] \/ grantAt'[b] = o.t
      BY <1>1 DEF TypeOK
    <3> QED BY <1>9, <2>1, <2>2, <3>1, <3>2, Zenon
  <2>3. CASE o.op # "grant"
    BY <1>2, <2>3 DEF IInv, GrantsRecorded
  <2> QED BY <2>2, <2>3
<1>11. SingleExporterPerWindow'
  <2>1. CASE grantAt' = grantAt
    BY <2>1 DEF IInv, SingleExporterPerWindow
  <2>2. CASE o.op = "grant" /\ grantAt' = [grantAt EXCEPT ![p[2]] = o.t]
    <3> SUFFICES ASSUME NEW b \in Builds, NEW c \in Builds, b # c,
                        grantAt'[b] # None, grantAt'[c] # None
                 PROVE  \/ grantAt'[b] - grantAt'[c] >= ExportInterval
                        \/ grantAt'[c] - grantAt'[b] >= ExportInterval
      BY DEF SingleExporterPerWindow
    <3>1. \A d \in Builds : grantAt'[d] = IF d = p[2] THEN o.t ELSE grantAt[d]
      BY <1>1, <2>2 DEF TypeOK
    <3>2. CASE b = p[2]
      BY <1>9, <2>2, <3>1, <3>2
    <3>3. CASE c = p[2]
      BY <1>9, <2>2, <3>1, <3>3
    <3>4. CASE b # p[2] /\ c # p[2]
      BY <3>1, <3>4 DEF IInv, SingleExporterPerWindow
    <3> QED BY <3>2, <3>3, <3>4
  <2> QED BY <2>1, <2>2
<1> HIDE DEF o
<1> QED BY <1>2, <1>3, <1>4, <1>5, <1>7, <1>8, <1>10, <1>11, WriteStep, Zenon

\* The read-modify-write loop.
LEMMA OperationSteps ==
    ASSUME IInv, NEW p \in Procs,
           \/ getMissing(p) \/ getCached(p) \/ putNothing(p)
           \/ putApplied(p) \/ putConflict(p) \/ putLost(p)
    PROVE  IInv'
<1> DEFINE s == proc[p]
<1>1. /\ s \in ProcState /\ ProcOK(p, s, api, now, asked) /\ asked \subseteq Builds
      /\ now \in Nat /\ s.tries \in Nat
  BY DEF IInv, TypeOK, ProcState
<1>2. ProcOK(p, Return(p), api, now, asked) /\ s.rep \in Replicas
  <2>1. s.pc \in {"get", "put"}
    BY DEF getMissing, getCached, putNothing, putApplied, putConflict, putLost, At
  <2> QED BY <1>1, <2>1, ReturnOK DEF Active, ProcOK
<1>3. ASSUME NEW n, ProcOK(p, n, api, now, asked), proc' = [proc EXCEPT ![p] = n],
             UNCHANGED <<now, api, cache, history>>
      PROVE  IInv'
  BY <1>1, <1>3, MoveStep, Zenon DEF history
<1>a. CASE getMissing(p)
  <2> DEFINE n == [s EXCEPT !.tries = @ + 1]
  <2>1. /\ n \in ProcState /\ n.base = s.base /\ n.t = s.t /\ n.live = s.live
        /\ n.op = s.op /\ n.pc = s.pc /\ n.rep = s.rep
    BY <1>1 DEF ProcState
  <2> HIDE DEF n
  <2>2. ProcOK(p, n, api, now, asked)
    BY <1>1, <2>1 DEF ProcOK
  <2>3. /\ proc' = [proc EXCEPT ![p] = n] \/ proc' = [proc EXCEPT ![p] = Return(p)]
        /\ UNCHANGED <<now, api, cache, history>>
    BY <1>a DEF getMissing, Goto, n
  <2> QED BY <1>2, <1>3, <2>2, <2>3
<1>b. CASE getCached(p)
  <2> DEFINE o == cache[s.rep]
             n == [s EXCEPT !.pc = "put", !.base = o, !.t = now]
  <2>1. /\ proc' = [proc EXCEPT ![p] = n] /\ UNCHANGED <<now, api, cache, history>>
        /\ o.rv > 0 /\ s.pc = "get"
    BY <1>b DEF getCached, Goto, At
  <2>2. Copy(o, api, now)
    BY <1>2 DEF IInv
  <2>3. /\ n \in ProcState /\ n.base = o /\ n.t = now /\ n.live = s.live
        /\ n.op = s.op /\ n.pc = "put" /\ n.rep = s.rep
    BY <1>1, <2>2, Zenon DEF ProcState, PCs, Copy
  <2> HIDE DEF n, o
  <2>4. now <= now /\ s.op # "sweep"
    BY <1>1, <2>1 DEF ProcOK
  <2>5. ProcOK(p, n, api, now, asked)
    BY <1>1, <1>2, <2>1, <2>2, <2>3, <2>4, Zenon DEF ProcOK
  <2> QED BY <1>3, <2>1, <2>5, Zenon
<1>c. CASE putNothing(p)
  BY <1>2, <1>3, <1>c, Zenon DEF putNothing, Goto
<1>d. CASE putApplied(p)
  <2> DEFINE n == IF p[1] = "reconcile" THEN [Idle EXCEPT !.pc = "snapshot"] ELSE Return(p)
  <2>1. ProcOK(p, n, api, now, asked)
    <3>1. ProcOK(p, End("snapshot"), api, now, asked)
      <4>1. "snapshot" \in PCs
        BY DEF PCs
      <4> QED BY <4>1, EndFields, NoCopyOK DEF Active
    <3> QED BY <1>2, <3>1 DEF End
  <2>2. PICK st \in Results(p) : Store(p, st)
    BY <1>d DEF putApplied
  <2>3. /\ proc' = [proc EXCEPT ![p] = n] /\ UNCHANGED <<now, cache, asked>>
        /\ s.base.rv = api.rv
        /\ \/ grantAt' = grantAt
           \/ s.op = "grant" /\ grantAt' = [grantAt EXCEPT ![p[2]] = s.t]
    BY <1>d DEF putApplied, Goto
  <2> HIDE DEF n
  <2> QED BY <2>1, <2>2, <2>3, StoreStep, Zenon
<1>e. CASE putConflict(p)
  <2> DEFINE c == Call(s, s.op)
             n == [c EXCEPT !.tries = s.tries + 1]
  <2>1. /\ c \in ProcState /\ c.base = Absent /\ c.t = 0 /\ c.live = {} /\ c.op = s.op
        /\ c.pc = "get" /\ c.rep = s.rep
    <3>1. s.op \in Ops
      BY <1>1 DEF ProcState
    <3>2. Starting(c, s.op, s.rep)
      BY <1>1, <3>1, CallFields, Zenon
    <3> HIDE DEF c
    <3> QED BY <3>2, Zenon DEF Starting
  <2>2. /\ n \in ProcState /\ n.base = Absent /\ n.t = 0 /\ n.live = {} /\ n.op = s.op
        /\ n.pc = "get" /\ n.rep = s.rep
    <3> HIDE DEF c
    <3> QED BY <1>1, <2>1 DEF ProcState
  <2>3. /\ \/ p[1] # "reconcile" /\ proc' = [proc EXCEPT ![p] = n]
           \/ proc' = [proc EXCEPT ![p] = Return(p)]
        /\ UNCHANGED <<now, api, cache, history>>
    BY <1>e DEF putConflict, Goto
  <2> HIDE DEF n, c
  <2>4. p[1] # "reconcile" => ProcOK(p, n, api, now, asked)
    BY <1>1, <1>2, <2>2, NoCopyOK, Zenon DEF ProcOK, Reconciles
  <2> QED BY <1>2, <1>3, <2>3, <2>4
<1>f. CASE putLost(p)
  <2>1. CASE \E st \in Results(p) : s.base.rv = api.rv /\ Store(p, st)
    <3>1. PICK st \in Results(p) : s.base.rv = api.rv /\ Store(p, st)
      BY <2>1
    <3>2. proc' = [proc EXCEPT ![p] = Return(p)] /\ UNCHANGED <<now, cache, asked, grantAt>>
      BY <1>f DEF putLost, Goto
    <3> QED BY <1>2, <3>1, <3>2, StoreStep, Zenon
  <2>2. CASE ~ \E st \in Results(p) : s.base.rv = api.rv /\ Store(p, st)
    <3>1. proc' = [proc EXCEPT ![p] = Return(p)] /\ UNCHANGED <<now, api, cache, history>>
      BY <1>f, <2>2 DEF putLost, Goto, history
    <3> QED BY <1>2, <1>3, <3>1, Zenon
  <2> QED BY <2>1, <2>2, Zenon
<1> QED BY <1>a, <1>b, <1>c, <1>d, <1>e, <1>f

\* The rest of handleRoute.
LEMMA ServeSteps ==
    ASSUME IInv, NEW p \in Procs,
           serveReady(p) \/ serveFails(p) \/ s3Missing(p) \/ s3Read(p)
    PROVE  IInv'
<1> DEFINE s == proc[p]
<1>1. /\ s \in ProcState /\ ProcOK(p, s, api, now, asked) /\ asked \subseteq Builds
      /\ s.tries \in Nat
  BY DEF IInv, TypeOK, ProcState
<1>2. s.pc \in {"serve", "s3"} /\ s.rep \in Replicas /\ p \in Routes /\ p[2] \in Builds
  <2>1. s.pc \in {"serve", "s3"}
    BY DEF serveReady, serveFails, s3Missing, s3Read, At
  <2> QED BY <1>1, <2>1, KindOf DEF ProcOK, Active
<1>3. ASSUME NEW n, ProcOK(p, n, api, now, asked), proc' = [proc EXCEPT ![p] = n],
             UNCHANGED <<now, api, cache, history>>
      PROVE  IInv'
  BY <1>1, <1>3, MoveStep, Zenon DEF history
<1>4. ProcOK(p, End("done"), api, now, asked)
  <2>1. "done" \in PCs
    BY DEF PCs
  <2> QED BY <2>1, EndFields, NoCopyOK DEF Active
<1>a. CASE serveReady(p)
  <2>1. ProcOK(p, Between(s, "s3"), api, now, asked)
    <3>1. "s3" \in PCs
      BY DEF PCs
    <3> QED BY <1>1, <1>2, <3>1, BetweenFields, NoCopyOK
  <2> QED BY <1>3, <1>a, <2>1, Zenon DEF serveReady, Goto
<1>b. CASE serveFails(p)
  <2> DEFINE n == Call(s, "end")
  <2>1. /\ n \in ProcState /\ n.base = Absent /\ n.t = 0 /\ n.live = {} /\ n.op = "end"
        /\ n.pc = "get" /\ n.rep = s.rep
    <3>1. "end" \in Ops
      BY DEF Ops
    <3>2. Starting(n, "end", s.rep)
      BY <1>1, <3>1, CallFields, Zenon
    <3> HIDE DEF n
    <3> QED BY <3>2, Zenon DEF Starting
  <2>2. /\ proc' = [proc EXCEPT ![p] = n] /\ asked' = asked \cup {p[2]}
        /\ UNCHANGED <<now, api, cache, born, shed, grantAt>>
    BY <1>b DEF serveFails, Goto
  <2> HIDE DEF n
  <2>3. ProcOK(p, n, api, now, asked')
    BY <1>2, <2>1, <2>2, NoCopyOK
  <2> QED BY <1>1, <1>2, <2>2, <2>3, MoveStep, Zenon
<1>c. CASE s3Missing(p)
  <2> DEFINE n == [s EXCEPT !.tries = @ + 1]
  <2>1. /\ n \in ProcState /\ n.base = s.base /\ n.t = s.t /\ n.live = s.live
        /\ n.op = s.op /\ n.pc = s.pc /\ n.rep = s.rep
    BY <1>1 DEF ProcState
  <2>2. /\ proc' = [proc EXCEPT ![p] = n] \/ proc' = [proc EXCEPT ![p] = End("done")]
        /\ UNCHANGED <<now, api, cache, history>>
    BY <1>c, Zenon DEF s3Missing, Goto
  <2> HIDE DEF n
  <2>3. ProcOK(p, n, api, now, asked)
    BY <1>1, <2>1 DEF ProcOK
  <2> QED BY <1>3, <1>4, <2>2, <2>3
<1>d. CASE s3Read(p)
  <2> DEFINE n == Call(s, "grant")
  <2>1. /\ n \in ProcState /\ n.base = Absent /\ n.t = 0 /\ n.live = {} /\ n.op = "grant"
        /\ n.pc = "get" /\ n.rep = s.rep
    <3>1. "grant" \in Ops
      BY DEF Ops
    <3>2. Starting(n, "grant", s.rep)
      BY <1>1, <3>1, CallFields, Zenon
    <3> HIDE DEF n
    <3> QED BY <3>2, Zenon DEF Starting
  <2>2. /\ \/ ExportInterval > 0 /\ proc' = [proc EXCEPT ![p] = n]
           \/ proc' = [proc EXCEPT ![p] = End("done")]
        /\ UNCHANGED <<now, api, cache, history>>
    BY <1>d, Zenon DEF s3Read, Goto
  <2> HIDE DEF n
  <2>3. ExportInterval > 0 => ProcOK(p, n, api, now, asked)
    BY <1>2, <2>1, NoCopyOK
  <2> QED BY <1>3, <1>4, <2>2, <2>3
<1> QED BY <1>a, <1>b, <1>c, <1>d

\* The start of handleComplete.
LEMMA CompleteStep ==
    ASSUME IInv, NEW b \in Builds, NEW r \in Replicas, BeginComplete(b, r)
    PROVE  IInv'
<1> DEFINE p == <<"complete", b>>
           op == IF b \in Unnamed THEN "endOldest" ELSE "end"
           n == Call([Idle EXCEPT !.rep = r], op)
<1>1. p \in Procs /\ p \in Completes /\ p[2] = b /\ asked \subseteq Builds
  BY DEF Procs, Completes, IInv, TypeOK
<1>2. /\ proc' = [proc EXCEPT ![p] = n]
      /\ asked' = IF b \in Unnamed THEN asked ELSE asked \cup {b}
      /\ UNCHANGED <<now, api, cache, born, shed, grantAt>>
  BY DEF BeginComplete, Goto
<1>3. [Idle EXCEPT !.rep = r] \in ProcState /\ [Idle EXCEPT !.rep = r].rep = r
  BY IdleType DEF ProcState, Maybe
<1>4. /\ n \in ProcState /\ n.base = Absent /\ n.t = 0 /\ n.live = {} /\ n.op = op
      /\ n.pc = "get" /\ n.rep = r
  <2>1. op \in Ops
    BY DEF Ops
  <2> HIDE DEF op
  <2>2. Starting(n, op, [Idle EXCEPT !.rep = r].rep)
    BY <1>3, <2>1, CallFields, Zenon
  <2> HIDE DEF n
  <2> QED BY <1>3, <2>2, Zenon DEF Starting
<1>5. op \in {"end", "endOldest"} /\ (op = "end" => b \in asked')
  BY <1>2
<1> HIDE DEF n, op, p
<1>6. ProcOK(p, n, api, now, asked')
  BY <1>1, <1>4, <1>5, NoCopyOK
<1>7. asked \subseteq asked' /\ asked' \subseteq Builds
  BY <1>1, <1>2
<1> QED BY <1>1, <1>2, <1>6, <1>7, MoveStep, Zenon

\* The reconcile loop.
LEMMA ReconcileSteps ==
    ASSUME IInv, NEW p \in Procs,
           \/ \E r \in Replicas : recGet(p, r)
           \/ recKeep(p) \/ recFresh(p) \/ recUnchanged(p) \/ recReturn(p)
           \/ patchLastSnapshot(p)
    PROVE  IInv'
<1> DEFINE s == proc[p]
<1>1. /\ s \in ProcState /\ ProcOK(p, s, api, now, asked) /\ asked \subseteq Builds
      /\ now \in Nat /\ api \in Object /\ api.st \in Status /\ IsFiniteSet(api.st.entries)
  BY DEF IInv, TypeOK, Copy, Object
<1>2. ASSUME NEW n, ProcOK(p, n, api, now, asked), proc' = [proc EXCEPT ![p] = n],
             UNCHANGED <<now, api, cache, history>>
      PROVE  IInv'
  BY <1>1, <1>2, MoveStep, Zenon DEF history
<1>3. ProcOK(p, End("snapshot"), api, now, asked) /\ ProcOK(p, Idle, api, now, asked)
  <2>1. "snapshot" \in PCs
    BY DEF PCs
  <2>2. /\ Idle.base = Absent /\ Idle.t = 0 /\ Idle.live = {} /\ Idle.op = "none"
        /\ Idle.pc = "idle"
    BY DEF Idle
  <2> QED BY <2>1, <2>2, EndFields, IdleType, NoCopyOK DEF Active
<1>a. ASSUME NEW r \in Replicas, recGet(p, r)
      PROVE  IInv'
  <2> DEFINE o == cache[r]
             lv == liveInflight(o.st, now)
             n == [Idle EXCEPT !.pc = "decide", !.op = "sweep", !.rep = r, !.base = o,
                               !.t = now, !.live = lv]
  <2>1. /\ proc' = [proc EXCEPT ![p] = n] /\ UNCHANGED <<now, api, cache, history>>
        /\ p \in Reconciles
    BY <1>a, Zenon DEF recGet, Goto
  <2>2. Copy(o, api, now) /\ o \in Object /\ o.st \in Status /\ IsFiniteSet(o.st.entries)
    BY DEF IInv, Copy, Object
  <2>3. /\ lv \subseteq Entries /\ IsFiniteSet(lv)
        /\ \A e \in o.st.entries : now - e.since <= maxBuildAge => e \in lv
    BY <1>1, <2>2, LiveInflightKeeps
  <2> HIDE DEF lv, o
  <2>4. /\ n \in ProcState /\ n.base = o /\ n.t = now /\ n.live = lv
        /\ n.op = "sweep" /\ n.pc = "decide" /\ n.rep = r
    BY <1>1, <2>2, <2>3, IdleType, Zenon DEF ProcState, PCs, Ops, Maybe
  <2>5. o.rv = api.rv => Unexpired(api, now) \subseteq lv
    BY <2>2, <2>3, Zenon DEF Copy, Unexpired
  <2> HIDE DEF n
  <2>6. now <= now
    BY <1>1
  <2>7. ProcOK(p, n, api, now, asked)
    BY <1>1, <2>1, <2>2, <2>3, <2>4, <2>5, <2>6, Zenon DEF ProcOK
  <2> QED BY <1>2, <2>1, <2>7, Zenon
<1>b. CASE recKeep(p)
  <2> DEFINE n == [s EXCEPT !.pc = "put"]
  <2>1. /\ n \in ProcState /\ n.base = s.base /\ n.t = s.t /\ n.live = s.live
        /\ n.op = s.op /\ n.pc = "put" /\ n.rep = s.rep
    BY <1>1 DEF ProcState, PCs
  <2>2. /\ proc' = [proc EXCEPT ![p] = n] /\ UNCHANGED <<now, api, cache, history>>
        /\ s.pc = "decide"
    BY <1>b DEF recKeep, Goto, At
  <2> HIDE DEF n
  <2>3. ProcOK(p, n, api, now, asked)
    BY <1>1, <2>1, <2>2, Zenon DEF ProcOK, Active
  <2> QED BY <1>2, <2>2, <2>3, Zenon
<1>c. CASE recFresh(p)
  <2> DEFINE lv == liveInflight(api.st, now)
             n == [s EXCEPT !.pc = "put", !.live = lv]
  <2>1. lv \subseteq Entries /\ IsFiniteSet(lv) /\ Unexpired(api, now) \subseteq lv
    <3>1. /\ lv \subseteq Entries /\ IsFiniteSet(lv)
          /\ \A e \in api.st.entries : now - e.since <= maxBuildAge => e \in lv
      BY <1>1, LiveInflightKeeps
    <3> HIDE DEF lv
    <3> QED BY <3>1, Zenon DEF Unexpired
  <2>2. /\ proc' = [proc EXCEPT ![p] = n] /\ UNCHANGED <<now, api, cache, history>>
        /\ s.pc = "decide"
    BY <1>c DEF recFresh, Goto, At
  <2> HIDE DEF lv
  <2>3. /\ n \in ProcState /\ n.base = s.base /\ n.t = s.t /\ n.live = lv
        /\ n.op = s.op /\ n.pc = "put" /\ n.rep = s.rep
    BY <1>1, <2>1, Zenon DEF ProcState, PCs
  <2> HIDE DEF n
  <2>4. ProcOK(p, n, api, now, asked)
    BY <1>1, <2>1, <2>2, <2>3, Zenon DEF ProcOK, Active
  <2> QED BY <1>2, <2>2, <2>4, Zenon
<1>d. CASE recUnchanged(p)
  BY <1>2, <1>3, <1>d, Zenon DEF recUnchanged, Goto, End
<1>e. CASE recReturn(p)
  BY <1>2, <1>3, <1>e, Zenon DEF recReturn, Goto
<1>f. CASE patchLastSnapshot(p)
  <2> DEFINE a == [api EXCEPT !.rv = @ + 1, !.st = api.st]
  <2>1. api' = a
    BY <1>1, <1>f, Zenon DEF patchLastSnapshot, Object
  <2>2. a \in Object /\ a.rv = api.rv + 1 /\ a.st = api.st
    BY <1>1, NewVersion, Zenon
  <2> HIDE DEF a
  <2>3. api' \in Object /\ api'.rv = api.rv + 1 /\ api'.st = api.st
    BY <2>1, <2>2
  <2>4. proc' = [proc EXCEPT ![p] = Idle] /\ UNCHANGED <<now, cache, history>>
    BY <1>f DEF patchLastSnapshot, Goto
  <2>5. ProcOK(p, Idle, api', now, asked)
    BY <1>1, <1>3, <2>3, BystanderOK
  <2>6. RegisteredBuildsStayCounted' /\ GrantsRecorded' /\ SingleExporterPerWindow'
    BY <2>3, <2>4, Zenon DEF IInv, RegisteredBuildsStayCounted, GrantsRecorded,
       SingleExporterPerWindow, history
  <2>7. /\ born' \in [Builds -> Maybe(Nat)] /\ shed' \subseteq Builds
        /\ grantAt' \in [Builds -> Maybe(Nat)] /\ UNCHANGED <<now, cache, asked>>
    BY <2>4 DEF history, IInv, TypeOK
  <2>8. api'.st.last # None => api'.st.last <= now
    BY <2>3 DEF IInv, Copy
  <2>9. IsFiniteSet(api'.st.entries)
    BY <1>1, <2>3
  <2> QED BY <2>3, <2>4, <2>5, <2>6, <2>7, <2>8, <2>9, WriteStep, Zenon
<1> QED BY <1>a, <1>b, <1>c, <1>d, <1>e, <1>f

\* Edits of the spec, watch events and the clock.
LEMMA EnvironmentSteps ==
    ASSUME IInv, \/ \E e \in Edits : EditPolicy(e)
                 \/ \E r \in Replicas : Sync(r)
                 \/ Tick
    PROVE  IInv'
<1>1. /\ api \in Object /\ api.st \in Status /\ now \in Nat /\ Copy(api, api, now)
      /\ api.rv \in Nat /\ \A r \in Replicas : cache[r] \in Object /\ cache[r].rv \in Nat
      /\ \A p \in Procs : ProcOK(p, proc[p], api, now, asked)
  BY DEF IInv, TypeOK, Object
<1>a. ASSUME NEW e \in Edits, EditPolicy(e)
      PROVE  IInv'
  <2>1. /\ api' = [api EXCEPT !.rv = @ + 1, !.policy = e[2]]
        /\ UNCHANGED <<now, cache, proc, history>> /\ e[2] \in Policies
    BY <1>a, StoreAssumption, Zenon DEF EditPolicy
  <2> DEFINE v == api.rv + 1
  <2>2. v \in Nat /\ v > api.rv
    BY <1>1
  <2> HIDE DEF v
  <2>3. api' \in Object /\ api'.rv = v /\ api'.st = api.st
    BY <1>1, <2>1, <2>2, Zenon DEF Object, v
  <2>4. \A p \in Procs : ProcOK(p, proc'[p], api', now', asked')
    <3> TAKE p \in Procs
    <3>1. ProcOK(p, proc[p], api, now, asked) /\ api'.rv = api.rv + 1 /\ now <= now
      BY <1>1, <2>3 DEF v
    <3>2. ProcOK(p, proc[p], api', now, asked)
      BY <1>1, <2>3, <3>1, BystanderOK
    <3> QED BY <2>1, <3>2 DEF history
  <2>5. Copy(api', api', now') /\ \A r \in Replicas : Copy(cache'[r], api', now')
    BY <1>1, <2>1, <2>2, <2>3 DEF IInv, Copy
  <2>6. RegisteredBuildsStayCounted' /\ GrantsRecorded' /\ SingleExporterPerWindow'
    BY <2>1, <2>3 DEF IInv, RegisteredBuildsStayCounted, GrantsRecorded,
       SingleExporterPerWindow, history
  <2>7. TypeOK'
    BY <2>1, <2>3 DEF IInv, TypeOK, history
  <2>8. api'.rv = 0 => api' = Absent
    BY <1>1, <2>2, <2>3
  <2> QED BY <2>4, <2>5, <2>6, <2>7, <2>8 DEF IInv
<1>b. ASSUME NEW r \in Replicas, Sync(r)
      PROVE  IInv'
  <2>1. cache' = [cache EXCEPT ![r] = api] /\ UNCHANGED <<now, api, proc, history>>
    BY <1>b DEF Sync
  <2>2. TypeOK'
    BY <1>1, <2>1 DEF IInv, TypeOK, history
  <2>3. \A q \in Replicas : Copy(cache'[q], api', now')
    BY <1>1, <2>1 DEF IInv, TypeOK
  <2>4. RegisteredBuildsStayCounted' /\ GrantsRecorded' /\ SingleExporterPerWindow'
    BY <2>1, Zenon DEF IInv, RegisteredBuildsStayCounted, GrantsRecorded,
       SingleExporterPerWindow, history
  <2> QED BY <1>1, <2>1, <2>2, <2>3, <2>4 DEF IInv, history
<1>c. CASE Tick
  <2>1. now' = now + 1 /\ UNCHANGED <<api, cache, proc, history>>
    BY <1>c DEF Tick
  <2>2. TypeOK' /\ now' \in Nat /\ now <= now'
    BY <1>1, <2>1 DEF IInv, TypeOK, history
  <2>3. \A p \in Procs : ProcOK(p, proc'[p], api', now', asked')
    BY <1>1, <2>1, <2>2, BystanderOK DEF history
  <2>4. Copy(api', api', now') /\ \A r \in Replicas : Copy(cache'[r], api', now')
    <3>1. \A r \in Replicas : Copy(cache[r], api, now)
      BY DEF IInv
    <3>2. Copy(api, api, now') /\ \A r \in Replicas : Copy(cache[r], api, now')
      BY <1>1, <2>2, <3>1, CopyLater
    <3> QED BY <2>1, <3>2, Zenon
  <2>5. RegisteredBuildsStayCounted'
    <3> SUFFICES ASSUME NEW b \in Builds, born[b] # None, b \notin asked \cup shed,
                        now' - born[b] <= maxBuildAge
                 PROVE  Entry(InflightID(b), born[b]) \in api.st.entries
      BY <2>1 DEF RegisteredBuildsStayCounted, history
    <3>1. born[b] \in Nat
      BY DEF IInv, TypeOK, Maybe
    <3>2. now - born[b] <= maxBuildAge
      BY <1>1, <2>1, <3>1, maxBuildAgeType
    <3> QED BY <3>2 DEF IInv, RegisteredBuildsStayCounted
  <2>6. GrantsRecorded' /\ SingleExporterPerWindow'
    BY <2>1 DEF IInv, GrantsRecorded, SingleExporterPerWindow, history
  <2> QED BY <2>1, <2>2, <2>3, <2>4, <2>5, <2>6, Zenon DEF IInv
<1> QED BY <1>a, <1>b, <1>c

-----------------------------------------------------------------------------
(* The theorems.                                                           *)

\* The inductive invariant holds when the operator is installed.
LEMMA InitKeeps == Init => IInv
<1> SUFFICES ASSUME Init PROVE IInv
  OBVIOUS
<1> PICK s \in Starts : /\ api = s.api
                        /\ proc = [p \in Procs |-> IF p \in s.cast THEN Idle ELSE Over]
  BY DEF Init
<1>1. ASSUME NEW n \in Nat, NEW c \in Policies
      PROVE  /\ Legacy(n, c) \in Object /\ Legacy(n, c).rv = 1
             /\ Legacy(n, c).st.entries = {} /\ Legacy(n, c).st.last = 0
  <2> DEFINE st == [entries |-> {}, count |-> n, last |-> 0, grant |-> None]
  <2>1. st \in Status /\ st.entries = {} /\ st.last = 0
    BY DEF Status, Maybe
  <2>2. Legacy(n, c) = [rv |-> 1, policy |-> c, st |-> st]
    BY DEF Legacy
  <2> HIDE DEF st
  <2> QED BY <2>1, <2>2 DEF Object
<1>2. Absent \in Object /\ Absent.rv = 0 /\ Absent.st.entries = {} /\ Absent.st.last = None
  BY AbsentOK DEF Absent, EmptyStatus
<1>3. /\ api \in Object /\ (api.rv = 0 => api = Absent) /\ api.st.entries = {}
      /\ (api.st.last # None => api.st.last <= 0)
  <2>1. CASE s.api = Absent
    BY <1>2, <2>1
  <2>2. CASE s.api # Absent
    <3>1. /\ s.api.st.count \in Nat /\ s.api.policy \in Policies
          /\ s.api = Legacy(s.api.st.count, s.api.policy)
      BY <2>2, StartAssumption
    <3> QED BY <1>1, <3>1
  <2> QED BY <2>1, <2>2
<1>4. Copy(api, api, now)
  BY <1>3, FS_EmptySet DEF Init, Copy, Object
<1>5. Over \in ProcState
  BY IdleType DEF Over, ProcState, PCs
<1>6. \A p \in Procs : proc[p] \in {Idle, Over}
  OBVIOUS
<1>7. TypeOK
  BY <1>3, <1>5, IdleType DEF Init, TypeOK, Maybe
<1>8. Copy(Absent, api, 0)
  BY <1>2, <1>3, FS_EmptySet DEF Copy, Object
<1>9. \A p \in Procs : ProcOK(p, proc[p], api, now, asked)
  <2>1. \A o \in {Idle, Over} : /\ o.base = Absent /\ o.t = 0 /\ o.live = {}
                                /\ o.op = "none" /\ o.pc \in {"idle", "failed"}
    BY DEF Idle, Over
  <2> QED BY <1>5, <1>6, <1>8, <2>1, IdleType, FS_EmptySet DEF ProcOK, Init, Active
<1>10. RegisteredBuildsStayCounted /\ GrantsRecorded /\ SingleExporterPerWindow
  BY DEF Init, RegisteredBuildsStayCounted, GrantsRecorded, SingleExporterPerWindow
<1>11. \A r \in Replicas : Copy(cache[r], api, now)
  BY <1>4 DEF Init
<1> QED BY <1>3, <1>4, <1>7, <1>9, <1>10, <1>11 DEF IInv

\* Every step of every handler, of the reconcile loop and of the cluster keeps
\* the inductive invariant.
LEMMA NextKeeps == IInv /\ [Next]_vars => IInv'
<1> SUFFICES ASSUME IInv, [Next]_vars PROVE IInv'
  OBVIOUS
<1>1. CASE UNCHANGED vars
  BY <1>1, Zenon DEF vars, IInv, TypeOK, RegisteredBuildsStayCounted, GrantsRecorded,
     SingleExporterPerWindow
<1>2. ASSUME NEW p \in Procs, Step(p) PROVE IInv'
  BY <1>2, EnsureSteps, OperationSteps, ServeSteps, ReconcileSteps DEF Step
<1>3. ASSUME NEW p \in Procs, NEW r \in Replicas, Begin(p, r) \/ recGet(p, r) PROVE IInv'
  BY <1>3, EnsureSteps, ReconcileSteps
<1>4. ASSUME NEW b \in Builds, NEW r \in Replicas, BeginComplete(b, r) PROVE IInv'
  BY <1>4, CompleteStep, StoreAssumption
<1>5. CASE (\E e \in Edits : EditPolicy(e)) \/ (\E r \in Replicas : Sync(r)) \/ Tick
  BY <1>5, EnvironmentSteps
<1> QED BY <1>1, <1>2, <1>3, <1>4, <1>5 DEF Next

\* The inductive invariant holds in every reachable state.
THEOREM InductiveInvariant == Spec => []IInv
  BY InitKeeps, NextKeeps, PTL DEF Spec

\* Every handler and the reconcile loop keep the state well formed.
THEOREM TypeCorrect == Spec => []TypeOK
<1>1. IInv => TypeOK
  BY DEF IInv
<1> QED BY <1>1, InductiveInvariant, PTL

\* For any number of replicas, builds and reconcile workers, with any
\* staleness, conflicts, retries and lost answers: a registered build that
\* was neither released, displaced nor expired keeps its entry.
THEOREM RegisteredStayCounted == Spec => []RegisteredBuildsStayCounted
<1>1. IInv => RegisteredBuildsStayCounted
  BY DEF IInv
<1> QED BY <1>1, InductiveInvariant, PTL

\* At most one cadence export is granted per window across the fleet.
THEOREM OneExporterPerWindow == Spec => []SingleExporterPerWindow
<1>1. IInv => SingleExporterPerWindow
  BY DEF IInv
<1> QED BY <1>1, InductiveInvariant, PTL

\* The idle clock of the project never moves back, whoever writes the status
\* from whatever copy.
THEOREM IdleClockMonotone == Spec => LastBuildTimeNeverRegresses
<1> DEFINE Kept == api.st.last # None => api'.st.last # None /\ api'.st.last >= api.st.last
<1>1. ASSUME IInv, [Next]_vars PROVE [Kept]_vars
  <2>1. /\ api \in Object /\ api.st \in Status /\ api.st.last \in Maybe(Int)
        /\ \A p \in Procs : ProcOK(p, proc[p], api, now, asked) /\ proc[p].t \in Nat
    BY <1>1 DEF IInv, TypeOK, Object, Status, ProcState
  <2>2. api'.st.last = api.st.last => Kept
    BY <2>1 DEF Maybe
  <2>3. ASSUME NEW p \in Procs, proc[p].base.rv = api.rv, api'.st.last = proc[p].t
        PROVE  Kept
    <3>1. api.st.last # None => api.st.last <= proc[p].t
      BY <2>1, <2>3 DEF ProcOK, Copy
    <3> QED BY <2>1, <2>3, <3>1, NoneAssumption DEF Maybe
  <2>4. ASSUME NEW p \in Procs, proc[p].base.rv = api.rv, NEW st \in Results(p), Store(p, st)
        PROVE  Kept
    <3>1. TypeOK /\ proc[p].base = api
      BY <1>1, <2>1, <2>4 DEF IInv, ProcOK, Copy
    <3>2. st \in Status /\ (st.last = api.st.last \/ st.last = proc[p].t)
      BY <2>1, <3>1, ResultsKeep, Zenon
    <3>3. api'.st = st
      BY <2>1, <2>4, <3>2, NewVersion, Zenon DEF Store
    <3> HIDE DEF Kept
    <3> QED BY <2>2, <2>3, <2>4, <3>2, <3>3
  <2>5. ASSUME NEW p \in Procs, Step(p) PROVE Kept
    <3>1. CASE putApplied(p)
      BY <2>4, <3>1 DEF putApplied
    <3>2. CASE putLost(p)
      <4> HIDE DEF Kept
      <4> QED BY <2>2, <2>4, <3>2, Zenon DEF putLost
    <3>3. CASE stampCreated(p)
      <4>1. CASE api' = api
        BY <2>2, <4>1
      <4>2. CASE proc[p].base.rv = api.rv /\ api' # api
        <5> DEFINE st == [api.st EXCEPT !.last = proc[p].t]
        <5>1. st \in Status /\ st.last = proc[p].t
          BY <2>1 DEF Status, Maybe
        <5>2. api' = [api EXCEPT !.rv = @ + 1, !.st = st]
          BY <3>3, <4>2 DEF stampCreated
        <5> HIDE DEF st, Kept
        <5>3. api'.st = st
          BY <2>1, <5>1, <5>2, NewVersion, Zenon
        <5> QED BY <2>3, <4>2, <5>1, <5>3
      <4> QED BY <3>3, <4>1, <4>2 DEF stampCreated
    <3>4. CASE ensureCreate(p)
      <4>1. api.rv = 0 => api.st.last = None
        BY <1>1, AbsentOK DEF IInv
      <4> QED BY <2>2, <3>4, <4>1 DEF ensureCreate
    <3>5. CASE patchLastSnapshot(p)
      BY <2>1, <2>2, <3>5 DEF patchLastSnapshot, Object
    <3>6. CASE api' = api
      BY <2>2, <3>6
    <3> HIDE DEF Kept
    <3> QED BY <2>5, <3>1, <3>2, <3>3, <3>4, <3>5, <3>6
        DEF Step, ensureFound, ensureFails, getMissing, getCached, putNothing, putConflict,
            serveReady, serveFails, s3Missing, s3Read, recKeep, recFresh, recUnchanged, recReturn
  <2>6. ASSUME NEW e \in Edits, EditPolicy(e) PROVE Kept
    BY <2>1, <2>2, <2>6 DEF EditPolicy, Object
  <2>7. CASE UNCHANGED api
    BY <2>2, <2>7
  <2> HIDE DEF Kept
  <2> QED BY <1>1, <2>5, <2>6, <2>7, Zenon
      DEF Next, Begin, recGet, BeginComplete, Sync, Tick, vars
<1> HIDE DEF Kept
<1>2. Spec => [][Kept]_vars
  BY <1>1, InductiveInvariant, PTL DEF Spec
<1> QED BY <1>2 DEF LastBuildTimeNeverRegresses, Kept
=============================================================================
