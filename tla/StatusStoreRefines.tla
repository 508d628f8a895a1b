------------------------- MODULE StatusStoreRefines -------------------------
(***************************************************************************)
(* StatusStore implements InflightRegistry, for any number of replicas,    *)
(* builds and reconcile workers: every step of a handler, a reconcile or   *)
(* the cluster is a step of the registry or changes nothing it shows.  The *)
(* stronger invariant this needs also bounds the entries by the cap.       *)
(***************************************************************************)
EXTENDS StatusStoreProofs

-----------------------------------------------------------------------------
(* More than that invariant is needed for the count of the entries and for *)
(* the refinement of InflightRegistry: what a handler may still write      *)
(* depends on where in its life its build is, and what a sweep writes is   *)
(* taken from the object it read.                                          *)

\* The count agrees with the entries, which respect the cap.
Fits(st) ==
    /\ st.entries # {} => st.count = Cardinality(st.entries)
    /\ Cardinality(st.entries) <= InflightCap

HasNoEntry(b, a) == \A e \in a.st.entries : e.id # InflightID(b)

\* A route that has not been through StartInflight.
Early(s) == s.pc \in {"idle", "ensure", "stamp"} \/ s.op = "start"

Busy(s) == s.pc \in {"get", "put"}

\* What holds of the control state s of process p, given the object a.
CallOK(p, s, a) ==
    /\ Fits(s.base.st)
    /\ Cardinality(s.live) <= InflightCap
    /\ s.op = "sweep" /\ s.base.rv = a.rv => s.live \subseteq AdoptLegacyInflight(a.st).entries
    /\ p \in Routes /\ Early(s) => HasNoEntry(p[2], a)
    /\ p \in Completes => s.op \in {"none", "end", "endOldest"}
    /\ p \in Completes /\ Busy(s) => (s.op = "endOldest" <=> p[2] \in Unnamed)
    /\ s.op = "endOldest" => p \in Completes /\ Busy(s)
    /\ p \in Completes => s.pc \notin {"ensure", "stamp", "serve", "s3"}
    /\ s.op = "sweep" => s.pc \in {"decide", "put"}
    /\ s.pc \in {"decide", "snapshot"} => p \in Reconciles

\* The strengthening the refinement needs.
RInv ==
    /\ Fits(api.st)
    /\ \A r \in Replicas : Fits(cache[r].st)
    /\ \A p \in Procs : CallOK(p, proc[p], api)
    /\ \A b \in Builds : \A e, f \in api.st.entries :
          e.id = InflightID(b) /\ f.id = InflightID(b) => e = f
    /\ IsFiniteSet(Waiting)

-----------------------------------------------------------------------------
(* Cardinalities of the operators of InflightSet.                          *)

\* Adoption invents at most as many entries as the cap allows, and none when
\* the status has some; the ones it invents belong to no build.
LEMMA AdoptFits ==
    ASSUME NEW st \in Status, IsFiniteSet(st.entries), Fits(st)
    PROVE  /\ Cardinality(AdoptLegacyInflight(st).entries) <= InflightCap
           /\ \A b, e : e \in AdoptLegacyInflight(st).entries /\ e.id = InflightID(b)
                        => e \in st.entries
<1>1. CASE st.entries # {} \/ st.count <= 0 \/ st.last = None
  BY <1>1 DEF AdoptLegacyInflight, Status, Fits
<1>2. CASE ~(st.entries # {} \/ st.count <= 0 \/ st.last = None)
  <2> DEFINE n == IF st.count > InflightCap THEN InflightCap ELSE st.count
             es == {Entry(AdoptedID(i), st.last) : i \in 1..n}
  <2>1. AdoptLegacyInflight(st).entries = es
    BY <1>2 DEF AdoptLegacyInflight, Status
  <2>2. n \in Nat /\ n <= InflightCap
    BY <1>2, CapAssumption DEF Status
  <2>3. IsFiniteSet(1..n) /\ Cardinality(1..n) = n
    <3> HIDE DEF n
    <3> QED BY <2>2, FS_Interval
  <2>4. Cardinality(es) <= n
    <3> DEFINE f == [i \in 1..n |-> Entry(AdoptedID(i), st.last)]
    <3> HIDE DEF n
    <3>1. f \in Surjection(1..n, es)
      BY DEF Surjection
    <3> QED BY <2>3, <3>1, FS_Surjection
  <2>5. IsFiniteSet(es)
    BY <2>1, AdoptKeeps
  <2>6. Cardinality(es) \in Nat
    BY <2>5, FS_CardinalityType
  <2>7. \A b, e : e \in es => e.id # InflightID(b)
    BY DEF Entry, AdoptedID, InflightID
  <2> HIDE DEF es, n
  <2> QED BY <2>1, <2>2, <2>4, <2>6, <2>7, CapAssumption
<1> QED BY <1>1, <1>2

\* The sets the operations start from respect the cap, and hold no entry of a
\* build the status does not have.
LEMMA LiveFits ==
    ASSUME NEW st \in Status, IsFiniteSet(st.entries), Fits(st), NEW t \in Int,
           NEW es \in {live(st, t), liveInflight(st, t)}
    PROVE  /\ Cardinality(es) \in Nat /\ Cardinality(es) <= InflightCap
           /\ es \subseteq AdoptLegacyInflight(st).entries
<1> DEFINE ad == AdoptLegacyInflight(st).entries
<1>1. IsFiniteSet(ad) /\ Cardinality(ad) <= InflightCap
  BY AdoptKeeps, AdoptFits
<1> HIDE DEF ad
<1>2. es \subseteq ad
  BY DEF live, liveInflight, ExpireInflight, ad
<1>3. IsFiniteSet(es) /\ Cardinality(es) <= Cardinality(ad)
  BY <1>1, <1>2, FS_Subset
<1>4. Cardinality(es) \in Nat /\ Cardinality(ad) \in Nat
  BY <1>1, <1>3, FS_CardinalityType
<1> QED BY <1>1, <1>2, <1>3, <1>4, CapAssumption DEF ad

\* Registration at the cap makes room first.
LEMMA StartFits ==
    ASSUME NEW es \in SUBSET Entries, IsFiniteSet(es), Cardinality(es) <= InflightCap,
           NEW b \in Builds, NEW t \in Int, NEW res \in StartInflight(es, b, t)
    PROVE  Cardinality(res) <= InflightCap
<1> DEFINE new == Entry(InflightID(b), t)
<1>0. Cardinality(es) \in Nat /\ InflightCap \in Nat
  BY FS_CardinalityType, CapAssumption
<1>1. CASE Cardinality(es) < InflightCap
  <2>1. res = es \cup {new}
    BY <1>1 DEF StartInflight
  <2> HIDE DEF new
  <2>2. Cardinality(res) = IF new \in es THEN Cardinality(es) ELSE Cardinality(es) + 1
    BY <2>1, FS_AddElement, Zenon
  <2> QED BY <1>0, <1>1, <2>2
<1>2. CASE ~(Cardinality(es) < InflightCap)
  <2>1. PICK e \in Oldest(es) : res = (es \ {e}) \cup {new}
    BY <1>2 DEF StartInflight
  <2> HIDE DEF new
  <2>2. e \in es
    BY DEF Oldest
  <2>3. IsFiniteSet(es \ {e}) /\ Cardinality(es \ {e}) = Cardinality(es) - 1
    BY <2>2, FS_RemoveElement
  <2> DEFINE rest == es \ {e}
  <2> HIDE DEF rest
  <2>4. Cardinality(res) = IF new \in rest THEN Cardinality(rest) ELSE Cardinality(rest) + 1
    BY <2>1, <2>3, FS_AddElement, Zenon DEF rest
  <2> QED BY <1>0, <2>3, <2>4 DEF rest
<1> QED BY <1>1, <1>2

\* A status that was written with SetInflight fits.
LEMMA SetFits ==
    ASSUME NEW st \in Status, NEW es \in SUBSET Entries, IsFiniteSet(es),
           Cardinality(es) <= InflightCap, NEW w \in Maybe(Int)
    PROVE  Fits(SetInflight(st, es)) /\ Fits([SetInflight(st, es) EXCEPT !.last = w])
<1>1. Cardinality(es) \in Nat
  BY FS_CardinalityType
<1> DEFINE c == Cardinality(es)
<1>2. /\ SetInflight(st, es).entries = es /\ SetInflight(st, es).count = c
      /\ [SetInflight(st, es) EXCEPT !.last = w].entries = es
      /\ [SetInflight(st, es) EXCEPT !.last = w].count = c
  <2> HIDE DEF c
  <2> QED BY DEF SetInflight, Status, c
<1> QED BY <1>2 DEF Fits

\* An operation on the current object keeps the count and the cap, and brings
\* in no entry but the one it registers.
LEMMA ResultsFit ==
    ASSUME TypeOK, NEW p \in Procs, ProcOK(p, proc[p], api, now, asked),
           CallOK(p, proc[p], api), Fits(api.st), proc[p].base = api, NEW st \in Results(p)
    PROVE  /\ Fits(st)
           /\ proc[p].op # "start" => st.entries \subseteq AdoptLegacyInflight(api.st).entries
           /\ proc[p].op = "start" =>
                st.entries \subseteq AdoptLegacyInflight(api.st).entries
                                     \cup {Entry(InflightID(p[2]), proc[p].t)}
<1> DEFINE s == proc[p]
           old == api.st
           lv == live(old, s.t)
           ad == AdoptLegacyInflight(old).entries
           Inflight(S) == {[SetInflight(old, es) EXCEPT !.last = s.t] : es \in S}
<1>1. /\ old \in Status /\ IsFiniteSet(old.entries) /\ s.t \in Int /\ s.t \in Maybe(Int)
      /\ old.entries \subseteq ad
  BY AdoptKeeps DEF ProcOK, Copy, TypeOK, Object, ProcState, Maybe
<1>2. /\ lv \in SUBSET Entries /\ IsFiniteSet(lv) /\ lv \subseteq ad
      /\ Cardinality(lv) \in Nat /\ Cardinality(lv) <= InflightCap
  BY <1>1, LiveKeeps, LiveFits
<1>3. ASSUME NEW S, st \in Inflight(S),
             \A es \in S : es \in SUBSET Entries /\ IsFiniteSet(es) /\ Cardinality(es) <= InflightCap
      PROVE  Fits(st) /\ st.entries \in S
  <2>1. PICK es \in S : st = [SetInflight(old, es) EXCEPT !.last = s.t]
    BY <1>3
  <2>2. es \in SUBSET Entries /\ IsFiniteSet(es) /\ Cardinality(es) <= InflightCap
    BY <1>3
  <2>3. SetInflight(old, es) \in Status /\ SetInflight(old, es).entries = es
    BY <1>1, <2>2, SetInflightType
  <2>4. st.entries = es
    BY <2>1, <2>3 DEF Status
  <2> QED BY <1>1, <2>1, <2>2, <2>4, SetFits
<1> HIDE DEF lv, Inflight, ad
<1>4. ASSUME NEW es, NEW e, es = lv \ {e}
      PROVE  es \in SUBSET Entries /\ IsFiniteSet(es) /\ Cardinality(es) <= InflightCap
             /\ es \subseteq ad
  <2>1. IsFiniteSet(es) /\ Cardinality(es) <= Cardinality(lv)
    BY <1>2, <1>4, FS_Subset
  <2>2. Cardinality(es) \in Nat
    BY <2>1, FS_CardinalityType
  <2> QED BY <1>2, <1>4, <2>1, <2>2, CapAssumption
<1>a. CASE s.op = "start"
  <2>1. st \in Inflight(StartInflight(lv, p[2], s.t))
    BY <1>a DEF Results, Inflight, lv
  <2>2. p[2] \in Builds
    BY <1>a DEF ProcOK, Routes
  <2>3. \A es \in StartInflight(lv, p[2], s.t) :
           es \in SUBSET Entries /\ IsFiniteSet(es) /\ Cardinality(es) <= InflightCap
    BY <1>1, <1>2, <2>2, StartKeeps, StartFits
  <2>4. Fits(st) /\ st.entries \in StartInflight(lv, p[2], s.t)
    BY <1>3, <2>1, <2>3
  <2>5. st.entries \subseteq lv \cup {Entry(InflightID(p[2]), s.t)}
    BY <2>4 DEF StartInflight
  <2> QED BY <1>a, <1>2, <2>4, <2>5 DEF ad
<1>b. CASE s.op = "end"
  <2>1. st \in Inflight(EndInflight(lv, p[2]))
    BY <1>b DEF Results, Inflight, lv
  <2>2. \A es \in EndInflight(lv, p[2]) : es \in SUBSET Entries /\ IsFiniteSet(es)
           /\ Cardinality(es) <= InflightCap /\ es \subseteq ad
    BY <1>4 DEF EndInflight
  <2> QED BY <1>b, <1>3, <2>1, <2>2 DEF ad
<1>c. CASE s.op = "endOldest"
  <2>1. st \in Inflight(EndOldest(lv))
    BY <1>c DEF Results, Inflight, lv
  <2>2. \A es \in EndOldest(lv) : es \in SUBSET Entries /\ IsFiniteSet(es)
           /\ Cardinality(es) <= InflightCap /\ es \subseteq ad
    BY <1>4 DEF EndOldest
  <2> QED BY <1>c, <1>3, <2>1, <2>2 DEF ad
<1>d. CASE s.op = "touch"
  <2>1. st = [old EXCEPT !.last = s.t]
    BY <1>d DEF Results
  <2> QED BY <1>d, <1>1, <2>1 DEF Status, Fits, ad
<1>e. CASE s.op = "grant"
  <2>1. st = [old EXCEPT !.grant = s.t]
    BY <1>e DEF Results
  <2> QED BY <1>e, <1>1, <2>1 DEF Status, Fits, ad
<1>f. CASE s.op = "sweep"
  <2>1. st = SetInflight(old, s.live)
    BY <1>f DEF Results
  <2>2. /\ s.live \in SUBSET Entries /\ IsFiniteSet(s.live)
        /\ Cardinality(s.live) <= InflightCap /\ s.live \subseteq ad
    BY <1>f DEF ProcOK, ProcState, CallOK, ad
  <2>3. st.entries = s.live /\ Fits(st)
    BY <1>1, <2>1, <2>2, SetInflightType, SetFits, Zenon
  <2> QED BY <1>f, <2>2, <2>3 DEF ad
<1>g. CASE s.op \notin {"start", "end", "endOldest", "touch", "grant", "sweep"}
  BY <1>g DEF Results
<1> QED BY <1>a, <1>b, <1>c, <1>d, <1>e, <1>f, <1>g

-----------------------------------------------------------------------------
(* Processes.                                                              *)

\* The object before the project exists fits.
LEMMA AbsentFits == Fits(Absent.st)
  BY FS_EmptySet, CapAssumption DEF Absent, EmptyStatus, Fits

\* A process without a copy, at the start of an operation or between two.
LEMMA NoCopyCallOK ==
    ASSUME NEW p \in Procs, NEW s, NEW a, s.base = Absent, s.live = {}, s.op # "sweep",
           p \in Routes /\ Early(s) => HasNoEntry(p[2], a),
           p \in Completes => s.op \in {"none", "end", "endOldest"},
           p \in Completes /\ Busy(s) => (s.op = "endOldest" <=> p[2] \in Unnamed),
           s.op = "endOldest" => p \in Completes /\ Busy(s),
           p \in Completes => s.pc \notin {"ensure", "stamp", "serve", "s3"},
           s.pc \in {"decide", "snapshot"} => p \in Reconciles
    PROVE  CallOK(p, s, a)
<1>1. Cardinality(s.live) <= InflightCap
  BY FS_EmptySet, CapAssumption
<1> QED BY <1>1, AbsentFits DEF CallOK

\* The requests are told apart by their names.
LEMMA Kinds ==
    ASSUME NEW p \in Procs
    PROVE  /\ p \in Routes => p[1] = "route" /\ p[2] \in Builds /\ p = <<"route", p[2]>>
           /\ p \in Completes => p[1] = "complete" /\ p[2] \in Builds /\ p = <<"complete", p[2]>>
           /\ p \in Reconciles <=> p[1] = "reconcile"
           /\ p[1] = "route" => p \in Routes
  BY DEF Procs, Routes, Completes, Touches, Reconciles

\* After its operation a process has no copy and starts none.
LEMMA ReturnCallOK ==
    ASSUME IInv, NEW p \in Procs, NEW a, Busy(proc[p])
    PROVE  CallOK(p, Return(p), a)
<1>1. proc[p] \in ProcState
  BY DEF IInv, TypeOK
<1>2. LET s == Return(p)
      IN  /\ s.base = Absent /\ s.live = {} /\ s.op = "none" /\ s.pc \in {"idle", "serve", "failed", "done"}
          /\ s.pc = "idle" => p[1] = "reconcile"
          /\ s.pc = "serve" => p[1] = "route"
  BY <1>1, EndFields, BetweenFields DEF Return, PCs
<1> DEFINE s == Return(p)
<1>3. /\ p \in Routes => ~Early(s)
      /\ ~Busy(s)
      /\ p \in Completes => s.pc \notin {"ensure", "stamp", "serve", "s3"}
  <2> HIDE DEF s
  <2> QED BY <1>2, Kinds DEF s, Early, Busy
<1> QED BY <1>2, <1>3, NoCopyCallOK DEF s

\* A step of one process adds at most one release without a token.
LEMMA PendingFinite ==
    ASSUME TypeOK, IsFiniteSet(Waiting),
           NEW p \in Procs, NEW s, proc' = [proc EXCEPT ![p] = s]
    PROVE  IsFiniteSet(Waiting')
<1> DEFINE old == {b \in Unnamed : Pending(b)}
           new == {b \in Unnamed : Pending(b)'}
<1>1. new \subseteq old \cup {p[2]}
  <2>1. \A b \in Unnamed : <<"complete", b>> \in Procs
    BY StoreAssumption DEF Procs, Completes
  <2> QED BY <2>1 DEF Pending, TypeOK
<1>2. IsFiniteSet(old \cup {p[2]})
  BY FS_AddElement, Zenon DEF Waiting
<1> HIDE DEF old
<1>3. IsFiniteSet(new)
  <2> HIDE DEF new
  <2> QED BY <1>1, <1>2, FS_Subset
<1> QED BY <1>3 DEF Waiting

\* A process moves; the object, the caches and the clock stay.
LEMMA CallMove ==
    ASSUME IInv, RInv, NEW p \in Procs, NEW s, proc' = [proc EXCEPT ![p] = s],
           UNCHANGED <<api, cache>>, CallOK(p, s, api)
    PROVE  RInv'
<1>1. \A q \in Procs : proc'[q] = IF q = p THEN s ELSE proc[q]
  BY DEF IInv, TypeOK
<1>2. \A q \in Procs : CallOK(q, proc'[q], api')
  BY <1>1 DEF RInv
<1>3. IsFiniteSet(Waiting')
  BY PendingFinite, Zenon DEF RInv, IInv
<1> QED BY <1>2, <1>3 DEF RInv

\* A process moves and the object gets a new version with the entries it had,
\* adopted or not, fewer of them, and at most the one of a route.
LEMMA CallWrite ==
    ASSUME IInv, RInv, NEW p \in Procs, NEW s, proc' = [proc EXCEPT ![p] = s],
           UNCHANGED cache, CallOK(p, s, api'), api'.rv = api.rv + 1, Fits(api'.st),
           NEW N, N = {} \/ (p \in Routes /\ HasNoEntry(p[2], api)
                             /\ \E t : N = {Entry(InflightID(p[2]), t)}),
           api'.st.entries \subseteq AdoptLegacyInflight(api.st).entries \cup N
    PROVE  RInv'
<1>1. \A q \in Procs : proc'[q] = IF q = p THEN s ELSE proc[q]
  BY DEF IInv, TypeOK
<1>2. /\ api \in Object /\ api.st \in Status /\ IsFiniteSet(api.st.entries) /\ Fits(api.st)
      /\ api.rv \in Nat
  BY DEF IInv, Copy, Object, RInv
<1>3. \A b \in Builds : \A e \in api'.st.entries : e.id = InflightID(b) =>
         \/ e \in api.st.entries
         \/ p = <<"route", b>> /\ HasNoEntry(b, api) /\ N = {e}
  <2> SUFFICES ASSUME NEW b \in Builds, NEW e \in api'.st.entries, e.id = InflightID(b),
                      e \notin api.st.entries
               PROVE  p = <<"route", b>> /\ HasNoEntry(b, api) /\ N = {e}
    OBVIOUS
  <2>1. e \in N
    BY <1>2, AdoptFits
  <2>2. p \in Routes /\ HasNoEntry(p[2], api) /\ \E t : N = {Entry(InflightID(p[2]), t)}
    BY <2>1
  <2>3. InflightID(b) = InflightID(p[2]) /\ N = {e}
    BY <2>1, <2>2 DEF Entry
  <2>4. b = p[2]
    BY <2>3 DEF InflightID
  <2> QED BY <2>2, <2>3, <2>4, Kinds
<1>4. ASSUME NEW q \in Procs, q # p PROVE CallOK(q, proc'[q], api')
  <2>1. CallOK(q, proc[q], api) /\ proc'[q] = proc[q]
    BY <1>1, <1>4 DEF RInv
  <2>2. proc[q].base.rv # api'.rv
    <3>1. proc[q].base.rv \in Nat /\ proc[q].base.rv <= api.rv
      BY DEF IInv, ProcOK, Copy, Object
    <3> QED BY <1>2, <3>1
  <2>3. q \in Routes /\ Early(proc[q]) => HasNoEntry(q[2], api')
    BY <1>3, <1>4, <2>1, Kinds DEF CallOK, HasNoEntry
  <2> QED BY <2>1, <2>2, <2>3 DEF CallOK
<1>5. \A b \in Builds : \A e, f \in api'.st.entries :
         e.id = InflightID(b) /\ f.id = InflightID(b) => e = f
  BY <1>3 DEF RInv, HasNoEntry
<1>6. IsFiniteSet(Waiting')
  BY PendingFinite, Zenon DEF RInv, IInv
<1>7. \A q \in Procs : CallOK(q, proc'[q], api')
  BY <1>1, <1>4
<1> QED BY <1>5, <1>6, <1>7 DEF RInv

-----------------------------------------------------------------------------
(* Every step keeps the strengthening.                                     *)

\* The steps of Ensure: a route that has not registered has no entry.
LEMMA EnsureCalls ==
    ASSUME IInv, RInv, NEW p \in Procs,
           \/ \E r \in Replicas : Begin(p, r)
           \/ ensureFound(p) \/ ensureCreate(p) \/ ensureFails(p) \/ stampCreated(p)
    PROVE  RInv'
<1> DEFINE s == proc[p]
           op == FirstOp(p)
           c == Call(s, op)
<1>1. s \in ProcState /\ CallOK(p, s, api) /\ api \in Object
  BY DEF IInv, TypeOK, RInv
<1>2. op \in {"start", "touch"} /\ (op = "start" <=> p \in Routes)
  BY Kinds DEF FirstOp
<1>3. c.base = Absent /\ c.live = {} /\ c.op = op /\ c.pc = "get"
  <2>1. op \in Ops
    BY <1>2 DEF Ops
  <2>2. Starting(c, op, s.rep)
    BY <1>1, <2>1, CallFields, Zenon
  <2> HIDE DEF c
  <2> QED BY <2>2, Zenon DEF Starting
<1> HIDE DEF c, op
<1>4. ASSUME NEW a, p \in Routes => HasNoEntry(p[2], a), s.pc \in {"ensure", "stamp"}
      PROVE  CallOK(p, c, a)
  <2>1. p \notin Completes
    BY <1>1, <1>4 DEF CallOK
  <2> QED BY <1>2, <1>3, <1>4, <2>1, NoCopyCallOK
<1>5. p \in Routes /\ s.pc \in {"idle", "ensure", "stamp"} => HasNoEntry(p[2], api)
  BY <1>1 DEF CallOK, Early
<1>a. ASSUME NEW r \in Replicas, Begin(p, r)
      PROVE  RInv'
  <2> DEFINE n == [Idle EXCEPT !.pc = "ensure", !.rep = r]
  <2>1. n.base = Absent /\ n.live = {} /\ n.op = "none" /\ n.pc = "ensure"
    BY DEF Idle
  <2>2. /\ proc' = [proc EXCEPT ![p] = n] /\ UNCHANGED <<api, cache>> /\ s.pc = "idle"
        /\ p \notin Completes
    BY <1>a, Kinds, Zenon DEF Begin, Goto, At, Touches, Routes, Completes
  <2> HIDE DEF n
  <2>3. CallOK(p, n, api)
    BY <1>5, <2>1, <2>2, NoCopyCallOK DEF Busy
  <2> QED BY <2>2, <2>3, CallMove, Zenon
<1>b. CASE ensureFound(p) \/ (ensureCreate(p) /\ api.rv # 0)
  <2>1. proc' = [proc EXCEPT ![p] = c] /\ UNCHANGED <<api, cache>> /\ s.pc = "ensure"
    BY <1>b DEF ensureFound, ensureCreate, Goto, At, c, op
  <2> QED BY <1>4, <1>5, <2>1, CallMove, Zenon
<1>c. CASE ensureCreate(p) /\ api.rv = 0
  <2> DEFINE n == [s EXCEPT !.pc = "stamp", !.base = api', !.t = now]
  <2>1. /\ api = Absent /\ api' = [Absent EXCEPT !.rv = 1] /\ s.pc = "ensure"
        /\ proc' = [proc EXCEPT ![p] = n] /\ UNCHANGED cache
    BY <1>c DEF ensureCreate, Goto, At, IInv
  <2>2. api'.rv = api.rv + 1 /\ api'.st = Absent.st /\ api'.st.entries = {}
    BY <1>c, <2>1 DEF Absent, EmptyStatus
  <2>3. n.base = api' /\ n.live = s.live /\ n.op = s.op /\ n.pc = "stamp"
    BY <1>1, Zenon DEF ProcState
  <2> HIDE DEF n
  <2>4. CallOK(p, n, api')
    BY <1>1, <2>1, <2>2, <2>3, AbsentFits DEF CallOK, HasNoEntry, Busy, Early
  <2> DEFINE N == {}
  <2>5. api'.st.entries \subseteq AdoptLegacyInflight(api.st).entries \cup N
    BY <2>2
  <2> HIDE DEF N
  <2> QED BY <2>1, <2>2, <2>4, <2>5, AbsentFits, CallWrite, Zenon DEF N
<1>d. CASE ensureFails(p)
  <2> DEFINE n == End("failed")
  <2>1. n.base = Absent /\ n.live = {} /\ n.op = "none" /\ n.pc = "failed"
    BY EndFields DEF PCs
  <2>2. proc' = [proc EXCEPT ![p] = n] /\ UNCHANGED <<api, cache>>
    BY <1>d DEF ensureFails, Goto
  <2> HIDE DEF n
  <2>3. CallOK(p, n, api)
    BY <2>1, NoCopyCallOK DEF Early, Busy
  <2> QED BY <2>2, <2>3, CallMove, Zenon
<1>e. CASE stampCreated(p)
  <2>1. s.pc = "stamp" /\ proc' = [proc EXCEPT ![p] = c] /\ UNCHANGED cache
    BY <1>e DEF stampCreated, Goto, At, c, op
  <2>2. CASE UNCHANGED api
    BY <1>4, <1>5, <2>1, <2>2, CallMove, Zenon
  <2>3. CASE api' = [api EXCEPT !.rv = @ + 1, !.st = [@ EXCEPT !.last = s.t]]
    <3> DEFINE st == [api.st EXCEPT !.last = s.t]
    <3>1. st \in Status /\ st.entries = api.st.entries /\ st.count = api.st.count
      BY <1>1 DEF Object, Status, Maybe, ProcState
    <3>2. api' = [api EXCEPT !.rv = @ + 1, !.st = st]
      BY <2>3
    <3> HIDE DEF st
    <3>3. api'.rv = api.rv + 1 /\ api'.st = st
      BY <1>1, <3>1, <3>2, NewVersion, Zenon
    <3>4. Fits(api'.st) /\ (p \in Routes => HasNoEntry(p[2], api'))
      BY <1>5, <2>1, <3>1, <3>3 DEF Fits, HasNoEntry, RInv
    <3>5. CallOK(p, c, api')
      BY <1>4, <2>1, <3>4
    <3> DEFINE N == {}
    <3>6. api'.st.entries \subseteq AdoptLegacyInflight(api.st).entries \cup N
      BY <3>1, <3>3, AdoptKeeps DEF IInv, Copy, Object
    <3> HIDE DEF N
    <3> QED BY <2>1, <3>3, <3>4, <3>5, <3>6, CallWrite, Zenon DEF N
  <2> QED BY <1>e, <2>2, <2>3 DEF stampCreated
<1> QED BY <1>a, <1>b, <1>c, <1>d, <1>e

\* A status write that passed the version check, whoever made it.
LEMMA StoreCalls ==
    ASSUME IInv, RInv, NEW p \in Procs, proc[p].pc = "put", proc[p].base.rv = api.rv,
           NEW st \in Results(p), Store(p, st), UNCHANGED cache,
           NEW n, proc' = [proc EXCEPT ![p] = n], CallOK(p, n, api')
    PROVE  RInv'
<1>1. /\ TypeOK /\ ProcOK(p, proc[p], api, now, asked) /\ CallOK(p, proc[p], api) /\ Fits(api.st)
      /\ api \in Object
  BY DEF IInv, TypeOK, RInv
<1>2. proc[p].base = api
  BY <1>1 DEF ProcOK, Copy
<1>3. st \in Status
  BY <1>1, <1>2, ResultsKeep, Zenon
<1>4. api'.rv = api.rv + 1 /\ api'.st = st
  BY <1>1, <1>3, NewVersion, Zenon DEF Store
<1>5. CASE proc[p].op = "start"
  <2> DEFINE N == {Entry(InflightID(p[2]), proc[p].t)}
  <2>1. p \in Routes /\ HasNoEntry(p[2], api)
    BY <1>1, <1>5 DEF ProcOK, CallOK, Early
  <2>2. Fits(st) /\ st.entries \subseteq AdoptLegacyInflight(api.st).entries \cup N
    BY <1>1, <1>2, <1>5, ResultsFit
  <2>3. \E t : N = {Entry(InflightID(p[2]), t)}
    OBVIOUS
  <2> HIDE DEF N
  <2> QED BY <1>4, <2>1, <2>2, <2>3, CallWrite, Zenon
<1>6. CASE proc[p].op # "start"
  <2> DEFINE N == {}
  <2>1. Fits(st) /\ st.entries \subseteq AdoptLegacyInflight(api.st).entries \cup N
    BY <1>1, <1>2, <1>6, ResultsFit
  <2> HIDE DEF N
  <2> QED BY <1>4, <2>1, CallWrite, Zenon DEF N
<1> QED BY <1>5, <1>6

\* The steps of touchStatus and of the grant loop.
LEMMA OperationCalls ==
    ASSUME IInv, RInv, NEW p \in Procs,
           \/ getMissing(p) \/ getCached(p)
           \/ putNothing(p) \/ putApplied(p) \/ putConflict(p) \/ putLost(p)
    PROVE  RInv'
<1> DEFINE s == proc[p]
<1>1. /\ s \in ProcState /\ CallOK(p, s, api) /\ ProcOK(p, s, api, now, asked)
      /\ s.pc \in {"get", "put"} /\ Busy(s)
  BY DEF IInv, TypeOK, RInv, getMissing, getCached, putNothing, putApplied, putConflict, putLost,
         At, Busy
<1>2. \A a : CallOK(p, Return(p), a)
  BY <1>1, ReturnCallOK
<1>3. p[1] = "reconcile" => \A a : CallOK(p, [Idle EXCEPT !.pc = "snapshot"], a)
  <2> DEFINE n == [Idle EXCEPT !.pc = "snapshot"]
  <2>1. n.base = Absent /\ n.live = {} /\ n.op = "none" /\ n.pc = "snapshot"
    BY DEF Idle
  <2> HIDE DEF n
  <2>2. p[1] = "reconcile" => \A a : CallOK(p, n, a)
    BY <2>1, Kinds, NoCopyCallOK DEF Early, Busy
  <2> QED BY <2>2 DEF n
<1>4. CASE proc' = [proc EXCEPT ![p] = Return(p)] /\ UNCHANGED <<api, cache>>
  BY <1>2, <1>4, CallMove, Zenon
<1>a. CASE getMissing(p)
  <2> DEFINE n == [s EXCEPT !.tries = @ + 1]
  <2>1. CASE proc' = [proc EXCEPT ![p] = n] /\ UNCHANGED <<api, cache>>
    <3>1. n.base = s.base /\ n.live = s.live /\ n.op = s.op /\ n.pc = s.pc
      BY <1>1, Zenon DEF ProcState
    <3> HIDE DEF n
    <3>2. CallOK(p, n, api)
      BY <1>1, <3>1, Zenon DEF CallOK, Early, Busy
    <3> QED BY <2>1, <3>2, CallMove, Zenon
  <2> QED BY <1>a, <1>4, <2>1 DEF getMissing, Goto
<1>b. CASE getCached(p)
  <2> DEFINE n == [s EXCEPT !.pc = "put", !.base = cache[s.rep], !.t = now]
  <2>1. proc' = [proc EXCEPT ![p] = n] /\ UNCHANGED <<api, cache>> /\ s.pc = "get"
    BY <1>b DEF getCached, Goto, At
  <2>2. n.base = cache[s.rep] /\ n.live = s.live /\ n.op = s.op /\ n.pc = "put"
    BY <1>1, Zenon DEF ProcState
  <2>3. Fits(cache[s.rep].st) /\ s.op # "sweep"
    BY <1>1, <2>1 DEF ProcOK, Active, RInv
  <2> HIDE DEF n
  <2>4. CallOK(p, n, api)
    BY <1>1, <2>1, <2>2, <2>3, Zenon DEF CallOK, Early, Busy
  <2> QED BY <2>1, <2>4, CallMove, Zenon
<1>c. CASE putNothing(p)
  BY <1>c, <1>4 DEF putNothing, Goto
<1>d. CASE putApplied(p)
  <2> DEFINE n == IF p[1] = "reconcile" THEN [Idle EXCEPT !.pc = "snapshot"] ELSE Return(p)
  <2>1. PICK st \in Results(p) : Store(p, st)
    BY <1>d DEF putApplied
  <2>2. s.pc = "put" /\ s.base.rv = api.rv /\ UNCHANGED cache /\ proc' = [proc EXCEPT ![p] = n]
    BY <1>d DEF putApplied, Goto, At
  <2>3. CallOK(p, n, api')
    BY <1>2, <1>3
  <2> HIDE DEF n
  <2> QED BY <2>1, <2>2, <2>3, StoreCalls, Zenon
<1>e. CASE putConflict(p)
  <2> DEFINE n == [Call(s, s.op) EXCEPT !.tries = s.tries + 1]
  <2>1. CASE /\ proc' = [proc EXCEPT ![p] = n] /\ UNCHANGED <<api, cache>>
             /\ p[1] # "reconcile"
    <3> DEFINE c == Call(s, s.op)
    <3>0. s \in ProcState /\ s.op \in Ops
      BY <1>1 DEF ProcState
    <3>1. c.base = Absent /\ c.live = {} /\ c.op = s.op /\ c.pc = "get" /\ c \in ProcState
      <4> HIDE DEF s
      <4>1. Starting(c, s.op, s.rep)
        BY <3>0, CallFields, Zenon
      <4> HIDE DEF c
      <4> QED BY <4>1, Zenon DEF Starting
    <3> HIDE DEF c
    <3>2. n.base = Absent /\ n.live = {} /\ n.op = s.op /\ n.pc = "get"
      BY <3>1, Zenon DEF ProcState, c
    <3> HIDE DEF n
    <3>3. s.op # "sweep"
      BY <1>1, <2>1, Kinds DEF ProcOK
    <3>4. CallOK(p, n, api)
      BY <1>1, <1>e, <3>2, <3>3, NoCopyCallOK, Zenon DEF CallOK, Early, Busy, putConflict, At
    <3> QED BY <2>1, <3>4, CallMove, Zenon
  <2> QED BY <1>e, <1>4, <2>1 DEF putConflict, Goto
<1>f. CASE putLost(p)
  <2>1. s.pc = "put" /\ UNCHANGED cache /\ proc' = [proc EXCEPT ![p] = Return(p)]
    BY <1>f DEF putLost, Goto, At
  <2>2. CASE UNCHANGED api
    BY <1>4, <2>1, <2>2
  <2>3. CASE s.base.rv = api.rv /\ \E st \in Results(p) : Store(p, st)
    <3>1. PICK st \in Results(p) : Store(p, st)
      BY <2>3
    <3> DEFINE n == Return(p)
    <3>2. CallOK(p, n, api') /\ proc' = [proc EXCEPT ![p] = n]
      BY <1>2, <2>1
    <3> HIDE DEF n
    <3> QED BY <2>1, <2>3, <3>1, <3>2, StoreCalls, Zenon
  <2> QED BY <1>f, <2>2, <2>3, Zenon DEF putLost
<1> QED BY <1>a, <1>b, <1>c, <1>d, <1>e, <1>f

\* The steps of a route after StartInflight.
LEMMA ServeCalls ==
    ASSUME IInv, RInv, NEW p \in Procs,
           serveReady(p) \/ serveFails(p) \/ s3Missing(p) \/ s3Read(p)
    PROVE  RInv'
<1> DEFINE s == proc[p]
<1>1. /\ s \in ProcState /\ CallOK(p, s, api) /\ ProcOK(p, s, api, now, asked)
      /\ s.pc \in {"serve", "s3"} /\ UNCHANGED <<api, cache>>
  BY DEF IInv, TypeOK, RInv, serveReady, serveFails, s3Missing, s3Read, At
<1>2. p \notin Completes
  BY <1>1 DEF CallOK
<1>3. ASSUME NEW n, n.base = Absent, n.live = {}, proc' = [proc EXCEPT ![p] = n],
             \/ n.op = "none" /\ n.pc \in {"s3", "done"}
             \/ n.op \in {"end", "grant"} /\ n.pc = "get"
      PROVE  RInv'
  <2>1. CallOK(p, n, api)
    BY <1>2, <1>3, NoCopyCallOK DEF Early, Busy
  <2> QED BY <1>1, <1>3, <2>1, CallMove, Zenon
<1>4. LET n == End("done") IN n.base = Absent /\ n.live = {} /\ n.op = "none" /\ n.pc = "done"
  BY EndFields DEF PCs
<1>a. CASE serveReady(p)
  <2> DEFINE n == Between(s, "s3")
  <2>1. n.base = Absent /\ n.live = {} /\ n.op = "none" /\ n.pc = "s3"
    BY <1>1, BetweenFields DEF PCs
  <2>2. proc' = [proc EXCEPT ![p] = n]
    BY <1>a DEF serveReady, Goto
  <2> HIDE DEF n
  <2> QED BY <1>3, <2>1, <2>2, Zenon
<1>b. CASE serveFails(p)
  <2> DEFINE n == Call(s, "end")
  <2>1. n.base = Absent /\ n.live = {} /\ n.op = "end" /\ n.pc = "get"
    <3>1. "end" \in Ops
      BY DEF Ops
    <3>2. Starting(n, "end", s.rep)
      BY <1>1, <3>1, CallFields, Zenon
    <3> HIDE DEF n
    <3> QED BY <3>2, Zenon DEF Starting
  <2>2. proc' = [proc EXCEPT ![p] = n]
    BY <1>b DEF serveFails, Goto
  <2> HIDE DEF n
  <2> QED BY <1>3, <2>1, <2>2, Zenon
<1>c. CASE s3Missing(p)
  <2>1. CASE proc' = [proc EXCEPT ![p] = End("done")]
    BY <1>3, <1>4, <2>1, Zenon
  <2>2. CASE proc' = [proc EXCEPT ![p] = [s EXCEPT !.tries = @ + 1]]
    <3> DEFINE n == [s EXCEPT !.tries = @ + 1]
    <3>1. n.base = s.base /\ n.live = s.live /\ n.op = s.op /\ n.pc = s.pc
      BY <1>1, Zenon DEF ProcState
    <3> HIDE DEF n
    <3>2. CallOK(p, n, api)
      BY <1>1, <3>1 DEF CallOK, Early, Busy
    <3> QED BY <1>1, <2>2, <3>2, CallMove, Zenon DEF n
  <2> QED BY <1>c, <2>1, <2>2, Zenon DEF s3Missing, Goto
<1>d. CASE s3Read(p)
  <2>1. CASE proc' = [proc EXCEPT ![p] = End("done")]
    BY <1>3, <1>4, <2>1, Zenon
  <2>2. CASE proc' = [proc EXCEPT ![p] = Call(s, "grant")]
    <3> DEFINE n == Call(s, "grant")
    <3>1. n.base = Absent /\ n.live = {} /\ n.op = "grant" /\ n.pc = "get"
      <4>1. "grant" \in Ops
        BY DEF Ops
      <4>2. Starting(n, "grant", s.rep)
        BY <1>1, <4>1, CallFields, Zenon
      <4> HIDE DEF n
      <4> QED BY <4>2, Zenon DEF Starting
    <3> HIDE DEF n
    <3> QED BY <1>3, <2>2, <3>1, Zenon DEF n
  <2> QED BY <1>d, <2>1, <2>2, Zenon DEF s3Read, Goto
<1> QED BY <1>a, <1>b, <1>c, <1>d

\* A client's release.
LEMMA CompleteCall ==
    ASSUME IInv, RInv, NEW b \in Builds, NEW r \in Replicas, BeginComplete(b, r)
    PROVE  RInv'
<1> DEFINE p == <<"complete", b>>
           o == [Idle EXCEPT !.rep = r]
           op == IF b \in Unnamed THEN "endOldest" ELSE "end"
           n == Call(o, op)
<1>1. p \in Completes /\ p \in Procs /\ p[2] = b /\ p \notin Routes
  BY DEF Completes, Procs, Routes
<1>2. proc' = [proc EXCEPT ![p] = n] /\ UNCHANGED <<api, cache>>
  BY DEF BeginComplete, Goto
<1>3. o \in ProcState
  BY IdleType DEF ProcState, Maybe
<1>4. n.base = Absent /\ n.live = {} /\ n.op = op /\ n.pc = "get"
  <2> HIDE DEF o
  <2>1. op \in Ops
    BY DEF Ops
  <2> HIDE DEF op
  <2>2. Starting(n, op, o.rep)
    BY <1>3, <2>1, CallFields, Zenon
  <2> HIDE DEF n
  <2> QED BY <2>2, Zenon DEF Starting
<1>5. CallOK(p, n, api)
  <2> HIDE DEF n, p
  <2> QED BY <1>1, <1>4, NoCopyCallOK DEF Early, Busy
<1> HIDE DEF n, p
<1> QED BY <1>1, <1>2, <1>5, CallMove, Zenon

\* The steps of a reconcile.
LEMMA ReconcileCalls ==
    ASSUME IInv, RInv, NEW p \in Procs,
           \/ \E r \in Replicas : recGet(p, r)
           \/ recKeep(p) \/ recFresh(p) \/ recUnchanged(p) \/ recReturn(p)
           \/ patchLastSnapshot(p)
    PROVE  RInv'
<1> DEFINE s == proc[p]
<1>1. /\ s \in ProcState /\ CallOK(p, s, api) /\ ProcOK(p, s, api, now, asked)
      /\ now \in Nat /\ api \in Object /\ api.st \in Status /\ IsFiniteSet(api.st.entries)
      /\ Fits(api.st)
  BY Zenon DEF IInv, TypeOK, RInv, Copy, Object
<1>2. p \in Reconciles => p \notin Routes /\ p \notin Completes
  BY Kinds
<1>a. ASSUME NEW r \in Replicas, recGet(p, r)
      PROVE  RInv'
  <2> DEFINE lv == liveInflight(cache[r].st, now)
             n == [Idle EXCEPT !.pc = "decide", !.op = "sweep", !.rep = r, !.base = cache[r],
                               !.t = now, !.live = lv]
  <2>1. proc' = [proc EXCEPT ![p] = n] /\ UNCHANGED <<api, cache>> /\ p \in Reconciles
    BY <1>a, Zenon DEF recGet, Goto
  <2>2. n.base = cache[r] /\ n.live = lv /\ n.op = "sweep" /\ n.pc = "decide"
    BY Zenon DEF Idle
  <2>3. Copy(cache[r], api, now) /\ Fits(cache[r].st)
    BY DEF IInv, RInv
  <2>4. Cardinality(lv) <= InflightCap /\ lv \subseteq AdoptLegacyInflight(cache[r].st).entries
    <3>1. cache[r].st \in Status /\ IsFiniteSet(cache[r].st.entries)
      BY <2>3 DEF Copy, Object
    <3>2. now \in Int
      BY <1>1
    <3> QED BY <2>3, <3>1, <3>2, LiveFits, Zenon
  <2> HIDE DEF n, lv
  <2>5. CallOK(p, n, api)
    BY <1>2, <2>1, <2>2, <2>3, <2>4, Zenon DEF CallOK, Copy
  <2> QED BY <2>1, <2>5, CallMove, Zenon
<1>b. CASE recKeep(p)
  <2> DEFINE n == [s EXCEPT !.pc = "put"]
  <2>1. proc' = [proc EXCEPT ![p] = n] /\ UNCHANGED <<api, cache>> /\ s.pc = "decide"
    BY <1>b DEF recKeep, Goto, At
  <2>2. n.base = s.base /\ n.live = s.live /\ n.op = s.op /\ n.pc = "put"
    BY <1>1, Zenon DEF ProcState
  <2> HIDE DEF n
  <2>3. p \in Reconciles
    BY <1>1, <2>1, Zenon DEF CallOK
  <2>4. CallOK(p, n, api)
    BY <1>1, <1>2, <2>1, <2>2, <2>3, Zenon DEF CallOK, Busy
  <2> QED BY <2>1, <2>4, CallMove, Zenon
<1>c. CASE recFresh(p)
  <2> DEFINE lv == liveInflight(api.st, now)
             n == [s EXCEPT !.pc = "put", !.live = lv]
  <2>1. proc' = [proc EXCEPT ![p] = n] /\ UNCHANGED <<api, cache>> /\ s.pc = "decide"
    BY <1>c DEF recFresh, Goto, At
  <2>2. n.base = s.base /\ n.live = lv /\ n.op = s.op /\ n.pc = "put"
    BY <1>1, Zenon DEF ProcState
  <2>3. Cardinality(lv) <= InflightCap /\ lv \subseteq AdoptLegacyInflight(api.st).entries
    <3>1. now \in Int
      BY <1>1
    <3> QED BY <1>1, <3>1, LiveFits, Zenon
  <2> HIDE DEF n, lv
  <2>4. p \in Reconciles
    BY <1>1, <2>1 DEF CallOK
  <2>5. CallOK(p, n, api)
    BY <1>1, <1>2, <2>1, <2>2, <2>3, <2>4, Zenon DEF CallOK, Busy
  <2> QED BY <2>1, <2>5, CallMove, Zenon
<1>d. CASE recUnchanged(p) \/ recReturn(p)
  <2>1. PICK n \in {Idle, [Idle EXCEPT !.pc = "snapshot"]} : proc' = [proc EXCEPT ![p] = n]
    BY <1>d DEF recUnchanged, recReturn, Goto
  <2>2. n.base = Absent /\ n.live = {} /\ n.op = "none" /\ n.pc \in {"idle", "snapshot"}
    BY DEF Idle
  <2>3. p \in Reconciles /\ UNCHANGED <<api, cache>>
    BY <1>d DEF recUnchanged, recReturn
  <2>4. CallOK(p, n, api)
    BY <1>2, <2>2, <2>3, NoCopyCallOK DEF Busy
  <2> QED BY <2>1, <2>3, <2>4, CallMove, Zenon
<1>e. CASE patchLastSnapshot(p)
  <2>1. /\ api' = [api EXCEPT !.rv = @ + 1] /\ proc' = [proc EXCEPT ![p] = Idle]
        /\ UNCHANGED cache /\ s.pc = "snapshot"
    BY <1>e DEF patchLastSnapshot, Goto, At
  <2>2. api'.rv = api.rv + 1 /\ api'.st = api.st
    BY <1>1, <2>1 DEF Object
  <2>3. Idle.base = Absent /\ Idle.live = {} /\ Idle.op = "none" /\ Idle.pc = "idle"
    BY DEF Idle
  <2>4. p \in Reconciles
    BY <1>1, <2>1 DEF CallOK
  <2>5. CallOK(p, Idle, api')
    BY <1>2, <2>3, <2>4, NoCopyCallOK DEF Busy
  <2> DEFINE N == {}
  <2>6. api'.st.entries \subseteq AdoptLegacyInflight(api.st).entries \cup N
    BY <1>1, <2>2, AdoptKeeps
  <2> HIDE DEF N
  <2> QED BY <1>1, <2>1, <2>2, <2>5, <2>6, CallWrite, Zenon DEF N
<1> QED BY <1>a, <1>b, <1>c, <1>d, <1>e

\* Edits, watch events and the clock.
LEMMA EnvironmentCalls ==
    ASSUME IInv, RInv,
           (\E e \in Edits : EditPolicy(e)) \/ (\E r \in Replicas : Sync(r)) \/ Tick
    PROVE  RInv'
<1>1. UNCHANGED proc
  BY Zenon DEF EditPolicy, Sync, Tick
<1>2. IsFiniteSet(Waiting')
  BY <1>1 DEF RInv, Pending, Waiting
<1>a. CASE \E e \in Edits : EditPolicy(e)
  <2>1. api'.rv = api.rv + 1 /\ api'.st = api.st /\ UNCHANGED cache
    BY <1>a, Zenon DEF EditPolicy, IInv, TypeOK, Object
  <2>2. \A p \in Procs : CallOK(p, proc[p], api')
    <3> TAKE p \in Procs
    <3>1. proc[p].base.rv \in Nat /\ proc[p].base.rv <= api.rv /\ api.rv \in Nat
      BY DEF IInv, TypeOK, ProcOK, Copy, Object
    <3>2. CallOK(p, proc[p], api)
      BY DEF RInv
    <3> DEFINE s == proc[p]
    <3> HIDE DEF s
    <3>3. s.base.rv # api'.rv /\ (HasNoEntry(p[2], api) <=> HasNoEntry(p[2], api'))
      <4>1. \A i, j \in Nat : i <= j => i # j + 1
        OBVIOUS
      <4>2. s.base.rv # api'.rv
        BY <2>1, <3>1, <4>1, Zenon DEF s
      <4>3. HasNoEntry(p[2], api) <=> HasNoEntry(p[2], api')
        BY <2>1, Zenon DEF HasNoEntry
      <4> QED BY <4>2, <4>3
    <3> QED BY <3>2, <3>3 DEF CallOK, s
  <2> QED BY <1>1, <1>2, <2>1, <2>2 DEF RInv
<1>b. CASE \E r \in Replicas : Sync(r)
  BY <1>1, <1>2, <1>b, Zenon DEF Sync, RInv, IInv, TypeOK
<1>c. CASE Tick
  BY <1>1, <1>2, <1>c, Zenon DEF Tick, RInv
<1> QED BY <1>a, <1>b, <1>c

\* The operator finds no entry and no release under way.
LEMMA InitEmpty == Init => api.st.entries = {} /\ Waiting = {}
<1> SUFFICES ASSUME Init PROVE api.st.entries = {} /\ Waiting = {}
  OBVIOUS
<1> PICK o \in Starts : /\ api = o.api
                        /\ proc = [p \in Procs |-> IF p \in o.cast THEN Idle ELSE Over]
  BY DEF Init
<1>1. api.st.entries = {}
  <2>1. Absent.st.entries = {} /\ \A n, c : Legacy(n, c).st.entries = {}
    BY Zenon DEF Absent, EmptyStatus, Legacy
  <2>2. o.api = Absent \/ \E n, c : o.api = Legacy(n, c)
    BY StartAssumption
  <2> QED BY <2>1, <2>2
<1>2. Waiting = {}
  <2>1. \A b \in Unnamed : <<"complete", b>> \in Procs
    BY StoreAssumption DEF Procs, Completes
  <2> QED BY <2>1 DEF Waiting, Pending, Idle, Over
<1> QED BY <1>1, <1>2

\* The strengthening holds when the operator is installed.
LEMMA InitCalls == Init => RInv
<1> SUFFICES ASSUME Init PROVE RInv
  OBVIOUS
<1> PICK o \in Starts : proc = [p \in Procs |-> IF p \in o.cast THEN Idle ELSE Over]
  BY DEF Init
<1>1. api.st.entries = {} /\ Waiting = {}
  BY InitEmpty
<1>2. Fits(api.st)
  BY <1>1, FS_EmptySet, CapAssumption DEF Fits
<1>3. \A p \in Procs : CallOK(p, proc[p], api)
  <2> TAKE p \in Procs
  <2>1. /\ proc[p].base = Absent /\ proc[p].live = {} /\ proc[p].op = "none"
        /\ proc[p].pc \in {"idle", "failed"}
    BY DEF Idle, Over
  <2> QED BY <1>1, <2>1, NoCopyCallOK DEF HasNoEntry, Busy
<1> QED BY <1>1, <1>2, <1>3, FS_EmptySet DEF RInv, Init

\* Every step keeps it.
LEMMA NextCalls == IInv /\ RInv /\ [Next]_vars => RInv'
<1> SUFFICES ASSUME IInv, RInv, [Next]_vars PROVE RInv'
  OBVIOUS
<1>1. CASE UNCHANGED vars
  BY <1>1 DEF vars, RInv, Pending, Waiting
<1>2. ASSUME NEW p \in Procs, Step(p) PROVE RInv'
  BY <1>2, EnsureCalls, OperationCalls, ServeCalls, ReconcileCalls DEF Step
<1>3. ASSUME NEW p \in Procs, NEW r \in Replicas, Begin(p, r) \/ recGet(p, r) PROVE RInv'
  BY <1>3, EnsureCalls, ReconcileCalls
<1>4. ASSUME NEW b \in Builds, NEW r \in Replicas, BeginComplete(b, r) PROVE RInv'
  BY <1>4, CompleteCall
<1>5. CASE (\E e \in Edits : EditPolicy(e)) \/ (\E r \in Replicas : Sync(r)) \/ Tick
  BY <1>5, EnvironmentCalls
<1> QED BY <1>1, <1>2, <1>3, <1>4, <1>5 DEF Next

\* Both invariants hold in every reachable state.
THEOREM StrongerInvariant == Spec => [](IInv /\ RInv)
  BY InitKeeps, NextKeeps, InitCalls, NextCalls, PTL DEF Spec

\* The count old readers use agrees with the entries, which never exceed the
\* cap, whatever copies the writers started from.
THEOREM ProjectionHolds == Spec => []ProjectionMatchesEntries
<1>1. RInv => ProjectionMatchesEntries
  BY DEF RInv, Fits, ProjectionMatchesEntries
<1> QED BY <1>1, StrongerInvariant, PTL

-----------------------------------------------------------------------------
(* What the registry sees of a set of entries.                             *)

\* A registration is an entry that carries the id of a build.
LEMMA RegisteredIs ==
    ASSUME NEW es \in SUBSET Entries
    PROVE  \A r : r \in Registered(es) <=> \E b \in Builds, t \in Int :
              r = [build |-> b, since |-> t] /\ Entry(InflightID(b), t) \in es
<1> TAKE r
<1>1. ASSUME r \in Registered(es)
      PROVE  \E b \in Builds, t \in Int :
                r = [build |-> b, since |-> t] /\ Entry(InflightID(b), t) \in es
  <2>1. PICK b \in Builds, e \in es : e.id = InflightID(b) /\ r = [build |-> b, since |-> e.since]
    BY <1>1 DEF Registered
  <2>2. e.since \in Int /\ e = Entry(InflightID(b), e.since)
    BY <2>1 DEF Entries, Entry
  <2> QED BY <2>1, <2>2
<1>2. ASSUME NEW b \in Builds, NEW t \in Int, r = [build |-> b, since |-> t],
             Entry(InflightID(b), t) \in es
      PROVE  r \in Registered(es)
  <2> DEFINE e == Entry(InflightID(b), t)
             y == <<b, e>>
  <2>1. e.id = InflightID(b) /\ e.since = t
    BY DEF Entry
  <2>2. y \in {z \in Builds \X es : z[2].id = InflightID(z[1])}
    BY <1>2, <2>1
  <2>3. y[1] = b /\ y[2].since = t
    BY <2>1
  <2> HIDE DEF y
  <2> QED BY <1>2, <2>2, <2>3 DEF Registered
<1> QED BY <1>1, <1>2


\* Trimming the entries of a status drops only expired registrations.
LEMMA RegisteredTrimmed ==
    ASSUME NEW st \in Status, IsFiniteSet(st.entries), Fits(st), NEW n \in Int,
           NEW es \in SUBSET Entries, es \subseteq AdoptLegacyInflight(st).entries,
           \A e \in st.entries : n - e.since <= maxBuildAge => e \in es
    PROVE  /\ Registered(es) \subseteq Registered(st.entries)
           /\ \A r \in Registered(st.entries) \ Registered(es) : n - r.since > maxBuildAge
<1>1. st.entries \in SUBSET Entries
  BY DEF Status
<1>2. \A b : \A t : Entry(InflightID(b), t) \in es => Entry(InflightID(b), t) \in st.entries
  BY AdoptFits DEF Entry
<1>3. Registered(es) \subseteq Registered(st.entries)
  BY <1>1, <1>2, RegisteredIs
<1>4. ASSUME NEW r \in Registered(st.entries) \ Registered(es)
      PROVE  n - r.since > maxBuildAge
  <2>1. PICK b \in Builds, t \in Int :
           r = [build |-> b, since |-> t] /\ Entry(InflightID(b), t) \in st.entries
    BY <1>1, <1>4, RegisteredIs
  <2>2. Entry(InflightID(b), t) \notin es
    BY <1>4, <2>1, RegisteredIs
  <2>3. ~(n - t <= maxBuildAge)
    BY <2>1, <2>2 DEF Entry
  <2> QED BY <2>1, <2>3, maxBuildAgeType
<1> QED BY <1>3, <1>4

\* One entry more.
LEMMA RegisteredAdd ==
    ASSUME NEW es \in SUBSET Entries, NEW b \in Builds, NEW t \in Int
    PROVE  Registered(es \cup {Entry(InflightID(b), t)})
             = Registered(es) \cup {[build |-> b, since |-> t]}
<1> DEFINE e == Entry(InflightID(b), t)
<1>1. e \in Entries
  BY DEF Entry, Entries, EntryIDs
<1>2. \A c, u : Entry(InflightID(c), u) = e <=> c = b /\ u = t
  BY DEF Entry, InflightID
<1>3. es \cup {e} \in SUBSET Entries
  BY <1>1
<1> HIDE DEF e
<1>4. \A r : r \in Registered(es \cup {e}) <=> r \in Registered(es) \/ r = [build |-> b, since |-> t]
  BY <1>2, <1>3, RegisteredIs
<1> QED BY <1>4 DEF e

\* One entry less.
LEMMA RegisteredRemove ==
    ASSUME NEW es \in SUBSET Entries, NEW e \in es
    PROVE  /\ Registered(es \ {e}) = Registered(es) \ Registered({e})
           /\ e \in Oldest(es) =>
                \/ Registered({e}) = {}
                \/ \E f \in Registered(es) : /\ Registered({e}) = {f}
                                             /\ \A g \in Registered(es) : f.since <= g.since
           /\ \A b \in Builds :
                 e.id = InflightID(b) /\ (\A f \in es : f.id = InflightID(b) => f = e)
                 => Registered(es \ {e}) = {r \in Registered(es) : r.build # b}
<1>1. /\ es \ {e} \in SUBSET Entries /\ {e} \in SUBSET Entries
      /\ \A b, c : InflightID(b) = InflightID(c) => b = c
  BY DEF InflightID
<1>2. Registered(es \ {e}) = Registered(es) \ Registered({e})
  <2>1. \A b, c, t, u : [build |-> b, since |-> t] = [build |-> c, since |-> u] => b = c /\ t = u
    OBVIOUS
  <2>2. \A r : r \in Registered(es \ {e}) <=> r \in Registered(es) /\ r \notin Registered({e})
    BY <1>1, <2>1, RegisteredIs
  <2> QED BY <2>2
<1>3. ASSUME e \in Oldest(es), Registered({e}) # {}
      PROVE  \E f \in Registered(es) : /\ Registered({e}) = {f}
                                       /\ \A g \in Registered(es) : f.since <= g.since
  <2>1. PICK f : f \in Registered({e})
    BY <1>3
  <2>2. PICK b \in Builds, t \in Int : f = [build |-> b, since |-> t] /\ Entry(InflightID(b), t) = e
    BY <1>1, <2>1, RegisteredIs
  <2>3. \A c, u : Entry(InflightID(c), u) = e <=> c = b /\ u = t
    BY <2>2 DEF Entry, InflightID
  <2>4. Registered({e}) = {f}
    BY <1>1, <2>2, <2>3, RegisteredIs
  <2>5. f \in Registered(es)
    BY <2>2, RegisteredIs
  <2>6. ASSUME NEW g \in Registered(es) PROVE f.since <= g.since
    <3>1. PICK c \in Builds, u \in Int : g = [build |-> c, since |-> u] /\ Entry(InflightID(c), u) \in es
      BY RegisteredIs
    <3>2. e.since <= Entry(InflightID(c), u).since
      BY <1>3, <3>1 DEF Oldest
    <3> QED BY <2>2, <3>1, <3>2 DEF Entry
  <2> QED BY <2>4, <2>5, <2>6, Zenon
<1>4. ASSUME NEW b \in Builds, e.id = InflightID(b), \A f \in es : f.id = InflightID(b) => f = e
      PROVE  Registered(es \ {e}) = {r \in Registered(es) : r.build # b}
  <2>1. \A r : r \in Registered(es \ {e}) => r \in Registered(es) /\ r.build # b
    <3> SUFFICES ASSUME NEW r \in Registered(es \ {e}) PROVE r \in Registered(es) /\ r.build # b
      OBVIOUS
    <3>1. PICK c \in Builds, u \in Int :
             r = [build |-> c, since |-> u] /\ Entry(InflightID(c), u) \in es \ {e}
      BY <1>1, RegisteredIs
    <3>2. c # b
      BY <1>4, <3>1 DEF Entry
    <3> QED BY <3>1, <3>2, RegisteredIs
  <2>2. \A r \in Registered(es) : r.build # b => r \in Registered(es \ {e})
    <3> SUFFICES ASSUME NEW r \in Registered(es), r.build # b PROVE r \in Registered(es \ {e})
      OBVIOUS
    <3>1. PICK c \in Builds, u \in Int :
             r = [build |-> c, since |-> u] /\ Entry(InflightID(c), u) \in es
      BY RegisteredIs
    <3>2. Entry(InflightID(c), u) # e
      BY <1>1, <1>4, <3>1 DEF Entry
    <3> QED BY <1>1, <3>1, <3>2, RegisteredIs
  <2> QED BY <2>1, <2>2, Zenon
<1> QED BY <1>2, <1>3, <1>4, Zenon

-----------------------------------------------------------------------------
(* Every step is a step of the registry, or changes nothing it shows.      *)

\* The releases under way, when one process moves.
LEMMA WaitingMoves ==
    ASSUME IInv, RInv, NEW p \in Procs, NEW n, proc' = [proc EXCEPT ![p] = n]
    PROVE  /\ p \notin Completes \/ p[2] \notin Unnamed \/ (Busy(proc[p]) <=> Busy(n))
                => UNCHANGED Waiting
           /\ p \in Completes /\ p[2] \in Unnamed /\ Busy(proc[p]) /\ ~Busy(n)
                => /\ Cardinality(Waiting) > 0
                   /\ Cardinality(Waiting)' = Cardinality(Waiting) - 1
           /\ p \in Completes /\ p[2] \in Unnamed /\ ~Busy(proc[p]) /\ Busy(n)
                => Cardinality(Waiting)' = Cardinality(Waiting) + 1
<1>1. \A b \in Unnamed : <<"complete", b>> \in Procs
  BY StoreAssumption DEF Procs, Completes
<1>2. \A q \in Procs : proc'[q] = IF q = p THEN n ELSE proc[q]
  BY DEF IInv, TypeOK
<1>3. \A b : Pending(b) <=> Busy(proc[<<"complete", b>>])
  BY DEF Pending, Busy
<1>4. \A b : Pending(b)' <=> Busy(proc'[<<"complete", b>>])
  BY DEF Pending, Busy
<1>5. \A b : b \in Waiting <=> b \in Unnamed /\ Busy(proc[<<"complete", b>>])
  BY <1>3, Zenon DEF Waiting
<1>6. \A b : b \in Waiting' <=> b \in Unnamed /\ Busy(proc'[<<"complete", b>>])
  BY <1>4, Zenon DEF Waiting
<1>7. IsFiniteSet(Waiting) /\ Cardinality(Waiting) \in Nat
  BY FS_CardinalityType DEF RInv
<1>8. p \in Completes => p = <<"complete", p[2]>>
  BY Kinds
<1>9. \A b : p = <<"complete", b>> => p \in Completes \/ b \notin Unnamed
  BY StoreAssumption DEF Completes
<1>10. \A b : p = <<"complete", b>> => p[2] = b
  OBVIOUS
<1>a. ASSUME p \notin Completes \/ p[2] \notin Unnamed \/ (Busy(proc[p]) <=> Busy(n))
      PROVE  UNCHANGED Waiting
  <2>1. \A b : b \in Waiting' <=> b \in Waiting
    BY <1>a, <1>1, <1>2, <1>5, <1>6, <1>9, <1>10, Zenon
  <2> QED BY <2>1
<1>b. ASSUME p \in Completes, p[2] \in Unnamed, Busy(proc[p]), ~Busy(n)
      PROVE  Cardinality(Waiting) > 0 /\ Cardinality(Waiting') = Cardinality(Waiting) - 1
  <2>1. p[2] \in Waiting
    BY <1>b, <1>5, <1>8
  <2>2. Waiting' = Waiting \ {p[2]}
    <3>1. \A b : b \in Waiting' <=> b \in Waiting /\ b # p[2]
      <4> TAKE b
      <4>1. CASE b = p[2]
        BY <1>b, <1>2, <1>6, <1>8, <4>1
      <4>2. CASE b # p[2]
        BY <1>1, <1>2, <1>5, <1>6, <1>10, <4>2, Zenon
      <4> QED BY <4>1, <4>2
    <3> QED BY <3>1
  <2>3. Cardinality(Waiting \ {p[2]}) = Cardinality(Waiting) - 1
    BY <1>7, <2>1, FS_RemoveElement, Zenon
  <2>4. Cardinality(Waiting) # 0
    BY <1>7, <2>1, FS_EmptySet
  <2> QED BY <1>7, <2>2, <2>3, <2>4
<1>c. ASSUME p \in Completes, p[2] \in Unnamed, ~Busy(proc[p]), Busy(n)
      PROVE  Cardinality(Waiting') = Cardinality(Waiting) + 1
  <2>1. p[2] \notin Waiting
    BY <1>c, <1>5, <1>8
  <2>2. Waiting' = Waiting \cup {p[2]}
    <3>1. \A b : b \in Waiting' <=> b \in Waiting \/ b = p[2]
      <4> TAKE b
      <4>1. CASE b = p[2]
        BY <1>c, <1>2, <1>6, <1>8, <4>1
      <4>2. CASE b # p[2]
        BY <1>1, <1>2, <1>5, <1>6, <1>10, <4>2, Zenon
      <4> QED BY <4>1, <4>2
    <3> QED BY <3>1
  <2> QED BY <1>7, <2>1, <2>2, FS_AddElement, Zenon
<1> QED BY <1>a, <1>b, <1>c

\* A process moves and the entries stay: nothing happened, or a release
\* without a token is over.
LEMMA MoveMaps ==
    ASSUME IInv, RInv, NEW p \in Procs, NEW n, proc' = [proc EXCEPT ![p] = n],
           UNCHANGED <<now, asked>>, api'.st.entries = api.st.entries,
           p \in Completes /\ p[2] \in Unnamed /\ Busy(n) => Busy(proc[p])
    PROVE  [Registry!Next]_(Registry!vars)
<1> DEFINE A == Registered(api.st.entries)
           c == Cardinality(Waiting)
<1>1. A' = A
  BY Zenon
<1>2. CASE p \notin Completes \/ p[2] \notin Unnamed \/ (Busy(proc[p]) <=> Busy(n))
  <2>1. c' = c
    BY <1>2, WaitingMoves, Zenon
  <2> QED BY <1>1, <2>1 DEF Registry!vars
<1>3. CASE p \in Completes /\ p[2] \in Unnamed /\ Busy(proc[p]) /\ ~Busy(n)
  <2>1. c > 0 /\ c' = c - 1
    BY <1>3, WaitingMoves, Zenon
  <2>2. Registry!ReleaseOldest
    <3> HIDE DEF A, c
    <3>1. /\ UNCHANGED <<now, asked>> /\ c > 0 /\ c' = c - 1
          /\ \E gone \in SUBSET {e \in A : now - e.since > maxBuildAge} :
             \E taken \in {{}} \cup {{e} : e \in {f \in A \ gone : \A g \in A \ gone : f.since <= g.since}} :
                A' = A \ (gone \cup taken)
      <4>1. {} \in SUBSET {e \in A : now - e.since > maxBuildAge} /\ A' = A \ ({} \cup {})
        BY <1>1
      <4>2. {} \in {{}} \cup {{e} : e \in {f \in A \ {} : \A g \in A \ {} : f.since <= g.since}}
        OBVIOUS
      <4> QED BY <2>1, <4>1, <4>2, Zenon
    <3> QED BY <3>1, Zenon DEF Registry!ReleaseOldest, Registry!Expirable, Registry!OldestOrNone, A, c
  <2> QED BY <2>2 DEF Registry!Next
<1> QED BY <1>2, <1>3

\* A status write that passed the version check maps to the step of the
\* registry its operation is named for.
LEMMA StoreMaps ==
    ASSUME IInv, RInv, NEW p \in Procs, proc[p].pc = "put", proc[p].base.rv = api.rv,
           NEW st \in Results(p), Store(p, st), UNCHANGED <<now, asked>>,
           NEW n, proc' = [proc EXCEPT ![p] = n], ~Busy(n)
    PROVE  [Registry!Next]_(Registry!vars)
<1> DEFINE s == proc[p]
           old == api.st
           lv == live(old, s.t)
           Inflight(S) == {[SetInflight(old, es) EXCEPT !.last = s.t] : es \in S}
           A == Registered(api.st.entries)
           c == Cardinality(Waiting)
           Old == {e \in A : now - e.since > maxBuildAge}
<1>1. /\ TypeOK /\ ProcOK(p, s, api, now, asked) /\ CallOK(p, s, api) /\ Fits(old)
      /\ api \in Object /\ s \in ProcState /\ old \in Status /\ IsFiniteSet(old.entries)
      /\ s.t \in Nat /\ now \in Nat /\ s.t <= now /\ old.entries \in SUBSET Entries
  BY DEF IInv, TypeOK, RInv, ProcOK, Copy, Object, Status, ProcState
<1>t. s.t \in Int /\ now \in Int
  BY DEF IInv, TypeOK, ProcState
<1>2. s.base = api
  BY <1>1 DEF ProcOK, Copy
<1>3. st \in Status
  BY <1>1, <1>2, ResultsKeep, Zenon
<1>4. api'.st = st
  BY <1>1, <1>3, NewVersion, Zenon DEF Store
<1>5. A' = Registered(st.entries)
  BY <1>4, Zenon
<1>6. s.op # "endOldest" => c' = c
  BY <1>1, WaitingMoves, Zenon DEF CallOK, Busy
<1>7. /\ lv \in SUBSET Entries /\ IsFiniteSet(lv) /\ lv \subseteq AdoptLegacyInflight(old).entries
      /\ \A e \in old.entries : now - e.since <= maxBuildAge => e \in lv
  <2>1. /\ lv \in SUBSET Entries /\ IsFiniteSet(lv)
        /\ \A e \in old.entries : s.t - e.since <= maxBuildAge => e \in lv
    BY <1>1, <1>t, LiveKeeps, Zenon
  <2>2. lv \subseteq AdoptLegacyInflight(old).entries
    BY DEF live, ExpireInflight
  <2>3. \A e \in old.entries : e.since \in Int
    BY <1>1 DEF Entries
  <2>4. \A e \in old.entries : now - e.since <= maxBuildAge => s.t - e.since <= maxBuildAge
    <3>1. s.t \in Nat /\ now \in Nat /\ s.t <= now
      BY <1>1
    <3> HIDE DEF s, old
    <3> QED BY <2>3, <3>1, maxBuildAgeType
  <2> HIDE DEF lv
  <2> QED BY <2>1, <2>2, <2>4
<1>8. Registered(lv) \subseteq A /\ A \ Registered(lv) \in SUBSET Old
  <2> HIDE DEF lv
  <2>1. /\ Registered(lv) \subseteq Registered(old.entries)
        /\ \A r \in Registered(old.entries) \ Registered(lv) : now - r.since > maxBuildAge
    <3> HIDE DEF old
    <3> QED BY <1>1, <1>7, <1>t, RegisteredTrimmed, Zenon
  <2> QED BY <2>1
<1>9. ASSUME NEW S, st \in Inflight(S), \A es \in S : es \in SUBSET Entries /\ IsFiniteSet(es)
      PROVE  st.entries \in S
  <2>1. PICK es \in S : st = [SetInflight(old, es) EXCEPT !.last = s.t]
    BY <1>9
  <2>2. SetInflight(old, es) \in Status /\ SetInflight(old, es).entries = es
    BY <1>1, <1>9, SetInflightType
  <2> QED BY <2>1, <2>2 DEF Status
<1> HIDE DEF lv, Inflight
<1> DEFINE Oldies(X) == {{}} \cup {{e} : e \in {f \in X : \A g \in X : f.since <= g.since}}
<1>10. A \ (A \ Registered(lv)) = Registered(lv)
  BY <1>8
<1>a. CASE s.op = "start"
  <2>1. st \in Inflight(StartInflight(lv, p[2], s.t))
    BY <1>2, <1>a DEF Results, Inflight, lv
  <2>2. p[2] \in Builds /\ p \in Routes /\ HasNoEntry(p[2], api)
    BY <1>1, <1>a, Kinds DEF ProcOK, CallOK, Early
  <2>a. p[2] \in Builds
    BY <2>2
  <2>3. st.entries \in StartInflight(lv, p[2], s.t)
    <3>1. \A es \in StartInflight(lv, p[2], s.t) : es \in SUBSET Entries /\ IsFiniteSet(es)
      <4>1. lv \in SUBSET Entries /\ IsFiniteSet(lv)
        BY <1>7
      <4> QED BY <2>a, <4>1, <1>t, StartKeeps
    <3> QED BY <1>9, <2>1, <3>1
  <2> DEFINE new == [build |-> p[2], since |-> s.t]
  <2>4. PICK pushed \in Oldies(Registered(lv)) :
           Registered(st.entries) = (Registered(lv) \ pushed) \cup {new}
    <3>1. CASE st.entries = lv \cup {Entry(InflightID(p[2]), s.t)}
      <4>1. Registered(st.entries) = (Registered(lv) \ {}) \cup {new}
        <5>1. Registered(lv \cup {Entry(InflightID(p[2]), s.t)}) = Registered(lv) \cup {new}
          <6>1. lv \in SUBSET Entries
            BY <1>7
          <6> QED BY <2>a, <6>1, <1>t, RegisteredAdd
        <5> QED BY <3>1, <5>1
      <4> QED BY <4>1, Zenon
    <3>2. CASE \E e \in Oldest(lv) : st.entries = (lv \ {e}) \cup {Entry(InflightID(p[2]), s.t)}
      <4>1. PICK e \in Oldest(lv) : st.entries = (lv \ {e}) \cup {Entry(InflightID(p[2]), s.t)}
        BY <3>2
      <4>2. e \in lv /\ lv \ {e} \in SUBSET Entries
        BY <1>7 DEF Oldest
      <4>3. Registered(st.entries) = Registered(lv \ {e}) \cup {new}
        <5> DEFINE rest == lv \ {e}
        <5> HIDE DEF rest
        <5>1. rest \in SUBSET Entries /\ st.entries = rest \cup {Entry(InflightID(p[2]), s.t)}
          BY <4>1, <4>2 DEF rest
        <5>2. Registered(st.entries) = Registered(rest) \cup {new}
          BY <2>a, <5>1, <1>t, RegisteredAdd
        <5> QED BY <5>2 DEF rest
      <4>4. Registered(lv \ {e}) = Registered(lv) \ Registered({e})
        BY <1>7, <4>2, RegisteredRemove, Zenon
      <4>5. Registered({e}) \in Oldies(Registered(lv))
        <5>1. \/ Registered({e}) = {}
              \/ \E f \in Registered(lv) : /\ Registered({e}) = {f}
                                           /\ \A g \in Registered(lv) : f.since <= g.since
          BY <1>7, <4>2, RegisteredRemove, Zenon
        <5> QED BY <5>1, Zenon
      <4> HIDE DEF new
      <4> QED BY <4>3, <4>4, <4>5, Zenon
    <3> QED BY <2>3, <3>1, <3>2, Zenon DEF StartInflight
  <2>5. \A e \in A : e.build # p[2]
    <3> TAKE e \in A
    <3>1. PICK b \in Builds, t \in Int : e = [build |-> b, since |-> t] /\ Entry(InflightID(b), t) \in old.entries
      BY <1>1, RegisteredIs
    <3> QED BY <2>2, <3>1 DEF HasNoEntry, Entry
  <2> DEFINE gone == A \ Registered(lv)
  <2>6. A' = (A \ (gone \cup pushed)) \cup {[build |-> p[2], since |-> s.t]}
    BY <1>5, <1>8, <2>4
  <2>7. pushed \in Oldies(A \ gone) /\ gone \in SUBSET Old /\ s.t \in 0..now
    BY <1>1, <1>8, <1>10, <2>4
  <2> HIDE DEF gone
  <2>8. /\ UNCHANGED <<now, asked>> /\ c' = c
        /\ \A e \in A : e.build # p[2]
        /\ \E t \in 0..now, g \in SUBSET Old : \E q \in Oldies(A \ g) :
              A' = (A \ (g \cup q)) \cup {[build |-> p[2], since |-> t]}
    BY <1>6, <1>a, <2>5, <2>6, <2>7, Zenon
  <2>9. Registry!Register(p[2])
    BY <2>8, Zenon DEF Registry!Register, Registry!Expirable, Registry!OldestOrNone
  <2> QED BY <2>2, <2>9 DEF Registry!Next
<1>b. CASE s.op = "end"
  <2>1. st \in Inflight(EndInflight(lv, p[2]))
    BY <1>2, <1>b DEF Results, Inflight, lv
  <2>2. p[2] \in Builds /\ p[2] \in asked
    BY <1>1, <1>b, Kinds DEF ProcOK
  <2>3. st.entries \in EndInflight(lv, p[2])
    <3>1. \A es \in EndInflight(lv, p[2]) : es \in SUBSET Entries /\ IsFiniteSet(es)
      BY <1>7, EndKeeps, Zenon
    <3> QED BY <1>9, <2>1, <3>1
  <2>4. PICK e \in lv : e.id = InflightID(p[2]) /\ st.entries = lv \ {e}
    BY <2>3 DEF EndInflight
  <2>5. \A f \in lv : f.id = InflightID(p[2]) => f = e
    <3>1. \A f \in lv : f.id = InflightID(p[2]) => f \in old.entries
      BY <1>1, <1>7, AdoptFits
    <3> QED BY <2>2, <2>4, <3>1 DEF RInv
  <2>6. Registered(lv \ {e}) = {r \in Registered(lv) : r.build # p[2]}
    <3>1. \A b \in Builds :
             e.id = InflightID(b) /\ (\A f \in lv : f.id = InflightID(b) => f = e)
             => Registered(lv \ {e}) = {r \in Registered(lv) : r.build # b}
      BY <1>7, RegisteredRemove, Zenon
    <3> QED BY <2>2, <2>4, <2>5, <3>1, Zenon
  <2> DEFINE gone == A \ Registered(lv)
  <2>7. A' = {r \in A \ gone : r.build # p[2]} /\ gone \in SUBSET Old
    BY <1>5, <1>8, <1>10, <2>4, <2>6, Zenon
  <2> HIDE DEF gone
  <2>8. /\ UNCHANGED <<now, asked>> /\ c' = c /\ p[2] \in asked
        /\ \E g \in SUBSET Old : A' = {r \in A \ g : r.build # p[2]}
    BY <1>6, <1>b, <2>2, <2>7
  <2>9. Registry!Release(p[2])
    BY <2>8 DEF Registry!Release, Registry!Expirable
  <2> QED BY <2>2, <2>9 DEF Registry!Next
<1>c. CASE s.op = "endOldest"
  <2>1. st \in Inflight(EndOldest(lv))
    BY <1>2, <1>c DEF Results, Inflight, lv
  <2>2. p \in Completes /\ Busy(s) /\ p[2] \in Unnamed
    BY <1>1, <1>c DEF CallOK
  <2>3. c > 0 /\ c' = c - 1
    BY <2>2, WaitingMoves, Zenon
  <2>4. st.entries \in EndOldest(lv)
    <3>1. \A es \in EndOldest(lv) : es \in SUBSET Entries /\ IsFiniteSet(es)
      BY <1>7, EndOldestKeeps, Zenon
    <3> QED BY <1>9, <2>1, <3>1
  <2>5. PICK e \in Oldest(lv) : st.entries = lv \ {e}
    BY <2>4 DEF EndOldest
  <2>6. e \in lv
    BY DEF Oldest
  <2> DEFINE taken == Registered({e})
             gone == A \ Registered(lv)
  <2>7. Registered(st.entries) = Registered(lv) \ taken
    BY <1>7, <2>5, <2>6, RegisteredRemove, Zenon
  <2>8. taken \in Oldies(Registered(lv))
    <3>1. \/ Registered({e}) = {}
          \/ \E f \in Registered(lv) : /\ Registered({e}) = {f}
                                       /\ \A g \in Registered(lv) : f.since <= g.since
      BY <1>7, <2>6, RegisteredRemove, Zenon
    <3> QED BY <3>1, Zenon
  <2> HIDE DEF taken
  <2>9. A' = A \ (gone \cup taken) /\ gone \in SUBSET Old /\ taken \in Oldies(A \ gone)
    BY <1>5, <1>8, <1>10, <2>7, <2>8
  <2> HIDE DEF gone
  <2>10. /\ UNCHANGED <<now, asked>> /\ c > 0 /\ c' = c - 1
         /\ \E g \in SUBSET Old : \E q \in Oldies(A \ g) : A' = A \ (g \cup q)
    BY <2>3, <2>9, Zenon
  <2>11. Registry!ReleaseOldest
    BY <2>10, Zenon DEF Registry!ReleaseOldest, Registry!Expirable, Registry!OldestOrNone
  <2> QED BY <2>11 DEF Registry!Next
<1>d. CASE s.op \in {"touch", "grant"}
  <2>1. st.entries = old.entries
    BY <1>1, <1>2, <1>d DEF Results, Status
  <2>2. A' = A
    BY <1>5, <2>1, Zenon
  <2> QED BY <1>6, <1>d, <2>2 DEF Registry!vars
<1>e. CASE s.op = "sweep"
  <2>1. st = SetInflight(old, s.live)
    BY <1>2, <1>e DEF Results
  <2>2. /\ s.live \in SUBSET Entries /\ IsFiniteSet(s.live) /\ Unexpired(api, now) \subseteq s.live
        /\ s.live \subseteq AdoptLegacyInflight(old).entries
    BY <1>1, <1>2, <1>e DEF ProcOK, ProcState, CallOK
  <2>3. st.entries = s.live
    BY <1>1, <2>1, <2>2, SetInflightType, Zenon
  <2>4. \A e \in old.entries : now - e.since <= maxBuildAge => e \in s.live
    BY <2>2 DEF Unexpired
  <2>5. Registered(s.live) \subseteq A /\ A \ Registered(s.live) \in SUBSET Old
    <3>1. /\ Registered(s.live) \subseteq Registered(old.entries)
          /\ \A r \in Registered(old.entries) \ Registered(s.live) : now - r.since > maxBuildAge
      <4> HIDE DEF old
      <4> QED BY <1>1, <1>t, <2>2, <2>4, RegisteredTrimmed, Zenon
    <3> QED BY <3>1
  <2> DEFINE gone == A \ Registered(s.live)
  <2>6. A' = A \ gone /\ gone \in SUBSET Old
    BY <1>5, <2>3, <2>5
  <2> HIDE DEF gone
  <2>7. UNCHANGED <<now, asked>> /\ c' = c /\ \E g \in SUBSET Old : A' = A \ g
    BY <1>6, <1>e, <2>6
  <2>8. Registry!Expire
    BY <2>7 DEF Registry!Expire, Registry!Expirable
  <2> QED BY <2>8 DEF Registry!Next
<1>f. CASE s.op \notin {"start", "end", "endOldest", "touch", "grant", "sweep"}
  BY <1>f DEF Results
<1> QED BY <1>a, <1>b, <1>c, <1>d, <1>e, <1>f

\* Every step of the status store is a step of the registry or a stutter.
LEMMA NextMaps == IInv /\ RInv /\ [Next]_vars => [Registry!Next]_(Registry!vars)
<1> SUFFICES ASSUME IInv, RInv, [Next]_vars PROVE [Registry!Next]_(Registry!vars)
  OBVIOUS
<1> DEFINE A == Registered(api.st.entries)
           c == Cardinality(Waiting)
           Maps == [Registry!Next]_(Registry!vars)
<1> SUFFICES Maps
  OBVIOUS
<1>0. api \in Object /\ api.st \in Status /\ \A p \in Procs : CallOK(p, proc[p], api) /\ proc[p] \in ProcState
  BY DEF IInv, TypeOK, Object, RInv
<1>1. CASE UNCHANGED vars
  <2>1. A' = A /\ c' = c
    BY <1>1 DEF vars, Waiting, Pending
  <2> QED BY <1>1, <2>1 DEF vars, Registry!vars
<1>2. ASSUME NEW p \in Procs, NEW n, proc' = [proc EXCEPT ![p] = n], UNCHANGED <<now, asked>>,
             api'.st.entries = api.st.entries, p \notin Completes \/ Busy(proc[p])
      PROVE  Maps
  BY <1>2, MoveMaps, Zenon
<1> HIDE DEF Maps
<1>3. ASSUME NEW p \in Procs, Step(p) PROVE Maps
  <2> DEFINE s == proc[p]
  <2>0. CallOK(p, s, api) /\ s \in ProcState
    BY <1>0
  <2>a. CASE ensureFound(p) \/ ensureCreate(p) \/ ensureFails(p) \/ stampCreated(p)
    <3>1. p \notin Completes
      BY <2>0, <2>a DEF CallOK, ensureFound, ensureCreate, ensureFails, stampCreated, At
    <3>2. UNCHANGED <<now, asked>> /\ \E n : proc' = [proc EXCEPT ![p] = n]
      BY <2>a, Zenon DEF ensureFound, ensureCreate, ensureFails, stampCreated, Goto, history
    <3>3. CASE UNCHANGED api
      BY <1>2, <3>1, <3>2, <3>3, Zenon
    <3>4. CASE api.rv = 0 /\ api' = [Absent EXCEPT !.rv = 1]
      <4>1. api = Absent
        BY <3>4 DEF IInv
      <4>2. api'.st.entries = api.st.entries
        BY <3>4, <4>1 DEF Absent, EmptyStatus
      <4> QED BY <1>2, <3>1, <3>2, <4>2, Zenon
    <3>5. CASE api' = [api EXCEPT !.rv = @ + 1, !.st = [@ EXCEPT !.last = s.t]]
      <4>1. api'.st.entries = api.st.entries
        BY <1>0, <3>5 DEF Object, Status
      <4> QED BY <1>2, <3>1, <3>2, <4>1, Zenon
    <3> QED BY <2>a, <3>3, <3>4, <3>5
        DEF ensureFound, ensureCreate, ensureFails, stampCreated
  <2>b. CASE getMissing(p) \/ getCached(p) \/ putNothing(p) \/ putConflict(p)
    <3>1. Busy(s) /\ UNCHANGED <<now, api, asked>>
      BY <2>b DEF getMissing, getCached, putNothing, putConflict, At, Busy, history
    <3>2. \E n : proc' = [proc EXCEPT ![p] = n]
      BY <2>b, Zenon DEF getMissing, getCached, putNothing, putConflict, Goto
    <3> QED BY <1>2, <3>1, <3>2, Zenon
  <2>1. Busy(s) => ~Busy(Return(p))
    <3>1. Return(p).pc \in {"idle", "serve", "failed", "done"}
      BY <2>0, EndFields, BetweenFields DEF Return, PCs
    <3> QED BY <3>1 DEF Busy
  <2>2. ~Busy([Idle EXCEPT !.pc = "snapshot"])
    BY DEF Busy, Idle
  <2>c. CASE putApplied(p)
    <3> DEFINE n == IF p[1] = "reconcile" THEN [Idle EXCEPT !.pc = "snapshot"] ELSE Return(p)
    <3>1. PICK st \in Results(p) : Store(p, st)
      BY <2>c DEF putApplied
    <3>2. /\ s.pc = "put" /\ s.base.rv = api.rv /\ proc' = [proc EXCEPT ![p] = n]
          /\ UNCHANGED <<now, asked>>
      BY <2>c DEF putApplied, Goto, At
    <3>3. ~Busy(n)
      BY <2>1, <2>2, <3>2 DEF Busy
    <3> HIDE DEF n
    <3> QED BY <3>1, <3>2, <3>3, StoreMaps, Zenon DEF Maps
  <2>d. CASE putLost(p)
    <3> DEFINE n == Return(p)
    <3>1. s.pc = "put" /\ proc' = [proc EXCEPT ![p] = n] /\ UNCHANGED <<now, asked>>
      BY <2>d DEF putLost, Goto, At
    <3>2. ~Busy(n) /\ Busy(s)
      BY <2>1, <3>1 DEF Busy
    <3> HIDE DEF n
    <3>3. CASE UNCHANGED api
      BY <1>2, <3>1, <3>2, <3>3, Zenon
    <3>4. CASE s.base.rv = api.rv /\ \E st \in Results(p) : Store(p, st)
      <4>1. PICK st \in Results(p) : Store(p, st)
        BY <3>4
      <4> QED BY <3>1, <3>2, <3>4, <4>1, StoreMaps, Zenon DEF Maps
    <3> QED BY <2>d, <3>3, <3>4, Zenon DEF putLost
  <2>e. CASE serveReady(p) \/ s3Missing(p) \/ s3Read(p)
    <3>1. p \notin Completes /\ UNCHANGED <<now, api, asked>>
      BY <2>0, <2>e DEF CallOK, serveReady, s3Missing, s3Read, At, history
    <3>2. \E n : proc' = [proc EXCEPT ![p] = n]
      BY <2>e, Zenon DEF serveReady, s3Missing, s3Read, Goto
    <3> QED BY <1>2, <3>1, <3>2, Zenon
  <2>f. CASE serveFails(p)
    <3> DEFINE n == Call(s, "end")
    <3>1. /\ p \notin Completes /\ UNCHANGED <<now, api>> /\ asked' = asked \cup {p[2]}
          /\ s.pc = "serve" /\ proc' = [proc EXCEPT ![p] = n]
      BY <2>0, <2>f DEF CallOK, serveFails, At, Goto
    <3> HIDE DEF n
    <3>2. p[2] \in Builds
      BY <3>1, Kinds DEF IInv, ProcOK
    <3>3. c' = c /\ A' = A
      BY <3>1, WaitingMoves, Zenon
    <3>4. Registry!Ask(p[2])
      BY <3>1, <3>3 DEF Registry!Ask
    <3> QED BY <3>2, <3>4 DEF Maps, Registry!Next
  <2>g. CASE recKeep(p) \/ recFresh(p) \/ recUnchanged(p) \/ recReturn(p) \/ patchLastSnapshot(p)
    <3>1. p \in Reconciles /\ UNCHANGED <<now, asked>>
      BY <2>0, <2>g DEF CallOK, recKeep, recFresh, recUnchanged, recReturn, patchLastSnapshot,
         At, history
    <3>2. \E n : proc' = [proc EXCEPT ![p] = n]
      BY <2>g, Zenon DEF recKeep, recFresh, recUnchanged, recReturn, patchLastSnapshot, Goto
    <3>3. api'.st.entries = api.st.entries
      BY <1>0, <2>g DEF recKeep, recFresh, recUnchanged, recReturn, patchLastSnapshot, Object
    <3>4. p \notin Completes
      BY <3>1, Kinds
    <3> QED BY <1>2, <3>1, <3>2, <3>3, <3>4, Zenon
  <2> QED BY <1>3, <2>a, <2>b, <2>c, <2>d, <2>e, <2>f, <2>g DEF Step
<1>4. ASSUME NEW p \in Procs, NEW r \in Replicas, Begin(p, r) \/ recGet(p, r) PROVE Maps
  <2>1. p \notin Completes /\ UNCHANGED <<now, api, asked>>
    BY <1>4, Kinds DEF Begin, recGet, history, Routes, Touches, Completes
  <2>2. \E n : proc' = [proc EXCEPT ![p] = n]
    BY <1>4, Zenon DEF Begin, recGet, Goto
  <2> QED BY <1>2, <2>1, <2>2, Zenon
<1>5. ASSUME NEW b \in Builds, NEW r \in Replicas, BeginComplete(b, r) PROVE Maps
  <2> DEFINE p == <<"complete", b>>
             op == IF b \in Unnamed THEN "endOldest" ELSE "end"
             o == [Idle EXCEPT !.rep = r]
             n == Call(o, op)
  <2>1. p \in Procs /\ p \in Completes /\ p[2] = b
    BY DEF Procs, Completes
  <2>2. /\ proc' = [proc EXCEPT ![p] = n] /\ UNCHANGED <<now, api>>
        /\ asked' = (IF b \in Unnamed THEN asked ELSE asked \cup {b})
        /\ proc[p].pc \in {"idle", "done"}
    BY <1>5 DEF BeginComplete, Goto
  <2>3. Busy(n) /\ ~Busy(proc[p])
    <3>1. o \in ProcState
      BY IdleType DEF ProcState, Maybe
    <3>2. op \in Ops
      BY DEF Ops
    <3> HIDE DEF o, op
    <3>3. n.pc = "get"
      BY <3>1, <3>2, CallFields, Zenon DEF Starting
    <3> HIDE DEF n, p
    <3> QED BY <2>2, <3>3 DEF Busy
  <2> HIDE DEF n, p
  <2>4. A' = A
    BY <2>2
  <2>5. CASE b \in Unnamed
    <3>1. c' = c + 1
      BY <2>1, <2>2, <2>3, <2>5, WaitingMoves, Zenon
    <3>2. Registry!AskUnnamed
      BY <2>2, <2>4, <2>5, <3>1 DEF Registry!AskUnnamed
    <3> QED BY <3>2 DEF Maps, Registry!Next
  <2>6. CASE b \notin Unnamed
    <3>1. c' = c
      BY <2>1, <2>2, <2>6, WaitingMoves, Zenon
    <3>2. Registry!Ask(b)
      BY <2>2, <2>4, <2>6, <3>1 DEF Registry!Ask
    <3> QED BY <3>2 DEF Maps, Registry!Next
  <2> QED BY <2>5, <2>6
<1>6. CASE (\E e \in Edits : EditPolicy(e)) \/ (\E r \in Replicas : Sync(r))
  <2>1. UNCHANGED <<now, proc, asked>> /\ api'.st.entries = api.st.entries
    BY <1>0, <1>6, Zenon DEF EditPolicy, Sync, history, Object
  <2>2. A' = A /\ c' = c
    BY <2>1 DEF Waiting, Pending
  <2> QED BY <2>1, <2>2 DEF Maps, Registry!vars
<1>7. CASE Tick
  <2>1. A' = A /\ c' = c /\ now' = now + 1 /\ asked' = asked
    BY <1>7 DEF Tick, Waiting, Pending, history
  <2>2. Registry!Tick
    BY <2>1 DEF Registry!Tick
  <2> QED BY <2>2 DEF Maps, Registry!Next
<1> QED BY <1>1, <1>3, <1>4, <1>5, <1>6, <1>7 DEF Next

\* The status implements the registry: for any number of replicas, builds and
\* reconcile workers, entries come and go only as the registry allows.
THEOREM RefinesRegistry == Spec => ImplementsRegistry
<1>1. Init => Registry!Init
  <2> SUFFICES ASSUME Init PROVE Registry!Init
    OBVIOUS
  <2>1. api.st.entries = {} /\ Waiting = {}
    BY InitEmpty
  <2>2. Registered(api.st.entries) = {}
    BY <2>1 DEF Registered
  <2>3. Cardinality(Waiting) = 0
    BY <2>1, FS_EmptySet
  <2> QED BY <2>2, <2>3 DEF Registry!Init, Init
<1> QED BY <1>1, NextMaps, StrongerInvariant, PTL DEF Spec, ImplementsRegistry, Registry!Spec
=============================================================================
