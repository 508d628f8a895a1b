--------------------------- MODULE DataPathProofs ----------------------------
(***************************************************************************)
(* The theorems about the way of a build to its daemon: the endpoint that  *)
(* /route hands out (DaemonServing), the client that routes, builds and    *)
(* releases (BuildClient), and the gateway its bytes go through (Gateway). *)
(* For any number of routes and pod templates, any finite number of jobs,  *)
(* any addresses and set-up of host and buildd, any connections, any       *)
(* --max-conns and any number of bytes.                                    *)
(***************************************************************************)
EXTENDS DaemonServing, BuildClient, Gateway, FiniteSetTheorems, SequenceTheorems, TLAPS

(* DaemonServing.                                                          *)

ServingTypes ==
    /\ sts \in [spec : Specs, status : Statuses]
    /\ pod \in [state : {"none", "starting", "ready", "dying"}, tmpl : Templates]
    /\ leader \in Specs \cup {Idler}

\* A report that counts the pod as updated, and that no patch has outdated, is
\* about a pod of the current template.
ReportHolds ==
    sts.status.observed /\ sts.status.updated /\ pod.state \in {"starting", "ready"}
        => pod.tmpl = sts.spec.tmpl

ServingInv == ServingTypes /\ ReportHolds

LEMMA ServingInitKeeps == ServingInit => ServingInv
<1> SUFFICES ASSUME ServingInit PROVE ServingInv
  OBVIOUS
<1>1. PICK t \in Templates :
        /\ sts = [spec |-> [tmpl |-> t, replicas |-> 0],
                  status |-> [observed |-> TRUE, ready |-> FALSE, updated |-> FALSE,
                              current |-> t, update |-> t]]
        /\ pod = [state |-> "none", tmpl |-> t]
  BY Zenon DEF ServingInit
<1>2. ServingTypes
  BY <1>1 DEF ServingInit, ServingTypes, Specs, Statuses
<1>3. ReportHolds
  BY <1>1 DEF ReportHolds
<1> QED BY <1>2, <1>3, Zenon DEF ServingInv

\* A step of the routing replica or a decision of the leader.
LEMMA ServingAside ==
    ASSUME ServingInv, UNCHANGED <<sts, pod>>, leader' \in Specs \cup {Idler}
    PROVE  ServingInv'
  BY Zenon DEF ServingInv, ServingTypes, ReportHolds

LEMMA PatchKeeps == ASSUME ServingInv, patchSts PROVE ServingInv'
<1>1. /\ leader \in Specs /\ leader' = Idler /\ pod' = pod
      /\ sts' = [spec |-> leader, status |-> [sts.status EXCEPT !.observed = FALSE]]
  BY Zenon DEF patchSts, ServingInv, ServingTypes
<1>2. sts.status \in Statuses
  BY Zenon DEF ServingInv, ServingTypes
<1>3. [sts.status EXCEPT !.observed = FALSE] \in Statuses
  BY <1>2, Zenon DEF Statuses
<1>4. sts' \in [spec : Specs, status : Statuses] /\ sts'.status.observed = FALSE
  BY <1>1, <1>2, <1>3 DEF Statuses
<1> QED BY <1>1, <1>4, Zenon DEF ServingInv, ServingTypes, ReportHolds

LEMMA ControllerKeeps == ASSUME ServingInv, StsController PROVE ServingInv'
<1>1. /\ sts \in [spec : Specs, status : Statuses] /\ sts.spec.tmpl \in Templates
      /\ pod \in [state : {"none", "starting", "ready", "dying"}, tmpl : Templates]
      /\ sts.status.current \in Templates
  BY DEF ServingInv, ServingTypes, Specs, Statuses
<1>2. /\ Report \in Statuses
      /\ Report.updated => pod.state \in {"starting", "ready"} /\ pod.tmpl = sts.spec.tmpl
  <2> DEFINE rd == pod.state \in {"ready", "dying"}
             up == pod.state \in {"starting", "ready"} /\ pod.tmpl = sts.spec.tmpl
             ex == pod.state # "none"
             cur == IF ex = rd /\ ex = up THEN sts.spec.tmpl ELSE sts.status.current
  <2>1. Report = [observed |-> TRUE, ready |-> rd, updated |-> up, update |-> sts.spec.tmpl,
                  current |-> cur]
    BY Zenon DEF Report
  <2>2. rd \in BOOLEAN /\ up \in BOOLEAN
    OBVIOUS
  <2>3. up => pod.state \in {"starting", "ready"} /\ pod.tmpl = sts.spec.tmpl
    OBVIOUS
  <2> HIDE DEF rd, up, ex
  <2>4. cur \in Templates
    BY <1>1
  <2> HIDE DEF cur
  <2>5. Report \in Statuses
    BY <1>1, <2>1, <2>2, <2>4, Zenon DEF Statuses
  <2>6. Report.updated = up
    BY <2>1, Zenon
  <2> QED BY <2>3, <2>5, <2>6, Zenon
<1>3. sts' = [sts EXCEPT !.status = Report]
  BY Zenon DEF StsController
<1>4. /\ sts' \in [spec : Specs, status : Statuses]
      /\ sts'.spec = sts.spec /\ sts'.status = Report
  BY <1>1, <1>2, <1>3
<1>5. \/ pod' = [pod EXCEPT !.state = "dying"]
      \/ pod' = [state |-> "starting", tmpl |-> sts.spec.tmpl]
      \/ pod' = pod
  BY Zenon DEF StsController
<1>6. /\ pod' \in [state : {"none", "starting", "ready", "dying"}, tmpl : Templates]
      /\ pod'.tmpl = pod.tmpl \/ pod'.tmpl = sts.spec.tmpl
  BY <1>1, <1>5
<1>7. leader' \in Specs \cup {Idler}
  BY Zenon DEF StsController, ServingInv, ServingTypes
<1>8. ServingTypes'
  BY <1>4, <1>6, <1>7, Zenon DEF ServingTypes
<1>9. ReportHolds'
  BY <1>2, <1>4, <1>6, Zenon DEF ReportHolds
<1> QED BY <1>8, <1>9, Zenon DEF ServingInv

\* A pod is only ever started by the controller.
LEMMA PodKeeps ==
    ASSUME ServingInv, PodStarts \/ PodRestarts \/ PodEvicted \/ PodGone
    PROVE  ServingInv'
<1>1. PICK to \in {"none", "starting", "ready", "dying"} :
        /\ pod' = [pod EXCEPT !.state = to]
        /\ to \in {"starting", "ready"} => pod.state \in {"starting", "ready"}
  BY DEF PodStarts, PodRestarts, PodEvicted, PodGone, PodStep
<1>2. pod \in [state : {"none", "starting", "ready", "dying"}, tmpl : Templates]
  BY Zenon DEF ServingInv, ServingTypes
<1>3. /\ pod' \in [state : {"none", "starting", "ready", "dying"}, tmpl : Templates]
      /\ pod'.tmpl = pod.tmpl /\ pod'.state = to
  BY <1>1, <1>2
<1>4. UNCHANGED <<sts, leader>>
  BY Zenon DEF PodStarts, PodRestarts, PodEvicted, PodGone, PodStep
<1> QED BY <1>1, <1>3, <1>4, Zenon DEF ServingInv, ServingTypes, ReportHolds

LEMMA ServingNextKeeps == ServingInv /\ [ServingNext]_servingVars => ServingInv'
<1> SUFFICES ASSUME ServingInv, [ServingNext]_servingVars PROVE ServingInv'
  OBVIOUS
<1>0. leader \in Specs \cup {Idler}
  BY Zenon DEF ServingInv, ServingTypes
<1>1. CASE UNCHANGED servingVars
  BY <1>0, <1>1, ServingAside, Zenon DEF servingVars
<1>2. ASSUME NEW r \in Routes,
             StartInflight(r) \/ Handler(r) \/ ClientGone(r) \/ handleComplete(r)
      PROVE  ServingInv'
  BY <1>0, <1>2, ServingAside, Zenon
  DEF StartInflight, Handler, Ready, AcquireColdStart, WaitReady, WaitReadyFails, ClientGone,
      handleComplete
<1>3. CASE SyncSts
  BY <1>0, <1>3, ServingAside, Zenon DEF SyncSts
<1>4. ASSUME NEW s \in Specs, decideSpec(s) PROVE ServingInv'
  BY <1>4, ServingAside, Zenon DEF decideSpec
<1> QED BY <1>1, <1>2, <1>3, <1>4, PatchKeeps, ControllerKeeps, PodKeeps, Zenon DEF ServingNext

\* The leader's patches, the controller's reports and the life of the pod keep
\* the types and the meaning of a report (daemonServing, k8s.go).
THEOREM ServingInvariant == ServingSpec => []ServingInv
<1> QED BY ServingInitKeeps, ServingNextKeeps, PTL DEF ServingSpec

\* While the StatefulSet says "serving", a live pod of the daemon runs the
\* template of its spec, for any templates and any number of rolls
\* (daemonServing asks for the observed generation and the updated replica).
THEOREM ServingPodIsCurrent == ServingSpec => []ServingMeansCurrentPod
<1>1. ServingInv => ServingMeansCurrentPod
  BY Zenon DEF ServingInv, ReportHolds, ServingMeansCurrentPod, daemonServing
<1> QED BY <1>1, ServingInvariant, PTL

-----------------------------------------------------------------------------
(* BuildClient.                                                            *)

Stages == {"start", "routing", "routed", "exists", "remove", "recreate", "ready", "building", "done",
           "exited"}

Fates == {"none", "unrouted", "unanswered", "dry", "released", "unreleased", "denied", "lost",
          "killed"}

ClientTypes ==
    /\ cast \in Casts
    /\ pc \in [Jobs -> Stages]
    /\ resp \in [Jobs -> Endpoints \cup {None}]
    /\ ran \in [Jobs -> Endpoints \cup {None}]
    /\ fate \in [Jobs -> Fates]
    /\ entries \in Seq(Jobs)
    /\ uncounted \in SUBSET Jobs
    /\ endpoint \in Endpoints
    /\ builder \in Endpoints \cup {None}

\* No job has two entries in s.
NoRepeats(s) == \A a, b \in 1..Len(s) : s[a] = s[b] => a = b

\* A job has an entry in s.
Has(s, j) == \E a \in 1..Len(s) : s[a] = j

\* A job that has not called /route has no entry, nor has one that is not
\* counted; there are no fewer of both than jobs under way.  Where every client
\* names its build, a job under way that is counted has its entry.
EntriesCount ==
    /\ NoRepeats(entries)
    /\ \A j \in Jobs : pc[j] = "start" => ~Has(entries, j) /\ j \notin uncounted
    /\ \A j \in uncounted : ~Has(entries, j)
    /\ Cardinality(Running) <= Len(entries) + Cardinality(uncounted)
    /\ cast.old = {} => \A j \in Running : j \in uncounted \/ Has(entries, j)

\* Where every client names its build, a job that has an entry is under way or
\* left in a way that leaves one.
EntriesExcused == cast.old = {} => \A j \in Jobs : Has(entries, j) => j \in Running \/ Leaky(j)

\* Where one job runs at a time, the address of a job occurs in that of the
\* builder it found ready until it has built there.
BuilderFits ==
    cast.exclusive =>
        /\ \A j, k \in Running : j = k
        /\ \A j \in Jobs : pc[j] = "ready" => Occurs(resp[j], builder)
        /\ \A j \in Jobs : pc[j] \in {"start", "routing"} => ran[j] = None
        /\ \A j \in Jobs : ran[j] # None => Occurs(resp[j], ran[j])

ClientInv ==
    /\ ClientTypes
    /\ EntriesCount
    /\ EntriesExcused
    /\ BuilderFits

-----------------------------------------------------------------------------
(* Releases.                                                               *)

\* Taking one entry out.
LEMMA RemoveAtIs ==
    ASSUME NEW S, NEW s \in Seq(S), NEW i \in 1..Len(s)
    PROVE  /\ RemoveAt(s, i) \in Seq(S)
           /\ Len(RemoveAt(s, i)) = Len(s) - 1
           /\ \A k \in 1..(Len(s) - 1) : RemoveAt(s, i)[k] = IF k < i THEN s[k] ELSE s[k + 1]
<1> DEFINE front == SubSeq(s, 1, i - 1)
           back == SubSeq(s, i + 1, Len(s))
<1>1. Len(s) \in Nat /\ \A k \in 1..Len(s) : s[k] \in S
  BY LenProperties
<1>2. /\ front \in Seq(S) /\ Len(front) = i - 1
      /\ \A k \in 1..(i - 1) : front[k] = s[k]
  <2>1. \A k \in 1..(i - 1) : s[k] \in S
    BY <1>1
  <2>2. /\ front \in Seq(S) /\ Len(front) = IF 1 <= i - 1 THEN i - 1 - 1 + 1 ELSE 0
        /\ \A k \in 1..(i - 1 - 1 + 1) : front[k] = s[1 + k - 1]
    BY <2>1, SubSeqProperties
  <2> HIDE DEF front
  <2> QED BY <1>1, <2>2
<1>3. /\ back \in Seq(S) /\ Len(back) = Len(s) - i
      /\ \A k \in 1..(Len(s) - i) : back[k] = s[i + k]
  <2>1. \A k \in (i + 1)..Len(s) : s[k] \in S
    BY <1>1
  <2>2. /\ back \in Seq(S) /\ Len(back) = IF i + 1 <= Len(s) THEN Len(s) - (i + 1) + 1 ELSE 0
        /\ \A k \in 1..(Len(s) - (i + 1) + 1) : back[k] = s[i + 1 + k - 1]
    BY <1>1, <2>1, SubSeqProperties
  <2> HIDE DEF back
  <2> QED BY <1>1, <2>2
<1>4. RemoveAt(s, i) = front \o back
  BY DEF RemoveAt
<1> HIDE DEF front, back
<1>5. /\ front \o back \in Seq(S) /\ Len(front \o back) = Len(front) + Len(back)
      /\ \A k \in 1..(Len(front) + Len(back)) :
            (front \o back)[k] = IF k <= Len(front) THEN front[k] ELSE back[k - Len(front)]
  BY <1>2, <1>3, ConcatProperties, Zenon
<1>6. ASSUME NEW k \in 1..(Len(s) - 1)
      PROVE  (front \o back)[k] = IF k < i THEN s[k] ELSE s[k + 1]
  <2>1. CASE k < i
    BY <1>1, <1>2, <1>3, <1>5, <2>1
  <2>2. CASE ~(k < i)
    <3>1. k - (i - 1) \in 1..(Len(s) - i) /\ i + (k - (i - 1)) = k + 1
      BY <1>1, <2>2
    <3>2. (front \o back)[k] = back[k - (i - 1)]
      BY <1>1, <1>2, <1>3, <1>5, <2>2
    <3> QED BY <1>3, <2>2, <3>1, <3>2
  <2> QED BY <2>1, <2>2, Zenon
<1> QED BY <1>1, <1>2, <1>3, <1>4, <1>5, <1>6

\* What is left of a registry s after an entry went: no job is new in it, and
\* it is shorter by at most one.
Shrunk(s, t) ==
    /\ t \in Seq(Jobs)
    /\ NoRepeats(t)
    /\ Len(t) >= Len(s) - 1
    /\ \A j \in Jobs : Has(t, j) => Has(s, j)

LEMMA RemoveFirstIs ==
    ASSUME NEW s \in Seq(Jobs), NoRepeats(s), NEW j \in Jobs
    PROVE  /\ Shrunk(s, RemoveFirst(s, j)) /\ ~Has(RemoveFirst(s, j), j)
           /\ \A k \in Jobs : Has(s, k) /\ k # j => Has(RemoveFirst(s, j), k)
<1>0. Len(s) \in Nat
  BY LenProperties
<1>1. CASE ~Has(s, j)
  <2>1. RemoveFirst(s, j) = s
    BY <1>1, Zenon DEF RemoveFirst, Has
  <2> QED BY <1>0, <1>1, <2>1 DEF Shrunk
<1>2. CASE Has(s, j)
  <2>1. PICK i \in 1..Len(s) : s[i] = j
    BY <1>2, Zenon DEF Has
  <2>2. {k \in 1..Len(s) : s[k] = j} = {i}
    BY <2>1, Zenon DEF NoRepeats
  <2>3. Min({i}) = i
    BY <1>0, <2>1 DEF Min
  <2>4. RemoveFirst(s, j) = RemoveAt(s, i)
    BY <2>1, <2>2, <2>3, Zenon DEF RemoveFirst, SelectInSeq
  <2> DEFINE t == RemoveAt(s, i)
  <2>5. /\ t \in Seq(Jobs) /\ Len(t) = Len(s) - 1
        /\ \A k \in 1..(Len(s) - 1) : t[k] = IF k < i THEN s[k] ELSE s[k + 1]
    BY <2>1, RemoveAtIs, Zenon
  <2> HIDE DEF t
  <2>6. ASSUME NEW k \in 1..Len(t)
        PROVE  \E m \in 1..Len(s) : t[k] = s[m] /\ m # i /\ m = IF k < i THEN k ELSE k + 1
    BY <1>0, <2>1, <2>5
  <2>7. NoRepeats(t)
    <3> SUFFICES ASSUME NEW a \in 1..Len(t), NEW b \in 1..Len(t), t[a] = t[b] PROVE a = b
      BY Zenon DEF NoRepeats
    <3>1. PICK m \in 1..Len(s) : t[a] = s[m] /\ m # i /\ m = IF a < i THEN a ELSE a + 1
      BY <2>6
    <3>2. PICK n \in 1..Len(s) : t[b] = s[n] /\ n # i /\ n = IF b < i THEN b ELSE b + 1
      BY <2>6
    <3>3. m = n
      BY <3>1, <3>2, Zenon DEF NoRepeats
    <3>4. a \in Int /\ b \in Int /\ i \in Int
      BY <1>0, <2>1, <2>5
    <3> QED BY <3>1, <3>2, <3>3, <3>4
  <2>8. ~Has(t, j) /\ \A k \in Jobs : Has(t, k) => Has(s, k)
    BY <2>1, <2>6, Zenon DEF Has, NoRepeats
  <2>9. \A m \in 1..Len(s) : m # i => \E a \in 1..Len(t) : t[a] = s[m]
    <3> SUFFICES ASSUME NEW m \in 1..Len(s), m # i PROVE \E a \in 1..Len(t) : t[a] = s[m]
      OBVIOUS
    <3>1. CASE m < i
      <4>1. m \in 1..Len(t) /\ t[m] = s[m]
        BY <1>0, <2>1, <2>5, <3>1
      <4> QED BY <4>1, Zenon
    <3>2. CASE m > i
      <4>1. m - 1 \in 1..Len(t) /\ t[m - 1] = s[m]
        BY <1>0, <2>1, <2>5, <3>2
      <4> QED BY <4>1, Zenon
    <3> QED BY <1>0, <2>1, <3>1, <3>2
  <2>10. \A k \in Jobs : Has(s, k) /\ k # j => Has(t, k)
    BY <2>1, <2>9, Zenon DEF Has
  <2>11. Shrunk(s, t)
    BY <1>0, <2>5, <2>7, <2>8 DEF Shrunk
  <2> QED BY <2>4, <2>8, <2>10, <2>11, Zenon DEF t
<1> QED BY <1>1, <1>2

LEMMA TailIs ==
    ASSUME NEW s \in Seq(Jobs), NoRepeats(s), s # <<>>
    PROVE  /\ Shrunk(s, Tail(s)) /\ Len(Tail(s)) = Len(s) - 1 /\ ~Has(Tail(s), Head(s))
           /\ \A k \in Jobs : Has(s, k) /\ k # Head(s) => Has(Tail(s), k)
<1> DEFINE t == Tail(s)
<1>0. Len(s) \in Nat
  BY LenProperties
<1>1. /\ t \in Seq(Jobs) /\ Len(t) = Len(s) - 1 /\ \A k \in 1..Len(t) : t[k] = s[k + 1]
      /\ Head(s) = s[1] /\ 1 \in 1..Len(s)
  BY HeadTailProperties, EmptySeq
<1> HIDE DEF t
<1>2. \A k \in 1..Len(t) : k + 1 \in 1..Len(s)
  BY <1>0, <1>1
<1>3. NoRepeats(t)
  <2> SUFFICES ASSUME NEW a \in 1..Len(t), NEW b \in 1..Len(t), t[a] = t[b] PROVE a = b
    BY Zenon DEF NoRepeats
  <2>1. a + 1 = b + 1
    BY <1>1, <1>2, Zenon DEF NoRepeats
  <2>2. a \in Int /\ b \in Int
    BY <1>0, <1>1
  <2> QED BY <2>1, <2>2
<1>4. \A k \in Jobs : Has(t, k) => Has(s, k)
  BY <1>1, <1>2, Zenon DEF Has
<1>5. \A k \in 1..Len(s) : k # 1 => \E a \in 1..Len(t) : t[a] = s[k]
  <2> SUFFICES ASSUME NEW k \in 1..Len(s), k # 1 PROVE \E a \in 1..Len(t) : t[a] = s[k]
    OBVIOUS
  <2>1. k - 1 \in 1..Len(t) /\ t[k - 1] = s[k]
    BY <1>0, <1>1
  <2> QED BY <2>1, Zenon
<1>6. \A k \in Jobs : Has(s, k) /\ k # Head(s) => Has(t, k)
  BY <1>1, <1>5, Zenon DEF Has
<1>7. ~Has(t, Head(s))
  <2> SUFFICES ASSUME NEW a \in 1..Len(t), t[a] = s[1] PROVE FALSE
    BY <1>1, Zenon DEF Has
  <2>1. a + 1 = 1
    BY <1>1, <1>2, Zenon DEF NoRepeats
  <2> QED BY <1>0, <1>1, <2>1
<1>8. Shrunk(s, t)
  BY <1>0, <1>1, <1>3, <1>4 DEF Shrunk
<1> QED BY <1>1, <1>6, <1>7, <1>8, Zenon DEF t

\* A registration.
LEMMA AppendIs ==
    ASSUME NEW s \in Seq(Jobs), NoRepeats(s), NEW j \in Jobs, ~Has(s, j)
    PROVE  /\ Append(s, j) \in Seq(Jobs) /\ NoRepeats(Append(s, j))
           /\ Len(Append(s, j)) = Len(s) + 1
           /\ \A k \in Jobs : Has(Append(s, j), k) <=> k = j \/ Has(s, k)
<1> DEFINE t == Append(s, j)
<1>0. Len(s) \in Nat
  BY LenProperties
<1>1. /\ t \in Seq(Jobs) /\ Len(t) = Len(s) + 1 /\ t[Len(s) + 1] = j
      /\ \A k \in 1..Len(s) : t[k] = s[k]
  BY AppendProperties
<1> HIDE DEF t
<1>2. \A k \in 1..Len(t) : k = Len(s) + 1 \/ k \in 1..Len(s)
  BY <1>0, <1>1
<1>3. NoRepeats(t)
  BY <1>1, <1>2, Zenon DEF NoRepeats, Has
<1>4. \A k \in Jobs : Has(t, k) => k = j \/ Has(s, k)
  BY <1>1, <1>2, Zenon DEF Has
<1>5. Len(s) + 1 \in 1..Len(t) /\ 1..Len(s) \subseteq 1..Len(t)
  BY <1>0, <1>1
<1>6. \A k \in Jobs : k = j \/ Has(s, k) => Has(t, k)
  BY <1>1, <1>5, Zenon DEF Has
<1> QED BY <1>1, <1>3, <1>4, <1>6, Zenon DEF t

\* What a registration makes of the registry, whether or not it applies: job j
\* is counted or not, and so is everyone who was.
Grown(j, s, t, U, V) ==
    /\ t \in Seq(Jobs) /\ NoRepeats(t)
    /\ V \in SUBSET Jobs /\ U \subseteq V
    /\ \A k \in Jobs : Has(t, k) => k = j \/ Has(s, k)
    /\ \A k \in V : ~Has(t, k) /\ (k = j \/ k \in U \/ Has(s, k))
    /\ \A k \in Jobs : k = j \/ Has(s, k) => k \in V \/ Has(t, k)
    /\ Len(t) + Cardinality(V) = Len(s) + Cardinality(U) + 1

LEMMA UncountedFinite ==
    ASSUME NEW U \in SUBSET Jobs
    PROVE  IsFiniteSet(U) /\ Cardinality(U) \in Nat
  BY ClientAssumption, FS_Subset, FS_CardinalityType, Zenon

LEMMA StartIs ==
    ASSUME ClientInv, NEW j \in Jobs, pc[j] = "start",
           Register(j) \/ (uncounted' = uncounted \cup {j} /\ UNCHANGED entries)
    PROVE  Grown(j, entries, entries', uncounted, uncounted')
<1>0. /\ entries \in Seq(Jobs) /\ NoRepeats(entries) /\ ~Has(entries, j)
      /\ uncounted \in SUBSET Jobs /\ j \notin uncounted /\ \A k \in uncounted : ~Has(entries, k)
  BY Zenon DEF ClientInv, ClientTypes, EntriesCount
<1>1. /\ IsFiniteSet(uncounted) /\ Cardinality(uncounted) \in Nat /\ Len(entries) \in Nat
      /\ InflightCap \in Nat \ {0}
  BY <1>0, UncountedFinite, LenProperties, ClientAssumption
<1> DEFINE all == Append(entries, j)
<1>2. /\ all \in Seq(Jobs) /\ NoRepeats(all) /\ Len(all) = Len(entries) + 1
      /\ \A k \in Jobs : Has(all, k) <=> k = j \/ Has(entries, k)
  BY <1>0, AppendIs, Zenon
<1>3. CASE uncounted' = uncounted \cup {j} /\ UNCHANGED entries
  <2>1. Cardinality(uncounted') = Cardinality(uncounted) + 1
    BY <1>0, <1>1, <1>3, FS_AddElement, Zenon
  <2>2. Len(entries') + Cardinality(uncounted') = Len(entries) + Cardinality(uncounted) + 1
    BY <1>1, <1>3, <2>1
  <2> QED BY <1>0, <1>3, <2>2, Zenon DEF Grown
<1>4. CASE entries' = all /\ UNCHANGED uncounted
  <2>1. Len(entries') + Cardinality(uncounted') = Len(entries) + Cardinality(uncounted) + 1
    BY <1>1, <1>2, <1>4
  <2> QED BY <1>0, <1>2, <1>4, <2>1, Zenon DEF Grown
<1>5. CASE /\ Len(all) > InflightCap /\ entries' = Tail(all)
           /\ uncounted' = uncounted \cup {Head(all)}
  <2> DEFINE first == Head(all)
  <2>1. all # <<>> /\ 1 \in 1..Len(entries) /\ all[1] = entries[1] /\ first = all[1]
    <3>1. all # <<>> /\ 1 \in 1..Len(entries)
      BY <1>1, <1>2, <1>5, EmptySeq
    <3>2. all[1] = entries[1]
      BY <1>0, <3>1, AppendProperties
    <3>3. first = all[1]
      BY <1>2, <3>1, HeadTailProperties
    <3> QED BY <3>1, <3>2, <3>3
  <2>2. Has(entries, first) /\ first \in Jobs
    <3>1. entries[1] \in Jobs
      BY <1>0, <2>1, LenProperties
    <3> QED BY <2>1, <3>1, Zenon DEF Has
  <2>3. first \notin uncounted
    BY <1>0, <2>2, Zenon
  <2>4. /\ Shrunk(all, Tail(all)) /\ Len(Tail(all)) = Len(all) - 1 /\ ~Has(Tail(all), first)
        /\ \A k \in Jobs : Has(all, k) /\ k # first => Has(Tail(all), k)
    BY <1>2, <2>1, TailIs, Zenon
  <2> HIDE DEF all, first
  <2>5. Cardinality(uncounted') = Cardinality(uncounted) + 1
    BY <1>1, <1>5, <2>3, FS_AddElement, Zenon DEF first
  <2>6. Len(entries') + Cardinality(uncounted') = Len(entries) + Cardinality(uncounted) + 1
    BY <1>1, <1>2, <1>5, <2>4, <2>5
  <2>7. /\ entries' \in Seq(Jobs) /\ NoRepeats(entries')
        /\ \A k \in Jobs : Has(entries', k) => k = j \/ Has(entries, k)
    BY <1>2, <1>5, <2>4, Zenon DEF Shrunk
  <2>8. uncounted' = uncounted \cup {first} /\ uncounted' \in SUBSET Jobs /\ uncounted \subseteq uncounted'
    BY <1>0, <1>5, <2>2, Zenon DEF first
  <2>9. \A k \in uncounted' : ~Has(entries', k) /\ (k = j \/ k \in uncounted \/ Has(entries, k))
    BY <1>0, <1>5, <2>2, <2>4, <2>7, <2>8, Zenon
  <2>10. \A k \in Jobs : k = j \/ Has(entries, k) => k \in uncounted' \/ Has(entries', k)
    BY <1>2, <1>5, <2>4, <2>8, Zenon
  <2> QED BY <2>6, <2>7, <2>8, <2>9, <2>10, Zenon DEF Grown
<1> QED BY <1>3, <1>4, <1>5, Zenon DEF Register

-----------------------------------------------------------------------------
(* Steps.  A job under way moves on, exits or registers.                   *)

LEMMA ClientInitKeeps == ClientInit => ClientInv
<1> SUFFICES ASSUME ClientInit PROVE ClientInv
  OBVIOUS
<1>1. ClientTypes
  BY DEF ClientInit, ClientTypes, Stages, Fates
<1>2. Running = {}
  BY Zenon DEF ClientInit, Running
<1>3. Len(entries) = 0 /\ \A j \in Jobs : ~Has(entries, j)
  BY DEF ClientInit, Has
<1>4. EntriesCount
  <2>1. uncounted = {} /\ Cardinality(Running) = 0 /\ Cardinality(uncounted) = 0
    BY <1>2, FS_EmptySet DEF ClientInit
  <2>2. Cardinality(Running) <= Len(entries) + Cardinality(uncounted)
    BY <1>3, <2>1
  <2>3. NoRepeats(entries)
    BY <1>3 DEF NoRepeats
  <2> QED BY <1>2, <1>3, <2>1, <2>2, <2>3, Zenon DEF EntriesCount
<1>5. EntriesExcused
  BY <1>3, Zenon DEF EntriesExcused
<1>6. BuilderFits
  BY <1>2 DEF BuilderFits, ClientInit
<1> QED BY <1>1, <1>4, <1>5, <1>6, Zenon DEF ClientInv

LEMMA RunningFinite == IsFiniteSet(Running) /\ Cardinality(Running) \in Nat
<1>1. Running \subseteq Jobs
  BY Zenon DEF Running
<1> QED BY <1>1, ClientAssumption, FS_Subset, FS_CardinalityType, Zenon

\* A job that moves on stays under way, and no entry changes.
LEMMA MoveKeeps ==
    ASSUME ClientInv, NEW j \in Jobs, NEW here, NEW there \in Stages, Moves(j, here, there),
           here \notin {"start", "exited"}, there \notin {"start", "exited"},
           UNCHANGED <<cast, fate, entries, uncounted>>
    PROVE  /\ pc' \in [Jobs -> Stages]
           /\ \A k \in Jobs : pc'[k] = IF k = j THEN there ELSE pc[k]
           /\ Running' = Running /\ j \in Running
           /\ EntriesCount' /\ EntriesExcused'
<1>1. pc \in [Jobs -> Stages] /\ pc[j] = here /\ pc' = [pc EXCEPT ![j] = there]
  BY Zenon DEF ClientInv, ClientTypes, Moves
<1>2. pc' \in [Jobs -> Stages] /\ \A k \in Jobs : pc'[k] = IF k = j THEN there ELSE pc[k]
  BY <1>1
<1>3. Running' = Running /\ j \in Running
  BY <1>1, <1>2, Zenon DEF Running
<1>4. EntriesCount'
  BY <1>1, <1>2, <1>3 DEF ClientInv, EntriesCount, NoRepeats, Has
<1>5. EntriesExcused'
  BY <1>3, Zenon DEF ClientInv, EntriesExcused, Leaky, Has
<1> QED BY <1>2, <1>3, <1>4, <1>5, Zenon

\* A job that exits takes out at most one entry: its own, unless it left in a
\* way that is excused or some client omits its id.
LEMMA ExitKeeps ==
    ASSUME ClientInv, NEW j \in Jobs, pc[j] \notin {"start", "exited"}, NEW how \in Fates,
           Exits(j, how), UNCHANGED <<cast, resp, ran, uncounted, endpoint, builder>>,
           Shrunk(entries, entries'),
           cast.old = {} =>
               /\ \/ ~Has(entries', j)
                  \/ how \in {"unanswered", "dry", "lost", "killed"}
                  \/ how \in {"unrouted", "denied", "unreleased"} /\ j \in cast.flaky
               /\ \A k \in Jobs : Has(entries, k) /\ k # j => Has(entries', k)
    PROVE  ClientInv'
<1>1. /\ pc \in [Jobs -> Stages] /\ pc' = [pc EXCEPT ![j] = "exited"]
      /\ fate \in [Jobs -> Fates] /\ fate' = [fate EXCEPT ![j] = how]
  BY Zenon DEF ClientInv, ClientTypes, Exits
<1>2. /\ pc' \in [Jobs -> Stages]
      /\ \A k \in Jobs : pc'[k] = IF k = j THEN "exited" ELSE pc[k]
  BY <1>1 DEF Stages
<1>3. /\ fate' \in [Jobs -> Fates]
      /\ \A k \in Jobs : fate'[k] = IF k = j THEN how ELSE fate[k]
  BY <1>1
<1>4. Running' = Running \ {j} /\ j \in Running
  BY <1>1, <1>2, Zenon DEF Running
<1>5. /\ entries' \in Seq(Jobs) /\ NoRepeats(entries') /\ Len(entries') >= Len(entries) - 1
      /\ \A k \in Jobs : Has(entries', k) => Has(entries, k)
  BY DEF Shrunk
<1>6. ClientTypes'
  BY <1>2, <1>3, <1>5, Zenon DEF ClientInv, ClientTypes
<1>7. EntriesCount'
  <2>1. Cardinality(Running') = Cardinality(Running) - 1 /\ Cardinality(Running) \in Nat
    BY <1>4, RunningFinite, FS_RemoveElement, Zenon
  <2>2. /\ Len(entries) \in Nat /\ Len(entries') \in Nat /\ uncounted \in SUBSET Jobs
        /\ Cardinality(Running) <= Len(entries) + Cardinality(uncounted)
    BY <1>5, LenProperties DEF ClientInv, ClientTypes, EntriesCount
  <2>3. Cardinality(Running') <= Len(entries') + Cardinality(uncounted)
    BY <1>5, <2>1, <2>2, UncountedFinite
  <2>4. \A k \in Jobs : pc'[k] = "start" => ~Has(entries', k) /\ k \notin uncounted
    BY <1>2, <1>5 DEF ClientInv, EntriesCount
  <2>5. NoRepeats(entries)' /\ \A k \in Jobs : Has(entries', k) <=> Has(entries, k)'
    BY <1>5, Zenon DEF NoRepeats, Has
  <2>6. \A k \in uncounted : ~Has(entries', k)
    BY <1>5, <2>2, Zenon DEF ClientInv, EntriesCount
  <2>7. cast.old = {} => \A k \in Running' : k \in uncounted \/ Has(entries', k)
    BY <1>4, Zenon DEF ClientInv, EntriesCount, Running
  <2>8. Running' \subseteq Jobs /\ uncounted \subseteq Jobs
    BY <1>4, <2>2, Zenon DEF Running
  <2> QED BY <2>3, <2>4, <2>5, <2>6, <2>7, <2>8, Zenon DEF EntriesCount
<1>8. EntriesExcused'
  <2> SUFFICES ASSUME cast.old = {}, NEW k \in Jobs, Has(entries', k)
               PROVE  k \in Running' \/ Leaky(k)'
    BY Zenon DEF EntriesExcused, Has
  <2>1. CASE k = j
    BY <1>3, <2>1 DEF Leaky
  <2>2. CASE k # j
    <3>1. k \in Running \/ Leaky(k)
      BY <1>5, Zenon DEF ClientInv, EntriesExcused
    <3> QED BY <1>3, <1>4, <2>2, <3>1 DEF Leaky
  <2> QED BY <2>1, <2>2
<1>9. BuilderFits'
  BY <1>2, <1>4 DEF ClientInv, BuilderFits
<1> QED BY <1>6, <1>7, <1>8, <1>9, Zenon DEF ClientInv

LEMMA RouteKeeps ==
    ASSUME ClientInv, NEW j \in Jobs, routeBuild(j)
    PROVE  ClientInv'
<1>1. /\ pc \in [Jobs -> Stages] /\ pc[j] = "start" /\ pc' = [pc EXCEPT ![j] = "routing"]
      /\ entries \in Seq(Jobs) /\ uncounted \in SUBSET Jobs
      /\ UNCHANGED <<cast, resp, ran, fate, stale, endpoint, builder>>
  BY Zenon DEF ClientInv, ClientTypes, routeBuild, Moves
<1>2. /\ pc' \in [Jobs -> Stages]
      /\ \A k \in Jobs : pc'[k] = IF k = j THEN "routing" ELSE pc[k]
  BY <1>1 DEF Stages
<1>3. Running' = Running \cup {j} /\ j \notin Running
  BY <1>1, <1>2, Zenon DEF Running
<1>4. Grown(j, entries, entries', uncounted, uncounted')
  BY <1>1, StartIs, Zenon DEF routeBuild
<1>5. ClientTypes'
  BY <1>1, <1>2, <1>4, Zenon DEF ClientInv, ClientTypes, Grown
<1>6. EntriesCount'
  <2>1. Cardinality(Running') = Cardinality(Running) + 1 /\ Cardinality(Running) \in Nat
    BY <1>3, RunningFinite, FS_AddElement
  <2>2. /\ Len(entries) \in Nat /\ Cardinality(uncounted) \in Nat
        /\ Cardinality(Running) <= Len(entries) + Cardinality(uncounted)
    BY <1>1, LenProperties, UncountedFinite DEF ClientInv, EntriesCount
  <2>3. Cardinality(Running') <= Len(entries') + Cardinality(uncounted')
    BY <1>4, <2>1, <2>2 DEF Grown
  <2>4. \A k \in Jobs : pc'[k] = "start" => ~Has(entries', k) /\ k \notin uncounted'
    <3> SUFFICES ASSUME NEW k \in Jobs, pc'[k] = "start" PROVE ~Has(entries', k) /\ k \notin uncounted'
      OBVIOUS
    <3>1. k # j /\ pc[k] = "start"
      BY <1>2
    <3>2. ~Has(entries, k) /\ k \notin uncounted
      BY <3>1, Zenon DEF ClientInv, EntriesCount
    <3> QED BY <1>4, <3>1, <3>2, Zenon DEF Grown
  <2>5. NoRepeats(entries)' /\ \A k \in Jobs : Has(entries', k) <=> Has(entries, k)'
    BY <1>4, Zenon DEF NoRepeats, Has, Grown
  <2>6. \A k \in uncounted' : ~Has(entries', k) /\ k \in Jobs
    BY <1>4, Zenon DEF Grown
  <2>7. cast.old = {} => \A k \in Running' : k \in uncounted' \/ Has(entries', k)
    <3> SUFFICES ASSUME cast.old = {}, NEW k \in Running' PROVE k \in uncounted' \/ Has(entries', k)
      OBVIOUS
    <3>1. k \in Jobs /\ (k = j \/ k \in uncounted \/ Has(entries, k))
      BY <1>3, Zenon DEF ClientInv, EntriesCount, Running
    <3> QED BY <1>4, <3>1, Zenon DEF Grown
  <2>8. Running' \subseteq Jobs
    BY <1>3, Zenon DEF Running
  <2> QED BY <1>1, <2>3, <2>4, <2>5, <2>6, <2>7, <2>8, Zenon DEF EntriesCount
<1>7. EntriesExcused'
  <2> SUFFICES ASSUME cast.old = {}, NEW k \in Jobs, Has(entries', k)
               PROVE  k \in Running' \/ Leaky(k)'
    BY <1>1, Zenon DEF EntriesExcused, Has
  <2>1. k = j \/ k \in Running \/ Leaky(k)
    BY <1>4, Zenon DEF ClientInv, EntriesExcused, Grown
  <2> QED BY <1>1, <1>3, <2>1, Zenon DEF Leaky
<1>8. BuilderFits'
  <2>1. cast.exclusive => Running = {}
    BY Zenon DEF routeBuild
  <2> QED BY <1>1, <1>2, <1>3, <2>1 DEF ClientInv, BuilderFits
<1> QED BY <1>5, <1>6, <1>7, <1>8, Zenon DEF ClientInv

\* What is left as it was when a job exits and the registry is not asked.
LEMMA SameShrunk ==
    ASSUME ClientInv, entries' = entries
    PROVE  Shrunk(entries, entries') /\ \A k \in Jobs : Has(entries, k) => Has(entries', k)
<1>1. entries \in Seq(Jobs) /\ NoRepeats(entries) /\ Len(entries) \in Nat
  BY LenProperties DEF ClientInv, ClientTypes, EntriesCount
<1> QED BY <1>1 DEF Shrunk

LEMMA ExitSteps ==
    ASSUME ClientInv, NEW j \in Jobs,
           \/ routeFails(j) \/ answerLost(j) \/ dryRun(j)
           \/ completeBuild(j) \/ completeDenied(j) \/ completeLost(j) \/ Killed(j)
    PROVE  ClientInv'
<1>0. entries \in Seq(Jobs) /\ NoRepeats(entries)
  BY Zenon DEF ClientInv, ClientTypes, EntriesCount
<1>1. CASE routeFails(j)
  <2>1. CASE entries' = RemoveFirst(entries, j)
    <3>1. /\ Shrunk(entries, entries') /\ ~Has(entries', j)
          /\ \A k \in Jobs : Has(entries, k) /\ k # j => Has(entries', k)
      BY <1>0, <2>1, RemoveFirstIs, Zenon
    <3> QED BY <1>1, <3>1, ExitKeeps DEF routeFails, Fates
  <2>2. CASE j \in cast.flaky /\ entries' = entries
    BY <1>1, <2>2, SameShrunk, ExitKeeps DEF routeFails, Fates
  <2> QED BY <1>1, <2>1, <2>2, Zenon DEF routeFails
<1>2. CASE answerLost(j)
  BY <1>2, SameShrunk, ExitKeeps DEF answerLost, Fates
<1>3. CASE dryRun(j)
  BY <1>3, SameShrunk, ExitKeeps DEF dryRun, Fates
<1>4. CASE completeBuild(j)
  <2>1. PICK how \in {"released", "unreleased", "denied"} :
            /\ Exits(j, how)
            /\ \/ entries' = EndInflight(j)
               \/ j \in cast.flaky /\ how # "released" /\ entries' = entries
    BY <1>4, Zenon DEF completeBuild, Releases, Authorized
  <2>2. how \in Fates /\ pc[j] = "done" /\ UNCHANGED <<cast, resp, ran, uncounted, endpoint, builder>>
    BY <1>4, Zenon DEF Fates, completeBuild
  <2>3. CASE entries' = EndInflight(j)
    <3>1. /\ Shrunk(entries, entries')
          /\ j \notin cast.old => /\ ~Has(entries', j)
                                 /\ \A k \in Jobs : Has(entries, k) /\ k # j => Has(entries', k)
      <4>1. CASE j \notin cast.old
        BY <1>0, <2>3, <4>1, RemoveFirstIs, Zenon DEF EndInflight
      <4>2. CASE j \in cast.old /\ entries = <<>>
        BY <2>3, <4>2, SameShrunk, Zenon DEF EndInflight
      <4>3. CASE j \in cast.old /\ entries # <<>>
        BY <1>0, <2>3, <4>3, TailIs, Zenon DEF EndInflight
      <4> QED BY <4>1, <4>2, <4>3, Zenon
    <3> QED BY <2>1, <2>2, <3>1, ExitKeeps
  <2>4. CASE j \in cast.flaky /\ how # "released" /\ entries' = entries
    BY <2>1, <2>2, <2>4, SameShrunk, ExitKeeps
  <2> QED BY <2>1, <2>3, <2>4, Zenon
<1>5. CASE completeDenied(j)
  <2>1. cast.old # {}
    BY <1>5, Zenon DEF completeDenied, MayRelease
  <2> QED BY <1>5, <2>1, SameShrunk, ExitKeeps DEF completeDenied, Fates
<1>6. CASE completeLost(j)
  BY <1>6, SameShrunk, ExitKeeps DEF completeLost, Fates
<1>7. CASE Killed(j)
  BY <1>7, SameShrunk, ExitKeeps DEF Killed, Fates
<1> QED BY <1>1, <1>2, <1>3, <1>4, <1>5, <1>6, <1>7, Zenon

\* The builder of the host fits a job that moves on when it fits that job now
\* and the others are not under way.
LEMMA MoveFits ==
    ASSUME ClientInv, NEW j \in Jobs, NEW here, NEW there \in Stages, Moves(j, here, there),
           here \notin {"start", "exited"}, there \notin {"start", "exited", "routing"},
           UNCHANGED <<cast, fate, entries, uncounted>>,
           resp' \in [Jobs -> Endpoints \cup {None}], ran' \in [Jobs -> Endpoints \cup {None}],
           endpoint' \in Endpoints, builder' \in Endpoints \cup {None},
           \A k \in Jobs : k # j => resp'[k] = resp[k] /\ ran'[k] = ran[k],
           cast.exclusive =>
               /\ there = "ready" => Occurs(resp'[j], builder')
               /\ ran'[j] # None => Occurs(resp'[j], ran'[j])
    PROVE  ClientInv'
<1>1. /\ pc' \in [Jobs -> Stages]
      /\ \A k \in Jobs : pc'[k] = IF k = j THEN there ELSE pc[k]
      /\ Running' = Running /\ j \in Running
      /\ EntriesCount' /\ EntriesExcused'
  BY MoveKeeps, Zenon
<1>2. ClientTypes'
  BY <1>1, Zenon DEF ClientInv, ClientTypes
<1>3. BuilderFits'
  <2> SUFFICES ASSUME cast.exclusive PROVE BuilderFits'
    BY Zenon DEF BuilderFits
  <2>1. /\ \A k, l \in Running : k = l
        /\ \A k \in Jobs : pc[k] \in {"start", "routing"} => ran[k] = None
        /\ \A k \in Jobs : ran[k] # None => Occurs(resp[k], ran[k])
    BY Zenon DEF ClientInv, BuilderFits
  <2>2. \A k \in Jobs : k # j => pc'[k] = pc[k] /\ pc[k] \in {"start", "exited"}
    BY <1>1, <2>1, Zenon DEF Running
  <2>3. \A k \in Jobs : pc'[k] = "ready" => Occurs(resp'[k], builder')
    BY <1>1, <2>2
  <2>4. \A k \in Jobs : pc'[k] \in {"start", "routing"} => ran'[k] = None
    BY <1>1, <2>1, <2>2
  <2>5. \A k \in Jobs : ran'[k] # None => Occurs(resp'[k], ran'[k])
    BY <2>1, Zenon
  <2> QED BY <1>1, <2>1, <2>3, <2>4, <2>5, Zenon DEF BuilderFits
<1> QED BY <1>1, <1>2, <1>3, Zenon DEF ClientInv

LEMMA MoveSteps ==
    ASSUME ClientInv, NEW j \in Jobs,
           \/ routed(j) \/ createBuilder(j) \/ inspectBuilder(j) \/ removeBuilder(j)
           \/ recreateBuilder(j) \/ runFails(j) \/ runStreaming(j) \/ buildEnds(j)
    PROVE  ClientInv'
<1>0. /\ resp \in [Jobs -> Endpoints \cup {None}] /\ ran \in [Jobs -> Endpoints \cup {None}]
      /\ endpoint \in Endpoints /\ builder \in Endpoints \cup {None}
      /\ cast.exclusive =>
            /\ pc[j] = "ready" => Occurs(resp[j], builder)
            /\ pc[j] \in {"start", "routing"} => ran[j] = None
            /\ ran[j] # None => Occurs(resp[j], ran[j])
  BY Zenon DEF ClientInv, ClientTypes, BuilderFits
<1>a. Occurs(resp[j], resp[j])
  BY Zenon DEF Occurs
<1>1. CASE routed(j)
  <2>1. /\ resp' \in [Jobs -> Endpoints \cup {None}]
        /\ \A k \in Jobs : k # j => resp'[k] = resp[k]
    BY <1>0, <1>1 DEF routed
  <2>2. cast.exclusive => ran'[j] = None
    BY <1>0, <1>1, Zenon DEF routed, Moves
  <2> QED BY <1>0, <1>1, <2>1, <2>2, MoveFits DEF routed, Stages
<1>2. CASE createBuilder(j)
  <2>1. CASE builder = None /\ Moves(j, "routed", "ready") /\ builder' = resp[j]
    BY <1>0, <1>a, <1>2, <2>1, MoveFits DEF createBuilder, Stages
  <2>2. CASE Moves(j, "routed", "exists") /\ UNCHANGED builder
    BY <1>0, <1>2, <2>2, MoveFits DEF createBuilder, Stages
  <2> QED BY <1>2, <2>1, <2>2, Zenon DEF createBuilder
<1>3. CASE inspectBuilder(j)
  <2>1. CASE Occurs(resp[j], builder) /\ Moves(j, "exists", "ready")
    BY <1>0, <1>3, <2>1, MoveFits DEF inspectBuilder, Stages
  <2>2. CASE Moves(j, "exists", "remove")
    BY <1>0, <1>3, <2>2, MoveFits DEF inspectBuilder, Stages
  <2> QED BY <1>3, <2>1, <2>2, Zenon DEF inspectBuilder, builderHasEndpoint
<1>4. CASE removeBuilder(j)
  <2>1. builder' \in Endpoints \cup {None}
    BY <1>0, <1>4 DEF removeBuilder
  <2> QED BY <1>0, <1>4, <2>1, MoveFits DEF removeBuilder, Stages
<1>5. CASE recreateBuilder(j)
  BY <1>0, <1>a, <1>5, MoveFits DEF recreateBuilder, Stages
<1>6. CASE runFails(j)
  <2>1. PICK here \in {"routed", "recreate", "ready"} : Moves(j, here, "done")
    BY <1>6, Zenon DEF runFails
  <2> QED BY <1>0, <1>6, <2>1, MoveFits DEF runFails, Stages
<1>7. CASE runStreaming(j)
  <2>1. /\ ran' \in [Jobs -> Endpoints \cup {None}] /\ ran'[j] = builder
        /\ \A k \in Jobs : k # j => ran'[k] = ran[k]
    BY <1>0, <1>7 DEF runStreaming
  <2>2. cast.exclusive => Occurs(resp[j], builder)
    BY <1>0, <1>7, Zenon DEF runStreaming, Moves
  <2> QED BY <1>0, <1>7, <2>1, <2>2, MoveFits DEF runStreaming, Stages
<1>8. CASE buildEnds(j)
  BY <1>0, <1>8, MoveFits DEF buildEnds, Stages
<1> QED BY <1>1, <1>2, <1>3, <1>4, <1>5, <1>6, <1>7, <1>8, Zenon

LEMMA ClientNextKeeps == ClientInv /\ [ClientNext]_clientVars => ClientInv'
<1> SUFFICES ASSUME ClientInv, [ClientNext]_clientVars PROVE ClientInv'
  OBVIOUS
<1>1. ASSUME UNCHANGED <<cast, pc, resp, ran, fate, entries, uncounted, builder>>, endpoint' \in Endpoints
      PROVE  ClientInv'
  <2>1. Running' = Running /\ EntriesCount'
    BY <1>1, Zenon DEF ClientInv, EntriesCount, Running, NoRepeats, Has
  <2>2. EntriesExcused'
    BY <1>1, <2>1, Zenon DEF ClientInv, EntriesExcused, Leaky, Has
  <2>3. BuilderFits'
    BY <1>1, <2>1, Zenon DEF ClientInv, BuilderFits
  <2> QED BY <1>1, <2>1, <2>2, <2>3, Zenon DEF ClientInv, ClientTypes
<1>2. CASE UNCHANGED clientVars
  BY <1>1, <1>2, Zenon DEF ClientInv, ClientTypes, clientVars
<1>3. CASE Reconfigured
  BY <1>1, <1>3 DEF Reconfigured
<1>4. ASSUME NEW j \in Jobs, TokenExpires(j) PROVE ClientInv'
  BY <1>1, <1>4, Zenon DEF TokenExpires, ClientInv, ClientTypes
<1> QED BY <1>2, <1>3, <1>4, RouteKeeps, ExitSteps, MoveSteps, Zenon DEF ClientNext

-----------------------------------------------------------------------------
(* The theorems about the client.                                          *)

\* Every run of the clients keeps the invariant of jobs, registry and builder
\* (run and ensureBuilder, with handleComplete at the other end).
THEOREM ClientInvariant == ClientSpec => []ClientInv
<1> QED BY ClientInitKeeps, ClientNextKeeps, PTL DEF ClientSpec

\* The registry counts every build that streams on the daemon but those whose
\* registration did not apply or was shed at the cap, whoever omits its build
\* id and however the releases interleave (completeBuild sends one release for
\* one registration); each has its own entry where every client names it.
THEOREM EntriesCover == ClientSpec => []EntriesCoverBuilds
<1>1. ClientInv => EntriesCoverBuilds
  <2> SUFFICES ASSUME ClientInv PROVE EntriesCoverBuilds
    OBVIOUS
  <2>1. Building \in SUBSET Running
    BY DEF Building, Running
  <2>2. /\ IsFiniteSet(Building) /\ Cardinality(Building) <= Cardinality(Running)
    BY <2>1, RunningFinite, FS_Subset, Zenon
  <2>3. Cardinality(Building) \in Nat /\ Cardinality(Running) \in Nat
    BY <2>2, RunningFinite, FS_CardinalityType, Zenon
  <2>4. /\ Cardinality(Running) <= Len(entries) + Cardinality(uncounted)
        /\ Len(entries) \in Nat /\ DOMAIN entries = 1..Len(entries) /\ uncounted \in SUBSET Jobs
    BY LenProperties DEF ClientInv, ClientTypes, EntriesCount
  <2>5. Cardinality(Building) <= Len(entries) + Cardinality(uncounted)
    BY <2>2, <2>3, <2>4, UncountedFinite
  <2>6. cast.old = {} => Building \ uncounted \subseteq ToSet(entries)
    BY <2>1, <2>4, Zenon DEF ClientInv, EntriesCount, Has, ToSet
  <2> QED BY <2>5, <2>6, Zenon DEF EntriesCoverBuilds
<1> QED BY <1>1, ClientInvariant, PTL

\* Where every client echoes its build id, there are no more entries than jobs
\* under way and jobs that left in a way the code leaves to the expiry: the
\* deferred completeBuild covers every other way out of run.
THEOREM LeaksExcused == ClientSpec => []LeaksAreExcused
<1>1. ClientInv => LeaksAreExcused
  <2> SUFFICES ASSUME ClientInv, cast.old = {}
               PROVE  Len(entries) <= Cardinality(Running) + Cardinality({j \in Jobs : Leaky(j)})
    BY Zenon DEF LeaksAreExcused
  <2> DEFINE Left == {j \in Jobs : Leaky(j)}
             S == 1..Len(entries)
  <2>1. /\ entries \in Seq(Jobs) /\ Len(entries) \in Nat /\ NoRepeats(entries)
        /\ entries = [a \in S |-> entries[a]] /\ \A a \in S : entries[a] \in Jobs
    BY LenProperties, ElementOfSeq DEF ClientInv, ClientTypes, EntriesCount
  <2>2. \A a \in S : entries[a] \in Running \cup Left
    <3> SUFFICES ASSUME NEW a \in S PROVE entries[a] \in Running \cup Left
      OBVIOUS
    <3>1. entries[a] \in Jobs /\ Has(entries, entries[a])
      BY <2>1, Zenon DEF Has
    <3> QED BY <3>1, Zenon DEF ClientInv, EntriesExcused
  <2>3. IsFiniteSet(Left) /\ Cardinality(Left) \in Nat
    <3>1. Left \subseteq Jobs
      BY Zenon
    <3> HIDE DEF Left
    <3> QED BY <3>1, ClientAssumption, FS_Subset, FS_CardinalityType, Zenon
  <2> HIDE DEF Left
  <2>4. /\ IsFiniteSet(Running \cup Left)
        /\ Cardinality(Running \cup Left)
              = Cardinality(Running) + Cardinality(Left) - Cardinality(Running \cap Left)
    BY <2>3, RunningFinite, FS_Union, Zenon
  <2>5. Cardinality(Running \cap Left) \in Nat
    <3>1. Running \cap Left \subseteq Running
      BY Zenon
    <3> QED BY <3>1, RunningFinite, FS_Subset, FS_CardinalityType, Zenon
  <2>6. entries \in Injection(S, Running \cup Left)
    <3>1. entries \in [S -> Running \cup Left]
      BY <2>1, <2>2
    <3>2. \A a, b \in S : entries[a] = entries[b] => a = b
      BY <2>1, Zenon DEF NoRepeats
    <3>3. DOMAIN entries = S
      BY <3>1, Zenon
    <3> QED BY <3>1, <3>2, <3>3, Zenon DEF Injection, IsInjective
  <2>7. Cardinality(S) <= Cardinality(Running \cup Left)
    BY <2>4, <2>6, FS_Injection, Zenon
  <2>8. Cardinality(S) = Len(entries)
    <3>1. 1 \in Int /\ Len(entries) \in Int
      BY <2>1
    <3>2. Cardinality(S) = IF 1 > Len(entries) THEN 0 ELSE Len(entries) - 1 + 1
      BY <3>1, FS_Interval, Zenon
    <3> QED BY <2>1, <3>2
  <2> QED BY <2>1, <2>3, <2>4, <2>5, <2>7, <2>8, RunningFinite DEF Left
<1> QED BY <1>1, ClientInvariant, PTL

\* On a host that runs one job at a time, a build is sent to an address in
\* which the one /route gave its job occurs: its own, where no address occurs in
\* another (ensureBuilder replaces a builder that points elsewhere).
THEOREM RunWhereRouted == ClientSpec => []BuildsRunWhereRouted
<1>1. ClientInv => BuildsRunWhereRouted
  BY Zenon DEF ClientInv, BuilderFits, BuildsRunWhereRouted
<1> QED BY <1>1, ClientInvariant, PTL

-----------------------------------------------------------------------------
(* Gateway.                                                                *)

Ways == [wrote : Nat, ended : BOOLEAN, delivered : Nat, copied : BOOLEAN]
PCs == {"off", "spawned", "admitted", "peek", "dial", "pipe", "done"}
ConnState == [pc : PCs, way : [Sides -> Ways], atTerm : BOOLEAN, broken : BOOLEAN]

\* One direction: nothing is delivered that was not written, and an end is
\* passed on after everything before it, unless the connection broke.
WayOK(w, broken) ==
    /\ w.delivered <= w.wrote
    /\ w.copied /\ ~broken => w.ended /\ w.delivered = w.wrote

\* One connection: its directions, what it moved before the pipe (nothing) and
\* after it (everything), and where one marked by SIGTERM can be.
ConnOK(k) ==
    /\ k \in ConnState
    /\ \A s \in Sides : WayOK(k.way[s], k.broken)
    /\ k.pc \notin {"pipe", "done"} => k.way = [s \in Sides |-> Quiet]
    /\ k.pc = "done" /\ ~k.broken => \A s \in Sides : k.way[s].delivered = k.way[s].wrote
    /\ k.atTerm => k.pc \in {"pipe", "done"}

SlotsOK ==
    /\ IsFiniteSet(Admitted)
    /\ slots = Cardinality(Admitted)
    /\ slots <= MaxConns

DrainOK ==
    /\ main \in {"accept", "wait"} => drain = "none"
    /\ drain = "drained" => \A c \in Conns : conn[c].atTerm => conn[c].pc = "done"

GatewayInv ==
    /\ conn = [c \in Conns |-> conn[c]]
    /\ \A c \in Conns : ConnOK(conn[c])
    /\ SlotsOK /\ DrainOK

\* The inductive invariant holds when the listener opens.
LEMMA GatewayInitKeeps == Init => GatewayInv
<1> SUFFICES ASSUME Init PROVE GatewayInv
  OBVIOUS
<1>1. ASSUME NEW c \in Conns PROVE ConnOK(conn[c]) /\ conn[c].pc = "off"
  <2>1. Quiet \in Ways /\ WayOK(Quiet, FALSE) /\ Quiet.delivered = Quiet.wrote
    BY DEF Quiet, Ways, WayOK
  <2>2. /\ Fresh \in ConnState /\ Fresh.pc = "off" /\ ~Fresh.atTerm /\ Fresh.broken = FALSE
        /\ Fresh.way = [s \in Sides |-> Quiet]
    BY <2>1 DEF Fresh, ConnState, PCs
  <2>3. conn[c] = Fresh
    BY DEF Init
  <2> QED BY <2>1, <2>2, <2>3, Zenon DEF ConnOK
<1>2. Admitted = {}
  BY <1>1 DEF Admitted, Inflight
<1> QED BY <1>1, <1>2, FS_EmptySet, GatewayAssumption DEF Init, GatewayInv, SlotsOK, DrainOK

\* Steps that move one connection and leave the number of slots right.
LEMMA ConnectionStep ==
  ASSUME GatewayInv, NEW c \in Conns, NEW k, ConnOK(k),
         conn' = [conn EXCEPT ![c] = k], UNCHANGED <<main, drain>>,
         k.atTerm = conn[c].atTerm,
         conn[c].pc = "done" => k.pc = "done",
         \/ /\ c \notin Admitted /\ k.pc \notin {"admitted", "peek", "dial", "pipe"}
            /\ slots' = slots
         \/ c \in Admitted /\ k.pc \in {"admitted", "peek", "dial", "pipe"} /\ slots' = slots
         \/ /\ c \notin Admitted /\ k.pc = "admitted" /\ slots < MaxConns
            /\ slots' = slots + 1
         \/ c \in Admitted /\ k.pc = "done" /\ slots' = slots - 1
  PROVE  GatewayInv'
<1>1. /\ conn' = [d \in Conns |-> conn'[d]] /\ conn'[c] = k
      /\ \A d \in Conns \ {c} : conn'[d] = conn[d]
  BY DEF GatewayInv
<1>2. \A d \in Conns : ConnOK(conn'[d])
  BY <1>1 DEF GatewayInv
<1>3. Admitted' = IF k.pc \in {"admitted", "peek", "dial", "pipe"} THEN Admitted \cup {c}
                  ELSE Admitted \ {c}
  BY <1>1 DEF Admitted, Inflight
<1>4. SlotsOK'
  <2> IsFiniteSet(Admitted) /\ slots = Cardinality(Admitted) /\ slots <= MaxConns
    BY DEF GatewayInv, SlotsOK
  <2>1. Cardinality(Admitted) \in Nat
    BY FS_CardinalityType
  <2>2. CASE UNCHANGED slots /\ Admitted' = Admitted
    BY <2>2 DEF SlotsOK
  <2>3. CASE c \notin Admitted /\ k.pc = "admitted" /\ slots < MaxConns /\ slots' = slots + 1
    BY <1>3, <2>1, <2>3, FS_AddElement, GatewayAssumption DEF SlotsOK
  <2>4. CASE c \in Admitted /\ k.pc = "done" /\ slots' = slots - 1
    BY <1>3, <2>1, <2>4, FS_RemoveElement, GatewayAssumption DEF SlotsOK
  <2> QED BY <1>3, <2>2, <2>3, <2>4
<1>5. DrainOK'
  BY <1>1 DEF GatewayInv, DrainOK
<1> QED BY <1>1, <1>2, <1>4, <1>5 DEF GatewayInv

\* handle up to the pipe: a slot or a refusal, the WaitGroup, peek and dial.
LEMMA HandshakeSteps ==
  ASSUME GatewayInv, NEW c \in Conns,
         Accept(c) \/ TakeSlot(c) \/ Join(c) \/ Peek(c) \/ Dial(c) \/ Reject(c)
  PROVE  GatewayInv'
<1> DEFINE At(there) == [conn[c] EXCEPT !.pc = there]
<1>1. ASSUME NEW there \in PCs, conn[c].pc \notin {"pipe", "done"}
      PROVE  ConnOK(At(there)) /\ At(there).pc = there /\ At(there).atTerm = conn[c].atTerm
  <2>1. /\ conn[c] \in ConnState /\ conn[c].way = [s \in Sides |-> Quiet]
        /\ ~conn[c].atTerm
    BY <1>1 DEF GatewayInv, ConnOK, ConnState
  <2>2. /\ At(there) \in ConnState /\ At(there).way = [s \in Sides |-> Quiet]
        /\ At(there).pc = there /\ At(there).atTerm = conn[c].atTerm
    BY <2>1 DEF ConnState
  <2> QED BY <2>1, <2>2 DEF ConnOK, WayOK, Quiet
<1>2. conn[c].pc \in PCs
  BY DEF GatewayInv, ConnOK, ConnState
<1>3. c \in Admitted <=> conn[c].pc \in {"admitted", "peek", "dial", "pipe"}
  BY DEF Admitted, Inflight
<1> HIDE DEF At
<1> USE DEF Goto, PCs
<1>4. CASE Accept(c)
  <2>1. conn' = [conn EXCEPT ![c] = At("spawned")] /\ conn[c].pc = "off"
    BY <1>4 DEF Accept, At
  <2> QED BY <1>1, <1>3, <1>4, <2>1, ConnectionStep, Zenon DEF Accept
<1>5. CASE TakeSlot(c)
  <2>1. conn[c].pc = "spawned"
    BY <1>5 DEF TakeSlot
  <2>2. CASE slots < MaxConns
    <3>1. conn' = [conn EXCEPT ![c] = At("admitted")]
      BY <1>5, <2>2 DEF TakeSlot, At
    <3> QED BY <1>1, <1>3, <1>5, <2>1, <2>2, <3>1, ConnectionStep, Zenon DEF TakeSlot
  <2>3. CASE ~(slots < MaxConns)
    <3>1. conn' = [conn EXCEPT ![c] = At("done")]
      BY <1>5, <2>3 DEF TakeSlot, At
    <3> QED BY <1>1, <1>3, <1>5, <2>1, <2>3, <3>1, ConnectionStep, Zenon DEF TakeSlot
  <2> QED BY <2>2, <2>3
<1>6. CASE Join(c)
  <2>1. conn' = [conn EXCEPT ![c] = At("peek")] /\ conn[c].pc = "admitted"
    BY <1>6 DEF Join, At
  <2> QED BY <1>1, <1>3, <1>6, <2>1, ConnectionStep, Zenon DEF Join
<1>7. CASE Peek(c)
  <2>1. conn' = [conn EXCEPT ![c] = At("dial")] /\ conn[c].pc = "peek"
    BY <1>7 DEF Peek, At
  <2> QED BY <1>1, <1>3, <1>7, <2>1, ConnectionStep, Zenon DEF Peek
<1>8. CASE Dial(c)
  <2>1. conn' = [conn EXCEPT ![c] = At("pipe")] /\ conn[c].pc = "dial"
    BY <1>8 DEF Dial, At
  <2> QED BY <1>1, <1>3, <1>8, <2>1, ConnectionStep, Zenon DEF Dial
<1>9. CASE Reject(c)
  <2>1. conn' = [conn EXCEPT ![c] = At("done")] /\ conn[c].pc \in {"peek", "dial"}
    BY <1>9 DEF Reject, At
  <2> QED BY <1>1, <1>3, <1>9, <2>1, ConnectionStep, Zenon DEF Reject
<1> QED BY <1>4, <1>5, <1>6, <1>7, <1>8, <1>9

\* The pipe: both directions, their ends, a side that goes away.
LEMMA PipeSteps ==
  ASSUME GatewayInv, NEW c \in Conns,
         \/ PipeEnds(c) \/ Break(c)
         \/ \E s \in Sides : Copy(c, s) \/ CloseWrite(c, s) \/ Write(c, s) \/ EndWrite(c, s)
  PROVE  GatewayInv'
<1> DEFINE k == conn[c]
<1>1. k.pc = "pipe"
  BY Zenon DEF PipeEnds, Break, Copy, CloseWrite, Write, EndWrite
<1>2. ConnOK(k) /\ k \in ConnState
  BY DEF GatewayInv, ConnOK
<1>3. c \in Admitted
  BY <1>1 DEF Admitted, Inflight
<1>4. CASE PipeEnds(c)
  <2> DEFINE n == [k EXCEPT !.pc = "done"]
  <2>1. conn' = [conn EXCEPT ![c] = n] /\ \A s \in Sides : k.way[s].copied
    BY <1>4 DEF PipeEnds, Goto
  <2>2. /\ n \in ConnState /\ n.pc = "done" /\ n.way = k.way
        /\ n.broken = k.broken /\ n.atTerm = k.atTerm
    BY <1>2 DEF ConnState, PCs
  <2>3. ConnOK(n)
    BY <1>2, <2>1, <2>2 DEF ConnOK, WayOK
  <2> HIDE DEF n
  <2> QED BY <1>1, <1>3, <1>4, <2>1, <2>2, <2>3, ConnectionStep, Zenon DEF PipeEnds
<1>5. CASE Break(c)
  <2> DEFINE n == [k EXCEPT !.broken = TRUE]
  <2>1. conn' = [conn EXCEPT ![c] = n]
    BY <1>5 DEF Break
  <2>2. n \in ConnState /\ n.pc = "pipe" /\ n.way = k.way /\ n.broken /\ n.atTerm = k.atTerm
    BY <1>1, <1>2, Zenon DEF ConnState
  <2>3. ConnOK(n)
    BY <1>2, <2>2 DEF ConnOK, WayOK
  <2> HIDE DEF n
  <2> QED BY <1>1, <1>3, <1>5, <2>1, <2>2, <2>3, ConnectionStep, Zenon DEF Break
<1>6. ASSUME NEW s \in Sides, Copy(c, s) \/ CloseWrite(c, s) \/ Write(c, s) \/ EndWrite(c, s)
      PROVE  GatewayInv'
  <2> DEFINE w == k.way[s]
  <2>1. w \in Ways /\ WayOK(w, k.broken)
    BY <1>2 DEF ConnOK, ConnState
  <2>2. ASSUME NEW v \in Ways, WayOK(v, k.broken),
               conn' = [conn EXCEPT ![c] = [k EXCEPT !.way = [k.way EXCEPT ![s] = v]]],
               UNCHANGED <<main, drain, slots>>
        PROVE  GatewayInv'
    <3> DEFINE n == [k EXCEPT !.way = [k.way EXCEPT ![s] = v]]
    <3>1. /\ n \in ConnState /\ n.pc = "pipe" /\ n.broken = k.broken /\ n.atTerm = k.atTerm
          /\ n.way = [k.way EXCEPT ![s] = v]
      BY <1>1, <1>2 DEF ConnState
    <3>2. \A t \in Sides : n.way[t] = IF t = s THEN v ELSE k.way[t]
      BY <1>2, <3>1 DEF ConnState
    <3>3. ConnOK(n)
      BY <1>2, <2>2, <3>1, <3>2 DEF ConnOK
    <3> HIDE DEF n
    <3> QED BY <1>1, <1>3, <2>2, <3>1, <3>3, ConnectionStep, Zenon DEF n
  <2>3. CASE Copy(c, s)
    <3> DEFINE v == [w EXCEPT !.delivered = @ + 1]
    <3>1. conn' = [conn EXCEPT ![c] = [k EXCEPT !.way = [k.way EXCEPT ![s] = v]]]
      BY <2>3 DEF Copy
    <3>2. v \in Ways /\ WayOK(v, k.broken)
      <4>1. /\ w.delivered < w.wrote /\ ~w.copied
            /\ w.delivered \in Nat /\ w.wrote \in Nat
        BY <2>1, <2>3, Zenon DEF Copy, Ways
      <4>2. w.delivered + 1 \in Nat /\ w.delivered + 1 <= w.wrote
        BY <4>1
      <4>3. v \in Ways /\ v.wrote = w.wrote /\ v.delivered = w.delivered + 1 /\ ~v.copied
        BY <2>1, <4>1, <4>2, Zenon DEF Ways
      <4> QED BY <4>2, <4>3, Zenon DEF WayOK
    <3> HIDE DEF v
    <3> QED BY <2>2, <2>3, <3>1, <3>2, Zenon DEF Copy
  <2>4. CASE CloseWrite(c, s)
    <3> DEFINE v == [w EXCEPT !.copied = TRUE]
    <3>1. conn' = [conn EXCEPT ![c] = [k EXCEPT !.way = [k.way EXCEPT ![s] = v]]]
      BY <2>4 DEF CloseWrite
    <3>2. v \in Ways /\ WayOK(v, k.broken)
      BY <2>1, <2>4, Zenon DEF CloseWrite, Ways, WayOK
    <3> HIDE DEF v
    <3> QED BY <2>2, <2>4, <3>1, <3>2, Zenon DEF CloseWrite
  <2>5. CASE Write(c, s)
    <3> DEFINE v == [w EXCEPT !.wrote = @ + 1]
    <3>1. conn' = [conn EXCEPT ![c] = [k EXCEPT !.way = [k.way EXCEPT ![s] = v]]]
      BY <2>5 DEF Write
    <3>2. v \in Ways /\ WayOK(v, k.broken)
      <4>1. /\ ~w.ended /\ ~k.broken /\ w.delivered <= w.wrote
            /\ w.delivered \in Nat /\ w.wrote \in Nat
        BY <2>1, <2>5, Zenon DEF Write, Ways, WayOK
      <4>2. w.wrote + 1 \in Nat /\ w.delivered <= w.wrote + 1
        BY <4>1
      <4>3. /\ v \in Ways /\ v.wrote = w.wrote + 1 /\ v.delivered = w.delivered
            /\ v.copied = w.copied
        BY <2>1, <4>1, <4>2, Zenon DEF Ways
      <4>4. ~w.copied
        BY <2>1, <4>1, Zenon DEF WayOK
      <4> QED BY <4>2, <4>3, <4>4, Zenon DEF WayOK
    <3> HIDE DEF v
    <3> QED BY <2>2, <2>5, <3>1, <3>2, Zenon DEF Write
  <2>6. CASE EndWrite(c, s)
    <3> DEFINE v == [w EXCEPT !.ended = TRUE]
    <3>1. conn' = [conn EXCEPT ![c] = [k EXCEPT !.way = [k.way EXCEPT ![s] = v]]]
      BY <2>6 DEF EndWrite
    <3>2. v \in Ways /\ WayOK(v, k.broken)
      BY <2>1, <2>6, Zenon DEF EndWrite, Ways, WayOK
    <3> HIDE DEF v
    <3> QED BY <2>2, <2>6, <3>1, <3>2, Zenon DEF EndWrite
  <2> QED BY <1>6, <2>3, <2>4, <2>5, <2>6
<1> QED BY <1>4, <1>5, <1>6

\* The main goroutine: SIGTERM, the end of the wait, the end of the process.
LEMMA MainSteps ==
  ASSUME GatewayInv, Sigterm \/ Drained \/ DrainTimeout \/ Exit
  PROVE  GatewayInv'
<1>1. CASE Sigterm
  <2>1. ASSUME NEW c \in Conns
        PROVE  /\ ConnOK(conn'[c]) /\ conn'[c].pc = conn[c].pc
    <3> DEFINE k == conn[c]  n == [k EXCEPT !.atTerm = k.pc = "pipe"]
    <3>1. conn'[c] = n /\ ConnOK(k)
      BY <1>1 DEF Sigterm, GatewayInv
    <3>2. /\ n \in ConnState /\ n.pc = k.pc /\ n.way = k.way /\ n.broken = k.broken
          /\ n.atTerm = (k.pc = "pipe")
      BY <3>1, Zenon DEF ConnOK, ConnState
    <3> HIDE DEF n
    <3> QED BY <3>1, <3>2, Zenon DEF ConnOK
  <2>2. conn' = [c \in Conns |-> conn'[c]] /\ drain' = "none"
    BY <1>1 DEF Sigterm, GatewayInv, DrainOK
  <2>3. Admitted' = Admitted
    BY <2>1 DEF Admitted, Inflight
  <2> QED BY <1>1, <2>1, <2>2, <2>3, Zenon DEF Sigterm, GatewayInv, SlotsOK, DrainOK
<1>2. CASE Drained
  <2>1. ASSUME NEW c \in Conns, conn[c].atTerm PROVE conn[c].pc = "done"
    BY <1>2, <2>1 DEF Drained, Inflight, GatewayInv, ConnOK
  <2> QED BY <1>2, <2>1 DEF Drained, GatewayInv, SlotsOK, DrainOK, Admitted, Inflight
<1>3. CASE DrainTimeout \/ Exit
  BY <1>3 DEF DrainTimeout, Exit, GatewayInv, SlotsOK, DrainOK, Admitted, Inflight
<1> QED BY <1>1, <1>2, <1>3

\* Every step keeps the inductive invariant.
LEMMA GatewayNextKeeps == GatewayInv /\ [Next]_vars => GatewayInv'
<1> SUFFICES ASSUME GatewayInv, [Next]_vars PROVE GatewayInv'
  OBVIOUS
<1>1. CASE UNCHANGED vars
  BY <1>1 DEF vars, GatewayInv, SlotsOK, DrainOK, Admitted, Inflight
<1>2. CASE Next
  BY <1>2, MainSteps, HandshakeSteps, PipeSteps DEF Next, Handle
<1> QED BY <1>1, <1>2

\* The inductive invariant holds in every reachable state.
THEOREM GatewayInvariant == Spec => []GatewayInv
  BY GatewayInitKeeps, GatewayNextKeeps, PTL DEF Spec

\* A slot is held by an admitted connection and by nothing else, whatever way
\* handle returns, and --max-conns is never exceeded.
THEOREM SlotsMatch == Spec => []SlotsMatchConnections
<1>1. GatewayInv => SlotsMatchConnections
  BY DEF GatewayInv, SlotsOK, SlotsMatchConnections
<1> QED BY <1>1, GatewayInvariant, PTL

\* The half-close of pipe loses no byte of a build that did nothing wrong.
THEOREM NoTruncation == Spec => []NothingIsTruncated
<1>1. GatewayInv => NothingIsTruncated
  BY DEF GatewayInv, ConnOK, NothingIsTruncated
<1> QED BY <1>1, GatewayInvariant, PTL

\* The gateway says "all builds drained" over no build that was streaming when
\* SIGTERM came, although connections still join the WaitGroup meanwhile.
THEOREM DrainCoversStreams == Spec => []StreamingBuildsAreDrained
<1>1. GatewayInv => StreamingBuildsAreDrained
  BY DEF GatewayInv, DrainOK, StreamingBuildsAreDrained
<1> QED BY <1>1, GatewayInvariant, PTL
=============================================================================
