---------------------------- MODULE InflightSlice ----------------------------
(***************************************************************************)
(* status.inflight as the Go code keeps it (api/v1alpha1/inflight.go): a   *)
(* slice that is taken to be chronological, on which every operation is    *)
(* written with indices; and the cadence ring of adaptive.go.  The slice   *)
(* operations are checked against the set operations of InflightSet, which *)
(* the concurrent models use, on every slice that calls in any order can   *)
(* produce.                                                                *)
(*                                                                         *)
(* Writes are compare-and-swap and read the clock after the object, so     *)
(* calls follow one another; replicas' clocks may differ by up to Skew.    *)
(***************************************************************************)
EXTENDS Integers, Sequences, FiniteSetsExt

CONSTANTS
    Tokens,              \* build tokens /route may mint
    InflightCap, MaxBuildSeconds, DefaultMaxBuild,
    NoTime,              \* an absent timestamp
    AdaptiveWindow,      \* trailing window of the cadence ring
    RecentBuildTimesCap, \* bound on the ring
    IdleTimeouts,        \* what spec.idleTimeoutSec may be
    AdaptiveMax,         \* --adaptive-idle-max-seconds
    Skew,                \* how far a replica's clock may be behind
    MaxTime              \* bound on the clock

S == INSTANCE InflightSet WITH None <- NoTime

ASSUME TokenAssumption == "" \notin Tokens
ASSUME SliceAssumption ==
    /\ InflightCap \in Nat \ {0}
    /\ MaxBuildSeconds \in Int
    /\ DefaultMaxBuild \in Nat \ {0}
    /\ NoTime \notin Int
ASSUME CadenceAssumption ==
    /\ AdaptiveWindow \in Nat
    /\ RecentBuildTimesCap \in Nat \ {0}
    /\ IdleTimeouts \subseteq Nat
    /\ AdaptiveMax \in Int
ASSUME ClockAssumption == Skew \in Nat /\ MaxTime \in Nat

VARIABLES
    st,      \* [entries, count, last]: the status
    ring,    \* status.recentBuildTimes
    now,     \* wall clock
    tokens,  \* tokens not minted yet
    started  \* history: when builds were started

sliceVars == <<st, ring, now, tokens, started>>

Least(m, n) == IF m < n THEN m ELSE n

\* The elements of s at the indices in I, in their order: what a loop that
\* appends the elements to keep to a fresh slice returns.
Sift(s, I) ==
    LET nth(k) == CHOOSE i \in I : Cardinality({j \in I : j <= i}) = k
    IN  [k \in 1..Cardinality(I) |-> s[nth(k)]]

\* s[len(s)-n:]
Newest(s, n) == SubSeq(s, IF Len(s) > n THEN Len(s) - n + 1 ELSE 1, Len(s))

\* Keeps the newest InflightCap entries: drops from the front.
capInflight(entries) ==
    IF Len(entries) > InflightCap THEN Newest(entries, InflightCap) ELSE entries

SetInflight(status, entries) ==
    [status EXCEPT !.entries = capInflight(entries), !.count = Len(capInflight(entries))]

AdoptLegacyInflight(status) ==
    IF status.entries # <<>> \/ status.count <= 0 \/ status.last = NoTime
    THEN status
    ELSE SetInflight(status,
             [i \in 1..Least(status.count, InflightCap) |-> S!Entry(S!AdoptedID(i), status.last)])

StartInflight(inflight, token, t) ==
    capInflight(Append(inflight, S!Entry(S!InflightID(token), t)))

\* The index endInflight drops, 0 for none.  An unnamed caller drops the
\* first entry that is past the cutoff, else the first one.
dropIndex(inflight, token, cutoff) ==
    IF token = ""
    THEN LET past == {i \in DOMAIN inflight : inflight[i].since < cutoff}
         IN  CASE inflight = <<>> -> 0
               [] inflight # <<>> /\ past = {} -> 1
               [] OTHER -> Min(past)
    ELSE LET own == {i \in DOMAIN inflight : inflight[i].id = S!InflightID(token)}
         IN  IF own = {} THEN 0 ELSE Min(own)

endInflight(inflight, token, cutoff) ==
    LET drop == dropIndex(inflight, token, cutoff)
    IN  IF drop = 0 THEN inflight ELSE Sift(inflight, DOMAIN inflight \ {drop})

\* Mutant: only the head of the slice is looked at.
ExpireInflight_HeadOnly(inflight, t, maxAge) ==
    IF inflight # <<>> /\ t - Head(inflight).since > maxAge THEN Tail(inflight) ELSE inflight

ExpireInflight(inflight, t, maxAge) ==
    Sift(inflight, {i \in DOMAIN inflight : t - inflight[i].since <= maxAge})

\* The slice every status write of the routing API starts from.
live(status, t) ==
    IF MaxBuildSeconds <= 0
    THEN AdoptLegacyInflight(status).entries
    ELSE ExpireInflight(AdoptLegacyInflight(status).entries, t, MaxBuildSeconds)

\* The builds of a record that are within the trailing window at time t.
InWindow(times, t) == {i \in DOMAIN times : t - times[i] <= AdaptiveWindow}

\* Mutant: the entry that leaves the window takes the rest with it.
RecordBuildTime_Forgets(times, t) ==
    IF times # <<>> /\ t - Head(times) > AdaptiveWindow THEN <<t>>
    ELSE Newest(Append(times, t), RecentBuildTimesCap)

RecordBuildTime(times, t) ==
    Newest(Append(Sift(times, InWindow(times, t)), t), RecentBuildTimesCap)

BuildsInWindow(times, t) == Cardinality(InWindow(times, t))

\* The idle window before scale-to-zero: the spec's, or the adaptive one.
effectiveIdle(base, isFork, times, t) ==
    LET n == BuildsInWindow(times, t)
    IN  IF AdaptiveMax <= 0 \/ base <= 0 \/ base >= AdaptiveMax \/ isFork \/ n <= 1
        THEN base
        ELSE Least(base * n, AdaptiveMax)

-----------------------------------------------------------------------------
\* A new project, or one whose status an older version wrote.
SliceInit ==
    /\ st \in [entries : {<<>>}, count : 0..InflightCap + 1, last : {NoTime, 0}]
    /\ ring = <<>>
    /\ now = 0
    /\ tokens = Tokens
    /\ started = <<>>

\* A replica's clock.
Clocks == (now - Skew)..now

Start(token, t) ==
    /\ token \in tokens
    /\ st' = [SetInflight(AdoptLegacyInflight(st), StartInflight(live(st, t), token, t))
                 EXCEPT !.last = t]
    /\ ring' = RecordBuildTime(ring, t)
    /\ started' = Append(started, t)
    /\ tokens' = tokens \ {token}
    /\ UNCHANGED now

\* EndInflight by token, or unnamed; nothing is written if nothing matches.
End(token, t) ==
    LET inflight == live(st, t)
        cutoff   == t - MaxBuildSeconds
    IN
    /\ dropIndex(inflight, token, cutoff) # 0
    /\ st' = [SetInflight(AdoptLegacyInflight(st), endInflight(inflight, token, cutoff))
                 EXCEPT !.last = t]
    /\ UNCHANGED <<ring, now, tokens, started>>

\* The reconciler's sweep of expired entries.
Sweep(t) ==
    LET adopted == AdoptLegacyInflight(st)
        swept   == SetInflight(adopted, ExpireInflight(adopted.entries, t, S!maxBuildAge))
    IN
    /\ swept # st
    /\ st' = swept
    /\ UNCHANGED <<ring, now, tokens, started>>

SliceTick ==
    /\ now < MaxTime
    /\ now' = now + 1
    /\ UNCHANGED <<st, ring, tokens, started>>

SliceNext ==
    \/ \E t \in Clocks : \/ \E token \in Tokens : Start(token, t)
                         \/ \E token \in Tokens \cup {""} : End(token, t)
                         \/ Sweep(t)
    \/ SliceTick

SliceSpec == SliceInit /\ [][SliceNext]_sliceVars

-----------------------------------------------------------------------------
\* On every slice the calls produce, each slice operation of inflight.go does
\* what its set operation in InflightSet says, which takes the first entry for
\* the oldest: "the set is chronological (StartInflight appends, the removals
\* preserve order)".
SliceAgreesWithSet ==
    LET set == Range(st.entries)
        as  == [entries |-> set, count |-> st.count, last |-> st.last]
        cut == now - MaxBuildSeconds
        ends(token) == IF token = "" THEN S!EndOldest(S!live(as, now))
                                     ELSE S!EndInflight(S!live(as, now), token)
    IN  /\ \A i, j \in DOMAIN st.entries :
               i < j => st.entries[i].since <= st.entries[j].since
        /\ Range(AdoptLegacyInflight(st).entries) = S!AdoptLegacyInflight(as).entries
        /\ Range(live(st, now)) = S!live(as, now)
        /\ \A token \in tokens :
               Range(StartInflight(live(st, now), token, now))
                   \in S!StartInflight(S!live(as, now), token, now)
        /\ \A token \in Tokens \cup {""} :
               IF dropIndex(live(st, now), token, cut) = 0
               THEN ends(token) = {}
               ELSE Range(endInflight(live(st, now), token, cut)) \in ends(token)

\* "The spec idle is multiplied by the number of builds observed in the
\* trailing AdaptiveWindow and capped at adaptiveMax": pruning the ring on
\* write and again on read neither loses nor keeps one build too many, and its
\* cap "adds no signal", as long as a full ring earns the whole adaptiveMax.
WarmWindowFollowsCadence ==
    LET recent == Cardinality(InWindow(started, now))
    IN  \A base \in IdleTimeouts :
          /\ effectiveIdle(base, TRUE, ring, now) = base
          /\ recent <= RecentBuildTimesCap \/ base * RecentBuildTimesCap >= AdaptiveMax =>
               effectiveIdle(base, FALSE, ring, now) =
                   IF base >= AdaptiveMax \/ recent = 0 THEN base
                   ELSE Least(base * recent, AdaptiveMax)
=============================================================================
