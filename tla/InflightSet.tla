---------------------------- MODULE InflightSet ----------------------------
(***************************************************************************)
(* The operations on status.inflight (api/v1alpha1/inflight.go), on the    *)
(* SET of entries a status carries.  The Go code keeps the entries in a    *)
(* slice ordered by start time; InflightSlice models that slice literally  *)
(* and is checked to agree with the operators below, so the modules about  *)
(* concurrency reason about sets.                                          *)
(*                                                                         *)
(* An operation that may have to choose between entries of the same age    *)
(* returns the set of its possible results; the empty set means "nothing   *)
(* to do, write nothing".                                                  *)
(***************************************************************************)
EXTENDS Integers, FiniteSets

CONSTANTS
    InflightCap,      \* bound on the number of entries
    MaxBuildSeconds,  \* --max-build-seconds; 0 or less means "unset"
    DefaultMaxBuild,  \* what the reconciler uses when it is unset (2h)
    None              \* an absent timestamp

ASSUME CapAssumption == InflightCap \in Nat \ {0}
ASSUME WindowAssumption ==
    /\ MaxBuildSeconds \in Int
    /\ DefaultMaxBuild \in Nat \ {0}
ASSUME NoneAssumption == None \notin Int

Time == Int

\* The stored form of a build token: injective, and never the token itself.
InflightID(token) == <<"sha256", token>>

AdoptedID(i) == <<"adopted", i>>

Entry(id, t) == [id |-> id, since |-> t]

\* The reconciler's expiry window.
maxBuildAge ==
    IF MaxBuildSeconds <= 0 THEN DefaultMaxBuild ELSE MaxBuildSeconds

\* The entries that have not outlived maxAge at time t.
ExpireInflight(entries, t, maxAge) ==
    {e \in entries : t - e.since <= maxAge}

Oldest(entries) ==
    {e \in entries : \A f \in entries : e.since <= f.since}

\* A status written before inflight became a set carries a bare count.
AdoptLegacyInflight(st) ==
    IF st.entries # {} \/ st.count <= 0 \/ st.last = None
    THEN st
    ELSE LET n == IF st.count > InflightCap THEN InflightCap ELSE st.count
         IN  [st EXCEPT !.entries = {Entry(AdoptedID(i), st.last) : i \in 1..n},
                        !.count   = n]

\* Mutant: the entries are written and the count is left as it was.
SetInflight_CountKept(st, entries) == [st EXCEPT !.entries = entries]

\* Mutant: the count is stepped down, as a bare counter would be.
SetInflight_CountStepped(st, entries) ==
    [st EXCEPT !.entries = entries, !.count = @ - 1]

\* Entries and derived count are written in one step.
SetInflight(st, entries) ==
    [st EXCEPT !.entries = entries, !.count = Cardinality(entries)]

\* The new entry is appended; capInflight then keeps the newest InflightCap
\* entries, so a full set gives up its oldest one and never the new one.
StartInflight(entries, token, t) ==
    LET new == Entry(InflightID(token), t)
    IN  IF Cardinality(entries) < InflightCap
        THEN {entries \cup {new}}
        ELSE {(entries \ {e}) \cup {new} : e \in Oldest(entries)}

\* Mutant: a token that names no entry releases somebody else's.
EndInflight_FallsBack(entries, token) ==
    {entries \ {e} : e \in {f \in entries :
        f.id = InflightID(token) \/ \A g \in entries : g.id # InflightID(token)}}

\* Releasing a build by its token.
EndInflight(entries, token) ==
    {entries \ {e} : e \in {f \in entries : f.id = InflightID(token)}}

\* Releasing without a token: the oldest entry goes.
EndOldest(entries) == {entries \ {e} : e \in Oldest(entries)}

\* The set every status write of the routing API starts from.  An unset
\* window switches expiry off here, while the reconciler falls back to 2h.
live(st, t) ==
    LET adopted == AdoptLegacyInflight(st).entries
    IN  IF MaxBuildSeconds <= 0
        THEN adopted
        ELSE ExpireInflight(adopted, t, MaxBuildSeconds)

\* What the reconciler counts as still running.
liveInflight(st, t) ==
    ExpireInflight(AdoptLegacyInflight(st).entries, t, maxBuildAge)
=============================================================================
