------------------------- MODULE LocalBackendProofs -------------------------
(***************************************************************************)
(* The theorems about LocalBackend, for any number of builds, any windows  *)
(* and any number of snapshots kept.                                       *)
(*                                                                         *)
(* Routes, the reconcile loop and the child work on the project's state    *)
(* across many separate critical sections.  What holds them together: a    *)
(* route past ensureState finds the state it healed, because only a        *)
(* restart drops the state and a restart ends the routes too; and the loop *)
(* prunes only after it has recorded the newest snapshot, which its list   *)
(* never makes surplus.                                                    *)
(***************************************************************************)
EXTENDS LocalBackend, FiniteSetTheorems, TLAPS

RecPCs == {"idle", "running", "stop", "snap", "record", "list", "destroy"}

RecState == [pc : RecPCs, late : SUBSET Builds, due : BOOLEAN, age : Nat, new : Nat \cup {None},
             todo : SUBSET Nat]

Places == {"off", "ensure", "lookup", "running", "start", "init", "attach", "boot", "register",
           "wait", "served"}

\* The routes between ensureState and StartInflight.
Ensured == {"lookup", "running", "start", "init", "attach", "boot", "register"}

ChildState == [pc : {"off", "lookup", "seed", "data", "launch", "start"}, seed : Int \cup {None},
               data : Int \cup {None}, inst : {"absent", "stopped", "running"}]

Types ==
    /\ st \in States \cup {None}
    /\ route \in [Builds -> Places]
    /\ rec \in RecState
    /\ zfs \in [snaps : SUBSET Nat, made : Nat]
    /\ child \in ChildState

\* A route past ensureState finds the state it created or healed.
RoutesAreKnown == \A b \in Builds : route[b] \in Ensured => st # None /\ st.repo

\* While a stop is decided, whoever holds the project registered since.
HoldersAreLate == rec.pc \in {"running", "stop"} => Holds(st) \subseteq rec.late

\* The seed on record exists, and is the newest snapshot while surplus ones
\* are destroyed.
SeedExists ==
    /\ rec.pc # "idle" => st # None
    /\ \A n \in zfs.snaps : n <= zfs.made
    /\ st # None /\ st.lastSnap # None => st.lastSnap \in zfs.snaps
    /\ rec.pc = "record" => rec.new = zfs.made /\ zfs.made \in zfs.snaps
    /\ rec.pc \in {"list", "destroy"} => st.lastSnap = zfs.made
    /\ rec.pc = "destroy" => zfs.made \notin rec.todo

IInv ==
    /\ Types
    /\ RoutesAreKnown
    /\ PinnedProjectIsKnown
    /\ HoldersAreLate
    /\ SeedExists

-----------------------------------------------------------------------------
(* What the operations on a project's state keep.                          *)

LEMMA BareType == bareState \in States /\ Holds(bareState) = {} /\ bareState.lastSnap = None
<1>1. NoEntries \in [Builds -> Nat \cup {None}] /\ \A b \in Builds : NoEntries[b] = None
  BY DEF NoEntries
<1>2. bareState \in States /\ bareState.inflight = NoEntries /\ bareState.lastSnap = None
  BY <1>1, LocalAssumption DEF bareState, States
<1> QED BY <1>1, <1>2, Zenon DEF Holds

\* The holders of a state.
LEMMA HoldsIs ==
    ASSUME NEW s \in States
    PROVE  s # None /\ \A b : b \in Holds(s) <=> b \in Builds /\ s.inflight[b] # None
<1>1. s # None
  BY LocalAssumption
<1> QED BY <1>1, Zenon DEF Holds

LEMMA Heal ==
    ASSUME NEW s \in States
    PROVE  LET t == [s EXCEPT !.repo = TRUE]
           IN  t \in States /\ t.repo = TRUE /\ t.lastSnap = s.lastSnap /\ Holds(t) = Holds(s)
<1> DEFINE t == [s EXCEPT !.repo = TRUE]
<1>1. t \in States /\ t.repo = TRUE /\ t.lastSnap = s.lastSnap /\ t.inflight = s.inflight
  BY Zenon DEF States
<1> HIDE DEF t
<1>2. Holds(t) = Holds(s)
  BY <1>1, HoldsIs, Zenon
<1> QED BY <1>1, <1>2 DEF t

LEMMA Register ==
    ASSUME NEW s \in States, NEW b \in Builds
    PROVE  LET t == [s EXCEPT !.inflight[b] = 0, !.lastBuild = 0]
           IN  /\ t \in States /\ t.repo = s.repo /\ t.lastSnap = s.lastSnap
               /\ Holds(t) \subseteq Holds(s) \cup {b}
<1> DEFINE t == [s EXCEPT !.inflight[b] = 0, !.lastBuild = 0]
<1>0. 0 \in Nat
  OBVIOUS
<1>1. /\ t \in States /\ t.repo = s.repo /\ t.lastSnap = s.lastSnap
      /\ \A c \in Builds : c # b => t.inflight[c] = s.inflight[c]
  BY <1>0, Zenon DEF States
<1> HIDE DEF t
<1>2. Holds(t) \subseteq Holds(s) \cup {b}
  BY <1>1, HoldsIs, Zenon
<1> QED BY <1>1, <1>2 DEF t

LEMMA Release ==
    ASSUME NEW s \in States, NEW b \in Builds
    PROVE  /\ Released(s, b) \in States /\ Released(s, b).repo = s.repo
           /\ Released(s, b).lastSnap = s.lastSnap /\ Holds(Released(s, b)) \subseteq Holds(s)
<1> DEFINE t == Released(s, b)
<1>0. 0 \in Nat
  OBVIOUS
<1>1. /\ t \in States /\ t.repo = s.repo /\ t.lastSnap = s.lastSnap
      /\ \A c \in Builds : t.inflight[c] \in {None, s.inflight[c]}
  BY <1>0, Zenon DEF States, Released
<1> HIDE DEF t
<1>2. Holds(t) \subseteq Holds(s)
  BY <1>1, HoldsIs, Zenon
<1> QED BY <1>1, <1>2 DEF t

LEMMA Expire ==
    ASSUME NEW s \in States
    PROVE  /\ Unexpired(s) \in States /\ Unexpired(s).repo = s.repo
           /\ Unexpired(s).lastSnap = s.lastSnap /\ Holds(Unexpired(s)) \subseteq Holds(s)
<1> DEFINE t == Unexpired(s)
           f == [b \in Builds |-> IF s.inflight[b] = MaxBuild THEN None ELSE s.inflight[b]]
<1>1. f \in [Builds -> Nat \cup {None}] /\ \A c \in Builds : f[c] \in {None, s.inflight[c]}
  BY DEF States
<1>2. t = [s EXCEPT !.inflight = f]
  BY Zenon DEF Unexpired
<1> HIDE DEF t, f
<1>3. t \in States /\ t.repo = s.repo /\ t.lastSnap = s.lastSnap /\ t.inflight = f
  BY <1>1, <1>2, Zenon DEF States
<1>4. Holds(t) \subseteq Holds(s)
  BY <1>1, <1>3, HoldsIs, Zenon
<1> QED BY <1>3, <1>4 DEF t

LEMMA OlderType ==
    ASSUME NEW w \in Nat
    PROVE  /\ \A a \in Nat : Older(a, w) \in Nat
           /\ Older(None, w) = None
  BY LocalAssumption DEF Older

LEMMA Age ==
    ASSUME NEW s \in States
    PROVE  LET t == [s EXCEPT !.inflight = [b \in Builds |-> Older(@[b], MaxBuild)],
                              !.lastBuild = Older(@, Idle), !.snapAge = Older(@, Every)]
           IN  /\ t \in States /\ t.repo = s.repo /\ t.lastSnap = s.lastSnap
               /\ Holds(t) \subseteq Holds(s)
<1> DEFINE f == [b \in Builds |-> Older(s.inflight[b], MaxBuild)]
           t == [s EXCEPT !.inflight = f, !.lastBuild = Older(s.lastBuild, Idle),
                          !.snapAge = Older(s.snapAge, Every)]
<1>0. /\ \A a \in Nat \cup {None} : \A w \in {MaxBuild, Idle, Every} : Older(a, w) \in Nat \cup {None}
      /\ \A a \in Nat : Older(a, Every) \in Nat
  BY OlderType, LocalAssumption, Zenon
<1>1. f \in [Builds -> Nat \cup {None}] /\ \A c \in Builds : s.inflight[c] = None => f[c] = None
  BY <1>0, OlderType, LocalAssumption, Zenon DEF States
<1>2. Older(s.lastBuild, Idle) \in Nat \cup {None} /\ Older(s.snapAge, Every) \in Nat
  BY <1>0, Zenon DEF States
<1> HIDE DEF f
<1>3. t \in States /\ t.repo = s.repo /\ t.lastSnap = s.lastSnap /\ t.inflight = f
  BY <1>1, <1>2, Zenon DEF States
<1> HIDE DEF t
<1>4. Holds(t) \subseteq Holds(s)
  BY <1>1, <1>3, HoldsIs, Zenon
<1> QED BY <1>3, <1>4, Zenon DEF t, f
\* The newest snapshot of a list is not surplus.
LEMMA NewestSpared ==
    ASSUME NEW S \in SUBSET Nat, NEW top \in Nat, \A n \in S : n <= top
    PROVE  top \notin Surplus(S) /\ Surplus(S) \subseteq S
<1>1. {m \in S : m > top} = {}
  <2>1. ASSUME NEW m \in S, m > top PROVE FALSE
    <3>1. m \in Nat /\ m <= top
      OBVIOUS
    <3> QED BY <2>1, <3>1
  <2> QED BY <2>1, Zenon
<1>2. Cardinality({m \in S : m > top}) = 0
  BY <1>1, FS_EmptySet
<1>3. Keep # 0 => (top \in S => top \in Newest(S, Keep))
  BY <1>2, LocalAssumption DEF Newest
<1> QED BY <1>3, Zenon DEF Surplus

-----------------------------------------------------------------------------
(* The inductive invariant, one lemma for each group of steps.             *)

LEMMA RestingType == Resting \in RecState /\ Resting.pc = "idle"
<1>1. 0 \in Nat
  OBVIOUS
<1> QED BY <1>1, Zenon DEF Resting, RecState, RecPCs

\* A state that is touched is minted if need be.
LEMMA StateFor ==
    ASSUME Types
    PROVE  /\ stateFor \in States /\ stateFor # None /\ Holds(stateFor) = Holds(st)
           /\ st # None => stateFor = st
           /\ st = None => stateFor.lastSnap = None
<1>1. CASE st = None
  <2>1. stateFor = bareState /\ Holds(st) = {}
    BY <1>1 DEF stateFor, Holds
  <2> QED BY <1>1, <2>1, BareType, LocalAssumption
<1>2. CASE st # None
  <2>1. stateFor = st /\ st \in States
    BY <1>2 DEF stateFor, Types
  <2> QED BY <1>2, <2>1
<1> QED BY <1>1, <1>2

\* A step of the handlers or of time that leaves the seed, and lets in only
\* late holders of a project it knows.
LEMMA StateStep ==
    ASSUME IInv, NEW t \in States, st' = t, Types',
           st # None => t.lastSnap = st.lastSnap /\ (st.repo => t.repo),
           st = None => t.lastSnap = None,
           rec'.pc = rec.pc, rec'.new = rec.new, rec'.todo = rec.todo, rec.late \subseteq rec'.late,
           Holds(t) \subseteq Holds(st) \cup rec'.late,
           Holds(t) # {} => t.repo,
           \A b \in Builds : route'[b] \in Ensured => t.repo,
           UNCHANGED zfs
    PROVE  IInv'
<1>1. t # None
  BY LocalAssumption
<1>2. RoutesAreKnown' /\ PinnedProjectIsKnown'
  BY <1>1, Zenon DEF RoutesAreKnown, PinnedProjectIsKnown
<1>3. HoldersAreLate'
  BY Zenon DEF IInv, HoldersAreLate
<1>4. SeedExists'
  BY <1>1, Zenon DEF IInv, SeedExists
<1> QED BY <1>2, <1>3, <1>4 DEF IInv
\* A step that leaves the state, the loop and the snapshots alone and brings
\* no route past ensureState.
LEMMA QuietStep ==
    ASSUME IInv, UNCHANGED <<st, rec, zfs>>, Types',
           \A b \in Builds : route'[b] \in Ensured => route[b] \in Ensured
    PROVE  IInv'
  BY Zenon DEF IInv, RoutesAreKnown, PinnedProjectIsKnown, HoldersAreLate, SeedExists

LEMMA GotoIs ==
    ASSUME Types, NEW b \in Builds, NEW p \in Places, Goto(b, p)
    PROVE  /\ route' \in [Builds -> Places] /\ route'[b] = p
           /\ \A c \in Builds : c # b => route'[c] = route[c]
  BY Zenon DEF Types, Goto

\* The steps of a route that touch only the instance and the route itself.
LEMMA RouteSteps ==
    ASSUME IInv, NEW b \in Builds,
           \/ NewRequest(b) \/ InstanceExists(b) \/ Running(b) \/ Start(b) \/ LaunchInit(b)
           \/ LaunchAttach(b) \/ EnsureFails(b) \/ StartCancelled(b) \/ Served(b) \/ Vanish(b)
    PROVE  IInv'
<1>1. UNCHANGED <<st, rec, zfs, child>>
  BY Zenon DEF NewRequest, InstanceExists, Running, Start, LaunchInit, LaunchAttach, EnsureFails,
     StartCancelled, Served, Vanish
<1>2. PICK p \in Places : Goto(b, p) /\ (p \in Ensured => route[b] \in Ensured)
  <2>1. CASE NewRequest(b) \/ EnsureFails(b) \/ StartCancelled(b) \/ Served(b) \/ Vanish(b)
    <3>1. PICK p \in {"off", "ensure", "served"} : Goto(b, p)
      BY <2>1, Zenon DEF NewRequest, EnsureFails, StartCancelled, Served, Vanish
    <3>2. p \in Places /\ p \notin Ensured
      BY DEF Places, Ensured
    <3> QED BY <3>1, <3>2
  <2>2. CASE InstanceExists(b) \/ Running(b) \/ Start(b) \/ LaunchInit(b) \/ LaunchAttach(b)
    <3>1. /\ \E p \in {"init", "running", "register", "start", "attach", "boot"} : Goto(b, p)
          /\ route[b] \in Ensured
      BY <2>2, Zenon DEF InstanceExists, Running, Start, LaunchInit, LaunchAttach, At, Ensured
    <3>2. {"init", "running", "register", "start", "attach", "boot"} \subseteq Places
      BY DEF Places
    <3> QED BY <3>1, <3>2, Zenon
  <2> QED BY <2>1, <2>2
<1>3. Types'
  BY <1>1, <1>2, GotoIs DEF IInv, Types
<1>4. \A c \in Builds : route'[c] \in Ensured => route[c] \in Ensured
  BY <1>2, GotoIs, Zenon DEF IInv
<1> QED BY <1>1, <1>3, <1>4, QuietStep

\* The child works on its own dataset and instance.
LEMMA ChildSteps ==
    ASSUME IInv, Child
    PROVE  IInv'
<1>0. Types
  BY DEF IInv
<1>1. UNCHANGED <<st, rec, zfs, route>>
  BY Zenon DEF Child, childRequest, childLookup, childSeed, childData, childLaunch, childFails
<1>2. child' \in ChildState
  <2>1. CASE childRequest \/ childLookup \/ childLaunch \/ childFails
    BY <1>0, <2>1, Zenon DEF childRequest, childLookup, childLaunch, childFails, Types, ChildState
  <2>2. CASE childSeed
    <3>1. latestSnapshot \subseteq Int
      BY <1>0 DEF latestSnapshot, Newest, NoSnapshot, Unlisted, Types, States
    <3> QED BY <1>0, <2>2, <3>1, Zenon DEF childSeed, Types, ChildState
  <2>3. CASE childData
    <3>1. NoSnapshot \in Int
      BY DEF NoSnapshot
    <3> QED BY <1>0, <2>3, <3>1, Zenon DEF childData, EnsureDataset, Types, ChildState
  <2> QED BY <2>1, <2>2, <2>3 DEF Child
<1>3. Types'
  BY <1>0, <1>1, <1>2 DEF Types
<1> QED BY <1>1, <1>3, QuietStep, Zenon
\* ensureState heals the state before the route goes on.
LEMMA EnsureStep ==
    ASSUME IInv, NEW b \in Builds, ensureState(b)
    PROVE  IInv'
<1> DEFINE t == [stateFor EXCEPT !.repo = TRUE]
<1>0. Types /\ "lookup" \in Places
  BY DEF IInv, Places
<1>1. st' = t /\ Goto(b, "lookup") /\ UNCHANGED <<rec, zfs, child>>
  BY Zenon DEF ensureState
<1>2. t \in States /\ t.repo = TRUE /\ t.lastSnap = stateFor.lastSnap /\ Holds(t) = Holds(st)
  BY <1>0, Heal, StateFor
<1> HIDE DEF t
<1>3. Types'
  BY <1>0, <1>1, <1>2, GotoIs DEF Types
<1> QED BY <1>0, <1>1, <1>2, <1>3, StateFor, StateStep

\* StartInflight registers a late holder of a project that is known.
LEMMA StartStep ==
    ASSUME IInv, NEW b \in Builds, StartInflight(b)
    PROVE  IInv'
<1> DEFINE t == [stateFor EXCEPT !.inflight[b] = 0, !.lastBuild = 0]
<1>0. Types /\ "wait" \in Places /\ "wait" \notin Ensured /\ "register" \in Ensured
  BY DEF IInv, Places, Ensured
<1>1. /\ st' = t /\ Goto(b, "wait") /\ UNCHANGED <<zfs, child>> /\ route[b] = "register"
      /\ rec' = [rec EXCEPT !.late = rec.late \cup {b}]
  BY Zenon DEF StartInflight, At
<1>2. st # None /\ st.repo
  BY <1>0, <1>1 DEF IInv, RoutesAreKnown
<1>3. stateFor = st /\ st \in States
  BY <1>0, <1>2, StateFor
<1>4. /\ t \in States /\ t.repo = st.repo /\ t.lastSnap = st.lastSnap
      /\ Holds(t) \subseteq Holds(st) \cup {b}
  BY <1>3, Register, Zenon
<1> HIDE DEF t
<1>5. /\ rec' \in RecState /\ rec'.pc = rec.pc /\ rec'.new = rec.new /\ rec'.todo = rec.todo
      /\ rec'.late = rec.late \cup {b}
  BY <1>0, <1>1, Zenon DEF Types, RecState
<1>6. Types'
  BY <1>0, <1>1, <1>4, <1>5, GotoIs DEF Types
<1>7. \A c \in Builds : route'[c] \in Ensured => t.repo
  BY <1>2, <1>4
<1> QED BY <1>1, <1>2, <1>4, <1>5, <1>6, <1>7, StateStep, Zenon

\* A release, deferred or asked for, of an entry or of nothing.
LEMMA EndSteps ==
    ASSUME IInv, NEW b \in Builds, WaitFails(b) \/ Complete(b)
    PROVE  IInv'
<1>0. Types /\ "off" \in Places /\ "off" \notin Ensured /\ PinnedProjectIsKnown
  BY DEF IInv, Places, Ensured
<1>1. endInflight(b) /\ Goto(b, "off") /\ UNCHANGED <<rec, zfs, child>>
  BY Zenon DEF WaitFails, Complete
<1>2. PICK t \in States :
          /\ st' = t /\ Holds(t) \subseteq Holds(st)
          /\ st # None => t.lastSnap = st.lastSnap /\ t.repo = st.repo
          /\ st = None => t.lastSnap = None
  <2>1. CASE b \in Holds(st)
    <3>1. st # None
      BY <2>1 DEF Holds
    <3>2. st \in States /\ st' = Released(st, b)
      BY <1>0, <1>1, <2>1, <3>1 DEF Types, endInflight
    <3> QED BY <3>1, <3>2, Release
  <2>2. CASE b \notin Holds(st)
    <3>1. st' = stateFor
      BY <1>1, <2>2 DEF endInflight
    <3> QED BY <1>0, <3>1, StateFor
  <2> QED BY <2>1, <2>2
<1>3. Types'
  BY <1>0, <1>1, <1>2, GotoIs DEF Types
<1>4. Holds(t) # {} => t.repo
  <2> SUFFICES ASSUME Holds(t) # {} PROVE t.repo
    OBVIOUS
  <2>1. Holds(st) # {}
    BY <1>2
  <2>2. st # None /\ st.repo
    BY <1>0, <2>1 DEF PinnedProjectIsKnown, Holds
  <2> QED BY <1>2, <2>2, Zenon
<1>5. ASSUME NEW c \in Builds, route'[c] \in Ensured PROVE t.repo
  <2>1. route[c] \in Ensured
    BY <1>0, <1>1, <1>5, GotoIs
  <2>2. st # None /\ st.repo
    BY <2>1 DEF IInv, RoutesAreKnown
  <2> QED BY <1>2, <2>2, Zenon
<1> QED BY <1>1, <1>2, <1>3, <1>4, <1>5, StateStep

\* Time passes.
LEMMA TickStep ==
    ASSUME IInv, Tick
    PROVE  IInv'
<1>0. Types /\ PinnedProjectIsKnown
  BY DEF IInv
<1>1. /\ rec' \in RecState /\ rec'.pc = rec.pc /\ rec'.new = rec.new /\ rec'.todo = rec.todo
      /\ rec'.late = rec.late
  <2>1. CASE rec.due
    <3>1. rec' = [rec EXCEPT !.age = Older(rec.age, Every)]
      BY <2>1, Zenon DEF Tick
    <3>2. Older(rec.age, Every) \in Nat
      BY <1>0, OlderType, LocalAssumption, Zenon DEF Types, RecState
    <3> QED BY <1>0, <3>1, <3>2, Zenon DEF Types, RecState
  <2>2. CASE ~rec.due
    BY <1>0, <2>2, Zenon DEF Tick, Types
  <2> QED BY <2>1, <2>2
<1>2. UNCHANGED <<zfs, child, route>>
  BY Zenon DEF Tick
<1>3. CASE st = None
  <2>1. st' = None
    BY <1>3, Zenon DEF Tick
  <2>2. Types'
    BY <1>0, <1>1, <1>2, <2>1 DEF Types
  <2> QED BY <1>1, <1>2, <1>3, <2>1, <2>2, Zenon
          DEF IInv, RoutesAreKnown, PinnedProjectIsKnown, HoldersAreLate, SeedExists
<1>4. CASE st # None
  <2> DEFINE t == [st EXCEPT !.inflight = [b \in Builds |-> Older(@[b], MaxBuild)],
                             !.lastBuild = Older(@, Idle), !.snapAge = Older(@, Every)]
  <2>1. st' = t
    BY <1>4, Zenon DEF Tick
  <2>2. t \in States /\ t.repo = st.repo /\ t.lastSnap = st.lastSnap /\ Holds(t) \subseteq Holds(st)
    BY <1>0, <1>4, Age, Zenon DEF Types
  <2> HIDE DEF t
  <2>3. Types'
    BY <1>0, <1>1, <1>2, <2>1, <2>2 DEF Types
  <2>4. Holds(t) # {} => t.repo
    BY <1>0, <2>2, Zenon DEF PinnedProjectIsKnown
  <2>5. \A b \in Builds : route'[b] \in Ensured => t.repo
    BY <1>2, <2>2, Zenon DEF IInv, RoutesAreKnown
  <2> QED BY <1>1, <1>2, <1>4, <2>1, <2>2, <2>3, <2>4, <2>5, StateStep
<1> QED BY <1>3, <1>4
\* The locked pass decides to stop only what nobody holds.
LEMMA PassStep ==
    ASSUME IInv, recPass
    PROVE  IInv'
<1> DEFINE s == Unexpired(st)
<1>0. Types /\ PinnedProjectIsKnown /\ st # None /\ st \in States /\ rec.pc = "idle"
  BY DEF IInv, recPass, Types
<1>1. s \in States /\ s.repo = st.repo /\ s.lastSnap = st.lastSnap /\ Holds(s) \subseteq Holds(st)
  BY <1>0, Expire
<1>2. /\ st' = s /\ UNCHANGED <<zfs, child, route>>
      /\ rec' = [Resting EXCEPT !.pc  = IF idleProject(s) THEN "running"
                                        ELSE AfterStops(snapshotDue(s)),
                                !.due = snapshotDue(s)]
  BY Zenon DEF recPass
<1> HIDE DEF s
<1>3. snapshotDue(s) \in BOOLEAN
  BY DEF snapshotDue
<1>4. /\ rec' \in RecState
      /\ rec'.pc \in {"running", "snap", "idle"} /\ (rec'.pc = "running" => idleProject(s))
  <2>1. PICK c \in {"running", "snap", "idle"} :
            /\ rec' = [Resting EXCEPT !.pc = c, !.due = snapshotDue(s)]
            /\ c = "running" => idleProject(s)
    BY <1>2, Zenon DEF AfterStops
  <2>2. Resting \in RecState /\ c \in RecPCs
    BY RestingType DEF RecPCs
  <2> QED BY <1>3, <2>1, <2>2, Zenon DEF RecState
<1>5. s # None
  BY <1>1, LocalAssumption
<1>6. Types'
  BY <1>0, <1>1, <1>2, <1>4 DEF Types
<1>7. RoutesAreKnown' /\ PinnedProjectIsKnown'
  BY <1>0, <1>1, <1>2, <1>5, Zenon DEF IInv, RoutesAreKnown, PinnedProjectIsKnown
<1>8. HoldersAreLate'
  <2>1. rec'.pc # "stop" /\ (rec'.pc = "running" => Holds(s) = {})
    BY <1>4 DEF idleProject
  <2> QED BY <1>2, <2>1, Zenon DEF HoldersAreLate
<1>9. SeedExists'
  <2>1. rec'.pc \notin {"record", "list", "destroy"}
    BY <1>4
  <2> QED BY <1>0, <1>1, <1>2, <1>5, <2>1, Zenon DEF IInv, SeedExists
<1> QED BY <1>6, <1>7, <1>8, <1>9 DEF IInv

\* The instance is looked at, and stopped.
LEMMA StopSteps ==
    ASSUME IInv, recRunning \/ recStop
    PROVE  IInv'
<1>0. Types /\ rec.pc \in {"running", "stop"} /\ rec \in RecState
  BY DEF IInv, recRunning, recStop, Types
<1>1. UNCHANGED <<st, zfs, child, route>>
  BY Zenon DEF recRunning, recStop
<1>2. /\ rec' \in RecState /\ rec'.pc \in {"stop", "snap", "idle"}
      /\ rec'.pc = "stop" => rec'.late = rec.late
  <2>1. PICK c \in {"stop", "snap", "idle"}, l \in {rec.late, {}} :
            rec' = [rec EXCEPT !.pc = c, !.late = l] /\ (c = "stop" => l = rec.late)
    BY Zenon DEF recRunning, recStop, AfterStops
  <2>2. c \in RecPCs
    BY DEF RecPCs
  <2> QED BY <1>0, <2>1, <2>2, Zenon DEF RecState
<1>3. Types'
  BY <1>0, <1>1, <1>2 DEF Types
<1>4. RoutesAreKnown' /\ PinnedProjectIsKnown'
  BY <1>1, Zenon DEF IInv, RoutesAreKnown, PinnedProjectIsKnown
<1>5. HoldersAreLate'
  <2>1. rec'.pc # "running"
    BY <1>2
  <2> QED BY <1>0, <1>1, <1>2, <2>1, Zenon DEF IInv, HoldersAreLate
<1>6. SeedExists'
  <2>1. rec'.pc \notin {"record", "list", "destroy"} /\ rec.pc # "idle"
    BY <1>0, <1>2
  <2> QED BY <1>1, <2>1, Zenon DEF IInv, SeedExists
<1> QED BY <1>3, <1>4, <1>5, <1>6 DEF IInv

\* A pass that comes to its end.
LEMMA RestStep ==
    ASSUME IInv, rec' = Resting, UNCHANGED <<st, zfs, child, route>>
    PROVE  IInv'
<1>1. Types'
  BY RestingType DEF IInv, Types
<1>2. rec'.pc = "idle"
  BY RestingType
<1>3. HoldersAreLate' /\ SeedExists'
  BY <1>2 DEF IInv, HoldersAreLate, SeedExists
<1> QED BY <1>1, <1>3, Zenon DEF IInv, RoutesAreKnown, PinnedProjectIsKnown
\* A snapshot is taken, then recorded as the seed.
LEMMA SnapshotSteps ==
    ASSUME IInv, recSnapshot \/ recRecord
    PROVE  IInv'
<1>0. Types /\ rec \in RecState /\ SeedExists /\ RoutesAreKnown /\ PinnedProjectIsKnown
  BY DEF IInv, Types
<1>1. CASE rec.pc = "snap" /\ UNCHANGED <<child, st, route>> /\ rec' = Resting /\ UNCHANGED zfs
  BY <1>1, RestStep
<1>2. CASE /\ rec.pc = "snap" /\ UNCHANGED <<child, st, route>>
           /\ zfs' = [snaps |-> zfs.snaps \cup {zfs.made + 1}, made |-> zfs.made + 1]
           /\ rec' = [rec EXCEPT !.pc = "record", !.new = zfs.made + 1]
  <2> DEFINE n == zfs.made + 1
  <2>1. zfs.made \in Nat /\ zfs.snaps \in SUBSET Nat /\ n \in Nat /\ zfs.made <= n
    BY <1>0 DEF Types
  <2> HIDE DEF n
  <2>2. zfs' = [snaps |-> zfs.snaps \cup {n}, made |-> n] /\ rec' = [rec EXCEPT !.pc = "record", !.new = n]
    BY <1>2 DEF n
  <2>3. /\ zfs' \in [snaps : SUBSET Nat, made : Nat]
        /\ zfs'.snaps = zfs.snaps \cup {n} /\ zfs'.made = n
    BY <2>1, <2>2, Zenon
  <2>4. rec' \in RecState /\ rec'.pc = "record" /\ rec'.new = n
    BY <1>0, <2>1, <2>2, Zenon DEF RecState, RecPCs
  <2>5. Types'
    BY <1>0, <1>2, <2>3, <2>4 DEF Types
  <2>6. \A m \in zfs'.snaps : m <= zfs'.made
    <3> SUFFICES ASSUME NEW m \in zfs.snaps \cup {n} PROVE m <= n
      BY <2>3
    <3>1. CASE m = n
      BY <2>1, <3>1
    <3>2. CASE m \in zfs.snaps
      <4>1. m <= zfs.made /\ m \in Nat
        BY <1>0, <2>1, <3>2 DEF SeedExists
      <4> QED BY <2>1, <4>1
    <3> QED BY <3>1, <3>2
  <2>7. SeedExists'
    BY <1>0, <1>2, <2>3, <2>4, <2>6 DEF SeedExists
  <2>8. HoldersAreLate' /\ RoutesAreKnown' /\ PinnedProjectIsKnown'
    BY <1>0, <1>2, <2>4 DEF HoldersAreLate, RoutesAreKnown, PinnedProjectIsKnown
  <2> QED BY <2>5, <2>7, <2>8 DEF IInv
<1>3. CASE recRecord
  <2> DEFINE t == [st EXCEPT !.lastSnap = rec.new, !.snapAge = rec.age]
  <2>1. /\ st # None /\ st \in States /\ rec.new = zfs.made /\ zfs.made \in zfs.snaps /\ zfs.made \in Nat
        /\ rec.age \in Nat
    BY <1>0, <1>3 DEF recRecord, SeedExists, Types, RecState
  <2>2. st' = t /\ UNCHANGED <<zfs, child, route>> /\ rec' = [rec EXCEPT !.pc = "list"]
    BY <1>3, <2>1, Zenon DEF recRecord
  <2>3. /\ t \in States /\ t.lastSnap = zfs.made /\ t.repo = st.repo /\ t.inflight = st.inflight
    BY <2>1, Zenon DEF States
  <2> HIDE DEF t
  <2>4. t # None /\ Holds(t) = Holds(st)
    BY <2>1, <2>3, HoldsIs, Zenon
  <2>5. rec' \in RecState /\ rec'.pc = "list"
    BY <1>0, <2>2, Zenon DEF RecState, RecPCs
  <2>6. Types'
    BY <1>0, <2>2, <2>3, <2>5 DEF Types
  <2>7. RoutesAreKnown' /\ PinnedProjectIsKnown'
    BY <1>0, <2>2, <2>3, <2>4, Zenon DEF RoutesAreKnown, PinnedProjectIsKnown
  <2>8. HoldersAreLate' /\ SeedExists'
    BY <1>0, <2>1, <2>2, <2>3, <2>4, <2>5 DEF HoldersAreLate, SeedExists
  <2> QED BY <2>6, <2>7, <2>8 DEF IInv
<1> QED BY <1>1, <1>2, <1>3, Zenon DEF recSnapshot

\* Surplus snapshots are listed and destroyed; the seed is the newest.
LEMMA PruneSteps ==
    ASSUME IInv, recList \/ recDestroy
    PROVE  IInv'
<1>0. Types /\ rec \in RecState /\ SeedExists /\ RoutesAreKnown /\ PinnedProjectIsKnown
  BY DEF IInv, Types
<1>1. zfs.made \in Nat /\ zfs.snaps \in SUBSET Nat /\ zfs \in [snaps : SUBSET Nat, made : Nat]
  BY <1>0, Zenon DEF Types
<1>2. CASE rec' = Resting /\ UNCHANGED <<st, zfs, child, route>>
  BY <1>2, RestStep
<1>3. CASE /\ recList
           /\ rec' = [rec EXCEPT !.pc = "destroy", !.todo = Surplus(zfs.snaps)]
  <2>1. UNCHANGED <<st, zfs, child, route>> /\ rec.pc = "list"
    BY <1>3, Zenon DEF recList
  <2>2. zfs.made \notin Surplus(zfs.snaps) /\ Surplus(zfs.snaps) \subseteq zfs.snaps
    BY <1>0, <1>1, NewestSpared DEF SeedExists
  <2>3. rec' \in RecState /\ rec'.pc = "destroy" /\ rec'.todo = Surplus(zfs.snaps)
    BY <1>0, <1>1, <1>3, <2>2, Zenon DEF RecState, RecPCs
  <2>4. Types'
    BY <1>0, <2>1, <2>3 DEF Types
  <2>5. RoutesAreKnown' /\ PinnedProjectIsKnown' /\ HoldersAreLate'
    BY <1>0, <2>1, <2>3 DEF HoldersAreLate, RoutesAreKnown, PinnedProjectIsKnown
  <2>6. SeedExists'
    BY <1>0, <2>1, <2>2, <2>3 DEF SeedExists
  <2> QED BY <2>4, <2>5, <2>6 DEF IInv
<1>4. ASSUME recDestroy, NEW n \in rec.todo, rec' = [rec EXCEPT !.todo = rec.todo \ {n}],
             zfs' = [zfs EXCEPT !.snaps = zfs.snaps \ {n}] \/ UNCHANGED zfs
      PROVE  IInv'
  <2>1. UNCHANGED <<st, child, route>> /\ rec.pc = "destroy"
    BY <1>4, Zenon DEF recDestroy
  <2>2. rec' \in RecState /\ rec'.pc = "destroy" /\ rec'.todo \subseteq rec.todo
    BY <1>0, <1>4, <2>1, Zenon DEF RecState
  <2>3. /\ zfs' \in [snaps : SUBSET Nat, made : Nat] /\ zfs'.made = zfs.made
        /\ zfs'.snaps \subseteq zfs.snaps /\ zfs.snaps \subseteq zfs'.snaps \cup {n}
    BY <1>1, <1>4, Zenon
  <2>4. st # None /\ st.lastSnap = zfs.made /\ zfs.made # n /\ zfs.made \notin rec.todo
    BY <1>0, <2>1 DEF SeedExists
  <2>5. zfs.made \in zfs.snaps
    <3>1. st.lastSnap # None
      BY <1>1, <2>4, LocalAssumption
    <3> QED BY <1>0, <2>4, <3>1 DEF SeedExists
  <2>6. Types'
    BY <1>0, <2>1, <2>2, <2>3 DEF Types
  <2>7. RoutesAreKnown' /\ PinnedProjectIsKnown' /\ HoldersAreLate'
    BY <1>0, <2>1, <2>2 DEF HoldersAreLate, RoutesAreKnown, PinnedProjectIsKnown
  <2>8. SeedExists'
    <3>1. \A m \in zfs'.snaps : m <= zfs'.made
      BY <1>0, <2>3, Zenon DEF SeedExists
    <3>2. zfs.made \in zfs'.snaps /\ zfs.made \notin rec'.todo
      BY <2>2, <2>3, <2>4, <2>5, Zenon
    <3> QED BY <2>1, <2>2, <2>3, <2>4, <3>1, <3>2 DEF SeedExists
  <2> QED BY <2>6, <2>7, <2>8 DEF IInv
<1> QED BY <1>2, <1>3, <1>4, Zenon DEF recList, recDestroy
\* A restart forgets the state, and ends the routes and the pass with it.
LEMMA RestartStep ==
    ASSUME IInv, Restart
    PROVE  IInv'
<1>0. Types
  BY DEF IInv
<1>1. /\ st' = None /\ rec' = Resting /\ UNCHANGED zfs
      /\ route' = [b \in Builds |-> IF route[b] = "served" THEN "served" ELSE "off"]
      /\ child' = [child EXCEPT !.pc = "off", !.seed = None]
  BY Zenon DEF Restart, At
<1>2. route' \in [Builds -> Places] /\ \A b \in Builds : route'[b] \notin Ensured
  BY <1>1 DEF Places, Ensured
<1>3. child' \in ChildState
  BY <1>0, <1>1, Zenon DEF Types, ChildState
<1>4. Types'
  BY <1>0, <1>1, <1>2, <1>3, RestingType DEF Types
<1>5. rec'.pc = "idle" /\ Holds(st') = {}
  BY <1>1, RestingType DEF Holds
<1>6. SeedExists'
  BY <1>1, <1>5 DEF IInv, SeedExists
<1>7. RoutesAreKnown' /\ PinnedProjectIsKnown' /\ HoldersAreLate'
  BY <1>2, <1>5, Zenon DEF RoutesAreKnown, PinnedProjectIsKnown, HoldersAreLate
<1> QED BY <1>4, <1>6, <1>7 DEF IInv

LEMMA InitKeeps == Init => IInv
<1> SUFFICES ASSUME Init PROVE IInv
  OBVIOUS
<1>1. st = None /\ rec = Resting /\ rec.pc = "idle" /\ Holds(st) = {}
  BY RestingType DEF Init, Holds
<1>2. route \in [Builds -> Places] /\ \A b \in Builds : route[b] \notin Ensured
  BY DEF Init, Places, Ensured
<1>3. zfs \in [snaps : SUBSET Nat, made : Nat] /\ zfs.snaps = {}
  BY DEF Init
<1>4. child \in ChildState
  BY DEF Init, ChildState
<1>5. Types
  BY <1>1, <1>2, <1>3, <1>4, RestingType DEF Types
<1> QED BY <1>1, <1>2, <1>3, <1>5
        DEF IInv, RoutesAreKnown, PinnedProjectIsKnown, HoldersAreLate, SeedExists

LEMMA NextKeeps == IInv /\ [Next]_vars => IInv'
<1> SUFFICES ASSUME IInv, [Next]_vars PROVE IInv'
  OBVIOUS
<1>1. CASE UNCHANGED vars
  BY <1>1, Zenon DEF vars, IInv, Types, RoutesAreKnown, PinnedProjectIsKnown, HoldersAreLate, SeedExists
<1>2. ASSUME NEW b \in Builds, NewRequest(b) \/ Handler(b) \/ Complete(b) \/ Vanish(b) PROVE IInv'
  BY <1>2, RouteSteps, EnsureStep, StartStep, EndSteps, Zenon DEF Handler
<1>3. CASE Reconcile
  BY <1>3, PassStep, StopSteps, SnapshotSteps, PruneSteps, Zenon DEF Reconcile
<1>4. CASE Child \/ Restart \/ Tick
  BY <1>4, ChildSteps, RestartStep, TickStep
<1> QED BY <1>1, <1>2, <1>3, <1>4, Zenon DEF Next

\* The inductive invariant holds in every reachable state.
THEOREM InductiveInvariant == Spec => []IInv
  BY InitKeeps, NextKeeps, PTL DEF Spec

-----------------------------------------------------------------------------
(* The theorems.                                                           *)

\* For any number of builds, whatever a /complete after a restart minted: a
\* project with a registered build has its repo on record.
THEOREM PinnedIsKnown == Spec => []PinnedProjectIsKnown
<1>1. IInv => PinnedProjectIsKnown
  BY DEF IInv
<1> QED BY <1>1, InductiveInvariant, PTL

\* However registrations interleave with the loop's decision, its look at the
\* instance and its stop: the builds it stops were registered after the locked
\* pass that found none.
THEOREM StopsDecidedUnpinned == Spec => StopsAreDecidedUnpinned
<1> DEFINE Decided == rec.pc = "stop" /\ inst'.state # inst.state => Holds(st) \subseteq rec.late
<1>1. IInv => Decided
  BY DEF IInv, HoldersAreLate
<1> QED BY <1>1, InductiveInvariant, PTL DEF Spec, StopsAreDecidedUnpinned

\* With any number of snapshots kept, any restarts, failures and interleaving
\* of the child with the pruning loop: latestSnapshot hands a fork or clone a
\* snapshot that exists.
THEOREM SeedFound == Spec => SeedIsFound
<1> DEFINE Found == child.pc = "seed" /\ child'.pc = "data" =>
                      \/ child'.seed \in zfs.snaps
                      \/ child'.seed = NoSnapshot /\ zfs.snaps = {}
                      \/ child'.seed = Unlisted
<1>1. IInv /\ [Next]_vars => Found
  <2> SUFFICES ASSUME IInv, [Next]_vars, child.pc = "seed", child'.pc = "data"
               PROVE  \/ child'.seed \in zfs.snaps
                      \/ child'.seed = NoSnapshot /\ zfs.snaps = {}
                      \/ child'.seed = Unlisted
    OBVIOUS
  <2>0. child \in ChildState
    BY DEF IInv, Types
  <2>1. ~Restart
    <3> SUFFICES ASSUME Restart PROVE FALSE
      OBVIOUS
    <3>1. child'.pc = "off"
      BY <2>0, Zenon DEF Restart, ChildState
    <3> QED BY <3>1
  <2>2. childSeed
    BY <2>1, Zenon DEF Next, NewRequest, Handler, ensureState, InstanceExists, Running, Start, LaunchInit,
       LaunchAttach, EnsureFails, StartCancelled, StartInflight, Served, WaitFails, Complete, Vanish,
       Reconcile, recPass, recRunning, recStop, recSnapshot, recRecord, recList, recDestroy, Child,
       childRequest, childLookup, childData, childLaunch, childFails, Tick, vars
  <2>3. PICK n \in latestSnapshot : child' = [child EXCEPT !.pc = "data", !.seed = n]
    BY <2>2, Zenon DEF childSeed
  <2>4. child'.seed = n
    BY <2>0, <2>3, Zenon DEF ChildState
  <2>5. CASE st # None /\ st.lastSnap # None
    <3>1. n = st.lastSnap
      BY <2>5, Zenon DEF latestSnapshot
    <3> QED BY <2>4, <2>5, <3>1 DEF IInv, SeedExists
  <2>6. CASE ~(st # None /\ st.lastSnap # None)
    <3>1. n \in {Unlisted} \cup (IF zfs.snaps = {} THEN {NoSnapshot} ELSE Newest(zfs.snaps, 1))
      BY <2>6, Zenon DEF latestSnapshot
    <3>2. Newest(zfs.snaps, 1) \subseteq zfs.snaps
      BY Zenon DEF Newest
    <3> QED BY <2>4, <3>1, <3>2, Zenon
  <2> QED BY <2>5, <2>6
<1> QED BY <1>1, InductiveInvariant, PTL DEF Spec, SeedIsFound
=============================================================================
