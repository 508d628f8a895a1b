-------------------------- MODULE InflightRegistry --------------------------
(***************************************************************************)
(* What status.inflight promises its users, with no API server, cache or   *)
(* retry in sight: one dated entry per routed build, which leaves only     *)
(* because its own build asked for it, because it outlived the window, or  *)
(* as the oldest one, by a documented operation on another build: the cap  *)
(* makes room for a new entry, a release without a token retires one.      *)
(***************************************************************************)
EXTENDS Integers, FiniteSets

CONSTANTS
    Builds,    \* routed builds, each with its own token
    Window     \* age past which an entry may be dropped

VARIABLES
    now,       \* the clock
    entries,   \* the registered builds: a set of [build, since]
    asked,     \* builds whose release was asked for by token
    unnamed    \* releases without a token that are under way

vars == <<now, entries, asked, unnamed>>

Init == now = 0 /\ entries = {} /\ asked = {} /\ unnamed = 0

Tick == now' = now + 1 /\ UNCHANGED <<entries, asked, unnamed>>

Ask(b) == asked' = asked \cup {b} /\ UNCHANGED <<now, entries, unnamed>>

AskUnnamed == unnamed' = unnamed + 1 /\ UNCHANGED <<now, entries, asked>>

Expirable == {e \in entries : now - e.since > Window}

\* No entry, or one that is no younger than any other.
OldestOrNone(S) == {{}} \cup {{e} : e \in {f \in S : \A g \in S : f.since <= g.since}}

\* Registration dates the entry at some moment up to now; at the cap the
\* oldest of the others goes.  A build registers once.
Register(b) ==
    /\ UNCHANGED <<now, asked, unnamed>>
    /\ \A e \in entries : e.build # b
    /\ \E t \in 0..now, gone \in SUBSET Expirable :
       \E pushed \in OldestOrNone(entries \ gone) :
          entries' = (entries \ (gone \cup pushed)) \cup {[build |-> b, since |-> t]}

\* A release by token takes the entry of that build and no other.
Release(b) ==
    /\ UNCHANGED <<now, asked, unnamed>>
    /\ b \in asked
    /\ \E gone \in SUBSET Expirable :
          entries' = {e \in entries \ gone : e.build # b}

\* A release without a token takes at most one entry and is then over.
ReleaseOldest ==
    /\ UNCHANGED <<now, asked>>
    /\ unnamed > 0
    /\ unnamed' = unnamed - 1
    /\ \E gone \in SUBSET Expirable :
       \E taken \in OldestOrNone(entries \ gone) :
          entries' = entries \ (gone \cup taken)

Expire ==
    /\ UNCHANGED <<now, asked, unnamed>>
    /\ \E gone \in SUBSET Expirable : entries' = entries \ gone

Next ==
    \/ Expire
    \/ Tick
    \/ \E b \in Builds : Ask(b) \/ Register(b) \/ Release(b)
    \/ AskUnnamed
    \/ ReleaseOldest

Spec == Init /\ [][Next]_vars
=============================================================================
