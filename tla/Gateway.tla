------------------------------ MODULE Gateway ------------------------------
(***************************************************************************)
(* The SNI gateway (cmd/gateway/main.go): one goroutine per connection     *)
(* takes a slot, joins the WaitGroup, peeks the SNI, dials the daemon and  *)
(* pipes both directions; on SIGTERM the listener closes and the process   *)
(* waits, bounded, for the connections in the WaitGroup.                   *)
(*                                                                         *)
(* A direction is the number of bytes its source wrote, how many of them   *)
(* the other side got, and whether the source is done.                     *)
(***************************************************************************)
EXTENDS Naturals, FiniteSets

CONSTANTS
    Conns,     \* connections
    MaxConns,  \* --max-conns
    Bytes      \* bound: bytes written per direction

ASSUME GatewayAssumption == MaxConns \in Nat \ {0} /\ Bytes \in Nat

VARIABLES
    main,   \* "accept", "wait", "exiting" or "exited"
    drain,  \* how the wait ended: "none", "drained" or "timeout"
    conn,   \* one record per connection
    slots   \* tokens in the maxConns channel

vars == <<main, drain, conn, slots>>

Sides == {"client", "daemon"}

\* Per side: what it wrote, whether it ended its writing, what the gateway
\* delivered to the other side, whether the gateway passed the end on.
Quiet == [wrote |-> 0, ended |-> FALSE, delivered |-> 0, copied |-> FALSE]
Fresh == [pc |-> "off", way |-> [s \in Sides |-> Quiet], atTerm |-> FALSE, broken |-> FALSE]

Init ==
    /\ main = "accept"
    /\ drain = "none"
    /\ conn = [c \in Conns |-> Fresh]
    /\ slots = 0

Alive == main # "exited"
Goto(c, pc) == conn' = [conn EXCEPT ![c].pc = pc]

\* The WaitGroup's counter: those that called Add and not yet Done.
Inflight == {c \in Conns : conn[c].pc \in {"peek", "dial", "pipe"}}

-----------------------------------------------------------------------------
(* The main goroutine.                                                     *)

Accept(c) ==
    /\ main = "accept"
    /\ conn[c].pc = "off"
    /\ Goto(c, "spawned")
    /\ UNCHANGED <<main, drain, slots>>

\* SIGTERM: the listener is closed; atTerm, a history, marks the connections
\* already streaming.
Sigterm ==
    /\ main = "accept"
    /\ main' = "wait"
    /\ conn' = [c \in Conns |-> [conn[c] EXCEPT !.atTerm = conn[c].pc = "pipe"]]
    /\ UNCHANGED <<drain, slots>>

\* Mutant: nobody waits for the WaitGroup.
Drained_NoWait ==
    /\ main = "wait"
    /\ main' = "exiting" /\ drain' = "drained"
    /\ UNCHANGED <<conn, slots>>

Drained ==
    /\ main = "wait"
    /\ Inflight = {}
    /\ main' = "exiting" /\ drain' = "drained"
    /\ UNCHANGED <<conn, slots>>

DrainTimeout ==
    /\ main = "wait"
    /\ main' = "exiting" /\ drain' = "timeout"
    /\ UNCHANGED <<conn, slots>>

\* The process ends, and with it every goroutine.
Exit ==
    /\ main = "exiting"
    /\ main' = "exited"
    /\ UNCHANGED <<drain, conn, slots>>

-----------------------------------------------------------------------------
(* handle.                                                                 *)

\* A slot, or a refusal.
TakeSlot(c) ==
    /\ conn[c].pc = "spawned"
    /\ IF slots < MaxConns
       THEN slots' = slots + 1 /\ Goto(c, "admitted")
       ELSE UNCHANGED slots /\ Goto(c, "done")
    /\ UNCHANGED <<main, drain>>

\* inflight.Add, in the goroutine and not where it is started.
Join(c) ==
    /\ conn[c].pc = "admitted"
    /\ Goto(c, "peek")
    /\ UNCHANGED <<main, drain, slots>>

\* peekClientHelloSNI and backendFor.
Peek(c) ==
    /\ conn[c].pc = "peek"
    /\ Goto(c, "dial")
    /\ UNCHANGED <<main, drain, slots>>

\* The dial succeeds and the ClientHello is replayed.
Dial(c) ==
    /\ conn[c].pc = "dial"
    /\ Goto(c, "pipe")
    /\ UNCHANGED <<main, drain, slots>>

\* Mutant: the slot is given back only where the pipe ends.
Reject_KeepsSlot(c) ==
    /\ conn[c].pc \in {"peek", "dial"}
    /\ Goto(c, "done")
    /\ UNCHANGED <<main, drain, slots>>

\* A silent client, a wrong SNI or a daemon that cannot be reached.
Reject(c) ==
    /\ conn[c].pc \in {"peek", "dial"}
    /\ slots' = slots - 1
    /\ Goto(c, "done")
    /\ UNCHANGED <<main, drain>>

\* io.Copy moves what the source wrote.
Copy(c, s) ==
    LET w == conn[c].way[s] IN
    /\ conn[c].pc = "pipe"
    /\ w.delivered < w.wrote /\ ~w.copied
    /\ conn' = [conn EXCEPT ![c].way[s].delivered = @ + 1]
    /\ UNCHANGED <<main, drain, slots>>

\* Mutant: only an orderly end of both sides ends the copying.
CloseWrite_IgnoresErrors(c, s) ==
    LET w == conn[c].way[s] IN
    /\ conn[c].pc = "pipe" /\ ~w.copied
    /\ w.ended /\ w.delivered = w.wrote /\ ~conn[c].broken
    /\ conn' = [conn EXCEPT ![c].way[s].copied = TRUE]
    /\ UNCHANGED <<main, drain, slots>>

\* io.Copy sees the end of the source, or an error; the end is passed on.
CloseWrite(c, s) ==
    LET w == conn[c].way[s] IN
    /\ conn[c].pc = "pipe" /\ ~w.copied
    /\ (w.ended /\ w.delivered = w.wrote) \/ conn[c].broken
    /\ conn' = [conn EXCEPT ![c].way[s].copied = TRUE]
    /\ UNCHANGED <<main, drain, slots>>

\* Mutant: the first end closes both.
PipeEnds_FirstEOF(c) ==
    /\ conn[c].pc = "pipe"
    /\ \E s \in Sides : conn[c].way[s].copied
    /\ slots' = slots - 1
    /\ Goto(c, "done")
    /\ UNCHANGED <<main, drain>>

\* pipe returns when both directions have ended.
PipeEnds(c) ==
    /\ conn[c].pc = "pipe"
    /\ \A s \in Sides : conn[c].way[s].copied
    /\ slots' = slots - 1
    /\ Goto(c, "done")
    /\ UNCHANGED <<main, drain>>

-----------------------------------------------------------------------------
(* Clients and daemons.                                                    *)

Write(c, s) ==
    /\ conn[c].pc = "pipe" /\ ~conn[c].way[s].ended /\ ~conn[c].broken
    /\ conn[c].way[s].wrote < Bytes
    /\ conn' = [conn EXCEPT ![c].way[s].wrote = @ + 1]
    /\ UNCHANGED <<main, drain, slots>>

EndWrite(c, s) ==
    /\ conn[c].pc = "pipe" /\ ~conn[c].way[s].ended
    /\ conn' = [conn EXCEPT ![c].way[s].ended = TRUE]
    /\ UNCHANGED <<main, drain, slots>>

\* A side goes away; keepalives tell the gateway.
Break(c) ==
    /\ conn[c].pc = "pipe" /\ ~conn[c].broken
    /\ conn' = [conn EXCEPT ![c].broken = TRUE]
    /\ UNCHANGED <<main, drain, slots>>

Handle(c) ==
    \/ TakeSlot(c) \/ Join(c) \/ Peek(c) \/ Dial(c) \/ Reject(c) \/ PipeEnds(c)
    \/ \E s \in Sides : Copy(c, s) \/ CloseWrite(c, s)

Next ==
    \/ Sigterm \/ Drained \/ DrainTimeout \/ Exit
    \/ /\ Alive
       /\ \E c \in Conns :
            \/ Accept(c) \/ Handle(c) \/ Break(c)
            \/ \E s \in Sides : Write(c, s) \/ EndWrite(c, s)

Spec == Init /\ [][Next]_vars

\* Goroutines run, and both ends of a build end their writing.
FairSpec ==
    /\ Spec
    /\ WF_vars(Exit) /\ WF_vars(Drained) /\ WF_vars(DrainTimeout)
    /\ \A c \in Conns :
        /\ WF_vars(Alive /\ Handle(c))
        /\ \A s \in Sides : WF_vars(Alive /\ EndWrite(c, s))

-----------------------------------------------------------------------------
Admitted == Inflight \cup {c \in Conns : conn[c].pc = "admitted"}

\* Every slot taken belongs to an admitted connection, so a refused or
\* finished one never keeps it (handle's defers), and the limit holds.
SlotsMatchConnections == slots = Cardinality(Admitted) /\ slots <= MaxConns

\* A build whose two ends did nothing wrong has got every byte when the
\* gateway lets go of it, whichever side ended first (pipe's half-close).
NothingIsTruncated ==
    \A c \in Conns, s \in Sides :
        conn[c].pc = "done" /\ ~conn[c].broken =>
            conn[c].way[s].delivered = conn[c].way[s].wrote

\* A build that was streaming when SIGTERM came is cut by the process only
\* after the drain budget: "all builds drained" is never said over one.
StreamingBuildsAreDrained ==
    main = "exited" /\ drain = "drained" => \A c \in Conns : conn[c].atTerm => conn[c].pc = "done"

\* A connection that got a slot gives it back, or the process ends.
SlotsComeBack == \A c \in Conns : c \in Admitted ~> (c \notin Admitted \/ main = "exited")
=============================================================================
