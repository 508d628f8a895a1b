-------------------------- MODULE MCDaemonLifecycle --------------------------
(***************************************************************************)
(* DaemonLifecycle for TLC.                                                *)
(***************************************************************************)
EXTENDS DaemonLifecycle

\* A build of a warm project around an upgrade of the operator, and two builds
\* without one.
UpgradedOrBusy ==
    {[tier |-> "warm", idle |-> 1, drains |-> FALSE, upgrades |-> TRUE,
      dying |-> TRUE, builds |-> 1],
     [tier |-> "warm", idle |-> 1, drains |-> FALSE, upgrades |-> FALSE,
      dying |-> TRUE, builds |-> 2]}

\* A warm project that is built once and whose nodes are drained, and a hot one
\* that is built back to back while the operator is upgraded.
WarmAndHot ==
    {[tier |-> "warm", idle |-> 1, drains |-> TRUE, upgrades |-> FALSE,
      dying |-> TRUE, builds |-> 1],
     [tier |-> "hot", idle |-> 0, drains |-> FALSE, upgrades |-> TRUE,
      dying |-> TRUE, builds |-> None]}
=============================================================================
