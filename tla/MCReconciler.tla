----------------------------- MODULE MCReconciler -----------------------------
(* Values for the constants of Reconciler. *)
EXTENDS Reconciler

CONSTANTS a, b, old, stray

\* A release with a hotfix, and the one before it, which the network runs.
TwoReleases == << <<a, b>>, <<old>> >>

\* The version the network runs was elected by a proposal made by hand.
OldElection == <<[version |-> old, unelect |-> {}, post |-> <<2, 0>>, own |-> FALSE]>>
=============================================================================
