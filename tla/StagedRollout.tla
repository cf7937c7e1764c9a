---------------------------- MODULE StagedRollout ----------------------------
(***************************************************************************)
(* What the rollout controller promises about one release: stage by stage. *)
(* An upgrade of a unit is proposed only when every unit of the stages     *)
(* before it is done.  Proposals may be turned down, and somebody else may *)
(* upgrade a unit at any time; nothing goes back.                          *)
(***************************************************************************)
EXTENDS Naturals, Sequences

CONSTANTS Unit,     \* what is upgraded
          stages    \* sequence of sets of units

VARIABLE status     \* Unit -> "behind", "proposed" or "done"

Init == status = [u \in Unit |-> "behind"]

Become(u, s) == status' = [status EXCEPT ![u] = s]

Propose(u, i) == /\ u \in stages[i]
                 /\ \A j \in 1..(i - 1) : \A t \in stages[j] : status[t] = "done"
                 /\ status[u] = "behind"
                 /\ Become(u, "proposed")

TurnDown(u) == status[u] = "proposed" /\ Become(u, "behind")

Complete(u) == status[u] # "done" /\ Become(u, "done")

Next == \E u \in Unit : \/ \E i \in DOMAIN stages : Propose(u, i)
                        \/ TurnDown(u)
                        \/ Complete(u)

Spec == Init /\ [][Next]_status
=============================================================================
