------------------------------- MODULE MCServices -------------------------------
(* An instance of the backend, its cache and the notification services. *)
EXTENDS Services, TLC

CONSTANTS n1, n2, n3, v1, v2, v3, v4, p1, p2

-----------------------------------------------------------------------------
(* Two nodes, three routes, one provider of which is not in the list. *)

Providers == n1 :> p1 @@ n2 :> p2

Slack == <<p1, p2, p1>>

-----------------------------------------------------------------------------
(* Three proposals, two of which go into one message; the third is muted. *)

Topics == <<"a", "a", "b">>

-----------------------------------------------------------------------------
(* Node 1 is in the subnet, node 2 may be added; the subnet runs the second of *)
(* three elected versions and may go back to the first.  In other behaviours a *)
(* version without a release branch is elected.                                *)

Versions == <<v1, v2, v3, v4>>

Branches == [v \in {v1, v2, v3, v4} |-> v]

Genesis == [home |-> {n1}, runs |-> v2, elected |-> {v1, v2, v3}]

Add   == [kind |-> "add", nodes |-> {n2}]
Back  == [kind |-> "upgrade", version |-> v1]
Elect == [kind |-> "elect", version |-> v4, unelect |-> {}]

Motions == {Add, Back, Elect}

Plans == {{Add, Back}, {Elect}}

Asked == {<<"available", "preview">>, <<"retireable", "available">>}

ASSUME ServicesAssumption == NodesAreFinite /\ ProposalBounds /\ ProposalsKnown /\ CacheBounds
=============================================================================
