------------------------------- MODULE MCDiscovery -------------------------------
(* An instance of the programs around service discovery. *)
EXTENDS Discovery, TLC

CONSTANTS mainnet, testnet, n1, n2, s1, host, replica, u1, u2, a0, a1, a2

-----------------------------------------------------------------------------
(* A service discovery with two updater threads.  In mainnet a node has a   *)
(* bogus address; it joins the subnet while its record cannot be read.      *)

C(subnet1, record1, subnet2, record2) ==
    [subnetOf |-> n1 :> subnet1 @@ n2 :> subnet2, record |-> n1 :> record1 @@ n2 :> record2]

Versions == mainnet :> 1 @@ testnet :> 0

Contents ==
    mainnet :> (0 :> C(s1, "address", NoSubnet, "zeroes") @@
                1 :> C(s1, "address", s1, "missing")) @@
    testnet :> (0 :> C(s1, "address", NoSubnet, "address"))

Jobs == u1 :> {replica} @@ u2 :> {host}

ASSUME UpdatersAssumption == DisjointJobs /\ RegistriesKnown

-----------------------------------------------------------------------------
(* Three versions of the registry, of one key, two and one. *)

Keys == <<1, 2, 1>>

ASSUME SyncAssumption == Sync!NoEmptyVersion /\ BoundsAreNumbers

-----------------------------------------------------------------------------
(* Two answers have the same targets for one of the jobs. *)

Configs == [a \in {a0, a1, a2} |->
              [j \in {host, replica} |-> IF a = a0 THEN "none" ELSE IF j = replica \/ a = a1 THEN "one" ELSE "two"]]

ASSUME PagesAssumption == Pages \in Nat

-----------------------------------------------------------------------------
(* Log entries: empty, with a newline and '=' in the message, of as many bytes *)
(* as the code of the newline says, with a character of two bytes, and with     *)
(* characters that are cut, out of range or without a beginning.               *)

Texts == {<<>>, <<10, 61>>, <<65, 10, 10, 65, 10, 10, 10, 65, 61, 10>>,
          <<195, 164, 61>>, <<195, 164, 61, 226, 130, 65, 237, 160, 128, 240, 159>>}

\* What String::from_utf8_lossy makes of bytes, by its documentation and Unicode 3.9:
\* one replacement for each maximal part of a character.
ASSUME LossyIsRight ==
    LET R == Logs!Replacement
    IN  /\ Logs!Lossy(<<72, 105>>) = <<72, 105>>
        /\ Logs!Lossy(<<195, 164, 226, 130, 172, 240, 159, 146, 150>>)
             = <<195, 164, 226, 130, 172, 240, 159, 146, 150>>
        /\ Logs!Lossy(<<72, 240, 144, 128, 87>>) = <<72>> \o R \o <<87>>
        /\ Logs!Lossy(<<192, 128>>) = R \o R
        /\ Logs!Lossy(<<237, 160, 128>>) = R \o R \o R
        /\ Logs!Lossy(<<226, 195, 164, 244, 144>>) = R \o <<195, 164>> \o R \o R
        /\ Logs!Lossy(<<226, 130>>) = R

ASSUME LogsAssumption == TextsAreBytes /\ LogNumbers /\ Batch \in Nat \ {0}
=============================================================================
