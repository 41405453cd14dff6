------------------------------ MODULE MCBroker ------------------------------
(* Broker on a small instance: users, replicas, browsers and requests are   *)
(* interchangeable, and every property of the run is a safety property.     *)
EXTENDS Broker, TLC

Interchangeable == Permutations(Users) \cup Permutations(Replicas)
                     \cup Permutations(Browsers) \cup Permutations(Reqs)
=============================================================================
