---------------------------- MODULE MCRudpChannel ----------------------------
(* Instances of RudpChannel for TLC: only end A sends, or both do; the      *)
(* window of A moves, or stays at its smallest.                             *)
EXTENDS RudpChannel

OneWay2  == (A :> 2) @@ (B :> 0)
OneWay3  == (A :> 3) @@ (B :> 0)
Duplex21 == (A :> 2) @@ (B :> 1)

Windows11 == (A :> {1}) @@ (B :> {1})
Windows21 == (A :> {2}) @@ (B :> {1})
Windows12 == (A :> {1, 2}) @@ (B :> {1})
Windows13 == (A :> {1, 3}) @@ (B :> {1})
=============================================================================
