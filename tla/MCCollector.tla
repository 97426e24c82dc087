---------------------------- MODULE MCCollector ----------------------------
(* Instances of Collector for TLC. *)
EXTENDS Collector

ThreeCores == 0 .. 2
=============================================================================
