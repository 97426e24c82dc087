--------------------------- MODULE MCAlertManager ---------------------------
(* Instances of AlertManager for TLC: alerts that share a name or do not, and *)
(* two callbacks of which the first may throw.                               *)
EXTENDS AlertManager, TLC

MCNames == <<"cpu", "mem", "cpu">>
TwoNames == <<"cpu", "mem">>
MCCallbacks == <<"database", "mail">>
=============================================================================
