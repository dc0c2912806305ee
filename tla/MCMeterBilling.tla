---------------------------- MODULE MCMeterBilling ----------------------------
(* Constants of the model-checked instances of MeterBilling. *)
EXTENDS MeterBilling

\* The debt threshold: a meter may be charged one unit below zero.
Floor == -1

===============================================================================
