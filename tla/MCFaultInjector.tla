-------------------------- MODULE MCFaultInjector --------------------------
(* Fault configurations for model checking: a lossless reorder, and a burst    *)
(* whose last packet has the largest sequence number.                        *)
EXTENDS FaultInjector

ReorderOnly ==
  [enabled : {TRUE}, lossPeriod : {0}, burstStart : {0}, burstLength : {0}, distance : {1, 2}, jump : {0}, skew : {0}]

BurstToTheEnd ==
  [enabled : {TRUE}, lossPeriod : {0}, burstStart : {8}, burstLength : {1, 2}, distance : {0}, jump : {0}, skew : {0}]
=============================================================================
