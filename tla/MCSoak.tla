------------------------------- MODULE MCSoak -------------------------------
(* Round outcomes for model checking: on, just over and far over each         *)
(* threshold.                                                               *)
EXTENDS Soak

Good == [packets |-> 4, gap |-> 0, miss |-> 0, symMiss |-> 0, drop |-> 0, rx |-> 8, latLast |-> 1,
         latMax |-> 1, stall |-> 0, fails |-> FALSE]

Rounds1 ==
  { Good,
    [Good EXCEPT !.miss = 1, !.symMiss = 1, !.latMax = 2, !.drop = 1, !.rx = 10],    \* on the limits
    [Good EXCEPT !.gap = 1],
    [Good EXCEPT !.gap = 2],
    [Good EXCEPT !.miss = 2, !.symMiss = 2], [Good EXCEPT !.miss = 5, !.symMiss = 1],
    [Good EXCEPT !.latMax = 3], [Good EXCEPT !.latLast = 5, !.latMax = 5],
    [Good EXCEPT !.stall = 1],
    [Good EXCEPT !.drop = 1], [Good EXCEPT !.drop = 9],
    [Good EXCEPT !.packets = 0, !.rx = 0, !.drop = 4],
    [Good EXCEPT !.fails = TRUE] }
=============================================================================
