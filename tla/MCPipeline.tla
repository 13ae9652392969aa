----------------------------- MODULE MCPipeline -----------------------------
(* Fault configurations and acceptance profiles for model checking.           *)
EXTENDS Acceptance

Mixed ==
  [enabled : BOOLEAN, lossPeriod : {0, 1, 3}, burstStart : {1, 4}, burstLength : {0, 2},
   distance : 0 .. 2, jump : {0, 4}, skew : {-1, 0, 1}, extra : {0, 1}, kdelay : {0, 2}]

Quiet ==
  [enabled : {FALSE}, lossPeriod : {0}, burstStart : {0}, burstLength : {0},
   distance : {0}, jump : {0}, skew : {0}, extra : {0}, kdelay : {0}]

\* The last symbol of every stream is lost: no gap follows it.
LostAtTheEnd ==
  [enabled : {TRUE}, lossPeriod : {0}, burstStart : {4}, burstLength : {1},
   distance : {0}, jump : {0}, skew : {0}, extra : {0}, kdelay : {0}]

\* Strict and lax in packets, gaps and health; the bandwidth is enough or not.
Gates ==
  [minBandwidth : {25}, minPackets : {8, 10}, maxP99 : {6, 7}, maxGaps : {0, 1}, maxLate : {1},
   maxSymbolMiss : {2}, requireNormal : BOOLEAN]
  \cup [minBandwidth : {25, 100}, minPackets : {0}, maxP99 : 5 .. 8, maxGaps : {9}, maxLate : {9},
        maxSymbolMiss : {9}, requireNormal : {FALSE}]
=============================================================================
