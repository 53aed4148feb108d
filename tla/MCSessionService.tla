-------------------------- MODULE MCSessionService --------------------------
(* Small instances of SessionService.                                      *)
EXTENDS SessionService

(* Below the memory threshold, between the thresholds, and past the gate.  *)
MCScores == {0, 7000, 8500}

MCGateScores == {0, 8500}

=============================================================================
