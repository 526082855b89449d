-------------------------- MODULE MCRiskProcessing --------------------------
(***************************************************************************)
(* A small instance of RiskProcessing for TLC.                             *)
(***************************************************************************)
EXTENDS RiskProcessing

CONSTANTS a, b, c, p1, low, high

\* c says what a says.
MCVerdict == [m \in Model |-> [p \in Payload |-> IF m = b THEN high ELSE low]]

\* Bounds: the first model is a, and where the model changes or a target date is
\* ahead, one version is committed; where the model changes, in one day.
SwitchBound ==
  /\ switches > 0 => day = 1
  /\ switches > 0 \/ job.target > day => Len(rows) <= 1

MCSpec == Init /\ model = a /\ [][Next /\ SwitchBound']_vars /\ Fairness
=============================================================================
