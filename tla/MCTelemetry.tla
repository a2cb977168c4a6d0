----------------------------- MODULE MCTelemetry -----------------------------
(***************************************************************************)
(* A small instance of Telemetry: two alarm levels of one process          *)
(* variable; one tag in both forms of the watchers; two alarms to diagnose;*)
(* two tags for the detector, one retained and one in the residual;        *)
(* windows of three tags, each still, or moving early, late, up, down or   *)
(* hard; two questions about one machine, the second with a document as    *)
(* well; one stage of one to three workers.                                *)
(***************************************************************************)
EXTENDS Telemetry

CONSTANTS q1, q2, pump, report

Reactions == {<<0, 0, 0>>, <<5, 5, 0>>, <<0, 5, 9>>, <<-5, -16, 0>>, <<0, -5, -5>>}

MCBefore(s, t) == s < t
MCWindows == [1..3 -> Reactions]
MCCites == [q \in {q1, q2} |-> IF q = q1 THEN {pump} ELSE {pump, report}]
MCAlike == {<<q1, q1>>, <<q2, q2>>}

=============================================================================
