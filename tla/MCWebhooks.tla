------------------------------ MODULE MCWebhooks -------------------------------
(* The instance of Webhooks that TLC checks: dispatchers are interchangeable in   *)
(* the code, but liveness is checked, so no symmetry is used.                   *)
EXTENDS Webhooks
================================================================================
