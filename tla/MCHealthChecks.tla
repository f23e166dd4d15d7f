----------------------------- MODULE MCHealthChecks -----------------------------
(***************************************************************************)
(* The health checks for TLC: two keys, two publications, a channel of one *)
(* update (so that updates are lost), one check that dies by itself and a  *)
(* shutdown at any time.                                                   *)
(***************************************************************************)
EXTENDS HealthChecks
================================================================================
