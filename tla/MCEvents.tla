------------------------------ MODULE MCEvents ------------------------------
(* An instance of Events for TLC: FETCHES is not made symmetric, since the *)
(* run checks a liveness property.                                         *)
EXTENDS Events
=============================================================================
