----------------------------- MODULE MCInstall -----------------------------
(* An instance of Install for TLC: FLOWS is not made symmetric, since the  *)
(* run checks a liveness property.                                         *)
EXTENDS Install
=============================================================================
