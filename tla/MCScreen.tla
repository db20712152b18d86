------------------------------ MODULE MCScreen ------------------------------
(* A small instance of Screen for TLC. *)
EXTENDS Screen

\* All switches off, or all on.
MCAnswers == {[r \in SettingRows |-> b] : b \in BOOLEAN}
=============================================================================
