--------------------------- MODULE MCConfigStore ---------------------------
EXTENDS ConfigStore, TLC

(* The second version does not assemble under one of the settings.         *)
MCRejected == {<<2, n>> : n \in {CHOOSE x \in Nets : TRUE}}

(* Archives of a helper that had no profile; what adds one is an import.   *)
MCArchived == {[current |-> NoUrl, items |-> {}]}

(* The subscriptions are alike.                                            *)
MCSymmetry == Permutations(Urls)
=============================================================================
