------------------------------ MODULE MCClient ------------------------------
(* Small instances of Client for TLC. *)
EXTENDS Client

\* One operation of every shape: another name for a call, such as Rename
\* beside Move or TunOff beside TunForce, adds no interleaving.
MCKinds == {"Switch", "Remove", "Update", "Import", "Select", "Move",
            "StopCore", "TunOn", "TunForce", "CleanupTun", "BackupRestore"}

\* One of the profiles, which is current; the other comes by an import.
MCStarts == {CHOOSE q \in Orders(UIDS) : Len(q) = 1}
=============================================================================
