---------------------------- MODULE AtomicConfig ----------------------------
(***************************************************************************)
(* What the helper promises about its settings and the configuration it    *)
(* assembles: a request takes effect at one moment, on both, or on         *)
(* neither.  There are no steps and no rollback here; ConfigStore is shown *)
(* to implement this.                                                      *)
(*                                                                         *)
(* The promise has four exceptions.  ApplyConfig puts a text from outside  *)
(* in place of the configuration.  A write that fails, and a helper that   *)
(* is killed, may leave a configuration that was being tried; the settings *)
(* are then the old ones all the same.  A recovery replaces the settings   *)
(* and leaves the configuration; one that breaks off leaves them to the    *)
(* next start, and what is assembled until then follows the old ones.      *)
(***************************************************************************)
EXTENDS Integers

CONSTANTS
  Nets,         (* values of the settings                                  *)
  Profiles,     (* texts a configuration is assembled from                 *)
  Foreign,      (* the one that is not a profile of the helper             *)
  NoConfig,     (* no configuration yet                                    *)
  MAX_FAULTS    (* bound on the writes that fail                           *)

VARIABLES
  settings,     (* what a restart would read                               *)
  loaded,       (* what the helper goes by: the same, but for a recovery   *)
  asked,        (* the settings that a request asks for: none or one       *)
  config,       (* the configuration in force                              *)
  booted,       (* the self-check after the last start is over             *)
  faults

vars == <<settings, loaded, asked, config, booted, faults>>

Under(nets) == {c \in [profile : Profiles, net : Nets] : c.net \in nets}

Init ==
  /\ settings \in Nets /\ loaded = settings /\ asked = {}
  /\ config = NoConfig /\ booted = FALSE /\ faults = 0

Ask(n) ==
  /\ asked = {} /\ asked' = {n}
  /\ UNCHANGED <<settings, loaded, config, booted, faults>>

(* Success: the settings and a configuration made with them.               *)
Grant ==
  /\ settings' \in asked /\ loaded' = settings' /\ asked' = {}
  /\ config' \in Under(asked)
  /\ UNCHANGED <<booted, faults>>

Refuse ==
  /\ asked # {} /\ asked' = {}
  /\ UNCHANGED <<settings, loaded, config, booted, faults>>

(* An import, an update, a switch, the self-check: a configuration made    *)
(* with the settings as they are.                                          *)
Renew ==
  /\ asked = {} /\ config' \in Under({loaded})
  /\ booted' \in {booted, TRUE}
  /\ UNCHANGED <<settings, loaded, asked, faults>>

SelfCheckFails ==
  /\ booted' = TRUE
  /\ UNCHANGED <<settings, loaded, asked, config, faults>>

ApplyConfig ==
  /\ asked = {}
  /\ config' \in {c \in Under(Nets) : c.profile = Foreign}
  /\ UNCHANGED <<settings, loaded, asked, booted, faults>>

(* A recovery writes other settings; the helper goes by them once it has   *)
(* read them again.                                                        *)
Recover ==
  /\ asked = {} /\ settings' \in Nets
  /\ UNCHANGED <<loaded, asked, config, booted, faults>>

Reload ==
  /\ asked = {} /\ loaded' = settings
  /\ UNCHANGED <<settings, asked, config, booted, faults>>

(* The configuration that was being tried stays, or does not.              *)
Unsettled == config' \in {config} \cup Under({loaded} \cup asked)

WriteFails ==
  /\ faults < MAX_FAULTS /\ faults' = faults + 1
  /\ Unsettled /\ asked' \in {asked, {}}
  /\ UNCHANGED <<settings, loaded, booted>>

Killed ==
  /\ booted' = FALSE /\ asked' = {}
  /\ Unsettled /\ loaded' = settings
  /\ UNCHANGED <<settings, faults>>

Next ==
  \/ \E n \in Nets : Ask(n)
  \/ Grant \/ Refuse \/ Renew \/ SelfCheckFails \/ ApplyConfig
  \/ Recover \/ Reload \/ WriteFails \/ Killed

Spec == Init /\ [][Next]_vars
=============================================================================
