----------------------------- MODULE MCSpillBuffer ----------------------------
(***************************************************************************)
(* Instances of SpillBuffer for TLC; each cfg chooses which faults happen. *)
(***************************************************************************)
EXTENDS SpillBuffer

(* Calls that fail and leave everything where it was. *)
CleanFaults == {"append", "claim", "open"}

(* Also those that hand a half-replayed batch back. *)
RewindFaults == CleanFaults \cup {"restopen", "restclose"}

(* Crashes and failing calls that leave a batch behind, or part of it. *)
AbandonFaults == CleanFaults \cup {"crash", "restore", "handback", "read"}

===============================================================================
