----------------------------- MODULE SpillBuffer ------------------------------
(***************************************************************************)
(* The offline spill of src/src/db_buffer.c as one process uses it: the    *)
(* spill file and its two companions (.flushing, .rest), the connection    *)
(* flag, and pw_db_buf_flush cut at every call that changes a file, so     *)
(* that a crash can fall between any two of them.                          *)
(*                                                                         *)
(* A file is the sequence of its lines.  A missing file and an empty one   *)
(* are both <<>>: a flush that claims an empty file ends with the same two *)
(* unlinks as a flush that finds none.  A record is the number of its      *)
(* creation, so the order of records is the order of numbers.              *)
(***************************************************************************)
EXTENDS Naturals, Sequences, SequencesExt

CONSTANTS
  MaxRecords,         \* bound: records created
  MaxFaults,          \* bound: crashes and failing calls
  ReconnectInterval,  \* reconnect_interval_sec
  Faults              \* which of FaultKinds may happen

(***************************************************************************)
(* The calls of db_buffer.c that can fail, and "crash", the process dying  *)
(* between two of them.                                                    *)
(***************************************************************************)
FaultKinds ==
  {"append", "claim", "open", "read", "restopen", "restclose", "handback", "restore",
   "crash"}

ASSUME ConstantsAssumption ==
  /\ MaxRecords \in Nat
  /\ MaxFaults \in Nat
  /\ ReconnectInterval \in Nat \ {0}
  /\ Faults \subseteq FaultKinds

VARIABLES
  spill,      \* lines of spill_path
  flushing,   \* lines of spill_path.flushing
  rest,       \* lines of spill_path.rest
  pos,        \* lines of .flushing the replay loop has consumed
  pc,         \* where the process is in pw_db_buf_flush
  online,     \* pw_db_buf_t.online
  link,       \* PQstatus: "ok", "bad", or "none" for conn == NULL
  cool,       \* seconds until a reconnect may be tried again
  faults,     \* faults so far
  created,    \* records created so far
  accepted,   \* history: records pw_db_buf_spill returned 0 for
  delivered,  \* history: records whose replay callback returned 0
  claimed     \* history: records of a batch that a fault abandoned or cut short

files == <<spill, flushing, rest>>
conn == <<online, link, cool>>
history == <<accepted, delivered, claimed>>
vars == <<files, pos, pc, conn, faults, created, history>>

Record == 1..MaxRecords

(* "idle" is outside of a flush; "down" is no process at all. *)
Step == {"idle", "open", "drain", "save", "merge", "unlink", "restore",
         "cleanup", "down"}

TypeOK ==
  /\ spill \in Seq(Record)
  /\ flushing \in Seq(Record)
  /\ rest \in Seq(Record)
  /\ pos \in 0..Len(flushing)
  /\ pc \in Step
  /\ online \in {0, 1}
  /\ link \in {"ok", "bad", "none"}
  /\ cool \in 0..ReconnectInterval
  /\ faults \in 0..MaxFaults
  /\ created \in 0..MaxRecords
  /\ accepted \in Seq(Record)
  /\ delivered \in Seq(Record)
  /\ claimed \subseteq Record

(* pw_db_buf_init: one connection attempt decides whether we are online. *)
Connect(up) ==
  /\ online' = up
  /\ link' = IF up = 1 THEN "ok" ELSE "none"
  /\ cool' = 0

Init ==
  /\ spill = <<>> /\ flushing = <<>> /\ rest = <<>>
  /\ pos = 0
  /\ pc = "idle"
  /\ \E up \in {0, 1} : online = up /\ link = IF up = 1 THEN "ok" ELSE "none"
  /\ cool = 0
  /\ faults = 0
  /\ created = 0
  /\ accepted = <<>> /\ delivered = <<>>
  /\ claimed = {}

(* A fault of kind k happens now. *)
Fault(k) ==
  /\ k \in Faults
  /\ faults < MaxFaults
  /\ faults' = faults + 1

(* Rename the claim back over the spill file (lines 150, 174 and 187). *)
HandBack ==
  /\ spill' = flushing
  /\ flushing' = <<>>
  /\ pos' = 0
  /\ pc' = "idle"

(* The companion files stay where they are, and no code reads them again. *)
Abandon ==
  /\ claimed' = claimed \cup ToSet(flushing) \cup ToSet(rest)
  /\ pos' = 0

-------------------------------------------------------------------------------
(***************************************************************************)
(* pw_db_buf_spill: append one line, or count it as dropped and return -1. *)
(***************************************************************************)
SpillOk ==
  /\ pc = "idle"
  /\ created < MaxRecords
  /\ created' = created + 1
  /\ spill' = Append(spill, created + 1)
  /\ accepted' = Append(accepted, created + 1)
  /\ UNCHANGED <<flushing, rest, pos, pc, conn, faults, delivered, claimed>>

SpillFail ==
  /\ pc = "idle"
  /\ created < MaxRecords
  /\ Fault("append")
  /\ created' = created + 1
  /\ UNCHANGED <<files, pos, pc, conn, history>>

(***************************************************************************)
(* pw_db_buf_ensure.  A live connection puts us online; otherwise we are   *)
(* offline until a reconnect, tried at most once per ReconnectInterval,    *)
(* succeeds.  db_reconnect leaves conn == NULL when it fails.              *)
(***************************************************************************)
EnsureAlive ==
  /\ pc = "idle"
  /\ link = "ok"
  /\ online' = 1
  /\ UNCHANGED <<files, pos, pc, link, cool, faults, created, history>>

EnsureTooSoon ==
  /\ pc = "idle"
  /\ link # "ok"
  /\ cool > 0
  /\ online' = 0
  /\ UNCHANGED <<files, pos, pc, link, cool, faults, created, history>>

EnsureReconnect(up) ==
  /\ pc = "idle"
  /\ link # "ok"
  /\ cool = 0
  /\ cool' = ReconnectInterval
  /\ online' = up
  /\ link' = IF up = 1 THEN "ok" ELSE "none"
  /\ UNCHANGED <<files, pos, pc, faults, created, history>>

(* A caller's own insert fails and clears online (agentd.c mark_offline,   *)
(* main.c line 319); the connection may or may not be gone with it.        *)
MarkOffline ==
  /\ pc = "idle"
  /\ online = 1
  /\ online' = 0
  /\ link' \in {link, "bad"}
  /\ UNCHANGED <<files, pos, pc, cool, faults, created, history>>

(* A second passes. *)
Tick ==
  /\ pc = "idle"
  /\ cool > 0
  /\ cool' = cool - 1
  /\ UNCHANGED <<files, pos, pc, online, link, faults, created, history>>

-------------------------------------------------------------------------------
(***************************************************************************)
(* pw_db_buf_flush, one action per call that changes a file.               *)
(***************************************************************************)
CanFlush == pc = "idle" /\ online = 1 /\ link = "ok"

(* online, but the connection is already known to be gone (line 129). *)
FlushLinkBad ==
  /\ pc = "idle" /\ online = 1 /\ link = "bad"
  /\ online' = 0
  /\ UNCHANGED <<files, pos, pc, link, cool, faults, created, history>>

(* rename(spill, .flushing) replaces any older claim. *)
FlushClaim ==
  /\ CanFlush
  /\ spill # <<>>
  /\ flushing' = spill
  /\ spill' = <<>>
  /\ pos' = 0
  /\ pc' = "open"
  /\ UNCHANGED <<rest, conn, faults, created, history>>

(* Mutant of FlushNothing: a left-over claim is taken for unsent records. *)
FlushNothingRecovers ==
  /\ CanFlush
  /\ spill = <<>>
  /\ spill' = flushing
  /\ flushing' = <<>>
  /\ rest' = <<>>
  /\ pos' = 0
  /\ UNCHANGED <<pc, conn, faults, created, history>>

(* ENOENT: nothing to flush, and both companions are unlinked as stale. *)
FlushNothing ==
  /\ CanFlush
  /\ spill = <<>>
  /\ flushing' = <<>>
  /\ rest' = <<>>
  /\ pos' = 0
  /\ UNCHANGED <<spill, pc, conn, faults, created, history>>

FlushClaimFail ==
  /\ CanFlush
  /\ Fault("claim")
  /\ UNCHANGED <<files, pos, pc, conn, created, history>>

FlushOpen ==
  /\ pc = "open"
  /\ pc' = "drain"
  /\ UNCHANGED <<files, pos, conn, faults, created, history>>

FlushOpenFail ==
  /\ pc = "open"
  /\ Fault("open")
  /\ HandBack
  /\ UNCHANGED <<rest, conn, created, history>>

(* The rename back fails as well; nobody looks at its result.  After a     *)
(* failing fclose .rest is unlinked all the same.                          *)
FlushHandBackFail ==
  /\ \/ pc \in {"open", "save"} /\ UNCHANGED rest
     \/ pc = "save" /\ rest' = <<>>
  /\ Fault("handback")
  /\ Abandon
  /\ pc' = "idle"
  /\ UNCHANGED <<spill, flushing, conn, created, accepted, delivered>>

(* The callback takes the line into the database. *)
FlushReplayOk ==
  /\ pc = "drain"
  /\ pos < Len(flushing)
  /\ link = "ok"
  /\ delivered' = Append(delivered, flushing[pos + 1])
  /\ pos' = pos + 1
  /\ UNCHANGED <<files, pc, conn, faults, created, accepted, claimed>>

(* The callback fails: a statement error, or the connection is lost.  The  *)
(* flush stops but leaves online alone.                                    *)
FlushReplayFail ==
  /\ pc = "drain"
  /\ pos < Len(flushing)
  /\ link' \in {link, "bad"}
  /\ pc' = "save"
  /\ UNCHANGED <<files, pos, online, cool, faults, created, history>>

(* getline fails before the end of the claim, which the loop takes for its *)
(* end: what was not read is unlinked with the rest.                       *)
FlushReadFail ==
  /\ pc = "drain"
  /\ pos < Len(flushing)
  /\ Fault("read")
  /\ Abandon
  /\ flushing' = <<>> /\ rest' = <<>>
  /\ pc' = "idle"
  /\ UNCHANGED <<spill, conn, created, accepted, delivered>>

(* Mutant of FlushSaveRest: the line that failed is written without its    *)
(* newline, and the next one joins it to a line that is no record.         *)
FlushSaveRestJoined ==
  /\ pc = "save"
  /\ rest' = IF Len(flushing) - pos < 2 THEN SubSeq(flushing, pos + 1, Len(flushing))
             ELSE <<MaxRecords + 1>> \o SubSeq(flushing, pos + 3, Len(flushing))
  /\ pc' = "merge"
  /\ UNCHANGED <<spill, flushing, pos, conn, faults, created, history>>

(* Mutant of FlushSaveRest: .rest starts behind the line that failed. *)
FlushSaveRestLate ==
  /\ pc = "save"
  /\ rest' = SubSeq(flushing, pos + 2, Len(flushing))
  /\ pc' = "merge"
  /\ UNCHANGED <<spill, flushing, pos, conn, faults, created, history>>

(* .rest receives the failed line and every line after it. *)
FlushSaveRest ==
  /\ pc = "save"
  /\ rest' = SubSeq(flushing, pos + 1, Len(flushing))
  /\ pc' = "merge"
  /\ UNCHANGED <<spill, flushing, pos, conn, faults, created, history>>

(* getline fails while .rest is written, which therefore ends early. *)
FlushSaveRestCut ==
  /\ pc = "save"
  /\ Fault("read")
  /\ \E n \in pos + 1 .. Len(flushing) : rest' = SubSeq(flushing, pos + 1, n)
  /\ claimed' = claimed \cup ToSet(flushing)
  /\ pc' = "merge"
  /\ UNCHANGED <<spill, flushing, pos, conn, created, accepted, delivered>>

(* .rest cannot be opened: the whole claim is handed back, the consumed    *)
(* lines with it.                                                          *)
FlushRestOpenFail ==
  /\ pc = "save"
  /\ Fault("restopen")
  /\ HandBack
  /\ UNCHANGED <<rest, conn, created, history>>

(* Mutant of FlushRestCloseFail: the failing fclose is ignored. *)
FlushRestCloseIgnored ==
  /\ pc = "save"
  /\ Fault("restclose")
  /\ rest' = <<>>
  /\ pc' = "merge"
  /\ UNCHANGED <<spill, flushing, pos, conn, created, history>>

(* .rest cannot be completed: hand the claim back and unlink .rest. *)
FlushRestCloseFail ==
  /\ pc = "save"
  /\ Fault("restclose")
  /\ HandBack
  /\ rest' = <<>>
  /\ UNCHANGED <<conn, created, history>>

(* Lines spilled since the claim are appended behind the saved ones. *)
FlushMerge ==
  /\ pc = "merge"
  /\ rest' = rest \o spill
  /\ pc' = "unlink"
  /\ UNCHANGED <<spill, flushing, pos, conn, faults, created, history>>

FlushUnlinkSpill ==
  /\ pc = "unlink"
  /\ spill' = <<>>
  /\ pc' = "restore"
  /\ UNCHANGED <<flushing, rest, pos, conn, faults, created, history>>

FlushRestore ==
  /\ pc = "restore"
  /\ spill' = rest
  /\ rest' = <<>>
  /\ pc' = "cleanup"
  /\ UNCHANGED <<flushing, pos, conn, faults, created, history>>

(* "Leave .rest and .flushing for manual recovery." *)
FlushRestoreFail ==
  /\ pc = "restore"
  /\ Fault("restore")
  /\ Abandon
  /\ pc' = "idle"
  /\ UNCHANGED <<files, conn, created, accepted, delivered>>

FlushCleanup ==
  /\ pc = "cleanup"
  /\ flushing' = <<>>
  /\ pos' = 0
  /\ pc' = "idle"
  /\ UNCHANGED <<spill, rest, conn, faults, created, history>>

(* Every line was consumed: unlink the claim and any .rest. *)
FlushDone ==
  /\ pc = "drain"
  /\ pos = Len(flushing)
  /\ flushing' = <<>>
  /\ rest' = <<>>
  /\ pos' = 0
  /\ pc' = "idle"
  /\ UNCHANGED <<spill, conn, faults, created, history>>

Flush ==
  \/ FlushLinkBad \/ FlushClaim \/ FlushNothing \/ FlushClaimFail
  \/ FlushOpen \/ FlushOpenFail \/ FlushHandBackFail
  \/ FlushReplayOk \/ FlushReplayFail \/ FlushReadFail
  \/ FlushSaveRest \/ FlushSaveRestCut \/ FlushRestOpenFail \/ FlushRestCloseFail
  \/ FlushMerge \/ FlushUnlinkSpill \/ FlushRestore \/ FlushRestoreFail
  \/ FlushCleanup \/ FlushDone

-------------------------------------------------------------------------------
(* The process stops in good order, outside of a flush (pw_db_buf_close). *)
Close ==
  /\ pc = "idle"
  /\ pc' = "down"
  /\ online' = 0
  /\ link' = "none"
  /\ cool' = 0
  /\ UNCHANGED <<files, pos, faults, created, history>>

(* The process dies anywhere; only the files survive. *)
Crash ==
  /\ pc # "down"
  /\ Fault("crash")
  /\ Abandon
  /\ pc' = "down"
  /\ online' = 0
  /\ link' = "none"
  /\ cool' = 0
  /\ UNCHANGED <<files, created, accepted, delivered>>

(* Mutant of Restart: the spill file is truncated when it is first opened. *)
RestartTruncates ==
  /\ pc = "down"
  /\ \E up \in {0, 1} : Connect(up)
  /\ pc' = "idle"
  /\ spill' = <<>>
  /\ UNCHANGED <<flushing, rest, pos, faults, created, history>>

Restart ==
  /\ pc = "down"
  /\ \E up \in {0, 1} : Connect(up)
  /\ pc' = "idle"
  /\ UNCHANGED <<files, pos, faults, created, history>>

Next ==
  \/ SpillOk \/ SpillFail
  \/ EnsureAlive \/ EnsureTooSoon \/ \E up \in {0, 1} : EnsureReconnect(up)
  \/ MarkOffline \/ Tick
  \/ Flush
  \/ Close \/ Crash \/ Restart

Spec == Init /\ [][Next]_vars

-------------------------------------------------------------------------------
(***************************************************************************)
(* The records a continued run would still replay, in order: what is left  *)
(* of the claim, then the spill file.  From "merge" on, .rest stands for   *)
(* the claim; from "cleanup" on, everything is back in the spill file.     *)
(***************************************************************************)
Backlog ==
  CASE pc \in {"open", "drain", "save"} ->
         SubSeq(flushing, pos + 1, Len(flushing)) \o spill
    [] pc = "merge" -> rest \o spill
    [] pc \in {"unlink", "restore"} -> rest
    [] OTHER -> spill

(* s is the end of t. *)
Ends(s, t) ==
  /\ Len(s) <= Len(t)
  /\ \A i \in 1..Len(s) : s[i] = t[Len(t) - Len(s) + i]

(***************************************************************************)
(* Nothing is lost: the accepted records are, in order, some that reached  *)
(* the database followed by exactly the backlog.  The "flush the spill in  *)
(* order once the database is back" of README.md, for runs without a crash *)
(* in which every rename behind a claim and every read of it succeeds.     *)
(***************************************************************************)
NothingLost ==
  /\ Ends(Backlog, accepted)
  /\ \A i \in 1..Len(accepted) - Len(Backlog) : accepted[i] \in ToSet(delivered)

(***************************************************************************)
(* Why NothingLost is inductive: nobody appends to the spill file between  *)
(* a claim and its restore, and a claim handed back whole is still the end *)
(* of what was accepted.                                                   *)
(***************************************************************************)
NothingLostInv ==
  /\ NothingLost
  /\ pc \in {"open", "drain", "save", "merge", "unlink", "restore"} => spill = <<>>
  /\ pc \in {"open", "drain", "save"} => Ends(flushing, accepted)

(* s is strictly increasing. *)
Increasing(s) == \A i, j \in 1..Len(s) : i < j => s[i] < s[j]

(***************************************************************************)
(* Nothing is replayed twice or out of order: what was delivered and what  *)
(* still will be are together strictly increasing.  Holds whatever crashes *)
(* or fails, as long as .rest can be written: a batch that is half         *)
(* replayed is never replayed from its start again.                        *)
(***************************************************************************)
AtMostOnceInOrder ==
  /\ Increasing(delivered)
  /\ Increasing(Backlog)
  /\ \A i \in 1..Len(delivered), j \in 1..Len(Backlog) : delivered[i] < Backlog[j]

(* No record is delivered or queued before it was created. *)
NumberedSoFar ==
  /\ \A i \in 1..Len(delivered) : delivered[i] <= created
  /\ \A i \in 1..Len(Backlog) : Backlog[i] <= created

(***************************************************************************)
(* Why AtMostOnceInOrder is inductive: a crash finds nothing in the spill  *)
(* file while a batch is claimed, and a claim is only handed back          *)
(* untouched.                                                              *)
(***************************************************************************)
AtMostOnceInv ==
  /\ AtMostOnceInOrder
  /\ NumberedSoFar
  /\ pc \in {"open", "drain", "save", "merge", "unlink", "restore"} => spill = <<>>
  /\ pc = "open" => pos = 0

(***************************************************************************)
(* Whatever fails, only records of the batch that was being flushed are    *)
(* lost: every accepted record is delivered, still in the backlog, or was  *)
(* in .flushing or .rest when a fault abandoned them or cut them short.    *)
(* Records that merely wait in the spill file survive every fault.         *)
(***************************************************************************)
LossConfinedToClaim ==
  ToSet(accepted) \subseteq ToSet(delivered) \cup ToSet(Backlog) \cup claimed

(***************************************************************************)
(* The abstract queue this component implements.                           *)
(***************************************************************************)
Queue == INSTANCE SpillQueue WITH
           queue <- Backlog,
           MayRewind <- {"restopen", "restclose"} \cap Faults # {}

(* Every step of the spill files is a step of the FIFO queue, or none. *)
ImplementsQueue == Queue!Spec
===============================================================================
