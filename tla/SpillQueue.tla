------------------------------ MODULE SpillQueue ------------------------------
(***************************************************************************)
(* What db_buffer.h promises of the local spill, without files: records    *)
(* are appended in order, "replay spill file FIFO", and the consumed       *)
(* prefix is removed.  A replay that cannot save its remainder hands the   *)
(* batch back, so a consumed prefix may be offered again (at least once);  *)
(* with MayRewind = FALSE the spill is an exactly-once FIFO queue.         *)
(***************************************************************************)
EXTENDS Naturals, Sequences

CONSTANTS
  Record,     \* what the callers spill
  MayRewind   \* whether a batch may be handed back after a partial replay

VARIABLES
  accepted,   \* every record pw_db_buf_spill returned 0 for, in order
  queue,      \* the records still to be replayed, in order
  delivered   \* every successful replay, in order

qvars == <<accepted, queue, delivered>>

Init ==
  /\ accepted = <<>>
  /\ queue = <<>>
  /\ delivered = <<>>

(* A record is appended to the spill. *)
Enqueue ==
  /\ \E r \in Record :
       /\ accepted' = Append(accepted, r)
       /\ queue' = Append(queue, r)
  /\ UNCHANGED delivered

(* The oldest record is replayed into the database. *)
Deliver ==
  /\ queue # <<>>
  /\ delivered' = Append(delivered, Head(queue))
  /\ queue' = Tail(queue)
  /\ UNCHANGED accepted

(* The consumed records of a batch are queued again, in their old order. *)
Rewind ==
  /\ MayRewind
  /\ \E i \in 1..Len(accepted) + 1 :
       /\ Len(accepted) + 1 - i >= Len(queue)
       /\ queue' = SubSeq(accepted, i, Len(accepted))
  /\ UNCHANGED <<accepted, delivered>>

Next == Enqueue \/ Deliver \/ Rewind

Spec == Init /\ [][Next]_qvars
===============================================================================
