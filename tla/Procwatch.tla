------------------------------- MODULE Procwatch ------------------------------
(***************************************************************************)
(* The classic procwatch binary (src/src/main.c) over the connection of    *)
(* DbLink and the spill queue of SpillBuffer: one prepared statement per   *)
(* run, guarded by the flag fctx.prepared, a sampling loop that writes or  *)
(* spills, and a replay of the spill into the table of the running label.  *)
(* All runs of a host share one spill file, procwatch.ndjson, and a line   *)
(* of it does not say which label it was sampled for.  A sample is its     *)
(* number.                                                                 *)
(***************************************************************************)
EXTENDS DbLink, Sequences, FiniteSets, SequencesExt

CONSTANTS
  Labels,       \* labels procwatch is run with (-l)
  MaxSamples,   \* bound: samples taken
  MaxRuns       \* bound: runs started

ASSUME ProcwatchAssumption == MaxSamples \in Nat /\ MaxRuns \in Nat

VARIABLES
  pc,         \* where main is
  caller,     \* who called ensure_prepared: "boot", "replay" or "loop"
  phase,      \* which flush runs: "boot", "loop" or "final"
  label,      \* -l of this run
  prepared,   \* fctx.prepared
  wasOffline, \* was_offline
  cur,        \* the sample at hand
  queue,      \* samples in procwatch.ndjson, oldest first
  stmt,       \* 1 if the session has the statement ins_<pid> prepared
  tables,     \* labels whose table exists
  stored,     \* samples that are rows, in the order they were inserted
  runs,       \* runs started so far
  taken,      \* history: samples taken so far
  refused,    \* history: samples pw_db_buf_spill returned -1 for
  abandoned,  \* history: samples in a batch whose replay the process exited from
  unsure      \* history: inserts that took effect but whose reply was lost

main == <<pc, caller, phase, label, prepared, wasOffline, cur>>
server == <<stmt, tables, stored>>
history == <<runs, taken, refused, abandoned, unsure>>
vars == <<main, linkVars, queue, server, history>>

Sample == 1..MaxSamples
NoSample == 0

TypeOK ==
  /\ pc \in {"table", "prepare", "sleep", "replay", "insert", "post", "sample",
             "closing", "exited", "stopped"}
  /\ caller \in {"boot", "replay", "loop"}
  /\ phase \in {"boot", "loop", "final"}
  /\ label \in Labels
  /\ prepared \in {0, 1} /\ wasOffline \in {0, 1}
  /\ cur \in Sample \cup {NoSample}
  /\ LinkTypeOK
  /\ queue \in Seq(Sample)
  /\ stmt \in {0, 1}
  /\ tables \subseteq Labels
  /\ stored \in Seq(Sample)
  /\ runs \in 0..MaxRuns
  /\ taken \in 0..MaxSamples
  /\ refused \subseteq 1..taken /\ abandoned \subseteq 1..taken
  /\ unsure \in Seq(Sample)

Init ==
  /\ pc = "stopped" /\ caller = "boot" /\ phase = "boot"
  /\ label \in Labels
  /\ prepared = 0 /\ wasOffline = 0 /\ cur = NoSample
  /\ LinkInit
  /\ queue = <<>>
  /\ stmt = 0 /\ tables = {} /\ stored = <<>>
  /\ runs = 0 /\ taken = 0 /\ refused = {} /\ abandoned = {} /\ unsure = <<>>

-------------------------------------------------------------------------------
(* exit(EXIT_FAILURE) in db.c; a batch that is being replayed is lost. *)
Exit(replaying) ==
  /\ pc' = "exited"
  /\ Closed
  /\ prepared' = 0
  /\ queue' = IF replaying THEN <<>> ELSE queue
  /\ abandoned' = IF replaying THEN abandoned \cup ToSet(queue) ELSE abandoned
  /\ UNCHANGED <<caller, phase, label, wasOffline, cur, server, runs, taken,
                 refused, unsure>>

(* main up to the loop: pw_db_buf_init, then, online, ensure_prepared. *)
Start(l) ==
  /\ pc \in {"stopped", "exited"}
  /\ runs < MaxRuns
  /\ runs' = runs + 1
  /\ label' = l
  /\ prepared' = 0
  /\ Open
  /\ stmt' = 0
  /\ pc' = IF dbUp = 1 THEN "table" ELSE "sleep"
  /\ caller' = "boot" /\ phase' = "boot"
  /\ UNCHANGED <<wasOffline, cur, queue, tables, stored, taken, refused, abandoned,
                 unsure>>

(***************************************************************************)
(* ensure_prepared with prepared = 0: db_ensure_table, then                *)
(* db_prepare_insert.  Both exit when their statement fails, and preparing *)
(* a name that the session already has is a failure.                       *)
(***************************************************************************)
EnsureTable ==
  /\ pc = "table"
  /\ \/ /\ alive = 1
        /\ tables' = tables \cup {label}
        /\ pc' = "prepare"
        /\ UNCHANGED <<caller, phase, label, prepared, wasOffline, cur, linkVars,
                       queue, stmt, stored, history>>
     \/ alive = 0 /\ Exit(caller = "replay")

CanPrepare == alive = 1 /\ stmt = 0

PrepareInsert ==
  /\ pc = "prepare"
  /\ \/ /\ CanPrepare
        /\ stmt' = 1
        /\ prepared' = 1
        /\ pc' = CASE caller = "boot" -> "replay"
                   [] caller = "replay" -> "insert"
                   [] caller = "loop" -> "sample"
        /\ UNCHANGED <<caller, phase, label, wasOffline, cur, linkVars, queue,
                       tables, stored, history>>
     \/ ~CanPrepare /\ Exit(caller = "replay")

-------------------------------------------------------------------------------
(* db_insert_sample into the running label's table. *)
CanInsert == link = "ok" /\ alive = 1 /\ stmt = 1 /\ label \in tables

(* The run is offline and the sample goes to the spill; nobody looks at    *)
(* whether pw_db_buf_spill took it.                                        *)
SpillSample(s) ==
  /\ online' = 0
  /\ \/ queue' = Append(queue, s) /\ UNCHANGED refused
     \/ refused' = refused \cup {s} /\ UNCHANGED queue
  /\ pc' = "sample"

(* pw_db_buf_flush returns; the loop then looks at the connection. *)
FlushEnd ==
  /\ pc' = CASE phase = "boot" -> "sleep"
             [] phase = "loop" -> "post"
             [] phase = "final" -> "closing"
  /\ UNCHANGED <<online, queue>>

(* A replayed line that fails stops the flush. *)
ReplayEnd ==
  /\ pc = "replay"
  /\ queue = <<>> \/ link # "ok"
  /\ FlushEnd
  /\ UNCHANGED <<caller, phase, label, prepared, wasOffline, cur, link, cool, dbUp,
                 alive, losses, server, history>>

(* Mutant of ReplaySample: nobody looks whether json_str_field found a pid. *)
ReplaySampleUnparsed ==
  /\ pc = "replay" /\ queue # <<>> /\ link = "ok"
  /\ caller' = "replay"
  /\ pc' = IF prepared = 1 THEN "insert" ELSE "table"
  /\ UNCHANGED <<phase, label, prepared, wasOffline, cur, linkVars, queue, server, history>>

(* replay_sample: ensure_prepared, then the insert. *)
ReplaySample ==
  /\ pc = "replay" /\ queue # <<>> /\ link = "ok"
  /\ cur' = Head(queue)
  /\ caller' = "replay"
  /\ pc' = IF prepared = 1 THEN "insert" ELSE "table"
  /\ UNCHANGED <<phase, label, prepared, wasOffline, linkVars, queue, server, history>>

(* Mutant of ReplayOk: the line stays in the spill. *)
ReplayOkKeepsLine ==
  /\ pc = "insert" /\ CanInsert
  /\ stored' = Append(stored, cur)
  /\ pc' = "replay"
  /\ UNCHANGED <<caller, phase, label, prepared, wasOffline, cur, linkVars, queue, stmt,
                 tables, history>>

ReplayOk ==
  /\ pc = "insert" /\ CanInsert
  /\ stored' = Append(stored, cur)
  /\ queue' = Tail(queue)
  /\ pc' = "replay"
  /\ UNCHANGED <<caller, phase, label, prepared, wasOffline, cur, linkVars, stmt,
                 tables, history>>

ReplayFail ==
  /\ pc = "insert" /\ ~CanInsert
  /\ Sent
  /\ FlushEnd
  /\ UNCHANGED <<caller, phase, label, prepared, wasOffline, cur, cool, dbUp, alive,
                 losses, server, history>>

-------------------------------------------------------------------------------
(* One round of the loop: reconnect and flush first. *)
Maintain(next, ph, elsewhere) ==
  /\ pc = next
  /\ phase' = ph
  /\ Ensure
  /\ stmt' = IF Reopened THEN 0 ELSE stmt
  /\ pc' = IF online' = 1 THEN "replay" ELSE elsewhere
  /\ UNCHANGED <<caller, label, prepared, cur, queue, tables, stored, history>>

LoopMaintain ==
  /\ Maintain("sleep", "loop", "post")
  /\ wasOffline' = 1 - online

(* Mutant of MustReprepare: a reconnect is not a reason. *)
MustReprepareOnce == online = 1 /\ prepared = 0

MustReprepare == online = 1 /\ (wasOffline = 1 \/ prepared = 0)

(* "connection may be new; re-prepare" *)
Reprepare ==
  /\ pc = "post" /\ MustReprepare
  /\ prepared' = 0
  /\ caller' = "loop"
  /\ pc' = IF link = "none" THEN "sample" ELSE "table"
  /\ UNCHANGED <<phase, label, wasOffline, cur, linkVars, queue, server, history>>

NoReprepare ==
  /\ pc = "post" /\ ~MustReprepare
  /\ pc' = "sample"
  /\ UNCHANGED <<caller, phase, label, prepared, wasOffline, cur, linkVars, queue,
                 server, history>>

(***************************************************************************)
(* One process of the tree is sampled and written, or spilled when the run *)
(* is offline or the insert fails.  A run that is online here is prepared. *)
(***************************************************************************)
Taken(s) ==
  /\ pc = "sample"
  /\ s = taken + 1
  /\ taken' = s
  /\ UNCHANGED <<caller, phase, label, prepared, wasOffline, cur, cool, dbUp, runs,
                 abandoned>>

CanWrite == online = 1 /\ prepared = 1 /\ CanInsert

(* The failed insert also shows the client that the session is gone. *)
WriteSeesLoss ==
  link' = IF online = 1 /\ prepared = 1 /\ link = "ok" /\ alive = 0 THEN "bad" ELSE link

WriteOk(s) ==
  /\ Taken(s) /\ CanWrite
  /\ stored' = Append(stored, s)
  /\ UNCHANGED <<pc, online, link, alive, losses, queue, stmt, tables, refused, unsure>>

(* Mutant of WriteFail: only an offline run spills its samples. *)
WriteFailSpillsOffline(s) ==
  /\ Taken(s) /\ ~CanWrite
  /\ WriteSeesLoss
  /\ online' = 0
  /\ queue' = IF online = 0 THEN Append(queue, s) ELSE queue
  /\ UNCHANGED <<pc, alive, losses, server, refused, unsure>>

WriteFail(s) ==
  /\ Taken(s) /\ ~CanWrite
  /\ WriteSeesLoss
  /\ SpillSample(s)
  /\ UNCHANGED <<alive, losses, server, unsure>>

(* The row is inserted, but the session ends before the reply arrives. *)
WriteReplyLost(s) ==
  /\ Taken(s) /\ CanWrite
  /\ Loss
  /\ alive' = 0 /\ link' = "bad"
  /\ stored' = Append(stored, s)
  /\ unsure' = Append(unsure, s)
  /\ SpillSample(s)
  /\ UNCHANGED <<stmt, tables>>

ReplayReplyLost ==
  /\ pc = "insert" /\ CanInsert
  /\ Loss
  /\ alive' = 0 /\ link' = "bad"
  /\ stored' = Append(stored, cur)
  /\ unsure' = Append(unsure, cur)
  /\ FlushEnd
  /\ UNCHANGED <<caller, phase, label, prepared, wasOffline, cur, cool, dbUp, stmt,
                 tables, runs, taken, refused, abandoned>>

(***************************************************************************)
(* The round ends.  Every round samples at least the root process; the     *)
(* last sample of a round is not recorded, so that rounds can go on        *)
(* forever, but its write meets the connection as any other does.  A round *)
(* takes a second or more.                                                 *)
(***************************************************************************)
RoundEnd ==
  /\ pc = "sample"
  /\ pc' = "sleep"
  /\ online' = IF CanWrite THEN online ELSE 0
  /\ WriteSeesLoss
  /\ cool' = IF cool > 0 THEN cool - 1 ELSE 0
  /\ UNCHANGED <<caller, phase, label, prepared, wasOffline, cur, dbUp, alive, losses,
                 queue, server, history>>

(* The root process is gone or -n is reached: a last flush, then the end. *)
LoopEnd ==
  /\ Maintain("sample", "final", "closing")
  /\ UNCHANGED wasOffline

Close ==
  /\ pc = "closing"
  /\ pc' = "stopped"
  /\ Closed
  /\ UNCHANGED <<caller, phase, label, prepared, wasOffline, cur, queue, server, history>>

-------------------------------------------------------------------------------
LinkEvent ==
  /\ ServerDown \/ SessionCut \/ ServerUp
  /\ UNCHANGED <<main, queue, server, history>>

(* The drop_inactive_tables job drops a table that got no row for hours;   *)
(* a run that is online writes to its own table in every round.            *)
DropInactive(l) ==
  /\ dbUp = 1 /\ l \in tables
  /\ l # label \/ online = 0
  /\ Loss
  /\ tables' = tables \ {l}
  /\ UNCHANGED <<main, buffer, dbUp, alive, queue, stmt, stored, history>>

Running ==
  \/ EnsureTable \/ PrepareInsert
  \/ ReplayEnd \/ ReplaySample \/ ReplayOk \/ ReplayFail
  \/ LoopMaintain \/ Reprepare \/ NoReprepare \/ RoundEnd \/ Close

Next ==
  \/ Running \/ LoopEnd
  \/ \E l \in Labels : Start(l) \/ DropInactive(l)
  \/ \E s \in Sample : WriteOk(s) \/ WriteFail(s) \/ WriteReplyLost(s)
  \/ ReplayReplyLost \/ LinkEvent

(* The process goes on round after round, and the server does come back. *)
Fairness ==
  /\ WF_vars(Running)
  /\ WF_vars(LinkEvent /\ ServerUp)

Spec == Init /\ [][Next]_vars /\ Fairness

-------------------------------------------------------------------------------
Ended == pc \in {"exited", "stopped"}

(* How often s occurs in q. *)
Copies(q, s) == Cardinality({i \in DOMAIN q : q[i] = s})

(***************************************************************************)
(* No sample is forgotten: each one taken is a row, or still in the spill, *)
(* unless the spill file refused it or it was in the batch being replayed  *)
(* when the process exited; and no sample is at hand, neither written nor  *)
(* spilled, when it exits.                                                 *)
(***************************************************************************)
SamplesKept ==
  1..taken \subseteq ToSet(stored) \cup ToSet(queue) \cup refused \cup abandoned

(***************************************************************************)
(* Retries do not multiply rows: beyond its first row, a sample has at     *)
(* most one more for every insert whose reply was lost.                    *)
(***************************************************************************)
CopiesBounded ==
  \A s \in ToSet(stored) : Copies(stored, s) <= 1 + Copies(unsure, s)

(***************************************************************************)
(* While a run goes on and the server is there, the spill drains, whatever *)
(* is lost on the way: the stale prepared flag only costs one round.       *)
(***************************************************************************)
DrainsWhileRunning == queue # <<>> ~> queue = <<>> \/ Ended

(***************************************************************************)
(* A run that started without a database survives getting one ("samples    *)
(* are spilled ... and flushed on reconnect", main.c line 58).             *)
(***************************************************************************)
ReconnectSurvived == pc # "exited"
===============================================================================
