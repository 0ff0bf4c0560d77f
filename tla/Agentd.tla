-------------------------------- MODULE Agentd --------------------------------
(***************************************************************************)
(* procwatch-agentd's path from an accepted record to a row: the writers   *)
(* and the main loop of src/src/agent/agentd.c, the label cache and the    *)
(* prepared statements of db_otlp.c, over the connection of DbLink.         *)
(*                                                                         *)
(* The spill is used through what SpillBuffer is shown to implement, the   *)
(* queue of SpillQueue without rewinds.  A process that exits while it     *)
(* replays leaves the claimed batch behind, which no later run reads.      *)
(* Statements are prepared per session.                                    *)
(***************************************************************************)
EXTENDS DbLink, Sequences, FiniteSets, SequencesExt

CONSTANTS
  Labels,             \* valid labels the clients use
  Kinds,              \* a subset of AllKinds
  CacheMax,           \* LABEL_CACHE_MAX
  MaxRecords,         \* bound: records received
  LossyFlush          \* 1 if losses may also fall into a flush

(* A badspan is a span whose attributes are not JSON: cut at the end of     *)
(* their buffer, or with a number printed as nan (otlp_common.c line 212).  *)
AllKinds == {"metric", "span", "otelmetric", "badspan"}

ASSUME AgentdAssumption ==
  /\ Kinds \subseteq AllKinds
  /\ CacheMax \in Nat \ {0}
  /\ MaxRecords \in Nat
  /\ LossyFlush \in {0, 1}

VARIABLES
  pc,         \* where the single thread is
  ctx,        \* "write" or "replay": who called into db_otlp.c
  phase,      \* which flush runs: "boot", "first", "second" or "final"
  cur,        \* the record at hand
  wasOffline, \* was_offline of the main loop
  cache,      \* labels ready in g_labels
  queue,      \* records in the spill, oldest first
  stmts,      \* labels whose statements that session has prepared
  tables,     \* labels whose tables exist
  stored,     \* rows, in the order they were inserted
  received,   \* history: records received so far
  acked,      \* history: records answered with 200
  refused,    \* history: records pw_db_buf_spill returned -1 for
  abandoned,  \* history: records in a batch whose replay the process exited from
  unsure      \* history: inserts that took effect but whose reply was lost

agent == <<pc, ctx, phase, cur, wasOffline>>
server == <<stmts, tables, stored>>
history == <<received, acked, refused, abandoned, unsure>>
vars == <<agent, linkVars, cache, queue, server, history>>

Record == [id : 1..MaxRecords, kind : Kinds, label : Labels]
NoRecord == [id |-> 0, kind |-> "none", label |-> "none"]

TypeOK ==
  /\ pc \in {"boot", "serve", "replay", "label", "prepare", "insert", "setup",
             "closing", "exited", "stopped"}
  /\ ctx \in {"write", "replay"}
  /\ phase \in {"boot", "first", "second", "final"}
  /\ cur \in Record \cup {NoRecord}
  /\ wasOffline \in {0, 1}
  /\ LinkTypeOK
  /\ cache \subseteq Labels /\ Cardinality(cache) <= CacheMax
  /\ queue \in Seq(Record)
  /\ stmts \subseteq Labels /\ tables \subseteq Labels
  /\ stored \in Seq(Record)
  /\ received \in 0..MaxRecords
  /\ acked \subseteq Record /\ refused \subseteq acked
  /\ abandoned \subseteq Record
  /\ unsure \in Seq(Record)

Init ==
  /\ pc = "stopped" /\ ctx = "write" /\ phase = "boot" /\ cur = NoRecord
  /\ wasOffline = 0
  /\ LinkInit
  /\ cache = {} /\ queue = <<>>
  /\ stmts = {} /\ tables = {} /\ stored = <<>>
  /\ received = 0 /\ acked = {} /\ refused = {} /\ abandoned = {} /\ unsure = <<>>

-------------------------------------------------------------------------------
(***************************************************************************)
(* exit(EXIT_FAILURE) in db.c.  A batch that is being replayed is lost:    *)
(* its claim is unlinked or overwritten by the next run's first flush.     *)
(***************************************************************************)
Exit(replaying) ==
  /\ pc' = "exited"
  /\ Closed
  /\ cache' = {}
  /\ queue' = IF replaying THEN <<>> ELSE queue
  /\ abandoned' = IF replaying THEN abandoned \cup ToSet(queue) ELSE abandoned
  /\ UNCHANGED <<ctx, phase, cur, wasOffline, server, received, acked, refused, unsure>>

(***************************************************************************)
(* main up to the loop: pw_db_buf_init, then, online, the schema and a     *)
(* first flush.  systemd starts the unit again after an exit.              *)
(***************************************************************************)
Start ==
  /\ pc \in {"stopped", "exited"}
  /\ Open
  /\ stmts' = {}
  /\ pc' = IF dbUp = 1 THEN "boot" ELSE "serve"
  /\ phase' = "boot"
  /\ UNCHANGED <<ctx, cur, wasOffline, cache, queue, tables, stored, history>>

(* db_ensure_schema exits when its statement fails. *)
Boot ==
  /\ pc = "boot"
  /\ \/ /\ alive = 1 /\ pc' = "replay"
        /\ UNCHANGED <<ctx, phase, cur, wasOffline, linkVars, cache, queue, server, history>>
     \/ alive = 0 /\ Exit(FALSE)

-------------------------------------------------------------------------------
(***************************************************************************)
(* write_metric, write_span and write_otel_metric.                         *)
(***************************************************************************)

(* mark_offline, then the record goes to the spill; it is answered 200     *)
(* whether or not pw_db_buf_spill took it.                                 *)
WriteSpill(r) ==
  /\ online' = 0
  /\ cache' = {}
  /\ \/ queue' = Append(queue, r) /\ UNCHANGED refused
     \/ refused' = refused \cup {r} /\ UNCHANGED queue
  /\ acked' = acked \cup {r}
  /\ pc' = "serve"

Request(k, l) ==
  LET r == [id |-> received + 1, kind |-> k, label |-> l]
  IN  /\ pc = "serve"
      /\ received < MaxRecords
      /\ received' = received + 1
      /\ \/ /\ online = 1 /\ link # "none"
            /\ pc' = "label" /\ ctx' = "write" /\ cur' = r
            /\ UNCHANGED <<online, cache, queue, acked, refused>>
         \/ /\ online = 0 \/ link = "none"
            /\ WriteSpill(r)
            /\ UNCHANGED <<ctx, cur>>
      /\ UNCHANGED <<phase, wasOffline, link, cool, dbUp, alive, losses, server,
                     abandoned, unsure>>

-------------------------------------------------------------------------------
(***************************************************************************)
(* db_otlp.c, called for the record cur.  Fail is a return of -1: a writer *)
(* spills the record, a replay stops its flush.                            *)
(***************************************************************************)

(* The end of a flush: after the first flush of a reconnect, set up again. *)
FlushEnd ==
  /\ pc' = CASE phase = "first" /\ online = 1 /\ wasOffline = 1 -> "setup"
             [] phase = "final" -> "closing"
             [] OTHER -> "serve"
  /\ UNCHANGED <<online, cache, queue, acked, refused>>

(* Mutant of Fail: a replay takes the line for done. *)
FailConsumes ==
  \/ ctx = "write" /\ WriteSpill(cur)
  \/ /\ ctx = "replay"
     /\ queue' = Tail(queue) /\ pc' = "replay"
     /\ UNCHANGED <<online, cache, acked, refused>>

Fail ==
  \/ ctx = "write" /\ WriteSpill(cur)
  \/ ctx = "replay" /\ FlushEnd

(* Mutant of Succeed: a replay leaves the line where it is. *)
SucceedKeepsLine ==
  \/ /\ ctx = "write"
     /\ acked' = acked \cup {cur} /\ pc' = "serve"
     /\ UNCHANGED queue
  \/ /\ ctx = "replay"
     /\ pc' = "replay"
     /\ UNCHANGED <<queue, acked>>

(* A return of 0: a writer answers 200, a replay consumes the line. *)
Succeed ==
  \/ /\ ctx = "write"
     /\ acked' = acked \cup {cur} /\ pc' = "serve"
     /\ UNCHANGED queue
  \/ /\ ctx = "replay"
     /\ queue' = Tail(queue) /\ pc' = "replay"
     /\ UNCHANGED acked

(* db_ensure_label, the cache. *)
LabelCached ==
  /\ pc = "label" /\ link = "ok"
  /\ cur.label \in cache
  /\ pc' = "insert"
  /\ UNCHANGED <<ctx, phase, cur, wasOffline, linkVars, cache, queue, server, history>>

LabelRefused ==
  /\ pc = "label"
  /\ link # "ok" \/ (cur.label \notin cache /\ Cardinality(cache) >= CacheMax)
  /\ Fail
  /\ UNCHANGED <<ctx, phase, cur, wasOffline, link, cool, dbUp, alive, losses,
                 server, received, abandoned, unsure>>

(* Mutant of LabelTables: LABEL_CACHE_MAX is not looked at. *)
LabelTablesNoLimit ==
  /\ pc = "label" /\ link = "ok"
  /\ cur.label \notin cache
  /\ \/ /\ alive = 1
        /\ tables' = tables \cup {cur.label}
        /\ pc' = "prepare"
        /\ UNCHANGED <<ctx, phase, cur, wasOffline, linkVars, cache, queue,
                       stmts, stored, history>>
     \/ alive = 0 /\ Exit(ctx = "replay")

(* db_ensure_label, the three tables; db_table_exists and db_ensure_schema *)
(* exit when the session is gone.                                          *)
LabelTables ==
  /\ pc = "label" /\ link = "ok"
  /\ cur.label \notin cache /\ Cardinality(cache) < CacheMax
  /\ \/ /\ alive = 1
        /\ tables' = tables \cup {cur.label}
        /\ pc' = "prepare"
        /\ UNCHANGED <<ctx, phase, cur, wasOffline, linkVars, cache, queue,
                       stmts, stored, history>>
     \/ alive = 0 /\ Exit(ctx = "replay")

(* prepare_span, prepare_metric, prepare_otel_metric: a failure is only    *)
(* reported, and the label is ready all the same.                          *)
LabelPrepare ==
  /\ pc = "prepare"
  /\ Sent
  /\ stmts' = IF alive = 1 THEN stmts \cup {cur.label} ELSE stmts
  /\ cache' = cache \cup {cur.label}
  /\ pc' = "insert"
  /\ UNCHANGED <<ctx, phase, cur, wasOffline, online, cool, queue, dbUp, alive,
                 tables, stored, losses, history>>

(* The statement casts the attributes to jsonb. *)
CanInsert ==
  /\ link = "ok" /\ alive = 1
  /\ cur.label \in stmts \cap tables
  /\ cur.kind # "badspan"

(* db_insert_*: one execution of the prepared statement. *)
InsertOk ==
  /\ pc = "insert" /\ CanInsert
  /\ stored' = Append(stored, cur)
  /\ Succeed
  /\ UNCHANGED <<ctx, phase, cur, wasOffline, linkVars, cache, stmts, tables,
                 received, refused, abandoned, unsure>>

InsertFail ==
  /\ pc = "insert" /\ ~CanInsert
  /\ Sent
  /\ Fail
  /\ UNCHANGED <<ctx, phase, cur, wasOffline, cool, dbUp, alive, losses, server,
                 received, abandoned, unsure>>

(* The thread is between the start and the end of a flush. *)
InFlush ==
  \/ pc \in {"boot", "replay", "setup"}
  \/ pc \in {"label", "prepare", "insert"} /\ ctx = "replay"

(* LossyFlush = 0 keeps losses out of flushes. *)
MayLose == LossyFlush = 1 \/ ~InFlush

(* The row is inserted, but the session ends before the reply arrives. *)
InsertReplyLost ==
  /\ pc = "insert" /\ CanInsert
  /\ MayLose /\ Loss
  /\ stored' = Append(stored, cur)
  /\ unsure' = Append(unsure, cur)
  /\ alive' = 0
  /\ link' = "bad"
  /\ Fail
  /\ UNCHANGED <<ctx, phase, cur, wasOffline, cool, dbUp, stmts, tables, received,
                 abandoned>>

-------------------------------------------------------------------------------
(***************************************************************************)
(* pw_db_buf_flush over replay_line, one line at a time.                   *)
(***************************************************************************)

(* Mutant of ReplayKnows: spans are forgotten as well. *)
ReplayKnowsMetrics(k) == k = "metric"

(* The prefix compared at line 390 is one character longer than the        *)
(* "otelmetric" prefix, so those lines are unknown and skipped.            *)
ReplayKnows(k) == k \in {"metric", "span", "badspan"}

(* The flush refuses to start, or the spill is drained, or replay_line     *)
(* finds the connection gone.                                              *)
ReplayEnd ==
  /\ pc = "replay"
  /\ queue = <<>> \/ link # "ok"
  /\ FlushEnd
  /\ UNCHANGED <<ctx, phase, cur, wasOffline, link, cool, dbUp, alive, losses,
                 server, received, abandoned, unsure>>

ReplayLine ==
  /\ pc = "replay" /\ queue # <<>> /\ link = "ok"
  /\ ReplayKnows(Head(queue).kind)
  /\ cur' = Head(queue)
  /\ ctx' = "replay"
  /\ pc' = "label"
  /\ UNCHANGED <<phase, wasOffline, linkVars, cache, queue, server, history>>

(* Mutant of ReplaySkip: an unknown line stops the flush. *)
ReplaySkipStops ==
  /\ pc = "replay" /\ queue # <<>> /\ link = "ok"
  /\ ~ReplayKnows(Head(queue).kind)
  /\ FlushEnd
  /\ UNCHANGED <<ctx, phase, cur, wasOffline, link, cool, dbUp, alive, losses,
                 server, received, abandoned, unsure>>

ReplaySkip ==
  /\ pc = "replay" /\ queue # <<>> /\ link = "ok"
  /\ ~ReplayKnows(Head(queue).kind)
  /\ queue' = Tail(queue)
  /\ UNCHANGED <<agent, linkVars, cache, server, history>>

-------------------------------------------------------------------------------
(***************************************************************************)
(* The maintenance branch of the main loop, once a second, and the last    *)
(* pw_db_buf_maintain before a stop.                                       *)
(***************************************************************************)

(* pw_db_buf_ensure, then the flush when it returned 1; offline, the thread *)
(* goes elsewhere.                                                         *)
EnsureOr(elsewhere) ==
  /\ Ensure
  /\ stmts' = IF Reopened THEN {} ELSE stmts
  /\ pc' = IF online' = 1 THEN "replay" ELSE elsewhere
  /\ UNCHANGED <<tables, stored>>

Maintain ==
  /\ pc = "serve"
  /\ wasOffline' = 1 - online
  /\ phase' = "first"
  /\ EnsureOr("serve")
  /\ UNCHANGED <<ctx, cur, cache, queue, history>>

(* Back online: forget the cache, recreate the schema, flush again. *)
Setup ==
  /\ pc = "setup"
  /\ \/ /\ alive = 1 /\ link = "ok"
        /\ cache' = {}
        /\ phase' = "second" /\ pc' = "replay"
        /\ UNCHANGED <<ctx, cur, wasOffline, linkVars, queue, server, history>>
     \/ /\ alive = 0 \/ link # "ok"
        /\ Exit(FALSE)

(* The session ends behind the schema: of the statements after it a failure *)
(* is only reported, and the flush finds the connection gone (line 129).   *)
SetupCut ==
  /\ pc = "setup"
  /\ alive = 1 /\ link = "ok"
  /\ MayLose /\ Loss
  /\ alive' = 0 /\ link' = "bad" /\ online' = 0
  /\ cache' = {}
  /\ phase' = "second" /\ pc' = "serve"
  /\ UNCHANGED <<ctx, cur, wasOffline, cool, dbUp, queue, server, history>>

(* SIGTERM. *)
Stop ==
  /\ pc = "serve"
  /\ phase' = "final"
  /\ EnsureOr("closing")
  /\ UNCHANGED <<ctx, cur, wasOffline, cache, queue, history>>

(* pw_db_buf_close, and the end of the process. *)
Close ==
  /\ pc = "closing"
  /\ pc' = "stopped"
  /\ Closed
  /\ cache' = {}
  /\ UNCHANGED <<ctx, phase, cur, wasOffline, queue, server, history>>

(* A second passes. *)
Tick ==
  /\ pc = "serve" /\ cool > 0
  /\ cool' = cool - 1
  /\ UNCHANGED <<agent, online, link, dbUp, alive, losses, cache, queue, server,
                 history>>

-------------------------------------------------------------------------------
(***************************************************************************)
(* The environment: the server goes and comes, a session is cut, the       *)
(* drop_inactive_tables job drops a label's tables.                        *)
(***************************************************************************)
LinkEvent ==
  /\ \/ MayLose /\ (ServerDown \/ SessionCut)
     \/ ServerUp
  /\ UNCHANGED <<agent, cache, queue, server, history>>

DropInactive(l) ==
  /\ dbUp = 1 /\ l \in tables
  /\ MayLose /\ Loss
  /\ tables' = tables \ {l}
  /\ UNCHANGED <<agent, buffer, dbUp, alive, cache, queue, stmts, stored, history>>

Serving ==
  \/ Boot
  \/ LabelCached \/ LabelRefused \/ LabelTables \/ LabelPrepare
  \/ InsertOk \/ InsertFail
  \/ ReplayEnd \/ ReplayLine \/ ReplaySkip
  \/ Setup \/ Close

Next ==
  \/ Start \/ Serving \/ Maintain \/ Stop \/ Tick
  \/ \E k \in Kinds, l \in Labels : Request(k, l)
  \/ InsertReplyLost \/ SetupCut \/ LinkEvent
  \/ \E l \in Labels : DropInactive(l)

(***************************************************************************)
(* The single thread always goes on, the unit is restarted after a failure *)
(* (Restart=on-failure), seconds pass and maintenance is due once a        *)
(* second; the server does come back.                                      *)
(***************************************************************************)
Fairness ==
  /\ WF_vars(Serving) /\ WF_vars(pc = "exited" /\ Start)
  /\ WF_vars(Tick) /\ WF_vars(Maintain)
  /\ WF_vars(LinkEvent /\ ServerUp)

Spec == Init /\ [][Next]_vars /\ Fairness

-------------------------------------------------------------------------------
(* How often r occurs in s. *)
Copies(s, r) == Cardinality({i \in DOMAIN s : s[i] = r})

(***************************************************************************)
(* A record answered with 200 is not forgotten ("accepted into spill",     *)
(* agentd.c line 157): it is a row, or still in the spill, unless the      *)
(* spill file refused it, which the writers do not report, or it was in    *)
(* the batch that was being replayed when the process exited.              *)
(***************************************************************************)
AckedKept ==
  acked \subseteq ToSet(stored) \cup ToSet(queue) \cup refused \cup abandoned

(***************************************************************************)
(* Retries do not multiply rows: beyond its first row, a record has at     *)
(* most one more for every insert whose reply was lost.                    *)
(***************************************************************************)
CopiesBounded ==
  \A r \in ToSet(stored) : Copies(stored, r) <= 1 + Copies(unsure, r)

(***************************************************************************)
(* A replayed line leaves the spill only as a row: README.md's "flush the  *)
(* spill in order once the database is back".                              *)
(***************************************************************************)
ConsumedMeansStored ==
  [][ pc' # "exited" /\ queue # <<>> /\ queue' = Tail(queue)
        => Head(queue) \in ToSet(stored') ]_vars

(***************************************************************************)
(* What is in the spill gets out of it once losses stop, unless the agent  *)
(* is stopped for good: README.md's "flush the spill in order once the     *)
(* database is back".  The only record that may block the others is one    *)
(* whose insert the server refuses every time (agentd.c line 385): what is *)
(* ahead of it does leave, and it is not taken for done.                   *)
(***************************************************************************)
SpillDrains ==
  queue # <<>> ~>
    \/ queue = <<>>
    \/ Head(queue).kind = "badspan"
    \/ pc = "stopped"

(***************************************************************************)
(* An offline agent gets back online once the server is back ("retry the   *)
(* connection about every 5 seconds", README.md).                          *)
(***************************************************************************)
BackOnline == pc = "serve" /\ online = 0 ~> online = 1 \/ pc = "stopped"
===============================================================================
