----------------------------- MODULE AgentdProofs -----------------------------
(***************************************************************************)
(* Proofs about Agentd for every number of records, labels, losses and     *)
(* places in the label cache.                                              *)
(***************************************************************************)
EXTENDS Agentd, SeqLemmas

(* A writer or a replay is inside db_otlp.c with the record cur. *)
InHand == pc \in {"label", "prepare", "insert"}

(***************************************************************************)
(* A replay has the first line of the spill at hand, and nothing touches   *)
(* the spill under it; a label is being prepared only if the cache has a   *)
(* place for it.                                                           *)
(***************************************************************************)
HandInv ==
  /\ InHand => cur \in Record
  /\ InHand /\ ctx = "replay" => queue # <<>> /\ cur = Head(queue)

CacheInv ==
  /\ IsFiniteSet(cache)
  /\ pc = "prepare" => Cardinality(cache) < CacheMax

(***************************************************************************)
(* Why CopiesBounded is inductive: a record is a row, in the spill or in a *)
(* writer's hands, and in one of these only, up to the rows whose reply    *)
(* was lost.                                                               *)
(***************************************************************************)
Writing(r) == IF InHand /\ ctx = "write" /\ cur = r THEN 1 ELSE 0

Allowed(r) == IF r.id <= received THEN 1 + Occurrences(unsure, r) ELSE 0

CopyInv ==
  \A r \in Record : Occurrences(stored, r) + Occurrences(queue, r) + Writing(r) <= Allowed(r)

-------------------------------------------------------------------------------
(***************************************************************************)
(* The steps, as what they do to the records.                              *)
(***************************************************************************)
Answered(r) ==
  /\ acked' = acked \cup {r}
  /\ \/ queue' = Append(queue, r) /\ refused' = refused
     \/ refused' = refused \cup {r} /\ queue' = queue

(* The insert failed, or only its reply did. *)
MaybeRow ==
  \/ UNCHANGED <<stored, unsure>>
  \/ stored' = Append(stored, cur) /\ unsure' = Append(unsure, cur)

Arrives(r) ==
  /\ ~InHand /\ InHand' /\ r.id = received + 1 /\ received' = received + 1
  /\ ctx' = "write" /\ cur' = r
  /\ UNCHANGED <<queue, stored, unsure, acked, refused, abandoned>>

ArrivesOffline(r) ==
  /\ ~InHand /\ ~InHand' /\ r.id = received + 1 /\ received' = received + 1
  /\ Answered(r)
  /\ UNCHANGED <<ctx, cur, stored, unsure, abandoned>>

WriteFails ==
  /\ InHand /\ ~InHand' /\ ctx = "write"
  /\ Answered(cur) /\ MaybeRow
  /\ UNCHANGED <<ctx, cur, received, abandoned>>

WriteDone ==
  /\ InHand /\ ~InHand' /\ ctx = "write"
  /\ stored' = Append(stored, cur) /\ acked' = acked \cup {cur}
  /\ UNCHANGED <<ctx, cur, queue, unsure, received, refused, abandoned>>

LineTaken ==
  /\ ~InHand /\ InHand' /\ queue # <<>>
  /\ ctx' = "replay" /\ cur' = Head(queue)
  /\ UNCHANGED <<queue, stored, unsure, received, acked, refused, abandoned>>

LineFails ==
  /\ InHand /\ ~InHand' /\ ctx = "replay"
  /\ MaybeRow
  /\ UNCHANGED <<ctx, cur, queue, received, acked, refused, abandoned>>

LineDone ==
  /\ InHand /\ ~InHand' /\ ctx = "replay"
  /\ stored' = Append(stored, cur) /\ queue' = Tail(queue)
  /\ UNCHANGED <<ctx, cur, unsure, received, acked, refused, abandoned>>

LineSkipped ==
  /\ ~InHand /\ ~InHand' /\ queue # <<>> /\ ~ReplayKnows(Head(queue).kind)
  /\ queue' = Tail(queue)
  /\ UNCHANGED <<ctx, cur, stored, unsure, received, acked, refused, abandoned>>

BatchLost ==
  /\ InHand /\ ~InHand' /\ ctx = "replay" /\ pc' = "exited"
  /\ queue' = <<>> /\ abandoned' = abandoned \cup ToSet(queue)
  /\ UNCHANGED <<ctx, cur, stored, unsure, received, acked, refused>>

Idle ==
  /\ InHand' => InHand
  /\ UNCHANGED <<ctx, cur, queue, stored, unsure, received, acked, refused, abandoned>>

(***************************************************************************)
(* There are no other steps.                                               *)
(***************************************************************************)
LEMMA StepCases ==
  ASSUME TypeOK, [Next]_vars
  PROVE  \/ \E r \in Record : Arrives(r) \/ ArrivesOffline(r)
         \/ WriteFails \/ WriteDone
         \/ LineTaken \/ LineFails \/ LineDone \/ LineSkipped
         \/ BatchLost \/ Idle
<1> USE DEF agent, server, history, InHand
<1>c. ctx \in {"write", "replay"}
  BY DEF TypeOK
<1>x. ASSUME NEW b \in BOOLEAN, Exit(b), b => InHand /\ ctx = "replay"
      PROVE  BatchLost \/ Idle
  BY <1>x DEF Exit, BatchLost, Idle
<1>f. ASSUME InHand, Fail, MaybeRow, UNCHANGED <<ctx, cur, received, abandoned>>
      PROVE  WriteFails \/ LineFails
  <2>1. CASE ctx = "write" /\ WriteSpill(cur)
    BY <1>f, <2>1 DEF WriteSpill, WriteFails, Answered
  <2>2. CASE ctx = "replay" /\ FlushEnd
    <3>1. pc' \in {"setup", "closing", "serve"} /\ UNCHANGED <<queue, acked, refused>>
      BY <2>2 DEF FlushEnd
    <3> QED BY <1>f, <2>2, <3>1 DEF LineFails
  <2> QED BY <1>f, <2>1, <2>2 DEF Fail
<1>1. CASE Start \/ Tick
  BY <1>1 DEF Start, Tick, Idle
<1>2. CASE Boot
  BY <1>2, <1>x DEF Boot, Idle
<1>3. CASE LabelCached
  BY <1>3 DEF LabelCached, Idle
<1>4. CASE LabelRefused
  BY <1>4, <1>f DEF LabelRefused, MaybeRow
<1>5. CASE LabelTables
  <2>1. CASE alive = 1
    BY <1>5, <2>1 DEF LabelTables, Exit, Idle
  <2>2. CASE Exit(ctx = "replay")
    BY <1>5, <2>2, <1>x DEF LabelTables
  <2> QED BY <1>5, <2>1, <2>2 DEF LabelTables
<1>6. CASE LabelPrepare
  BY <1>6 DEF LabelPrepare, Idle
<1>7. CASE InsertOk
  <2>1. CASE ctx = "write"
    BY <1>7, <2>1 DEF InsertOk, Succeed, WriteDone
  <2>2. CASE ctx = "replay"
    BY <1>7, <2>2 DEF InsertOk, Succeed, LineDone
  <2> QED BY <1>c, <2>1, <2>2
<1>8. CASE InsertFail
  BY <1>8, <1>f DEF InsertFail, MaybeRow
<1>9. CASE InsertReplyLost
  BY <1>9, <1>f DEF InsertReplyLost, MaybeRow
<1>10. CASE ReplayEnd
  <2>1. pc' \in {"setup", "closing", "serve"} /\ UNCHANGED <<queue, acked, refused>>
    BY <1>10 DEF ReplayEnd, FlushEnd
  <2> QED BY <1>10, <2>1 DEF ReplayEnd, Idle
<1>11. CASE ReplayLine
  BY <1>11 DEF ReplayLine, LineTaken
<1>12. CASE ReplaySkip
  BY <1>12 DEF ReplaySkip, LineSkipped
<1>13. CASE Setup
  BY <1>13, <1>x DEF Setup, Idle
<1>14. CASE Maintain \/ Stop
  <2>1. pc' \in {"replay", "serve", "closing"}
    BY <1>14 DEF Maintain, Stop, EnsureOr
  <2> QED BY <1>14, <2>1 DEF Maintain, Stop, EnsureOr, Idle
<1>15. CASE Close
  BY <1>15 DEF Close, Idle
<1>16. ASSUME NEW k \in Kinds, NEW l \in Labels, Request(k, l)
       PROVE  \E r \in Record : Arrives(r) \/ ArrivesOffline(r)
  <2> DEFINE r == [id |-> received + 1, kind |-> k, label |-> l]
  <2>1. received + 1 \in 1..MaxRecords
    BY <1>16, AgentdAssumption DEF Request, TypeOK
  <2>2. r \in Record /\ r.id = received + 1
    BY <2>1 DEF Record
  <2>3. CASE online = 1 /\ link # "none"
    <3>1. Arrives(r)
      BY <1>16, <2>2, <2>3 DEF Request, Arrives
    <3> QED BY <2>2, <3>1
  <2>4. CASE ~(online = 1 /\ link # "none")
    <3>1. pc = "serve" /\ received' = received + 1 /\ WriteSpill(r)
          /\ UNCHANGED <<ctx, cur, stored, abandoned, unsure>>
      BY <1>16, <2>4 DEF Request
    <3> HIDE DEF r
    <3>2. ArrivesOffline(r)
      BY <2>2, <3>1 DEF WriteSpill, ArrivesOffline, Answered
    <3> QED BY <2>2, <3>2
  <2> QED BY <2>3, <2>4
<1>17. CASE LinkEvent
  BY <1>17 DEF LinkEvent, Idle
<1>18. ASSUME NEW l \in Labels, DropInactive(l) PROVE Idle
  BY <1>18 DEF DropInactive, Idle
<1>19. CASE UNCHANGED vars
  BY <1>19 DEF vars, Idle
<1>20. CASE SetupCut
  BY <1>20 DEF SetupCut, Idle
<1> QED
  BY <1>1, <1>2, <1>3, <1>4, <1>5, <1>6, <1>7, <1>8, <1>9, <1>10, <1>11, <1>12, <1>13,
     <1>14, <1>15, <1>16, <1>17, <1>18, <1>19, <1>20
  DEF Next, Serving
-------------------------------------------------------------------------------
(* The part of TypeOK that is about the records. *)
DataOK ==
  /\ cur \in Record \cup {NoRecord}
  /\ queue \in Seq(Record) /\ stored \in Seq(Record) /\ unsure \in Seq(Record)
  /\ received \in 0..MaxRecords
  /\ acked \subseteq Record /\ refused \subseteq acked /\ abandoned \subseteq Record

(* And the part that is about the thread, the cache and the server. *)
ControlOK ==
  /\ pc \in {"boot", "serve", "replay", "label", "prepare", "insert", "setup",
             "closing", "exited", "stopped"}
  /\ ctx \in {"write", "replay"}
  /\ phase \in {"boot", "first", "second", "final"}
  /\ wasOffline \in {0, 1}
  /\ cache \subseteq Labels /\ Cardinality(cache) <= CacheMax
  /\ stmts \subseteq Labels /\ tables \subseteq Labels

(***************************************************************************)
(* They are the whole of it, with the connection.                          *)
(***************************************************************************)
LEMMA TypeParts == TypeOK <=> DataOK /\ ControlOK /\ LinkTypeOK
BY DEF TypeOK, DataOK, ControlOK

(***************************************************************************)
(* What is at hand is a record, what is replayed the first of the spill.   *)
(***************************************************************************)
LEMMA DataStep ==
  ASSUME TypeOK, HandInv, [Next]_vars
  PROVE  DataOK' /\ HandInv'
<1>t. DataOK
  BY TypeParts
<1>h. InHand => cur \in Record
  BY DEF HandInv
<1>r. ASSUME NEW r \in Record, Answered(r)
      PROVE  queue' \in Seq(Record) /\ acked' \subseteq Record /\ refused' \subseteq acked'
  <2>1. Append(queue, r) \in Seq(Record)
    BY <1>t DEF DataOK
  <2> QED BY <1>t, <1>r, <2>1 DEF Answered, DataOK
<1>m. ASSUME InHand, MaybeRow PROVE stored' \in Seq(Record) /\ unsure' \in Seq(Record)
  <2>1. Append(stored, cur) \in Seq(Record) /\ Append(unsure, cur) \in Seq(Record)
    BY <1>t, <1>h, <1>m DEF DataOK
  <2> QED BY <1>t, <1>m, <2>1 DEF MaybeRow, DataOK
<1>q. queue # <<>> => Tail(queue) \in Seq(Record) /\ Head(queue) \in Record
  BY <1>t DEF DataOK
<1>1. ASSUME NEW r \in Record, Arrives(r) PROVE DataOK' /\ HandInv'
  <2>1. received' \in 0..MaxRecords
    BY <1>t, <1>1, AgentdAssumption DEF Arrives, Record, DataOK
  <2> QED BY <1>t, <1>1, <2>1 DEF Arrives, DataOK, HandInv
<1>2. ASSUME NEW r \in Record, ArrivesOffline(r) PROVE DataOK' /\ HandInv'
  <2>1. received' \in 0..MaxRecords
    BY <1>t, <1>2, AgentdAssumption DEF ArrivesOffline, Record, DataOK
  <2>2. queue' \in Seq(Record) /\ acked' \subseteq Record /\ refused' \subseteq acked'
    BY <1>2, <1>r DEF ArrivesOffline
  <2> QED BY <1>t, <1>2, <2>1, <2>2 DEF ArrivesOffline, DataOK, HandInv
<1>3. CASE WriteFails
  <2>1. queue' \in Seq(Record) /\ acked' \subseteq Record /\ refused' \subseteq acked'
    BY <1>3, <1>h, <1>r DEF WriteFails
  <2>2. stored' \in Seq(Record) /\ unsure' \in Seq(Record)
    BY <1>3, <1>m DEF WriteFails
  <2> QED BY <1>t, <1>3, <2>1, <2>2 DEF WriteFails, DataOK, HandInv
<1>4. CASE WriteDone
  <2>1. cur \in Record
    BY <1>4, <1>h DEF WriteDone
  <2>2. stored' \in Seq(Record)
    BY <1>t, <1>4, <2>1 DEF WriteDone, DataOK
  <2> QED BY <1>t, <1>4, <2>1, <2>2 DEF WriteDone, DataOK, HandInv
<1>5. CASE LineTaken
  BY <1>t, <1>5, <1>q DEF LineTaken, DataOK, HandInv
<1>6. CASE LineFails
  <2>1. stored' \in Seq(Record) /\ unsure' \in Seq(Record)
    BY <1>6, <1>m DEF LineFails
  <2> QED BY <1>t, <1>6, <2>1 DEF LineFails, DataOK, HandInv
<1>7. CASE LineDone
  <2>1. cur \in Record /\ queue # <<>>
    BY <1>7, <1>h DEF LineDone, HandInv
  <2>2. stored' \in Seq(Record)
    BY <1>t, <1>7, <2>1 DEF LineDone, DataOK
  <2>3. queue' \in Seq(Record)
    BY <1>7, <1>q, <2>1 DEF LineDone
  <2> QED BY <1>t, <1>7, <2>2, <2>3 DEF LineDone, DataOK, HandInv
<1>8. CASE LineSkipped
  <2>1. queue' \in Seq(Record)
    BY <1>8, <1>q DEF LineSkipped
  <2> QED BY <1>t, <1>8, <2>1 DEF LineSkipped, DataOK, HandInv
<1>9. CASE BatchLost
  <2>1. ToSet(queue) \subseteq Record
    BY <1>t, ToSetElements DEF DataOK
  <2>2. <<>> \in Seq(Record)
    OBVIOUS
  <2> QED BY <1>t, <1>9, <2>1, <2>2 DEF BatchLost, DataOK, HandInv
<1>10. CASE Idle
  BY <1>t, <1>10 DEF Idle, DataOK, HandInv
<1> QED
  BY StepCases, <1>1, <1>2, <1>3, <1>4, <1>5, <1>6, <1>7, <1>8, <1>9, <1>10

(***************************************************************************)
(* The connection stays of its type, whoever uses it.                      *)
(***************************************************************************)
LEMMA LinkStep ==
  ASSUME TypeOK, [Next]_vars
  PROVE  LinkTypeOK'
<1> USE LinkAssumption DEF linkVars, buffer
<1>t. LinkTypeOK
  BY TypeParts
<1>x. ASSUME Closed PROVE LinkTypeOK'
  BY <1>x, <1>t DEF Closed, LinkTypeOK
<1>k. ASSUME UNCHANGED linkVars PROVE LinkTypeOK'
  BY <1>k, <1>t DEF LinkTypeOK
<1>f. ASSUME Fail PROVE online' \in {0, 1}
  BY <1>f, <1>t DEF Fail, WriteSpill, FlushEnd, LinkTypeOK
<1>l. ASSUME Loss PROVE losses' \in 0..MaxLosses
  BY <1>l, <1>t DEF Loss, LinkTypeOK
<1>1. CASE Start
  BY <1>1, <1>t DEF Start, Open, Connect, LinkTypeOK
<1>2. CASE Boot \/ Setup
  BY <1>2, <1>x, <1>k DEF Boot, Setup, Exit
<1>3. CASE LabelCached \/ ReplayLine \/ ReplaySkip
  BY <1>3, <1>k DEF LabelCached, ReplayLine, ReplaySkip
<1>4. CASE LabelRefused
  BY <1>4, <1>f, <1>t DEF LabelRefused, LinkTypeOK
<1>5. CASE LabelTables
  BY <1>5, <1>x, <1>k DEF LabelTables, Exit
<1>6. CASE LabelPrepare
  BY <1>6, <1>t DEF LabelPrepare, Sent, LinkTypeOK
<1>7. CASE InsertOk
  BY <1>7, <1>k DEF InsertOk
<1>8. CASE InsertFail
  BY <1>8, <1>f, <1>t DEF InsertFail, Sent, LinkTypeOK
<1>9. CASE InsertReplyLost
  BY <1>9, <1>f, <1>l, <1>t DEF InsertReplyLost, LinkTypeOK
<1>10. CASE ReplayEnd
  BY <1>10, <1>t DEF ReplayEnd, FlushEnd, LinkTypeOK
<1>11. CASE Maintain \/ Stop
  <2>1. Ensure
    BY <1>11 DEF Maintain, Stop, EnsureOr
  <2> QED BY <2>1, <1>t DEF Ensure, Connect, LinkTypeOK
<1>12. CASE Close
  BY <1>12, <1>x DEF Close
<1>13. CASE Tick
  BY <1>13, <1>t DEF Tick, LinkTypeOK
<1>14. ASSUME NEW k \in Kinds, NEW l \in Labels, Request(k, l) PROVE LinkTypeOK'
  <2>1. online' \in {0, 1}
    BY <1>14, <1>t DEF Request, WriteSpill, LinkTypeOK
  <2> QED BY <1>14, <1>t, <2>1 DEF Request, LinkTypeOK
<1>15. CASE LinkEvent
  BY <1>15, <1>l, <1>t DEF LinkEvent, ServerDown, SessionCut, ServerUp, LinkTypeOK
<1>16. ASSUME NEW l \in Labels, DropInactive(l) PROVE LinkTypeOK'
  BY <1>16, <1>l, <1>t DEF DropInactive, LinkTypeOK
<1>17. CASE UNCHANGED vars
  BY <1>17, <1>k DEF vars
<1>18. CASE SetupCut
  BY <1>18, <1>l, <1>t DEF SetupCut, LinkTypeOK
<1> QED
  BY <1>1, <1>2, <1>3, <1>4, <1>5, <1>6, <1>7, <1>8, <1>9, <1>10, <1>11, <1>12, <1>13,
     <1>14, <1>15, <1>16, <1>17, <1>18
  DEF Next, Serving
(***************************************************************************)
(* The thread is where it can be, and the cache within LABEL_CACHE_MAX.    *)
(***************************************************************************)
LEMMA ControlStep ==
  ASSUME TypeOK, HandInv, CacheInv, [Next]_vars
  PROVE  ControlOK' /\ CacheInv'
<1> USE DEF agent, server, history
<1>t. ControlOK /\ online \in {0, 1}
  BY TypeParts DEF LinkTypeOK
<1>a. CacheMax \in Nat \ {0} /\ IsFiniteSet({}) /\ Cardinality({}) = 0
  BY AgentdAssumption, FS_EmptySet
<1>c. Cardinality(cache) \in Nat /\ IsFiniteSet(cache)
  BY FS_CardinalityType DEF CacheInv
<1>h. InHand => cur.label \in Labels
  BY DEF HandInv, Record
<1>e. ASSUME cache' \in {cache, {}}
      PROVE  cache' \subseteq Labels /\ Cardinality(cache') <= CacheMax /\ IsFiniteSet(cache')
  BY <1>a, <1>c, <1>e, <1>t DEF ControlOK
<1>x. ASSUME NEW b, Exit(b) PROVE ControlOK' /\ CacheInv'
  BY <1>x, <1>t, <1>e DEF Exit, ControlOK, CacheInv
<1>g. ASSUME FlushEnd PROVE pc' \in {"setup", "closing", "serve"} /\ cache' = cache
  BY <1>g DEF FlushEnd
<1>f. ASSUME Fail PROVE pc' \in {"setup", "closing", "serve"} /\ cache' \in {cache, {}}
  BY <1>f, <1>g DEF Fail, WriteSpill
<1>1. CASE Start
  <2>1. pc' \in {"boot", "serve"} /\ stmts' = {} /\ phase' = "boot"
    BY <1>1 DEF Start
  <2> QED BY <1>1, <1>t, <1>e, <2>1 DEF Start, ControlOK, CacheInv
<1>2. CASE Boot
  <2>1. CASE Exit(FALSE)
    BY <2>1, <1>x
  <2>2. CASE ~Exit(FALSE)
    BY <1>2, <1>t, <1>e, <2>2 DEF Boot, ControlOK, CacheInv
  <2> QED BY <2>1, <2>2
<1>3. CASE LabelCached \/ ReplayLine \/ ReplaySkip
  BY <1>3, <1>t, <1>e DEF LabelCached, ReplayLine, ReplaySkip, ControlOK, CacheInv
<1>4. CASE LabelRefused \/ InsertFail
  <2>1. Fail /\ UNCHANGED <<ctx, phase, wasOffline, stmts, tables>>
    BY <1>4 DEF LabelRefused, InsertFail
  <2> QED BY <1>t, <1>e, <1>f, <2>1 DEF ControlOK, CacheInv
<1>5. CASE LabelTables
  <2>1. CASE Exit(ctx = "replay")
    BY <2>1, <1>x
  <2>2. CASE ~Exit(ctx = "replay")
    <3>1. /\ Cardinality(cache) < CacheMax /\ tables' = tables \cup {cur.label}
          /\ InHand /\ pc' = "prepare" /\ UNCHANGED <<ctx, phase, wasOffline, cache, stmts>>
      BY <1>5, <2>2 DEF LabelTables, InHand
    <3> QED BY <1>t, <1>c, <1>e, <1>h, <3>1 DEF ControlOK, CacheInv
  <2> QED BY <2>1, <2>2
<1>6. CASE LabelPrepare
  <2>1. /\ pc = "prepare" /\ pc' = "insert" /\ cache' = cache \cup {cur.label}
        /\ stmts' \in {stmts, stmts \cup {cur.label}}
        /\ UNCHANGED <<ctx, phase, wasOffline, tables>>
    BY <1>6 DEF LabelPrepare
  <2>2. cur.label \in Labels /\ Cardinality(cache) < CacheMax
    BY <1>h, <2>1 DEF InHand, CacheInv
  <2>3. IsFiniteSet(cache') /\ Cardinality(cache') \in {Cardinality(cache), Cardinality(cache) + 1}
    BY <1>c, <2>1, FS_AddElement
  <2>4. Cardinality(cache') <= CacheMax
    BY <1>a, <1>c, <2>2, <2>3
  <2> QED BY <1>t, <2>1, <2>2, <2>3, <2>4 DEF ControlOK, CacheInv
<1>7. CASE InsertOk
  <2>1. pc' \in {"serve", "replay"}
    BY <1>7 DEF InsertOk, Succeed
  <2> QED BY <1>7, <1>t, <1>e, <2>1 DEF InsertOk, ControlOK, CacheInv
<1>8. CASE InsertReplyLost
  <2>1. Fail /\ UNCHANGED <<ctx, phase, wasOffline, stmts, tables>>
    BY <1>8 DEF InsertReplyLost
  <2> QED BY <1>t, <1>e, <1>f, <2>1 DEF ControlOK, CacheInv
<1>9. CASE ReplayEnd
  <2>1. FlushEnd /\ UNCHANGED <<ctx, phase, wasOffline, stmts, tables>>
    BY <1>9 DEF ReplayEnd
  <2> QED BY <1>t, <1>e, <1>g, <2>1 DEF ControlOK, CacheInv
<1>10. CASE Setup
  <2>1. CASE Exit(FALSE)
    BY <2>1, <1>x
  <2>2. CASE ~Exit(FALSE)
    BY <1>10, <1>t, <1>e, <2>2 DEF Setup, ControlOK, CacheInv
  <2> QED BY <2>1, <2>2
<1>11. CASE Maintain \/ Stop
  <2>1. /\ pc' \in {"replay", "serve", "closing"} /\ stmts' \in {stmts, {}}
        /\ phase' \in {"first", "final"} /\ wasOffline' \in {wasOffline, 1 - online}
        /\ UNCHANGED <<ctx, cache, tables>>
    BY <1>11 DEF Maintain, Stop, EnsureOr
  <2> QED BY <1>t, <1>e, <2>1 DEF ControlOK, CacheInv
<1>12. CASE Close
  BY <1>12, <1>t, <1>e DEF Close, ControlOK, CacheInv
<1>13. CASE Tick \/ LinkEvent
  BY <1>13, <1>t, <1>e DEF Tick, LinkEvent, ControlOK, CacheInv
<1>14. ASSUME NEW k \in Kinds, NEW l \in Labels, Request(k, l) PROVE ControlOK' /\ CacheInv'
  <2>1. /\ pc' \in {"label", "serve"} /\ ctx' \in {ctx, "write"} /\ cache' \in {cache, {}}
        /\ UNCHANGED <<phase, wasOffline, stmts, tables>>
    BY <1>14 DEF Request, WriteSpill
  <2> QED BY <1>t, <1>e, <2>1 DEF ControlOK, CacheInv
<1>15. ASSUME NEW l \in Labels, DropInactive(l) PROVE ControlOK' /\ CacheInv'
  BY <1>15, <1>t, <1>e DEF DropInactive, ControlOK, CacheInv
<1>16. CASE UNCHANGED vars
  BY <1>16, <1>t, <1>e DEF vars, ControlOK, CacheInv
<1>17. CASE SetupCut
  BY <1>17, <1>t, <1>e DEF SetupCut, ControlOK, CacheInv
<1> QED
  BY <1>1, <1>2, <1>3, <1>4, <1>5, <1>6, <1>7, <1>8, <1>9, <1>10, <1>11, <1>12, <1>13,
     <1>14, <1>15, <1>16, <1>17
  DEF Next, Serving

(***************************************************************************)
(* TypeOK with what it needs to be inductive.                              *)
(***************************************************************************)
BaseInv == TypeOK /\ HandInv /\ CacheInv

(***************************************************************************)
(* And that it is.                                                         *)
(***************************************************************************)
LEMMA BaseCorrect == Spec => []BaseInv
<1>1. ASSUME Init PROVE BaseInv
  <2>1. <<>> \in Seq(Record)
    OBVIOUS
  <2>2. DataOK
    BY <1>1, <2>1, AgentdAssumption DEF Init, DataOK
  <2>3. IsFiniteSet(cache) /\ Cardinality(cache) <= CacheMax
    BY <1>1, AgentdAssumption, FS_EmptySet DEF Init
  <2>4. ControlOK
    BY <1>1, <2>3 DEF Init, ControlOK
  <2>5. LinkTypeOK
    BY <1>1, LinkAssumption DEF Init, LinkInit, LinkTypeOK
  <2>6. HandInv /\ CacheInv
    BY <1>1, <2>3 DEF Init, HandInv, InHand, CacheInv
  <2> QED BY <2>2, <2>4, <2>5, <2>6, TypeParts DEF BaseInv
<1>2. ASSUME BaseInv, [Next]_vars PROVE BaseInv'
  <2>1. DataOK' /\ HandInv' /\ ControlOK' /\ CacheInv' /\ LinkTypeOK'
    BY <1>2, DataStep, ControlStep, LinkStep DEF BaseInv
  <2>2. TypeOK'
    BY <2>1 DEF TypeOK, DataOK, ControlOK
  <2> QED BY <2>1, <2>2 DEF BaseInv
<1> QED BY <1>1, <1>2, PTL DEF Spec

(***************************************************************************)
(* agentd's variables keep their types; in particular the label cache      *)
(* never holds more than LABEL_CACHE_MAX labels.                           *)
(***************************************************************************)
THEOREM TypeCorrect == Spec => []TypeOK
<1>1. BaseInv => TypeOK
  BY DEF BaseInv
<1> QED BY <1>1, BaseCorrect, PTL
-------------------------------------------------------------------------------
(***************************************************************************)
(* Where a record may be, after what a step does to the spill and the      *)
(* table.                                                                  *)
(***************************************************************************)
LEMMA Places ==
  ASSUME TypeOK, HandInv
  PROVE  /\ InHand => ToSet(Append(stored, cur)) = ToSet(stored) \cup {cur}
         /\ \A r \in Record : ToSet(Append(queue, r)) = ToSet(queue) \cup {r}
         /\ queue # <<>> => ToSet(queue) = {Head(queue)} \cup ToSet(Tail(queue))
<1>1. queue \in Seq(Record) /\ stored \in Seq(Record) /\ (InHand => cur \in Record)
  BY DEF TypeOK, HandInv
<1> QED BY <1>1, ToSetAppend, ToSetTail

(***************************************************************************)
(* Without otelmetric records replay_line knows every line of the spill.   *)
(***************************************************************************)
LEMMA NothingSkipped ==
  ASSUME "otelmetric" \notin Kinds, TypeOK
  PROVE  ~LineSkipped
<1>1. ASSUME queue # <<>> PROVE ReplayKnows(Head(queue).kind)
  <2>1. queue \in Seq(Record)
    BY DEF TypeOK
  <2>2. Head(queue) \in Record
    BY <1>1, <2>1
  <2>3. Head(queue).kind \in Kinds
    BY <2>2 DEF Record
  <2> QED BY <2>3, AgentdAssumption DEF AllKinds, ReplayKnows
<1> QED BY <1>1 DEF LineSkipped

(***************************************************************************)
(* Every step keeps what was answered with 200 somewhere.                  *)
(***************************************************************************)
LEMMA AckedStep ==
  ASSUME "otelmetric" \notin Kinds, TypeOK, HandInv, AckedKept, [Next]_vars
  PROVE  AckedKept'
<1>p. /\ InHand => ToSet(Append(stored, cur)) = ToSet(stored) \cup {cur}
      /\ \A r \in Record : ToSet(Append(queue, r)) = ToSet(queue) \cup {r}
      /\ queue # <<>> => ToSet(queue) = {Head(queue)} \cup ToSet(Tail(queue))
  BY Places
<1>h. InHand => cur \in Record
  BY DEF HandInv
<1>m. ASSUME InHand, MaybeRow PROVE ToSet(stored) \subseteq ToSet(stored')
  BY <1>p, <1>m DEF MaybeRow
<1>r. ASSUME NEW r \in Record, Answered(r), ToSet(stored) \subseteq ToSet(stored'),
             abandoned' = abandoned
      PROVE  AckedKept'
  <2>1. ToSet(queue) \cup refused \cup {r} \subseteq ToSet(queue') \cup refused'
    BY <1>p, <1>r DEF Answered
  <2> QED BY <1>r, <2>1 DEF Answered, AckedKept
<1>1. ASSUME NEW r \in Record, Arrives(r) PROVE AckedKept'
  BY <1>1 DEF Arrives, AckedKept
<1>2. ASSUME NEW r \in Record, ArrivesOffline(r) PROVE AckedKept'
  BY <1>2, <1>r DEF ArrivesOffline
<1>3. CASE WriteFails
  BY <1>3, <1>h, <1>m, <1>r DEF WriteFails
<1>4. CASE WriteDone
  BY <1>4, <1>p DEF WriteDone, AckedKept
<1>5. CASE LineTaken \/ Idle
  BY <1>5 DEF LineTaken, Idle, AckedKept
<1>6. CASE LineFails
  BY <1>6, <1>m DEF LineFails, AckedKept
<1>7. CASE LineDone
  <2>1. queue # <<>> /\ cur = Head(queue)
    BY <1>7 DEF LineDone, HandInv
  <2> QED BY <1>7, <1>p, <2>1 DEF LineDone, AckedKept
<1>8. CASE BatchLost
  BY <1>8 DEF BatchLost, AckedKept
<1> QED
  BY StepCases, NothingSkipped, <1>1, <1>2, <1>3, <1>4, <1>5, <1>6, <1>7, <1>8

(***************************************************************************)
(* A record that was answered with 200 is a row or in the spill, unless    *)
(* the spill refused it or the process exited while it replayed the batch  *)
(* with it.  The otelmetric records, which the replay skips, are the only  *)
(* ones this does not hold for.                                            *)
(***************************************************************************)
THEOREM AcceptedIsKept ==
  ASSUME "otelmetric" \notin Kinds
  PROVE  Spec => []AckedKept
<1>1. Init => AckedKept
  BY DEF Init, AckedKept
<1>2. BaseInv /\ AckedKept /\ [Next]_vars => AckedKept'
  BY AckedStep DEF BaseInv
<1> QED BY <1>1, <1>2, BaseCorrect, PTL DEF Spec

(***************************************************************************)
(* Under the same condition a line leaves the spill only as a row, or with *)
(* the process.                                                            *)
(***************************************************************************)
THEOREM LinesBecomeRows ==
  ASSUME "otelmetric" \notin Kinds
  PROVE  Spec => ConsumedMeansStored
<1> DEFINE Consumed == pc' # "exited" /\ queue # <<>> /\ queue' = Tail(queue)
                         => Head(queue) \in ToSet(stored')
<1>1. ASSUME BaseInv, [Next]_vars PROVE Consumed
  <2> SUFFICES ASSUME pc' # "exited", queue # <<>>, queue' = Tail(queue)
               PROVE  Head(queue) \in ToSet(stored')
    OBVIOUS
  <2>t. TypeOK /\ HandInv
    BY <1>1 DEF BaseInv
  <2>q. queue \in Seq(Record)
    BY <2>t DEF TypeOK
  <2>a. queue' # queue /\ \A r \in Record : queue' # Append(queue, r)
    BY <2>q, TailDiffers
  <2>1. CASE LineDone
    <3>1. cur = Head(queue) /\ InHand /\ stored' = Append(stored, cur)
      BY <2>1, <2>t DEF LineDone, HandInv
    <3> QED BY <2>t, <3>1, Places
  <2>2. CASE \E r \in Record : Arrives(r) \/ ArrivesOffline(r)
    BY <2>2, <2>a DEF Arrives, ArrivesOffline, Answered
  <2>3. CASE WriteFails
    BY <2>3, <2>t, <2>a DEF WriteFails, Answered, HandInv
  <2>4. CASE WriteDone \/ LineTaken \/ LineFails \/ Idle
    BY <2>4, <2>a DEF WriteDone, LineTaken, LineFails, Idle
  <2>5. CASE BatchLost
    BY <2>5 DEF BatchLost
  <2> QED BY <1>1, <2>t, StepCases, NothingSkipped, <2>1, <2>2, <2>3, <2>4, <2>5
<1>2. BaseInv /\ [Next]_vars => [Consumed]_vars
  BY <1>1
<1> QED BY <1>2, BaseCorrect, PTL DEF Spec, ConsumedMeansStored

-------------------------------------------------------------------------------
(***************************************************************************)
(* CopyInv is inductive: a step that adds a row takes the record out of    *)
(* the spill or out of the writer's hands, or adds to unsure.              *)
(***************************************************************************)
LEMMA CopyStep ==
  ASSUME TypeOK, HandInv, CopyInv, [Next]_vars
  PROVE  CopyInv'
<1> SUFFICES ASSUME NEW r \in Record
             PROVE  (Occurrences(stored, r) + Occurrences(queue, r) + Writing(r) <= Allowed(r))'
  BY DEF CopyInv
<1> DEFINE S == Occurrences(stored, r)
           Q == Occurrences(queue, r)
           U == Occurrences(unsure, r)
<1>t. /\ queue \in Seq(Record) /\ stored \in Seq(Record) /\ unsure \in Seq(Record)
      /\ received \in Nat /\ r.id \in Nat
  BY AgentdAssumption DEF TypeOK, Record
<1>n. S \in Nat /\ Q \in Nat /\ U \in Nat
  BY <1>t, OccurrencesNat
<1>o. /\ InHand /\ stored' = Append(stored, cur) => S' = IF cur = r THEN S + 1 ELSE S
      /\ InHand /\ unsure' = Append(unsure, cur) => U' = IF cur = r THEN U + 1 ELSE U
      /\ \A e \in Record : queue' = Append(queue, e) => Q' = IF e = r THEN Q + 1 ELSE Q
      /\ queue # <<>> /\ queue' = Tail(queue) => Q' = IF Head(queue) = r THEN Q - 1 ELSE Q
  <2>1. InHand => cur \in Record
    BY DEF HandInv
  <2>2. InHand => /\ Occurrences(Append(stored, cur), r) = IF cur = r THEN S + 1 ELSE S
                  /\ Occurrences(Append(unsure, cur), r) = IF cur = r THEN U + 1 ELSE U
    BY <1>t, <2>1, OccurrencesAppend
  <2>3. \A e \in Record : Occurrences(Append(queue, e), r) = IF e = r THEN Q + 1 ELSE Q
    BY <1>t, OccurrencesAppend
  <2>4. queue # <<>> => Occurrences(Tail(queue), r) = IF Head(queue) = r THEN Q - 1 ELSE Q
    BY <1>t, OccurrencesTail
  <2> QED BY <2>2, <2>3, <2>4
<1>k. /\ stored' = stored => S' = S
      /\ unsure' = unsure => U' = U
      /\ queue' = queue => Q' = Q
  OBVIOUS
<1>i. S + Q + Writing(r) <= Allowed(r)
  BY DEF CopyInv
<1>w. Writing(r) = (IF InHand /\ ctx = "write" /\ cur = r THEN 1 ELSE 0)
      /\ Writing(r)' = (IF InHand' /\ ctx' = "write" /\ cur' = r THEN 1 ELSE 0)
  BY DEF Writing
<1>a. Allowed(r) = (IF r.id <= received THEN 1 + U ELSE 0)
      /\ Allowed(r)' = (IF r.id <= received' THEN 1 + U' ELSE 0)
  BY DEF Allowed
<1> HIDE DEF S, Q, U
<1>g. SUFFICES S' + Q' + Writing(r)' <= Allowed(r)'
  BY DEF S, Q
<1>r. (* The record e of this answer leaves a hand or arrives, for the spill. *)
      ASSUME NEW e \in Record, Answered(e)
      PROVE  Q' = Q \/ (e = r /\ Q' = Q + 1)
  BY <1>r, <1>o, <1>k DEF Answered
<1>m. ASSUME InHand, MaybeRow
      PROVE  \/ S' = S /\ U' = U
             \/ cur = r /\ S' = S + 1 /\ U' = U + 1
  BY <1>m, <1>o, <1>k DEF MaybeRow
<1>h. InHand => cur \in Record
  BY DEF HandInv
<1>1. ASSUME NEW e \in Record, Arrives(e) PROVE S' + Q' + Writing(r)' <= Allowed(r)'
  <2>1. S' = S /\ Q' = Q /\ U' = U /\ received' = received + 1 /\ e.id = received + 1
        /\ Writing(r)' = (IF e = r THEN 1 ELSE 0) /\ Writing(r) = 0
    BY <1>1, <1>k, <1>w DEF Arrives
  <2>2. CASE e = r
    BY <1>a, <1>i, <1>n, <1>t, <2>1, <2>2
  <2>3. CASE e # r
    BY <1>a, <1>i, <1>n, <1>t, <2>1, <2>3
  <2> QED BY <2>2, <2>3
<1>2. ASSUME NEW e \in Record, ArrivesOffline(e) PROVE S' + Q' + Writing(r)' <= Allowed(r)'
  <2>1. S' = S /\ U' = U /\ received' = received + 1 /\ e.id = received + 1
        /\ Writing(r)' = 0 /\ Writing(r) = 0
    BY <1>2, <1>k, <1>w DEF ArrivesOffline
  <2>2. Q' = Q \/ (e = r /\ Q' = Q + 1)
    BY <1>2, <1>r DEF ArrivesOffline
  <2> QED BY <1>a, <1>i, <1>n, <1>t, <2>1, <2>2
<1>3. CASE WriteFails
  <2>1. received' = received /\ Writing(r)' = 0 /\ Writing(r) = (IF cur = r THEN 1 ELSE 0)
    BY <1>3, <1>w DEF WriteFails
  <2>2. Q' = Q \/ (cur = r /\ Q' = Q + 1)
    BY <1>3, <1>h, <1>r DEF WriteFails
  <2>3. (S' = S /\ U' = U) \/ (cur = r /\ S' = S + 1 /\ U' = U + 1)
    BY <1>3, <1>m DEF WriteFails
  <2> QED BY <1>a, <1>i, <1>n, <1>t, <2>1, <2>2, <2>3
<1>4. CASE WriteDone
  <2>1. received' = received /\ Writing(r)' = 0 /\ Writing(r) = (IF cur = r THEN 1 ELSE 0)
        /\ Q' = Q /\ U' = U /\ S' = (IF cur = r THEN S + 1 ELSE S)
    BY <1>4, <1>w, <1>o, <1>k DEF WriteDone
  <2> QED BY <1>a, <1>i, <1>n, <1>t, <2>1
<1>5. CASE LineTaken
  <2>1. received' = received /\ Writing(r)' = 0 /\ Writing(r) = 0 /\ S' = S /\ Q' = Q /\ U' = U
    BY <1>5, <1>w, <1>k DEF LineTaken
  <2> QED BY <1>a, <1>i, <1>n, <1>t, <2>1
<1>6. CASE LineFails
  <2>1. received' = received /\ Writing(r)' = 0 /\ Writing(r) = 0 /\ Q' = Q
    BY <1>6, <1>w, <1>k DEF LineFails
  <2>2. (S' = S /\ U' = U) \/ (cur = r /\ S' = S + 1 /\ U' = U + 1)
    BY <1>6, <1>m DEF LineFails
  <2>3. cur = r => Q > 0
    <3>1. queue # <<>> /\ cur = Head(queue)
      BY <1>6 DEF LineFails, HandInv
    <3>2. Head(queue) \in ToSet(queue)
      BY <1>t, <3>1, ToSetTail
    <3> QED BY <1>t, <3>1, <3>2, OccurrencesNat DEF Q
  <2> QED BY <1>a, <1>i, <1>n, <1>t, <2>1, <2>2, <2>3
<1>7. CASE LineDone
  <2>1. queue # <<>> /\ cur = Head(queue)
    BY <1>7 DEF LineDone, HandInv
  <2>2. received' = received /\ Writing(r)' = 0 /\ Writing(r) = 0 /\ U' = U
        /\ S' = (IF cur = r THEN S + 1 ELSE S) /\ Q' = (IF cur = r THEN Q - 1 ELSE Q)
    BY <1>7, <1>w, <1>o, <1>k, <2>1 DEF LineDone
  <2> QED BY <1>a, <1>i, <1>n, <1>t, <2>2
<1>8. CASE LineSkipped
  <2>1. received' = received /\ Writing(r)' = 0 /\ Writing(r) = 0 /\ U' = U /\ S' = S
        /\ (Q' = Q \/ Q' = Q - 1)
    BY <1>8, <1>w, <1>o, <1>k DEF LineSkipped
  <2> QED BY <1>a, <1>i, <1>n, <1>t, <2>1
<1>9. CASE BatchLost
  <2>1. received' = received /\ Writing(r)' = 0 /\ Writing(r) = 0 /\ U' = U /\ S' = S
    BY <1>9, <1>w, <1>k DEF BatchLost
  <2>2. Q' = 0
    BY <1>9, OccurrencesEmpty DEF BatchLost, Q
  <2> QED BY <1>a, <1>i, <1>n, <1>t, <2>1, <2>2
<1>10. CASE Idle
  <2>1. received' = received /\ Writing(r)' <= Writing(r) /\ U' = U /\ S' = S /\ Q' = Q
        /\ Writing(r) \in {0, 1} /\ Writing(r)' \in {0, 1}
    BY <1>10, <1>w, <1>k DEF Idle
  <2> QED BY <1>a, <1>i, <1>n, <1>t, <2>1
<1> QED
  BY StepCases, <1>1, <1>2, <1>3, <1>4, <1>5, <1>6, <1>7, <1>8, <1>9, <1>10

(***************************************************************************)
(* Retries do not multiply rows, for any number of records, losses and     *)
(* restarts: a record has one row, and one more for each of its inserts    *)
(* whose reply was lost.                                                   *)
(***************************************************************************)
THEOREM RetriesBounded == Spec => []CopiesBounded
<1>1. ASSUME Init PROVE CopyInv
  <2>1. ASSUME NEW r \in Record
        PROVE  Occurrences(stored, r) = 0 /\ Occurrences(queue, r) = 0 /\ Writing(r) = 0
               /\ Allowed(r) = 0
    <3>1. r.id \in Nat /\ ~(r.id <= received)
      BY <1>1, AgentdAssumption DEF Init, Record
    <3> QED BY <1>1, <3>1, OccurrencesEmpty DEF Init, Writing, InHand, Allowed
  <2> QED BY <2>1 DEF CopyInv
<1>2. BaseInv /\ CopyInv /\ [Next]_vars => CopyInv'
  BY CopyStep DEF BaseInv
<1>3. ASSUME BaseInv, CopyInv PROVE CopiesBounded
  <2> SUFFICES ASSUME NEW r \in ToSet(stored)
               PROVE  Occurrences(stored, r) <= 1 + Occurrences(unsure, r)
    BY DEF CopiesBounded, Copies, Occurrences
  <2>1. queue \in Seq(Record) /\ stored \in Seq(Record) /\ unsure \in Seq(Record)
    BY <1>3 DEF BaseInv, TypeOK
  <2>2. r \in Record
    BY <2>1, ToSetElements
  <2>3. /\ Occurrences(queue, r) \in Nat /\ Occurrences(stored, r) \in Nat
        /\ Occurrences(unsure, r) \in Nat /\ Writing(r) \in {0, 1}
    BY <2>1, OccurrencesNat DEF Writing
  <2>4. Occurrences(stored, r) + Occurrences(queue, r) + Writing(r) <= Allowed(r)
    BY <1>3, <2>2 DEF CopyInv
  <2>5. Allowed(r) \in {0, 1 + Occurrences(unsure, r)}
    BY DEF Allowed
  <2> QED BY <2>3, <2>4, <2>5
<1> QED BY <1>1, <1>2, <1>3, BaseCorrect, PTL DEF Spec
===============================================================================
