---------------------------- MODULE ProcwatchProofs ---------------------------
(***************************************************************************)
(* Proofs about Procwatch for every number of runs, labels, samples and    *)
(* losses.                                                                 *)
(***************************************************************************)
EXTENDS Procwatch, SeqLemmas

(* replay_sample is at work, also where ensure_prepared is called from it. *)
InHand == pc \in {"table", "prepare", "insert"} /\ caller = "replay"

(***************************************************************************)
(* A replay has the first line of the spill at hand, and only samples that *)
(* were taken are in the spill.                                            *)
(***************************************************************************)
HandInv ==
  /\ InHand => queue # <<>> /\ cur = Head(queue)
  /\ pc = "insert" => caller = "replay"
  /\ ToSet(queue) \subseteq 1..taken

(***************************************************************************)
(* Why CopiesBounded is inductive: a sample is a row or in the spill, and  *)
(* not both, up to the rows whose reply was lost; one that was not taken   *)
(* yet is neither.                                                         *)
(***************************************************************************)
Allowed(s) == IF s <= taken THEN 1 + Occurrences(unsure, s) ELSE 0

CopyInv == \A s \in Sample : Occurrences(stored, s) + Occurrences(queue, s) <= Allowed(s)

-------------------------------------------------------------------------------
(***************************************************************************)
(* The steps, as what they do to the samples.                              *)
(***************************************************************************)
Written(s) ==
  /\ ~InHand /\ ~InHand' /\ s = taken + 1 /\ taken' = s
  /\ stored' = Append(stored, s)
  /\ UNCHANGED <<cur, queue, refused, abandoned, unsure>>

Spilled(s) ==
  /\ ~InHand /\ ~InHand' /\ s = taken + 1 /\ taken' = s
  /\ \/ queue' = Append(queue, s) /\ refused' = refused
     \/ refused' = refused \cup {s} /\ queue' = queue
  /\ \/ UNCHANGED <<stored, unsure>>
     \/ stored' = Append(stored, s) /\ unsure' = Append(unsure, s)
  /\ UNCHANGED <<cur, abandoned>>

LineTaken ==
  /\ ~InHand /\ InHand' /\ queue # <<>> /\ cur' = Head(queue)
  /\ UNCHANGED <<queue, stored, unsure, taken, refused, abandoned>>

LineDone ==
  /\ InHand /\ ~InHand'
  /\ stored' = Append(stored, cur) /\ queue' = Tail(queue)
  /\ UNCHANGED <<cur, unsure, taken, refused, abandoned>>

LineUnsure ==
  /\ InHand /\ ~InHand'
  /\ stored' = Append(stored, cur) /\ unsure' = Append(unsure, cur)
  /\ UNCHANGED <<cur, queue, taken, refused, abandoned>>

BatchLost ==
  /\ InHand /\ ~InHand'
  /\ queue' = <<>> /\ abandoned' = abandoned \cup ToSet(queue)
  /\ UNCHANGED <<cur, stored, unsure, taken, refused>>

Idle ==
  /\ InHand' => InHand
  /\ UNCHANGED <<cur, queue, stored, unsure, taken, refused, abandoned>>

(***************************************************************************)
(* There are no other steps, and an insert is always one of a replay.      *)
(***************************************************************************)
LEMMA StepCases ==
  ASSUME TypeOK, HandInv, [Next]_vars
  PROVE  /\ \/ \E s \in Sample : Written(s) \/ Spilled(s)
            \/ LineTaken \/ LineDone \/ LineUnsure
            \/ BatchLost \/ Idle
         /\ (pc = "insert" => caller = "replay")'
<1> USE DEF main, server, history, InHand
<1>c. caller \in {"boot", "replay", "loop"} /\ phase \in {"boot", "loop", "final"}
  BY DEF TypeOK
<1>h. pc = "insert" => caller = "replay"
  BY DEF HandInv
<1> DEFINE I == pc = "insert" => caller = "replay"
           Cases == \/ \E s \in Sample : Written(s) \/ Spilled(s)
                    \/ LineTaken \/ LineDone \/ LineUnsure \/ BatchLost \/ Idle
<1>x. ASSUME NEW b \in BOOLEAN, Exit(b), b => InHand
      PROVE  (BatchLost \/ Idle) /\ I'
  BY <1>x DEF Exit, BatchLost, Idle
<1>f. ASSUME FlushEnd PROVE pc' \in {"sleep", "post", "closing"} /\ queue' = queue
  BY <1>f, <1>c DEF FlushEnd
<1>1. ASSUME NEW l \in Labels, Start(l) PROVE Cases /\ I'
  BY <1>1 DEF Start, Idle
<1>2. CASE EnsureTable
  <2>1. CASE Exit(caller = "replay")
    BY <1>2, <2>1, <1>x DEF EnsureTable
  <2>2. CASE ~Exit(caller = "replay")
    BY <1>2, <2>2 DEF EnsureTable, Idle
  <2> QED BY <2>1, <2>2
<1>3. CASE PrepareInsert
  <2>1. CASE Exit(caller = "replay")
    BY <1>3, <2>1, <1>x DEF PrepareInsert
  <2>2. CASE ~Exit(caller = "replay")
    <3>1. /\ pc = "prepare" /\ (pc' = "insert" => caller = "replay") /\ caller' = caller
          /\ pc' \in {"replay", "insert", "sample"}
          /\ UNCHANGED <<cur, queue, stored, unsure, taken, refused, abandoned>>
      BY <1>3, <1>c, <2>2 DEF PrepareInsert
    <3> QED BY <3>1 DEF Idle
  <2> QED BY <2>1, <2>2
<1>4. CASE ReplayEnd \/ ReplayFail
  <2>1. pc' \in {"sleep", "post", "closing"} /\ queue' = queue
    BY <1>4, <1>f DEF ReplayEnd, ReplayFail
  <2> QED BY <1>4, <2>1 DEF ReplayEnd, ReplayFail, Idle
<1>5. CASE ReplaySample
  BY <1>5 DEF ReplaySample, LineTaken
<1>6. CASE ReplayOk
  BY <1>6, <1>h DEF ReplayOk, LineDone
<1>7. CASE ReplayReplyLost
  <2>1. pc' \in {"sleep", "post", "closing"} /\ queue' = queue
    BY <1>7, <1>f DEF ReplayReplyLost
  <2> QED BY <1>7, <1>h, <2>1 DEF ReplayReplyLost, LineUnsure
<1>8. CASE LoopMaintain \/ LoopEnd
  <2>1. /\ pc \in {"sleep", "sample"} /\ pc' \in {"replay", "post", "closing"}
        /\ UNCHANGED <<cur, queue, stored, unsure, taken, refused, abandoned>>
    BY <1>8 DEF LoopMaintain, LoopEnd, Maintain
  <2> QED BY <2>1 DEF Idle
<1>9. CASE Reprepare \/ NoReprepare
  BY <1>9 DEF Reprepare, NoReprepare, Idle
<1>10. CASE RoundEnd \/ Close
  BY <1>10 DEF RoundEnd, Close, Idle
<1>11. ASSUME NEW s \in Sample, WriteOk(s) PROVE Cases /\ I'
  <2>1. Written(s) /\ pc' = "sample"
    BY <1>11 DEF WriteOk, Taken, Written
  <2> QED BY <2>1
<1>12. ASSUME NEW s \in Sample, WriteFail(s) \/ WriteReplyLost(s) PROVE Cases /\ I'
  <2>1. Spilled(s) /\ pc' = "sample"
    BY <1>12 DEF WriteFail, WriteReplyLost, SpillSample, Taken, Spilled
  <2> QED BY <2>1
<1>13. CASE LinkEvent
  BY <1>13, <1>h DEF LinkEvent, Idle
<1>14. ASSUME NEW l \in Labels, DropInactive(l) PROVE Cases /\ I'
  BY <1>14, <1>h DEF DropInactive, Idle
<1>15. CASE UNCHANGED vars
  BY <1>15, <1>h DEF vars, Idle
<1> QED
  BY <1>1, <1>2, <1>3, <1>4, <1>5, <1>6, <1>7, <1>8, <1>9, <1>10, <1>11, <1>12, <1>13,
     <1>14, <1>15
  DEF Next, Running
-------------------------------------------------------------------------------
(* The part of TypeOK that is about the samples. *)
DataOK ==
  /\ cur \in Sample \cup {NoSample}
  /\ queue \in Seq(Sample) /\ stored \in Seq(Sample) /\ unsure \in Seq(Sample)
  /\ taken \in 0..MaxSamples
  /\ refused \subseteq 1..taken /\ abandoned \subseteq 1..taken

(* And the part that is about the run and the server. *)
ControlOK ==
  /\ pc \in {"table", "prepare", "sleep", "replay", "insert", "post", "sample",
             "closing", "exited", "stopped"}
  /\ caller \in {"boot", "replay", "loop"}
  /\ phase \in {"boot", "loop", "final"}
  /\ label \in Labels
  /\ prepared \in {0, 1} /\ wasOffline \in {0, 1}
  /\ stmt \in {0, 1} /\ tables \subseteq Labels
  /\ runs \in 0..MaxRuns

(***************************************************************************)
(* They are the whole of it, with the connection.                          *)
(***************************************************************************)
LEMMA TypeParts == TypeOK <=> DataOK /\ ControlOK /\ LinkTypeOK
BY DEF TypeOK, DataOK, ControlOK

(***************************************************************************)
(* What a step does to what the spill and the table hold.                  *)
(***************************************************************************)
LEMMA Places ==
  ASSUME TypeOK
  PROVE  /\ \A s \in Sample : /\ Append(stored, s) \in Seq(Sample)
                              /\ Append(queue, s) \in Seq(Sample)
                              /\ Append(unsure, s) \in Seq(Sample)
                              /\ ToSet(Append(stored, s)) = ToSet(stored) \cup {s}
                              /\ ToSet(Append(queue, s)) = ToSet(queue) \cup {s}
         /\ queue # <<>> => /\ Tail(queue) \in Seq(Sample) /\ Head(queue) \in Sample
                            /\ ToSet(queue) = {Head(queue)} \cup ToSet(Tail(queue))
         /\ ToSet(<<>>) = {} /\ <<>> \in Seq(Sample)
<1>1. queue \in Seq(Sample) /\ stored \in Seq(Sample) /\ unsure \in Seq(Sample)
  BY DEF TypeOK
<1>2. <<>> \in Seq(Sample)
  OBVIOUS
<1>3. \A s \in Sample : /\ Append(stored, s) \in Seq(Sample)
                        /\ Append(queue, s) \in Seq(Sample)
                        /\ Append(unsure, s) \in Seq(Sample)
  BY <1>1
<1> QED BY <1>1, <1>2, <1>3, ToSetAppend, ToSetTail, ToSetEmpty

(***************************************************************************)
(* What is at hand is the first of the spill, and a sample that was taken. *)
(***************************************************************************)
LEMMA DataStep ==
  ASSUME TypeOK, HandInv, [Next]_vars
  PROVE  DataOK' /\ HandInv'
<1>t. DataOK
  BY TypeParts
<1>h. InHand => queue # <<>> /\ cur = Head(queue)
  BY DEF HandInv
<1>q. ToSet(queue) \subseteq 1..taken
  BY DEF HandInv
<1>i. (pc = "insert" => caller = "replay")'
  BY StepCases
<1>n. /\ \A s \in Sample : s = taken + 1 => /\ s \in 0..MaxSamples /\ s \in 1..s
                                            /\ 1..taken \subseteq 1..s
      /\ Sample \subseteq 1..MaxSamples
  BY <1>t, ProcwatchAssumption DEF Sample, DataOK
<1> USE DEF DataOK
<1>1. ASSUME NEW s \in Sample, Written(s) PROVE DataOK' /\ HandInv'
  <2>1. stored' \in Seq(Sample)
    BY <1>1, Places DEF Written
  <2> QED BY <1>1, <1>t, <1>q, <1>i, <1>n, <2>1 DEF Written, HandInv
<1>2. ASSUME NEW s \in Sample, Spilled(s) PROVE DataOK' /\ HandInv'
  <2>1. queue' \in Seq(Sample) /\ ToSet(queue') \subseteq ToSet(queue) \cup {s}
    BY <1>2, <1>t, Places DEF Spilled
  <2>2. stored' \in Seq(Sample) /\ unsure' \in Seq(Sample)
    BY <1>2, <1>t, Places DEF Spilled
  <2>3. taken' = s /\ s = taken + 1 /\ refused' \subseteq refused \cup {s}
        /\ abandoned' = abandoned /\ cur' = cur /\ ~InHand'
    BY <1>2 DEF Spilled
  <2>4. taken' \in 0..MaxSamples /\ refused' \subseteq 1..taken' /\ abandoned' \subseteq 1..taken'
        /\ ToSet(queue') \subseteq 1..taken'
    BY <1>t, <1>q, <1>n, <2>1, <2>3
  <2> QED BY <1>t, <1>i, <2>1, <2>2, <2>3, <2>4 DEF HandInv
<1>3. CASE LineTaken
  <2>1. Head(queue) \in Sample
    BY <1>3, Places DEF LineTaken
  <2> QED BY <1>3, <1>t, <1>q, <1>i, <2>1 DEF LineTaken, HandInv
<1>4. CASE LineDone
  <2>1. queue # <<>> /\ cur \in Sample
    BY <1>4, <1>h, Places DEF LineDone
  <2>2. /\ stored' \in Seq(Sample) /\ queue' \in Seq(Sample)
        /\ ToSet(queue') \subseteq ToSet(queue)
    BY <1>4, <2>1, Places DEF LineDone
  <2> QED BY <1>4, <1>t, <1>q, <1>i, <2>2 DEF LineDone, HandInv
<1>5. CASE LineUnsure
  <2>1. cur \in Sample
    BY <1>5, <1>h, Places DEF LineUnsure
  <2>2. stored' \in Seq(Sample) /\ unsure' \in Seq(Sample)
    BY <1>5, <2>1, Places DEF LineUnsure
  <2> QED BY <1>5, <1>t, <1>q, <1>i, <2>2 DEF LineUnsure, HandInv
<1>6. CASE BatchLost
  <2>1. queue' \in Seq(Sample) /\ ToSet(queue') = {}
    BY <1>6, Places DEF BatchLost
  <2> QED BY <1>6, <1>t, <1>q, <1>i, <2>1 DEF BatchLost, HandInv
<1>7. CASE Idle
  BY <1>7, <1>t, <1>h, <1>q, <1>i DEF Idle, HandInv
<1> QED BY StepCases, <1>1, <1>2, <1>3, <1>4, <1>5, <1>6, <1>7

(***************************************************************************)
(* The connection stays of its type.                                       *)
(***************************************************************************)
LEMMA LinkStep ==
  ASSUME TypeOK, [Next]_vars
  PROVE  LinkTypeOK'
<1> USE LinkAssumption DEF linkVars, buffer
<1>t. LinkTypeOK
  BY TypeParts
<1>x. ASSUME Closed PROVE LinkTypeOK'
  BY <1>x, <1>t DEF Closed, LinkTypeOK
<1>k. ASSUME UNCHANGED linkVars PROVE LinkTypeOK'
  BY <1>k, <1>t DEF LinkTypeOK
<1>l. ASSUME Loss PROVE losses' \in 0..MaxLosses
  BY <1>l, <1>t DEF Loss, LinkTypeOK
<1>1. ASSUME NEW l \in Labels, Start(l) PROVE LinkTypeOK'
  BY <1>1, <1>t DEF Start, Open, Connect, LinkTypeOK
<1>2. CASE EnsureTable \/ PrepareInsert \/ Close
  BY <1>2, <1>x, <1>k DEF EnsureTable, PrepareInsert, Close, Exit
<1>3. CASE ReplayEnd \/ ReplayFail
  BY <1>3, <1>t DEF ReplayEnd, ReplayFail, FlushEnd, Sent, LinkTypeOK
<1>4. CASE ReplaySample \/ ReplayOk \/ Reprepare \/ NoReprepare
  BY <1>4, <1>k DEF ReplaySample, ReplayOk, Reprepare, NoReprepare
<1>5. CASE LoopMaintain \/ LoopEnd
  <2>1. Ensure
    BY <1>5 DEF LoopMaintain, LoopEnd, Maintain
  <2> QED BY <2>1, <1>t DEF Ensure, Connect, LinkTypeOK
<1>6. CASE RoundEnd
  BY <1>6, <1>t DEF RoundEnd, WriteSeesLoss, LinkTypeOK
<1>7. ASSUME NEW s \in Sample, WriteOk(s) \/ WriteFail(s) PROVE LinkTypeOK'
  BY <1>7, <1>t DEF WriteOk, WriteFail, Taken, SpillSample, WriteSeesLoss, LinkTypeOK
<1>8. ASSUME NEW s \in Sample, WriteReplyLost(s) PROVE LinkTypeOK'
  BY <1>8, <1>l, <1>t DEF WriteReplyLost, Taken, SpillSample, LinkTypeOK
<1>9. CASE ReplayReplyLost
  BY <1>9, <1>l, <1>t DEF ReplayReplyLost, FlushEnd, LinkTypeOK
<1>10. CASE LinkEvent
  BY <1>10, <1>l, <1>t DEF LinkEvent, ServerDown, SessionCut, ServerUp, LinkTypeOK
<1>11. ASSUME NEW l \in Labels, DropInactive(l) PROVE LinkTypeOK'
  BY <1>11, <1>l, <1>t DEF DropInactive, LinkTypeOK
<1>12. CASE UNCHANGED vars
  BY <1>12, <1>k DEF vars
<1> QED
  BY <1>1, <1>2, <1>3, <1>4, <1>5, <1>6, <1>7, <1>8, <1>9, <1>10, <1>11, <1>12
  DEF Next, Running

(***************************************************************************)
(* The run is where it can be.                                             *)
(***************************************************************************)
LEMMA ControlStep ==
  ASSUME TypeOK, [Next]_vars
  PROVE  ControlOK'
<1> USE DEF main, server, history
<1>t. ControlOK /\ online \in {0, 1}
  BY TypeParts DEF LinkTypeOK
<1>k. ASSUME UNCHANGED <<caller, phase, label, prepared, wasOffline, stmt, tables, runs>>,
             pc' \in {pc, "table", "prepare", "sleep", "replay", "insert", "post", "sample",
                      "closing", "exited", "stopped"}
      PROVE  ControlOK'
  BY <1>k, <1>t DEF ControlOK
<1>x. ASSUME NEW b, Exit(b) PROVE ControlOK'
  BY <1>x, <1>t DEF Exit, ControlOK
<1>f. ASSUME FlushEnd PROVE pc' \in {"sleep", "post", "closing"}
  BY <1>f, <1>t DEF FlushEnd, ControlOK
<1>1. ASSUME NEW l \in Labels, Start(l) PROVE ControlOK'
  <2>1. runs' \in 0..MaxRuns
    BY <1>1, <1>t, ProcwatchAssumption DEF Start, ControlOK
  <2>2. pc' \in {"table", "sleep"}
    BY <1>1 DEF Start
  <2> QED BY <1>1, <1>t, <2>1, <2>2 DEF Start, ControlOK
<1>2. CASE EnsureTable
  <2>1. CASE Exit(caller = "replay")
    BY <2>1, <1>x
  <2>2. CASE ~Exit(caller = "replay")
    BY <1>2, <1>t, <2>2 DEF EnsureTable, ControlOK
  <2> QED BY <2>1, <2>2
<1>3. CASE PrepareInsert
  <2>1. CASE Exit(caller = "replay")
    BY <2>1, <1>x
  <2>2. CASE ~Exit(caller = "replay")
    <3>1. pc' \in {"replay", "insert", "sample"} /\ stmt' = 1 /\ prepared' = 1
      BY <1>3, <1>t, <2>2 DEF PrepareInsert, ControlOK
    <3> QED BY <1>3, <1>t, <2>2, <3>1 DEF PrepareInsert, ControlOK
  <2> QED BY <2>1, <2>2
<1>4. CASE ReplayEnd \/ ReplayFail \/ ReplayReplyLost
  <2>1. pc' \in {"sleep", "post", "closing"}
    BY <1>4, <1>f DEF ReplayEnd, ReplayFail, ReplayReplyLost
  <2> QED BY <1>4, <1>k, <2>1 DEF ReplayEnd, ReplayFail, ReplayReplyLost
<1>5. CASE ReplaySample
  <2>1. pc' \in {"insert", "table"} /\ caller' = "replay"
    BY <1>5 DEF ReplaySample
  <2> QED BY <1>5, <1>t, <2>1 DEF ReplaySample, ControlOK
<1>6. CASE ReplayOk \/ NoReprepare \/ RoundEnd \/ Close
  BY <1>6, <1>k DEF ReplayOk, NoReprepare, RoundEnd, Close
<1>7. CASE LoopMaintain \/ LoopEnd
  <2>1. /\ pc' \in {"replay", "post", "closing"} /\ phase' \in {"loop", "final"}
        /\ stmt' \in {0, stmt} /\ wasOffline' \in {wasOffline, 1 - online}
        /\ UNCHANGED <<caller, label, prepared, tables, runs>>
    BY <1>7 DEF LoopMaintain, LoopEnd, Maintain
  <2> QED BY <1>t, <2>1 DEF ControlOK
<1>8. CASE Reprepare
  <2>1. pc' \in {"sample", "table"} /\ caller' = "loop" /\ prepared' = 0
    BY <1>8 DEF Reprepare
  <2> QED BY <1>8, <1>t, <2>1 DEF Reprepare, ControlOK
<1>9. ASSUME NEW s \in Sample, WriteOk(s) \/ WriteFail(s) \/ WriteReplyLost(s) PROVE ControlOK'
  BY <1>9, <1>k DEF WriteOk, WriteFail, WriteReplyLost, Taken, SpillSample
<1>10. CASE LinkEvent
  BY <1>10, <1>k DEF LinkEvent
<1>11. ASSUME NEW l \in Labels, DropInactive(l) PROVE ControlOK'
  BY <1>11, <1>t DEF DropInactive, ControlOK
<1>12. CASE UNCHANGED vars
  BY <1>12, <1>k DEF vars
<1> QED
  BY <1>1, <1>2, <1>3, <1>4, <1>5, <1>6, <1>7, <1>8, <1>9, <1>10, <1>11, <1>12
  DEF Next, Running

(***************************************************************************)
(* TypeOK with what it needs to be inductive.                              *)
(***************************************************************************)
BaseInv == TypeOK /\ HandInv

(***************************************************************************)
(* And that it is.                                                         *)
(***************************************************************************)
LEMMA BaseCorrect == Spec => []BaseInv
<1>1. ASSUME Init PROVE BaseInv
  <2>1. <<>> \in Seq(Sample) /\ ToSet(<<>>) = {}
    BY ToSetEmpty
  <2>2. DataOK
    BY <1>1, <2>1, ProcwatchAssumption DEF Init, DataOK
  <2>3. ControlOK
    BY <1>1, ProcwatchAssumption DEF Init, ControlOK
  <2>4. LinkTypeOK
    BY <1>1, LinkAssumption DEF Init, LinkInit, LinkTypeOK
  <2>5. HandInv
    BY <1>1, <2>1 DEF Init, HandInv, InHand
  <2> QED BY <2>2, <2>3, <2>4, <2>5, TypeParts DEF BaseInv
<1>2. ASSUME BaseInv, [Next]_vars PROVE BaseInv'
  <2>1. DataOK' /\ HandInv' /\ ControlOK' /\ LinkTypeOK'
    BY <1>2, DataStep, ControlStep, LinkStep DEF BaseInv
  <2>2. TypeOK'
    BY <2>1 DEF TypeOK, DataOK, ControlOK
  <2> QED BY <2>1, <2>2 DEF BaseInv
<1> QED BY <1>1, <1>2, PTL DEF Spec

(***************************************************************************)
(* procwatch's variables keep their types; only samples that were taken    *)
(* are ever refused or abandoned.                                          *)
(***************************************************************************)
THEOREM TypeCorrect == Spec => []TypeOK
<1>1. BaseInv => TypeOK
  BY DEF BaseInv
<1> QED BY <1>1, BaseCorrect, PTL

-------------------------------------------------------------------------------
(***************************************************************************)
(* Every sample that was ever taken, by whichever run, is a row or in the  *)
(* spill that the runs share, unless the spill refused it or a run exited  *)
(* while it replayed the batch with it.                                    *)
(***************************************************************************)
THEOREM NoSampleForgotten == Spec => []SamplesKept
<1>1. Init => SamplesKept
  BY DEF Init, SamplesKept
<1>2. ASSUME BaseInv, SamplesKept, [Next]_vars PROVE SamplesKept'
  <2>t. TypeOK /\ HandInv
    BY <1>2 DEF BaseInv
  <2>h. InHand => queue # <<>> /\ cur = Head(queue)
    BY <2>t DEF HandInv
  <2>k. 1..taken \subseteq ToSet(stored) \cup ToSet(queue) \cup refused \cup abandoned
    BY <1>2 DEF SamplesKept
  <2>n. \A s \in Sample : s = taken + 1 => 1..s = (1..taken) \cup {s}
    BY <2>t DEF Sample, TypeOK
  <2>1. ASSUME NEW s \in Sample, Written(s) PROVE SamplesKept'
    <3>1. ToSet(stored') = ToSet(stored) \cup {s}
      BY <2>t, <2>1, Places DEF Written
    <3> QED BY <2>k, <2>n, <2>1, <3>1 DEF Written, SamplesKept
  <2>2. ASSUME NEW s \in Sample, Spilled(s) PROVE SamplesKept'
    <3>1. ToSet(queue) \cup refused \cup {s} \subseteq ToSet(queue') \cup refused'
      BY <2>t, <2>2, Places DEF Spilled
    <3>2. ToSet(stored) \subseteq ToSet(stored')
      BY <2>t, <2>2, Places DEF Spilled
    <3> QED BY <2>k, <2>n, <2>2, <3>1, <3>2 DEF Spilled, SamplesKept
  <2>3. CASE LineTaken \/ Idle
    BY <2>k, <2>3 DEF LineTaken, Idle, SamplesKept
  <2>4. CASE LineDone
    <3>1. queue # <<>> /\ cur = Head(queue)
      BY <2>h, <2>4 DEF LineDone
    <3>2. ToSet(stored') = ToSet(stored) \cup {cur} /\ ToSet(queue) = {cur} \cup ToSet(queue')
      BY <2>t, <2>4, <3>1, Places DEF LineDone
    <3> QED BY <2>k, <2>4, <3>2 DEF LineDone, SamplesKept
  <2>5. CASE LineUnsure
    <3>1. queue # <<>> /\ cur = Head(queue)
      BY <2>h, <2>5 DEF LineUnsure
    <3>2. ToSet(stored') = ToSet(stored) \cup {cur}
      BY <2>t, <2>5, <3>1, Places DEF LineUnsure
    <3> QED BY <2>k, <2>5, <3>2 DEF LineUnsure, SamplesKept
  <2>6. CASE BatchLost
    BY <2>k, <2>6 DEF BatchLost, SamplesKept
  <2> QED BY <1>2, <2>t, StepCases, <2>1, <2>2, <2>3, <2>4, <2>5, <2>6
<1> QED BY <1>1, <1>2, BaseCorrect, PTL DEF Spec
-------------------------------------------------------------------------------
(***************************************************************************)
(* CopyInv is inductive: a step that adds a row takes a sample that was    *)
(* not there before, takes the line out of the spill, or adds to unsure.   *)
(***************************************************************************)
LEMMA CopyStep ==
  ASSUME TypeOK, HandInv, CopyInv, [Next]_vars
  PROVE  CopyInv'
<1> SUFFICES ASSUME NEW r \in Sample
             PROVE  (Occurrences(stored, r) + Occurrences(queue, r) <= Allowed(r))'
  BY DEF CopyInv
<1> DEFINE S == Occurrences(stored, r)
           Q == Occurrences(queue, r)
           U == Occurrences(unsure, r)
<1>t. /\ queue \in Seq(Sample) /\ stored \in Seq(Sample) /\ unsure \in Seq(Sample)
      /\ taken \in Nat /\ r \in Nat
  BY ProcwatchAssumption DEF TypeOK, Sample
<1>n. S \in Nat /\ Q \in Nat /\ U \in Nat
  BY <1>t, OccurrencesNat
<1>o. /\ \A s \in Sample :
           /\ stored' = Append(stored, s) => S' = IF s = r THEN S + 1 ELSE S
           /\ unsure' = Append(unsure, s) => U' = IF s = r THEN U + 1 ELSE U
           /\ queue' = Append(queue, s) => Q' = IF s = r THEN Q + 1 ELSE Q
      /\ queue # <<>> /\ queue' = Tail(queue) => Q' = IF Head(queue) = r THEN Q - 1 ELSE Q
  <2>1. \A s \in Sample : /\ Occurrences(Append(stored, s), r) = IF s = r THEN S + 1 ELSE S
                          /\ Occurrences(Append(unsure, s), r) = IF s = r THEN U + 1 ELSE U
                          /\ Occurrences(Append(queue, s), r) = IF s = r THEN Q + 1 ELSE Q
    BY <1>t, OccurrencesAppend
  <2>2. queue # <<>> => Occurrences(Tail(queue), r) = IF Head(queue) = r THEN Q - 1 ELSE Q
    BY <1>t, OccurrencesTail
  <2> QED BY <2>1, <2>2
<1>k. /\ stored' = stored => S' = S
      /\ unsure' = unsure => U' = U
      /\ queue' = queue => Q' = Q
  OBVIOUS
<1>i. S + Q <= Allowed(r)
  BY DEF CopyInv
<1>a. /\ Allowed(r) = (IF r <= taken THEN 1 + U ELSE 0)
      /\ Allowed(r)' = (IF r <= taken' THEN 1 + U' ELSE 0)
  BY DEF Allowed
<1>h. InHand => queue # <<>> /\ cur = Head(queue) /\ cur \in Sample /\ (cur = r => Q > 0)
  <2>1. ASSUME InHand PROVE queue # <<>> /\ cur = Head(queue)
    BY <2>1 DEF HandInv
  <2>2. ASSUME InHand PROVE cur \in Sample /\ cur \in ToSet(queue)
    BY <1>t, <2>1, <2>2, ToSetTail
  <2> QED BY <1>t, <2>1, <2>2, OccurrencesNat
<1> HIDE DEF S, Q, U
<1>g. SUFFICES S' + Q' <= Allowed(r)'
  BY DEF S, Q
<1>1. ASSUME NEW s \in Sample, Written(s) PROVE S' + Q' <= Allowed(r)'
  <2>1. taken' = taken + 1 /\ s = taken + 1 /\ Q' = Q /\ U' = U
        /\ S' = (IF s = r THEN S + 1 ELSE S)
    BY <1>1, <1>k, <1>o DEF Written
  <2> QED BY <1>a, <1>i, <1>n, <1>t, <2>1
<1>2. ASSUME NEW s \in Sample, Spilled(s) PROVE S' + Q' <= Allowed(r)'
  <2>1. taken' = taken + 1 /\ s = taken + 1
    BY <1>2 DEF Spilled
  <2>2. Q' = Q \/ (s = r /\ Q' = Q + 1)
    BY <1>2, <1>k, <1>o DEF Spilled
  <2>3. (S' = S /\ U' = U) \/ (s = r /\ S' = S + 1 /\ U' = U + 1)
    BY <1>2, <1>k, <1>o DEF Spilled
  <2> QED BY <1>a, <1>i, <1>n, <1>t, <2>1, <2>2, <2>3
<1>3. CASE LineTaken \/ Idle
  <2>1. taken' = taken /\ S' = S /\ Q' = Q /\ U' = U
    BY <1>3, <1>k DEF LineTaken, Idle
  <2> QED BY <1>a, <1>i, <2>1
<1>4. CASE LineDone
  <2>1. taken' = taken /\ U' = U
        /\ S' = (IF cur = r THEN S + 1 ELSE S) /\ Q' = (IF cur = r THEN Q - 1 ELSE Q)
    BY <1>4, <1>h, <1>k, <1>o DEF LineDone
  <2> QED BY <1>a, <1>i, <1>n, <1>t, <2>1
<1>5. CASE LineUnsure
  <2>1. taken' = taken /\ Q' = Q /\ (cur = r => Q > 0)
        /\ S' = (IF cur = r THEN S + 1 ELSE S) /\ U' = (IF cur = r THEN U + 1 ELSE U)
    BY <1>5, <1>h, <1>k, <1>o DEF LineUnsure
  <2> QED BY <1>a, <1>i, <1>n, <1>t, <2>1
<1>6. CASE BatchLost
  <2>1. taken' = taken /\ U' = U /\ S' = S
    BY <1>6, <1>k DEF BatchLost
  <2>2. Q' = 0
    BY <1>6, OccurrencesEmpty DEF BatchLost, Q
  <2> QED BY <1>a, <1>i, <1>n, <1>t, <2>1, <2>2
<1> QED BY StepCases, <1>1, <1>2, <1>3, <1>4, <1>5, <1>6

(***************************************************************************)
(* Retries do not multiply rows, for any number of samples, losses and     *)
(* runs: a sample has one row, and one more for each of its inserts whose  *)
(* reply was lost.                                                         *)
(***************************************************************************)
THEOREM RetriesBounded == Spec => []CopiesBounded
<1>1. ASSUME Init PROVE CopyInv
  <2>1. ASSUME NEW r \in Sample
        PROVE  Occurrences(stored, r) = 0 /\ Occurrences(queue, r) = 0 /\ Allowed(r) = 0
    <3>1. r \in Nat /\ ~(r <= taken)
      BY <1>1, ProcwatchAssumption DEF Init, Sample
    <3> QED BY <1>1, <3>1, OccurrencesEmpty DEF Init, Allowed
  <2> QED BY <2>1 DEF CopyInv
<1>2. BaseInv /\ CopyInv /\ [Next]_vars => CopyInv'
  BY CopyStep DEF BaseInv
<1>3. ASSUME BaseInv, CopyInv PROVE CopiesBounded
  <2> SUFFICES ASSUME NEW r \in ToSet(stored)
               PROVE  Occurrences(stored, r) <= 1 + Occurrences(unsure, r)
    BY DEF CopiesBounded, Copies, Occurrences
  <2>1. queue \in Seq(Sample) /\ stored \in Seq(Sample) /\ unsure \in Seq(Sample)
    BY <1>3 DEF BaseInv, TypeOK
  <2>2. r \in Sample
    BY <2>1, ToSetElements
  <2>3. /\ Occurrences(queue, r) \in Nat /\ Occurrences(stored, r) \in Nat
        /\ Occurrences(unsure, r) \in Nat
    BY <2>1, OccurrencesNat
  <2>4. Occurrences(stored, r) + Occurrences(queue, r) <= Allowed(r)
    BY <1>3, <2>2 DEF CopyInv
  <2>5. Allowed(r) \in {0, 1 + Occurrences(unsure, r)}
    BY DEF Allowed
  <2> QED BY <2>3, <2>4, <2>5
<1> QED BY <1>1, <1>2, <1>3, BaseCorrect, PTL DEF Spec
===============================================================================
