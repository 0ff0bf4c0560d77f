--------------------------- MODULE SpillBufferProofs --------------------------
(***************************************************************************)
(* Proofs about SpillBuffer for every number of records and faults.        *)
(***************************************************************************)
EXTENDS SpillBuffer, SeqLemmas

(***************************************************************************)
(* The lines of the companion files are records.                           *)
(***************************************************************************)
LEMMA LinesTyped ==
  TypeOK => ToSet(flushing) \subseteq Record /\ ToSet(rest) \subseteq Record
  BY DEF TypeOK, ToSet

(***************************************************************************)
(* A suffix cut short: its lines are the first ones of the suffix.         *)
(***************************************************************************)
LEMMA CutFacts ==
  ASSUME NEW S, NEW s \in Seq(S), NEW p \in 0..Len(s), NEW n \in p + 1 .. Len(s)
  PROVE  /\ SubSeq(s, p + 1, n) \in Seq(S)
         /\ Len(SubSeq(s, p + 1, n)) = n - p
         /\ \A i \in 1..n - p : SubSeq(s, p + 1, n)[i] = s[p + i]
  OBVIOUS

(***************************************************************************)
(* Every step keeps every variable of its type.                            *)
(***************************************************************************)
LEMMA TypeStep == TypeOK /\ [Next]_vars => TypeOK'
<1> SUFFICES ASSUME TypeOK, [Next]_vars PROVE TypeOK'
  OBVIOUS
<1> USE ConstantsAssumption DEF TypeOK, Step, vars, files, conn, history
<1>1. CASE SpillOk
  BY <1>1 DEF SpillOk, Record
<1>2. CASE SpillFail
  BY <1>2 DEF SpillFail, Fault
<1>3. CASE EnsureAlive
  BY <1>3 DEF EnsureAlive
<1>4. CASE EnsureTooSoon
  BY <1>4 DEF EnsureTooSoon
<1>5. ASSUME NEW up \in {0, 1}, EnsureReconnect(up)
       PROVE  TypeOK'
  BY <1>5 DEF EnsureReconnect
<1>6. CASE MarkOffline
  BY <1>6 DEF MarkOffline
<1>7. CASE Tick
  BY <1>7 DEF Tick
<1>8. CASE FlushLinkBad
  BY <1>8 DEF FlushLinkBad
<1>9. CASE FlushClaim
  BY <1>9 DEF FlushClaim, CanFlush
<1>10. CASE FlushNothing
  BY <1>10 DEF FlushNothing, CanFlush
<1>11. CASE FlushClaimFail
  BY <1>11 DEF FlushClaimFail, CanFlush, Fault
<1>12. CASE FlushOpen
  BY <1>12 DEF FlushOpen
<1>13. CASE FlushOpenFail
  BY <1>13 DEF FlushOpenFail, Fault, HandBack
<1>14. CASE FlushReplayOk
  BY <1>14 DEF FlushReplayOk
<1>15. CASE FlushReplayFail
  BY <1>15 DEF FlushReplayFail
<1>16. CASE FlushSaveRest
  BY <1>16, SeqFacts DEF FlushSaveRest
<1>17. CASE FlushRestOpenFail
  BY <1>17 DEF FlushRestOpenFail, Fault, HandBack
<1>18. CASE FlushRestCloseFail
  BY <1>18 DEF FlushRestCloseFail, Fault, HandBack
<1>19. CASE FlushMerge
  BY <1>19 DEF FlushMerge
<1>20. CASE FlushUnlinkSpill
  BY <1>20 DEF FlushUnlinkSpill
<1>21. CASE FlushRestore
  BY <1>21 DEF FlushRestore
<1>22. CASE FlushRestoreFail
  BY <1>22, LinesTyped DEF FlushRestoreFail, Abandon, Fault
<1>23. CASE FlushCleanup
  BY <1>23 DEF FlushCleanup
<1>24. CASE FlushDone
  BY <1>24 DEF FlushDone
<1>25. CASE Close
  BY <1>25 DEF Close
<1>26. CASE Crash
  BY <1>26, LinesTyped DEF Crash, Abandon, Fault
<1>27. CASE Restart
  BY <1>27 DEF Restart, Connect
<1>28. CASE UNCHANGED vars
  BY <1>28
<1>29. CASE FlushHandBackFail
  <2>1. rest' \in Seq(Record)
    <3>1. rest' = rest \/ rest' = <<>>
      BY <1>29, Zenon DEF FlushHandBackFail
    <3>2. rest \in Seq(Record) /\ <<>> \in Seq(Record)
      OBVIOUS
    <3> QED BY <3>1, <3>2, Zenon
  <2>2. claimed' \subseteq Record /\ pos' = 0 /\ faults' \in 0..MaxFaults
    BY <1>29, LinesTyped DEF FlushHandBackFail, Abandon, Fault
  <2>3. pc' = "idle" /\ UNCHANGED <<spill, flushing, conn, created, accepted, delivered>>
    BY <1>29 DEF FlushHandBackFail
  <2> QED BY <2>1, <2>2, <2>3
<1>30. CASE FlushReadFail
  BY <1>30, LinesTyped DEF FlushReadFail, Abandon, Fault
<1>31. CASE FlushSaveRestCut
  <2>1. PICK n \in pos + 1 .. Len(flushing) : rest' = SubSeq(flushing, pos + 1, n)
    BY <1>31 DEF FlushSaveRestCut
  <2>2. rest' \in Seq(Record)
    BY <2>1, CutFacts
  <2> QED BY <1>31, <2>2, LinesTyped DEF FlushSaveRestCut, Fault
<1> QED
  BY <1>1, <1>2, <1>3, <1>4, <1>5, <1>6, <1>7, <1>8, <1>9, <1>10, <1>11,
     <1>12, <1>13, <1>14, <1>15, <1>16, <1>17, <1>18, <1>19, <1>20, <1>21, <1>22,
     <1>23, <1>24, <1>25, <1>26, <1>27, <1>28, <1>29, <1>30, <1>31
  DEF Next, Flush

(***************************************************************************)
(* Type correctness of the spill buffer, whatever fails.                   *)
(***************************************************************************)
THEOREM TypeCorrect == Spec => []TypeOK
<1>1. Init => TypeOK
  BY ConstantsAssumption DEF Init, TypeOK, Record, Step
<1> QED
  BY <1>1, TypeStep, PTL DEF Spec

-------------------------------------------------------------------------------
(***************************************************************************)
(* What the backlog is at each step of a flush, given an empty spill file. *)
(***************************************************************************)
LEMMA BacklogCases ==
  ASSUME TypeOK
  PROVE  /\ pc \in {"idle", "down", "cleanup"} => Backlog = spill
         /\ pc \in {"unlink", "restore"} => Backlog = rest
         /\ pc = "merge" /\ spill = <<>> => Backlog = rest
         /\ pc \in {"open", "drain", "save"} /\ spill = <<>> =>
              Backlog = SubSeq(flushing, pos + 1, Len(flushing))
<1>1. pc \in {"idle", "down", "cleanup"} => Backlog = spill
  BY DEF Backlog
<1>2. pc \in {"unlink", "restore"} => Backlog = rest
  BY DEF Backlog
<1>3. pc = "merge" /\ spill = <<>> => Backlog = rest
  BY DEF Backlog, TypeOK
<1>4. pc \in {"open", "drain", "save"} /\ spill = <<>> =>
        Backlog = SubSeq(flushing, pos + 1, Len(flushing))
  <2> SUFFICES ASSUME pc \in {"open", "drain", "save"}, spill = <<>>
               PROVE  Backlog = SubSeq(flushing, pos + 1, Len(flushing))
    OBVIOUS
  <2>1. SubSeq(flushing, pos + 1, Len(flushing)) \in Seq(Record)
    BY SeqFacts DEF TypeOK
  <2>2. SubSeq(flushing, pos + 1, Len(flushing)) \o <<>>
          = SubSeq(flushing, pos + 1, Len(flushing))
    BY <2>1
  <2> QED BY <2>2 DEF Backlog
<1> QED BY <1>1, <1>2, <1>3, <1>4

(***************************************************************************)
(* A half-replayed batch: lengths and lines of what is left of it.         *)
(***************************************************************************)
LEMMA DrainBacklog ==
  ASSUME TypeOK, pc \in {"open", "drain", "save"}, spill = <<>>
  PROVE  /\ Len(Backlog) = Len(flushing) - pos
         /\ \A i \in 1..Len(flushing) - pos : Backlog[i] = flushing[pos + i]
  BY BacklogCases, SeqFacts DEF TypeOK

(***************************************************************************)
(* NothingLostInv is inductive where no crash happens, no rename behind a  *)
(* claim fails and every read of it succeeds.                              *)
(***************************************************************************)
LEMMA NothingLostStep ==
  ASSUME TypeOK, TypeOK', NothingLostInv, [Next]_vars,
         "crash" \notin Faults, "restore" \notin Faults,
         "handback" \notin Faults, "read" \notin Faults
  PROVE  NothingLostInv'
<1> USE DEF files, conn, history
<1>a. ASSUME UNCHANGED <<Backlog, accepted, delivered>>
      PROVE  NothingLost'
  BY <1>a DEF NothingLostInv, NothingLost, Ends
<1>b. ASSUME UNCHANGED <<spill, flushing, rest, pos, pc, accepted, delivered>>
      PROVE  NothingLostInv'
  <2>1. UNCHANGED Backlog
    BY <1>b DEF Backlog
  <2> QED BY <1>b, <1>a, <2>1 DEF NothingLostInv, Ends
<1>c. ASSUME pc \in {"idle", "down", "cleanup"}, pc' \in {"idle", "down"},
             UNCHANGED <<spill, accepted, delivered>>
      PROVE  NothingLostInv'
  <2>1. UNCHANGED Backlog
    BY <1>c DEF Backlog
  <2> QED BY <1>c, <1>a, <2>1 DEF NothingLostInv
<1>1. CASE SpillOk
  <2>1. Backlog = spill /\ Backlog' = Append(spill, created + 1)
    BY <1>1 DEF SpillOk, Backlog
  <2>2. NothingLost'
    <3>1. /\ Ends(spill, accepted)
          /\ \A i \in 1..Len(accepted) - Len(spill) : accepted[i] \in ToSet(delivered)
      BY <2>1 DEF NothingLostInv, NothingLost
    <3>2. /\ accepted' = Append(accepted, created + 1)
          /\ delivered' = delivered
          /\ spill \in Seq(Record) /\ accepted \in Seq(Record)
      BY <1>1 DEF SpillOk, TypeOK
    <3>3. Len(accepted') - Len(Backlog') = Len(accepted) - Len(spill)
      BY <2>1, <3>2
    <3>4. \A i \in 1..Len(accepted) - Len(spill) : accepted'[i] = accepted[i]
      BY <3>2
    <3>5. Ends(Backlog', accepted')
      <4>1. Len(Backlog') = Len(spill) + 1 /\ Len(accepted') = Len(accepted) + 1
        BY <2>1, <3>2
      <4>2. Len(spill) <= Len(accepted) /\ Len(spill) \in Nat /\ Len(accepted) \in Nat
        BY <3>1, <3>2 DEF Ends
      <4>3. ASSUME NEW i \in 1..Len(Backlog')
            PROVE  Backlog'[i] = accepted'[Len(accepted') - Len(Backlog') + i]
        <5>1. CASE i = Len(spill) + 1
          BY <5>1, <2>1, <3>2, <4>1, <4>2
        <5>2. CASE i \in 1..Len(spill)
          <6>1. Backlog'[i] = spill[i]
            BY <5>2, <2>1, <3>2
          <6>2. spill[i] = accepted[Len(accepted) - Len(spill) + i]
            BY <5>2, <3>1 DEF Ends
          <6>3. Len(accepted) - Len(spill) + i \in 1..Len(accepted)
            BY <5>2, <4>2
          <6> QED BY <6>1, <6>2, <6>3, <3>2, <4>1, <4>2
        <5> QED BY <5>1, <5>2, <4>1, <4>2
      <4> QED BY <4>1, <4>2, <4>3 DEF Ends
    <3> QED BY <3>1, <3>2, <3>3, <3>4, <3>5 DEF NothingLost
  <2> QED BY <1>1, <2>2 DEF SpillOk, NothingLostInv
<1>2. CASE SpillFail \/ FlushClaimFail
  BY <1>2, <1>b DEF SpillFail, FlushClaimFail
<1>3. CASE EnsureAlive \/ EnsureTooSoon \/ FlushLinkBad \/ MarkOffline \/ Tick
  BY <1>3, <1>b DEF EnsureAlive, EnsureTooSoon, FlushLinkBad, MarkOffline, Tick
<1>4. ASSUME NEW up \in {0, 1}, EnsureReconnect(up)
      PROVE  NothingLostInv'
  BY <1>4, <1>b DEF EnsureReconnect
<1>5. CASE FlushClaim
  <2>1. Backlog = spill /\ pc' = "open" /\ spill' = <<>>
    BY <1>5 DEF FlushClaim, CanFlush, Backlog
  <2>2. Backlog' = SubSeq(spill, 1, Len(spill)) \o <<>>
    BY <1>5, <2>1 DEF FlushClaim, Backlog
  <2>3. Backlog' = spill
    BY <2>2 DEF TypeOK
  <2>4. Ends(flushing', accepted')
    BY <1>5, <2>1 DEF FlushClaim, NothingLostInv, NothingLost
  <2> QED BY <1>5, <1>a, <2>1, <2>3, <2>4 DEF FlushClaim, NothingLostInv
<1>6. CASE FlushNothing
  BY <1>6, <1>c DEF FlushNothing, CanFlush
<1>7. CASE FlushOpen \/ FlushReplayFail
  <2>1. UNCHANGED Backlog
    BY <1>7 DEF FlushOpen, FlushReplayFail, Backlog
  <2> QED BY <1>7, <1>a, <2>1 DEF FlushOpen, FlushReplayFail, NothingLostInv, Ends
<1>8. CASE FlushOpenFail \/ FlushRestOpenFail \/ FlushRestCloseFail
  <2>1. /\ pc \in {"open", "drain", "save"} /\ HandBack
        /\ UNCHANGED <<accepted, delivered>>
    BY <1>8 DEF FlushOpenFail, FlushRestOpenFail, FlushRestCloseFail
  <2>2. spill = <<>> /\ Ends(flushing, accepted)
    BY <2>1 DEF NothingLostInv
  <2>3. Backlog' = flushing /\ pc' = "idle"
    BY <2>1 DEF HandBack, Backlog
  <2>4. Len(accepted) - Len(flushing) <= Len(accepted) - Len(Backlog)
    <3>0. accepted \in Seq(Record) /\ flushing \in Seq(Record) /\ pos \in 0..Len(flushing)
      BY DEF TypeOK
    <3>1. Len(accepted) \in Nat /\ Len(flushing) \in Nat /\ pos \in Nat
      BY <3>0
    <3>2. Len(Backlog) = Len(flushing) - pos
      BY <2>1, <2>2, DrainBacklog
    <3> QED BY <3>1, <3>2
  <2>5. \A i \in 1..Len(accepted) - Len(flushing) : accepted[i] \in ToSet(delivered)
    <3>0. accepted \in Seq(Record) /\ flushing \in Seq(Record) /\ pos \in 0..Len(flushing)
      BY DEF TypeOK
    <3>1. Len(accepted) \in Nat /\ Len(flushing) \in Nat /\ pos \in Nat
      BY <3>0
    <3>2. Len(Backlog) = Len(flushing) - pos
      BY <2>1, <2>2, DrainBacklog
    <3>3. \A i \in 1..Len(accepted) - Len(flushing) : i \in 1..Len(accepted) - Len(Backlog)
      BY <3>1, <3>2
    <3>4. \A i \in 1..Len(accepted) - Len(Backlog) : accepted[i] \in ToSet(delivered)
      BY DEF NothingLostInv, NothingLost
    <3> QED BY <3>3, <3>4, Zenon
  <2> QED BY <2>1, <2>2, <2>3, <2>5 DEF NothingLostInv, NothingLost
<1>9. CASE FlushReplayOk
  <2> DEFINE f == flushing
             n == Len(accepted) - Len(Backlog)
  <2>1. /\ pc = "drain" /\ pc' = "drain" /\ pos < Len(f) /\ pos' = pos + 1
        /\ UNCHANGED <<flushing, spill, accepted>>
        /\ delivered' = Append(delivered, f[pos + 1])
    BY <1>9 DEF FlushReplayOk
  <2>2. spill = <<>> /\ Ends(f, accepted)
    BY <2>1 DEF NothingLostInv
  <2>3. /\ Len(Backlog) = Len(f) - pos
        /\ \A i \in 1..Len(f) - pos : Backlog[i] = f[pos + i]
    BY <2>1, <2>2, DrainBacklog
  <2>4. Backlog' = SubSeq(f, (pos + 1) + 1, Len(f)) \o <<>>
    BY <2>1, <2>2 DEF Backlog
  <2>5. /\ Len(Backlog') = Len(f) - (pos + 1)
        /\ \A i \in 1..Len(f) - (pos + 1) : Backlog'[i] = f[pos + 1 + i]
    <3>1. pos + 1 \in 0..Len(f) /\ f \in Seq(Record)
      BY <2>1 DEF TypeOK
    <3> QED BY <2>4, <3>1, SeqFacts
  <2>6. /\ pos \in Nat /\ Len(f) \in Nat /\ Len(accepted) \in Nat
        /\ Len(f) <= Len(accepted)
        /\ \A i \in 1..Len(f) : f[i] = accepted[Len(accepted) - Len(f) + i]
    <3>1. pos \in Nat /\ f \in Seq(Record) /\ accepted \in Seq(Record)
      BY DEF TypeOK
    <3>2. Len(f) \in Nat /\ Len(accepted) \in Nat
      BY <3>1
    <3> QED BY <2>2, <3>1, <3>2 DEF Ends
  <2>7. Ends(Backlog', accepted')
    <3>1. Len(Backlog') <= Len(accepted)
      BY <2>6, <2>1, <2>5
    <3>2. ASSUME NEW i \in 1..Len(Backlog')
          PROVE  Backlog'[i] = accepted[Len(accepted) - Len(Backlog') + i]
      <4>1. pos + 1 + i \in 1..Len(f) /\ i \in 1..Len(f) - (pos + 1)
        BY <2>6, <2>5
      <4>2. Len(accepted) - Len(Backlog') + i = Len(accepted) - Len(f) + (pos + 1 + i)
        BY <2>6, <2>5, <4>1
      <4> QED BY <2>6, <2>5, <4>1, <4>2
    <3> QED BY <2>1, <3>1, <3>2 DEF Ends
  <2>8. accepted[n + 1] = f[pos + 1]
    <3>1. pos + 1 \in 1..Len(f)
      BY <2>6, <2>1
    <3>2. n + 1 = Len(accepted) - Len(f) + (pos + 1)
      BY <2>6, <2>3
    <3> QED BY <2>6, <3>1, <3>2
  <2>9. \A i \in 1..n : accepted[i] \in ToSet(delivered)
    BY DEF NothingLostInv, NothingLost
  <2>10. ToSet(delivered') = ToSet(delivered) \cup {f[pos + 1]}
    <3>1. f[pos + 1] \in Record /\ delivered \in Seq(Record)
      BY <2>6, <2>1 DEF TypeOK
    <3> QED BY <2>1, <3>1, ToSetAppend
  <2>11. Len(accepted') - Len(Backlog') = n + 1 /\ n \in Nat
    BY <2>1, <2>2, <2>3, <2>5 DEF TypeOK, Ends
  <2>12. \A i \in 1..n + 1 : accepted'[i] \in ToSet(delivered')
    BY <2>1, <2>8, <2>9, <2>10, <2>11
  <2> QED BY <2>1, <2>2, <2>7, <2>11, <2>12 DEF NothingLostInv, NothingLost
<1>10. CASE FlushSaveRest
  <2>1. pc = "save" /\ pc' = "merge" /\ spill = <<>> /\ UNCHANGED <<spill, accepted, delivered>>
    BY <1>10 DEF FlushSaveRest, NothingLostInv
  <2>2. rest' = Backlog
    BY <1>10, <2>1, BacklogCases DEF FlushSaveRest
  <2>3. Backlog' = rest' \o <<>> /\ rest' \in Seq(Record)
    BY <2>1 DEF Backlog, TypeOK
  <2> QED BY <2>1, <2>2, <2>3, <1>a DEF NothingLostInv
<1>11. CASE FlushMerge
  <2>1. pc = "merge" /\ pc' = "unlink" /\ spill = <<>> /\ rest' = rest \o <<>>
        /\ UNCHANGED <<spill, accepted, delivered>>
    BY <1>11 DEF FlushMerge, NothingLostInv
  <2>2. UNCHANGED Backlog
    BY <2>1 DEF Backlog, TypeOK
  <2> QED BY <2>1, <2>2, <1>a DEF NothingLostInv
<1>12. CASE FlushUnlinkSpill \/ FlushRestore
  <2>1. UNCHANGED Backlog
    BY <1>12 DEF FlushUnlinkSpill, FlushRestore, Backlog
  <2> QED BY <1>12, <1>a, <2>1 DEF FlushUnlinkSpill, FlushRestore, NothingLostInv
<1>13. CASE FlushDone
  <2>1. pc = "drain" /\ pc' = "idle" /\ spill = <<>> /\ pos = Len(flushing)
        /\ UNCHANGED <<spill, accepted, delivered>>
    BY <1>13 DEF FlushDone, NothingLostInv
  <2>2. Backlog = <<>>
    BY <2>1, BacklogCases DEF TypeOK
  <2>3. Backlog' = <<>>
    BY <2>1 DEF Backlog
  <2> QED BY <2>1, <2>2, <2>3, <1>a DEF NothingLostInv
<1>14. CASE FlushCleanup \/ Close \/ Restart
  BY <1>14, <1>c DEF FlushCleanup, Close, Restart
<1>15. /\ ~Crash /\ ~FlushRestoreFail
       /\ ~FlushHandBackFail /\ ~FlushReadFail /\ ~FlushSaveRestCut
  BY DEF Crash, FlushRestoreFail, FlushHandBackFail, FlushReadFail, FlushSaveRestCut, Fault
<1>16. CASE UNCHANGED vars
  BY <1>16, <1>b DEF vars
<1> QED
  BY <1>1, <1>2, <1>3, <1>4, <1>5, <1>6, <1>7, <1>8, <1>9, <1>10, <1>11, <1>12,
     <1>13, <1>14, <1>15, <1>16 DEF Next, Flush

(***************************************************************************)
(* No accepted record is lost and none is overtaken, for any number of     *)
(* records and of failing calls, as long as the process does not die and   *)
(* every rename behind a claim and every read of it succeeds (the calls    *)
(* whose failure db_buffer.c does not look at, or gives the batch up for). *)
(***************************************************************************)
THEOREM NoRecordLost ==
  ASSUME "crash" \notin Faults, "restore" \notin Faults,
         "handback" \notin Faults, "read" \notin Faults
  PROVE  Spec => []NothingLost
<1>1. Init => NothingLostInv
  BY DEF Init, NothingLostInv, NothingLost, Ends, Backlog
<1>2. TypeOK /\ TypeOK' /\ NothingLostInv /\ [Next]_vars => NothingLostInv'
  BY NothingLostStep
<1>3. NothingLostInv => NothingLost
  BY DEF NothingLostInv
<1> QED
  BY <1>1, <1>2, <1>3, TypeCorrect, PTL DEF Spec

-------------------------------------------------------------------------------
(***************************************************************************)
(* Records are numbers, so they can be compared.                           *)
(***************************************************************************)
LEMMA LinesAreNumbers ==
  ASSUME NEW s \in Seq(Record)
  PROVE  \A i \in 1..Len(s) : s[i] \in Nat
<1>1. \A i \in 1..Len(s) : s[i] \in Record
  OBVIOUS
<1>2. \A r \in Record : r \in Nat
  BY ConstantsAssumption DEF Record
<1> QED BY <1>1, <1>2

(***************************************************************************)
(* AtMostOnceInv is inductive where .rest can always be written, whatever  *)
(* else fails and wherever the process dies.                               *)
(***************************************************************************)
LEMMA AtMostOnceStep ==
  ASSUME TypeOK, TypeOK', AtMostOnceInv, [Next]_vars,
         "restopen" \notin Faults, "restclose" \notin Faults
  PROVE  AtMostOnceInv'
<1> USE DEF files, conn, history
<1>a. ASSUME UNCHANGED <<Backlog, delivered, created>>
      PROVE  AtMostOnceInOrder' /\ NumberedSoFar'
  BY <1>a DEF AtMostOnceInv, AtMostOnceInOrder, NumberedSoFar, Increasing
<1>b. ASSUME UNCHANGED <<spill, flushing, rest, pos, pc, delivered, created>>
      PROVE  AtMostOnceInv'
  <2>1. UNCHANGED Backlog
    BY <1>b DEF Backlog
  <2> QED BY <1>b, <1>a, <2>1 DEF AtMostOnceInv
<1>c. ASSUME pc \in {"idle", "down", "cleanup"}, pc' \in {"idle", "down"},
             UNCHANGED <<spill, delivered, created>>
      PROVE  AtMostOnceInv'
  <2>1. UNCHANGED Backlog
    BY <1>c DEF Backlog
  <2> QED BY <1>c, <1>a, <2>1 DEF AtMostOnceInv
<1>d. ASSUME pc \in {"open", "drain", "save", "merge", "unlink", "restore"},
             pc' \in {"idle", "down"}, UNCHANGED <<spill, delivered, created>>
      PROVE  AtMostOnceInv'
  <2>1. Backlog' = <<>>
    BY <1>d DEF AtMostOnceInv, Backlog
  <2> QED BY <1>d, <2>1
      DEF AtMostOnceInv, AtMostOnceInOrder, NumberedSoFar, Increasing
<1>1. CASE SpillOk
  <2>1. /\ Backlog = spill /\ Backlog' = Append(spill, created + 1)
        /\ delivered' = delivered /\ created' = created + 1 /\ pc' = "idle"
    BY <1>1 DEF SpillOk, Backlog
  <2>2. /\ spill \in Seq(Record) /\ delivered \in Seq(Record) /\ created \in Nat
    BY ConstantsAssumption DEF TypeOK
  <2>3. /\ Len(Backlog') = Len(spill) + 1 /\ Len(spill) \in Nat
        /\ \A i \in 1..Len(spill) : Backlog'[i] = spill[i]
        /\ Backlog'[Len(spill) + 1] = created + 1
    BY <2>1, <2>2
  <2>4. /\ Increasing(spill) /\ Increasing(delivered)
        /\ \A i \in 1..Len(delivered), j \in 1..Len(spill) : delivered[i] < spill[j]
        /\ \A i \in 1..Len(delivered) : delivered[i] <= created
        /\ \A i \in 1..Len(spill) : spill[i] <= created
    BY <2>1 DEF AtMostOnceInv, AtMostOnceInOrder, NumberedSoFar
  <2>5. \A j \in 1..Len(spill) + 1 : j \in 1..Len(spill) \/ j = Len(spill) + 1
    BY <2>3
  <2>6. /\ \A i \in 1..Len(delivered) : delivered[i] \in Nat
        /\ \A i \in 1..Len(spill) : spill[i] \in Nat
    BY <2>2, LinesAreNumbers
  <2>7. Increasing(Backlog')
    <3> SUFFICES ASSUME NEW i \in 1..Len(Backlog'), NEW j \in 1..Len(Backlog'), i < j
                 PROVE  Backlog'[i] < Backlog'[j]
      BY DEF Increasing
    <3>1. i \in 1..Len(spill)
      BY <2>3
    <3>2. CASE j \in 1..Len(spill)
      BY <2>3, <2>4, <3>1, <3>2 DEF Increasing
    <3>3. CASE j = Len(spill) + 1
      BY <2>2, <2>3, <2>4, <2>6, <3>1, <3>3
    <3> QED BY <2>3, <3>2, <3>3
  <2>8. ASSUME NEW i \in 1..Len(delivered), NEW j \in 1..Len(Backlog')
        PROVE  delivered[i] < Backlog'[j]
    <3>1. CASE j \in 1..Len(spill)
      <4>1. delivered[i] < spill[j] /\ Backlog'[j] = spill[j]
        BY <2>3, <2>4, <3>1
      <4> QED BY <4>1
    <3>2. CASE j = Len(spill) + 1
      <4>1. delivered[i] <= created /\ delivered[i] \in Nat /\ Backlog'[j] = created + 1
        BY <2>3, <2>4, <2>6, <3>2
      <4> QED BY <4>1, <2>2
    <3> QED BY <2>3, <2>5, <3>1, <3>2
  <2>9. NumberedSoFar'
    BY <2>1, <2>2, <2>3, <2>4, <2>5, <2>6 DEF NumberedSoFar
  <2> QED BY <2>1, <2>4, <2>7, <2>8, <2>9 DEF AtMostOnceInv, AtMostOnceInOrder
<1>2. CASE SpillFail
  <2>1. UNCHANGED <<Backlog, delivered, spill, pc, pos>> /\ created' = created + 1
    BY <1>2 DEF SpillFail, Backlog
  <2>2. /\ created \in Nat /\ Backlog = spill
        /\ \A i \in 1..Len(delivered) : delivered[i] \in Nat
        /\ \A i \in 1..Len(spill) : spill[i] \in Nat
    <3>1. spill \in Seq(Record) /\ delivered \in Seq(Record) /\ created \in Nat
      BY ConstantsAssumption DEF TypeOK
    <3>2. Backlog = spill
      BY <1>2 DEF SpillFail, Backlog
    <3> QED BY <3>1, <3>2, LinesAreNumbers
  <2>3. NumberedSoFar'
    BY <2>1, <2>2 DEF AtMostOnceInv, NumberedSoFar
  <2> QED BY <2>1, <2>3 DEF AtMostOnceInv, AtMostOnceInOrder, Increasing
<1>3. CASE EnsureAlive \/ EnsureTooSoon \/ FlushLinkBad \/ MarkOffline \/ Tick
           \/ FlushClaimFail
  BY <1>3, <1>b DEF EnsureAlive, EnsureTooSoon, FlushLinkBad, MarkOffline, Tick,
                    FlushClaimFail
<1>4. ASSUME NEW up \in {0, 1}, EnsureReconnect(up)
      PROVE  AtMostOnceInv'
  BY <1>4, <1>b DEF EnsureReconnect
<1>5. CASE FlushClaim
  <2>1. Backlog = spill /\ pc' = "open" /\ spill' = <<>> /\ pos' = 0
        /\ UNCHANGED <<delivered, created>>
    BY <1>5 DEF FlushClaim, CanFlush, Backlog
  <2>2. Backlog' = SubSeq(spill, 1, Len(spill)) \o <<>>
    BY <1>5, <2>1 DEF FlushClaim, Backlog
  <2>3. Backlog' = spill
    BY <2>2 DEF TypeOK
  <2> QED BY <1>a, <2>1, <2>3 DEF AtMostOnceInv
<1>6. CASE FlushNothing
  BY <1>6, <1>c DEF FlushNothing, CanFlush
<1>7. CASE FlushOpen \/ FlushReplayFail
  <2>1. UNCHANGED Backlog
    BY <1>7 DEF FlushOpen, FlushReplayFail, Backlog
  <2> QED BY <1>7, <1>a, <2>1 DEF FlushOpen, FlushReplayFail, AtMostOnceInv
<1>8. CASE FlushOpenFail
  <2>1. pc = "open" /\ HandBack /\ UNCHANGED <<delivered, created>>
    BY <1>8 DEF FlushOpenFail
  <2>2. spill = <<>> /\ pos = 0
    BY <2>1 DEF AtMostOnceInv
  <2>3. Backlog' = flushing /\ pc' = "idle"
    BY <2>1 DEF HandBack, Backlog
  <2>4. Backlog = SubSeq(flushing, 1, Len(flushing))
    BY <2>1, <2>2, BacklogCases
  <2>5. UNCHANGED Backlog
    <3>1. flushing \in Seq(Record)
      BY DEF TypeOK
    <3>2. SubSeq(flushing, 1, Len(flushing)) = flushing
      BY <3>1, WholeSeq
    <3> QED BY <2>3, <2>4, <3>2
  <2> QED BY <2>1, <2>3, <2>5, <1>a DEF AtMostOnceInv
<1>9. CASE FlushReplayOk
  <2> DEFINE f == flushing
  <2>1. /\ pc = "drain" /\ pc' = "drain" /\ pos < Len(f) /\ pos' = pos + 1
        /\ UNCHANGED <<flushing, spill, created>>
        /\ delivered' = Append(delivered, f[pos + 1])
    BY <1>9 DEF FlushReplayOk
  <2>2. /\ spill = <<>> /\ pos \in Nat /\ Len(f) \in Nat /\ f \in Seq(Record)
        /\ delivered \in Seq(Record) /\ created \in Nat
    BY <2>1, ConstantsAssumption DEF AtMostOnceInv, TypeOK
  <2>3. /\ Len(Backlog) = Len(f) - pos
        /\ \A i \in 1..Len(f) - pos : Backlog[i] = f[pos + i]
    BY <2>1, <2>2, DrainBacklog
  <2>4. Backlog' = SubSeq(f, (pos + 1) + 1, Len(f)) \o <<>>
    BY <2>1, <2>2 DEF Backlog
  <2>5. /\ Len(Backlog') = Len(f) - (pos + 1)
        /\ \A i \in 1..Len(f) - (pos + 1) : Backlog'[i] = f[pos + 1 + i]
    <3>1. pos + 1 \in 0..Len(f)
      BY <2>1, <2>2
    <3> QED BY <2>2, <2>4, <3>1, SeqFacts
  <2>6. \A j \in 1..Len(Backlog') :
          j + 1 \in 1..Len(Backlog) /\ Backlog'[j] = Backlog[j + 1]
    BY <2>2, <2>3, <2>5
  <2>7. Len(Backlog) >= 1 /\ f[pos + 1] = Backlog[1] /\ f[pos + 1] \in Record
    BY <2>1, <2>2, <2>3
  <2>8. /\ Len(delivered') = Len(delivered) + 1 /\ Len(delivered) \in Nat
        /\ \A i \in 1..Len(delivered) : delivered'[i] = delivered[i]
        /\ delivered'[Len(delivered) + 1] = Backlog[1]
    BY <2>1, <2>2, <2>7
  <2>9. /\ Increasing(Backlog) /\ Increasing(delivered)
        /\ \A i \in 1..Len(delivered), j \in 1..Len(Backlog) : delivered[i] < Backlog[j]
        /\ \A i \in 1..Len(delivered) : delivered[i] <= created
        /\ \A i \in 1..Len(Backlog) : Backlog[i] <= created
    BY DEF AtMostOnceInv, AtMostOnceInOrder, NumberedSoFar
  <2>10. \A j \in 1..Len(delivered') : j \in 1..Len(delivered) \/ j = Len(delivered) + 1
    BY <2>8
  <2>11. Increasing(delivered')
    BY <2>3, <2>7, <2>8, <2>9, <2>10 DEF Increasing
  <2>12. Increasing(Backlog')
    BY <2>2, <2>3, <2>5, <2>6, <2>9 DEF Increasing
  <2>13. \A i \in 1..Len(delivered'), j \in 1..Len(Backlog') :
           delivered'[i] < Backlog'[j]
    <3> SUFFICES ASSUME NEW i \in 1..Len(delivered'), NEW j \in 1..Len(Backlog')
                 PROVE  delivered'[i] < Backlog'[j]
      OBVIOUS
    <3>1. j + 1 \in 1..Len(Backlog) /\ Backlog'[j] = Backlog[j + 1]
      BY <2>6
    <3>2. CASE i \in 1..Len(delivered)
      BY <2>8, <2>9, <3>1, <3>2
    <3>3. CASE i = Len(delivered) + 1
      <4>1. 1 \in 1..Len(Backlog) /\ 1 < j + 1
        BY <2>2, <2>3, <2>7, <3>1
      <4> QED BY <2>8, <2>9, <3>1, <3>3, <4>1 DEF Increasing
    <3> QED BY <2>10, <3>2, <3>3
  <2>14. NumberedSoFar'
    BY <2>1, <2>3, <2>6, <2>7, <2>8, <2>9, <2>10 DEF NumberedSoFar
  <2> QED BY <2>1, <2>2, <2>11, <2>12, <2>13, <2>14 DEF AtMostOnceInv, AtMostOnceInOrder
<1>10. CASE FlushSaveRest
  <2>1. pc = "save" /\ pc' = "merge" /\ spill = <<>> /\ UNCHANGED <<spill, created, delivered>>
    BY <1>10 DEF FlushSaveRest, AtMostOnceInv
  <2>2. rest' = Backlog
    BY <1>10, <2>1, BacklogCases DEF FlushSaveRest
  <2>3. Backlog' = rest' \o <<>> /\ rest' \in Seq(Record)
    BY <2>1 DEF Backlog, TypeOK
  <2> QED BY <2>1, <2>2, <2>3, <1>a DEF AtMostOnceInv
<1>11. CASE FlushMerge
  <2>1. pc = "merge" /\ pc' = "unlink" /\ spill = <<>> /\ rest' = rest \o <<>>
        /\ UNCHANGED <<spill, created, delivered>>
    BY <1>11 DEF FlushMerge, AtMostOnceInv
  <2>2. UNCHANGED Backlog
    BY <2>1 DEF Backlog, TypeOK
  <2> QED BY <2>1, <2>2, <1>a DEF AtMostOnceInv
<1>12. CASE FlushUnlinkSpill \/ FlushRestore
  <2>1. UNCHANGED Backlog
    BY <1>12 DEF FlushUnlinkSpill, FlushRestore, Backlog
  <2> QED BY <1>12, <1>a, <2>1 DEF FlushUnlinkSpill, FlushRestore, AtMostOnceInv
<1>13. CASE FlushDone \/ FlushRestoreFail \/ FlushReadFail \/ FlushHandBackFail
  BY <1>13, <1>d DEF FlushDone, FlushRestoreFail, FlushReadFail, FlushHandBackFail
<1>14. CASE FlushCleanup \/ Close \/ Restart
  BY <1>14, <1>c DEF FlushCleanup, Close, Restart
<1>15. CASE Crash
  BY <1>15, <1>c, <1>d DEF Crash, TypeOK, Step
<1>16. ~FlushRestOpenFail /\ ~FlushRestCloseFail
  BY DEF FlushRestOpenFail, FlushRestCloseFail, Fault
<1>17. CASE UNCHANGED vars
  BY <1>17, <1>b DEF vars
<1>18. CASE FlushSaveRestCut
  <2>1. /\ pc = "save" /\ pc' = "merge" /\ spill = <<>> /\ spill' = <<>>
        /\ UNCHANGED <<created, delivered>>
    BY <1>18 DEF FlushSaveRestCut, AtMostOnceInv
  <2>2. PICK n \in pos + 1 .. Len(flushing) : rest' = SubSeq(flushing, pos + 1, n)
    BY <1>18 DEF FlushSaveRestCut
  <2>3. /\ flushing \in Seq(Record) /\ pos \in 0..Len(flushing) /\ pos \in Nat
        /\ Len(flushing) \in Nat
    BY DEF TypeOK
  <2>4. Backlog' = rest'
    <3>1. Backlog' = rest' \o <<>> /\ rest' \in Seq(Record)
      BY <2>1 DEF Backlog, TypeOK
    <3> QED BY <3>1
  <2>5. Len(Backlog') = n - pos /\ \A i \in 1..n - pos : Backlog'[i] = flushing[pos + i]
    BY <2>2, <2>3, <2>4, CutFacts
  <2>6. /\ Len(Backlog) = Len(flushing) - pos
        /\ \A i \in 1..Len(flushing) - pos : Backlog[i] = flushing[pos + i]
    BY <2>1, DrainBacklog
  <2>7. \A i \in 1..Len(Backlog') : i \in 1..Len(Backlog) /\ Backlog'[i] = Backlog[i]
    BY <2>2, <2>3, <2>5, <2>6
  <2>8. AtMostOnceInOrder' /\ NumberedSoFar'
    BY <2>1, <2>7 DEF AtMostOnceInv, AtMostOnceInOrder, NumberedSoFar, Increasing
  <2> QED BY <2>1, <2>8 DEF AtMostOnceInv
<1> QED
  BY <1>1, <1>2, <1>3, <1>4, <1>5, <1>6, <1>7, <1>8, <1>9, <1>10, <1>11, <1>12,
     <1>13, <1>14, <1>15, <1>16, <1>17, <1>18 DEF Next, Flush

(***************************************************************************)
(* No record is replayed twice or behind a younger one, for any number of  *)
(* records, crashes and failing calls, as long as .rest can be written.    *)
(***************************************************************************)
THEOREM ReplayedAtMostOnce ==
  ASSUME "restopen" \notin Faults, "restclose" \notin Faults
  PROVE  Spec => []AtMostOnceInOrder
<1>1. Init => AtMostOnceInv
  BY DEF Init, AtMostOnceInv, AtMostOnceInOrder, NumberedSoFar, Increasing, Backlog
<1>2. TypeOK /\ TypeOK' /\ AtMostOnceInv /\ [Next]_vars => AtMostOnceInv'
  BY AtMostOnceStep
<1>3. AtMostOnceInv => AtMostOnceInOrder
  BY DEF AtMostOnceInv
<1> QED
  BY <1>1, <1>2, <1>3, TypeCorrect, PTL DEF Spec

-------------------------------------------------------------------------------
(* From a claim to its restore: nobody appends to the spill file. *)
ClaimHeld == {"open", "drain", "save", "merge", "unlink", "restore"}

(***************************************************************************)
(* LossConfinedToClaim needs one thing more: a claim that is handed back   *)
(* overwrites an empty file.                                               *)
(***************************************************************************)
LossInv ==
  /\ LossConfinedToClaim
  /\ pc \in ClaimHeld => spill = <<>>

(***************************************************************************)
(* Whatever the backlog is, its records are in one of the files.           *)
(***************************************************************************)
LEMMA BacklogInFiles ==
  ASSUME TypeOK
  PROVE  ToSet(Backlog) \subseteq ToSet(spill) \cup ToSet(flushing) \cup ToSet(rest)
<1> DEFINE left == SubSeq(flushing, pos + 1, Len(flushing))
<1>1. /\ spill \in Seq(Record) /\ flushing \in Seq(Record) /\ rest \in Seq(Record)
      /\ left \in Seq(Record)
  BY SeqFacts DEF TypeOK
<1>2. ToSet(left) \subseteq ToSet(flushing)
  BY ToSetSuffix DEF TypeOK
<1>4. Backlog \in {left \o spill, rest \o spill, rest, spill}
  BY DEF Backlog
<1> HIDE DEF left
<1>3. /\ ToSet(left \o spill) = ToSet(left) \cup ToSet(spill)
      /\ ToSet(rest \o spill) = ToSet(rest) \cup ToSet(spill)
  BY <1>1, ToSetConcat
<1> QED BY <1>2, <1>3, <1>4

(***************************************************************************)
(* LossInv is inductive, whatever fails and wherever the process dies.     *)
(***************************************************************************)
LEMMA LossStep ==
  ASSUME TypeOK, TypeOK', LossInv, [Next]_vars
  PROVE  LossInv'
<1> USE DEF files, conn, history
<1>t. /\ spill \in Seq(Record) /\ flushing \in Seq(Record) /\ rest \in Seq(Record)
      /\ accepted \in Seq(Record) /\ delivered \in Seq(Record)
  BY DEF TypeOK
<1>a. ASSUME UNCHANGED <<Backlog, accepted, delivered, claimed>>
      PROVE  LossConfinedToClaim'
  BY <1>a DEF LossInv, LossConfinedToClaim
<1>b. ASSUME UNCHANGED <<spill, flushing, rest, pos, pc, accepted, delivered, claimed>>
      PROVE  LossInv'
  <2>1. UNCHANGED Backlog
    BY <1>b DEF Backlog
  <2> QED BY <1>b, <1>a, <2>1 DEF LossInv
<1>c. ASSUME pc \in {"idle", "down", "cleanup"}, pc' \in {"idle", "down"},
             UNCHANGED <<spill, accepted, delivered, claimed>>
      PROVE  LossInv'
  <2>1. UNCHANGED Backlog
    BY <1>c DEF Backlog
  <2> QED BY <1>c, <1>a, <2>1 DEF LossInv, ClaimHeld
<1>1. CASE SpillOk
  <2>1. /\ Backlog = spill /\ Backlog' = Append(spill, created + 1) /\ pc' = "idle"
        /\ accepted' = Append(accepted, created + 1) /\ UNCHANGED <<delivered, claimed>>
    BY <1>1 DEF SpillOk, Backlog
  <2>2. created + 1 \in Record
    BY <1>1, ConstantsAssumption DEF SpillOk, TypeOK, Record
  <2>3. /\ ToSet(Backlog') = ToSet(Backlog) \cup {created + 1}
        /\ ToSet(accepted') = ToSet(accepted) \cup {created + 1}
    BY <1>t, <2>1, <2>2, ToSetAppend
  <2> QED BY <2>1, <2>3 DEF LossInv, LossConfinedToClaim, ClaimHeld
<1>2. CASE SpillFail \/ FlushClaimFail
  BY <1>2, <1>b DEF SpillFail, FlushClaimFail
<1>3. CASE EnsureAlive \/ EnsureTooSoon \/ FlushLinkBad \/ MarkOffline \/ Tick
  BY <1>3, <1>b DEF EnsureAlive, EnsureTooSoon, FlushLinkBad, MarkOffline, Tick
<1>4. ASSUME NEW up \in {0, 1}, EnsureReconnect(up)
      PROVE  LossInv'
  BY <1>4, <1>b DEF EnsureReconnect
<1>5. CASE FlushClaim
  <2>1. /\ Backlog = spill /\ pc' = "open" /\ spill' = <<>>
        /\ UNCHANGED <<accepted, delivered, claimed>>
    BY <1>5 DEF FlushClaim, CanFlush, Backlog
  <2>2. Backlog' = SubSeq(spill, 1, Len(spill)) \o <<>>
    BY <1>5, <2>1 DEF FlushClaim, Backlog
  <2>3. UNCHANGED Backlog
    BY <1>t, <2>1, <2>2
  <2> QED BY <1>a, <2>1, <2>3 DEF LossInv
<1>6. CASE FlushNothing
  BY <1>6, <1>c DEF FlushNothing, CanFlush
<1>7. CASE FlushOpen \/ FlushReplayFail
  <2>1. UNCHANGED Backlog
    BY <1>7 DEF FlushOpen, FlushReplayFail, Backlog
  <2> QED BY <1>7, <1>a, <2>1 DEF FlushOpen, FlushReplayFail, LossInv, ClaimHeld
<1>8. CASE FlushOpenFail \/ FlushRestOpenFail \/ FlushRestCloseFail
  <2>1. /\ pc \in {"open", "drain", "save"} /\ HandBack
        /\ UNCHANGED <<accepted, delivered, claimed>>
    BY <1>8 DEF FlushOpenFail, FlushRestOpenFail, FlushRestCloseFail
  <2>2. spill = <<>> /\ Backlog' = flushing /\ pc' = "idle"
    BY <2>1 DEF LossInv, ClaimHeld, HandBack, Backlog
  <2>3. ToSet(Backlog) \subseteq ToSet(flushing)
    <3>1. Backlog = SubSeq(flushing, pos + 1, Len(flushing))
      BY <2>1, <2>2, BacklogCases
    <3> QED BY <3>1, ToSetSuffix DEF TypeOK
  <2> QED BY <2>1, <2>2, <2>3 DEF LossInv, LossConfinedToClaim, ClaimHeld
<1>9. CASE FlushReplayOk
  <2>1. /\ pc = "drain" /\ pc' = "drain" /\ pos < Len(flushing) /\ pos' = pos + 1
        /\ UNCHANGED <<flushing, spill, accepted, claimed>> /\ spill = <<>>
        /\ delivered' = Append(delivered, flushing[pos + 1])
    BY <1>9 DEF FlushReplayOk, LossInv, ClaimHeld
  <2>2. /\ Backlog = SubSeq(flushing, pos + 1, Len(flushing))
        /\ Backlog' = SubSeq(flushing, (pos + 1) + 1, Len(flushing)) \o <<>>
    BY <2>1, BacklogCases DEF Backlog
  <2>3. pos + 1 \in 0..Len(flushing) /\ pos + 1 \in 1..Len(flushing) /\ pos \in 0..Len(flushing)
    BY <1>t, <2>1 DEF TypeOK
  <2>4. /\ Backlog \in Seq(Record) /\ Backlog # <<>>
        /\ Head(Backlog) = flushing[pos + 1] /\ Backlog' = Tail(Backlog)
    <3>1. SubSeq(flushing, (pos + 1) + 1, Len(flushing)) \in Seq(Record)
      BY <1>t, <2>3, SeqFacts
    <3>2. Backlog' = SubSeq(flushing, (pos + 1) + 1, Len(flushing))
      BY <2>2, <3>1
    <3>3. Backlog \in Seq(Record)
      BY <1>t, <2>2, <2>3, SeqFacts
    <3>4. /\ Backlog # <<>> /\ Head(Backlog) = flushing[pos + 1]
          /\ Tail(Backlog) = SubSeq(flushing, (pos + 1) + 1, Len(flushing))
      BY <1>t, <2>1, <2>2, <2>3, SuffixTail
    <3> QED BY <3>2, <3>3, <3>4
  <2>5. ToSet(Backlog) = {flushing[pos + 1]} \cup ToSet(Backlog')
    BY <2>4, ToSetTail
  <2>6. ToSet(delivered') = ToSet(delivered) \cup {flushing[pos + 1]}
    <3>1. flushing[pos + 1] \in Record
      BY <1>t, <2>3
    <3> QED BY <1>t, <2>1, <3>1, ToSetAppend
  <2> QED BY <2>1, <2>5, <2>6 DEF LossInv, LossConfinedToClaim
<1>10. CASE FlushSaveRest
  <2>1. /\ pc = "save" /\ pc' = "merge" /\ spill = <<>>
        /\ UNCHANGED <<spill, accepted, delivered, claimed>>
    BY <1>10 DEF FlushSaveRest, LossInv, ClaimHeld
  <2>2. rest' = Backlog
    BY <1>10, <2>1, BacklogCases DEF FlushSaveRest
  <2>3. Backlog' = rest' \o <<>> /\ rest' \in Seq(Record)
    BY <2>1 DEF Backlog, TypeOK
  <2> QED BY <2>1, <2>2, <2>3, <1>a DEF LossInv
<1>11. CASE FlushMerge
  <2>1. pc = "merge" /\ pc' = "unlink" /\ spill = <<>> /\ rest' = rest \o <<>>
        /\ UNCHANGED <<spill, accepted, delivered, claimed>>
    BY <1>11 DEF FlushMerge, LossInv, ClaimHeld
  <2>2. UNCHANGED Backlog
    BY <1>t, <2>1 DEF Backlog
  <2> QED BY <2>1, <2>2, <1>a DEF LossInv
<1>12. CASE FlushUnlinkSpill \/ FlushRestore
  <2>1. UNCHANGED Backlog
    BY <1>12 DEF FlushUnlinkSpill, FlushRestore, Backlog
  <2> QED BY <1>12, <1>a, <2>1 DEF FlushUnlinkSpill, FlushRestore, LossInv, ClaimHeld
<1>13. CASE FlushDone
  <2>1. pc = "drain" /\ pc' = "idle" /\ spill = <<>> /\ pos = Len(flushing)
        /\ UNCHANGED <<spill, accepted, delivered, claimed>>
    BY <1>13 DEF FlushDone, LossInv, ClaimHeld
  <2>2. Backlog = <<>>
    BY <2>1, BacklogCases DEF TypeOK
  <2>3. Backlog' = <<>>
    BY <2>1 DEF Backlog
  <2> QED BY <2>1, <2>2, <2>3, <1>a DEF LossInv, ClaimHeld
<1>14. CASE FlushCleanup \/ Close \/ Restart
  BY <1>14, <1>c DEF FlushCleanup, Close, Restart
<1>15. CASE Crash \/ FlushRestoreFail \/ FlushHandBackFail \/ FlushReadFail
  <2>1. /\ pc' \in {"idle", "down"} /\ UNCHANGED <<spill, accepted, delivered>>
        /\ claimed' = claimed \cup ToSet(flushing) \cup ToSet(rest)
    BY <1>15 DEF Crash, FlushRestoreFail, FlushHandBackFail, FlushReadFail, Abandon
  <2>2. Backlog' = spill
    BY <2>1 DEF Backlog
  <2> QED BY <2>1, <2>2, BacklogInFiles DEF LossInv, LossConfinedToClaim, ClaimHeld
<1>16. CASE UNCHANGED vars
  BY <1>16, <1>b DEF vars
<1>17. CASE FlushSaveRestCut
  <2>1. /\ pc = "save" /\ pc' = "merge" /\ spill = <<>> /\ spill' = <<>>
        /\ UNCHANGED <<accepted, delivered>> /\ claimed' = claimed \cup ToSet(flushing)
    BY <1>17 DEF FlushSaveRestCut, LossInv, ClaimHeld
  <2>2. ToSet(Backlog) \subseteq ToSet(flushing)
    <3>1. Backlog = SubSeq(flushing, pos + 1, Len(flushing))
      BY <2>1, BacklogCases
    <3> QED BY <3>1, ToSetSuffix DEF TypeOK
  <2> QED BY <2>1, <2>2 DEF LossInv, LossConfinedToClaim
<1> QED
  BY <1>1, <1>2, <1>3, <1>4, <1>5, <1>6, <1>7, <1>8, <1>9, <1>10, <1>11, <1>12,
     <1>13, <1>14, <1>15, <1>16, <1>17 DEF Next, Flush

(***************************************************************************)
(* Whatever fails and wherever the process dies, an accepted record was    *)
(* replayed, will be, or was in .flushing or .rest when a crash, a failing *)
(* rename or a failing read gave those files up: what only waits in the    *)
(* spill file is never lost.                                               *)
(***************************************************************************)
THEOREM OnlyClaimsLost == Spec => []LossConfinedToClaim
<1>1. Init => LossInv
  BY ToSetEmpty DEF Init, LossInv, LossConfinedToClaim, ClaimHeld, Backlog
<1>2. TypeOK /\ TypeOK' /\ LossInv /\ [Next]_vars => LossInv'
  BY LossStep
<1>3. LossInv => LossConfinedToClaim
  BY DEF LossInv
<1> QED BY <1>1, <1>2, <1>3, TypeCorrect, PTL DEF Spec

-------------------------------------------------------------------------------
(* A claim that is not open yet has been read nowhere. *)
UnreadWhenClaimed == pc = "open" => pos = 0

(***************************************************************************)
(* Only a claim leads to the step that opens it, and it rewinds.           *)
(***************************************************************************)
LEMMA UnreadStep ==
  ASSUME UnreadWhenClaimed, [Next]_vars
  PROVE  UnreadWhenClaimed'
<1> USE DEF UnreadWhenClaimed, files, conn, history
<1>1. CASE SpillOk \/ SpillFail \/ EnsureAlive \/ EnsureTooSoon \/ MarkOffline \/ Tick
  BY <1>1 DEF SpillOk, SpillFail, EnsureAlive, EnsureTooSoon, MarkOffline, Tick
<1>2. ASSUME NEW up \in {0, 1}, EnsureReconnect(up)
      PROVE  UnreadWhenClaimed'
  BY <1>2 DEF EnsureReconnect
<1>3. CASE Close \/ Crash \/ Restart
  BY <1>3 DEF Close, Crash, Restart
<1>4. CASE FlushLinkBad \/ FlushClaim \/ FlushNothing \/ FlushClaimFail \/ FlushOpen
  BY <1>4 DEF FlushLinkBad, FlushClaim, FlushNothing, FlushClaimFail, FlushOpen, CanFlush
<1>5. CASE FlushOpenFail \/ FlushReplayOk \/ FlushReplayFail \/ FlushSaveRest
             \/ FlushRestOpenFail \/ FlushRestCloseFail
  BY <1>5 DEF FlushOpenFail, FlushReplayOk, FlushReplayFail, FlushSaveRest,
       FlushRestOpenFail, FlushRestCloseFail, HandBack
<1>6. CASE FlushMerge \/ FlushUnlinkSpill \/ FlushRestore \/ FlushRestoreFail
             \/ FlushCleanup \/ FlushDone \/ FlushHandBackFail \/ FlushReadFail
             \/ FlushSaveRestCut
  BY <1>6 DEF FlushMerge, FlushUnlinkSpill, FlushRestore, FlushRestoreFail,
       FlushCleanup, FlushDone, FlushHandBackFail, FlushReadFail, FlushSaveRestCut
<1>7. CASE UNCHANGED vars
  BY <1>7 DEF vars
<1> QED BY <1>1, <1>2, <1>3, <1>4, <1>5, <1>6, <1>7 DEF Next, Flush

(***************************************************************************)
(* The end of a sequence, as the abstract queue takes it.                  *)
(***************************************************************************)
LEMMA EndIsSuffix ==
  ASSUME NEW S, NEW s \in Seq(S), NEW t \in Seq(S), Ends(s, t)
  PROVE  s = SubSeq(t, (Len(t) - Len(s)) + 1, Len(t))
<1> DEFINE p == Len(t) - Len(s)
           u == SubSeq(t, p + 1, Len(t))
<1>1. /\ Len(s) \in Nat /\ Len(t) \in Nat /\ Len(s) <= Len(t)
      /\ \A i \in 1..Len(s) : s[i] = t[p + i]
  BY DEF Ends
<1>2. p \in 0..Len(t) /\ Len(t) - p = Len(s)
  BY <1>1
<1> HIDE DEF p
<1>3. u \in Seq(S) /\ Len(u) = Len(s) /\ \A i \in 1..Len(s) : u[i] = t[p + i]
  BY <1>2, SeqFacts
<1> HIDE DEF u
<1>4. s = u
  BY <1>1, <1>3
<1> QED BY <1>4 DEF u, p

(***************************************************************************)
(* Every step of a flush, a spill or a reconnect is, through Backlog, one  *)
(* step of the abstract queue or none.                                     *)
(***************************************************************************)
LEMMA QueueStep ==
  ASSUME TypeOK, TypeOK', NothingLostInv, UnreadWhenClaimed, [Next]_vars,
         "crash" \notin Faults, "restore" \notin Faults,
         "handback" \notin Faults, "read" \notin Faults
  PROVE  [Queue!Next]_(Queue!qvars)
<1> USE DEF files, conn, history
<1>t. /\ spill \in Seq(Record) /\ flushing \in Seq(Record) /\ rest \in Seq(Record)
      /\ accepted \in Seq(Record) /\ delivered \in Seq(Record)
      /\ pos \in 0..Len(flushing)
  BY DEF TypeOK
<1>a. ASSUME UNCHANGED <<Backlog, accepted, delivered>>
      PROVE  [Queue!Next]_(Queue!qvars)
  BY <1>a DEF Queue!qvars
<1>b. ASSUME UNCHANGED <<spill, flushing, rest, pos, pc, accepted, delivered>>
      PROVE  [Queue!Next]_(Queue!qvars)
  <2>1. UNCHANGED Backlog
    BY <1>b DEF Backlog
  <2> QED BY <1>b, <1>a, <2>1
<1>c. ASSUME pc \in {"idle", "down", "cleanup"}, pc' \in {"idle", "down"},
             UNCHANGED <<spill, accepted, delivered>>
      PROVE  [Queue!Next]_(Queue!qvars)
  <2>1. UNCHANGED Backlog
    BY <1>c DEF Backlog
  <2> QED BY <1>c, <1>a, <2>1
<1>1. CASE SpillOk
  <2>1. /\ Backlog' = Append(Backlog, created + 1)
        /\ accepted' = Append(accepted, created + 1) /\ UNCHANGED delivered
    BY <1>1 DEF SpillOk, Backlog
  <2>2. created + 1 \in Record
    BY <1>1, ConstantsAssumption DEF SpillOk, TypeOK, Record
  <2>3. Queue!Enqueue
    BY <2>1, <2>2 DEF Queue!Enqueue
  <2> QED BY <2>3 DEF Queue!Next
<1>2. CASE SpillFail \/ FlushClaimFail
  BY <1>2, <1>b DEF SpillFail, FlushClaimFail
<1>3. CASE EnsureAlive \/ EnsureTooSoon \/ FlushLinkBad \/ MarkOffline \/ Tick
  BY <1>3, <1>b DEF EnsureAlive, EnsureTooSoon, FlushLinkBad, MarkOffline, Tick
<1>4. ASSUME NEW up \in {0, 1}, EnsureReconnect(up)
      PROVE  [Queue!Next]_(Queue!qvars)
  BY <1>4, <1>b DEF EnsureReconnect
<1>5. CASE FlushClaim
  <2>1. Backlog = spill /\ UNCHANGED <<accepted, delivered>>
    BY <1>5 DEF FlushClaim, CanFlush, Backlog
  <2>2. Backlog' = SubSeq(spill, 1, Len(spill)) \o <<>>
    BY <1>5 DEF FlushClaim, Backlog
  <2>3. UNCHANGED Backlog
    BY <1>t, <2>1, <2>2
  <2> QED BY <1>a, <2>1, <2>3
<1>6. CASE FlushNothing
  BY <1>6, <1>c DEF FlushNothing, CanFlush
<1>7. CASE FlushOpen \/ FlushReplayFail
  <2>1. UNCHANGED Backlog
    BY <1>7 DEF FlushOpen, FlushReplayFail, Backlog
  <2> QED BY <1>7, <1>a, <2>1 DEF FlushOpen, FlushReplayFail
<1>8. CASE FlushOpenFail
  <2>1. /\ pc = "open" /\ pos = 0 /\ spill = <<>> /\ Backlog' = flushing
        /\ UNCHANGED <<accepted, delivered>>
    BY <1>8 DEF FlushOpenFail, HandBack, Backlog, UnreadWhenClaimed, NothingLostInv
  <2>2. Backlog = SubSeq(flushing, 1, Len(flushing))
    BY <2>1, BacklogCases
  <2>3. UNCHANGED Backlog
    BY <1>t, <2>1, <2>2
  <2> QED BY <1>a, <2>1, <2>3
<1>9. CASE FlushRestOpenFail \/ FlushRestCloseFail
  <2>1. /\ pc = "save" /\ spill = <<>> /\ Ends(flushing, accepted)
        /\ Backlog' = flushing /\ UNCHANGED <<accepted, delivered>>
    BY <1>9 DEF FlushRestOpenFail, FlushRestCloseFail, HandBack, Backlog, NothingLostInv
  <2>2. {"restopen", "restclose"} \cap Faults # {}
    BY <1>9 DEF FlushRestOpenFail, FlushRestCloseFail, Fault
  <2>3. Len(Backlog) = Len(flushing) - pos
    BY <2>1, DrainBacklog
  <2> DEFINE i == (Len(accepted) - Len(flushing)) + 1
  <2>4. /\ Len(flushing) \in Nat /\ Len(accepted) \in Nat /\ pos \in Nat
        /\ Len(flushing) <= Len(accepted)
    BY <1>t, <2>1 DEF Ends
  <2>5. i \in 1..Len(accepted) + 1 /\ Len(accepted) + 1 - i >= Len(Backlog)
    BY <2>3, <2>4
  <2>6. Backlog' = SubSeq(accepted, i, Len(accepted))
    BY <1>t, <2>1, EndIsSuffix
  <2> HIDE DEF i
  <2>7. Queue!Rewind
    BY <2>1, <2>2, <2>5, <2>6 DEF Queue!Rewind
  <2> QED BY <2>7 DEF Queue!Next
<1>10. CASE FlushReplayOk
  <2>1. /\ pc = "drain" /\ pc' = "drain" /\ pos < Len(flushing) /\ pos' = pos + 1
        /\ UNCHANGED <<flushing, spill, accepted>> /\ spill = <<>>
        /\ delivered' = Append(delivered, flushing[pos + 1])
    BY <1>10 DEF FlushReplayOk, NothingLostInv
  <2>2. /\ Backlog = SubSeq(flushing, pos + 1, Len(flushing))
        /\ Backlog' = SubSeq(flushing, (pos + 1) + 1, Len(flushing)) \o <<>>
    BY <2>1, BacklogCases DEF Backlog
  <2>3. pos + 1 \in 0..Len(flushing)
    BY <1>t, <2>1
  <2>4. SubSeq(flushing, (pos + 1) + 1, Len(flushing)) \in Seq(Record)
    BY <1>t, <2>3, SeqFacts
  <2>5. Backlog' = SubSeq(flushing, (pos + 1) + 1, Len(flushing))
    BY <2>2, <2>4
  <2>6. /\ Backlog # <<>> /\ Head(Backlog) = flushing[pos + 1]
        /\ Backlog' = Tail(Backlog)
    BY <1>t, <2>1, <2>2, <2>5, SuffixTail
  <2>7. Queue!Deliver
    BY <2>1, <2>6 DEF Queue!Deliver
  <2> QED BY <2>7 DEF Queue!Next
<1>11. CASE FlushSaveRest
  <2>1. /\ pc = "save" /\ pc' = "merge" /\ spill = <<>>
        /\ UNCHANGED <<spill, accepted, delivered>>
    BY <1>11 DEF FlushSaveRest, NothingLostInv
  <2>2. rest' = Backlog
    BY <1>11, <2>1, BacklogCases DEF FlushSaveRest
  <2>3. Backlog' = rest' \o <<>> /\ rest' \in Seq(Record)
    BY <2>1 DEF Backlog, TypeOK
  <2>4. Backlog' = rest'
    BY <2>3
  <2> QED BY <2>1, <2>2, <2>4, <1>a
<1>12. CASE FlushMerge
  <2>1. pc = "merge" /\ pc' = "unlink" /\ spill = <<>> /\ rest' = rest \o <<>>
        /\ UNCHANGED <<spill, accepted, delivered>>
    BY <1>12 DEF FlushMerge, NothingLostInv
  <2>2. UNCHANGED Backlog
    BY <1>t, <2>1 DEF Backlog
  <2> QED BY <2>1, <2>2, <1>a
<1>13. CASE FlushUnlinkSpill \/ FlushRestore
  <2>1. UNCHANGED Backlog
    BY <1>13 DEF FlushUnlinkSpill, FlushRestore, Backlog
  <2> QED BY <1>13, <1>a, <2>1 DEF FlushUnlinkSpill, FlushRestore
<1>14. CASE FlushDone
  <2>1. pc = "drain" /\ pc' = "idle" /\ spill = <<>> /\ pos = Len(flushing)
        /\ UNCHANGED <<spill, accepted, delivered>>
    BY <1>14 DEF FlushDone, NothingLostInv
  <2>2. Backlog = <<>>
    BY <2>1, BacklogCases DEF TypeOK
  <2>3. Backlog' = <<>>
    BY <2>1 DEF Backlog
  <2> QED BY <2>1, <2>2, <2>3, <1>a
<1>15. CASE FlushCleanup \/ Close \/ Restart
  BY <1>15, <1>c DEF FlushCleanup, Close, Restart
<1>16. /\ ~Crash /\ ~FlushRestoreFail
       /\ ~FlushHandBackFail /\ ~FlushReadFail /\ ~FlushSaveRestCut
  BY DEF Crash, FlushRestoreFail, FlushHandBackFail, FlushReadFail, FlushSaveRestCut, Fault
<1>17. CASE UNCHANGED vars
  BY <1>17, <1>b DEF vars
<1> QED
  BY <1>1, <1>2, <1>3, <1>4, <1>5, <1>6, <1>7, <1>8, <1>9, <1>10, <1>11, <1>12,
     <1>13, <1>14, <1>15, <1>16, <1>17 DEF Next, Flush

(***************************************************************************)
(* The three files of db_buffer.c implement one FIFO queue, step by step:  *)
(* a spill is an enqueue, a successful replay a delivery of the oldest     *)
(* record, a claim handed back a rewind, and everything else (claiming,    *)
(* saving, merging, restoring) is invisible.  Without failures of .rest    *)
(* there is no rewind and the queue is exactly-once.                       *)
(***************************************************************************)
THEOREM FilesImplementQueue ==
  ASSUME "crash" \notin Faults, "restore" \notin Faults,
         "handback" \notin Faults, "read" \notin Faults
  PROVE  Spec => ImplementsQueue
<1>1. Init => Queue!Init
  BY DEF Init, Queue!Init, Backlog
<1>2. Init => NothingLostInv /\ UnreadWhenClaimed
  BY DEF Init, NothingLostInv, NothingLost, Ends, Backlog, UnreadWhenClaimed
<1>3. /\ TypeOK /\ TypeOK' /\ NothingLostInv /\ [Next]_vars => NothingLostInv'
      /\ UnreadWhenClaimed /\ [Next]_vars => UnreadWhenClaimed'
  BY NothingLostStep, UnreadStep
<1>4. TypeOK /\ TypeOK' /\ NothingLostInv /\ UnreadWhenClaimed /\ [Next]_vars
        => [Queue!Next]_(Queue!qvars)
  BY QueueStep
<1> QED BY <1>1, <1>2, <1>3, <1>4, TypeCorrect, PTL DEF Spec, ImplementsQueue, Queue!Spec
===============================================================================
