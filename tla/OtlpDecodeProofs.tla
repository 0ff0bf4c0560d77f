--------------------------- MODULE OtlpDecodeProofs ---------------------------
(***************************************************************************)
(* Proofs about OtlpDecode, for payloads of any size and any buffer sizes. *)
(***************************************************************************)
EXTENDS OtlpDecode, SeqLemmas

(* A field is read within the bound. *)
LEMMA FieldType ==
  ASSUME TypeOK, NEW l, Field(l)
  PROVE  fields' \in 0..MaxFields
BY OtlpAssumption DEF TypeOK, Field

(* What the sink is given is an item, and is counted. *)
LEMMA EmitType ==
  ASSUME TypeOK, Emit
  PROVE  emitted' \in Seq(Emission) /\ count' \in Nat
         /\ (count = Len(emitted) => count' = Len(emitted'))
<1>1. [scope |-> scope, label |-> ctx.label, name |-> ctx.scope, named |-> named,
       direct |-> direct] \in Emission
  BY DEF TypeOK, Emission
<1> QED BY <1>1 DEF Emit, TypeOK

(* TypeOK is not inductive: PointsEnd counts a container down, of which     *)
(* there is one, and a label is written to the last resource.              *)
DecodeInv ==
  /\ TypeOK
  /\ pc = "points" => metric.containers > 0
  /\ pc \notin {"request", "done"} => labels # <<>>
  /\ count = Len(emitted)
  /\ status # 0 => pc = "done"
  /\ status = 400 => count = 0

(* Every action keeps that. *)
LEMMA DecodeStep ==
  ASSUME DecodeInv, [Next]_vars
  PROVE  DecodeInv'
<1> USE OtlpAssumption DEF DecodeInv
<1>1. CASE RequestResource
  <2>1. ctx' \in [label : Labels \cup {NoLabel}, scope : Nat]
    BY <1>1 DEF RequestResource
  <2>2. labels' \in Seq(Labels \cup {NoLabel}) /\ labels' # <<>>
    <3>1. labels \in Seq(Labels \cup {NoLabel}) /\ NoLabel \in Labels \cup {NoLabel}
      BY DEF TypeOK
    <3>2. labels' = Append(labels, NoLabel)
      BY <1>1 DEF RequestResource
    <3> QED BY <3>1, <3>2
  <2> QED BY <1>1, <2>1, <2>2, FieldType DEF Field, RequestResource, Loops, TypeOK
<1>2. CASE RequestEnd
  BY <1>2 DEF RequestEnd, TypeOK, history
<1>3. CASE Broken
  BY <1>3, FieldType DEF Field, Broken, Refuse, Loops, TypeOK
<1>4. ASSUME NEW l \in Labels, ResourceLabel(l) PROVE DecodeInv'
  <2>1. labels' \in Seq(Labels \cup {NoLabel})
    BY <1>4 DEF ResourceLabel, Field, TypeOK
  <2>2. labels' # <<>>
    BY <1>4 DEF ResourceLabel, Field, TypeOK
  <2>3. ctx' \in [label : Labels \cup {NoLabel}, scope : Nat]
    BY <1>4 DEF ResourceLabel, TypeOK
  <2> QED BY <1>4, <2>1, <2>2, <2>3, FieldType DEF Field, ResourceLabel, TypeOK
<1>5. CASE ResourceScope
  <2>1. home' \in Seq(Nat)
    BY <1>5 DEF ResourceScope, TypeOK
  <2>2. pending' \in Seq(Nat) /\ Len(pending') <= MaxPending
    <3>1. pending \in Seq(Nat) /\ home \in Seq(Nat) /\ Len(pending) <= MaxPending
      BY DEF TypeOK
    <3>2. \/ Len(pending) < MaxPending /\ pending' = Append(pending, Len(home) + 1)
          \/ pending' = pending
      BY <1>5 DEF ResourceScope
    <3>3. CASE Len(pending) < MaxPending /\ pending' = Append(pending, Len(home) + 1)
      <4>1. Len(home) + 1 \in Nat
        BY <3>1
      <4>2. Len(pending') = Len(pending) + 1
        BY <3>1, <3>3, <4>1
      <4> QED BY <3>1, <3>3, <4>1, <4>2
    <3> QED BY <3>1, <3>2, <3>3
  <2>3. scope' \in Nat /\ direct' \in {0, 1} /\ named' \in {0, 1}
        /\ pc' \in {"resource", "scope"} /\ pc = "resource"
    <3>1. Len(home) + 1 \in Nat
      BY DEF TypeOK
    <3>2. scope \in Nat /\ direct \in {0, 1} /\ named \in {0, 1}
      BY DEF TypeOK
    <3> QED BY <1>5, <3>1, <3>2 DEF ResourceScope, Field, Enter
  <2> QED
    BY <1>5, <2>1, <2>2, <2>3, FieldType DEF Field, ResourceScope, Loops, TypeOK
<1>6. CASE ResourceEnd \/ PendingEnd
  <2>1. CASE ResourceEnd
    BY <2>1 DEF ResourceEnd, Loops, TypeOK, history
  <2>2. CASE PendingEnd
    BY <2>2 DEF PendingEnd, Loops, TypeOK, history
  <2> QED BY <1>6, <2>1, <2>2
<1>7. CASE PendingNext
  BY <1>7 DEF PendingNext, Enter, Loops, TypeOK
<1>8. CASE ScopeName
  <2>1. ctx' \in [label : Labels \cup {NoLabel}, scope : Nat]
    BY <1>8 DEF ScopeName, TypeOK
  <2> QED BY <1>8, <2>1, FieldType DEF Field, ScopeName, TypeOK
<1>9. CASE ScopeSpan
  BY <1>9, FieldType, EmitType DEF Field, ScopeSpan, TypeOK
<1>10. CASE ScopeMetric
  BY <1>10, FieldType DEF Field, ScopeMetric, NoMetric, Loops, TypeOK, history
<1>11. CASE ScopeEnd
  BY <1>11 DEF ScopeEnd, Loops, TypeOK
<1>12. CASE MetricName
  <2>1. metric' \in [named : {0, 1}, containers : 0..MaxContainers]
    <3>1. metric \in [named : {0, 1}, containers : 0..MaxContainers]
      BY DEF TypeOK
    <3>2. PICK n \in {0, 1} : metric' = [metric EXCEPT !.named = n]
      BY <1>12 DEF MetricName
    <3> QED BY <3>1, <3>2
  <2> QED BY <1>12, <2>1, FieldType DEF Field, MetricName, TypeOK, history
<1>13. CASE MetricContainer
  <2>1. metric' \in [named : {0, 1}, containers : 0..MaxContainers]
    <3>1. metric \in [named : {0, 1}, containers : 0..MaxContainers]
      BY DEF TypeOK
    <3>2. CASE metric.containers < MaxContainers
      <4>1. metric.containers + 1 \in 0..MaxContainers
        BY <3>1, <3>2
      <4>2. metric' = [metric EXCEPT !.containers = metric.containers + 1]
        BY <1>13, <3>2 DEF MetricContainer
      <4> QED BY <3>1, <4>1, <4>2
    <3> QED BY <1>13, <3>1, <3>2 DEF MetricContainer
  <2> QED BY <1>13, <2>1, FieldType DEF Field, MetricContainer, TypeOK, history
<1>14. CASE MetricEnd
  BY <1>14 DEF MetricEnd, Loops, TypeOK, history
<1>15. CASE Point
  BY <1>15, FieldType, EmitType DEF Field, Point, TypeOK
<1>16. CASE PointsEnd
  <2>1. /\ metric' \in [named : {0, 1}, containers : 0..MaxContainers]
        /\ pc' = "points" => metric'.containers > 0
    <3>1. metric \in [named : {0, 1}, containers : 0..MaxContainers]
      BY DEF TypeOK
    <3>2. metric.containers - 1 \in 0..MaxContainers
      BY <1>16, <3>1 DEF PointsEnd
    <3>3. metric' = [metric EXCEPT !.containers = metric.containers - 1]
      BY <1>16 DEF PointsEnd
    <3>4. pc' = "points" => metric.containers # 1
      BY <1>16 DEF PointsEnd
    <3>5. metric' \in [named : {0, 1}, containers : 0..MaxContainers]
          /\ metric'.containers = metric.containers - 1
      BY <3>1, <3>2, <3>3
    <3> QED BY <3>1, <3>2, <3>4, <3>5
  <2> QED BY <1>16, <2>1 DEF PointsEnd, Loops, TypeOK, history
<1>17. CASE UNCHANGED vars
  BY <1>17 DEF vars, reader, history, TypeOK
<1> QED
  BY <1>1, <1>2, <1>3, <1>4, <1>5, <1>6, <1>7, <1>8, <1>9, <1>10, <1>11, <1>12,
     <1>13, <1>14, <1>15, <1>16, <1>17 DEF Next

(***************************************************************************)
(* The buffers of a resource and of a metric stay within their arrays, for *)
(* every payload and every size of the arrays.                             *)
(***************************************************************************)
THEOREM TypeCorrect == Spec => []TypeOK
<1>1. Init => DecodeInv
  BY OtlpAssumption DEF Init, DecodeInv, TypeOK, Loops, NoMetric
<1>2. DecodeInv /\ [Next]_vars => DecodeInv'
  BY DecodeStep
<1>3. DecodeInv => TypeOK
  BY DEF DecodeInv
<1> QED BY <1>1, <1>2, <1>3, PTL DEF Spec

(***************************************************************************)
(* A request that is answered 400 has stored nothing, so that sending it   *)
(* again cannot double what was stored.                                    *)
(***************************************************************************)
THEOREM Refused == Spec => []RefusedLeavesNothing
<1>1. Init => DecodeInv
  BY OtlpAssumption DEF Init, DecodeInv, TypeOK, Loops, NoMetric
<1>2. DecodeInv /\ [Next]_vars => DecodeInv'
  BY DecodeStep
<1>3. DecodeInv => RefusedLeavesNothing
  BY DEF DecodeInv, RefusedLeavesNothing, TypeOK
<1> QED BY <1>1, <1>2, <1>3, PTL DEF Spec

-------------------------------------------------------------------------------
(* A step to another loop, over the same scopes and context. *)
LEMMA ContextLoop ==
  ASSUME ContextInv,
         UNCHANGED <<ctx, pending, scope, direct, labels, home, named, emitted>>,
         pc' = "resource" => pc = "resource" \/ (Walking /\ direct = 1),
         Walking' => Walking,
         pc' \notin {"request", "done"} => pc \notin {"request", "done"},
         pc' = "request" => pending = <<>>
  PROVE  ContextInv'
BY DEF ContextInv, OwnContext, OfLast

(* One more item in the sink, from the scope that is walked. *)
LEMMA ContextEmit ==
  ASSUME TypeOK, ContextInv, Walking, Emit,
         UNCHANGED <<pc, ctx, pending, scope, direct, labels, home, named>>
  PROVE  ContextInv'
<1> DEFINE new == [scope |-> scope, label |-> ctx.label, name |-> ctx.scope,
                   named |-> named, direct |-> direct]
<1>1. new \in Emission
  BY DEF TypeOK, Emission
<1>2. /\ emitted \in Seq(Emission) /\ emitted' \in Seq(Emission)
      /\ Len(emitted') = Len(emitted) + 1
      /\ emitted'[Len(emitted) + 1] = new
      /\ \A i \in 1..Len(emitted) : emitted'[i] = emitted[i]
  BY <1>1 DEF Emit, TypeOK
<1>3. /\ ctx.scope # 0 => OfLast(ctx.scope)
      /\ OfLast(scope) /\ (named = 1 => ctx.scope = scope)
      /\ ctx.label = labels[Len(labels)]
  BY DEF ContextInv, Walking
<1>4. ASSUME NEW i \in 1..Len(emitted')
      PROVE  LET e == emitted'[i]
             IN  /\ e.scope \in 1..Len(home)
                 /\ e.name # 0 => e.name \in 1..Len(home)
                 /\ (pc = "resource" \/ (Walking /\ direct = 1)) /\ e.direct = 0
                      => home[e.scope] # Len(labels)
                 /\ e.direct = 0 => e.label = labels[home[e.scope]]
                 /\ e.named = 1 => e.name = e.scope
                 /\ e.name # 0 => home[e.name] = home[e.scope]
  <2>1. CASE i \in 1..Len(emitted)
    <3>1. emitted'[i] = emitted[i] /\ i \in DOMAIN emitted
      BY <1>2, <2>1
    <3> QED BY <2>1, <3>1 DEF ContextInv, OwnContext
  <2>2. CASE i = Len(emitted) + 1
    <3>1. emitted'[i] = new
      BY <1>2, <2>2
    <3> QED BY <1>3, <3>1 DEF OfLast, Walking
  <2> QED BY <1>2, <2>1, <2>2
<1>5. DOMAIN emitted' = 1..Len(emitted')
  BY <1>2
<1>6. OwnContext'
  BY <1>4, <1>5 DEF OwnContext
<1> QED BY <1>4, <1>6 DEF ContextInv, OfLast, Walking

(* Every action keeps the context that of the last resource. *)
LEMMA ContextStep ==
  ASSUME DecodeInv, ContextInv, [Next]_vars
  PROVE  ContextInv'
<1>a. TypeOK /\ (pc \notin {"request", "done"} => labels # <<>>)
  BY DEF DecodeInv
<1>b. /\ labels \in Seq(Labels \cup {NoLabel}) /\ home \in Seq(Nat)
      /\ pending \in Seq(Nat) /\ emitted \in Seq(Emission)
      /\ DOMAIN emitted = 1..Len(emitted)
  BY <1>a DEF TypeOK
<1>1. CASE RequestResource
  <2>1. /\ pc = "request" /\ pc' = "resource"
        /\ ctx' = [label |-> NoLabel, scope |-> 0]
        /\ labels' = Append(labels, NoLabel)
        /\ UNCHANGED <<pending, home, emitted>>
    BY <1>1 DEF RequestResource, Field
  <2>2. /\ labels' # <<>> /\ Len(labels') = Len(labels) + 1
        /\ labels'[Len(labels')] = NoLabel
        /\ \A r \in 1..Len(labels) : labels'[r] = labels[r]
    <3>1. NoLabel \in Labels \cup {NoLabel}
      OBVIOUS
    <3>2. Len(labels') = Len(labels) + 1 /\ labels'[Len(labels) + 1] = NoLabel
      BY <1>b, <2>1, <3>1
    <3>3. \A r \in 1..Len(labels) : labels'[r] = labels[r]
      BY <1>b, <2>1, <3>1
    <3>4. labels' # <<>>
      BY <1>b, <3>2
    <3> QED BY <3>2, <3>3, <3>4
  <2>3. \A s \in 1..Len(home) : home[s] \in 1..Len(labels)
    BY DEF ContextInv
  <2>4. OwnContext'
    <3>1. \A i \in DOMAIN emitted : labels'[home[emitted[i].scope]]
                                      = labels[home[emitted[i].scope]]
      BY <1>b, <2>2, <2>3 DEF ContextInv
    <3> QED BY <2>1, <3>1 DEF ContextInv, OwnContext
  <2>5. \A i \in 1..Len(emitted) : home[emitted[i].scope] # Len(labels')
    BY <1>b, <2>2, <2>3 DEF ContextInv
  <2> QED BY <1>b, <2>1, <2>2, <2>3, <2>4, <2>5 DEF ContextInv, Walking
<1>2. ASSUME NEW l \in Labels, ResourceLabel(l) PROVE ContextInv'
  <2>1. /\ pc = "resource" /\ labels # <<>>
        /\ ctx' = [ctx EXCEPT !.label = l]
        /\ labels' = [labels EXCEPT ![Len(labels)] = l]
        /\ UNCHANGED <<pc, pending, scope, direct, home, named, emitted>>
    BY <1>a, <1>2 DEF ResourceLabel, Field
  <2>2. /\ labels' # <<>> /\ Len(labels') = Len(labels)
        /\ labels'[Len(labels)] = l
        /\ \A r \in 1..Len(labels) : r # Len(labels) => labels'[r] = labels[r]
    BY <1>b, <2>1
  <2>3. ctx'.label = l /\ ctx'.scope = ctx.scope
    BY <1>a, <2>1 DEF TypeOK
  <2>4. \A i \in 1..Len(emitted) :
          emitted[i].direct = 0 => home[emitted[i].scope] # Len(labels)
    BY <2>1 DEF ContextInv
  <2>5. OwnContext'
    BY <1>b, <2>1, <2>2, <2>4 DEF ContextInv, OwnContext
  <2> QED BY <1>b, <2>1, <2>2, <2>3, <2>5 DEF ContextInv, OfLast, Walking
<1>3. CASE ResourceScope
  <2>1. /\ pc = "resource" /\ labels # <<>>
        /\ home' = Append(home, Len(labels))
        /\ UNCHANGED <<ctx, labels, emitted>>
        /\ \/ pending' = Append(pending, Len(home) + 1) /\ UNCHANGED pc
           \/ /\ UNCHANGED pending /\ pc' = "scope" /\ direct' = 1
              /\ scope' = Len(home) + 1 /\ named' = 0
    BY <1>a, <1>3 DEF ResourceScope, Enter, Field
  <2>2. /\ Len(home') = Len(home) + 1 /\ home'[Len(home')] = Len(labels)
        /\ Len(labels) \in 1..Len(labels)
        /\ \A s \in 1..Len(home) : s \in 1..Len(home') /\ home'[s] = home[s]
    BY <1>b, <2>1
  <2> DEFINE After(s) == s \in 1..Len(home') /\ home'[s] = Len(labels)
  <2>3. After(Len(home) + 1) /\ \A s \in 1..Len(home) : OfLast(s) => After(s)
    BY <1>b, <2>2 DEF OfLast
  <2>4. pc \notin {"request", "done"} /\ pc' \notin {"request", "done"}
    BY <2>1
  <2>5. \A i \in 1..Len(pending') : After(pending'[i])
    <3>0. \A i \in 1..Len(pending) : After(pending[i])
      BY <2>3, <2>4 DEF ContextInv, OfLast
    <3>1. CASE UNCHANGED pending
      BY <3>0, <3>1
    <3>2. CASE pending' = Append(pending, Len(home) + 1)
      <4>1. /\ Len(pending') = Len(pending) + 1
            /\ pending'[Len(pending) + 1] = Len(home) + 1
            /\ \A i \in 1..Len(pending) : pending'[i] = pending[i]
        BY <1>b, <3>2
      <4>2. ASSUME NEW i \in 1..Len(pending') PROVE After(pending'[i])
        <5>1. CASE i \in 1..Len(pending)
          BY <3>0, <4>1, <5>1
        <5>2. CASE i = Len(pending) + 1
          BY <2>3, <4>1, <5>2
        <5> QED BY <1>b, <4>1, <5>1, <5>2
      <4> QED BY <4>2
    <3> QED BY <2>1, <3>1, <3>2
  <2>6. OwnContext'
    BY <1>b, <2>1, <2>2 DEF ContextInv, OwnContext
  <2>7. \A s \in 1..Len(home') : home'[s] \in 1..Len(labels)
    <3>1. \A s \in 1..Len(home) : home[s] \in 1..Len(labels)
      BY DEF ContextInv
    <3>2. \A n \in Nat : \A s \in 1..n + 1 : s \in 1..n \/ s = n + 1
      OBVIOUS
    <3>3. Len(home) \in Nat
      BY <1>b
    <3>4. \A s \in 1..Len(home') : s \in 1..Len(home) \/ s = Len(home')
      BY <2>2, <3>2, <3>3, Zenon
    <3> QED BY <2>2, <3>1, <3>4, Zenon
  <2>8. \A i \in 1..Len(emitted) :
          LET e == emitted[i]
          IN  /\ e.scope \in 1..Len(home')
              /\ e.name # 0 => e.name \in 1..Len(home')
              /\ e.direct = 0 => home'[e.scope] # Len(labels)
    BY <2>1, <2>2 DEF ContextInv
  <2>9. Walking' => After(scope') /\ named' = 0
    BY <2>1, <2>3 DEF Walking
  <2>10. ctx.scope # 0 => After(ctx.scope)
    BY <2>3, <2>4 DEF ContextInv, OfLast
  <2> QED
    BY <2>1, <2>4, <2>5, <2>6, <2>7, <2>8, <2>9, <2>10 DEF ContextInv, OfLast
<1>4. CASE PendingNext
  <2>1. /\ pc = "pending" /\ pc' = "scope" /\ scope' = Head(pending) /\ direct' = 0
        /\ named' = 0 /\ pending # <<>> /\ pending' = Tail(pending)
        /\ UNCHANGED <<ctx, labels, home, emitted>>
    BY <1>4 DEF PendingNext, Enter
  <2>2. /\ 1 \in 1..Len(pending) /\ scope' = pending[1]
        /\ \A i \in 1..Len(pending') : i + 1 \in 1..Len(pending)
                                       /\ pending'[i] = pending[i + 1]
    BY <1>b, <2>1
  <2>3. OfLast(scope') /\ \A i \in 1..Len(pending') : OfLast(pending'[i])
    BY <2>1, <2>2 DEF ContextInv
  <2> QED BY <2>1, <2>3 DEF ContextInv, OwnContext, OfLast, Walking
<1>5. CASE ScopeName
  <2>1. /\ Walking /\ ctx'.scope = scope /\ ctx'.label = ctx.label
        /\ UNCHANGED <<pc, pending, scope, direct, labels, home, emitted>>
    BY <1>a, <1>5 DEF ScopeName, Field, Walking, TypeOK
  <2> QED BY <2>1 DEF ContextInv, OwnContext, OfLast, Walking
<1>6. CASE ScopeSpan \/ Point
  <2>1. Walking /\ Emit
        /\ UNCHANGED <<pc, ctx, pending, scope, direct, labels, home, named>>
    BY <1>6 DEF ScopeSpan, Point, Field, Walking
  <2> QED BY <1>a, <2>1, ContextEmit
<1>7. CASE \/ RequestEnd \/ Broken \/ ResourceEnd \/ PendingEnd \/ ScopeMetric
           \/ ScopeEnd \/ MetricName \/ MetricContainer \/ MetricEnd \/ PointsEnd
  <2>1. UNCHANGED <<ctx, pending, scope, direct, labels, home, named, emitted>>
    BY <1>7 DEF RequestEnd, Broken, ResourceEnd, PendingEnd, ScopeMetric, ScopeEnd,
                MetricName, MetricContainer, MetricEnd, PointsEnd, history
  <2>2. /\ pc' = "resource" => pc = "resource" \/ (Walking /\ direct = 1)
        /\ Walking' => Walking
        /\ pc' \notin {"request", "done"} => pc \notin {"request", "done"}
        /\ pc' = "request" => pending = <<>>
    BY <1>7 DEF RequestEnd, Broken, ResourceEnd, PendingEnd, ScopeMetric, ScopeEnd,
                MetricName, MetricContainer, MetricEnd, PointsEnd, Walking, Field
  <2> QED BY <2>1, <2>2, ContextLoop
<1>8. CASE UNCHANGED vars
  BY <1>8 DEF vars, reader, history, ContextInv, OwnContext, OfLast, Walking
<1> QED
  BY <1>1, <1>2, <1>3, <1>4, <1>5, <1>6, <1>7, <1>8 DEF Next

(***************************************************************************)
(* An item goes to the label of its own resource, unless the buffer of its *)
(* resource was full, and never under a scope name of another resource,    *)
(* wherever label and names stand in a payload of any size.                *)
(***************************************************************************)
THEOREM InOwnContext == Spec => []OwnContext
<1>1. Init => DecodeInv /\ ContextInv
  BY OtlpAssumption DEF Init, DecodeInv, TypeOK, Loops, NoMetric, ContextInv,
                        OwnContext, Walking
<1>2. DecodeInv /\ ContextInv /\ [Next]_vars => (DecodeInv /\ ContextInv)'
  BY DecodeStep, ContextStep
<1>3. ContextInv => OwnContext
  BY DEF ContextInv
<1> QED BY <1>1, <1>2, <1>3, PTL DEF Spec
-------------------------------------------------------------------------------
(* Scopes that were found and not walked to their end. *)
Unwalked == ToSet(pending) \cup (IF Walking THEN {scope} ELSE {})

(***************************************************************************)
(* Why EarlierScopesKept is inductive: until the walk is over, each scope  *)
(* was walked, waits in the buffer or is walked now, and one of these      *)
(* only; those that wait are the last resource's (ContextInv).             *)
(***************************************************************************)
ScopeInv ==
  /\ IsInjective(decoded) /\ IsInjective(pending)
  /\ ToSet(decoded) \cap ToSet(pending) = {}
  /\ Walking => scope \notin ToSet(decoded) \cup ToSet(pending)
  /\ ToSet(decoded) \subseteq 1..Len(home) /\ ToSet(pending) \subseteq 1..Len(home)
  /\ pc # "done" => /\ 1..Len(home) \subseteq ToSet(decoded) \cup Unwalked
                    /\ status = 0 /\ broken = 0
  /\ EarlierScopesKept

(* A step that neither finds a scope nor begins or ends to walk one. *)
LEMMA ScopeLoop ==
  ASSUME ScopeInv, UNCHANGED <<pending, scope, decoded, home, status, broken>>,
         pc # "done", pc' # "done", Walking' <=> Walking
  PROVE  ScopeInv'
BY DEF ScopeInv, EarlierScopesKept, Unwalked

(***************************************************************************)
(* ScopeInv is inductive.                                                  *)
(***************************************************************************)
LEMMA ScopeStep ==
  ASSUME DecodeInv, ContextInv, ScopeInv, [Next]_vars
  PROVE  ScopeInv'
<1>t. /\ pending \in Seq(Nat) /\ decoded \in Seq(Nat) /\ home \in Seq(Nat) /\ scope \in Nat
      /\ labels \in Seq(Labels \cup {NoLabel})
      /\ DOMAIN home = 1..Len(home) /\ Len(home) \in Nat /\ Len(labels) \in Nat
  <2>1. /\ pending \in Seq(Nat) /\ decoded \in Seq(Nat) /\ home \in Seq(Nat) /\ scope \in Nat
        /\ labels \in Seq(Labels \cup {NoLabel})
    BY DEF DecodeInv, TypeOK
  <2> QED BY <2>1
<1>i. IsInjective(decoded) /\ IsInjective(pending) /\ ToSet(decoded) \cap ToSet(pending) = {}
      /\ ToSet(decoded) \subseteq 1..Len(home) /\ ToSet(pending) \subseteq 1..Len(home)
  BY DEF ScopeInv
<1>u. pc # "done" => /\ 1..Len(home) \subseteq ToSet(decoded) \cup Unwalked
                     /\ status = 0 /\ broken = 0
  BY DEF ScopeInv
<1>e. (* The walk is over, with everything of the earlier resources walked. *)
      ASSUME pc # "done", pc' = "done", status' # 0, UNCHANGED <<pending, decoded, home, labels>>,
             broken' = 0 => 1..Len(home) \subseteq ToSet(decoded)
      PROVE  ScopeInv'
  <2>1. \A s \in Unwalked : pc # "request" /\ home[s] = Len(labels)
    <3>1. CASE pc = "request"
      BY <3>1, ToSetEmpty DEF Unwalked, Walking, ContextInv
    <3>2. CASE pc # "request"
      <4>1. \A s \in ToSet(pending) : home[s] = Len(labels)
        <5>1. \A k \in 1..Len(pending) : home[pending[k]] = Len(labels)
          BY <1>e, <3>2 DEF ContextInv, OfLast
        <5>2. ToSet(pending) = {pending[k] : k \in 1..Len(pending)}
          BY <1>t, ToSetElements
        <5> QED BY <5>1, <5>2
      <4>2. Walking => home[scope] = Len(labels)
        BY DEF ContextInv, OfLast
      <4> QED BY <3>2, <4>1, <4>2 DEF Unwalked
    <3> QED BY <3>1, <3>2
  <2>2. \A s \in 1..Len(home) : home[s] < Len(labels) => s \in ToSet(decoded)
    <3>1. ASSUME NEW s \in 1..Len(home), home[s] < Len(labels) PROVE s \notin Unwalked
      <4>1. home[s] # Len(labels)
        BY <1>t, <3>1
      <4> QED BY <2>1, <4>1
    <3> QED BY <1>e, <1>u, <3>1
  <2>3. ~Walking'
    BY <1>e DEF Walking
  <2>4. EarlierScopesKept'
    BY <1>e, <1>i, <1>t, <2>2 DEF EarlierScopesKept
  <2> QED BY <1>e, <1>i, <2>3, <2>4 DEF ScopeInv
<1>1. CASE RequestResource
  <2>1. pc = "request" /\ pc' = "resource" /\ UNCHANGED <<pending, scope, decoded, home, status, broken>>
    BY <1>1 DEF RequestResource, Field
  <2> QED BY <2>1, ScopeLoop DEF Walking
<1>2. CASE RequestEnd
  <2>1. /\ pc = "request" /\ pc' = "done" /\ status' = 200
        /\ UNCHANGED <<pending, decoded, home, labels, broken>>
    BY <1>2 DEF RequestEnd, history
  <2>2. Unwalked = {}
    BY <2>1, ToSetEmpty DEF Unwalked, Walking, ContextInv
  <2> QED BY <1>e, <1>u, <2>1, <2>2
<1>3. CASE Broken
  <2>1. /\ pc # "done" /\ pc' = "done" /\ status' # 0 /\ broken' = 1
        /\ UNCHANGED <<pending, decoded, home, labels>>
    BY <1>3 DEF Broken, Field, Loops, Refuse
  <2> QED BY <1>e, <2>1
<1>4. ASSUME NEW l \in Labels, ResourceLabel(l) PROVE ScopeInv'
  <2>1. pc = "resource" /\ UNCHANGED <<pc, pending, scope, decoded, home, status, broken>>
    BY <1>4 DEF ResourceLabel, Field
  <2> QED BY <2>1, ScopeLoop DEF Walking
<1>5. CASE ResourceScope
  <2> DEFINE s == Len(home) + 1
  <2>1. /\ pc = "resource" /\ home' = Append(home, Len(labels))
        /\ UNCHANGED <<decoded, status, broken>>
        /\ \/ pending' = Append(pending, s) /\ pc' = pc
           \/ pending' = pending /\ pc' = "scope" /\ scope' = s
    BY <1>5 DEF ResourceScope, Field, Enter
  <2>2. /\ s \in Nat /\ s \notin 1..Len(home) /\ Len(home') = Len(home) + 1
        /\ 1..Len(home') = (1..Len(home)) \cup {s}
    BY <1>t, <2>1
  <2>3. s \notin ToSet(pending) /\ s \notin ToSet(decoded)
    BY <1>i, <2>2
  <2>4. ToSet(Append(pending, s)) = ToSet(pending) \cup {s} /\ IsInjective(Append(pending, s))
    BY <1>i, <1>t, <2>2, <2>3, ToSetAppend, AppendDistinct
  <2>5. Unwalked = ToSet(pending) /\ status' = 0 /\ broken' = 0
    BY <1>u, <2>1 DEF Unwalked, Walking
  <2>6. EarlierScopesKept'
    BY <1>i, <2>1, <2>5 DEF EarlierScopesKept
  <2> HIDE DEF s
  <2>7. CASE pending' = Append(pending, s) /\ pc' = pc
    <3>1. ~Walking' /\ Unwalked' = ToSet(pending) \cup {s}
      BY <2>1, <2>4, <2>7 DEF Walking, Unwalked
    <3> QED BY <1>i, <1>u, <2>1, <2>2, <2>3, <2>4, <2>5, <2>6, <2>7, <3>1 DEF ScopeInv
  <2>8. CASE pending' = pending /\ pc' = "scope" /\ scope' = s
    <3>1. Walking' /\ Unwalked' = ToSet(pending) \cup {s}
      BY <2>1, <2>8 DEF Walking, Unwalked
    <3> QED BY <1>i, <1>u, <2>1, <2>2, <2>3, <2>5, <2>6, <2>8, <3>1 DEF ScopeInv
  <2> QED BY <2>1, <2>7, <2>8
<1>6. CASE ResourceEnd \/ PendingEnd
  <2>1. /\ pc \in {"resource", "pending"} /\ pc' \in {"pending", "request"}
        /\ UNCHANGED <<pending, scope, decoded, home, status, broken>>
    BY <1>6 DEF ResourceEnd, PendingEnd, history
  <2> QED BY <2>1, ScopeLoop DEF Walking
<1>7. CASE PendingNext
  <2>1. /\ pc = "pending" /\ pc' = "scope" /\ pending # <<>> /\ pending' = Tail(pending)
        /\ scope' = Head(pending) /\ UNCHANGED <<decoded, home, status, broken>>
    BY <1>7 DEF PendingNext, Enter
  <2>2. /\ ToSet(pending) = {scope'} \cup ToSet(pending')
        /\ IsInjective(pending') /\ scope' \notin ToSet(pending')
    BY <1>i, <1>t, <2>1, ToSetTail, TailDistinct
  <2>3. Walking' /\ Unwalked' = ToSet(pending) /\ Unwalked = ToSet(pending)
    BY <2>1, <2>2 DEF Walking, Unwalked
  <2>4. EarlierScopesKept' /\ status' = 0 /\ broken' = 0
    BY <1>i, <1>u, <2>1 DEF EarlierScopesKept
  <2> QED BY <1>i, <1>u, <2>1, <2>2, <2>3, <2>4 DEF ScopeInv
<1>8. CASE ScopeName \/ ScopeSpan \/ ScopeMetric
  <2>1. pc = "scope" /\ pc' \in {"scope", "metric"}
        /\ UNCHANGED <<pending, scope, decoded, home, status, broken>>
    BY <1>8 DEF ScopeName, ScopeSpan, ScopeMetric, Field, history
  <2> QED BY <2>1, ScopeLoop DEF Walking
<1>9. CASE ScopeEnd
  <2>1. /\ pc = "scope" /\ pc' \in {"resource", "pending"} /\ decoded' = Append(decoded, scope)
        /\ UNCHANGED <<pending, scope, home, status, broken>>
    BY <1>9 DEF ScopeEnd
  <2>2. scope \notin ToSet(decoded) /\ scope \notin ToSet(pending) /\ scope \in 1..Len(home)
    BY <2>1 DEF Walking, ScopeInv, ContextInv, OfLast
  <2>3. ToSet(decoded') = ToSet(decoded) \cup {scope} /\ IsInjective(decoded')
    BY <1>i, <1>t, <2>1, <2>2, ToSetAppend, AppendDistinct
  <2>4. ~Walking' /\ Unwalked' = ToSet(pending) /\ Unwalked = ToSet(pending) \cup {scope}
    BY <2>1 DEF Walking, Unwalked
  <2>5. EarlierScopesKept' /\ status' = 0 /\ broken' = 0
    BY <1>u, <2>1, <2>3 DEF EarlierScopesKept
  <2> QED BY <1>i, <1>u, <2>1, <2>2, <2>3, <2>4, <2>5 DEF ScopeInv
<1>10. CASE MetricName \/ MetricContainer \/ MetricEnd \/ Point \/ PointsEnd
  <2>1. pc \in {"metric", "points"} /\ pc' \in {"scope", "metric", "points"}
        /\ UNCHANGED <<pending, scope, decoded, home, status, broken>>
    BY <1>10 DEF MetricName, MetricContainer, MetricEnd, Point, PointsEnd, Field, history
  <2> QED BY <2>1, ScopeLoop DEF Walking
<1>11. CASE UNCHANGED vars
  BY <1>11 DEF vars, reader, history, ScopeInv, EarlierScopesKept, Unwalked, Walking
<1> QED
  BY <1>1, <1>2, <1>3, <1>4, <1>5, <1>6, <1>7, <1>8, <1>9, <1>10, <1>11 DEF Next

(***************************************************************************)
(* No scope is walked twice, and when the walk of a payload of any size is *)
(* over every scope of the resources before the one at fault was walked;   *)
(* every scope, if there was no fault.                                     *)
(***************************************************************************)
THEOREM FaultCostsLastResource == Spec => []EarlierScopesKept
<1>1. Init => DecodeInv /\ ContextInv
  BY OtlpAssumption DEF Init, DecodeInv, TypeOK, Loops, NoMetric, ContextInv,
                        OwnContext, Walking
<1>2. ASSUME Init PROVE ScopeInv
  <2>1. ToSet(<<>>) = {} /\ IsInjective(<<>>) /\ 1..Len(<<>>) = {}
    BY ToSetEmpty DEF IsInjective
  <2> QED BY <1>2, <2>1 DEF Init, ScopeInv, EarlierScopesKept, Unwalked, Walking
<1>3. DecodeInv /\ ContextInv /\ ScopeInv /\ [Next]_vars => (DecodeInv /\ ContextInv /\ ScopeInv)'
  BY DecodeStep, ContextStep, ScopeStep
<1>4. ScopeInv => EarlierScopesKept
  BY DEF ScopeInv
<1> QED BY <1>1, <1>2, <1>3, <1>4, PTL DEF Spec
===============================================================================
