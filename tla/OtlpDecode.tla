------------------------------ MODULE OtlpDecode ------------------------------
(***************************************************************************)
(* otlp_decode_traces and otlp_decode_metrics (src/src/agent/otlp_trace.c, *)
(* otlp_metric.c): one walk through an export request, from its resources  *)
(* to their scopes to spans, or to metrics and their data points.          *)
(*                                                                         *)
(* The payload is not a constant: what the next field is, or that there is *)
(* none, is chosen when the walk gets to it.  A field that is skipped       *)
(* changes nothing and is not modelled.  A tag that pb_next refuses ends a *)
(* message like its last byte does (every loop tests for == 1), so an      *)
(* "End" action stands for both; a field that cannot be read is Broken.    *)
(***************************************************************************)
EXTENDS Naturals, Sequences, SequencesExt

CONSTANTS
  Labels,         \* values of procwatch.label
  NoLabel,        \* its absence
  MaxPending,     \* scopes a resource buffers: pending[64]
  MaxContainers,  \* gauges, sums and histograms a metric buffers: pending[8]
  MaxFields       \* bound: fields read

ASSUME OtlpAssumption ==
  /\ NoLabel \notin Labels
  /\ MaxPending \in Nat /\ MaxContainers \in Nat /\ MaxFields \in Nat

VARIABLES
  signal,   \* "traces" or "metrics"
  pc,       \* the loop that reads the next field
  ctx,      \* span_context_t, metric_context_t: label, and scope_name as the
            \* scope it was read in, 0 if it was not set
  pending,  \* scopes of this resource that are buffered, in order
  scope,    \* the scope that is walked
  direct,   \* 1 if that scope found the buffer full
  metric,   \* the metric that is walked: its name is known, containers buffered
  count,    \* *count
  status,   \* 0, then what on_request makes of the result: 200 or 400
  fields,   \* fields read
  labels,   \* history: of each resource, the last label its attributes name
  home,     \* history: of each scope, its resource
  named,    \* history: 1 if the scope that is walked has given its name
  decoded,  \* history: scopes walked to their end, in that order
  emitted,  \* history: what the sink was given
  broken    \* history: 1 if a field could not be read

reader == <<signal, pc, ctx, pending, scope, direct, metric, count, status, fields>>
history == <<labels, home, named, decoded, emitted, broken>>
vars == <<reader, history>>

NoMetric == [named |-> 0, containers |-> 0]

Emission == [scope : Nat, label : Labels \cup {NoLabel}, name : Nat,
             named : {0, 1}, direct : {0, 1}]

Loops == {"request", "resource", "pending", "scope", "metric", "points"}

TypeOK ==
  /\ signal \in {"traces", "metrics"}
  /\ pc \in Loops \cup {"done"}
  /\ ctx \in [label : Labels \cup {NoLabel}, scope : Nat]
  /\ pending \in Seq(Nat) /\ Len(pending) <= MaxPending
  /\ scope \in Nat /\ direct \in {0, 1}
  /\ metric \in [named : {0, 1}, containers : 0..MaxContainers]
  /\ count \in Nat /\ status \in {0, 200, 400}
  /\ fields \in 0..MaxFields
  /\ labels \in Seq(Labels \cup {NoLabel})
  /\ home \in Seq(Nat)
  /\ named \in {0, 1}
  /\ decoded \in Seq(Nat)
  /\ emitted \in Seq(Emission)
  /\ broken \in {0, 1}

Init ==
  /\ signal \in {"traces", "metrics"}
  /\ pc = "request"
  /\ ctx = [label |-> NoLabel, scope |-> 0]
  /\ pending = <<>> /\ scope = 0 /\ direct = 0 /\ metric = NoMetric
  /\ count = 0 /\ status = 0 /\ fields = 0
  /\ labels = <<>> /\ home = <<>> /\ named = 0 /\ decoded = <<>> /\ emitted = <<>>
  /\ broken = 0

(* pb_next returns 1 in the loop l. *)
Field(l) ==
  /\ pc = l /\ fields < MaxFields
  /\ fields' = fields + 1

-------------------------------------------------------------------------------
(***************************************************************************)
(* otlp_decode_traces, otlp_decode_metrics.                                *)
(***************************************************************************)

(* Mutant of RequestResource: the context is not cleared. *)
RequestResourceKeepsContext ==
  /\ Field("request")
  /\ labels' = Append(labels, NoLabel)
  /\ pc' = "resource"
  /\ UNCHANGED <<ctx, signal, pending, scope, direct, metric, count, status, home,
                 named, decoded, emitted, broken>>

(* A resource, with a context of its own. *)
RequestResource ==
  /\ Field("request")
  /\ ctx' = [label |-> NoLabel, scope |-> 0]
  /\ labels' = Append(labels, NoLabel)
  /\ pc' = "resource"
  /\ UNCHANGED <<signal, pending, scope, direct, metric, count, status, home, named,
                 decoded, emitted, broken>>

RequestEnd ==
  /\ pc = "request"
  /\ pc' = "done" /\ status' = 200
  /\ UNCHANGED <<signal, ctx, pending, scope, direct, metric, count, fields, history>>

(* Mutant of Refuse: a malformed payload is always an error. *)
RefuseAlways == 400

(* "return count ? count : -1", and on_request's answer to that. *)
Refuse == IF count > 0 THEN 200 ELSE 400

(***************************************************************************)
(* A length that does not fit, a varint without end, a fixed field that is *)
(* cut: every function returns -1 up to the request.  (Within a Resource,  *)
(* an InstrumentationScope or a Status the loop only breaks, as at an End.) *)
(***************************************************************************)
Broken ==
  /\ \E l \in Loops \ {"pending"} : Field(l)
  /\ broken' = 1
  /\ pc' = "done" /\ status' = Refuse
  /\ UNCHANGED <<signal, ctx, pending, scope, direct, metric, count, labels, home,
                 named, decoded, emitted>>

-------------------------------------------------------------------------------
(***************************************************************************)
(* decode_resource_spans, decode_resource_metrics.                         *)
(***************************************************************************)

(* A Resource whose attributes give procwatch.label a string value. *)
ResourceLabel(l) ==
  /\ Field("resource")
  /\ ctx' = [ctx EXCEPT !.label = l]
  /\ labels' = [labels EXCEPT ![Len(labels)] = l]
  /\ UNCHANGED <<signal, pc, pending, scope, direct, metric, count, status, home,
                 named, decoded, emitted, broken>>

(* Start to walk scope s. *)
Enter(s) ==
  /\ scope' = s
  /\ named' = 0
  /\ pc' = "scope"

(* Mutant of ResourceScope: the array has one element more. *)
ResourceScopeOneMore ==
  LET s == Len(home) + 1
  IN  /\ Field("resource")
      /\ home' = Append(home, Len(labels))
      /\ \/ /\ Len(pending) <= MaxPending
            /\ pending' = Append(pending, s)
            /\ UNCHANGED <<pc, scope, direct, named>>
         \/ /\ Len(pending) > MaxPending
            /\ Enter(s) /\ direct' = 1
            /\ UNCHANGED pending
      /\ UNCHANGED <<signal, ctx, metric, count, status, labels, decoded, emitted, broken>>

(* A scope is buffered "so ordering cannot cost us the service name"; with *)
(* the buffer full it is walked at once.                                   *)
ResourceScope ==
  LET s == Len(home) + 1
  IN  /\ Field("resource")
      /\ home' = Append(home, Len(labels))
      /\ \/ /\ Len(pending) < MaxPending
            /\ pending' = Append(pending, s)
            /\ UNCHANGED <<pc, scope, direct, named>>
         \/ /\ Len(pending) >= MaxPending
            /\ Enter(s) /\ direct' = 1
            /\ UNCHANGED pending
      /\ UNCHANGED <<signal, ctx, metric, count, status, labels, decoded, emitted, broken>>

ResourceEnd ==
  /\ pc = "resource"
  /\ pc' = "pending"
  /\ UNCHANGED <<signal, ctx, pending, scope, direct, metric, count, status, fields,
                 history>>

PendingNext ==
  /\ pc = "pending" /\ pending # <<>>
  /\ Enter(Head(pending)) /\ direct' = 0
  /\ pending' = Tail(pending)
  /\ UNCHANGED <<signal, ctx, metric, count, status, fields, labels, home, decoded,
                 emitted, broken>>

(* Mutant of PendingEnd: a resource without a label is left at once. *)
PendingEndUnlabelled ==
  /\ pc = "pending" /\ (pending = <<>> \/ ctx.label = NoLabel)
  /\ pc' = "request"
  /\ pending' = <<>>
  /\ UNCHANGED <<signal, ctx, scope, direct, metric, count, status, fields, history>>

PendingEnd ==
  /\ pc = "pending" /\ pending = <<>>
  /\ pc' = "request"
  /\ UNCHANGED <<signal, ctx, pending, scope, direct, metric, count, status, fields,
                 history>>

-------------------------------------------------------------------------------
(***************************************************************************)
(* decode_scope_spans, decode_scope_metrics.                               *)
(***************************************************************************)
ScopeName ==
  /\ Field("scope")
  /\ ctx' = [ctx EXCEPT !.scope = scope]
  /\ named' = 1
  /\ UNCHANGED <<signal, pc, pending, scope, direct, metric, count, status, labels,
                 home, decoded, emitted, broken>>

(* The sink is given one item, with the context as it is. *)
Emit ==
  /\ emitted' = Append(emitted, [scope |-> scope, label |-> ctx.label,
                                 name |-> ctx.scope, named |-> named, direct |-> direct])
  /\ count' = count + 1

(* decode_span. *)
ScopeSpan ==
  /\ signal = "traces" /\ Field("scope")
  /\ Emit
  /\ UNCHANGED <<signal, pc, ctx, pending, scope, direct, metric, status, labels, home,
                 named, decoded, broken>>

ScopeMetric ==
  /\ signal = "metrics" /\ Field("scope")
  /\ pc' = "metric" /\ metric' = NoMetric
  /\ UNCHANGED <<signal, ctx, pending, scope, direct, count, status, history>>

(* Back to the loop over the resource, or to its buffered scopes. *)
ScopeEnd ==
  /\ pc = "scope"
  /\ pc' = IF direct = 1 THEN "resource" ELSE "pending"
  /\ decoded' = Append(decoded, scope)
  /\ UNCHANGED <<signal, ctx, pending, scope, direct, metric, count, status, fields,
                 labels, home, named, emitted, broken>>

-------------------------------------------------------------------------------
(***************************************************************************)
(* decode_metric: containers wait for the name; "unnamed metric, nothing   *)
(* useful to store".                                                       *)
(***************************************************************************)

(* A name, which may be empty. *)
MetricName ==
  /\ Field("metric")
  /\ \E n \in {0, 1} : metric' = [metric EXCEPT !.named = n]
  /\ UNCHANGED <<signal, pc, ctx, pending, scope, direct, count, status, history>>

(* One more than the array holds is dropped. *)
MetricContainer ==
  /\ Field("metric")
  /\ metric' = IF metric.containers < MaxContainers
               THEN [metric EXCEPT !.containers = @ + 1] ELSE metric
  /\ UNCHANGED <<signal, pc, ctx, pending, scope, direct, count, status, history>>

MetricEnd ==
  /\ pc = "metric"
  /\ pc' = IF metric.named = 1 /\ metric.containers > 0 THEN "points" ELSE "scope"
  /\ UNCHANGED <<signal, ctx, pending, scope, direct, metric, count, status, fields,
                 history>>

(* decode_number_point, decode_histogram_point. *)
Point ==
  /\ Field("points")
  /\ Emit
  /\ UNCHANGED <<signal, pc, ctx, pending, scope, direct, metric, status, labels, home,
                 named, decoded, broken>>

(* The end of a container. *)
PointsEnd ==
  /\ pc = "points"
  /\ metric' = [metric EXCEPT !.containers = @ - 1]
  /\ pc' = IF metric.containers = 1 THEN "scope" ELSE "points"
  /\ UNCHANGED <<signal, ctx, pending, scope, direct, count, status, fields, history>>

Next ==
  \/ RequestResource \/ RequestEnd \/ Broken
  \/ \E l \in Labels : ResourceLabel(l)
  \/ ResourceScope \/ ResourceEnd \/ PendingNext \/ PendingEnd
  \/ ScopeName \/ ScopeSpan \/ ScopeMetric \/ ScopeEnd
  \/ MetricName \/ MetricContainer \/ MetricEnd \/ Point \/ PointsEnd

Spec == Init /\ [][Next]_vars

-------------------------------------------------------------------------------
(***************************************************************************)
(* A request answered 400 has left nothing behind, so an exporter may send *)
(* it again; one that was cut after something was stored is answered 200   *)
(* ("count ? count : -1", otlp_trace.c line 302, otlp_metric.c line 407).  *)
(***************************************************************************)
RefusedLeavesNothing == status = 400 => emitted = <<>>

(***************************************************************************)
(* An item goes to the label its own resource ends up with, wherever in    *)
(* the resource that stands ("so ordering cannot cost us the service       *)
(* name", otlp_trace.c line 241), unless the buffer was full; and never    *)
(* under the scope name of another resource, nor under that of another     *)
(* scope once its own scope has given one.                                 *)
(***************************************************************************)
OwnContext ==
  \A i \in DOMAIN emitted :
    LET e == emitted[i]
    IN  /\ e.direct = 0 => e.label = labels[home[e.scope]]
        /\ e.named = 1 => e.name = e.scope
        /\ e.name # 0 => home[e.name] = home[e.scope]

(***************************************************************************)
(* OwnContext with what makes it inductive: the context belongs to the     *)
(* last resource, so do the scopes that wait and the one that is walked,   *)
(* and nothing is emitted from a buffered scope while a label may change.  *)
(***************************************************************************)
Walking == pc \in {"scope", "metric", "points"}

OfLast(s) == s \in 1..Len(home) /\ home[s] = Len(labels)

ContextInv ==
  /\ \A s \in 1..Len(home) : home[s] \in 1..Len(labels)
  /\ \A i \in 1..Len(emitted) :
       LET e == emitted[i]
       IN  /\ e.scope \in 1..Len(home)
           /\ e.name # 0 => e.name \in 1..Len(home)
           /\ (pc = "resource" \/ (Walking /\ direct = 1)) /\ e.direct = 0
                => home[e.scope] # Len(labels)
  /\ pc \notin {"request", "done"} =>
       /\ labels # <<>> /\ ctx.label = labels[Len(labels)]
       /\ ctx.scope # 0 => OfLast(ctx.scope)
       /\ \A i \in 1..Len(pending) : OfLast(pending[i])
  /\ pc = "request" => pending = <<>>
  /\ Walking => OfLast(scope) /\ (named = 1 => ctx.scope = scope)
  /\ OwnContext

(***************************************************************************)
(* What a malformed payload may cost: every scope of the resources before  *)
(* the one at fault has been walked, once; without a broken field, every   *)
(* scope ("A truncated or partially corrupt payload still yields the spans *)
(* decoded before the bad field", otlp.h line 37; the scopes buffered      *)
(* for the resource at fault are not among them).                          *)
(***************************************************************************)
EarlierScopesKept ==
  /\ IsInjective(decoded)
  /\ status # 0 =>
       \A s \in DOMAIN home :
         home[s] < Len(labels) \/ broken = 0 => s \in ToSet(decoded)
===============================================================================
