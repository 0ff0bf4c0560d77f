------------------------------ MODULE MCInject ------------------------------
(***************************************************************************)
(* Two processes, the second with the longer pid, and two execs or edits:  *)
(* the library meets an environment it has edited before, under the same   *)
(* and under another pid.                                                  *)
(***************************************************************************)
EXTENDS Inject, TLC, FiniteSets

CONSTANT GivenSizes  \* how many attributes a container is given

AppList(n) == [j \in 1..n |-> [key |-> "app", val |-> "app"]]

(* With and without a valid label. *)
Containers ==
  {Set(Set(Set([k \in {"JAVA_TOOL_OPTIONS"} |-> <<"app">>],
       "LD_PRELOAD", "inject"), "PROCWATCH_LABEL", l), "OTEL_RESOURCE_ATTRIBUTES", AppList(n))
     : l \in Labels \cup {""}, n \in GivenSizes}

Drop(ks) == [drop |-> ks, set |-> [k \in {} |-> ""]]
Put(k, v) == [drop |-> {}, set |-> [x \in {k} |-> v]]

(* As it is; without what the library needs; from scratch; one variable    *)
(* emptied or set; an attribute more, or one that looks like the label.    *)
Rebuilds ==
  {Drop({}), Drop({"PROCWATCH_LABEL", "LD_PRELOAD"}), Drop(Keys)}
  \cup {Put("PROCWATCH_LABEL", l) : l \in Labels \cup {""}}
  \cup {Put("LD_PRELOAD", v) : v \in {"", "other"}}
  \cup {Put("PROCWATCH_INJECT_DISABLED", "1")}
  \cup {[drop |-> {"OTEL_RESOURCE_ATTRIBUTES"},
         set |-> [x \in {"OTEL_RESOURCE_ATTRIBUTES"} |-> <<>>]]}
  \cup {Put("OTEL_RESOURCE_ATTRIBUTES", <<[key |-> a, val |-> "app"]>>)
          : a \in {"app", "xprocwatch.label", "service.instance.id"}}

(* p1 < p2 in digits. *)
Digits == [p \in Procs |-> IF p = First THEN 1 ELSE 2]

Symmetry == Permutations(Labels)
===============================================================================
