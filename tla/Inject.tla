------------------------------- MODULE Inject -------------------------------
(***************************************************************************)
(* The preloaded library libprocwatch_inject.so (src/src/inject): what it  *)
(* does to the environment of the processes of a container while they fork *)
(* and exec one another.                                                   *)
(*                                                                         *)
(* The constructor (pw_init) runs in every image that loads the library    *)
(* and edits the environment, which the next image inherits, so its edits  *)
(* meet their own results.  The interposed execve, execvpe and execveat    *)
(* put back what a program left out of the environment it passes on.  The  *)
(* metric thread starts in __libc_start_main, after the constructors.      *)
(*                                                                         *)
(* An environment is a function on the variables that are in it.  A list-  *)
(* valued variable is the sequence of its entries.  Every entry has a      *)
(* width (an attribute that holds a pid that of the pid, others 1), and    *)
(* Room is what the 8192 bytes of the editing buffers hold.  A pid key is  *)
(* the pid; the start time that is part of it is left out, as are the      *)
(* variables that only get a default (pw_env_set_default).                 *)
(***************************************************************************)
EXTENDS Naturals, Sequences, SequencesExt

CONSTANTS
  Procs,
  First,     \* the process the container starts with
  Labels,    \* valid labels
  Given,     \* environments a container may be started with
  Edits,     \* what programs do to an environment (see Edited)
  Width,     \* digits of a pid
  Room,      \* sizeof buf (inject.c), PW_ENV_MAX (envmod.c)
  MaxExecs   \* bound: execs, and edits a program makes in its own environment

VARIABLES
  env,      \* environ of each process
  phase,    \* "none"; "ctor" and "start" while an image is loaded; "main"
  image,
  loaded,   \* the library is part of the image
  armed,    \* g_armed
  thread,   \* the metric thread runs
  execs,    \* bound: execs and edits so far
  roomy,    \* history: what the constructor wanted to write fitted
  kept,     \* history: the library was left to do its work on the way here
  relabelled \* history: PROCWATCH_LABEL changed on the way here

vars == <<env, phase, image, loaded, armed, thread, execs, roomy, kept, relabelled>>

AgentKeys == {"JAVA_TOOL_OPTIONS", "PYTHONPATH"}
ListKeys == AgentKeys \cup {"OTEL_RESOURCE_ATTRIBUTES"}

(* What the constructor looks for. *)
Needed == {"PROCWATCH_LABEL", "PROCWATCH_INJECT_DISABLED", "LD_PRELOAD"}
Keys == Needed \cup ListKeys

(* java and python by name, anything else, a static binary, a setuid one. *)
Images == {"java", "python", "other", "static", "setuid"}

(* The keys that hold a pid.  A program may set the second one itself. *)
IdKeys == {"procwatch.pid_key", "service.instance.id"}

(* Attributes of programs; the text of "xprocwatch.label" holds the one    *)
(* that pw_attach_label_to_otel looks for.                                 *)
AppAttr == [key : {"app", "service.instance.id", "xprocwatch.label"}, val : {"app"}]
Attr == AppAttr \cup [key : {"procwatch.label"}, val : Labels] \cup [key : IdKeys, val : Procs]

(* getenv.  Only env_has_key tells a variable that is empty from one that  *)
(* is not there.                                                           *)
Value(e, k) == IF k \in DOMAIN e THEN e[k] ELSE ""
List(e, k) == IF k \in DOMAIN e THEN e[k] ELSE <<>>
Attrs(e) == List(e, "OTEL_RESOURCE_ATTRIBUTES")

(* setenv. *)
Set(e, k, v) == [x \in DOMAIN e \cup {k} |-> IF x = k THEN v ELSE e[x]]

LabelValues == Labels \cup {"", "not a label"}
PreloadValues == {"", "inject", "other"}

EnvOK(e) ==
  /\ DOMAIN e \subseteq Keys
  /\ Value(e, "PROCWATCH_LABEL") \in LabelValues
  /\ Value(e, "PROCWATCH_INJECT_DISABLED") \in {"", "1"}
  /\ Value(e, "LD_PRELOAD") \in PreloadValues
  /\ Attrs(e) \in Seq(Attr)
  /\ \A k \in AgentKeys : List(e, k) \in Seq({"app", "agent"})

(* What a container is given holds nothing of the library's. *)
GivenOK(e) ==
  /\ EnvOK(e)
  /\ Value(e, "LD_PRELOAD") = "inject"
  /\ Attrs(e) \in Seq(AppAttr)
  /\ \A k \in AgentKeys : List(e, k) \in Seq({"app"})

(* An edit of an environment drops variables and sets others; to a list    *)
(* that was not dropped, set appends.                                      *)
EditOK(d) ==
  /\ d.drop \subseteq Keys /\ DOMAIN d.set \subseteq Keys
  /\ Value(d.set, "PROCWATCH_LABEL") \in LabelValues
  /\ Value(d.set, "PROCWATCH_INJECT_DISABLED") \in {"", "1"}
  /\ Value(d.set, "LD_PRELOAD") \in PreloadValues
  /\ Attrs(d.set) \in Seq(AppAttr)
  /\ \A k \in AgentKeys : List(d.set, k) \in Seq({"app"})

ASSUME InjectAssumption ==
  /\ First \in Procs
  /\ Labels \cap {"", "not a label"} = {}
  /\ \A e \in Given : GivenOK(e)
  /\ \A d \in Edits : EditOK(d)
  /\ Width \in [Procs -> Nat \ {0}] /\ Room \in Nat \ {0} /\ MaxExecs \in Nat

TypeOK ==
  /\ DOMAIN env = Procs
  /\ \A p \in Procs : EnvOK(env[p])
  /\ phase \in [Procs -> {"none", "ctor", "start", "main"}]
  /\ image \in [Procs -> Images]
  /\ execs \in 0..MaxExecs
  /\ \A f \in {loaded, armed, thread, roomy, kept, relabelled} : f \in [Procs -> BOOLEAN]

(* What the constructor must find for the process to be watched. *)
Watched(e) ==
  /\ Value(e, "PROCWATCH_LABEL") \in Labels
  /\ Value(e, "PROCWATCH_INJECT_DISABLED") = ""
  /\ Value(e, "LD_PRELOAD") = "inject"

Loads(im, e) == im # "static" /\ Value(e, "LD_PRELOAD") = "inject"

Init ==
  /\ \E e \in Given, im \in {"java", "python", "other"} :
       /\ env = [p \in Procs |-> e]
       /\ image = [p \in Procs |-> im]
       /\ kept = [p \in Procs |-> Watched(e)]
  /\ phase = [p \in Procs |-> IF p = First THEN "ctor" ELSE "none"]
  /\ loaded = [p \in Procs |-> TRUE]
  /\ armed = [p \in Procs |-> FALSE]
  /\ thread = [p \in Procs |-> FALSE]
  /\ execs = 0
  /\ roomy = [p \in Procs |-> FALSE]
  /\ relabelled = [p \in Procs |-> FALSE]

-------------------------------------------------------------------------------
(***************************************************************************)
(* The edits of OTEL_RESOURCE_ATTRIBUTES.                                  *)
(***************************************************************************)
HasKey(attrs, k) == \E j \in DOMAIN attrs : attrs[j].key = k

(* strlen of the list. *)
Size(attrs) ==
  FoldSeq(LAMBDA a, n : n + (IF a.val \in Procs THEN Width[a.val] ELSE 1), 0, attrs)

(* A longer value is not written; the first one is, whatever its length. *)
Write(attrs, new) == IF attrs = <<>> \/ Size(new) <= Room THEN new ELSE attrs

LabelAttr(l) == [key |-> "procwatch.label", val |-> l]

(* What the two edits want to write. *)
WithLabel(attrs, l) ==
  IF HasKey(attrs, "procwatch.label") \/ HasKey(attrs, "xprocwatch.label") THEN attrs
  ELSE Append(attrs, LabelAttr(l))

WithAttr(attrs, k, v) ==
  IF HasKey(attrs, k)
  THEN [j \in DOMAIN attrs |-> IF attrs[j].key = k THEN [key |-> k, val |-> v] ELSE attrs[j]]
  ELSE Append(attrs, [key |-> k, val |-> v])

(* Mutant of AttachLabel: an attribute that is there is not looked for. *)
AttachLabelAgain(attrs, l) == Write(attrs, Append(attrs, LabelAttr(l)))

(* pw_attach_label_to_otel. *)
AttachLabel(attrs, l) == Write(attrs, WithLabel(attrs, l))

(* Mutant of SetResourceAttr: an attribute that is there is left alone. *)
SetResourceAttrOnce(attrs, k, v) ==
  IF HasKey(attrs, k) THEN attrs ELSE Write(attrs, WithAttr(attrs, k, v))

(* Mutant of SetResourceAttr: key and value change places in the snprintf. *)
SetResourceAttrSwapped(attrs, k, v) == Write(attrs, WithAttr(attrs, v, k))

(* set_resource_attr: every occurrence is replaced, else one is added; what *)
(* does not fit stays as it was.                                           *)
SetResourceAttr(attrs, k, v) == Write(attrs, WithAttr(attrs, k, v))

(* pw_apply_common. *)
ApplyCommon(attrs, l, p) ==
  SetResourceAttr(SetResourceAttr(AttachLabel(attrs, l), "procwatch.pid_key", p),
                  "service.instance.id", p)

(* Each of its three edits fits. *)
Roomy(attrs, l, p) ==
  LET first == WithLabel(attrs, l)
      second == WithAttr(first, "procwatch.pid_key", p)
  IN  \A new \in {first, second, WithAttr(second, "service.instance.id", p)} :
        Size(new) <= Room

-------------------------------------------------------------------------------
(***************************************************************************)
(* An image is loaded.                                                     *)
(***************************************************************************)

(* Mutant of EnvAdd: the marker is not looked for. *)
EnvAddAgain(l, added) == IF l # <<>> /\ Len(l) >= Room THEN l ELSE added

(* pw_env_append and pw_env_prepend; added is the list with the agent in it. *)
EnvAdd(l, added) ==
  IF Contains(l, "agent") \/ (l # <<>> /\ Len(l) >= Room) THEN l ELSE added

(* pw_apply_java and pw_apply_python, where the agent's file is installed. *)
Apply(e, im) ==
  IF im = "java"
  THEN LET l == List(e, "JAVA_TOOL_OPTIONS")
       IN  Set(e, "JAVA_TOOL_OPTIONS", EnvAdd(l, Append(l, "agent")))
  ELSE LET l == List(e, "PYTHONPATH")
       IN  Set(e, "PYTHONPATH", EnvAdd(l, <<"agent">> \o l))

(* The guards of pw_init, before g_armed is set. *)
Arms(p) ==
  /\ loaded[p]
  /\ Value(env[p], "PROCWATCH_INJECT_DISABLED") = ""
  /\ image[p] # "setuid"
  /\ Value(env[p], "PROCWATCH_LABEL") \in Labels

(* pw_init; the file of the agent may be missing. *)
PwInit(p) ==
  LET l == Value(env[p], "PROCWATCH_LABEL")
      common == Set(env[p], "OTEL_RESOURCE_ATTRIBUTES", ApplyCommon(Attrs(env[p]), l, p))
  IN  /\ phase[p] = "ctor"
      /\ armed' = [armed EXCEPT ![p] = Arms(p)]
      /\ IF Arms(p) /\ image[p] \in {"java", "python"}
         THEN /\ \E e \in {common, Apply(common, image[p])} : env' = [env EXCEPT ![p] = e]
              /\ roomy' = [roomy EXCEPT ![p] = Roomy(Attrs(env[p]), l, p)]
         ELSE UNCHANGED <<env, roomy>>
      /\ phase' = [phase EXCEPT ![p] = "start"]
      /\ UNCHANGED <<image, loaded, thread, execs, kept, relabelled>>

(* __libc_start_main and pw_metrics_thread_start, whose pthread_create may *)
(* fail.                                                                   *)
LibcStartMain(p) ==
  /\ phase[p] = "start"
  /\ \E t \in BOOLEAN :
       /\ t => armed[p] /\ Value(env[p], "PROCWATCH_LABEL") \in Labels
       /\ thread' = [thread EXCEPT ![p] = t]
  /\ phase' = [phase EXCEPT ![p] = "main"]
  /\ UNCHANGED <<env, image, loaded, armed, execs, roomy, kept, relabelled>>

-------------------------------------------------------------------------------
(***************************************************************************)
(* A program forks, edits its environment or runs another program.         *)
(***************************************************************************)

(* Neither constructor nor thread in the new process. *)
Fork(p, q) ==
  /\ phase[p] = "main" /\ phase[q] = "none"
  /\ env' = [env EXCEPT ![q] = env[p]]
  /\ phase' = [phase EXCEPT ![q] = "main"]
  /\ image' = [image EXCEPT ![q] = image[p]]
  /\ loaded' = [loaded EXCEPT ![q] = loaded[p]]
  /\ armed' = [armed EXCEPT ![q] = armed[p]]
  /\ kept' = [kept EXCEPT ![q] = kept[p]]
  /\ relabelled' = [relabelled EXCEPT ![q] = relabelled[p]]
  /\ UNCHANGED <<thread, execs, roomy>>

(* The environment e after the edit d. *)
Edited(e, d) ==
  LET left == DOMAIN e \ d.drop
  IN  [k \in left \cup DOMAIN d.set |->
         CASE k \notin DOMAIN d.set -> e[k]
           [] k \in left \cap DOMAIN d.set \cap ListKeys -> e[k] \o d.set[k]
           [] OTHER -> d.set[k]]

(* setenv, unsetenv, clearenv in a program. *)
SetEnv(p, d) ==
  LET e == Edited(env[p], d)
  IN  /\ phase[p] = "main" /\ execs < MaxExecs
      /\ env' = [env EXCEPT ![p] = e]
      /\ execs' = execs + 1
      /\ kept' = [kept EXCEPT ![p] = @ /\ (d.drop \cup DOMAIN d.set) \cap Needed = {}]
      /\ relabelled' = [relabelled EXCEPT ![p] =
           @ \/ Value(e, "PROCWATCH_LABEL") # Value(env[p], "PROCWATCH_LABEL")]
      /\ UNCHANGED <<phase, image, loaded, armed, thread, roomy>>

(* Mutant of KeepKeys: the label is not among them. *)
KeepKeysButLabel == Keys \ {"PROCWATCH_INJECT_DISABLED", "PROCWATCH_LABEL"}

(* KEEP_KEYS. *)
KeepKeys == Keys \ {"PROCWATCH_INJECT_DISABLED"}

(* merge_env: what envp does not name at all comes from environ e, unless  *)
(* it is empty there.                                                      *)
Merge(envp, e) ==
  LET full == {k \in DOMAIN e : IF k \in ListKeys THEN e[k] # <<>> ELSE e[k] # ""}
  IN  [k \in DOMAIN envp \cup (KeepKeys \cap full) |->
         IF k \in DOMAIN envp THEN envp[k] ELSE e[k]]

(* execve and the like with an envp that the program made by the edit d of *)
(* its own environment: merged, or passed on as it is (no memory for the   *)
(* merge, or a way around the library such as posix_spawn).                *)
Exec(p, im, d, merged) ==
  LET envp == Edited(env[p], d)
      e == IF merged THEN Merge(envp, env[p]) ELSE envp
  IN  /\ phase[p] = "main" /\ execs < MaxExecs
      /\ merged => loaded[p]
      /\ env' = [env EXCEPT ![p] = e]
      /\ image' = [image EXCEPT ![p] = im]
      /\ loaded' = [loaded EXCEPT ![p] = Loads(im, e)]
      /\ armed' = [armed EXCEPT ![p] = FALSE]
      /\ thread' = [thread EXCEPT ![p] = FALSE]
      /\ phase' = [phase EXCEPT ![p] = "ctor"]
      /\ execs' = execs + 1
      /\ roomy' = [roomy EXCEPT ![p] = FALSE]
      /\ kept' = [kept EXCEPT ![p] =
           /\ @ /\ merged /\ im \notin {"static", "setuid"}
           /\ DOMAIN d.set \cap Needed = {}]
      /\ relabelled' = [relabelled EXCEPT ![p] =
           @ \/ Value(e, "PROCWATCH_LABEL") # Value(env[p], "PROCWATCH_LABEL")]

Next ==
  \E p \in Procs :
    \/ PwInit(p)
    \/ LibcStartMain(p)
    \/ \E q \in Procs : Fork(p, q)
    \/ \E d \in Edits : SetEnv(p, d)
    \/ \E im \in Images, d \in Edits, m \in BOOLEAN : Exec(p, im, d, m)

Spec == Init /\ [][Next]_vars

-------------------------------------------------------------------------------
(* The constructor has instrumented p, whose runtime is about to read the  *)
(* environment.                                                            *)
Instrumented(p) ==
  phase[p] = "start" /\ armed[p] /\ image[p] \in {"java", "python"}

(***************************************************************************)
(* "an unguarded append would add -javaagent twice" (envmod.c line 7): no  *)
(* chain of forks and execs, with environments rebuilt, edited and merged  *)
(* on the way, gives a process the agent twice.                            *)
(***************************************************************************)
AgentOnce ==
  \A p \in Procs, k \in AgentKeys :
    LET l == List(env[p], k)
    IN  \A i, j \in DOMAIN l : l[i] = "agent" /\ l[j] = "agent" => i = j

(***************************************************************************)
(* An instrumented image reports its own pid under both keys and no other  *)
(* (inject.c lines 85 to 91), however the attributes came to it, if the    *)
(* lists the constructor wants to write fit its buffers.                   *)
(***************************************************************************)
OwnPidKey ==
  \A p \in Procs, k \in IdKeys : Instrumented(p) /\ roomy[p] =>
    LET attrs == Attrs(env[p])
    IN  /\ HasKey(attrs, k)
        /\ \A j \in DOMAIN attrs : attrs[j].key = k => attrs[j].val = p

(***************************************************************************)
(* The spans and metrics of an instrumented image go to one label, and to  *)
(* the one its process samples go to: the attributes never name two, and   *)
(* they name that of the environment if there was room, nobody changed it  *)
(* on the way here and no attribute of the program looks like it (inject.c *)
(* lines 74 and 80).                                                       *)
(***************************************************************************)
LabelAgrees ==
  \A p \in Procs : Instrumented(p) =>
    LET attrs == Attrs(env[p])
    IN  /\ \A i, j \in DOMAIN attrs :
             attrs[i].key = "procwatch.label" /\ attrs[j].key = "procwatch.label" => i = j
        /\ roomy[p] /\ ~relabelled[p] /\ ~HasKey(attrs, "xprocwatch.label") =>
             \E i \in DOMAIN attrs : attrs[i] = LabelAttr(Value(env[p], "PROCWATCH_LABEL"))

(***************************************************************************)
(* "Keep PROCWATCH_LABEL / LD_PRELOAD / related vars across exec when a    *)
(* parent rebuilds envp from scratch" (exec_wrap.c line 1): while every    *)
(* exec is merged and finds a dynamic, unprivileged image, and programs    *)
(* leave the variables the constructor looks for alone or out of envp (do  *)
(* not set or empty them), each process has a valid label and is armed.    *)
(***************************************************************************)
LabelSurvives ==
  \A p \in Procs : kept[p] /\ phase[p] = "main" =>
    Value(env[p], "PROCWATCH_LABEL") \in Labels /\ loaded[p] /\ armed[p]
===============================================================================
