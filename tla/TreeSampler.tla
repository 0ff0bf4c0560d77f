----------------------------- MODULE TreeSampler -----------------------------
(***************************************************************************)
(* One sampling round over the process tree below Root, as procwatch-wrap  *)
(* (src/src/wrap/wrap.c, snapshot_tree and push_tree) and procwatch        *)
(* (src/src/main.c) make it from /proc, while the processes fork, work,    *)
(* exit and their pids are used again.                                     *)
(*                                                                         *)
(* A round reads /proc/<pid>/stat of one pid at a time, and then           *)
(* /proc/<pid>/task/<tid>/children of one task of it at a time, one line   *)
(* of at most 4095 bytes.  CPU times are in ticks; prev[], one entry per   *)
(* pid ever seen, is never purged.                                         *)
(***************************************************************************)
EXTENDS Integers, Sequences, FiniteSets, SequencesExt

CONSTANTS
  Pids,
  Root,      \* the pid the tree hangs from
  Outside,   \* parent of everything whose parent is not in Pids
  Tasks,     \* the threads of a process
  Leader,    \* its first one
  KidsMax,   \* pids that a line of children has room for (4095 bytes)
  MaxTicks   \* bound, of a pid: CPU time of each of the processes that have it
             \* one after another

ASSUME TreeAssumption ==
  /\ IsFiniteSet(Pids) /\ Root \in Pids /\ Outside \notin Pids
  /\ Leader \in Tasks /\ KidsMax \in Nat \ {0}
  /\ MaxTicks \in [Pids -> Seq(Nat)]

VARIABLES
  st,       \* of a pid: "free", "run" or "zombie"
  parent,   \* parent of the process that has the pid
  task,     \* the thread of the parent that it is a child of
  used,     \* CPU time of each process that had the pid, the last one now
  pc,       \* where the sampling thread is
  queue,    \* pids found so far
  at,       \* q_head + 1: the pid that is visited next
  unread,   \* threads of that pid whose children are still to be read
  nodes,    \* what was read of those that could be read
  i,        \* the node that is accounted next
  known,    \* pids in prev[]
  prev,     \* their proc_time
  charged,  \* history: CPU time reported for each process
  stable    \* history: pids below Root since the round began, through the
            \* same threads, that no line was too short for

table == <<st, parent, task, used>>
walk == <<queue, at, unread, nodes>>
account == <<i, known, prev, charged>>

Node == [pid : Pids, life : Nat, time : Nat]

TreeTypeOK ==
  /\ st \in [Pids -> {"free", "run", "zombie"}]
  /\ parent \in [Pids -> Pids \cup {Outside}] /\ task \in [Pids -> Tasks]
  /\ used \in [Pids -> Seq(Nat)]
  /\ queue \in Seq(Pids) /\ at \in Nat \ {0} /\ unread \subseteq Tasks
  /\ nodes \in Seq(Node)
  /\ i \in Nat \ {0}
  /\ known \subseteq Pids
  /\ prev \in [Pids -> Nat]
  /\ charged \in [Pids -> Seq(Nat)]
  /\ stable \subseteq Pids

TreeInit ==
  /\ st = [p \in Pids |-> IF p = Root THEN "run" ELSE "free"]
  /\ parent = [p \in Pids |-> Outside] /\ task = [p \in Pids |-> Leader]
  /\ used = [p \in Pids |-> IF p = Root THEN <<0>> ELSE <<>>]
  /\ queue = <<>> /\ at = 1 /\ unread = {} /\ nodes = <<>> /\ i = 1
  /\ known = {} /\ prev = [p \in Pids |-> 0]
  /\ charged = used
  /\ stable = {}

Life(p) == Len(used[p])

-------------------------------------------------------------------------------
(***************************************************************************)
(* The processes.                                                          *)
(***************************************************************************)
Work(p) ==
  /\ st[p] = "run" /\ used[p][Life(p)] < MaxTicks[p][Life(p)]
  /\ used' = [used EXCEPT ![p][Life(p)] = @ + 1]
  /\ UNCHANGED <<st, parent, task, pc, walk, account, stable>>

(* The thread t of q, or a process elsewhere, forks; the new process gets  *)
(* the free pid p.                                                         *)
Fork(q, t, p) ==
  /\ q \in {Outside} \cup {r \in Pids : st[r] = "run"}
  /\ q = Outside => t = Leader
  /\ st[p] = "free" /\ Life(p) < Len(MaxTicks[p])
  /\ st' = [st EXCEPT ![p] = "run"]
  /\ parent' = [parent EXCEPT ![p] = q]
  /\ task' = [task EXCEPT ![p] = t]
  /\ used' = [used EXCEPT ![p] = Append(@, 0)]
  /\ charged' = [charged EXCEPT ![p] = Append(@, 0)]
  /\ UNCHANGED <<pc, walk, i, known, prev, stable>>

(* Of the pids in S, those that hang from r through others in S. *)
Hanging(r, S, par) ==
  UNION {T \in SUBSET S : \A p \in T : p = r \/ par[p] \in T}

Rooted(S, par) == Hanging(Root, S, par)

ChildrenOf(q, t) == {p \in Pids : parent[p] = q /\ task[p] = t}

(* A thread t of q ends, and another one gets its children. *)
ThreadEnds(q, t, u) ==
  /\ st[q] = "run" /\ t # u /\ ChildrenOf(q, t) # {}
  /\ task' = [p \in Pids |-> IF p \in ChildrenOf(q, t) THEN u ELSE task[p]]
  /\ stable' = Rooted(stable \ ChildrenOf(q, t), parent)
  /\ UNCHANGED <<st, parent, used, pc, walk, account>>

(* The children of a process that exits are given to a process elsewhere,  *)
(* or to one above it that asked for them (a subreaper).                   *)
Exit(p) ==
  LET kids == {q \in Pids : parent[q] = p}
      above == {r \in Pids : r # p /\ st[r] = "run" /\ p \in Hanging(r, Pids, parent)}
  IN  /\ st[p] = "run"
      /\ st' = [st EXCEPT ![p] = "zombie"]
      /\ \E r \in {Outside} \cup above, t \in Tasks :
           /\ r = Outside => t = Leader
           /\ parent' = [q \in Pids |-> IF q \in kids THEN r ELSE parent[q]]
           /\ task' = [q \in Pids |-> IF q \in kids THEN t ELSE task[q]]
      /\ stable' = Rooted(stable \ ({p} \cup kids), parent')
      /\ UNCHANGED <<used, pc, walk, account>>

(* Its parent waits for it, and the pid is free. *)
Reap(p) ==
  /\ st[p] = "zombie"
  /\ st' = [st EXCEPT ![p] = "free"]
  /\ parent' = [parent EXCEPT ![p] = Outside]
  /\ task' = [task EXCEPT ![p] = Leader]

Processes ==
  \/ \E p \in Pids : Work(p)
  \/ \E q \in Pids \cup {Outside}, t \in Tasks, p \in Pids \ {Root} : Fork(q, t, p)
  \/ \E q \in Pids, t, u \in Tasks : ThreadEnds(q, t, u)
  \/ \E p \in Pids \ {Root} : Reap(p) /\ UNCHANGED <<used, pc, walk, account, stable>>

-------------------------------------------------------------------------------
(***************************************************************************)
(* snapshot_tree.                                                          *)
(***************************************************************************)
WalkBegin ==
  /\ queue' = <<Root>> /\ at' = 1 /\ unread' = {} /\ nodes' = <<>>
  /\ stable' = Rooted({p \in Pids : st[p] = "run"}, parent)
  /\ pc' = "stat"
  /\ UNCHANGED <<table, account>>

(* read_proc_stat fails: the process is gone. *)
StatGone ==
  /\ pc = "stat" /\ at <= Len(queue)
  /\ st[queue[at]] = "free"
  /\ at' = at + 1
  /\ UNCHANGED <<table, pc, queue, unread, nodes, account, stable>>

Stat ==
  LET p == queue[at]
  IN  /\ pc = "stat" /\ at <= Len(queue)
      /\ st[p] # "free"
      /\ nodes' = Append(nodes, [pid |-> p, life |-> Life(p), time |-> used[p][Life(p)]])
      /\ pc' = "kids" /\ unread' = Tasks
      /\ UNCHANGED <<table, queue, at, account, stable>>

(* Mutant of New: pid_seen looks only at what is still to be visited. *)
NewToQueue(p) == p \notin {queue[k] : k \in at + 1 .. Len(queue)}

(* Not pid_seen. *)
New(p) == p \notin ToSet(queue)

(* What one fgets may find in a list of these children: all of them; or as *)
(* many as fit, and then perhaps the first digits of another, which are    *)
(* some other pid.                                                         *)
Lines(kids) ==
  IF Cardinality(kids) <= KidsMax THEN {kids}
  ELSE {some \cup torn : some \in {S \in SUBSET kids : Cardinality(S) = KidsMax},
                         torn \in {{}} \cup {{p} : p \in Pids}}

(* Mutant of Kids: only /proc/<pid>/task/<pid>/children is read. *)
LeadersKids(t) ==
  LET kids == ChildrenOf(queue[at], Leader)
  IN  /\ pc = "kids" /\ t = Leader
      /\ \E line \in Lines(kids) :
           /\ \E s \in SetToSeqs({p \in line : New(p)}) : queue' = queue \o s
           /\ stable' = Rooted(stable \ (kids \ line), parent)
      /\ unread' = {} /\ at' = at + 1 /\ pc' = "stat"
      /\ UNCHANGED <<table, nodes, account>>

(* read_children_pids, of the process that has the pid by now; what was    *)
(* found under one thread is new, or not looked at again.                  *)
Kids(t) ==
  LET kids == ChildrenOf(queue[at], t)
  IN  /\ pc = "kids" /\ t \in unread
      /\ \E line \in Lines(kids) :
           /\ \E s \in SetToSeqs({p \in line : New(p)}) : queue' = queue \o s
           /\ stable' = Rooted(stable \ (kids \ line), parent)
      /\ unread' = unread \ {t}
      /\ IF unread' = {} THEN at' = at + 1 /\ pc' = "stat" ELSE UNCHANGED <<at, pc>>
      /\ UNCHANGED <<table, nodes, account>>

WalkEnd ==
  /\ pc = "stat" /\ at > Len(queue)
  /\ i' = 1
  /\ pc' = "account"
  /\ UNCHANGED <<table, walk, known, prev, charged, stable>>

-------------------------------------------------------------------------------
(***************************************************************************)
(* The loop of push_tree: delta_proc of a node, by pid.                    *)
(***************************************************************************)

(* unsigned long long, cut down. *)
WordSize == 2^16

(* Mutant of Delta: a counter that went down is not looked for. *)
DeltaUnchecked(n) ==
  IF n.pid \in known THEN (n.time + WordSize - prev[n.pid]) % WordSize ELSE 0

(* Mutant of Delta: the difference is taken as a signed number. *)
DeltaSigned(n) == IF n.pid \in known THEN n.time - prev[n.pid] ELSE 0

Delta(n) == IF n.pid \in known /\ n.time >= prev[n.pid] THEN n.time - prev[n.pid] ELSE 0

Account ==
  LET n == nodes[i]
  IN  /\ pc = "account" /\ i <= Len(nodes)
      /\ charged' = [charged EXCEPT ![n.pid][n.life] = @ + Delta(n)]
      /\ prev' = [prev EXCEPT ![n.pid] = n.time]
      /\ known' = known \cup {n.pid}
      /\ i' = i + 1
      /\ UNCHANGED <<table, walk, stable>>

Walking == StatGone \/ Stat \/ (\E t \in Tasks : Kids(t)) \/ WalkEnd

-------------------------------------------------------------------------------
(***************************************************************************)
(* No process is ever reported to have used more CPU time than it has,     *)
(* also when it has the pid of one that is still in prev[] (wrap.c line    *)
(* 134, main.c line 297).                                                  *)
(***************************************************************************)
NeverOvercharged ==
  \A p \in Pids : \A k \in 1..Life(p) : charged[p][k] <= used[p][k]

(***************************************************************************)
(* A round has at most one sample per pid, also when the pid turns up      *)
(* below two processes of the tree one after the other (pid_seen).         *)
(***************************************************************************)
OncePerRound ==
  \A j, k \in DOMAIN nodes : nodes[j].pid = nodes[k].pid => j = k

(***************************************************************************)
(* A process that stays where it is below Root while the tree is walked,   *)
(* as a child of the same threads up to Root, and that no line of children *)
(* was too short for, is in the round, whatever happens elsewhere in the   *)
(* tree and whatever pids are read wrong (wrap.c lines 57 to 103).         *)
(***************************************************************************)
StableSampled ==
  pc \in {"account", "push"} => stable \subseteq {nodes[j].pid : j \in DOMAIN nodes}
===============================================================================
