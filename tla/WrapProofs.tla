------------------------------ MODULE WrapProofs ------------------------------
(***************************************************************************)
(* Proofs about Wrap and TreeSampler for every number of pids, of          *)
(* processes that have one after another, and of ticks they use.           *)
(***************************************************************************)
EXTENDS Wrap, SeqLemmas

(* Every pid that is in use has a CPU time, and every process an account. *)
LifeInv ==
  \A p \in Pids :
    /\ Len(charged[p]) = Len(used[p])
    /\ st[p] # "free" => Len(used[p]) > 0

-------------------------------------------------------------------------------
(* The tree.  Only a running process has children: an exit gives them away. *)
ParentsRun == \A p \in Pids : parent[p] \in Pids => st[parent[p]] = "run"

(* No processes are one another's ancestors. *)
NoCycle == \A T \in SUBSET Pids : (\A p \in T : parent[p] \in T) => T = {}

(* Who is stable runs, and hangs from Root through others that are. *)
StableInv == \A p \in stable : st[p] = "run" /\ (p = Root \/ parent[p] \in stable)

-------------------------------------------------------------------------------
(* The walk.  Positions of the queue whose pid was looked at. *)
Visited == IF pc = "kids" THEN 1..at ELSE 1..at - 1

(***************************************************************************)
(* Why OncePerRound is inductive: the queue never has a pid twice, and     *)
(* what was read was read of the visited part.                             *)
(***************************************************************************)
WalkInv ==
  /\ pc \in {"start", "stat", "kids", "loop"} => i = 1
  /\ OncePerRound
  /\ pc \in {"stat", "kids"} =>
       /\ IsInjective(queue)
       /\ Visited \subseteq DOMAIN queue /\ at >= 1
       /\ \A j \in DOMAIN nodes : \E k \in Visited : nodes[j].pid = queue[k]

(***************************************************************************)
(* Why StableSampled is inductive: a stable process that was visited has   *)
(* been read, and one that was not found yet hangs from a thread whose     *)
(* children were not read yet.                                             *)
(***************************************************************************)
ReachInv ==
  /\ pc \in {"stat", "kids"} =>
       /\ queue # <<>> /\ queue[1] = Root
       /\ \A k \in Visited : queue[k] \in stable => \E j \in DOMAIN nodes : nodes[j].pid = queue[k]
       /\ \A p \in stable : p # Root /\ p \notin ToSet(queue) =>
            /\ \A k \in 1..at - 1 : parent[p] # queue[k]
            /\ pc = "kids" /\ parent[p] = queue[at] => task[p] \in unread
  /\ StableSampled

-------------------------------------------------------------------------------
(* The time c charged to a process, against prev[] and its CPU time. *)
Fits(c, v, t) == c = 0 \/ (c <= v /\ v <= t)

(* The processes that had a pid: CPU times u, charged c, with v in prev[]. *)
TimesOK(u, c, v, seen) ==
  /\ \A k \in 1..Len(u) : c[k] <= u[k]
  /\ ~seen => \A k \in 1..Len(u) : c[k] = 0
  /\ Len(u) > 0 => Fits(c[Len(u)], v, u[Len(u)])

(* A node n of one of them that was read and not accounted yet. *)
NodeFits(n, u, c, v) ==
  /\ n.life \in 1..Len(u)
  /\ n.time <= u[n.life]
  /\ Fits(c[n.life], v, n.time)
  /\ \A k \in n.life + 1..Len(u) : c[k] = 0

PidOK(p) == TimesOK(used[p], charged[p], prev[p], p \in known)
NodeOK(n) == NodeFits(n, used[n.pid], charged[n.pid], prev[n.pid])

(***************************************************************************)
(* Why NeverOvercharged is inductive: what was charged to the process that *)
(* has the pid is nothing, or no more than prev[], which then is one of    *)
(* its own times; the same holds of a node that waits for its turn, whose  *)
(* pid may have passed to a process that was not charged yet.              *)
(***************************************************************************)
ChargeInv ==
  /\ \A p \in Pids : PidOK(p)
  /\ \A j \in DOMAIN nodes : j >= i => NodeOK(nodes[j])

-------------------------------------------------------------------------------
(* The command's status is known once it no longer runs. *)
ExitInv ==
  /\ st[Root] # "run" => status \in Ended
  /\ pc = "exited" => st[Root] = "free" /\ exitCode = ExitStatus(status)

-------------------------------------------------------------------------------
(***************************************************************************)
(* The steps of the wrapper and of its environment, as what they do to the *)
(* processes and to the round.                                             *)
(***************************************************************************)
Begin == pc \in {"start", "loop"} /\ WalkBegin

Charge == Account /\ pc' \in {"account", "push"}

Finish ==
  /\ pc = "account" /\ i > Len(nodes)
  /\ pc' = "loop" /\ queue' = <<>> /\ at' = 1 /\ nodes' = <<>> /\ i' = 1
  /\ unread' = {} /\ stable' = {}
  /\ UNCHANGED <<table, known, prev, charged>>

(* Also of Root, by the wrapper. *)
Reaped(p) ==
  /\ Reap(p)
  /\ UNCHANGED <<used, walk, account, stable>>
  /\ pc' = pc \/ (pc = "wait" /\ pc' = "exited")

Quiet ==
  /\ UNCHANGED <<table, walk, account, stable>>
  /\ \/ pc' = pc
     \/ pc = "start" /\ pc' = "loop"
     \/ pc = "push" /\ pc' = "account"
     \/ pc = "loop" /\ pc' = "wait"

(***************************************************************************)
(* There are no other steps.                                               *)
(***************************************************************************)
LEMMA StepCases ==
  ASSUME TypeOK, [Next]_vars
  PROVE  \/ \E p \in Pids : Work(p) \/ Exit(p) \/ Reaped(p)
         \/ \E q \in Pids \cup {Outside}, t \in Tasks, p \in Pids \ {Root} : Fork(q, t, p)
         \/ \E q \in Pids, t, u \in Tasks : ThreadEnds(q, t, u)
         \/ \E t \in Tasks : Kids(t)
         \/ Begin \/ StatGone \/ Stat \/ WalkEnd \/ Charge \/ Finish \/ Quiet
<1>0. Root \in Pids
  BY TreeAssumption
<1>1. CASE OtherStep
  BY <1>1 DEF OtherStep, Processes, Reaped
<1>2. ASSUME NEW p \in Pids, OtherExits(p) PROVE Exit(p)
  BY <1>2 DEF OtherExits
<1>3. CASE ChildExits
  BY <1>0, <1>3 DEF ChildExits
<1>4. CASE ChildStops
  BY <1>4 DEF ChildStops, Quiet
<1>5. CASE Baseline \/ Round
  BY <1>5 DEF Baseline, Round, Begin
<1>6. CASE NoBaseline
  BY <1>6 DEF NoBaseline, Quiet
<1>7. CASE WalkStep
  BY <1>7 DEF WalkStep, Walking
<1>8. CASE AccountNode
  BY <1>8 DEF AccountNode, Charge
<1>9. CASE RoundEnd
  BY <1>9 DEF RoundEnd, Finish
<1>10. CASE LoopEnds \/ Pushed
  BY <1>10 DEF LoopEnds, Pushed, Quiet
<1>11. CASE Wait
  BY <1>0, <1>11 DEF Wait, Reaped
<1>12. CASE UNCHANGED vars
  BY <1>12 DEF vars, table, walk, account, Quiet
<1> QED
  BY <1>1, <1>2, <1>3, <1>4, <1>5, <1>6, <1>7, <1>8, <1>9, <1>10, <1>11, <1>12
  DEF Next, Environment, Wrapper

(***************************************************************************)
(* Rooted picks among the pids given, and picks with each its parent.      *)
(***************************************************************************)
LEMMA RootedFacts ==
  ASSUME NEW S, NEW par
  PROVE  /\ Rooted(S, par) \subseteq S
         /\ \A p \in Rooted(S, par) : p = Root \/ par[p] \in Rooted(S, par)
BY DEF Rooted, Hanging

(***************************************************************************)
(* What a successful read_proc_stat adds to the round.                     *)
(***************************************************************************)
LEMMA StatFacts ==
  ASSUME TypeOK, LifeInv, Stat
  PROVE  /\ queue[at] \in Pids /\ st[queue[at]] # "free"
         /\ \E n \in Node : /\ nodes' = Append(nodes, n) /\ n.pid = queue[at]
                            /\ n.life = Len(used[queue[at]]) /\ n.life > 0
                            /\ n.time = used[queue[at]][n.life]
<1> DEFINE p == queue[at]
           n == [pid |-> p, life |-> Len(used[p]), time |-> used[p][Len(used[p])]]
<1>t. TreeTypeOK
  BY DEF TypeOK
<1>1. p \in Pids /\ st[p] # "free"
  BY <1>t DEF Stat, TreeTypeOK
<1>2. used[p] \in Seq(Nat) /\ Len(used[p]) \in Nat /\ Len(used[p]) > 0
  BY <1>t, <1>1 DEF LifeInv, TreeTypeOK
<1>3. used[p][Len(used[p])] \in Nat
  BY <1>2
<1>4. n \in Node /\ n.pid = p /\ n.life = Len(used[p]) /\ n.time = used[p][Len(used[p])]
  BY <1>1, <1>2, <1>3 DEF Node
<1>5. nodes' = Append(nodes, n)
  BY DEF Stat, Life
<1> HIDE DEF n
<1> QED BY <1>1, <1>2, <1>4, <1>5

(***************************************************************************)
(* What read_children_pids adds to the queue: what the line of the thread  *)
(* has and the queue has not, once; children the line has not are not held *)
(* for stable any more.                                                    *)
(***************************************************************************)
LEMMA KidsFacts ==
  ASSUME TypeOK, NEW t \in Tasks, Kids(t)
  PROVE  \E s \in Seq(Pids), line \in SUBSET Pids :
           /\ queue' = queue \o s
           /\ ToSet(s) = {p \in line : New(p)}
           /\ IsInjective(s)
           /\ stable' = Rooted(stable \ (ChildrenOf(queue[at], t) \ line), parent)
<1> DEFINE kids == ChildrenOf(queue[at], t)
<1>1. kids \subseteq Pids
  BY DEF ChildrenOf
<1>2. PICK line \in Lines(kids) :
        /\ \E s \in SetToSeqs({p \in line : New(p)}) : queue' = queue \o s
        /\ stable' = Rooted(stable \ (kids \ line), parent)
  BY DEF Kids
<1> HIDE DEF kids
<1>3. line \subseteq Pids
  BY <1>1, <1>2 DEF Lines
<1> DEFINE S == {p \in line : New(p)}
<1>4. IsFiniteSet(S) /\ S \subseteq Pids
  BY <1>3, TreeAssumption, FS_Subset
<1>5. PICK s \in SetToSeqs(S) : queue' = queue \o s
  BY <1>2
<1> HIDE DEF S
<1>6. s \in Seq(S) /\ ToSet(s) = S /\ IsInjective(s)
  BY <1>4, <1>5, SetToSeqsFacts
<1>7. s \in Seq(Pids)
  BY <1>4, <1>6
<1> QED BY <1>2, <1>3, <1>5, <1>6, <1>7 DEF S, kids

(***************************************************************************)
(* Then the next thread is read, or the next pid visited.                  *)
(***************************************************************************)
LEMMA KidsMoves ==
  ASSUME TypeOK, NEW t \in Tasks, Kids(t)
  PROVE  /\ pc = "kids" /\ t \in unread /\ unread' = unread \ {t}
         /\ \/ pc' = "stat" /\ at' = at + 1 /\ unread' = {}
            \/ pc' = "kids" /\ at' = at
         /\ UNCHANGED <<st, parent, task, used, nodes, i, known, prev, charged>>
BY Zenon DEF Kids, table, account

(***************************************************************************)
(* Every step keeps every variable of TreeSampler of its type, and an      *)
(* account for every process.                                              *)
(***************************************************************************)
LEMMA TreeTypeStep ==
  ASSUME TypeOK, LifeInv, [Next]_vars
  PROVE  TreeTypeOK' /\ LifeInv'
<1> USE DEF table, walk, account
<1>t. TreeTypeOK
  BY DEF TypeOK
<1>0. \A p \in Pids : used[p] \in Seq(Nat) /\ charged[p] \in Seq(Nat)
  BY <1>t DEF TreeTypeOK
<1>1. ASSUME NEW p \in Pids, Work(p) PROVE TreeTypeOK' /\ LifeInv'
  <2> DEFINE n == Len(used[p])
             s == [used[p] EXCEPT ![n] = used[p][n] + 1]
  <2>1. n \in 1..Len(used[p]) /\ used[p][n] + 1 \in Nat
    BY <1>0, <1>1 DEF Work, LifeInv
  <2>2. s \in Seq(Nat) /\ Len(s) = Len(used[p])
    BY <1>0, <2>1, Update
  <2>3. used' = [used EXCEPT ![p] = s]
    BY <1>1, <1>t DEF Work, Life, TreeTypeOK
  <2> HIDE DEF s
  <2>4. used' \in [Pids -> Seq(Nat)] /\ \A q \in Pids : Len(used'[q]) = Len(used[q])
    BY <1>t, <2>2, <2>3 DEF TreeTypeOK
  <2>5. TreeTypeOK'
    BY <1>1, <1>t, <2>4 DEF Work, TreeTypeOK
  <2> QED BY <1>1, <2>4, <2>5 DEF Work, LifeInv
<1>2. ASSUME NEW p \in Pids, Exit(p) PROVE TreeTypeOK' /\ LifeInv'
  <2>1. stable' \subseteq Pids
    BY <1>2, <1>t, RootedFacts DEF Exit, TreeTypeOK
  <2>2. /\ st' \in [Pids -> {"free", "run", "zombie"}]
        /\ parent' \in [Pids -> Pids \cup {Outside}] /\ task' \in [Pids -> Tasks]
    <3>1. PICK r \in Pids \cup {Outside}, t \in Tasks :
            /\ parent' = [q \in Pids |-> IF q \in {x \in Pids : parent[x] = p} THEN r ELSE parent[q]]
            /\ task' = [q \in Pids |-> IF q \in {x \in Pids : parent[x] = p} THEN t ELSE task[q]]
      BY <1>2 DEF Exit
    <3>2. st' = [st EXCEPT ![p] = "zombie"]
      BY <1>2 DEF Exit
    <3> QED BY <1>t, <3>1, <3>2 DEF TreeTypeOK
  <2>3. \A q \in Pids : st'[q] # "free" => st[q] # "free"
    BY <1>2, <1>t DEF Exit, TreeTypeOK
  <2> QED BY <1>2, <1>t, <2>1, <2>2, <2>3 DEF Exit, TreeTypeOK, LifeInv
<1>3. ASSUME NEW p \in Pids, Reaped(p) PROVE TreeTypeOK' /\ LifeInv'
  <2>1. /\ st' \in [Pids -> {"free", "run", "zombie"}]
        /\ parent' \in [Pids -> Pids \cup {Outside}] /\ task' \in [Pids -> Tasks]
    BY <1>3, <1>t, TreeAssumption DEF Reaped, Reap, TreeTypeOK
  <2>2. \A q \in Pids : st'[q] # "free" => st[q] # "free"
    BY <1>3, <1>t DEF Reaped, Reap, TreeTypeOK
  <2> QED BY <1>3, <1>t, <2>1, <2>2 DEF Reaped, TreeTypeOK, LifeInv
<1>4. ASSUME NEW q \in Pids \cup {Outside}, NEW t \in Tasks, NEW p \in Pids \ {Root}, Fork(q, t, p)
      PROVE  TreeTypeOK' /\ LifeInv'
  <2>1. /\ Append(used[p], 0) \in Seq(Nat) /\ Len(Append(used[p], 0)) = Len(used[p]) + 1
        /\ Append(charged[p], 0) \in Seq(Nat) /\ Len(Append(charged[p], 0)) = Len(charged[p]) + 1
        /\ Len(used[p]) \in Nat /\ Len(used[p]) + 1 > 0
    BY <1>0
  <2>2. /\ used' = [used EXCEPT ![p] = Append(used[p], 0)]
        /\ charged' = [charged EXCEPT ![p] = Append(charged[p], 0)]
        /\ st' = [st EXCEPT ![p] = "run"] /\ parent' = [parent EXCEPT ![p] = q]
        /\ task' = [task EXCEPT ![p] = t]
    BY <1>4, <1>t DEF Fork, TreeTypeOK
  <2>3. /\ st' \in [Pids -> {"free", "run", "zombie"}] /\ parent' \in [Pids -> Pids \cup {Outside}]
        /\ task' \in [Pids -> Tasks]
        /\ used' \in [Pids -> Seq(Nat)] /\ charged' \in [Pids -> Seq(Nat)]
    BY <1>t, <2>1, <2>2 DEF TreeTypeOK
  <2>4. LifeInv'
    BY <1>t, <2>1, <2>2 DEF LifeInv, TreeTypeOK
  <2> QED BY <1>4, <1>t, <2>3, <2>4 DEF Fork, TreeTypeOK
<1>5. CASE Begin
  <2>1. stable' \subseteq Pids
    BY <1>5, RootedFacts DEF Begin, WalkBegin
  <2>2. queue' \in Seq(Pids) /\ nodes' \in Seq(Node) /\ at' \in Nat \ {0} /\ unread' \subseteq Tasks
    BY <1>5, TreeAssumption DEF Begin, WalkBegin
  <2> QED BY <1>5, <1>t, <2>1, <2>2 DEF Begin, WalkBegin, TreeTypeOK, LifeInv
<1>6. CASE StatGone
  BY <1>6, <1>t DEF StatGone, TreeTypeOK, LifeInv
<1>7. CASE Stat
  <2>1. PICK n \in Node : nodes' = Append(nodes, n)
    BY <1>7, StatFacts
  <2>2. nodes' \in Seq(Node)
    BY <1>t, <2>1 DEF TreeTypeOK
  <2> QED BY <1>7, <1>t, <2>2 DEF Stat, TreeTypeOK, LifeInv
<1>8. ASSUME NEW t \in Tasks, Kids(t) PROVE TreeTypeOK' /\ LifeInv'
  <2>1. PICK s \in Seq(Pids), line \in SUBSET Pids :
          /\ queue' = queue \o s
          /\ stable' = Rooted(stable \ (ChildrenOf(queue[at], t) \ line), parent)
    BY <1>8, KidsFacts
  <2>2. queue' \in Seq(Pids)
    BY <1>t, <2>1 DEF TreeTypeOK
  <2>3. stable' \subseteq Pids
    BY <1>t, <2>1, RootedFacts DEF TreeTypeOK
  <2>4. /\ at' \in Nat \ {0} /\ unread' \subseteq Tasks
        /\ UNCHANGED <<st, parent, task, used, nodes, i, known, prev, charged>>
    <3>1. /\ unread' = unread \ {t} /\ (at' = at + 1 \/ at' = at)
          /\ UNCHANGED <<st, parent, task, used, nodes, i, known, prev, charged>>
      BY <1>8, KidsMoves
    <3> QED BY <1>t, <3>1 DEF TreeTypeOK
  <2> QED BY <1>t, <2>2, <2>3, <2>4 DEF TreeTypeOK, LifeInv
<1>9. CASE WalkEnd
  BY <1>9, <1>t DEF WalkEnd, TreeTypeOK, LifeInv
<1>10. CASE Charge
  <2> DEFINE n == nodes[i]
             s == [charged[n.pid] EXCEPT ![n.life] = charged[n.pid][n.life] + Delta(n)]
  <2>1. n \in Node
    BY <1>10, <1>t DEF Charge, Account, TreeTypeOK
  <2>2. n.pid \in Pids /\ n.life \in Nat /\ n.time \in Nat
    BY <2>1 DEF Node
  <2>3. Delta(n) \in Nat
    BY <1>t, <2>2 DEF Delta, TreeTypeOK
  <2>4. charged' = [charged EXCEPT ![n.pid] = s] /\ prev' = [prev EXCEPT ![n.pid] = n.time]
        /\ known' = known \cup {n.pid} /\ i' = i + 1
    BY <1>10, <1>t, <2>2 DEF Charge, Account, TreeTypeOK
  <2> HIDE DEF n
  <2>5. s \in Seq(Nat) /\ Len(s) = Len(charged[n.pid])
    <3>1. charged[n.pid] \in Seq(Nat)
      BY <1>0, <2>2
    <3>2. CASE n.life \in 1..Len(charged[n.pid])
      <4>1. charged[n.pid][n.life] + Delta(n) \in Nat
        BY <2>3, <3>1, <3>2
      <4> QED BY <3>1, <3>2, <4>1, Update
    <3>3. CASE n.life \notin 1..Len(charged[n.pid])
      <4>1. s = charged[n.pid]
        BY <3>1, <3>3
      <4> QED BY <3>1, <4>1
    <3> QED BY <3>2, <3>3
  <2> HIDE DEF s
  <2>6. /\ charged' \in [Pids -> Seq(Nat)] /\ \A q \in Pids : Len(charged'[q]) = Len(charged[q])
        /\ prev' \in [Pids -> Nat] /\ known' \subseteq Pids /\ i' \in Nat \ {0}
    BY <1>t, <2>2, <2>4, <2>5 DEF TreeTypeOK
  <2> QED BY <1>10, <1>t, <2>6 DEF Charge, Account, TreeTypeOK, LifeInv
<1>11. CASE Finish
  <2>1. <<>> \in Seq(Pids) /\ <<>> \in Seq(Node)
    OBVIOUS
  <2> QED BY <1>11, <1>t, <2>1 DEF Finish, TreeTypeOK, LifeInv
<1>12. CASE Quiet
  BY <1>12, <1>t DEF Quiet, TreeTypeOK, LifeInv
<1>13. ASSUME NEW q \in Pids, NEW t \in Tasks, NEW u \in Tasks, ThreadEnds(q, t, u)
       PROVE  TreeTypeOK' /\ LifeInv'
  <2>1. stable' \subseteq Pids
    BY <1>13, <1>t, RootedFacts DEF ThreadEnds, TreeTypeOK
  <2>2. task' \in [Pids -> Tasks]
    BY <1>13, <1>t DEF ThreadEnds, TreeTypeOK
  <2> QED BY <1>13, <1>t, <2>1, <2>2 DEF ThreadEnds, TreeTypeOK, LifeInv
<1> QED
  BY StepCases, <1>1, <1>2, <1>3, <1>4, <1>5, <1>6, <1>7, <1>8, <1>9, <1>10, <1>11, <1>12, <1>13

(***************************************************************************)
(* The same of the wrapper's own variables.                                *)
(***************************************************************************)
LEMMA TypeStep ==
  ASSUME TypeOK, LifeInv, [Next]_vars
  PROVE  TypeOK' /\ LifeInv'
<1> DEFINE Main == /\ pc \in {"start", "stat", "kids", "account", "push", "loop", "wait", "exited"}
                   /\ dead \in BOOLEAN /\ skipPush \in BOOLEAN
                   /\ status \in Ended \cup {Running}
                   /\ exitCode \in 0..NoCode
<1>0. (TypeOK <=> TreeTypeOK /\ Main) /\ (TypeOK' <=> TreeTypeOK' /\ Main')
  BY DEF TypeOK
<1>1. Main
  BY <1>0
<1>2. Main'
  <2> USE DEF main
  <2>1. CASE OtherStep
    <3>1. pc' = pc
      <4>1. ASSUME NEW p \in Pids, Work(p) PROVE pc' = pc
        BY <4>1 DEF Work
      <4>2. ASSUME NEW q \in Pids \cup {Outside}, NEW t \in Tasks, NEW p \in Pids, Fork(q, t, p)
            PROVE  pc' = pc
        BY <4>2 DEF Fork
      <4>3. ASSUME NEW q \in Pids, NEW t \in Tasks, NEW u \in Tasks, ThreadEnds(q, t, u)
            PROVE  pc' = pc
        BY <4>3 DEF ThreadEnds
      <4> QED BY <2>1, <4>1, <4>2, <4>3 DEF OtherStep, Processes
    <3> QED BY <1>1, <2>1, <3>1 DEF OtherStep
  <2>2. ASSUME NEW p \in Pids, OtherExits(p) PROVE Main'
    BY <1>1, <2>2 DEF OtherExits, Exit
  <2>3. CASE ChildExits
    BY <1>1, <2>3 DEF ChildExits, Exit
  <2>4. CASE ChildStops
    BY <1>1, <2>4 DEF ChildStops
  <2>5. CASE Baseline \/ Round \/ NoBaseline
    BY <1>1, <2>5 DEF Baseline, Round, NoBaseline, WalkBegin
  <2>6. CASE WalkStep
    BY <1>1, <2>6 DEF WalkStep, Walking, StatGone, Stat, Kids, WalkEnd
  <2>7. CASE AccountNode
    BY <1>1, <2>7 DEF AccountNode
  <2>8. CASE RoundEnd \/ LoopEnds \/ Pushed
    BY <1>1, <2>8 DEF RoundEnd, LoopEnds, Pushed
  <2>9. CASE Wait
    <3>1. ExitStatus(status) \in 0..NoCode
      BY <1>1 DEF ExitStatus, Ended, Running, NoCode
    <3> QED BY <1>1, <2>9, <3>1 DEF Wait
  <2>10. CASE UNCHANGED vars
    BY <1>1, <2>10 DEF vars
  <2> QED
    BY <2>1, <2>2, <2>3, <2>4, <2>5, <2>6, <2>7, <2>8, <2>9, <2>10
    DEF Next, Environment, Wrapper
<1> HIDE DEF Main
<1> QED BY <1>0, <1>2, TreeTypeStep

(***************************************************************************)
(* Types and accounts, at every step.                                      *)
(***************************************************************************)
LEMMA BaseCorrect == Spec => [](TypeOK /\ LifeInv)
<1>1. Init => TypeOK /\ LifeInv
  <2> SUFFICES ASSUME Init PROVE TypeOK /\ LifeInv
    OBVIOUS
  <2>1. TreeTypeOK
    <3>1. <<0>> \in Seq(Nat) /\ <<>> \in Seq(Nat) /\ <<>> \in Seq(Pids) /\ <<>> \in Seq(Node)
      OBVIOUS
    <3> QED BY <3>1, TreeAssumption DEF Init, TreeInit, TreeTypeOK
  <2>2. LifeInv
    BY TreeAssumption DEF Init, TreeInit, LifeInv
  <2>3. TypeOK
    <3>1. NoCode \in 0..NoCode
      BY DEF NoCode
    <3> QED BY <2>1, <3>1 DEF Init, TypeOK
  <2> QED BY <2>2, <2>3
<1>2. (TypeOK /\ LifeInv) /\ [Next]_vars => (TypeOK /\ LifeInv)'
  BY TypeStep
<1> QED BY <1>1, <1>2, PTL DEF Spec

(***************************************************************************)
(* Type correctness of the wrapper, its processes and its rounds.          *)
(***************************************************************************)
THEOREM TypeCorrect == Spec => []TypeOK
BY BaseCorrect, PTL

-------------------------------------------------------------------------------
(* The process tree, and who is stable in it. *)
TreeInv == ParentsRun /\ NoCycle /\ StableInv

(***************************************************************************)
(* TreeInv is inductive.                                                   *)
(***************************************************************************)
LEMMA TreeStep ==
  ASSUME TypeOK, TreeInv, [Next]_vars
  PROVE  TreeInv'
<1> USE DEF table, walk, account
<1>t. /\ st \in [Pids -> {"free", "run", "zombie"}] /\ stable \subseteq Pids
      /\ parent \in [Pids -> Pids \cup {Outside}] /\ Outside \notin Pids
  BY TreeAssumption DEF TypeOK, TreeTypeOK
<1>u. ASSUME UNCHANGED <<st, parent>> PROVE ParentsRun' /\ NoCycle'
  BY <1>u DEF TreeInv, ParentsRun, NoCycle
<1>v. ASSUME UNCHANGED <<st, parent, stable>> PROVE TreeInv'
  BY <1>u, <1>v DEF TreeInv, StableInv
<1>1. ASSUME NEW p \in Pids, Work(p) PROVE TreeInv'
  BY <1>1, <1>v DEF Work
<1>2. ASSUME NEW p \in Pids, Exit(p) PROVE TreeInv'
  <2> DEFINE kids == {q \in Pids : parent[q] = p}
  <2>1. PICK r \in Pids \cup {Outside} :
          /\ r = Outside \/ (r # p /\ st[r] = "run" /\ p \in Hanging(r, Pids, parent))
          /\ parent' = [q \in Pids |-> IF q \in kids THEN r ELSE parent[q]]
    BY <1>2 DEF Exit
  <2>2. /\ st[p] = "run" /\ st' = [st EXCEPT ![p] = "zombie"]
        /\ stable' = Rooted(stable \ ({p} \cup kids), parent')
    BY <1>2 DEF Exit
  <2>3. \A q \in Pids : IF parent[q] = p THEN parent'[q] = r ELSE parent'[q] = parent[q]
    BY <2>1
  <2> HIDE DEF kids
  <2>4. ParentsRun'
    BY <1>t, <2>1, <2>2, <2>3 DEF TreeInv, ParentsRun
  <2>5. NoCycle'
    <3> SUFFICES ASSUME NEW T \in SUBSET Pids, \A q \in T : parent'[q] \in T
                 PROVE  T = {}
      BY DEF NoCycle
    <3>1. CASE r = Outside
      <4>1. \A q \in T : parent[q] \in T
        BY <1>t, <2>3, <3>1
      <4> QED BY <4>1 DEF TreeInv, NoCycle
    <3>2. CASE r # Outside
      <4>1. PICK W \in SUBSET Pids : p \in W /\ \A q \in W : q = r \/ parent[q] \in W
        BY <2>1, <3>2 DEF Hanging
      <4>2. CASE \E q \in T : parent[q] = p
        <5>1. r \in T
          BY <2>3, <4>2
        <5>2. \A q \in T \cup W : parent[q] \in T \cup W
          BY <2>3, <4>1, <5>1
        <5>3. T \cup W = {}
          BY <5>2 DEF TreeInv, NoCycle
        <5> QED BY <5>3
      <4>3. CASE \A q \in T : parent[q] # p
        <5>1. \A q \in T : parent[q] \in T
          BY <2>3, <4>3
        <5> QED BY <5>1 DEF TreeInv, NoCycle
      <4> QED BY <4>2, <4>3
    <3> QED BY <3>1, <3>2
  <2>6. StableInv'
    <3>1. /\ stable' \subseteq stable \ ({p} \cup kids)
          /\ \A q \in stable' : q = Root \/ parent'[q] \in stable'
      BY <2>2, RootedFacts
    <3>2. \A q \in stable' : st'[q] = "run"
      BY <1>t, <2>2, <3>1 DEF TreeInv, StableInv
    <3> QED BY <3>1, <3>2 DEF StableInv
  <2> QED BY <2>4, <2>5, <2>6 DEF TreeInv
<1>3. ASSUME NEW p \in Pids, Reaped(p) PROVE TreeInv'
  <2>1. /\ st[p] = "zombie" /\ st' = [st EXCEPT ![p] = "free"]
        /\ parent' = [parent EXCEPT ![p] = Outside] /\ stable' = stable
    BY <1>3 DEF Reaped, Reap
  <2>2. ParentsRun'
    BY <1>t, <2>1 DEF TreeInv, ParentsRun
  <2>3. NoCycle'
    <3> SUFFICES ASSUME NEW T \in SUBSET Pids, \A q \in T : parent'[q] \in T
                 PROVE  T = {}
      BY DEF NoCycle
    <3>1. \A q \in T : parent[q] \in T
      BY <1>t, <2>1
    <3> QED BY <3>1 DEF TreeInv, NoCycle
  <2>4. StableInv'
    BY <1>t, <2>1 DEF TreeInv, StableInv
  <2> QED BY <2>2, <2>3, <2>4 DEF TreeInv
<1>4. ASSUME NEW q \in Pids \cup {Outside}, NEW t \in Tasks, NEW p \in Pids \ {Root}, Fork(q, t, p)
      PROVE  TreeInv'
  <2>1. /\ q \in Pids => st[q] = "run"
        /\ st[p] = "free" /\ st' = [st EXCEPT ![p] = "run"]
        /\ parent' = [parent EXCEPT ![p] = q] /\ stable' = stable
    BY <1>4, <1>t DEF Fork
  <2>2. ParentsRun'
    BY <1>t, <2>1 DEF TreeInv, ParentsRun
  <2>3. NoCycle'
    <3> SUFFICES ASSUME NEW T \in SUBSET Pids, \A r \in T : parent'[r] \in T
                 PROVE  T = {}
      BY DEF NoCycle
    <3>1. \A r \in Pids : parent[r] # p
      BY <1>t, <2>1 DEF TreeInv, ParentsRun
    <3>2. \A r \in T \ {p} : parent[r] \in T \ {p}
      BY <1>t, <2>1, <3>1
    <3>3. T \ {p} = {}
      BY <3>2 DEF TreeInv, NoCycle
    <3>4. p \notin T
      BY <1>t, <2>1, <3>3
    <3> QED BY <3>3, <3>4
  <2>4. StableInv'
    BY <1>t, <2>1 DEF TreeInv, StableInv
  <2> QED BY <2>2, <2>3, <2>4 DEF TreeInv
<1>5. CASE Begin
  <2>1. /\ UNCHANGED <<st, parent>>
        /\ stable' \subseteq {p \in Pids : st[p] = "run"}
        /\ \A p \in stable' : p = Root \/ parent[p] \in stable'
    BY <1>5, RootedFacts DEF Begin, WalkBegin
  <2> QED BY <1>u, <2>1 DEF TreeInv, StableInv
<1>6. CASE StatGone \/ Stat \/ WalkEnd \/ Charge \/ Quiet
  BY <1>6, <1>v DEF StatGone, Stat, WalkEnd, Charge, Account, Quiet
<1>7. CASE Finish
  BY <1>7, <1>u DEF Finish, TreeInv, StableInv
<1>s. ASSUME UNCHANGED <<st, parent>>, NEW S, stable' = Rooted(stable \ S, parent) PROVE TreeInv'
  <2>1. /\ stable' \subseteq stable
        /\ \A p \in stable' : p = Root \/ parent[p] \in stable'
    BY <1>s, RootedFacts
  <2> QED BY <1>s, <1>u, <2>1 DEF TreeInv, StableInv
<1>8. ASSUME NEW t \in Tasks, Kids(t) PROVE TreeInv'
  <2>1. \E line : stable' = Rooted(stable \ (ChildrenOf(queue[at], t) \ line), parent)
    BY <1>8, KidsFacts
  <2>2. UNCHANGED <<st, parent>>
    BY <1>8, KidsMoves
  <2> QED BY <1>s, <2>1, <2>2
<1>9. ASSUME NEW q \in Pids, NEW t \in Tasks, NEW u \in Tasks, ThreadEnds(q, t, u) PROVE TreeInv'
  BY <1>9, <1>s DEF ThreadEnds
<1> QED BY StepCases, <1>1, <1>2, <1>3, <1>4, <1>5, <1>6, <1>7, <1>8, <1>9

-------------------------------------------------------------------------------
(***************************************************************************)
(* WalkInv is inductive.                                                   *)
(***************************************************************************)
LEMMA WalkInvStep ==
  ASSUME TypeOK, LifeInv, WalkInv, [Next]_vars
  PROVE  WalkInv'
<1> USE DEF table, walk, account
<1>t. /\ queue \in Seq(Pids) /\ nodes \in Seq(Node) /\ at \in Nat \ {0} /\ Len(queue) \in Nat
      /\ DOMAIN queue = 1..Len(queue) /\ DOMAIN nodes = 1..Len(nodes) /\ Len(nodes) \in Nat
  BY DEF TypeOK, TreeTypeOK
<1>u. ASSUME UNCHANGED <<walk, i, pc>> PROVE WalkInv'
  BY <1>u DEF WalkInv, OncePerRound, Visited
<1>1. ASSUME NEW p \in Pids, Work(p) \/ Exit(p) PROVE WalkInv'
  BY <1>1, <1>u DEF Work, Exit
<1>2. ASSUME NEW p \in Pids, Reaped(p) PROVE WalkInv'
  BY <1>2 DEF Reaped, WalkInv, OncePerRound, Visited
<1>3. ASSUME NEW q \in Pids \cup {Outside}, NEW t \in Tasks, NEW p \in Pids \ {Root}, Fork(q, t, p)
      PROVE  WalkInv'
  BY <1>3, <1>u DEF Fork
<1>12. ASSUME NEW q \in Pids, NEW t \in Tasks, NEW u \in Tasks, ThreadEnds(q, t, u) PROVE WalkInv'
  BY <1>12, <1>u DEF ThreadEnds
<1>4. CASE Begin
  <2>1. /\ pc' = "stat" /\ i' = 1 /\ queue' = <<Root>> /\ at' = 1 /\ nodes' = <<>>
    BY <1>4 DEF Begin, WalkBegin, WalkInv
  <2>2. DOMAIN queue' = {1} /\ DOMAIN nodes' = {} /\ Visited' = {}
    BY <2>1 DEF Visited
  <2> QED BY <2>1, <2>2 DEF WalkInv, OncePerRound, IsInjective
<1>5. CASE StatGone
  <2>1. /\ pc = "stat" /\ pc' = "stat" /\ at <= Len(queue) /\ at' = at + 1
        /\ UNCHANGED <<queue, nodes, i>>
    BY <1>5 DEF StatGone
  <2>2. Visited = 1..at - 1 /\ Visited' = 1..at /\ Visited \subseteq Visited'
    BY <1>t, <2>1 DEF Visited
  <2>3. Visited' \subseteq DOMAIN queue /\ at' >= 1
    BY <1>t, <2>1, <2>2
  <2> QED BY <2>1, <2>2, <2>3 DEF WalkInv, OncePerRound
<1>6. CASE Stat
  <2>1. pc = "stat" /\ pc' = "kids" /\ at <= Len(queue) /\ UNCHANGED <<queue, at, i>>
    BY <1>6 DEF Stat
  <2>2. PICK n \in Node : nodes' = Append(nodes, n) /\ n.pid = queue[at]
    BY <1>6, StatFacts
  <2>3. /\ Visited = 1..at - 1 /\ Visited' = 1..at /\ Visited \subseteq Visited'
        /\ at \in Visited' /\ at \notin Visited /\ at \in DOMAIN queue /\ Visited' \subseteq DOMAIN queue
    BY <1>t, <2>1 DEF Visited
  <2>4. /\ DOMAIN nodes' = 1..Len(nodes) + 1
        /\ \A j \in 1..Len(nodes) : nodes'[j] = nodes[j]
        /\ nodes'[Len(nodes) + 1] = n
        /\ \A j \in DOMAIN nodes' : j \in 1..Len(nodes) \/ j = Len(nodes) + 1
    BY <1>t, <2>2, AppendFacts
  <2>5. \A j \in 1..Len(nodes) : \E k \in Visited : nodes[j].pid = queue[k]
    BY <1>t, <2>1 DEF WalkInv
  <2>6. \A j \in DOMAIN nodes' : \E k \in Visited' : nodes'[j].pid = queue[k]
    BY <2>2, <2>3, <2>4, <2>5
  <2>7. \A j \in 1..Len(nodes) : nodes[j].pid # queue[at]
    BY <2>1, <2>3, <2>5 DEF WalkInv, IsInjective
  <2>8. \A j, k \in 1..Len(nodes) : nodes[j].pid = nodes[k].pid => j = k
    BY <1>t DEF WalkInv, OncePerRound
  <2>9. OncePerRound'
    BY <2>2, <2>4, <2>7, <2>8 DEF OncePerRound
  <2> QED BY <1>t, <2>1, <2>3, <2>6, <2>9 DEF WalkInv
<1>7. ASSUME NEW t \in Tasks, Kids(t) PROVE WalkInv'
  <2>1. /\ pc = "kids" /\ UNCHANGED <<nodes, i>>
        /\ (pc' = "stat" /\ at' = at + 1) \/ (pc' = "kids" /\ at' = at)
    BY <1>7, KidsMoves
  <2>2. PICK s \in Seq(Pids), line \in SUBSET Pids :
          /\ queue' = queue \o s
          /\ ToSet(s) = {p \in line : New(p)}
          /\ IsInjective(s)
    BY <1>7, KidsFacts
  <2>3. ToSet(queue) \cap ToSet(s) = {}
    BY <2>2 DEF New
  <2>4. IsInjective(queue)
    BY <2>1 DEF WalkInv
  <2>5. /\ queue' \in Seq(Pids) /\ Len(queue') = Len(queue) + Len(s)
        /\ \A j \in 1..Len(queue) : queue'[j] = queue[j]
        /\ IsInjective(queue')
    BY <1>t, <2>2, <2>3, <2>4, ConcatDistinct
  <2>6. DOMAIN queue' = 1..Len(queue) + Len(s) /\ Len(s) \in Nat
    BY <2>5
  <2>7. Visited = 1..at /\ Visited' = 1..at
    BY <1>t, <2>1 DEF Visited
  <2>8. at <= Len(queue)
    BY <1>t, <2>1, <2>7 DEF WalkInv
  <2>9. Visited' \subseteq DOMAIN queue' /\ at' >= 1 /\ Visited' \subseteq 1..Len(queue)
    BY <1>t, <2>1, <2>6, <2>7, <2>8
  <2>10. \A j \in DOMAIN nodes' : \E k \in Visited' : nodes'[j].pid = queue'[k]
    BY <2>1, <2>5, <2>7, <2>9 DEF WalkInv
  <2> QED BY <2>1, <2>5, <2>6, <2>9, <2>10 DEF WalkInv, OncePerRound
<1>8. CASE WalkEnd
  BY <1>8 DEF WalkEnd, WalkInv, OncePerRound
<1>9. CASE Charge
  BY <1>9 DEF Charge, Account, WalkInv, OncePerRound
<1>10. CASE Finish
  <2>1. DOMAIN nodes' = {}
    BY <1>10 DEF Finish
  <2> QED BY <1>10, <2>1 DEF Finish, WalkInv, OncePerRound
<1>11. CASE Quiet
  BY <1>11 DEF Quiet, WalkInv, OncePerRound, Visited
<1> QED
  BY StepCases, <1>1, <1>2, <1>3, <1>4, <1>5, <1>6, <1>7, <1>8, <1>9, <1>10, <1>11, <1>12

(***************************************************************************)
(* No round has two samples of one pid, however pids move in the tree      *)
(* while it is walked.                                                     *)
(***************************************************************************)
THEOREM SampledOnce == Spec => []OncePerRound
<1>1. Init => WalkInv
  BY DEF Init, TreeInit, WalkInv, OncePerRound
<1>2. (TypeOK /\ LifeInv) /\ WalkInv /\ [Next]_vars => WalkInv'
  BY WalkInvStep
<1>3. WalkInv => OncePerRound
  BY DEF WalkInv
<1> QED BY <1>1, <1>2, <1>3, BaseCorrect, PTL DEF Spec

-------------------------------------------------------------------------------
(* The pid p is among the samples of the round. *)
Sampled(p) == \E j \in DOMAIN nodes : nodes[j].pid = p

(***************************************************************************)
(* Processes come and go: ReachInv survives as long as the round and the   *)
(* parents of those that stay stable are left alone.                       *)
(***************************************************************************)
LEMMA ReachFrame ==
  ASSUME ReachInv, UNCHANGED <<queue, at, unread, nodes, pc>>, stable' \subseteq stable,
         \A p \in stable' : p # Root => parent'[p] = parent[p] /\ task'[p] = task[p]
  PROVE  ReachInv'
BY DEF ReachInv, StableSampled, Visited

(***************************************************************************)
(* ReachInv is inductive.                                                  *)
(***************************************************************************)
LEMMA ReachStep ==
  ASSUME TypeOK, LifeInv, TreeInv, WalkInv, ReachInv, [Next]_vars
  PROVE  ReachInv'
<1> USE DEF table, walk, account
<1>t. /\ queue \in Seq(Pids) /\ nodes \in Seq(Node) /\ at \in Nat \ {0} /\ Len(queue) \in Nat
      /\ DOMAIN queue = 1..Len(queue) /\ DOMAIN nodes = 1..Len(nodes) /\ Len(nodes) \in Nat
      /\ stable \subseteq Pids /\ Outside \notin Pids /\ parent \in [Pids -> Pids \cup {Outside}]
      /\ st \in [Pids -> {"free", "run", "zombie"}] /\ task \in [Pids -> Tasks]
  <2>1. TreeTypeOK
    BY DEF TypeOK
  <2>2. /\ queue \in Seq(Pids) /\ nodes \in Seq(Node) /\ at \in Nat \ {0}
        /\ stable \subseteq Pids /\ parent \in [Pids -> Pids \cup {Outside}]
        /\ st \in [Pids -> {"free", "run", "zombie"}] /\ task \in [Pids -> Tasks]
    BY <2>1 DEF TreeTypeOK
  <2>3. /\ DOMAIN queue = 1..Len(queue) /\ Len(queue) \in Nat
        /\ DOMAIN nodes = 1..Len(nodes) /\ Len(nodes) \in Nat
    BY <2>2
  <2>4. Outside \notin Pids
    BY TreeAssumption
  <2> QED BY <2>2, <2>3, <2>4
<1>e. \A k \in 1..Len(queue) : queue[k] \in ToSet(queue)
  BY <1>t, ToSetElements
<1>1. ASSUME NEW p \in Pids, Work(p) PROVE ReachInv'
  BY <1>1, ReachFrame DEF Work
<1>2. ASSUME NEW p \in Pids, Exit(p) PROVE ReachInv'
  <2> DEFINE kids == {q \in Pids : parent[q] = p}
  <2>1. stable' \subseteq stable \ ({p} \cup kids)
    BY <1>2, RootedFacts DEF Exit
  <2>2. \A q \in Pids \ kids : parent'[q] = parent[q] /\ task'[q] = task[q]
    BY <1>2 DEF Exit
  <2>3. \A q \in stable' : parent'[q] = parent[q] /\ task'[q] = task[q]
    BY <1>t, <2>1, <2>2
  <2> QED BY <1>2, <2>1, <2>3, ReachFrame DEF Exit
<1>3. ASSUME NEW p \in Pids, Reaped(p) PROVE ReachInv'
  <2>1. p \notin stable
    BY <1>3 DEF Reaped, Reap, TreeInv, StableInv
  <2>2. \A q \in stable : parent'[q] = parent[q] /\ task'[q] = task[q]
    BY <1>3, <1>t, <2>1 DEF Reaped, Reap
  <2>3. CASE pc' = pc
    BY <1>3, <2>2, <2>3, ReachFrame DEF Reaped
  <2>4. CASE pc' = "exited"
    BY <2>4 DEF ReachInv, StableSampled
  <2> QED BY <1>3, <2>3, <2>4 DEF Reaped
<1>4. ASSUME NEW q \in Pids \cup {Outside}, NEW t \in Tasks, NEW p \in Pids \ {Root}, Fork(q, t, p)
      PROVE  ReachInv'
  <2>1. p \notin stable
    BY <1>4 DEF Fork, TreeInv, StableInv
  <2>2. \A r \in stable : parent'[r] = parent[r] /\ task'[r] = task[r]
    BY <1>4, <1>t, <2>1 DEF Fork
  <2> QED BY <1>4, <2>2, ReachFrame DEF Fork
<1>13. ASSUME NEW q \in Pids, NEW t \in Tasks, NEW u \in Tasks, ThreadEnds(q, t, u) PROVE ReachInv'
  <2>1. stable' \subseteq stable \ ChildrenOf(q, t)
    BY <1>13, RootedFacts DEF ThreadEnds
  <2>2. \A p \in stable' : parent'[p] = parent[p] /\ task'[p] = task[p]
    BY <1>13, <1>t, <2>1 DEF ThreadEnds
  <2> QED BY <1>13, <2>1, <2>2, ReachFrame DEF ThreadEnds
<1>5. CASE Begin
  <2>1. pc' = "stat" /\ queue' = <<Root>> /\ at' = 1
    BY <1>5 DEF Begin, WalkBegin
  <2>2. queue' # <<>> /\ queue'[1] = Root /\ 1..at' - 1 = {} /\ Visited' = {}
    BY <2>1 DEF Visited
  <2> QED BY <2>1, <2>2 DEF ReachInv, StableSampled
<1>6. CASE StatGone
  <2>1. /\ pc = "stat" /\ pc' = "stat" /\ at <= Len(queue) /\ at' = at + 1
        /\ st[queue[at]] = "free" /\ UNCHANGED <<queue, nodes, parent, stable>>
    BY <1>6 DEF StatGone
  <2>2. queue[at] \notin stable
    BY <2>1 DEF TreeInv, StableInv
  <2>3. Visited = 1..at - 1 /\ Visited' = 1..at /\ 1..at' - 1 = 1..at
    BY <1>t, <2>1 DEF Visited
  <2>4. \A k \in 1..at : k \in 1..at - 1 \/ k = at
    BY <1>t
  <2>5. \A p \in stable : p # Root => parent[p] # queue[at]
    BY <2>2 DEF TreeInv, StableInv
  <2>6. \A k \in Visited' : queue[k] \in stable => Sampled(queue[k])
    BY <2>1, <2>2, <2>3, <2>4 DEF ReachInv, Sampled
  <2>7. \A p \in stable : p # Root /\ p \notin ToSet(queue) => \A k \in 1..at : parent[p] # queue[k]
    BY <2>1, <2>4, <2>5 DEF ReachInv
  <2>8. queue' # <<>> /\ queue'[1] = Root
    BY <2>1 DEF ReachInv
  <2>9. StableSampled'
    BY <2>1 DEF StableSampled
  <2> QED BY <2>1, <2>3, <2>6, <2>7, <2>8, <2>9 DEF ReachInv, Sampled
<1>7. CASE Stat
  <2>1. /\ pc = "stat" /\ pc' = "kids" /\ at <= Len(queue)
        /\ unread' = Tasks /\ UNCHANGED <<queue, at, parent, task, stable>>
    BY <1>7 DEF Stat
  <2>2. PICK n \in Node : nodes' = Append(nodes, n) /\ n.pid = queue[at]
    BY <1>7, StatFacts
  <2>3. Visited = 1..at - 1 /\ Visited' = 1..at
    BY <1>t, <2>1 DEF Visited
  <2>4. \A k \in 1..at : k \in 1..at - 1 \/ k = at
    BY <1>t
  <2>5. /\ DOMAIN nodes' = 1..Len(nodes) + 1
        /\ \A j \in 1..Len(nodes) : nodes'[j] = nodes[j] /\ j \in 1..Len(nodes) + 1
        /\ nodes'[Len(nodes) + 1] = n /\ Len(nodes) + 1 \in 1..Len(nodes) + 1
    BY <1>t, <2>2, AppendFacts
  <2>6. ASSUME NEW k \in 1..at, queue[k] \in stable
        PROVE  \E j \in DOMAIN nodes' : nodes'[j].pid = queue[k]
    <3>1. CASE k = at
      BY <2>2, <2>5, <3>1
    <3>2. CASE k \in 1..at - 1
      BY <1>t, <2>1, <2>3, <2>5, <2>6, <3>2 DEF ReachInv
    <3> QED BY <2>4, <3>1, <3>2
  <2>7. \A p \in stable : task[p] \in unread'
    BY <1>t, <2>1
  <2> QED BY <2>1, <2>3, <2>6, <2>7 DEF ReachInv, StableSampled
<1>8. ASSUME NEW t \in Tasks, Kids(t) PROVE ReachInv'
  <2>1. /\ pc = "kids" /\ unread' = unread \ {t} /\ UNCHANGED <<nodes, parent, task>>
        /\ (pc' = "stat" /\ at' = at + 1 /\ unread' = {}) \/ (pc' = "kids" /\ at' = at)
    BY <1>8, KidsMoves
  <2>2. PICK s \in Seq(Pids), line \in SUBSET Pids :
          /\ queue' = queue \o s
          /\ ToSet(s) = {p \in line : New(p)}
          /\ stable' = Rooted(stable \ (ChildrenOf(queue[at], t) \ line), parent)
    BY <1>8, KidsFacts
  <2>3. Visited = 1..at /\ Visited' = 1..at
    BY <1>t, <2>1 DEF Visited
  <2>4. at <= Len(queue)
    BY <1>t, <2>1, <2>3 DEF WalkInv
  <2>5. /\ queue' \in Seq(Pids) /\ queue' # <<>>
        /\ \A k \in 1..at : k \in 1..Len(queue) /\ queue'[k] = queue[k]
    BY <1>t, <2>2, <2>4
  <2>6. ToSet(queue') = ToSet(queue) \cup ToSet(s)
    BY <1>t, <2>2, ToSetConcat
  <2>7. \A k \in 1..at : k \in 1..at - 1 \/ k = at
    BY <1>t
  <2>8. at \in 1..at /\ 1 \in 1..at /\ \A k \in 1..at - 1 : k \in 1..at
    BY <1>t
  <2>9. stable' \subseteq stable /\ \A p \in stable' : p \in ChildrenOf(queue[at], t) => p \in line
    BY <2>2, RootedFacts
  <2>10. \A k \in Visited' : queue'[k] \in stable' =>
           \E j \in DOMAIN nodes' : nodes'[j].pid = queue'[k]
    BY <2>1, <2>3, <2>5, <2>9 DEF ReachInv
  <2>11. queue'[1] = Root
    BY <2>1, <2>5, <2>8 DEF ReachInv
  <2>12. ASSUME NEW p \in stable', p # Root, p \notin ToSet(queue')
         PROVE  /\ p \in Pids /\ p \notin ToSet(queue) /\ p \notin line
                /\ \A k \in 1..at - 1 : parent[p] # queue[k]
                /\ parent[p] = queue[at] => task[p] \in unread /\ task[p] # t
    <3>1. p \in stable /\ p \in Pids /\ p \notin ToSet(queue)
      BY <1>t, <2>6, <2>9, <2>12
    <3>2. p \notin line
      BY <2>2, <2>6, <2>12, <3>1 DEF New
    <3>3. parent[p] = queue[at] => task[p] # t
      BY <2>9, <2>12, <3>1, <3>2 DEF ChildrenOf
    <3>4. /\ \A k \in 1..at - 1 : parent[p] # queue[k]
          /\ parent[p] = queue[at] => task[p] \in unread
      BY <2>1, <2>12, <3>1 DEF ReachInv
    <3> QED BY <3>1, <3>2, <3>3, <3>4
  <2>13. ASSUME NEW p \in stable', p # Root, p \notin ToSet(queue')
         PROVE  /\ \A k \in 1..at' - 1 : parent'[p] # queue'[k]
                /\ pc' = "kids" /\ parent'[p] = queue'[at'] => task'[p] \in unread'
    <3>1. /\ \A k \in 1..at - 1 : parent[p] # queue[k]
          /\ parent[p] = queue[at] => task[p] \in unread /\ task[p] # t
      BY <2>12, <2>13
    <3>2. CASE pc' = "kids" /\ at' = at
      BY <2>1, <2>5, <2>8, <3>1, <3>2
    <3>3. CASE pc' = "stat" /\ at' = at + 1 /\ unread' = {}
      <4>1. parent[p] # queue[at]
        BY <2>1, <3>1, <3>3
      <4>2. 1..at' - 1 = 1..at
        BY <1>t, <3>3
      <4>3. \A k \in 1..at : parent[p] # queue'[k]
        BY <2>5, <2>7, <3>1, <4>1
      <4> QED BY <2>1, <3>3, <4>2, <4>3
    <3> QED BY <2>1, <3>2, <3>3
  <2>14. pc' \in {"stat", "kids"}
    BY <2>1
  <2> QED BY <2>5, <2>10, <2>11, <2>13, <2>14 DEF ReachInv, StableSampled
<1>9. CASE WalkEnd
  <2>1. /\ pc = "stat" /\ pc' = "account" /\ at > Len(queue)
        /\ UNCHANGED <<queue, nodes, parent, stable>>
    BY <1>9 DEF WalkEnd
  <2>2. Visited = 1..at - 1 /\ 1..Len(queue) \subseteq 1..at - 1 /\ 1 \in 1..Len(queue)
    <3>1. queue # <<>>
      BY <2>1 DEF ReachInv
    <3> QED BY <1>t, <2>1, <3>1 DEF Visited
  <2> DEFINE T == {p \in stable : p \notin ToSet(queue)}
  <2>3. Root \notin T
    BY <1>e, <2>1, <2>2 DEF ReachInv
  <2>4. ToSet(queue) = {queue[k] : k \in 1..Len(queue)}
    BY <1>t, ToSetElements
  <2>5. ASSUME NEW p \in T PROVE parent[p] \in T
    <3>1. p # Root /\ p \in stable /\ p \notin ToSet(queue)
      BY <2>3
    <3>2. parent[p] \in stable
      BY <3>1 DEF TreeInv, StableInv
    <3>3. parent[p] \notin ToSet(queue)
      BY <2>1, <2>2, <2>4, <3>1 DEF ReachInv
    <3> QED BY <3>2, <3>3
  <2>6. T = {}
    BY <1>t, <2>5 DEF TreeInv, NoCycle
  <2>7. ASSUME NEW p \in stable PROVE Sampled(p)
    <3>1. PICK k \in 1..Len(queue) : p = queue[k]
      BY <2>4, <2>6
    <3> QED BY <2>1, <2>2, <2>7, <3>1 DEF ReachInv, Sampled
  <2>8. stable' \subseteq {nodes'[j].pid : j \in DOMAIN nodes'}
    BY <2>1, <2>7 DEF Sampled
  <2> QED BY <2>1, <2>8 DEF ReachInv, StableSampled
<1>10. CASE Charge
  BY <1>10 DEF Charge, Account, ReachInv, StableSampled
<1>11. CASE Finish
  BY <1>11 DEF Finish, ReachInv, StableSampled
<1>12. CASE Quiet
  BY <1>12 DEF Quiet, ReachInv, StableSampled, Visited
<1> QED
  BY StepCases, <1>1, <1>2, <1>3, <1>4, <1>5, <1>6, <1>7, <1>8, <1>9, <1>10, <1>11, <1>12, <1>13

(***************************************************************************)
(* A process that hangs below the command for the whole walk, from the     *)
(* same threads, and that no line of children was too short for, is in the *)
(* round, whatever forks, exits, moves and reuses of pids happen elsewhere *)
(* (read_children_pids and snapshot_tree).                                 *)
(***************************************************************************)
THEOREM TreeCovered == Spec => []StableSampled
<1>1. Init => TreeInv /\ WalkInv /\ ReachInv
  <2> SUFFICES ASSUME Init PROVE TreeInv /\ WalkInv /\ ReachInv
    OBVIOUS
  <2>1. \A p \in Pids : parent[p] = Outside
    BY DEF Init, TreeInit
  <2>2. TreeInv
    BY <2>1, TreeAssumption DEF TreeInv, ParentsRun, NoCycle, StableInv, Init, TreeInit
  <2> QED BY <2>2 DEF Init, TreeInit, WalkInv, OncePerRound, ReachInv, StableSampled
<1>2. (TypeOK /\ LifeInv) /\ (TreeInv /\ WalkInv /\ ReachInv) /\ [Next]_vars
        => (TreeInv /\ WalkInv /\ ReachInv)'
  BY TreeStep, WalkInvStep, ReachStep
<1>3. ReachInv => StableSampled
  BY DEF ReachInv
<1> QED BY <1>1, <1>2, <1>3, BaseCorrect, PTL DEF Spec

-------------------------------------------------------------------------------
(***************************************************************************)
(* A process that works only has more time left to be charged with.        *)
(***************************************************************************)
LEMMA TimesGrow ==
  ASSUME NEW u \in Seq(Nat), NEW w \in Seq(Nat), NEW c \in Seq(Nat), NEW v \in Nat, NEW seen,
         Len(c) = Len(u), Len(w) = Len(u), \A k \in 1..Len(u) : u[k] <= w[k]
  PROVE  /\ TimesOK(u, c, v, seen) => TimesOK(w, c, v, seen)
         /\ \A n \in Node : NodeFits(n, u, c, v) => NodeFits(n, w, c, v)
<1>1. Len(u) \in Nat
  OBVIOUS
<1>2. \A k \in 1..Len(u) : u[k] \in Nat /\ w[k] \in Nat /\ c[k] \in Nat
  OBVIOUS
<1>3. ASSUME TimesOK(u, c, v, seen) PROVE TimesOK(w, c, v, seen)
  <2>1. \A k \in 1..Len(u) : c[k] <= w[k]
    BY <1>2, <1>3 DEF TimesOK
  <2>2. ASSUME Len(u) > 0 PROVE Fits(c[Len(u)], v, w[Len(u)])
    <3>1. Len(u) \in 1..Len(u)
      BY <1>1, <2>2
    <3> QED BY <1>2, <1>3, <2>2, <3>1 DEF TimesOK, Fits
  <2> QED BY <1>3, <2>1, <2>2 DEF TimesOK
<1>4. ASSUME NEW n \in Node, NodeFits(n, u, c, v) PROVE NodeFits(n, w, c, v)
  <2>1. n.life \in Nat /\ n.time \in Nat
    BY DEF Node
  <2>2. n.life \in 1..Len(u) /\ n.time <= u[n.life]
    BY <1>4 DEF NodeFits
  <2>3. u[n.life] <= w[n.life] /\ u[n.life] \in Nat /\ w[n.life] \in Nat
    BY <1>2, <2>2, Zenon
  <2>4. n.time <= w[n.life]
    <3>1. \A x, y, z \in Nat : x <= y /\ y <= z => x <= z
      OBVIOUS
    <3> QED BY <2>1, <2>2, <2>3, <3>1, Zenon
  <2> QED BY <1>4, <2>4 DEF NodeFits
<1> QED BY <1>3, <1>4

(***************************************************************************)
(* A pid that passes to a new process, which has used and been charged     *)
(* nothing.                                                                *)
(***************************************************************************)
LEMMA TimesFork ==
  ASSUME NEW u \in Seq(Nat), NEW c \in Seq(Nat), NEW v \in Nat, NEW seen, Len(c) = Len(u)
  PROVE  /\ TimesOK(u, c, v, seen) => TimesOK(Append(u, 0), Append(c, 0), v, seen)
         /\ \A n \in Node : NodeFits(n, u, c, v) => NodeFits(n, Append(u, 0), Append(c, 0), v)
<1> DEFINE w == Append(u, 0)
           d == Append(c, 0)
<1>1. Len(u) \in Nat
  OBVIOUS
<1>2. /\ Len(w) = Len(u) + 1 /\ w[Len(u) + 1] = 0 /\ d[Len(u) + 1] = 0
      /\ \A k \in 1..Len(u) : w[k] = u[k] /\ d[k] = c[k]
  BY AppendFacts
<1> HIDE DEF w, d
<1>3. \A k \in 1..Len(u) + 1 : k \in 1..Len(u) \/ k = Len(u) + 1
  BY <1>1
<1>4. ASSUME TimesOK(u, c, v, seen) PROVE TimesOK(w, d, v, seen)
  <2>1. \A k \in 1..Len(u) + 1 : d[k] <= w[k]
    BY <1>2, <1>3, <1>4 DEF TimesOK
  <2>2. ~seen => \A k \in 1..Len(u) + 1 : d[k] = 0
    BY <1>2, <1>3, <1>4 DEF TimesOK
  <2> QED BY <1>2, <2>1, <2>2 DEF TimesOK, Fits
<1>5. ASSUME NEW n \in Node, NodeFits(n, u, c, v) PROVE NodeFits(n, w, d, v)
  <2>1. n.life \in 1..Len(u) /\ n.life \in 1..Len(u) + 1 /\ n.life \in Nat
    BY <1>1, <1>5 DEF NodeFits, Node
  <2>2. \A k \in n.life + 1..Len(u) + 1 : d[k] = 0
    <3>1. \A k \in n.life + 1..Len(u) + 1 : (k \in n.life + 1..Len(u) /\ k \in 1..Len(u)) \/ k = Len(u) + 1
      BY <1>1, <2>1
    <3> QED BY <1>2, <1>5, <3>1 DEF NodeFits
  <2> QED BY <1>2, <1>5, <2>1, <2>2 DEF NodeFits
<1> QED BY <1>4, <1>5 DEF w, d

(***************************************************************************)
(* The heart of push_tree: a node n is accounted.  A time that is below    *)
(* the one in prev[] can only be that of a process that was charged        *)
(* nothing so far.                                                         *)
(***************************************************************************)
LEMMA TimesCharge ==
  ASSUME NEW u \in Seq(Nat), NEW c \in Seq(Nat), NEW v \in Nat, NEW seen \in BOOLEAN,
         Len(c) = Len(u), NEW n \in Node, TimesOK(u, c, v, seen), NodeFits(n, u, c, v)
  PROVE  LET d == IF seen /\ n.time >= v THEN n.time - v ELSE 0
         IN  TimesOK(u, [c EXCEPT ![n.life] = c[n.life] + d], n.time, TRUE)
<1> DEFINE d == IF seen /\ n.time >= v THEN n.time - v ELSE 0
           e == [c EXCEPT ![n.life] = c[n.life] + d]
<1>1. n.life \in 1..Len(u) /\ n.life \in Nat /\ n.time \in Nat /\ Len(u) \in Nat
  BY DEF NodeFits, Node
<1>2. \A k \in 1..Len(u) : u[k] \in Nat /\ c[k] \in Nat
  OBVIOUS
<1>3. c[n.life] + d <= n.time /\ c[n.life] + d \in Nat
  <2>1. c[n.life] = 0 \/ (c[n.life] <= v /\ v <= n.time)
    BY DEF NodeFits, Fits
  <2>2. ~seen => c[n.life] = 0
    BY <1>1 DEF TimesOK
  <2>3. c[n.life] \in Nat
    BY <1>1, <1>2
  <2>4. CASE seen /\ n.time >= v
    <3> DEFINE x == c[n.life]
               t == n.time
    <3>1. x \in Nat /\ t \in Nat /\ v \in Nat /\ t >= v /\ (x = 0 \/ x <= v)
      BY <1>1, <2>1, <2>3, <2>4
    <3>2. d = t - v
      BY <2>4
    <3> HIDE DEF x, t
    <3>3. x + (t - v) <= t /\ x + (t - v) \in Nat
      BY <3>1
    <3> QED BY <3>2, <3>3 DEF x, t
  <2>5. CASE ~(seen /\ n.time >= v)
    <3>1. d = 0
      BY <2>5
    <3>2. c[n.life] = 0
      BY <1>1, <2>1, <2>2, <2>3, <2>5
    <3> QED BY <1>1, <3>1, <3>2
  <2> QED BY <2>4, <2>5
<1>4. /\ e[n.life] = c[n.life] + d
      /\ \A k \in 1..Len(u) : k # n.life => e[k] = c[k]
  BY <1>1
<1> HIDE DEF d, e
<1>5. n.time <= u[n.life] /\ u[n.life] \in Nat
  BY <1>1, <1>2 DEF NodeFits
<1>6. \A k \in 1..Len(u) : e[k] <= u[k]
  <2> TAKE k \in 1..Len(u)
  <2>1. CASE k = n.life
    BY <1>1, <1>3, <1>4, <1>5, <2>1
  <2>2. CASE k # n.life
    BY <1>4, <2>2 DEF TimesOK
  <2> QED BY <2>1, <2>2
<1>7. Fits(e[Len(u)], n.time, u[Len(u)])
  <2>1. CASE n.life = Len(u)
    BY <1>3, <1>4, <1>5, <2>1 DEF Fits
  <2>2. CASE n.life # Len(u)
    <3>1. Len(u) \in n.life + 1..Len(u) /\ Len(u) \in 1..Len(u)
      BY <1>1, <2>2
    <3>2. e[Len(u)] = 0
      BY <1>4, <2>2, <3>1 DEF NodeFits
    <3> QED BY <3>2 DEF Fits
  <2> QED BY <2>1, <2>2
<1>8. TimesOK(u, e, n.time, TRUE)
  BY <1>6, <1>7 DEF TimesOK
<1> QED BY <1>8 DEF d, e

(***************************************************************************)
(* ChargeInv is inductive.                                                 *)
(***************************************************************************)
LEMMA ChargeStep ==
  ASSUME TypeOK, TypeOK', LifeInv, WalkInv, ChargeInv, [Next]_vars
  PROVE  ChargeInv'
<1> USE DEF table, walk, account
<1>t. TreeTypeOK /\ TreeTypeOK'
  BY DEF TypeOK
<1>p. /\ used \in [Pids -> Seq(Nat)] /\ charged \in [Pids -> Seq(Nat)]
      /\ used' \in [Pids -> Seq(Nat)] /\ charged' \in [Pids -> Seq(Nat)] /\ prev \in [Pids -> Nat]
  BY <1>t DEF TreeTypeOK
<1>n. /\ nodes \in Seq(Node) /\ DOMAIN nodes = 1..Len(nodes) /\ Len(nodes) \in Nat
      /\ i \in Nat \ {0}
  BY <1>t DEF TreeTypeOK
<1>d. \A n \in Node : n.pid \in Pids
  BY DEF Node
<1>s. (* Nothing but CPU times changes. *)
      ASSUME \A p \in Pids : /\ Len(used'[p]) = Len(used[p])
                             /\ \A k \in 1..Len(used[p]) : used[p][k] <= used'[p][k],
             UNCHANGED <<charged, prev, known>>
      PROVE  /\ \A p \in Pids : PidOK(p)'
             /\ \A n \in Node : NodeOK(n) => NodeOK(n)'
  <2>1. ASSUME NEW p \in Pids
        PROVE  /\ used[p] \in Seq(Nat) /\ used'[p] \in Seq(Nat) /\ charged[p] \in Seq(Nat)
               /\ prev[p] \in Nat /\ Len(charged[p]) = Len(used[p]) /\ PidOK(p)
    BY <1>p DEF LifeInv, ChargeInv
  <2>2. ASSUME NEW p \in Pids
        PROVE  /\ PidOK(p)'
               /\ \A n \in Node : NodeFits(n, used[p], charged[p], prev[p])
                                    => NodeFits(n, used'[p], charged[p], prev[p])
    BY <1>s, <2>1, TimesGrow DEF PidOK
  <2>3. ASSUME NEW n \in Node, NodeOK(n) PROVE NodeOK(n)'
    BY <1>d, <1>s, <2>2, <2>3 DEF NodeOK
  <2> QED BY <2>2, <2>3
<1>u. ASSUME UNCHANGED <<used, charged, prev, known, nodes>>, i' = i PROVE ChargeInv'
  BY <1>u DEF ChargeInv, PidOK, NodeOK
<1>1. ASSUME NEW p \in Pids, Work(p) PROVE ChargeInv'
  <2>1. \A q \in Pids : /\ Len(used'[q]) = Len(used[q])
                        /\ \A k \in 1..Len(used[q]) : used[q][k] <= used'[q][k]
    <3> DEFINE m == Len(used[p])
               w == [used[p] EXCEPT ![m] = used[p][m] + 1]
    <3>1. m \in 1..Len(used[p]) /\ used[p][m] + 1 \in Nat /\ used[p] \in Seq(Nat)
      BY <1>p, <1>1 DEF Work, LifeInv
    <3>2. Len(w) = Len(used[p])
      BY <3>1, Update
    <3>3. \A k \in 1..Len(used[p]) : used[p][k] <= w[k]
      BY <3>1
    <3>4. used' = [used EXCEPT ![p] = w]
      BY <1>1, <1>p DEF Work, Life
    <3> HIDE DEF w
    <3>5. \A q \in Pids : \A k \in 1..Len(used[q]) : used[q][k] \in Nat
      BY <1>p
    <3>6. \A q \in Pids : q # p => used'[q] = used[q]
      BY <1>p, <3>4
    <3>7. used'[p] = w
      BY <1>p, <3>4
    <3> QED BY <3>2, <3>3, <3>5, <3>6, <3>7
  <2>2. UNCHANGED <<charged, prev, known, nodes, i>>
    BY <1>1 DEF Work
  <2>3. /\ \A q \in Pids : PidOK(q)'
        /\ \A n \in Node : NodeOK(n) => NodeOK(n)'
    BY <1>s, <2>1, <2>2
  <2>4. ASSUME NEW j \in DOMAIN nodes, j >= i PROVE NodeOK(nodes[j])'
    <3>1. PICK n \in Node : n = nodes[j]
      BY <1>n
    <3>2. NodeOK(n)'
      BY <2>3, <2>4, <3>1 DEF ChargeInv
    <3> QED BY <2>2, <3>1, <3>2 DEF NodeOK
  <2> QED BY <2>2, <2>3, <2>4 DEF ChargeInv
<1>2. ASSUME NEW p \in Pids, Exit(p) PROVE ChargeInv'
  BY <1>2, <1>u DEF Exit
<1>3. ASSUME NEW p \in Pids, Reaped(p) PROVE ChargeInv'
  BY <1>3, <1>u DEF Reaped
<1>4. ASSUME NEW q \in Pids \cup {Outside}, NEW t \in Tasks, NEW p \in Pids \ {Root}, Fork(q, t, p)
      PROVE  ChargeInv'
  <2>1. /\ used'[p] = Append(used[p], 0) /\ charged'[p] = Append(charged[p], 0)
        /\ \A r \in Pids : r # p => used'[r] = used[r] /\ charged'[r] = charged[r]
        /\ UNCHANGED <<prev, known, nodes, i>>
    BY <1>4, <1>p DEF Fork
  <2>2. /\ used[p] \in Seq(Nat) /\ charged[p] \in Seq(Nat) /\ prev[p] \in Nat
        /\ Len(charged[p]) = Len(used[p])
    BY <1>p DEF LifeInv
  <2>3. ASSUME NEW r \in Pids PROVE PidOK(r)'
    <3>1. CASE r = p
      BY <2>1, <2>2, <3>1, TimesFork DEF PidOK, ChargeInv
    <3>2. CASE r # p
      BY <2>1, <3>2 DEF PidOK, ChargeInv
    <3> QED BY <3>1, <3>2
  <2>4. ASSUME NEW j \in DOMAIN nodes, j >= i PROVE NodeOK(nodes[j])'
    <3>1. PICK n \in Node : n = nodes[j]
      BY <1>n
    <3>2. NodeOK(n) /\ n.pid \in Pids
      BY <1>d, <2>4, <3>1 DEF ChargeInv
    <3>3. CASE n.pid = p
      <4>1. NodeFits(n, used[p], charged[p], prev[p])
        BY <3>2, <3>3 DEF NodeOK
      <4>2. NodeFits(n, Append(used[p], 0), Append(charged[p], 0), prev[p])
        BY <2>2, <4>1, TimesFork
      <4>3. NodeOK(n)'
        BY <2>1, <3>3, <4>2 DEF NodeOK
      <4> QED BY <2>1, <3>1, <4>3 DEF NodeOK
    <3>4. CASE n.pid # p
      BY <2>1, <3>1, <3>2, <3>4 DEF NodeOK
    <3> QED BY <3>3, <3>4
  <2> QED BY <2>1, <2>3, <2>4 DEF ChargeInv
<1>5. CASE Begin
  <2>1. UNCHANGED <<used, charged, prev, known>> /\ nodes' = <<>>
    BY <1>5 DEF Begin, WalkBegin
  <2> QED BY <2>1 DEF ChargeInv, PidOK
<1>6. CASE StatGone
  BY <1>6, <1>u DEF StatGone
<1>7. CASE Stat
  <2>1. PICK n \in Node : /\ nodes' = Append(nodes, n) /\ n.pid = queue[at]
                          /\ n.life = Len(used[queue[at]]) /\ n.life > 0
                          /\ n.time = used[queue[at]][n.life]
    BY <1>7, StatFacts
  <2>2. UNCHANGED <<used, charged, prev, known, i>>
    BY <1>7 DEF Stat
  <2>3. /\ DOMAIN nodes' = 1..Len(nodes) + 1
        /\ \A j \in 1..Len(nodes) : nodes'[j] = nodes[j]
        /\ nodes'[Len(nodes) + 1] = n
    BY <1>n, <2>1, AppendFacts
  <2>4. NodeOK(n)
    <3>1. n.pid \in Pids /\ used[n.pid] \in Seq(Nat) /\ Len(used[n.pid]) \in Nat
      BY <1>d, <1>p
    <3>2. n.life \in 1..Len(used[n.pid]) /\ n.life + 1..Len(used[n.pid]) = {}
      BY <2>1, <3>1
    <3>3. n.time = used[n.pid][n.life] /\ n.time \in Nat
      BY <2>1, <3>1, <3>2
    <3>4. Fits(charged[n.pid][n.life], prev[n.pid], n.time)
      BY <2>1, <3>1, <3>3 DEF ChargeInv, PidOK, TimesOK
    <3> QED BY <3>2, <3>3, <3>4 DEF NodeOK, NodeFits
  <2>5. ASSUME NEW j \in DOMAIN nodes', j >= i PROVE NodeOK(nodes'[j])
    <3>1. CASE j = Len(nodes) + 1
      BY <2>3, <2>4, <3>1
    <3>2. CASE j \in 1..Len(nodes)
      BY <1>n, <2>3, <2>5, <3>2 DEF ChargeInv
    <3> QED BY <1>n, <2>3, <3>1, <3>2
  <2> QED BY <2>2, <2>5 DEF ChargeInv, PidOK, NodeOK
<1>8. ASSUME NEW t \in Tasks, Kids(t) PROVE ChargeInv'
  BY <1>8, <1>u, KidsMoves
<1>13. ASSUME NEW q \in Pids, NEW t \in Tasks, NEW u \in Tasks, ThreadEnds(q, t, u) PROVE ChargeInv'
  BY <1>13, <1>u DEF ThreadEnds
<1>9. CASE WalkEnd
  <2>1. i = 1 /\ i' = 1
    BY <1>9 DEF WalkEnd, WalkInv
  <2> QED BY <1>9, <2>1, <1>u DEF WalkEnd
<1>10. CASE Charge
  <2>1. i \in 1..Len(nodes)
    BY <1>10, <1>n DEF Charge, Account
  <2>2. PICK n \in Node : n = nodes[i]
    BY <1>n, <2>1
  <2>3. n.pid \in Pids /\ NodeOK(n)
    BY <1>d, <1>n, <2>1, <2>2 DEF ChargeInv
  <2> DEFINE d == IF n.pid \in known /\ n.time >= prev[n.pid] THEN n.time - prev[n.pid] ELSE 0
             e == [charged[n.pid] EXCEPT ![n.life] = charged[n.pid][n.life] + d]
  <2>4. /\ charged' = [charged EXCEPT ![n.pid] = e] /\ prev' = [prev EXCEPT ![n.pid] = n.time]
        /\ known' = known \cup {n.pid} /\ i' = i + 1 /\ UNCHANGED <<used, nodes>>
    BY <1>10, <1>p, <2>2, <2>3 DEF Charge, Account, Delta
  <2>5. TimesOK(used[n.pid], e, n.time, TRUE)
    <3>1. /\ used[n.pid] \in Seq(Nat) /\ charged[n.pid] \in Seq(Nat) /\ prev[n.pid] \in Nat
          /\ Len(charged[n.pid]) = Len(used[n.pid])
      BY <1>p, <2>3 DEF LifeInv
    <3>2. TimesOK(used[n.pid], charged[n.pid], prev[n.pid], n.pid \in known)
      BY <2>3 DEF ChargeInv, PidOK
    <3>3. NodeFits(n, used[n.pid], charged[n.pid], prev[n.pid])
      BY <2>3 DEF NodeOK
    <3>4. (n.pid \in known) \in BOOLEAN
      OBVIOUS
    <3> QED BY <3>1, <3>2, <3>3, <3>4, TimesCharge
  <2> HIDE DEF d, e
  <2>6. /\ charged'[n.pid] = e /\ prev'[n.pid] = n.time /\ (n.pid \in known') = TRUE
        /\ \A p \in Pids : p # n.pid => /\ charged'[p] = charged[p] /\ prev'[p] = prev[p]
                                       /\ (p \in known') = (p \in known)
    BY <1>p, <2>3, <2>4
  <2>7. ASSUME NEW p \in Pids PROVE PidOK(p)'
    <3>1. CASE p = n.pid
      BY <2>4, <2>5, <2>6, <3>1 DEF PidOK
    <3>2. CASE p # n.pid
      BY <2>4, <2>6, <3>2 DEF PidOK, ChargeInv
    <3> QED BY <3>1, <3>2
  <2>8. ASSUME NEW j \in DOMAIN nodes, j >= i + 1 PROVE NodeOK(nodes[j])'
    <3>1. PICK m \in Node : m = nodes[j]
      BY <1>n
    <3>2. j >= i /\ j # i /\ i \in DOMAIN nodes
      BY <1>n, <2>1, <2>8
    <3>3. m.pid # n.pid
      BY <2>2, <3>1, <3>2 DEF WalkInv, OncePerRound
    <3>4. NodeOK(m) /\ m.pid \in Pids
      BY <1>d, <3>1, <3>2 DEF ChargeInv
    <3> QED BY <2>4, <2>6, <3>1, <3>3, <3>4 DEF NodeOK
  <2> QED BY <2>4, <2>7, <2>8 DEF ChargeInv
<1>11. CASE Finish
  <2>1. UNCHANGED <<used, charged, prev, known>> /\ nodes' = <<>>
    BY <1>11 DEF Finish
  <2> QED BY <2>1 DEF ChargeInv, PidOK
<1>12. CASE Quiet
  BY <1>12, <1>u DEF Quiet
<1> QED
  BY StepCases, <1>1, <1>2, <1>3, <1>4, <1>5, <1>6, <1>7, <1>8, <1>9, <1>10, <1>11, <1>12, <1>13

(***************************************************************************)
(* No process is ever charged more CPU time than it used, however often    *)
(* its pid was used before and whatever prev[] still holds of that.        *)
(***************************************************************************)
THEOREM ChargedWithinUse == Spec => []NeverOvercharged
<1>1. Init => WalkInv /\ ChargeInv
  <2> SUFFICES ASSUME Init PROVE WalkInv /\ ChargeInv
    OBVIOUS
  <2>1. nodes = <<>> /\ charged = used
    BY DEF Init, TreeInit
  <2>2. ASSUME NEW p \in Pids PROVE PidOK(p)
    <3>1. used[p] = IF p = Root THEN <<0>> ELSE <<>>
      BY DEF Init, TreeInit
    <3>2. \A k \in 1..Len(used[p]) : used[p][k] = 0
      BY <3>1
    <3>3. Len(used[p]) > 0 => Len(used[p]) \in 1..Len(used[p])
      BY <3>1
    <3> QED BY <2>1, <3>2, <3>3 DEF PidOK, TimesOK, Fits
  <2>3. WalkInv
    BY DEF Init, TreeInit, WalkInv, OncePerRound
  <2> QED BY <2>1, <2>2, <2>3 DEF ChargeInv
<1>2. (TypeOK /\ LifeInv) /\ (TypeOK /\ LifeInv)' /\ (WalkInv /\ ChargeInv) /\ [Next]_vars
        => (WalkInv /\ ChargeInv)'
  BY WalkInvStep, ChargeStep
<1>3. ChargeInv => NeverOvercharged
  BY DEF ChargeInv, PidOK, TimesOK, NeverOvercharged, Life
<1> QED BY <1>1, <1>2, <1>3, BaseCorrect, PTL DEF Spec

-------------------------------------------------------------------------------
(***************************************************************************)
(* ExitInv is inductive: Root runs until ChildExits, which records the     *)
(* status, and only Wait frees its pid, which no fork is given.            *)
(***************************************************************************)
LEMMA ExitStep ==
  ASSUME TypeOK, ExitInv, [Next]_vars
  PROVE  ExitInv'
<1> USE DEF table, walk, account, main
<1>t. st \in [Pids -> {"free", "run", "zombie"}] /\ Root \in Pids
  BY TreeAssumption DEF TypeOK, TreeTypeOK
<1>k. ASSUME st'[Root] = st[Root], status' = status, pc # "exited", pc' # "exited"
      PROVE  ExitInv'
  BY <1>k DEF ExitInv
<1>1. CASE pc # "exited" /\ OtherStep
  <2>1. ASSUME NEW p \in Pids, Work(p) PROVE st' = st /\ pc' = pc
    BY <2>1 DEF Work
  <2>2. ASSUME NEW q \in Pids \cup {Outside}, NEW t \in Tasks, NEW p \in Pids \ {Root}, Fork(q, t, p)
        PROVE  st'[Root] = st[Root] /\ pc' = pc
    BY <1>t, <2>2 DEF Fork
  <2>5. ASSUME NEW q \in Pids, NEW t \in Tasks, NEW u \in Tasks, ThreadEnds(q, t, u)
        PROVE  st' = st /\ pc' = pc
    BY <2>5 DEF ThreadEnds
  <2>3. ASSUME NEW p \in Pids \ {Root}, Reap(p), pc' = pc
        PROVE  st'[Root] = st[Root] /\ pc' = pc
    BY <1>t, <2>3 DEF Reap
  <2>4. st'[Root] = st[Root] /\ pc' = pc /\ status' = status
    BY <1>1, <2>1, <2>2, <2>3, <2>5 DEF OtherStep, Processes
  <2> QED BY <1>1, <1>k, <2>4
<1>2. ASSUME NEW p \in Pids, OtherExits(p), pc # "exited" PROVE ExitInv'
  <2>1. st'[Root] = st[Root] /\ pc' = pc /\ status' = status
    BY <1>t, <1>2 DEF OtherExits, Exit
  <2> QED BY <1>2, <1>k, <2>1
<1>3. CASE pc # "exited" /\ ChildExits
  <2>1. status' \in Ended /\ pc' = pc
    BY <1>3 DEF ChildExits, Exit
  <2> QED BY <1>3, <2>1 DEF ExitInv, Ended
<1>4. CASE pc # "exited" /\ ChildStops
  BY <1>4, <1>k DEF ChildStops
<1>5. CASE Baseline \/ NoBaseline \/ Round
  BY <1>5, <1>k DEF Baseline, NoBaseline, Round, WalkBegin
<1>6. CASE WalkStep
  BY <1>6, <1>k DEF WalkStep, Walking, StatGone, Stat, Kids, WalkEnd
<1>7. CASE AccountNode
  BY <1>7, <1>k DEF AccountNode, Account
<1>8. CASE RoundEnd \/ LoopEnds \/ Pushed
  BY <1>8, <1>k DEF RoundEnd, LoopEnds, Pushed
<1>9. CASE Wait
  <2>1. /\ st[Root] = "zombie" /\ st'[Root] = "free" /\ status' = status
        /\ exitCode' = ExitStatus(status)
    BY <1>t, <1>9 DEF Wait, Reap
  <2>2. status \in Ended
    BY <2>1 DEF ExitInv
  <2> QED BY <2>1, <2>2 DEF ExitInv, ExitStatus, Ended
<1>10. CASE UNCHANGED vars
  BY <1>10 DEF vars, ExitInv, ExitStatus, Ended
<1> QED
  BY <1>1, <1>2, <1>3, <1>4, <1>5, <1>6, <1>7, <1>8, <1>9, <1>10 DEF Next, Environment, Wrapper

(***************************************************************************)
(* The wrapper ends only once the command has, and with the code a shell   *)
(* gives for the command's status, whichever signals came in what order.   *)
(***************************************************************************)
THEOREM EndsAsChild == Spec => []ExitReportsChild
<1>1. Init => ExitInv
  BY TreeAssumption DEF Init, TreeInit, ExitInv
<1>2. (TypeOK /\ LifeInv) /\ ExitInv /\ [Next]_vars => ExitInv'
  BY ExitStep
<1>3. ASSUME ExitInv PROVE ExitReportsChild
  <2> SUFFICES ASSUME pc = "exited" PROVE ExitReportsChild
    BY DEF ExitReportsChild
  <2>1. st[Root] = "free" /\ exitCode = ExitStatus(status) /\ status \in Ended
    BY <1>3 DEF ExitInv
  <2>2. status.how \in {"exited", "signaled"} /\ status.n = 9
    BY <2>1 DEF Ended
  <2>3. CASE status.how = "exited"
    BY <2>1, <2>3 DEF ExitStatus, ExitReportsChild
  <2>4. CASE status.how = "signaled"
    BY <2>1, <2>4 DEF ExitStatus, ExitReportsChild
  <2> QED BY <2>1, <2>2, <2>3, <2>4 DEF ExitReportsChild
<1> QED BY <1>1, <1>2, <1>3, BaseCorrect, PTL DEF Spec
===============================================================================
