-------------------------------- MODULE Wrap --------------------------------
(***************************************************************************)
(* procwatch-wrap (src/src/wrap/wrap.c): it starts the command, samples    *)
(* the tree below it in rounds until a SIGCHLD has arrived, then waits for *)
(* the command and ends with its status.                                   *)
(*                                                                         *)
(* SIGCHLD arrives when the command ends, when it is stopped or continued  *)
(* (the handler is installed without SA_NOCLDSTOP) and, when the wrapper   *)
(* is the first process of a container, when an orphan it was given ends.  *)
(* A sample is pushed over a blocking connection without a timeout         *)
(* (src/src/common/proc_push.c); what the agent answers is ignored.        *)
(***************************************************************************)
EXTENDS TreeSampler

VARIABLES
  dead,      \* g_child_dead
  skipPush,  \* the baseline round is not pushed
  status,    \* wait status of the command
  exitCode   \* of the wrapper

main == <<dead, skipPush, status, exitCode>>
vars == <<table, pc, walk, account, stable, main>>

Running == [how |-> "running"]
Ended == [how : {"exited", "signaled"}, n : {9}]
NoCode == 256

TypeOK ==
  /\ TreeTypeOK
  /\ pc \in {"start", "stat", "kids", "account", "push", "loop", "wait", "exited"}
  /\ dead \in BOOLEAN /\ skipPush \in BOOLEAN
  /\ status \in Ended \cup {Running}
  /\ exitCode \in 0..NoCode

Init ==
  /\ TreeInit
  /\ pc = "start"
  /\ dead = FALSE /\ skipPush = TRUE /\ status = Running /\ exitCode = NoCode

-------------------------------------------------------------------------------
(***************************************************************************)
(* What happens to the processes, with the signals it sends the wrapper.   *)
(***************************************************************************)
OtherStep == Processes /\ UNCHANGED main

OtherExits(p) ==
  /\ p # Root
  /\ Exit(p)
  /\ dead' \in {dead, dead \/ parent[p] = Outside}
  /\ UNCHANGED <<skipPush, status, exitCode>>

ChildExits ==
  /\ Exit(Root)
  /\ status' \in Ended
  /\ dead' = TRUE
  /\ UNCHANGED <<skipPush, exitCode>>

(* Of a stop and of a continuation. *)
ChildStops ==
  /\ st[Root] = "run"
  /\ dead' = TRUE
  /\ UNCHANGED <<table, pc, walk, account, stable, skipPush, status, exitCode>>

-------------------------------------------------------------------------------
(***************************************************************************)
(* main and push_tree.                                                     *)
(***************************************************************************)
Baseline ==
  /\ pc = "start"
  /\ WalkBegin
  /\ UNCHANGED main

(* parse_cpu_totals fails: there is no baseline, and no entry in prev[]. *)
NoBaseline ==
  /\ pc = "start"
  /\ pc' = "loop" /\ skipPush' = FALSE
  /\ UNCHANGED <<table, walk, account, stable, dead, status, exitCode>>

(* The seconds between rounds are over and the flag is still down. *)
Round ==
  /\ pc = "loop" /\ ~dead
  /\ WalkBegin
  /\ UNCHANGED main

WalkStep == Walking /\ UNCHANGED main

AccountNode ==
  /\ Account
  /\ pc' = IF skipPush THEN "account" ELSE "push"
  /\ UNCHANGED main

(* pw_push_sample returns, whatever the agent answered; connect and recv   *)
(* wait without a timeout, so it may as well never return.                 *)
Pushed ==
  /\ pc = "push"
  /\ pc' = "account"
  /\ UNCHANGED <<table, walk, account, stable, main>>

(* Mutant of RoundEnd: a round ends with the flag lowered. *)
RoundEndLowersFlag ==
  /\ pc = "account" /\ i > Len(nodes)
  /\ pc' = "loop" /\ queue' = <<>> /\ at' = 1 /\ nodes' = <<>> /\ i' = 1
  /\ unread' = {} /\ stable' = {}
  /\ skipPush' = FALSE /\ dead' = FALSE
  /\ UNCHANGED <<table, known, prev, charged, status, exitCode>>

RoundEnd ==
  /\ pc = "account" /\ i > Len(nodes)
  /\ pc' = "loop" /\ queue' = <<>> /\ at' = 1 /\ nodes' = <<>> /\ i' = 1
  /\ unread' = {} /\ stable' = {}
  /\ skipPush' = FALSE
  /\ UNCHANGED <<table, known, prev, charged, dead, status, exitCode>>

LoopEnds ==
  /\ pc = "loop" /\ dead
  /\ pc' = "wait"
  /\ UNCHANGED <<table, walk, account, stable, main>>

(* WEXITSTATUS, or 128 and the signal. *)
ExitStatus(s) ==
  CASE s.how = "exited" -> s.n
    [] s.how = "signaled" -> 128 + s.n
    [] OTHER -> 1

(* Mutant of Wait: waitpid with WNOHANG. *)
WaitNoHang ==
  /\ pc = "wait"
  /\ IF st[Root] = "zombie" THEN Reap(Root) ELSE UNCHANGED <<st, parent, task>>
  /\ exitCode' = ExitStatus(status) /\ pc' = "exited"
  /\ UNCHANGED <<used, walk, account, stable, dead, skipPush, status>>

(* waitpid returns only once the command has ended. *)
Wait ==
  /\ pc = "wait"
  /\ Reap(Root)
  /\ exitCode' = ExitStatus(status) /\ pc' = "exited"
  /\ UNCHANGED <<used, walk, account, stable, dead, skipPush, status>>

Wrapper ==
  \/ Baseline \/ NoBaseline \/ Round \/ WalkStep \/ AccountNode \/ RoundEnd
  \/ LoopEnds \/ Wait

(* Until the wrapper has ended. *)
Environment ==
  /\ pc # "exited"
  /\ \/ OtherStep
     \/ \E p \in Pids : OtherExits(p)
     \/ ChildExits
     \/ ChildStops

Next == Environment \/ Wrapper \/ Pushed

(* The wrapper is one thread and runs; that a push returns is up to others. *)
Spec == Init /\ [][Next]_vars /\ WF_vars(Wrapper)

-------------------------------------------------------------------------------
(***************************************************************************)
(* The wrapper ends only after the command has, and with the status a      *)
(* shell would give for it, whichever SIGCHLD made it leave the loop (main *)
(* lines 249 to 254).                                                      *)
(***************************************************************************)
ExitReportsChild ==
  pc = "exited" =>
    /\ st[Root] = "free"
    /\ \/ status.how = "exited" /\ exitCode = status.n
       \/ status.how = "signaled" /\ exitCode = 128 + status.n

(***************************************************************************)
(* When the command has ended the wrapper notices, finishes the round it   *)
(* is in and ends too, at whatever point of a round the signal came (the   *)
(* flag is only ever raised, wrap.c lines 29 to 32 and 239 to 245), unless *)
(* a push never returns (proc_push.c line 295): nothing else can hold it.  *)
(***************************************************************************)
WrapperEnds == []<>(pc # "push") => (st[Root] = "zombie" ~> pc = "exited")
===============================================================================
