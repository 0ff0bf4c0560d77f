# TLA+ models of procwatch

These modules model the parts of procwatch that move telemetry from an HTTP
request, or from a sampling round, to a row of the database: the HTTP receiver
and the writers of `procwatch-agentd`, its OTLP decoders, the classic `procwatch`
loop, the database connection they share, and the offline spill underneath both;
and the parts that produce telemetry next to the observed program: the injected
library and `procwatch-wrap`. TLC checks the modules on small instances, TLAPS
proves every safety property of the passing runs for every value of the constants.

## The system

| Component | State it keeps | Operations | Hard because |
| --- | --- | --- | --- |
| Spill buffer (`src/src/db_buffer.c`) | spill file, `.flushing`, `.rest`, `online`, last reconnect | spill, ensure, flush, maintain | a flush is a dozen file operations; a crash or an error can fall between any two |
| Connection and schema (`src/src/db.c`) | libpq connection, server session, tables, statements | connect, reconnect, ensure table, prepare, insert, drop inactive tables | a session ends without the client knowing; statements go with it; many errors `exit()` |
| agentd (`agent/agentd.c`, `agent/db_otlp.c`) | label cache, `was_offline`, counters | three writers, replay, maintenance, stop | the cache must follow session and tables; the answer to a client promises storage |
| HTTP receiver (`agent/http_server.c`) | 128 connections with buffers and parse state | tick: poll, accept, service, reap | streams are cut anywhere; one thread serves all |
| procwatch (`main.c`) | `fctx.prepared`, `was_offline`, previous CPU times | round: maintain, re-prepare, sample, write or spill | statement names are per session; runs share one spill file |
| OTLP decoding (`agent/pb_decode.c`, `otlp_*.c`) | context of a resource and its scope, scopes and containers that wait, item count | decode a request of traces or metrics | parts of a message in any order, payloads cut or corrupt anywhere, fixed arrays |
| procwatch-wrap (`wrap/wrap.c`), `/proc` scanning (`proc_scan.c`), push (`common/proc_push.c`) | SIGCHLD flag, previous CPU times | start, baseline, round, wait | the tree changes during the walk, pids come back, signals at any point, a push without a timeout |
| Injected library (`inject/*.c`) | the environment, across fork and exec | constructor, exec wrappers, start of the metric thread | it meets its own edits again, in images and processes it does not control |
| Forwarder, Python bootstrap | none between calls | forward; set up an SDK | blocking calls; third-party code |

agentd calls the receiver's tick in a loop; the receiver calls agentd's handler
for each request; the handler decodes it and calls a writer per record; a writer
inserts, or marks the agent offline and spills. Once a second agentd reconnects
and flushes the spill through its replay callback. procwatch does the same once
per sampling round. The injected library gives every process of an observed
tree a label, attributes and (for known runtimes) a tracing agent through its
environment, and starts a thread that pushes samples to agentd; procwatch-wrap
pushes samples of a command it starts. What makes the whole correct is that a record that was
acknowledged or sampled ends as exactly one row, in the table of its label, as
soon as the database is back; and that what is recorded names the process and
the label it came from.

## Modules

- `SpillQueue` is the promise of `db_buffer.h`: a FIFO queue whose oldest record
  is delivered next. With `MayRewind` a delivered batch may be offered again.
- `SpillBuffer` is `db_buffer.c` for one process. A file is the sequence of its
  lines, a record is its number. `pw_db_buf_flush` has one action per call that
  changes a file (`FlushClaim` ... `FlushDone`), with the failing variant of each
  call the code handles, and of those whose result it ignores: the rename that
  hands a claim back (`FlushHandBackFail`) and a read of the claim that fails and
  is taken for its end (`FlushReadFail`, `FlushSaveRestCut`). `Faults` says which
  of them an instance has. `Crash` can fall anywhere; `Restart` is
  `pw_db_buf_init`. `accepted`, `delivered` and `claimed` are history.
  `Backlog` is the refinement mapping: what a continued run would replay.
  `NothingLostInv` and `AtMostOnceInv` are the inductive invariants of the proofs.
- `DbLink` is the connection as agentd and procwatch share it: what the client
  believes (`online`, `link`) and what is true (`dbUp`, `alive`), with
  `pw_db_buf_ensure`.
- `Agentd` is the path of one record through `write_*`, `db_ensure_label` and
  `db_insert_*`, the replay of spilled records through the same code, and the
  main loop. The steps of the single thread are separate actions (`label`,
  `prepare`, `insert`), so a session can end between any two statements. The
  spill is the queue that `SpillBuffer` implements; a process that exits while
  replaying leaves its batch in `abandoned`, as `LossConfinedToClaim` says.
- `Procwatch` is `main.c` over the same connection: `ensure_prepared` in its
  three callers, the re-preparation, writes, replay, and several runs one after
  the other. The last sample of a round is not recorded, so that rounds go on
  forever in a finite model, but its write meets the connection like any other.
- `OtlpDecode` is the walk of `otlp_decode_traces` and `otlp_decode_metrics`. The
  payload is chosen while it is read: every loop of the code may meet another
  field, its end, or a field it cannot read. `labels`, `home`, `decoded` and
  `emitted` record what the payload said and what the sink was given.
- `TreeSampler` is one round of `snapshot_tree` and `push_tree`, and of the same
  code in `main.c`, against a process table that changes between any two reads
  of `/proc`. A process has threads (`Tasks`), and a child is in the list of the
  thread it belongs to: `Kids(t)` reads the list of one thread, and threads end and
  leave their children to others in between. One read has room for `KidsMax`
  pids (4095 bytes in the code); of a longer list it gives some, and perhaps a pid
  that is none, the digits at the cut (`Lines`). One such read is taken as one
  moment. The children of a process that exits go to a process elsewhere or to one
  above it in the tree that asked for them (a subreaper). `Wrap` is
  `procwatch-wrap` around it: baseline, rounds, SIGCHLD, push, wait. A push may
  never return.
- `Inject` is the injected library over chains of forks and execs: a process has
  an environment of the variables the library edits or looks for, the constructor
  is one action, an exec is merged as `exec_wrap.c` does or goes around the
  library. `Edits` is what programs do, in their own environment or in an envp
  they pass on: drop variables, set them to anything, to nothing (which is not the
  same as dropping them, `exec_wrap.c:44`), or append to a list. An attribute
  list has a size, that of its pids included (`Width`), and an edit that does not
  fit into `Room` is not made, as in `inject.c:80`, `118` and `121`.
- `HttpServer` is one `http_server_tick` after another. A stream consists of
  pieces; `Recv` takes any prefix of what has arrived. `conn_service` has one
  action per way it returns. A client is one that waits for each response or one
  that pipelines.
- `MC*` modules define instances, one `.cfg` per question.
- `SpillBufferProofs`, `OtlpDecodeProofs`, `AgentdProofs`, `ProcwatchProofs`,
  `HttpServerProofs`, `WrapProofs` (which is also about `TreeSampler`) and
  `InjectProofs` hold the theorems about the module of that name; `SeqLemmas` the
  facts about sequences they share.

Definitions whose comment begins with "Mutant of" are deliberately wrong
variants of the definition below them. No specification uses them; they show
that a property would notice such a mistake.

## Runs

| Run | Bounds | Shows |
| --- | --- | --- |
| `spill_queue` | 4 records, 3 faults: failing appends, claims, opens, and `.rest` that cannot be opened or closed | nothing is lost or reordered; the files implement the FIFO queue, a batch being offered again only when `.rest` cannot be written |
| `spill_crash` | 4 records, 2 faults: crashes anywhere, failing appends, claims, opens, reads, and renames of either direction | nothing is replayed twice or out of order, and only a claimed batch can be lost |
| `agentd_safety` | 3 records, 2 labels (symmetric), cache of 1, 2 losses, any spill line refused, a span the server always refuses | an acknowledged metric or span is never forgotten or multiplied; it leaves the spill only as a row |
| `agentd_liveness` | 2 records, 2 losses outside of flushes | back online; spill drained, up to a span the server always refuses |
| `procwatch_runs` | 3 samples, 2 runs, 2 labels, 3 losses, any spill line refused | no sample forgotten or multiplied; the spill drains while a run goes on |
| `http_server` | 1 slot, a client that pipelines and one that waits | responses match requests and bodies however the stream is cut; a client that waits is answered at once; a silent client's slot is released |
| `otlp_decode` | 11 fields, 2 labels (symmetric), arrays of 2 scopes and 2 containers | nothing is stored of a payload answered 400; every item has the label and scope of its own resource; only the resource at fault loses scopes |
| `wrap` | 3 pids, one of them used twice and for 1 tick the first time, 2 threads, lists of children with room for 1 pid | nobody is charged CPU time not used, or sampled twice in a round; what stays in its place in the tree and is not cut off is sampled; the wrapper ends, with the command's status, unless a push never returns |
| `inject` | 2 processes with pids of 1 and 2 digits, 2 execs or edits, 2 labels (symmetric), room for 6, given 0 or 2 attributes; environments kept, stripped, rebuilt, one variable set, emptied or appended to | the agent is added once; where there is room, a process reports its own pid and its own label; label and arming survive execs through the library; lists that do not fit are reached |

`spill_crash` leaves out that `.rest` cannot be written and the batch is handed back,
after which records may be replayed twice; `LossConfinedToClaim` holds then too
(theorem `OnlyClaimsLost`).
Where nothing fails but appends, claims and opens, both spill runs apply: the files
are then an exactly-once queue.

The bounds are the smallest at which the interesting cases happen: a batch with
a consumed and an unconsumed part and a later record (three lines), a fault in
the recovery from a fault, a second label next to a full cache, a loss after the
recovery from a loss, two requests carried over behind one another, a scope
more than the array holds in a second resource, a pid that comes back below
another parent during one walk, a list of children that is cut, a child that moves
to a thread already read, a second exec on an environment the library has
edited under another pid, attributes that fit with the one pid and not with the
other. The arrays of the decoders have 64 and 8 elements in
the code; two are enough to be full, and the proofs do not depend on the size.
`ReconnectInterval` is 2, so that both "too soon" and "again" occur;
`IdleTimeout` is 1. In the runs of `MCProcwatch`, `MCOtlpDecode`, `MCWrap` and
`MCInject` a behaviour may end, as the program does, so deadlock is not checked
there.

Three runs state what a comment or the README of the repository says and are
violated by what the code does. Each also shows why the passing run next to it
is restricted:

- `agentd_otel`: spilled OpenTelemetry metrics are never recognised by the
  replay (18 characters compared with a 17-character prefix). Hence
  `agentd_safety` speaks of the two other kinds.
- `agentd_stale_cache`: a session lost within a flush leaves a stale label cache,
  and the spill never drains unless a live write happens to fail. Hence
  `LossyFlush = 0` in `agentd_liveness`.
- `procwatch_reconnect`: a run that started offline prepares its statement twice
  on one session and exits. Hence `DrainsWhileRunning` speaks of runs that have
  not ended.

Reading the code for the models also showed the following, which the models
contain as the code has it and no run is spent on.

Spill, agent and receiver:

- the claim that is unlinked as stale after a crash (`db_buffer.c:139`) may hold
  records that were never replayed: `LossConfinedToClaim` allows the loss of a
  claimed batch and no more;
- a pipelined request that is already buffered waits for bytes that need not
  come (`http_server.c:377`): `NoRequestWaits` speaks of clients that wait for
  their responses;
- a span the server refuses every time stays at the head of the spill and blocks
  what is behind it (`agentd.c:385`): the exception in `SpillDrains`;
- a final rename that fails leaves files "for manual recovery"
  (`db_buffer.c:215`) that the next flush unlinks (`FlushNothing`), and so does a
  claim that could not be handed back, although it was to be put back "so data is
  not lost" (`db_buffer.c:149`); a read error of the claim is taken for its end,
  and what was not read is unlinked with it (`db_buffer.c:162`);
- a session that ends while a label is set up ends the agent (`LabelTables`,
  `Setup`);
- a record the spill refused is still answered 200 (`WriteSpill`, `refused`);
- more labels in the spill than the label cache holds block it: the bound of
  `agentd_liveness` is a cache with room for both labels;
- a replay files samples under the label of the run that replays them;
- a method other than POST is answered 200 although `http_server.c:168` speaks
  of 405 (`Kinds`, `Status`).

Decoding:

- a corrupt tag ends a message like its last byte, so a payload that is garbage
  throughout is answered 200 with nothing stored, where `otlp.h:36-38` speaks of an
  error (`RequestEnd`);
- a field that cannot be read costs the scopes that are buffered for its
  resource although they were read before it (`otlp.h:37` promises "the spans
  decoded before the bad field"): `EarlierScopesKept` excludes that resource;
- a scope without a name is stored under the name of the scope before it in the
  same resource: `OwnContext` speaks of scopes that have given theirs;
- more than 8 containers of a metric are dropped.

Sampling and injection:

- sampling by procwatch-wrap ends at any SIGCHLD, also when the command is only
  stopped or an adopted orphan ends; the command itself is still waited for;
- a process that hangs below the command for the whole walk is missed when the list
  of children it is in is cut at 4095 bytes (`proc_scan.c:266`), or when it moves from
  a thread that is still to be read to one that was (its thread ends, or its parent
  does and a subreaper gets it), where `wrap.c:7` speaks of "one /v1/procmetrics
  sample per live pid under that root": the conditions of `StableSampled`;
- a push that is never answered holds the wrapper for ever (`proc_push.c:295`): the
  premise of `WrapperEnds`;
- a child whose pid is reused between the reads of `children` and `stat` is
  sampled whoever has the pid by then;
- an environment that a program rebuilds loses the variable that switches
  injection off, which is not among the kept ones (`exec_wrap.c`);
- an image reports the pid of the process it got its environment from when the list
  with its own pid does not fit the buffer (`inject.c:118`, `121`), where the comment
  at line 85 speaks of replacing it "rather than leaving a stale one behind": `roomy`
  in `OwnPidKey` and `LabelAgrees`;
- a program that gives its successor another label leaves the old `procwatch.label`
  in the attributes, and the constructor, which only looks whether there is one
  (`inject.c:74`), leaves it too, so that spans go to one label and samples to
  another; the comment at line 87 says the value "cannot change across a re-exec":
  `relabelled` in `LabelAgrees`;
- an attribute of a program whose key ends in `procwatch.label` is taken for the
  label, and the label is then not attached (`inject.c:74`): the other condition of
  `LabelAgrees`;
- a variable that a program passes on empty is not put back (`exec_wrap.c:44`), so
  `LD_PRELOAD=` or `PROCWATCH_LABEL=` in an envp end the watching, as does a
  program that changes or clears them in its own environment, from which the exec
  wrappers take what they put back: the conditions of `LabelSurvives` (`kept`);
- a metric thread that cannot be created is not tried again
  (`metrics_thread.c:77-82`), so `LabelSurvives` does not promise a thread;
- a service name derived from the first image is inherited by its children;
- a forked process has neither thread nor constructor: it is not sampled, and its
  spans carry its parent's `procwatch.pid_key`;
- constructor and thread take the time of a pid key on their own and may differ
  by a second (`inject.c:143-156`, `metrics_thread.c:35`);
- `parse_stat` (`proc_push.c:58-87`) starts at the state letter, so utime and stime
  read as 0 and the CPU share of injected processes is always 0, where
  `README.md:197` describes it as measured. Values are not in the model.

## Fairness

- `Agentd`: the single thread always goes on with what it is doing; maintenance
  is due once a second and time passes; after an exit systemd starts the unit
  again (`Restart=on-failure` in `deploy/systemd/procwatch-agentd.service`).
  The server comes back after every outage, which is the premise of every
  "once the database is back". Losses are finitely many. In `agentd_liveness`
  they fall outside of flushes (`LossyFlush = 0`): `agentd_stale_cache` shows why
  this is needed.
- `Procwatch`: the loop goes on, the server comes back. Nobody restarts the
  program, so its liveness only speaks of runs that have not ended.
- `HttpServer`: agentd calls the tick again and again, and seconds pass. Nothing
  is assumed of clients.
- `Wrap`: its one thread goes on. That a push returns is not assumed: `connect` and
  `recv` (`proc_push.c:276`, `295`) have no timeout and are restarted after a signal,
  so it is up to the agent. `WrapperEnds` therefore has the premise that the wrapper
  does not stay in one push for ever: an agent that accepts and never answers
  holds the wrapper, and nothing else does.
- `OtlpDecode` and `Inject` have no liveness property.

## Proofs

Every invariant and every action property of a passing run, and the refinement of
the spill, is a theorem: it holds for all numbers of records, labels, clients, pids,
execs, losses and faults, and for all sizes of arrays and caches. The assumptions are
the named `ASSUME`s of the modules (sizes are natural numbers, what stands for
"absent" is not a label, and the like); a theorem that needs more says so in its own
`ASSUME`. A `TypeCorrect` is the base of the other theorems of its module, and
states the bounds of the program's fixed arrays: label cache, connection slots,
scopes and containers.

Few of the properties are inductive. Each proof therefore strengthens its property,
shows that the stronger one holds at first and after every action, and that it
implies the property. What was missing, by module:

- **`SpillBufferProofs`**
  - `NoRecordLost` (`NothingLost`, without crashes, read errors and failing renames
    behind a claim).
    `NothingLost` does not say that the spill file is empty while a batch is claimed,
    without which `HandBack` would overwrite records, nor that an unfinished claim is
    still the end of what was accepted, without which handing it back would not
    restore the order. `NothingLostInv` adds both; `BacklogCases` and `DrainBacklog`
    say what the backlog is at each step of a flush.
  - `ReplayedAtMostOnce` (`AtMostOnceInOrder`, if `.rest` can be written, crashes and
    failing renames included). `AtMostOnceInv` adds that every number seen is below
    the next one, that the spill file is empty while a batch is claimed, and that a
    claim which is handed back is untouched.
  - `OnlyClaimsLost` (`LossConfinedToClaim`, whatever fails). `LossInv` adds that
    the spill file is empty from a claim to its restore, so that a claim which is
    handed back overwrites nothing.
  - `FilesImplementQueue` (`ImplementsQueue`, under the assumptions of
    `NoRecordLost`): each action on the three files is shown to be one action of
    `SpillQueue` under the mapping `Backlog`, or to leave the mapped state alone. It
    needs `NothingLostInv`, and that a claim which cannot be opened has not been read
    (`UnreadWhenClaimed`): handing it back is then invisible to the queue.
- **`AgentdProofs`**
  - `AcceptedIsKept` (`AckedKept`) and `LinesBecomeRows` (`ConsumedMeansStored`), if
    no record is an OpenTelemetry metric: `agentd_otel` shows why. `HandInv` adds that
    the record at hand during a replay is the head of the spill; otherwise dropping
    the head would drop a record that was not written.
  - `RetriesBounded` (`CopiesBounded`). `CopyInv` counts: the rows of a record, its
    lines in the spill and the write under way are together at most one more than the
    inserts of it whose reply was lost.
- **`ProcwatchProofs`**: `NoSampleForgotten` (`SamplesKept`) and `RetriesBounded`
  (`CopiesBounded`), by the same two invariants over any number of runs.
- **`HttpServerProofs`**
  - `FramingIsExact` (`AnswersMatchRequests`) and `WholeRequestsServed`
    (`NoRequestWaits`). `ConnInv` speaks of what a client has written and the server
    has not consumed, `c->buf` followed by the kernel's buffer: it begins with the
    first piece of the request whose turn it is, and of any two of its pieces the
    later one is as far behind the earlier as its distance says (`Framed`). A recv
    does not change this stream, a write appends to it, an answer takes exactly one
    request off it. It also says that a parsed header is that of the request whose
    turn it is, and that a client that waits has less than that request in `c->buf`.
    `ReadyInv` adds that what poll reported is still open when it is served.
- **`OtlpDecodeProofs`**
  - `Refused` (`RefusedLeavesNothing`). `DecodeInv` adds that the count is the number
    of items given to the sink.
  - `InOwnContext` (`OwnContext`). `OwnContext` is about items that were given to the
    sink long ago; a later label could only falsify it for an item of the same
    resource. `ContextInv` says that this cannot happen: context, waiting scopes and
    the scope that is walked belong to the last resource, and while its label may
    still change no item of it has come from a buffered scope.
  - `FaultCostsLastResource` (`EarlierScopesKept`). `ScopeInv` adds that walked,
    waiting and current scopes are disjoint, without repetition, and all there are
    until the walk is over.
- **`WrapProofs`**
  - `SampledOnce` (`OncePerRound`): the queue of the walk has no pid twice and the
    samples are of its visited part (`WalkInv`).
  - `TreeCovered` (`StableSampled`): the processes that stay for the whole walk and
    are not cut off are closed under parents up to the command (`StableInv`), and one
    that is not queued yet hangs from a thread that was not read yet, of a process
    that is visited later or now (`ReachInv`). That none is left at the
    end follows since no set of processes holds the parents of all of its members:
    `NoCycle` says so of the tree, which spares an induction over its depth, and is
    kept by a subreaper since it is above the process whose children it gets.
  - `ChargedWithinUse` (`NeverOvercharged`): for each pid, what its present process
    was charged is at most what `prev[]` holds, and that at most what it used, unless
    nothing was charged yet; the same with the samples of the round that are still
    to be charged (`ChargeInv`).
  - `EndsAsChild` (`ExitReportsChild`).
- **`InjectProofs`**
  - `AgentAddedOnce` (`AgentOnce`).
  - `ReportsOwnPid` (`OwnPidKey`) and `AttributesNameLabel` (`LabelAgrees`), by
    `AttrInv`: in every process, instrumented or not, there is at most one label in
    the attributes, and until somebody changes the label it is that of the
    environment. It must be said of images without the library too, since their
    environment is what the next one starts from. Of an image whose constructor had
    room for its three edits it adds what the edits made. They are followed
    one by one (`SameBut`): an edit does not disturb the keys of the others.
  - `LabelOutlivesExec` (`LabelSurvives`), by `SurvivalInv`: a process on whose way
    the library was left to do its work has in its environment all that the next exec
    needs.
  - `Steps` says once what a step of the specification is for one process; the
    invariants are then shown of one process at a time.

Only model-checked are the liveness properties `BackOnline`, `SpillDrains`,
`DrainsWhileRunning`, `SlotReleased` and `WrapperEnds`, which are out of the prover's
reach, and the three disagreements, which are counterexamples.

## Not modelled

- The content of records: JSON escaping and extraction (but for whether the server
  accepts a record), values and times in OTLP messages, label validation, table
  names cut at 63 characters, the text of `/proc` files.
- Torn lines in the spill file. Two processes on one spill file.
- Retention policies and triggers; the inactivity job drops a table whenever it
  likes, so `-T` and its recreation make no difference to the model.
- The loop of the injected metric thread; variables that only get a default; a
  `PROCWATCH_AGENT_DIR` that changes on the way (the agent would then be added under
  its other path); the
  readers of `proc_scan.c` that have no caller in a sampling round.
- The forwarder: it keeps nothing, its result is ignored, and the delay it causes
  has no counterpart in models without real time.
- A failing `http_server_init`, running out of memory. The Python bootstrap,
  deployment files, examples.

## Plan

1. `SharedSpill`: two processes on one set of files, with names and inodes apart,
   for the races between claim, unlink and append; then torn lines.
2. `Housekeeping`: tracker rows, `-T` and the recreated job; table names cut at 63
   characters.
3. Proofs about what 1 and 2 add: for `SharedSpill`, which of the theorems about
   one process remain true of two.
