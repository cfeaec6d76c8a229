# Vere, checked: the runtime of an Urbit ship

Urbit's runtime, Vere, runs a ship as two processes. The *king* (`src/pkg/urbit/vere`,
`src/pkg/urbit/daemon`) owns the event log and talks to the world; the *serf*
(`src/pkg/urbit/worker`, over `src/pkg/urbit/noun`) computes events with the Arvo kernel
and keeps snapshots of its memory. A ship is the result of applying its events in order.
Everything else follows from four rules:

1. the log is a sequence of events without a gap, and no event in it ever changes;
2. nothing an event causes is shown to the world before the event is in the log;
3. the snapshot is a state that a prefix of the log leads to, whole or not there at all;
4. after any crash, the snapshot and the rest of the log rebuild the kernel that was running.

No single function keeps any of them. Each depends on three parties (the main loop, the log's
worker thread, the serf) whose answers arrive in any order, and on what survives when one of
them stops. Around this pipeline stand the drivers, which turn what libuv, h2o and clients do
into events and effects back into calls; under it stands the noun runtime, whose memory,
jets, codecs and interpreter must compute what Nock and the Hoon library say.

This directory models that machinery in TLA+, checks it with TLC on small instances, and
proves the four rules for the whole ship, and the invariants of the log, the two processes, their
pipes, the snapshots and most drivers, with TLAPS for all instances.

Paths below are relative to `src/pkg/urbit/` unless they start with `src/`.

## 1. Inventory

### 1.1 What is modelled

| component | code | state | operations |
|---|---|---|---|
| event log | `vere/disk.c`, `vere/db/lmdb.c` | LMDB database; `sen_d`, `dun_d`; the queue `put_u`; the batch `_cd_save`; the reads `red_u` | open, plan, boot plan, save metadata, commit, the thread's write, commit done/bail, read, close |
| lord | `vere/lord.c` | `eve_d`; the queue of writs; live or not | init, plan a writ of each type, each plea, bail, halt, exit |
| serf | `worker/serf.c`, the dispatch in `daemon/main.c` | the kernel `u3A->roc`, `ent_d`, the checkpoint | ripe, work, peek, play, save, cram, pack, meld, exit |
| pier, replay | `vere/pier.c`, `vere/save.c` | `sat_e`; replay `pay_u`; effects `fec_u`; walls `wal_u`; scries `pec_u` | boot, stay, play, wyrd, work loop, gifts, walls, exit, bail, save timer |
| king (in part) | `vere/king.c` | one pier | boot or stay; the exit on SIGTERM |
| IPC framing | `vere/newt.c` | the message in progress `mes_u`, the queue, its timer | send, read, decode, deliver, timer, end, stop |
| snapshots | `noun/events.c`, `noun/urth.c` (meld) | loom pages with dirty bits, two images, a patch of two files | fault, save (compose, sync, apply, sync, delete), live (recover, load) |
| driver framework (in part) | `vere/auto.c`, `vere/ward.c`, the cap in `vere/io/ames.c` | per driver a doubly linked list of ova and a count | plan, redo, next, drop, done, bail, cap |
| timers | `vere/io/behn.c`, `arvo/sys/vane/behn.hoon` | one libuv timer, `alm_o`; the vane's timers and the wakeup it believes in | alarm, %born, %wake and their retries, %doze, crash |
| network (in part) | `vere/io/ames.c` | a galaxy's address and its age, lookups; lane cache, packets held for scries, `foq_d` | send, look up, forward, scry, age |
| HTTP server (in part) | `vere/io/http.c` | servers, connections, requests with their generators, the handles being closed | configure, accept, request, respond, continue, slog stream, cancel, time out, close, free, exit |
| HTTP client (in part) | `vere/io/cttp.c` | requests by number, lookups, h2o clients, the answers planned | request, cancel, resolve, connect, head, body, fail |
| control socket (in part) | `vere/io/conn.c` | channels, requests in progress and their channel | connect, %peek, %ovum, %fyrd, %peel, answers, close, free |
| memory (in part) | `noun/allocate.c`, `noun/manage.c` | roads, boxes, free lists, use counts, the stack | allocate, free, fall, leap, take, unify, signal, pack |
| hash tables (in part) | `noun/hashtable.c` | a trie of nodes and buckets, the clock's arm | put, get, delete, trim |
| Nock (in part) | `noun/nock.c` | bytecode, one stack, call sites, memos | compile, every bytecode operation |
| jets (in part) | `jets/a` to `jets/d`, `noun/imprison.c`, `retrieve.c`, `xtract.c` | none | some sixty jets and the arms they stand for |
| serialisation (in part) | `noun/serial.c`, `ur/serial.c`, `ur/bitstream.c` | a cursor into a buffer; a stack and a dictionary | write and read of bits; three packers and five unpackers |

How they interact: the pier calls the log and the lord; the log calls back from its thread's
completion and from timers; the lord calls back on each message of the serf, and on the end of
the pipe or of the process. Drivers plan ova, which the pier takes in batches; the events' effects
come back to them when they are durable. The king's code is one libuv loop, so that each callback
runs to its end; concurrency is between the loop, one write in libuv's thread pool, the serf,
and the outside.

What is hard: events are planned while a batch is written; durability, computation and release
move three different counters; a snapshot must wait for all three; replay is cut twice, into
reads and batches; messages to and from the serf are matched by order alone; answers come to
clients that have left, for requests that were cancelled, from servers that were replaced; memory
is freed by callbacks of a later turn; and any of the parties may disappear at any moment.

### 1.2 What is not modelled, and why

| component | code | why, and what stands for it |
|---|---|---|
| terminal, files, injection | `vere/io/term.c`, `unix.c`, `fore.c`, `hind.c`, `vere/foil.c` | mostly terminal control and walks of a file tree |
| command line, download, key checks | `daemon/main.c`, `vere/king.c`, `vere/dawn.c`, `vere/time.c` | one-shot and sequential |
| the jet registry, the other jets | `noun/jets.c`, `jets/e`, `jets/f`, `jets/tree.c` | registration is a table; parsers, cryptography and floating point are each a project |
| hash-consing | `ur/hashcons.c` | candidate for a later module |
| Arvo, vanes, userspace, web, the Haskell runtime | `src/pkg/arvo`, `src/pkg/landscape`, `src/pkg/hs`, ... | run inside the serf as a pure function of the event, or are other programs; of the vanes, `behn`, and of `iris` and `eyre` what they say to their drivers, stand in the drivers' modules |
| vendored libraries | `src/pkg/urcrypt`, `src/pkg/ent` | not this project's code |

`PROJECT.json` lists every component with its status, and under `hazards` every place of this
code where something can go wrong that a test would hardly reach, with the properties that
cover it.

## 2. The modules

```
 Events            what an event is, how many there may be
   |-- EventLog    abstract: an append-only log     <-- implemented by Disk
   |-- Disk        queue, thread, LMDB              --- DiskProofs
   |-- Lord        king's lord, pipes, serf         --- LordProofs
   |-- Replay      the replay queue, a pure value
   '-- Ship        abstract: log, effects, checkpoint
 Pier = Disk + Lord + Replay, composed              --- PierSteps, PierProofs
                                                    --> implements Ship
 Newt              one pipe: writer, bytes, reader  --- NewtProofs
 Checkpoint        abstract: one atomic checkpoint  <-- implemented by Snapshot
 Snapshot          images, patch, files, failures   --- SnapshotProofs

 Ova               abstract: queues of ova          <-- implemented by Auto
 Auto              the drivers' linked lists          --- ClockProofs
 Behn, Ames        timers, network                  --- ClockProofs
 Http, Cttp, Conn  HTTP server, client, control     --- DriverProofs

 Nouns             nouns, crashes, punts
   |-- Words       words and big numbers
   |-- Arms        the Hoon library, as reference
   |-- BitJets, ListJets --> Jets                   jets against arms, by class of sample
   |-- TreeJets    treaps                           against sets and maps
   |-- Bitstream --> Streams                        bits written and read back
   |-- Codecs      jam and cue, in every version    against +jam and +cue
   '-- Bytecode --> Nock                            compiler and machine, against Nock
 Hamt              hash tables and caches           against functions
 Loom              roads, boxes, use counts

 MC*               instances for TLC
```

`Lord` takes a pipe as a queue of whole messages of which a death loses a suffix. `Newt` is what
justifies it (`MessagesInOrder`, `MessagesArrive`).

`Pier` takes the checkpoint as one variable, `snap`, that `SerfKeep` replaces in a single step.
`Snapshot` is what justifies it: it shows that the many system calls of a save amount to one
atomic replacement (`CheckpointSpec`). In `Pier` a driver is an arbitrary next ovum; the
drivers' modules take the pier as an arbitrary sequence of answers and effects.

Operators whose names begin with `Disk`, `Lord` or `Serf` are steps that `Pier` composes; each
component also has a specification with an arbitrary client (`DiskSpec`, `LordSpec`), so that it
is checked, and proved, against more than `Pier` would ask of it; with their fairness these are
`DiskLive` and `LordLive`. `MCParts` puts both, and `Newt`, into one run. Definitions marked `Faulty:`
belong to mutants. `map` in `PROJECT.json` gives the source lines of every definition.

### 2.1 Disk

`db` is the LMDB table `EVENTS`, `meta` how many of the four metadata keys are saved, `sen` and
`dun` are `sen_d` and `dun_d`, `put` the queue, `req` the batch, `red` the reads. `ted` is the
libuv work request: `idle`, `queued` (can still be cancelled), `running` (cannot), `good` or
`bad` (finished, callback due). `open` says whether a process has the log: `closed`, `live`, or
`hung`, where `u3_disk_exit` spins in `uv_cancel`.

| action | code |
|---|---|
| `DiskPlan`, `DiskBoot` | `u3_disk_plan`; `u3_disk_boot_plan` and `u3_disk_boot_save` |
| `DiskCommit` (in both, and in `DiskCommitDone`) | `_disk_commit`, `_disk_batch`, `_disk_commit_start` |
| `DiskThreadStart`, `DiskThreadSave`, `DiskThreadFail` | the pool takes the work; `_disk_commit_cb`; a failed transaction |
| `DiskCommitDone` | `_disk_commit_after_cb`, `_disk_commit_done` |
| `DiskRead`, `DiskReadStart`, `DiskReadClose` | `u3_disk_read` and its two timers |
| `DiskSaveMeta`, `DiskExit`, `DiskOpen`, `DiskCrash` | `u3_disk_save_meta`, `u3_disk_exit`, `u3_disk_init`, death |

A job is a model value: serialisation and mugs are left out. `write_done_f` runs *inside*
`_disk_commit_done`, between the acknowledgement and the trim, and may start reads: hence the
parameter `rd` of `DiskCommitDone`.

### 2.2 Lord

`god`, `eve`, `writs` are the king's; `inn` and `out` the two pipes; `serf`, `core`, `snap` the
worker's: whether it runs, the jobs its kernel has computed, those in the checkpoint. A kernel
*is* the sequence of jobs it has computed: that is all that tells kernels apart here. `fault`
records the assertion that ended a serf. One action per writ in the serf, one operator per plea
in the king. `%work` ends in one of three ways: `done`, `swap` (the event failed, the `%crud`
that reports it succeeded and is the event that is logged) and `bail` (both failed; nothing is
logged and the number is not used). A dead king leaves an orphan that goes on with what is in
its pipe; a dead serf leaves answers in the pipe of which the king may still hear some prefix.
A replay may fail (`ReplayFails`); the king ends the lord when it hears of it, and a batch that
was already in the pipe meets the serf's assertion on the order of events (fault `"order"`).

`MaxWord` stands for 2^64 - 1: `EveAfter` subtracts one where `lord.c:462` does, which wraps.

### 2.3 Replay and Pier

`Replay` is the queue of read-ahead events as a record and pure operators on it; how many
events a read asks for, which a batch takes, and when neither is due are translated with the
code's own fenceposts (a batch is one longer than its limit, `pier.c:888-905`).

`Pier` is the king's main loop: each callback of the log or the lord, each turn of the loop and
each call from the outside is one action, with everything the code calls from it. In particular
`PierWork` is all of `_pier_work`: release effects, pass a wall, send a batch. An assertion of
the king that fails is an `Abort` that records which. `sat` is `sat_e`; `"gone"` is `u3_psat_done`
after `_pier_exit` has freed the log, which the code tells by its null pointer. `effs` is a
history of all effects ever released, across processes: the world's view.

`KingCrash` leaves the serf to die on its own and a new king starts only then: the code relies
on the orphan's having ended (there is a lock file for the king and none for the serf).

### 2.4 Snapshot

Page contents are the number of the event that last stored to the page. Every system call of
`u3e_save` and `u3e_live` that changes a file is a step; `img` is what processes see, `dsk` what
is on the platter, `jrn` the states that the directory may go back to. Two kinds of failure:

- *kill*: the process ends, at a step or within a write, that may leave a part of one page (`Bad`);
- *power*: the machine stops. Every page not synced is old, new or `Bad`; a patch file not synced
  is whole or not; the unsynced steps on the directory are undone from the newest on.

Assumed: a 31-bit mug that matches means the page is right; the filesystem orders directory
operations and an `fsync` of any file commits those before it (as journalling filesystems do);
the heap and the stack do not share a page (the runtime keeps a gap); every event stores to the
home road's page; a page that enters a segment is stored to. Left out: the one-off copy
`_ce_backup`, and a full disk (short writes are not noticed by the code, `events.c:701`).

`Fates` says which kinds of failure one behaviour may mix. The promise is for one kind at a time
(`OneFate`, section 4.7): with both, it fails, as section 6 tells.

### 2.5 Newt

One direction of one pipe. `wire` is the bytes in it, `buf` what is left of the buffer of a read,
`sat`, `hed`, `len`, `tal` the message in progress (`mes_u`), `ext` the queue of whole messages,
`tim` its timer, `got` what `pok_f` was called with. `ReadSome` takes any number of bytes, `DecodeHead`
and `DecodeTail` are one iteration each of the loop of `u3_newt_decode`, `Deliver` is what follows
it: everything (`u3_newt_read_sync`, the serf) or one message and a timer (`u3_newt_read`, the
king). `bal_f` stops the stream in all three clients of newt, hence `Dispose` wherever it is
called. A header is a byte of zero and four bytes of length, as in the code; how many values a
byte has is a constant, and every message is assumed to fit (`u3_newt_send` would truncate the
length of one of 2^32 bytes or more). Left out: failed system calls and the status report.

### 2.6 Ova and Auto

`Auto` has ova as cells of a heap (`egg`), with null as 0, and for each driver the two ends of its
list and its count, `ext`, `ent` and `dep`. A freed cell is used again, as `malloc` would.
`PlanHeap`, `RedoHeap`, `DropHeap` and `NextHeap` are the pointer writes of `u3_auto_plan`,
`u3_auto_redo`, `u3_auto_drop` and `u3_auto_next`, with their `Car` halves for the driver's record;
`Capped` is `_ames_cap_queue`, whose loop has the turns `CapStep`, which read the next pointer before
a drop. A batch
(`SendStart`, `SendOne`, `SendEnd`) walks the chain of drivers depth first and nothing else runs in
it. `Ova` is what this should mean: a first in, first out queue for each driver, a retry in front,
and only ames' oldest packets ever forgotten,
as many as the limit asks for (`OnlyOldest`). Left out: the contents of ova, printing, reports.

### 2.7 Behn and Ames

`Behn` composes the driver and its vane. The vane's `EmitDoze`, `SetUnixWake`, `Born`, `Wait`,
`Rest`, `Wake`, `CrudWake` are the arms of `behn.hoon`; the driver's `TimeCb`, `OvumDone`, `OvumSwap`,
`OvumBail` and `EfDoze` are `_behn_time_cb`, `_behn_born_news`, the two bails and `_behn_ef_doze`. A
`%doze` waits in `gifts` for its event to be durable (`Kick`); a `Crash` loses some of them. `None` is
no alarm, `Backstop` the ten minutes that are armed when a timer goes off. libuv's clock is cut to
whole milliseconds, so that an alarm may go off one tick early.

`Ames` follows one galaxy and one other ship. `imp` is the galaxy's address with its age, or
`"none"`, `"gone"`; `asks` its lookups under way; `panc`, `peeks` and `foq` the packets held for
`%forward-lane` scries, the scries in flight and `foq_d`; `lax` the cached lanes with their age; `see`
and `saw` the flags that switch scrying off. Ages stop at the limit they are compared with. Left
out: the socket's set-up, packets' contents, the filters of `_ames_hear`.

### 2.8 Http, Cttp and Conn

`Http` is `http.c` against h2o and %eyre, which are external and may do what their interfaces
allow in any order. `htp` is the list of servers, `serv` the servers, `hreq` the requests by duct
(server, connection, number), each with its state `sat_e`, its generator (`ans`, `red`, `dun`,
`bod`), and what h2o was given (`sent`); `eyre` is what %eyre was told of each. Handles are closed in
two phases as in libuv: `closing` collects what a turn closes, `running` what the end of the turn calls
back. `fault` records a use of freed memory or a double free, which the code does commit in
some orders (section 6); what the properties say is said of behaviours up to that point.

`Cttp` is `cttp.c` against %iris, libuv's resolver and h2o's client. `effs` are effects not yet
heard, `ceq` the list of requests, `adr` lookups under way, `cli` h2o's clients and what they call
next, `plan` the answers planned; `came` counts the pieces of a body that came. A callback whose
request is no longer in the list would follow a pointer to freed memory: `IrisIsAnswered` says that
there is none (`Held = adr \cup DOMAIN cli`).

`Conn` is `conn.c` against its clients, the lord and %khan. `chan` has the channels, with the
list `ran` of a channel's requests and what was sent; `req` the requests with the channel they point
to, `can`; `san` the list of open channels; `dones` those whose end %khan will hear of.

### 2.9 The library of nouns

`Nouns` has nouns as nested tuples and the three ways in which a computation fails. `Words` cuts
atoms into words of `2^WordBloq` bits, with an immediate form (a *cat*) for those that fit. `Arms` says
what the Hoon library says. `BitJets` and `ListJets` are loops over words or lists as in `jets/a` to
`jets/c`; `Jets` draws a sample from each class of samples and runs every jet on it, against its
arm. `TreeJets` builds, changes and combines treaps under two orders of mugs, one with collisions.
`Bitstream` and `Streams` write values of any width and read them back beyond the end. `Codecs` has
+jam and +cue on bits, and the runtime's loops with their stacks and dictionaries.

`Bytecode` compiles formulas to operations and operations to bytes, with their widths; `Nock` is
the machine: one stack for subjects, products and frames, call sites that remember a program, a memo.
It is checked against Nock's own definition, `Mink`, with the differences that section 6 lists. `Hamt` is the hash table with its clock. RECURSIVE
operators are in these modules only, since nothing is proved in them.

`Loom` is the memory: roads that grow towards each other, boxes with their sizes at both ends, free
lists by size, the cells' own list, use counts, and the walks that copy a product to an elder road
(`take`), unify equal nouns, recover from a signal and pack a road. A noun is 0 for any direct atom or
the address of a box. What a road allocates for its tables is left out, and with it what
`_ca_reclaim_half` could reclaim; signals arrive between operations only; a want of memory ends a
computation (`Recover`).

## 3. What is checked

All runs finish within five minutes on two workers. `CHECK_DEADLOCK FALSE` is set in all of them
but `nouns`, whose machine may not stop before its computations do: a ship may be shut down, a
driver may have nothing to do, and an instance stops at its bound.

| run | question | distinct states |
|---|---|---|
| `parts` | The log: is it contiguous, append-only and an implementation of `EventLog`, with everything planned written in the end, whatever is planned during a write and wherever the process stops? The lord: do king and serf agree on which writ is answered and on the kernel's number, with any mix of writs in flight, replays that fail and either process dying? The pipe: however reads cut the stream, and whoever stops, are the messages delivered the first ones sent, whole and in order, and does each arrive that can? | 224 532 |
| `pier` | Through boot, work, snapshots, failed events, crashes of king, serf and writes, and restarts: do the four rules above hold (`ShipPromise`), and does no assertion of the king fail? | 605 053 |
| `pier_live` | Unless the king spins in its bail (run `pier_hang`): does every start come to work or end, every effect get released, every wall get passed, every exit end, with replays in several reads and batches, barriers, failing reads and events? | 22 196 |
| `snapshot` | Is a save atomic under kills, or under power losses, at every system call? | 215 846 |
| `drivers` | Are the drivers' linked lists the queues they stand for? Is everybody who asked the HTTP server, the client or the control socket answered once, in order, and told when it is over? | 157 864 |
| `clocks` | Is an alarm for the first timer always held, and does every timer go off? Are held packets counted, a galaxy's address found and kept, stale lanes used up? | 287 663 |
| `nouns` | Do jets, trees, bit streams, codecs, tables and the bytecode machine compute what their references say? | 270 933 |
| `loom` | Is every word of the heap in one box or free, on one list, and every noun that is held as it was made, through all that roads do? | 156 063 |
| `pier_boot`, `pier_hang`, `malloc_fits`, `leap_fits` | four statements of comments in the code that the code does not keep (section 6) | |

The properties, by what they are for:

- **Log**: `LogIsContiguous` (the last key *is* the length of the history: `u3_disk_init` relies
  on it), `BooksAgree` (the queue, the batch and the table agree while all three move),
  `PlannedBecomesDurable`, and `PromiseSpec`: refinement of `EventLog` under `log <- db`,
  `pend <- ` the queue beyond what is durable, `ack <- dun`.
- **King and serf**: `PleasMatchWrits` (order alone identifies answers), `KingKnowsKernel` (what
  the king believes, after all that is in the pipe, is the kernel's number), `SnapIsPrefix`,
  `SnapNeverRegresses`, `ExitCompletes`.
- **Ship**: `KernelIsReplayable`, `WallsHoldEvents`, `NoAssertionFails`, `ReplayIsOrderly`,
  `StartEnds`, `EffectsAreReleased`, `SavesHappen`, `ExitCompletesDown`, and `ShipPromise`:
  refinement of `Ship`, which is rules 1 to 4.
- **Snapshot**: `CleanPagesAreSaved` (a page whose dirty bit is clear is in its image as it is
  in memory, though pages leave segments, return and change sides), and `CheckpointSpec`:
  refinement of `Checkpoint`, whose checkpoint is what the next start *would* recover; it switches
  from the old memory to the new within one step, when the patch becomes valid.
- **Pipes**: `MessagesInOrder` (what was delivered and what waits are the first messages sent) and
  `MessagesArrive`.
- **Drivers**: `LinksAgree` and `QueuesSpec` (refinement of `Ova`); `TimerIsHeld`, `TimerFires`;
  `ForwardsAgree`, `GalaxyIsReached`, `LaneCatchesUp`; `EyreIsHeard`, `IrisIsAnswered`,
  `ClientsAreAnswered`.
- **Nouns**: `JetsMatchArms`, `TreesAreCanonical`, `StreamsKeepBits`, `CodecsAgree`, `NockAgrees`,
  `TablesAreMaps`; `HeapIsTiled`, `NounsAreKept`.

Each property of a passing run has a *mutant* in `PROJECT.json`: a one-line fault, in the module
next to the definition it replaces and marked `Faulty:`, that makes TLC report the property
violated. They are there to show that the property depends on the code; no specification uses
them.

`MCParts`, `MCDrivers`, `MCClocks` and `MCNouns` put several modules into one run. A behaviour draws its
`part` at the start and then steps in that module alone, so that the state spaces add and do not
multiply. Where fairness is assumed of all parts, as in `MCParts` and `MCClocks`, those that do not take
part are in a state in which it asks nothing: a log that is closed, a king without a serf, an empty pipe, a king
that has bailed at the end of its clock, a network that is down.

### 3.1 Bounds, and why they are enough

| run | bounds |
|---|---|
| `parts`, the log | 2 jobs, 4 events. Four events are a durable one, a batch of two, and one planned behind it, or a batch behind a batch. |
| `parts`, the lord | 2 jobs (one is `%crud`), 4 events, 3 writs outstanding. Three writs are one answered, one being computed and one in the pipe. |
| `parts`, the pipe | bytes of two values; 3 messages, each of one byte, or of three that begin like a header and whose length needs two digits; every way to cut them into reads, both kinds of reader. |
| `pier` | a pill of 2 events, 5 events, at most 2 writs of work in flight (`WorkBatch`, 10 in the code), 2 ova and scries waiting, one save timer, batches of 1 (2 with the fencepost) and reads of 2 (`PlayBatch`, `ReadBatch`: 500 and 1000), all outcomes, downgrade allowed, faults of king, serf and write, any number of restarts while events remain. |
| `pier_live` | a pill of 3 events, so that the replay needs two reads and two batches; barriers 0 (none) and 2; a start by `urbit prep`, that exits when the replay is done, or not; failing replays; faults of king, serf and read. One ovum and no scries: the liveness of the loop does not depend on how many there are. |
| `snapshot` | 3 pages, of which the home page is one: a page that is north, south or neither, next to one that stays. 2 events (a save on top of a save); each may move both watermarks anywhere. Any number of failures, all of one kind in one behaviour (`Fates = {{"kill"}, {"power"}}`). |
| `drivers` | queues: 2 drivers, 4 ova, a cap and a batch of 2, one retry. Server: four shapes, named in `MCDrivers`: servers that find no port, three configurations of which two overlap, requests in two parts on a server that stays, and one on a server that is replaced. Client: 2 requests, bodies of 2 parts. Control: 2 channels, 2 requests. |
| `clocks` | timer: 4 ticks, 2 calls of other vanes, one retry, one crash, so that a timer is set before, at and after the present, fires early, fails, and is lost with its %doze. Network: 2 packets and one scry at a time (one more packet than may be held), overlapping lookups, ages of 2. |
| `nouns` | words of 8 bits; atoms on both sides of every width that a jet or a codec tells apart; lists and trees of up to 4 elements under two orders of mugs; streams of three writes, read up to 4 bits beyond their end in pieces of up to 7 bits, and then by one read of some 94 to 104 bits, about as many as a byte, which has 96 values here, can count (`Longs`); every string of up to 11 bits; formulas of every shape, with indices and skips beyond a byte; tables of 4 keys of which three share a mug, without a limit or with one of 2. |
| `loom` | looms of 45 and 52 words: boxes of many sizes on one road, nouns on two roads, and three roads; a road's record of 2 words (more than one, so that a road may be shorter than its record), free lists of 3 sizes, cell blocks of 2. |
| `pier_hang`, `malloc_fits`, `leap_fits` | the smallest that show it: a pill of one event and a serf that dies; looms of 24 words that are nearly full (`MCTight`, `MCNarrow`). |

### 3.2 Fairness

`DiskFairness`: the pool runs a queued job, and the loop runs a due callback. Writes are assumed
to end. `LordFairness`: the king reads what arrived, and the serf takes what it is sent; an event
is assumed to end (the code kills it otherwise, on ^C). `PierFairness` is weak fairness of each
*kind* of callback of the loop (libuv serves every due handle in each turn, so that no kind starves
another), of the check handle that calls `_pier_work` once per turn, of the thread and of the
serf. `NewtFairness`: libuv reads what has arrived and fires a timer that is due. `BehnFair`: time
passes, a timer that is due goes off, an ovum that was sent comes to an end, and the log writes
what it has (`Kick`). `AmesFair`: %ames goes on sending, its list of domains comes, libuv ends a
lookup, the serf answers a scry, time passes, and an outage of the DNS ends. Nothing makes a king
start, a driver plan, a client ask, an exit be asked for, or anything fail.

## 4. What is proved

For every value of the constants, with all obligations discharged by TLAPS:

| module | theorem | statement |
|---|---|---|
| `DiskProofs` | `DiskInvariant` | `DiskSpec => []DiskInv` |
| | `DiskTypeCorrect` | `DiskSpec => []DiskTypeOK` |
| | `DiskLogContiguous` | `DiskSpec => []LogIsContiguous` |
| | `DiskBooksAgree` | `DiskSpec => []BooksAgree` |
| | `DiskAppendOnly` | `DiskSpec => LogAppendOnly` |
| | `DiskKeepsPromise` | `DiskSpec => PromiseSpec`: `Disk` implements `EventLog` |
| `LordProofs` | `LordInvariant` | `LordSpec => []LordInv` |
| | `LordPleasMatchWrits` | `LordSpec => []PleasMatchWrits` |
| | `LordKingKnowsKernel` | `LordSpec => []KingKnowsKernel` |
| | `LordSnapIsPrefix` | `LordSpec => []SnapIsPrefix` |
| | `LordSnapNeverRegresses` | `LordSpec => SnapNeverRegresses` |
| `PierProofs` | `PierInvariant` | `PierSpec => []PierInv` |
| | `PierTypeCorrect` | `PierSpec => []PierTypeOK` |
| | `PierKernelIsReplayable` | `PierSpec => []KernelIsReplayable` |
| | `PierReplayIsOrderly` | `PierSpec => []ReplayIsOrderly` |
| | `PierAssertions` | `PierSpec => []OopsInv`: four assertions can fail, each under a named setting |
| | `PierNoAssertionFails` | `Tils = {0}`, `ExitStates \subseteq {"work"}`: `PierSpec => []NoAssertionFails` |
| | `PierKeepsPromise` | `PierSpec => ShipPromise`: `Pier` implements `Ship` |
| | `PierWallsHold` | `PierSpec => WallsHoldEvents` |
| `SnapshotProofs` | `SnapInvariant` | `OneFate`: `SnapSpec => []SnapInv` |
| | `SnapCleanPagesAreSaved` | `OneFate`: `SnapSpec => []CleanPagesAreSaved` |
| | `SnapKeepsPromise` | `OneFate`: `SnapSpec => CheckpointSpec`: `Snapshot` implements `Checkpoint` |
| `NewtProofs` | `NewtInvariant` | `NewtSpec => []NewtInv` |
| | `NewtMessagesInOrder` | `NewtSpec => []MessagesInOrder` |
| `ClockProofs` | `BehnTimerIsHeld` | `BehnSpec => []TimerIsHeld` |
| | `AmesForwardsAgree` | `AmesSpec => []ForwardsAgree` |
| | `AutoInvariant`, `AutoLinksAgree` | `AutoSpec => []AutoInv`, `[]LinksAgree` |
| | `AutoKeepsQueues` | `AutoSpec => QueuesSpec`: `Auto` implements `Ova` |
| `DriverProofs` | `HttpInvariant`, `HttpEyreIsHeard` | `HttpSpec => []HttpInv`, `[]EyreIsHeard` |
| | `CttpInvariant`, `CttpIrisIsAnswered` | `CttpSpec => []CttpInv`, `[]IrisIsAnswered` |
| | `ConnInvariant`, `ConnClientsAreAnswered` | `ConnSpec => []ConnInv`, `[]ClientsAreAnswered` |

Assumed is what the modules' `ASSUME`s say, and `OneFate` where it is named: bounds are natural numbers, limits that
the code divides by or waits for are positive, `Crud` is a job, a message fits its header, an address
is not one of the two words that stand for none, and the bound on events leaves room for one after the
boot sequence. TLC evaluates each of them in the runs.

### 4.1 The event log

`LogIsContiguous` is not inductive: that the batch lands right behind the log needs the batch to be
the front of the queue (it starts at `dun + 1`), that needs the queue to be consecutive when the batch
is cut, and that in turn, across the acknowledgement, needs the trim to drop exactly the batch.
`CommittedIsQueued` carries the contents from the write to the acknowledgement, and
`ClosedIsForgotten` says what a restart begins with. Their conjunction, with types, is `DiskInv`.
Four lemmas hold the reasoning about data: `LastKeyOfLog` (the last key of a gapless log is its
length), `TrimDropsDurable` (the loop that frees facts drops exactly those up to `dun_d`),
`CommitIdle` and `CommitBusy` (what a commit hands over). Then one lemma per group of actions, and
`DiskStepInv` for `DiskNext`. `DiskAppendOnly` follows from the invariant: a batch has only
numbers that are not in the table.

`DiskKeepsPromise` maps each step to a step of `EventLog` or to none. `Mapped` says, from `DiskInv`,
what the three mapped sequences are in terms of the counters; then a plan is `LogPlan`
(`PlanRefines`), the thread's transaction is `LogPersist` (`SaveRefines`: what is appended to the log
is what leaves the front of `pend`, by `CommittedIsQueued`), the callback is `LogAck` (`AckRefines`:
the trim moves nothing of `pend`, because the batch left it when it became durable), every end of a
process and every opening is `LogReset`, and the rest stutters (`QuietRefines`).

### 4.2 King and serf

The answers in the pipe are matched with the king's writs by order alone, so the invariant is about
the whole round trip. `MatchInv` says that what is in `out`, then what is in `inn`, answers the queue
of writs, one for one, with each plea's tag fitting its writ. `TellInv` says who last told
the king a number: the last plea on its way that carries one, or else the king's own number is the
kernel's. `KeepInv`: a save or a cram on its way is the first writ in the pipe, since the client
asks for it when all work is done, and its number is the kernel's. `PlayInv`: unless a replay can
fail, batches come before anything else and are the kernel's next events. `FaultInv`: the only
assertion of a serf that can fail is the one on the order of a batch, after a replay failed.
`SnapIsPrefix` is part of the invariant, since a serf that starts takes its kernel from the
checkpoint. With `LordTypeOK`, `PipesInv` (what may be on its way, by the state of the two
processes) and `BoundInv` (no event is computed between the batches of a queue, and the events on
their way keep to the bound), these are `LordInv`. It holds whether or not a replay can fail.

### 4.3 The pier

`PierSteps` states the invariant and proves the steps of the serf, of the thread, of the ends of
processes and of the work loop; `PierProofs` has the boot, the replay and the negotiation, and the
theorems. `Disk`'s part of the invariant is `DiskInv` itself, since every step of a pier leaves the log
as it is or is one of `Disk`'s (boot, plan, commit, read, the thread, the ends); its lemmas are cited by name.
`LordInv` is not reused: it is about an arbitrary client, while the pier's own order of requests is what
gives the stronger facts needed here.

Why `KernelIsReplayable` is not inductive: an answer to `%work` is logged under the king's own number
(`u3_disk_plan` counts), not under the serf's. That these are the same event needs the two to count alike
over everything on its way, through events that failed and have no number. Hence

- `WorkInv`: the king's number is the last planned; `Course` is the number at which the kernel
  stood after each plea on its way, from the king's number on, rising by one with each fact; `Facts`
  says that the fact of each plea is what the kernel holds at its number;
- `MatchInv`: the pleas on their way and then the writs on theirs are the queue of writs, so that
  the fact of a plea is that of *its* writ (the king logs the writ's job, `_pier_on_lord_work_done`);
- `AgreeInv`: the kernel, the queue and the table agree wherever two of them have an event; the
  checkpoint is a prefix of the log; while `%work` is on its way, the kernel is not behind what
  is planned. The kernel may be *behind* the log elsewhere: a new serf starts at the checkpoint;
- `InnInv`: batches on their way are of the log, and a save or a cram on its way is of a durable event.
  So the checkpoint that the serf writes is behind the log, though the serf writes it long after it was asked to;
- `BoundInv`: the events still to be computed by what is on its way (`Budget`) fit the bound.

For the replay, `PlayInv` says what has been sent, read and asked for: three numbers, in order, with the queue between
the first two and at most one read beyond; `BatchInv` says that the batches waited for are in
order and disjoint and that the kernel, while none failed, is at the end of the last one answered, or
else that only the cram is left. From these `ReplayIsOrderly` follows for every `PlayBatch` and
`ReadBatch`, with the code's batches of one more than their limit.

For the promise: `GiftInv` (while at work, the effects that wait are those of the facts in the log's queue, one for one, so
that the two queues are trimmed alike), `EffsInv` (what was released is durable, and in order; in a new
process, nothing is released again), `WallInv` (an exit wall is the last, and at the
front nothing is left to log or compute), `ModeInv`, `NewInv`, `PipesInv` and `WritsInv` (what is open, running and asked, by
where the process is in its life), and `OopsInv`.

`PierStepInv` is one lemma for each callback, call and failure. TLC had checked its parts on the instances
of `pier` and `pier_live` before they were proved.

`OopsInv` says which assertions of the king can fail: a null pointer in `_pier_on_lord_live` after an exit
during init or boot; the barrier (`pier.c:1179`) with a `--replay-to`; the state after an exit during replay; the exit during
`%wyrd`. Each does happen: with every exit state allowed, TLC finds a behaviour of `pier_live`'s instance for each. `PierNoAssertionFails` is the case in which all four are excluded, and its two hypotheses are
what the run `pier` sets. They are the defects of section 6, and no others are left: the
assertions on the order of writs, batches, plans, walls and effects cannot fail, whatever crashes.

`PierKeepsPromise` maps the thread's transaction to `ShipLog`, the serf's save or cram to
`ShipCheckpoint`, the callback of a durable batch at work to `ShipSay` (what it releases is what `Kept` does
not keep: events up to `dun_d`, in order and behind those released before), and every other step to a stutter. That includes
`_pier_work` in all other callbacks: it releases nothing, because nothing became durable
since (`NothingReleased`).

`PierWallsHold` counts outstanding `%work`. While a wall waits, `_pier_work_send` has no room
(`HoldsAll`), so the writs of a callback that answers one are those before, less that one (`WorkLeaves`).

### 4.4 The framing of messages

The header's codec is inverted for every number of values of a byte, 2 or more, 256 included. Then
`StreamInv`: what the reader has of a message, followed by its buffer and by the pipe, is a first part
of the frames of the messages that it has not yet got. Each iteration of the decoder moves bytes
from the buffer to the message and leaves that string as it is; when a body is whole, it is the next
message. `OrderInv` (what was delivered, then what waits, are the first messages sent), `AwaitInv`
(a body is awaited with the length its writer wrote) and `IdleInv` (a reader that stopped takes no
more) complete it.

### 4.5 Timers, packets and the drivers' lists

`BehnInv` looks ahead: what libuv *will* hold once the pending `%doze`s are heard is the wakeup that the
vane believes in, or else the backstop, after that wakeup went off; before `%born` is answered it may
be nothing. The vane's belief is never later than its first timer, or than now, and a vane without
timers believes in nothing. At rest no `%doze` is pending, and this is `TimerIsHeld`. It holds across
crashes because a new process sends `%born`, whose answer always sets the wakeup again.

`AmesInv` has the scries in the lord's order with distinct packets, so that letting one go takes it
out of the set and one off the count.

`AutoInv` says what `LinksAgree` says without following a link: for each driver there is a list (`Lists`),
of its own planned ova and without repetitions, such that every cell's two links are its neighbours in
that list, and the driver's ends and count are the list's (`Chained`). So a step is an edit of a list:
`PlanLists` appends, `RedoLists` puts in front, `NextLists` takes the first, `DropLists` takes one
anywhere. Each has a lemma on the pointers of one list (`PlanLinks`, ...), and no other driver's
list is disturbed (`OtherMoves`), since no two have an ovum in common.

Only at the end are links followed. `AlongIs`: the walk of at most `NEggs` steps from the first
of such a list is the list, by induction on the steps; a list without repetitions is not longer than the
heap (`OnceIsShort`, by the pigeonhole principle). Hence `LinksAgree`, and `QueueMap` is that list. The
loop of `_ames_cap_queue` has an invariant of its own, `CapOK`: there are no packets left in front of the place it
is at, and whatever went was older than all behind it; and at most so many turns are left (`CapGood`), so
that after `NEggs` of them it is at the end of the list or under the limit, which is what `Ova` says of
the forgotten (`CapEnds`). Nothing is ever both with the lord and in a list, so an answer is for the ovum `Ova`
has first in `sent`.

The two inductions are over numbers up to a bound. The library's theorem takes the predicate as an operator;
`InductionUpto` takes a set instead, and is proved from the least number outside of it. It also gives
the recursive function itself (`RecursionExists`), whose definition is a `CHOOSE`.

### 4.6 The drivers to the outside

`HttpInv`. `BooksInv` is the contract with %eyre: of every request, what was sent and what waits are
what was said; h2o does not wait while something does; a request that was asked and is still here
was not cancelled unless its timer answered it; one that has ended was cancelled once or had said
all; the streams of the slog are none of those %eyre was asked. It needs that a duct is never
used twice (`FreshInv`, `ServInv`: connections count their requests, servers their connections, and
a server is never forgotten, so that its number is not used again), and that the pointer a cookie's
lookup holds, while h2o still has the request, is to a connection that is there and is not being
closed (`PeekInv`). `ListsOK` and `PeeksOK` are the types of the lists of handles.

`CttpInv`. `EffsInv`: a number is asked for once, and cancelled once and later. `PlaceInv`: a number is in one
place at a time, on its way, in the driver's list, or answered. `CallInv`: a request is in the list
exactly while a lookup or a client of h2o holds it. `CancelInv`: it is `"quit"` exactly if its cancel was
heard, and it then waits for its lookup. `BodyInv`: what it has gathered is what came.

`ConnInv`. The list has exactly the open channels, the newest first (`SanInv`); a channel's list has
requests of its own only, and all those in progress that point to it (`RanInv`), so that closing it
takes every pointer to it away (`CanInv`); what was sent answers requests that were made (`SentInv`),
each on its own channel, and once if that is open.

### 4.7 Snapshots

`OneFate` is a hypothesis of these theorems, and is needed: with kills and losses of power in one
behaviour both properties fail (section 6). The run's constants satisfy it.

`CleanPagesAreSaved` speaks of the time between saves, and is kept only because of what holds at each
system call within one. `SnapInv` says it by step. `PatchesInv`: whatever patch is there, or may come
back when the power fails, has what the images lack (`Base`). `GoodInv`: the images are good
themselves, unless a patch is being applied or waits for it. `StepInv` and `ApplyInv`: how much of a patch is
written, and how much of it applied. `PowerInv`: while a patch is needed it is synced and the directory
has nothing to undo, and the disk has of the images all that the patch has not (`Durable`); else the
images are synced. `LiveInv`: every page in memory is in the image, or dirty, or in the patch.
A step of the application changes only pages that the patch has, so `Base` and `Durable` survive it, cut
in the middle or not (`PatchedPageChanges`); a loss of power keeps the pages that were synced
(`MixedKeeps`) and gives back no patch that did not verify before (`PatchAfterLoss`).

`SnapKeepsPromise` needs `CkptInv` beside it: a patch has one line for a page (else the order of lines
would matter), the lines applied so far are in the images, and a patch whose removal may be undone is
one the images already have (`Settled`), so that applying it again is harmless (`SettledHeld`). The
checkpoint changes in one step: when the second sync of a patch ends (`CkptSave`), or at a failure
between the writing of the control block and that sync, which may or may not have kept the patch
(`CkptDie`). Every other step of a save, and of its application, leaves what a start would find as it is
(`AppliedTwice`). `MemoryIsPatch`: images with the patch applied are the memory in use, page by page.

### 4.8 What stays with TLC

Only model-checked are: all liveness, which with `ENABLED` is out of the prover's reach; and the library
of nouns and `Loom`, where the question is what a recursive definition on nouns computes for every input:
induction over data, and without the number that bounds it in section 4.5. RECURSIVE operators are only in modules nothing is proved about.

## 5. Reading order

For the pipeline: `EventLog`, `Disk`, `Lord`, `Replay`, `Ship`, `Pier`; then `Newt` and
`Checkpoint`, `Snapshot`, which justify its abstractions. For the drivers: `Ova`, `Auto`, then any of the
others. For the runtime: `Nouns`, `Words`, then any. A proof module begins with its inductive
invariant, part by part; the lemmas about sequences and sets that it needs come first where they are
many, then one lemma per action, then the theorems.

## 6. What the checks found

Four runs end in a counterexample, and contradict the quoted comment.

- **`pier_boot`** - a crash between the metadata and the first commit of a boot leaves a pier with metadata
  and no events. Its next start takes "nothing to replay" for "up to date" and sends `%work` to a serf that
  has no kernel, against `serf.c:632`.
- **`pier_hang`** - `u3_pier_bail` is to "immediately shutdown" (`pier.c:2232`). If a thread has taken a
  write, `u3_disk_exit` repeats `uv_cancel` (`disk.c:703`), which answers EBUSY until the completion has run,
  which needs the loop that is spinning: the king never ends (`BailEnds`). `Spinning` is this state, and the
  liveness properties of `pier_live` name it as their exception.
- **`malloc_fits`** - an aligned allocation that finds neither a free box nor room lets cells go and calls
  `_ca_willoc` again with a phase of alignment that it has already moved (`allocate.c:457`). The box may be up
  to two words too short for "aligned storage measured in bytes" (`allocate.c:672`): the last words asked for
  are those of the next box.
- **`leap_fits`** - `u3m_leap` is to "create a new road within the existing one" (`manage.c:764`). It bails
  only if the pad and one road's record take all that is open (783), and lays the new road's own record into
  what is left of it. A region shorter than the record is overrun: the record is over the parent's stack or
  record, and the new road's cap is past its hat. A behaviour of `Loom` ends there (`LeapFits`), as after a
  box that is too short.

Known defects without a run of their own, each seen in a counterexample of an earlier instance:

- SIGTERM is to "gracefully shutdown" (`king.c:633`). In `%wyrd` the king asserts (`pier.c:2204`, "unknown
  exit"); in `%init` and `%boot`, if the serf's `%ripe` is still to come, `_pier_on_lord_live` follows a null
  pointer; in `%play` the answer to a batch in flight fails the assertion on the state. Nothing is lost from
  the log: the next start recovers. (The runs ask for an exit in `%work` only, `ExitStates`; `PierAssertions`
  shows that there is no other such assertion.)
- "patch application must either completely succeed or leave on-disk segments intact" (`events.c:53`).
  `u3e_live` applies a patch that verifies without syncing it; if a process was killed before it synced the
  patch, and the machine stops during that start, the patch is lost and the images are half written. Either
  failure alone is survived (`SnapKeepsPromise`).
- "if a patch is present, it's applied" (`events.c:22`). A kill inside a write that extends an image leaves a
  size that is no multiple of a page, and every later start exits on it (`events.c:272`) before it looks at
  the patch that would mend it.
- A bit stream is to "behave as if the stream were infinite" beyond its end (`ur/bitstream.h:11`).
  `ur_bsr_bytes_any` counts the bits it takes of the last byte in a `uint8_t` (`ur/bitstream.c:441`, and the
  skip at 505), so that a read that begins at or before the last byte and ends some 256 bits or more beyond it
  may be taken for one of a few bits, and leaves the cursor in the last byte. `Wraps` says which reads;
  `StreamsKeepBits` says nothing of a reader after one (`lost`), and the run has reads on both sides of the
  limit.
- `nock.c` differs from Nock, or ends its process, on some formulas. `Mink` says how with `quirks`, and as
  Nock has it without; `NockAgrees` names them all: a timed formula (`[11 [%bout clue] f]`) whose clue is an
  atom fails the assertion at `nock.c:1797`; a cell as the axis of a 9 or, where there is a cell to edit, of a
  10 fails one of `u3r_met`; a branch of a 6 that is not taken may be refused when it is compiled, such as `[9
  0 x]`; a hint with a cell for a tag is accepted.
- The jets of +rip and +rep crash with `%fail` for steps of 32 bits and more, and +rep for an element that is
  not a cat, where the arms give a value (`rip.c:51`, `rep.c:24`, `rep.c:57`). `Regrouped` says when, and
  `JetsMatchArms` excepts it.

Seen while reading, or while choosing what a model takes as its environment:

*The pipeline.*

- A second start with the same `--replay-to` fails the assertion at `pier.c:1179`, because the first has saved
  its snapshot exactly there. A `--replay-to` smaller than the lifecycle sequence cuts it.
- After a replay batch fails, the next one, already in the pipe, reaches a serf that is behind and trips
  `serf.c:782`; the pier has bailed by then.
- `lord.c:462` sets `eve_d` to one less than the number that a failed replay reports, but the serf reports the
  last event that succeeded; after a failed lifecycle sequence the number wraps. The pier bails and nobody
  reads it.
- `u3_pier_pack` and `u3_pier_meld` send their writs at once, not at a wall.
- An answer to `%wyrd` that replaced it with a `%crud` counts as a successful negotiation.
- A crash between the two unlinks of `_ce_patch_delete` leaves `memory.bin` alone. A start does not look at
  it, the next save asserts on O_EXCL, and the start after that removes both.
- The end of a stream is reported at once, while whole messages received before it may still be in the queue
  of an asynchronous reader, which then drops them (`newt.c:196`). To the king it is as if the serf had died a
  little earlier; a client of the control socket that sends and closes may go unheard.
- `_newt_meat_next_sync` leaves the message it delivers in the queue; a client that stopped the stream from
  within `pok_f` would have it freed twice. Its one client, the serf, never does.
- `_ce_backup`, interrupted, leaves a partial copy that is never retried (`events.c:839`).

*The drivers.*

- A batch is filled depth first, so that a driver that always has ova starves those behind it.
- A `%born` of behn that was replaced by a `%crud` counts as done (`behn.c:127`), and then no timer is set:
  `TimerIsHeld` and `TimerFires` except it (`unborn`). An alarm that goes off early leaves only the backstop
  until the `%doze` that follows.
- `ames.c`: an effect for a galaxy before the domains are known leaks its packet; a galaxy's lane is passed
  where a list is expected.
- `http.c`, which ends a behaviour of the model as a `fault`: the timer's 504 makes a request ripe without a
  generator, and a late %continue follows its null `gen_u` (470-480, 725-731); a cookie's scry may be answered
  after h2o ended the request (833); the head of the list of servers is never unlinked when it is freed
  (`_http_serv_unlink`, 1140-1160); the close of a listener and of its last connection in one turn free the
  server twice (1299-1310, and `_http_conn_free`, 1028); a second configuration in one turn closes a server
  twice.
- `cttp.c`: a URL that does not parse is never answered (the request leaks, and `IrisIsAnswered` excepts it:
  `strange`); headers are sent in reversed order; the exit walks a list whose nodes it frees, with lookups
  outstanding.
- `conn.c`: an injected event that was replaced by a `%crud` is reported `%done`, though lines 83-85 promise a
  `%bail`; an ovum that bails after its channel was closed leaks; `%drop` is never sent.

*The runtime.* What the modules leave out or differ in, beyond section 2.9:

- `Loom`: one direct atom; frames of C only during a take; no stack trace is carried; unifying on an elder
  road leaks references (`allocate.c:1536`), hence `NounsAreKept` asks for exact counts on the home road only;
  free boxes smaller than 16 words are not reused; `_cr_sing_push` does not check the stack.
- `Hamt`: empty root slots are empty nodes; the clock's arm skips an entry after a drop within a bucket; a
  read warms entries at the root only; a put into a full cache may be dropped at once. The walks that mark,
  rewrite and count are left out.
- Jets: `_bit_rep` of an empty list gives an uninitialised word (`rep.c:33-35`); `u3qb_drop` gives a unit
  where `hoon.hoon:479-482` gives a list; `u3r_nord` compares the least word first (`retrieve.c:721-731`);
  `u3r_bytes` shifts a cat by 32 when asked for more than a word.
- Nock: 12 is external; a registration (`%fast`) is its effect on the stack.
- Serialisation: `_cs_cue_xeno` may use an uninitialised field after a failed set-up (`serial.c:538-613`);
  `ur_bsr_log` reads one byte past the end; the parser of decimals accepts only dots between groups.

## 7. Plan

Done: the pipeline, the drivers and the core of the runtime as models; the proofs of section 4,
among them every safety property of the pipeline and of the drivers that a run checks.

To model next: the jets that parse (`jets/e`), the hash-consed store (`ur/hashcons.c`), the rest of
`noun/retrieve.c`, `term.c` and `unix.c`, and `_ce_backup` and rocks in `Snapshot`.
