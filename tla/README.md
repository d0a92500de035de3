# citor, verified

TLA+ models of `citor`, a header-only C++ thread pool whose calls are
synchronous parallel regions: the calling thread takes part as slot 0, the
background workers as the other ranks, and the call returns when all of them
have done their share. The library lives in `include/citor/`; paths below are
relative to the root of the repository, and `tp`, `wl` and `ds` stand for
`include/citor/thread_pool.h`, `include/citor/detail/worker_loop.h` and
`include/citor/detail/dispatch_static.h`.

A pool is hard to test because its hot path has no locks to speak of. A call
returns while workers it did not wait for are still on their way; parameters
are cached across calls; wakes are handed from worker to worker; and every one
of these shortcuts rests on an argument about the order of a few atomic
accesses. These are the arguments checked here.

## 1. Inventory

| component | state | operations | what makes it correct |
|---|---|---|---|
| **dispatch protocol** (tp 5875-6382, wl 133-254, ds 25-36 and 534-668) | per-worker `mailbox`, `mailboxDesc`, `claimedAt`; pool-wide `generation`, `activeJob`, `m_coldStampedMask`, `m_lastPublishedDesc`; per-thread job descriptors | publish, reuse, claim a rank, cold collapse, join, stamp, acknowledge, drain, shut down | each rank's share runs once, with the parameters of the open call, before the call returns; the descriptor is not written under a reader; a mailbox never goes backwards; calls return |
| **dispatch gate** (tp 5474-5620, 5728-5757) | lock word with a waiter bit (Windows) or `std::mutex`; counters of waiting latency and throughput callers | acquire by lane, give back, release, skip in a low-latency scope | one dispatch at a time; nobody stranded; lanes honoured; nobody starves |
| **parking and low-latency scopes** (wl 256-382, `futex_park.h`, tp 1074-1141, 5979-6088) | `futexWord`, `hotSpinDepth`, `hotSpinEpoch`, per-worker `hotSpinEpoch` | spin, take a token, recheck, park; two wakes per dispatch and a chain from worker to worker; scope entry and exit | no dispatch sleeps through; no worker sleeps in a scope |
| **work-stealing deque** (`detail/chase_lev_deque.h`) | `top`, `bottom`, array, retired arrays | push, pop, steal, grow, reserve | each task is taken once, at the right end; a thief never reads a freed array |
| **fork-join** (tp 1895-2080, 4797-5312) | per-slot deques, pending counts, exception slot, cancelled flag | fork, run, steal, nested join that helps | a join returns after all its tasks; it always returns; an exception is delivered |
| **chain, plex** (tp 3440-4046, `detail/chain_state.h`, `plex_state.h`) | per-slot done epochs, stage and phase counters, cancellation | run a stage or phase, meet at its barrier | no slot passes a barrier early; cancellation and exceptions release everybody |
| **scan, look-back** (tp 4204-4400, `detail/scan_state.h`, `lookback_scan.h`) | chunk sums, cluster totals and stamps, tile flags | two passes, fold, look back | each chunk contributes once and in order |
| **reduction** (tp 5335-5475, `detail/reduce_tree.h`) | partials | chunk, combine | a fixed tree, each chunk once |
| **block shape** (tp 2821-2900, `detail/dispatch_static.h`, `dispatch_dynamic.h`) | a cursor for the dynamic balance | cut a range, claim a block | each index in one block |
| **detached tasks** (tp 2495-2713) | in-flight count, first exception, a mutex and a condition variable | submit, run, drain in the destructor | the destructor outlives the tasks, and ends |
| **coroutines** (`coro.h`) | a driver thread with a queue for each pool; a gate for each `syncWait` | move to a driver, resume, wait | the frame outlives every resume; `syncWait` returns |
| **construction** (tp 436-784, `detail/coherence_probe.h`) | the threads of the workers, the matrix of the probe | create, wait for all, pin, probe; on failure end and join | a pool is complete or leaves nothing behind; both ends return |
| **auto-pin** (tp 155-371, 925-1045) | a thread's affinity, its record of the mask it had, the pool's copy | pin on the first call, bind, unbind, restore | the mask comes back, whoever destroys the pool |
| **topology** (`detail/topology.h`, `pool_group.h`, `detail/coherence_probe.h`) | pins, CCD and cluster of every slot, scan layout; none changes later | read, order, pair, append, cluster | slots and layouts fit together on every machine |
| cancellation | a flag and a deadline | stop, poll | a stopped call still returns |
| customization points, hints, type erasure | types | | forwarding at compile time |

How they interact: every synchronous primitive goes through the gate into one
dispatch. The dispatch stores a word in each worker's mailbox (the phase and
flag bits) and, unless it is a reuse, a descriptor pointer before it. Workers
answer in the same mailbox. Chain, plex, scan and fork-join run their own
protocols inside the worker's share of a dispatch; chain and scan meet on the
same done lines. Parking is the waiting side of the mailboxes. Fork-join
works on the deques. Detached tasks and coroutine drivers are threads of
their own, and meet the pool only in its destructor and in the calls they make.

What is hard: workers that are late (preempted between any two accesses) for a
call that has already returned; several producers; a thread that uses several
pools; low-latency scopes that drop the gate and the wakes; joins that run other
joins' tasks while they wait; exceptions and stops between barriers; stamps of
earlier calls; the destructor on a thread that belongs to the pool.
`PROJECT.json` lists each hazard at its line, with the properties that look
for it.

## 2. Modules

| module | models | role |
|---|---|---|
| `Region` | the promise of a synchronous call | abstract specification |
| `Dispatch` | dispatch protocol and shutdown | implements `Region` (property `ParallelRegion`) |
| `DispatchGate` | lanes, lock word, lease | |
| `Parking` | workers' spin and sleep, all wakes, scopes, shutdown | |
| `TaskDeque` | the promise of a work-stealing deque | abstract specification |
| `ChaseLev` | the deque on x86 memory | implements `TaskDeque` (`ImplementsTaskDeque`) |
| `TaskScope` | the promise of a fork-join | abstract specification |
| `ForkJoin` | outer and nested calls over the slots' deques | implements `TaskScope` (`ImplementsTaskScope`) |
| `StagedRegion` | the promise of a call in stages | abstract specification |
| `Staged` | what chain, plex and the scans share | extended by the next four |
| `Chain`, `Plex`, `Scan`, `Lookback` | one primitive each | composed by `Primitives` |
| `Primitives` | the four in turn on one pool | implements `StagedRegion` (`ImplementsStagedRegion`) |
| `Detached` | detached tasks and the end of the pool | composed by `Lifetime` |
| `SyncWait` | coroutines, drivers, `syncWait` | composed by `Lifetime` |
| `CoherenceProbe` | rounds of pairs that pass a cache line | extended by `Construction` |
| `Construction` | the constructor, the workers' start, the way out of a failure | composed by `Lifetime` |
| `AutoPin` | the affinity of callers | composed by `Lifetime` |
| `Lifetime` | the four, and who holds the pool | |
| `Topology` | from a machine to pins, CCDs and the scan layout | pure functions |
| `Partition` | cutting a range, claiming blocks, combining partials | extends `Topology` |
| `DispatchProofs`, `DispatchGateProofs`, `ParkingProofs`, `ChaseLevProofs`, `ForkJoinProofs`, `PrimitivesProofs`, `PartitionProofs`, `LifetimeProofs` | theorems about the modules they are named for | TLAPS |
| `MCPrograms` | `Dispatch` under one of two programs, each a mix of calls | instance |
| `MCDispatch`, `MCDispatchGate`, `MCParking`, `MCPrimitives`, `MCLifetime`, `MCPartition` | sets of calls, pools and threads for TLC | instances |

How they stand on one another: `DispatchGate` promises one dispatch at a time and
`Dispatch` each share once before the return, and so `ForkJoin` and `Staged`
start from a set of shares (`job`) that every slot takes up once, at a moment of
its own, and that the call waits for. `TaskDeque` is what `ForkJoin` takes a
deque to be: a sequence per slot. `Partition` says which items a share has.

### Dispatch

The steps are the atomic accesses another thread can come between. The
pool's variables have the names of the code. A mailbox word is a record: the
phase `gen` and the flag bits of `detail/pool_control.h`. A call is a record,
too: its `kind` (`"for"` is `parallelFor`, the only one whose ranks can be
collapsed; `"reduce"` the typed reducer; `"region"` the primitives that publish
a descriptor on their own stack), whether it has more blocks than participants
(`wide`), whether its hints and body type allow the reuse bit (`reusable`), and
a `key` for everything else `keyMatches` compares.

| code | actions |
|---|---|
| `drainColdStampedAcks`, at entry without the gate and again under it | `DrainLoad`, `DrainProbe` (one worker at a time), `DrainClear` |
| the write-eliding comparison, and the write of the descriptor | `KeyMatches`, `WriteBegin`, `WriteEnd` |
| the same thread calls another pool | `ElsewhereBegin`, `ElsewhereEnd` |
| `DispatchLease` | `Lease`, `Return` |
| `dispatchOneStaticLockedBody` up to the stores | `Prepare`, `PublishDesc`, `PublishWord` |
| slot 0's own share | `OwnStart`, `OwnFinish` |
| the join with cold collapse | `JoinDone`, `JoinClaim`, `RankFinish`, `ColdStamp`, `ColdMask` |
| `workerMainLoop` | `Observe`, `FetchReuse`, `FetchDesc`, `ReadDesc`, `ClaimRank`, `LoseRank`, `RunRank`, `Finish`, `StampColdDone`, `StampColdLost`, `Acknowledge`, `StampDone`, `Exit` |
| `shutdownAndJoin` | `Shutdown`, `ShutdownLoad`, `ShutdownStore`, `ShutdownJoin` |

The descriptor is not atomic. Reading it is therefore a window between
`FetchDesc` and `ReadDesc`, writing it one between `WriteBegin` and `WriteEnd`,
and `DescNotTorn` says that they do not overlap. `todo` and `running` are
history: they count a share as running from its start to its end, so that an
implementation mapping to `Region` exists.

Abstracted: atomics are sequentially consistent (the builds the library is
tuned for are x86); bodies do not throw; the low-latency owner takes the gate
here (that it does not is `DispatchGate`'s); pools of more than 64
participants, which do not collapse, are the join without `JoinClaim`; whether
a worker is asleep, and the wake, are `Parking`'s: here it is just late. The
entry drain, which in the code is a spin over the mask, is bounded by nothing
but the workers' progress, and so it is here.

### DispatchGate

The lock of the Windows build is the repository's own: a word with a held bit
and a waiter bit over `WaitOnAddress`. It is modelled with its fast path, its
bounded spin (which may run out at any time), its slow path, which takes the
lock with the waiter bit set, the compare in the kernel and the wake of one
waiter. `std::mutex`, used elsewhere, promises the same and is external. Above
the lock are the three lanes of `acquireDispatchGate`, with the looks they take
before and under the lock, and the lease with its exception for the owner
of a low-latency scope. `overtaken` is history.

### Parking

The producers (`Threads`) as far as they wake, and the workers from the end of
one turn of their loop to the start of the next. A dispatch here is a mailbox
word, and what matters of it is whether the worker has seen it and whether it
owes an acknowledgement (`owed`). The gate is free or somebody's. One producer,
`Owner`, opens scopes and ends the pool; in its scope it skips the gate in the
code, and has the pool to itself here (that it has not is `DispatchGate`'s).
The others, which may publish when a scope is open, look at its depth or not as
their kind of call does (`WakesNot`). The drain at the entry of `parallelFor`
looks (`EntryLook`) and clears what it has found (`EntryDrained`, `EntryPending`)
in two steps, since others publish and collapse in between; under the gate nobody
does, and the two are one (`Drained`, `DrainPending`).

A wake is three steps, `LoadWord`, `StoreWord` and `Wake`, since nothing keeps
two threads from bumping the futex word at once. The word matters to a worker
only in whether its token is still its value, so `token` and `next`, the value a
producer is about to store, are kept relative to it; a store moves the zero, back
as well as forth. `Far` bounds by how much a delayed store moves it back. The
kernel's queue is the sequence `asleep`: first in, first out on Linux; the other
builds wake everybody. A wait may return without a wake (`Interrupted`). Reuse
does not occur, it makes no difference to who sleeps.

### ChaseLev

The deque's argument is one about memory order, so here memory is not
sequentially consistent: a store of the owner goes through a store buffer
(`buf`, first in first out) and `Drain` moves it to memory later; the fence of
`popBottom` and the compare-and-swaps wait until the buffer is empty. That is
x86, for which the library is tuned. Thieves only load and swap, so they
need no buffer. Push is `PushBegin`, `Grow`, `Retire`, `Push`; pop is
`PopBegin`, `PopFence` and one of `PopEmpty`, `PopOwn`, `PopLast` with
`PopSwap`; steal is `StealTop`, `StealBottom`, `StealArray`, `StealSlot` and
`StealWin` or `StealLose`. `Reserve` is `reserveOwner`, which sizes for its
argument alone, whatever the deque holds, and `Destroy` the destructor, when no
thief is inside. A task is its number in the order of the pushes. The
refinement maps the deque to what lies between `top` and the bottom the owner
means, its own unflushed stores included.

### ForkJoin

A slot's C++ stack is a sequence of frames: calls, and above each the tasks it
runs, which make calls again. `OuterCall` and `Return` are slot 0's; `Begin`
is a slot taking its share. A drain looks (`Look`), pops (`PopOwn`,
`PopNone`), steals (`Steal` from any other slot, `StealNone`) and ends
(`ShareDone`, `JoinDone`). A task goes through `Gate` (cancelled or stopped
before it starts: `Skipped`), its body (`BodyEnd`, `BodyThrow`, `BodyFork`,
then `Push` for each task but the last), `Capture`, `Flag` and `Retire`. A task
the call takes from its own deque is counted privately (`own`), one that
anybody else takes by `pending`, the one it keeps for last by neither. What a
body does is open: it ends, throws, or makes a call as long as `MaxCalls` lasts.
A steal takes any victim that has something, where the code tries them in an
order with a bias to the same CCD.

### Staged, Chain, Plex, Scan, Lookback, Primitives

`Staged` has the part the four implementations repeat: the interval of epochs
(`Reserve`, with the start over near the end of 64 bits), opening, `Begin` of a
slot's share, running a unit, catching a throw (`Throw`, `Flag`), `Stop` of the
token, `Return`. `pc` and `at` are a slot's place in the function it runs.

* `Chain` has the four kinds of barrier and both engines, static (a slot's own
  chunk) and dynamic (`Claim`). `Bail` is the slot that gives up and stamps the
  highest epoch, so that nobody waits for it. `MayEnter` is what a slot waits
  for before a stage, `StampNeeded` when it leaves a stamp behind one.
* `Plex`: slot 0 runs the hook and publishes the phase, the others take it, all
  run their slice, slot 0 joins.
* `Scan`: the flat engine and the one by clusters. A value is the sequence of
  chunks it is made of, so that a prefix that is out of order, has a chunk twice
  or misses one is visible.
* `Lookback`: each cluster claims its own run of tiles in order (`FirstTiles` is the
  table of where the runs begin, rounded up and capped as in the code); `Walk` goes
  back over the totals until it finds a prefix.
* `Primitives` opens calls of a pool's list one after the other on the same done
  lines, since a stamp from an earlier call is one of the hazards.

A unit is a stage on a slot, a block, a phase's slice, a pass or a tile.
`StagedRegion` is given, for every call, what each unit builds on (`Needs`) and
what must at least be over before it (`After`).

### Construction, AutoPin, Detached, SyncWait, Lifetime

`Construction` is the part of `initWorkers` behind the layout of the slots:
`handles` are the entries of `m_workerThreads`, which has its full size before
the first thread is there, `workers` the threads. `CreationFails` is one of the
calls for a thread failing, after which `SignalEnd`, `JoinWorker` and `Throw`
are `shutdownAndJoin` on the way out. A worker reports (`Report`) before it looks
at its mailbox (`LeaveLoop`); how it sleeps there is in `Parking`.
`CoherenceProbe` has two threads for each pair of a round, `PairThread`
and `HelperThread`, and says of the line they pass to and fro only whether its
number is odd. `FromCache` is a pool on CPUs an earlier one has measured.

`AutoPin` keeps a mask as `"wide"`, `"part"` or `"slot"`, since the code only asks
how many CPUs there are in it. `tls` and `mirror` are the two records of the code.

A pool is held by shared references (`refs`): each caller's, and copies in the
closures of tasks. Whoever drops the last one runs the destructor, which may be
the thread of a task. `Submit`, `Spawn`, `SpawnFails` and `TellRolledBack` are
`submitDetached` with its rollback when no thread can be made; `Start` to
`LeaveFlight`, `Drop` and `ResetClosure` are `runDetached`; `DrainLock` to
`Destroyed` the wait of the destructor. The mutex is held where the code holds
it, and left out for counts that are not the last, as the code leaves it out.

In `SyncWait` a coroutine is started by `CallSyncWait` on the thread that waits.
Each `co_await` hands it to a driver (`Suspends`); the driver takes it from its
queue (`TakeNext`), resumes it (`Resume`), and counts itself out of the gate
(`LeaveResume`, `Notify`). The gate is one word: a done bit and the number of
drivers inside.

`Lifetime` has one caller make the pool and lets callers submit, wait or make
calls that pin, as a role says: one driver's pool is the one that may be dropped
(`PoolDriver`); a caller that waits holds a reference. The maker may have
other pools, one at a time, made before or after the first and lost before or
after it, of which only the pins are modelled.

### Topology, Partition

`Topology` is a chain of functions from what sysfs says (cores, L3 caches,
affinity mask) to the struct of that name in the code (`Detected`, which is
`detectTopology`), from there to one CPU per slot (`reserveProducerCpuFirst`,
with the pairing of siblings and the `Overflow` beyond the cores), and on to
the weight of the producer's CCD, the clusters (those of the CCDs, or of the
caches, as the probe finds a clear split or not), and the order in which a scan
folds.

`Partition` takes such a pool and a call: a kind, a range and a hint. `Begin`
fixes the shape, runners `Take` blocks one at a time by static stride, contiguous
span or the shared counter, `Stop` is the token, `Finish` combines, `Return`
clears. Sizes wrap at `2^Width`. A partial is the range it covers and a
combination a pair, so the result is the tree itself.

## 3. Runs

| run | instance | shows |
|---|---|---|
| `dispatch` | 2 workers, 2 producers, 3 calls, 2 programs; 264 k states | `Dispatch` implements `Region`; `DescNotTorn`, `MailboxForward`, `CallsReturn`, `ShutdownCompletes`, `TypeOK` |
| `gate` | 4 threads in 3 lanes, one call each, one scope; 68 k states | `OneDispatch`, `NoneStranded`, `LaneOrder`, `GateOpens` |
| `parking` | 2 workers, 2 threads, 2 calls, 1 scope; 235 k states | `LeftBehindIsOwed`, `NobodyInTheFrame`, `ScopeKeepsAwake`, `CallsReturn`, `ScopeOpens`, `ShutdownCompletes`, `TypeOK` |
| `chase_lev` | 1 owner, 2 thieves, 4 pushes, capacity 2; 1.1 M states | `ChaseLev` implements `TaskDeque`; `MissesNothing`, `ArraysLive` |
| `fork_join` | 2 slots, 3 calls with 2 or 3 tasks; 155 k states | `ForkJoin` implements `TaskScope`; `CountsAgree`, `PopsItsOwn`, `JoinsReturn` |
| `primitives` | 3 slots, 10 pools with 1 to 3 calls; 405 k states | chain, plex, scan, look-back implement `StagedRegion`; `ScanIsRight`, `LookbackIsRight`, `CallsReturn` |
| `lifetime` | 4 CPUs, 2 callers, 2 tasks, 2 drivers, 2 awaits, 3 pools; 178 k states | `ConstructedOrUndone`, `MaskReturned`, `NoUseAfterDestruction`, `FrameOutlivesResume`, `BothEndsReturn`, `SyncWaitReturns` |
| `partition` | pools of 5 machines, calls of every kind, 4-bit sizes; 1.5 M states | `RunsOnce`, `ReductionRight`, `ScanInOrder` |
| `dispatch_two_pools`, `dispatch_two_collapsers`, `scan_oversubscribed`, `scan_throw` | violations | section 4 |

Bounds, and why they are enough to be interesting.

* `MaxCalls` (Dispatch) bounds the calls that take a generation. The longest
  known way to go wrong in the mixes that work needs three: a full publication,
  one in whose place the producer stamps, and one that overtakes the late worker.
* `dispatch` runs one of two programs (`MCPrograms`). In `Rewriting`, `p1` makes
  `parallelFor` calls of both kinds (`ForA` collapses late workers; `ForHot` is
  wide, reusable and so skips the collapse) and `p2` reduces, here and on another
  pool. In `Overtaking`, `p1` has one narrow reusable call site (`ForSame`) and
  `p2` opens regions: a full publication is drained before the next, a collapse
  under the reuse bit is not, so this is where a later dispatch overtakes a
  worker. Not in the run, because they break it, are narrow reusable calls beside
  other `parallelFor` calls of the same thread (section 4, point 3), two producers
  of collapsible calls (point 4) and a thread whose collapsible or reusable calls
  go to two pools (point 1).
* Two workers are needed for `skipColdCollapse` (it asks for more than two
  participants) and for a slot that is late while another is not.
* In `gate` one call each is enough for three to wait at once, one in each lane
  and two in one; a second round adds states but no new combination.
* `parking` has two workers, which is what one wake reaches, and leaves the pace
  to the threads: a producer may be as late with its wake as it likes. `Owner`
  makes calls that collapse late workers, opens a scope and ends the pool, the
  other thread reduces beside it. Not in the run, because they break it: a third
  worker, which rests on the chain (point 6), a second scope (point 7), two threads that
  bump the futex word at once (`Far = 0`; point 8), and a fork of the second thread
  (point 9).
* `chase_lev` starts with a ring of two, so that four pushes wrap it round, grow
  it once by pushing, and again by `reserveOwner(6)`; two thieves meet the owner
  and one another at the last task.
* `fork_join` with two slots and three calls has joins nested three deep, on one
  slot or across, thieves that start a call of their own on top of a wait, two
  tasks of one call that throw, and calls with and without the token. A third
  slot adds thieves, which differ in nothing from the second.
* `primitives`: three slots are the least for two clusters of which one has two
  members, and for a barrier passed by two while one is late. `WrapAt = 3`
  makes the epochs start over within two or three calls. The plexes show a
  call on a line an earlier call has stamped, the lists with a scan two kinds of call on the
  same line. At most two units throw. The first passes of a scan on clusters do not
  (`quiet`: its body does not throw there); `scan_throw` and section 4, point 10, say
  what happens if they do.
* `lifetime`: two callers and two tasks (one beside coroutines) let a task submit
  a task, a task's closure hold the last reference, and a count that is not the
  last leave without the mutex. Two drivers with two awaits let the second driver
  finish the coroutine while the first has not left its resume. Four CPUs are
  three rounds of two pairs and three workers, so that creation can fail with
  some workers ready, some not and some not there. The maker has up to two other
  pools, one after the other and at the same address. `FailsAt`, `GuardMasks`
  and the one thread that makes pinning calls leave out what section 4 has under
  12 to 15.
* `partition`: four bits of size with ranges up to 15, five chunks at most for a
  reduction (64 in the code): ranges shorter than the participants, chunks that
  do not divide, hints above the range. Machines of two CCDs of two cores, with
  and without siblings, with one stacked cache, with an affinity mask, and of three
  CCDs of one, two and one core. Pools with more participants than cores are
  left to `scan_oversubscribed`. No range ends within a chunk of the top of the
  type (section 4).

**Fairness.** A thread that can take a step eventually takes one: weak fairness
of the actions of a producer inside a call, of each worker, slot, driver, task
and of a destructor that has begun, because the operating system schedules every
thread. In `fork_join` and `primitives` it is weak fairness of a slot's steps as
a whole, with the call's return beside it; a body that runs ends, one way or
another. In `lifetime` it is the constructor's thread, the workers and the helpers of
the probe, each group as a whole, and each task, driver and caller inside a call.
Nobody has to begin a call, to open a scope, to drop or destroy a pool, to stop a
token, to submit, to wait, to find something to steal, or to be interrupted. A scope is closed in the
end (`gate`: it is an RAII guard). No lock is assumed fair: `GateOpens` holds
under weak fairness since calls are bounded, and says that the lanes' giving
back is no livelock, not that a stream of new callers cannot starve a waiting
one.

Deadlock is checked in every run; the states where a model may stop are named
(`AllCallsMade`, `AllOver`, `Gone`, the destroyed pool).

## 4. What the models found

Four runs state what a comment or a test says, and TLC finds it violated;
`PROJECT.json` quotes the lines. They are points 1, 2, 4 and 10.

1. `dispatch_two_pools`: a thread's descriptors serve all its pools. X here, Y
   elsewhere, Y here: the key matches and the pool's last full publication was
   the same pointer, so workers that cached X are told to reuse (tp 5922;
   the comment at tp 6727-6735 says that comparison closes this window).
2. `scan_oversubscribed`: `ThreadPool(8, Affinity::PerCpuSmtPair)` on four cores
   with two CPUs each and two CCDs of which the first is preferred. The siblings
   appended beyond the cores come last, and count as CCD 0, since `ccdOfCpu` is
   filled for one CPU of a core only (topology.h:645). The scan gives the
   producer's CCD the front of the input but folds by slot, so a late slot of
   CCD 0 has a chunk that lies before that of a slot of CCD 1, and the prefix
   of one contains what is to its right (tp 4186).

The others come out of the same models with other constants. Each is one
change away from a run, and names the property it breaks.

3. *A collapse under the reuse bit* (`Dispatch`, one worker, one producer,
   `MaxCalls = 4`, `CallsOf` two narrow reusable `"for"` calls that differ in the
   key only; `CachedIsCurrent`. With `ForSame` and `ForHot` also `DescNotTorn`). A
   worker collapsed under the reuse bit is not remembered (`stamped && !reuseSafe`,
   tp 6305), so the next call publishes over it. Its late acknowledgement (wl 237)
   lands on the newer word, whose descriptor it has not read, and makes the
   producer's stamp there fail: the worker is not remembered this time either. The
   next reuse word finds it with the parameters of the first call, or the next
   write of the descriptor meets it reading. The comment at ds 541-544 says the
   parameters are "identical to the cached values".
4. `dispatch_two_collapsers`: one worker and two threads that call `parallelFor`.
   The drain at entry runs outside the gate (tp 5801). It has found the
   acknowledgement of an older dispatch when the other thread publishes a newer
   one, collapses the worker and sets its bit, and clears that bit then. The
   mask is documented (tp 6741-6743) so "a concurrent stamp cannot be lost".
   Nobody waits for the worker any more before a descriptor is written. `Parking`
   with two threads of kind `"for"`, one worker and four calls breaks
   `LeftBehindIsOwed` the same way, which is why `parking` has one such thread.
5. *The owner of a scope* (`DispatchGate`, `OneProducer = FALSE`; `OneDispatch`).
   It dispatches beside a producer that holds the gate, although "concurrent
   producers are safe" (`README.md:97`).
6. *A late wake* (`Parking`, three workers, one thread, `KindsOf <- OneMix`,
   `MaxCalls = 1`, `MaxScopes = 0`, `Far = 0`; `CallsReturn`). A producer that is
   preempted between publication and wake may find the queue headed by two
   workers that have served the dispatch, used up their spin (wl 302-333) and
   parked again. They take both wakes, find nothing new, pass none on, and a third
   sleeps on a dispatch it has not seen. A join that collapses ranks survives this;
   a reduction waits for good. The comment at wl 361-364 says of the chain that it
   "doubles each hop and reaches every parked worker". A wake reaches two, so
   `parking`, which has two workers, cannot show it.
7. *Two scopes* (`Parking`, two workers, one thread, `MaxCalls = 0`,
   `MaxScopes = 2`, `Far = 0`; `ScopeKeepsAwake`). A worker may acknowledge the
   epoch of a scope whose depth it has not seen, and sleep in it.
8. *Two writers of the futex word* (as `parking`, with `Far = 1`; `CallsReturn`
   and `ShutdownCompletes`). A thread that reduces has loaded the word when another one's
   scope opens, and stores after it: the word goes back. The next bump brings it
   to a value a worker has taken as its token in between, and the worker parks
   through the wake that bump was for. If it is a dispatch's its join waits for
   good, if it is the destructor's that joins for good. The comment at tp 6079 says
   that "`m_dispatchMutex` makes the producer the only writer on `futexWord`",
   and wl 334-337 rests on the value having moved. The drain at the entry of
   `parallelFor` bumps the word outside the gate, too.
9. *A fork beside a scope* (as `parking`, with `KindsOf <- ForkMix` and
   `MaxCalls = 1`; `CallsReturn`). The primitives that take a lease of their own
   look at the depth once, whoever's scope it is (tp 5884-5890). The scope closes,
   the workers park, the dispatch is published without a wake, and "the skipped
   wake then hangs the join" (tp 6075).
10. *A throw in the first pass of a scan by clusters.* `scan_throw`: a member that
   throws leaves the stamp of one that has finished (tp 4232), and its leader folds
   the partials of the cluster, that of the member among them (tp 4280-4286), which
   nobody has written. The test
   `tests/parallel_scan_exception_safety_test.cpp:17-21` says "The producer must not
   call `prefix` after a pass-1 failure"; the sequential path keeps to it (tp
   4384-4391), the other does not look. If it is a leader that throws, the call does
   not return (`ThrowingPools`, `CallsReturn`): it leaves without its cluster's stamp
   (tp 4228-4246), and its members, and slot 0 for another cluster's total, wait for
   good. Slot 0 in addition publishes prefixes that nobody has made (tp 4236), which
   the other leaders combine with their totals.
11. *A range that ends at the top of `size_t`* (`Partition`, a call with
   `last` in the last chunk below `2^Width`; `RunsOnce`). The end of a block,
   `min(lo + chunk, last)`, wraps (ds 131, 229, 288, 351, 433, 605; tp 1369,
   2813, 2924, 2950). No call of that size is documented. For all others
   `RunsOnce` is proved (`OnceEach`, section 5).
12. *Two threads call one pool* (`MCLifetime`, `Roles <- TwoCall`;
   `MaskReturned`). Both are pinned to slot 0's CPU, and the pool remembers the
   last of them only (tp 262-264): its destructor unpins that one, although
   `README.md:384` and 393 say that it reverts the auto-pin.
13. *A first call inside a guard* (`MCLifetime`, `GuardMasks = {"slot", "part"}`;
   `MaskReturned`). The guard may give the CPUs of one CCD, and a pin made
   under it saves those as the mask to restore. In the shortest example the maker
   has had another pool in between, whose destructor has unpinned it.
14. *A thread's attributes cannot be had* (`MCLifetime`,
   `FailsAt = {"attributes"}`; `ConstructedOrUndone`). Only the failure of
   `pthread_create` takes the unused entries away (tp 681). After the
   others (tp 595, 615, 628, 636, 668) `shutdownAndJoin` joins entries that were
   never a thread, where `README.md:382` promises `std::system_error`.
15. *No memory after the workers have started* (`MCLifetime`,
   `FailsAt = {"late"}`; `ConstructedOrUndone`). The list of CPUs and the entry of the
   probe's cache are allocated (tp 739, coherence_probe.h:687) with nothing
   that would end the workers, which run on in memory that is freed, and
   nothing that would unpin the maker.

Read in the code on the way, and not shown by a run:

* `runForkJoinNested` (tp 4989) is never called, and the check at tp 5105 cannot
  fail (that is `PopsItsOwn`);
* the README (416, 604, 639) has peers steal the blocks of a nested
  `parallelFor`; peers inside an outer `parallelFor` never drain their deques,
  so its blocks run on the caller;
* `README.md:524` and `chain.h:72-77` let `serialStage` make its own stage
  serial; the barrier stands behind the stage, so it is the next one
  that slot 0 does not wait for the others to enter;
* the scan by clusters does not look at `pass1Failed` before it folds; a
  correction that throws in the look-back rewrites a prefix after its flag is
  set, while another slot may read it; the look-back looks at the token
  only at its end;
* an awaiter made outside the coroutine that `syncWait` runs has no gate, and
  the driver does not notify; a body on a driver that calls `syncWait` for the
  same pool waits for its own thread; a detached body that drops the last
  reference itself waits for its own count; an awaitable that resumes on
  a foreign thread does not notify either;
* tp 234-236 has the pool that finds its thread pinned perform "the eventual
  restore", but it makes no record in the pool, which is all its destructor looks
  at; the earlier pool restores, whichever is destroyed first;
* the record of a thread stays when its pool is destroyed on another one, so that
  a later pool at that address does not pin it;
* the probe is `noexcept` and creates threads: without one the process ends;
* siblings appended beyond the cores may lie outside the affinity mask.

## 5. Proofs

`DispatchProofs` proves, for any finite set of workers, any producers, calls
and bound, and so for programs with every point of section 4 too, under `DispatchAssumption` alone:

* `Typing`: `Spec => []TypeOK`, the type invariant the run `dispatch` checks. Besides
  types it says that no loop over the slots is entered without a slot: the
  first pending slot, a `CHOOSE` in the model and a count of trailing zeros in
  the code, exists.
* `Exclusion`: two producers are never both between the generation and the
  return. Everything in the publication that is not atomic rests on it.
* `DescriptorFirst`: a worker that has observed a phase finds a descriptor
  pointer behind it. `workerMainLoop` has a branch for a null pointer
  (wl 166-183); it is dead code.
* `Invariance`: `Spec => []IInv`, the inductive invariant they follow from.

`IInv` is the conjunction of five parts, each preserved by a lemma of its own
with one step per action:

* `TypeOK`;
* `GateInv`: a producer that is under the gate holds it, and the holder is
  under it or in the drain and write steps that also occur in front of it.
  `Exclusion` is immediate;
* `ShutInv`: once the destructor has begun every producer is idle, and only
  then does a word carry the shutdown bit;
* `WorkerPtrInv`: a mailbox whose phase moved past zero has a pointer, unless the
  shutdown moved it, in which case no job is active and the worker leaves;
* `ProducerPtrInv`: the same promise on its way. A publication under the
  reuse bit stores no pointer, so the invariant has to know that
  `m_lastPublishedDesc` set means that every worker has one; a full one stores
  each pointer ahead of its word, so it has to know which slots are done.

`TypeOK` alone is not inductive: that `reading[w]` is a descriptor depends on
`WorkerPtrInv`, this on `ProducerPtrInv`, and both on the gate.

What `Dispatch` does beyond that (`ParallelRegion`, `DescNotTorn`, `CachedIsCurrent`,
`MailboxForward`, `StampNotLost`) is not proved, and cannot be for every program:
two producers of collapsible calls, two narrow reusable call sites or a thread with two pools
are ordinary use and refute it, or the invariant it would rest on (points 1, 3, 4).
A theorem would have to rule them out, which the code does not. The run `dispatch`
checks four of the five on the programs above.

`DispatchGateProofs` proves every safety property the run `gate` checks, for any
finite number of threads in any lanes, under `GateAssumption`:

* `Typing`: `Spec => []TypeOK`. The counters are unsigned in the code, so that
  they stay between zero and the number of threads matters.
* `Exclusion`: `Spec => []OneDispatch`, assuming `OneProducer`; without it the
  property is false (section 4, point 5).
* `Unstranded`: `Spec => []NoneStranded`.
* `Order`: `Spec => []LaneOrder`.

Their inductive invariant has a part for each argument. `PathInv` says through
which steps a lane goes, and where a thread goes on after the lock. `HoldInv`
says that one thread at most is past the lock, and that the waiter bit is only
set on a lock that is held: so a thread that takes the lock by the fast path
cannot wipe out the bit of a parked one. `CountInv` says that a counter is the
number of threads registered in its lane, which turns "the counter is zero"
into "nobody is registered"; it needs the library's facts about cardinality.
`LaneInv` is the strengthening `LaneOrder` needs: a latency caller
that has been passed once knows that no background caller is left between its two
checks, since that caller held the lock. `ScopeInv` is for `Exclusion`.
`NoneStranded` needs nothing more than `HoldInv` and `PathInv`.

`ParkingProofs` proves, for any finite number of workers, any threads, calls and
scopes after one another, and any delay of a store, under `ParkingAssumption` alone:

* `ParkingTypes`: `Spec => []TypeOK`. That the kernel's queue has each sleeper once is
  part of it.
* `NobodyLeftInside`: `Spec => NobodyInTheFrame`. A reduction, a fork-join, a chain, a
  scan or a plex returns only when every mailbox has its dispatch and every worker has
  answered it. A wake may be lost (section 4, points 6 to 9), and then such a call
  hangs; a bit of the mask may be lost (point 4), and then a worker is late for a
  `parallelFor` that nobody waits for. Neither lets a call end whose frame is in use.
* `ScopesAcked`: `Spec => []AckedInScope`. In an open scope every worker has
  acknowledged the epoch of that very scope. That it sleeps there all the same,
  having seen the epoch and not the depth, is point 7.

`IInv` (`ParkingInvariance`) is behind all three: the types; `BoundInv`, that the calls
in front of their publication fit under the bound; `PathInv`, where each producer and the
scope are, by the gate, the depth and the epoch; and `PhaseInv`, the order in which a
worker sees, serves and answers its phases. `DoneInv` adds who has been published to
so far and who has answered: a slot that a publication has left has the generation,
one that a join has left is at rest unless the call is a `parallelFor`. The mask has
no part in it. `ScopeInv` adds how far the loop of the constructor has come.

`LeftBehindIsOwed`, `ScopeKeepsAwake` and the liveness of the wakes are model-checked
only: two threads that collapse, a second scope or a third worker break them (section 4,
points 4, 6 and 7), so no theorem about them holds of every instance.

`ChaseLevProofs` proves every property of the run `chase_lev`, for any finite set of
thieves, any first capacity that is a power of two, any reservations and any number
of pushes and growths, under `ChaseLevAssumption` alone:

* `DequeIsALine`: `Spec => ImplementsTaskDeque`;
* `PopMissesNothing`: `Spec => MissesNothing`;
* `ArraysStayLive`: `Spec => []ArraysLive`;
* `DequeTypes`: `Spec => []TypeOK`;
* `HandedOutOnce`: a task that was pushed is in the line, in the order of the pushes,
  or was handed out exactly once. No run checks this one, since `ImplementsTaskDeque`
  and `MissesNothing` are stronger on a small instance; it is what a user of
  the deque wants to know.

The memory is that of x86 here too, so the invariant has to say what waits in the
store buffer beside what the memory holds:

* `SwitchInv`: the address of a new array leaves the buffer last, since the
  compare-and-swap behind it waits for it; so thieves load the newest array or the
  one before it;
* `OrderInv` and `WithinInv`: the stores to slots wait in the order of their indices,
  each below the line's end and at or above every bottom stored before it. So when a
  thief can see a task in `bottom`, its slot has reached the memory;
* `RoomInv`: the line fits both arrays with a slot to spare, so two tasks of it never
  share a slot, whatever the remainders;
* `CopiedInv`: while the address waits, a task is in its slot of the new array, and in
  that of the old one or on its way there;
* `OwnerInv`: what the owner's copies are worth. A push has room; a pop has stored the
  bottom it means; at the swap the buffer is empty and one task is left;
* `ThiefInv`: a thief whose `tt` is still `top` has loaded an array that holds the
  first task of the line in its slot, or that task itself. A thief that is late has
  an array of the past, but then `top` has moved on and its swap fails;
* `EndInv`: nothing is given back before the destructor.

Every step then does one of four things to the line (`Effect`): it keeps it, puts a task
at the end, takes the last one, or takes the first; these are the steps of
`TaskDeque`. `MissesNothing` and `HandedOutOnce` follow from the same four. `ContentInv` is
for the types alone: `Doubled` shows that twice a power of two, a number that no odd
number but 1 divides, is one.

`ForkJoinProofs` proves every safety property of the run `fork_join`, for any
finite set of slots, any number of calls of either fanout nested to any depth, and
any set of calls with a token, under `ForkJoinAssumption` alone:

* `ForkJoinImplements`: `Spec => ImplementsTaskScope`. A join returns when its tasks are
  over, each ran at most once, and it rethrows exactly if one has thrown.
* `CountsTell`: `Spec => []CountsAgree`.
* `NestedPopsItsOwn`: `Spec => []PopsItsOwn`.

A stack of frames grows and shrinks at its end, so the invariant talks of positions in it,
and every step comes with a lemma that says which frames it leaves alone. The
parts of `CoreInv`:

* `StackInv`: what stands on what. At the bottom is the outer call's drain, a nested call
  stands on the body that made it, a task on a drain, or on the call that kept it;
* `CallsInv`: a call higher on a stack is younger, and a nested call is on one
  stack, once, and alive;
* `DequeInv`: a deque holds tasks of calls that are at home on its slot, in the
  order of the calls. So the youngest call, on top of the stack, has its tasks
  at the bottom end, where its drain pops;
* `OnceInv`: a task is on one deque or in one frame, not twice, and its call is open;
* `UnpushedInv`: what a call has not pushed is nowhere yet;
* `CountInv`: `pending` of a call, less what its drain has counted privately, is the
  number of its tasks that are offered or run, the last one excepted, which the
  caller keeps. When it is zero, none is left on any slot: a join may return;
* `StolenInv`: while an older task is offered below them no task of a nested call has
  been stolen. `PopsItsOwn` rests on this and on the count: a drain that pops
  has tasks that are not over; were the end of its deque an older call's, none of them
  would be offered, so a thief would have one, which took it before the older.

`ExcInv`, on top, says where an exception is: thrown and about to be kept, or kept;
and that the flag is up only behind one. The refinement then has a lemma for each step of
`TaskScope` and shows for each action which of them it is; a push or a take is none,
since the task is still to begin.

`PrimitivesProofs` proves, for any finite set of slots, any rows of chains, plexes,
scans and look-back scans with any number of stages or tiles and any barriers, any
clusters, throws anywhere, and epochs that start over at any bound, under
`PrimitivesAssumption` alone:

* `ImplementsStages`: `Spec => Region!Init /\ [][Region!Next \/ FoldBehindThrow]_(Region!vars)`.
  Every step of every call is one its `StagedRegion` allows, with one exception that
  the theorem names: on clusters a fold, the cross fold or a combination may begin when
  a first pass has thrown, whatever it builds on (section 4, point 10). So that is
  the one way in which the calls break the promise, and the exception still says
  that such a fold happens once and that a call with it rethrows. Without it
  (`ImplementsStagedRegion`) the statement is false, as `scan_throw` shows; `primitives`
  checks it where no first pass on clusters throws.
* `LookbackRight`: `Spec => []LookbackIsRight`. Every tile is corrected by all tiles on
  its left, once and in order;
* `Types`: `Spec => []TypeOK`, in which the stamps stay behind the epochs of their line.

A step of a slot, whatever the call, is one of six (`SlotStep`): its share begins, it
moves on, it starts a unit, ends one, throws, or raises the flag. `CommonInv` is what
every such step keeps. It says that a unit that has begun is over or in the hands of one
slot (`HistInv`), that what is captured has thrown and that nobody cancels without
a reason (`ExcInv`), and that no stamp is ahead of the epoch of its line (`EpochInv`).
By the last, a call that opens finds no slot past any of its barriers, whatever the
calls before have left on the line. Each
`SlotStep` is also a step of `StagedRegion`, or none, provided that a unit starts for
the first time and behind its needs. That takes one invariant for each kind of call:

* `ChainInv`: a static chain has begun on a slot the stages it has entered, and
  completed those it has passed; a stamp means that the slot has passed its stage,
  and a slot in a stage that all have passed every full barrier before it, and
  slot 0 every serial one. In a dynamic chain a block has no slot of its own, so there
  it is the counters (`claimed`) that say what has begun. Most of this is about
  calls that are not cancelled: a slot that bails out stamps what it has not done;
* `PlexInv`: a published phase has its hook behind it, slot 0 leaves a phase when
  all others have stamped it, and so a hook finds everything before it completed;
* `ScanInv`: the ladder of a scan (`Rung`). Where a slot stands says which of its five
  units are over; each stamp, of a line, of a cluster, of the prefixes, means a least
  rung of the slot or the leader that left it. On clusters the stamps of a leader, and
  what the folds then meet, say so only while no first pass has thrown (`~Thrown`);
  behind a throw the invariant keeps of them that no fold begins twice and that no
  second pass begins at all;
* `LookInv`: a tile belongs to one cluster (`TilesApart`, from the sums of the rounded
  shares) and is taken once by a slot of it; it is in that slot's hand until it is
  done with, or an exception is captured; what a tile shows is
  its own total, and then all tiles on its left. A walk that has gathered the tiles from
  its cursor on (`Upto`) keeps that form whichever of the two it meets.

Without the first part none of the others is inductive: that a stamp means what it says
in this call needs that it is not one of an earlier call.

`LifetimeProofs` proves `Outlived`, `Spec => []NoUseAfterDestruction`, for any
finite number of callers and any number of tasks, under `DetachedAssumption`. The
invariant (`Counting`) is about `Detached` alone, since a lemma shows that no other
step of `Lifetime` touches its state. `CountInv` says that `m_detachedInFlight` is
the number of tasks between their submission and the lock in which they leave.
`OrderInv` says which task is the next, so that a submission does not meet one that
is in flight. `SubmitInv` says that whoever is in `submitDetached` holds the pool, a
caller by its reference and a task by its own count, and that no two submissions
are about the same task. `EndInv` follows the destructor: it runs without references,
and is past its wait only when nothing is in flight. So nobody is left who could
raise the count again, which is why one look at zero is enough.

`ResumesOver`, `Spec => []FrameOutlivesResume`, rests on `Gates`. An entry
(`Entry`) of a coroutine is a place in the queue of a driver, or the place before
the first one while the driver serves it, so that taking the next one moves all
entries of that driver up by one place and their number stays. `GateInv` says that
the counter of a gate is the number of its entries, and that a caller that is out
has none; so a caller that sees the done bit with a count of zero is the last to
touch the frame. `HoldInv` adds that a caller that waits still has its reference,
which is why the pool outlives the bodies that run on it.

`MaskReturned` is model-checked only: a second calling thread, a wider guard or a
late failure of the constructor, all ordinary use, refute it (section 4, 12, 13 and
15).

`Undone`, `Spec => []WorkersThereOrUndone`, is the part of `ConstructedOrUndone`
about threads, from `OnlyCreationFails` (section 4, 14 and 15, otherwise). `ConInv`
follows the constructor: the slots before `slot` have a thread, the entries that are
left when it goes wrong are theirs, an entry goes when its worker has gone, and no
worker leaves before the shutdown bit. That the rounds of the probe measure every
pair is what a recursive function computes, and left to TLC.

`PartitionProofs` proves two of the properties of the run `partition`, for any range, any
hint, any number of slots, and any CCDs:

* `OnceEach`: `Spec => []RunsOnce`, assuming `Fits`: behind the range there is room for
  one more chunk below `Size`. Calls that run as a whole, and those that give each slot a range,
  need not fit. Without `Fits` the property is false (section 4, point 11);
* `ScansInOrder`: `Spec => []ScanInOrder`, assuming `FoldsInOrder`: the pool folds the
  slots of the producer's CCD first, if a scan treats them apart, and each group of slots in
  ascending order. The pools of the run `partition` are such; those of the run
  `scan_oversubscribed` are not, and there the property is false.

The first has two halves. One is about numbers: whatever the kind of call, its blocks are
a `Cut` of the range. They lie in it, no two overlap, and every item is in one. A
rounded-up quotient makes a cut, the even split does, so do the spans of a reduction's ranks,
and the two groups of a scan do together, since the rank of a slot in its group
(`Rank`) counts through the group. The other half is about who takes what. `Taken` is the set
of blocks run so far, read off where the runners and the counter stand. There is
one lemma for each of the six ways to hand out blocks. It says that a runner's next
block is one that was not taken, that exactly this one is added, and that when no
runner finds another all are taken (`EachRuns`). `PlaceInv` is what that needs: a rank of
a reduction is in its own span, one of a static call on its own residue, and the counter of a
dynamic call is behind the blocks the ranks start with. `CountInv` puts
the halves together: an item was passed on once if its block is taken, and never otherwise.

Only model-checked, and to stay so: liveness under fairness and `ENABLED`
(`CallsReturn` and its like); what a fold or a recursive definition computes for
every input, which is what `ScanIsRight` says of the prefixes of a scan,
`ReductionRight` of the combining tree and `ConstructedOrUndone` of the rounds of the
probe; and what holds only of the mixes of calls in an instance (`ParallelRegion`,
`DescNotTorn`, `MailboxForward`, `LeftBehindIsOwed`, `ScopeKeepsAwake`,
`MaskReturned`). No module declares
a `RECURSIVE` operator.

## 6. Plan

Done, in the order in which it mattered to a user of the library: `Dispatch`,
`DispatchGate`, `Parking`; `ChaseLev` and `ForkJoin`; the staged primitives;
`Detached` and `SyncWait`; `Topology` and `Partition`; `Construction`, `AutoPin`
and the whole of `Lifetime`.

Models still worth having: scopes of two threads at once (`Parking` has one
owner); two pools that probe the same CPUs at the same time; deadlines of a
token.

## 7. Not modelled

* Input and output: reading `/proc` and `/sys`, the coherence cache on disk, the
  timing of the probe (`Topology` takes any outcome it can have), the Windows
  branch of the topology.
* Which CPUs a mask holds, a process that starts on one CPU only, and failures of
  the calls that set a mask.
* Hints, customization points, type erasure: compile time. What the hints
  change is a field of the modelled calls.
* The arena guard of `PoolGroup`, a thread-local comparison that makes a call
  run inline, the calls that a worker of another pool makes (inline, too, tp
  2622-2645), and which calls are judged too small to be dispatched.
* Of fork-join, the inline path of a pool of one, a call with a single task, and
  the order in which victims are tried.
* The exception slot of the job descriptor: the primitives' own are modelled.
* Deadlines and the typed exceptions of cancellation; the arithmetic of Kahan
  sums.
* Weak memory other than the store buffer of `ChaseLev`: the other models
  are sequentially consistent.
* The end of a producer thread, whose descriptor is thread-local and may still
  be read (tp 321); 2^32 bumps of the futex word between a token and its use.
* Timing: a spin that ends on a budget may end at any time.
* `single_include/citor.hpp`, half of the repository's code by lines, repeats
  `include/` and is generated from it; definitions are mapped to `include/`.
