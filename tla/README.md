# Verification of YY-Thunks-gnu

YY-Thunks-gnu is the MinGW-w64 port of YY-Thunks: a static library of *thunks* that lets a
program written for a newer Windows start on an older one. A thunk looks the real function up
when it is first called and falls back to an implementation of its own when the system has none.
This directory holds TLA+ models of the parts of that library that keep state shared by threads,
TLC configurations that check them on small instances, and TLAPS proofs about ten of them.

Paths below are relative to the repository (`src/port/Thunks/...`). "Live" means: compiled at a
target `CMakeLists.txt` accepts. It refuses every target below Windows Vista (`__WindowsNT6`), so
code guarded by `YY_Thunks_Target < __WindowsNT6` is not compiled by its build, and code guarded by
`< __WindowsNT6_1` or `< __WindowsNT6_2` is live at the default target. SRW locks (but for
`TryAcquireSRWLock*`), condition variables, InitOnce, the thread pool and the pipe peers are in the
first group.
They are kept in step with upstream YY-Thunks, whose XP targets compile them, and they are the
most intricate concurrent code of the repository; they are modelled for that reason.

## 1. Inventory

| Component | Source | State it keeps | Operations | What makes it hard |
| --- | --- | --- | --- | --- |
| **Thunk loader** | `YY_Thunks.h`, `YY_Thunks.cpp` | `s_eThunksStatus`, the cookie, a pointer slot per function, a handle slot per module | initialise (CRT or first call), `try_get_function`, `try_get_module`, preload, uninitialise | lock-free caches, initialisation racing first use, module reference counts |
| **Synchronization barrier** | `api-ms-win-core-synch.hpp` | `YY_BARRIER`: two counts, a sense bit, two events with a mark | Enter, Delete | sense reversal, plain stores next to interlocked ones, event reuse, deletion |
| **WaitOnAddress** | `api-ms-win-core-synch.hpp` | 128 buckets, each one word; wait blocks on the waiters' stacks | WaitOnAddress, WakeByAddressSingle, WakeByAddressAll | lock-free list with stack nodes, delegated work, timeouts, keyed events that block the releaser |
| **Thread runner** | `ThreadRunner.h`, `api-ms-win-power-base.hpp` | `uRef`, `hWnd`, two task lists, a worker thread with a window | AddRef, Release, AddTask, RemoveTask, the window procedure, TryClean, the atexit function; (Un)RegisterSuspendResumeNotification | start and stop of a shared worker, lists shared with it, process exit |
| **Power requests** | `api-ms-win-core-kernel32-legacy.hpp` | `{uRef, pTask}` (128 bits), counts per request type | PowerSet-, PowerClearRequest; the callback | a task of the runner whose last flush must outlive its last reference |
| **Shared data** | `YY_Thunks.cpp`, `YY_Thunks.h` | a named section per process, a pointer per copy of the library | `GetYY_ThunksSharedData`, `FreeYY_ThunksSharedData` | copies of the library in several DLLs, creation race, mapping that fails, unload |
| **SRW locks** | `api-ms-win-core-synch.hpp` | one word; wait blocks on the waiters' stacks | Acquire, TryAcquire, Release, in two modes | lock-free list with stack nodes, one thread repairs and wakes for all, readers counted in the oldest block |
| **Condition variables** | `api-ms-win-core-synch.hpp` | one word with a count of wake-ups; wait blocks | Sleep (timeouts), Wake, WakeAll | wake-ups delegated to whoever holds the list, timeouts that leave it |
| **One-time initialisation** | `api-ms-win-core-synch.hpp` | one word; cells on the waiters' stacks | Begin, Complete, ExecuteOnce | synchronous and asynchronous callers, failed initialisation |
| **Thread pool** | `api-ms-win-core-threadpool.hpp`, `Shared/InterlockedQueue.h` | a queue, a 64-bit word (wake-ups, two locks, stop flag, runners), counts and an event per work object | submit, wait, cancel, close; the runners | runners that leave while work arrives, references of everybody who may still look, a queue shared without a lock |
| **Name lookups** | `WS2_32.hpp` | a parameter block with a reference count and a lock bit; the caller's handle | GetAddrInfoExW / A, the pool callback, GetAddrInfoExCancel | a handle stored after the callback was submitted, cancellation racing completion |
| **Comparison of handles** | `api-ms-win-core-handle.hpp` | an SRW lock, the handle counts of the kernel | CompareObjectHandles, CloseHandle, DuplicateHandle | a conclusion drawn from several reads of counts others change |
| **Proxy resolver** | `WinHttp.hpp` | a resolver, its requests, one result; reference counts; an SRW lock | WinHttpCreateProxyResolver, WinHttpGetProxyForUrlEx, WinHttpGetProxyResult, close | results replaced while they are read, a handle closed while requests run |
| **Pipe peers** | `api-ms-win-core-namedpipe.hpp` | two pools of slots in shared memory | register, look up, replace, query | processes without a common lock, any of which may crash |
| DNS queries, network notifications | `dnsapi.hpp`, `Iphlpapi.hpp` | a status word per query; lists of notifications | query, cancel; register | |
| DLL directories | `api-ms-win-core-libraryloader.hpp`, `Shared/List.h` | a linked list in the shared data, an SRW lock | Add-, Remove-, SetDefaultDllDirectories | entries outlive the copy that made them |
| MTA usage | `api-ms-win-core-com.hpp` | a flag in the shared data | CoIncrement-, CoDecrementMTAUsage | a timer callback polled with a time limit |
| HSTRING | `api-ms-win-core-winrt-string.hpp` | reference counts and cached flags of strings | create, duplicate, delete, substrings | length arithmetic, interlocked flags |
| Hook thunks | `Shared/HookThunk.h` | a lock-free free list of executable blocks | Alloc, Free | all its users are below Vista: not live |
| FLS, TLS repair | `api-ms-win-core-fibers.hpp`, `DllMainCRTStartup.hpp` | bitmaps, TLS vectors | | below Vista: not live |
| Other thunks | the rest of `Thunks/` | none of their own | forward, convert, or fail | their shared step is the loader |
| Port generator, build, Rust crate, compat headers | `tools/`, `CMakeLists.txt`, `thunks-gnu-rs/`, `src/compat/` | none at run time | | offline |

### How they interact

* Every thunk calls **the loader** first. Its fallback runs only when the loader answers that
  Windows does not export the function; that is why the answer must never depend on the moment.
* The barrier, WaitOnAddress, the locks, the pool and the thread runner are fallbacks. They do not
  call each other. The locks, condition variables, InitOnce and WaitOnAddress sleep on one keyed
  event of the process, each thread under the address of its own wait block, so that they never
  meet there. A condition variable calls the lock functions of its caller.
  WaitOnAddress keeps its hash table in the **shared data**, so that waiters and wakers of
  several copies of the library in one process meet; the DLL directories and the MTA flag live
  there as well.
* Name lookups and proxy lookups run as callbacks of the system's thread pool, which calls them
  some time after they were submitted, maybe before the submitter goes on.
* `CloseHandle` and `DuplicateHandle` share the lock of `CompareObjectHandles`, if the program
  calls them through the thunks.
* Suspend/resume notifications and power requests are *tasks* of the one **thread runner** of a
  copy of the library. The tasks are called back on the worker's thread, while clients add and
  remove them.
* At the end, `atexit` or a terminator of the CRT runs `__YY_uninitialize_winapi_thunks` (modules
  are freed, the shared data is unmapped) and the runner's function, which sends `WM_CLOSE` to the worker and waits.

### What makes each component correct

* *Loader*: a look-up returns what Windows answers; nobody uses a slot before it is initialised;
  one thread initialises; a handle is used only while it owns a reference; references balance;
  an answer once cached never changes; a thread that waits for the initialisation waits until it
  is over and no longer.
* *Barrier*: nobody returns before everybody entered; one call per phase returns TRUE; everybody
  returns; deletion waits for the waiters, and not for ever.
* *WaitOnAddress*: the list never leads to a dead stack; the lock has one holder; each release of
  a keyed event meets its waiter; a sleeping waiter can be found; every waiter returns.
* *Thread runner*: references balance; a registered task has a running worker and stays in a
  list; a task is freed once; an unused worker stops; the process can exit.
* *Power requests*: the system's state finally shows the outstanding requests; the count of a
  task equals them; the task is not used after its last reference.
* *Shared data*: all copies of the library use the same section; data stored by one survives its
  unload; each copy unmaps its own view only.
* *SRW lock*: a writer is alone; no wait block is reached after its thread went on; whoever asks
  for the lock gets it.
* *Condition variable*: a wake-up is neither lost nor given to a thread that is gone; a timeout
  takes the block out of the list or waits for the waker that already has it.
* *InitOnce*: a synchronous caller initialises alone; everybody gets the one published context;
  everybody returns, also after a failure.
* *Thread pool*: a queued task runs; who waits is released; the pool and the work objects live
  as long as anybody uses them and no longer. *Its queue*: first in, first out, nothing lost.

* *Name lookups*: a request is reported once, and as cancelled if its cancellation succeeded; the
  block outlives all who use it; nobody writes to the handle after the report.
* *Comparison of handles*: TRUE exactly for two handles of one object.
* *Proxy resolver*: resolver, requests and result outlive their uses and are freed at last.
* *Pipe peers*: no query returns the process of another pipe.

`PROJECT.json` lists the hazards line by line, each with the properties that watch over it, or
the reason why none does yet.

## 2. Plan

Done, in this order: `ThunkLoader`, `SyncBarrier` with its abstract specification `Rendezvous`,
`WaitOnAddress`, `ThreadRunner`, `PowerRequest`, `InitOnce`, `SRWLock` with its abstract
specification `RWLock`, `ConditionVariable`, `SharedData`, `ThreadPool`, `TaskQueue`,
`AddrInfoQuery`, `HandleCompare`, `ProxyResolver`, `PipePeerPool`; and proofs about `ThunkLoader`,
`SyncBarrier`, `WaitOnAddress`, `ThreadRunner`, `SRWLock`, `ConditionVariable`, `InitOnce`, `SharedData`, `AddrInfoQuery`,
`ProxyResolver`, `ThreadPool`, `TaskQueue`, `PipePeerPool` and `HandleCompare` (section 6).
`KeyedEvent`, `Races` and `Process` put components of one kind beside each other with all their
constants left open: the theorems are about these modules, and `MCKeyedEvent`, `MCRaces` and
`MCProcess` give the constants small values.

Not done, in order of importance:

1. Abstract specifications of WaitOnAddress (a set of sleeping waiters) and of the loader (a
   constant function from names to answers), and one of the thread runner that both
   `ThreadRunner` implements and `PowerRequest` uses.
2. `DnsQueryEx` and `DnsCancelQuery`; the list of DLL directories and the MTA flag, as users of
   `SharedData`; the clean-up loop of private data.
3. `HString`: reference counts, lengths modulo 2^32.

## 3. The models and the code

All models share one convention: **an action is one access to shared memory, or one call into
Windows, with everything the thread does privately up to the next one.** A compare-exchange loop
is its successful round, unless a failed round changes something. `pc` says where a thread is;
labels are named after what happens next. A read of a word
followed by a compare-exchange is one step where nothing visible happens in between: a failed
exchange only repeats the read. Operators named `X_Something` next to `X` are mutated
forms of `X` that show what a property would catch; no specification uses them.

### ThunkLoader

| Model | Code |
| --- | --- |
| `status`, `cookie`, `slot[f]`, `cache[m]` | `s_eThunksStatus`, `__security_cookie_yy_thunks`, `pFun_f`, `hModule` of `try_get_module_m` |
| `refs[m]` | references taken with `LoadLibraryExW` and not given back |
| `CheckSlot`, `ReadSlot`, `DecodeSlot`, `GetProc`, `NoModule`, `StoreSlot` | `try_get_function` |
| `ReadModule`, `LoadModule`, `LoadFails`, `CacheFailure`, `CacheModule`, `FreeExtra` | `try_get_module` |
| `InitClaim` ... `Publish`, `PreloadNext`, `PreloadDone` | `_YY_initialize_winapi_thunks` |
| `RunCrtInitializer`, `ReturnFromInit` | `__YY_initialize_winapi_thunks` (.CRT$XID), which registers the clean-up |
| `Unload` | `__YY_uninitialize_winapi_thunks` |

An encoded pointer is a record of the value and the cookie it was encoded with; decoding it under
another cookie yields `"garbage"`. So a slot that is read before the cookie is drawn, or encoded
too early, is visible. Any thread may call a thunk at any time, also before the CRT's initialisers
ran or while they run: static initialisers of other translation units (thread `Main`), and worker
threads they start. `image`, chosen in the initial state, is what the library is linked into: the
clean-up is registered with `atexit` in a DLL on the CRT's DLL only, and is a `.CRT$XTY` terminator
(line 777) in an image with a static CRT. `leftWait` is a history variable: a thread has left the
wait for an initialisation (lines 723-727), which lets it go on too early; the properties of
look-ups say nothing after that, and finding 1 says why. `TransientFailure` lets `LoadLibraryExW`
fail once and succeed later. `Unload` comes when no thread runs in the library; in a static exe the
terminator also runs while other threads may still call thunks, which is outside the model.
Left out: resolvers that read an export table by ordinal, and the order in which several modules
of one function are tried.

### SyncBarrier and Rendezvous

Every load, store and interlocked operation of `EnterSynchronizationBarrier` is an action.
`mem` is the memory of `YY_BARRIER`; `buf[t]` the store buffer of the processor of `t`: if
`buffered`, a constant of each behaviour chosen from `StoreBuffers`, a plain store enters it and `Drain` moves the oldest store to memory, as x86 does;
interlocked operations and kernel calls wait until it is empty. `SpinMode` covers the flags
SPIN_ONLY and BLOCK_ONLY and the comparison of thread and processor counts: a waiter never,
always or nondeterministically spins first. `Deletable` is the absence of NO_DELETE.
`Rendezvous` is what the callers are promised: a thread leaves a phase only after all entered it,
and each phase has one winner. `ImplementsRendezvous` maps `entered` to the number of calls,
`left` to the number of returns and `winners` to the number of TRUEs.

### WaitOnAddress

One bucket of the hash table: the other buckets share nothing with it, and several addresses may
fall into one (`AddressOf`). `head` is the word of the bucket (newest block, lock bit 0x2, bit 0x1
that hands the waking of the whole list to the lock's holder); `back`, `notify` and `next` the
three links of a block; `flag` its state. A block is named by the thread whose stack holds it: a
dangling pointer is a link to a thread that is `"out"`. Walks along the list under the lock
(`WalkToHint`, `RemoveBehind`, `WakeBehind`) are one action each: nobody else may change what
they read, and `LockHeldOnce` checks that. What a walk from `b` meets, `From(b)`, is the least set
that contains `b` and whatever its blocks lead to; `Hint(b)` is the first block of that walk which
has a `next` pointer. `Meet` is the rendezvous of `NtReleaseKeyedEvent` and
`NtWaitForKeyedEvent`: the releaser blocks until the waiter arrives.
`WakeByAddress` reads the bucket with a plain load; the model makes the changed value visible
before that load, which is a duty of the caller (see the hazards).
`Push` keeps the word it wrote as the one the list is optimized from; the code reads the bucket
again (line 883). If blocks were pushed meanwhile the model's first round fails at its exchange and
the next one starts where the code does; what the extra round sets, the hint of the thread's own
block and links behind it, is what the walk from the newer block relies on or sets itself.

### ThreadRunner

`uRef` with the value `Locked` (MAXUINT32) while a worker is started or stopped, `hWnd`, the list
the worker walks (`next`, with its head as the link of `Root`, exactly as the code casts
`&pCallbackList` to a `TaskItem`), the list clients push to (`pending`), a message queue per
window. `Listed(first)` is what a walk along the links from `first` reaches, stated as the least
set closed under them. `Register`/`Unregister` are the two thunks of `api-ms-win-power-base.hpp` down to
`AddTask` and `RemoveTask`. Tasks keep their names after they are freed, so a use after the free
can be seen; a write to a freed block is modelled as if the block still held what was written,
which is one of the outcomes. A worker that is stopped and a worker that is started afterwards
are two workers, and may run at the same time.
Left out: the 15-second limit of the start. `StartFailures` = `{"class"}` (RegisterClassW fails
and the thread ends with code 0, which `AddRef` takes for success) is modelled and kept out of
the passing run, because no worker exists then.

### PowerRequest

The task word `word` is exchanged as a whole (InterlockedCompareExchange128), the counters of a
task one by one. The runner is reduced to what `ThreadRunner` shows of it, its defects included:
a thread that starts with the first reference and closes some time after the last one, a walked
list (`head`), a `pending` list of which only the oldest task is linked, and a loop that calls a
task again until it is removed. `Use` ends the behaviour (`crashed`) when a freed task is used:
what follows is undefined.
Left out: failing allocations and starts of the runner, and `PowerCreateRequest`.

### InitOnce

`once` is the word of INIT_ONCE: its state, and while one thread initialises the newest `cell`.
`Begin`, `Join`, `Succeed`, `Refuse` and `Wait` are the outcomes of `RtlRunOnceBeginInitialize`,
`Complete`, `Fail` and `CompleteShared` those of `RtlRunOnceComplete`, `WakeNext` and `WakeDone`
the walk of `RtlpRunOnceWakeAll`; `context` records what each caller got. `INIT_ONCE_CHECK_ONLY`,
which only reads, is left out.

### SRWLock and RWLock

`lock` is the word: four flags, and a count of readers or the newest wait block (`top`). `back`,
`notify` and `next` are the links, `share` the reader count a block takes over, `flag` the state
of the block (spinning, waking, exclusive). `Optimize` and the walks along the list are one
action each: only the thread that set Waking writes those links, and new blocks are added in
front. NtReleaseKeyedEvent waits for the thread it releases (`Meet`). `RWLock` promises exclusion
and nothing about order; `ImplementsRWLock` maps its writers and readers to the threads that are
`"in"` the lock. What a walk meets, `Reach(f, b)`, is the least set that has `b` and is closed under
the links `f`; `Older` are the links a repairer follows: `back`, up to the first block with a
`notify`. `BlocksWait`, the lock's half of `NoDanglingBlock`, speaks of every block such a walk
meets, and of every block on a chain that was taken. `EveryoneAcquires` is the liveness the abstract specification leaves out.

### ConditionVariable

`cv` is the word: the newest block, a bit that gives one thread the list, and the count of
wake-ups asked of that thread (7: all). `RtlpWakeConditionVariable` is `FindOldest`, the walk to the
block that knows the oldest one; `TakeOldest`, once per block, with `oldest` as its local `notify`;
and the exchanges `GiveListBack`, `TakeLast` and `WakeAllAsked`. The blocks it took lead from `first`
(`pWake`) along `back` to the next, and `Appended` writes at their end (`*ppInsert`). `Signal`
resets the flag of one and `ReleaseEvent` releases the event of `wakee`. A walk is one action:
only the thread that has the list writes the links it follows, and new blocks are added in front;
`Reach`, `End` and `Older` are those of SRWLock. The lock of the caller is what `RWLock` promises of it,
with writers only. `owed` and `called` are history: how many waiters the calls so far have to
wake, and whom a WakeAllConditionVariable found in the list. The code never sets the `SRWLock`
field of a wait block, so that `RtlpQueueWaitBlockToSRWLock` is not reached and has no action.

### SharedData

`handles` and `views` count what the kernel keeps of the section, `gen` how often it was created,
`ptr` is `s_pYY_ThunksSharedData` of each copy, `flag` bit 0 of the flags, which the first thread
sets and then keeps its handle for ever. A copy is unloaded when none of its threads is inside.

### ThreadPool and TaskQueue

`wakeups`, `parallel`, `stop`, `pushLock` and `popLock` are the fields of the pool's 64-bit word,
changed by one interlocked operation each; `ref` and `wref` the reference counts; `pending`,
`working` and `event` belong to a work object. A runner is a work item of QueueUserWorkItem. `maximum`
(`SetThreadpoolThreadMaximum`) is chosen in the initial state. The queue is a sequence there,
because each of its ends is used under its lock; `TaskQueue` models the two ends against each
other, one load or store at a time: a ring of `BlockSize` entries per block and a list of blocks.
`NothingLost` says that what was popped is a beginning of what was pushed, in order, and that the
rest lies in the blocks in that order. It states the condition this needs: no Pop is overtaken by a
block of pushes between its two looks (`overtaken`).

### AddrInfoQuery

One request: `handle` is `*_pHandle`, which holds the block or a small status; `ref`, `lock` and
`completed` are `nRef` and the two bits of `fFlags`. `Submit` and `StoreHandle` are the two halves
of GetAddrInfoExW, between which the callback may run to its end. `UpdateHandleStatus` is
`TakeLock` (which waits for the bit, or sees that the request is completed), `ExchangeHandle` and
`UnlockUpdate`; `SignalCompleted` ... `Report` are run by the callback and by whoever cancels.
`late` records that the handle was stored after the callback had looked at it: from then on
finding 5 takes its course, and `CancelIsReported` and the balance of the references in
`BlockOutlivesUse` promise nothing more. That the block is not used after it was freed holds
nevertheless. GetAddrInfoExA has the same steps around its conversions and is left out.

### HandleCompare

The branch of CompareObjectHandles for objects that only their handle counts tell apart: open a
third handle of the first object, compare the two counts, close it, compare again, all under the
exclusive lock; CloseHandle and DuplicateHandle take the lock shared (`exclusive`, `shared`; an
SRW lock as `RWLock` promises it). `pair` are the objects of the two handles, `spare` the handles
nobody compares, `temp` the third handles. `disturbed` marks comparisons during which a count was
changed without the lock: by DuplicateHandle into another process, and by a comparison that
closes its third handle after it gave the lock back. `CallFails` is the failure of NtQueryObject or
DuplicateHandle wherever the code tests for one (`failed` remembers it): the answer is FALSE, and
inside CompareObjectRef the lock is given back first and the third handle closed after it.
Comparisons by path, process, thread and
token read attributes only and are left out.

### ProxyResolver

`ref` is the count of the resolver (one for the handle while it is `open`, one for each request),
`rref` that of each request (one for its callback, one while it is the `result`, one for a reader
that `held` it). `LockShared`, `AddShared`, `UnlockShared` are `GetResult`, and `SetResult`
replaces the result under the exclusive lock. The caller asks for a result only after a completion was called back (`told`),
from the callback or from another thread (`client`). Left out: failed allocations in
WinHttpCreateProxyResolver, and the parsing.

### PipePeerPool

One bucket of one pool. A slot is a 64-bit word (`index`, and `stamp` for the generation) and two
process IDs, every access to which is an action. `stamp` names the call that wrote it: the code
compares generations for equality only, its comparison by age being one of unsigned numbers that
is never true (`Oldest`). A process may stop anywhere, which is how the code speaks of a crash.
`misplaced` records that a process stored its ID in a slot that had changed hands since it was
found; `PeersMatch` says nothing after that.

### Races, Process, KeyedEvent, and MCRaces, MCProcess, MCKeyedEvent

`Races` instantiates PipePeerPool, WaitOnAddress and HandleCompare beside each other; `Process`
SharedData, ThreadPool, TaskQueue, AddrInfoQuery and ProxyResolver; `KeyedEvent` extends SRWLock
and instantiates InitOnce and ConditionVariable. They name the properties of their components and
leave all constants open, with the assumptions the proofs need. `MCRaces`, `MCProcess` and
`MCKeyedEvent` extend them with the constants of a small instance, the last also with one of
WaitOnAddress. Each chooses in the initial state (`active`) the component that runs: the behaviours are those of each component alone, since
they share no state. `MCRaces` is for safety, the others for liveness as well. `MCRaces` runs
WaitOnAddress in two kinds of behaviours (`Taken` says how many calls of each thread belong to
which). Their fairness is that of the components, restricted to the one that runs.

## 4. What the runs show

| Run | Instance | Shows |
| --- | --- | --- |
| `loader` | 2 threads that call at any time, 3 functions (exported, missing, of a missing module), preload on; exe, DLL and static image, with their unload | one thread initialises; look-ups are correct and final unless a thread left its wait; no handle is used without a reference, and references balance, whatever threads did |
| `loader_early` | 2 threads, 2 functions, preload off | **violation** of `InitBeforeLookup`: the wait ends while the other thread still initialises |
| `loader_wait` | 2 threads, 2 functions, preload on, fair | **violation** of `InitWaitEnds`: the wait goes on for ever once the status is published |
| `barrier` | 3 threads, 3 phases, deletion, with and without store buffers, fair | refines `Rendezvous`; nobody stranded on a reset event; with ordered memory everybody returns; deletion returns, after the waiters |
| `barrier_lost_wakeup` | threads that block at once, store buffers, fair | **violation** of `EveryoneReturns`: the mark and the count pass each other |
| `races` | WaitOnAddress: 3 waiters with timeouts on two addresses of one bucket, one WakeByAddressAll; or 2 waiters with timeouts, one of them twice, 2 WakeByAddressSingle. HandleCompare: 2 comparisons, 1 user, 3 objects, calls that fail. PipePeerPool: 3 instances, 4 processes, 2 slots | the wait list (its lock, dangling blocks, hints), releases meet waiters, nobody is forgotten; comparisons are right; no query answers with the process of another pipe |
| `runner_shared` | 2 clients, 3 tasks, 3 workers, a broadcast, start failures, exit, fair | references, worker while registered, freed once, worker stops |
| `runner_exit` | 1 client, 2 tasks, exit, fair | **violation** of `ExitCompletes`: the callback loop never advances |
| `power_set` | 1 client, 1 request, fair | **violation** of `RequestReachesSystem`: the condition of the notification is never true |
| `keyed_event` | InitOnce: 5 threads, 2 of them asynchronous, 1 failure. SRWLock: 3 threads, 4 calls. ConditionVariable: 3 waiters, with and without timeouts, one WakeConditionVariable, one WakeAllConditionVariable. WaitOnAddress: 2 waiters, one with a timeout, one WakeByAddressAll. Fair | one initialises, all agree and return; the lock refines `RWLock` and everyone gets it; no dangling blocks; no wake-up lost, called waiters return; every waiter on an address returns |
| `process` | SharedData: 2 copies, 2 threads, 2 unloads. ThreadPool: 2 clients, 2 runners, 1 work object, 2 posts, 1 wait each. TaskQueue: 6 pushes, blocks of 2. AddrInfoQuery: 1 request, 2 cancellations. ProxyResolver: 2 requests and a client. Fair | handles and views balance, data is kept; tasks run, waiters return, pool and work objects live exactly as long as needed; the queue loses nothing; a lookup is reported once, as cancelled if it was; results and resolver are freed after their last use |
| `addrinfo_late` | 1 request, 1 cancellation, fair | **violation** of `HandleLeftAlone`: the handle is stored after the completion was signaled |

### Bounds, and why they are enough

* Loader: the races are between two threads on one slot or one module; a third thread repeats one
  of the two roles. Both threads look up the same functions, at once or one during the preload of
  the other, so that they meet on every slot and in every module's cache. The theorems of section 6 hold for every number of threads, functions and modules.
* Barrier: `Phases = 3` uses each event twice, so that the event of phase 1 is marked, signaled,
  reset and used again in phase 3; a third thread lets a slow leaver of phase 1 meet two threads
  in phase 2. A fourth thread adds only more waiters of the same kind.
* WaitOnAddress: three blocks are the shortest list with a first, a middle and a last element,
  and with a hint that is neither; two addresses make wakers skip. A thread that waits twice
  reuses its block's memory, the hazard of stale `next` pointers. `Calls` bounds the calls.
  Liveness is checked with two waiters and one that wakes both: a waiter that leaves for its
  timeout holds the lock while the waker comes, which is where a wake-up could be lost.
* Thread runner: three tasks give a walked list and a pending list at once; three workers let a
  worker that is stopped overlap the next one and a third. `MaxMessages = 1`: the callbacks of
  one message already loop as often as tasks are set; with 2 the same properties hold (3.5
  million states).
* InitOnce: five threads, so that two may wait in cells while one initialises and fails, and
  asynchronous ones meet a word they may or may not share.
* SRW lock: a writer and a writer-or-reader give both orders of the modes, a reader joins or
  queues; the second call of the writer uses a block again that others may still point to. Three
  threads that each call twice were explored once (1.3 million states) with the same result.
* Condition variable: three waiters are the shortest list with a middle; one waker wakes one and
  one all. Two of the waiters may have timeouts, in which case the third stays away; all three
  with timeouts were explored once (7.4 million states) with the same result.
* Shared data: two copies that race, two threads that may race in one copy, two unloads so that
  both copies can be gone. The proofs hold for any number.
* Thread pool: two runners, because the decisions about the next runner compare the number of
  runners with the number of tasks; two posts with a third explored once (376 thousand states).
* Queue: blocks of two entries; six entries fill one, wrap around in it and need two more.
* Name lookups: two threads that cancel, so that one may find the handle already exchanged.
* Handle comparison: two comparisons, so that the third handle of one may be counted by the
  other; of three objects two may belong to neither handle of a comparison.
* Proxy resolver: two requests, so that one result replaces another while a third thread reads.
* Pipe peers: a bucket has 12 slots in the code; two slots and three servers are the smallest
  case in which every slot may be taken from its pipe while its processes look for it.
* Power requests: one client with one request suffices to show the finding.

### Fairness, and why the code justifies it

Weak fairness only, and only of steps a *running* thread takes: `Step(t)`, `WaiterStep(w)`,
`ListStep(t)`, `WakerStep(k)`, `ClientStep(c)`, `WorkerStep(w)` - Windows schedules every thread
that can run. Spinning loops are no exception: they are enabled, take a step, and leave fairness
nothing to give. `Step(t)` of the locks, of InitOnce and of the pool includes that a holder
leaves its lock, that InitFn and the callbacks return. `RunCrtInitializer` is fair, because the CRT runs its
initialisers; `Drain` is fair, because a store buffer empties by itself; `Delete(t)` is fair, because
DeleteSynchronizationBarrier polls. No fairness is assumed of calls (`Call`, `Enter`, `Push`,
`Register`, `Unregister`, `Start`, `TryAcquire`), timeouts, broadcasts, failures or the exit: nobody is
obliged to make them. WakerStep of WaitOnAddress contains the *change* of the value: its liveness says
that once the wakers have done their calls no waiter is left behind. The callbacks of
name lookups and proxy lookups (`CallbackStep`) are fair, because the pool runs what was
submitted to it, and cancellations and readers that have begun go on. `SharedData`, `TaskQueue`,
`HandleCompare` and `PipePeerPool` state safety only and assume none.

### Deadlock

TLC's deadlock check is on where a run may not stop other than in the states the module names
(`Finished`, `Unmapped`, `Quiet`). It is off in `barrier` (a thread may decline to enter the
next phase, which leaves the others waiting legally, and with store buffers a lost wake-up really
stops the system), in `barrier_lost_wakeup`, which shows just that, in
`keyed_event` and `process`, whose threads stop when they have made their bounded number of
calls and whose liveness properties say more than the deadlock check would, and in `power_set` and
`addrinfo_late` for the same reason.

## 5. Findings

1. **The wait for a concurrent initialisation does not wait** (`YY_Thunks.h:727`). The loop
   `do { ... } while (_eStatus != Wait)` is inverted. It leaves at the first sight of `Wait`, i.e.
   while the other thread still initialises, where the next comment says the initialisation has
   completed (run `loader_early`); and if the status is published between the thread's
   compare-exchange and its first read of it, it never ends, although the status is published early
   so that others need not wait long (line 702; run `loader_wait`). Met only if a second thread
   calls a thunk while the first one initialises.
2. **The barrier can lose its last wake-up** (`api-ms-win-core-synch.hpp:2682`). The waiter
   marks the event, then reads the count; the last thread writes the count, then reads the mark;
   both with plain accesses, which x86 may reorder.
3. **Exit hangs while a notification is registered** (`ThreadRunner.h:72`): the loop over the
   callbacks does not advance past a task that stays registered. The same loop makes an ordinary
   broadcast call the first callback until it is unregistered.
4. **PowerSetRequest never tells the system** (`api-ms-win-core-kernel32-legacy.hpp:289`): it
   notifies only if an incremented count is 0.

5. **The handle of a name lookup is stored too late** (`WS2_32.hpp:1808`). The callback is
   submitted first; if it completes before the caller has stored the block, the store writes to
   a handle that the code itself says must no longer be touched after the completion
   (`WS2_32.hpp:33`). A later GetAddrInfoExCancel reports success for a lookup that has
   succeeded; without one the block leaks.

Observed while modelling, and part of the models, but contradicted by no text of the repository
and therefore not the subject of a run:

* `api-ms-win-core-synch.hpp:2621`: deleting the barrier can overtake the last thread, which has
  counted itself out but has yet to set the event.
* `ThreadRunner.h:99`: the merge of several pending tasks keeps the oldest only.
* `api-ms-win-core-kernel32-legacy.hpp:345` and `:371`: PowerClearRequest may use a task the
  worker has freed; `uCount` counts requests up and types down.
* `api-ms-win-core-synch.hpp:619`: `RtlpWakeSingle` repeats its exchange with the flags of an
  older word and may erase a wake-up counted meanwhile.
* `api-ms-win-core-threadpool.hpp:637`: cancelling callbacks does not set the event others wait
  for; `:284`: a runner that is late with `SetEvent` may set an event that was reset for new work.
* `Shared/InterlockedQueue.h:49`: a Pop overtaken by a block of pushes loses that block.
* `YY_Thunks.cpp:1697`: the clean-up of private data frees the entry after the one it visits.
* `WS2_32.hpp:1727`: the service name is copied into `szName`; `:72`: `pOverlapped` is read after
  the completion routine, which may have freed it (both outside the data of the model).
* `api-ms-win-core-handle.hpp:409`: the branch that says no lock is needed has no `else` and goes
  on to take it; `:417`: duplicating into another process takes no lock, though it changes the
  count; `:125`: the third handle may be closed after the lock was given back.
* `WinHttp.hpp:79`: `GetResult` uses `pResult` before anybody tests it for null; `:589`: the
  result returned may be that of another request of the resolver.
* `api-ms-win-core-namedpipe.hpp:289`: the comparison of generations is of unsigned numbers and
  never true, so that the first slot of a full bucket is replaced, not the oldest; `:538` and
  `:552`: an ID is stored in the slot that was found, whatever has become of it since.

## 6. What is proved

TLAPS checks the proofs with SMT and Zenon, and LS4 for the temporal steps.

### The loader

`ThunkLoader_proofs` holds for every finite set of threads and every choice of the other constants
that `LoaderAssumption` admits.

| Theorem | Assumes besides `LoaderAssumption` |
| --- | --- |
| `InitIsExclusive`: `Spec => []InitExclusive` | - |
| `InitComesFirst`: `Spec => [](~leftWait => InitBeforeLookup)` | - |
| `LookupIsCorrect`: `Spec => []LookupCorrect` | `~TransientFailure` |
| `AnswersAreFinal`: `Spec => AnswerIsFinal` | `~TransientFailure` |
| `ModuleRefsAreBalanced`: `Spec => []ModuleRefsBalanced` | `~TransientFailure` |
| `UsedModulesAreLoaded`: `Spec => []ModuleLoadedWhenUsed` | `~TransientFailure` |

The arguments:

* `TypeOK` is inductive together with `FunOK` (a thread in a look-up has a function).
* `InitExclusive` is inductive on top of that: the status is `Wait` exactly while a thread is
  between its compare-exchange and its publication, so a second compare-exchange must fail.
* `InitComesFirst` is about threads that all start at once: exactly one of them fills the slots,
  and a thread can get past the check of `try_get_function` in two ways only, with a slot that is
  filled or through the wait. `StartInv` is its invariant: the cookie is drawn once, while nothing
  is encoded; the thread that fills the slots has yet to fill exactly those that are raw; and
  whoever looks a function up looks at a filled slot, be the status published or not. It holds
  until a thread leaves the wait, `leftWait`, which is finding 1: the theorem says that this loop is
  the only thing wrong with a concurrent start.
* `LookupCorrect` is not inductive: one must also know what every slot, cache and register holds.
  `AnswerInv` says that it agrees with what this Windows version answers. The assumption excludes
  a DLL that cannot be loaded for lack of memory and is loaded a moment later: then two threads
  really cache different answers.
* `AnswerIsFinal` follows step by step: only `FillSlot` and `StoreSlot` write a slot; the first
  writes raw slots only, and the second writes `SlotAnswer`.
* `ModuleRefsBalanced` counts threads. The steps that take or give back a reference move their
  thread into or out of the set of carriers and change its cardinality by one
  (`FS_AddElement`, `FS_RemoveElement`); `PresenceInv` keeps failed and successful loads of one
  module apart and says that a handle about to be used is cached. Neither needs `~leftWait`: even
  the broken start of finding 1 leaks no module.

### The barrier

`SyncBarrier_proofs` holds for every finite set of threads and any number of phases, whether they
spin or block, with or without store buffers, from `BarrierAssumption`.

| Theorem | States |
| --- | --- |
| `BarrierInvariance` | `Spec => []Inv`, the inductive invariant |
| `BarrierIsRendezvous` | `Spec => ImplementsRendezvous`, the refinement of `Rendezvous` |
| `NoWaiterIsStranded` | `Spec => []NobodyStranded` |
| `DeletedWithoutWaiters` | `Spec => []WaitersGoneWhenDeleted` |

Which threads have entered the phase in progress is read off the sense each of them saw
(`Current`): as its values are two, the proof needs that two threads are never more than one phase
apart (`PhasesAgree`). The count in memory is the number of threads still absent (`Counted`).
The last thread *closes* the phase until its store of `lRemainderThreads` reaches memory, be it from
its store buffer long after it has returned; until then everybody is inside and nobody can leave
(`Roles`), and the flip of the sense in memory, not the store, ends the phase. `Shape` says what a
store buffer can hold at each label, `Events` that neither the event of this phase nor that of the
next is signaled too early, `Winners` and `Totals` what has been counted. The refinement maps a
return to `Leave` of the rendezvous and everything else but the entry to a stutter.
`NobodyStranded` needs in addition that the event of a thread about to wait is marked
(`MarkedAndSignaled`), which is just what store buffers break: finding 2 loses a wake-up, and these
theorems say that nothing worse comes of it.

### The wait lists of WaitOnAddress

`WaitOnAddress_proofs` holds for any sets of waiters and wakers, of any addresses, with any timeouts
and any number of calls, if Nil is no waiter and nobody both waits and wakes (`WaitAssumption`, which
`Races` assumes as `BucketAssumption`). `Races_proofs` states the results for the bucket of `Races`.

| Theorem | States |
| --- | --- |
| `WaitInvariance` | `Spec => []WaitInv`, the inductive invariant |
| `ListsStaySound` | `W!Spec => []ListsAreSound` |
| `ReleasesAlwaysMeet` | `W!Spec => []ReleasesMeetWaiters` |
| `NobodyIsForgotten` | `W!Spec => []NoneForgotten` |

A list has any length, and an induction over it is out of reach. It is not needed: `Reach(f, b)`, the
blocks a walk from `b` meets, is the *least* set that has `b` and is closed under `f`, so that what an
induction would show follows from one well chosen closed set (`ReachLeast`). The lemmas at the head
of the module say what a push, the removal of a block, and a change of links elsewhere do to a list;
the actions cite them.

None of the three properties is inductive. `WaitInv` has five parts besides the types:

* `WaitLock`: the lock bit has one holder, an empty bucket has no bits, and the bit that asks for
  everybody to be woken is set only under the lock, whose holder will therefore see it; a waker that
  has taken out the last block, and the lock with it, does not walk on.
* `WaitHints`: the first `next` pointer of the list leads to its oldest block, and `notify` leads back
  from there to the block that has that pointer. Blocks behind it may have stale `next` pointers. The
  thread that works on the list holds the word it once read from the bucket: that block is still in the
  list, and the blocks pushed before it meanwhile have no links but `back`. A waker has its
  current block in the list behind that word.
* `WaitPlaces`: the blocks nobody has marked woken are those of threads that wait; each is in one
  place: the list of the bucket, a list somebody wakes entirely, or the hands of a waker that has
  exchanged it out of the bucket and has yet to mark it; and each of these lists ends. This is what
  a waiter relies on that gives up: if it does not find its block under the lock, somebody has it,
  and will mark it.
* `WaitWakes`: the keyed events still to be released are those of blocks that were asleep when they were
  marked, each once. Their owners wait, or have timed out and will notice the mark. A waiter that marks
  itself timed out first is not in any of these sets, which is why nobody releases into the void.

TLC has checked `WaitInv` on the instances of the run `races` before the proof was begun.

### The SRW lock

The first part of `KeyedEvent_proofs` holds for every finite set of threads, each with any modes and
any number of calls, if Nil is no thread (`LockAssumption`).

| Theorem | States |
| --- | --- |
| `LockInvariance` | `Spec => []LockInv`, the inductive invariant |
| `LockRefines` | `Spec => ImplementsRWLock`, the refinement of `RWLock` |
| `LockWalksAreSafe` | `Spec => []BlocksWait`, the lock's half of `NoDanglingBlock` |

The list is doubly linked and repaired lazily: from the word the links lead to older blocks, up to
the first block that knows the oldest one; from the oldest one back the links lead to newer blocks,
but only as far as somebody has repaired them. `Listed` says that the two halves fit: the walk along
`Older` ends, `notify` of its last block is the oldest, and the walk along `next` from there ends in
that last block. `Members` are the blocks of both. As for WaitOnAddress, no induction over the
length is needed: the lemmas at the head of the module say by closed sets what a push (`ListPush`),
a repair (`ListLink`), the removal of the oldest and a change of links elsewhere do.

The parts of `LockInv`:

* `LockWord`: the flags and the pointer agree; a lock several readers hold is locked, and while
  blocks wait the count is not in the word.
* `LockWaker`: one thread is between the claim of Waking and its reset. The word it read is old, but
  its newest block is still in the part of the list that awaits repair: blocks are only added in
  front and only this thread removes any. A thread that is about to take the list has read an
  unlocked word, so that no reader's count is in the list it takes.
* `LockList`, `LockPlaces`: each block whose owner sleeps is in the list or with one waker, never
  with two; a waker's chain ends; an event that is to be released has its waiter. `Asleep` ties the
  bit "waiting" to the place of the owner: as long as the bit is set the owner has not gone on,
  whoever reset it last decides who waits for whom.
* `LockHolders`: a writer inside is alone, and the readers inside are as many as the word says, or
  the oldest block once the first waiter has taken over the count. The last reader leaves by
  `"unlock"` and nobody else is inside then. This is what the refinement needs: `Grants` looks at
  the word only.

The proof has one lemma for each action (`...Step`), each part of the invariant in a step of its
own. The refinement maps `Acquire` and a successful `TryAcquire` to Enter, `ReleaseExclusive`,
`LeaveShared`, `DropShare` and the release of a single reader to Leave, everything else to a
stutter. TLC has checked `LockInv` on the instance of the run `keyed_event` before the proof was
begun.

### The condition variable

The last part of `KeyedEvent_proofs` holds for every finite set of waiters and every set of wakers
apart from it (`ConditionAssumption`), and any choice of timeouts.

| Theorem | States |
| --- | --- |
| `CvInvariance` | `C!Spec => []CvInv`, the inductive invariant |
| `ListIsSafe` | `C!Spec => []C!NoDanglingBlock` |
| `NoBlockDangles` | `Spec /\ C!Spec => []NoDanglingBlock`: the lock's half and this one |
| `WakesAreKept` | `C!Spec => []NoWakeLost` |

The parts of `CvInv`, each with the reason why the induction needs it:

* `CvWord`: the bit and the count beside it are set only while there is a list to work on.
* `CvHolder`: at most one thread has the list. The word it read may be old, but the block it read is
  still in the list, and every newer one leads to it without having been walked past (`Passes`).
  A thread that takes blocks one by one (`"take"`) has walked the list: each block back to the oldest
  knows its newer neighbour (`Mended`), so that the `next` it follows is never stale and never
  leaves the list.
* `CvList`: the list ends, and a walk from its top comes to a block that knows the oldest one
  (`Knows`). This fails in one place, `RtlpWakeSingle` between the exchange that takes its own block
  off the top and the walk that names a new top; `CvList` therefore excepts the label `"remove"`,
  and the proof of `RemoveInside` shows that the walk restores it.
* `CvPlaces`: each block of a sleeper is in the list or with one waker, never with two (`Placed`); the
  blocks a waker has taken come to an end (`Collected`). `Sleeps` ties the flag to the place of
  the owner: a set flag means the owner has not looked yet, a reset one that it sleeps, that its
  timeout has passed and it looks for its block (`"expired"`, `"remove"`), or that it did not find it and
  must wait a second time. That a waiter which found its block (`gone`) may return follows: its block is in no
  list and with no waker. `Clocks` says that these labels are only reached by a timeout.
* `CvOwed`: without timeouts, what the calls still owe is in the word of the thread that has the list,
  or is what that thread wants and has not taken yet; the comparison in its last exchange makes sure
  that nothing was added since. An upper bound is all `NoWakeLost` needs, and all that holds: the
  holder may be asked for more wake-ups than there are waiters.

The list lemmas are about any set of blocks and any links. `Met` has the walk as the least set closed
under the links, so that induction over a list of any length is the minimality of `Met`:
`PushedList`, `WalkTaught` (what a walk teaches the blocks it passes), `OldestTaken` (the oldest
block leaves, its neighbour becomes the oldest), `LastAlone`, `Skipped` (a block in the middle is
unlinked) and `Joined` (a block or a list is appended to what was taken). The numbers and the history
(`CvTypes`, `CvWord`, `CvOwed`) are carried through all actions together, the list has a lemma for
each action that disturbs it (`...Rest`). TLC has checked the invariant, also with all three waiters
timing out, before the proof was begun. `CalledReturn` is liveness and stays with TLC.

### InitOnce

The second part of `KeyedEvent_proofs` holds for every set of callers and every number of failures,
from `InitializerAssumption` (Nil is no caller).

| Theorem | States |
| --- | --- |
| `OnceTypeCorrect` | `O!Spec => []O!TypeOK` |
| `InitIsAlone` | `O!Spec => []InitRunsAlone` |
| `ContextIsAgreed` | `O!Spec => []ContextAgreed` |

`OnceInv` joins the three with `SharedPending`: an asynchronous thread that has to run InitFn
finds the word shared, or done by another one. Without it such a thread could be pending while
the word is new, a synchronous caller could begin beside it, and the induction fails at `Begin`.

### The shared data

The first part of `Process_proofs` holds for every finite set of copies and threads and any number
of unloads, from `SharedAssumption`.

| Theorem | States |
| --- | --- |
| `SharedTypeCorrect` | `Spec => []TypeOK` |
| `SectionBalanced` | `Spec => []HandlesAndViewsBalanced` |
| `DataLiveOn` | `Spec => DataKept` |

`HandlesAndViewsBalanced` says that handles and views are as many as their owners: threads
between the creation and the closing, copies whose pointer is the section, threads that have
mapped it and not yet published or unmapped it, and the handle that is kept. Each step moves one
owner into or out of one of these sets. `DataInv` (what a thread holds in `_pData` at each
label) makes it inductive. `DataKept` follows: once `flag` is set a handle is open for ever, so
the section exists and is opened, never created.

### The thread runner

`ThreadRunner_proofs` holds for every finite set of clients, tasks and workers and any number of
messages, from `RunnerAssumption`.

| Theorem | Assumes besides `RunnerAssumption` | States |
| --- | --- | --- |
| `UseIsCounted` | - | `Spec => []RefsBalanced` |
| `RegisteredIsServed` | `"class" \notin StartFailures` | `Spec => []WorkerWhileRegistered` |
| `TasksFreedOnce` | - | `Spec => []FreedOnce` |

`CountInv` adds three things to the count: a task has one owner (`TasksOwned`), so that a call and
the task it stands for are counted once; whoever starts or stops the worker has locked `uRef` alone
(`LockHeld`); and every reference, and every call still to get one, is due to a task of its own that
was allocated (`FewCarriers`), so that `uRef` never counts up to the value that locks it: what the
code takes for granted with MAXUINT32. `RegisteredIsServed` follows the window from the moment it is
announced to the client that waits for it (`ServedInv`): as long as a reference exists nobody stops
the worker. The assumption is needed: if RegisterClassW fails the client believes in a worker that
was never there.

`TasksFreedOnce` is about lists, and holds for a reason the code does not intend: the loop that
merges the pending tasks keeps only the oldest of them, so that the list the worker walks never has
more than one task (`ListShapes`). What a walk reaches is then known without an induction over its
length; of the pending list, which has any length, the proof needs only that it ends, that a push
adds one task to it, and that it does not change by links that are not its own. `OneWorker` says
that every other worker has locked the lists for the last time, so that what it took (`mine`) is its
own. `OnePlace` says where a task may be: not yet added, registered, in one of the lists, with one
worker, freed, or *stray*, behind a freed task a worker still looks at. The last case is the one that
breaks simpler invariants: a callback may unregister its own task, the worker frees it and then
writes to its link.

### The proxy resolver

The second part of `Process_proofs` holds for every finite set of requests, none of which is Nil, the
client or the resolver (`ProxyAssumption`).

| Theorem | States |
| --- | --- |
| `ProxyInvariant` | `X!Spec => []ProxyInv`, the inductive invariant |
| `ProxyRefsOutliveUse` | `X!Spec => []RefsOutliveUse` |

`ResolverCounted` and `RequestsCounted` equate the counts with their owners: requests that may still
use the resolver and its open handle; the callback, the result and the readers that hold a request.
That the counts are positive while somebody uses the object does not suffice: a reader asks for the
result before it has a reference. `ResultSound` says who keeps it alive meanwhile: the result is only
replaced under the exclusive lock, and whoever may ask for one (a request that succeeded, or a client
that was told) finds one.

### The thread pool

The third part of `Process_proofs` holds for all finite, disjoint sets of clients and runners, any work
objects and any number of submissions, from `ThreadPoolAssumption`.

| Theorem | States |
| --- | --- |
| `PoolInvariance` | `P!Spec => []PoolInv`, the inductive invariant |
| `PoolOutlivesUse` | `P!Spec => []OutlivesUse` |

`PoolCounted` says what each reference to the pool is for: its owner's, until CloseThreadpool gives
it back; one for all the runners together (`Group`), from the start of the first of them until the
last one leaves; one for each task that is queued, about to be pushed, or in the hands of a thread.
`RunnersCounted` ties that one reference to the count of runners in the pool's word: they are the
runners at work and the threads about to start one, of which at most one starts the first. This
is where the code could go wrong: between the exchange that counts the first runner and
QueueUserWorkItem the runners have no reference yet, and other threads may start more of them
meanwhile. Then the pool lives by somebody else's: a client that starts the first runner did so
before CloseThreadpool (`ClosedOnce`), and a runner that does has a task in hand
(`RunnersKeepPool`). `WorksCounted` counts likewise for a work object: its owner, the entries of the
queue, the threads that submit it and those that run or cancel it. A step of one thread moves each of these
counts by one at most (`MoveOne`); Push and Pop move an entry between the queue and a thread
(`PlacesAppend`, `PlacesTail`).

### The queue of the pool

The fourth part of `Process_proofs` holds for blocks of any size but 0 (`QueueAssumption`) and any number of
pushes, blocks and pops.

| Theorem | States |
| --- | --- |
| `QueueInvariance` | `Q!Spec => []QueueInv`, the inductive invariant |
| `QueueNothingLost` | `Q!Spec => []NothingLost` |

`QueueShape` says that the blocks form one list, with the ends of the queue on it. `QueueFill` says
that a block never holds more entries than it has room for; here the order of Push counts, which
asks whether the block is full before it stores. The two ends meet in one clause of it: a Pop that
has found its block empty and has not been overtaken by `BlockSize` pushes either finds no
successor or finds the block empty still, because the successor is linked only to a full block, to
which `BlockSize` entries were added since. `QueueOrder` gives every entry its number: there is
a function `base` with the number of entries before each block, and the entry at index `i` of block
`b` is number `base[b] + i + 1`. A store does not overwrite an unread entry, for indices less than a
block apart have different remainders (`RingsDiffer`); a new block starts where the full one ends
(`LinkNumbers`). That no entry is lost then follows by arithmetic (`QueuePromise`). The indices are
natural numbers in the model and `size_t` in the code: 1024 divides 2^32, so that neither the
remainders nor the comparisons change when they wrap.

### The pipe peers

The first part of `Races_proofs` holds for any sets of instances and processes and any number of slots, from
`PoolAssumption` (a process is the server or the client of an instance, and Nil is none of these).

| Theorem | States |
| --- | --- |
| `PoolInvariance` | `Spec => []PoolInv`, the inductive invariant |
| `PeersAlwaysMatch` | `Spec => []PeersMatch` |

Two facts carry the argument. A slot is unused, or it has an index and the IDs in it belong to that
index, or it is being replaced by the one process whose stamp it bears, which clears both IDs before
it gives the slot an index (`SlotsMatch`); this fails as soon as an ID is stored in a slot that has
changed hands, which is why the theorem speaks of behaviours without that (section 5 names the
places). And an instance is given a slot once, by its server before it registers (`CreatedOnce`): a
slot it has lost is never its own again, so that a client which read an ID in between sees the index
changed when it looks a second time (`AnswersMatch`).

### The comparison of handles

The second part of `Races_proofs` holds for every finite set of threads that compare and any number
of threads and handles besides, from `CompareAssumption`.

| Theorem | States |
| --- | --- |
| `HandlesComparedRight` | `H!Spec => []ComparesRight` |

The code compares the counts of the two objects with a third handle of the first object open, and
if they are equal once more after it closed that handle. `CompareInv` says what a comparison that nobody
disturbed knows at each of these steps (`Undisturbed`): two objects with equal counts at the first
look are one count apart at the second. It needs that a thread under the exclusive lock is alone
(`CompareLock`) and that the third handles are counted (`CompareTypes`), those another comparison
has yet to close without the lock included: they are what may disturb it. Two handles of one object
count for two (`TwoHandles`), which is why an object with a single handle settles the question at
once. A call that fails only ends a comparison with FALSE, `failed`, and leaves its third handle to
`CloseLate`.

### The name lookups

`AddrInfoQuery_proofs` holds for every finite set of threads that cancel, none of which is the
callback; `Process_proofs` states the last two for `Process` (`LookupBlockOutlivesUse`,
`LookupCancelIsReported`).

| Theorem | States |
| --- | --- |
| `LookupInvariance` | `Spec => []Inv`, the inductive invariant |
| `BlockOutlivesItsUsers` | `Spec => []BlockOutlivesUse` |
| `SuccessfulCancelIsReported` | `Spec => []CancelIsReported` |

`Counted` is the balance of the references: the users of the block and the handle, as long as the
block is in it or with the callback that has just taken it out. It is an equation for a handle that
was stored in time and an inequality for one stored late, which the callback overwrites together
with its reference (finding 5). It needs that only one exchange finds the block (`Exchanged`); this
in turn that a handle which still holds it, if stored in time, was touched by nobody
(`Untouched`). `Reported` says that the one thread which finds `HasSignalCompleted` unset is alone
until it has reported, and `Cancelled` that after a cancellation the handle, the callback and the
reports all say so.

### Only model-checked

* Liveness and ENABLED, which are out of the prover's reach: every property in section 4 that says
  something happens at last.
* The power requests, and the findings.

## 7. What is not modelled

* Code that is not live at any accepted target and holds little concurrency: FLS, hook thunks and
  the TLS repair for Windows XP.
* Of the thread pool: timers, waits, I/O objects, cleanup groups and the objects a callback gives
  back when it returns. They are objects of the same kind as work objects on the same queue.
  `QueueUserWorkItem` is taken to succeed: when it fails,
  `PostWork` gives a reference back but leaves the runner counted that never started
  (`api-ms-win-core-threadpool.hpp:424`): the reference is the other runners', if there are any,
  and if there are none nobody runs the task. No text of the repository says what should happen.
* Of the loader: the `.CRT$XTY` terminator of a static exe while other threads of the program still
  call thunks. It frees the modules under them; nothing in the source speaks of it.
* Of the shared data: the loop of `FreeYY_ThunksSharedData` over the list of DLL directories.
  Of the runner: its 15-second limit; a start that takes longer leaves a thread that writes
  through a dead stack frame, undefined from there on.
* `DnsQueryEx` and `DnsCancelQuery` (`dnsapi.hpp`), which share one status word between the caller
  and a pool thread: the exchange that stores the result may overwrite a cancellation, and the
  cancellation always reports success, but no text of the repository says what a caller may
  expect. The notifications of `Iphlpapi.hpp` are below Vista: not live.
* Of the pipe peers: the second pool and the mapping of both; a server that disconnects and
  connects again, after which the ID of the old client is still in the slot.
* Of name lookups: GetAddrInfoExA, which repeats GetAddrInfoExW; of the handle comparison: the
  attributes it compares first; of the resolver: parsing and the status callback set later.
* DLL directories (every access under one SRW lock, whose promise `RWLock` states), MTA usage (a
  question of durations) and HSTRING (sequential but for a count).
* Thunks that forward, convert arguments or fail: no state of their own. `bcrypt`,
  `localization`, `shell32`, the rest of `WS2_32` and their like are the bulk of the source,
  together with the declarations (`km.h`, `YY_Thunks_Declarations.hpp`, `src/compat/`) and generated probes. So
  the models translate a small share of the lines and most of the state shared by threads.
* Weak memory beyond store buffers: x86 and x64 are the only processors of the port.
* The generator, the build and the Rust crate, which holds a copy of the same sources.
