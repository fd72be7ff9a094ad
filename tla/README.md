# Verification of jlrs

jlrs lets Rust programs embed Julia. Its own logic, as opposed to the bindings it
wraps, is about two things: *who runs what where* (an async runtime that moves tasks
from user threads to threads Julia knows) and *what keeps Julia data alive* (frames,
roots and the collector). This directory models both in TLA+, checks small instances
with TLC and proves the central invariants for every instance with TLAPS. Paths below
are relative to `src/jlrs/src/`.

## Inventory

| component | state | operations | depends on |
|---|---|---|---|
| queues and dispatch (`runtime/async_rt/queue.rs`, `dispatch.rs`, `async_util/affinity.rs`) | a main, a shared and a worker queue with capacities; the number of senders | `dispatch_*`, `try_dispatch_*`, `resize_*`, clone and drop of a sender, `recv_main`, `recv_worker` | deadqueue (external) |
| runtime loops (`runtime/async_rt/mod.rs`, `adopted.rs`, `builder.rs`) | per thread: free stacks, running tasks, where its loop is; `INIT` | start, receive, spawn, run a blocking task, drain, join, exit | queues, executor, stack frames |
| envelopes and persistent tasks (`async_util/envelope.rs`, `task.rs`) | the stack they run on, one-shot result channels, the input channel of a persistent task | `call`, `post`, `init`, `run`, `exit`, `register` | root stack, runtime loops |
| root stack and frames (`memory/context/stack.rs`, `memory/target/*`) | a vector of roots that Julia's collector marks; offsets of frames; reserved slots | `scope`, `async_scope`, root, output, reusable slot, `reconstruct` | collector |
| pinned and local frames (`memory/stack_frame.rs`, `memory/target/frame.rs`) | the chain of gcstack frames of the current Julia task | pin, `local_scope`, pop | Julia, catch |
| GC-safe primitives (`gc_safe/`) | the state of the thread (GC-safe or unsafe) and a lock or a cell | lock, unlock, bump, upgrade, get-or-init, wait | collector |
| Julia futures (`async_util/future.rs`) | `TaskState`: completed, waker, the Julia task | new, poll, wake | executor, Julia's scheduler |
| catch (`catch/`) | a Julia exception handler around a Rust closure | catch exceptions and panics | frames |
| starting Julia (`runtime/sync_rt.rs`, `runtime/async_rt/mod.rs`, `lib.rs`) | `INIT`, `IS_INIT`, whether Julia runs | start, `init_jlrs`, instance, exit hook | Julia |
| library init functions (`jlrs_macros/src/module/`, `data/types/foreign_type.rs`) | the registry from Rust types to datatypes, what a Julia module binds | create, reinitialize, look up a type | starting Julia, precompilation |
| calls from Julia (`ccall.rs`) | a thread pool, one `DispatchHandle` per call | dispatch, set, notify, join, resize the pool | ledger |
| ledger and tracked data (`memory/context/ledger.rs`, `data/managed/value/`, `data/managed/array/`) | counts of shared and exclusive borrows | track, clone, convert, drop | - |
| caches (`data/managed/module.rs`, `symbol.rs`, `data/types/construct_type.rs`) | maps from paths to globals with their types | look up, fill | GC-safe locks |
| static data (`data/static_data.rs`) | atomic pointers to global data | get or initialize | GC-safe cells |
| collector control (`memory/gc.rs`) | enabled or disabled | enable, collect, safepoint, mark | Julia |

The rest of the repository wraps pointers and functions of Julia's C API (managed data,
layouts, conversions), declares bindings or generates code; it keeps no state of its own.

### How the parts interact

A user thread shares an `AsyncJulia`, which owns the only `Sender`. It moves a task,
boxed in an envelope, into one of three queues. The main runtime thread reads the main
and the shared queue, a worker the worker and the shared queue. A thread that received
an async or a posted task takes the index of a free stack, and spawns a future on its
local executor that calls the envelope on that stack and returns the index; a blocking
task is called in the loop, on the sync stack. The envelope creates the base frame of
the stack. Everything rooted while the task runs goes to that stack; the stack is a
foreign object that the collector marks through jlrs. Dropping the frame's owner pops
the roots, on return, on panic, and when the future is dropped.

A persistent task is an envelope that takes a stack for as long as it has handles: its
handles send calls through a channel, and the task answers each through a one-shot
channel. It may own a handle to the runtime and start tasks on its own thread.

A library that Julia loads has its own copy of jlrs, with its own flags and caches. Julia
calls its init function when it includes the module's source, precompiles it, or loads
its image; the function creates or finds the datatypes of the library's types. Functions
the library exports may track their arguments in the ledger and go on in a thread pool,
which hands the result back through Julia's event loop.

### What is hard

- *Concurrency*: two kinds of threads race for a shared queue; queues are resized while
  dispatches wait; the channel closes while messages are queued and tasks run; the
  collector runs between any two steps and may skip old objects; threads race to start
  Julia, to make the first value of a type, to fill a cache; a pool's thread sets a flag
  that Julia spins on.
- *Failure*: async tasks panic inside an executor that catches it, blocking tasks unwind
  the loop itself, futures are dropped while a task waits, the initialization fails after
  the user got a handle, exceptions jump over frames, callbacks panic, processes are
  killed while they precompile.
- *Liveness*: workers wait without a timeout, no thread receives while its stacks are in
  use, nobody wakes a receiver when the last sender is dropped, a caller waits for a task
  that is gone, a thread waits for a lock it holds.
- *Order*: stacks are returned in any order; outputs reserved in outer frames are set
  from inner ones; the frame of a persistent task is reconstructed at an offset taken
  long before; types are created in an order their parameters follow.
- *Stale state*: an image holds function pointers of another process; the cache of
  globals remembers the type the first caller asked for; a future remembers the first
  waker.

### What makes each component correct

Queues: nothing is lost, doubled or over capacity, and "closed" is final. Runtime: a stack
has one user, a task runs once and where its affinity allows, shutdown waits for
everything and happens. Roots: a reference is backed by a slot of the frame it names until
that frame is closed. GC-safe primitives: a thread that waits for a lock does not keep a
collection from starting, and no thread touches Julia data in a GC-safe state. Futures:
the task that polls is woken after the Julia task completes, whatever the order.
Persistent tasks: calls are answered once and in order, and a call nobody will answer
fails. Starting: Julia starts once, and whoever gets a runtime can use it. Types: one
datatype per Rust type and process, the one the module binds, with the mark and sweep
functions of this process, except where an older Julia has no way to get them. Frames: the
chain consists of the scopes that have not ended. Ledger: counts agree with guards, and
writing is exclusive. Calls from Julia: every job runs, and its borrows end. Caches: a
cast without a check is right.

## Modules

| module | models | composes or implements |
|---|---|---|
| `TaskPool` | the promise of the runtime, without queues, stacks or loops | |
| `DispatchQueues` | the queues and every step of a thread that sends | |
| `AsyncRuntime` | the main thread and the workers | extends `DispatchQueues`, implements `TaskPool` |
| `AsyncRuntimeProofs` | theorems about `AsyncRuntime`: types, stacks, channel, affinity, the life of a message, parking, shutdown, and that it implements `TaskPool` | |
| `ScopedRoots` | the promise of frames: nested lists of roots that keep data alive | |
| `RootStack` | a stack, its frames and tokens, the collector | implements `ScopedRoots` |
| `RootStackProofs` | theorems about `RootStack`, and that it implements `ScopedRoots` | |
| `GcThreads` | the states of threads, `gc_safe`, `gc_unsafe`, and stop-the-world collections | |
| `GcSafeLocks` | the raw mutexes and the raw read-write lock | extends `GcThreads` |
| `GcSafeOnce` | the cell that is initialized once | extends `GcThreads` |
| `GcSafeProofs` | theorems about `GcSafeLocks`, `GcSafeOnce` and `GlobalCache` | |
| `JuliaFutures` | futures for tasks that Julia runs | |
| `JuliaFuturesProofs` | theorems about `JuliaFutures` | |
| `CallService` | the promise of a persistent task to its callers | |
| `PersistentTasks` | persistent tasks on the stacks of one thread, their channels and handles | implements `CallService` |
| `PersistentTasksProofs` | theorems about `PersistentTasks`, and that it implements `CallService` | |
| `Ledger` | borrows of tracked data and the guards that hold them | |
| `AsyncCalls` | calls from Julia that continue on a thread pool | extends `Ledger` |
| `AsyncCallsProofs` | theorems about `AsyncCalls` and `Ledger` | |
| `LocalFrames` | the chain of gcstack frames under scopes, panics and exceptions | |
| `LocalFramesProofs` | theorems about `LocalFrames` | |
| `GlobalCache` | the cache of typed globals behind its lock | |
| `Startup` | starting Julia and jlrs, from several threads and copies | |
| `ModuleInit` | init functions, the registry, images and processes | extends `Startup` |
| `ModuleInitProofs` | theorems about `ModuleInit` and `Startup` | |
| `MCAsyncRuntime`, `MCRootStack`, `MCPersistentTasks`, `MCModuleInit` | values of constants for TLC that a configuration cannot write | |

Definitions marked *faulty variant* are what the code would be with a plausible bug.
No specification uses them; they show that the properties can fail.

### DispatchQueues and AsyncRuntime

`queue` and `capacity` are the three deadqueues, `n_senders` the atomic counter,
`holders` the threads with a share of the handle, `sending` a dispatch future that waits
for room. `Dispatch` creates such a future, `Push` resolves it, `CancelDispatch` drops
it; `TryDispatch` is the body of `Sender::try_send` including what it does with a refused
item. `fate` is a history variable: what became of each message. `Sender::clone` has no
caller in the repository, so `n_senders` only moves when the last share is dropped.
`Resize` sets any capacity of the set `Capacities`, which may contain 0, as `resize_queue`
and the others accept it: a queue that can hold nothing takes no message, and who waits to send one waits
until it is resized again.

`pc` says where the loop of a thread is: at its head, awaiting with a timeout (`recv`) or
without one (`park`), running a blocking task (`sync`), draining, joining. `free` is the
deque `free_stacks`, `running` the array `running_tasks`. A spawned task makes progress
only where the loop awaits (`AtAwait`), because the executor is local to the thread. A
posted task is in use until the Julia thread that runs it has answered *and* the loop
polls the future again. `Handle` is the `match` on the message; `Include` and
`ErrorColor` are blocking tasks. Deadqueue, `Arc` and the executor are external: a
bounded FIFO queue whose push waits, a shared pointer, and a set of futures polled at
awaits. That the executor catches the panic of a spawned task, which drops its future and
nothing else, is what tokio does; with async-std it would unwind into the loop, as the
panic of a blocking task does in the model.

The refinement maps a message to its status and to the thread that runs it.
`TaskPool` bounds the tasks of a thread by `N + 1`: its stacks and the sync stack. Its
`Unwind` is a blocking task that panics: it ends the thread and the tasks on it, and what
only that thread may run can be left behind when the pool stops.

### RootStack

`slots` is the vector of roots, `offsets` the offsets of the open frames, `tokens` the
outputs and reusable slots, and `refs` what Rust code may still use, each with the frame
whose lifetime it has. The guards on `refs` and `tokens` are the borrow checker's: they
end with their frame, a temporary reference ends when its token is used again, and only
the innermost frame roots. `mode` and `kept` are the persistent task: `InitReturns` reads
`stack.size()` and `Reconstruct` is `GcFrameOwner::reconstruct`, which makes the frame of
a call or of `exit`. `call_run` nests a frame of its own in it for `run`, at the same
offset, and drops that frame's owner when `run` returns or unwinds; the two are one frame
of the model, and `CallReturns` pops what the call rooted. `exit` gets the reconstructed
frame itself: what it rooted stays until `init`'s frame goes, right after it. The state of
a persistent task may hold `init`'s frame itself and root data in it later
(`RootInKeptFrame`); what it keeps that way is in `stateRefs`, apart from `refs`, because
it is the one thing that can dangle: it goes with the roots of the call.

The collector is external. A full collection marks the stack through
`ForeignType::mark`; a quick one marks it only if it is young or in the remembered set,
and frees young data only. Everything that survives is old at once; Julia promotes after
two collections, which only makes quick collections weaker. `Store` is a write of a root
with its `jl_gc_wb`.

The refinement maps frame `k` to the part of the stack that starts at its offset. After
`exit` the last frame ends at `kept`, so the leftovers of `exit` are in no frame, although
the collector still marks them.

### GcThreads, GcSafeLocks and GcSafeOnce

`gcState` is the state a thread shows to the collector; `"waiting"` is a thread stopped
at a safepoint. `calls` is the Rust call stack as far as it matters: one entry for each
nested closure or blocked primitive, with the state it returns to. Every `enter` pushes
the state it found and every `leave` pops it, as the locals named `state` in the code do.
`SetGcState` is Julia's `jl_gc_state_set`: it waits for the collection only if it is told
that the thread goes from safe to unsafe, which is why the two kinds of leave are not
the same function. `Collect`, `Safepoint`, `Mark` and `Resume` are the collector.

The three raw locks have one shape: try, else enter a safe state, wait in parking_lot,
leave. `GcSafeLocks` models one lock that is taken in the modes of the constant `Modes`;
a mutex has one mode. `Granted` and `LeaveLock` are two steps because a thread owns the
lock while it still waits for a collection to end. A thread that such a method blocks is
`"blocked"`. The timed methods (`"timed"`), `bump` and `lock_shared_recursive`
(`"unguarded"`) go straight to parking_lot in whatever state the thread is in; a thread
that the latter two block in an unsafe state is `Stuck`, and the liveness properties
promise nothing while one is. parking_lot is external: a waiting thread is granted the
lock when it is available; readers are kept out while an upgrade waits. Its
queue and its writer bit, which only order the waiting threads, are left to the fairness
assumption.

In `GcSafeOnce`, `cell` is the state of the once_cell. An initializer is user code again,
nested in the wait of its own thread; it may use `gc_safe` but not the cell, which would
wait for itself. `CallInit` makes the thread unsafe for it, also when `get_or_init` was
called in `gc_safe`. `Panic` unwinds to any enclosing closure that catches it, through
initializers and through `gc_safe` and `gc_unsafe`; nothing on the way sets the state back.
The code that catches the panic then runs in the state of the code that panicked. That is
its own state unless one of the two, and not both, was called by `gc_safe`; where it is
not, `torn`, a history variable, remembers the depth, until the code there returns
(`Mends`: the call it returns to is set back to the state it was left in) or another panic
passes. `StateKept` is what holds for all other code. While code is torn, the thread may be
safe though nothing called it by `gc_safe`, or unsafe in `gc_safe`: code in `gc_safe` that
a panic of an initializer or of `gc_unsafe` left unsafe may never reach a safepoint, and is
`Stuck` like a thread in `try_insert`, which waits in whatever state the thread is in. A
thread that was left safe starts no collection in the model. `Fallible` adds
`get_or_try_init`, which no code of the repository calls.

### JuliaFutures

`state` is `TaskState` under its mutex, `refs` the strong count of the `Arc` around it.
`Call` gives a share to Julia with `Arc::into_raw`, `CallReturns` stores the task;
between them Julia may complete the task and call `wake_task`. A context is whatever
polls a future and has a waker of its own, a task of the executor for instance; `due`
says that it will poll. `Wake` makes it poll everything it has. `Move` hands a pending
future of the set `Movable` to another context, which polls it; the others stay.

### CallService and PersistentTasks

`stage` is where the envelope of a task is: dispatched, received, in `init`, waiting for
a call, in `run`, in `exit`, gone. `chan` is the channel between the handles and the task;
`Channel` and `Capacity` say which implementation it has: tokio's bounded channel (which
cannot be created with capacity 0), its unbounded one, or async-std's, where the sender
only notices that the receiver is gone when it is. `call` is the fate of each call.
`FreeStack` returns the stack when the future of the task ends; a panic skips it.
`rt` and `senders` are the loop of the thread and the runtime's handles, kept because a
task that owns one keeps the runtime up. Calls that are queued when the task is dropped
are dropped with the channel, and their callers get an error (`Settle`).

`CallService` sees only calls: accepted, running, answered or failed. It promises that a
task runs one call at a time, in the order in which they were accepted, ends only when it
owes no answer, and loses calls only by dying. A task that dies may be the caller of
another, or the last that held a handle to one that died earlier, so one step settles
calls of several tasks (`Lose`).

### Ledger and AsyncCalls

`shared` and `exclusive` are the counts of JlrsLedger (external), `guard` the tracked
values and arrays that exist, each with its owner. Values, arrays and immutable data are
tracked by different functions that record different things; guards are cloned and
converted; a drop asks the ledger only whether the data is mutable. `LedgerExact` and
`NoAliasedBorrow` say what is left of the accounts and when two guards may overlap.

A job of `AsyncCalls` is a call from Julia: its body tracks arguments and dispatches a
callback that owns the guards, the pool runs it and drops it, `Set` stores the result,
`Notify` wakes Julia, and `Join` is `DispatchHandle::join` with its
spin on the flag and its `Arc::try_unwrap`. `Direct` are jobs that are joined without
waiting for the notification. The pool's size is what `set_pool_size` last set.

### LocalFrames

`stack` is the calls in progress that matter, each with what it found as the head of the
chain; `head` is the head of the chain the collector walks. A frame is known by its
depth, so a frame that ended and another one at the same depth have the same address, as
they do in memory. `Unpin`, `LocalReturns` and `TryEnds` restore what they saved;
`LocalUnwound` is a local scope through which a panic passes, which has nothing that
restores; `Throw` is an exception that jumps to a try-block, which restores. `scar` is
not in the code: it remembers the outermost call above which the chain may be wrong
because a panic was caught, until that call, or one below, restores it.

### GlobalCache

`entry` is the map, `look` a call of `typed_global_cached` at its places: waiting for the
lock to read or to write, fetching the global from Julia, or formatting the value for an
error while the read guard is alive. `inner` is the lookup that code run by that
formatting may make on the same thread. `Entangled` is the state in which such a lookup
waits for a writer, that waits for the outer one.

### Startup and ModuleInit

`Startup` has the two flags that stand between several threads and Julia: the check that
Julia does not run, the swap of `INIT`, then Julia itself, then `init_jlrs` with its own
flag, which stays set if it panics. `copy` is the state of each copy of jlrs. Sync starts
may drop their instance and make another one. An async start may fail after Julia was
started, in `init_jlrs` or in `set_custom_fns`: it then ends without the exit hook, and
leaves Julia on and `INIT` set.

`ModuleInit` runs in such a process. `Order(lib)` is what a build of the library exports,
in the order the generated function handles it, and `step` the number it has handled. A
datatype is the set of the names, the processes and the kinds it was made of, so that
applying a generic type to parameters is a union. `bound` is what the Julia module binds
and `image` what precompilation saved of it, for the Julia version of the build
(`since_1_9`). `registry` is `FOREIGN_TYPE_REGISTRY`; `hooked` are the datatypes Julia was
given this process' functions for. `ReinitType` gives it those of a foreign type only since
Julia 1.9, and `Abort`s if the datatype is not a foreign one, which happens when the type
was opaque in the build that made the image; before 1.9 `reinit_foreign_type` only
registers the datatype. The init function looks in the registry and adds to it under two
separate locks; it is one step in the model, because it runs once, on one thread, before
anything else can use the library's types. `into_julia` has no such excuse, and holds one
lock for its second look and for what it adds. `NextProcess`
ends the process at any point, may rebuild the library, and starts another one; `Miss`
and `Make` are two threads in `into_julia`.

## Runs

| run | question | bounds |
|---|---|---|
| `runtime_workers` | Are messages, stacks, affinities and shutdown right, also if tasks panic, and is the runtime a `TaskPool`? | 3 messages of 3 kinds and 2 affinities, 2 users, 1 worker, 2 stacks, capacity 1, resized to 0 or 1; an async and a blocking task may panic |
| `runtime_live` | Is everything accepted handled, does every dispatch resolve, does the runtime stop unless a worker is parked? | 3 messages, 1 user, 1 worker, 1 stack, capacity 1, resized to 0, 1 or 2, no panics |
| `runtime_idle_worker` | Does the runtime stop when a worker is idle? (no) | the same |
| `rootstack` | Does any reference dangle? Do frames own their roots? | 2 values, 3 slots, 3 frames |
| `gcsafe_locks` | Can a thread touch Julia data while the heap is marked? Are states restored? Does waiting for a lock ever stop a collection, or a collection the lock? | 2 threads, all modes, depth 2, 2 collections |
| `gcsafe_once` | Are waits for the cell safe and states kept, and does whoever initializes the cell get an answer? | 2 threads, initializers and closures fail and panic, 1 thread in which a panic that passes through `gc_safe` is caught, depth 2, 2 collections |
| `futures` | Does the shared state live as long as it is used? Is every completed future polled again? | 3 futures, one of which may move, 2 contexts |
| `persistent` | Are persistent tasks a `CallService`? Do they start, settle their calls, and end? | 3 tasks with channels of capacity 1, 0 and none, a user and a task that owns a handle, 2 calls, 2 stacks |
| `ccall` | Do counts agree with guards? Does every job run and every borrow end? | 2 jobs, one of which may panic and one of which is joined directly, a thread, an array and immutable data, 2 guards, 2 borrows, a pool of 1 or 2 |
| `frames` | Is the chain made of the scopes that have not ended? | 6 nested calls |
| `globals` | Is the unchecked cast right? Does every lookup return? | 2 threads, 2 globals, 3 types, 1 nested lookup |
| `sessions` | Is Julia started once? Does the registry agree with the module in every process? | 2 sync and 1 async starts, 2 copies, 5 builds for 2 Julia versions, 2 users of a type, 3 processes |

A property is the conjunction of named parts where several parts describe one thing:
`RuntimeOK`, `ChannelSound`, `StackOK`, `TasksOK` and so on. What each part says is at its
definition.

Three messages are one more than a queue of capacity one and a receiver can hold, so
queues fill, dispatches wait, and stacks run out; with two stacks tasks return them out of
order; with capacities zero and one a resize shrinks a queue that is full, and one that
nothing fits in grows again. Two messages are in one queue in the liveness runs only, which
also resize to two; the proofs hold for any capacities. Two users are needed to drop one
share and not the other. Three slots and frames let a token of an outer frame be set from two levels further
in, with a root of a frame between them; the second value tells the roots of two calls
apart. Two threads are a holder that collects and a thread that waits, in either state;
what a third could add to the states is covered by the proofs, which hold for any number.
Depth two nests a wait in a closure and an initializer in a wait, the wait in turn in
`gc_safe`; an initializer that itself calls `gc_safe` needs depth three, and is left to
the proofs. One thread whose caught panics tear is enough for the other to wait for it.
The second collection starts while threads still leave the first. Three futures with two
contexts let one move into a context that another one is polled in, so that wakers are
shared.

Two calls are one that runs or fills a channel of capacity one and one that is queued or
waits for room. Two stacks are fewer than there are tasks, so tasks compete for them and a
task can wait for another that waits for its stack; two are also what it takes for a task
to call, outlive or panic under another one. The third call, and a second user in place of
the third task, each take a run past five minutes or close to it. Two guards are what an
aliasing pair needs, and two borrows a clone. Six calls hold a try-block or a guard, a
pinned frame in it, two scopes, and what is pushed after a panic at the place where they
were; proofs cover any depth. Three processes make an image, load it, and make or load
another one with a rebuilt library. The builds in `MCModuleInit` differ where it could
matter: a type with two names, generic types inside generic types, a name that is missing
in the other build, a type that is needed but not exported, a type that is foreign in one
build and opaque in another. Three are for Julia 1.9 or newer and two for an older one. No
two of them bind one name to different types.

`MaxSize`, `MaxDepth`, `MaxCollections`, `MaxBorrows` and `MaxProcesses` are the only
bounds on counters; `Capacities` bounds what a queue is resized to, and `Catchers` who may
catch a panic in a wrong state. Users and values are symmetric in `runtime_workers` and
in `rootstack`; no run with a liveness property uses symmetry.

Deadlock is checked for the root stack, the futures and the frames, which can always go
on or are finished. It is not for the runtime and the persistent tasks, where a user may
keep a handle and do nothing and where a worker that is never woken is a finding of its
own run, nor for the locks and the cell: a lock and a collection really wait for each
other once a thread is stuck, and every thread may wait for a cell that nobody fills. The
jobs of `ccall` end, a lookup of `globals` may wait for a lock its thread holds, and the
last process of `sessions` ends. There the other properties say what must not stop.

### Fairness

`FairSpec` assumes that the operating system runs every thread and every loop whose
future is ready gets polled (weak fairness of each thread's loop), that tasks return
(weak fairness of each task) and that a pending push gets room when there is some again and
again (strong fairness of `Push`: deadqueue's semaphore is FIFO, and users may resize the
queue to 0 and back in between). Users are not assumed to do anything. The liveness runs
have no task that waits for another task; see *Not modelled*.

`GcSafeLocks` has no assumption on who locks when. Its `FairSpec` assumes that critical
sections and timeouts end, that a thread whose lock is available again and again is
granted it (parking_lot hands a lock over after at most half a millisecond), that code
that may call into Julia comes to a safepoint again and again, even if it takes and
retries locks in between (strong fairness of `Safepoint`), and that the collector runs.
Nothing makes a blocked thread reach a safepoint: that is the point. With two threads
strong fairness of `Granted` demands nothing of parking_lot that its writer bit does not
give; with three, readers could take turns for ever. `GcSafeOnce` assumes the same of the
collector, that initializers return, and that once_cell does not let a woken thread lose
every race. `JuliaFutures` assumes that constructors return, that Julia's tasks finish and
that a woken executor polls.

`PersistentTasks` assumes that the loop and the tasks are polled and that the methods of a
task return; no user has to drop a handle, and `DispatchedStarts` says which stacks do not
come back because nobody does. `AsyncCalls` assumes that the threads of the pool run, that
callbacks return or panic, and that Julia, once notified, joins. `GlobalCache` assumes
that the lock serves who waits for it and that Julia's code returns. `LocalFrames` and
`ModuleInit` state safety only.

## What disagrees with the documentation

One disagreement has a run of its own: a worker that is idle when the last handle is
dropped never ends, so the runtime does not shut down (`runtime_idle_worker`).

The others are definitions that state what the documentation says and do not hold. To see
one fail, check it with the configuration named here, changed as the table says.

| claim | definition | configuration |
|---|---|---|
| The runtime shuts down after all active tasks have completed (`runtime/async_rt/mod.rs`): a task that panics keeps its entry in `running_tasks` | `AsyncRuntime!ShutsDown` | `runtime_live` with `Workers = {}`, `HasWorkers = FALSE`, `MayPanic = {m1}`; without `MayPanic` it holds |
| A full queue returns the message (`dispatch.rs`): `try_dispatch_*` drops it and reports success | `AsyncRuntime!TryDispatchReturnsMessage` | `runtime_workers` |
| The state of a persistent task can contain data rooted in the frame of `init` (`async_util/task.rs`): a root it makes during a call is popped while the reference lives | `RootStack!StateStaysAllocated` | `rootstack` |
| `gc_safe` returns to the previous GC state (`memory/gc.rs:263`): a panic that passes through it leaves the thread safe | `GcThreads!StateRestored` | `gcsafe_once` |
| The closure of the cell runs while no collection does: `get_or_try_init` leaves its safe state with `jlrs_gc_unsafe_leave`; nothing in the repository calls it | `GcThreads!StopTheWorld` | `gcsafe_once` |
| A future resolves when the task is finished (`call.rs:396`): it keeps its first waker, and combinators such as `FuturesUnordered` poll with others | `JuliaFutures!MovedFutureResolves` | `futures` |
| `handle_sender` is used after `init` has completed (`runtime/async_rt/mod.rs:317`): with the default `CHANNEL_CAPACITY` tokio panics before `init` | `PersistentTasks!InitIsCalled` | `persistent` with `MayPanic = {p}` |
| `join` waits for the value and returns it (`ccall.rs:410`): it may find the `Arc` still shared after it saw the flag, and panic | `AsyncCalls!JoinReturns` | `ccall` |
| An exclusively tracked array cannot be tracked otherwise (`data/managed/array/mod.rs:635`): a clone of its guard is a shared guard | `Ledger!ExclusiveIsAlone` | `ccall` |
| The roots of a scope are removed when it ends (`memory/target/frame.rs`): not those of a local scope that a panic unwinds and somebody catches, and a new frame at the same address links to itself | `LocalFrames!EndedScopesAreGone` | `frames` |

More were met while modelling and are built into the models, without a definition:

- The timed methods, `bump`, `lock_shared_recursive` and `try_insert` block without
  entering a safe state, though `gc_safe/mod.rs:8-10` promises one; the liveness
  properties exempt threads they block (`Stuck`).
- A queue may be resized to 0 (`runtime/async_rt/mod.rs:162-210`), although the builder
  refuses that capacity: dispatches to it stay pending, and `DispatchResolves` promises
  nothing of those that wait for such a queue for ever.
- Before Julia 1.9 a foreign type that comes from an image keeps what the image holds in
  the place of its mark and sweep functions (`data/types/foreign_type.rs:1155-1162`);
  `HooksAreCurrent` exempts these types.
- After `NotFound`, every later start is refused as already initialized, although Julia
  never started; after a panic in `init_jlrs`, `IS_INIT` stays set and the allocation of
  the first stack panics instead. If `set_custom_fns` fails in an async start, Julia stays
  on without a runtime and without its exit hook.
- `typed_global_cached` refuses a function as `Function` once it was cached as `Value`,
  and formats that error with the lock held (`data/managed/module.rs:131-141`).
- The blanket `ParametricVariant` does not forward `IS_FOREIGN`, so the sweep functions of
  its foreign variants are never scheduled (`data/types/foreign_type.rs:1239-1296`);
  `HooksAreCurrent` is about the functions Julia was given.
- A stale image lacks constants that a newer build exports, silently; a second module that
  wraps the same library gets nothing from the init function.
- tokio's `mpsc::Sender` as the receiver of a result uses `blocking_send` on a runtime
  thread, where tokio panics (`runtime/async_rt/tokio_rt.rs:177`).

## Proofs

`AsyncRuntimeProofs` assumes `QueueAssumption` and `RuntimeAssumption`: affinities and
kinds are functions of the messages, queues start with a positive capacity, the main
thread is no worker, there are workers exactly if the builder says so, and "no message",
which also stands for "no thread", is no thread. It proves, for any sets of threads, users
and messages and any number of stacks, the types, `StackPartition`, `QueueBounded`,
`ClosedIsFinal` and `AffinityRespected`. The inductive invariant has one part about queues
and senders and one about threads. `StackPartition` alone is nearly inductive: what it
needs is that taking the head of a deque without repetition removes one element and
appending one that is not in it adds one (`PopFront`, `PushBack`), and that no worker can
have crashed before the main thread has started (`BornTogether`). `AffinityRespected` is
not: it needs that a message only ever waits in a queue it may be in, from the dispatch on
(`QueueRouted`), and `ClosedIsFinal` needs that a pending dispatch borrows the handle
(`SendersAgree`).

The second half of the module goes on from that invariant. `MessagesAccounted` becomes
inductive when it is said of each kind of place apart: the pending dispatches
(`SentOnce`), the queues (`QueuedOnce`), the stacks and the blocking task of a thread
(`RunOnce`, `Occupation`). Each step moves a message from one place to the next, so it
needs the place it takes from and the one it gives to: `EnqueueOnce` and `DequeueOnce` are
those two halves for the queues, `Retire` is the last one, and the stack a received
message goes to is unused because of `StackPartition`. `ParkedIsIdle` is not inductive by
what its own threads do: a worker parks when its deque is full, and a full deque without
repetition holds every stack (`FullDeque`: an injection of a finite set into itself is
onto it), so that none runs a task. `CleanShutdown` needs `LeavesLast`: a thread leaves
only once the channel is closed and every queue it reads is empty, and main leaves after
every worker. `RuntimeIsPool` maps each step to one of `TaskPool` or to none. The thread
of a task is a `CHOOSE` in the mapping; `PlacesAgree`, a consequence of `RunOnce`, makes
it the one thread that has the task, and `FewTasks` counts the tasks of a thread by
mapping them one to one to its stacks.

`RootStackProofs` assumes `RootStackAssumption` only. Its theorems hold with states that
keep the frame of `init`, whose late roots `NoDangling` leaves out (`StateStaysAllocated` is
why). `NoDangling` follows from two independent facts: the slot of a
reference still holds its value because it lies above the offset of its own frame and
below those of the frames nested in it, and no token owns it (`AllPlaced`, `SlotsOwned`);
and what any slot holds survives any collection (`BarrierKept`). `OffsetsSorted` and
`ModeAgrees` are what make closing a frame, or reconstructing one at `kept`, pop the
right roots. The debug assertion of `GcFrame::base` is part of `FramesNested`.

`StackImplementsFrames` is the refinement: a frame of `ScopedRoots` is the slice of the
stack between two offsets, the last one up to the top (`FrameFacts`). The mapping is
computed from the whole stack, so most of each case says that the other slices did not
change (`SameFrame`); then there are only four things a step can do to a list of lists:
open one (`Opens`), close the last (`Closes`), append to the last (`Grows`) or set one
element (`Sets`). A collection frees what no slice holds, which is where `NoDangling` and
the barrier come in again (`CollectScoped`).

`GcSafeProofs` assumes, for the locks, `GcThreadsAssumption` and `LockAssumption` and
proves, for any threads, modes, depth and number of collections, the types, `StopTheWorld`
and `StateRestored`. The invariant is `StatesNested`: each entry of `calls` remembers the
state that the entry below it implies, so that a leave at any depth restores the right
one. With it, the only steps that make a thread unsafe are the leave of a safe state,
which waits until no heap is marked, and steps of a thread that was unsafe before. The
types include that exactly the parked threads want the lock (`ParkedWants`), which is
inductive on its own. `BlockedIsSafe` says the same of the wait itself: nothing changes
the state of a thread while it is blocked, however other threads wait.

For the cell the argument needs more places, since an initializer runs inside the wait
and may nest anything, the cell itself included. `OnceInv` adds to the types, for every
thread, `CellNested`: each entry remembers the state that the entry below it implies, a
call of the cell's methods either is the last one, at a place inside the method, or has
an initializer right on top, and initializers run nowhere else. What an entry remembers is
exact except where code below it is torn, so the invariant carries `torn` along: it is a
set of depths, an entry on top of a torn depth may remember either state, and a return to
a depth that is not torn restores the right one. Push, cut (an unwinding call) and pop of
an entry preserve it, one lemma each, and `OnceOK` follows from it.

`JuliaFuturesProofs` counts the shares (`RefsCounted`: one for the future, one for Julia's
task until it calls `wake_task`, one leaked by a constructor that panics) and ties the
phases of the two sides together (`PhasesAgree`). `NoLostWakeup` is not inductive; its
strengthening `WakerKept` says that a pending future which nobody is about to poll has
not completed and holds the waker of its context, if it is not movable.

`PersistentTasksProofs` assumes `PersistentAssumption`. `Inv` has two halves. `StackInv`
says who has a stack and that the tasks in the inbox are waiting and there once; the count
in `StacksPartition` follows, by splitting on whether a stack is free. `CallInv` is about
calls: a channel holds exactly the calls that are queued for its task, each once
(`ChannelsHold`); a task that runs has the one call that is running (`OneCurrent`);
whoever is sending holds a handle (`SendersHold`), and only a task that can be reached is
held (`HandlesLive`). The last two are why a task that receives "closed" has nobody left
who would send: `EndsLast`. One step settles calls of many tasks when a panic drops a
future that owned handles; `SettleFacts` says which, for any set of tasks that died.
`TasksServeCalls` maps what a task owes to its current call followed by its channel. The
abstract step of a panic is `Lose`: each task that is dead keeps a suffix of what it owed
and the calls before it are lost, and nothing else may change.

`AsyncCallsProofs` assumes `AsyncCallsAssumption`, `LedgerAssumption` and
`NoGuardAssumption`: there are finitely many places for guards, and "no guard" is no
guard. `LedgerOK` needs that only mutable data is tracked exclusively
(`ExclusiveMutable`); counting is `LedgerGrows` and `LedgerShrinks`, for one new guard and
for any set of dropped ones. `NotifiedJoinReturns` is about one number, the count of an
`Arc` that two threads share. `RefsCounted` says it is the job, until `set` has returned,
plus the handle, until it is joined; `JoinsLate` says that a join that waited for its
notification comes after the job's share is gone, so `Arc::try_unwrap` finds one owner.
`GuardsEnd` is the other half: a job that is over owns no guard.

`LocalFramesProofs` assumes `DepthAssumption`. The links below the place where a caught
panic left a local scope behind are proper at every depth; the invariant says what the
head of the chain is in terms of the innermost framed call, separately for a chain with
and without such a place. `ScopesAreRoots` follows from it without another induction over
steps: the frames are closed under the walk, so it finds no more; and the innermost frame
the walk missed would be the link of the lowest frame above it, or the head, if there is
none (`NoFrameIsMissed`, with the least element of a set of numbers from
`WellFoundedInduction`).

The cache assumes `CacheAssumption`. `CacheOK` becomes inductive with what is
known of lookups in progress (`LookOK`, `InnerOK`): only a cast type is waiting to be
written, and an entry that is displayed is not empty. That its type stays what made the
error is where the lock comes in: writing needs that nobody reads (`WriteStep`).

`ModuleInitProofs` assumes the assumptions of `Startup` and `ModuleInit`, and three about
the libraries. `LibraryAssumption`: within a build, exports for one Rust type are of one
kind and are made of the same types, as its traits say. `VariantAssumption`: a variant
follows its base, as the macro writes them. `NameAssumption`: the name of a type stands
for that type in every build, foreign or opaque. The macro and Julia see to it within a
build; between the build that made an image and the one that loads it nothing does, and a
library that swaps the names of two types loads an old image with the types swapped.
`StartInv` is the argument for one Julia: a start that passed the check before another one
claimed `INIT` finds it set, and while `INIT` is clear Julia has not run. `RegistryInv`
adds that a process never unregisters a type. `OneIdentity` follows from every
registration coming after a look that found nothing: in `into_julia` under the same lock,
in the init function under another one, but in a thread that nobody races with.
`HooksAreCurrent` follows from the same steps: `jl_new_foreign_type` takes the functions,
`jl_reinit_foreign_type` does since Julia 1.9, and what an older Julia has from an image
is still bound by the module (`Loaded`).

`RegistryIsOK` and `PrecompiledLoad` need an invariant of the init function on its way
(`ModuleInv`), and one of what it leaves on disk. Of the exports handled so far each is
settled: registered, as what the module binds, or for a variant as what its base and
parameters are registered as (`Settled`); and nothing else is registered
(`ByHandled`), which is why asking the registry succeeds only for types that come
earlier (`NeedsFirst`). An image remembers that order and binds every exported type, two
names of a type to the same datatype and foreign types to foreign ones (`SoundImage`,
established by `Saved`). Loading then
goes through the same order: for the build that made the image no name is missing and no
type is asked for too early (`OwnImageLoads`); for another build either the init function
aborts, or what it registers is what is bound (`OneDatatype`).

Only model-checked: everything about liveness (`runtime_live`, and one property or more of
the locks, the cell, the futures, the persistent tasks, the jobs and the lookups), which is
out of the prover's reach, and the definitions in the tables of what does not hold. Every
invariant, action property and refinement a run checks is proved as well.

## Not modelled, and the plan

Every component that keeps state of its own has a module. What is left of them:

- A runtime thread's loop and the persistent tasks are two models that share the stacks;
  they are not composed, because the product is too large to say more than the parts.
- Tasks that wait for other tasks are in `PersistentTasks` only; the liveness runs of the
  runtime have none.
- The executor of async-std, under which a panic of a spawned task is not caught.
- The caches of symbols and of constructed types are `GlobalCache` without a type.
- `GcThreads` has no thread that disables the collector: `gc_enable` is one atomic swap
  inside Julia.
- `StaticRef` stores the same pointer whoever wins; `StaticGlobal` is a `GcSafeOnceLock`.
- The pool of `ccall` with no threads: `set_pool_size(0)` panics in a function Julia
  called, and nothing is left to state.

Left out for good: bindings (most of the repository's lines: one declaration per function
of Julia and version), derive macros, layouts and conversions, which keep no state, and
the formatting of errors.

What could be proved next: abstract specifications for components that have only
invariants so far. A cell that is set once and read for ever, for `GcSafeOnce`; a map that
is filled once per path, for `GlobalCache`; a future that resolves once, for
`JuliaFutures`.
