# tinytools in TLA+

A verification development of tinytools, a small C library for embedded and
Linux programs: threads, mutexes, an error system, a ring buffer, atomics and a
platform layer. The modules follow the Linux build, which the Makefile selects
by default (`TT_TARGET_LINUX`, `TT_CAP_MUTEX`, `TT_CAP_THREADS`). Paths of the
source below are relative to the repository.

## The system

| component | state it keeps | operations | calls |
|---|---|---|---|
| thread API (`src/tt_thread.c`, `src/platform/linux/tt_platform_linux.c`) | heap structures `tt_thread_t`: handle, state, `is_active` | init, create, join, destroy, self, get_state, set_priority, sleep, suspend, resume | the thread table, pthreads |
| thread table (`src/tt_thread_internal.c`) | `g_thread_table`, an array of `TT_MAX_THREADS` entries | init, cleanup, register, unregister, find_by_handle | one mutex |
| mutex, Linux (`src/tt_mutex.c:13-32`, platform file) | `lock`, a pointer to a pthread mutex on the heap; `initialized` | init, destroy, lock, unlock, trylock, is_locked | pthreads |
| mutex, generic (`src/tt_mutex.c:33-116`) | an atomic flag | the same, as a spinlock | - |
| error system (`src/tt_error.c`) | `error_ctx`: last error, callback, mutex, `initialized` | init, deinit, get_last, set_last, clear, is_success, register_callback | one mutex, the client's callback |
| ring buffer (`src/tt_ringbuf.c`) | buffer, size, head, tail, count | init, write, read, count, is_empty, is_full | - |
| atomics (`src/tt_atomic.c`) | a 32-bit integer | init, load, store, add, sub, compare_exchange, fence | compiler builtins |
| platform layer (`src/platform/tt_platform.c`) | `platform_info`, `platform_initalized` | init, cleanup, get_info | the init function of the target |
| targets (`src/platform/{linux,arduino,freertos}`) | - | init, cleanup | sysinfo (Linux) |

The threads the library creates, and threads it did not create, share the thread
table and the error system. Both put a mutex around their data, and both leave
something outside it: the thread functions touch the fields of a `tt_thread_t`
without a lock, and the error functions test `initialized` before they take the
mutex and call the callback after they have released it. What is hard is there:
calls of several threads between these unlocked accesses, structures and thread
handles that are freed and reused, a full table, a create that fails after its
thread has started, an init that replaces a mutex in use, a callback that calls
the library again. The list `hazards` of PROJECT.json has each of these at its
line.

What makes each component correct:

- thread table: one thread at a time in it; an entry for every created thread
  until its destroy, at most one each, never to a freed structure; refusal only
  when full; the right entry found;
- thread API: a join waits for the thread it names and returns after it; a
  structure is freed only when nothing uses it; no thread is lost; every call
  leaves the mutex free;
- mutex: exclusion; `is_locked` and `trylock` tell the truth;
- error system: an error and the callback that is told of it go together; an
  error is reported once, with no mutex held; a session starts clean;
- ring buffer: first in first out, bounded, whatever the indices have wrapped to;
- atomics: no update of a shared word is lost, not even by a loop around
  compare_exchange that other threads overtake;
- platform layer: whoever gets the description gets all of it, although nothing is
  locked; nothing of it is left when it is closed.

## Modules

| module | what it is |
|---|---|
| `TTMutex` | one `tt_mutex_t` of the Linux build: state, and the effect of init, lock and unlock; used by `TTThreadTable`, `ErrorCtx` and `MutexApi` |
| `MutexApi` | every call of `tt_mutex.h` on one mutex, in both builds; `Spec`, properties, inductive invariant |
| `LockService` | abstract: what a mutex promises |
| `MutexApiProofs` | theorems about `MutexApi` |
| `TTThreadTable` | the thread table: the functions of `tt_thread_internal.c` as steps |
| `TTThread` | the thread API on top of it, the operating system's threads, the client; `Spec`, `SharedSpec`, properties |
| `ThreadService` | abstract: what the thread API promises |
| `ThreadRegistry` | abstract: what the thread table promises to the threads that call it |
| `ThreadControl` | `TTThread!SharedSpec` with the functions that look at a thread and control it; `ControlSpec`, properties |
| `TTThreadInv` | the inductive invariant of `TTThread!Spec` |
| `TTThreadProofs`, `TTThreadRefinement` | theorems about `TTThread!Spec` |
| `ThreadControlInv` | the inductive invariant of `ThreadControl!ControlSpec` |
| `ThreadControlProofs` | theorems about `ControlSpec`, and that the table implements `ThreadRegistry` |
| `ErrorCtx` | the error system on top of a `TTMutex`; `Spec`, `RacingSpec`, properties |
| `ErrorCtxInv` | its inductive invariant |
| `ErrorCtxProofs` | proofs: the invariant, the safety properties, and that the error system implements `ErrorService` |
| `ErrorService` | abstract: what the error system promises |
| `RingBuf` | the ring buffer |
| `BoundedFifo` | abstract: a bounded queue |
| `RingBufProofs` | theorems about `RingBuf` |
| `Atomics` | an atomic integer, and the loop of a client around compare_exchange; `Spec`, properties |
| `SharedInt` | abstract: what an atomic integer promises |
| `AtomicsProofs` | theorems about `Atomics` |
| `Platform` | the platform layer in the builds there are; `Spec`, properties, inductive invariant |
| `PlatformProofs` | theorems about `Platform` |
| `MCTTThread`, `MCThreadControl`, `MCMutexApi`, `MCErrorCtx`, `MCRingBuf`, `MCAtomics`, `MCPlatform` | instances for TLC: definitions for constants, symmetry |

A definition whose name starts with `Mut` is a wrong version of the definition
that follows it. No specification uses it; put in the place of the right one it
makes a property fail, which shows that the property depends on that code.

### Threads

`TTMutex` has the fields of the structure (`lock`, `initialized`) and the heap
cells it can point to: `owner[o]` holds the pthread mutex `o`. A second
`tt_mutex_init` makes `lock` point to another cell and leaves the first one
behind (`tt_platform_linux.c:256`). `tt_mutex_lock` is a step that is enabled
when the mutex is free; unlock does not look at who unlocks.

In `TTThreadTable` the program counter `pc[p]` and the locals `arg[p]` (the
structure of the call), `idx[p]` (the loop variable) and `result[p]` belong to
the thread `p`. Taking the mutex, each turn of a scan, the write of an entry and
the unlock are separate steps. `table[i]` is the entry's pointer when `in_use`,
and `NULL` otherwise: the two fields are only written together, under the mutex.
`tt_thread_table_find_by_handle` selects what the code selects: an entry whose
handle *differs* from the one it is given, since the result of `memcmp` is the
condition.

In `TTThread` a structure `t` is a heap cell that `malloc` may give out again
after `free`, and a handle is a `pthread_t` the system may give out again after
a join. `os[h]` is what the system knows of the thread `h`. A thread of the
library runs the client's function, which may call `tt_thread_self` and may
return at any time. `tt_thread_join` is three steps after the call, because
`state` and `is_active` are stored one after the other without a lock; destroy
reads the first at its start and the second after it has unregistered the
thread; that second read (`DestroyLook`), `pthread_detach` (`DestroyDetach`,
`DestroyNoDetach`) and the free (`DestroyFree`) are a step each, so that a join may
end and its handle be reused between them. `mayJoin` and `mayDestroy` are not in the code:
they say which caller still has to join or destroy a thread, and so describe the
client.

What the library does is `Act` (a step of a call in progress, `Proceed`, or a new call); the
rest says what is left to the client.
`tt_thread_init` runs while nothing else does and before any other call. A created
thread is joined once and destroyed once, by any caller: the creator has both rights
at first, and `HandOff` gives one of them to another caller, as a program does that
passes the pointer on. A destroy that comes before the end of the join is refused or
not, by whether it finds the state `CREATED` or `TERMINATED`. In `SharedSpec` it may
come at any time, which no document forbids. In `Spec` one that would be let through
waits until the join has returned (`Ordered`), as a program does that tells the
destroying thread when the join is over; the tests, where one thread does everything,
are a case of it. `ThreadControl` adds to `SharedSpec` the two functions
that use the fields of a structure meanwhile: `GetState` is the one read of `state`,
and `SetPriority` writes `priority`.

`ThreadService` has, per structure, the status none, running, finished or joined,
and the set of listed structures. `TTThread` implements it under the mapping
`StatusOf` and `Listed`: a create is `Start` at `pthread_create` and `List` at
the write of the entry, a join takes effect at the return of `pthread_join`, a
destroy is `Unlist` and `Release`. A create that the full table refuses is
`Abandon`.

`ThreadRegistry` is the table alone: a set of at most `Capacity` structures, with no
slots, no scan and no mutex, on which register, unregister and find are one step each.
`TTThread` maps to it by `Listed` and by what each thread has asked for and been
answered (`Asks`, `About`, `Answer`): a register takes effect when it writes the entry,
an unregister when it clears it, a find when it stops at an entry, and each of them
that finds nothing when its scan has passed the last slot, at which moment the
answer must still be true of the whole table. `Find` returns anything listed or
`NULL`: which one, the run `self` looks at.

### Mutex

`MutexApi` has all six functions of `tt_mutex.h`, called by any thread in any order
a client may use. `build` says which half of `tt_mutex.c` is compiled: `Seize`,
`Release` and `Taken` are its lock word, the owner of the pthread mutex or the
atomic `flag`; the rest is common. `tt_mutex_is_locked` of the Linux build is two
steps, the trylock and the unlock it is made of (`IsLockedTake`, `IsLockedGive`),
and a load in the general build. The client keeps the rules of a mutex: init and
destroy alternate and come while the mutex is unused, only the holder unlocks, and
nobody locks what it holds. `holds[p]` is what the client knows from the answers.

`FairSpec` adds that a thread in `tt_mutex_lock` takes a free mutex at last if it can
(`WF` of `Lock(p)`). `WaitersGoOn` is what follows without fairness among waiters: a
mutex that is free does not stay free while a thread waits for it.

`LockService` lets a thread that looks at a free lock be taken for a holder, which
is what the Linux build does; in the general build nobody ever looks.

### Error system

Every function is its unlocked test of `initialized`, the lock, each access in
the critical section, and the unlock; `set_last` then calls the callback it has
copied. A call that the test refuses is no step. The callback is the client's: in
`"callback"` the thread may begin any call except `tt_error_init`, and
`depth[p]` counts how many callbacks it is in (bound `MaxDepth`; at the bound
the callback only clears). `told` records the last report and is read by no
action: it is the output of the component.

In `Spec`, `tt_error_init` is called only while no other call is under way; calls
of everything else, `tt_error_deinit` included, begin at any time. So a `set_last`
that passed the test can end after the deinit. In `RacingSpec` init comes at any
time too.

`ErrorService` makes of each admitted call one atomic effect; `set_last` stores
the error and takes the callback of that moment together, and `Tell` happens
later. The mapping puts the effect of `set_last` at the store: until the
callback has been copied, what the thread owes is computed from the context
(`DueOf`).

### Ring buffer

Used by one thread, so each function is one step. It starts as a zeroed
structure, before `tt_ringbuf_init`: full and empty at once, which is what keeps
`% rb->size` from dividing by zero. Init takes any size up to `MaxSize` and memory
of any content, at any time. `Items` reads the queue off the fields and is the
mapping to `BoundedFifo`. The width of `size_t` plays no part: no field exceeds
`size`.

### Atomics

Each function is one compiler builtin, so one step on one word, at which others may
have changed the word since the call began: `Begin` keeps the parameter in `amount[p]`,
and the step uses it. The word has `2 * Half` values, `Half` being 2^31 in the code, and
`Fetch` wraps like the builtin. `SharedInt` says what each call promises: it takes
effect once, with its own argument; a store puts it there, an addition or a subtraction
leaves the word that equals the sum or the difference modulo the number of words, and
returns the value of just before. An addition of nothing or of another amount, one that
stops at the end of the range, or one that is a load and a later store is none of
these.

`compare_exchange` exists for loops, so the model has one, which adds its amount unless
the sum does not fit: `TryAdd` is its load, `Exchange` the call that returns true,
`ExchangeFails` the one that returns false and leaves in `*expected` what it has found.
The builtin is the strong one: it fails only when the values differ.
`SharedInt!Succeed` is one addition at one moment, which is right only because the value
is compared.

The memory orders, and `tt_atomic_thread_fence`, order these steps with accesses to
other memory, of which there is none here. `ATOMIC_CAS` gives the builtin the caller's
order for the failing case too, where C11 allows no release order; the model does not
see this.

### Platform layer

`build` is `[target, macro]`: what the program is compiled for, and which of the names
`TT_PLATFORM_LINUX`, `_ARDUINO`, `_FREERTOS` the preprocessor knows. The Makefile
gives the first only. With no macro `tt_platfor_init` (so spelled in the source) is
`InitUnsupported`. The other builds have the macro given by hand; without them
nothing behind the `#if` could be reached.

The description is looked at by its parts. Each target's init function writes some of
them (`LinuxParts` and so on), each in a step of its own, in any order; get_info's
`memcpy` copies them one by one. Linux calls `sysinfo` before it writes anything, and
it may fail there.

Two threads can both pass the test of `platform_initalized` and both write. Most parts
are constants, but the size of the memory and the number of processors are asked of the
system by each init anew (`Measured`), the first by way of the static `si` that all inits
share (`tt_platform_linux.c:38`, `:63`, `:65`), and two inits may be told different
things (`Readings`). So a late init can change what others have read while the flag is
set: `OnlyReadingsChange` says that it can change nothing else, and
`DescriptionComplete` that no part is missing meanwhile. A description may well have
its parts from two inits. The client calls `tt_platform_cleanup` while no other call is under way; in
any other use a late init could set the flag over parts that a cleanup has cleared.

## What is checked

| run | instance | shows |
|---|---|---|
| `main` | 2 callers, 2 handles, 3 structures, 2 slots, 1 mutex cell | safety of the thread API, and `Inv`; `ThreadService` is implemented |
| `live` | 2 callers, 1 handle, 3 structures, 1 slot | the mutex is given back, joins return, `ThreadRegistry` is implemented |
| `shared` | 2 callers, 2 handles, 2 structures, 2 slots, 2 mutex cells | `ControlSpec`: `SharedInv`, and safety of the table with destroys that detach, that fail, joins that fail, a second `tt_thread_init`; answers of get_state that stay true; an unjoined thread stays listed; when `is_active` is seen set |
| `self`, `orphan` | 2 callers, 2 handles, 2 structures, 1 slot | two statements of the documents that the code does not keep |
| `error` | 2 threads, 2 sessions, 1 error, 1 callback, depth 2 | safety of the error system, and `Inv`; the mutex is given back, every error is reported; `ErrorService` is implemented |
| `ring` | sizes 0 to 4, 3 byte values | the ring buffer is a bounded queue |
| `mutex` | both builds, 3 threads, 2 heap cells | exclusion, no leak, `Inv`; `LockService` is implemented; a free mutex is taken |
| `mutex_look` | both builds, 3 threads, 1 heap cell | `is_locked` makes a free mutex look taken |
| `atomic` | 2 threads, a word of 6 values | `SharedInt` is implemented: calls take effect once, with their argument; of the threads in loops one always succeeds |
| `platform` | 2 threads, 5 builds, 2 readings of the system | no half description, nothing left of it, `Inv`; late inits change only the readings |
| `platform_built` | 2 threads, the 2 builds of the Makefile | the platform the build is for is refused |

The configuration `MCErrorCtxRacing.cfg` is no run of PROJECT.json. It lets
`tt_error_init` come at any time (`RacingSpec`) and finds two threads in the critical
section: the second init replaces a mutex that is held (`src/tt_error.c:16`).

Why these bounds are enough to meet the interesting cases: a thread that is joined
and not yet destroyed gives its handle back and keeps its entry, so that three
structures on two handles fill two slots and a third registration is refused, while
an entry is freed in front of it or behind it; handles and structures run out, so
that they are reused, with the old handle still in the structure that is not
destroyed yet. Two callers are one that joins and one that destroys, each while the
other creates, and the rights change hands at every idle moment. In `live` one slot
makes the table full with one thread, and the scans end at their first turn; a thread
that a refused creation leaves behind keeps the one handle, so creations fail in
`pthread_create`, too. In the error system one thread's every step meets every step of
the other, deinit included, and callbacks call back two deep; two mutex cells
are two sessions, so that a late call of the first meets the second; a
callback of the last session is told from none in this one. Sizes one and
two of the ring are the ones where head meets tail at each step or every other;
four lets items lie on both sides of the wrap. Three threads on a mutex are one
that looks, one that waits and one that tries; init and destroy repeat without
bound, on two heap cells that are given back. On the atomic word two threads
are one that loops or is about to add and one that changes the word meanwhile, any number
of times, so that a loop fails as often as one likes and the value goes away and comes
back; six values hold every sum that fits or wraps, upward and downward, additions of
nothing and of different amounts, and the most negative word, which has no opposite. In
the platform layer two threads are two that overlap in init, with different readings, or
one that copies while the other is late. The symmetric runs permute
structures, handles, callers, threads, heap cells, readings and bytes, none of
which the code compares by anything but equality. No run of the thread API looks at
more than one priority level: a level is stored and read by no condition.

Bounds in the modules: `MaxThreads` is `TT_MAX_THREADS`; `Threads`, `Handles` and
`MutexObjs` are finite, so that malloc, `pthread_create` and `tt_mutex_init` fail
when they are used up (they may fail before, too); `MaxDepth`; `MaxSize`; `Half`; `Priorities`,
`Builds` and `Readings` are the levels, builds and answers of the system looked at.

Fairness: weak fairness of every step of a thread inside the library (`Step(p)`; in
`MutexApi` `Lock(p)`, in `Atomics` `Attempt(p)`),
which says that the scheduler runs a thread that can run. Nothing is assumed of
the client: threads need not end, callbacks need not return, callers need not
call. Weak fairness does not say that a waiting thread gets the mutex, since
pthread mutexes are not fair; the liveness properties are those that hold
without it. `JoinReturns` needs no mutex after `pthread_join`, `ErrorReported`
starts at a thread that holds the mutex, `WaitersGoOn` is content with any waiter,
and `LoopEnds` with a loop whose value another thread has changed.

### Where code and documents disagree

- `self`: `tt_thread_self` returns another thread's structure, or `NULL` to a
  thread that is alone in the table (`src/tt_thread_internal.c:92`).
- `orphan`: a `tt_thread_create` that fails on a full table leaves its thread
  running with no handle anywhere (`src/tt_thread.c:92`). With `ThreadService` it
  shows as `Abandon` of a running thread.
- `mutex_look`: `tt_mutex_is_locked` of the Linux build locks the mutex to look at
  it, so that a `tt_mutex_trylock` or a second `tt_mutex_is_locked` meanwhile reports
  a lock nobody has taken (`src/platform/linux/tt_platform_linux.c:326`).
- `platform_built`: `TT_PLATFORM_LINUX` is an enumeration constant and no macro, so
  that every build compiles the branch without a platform
  (`src/platform/tt_platform.c:24`).

One more hazard shows as a property that says less than one would like.
`ActiveSeenOnlyInJoin`: a destroy finds `is_active` set only when it reads it
(`src/platform/linux/tt_platform_linux.c:214`) between the two stores of the join
(`:121`, `:122`). Of the moment of `pthread_detach` (`:215`) nothing can be said: the join
may have returned since, and the handle may be a new thread's, which is then detached,
or the detach fails and the structure is left behind, unlisted. The model does all of
this. No document says who may call destroy when, so this is no finding.

## What is proved

For all values of the constants, from `TableAssumption` and `ThreadAssumption`
(at least one slot; the callers and the library's threads are different and
are all the threads; `NORMAL` is a priority; `NULL` is none of the objects), `RingAssumption`,
`CtxAssumption`, `ApiAssumption`, `AtomicAssumption` and `PlatformAssumption`.

`TTThreadProofs`: `Spec => []Inv` (`Invariance`), whichever callers join and destroy a
thread, as long as the destroy comes after the join, and from it `TypeOK`,
`MutualExclusion`, `NoDanglingEntry` and `OneEntryEach`, `FullWhenRefused`,
`PublishedIsListed`, `JoinFindsItsThread`, `DestroyedIsJoined`,
`NoUseAfterFree` and `EntryKept`. None of these is inductive by itself. `Inv`
adds to them

- who holds the mutex (`LockInv`) and that init runs alone (`InitAlone`), so that
  whoever writes the table is the only one in it. `MutualExclusion` says more than
  that two threads are not inside at once: a pthread mutex that is held is the one the
  table uses, and its owner is in a critical section, so no call returns with the mutex
  held. What is left to the run `live` is that the owner goes on;
- what a scan has seen so far (`ScanInv`): register has found every slot before
  `idx` in use, unregister has not found its structure there. This makes refusal
  imply a full table, and a destroy always find its entry;
- how each call relates to its structure (`CallInv`, `CreateAlone`, `StructInv`):
  allocated, published or not, state and rights. This is why a structure is not
  freed under a call;
- that one caller stores the end of a join (`JoinAlone`), and that a `TERMINATED`
  structure is active only while it does so (`Storing`). With `Ordered` a destroy then
  finds `is_active` false: this is the one place where the order of join and destroy is
  used (`CallStep`), and all that `Spec` asks beyond `SharedSpec`;
- that unjoined structures have different handles, each of a thread that exists
  (`HandleInv`), which survives the reuse of handles;
- that `result` and the table agree (`ResultInv`, `TableInv`).

There is one lemma per part for a step, split by kind of step: the functions of
the table, the other steps of a call, a new call, the end of a thread (`Act`); a right
that changes hands changes no part (`HandOffInv`), because a caller gives it away
between its calls.

`TTThreadRefinement`: `Spec => ImplementsService` (`Refinement`), with the
cardinality of the listed structures against the number of slots (`FreeSlot`)
for the capacity.

`ThreadControlProofs`: `ControlSpec => []SharedInv` (`SharedInvariance`), for the client
that does not wait for the join before it destroys. `Inv` is false there. Once the join has stored `TERMINATED`, the destroy may overtake its
second store: the structure of a caller at `join_active` may be freed and given out
again, `is_active` may still be set when destroy reads it, so that a handle is detached
that is perhaps another thread's by now, whose own join then fails.
`SharedInv` keeps what such a step cannot disturb:

- the mutex, the scans and the creations as before: `TypeStep`, `LockStep`,
  `InitAloneStep`, `CreateAloneStep` and `ScanStep` of `TTThreadProofs` assume
  only those parts, and serve both invariants;
- `SharedStructInv`: a structure still to be joined is not `TERMINATED`, and one that
  is `TERMINATED` and active is between the two stores of its join (`Storing`);
- `SharedCallInv` and `StoreAlone`: no two callers are about to store `TERMINATED` in the
  same structure (two may be about to store `is_active`, which is why `JoinAlone` is
  weakened to this), and a destroy past its test has a `TERMINATED` structure that nobody
  else may destroy, so that nobody frees it twice;
- `SharedResultInv`: a destroy that has found its entry leaves none.

From it `MutualExclusion`, `NoDanglingEntry` and `OneEntryEach`, `FullWhenRefused`,
`EntryKept`, `TerminatedIsFinal`, `UnjoinedIsListed` (a part of `SharedInv`) and
`ActiveSeenOnlyInJoin` hold of `ControlSpec`, for every
value of the constants. The entries are sound there although the structures are
not: `NoUseAfterFree` fails, by the store of a join that has been overtaken.

`RegistryRefinement`, in the same module: `ControlSpec => ImplementsRegistry`, so `Spec`
implements it too (`TableImplementsRegistry`). The mutex makes each scan see one table;
`ScanInv` makes a scan that has passed the last slot an answer about the whole of it, and
`FullTable` turns "every slot in use" into "as many structures as slots", which needs
that no structure has two entries.

`RingBufProofs`: the fields agree and the ring buffer implements `BoundedFifo`,
for every size. `TypeOK /\ FieldsAgree` is inductive; `(i + 1) % size` is replaced
by a comparison once (`AdvanceIs`), and a write appends, a read takes the head
(`WriteAppends`, `ReadTakes`).

`ErrorCtxProofs`: `Spec => []Inv` for the error system, from `CtxAssumption`
(`NULL` and `TT_SUCCESS` are none of the other values), and from it `TypeOK`,
`CtxExclusive`, `NothingHeldOutside` and `FreshSession`. `Inv` adds

- that a thread past the test of `error_ctx.initialized` finds the mutex
  initialised, and that no pthread mutex of any session is held outside the
  critical section (`LockInv`), so that the mutex `tt_error_init` replaces is
  held by nobody;
- that `tt_error_init` runs alone (`InitAlone`): this is where the assumption of
  `Next` on the client is used;
- what init and deinit have stored before they open or close the context
  (`StoredInv`), from which a session starts clean;
- that callbacks are entered and left in order (`DepthInv`).

In the second half of the module, `Spec => ImplementsErrorService` (`Refinement`). A step
changes what one thread owes (`Moves`), because no other thread is about to copy the callback
while one is in the critical section.

`MutexApiProofs`: for both builds at once, the lock word is taken exactly when a
thread holds the mutex or looks at it (`LinuxInv`, `GenericInv`); so whoever seizes
it finds no holder (`SeizesFree`), and `LockExclusive`, `HeapExact` and the refinement
of `LockService` follow.

`AtomicsProofs`: for a word of any size, `Spec => []TypeOK` (`RangeKept`) and
`Spec => ImplementsSharedInt` (`Refinement`). The invariant is `TypeOK` and that the sum
a loop has computed fits the word. The sum of two words is at most one range away from
a word (`SumOfWords`, `WrapIsWord`), and bringing it back changes nothing modulo the
range (`WrapIsEqual`, from `TurnIsZero`), which is what the abstract addition asks for.

`PlatformProofs`: `Spec => []Inv` for any builds and any number of threads, and from it
`DescriptionComplete`, `ClosedIsZero` and `OnlyReadingsChange` (`OnlyReadings`). `InfoInv` says that a
thread in init has written or has still to write each part, and that the flag stands
over a complete description only; `CallInv` that what a get_info has copied so
far are the parts that the platform writes, and no others.

Only model-checked: liveness, which is outside the prover's reach (`MutexReleased`,
`JoinReturns`, `CtxReleased`, `ErrorReported`, `WaitersGoOn`, `LoopEnds`). Every
invariant, action property and refinement that a passing run checks is proved. The runs
that expect a violation show theirs on an instance; about `RacingSpec` nothing is
proved, since what it breaks is the invariant of `Spec`.

## What is not modelled

- Calls that break the rules of a mutex: destroy of one in use, unlock by another
  thread, a second init, destroy before init (which follows a null pointer in the
  Linux build).
- What `tt_thread_set_priority` reads when it uses the `pthread_t` as a pointer to one
  (`tt_platform_linux.c:162`): a meaningless handle or the end of the program. The
  levels and their mapping to the system's are not modelled; the stored field is.
- `tt_thread_suspend` and `_resume` are stubs, `tt_thread_sleep` and
  `tt_thread_attr_init` have no state of the library.
- The numbers in the description of the platform, of which only the sources that may
  differ between two inits are told apart, and get_info during a cleanup.
- The code under `TT_UNUSED_CODE` (`tt_thread.c:136-455`): no build compiles it.
- Null arguments: refused at the start of each function, with no effect.
- The weak memory order of unlocked accesses: an access is a step, in program
  order.
- `tt_error_to_string`: a table of texts. The rest of the FreeRTOS and Arduino files:
  constants, and no thread or mutex functions. The build files and the test framework:
  no part of the program.
- The ring buffer under two threads: `count++` and `count--` are unsynchronised, and the
  header promises nothing about threads.

## Plan

1. done: mutex, thread table, thread API, their abstract specification, proofs.
2. done: error system and its abstract specification; ring buffer and its proofs.
3. done: the proofs about the error system.
4. done: `MutexApi` and `LockService`, both builds, with proofs.
5. done: `Atomics` and `SharedInt`, `Platform`, `ThreadControl`, with proofs about the first
   three of these; liveness of the mutex.
6. done: an invariant of `ControlSpec`, `SharedInv`, and the proofs about join and destroy
   that are shared; `ThreadRegistry`, which the table is proved to implement.
7. done: the client of `Spec` may leave a join or a destroy to another caller; what is
   proved needs the order of the two calls and not one caller.
8. What of `ThreadService` is left under `ControlSpec`, as a weaker abstract specification.
9. The safety a `tt_error_init` that comes at any time leaves (`RacingSpec`).
