# A TLA+ verification of nsu_5_os

The repository holds the lab programs of an operating-systems course, written in C. Three of
its directories carry concurrent programs of their own:

* `src/lab3` is a caching HTTP proxy: a thread pool of handlers, one *session* per path being
  downloaded, a pool of upload workers, and a cache on disk;
* `src/lab2` is four studies of synchronisation: a queue without locks, the same queue with a
  spinlock, a mutex, condition variables or semaphores, a list with a lock in each node, and a
  mutex built on futex;
* `src/lab1` is threads from below: `clone`, and two schedulers of user-level threads.

The modules here model these programs operation by operation. TLC checks them on small instances
and TLAPS proves the central invariants for every size. `PROJECT.json` maps every definition to
the lines it models and lists components, runs, mutants, findings, hazards and theorems.

## 1. Inventory

### lab3, the proxy

| component | state | operations | talks to |
|---|---|---|---|
| server, `handler/handler.c` | the map from paths to managers | accept, receive, look up or create a manager, subscribe, elect the main thread, download or share, save, destroy | all the others |
| subscription manager, `chunk/subscription.c`, `chunk/chunk.c` | subscriber list and count, chunk list and count, `flag`, one lock and condition; a lock per subscriber | `subscribe`, `add_chunk`, upload task, `finish_pending_chunks`, `unsubscribe`, `destroy_subscription_manager` | upload pool; called from handlers, curl's callback, `share_cache` |
| thread pool, `threadpool/threadpool.c` | stack of tasks, `queue_size`, `stop` | push, worker loop, destroy | runs handlers and upload tasks |
| map, `common/hashmap.c` | buckets of nodes, no lock | `get`, `insert`, `delete`, `destroy_hashmap` | handlers |
| cache, `chunk/cache.c` | files on disk | `cache_exists`, `save_cache`, `share_cache` | session main thread; survives a crash |
| HTTP client and parser, `http_utils` | the parsed request, the list of header lines | parse what one `recv` returned, prepare the headers, one transfer, a callback per chunk | origin server |

Hard behaviours: handlers of one path race to create and to find the manager; the main thread
waits for upload tasks of other threads with a counter of type `char`; clients join while chunks
arrive and while the session ends; connections and transfers break, and so do reads and writes of
the cache, whose files are named by a hash of the path; the process may die while it writes one;
the server pushes tasks for ever on a stack; the map is changed by all handlers without a lock; a request may arrive in
parts, of which the handler reads one. What makes it right: a client gets the chunks in order and
all of them, no freed manager, subscriber or map node is used, a cache file is a whole response,
the handler acts on its own client's request, every task runs, every connection is closed.

### lab2

| component | state | operations |
|---|---|---|
| `1/queue` | list, `count`, no lock | `queue_add`, `queue_get` by one writer and one reader |
| `2/queue_*` | list, `count`, and a spinlock, a mutex, two condition variables or two semaphores | the same, and `queue_destroy`; `queue_threads.c` cancels and joins its threads |
| `3` | a list with a lock per node, global counters, `stop` | swapping and comparing passes, hand over hand |
| `4/mutex` | futex word, owner id | `mutex_lock`, `mutex_unlock` |
| `4/spinlock` | one word | lock, unlock |

Hard behaviours: interleaved plain accesses, lost wakeups, cancellation in a blocking call,
deadlock between walks of a list that changes its order, counters updated without a lock.

### lab1

| component | state | operations |
|---|---|---|
| `7/uthreadpool.c`, `uthreadpool2.c` | nodes in a list or ring, a status each, the active node, `is_finished` | add, run, yield, reset, destroy |
| `6/my_thread` | thread records, stacks | create on `clone`, clear |
| `1`-`5` | none shared | demonstrations of pthread calls |

Hard behaviours: when is a search over, who sets whose status, which uthread can be lost; whose
stack is unmapped, and what is left of a thread that could not be made.

## 2. Modules

| module | models | notes |
|---|---|---|
| `Subscription` | `subscription.c` with the main thread and its upload tasks | one action per critical section that cannot block; `locked` says when the main thread holds the manager's lock over several |
| `ThreadPool` | `threadpool.c` | the list is a stack, as in the code; a task that is done may be pushed again, so that pushing need not end |
| `Session`, `MCSession` | `handler.c`, `cache.c` | uses `add_chunk` as one action, which `Subscription` justifies, and a map operation as one action; cache files and their failures chunk by chunk; a crash keeps only the files |
| `HashMap`, `MCHashMap` | `hashmap.c`, called as handlers call it | one action per access to shared memory; who is elected deletes; `malloc` reuses addresses |
| `HttpRequest`, `MCHttpRequest` | `__recv`, `__validate_request`, the parser and `send_http_request` | bytes are words, spaces, CR and LF; a field is the place it was copied from |
| `FutexMutex` | `4/mutex/mutex.c` and `4/test.c` | one action per atomic operation or system call |
| `LockTest` | `4/spinlock/spinlock.c` and the main of `4/test.c` | extends `FutexMutex` by the phase that runs before it |
| `QueueList`, `QueueThreads` | the list and the program that the four queues share | |
| `QueueMutex`, `QueueSpinlock`, `QueueCondvar`, `QueueSemaphore` | one synchronised queue each | |
| `Queues` | the program, built with one of the four | composes the four by `INSTANCE`; `build` is fixed at the start |
| `Fifo` | what such a queue promises | the abstract specification |
| `QueueRaw` | `1/queue` with `1/b.c` | one action per access to a shared field |
| `UThreads` | both schedulers with `7/main.c` | `ring` says which one is linked; an action is what happens between two context switches |
| `SwapList` | `3/routine`, `3/lock`, `3/main.c` | taking a lock, testing `stop` and writing a `next` field begin a step |
| `MyThread` | `6/my_thread` with `6/a.c` | a mapping has two parts, since a failed `mprotect` gives back only one |
| `SubscriptionProofs`, `SessionProofs`, `HashMapProofs`, `SwapListProofs` | theorems about the module they are named after | |
| `QueuesProofs` | theorems about `Queues` and its refinement of `Fifo` | |
| `LockingProofs` | theorems about `FutexMutex`, `LockTest` and `QueueRaw` | lab2: with locks and without |
| `ServerProofs` | theorems about `HttpRequest` and `ThreadPool` | lab3: the workers, and what they read |
| `ThreadsProofs` | theorems about `UThreads` and `MyThread` | lab1 |

Conventions. `NULL` is 0 and list nodes are numbers. Program counters are named after what a
thread does next. An operator whose comment begins with *Mutant* is a plausible slip in the code
and is used by no specification; it shows that the property it is listed with in `PROJECT.json`
can fail. The specifications of `QueueRaw`, `ThreadPool` and `MyThread` have names of their own (`RawSpec`,
`PoolSpec`, `CloneSpec`), so that a module of proofs can extend one of them and another component.

How state and steps correspond, where it is not evident:

* **Subscription.** The list of subscribers is the set of clients with status `in`. Its order is
  that of tasks the pool may run in any order, and of the walk of `finish_pending_chunks`, which
  the model lets visit the subscribers in every order. An upload task is named by its client and
  the call of `add_chunk` that pushed it. `Char` is the conversion to `char`, of which `CharMax`
  is the largest value, so the overflow is in the model. A thread that locks a lock it holds goes
  to `stuck`: that is what `__send_chunks` (line 157) and `destroy_subscription_manager` do for a
  subscriber they do not expect.
* **Session.** A handler is its client. `pos` is the loop position of a download, of `share_cache`
  or of `save_cache`, `off` the place in the file at which the latter writes next. A chunk is named
  by the client whose handler downloaded it and its number, so that two downloads of one path need
  not bring the same. `CacheName` is a parameter: the code puts the method, the host and a 32-bit
  hash of the path into the name, hence two paths may share a file, and in the run they do. A file
  is a sequence of chunks. `save_cache` writes at its own offset, leaving a hole behind a file that
  another handler truncated under it; a chunk whose `fwrite` fails, or that `fclose` does not get to
  the disk, is missing (`SaveLoses`); `share_cache` may find the file unopenable or stop at a read
  error (`ShareFails`). `torn` remembers the files that two handlers wrote at once, to which a write
  failed, or that were being written when the process died. `failed` are the managers whose clients
  cannot expect a whole response: the transfer broke, or a torn or unreadable file was shared. Using
  a freed manager sets `fault`, after which nothing is said. `raced` is a history variable: two
  requests for one path were in each other's way at the start or at the end of a session, or a
  handler wrote a cache file while another one read or wrote it. `ServedWhole` and
  `EveryoneClosed`, which the code keeps only without that, say `~raced`; `PathsNotMixed` and
  `CacheWhole` hold with it. Since the map knows paths and the files are named after methods too, a
  client may be sent the response to another method: `ServedWhole` says whose.
* **HashMap.** The handler that wins the `cas` on `is_busy` deletes the path when its session is
  over, whether it inserted the manager or found it; `is_busy` of a freed manager may have any
  value. `spec` is the map as it should be, updated at the store that makes an operation visible.
  Two history variables say what the missing lock may cost. `lossy` holds the buckets in
  which inserts overlapped between the load and the store of the head: nodes of these may be lost,
  and nothing else is wrong with them. `wild` says that a delete overlapped another operation on
  its bucket: a node may then be freed twice and be handed out by `malloc` for another bucket, so
  that nothing is said of any. (With a fourth request a chain may even lead back to itself, and a
  `get` runs for ever.) `Session`, where a map operation is one step, thus speaks for requests
  whose operations on one bucket do not overlap.
* **HttpRequest.** `malloc` returns a block with nothing of use in it, or with an earlier request:
  `OLD` and `JUNK` are the values of a field nobody wrote. A complete request is any member of
  `Messages`; `recv` returns a prefix of it, down to none. `sscanf` reads words of at most
  `MethodWidth`, `PathWidth` and `VersionWidth` bytes (7, 255 and 15 in the code): what does not fit
  is where the next conversion begins.
* **MyThread.** `is_finished`, here `finished`, is never initialised; `junk` remembers what it
  was. The region of a thread whose `clone` failed may be mapped again for another one, and both
  records name it: the exception in `StackKept`.
* **Queues.** Except for the spinlock, a critical section is one action, since nothing in it waits
  and both threads access the list only inside. `abandoned` is the mutex of a thread that was
  cancelled in `pthread_cond_wait`, which has taken it back.
* **QueueRaw.** The exercise is to show the races: `count++` and `count--` are a load and a store
  each, `q->first = q->first->next` two loads and a store. A dereference of `NULL` or a freed node ends the behaviour.

## 3. Runs

All in `PROJECT.json`. Passing runs:

| run | checks | bounds |
|---|---|---|
| `locks` | mutual exclusion, the owner is not refused, no lost wakeup, no lost increment under either lock, termination | 3 threads x 2 increments: a holder, a sleeper and a newcomer at once, and a second round with old sleepers |
| `pool` | every task in one place once, nobody sleeps on work, pushed tasks run once pushing ends, destroy returns | 3 workers, 4 tasks that may be pushed again and again: more tasks than workers, and all the mixes of sleeping, running and on the way |
| `subscription` | `add_chunk` waits for all, no use after free, order, whole or nothing, when the main thread may block on itself, the session ends | 3 clients, 2 chunks: first, late and last-moment subscribers together, a connection that breaks in the first round and is still there in the second |
| `session` | paths not mixed, cache files whole, what clients are served and that no freed manager is used, everyone closed | two clients of one path, the second with either of two methods, and one of another path that shares the cache file of the first; responses of 2, 1 and 0 chunks, so that a shorter one overwrites a longer; every failure of the cache, one crash |
| `queues` | list intact and semaphores exact, delivery, the program ends, refinement of `Fifo` | capacity 2, 5 values: the list fills, empties and refills |
| `queue_raw` | assertions on `count`, values only get newer | capacity 2, 6 values |
| `uthreads` | statuses, what a returning scheduler leaves behind, main's tasks finish, the ring is fair | 4 tasks of 0 to 2 yields, 2 runs: even and odd numbers, a second run with reused nodes |
| `swap_list` | the list stays whole, a pass sees every node and goes to none twice, no deadlock, the threads end | 2 swapping and 2 comparing threads, 5 nodes, 2 exchanges: two exchanges at once in different places |
| `hashmap` | buckets hold what they should, `get` finds it, operations end | 2 handlers, 3 keys in 2 buckets, 2 addresses, 3 requests: chains of two nodes, an address used again in the other bucket |
| `mythread` | stacks are not taken away, nothing is left mapped | 3 threads, 2 addresses: one is used again; every failure of `mythread_create` |
| `request` | own request, inside the buffer, forwarded | lines that end in CRLF or LF, up to 3 after the first, a body or none, cut anywhere; words of up to twice the width of their field, in each of the three; header limit 3 and a buffer of 14 are both reached |

The type invariants of `FutexMutex`, `ThreadPool`, `Subscription` and `QueueRaw` are proved only
(section 5); the others are conjuncts of a structural invariant (`IntactOutsideLock`,
`StatusTruthful`, `ListWhole`, `PathsNotMixed`, `MapExact`, `StackKept`, `InBuffer`). Deadlock is
checked in every run: where a program may stop, an explicit step says so (`Finished`, `Destroyed`,
`Over`, `Quiet`, `Returned`, `Stopped`, `Joined`, `Ended`).

One run is a violation, a statement of the repository that the code does not keep:
`subscription_overflow`. The comment at `subscription.c:141` says "wait for all"; with more
subscribers than a `char` counts, `flag` is negative and `add_chunk` returns at once. The instance
has `CharMax = 1` and two clients; the C value is 127.

Other limits of the code are exceptions written into the properties that pass: under a server that
never stops pushing an old task may stay at the bottom of the stack (`PushedRuns` asks that pushing
ends); a client that joins after the last chunk is closed with nothing (`WholeOrNothing`); two
requests for one path may race (`raced` in `Session`, `lossy` and `wild` in `HashMap`); paths with
one hash share a cache file (`PathsNotMixed`; `OwnPathOnly` proves what holds if they do not); a
file that two handlers wrote at once, to which a write failed or that a crash cut short stays in
the cache and is served as it is (`CacheWhole` excepts the `torn` files, `ServedWhole` says that
what is sent are chunks of one response in order); a cache file that cannot be read is served in
part (`ServedWhole`); `swap_count++` may lose an exchange (`ListWhole` bounds it); an incomplete
request may be taken for an earlier one, and the rest of an over-long word for the next field
(`OwnRequest`); a bare LF at the end of a full buffer moves the parser one byte past it
(`InBuffer`); a thread may lose its stack after it wrote its flag (`StackKept`).

## 4. Fairness

* Threads: weak fairness for each thread's steps, since a runnable thread is scheduled again
  (`LockTest`, `ThreadPool`, `SwapList`, `Queues`, `HashMap`). Interrupts, spurious wakeups, pushes, stop
  and crashes get none. In `SwapList` main's `sleep` ends; in `Queues` nothing is assumed of it, so
  that values have to be delivered in a run of any length.
* `ThreadPool`: the tasks return. Nothing makes the owner push, stop pushing or destroy; the server
  pushes for ever, and since workers take the newest task first, `PushedRuns` promises a run to each
  task only where the pushing ends.
* `Subscription`: the main thread goes on, some upload task goes on while one can, and strongly,
  of the tasks that wait for the manager's lock one gets it. The strong fairness is needed because
  spurious wakeups may take that lock and give it back for ever. That a `send` returns is an
  assumption: the code has no timeout, and a client that neither reads nor goes away stops its
  session.
* `Session`: some handler goes on while one can; the origin answers or curl gives up.
* `LockTest`: the spinlock favours nobody, but its other users end their loops.
* `HashMap`: a handler inside an operation goes on; nothing makes requests arrive or sessions end.
* `Queues`: as for threads, but the spinlock is not fair to anyone; `Delivered` leaves it out.

## 5. Proofs

Each proof has an inductive invariant, checked by TLC on the instance of the component's run
before it was proved, a lemma per action or per group of actions, and a temporal conclusion. Every
invariant and every action property that a passing run checks is a theorem, and so is the refinement of
`Fifo`; what remains is liveness.

The theorems assume of the constants what the modules' `ASSUME`s say: bounds are natural numbers,
capacities and the list's length are not zero, a value such as `NoManager` that stands for NULL is none of
the values it is told from, the threads, tasks and addresses that are counted are finitely many, a map has a
key, messages are sequences of the bytes of the model, and the two kinds of threads of `SwapList` are different
threads. One more hypothesis is written in the theorems themselves, `FewClients` of
`SubscriptionProofs`.

* **LockingProofs**: for any finite set of threads and any number of increments, mutual exclusion,
  the owner is never refused, no wakeup is lost. `IInv` adds what these three lean on: the word
  says LOCK only while somebody is in the critical section, the kernel's queue is the set of
  sleeping threads, and a thread in its loop has an iteration left, so that the thread that wakes
  nobody has something to do next. The program of `test.c` is shown to use the mutex as its
  specification says (`TestUsesMutex`), and to lose no increment under either lock: a counter is
  the cardinality of the set of increments made, pairs of a thread and an iteration (`CountInv`),
  which a load and a store inside the critical section keep. Last part, `QueueRaw`: for every
  capacity, the assertions on `count` never fail although both threads change it without a lock.
  The reader only lowers and the writer only raises it, so room or a value that a thread has seen
  is still there when it stores. The types follow with it: the writer calls `queue_add` only while
  it has a node left, and the reader frees the node whose value it read. What the reader gets only
  gets newer (`ReaderSeesOrder`): links lead to newer nodes, and `first`, or what the reader has
  loaded to store there, is newer than what the reader has (`OrderInv`).
* **SubscriptionProofs**: for any number of chunks and any finite set of clients that a `char` can
  count (`FewClients`, which the run `subscription_overflow` shows to be needed), `add_chunk`
  waits for all, `flag` counts the unfinished tasks, no task runs on freed memory, the chunks
  arrive in order, a client whose connection held is closed with the whole response or with
  nothing, and the main thread can only block on itself in `destroy_subscription_manager`, for a
  client that came after the last chunk. `IInv` describes a round: which tasks are pending, that
  they belong to this call and to subscribers it visited (`PendingInv`, `TodoInv`), who holds a
  subscriber's lock (`HolderInv`), the locals of a task (`LocalsInv`), that whoever was there at
  the call is served, failed or pending (`ServedInv`), and where the closing walk stands
  (`LeftInv`, `WalkInv`). The equation for `flag` is proved with cardinalities; that it never
  leaves the range of a `char` is where `FewClients` is used.
* **QueuesProofs**: for every capacity and number of values and each of the four builds, the list
  is intact whenever its lock is free, the semaphores account for every place, and the program
  implements `Fifo` step by step. The nodes in the list are the newest ones, from `first` to the
  last one added (`ChainInv`), which makes `last` right whenever it is read although it may point
  to a freed node in between; the rest of `IInv` says, build by build, who may be at the list.
* **SessionProofs**: for every set of clients, assignment of paths, methods and response lengths,
  and every naming of the cache files. The first invariant holds with all races, failures and
  crashes: a node of the map leads to a manager of its path (`PathInv`), a manager's content was put
  there by its one main thread (`ContentInv`, `MainInv`), what it comes from is a download for this
  path or a file of that name, and a cache file that is not torn is whole or has a single writer,
  which has put there exactly what it has saved so far (`CacheInv`). `OwnPathOnly` adds the
  hypothesis that the names tell paths apart, and then nobody is sent a chunk of another path. The
  second invariant, `CalmInv`, holds until requests get in each other's way: a path has one manager
  at most, whose creator is its main thread; it is in the map as long as it is used (`OwnerInv`,
  `MapInv`, `SubsInv`); what a subscriber was sent is the beginning of what the manager has
  (`SentInv`); and every manager has a source, one download whose chunks in order are all it has
  handed out (`SourceInv`): the main thread's own, or the one whose response, whole or torn, the
  shared file holds (`FileInv`). What clients were sent by a process that died is kept by
  `LeftInv`. From these follows `ServedWhole`, with the absence of `fault`. That `FirstNode`, a
  `CHOOSE`, finds the first node of a key is shown by the least element of a set of numbers.
* **SwapListProofs**: for every length of the list, any threads, shared or exclusive read locks.
  `IInv` says there is an order of the nodes, a permutation that begins with the first node, which
  the pointers follow except in nodes that an exchange has still to write; an exchange under way
  knows its three neighbours in it, and a comparing pass has visited exactly the nodes up to its
  own. Only the write to `prev->next` changes the order, by one transposition, and whoever makes
  it holds the three locks involved, so no pass and no other exchange is at these places. The list
  is whole because `Walk` follows this order when no node is half written (the least place where
  it would differ cannot exist). `swap_count` is bounded by counting the threads that have yet to
  store their increment.
* **HashMapProofs**: for any threads, keys, hash, finite set of addresses and number of requests.
  While no delete was overlapped, a bucket's chain is a function from `1..m` to addresses that the
  `next` fields follow from the head to NULL, with no node twice (`Linked`), whichever handler is
  elected to delete; the nodes outside the
  chains are each in one thread's hands (`LooseInv`). A delete stands at a place of the bucket's
  chain (`DeleterAt`), but a get needs a chain of its own, because inserts that overlap may drop
  the head it read from the bucket: what it has to answer is in the rest of that chain
  (`GetterAt`); so does an insert that has loaded the head (`PusherAt`). Outside `lossy` the
  bucket's chain is the map's, pair by pair (`Exact`), and has every allocated node that is not
  loose (`Owned`), which is why `destroy_hashmap` frees all. Reuse of addresses is covered: a node
  that is freed is in nobody's chain, which holds because a delete that was not overlapped has no
  reader. `Chain`, a recursive function, is shown to follow the invariant's chain as long as it
  goes.
* **ServerProofs**: `HttpRequest` for every set of messages, buffer length and limit of headers.
  The fields are malloc's until a line has ended and sscanf's from then on (`FieldInv`), and the
  handler goes on with exactly what `__validate_request` lets pass (`VerdictInv`): from the two
  follows `OwnRequest`, since three words that fit their fields are what the three conversions find,
  and longer ones are cut without a gap. `InBuffer` needs that the parser never comes to stand on the LF of a CRLF
  (`PtrInv`), for there it would skip two bytes from an LF that is not bare, and could pass the
  end of the buffer with it. `Forwarded` needs that the line ends passed are the first one and
  those of the headers copied, by number as well as by place (`HeadersInv`), and that libcurl's
  list is the last part of the lines appended so far (`SlistInv`). The searches of `strstr` and
  `sscanf` are least elements of sets of places. Second part, `ThreadPool`: for any finite set of
  workers and any tasks, `queue_size` is the length of the stack, a task is in one place only, and
  one signal per push is enough. The last is the heart: if a worker sleeps, no more tasks are
  queued than workers are on the way to the mutex.
* **ThreadsProofs**: `UThreads` for any finite set of tasks, numbers of yields and of runs, list
  and ring. `StatusTruthful` is inductive with a little bookkeeping (`Housekeeping`), and gives
  what a returning scheduler leaves behind (`OnlyPredecessorMissed`). For `InStep` the nodes of
  the ring get a position in a round, which begins at the head: those before the active node have
  yielded once more than the others (`Rounds`). That main.c's tasks finish follows from where they
  are: in the ring all yield in one round and return in the next (`RingOfOnes`), in the list,
  where each search starts at the head again, they do so two by two (`ListOfOnes`), which is where
  an even number is needed. Second part, `MyThread`: for any number of threads and any set of
  addresses, a stack is taken only from a thread that wrote its flag, or whose flag was never
  initialised, and at the end only refused stacks and the tops of regions whose `mprotect` failed
  are mapped. Threads that were started have regions of their own, all of them mapped until main
  has created the last (`RegionInv`), and a flag that is set was set by its thread or is junk
  (`FlagInv`).

Only model-checked is everything about liveness and fairness, which the prover does not handle:
`Termination`, `PushedRuns`, `DestroyReturns`, `SessionEnds`, `EveryoneClosed`, `Delivered`,
`ProgramEnds`, `ThreadsEnd` and `OperationsEnd`; and the absence of deadlock, which speaks of ENABLED.

## 6. What is not modelled

* Failing allocations, except in `insert` of the map, in `parse_http_request` and in the list of
  header lines. `subscribe` then returns with the lock held (`PROJECT.json` lists it as a hazard).
* Headers and bodies longer than their fields, which the parser truncates (words of the first line
  are modelled: what does not fit goes into the next field); a partial `fwrite` or `fread` of a chunk,
  which is lost or sent as a whole; the hash itself, any function of the path; the progress callback and the log, which only print.
* The number of workers: `init_threadpool` starts `MAX_THREADS` whatever it is asked for.
* The last call of the semaphore program: `queue_destroy` there takes a `queue_t **` and gets a
  `queue_t *`.
* `uthreadpool*.c` never sets `head_uthread`; the model starts from the zero memory that the
  first `malloc` yields.
* The statistics of `lab2/3` other than `swap_count`, and the printing threads.
* `pthread_create` failing in `main`, which ends these programs.
* `lab2/old`, superseded by `lab2/1` and `lab2/2`, and `lab1/1` to `lab1/5`, single calls of the
  thread and signal interface that share no state.

## 7. Plan

Done, in this order: the subscription manager and its thread pool, the futex mutex, the sessions,
the queues with their abstract specification, the schedulers, the list, the map at the level of
pointers, requests of different methods for one path, the parser, the threads on `clone`, the
spinlock. Every component that keeps shared state has a module. Then the proofs: the mutex, the
pool, the subscription manager, the unsynchronised queue, `MyThread`, the four queues and their
refinement of `Fifo`, the sessions, the program of `test.c`, the list, the schedulers, the parser, the map.
What is left:

1. failing allocations in `subscribe`, with the lock it keeps;
2. a join of `Session` and `HashMap` that replaces `raced`, `lossy` and `wild` by the overlaps of one
   program;
3. the liveness properties for every size, should the prover come to handle fairness.
