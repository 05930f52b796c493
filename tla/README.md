# Verification of sis-prog

TLA+ models of the programs in this repository, the TLC configurations that check them on
small instances, and theorems that TLAPS proves for every instance. The repository is a
collection of systems programs for Linux; what makes them hard is concurrency between threads
(mutexes and condition variables) and between processes (pipes, FIFOs, signals), and that is
what is modelled. The code is the reference: its README says only what course it belongs to.

## 1. Inventory

### scheduler/: a thread pool ordered by start time (modelled, checked, proved)

- *State*: a `std::priority_queue` of tasks (start time, priority, work), a mutex, a condition
  variable, the atomic flag `stop_`, one thread per worker.
- *Operations*: the constructor spawns the workers; `enqueue` pushes under the mutex and calls
  `notify_one` after it; the destructor sets `stop_`, calls `notify_all` without the mutex and
  joins; a worker waits for a task or `stop_`, pops the top, sleeps until its start time, runs it.
- *Hard*: notifications outside the lock, spurious wakeups, destruction while tasks are queued
  or slept on, a destructor that races with a worker about to sleep.
- *Correct means*: no task lost, run twice or early; tasks leave the queue in order; no worker
  sleeps beside a queued task that nobody else is going to take; destruction drains and returns.

### relay-server/: a select loop with two children (modelled, checked, proved)

- *State*: `masterSet`, `readSet`, `maxFd`, the clients' sockets, a pipe to the receiver child,
  a FIFO to the logger child.
- *Operations*: fork receiver, fork logger, bind and listen; then select, scan the descriptors
  in order, accept or read, write each chunk to the pipe and, through an open/write/close of
  the FIFO, to the logger; SIGCHLD reaps.
- *Hard*: two channels to two children, a FIFO opened anew for every message (the logger sees
  an end of file between two messages), EINTR in select, SIGPIPE, descriptors reused, a full
  pipe, a write to it that the logger's end cuts short, a failed fork or bind after the children
  exist.
- *Correct means*: each client's bytes reach the receiver once and in order, and at most one
  chunk's end, cut by that signal, does not; select watches
  exactly the open descriptors; the server blocks or dies only where the loss of a child
  explains it; the children end with the server.

### pipe-fifo/, temp/relay: select loops in C (modelled, checked, proved)

- *State*: as above, but the FIFO is found by its name, the client descriptors are never
  closed, and `temp/relay` also holds the FIFO open while it serves. `chat.c` has the loop
  without children.
- *Operations*: unlink and make the FIFO, fork the children, bind and listen, open the FIFO;
  then the loop. The start may fail at each call, after the children exist.
- *Hard*: the end of a client is not noticed and keeps select from waiting; descriptors run
  out; a second server in the same directory takes the FIFO's name away; a logger that is late;
  children that outlive a failed start; SIGCHLD in select.
- *Correct means*: messages are printed and logged, ended clients do not starve the others, a
  server left alone has a log that works, the children end with their server.

### http-server/: a forking server that answers with the output of cat and ls

- *Processes* (modelled, checked, proved): `serve()` accepts and forks; SIGCHLD's handler reaps
  with `waitpid(-1, WNOHANG)` and is inherited by the children; a child's `execute()` forks a
  command, reads its pipe to the end and waits for it. *Hard*: merged signals, two waits that
  compete for one child, output larger than a pipe, a descriptor shared by three processes, an
  answer to a client that does not read.
- *One connection* (modelled, checked, proved): a read loop up to the empty line, the request line,
  `stat`, a directory's index.html, the command, the answer. *Hard*: the cut of the input into
  reads, and the file system changing between the look-ups and the command.
- *Start-up* (modelled, checked, proved): the argument, the port, the calls up to `listen`.
- *Logger* (not modelled): formatting and one `write`; nothing reads its state back.

### threads/: monitors

- `elements.cpp`, `cons_work/producer.cpp` (modelled, checked, proved): producers and consumers over a
  bounded buffer until an atomic flag, set without the mutex, stops them; a consumer copies the
  newest element and removes the oldest. `prod_cons/main.cpp` (modelled, checked, proved) is the
  first with plain `int` counters, a data race.
- `multiple_cons_work.cpp`, `cond.cpp` (modelled, checked, proved): a bounded buffer with two condition
  variables and many threads, or with one of them for both sides.
- `atomic/cond1.cpp`, `cons_work/worker.cpp` (modelled, checked, proved): threads that wait for a flag,
  with and without a notification.
- The other files hold one increment loop, one hand-over or one detach each (not modelled).

### mojbash/: a shell (modelled, checked, proved)

- *State*: the line buffer, the array of its words, the child and its redirections, the files.
- *Operations*: prompt, read a line, cut it into words, `exit`, or fork a child that redirects
  its input and output and runs mojecho, mojcat, mojtouch or mojls; wait for it.
- *Hard*: the end of input is not noticed; a refused `exit` frees the words and goes on with
  them; files truncated before they are read; a command that reads what it writes; a child that
  dies with output in its buffer; names under which nothing can be created; FIFOs and devices,
  on which any call may wait; other programs changing the files between two opens.
- *Correct means*: a command does to the files exactly what its line says, up to the buffer's
  content where it dies; the words of a line are freed once; the prompt comes back, unless the
  command is held by a terminal, a FIFO or a device.

### Not modelled

- `Logger.cpp` and the scheduler's `log`: formatting and one write under a lock or none;
  nothing reads their state back.
- The other files of `threads/`: each is one increment loop, one hand-over or one detach.
  `p2.cpp` pushes to a vector from two threads without a lock, which is undefined behaviour with
  no state one could describe.
- `terminal/`, `signali/`, `provjera3/`: single-threaded programs around the terminal's modes or
  one signal handler, whose state is the kernel's.
- `provjera4/`: straight-line exchanges over two pipes or one socket.
- `chat.c` behind its `accept`: the scan never gets there (`ClientsPerLifetime`).
- `pred/`: slides.

PROJECT.json lists every component with its sources, and every hazard at its line with the
properties that would catch it going wrong.

## 2. Modules

| module | models | state and actions |
|---|---|---|
| `TaskPool` | the promise of the pool | a task is new, queued, claimed or done; claiming takes a least queued one |
| `ThreadPool` | scheduler/src/threadpool.cpp, task_comparator.cpp | `pc` per worker, the set `tasks_`, `mutex_`, `stop_`, where the client is; one action per step between two points where another thread can interfere |
| `ThreadPoolProofs` | theorems, the refinement among them | |
| `Exchange` | the promise of a bounded buffer | numbered items are made in order and taken once; how many are under way, and how many an item may overtake, is bounded |
| `RelayServer` | RelayServer.cpp, all three processes | `server` is the place in `init()`/`run()`, `fd` the loop variable of the scan; pipe, FIFO and sockets are sequences of messages; `hand` is the chunk read, of several messages, and `written` how many of them its `write` has put in the pipe |
| `RelayServerProofs` | theorems | |
| `CRelay` | pipe-fifo/relay.c, temp/relay/relay.c, pipe-fifo/chat.c | `server` is the place in `main()` of each process; `path` says which FIFO the name leads to, `held`, `brief`, `source` who has which one open; `readSet` is what the scan has still to look at |
| `CRelayProofs` | theorems | |
| `HttpServer` | HTTPServer.cpp `serve`/`reapZombie`, Utils.cpp `execute`, Socket.cpp | the server, one child and one command per connection; `holders` says which processes, the command among them, have a connection open, `sigchld` who has a signal pending, `body` how much there is to send |
| `HttpConnection` | `handleConnection`, `handleRequest`, HTTPRequest.cpp | a request is a sequence of word, separator and line-end tokens that arrives in chunks; the file system is the kind of the path and of its index |
| `HttpStartup` | main.cpp, Port.cpp, `validateArgs` | an argument is its length and its value, the port is kept modulo 2^16 as `htons` takes it, `bound` is the one `bind` chooses for it |
| `HttpServerProofs` | theorems about the three models of http-server/ | |
| `Mojbash` | mojbash/main.c, scanner.c, utils.c | `shell` and `child` are places in the two processes; a line is its words, `scanned` is how many of them `parse_redirection` has kept (one word, or one redirection, per step); a name is absent, barred (nothing can be created), locked, a directory, a file or special (a FIFO or a device); a file is the chunks that `read` returns from it; the child's stdout buffer is `buffered`, of `BufferCap` chunks |
| `MojbashProofs` | theorems | |
| `Monitor` | `std::mutex`, `std::condition_variable` (external) | `Lock`, `Unlock`, `Wait` (releases and blocks in one step), `NotifyOne`, `NotifyAll`, `WakesUnasked` |
| `DoneQueue` | threads/elements.cpp, cons_work/producer.cpp, prod_cons/main.cpp | `perElement`: the programs differ in one brace and the order of two calls; `atomic`: a counter's `++` is one step, or a read and a write; elements are numbered as they are stored, so that `buffer.back()` and `buffer.pop()` are told apart |
| `DoneQueueProofs` | theorems | |
| `BoundedBuffer` | threads/multiple_cons_work.cpp, cond.cpp | `program` holds the threads, capacity, shares and condition variables of either |
| `BoundedBufferProofs` | theorems, the refinement among them | |
| `Gate` | threads/atomic/cond1.cpp, cons_work/worker.cpp | likewise: does main announce the flag, does the worker answer |
| `GateProofs` | theorems | |

`Monitor` is extended by the three modules about threads/; `ThreadPool` keeps its own mutex and
waiters in `pc`, which suits its proofs. `ThreadPool` implements `TaskPool`, and
`BoundedBuffer` implements `Exchange`, each through an INSTANCE with a refinement mapping at the
end of the detailed module. The three models of http-server/ share no name (`ConnectionSpec`,
`StartupSpec`), so that one module holds the theorems about all of them. `MC*` modules only give
constants their values.
Operators whose name is a definition's with a suffix (`Pop_NoPop`) are wrong variants of it, as
a slip in the code would make it; each property is checked to be violated by one of them.

What the models abstract: a relayed message is what enters a pipe in one piece (PIPE_BUF), and a
`read` returns one or several; works, files and responses have no content beyond what the
properties tell apart; system calls fail where the code looks at the failure (and `fork` in the
relay, where it does not).

Left out, beyond the parts named above: works that throw and pools without threads; `accept`
failing and short writes to sockets; what the receivers' stdout does with what they have read (it
is buffered, and `_exit(0)`, RelayServer.cpp:113-116, drops what is still in it when it is not a
terminal: `received` is what was read); descriptor limits outside `CRelay`, and backlogs; in
`CRelay`, forks that fail, a pipe or standard output that is full, and writes above PIPE_BUF; the
message length in Logger.cpp; in mojbash the start-up, its prompt, signals from the terminal, the
data of the rows of mojls, files that can be read but not written, what FIFOs and devices
contain, and what becomes of a file that is removed while it is open.

## 3. Runs

Every run lists its bounds in its .cfg; each takes a few minutes at most with two workers.

| run | instance | what it shows |
|---|---|---|
| `pool` | 3 workers, 3 tasks, clock to 2 | `TaskConservation`, `WorkConserving` (no wakeup lost by `enqueue`), `LostStopWindow`; `ImplementsTaskPool`; `EveryTaskRuns`, `DestroyedUnlessMissed` |
| `pool_lost_stop` | 2 workers, 2 tasks | **violated**: `DestructorReturns` |
| `relay` | 2 clients, 2 messages each, reads of 1 or 2 messages, pipe of 1, FIFO of 2 | `StreamIntact`, `WatchesOpenFds`, `HarmedOnlyByChildren`, `LogInRelayOrder`; `EveryMessageRelayed`, `ChildrenEnd` |
| `crelay` | each relay alone with 2 clients and room for 1 or 2 descriptors; two servers in one directory; the chat; a FIFO of 1 | `LogsUnlessOverlapped`, `ClientsPerLifetime`; `EveryMessageLogged`, `ChildrenFollow` |
| `http_processes` | 2 connections, commands of up to 2 blocks, a pipe of 1, a socket that takes 1 unread | `NoStrandedZombie`, `OutputComplete`; `EveryRequestAnswered`, `ConnectionsClosed` |
| `http_connection` | 12 requests in chunks of up to 3 tokens, 2 changes of the file system | `VerdictOfRequest`, `RightWhenQuiet`, `ContentWasRight`; `CompleteRequestAnswered` |
| `http_startup` | arguments of 0 to 6 characters, 16 values, 2 ports for the kernel to choose | `ListensOnGivenPort` |
| `mojbash` | 2 of 35 lines and the end of input, 1 chunk typed to a command, 1 change of the files, files of at most 4 chunks, a stdout buffer of 1 row | `RunsAsWritten`, `TouchedFilesStand`, `EndOfInputNamesNoFile`, `TokensFreedOnce`; `PromptReturns` |
| `elements` | the three programs: 2 producers, 2 consumers (as in main), a buffer of 2, 3 elements | `Accounted`, `LossIsBounded`, `NoLostWakeup`; `EndsUnlessMissed` |
| `buffer` | cond.cpp at its own size; 2 producers, 3 consumers, a buffer of 2, 4 items | `NoLostWakeup`, `OneWaiter`; `ImplementsExchange`; `ExchangeCompletes` |
| `gate` | cond1.cpp with 4 threads, worker.cpp | `HandedOver`; `MainEnds` |
| `gate_unannounced` | the same | **violated**: `DataProcessed` |

Each of these modules but `HttpStartup` also has a type invariant, `TypeOK` or
`ConnectionTypeOK`. It is proved (`TypeCorrect`, `ConnectionTypeCorrect`), so the runs list only
properties that say more.

Why the bounds are enough. A lost wakeup needs one thread that sleeps, one on its way and one
that notifies: three workers and two threads per side have all combinations. Tasks: two of
equal start time decide by priority, one is due at once; a clock that reaches 2 passes the
latest start time. Two clients suffice for interleaved streams, for a descriptor that is closed
and reused, and for one client that waits while another is served; two messages each, for a
logger that exits after a first burst and is written to again; a FIFO of 2, for a FIFO that
fills and one that does not; a chunk of 2 in a pipe of 1, for a `write` that blocks half way.
`CRelay`: room for one descriptor fills before the second client,
room for two after it, so that a message finds none for its FIFO; two servers are enough for one
to take the FIFO's name from the other. Two connections are enough for signals that merge; two blocks in a
pipe of one, for a command that blocks, and with room for one in the socket, for an answer that
waits for its client and one that does not. Two file changes fall before, between and after the
look-ups. The lines of `mojbash` hold each command with and without arguments and redirections, and
names of each kind the model has: absent, barred, locked, a directory, a file, one special file.
Not every command meets every kind. Two lines in a row let a second command meet what a first one
wrote, and the end of input follow either; listings fit into the stdout buffer or do not.
The buffers hold fewer elements than are produced, so that both sides wait; three elements and a
buffer of two are enough to copy one and remove another, but not for two producers to sleep at a
time, which the theorem `WakeupsCovered` covers. The proved invariants do not depend on the bounds.

Deadlock checking is off in all runs because each program may really stop: a client that does
not destroy the pool, a server nobody connects to, threads that have ended.

### Fairness

- Every thread or process that can take a step takes one (weak fairness per thread): the
  operating system schedules all of them. In the pool, works return and the clock advances.
- A call that may wait for ever is not fair: `write` to a client that does not read
  (`SendDrained`), and in mojbash any call on the terminal, a FIFO or a device (`MayBlock`).
- Clients, callers and whoever sits at the terminal choose freely: no fairness on typing,
  connecting, sending, reading an answer, adding a task, destroying a pool, starting or killing a
  server, or a call that fails. Nor is a spurious wakeup ever relied on.
- `BoundedBuffer` and `Gate` assume strong fairness of taking the mutex: a thread that finds it
  free again and again gets it. Under weak fairness threads that wake without cause could
  take turns in keeping it from one that wants it, for ever.

### What the code does not do

- `~ThreadPool` sets `stop_` and notifies without the mutex: a worker between its test of the
  predicate and its sleep misses it, and the join never returns (`pool_lost_stop`).
  `LostStopWindow` and `DestroyedUnlessMissed` say that this window is the only one.
- worker.cpp raises `ready` without notifying: if the worker waits already, neither it nor main
  goes on (`gate_unannounced`).

The rest is stated by passing properties, or by what the models do, rather than as runs of its own.

threads/:

- `DoneQueue`'s programs copy `buffer.back()` and then remove the front with `buffer.pop()`
  (elements.cpp:54-55, prod_cons/main.cpp:52-53, cons_work/producer.cpp:54-55). With two or more
  elements in it the oldest is removed unread, and the newest may be consumed twice. `Accounted`
  says that the numbers agree all the same, and counts the skipped elements against the doubled
  ones; `LossIsBounded` says that an element is skipped only for one that was in the buffer with it.
- elements.cpp may miss its flag (`EndsUnlessMissed`), and drops the element of a producer that
  finds the buffer full then (`LossIsBounded`); prod_cons/main.cpp's counters may fall behind
  (`Accounted`).
- `producer_finished` of multiple_cons_work.cpp is never set and its consumers are joined with the
  producers, so that "All threads finished" is never printed (`ExchangeCompletes`).

The relays:

- The logger may exit after the first burst, and the relay may then be killed by SIGPIPE or be led
  by the interrupted select into a call that blocks (`HarmedOnlyByChildren`).
- The result of the `write` to the pipe is not looked at (RelayServer.cpp:176). The SIGCHLD of the
  logger's end may cut a `write` that blocks half way, and the rest of the chunk never reaches the
  receiver: one gap at most, since there is one logger (`StreamIntact`). `SA_RESTART` does not
  restart a call that has already transferred something.
- Any error of `select` but EINTR is thrown and ends the server, and with it the children.
- The receiver leaves with `_exit(0)`, and what its stdout still holds is not printed.
- The C relays never give a descriptor back and the chat accepts nobody (`ClientsPerLifetime`); a
  second relay in the directory cuts the first one's log off (`LogsUnlessOverlapped`).

http-server/:

- `parsePort` refuses 65535, which its message, "between 0 and 65535" (Port.cpp:16), allows. It
  accepts 0, with which `bind` takes a port of the kernel's choice, while the log names port 0
  (HTTPServer.cpp:115). `ListensOnGivenPort` has both.
- When `execvp` fails, the command's process writes the error to its standard error, the pipe
  (Utils.cpp:60-62), and that text is sent with status 200; so is what `cat` or `ls` says of a file
  or a directory it cannot read (`RightWhenQuiet` names the first as an exception; the second is
  part of what it calls the right answer, since the code makes no difference).
- When `read` from the pipe fails (Utils.cpp:72-75), the request is answered with a 500 and the
  command is waited for by nobody but the signal's handler (`CollectFails`).
- Nothing limits how long a `write` of an answer waits (HTTPServer.cpp:253): a client that neither
  reads nor closes keeps its child and its connection (`Deaf`, the exception in
  `EveryRequestAnswered` and `ConnectionsClosed`). A command inherits the client's descriptor, and a
  connection is closed when it has ended too.

mojbash/:

- It aborts after a refused `exit`, at the end of input repeats the last command without its
  arguments, and mojls dies of what it cannot open (`TokensFreedOnce`, `EndOfInputNamesNoFile`,
  `RunsAsWritten`). What mojls had listed before reaches the file only in full buffers.
- mojtouch's second open does not create the file (utils.c:185, 200-202): a name that another
  program removes between the two stays without one, and where none can be created it prints an
  error and goes on with the next name (`TouchedFilesStand`). A redirection to such a name is fatal
  to the command.
- A FIFO or a device holds a command for ever, and the shell with it: `open` waits for the other
  end, and a device may never end (`PromptReturns`).
- An allocation that fails ends the shell (`TokenizeFails`).

### Bounds that are part of a model

`Horizon` (clock), `MaxMsgs`, `OutputMax`, `ChunkMax`, `MaxChanges`, `MaxProduced`, `MaxLines`,
`MaxTyped` and `ArgcMax` guard the actions that would otherwise run on. `ReadMax`, `PipeCap`,
`FifoCap`, `SockCap`, `BufferCap` and `MaxLen` stand for real limits: a read buffer, a pipe, a FIFO,
a socket, a stdio buffer, a full disk.

## 4. Proofs

Assumptions on constants are the named ASSUMEs: disjoint finite sets, positive capacities; for
mojbash also that at the start nothing absent, barred or a directory has contents, and what there is
fits on the disk. All theorems hold for any values that meet them. Every invariant that a passing run lists, the
two refinements, and the type invariants are proved.

**ThreadPoolProofs.** `IInv` is inductive: a worker is inside the lock exactly if it owns the
mutex (`LockInv`), holds a task exactly between pop and run and runs it only when it is due
(`TaskInv`), `stop_` follows the client (`ClientInv`), and a worker about to block has seen an
empty queue, one about to return an empty queue and `stop_` (`QueueInv`); `WindowInv` widens
`LostStopWindow` to the worker that has yet to block. From it follow `TypeCorrect`,
`Conservation`, `OnTime` (`NoEarlyRun`), `DestructorDrains`, `OnlyLostStop`, and
`NoLostEnqueueWakeup`: the last is inductive only with `QueueInv`, because a worker may leave
the claimants for the waiters only when the queue is empty; the rest of its proof counts, with
the lemmas on cardinalities. `ComparatorStrictWeakOrder` is what `std::priority_queue` requires.
`Refinement`: under `IInv` each step is a step of `TaskPool` or leaves its variables
alone: `EnqueuePush` is Submit, `Pop` is Claim (the queue's top precedes all), `Run` is Run,
`DestroyStop` is Close, the end of the join is Finish.

**RelayServerProofs.** Each open client has one descriptor and each descriptor one client
(`OwnerInv`); what the scan has still to look at is open, and ready unless the logger has exited
(`ScanInv`): only the SIGCHLD of a logger that left interrupts select, and clients only add to what
is ready; `ChildInv` says which child can be missing at which place of the server. From it follow
`TypeCorrect` (with the pigeonhole argument that a queued client finds a free descriptor),
`WatchedFds` and `HarmlessClients`. For the streams, what a client sent and the server has not read
is numbered without a gap up to the last one sent, and what was relayed, with what is in the
server's hand, holds the client's messages before these, once and in order, and all but those in
`lost` (`StreamInv`): this needs `OwnerInv`, since a descriptor that two clients shared, or that a
closed client kept, would mix their streams. What is lost is the end of one chunk: a chunk in hand
are messages of one client, one after the other (`OneChunk`), and a `write` is cut by the one
SIGCHLD there is, which is no longer pending behind it (`CutInv`). `StreamsKept` follows. What of the
chunk in hand was relayed are the last ones relayed, and none of it is logged; what was cut finds
nobody at the FIFO (`LogInv`), hence `LogOrdered`. These are stated by positions: a filter of a
sequence is recursive, and opaque to the prover. `ReceiverEndsLast` is the safety part of
`ChildrenEnd`: the receiver ends after the server and the logger, and has then read all that was
relayed (`ReceiverInv`); of its output buffer nothing is said.

**CRelayProofs.** masterSet is the listener and everything ever accepted (`WatchInv`), so its size
counts a server's clients and `Full` bounds them; in the chat the scan ends before the listener while
there is no client, and therefore there never is one: `ClientsBounded`. For `AloneLogs`, a client's
message stays with the server that accepted it (`MailInv`). While no two servers have run at a time
the one that runs made the FIFO the name leads to and holds it (`FifoInv`), its logger waits
until then, reads that FIFO and always finds a writer (`LoggerInv`), and a message that was passed
on is logged, in that FIFO, in hand or dropped (`LogInv`). The last needs the others:
the FIFO keeps its content because the server holds it, a name that cannot be opened is
excluded, and a server that reaches its loop owes nothing because it has accepted nobody.

`ReceiversEndLast` is the safety part of `ChildrenFollow`: a receiver reads the end of its pipe only
when the server is dead and the logger, which has the write end too, has left, and no message is
in it (`ReceiverInv`).

**HttpServerProofs.** `IInv` adds to the types the server's place in its loop and the socket it
owns (`SocketInv`), that a connection without an accept has no child (`ForkInv`), and the stages of
a command by those of its child (`CommandInv`). It gives `ZombiesAnnounced`: however signals
merge, a zombie has a pending signal or an unfinished handler; `DescriptorsReleased`;
`NothingLeftInPipe`, for any capacity of the pipe.

For a connection, what was read and what was not are together the request, and the loop is left
behind the end of a line (`TextInv`); the first line of a text depends on nothing behind its end.
That gives `ChunksDoNotMatter` for requests and chunks of any length; the existence of a first line end is
well-founded induction on positions, used through the library's least-element fact. `seen` holds
the answer the files call for now from the look-up on (`SeenInv`), it is all there is while nothing
changes (`QuietInv`), and an answer is decided by the command that was chosen, or is the message of
an `execvp` that failed (`ArgvInv`):
`QuietFilesRight` and `ContentRight`. `ConnectionTypeCorrect` adds that an answer is one of those
the code can make, which rests on the same invariants (`AnswerTypes`).

For the start-up, `PortSurvives`: a server that listens does so on its argument's port, or, when that
is 0, on one of the ports the kernel chooses from. A port that `parsePort` accepts is below 2^16, so
the conversion loses nothing.

**BoundedBufferProofs.** `Refinement`: every step is a step of `Exchange` or a stutter. A claimed
number stands for a begun iteration, of which there are `Total` (`CountInv`), so numbers never run
out of range; numbers under way are distinct (`NumberInv`); the item at a place of the buffer has
overtaken fewer than all producers (`OrderInv`), because a smaller number that is not in front of
it is in another producer's hands or was when it was pushed.

`WakeInv` is `NoLostWakeup` for either side and which queue a sleeper is
in. A side's travellers and the debts of the other change by one thread per step, and a
notification turns a debt into a traveller (`StaysCovered`). With a shared condition variable it
excludes sleepers of both sides, `SharedQueueSafe`, since the buffer would be empty and full; that
is what makes the notification reach the right side, so the two are proved together (`WakeupsKept`).
`TypeCorrect` includes that no number is drawn beyond the last item, so that the branch of the code
that gives one back is never taken; that is `CountInv` again.

`AsleepOnlyWhenComplete` is the safety part of `ExchangeCompletes`, freedom from deadlock: when
every thread has ended or sleeps, nobody is on the way and nothing is owed, so by `WakeInv` a
sleeping consumer means an empty buffer and a sleeping producer a full one. What is drawn is in hand,
stored or taken (`MadeInv`), and a loop's counter says what its thread has taken (`EndInv`); a
producer that sleeps would then have more made than there is, a consumer that knows its quota more
taken. It assumes that the quotas add up to the shares, as in cond.cpp, or that the consumers take for
ever. `MainNeverEnds` is its other part: main does not get past the joins of multiple_cons_work.cpp.

**DoneQueueProofs.** A thread about to block holds the mutex and has seen what it waits for to be
missing (`LockInv`); who has a live element in its local variable is known from its place
(`ElementInv`); a counter's value that was read and not yet stored is behind (`CounterInv`).
`Balance` says in numbers that elements made and phantom consumptions are those taken, stored, held
and lost. Which elements they are is `PassInv`: the buffer holds the last ones stored, in order, each
taking removed one, and a removed element was taken over, or a younger one that was in the buffer
with it. As many elements are then skipped as takings were in excess, a matter of cardinalities
(`ElementsAccounted`); that a skipped element has a younger one within the capacity is the one half
of `LossBounded`, the other, that nothing else is dropped before `done` and then once per producer, is
`DropInv`. `WakeupsCovered` counts
for each side the notifications owed and the threads on their way against the elements, or
places, for sleepers that would otherwise be left: an element that goes in is owed one, a notification
turns what is owed into a thread on its way. `OnlyMissedSleep` is the safety part of
`EndsUnlessMissed`: when main joins, a thread that sleeps or is about to is one that had found
`done` unset and had not blocked when its `notify_all` came (`SleepersMissed`). A thread that decides
later sees `done` and cannot join them.

**GateProofs.** Flags are tested and raised under the mutex (`LockInv`), and what was done to the
string is what the flags say (`DataInv`): `NoAccessesMeet`. `AnnouncementReachesAll` says that after
an announcement no worker is in the wait, which is the safety part of `MainEnds`; it needs the mutex
to be held from the raising of the flag to the notification, what `~ThreadPool` lacks.
`AnswerReachesMain` is the other direction: while main sleeps and the worker's flag is up, a worker
has the notification still to send. The one queue is shared, so it needs that no other worker
can be asleep in it to take the notification: either there is one worker, or the announcement
woke them all (`AnswerOwed`).

**MojbashProofs.** `TokensOwned` and `BareAtEndOfInput` from one invariant: who owns the array of
words at each place of the loop, with the refused `exit` as the one place where nobody does
(`OwnerInv`), and that the buffer holds one word at most between a `Tokenize` and the next line,
hence for ever at the end of input (`CutInv`). Steps of the child leave all of it alone.

`TouchesStand` and `OutputAsWritten` say what a command has done to the files when it has ended, for
a sensible line of any length, which names no special file (`Sensible`): of the contents of FIFOs and
devices nothing is said. Four layers, each resting on those before:

- `StateInv`: types, what each place of the child says of its variables, that special files stay
  what they are, and that what stdout is redirected to is a regular file or a special one,
  unless the redirection has failed (`FileInv`). `TypeCorrect` follows.
- `LineInv`: the parse. The promise names a redirection as the last one in the line and the
  arguments as a filter of it; the code removes words from an array. `ParseInv` relates the two
  at every step of the loop: a kept word is the word of the line with as many arguments in front of
  it, the words to come are the line's end, and the names are the last ones so far. At the end
  of the loop that is what the promise says, without an induction over the line.
- `RunInv`: what the command has still to do is the end of its `Work` (`ProgressInv`), and the files it
  has made are those of the work done, those it has not are as they were (`FilesInv`). Of files
  that others have touched nothing is said, so their steps preserve it. `TouchesStand` follows; a
  name is left without a file only if it was barred.
- `OutInv`: nobody else has touched a file. What is on the screen, in the file and in the
  buffer is together the output of the work done, and only a listing keeps any in the buffer, at
  most `BufferCap` rows, which is what its death can cost. A file that is full cuts it: cutting after each
  write equals cutting once after all of them (`Limited`), which is why the order of small writes
  does not matter.

The output is the concatenation of one sequence per argument, `FlattenSeq`, a fold. The proof uses one
fact about it, that one more argument appends its output, which follows from the fold's defining
equation; that the equation has a solution at all is obtained from the least element of the
set of lengths for which it fails.

Only model-checked: the liveness properties, `EveryTaskRuns`, `DestroyedUnlessMissed`, `EveryMessageRelayed`,
`ChildrenEnd`, `EveryRequestAnswered`, `ConnectionsClosed`, `CompleteRequestAnswered`, `EndsUnlessMissed`,
`ExchangeCompletes`, `MainEnds`, `PromptReturns`, `EveryMessageLogged` and `ChildrenFollow`. They hold
under fairness, and ENABLED and fairness are beyond the prover; what was proved of their
safety parts is named above. The invariants of HttpServer and ThreadPool that no run lists
(`NoEarlyRun`, `DrainedOnDestroy`, `NoDescriptorLeak`) are proved for all instances.

## 5. Plan

Done: ThreadPool with TaskPool, RelayServer, CRelay, HttpServer, HttpConnection, HttpStartup,
DoneQueue, BoundedBuffer with Exchange, Gate, Mojbash, and theorems about every one of them: all
their type invariants, all the safety invariants the runs check, both refinements.

What could still be proved are safety parts of the liveness properties that have none yet: for
`EveryRequestAnswered`, that a child, its command and the pipe between them never wait for each
other; for `PromptReturns`, that a child of mojbash always has a step but one that waits for input.
