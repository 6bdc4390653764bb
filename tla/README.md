# Verification of hxcomm

hxcomm connects experiment code on a host to BrainScaleS neuromorphic chips: it
encodes programs (sequences of UT messages) into words, sends them to an FPGA or
an RTL simulation, and decodes what comes back. A scheduling service, quiggeldy,
lets several users share one piece of hardware. This directory holds TLA+ models
of that code, the TLC configurations that check them, and proofs for TLAPS.

Paths below are relative to the root of the repository (`src/`); `common/` stands
for `include/hxcomm/common/`. `PROJECT.json` maps every definition to its lines.

## The system

| Component | State | Operations | Interacts with |
|---|---|---|---|
| `execute_messages`, `Stream` (`common/execute_messages.h`, `stream.h`) | the lock on the connection | add, commit, run_until_halt, receive_all | any connection |
| `ARQConnection` | send queue (packet), encoder, decoder, receive queue, halt flag, receiver thread, two mutexes | add, commit, run_until_halt, receive_all, work_receive, moves | the HostARQ stream (library) and the FPGA |
| `SimConnection` | as above without packets; the runnable flag of the simulation | the same | the simulator (RPC client) |
| `ListenerHalt` | one atomic flag | operator(), get, reset | called by the decoder in the receiver thread, read by a caller |
| `SignalOverrideIntTerm` | two remembered handlers per object; the handlers of the process | constructor, destructor | every thread that polls for a halt |
| `Encoder`, `Decoder`, `UTMessage` | bit buffers, number of bits, decoder label | operator(), flush | queues of the connections |
| `LoopbackConnection` | three queues, two mutexes, a worker thread | add, commit, receive_all | tests |
| `ZeroMockConnection` | receive queue, halt flag | the stream interface | users without hardware, `MultiConnection` |
| instructions (`include/hxcomm/vx/instruction/`, `common/payload.h`) | none: layouts of payloads | encode, decode | messages of all connections |
| `MultiConnection` | several connections | execute on all, concurrently | the connections, `ExecutorMessages` |
| `ConnectionRegistry` | the set of endpoints in use | register, deregister | constructors, moves and destructors of connections |
| `ReinitStack`, `ReinitStackEntry` | a stack of programs with a pending flag each; the index of each entry | setup, set, pop, enforce, upload, set_all_done | `QuiggeldyConnection`, the server |
| `QuiggeldyConnection`, `QuiggeldyFuture` | session, sequence number, retry parameters, time information, uploader | submit_blocking, submit_async, moves, assignment; get, cancel | the RCF client (library) |
| `QuiggeldyWorker` | connection, slurm allocation, failed sessions | setup, work, perform_reinit, snapshot, verify_user, teardown | called by the scheduler (library), forks slurm programs |
| `QuiggeldyServer`, quiggeldy program (`src/tools/quiggeldy_binary.cpp`) | the server object, the signal thread and its handler | start, reset, shutdown | the scheduler, signals |
| `EnsureLocalQuiggeldy`, `wrap_with_quiggeldy` | child processes, environment variables | launch, run a command, terminate | the quiggeldy program, the command |
| `connection_from_env`, FPGA list | none: reads the environment | choose connections, pack them into groups, take the first out for its full stream interface | all connections |
| pyhxcomm (`Managed`, `Handle`) | the connection a handle owns, the handle a manager made | enter, exit, disconnect, get, release | connections, Python |
| time information, user verification, serialization, logging | durations; none | sums, conversions | clients and workers |

### What is hard, and what makes each part correct

* **Concurrent callers and the receiver thread.** `Stream` takes the connection
  mutex, but the receiver thread does not: it raises the halt flag, queues the
  message, and unlocks, while the caller polls the flag, resets it and swaps the
  queue out. Correct means: each call returns the answers to its own program, all
  of them, and leaves nothing for the next call.
* **Words and packets.** Messages need not end on word boundaries, words not on
  packet boundaries, and full packets are not transmitted until a flush. Correct
  means: nothing stays behind after a commit, nothing is written behind the
  packet, and the decoder finds the messages again.
* **Moves.** A connection is moved while it has a receiver thread. Correct means
  that the thread is joined before its state is taken over and that no halt of
  the old object reaches a call on the new one.
* **Process-wide state.** Signal handlers belong to the process, overrides to
  threads. Correct means that a polling thread can be interrupted.
* **Reinit programs.** Entries are pushed, set and popped in any order, from
  several threads, while work is submitted. Correct means that no entry disturbs
  another's place, and that work finds the hardware initialised by everything
  that was set before it was submitted.
* **The service.** Failed reinits, failed connects and slurm allocations that are
  lost. Correct means that no session is served on hardware that is not its own,
  not there or not initialised.
* **Its clients.** Submissions are sent again when their answer is lost, futures
  are cancelled or outlive the object they were made with, and that object is
  moved, assigned to, or owned by a Python context manager. Correct means that a
  program is executed once and in order, that no sequence number is lost, and that
  a session, its time information and its uploader stay together.
* **Processes.** The signal thread and the main thread of quiggeldy share the
  server without a lock; a wrapper starts it, runs a command and ends it, while
  any of them may be killed. Correct means that everything ends and nothing is
  left behind.
* **Several connections at once.** A `MultiConnection` executes on all of its
  connections concurrently and one may throw. Correct means that the answers on
  each connection belong to what was asked there.

`PROJECT.json` lists the hazards line by line, each with the properties that
would catch it, or with the reason why none does.

## Modules

| Module | Models |
|---|---|
| `Execution` | what one call of `execute_messages` promises, on any connection |
| `ARQConnection` | callers, encoder, send queue, HostARQ stream, FPGA, receiver thread, move construction |
| `ARQConnectionProofs` | the inductive invariant of `ARQConnection` and the theorems |
| `SimConnection` | the same for the simulation, with its scopes in run_until_halt and its receiver thread without a lock |
| `SimConnectionProofs` | the inductive invariant of `SimConnection` and the theorems |
| `SignalOverride` | constructor and destructor of `SignalOverrideIntTerm` in several threads |
| `UTMessage` | the layout of messages, as functions of a parameter set |
| `Codec` | `Encoder`, the stream of PHY words, `Decoder` |
| `Reinit` | `ReinitStack`, entries, submissions, `QuiggeldyWorker::perform_reinit` and `work` |
| `ReinitProofs` | the inductive invariant of `Reinit` and the theorems |
| `QuiggeldyWorker` | setup, work, perform_reinit, perform_reinit_snapshot and teardown, with slurm and connection set-up |
| `QuiggeldyWorkerProofs` | the inductive invariant of `QuiggeldyWorker` and the theorems |
| `Connections` | constructors, moves, assignments and destructors of `ARQConnection`s in `MultiConnection`s, over the `ConnectionRegistry` |
| `ConnectionsProofs` | the inductive invariant of `Connections` and the theorems |
| `QuiggeldyConnection` | the client of the service: objects, submissions, retries, futures; the server's order of execution |
| `ManagedConnection` | the context managers and handles of pyhxcomm over `QuiggeldyConnection`, and C++ code beside them |
| `ManagedConnectionProofs` | the inductive invariant of both and the theorems |
| `QuiggeldyProgram` | the quiggeldy program: main thread, signal thread, the server between them |
| `FromEnv` | `get_connection_list_from_env`, `get_connection_full_stream_interface_from_env`, as functions of the environment |
| `LocalQuiggeldy` | `wrap_with_quiggeldy`, `EnsureLocalQuiggeldy` and a command around `QuiggeldyProgram` and `FromEnv` |
| `LocalQuiggeldyProofs` | the inductive invariant of the three and the theorems; the arithmetic of the groups |
| `Instructions` | the payloads of all instructions as layouts, encode and decode |
| `MultiConnection` | concurrent execution on several `ZeroMockConnection`s, snapshots and their transform |
| `LoopbackConnection` | its user, its worker, its two mutexes |
| `SoftwareConnectionsProofs` | lemmas about layouts and messages, the inductive invariants of `LoopbackConnection`, `MultiConnection` and `Codec`, and the theorems |

`MC*` modules and the `.cfg` files give the constants small values.

### Execution

The abstract specification. `Execute(t)` runs the program of one thread as a
whole; `Return(t)` hands it a subsequence of answers to its own messages which
ends with the halt that `ExecutorMessages` appends. One call at a time is between
the two. Fairness: some thread that asked is served.

### ARQConnection

`pc[t]` follows `ExecutorMessages::operator()`: `lock` (the `Stream` constructor),
`add`, `commit`, `wait` and `reset` (the loop of run_until_halt and what follows
it), `receive`. A message underway is in exactly one of the sequences

    m_encoder, m_packet, unflushed, to_fpga, from_fpga, packet, m_receive_queue

which follow it from the bits that remain in the encoder, through the words of
the send queue's packet, the stream's buffer and the FPGA, into the packet the
receiver thread decodes and the receive queue. Which message a word completes is
left open (`Add` picks the number), so the model covers all sizes of messages;
`len` counts words, and a full packet is sent without being transmitted
(`Mode::NOTHING`), as in `SendQueue::push`. The FPGA executes in order, answers
the halt always and any other message or not, and packs answers as it likes.
`Listen` and `PushMessage` are two steps, because `Decoder::decode_message` calls
the listener before it queues the message. `executed` and `answered` are history:
what the FPGA did since the mutex was taken.

Moves are made by the only user of a connection, so `MoveBegin` needs all callers
idle; `MoveEnd` needs the receiver thread to have ended.

### SimConnection

The same callers, with the two scopes of run_until_halt: `StartSimulation`
(constructor of `ScopedSimulationRun`), `StopSimulation` (its destructor) and
`ResetHalt` (the destructor of `ResetHaltListener`), in the order in which the
scopes are left. The simulation executes and answers only while it runs.
`SimConnection::work_receive` pushes into `m_receive_queue` without
`m_receive_queue_mutex`, so receive_all is two steps (`BeginReceiveAll`,
`EndReceiveAll`) and a push between them is a data race on two `std::vector`s. The
message may end in the queue that is returned, in the one that is left, or be lost;
or the push reallocates, or builds its element in a buffer that has changed hands,
and then nothing is known of either queue any more, whatever was in them before.
That is undefined behaviour, and modelled as such: `corrupted` is set, the call may
still return, with anything (`Undefined`), and nothing else is said of the process,
not even that it goes on (`Aftermath`).

### SignalOverride

Each thread goes through the steps of constructor and destructor, signal by
signal, in the order of the code; `handler` is the state of the process.

### UTMessage and Codec

Bits are 0 and 1 and a buffer is a sequence of them. A parameter set has the
widths of PHY word, subword and alignment and the payload sizes of the message
types; `UTMessage` computes header width, word width and the buffer size of the
decoder from it as the templates do (`Shifts` and `ValueOf` are recursive functions:
a number is shifted bit by bit, as `num_bits` does). `Codec` keeps the encoder's
bits, the words underway (with idle words, which begin with a comma, between them),
and the decoder's buffer and label; one action per label of
`Decoder::operator()(word)` and one per operation of the encoder. What the code and
the machine guarantee about parameters is `ParameterAssumption`: sizes are positive,
the dictionary is not empty, of PHY word and subword one divides the other, and a
header is no wider than a subword.

### Reinit

`m_stack` is the client's stack, `reinit` the copy uploaded for its session.
`Set` and `Upload` are two steps, since the mutex of the stack is released
between them; so are `Pop` and `Replace` for an entry that is not on top. A
submission is executed by the worker in `PerformReinit` and `Work` (or `Reject`),
and a blocking one ends with `SetAllDone`. `board` holds the requests executed
since the session has the hardware. The scheduler is a library: it is taken to
call perform_reinit before each work, and to force it when the session was
enforced, comes back to the hardware, or after the worker gave the hardware up.

### QuiggeldyWorker

`call` is what the one thread of the scheduler is about to do in the worker, and
the members have their names; `m_allocate_license` starts with any value, since
the constructor does not set it. A call that fails half-way is its own action
(`SallocFails`, `ConnectFails`, `GiveUpConnecting`, `ReinitFails`,
`SnapshotFails`, `Refuse`). teardown is `Disconnect` followed by `Release`, with
`after` for what comes behind it, because it is called from the middle of
perform_reinit and perform_reinit_snapshot as well. `chip` says which state of
which session the board has; others of the cluster leave it unknown (`Foreign`).
`version` and `expected` are history: how often a session changed the chip, and
which of its states its next work has to find.

The scheduler is a library. It is taken to do what the comments of
`quiggeldy_worker.h` say: setup when there is work and no connection,
perform_reinit before each work and forced when another session or nobody had
the board, perform_reinit_snapshot before a session loses the board. An
exception of work answers the client, one of another call ends that call only.

### Connections

`ARQConnection` is about one connection in use, `Connections` about how several of
them come and go. Each thread has one `MultiConnection` (`m_connections[t]`);
`pc[t]` is the step of the constructor, move, assignment or destructor it is in,
`this[t]` and `other[t]` the objects that step works on, `todo[t]` the endpoints
still to open. An object is what others can observe of it: the endpoint it has
registered, the one its stream leads to, its flag and its receiver thread, which
ends some time after it was told to. `OpenFails` and `CheckFails` are the two
places a constructor throws at besides the registry; what C++ does then (the
members and the vector are destroyed) is `Throw` with the destructor's steps. A
move constructor and operator= share the steps behind "shutdown other threads",
which are the same statements; with a new object, `TakeRegistry` finds nothing to
replace. The vector moves its elements when it grows (`Move` in `next`), and so
may its user (`Move` in `idle`). `wanted[t]` is history: the endpoints the thread
asked for and has not given up.

An object that was moved from is destroyed at once: it has neither entry, stream
nor thread, so its destructor changes nothing that another thread sees.

### QuiggeldyConnection and ManagedConnection

`connection[o]` has the members of the object at place `o` that matter: whose
session it is, the next sequence number, `m_size`, how many answers were added to
the time information, and which object the lambda in the reinit uploader captured.
A thread goes through `Submit` (refresh of the stack, which may throw),
`NextSequenceNumber`, and for each attempt `Invoke` or `ConnectFails`; a blocking
submission then waits (`Return`, or `LoseAnswer` and `Retry`), an asynchronous one
leaves a future behind. Each attempt is a call of its own, so the server may still
find the call of an attempt that was given up. `Callback` adds the time of a future
to the object that submitted (`this`, captured in the lambda), whatever that holds
by then. The server executes the call whose number is the next of its session,
refuses older ones and lets later ones wait; that is how the scheduler (a library)
is taken to use the numbers.

`MoveAssign` takes every member but `m_size`, as operator= does. A session is one
constructor; `ServerSize[s]` is the size of the hardware behind session `s`.
Users of one object do not move or destroy it while one of its threads is inside
submit. Futures may outlive the object. What their callback then does to memory
where no object lives is modelled as nothing; where another object lives by now,
its members decide.

A `Managed` makes a `Handle`; `handles` are those that own a connection. A handle
without a connection has no state (get throws), so it is not kept. `Enter` first
disconnects what an earlier `Enter` made. `Release` gives the connection to C++
code, whose objects (`Unmanaged`) are moved and assigned.

### QuiggeldyProgram, FromEnv and LocalQuiggeldy

`pc` is the main thread, `sigthread` the thread that calls sigwait and then the
handler that is installed at that time: the dummy, or the one that resets the
server. `server` is the `unique_ptr`, `object` what it points or pointed to, the main
thread reads the pointer and then calls start_server on the object
(`DereferenceServer`, `StartServer`), and
`unique_ptr::reset` is two steps (`BeginReset` and `Reset`, `HasWorkLeft` and
`BeginShutdown`), since both threads call it without a lock. The destructor of the
server waits until start_server returned (`EndShutdown`). Using a server that is
gone crashes the process. `signalled` is history: whether a signal from outside
came. `Receive` is what the kernel does with a signal: kill the process before it
blocks signals, keep it pending afterwards.

`LocalQuiggeldy` puts the wrapper in front: `Launch` (which sets the variables of
the environment for the command, or throws where there is no port, no single FPGA
or no process to be had), `Fork`, `WaitForCommand`, `Terminate` and `Reap`.
`CommandExec` may fail, and then the child goes on as the wrapper would. The
command makes its connections with the functions of `FromEnv` (`Connect`); where a
group of them runs behind the end of the list (`Overrun`) it moves connections out of
memory that holds none, and ends or goes on "undefined". Or it asks
for one with the full stream interface (`ConnectFullStream`) and ends where there is
none, as the hardware tests do. With `by_hand`
quiggeldy is started with any options instead, and has clients of its own.

### Instructions, MultiConnection and LoopbackConnection

A dictionary is a set of pairs of an instruction and its layout. A payload is a set
of bits for each field. A layout has two tables, one for each direction, as the
payload classes have two functions: where `Encode` puts a field, and where `Decode`
looks for it and which bits it keeps. Fields which overlapped, or were reversed in
one direction, would not come back. `MultiConnection` has a task for
each connection, as std::async has a thread: `Launch`, `LockAndAdd`, `Run`,
`ReceiveAndUnlock`. `Add` computes the answers of `ZeroMockConnection` from the bits
of the messages; the property asks for them by their fields. What reads get is a
parameter (`Register`): a `ZeroMockConnection` answers each with zeros, but results
with different data, and reads without an answer, are what a snapshot of hardware
can have. With `MayFail`, `Run`
may also throw, as it may on a `SimConnection`; then the answers stay in the queue
of that connection (`clean` is history). `snapshot` calls are those whose results
the quiggeldy worker transforms to writes. `LoopbackConnection` has the three
queues, and the worker lock by lock.

## Runs

| Run | Configuration | Question |
|---|---|---|
| `arq` | `MCARQConnection.cfg` | do concurrent calls get exactly their own answers, and do they return? |
| `sim` | `MCSimConnection.cfg` | what of that is left without the lock in the receiver thread? |
| `sim_halt` | `MCSimHalt.cfg` | is a run of one halt answered with one message? (no) |
| `signals` | `MCSignalOverride.cfg` | do SIGINT and SIGTERM end the wait? (no) |
| `reinit` | `MCReinit.cfg` | do entries keep their places, and does work find the hardware initialised? |
| `reinit_race` | `MCReinitRace.cfg` | also by programs that are set while work is submitted? (no) |
| `worker` | `MCQuiggeldyWorker.cfg` | does each session work on its own state, on a licensed board, and is it answered, whatever fails? |
| `connections` | `MCConnections.cfg` | what is open and registered while connections come, move and go, and constructors fail? |
| `client` | `MCManagedConnection.cfg` | are submissions executed once and in order, and who owns a session, whatever is lost, moved or cancelled? |
| `local` | `MCLocalQuiggeldy.cfg` | does quiggeldy end, can it crash, what does it leave behind, and what does a command execute on? |
| `groups` | `MCGroups.cfg` | is the number of groups of connections rounded off? (no) |
| `software` | `MCSoftwareConnections.cfg` | are messages found again, in order, at every alignment, and do concurrent calls, snapshots and loopbacks get the answers to what was asked? |

Run one with `tlc -config MCARQConnection.cfg MCARQConnection`.

### arq

`NothingLeftOver`: with the mutex free, every queue is empty and no halt is
pending. `HaltMeansDone`: the raised flag means that the program of the waiting
call was executed as a whole and that its answers are received, however the
packets fell. `EachCallGetsItsAnswers`: what a call returns is what the FPGA
answered to it. `CallsReturn`: run_until_halt, which has no timeout, ends.
`ImplementsExecution`: the connection refines `Execution`, with "executed" as
"this thread holds the mutex and the FPGA is through with its program and halt".

Bounds: two threads, programs of zero, one and two instructions, packets of two
words. With two words a packet is sent in the middle of a program, at its very
end (where only the flush without a packet transmits it), or never full; two
threads are enough to queue on the mutex while the other is at any step, and to
begin a call right after another; a third adds only who waits.

### sim and sim_halt

`OnlyHaltsGoAstray` is what remains of the promise. Of all the pushes without the
mutex only one can meet the swap of a call, that of the answer to its halt, which is
behind all the others (`OnlyHaltMeetsSwap`). A call returns after its program was
executed and with the simulation stopped and empty. Unless such a push
has corrupted the queues, it gets all answers to its instructions in order; in front
of them it may find one halt of an earlier call, and its own halt, which the
simulation did answer, may be missing behind them. That depends on the order in
which the scopes are left: a simulation that is not stopped would answer the program
of the next call before that one waits. `CallsReturn` is as in `arq`, as long as the
queues are not corrupted. `sim_halt` shows that, with or without such bad luck, a run
of one halt can return nothing, against the expectation of `tests/hw/hxcomm/test-halt.cpp`. Bounds: two
threads, an empty program and one of two instructions; the race needs one halt and
one swap.

### signals

Two threads on different connections, as `MultiConnection` starts them. The first
to leave restores `SIG_IGN` although the other still polls. Bounds: two threads,
two signals, handlers initially default or ignored.

### reinit and reinit_race

`OwnPlace`: each entry's place holds what was last set to it and is nobody
else's, whatever the order of pushes and pops. `DoneWasExecuted`: an entry that
is not pending has been executed since the session got the hardware, or will be
before the session works again. `ReinitPrecedesWork`: whenever the worker
executes a request, the programs set before it was submitted have been executed.
The last two excuse entries that were set while a submission was underway;
`reinit_race` shows that they have to: set_all_done marks such an entry as done,
and the upload that follows carries the flag. A default entry
(pushed and not yet set, or popped below the top) has no message list for any
connection, so that `ExecutorMessages` of the `MultiConnection` throws and the
session's reinit fails; `PerformReinit` does that, and the properties hold with it.

Bounds: two entries and two submitting threads, two calls of set in all and two
places. That is enough to pop below the top, to push again into a freed place,
to set the same entry twice, to have a set overlap one submission while another
waits, and to fail a reinit with a good entry below the empty one.

### worker

`ConnectionIsLicensed`: a worker that allocates licenses is connected, or
connects, only while slurm has given it the license. `NoNullConnection`: where
the worker dereferences its connection there is one. `FailureIsOneAnswer`: a
failed reinit costs the one answer it belongs to. `WorksOnOwnState`: work finds
the state its session left (restored from the snapshot), or its reinit program.
`RequestsAreAnswered`: by a response or an exception. A child that
cannot execute salloc ends with status 0 and is taken for one that succeeded:
`ConnectionIsLicensed` is checked with `SlurmInstalled`, and fails without.

Bounds: two sessions, one with a snapshot and one without, one more attempt to
connect after a failed one, two states per session (`MaxVersion`; by work or by a
new reinit program). A session can lose the board to the other and to the rest of
the cluster, and get it back, with each failure in between; the number of
attempts matters only by being passed (10 in the code).

### connections

`ReceiverHasStream`: work_receive, which dereferences the stream, never runs on an
object without one. `AllOrNothing`: between operations a thread has a listening,
registered connection to each endpoint it asked for, or none if one failed.
`NothingLeaks`: with no operation underway, exactly the connected endpoints are
registered. `OperationsEnd`: the joins in moves and destructors return.
`OnlyReplacedStreamsOverlap`: two streams to one FPGA exist only between the two
steps in which an assignment replaces registry entry and stream: in between, the
entry of the object's own endpoint is gone and its stream is not.

Bounds: two threads, two endpoints, storage for four objects. Both threads can
want both endpoints, one can fail at the second with the first already listening,
and there is room for a vector of two, the temporary and one object of the other
thread. Were storage to run out a thread would wait, which no program does; no
property depends on it. Objects are interchangeable, endpoints too.

### client

`InOrderOnce`: a session that is in order executes no program twice, and those of a
thread in the order of its submissions. `NumbersReachServer`: a number that was
drawn is executed, underway or about to be sent, unless a submission of the session
was given up after its last attempt or cancelled; otherwise the session would wait
for it for ever. `OneOwner`: each session belongs to one object, and its uploader
creates its clients from an object with this session; of the handles a manager made
only the last owns a connection, and none does outside of the context. `TimeIsKept`:
the time information of a session moves with it and grows by the answers that
arrived through the object that holds it. What counts as arrived is named:
`Ended` (neither given up nor sent again), `Counted`, `TimeMoves`.

Bounds: two threads, two places for objects, two servers (with one and two
connections), one manager, two submissions of two attempts. A session can be moved
away and back, assigned over another, and destroyed and followed by a new one at
the same place while a future is underway; a submission can fail, be repeated and
find its first attempt executed. `m_sequence_num` is set to out-of-order before the
first submission only. No fairness and no liveness: whether a server answers is not
in the hands of the client.

### local and groups

`CrashesOnlyOnSignal`: the two threads use a server that is gone, or is being
destroyed, only if a signal from outside came just before or while the main thread
called start_server, or while it was resetting the server itself. `NothingLeftRunning`: when the wrapper returns, the quiggeldy it
launched and the command have ended. `CommandGetsConnections`: a command uses the
quiggeldy that was launched for it, unless zero mock connections are enabled; its
groups take every connection found once and in order, and only where the list is
longer than the group size and no multiple of it does the code run behind its end.
`EverythingEnds`: with an idle timeout, wrapper and quiggeldy end once the command
has, however it has; and a SIGTERM that the real handler gets ends quiggeldy. A crash
counts as an end here; when there can be one, the other property says. `groups`
shows what happens to a list with a remainder: three connections in groups of two
make two groups, the second of which is not there in full, where
`include/hxcomm/vx/connection_from_env.h:34` has the number rounded off.

Bounds: every environment (`Switch` has unset, off and on), FPGA lists of up to
three, all options that decide about control, one signal from outside beside those
of wrapper and kernel (a second one before the first is handled is kept pending or
is the same). Groups of up to three are enough for a list with a remainder. Whether
all connections are on a JBOA setup is left open for every backend.

### software

Three parts that share nothing but a run: a process uses encoder and decoder, a
`MultiConnection` or a `LoopbackConnection`.

*Encoder and decoder.* `DecodedInOrder`: what the decoder found is a prefix of what was encoded.
`FlushCompletes`: after a flush and its last word nothing is missing.
A decoder that takes part of a message for the space between messages, or padding
for a header, violates the one or the other.

Bounds: four parameter sets, scaled down from those of the repository, with
subwords smaller than, as large as and larger than a PHY word and headers longer
than one and two words; payloads of zeros (like padding), ones (like commas) and
mixed; three messages underway, enough for a message that begins in the word
another ends in, with a third behind it. Streams are unbounded: buffers and
levels return to finitely many states. A dictionary whose header is wider than a
subword is excluded (`ParameterAssumption`): the decoder would take the rest of a
header for the space between messages. So is one whose PHY word and subword are
incommensurable: less than a header could then be left in the decoder's buffer
without being nothing. No parameter set of the repository is close to either, but
nothing in the code checks it.

*Connections.* `CallsGetTheirAnswers`: each connection of a `MultiConnection` answers exactly what
was asked there, in order, unless an execution that threw left something behind;
a snapshot comes back as a program that writes each register it read with the data
of that register, and where a read was not answered it fails.
`EchoedInOrder`: what is committed to a `LoopbackConnection` comes back in order and
once, with every field of every instruction as it was.

Bounds: two threads, two connections, two calls, three programs: with reads and
writes that differ in one bit, halts in the middle, nothing to answer, reads of
registers with different data, and a read without an answer before one with. Three
messages through the loopback; the first is any instruction, with one field of ones
among zeros for each of its fields.

### Fairness

`ARQConnection`, `SimConnection`, `Execution`, `QuiggeldyWorker`, `Connections` and
`LocalQuiggeldy` state any. Threads that can
run are scheduled, the FPGA or the running simulation goes on, and a move that
began is finished; all of it weak fairness of single steps. The connection mutex
is weakly fair as a whole only (`WF(\E t : Lock(t))`): a `std::mutex` may favour
one thread for ever, so `CallsReturn` starts once a thread holds it. A call need
not happen, a connection need not be moved, and the HostARQ stream need not
transmit anything before it is told to flush. In `SimConnection` all of it holds only
while the queues are not corrupted.

In `QuiggeldyWorker` the thread of the scheduler goes on (`WF(Worker)`), the others
of the cluster return a license (`WF(Foreign)`), and the scheduler, which serves
users round-robin, does not pass a session over for ever (`SF(Serve(s))`). slurm
and the board are assumed not to refuse a session every time it is tried (`SF` of
`Acquire` and `Connect`, for each target): without that the worker tries for ever,
by design. Nothing is assumed about reinits, snapshots, work and scancel, which
may always fail.

In `Connections` threads go on with what they began (`WF(Continue(t))`), a receiver
thread that is told to end leaves its loop (`WF(WorkReceive(o))`), and a vector
grows only so often: `SF` of `Construct` and `Opened`, between which it may move its
elements. To begin an operation is nobody's duty.

In `LocalQuiggeldy` each thread and each process that can go on does (`WF` of
`MainThread`, `SignalThread`, `Wrapper`, `CommandExec`), and work that clients handed
in is finished (`WF(WorkDone)`), so that an idle timeout can be reached. When a
command ends, when clients come and who sends signals is left to them.

## Proofs

`ARQConnectionProofs` proves for any number of threads, any programs without
halts, any packet size of at least one word:

| Theorem | States |
|---|---|
| `Invariance` | `Spec => []IInv` |
| `TypeCorrect` | `Spec => []TypeOK` |
| `NothingStaysBehind` | `Spec => []NothingLeftOver` |
| `HaltIsReliable` | `Spec => []HaltMeansDone` |
| `CallsGetTheirAnswers` | `Spec => EachCallGetsItsAnswers` |
| `StepsImplementExecution` | `Spec => Promise!Init /\ [][Promise!Next]_(Promise!vars)` |

Assumptions are those `ARQConnection` names: programs are sequences of
instructions, the halt is not one of them (`HaltAssumption`), the model values
for "no program", "no thread" and "the receiver" are no programs and no threads,
and a packet has at least one word.

None of the properties is inductive. `HaltMeansDone` speaks of the moment at
which the flag is up, and to know that nothing else can still arrive one has to
know where every message of the call is at all times. `IInv` says that:

* `InvOwner`: exactly the holder of the mutex is inside a call; `InvMove`: a
  connection that is being moved has no callers; `InvReceiver`: the packet in hand
  and the receive queue's mutex fit the step of the receiver thread.
* `InvOutbound`: what was executed, followed by what is underway to the FPGA
  (`to_fpga`, `unflushed`, `m_packet`, `m_encoder`, `todo`), is the program and
  its halt. `InvInbound`: the receive queue, the packet in hand and `from_fpga`
  are together what was answered. These two carry the order and the completeness.
* `InvStage`: which of these queues are empty at which step of the caller;
  `InvFree`: all of them without a caller.
* `InvHaltLast`: a halt that was answered is the last message and ends the program.
* `InvFlag`: the flag is up only if the halt is the message in hand or was queued,
  and once a caller has seen it nothing is behind it.

The halt is last in the program and the order is kept, so when the listener meets
a halt nothing can follow it; since the program holds no other halt it is the end
of this call. Each conjunct has a lemma with one step per action that can disturb
it (`OwnerStep`, `MoveStep`, `ReceiverStep`, `FreeStep`, `StageStep`,
`OutboundStep`, `InboundStep`, `HaltLastStep`, `FlagStep`), over lemmas about
sequences (`Cut`, `PushKeepsOrder`, `HeadAt`, ...).

The refinement is the safety part of `ImplementsExecution`: initial states map to
initial states and every step to a step of `Execution` or to a stutter. It needs two
facts more (`RInv`): a thread outside of a call has no request (`InvIdle`), and the
answers can be laid over what was executed, in order, the last on the halt
(`InvAnswers`; `place` is where each answer belongs). Then the one step in which the
FPGA executes the halt is `Execution`'s `Execute` (`ExecuteIsExecute`), `ReceiveAll`
its `Return`, `Call` its `Call`, and every other step changes nothing it sees. That
the fairness of the connection implies that of `Execution` is checked by TLC only.

`SimConnectionProofs` proves, for any threads and programs, under the assumptions
`SimConnection` names (those of `ARQConnection`, without packets):

| Theorem | States |
|---|---|
| `LastPushOnly` | `Spec => []OnlyHaltMeetsSwap` |
| `AnswersComeBack` | `Spec => OnlyHaltsGoAstray` |
| `TypeCorrect`, `Invariance` | `Spec => []TypeOK`, `Spec => []IInv` |

The invariant is that of `ARQConnection` but for the halts. When a call returns, the
receiver thread may still have its halt in hand (`InvFree`), so the inbound path of
the next call begins with at most one halt, `early` (`InvInbound`, `Arriving`), and
the case of a halt lost in the swap is a disjunct of its own. `InvFlag` is why no
push but that of a halt can meet a swap: once the flag is seen the other answers are
in the receive queue, and the words in hand are at most that halt. It holds because
the flag is reset only after the simulation was stopped, with nothing left in it.
Of corrupted queues nothing is claimed: `m_receive_queue` then stands for no contents,
and the only step left is that the call returns something.

`ReinitProofs` proves, for any entries and submitters and whatever the bounds, if the
threads of entries and submitters are different and "nothing" is neither a request,
a number nor a thread (`NothingAssumption`, `ThreadAssumption`):

| Theorem | States |
|---|---|
| `OwnPlaces` | `Spec => []OwnPlace` |
| `DoneExecuted` | `Spec => []DoneWasExecuted` |
| `ReinitFirst` | `Spec => ReinitPrecedesWork` |
| `TypeCorrect`, `Invariance` | `Spec => []TypeOK`, `Spec => []IInv` |

`IInv` follows a request from the stack to the hardware: what is in the stack is the
last set of the entry that has the place (`InvStack`), it is uploaded unless its set
has yet to do that (`InvUploaded`), nothing uploaded is younger than its entry
(`InvYoungest`), what the server holds as done was executed, is no longer in the
stack, or will be forced (`InvUploads`), and so all that is stacked has been executed
while work is done (`InvServing`) and when set_all_done runs after it (`InvDone`). A
set that overlaps a submission is remembered (`InvOverlapping`), and every one of
these excuses it: without the excuse they do not hold, as `reinit_race` shows.

`LocalQuiggeldyProofs` proves, for lists of any length, any environment and any number
of signals (`FPGAAssumption`, `SignalAssumption`: both bounds are numbers):

| Theorem | States |
|---|---|
| `ServerIsThere` | `Spec => []CrashesOnlyOnSignal` |
| `NoProcessIsLeft` | `Spec => []NothingLeftRunning` |
| `ConnectedAsConfigured` | `Spec => []CommandGetsConnections` |
| `TypeCorrect`, `Invariance` | `Spec => []TypeOK`, `Spec => []IInv` |
| `GroupsPartition` | the groups of `FromEnv` partition the list, in order, for every length and group size, unless one runs behind its end; and where that can be |

`InvServer`: the pointer is set exactly while the object is alive, at every pair of
places of the two threads. `InvSignal`: the signal thread passes its check only after
a signal of somebody else, and finds the pointer gone only where the main thread has
reset it. `GroupsPartition` is arithmetic about division with remainder, and
`ConnectedAsConfigured` rests on it. Neither claims anything of lists that are longer
than the group size and no multiple of it, beyond that only these overrun.

`ManagedConnectionProofs` proves, for any threads, objects, managers, servers,
submissions and attempts, if "nothing" and "out of order" are what they stand for
(`ClientAssumption`; `NullAssumption`: a null pointer is neither a connection nor a
number):

| Theorem | States |
|---|---|
| `SessionHasOneOwner` | `Spec => []OneOwner` |
| `ExecutedInOrderOnce` | `Spec => []InOrderOnce` |
| `DrawnNumbersReachServer` | `Spec => []NumbersReachServer` |
| `TimeMovesAlong` | `Spec => TimeIsKept` |
| `TypeCorrect`, `Invariance` | `Spec => []TypeOK`, `Spec => []IInv` |

A number that was drawn (`Drawn`) is at the server, in a call or in a thread's hand,
and a `Ticket` is the number with its session, thread and submission. `InvDrawn`: all
drawn numbers are below the next one of the session. `InvOrder`: a number has one
ticket, and the tickets of a thread ascend with its submissions; both only say
something while there is one object that draws, hence `InvOwner` and `InvHandles`.
`InvExecuted`: the server took the numbers in ascending order. `InOrderOnce` follows
from these. A submission can have several calls: `InvCalls` and `InvOneCall` say that
at most one of them is waited for, `InvAbandoned` that none is after it was given up.
`InvNumbers` is `NumbersReachServer` without the calls on connections that broke
off, which may vanish: with them it would not be inductive. `TimeMovesAlong` takes the
steps one by one: those that move objects leave the calls alone (`LifeStep`), and those
of threads and server end at most one call (`WorkStep`, `AnswerCounted`).

`QuiggeldyWorkerProofs` proves, for any sessions, any choice of those that have
snapshots and any number of attempts, and if salloc can be executed
(`SlurmInstalled`, without which the first does not hold):

| Theorem | States |
|---|---|
| `Licensed` | `Spec => []ConnectionIsLicensed` |
| `Connected` | `Spec => []NoNullConnection` |
| `FailsOnce` | `Spec => []FailureIsOneAnswer` |
| `OwnState` | `Spec => WorksOnOwnState` |
| `TypeCorrect`, `Invariance` | `Spec => []TypeOK`, `Spec => []IInv` |

The worker has one thread, so what is needed is where each call can begin and what
the one before it left. `IInv` says for every value of `call` whether there is a
connection, who is served and whose state the chip has; that the worker's flag and
slurm agree on the license, and that it is held from the first connect to the end
of the teardown; that a session whose reinit failed is the one being
served; and that the state a session expects is on the chip while the session is
current, and otherwise, if it has a snapshot and was not lost, in its entry on the
server, unless a new program is to be uploaded. `OwnState` then
follows from what perform_reinit does between the snapshot and work.

`ConnectionsProofs` proves, for any threads, endpoints and storage, assuming only
that the null values are no objects and no endpoints (`NullAssumption`):

| Theorem | States |
|---|---|
| `OnlyReplaced` | `Spec => []OnlyReplacedStreamsOverlap` |
| `NeverUnderIt` | `Spec => []ReceiverHasStream` |
| `NoneHalfOpen` | `Spec => []AllOrNothing` |
| `Registered` | `Spec => []NothingLeaks` |
| `TypeCorrect`, `Inductive` | `Spec => []TypeOK`, `Spec => []IInv` |

Here the argument is ownership. `InvHeld`: no object is in the hands of two
threads, and one in nobody's hands holds nothing. `InvRegistry`: the registry is
what the objects registered, and each endpoint is registered once. `Role(t)`: in
which state the objects in the hands of `t` are at the step it has got to, and that
what it wants is connected, in hand or still to be opened. A step of `t` touches
only what `t` holds and free storage (`Frame`), so the roles of the others survive
it (`RoleOfOthers`, `Framed`), and each action has one lemma, about its own thread.

`SoftwareConnectionsProofs` proves, for any threads, number of connections, programs,
payloads, parameter sets and bounds:

| Theorem | States |
|---|---|
| `DecodeInvertsEncode` | for every instruction of the dictionaries, decoding what was encoded returns it |
| `Echoed` | `LoopbackSpec => []EchoedInOrder` |
| `LoopbackInvariance` | `LoopbackSpec => []LoopbackIInv` |
| `TheirAnswers` | `MultiSpec => []CallsGetTheirAnswers` |
| `MultiInvariance` | `MultiSpec => []MultiIInv` |
| `FoundInOrder` | `Spec => []DecodedInOrder` (of `Codec`, as below) |
| `FlushedCompletely` | `Spec => []FlushCompletes` |
| `CodecTypeCorrect`, `CodecInvariance` | `Spec => []TypeOK`, `Spec => []CodecIInv` |

The assumptions are those the modules name: a `MultiConnection` has at least one
connection, programs are sequences of messages of the dictionaries, payloads fit
their fields (`PayloadsAssumption`, `PayloadsOfAssumption`), and
`ParameterAssumption`, which is explained under the run `software`.

*Instructions.* A layout `Fits` if any two of its fields lie `Apart` where encode puts
them, and decode looks for each where encode puts it and keeps the bits it has; then
each bit of the message belongs to one bit of one field, and `Decode` inverts `Encode`.
`LayoutsFit` shows it for every layout of the dictionaries, the packed ones
included, and is where a wrong offset would show.

*LoopbackConnection.* `EchoedInOrder` is inductive once one knows which mutexes the
worker holds at which step (`InvMutexes`).

*MultiConnection.* A connection is locked by the thread that executes on it
(`InvLocked`); while none does and nothing threw, it has nothing queued, and while
one does its queue holds the answers to what was asked (`InvQueues`), which is what
the call returns (`InvResults`). `TheirAnswers` adds that the answers, which
`ZeroMockConnection` computes from bits, are those the fields ask for
(`AskedAnswered`), and that the transform of a snapshot picks the reads and turns
them to writes (`SnapshotWrites`), each with its own data: enough data for the reads
means that every read was answered (`EnoughAreOwn`), and answers are in the order of
the questions.

*Codec.* The invariant must tell messages from padding by looking at bits. It says
(`InvUnderway`) that there are messages `q` such that what is underway is what was
decoded followed by `q`, and that the bits in the decoder's buffer, the words and the
encoder's buffer, one behind the other (`Stream`), can be cut (`InOrder`) into the
messages of `q` in order and pieces of padding, which begin with a comma and end with
a word. `InControl` says what the decoder knows of this at each label: that its
buffer begins with a message, how much of it is there, and that header and size are
those of the first of `q`. `DecodedInOrder` is its first half. A step of the encoder
adds a piece at the end (`MessageJoins`, `PaddingJoins`), one of the decoder takes
one from the front (`MessageBehind`, `PaddingBehind`), and a word that moves from one
side to the other leaves the stream as it is (`WordMoves`). The decoder recognises
the first piece by its first bit (`MessageFirst`, `PaddingFirst`): the comma bit of a
header is zero because a header has room for all indices (`BitsOfNumber`). It
looks for padding when a message is decoded and it has less than a header left, which
is safe only because that is then nothing: less than a word is left, a multiple of
`Granule`, the smaller of word and subword (`InvGranules`). If that is the word,
nothing is; if it is the subword, a header is no wider.
`FlushCompletes` follows, since no message can be cut out of nothing.

What these proofs need of recursive functions (values of bits, lengths of
concatenated lists) is shown by induction over numbers. The library's induction
theorems have an operator for the property, which the provers cannot instantiate;
`Induction` has the set of the numbers that have it instead, and follows from
well-foundedness.

### Only model-checked

* Liveness: `CallsReturn`, `RequestsAreAnswered`, `OperationsEnd`, `EverythingEnds`, and
  the fairness in `ImplementsExecution`. Liveness under fairness and ENABLED are
  outside the reach of the provers.
* `SignalOverride`, whose one run shows a violation.

Every invariant of a passing run, and every action property but the liveness
properties above, is stated by a theorem.

No module uses RECURSIVE operators.

## Disagreements met while modelling

With a run that shows the code at odds with a comment or a test of the repository
(the lines are in `PROJECT.json`):

1. A halt may miss its own call on a `SimConnection` (`sim_halt`); where its push meets
   the swap of receive_all, the race may corrupt what was queued before it, too.
2. Overlapping signal overrides leave SIGINT and SIGTERM ignored (`signals`).
3. A submission marks entries as done that were set while it was underway
   (`reinit_race`).
4. The last group of connections runs behind the end of the list if the list is
   longer than the group size and no multiple of it: the code rounds the number of
   groups up, where it is documented to be rounded off (`groups`).

Behaviour a user may not expect, which the models contain and the properties name
or excuse:

* Without salloc the worker connects without a license.
* An empty reinit entry fails the reinit of its session.
* An assignment to an `ARQConnection` frees its endpoint while it is still connected.
* operator= of `QuiggeldyConnection` does not take `m_size`. If the sizes differ, the
  answers of the assigned session are executed and then thrown away, because the
  time information does not fit. Move constructor and operator= lock the new
  object's mutex for the time information, not the other's.
* The callback of an asynchronous submission writes to the object that submitted,
  wherever that is by then.
* A submission whose answer was lost is refused when it is sent again: it was
  executed and is reported as failed. A submission that is given up leaves a hole
  in the numbers of its session.
* A SIGTERM that comes before the server is installed is swallowed. With
  `QUIGGELDY_TIMEOUT=0` nothing ends quiggeldy after that, and `terminate` waits for
  it for ever.
* A signal between the installation of the handler and the inside of start_server, or
  while the main thread resets the server, crashes quiggeldy.
* Where the command is not found, the child of `wrap_with_quiggeldy` ends the
  quiggeldy its parent holds, and returns success.
* A variable that disables quiggeldy ("0") counts as one that provides it: nothing
  is launched, and the command does not use quiggeldy either.
* A parent that dies before quiggeldy asked to be told is not noticed.

## Not modelled

* `verify_user` and its tokens, and the mock mode of the worker: the verdict depends
  on libraries only, and mock mode replaces each call by a pause.
* In `ARQConnection` and `SimConnection`: durations and the queries of the hardware
  database, on which no control depends. A packet of another protocol, for which
  the receiver thread throws and ends the process.
* In `Connections`: an assignment to or from an object that was moved from, which
  would have no receiver thread to join; exceptions of the operating system when a
  thread is started; `SimConnection`s, whose constructor also resets the simulator.
* On connections with a receiver thread, programs that hold a halt of their own: the
  first halt would end the wait early. Nothing in the code excludes them.
* In `Reinit`: copies of an entry, which share a place; `set` with a const
  reference on a popped entry, which is undefined; entries whose user clears
  `reinit_pending`; snapshots of the server; lost uploads. That a popped entry is
  not uploaded, so that the server goes on with it, is part of the model, but no
  property speaks of it.
* In `QuiggeldyConnection`: the remote queries, which change nothing; changing the
  order of a session after its first submission.
* In `MultiConnection`: connections that answer a read with several messages or with
  those of another read, which nothing in the code could tell apart. The time a
  `ZeroMockConnection` claims to have needed.
* What a program does after undefined behaviour: when the queues of a
  `SimConnection` are corrupted, or a command runs behind the end of a list.
* Whether an FPGA in the list exists.
* In `LoopbackConnection`: starvation of a commit by the spinning worker, which
  depends on the mutexes of the system; receive_empty, which changes nothing.
* Libraries outside the repository: HostARQ, RCF and its scheduler, the
  simulator's RPC client, munge, jwt, slurm, hwdb. Their part is modelled as the
  code uses it and marked external.
* Serialization, logging, generated Python bindings, build files: no state.

## Plan

Done: all modules above, and proofs of every safety property the runs check.

What is left:

1. Three hazards have no property: copies of a reinit entry, a popped entry that is not
   uploaded, and a slurm program that cannot be executed (without `SlurmInstalled`).
2. Programs on connections with a receiver thread that hold halts of their own, with
   what remains of the promises for them.
3. Liveness stays with TLC; so does the fairness part of `ImplementsExecution`.
