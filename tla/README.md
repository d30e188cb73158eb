# Verification of nettest: TLA+ models, model checks and proofs

nettest measures the speed of an internet connection. One binary holds a client
(`nettest -c ...`), a server on mio (`nettest -s`) and an older server on tokio.
They speak RMBT: after a greeting the client sends commands (GETCHUNKS, PING,
GETTIME, PUT, PUTNORESULT, PUTTIMERESULT) and both sides push chunks at each other.

These modules model the parts where order, interleaving, failure and partial input
and output decide whether the program is right. All source paths below are under
`src/src/`. `PROJECT.json` says which lines each definition translates, which run
checks which property, and which mutation of the code each property detects.

1. [The system](#1-the-system)
2. [What is modelled, and how it corresponds to the code](#2-what-is-modelled)
3. [Runs: questions, bounds, fairness](#3-runs)
4. [Proofs](#4-proofs)
5. [Disagreements between the code and what is said of it](#5-disagreements)
6. [Not modelled, and the plan](#6-not-modelled-and-the-plan)
7. [How to run](#7-how-to-run)

## 1. The system

| Component | State | Operations | What is hard | What makes it correct |
|---|---|---|---|---|
| Accept loop (`mioserver/server.rs`) | two listeners, shutdown flag | `run`: accept from TCP and TLS in turn, push to the shared queue | starvation of a listener, shutdown between two steps, a poisoned queue mutex | a connected client gets into the queue; the queue keeps the order of arrival |
| Worker pool (`mioserver/worker.rs`) | shared queue, a count per worker, each worker's stream in hand and connection map | `run`: pop, set up, greet with a 3 s deadline; `process_all_connections`: events, idle sweep (15 s), removal | up to 30 threads on one queue; a failed greeting, a panic, two decrements for one session, time stamps taken before a long call | a connection is in one place, is served by one worker, in order, and is released in the end |
| Server session (`mioserver/handlers/*.rs`) | `TestState`: phase, positions, chunk size, counters, clock | one handler per phase, called on readable or writable | short reads and writes, state left over from the last command, several ways of comparing what was read | both sides agree whose turn it is, on chunk sizes and on where lines end |
| Client session (`client/handlers/*.rs`, `client/state.rs`) | `MeasurementState` | one handler per phase; `process_phase` polls until the phase is complete | the same; read() = 0 is not looked at | the same, and the measurement completes |
| Client threads (`client/runnner.rs`, `calculator.rs`) | barrier, three result lists, handles | `run_threads`: connect, five phases with barriers between them, speeds, join, report | a thread that fails, panics or hangs before a barrier; results pushed by all and read by one | phases stay aligned, speeds see every thread, the report is whole, the client ends |
| Registration (`mioserver/control_server/auto_registration.rs`, `main.rs`) | flag, task, requests on the way, the control server's list | register, ping every 10 s, deregister at shutdown | late and lost answers, requests that overtake each other, a process that ends while a task awaits | no ping without a registration, a deregistration is not undone, shutdown ends |
| Streams (`stream/*.rs`) | `finished`, `temp_buf`, `flushed`; what rustls and tungstenite buffer; the events of the poll | `read`, `write`, `flush`, handshakes | a write taken by the library and not by the socket, a byte kept back on purpose, bytes in a library for which no event comes | an ordered stream each way; nothing left in a library when a handler goes on; nobody waits for an event that has passed |
| tokio server (`tokio_server/*`) | a task per connection: its place in the code, the chunk at hand | the same commands, in sequential code that awaits each read and `write_all` | every read is taken for a whole line, and what follows the line is dropped | each command is carried through and finds a clean slate; ERR is said only to a client that says something wrong |

How they interact: the accept loop hands streams to the workers through
`global_queue` (a mutex and no condition variable: workers poll it). A worker calls the
session's handlers with the `TestState` it owns. Client and server sessions share
nothing but the connection. The client's threads share a `Barrier` and three
`Mutex<VecDeque>`; the main task joins them in order. The registration task and the
main task share the shutdown flag and a control server reached over HTTP.

The hazards we found while reading (`hazards` in `PROJECT.json`, each at its line)
fall into five groups, and the properties were chosen for them:

* connections lost or doubled between threads, counts that drift (`OnePlace`,
  `CountsCoverHeld`, `CountsExact`, `ServiceSpec`);
* somebody waiting for ever: for a worker, at the barrier, for bytes that were already
  read, for an HTTP answer (`QueuedIsTaken`, `TakenIsReleased`, `RunEnds`,
  `SessionCompletes`, `NoStandoff`, `ShutdownEnds`);
* state of the last command or phase seen by the next (`QuietBetweenPhases`,
  `CleanSlate`, `OwnClock`);
* reads and writes cut anywhere (`HalfDuplex`, `LinesGoWhole`, `EveryChunkCounted`,
  `NeverErr`), and below them bytes that a library has taken and the socket has not, or
  the reverse (`InOrder`, `ToldIsSent`, `NeverReset`, `NothingKept`, `BytesInOrder`,
  `DialogueEnds`);
* arithmetic at the edge: unsigned counts and times (`CountsCoverHeld`, `ShortIsZero`).

## 2. What is modelled

| Module | Extends | Models |
|---|---|---|
| `Dispatch` | | abstract: connections enter a line, the first is served in a free slot, service ends |
| `WorkerPool` | | accept loop, queue and workers; implements `Dispatch` |
| `MCWorkerPool` | `WorkerPool` | values and symmetry for TLC |
| `WorkerPool_proofs` | `WorkerPool`, `TLAPS` | theorems |
| `Lockstep` | | abstract: parties go through numbered rounds together, some drop out |
| `ClientRun` | | the client's threads, barrier, shared lists, join and report; implements `Lockstep` |
| `ClientRun_proofs` | `ClientRun`, `TLAPS` | theorems |
| `Registration` | | registering task, main task, control server |
| `Registration_proofs` | `Registration`, `TLAPS` | theorems |
| `Wire` | | a byte stream each way with bounded room |
| `ServerSession` | `Wire` | the handlers of the mio server |
| `ClientSession` | `Wire` | the handlers of the client |
| `Session` | `ServerSession`, `ClientSession` | a measurement: the two composed |
| `Wire_proofs` | `Wire`, `TLAPS` | lemmas on lines, chunks and the cutting of a stream |
| `Session_proofs` | `Session`, `Wire_proofs` | theorems |
| `TokioSession` | `Wire` | the task of a connection of the tokio server |
| `Commands` | `ServerSession`, `TokioSession` | either server with any sequence of commands of a well-behaved client |
| `Commands_proofs` | `Commands`, `Wire_proofs` | theorems |
| `Standoff_proofs` | `Commands_proofs` | theorems: the two sides of `Commands` never wait for each other |
| `ByteStream` | | abstract: an ordered stream each way, and what `write` may tell its caller |
| `Streams` | | TCP, rustls, WebSocket and WebSocket over TLS, as two handlers use them; implements `ByteStream` |
| `MCStreams` | `Streams` | a dialogue for TLC |
| `Streams_proofs` | `Streams`, `TLAPS` | lemmas on runs of bytes and on the places in a script; theorems |

### WorkerPool

State: `queue` is `global_queue`; `hand[w]` is the local `stream` of `Worker::run`
after the pop; `connections[w]` is the map of that name; `counts[w]` is
`worker_connection_counts[w]`; `pc[w]` is the place of the thread (`loop`, `setup`,
`greet`, `upgrade`, `spin`, `dead`; it serves when it is at its loop with a session in
its map); `poisoned` holds the mutexes a panicking thread held.

* A critical section is one step: the mutexes are held briefly, never while
  waiting, and nest in one order. A panic inside one poisons what it holds; every later
  `lock().unwrap()` panics in turn, which the `...Panic` actions do.
* Time is not counted. The 3 s of a greeting may pass at any moment between two polls.
  The 15 s of the idle sweep pass only in a session in which nothing happens any more: every
  event renews `last_active` (`worker.rs:200`), so `IdleSweep` needs all sessions of the
  worker to be in `quiet`; a session gets there by `GoesQuiet` and leaves it with the next
  event (`Ready`). A client may stay active for ever, and one that hung up has at most
  the one readiness that was left.
* What the code does in each order is an action of its own, e.g. `GreetDeadlinePanic` (the
  deadline passes between the check and `timeout - elapsed()`) and
  `HandlerClosesLate` (a handler fails after the idle limit passed during its call, and
  the session is pushed to `connections_to_remove` twice).
* Counts are `usize`: with `OverflowChecks` (debug) an underflow panics, without
  (release) it wraps modulo `UsizeModulus`.
* A handler call is reduced to what the worker sees of it: it goes on, ends the
  session, panics, or never returns (`TokenSpin`). What handlers do with bytes is
  `ServerSession`'s.

`Dispatch` is the promise: a first-in first-out line with a slot per worker. The
refinement maps the line to `queue` and a worker's slot to what it has in hand or in its
map (`SlotOf`).

### ClientRun

A thread goes through the stages of its closure in `run_threads`; `Arrive` and `Leave`
are `Barrier::wait` of the standard library (generation count included, so that a
thread is released although the next round has already begun). A phase can end in
the ways `process_phase` and the handlers allow: complete; flagged (`failed`), after
which later phases return at once and the thread keeps coming to the barriers; timed
out, which panics in a debug build (`now - time` underflows, `state.rs:240`);
`Err`, which is an `unwrap` panic except in the greeting; or never (read() = 0). `Err`
may also come from the `reregister` with which a phase begins, before `process_phase` has
looked at `failed`, so a failed thread may still end in a panic.

`Lockstep` is the promise of the barriers: nobody starts round r + 1 while somebody is
still in round r.

### Registration

Requests are sets of kinds on the way; the control server handles or refuses them at
any moment; the answer is seen, or an error is, at any later moment. `latePings`,
`unlisted` and `settled` are history variables, read by properties only.

### Wire, ServerSession, ClientSession

A direction of the connection is a sequence of at most `Cap` units. A control line is
two units, so that it can be cut; a chunk of size n is n units, the last of which is its
mark 0x00 or 0xFF. One write takes as much as there is room for; one read returns
any non-empty prefix of what is there. These are the only assumptions on TCP.

Each action has the name of its handler (`client_` is put in front for the client) and is
one turn of its loop. `wpos` is `write_pos`; `got` is the part of the read buffer that
`read_pos` covers. The differences between handlers that look alike are kept, since
most of what can go wrong lies there:

* `SendTime` writes the line from its first byte at every turn (no buffer offset);
* `CliSlides` writes a window as long as the line from `write_pos` on, thus past its
  end after a short write; `CliWrites` does not;
* an awaited OK is compared in three ways: all that `read_pos` covers, the first bytes
  of the buffer, the result of the last read alone. None of them recognises an OK
  that comes in two reads. `splitOk` records that this happened;
* the download's duration is looked at when the handler is entered, and the handler
  returns only when a write would block (`over`, `get_time_would_block`);
* the clock is cleared after some commands and not after others (`clock` holds the
  command that started it);
* a chunk of a size that is no power of two is made once in a session (`made`);
* the TIMERESULT line is laid over the last chunk, and all of the chunk is sent.

Random bytes of a chunk may be a newline; they are never taken to be the mark, since
the mark is looked for in the last byte only. WebSocket framing and TLS are not in these
modules: they stand on a reliable ordered stream, which is what `Streams` shows every
kind of stream to be.

### TokioSession, Commands

The tokio server awaits each `read` and `write_all`, so that the state of a session is a
place in sequential code: `out` is what `write_all` has still to write, `at` the read or
loop that follows. Handlers say what they say last together with the ACCEPT of the loop
they return to. A line that is cut in two is taken for whole: `CutCommand` and
`Terminators` give everything the first piece may be taken for, so that the model says
less than the code there, never more.

`Commands` runs either server against one client: `server` is chosen at the start, `srv`
or `task` is its state. The client sends the offered commands in any order, each as
the list of exchanges it consists of, and never speaks out of turn.

### Streams

Below the handlers lies the `Stream` enum. Two sides work through a `Script`: each part is
a buffer that one side writes and the other reads, written as every handler does it: call
`write` until all was told to be taken, wait for an event on WouldBlock, reregister when
turning to read. `net` is the socket, at most `room` bytes each way; `conn` is what
rustls has that is not in the socket; `out` is what tungstenite has of a frame; `temp` is
what was taken from the socket and not given to the handler yet (`temp_buf`, or the buffer
of tungstenite); `awake` is whether a side goes on calling or waits in `poll`. Events are
edge-triggered: they come when bytes arrive or room is made, and on reregistering.

* A `write` takes one step each time it turns to the socket (`TlsPut`, `FramePut`), since
  the peer reads meanwhile; a `read` is one step.
* `TlsHold` is the odd part of `rustls.rs`: with the socket full, `write` returns one byte
  less than it handed over, so that the handler comes back; the next `write` takes its
  first byte as written (`TlsEmptied`, `held` is `!finished`).
* `Frame` is its counterpart for WebSocket: while a frame is under way a `write` only
  flushes, whatever it was given, and then returns the length of what it was given.
* On the server's side of wss one lies on the other: tungstenite's loop calls the rustls
  `write`, is told one byte less, and calls again. On the client's side it lies on OpenSSL.
* `Ok(0)` is a closed connection to the handlers and to tungstenite (`reset`).

## 3. Runs

| Run | Instance | Question |
|---|---|---|
| `workers_safety` | 3 workers, 3 connections (two plain, one TLS with a malformed upgrade), debug | one place per connection, counts cover what is held, FIFO service |
| `workers_live` | 1 worker, 2 connections, release | queued is taken, taken is released, connected is queued |
| `counts_leak` | 1 worker, 1 connection | violated: the count is exact |
| `client` | 3 threads, debug and release | phases aligned, speeds see every thread, the report is whole, `Lockstep`; the client ends, and a panic of thread 0 ends it too |
| `client_hang` | 2 threads, release | violated: failed threads are reported |
| `client_short` | 1 thread, release | violated: too short a measurement gives 0 |
| `registration` | 3 pings | pings follow registration, one late ping, stays unlisted, shutdown ends |
| `session` | sizes 2, 4, 8; room 3; 4 chunks; 3 pings; 3 upload chunks | see below |
| `session_upload` | the same | violated: every pair of the result is taken over |
| `commands` | mio and tokio server; 3 commands of 6 (tokio: 7), sizes 2, 3, 5; room 3 | see below |
| `offered_quit` | mio server, 1 command of 7 | violated: an offered command is acted upon |
| `streams` | 4 kinds of stream; 7 parts of 2 to 6 bytes; rooms 1 to 5; rustls takes 2 bytes at a time | no byte is lost, doubled or swapped, nothing is left behind, no event is missed, `ByteStream` |

Bounds, and why they suffice:

* `workers_safety`: three workers let one panic inside the queue's critical section
  while another holds a connection and a third meets the poisoned mutex. The
  workers are interchangeable in every definition, and so are the plain connections
  when each request takes one read, so symmetry is sound; it is not used where liveness
  is checked. Nothing bounds the events of a session: clients may be active for ever.
  `Pieces` is the number of reads a request needs.
* `workers_live`: one worker and two connections make a connection wait behind a slow
  one; the second listener is exercised by `TlsConns`. Whether the second is served
  depends on that worker alone; with two workers and three connections the liveness check
  does not end within minutes.
* `client`: three threads tell "every other" from "some other" thread.
* `session`: chunks of 2, 4 and 8 units against a buffer of 3 mean that chunks never fit
  whole, but the smallest does; with room 3, two lines (4 units) do not fit together. Four
  chunks let the number and then the size grow twice each.
* `commands`: three commands are needed for a left-over clock to survive one command
  (upload, upload, download), and two odd sizes for the kept chunk to be wrong.
* `streams`: a room below, at and above the size of most parts; parts that are one, two
  and three times what rustls takes, so that the socket fills before, inside and at the
  end of a hand-over; parts in a row by one side, so that something left behind would meet
  the next part, and turns both ways. The smallest part is two bytes, as in the
  protocol: its shortest line is `OK` and a newline.

`CHECK_DEADLOCK` is off in every run: the server may be shut down, the client ends, and
a session is over when both sides have left.

What the session runs show. While both sides take part the dialogue is half duplex
(`HalfDuplex`); they never wait for each other with nothing on the way unless an OK
was cut (`NoStandoff`); every phase ends with nothing on the way and the server's
state as new (`QuietBetweenPhases`); chunk sizes agree and are stored
(`ChunkSizesAgree`); the lines whose handlers could not survive a short write are
never written short, because the other direction's turn has drained the buffer
(`LinesGoWhole`); the server counts exactly the chunks that were sent
(`EveryChunkCounted`); the session ends (`SessionCompletes`). With any order of
commands the server is clean before each (`CleanSlate`), a command is timed from its own
start unless it follows an upload (`OwnClock`), and each is carried through
(`Answered`); the mio server never refuses a command of this client, and the tokio
server says ERR only after a cut line (`NeverErr`); and neither server ever waits for a
client that waits for it with nothing on the way (`NoStandoff` of `Commands`).

The exceptions written into these properties are what the code does:

* a line or an OK that is cut in two stops a session, or is taken for something else;
* the mio server panics on GETCHUNKS with a size that is no power of two
  (`getchunks.rs:40`; `UnstoredSize` in `Answered`). The measurement client never asks
  for one (`ChunkSizesAgree`). `src/tests/handler/handle_get_chunks.rs:124` does, of the
  tokio server, which is the one that `TestServer` starts;
* a second odd chunk size of GETTIME is answered by the mio server with the first;
* a reader that is always as fast as the mio server writes never ends a download;
* the mio server has no branch for QUIT;
* in `Answered` and `SessionCompletes`: the connection may fail, and the server may give up
  after 15 s without an event.

Fairness:

* `WorkerPool`: weak fairness for the accept loop (each listener is polled in turn), for
  each worker's pop, set-up, upgrade, and for its deadlines (`GreetTimeout`, `GoesQuiet`,
  `IdleSweep`), since `poll` has a timeout and the loop comes round. That a session goes
  quiet is fair only in the sense that 15 s pass once no event comes in between: each
  event takes the session out of `quiet` again, so an active client is never swept, keeps
  its worker, and a queued connection may wait for ever behind it. `QueuedIsTaken` and
  `TakenIsReleased` name this (`StaysActive`), and handlers that do not return, as
  exceptions. Clients are not fair, handlers are not.
* `ClientRun`: threads and main are scheduled; a phase ends in some way. The code
  restarts its timeout at every event, so a server that trickles events for ever is
  excluded by this assumption.
* `Registration`: the runtime polls its tasks, and a request gets an answer or an error
  in the end. The HTTP client has no timeout of its own: without that assumption
  shutdown does not end.
* `Session`, `Commands`: a step of the dialogue that can be taken is taken, on either
  side, since mio reports the stream and both loops come round to it. Nothing makes a
  side fail or a deadline pass. For the tokio server it is the runtime that polls a
  woken task; there the clock of GETTIME passes too, as it is read before every chunk.
* `Streams`: a side that is awake goes on with its loop; one that waits goes on only by an
  event. That enough events come is what `DialogueEnds` shows, not what it assumes.

Every property of a passing run has a mutant: a definition of the code changed the way a
plausible bug would change it, under which TLC finds the property violated. They stand,
marked `Mutant`, in front of the definition they replace.

## 4. Proofs

`WorkerPool_proofs` holds five theorems that TLAPS checks for every finite or infinite
number of workers, any request lengths, any modulus and both builds. The assumptions are
those named in `WorkerPool`: the types of the constants, and, used by
`CountsCoverHeldHolds` only, that fewer clients ever connect than a `usize` counts
(`FewConnsAssumption`).

* `PoolInvHolds`: `Spec => []PoolInv`
* `TypeCorrect`: `Spec => []TypeOK`
* `OnePlaceHolds`: `Spec => []OnePlace`
* `CountsCoverHeldHolds`: `Spec => []CountsCoverHeld`
* `ImplementsService`: `Spec => ServiceSpec`, the refinement of `Dispatch`

`OnePlace` (the queue has no connection twice, no two workers have the same one, none is
held once it is closed) is not inductive: nothing in it says that a worker at its
loop holds nothing, so that a pop might overwrite a connection, or that a connection still
in a listener's backlog belongs to that listener. `PoolInv` adds that: what a thread has
in hand and in its map follows from where it stands, and a backlog holds only its own
listener's connections. The proof has a step per action and, for the actions that
move a connection, a lemma per kind of move (`PlaceTake`, `PlaceAccept`,
`PlaceUpgrade`, `PlaceRelease`, ...); all other actions leave the places alone
(`PlaceFrame`). `ImplementsService` uses the same invariant to show that every action
is `Enter`, `Serve`, `Finish`, `Lose` or a stutter of `Dispatch`.

That a count covers what its worker holds needs more than the steps that raise and lower
it, since the count is a `usize`: at the modulus it would wrap to 0 under a session that
is still held. `CountsInv` adds that no count exceeds the number of connections that were
ever taken off the queue, which are fewer than the modulus. It speaks of the workers that
never removed a connection twice (`late`): for the others the decrement does underflow.

TLC checks the last four in `workers_safety`; `PoolInv` only serves their proofs.

`Registration_proofs` holds four theorems for every number of pings; the one assumption
is that `MaxPings` is a natural number.

* `RegistrationTyped`: `Spec => []TypeOK`
* `PingsAfterRegistrationHolds`: `Spec => []PingsAfterRegistration`
* `OneLatePingHolds`: `Spec => []OneLatePing`
* `StaysUnlistedHolds`: `Spec => []StaysUnlisted`

None of the last three is inductive. `RegInv` adds where the spawned task can be: a task
in its ping loop is behind a handled registration and one before it has sent no ping
(for the first); after a late ping the flag is up and the task is not before a wait any
more, since it goes through the test of the flag to get there (for the second); once
main deregistered with nothing under way, the task is past its only registration, so
no request that could list the server again is on the way (for the third). One lemma per
actor shows that its steps keep `RegInv`.

`ClientRun_proofs` holds six theorems for every number of threads and both builds; the
assumptions are that `N` is a positive natural number and `Builds` a set of builds.

* `InvariantHolds`: `Spec => []ClientInv`
* `TypesHold`: `Spec => []TypeOK`
* `PhasesNeverMix`: `Spec => []PhasesAligned`
* `SpeedsAreWhole`: `Spec => []SpeedsSeeEveryThread`
* `ReportsAreWhole`: `Spec => []ReportIsWhole`
* `BarrierIsLockstep`: `Spec => InLockstep`, the refinement of `Lockstep`

That two running phases are the same needs the barrier's arithmetic. `ClientInv` says
(`Gates`) that a thread which does not wait is in the round of the barrier's generation,
that one which waits is in the round it waits for, this generation's or the one before,
and that the count is the cardinality of the threads waiting in this generation. So when
the last one arrives all others wait for this very generation, and none is left in the
one before. `Done` ties what a thread has pushed to the stage it is at, which with the
lockstep makes the lists whole when thread 0 reads them.

`Streams_proofs` proves, for every script of parts of two bytes or
more, every set of rooms and every limit of rustls of two bytes or more
(`StreamsAssumption`):

* `StreamInvHolds`: `Spec => []StreamInv`
* `TypesHold`, `BytesKeepTheirOrder`, `WhatIsToldIsSent`, `WritesNeverReset`,
  `WaitersHaveReadAll`: the five invariants that the run `streams` checks
* `StreamsAreByteStreams`: `Spec => BytesInOrder`, the refinement of `ByteStream`

`StreamInv` follows the bytes of a direction: up to position `H` the peer has read them,
up to `A` they are in its libraries, up to `B` on the way, up to `C` in the writer's rustls.
`Chain` says that these are consecutive runs, so that every step only shifts a position.
`Sender` relates `C` to what the handler was told: inside a `write` they differ by
`total`, between two by the one byte that rustls owes (`Owing`), and a byte is owed only
while the part has more than that byte, which is why `Ok(0)` is never returned. `Place`
says where each side is in the script: a side that reads has read all parts of its peer
before this one and `left` less than this one, and `Framing` that the ends of frames are
the ends of parts. Since the places of both sides fit each other, a whole frame is
what its reader asks for, and a reader that turns to write has nothing left in its
libraries (`Quiet`). How many bytes the first parts have is a sum over the script
(`Upto`), chosen by its recurrence. That there is such a sum and that it grows needs
induction; its first lemmas argue by the least counterexample, which
the natural numbers have as a well-founded set.

`Wire_proofs` and `Session_proofs` prove, for buffers of two units or more, any smallest and
largest chunk and any limits on chunks, pings and upload, all that the run `session` checks
without fairness. The assumptions are the types of the constants and that the largest chunk
is one that `CHUNK_STORAGE` has (`SessionAssumption`), as 4 MiB is: otherwise the client
would grow to a size that the server has no chunk of, and the server would panic; as it
is, it never does (`ChunkIsStored`).

* `SessionInvHolds`: `Spec => []SessionInv`
* `TypeOKHolds`, `HalfDuplexHolds`, `NoStandoffHolds`, `QuietBetweenPhasesHolds`,
  `ChunkSizesAgreeHolds`, `LinesGoWholeHolds`, `EveryChunkCountedHolds`: the seven
  invariants
* `ChunkIsStored`: `Spec => [][~get_chunks_panics]_vars`

None of the seven is inductive. That only one way has bytes on it, for instance, depends
on a side not speaking before it has read all that was said to it, so on where lines
and chunks end in what it reads. `Scene` lists the scenes of the dialogue: nothing is on
the way and the client is to speak (`Quiet`); the client has said a line, or an OK, that the
server has not read all of (`Asked`, `AskedOk`); the server says a text of several lines
(`Answering`) or a stream of chunks (`Downloading`); the client uploads (`Uploading`)
and the server reports (`Reporting`). Each scene ties the phases of the two sides to the
stream: what a reader has read of the text at hand, followed by what is on the way to
it, is what has been said of the text (`Hears`) or a run of chunks of one size that breaks
off at the writer's position (`Chunked`). Neither depends on how a write was cut short
or a read cut up: a read moves units from the one part to the other and a write appends.
Reads end a text only at its end since its last unit occurs nowhere else in it
(`EndsOnce`), and end a chunk only at its mark. In an upload the length of what
is on the way is the number of chunks that have no point yet times their size, plus the
writer's position; so when the last mark is read the points are as many as the chunks.
`Positions`, `Counters` and `Clocks` are the rest of the state: what of it is as new in which
phases. `Stored` is the least set that is closed under doubling, as the loop that fills
`CHUNK_STORAGE` goes, which is what the steps that double a size need of it.

There is one lemma per handler, on what it does to the scene it is called in; lemmas on
the kinds of step they have in common (a line is said, a text goes on, a chunk
goes on, a piece is read) do most of the work. TLC checks the seven invariants in
`session`.

`Commands_proofs` proves, for both servers, any number of commands in any order, any
chunk sizes between the limits and buffers of two units or more, four of the five
invariants that the run `commands` checks; `Standoff_proofs` adds the fifth. The
assumptions are those of `Wire` and `Commands` on
the types of the constants: whether `CHUNK_STORAGE` has the sizes that are
asked for is not assumed, since this client may ask for others (the mio server panics on
them in GETCHUNKS, and the invariant goes on to hold of what is left).

* `CommandsInvHolds`: `Spec => []CommandsInv`
* `TypeOKHolds`, `CleanSlateHolds`, `OwnClockHolds`, `NeverErrHolds`

None of the four is inductive. That a command finds a clean slate, for instance, is
because the client begins it only when it has heard the unit that ends the answer to the
last one, which the server says last, with its state already as new. So `CommandsInv` says
how the client's place in its list of turns, what is on the way and the server's place
belong together. For the mio server there are four scenes: there is nothing to say and the
server waits for a command (`Resting`); it reads what is said at this turn (`Listening`);
it is on its way to the unit that ends the answer, which has not been said (`Speaking`);
it has said it, and waits for what the client says at the next turn (`Spoken`). The tokio
server has their counterparts (`TaskRests`, `TaskListens`, `TaskSends`, `TaskHasSaid`), in
terms of the place in its task and with what `write_all` has still to write taken as on
the way (`Unheard`). `Takes` and `TaskTakes` say what the client must have left to say
for each place where the server may read next, with the size of the chunks on both
sides; `FromOn` that what was read of a text and what is on the way are the part of it
that was said. `Positions`, `Owned` and `Ticks` are the rest of the mio server's state:
how far a buffer is written, whose command a phase belongs to, and which clock may be left
running.

Two exceptions are in the invariant because they are in the code. Once a line was cut, the
tokio server is in no scene (`splitOk`); only its types and counters are known then. And
when the client has gone, what it was about to say is not known any more: the server is in
a scene for some list of turns (`Agenda`); the tokio server only until it has read all
that was sent, since it then leaves wherever it reads (`Deserted`).

One lemma per handler shows that it keeps the invariant; handlers that say one line and go on
share a lemma (`Plain` names their phases), as do those that read a line and those that
count chunks.

`Standoff_proofs` proves, from the same assumptions:

* `PaceInvHolds`: `Spec => []PaceInv`
* `NoStandoffHolds`: `Spec => []NoStandoff`

That the two never stand waiting for each other does not follow from `CommandsInv`, which
says where they are in the dialogue and not how far each has got. A server at the right
place could still have read its whole text and wait for more of it; a client at the right
place could wait for a mark when the server has written its last chunk. `PaceInv` adds
both. `Unread`: the server has not read all of what it waits for, since the read that
completes a line, an OK or a chunk takes it on to the next phase (`TaskPace` says so of the
tokio server). `Level`: what the client has heard of the chunk at hand, what is on the way
to it and what the server has still to write of its chunk make up whole chunks (`Whole`) of
the size `each` by which the client counts; so when nothing is on the way and
the server has written its last chunk, the client has heard the mark, and does not
wait. `Sizing` says that `each` is the size the server cuts by, and `ByUnit` that only
an answer of chunks is counted by a size at all. The excuses of the
property are those places where the code does get stuck, and are carried by the
invariant: a line taken for whole that was cut in two (`splitOk`), a second odd chunk size
(`WrongFor`), and QUIT at the mio server, which leaves the line unread. As before there is a
lemma per handler, and one for each thing the client does.

Only model-checked, on the bounds above: everything under fairness, which is beyond this
prover. Every invariant and every action property of a passing run is a theorem.

## 5. Disagreements

Five runs are expected to end in a violation; each checks one property that a comment,
a log line or a protocol line states of the code (quoted under `findings`).

* `counts_leak`: a worker's connection count stays raised after a failed greeting.
* `client_hang`: when one thread cannot connect and another can, the latter waits at a
  barrier made for all threads, and "Failed threads" is never printed.
* `client_short`: "if the time after the skip is not enough, return 0" tests an unsigned
  difference for `<= 0`.
* `session_upload`: the last pair of TIMERESULT, from which upload time and bytes are
  taken, ends in `)` and a newline, and is dropped.
* `offered_quit`: the server offers QUIT and has no branch for it; the line stays in the
  read buffer in front of the next command.

## 6. Not modelled, and the plan

Not modelled, whole components:

* configuration, arguments, daemon and user set-up, certificates: sequential code at
  start, without behaviour over time;
* choice of a server and saving of results: single HTTP requests without retry; that what
  is saved is whole is `ReportIsWhole`;
* printing, graphs and logging: formatting;
* `mioserver/handlers/signed_result.rs`, `client/handlers/signed_result.rs` and
  `client/handlers/perf.rs`: no dispatcher calls them;
* the vendored web client.

Not modelled, parts of components:

* streams: handshakes of TLS and WebSocket, the close of a connection (so the paths of
  `rustls.rs` on `read_tls` being `Ok(0)` are left out), the greeting that
  `websocket.rs` splits after the upgrade (126-163), records of TLS, and the wss server's
  loop on a frame longer than its 8 KiB buffer. `openssl.rs` only calls the library, and is
  taken to write as TCP does;
* tokio server: the accept loop, which spawns tasks that share nothing, and its
  shutdown, whose signal is never sent; `token_validator.rs`, which the session does not
  call; WebSocket messages are a stream of bytes here. Its sessions have no timeout, and
  none is modelled;
* clients that send before they are asked, as `src/tests/handler/handle_put.rs` does: the
  client of `Commands` waits its turn;
* `calculator.rs` beyond its unsigned subtraction: interpolation in floating point.

Of the plan this is what was done: the worker pool, the client's threads and the
registration, the session protocol of both sides, the tokio server and the commands in any
order, and the streams below them, each with proofs. What would come next: the close of a
connection in `Streams`.

## 7. How to run

    tlc -workers 2 -config session.cfg Session
    tlc -workers 2 -config commands.cfg Commands
    tlc -workers 2 -config workers_safety.cfg MCWorkerPool     # about a minute
    tlc -workers 2 -config client.cfg ClientRun
    tlc -workers 2 -config streams.cfg MCStreams
    tlc -workers 2 -config registration.cfg Registration
    tlapm WorkerPool_proofs.tla
    tlapm Registration_proofs.tla
    tlapm ClientRun_proofs.tla
    tlapm Wire_proofs.tla
    tlapm Session_proofs.tla                                   # some minutes
    tlapm Streams_proofs.tla                                   # so is this
    tlapm Commands_proofs.tla                                  # the longest
    tlapm Standoff_proofs.tla                                  # some minutes

The other configurations are named after their runs in the table above.
