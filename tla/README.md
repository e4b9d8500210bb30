# Formal models of galactic's process and connection management

galactic is an HTTP/2 server built on libuv. This directory holds TLA+
models of the parts of `src/` that manage processes, connections and
buffers, TLC configurations that check them, and TLAPS proofs about the
master process.

## The system and how its parts interact

* **Master** (`src/server.c`). One process runs a single-threaded libuv loop.
  It does the following:
  * opens the listeners, three signal handles (SIGPIPE, SIGINT, SIGTERM) and
    `num_workers` worker processes, each with an IPC pipe;
  * accepts each TCP connection and passes its descriptor to a worker with
    `uv_write2` over that worker's pipe, round robin;
  * closes its own copy of the socket in `on_write_complete`.

  Shutdown starts on SIGINT/SIGTERM, or when the last worker has gone.
  `server_stop` then kills the live workers and closes the listeners and
  signal handles. `server_stop_continue` stops the loop once three counters
  (`active_workers`, `active_listeners`, `active_handlers`) have all reached
  zero.
* **Worker** (`src/worker.c`, `src/client.h`). Each worker runs its own
  loop and does the following:
  * reads descriptors from the pipe and accepts each as a `client_t`;
  * reads from the network into the HTTP (optionally TLS) layer;
  * writes the layer's output with `uv_write`, counting `pending_writes`;
  * closes a connection with `uv_shutdown`, then `uv_close`, and frees the
    client in the close callback.
* **Binary buffer** (`src/util/binary_buffer.c`). A growable byte buffer
  that the HTTP layer serialises frames into.

The master and the workers share no memory. The only link between them is
the descriptor passed over the pipe and the worker process's exit. The
master module therefore treats the workers as its environment (a worker may
exit at any time, and a killed one eventually exits). The worker module
treats the master as the source of new sockets on the pipe.

## Modules

| module | models | state | actions |
|---|---|---|---|
| `Master` | `server.c` | `slot`/`stopped`/`killed` per worker (the `worker_process_t` lifecycle), `listener`, `signal`, `rr`, `stopping`, the three `active_*` counters, `loopStopped`, and per accepted connection `cmem` (the `server_client_t`), `chandle` (its `uv_tcp_t`), `cwrite` (its `uv_write2`) and `target` | one per callback: `ServerOnNewConnection`, `OnWriteComplete`, `ClientHandleClosed`, `CloseProcessHandle`, `ProcessHandleClosed`, `WorkerPipeClosed`, `StopSignal`, `HandlerClosed`, `TcpListenerClosed`, `Exited`; `ServerStop` and `ServerStopContinue` are the helpers they call |
| `MCMaster` | (TLC instance) | model values for two listeners | |
| `ServerLifecycle` | what the master promises (abstract) | `phase` (running, stopping, stopped), `live` workers, `open` handles | `Stop`, `WorkerGone`, `HandleClosed` |
| `MasterProofs` | (proofs) | `IInv` | |
| `MasterRefinement` | (proofs) | the refinement of `ServerLifecycle` by `Master` | |
| `MasterDispatchProofs` | (proofs) | `ConnInv` (connections), `DispatchInv` (round robin) | |
| `Worker` | `worker.c` | per client a `client_t` record (`mem`, `tcp`, `closing`, `shut`, `pending` = `pending_writes`, `queued` = writes libuv holds, `eof`, `httpClosed`), `pipeOpen`, `terminate`, `loopStopped`, `crashed` (a second `uv_close`) | `WorkerOnNewConnection`, `WorkerReadFromNetwork`, `AppWriteFinished`, `UvCbShutdown`, `CloseFinished`, `HttpRespond`, `WorkerSigintHandler`, `Exited` |
| `WorkerProofs` | (proofs) | `IInv` (per client `ClientInv`), `CInv` (adds `ClearInv`) | |
| `BinaryBuffer` | `binary_buffer.c` | `index`, `capacity`, `overrun` | `BinaryBufferReset`, `BinaryBufferWrite` (with `NeedsGrow` and `BinaryBufferGrow`) |
| `BinaryBufferProofs` | (proofs) | `BufInv` | |

### How the models follow libuv

Each action is one callback, run to completion, as the single-threaded loop
runs it. The models also follow these libuv rules:

* **Master writes.** `uv_write2` on a pipe that is closing fails without a
  callback. In `Master` that outcome is `cwrite = "lost"`, chosen by
  `Write2Outcomes` from the state of the worker's slot.
* **Worker writes.** `uv_write` on a shut-down or closing stream fails
  without a callback.
* **Shutdown.** `uv_shutdown` fails unless the stream is open and not yet
  shut down. A shutdown completes only once the write queue is empty.
* **Close.** `uv_close` cancels the queued writes, whose callbacks run
  before the close callback. A second `uv_close` on the same handle is an
  assertion failure (`crashed`).

### What is abstracted

The HTTP and TLS layers are not in this tree. In `Worker` they appear only
through what they do to `worker.c`: after any input they may write (call
`app_write_cb`) and/or close (`app_close_cb`). These are `Reactions`/`React`,
marked `spec_modelled` in the map.

`roundup_to_power_of_2` is outside `src/` and is modelled from its contract.

Message bytes, log text and plugin hooks are left out.

## Runs

Passing runs:

| run | cfg | checks | shows |
|---|---|---|---|
| master_safety | `MCMaster.cfg` | `TypeOK`, `LoopStopsQuiescent`, `RoundRobin`, `ClientFreedAfterClose`, `ImplementsLifecycle` | the loop stops only when every counted handle is closed; sockets are dealt round robin, crashes included; a `server_client_t` is freed only after its handle is closed; the master implements `ServerLifecycle` |
| master_shutdown | `MCMasterShutdown.cfg` | `ShutdownCompletes` | under fairness, shutdown always ends with the loop stopped, failed accepts included |
| worker_safety | `MCWorker.cfg` | `TypeOK`, `ClientFreedOnlyWhenIdle`, `PendingWritesAccurate` | in cleartext, a client is freed only when libuv holds no handle, write or shutdown of it, and `pending_writes` matches the writes in flight |
| worker_release | `MCWorkerRelease.cfg` | `ClientReleased` | under TLS, with a peer that keeps reading (`PeerReads`, a hypothesis of the property), every connection the HTTP layer or a TLS failure closes has its client freed; a crash or a stall does not count as a release |
| buffer_writes | `MCBinaryBuffer.cfg` | `NoOverrun` | without `size_t` wrap, writes never overrun, whatever capacities resets pass |

Violation runs (each is a finding in `PROJECT.json`):

| run | property | what TLC finds |
|---|---|---|
| master_accept_fail | `ClientFreedAfterClose` | `server.c:166` frees the client before `uv_close` of the handle inside it |
| master_stale_worker | `NoStaleWorkerRead` | after a worker exits, `server.c:155` hands the next socket to its freed struct |
| master_socket_leak | `SocketReleased` | the ignored `uv_write2` result at `server.c:160` leaks the accepted socket when the pipe is closing |
| worker_double_close | `NoDoubleClose` | a read error (`worker.c:200`) during an HTTP-initiated shutdown: `uv_cb_shutdown` closes the handle a second time |
| worker_tls_writes | `PendingWritesAccurate` | after a TLS failure shuts the stream down (`worker.c:216`), failed writes stay counted in `pending_writes` (`worker.c:77`) |
| worker_accept_fail | `ClientReleased` | a failed accept (`worker.c:282`) closes the handle with no callback, so the client leaks |
| buffer_wrap | `NoOverrun` | in an 8-bit `size_t`, a 200-byte write fills a 200-byte buffer; a 100-byte write then makes `index + length` wrap to 44 at `binary_buffer.c:92`, the grow is skipped, and the copy overruns |

### Bounds

* **Master.** Two workers, two listeners (one for the liveness runs) and up
  to three connections. This is enough for the following:
  * a worker to crash or be killed while a socket is in flight to it;
  * the round-robin index to wrap;
  * connections from both listeners to interleave with signal and exit
    callbacks.
* **Worker.**
  * Two clients, so that two connections interleave.
  * At most two writes in flight per client. This is enough for a close to
    cancel a queued write while another is pending, and for a shutdown to
    wait on the queue.
* **Buffer.**
  * The passing run uses a 13-bit `size_t` and lengths {0, 1, 3, 200}. These
    lengths cover no grow, a grow from 0 and 1, a grow from 200, and
    repeated growth up to 1024 bytes.
  * The wrap run uses an 8-bit `size_t`, so that lengths comparable to
    `SIZE_MAX` can be enumerated. Its capacity and lengths (200; 100 and
    200) keep every grow out of the trace: the overrun comes from the
    wrapped grow test alone. The other wrap, `(capacity + length) * 2` at
    `binary_buffer.c:75` overflowing the round-up, is reached with a single
    255-byte write, which these lengths leave out.

No symmetry is used. Workers and clients are numbered, and the
round-robin order depends on their numbers.

### Fairness

The liveness runs assume weak fairness only on what libuv guarantees once it
has started it:

* a shutdown whose write queue is flushed calls back, and a started close
  finishes;
* a process exit is eventually reported;
* the master's close callbacks eventually run.

A write to a client does not complete unless the peer reads, and worker.c
has no timeout. So write completion (`AppWriteFinished`) gets no fairness
in `FairSpec`. `ClientReleased` takes it as an explicit hypothesis,
`PeerReads`, instead. A peer that stops reading keeps its client forever.
The spec, under Cancellation, says an explicit close discards pending
writes; the hazard list records this.

The environment gets no fairness: reads, new connections, signals, the HTTP
layer's responses, and a worker exiting uncommanded. The one exception is
that a worker the master has killed (`killed`) eventually exits, because
SIGTERM's default action ends the process.

## The abstract lifecycle and its refinement

`ServerLifecycle` states what the master promises about its own lifetime,
with no counters or callbacks. It has a phase (running, stopping,
stopped), the set of live workers and the set of open handles. It
promises the following:

* shutdown starts only on a signal, or when the last worker is gone;
* a worker or handle, once released, never comes back;
* handles are closed only while stopping;
* the master halts exactly when no worker and no handle is left.

`Master` maps onto it (`LC == INSTANCE ServerLifecycle WITH ...`):

* `phase` is `loopStopped` / `stopping`;
* `live` is the workers whose `worker_process_t` is not yet freed
  (`LiveWorkers`);
* `open` is the listeners and signal handles not yet closed.

`worker_pipe_closed` is `WorkerGone`. `handler_closed` and
`tcp_listener_closed` are `HandleClosed`. The first SIGINT/SIGTERM is
`Stop`. Every other callback is a stutter. The master_safety run checks
`ImplementsLifecycle` (`LC!Spec`) as a property, and `MasterRefinement`
proves it. The mutant that calls `server_stop` on the loss of any worker,
not only the last, breaks it.

## Proofs

Five modules hold theorems. Every constant assumption they use is stated
in the module that declares the constant, and TLC evaluates it on every
run of that module:

* `ConstantsAssumption`: at least one worker, a non-empty finite set of
  listeners;
* `WorkerConstantsAssumption`: positive bounds on clients and writes;
* `RoundupAssumption` (in `BinaryBuffer`): `SIZE_MAX + 1` is a positive
  number, and `RoundupToPowerOf2(x)` lies in `x .. SIZE_MAX` for every `x`
  up to half of `SIZE_MAX` (`RoundupCorrect`). This is a fact about powers
  of two. The provers know nothing of `2^k` beyond `2^0 = 1`, and proving
  it would need induction over the exponent, so it is stated as an
  assumption. TLC checks it for the widths the buffer runs use (8 and 13
  bits).

Two theorems carry a hypothesis of their own, which holds in the run that
checks the property and fails in the run that shows the property failing:

* `ClientFreedAfterCloseHolds` assumes `~AcceptMayFail`; the
  master_accept_fail run breaks the property.
* The buffer theorem assumes `NoWrap` (`8 * MaxSize <= SIZE_MAX + 1`); the
  buffer_wrap run breaks the property.

`MasterProofs` proves:

* `TypeCorrect`: `Spec => []TypeOK`;
* `LoopStopsQuiescentHolds`: `Spec => []LoopStopsQuiescent`.

`LoopStopsQuiescent` alone is not inductive. A step that decrements a
counter to zero preserves it only if the counters are exact. The proofs
therefore go through `IInv`, which combines:

* `TypeOK`;
* `CountersAccurate`: each `active_*` counter equals the number of workers,
  listeners or signal handles that are still open;
* `NotStoppingAllOpen`: before shutdown starts, every listener and signal is
  open;
* `LoopStopsQuiescent`.

`InitIInv` and `StepIInv` prove that `IInv` holds initially and is kept by
every action. The two theorems then follow by PTL. The lemmas they rest on
are:

* cardinality facts: `CardRemove`, `CardZero`, `CardInRange`;
* the effect of `ServerStopContinue` while stopping (`ContinueWhenStopping`);
* the effect of a fresh `ServerStop` (`FreshStop`, `FreshStopSets`);
* `QuiescentWhenZero`.

`MasterRefinement` proves `Refinement`: `Spec => ImplementsLifecycle`. It
follows the usual pattern:

* `InitRefines`: the initial state maps to `ServerLifecycle`'s initial
  state;
* `StepRefines`: under `IInv` in both states, every step maps to an
  abstract step or a stutter.

The step proof needs `IInv` for two facts:

* With exact counters, the test `server_stop_continue` makes before
  `uv_stop` is the same as the abstract "nothing left"
  (`ZeroIffDrainedNext`).
* Before `server_stop`, every handle is open (`OpenWhileRunning`).
  Therefore a fresh stop, including the one that the loss of the last
  worker triggers, moves the phase to stopping and not to stopped.

`WorkerProofs` proves three theorems:

* `WorkerTypeCorrect`: `Spec => []TypeOK`.
* `ClientFreedOnlyWhenIdleHolds`: `Spec => []ClientFreedOnlyWhenIdle`. This
  holds for every number of clients and every bound on writes, in
  cleartext and under TLS.
* `PendingWritesAccurateHolds`: `~UseTLS => (Spec => []PendingWritesAccurate)`.

Every callback changes one `client_t`, so the invariant is stated per
client (`ClientInv`). It says:

* the record is well typed;
* libuv never holds more writes than `pending_writes` counts, which keeps
  the decrements of `app_write_finished` and of a close's cancellations in
  range;
* a freed client is idle.

The lemmas `AppWriteCbInv`, `AppCloseCbInv`, `WorkerCloseInv` and
`ReactInv` show that the helpers and the HTTP layer's reactions keep it.
Then one lemma per callback shows that the new record satisfies it again
(`UpdateClient` lifts that to the whole state).

For `PendingWritesAccurate` in cleartext, `ClearInv` adds one fact. While
the socket is open, a shutdown has been started only by the HTTP layer
closing, after which it writes nothing. Under TLS a decryption failure
starts the shutdown behind the HTTP layer's back, and the
worker_tls_writes run shows the property failing.

`MasterDispatchProofs` proves two theorems about accepted connections:

* `ClientFreedAfterCloseHolds`:
  `~AcceptMayFail => (Spec => []ClientFreedAfterClose)`.
* `RoundRobinHolds`: `Spec => []RoundRobin`, with no hypothesis, so it
  holds when accepts fail too.

`ClientFreedAfterClose` is not inductive. `OnWriteComplete` closes a
handle, and `ClientHandleClosed` then frees the client. This is safe only
if a pending write implies an open handle. The proof goes through
`ConnInv`, which adds two facts:

* `Unaccepted`: a connection at or past `nextConn` is untouched;
* `PendingWriteOpen`: a pending `uv_write2` keeps the socket's handle open.

`WorkerPipeClosed` cancels exactly the pending writes, and those are on
open handles, so it never closes a handle twice.

`RoundRobin` counts, for each worker, the sockets handed to it. It is not
inductive either: nothing in it ties `round_robin_counter` to the number
of dispatches. `DispatchInv` adds two facts:

* `CounterCountsHanded`: `rr = |Handed| % N`;
* `TargetsFresh`: connections not yet accepted have no worker.

A dispatch then adds one socket to the share of worker `rr`. The arithmetic
lemmas `DivChar`, `DivStep` and `ModStep` show that the formula
`(k + N - 1 - w) \div N` grows by one exactly for `w = k % N`. They hold
for a divisor `N` that is a constant, not a literal.

`BinaryBufferProofs` proves `NoOverrunHolds` under `NoWrap`. The invariant
is not inductive alone. The inductive
invariant `BufInv` adds `index <= capacity`.

Under `NoWrap`, `index + len` taken modulo `2^Width` is `index + len`, so the grow
test sees the true end of the write (`ModSmall`). The grown capacity is at
least `2 * (capacity + len)`, which is at least `index + len`
(`GrowRoom`). This bound is what the buffer_writes run uses: 13 bits and
`MaxSize = 1024`.

Some results are only model-checked, because TLAPS cannot prove them:

* every liveness property (`ShutdownCompletes`, `ClientReleased`), which
  needs fairness and `ENABLED`;
* `RoundupCorrect` for every width, which needs induction over the
  exponent of `2^k`;
* every violation run. A violation is a counterexample that TLC finds, not
  a theorem.

## Not modelled

* `log.c` is formatting and file I/O only.
* `http/h2/check_h2_frame.c` is a test program.
* The HTTP/1 and HTTP/2 engines, TLS and the plugins are not in `src/`.
* `server_free` and the master's SIGPIPE handler only log and free memory.
* `server.h` declares the structures of an earlier, threaded design. The
  model follows the definitions that `server.c` uses.
* The worker's SIGINT path is modelled (`WorkerSigintHandler`,
  `WorkerStop`). `worker_stop` calls `uv_stop` at once, while the spec
  describes finishing in-flight streams and sending GOAWAY first. No
  property states that graceful shutdown, because GOAWAY and stream
  completion belong to the HTTP/2 engine, which is outside this tree.
* Allocation failures (`malloc`, `client_init`) and the pipe-read buffer
  leaks at `worker.c:240/245` are listed as hazards with no property.

## Next steps

* Compose `Master` and `Worker` over the pipe. The descriptor would be in
  flight, and a worker crash would drop its clients.
* Write an abstract dispatch specification ("every accepted socket ends in
  exactly one worker, or is closed"), refined by `Master`.
* State an action property of the dispatch ("a socket's worker never
  changes once chosen"), together with a run that checks it, and prove it
  from `DispatchInv`.
