# TLA+ models of the rv-predict trace recorder runtime

These modules model the event-recording runtime in `src/llvm/ngrt`:
- the per-thread event rings (`ring.h`);
- the thread registry and thread lifecycle wrappers (`thread.c`, `thread.h`);
- the serializer thread and its flush to the trace file (`thread.c serialize`, `trace.c rvp_thread_flush_to_fd`);
- the delta-PC event encoding (`trace.c`);
- the interruption ring of each event ring, and the global generation clock with its COG events (`ring.h`);
- the legacy trace dumper (`rvpdump/tracedump.c`).

Each module is translated from the C source. Code the runtime calls but that is not in this repository is modelled from `spec.md` and marked `spec_modelled` in `PROJECT.json`. This covers `ring.c` (`rvp_ring_init`, `rvp_ring_wait_for_nempty`, `rvp_ring_put_interruption`), `relay.h` (`rvp_wake_relay`), the access instrumentation that calls the ggen helpers, and the offline reader of the trace.

## 1. The system

| Part | Source | State | Operations |
|---|---|---|---|
| Event ring | `ring.h` | `r_items`, `r_producer`, `r_consumer`, `r_lastpc` | `rvp_ring_put_multiple` and the `rvp_ring_put*` helpers built on it; `nfull`/`nempty`/`capacity`; `request_service`, `await_nempty` |
| Global generation | `ring.h` | `rvp_ggen` | `rvp_increase_ggen` (from `put_multiple`); `rvp_buf_trace_cog` and the ggen loads |
| Interruption ring | `ring.h`, `intr.h` | `r_iring`, `r_idepth` | `iring_*`, `first/next/drop_interruption` |
| Registry | `thread.c` | `thread_head` list, `next_id`, `thread_mutex` | `rvp_thread_attach`, `rvp_thread_detach`, `rvp_thread_destroy`, `rvp_pthread_to_thread` |
| Lifecycle wrappers | `thread.c` | the thread records | `rvp_init`, `__rvpredict_pthread_create`, `__rvpredict_thread_wrapper`, `__rvpredict_pthread_exit`, `__rvpredict_pthread_join` |
| Serializer | `thread.c`, `trace.c` | `nwake`, `wakecond`, `last_t`, `any_emptied` | `serialize`, `rvp_wake_transmitter`, `rvp_thread_flush_to_fd` |
| Delta-PC encoding | `trace.c` | `deltops` table, `r_lastpc` | `rvp_vec_and_op_to_deltop`, `rvp_ring_put_pc_and_op`, `rvp_ring_put_begin` |
| Trace dump (legacy) | `rvpdump/tracedump.c` | the input offset | `main`: reads the trace in chunks and prints each event |

How the parts interact:
- **Putting events.** An instrumented thread writes its events into its own ring, one word at a time. The FORK, JOIN and BEGIN events and the PC words are each put through `rvp_ring_put`.
- **Waking the serializer.** After each commit, `put_multiple` can advance `rvp_ggen`. It wakes the serializer when the ring crosses half full, or when it finds the ring full; in the full case it then spins.
- **Flushing.** The serializer waits on `wakecond` until `nwake > 0`. It then holds `thread_mutex` for passes over the list, writing every non-empty ring with `writev` and preceding it by a switch marker when the thread differs from `last_t`.
- **Create and join.** Creation attaches a record under the mutex. Join destroys the record under the mutex.

Behaviours that make the code hard to test:
- The serializer flushes a ring while its owner is halfway through an event.
- A wake waits for the mutex that the serializer holds for a whole pass.
- A commit wraps the ring.
- A thread handle is recycled between `pthread_join` and the lookup by handle.
- A record is freed while its ring still holds unread words.
- A pointer difference is narrowed to `int`.

## 2. Modules

### RingQueue: what a ring promises
`RingQueue.tla` is a bounded FIFO of numbered words.
- `Commit(n)` appends a batch when it fits.
- `Drain` moves the whole queue to the output.

### Ring: one ring, its producer and the serializer
`Ring.tla` keeps the slots explicit: `items`, `producer`, `consumer`. It splits `rvp_ring_put_multiple` at every point where the serializer can observe it:

| Action | Code it models |
|---|---|
| `PutMultiple` | computes `prev`/`next` (ring.h:266-274) |
| `Check` / `Full` / `Spin` | the wait loop (278-279), `rvp_ring_await_nempty` and `rvp_ring_wait_for_nempty` |
| `Copy` | the one- or two-segment memcpy (281-288) |
| `Publish` | the release store (290) |
| `Milestones` | the ggen and service tests (292-310), with `nfull` read afresh |
| `WakeTransmitter` | `rvp_wake_transmitter`; it waits for `thread_mutex`, so it never runs during a pass |
| `Wake` | the `nwake` wait of the `serialize` loop |
| `FlushWrite` | `rvp_thread_flush_to_fd` up to its `writev`: the producer read once into the local `producer` (`snap`) and `[consumer, producer)` written; an empty ring ends the pass |
| `FlushStore` | `r->r_consumer = producer`, from the snapshot, as a step of its own: the owner may commit between the `writev` and this store |
| `WriteHeader` | `writeall` (trace.c:31-45): one `write(2)` of part of the header |
| `WriteHeaderFails` | `write(2)` returns -1 in `writeall`; `rvp_trace_open` fails and `rvp_serializer_create` calls `err` |
| `FlushFails` | `writev` writes less than asked or fails (trace.c:105-111); the `assert(nwritten == 0)` aborts the process |
| `Exited` | the process is gone after `err` or the failed assert (`spc = "dead"`) |

The serializer starts in `spc = "open"`: `rvp_init` runs `rvp_serializer_create` before thread 1 can put, so `Producer` is disabled until the header is fully written (`hdr = HdrLen`). `ConsumerIndexAdvancedBy` is `rvp_ring_consumer_index_advanced_by` (ring.h:245-261) and is checked against the slot that `UnreadFrom(consumer)` names. For the refinement, the unread queue (`Unread`) starts at `snap` between `FlushWrite` and `FlushStore`, because those words are already in the file.

- `Abstract == INSTANCE RingQueue WITH q <- Unread, sent <- written, ...` maps the ring onto the FIFO.
- `RefinesRingQueue` is checked as a temporal property.

`rvp_log2_nthreads` is `log2nthreads`, fixed in `Init` from the set `Log2NThreads`. `Milestones` evaluates the ggen test as C does (`GgenTest`): `nitems >= ggen_threshold` first, and only then the divisions by `ggen_threshold`. A division by zero would set `fault`; it cannot happen, since `nitems >= 0` already holds when the threshold is 0.

### IRing: the interruption ring
`IRing.tla` is the 8-slot `r_iring` of one ring.
- Producer: a returning signal handler. `PutInterruption` is `rvp_iring_await_one_empty`: with no free slot it requests service at `idepth > 0` (`rvp_wake_relay`, counted in `relayed`) and spins (`Spin`, `rvp_iring_wait_for_one_empty`). `Write` and `Publish` store the record and release `ir_producer`.
- Consumer: a harness, not the serializer. This repository's `serialize()` and `rvp_thread_flush_to_fd` never read `r_iring`. The harness starts a walk after a relay wake (`WakeByRelay`) or at any time (`WakeByOther`). `First`, `Walk` and `Drop` are `rvp_ring_first_interruption`, `rvp_ring_next_interruption` and `rvp_ring_drop_interruption`: it walks to the producer, then drops what it walked. The properties are about the helpers (the walk, the wrap, the FIFO), not about when a consumer runs, so the module has no fairness and no liveness property.
- `Abstract == INSTANCE RingQueue WITH q <- IUnread, out <- dropped, ...` with batches of one record; `RingQueue!DrainHead` is the drop of one record.

### Ggen: generations and COG events
`Ggen.tla` has two threads, each making loads and stores, and `rvp_ggen`.
- `Steps(k)` orders the three steps of an access: a store reads ggen before the access (`rvp_ggen_before_store`), a load after it (`rvp_ggen_after_load`).
- `EmitCog` is `rvp_buf_trace_cog`: a COG is put in the buffer only when the value read exceeds the ring's `r_lgen`.
- `Put` commits the buffer and the access event (`rvp_ring_put_buf`); the Ring module shows a ring keeps its order, so each thread's ring is its `stream`.
- `IncreaseGgen` is `rvp_increase_ggen`, at any time, as any ring's milestone may fire it.
- `at` records the instant of each access. `Stamp` is the generation a reader gives an event: that of the last COG before it.

### TraceDump: the legacy dumper
`TraceDump.tla` is `main` of `tracedump.c`, with byte counts only.
- `Init` covers the argument cases: usage, a failed open, and reading.
- `ReadChunk` is one turn of the read loop: a read returning `n` bytes, then the short-read `errx`, the return at end of input, or the printing of `n / sizeof(ev[0])` events.
- `ReadAmounts` is what `read(2)` may return: everything that fits for a regular file, any positive amount up to that for a pipe (`Pipe`).

### Recorder: registry, lifecycle and serializer together
`Recorder.tla` composes every thread of the program with the serializer.

Each thread record `x` has:
- `live`, `tid`, `handle`;
- its `ring`, a queue of words: the `Ring` module shows that the ring is such a queue;
- a program counter `tpc`, holding the step of the wrapper it is in;
- `pend`, the words of the event it is putting.

Each word is tagged with its thread, op, and its part and length within the event, so properties about events and markers can be stated.

Actions:

| Action | Code it models |
|---|---|
| `SerializerCreate` | `rvp_serializer_create`: once thread 0 has put BEGIN, the main thread flushes its own ring with no switch marker and starts the serializer |
| `SerializerCreateFails` | `rvp_trace_open` or the serializer's `pthread_create` fails: `err` |
| `CreateNoMem` | `rvp_thread_create` cannot `calloc` the ring or the record; `__rvpredict_pthread_create` returns `ENOMEM` with nothing attached |
| `CreateAttach` | `rvp_thread_create` and `rvp_thread_attach`: `++next_id`, errx on 0, push on the head |
| `Spawn` | a successful `pthread_create`: a free handle, the child's BEGIN from `__rvpredict_thread_wrapper`, the parent's FORK |
| `SpawnFails` | a failed `pthread_create` and `rvp_thread_destroy` |
| `Exit` | `__rvpredict_pthread_exit`: `pthread_exit` never returns |
| `JoinWait` | `pthread_join`; the handle becomes free |
| `Lookup` | `rvp_pthread_to_thread` (first match from the head, `err` on none), then JOIN |
| `Destroy` | `rvp_thread_destroy` |
| `PutWord`, `Spin`, `WakeTransmitter` | `rvp_ring_put` of one word, with the half-full service milestone (`CommitWord`) |
| `SerWake`, `SerFlush`, `SerEndPass` | `serialize()` step by step: the `nwake` wait, one `rvp_thread_flush_to_fd` per list element with `t != last_t`, and the `any_emptied` loop |

Modelling choices:
- `Init` is the state inside `rvp_init` after `rvp_thread0_create` attached the main record (id 1, `t_pthread = pthread_self()`): the file holds only the header (Ring models how it is written), `spc = "init"`, and the main thread is about to put BEGIN. It puts it through the same `PutWord`/`WakeTransmitter` steps as any thread, so the service request at the half-full milestone is made before a serializer exists. `thread_mutex` is free then (`MutexFree` holds for `spc = "init"`), and the `nwake` it leaves makes the serializer's first pass. With the model's 4-slot ring the 3-word BEGIN crosses the half-full mark. A real page-sized ring would not, so this start-up request is an artefact of the small ring, and no property is about it.
- The trace file is kept as a window: the last word before the latest write, then that write's words. `rtid` is the thread a reader attributes the first word of the window to. Every trace property is about one word and the words before it, so checking every window is checking the whole file.

### DeltaPC: the event encoding
`DeltaPC.tla` is one thread's word stream.
- `Init` is `rvp_ring_put_begin`.
- `PutPcAndOp` is `rvp_ring_put_pc_and_op`. Its `jmpvec` is the pointer difference narrowed to an `int` of `IntBits` bits (`JmpVec`).
- `VecAndOpToDeltop` is `rvp_vec_and_op_to_deltop`, with its pointer bounds test.
- `Replay` is the reader of spec.md 4.1: a recursive operator that rebuilds each event's pc from the words.

## 3. Runs

| Run | Checks | Result |
|---|---|---|
| `ring_safety` (MCRing.cfg) | `TypeOK`, `GgenOncePerLap`, `ConsumerIndexNamesUnread`, `RefinesRingQueue`, `FullRingDrains` | pass: `rvp_ring_consumer_index_advanced_by(n)` names the slot of the (n+1)-th unread word at every wrap; a short or failed `writev` never moves `r_consumer` past words that were not written, because the assert stops the process; commits that land between the `writev` and the store of `r_consumer` are neither skipped nor written twice, since the store uses the snapshot; every commit and flush is a FIFO step; ggen advances at least once per lap of the ring; with `rvp_log2_nthreads = 3` the ggen threshold is 0; a spinning producer always gets room |
| `ring_quiet` (MCRing_quiet.cfg) | `AllWordsWritten` | violation: the last words of a ring below half full are never written, since nothing requests service for them |
| `iring_safety` (MCIRing.cfg) | `TypeOK`, `WalkFollowsQueue`, `RefinesRingQueue` | pass: the interruption ring is a bounded FIFO, and the helpers' walk reads only published records, in order |
| `ggen_stamps` (MCGgen.cfg) | `LoadBeforeStoreStamped` | pass: a load stamped with a lower generation than a store of another thread happened before it |
| `tracedump_file` (MCTraceDump.cfg) | `SuccessOnlyWhenComplete`, `WholeInputDumped` | pass: reading a regular file, the dumper succeeds exactly on whole-event inputs and prints every event |
| `recorder_safety` (MCRecorder.cfg) | `TypeOK`, `DemuxByMarkers`, `TidsUnique`, `ListedRecordsLive` | pass: the reader attributes every word to the thread that put it; live threads have distinct ids, including at the id wrap; the list the serializer walks holds only allocated records, on the failed-`pthread_create` path as on join |
| `recorder_live` | `FullRingDrains` | pass: with creates and joins racing the serializer, a full ring is drained |
| `recorder_event_atomicity` | `EventsUnbroken` | violation: a switch marker lands inside an event, because events are put one word at a time and `last_t` starts at NULL every pass |
| `recorder_lost_at_join` | `NoLostWords` | violation: `rvp_thread_destroy` frees a ring that still holds unflushed words |
| `recorder_handle_reuse` | `FreedOnlyWhenReaped` | violation: join destroys a running thread that was given the joined thread's recycled handle |
| `deltapc_ilp32` | `TypeOK`, `PcsRecovered` | pass: when pointers and `int` have the same width, replay recovers every pc |
| `deltapc_lp64` | `PcsRecovered` | violation: when pointers are wider than `int`, a far jump aliases a short one |

Every property of a passing run has a mutant in `PROJECT.json`: a plausible bug in the code it covers that makes TLC report the property violated.

## 4. Bounds

**Ring**
- 8 slots (capacity 7); batch sizes {1, 3}; 20 words.
- With these bounds commits wrap the ring at every offset and the ring fills.
- A header of 3 write units, so it can be written in one, two or three `write(2)` calls.
- `rvp_log2_nthreads` is 0 or 3: a ggen threshold of 4, so milestones fall both inside and at the wrap, or of 0 (`8 >> 4`).

**Recorder safety**
- Three records, two pthread handles, 4 slots, a 2-bit id counter, 3 creates.
- The id counter wraps, so the `errx` path is reached.
- Join and create interleave with the serializer.
- SYMMETRY covers the two non-main records and the two handles. Both sets are interchangeable model values.

**Recorder, handle-reuse run**
- Four records, two creating threads, 8 slots, a 3-bit id counter.
- The constraint `SerializerStalled` keeps the serializer from making a pass (it is still started). This only removes flushes, which cannot make a handle free.
- It is used only in that run, which looks for a violation.

**Liveness runs**
- Smaller: two records and one handle.
- They use no symmetry.

**IRing**
- 8 slots, as `ir_items[8]`; 10 records, so the ring fills and wraps.

**Ggen**
- Two threads (symmetric), 2 accesses each, ggen up to 2. Every interleaving of the ggen reads, the accesses and two increases is covered.

**TraceDump**
- 3-byte events, a 2-event buffer, inputs of 0 to 20 bytes: several chunks, a last partial chunk, and inputs truncated inside an event.

**DeltaPC**
- Scales addresses down to 5 or 6 bits, with a table of 4 jumps by 2 ops.
- Three events, from every code address.
- The LP64 run keeps `int` narrower than a pointer, as on a 64-bit build.

## 5. Fairness

- Threads and the serializer are OS threads. Weak fairness is assumed on:
  - the ring put machinery of each thread (putting, spinning, waking);
  - finishing an event;
  - the rest of `rvp_init` in the main thread (`Startup`: `rvp_serializer_create`), which runs straight through;
  - the serializer.
- Creating, exiting and joining threads are the program's choice and carry no fairness.
- IRing: no fairness. Its consumer is a harness (section 2), so nothing in the code says when it runs.
- TraceDump: the read loop runs on; Ggen has no liveness property.
- In Ring, `Spin` has a step that leaves the state unchanged while the ring is full: the busy wait of `rvp_ring_wait_for_nempty`. A lost wake then shows as a violation of `FullRingDrains`, and `MCRing.cfg` still checks deadlock. Once the process has exited (`spc = "dead"`) nothing more can happen: `Exited` stutters, and the liveness properties accept a dead process as an outcome (`FullRingDrains` is `ppc = "spin" ~> (ppc = "copy" \/ spc = "dead")`).
- In Recorder, a thread spinning on a full ring has no successor, so `MCRecorder_live.cfg` and `MCRing_quiet.cfg` set `CHECK_DEADLOCK FALSE`. `MCRing_quiet.cfg` needs it because the thread stops putting once it has made its calls.

## 6. Not modelled, and the plan

Not modelled, and why:
- **Nesting of signal handlers deeper than one level**, and what the serializer does with each interruption record. `ring.c` and the signal wrappers are not in this repository.
- **COG state under signals.** `r_lgen` belongs to a ring, and a signal handler writes to its own interruptor ring, so `rvp_buf_trace_cog`'s unlocked test and update of `*lgenp` is not raced by a handler.
- **The header's contents.** Only the number of units written is modelled, not the bytes.
- **Printing in `tracedump.c`** (`printf`, `op_to_name`): formatting only.
- **`nbcompat.h`, `mkc_fparseln.h`, `intr.h`, `jet-clean.c`.** No code in this repository uses the `nbcompat.h` macros. `mkc_fparseln.h` and `intr.h` only declare things. `jet-clean.c` is an unrelated test tool.

Observed in the code and confirmed with TLC while modelling, but not kept as runs:
- A commit that wraps the ring has `next < prev` and never passes the ggen milestone at slot 0 (ring.h:305). spec.md 4.3 says ggen advances at every milestone; `GgenOncePerLap` checks the weaker promise that holds.
- `serialize()` resets `last_t` to NULL every pass (thread.c:110), so a pass may begin with a marker naming the thread that is already current.
- `__rvpredict_pthread_exit` calls `pthread_exit` before `rvp_trace_end()` (thread.c:316), so END is never put.
- `rvp_ggen_after_load` reads ggen after the load (ring.h:81). Two loads stamped g1 < g2 may therefore have happened in the other order, while spec.md 5 says such events are ordered. `LoadBeforeStoreStamped` checks what the code does guarantee.
- `tracedump` reads stdin by default, and a pipe may return part of an event. With `Pipe = TRUE`, `WholeInputDumped` fails on a well-formed trace (tracedump.c:80).

Observed but benign: the serializer keeps `thread_mutex` during `writev`, which spec.md 4.6 says it does not. This is what makes `rvp_thread_destroy`'s detach safe against a concurrent flush.

Plan for later sittings:
1. Recorder runs with `PtrWords = 2` and far PCs (`PcFar = {TRUE, FALSE}`).
2. Compose `IRing` with `Ring`: the handler's interruption record against the commits of the interrupted `put_multiple`.
3. Larger instances: three threads in Ggen, a 16-slot ring.
