# TLA+ models of MarketPulse

These are TLA+ models of the concurrent parts of MarketPulse's C++ core
(`src/src`), with the TLC configurations that check them. Each module is
translated from the source: every action stands for one handler, loop pass
or call, and `PROJECT.json` maps each definition to the lines it models.

## The system

MarketPulse is one process. `main_core.cpp` builds a `MarketDataCore`, which
wires these threads together through moodycamel concurrent queues:

1. **Mock feed.** The `MockFeed::run_loop` thread generates raw events. Each
   symbol has its own sequence counter. Events go to `feed_to_normalizer_`.
2. **Normalizer.** N worker threads take the events. Each resolves the symbol
   through `SymbolRegistry::get_or_add`, which reads under a shared lock, then
   takes a unique lock and looks again before inserting. The resulting frames
   go to `normalizer_to_publisher_`.
3. **Distribution thread.** It is created in the constructor. It takes frames,
   calls `PubServer::publish`, and enqueues each frame on
   `normalizer_to_recorder_`.
4. **Publisher.** `PubServer` runs:
   - an acceptor on the asio io threads;
   - one `ClientConnection` per TCP client, with a read callback for control
     messages (auth, subscribe, unsubscribe), a send queue fed by several
     threads, and a write thread;
   - a heartbeat thread, which reaps unauthenticated clients and sends
     heartbeats.
5. **Recorder.** One thread writes frames to segment files: a `.mdf` data file
   with a header and a `.idx` index file. It rolls to a new segment when the
   current one reaches `roll_bytes_`.
6. **Replayer.** Control calls (`start_session`, `pause_session`,
   `resume_session`, `seek_session`, `stop_session`) run alongside one playback
   thread per session. The playback thread reads a segment, paces frames with
   a token bucket, and publishes them.
7. **Control server and metrics.** The HTTP control server and the metrics
   (`LatencyHistogram`) run beside these.

## Modules

| Module | Models | State | Actions |
|---|---|---|---|
| `Publisher` | `publisher/pub_server.cpp` | per client: `running`, `authenticated`, `subscriptions`, the send queue as one FIFO per producing thread (`sendQueue[c][p]`), the writer's frame in flight, the ack a handler owes (`pendingAck`); `clients` (`clients_`); pending heartbeat and publish fan-outs; what reached the wire | `Accept`, `AuthOk`, `AuthBad`, `Subscribe`, `OtherOp`, `SendAck`, `ReadError`, `WriterDequeue`, `WriteOk`, `WriteClosed`, `WriteError`, `HeartbeatReap`, `HeartbeatSend`, `PublishStart`, `PublishTo` |
| `Recorder` | `recorder/recorder.cpp`; the enqueue in `main_core.cpp` | the input queue, `running_`, the open segment and its counters (`current_file_bytes_`, `current_frame_count_`, `frames_since_last_index_`), and the directory (segment name → data frames, index entries, header count, closed and failed flags) | `Enqueue`, `RecordFrame(ok)` (roll check, roll, then `write_frame`, which may succeed or fail), `Stop`, `Restart` |
| `Replayer` | `replay/replayer.cpp`; `decode_frame` (`common/frame.cpp`) | `sessions_` (`listed`), the callers of `start_session` and `stop_session`, the playback thread's program counter, `running`, `paused`, the chosen segment, range, cursor (a frame position, and whether it sits just past that frame's header), the header read (`hdr`), `prev_timestamp_ns`, the frames published (header and body positions) | `StartSpawn` (over any segment `FindFiles` can yield: the first file listed, whatever the timestamp), `StartInsert`, `SetPaused`, `Seek`, `StopSession`, `StopJoin`, `Lookup`, `LoopTop`, `ReadHeader` (`read_next_frame`'s header read), `Playback(paid)` (`CanPay`: `consume_tokens` with the bucket capped by `add_tokens`; body read, `decode_frame`, pacing, publish) |
| `Pipeline` | `main_core.cpp`, `normalize/normalizer.cpp`, `common/symbol_registry.cpp`, `feed/mock_feed.cpp` | core state and `running_`, the distribution thread, the feed and normalizer flags, the queues, the workers' events in hand, the registry and `next_id_`, the frames distributed | `CoreStart` (with `NormalizerStart`, `FeedStart`), `CoreStop` (`FeedStop`, `NormalizerStop`), `CoreStopped` (the joins of `Normalizer::stop` wait for each worker's event in hand, then `running_` is cleared), `DistExit`, `DistForward`, `FeedEmit` (any of the three generators: an event of type L1, L2 or Trade numbered by the symbol's one sequence counter, which starts at 1), `WorkerTake` (dequeue plus the shared-lock lookup), `WorkerRegister` (the unique-lock recheck and insert) |
| `Algorithms` | `TopicSubscription` and `PubServer::matches_topic` (`pub_server.cpp`); `LatencyHistogram::record` (`common/metrics.cpp`) | one input per state | none (each input is a state) |
| `SendChannel` | abstract: what one client connection promises (spec section 5) | `state`, `pending` (accepted, not written), `wire` | `Authenticate`, `Accept`, `Write`, `Close` |
| `SymbolTable` | abstract: an atomic `get_or_add` | `ids`, `issued` (the answers returned) | `GetOrAdd` |

Each module has an `MC*.tla` that gives TLC its constants, and one `.cfg` per
run.

## Refinements

Two abstract modules state what a component promises without its threads,
and the detailed modules are checked to implement them (`INSTANCE ... WITH`,
the abstract `Spec` as a `PROPERTY`):

- **`Publisher` implements `SendChannel` for every client**
  (`ChannelRefinement`, one instance `Channel(c)` per client).
  - `state` is "closed" once `running` is, and "open" while the client is
    running and authenticated.
  - `pending` is the data frame the writer holds (`InFlightData`), then the
    distributor's sub-queue. A closed client has nothing pending.
  - `wire` is `wireData`.
  - Heartbeats, acks, the writer's dequeue and dropped frames are stutter
    steps. `PublishTo`'s enqueue is `Accept`, a data `WriteOk` is `Write`.
  - The mapping shows the producer split of the moodycamel queue never
    reorders, loses or duplicates data frames.
- **`Pipeline`'s registry implements `SymbolTable`** (`RegistryRefinement`).
  - `ids` is `registry`. `issued` is the set of (symbol, id) pairs carried by
    the frames the workers emitted.
  - A shared-lock hit and the unique-lock path are both `GetOrAdd`; a miss is
    a stutter.
  - The mapping shows two workers racing on a new symbol still act as one
    atomic `get_or_add`.

How the models abstract the code:

- **Data.** A frame is a record of the fields the properties compare: a
  publish number, a timestamp, a size, a symbol and an id. Topics and patterns
  are short strings.
- **Queues.** A moodycamel queue is FIFO only per producer, so it is modelled
  as one sequence per producing thread.
- **Whole handlers.** An action models the whole handler. For example,
  `RecordFrame` includes the roll, the counter reset, the append, the index
  entry and the header rewrite.
- **Timing.** Time-based pacing is a nondeterministic choice (`paid`). It
  always fails when the gap costs more than the token cap.
- **Undefined behaviour.** The self-join in `ClientConnection::stop`, when
  called from the write thread, is modelled as the process aborting
  (`aborted`).

## Runs

| Run | Config | Expect | What it shows |
|---|---|---|---|
| publisher | `MCPublisher.cfg` | pass | `ChannelRefinement`: each connection implements `SendChannel`, so data frames reach the wire once each, in the order accepted, never after the close, although heartbeats and acks share the queue from other threads. `QueuedDataEventuallyWritten`: every data frame queued for an open client is eventually written. |
| publisher_reap | `MCPublisher_AuthenticatedStaysListed.cfg` | violation | The heartbeat reap removes a client that has connected but not yet authenticated. After authenticating, that client is never published to. |
| publisher_write_error | `MCPublisher_NoAbort.cfg` | violation | A write error makes the write thread join itself, and the process terminates. |
| publisher_ack | `MCPublisher_AckEnqueued.cfg` | violation | A 401 ack is dropped, because `send_frame` returns early for an unauthenticated client. |
| recorder | `MCRecorder.cfg` | pass | `IndexPointsAtFrames`: every index entry gives the offset and timestamp of a frame of its file, in increasing order. `HeaderCountOnClose`: a cleanly closed segment's header counts its frames. The checked paths include rolls, write failures, stop and restart. |
| recorder_name_collision | `MCRecorder_WrittenFramesKept.cfg` | violation | Two segments opened in the same second share a name, and the second truncates the first. |
| replayer | `MCReplayer.cfg` | pass | `PlaybackTerminates`: every playback thread ends unless paused, including across over-cap gaps, seeks backwards and a seek that lands between `read_next_frame`'s header and body reads, because a frame the token bucket cannot pay for is skipped, not retried. |
| replayer_start_race | `MCReplayer_ListedSessionPlays.cfg` | violation | The thread looks the session up before `start_session` has inserted it. The session stays listed but never plays. |
| replayer_range | `MCReplayer_ReplaysExactlyRange.cfg` | violation | A session publishes a frame from before `from_ts`. |
| pipeline | `MCPipeline.cfg` | pass | `RegistryRefinement`: the registry implements `SymbolTable`, so ids are dense, in order of first sight and never change, and every frame carries its symbol's id, even when two workers race on a new symbol. `EveryEventOnce`: every event the feed has numbered is in exactly one place (the feed queue, a worker's hand, a worker's output queue, or distributed), and no other (symbol, sequence) pair exists, so downstream consumers can name a frame by its symbol and sequence number. |
| pipeline_distribution | `MCPipeline_FramesDistributed.cfg` | violation | The distribution thread exits before `start()` sets `running_`, and frames are never published or recorded. |
| algorithms | `MCAlgorithms.cfg` | pass | `GlobNoFalseNegatives`: the regex conversion never misses a topic the spec's glob matches. `BucketSelectionAgrees`: `record()` chooses the reference bucket for every increasing bucket vector. |

`PROJECT.json` gives one mutant for each property of a passing run. A mutant
is a plausible bug in the mapped code, and TLC must find the property
violated under it. Examples:

- the queue-depth check off by one;
- the writer taking the newest frame;
- the index offset taken after the frame;
- no frame-count reset on a roll;
- a throttled frame being retried;
- the registry recheck left out;
- the trade generator numbering its event without the increment;
- `*` translated to a single-character wildcard;
- `<` in place of `<=` in bucket selection.

## Bounds

- **Publisher:**
  - One client, one io lane, a queue of 2 frames, 2 publishes and 2 control
    messages.
  - These bounds reach the full queue (so frames are dropped), the heartbeat
    interleaved with data, and every handler, about 54 000 states.
  - Two clients exceed 1.5 million states with liveness. Every property here
    is about one client's own state.
- **Recorder:**
  - 4 frames, timestamps of 0..3 ticks at 2 ticks per second, frame sizes 1
    and 2, and a roll at 3 bytes.
  - An index entry every 2 frames and a header rewrite every 2 frames, so
    rolls, index entries, header rewrites and name collisions all happen.
- **Replayer:**
  - One session id, two segments of 4 frames (one with a gap over the cap of
    3 ticks), and an index every 2 frames.
  - One seek, which can fall between a frame's header read and body read.
    The wrap is 1000 ticks, standing for 2^64.
  - Two session ids (limit 2) with two timestamps reach 1.1 million states
    in about 100 s. The sessions share nothing but the table, and every
    property is per session, so one id is kept.
- **Pipeline:**
  - Two symbols, two workers, 3 events of any of the three types (about
    66 000 states).
  - Both workers can miss the same new symbol, and the three events can
    be split between the workers in every order.
- **Algorithms:**
  - Topics over {a, b, .} and patterns over {a, ., *}, up to length 3.
  - Bucket vectors of up to 3 increasing bounds from 1..4, and latencies 0..5
    (beyond every bound, so the overflow bucket is reached).

## Fairness

- **Weak fairness** is given to the loops that poll without end and to an io
  callback once it has begun:
  - the write loop (`WriteOk`, `WriteClosed`);
  - the heartbeat thread;
  - the publish fan-out;
  - the recording thread;
  - the playback thread;
  - the workers;
  - the remainder of `start_session` and `stop_session`.
- **Strong fairness** is given to dequeuing from each producer's sub-queue,
  because the in-flight frame disables it between writes.
- **No fairness** is given to what peers and callers choose to do: connecting,
  sending messages, failing a write, pausing, seeking or stopping.
- **Deadlock checking** is off where the system really goes quiet:
  - once the bounded publishes or events are used up;
  - after the process aborts;
  - once the replayer's single session is finished.

  The recorder run checks deadlock: `Restart` always allows another step.

## Not modelled

- **Frame encoding and the CRC32 arithmetic.** Frames are abstract values.
  `decode_frame` is modelled by its outcome: whole frames decode, torn or
  short reads do not (a 32-bit CRC collision is not modelled).
- **The control server.** No HTTP acceptor is created and the WebSocket
  server is a stub, so its request handlers are unreachable. Its broadcast
  thread loops over an empty list.
- **Config loading.** Its values are the constants above.
- **The feed's rates, bursts and prices.** These are timing and data.
  `run_loop` emits its whole per-second rate on every pass of a loop that
  runs about 1000 times a second (`mock_feed.cpp:103-156` against the
  per-second rates of `mock_feed.hpp:50, 76-78`), so the feed emits about
  1000 times the configured rate. This is recorded as a finding without a run:
  a unit test that counts one pass shows it directly.
- **Percentiles.** `get_percentiles` is a sequential scan over the bucket
  counts, and its single-sample edge (target 0 reports the first bucket's
  bound) is a direct unit test. `MetricsCollector` takes its mutex around
  both `record_latency` and `get_latency_percentiles`, so `record` never
  runs during `get_percentiles`.
- **Glob false positives.** `GlobNoFalseNegatives` checks one direction only.
  The other direction fails: `.*` matches the empty string and `.` matches
  any character, against `spec.md:98`'s non-empty `*`. This is recorded as a
  finding without a run.
- **`MarketDataCore::run`, the io threads and `main`.** The spec puts the
  entry point out of scope. Its shutdown hang (`run` joins io threads that
  `io_context_.stop()` would end, and only `stop()`, after `run`, calls it)
  is listed as a hazard.
- **The `reserve()`-then-`data()` batch buffers.** This is undefined behaviour
  on object lifetimes, below the abstraction.
- **Unsubscribe.** The code only acknowledges it.
- **Topic strings.** `generate_topic` builds `<type>.<symbol>` from
  `SymbolRegistry::by_id`, whose `string_view` outlives the shared lock
  and can dangle when a worker's insert resizes `symbols_`. That is a read
  of freed memory, below the model's registry of values, and is listed as
  a hazard.
- **`fsync`, and a crash of the recording process.** The code only
  flushes. After a process abort, which stream's buffered bytes reached
  the disk depends on the byte sizes of buffers, frames and index entries,
  which the model abstracts; the resulting index entry that points past the
  data on disk is listed as a hazard.

`PROJECT.json` lists each hazard. A hazard no property covers has a note
saying why.

## Plan for later work

- **Session limit.** A Replayer run with two sessions and a reduced segment,
  to check the limit race in `start_session` (the check and the insert are
  under separate locks).
- **Shutdown.** `run`, `request_shutdown` and the io threads in `Pipeline`,
  with a liveness property that a shutdown request ends the process.
- **Composition.** Compose `Pipeline` with `Recorder`: the recorder's input
  would be the frames distributed.
