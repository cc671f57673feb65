# TLA+ models of rust-srec's danmu collection and archive compression

This directory holds TLA+ models of the danmu (live chat) collection
subsystem of rust-srec. It also holds the TLC configurations that check them.
Every definition is translated from the Rust sources named in
`PROJECT.json` ("map" gives the lines of each definition).

## The system

| Part | Source | What it does |
|---|---|---|
| Session collection coordinator (`DanmuService`) | `src/rust-srec/src/danmu/service.rs` | Keeps `collections` (session id -> `CollectionState`) and `sessions_by_streamer` (streamer id -> session id), both DashMaps. `start_collection` checks for a duplicate, inserts both entries, spawns a task and waits for the task's `ready` oneshot. The task connects (30 s timeout) and runs a `CollectionRunner` until it ends or its child cancel token fires. It then cleans up the registry and either persists the final statistics and broadcasts `CollectionStopped`, or hands the statistics to `stop_collection` over the `done` oneshot. `stop_collection` removes the entry, sends `Stop`, cancels, waits up to 10 s for `done` and persists and broadcasts. `shutdown` cancels the parent token and stops every registered session. |
| `CollectionHandle` | same file, 79-128 | `start_segment` / `end_segment` send commands over the task's mpsc channel (capacity 32). |
| `persist_statistics`, `saturating_u64_to_i64` | same file, 614-699 | Writes the final statistics to the session repository. |
| `StatisticsAggregator`, `TalkerHeavyHitters`, `WordHeavyHitters`, `CountMinSketch` | `src/crates/platforms/src/danmaku/statistics.rs` | Counts messages, bounded top talkers and top words (Space-Saving, with a Count-Min sketch for evicted words), and a per-bucket rate series with a retention cap. |
| `CompressionProcessor` | `src/rust-srec/src/pipeline/processors/compression.rs` | Archives outputs into a temporary file, honours cancellation, and renames the temporary file into place. |

How they interact: the coordinator's task owns the runner. The runner (not
in this repository) feeds an aggregator. The aggregator's `finalize` result
is what the task or `stop_collection` persists and broadcasts. The
coordinator's races decide whether it is persisted zero, one or two times.

## Modules

### `DanmuService` (with `MCDanmuService`)

Models `service.rs` lines 79-128 and 186-611 as a set of actors:

- `<<"c", i>>` is the i-th call of `start_collection`;
- `<<"t", i>>` is the task that call spawns;
- `<<"s", k>>` is a call of `stop_collection` (`k = 0` is the one `shutdown` makes);
- `<<"h", 1>>` is a holder of `CollectionHandle`s: it calls `get_handle`
  and then `start_segment` or `end_segment` on the handle (`MaxCmds`
  `get_handle` calls in all).

Each DashMap call (`contains_key`, `insert`, `remove`, `get`) is one atomic
step. Control between them is a `pc` label.

State and its counterpart in the code:

- `collections[s]` is the instance `i` whose `CollectionState` is registered
  under `s`, or 0 when there is none.
- `byStreamer` is `sessions_by_streamer`.
- `ready[i]`, `done[i]` and `result[i]` are the two oneshots and what
  `runner.run` returned.
- `cancelled[i]` and `globalCancel` are the child token and the service
  token. `Cancelled(i)` is their disjunction, which is what `child_token()`
  gives.
- `started[i]` and `stopped[i]` count the `CollectionStarted` broadcasts and
  the persist-plus-`CollectionStopped` side effects of instance `i`'s
  statistics.
- `drain` is shutdown's snapshot of the sessions it still has to stop.
- `held[a]` is the state an actor has removed and still holds. For the
  handle holder it is the instance whose `command_tx` clone it holds.
- `chan[i]` is the number of commands buffered in instance `i`'s command
  channel (capacity `ChanCap`; 32 in the code). `RxAlive(i)` says whether
  its receiver still exists: it is moved into the task, then into
  `runner.run`, and dropped when `run` returns or when the task returns on
  the connect error path (`DropRx` frees the buffer then).
- `cmds` counts the holder's `get_handle` calls.

Actions, one per step of the code:

- `start_collection`: `StartCheck`, `StartInsert`, `StartIndex`, then
  `StartReady` or `StartFailed`.
- The task: `Connect`, `ConnDone`, `RunnerExit` (environment), `RunDone`,
  `TaskPersist`.
- The shared registry cleanup: `CleanupRemove`, `CleanupGet`, `CleanupDel`.
  The code repeats it on every exit path: `collections.remove`, then the
  `should_remove` `get`, then `sessions_by_streamer.remove`.
- `stop_collection`: `StopCall`, `StopSend`, `StopWait` (Ok, Err or the
  timeout), `StopPersist`. `StopSend` is `send(Stop).await` followed by
  `cancel()`: on a full channel with a live receiver it suspends at
  `sSendWait` and cancels only after the send returns. The timeout of
  `StopWait` fires only while nothing was sent on `done`, because
  `tokio::time::timeout` polls the inner future first.
- The handle: `HandleGet` (`get_handle`: a sender clone, or `None`) and
  `HandleSend` (`start_segment` / `end_segment`: `Ok` once buffered, `Err`
  when the receiver is gone, suspended at `hSendWait` while the channel is
  full).
- The runner's command loop: `RunnerRecv` takes one command off the
  channel while `run` is running.
- `shutdown`: `ShutdownBegin`, `ShutdownNext`.

Two constants choose the environment:

- `Parallel = FALSE` models a `current_thread` runtime. An actor keeps the
  thread (`cpu`) from one `.await` to the next, so the synchronous segments of
  the code are atomic.
- `Parallel = TRUE` models the `multi_thread` runtime. Any step may interleave
  with any other.
- `ReuseSessions` says whether a later `start_collection` may use a session
  id that an earlier one used. Nothing in `service.rs` prevents that once
  the earlier entry is removed.

The runner is the environment. Connect succeeds or fails. `run` may return
`Ok` or `Err` at any time, and must return once its token is cancelled.

### Properties

- `TypeOK`.
- `NoOrphan`: a live, uncancelled task is registered under its session or is
  held by a stop in progress. Otherwise nothing can ever stop it.
- `AtMostOneStopped`: one instance's statistics are persisted and broadcast at
  most once, whether by the task, by `stop_collection` or by both. This is
  spec section 8.
- `ReverseNoStale`: every `sessions_by_streamer` entry names a registered
  session of that streamer, apart from the one an actor is about to remove.
  It is checked only where it can fail, on multi_thread
  (`coord_reverse_stale`). On current_thread it follows from
  `RegistryAtomic`: the abstract registry keeps it as an inductive
  invariant, and `AbsEntry` maps that invariant onto this one.
- `ReverseNeverClobbered` (action): an entry of `sessions_by_streamer` is
  removed only by the cleanup of the session it names.
- `DuplicateStartRejected` (action): a registered `CollectionState` is
  replaced only by removing it, never by a second insert.
- `RegistryAtomic` (refinement): the registry implements the abstract
  specification `Registry` (below). Under the mapping, every step of the
  coordinator is a whole registration, a whole removal, or leaves both maps
  unchanged. On current_thread this implies `ReverseNeverClobbered` and
  `DuplicateStartRejected`, so `coord_single` checks it in their place.
- `Quiescence` (liveness): after `shutdown`, eventually no task is live and
  both maps are empty.
- `SendsReturn` (liveness): every `command_tx.send(..).await`, the `Stop` of
  `stop_collection` (line 536) or a handle's segment command, eventually
  returns. A send can block before `cancel()` when the channel is full, for
  example while the task is still connecting and nothing drains it; it
  returns because the receiver is dropped when connect fails or `run`
  returns, or because the runner drains the channel.

### Runs

All runs use 2 session ids, 1 streamer (so that the reverse index is
shared), 2 `start_collection` calls and shutdown. The runs other than
`coord_single` add 1 user `stop_collection` caller and no handle holder
(`MaxCmds = 0`). These bounds are enough for every race above, which needs
two starts, or one start and one stop. A second streamer adds no new
interleaving of a single streamer's entries.

`coord_single` replaces the user stop with one handle holder
(`MaxCmds = 1`). There, shutdown's stop is the stopper. Every
reverse-index race it checks needs only a start and some remover. With both
a user stop and the handle, the state space grows about sixfold, past what
the liveness check can do in time. `ChanCap = 1` stands for the capacity of
32. What matters is whether the channel is full, and one buffered command
fills it, so a send can block.

| Run | Runtime | Reuse | Checks | Expect |
|---|---|---|---|---|
| `coord_single` | current_thread | yes | TypeOK, RegistryAtomic, Quiescence, SendsReturn | pass |
| `coord_parallel` | multi_thread | no | NoOrphan, AtMostOneStopped | pass |
| `coord_dup_start_race` | multi_thread | yes | DuplicateStartRejected | violation |
| `coord_reverse_clobber` | multi_thread | no | ReverseNeverClobbered | violation |
| `coord_reverse_stale` | multi_thread | no | ReverseNoStale | violation |
| `coord_stopped_twice` | current_thread | yes | AtMostOneStopped | violation |

What the violations show (details in `PROJECT.json` "findings"):

- On a multi_thread runtime, the check-then-act guards are not atomic:
  - `contains_key` then `insert` (service.rs:250/344);
  - `get` then `remove` on the reverse index (439-444);
  - the two inserts of `start_collection` (344-345).
- With a reused session id, the old task's cleanup removes the new entry,
  and the old statistics are persisted and broadcast twice (438, 545). This
  happens even on a current_thread runtime and without any timeout.

`NoOrphan` and `AtMostOneStopped` are checked on the multi_thread runtime
(`coord_parallel`), whose behaviours include every current_thread
interleaving. They are not checked in `coord_single`, because with reuse
`AtMostOneStopped` fails (`coord_stopped_twice`). An earlier run showed that
`CollectionStarted` can follow `CollectionStopped` for the same session
(line 463). The spec does not say which order these events come in, so
that run was retired. The hazard is still listed in `PROJECT.json`.

Symmetry over session ids is used only in the safety-only run
(`coord_parallel`). The liveness run `coord_single` has no symmetry.

### Fairness

Every actor has weak fairness on its own steps. The code justifies this:
an actor holding the thread runs a finite synchronous segment and releases it
at its next `.await`, and a woken future is eventually polled by tokio.
`RunnerExit` is weakly fair only once its instance is cancelled. A runner that
is not cancelled may run forever, as a live stream does. `RunnerRecv` is
weakly fair: a running runner's command loop keeps receiving, which is what
the spec asks of it ("run the command loop until commanded to stop"). The
loop of `shutdown` is weakly fair. The handle holder's `HandleGet` and its
first `HandleSend` are calls a caller need not make. Only a send that is
already suspended is fair.

### `Registry` (abstract specification of the registry)

What `collections` and `sessions_by_streamer` promise to their users, with no
tasks, channels or tokens. `reg[s]` is the instance and streamer of the
`CollectionState` registered under `s`, or `Free`. `rev` is the reverse
index. There are two actions:

- `Register(s, i, x)`: the session is free. It gets the state, and the
  streamer's reverse entry points at it (service.rs 343-345).
- `Unregister(s)`: the session's state is removed. The reverse entry is
  cleared only when it still names `s` (the cleanup at 520-533 and its copies
  on the other exit paths).

`DanmuService` maps onto it with `AbsEntry`. A session's abstract entry is
the state that a remover at its `get` / `remove` of the reverse index still
holds. Otherwise it is the registered instance once its `start_collection`
has passed the reverse insert. Otherwise it is `Free`. So the two inserts of
`start_collection` count as one registration, and the three steps of a
cleanup count as one removal. `rev` is `byStreamer` unchanged.

On current_thread, `RegistryAtomic == Reg!Spec` holds (`coord_single`). On
multi_thread, the same interleavings that violate `DuplicateStartRejected`
and `ReverseNeverClobbered` also break the refinement. The mutant that drops
the reverse insert of `start_collection` breaks it on current_thread as well.

### `HeavyHitters` (with `MCHeavyHitters`)

Models the Space-Saving tables of `statistics.rs`:

- `TalkerHeavyHitters` is the table with `UseSketch = FALSE`.
- `WordHeavyHitters` with its `CountMinSketch` is the table with
  `UseSketch = TRUE`.

The model's state and operators:

- A table is a function from keys to `[count, error]`. A count of 0 means
  the key is not in the `HashMap`.
- The sketch is a function from rows to cells to counters.
- `Increment(h, k)` is `increment`, as the set of its possible results:
  1. the sketch is incremented first;
  2. then comes a hit, or an insert while `len() < capacity`, or the
     eviction of a minimum entry.
- The evicted entry is any entry of minimum count. `min_by_key` returns
  whichever one the `HashMap` iterates to first.
- On eviction, the new entry gets `max(min + 1, estimate)` (`Lift`) and
  `error = min` (`Entry`).
- `Score` and `TopN` are `score`, `compare_entries` and
  `top_n`/`into_top_n`. They sort with `SetToSortSeq` and truncate.
- The row hashes (`hash_with_seed`, `DefaultHasher` with fixed keys) are
  fixed for a build but unknown. `Init` chooses them freely, so every pattern
  of collisions is explored.
- `truth` is a ghost variable holding each key's true count.

Properties:

- `NeverUnderCount`: a tracked count is at least the true count. Once the
  table is full, an untracked key was seen at most as often as the minimum.
- `OverCountBounded`: `count - error <= true count`.
- `HeavyKeysTracked`: a key with more than `Messages / Capacity` of the
  stream is tracked.
- `TopNSound`: `top_n` reports no key below its true count, and leaves out
  no key truly seen more often than its last entry.

Runs:

- `hh_talker`: 4 keys, capacity 3, 8 increments, `top_n(2)`. Passes. The
  bounds are enough for repeated evictions with ties among minimum entries.
- `hh_word_heavy_lost`: 3 keys, capacity 2, a 2x2 sketch. `HeavyKeysTracked`
  is violated.
  - Trace: all three words share cells in both rows. Word 1 is seen four
    times, and word 2 once, into the free slot, with count 1. Word 3 evicts
    word 2 and enters with the estimate 6. Word 2 comes back, evicts word 1
    (count 4, now the minimum) and enters with the estimate 7.
  - So word 1, which is half of the stream, is lost.
  - The real sketch is at least 256 x 4, but collisions in every row are
    certain once a chat has thousands of distinct words.
  - The same lift also breaks `OverCountBounded`.

### `DanmuStatistics` (with `MCDanmuStatistics`)

Models `StatisticsAggregator`. It instantiates `HeavyHitters` twice: `T`, the
talker table, and `W`, the word table with the sketch.

Actions:

- `RecordMessage(user, gift, tokens, ts)` is the whole `record_message`:
  - start time, counters and the talker increment;
  - `ProcessWords` folds the word increments over the surviving tokens, in
    order;
  - `UpdateRateBucket`: same bucket, or push and trim plus a new bucket, or
    the first bucket.
- `Finalize(e)` consumes the aggregator.
- `Checkpoint(e)` is a fresh aggregator plus the finalized old one.
- `Reset` is a fresh aggregator.
- `current_stats` changes nothing, so it is the operator `CurrentRate`.

Abstractions:

- Content is given as its tokens after splitting and lowercasing. A
  stop-word or short token is a token of `StopTokens`.
- The capacity factors and the retention cap of `with_config` are scaled
  down to constants.
- `Init` fixes the smallest word's cell in each row. Cells are
  interchangeable within a row, so this loses no collision pattern.

Properties:

- `RateSeriesExact`: each point of the series counts exactly the messages of
  its bucket. A bucket with messages is in the series or older than all
  retained points. The closed buckets kept are exactly the latest
  `min(max_rate_points, closed)`: the cap drops the oldest and no more than
  it must. The open bucket that `finalize` appends untrimmed is one more,
  as the spec allows.
- `WordCountsSound`: `NeverUnderCount` and `TopNSound` of the word table,
  fed by multi-token messages.
- `RateOrdered`: the series is in time order.

Timestamps are the caller's. `Monotonic = TRUE` restricts them to never go
back.

Runs:

- `stats_aggregator` (monotonic timestamps; 2 users, 2 words and a stop
  token, up to 2 tokens per message, buckets of 2 s at times {0, 2, 4},
  retention 1, 3 messages over all checkpoints) passes. It has 465k states.
  Three buckets with a cap of 1 make the trim happen.
- `stats_rate_disorder`: a message at time 0 after one at time 2 puts the
  series out of order. The spec states the order as an invariant of the
  aggregator.

### `Compression` (with `MCCompression`)

Models `CompressionProcessor::process` in `compression.rs`. Several jobs
archive their inputs into the same output path.

Each job has two actors:
- the async `process()` (`pc`): `Begin` covers validation, the
  `try_exists` / overwrite check and the spawn, and `AwaitWorker` covers the
  await, the disarm and the result;
- the `spawn_blocking` closure (`wpc`), with these steps:
  - `WorkerStart`: the TmpFileGuard and the first cancel check;
  - `CreateArchive`: `File::create` and the metadata loop;
  - `OpenEntry`: the per-entry cancel check and open;
  - `CopyEntry`: `start_file` and `io::copy` through `CancelProgressReader`;
  - `Finish`;
  - `CheckCancelled`: the cancel check before the rename;
  - `Rename`, `RemoveExisting` and `RenameAgain`: the rename and its
    fallback.

Every Err return goes through `Fail`, which is the guard's drop and removes
the temporary file.

The job queue that calls `process()` is not in this repository, so it is the
environment. It may:
- cancel a job's token (`CancelJob`);
- drop a job's future while it awaits (`DropFuture`, which fires
  `CancelOnDrop`);
- delete inputs (`DeleteInput`, standing for other pipeline steps).

Every file-system call may fail. Zip and tar.gz have the same control flow,
so one set of steps stands for both. The map names the zip function.

A cancelled `CancelProgressReader::read` returns `ErrorKind::Interrupted`.
`std::io::copy` retries that error, so `CopyEntry` on a cancelled job makes
no progress at all.

Properties:
- `NoTmpLeak`: a worker that has returned leaves no temporary file, on every
  Err path, including a failing second rename.
- `OutputComplete`: the output path only ever holds an archive into which
  every input was copied.
- `ResultTruthful`: `process()` returns Ok only when its archive was renamed
  into place. A job that returned Err never has its archive at the output
  path.
- `WorkerFinishes` (liveness): every spawned worker eventually returns.

Fairness: the blocking pool runs every spawned closure, and tokio polls a
woken future. So `Worker(j)` and `AwaitWorker(j)` are weakly fair. The
environment's actions are not.

| Run | Bounds | Checks | Expect |
|---|---|---|---|
| `compress_jobs` | 2 jobs, 2 inputs each, job symmetry | TypeOK, NoTmpLeak, OutputComplete, ResultTruthful | pass |
| `compress_cancel_hang` | 1 job, 2 inputs | WorkerFinishes | violation |

Why these bounds are enough:
- Two jobs make the rename race, and a remove-then-rename fallback between
  another job's check and rename.
- Two inputs make the loop's second cancel check and a deletion between the
  metadata loop and `open` reachable.
- The output path starts empty or holding an older archive, and the
  overwrite flags take every value.

`compress_cancel_hang` shows a bug (finding in `PROJECT.json`). When a job is
cancelled, or its future dropped, while an entry is being copied, the
blocking thread spins forever and keeps its temporary file.

Two further hazards are reachable in this model but have no run, because
the run budget went to the hang:
- With overwrite disabled, a second job can rename into the path between the
  first job's `try_exists` and its rename, and the first job replaces that
  archive.
- The fallback's `remove_file` can succeed and the second rename fail,
  leaving no archive at all.

`PROJECT.json` lists both as hazards with notes.

## Not modelled (yet)

- What a segment command does inside the runner. The runner is not in
  this repository. `DanmuService` models only the channel. A command sent
  while the task is connecting is accepted, and is dropped if the connect
  fails (see the hazard at service.rs:96).
- The broadcast channel's lag (256 entries). Subscribers are not modelled.
- The serialisation inside `persist_statistics`, which is formatting, and
  `saturating_u64_to_i64`. The statistics' values are not part of
  `DanmuService`'s state, so the clamp at `i64::MAX` has nothing to act
  on there, and no count reaches 2^63 within any bound.
- Which instance's statistics the session row keeps when a session id is
  reused: `persist_statistics` is an upsert by session id, and the spec does
  not say which one should win (see the hazard at service.rs:689).
- The talker's `username` side value, and saturation of the `u64`
  counters: no counter can reach 2^64 within any bound.
- In `CompressionProcessor`: the bytes of the archives, progress reports,
  sizes and the compression ratio. No property depends on them.
- `CollectionRunner`, `DanmuSampler` and `ProviderRegistry` are not in this
  repository. They appear only as the environment of `DanmuService`.
