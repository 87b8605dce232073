# Tachyon: a TLA+ model of the download manager

This directory specifies and verifies Tachyon (`ai-model-downloader`):
TLA+ modules translated from the Rust sources, TLC configurations that check them on small
instances, and theorems that the TLA+ proof system checks for every instance. Paths below are
relative to the repository; `PROJECT.json` maps every definition to the lines it stands for.

    tlc -config TaskLifecycle_single.cfg TaskLifecycle
    tlc -config Services.cfg MCServices
    tlapm TaskLifecycle_proofs.tla

## 1. The system

| Part | State | Operations | Hard behaviour |
|:--|:--|:--|:--|
| task lifecycle, `tachyon-app/src/commands/{mod,task_commands}.rs` | `AppState`: `tasks`, `controls`, `handles`, `create_task_lock`; per task a copy of the table, a watch channel, a background `task_fn` | create, pause, resume, cancel, delete; `task_fn`; the chunk reader; `cleanup_runtime`; `load_recovered_tasks` | commands, task_fn and reader interleave at every await and between every two map accesses; two tables of rows; crash and restart |
| snapshots, `tachyon-app/src/task_store.rs`, `tachyon-store` | one JSON file per task | save (temporary file and rename), load, recover | unlocked read-modify-write by up to four writers; crash between any two steps |
| download engine, `tachyon-engine/src/{downloader,fragment}.rs` | phase, fragment records, `JoinSet`, semaphore, control receiver | `run`: probe, init, plan, prepare, execute, verify | concurrent fragment tasks with retries; pause, cancel and closed channels in any phase; abort of the others on a failure |
| circuit breaker, `circuit_breaker.rs` | failure count, opening time, probe flag | allow, record_success, record_failure | shared by all fragments; half-open |
| connection pool, `connection.rs` | a global semaphore, a map of host semaphores | acquire, release, cleanup_idle_hosts | permits held while waiting, cleanup racing acquire |
| fragment planner, `orchestrator.rs` | none | plan_fragments, plan_batches | boundaries and overflow |
| mirrors, `mirror.rs` | the source the probe selected | probe, download with its races | answers, errors and the time limit in any order; aborts |
| I/O, `tachyon-io`, `storage_adapter.rs` | buffer pool, write pipeline, io_uring, completion port, blocking threads | alloc, release, write, write_batch, sync | limits, short writes, completions out of order, dropped futures |
| scheduler, `tachyon-scheduler` | a heap with an index; bandwidth samples | push, pop, update, remove; observe, recommend | entries that are stale; floating point |
| rate limiter, `tachyon-core/src/rate_limit.rs` | three atomics | acquire, update_rate | no lock ties them together |
| configuration, `config_commands.rs`, `core/src/config.rs`, the settings panel | the configuration behind a mutex; the panel's copy | get, update, authorize_download_dir | the disk changes meanwhile; limits of numbers |
| progress and the window, `task_commands.rs`, `progress_commands.rs`, the stores of the frontend | bytes per fragment, one watch channel, list and history | report, subscribe, merge | events that overwrite each other, replies that overtake events |
| sniffer, `sniffer_commands.rs`, `tachyon-sniffer` | filters and a bounded list, each behind a lock | capture, filter, clear | two locks, one after the other |
| names and URLs, `filename.rs`, `url_safety.rs` | none | sanitize, validate, redact, resolve | what is checked is not what is used |
| protocols, `tachyon-protocol` (HTTP, FTP, QUIC) | connections, a session cache | probe, range and full streams | overlapping calls, dropped streams, statuses and dates |
| P2SP, `tachyon-p2sp` | sources with scores; buckets with caches; the table of RPCs | choose; insert, remove, evict, refresh; send, receive, lookup | lost, doubled and late datagrams, counters at their limits |
| hashing, `tachyon-crypto` | buffers kept from call to call | compute_blake3 | reuse of buffers, the shape of the tree |
| model hub, `tachyon-hub`, `hub_commands.rs` | none | list, link, rewrite | the environment decides |

How they interact. A command runs on the shared `AppState`. `create_task_inner` inserts the row,
saves a snapshot, copies the table into a second `AppState`, registers a watch channel and spawns
`task_fn`, which holds until its handle is stored. Commands then talk to `task_fn` through the
watch channel only. `task_fn` probes, saves another snapshot, starts the chunk reader and calls
`DownloadTask::run`, whose fragment tasks report through an mpsc channel to the chunk reader, which
saves a checkpoint for each fragment that is complete. All of them write the same snapshot file,
and the next start of the program reads it.

What makes each part correct:

* lifecycle: a URL has one unfinished task; a cancel ends the download; nothing of a task is left
  in the runtime tables when its task_fn has returned; the row tells what the download does;
* snapshots: they name no fragment that is not in the file, and Completed only for a complete file;
  what a restart brings back is what was unfinished;
* engine: Ok means that every byte of every fragment was written and nothing changes it; after an
  error nothing begins to write (a blocking thread whose future was dropped may still end its write);
  a run ends; an error that cannot be retried is reported at once;
* breaker and pool: limits hold and nobody waits for ever;
* storage: memory the kernel works on is held, a write that is reported is in the file, permits and
  buffers balance, a snapshot is read whole, progress that was acknowledged stays;
* protocols and DHT: a call is given its own answer, and ends where it has a time limit; no connection
  and no node is lost;
* what is computed (a plan, a digest, a name, a date, a random id, the limits of a configuration) is
  what its definition says.

The hazards are listed, each at its line, in `PROJECT.json`; those with a note are not, or not
wholly, covered.

## 2. The modules

| Module | Role |
|:--|:--|
| `TaskRegistry` | abstract: a registry in which an unfinished task claims its URL in one step |
| `TaskLifecycle` | commands, task_fn, chunk reader, snapshots, crash and restart; at its end the symmetry and the state constraint of the two-task run |
| `TaskLifecycle_proofs` | the theorems about `TaskLifecycle` |
| `DownloadRun` | abstract: what `run` promises its caller |
| `DownloadTask` | `DownloadTask::run` with its fragment tasks, and the record of the circuit breaker they ask; refines `DownloadRun` |
| `DownloadTask_proofs` | the theorems about `DownloadTask`, the refinement among them |
| `MCStorage` | composes the storage components for TLC |
| `SnapshotStore`, `StoreKeys`, `TaskRecords` | `FileStore` step by step with crashes; its keys beside those of `MemoryStore`; the two interfaces of `RecoveryManager` to one file |
| `BufferPool`, `WritePipeline` | the atomics of the buffer pool; sorting, merging and permits of a batch |
| `IoUring`, `Iocp`, `FileBackend` | the Linux ring, the Windows completion port, blocking threads with the choice of a back end and the write loops of the engine |
| `MCServices` | composes the other components for TLC |
| `ConnectionPool` | acquire, cleanup_idle_hosts and release of the pool all downloads share |
| `MirrorSources`, `RateLimiter`, `FragmentPlan` | the races of the mirrors; the token bucket; how a file is cut and its records move |
| `TaskQueue`, `PriorityQueue` | the heap with stale entries, and the abstract queue it implements |
| `IoUring_proofs`, `SnapshotStore_proofs` | what is proved about these two modules by themselves |
| `MCStorage_proofs`, `MCServices_proofs`, `MCServices_grants_proofs` | the theorems about the two compositions, and the lemmas about the parts they are made of; the last one has the pool, the rate limiter, the configuration, the meters, the plan of the fragments and the weights of sources |
| `DataLemmas` | lemmas about numbers, sequences, sums and the folds of the community modules, and the induction they rest on |
| `HttpExchange`, `FtpSession`, `QuicTransport` | one request with its redirects; sessions whose calls overlap; connections, the sender and the session cache |
| `RoutingTable`, `BucketRefresh`, `DhtTransport`, `DhtSigning`, `DhtLookup`, `PeerSources` | the DHT from its buckets to its lookups, and the choice of a source |
| `Hashing` | the tree of BLAKE3 as the GPU path builds it |
| `ProgressMeter`, `TaskView` | numbers that are summed up in passing; what the window knows |
| `Configuration`, `ConfigLimits`, `FileNames`, `TaskUrls`, `Sniffer`, `ModelHub` | the desktop's other commands |

Each module of the last rows opens with a comment that says what its state stands for. The sections
below explain the choices that do not show there.

### TaskLifecycle

`tasks` is the DashMap the commands see. `AppState.tasks` is a `DashMap` and not an
`Arc<DashMap>`, and `create_task_inner` writes `tasks: state.tasks.clone()`: DashMap's `Clone`
copies the shards, so from then on `task_fn` reads and writes a table of its own. `private[t]` is
the entry of `t` in it (the entries of other tasks are never used by this task_fn). All the other
fields of `AppState` are `Arc`s or handles that are shared, and so are the variables `control`,
`signal`, `handles`, `snapshot` and `createLock`.

An action is the code between two points at which another thread can come in: an `.await` or the
release of a DashMap guard or of a mutex. `create_task_inner` is therefore eight actions, each
other command one (row and signal change under the guard of the row) followed by the three of
`persist_task_snapshot`: read the row, load the snapshot, save. `saver` holds what a persist has
read so far; a command slot (`Commands`) is one command handler in flight. task_fn's own last
persist uses the row of `private`. `DeleteTask` removes the three entries in one step: nothing
that is modelled happens between the removals except the inserts of a create that is still
running, and those are ordered against the whole delete.

The row and the snapshot are reduced to the status and the set of completed fragments. The status
Connecting, Resuming and Verifying never occur in the table. `written` is the set of fragments
that are complete in the file; module `DownloadTask` has the steps of `run` that are one action
`WorkerWrites` here. `CrashAndRecover` is a crash at any point and the start that follows it:
memory is gone, the disk stays, `load_recovered_tasks` fills the table. `written` survives because
a power failure is not meant, only the end of the process.

Left out: progress numbers, file names and sizes, the validation of URLs and directories (a create
that is refused changes nothing), snapshots that fail to be written or read, the
`max_concurrent_fragments == 0` arm of create (the configuration commands reject that value), and
the injection of completed fragments into a new `DownloadTask` (task_fn runs only for a task just
created, whose snapshot has none; `DownloadTask` does start from any set of them).

### DownloadTask

`phase` follows `run_inner`; `task[f]` is where the tokio task of a fragment stands: at the breaker
(`gate`), at the semaphore (`permit`), inside `download_single_fragment` with the permit
(`control`, `pool`, `connect`, `stream`, `announce`), sleeping between attempts, returned, or
gone. A control signal and the closing of its channel come at any time; each `select!` arm is a
disjunct that competes with the arm it races, and `wait_control_rx` lets a step through only for a
signal that lets it through. A cancel is final, because the resume command requires a paused row.
The network and the storage may answer with an error, retryable or not, wherever they are asked.
A stream has `Chunks` chunks and an attempt starts again from the first; the last batch is flushed
after the last look at the signal, as in the code. When a fragment fails, the others are aborted,
each at some later step, and may do more until then. An abort or an interrupt drops the future of a
write, and not the blocking thread that is at it (`spawn_blocking` in `tokio_file.rs`): `detached` has the
fragments whose last batch is with such a thread, which ends its write at any time, also after `run` has
returned (`DetachedWriteEnds`). `Whole` is `fragments.first_mut()` of a full
download. The breaker's clock is one bit, whether
`open_duration` has passed.

Left out: the rate limiter (it delays), metrics and scheduler feedback, byte offsets and the length
checks (a stream that is too short or too long is one that fails), a file of size 0 or of unknown
size, a panic of a fragment task, `max_concurrent_fragments == 0`.

`Run` in `DownloadTask` maps its state to `DownloadRun`, which is what `TaskLifecycle` assumes of
`run`: fragments become complete while it runs, Ok means all of them, and `loose` are the writes nobody
waits for, the image of `detached`.

### ConnectionPool

A caller is a fragment task; `pc` is where it stands. `acquire` is a step per access to something
shared: the global semaphore, the lookup in `map`, the entry call when the lookup found nothing (it
looks again under the lock of the shard), the semaphore of the host, the counter. `sem` is the `Arc`
a caller has cloned: a semaphore lives as long as the map or a caller refers to it, so `Unused`
gives a new one an identity nobody refers to. `cleanup_idle_hosts` visits one host per step, as
`retain` locks one shard after the other, while others go on. A permit is released in the order of
`drop` and then its fields. A caller can be aborted where it waits; a permit it had been granted by
then goes back with the future.

Left out: closed semaphores (the code never closes one), the observers, hosts no caller asks for. An idle host stays in the real map, whose threshold is `max(64, 2 * max_global)`;
`Threshold` is what is left of that when the other hosts are idle. A free permit may be taken by any
waiter, where tokio gives it to the first: more behaviours than the code has. The number of requests
is bounded (`MaxRequests`), so that nobody is overtaken for ever.

### The components side by side

`MCStorage` and `MCServices` hold the variables of all their components and one more, `part`, that
names the component of this behaviour. The initial states fix `part` and put the other components
into one initial state; a step of a component leaves all other variables alone. So the states of a
run are the sum of those of its parts and not their product, a property can be broken only by the
part it is about, and one run checks what would be twenty-five. Nothing is lost by it: these
components share no state with each other. Where two do interact, one module has both: the heap and
its index, the store and its two interfaces, the file and the threads that write it, the window and
the monitor. Small bounds of a part are constants with the part's own names.

### Storage

`IoUring`: an operation holds the mutex of the ring from its start to the completion it
takes; the kernel completes what was submitted in any order; `submit_and_wait` may be interrupted
(`MaxInterrupts`). A read or write asks `alloc_buffer_index` for a fixed buffer first, which finds the lowest
bit that is set where it should be one that is clear: with fewer buffers than bits the index is the number of
the buffers, and `buffers[buf_idx]` panics; otherwise the buffers are exhausted. `UseBuffer` has both outcomes of
a panic, a poisoned mutex and the end of the process (`panic = "abort"` in a release build). So only syncs ever
have an entry in the ring, and the model has reads and writes fail as those of the code do. `Iocp`: the registry owns the memory of a write until its packet is matched; the
cancel guard and the drop of the storage are actions beside the poller's. `FileBackend`: `place` and
`job` are the blocking thread of a writer, which goes on when the future is dropped; a write may be
short or fail; with `IoUring` and `O_DIRECT` it is whole sectors. `disk` is what the page cache
holds, `durable` what survives a power failure. `SnapshotStore`: write, rename, remove and the
reads without a lock are steps of their own, and the process crashes between any two. `BufferPool`
and `WritePipeline` have a step per atomic access and per permit.

### Network

`RateLimiter` has a step per load and store of an atomic. `DhtTransport` keeps the datagrams on
their way in a set, from which they are received, received again or never; request ids count up on
both sides from 1, as in the code. A request carries the `sender_id` it names, which nothing ties to the node
that has sent it, since a message without a signature is processed like any other; so a Store is kept when the
node it names is known, whoever has sent it. `DhtLookup` lets a node be gone or tell of anything in `Tells`.
`RoutingTable`, `BucketRefresh` and `DhtLookup` take an id for the set of its one bits, so that XOR
is the symmetric difference. In `DhtSigning` a signature is the pair of the signer and the message
with its signature field cleared. `FtpSession` names a connection by the call that opened it,
`QuicTransport` by the number of its connect. `HttpExchange` computes the date of a Retry-After as
`days_from_epoch` does, beside a plain count of days. The property is about dates since 1970: of an earlier one
`days as u64` makes a huge number, which is then a wait of the longest kind (`downloader.rs:851` caps it at 1024
seconds), where the comment would have `Some(0)`; no server sends one.

### Computations

`Hashing` represents a chaining value by the set of the nodes below it, so two digests are equal when
their trees are. What the shader writes for a chunk is data here, and not the chaining value of BLAKE3: the
shader takes the first word of the data for `total_words` (`gpu.rs:705`) and a zero for `total_chunks` (707), and
counts bytes where BLAKE3 has the number of the chunk (777), which the helper of its tests takes instead
(957-970). The property is therefore about the reduction of whatever values there are, and about the CPU.
`FragmentPlan` is compared with a partition of the file, `FileNames` with a
predicate on the result, `StoreKeys` with the map that `MemoryStore` is, `PeerSources` with the
counts of rolls that choose each source, `ConfigLimits` with what the engine divides by, clamps to
and waits for. These are evaluated over all inputs of the bounds in the initial states.

## 3. The runs

| Run | Bounds | Shows |
|:--|:--|:--|
| `lifecycle_single` | 1 task, 1 fragment, 2 command slots, 1 crash; fairness; 320 000 states | `TypeOK`, `CheckpointSound`, `StoredCompletedIsComplete`, `NoRuntimeLeak`, `CancelStopsWorker` |
| `lifecycle_pair` | 2 tasks with one URL, 1 command slot, 1 crash, downloads stop before `run`; 1 100 000 states | `UniqueLiveUrl`, `ImplementsRegistry` |
| `download` | 2 fragments, 2 permits, 1 retry, breaker opens at 2, 1 chunk; fairness; 410 000 states | `TypeOK`, `DownloadedIsComplete`, `EventsAreWritten`, `NoTaskOutlivesRun`, `RunEnds`, `ImplementsRun` |
| `storage` | per part below; fairness; 207 000 states | the ten properties of `MCStorage` |
| `services` | per part below; fairness; 755 000 states | the seventeen properties of `MCServices` |

Lifecycle: all of the single-task properties are about one task and its writers: the two command
slots, task_fn and the reader make four concurrent writers of one snapshot, which is every kind the
code has and two of the only kind that can overlap with itself. One crash gives a run before it and
one after it. `UniqueLiveUrl` relates two tasks, and two tasks with one URL are the smallest
instance in which the check can be wrong; what a download does after its probe touches neither a row
the check reads nor the URL, so the state constraint `OneDownload` cuts it there. In `download` a
threshold of 2 lets one fragment open the breaker for the other, one fragment fails while the other
runs, waits or sleeps, and with 1 retry each fragment is attempted, put off or refused, attempted again and
given up; while it sleeps or runs again the write of its first attempt may still be under way.
Deadlock is not checked: a program whose downloads are over stops.

Storage: two writes and three syncs on a ring with a bitmap of three bits and one to four fixed buffers, so that
an index past the buffers and none at all both occur, with one interrupted wait; two writes over three addresses on Windows, where one
address is freed and used again; three users of a pool of two, so that one waits; two callers of a
pipeline of two permits with batches up to three, so that a batch wants more than there is; a stream
and two fragments over four units, two to a sector; two clients of the snapshot store, two fragments,
four calls, one crash.

Services: two payers over three rates; a primary and two mirrors; two overlapping FTP calls, one
stream each; three servers for a session cache of two; redirects up to one beyond the limit; ids of
three bits with buckets of two and subnets of two, so that buckets, caches and subnets fill; two
RPCs, one sender that is known and one that is not, two datagrams at a time; three callers for two global permits
and one per host; up to seven chunks, the GPU from three on, and three hashes in a row, so that a
buffer is too small, large enough and left over; two fragments with two attempts; two tasks in the
window; files below, at and above every threshold of a plan; two jobs and four versions in a queue;
paths with a link in each position; names of up to five characters of five classes; addresses on
both sides of the border of every block; stores with keys of up to three bytes that hold the escape
character; three sources with weights one to three; two refresh loops, since the flag of a loop that
was stopped is raised again by the next start; configurations with one or two numbers at, below or
above a limit; two messages of two identities; all combinations of the hub's environment.

`CheckpointSound`, `RunEnds` and the like are explained at their definitions. `Computed`,
`AnswersNotMixed`, `BuffersBalance` and `CallsReturn` are conjunctions over the parts that have such
a promise; the definitions in the component modules have their names and their reasons.

The runs expected to find a violation check one statement of the repository each:

| Run | Statement | What the code does |
|:--|:--|:--|
| `lifecycle_cancel_recovered` | `recovery.rs:3`: unfinished downloads are recovered | the snapshot of the probe replaces the cancelled one; the cancelled task is back after a restart |
| `lifecycle_slot` | `task_commands.rs:623`: wait for the existing tasks to complete | a completed download stays pending or downloading in the shared table and keeps its slot |
| `pool_host_limit` | `connection.rs:18`: the maximum number of connections of one host | a cleanup between the lookup of a semaphore and its grant makes room for a second one |
| `services_hash` | `gpu.rs:517`: a correct tree reduction | two, four, eight values: the finished root is compressed once more, whatever the values are; the tests for these are marked ignored |
| `services_url` | `task_commands.rs:610`: a download of the same URL exists | redacted URLs are compared: scheme, host and last segment |
| `download_checksum` | `README.md:169`: finalize_hash, then Completed | plan() sets no hash, and verify() with `verify_checksum` (the default) fails with NoExpectedChecksum |
| `storage_buffer` | `iouring.rs:258`: the index is in the range of the buffers | the first read or write is given the index behind the last buffer, at which it panics |

Each property of a passing run comes with a change of one definition, of the kind a bug would make,
that breaks it. These operators stand right before the definition they change.

Other statements of the repository that do not hold, met while modelling and without a run of their own:

* `task_commands.rs:403` logs that a cancelled status is kept, from a row in which a cancel never
  shows; `downloader.rs:831` says that timeouts are reported at once, and a pause timeout is retried;
  `README.md:24` promises resuming after a restart, and a recovered task has nobody who downloads.
* `ftp.rs:10`: each call has a connection of its own. Calls share one state, and a call may use the
  connection of another (`FtpSession.OwnConnection`).
* `mirror.rs:73`: the selected source is asked for the URL of the primary (`MirrorSources.SelectedIsAsked`).
* `task_commands.rs:235`: the total is the sum over the fragments. After a retry it is more
  (`ProgressMeter.TotalIsSum`).
* `transport.rs`, `send_rpc`: a request id names one request. Peers count from 1, too, and their
  request is taken for the answer (`DhtTransport.OwnReply`). TLC refutes these four.
* `gpu.rs:775` gives the offset of the block in its chunk as the counter BLAKE3 asks for. It asks for the
  number of the chunk.
* `downloads.ts:145`: a download that ends goes to the history. Its completion may go there twice: the monitor
  tests the status and reads the row it sends under another guard, so that it and the last lines of task_fn may
  both send a completed row, and a reply to `get_task_list` in between takes the first back.
* `transport.rs:179`: the refresh issues `iterative_find_node`. It reads candidates and sends nothing.
* `kbucket.rs:300`: `find_closest` stops when it has enough candidates and may miss nearer ones.
* `quic.rs:33`: the mutex is held for the moment of sending. It is held until the head of the response.
* `mod.rs:319`, `rewrite_hf_url`: the comment speaks of a check of the connection. There is none: without
  HF_ENDPOINT the mirror is used always, though the list came from the main site. With an HF_ENDPOINT that begins
  with `https://huggingface.co` and goes on, a slash for example, what follows is put in once more by each
  rewriting; `ModelHub` has endpoints as atoms and does not show it.
* `filename.rs:17`: leading and trailing dots are said to go; a name may keep them.
* `mod.rs:167`, `downloader.rs:183`: the limits of connections and of the scheduler are built from
  the configuration at the start, or from defaults, and an update does not reach them.
* `recovery.rs:211`: a progress update goes through the older record and drops the fields only a
  snapshot has.
* `App.tsx:489`: the command "pause all" pauses what is selected; `HistoryPanel` offers a time range and does not filter by it.

## 4. Fairness

`TaskLifecycle.FairSpec`: a create past its check, a persist past its start, the chunk reader and
the steps of task_fn that wait for nothing outside go on (tokio polls every spawned task and every
command to its next await; all of these end by themselves). The arms that wait for a cancel or a
closed channel are fair together, since `watch` wakes its receivers; they are separate from the
rest because `select!` may prefer a probe or a chunk that is ready, but not for ever. Nothing is
assumed of users, the network or crashes: a download may hang as long as nobody cancels it.

`DownloadTask.FairSpec`: the run and each of its fragment tasks take a step when they can. That a
chunk or an error comes is the read timeout of the HTTP client; that the pool lets a task in is the
FIFO order of tokio's semaphores and the permits the others give back; sleeps and the pause timeout
end by themselves. Neither the breaker's clock nor the signals are fair. `RunEnds` excludes only a
user who pauses and resumes for ever.

`MCStorage.FairSpec` and `MCServices.FairSpec`: as long as a call of the part can go on, some step
of it is taken (`Progress`). That is less than fairness to each thread or task; it is enough because
a call has finitely many steps, and it is justified because threads run, tokio polls what is ready,
and what a server, a peer or a kernel owes is replaced by a timeout or an error (read timeout of the
HTTP client, RPC_TIMEOUT, PRIMARY_FAST_TIMEOUT). `ftp.rs` has no such limit (connect, login, read and quit wait
for the server as long as it takes, the quit with the lock of the state held), so nothing is assumed of FTP
calls, and `CallsReturn` says nothing of them. Callers who start calls, the network that loses a
datagram, the clock and other programs are not fair. `CallsReturn` says that calls under way come to
an end, with a batch that wants more permits than there are, a peer that never answers, a slow host
that holds a global permit, and a refresh loop that is stopped and started again.

## 5. What is proved

`TaskLifecycle_proofs.tla`, for every value of the constants that satisfies `ConstantsAssumption`
(the identifiers of tasks, commands and `None` are distinct, the bounds are naturals; tasks, URLs,
fragments and command slots may be any sets):

| Theorem | Statement | Argument |
|:--|:--|:--|
| `TypeCorrect` | `Spec => []TypeOK` | inductive as it stands |
| `UrlsAreUnique` | `Spec => []UniqueLiveUrl` | `UrlInv`: the create that has checked holds the lock, its URL is still unclaimed, and only it can insert; a row is there only if its create has inserted it or a restart brought it back |
| `CheckpointsAreSound` | `Spec => []CheckpointSound` | `FileInv`: what is on disk, what a persist or the reader has loaded and what the reader has seen are all subsets of `written`, and `written` only grows |
| `RuntimeIsReleased` | `Spec => []NoRuntimeLeak` | `RuntimeInv`: task_fn passes its start gate only after its sender and handle were stored, nothing stores them later, and cleanup removes both |
| `StoredCompletedIsTrue` | `Spec => []StoredCompletedIsComplete` | `DoneInv`: a row, a loaded snapshot or a persist in flight says Completed only after task_fn saw a run that ended in Ok, and that means all fragments are written |
| `RegistryIsImplemented` | `Spec => ImplementsRegistry` | step simulation with `UrlInv`, `RuntimeInv` and `RestartInv`: an insert is `Add`, a cancel or the end of a row is `Release`, a restart is `Restart`, all the rest stutters |

`DownloadTask_proofs.tla`, under `DownloadAssumption` (finitely many fragments and at least one, any
number of chunks and retries, at least one permit):

| Theorem | Statement | Argument |
|:--|:--|:--|
| `DownloadTypeCorrect` | `Spec => []TypeOK` | needs `RecordsInv`: a task that sleeps is one that may retry, so its counter does not pass `MaxRetries` when it wakes |
| `DownloadsAreComplete` | `Spec => []DownloadedIsComplete` | `TasksInv`: fragment tasks exist only between the spawn and the end of the join loop; `RecordsInv`: while they are joined, a fragment without a live task is Done; `FileInv`: what is Done, announced or returned as Ok is in the file |
| `EventsAreTrue` | `Spec => []EventsAreWritten` | `FileInv`: the task that announces has flushed its last batch |
| `TasksEndWithRun` | `Spec => []NoTaskOutlivesRun` | `TasksInv` |
| `RunIsImplemented` | `Spec => ImplementsRun` | step simulation: a flush is `Write`, a write whose future is dropped is `Leave` and its end `Land`, the end of verification is `Succeed` and needs `DownloadedIsComplete`, every other exit is `Fail`, all the rest stutters. |

`MCStorage_proofs.tla`, under `StorageAssumption`. The theorems are about `MCStorage!Spec`, which is what
the run `storage` checks. Each part has an inductive invariant; as a step of one part leaves the
variables of the others alone, their conjunction `StorageInv` is inductive too. The ring and the store
have modules of their own (`IoUring_proofs`, `SnapshotStore_proofs`, with `RingTypeCorrect`,
`StoreTypeCorrect` and three more theorems), which are used as the instances `RingP` and `StoreP`.

| Theorem | Statement | Argument |
|:--|:--|:--|
| `StorageTypes` | `Spec => []TypeOK` | the types of each part are a conjunct of its invariant |
| `BatchesWriteSegments` | `Spec => []BatchWritesSegments` | `BatchInv`: what a call has counted and has still to write is never more than its segments have, and as long as it is as much, the writes that are left make of the area what the segments, in one of their orders, make of an empty one. `plan_batches` is a left fold over the segments, and so is the area; `Covers`, kept by `MergeCovers`, says that after every prefix the writes given out and the merged part write what that prefix writes (`WritesJoin`: two writes that meet are one). `PermitsInv` and `QueueInv` for the semaphore and its queue |
| `CompletionsAreOwn` | `Spec => []OwnCompletion` | Linux: `MutexInv`, `BufferInv`, `QuietInv`: until a wait is interrupted, everything submitted, in the kernel or completed is of the holder of the ring; an operation that gets so far is a sync. Windows: `RegistryInv`, `PacketsInv`: a packet is of the write that is registered at its address, so the registry finds the right caller although addresses are used again |
| `BuffersAreBalanced` | `Spec => []BuffersBalance` | `BufferInv`: the bitmap of the ring is always the mask of the bits above the buffers (`LowestSetPastEnd`: the lowest bit that is set is one of those, and setting it changes nothing), so a read or write panics or finds none, and never frees an index; `outstanding` of the pool is the number of users between the two counters, which is what the prewarm reads |
| `MemoryIsHeld` | `Spec => []MemoryHeld` | `PendingInv`, `FreeInv`, `WritesInv`: what the kernel has is registered, what is registered is not on the free list, and a caller that was dropped takes nothing out of the registry; after the end (`DrainInv`) it is drained or leaked |
| `OkMeansWritten` | `Spec => []WrittenIsThere` | `DataInv`: what a writer has counted is in the file from its first byte on, because the regions of two fragments do not meet and a thread that outlives its future writes what the next one writes again; needs that the ends of the writes rise (`StorageAssumption`), and `PlaceInv` and `JobInv` for the lock and the thread |
| `SyncIsDurable` | `Spec => []SyncCovers` | `FlushInv`: the flush that answers covers what was on disk when the call came |
| `SnapshotsReadWhole` | `Spec => []ReadsWhole` | `FilesInv` and `ValueOf`: what is renamed is complete, because only the holder of `write_lock` touches the temporary file |
| `SnapshotsKeepProgress` | `Spec => []ProgressKept` | `UpdateOf`: what an update is about to write has everything acknowledged so far, because only the holder of `progress_lock` adds to it |

`MCServices_proofs.tla`, under `ServicesAssumption` and `AddressAssumption` (octets are below 256 and segments below
65536), about `MCServices!Spec` of the run `services`.
Only the part that `part` names moves, so the invariant of a part is `part = "queue" => QueueInv` and the
like; `ServicesInv` is their conjunction.

| Theorem | Statement | Argument |
|:--|:--|:--|
| `RacesAreDecided` | `Spec => []RaceDecided` | `AloneInv`: while the winner or the primary is asked alone, no other answer can come |
| `LastFtpCallDisconnects` | `Spec => []NoConnectionLeft` | `OpenInv`, `StreamInv`: an open connection is the stream that is installed or belongs to a call about to install it, and calls that are in the way of it are known by their pc |
| `AnswersAreOwn` | `Spec => []AnswersNotMixed` | `RpcIdsInv`: an id of a request is below the counter and nobody else's, and a response on its way repeats an id that was sent; `PacketInv`: a body under a valid signature is one its signer has sent. The theorem is about responses: requests of other nodes repeat ids, and a message without a signature proves nothing of its sender |
| `CompletionsRecordedAsAnnounced` | `Spec => []RecordedAsAnnounced` | `OnceInv`: each of the two senders, the monitor and the last lines, says once that the task has completed, because the monitor finds no further row to report after it; what it said is in the channel, among the events or in the history, and in one of them only. `OwnInv`: nobody else says it |
| `NewestAreListed` | `Spec => []SnifferKept` | `NewestInv`, `SniffInv`: the list is a suffix of what was captured; a URL is captured twice only after its first entry was dropped or redacted |
| `LookupsConverge` | `Spec => []LookupConverged` | `LookupInv`: what is known is asked, waiting or shown; the nearest one not asked is picked next, and a finite set of ids has a nearest one (induction on subsets, `FS_StrictSubsetOrderingWellFounded`) |
| `QueueIsImplemented` | `Spec => QueueImplemented` | step simulation: the entries of the index are the abstract queue; `IndexInv` and `VersionInv`: an entry of the heap is stale exactly when the index has a later version, so the first that is not stale is the first of the queue |
| `SessionsAreKept` | `Spec => SessionCacheKept` | `CacheInv`: the cache is a sequence within its limit; `RememberedFits`: after an eviction nothing expired is left, or nothing valid was dropped. `WithoutKeeps` says what is left of a sequence without some hosts |
| `WaitsAreToTheDate` | `Spec => [](part = "http" => Http!WaitsUntilDate)` | the code counts in eras of 400 years that begin in March, the calendar adds up the lengths of years and months. `YearsCounted`: a sum over years is 365 each and one for each leap year (the least year of which this is false has one before it, `OneMoreYear`); `MonthsCounted` month by month; `DaysAgree` for January and February and for the rest of a year. `HttpInv`: the outcome is of the reply that is there |
| `RecordsSurvive` | `Spec => [](part = "records" => Record!RecordSurvives)` | `RecordInv`: the file, in either form, has the status that was saved last and the fragments reported since |
| `LinkedFilesAreFetched` | `Spec => [](part = "hub" => Hub!LinkedFileFetched)` | `HubInv`: the link is of a page that was listed; the rewriting finds its parts again because no part of a name is the address of the main site (`ServicesAssumption`) |
| `RandomIdsAreInTheirBucket` | `Refresh!RandomIdInBucket` | whole bytes, the bits of one byte and the bytes after it are together the bits up to the highest one that differs, for any width of a byte |
| `ChoicesAreByWeight` | `Spec => [](part = "peers" => Peers!ChosenByWeight)` | `PeersInv`: the sources are a list with weights above zero, after any `retain` and update too. `RollsOf`: a roll chooses a source when it lies between the sums of the weights before it and up to it, and the interval has as many members as the source weighs (`FS_Interval`); the sums are left folds (`DataLemmas`) |
| `ForbiddenBlocksAreRefused` | `Spec => [](part = "urls" => Url!BlocksRefused)` | `BlocksAre`: for each of the fourteen blocks of IPv4, and for those of IPv6, the test of octets is the division by the power of two that the length of the prefix means; also for an IPv4 address mapped to IPv6. `UrlInv`: the answer that is accepted has been tested |
| `AcceptedConfigsRun` | `Spec => [](part = "limits" => Limits!AcceptedConfigRuns)` | `LimitsInv`: the limits are valid, and the task has a part of some that were, of the time of its creation; the pool and the scheduler have the defaults, which are valid (`DefaultsValid`). What `validate` demands is enough for what the engine divides by and clamps to; `BackoffFits` for the waits |
| `TablesAreFull` | `Spec => []CacheOnlyWhenFull` | `Fits`: the size, the cache and the distance of the nodes of one bucket, cached nodes included, kept by each method of `KBucket` and so by their sequences in `add_node`. `EvictedFits`: the cache gives up its nodes from the end one at a time, so the bucket is full or the cache is empty when it stops. `KnownFound`: nothing is nearer to an id than itself |

`MCServices_grants_proofs.tla`, about the same `Spec` and under the same assumption, has the parts
that grant a download something: connections, bytes a second, a directory, the fragments of its plan; and the
meters. `GrantsInv` is the
conjunction of their invariants. What the run gives as data is a constant here: the disk is any set of paths
with any links, the payers, amounts and rates are any, and the ring of speeds has any size.

`DataLemmas.tla` has what holds whatever is counted or listed, and is where induction over data comes from. The library's induction theorems take an operator,
which no prover here can instantiate; but that a set of naturals has a least element (`LeastNat`) follows from
a theorem about finite sets (`FS_StrictSubsetOrderingWellFounded`), and what fails first fails for a least
number. `FoldIsSum`, `SumChanged` and `SumPrepended` say what `FoldFunction(+, 0, f)` is and how it changes with
one value of `f`; `SequenceSum` that over a sequence it is the last of the partial sums; `LeftFoldIs`, `LeftFoldHead`
and `LeftFoldAppend` that `FoldLeft` of an operator is the last value of the function that applies it place by place.

What `retain` leaves of a list is `AtPlaces(s, places)`, the entries of `s` at some of its places in their
order: the n-th place is the one with n places up to it. `SelectSeq` would say the same by recursion, and
nothing could be proved of it (the buckets of the DHT, the sessions of QUIC and the
sources of a download are written so); `RanksAreMet` and `AtPlacesHas` show that each of the places is met once.

| Theorem | Statement | Argument |
|:--|:--|:--|
| `PoolConserves` | `Spec => []PermitsConserved` | counting: a step of one caller changes the number of holders of each permit by what it changes the counter. `ReferencesInv`: whoever waits at a host semaphore or has its permit refers to it, so no new semaphore can get its identity |
| `BusyHostsStay` | `Spec => BusyHostKept` | a holder has taken a permit, so the semaphore of the host is not full and the cleanup passes it over |
| `PaymentsArePaced` | `Spec => []Paced` | `AddsUp`: a function with the bytes of every set of calls. `PacedBy`: the debt is what was let through and what the charged calls ask for; whichever of these calls go through next, what is let through by then is allowed by now, or one of them waits until it is, because the one that was charged last saw the debt of them all and looks at the clock after it |
| `DirectoriesAreAuthorized` | `Spec => []DirsAuthorized` | `PanelInv`: the panel sends the roots that the program has, so they never change; `HandlerInv`: where a handler looks for a name, or is about to make one, the links lead below its root; `NameLeadsOn`: a name that is no link leads on from where the links before it lead, so what is made is below the root whichever directories come and go meanwhile (the links are those of the initial state) |
| `MetersAreExact` | `Spec => []MetersExact` | `RingInv`: the i-th last speed is at the i-th place before `writeIndex`, round the ring; `ringSum` is the sum of the speeds pushed last, and the peak bounds them and is one of them. `SlotsMove`: one push later every place is that of one speed later. `CountInv`: no report exceeds its fragment, and a total that only takes positive differences stays above the sum of what the fragments have |
| `PlansCoverFiles` | `Spec => [](part = "plan" => Plan!PlanCovers)` | `PlanInv`, `NumbersInv`: the recommended concurrency and size are within their limits. The loop that cuts the file is a recursive function of the offset, so an equation; `SolutionOfCuts`: the sequence of pieces of one size, with the rest as the last, solves it, and no other (the least rest on which two solutions differ has none after it). `PiecesFollow` and `ClampedFits` say that these pieces follow each other and how many there are |

None of the invariants is inductive without its strengthening: `UniqueLiveUrl` says nothing of a
create between check and insert, `CheckpointSound` nothing of the reader's copy,
`StoredCompletedIsComplete` nothing of the rows and copies a snapshot is made from,
`DownloadedIsComplete` nothing of a fragment that is still under way, `ProgressKept` nothing of an
update between its read and its write, `MemoryHeld` nothing of a packet that will free the memory,
`LookupConverged` nothing of a lookup that is under way, `CacheOnlyWhenFull` nothing of a bucket that is over its
size or of a cached node's distance, `Paced` nothing of a debt that is charged and not yet
waited for, `DirsAuthorized` nothing of a handler between its look and its `create_dir`, `BatchWritesSegments` nothing of a
batch that is not finished, `MetersExact` nothing of the reports in the channel.

What the assumptions demand is what the code has or what a step needs to be defined: sets of callers,
hosts, users, addresses and bits of an id that are finite, limits that are not zero where the
configuration refuses zero, buckets that are numbered from zero, as those of the vector are, fragments that do not overlap, `None` and its like outside the sets they are
compared with, as many identities for semaphores as can be referred to at one time, and a disk whose paths are sequences
of names, of which `/` is one and no link. TLC evaluates them in every run. `Services.cfg` gives the constants that
are functions or sets of paths their values by definitions of `MCServices` (`Paths <- DiskPaths`,
`HostOf <- TwoDownloads`, `Met <- MetIds`, `Tells <- OneBitAway`, `Dates <- CalendarDates`, `Repos <- HubRepos`,
`Octets <- OctetEdges`, `Segments <- SegmentEdges` and the like), so that the theorems are about any others too.

Only model-checked:

* `CancelStopsWorker`, `RunEnds` and `CallsReturn`: liveness under fairness is out of the prover's reach;
* `MCServices!TypeOK`, as one formula over twenty-five parts: what the theorems need of the types of a part is in
  its invariant;
* `Computed` as one formula over eleven parts: what it says of eight of them is proved, part by part (`PlansCoverFiles`
  and the seven theorems named with it above). Of the other three, the digest of a tree of chunks (`hash`), the name
  that is made of a header or a URL (`names`) and the escapes of a key (`keys`) are recursion over a tree or a text, each
  of which would need an induction of its own over texts that `SelectSeq` and `FlattenSeq` compute.

## 6. The plan

1. `MCServices!TypeOK` for the parts that have no invariant yet, and the three parts of `Computed` that are left.
2. The circuit breaker as a state machine with its own clock: probes admitted by a half-open breaker,
   failures of requests that were already on their way.
3. A power failure in `SnapshotStore`, and the engine's checkpoint before `storage.sync` composed
   with `FileBackend`.
4. Larger instances of `MCServices` one part at a time.

## 7. What is not modelled

The bytes on the wire (postcard messages, HTTP headers, FTP replies), the compression function of
BLAKE3 and the smoothing of the bandwidth predictor are data; what depends on them is any value the
code distinguishes. `validate_save_path` and the parsing of LFS pointers are string functions that
keep nothing. Values that a DHT node stores are a set of senders. The layout, the selection and the
dialogs of the window are left out. Closed semaphores (the code closes none), panics of fragment
tasks, and files of unknown size are left out of the modules named above. The application does not
start P2SP, FTP, QUIC or the GPU path yet: their modules take the calls their crates offer.
