# TLA+ models of rfs

This directory holds the formal models of rfs: TLA+ modules, TLC model-checking configurations and TLAPS proofs.
`PROJECT.json` lists every component, run, mutant, mapped source range, finding, hazard and theorem.

## The system and what is in `src/`

rfs distributes filesystems described by *flists*, which are metadata artifacts.
File contents are split into blocks held in remote blob stores.
The parts, and where their code lives:

| Part | Source | State and concurrency |
|---|---|---|
| zdb block store | `src/src/store/zdb.rs` | A bb8 pool of at most 20 redis connections to one zdb server, shared by the concurrent tasks of the FUSE adapter. Each new connection runs `on_acquire` (SELECT of the URL's namespace). Idle connections are PING-tested on checkout. |
| mount CLI | `src/src/main.rs` | Two processes after `daemonize`: the parent polls `mountpoint -q` in `wait_child`, the daemon runs `app()` and mounts. They share only the pid file and the mount table. |
| docker2fl driver | `src/docker2fl/src/main.rs` | A sequential `run()` that creates the `.fl` artifact, builds the router, converts, and removes the artifact on failure. |
| metadata types | `src/src/meta/types.rs` | Sequential decoding of capnp records: `Dir::from`/`Dir::entries` list a directory and number its children's inodes, `Aci::new` defaults and casts uid/gid. |
| fl-server | `src/fl-server/src/main.rs` | An axum server; every route sits behind `HandleErrorLayer`, `load_shed`, `concurrency_limit(1024)` and a 10 s `timeout`. Requests run concurrently on a tokio runtime; Ctrl+C or SIGTERM starts a graceful shutdown. |
| router, cache, metadata store, flist reader, FUSE adapter | not in `src/` (spec.md §4.3–4.6) | The router fans reads and writes out to stores; the cache deduplicates in-flight fetches. |

How they interact on a mount: `main` → `app` → the metadata store → `store::make(url)` for each route (the zdb store among them) → router → cache → filesystem.
The zdb store and the directory and ACL decoding are the parts of the read path whose code is here; they are modelled in full.

## Modules

### `ZdbStore` (zdb.rs)

State:
- `url`: the store URL, abstracted to whether it has a host and its path segments;
- `data[ns][k]`: the server's blobs per namespace;
- `conn[s]`: pool slot `s` (status closed/idle/lent, selected namespace, broken flag, holder);
- `cl[c]`: the caller's program counter, operation, key, slot and result;
- `restarts`.

Correspondence with the code:
- `UrlNamespace` is `get_connection_info`: the last path segment when there is a host, nothing for a unix socket. `zdb://host/` gives `""`.
- `NeedsSelect`, `SelectOk`, `AcquiredNs` and `OnAcquireOk` are `on_acquire`. A fresh connection sits in `default` and moves only by a successful SELECT. A failed SELECT returns the error, which keeps the connection out of the pool.
- `CheckoutIdle`, `DiscardBroken`, `Connect` and `CheckoutTimeout` are the outcomes of `pool.get()`:
  - an idle connection passes `test_on_check_out` and is lent;
  - an idle broken connection is dropped;
  - a new connection is opened and customised;
  - "failed to get connection" happens when no healthy idle connection exists.
- `Query` is the command on the lent connection:
  - on a connection broken by a restart it fails ("failed to get/set blob") and the connection goes back to the pool;
  - a GET's reply is classified by `GetResult` (None → KeyNotFound, empty → InvalidBlob) and the connection goes back to the pool (`GiveBack`). bb8-redis never reports a connection broken, so a broken one goes back idle and is only caught by the next checkout's PING;
  - a SET is applied by the server as it arrives, and the caller moves to `reply`.
- `Reply` is `set` awaiting the reply to its SET (zdb.rs:129). It returns Ok, or "failed to set blob" when a restart since the SET reset the connection, with the blob already stored.
- `Restart` is the environment: zdb restarts, keeps its data, and every open connection breaks.

### `KVStore` (spec.md §4.2) and `ZdbRefinement`

`KVStore` is what a block store promises its callers, written from spec.md §4.2 because the `Store` trait is not in `src/`.
Its state is a map `kv` from keys to blobs (or `Empty`, or `Nil` when absent) and each caller's call `req[c]`.
A get takes effect atomically when it returns: `Get` answers with `Answer(kv[k])` (KeyNotFound, InvalidBlob or the blob) or a transport error.
A set is two steps. `SetApply` stores the blob and marks the call `stored`. `SetReturn` then answers Ok only for a stored call, or a transport error either way.
So a failed set may or may not have stored its blob. spec.md §4.2 makes `set` idempotent, so a caller can simply set again; the spec promises nothing about the map after a failed set.

`ZdbStore` defines the refinement mapping and states `ImplementsKVStore == KV!Spec`:
- `kv` is `TargetData`, the data of the URL's target namespace (nothing, for a namespace the server lacks);
- `req[c]` is `AbsCall(cl[c])`: busy from the entry to `get`/`set` until it returns, and `stored` while a set awaits the reply to an applied SET, with the same operation, key, blob and result.

Checking out, connecting, dropping a broken connection and a restart are stutters of `KVStore`.
A `Query` on a broken connection is a failed `Get` or `SetReturn`. On a healthy one it is the abstract `Get`, or `SetApply` for a SET. `Reply` is `SetReturn` of a stored call.
This is where `NamespaceIsolation` is needed: it makes the namespace the connection runs in the target one.

### `DirEntries` (types.rs, `Dir::from` and `Dir::entries`)

A child of a directory record is abstracted to its kind (dir, file, link, "unknown" for another variant of the schema's union, caught by the `_` arm, or "corrupt" when capnp cannot read its attributes, an out-of-schema discriminant included) and, for a file, its blocks: "ok", "badlen" (a hash or key that is not 16 bytes) or "readerr".
Names, sizes and times are copied verbatim and left out.
State: `header` (whether the message, root, name, parent and contents list read), the input `raw`, the loop's position `i` and counter `x`, the `entries` built, and `out`.

Actions:
- `ReadHeader`: the `?`s of `Dir::from` and `get_contents()`;
- one action per way through the loop body, each starting with `Iteration` (`x += 1`):
  - `PushEntry`: a dir, a link or a file whose blocks are all ok is pushed at inode `At(Parent, x + 1)`;
  - `SkipUnknown`: the `continue` of an unknown kind, after the counter moved;
  - `ReadError`: a `?` fails and `Err` is returned;
  - `BadLength`: `try_into().expect(..)` panics;
- `Finish`: `Ok(entries)`.

`Inode::at` is not in `src/`. `At` models it from spec.md §9 as the pair (parent, index).

`EntriesMatchListing` states what spec.md §4.6 and §9 ask of the result through `Enumerates(es, r, n)`. It says there is a strictly increasing map `f` from the entries onto the positions of the known children among the first `n`, and that entry `j` is that child at inode `At(Parent, f[j])`. This is the listing "known children in order, numbered by record position". TLC checked it against the `SelectSeq` form of the same listing on every state of the run, and the two agree. The form without recursion can be reasoned about one iteration at a time.

### `AciDecode` (types.rs, `Aci::new`)

An id field is its stored i64 value, whether a name is present, and what looking the name up gives: found or not, and the account's id.
`Resolve` is the `-1` rule: the name's account when found, else 1000.
`AsU32` is the cast `as u32`: the value modulo `2^IdBits`.
`Decode` is one call of `Aci::new`; `DecodeFail` is its read errors.

### `FlServer` (fl-server/src/main.rs)

State:
- `phase`: starting, serving, draining, exited or failed;
- for each request: its state (new, reading its head, running in the stack, sending its response, done), its route and the status it got;
- `permits[rt]`: the permits left in route `rt`'s semaphore.

axum's `Router::layer` wraps each route separately, and `ConcurrencyLimitLayer` gives each service it wraps a semaphore of its own. So there is one semaphore of `Limit` permits per route.

Actions:
- `Start`: `app()` up to the bind, ending `failed` on any `?`;
- `Accept`: `serve` accepts a connection, only before the signal;
- `Arrive`: the head has been read, before or after the signal. `load_shed` admits the request when its route has a permit, and answers `503` through `handle_error` when it has none;
- `Respond`: the handler answers and the permit is dropped;
- `Elapse`: the 10 s timeout drops the handler and answers `408`;
- `Sent`: the client has read the whole response, a streamed flist body included;
- `Signal`: `shutdown_signal()` resolves;
- `Exit`: `serve` returns once every connection task has ended: no head is being read, no request is in the stack, no response is being written.

Each request is on a connection of its own, and an answered request's connection counts as closed. After the signal axum stops accepting and closes idle connections, but a head already being read is served, and a response is written to the end.

`HandleError` is `handle_error`.

`PermitsConserved`: for each route, the permits left plus the route's requests in flight equal `Limit`.

### `MountDaemon` (main.rs)

State:
- the parent's program counter `ppc` and the daemon's `cpc`;
- the wait loop's `polls` and `wake`;
- `pidWritten`;
- the target's `mount` (none/live/stale) and `mountTick`;
- a clock `now` in ticks of `TickMs`.

Actions: `PreCheckFails` (the `?` on `is_mountpoint` at line 63: exit 1), `RefuseMounted` (line 63), `RunInForeground`, `Daemonize`, `Reaped`, `DaemonChild` (Child Ok writes the pid, Child Err falls through), `AppFail`, `Mount`, `PollMounted`/`PollNotMounted` (one loop iteration and its one-second sleep), `PollPanics` (the `unwrap` at line 109 on a check that could not run: exit 101), `GiveUp` (read the pid file, SIGTERM if a pid was parsed, exit 1) and `Tick`.
What FUSE does with a mounted daemon on SIGTERM is not in `src/`, so `Terminated` leaves the mount gone or stale.

`Daemonize` has three outcomes, from daemonize's fork, `waitpid` on the first child and second fork:
- `Parent(Ok)`: the first child forked the daemon and exited, and the parent enters `wait_child`;
- `Parent(Err)`: exit 1;
- the first child fails before the second fork (chdir, setsid) and gets `Child(Err)`. `_ => {}` lets it run `app()` itself, with no pid in the file. Meanwhile the parent is blocked in `waitpid` on it (`ppc = "waitpid"`).

`Reaped` is that first child exiting after `app()` failed: the parent then gets `Parent(Ok)` and enters `wait_child`. A first child that mounted does not exit, and the parent stays blocked.

### `Converter` (docker2fl/src/main.rs)

One action per fallible statement of `run()`, in order:
1. the runtime `unwrap`;
2. the logger;
3. `Writer::new` (creates the artifact);
4. `parse_router`;
5. `TempDir::new().expect`;
6. `convert`;
7. the artifact removal, whose own error replaces the conversion error.

Only whether the artifact exists when the process ends is observed.

## Runs

| Run | Expect | Properties | What it shows |
|---|---|---|---|
| `zdb_store` (`MCZdbStore.cfg`) | pass, 82,566 states | `NamespaceIsolation`, `ImplementsKVStore` | No healthy pooled connection is ever outside the URL's namespace, across a zdb restart and with failing SELECTs. The callers see the key-value store of spec.md §4.2 over that namespace, in which a failed set may have stored its blob. |
| `mount_daemon` (`MCMountDaemon.cfg`) | pass, 1,867 states | `TypeOK`, `SuccessMeansMounted` | Exit 0 means the daemon's own mount is live, also when the first child ran `app()` itself. |
| `mount_parent_wait` (`MCMountDaemonParentWait.cfg`) | violation | `ParentWaitBounded` | spec.md §6 says the parent waits up to 5 s. A first child whose second fork failed runs `app()` while the parent is blocked in `waitpid` on it, past 5 s and for good if it mounts. |
| `mount_window` (`MCMountDaemonWindow.cfg`) | violation | `MountWithinWindowSucceeds` | A mount 4.5 s after the fork is killed: the last check is at 4 s, not 5 s. |
| `mount_orphan` (`MCMountDaemonOrphan.cfg`) | violation | `FailureStopsDaemon` | A daemon whose `Child(Err)` left no pid keeps serving after the parent reported failure. |
| `mount_panic` (`MCMountDaemonPanic.cfg`) | violation | `ExitStatusDocumented` | A mountpoint check that cannot run panics the waiting parent: exit 101, and the daemon is never signalled. |
| `converter_cleanup` (`ConverterCleanup.cfg`) | violation | `FailureLeavesNoArtifact` | `parse_router` failing after `Writer::new` leaves the `.fl` file. |
| `dir_entries` (`MCDirEntries.cfg`) | pass, 28,806 states | `EntriesMatchListing` | Every record of up to three children is listed as its known children in order, the k-th child of the record at `Parent.at(k)`, unknown kinds counted. |
| `dir_entries_panic` (`MCDirEntriesPanic.cfg`) | violation | `BadBlockRejected` | A block hash or key that is not 16 bytes panics the mount (types.rs:121, 125); spec.md §4.6 says it is rejected. |
| `aci_ids` (`MCAciDecode.cfg`) | violation | `AciKeepsIds` | A stored uid/gid outside the u32 range changes owner: TLC's trace stores `-2`, which becomes `2^16 - 2` at the scaled width (`2^32 - 2` in the code); `2^32` would become 0, root. |
| `aci_in_range` (`MCAciDecodeInRange.cfg`) | pass, 4,096 states | `AciKeepsIds` | Ids that fit the width (its largest included) survive; `-1` resolves through the name or to 1000. |
| `fl_server` (`MCFlServer.cfg`) | pass, 8,668 states | `TypeOK`, `PermitsConserved`, `ShedOnlyWhenFull` | Each route's permits are conserved, across timeouts, requests read after the signal and the graceful shutdown; 503 only when the request's route is full. |

The violations are recorded under `findings` in `PROJECT.json`. Five are divergences from spec.md §6, one from §4.6, and one (`aci_ids`) is a plain bug: no reading of the spec lets an flist's owner become root.

Every property of a passing run has a mutant in `PROJECT.json`. The mutant is a plausible bug in the mapped code, and TLC finds it:
- SELECT errors ignored;
- the `is_empty` check dropped;
- the poll loop unbounded;
- the loop returning without checking;
- the directory counter advanced only for kept children;
- the id cast one bit too narrow;
- an off-by-one permit check;
- a timeout that keeps its permit.

### Bounds

`MCZdbStore`:
- Three callers and two slots, so callers really compete: a checkout finds the pool full and times out, or reuses another caller's returned connection.
- One restart, which breaks both lent and idle connections.
- One key and one blob, with `Empty` and `Nil` also allowed in the initial data, so all three reply classes occur.
- `ServerNamespaces = {"default","custom"}`.
- Five URL shapes: the unit tests' three, a trailing slash (namespace `""`, whose SELECT fails), and an explicit `default`.
- Callers are symmetric. This is sound because no property names a caller.

`MCMountDaemon`:
- The code's five polls one second apart.
- Half-second ticks, so a mount can fall between two checks.
- The clock runs to 6 s, one second past the last check.

`MCDirEntries`: records of up to three children, any mix of the five kinds, with files of zero to two blocks in any of the three states. So an unknown child can sit before, between or after known ones, and a bad block can follow a good one.

`MCAciDecode`: TLC's integers are 32 bits wide, so the width is scaled from 32 to `IdBits = 16`. The cast is modulo `2^IdBits` in the module, so the wrap-around is the same at either width. The violation run stores `-1`, `-2`, `0`, `1000`, `2^16` and `2^16 + 1000`. The passing run stores `-1`, `0`, `1000` and `2^16 - 1`. Name lookups find account 0 or 33, or nothing.

`MCFlServer`: three requests over two routes with one permit each. A route can be full while the other is not, and a request can be shed, time out, be answered, or still be running when the signal comes. The limit of 1024 is scaled to 1 because only full versus not-full matters. Symmetry is not used: the routes are told apart by the initial route choice, and the state space is small.

### Fairness

No run assumes fairness, and no run checks liveness.
- `MountDaemon`: the parent is blocked in `waitpid` for as long as a first child that runs `app()` lives, and `mountpoint -q` may block on a hung FUSE mount. Nothing in the code bounds either, so "the parent returns" is not a property of this code. The `mount_parent_wait` run shows the first.
- `FlServer`: a client may take forever to send its head or to read a streamed response, and axum's graceful shutdown waits for it. Nothing bounds how long the shutdown takes, and the spec promises nothing about it.
- `ZdbStore`: bb8 bounds a checkout by its timeout, but a query on a hung server has no deadline in this code (spec.md §5 leaves it to the caller).

## Proofs

### `ZdbStoreProofs`

- `TypeCorrect`: `Spec => []TypeOK`.
- `NamespaceIsolationHolds`: `Spec => []NamespaceIsolation`.

Both hold for every pool size, set of callers, keys, blobs, server namespaces and URLs.
They assume only `ConstAssumption`: `PoolMax ≥ 1`, `default` exists on the server, the sentinels are distinct, and `Keys ≠ {}`.

`TypeOK` is not inductive: `Query` indexes `conn[cl[c].slot]`.
The inductive invariant `IInv` adds two conjuncts:
- `QuerySlot`: a caller in `query` or `reply` holds a slot that is lent to it alone;
- `ReplyIsSet`: only a `set` awaits a reply.
`QuerySlot` is preserved for these reasons:
- only the holder returns a lent slot (`GiveBack`, in `Query` and `Reply`);
- checkout and connect take only idle or closed slots;
- a restart changes only the broken flag.

`NamespaceIsolation` is inductive relative to `IInv`:
- `Connect` is the only action that makes a healthy connection, and `OnAcquireOk` implies `AcquiredNs = Target` (lemma `AcquiredIsTarget`);
- returning a connection keeps its namespace and health (`ConnReturnKeeps`);
- a restart only sets the broken flag.

TLC checked `IInv` as an invariant before the proof.

### `ZdbRefinement`

`ZdbImplementsKVStore`: `Spec => ImplementsKVStore`, for every value of the constants.
The argument, step by step:
- `InitRefines`: an initial state maps to an initial state of `KVStore`.
- `NextRefines`: from a state satisfying `IInv /\ NamespaceIsolation`, every step maps to a `KVStore` step or a stutter. It has one case per action:
  - `StartGet`/`StartSet` are `Invoke`;
  - `CheckoutIdle`, `Connect`, `DiscardBroken` and `Restart` are stutters (`AbsTakeSlot`: taking a slot does not show);
  - `CheckoutTimeout` and a `Query` on a broken connection are a failed `Get` or `SetReturn` (lemma `ReturnBusy`: a busy call that returns is one of the two);
  - a healthy `Query` runs in `Target` by `NamespaceIsolation`, so it is `Get` with `Answer(TargetData[k])` (lemma `AnswerIsGetResult`) or `SetApply` with `TargetData' = [TargetData EXCEPT ![k] = b]`;
  - `Reply` is `SetReturn` of a `stored` call (lemma `AbsStored`; `ReplyIsSet` makes the call a set), Ok or failed.

The abstract set is split in two for this reason: the server applies a SET when it arrives, and the reply can still be lost to a restart. An atomic abstract `Set` that writes only when it returns Ok would not be implemented.
- The invariant comes from `ZdbStoreProofs` (`InitIInv`, `NextIInv`, `NextNamespaceIsolation`), and PTL combines the three.

### `AciDecodeProofs`

`InRangeIdsKept`: if every stored id is `-1` or in `0 .. 2^IdBits - 1`, then `Spec => []AciKeepsIds`, for every width.
The inductive invariant `DecodedIds` says that a decoded record holds `AsU32(Resolve(..))` of its inputs.
Two lemmas finish it:
- `ResolveKeeps`: an id other than `-1` is used as it is;
- `CastKeepsInRange`: the cast leaves an in-range value alone.

Together with the `aci_ids` violation, this shows that out-of-range ids are the only ones Aci::new changes.

### `MountDaemonProofs`

- `MountTypeCorrect`: `Spec => []TypeOK`.
- `SuccessMeansMountedHolds`: `Spec => []SuccessMeansMounted`.

Both hold for every `Polls ≥ 1`, every `TickMs` dividing 1000, and every clock bound that covers the loop (`MountConstAssumption`).

`SuccessMeansMounted` is not inductive: `PollMounted` only sees that the target is a mountpoint. `MountInv` adds why that mountpoint is the daemon's live mount:
- a parent that got past the pre-check (in `waitpid`, waiting or exit 0) saw no foreign mount;
- a mount is live exactly when the daemon has mounted;
- a stale mount is only left after the parent has given up with exit 1.

TLC checked `MountInv` on the `mount_daemon` instance before the proof.

### `DirEntriesProofs`

`EntriesMatchListingHolds`: `Spec => []EntriesMatchListing`, for every listing length and every parent inode.
The inductive invariant `DirInv` says what holds after every iteration:
- the loop's counter `x` equals the number `i` of children consumed, unknown kinds included;
- while running, and once Ok, the entries pushed so far enumerate the known children among the first `i`;
- Ok is only returned when `i` is the listing's length.

Three lemmas about `Enumerates` carry the step:
- `EnumeratesEmpty`: no child read, no entry;
- `EnumeratesExtend`: pushing a known child `n + 1` at `At(Parent, n + 1)` extends the enumeration;
- `EnumeratesSkip`: an unknown child `n + 1` leaves it as it is.

Each iteration changes the enumeration by at most one child, so no induction over the listing is needed. TLC checked `DirInv` on the `dir_entries` instance before the proof.

### `FlServerProofs`

These hold for every set of requests (finite or not), every set of routes and every `Limit ≥ 1`:
- `FlTypeCorrect`: `Spec => []TypeOK`. No route's semaphore is overdrawn or holds more than `Limit` permits.
- `PermitsConservedHolds`: `Spec => []PermitsConserved`.
- `ShedOnlyWhenFullHolds`: `Spec => ShedOnlyWhenFull`, an action property.

The inductive invariant `FlInv` is `TypeOK /\ PermitsConserved /\ NotAnswered`:
- `TypeOK` alone is not inductive. `Respond` and `Elapse` add a permit, and only conservation bounds the result by `Limit`.
- `PermitsConserved` includes that each route's requests in flight form a finite set. That holds because each step adds or removes one request, so `Requests` needs no finiteness assumption.
- `NotAnswered` (a request whose head is not yet read has no status) is what the action property needs. It makes a `503` seen after a step that step's own, which is `Arrive` finding no permit, hence `Limit` requests in flight.

The lemmas:
- `RunningAdd`, `RunningRemove` and `RunningShed` say how a step changes the requests in flight of each route;
- `AdmitFlInv`, `ShedFlInv` and `ReleaseFlInv` are the three ways a request's state changes. `ReleaseFlInv` serves both `Respond` and `Elapse`.

They use `FS_AddElement`, `FS_RemoveElement` and `FS_CardinalityType` of `FiniteSetTheorems`. TLC checked `FlInv` on the `fl_server` instance before the proof.

### Only model-checked

Every property of a passing run has a theorem. No liveness property is checked (see Fairness); it would be out of TLAPS's reach anyway. The violation runs show counterexamples, which is TLC's part.

## Not modelled yet, and the plan

1. The router, chunk cache, metadata store, flist reader and FUSE adapter are not in `src/`. Only the store interface they use is modelled from the spec (`KVStore`). A spec-modelled router (read fall-through, write fan-out) and single-flight cache would check spec.md's algorithms, not this repository's code, so they are left out.
2. fl-server's handlers (auth, flist creation, the job-state map) are not in `src/`. They are one step that answers or never does.
3. The data copied by `Dir::from`/`Dir::entries` (names, sizes, times, keys) and the `mode` of `Aci::new` are left out. No property is about them.
4. `ZdbStore` extensions:
   - a hung server holding pool slots (zdb.rs:116; by spec.md §5 the deadline is the caller's);
   - liveness of checkout under fairness.
5. `MountDaemon`: a foreign mount appearing after the pre-check. `is_mountpoint` cannot tell it from the daemon's own mount, and no property can separate the two without weakening `SuccessMeansMounted`.
6. fl-server: handlers that block their thread, which would stop the timeout from firing.
7. `MountDaemon`: a `mountpoint -q` that blocks on a hung FUSE mount (main.rs:97). Each poll is one atomic step.
