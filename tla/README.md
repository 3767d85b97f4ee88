# Verification of ScrcpyGate

ScrcpyGate is a FastAPI gateway that shows Android screens in a browser: it runs
one scrcpy session per device, fans its H.264 stream out to video WebSockets,
lets one viewer at a time send input through a control WebSocket, relays embedded
ALAS pages, and keeps accounts, permissions, leases and logs in SQLite. This
directory holds TLA+ models of it, TLC configurations that check them on small
instances, and TLAPS proofs that hold for every instance.

To check: `tlc -config <cfg> <module>.tla` for each run of `PROJECT.json`, and
`tlapm <module>.tla` for each module named `...Proofs`. `PROJECT.json` also maps
every definition to the lines it models, lists the hazards of the code at the
line where they bite with the properties that cover them, and gives for every
property a fault in a mapped definition that breaks it.

## 1. The system

One asyncio event loop serves every request and socket; SQLite, adb and scrcpy
writes go to worker threads through `asyncio.to_thread` (though some lock calls
run on the loop itself); one thread per scrcpy session reads video; one thread
each writes audit events and access records. State is shared between coroutines
across every `await`, and between the loop and threads under `threading.Lock`s.
Most of what can go wrong is of one kind: something is read, an `await`, a thread
or a lock follows, and it is used.

| Component | State | Interacts with | Hard behaviour | Correct when | Module |
|---|---|---|---|---|---|
| Control lease (`mirror_runtime`, `storage`, `mirror_websocket`, routes) | row of `control_locks`, epoch and lock per device, cached verification per socket | accounts delete rows; inputs go to the mirror session | input checked, parked on an await, sent later; late closes; caches | one controller at a time; a lease is lost by right only; caches end in time | `ControlLease` |
| Viewer queue (`ClientSession`) | bounded queue, `needs_keyframe`, byte count | scrcpy thread, loop, video socket, recordings | overflow, key-frame gating, messages kept over clears | no frame before its key frame, none of an old transport; notices and ends arrive | `ViewerQueue` |
| Session life cycle (`MirrorSession`) | running, transport, generation, reservations | manager, worker threads, viewers | cancelled starts, late threads, time-outs | every transport has one owner; the lock comes back; unwatched streams stop | `MirrorLifecycle` |
| Manager and target guard (`mirror_manager`) | sessions, lock per ADB address | life cycle, administration | the address changes while its lock is waited for | one coroutine per session; a session moves only when off | `MirrorTargets` |
| Event broadcast (`mirror_manager`) | event sockets, pending messages | every component | rights and snapshots read before they are used | pages end with the present state, in order, and only those that may | `EventBroadcast` |
| H.264 and video path (`h264`, `mirror_runtime`) | parser buffer, pending unit, configuration, latest key frame | scrcpy, viewer queues | torn start codes, losses, SPS and PPS in any order | units whole; what is cached can be decoded | `H264`, `H264Payloads`, `VideoStream` |
| scrcpy transport (`scrcpy`, `scrcpy_demuxer`) | port reservations, orphans, parser state | adb, life cycle | adb that times out and may have worked | a port has one owner, none is forgotten; packets whole | `ScrcpyTransport`, `ScrcpyDemuxer` |
| ADB monitor (`adb_monitor`) | status, generation and lock per device | devices table, adb | a probe of what the device was | the status is that of the present device | `AdbMonitor` |
| Connection registry (`account_access`) | sockets, pending revocations | every socket, account routes | revocation racing a handshake | nothing slips between check and registration | `Connections` |
| Access control (`security`, `login_guard`, `ip_ban`, `access_gate`) | charges, lockouts, proofs of work, snapshot of bans | every request | passwords checked in threads; stale snapshots | guesses are bounded; a ban is in force when it has returned | `LoginGuard`, `IpBans` |
| Geo access (`geo_access`, `geo_updater`) | database file, backup, reader | every request | an update that fails or dies anywhere | a database in date is never lost | `GeoDatabase` |
| Accounts (`storage`, routes) | users, sessions, permissions | everything | several administrators at once; old password hashes | one administrator can recover the system; sessions end | `Accounts` |
| ALAS bindings (`storage_alas`, `alas_service`) | bindings and the views they bring | accounts, devices | several paths add and remove | one owner per name; views go with the last binding | `AlasBindings` |
| Audit dispatcher and chain (`audit_dispatcher`, `storage_audit`) | bounded queue, tickets; hashes and anchor | every route | eviction, stop racing submit; trimming | counted, written or dropped; the rest verifies | `AuditDispatcher`, `AuditChain` |
| Access log (`access_log`, `storage_access`) | buffer, losses, tables, export | middleware | failed writes, restarts | a request is recorded or counted as lost | `AccessLog`, `AccessPromise` |
| Mirror record (`mirror_record`) | shared recordings, notices | viewers, threads | viewers that come and go meanwhile | nobody is missed; uploads go to who started it | `MirrorRecord` |
| ALAS embedding (`alas_embed_transport`, `alas_embed_policy`) | pumps, cached rights, registry of callback ids | ALAS, browser | rights cached by one pump and used by another | nothing is sent on withdrawn rights; ids never exceed what was advertised | `AlasRelay`, `AlasPolicy` |

Not modelled: see section 7.

## 2. How the modules are composed

Each component is a module of its own with its variables, `Init`, an action per
handler or step, and its properties. Components meet in state, not in calls that
return at once, so what one needs of another is modelled where it is needed: the
administration that deletes lease rows is an action of `ControlLease`, the
restarts that reset a viewer's queue are actions of `ViewerQueue`, the worker
threads of a transport are in `MirrorLifecycle`.

| MC module | Parts, chosen at the start by one variable |
|---|---|
| `MCControlLease` | `ControlLease` three times: `fence` (many messages), `loss` (an administrative change), `time` (a running clock) |
| `MCAuditDispatcher` | `AuditDispatcher` |
| `MCSession` | `lifecycle`, `targets`, `bytes` (`H264` with `H264Payloads`), `video` (`VideoStream`), `viewer` (small queue), `events` |
| `MCServices` | `conn`, `guard`, `bans`, `geo`, `viewer` (queue with room), `adb`, `transport`, `demuxer`, `relay`, `policy` |
| `MCStorage` | `accounts`, `bindings`, `audit`, `access`, `record` |
| `MCLive` | `lease`, `session`, `viewer`, each with its fairness |
| `MCBindings`, `MCSessionKick` | one part alone, for a finding |

Parts of a run take turns, they are not interleaved: they share no variable, so a
product would add states and no behaviour. The other parts' variables stay at their
initial values.

`AccessPromise` is an abstract specification: requests that are waiting, recorded,
lost, shown as lost, or gone with the process. `AccessLog` implements it
(`PromiseKept`, an `INSTANCE ... WITH`): TLC checks it in `storage`, and the
refinement is proved.

## 3. Models and code

A step is what runs between two awaits of a coroutine, or what a thread does from
taking a lock to giving it up, or one SQLite transaction. History variables are
marked as such; no guard reads one.

### `ControlLease`

| Model | Code |
|---|---|
| `row` | the device's row of `control_locks` (`storage.acquire_lock`, `renew_lock`, `release_lock`, `get_lock`) |
| `epoch`, `dev` | `_control_lock_epochs[device]`; the caller inside `_control_device_lock(device)` |
| `lease[s]` | `ControlLeaseState` and `session_verified_until` of `control_socket` |
| `pc`, `job` | where each coroutine or worker thread is, and its arguments and locals |
| `rights` | `user_is_active`, `user_can(..., "control")` and the session check, per account |
| `now` | `time.time()` and `time.monotonic()`; a tick is a second |
| `grant`, `heldAt`, `allowedAt` | history |

`acquire_control_lock` is two steps, the commit of the row and the bump of the
epoch, with the device lock held in between; refusals, renewals and sends enter and
leave it in one step, since nothing they do there is visible before they leave. With
`only_if_owned` a release's look at the row is a step of its own, as another thread
may prune the row before `release_lock`. `LoopFree` says that coroutines do not run
while one of them is inside a synchronous lock call. `handle_control_bytes` is
`DispatchBytes`, `Renew` in a thread, `AfterRenew`, `SendAccepted` or `SendRefused` in
a thread, and `AfterSend`. Abstracted: one device (devices share nothing), payloads,
audit events. A reconnection has a fresh uuid: it is another member of `Sockets`.

### `AuditDispatcher`

| Model | Code |
|---|---|
| `items`, `next`, `pending` | `_items` (ticket and severity), `_next_ticket`, `_pending_tickets` |
| `unfinished`, `accepted`, `processed`, `failures`, `dropped` | the counters; drops are summed over severities |
| `writer`, `inHand` | where the thread of `_run` is, and the ticket it popped last |
| `asleep` | the threads in `_condition.wait`: the writer and callers share one condition |
| `stopping`; `pc`, `target`, `answer` | `_stopping`; `barrier`, `flush` and `stop` in request threads and the shutdown |
| `written`, `evicted` | history |

One action for each outcome of `submit`, the writer's take, write and `finally`, and
each return of `barrier`, `flush` and `stop`. `notify` wakes any one sleeper.

### `ViewerQueue`

| Model | Code |
|---|---|
| `c` | a `ClientSession`: queue, `queue_bytes`, `needs_keyframe`, `last_raw_sequence_delivered`, `terminated` |
| `gen`, `live` | `_video_generation`; the generation the last transport was started with |
| `stream`, `start`, `restarting` | `running` and where `stop` and `_start_locked` are between awaits |
| `mode`, `seq`, `cache` | `effective_stream_mode`, `_raw_frame_sequence`, the latest key frame |
| `notifier` | `push_notice` of a recording's request, in a worker thread, between its steps |
| `shown`, `decoder`, `boundary` | history: what the viewer was sent |

The operations of `ClientSession` are operators on the record `c`, applied by each
handler in the code's order. A frame is its generation, sequence number, size and
whether it is a key frame. The requests of `routers/mirror_record.py` push their
notices from a thread: on a full queue its clear is four steps between which the
loop runs. Viewers share nothing but the session, so there is one.

### The mirror session

| Module | Variables and the code they stand for | Actions and grain |
|---|---|---|
| `MirrorLifecycle` | `view` a page's way from its request to its departure; `running`, `scrcpy` of `MirrorSession`; `fresh` the transports of the present `_video_generation` (it is only compared, so a set that an advance empties is enough); `op` the holder of `_lock` and where it is; `forced`, `timers`; `phase`, `worker` of each transport and its `_start_scrcpy` thread; `exited`, `endings` what it reports; `cleanup` | requests, attach and leave, the three ways into a start, the four into a stop, each await of them, cancellation at any of them, and every step of the threads |
| `MirrorTargets` | `row` the address in the database; `sessions`; `address`, `available`, `streaming` of a session; `task` a coroutine: what it does, for which session, with which key's lock | `target_guard` takes the lock of an address and looks at the address again; start, stop, restart, move, remove, the sweeps and the administrator's edits |
| `EventBroadcast` | `now` the state, a number; `waiting`, `cast` the broadcasts; `page`, `listed`, `snap`, `pending`, `sending`, `seen` of the pages; `until` the right to view | hello, snapshot and flush of a page that joins; rights, sends and failures of a broadcast |
| `H264` | `fed` the stream so far; `parser` the buffer and what was thrown away; `nals` what was cut | a feed of any piece; the two loops over start codes as functions of the number of turns |
| `H264Payloads` | none of its own: the functions that tell payloads apart and convert them, their loops as functions of the number of turns | checked on every stream that `H264` is fed |
| `VideoStream` | `unit`, `config`, `health`, `keySeen`, `loopQueue`, `sequence`, `latest` of the session; `encoder`, `torn` the device | NAL units with losses, assembled, processed in the thread, published by the loop, in three modes |
| `ScrcpyTransport` | `adb_forwards` adb's table; `reserved_ports`, `orphan_ports`; `transport` a start or stop in its thread | each adb command succeeds, fails, or times out and may have worked |
| `ScrcpyDemuxer` | `demux_state`, `demux_buffer`, `demux_expected`; `device_stream` what is sent, in units per field | a piece of any length, the loop of `feed`, `reset` |

### The services

| Module | Variables and the code they stand for | Actions and grain |
|---|---|---|
| `Connections` | `conn` how far a handshake is; `listed_conns`, `revoking` of the registry; `revoker` a request that closes; `withdrawn` what no longer holds | every check is in a thread, then the registration, the look at `revoking`; a withdrawal is the commit, the snapshot, each close, the discard |
| `LoginGuard` | `failures`, `lockout`, `lockout_by` in memory; `saved` their mirror in the database; `challenge`; `attempt` each request; `guesses` what the guard counted and was not told to forget | charge, proof, consumption, password, refund or lockout; restarts, unlocks, switches |
| `IpBans` | `ban_row` the table; `ban_seen` the snapshot; `ban_call` threads between commit and reload | bans, unbans, reloads by age or after a change, another process, unreadable rows |
| `GeoDatabase` | the three files, `reader`, `update` where the update is, the counter and key | each file operation is a step, and the process may die before any |
| `AdbMonitor` | `adb_row`; `adb_status`, `generation`, `retired`; `device_lock` and `lock_holder`, as a lock object may be dropped and made anew while somebody waits for the old; `adb_op` calls of `ensure_connected`; `adb_route` requests | lock, read of the row, probe, confirmation, store |
| `AlasRelay` | `pump` three tasks, `relay_lock`, `policy_run` the cached right, `message`, `supervisor`, `timers` | every await of the three and of the supervisor; a tick passes only while all wait |
| `AlasPolicy` | `entries`, `refused`, `allowed_order`, `pin_callbacks`, `saturated` of the registry | a message of ALAS registers, one of the browser is forwarded, dropped or ends it |
| `Accounts` | `user`, `login_session`, `user_device`, `devices`; `signing_in`, `changing`, `edit_form` what a request has read | one transaction each; what was read before may be old |
| `AlasBindings` | `bindings`, `view_source`; `legacy_form`, `auto_bind` between read and write | one transaction each |
| `AuditChain` | `log`, `integrity`, `alerts` and the clock; a digest is the pair of what it is computed from | append, trims by number and age, restarts with another limit |
| `AccessLog` | `access_items`, `access_writer`, `drops`; the tables; `export` | submit, the turns of the thread with failures, prune, pages of an export, the death of the process |
| `MirrorRecord` | `records`, `rec_pages`, `pushing` notices still to push | a call works under the registry's lock with a time read before, and pushes when it is free again |

## 4. Runs

Deadlock is not checked in any run: sockets close for good, processes stop, and
the budgets below run out.

| Run | Instance | Shows |
|---|---|---|
| `lease_safety` | 2 accounts (one administrator), 2 sockets, 1 viewer, 1 request: 3 messages; 2 and a change; 1 socket and a clock to 5 | types, the fence, one controller, leases lost by right, caches and rights that end |
| `live` | small instances of three parts, with fairness | every message is answered, the lifecycle lock returns, streams end, notices and ends arrive |
| `audit_queue` | 2 callers, 3 severities, queue of 2, 3 events, fairness | counters, tickets, answers, order, eviction, wake-ups; events settle |
| `session` | the six parts of `MCSession` | ownership of transports, the guard, units and payloads, decodability, freshness, broadcasts |
| `services` | the ten parts of `MCServices` | a property per service |
| `storage` | the five tables of `MCStorage` | a property per table, and the refinement of `AccessPromise` |
| `lease_transfer`, `two_streams`, `session_kick`, `auto_bind`, `audit_trim`, `access_drops` | violations | section 6 |

Bounds, and why they are enough to meet the cases that matter:

- Lease: the shortest violations need an acquire, an input of the holder and a
  takeover in between: three messages of two sockets and a request. `TTL = 2`,
  `Verify = Recheck = Lag = 1` keep what matters, `Verify + Lag <= TTL` (5 + 5 <= 90:
  SQLite's busy timeout of 5 s bounds a renewal); a clock of 5 lets a row be granted,
  cached and expire.
- Audit: a queue of two with three severities gives an eviction from the middle, one
  that finds nothing less severe, and an event in the writer's hand meanwhile.
- Life cycle: one page and two transports: a second start meets what the first left
  behind (a thread, a clean-up, a callback). Targets: two devices, addresses and
  coroutines, so that an address may be taken over. Events: two pages and changes.
  Devices, pages, coroutines and transports are alike, and TLC uses that symmetry.
- Bytes: streams of ten bytes over 0, 1 and 5, in pieces of up to three, with a
  limit of five on a unit: a start code is torn in every way, a unit outgrows the
  buffer, and the start code after it loses its first zero with it. Units: three NAL units in a picture, two versions of a configuration.
- Viewer: with 2 bytes the third frame overflows and one of 3 never fits; in `session`
  the queue of 2 is full of messages, in `services` it has room. `Wrap = 16` keeps
  sequence numbers far from half their range, as 2^32 does.
- Sockets: one withdrawal against two requests that close; the login guard: three
  attempts against a threshold of two; bans: two addresses, one protected, and clocks
  twice the snapshot's age; the database: two builds, two attempts a day, other hands
  twice; adb: two requests and two edits besides the heartbeat; transports: two ports
  and three transports of which two are between their start and their end; relay:
  intervals of one; policy: three ids over a registry of one or two.
- Tables: two people, two places for sessions, a limit of one, two edits, clock of 2;
  three spellings of two names; four audit events with limits of two or three; a buffer
  of three requests with batches of two, one death of the process; three pages and one
  recording.

Where a property is proved, its instance in a run is there to show that the model
does something and that faults are seen; the theorem covers all sizes. The actions
`FirstIsAnn` and `TwoAtATime` of `MCServices` leave out what renaming alike users or
transports gives, and a third transport under way at the same time; `policy` has the
right to run and no right to edit.

### Fairness

Weak fairness of each caller's lock steps and socket steps, of the audit writer, of
worker threads and of the coroutine that holds the lifecycle lock: a runnable coroutine
is run by the loop and a thread by the system. Strong fairness of entering the
lifecycle lock (`asyncio.Lock` is first come, first served) for starts, forced restarts,
sweeps and timers. A viewer's send ends or times out
(`VIDEO_SEND_TIMEOUT_SECONDS`). None for clients, administration, deadlines or the
clock. `threading.Lock` is not fair, but messages are finitely many in the instance, so
weak fairness says nothing about starvation under endless contention.

`Expire` of a barrier's deadline is not fair: `EverythingSettles` shows that calls end by
the writer's work.

## 5. Proofs

Every theorem is of the module's own specification, for all values of its constants
that satisfy its `ASSUME`. These assumptions are typing, numbers where the code has
numbers, kinds of names that differ, and what the code enforces of its settings:
`IdleSeconds <= AbsoluteSeconds` for sessions (constants of the code, 12 hours and 7 days),
finite sets of requests for ADB and of pages, sizes of the demuxer's fields that are
small beside its limit on a packet (64 and 12 bytes beside 16 MB), and for the H.264
parser a limit of 64 KiB at least, as `RAW_MAX_NAL_BYTES` has, or a stream no longer than
the 128 bytes that the code searches at the end of a unit that is too long. All proofs
have one shape: an inductive invariant, a lemma per action that it is kept, frame lemmas
for what an action leaves alone, and the temporal step at the end.

The loops of the code that go over sequences are recursive functions in the models. Their
facts are proved by the least counterexample: a set of naturals that is not empty has a
least element, as `<` is well founded (`LeastNatural`); and that such a function exists
at all is proved once (`RecursionExists`), so that its equations may be used.

| Module | Theorems | Inductive invariant, and why the property alone is not enough |
|---|---|---|
| `ControlLeaseProofs` | `TypeCorrect`, `FenceHolds`, `OneControllerHolds`, `LeaseOnTime`, `LeasesLostByRight`, `AuthorityEndsInTime` | `TypeOK /\ FenceInv`: a caller's pc is inside the lock exactly when it holds it; the row names the grantee of the current epoch, except between an acquire's write and its bump; a cached or carried epoch is old, or current and its socket the grantee; a socket calls in its own name. An input that waits in `send` with the current epoch must be known to be the grantee's. `LeaseInv` adds since when a socket relies on what it knows: a cached epoch is trusted no longer than its row lasts, and no longer than `Verify + Lag` after the socket last held it; a cached right no longer than `Recheck` after it was last there; a caller's time is old by `Lag` at most; a row in a socket's name is its account's and goes before the socket closes; requests never call for a socket |
| `AuditDispatcherProofs` | `AuditTypeCorrect`, `CountsAddUp`, `NothingForgotten`, `WriterNeverMissesWork`, `AnswersMeanIt`, `QueueIsDisciplined` | the checked invariants with `QueueOrdered` (else an eviction could remove two entries of one ticket), `Recorded` and `Waiting`: a caller sleeps only while something is queued or in hand. So the one wake-up of `submit` cannot go to a caller while the writer sleeps on an empty queue. `PastOrdered`: what was written is older than all that still waits to be, and what was evicted does not come back |
| `MirrorProofs` | `TransportsAreOwned`, `GuardIsSound`, `SessionsMoveWhenOff`, `RevokedAreNotTold`, `PagesKeepUp` | `TransportInv`: where each worker thread is says whether its transport is the session's, the operation's or its own to discard, and what an operation waits for agrees with it; `QualityInv`: while a quality restart runs, places are its own. `GuardInv`: who holds a key holds that of the session's present address; a key is held once; who moves a session has taken it out of use first. `EventInv`: broadcasts are numbered in order of their wait; a page is never ahead of the broadcast under way (`NotAhead`), and what it was told, holds pending or is about to be sent is not behind (`NotBehind`) |
| `H264Proofs` | `UnitsAreExact`, `PayloadsAreExact` | `UnitsInv`: the buffer is the rest of the stream from a start code where the loop over the whole stream comes by as well, and the units cut are among those of that turn (all of them, as long as only noise was thrown away); or the parser waits for a start code, with at most the beginning of one in its buffer. The functions on payloads need no more of the state than that the stream is bytes; their arguments are in the notes |
| `VideoProofs` | `PacketsCanBeDecoded`, `FramesAreFresh`, `QueueIsSound` | `VideoInv`: the packets on their way to the loop and the one kept have one picture, key frames carry the configuration their slices were made with, and what is collected so far fits what the encoder sends next. `FreshInv`: what is queued, cached or kept by a notice between its steps is of the transport that is there, and after a termination nothing else may come. `SoundInv` adds the byte count, and that what is queued can be played from where the viewer is |
| `AccessGateProofs` | `BansAreEnforced`, `DatabaseIsKept`, `NothingSlips`, `AttemptsAreBounded` | `BanInv`: the snapshot follows the rows, or a thread between commit and reload will make it; `GeoInv`: where the update is, what each file holds and what is the last good one; `ConnInv`: at each stage of a handshake, what was checked before is not withdrawn unless somebody who has not yet looked will find the socket; `GuardInv`: an address that is not locked has all its guesses among its charges, which are fewer than the threshold (`Charged`, `Few`); one that is locked has no more guesses than that, all of users who count for its release (`Held`); and the copy in the database lacks a guess only if it has the lockout the guess led to (`Covered`), as else a restart would lose it |
| `StorageProofs` | `AccountsAreSafe`, `LogKeepsPromise`, `AccessLogIsSound`, `BindingsAreSound`, `RecordsAreSound`, `ChainVerifies` | `AccountsInv`: typing, a recoverable administrator, sessions within their limits and no more than allowed, rights given, and a login that verified the old password is either overtaken by the change or dies with it; `LogInv`: the losses reported never pass those counted, and what the writer holds is what it took; `ExportInv`: what an export has got is in falling order down to its cursor, and of what was there when it began and still is, nothing above the cursor is missing, as new rows have greater ids than all before; `BindingsInv`: the rows are finitely many, so that one default can be counted, and each writer replaces the rows of one user or one key; `RecordInv`: one record at most is under way, nobody that has a place has not yet come, an initiator is of the user that started, and every notice that was pushed or still is to be belongs to a record that was started; `ChainInv`: the rows are in order of their ids, a chain of hashes from the anchor to the head, and the state counts them; an event that asks for attention has an alert that is seen until it is handled |
| `ServiceProofs` | `RelayObeys`, `StatusIsCurrent`, `PortsAreKept`, `PolicyKept`, `PacketsComeOutWhole` | `RelayInv`: the lock is with the pump that is in the check, and a message whose right is withdrawn is not past it; `AdbInv`: all calls wait for one lock, and if the status does not fit the row a forced call is still to read it, or has just read it; `TransportInv`: reservations tell transports apart until adb lists the forward, then adb's table does; `PolicyInv`: what the registry knows was advertised, as last advertised, without the ids refused, and what it gives up is never of the newest message; `DemuxInv`: unless its place was lost at an invalid size, the buffer is the part of the stream after what was taken, at the field that the state names |

Notes.

- `SentByFence` shows that only `SendAccepted` sends, so `OneControllerHolds` speaks of
  every input.
- `GuardIsSound`: the lock is a dictionary entry by address, and the code looks
  at the address again after it got the lock. `KeyIsAddress` is what that second look
  buys; with it, two holders for one session would hold one key.
- `LogKeepsPromise` is a refinement: initial states map to initial states, and
  every action of `AccessLog` to a step of `AccessPromise` or a stutter, under `LogInv`.
- `UnitsAreExact` speaks of units up to their start codes, unless nothing but the noise
  at the beginning was thrown away: after a unit that was too long the next start code
  of four bytes may come out with three, as its first zero went with the end of that
  unit. The units then are those of the stream all the same.
- `PayloadsAreExact`, in its three parts. Normalising twice: each conversion gives bytes
  that begin with a start code, and these are left alone. Lengths: the loops are followed
  turn by turn, the bytes between the lengths are taken over as they are. The number of
  a slice: the writer (`Escaped`) inserts a byte before one below 4 that follows two
  zeros, and the reader (`Unescaped`) skips just these bytes; then as many bits are read
  as zeros came before. This is not so for every number: `first_mb_in_slice` keeps its
  count of zeros when it skips a byte (`h264.py:164`), so it would skip a 3 of the
  slice's own after two zeros as well as the 3 inserted before it. There is none for
  numbers below `FirstMbLimit` (6291455): a byte 3 after 16 zero bits would be the first
  one after 22 zeros, with a 1 after it, and numbers of 23 binary digits below the limit
  begin with 10. The code asks only whether the number is 0, and a frame has 139264
  macroblocks at most, so it never meets the limit.
- `QueueIsSound` is for a queue that is never full (`HasRoom`). At the hard limit
  a notice clears frames without asking for a key frame (`mirror_runtime.py:379`), and its
  clear in a worker thread may race a push of the loop.
- `PortsAreKept` excuses what follows once an orphan was dealt with by two starts while
  its port got a new owner (`overlapped`): the code cannot tell the two forwards apart,
  and the theorem says exactly when that is so.
- `AttemptsAreBounded` counts the guesses of a window since the last lockout of their
  address ended, was renewed or was taken from the database. The two last cuts are the
  code's. A failure that was let through while the guard was off, and recorded after it
  was switched on again, may renew a lockout, and its contributors replace the old ones
  (`security.py:864`). Contributors are not saved, so after a restart any success from
  the address lifts the restored lockout (`security.py:902`); attempts under way do not
  survive the restart and new ones are refused while it lasts, so this too takes the
  guard being switched off in between.
- `DatabaseIsKept` has histories of what others put in place, so that "a database in
  date is not lost" excepts what other hands did and nothing else.

Model-checked only: liveness under fairness (`EveryMessageAnswered`, `LockReturns`,
`StreamsEnd`, `MessagesArrive`, `EverythingSettles`), which is out of the prover's reach.
Every safety property of the runs is stated by a theorem.

## 6. Findings

Each is a trace of its run; `findings` in `PROJECT.json` quotes the lines.

- `lease_transfer`: a transfer gives the lease to the id of a video client, which no
  control socket bears, so the viewer it was given to cannot use it.
- `two_streams`: a forced restart looks whether its session streams, waits for the
  target's lock, and restarts without a second look; stopped meanwhile and its target
  taken by another device, two streams run on one target.
- `session_kick`: ending a login session of the list hashes its id, a hash already, once
  more, and closes no socket.
- `auto_bind`: the automatic binding may rename and move a configuration that was bound
  by hand under another spelling.
- `audit_trim`: when age removes every row, the integrity check reports a break.
- `access_drops`: losses of two hours in one report are all put on the later hour.

Hazards that no property covers: a control message of which only a part was sent when
the socket failed (`scrcpy.py:670`), as what the device makes of it is not in the code;
a bundle passed on to a viewer that has gone (`mirror_record.py:419`), which the code
accepts; refusals forgotten when a registry is full (`alas_embed_policy.py:2086`), after
which the id is unknown and refused as well; the number of probes at a time
(`adb_monitor.py:144`), schema migrations (`storage.py:453`) and deleting a device
while its stream starts (`admin_access.py:382`).

## 7. Not modelled

- Video options and their routes: normalisation of option records, without state.
- Application shell, `logging_config`, deployment scripts: wiring and installation.
- The browser client: the environment of the modelled sockets.
- Of partly modelled components: rewriting of ALAS pages and frames, gateway tokens and
  what makes a label restricted (transformations of one input), the ALAS Runtime's
  processes and exit guard, country lists (membership in a set), headers, cookies and
  tokens decided from one request, notifications and the watch history, schema
  migrations and plain reads.

## 8. Plan

Models of the ALAS exit guard and of notifications.
