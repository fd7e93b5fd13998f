# Ghosttea: verification of sessions, attachment and remote control

Ghosttea runs terminal sessions in a daemon and lets several viewers, local and
remote, attach to one session at once. Exactly one of them controls its size.
The modules here model the parts of the program where that can go wrong: who is
attached, who is in control, what a connection that died or was delayed may
still do, how news of a change of controller reaches a remote client and makes
it act, how a viewer loses and recovers a session, what its replica shows, how
a session's threads share its locks with a program that may stop reading, and
how a session ends while others use it and the daemon shuts down.

Paths below are relative to `src/`. `authority.rs` is
`native/ghosttea/crates/ghosttea-core/src/authority.rs`, `lib.rs` is
`native/ghosttea/crates/ghosttea-truffle/src/lib.rs`, `session.rs` and
`service.rs` are under `native/ghosttea/src/`, `replica.rs` and `model.rs` under
`native/ghosttea/crates/ghosttea-core/src/`, `runtime.ts` is
`packages/ghosttea-react/src/runtime.ts`.

`PROJECT.json` lists components, runs, mutants, the definition-to-source map,
findings, hazards and theorems. Check a run with
`tlc -config <cfg> <module>`, the proofs with `tlapm <module>.tla` for each of
`ViewAuthorityProofs`, `AttachFenceProofs`, `ControlSyncProofs`,
`RemoteSessionProofs`, `StateStreamProofs`, `TerminalIOProofs` and
`SessionTeardownProofs`.

## 1. Inventory

### Components

| Component | State it keeps | Operations | Correct when |
|---|---|---|---|
| **View authority** (`authority.rs`) | attached views with owner, access, attachment epoch and command sequences; the controller; three counters; attach watermarks per client and view; canonical size and layout epoch; one cancel handle per state stream | `attach_view`, `take_over_view`, `detach_view`, `detach_view_if_epoch`, `detach_client`, `collect_watermarks`, `register_state_stream`, `claim_control`, `claim_control_checked`, `authorize_input`, `prepare_resize` / `commit_resize` | control, streams and command sequences never outlive an incarnation; revisions name the controller; watermarks only rise and are bounded |
| **Attach fence and host handler** (`lib.rs`, `ConnectionLedger`, `ConnectionScope`, `serve_connection`, `handle_application_stream`) | ids handed out, live connections with their owner, highest accepted id; one handler per attach | accept, identify, finish; attach, answer, register, serve, detach, collect | no delayed attach replaces a newer one; cleanup spares the successor; connections and watermarks retire |
| **Controller announcements, claim and reclaim** (`session.rs` announcements, `spawn_state_stream`, feed reader, `publish_control_state`, `claim_control_at`, the service's event relay, `#applyController`, `#maybeReclaim`) | broadcast backlog, state stream, the daemon's record, event bus, the client's cache, per-pane claim record | announce, forward, repair, record, republish, deliver, reconcile, claim, grant, refuse | the client ends up knowing the last controller; an empty seat is retaken; nobody is displaced by accident |
| **Remote session lifecycle** (`lib.rs`, viewer side) | lifecycle state and generation, the connection bound, view records, the feed; entries and state readers; the attempts mutex; the reconnect engine; heartbeats | attach, detach with feed succession, refresh, reconnect, retry; resume, promote, attach secondaries; verdicts of readers and heartbeats; suspend, end | one feed; no attempt of a generation that is over on the wire; only the bound connection's death counts; a lost session is brought back, rests or ends; `Ended` is terminal |
| **Live state stream and replica** (`spawn_state_stream`, `logical_patch`, `replica.rs`) | the terminal's revisions and their ring; last snapshot and sequence at the host; replica and patch sequence at the viewer | render, announce, open, forward, lag, reconfigure; publish, patch, refuse; resume, re-attach, local refresh | the replica is a state the host was in; the feed catches up; its patches apply |
| **Session end** (`service.rs` create, close, release, drain; `session.rs` reader thread, ladder, tombstones) | registry, dying set, in-flight creates, owner, retention class, seal, tombstones; admissions, deadline | create, exit, terminate, close-owner, release, set-persistence, drain | what ends is tracked until it has; it leaves the registry once; a released session has no user; a shutdown misses nothing and reports |
| **Terminal input and output** (`session.rs`, `replies.rs`, `input_order.rs`) | `lifecycle`, `authority`, `model_operation` and the writer, as locks; the input queue, the automation epoch, the reply queue; sizes and selections | attach, claim, resize, colors, selection, input, automation, detach, terminate; feed, scroll, reply, write | answers and automation keep their order; sizes agree; no lock is held while the program does not read; a termination concludes |
| Tombstone store (`session.rs`) | bounded, expiring tombstones | insert, lookup, evict | a viewer learns why its session ended |
| Daemon control service (`service.rs`) | client connections, quotas | one command at a time, events in between | the loop neither starves events nor interleaves commands |
| Tunnel protocol, IPC, mesh adapter, entry point | – | codec, sockets, start-up | conversions and I/O |
| Frame hub, renderer input, text engine, VT bindings, configuration, FFI crates | frames, glyphs, handles | content transformation | content, not protocol |
| React runtime (`ghosttea-react`) | controller cache, panes, claim records, recovery frames, mounting leases | see above, and mounting, recovery | see above |
| Routed control, frames, activation (`ghosttea-react`) | transport state, leases, geometry transfers | reconnect, renew, transfer | one active transport; no lost lease |
| Frame resynchronisation (`frame-resync.ts`) | queue, retry timers, slots | request, complete, fail, cancel | no slot leaks, the queue never stalls |
| Electron supervisor and bridge | child process, sockets, state | start, stop, unexpected exit | no child and no socket is lost |
| Control client, shared packages, Apple apps | pending requests, user interface | – | – |

### How they interact

A viewer's daemon opens mesh connections to a host. `serve_connection` stamps
each with an id from the ledger and spawns one `handle_application_stream` per
application stream; the handler calls the shared `Session`, whose methods take
the authority's mutex, and drop it before they announce a change of controller
on a broadcast ring. The handler of the *feed* pane also runs the state stream,
which reads that ring and writes to the viewer; *secondary* panes decline it.
The viewer's reader records the state and publishes it; the service relays it
onto the event bus of the daemon, and from there to the client over the socket
of its control connection, on which the client's commands are served one at a
time. The client keeps the newest state it has seen and claims control for
panes that want it; a claim goes down through the daemon
(`claim_control_at`, which waits for an announcement that answers it) and the
pane's stream to the authority, and its effect comes back as an announcement.

### What is hard

* Handlers outlive connections. A handler between two awaits may hold an
  epoch, a termination bound or a fence that is out of date when it is used.
* A retry and the attempt it replaces are both on the wire, on different
  connections that are ordered by nothing.
* Snapshots are taken under a lock and sent after it is dropped.
* Every ring in the chain can overrun; the repair is different in each.
* A claim is decided at the host on a revision the client saw earlier.
* Cleanup, on every error path, after what it cleans up has been replaced.
* A session is looked for in two tables that are read one after the other, while
  creates, closes and exits move sessions between them.
* A program that does not read blocks its writer, the writer fills the reply
  queue, and whoever has an answer to queue then waits with the locks it holds.
* Verdicts about a connection arrive after a resume has bound another; jobs for
  one session wait for a mutex while what they were queued for changes.

The hazards are listed line by line in `PROJECT.json`, with the property that
covers each, or why none does.

## 2. Modules

```
Incarnations  <--- refined by ---  ViewAuthority  <--- proved about ---  ViewAuthorityProofs
     ^                                  ^
     | INSTANCE (the host), proved      | INSTANCE (the host), proved
     | to implement it                  | to implement it
ControlSync                        AttachFence  <--- proved about ---  AttachFenceProofs
     ^--- proved about ---  ControlSyncProofs

RemoteSession  <--- proved about ---  RemoteSessionProofs   (viewer side of an attach:
                                                  lifecycle, engine, feed election)
StateStream  <--- proved about ---  StateStreamProofs   (what that feed carries)
SessionTeardown  <--- proved about ---  SessionTeardownProofs   (how sessions end)
TerminalIO  <--- proved about ---  TerminalIOProofs   (threads and locks of a session)
```

The last four meet the others at an interface of a few steps: `RemoteSession`
mints the attempts that `AttachFence` delays and judges; `StateStream` is one
feed of `RemoteSession` at a time, with resumes and re-attaches reduced to
*opened anew, under this generation*; `SessionTeardown` keeps of a session's
viewers only whether it has any; `TerminalIO` has one session up to its
conclusion, which `SessionTeardown` takes as the outcome of a ladder. Composing
them in one state space is beyond TLC; each takes the others' effects as free
choices, so what holds of it holds whatever they do.

Each `MC*` module extends its specification with what TLC needs (the symmetry
sets); each `.cfg` gives constants their values. Definitions ending in `Faulty`
are the code with one plausible bug. No behaviour uses them; they are kept so
that every property can be shown to notice one.

### `Incarnations`: what an authority promises

An attachment is an incarnation, born under a fresh number, ended once. At most
one living incarnation holds the seat. The seat empties in the very step its
holder ends, and every change of the seat, and nothing else, advances the turn.

### `ViewAuthority`: the authority, method by method

One action per method, because every method runs under the session's mutex. A
call that only returns an error or an old answer changes nothing and is the
absence of a step; where a caller acts on a refusal (`StaleResume`,
`ViewLimit`), the condition is an operator of its own. The `Option` that holds
a stream's cancel handle becomes `state_stream` in the view, and the history
variable `streams` remembers whether each handle has been fired. `applied`
remembers the last command let through per attachment. Nothing reads either
history variable but the properties. Wire ids that fail the length check never
reach the state and are left out. Epoch counters saturate at 2^64 in the code
and stop at `MaxEpoch` and `MaxClaims` here.

### `AttachFence`: the handler, await by await

The authority is an `INSTANCE` of `ViewAuthority`, so attaching, detaching and
collecting are that module's actions. Around it:

* the ledger: `FetchId` and `Accept` are two steps, since the id is fetched
  outside the ledger's lock and two accept loops share it; `Identify`, `Close`
  and `Finish` (the last clone of a scope drops);
* the viewer: `Mint` rotates the generation while holding the connection's
  `incoming` lock, `Write`, `GiveUp` (the handshake times out or the connection
  fails), `ForgetView`;
* the handler: one action for each stretch between awaits or lock acquisitions,
  `stage` its program counter: `Open`, `AskTerminated`, `Collect`, `AskFence`,
  `TakeOver` or `Reject`, `Answer`, `Decline` or `Register` and `SpawnStream`,
  `Leave`, `AskOnExit`, `CollectOnExit`, and `Fail` for each early return.

A `sent` attempt may stay so for as long as its connection is up: that is the
delay the fence is for. Loss is a connection that closes first.

### `ControlSync`: announcements and reclaim, end to end

The host is an `INSTANCE` of `Incarnations`: an attachment is a number, the
controller is the seat, the control revision is the turn. That this is all the
authority shows to the rest is the refinement theorem of section 5. The chain
then follows the code: `announcing` (taken under the lock, not yet sent, leaving
in any order), `backlog` (the session's ring as the state stream's receiver sees
it, oldest entry overwritten), `wire`, `record` (`control_states`), `bus` (the
ring the service relays from and the daemon's event bus, taken together),
`cache` (`#controlBySession`).

The client's commands queue in `commands` and are served one at a time;
`serving` is the `claim_control_at` in progress, and no event is delivered
during it, because the connection loop that serves the command also forwards
the events. `regime` says which of the daemon's rings may overrun, since all
sessions share them: `OverrunRelay` loses any entry silently, `OverrunBus` the
oldest with a notice that makes the client `Reconcile` from the record.

Left out: the control epoch of a claim, sizes, the legacy frame without a
revision, the bounded wait for the opening frame (a claim may be forwarded
before it, which is what the code does after the wait), and reconnects.

### `RemoteSession`: the viewer's lifecycle, await by await

A step is what one task does between two awaits. The `attempts` mutex, which
every path that attaches takes, is `holder`, a job with a program counter, and
`queue`, the jobs that wait for it: `attach` (`attach_view`), `resume`
(`resume_once`, of the engine or of a manual reconnect), `promote`
(`reestablish_feed`, of a refresh or of a detach that took the feed) and
`secondaries` (`attach_secondaries`, `retry_view`). `Ask`, `Answered`, `Streams`
and `Refused` are `attach_view_attempt`; `Reelects`, `PromoteFails`,
`AttachRetries` and the others are what each kind of job makes of its verdict.
The engine is `EngineLooks`, `EngineDials`, `EngineWakes`; arming it (`Arm`)
aborts the task that runs, with the job it has in the mutex. Readers and
heartbeats watch connections and pronounce verdicts (`ReaderVerdict`,
`HeartbeatVerdict`) that `commit_disconnect` may find void.

`lifecycle.generation` only ever rises, and is only ever compared for equality;
`Advance` therefore takes any number nothing still holds (`InUse`), which keeps
the state space finite without a bound on resumes.

Left out: `close_session`, the purge of zombie attachments and the wires older
than the reconnect minor, dials shared between sessions, a host that restarts
under another identity, all durations.

### `StateStream`: snapshots, patches and the replica

The terminal's `history` is a sequence of states; a state is a shape (epochs,
size, title: what only a snapshot carries) and rows (what a patch carries). A
message names the revisions it is between. `Open` follows `Subscribe`, so what
the ring holds may be older than the opening snapshot; `Lagged` skips what a
full ring lost; `Forward` diffs against what was sent last and falls back to a
snapshot when the shape differs (`logical_patch`). `Applies` is
`publish_patch`'s comparisons; a patch that does not apply ends the reader, and
with it the connection, so that the session resumes under the next generation.
`foreign` is a history variable: what has touched the replica, since the feed's
last snapshot, besides the feed.

### `SessionTeardown`: create, close, release, shutdown

A step is what one thread does between two acquisitions of a lock that another
contends for. `create_local_session` is eight steps, from raising the in-flight
count to its own look at a child that died meanwhile; `on_exit` runs on the
reader thread; a close is *deposit in the dying set, start the ladder, remove*;
a release holds the registry's write lock over its seal; the drain looks at the
count, the registry and the dying set one after the other. A termination ladder
is reduced to its outcome: once started, the child exits. All owned sessions
have one owner, and the retention classes that are never told apart are one.

### `TerminalIO`: threads, locks and a program that may not read

A step is what one thread does while it holds a lock, or between two it waits
for. `at` is where each thread is, `lifecycle`, `authority`, `model_operation`
and `writer` name the thread that holds the lock, and `readers` are the calls
that hold the registry's read lock, which a handler that looks its session up in
an `if let` keeps to its end. `LookUp` and `RegistryOpen` are the registry's
lock, with the rule that readers queue behind a writer that waits.

The calls are `AuthorizeResize`, `ApplyResize` and `FailResize` (claims and
resizes), `AuthorizeRead` and `TrackViewSelection`, `DetachView` and
`RemoveViewSelection`, `AuthorizeAndEnqueue`, `AutomationInput`, `SetColors`,
`Terminate`. `FailResize` is `apply_resize` with each of its failures: the PTY
refuses; the terminal refuses; the terminal has the new size, and no snapshot can be
taken or no frame encoded. In the last two `TerminalModel::resize` resizes the
terminal back, best effort, to the size its `metadata` had on entry
(`model.rs:208-219`), and the `metadata` of the last case has taken the refused size
by then (`model.rs:436-437`). So `metadata` is a variable, that every snapshot
(`Snapshot`) brings up to date; a size the terminal refuses is taken to leave it as it
was, which is the VT library's word. The PTY is then put back too, best effort.
`split` and `refusals` record what went wrong, and guard nothing.

`ExecuteUpdate` gives the reply its ticket under `model_operation`
and drops that lock; `Send` waits for its turn and for room. The frame thread is
`ReceiveOutput` to `Conclude`, the input actor `ReceiveInput`, `Scroll` and the
write, the reply writer `ReceiveReplies` and the write. The program and the
processes that hold the PTY's slave are the environment: `Output`, `CloseSlave`,
and `WriteReturns`, which need not happen.

Whether a terminal answers a resize or a new color scheme is the VT library's
choice (`\E reply \in BOOLEAN`). Left out: a release under these locks (it is in
`SessionTeardown`), input sequences (`ViewAuthority`), the content of everything,
the reaping of a child that closed its terminal and lives on.

## 3. Runs

| Run | What it shows | Distinct states |
|---|---|---|
| `authority` | streams and control never outlive an incarnation, a revision names a controller, commands are let through once, watermarks only rise; `ViewAuthority` implements `Incarnations` | 730 thousand |
| `attach_fence` | a delayed attempt never replaces a newer one, because its watermark is held for as long as it can arrive; the newest attempt is never refused; cleanup spares the successor | 1.9 million |
| `attach_fence_retire` | under fair handlers every closed connection leaves the ledger | 3 thousand |
| `control_sync` | no state that never held is shown, and a compare-and-swap claim steals from nobody, whichever rings overrun; when everything has arrived and the daemon lost nothing, the client knows the last controller, and an empty seat a pane wants has been taken | 4.9 million |
| `teardown` | a drain misses nothing and concludes; what was told to end is tracked; nothing dead stays listed; a kept one leaves by a close only; a released one is never used | 1.7 million |
| `remote_session` | no attempt of a past generation is on the wire; only the bound connection's death tears down; a lost session is recovered, rests or ends | 650 thousand |
| `state_stream` | the replica is a state of the host; the feed catches up; its patches apply | 7.4 million |
| `terminal_io` | answers and automation keep their order; sizes and selections stay consistent; the model always comes free; a termination that has started concludes | 570 thousand |
| `attach_fence_orphan`, `teardown_leak`, `remote_feeds`, `remote_ended` | the findings of section 6 | found at small depth |

### Bounds, and why they are enough

* `authority`: two views and two clients are what it takes for one to dispute a
  view the other attached and control while another is taken over. One
  watermark of capacity (256 in the code) is reached and exceeded by two views.
  Two generations and two connection ids give a watermark below, at and above
  an attempt and a fence. Three attachments allow an incarnation to be replaced
  twice. Two sizes, and one command sequence that an old incarnation may repeat
  to a new one. The run grants one claim; with two, so that one displaces
  the other, and a single connection id, all its properties held as well (1.3
  million states).
* `attach_fence`: one lineage, as watermarks of different views interact only
  through the cap (`authority` has two). Three attempts on two connections: one
  delayed, one accepted, and one whose collection may retire what the second
  left. Three connections with two attempts were checked too, with the same
  result. `MaxForgets` is 0, since a lineage that is forgotten is a finding.
* `attach_fence_retire`: one attempt holds one scope of one of two connections.
* `control_sync`: two panes of one client (they share a cache, and give up the
  seat to one another) and one view of another client. `BacklogSize` 1 (16 in
  the code) makes every second announcement an overrun. Three turns after the
  first allow attach, claim and clear, or a claim, its refusal and a second one.
  Two announcements at once can be reordered; `MaxPending` also bounds the
  client's queue and `MaxWire` the state stream. Three attachments with two
  turns were also checked.
  `Regimes` makes it two populations in one run: four turns with the daemon's
  rings intact, and three with both of them crowded.
* `teardown`: two initial populations in one run. Either two sessions are made,
  one of the owner that closes: they exit, are refused, closed and drained
  against each other, which is what it takes for one to be dying while the other
  is created. Or one session is made that clients also view, use, close, release
  and reclassify, which multiplies the states of a session and not its peers'.
* `remote_session`: two panes (a feed and one to succeed it), two connections
  (one lost, one dialed), one fault and one command after the opening: a second
  failure while the first is recovered from is not explored, though the safety
  theorems of section 5 hold for any number. Six
  generations are enough never to block `Advance`: at most a record, an
  attempt, a reader and a verdict hold one each.
* `remote_feeds` needs two commands: a detach and an attach.
* `terminal_io`: two calls, each made once, drawn from five `Mixes` of requests
  that contend for the same lock or queue. In two of them (`faults`) the model may
  fail to resize, twice in a row among claims. Three answers are what it takes to
  park a producer: one in the writer's hand, one in the batch, one waiting.
  Queue, batch and channel hold one entry, so that a second fills them.
* `state_stream`: two rows and two glyphs tell a patched row from a retained
  one, two shapes a patch from a snapshot; a ring of two under three renders
  overruns; two streams are a feed and its successor; one fault and one command.

Symmetry is used over views, clients, panes, rows and glyphs, which are only
compared for equality and of which no constant names one. It is used only where
the properties are invariants and action properties, never with liveness.

### Fairness

* `attach_fence_retire` (`FairSpec`): a handler outside its control loop takes
  its next step if it can, the control loop ends once its transport is closed,
  and the drop of the last scope happens. A handler is a tokio task nobody
  aborts (`lib.rs:5611-5622`), each of its awaits ends with the connection, and
  the scope's `Drop` (`lib.rs:5450`) runs when the task's last clone goes.
  Nothing is assumed of the network or of the viewer: an attempt may be delayed
  for ever, and a connection need not close.
* `teardown` (`Fairness`): something that has begun goes on, whichever task or
  thread is scheduled (one weak fairness for all of them), and so does the
  drain. A started ladder ends its session: its last rung forces the reader to
  stop. Nothing is assumed of commands, of children exiting by themselves, or of
  a shutdown being asked for.
* `remote_session` (`FairSpec`): tasks that can run do (the job that holds the
  mutex, the engine, some reader, each heartbeat), the mutex serves its waiters
  (tokio's is fair), a stream that is up delivers its snapshot. Nothing is
  assumed of commands, of faults, of the host, or of a device coming back.
  `EndedIsTerminal` is refuted under the same fairness.

* `terminal_io` (`Fairness`): each call and each thread goes on when it can, the
  read thread sees its end, a ladder reaches its last rung. Nothing is assumed of
  clients, nor of the program: it need not read, write or exit. A write that has
  begun may never return, and mutexes are only weakly fair, as the standard
  library's are.

## 4. Properties

Each definition is commented where it stands. Those worth a reader's argument:

* **`StreamsEndWithIncarnation`** – registration happens after an await, so a
  takeover may look for a handle that is not there yet. The stream must
  be refused at registration, or fired when its incarnation ends.
* **`WatermarkOutlivesDelayed`** – whatever the ledger says when it is asked,
  and however old the answer when it is used, a watermark is not collected
  while an attempt older than the winner can arrive. It covers the id fetched
  outside the lock, connections without a hello, and scopes held by handlers.
* **`LatestIsNeverStale`** – the fence must not refuse the attempt the viewer is
  actually waiting for.
* **`ClientConverges`** – with announcements out of order, overrun and repaired.
* **`SeatIsReclaimed`** – one claim per attachment epoch, and one per clear, is
  enough: it fails if the funnel forgets the second kind.
* **`SwapNeverSteals`** – a claim decided on what the client saw may find the
  world changed. It may replace the pane's own earlier attachment and a pane
  this client is unmounting, and no one else.
* **`NothingManufactured`** – no one ever sees a controller paired with a
  revision at which it did not hold, except the empty seat the client predicts
  when its own pane leaves.
* **`DrainMissesNothing`** – the drain counts creates, then reads the registry,
  then the dying set, each under its own lock. That is sound only because a
  refused create deposits before it lets go of its count, and because the owner
  lock is passed once after admissions close.
* **`NothingLingers`**, **`LeavesOnce`** (proved only) – a child may die before its
  session is registered. `on_exit` then finds nothing, and the create's second
  look has to remove it; of all the paths that race to remove it exactly one does.
* **`ReleaseIsSealed`** – clients keep handles to a session that has left the
  registry; `release_if` seals under the locks its conditions are read under.
* **`DrainConcludes`** – no sequence of creates and closes keeps the drain
  looking again, unless a ladder's thread cannot be spawned. That such a ladder ends
  by the deadline, which a refused create's must find published, is the theorem
  `AlwaysBounded` (`ShutdownIsBounded`).
* **`OnlyItsConnection`** – a heartbeat may notice late, a reader may err after
  its feed was replaced. Generation and incarnation together make a late verdict
  void; neither is enough.
* **`AttemptsAreCurrent`** – everything that starts a generation holds the mutex
  that attempts are made under, so the fence at publication is never what saves
  the session.
* **`LostIsRecovered`** – arming aborts engines, detaching cancels them,
  commands queue up behind them: some engine always remains for a lost session.
* **`ReplicaIsHostState`**, **`FeedApplies`** – a patch carries only the rows
  that changed. Base and sequence are never on the wire together, so applying to
  the right base is a matter of who may touch the replica. Two may who should
  not, and the properties name them: a `late` reader, cancelled but of the same
  generation (`lib.rs:2425`; without this condition TLC finds a replica no state
  of the host ever was), and a `refresh`, which resets the patch sequence of a
  session that has meanwhile come up (`service.rs:2680`; the next patch is then
  a gap, and the feed is torn down and resumed).
* **`ModelComesFree`** – the reply handoff takes the guard of `model_operation` by
  value so that nobody waits with it; the property fails if one path keeps it.
* **`TerminationConcludes`** – the frame thread may itself be the producer that is
  parked, and the PTY's writer may be blocked for good: only that producers stop
  waiting, and that the last rung ends the read thread, lets it conclude.
* **`RepliesInOrder`** – tickets are drawn under one lock and used under another;
  before termination no answer is lost, and a batch never has a hole.
* **`SelectionsAttached`** – the fenced read hands `authority` over to
  `model_operation` without a gap, which is what keeps a detached view's
  selection gone.
* **`SizesAgree`** – the authority's lock is held across the PTY and the model, and
  each undoes its part when a resize fails, the terminal from the model's metadata.
  That is right as long as the undo itself succeeds and no two resizes fail without
  a snapshot between them; a resize that succeeds mends whatever was left. The
  property is stated with just these two exceptions; without the second it is
  `ResizesAreAtomic`, which does not hold (section 6).
* **`CaughtUp`** – a lagging receiver skips, and the next diff spans the gap.

## 5. Proofs

`ViewAuthorityProofs` proves, for all values of the constants that satisfy
`ConstantsOK` (naturals where the code has unsigned integers, generations and
command sequences from 1, at least one size) and `NoneIsNoRecord` (`None` is not
a record), with no finiteness of views, clients, generations or ids:

* `Inductive`: `Spec => []IInv`, where `IInv` is `TypeOK`,
  `ControllerIsCurrent`, `EpochsDistinct`, `StreamsKnown` and
  `StreamsEndWithIncarnation`. The last one is not inductive alone: that a
  detach fires the right handle needs the detached epoch to be no other view's
  (`EpochsDistinct`), and that a fresh epoch has no stream needs streams to
  belong to epochs already minted (`StreamsKnown`). `TypeCorrect`,
  `ControllerAlwaysCurrent`, `EpochsAlwaysDistinct` and `StreamsAlwaysEnd` are
  its parts.
* `Refinement`: every step is a step of `Incarnations` or leaves its variables
  unchanged, under the mapping `live` = the epochs of attached views, `born` =
  the counter, `seat` = the controller's epoch or 0, `turn` = the revision.
* `RevisionAlwaysNames` adds `ClaimCounted` (the controller's control epoch is
  not above the counter), so that a second claim by the same view changes the
  controller, as it changes the revision.
* `SizeAlwaysFollows` and `GenerationsAlwaysRise` follow action by action from
  the types and `IInv`.
* `WatermarksAlwaysBounded` adds that each client's outstanding watermarks are
  finitely many, without which a cardinality says nothing.
* `CommandsAlwaysAdvance` adds `CommandsKnown`: the sequence kept in the
  view is that of the last command let through, and an attachment
  not yet born has let through none.

The proof of an invariant has one step per action. Lemmas state what an action
does to the parts it may disturb.

`AttachFenceProofs` proves, for any number of views, connections and attempts and
any bound on forgotten lineages, with the two client ids told apart from the
ledger's own marks (`BoundsOK`) and `None` no record of the authority's
(`NoneIsNoRecord`):

* `TypeCorrect` and `CleanupAlwaysSpares` (`CleanupSparesSuccessor`);
* where no lineage is forgotten (`MaxForgets = 0`, as in the run that checks them:
  `detach_view` restarts the generations, which is the finding
  `IdentityNeverReused`), `WatermarkAlwaysOutlives` (`WatermarkOutlivesDelayed`),
  `LatestIsNeverRefused` (`LatestIsNeverStale`) and `NoneIsReplacedByOlder`
  (`NoStaleTakeover`);
* `IdentitiesDistinct`, with lineages forgotten: two attempts carry one identity
  only after `detach_view` has forgotten the record of a view that had an attempt
  on the way (`Abandons`); retries and closures never bring it about. Its
  strengthening `Distinct` keeps the generations on the way below the record's
  and apart;
* `DeathAlwaysDetaches` (`DeathDetaches`), where no handler returns by a `?` with its
  view attached (`Deserts`): the early returns that `attach_fence_orphan` finds
  are all that can leave a view behind. Its strengthening `Served` says that an
  attached view's last winner has a handler that will detach it, whose scope
  keeps its connection in the ledger;
* `UsesTheAuthority`: `Spec => Auth!Spec`. The host's handlers, whatever they
  overlap with, make a behaviour of `ViewAuthority`, so what
  `ViewAuthorityProofs` proves holds of the composition, and, through its
  `Refinement`, what `Incarnations` promises.

The watermark that refuses a delayed attempt can be collected by another handler,
on an answer of the ledger that is old. What makes that safe is an order of
connection ids, kept by the invariant from the moment the ledger is asked:

* `Stamped`, `Minted`: a transport that is up is in the ledger, and so is the
  connection of every handler that runs, under its own client: both of these
  bound what the ledger answers (`LedgerFacts`);
* `Asked`: what a handler was told has terminated is below its own connection;
* `Fenced`: a fence covers the connections of all older attempts that can still
  arrive, and is above whatever anybody is about to collect by;
* `Held`: so is the watermark the fence is stored in, for as long as such an
  attempt can arrive;
* `Lineage`, `Won`, `Epochs`: generations follow the order of minting, and the
  watermark and the attachment are those of the attempt last taken over.

`Fenced` is the conjunct that a model with one handler would miss: a handler that
asked before another took its fence collects after it.

`StateStreamProofs` proves for every terminal, capacity and number of streams
that `TypeCorrect`, `ReplicaCorrect` (`ReplicaIsHostState`), `FeedCatchesUp`
(`CaughtUp`) and `PatchesApply` (`FeedApplies`). `ReplicaIsHostState` is a
statement about the replica alone, but that it survives the next patch depends
on what is in flight. The strengthening says, of the feed:

* `PastOnly`, `MessagesSound`: revisions announced, sent and kept are revisions
  of the history, and a patch is between two states of one shape;
* `Linked`: each message in flight continues the one before it, a patch from the
  revision and the sequence that message leaves;
* `Continues`: the first of them continues the replica, unless something foreign
  has touched it;
* `Settled`: the last of them, or the replica when none is in flight, is what
  the host takes its next diff from;
* `CurrentStands`, `Silent`: a stream yet to be opened is silent, and the
  current one has not been cancelled;
* `UpToDate`: what the host diffs from is at least what it has consumed of the
  ring.

Each action breaks at most one link of this chain and repairs it in the same
step: a snapshot starts a chain of its own, a patch extends it at both ends.

`SessionTeardownProofs` proves, for any number of creates, sessions and owners'
commands, `TypeCorrect`, `AlwaysTracked` (`TerminatingIsTracked`), `NeverLingers`
(`NothingLingers`), `StaysSealed` (`ReleaseIsSealed`), `KeptAlways`
(`KeptUntilClosed`), and two properties no run repeats, `AlwaysLeavesOnce` and
`AlwaysBounded`. The invariant `IInv` adds to `TypeOK` what a step relies on:

* `Created`, `Childless`: how far a create has come says whether there is a child
  and a record, and a session without a child is in nobody's hands;
* `LockHeld`: the registry's lock, when a release holds it over two steps, is
  held for a registered session;
* `Ordered`: a shutdown announces, then sets its deadline, then closes
  admissions, and a create refused by a shutdown has seen the last of these;
* `Deposited`, `Listed`, `Tracked`: who keeps hold of a session that was told to
  end, the dying set, a release between its two steps, or the drain;
* `Retained`: why a concluded session may still be registered.

`ShutdownMissesNothing` proves `DrainMissesNothing` where no create fails after
its child has started (`Unpainted = {}`): the finding of `teardown_leak` is such a
create. Its strengthening `DInv` adds `Visible` (a running child whose create is
past its insert is in the registry or in the dying set) and `Learnt`, which says
of each step of the drain what its looks so far have established: no insert is
under way, then no create that can still succeed, then nothing registered that
it has not listed. `ReleasedAlwaysVisible` proves `ReleasedOnceVisible` under the same
condition: what the run `teardown_leak` refutes has no second cause.

`ControlSyncProofs` proves, for any number of views and attachments, any finite set
of this client's panes and any size of the rings, with at least one change of
controller and `None` told apart from states and numbers (`BoundsOK`,
`NoneIsNoState`):

* `TypeCorrect`, `NothingIsManufactured` (`NothingManufactured`),
  `ClientAlwaysConverges` (`ClientConverges`), `SeatIsAlwaysReclaimed`
  (`SeatIsReclaimed`) and `SwapNeverTakes` (`SwapNeverSteals`);
* `UsesTheAuthority`: `Spec => Host!Spec`. The host it takes its news from is a
  behaviour of `Incarnations`, as `ViewAuthority` is.

Its properties speak of moments when nothing is in flight; its invariant has to
say what is in flight before that. Towards the client: `Told` (whatever is on
its way, on record or cached is of the history of control that `Recorded`
ties to the seat) and `Fresh` (while no ring of the daemon overran, the last
change is known or among what is on its way). Towards the host: `Known` and `Own`
(a message names an attachment of its own pane, and a living attachment that has
the seat, or a claim to it under way, and is not its pane's any more is followed
by its detach), `Seen` (the client calls the seat empty, or claims against the
current revision, only if the seat is empty, about to be, or its own), `Funnel`
(no mounted pane is left wanting to claim) and `Sent` (what it has claimed
against the current revision is still on its way). `SeatIsReclaimed` follows
from `Funnel` and `Sent`, given that what the client knows is the last change
(`Fresh`, `Told`); `SwapNeverSteals` from `Seen`, which `Own` keeps.

`RemoteSessionProofs` proves, for any number of panes, connections, faults and
commands, with at least one connection and one generation (`BoundsOK`) and `None`
neither a holder of the mutex (`NoneHolds`) nor what the replica shows (`NoneShown`):

* `TypeCorrect` (`TypeOK`), `AttemptsAlwaysCurrent` (`AttemptsAreCurrent`: no attempt
  of a generation that is over is on the wire) and `OnlyTheBoundConnection`
  (`OnlyItsConnection`: only the death of the bound connection suspends a live
  session);
* two that no run repeats: `FeedAlwaysRecorded` (the feed is a pane on record) and
  `EngineHasOneJob` (the engine, aborted and re-armed as it may be, has one job at
  or before the mutex exactly while it works, and a handle while it has a task);
* `OneFeedAtATime` (`SingleFeed`), where no pane is forgotten while a job is making it
  the feed (`Overlap`) and no feed is attached that is not on record
  (`Unrecorded`). These are the two paths of the finding `remote_feeds`. With
  either alone excluded TLC still finds two readers; with both the theorem
  holds, so there is no third;
* `EndedStays` (`EndedIsTerminal`), where no attach retires a view and no promotion
  fails after the end (`Reopens`), the two commits of `remote_ended`. The model makes
  `reconnect_session`'s look and commit one step, as no await lies between them
  (`lib.rs:2768-2778`); a task on another thread could still come between.

`OneFeedAtATime` adds four parts to the invariant: `Owned` (a reader of the current
generation that goes on is the one in the feed's entry, so there are no two),
`Named` (an attempt that opens a state stream, or will try to again, is the
feed's), `Alone` (no such reader is there beside a resume or a promotion whose own
stream is not open yet) and `Begun` (only a resume dials and lists, and who opens
a stream is to be the feed).

`AttemptsAreCurrent` is inductive with `Staged` (the view that a resume or a
promotion attaches is the feed) and `EngineWorks`: a generation begins under the
mutex, or by a command that takes nothing from who holds it. `OnlyItsConnection`
needs `Dialed` and `Watched`: a verdict names a connection that was dialed and is
down for good, so a reader or heartbeat that comes late with one cannot mean the
connection a resume has bound since.

The invariant is a conjunction of groups of variables that change together
(`Panes`, `Mesh`, `Network`, `Work` and the world's own), and most actions disturb one
or two of them; the proof states once that an action which leaves a group alone
keeps its part. The proof also found a guard of the model that was wrong:
`Advance` asked that not all generations be in use, where it needs one from 1 to
`MaxGeneration` that is free. No behaviour of the run had told the two apart.

`TerminalIOProofs` proves, for any finite set of calls, any views and any size of
its queues (`TerminalIOAssumption`), `TypeCorrect`, `RepliesStayInOrder`
(`RepliesInOrder`), `AutomationIsNotOvertaken` (`AutomationNotOvertaken`),
`SizesStayTogether` (`SizesAgree`) and `SelectionsFollowViews`
(`SelectionsAttached`). A call takes and drops its locks over several steps, so
the invariant begins with who has which:

* `PlacedAt`, `LockedAt`: where a thread may be, with which request, and which
  lock it has there: who changes the model has `model_operation`; who resizes
  keeps the authority until its size is committed, and so does who tracks a
  selection until it has the model;
* `Selecting`: a fenced read tracks an attached view's selection, or that of a view
  whose removal is already past the detach and takes the selection with it;
* `Sized`: unless an undo failed (`split`) or two resizes in a row (`refusals`), the
  terminal has the authority's size, or the one a resize under way is about to
  commit; and so does the metadata, unless a resize failed since it was last
  refreshed, which is why the first failure is undone rightly and the second may
  not be;
* `Typed`: a call counts as human input once, when it returns, which bounds the
  automation epoch;
* `Ticketed`: a producer's ticket is its own and its turn has not passed;
* `Ordered`: what was delivered comes before what was taken, that before what is
  pending, all before the next turn;
* `Complete`: until a termination drops something, they are all that was sent.

Two theorems are about waiting, the safety half of `ModelComesFree`, for any number of
calls where the run has two. `NeverWaitInACircle`: no set of threads ever waits for
one another, be it for a lock, behind a writer that waits for the registry, for an
earlier ticket or for the queue to be taken (`WaitsOn`). `SomeoneAlwaysGoesOn`: while
some thread is blocked some thread is not, or is in a write only the program can
end. The first generalises the order `session.rs:2067` states ("the authority, then
`model_operation`"), and both follow from `Orderly`:

* `HoldsAt`: where a thread may be while it holds each lock, which is never a place
  where it waits for the same one or for one before it in the order registry,
  lifecycle, authority, `model_operation`, writer;
* `Handed`: while the queue is open every ticket from the next turn on is in a
  producer's hand, so that none waits for a turn that nobody will take, and the
  reply writer has not ended.

A release, which holds the registry's write lock while it waits for lifecycle and
the authority, is not in the model (section 7).

**Model-checked only:** `ConnectionsRetire`, `DrainConcludes`, `LostIsRecovered`,
`ModelComesFree` and `TerminationConcludes` are liveness: liveness under fairness
and `ENABLED` are beyond the prover, as is induction over data with the library's
operator-parameter theorems. No module declares a
`RECURSIVE` operator.

## 6. Where the code and its documentation disagree

Four are runs, whose traces are the scenarios.

* `attach_fence_orphan`, **`DeathDetaches`**: four early returns between
  `take_over_view` and the control loop do not detach; a connection that dies
  there leaves its view attached for good, where
  `draft/remote-reconnect.md:399-403` counts on the host to detach it.
* `teardown_leak`, **`ReleasedOnceVisible`**: a create that fails after its child
  has started (`service.rs:2319`) releases its count with the session in neither
  table, against `service.rs:1230-1235`.
* `remote_feeds`, **`SingleFeed`**: two readers of one generation publish into one
  replica, against `lib.rs:665-666`. A view detached while it is being attached
  is re-inserted by `set_view` (`lib.rs:771-784`), the session goes live with no
  feed on record, and the next pane elects itself.
* `remote_ended`, **`EndedIsTerminal`**: `commit_reconnecting` does not look for
  `Ended` (`lib.rs:1193`), and two of its callers look before they wait, not after;
  `draft/remote-reconnect.md:174` says the state is terminal.

For each of the four a theorem of section 5 (`DeathAlwaysDetaches`,
`ReleasedAlwaysVisible`, `OneFeedAtATime`, `EndedStays`) proves the property where the
steps named here are not taken.

Six more are stated by definitions that no run spends its time on. Naming one
as the property of its module's configuration shows it:

* **`CollectedOnTheWayOut`** (`AttachFence`): the last handler asks for collection
  while its own scope still counts its connection as live, so its own watermark
  stays until the client's next attach "which may never come"
  (`lib.rs:5960-5963`).
* **`IdentityNeverReused`** (`AttachFence`, with `MaxForgets` 1): detaching forgets
  the generation counter, but the wire id stays the same (`lib.rs:3500`); the
  next attach repeats generation 1, against `lib.rs:603-605`.
* **`RecordIsCurrent`** (`ControlSync`): announcements that overtake one another, or
  the republication in `claim_control_at`, leave the daemon's record at an older
  revision than the last change (`lib.rs:1812`). The client's own cache is not
  affected (`ClientConverges`), until it reconciles from the record.
* **`TerminationGetsThrough`** (`TerminalIO`, under `PatientSpec`): a producer is
  said to wait "until the program reads its input or termination stops the
  waiting" (`replies.rs:15-20`). A claim whose answer waits holds the authority
  (`session.rs:2423`); `Command::Terminate` first detaches its client's views
  (`service.rs:3385`), needs the authority for it, and so never reaches the queue.
* **`ResizesAreAtomic`** (`TerminalIO`, no undo failing): the "Sidecar atomically
  resizes PTY and terminal state" (`draft/architecture-design.md:1220`). Two resizes
  in a row whose frames cannot be encoded leave the terminal at the size both
  refused, and the authority and the PTY at theirs: `effects_for_snapshot` stores the
  new metadata before it encodes (`model.rs:436`, `model.rs:462`), so the second
  `TerminalModel::resize` reads the refused size as the previous one
  (`model.rs:208-209`) and "restores" it (`model.rs:216`). Feeding output between the
  two refreshes the metadata and avoids it.
* **`NeverDisplaces`** (`ControlSync`): a claim before any controller is known
  carries no revision and is granted over the holder (`runtime.ts:2663`, against
  `runtime.ts:3235-3236`).

## 7. Not modelled, and what is left

In the order of what it would add:

1. **A release under `TerminalIO`'s locks**: `release_if` waits for `lifecycle`
   and the authority while it holds the registry's write lock; and a create's
   and a refresh's share of them.
2. **The tombstone store**: expiry and eviction. `SessionTeardown` has the
   removal that leaves a tombstone, and keeps it for ever.
3. **`close_session`**, the legacy wires and the compact transport.
4. **Frame resynchronisation**, **supervisor**, **routed control**, the frame
   hub: systems of their own, in TypeScript but for the last, that meet what is
   modelled only through the client's socket.

Not planned: the tunnel codec, frame encoding, text shaping, VT bindings,
configuration and FFI crates are sequential conversions whose correctness is
about content; IPC, mesh adapter and start-up are I/O; process-tree sampling
observes the operating system; the Apple clients and the user interface repeat
the viewer's surface over the same Rust calls.
