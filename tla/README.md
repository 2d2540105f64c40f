# K2: TLA+ models of its terminals, its messages and its frames

K2 runs coding agents in terminals and lets people and other agents write to
them. This directory models the four parts where a mistake would be hard to find
by testing: **k2-ptyd**, the process that keeps the agents alive over a restart
of the daemon (`crates/k2-ptyd`); the **delivery lanes** and their journal,
which type a message into an agent's terminal (`crates/k2-daemon`);
**federation**, the outbox and inbox between two K2 servers; and the **frame
ring**, shared memory between the app that captures a screen and the process
that encodes it (`crates/kessel-frame-ring`). The models are checked with TLC,
and nearly all of their safety properties are proved with TLAPS. Paths below are
relative to `src/`.

Contents:

1. [The system](#1-the-system)
2. [Modules and how they follow the code](#2-modules-and-how-they-follow-the-code)
3. [What is checked](#3-what-is-checked)
4. [What is proved](#4-what-is-proved)
5. [Where code and documentation disagree](#5-where-code-and-documentation-disagree)
6. [What is not modelled](#6-what-is-not-modelled)
7. [Plan](#7-plan)

## 1. The system

### k2-ptyd

One process, one thread, one `poll(2)` loop (`server.rs`, `Server::run`).

| Part | State | Operations |
|---|---|---|
| Ring (`ring.rs`) | `cap`, `start`, a `VecDeque` of bytes | `push`, `trim_front`, `restore`, `slices_from`, `copy_from` |
| Sessions (`server.rs`) | per `sid`: child, master fd, ring, pending input, attached stream and its `sent` offset, kill deadline and waiters, exit, meta | `do_spawn`, `master_readable`, `master_writable`, `try_reap`, `kill`, `ack_exit`, `update_meta` |
| Connections (`server.rs`) | kind (`Hello`, `Owner`, `Data{sid}`), write buffer, `closing` | `accept_all`, `conn_readable`, `conn_writable`, `on_hello`, `on_attach`, `drop_conn`, `reap_closed_conns` |
| Ownership | `owner`, `ownerless_since` | hello with `takeover`, drop, orphan timer |
| Life of the process | `shutting_down`, `exit_now`, `idle_since`, signal pipe | `begin_shutdown`, `on_signals`, `timers`, `cleanup` |
| Self-upgrade (`server/upgrade.rs`) | a handed-over state file and the inherited fds | `do_upgrade`, `write_state`, `read_state`, `resume_server` |

Clients are the daemon (the *owner*: one control connection plus one data
connection per session) and tools. A data connection gets a session's output
from an offset on, and carries input back. The protocol's promise is in the
offsets: a client that was cut off re-attaches at the offset it reached and
goes on with the next byte, even across a daemon restart, the session's exit or
an upgrade of ptyd.

The hard parts:

* **Several owners of one number.** Connection ids sit in `sessions[..].stream`,
  in `kill_waiters`, in `owner` and in `shutting_down`. Peers vanish, are kicked,
  evicted or drained in any order, and an upgrade restarts the ids at 1.
* **Order inside a handler.** `slices_from` clamps silently. A handler that
  moves a ring's start must cut the overrun streams *before* it flushes.
* **One session's output hurts another's reader**, through the total cap.
* **A child's last words.** `SIGCHLD` may come before its output was read, the
  terminal may outlive the child in a grandchild, and the hangup may come first.
* **Timers against everything else**: kill and shutdown deadlines, orphan and
  idle timeouts, the expiry of exited records.
* **exec in the middle of life**, with a failure on either side of it.

What makes it correct: no output is lost between terminal and ring; a stream
never skips bytes silently, and its end of file means "complete"; offsets never
go back; memory is bounded; no child is forgotten; one owner at a time; a kill,
a stop and an abandonment each come to an end.

### Delivery lanes, journal and take check

A Thread or project chat post writes a row to `delivery_journal` (SQLite), puts
a job on the in-memory lane of its agent (`delivery_queue.rs`, `LANES`) and
answers. The lane's thread marks the row started, types the line (waking the
agent if need be) and deletes the row. At boot `replay_on_boot` reads the
journal: rows that never started go back on their lanes, rows that started, or
are over an hour old, are given up with a notice in the Thread. A typed Thread
line is watched (`delivery_take.rs`): one the agent never read in is posted once
more, and a retry that fails ends in a notice.

Hard: a crash between any two of these steps, writes that fail, posts that come
while boot replays, a lane thread that ends while a job is appended, watcher
threads that start and leave. Correct: a line is never typed twice, lines reach
an agent in the order they were sent, a notice is true, and whatever is in the
journal is settled in the end.

### Federation

`handle_send` seals a message, writes it to the peer's outbox and dials the peer
unless older messages wait. A drain (one per peer; from the sweep, a kick or the
peer's own traffic) sends what is queued, oldest first, under a fresh nonce each
time. `handle_inbound` checks the nonce (memory), the message's id against
`federation-seen.json`, the address and the owner's consent, delivers, and then
records the id. Outbox, dead letters and seen list are files; all else is lost in
a restart.

Hard: lost answers, retries, direct dial against drain, concurrent handlers, a
restart of either side. Correct: a message reaches its chat once, in order; it is
never lost without a trace; the queue empties.

### Frame ring

A file mapped by two processes: a header (state, flags, heartbeat, `H_LATEST`)
and two or more slots, each under a sequence word that is odd while it is
written. The producer never waits and may be killed at any point; its advisory
lock tells the consumer that it lives. The consumer copies the slot `H_LATEST`
names and throws the copy away if the sequence word moved.

Hard: everything happens between two processes at the granularity of single
stores, and a new producer goes on from what a killed one left. Correct: no
mixed frame is handed out, the published slot is always whole, frame numbers
only grow, a reader that goes on reading gets the newest frame.

### Everything else

| Component | State, operations | What is hard | Properties worth stating |
|---|---|---|---|
| Owner side of ptyd in the daemon (`k2-core/src/terminal/ptyd`, `k2-daemon/src/ptyd_adopt.rs`) | owner connection, IO loop and reader per session, replay offset; adopt, reconnect, ack | daemon crash between exit and ack, takeover by a second daemon, an `exited` event that overtakes the session's last bytes | every session is adopted or acked exactly once; the screen is rebuilt from contiguous bytes |
| Compute node (`k2-node`) | ledger rows (SQLite), fair queue, slots, job holders | reboot between accept and start, replayed attempts, adoption of jobs | a `(job, generation)` runs at most once; queued rows survive; a slot has one lessee |
| Awareness bus, heartbeats, permission cards, compute scheduler | see `PROJECT.json` | budgets, clocks, retries | later |

## 2. Modules and how they follow the code

| Module | Content |
|---|---|
| `PtydRing` | `ring.rs` as operators: `Push`, `TrimFront`, `Restore`, `SlicesFrom`, `CopyFrom` on bytes, and `PushN`, `TrimN`, `RestoreN` on *extents* (`cap`, `start`, `len`) |
| `PtydRingLog` | one ring next to the log of everything pushed; `MCPtydRingLog` its instance |
| `Ptyd` | the server and the self-upgrade; `MCPtyd` its instances |
| `SessionHost` | what k2-ptyd promises its clients: an abstract specification of a session's window and its reader |
| `PtydHost` | the refinement mapping: `Ptyd` as a `SessionHost` |
| `Delivery` | lanes, journal, boot replay, take check; `MCDelivery` its instance |
| `Federation` | outbox, dial, drain and sweep of one server, inbound handler of another; `MCFederation` its instances |
| `FrameRing` | producer and consumer of the frame ring; `MCFrameRing` its instance |
| `PtydRingProofs` | theorems about the ring |
| `PtydProofs` | types and streams of the server |
| `PtydOutputProofs` | output accounting and offsets of the server |
| `PtydLifeProofs` | children, kill waiters, owner, end of file |
| `PtydHostProofs` | the refinement of `SessionHost` |
| `FrameRingProofs`, `FederationProofs`, `DeliveryProofs` | theorems about the other three systems |

`PtydRing` has no state and is extended by both machines. `Ptyd` counts bytes
instead of storing them, so a ring is its extent there; the theorem
`ExtentsAgree` says that this loses nothing.

**Actions are handlers.** Every handler of the loop and every clause of
`timers()` is one action, with every call it makes: `MasterReadable` and
`TryReap` push, enforce the total cap, cut overrun streams, kick their
connections, tell the owner and flush (`AfterPush`). `PROJECT.json` maps each
definition to its lines.

Decisions a reader should know:

* A loop whose rounds are independent (reap every child, flush every stream) is
  one action per round. The model then allows other handlers in between, which
  is more than the program does. A handler that sets `exit_now` leaves the rest
  of the round to run until `LoopEnds`; the timers, which run last, exit at once
  (`ExitProcess`).
* `master_readable` is `MasterReadable` (bytes) and `MasterHup` (end of file or
  `EIO`); one wake is one push of what was read.
* `enforce_total_cap` is the relation `TotalCapCut`: it empties largest rings and
  shortens the next. Ties, which the code breaks by map order, stay open.
* Queued control bytes are one flag (`wbuf`); replies have no content. The
  exception is `List`, whose answer may exceed `MAX_FRAME`: that closes the
  owner's connection.
* Every request that only answers is `RequestAnswered`. A client sends one hello
  and one attach per connection, as `client.rs` does.
* Time is counted in ticks and each age is cut off where no clause tells it
  apart any more. `kill_deadline` and `shutting_down` count down.
* An exit of ptyd leaves nothing: `Serve` starts the next process. A child that
  is alive at that moment is what `NobodyOrphaned` is about.
* Upgrade is four actions. `UpgradeResumes`: exec, state read, ids from 1,
  streams and waiters gone. `UpgradeDies`: exec, but `read_state` refuses (too
  much input, a header over `MAX_HEADER`) or the kernel refuses a descriptor, a
  read or the signal pipe (stimulus `fault`). `UpgradeKilled`: exec, and
  `SIGTERM` comes before `install_signals`. `UpgradeExecFails`: all connections
  dropped, the old image serves on. Whatever is refused before `ok` is
  `RequestAnswered`; input read on the way is `InputTo`.
* `TryReap` is one action, but other processes with the terminal open write
  while it runs (`LateWrites`), and `drain_master` may get any number of bytes
  from what 1024 reads are sure to get (one byte each, `DrainReads`) up to all
  there is. What it leaves is lost with the close of the master; `late` bounds it.
* The environment (`Tick`, `PeerVanishes`, `ChildWrites`, `ChildExits`,
  `SlaveCloses`, `Sigterm`) is marked external. `ChildExits` may leave the
  terminal open in a grandchild. `Stimuli` says which of the client's and the
  kernel's doings an instance contains.

**`SessionHost`** knows no connection, ring, timer or signal. A session is a
growing stream of which a window `start..end` is kept, with at most one reader
at a position in the window. The reader is attached somewhere in the window,
moves forward through bytes that are kept, or is cut off. A stream grows only
while the session runs, ends once, and only an ended session is forgotten while
the host lives. `PtydHost` maps the ring to the window and the attached data
connection's next offset to the reader. One push of `Ptyd` can move several
sessions at once (the total cap), so a step of `SessionHost` moves any number.

**`Delivery`.** One action per step that another thread or a crash can separate:
`Post` (record), `QueueJob` (`run_later`, all under the lanes lock), `TakeNext`,
`Started`, `Typed`, `StartWatcher`, `Finished`, `LaneEnds`; `Tick` and `Leave` of
the watcher; `ReplayRead`, `Requeue`, `Abandon`, `DropRow`, `ReplayDone` of boot.
Every journal write may fail, as the code logs and goes on. Where no lane
thread can be started the caller's own thread runs the job, so posts and boot are
threads of their own. What the take check decides (stamp, screen, idle time) is a
choice. An item is a post or its retry; `marks` is history that says what went
wrong around it, and the properties name the marks they except.

**`Federation`.** One sender, one receiver, messages numbered by `signal.at`. A
request is a record that goes from `sent` through the receiver's steps to an
answer, which is dropped if nobody waits for it any more; it carries the seen
list that `record` has loaded and not yet written back. Reading the list may give
an empty one and writing it may fail (`load`, `RecordSaveFails`), as may the write
of a dead letter; each is a fault. `fate` says why a queued copy was given up and
is set where the sender acts on an answer; `excused` collects the messages that
the duplicate check could not hold off. What a message
meets at the receiver (`live`, `tray`, `declined`, `unknown`) is chosen in
`Init`. The backoff is only a delay: `drain_peer` may start whenever none runs.

**`FrameRing`.** One action per store or load that the other side can tell apart;
between the fences of a push, and of a copy, words are stored and loaded in any
order, which is what the relaxed accesses allow. `Close` is both the end of a
finished producer and the kill of a running one. The words of a slot hold the
number of the push that wrote them, so a mixed copy shows. Stores of one process
become visible one at a time: weaker memory effects than these reorderings are
not modelled.

Mutants (operators with a comment "Mutant") stand before the definition they
would replace. No specification uses them.

## 3. What is checked

| Run | Instance | Shows |
|---|---|---|
| `ring` | two byte values, several capacities, chunks up to 4, 6 bytes | `Bounded`, `HoldsTail`, `ReadsExact`, `Monotonic`: the ring is the newest part of the log, read exactly from any offset and any split |
| `streams` | 2 sessions, 2 connections, rings of 2, total cap 3 | `StreamOK`, `NoSilentGap`, `NeverLosesOutput`, `EofMeansComplete`, `MemoryBounded` |
| `upgrade` | 1 session, 2 connections, ring of 1, reads of 2 | the same, `OffsetsMonotonic` and `ImplementsSessionHost` with upgrades, failed execs, input, hangups, acks, metas |
| `lifecycle` | 1 session, 2 connections | `ChildTracked`, `OwnerLease`, `WaitersKnown`, `RunningOnlyExits` with takeovers, kills, shutdowns, `SIGTERM`, timers, upgrades whose new image resumes, fails or is killed |
| `liveness` | 1 session, 1 connection, timeouts of 1 tick | `KillEnds`, `MastersAlwaysRead`, `AbandonedPtydExits`, `TermStops` |
| `frame_ring` | 2 slots, 2 words besides the frame number, 2 tries, 3 frames, 3 producers | `NeverTorn`, `PublishedWhole`, `NumbersGrow`, `ProbeSteady`, `NewestReached` |
| `federation` | 3 messages, 2 of them queued before the start, queue of 2, seen list of 1, 2 faults, two assignments of what the receiver does | `DrivenOnce`, `InOrder`, `NothingVanishes`, `QueueEmpties` |
| `delivery` | a Thread and a project chat post to one agent, one retry, 2 crashes or a crash and a fault, take check on and off | `TypedOnce`, `InSentOrder`, `NoticeOnlyWhenCut`, `Settled` |
| `upgrade_input`, `late_spawn`, `evicted_owner`, `federation_twice` | small | the disagreements 1 to 4 of section 5 |

**Bounds.** In `streams` the total cap (3) is smaller than the two rings
together (4) and each child writes as much as its ring holds, so the cap cuts a
session other than the one being read. In `upgrade` one read (2) is longer than
the ring (1), so a single push overruns a reader. Two connections are an owner
and a reader, or two rival owners, or a reader replacing another. Ids are used
up within an image and restart with an upgrade. `InputMax` 0 makes the resume
fail for any pending input; it stands for 16 MiB. `DrainReads` is 1 (1024 in the
code): a terminal with two bytes in it, or one that a grandchild writes to during
the reap, is not sure to be emptied. `HeaderMetas` is the number of full metas
that fit `MAX_HEADER`: 1, and 0 in `upgrade`, where a full meta makes the resume
fail.

In `frame_ring` three frames go round two slots, so the slot a suspended reader
copies is written again; three producers are a killed one, its successor and one
more; `MAX_SEQ` and `MAX_FRAME_NO` are not reached (after 2^61 and 2^56 frames). In
`federation` the queue of two is full from the start, so the third message evicts
one or waits; the seen list holds one message (512 in the code), so every second
record pushes one out; a request that times out at the sender while the receiver still
works on it is one fault, so two faults are a timeout and a crash, or two
retries. One message may expire. In `delivery` the order of two posts, a crash
in the replay of the first crash and one failed write or spawn are all within the
bounds; the retry goes through journal and lane like a post. `MaxRetries` is 1 there, and
`TypedOnce` counts a watch that is still running as the retry it may lead to, so
a second retry would show as a watch beside a retry, before the bound is met.

**Timeouts in the safety runs are 0**: a timer may then fire at any moment after
it was armed, and does not have to. This covers every duration and every order
of timers. The liveness run uses 1 tick, so that time has to pass.

**Symmetry** (sessions) is used in `streams` only, which checks no liveness.

**Fairness** (`FairSpec`): weak fairness of the clock, of the steps by which the
loop services a due timer, a signal, a readable master or a dead child, and of
the death of a child that got `SIGKILL`. The loop justifies it: `poll` returns
at the latest after one second (`next_timeout_ms`), one round services
everything ready, and the timers run in every round. Nothing is assumed of
clients, nor of children that ignore `SIGHUP`. The liveness instance has no
attached reader, takeover, shutdown request or upgrade: a repeated shutdown
request moves the deadline each time, and an upgrade can lose a `SIGTERM` (see the
hazards). So `MastersAlwaysRead` says nothing of a reader that stalls.

`Delivery`: the threads of a running daemon are scheduled, and a job ends: its
waits (inject lock, wake, retries) are bounded, and a panic is caught. `Tick` is
fair because an agent that stays idle or busy is decided in the end
(`BUSY_CAP_MS`). Posts and crashes are not forced. `Federation`: weak fairness of
"some started thread, handler or drain goes on", as every dial has a timeout of
20 s and the sweep ticks for ever; faults are bounded and not forced, so
`QueueEmpties` says what happens once the network is back. `FrameRing`: the app
never waits inside a call and keeps calling `try_read`; strong fairness of the
call because probes and other calls come between. Nothing is assumed of the
producer.

Deadlock is checked in every run of `Ptyd` and of the ring; a ptyd that stopped
is started again. The other three systems may rest (all is delivered, the
consumer is gone), so their runs do not check it.

## 4. What is proved

Each theorem holds for every value of the constants that satisfies the module's
assumption (`RingAssumption`, `PtydAssumption`, `FrameRingAssumption`,
`FederationAssumption`, `DeliveryAssumption`). The runs evaluate the assumptions.
They say that bounds and timeouts are natural numbers, ring sizes are between 1
and `RingMax`, `NoSid` is no session, a frame ring has at least two slots and its
counters do not wrap within the bound (2^56 frames in the code), outbox and seen
list hold at least one message, and the messages queued at the start fit. No
theorem has a hypothesis of its own. Every invariant was checked with TLC before
it was proved.

**The ring** (`PtydRingProofs`)

* `RingHoldsTail`: the ring is well-typed, bounded, and is the log from `start`
  on. The conjunction is inductive (`RingTypes` and `RingBounded` are parts of
  it). The work is in the sequence lemmas (`DrainDrain`, `DrainConcatLeft`,
  `DrainConcatRight`): what is left of a concatenation when its front is dropped.
* `ReadsWhatWasPushed`: from the same invariant and `CopyFromExact`, reading is
  exact for every offset and every split of the `VecDeque`.
* `RingMonotonic`: neither end of the window moves back.
* `ExtentsAgree`: extents commute with push, trim and restore.

**The server** (`PtydProofs`, `PtydOutputProofs`, `PtydLifeProofs`). `Next` has
some 45 actions. Each property first gets a relation between a session (or the
connections) before and after a step, weak enough for every action to be an
instance and strong enough for the invariant to follow from it; the lemmas
`ConnStep...`, `RequestStep...`, `SessionStep...` and `ProcessStep...` show it
action by action.

* `TypeCorrect`: `TypeOK` is inductive by itself. `AfterPushFacts` carries the
  weight: it follows a pushed ring through the cap, the cut, the end of the
  session and the flush.
* `StreamsSafe`, `StreamsAgree`: `NoSilentGap` and `StreamOK`. They are not
  inductive alone: `AcceptAll` writes the record of the next connection id, and
  nothing in them says that no session streams to that id. `StreamInv` adds
  `ConnsFresh`. Most steps are instances of `StreamsKept`: streams are left or
  cut, what is left is in its window, and a connection loses its session only
  with the stream.
* `OutputKept`: `NeverLosesOutput`. `drain_master` reads nothing once the master
  is closed, so the proof needs `Dry`, that a closed master had an empty
  terminal. Every action does one of seven things to a session (`Accounted`); the
  reap is the one that may lose bytes, at most `late` of them (`ReapFacts`,
  `HungFacts`).
* `MemoryKept`: `MemoryBounded`. `TotalLen` is the number of pairs of a session
  and a position in its ring, so that the library's facts about finite sets
  apply: what is left of all rings and the stretches that were cut off them are
  disjoint (`StretchSize`, `DisjointSize`), and the cut is the excess over the
  cap (`CutReachesCap`). `PushBounded` follows a push through the cap; no
  other handler adds a byte (`CalmBounded`).
* `OffsetsNeverGoBack`: the action property `OffsetsMonotonic`, from the same
  seven cases.
* `ChildrenTracked` and `KillWaitersKnown`: `LifeInv` adds `MastersRun`, an open
  master belongs to a running session, without which the reap of a drained
  session could forget a child. Every step of a serving process makes each
  session `Lived`; the other steps end the process (`Quits`), and then no child
  of a session that had to be kept is left.
* `RunningSessionsOnlyExit`: `RunningOnlyExits`. A step that ends the process is
  one that no running session stands in the way of, or a new image that ended
  before it served (`UpgradeFails`): its resume failed or a signal killed it.
  These two are excepted in the property, since the code does not rule them out
  (disagreements 1 and 9).
* `OneOwner`: `OwnerLease`. A stopped process has no owner (`OwnerInv`), or the
  next one would start with a stale one.
* `EofComplete`: `EofMeansComplete`. A connection that ptyd shuts while the
  reader is there was shut before and its session has not grown since, or its
  session is drained now (`ShutWell`); `EndedStays` keeps the second.
* `PtydIsSessionHost` (`PtydHostProofs`): `ImplementsSessionHost`. `SessionMoves`
  shows that the view of every session stays or makes one of the moves of
  `SessionHost`, from `Accounted`, `Lived` and the stream invariants; `HostStep`
  joins the views into one step of the host.

**The frame ring** (`FrameRingProofs`)

* `NewestWhole`: `PublishedWhole`, from `FileInv`. `Counts` says that a producer's
  own counters agree with the file, also with one that a killed producer left
  behind; `Stored`, which words of the frame in hand are in its slot;
  `SlotsWhole`, that only the spare slot may be odd or hold an unpublished frame.
  The last is what makes it safe to start over after a kill.
* `FramesWhole`, `NumbersOnlyGrow`: `NeverTorn` and `NumbersGrow`, from `FileInv`
  and `Copying`: as long as the sequence word is the one the consumer saw, the
  words copied so far are the slot's. Sequence words only grow, so a slot that
  was rewritten cannot look unmoved.
* `ProbeTruthful`: `ProbeSteady`, from `Owners` (the lock tells who is inside) and
  `Probing` (what the probe has seen so far still holds of the present).
* `TypeCorrect`, with `Trying`: a read that has begun has a try left.

**Federation** (`FederationProofs`). Every step is `Quiet`, enqueues, posts, or is
one step of the receiver (`StepKinds`), and each invariant is shown once per kind.

* `TypeCorrect`: needs `Sealed`, that whatever is queued, drained or waited for
  has been sealed.
* `NoneLost`: `NothingVanishes`. A message leaves the queue on an answer, so the
  answers must be true: `Truthful` says that a seen message, a loaded list and a
  positive answer stand for a delivery or a decline. `fate` is not the receiver's:
  it is set when the sender gets the answer to its own dial, and the two ways out
  that tell nobody are fates of their own, `unheard` and `unwritten`
  (disagreement 6). `NonceInv` says that a
  nonce is used by one request and no request is refused as a replay; otherwise a
  "replayed" answer could remove an undelivered message.
* `ArriveInOrder`: the action property `InOrder`. `InLine` says that a request is
  under way only when everything ahead of its message is gone, and that a drain's
  snapshot has the rest in front of it. It rests on `NoneLost` and on the lemmas
  about the sort of the outbox (`RankFacts`, `SortedFacts`).
* `DeliveredOnce`: `DrivenOnce`, for any length of the seen list. `OneHandler` says that
  outside the excepted overlaps a message has one handler past the duplicate
  check, and once delivered is in the seen list or about to be written to it;
  `SeenKept`, that a loaded list has nothing the file lacks but excused messages.
  A full list that forgets its oldest entry, a save that fails and a file that
  cannot be read put the message they forget among the excused (disagreement 7).

**Deliveries** (`DeliveryProofs`)

* `TypeCorrect`: the types, and what they need: whatever is under way was posted,
  only Thread lines posted while the take check was on are watched, a lane
  without a thread is empty.
* `Origins` (not a property of a run, but the base of the next three): an item is
  recorded once, and until then it is nowhere; the journal and boot's snapshot
  hold one row per item; a job waits on its own lane; what was queued without a
  row has none later. The lemmas `JournalSteps`, `JobStems` and `PostingStems`
  say where a row, a job or a post after a step comes from.
* `NoticesTrue`: `NoticeOnlyWhenCut`. `StartedTrue`: a row marked started belongs
  to a thread at work on it, unless a crash, a failed delete or boot's overlap is
  on record. `SnapshotTrue`: in boot's snapshot only the latter is left, as the
  threads of the old life are gone. `OwnLife`: what this process queues and runs
  is known to be its own, which is how an overlap is recognised.
* `LinesTypedOnce`: `TypedOnce`. `OneCopy`, for every item that has not lost its
  mark or been overlapped: an item still to be typed is in one place (a post
  under way, a lane, a thread, an unstarted row of boot's snapshot), and once
  typed it is in none and its row has started. `RetriedOnce`: the watches of a line and the
  retries it had are together at most one, and come only after it was typed.
* `LinesInOrder`: `InSentOrder`. `PairInv` is about every pair of posts to one
  agent of which the first had answered when the second was recorded: while the
  second is under way boot has nothing left of the first; on the lane's queue the
  first is ahead; and once the second is on a thread or typed, the first is
  `Dead`, in no queue, thread, snapshot or due row, and stays so (`DeadKept`).
  That the first is dead at the moment the second gets its thread rests on
  `OrderInv`: rows are in the order of their posts and boot drops only rows it
  would not send (`BootInv`); a post that answered is past its queue step
  (`AnswerInv`); a lane's thread runs the lane's jobs (`LaneOwn`); what is under
  way before boot is done has the mark `early` (`EarlyInv`); and a row that boot
  would send again is held by a post, a lane, a thread about to start or the
  snapshot, unless it was not read or not marked (`DueHeld`).

**Only model-checked**, and why:

* Liveness (`KillEnds`, `MastersAlwaysRead`, `AbandonedPtydExits`, `TermStops`,
  `NewestReached`, `QueueEmpties`, `Settled`): the prover does not reason about
  fairness.
* What the recursive definitions of the community modules compute, beyond the
  lemmas of the library.

## 5. Where code and documentation disagree

The first four are runs that TLC ends with a counterexample. Quotes are in
`PROJECT.json`.

1. **`upgrade_input`.** `write_state` hands over any amount of pending input and
   `read_state` refuses more than `CTRL_WBUF_MAX`. The refusal comes after `ok`
   and the exec, in a process that can only exit, and every session goes with it.
   The module's header promises that a failure changes nothing or keeps serving.
2. **`late_spawn`.** With no session running, `SIGTERM` only sets `exit_now`. A
   spawn handled in the rest of that round checks `shutting_down` and not
   `exit_now`, so an agent starts and is left behind when the loop ends.
3. **`evicted_owner`.** After a takeover the old connection is still of kind
   `Owner` until its `evicted` event is written, and its requests are executed.
4. **`federation_twice`.** `handle_inbound` checks the seen list before it
   delivers and writes it afterwards. `handle_send` enqueues before it dials, so a
   drain that starts meanwhile (a second message, the sweep, the peer's own
   traffic) dials the same message under a fresh nonce while the first request
   is being delivered (a wake takes up to 20 s). Both are delivered. `seen.rs`
   says that a duplicate is refused "BEFORE it can drive a chat twice".
   `DrivenOnce` shows that this overlap, the receiver's death between delivery
   and record, and a seen list that forgot the message (7) are the only ways.
5. **Posts during boot.** `daemon_main.rs` calls `set_ready()` and then
   `replay_on_boot()`, which reads *every* row of the journal. A post recorded in
   between is in the snapshot and on its lane. If its job has not started it is
   queued a second time and typed twice; if it is running, its row counts as "died
   mid-delivery", its Thread is told that K2 restarted while typing, and the row
   goes. It also overtakes the older rows that boot has not queued again yet,
   though the comment above the call promises "the order they were sent". Requests
   held in `dispatcher.rs` until `ready` make such posts likely at exactly that
   moment. The properties of `delivery` except these posts (marks `overlapped`
   and `early`); without the exceptions TLC finds all three in a few steps.
6. **Messages that leave the queue undelivered.** When a wake fails the receiver
   answers 200 with `delivered:false` and does not record the message because it
   "is still owed, and the sender's drain keeps it queued for retry"
   (`federation_routes.rs:574`). The drain does (`Disposition`), but `handle_send`
   removes the queued copy on any 2xx and tells its caller `declined`: fate
   `undelivered`. A decline is recorded as seen so that "senders dead-letter it"
   (`federation_routes.rs:598`); if its answer is lost the retry is answered
   409 and the drain counts it as delivered ("That IS a delivery",
   `federation_drain.rs:428`), with no dead letter and nobody told: fate
   `unheard`. A dead letter that cannot be written is logged and the queued file
   removed (`federation_drain.rs:345`): fate `unwritten`. `NothingVanishes` shows
   that besides these three there are only delivery, a written dead letter, a
   decline the sender was told of and eviction from the full queue.
7. **A seen list that forgets.** `seen.rs` calls its cap (`SEEN_PER_PEER_CAP`,
   512) "far deeper than any plausible redelivery window". It is deeper than the
   queue, but a request that is still on its way is not in the queue: a POST times
   out at the sender and stays on its way, the message is delivered by a retry,
   later messages push it out of the list, and the late POST, whose nonce is new,
   is delivered again. The run `federation` has a list of 1, so this happens in
   it. The same follows when `record` overwrites what a concurrent handler wrote
   (it reads, changes and writes the file without a lock), when a save fails,
   which is only logged, and when the file cannot be read, which counts as empty
   and is then written back so. `DrivenOnce` excepts exactly the messages
   forgotten in one of these ways and those of disagreement 4.
8. **An unwritten mark and the order.** `entry.started` logs a mark it cannot
   write and the line is typed all the same. The known price is a line typed
   twice after a restart; the proof of `InSentOrder` brought out another: the job
   of an unmarked line panics before it types, the line of a later post to the
   same agent is typed, the daemon restarts, and the replay types the earlier line
   after the later one. It takes two faults and a crash, one more than the run
   `delivery` has; TLC finds it in 19 states with a second fault. `InSentOrder`
   excepts these lines (mark `unmarked`).
9. **A signal during the resume.** `exec` resets the handlers, and the new image
   installs its own only after it has read the state (`upgrade.rs:611`). A
   `SIGTERM` before that kills it by the default action, with every session,
   where the comment in `on_signals` says "End the agents with grace". It is one of the two
   exceptions of `RunningOnlyExits`.
10. **Output at the reap.** `try_reap` says "Drain whatever the child left in the
   PTY, then hang up the slave". `drain_master` gives up after 1024 reads, and the
   master is closed after it: output beyond those reads, or that a process the
   child left behind writes in between, is lost. `NeverLosesOutput` shows that
   nothing else is.

## 6. What is not modelled

* Held fds (`hold_unix_listener`, `hold_fd`, `take_fd`, `release_fd`).
* Framing, JSON and the HMAC handshake: pure encoding. A refused hello is
  `HelloRefused` whatever the reason.
* Process setup: directories, lock, key, fork and exec of a child, resize.
* The size of `wbuf`, and the connection that a shutdown answers.
* Of federation: pairing, roster, signatures and the clock skew check, trust
  changes and the air gap (they leave the queue alone), the caps of the nonce
  cache and of the dead letters (`dead` holds every message that a dead letter was
  written for, also when `MAX_DEAD_PER_PEER` has removed it since).
* Of the frame ring: stop requests and the frame rate, a file that shrinks or is
  replaced, the scaling of pictures, counters, the wrap of numbers.
* Of deliveries: what is typed and how the agent's session is found and woken
  (`workspace_msg`), the Thread turn, the text of notices. The watches are lost
  in a restart, in the code as in the model.
* "Everything else" of section 1, and the components of `PROJECT.json` with
  status `not_modelled`, with their reasons. K2 is a large program, most of it
  routes, storage, formats and user interface; the models are of the parts whose
  order of steps matters.

## 7. Plan

Every invariant and action property that a run checks is proved. What would
come next:

1. `PtydOwner`, the daemon's side of ptyd (owner connection, reader, adoption,
   ack), composed with `SessionHost` in place of `Ptyd`, through a daemon crash
   and a takeover; held fds in `Ptyd`.
2. `NodeLedger` with `NodeSlots`: attempts of the compute node over a reboot.
