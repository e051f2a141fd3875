# A verification project for eve-media

eve-media is the program of a small voice device (a Raspberry Pi with a round
display, a button, a microphone and a speaker). It is about 2,700 lines of Zig
and C++ under `src/src` and `src/include`; the rest of the repository is
vendored (`src/lib`). It draws a pair of animated eyes, streams the microphone
to a server while the button is held, and plays what the server answers. It has
no tests and no documentation besides its comments.

These modules model its concurrent core: the event loop of the main thread, the
work-stealing thread pool with its futex event and its lock-free queues and
ring buffers, the WebSocket session, the eyes that two threads animate, a
recording on its way from the button to the session, the player, and the order
in which all of it starts. TLC checks them on small instances. TLAPS proves
the invariants they rest on, and most refinements, for every value of the
constants.

Paths below are relative to `src/` of the repository; a bare file name is in
`src/src`.

## 1. Inventory

Threads of the running program: the **main** thread (`App.run`, then
`EventLoop.loop` for ever), two or more **pool workers** (one runs the vsync
loop, one polls the button; both loops run until they are cancelled, and nobody
cancels them), the **network** thread (`ioc.run()`), and the **PulseAudio**
thread.

| component | state | operations | talks to |
|---|---|---|---|
| Event loop `event_loop.zig` | FIFO of tasks, mutex, word pending/notified/woken that is also a futex | loop = wake, tick, sleep; enqueue, notify | called by the vsync worker; runs `FrameScheduler.draw` |
| Thread pool `thread_pool.zig` 12-374 | packed word `sync` (idle, spawned, notified, state), stack of threads, pool queue | schedule, notify, wait, register, unregister, pop, run | the futex event, queues, buffers, task tokens |
| Futex event `thread_pool.zig` 377-462 | one word EMPTY/WAITING/NOTIFIED/SHUTDOWN | wait, notify, shutdown | idle workers |
| Run queue `thread_pool.zig` 475-572 | Treiber stack with HAS_CACHE and IS_CONSUMING bits, consumer's cache | push, tryAcquireConsumer, pop, releaseConsumer | pool and each worker own one |
| Run buffer `thread_pool.zig` 575-768 | ring of 256 slots, 32-bit head and tail | push (overflow to the queue), pop, consume, steal | owner and thieves |
| Task token `thread_pool.zig` 61-101 | initialized/executing/finished, canceled | start, finish, join, cancel | worker, `stop()` of the clients |
| Work pool `work_pool.zig` | lazily created pool, `loaded` | get, schedule | main thread only |
| Frame scheduler `ui/synchronization.zig` | vsync task, draw task, image | start, stop, simulateVSYNC, draw | pool, event loop, view |
| Button client `button_client.zig` | `pressed` of its loop | start, stop, polling loop | pool, microphone feature |
| Eyes `eyes.zig`, `ui/view.zig`, `ui/animation.zig` | state, seq_count; current frame set; key_frame_index, frame_index of three animators | idle, listen, clip, next; playState, draw; eval, reset, ended | main thread and button worker, no lock |
| Microphone and speaker `streaming.zig` | - | prepare, start, stop; play | media client, network client, eyes |
| Session `Session.cpp`, `NetworkClient.cpp` | connection, queue of messages | run, send, onResolve .. onWrite; sendStart/Audio/Stop | any thread posts, network thread runs |
| Media client `MediaClient.cpp`, `CountDownLatch.cpp` | PulseAudio streams, player and recorder buffers, latch | prepare, player write/callback, recorder start/stop/callback | PulseAudio thread, network thread, button worker |
| Application `app.zig` | the features and their listeners | run, bind, the callbacks | everything |
| GPU `c/GpuC.cpp` (driver in a submodule), `EyesView.cpp`, `binder.zig`, `utils/Semaphore.cpp`, `lib/*` | not built, not used, or vendored | | |

### What makes it hard, and what must be right

* **Event loop.** An `enqueue` may fall anywhere between the last look of
  `tick` at the queue and the futex wait of `sleep`. The main thread must not
  sleep on a queue that has a task and nobody to wake it; tasks run in order,
  one at a time, once.
* **Futex event.** One word is the token, the sleepers' flag and the futex. A
  thread that takes the token must put WAITING back if it may not be the last
  sleeper, or the others are never woken.
* **Thread pool.** `notify` leaves out nearly every wakeup because another one
  is under way. What must be right is that the wakeup that is left is enough:
  no task lies in a queue while everybody sleeps. At most one thread is the
  waking one; the counts in the packed word are the true ones; a task is in one
  place and started once, also when buffers overflow and thieves race; creating
  a thread can fail between the count and the thread.
* **Session.** Boost.Beast allows one write at a time and reads the message in
  place until it is done. Messages go out in order, whole, once. A write can
  fail, and `send` can be called before the handshake is done.
* **Eyes.** A state machine (idle twice, clip once, listening while recording)
  is advanced by the main thread, which draws, and reset by the button worker,
  with no lock: indices of one animator can be seen between two of its writes.
* **Recording.** start, audio, stop must reach the session in that order,
  though three threads send them.
* **Player and recorder.** Buffers shared by PulseAudio's thread and another,
  with the lock given up between the size and the copy.
* **Start-up.** The order of `App.run` against the first callback of each of
  the other threads; a latch that only a ready context counts down; a lazily
  created event loop that two threads may create.

`PROJECT.json` lists each hazard at its line with the properties that would
catch it; those without a property say why there is none.

## 2. Modules

| module | of | what it is |
|---|---|---|
| `TaskFifo` | abstract | a FIFO of tasks, one running at a time, each taken in the end |
| `EventLoop` | `event_loop.zig` | the loop and its producers to the atomic operation |
| `TokenEvent` | abstract | a semaphore with one token |
| `Event` | `thread_pool.zig` 377-462 | wait and notify to the atomic operation and the futex |
| `TaskPool` | abstract | what is scheduled is started, once, `Width` at a time |
| `TaskSets` | abstract | queues, buffers and hands as sets: each task in one place, one consumer per queue |
| `ThreadPool` | `thread_pool.zig` 12-374 | schedule, notify, wait, pop, run; the idle event is `TokenEvent`, the containers are `TaskSets` |
| `RunQueue` | `thread_pool.zig` 475-572 | the intrusive stack, its two bits and the cache, to the atomic access |
| `WorkQueues` | `thread_pool.zig` 575-768 | the ring buffers on top of `RunQueue`, to the access of head, tail and slot |
| `Channel` | abstract | messages in order, each once, in the end |
| `Session` | `Session.cpp`, `NetworkClient.cpp` | the handler chain, `send`, the write queue, the worker thread |
| `Eyes` | `eyes.zig`, `ui/view.zig`, `ui/animation.zig` | both threads' calls, to the access of a shared field |
| `Recording` | `button_client.zig`, `streaming.zig`, recorder of `MediaClient.cpp` | button loop, microphone, read callback, PulseAudio's server |
| `Player` | player of `MediaClient.cpp` | the buffer, and the write callback a locked section at a time |
| `StartUp` | `app.zig`, `MediaClient.cpp` 14-84, `CountDownLatch.cpp`, `event_loop.zig` 71-92, `ui/synchronization.zig` | `App.run` against the first callbacks of every other thread; extends `Player` |
| `*Proofs` | | the theorems about the module of that name |
| `MC*` | | the small instances |

### How they correspond to the code

**EventLoop.** `loopPc` is the main thread's position: `Wake` is `wake()`
(52-54), `TickLock`/`TickTake`/`TickCallbackReturns`/`TickUnlock` are `tick()`
(44-50), which holds the mutex while a callback runs, `Sleep` and `FutexWait`
are the compare-exchange and the futex call of `sleep()` (56-60). A producer is
in `EnqueueLock`, `EnqueueWrite`, `Notify` (the swap of line 63) and
`FutexWake` (65-66). A futex wait may return for no reason (`SpuriousWake`).
A callback is a step that ends; it does not enqueue, as `draw` does not.

**Event.** `WaitAcquire` is the compare-exchange that takes the token and
leaves `acquire_with`, `WaitPrepare` the one that writes WAITING,
`FutexWaitSleep`/`FutexWaitReturn` the kernel's atomic compare-and-sleep,
`Notify` the swap, `FutexWake` the futex call after it. `shutdown()` has no
caller in the program (`ThreadPool.shutdown` has none either), so it is left
out.

**ThreadPool.** A step is one atomic operation on `sync` or on a queue or
buffer. `npc` is a process's position in `notify()`: the fast-path load
(`NotifyFast`), the compare-exchange (`NotifySlow` = `NotifyIdle`, `NotifyGrow`
or `NotifyNobody`), then the post, the spawn, or a spawn that fails
(`unregister(null)`). `pc` is a worker's position in `run`, `wait` and `pop`:
own buffer, own queue, the pool's queue, then as many victims as `sync.spawned`
said. Queues and buffers are sets: nothing above them depends on the order in
which tasks come out, and `capacity` bounds a buffer so that `Overflow` (half of
a full buffer and the new task, on their way to the thread's own queue, which
`PushOverflow` reaches) and the halving of `Steal` happen. A queue has one
consumer at a time; others see Contended and go on. The idle event is
`TokenEvent`, which `Event` is shown to implement; the containers are used as
`TaskSets` allows, and `WorkQueues` is shown to implement that. Tasks are
scheduled one at a time and once, as the program does; `Forever` are the tasks
whose callbacks do not return.

**RunQueue, WorkQueues.** A step is one access that another thread can see. The
word of a queue is a record of its three parts (`top`, `cached`,
`consuming`). `PushLoad`/`PushCas`/`PushFails` are the loop of `push`
(487-507), `AcquireLoad`/`AcquireCas`/`AcquireFails` that of
`tryAcquireConsumer`, `PopCached`, `PopFinds`, `PopNothing`, `PopSwap` are `pop`
and `ReleaseCache`, `ReleaseSub` are `releaseConsumer`. Of a buffer, `Push*` and
`Migrate*` are `push` with its overflow, `Pop`, `Take*` are `pop`, `Consume*`
and `Show` are `consume`, `Steal*` are `steal` with its retry (720), the copy
and the compare-exchange. A compare-exchange that fails is a step of its own
here (`MigrateFails`, `TakeFails`, `StealFails`). Indices count modulo `indices`
and start at `first_index`, which stands for a buffer that has been used that
often and is empty. Which queue or buffer a thread looks at next is
`ThreadPool`'s concern: here an idle thread looks anywhere.

**Session.** NetworkClient runs every handler on its one thread, so a handler is
one step. `Chain` is onResolve, onConnect and onHandshake: start the next
operation, or nothing after an error. `SendPost` is the calling thread's post
of a copy, `Send` the strand's part (42-60), `onWrite`/`onWriteError` the two
outcomes of 187-206. `Delivers` is the liveness of `Channel` for the behaviours
in which neither the connection nor a write fails. A write remembers whether the stream was open when it was
started: one that was not ends with an error. `WorkerExits` is the return of
`ioc.run()` when nothing is outstanding.

**Eyes.** `UpdateState(p)` is `updateState()` (`eyes.zig` 40-44) with
`playState()` and `reset()`, called by both threads: `seq_count`, `state`, the
listener with the state it set or the one there then, the three pointers of a
frame set (`ptr`, `anim`, `drawFramePtr`) in any order, the animator they lead
to, its two indices. The main thread also has `Draw` and `DrawFrame`
(`drawFrame()`, which reads two of the pointers), `EvalKey`, `EvalFrame`,
`AdvanceKey`, `AdvanceFrame` (`eval()`, `animation.zig` 263-290), `FindEnded`,
`Ended`, and of `next()` (`eyes.zig` 28-38) `NextLoad`, `NextStore`, `IsIdle`,
`IdleCount`, `IsClipping` and `ClipCount`: one step for each of its comparisons,
which leads on to the next one (`Asks`), to `updateState` (`Becomes`) or to the
listener (`Again`). Nothing here is atomic or locked, so where the source reads
a field twice in a function the second value is either the one in a register or
the one in memory; that covers a debug build and an optimised one. If a race
mixes the pointers, one frame set's function draws with another's animator
(they are laid out alike), and whether a height must not be negative
(`Panics`) goes by the function. `panic` is the safety check of the default
build. A float is cut to an integer as
`@intFromFloat` does, but computed exactly. `seq_count` is compared with 1 and
2 only and saturates at `Many` = 3. `races` counts the calls that began during
one of the other thread, and `raced` is that there was one; at the start main is
inside App.run's `idle()`, as the buttons are polled before it (`app.zig`
50-53).

**Recording.** `Press`, `Release`, `SendStart`, `RecorderStart`,
`RecorderStop`, `SendStop` are the polling loop (`button_client.zig` 44-62) and
what the microphone feature does in it. `ReadHole`, `ReadInsert`, `ReadLoad`,
`ReadCall` are `streamReadCallback` (`MediaClient.cpp` 256-284) with the
recorder's `read` (316-328) inside the callback. `ServerCorks` and `Capture`
are PulseAudio, which is external: cork requests are queued, and a packet can
be on its way when a cork is handled. A stream is `connecting` until the server
says `ready` or `failed` (`StreamReady`); before that `pa_stream_cork` is
refused, which the code only prints (`MediaClient.cpp` 226-238), and `refused`
remembers it. `Cork` and the callback exclude each
other by the mainloop lock; `Prepare` does not take it. The 100 ms that
`stop()` sleeps are no guarantee, so `SendStop` may come at any time, and
`late` remembers that the stream had not come to rest. Bytes are numbered in
the order in which they are captured, `taken` says in which recording.

**Player.** `Write` is `write()` (197-203) on the network thread. `Look`,
`Copy`, `StreamWrite`/`StreamWriteFails` and `Erase` are `streamWriteCallback`
(112-156): three sections under the mutex with the call of PulseAudio between
the last two. Bytes are numbered as they arrive, silence is 0.

**StartUp.** `main` is the position in `App.run` (38-56): `FramesStart`,
`NetStart`, `MediaStart`, `Await`, `ButtonsStart`, `MicPrepare`, `EyesIdle`, then
the loop. `pulse` is the position of `onContextReady` on PulseAudio's thread:
`MakeRecorder`, `RecorderPrepare`, `MakePlayer`, `PlayerPrepare`; `CountDown` is
the latch and `SpuriousWake` the condition variable's. `GetLoad`, `GetSet`,
`GetCreate` are `GlobalEventLoop.get()` (81-86), by the main thread and the vsync
worker, which enqueues what `Draw` draws. `Receive` is audio from the server,
`Press` the button; both use what `prepare` makes, and `Uses` records a null
pointer as `crashed`. `raced` and `greeted` remember the two things the source
leaves to luck: two calls in the first `get()`, and a server that speaks first.

## 3. Runs

| run | instance | what it shows |
|---|---|---|
| `event_loop` | 2 producers, 2 tasks, 3 in the queue | `IInv`, `NoLostWakeup`; refines `TaskFifo` with its liveness |
| `event_notified` | 3 waiters, 2 notifiers | no sleeper is forgotten; refines `TokenEvent` with its liveness |
| `pool_quiet` | 2 workers, 4 tasks, buffers of 2, spawns may fail | waking protocol, counts, places of tasks, `QuietMeansDone`; uses its containers as `TaskSets` |
| `pool_starts` | 2 workers, 2 tasks, one of which never returns | refines `TaskPool` with its liveness |
| `pool_signal` | 2 workers, spawns may fail | finding: `signaled` that nobody answers |
| `work_queues` | 3 threads, a client, 5 tasks, 4 of them the client's, all but one never return, buffers of 3, 21 indices | the bits and rings are what they say; refines `TaskSets`; a thief gives up on an empty buffer only |
| `session_faults` | 4 messages, everything may fail, sends at any time | one write, order, once; only a failed write gets it stuck; without one everything is delivered |
| `session_queue` | 4 messages, nothing fails, sends at any time | finding: the queue that is never written again |
| `eyes` | the real numbers of key frames in fewer frames, any number of presses, calls that meet at most twice | indices in bounds and no null frame set under races; until the first one no panic, animators rest in their segments, the view shows the state, idle eyes blink |
| `eyes_panic` | as `eyes` | finding: a press during a draw |
| `recording` | 2 presses, 4 bytes, packets of 0 to 2 bytes | no byte lost or reordered, start/audio/stop framed, the lag of a late `prepare()`, the microphone follows the button |
| `start_up` | 3 bytes, 2 draws queued, one failed write | what is used exists, one event loop, the loop is reached, early audio is played, in order |

**Bounds.** The event loop is symmetric in its producers, and all it
distinguishes of a queue is whether it is empty, so two producers (one between
write and notify, one after it) and three tasks show every combination;
`MaxQueue` is a guard of `EnqueueLock`. The event needs a waiter that takes the
token, one asleep and one on its way to sleep: three. For the pool two workers
give a waking thread and another that goes idle against it, four tasks
overflow a buffer of two (three do not: one of them runs). A buffer of two is
the smallest that `push` can halve. Two sleepers on one token need a third
worker; that the token is enough for any number of them is `event_notified`, and
the invariants of the pool are proved for any number of workers.

In `work_queues` the client schedules the tasks in `External` and callbacks the
other one; all callbacks but one (`Forever`) do not return, as the program's two
do not. Indices start at the last one, so the first use of a slot beyond the first
one crosses the wrap. The bounds are the smallest in which what is hard happens,
and TLC reaches each of these: a steal of two tasks (`steal_size` is 2 of a
buffer of 3), which leaves one to be shown in the thief's buffer (`StealShow`);
two thieves before their compare-exchanges on one buffer, with different heads
and different numbers of tasks read; a thief of two against the owner's `pop`
(`TakeCas`) and against its overflow (`Migrate*`); a thief whose head and tail
are further apart than the buffer is long (`StealAgain`); a consumer that fills
its buffer; each compare-exchange failing. What they leave out: two overflows of
one buffer, steals of more than two, a third thief, and a thief of a buffer
whose owner has stolen tasks it has not shown yet (`StealShow` of the victim).
`Words`, `Rings` and `GivesUpOnEmpty` are proved for all of these;
`TaskSetsSpec` is checked in this instance only. Each task moves one tail by one
when it is pushed, and each task that was taken along with others moves one tail
by at most the capacity. So no index comes round again between a thief's load
and its compare-exchange; `WorkQueuesAssumption` says so, `indices >
(capacity + 1) * Cardinality(Tasks)`. (With the program's 2^32 indices and
buffers of 256 that is sixteen million tasks while one thief is between two
instructions; the assumption is about the whole behaviour, which is more than
needed, and does not say what happens beyond.)

In `start_up` three bytes, asked for one or two at a time, leave a rest after a
short write and let one arrive between two sections of the callback; `MaxQueue`
cuts the draws that pile up while the main thread waits, and one failed write
tells an erase that is left out from one that is not. The session distinguishes
an empty queue, one message, and more: four messages leave one on the wire, one
in flight, one queued and one posted.

In `eyes` each frame set has the program's number of key frames (five, four,
three), with values that stay, rise and fall, but fewer frames between them:
segments of one frame or two, the last ones of two. So an animator comes to rest
in each of its segments, the last one included, is evaluated there, and is left
there by a press or reset at its end; every position is one that a press can
find. `MaxRaces` = 2 bounds the calls that begin while the other thread is in
one of its own (the guard `Meets` in `Press` and `Draw`); how often they begin
otherwise is not bounded. Two are a press during a draw and another call during
what that one has left halfway; each of the two can meet the other at every
access. `Invariance`, `InSegmentAlways` and `ShowsStateAlways` are proved for
key frames of any length and any `MaxRaces`. TLC also checks that the program's
own key frames (`AppKeyFrames`) satisfy the assumption under which the proofs
are.

In `Recording` `MaxPresses` = 2 allows audio of one recording to come out in the
next, and four bytes in packets of one or two, at most two packets under way
(the guard of `Capture`), make the buffer's front and the packet in hand differ
in size.

**Deadlock** is checked for the event loop and the event, which go on for ever,
and for sessions that do not fail (an open session always reads). It is not for
the pool (all tasks are done), nor for the queues (every thread may be in a
callback that does not return), nor for a session whose network failed (its
worker has exited), nor for the eyes (a panic ends the program), nor for the
recording (its bounds end it), nor for the start-up (a null pointer ends it).

**Fairness.** Weak fairness of each thread's steps inside a call: the operating
system runs every thread that can run. Nothing makes a thread call `enqueue`,
`wait`, `notify` or `schedule`. In the event loop a producer could take the
mutex again and again while the main thread waits for it; `MaxQueue` stops it in
the model, and in the program the only producer sleeps 32 ms between two calls.
In the pool, callbacks return unless they are in `Forever`, and the event does
what `TokenEvent` promises, which the run `event_notified` checks of `Event`
under fairness of its own. In the session operations complete one way or the
other and the strand runs what is posted. For the eyes the main
thread's steps are weakly fair, since vsync has it draw every 32 ms, and so are
the button thread's inside a call, never its press. `Blinks` is about
behaviours without a race. In `StartUp`
the main thread and PulseAudio's run, PulseAudio answers a connection one way
or the other, and a stream that is ready keeps asking; nothing makes the server
send or anybody press. `Recording` and `WorkQueues` state safety only. No
fairness is asked of failures, spurious wakeups or spawns that fail.

### Findings

* `pool_signal`: when a thread cannot be created, `unregister(null)` takes the
  count back but leaves `signaled` and `notified`; nobody takes the signal, and
  the fast path of `notify` drops every later notification. The comment on
  `signaled` says "A thread is woken up."
* `session_queue`: `onWrite` returns on an error and leaves the message at the
  head of the queue. Every later `send` finds the queue not empty and, by the
  test commented "Are we already writing?", starts nothing. Pressing the button
  before the handshake is done is enough.
* `eyes_panic`: `playState` on the button worker puts an animator's indices
  back to 0 while the main thread is in `eval()`. It may have read the old key
  frame and read frame 0 next, and `self.frame_index - key_frame.i`
  (`ui/animation.zig` 267), a `u32` difference, panics.

Met on the way, without a statement of the repository that they contradict:
with **three** tasks of which one never returns, TLC finds that a task can wait
for ever. A worker woken for it finds the pool's queue Contended, goes back to
sleep, and the worker that consumes it keeps the task in its buffer while its
own callback runs. The application schedules two tasks, where it cannot happen
(`pool_starts`); with callbacks that return it cannot last (`QuietMeansDone`).

## 4. Proofs

All by TLAPS, for every number of threads, producers, tasks and messages that
satisfies the named assumptions of the modules (`EventLoopAssumption`,
`ThreadPoolAssumption`, `WorkQueuesAssumption`, `SessionAssumption`,
`EyesAssumption`, `StartUpAssumption`, `PlayerAssumption`,
`RecordingAssumption`).

* `EventLoopProofs`: `Invariance` (`SafeSpec => []IInv`), `WakeupsKept`
  (`[]NoLostWakeup`), `Refinement` (`SafeSpec` implements `TaskFifo`'s).
  `NoLostWakeup` alone is not inductive: it says nothing of a loop that is
  about to sleep. `IInv` adds who owns the mutex, what the word can be at each
  position of the loop, and that a loop going to sleep on the word `pending`
  with a task in the queue has the task's producer still before its swap.
* `EventProofs`: `Invariance`, `Refinement`. `NoStrandedWaiter` is the
  strengthening: if somebody sleeps and the word no longer says WAITING, a
  notifier has its futex call to make or a woken thread carries
  `acquire_with = WAITING`.
* `ThreadPoolProofs`, for any number of workers, clients and tasks and any size
  of the buffers:
  * `Invariance` and `OneWakingThread`. `WakingThread` is inductive with the
    types: every operation that makes a thread the waking one takes `sync.state`
    from signaled to waking, and every one that ends it takes it back.
    `Registered` follows with what is on the stack of threads: a link leads to a
    thread that was registered earlier.
  * `CountsRight` (`[]Counts`). Each action moves one thread into or out of one
    of three finite sets, by the amount it changes the word; `Inside` (a thread
    in `notify` is where it called it) keeps the sets apart.
  * `TasksInOnePlace` (`[]OnePlace`). The queues, buffers, overflows and hands
    are made one function from boxes to sets of tasks, and a step adds a task to
    a box, moves some from one box to another, takes one out, or leaves the
    boxes alone; each of the four keeps the boxes disjoint (`MoveKeeps`,
    `AddKeeps`, `RemoveKeeps`, `SameKeeps`). `PlaceInv` adds what a thread can
    have in its hands at each position, so no token is started twice: `panic`
    is not reached.
  * `Refinement` (`SafeSpec => Dispatch!SafeSpec`): the pool implements
    `TaskPool`. `Alone` says that each executing task has a thread of its own,
    so there are no more of them than threads (`AloneIsNarrow`), and with
    `Counts` no more than `max_threads`.
  * `SetsRefinement` (`SafeSpec => TaskSetsSpec`): with its queues and buffers
    the pool implements `TaskSets`, each of its steps being one push, overflow,
    consume, steal or run there, or none. `Sole` (two threads that take from a
    queue take from different ones) makes `Consumer`, a CHOOSE, a function that
    a step changes where it should (`AcquireConsumer`, `ReleaseConsumer`);
    `PlaceInv` and `Filled` say that who takes or steals has nothing yet.
  * `QuietIsDone` (`[]QuietMeansDone`): no wakeup is missing in the end, in
    whatever order `notify`, `wait` and the round over the queues interleave.
    `QuietInv` is inductive with the above. `StackInv`: a registered thread is
    once on the stack of threads. `WakeInv`: a word that is `notified` is so for
    somebody awake, or for a signal that is on its way or lost with its thread.
    `Filled`: a buffer with tasks belongs to a thread that has still to look
    into it. `Looked`, the heart: as long as a queue has a task, the word is
    `notified`, or a `notify` is about to see it, or some thread will come by.
    That a thread will, follows from the looks it has left on its round against
    the threads between it and the queue, also those that are being created and
    will register in front of it (`Enough`): what `num_threads` is counted for.
* `WorkQueuesProofs`, for any number of threads, clients and tasks, any capacity
  and any first index:
  * `OneConsumer` (`[]Words`). `QueueInv` is inductive with where each process
    is: one that is about to compare-exchange saw a queue it can have, one that
    has written the cache has only the bits to clear.
  * `RingsAlways` (`[]Rings`). Its inductive invariant, `RingInv`, is in two
    parts. `PosInv` turns indices into positions, how far each is from
    `first_index`: head and tail are never further apart than the capacity, a
    thread that fills its buffer found it empty, what it has written is beyond
    the tail and within the capacity, and what a thief has read of a head is
    not beyond that head, so that a compare-exchange that succeeds has copied
    what is still there (`Watches`). Slots are found modulo the capacity, so two
    positions that are less than the capacity apart have slots of their own
    (`SlotsDiffer`), also across the wrap, because the capacity divides the
    number of indices. `Located` says that there is a function from tasks to
    places (one queue's stack or cache, an item of a list, a position of a ring,
    the callback that schedules it, run, or not yet scheduled) that agrees with
    every link, list and slot. A task is in one place because this is a
    function; each action says which tasks it moves where (`Popped`, `Stolen`,
    `Migrated`, ...). `Strung` says of a stack or cache that its links lead to
    nodes of the same place and no two to the same node; it needs no induction
    along the chain. `RoomAt` bounds each tail by what was scheduled and run, so
    that a position is an index that has not come round (`RoomIsNear`).
  * `GivesUpRight` (`GivesUpOnEmpty`): only the thief's second look leads out of
    `look` (`OnlyStealTail`), and what it saw then is a tail at the head it had
    read, with the victim's head in between.
* `SessionProofs`: `Invariance`, `Refinement`, `StuckByFailure`
  (`StuckOnlyByFailure`). `OneWrite` is inductive: the write that is outstanding
  is of the queue's head, so `onWrite` pops what was written, and only a write
  that failed leaves messages without one.
* `EyesProofs`: `Invariance`, for key frames of any length. `InBounds` needs
  `Fresh`: since `draw()` read an index the button thread can only have put it
  back to 0, so adding 1 to what was read or to what is there now passes no end.
  `Started` says when the view's pointers can still be null. `ShowsStateAlways`
  (`[]ShowsState`) and `InSegmentAlways` (`[]InSegment`) are about behaviours
  without a race: until the first one, one thread is out of the eyes (`Solo`).
  `Shown` says what `updateState`, `next` and `drawFrame` have done at each of
  their positions, what `next` can have counted and what it knows after each
  comparison; `Drawn` that every animator is in the segment of its index except
  one that `reset` is halfway through, and that what `eval` read is still there.
* `StartUpProofs`: `LatchCounts` (`[]IInv`), `CrashesOnlyGreeted`, `LoopMadeOnce`
  (`[]OneLoop`), `SectionsAgree` (`[]StillThere`) and `AudioInOrder`
  (`[]InOrder`), for any amount of audio. One invariant carries all of them.
  What the callback saw at the front of the buffer stays there, as the network
  thread only appends; `MadeByOne` says that until two calls of `get()` have met
  at most one thread makes the loop, and nobody uses it before.
* `RecordingProofs`: `MicFollows` (`[]MicFollowsButton`), for any number of
  presses. `Untouched` (a stream that is not ready has no request and is corked)
  and `Asked` (what the polling loop has asked for at each of its positions) make
  it inductive: the last request under way decides what the microphone will be.
  `LagStays` (`LagIsForever`), for packets of one or two bytes and any number
  of them: `LagInv` says that the packet in hand is in the buffer, so that each
  read takes from its front as many bytes as the packet has put at its end.
  `BytesInOrder` (`[]IInv`): what was sent, the buffer and the packets are, one
  after the other, rising, and together hold every byte that was captured
  (`OrderInv`; it says so of sets of bytes and not of one long sequence, which
  the provers handle better, and `Recording` states `InOrder` that way).
  `RecordingsFramed` (`[]Framed`): the session is inside a recording just when
  the polling loop is `Open`, and after a stop the stream is at rest or a cork
  came late (`FrameInv`); whether message i is inside depends on the last start
  or stop before it only (`InsideAppend`). `OwnAudioOnly` (`[]OwnAudio`): as long
  as there is no lag and no late cork, what waits in the buffer and in the
  packets belongs to the current recording (`OwnInv`).

Only model-checked: every liveness property (fairness and ENABLED are out of the
prover's reach), with them `TaskPool`'s and `TaskFifo`'s promises that something
happens in the end and that the eyes blink; and of the queues `TaskSetsSpec`, in
the instance of `work_queues`. What that says of a queue is
the `Chain` of linked nodes, which is computed by recursion over them, and for
that the induction is out of reach: `Located` says that a node is in no second
place, not that following the links from the top reaches it.

## 5. What is not modelled, and limits

* Nine tenths of the repository's lines are vendored: `src/lib/blend2d`
  (headers of a renderer), `src/lib/bcm2835` (a GPIO driver), Boost's and
  PulseAudio's interfaces. They have no logic of this program; PulseAudio and
  the network are modelled as far as the program can see them (the definitions
  marked external), blend2d and the GPIO level not at all beyond "a draw", "the
  button is down". Of the program's own code what is left out is below.
* Memory is sequentially consistent. The fast path of `notify`
  (`thread_pool.zig` 140) reads the word with a monotonic load after a push with
  release order; on a machine that lets the load go first, it may see a
  `notified` that was taken before the push. Nothing here says whether it can.
* No caller: the cancel, join and second start of a task token and the clients'
  `stop()` that would use them; `ThreadPool.shutdown`, `join`, `deinit` and
  `Event.shutdown`, and with them every branch on the state `shutdown`;
  `Player::interrupt`; the destructors. A pool that is given batches of several
  tasks: the program schedules one at a time.
* `work_pool.zig` makes its pool as the event loop is made, but its `get()` is
  called by the main thread only, before any worker exists; there is nothing to
  interleave.
* `Session` is the build without TLS (`build.zig`); what is read is not told
  apart.
* `EyesView.cpp` is not built, the GPU driver is a submodule, `binder.zig` and
  `Semaphore` are not used; in `main.zig` nothing after `App.run` is reached.
  Pixel conversion, blend2d calls and logging are data only.
* Two presses that overlap in the eyes, and a press before App.run's own
  `idle()`, are behaviours of `Eyes`, but `ShowsState` and `Blinks` are about
  those without a race.

## 6. What is open

1. A store-buffer model of the fast path of `notify` and of the orders of
   `Event`.
2. `WorkQueues` implements `TaskSets` for any number of threads and tasks.
   `RingInv` has all of it except that the links of a stack or cache reach every
   node that is placed there, which takes an induction along the chain.
