# TLA+ verification of the libretro emulator for HarmonyOS

The application runs libretro cores in a native engine (C++, `entry/src/main/cpp`) behind an ArkTS user
interface (`entry/src/main/ets`). What makes it hard to get right is that one emulator session is shared by
the UI thread, a pool of NAPI workers, the game thread, the render thread and the audio callbacks of the
system. This directory holds TLA+ models of those interactions, the TLC configurations that check them on
small instances, and TLAPS proofs of what matters most for every instance.

All paths below are relative to `src/entry/src/main/`; `engine.cpp` is
`cpp/core/engine/libretro_engine.cpp`, `napi.cpp` is `cpp/app/napi/engine_lifecycle_napi.cpp`.

To check: `tlc -config MCEngineLifecycle_safety.cfg MCEngineLifecycle` (and so on, one `.cfg` per run), and
`tlapm` on the modules whose names end in `Proofs`. `PROJECT.json` maps each definition to the lines it models
and lists runs, mutants, hazards and theorems.

## 1. Inventory

**Engine lifecycle** (`engine.cpp`). State: `state_` with its transition table, `running_`,
`stopRequested_`, `stopInProgress_`, `stopTimedOut_`, `gameLoopExited_`, `gameThread_`, `controlMutex_`
(recursive), `messageQueue_`, whether a core and a game are loaded. Operations: Start, Stop, Reset, LoadCore,
LoadGame, Pause, Resume, Cancel from any NAPI thread; `GameLoop` and `HandleMessage` on the game thread. Hard:
Stop waits *without* the mutex, up to a timeout, for a thread that may be inside a core that hangs; Start and
Reset may run meanwhile; Start calls Reset, which calls Stop. Correct when no thread tears the core down while
another may be inside it, a session starts fresh, the polled state tells the truth, and nothing is locked for
good.

**Game switch arbitration** (`napi.cpp`). State: `switch_token`, `active_switch_token`, `switch_cond`.
`SwitchGameAsync` hands out a token and queues a worker, which stops the engine, starts it, loads core and game
with a wait after each step, and recovers with Stop and Reset when a step fails; `CancelSwitch` cuts in from the
UI thread. Correct when one switch at a time drives the engine, success means *this* request's game, and every
request is answered.

**Synchronous engine tasks** (`engine.cpp` `ExecuteSyncTask`, `SetFilesDir`, `SaveState`, `LoadState`, SRAM,
cheats, disks, keys). A caller posts a closure and waits up to five seconds for the game thread to run it. Hard:
the closure writes the caller's locals; the caller may give up, the engine may stop in between, SetFilesDir
holds the mutex during the wait. Correct when no closure runs after its caller has gone and every call returns.

**NAPI requests** (`cpp/app/napi`). Each asynchronous binding allocates a context and a promise, queues work to
the pool and settles the promise on the JS thread. Hard: every step can fail, the environment can be torn down,
and one gate (`stop_in_progress`) answers repeated stops. Correct when every path releases what was made and
settles at most once, and the gate opens again.

**Window and surface session** (`cpp/app/framework/plugin_manager.cpp`, `engine.cpp`, `window_guard.h`).
State: `windowGuard_`, `surface_state_`, `surface_generation_`, the last size. Surface callbacks on the UI
thread set the window and post messages to the game thread, which forwards them to the render thread. Hard:
stale windows, sizes and frames; Start sends the current window again by itself. Correct when the render thread
ends up with the current window and nothing uses a window after its last reference.

**Render thread** (`cpp/core/engine/render_thread.cpp`, `cpp/platform/sync/native_vsync_driver.cpp`,
`bounded_latest_frame_queue.h`). State: the coalescing control queue, the frame queue, the window session,
the vsync driver. Hard: it sleeps without a timeout while vsync is active. Correct when it always wakes for
what counts, and joins on stop.

**Video pipeline and renderers** (`cpp/core/engine/video_pipeline.cpp`, `window_state_manager.cpp`,
`cpp/platform/graphics`). State: the scaling mode and render mode state, failure counters and cooldowns, the
window's configuration, the EGL and GL objects of the GLES renderer, CPU buffers not given back, and for cores
that draw themselves an EGL context or a Vulkan presenter with its swapchain. Hard: two threads change the mode
without a lock; every driver call can fail; renderers that share one window replace each other. Correct when a
window has one producer, is configured for its mode, and degradation brings a picture back without flapping.

**Audio ring buffer** (`cpp/platform/audio/ring_buffer.cpp`). State: the samples, the counters `head_` and
`tail_`, waiting flags, a mutex for the waits. Write on the game thread, Read in the audio callback, Clear on
the game thread. Hard: reads and writes are lock-free; counters wrap; waits; Clear races reads. Correct when it
is a bounded FIFO queue and every call returns.

**Audio bridge and player** (`cpp/platform/audio`). State: the OHAudio renderer, what the focus callback asked
for (`pending_*`), buffering, latency, rate. The engine drives it in every transition, load and frame, while a
data and a focus callback run on threads of the system. Hard: the callbacks race the calls that stop and destroy
the renderer; any call can fail half way. Correct when a paused game is silent, a started one is not silent for
ever, the rate is the content's, and no callback finds its renderer gone.

**Core loader and environment** (`cpp/core/libretro`). State: the loaded core's entry points, the callbacks it
left in the engine, the registry of options and its file. Hard: a core is replaced on several paths, each of
which has to drop those callbacks; the user and the core set options from two threads, each rewriting the file.
Correct when no callback of an unloaded core is kept, no update is lost, and an option has an allowed value.

**Input** (`cpp/core/engine/input_*`, `plugin_manager.cpp`, `engine_input_napi.cpp`). State: the source of each
port, the device-to-port mappings, the key table, the snapshot the core reads. The page and the XComponent write
it. Hard: a port changes hands between a press and its release, or between the routing and the write. Correct
when a device drives one port, nothing stays pressed that its source does not press.

**Event bridge** (`event_bridge.cpp`, `ets/common/LibretroEventHub.ets`). Thread-safe functions that wake
ArkTS listeners, which then poll the state.

**Switch coordinator and session control** (`ets/common/LibretroSwitchCoordinator.ets`,
`RuntimeSessionController.ets`). Serialises close and switch on a promise tail, polls for STOPPED.

**Repositories and import** (`ets/common/*Repository.ets`, `RomImportService.ets`). Preferences and files.

**Pages and components** (`ets/pages`). Layout and event wiring.

**Resources and file security** (`cpp/platform/resource`, `cpp/common/file_security.cpp`). Path predicates, I/O.

How they interact: the UI calls NAPI; NAPI workers call the engine; the engine starts the game thread, which
starts the render thread and calls the core; the core calls back into the engine for frames (to the render
thread) and samples (to the ring, read by the system's audio thread). The message queue is the only way from
callers to the game thread; the state they poll is the only way back.

## 2. Plan

| step | modules | state |
|---|---|---|
| 1 | `EngineLifecycle`, abstract `CoreProtocol`; `EngineInvariant`, `EngineHistory`, `EngineLifecycleProofs` | done, proved |
| 2 | `SwitchGame`, which extends `EngineLifecycle`; `SwitchGameProofs` | done, safety proved |
| 3 | `AudioRing`, abstract `AudioQueue`; `AudioRingProofs` | done, safety proved |
| 4 | `RenderThread`, and `WindowSession` which extends it; `WindowInvariant`, `XComponentProofs` | done, safety proved |
| 5 | `SyncTask` and `NapiRequests`, which extend `EngineLifecycle`; `EngineClientsProofs` | done, safety proved |
| 6 | `VideoPipeline`, and `HardwareRender` which extends it (with the rebind of SET_HW_RENDER); `HardwareRenderProofs` | done, safety proved |
| 7 | `AudioPlayer`, `AudioBridge`, `Playback`, each extending the one before; `PlaybackProofs` | done, safety proved |
| 8 | `CoreSession`; `CoreSessionProofs` | done, proved |
| 9 | `InputPorts`; `XComponentProofs` | done, proved |
| 10 | `WindowSession` with callbacks under way during Start and Stop, and a second session | not done |
| 11 | `SwitchCoordinator` over `SwitchGame`; `SaveStateRepository` | not done |

How the modules hang together (an arrow is EXTENDS or INSTANCE):

```
CoreProtocol <- EngineLifecycle <- SwitchGame, SyncTask, NapiRequests
                EngineLifecycle <- EngineInvariant <- EngineHistory
AudioQueue   <- AudioRing              VideoPipeline <- HardwareRender
RenderThread <- WindowSession          AudioPlayer   <- AudioBridge <- Playback
CoreSession, InputPorts                on their own
```

## 3. The modules and the code

### EngineLifecycle

Threads are the callers and the game thread. `pc[t]` is where a thread is, `op[t]` the outermost operation it is
inside; the calls nest only as LoadCore > Start > Reset and Reset > Stop, so `op` tells where a nested call
returns and whether the recursive mutex is released. An action is the code between two points where another
thread can matter: the mutex, a wait, a call into the core, a store to a flag that is read without the mutex.

| code | actions |
|---|---|
| `Start` (engine.cpp 373–499) | `StartLock`, `StartCheck`, (the nested Reset), `StartArm`, `StartSpawn`/`StartSpawnFails`, `StartRender`/`StartRenderFails`, `StartJoin` |
| `Stop` (501–574) | `StopLock`, `StopRequest`, `StopClose`, `StopExited`/`StopTimeout`, `StopJoin`, `StopClear`, `StopState`, `StopFlags` |
| `Reset` (576–670) | `ResetLock`, `ResetCheck`, `ResetQueue`, `ResetCore`, `ResetState`, `ResetReturn` |
| `LoadCore`, `LoadGame`, `Pause`, `Resume`, `Cancel` | `LoadCoreLock`, `LoadCorePush`, `LoadGame`, `Post` |
| `GameLoop` | `GameTop`, `GameDrain`, `GameDrained`, `GameFrame`, `GameWait`, `GameExit` |
| `HandleMessage` | `Handle*`, `Game*`: loading a core and a ROM is split at the calls into the core and into the audio bridge |

Errors are the `Faults`: the loop does not exit in time, `std::thread` throws, the render thread does not
start, a core or a ROM is refused, the audio bridge refuses. `TransitionTo` is the table and its silent refusal.
`startInProgress_` is left out: it is set and
cleared with the mutex held, and Start never calls itself. A message carries only its type; the queue keeps its order and its `closed` flag.

The calls nest also inside the game thread: a Cancel it handles runs Reset and Stop there, and waits for the mutex
like any other thread. `UnloadGameIfNeeded` (672–691) is one step of its caller: nothing on another thread reads
`gameLoaded_`, and in the three lines between the unload and `TransitionTo` the polled state is the old one, which
is the only thing the properties would see.

`EngineHistory` adds two history variables to the engine, whether a Reset has met the last stores of a Stop and
whether a Cancel was posted, so that `Polled…` can say how long the state ArkTS polls is to be trusted.

`CoreProtocol` is the abstract promise to a core: at most one thread owns it at any time, only the owner calls
it, and a game is loaded only into a core without one. `ImplementsProtocol` maps the owner to the living game
thread or the caller in Reset's tear-down.

### SwitchGame

Extends `EngineLifecycle`: the workers are callers whose engine calls are the operations above, interleaved step
by step. `at[w]` is the place in `ExecuteSwitchGame` (732–878) or `RecoverAfter…` (694–730); `Waits` is the
table of the four `WaitForStateWithToken` calls. `tags`, `handling` and `current` remember whose request a
message, the loaded core and the loaded game come from: they stand for the paths. `SetFilesDir` is one step that
succeeds or is refused. A request answered as a duplicate (`ShouldDedupSwitchRequest`) changes nothing and is
left out.

### SyncTask

Extends `EngineLifecycle`: a caller may issue a task operation as well as a control operation, and the queue
carries task objects as well as messages. `Operation` is the table of the operations that post a task, by what
tells them apart: whether they ask for a loaded game first, whether they wait, whether they hold `controlMutex_`
meanwhile, whether the body calls the core. `ExecuteSyncTask` (1076–1089) looks at `running_` and has the body run
inline when the engine does not run (`TaskInline`); the push is a step of its own (`PushTask`), which a queue closed
meanwhile refuses; `TaskTimeout` is the wait giving up, which needs the task's mutex
and so excludes the body; `RunTask` skips a body whose caller gave up. `hint` is `pendingFilesDir_`: set by a
SetFilesDir on a running engine, cleared when the directory is applied, the call fails or the engine is reset.

### NapiRequests

Extends `EngineLifecycle` with the JS thread, the pool's threads and the contexts. `Binding(how, setup, failure,
holds)` says in one row what each asynchronous binding does: how it is executed, how its promise is settled when the
work cannot be queued and when the engine fails, and what it holds. `stage`, `promise` and `held` follow a context
from `QueueWork` over `Take` and `Executes` to one of the completions (`CompleteOk`, `CompleteFailed`,
`CompleteRejected`, `CompleteCancelled`). `StopEngineAsync` executes Stop step by step beside the JS thread's own
calls: `StartEngine`, `StopEngine`, `ResetEngine`, `LoadCore`, `LoadRom`, `PauseEngine`, `ResumeEngine` and the Cancel
of `CancelSwitch`, which reaches the engine whether or not a switch is at work. `WaitForState` looks at the engine's
state; other engine calls are one step that succeeds or fails. `NapiFaults` are the napi calls that fail: creating the
promise or the work, the status, the result, the reason of a rejection, and the environment being torn down.
`lastError_`, which every layer overwrites, is left out.

### RenderThread and WindowSession

`RenderThread` has the control queue with its coalescing (`PushControl`), the latest frame, the window session
(window, generation, size, state), the vsync driver (`DriverStarts`, `RequestNextFrame`, `DriverStops`) and the
counted references. `WindowSession` adds the
surface callbacks (`SetNativeWindow`, `ClearNativeWindowIfMatch`, `OnNativeWindowResized`), the messages, the
game thread's part of them, the frames it makes, and a Start and Stop reduced to what reaches windows. Sizes are
told apart only by the window they were reported for. `PublishWindow` and `StoreSize` each stand for a run of
statements of the UI thread (generation, last size, surface state, message) as one step.

### VideoPipeline and HardwareRender

`VideoPipeline` is one frame at a time on the render thread (`render.pc`): the preflight with its recovery
(`MaybeRecoverDegradedMode`), the window's configuration with the cache of `WindowStateManager`, then a frame
through GLES (`GlesFrame`, `GlesDraws`, `GlesFails`, with what the renderer has created in `gpu.has`) or through
a CPU buffer (`CpuDraws`, `CpuFails`, buffers not given back in `held`). `SetScalingMode` on the UI thread stores
three atomics in separate steps. A driver call succeeds or fails as it likes; deadlines expire or not. Sizes are
symbols, and `Geometry` says what a mode asks the window for.

`HardwareRender` adds the cores with a context of their own: `SetHwRender` and the rebind it asks for, the EGL
target and presenter (cached or not across a lost window), the Vulkan presenter and its swapchain, `Swap…` and
`Present…` with their failures, a fence that never signals (`WaitForFence`), and the next core. `Sessions` are
the cores of a run. Each handler of the render thread is one step: nobody else reads what it changes.

### AudioRing

`head`, `tail` are `size_t` counters modulo `Word`, with `Capacity` dividing it. Reader and writer are split at
the loads of the other side's counter, the copy with the store that publishes it, the look at the waiting flag,
and the mutex. That the copy and the store may be one step is what `DisjointCopies` says: the two threads' slots
do not meet. A sample is the counter's value when it is written, so that a lost or repeated sample shows.
The relaxed load of the waiting flag after the store may see an old value (`Looked`), so wakeups can be lost.
`BridgeStarts` stores `running_` without a Clear, as Start does and what a failed Start, Reset or Pause puts back.
`torn` remembers that a Clear overlapped a read: what such a Clear does is wrong (section 6), and the
properties are about runs without one. `AudioQueue` is the abstract FIFO queue.

### AudioPlayer, AudioBridge and Playback

`AudioPlayer` is the OHAudio renderer and its two callbacks. The data callback is `called`, looks at `ring_buffer_`
while nobody counts it, and enters the player it finds, or leaves (`DataCalls`, `DataEnters`); `EnterCallback` refuses
once Cleanup has shut the door. Cleanup (`AwaitCallbacks`) waits for those inside and may give up on them at any
time, the two seconds of audio_player.cpp 933, which `gaveUp` remembers; then `Release` takes the player, whoever is
inside. What a callback does after that may be lost or land on the next player: the model does not say what memory
that is gone holds. `AudioBridge` is what its operations do to the state it owns, as
functions, since they hold its mutex and run on one thread: buffering before the start, the latency floor with
its boost, a reset, what is kept when a call into the renderer fails. `Playback` is what the engine does with
the bridge: in `TransitionTo` (2858–2952), in LoadRom, in a frame with the audio it writes and the AV info and latency the core
asks for, and in Stop and Reset. The ring is its fill (`AudioRing` is about its inside); a data callback takes
one unit, what a frame hands over.

### CoreSession

Cores are numbered in the order they are loaded, and a callback is the number of the core it points into:
`left[k]` is the callback of kind `k`. `LoadCore`, `Unloaded`, `Start`, `Reset` and `Stop` say which kinds each
path drops (`ForgottenKinds`). The options have three copies: what the core and the user see (`vars`), the file
and the copy each setter reads of it. `SetCoreOption` of the user and `SET_VARIABLE` of the core go through
`Enter`, `Store`, `Read`, `Save` under the registry's mutex; applying newly registered options
(`ApplyCoreOptionValues`) is outside it, and the history variable `overlap` marks a setter beside it. Cancel is
left out, and a Stop is one step: both are in `EngineLifecycle`.

### InputPorts

`source[p]` is the type and device of a port, `bound` the mappings `ResolvePortForDevice` makes, `table` the key
table, `held` the snapshot. Two threads: the page (virtual gamepad, assignments, table) and the screen (keys with their
repeats, mouse, touches, hover, blur; a mouse button may be noted and, for want of a size, not sent). Each looks the
port up under the router's mutex and writes later (`sending`), so a port may change hands in between. A press
remembers by whom it was made and whether it was late. A blur's clear is one step. Some effects are the code's own
exceptions, named at `PressedByTheSource` and `ButtonsFollowKeys`.

## 4. The runs

| run | what it shows | distinct states |
|---|---|---|
| `safety` | two callers, all operations, all faults: the tear-down is alone, `gameThread_` is only assigned after a join, a session starts fresh, `CoreProtocol` is implemented; the state callers poll is true (STOPPED, running, what is loaded) until a Reset meets a Stop, or a Cancel is posted | 672,104 |
| `live` | starts, loads, stops, resets, cancels and tasks, a render thread that does not start, and a core that may hang: no task body runs after its caller gave up; every task is answered; the mutex is given back and, if the core returns, a closed queue ends the loop, both but for the deadlock of section 6 | 402,173 |
| `switch` | three requests and cancels, core, ROM and timeout faults: single flight until somebody cancels; success is this request's core and game; every request is answered | 220,594 |
| `requests` | stops, waits and queries beside every lifecycle binding on the JS thread, a stop that times out, all napi faults: the stop gate has a holder, nothing leaks | 3,827,895 |
| `window` | two windows created, resized, minimised, destroyed and replaced: when all is quiet the render thread has the current window, size and generation; the game shows unless the thread sleeps for good; a destroyed window is let go; Stop joins | 165,980 |
| `pipeline` | modes, degradations, recoveries, refusals and two cores in software, EGL or Vulkan: the window is configured for its mode, recovery is bounded, there is one producer, software is kept once the limit is reached, the picture returns | 653,909 |
| `ring` | reads, writes, waits, pauses and clears in every order with wrapping counters: fill bounded, copies disjoint, a FIFO queue, every call returns | 154,168 |
| `playback` | loads, pauses, stops, rates, latencies against callbacks that may hang and a failing call: paused is quiet, started is armed, a callback inside has its player until Cleanup gives up, the rate is the content's, buffering ends | 1,039,199 |
| `session` | two cores through loads, stops, resets and errors while the user and the core set options: no callback of a core that is gone, the file follows the options, only allowed values | 4,034,375 |
| `input` | two ports, two keyboards, mouse, touches, virtual gamepad, every assignment, writes in flight: a device has one port, what is pressed belongs to the source, buttons follow keys | 958,460 |
| `cancel`, `reload` | the disagreements of section 6 | violated |

Every property of a passing run has a mutant in `PROJECT.json`, a plausible bug in the modelled code under which
TLC finds the property violated in the same configuration. The operators marked *mutant* in the modules are
those variants; no specification uses them.

**Bounds.**
* Engine (`safety`, `live`): two callers are one that holds the mutex (or waits without it in Stop) and one that
  interferes; a third would contend for the same mutex. `MaxQueue` bounds what a caller may add to pending
  messages; 1 keeps messages and the closed queue in play. `live` has one task object and two task operations:
  SaveState (guarded, calls the core) and SetFilesDir (locked) are the two extremes of the table. Its faults are the
  stop that times out and the render thread that does not start, which is where Start joins; a thread that cannot be
  created, a core, a ROM or an audio bridge refused only end an operation sooner, and are in `safety`.
* `switch`: three tokens are a running switch, the one that supersedes it and a late one; the UI thread is a
  third caller; `MaxQueue` 4 never refuses a switch's message. The render fault is left to `live`: with it, a switch whose Start
  fails under a CancelSwitch meets the deadlock of section 6 and is never answered (TLC shows it).
* `requests`: two contexts and one worker let a stop meet a wait, a second stop or a query in the queue. Three of
  the bindings, one for each way a request is executed, stand for the others, whose rows differ in how a promise is
  settled. Since no action and no property reads that, a VIEW tells promises apart only as pending or not.
* `ring`: capacity 4, word 8 and requests of 1 or 3 samples make the counters and slots wrap within a few calls,
  the ring fill up, and a request not divide the capacity.
* `window`: two windows and two callbacks are a creation followed by a size, a minimising, a destruction or a
  replacement. `MaxOverlap = 0`: callbacks run while the game and render threads run, but none is under way while
  Start or Stop is; allowing it multiplies the states by eight to twenty, and then Start's tail (engine.cpp
  486–490) can overwrite VALID with CREATED.
* `pipeline`: the limits of failures are 2 instead of 3 and 5 (`AttemptLimit` is 3, above the others as in the
  code; `RetryLimit` 0 is a cooldown after the first refusal), so that each is reached and passed; one frame size and one window size are told apart as sizes of
  different things. Two cores give every succession of a software, an EGL and a Vulkan core.
* `playback`: a ring of three units holds less than, exactly and more than each latency asked for; one failing
  call, one focus hint, two loads and one request of the core meet at every step.
* `session`: two keys with two values, two sets of options (so that a key is registered, then unknown), two
  cores. The kinds audio status and discs stand for the others, which are dropped in the same places.
* `input`: two ports and three devices make every conflict of assignments; one key and one button suffice for a
  press and its release, two keys on one button being a known exception.

The contexts of `requests` and the keyboards of `input` are interchangeable, and both runs check invariants only:
symmetry is sound there.

**Deadlock** is checked in `session` only. Elsewhere the system stops where no new calls, callbacks or messages
come, which the bounds make happen, and a queue that is full in the model is a caller that does not call.
Threads waiting on each other are found by `MutexReleased`, `TaskAnswered`, `EveryRequestAnswered`,
`EveryCallReturns` and `StopJoins`. They found one: see the deadlock of Start's join in section 6, which
`MutexReleased` and `LoopEndsWithTasks` except by name (`JoinsCancel`) and nothing else.

**Fairness.** Nowhere is it assumed that someone calls again.
* `SyncLiveSpec`: the operating system runs every thread that is inside an operation, the game thread only while
  it is not inside the core, since a core may hang in `retro_run`, in a load or in a task.
  `LoopEndsWithTasks` alone assumes that it returns, and that the game thread, when it resets the engine for a Cancel,
  gets the mutex if callers take it and give it back for ever (strong fairness, as in the ring).
* `SwitchLiveSpec`: the pool runs its workers, the engine its threads, the UI thread finishes a cancel it began.
* `AudioRing!LiveSpec`: both threads go on and every bounded wait expires; a thread waiting for the mutex gets
  it in the end (strong fairness), since it is held only for a copy or two stores, and the producer runs a frame
  between its calls.
* `WindowSession!LiveSpec`: all threads go on, the system answers a vsync request, and the core makes frames
  when no message waits.
* `HwSpec`: frames come, the render thread and a begun `SetScalingMode` go on, time passes. The driver owes
  nothing; that its CPU buffers and swaps work in the end is a condition of `SoftwarePictureReturns`, which
  speaks of runs whose last core draws in software.
* `Playback!LiveSpec`: the driving thread goes on, the two seconds of Cleanup pass, and a core whose frames run hands
  over audio again and again (strong fairness). No callback need ever return.
* `requests`, `input` and `session` check safety only.

## 5. What is proved

TLAPS checks, for every value of the constants:

* `EngineLifecycleProofs`, for any set of callers, operations, faults and any queue bound:
  * `IInv` (module `EngineInvariant`) is inductive, and gives `TypeOK`, `TearDownAlone`, `SpawnOnlyWhenJoined`,
    `FreshSession`. `controlMutex_` orders Start, Reset and the first half of Stop (`MutexInv`, `OpInv`);
    `running_` is true from before the thread exists until after its join (`ThreadInv`, `RunningInv`); while a
    Stop waits without the mutex, the queue it closed keeps a second Stop out, and `running_` keeps Start out
    (`StopInv`); what Reset cleared stays clear until the thread is created (`CleanInv`); a game lives in a core
    (`CoreInv`). None of these properties is inductive alone: `TearDownAlone`, for one, needs to know that
    `running_` is false from Reset's check on and that no Stop is beyond its own check.
  * The engine implements `CoreProtocol`: every action maps to a protocol step or a stutter.
  * As long as no Reset meets the last stores of a Stop (`ResetAlone`), STOPPED means that the game thread is gone,
    and `running_` is set on a closed queue only while a stop is under way or timed out, or a failed Start joins its
    thread (`StoppedMeansQuiet`, `RunningTakesMessages`). The invariant is `QuietInv`: Stop's last stores come without
    the mutex, and it is `stopInProgress_` that keeps every other Start, Stop and LoadCore away until they are
    done. Reset alone does not look at it (section 6).
  * As long as nobody posts a Cancel, the polled state agrees with what is loaded (`StateMatchesCore`), from
    `MatchInv`: the loop ends only in a state without a core, a queue that is closed has a Stop on its way
    that brings such a state about, and a thread that is being started finds nothing to do. A Cancel moves to
    INIT with the core loaded (run `cancel`).
  * Callers that are not given Cancel never cancel (`NobodyCancels`).
* `EngineClientsProofs`, for `SyncTask` and `NapiRequests`:
  * No body of a task runs on the game thread after its caller gave up, for any number of callers, tasks and
    messages. The engine's own steps are quiet: they leave waiting callers and the task at hand alone and never
    add a task to the queue (`Quiet`). So `TaskInv` is kept: who waits owns one task, a task is on its way once,
    and one that is waited for has its owner until that marks it abandoned, for which it needs the task's mutex,
    which the body holds.
  * `NothingLeaked` and `GateHasHolder`, for any number of requests and workers, all bindings and faults: a
    request is in the pool once while it is queued and on one worker while it runs (`RequestsInv`).
  * `NapiSpec => Spec`: the bindings, ResetEngine and CancelSwitch among them, use the engine by its operations alone,
    so all that is proved of the engine holds beneath them. The conditions of the two state theorems become conditions
    on ArkTS: STOPPED and RUNNING are true if it resets only with the stop gate open (`NapiStateIsTrue`: whoever is
    inside StopEngineAsync's Stop holds the gate, and a synchronous Stop is on the resetting thread itself), and the
    state follows what is loaded if it does not cancel (`NapiStateFollowsCore`). It keeps neither rule: the switch
    coordinator resets after a wait beside a Stop it does not await (`LibretroSwitchCoordinator.ets` 99–102).
  * `HSpec => []Polled…`: the same two facts for the engine with its history, without a condition on the callers
    (`PolledStopHolds`, `PolledStateHolds`); they are the properties of the run `safety`.
* `SwitchGameProofs`, for any number of workers and requests:
  * Until somebody cancels, one switch drives the engine: tokens differ, and the active token is that of the
    worker inside the sequence (`FlightInv`).
  * `SwitchSpec => Spec`, and where nobody can cancel the state a worker waits for is true (`SwitchStateIsTrue`).
  * `SuccessIsMine`: until somebody cancels, a switch that reports success has its own core and game loaded. The
    invariant (`OwnSessionInv`) is that the switch at work is alone with the game thread. Therefore an engine that
    is INIT or STOPPED does not run (`AloneInv`), so that Start, which is reached in these states only, never
    finds a session of a superseded switch to go on with (`BeforeInv`); and from the Reset inside Start on every
    message, the one being handled, the core and the game are this switch's (`OursInv`).
* `AudioRingProofs`, for every capacity, width and set of request sizes: `RInv` is inductive, and gives
  `RingTypeOK`, `FillStaysBounded` and `DisjointCopies`; what a thread computed from the other's counter (room to
  write, samples to read) stays true until it publishes, since the other thread only ever makes more of it,
  unless a Clear overlaps a read. From it the ring implements `AudioQueue`: a write that publishes appends what it
  copied, a read takes the oldest, every other step stutters.
* `XComponentProofs`, input: a device drives one port and the virtual gamepad at most one, for any number of ports and
  devices (assigning takes the device from the others, resolving erases what other ports have); and what is
  pressed was pressed by the port's source, because every change of a source clears what the old one pressed.
  That a write in flight is marked when its port changes hands is part of the invariant. With `FollowInv` a
  button a keyboard holds has a key behind it that is down, or the release is being written: each of the two
  threads writes one thing at a time, and who presses is not late.
* `XComponentProofs`, window session: `QuietSessionIsCurrent`, for any number of windows, callbacks and starts,
  with the hypothesis `MaxOverlap = 0` (no surface callback inside a Start or Stop; section 4 says what happens
  otherwise, and `WindowTypes`, the type invariant, does not need it). Being quiet is a state few steps lead to,
  so the invariant `SessionInv` (module `WindowInvariant`) says what holds on the way there. The window the engine
  has now is a message, a binding the game thread is making, a command in the control queue, or at the session
  (`WindowComes`). Its generation is the newest, and generations only grow from the session back to the messages
  (`GenerationInv`), so that nothing older can replace it. A window forgets the size, so the size the
  callbacks stored has to arrive behind it (`Brings`, `QueueBrings`). `PushControl` moves a command it replaces to the
  back and `Once` says that each kind is queued once, which is why a position in the queue is enough to say what
  arrives last. One lemma per step carries the flow on. That `Without` keeps exactly the other messages, in order,
  is an induction over the length of a queue, done with a set of numbers instead of a predicate
  (`SetInduction`, from the well-foundedness of < on Nat), which needs no theorem with an operator parameter.
* `PlaybackProofs`: `PInv` is inductive and gives `QuietWhenHeld`, `ArmedWhenStarted`, `CallbackSeesLivePlayer`
  and `RateAgrees`, for any ring, latencies, rates and number of failing calls, callbacks that hang included. It says for each place of the
  engine's calls what the player, the ring and the bridge have in common there (`PlacesInv`), what is asked for
  while a game is held (`HeldInv`), and how the rates of core, engine and player hang together (`RateInv`).
* `HardwareRenderProofs`: `VInv` is inductive and gives `ConfiguredForMode`, `OneProducer`, `RecoveryBounded` and
  the action property `KeepsSoftware`, for all limits and any succession of cores: a window's producers and what
  the renderers have created agree (`WindowInv`, `HardwareInv`); the configuration is that of the mode, or it is
  marked for another (`ConfigInv`); recoveries and degradations alternate (`Bounded`).
* `CoreSessionProofs`: no callback of a core that is gone, for any kinds and number of cores; and with
  `OptionsInv`, that the file follows the options and that values are allowed, for any keys and values.
  The argument: who is between `Enter` and `Save` has the registry's mutex, so one setter at a time has a copy of the
  file; the game thread either applies or sets; at rest the file and the values agree, in a setter they differ at
  its one key.

Each inductive invariant was also checked by TLC, as an invariant of the component's run, before it was proved
(`SessionInv` also with three callbacks and two starts, on 5.7 million states).

The assumptions are those on the constants in the modules (the game thread is not a caller, capacity divides the
word, and the like); TLC evaluates them in every run. The proofs are about these models, so what they leave out
(section 7) is left out of the proofs.

Only model-checked:
* all liveness (fairness and ENABLED are beyond the prover): `TaskAnswered`, `MutexReleased`, `LoopEndsWithTasks`,
  `EveryRequestAnswered`, `EveryCallReturns`, `CurrentWindowShowsGame`, `DestroyedWindowLetGo`, `StopJoins`,
  `SoftwarePictureReturns`, `BufferingEnds`.

## 6. Where the code and its documentation disagree

* `cancel`: a Cancel handled by the game thread calls Reset, whose Stop waits for this same thread. It times
  out, Reset aborts, and the engine stays in its state instead of INIT (engine.cpp 1545, 1564).
* `reload`: a LoadRom while a game runs notes the new game's path and data and then unloads the running game,
  which clears both; the new game never reaches the core and the engine ends in ERROR (engine.cpp 1674–1706,
  688–689).

TLC shows the following too. The properties say where they leave it out, and no run is kept for it:

* After a stop that timed out `running_` stays true on a closed queue, so that every later Reset fails, also once
  the thread did exit (engine.cpp 416, 525).
* Stop finishes without the mutex: with a Reset and a Start of another caller in between, its last stores
  (engine.cpp 566–571) land on the next session. `PolledStopIsTrue` and `PolledRunIsOpen` are silent from such a
  Reset on.
* A Start whose render thread does not start joins the game thread with the control mutex held (engine.cpp 453–464).
  If the game thread is handling a Cancel it waits in Reset for that mutex (1564, 577), and both wait for ever.
* Cleanup gives up after two seconds and releases the player under a callback that is still inside
  (`audio_player.cpp` 933); and a data callback that was called but has not entered reads `ring_buffer_` of a player
  nobody keeps for it (477), although 981–983 says that `shutting_down_` intercepts it.
* CancelSwitch frees the active token while its worker is still in the engine; the next switch runs beside it
  (napi.cpp 1256).
* A SetFilesDir queued behind a LoadCore is applied with the core loaded.
* The ring's Clear takes the mutex, a read's store of `tail_` does not: the ring is left with more samples than
  slots (`ring_buffer.cpp` 495–500).
* A window or size message erases a queued vsync TICK, which nothing replaces, and the render thread sleeps
  (`render_thread.cpp` 281).
* An AV info with a new rate leaves a running game without sound where nothing starts the bridge again (engine.cpp 2283).
* A touch that no mouse port takes goes to port 0 whoever has it (`plugin_manager.cpp` 527).
* Reset does not drop the disc callbacks (engine.cpp 608), nor a pending AV info; kinds `discs` and `av info` are
  excepted in `CallbacksAreCurrent`.
* A setter beside `ApplyCoreOptionValues` can be lost (`core_options_registry.cpp` 144), and the end of a frame
  clears an update flag the core has not seen (engine.cpp 2260).

## 7. What is not modelled

In the modelled parts: statistics and logging everywhere; what a task's body reads and writes; progress
callbacks, duplicate switch requests, synchronous queries, and the conversion of arguments; a Start that fails in
`WindowSession` (it is in `EngineLifecycle`), more than one XComponent, a window session across two engine
sessions; the frame pacer, and a vsync callback under way while the driver stops; pixel conversion, shaders and
drawing, a LoadCore with the window bound, x86 builds; resampler, dynamic rate control, volume, workgroups and the
sync mode; overrun and underrun counters of the ring, and `WriteWait` and `ReadWait`, which nothing calls; failing
I/O of the options file, quotes in values, cores without a game; positions, axis sizes, sensors and the list of devices.
A RESIZE carries no generation, so a new window may be READY with an old size for a moment; the properties speak
of what holds when all is quiet.

Other parts: the event bridge and the pages (one direction, or layout); the switch coordinator (its calls are
callers of the engine, in any order); the repositories and file security (files and preferences on one thread).
