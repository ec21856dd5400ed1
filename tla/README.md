# Hikari lighting: models and proofs

TLA+ specifications of the libraries and the application in this repository
(Zephyr RTOS, nRF52840, one core): what they do, step by step, on small
instances checked by TLC, and proved with TLAPS: the reference counter, the
requests and the switching of modes with any number of threads, the ring buffer
of any size, the slabs in any graph, the state machine for any chart, and the
sword for any of its LEDs. Line numbers refer to the sources as they are in this
repository.

## The system

| Part | Source | State | Operations | What is hard |
|---|---|---|---|---|
| refctr | `lib/refctr` | one atomic word | init, inc, dec, cleanup | lock-free loops of get and cas, any number of threads |
| reqw | `lib/reqw` | state word, refctr, kernel event per request | aquire, wait, cancel, begin, finish | timeouts, cancellation and completion race; who recycles |
| rbuf | `lib/rbuf` | write and read index, full flag, two suspend flags, memory | add, get, peek, reset, suspended_set, sizes_get | wrapping, full against empty, overwriting, `uint16_t` |
| hsm | `lib/hsm` | current state handler | init, dispatch, is_in | exits and entries of a transition, nesting depth |
| slab | `lib/slab` | graph of slabs, counted events, delay queues | create, destroy, connect, disconnect, stim | who releases an event on which path |
| slab_ticker | `lib/slab/slab_ticker.c` | timer, work item | create, destroy, stim; timer interrupt, work queue | timer, work queue (priority 10) and mode thread (priority 5) |
| generators | `lib/funcs` | time of the last period | process, reset | 32 bit time |
| msgport | `lib/msgport` | hsm, endpoints, block contexts, event pool | open, close, register, connect ... | unfinished |
| hikari_light | `applications/hikari_sword/src/hikari_light.c` | action fifo, mode, api, accepting flag, poster count | mode_set, tweak_*; thread loop | posters against a mode switch |
| light_resource | `.../light_resource.c` | registered LEDs and their use | init, use, return; update thread | start-up order, torn updates |
| modes | `.../modes` | the slabs of the current mode | constructor, destructor, tweaks | graph against work queue |
| BLE, main | `.../hikari_light_ble.c`, `main.c` | tweak type | GATT reads and writes, start-up | order of start-up |
| adrledrgb | `lib/adrledrgb` | PWM peripheral | update_leds | busy peripheral |

How they interact: the Bluetooth receive thread calls `hikari_light_mode_set`
and `hikari_light_tweak_*`, which put an action into a fifo. The
`hikari_light` thread takes actions out, and on a new mode runs the old mode's
destructor and the new one's constructor. A constructor claims all light
resources and builds a graph of slabs; a ticker at its top makes a tick on
each timer period, from a work queue of lower priority; the tick travels down
the graph and LED slabs write colours into the resources. A thread of its own
sends these to the LEDs. `reqw` uses `refctr`; `msgport` uses `hsm`; `rbuf`,
`reqw` and `msgport` have no user in the application yet.

What makes each part correct:

- refctr: the word counts the references; one DO_RECYCLE per life, none while
  somebody holds a reference; no reference after cleanup has begun.
- reqw: one outcome; nobody uses a recycled request; all waiters return; the
  request is recycled; 0 means success.
- rbuf: it is a bounded queue of bytes with the options its header describes.
- slab: an event lives as long as somebody holds it; a delay delays by its
  length; a reset gets everywhere; a call returns.
- hikari_light: a switch waits for the right threads, leaves no action of the
  old mode behind, gets done, and resources have one owner.
- hsm: the exits and entries of a transition are those on the path through the
  least common ancestor.
- modes, ticker, light_resource, adrledrgb together: a switch leaves no slab,
  timer or work behind, each LED gets the colour of its mode, and shows it.

## Modules

| Module | Models | How it corresponds to the code |
|---|---|---|
| `RefCtrAbs` | what `refctr.h` promises | phase, number of references, returned codes; one step per operation |
| `RefCtr` | `refctr.c` | `ctr` is the word; each `atomic_get` and `atomic_cas` is a step (`IncGet`, `IncCas`, `IncRetry`, ...) with the value read in `seen` |
| `RefCtrProofs` | theorems about `RefCtr` | |
| `Reqw` | `reqw.c`, one request | each access to the state word, the event or the counter is a step; `pc` names the place in the function; the counter is `RefCtrAbs`, by `INSTANCE` |
| `ReqwProofs` | theorems about `Reqw` | |
| `RBufAbs` | what `rbuf.h` promises | a sequence of bytes and the suspension, which starts as configured; what calls do to them, and as records what they return |
| `RBuf` | `rbuf.c` | `AddCall`, `GetCall`, `PeekCall` compute the outputs and the new state with the C code's index arithmetic |
| `RBufProofs` | theorems about `RBuf` | |
| `MCRBuf` | instance of `RBuf` | lengths up to `Word + 1`, four configurations |
| `Slab` | `slab.c`, `slab_event.c`, `slab_delay.c` and the `stim` functions of all slab types | the recursion is a stack of `slab_stim_childs` calls; a step is one child or the release at the end |
| `SlabProofs` | theorems about `Slab` | |
| `MCSlab` | instance of `Slab` | ticker, waver, converter and delay |
| `HsmChart` | the charts | no state: trees of states, what is around a state, what a transition keeps |
| `HsmAbs` | what `hsm.h` promises the handlers | `active`: the states entered and not exited; a step is one exit, one entry, the beginning or the end of a transition |
| `Hsm` | `hsm.c` | `state` is `me->state`, `tmp`, `src`, `path`, `ip` are the locals; a step is one turn of a loop or the calls between two loops; the chart is chosen in `Init`, the handlers' answers when they are called |
| `HsmProofs` | theorems about `Hsm` | |
| `ModeGraphs` | `modes/*.c`, `default_resources.h`, the chains of `light_resource.c` | no state: `Feeder(mode, slab)` is the second argument of the `slab_connect` with `slab` as its first, `Place` what a resource's name was registered for |
| `Sword` | mode switch, ticker, work queue, LED slabs, `light_resource.c`, `adrledrgb.c` | one LED (`view`) with the delays above it; `mt`, `pc` name the place of the hikari_light thread, of main and of the update thread; `walk` that of a traversal |
| `SwordProofs` | theorems about `Sword` | |
| `MCSword` | instance of `Sword` | two LEDs |
| `HikariLight` | `hikari_light.c` with the use of `light_resource.c` and the start-up order of `main.c` | posters: check, count, allocate, put, uncount; thread: get, process, the parts of `try_switching_mode`, free |
| `HikariLightProofs` | theorems about `HikariLight` | |

Operators with the name of another one and a suffix (`IncCas_set`,
`Delay_unwrapped`, ...) are mutants: plausible bugs, used only to show that a
property notices them. `PROJECT.json` says which one breaks which property.

How `Sword` looks at the sword. An LED slab has one feeder, so what happens to
it depends only on the path from the root: the lengths of the delays on it,
which `ModeGraphs` computes from the constructors for all 62 LEDs. `Sword`
takes one LED, the others being "other slabs that a traversal visits in
between" and "the other nine chains". A colour is the name of the mode it
comes from: the new colour that wave and glow send with each tick is always
`"wave"`, `"glow"`. A tick is two events, the generator's colour and the tick
itself (`AfterPass`), and both go through the delays (`process_delay`). The LED
slab writes the first byte and then the others (`Pass`, `WriteRest`), and
between them the update thread may send what is there: bytes of colours of two
modes (`"torn"`) or, at every tick of wave and glow, of two colours of the mode
itself (`"mixed"`). Threads run by priority
(`MainBlocked`, `UpdateBlocked`, `WorkRuns`); hikari_light and update thread
have the same and may be sliced, the work queue is preempted by both.
`try_switching_mode` is the destructor up to `k_timer_stop`, `CancelWork` is
`k_work_cancel`, `Destruct` the rest; the timer and the PWM are interrupts. A
traversal that was preempted by a destructor is `cut`: when it goes on it uses
freed slabs, which is the fault `dangling` (see below).

How `Hsm` looks at a chart. The handlers are the user's; what they answer is
chosen nondeterministically among the answers the header allows: who handles
an event with a transition to where, where an initial transition goes, whether
an exit is handled or passed to the parent. `due` is what the chart asks for,
computed from the tree by `Owed`, and `calls` is what hsm.c called; `active`, a
history, is what it entered and has not exited. `HsmAbs` does not know how hsm.c
finds its way: it says in which order the active states may change. `KeepOf`
and `GoalOf` are what it sees: the states that are not to be exited and the
target, which an initial transition moves further in.

Abstractions. Colours, times and payloads are left out of `Slab` and
`HikariLight`; an action is a mode or "a tweak", and all resources are taken
and given together, as `USE_ALL_HIKARI_LIGHT_RESOURCES` does. `Slab` has one
thread in the graph at a time; `slab_stim`, connections and destruction come
between the calls, from the mode thread, and the application does not use a
slab below which one has been destroyed (the destructors free all slabs,
children first). In `Reqw` the state is read when it is tested, the swap is a
step of its own; the two names for one constant (`REQW_STATE_*` and
`RRB_STATE_*`, `EVT_PROESSING_DONE` for `EVT_PROCESSING_DONE`) are read as the
same one. `RBuf` has a `Word` instead of 2^16, so that the overflow is within
reach. The `int` arithmetic of `MAX(data_len - buf->size, 0)` cannot overflow
and is done on integers.

## Runs

| Run | Instance | Shows |
|---|---|---|
| `RefCtr` | 3 clients, unbounded number of lives | counting, recycling, refinement of `RefCtrAbs`, lock freedom |
| `Reqw` | 2 waiters (each with or without timeout), 2 handlers, 1 canceller, one call each | no assertion fails, one outcome, waiters return, recycled once and late enough |
| `ReqwZero` | the same | **violated**: 0 is returned for an error |
| `HikariLight` | 2 posters with 2 posts each, 2 modes, unknown modes, room for 3 actions | switching |
| `HikariStale` | the same | **violated**: an outdated action survives a switch |
| `HikariTweak` | the same | **violated**: a tweak before the first mode reads through NULL |
| `MCRBuf` | 3 bytes, word of 3 bits | outputs and contents against the abstract queue, in all reachable states, for all arguments |
| `MCRBufPeek` | 6 bytes, word of 3 bits | **violated**: peek wraps to a wrong address |
| `Slab` | 4 slabs, delay of 2, 4 possible connections, room for 7 events | reference counts, delay, reset |
| `SlabLeak` | the same | **violated**: a cleared delay leaks |
| `Hsm` | all 700 charts of 6 states up to depth 4, `path` of 5 | exits and entries of every transition, in order; refinement of `HsmAbs`; `path` does not overflow; `hsm_is_in` |
| `Sword` | a square at the back and a triangle, all modes, unbounded switches and tweaks | slabs, timer and work follow the mode; colours; PWM; in the end nothing but the mode is shown |

Bounds, and why they are enough. *RefCtr*: three clients give an operation
whose read value is made stale by one client and restored by another; the
proof covers any number. *Reqw*: every pair of threads that compete for a swap
(two waiters, waiter and handler, two handlers, each with the canceller) is
there, with a third to recycle meanwhile. A thread calls once; a second call
finds the same states as another thread's first. *HikariLight*: two posters
with two posts each (`MaxPosts`) reach a switch with an action in the fifo,
one in a hand, and one refused, and `HeapSize` 3 is reached with actions that
a switch lost. *RBuf*: three bytes are the smallest buffer in which a filled
segment can be split so that neither part is a single boundary case; `Base` 5
numbers bytes so that two neighbours and two full buffers differ; `Lengths`
goes past the largest word, so that the clamping is reached. *Slab*: room for
seven events is what a tick, its colour and its converted colour need while
the delay is full and an earlier clear has leaked two; then an allocation
fails and the system halts (`halted`), as the assertions make it.

*Hsm*: six states at depth four contain every relation of source, target and
current state that the code distinguishes (itself, direct child, sibling,
direct parent, ancestor further up, common ancestor near and far, none but
`hsm_top`), each with initial transitions below. A chart as deep as the array
is long writes one element past its end, so the charts of `Hsm`
are one less deep. *Sword*: of the delay lengths, which the code gives as 80, 40 and
20, a tenth is taken; what counts is that they are even and how many are on
the way. `sq2` has one delay in wave and no feeder in glow, `lt0` five delays
in both; `WaysAssumption`, which TLC evaluates with the constants, is about the
ways to all 62 LEDs in all four modes. A square, a pommel LED and a blade LED were also tried as `Views`.
`walks` counts traversals up to one more than the delays need.

`CHECK_DEADLOCK FALSE` stands where the system may stop: all `Reqw` threads
have returned, no post is left to `HikariLight`, a `k_oops` or a failed
allocation has halted it. `RefCtr`, `RBuf` and `Hsm` are checked
for deadlock. `Sword` stops at a `dangling` traversal.

Fairness. `RefCtr`: weak fairness of each client's step inside an operation
(the scheduler returns to it); nobody has to call. Lock freedom, not wait
freedom, is what holds. `Reqw`: the same for a thread inside a function, a
timeout of a waiter that has one is a step and fires at some time, a handler
that was told to process goes on to `reqw_finish`; nobody has to cancel or
begin. `HikariLight`: the mode thread and posters inside `post_action` run on;
the mode thread sleeps while it waits (`k_sleep(1 ms)`), so posters of lower
priority get the processor. `Slab`: the thread in the graph runs on. `Sword`: weak fairness of main, of the
update thread, of the hikari_light thread inside a switch, and of the two
interrupts; strong fairness of the work queue, which the update thread of
higher priority keeps from running again and again but not for good, since it
sleeps 25 ms after each round. Nobody has to switch or to tweak.

## What the violated runs mean

1. `ReqwZero` (`reqw.c:273`, `:452`): `retval` is computed and dropped. A
   handler that finds the request in PROCESSING or ABORTED is told to go on.
   (`reqw_finish` then refuses it, so the outcome stays final.)
2. `HikariStale` (`hikari_light.c:57`): the flag is read before the poster
   counts itself. It needs a poster that can be preempted; today's only one,
   the Bluetooth receive thread, is cooperative. `OneOutdatedPerPoster` says
   how bad it gets (an action carries its poster, and no two outdated ones are
   of the same), `CountedActionsDropped` what the wait does achieve.
3. `HikariTweak` (`hikari_light.c:189`): the first write over the air may be a
   tweak.
4. `MCRBufPeek` (`rbuf.c:245`): for buffers above 32768 bytes.
5. `SlabLeak` (`slab_delay.c:7-13`, `:44-51`).

Two more disagreements are stated by passing runs. `rbuf.h:70-71`, `:92-93` and
`:111-112` say that `RBUF_FLAG_ADD_SUSPEND` and `RBUF_FLAG_GET_SUSPEND` in the
configuration suspend; the flags are evaluated only by `rbuf_reset`
(`rbuf.c:267-268`), so a buffer fresh from `RBUF_DEF` is not suspended.
`RBufAbs` starts as the header says (`Configured`), `RBuf` as the code does, and
`ImplementsQueue` says that they start alike if and only if no such flag is
configured (two of the four `MCConfigs` have one); the steps agree for all. And
in a chart as deep as `CONFIG_HSM_MAX_NEST_DEPTH`, `hsm_top` is written one past
the end of `path` (`hsm.c:125`), before the assertion on `ip` (`:136`) looks;
`PathFits` therefore speaks of charts less deep, and fails with `MaxDepth` =
`MAX_NEST_DEPTH` in `Hsm.cfg`. (`tests/hsm` has a chart that is deeper than its
configuration allows, but no transition in it as long.)

Seen while modelling, without a run: lengths above 65535 are cut before the
test for `RBUF_ERR_NOT_ENOUGH_SPACE`; the actions a switch drops are not freed
(`lost` in `HikariLight`, in which the heap runs out: `halt` is `no_memory`);
a constructor may run before the resources are registered (`not_registered`);
the mode sole never destroys its converter; `reqw_free` is empty and `reqw.c`
is not in any CMake file. In `hsm.c`, with a maximal depth of 1, `path[1]`
(`:90`) is outside already; `hsm_is_in` gives up after `MAX_NEST_DEPTH`
parents.

In the application: `k_work_cancel` (`slab_ticker.c:60`) does not wait, so a
mode switch may free the slabs under a traversal it preempted; `Sword` reaches
this (`cut`, then `dangling`) and stops there; no property forbids it, as no
comment or test does. In wave and glow the update thread may send a mixture of
two colours at any tick (`mixed`), again and again; `ShownInTheEnd` says that
these are colours of the mode, and that nothing else stays. The destructor of
sole forgets its converter (`sole.c:113-124`), one slab per switch. In glow the
squares 2 and 3 are not connected (`glow.c:90-91`) and keep the colour of the
mode before (`Forgotten`). A delay lasts half as many periods as it is given,
as each period brings it two events. The `*_reset` functions of the modes have
no caller.

## Proofs

`RefCtrProofs`, for any finite non-empty set `Clients`
(`ClientsAssumption`):

- `Invariance`: `IInv` is inductive. `CountsReferences` alone is not: a swap
  succeeds on the value in `seen`, so one has to know that this value passed
  the tests of the operation (`Callers`): positive for an increment and a
  cleanup, neither 0 nor 1 for a decrement, and its client is a holder. A
  step either leaves the word and the holders alone (`QuietStep`) or swaps and
  returns (`SwapStep`); each action is one or the other.
- `TypeCorrect`, `CountingCorrect`, `RecycleCorrect`, `StrangersRefused`:
  the parts of `IInv`.
- `CleanupFinal`: an action property, from `IInv` and a case per action.
- `Refinement`: a successful swap or a refusal maps to the operation of
  `RefCtrAbs`, a call to `Invoke`, a read and a retry to a stutter. This is
  what entitles `Reqw` to use the atomic operations.

The rule on calls (`MayCall`) is an assumption on the clients: a reference is
given back once, by who took it. It is needed: `refctr_dec` cannot tell a
stranger from a holder.

`HikariLightProofs`, for any finite set `Posters`, any `Registered` modes,
any `HeapSize` and `MaxPosts` (`ModesAssumption`: no entry has the initial or
an unknown mode):

- `Invariance`: `IInv` is inductive. `CountedActionsDropped` alone is not,
  since it speaks of the end of a switch and follows from the order of its
  steps: `Places` says that the flag is down just during a switch; `Stamps`
  that after the wait no hand has an action counted before it
  (`PostersCounted` and a semaphore at 0 leave no poster between its two
  uses), and after the emptying the fifo has none either. `OneEach` is
  `OneOutdatedPerPoster` for fifo and hands together: a poster with an old
  action in its hand has none in the fifo, which matters when it puts it there,
  and it takes a new one only with the present epoch. `Resources` says who has the resources at each step of a
  switch, also when `main` registers them between the steps.
- `TypeCorrect`, `CountCorrect`, `DropCorrect`, `OutdatedBounded`,
  `ResourcesCorrect`, `HeapCorrect`: all safety invariants the run
  `HikariLight` checks.

`ReqwProofs`, for any finite sets of `Waiters`, `Handlers` and `Cancellers`
(`ThreadsAssumption`: a canceller is neither of the others):

- `Invariance`: `IInv` is inductive. `NotRecycledWhileUsed` alone is not: a
  bound on the references does not tell whether a decrement is the last.
  `References` makes it exact, which needs a thought, since `reqw_begin` may
  send a second handler on with a wrong 0, and this one may finish what the
  first began: the reference of the first belongs to the state PROCESSING, and
  goes to whoever swaps it to DONE. `Places` relates the point each thread is
  at to the state, which only goes on (`Forward`); `Life` says that the
  counter is active until the one thread that ended the request cleans up, and
  that DO_RECYCLE comes once. Each action has one of seven effects on these
  (`Quiet`, `Marks`, `Ends`, ...), and the parts are proved by effect.
- `TypeCorrect`, `NoOopsCorrect`, `UsersSafe`, `RecycleCorrect`, and the
  action property `OutcomeCorrect`: all safety properties the run `Reqw`
  checks. The counter is that of `RefCtrAbs`, which `Refinement` of
  `RefCtrProofs` is about.

`RBufProofs`, for any `Size`, any larger `Word` and any sets of lengths and
configurations:

- `TypeCorrect`: `TypeOK` is inductive as it stands, with the index arithmetic
  of `rbuf.c`.
- `QueueImplemented`: each step of `RBuf` does to bytes and suspension what a
  step of `RBufAbs` does, or nothing, and the two start alike if and only if
  no suspension is configured; the outputs are the subject of
  `ReturnsCorrect` and `PeekCorrect`. `Content` is read from the indices through the segments that `rbuf.c` computes, and two
  segments are hard to reason about; `Segmented` shows that together they are
  one stretch of the ring (`ContentRing`), beginning at the read index. Adding
  then appends to a stretch, of which the last `Size` bytes are left
  (`RingAppend`), and taking cuts its front (`RingTake`).
- `ReturnsCorrect`: from the same lemmas.
- `ZeroingCorrect`: the inductive form, `ZeroedRing`, says it by the distance
  from the end of the stretch instead of by segments.
- `PeekCorrect`, for `2 * Size <= Word + 1`: beyond it, the address of a peek
  wraps, and `MCRBufPeek` shows the wrong byte.

`SlabProofs`, for any finite graph with or without cycles, any lengths of the
delays, any heap:

- `Invariance`: `IInv` is inductive. `RefsAreHolders` needs to know of every
  frame of the stack what it has still to do (`FrameSet`), that the slabs that
  a call may still come to are alive, whatever is above it on the stack
  (`Walks`), and that a delay that does not exist holds nothing (`Vacant`).
- `TypeCorrect`, `RefsCorrect`, `DelayCorrect`: parts of `IInv`.
- `ResetCorrect`: while a reset is under way, every delay that it has not
  reached is below a slab that is still to be called (`ResetOnItsWay`).

`SwordProofs`, for any set `Views` of LEDs (`ViewsAssumption`: `NoMode` is not
a mode):

- `Invariance`: `IInv` is inductive. `Ordered` says who has come how far:
  before main is done, the update thread waits, no LED is registered and there
  is no mode, and who is at `fill` or `play` finds the PWM stopped.
  `HeapFollows` says which slabs are left at each place of the switch.
  `InStep` is why an LED shows its mode in wave and glow: after so many ticks
  delay `i` holds nothing, or twice the ticks since it is fed, or is full, and
  what it holds are colours and ticks in turn, so that a full delay gives the
  kind of event that it gets. `Held` is the tick after which a delay is full.
- `TypeCorrect`, `SlabsCorrect`, `LedCorrect`, and the action property
  `PlaybackCorrect`.
- `WaysAssumption` is a formula without parameters: the paths from the LEDs to
  the roots, found by recursion, are as the constructors make them. TLC
  computes it, for all LEDs and modes, in each run of `Sword`; the provers
  cannot.

`HsmProofs`, for any number of states, and for any chart less deep than
`CONFIG_HSM_MAX_NEST_DEPTH` (`TypeCorrect` and `Refinement` need no bound on the
depth, but say nothing of the code where it writes beyond `path`):

- `Chains`: what a state is in is a chain, in which the inner states have the
  larger numbers, so that leaving out what is around one of them cuts the
  chain. `AroundIn` is defined by recursion; what it computes is found by
  induction, and since the provers cannot use an induction theorem that takes a
  predicate, this is done with the smallest number of a set (`Smallest`,
  `Reaches`).
- `Invariance`: `IInv` is inductive. `TransitionFollowsTree` alone is not: it
  says of the calls that were made that they come before those that are left,
  but not that the next call is the right one. `Places` says what is left at
  each place: in the loops that exit, `LeftFrom(tmp)`, what is owed if the
  states around `tmp` are still to be exited; in the loop that enters,
  the states in `path[0..ip]`. `PathIn` says what `path` holds after `n`
  turns: the target and the states around it without a gap, so that
  `path[0..n]` is what the chain has beyond the parent of `path[n]`
  (`PathSegment`), and `n` plus the depth of `path[n]` is not more than the
  depth of the chart, which bounds `n`. While the common state is looked
  for, no state between `tmp` and the source contains the target. Each of the
  four near cases of `hsm_dispatch` is shown to leave what `LeftFrom` says
  (`NearStep`).
- `EnteredAlways`: `Entered` is inductive relative to `IInv`. It says, at each
  place, which states are active: all around `state` at rest, all around `tmp`
  while states are exited, the target's without `path[0..ip]` while they are
  entered; and what is kept is still active where states are exited.
- `TypeCorrect`, `PathCorrect`: from `IInv`. `TransitionCorrect`: from `IInv`
  and `Entered`; for `hsm_is_in`, its loop meets `state`, all that is around
  it and `hsm_top` (`OutwardsMeets`).
- `Refinement`, of `HsmAbs`: from `IInv` and `Entered`, one lemma per action.
  That calls come in turn (`InTurn`) makes the state exited the innermost one
  (`ExitInTurn`) and the state entered one directly inside. Where the entries
  begin, what is left to call tells that nothing but what is kept is active
  (`BeginImplements`).

Only model-checked: liveness (`LockFree`, `WaitersReleased`,
`EventuallyRecycled`, `SwitchEnds`, `CallsReturn`, `ShownInTheEnd`), which is
out of the prover's reach. All safety properties of the passing runs are proved.

## Not modelled

Not modelled, because a model would have nothing to be faithful to, or nothing
to say:

- `msgport.c` does not compile: variables that are not declared (`i` and `k`,
  `ctx`, `err`), missing semicolons, handlers without a body. Its block
  contexts are sketched, but the side that answers is not written.
- Floating point: `rgb_hsv.c`, the values of `wave_func.c` and `glow_func.c`,
  and the tweaks of wave, which only change these. (`wave_func_process`
  computes `t1` and `t2` before it sets `t0`, so that its first value, and the
  first after each period, is the minimum.)
- Pulses, pins and the inverted level of `adrledrgb.c`; USB, console and GATT
  encodings. `tests/` were read for what they expect.
- The list of requests of `reqw.c`: `reqw_free` is empty.
- `register_resource`'s refusals: the list of names in `light_resource.c` is
  fixed, and `Usable` checks that no two names are for one place.
