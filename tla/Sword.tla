-------------------------------- MODULE Sword --------------------------------
(***************************************************************************)
(* From a mode to the light of an LED: the hikari_light thread that        *)
(* destroys one mode and constructs the next, the ticker's timer and work  *)
(* queue, which stimulate the mode's slabs, the colour an LED slab writes, *)
(* and the thread that sends the colours to the LEDs through the only PWM. *)
(*                                                                         *)
(* One LED, `view`, is looked at, with the slabs on its path (ModeGraphs); *)
(* what else a traversal stimulates comes between the two events it sends, *)
(* and the other nine chains are one, "other".  Colours have the name of    *)
(* the mode they come from; sole has two, which a tweak exchanges.         *)
(*                                                                         *)
(* main has priority 0, the hikari_light and the light update thread 5,    *)
(* the work queue 10; timers and the PWM interrupt all of them.  A thread  *)
(* takes a step when none of a higher priority can; threads of the same    *)
(* priority may be sliced.                                                 *)
(***************************************************************************)
EXTENDS ModeGraphs, SequencesExt

CONSTANTS
  Views,              \* the LEDs looked at, one in each behaviour
  NoMode              \* before the first mode

ASSUME ViewsAssumption == Views \subseteq Leds /\ NoMode \notin Modes

Threads == {"main", "update"}
Tints   == {"sole", "sole2"}

\* A mode, or a tint of sole, stands for a colour of its own: wave and glow
\* send a new one with each tick, all of which are "wave", "glow".  The three
\* bytes of an LED may be of two colours: "mixed" if both are of the mode
\* that is on, else "torn".
Colours == Modes \cup Tints \cup {"zero", "setup", "torn", "mixed"}

VARIABLES
  view,               \* the LED
  way,                \* what is between it and the root, in each mode
  mt, mode,           \* hikari_light thread: place, and the mode
  tint,               \* sole_color
  alive,              \* slabs in the heap, by kind
  timer, queued,      \* the ticker's timer runs, its work is queued
  walk, ink,          \* place of a traversal, colour it is writing
  cut,                \* a traversal was preempted, its slabs are destroyed
  queue,              \* the events in the delays on the way, a sequence each
  walks,              \* history: traversals of the work queue in this mode
  led,                \* rgb_values of the LED
  pc, turn,           \* main and update thread: place, chain
  init_sem,           \* light_init_sem has been given
  resource,           \* the LED's entry in the registry
  pwm, sequence,      \* what the PWM plays; pwm_sequence of the LED
  fault               \* why the system stopped

modeVars == <<mt, mode, tint, alive>>
tickVars == <<timer, queued>>
walkVars == <<walk, ink, cut, queue, walks, led>>
sendVars == <<pc, turn, init_sem, pwm, sequence>>
vars == <<view, way, modeVars, tickVars, walkVars, sendVars, resource, fault>>

\* The slabs a constructor creates, by kind.
Created(m) == {"leds"}
              \cup (IF m = "off" THEN {} ELSE {"sc"})
              \cup (IF Ticking(m) THEN {"gen", "ticker", "delays"} ELSE {})

\* The lengths of the delays on the way from the root to an LED, whether it
\* is connected, and half of the events they hold: each tick sends two.
Way(m, l) ==
  LET delays == Delays(m, l)
  IN  [lengths |-> [i \in DOMAIN delays |-> DelayLength(delays[i])],
       fed     |-> Fed(m, l),
       ticks   |-> FoldLeft(LAMBDA sum, d : sum + DelayLength(d), 0, delays)
                   \div 2]

\* The squares at the back have no feeder in glow (modes/glow.c:90-91) and
\* keep the colour they had.
Forgotten(m) == IF m = "glow" THEN {<<"sq", 2>>, <<"sq", 3>>} ELSE {}

\* The ticks after which the first i delays of a way are full.
Held(w) ==
  [i \in 0..Len(w.lengths) |->
     FoldLeft(LAMBDA sum, d : sum + d \div 2, 0, SubSeq(w.lengths, 1, i))]

Counted(w) ==
  LET n == Len(w.lengths) IN
  /\ w.lengths \in Seq(1..10)
  /\ Held(w) \in [0..n -> Nat]
  /\ Held(w)[0] = 0 /\ Held(w)[n] = w.ticks
  /\ \A i \in 1..n : w.lengths[i] = 2 * (Held(w)[i] - Held(w)[i - 1])
  /\ \A i, j \in 0..n : i <= j => Held(w)[i] <= Held(w)[j]

\* The graphs are right: every LED but those is connected, through one way,
\* to the root of its mode; off and sole have no delays, and the others have
\* delays of whole ticks.  This is a closed formula that TLC computes; the
\* proofs cannot, since ways are found by recursion.
ASSUME WaysAssumption ==
  \A m \in Modes : \A l \in Leds :
    /\ Counted(Way(m, l))
    /\ Way(m, l).fed \/ l \in Forgotten(m)
    /\ Ticking(m) \/ Way(m, l).lengths = << >>

Colour(m) == IF m = "sole" THEN tint ELSE m

(***************************************************************************)
(* Who may run.                                                            *)
(***************************************************************************)
MainBlocked   == pc["main"] \in {"attach", "busy", "done"}
UpdateBlocked == pc["update"] \in {"wait", "busy", "sleep"}

Running(th) == fault = "none" /\ (th = "update" => MainBlocked)
ModeRuns    == fault = "none" /\ MainBlocked
WorkRuns    == ModeRuns /\ UpdateBlocked /\ mt = "idle"

-----------------------------------------------------------------------------
\* Every variable has its type; no delay holds more than it is long.
TypeOK ==
  /\ view \in Views
  /\ mt \in {"idle", "cancel", "destruct", "construct", "stim"}
  /\ mode \in Modes \cup {NoMode}
  /\ tint \in Tints
  /\ alive \subseteq {"leds", "sc", "gen", "ticker", "delays"}
  /\ {timer, queued, cut, init_sem} \subseteq BOOLEAN
  /\ walk \in {"no", "colour", "colour_half", "tick", "tick_half"}
  /\ {ink, led, sequence} \subseteq Colours
  /\ \A i \in DOMAIN queue : Len(queue[i]) <= way[mode].lengths[i]
  /\ walks \in Nat
  /\ pc \in [Threads -> {"attach", "wait", "check", "busy", "fill", "play",
                         "register", "sleep", "done"}]
  /\ turn \in [Threads -> {"own", "other"}]
  /\ resource \in {"none", "free", "used"}
  /\ pwm \in {"stopped", "own", "other"}
  /\ fault \in {"none", "resource", "dangling"}

Init ==
  /\ view \in Views
  /\ way = [m \in Modes |-> Way(m, view)]
  /\ mt = "idle" /\ mode = NoMode
  /\ tint = "sole"
  /\ alive = {}
  /\ timer = FALSE /\ queued = FALSE
  /\ walk = "no" /\ ink = "zero" /\ cut = FALSE
  /\ queue = << >> /\ walks = 0
  /\ led = "zero" /\ sequence = "zero"
  /\ pc = [main |-> "attach", update |-> "wait"]
  /\ turn = [th \in Threads |-> "own"]
  /\ init_sem = FALSE
  /\ resource = "none"
  /\ pwm = "stopped"
  /\ fault = "none"

(***************************************************************************)
(* adrledrgb, for main and the light update thread.                        *)
(***************************************************************************)
Goto(th, place) == pc' = [pc EXCEPT ![th] = place]

\* adrledrgb_update_leds does nothing while the PWM plays.
adrledrgb_check(th) ==
  /\ Running(th)
  /\ pc[th] = "check"
  /\ Goto(th, IF pwm = "stopped" THEN "fill" ELSE "busy")
  /\ UNCHANGED <<view, way, modeVars, tickVars, walkVars, resource, fault, turn,
                 init_sem, pwm, sequence>>

\* k_msleep(1), and again.
Retry(th) ==
  /\ Running(th)
  /\ pc[th] = "busy"
  /\ Goto(th, "check")
  /\ UNCHANGED <<view, way, modeVars, tickVars, walkVars, resource, fault, turn,
                 init_sem, pwm, sequence>>

\* The colours of the chain become its sequence of pulses.
adrledrgb_fill(th) ==
  /\ Running(th)
  /\ pc[th] = "fill"
  /\ sequence' = IF turn[th] = "own" THEN led ELSE sequence
  /\ Goto(th, "play")
  /\ UNCHANGED <<view, way, modeVars, tickVars, walkVars, resource, fault, turn,
                 init_sem, pwm>>

\* nrfx_pwm_simple_playback; then the next chain, if there is one.
adrledrgb_play(th) ==
  /\ Running(th)
  /\ pc[th] = "play"
  /\ pwm' = turn[th]
  /\ turn' = [turn EXCEPT ![th] = IF turn[th] = "own" THEN "other" ELSE "own"]
  /\ Goto(th, IF turn[th] = "own" THEN "check"
              ELSE IF th = "main" THEN "register" ELSE "sleep")
  /\ UNCHANGED <<view, way, modeVars, tickVars, walkVars, resource, fault,
                 init_sem, sequence>>

\* The sequence has been played, NRFX_PWM_FLAG_STOP.
PwmStops ==
  /\ fault = "none"
  /\ pwm # "stopped"
  /\ pwm' = "stopped"
  /\ UNCHANGED <<view, way, modeVars, tickVars, walkVars, resource, fault, pc,
                 turn, init_sem, sequence>>

(***************************************************************************)
(* light_resource: main sets up, the light update thread goes on.          *)
(***************************************************************************)
\* main, when the terminal is attached or its time is over: adrledrgb_init
\* and INIT_COLOR for all chains.
setup_light_resources ==
  /\ Running("main")
  /\ pc["main"] = "attach"
  /\ led' = "setup"
  /\ Goto("main", "check")
  /\ UNCHANGED <<view, way, modeVars, tickVars, walk, ink, cut, queue, walks,
                 resource, fault, turn, init_sem, pwm, sequence>>

\* Mutant: the semaphore is not given.
register_resources_silent ==
  /\ Running("main")
  /\ pc["main"] = "register"
  /\ resource' = "free"
  /\ Goto("main", "done")
  /\ UNCHANGED <<view, way, modeVars, tickVars, walkVars, fault, turn,
                 init_sem, pwm, sequence>>

\* REGISTER_RGB for all elements of the chains, and the semaphore is given.
register_resources ==
  /\ Running("main")
  /\ pc["main"] = "register"
  /\ resource' = "free"
  /\ init_sem' = TRUE
  /\ Goto("main", "done")
  /\ UNCHANGED <<view, way, modeVars, tickVars, walkVars, fault, turn, pwm,
                 sequence>>

\* Mutant: the light update thread does not wait for main.
light_update_loop_early ==
  /\ Running("update")
  /\ \/ pc["update"] = "wait"
     \/ pc["update"] = "sleep"
  /\ Goto("update", "check")
  /\ UNCHANGED <<view, way, modeVars, tickVars, walkVars, resource, fault, turn,
                 init_sem, pwm, sequence>>

\* The light update thread is started by the semaphore, and goes on after
\* 25 ms.
light_update_loop ==
  /\ Running("update")
  /\ \/ pc["update"] = "wait" /\ init_sem
     \/ pc["update"] = "sleep"
  /\ Goto("update", "check")
  /\ UNCHANGED <<view, way, modeVars, tickVars, walkVars, resource, fault, turn,
                 init_sem, pwm, sequence>>

(***************************************************************************)
(* slab_ticker: the timer, and the traversals of the work queue.           *)
(***************************************************************************)
\* Submitted once more while it is queued, the work stays queued.
timer_expired ==
  /\ fault = "none"
  /\ timer
  /\ queued' = TRUE
  /\ UNCHANGED <<view, way, modeVars, timer, walkVars, sendVars, resource, fault>>

\* The work queue takes the work of the ticker: a tick for its children.
work_tick ==
  /\ WorkRuns
  /\ queued /\ walk = "no" /\ ~cut
  /\ queued' = FALSE
  /\ walk' = "colour"
  /\ UNCHANGED <<view, way, modeVars, timer, ink, cut, queue, walks, led, sendVars,
                 resource, fault>>

\* The queue of a delay, from the oldest event to the newest, has NULL in
\* front until it is full.  An event in front of the LED goes from delay to
\* delay: each keeps what it gets and, if full, gives its oldest event.
Full(i)    == Len(queue[i]) = way[mode].lengths[i]
Reached(i) == \A j \in 1..(i - 1) : Full(j)

Given(i, event) == IF i = 1 THEN event ELSE Head(queue[i - 1])

\* Mutant: the index wraps too late.
process_delay_late(i, event) ==
  IF Len(queue[i]) > way[mode].lengths[i] THEN Append(Tail(queue[i]), event)
                                          ELSE Append(queue[i], event)

process_delay(i, event) ==
  IF Full(i) THEN Append(Tail(queue[i]), event) ELSE Append(queue[i], event)

Through(event) ==
  [i \in DOMAIN queue |->
     IF Reached(i) THEN process_delay(i, Given(i, event)) ELSE queue[i]]

\* What comes out of the last delay.
Out(event) ==
  IF \A i \in DOMAIN queue : Full(i) THEN Given(Len(queue) + 1, event)
                                     ELSE "no"

\* Mutant: the generators do not send the tick.
AfterPass_colour == "no"

\* What comes after a pass.  A generator sends the colour and then the tick
\* itself to its children; outside of the work queue there is one event.
AfterPass ==
  IF walk \in {"colour", "colour_half"} /\ mt # "stim" THEN "tick" ELSE "no"

\* With the first byte written: the colour of a tick is never the last one.
Mixture(colour) ==
  IF led # colour THEN "torn" ELSE IF Ticking(mode) THEN "mixed" ELSE led

\* An event on its way to the LED slab, which writes the first of the three
\* bytes if it is a colour, and leaves a mixture if the colour is new.
Pass(event) ==
  /\ walk \in {"colour", "tick"}
  /\ queue' = Through(event)
  /\ IF way[mode].fed /\ Out(event) \notin {"no", "tick"}
     THEN /\ ink' = Out(event)
          /\ led' = Mixture(Out(event))
          /\ walk' = IF walk = "colour" THEN "colour_half" ELSE "tick_half"
     ELSE /\ walk' = AfterPass
          /\ UNCHANGED <<ink, led>>

\* The other bytes are written.
WriteRest ==
  /\ walk \in {"colour_half", "tick_half"}
  /\ led' = ink
  /\ ink' = "zero"
  /\ walk' = AfterPass
  /\ UNCHANGED queue

WorkStep ==
  /\ WorkRuns
  /\ ~cut
  /\ Pass(IF walk = "colour" THEN Colour(mode) ELSE "tick") \/ WriteRest
  /\ walks' = IF walk' = "no" /\ walks <= way[mode].ticks THEN walks + 1
                                                          ELSE walks
  /\ UNCHANGED <<view, way, modeVars, tickVars, cut, sendVars, resource, fault>>

\* The work queue goes on with a traversal of slabs that have been freed.
Dangle ==
  /\ WorkRuns
  /\ cut
  /\ fault' = "dangling"
  /\ UNCHANGED <<view, way, modeVars, tickVars, walkVars, sendVars, resource>>

(***************************************************************************)
(* hikari_light thread: a switch of the mode, and the tweaks of sole.      *)
(***************************************************************************)
\* try_switching_mode, another mode has been asked for: the destructor of the
\* old one begins with the LED slabs, then sc, the generator and, of the
\* ticker, the timer.  A traversal that is preempted will find its slabs
\* freed.
try_switching_mode ==
  /\ ModeRuns
  /\ mt = "idle"
  /\ cut' = (cut \/ walk # "no")
  /\ walk' = "no"
  /\ alive' = alive \ (IF mode = "sole" THEN {"leds"} ELSE {"leds", "sc", "gen"})
  /\ timer' = FALSE
  /\ tint' = "sole"
  /\ mt' = IF mode = NoMode THEN "construct"
           ELSE IF Ticking(mode) THEN "cancel" ELSE "destruct"
  /\ UNCHANGED <<view, way, mode, queued, ink, queue, walks, led, sendVars,
                 resource, fault>>

\* Mutant: the work stays queued.
CancelWork_not ==
  /\ ModeRuns
  /\ mt = "cancel"
  /\ mt' = "destruct"
  /\ UNCHANGED <<view, way, mode, tint, alive, tickVars, walkVars, sendVars,
                 resource, fault>>

\* k_work_cancel takes the work from the queue; it does not wait for one
\* that is running.
CancelWork ==
  /\ ModeRuns
  /\ mt = "cancel"
  /\ queued' = FALSE
  /\ mt' = "destruct"
  /\ UNCHANGED <<view, way, mode, tint, alive, timer, walkVars, sendVars,
                 resource, fault>>

\* The rest of the destructor: the ticker, the notifier, the delays with what
\* they hold, and RETURN_ALL_HIKARI_LIGHT_RESOURCES.
Destruct ==
  /\ ModeRuns
  /\ mt = "destruct"
  /\ alive' = alive \ {"ticker", "delays"}
  /\ queue' = << >>
  /\ resource' = "free"
  /\ mt' = "construct"
  /\ UNCHANGED <<view, way, mode, tint, tickVars, walk, ink, cut, walks, led,
                 sendVars, fault>>

\* USE_ALL_HIKARI_LIGHT_RESOURCES succeeds for the LED: it is registered, not
\* in use, and no other name is for the same place.
Usable ==
  /\ resource = "free"
  /\ Place(view) \in Places
  /\ \A other \in Leds \ {view} : Place(other) # Place(view)

\* The resources are used, or it is an oops; the slabs are created and
\* connected, which starts the ticker of wave and glow; off and sole send
\* their colour.  (Sole has the colour of its last tweak: either is possible,
\* and in other modes it is not looked at.)
Construct(m) ==
  /\ ModeRuns
  /\ mt = "construct"
  /\ m # mode
  /\ Usable
  /\ resource' = "used"
  /\ mode' = m
  /\ tint' \in IF m = "sole" THEN Tints ELSE {"sole"}
  /\ alive' = Created(m)
  /\ timer' = Ticking(m)
  /\ queue' = [i \in DOMAIN way[m].lengths |-> << >>]
  /\ walks' = 0
  /\ IF Ticking(m)
     THEN mt' = "idle" /\ UNCHANGED walk
     ELSE mt' = "stim" /\ walk' = "colour"
  /\ UNCHANGED <<view, way, queued, ink, cut, led, sendVars, fault>>

NotUsable ==
  /\ ModeRuns
  /\ mt = "construct"
  /\ ~Usable
  /\ fault' = "resource"
  /\ UNCHANGED <<view, way, modeVars, tickVars, walkVars, sendVars, resource>>

\* slab_stim of the thread itself, until it returns.
ModeStim ==
  /\ ModeRuns
  /\ mt = "stim"
  /\ Pass(Colour(mode)) \/ WriteRest
  /\ mt' = IF walk' = "no" THEN "idle" ELSE mt
  /\ UNCHANGED <<view, way, mode, tint, alive, tickVars, cut, walks, sendVars,
                 resource, fault>>

\* sole_tweak_color, _intensity and _gain.
sole_tweak ==
  /\ ModeRuns
  /\ mt = "idle"
  /\ mode = "sole"
  /\ tint' = IF tint = "sole" THEN "sole2" ELSE "sole"
  /\ mt' = "stim"
  /\ walk' = "colour"
  /\ UNCHANGED <<view, way, mode, alive, tickVars, ink, cut, queue, walks,
                 led, sendVars, resource, fault>>

-----------------------------------------------------------------------------
Driver(th) ==
  adrledrgb_check(th) \/ Retry(th) \/ adrledrgb_fill(th) \/ adrledrgb_play(th)

Main     == Driver("main") \/ setup_light_resources \/ register_resources
Update   == Driver("update") \/ light_update_loop
Switch   == \/ CancelWork \/ Destruct \/ ModeStim
            \/ (\E m \in Modes : Construct(m)) \/ NotUsable
Actions  == sole_tweak \/ try_switching_mode
Work     == work_tick \/ WorkStep \/ Dangle

Next == Main \/ Update \/ Switch \/ Actions \/ Work \/ timer_expired \/ PwmStops

\* Interrupts come, and threads run when they may.  The update thread keeps
\* the work queue waiting again and again, but sleeps most of the time: the
\* work queue goes on if it may again and again.
Fairness ==
  /\ WF_vars(Main) /\ WF_vars(Update) /\ WF_vars(Switch)
  /\ WF_vars(timer_expired) /\ WF_vars(PwmStops)
  /\ SF_vars(Work)

Spec == Init /\ [][Next]_vars /\ Fairness

-----------------------------------------------------------------------------
\* The heap holds the slabs of the mode.  Its destructor leaves nothing
\* behind but sole's sc (modes/sole.c:113-124), and neither the timer nor
\* the queued work has a ticker that is gone (slab_ticker.c:59-62).
SlabsFollowMode ==
  /\ mt = "idle" /\ mode # NoMode => alive = Created(mode)
  /\ mt = "construct" =>
       alive = IF mode = "sole" THEN {"sc"} ELSE {}
  /\ timer \/ queued => "ticker" \in alive

\* The LED has the colour of its mode: in off and sole when the thread is
\* done, in wave and glow after as many ticks as half of its delays are
\* long, since each tick brings two events (slab_waver.c:44-52); but for the
\* moment a tick needs to write its bytes.
LedsFollowMode ==
  /\ mt = "idle" /\ mode \in {"off", "sole"} => led = Colour(mode)
  /\ /\ mt = "idle" /\ mode \in {"wave", "glow"}
     /\ view \notin Forgotten(mode)
     /\ walks > way[mode].ticks
     => led = IF walk = "colour_half" THEN "mixed" ELSE Colour(mode)

\* While the PWM plays, nobody starts it again, and the sequence it reads by
\* DMA does not change: main and the light update thread use the same driver
\* (adrledrgb.c:74-118).
PlaybackUndisturbed ==
  [][pwm # "stopped" =>
       /\ pwm' \in {pwm, "stopped"}
       /\ pwm = "own" => sequence' = sequence]_vars

\* A mode that stays is seen in the end: colours of other modes, delayed or
\* torn, disappear, and in off and sole the one colour is played.  In wave
\* and glow the light update thread may come between the bytes of any tick
\* (light_resource.c:229-239, the work queue has the lower priority), so that
\* mixtures of two colours of the mode can come again and again; no others.
ShownInTheEnd ==
  \A m \in Modes :
    view \notin Forgotten(m) =>
      (<>[](mode = m /\ mt = "idle" /\ fault = "none")
         => /\ <>[](\/ sequence = Colour(m)
                   \/ (Ticking(m) /\ sequence = "mixed"))
            /\ []<>(pwm = "own"))
=============================================================================
