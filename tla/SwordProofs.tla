----------------------------- MODULE SwordProofs -----------------------------
(***************************************************************************)
(* What is proved about Sword, for every LED of the sword: its types, that *)
(* the heap and the timer follow the mode, that the LED does, and that the *)
(* sequence the PWM plays is left alone.                                   *)
(*                                                                         *)
(* Ordered is about who has come how far: main, before the update thread   *)
(* and before the first mode; HeapFollows about the slabs at every place   *)
(* of the hikari_light thread; QueueFits and InStep about the events that  *)
(* the delays on the way hold: how many, and which of them are colours.    *)
(***************************************************************************)
EXTENDS Sword, SequenceTheorems, TLAPS

Kinds  == {"leds", "sc", "gen", "ticker", "delays"}
Stops == {"attach", "wait", "check", "busy", "fill", "play", "register",
            "sleep", "done"}
Events == Modes \cup Tints \cup {"tick"}

\* TypeOK, but for the delays.
Types ==
  /\ view \in Views
  /\ way = [m \in Modes |-> Way(m, view)]
  /\ mt \in {"idle", "cancel", "destruct", "construct", "stim"}
  /\ mode \in Modes \cup {NoMode}
  /\ tint \in Tints
  /\ alive \subseteq Kinds
  /\ timer \in BOOLEAN /\ queued \in BOOLEAN
  /\ cut \in BOOLEAN /\ init_sem \in BOOLEAN
  /\ walk \in {"no", "colour", "colour_half", "tick", "tick_half"}
  /\ ink \in Colours /\ led \in Colours /\ sequence \in Colours
  /\ walks \in Nat
  /\ pc \in [Threads -> Stops]
  /\ turn \in [Threads -> {"own", "other"}]
  /\ resource \in {"none", "free", "used"}
  /\ pwm \in {"stopped", "own", "other"}
  /\ fault \in {"none", "resource", "dangling"}

\* The update thread waits until main is done, and there is no mode before:
\* the resources are not there.  Who is about to play finds the PWM stopped.
Ordered ==
  /\ init_sem => pc["main"] = "done"
  /\ pc["update"] # "wait" => pc["main"] = "done"
  /\ \A th \in Threads : pc[th] \in {"fill", "play"} => pwm = "stopped"
  /\ pc["main"] # "done" =>
       resource = "none" /\ mode = NoMode /\ mt \in {"idle", "construct"}

\* The slabs that are left while the thread is at a place.
HeapFollows ==
  /\ mt = "stim" => mode \in {"off", "sole"}
  /\ mt = "cancel" => mode \in Modes /\ Ticking(mode)
  /\ mt = "destruct" => mode \in Modes
  /\ mt \in {"idle", "stim"} =>
       alive = IF mode = NoMode THEN {} ELSE Created(mode)
  /\ mt \in {"cancel", "destruct"} =>
       alive = IF mode = "sole" THEN {"sc"}
               ELSE IF mode = "off" THEN {} ELSE {"ticker", "delays"}
  /\ mt = "construct" => alive = IF mode = "sole" THEN {"sc"} ELSE {}
  /\ timer => mt = "idle" /\ mode \in {"glow", "wave"}
  /\ queued => mt \in {"idle", "cancel"} /\ mode \in {"glow", "wave"}
  /\ fault = "dangling" => cut

\* A traversal is the thread's own in off and sole, the work queue's in the
\* others.
WalkFollows ==
  /\ mt = "stim" => walk \in {"colour", "colour_half"}
  /\ mt \in {"cancel", "destruct", "construct"} => walk = "no"
  /\ mt = "idle" /\ walk # "no" => mode \in {"glow", "wave"}

\* The delays are those of the mode, from its construction to its end.
QueueFits ==
  /\ queue \in Seq(Seq(Events))
  /\ mode = NoMode \/ mt = "construct" => queue = << >>
  /\ mode \in Modes /\ mt # "construct" =>
       Len(queue) = Len(way[mode].lengths)
  /\ \A i \in DOMAIN queue : Len(queue[i]) <= way[mode].lengths[i]

-----------------------------------------------------------------------------
\* What the LED shows, in off and sole.
ShowsAtOnce ==
  mode \in {"off", "sole"} =>
    /\ mt = "stim" /\ walk = "colour_half" => ink = Colour(mode)
    /\ mt = "idle" => led = Colour(mode)

\* The colour of this tick has been sent, the tick has not.
Halfway == walk \in {"colour_half", "tick"}

Odd(j) == j % 2 = 1

\* What delay i holds after `walks` ticks: nothing, or everything since it
\* is fed, or it is full; colours and ticks take turns, a colour first.
Holds(i) ==
  LET held == Held(way[mode])
      half == IF Halfway THEN 1 ELSE 0
  IN  /\ Len(queue[i]) =
           IF walks < held[i - 1] THEN 0
           ELSE IF held[i] <= walks THEN way[mode].lengths[i]
           ELSE 2 * (walks - held[i - 1]) + half
      /\ \A j \in DOMAIN queue[i] :
           queue[i][j] = IF Odd(j) = (Halfway /\ held[i] <= walks)
                         THEN "tick" ELSE mode

\* In glow and wave the LED has the colour when all delays have been full for
\* a tick.
InStep ==
  mt = "idle" /\ mode \in {"glow", "wave"} =>
    /\ \A i \in DOMAIN queue : Holds(i)
    /\ walk # "tick_half"
    /\ walk = "colour_half" => ink = mode
    /\ view \notin Forgotten(mode) =>
         /\ walks > way[mode].ticks =>
              led = IF walk = "colour_half" THEN "mixed" ELSE mode
         /\ walks = way[mode].ticks /\ walk = "tick" => led = mode

IInv ==
  /\ Types /\ Ordered /\ HeapFollows /\ WalkFollows
  /\ QueueFits /\ ShowsAtOnce /\ InStep

-----------------------------------------------------------------------------
(***************************************************************************)
(* Ways, and an event that goes through the delays of one.                 *)
(***************************************************************************)
LEMMA WayOfMode ==
  ASSUME Types, NEW m \in Modes
  PROVE  /\ Counted(way[m])
         /\ view \notin Forgotten(m) => way[m].fed
         /\ m \in {"off", "sole"} => way[m].lengths = << >>
         /\ Ticking(m) <=> m \in {"glow", "wave"}
<1>1. view \in Leds /\ way[m] = Way(m, view)
  BY ViewsAssumption DEF Types
<1>2. Ticking(m) <=> m \in {"glow", "wave"}
  BY DEF Ticking
<1> QED
  BY <1>1, <1>2, WaysAssumption

\* What is a positive length.
LEMMA WayLengths ==
  ASSUME Types, NEW m \in Modes
  PROVE  /\ way[m].lengths \in Seq(1..10)
         /\ Len(way[m].lengths) \in Nat
         /\ DOMAIN way[m].lengths = 1..Len(way[m].lengths)
         /\ \A i \in 1..Len(way[m].lengths) : way[m].lengths[i] \in 1..10
<1>1. way[m].lengths \in Seq(1..10)
  BY WayOfMode DEF Counted
<1> QED
  BY <1>1, LenProperties, ElementOfSeq

\* The delays and their lengths belong together, while there is a mode.
LEMMA Delayed ==
  ASSUME Types, QueueFits
  PROVE  /\ Len(queue) \in Nat /\ DOMAIN queue = 1..Len(queue)
         /\ \A i \in 1..Len(queue) :
              /\ queue[i] \in Seq(Events) /\ Len(queue[i]) \in Nat
              /\ DOMAIN queue[i] = 1..Len(queue[i])
              /\ mode \in Modes
              /\ way[mode].lengths[i] \in 1..10
<1>1. Len(queue) \in Nat /\ DOMAIN queue = 1..Len(queue)
  BY LenProperties DEF QueueFits
<1>2. ASSUME NEW i \in 1..Len(queue)
      PROVE  /\ queue[i] \in Seq(Events) /\ Len(queue[i]) \in Nat
             /\ DOMAIN queue[i] = 1..Len(queue[i])
  BY <1>1, LenProperties, ElementOfSeq DEF QueueFits
<1>3. ASSUME NEW i \in 1..Len(queue)
      PROVE  mode \in Modes /\ way[mode].lengths[i] \in 1..10
  <2>1. queue # << >>
    BY <1>1, EmptySeq
  <2>2. mode \in Modes /\ Len(queue) = Len(way[mode].lengths)
    BY <2>1 DEF QueueFits, Types
  <2> QED
    BY <2>2, WayLengths
<1> QED
  BY <1>1, <1>2, <1>3

\* A full delay gives an event.
LEMMA FullGives ==
  ASSUME Types, QueueFits, NEW i \in 1..Len(queue), Full(i)
  PROVE  /\ queue[i] # << >> /\ Len(queue[i]) > 0
         /\ Head(queue[i]) = queue[i][1] /\ Head(queue[i]) \in Events
<1>0. /\ Len(queue) \in Nat
      /\ queue[i] \in Seq(Events) /\ way[mode].lengths[i] \in 1..10
  BY Delayed
<1>1. queue[i] \in Seq(Events) /\ Len(queue[i]) \in 1..10
  BY <1>0 DEF Full
<1>2. queue[i] # << >>
  <2>1. CASE queue[i] = << >>
    <3>1. Len(queue[i]) = 0
      BY <2>1
    <3>2. 0 \in 1..10
      BY <1>1, <3>1
    <3> QED
      BY <3>2
  <2> QED
    BY <2>1
<1> QED
  BY <1>1, <1>2, HeadTailProperties

LEMMA GivenIsEvent ==
  ASSUME Types, QueueFits, NEW i \in 1..(Len(queue) + 1),
         NEW event \in Events,
         \A j \in 1..(i - 1) : Full(j)
  PROVE  Given(i, event) \in Events
<1>1. CASE i = 1
  BY <1>1 DEF Given
<1>2. CASE i # 1
  <2>1. i - 1 \in 1..Len(queue) /\ i - 1 \in 1..(i - 1)
    BY <1>2, Delayed
  <2>2. Head(queue[i - 1]) \in Events
    BY <2>1, FullGives
  <2> QED
    BY <2>2, <1>2 DEF Given
<1> QED
  BY <1>1, <1>2

\* A delay that gets an event holds it last; it is full already, or not yet
\* longer than it may be.
LEMMA DelayGets ==
  ASSUME Types, QueueFits, NEW i \in 1..Len(queue), NEW event \in Events
  PROVE  LET old == queue[i]
             new == process_delay(i, event)
         IN  /\ new \in Seq(Events)
             /\ DOMAIN new = 1..Len(new)
             /\ Len(new) = IF Full(i) THEN Len(old) ELSE Len(old) + 1
             /\ Len(new) <= way[mode].lengths[i]
             /\ new[Len(new)] = event
             /\ \A j \in 1..(Len(new) - 1) :
                  new[j] = IF Full(i) THEN old[j + 1] ELSE old[j]
<1> DEFINE old == queue[i]
<1>0. i \in DOMAIN queue /\ Len(old) <= way[mode].lengths[i]
  BY Delayed DEF QueueFits
<1>1. /\ old \in Seq(Events) /\ Len(old) \in Nat
      /\ way[mode].lengths[i] \in Nat /\ Len(old) <= way[mode].lengths[i]
  <2>1. old \in Seq(Events) /\ Len(old) \in Nat
        /\ way[mode].lengths[i] \in 1..10
    BY Delayed
  <2> QED
    BY <2>1, <1>0
<1>2. CASE Full(i)
  <2>1. old # << >>
    BY <1>2, FullGives
  <2>2. /\ Tail(old) \in Seq(Events) /\ Len(Tail(old)) = Len(old) - 1
        /\ \A j \in 1..Len(Tail(old)) : Tail(old)[j] = old[j + 1]
    BY <1>1, <2>1, HeadTailProperties
  <2>3. process_delay(i, event) = Append(Tail(old), event)
    BY <1>2 DEF process_delay
  <2> HIDE DEF old
  <2>4. /\ Append(Tail(old), event) \in Seq(Events)
        /\ Len(Append(Tail(old), event)) = Len(old)
        /\ Append(Tail(old), event)[Len(old)] = event
        /\ \A j \in 1..(Len(old) - 1) :
             Append(Tail(old), event)[j] = old[j + 1]
    BY <2>2, <1>1, AppendProperties
  <2>5. DOMAIN process_delay(i, event) = 1..Len(process_delay(i, event))
    BY <2>3, <2>4, LenProperties
  <2> QED
    BY <1>1, <1>2, <2>3, <2>4, <2>5 DEF old
<1>3. CASE ~Full(i)
  <2>1. process_delay(i, event) = Append(old, event)
    BY <1>3 DEF process_delay
  <2>2. Len(old) < way[mode].lengths[i]
    BY <1>1, <1>3 DEF Full
  <2> HIDE DEF old
  <2>3. /\ Append(old, event) \in Seq(Events)
        /\ Len(Append(old, event)) = Len(old) + 1
        /\ Append(old, event)[Len(old) + 1] = event
        /\ \A j \in 1..Len(old) : Append(old, event)[j] = old[j]
    BY <1>1, AppendProperties
  <2>4. DOMAIN process_delay(i, event) = 1..Len(process_delay(i, event))
    BY <2>1, <2>3, LenProperties
  <2> QED
    BY <1>1, <1>3, <2>1, <2>2, <2>3, <2>4 DEF old
<1> QED
  BY <1>2, <1>3

\* An event that goes through leaves as many delays, none too long.
LEMMA ThroughFits ==
  ASSUME Types, QueueFits, NEW event \in Events
  PROVE  /\ Through(event) \in Seq(Seq(Events))
         /\ Len(Through(event)) = Len(queue)
         /\ DOMAIN Through(event) = 1..Len(queue)
         /\ \A i \in 1..Len(queue) :
              Len(Through(event)[i]) <= way[mode].lengths[i]
<1> DEFINE new == Through(event)
<1>1. /\ Len(queue) \in Nat /\ DOMAIN queue = 1..Len(queue)
      /\ \A i \in 1..Len(queue) : queue[i] \in Seq(Events)
      /\ \A i \in 1..Len(queue) : Len(queue[i]) <= way[mode].lengths[i]
  BY Delayed DEF QueueFits
<1>2. DOMAIN new = 1..Len(queue)
  BY <1>1 DEF Through
<1>3. ASSUME NEW i \in 1..Len(queue)
      PROVE  new[i] \in Seq(Events) /\ Len(new[i]) <= way[mode].lengths[i]
  <2>0. new[i] = IF Reached(i) THEN process_delay(i, Given(i, event))
                 ELSE queue[i]
    BY <1>1 DEF Through
  <2> HIDE DEF new
  <2>1. CASE Reached(i)
    <3>1. i \in 1..(Len(queue) + 1)
      BY <1>1
    <3>2. Given(i, event) \in Events
      BY <3>1, <2>1, GivenIsEvent DEF Reached
    <3> QED
      BY <2>0, <2>1, <3>2, DelayGets
  <2>2. CASE ~Reached(i)
    BY <2>0, <2>2, <1>1
  <2> QED
    BY <2>1, <2>2
<1>4. new = [i \in 1..Len(queue) |-> new[i]]
  BY <1>1 DEF Through
<1> HIDE DEF new
<1>5. new \in Seq(Seq(Events)) /\ Len(new) = Len(queue)
  BY <1>1, <1>2, <1>3, <1>4, IsASeq, LenProperties
<1> QED
  BY <1>2, <1>3, <1>5 DEF new

LEMMA OutIsEvent ==
  ASSUME Types, QueueFits, NEW event \in Events
  PROVE  Out(event) \in Events \cup {"no"}
<1>1. CASE \A i \in DOMAIN queue : Full(i)
  <2>1. /\ Len(queue) + 1 \in 1..(Len(queue) + 1)
        /\ \A j \in 1..((Len(queue) + 1) - 1) : Full(j)
    BY <1>1, Delayed
  <2>2. Given(Len(queue) + 1, event) \in Events
    BY <2>1, GivenIsEvent
  <2> QED
    BY <2>2, <1>1 DEF Out
<1>2. CASE ~ \A i \in DOMAIN queue : Full(i)
  BY <1>2 DEF Out
<1> QED
  BY <1>1, <1>2

LEMMA PassFits ==
  ASSUME Types, QueueFits, NEW event \in Events, Pass(event)
  PROVE  /\ ink' \in Colours /\ led' \in Colours
         /\ walk' \in {"no", "tick", "colour_half", "tick_half"}
         /\ queue' \in Seq(Seq(Events)) /\ Len(queue') = Len(queue)
         /\ DOMAIN queue' = 1..Len(queue)
         /\ \A i \in 1..Len(queue) : Len(queue'[i]) <= way[mode].lengths[i]
<1>1. queue' = Through(event)
  BY DEF Pass
<1>2. AfterPass \in {"no", "tick"}
  BY DEF AfterPass
<1>3. ink \in Colours /\ led \in Colours /\ {"torn", "mixed"} \subseteq Colours
  BY DEF Types, Colours
<1>4. CASE way[mode].fed /\ Out(event) \notin {"no", "tick"}
  <2>1. Out(event) \in Colours
    BY <1>4, OutIsEvent DEF Events, Colours
  <2>2. ink' = Out(event) /\ led' \in {led, "torn", "mixed"}
        /\ walk' \in {"colour_half", "tick_half"}
    BY <1>4 DEF Pass, Mixture
  <2>3. ink' \in Colours /\ led' \in Colours
    BY <2>1, <2>2, <1>3
  <2> QED
    BY <2>2, <2>3, <1>1, ThroughFits
<1>5. CASE ~(way[mode].fed /\ Out(event) \notin {"no", "tick"})
  <2>1. ink' = ink /\ led' = led /\ walk' = AfterPass
    BY <1>5 DEF Pass
  <2> QED
    BY <2>1, <1>1, <1>2, <1>3, ThroughFits
<1> QED
  BY <1>4, <1>5

LEMMA RestFits ==
  ASSUME Types, WriteRest
  PROVE  ink' \in Colours /\ led' \in Colours /\ walk' \in {"no", "tick"}
<1> QED
  BY DEF Types, WriteRest, Colours, AfterPass

\* The event of a traversal.
LEMMA ColourIsEvent ==
  ASSUME Types, NEW m \in Modes
  PROVE  Colour(m) \in Events /\ "tick" \in Events
<1> QED
  BY DEF Types, Colour, Events

-----------------------------------------------------------------------------
(***************************************************************************)
(* Types.                                                                  *)
(***************************************************************************)
LEMMA TypesInit == Init => Types
<1> SUFFICES ASSUME Init PROVE Types
  OBVIOUS
<1>1. /\ timer \in BOOLEAN /\ queued \in BOOLEAN
      /\ cut \in BOOLEAN /\ init_sem \in BOOLEAN
  BY Zenon DEF Init
<1>2. /\ ink \in Colours /\ led \in Colours /\ sequence \in Colours
      /\ alive \subseteq Kinds /\ tint \in Tints /\ walks \in Nat
  BY DEF Init, Colours, Tints
<1>3. pc \in [Threads -> Stops] /\ turn \in [Threads -> {"own", "other"}]
  BY DEF Init, Threads, Stops
<1>4. /\ view \in Views /\ way = [m \in Modes |-> Way(m, view)]
      /\ mt = "idle" /\ mode \in Modes \cup {NoMode} /\ walk = "no"
      /\ resource = "none" /\ pwm = "stopped" /\ fault = "none"
  BY DEF Init
<1> QED
  BY <1>1, <1>2, <1>3, <1>4 DEF Types

LEMMA TypesStep ==
  ASSUME Types, QueueFits, HeapFollows, WalkFollows, [Next]_vars
  PROVE  Types'
<1>1. ASSUME NEW th \in Threads, adrledrgb_check(th) PROVE Types'
  BY <1>1 DEF adrledrgb_check, Types, Goto, Threads, Stops, Colours, modeVars, tickVars, walkVars, sendVars
<1>2. ASSUME NEW th \in Threads, Retry(th) PROVE Types'
  BY <1>2 DEF Retry, Types, Goto, Threads, Stops, Colours, modeVars, tickVars, walkVars, sendVars
<1>3. ASSUME NEW th \in Threads, adrledrgb_fill(th) PROVE Types'
  BY <1>3 DEF adrledrgb_fill, Types, Goto, Threads, Stops, Colours, modeVars, tickVars, walkVars, sendVars
<1>4. ASSUME NEW th \in Threads, adrledrgb_play(th) PROVE Types'
  BY <1>4 DEF adrledrgb_play, Types, Goto, Threads, Stops, Colours, modeVars, tickVars, walkVars, sendVars
<1>5. CASE setup_light_resources
  BY <1>5 DEF setup_light_resources, Types, Goto, Threads, Stops, Colours, modeVars, tickVars, walkVars, sendVars
<1>6. CASE register_resources
  BY <1>6 DEF register_resources, Types, Goto, Threads, Stops, Colours, modeVars, tickVars, walkVars, sendVars
<1>7. CASE light_update_loop
  BY <1>7 DEF light_update_loop, Types, Goto, Threads, Stops, Colours, modeVars, tickVars, walkVars, sendVars
<1>8. CASE PwmStops
  BY <1>8 DEF PwmStops, Types, Goto, Threads, Stops, Colours, modeVars, tickVars, walkVars, sendVars
<1>9. CASE timer_expired
  BY <1>9 DEF timer_expired, Types, Goto, Threads, Stops, Colours, modeVars, tickVars, walkVars, sendVars
<1>10. CASE work_tick
  <2>1. queued' \in BOOLEAN
    BY <1>10, Zenon DEF work_tick
  <2> QED
    BY <1>10, <2>1 DEF work_tick, Types, modeVars, tickVars, walkVars, sendVars
<1>11. CASE WorkStep
  <2>1. PICK event \in Events : Pass(event) \/ WriteRest
    <3>1. walk = "colour" => mode \in Modes
      BY <1>11 DEF WorkStep, HeapFollows, WalkFollows, WorkRuns, Modes
    <3> QED
      BY <1>11, <3>1, ColourIsEvent DEF WorkStep, Events
  <2>2. /\ ink' \in Colours /\ led' \in Colours
        /\ walk' \in {"no", "tick", "colour_half", "tick_half"}
    BY <2>1, PassFits, RestFits
  <2>3. walks' \in Nat
    BY <1>11 DEF WorkStep, Types
  <2> QED
    BY <1>11, <2>2, <2>3 DEF WorkStep, Types, modeVars, tickVars, walkVars, sendVars
<1>12. CASE Dangle
  BY <1>12 DEF Dangle, Types, Goto, Threads, Stops, Colours, modeVars, tickVars, walkVars, sendVars
<1>13. CASE try_switching_mode
  <2>1. timer' \in BOOLEAN /\ cut' \in BOOLEAN
    BY <1>13, Zenon DEF try_switching_mode
  <2>2. tint' \in Tints /\ alive' \subseteq Kinds
    BY <1>13 DEF try_switching_mode, Types, Tints
  <2> QED
    BY <1>13, <2>1, <2>2 DEF try_switching_mode, Types, modeVars, tickVars, walkVars, sendVars
<1>14. CASE CancelWork
  <2>1. queued' \in BOOLEAN
    BY <1>14, Zenon DEF CancelWork
  <2> QED
    BY <1>14, <2>1 DEF CancelWork, Types, modeVars, tickVars, walkVars, sendVars
<1>15. CASE Destruct
  BY <1>15 DEF Destruct, Types, Goto, Threads, Stops, Colours, modeVars, tickVars, walkVars, sendVars
<1>16. ASSUME NEW m \in Modes, Construct(m) PROVE Types'
  <2>1. timer' \in BOOLEAN
    <3>1. timer' = Ticking(m)
      BY <1>16, Zenon DEF Construct
    <3>2. Ticking(m) \in BOOLEAN
      BY DEF Ticking
    <3> QED
      BY <3>1, <3>2, Zenon
  <2>2. tint' \in Tints /\ alive' \subseteq Kinds
    BY <1>16 DEF Construct, Types, Tints, Created, Kinds
  <2>3. /\ mt' \in {"idle", "stim"} /\ walk' \in {walk, "colour"}
        /\ mode' = m /\ walks' = 0 /\ resource' = "used"
    BY <1>16 DEF Construct
  <2> QED
    BY <1>16, <2>1, <2>2, <2>3 DEF Construct, Types, modeVars, tickVars, walkVars, sendVars
<1>17. CASE NotUsable
  BY <1>17 DEF NotUsable, Types, Goto, Threads, Stops, Colours, modeVars, tickVars, walkVars, sendVars
<1>18. CASE ModeStim
  <2>1. PICK event \in Events : Pass(event) \/ WriteRest
    <3>1. mode \in Modes
      BY <1>18 DEF ModeStim, HeapFollows, Modes
    <3> QED
      BY <1>18, <3>1, ColourIsEvent DEF ModeStim
  <2>2. /\ ink' \in Colours /\ led' \in Colours
        /\ walk' \in {"no", "tick", "colour_half", "tick_half"}
    BY <2>1, PassFits, RestFits
  <2>3. mt' \in {"idle", "stim"}
    BY <1>18 DEF ModeStim
  <2> QED
    BY <1>18, <2>2, <2>3 DEF ModeStim, Types, modeVars, tickVars, walkVars, sendVars
<1>19. CASE sole_tweak
  <2>1. tint' \in Tints /\ mt' = "stim" /\ walk' = "colour"
    BY <1>19 DEF sole_tweak, Tints
  <2> QED
    BY <1>19, <2>1 DEF sole_tweak, Types, modeVars, tickVars, walkVars, sendVars
<1>20. CASE UNCHANGED vars
  BY <1>20 DEF Types, vars, modeVars, tickVars, walkVars, sendVars
<1> QED
  BY <1>1, <1>2, <1>3, <1>4, <1>5, <1>6, <1>7, <1>8, <1>9, <1>10, <1>11, <1>12, <1>13, <1>14, <1>15, <1>16, <1>17, <1>18, <1>19, <1>20
     DEF Next, Main, Update, Switch, Actions, Work, Driver, Threads

-----------------------------------------------------------------------------
(***************************************************************************)
(* The steps of main, of the update thread and of the PWM, and those that  *)
(* leave everything but a fault alone, for the invariants about modes.     *)
(***************************************************************************)
Lights == Main \/ Update \/ PwmStops

\* Nothing that a mode has changes.
Kept == UNCHANGED <<view, way, modeVars, tickVars, walk, ink, cut, queue, walks>>

LEMMA LightsKeep ==
  ASSUME Lights
  PROVE  /\ Kept /\ fault' = fault
         /\ led' = led \/ pc["main"] = "attach"
<1>1. ASSUME NEW th \in Threads, Driver(th)
      PROVE  Kept /\ fault' = fault /\ led' = led
  <2>1. CASE adrledrgb_check(th)
    BY <2>1 DEF adrledrgb_check, Kept, modeVars, tickVars, walkVars
  <2>2. CASE Retry(th)
    BY <2>2 DEF Retry, Kept, modeVars, tickVars, walkVars
  <2>3. CASE adrledrgb_fill(th)
    BY <2>3 DEF adrledrgb_fill, Kept, modeVars, tickVars, walkVars
  <2>4. CASE adrledrgb_play(th)
    BY <2>4 DEF adrledrgb_play, Kept, modeVars, tickVars, walkVars
  <2> QED
    BY <1>1, <2>1, <2>2, <2>3, <2>4 DEF Driver
<1>2. CASE setup_light_resources
  BY <1>2 DEF setup_light_resources, Kept, modeVars, tickVars
<1>3. CASE register_resources
  BY <1>3 DEF register_resources, Kept, modeVars, tickVars, walkVars
<1>4. CASE light_update_loop
  BY <1>4 DEF light_update_loop, Kept, modeVars, tickVars, walkVars
<1>5. CASE PwmStops
  BY <1>5 DEF PwmStops, Kept, modeVars, tickVars, walkVars
<1> QED
  BY <1>1, <1>2, <1>3, <1>4, <1>5 DEF Lights, Main, Update, Threads

LEMMA FaultsKeep ==
  ASSUME Dangle \/ NotUsable
  PROVE  /\ Kept /\ led' = led /\ UNCHANGED <<sendVars, resource>>
         /\ fault' = "dangling" => cut
<1>1. CASE Dangle
  BY <1>1 DEF Dangle, Kept, modeVars, tickVars, walkVars
<1>2. CASE NotUsable
  BY <1>2 DEF NotUsable, Kept, modeVars, tickVars, walkVars
<1> QED
  BY <1>1, <1>2

LEMMA Steps ==
  ASSUME [Next]_vars
  PROVE  \/ Lights \/ Dangle \/ NotUsable \/ timer_expired
         \/ work_tick \/ WorkStep \/ try_switching_mode \/ CancelWork
         \/ Destruct \/ (\E m \in Modes : Construct(m)) \/ ModeStim
         \/ sole_tweak \/ UNCHANGED vars
<1> QED
  BY DEF Next, Lights, Switch, Actions, Work

\* While nothing that a mode has changes, its invariants hold on.
LEMMA KeptHolds ==
  ASSUME Kept
  PROVE  /\ QueueFits => QueueFits'
         /\ WalkFollows => WalkFollows'
         /\ HeapFollows /\ (fault' = "dangling" => cut) => HeapFollows'
         /\ led' = led /\ ShowsAtOnce => ShowsAtOnce'
         /\ led' = led /\ InStep => InStep'
<1> USE DEF Kept, modeVars, tickVars
<1>1. QueueFits => QueueFits'
  BY DEF QueueFits
<1>2. WalkFollows => WalkFollows'
  BY DEF WalkFollows
<1>3. HeapFollows /\ (fault' = "dangling" => cut) => HeapFollows'
  BY DEF HeapFollows
<1>4. led' = led /\ ShowsAtOnce => ShowsAtOnce'
  BY DEF ShowsAtOnce, Colour
<1>5. led' = led /\ InStep => InStep'
  BY DEF InStep, Holds, Halfway
<1> QED
  BY <1>1, <1>2, <1>3, <1>4, <1>5

-----------------------------------------------------------------------------
(***************************************************************************)
(* The delays.                                                             *)
(***************************************************************************)
LEMMA QueueStays ==
  ASSUME QueueFits, UNCHANGED <<way, mode, queue>>,
         mt' = "construct" <=> mt = "construct"
  PROVE  QueueFits'
<1> QED
  BY DEF QueueFits

LEMMA QueueFitsStep ==
  ASSUME Types, QueueFits, HeapFollows, WalkFollows, [Next]_vars
  PROVE  QueueFits'
<1> USE DEF modeVars
<1>1. CASE Lights
  BY <1>1, LightsKeep, KeptHolds
<1>2. CASE Dangle \/ NotUsable
  BY <1>2, FaultsKeep, KeptHolds
<1>3. CASE timer_expired \/ work_tick \/ CancelWork \/ sole_tweak
  BY <1>3, QueueStays
     DEF timer_expired, work_tick, CancelWork, sole_tweak, walkVars
<1>4. ASSUME NEW event \in Events, Pass(event), mode \in Modes,
             UNCHANGED <<way, mode>>, mt # "construct", mt' # "construct"
      PROVE  QueueFits'
  <2>1. /\ queue' \in Seq(Seq(Events)) /\ Len(queue') = Len(queue)
        /\ DOMAIN queue' = 1..Len(queue)
        /\ \A i \in 1..Len(queue) : Len(queue'[i]) <= way[mode].lengths[i]
    BY <1>4, PassFits
  <2>2. mode # NoMode
    BY <1>4, ViewsAssumption
  <2> QED
    BY <1>4, <2>1, <2>2 DEF QueueFits
<1>5. CASE WorkStep
  <2>1. /\ mt = "idle" /\ UNCHANGED <<way, mode, mt>>
        /\ walk # "no" /\ mode \in Modes
    BY <1>5
       DEF WorkStep, WorkRuns, Pass, WriteRest, WalkFollows, Modes
  <2>2. CASE WriteRest
    BY <2>1, <2>2, QueueStays DEF WriteRest
  <2>3. CASE ~WriteRest
    <3>1. PICK event \in Events : Pass(event)
      BY <1>5, <2>1, <2>3, ColourIsEvent DEF WorkStep
    <3> QED
      BY <3>1, <2>1, <1>4
  <2> QED
    BY <2>2, <2>3
<1>6. CASE ModeStim
  <2>1. /\ mt = "stim" /\ mt' \in {"stim", "idle"} /\ UNCHANGED <<way, mode>>
        /\ mode \in Modes
    BY <1>6 DEF ModeStim, HeapFollows, Modes
  <2>2. CASE WriteRest
    BY <2>1, <2>2, QueueStays DEF WriteRest
  <2>3. CASE ~WriteRest
    <3>1. PICK event \in Events : Pass(event)
      BY <1>6, <2>1, <2>3, ColourIsEvent DEF ModeStim
    <3> QED
      BY <3>1, <2>1, <1>4
  <2> QED
    BY <2>2, <2>3
<1>7. CASE try_switching_mode
  <2>1. CASE mode = NoMode
    BY <1>7, <2>1, ViewsAssumption DEF try_switching_mode, QueueFits
  <2>2. CASE mode # NoMode
    <3>1. mt = "idle" /\ mt' # "construct" /\ UNCHANGED <<way, mode, queue>>
      BY <1>7, <2>2 DEF try_switching_mode
    <3> QED
      BY <3>1, QueueStays
  <2> QED
    BY <2>1, <2>2
<1>8. CASE Destruct
  <2>1. queue' = << >> /\ mt' = "construct"
    BY <1>8 DEF Destruct
  <2>2. queue' \in Seq(Seq(Events)) /\ DOMAIN queue' = {}
    BY <2>1
  <2> QED
    BY <2>1, <2>2 DEF QueueFits
<1>9. ASSUME NEW m \in Modes, Construct(m) PROVE QueueFits'
  <2>1. /\ mode' = m /\ way' = way /\ mt' # "construct" /\ m # NoMode
        /\ queue' = [i \in DOMAIN way[m].lengths |-> << >>]
    BY <1>9, ViewsAssumption DEF Construct
  <2>2. /\ DOMAIN way[m].lengths = 1..Len(way[m].lengths)
        /\ Len(way[m].lengths) \in Nat
        /\ \A i \in 1..Len(way[m].lengths) : way[m].lengths[i] \in 1..10
    BY WayLengths
  <2>3. << >> \in Seq(Events) /\ Len(<< >>) = 0
    BY EmptySeq
  <2>4. queue' = [i \in 1..Len(way[m].lengths) |-> << >>]
    BY <2>1, <2>2
  <2>5. queue' \in Seq(Seq(Events)) /\ Len(queue') = Len(way[m].lengths)
    BY <2>2, <2>3, <2>4, IsASeq, LenProperties
  <2>6. ASSUME NEW i \in DOMAIN queue'
        PROVE  Len(queue'[i]) <= way[m].lengths[i]
    <3>1. i \in 1..Len(way[m].lengths) /\ queue'[i] = << >>
      BY <2>4
    <3> QED
      BY <3>1, <2>2, <2>3
  <2> QED
    BY <2>1, <2>5, <2>6 DEF QueueFits
<1>10. CASE UNCHANGED vars
  BY <1>10, QueueStays DEF vars, walkVars
<1> QED
  BY <1>1, <1>2, <1>3, <1>5, <1>6, <1>7, <1>8, <1>9, <1>10, Steps

-----------------------------------------------------------------------------
(***************************************************************************)
(* The slabs, the timer and the traversals.                                *)
(***************************************************************************)
LEMMA CreatedKinds ==
  /\ Created("off") = {"leds"}
  /\ Created("sole") = {"leds", "sc"}
  /\ \A m \in {"glow", "wave"} : Created(m) = Kinds
<1> QED
  BY DEF Created, Ticking, Kinds

LEMMA WalkFollowsStep ==
  ASSUME Types, HeapFollows, WalkFollows, [Next]_vars
  PROVE  WalkFollows'
<1> USE DEF modeVars
<1>1. CASE Lights
  BY <1>1, LightsKeep, KeptHolds
<1>2. CASE Dangle \/ NotUsable
  BY <1>2, FaultsKeep, KeptHolds
<1>3. CASE timer_expired \/ CancelWork
  BY <1>3 DEF timer_expired, CancelWork, walkVars, WalkFollows
<1>4. CASE work_tick
  BY <1>4 DEF work_tick, WorkRuns, HeapFollows, WalkFollows
<1>5. CASE WorkStep
  BY <1>5 DEF WorkStep, WorkRuns, Pass, WriteRest, WalkFollows
<1>6. CASE try_switching_mode
  <2>1. walk' = "no" /\ mt' \in {"construct", "cancel", "destruct"}
    BY <1>6 DEF try_switching_mode
  <2> QED
    BY <2>1 DEF WalkFollows
<1>7. CASE Destruct
  BY <1>7 DEF Destruct, WalkFollows
<1>8. ASSUME NEW m \in Modes, Construct(m) PROVE WalkFollows'
  BY <1>8 DEF Construct, WalkFollows
<1>9. CASE ModeStim
  <2>1. /\ mt = "stim" /\ walk \in {"colour", "colour_half"}
        /\ mt' = IF walk' = "no" THEN "idle" ELSE mt
    BY <1>9 DEF ModeStim, WalkFollows
  <2>2. AfterPass = "no"
    BY <2>1 DEF AfterPass
  <2>3. walk' \in {"no", "colour_half"}
    BY <1>9, <2>1, <2>2 DEF ModeStim, Pass, WriteRest
  <2> QED
    BY <2>1, <2>3 DEF WalkFollows
<1>10. CASE sole_tweak
  BY <1>10 DEF sole_tweak, WalkFollows
<1>11. CASE UNCHANGED vars
  BY <1>11 DEF vars, walkVars, WalkFollows
<1> QED
  BY <1>1, <1>2, <1>3, <1>4, <1>5, <1>6, <1>7, <1>8, <1>9, <1>10, <1>11, Steps

LEMMA HeapFollowsStep ==
  ASSUME Types, HeapFollows, [Next]_vars
  PROVE  HeapFollows'
<1> USE DEF modeVars, tickVars
<1>1. CASE Lights
  <2>1. fault' = "dangling" => cut
    BY <1>1, LightsKeep DEF HeapFollows
  <2> QED
    BY <1>1, <2>1, LightsKeep, KeptHolds
<1>2. CASE Dangle \/ NotUsable
  BY <1>2, FaultsKeep, KeptHolds
<1>3. CASE timer_expired
  BY <1>3 DEF timer_expired, walkVars, HeapFollows
<1>4. CASE work_tick
  BY <1>4 DEF work_tick, HeapFollows
<1>5. CASE WorkStep
  BY <1>5 DEF WorkStep, HeapFollows
<1>6. CASE try_switching_mode
  <2>1. /\ mt = "idle" /\ mode' = mode /\ ~timer' /\ queued' = queued
        /\ alive' = alive \ (IF mode = "sole" THEN {"leds"}
                             ELSE {"leds", "sc", "gen"})
        /\ mt' = IF mode = NoMode THEN "construct"
                 ELSE IF Ticking(mode) THEN "cancel" ELSE "destruct"
        /\ fault' = fault /\ (cut => cut')
    BY <1>6 DEF try_switching_mode
  <2>2. CASE mode = NoMode
    <3>1. alive' = {} /\ mode \notin Modes
      BY <2>1, <2>2, ViewsAssumption DEF HeapFollows
    <3> QED
      BY <2>1, <2>2, <3>1 DEF HeapFollows, Modes
  <2>3. CASE mode = "off"
    <3>1. alive' = {} /\ mode # NoMode /\ ~Ticking(mode)
      BY <2>1, <2>3, ViewsAssumption, CreatedKinds
         DEF HeapFollows, Modes, Ticking
    <3> QED
      BY <2>1, <2>3, <3>1 DEF HeapFollows, Modes
  <2>4. CASE mode = "sole"
    <3>1. alive' = {"sc"} /\ mode # NoMode /\ ~Ticking(mode)
      BY <2>1, <2>4, ViewsAssumption, CreatedKinds
         DEF HeapFollows, Modes, Ticking
    <3> QED
      BY <2>1, <2>4, <3>1 DEF HeapFollows, Modes
  <2>5. CASE mode \in {"glow", "wave"}
    <3>1. alive' = {"ticker", "delays"} /\ mode # NoMode /\ Ticking(mode)
      BY <2>1, <2>5, ViewsAssumption, CreatedKinds
         DEF HeapFollows, Modes, Ticking, Kinds
    <3> QED
      BY <2>1, <2>5, <3>1 DEF HeapFollows, Modes
  <2> QED
    BY <2>2, <2>3, <2>4, <2>5 DEF Types, Modes
<1>7. CASE CancelWork
  BY <1>7 DEF CancelWork, walkVars, HeapFollows
<1>8. CASE Destruct
  BY <1>8 DEF Destruct, HeapFollows, Modes
<1>9. ASSUME NEW m \in Modes, Construct(m) PROVE HeapFollows'
  <2>1. /\ mt = "construct" /\ mode' = m /\ m # NoMode
        /\ alive' = Created(m) /\ queued' = queued
        /\ fault' = fault /\ cut' = cut
    BY <1>9, ViewsAssumption DEF Construct
  <2>2. timer' => Ticking(m)
    BY <1>9 DEF Construct
  <2>3. mt' = IF Ticking(m) THEN "idle" ELSE "stim"
    BY <1>9 DEF Construct
  <2> QED
    BY <2>1, <2>2, <2>3 DEF HeapFollows, Ticking, Modes
<1>10. CASE ModeStim
  BY <1>10 DEF ModeStim, HeapFollows
<1>11. CASE sole_tweak
  BY <1>11 DEF sole_tweak, HeapFollows
<1>12. CASE UNCHANGED vars
  BY <1>12 DEF vars, walkVars, HeapFollows
<1> QED
  BY <1>1, <1>2, <1>3, <1>4, <1>5, <1>6, <1>7, <1>8, <1>9, <1>10, <1>11,
     <1>12, Steps

-----------------------------------------------------------------------------
(***************************************************************************)
(* Who comes first.                                                        *)
(***************************************************************************)
LEMMA OrderedStep ==
  ASSUME Types, Ordered, HeapFollows, [Next]_vars
  PROVE  Ordered'
<1> USE DEF modeVars, sendVars
<1>1. pc \in [Threads -> Stops] /\ Threads = {"main", "update"}
  BY DEF Types, Threads
<1>2. ASSUME NEW th \in Threads, Driver(th) PROVE Ordered'
  <2>1. UNCHANGED <<resource, mode, mt, init_sem>>
    BY <1>2 DEF Driver, adrledrgb_check, Retry, adrledrgb_fill, adrledrgb_play
  <2>2. CASE adrledrgb_check(th)
    BY <2>1, <2>2, <1>1 DEF adrledrgb_check, Goto, Ordered
  <2>3. CASE Retry(th)
    BY <2>1, <2>3, <1>1 DEF Retry, Goto, Ordered
  <2>4. CASE adrledrgb_fill(th)
    BY <2>1, <2>4, <1>1 DEF adrledrgb_fill, Goto, Ordered
  <2>5. CASE adrledrgb_play(th)
    <3>1. pc[th] = "play" /\ \A other \in Threads \ {th} :
                               pc[other] \notin {"fill", "play"}
      BY <2>5, <1>1 DEF adrledrgb_play, Ordered
    <3> QED
      BY <2>1, <2>5, <3>1, <1>1 DEF adrledrgb_play, Goto, Ordered
  <2> QED
    BY <1>2, <2>2, <2>3, <2>4, <2>5 DEF Driver
<1>3. CASE setup_light_resources
  BY <1>3, <1>1 DEF setup_light_resources, Goto, Ordered
<1>4. CASE register_resources
  BY <1>4, <1>1 DEF register_resources, Goto, Ordered
<1>5. CASE light_update_loop
  BY <1>5, <1>1 DEF light_update_loop, Goto, Ordered
<1>6. CASE PwmStops
  BY <1>6, <1>1 DEF PwmStops, Ordered
<1>7. CASE Dangle \/ NotUsable
  BY <1>7, FaultsKeep DEF Kept, Ordered
<1>8. CASE timer_expired \/ work_tick \/ WorkStep \/ ModeStim \/ sole_tweak
  BY <1>8, ViewsAssumption
     DEF timer_expired, work_tick, WorkStep, ModeStim, sole_tweak, HeapFollows,
         Ordered, Modes
<1>9. CASE try_switching_mode \/ CancelWork
  BY <1>9 DEF try_switching_mode, CancelWork, Ordered
<1>10. CASE Destruct
  BY <1>10 DEF Destruct, Ordered
<1>11. ASSUME NEW m \in Modes, Construct(m) PROVE Ordered'
  BY <1>11 DEF Construct, Usable, Ordered
<1>12. CASE UNCHANGED vars
  BY <1>12 DEF vars, Ordered
<1> QED
  BY <1>2, <1>3, <1>4, <1>5, <1>6, <1>7, <1>8, <1>9, <1>10, <1>11, <1>12,
     Steps DEF Lights, Main, Update, Threads

-----------------------------------------------------------------------------
(***************************************************************************)
(* Off and sole: there are no delays, and the LED is fed.                  *)
(***************************************************************************)
LEMMA ShowsAtOnceStep ==
  ASSUME Types, Ordered, HeapFollows, WalkFollows, QueueFits, ShowsAtOnce,
         [Next]_vars
  PROVE  ShowsAtOnce'
<1> USE DEF modeVars
<1>1. CASE Lights
  <2>1. CASE led' = led
    BY <1>1, <2>1, LightsKeep, KeptHolds
  <2>2. CASE pc["main"] = "attach"
    <3>1. mode' = mode /\ mode = NoMode
      BY <1>1, <2>2, LightsKeep DEF Ordered, Kept
    <3> QED
      BY <3>1, ViewsAssumption DEF ShowsAtOnce, Modes
  <2> QED
    BY <1>1, <2>1, <2>2, LightsKeep
<1>2. CASE Dangle \/ NotUsable
  BY <1>2, FaultsKeep, KeptHolds
<1>3. CASE timer_expired \/ CancelWork
  BY <1>3 DEF timer_expired, CancelWork, walkVars, ShowsAtOnce, Colour
<1>4. CASE work_tick
  BY <1>4 DEF work_tick, HeapFollows, ShowsAtOnce
<1>5. CASE WorkStep
  <2>1. mode' = mode /\ mode \in {"glow", "wave"}
    BY <1>5 DEF WorkStep, WorkRuns, Pass, WriteRest, WalkFollows
  <2> QED
    BY <2>1 DEF ShowsAtOnce
<1>6. CASE try_switching_mode
  BY <1>6 DEF try_switching_mode, ShowsAtOnce
<1>7. CASE Destruct
  BY <1>7 DEF Destruct, ShowsAtOnce
<1>8. ASSUME NEW m \in Modes, Construct(m) PROVE ShowsAtOnce'
  BY <1>8 DEF Construct, Ticking, ShowsAtOnce
<1>9. CASE ModeStim
  <2>1. /\ mt = "stim" /\ walk \in {"colour", "colour_half"}
        /\ UNCHANGED <<mode, tint>> /\ mode \in {"off", "sole"}
        /\ mt' = IF walk' = "no" THEN "idle" ELSE mt
    BY <1>9 DEF ModeStim, WalkFollows, HeapFollows
  <2>2. Colour(mode)' = Colour(mode) /\ Colour(mode) \notin {"no", "tick"}
    BY <2>1 DEF Colour, Types, Tints
  <2>3. CASE WriteRest
    BY <2>1, <2>2, <2>3 DEF WriteRest, AfterPass, ShowsAtOnce
  <2>4. CASE Pass(Colour(mode))
    <3>1. mode \in Modes /\ view \notin Forgotten(mode)
      BY <2>1 DEF Modes, Forgotten
    <3>2. way[mode].fed /\ way[mode].lengths = << >>
      BY <2>1, <3>1, WayOfMode
    <3>3. queue = << >>
      <4>1. Len(queue) = 0
        BY <2>1, <3>1, <3>2 DEF QueueFits
      <4> QED
        BY <4>1, EmptySeq DEF QueueFits
    <3>4. DOMAIN queue = {} /\ Len(queue) + 1 = 1
      BY <3>3
    <3>5. Out(Colour(mode)) = Colour(mode)
      BY <3>4 DEF Out, Given
    <3>6. walk' \in {"colour_half", "tick_half"} /\ ink' = Colour(mode)
      BY <2>4, <3>2, <3>5, <2>2 DEF Pass
    <3> QED
      BY <3>6, <2>1, <2>2 DEF ShowsAtOnce
  <2> QED
    BY <1>9, <2>3, <2>4 DEF ModeStim
<1>10. CASE sole_tweak
  BY <1>10 DEF sole_tweak, ShowsAtOnce
<1>11. CASE UNCHANGED vars
  BY <1>11 DEF vars, walkVars, ShowsAtOnce, Colour
<1> QED
  BY <1>1, <1>2, <1>3, <1>4, <1>5, <1>6, <1>7, <1>8, <1>9, <1>10, <1>11, Steps

-----------------------------------------------------------------------------
(***************************************************************************)
(* Glow and wave: how far the ticks have come in the delays.               *)
(***************************************************************************)
\* Held of the way of the mode, which is that of the delays.
Until == Held(way[mode])

LEMMA UntilCounts ==
  ASSUME Types, QueueFits, mt = "idle", mode \in Modes
  PROVE  /\ Len(queue) \in Nat /\ DOMAIN queue = 1..Len(queue)
         /\ Until \in [0..Len(queue) -> Nat]
         /\ Until[0] = 0 /\ Until[Len(queue)] = way[mode].ticks
         /\ way[mode].ticks \in Nat
         /\ \A i \in 1..Len(queue) :
              /\ way[mode].lengths[i] = 2 * (Until[i] - Until[i - 1])
              /\ way[mode].lengths[i] \in 1..10
              /\ Until[i - 1] \in Nat /\ Until[i] \in Nat
              /\ Until[i - 1] < Until[i]
         /\ \A i, j \in 0..Len(queue) : i <= j => Until[i] <= Until[j]
<1>1. Len(queue) = Len(way[mode].lengths) /\ Counted(way[mode])
  BY WayOfMode DEF QueueFits
<1>2. Len(queue) \in Nat /\ DOMAIN queue = 1..Len(queue)
  BY Delayed
<1>3. /\ Until \in [0..Len(queue) -> Nat]
      /\ Until[0] = 0 /\ Until[Len(queue)] = way[mode].ticks
      /\ \A i \in 1..Len(queue) :
           way[mode].lengths[i] = 2 * (Until[i] - Until[i - 1])
      /\ \A i, j \in 0..Len(queue) : i <= j => Until[i] <= Until[j]
  BY <1>1 DEF Counted, Until
<1>4. way[mode].ticks \in Nat
  BY <1>2, <1>3
<1>5. ASSUME NEW i \in 1..Len(queue)
      PROVE  /\ way[mode].lengths[i] \in 1..10
             /\ Until[i - 1] \in Nat /\ Until[i] \in Nat
             /\ Until[i - 1] < Until[i]
  <2>1. Until[i - 1] \in Nat /\ Until[i] \in Nat
    BY <1>2, <1>3
  <2>2. way[mode].lengths[i] \in 1..10
    BY Delayed
  <2>3. way[mode].lengths[i] = 2 * (Until[i] - Until[i - 1])
    BY <1>3
  <2> QED
    BY <2>1, <2>2, <2>3
<1> QED
  BY <1>2, <1>3, <1>4, <1>5

\* Events take turns.
LEMMA OddTurns ==
  /\ Odd(1)
  /\ \A j \in Nat : Odd(j + 1) <=> ~Odd(j)
  /\ \A k \in Nat : ~Odd(2 * k) /\ Odd(2 * k + 1)
  /\ \A j \in Nat : Odd(j) \in BOOLEAN
<1> QED
  BY DEF Odd

\* A delay is full from the tick on at which Until says so.
LEMMA FullWhen ==
  ASSUME Types, QueueFits, mt = "idle", mode \in Modes,
         NEW i \in 1..Len(queue), Holds(i)
  PROVE  Full(i) <=> Until[i] <= walks
<1>1. /\ way[mode].lengths[i] = 2 * (Until[i] - Until[i - 1])
      /\ Until[i - 1] \in Nat /\ Until[i] \in Nat
      /\ Until[i - 1] < Until[i]
      /\ Len(queue) \in Nat /\ walks \in Nat
  BY UntilCounts DEF Types
<1>2. PICK half \in {0, 1} :
        Len(queue[i]) = IF walks < Until[i - 1] THEN 0
                        ELSE IF Until[i] <= walks THEN way[mode].lengths[i]
                        ELSE 2 * (walks - Until[i - 1]) + half
  BY DEF Holds, Until
<1> QED
  BY <1>1, <1>2 DEF Full

LEMMA ReachedWhen ==
  ASSUME Types, QueueFits, mt = "idle", mode \in Modes,
         \A i \in DOMAIN queue : Holds(i)
  PROVE  /\ \A i \in 1..Len(queue) : Reached(i) <=> Until[i - 1] <= walks
         /\ (\A i \in DOMAIN queue : Full(i)) <=> way[mode].ticks <= walks
<1>1. /\ Len(queue) \in Nat /\ DOMAIN queue = 1..Len(queue)
      /\ Until \in [0..Len(queue) -> Nat] /\ Until[0] = 0
      /\ Until[Len(queue)] = way[mode].ticks
      /\ \A i, j \in 0..Len(queue) : i <= j => Until[i] <= Until[j]
      /\ walks \in Nat
  BY UntilCounts DEF Types
<1>2. \A i \in 1..Len(queue) : Full(i) <=> Until[i] <= walks
  BY <1>1, FullWhen
<1>3. ASSUME NEW i \in 1..(Len(queue) + 1)
      PROVE  (\A j \in 1..(i - 1) : Full(j)) <=> Until[i - 1] <= walks
  <2>1. i - 1 \in 0..Len(queue)
    BY <1>1
  <2>2. CASE i = 1
    BY <2>2, <1>1
  <2>3. CASE i # 1
    <3>1. i - 1 \in 1..(i - 1) /\ i - 1 \in 1..Len(queue)
      BY <1>1, <2>3
    <3>2. ASSUME Until[i - 1] <= walks, NEW j \in 1..(i - 1)
          PROVE  Full(j)
      <4>1. j \in 1..Len(queue) /\ j \in 0..Len(queue) /\ j <= i - 1
        BY <1>1
      <4>2. Until[j] \in Nat /\ Until[i - 1] \in Nat /\ Until[j] <= Until[i - 1]
        BY <1>1, <2>1, <4>1
      <4>3. Until[j] <= walks
        BY <1>1, <3>2, <4>2
      <4> QED
        BY <4>1, <4>3, <1>2
    <3> QED
      BY <3>1, <3>2, <1>2
  <2> QED
    BY <2>2, <2>3
<1>4. ASSUME NEW i \in 1..Len(queue)
      PROVE  Reached(i) <=> Until[i - 1] <= walks
  <2>1. i \in 1..(Len(queue) + 1)
    BY <1>1
  <2> QED
    BY <2>1, <1>3 DEF Reached
<1>5. (\A i \in DOMAIN queue : Full(i)) <=> way[mode].ticks <= walks
  <2>1. Len(queue) + 1 \in 1..(Len(queue) + 1) /\ (Len(queue) + 1) - 1 = Len(queue)
    BY <1>1
  <2> QED
    BY <2>1, <1>1, <1>3
<1> QED
  BY <1>4, <1>5

\* Delays that are reached get the event that comes in: the full ones give
\* the same kind of event as they get.
LEMMA GivenSame ==
  ASSUME Types, QueueFits, mt = "idle", mode \in Modes,
         \A i \in DOMAIN queue : Holds(i),
         NEW i \in 1..(Len(queue) + 1),
         \A j \in 1..(i - 1) : Full(j)
  PROVE  Given(i, IF Halfway THEN "tick" ELSE mode)
           = IF Halfway THEN "tick" ELSE mode
<1>1. Len(queue) \in Nat /\ DOMAIN queue = 1..Len(queue)
  BY UntilCounts
<1>2. CASE i = 1
  BY <1>2 DEF Given
<1>3. CASE i # 1
  <2>1. i - 1 \in 1..Len(queue) /\ i - 1 \in 1..(i - 1)
    BY <1>1, <1>3
  <2>2. /\ Full(i - 1) /\ Holds(i - 1)
        /\ Head(queue[i - 1]) = queue[i - 1][1]
        /\ queue[i - 1] \in Seq(Events) /\ Len(queue[i - 1]) > 0
    BY <1>1, <2>1, FullGives, Delayed
  <2>3. 1 \in DOMAIN queue[i - 1]
    BY <2>1, <2>2, Delayed
  <2>4. Until[i - 1] <= walks
    BY <2>1, <2>2, FullWhen
  <2>5. queue[i - 1][1] = IF Odd(1) = Halfway THEN "tick" ELSE mode
    <3>1. queue[i - 1][1] = IF Odd(1) = (Halfway /\ Until[i - 1] <= walks)
                            THEN "tick" ELSE mode
      BY <2>2, <2>3 DEF Holds, Until
    <3>2. Halfway \in BOOLEAN
      BY DEF Halfway
    <3>3. (Halfway /\ Until[i - 1] <= walks) = Halfway
      BY <2>4, <3>2, Zenon
    <3> QED
      BY <3>1, <3>3, Zenon
  <2>6. Odd(1)
    BY OddTurns
  <2>7. queue[i - 1][1] = IF Halfway THEN "tick" ELSE mode
    BY <2>5, <2>6
  <2> QED
    BY <1>3, <2>2, <2>7 DEF Given
<1> QED
  BY <1>2, <1>3

\* What has to be shown of a delay after the event: Holds(i)', with the
\* walks and the half it will have.
HoldsThen(i, new, count, half) ==
  /\ Len(new) =
       IF count < Until[i - 1] THEN 0
       ELSE IF Until[i] <= count THEN way[mode].lengths[i]
       ELSE 2 * (count - Until[i - 1]) + (IF half THEN 1 ELSE 0)
  /\ \A j \in 1..Len(new) :
       new[j] = IF Odd(j) = (half /\ Until[i] <= count) THEN "tick" ELSE mode

\* The walks after a pass.
Counting == IF Halfway /\ walks <= way[mode].ticks THEN walks + 1 ELSE walks

LEMMA DelayTurns ==
  ASSUME Types, QueueFits, mt = "idle", mode \in Modes,
         \A i \in DOMAIN queue : Holds(i),
         NEW i \in 1..Len(queue)
  PROVE  HoldsThen(i, Through(IF Halfway THEN "tick" ELSE mode)[i],
                   Counting, ~Halfway)
<1> DEFINE event == IF Halfway THEN "tick" ELSE mode
           new   == Through(event)[i]
           L     == way[mode].lengths[i]
           from  == Until[i - 1]
           to    == Until[i]
           ticks == way[mode].ticks
<1>1. /\ Len(queue) \in Nat /\ DOMAIN queue = 1..Len(queue)
      /\ ticks \in Nat /\ walks \in Nat
      /\ from \in Nat /\ to \in Nat /\ from < to /\ L = 2 * (to - from)
      /\ L \in 1..10
  BY UntilCounts DEF Types
<1>2. to <= ticks
  <2>1. /\ i \in 0..Len(queue) /\ Len(queue) \in 0..Len(queue)
        /\ i <= Len(queue)
    BY <1>1
  <2> QED
    BY <2>1, UntilCounts
<1>3. /\ Len(queue[i]) = IF walks < from THEN 0
                         ELSE IF to <= walks THEN L
                         ELSE 2 * (walks - from) + (IF Halfway THEN 1 ELSE 0)
      /\ \A j \in 1..Len(queue[i]) :
           queue[i][j] = IF Odd(j) = (Halfway /\ to <= walks)
                         THEN "tick" ELSE mode
  BY <1>1, Delayed DEF Holds, Until
<1>4. /\ Reached(i) <=> from <= walks
      /\ Full(i) <=> to <= walks
  BY <1>1, ReachedWhen, FullWhen
<1>5. new = IF Reached(i) THEN process_delay(i, Given(i, event)) ELSE queue[i]
  BY <1>1 DEF Through
<1>6. event \in Events
  BY DEF Events
<1>7. Reached(i) => Given(i, event) = event
  <2>1. i \in 1..(Len(queue) + 1)
    BY <1>1
  <2> QED
    BY <2>1, GivenSame DEF Reached
<1>8. Reached(i) =>
        /\ Len(new) = IF Full(i) THEN Len(queue[i]) ELSE Len(queue[i]) + 1
        /\ new[Len(new)] = event
        /\ \A j \in 1..(Len(new) - 1) :
             new[j] = IF Full(i) THEN queue[i][j + 1] ELSE queue[i][j]
  BY <1>5, <1>6, <1>7, DelayGets
<1>9. Halfway \in BOOLEAN
  BY DEF Halfway
<1> HIDE DEF event, new, L, from, to, ticks
<1>10. /\ Counting \in Nat /\ walks <= Counting
       /\ walks < to => Counting = IF Halfway THEN walks + 1 ELSE walks
  BY <1>1, <1>2 DEF Counting, ticks
<1>11. Len(new) = IF Counting < from THEN 0
                  ELSE IF to <= Counting THEN L
                  ELSE 2 * (Counting - from) + (IF ~Halfway THEN 1 ELSE 0)
  <2>1. CASE walks < from
    BY <2>1, <1>1, <1>3, <1>4, <1>5, <1>9, <1>10
  <2>2. CASE from <= walks /\ walks < to
    BY <2>2, <1>1, <1>3, <1>4, <1>8, <1>9, <1>10
  <2>3. CASE to <= walks
    BY <2>3, <1>1, <1>3, <1>4, <1>8, <1>9, <1>10
  <2> QED
    BY <2>1, <2>2, <2>3, <1>1
<1>12. ASSUME NEW j \in 1..Len(new)
       PROVE  new[j] = IF Odd(j) = (~Halfway /\ to <= Counting)
                       THEN "tick" ELSE mode
  <2>0. j \in Nat /\ j >= 1
    BY <1>1
  <2>1. CASE walks < from
    <3>1. Len(new) = 0
      BY <2>1, <1>1, <1>3, <1>4, <1>5
    <3> QED
      BY <3>1
  <2>2. CASE from <= walks /\ walks < to
    <3>1. /\ Len(new) = 2 * (walks - from) + (IF Halfway THEN 1 ELSE 0) + 1
          /\ Len(queue[i]) = Len(new) - 1
      BY <2>2, <1>1, <1>3, <1>4, <1>8
    <3>2. (~Halfway /\ to <= Counting) = FALSE
      BY <2>2, <1>1, <1>9, <1>10
    <3>3. CASE j = Len(new)
      <4>1. new[j] = event
        BY <3>3, <2>2, <1>1, <1>4, <1>8
      <4>2. PICK k \in Nat : k = walks - from
        BY <2>2, <1>1
      <4>3. CASE Halfway
        <5>1. PICK k1 \in Nat : k1 = k + 1 /\ j = 2 * k1
          BY <4>2, <4>3, <3>1, <3>3
        <5>2. ~Odd(j)
          BY <5>1, OddTurns
        <5>3. Odd(j) = (~Halfway /\ to <= Counting)
          BY <5>2, <3>2, <2>0, OddTurns
        <5> QED
          BY <5>3, <4>1, <4>3 DEF event
      <4>4. CASE ~Halfway
        <5>1. j = 2 * k + 1
          BY <4>2, <4>4, <3>1, <3>3
        <5>2. Odd(j)
          BY <4>2, <5>1, OddTurns
        <5> QED
          BY <5>2, <4>1, <4>4, <3>2 DEF event
      <4> QED
        BY <4>3, <4>4
    <3>4. CASE j # Len(new)
      <4>1. j \in 1..(Len(new) - 1) /\ j \in 1..Len(queue[i])
        BY <3>1, <3>4, <2>2, <1>1
      <4>2. new[j] = queue[i][j]
        BY <4>1, <2>2, <1>1, <1>4, <1>8
      <4>3. queue[i][j] = IF Odd(j) = FALSE THEN "tick" ELSE mode
        <5>1. (Halfway /\ to <= walks) = FALSE
          BY <2>2, <1>1
        <5> QED
          BY <5>1, <4>1, <1>3
      <4> QED
        BY <4>2, <4>3, <3>2
    <3> QED
      BY <3>3, <3>4
  <2>3. CASE to <= walks
    <3>1. Len(new) = L /\ Len(queue[i]) = L /\ Full(i) /\ Reached(i)
      BY <2>3, <1>1, <1>3, <1>4, <1>8
    <3>2. to <= Counting
      BY <2>3, <1>1, <1>10
    <3>3. CASE j = L
      <4>1. new[j] = event
        BY <3>1, <3>3, <1>8
      <4>2. PICK k \in Nat : k = to - from /\ j = 2 * k
        BY <1>1, <3>3
      <4>3. ~Odd(j)
        BY <4>2, OddTurns
      <4>4. CASE Halfway
        <5>1. Odd(j) = (~Halfway /\ to <= Counting)
          BY <4>3, <4>4, <2>0, OddTurns
        <5> QED
          BY <4>1, <4>4, <5>1 DEF event
      <4>5. CASE ~Halfway
        <5>1. (~Halfway /\ to <= Counting) = TRUE
          BY <4>5, <3>2
        <5>2. ~(Odd(j) = (~Halfway /\ to <= Counting))
          BY <4>3, <5>1
        <5> QED
          BY <4>1, <4>5, <5>2 DEF event
      <4> QED
        BY <4>4, <4>5
    <3>4. CASE j # L
      <4>1. j \in 1..(Len(new) - 1) /\ j + 1 \in 1..Len(queue[i])
        BY <3>1, <3>4, <1>1
      <4>2. new[j] = queue[i][j + 1]
        BY <4>1, <3>1, <1>8
      <4>3. queue[i][j + 1] = IF Odd(j + 1) = Halfway THEN "tick" ELSE mode
        <5>1. (Halfway /\ to <= walks) = Halfway
          BY <2>3, <1>9
        <5> QED
          BY <5>1, <4>1, <1>3
      <4>4. Odd(j + 1) <=> ~Odd(j)
        BY <2>0, OddTurns
      <4>5. Odd(j) \in BOOLEAN /\ Odd(j + 1) \in BOOLEAN
        BY DEF Odd
      <4>6. (Odd(j + 1) = Halfway) = (Odd(j) = (~Halfway))
        BY <4>4, <4>5, <1>9
      <4> QED
        BY <4>2, <4>3, <4>6, <3>2, <1>9
    <3> QED
      BY <3>3, <3>4
  <2> QED
    BY <2>1, <2>2, <2>3, <1>1
<1> QED
  BY <1>11, <1>12 DEF HoldsThen, new, event, from, to, L

\* What comes out of the last delay is what goes in, once all are full.
LEMMA OutWhen ==
  ASSUME Types, QueueFits, mt = "idle", mode \in Modes,
         \A i \in DOMAIN queue : Holds(i)
  PROVE  Out(IF Halfway THEN "tick" ELSE mode)
           = IF way[mode].ticks <= walks
             THEN IF Halfway THEN "tick" ELSE mode
             ELSE "no"
<1> DEFINE event == IF Halfway THEN "tick" ELSE mode
<1>1. Len(queue) \in Nat /\ DOMAIN queue = 1..Len(queue)
  BY UntilCounts
<1>2. CASE \A i \in DOMAIN queue : Full(i)
  <2>1. /\ Len(queue) + 1 \in 1..(Len(queue) + 1)
        /\ \A j \in 1..((Len(queue) + 1) - 1) : Full(j)
    BY <1>1, <1>2
  <2>2. Given(Len(queue) + 1, event) = event
    BY <2>1, GivenSame
  <2>3. way[mode].ticks <= walks
    BY <1>2, ReachedWhen
  <2> QED
    BY <1>2, <2>2, <2>3 DEF Out
<1>3. CASE ~ \A i \in DOMAIN queue : Full(i)
  <2>1. ~(way[mode].ticks <= walks)
    BY <1>3, ReachedWhen
  <2> QED
    BY <1>3, <2>1 DEF Out
<1> QED
  BY <1>2, <1>3

\* What InStep says of the LED and the traversal.
LedInStep ==
  /\ walk # "tick_half"
  /\ walk = "colour_half" => ink = mode
  /\ view \notin Forgotten(mode) =>
       /\ walks > way[mode].ticks =>
            led = IF walk = "colour_half" THEN "mixed" ELSE mode
       /\ walks = way[mode].ticks /\ walk = "tick" => led = mode

\* A step of the work queue: an event goes through, or the LED slab goes on.
LEMMA WorkInStep ==
  ASSUME Types, QueueFits, WalkFollows, InStep, WorkStep
  PROVE  InStep'
<1>1. /\ mt = "idle" /\ mt' = "idle" /\ walk # "no"
      /\ UNCHANGED <<view, way, mode>>
      /\ mode \in {"glow", "wave"} /\ mode \in Modes /\ Colour(mode) = mode
  BY DEF WorkStep, WorkRuns, Pass, WriteRest, WalkFollows, modeVars, Colour,
         Modes
<1>2. /\ \A i \in DOMAIN queue : Holds(i)
      /\ LedInStep
  BY <1>1 DEF InStep, LedInStep
<1>3. /\ walks \in Nat /\ way[mode].ticks \in Nat
      /\ walk \in {"colour", "colour_half", "tick"}
      /\ Len(queue) \in Nat /\ DOMAIN queue = 1..Len(queue)
  BY <1>1, <1>2, UntilCounts DEF Types, LedInStep
<1>4. view \notin Forgotten(mode) => way[mode].fed
  BY <1>1, WayOfMode
<1>5. walks' = IF walk' = "no" /\ walks <= way[mode].ticks THEN walks + 1
                                                         ELSE walks
  BY DEF WorkStep
<1>6. CASE walk = "colour_half"
  <2>1. /\ walk' = "tick" /\ walks' = walks /\ queue' = queue /\ led' = mode
    BY <1>6, <1>1, <1>2, <1>5
       DEF WorkStep, Pass, WriteRest, AfterPass, LedInStep
  <2>2. \A i \in DOMAIN queue' : Holds(i)'
    BY <1>2, <1>6, <1>1, <2>1 DEF Holds, Halfway
  <2> QED
    BY <1>1, <2>1, <2>2 DEF InStep
<1>7. CASE walk # "colour_half"
  <2> DEFINE event == IF Halfway THEN "tick" ELSE mode
  <2>1. walk \in {"colour", "tick"} /\ (Halfway <=> walk = "tick")
    BY <1>3, <1>7 DEF Halfway
  <2>2. Pass(event)
    BY <1>1, <2>1 DEF WorkStep, WriteRest
  <2>3. AfterPass = IF Halfway THEN "no" ELSE "tick"
    BY <1>1, <2>1 DEF AfterPass
  <2>4. Out(event) = IF way[mode].ticks <= walks THEN event ELSE "no"
    BY <1>1, <1>2, OutWhen
  <2>5. mode \notin {"no", "tick"}
    BY <1>1
  <2>6. walk' = IF Halfway THEN "no"
                ELSE IF way[mode].fed /\ way[mode].ticks <= walks
                     THEN "colour_half" ELSE "tick"
    BY <2>1, <2>2, <2>3, <2>4, <2>5 DEF Pass
  <2>7. /\ walk' = "colour_half" => ink' = mode
        /\ led = mode =>
             led' = IF walk' = "colour_half" THEN "mixed" ELSE mode
    <3>1. CASE way[mode].fed /\ Out(event) \notin {"no", "tick"}
      <4>1. Out(event) = event /\ ~Halfway /\ Out(event) = mode
        BY <3>1, <2>4
      <4>2. ink' = Out(event) /\ led' = Mixture(Out(event))
        BY <3>1, <2>2 DEF Pass
      <4>3. Ticking(mode)
        BY <1>1, WayOfMode
      <4>4. walk' = "colour_half"
        BY <2>1, <2>2, <3>1, <4>1 DEF Pass
      <4> QED
        BY <4>1, <4>2, <4>3, <4>4 DEF Mixture
    <3>2. CASE ~(way[mode].fed /\ Out(event) \notin {"no", "tick"})
      <4>1. walk' = AfterPass /\ led' = led
        BY <3>2, <2>2 DEF Pass
      <4> QED
        BY <4>1, <2>3
    <3> QED
      BY <3>1, <3>2
  <2>8. Halfway' = ~Halfway
    BY <2>6 DEF Halfway
  <2>9. walks' = Counting
    BY <1>5, <2>6 DEF Counting
  <2>10. ASSUME NEW i \in DOMAIN queue' PROVE Holds(i)'
    <3>1. queue' = Through(event)
      BY <2>2 DEF Pass
    <3>2. i \in 1..Len(queue)
      BY <3>1, ThroughFits, <1>3 DEF Through
    <3>3. queue'[i] \in Seq(Events) /\ DOMAIN queue'[i] = 1..Len(queue'[i])
      <4>1. event \in Events
        BY <1>1 DEF Events
      <4>2. queue' \in Seq(Seq(Events)) /\ Len(queue') = Len(queue)
        BY <4>1, <2>2, PassFits
      <4>3. queue'[i] \in Seq(Events)
        BY <4>2, <3>2, <1>3, ElementOfSeq
      <4> QED
        BY <4>3, LenProperties
    <3>4. HoldsThen(i, queue'[i], walks', Halfway')
      BY <1>1, <1>2, <2>8, <2>9, <3>1, <3>2, DelayTurns
    <3> QED
      BY <1>1, <3>3, <3>4 DEF HoldsThen, Holds, Until
  <2>11. LedInStep'
    <3>1. /\ walk' # "tick_half" /\ (walk' = "colour_half" => ink' = mode)
      BY <2>6, <2>7
    <3>2. ASSUME view \notin Forgotten(mode), walks' > way[mode].ticks
          PROVE  led' = IF walk' = "colour_half" THEN "mixed" ELSE mode
      <4>1. CASE walks > way[mode].ticks
        BY <4>1, <3>2, <1>2, <1>7, <2>7 DEF LedInStep
      <4>2. CASE ~(walks > way[mode].ticks)
        <5>1. Halfway /\ walks = way[mode].ticks
          BY <4>2, <3>2, <1>3, <2>9 DEF Counting
        <5> QED
          BY <5>1, <3>2, <1>2, <2>1, <2>7 DEF LedInStep
      <4> QED
        BY <4>1, <4>2
    <3>3. ASSUME view \notin Forgotten(mode), walks' = way[mode].ticks,
                 walk' = "tick"
          PROVE  led' = mode
      <4>1. ~Halfway /\ walks = way[mode].ticks
        BY <3>3, <2>6, <1>5
      <4> QED
        BY <4>1, <3>3, <2>6, <1>3, <1>4
    <3> QED
      BY <1>1, <3>1, <3>2, <3>3 DEF LedInStep
  <2> QED
    BY <1>1, <2>10, <2>11 DEF InStep, LedInStep
<1> QED
  BY <1>6, <1>7

\* Glow and wave begin with empty delays.
LEMMA ConstructInStep ==
  ASSUME Types, QueueFits, WalkFollows, NEW m \in Modes, Construct(m),
         Types', QueueFits'
  PROVE  InStep'
<1> SUFFICES ASSUME mt' = "idle", mode' \in {"glow", "wave"}
             PROVE  InStep'
  BY DEF InStep
<1>1. /\ mode' = m /\ way' = way /\ view' = view /\ walks' = 0
      /\ queue' = [i \in DOMAIN way[m].lengths |-> << >>]
  BY DEF Construct
<1>2. walk' = "no"
  BY DEF Construct, WalkFollows
<1>3. /\ DOMAIN way[m].lengths = 1..Len(way[m].lengths)
      /\ Len(way[m].lengths) \in Nat
      /\ \A i \in 1..Len(way[m].lengths) : way[m].lengths[i] \in 1..10
  BY WayLengths
<1>4. /\ Held(way[m]) \in [0..Len(way[m].lengths) -> Nat]
      /\ \A i \in 1..Len(way[m].lengths) :
           way[m].lengths[i] = 2 * (Held(way[m])[i] - Held(way[m])[i - 1])
      /\ Held(way[m])[Len(way[m].lengths)] = way[m].ticks
  BY WayOfMode DEF Counted
<1>5. ASSUME NEW i \in DOMAIN queue' PROVE Holds(i)'
  <2>1. i \in 1..Len(way[m].lengths) /\ queue'[i] = << >>
    BY <1>1, <1>3
  <2>2. /\ Held(way[m])[i - 1] \in Nat /\ Held(way[m])[i] \in Nat
        /\ way[m].lengths[i] \in 1..10
        /\ way[m].lengths[i] = 2 * (Held(way[m])[i] - Held(way[m])[i - 1])
    <3>1. /\ i - 1 \in 0..Len(way[m].lengths)
          /\ i \in 0..Len(way[m].lengths)
      BY <1>3, <2>1
    <3>2. Held(way[m])[i - 1] \in Nat /\ Held(way[m])[i] \in Nat
      BY <1>4, <3>1
    <3> QED
      BY <1>3, <1>4, <2>1, <3>2
  <2>3. ~Halfway'
    BY <1>2 DEF Halfway
  <2>4. Len(queue'[i]) = 0 /\ DOMAIN queue'[i] = {}
    BY <2>1
  <2>5. Len(queue'[i]) =
          IF walks' < Held(way[m])[i - 1] THEN 0
          ELSE IF Held(way[m])[i] <= walks' THEN way[m].lengths[i]
          ELSE 2 * (walks' - Held(way[m])[i - 1]) + (IF Halfway' THEN 1 ELSE 0)
    BY <1>1, <2>2, <2>3, <2>4
  <2> QED
    BY <1>1, <2>4, <2>5 DEF Holds
<1>6. way[m].ticks \in Nat
  BY <1>3, <1>4
<1> QED
  BY <1>1, <1>2, <1>5, <1>6 DEF InStep

LEMMA InStepStep ==
  ASSUME Types, Ordered, HeapFollows, WalkFollows, QueueFits, InStep,
         [Next]_vars, Types', QueueFits'
  PROVE  InStep'
<1> USE DEF modeVars
<1>1. CASE Lights
  <2>1. CASE led' = led
    BY <1>1, <2>1, LightsKeep, KeptHolds
  <2>2. CASE pc["main"] = "attach"
    <3>1. mode' = mode /\ mode = NoMode
      BY <1>1, <2>2, LightsKeep DEF Ordered, Kept
    <3> QED
      BY <3>1, ViewsAssumption DEF InStep, Modes
  <2> QED
    BY <1>1, <2>1, <2>2, LightsKeep
<1>2. CASE Dangle \/ NotUsable
  BY <1>2, FaultsKeep, KeptHolds
<1>3. CASE timer_expired
  BY <1>3 DEF timer_expired, walkVars, InStep, Holds, Halfway
<1>4. CASE work_tick
  <2>1. /\ UNCHANGED <<view, way, mt, mode, queue, walks, led, ink>>
        /\ walk = "no" /\ walk' = "colour"
    BY <1>4 DEF work_tick
  <2>2. Halfway' = Halfway
    BY <2>1 DEF Halfway
  <2> QED
    BY <2>1, <2>2 DEF InStep, Holds
<1>5. CASE WorkStep
  BY <1>5, WorkInStep
<1>6. CASE try_switching_mode \/ CancelWork \/ Destruct \/ sole_tweak
  <2>1. mt' # "idle"
    BY <1>6 DEF try_switching_mode, CancelWork, Destruct, sole_tweak
  <2> QED
    BY <2>1 DEF InStep
<1>7. ASSUME NEW m \in Modes, Construct(m) PROVE InStep'
  BY <1>7, ConstructInStep
<1>8. CASE ModeStim
  BY <1>8 DEF ModeStim, HeapFollows, InStep
<1>9. CASE UNCHANGED vars
  BY <1>9 DEF vars, tickVars, walkVars, InStep, Holds, Halfway
<1> QED
  BY <1>1, <1>2, <1>3, <1>4, <1>5, <1>6, <1>7, <1>8, <1>9, Steps

-----------------------------------------------------------------------------
(***************************************************************************)
(* The invariant, and what follows from it.                                *)
(***************************************************************************)
LEMMA Initially == Init => IInv
<1> SUFFICES ASSUME Init PROVE IInv
  OBVIOUS
<1>1. Types
  BY TypesInit
<1>2. /\ mt = "idle" /\ mode = NoMode /\ mode \notin Modes
      /\ alive = {} /\ walk = "no" /\ fault = "none"
      /\ queue = << >> /\ resource = "none"
      /\ pc = [main |-> "attach", update |-> "wait"]
  BY ViewsAssumption DEF Init
<1>3. ~timer /\ ~queued /\ ~init_sem
  BY DEF Init
<1>4. Ordered
  BY <1>2, <1>3 DEF Ordered, Threads
<1>5. HeapFollows /\ WalkFollows
  BY <1>2, <1>3 DEF HeapFollows, WalkFollows, Modes
<1>6. QueueFits
  <2>1. queue \in Seq(Seq(Events)) /\ DOMAIN queue = {}
    BY <1>2
  <2> QED
    BY <1>2, <2>1 DEF QueueFits
<1>7. ShowsAtOnce /\ InStep
  BY <1>2 DEF ShowsAtOnce, InStep, Modes
<1> QED
  BY <1>1, <1>4, <1>5, <1>6, <1>7 DEF IInv

LEMMA Inductive == IInv /\ [Next]_vars => IInv'
<1> SUFFICES ASSUME IInv, [Next]_vars PROVE IInv'
  OBVIOUS
<1> USE DEF IInv
<1>1. Types'
  BY TypesStep
<1>2. QueueFits'
  BY QueueFitsStep
<1>3. Ordered' /\ HeapFollows' /\ WalkFollows'
  BY OrderedStep, HeapFollowsStep, WalkFollowsStep
<1>4. ShowsAtOnce' /\ InStep'
  BY <1>1, <1>2, ShowsAtOnceStep, InStepStep
<1> QED
  BY <1>1, <1>2, <1>3, <1>4

\* At every moment, for every LED looked at: who comes first, which slabs are
\* alive at each place of the hikari_light thread, and what its delays hold.
THEOREM Invariance == Spec => []IInv
<1> QED
  BY Initially, Inductive, PTL DEF Spec

\* Every variable has its type, and no delay ever holds more events than it
\* is long, whatever preempts a traversal (slab_delay.c).
THEOREM TypeCorrect == Spec => []TypeOK
<1>1. IInv => TypeOK
  <2> SUFFICES ASSUME IInv PROVE TypeOK
    OBVIOUS
  <2>1. Types /\ \A i \in DOMAIN queue : Len(queue[i]) <= way[mode].lengths[i]
    BY DEF IInv, QueueFits
  <2>2. {timer, queued, cut, init_sem} \subseteq BOOLEAN
    BY <2>1, Zenon DEF Types
  <2>3. {ink, led, sequence} \subseteq Colours
    BY <2>1 DEF Types
  <2> QED
    BY <2>1, <2>2, <2>3 DEF Types, TypeOK, Kinds, Stops
<1> QED
  BY <1>1, Invariance, PTL

\* The heap holds the slabs of the mode, destructors leave nothing behind but
\* sole's sc, and neither the timer nor the queued work outlives its ticker,
\* wherever try_switching_mode preempts the work queue.
THEOREM SlabsCorrect == Spec => []SlabsFollowMode
<1>1. IInv => SlabsFollowMode
  <2> SUFFICES ASSUME IInv PROVE SlabsFollowMode
    OBVIOUS
  <2>1. HeapFollows /\ Types
    BY DEF IInv
  <2>2. timer \/ queued => "ticker" \in alive
    <3> SUFFICES ASSUME timer \/ queued PROVE "ticker" \in alive
      OBVIOUS
    <3>1. mt \in {"idle", "cancel"} /\ mode \in {"glow", "wave"}
      BY <2>1 DEF HeapFollows
    <3>2. mode # NoMode /\ "ticker" \in Created(mode)
      BY <3>1, ViewsAssumption, CreatedKinds DEF Modes, Kinds
    <3> QED
      BY <2>1, <3>1, <3>2 DEF HeapFollows
  <2> QED
    BY <2>1, <2>2 DEF HeapFollows, SlabsFollowMode
<1> QED
  BY <1>1, Invariance, PTL

\* In off and sole an LED has the colour of its mode when the thread is done.
\* In glow and wave it has, and keeps, the colour as soon as more ticks have
\* come than its delays hold, however the ticks are preempted or put off:
\* the colours stay in step with the ticks between them.  Only while a tick
\* writes its bytes there is a mixture, of two colours of the mode.
THEOREM LedCorrect == Spec => []LedsFollowMode
<1>1. IInv => LedsFollowMode
  <2> SUFFICES ASSUME IInv PROVE LedsFollowMode
    OBVIOUS
  <2>1. mode \in {"glow", "wave"} => Colour(mode) = mode
    BY DEF Colour
  <2> QED
    BY <2>1 DEF IInv, ShowsAtOnce, InStep, LedsFollowMode
<1> QED
  BY <1>1, Invariance, PTL

\* While the PWM plays, neither main nor the light update thread starts it
\* again or fills the sequence that it reads: register_resources gives
\* light_init_sem when main has played its last, and adrledrgb_check lets
\* nobody pass before the PWM stops.
THEOREM PlaybackCorrect == Spec => PlaybackUndisturbed
<1> DEFINE Undisturbed ==
      pwm # "stopped" =>
        /\ pwm' \in {pwm, "stopped"}
        /\ pwm = "own" => sequence' = sequence
<1>1. IInv /\ [Next]_vars => Undisturbed
  <2> SUFFICES ASSUME IInv, [Next]_vars, pwm # "stopped"
               PROVE  pwm' \in {pwm, "stopped"} /\ sequence' = sequence
    OBVIOUS
  <2> USE DEF sendVars
  <2>1. \A th \in Threads : pc[th] \notin {"fill", "play"}
    BY DEF IInv, Ordered
  <2>2. ASSUME NEW th \in Threads, Driver(th)
        PROVE  pwm' = pwm /\ sequence' = sequence
    BY <2>1, <2>2
       DEF Driver, adrledrgb_check, Retry, adrledrgb_fill, adrledrgb_play
  <2>3. CASE setup_light_resources \/ register_resources \/ light_update_loop
             \/ PwmStops
    BY <2>3 DEF setup_light_resources, register_resources, light_update_loop,
                PwmStops
  <2>4. CASE Dangle \/ NotUsable
    BY <2>4, FaultsKeep
  <2>5. CASE timer_expired \/ work_tick \/ WorkStep \/ try_switching_mode
             \/ CancelWork \/ Destruct \/ ModeStim \/ sole_tweak
    BY <2>5 DEF timer_expired, work_tick, WorkStep, try_switching_mode,
                CancelWork, Destruct, ModeStim, sole_tweak
  <2>6. ASSUME NEW m \in Modes, Construct(m)
        PROVE  pwm' = pwm /\ sequence' = sequence
    BY <2>6 DEF Construct
  <2>7. CASE UNCHANGED vars
    BY <2>7 DEF vars
  <2> QED
    BY <2>2, <2>3, <2>4, <2>5, <2>6, <2>7, Steps
       DEF Lights, Main, Update, Threads
<1>2. IInv /\ [Next]_vars => [Undisturbed]_vars
  BY <1>1
<1> QED
  BY <1>2, Invariance, PTL DEF Spec, PlaybackUndisturbed
=============================================================================
