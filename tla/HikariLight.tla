----------------------------- MODULE HikariLight ----------------------------
(***************************************************************************)
(* applications/hikari_sword/src/hikari_light.c: threads post actions (set *)
(* a mode, tweak the mode) into a fifo; the hikari_light thread takes them *)
(* out one by one and switches modes.                                      *)
(*                                                                         *)
(* While a switch is in progress new actions are refused, and the ones     *)
(* posted before it are dropped.  The posters do not take a lock: they     *)
(* read accepting_new_actions, then count themselves in a semaphore, then  *)
(* allocate, compose and queue the action, and the thread may run between  *)
(* any two of these.                                                       *)
(*                                                                         *)
(* Together with it: the heap the actions come from (k_malloc), the light  *)
(* resources a mode's constructor claims and its destructor returns        *)
(* (light_resource.c), and main, which registers these only after the      *)
(* radio has been started.                                                 *)
(*                                                                         *)
(* epoch and what an action says of its origin are history: epoch counts   *)
(* the switches begun, an action carries its poster, the epoch in which    *)
(* that read accepting_new_actions (checked) and the one in which it       *)
(* counted itself (counted).  lost counts the actions dropped without      *)
(* k_free.                                                                 *)
(***************************************************************************)
EXTENDS Naturals, Sequences, FiniteSets

CONSTANTS
  Posters,              \* threads that call the public functions
  Registered,           \* modes with an entry in the linker section
  NoMode,               \* the initial value 0 of mode, no entry has it
  Unknown,              \* any other byte a client may write as a mode
  HeapSize,             \* actions the heap has room for
  MaxPosts              \* bound: calls by each poster

ASSUME ModesAssumption ==
  /\ {NoMode, Unknown} \cap Registered = {}
  /\ HeapSize \in Nat
  /\ MaxPosts \in Nat
  /\ IsFiniteSet(Posters)

VARIABLES
  fifo,                 \* action_fifo
  accepting,            \* accepting_new_actions
  posting,              \* count of num_threads_posting_actions
  mode, api,            \* the singleton; api = NoMode stands for NULL
  heap,                 \* free blocks
  resources,            \* "unregistered", "free" or "used"
  pc, hand,             \* posters: position, the action being posted
  loop, item,           \* hikari_light_thread: position, current action
  halt,                 \* why the system was halted, or "no"
  posts, epoch, lost    \* bound and history

ble   == <<pc, hand, posts>>
light == <<mode, api, loop, item>>
vars  == <<fifo, accepting, posting, mode, api, heap, resources, pc, hand,
           loop, item, halt, posts, epoch, lost>>

Modes  == Registered \cup {NoMode, Unknown}
\* The value of a tweak does not matter here, the mode of a mode_set does.
Action == [type : {"mode_set", "tweak"}, mode : Modes, poster : Posters,
           checked : Nat, counted : Nat]
Nothing == [type |-> "none", mode |-> NoMode, poster |-> "none",
            checked |-> 0, counted |-> 0]

\* Every variable has its type.
TypeOK ==
  /\ fifo \in Seq(Action)
  /\ accepting \in BOOLEAN
  /\ posting \in Nat
  /\ mode \in Registered \cup {NoMode}
  /\ api \in Registered \cup {NoMode}
  /\ heap \in 0..HeapSize
  /\ resources \in {"unregistered", "free", "used"}
  /\ pc \in [Posters -> {"idle", "count", "alloc", "put", "uncount"}]
  /\ hand \in [Posters -> Action \cup {Nothing}]
  /\ loop \in {"get", "process", "destruct", "construct", "wait", "empty",
               "reopen", "free"}
  /\ item \in Action \cup {Nothing}
  /\ halt \in {"no", "no_memory", "null_api", "not_registered",
               "already_used", "not_found"}
  /\ posts \in [Posters -> 0..MaxPosts]
  /\ epoch \in Nat
  /\ lost \in Nat

Init ==
  /\ fifo = <<>>
  /\ accepting = TRUE
  /\ posting = 0
  /\ mode = NoMode
  /\ api = NoMode
  /\ heap = HeapSize
  /\ resources = "unregistered"
  /\ pc = [p \in Posters |-> "idle"]
  /\ hand = [p \in Posters |-> Nothing]
  /\ loop = "get"
  /\ item = Nothing
  /\ halt = "no"
  /\ posts = [p \in Posters |-> 0]
  /\ epoch = 0
  /\ lost = 0

\* k_oops, or a jump through a pointer read at address 0: nothing runs on.
Halt(why) == halt' = why

(***************************************************************************)
(* post_action, by any thread.                                             *)
(***************************************************************************)
At(p, from, to) ==
  /\ pc[p] = from
  /\ pc' = [pc EXCEPT ![p] = to]

\* Entry: an action posted during a switch is silently refused.
PostCheck(p) == \E type \in {"mode_set", "tweak"}, m \in Modes :
  /\ type = "tweak" => m = NoMode
  /\ posts[p] < MaxPosts
  /\ posts' = [posts EXCEPT ![p] = @ + 1]
  /\ IF accepting
     THEN /\ At(p, "idle", "count")
          /\ hand' = [hand EXCEPT ![p] =
               [type |-> type, mode |-> m, poster |-> p,
                checked |-> epoch, counted |-> 0]]
     ELSE At(p, "idle", "idle") /\ UNCHANGED hand
  /\ UNCHANGED <<fifo, accepting, posting, heap, resources, light, halt,
                 epoch, lost>>

PostCount(p) ==
  /\ At(p, "count", "alloc")
  /\ posting' = posting + 1
  /\ hand' = [hand EXCEPT ![p].counted = epoch]
  /\ UNCHANGED <<fifo, accepting, heap, resources, light, halt, posts, epoch,
                 lost>>

PostAlloc(p) ==
  /\ IF heap > 0
     THEN At(p, "alloc", "put") /\ heap' = heap - 1 /\ UNCHANGED <<posting, halt>>
     ELSE /\ At(p, "alloc", "idle")
          /\ posting' = IF posting > 0 THEN posting - 1 ELSE 0
          /\ Halt("no_memory")
          /\ UNCHANGED heap
  /\ UNCHANGED <<fifo, accepting, resources, light, hand, posts, epoch, lost>>

PostPut(p) ==
  /\ At(p, "put", "uncount")
  /\ fifo' = Append(fifo, hand[p])
  /\ hand' = [hand EXCEPT ![p] = Nothing]
  /\ UNCHANGED <<accepting, posting, heap, resources, light, halt, posts,
                 epoch, lost>>

\* Mutant: the semaphore is not taken again.
PostUncount_forgotten(p) ==
  /\ At(p, "uncount", "idle")
  /\ UNCHANGED <<fifo, accepting, posting, heap, resources, light, hand, halt,
                 posts, epoch, lost>>

\* k_sem_take with K_NO_WAIT: at 0 it fails and the failure is ignored.
PostUncount(p) ==
  /\ At(p, "uncount", "idle")
  /\ posting' = IF posting > 0 THEN posting - 1 ELSE 0
  /\ UNCHANGED <<fifo, accepting, heap, resources, light, hand, halt, posts,
                 epoch, lost>>

(***************************************************************************)
(* hikari_light_loop and what it calls.                                    *)
(***************************************************************************)
LoopAt(from, to) ==
  /\ loop = from
  /\ loop' = to

LoopGet ==
  /\ LoopAt("get", "process")
  /\ fifo # <<>>
  /\ item' = Head(fifo)
  /\ fifo' = Tail(fifo)
  /\ UNCHANGED <<accepting, posting, mode, api, heap, resources, ble, halt,
                 epoch, lost>>

\* The tweak_* functions of the mode, called through api.
ProcessTweak ==
  /\ item.type = "tweak"
  /\ LoopAt("process", "free")
  /\ IF api = NoMode THEN Halt("null_api") ELSE UNCHANGED halt
  /\ UNCHANGED <<fifo, accepting, posting, mode, api, item, heap, resources,
                 ble, epoch, lost>>

\* try_switching_mode returns: the mode is set already or has no entry.
KeepMode ==
  /\ item.type = "mode_set"
  /\ item.mode = mode \/ item.mode \notin Registered
  /\ LoopAt("process", "free")
  /\ UNCHANGED <<fifo, accepting, posting, mode, api, item, heap, resources,
                 ble, halt, epoch, lost>>

\* Mutant: the new mode's entry is not checked.
BeginSwitch_any ==
  /\ item.type = "mode_set"
  /\ item.mode # mode
  /\ LoopAt("process", "destruct")
  /\ accepting' = FALSE
  /\ epoch' = epoch + 1
  /\ UNCHANGED <<fifo, posting, mode, api, item, heap, resources, ble, halt,
                 lost>>

BeginSwitch ==
  /\ item.type = "mode_set"
  /\ item.mode # mode /\ item.mode \in Registered
  /\ LoopAt("process", "destruct")
  /\ accepting' = FALSE
  /\ epoch' = epoch + 1
  /\ UNCHANGED <<fifo, posting, mode, api, item, heap, resources, ble, halt,
                 lost>>

\* light_resource_use and light_resource_return, of all resources.
UseResult == CASE resources = "unregistered" -> "not_registered"
               [] resources = "used"         -> "already_used"
               [] resources = "free"         -> "ok"

ReturnResult == IF resources = "unregistered" THEN "not_found" ELSE "ok"

\* Mutant: a destructor that returns nothing.
Destruct_keep ==
  /\ LoopAt("destruct", "construct")
  /\ UNCHANGED <<fifo, accepting, posting, mode, api, item, heap, resources,
                 ble, halt, epoch, lost>>

\* The old mode's destructor, if there is a mode: RETURN_ALL.
Destruct ==
  /\ LoopAt("destruct", "construct")
  /\ CASE api = NoMode         -> UNCHANGED <<resources, halt>>
       [] ReturnResult = "ok"  -> resources' = "free" /\ UNCHANGED halt
       [] OTHER                -> Halt(ReturnResult) /\ UNCHANGED resources
  /\ UNCHANGED <<fifo, accepting, posting, mode, api, item, heap, ble, epoch,
                 lost>>

\* The new mode's constructor: USE_ALL, an error of which is a k_oops.
Construct ==
  /\ LoopAt("construct", "wait")
  /\ IF UseResult = "ok"
     THEN /\ resources' = "used"
          /\ mode' = item.mode
          /\ api' = item.mode
          /\ UNCHANGED halt
     ELSE Halt(UseResult) /\ UNCHANGED <<resources, mode, api>>
  /\ UNCHANGED <<fifo, accepting, posting, item, heap, ble, epoch, lost>>

\* Mutant: the thread does not wait.
WaitForPosters_not ==
  /\ LoopAt("wait", "empty")
  /\ UNCHANGED <<fifo, accepting, posting, mode, api, item, heap, resources,
                 ble, halt, epoch, lost>>

\* Wait for all threads to finish posting actions.
WaitForPosters ==
  /\ LoopAt("wait", "empty")
  /\ posting = 0
  /\ UNCHANGED <<fifo, accepting, posting, mode, api, item, heap, resources,
                 ble, halt, epoch, lost>>

\* Mutant: the fifo is not emptied.
EmptyFifo_not ==
  /\ LoopAt("empty", "reopen")
  /\ UNCHANGED <<fifo, accepting, posting, mode, api, item, heap, resources,
                 ble, halt, epoch, lost>>

\* empty_action_fifo: an item per turn, not freed, until there is none.
EmptyFifo ==
  /\ IF fifo # <<>>
     THEN LoopAt("empty", "empty") /\ fifo' = Tail(fifo) /\ lost' = lost + 1
     ELSE LoopAt("empty", "reopen") /\ UNCHANGED <<fifo, lost>>
  /\ UNCHANGED <<accepting, posting, mode, api, item, heap, resources, ble,
                 halt, epoch>>

\* Mutant: no action is accepted any more.
EndSwitch_closed ==
  /\ LoopAt("reopen", "free")
  /\ UNCHANGED <<fifo, accepting, posting, mode, api, item, heap, resources,
                 ble, halt, epoch, lost>>

EndSwitch ==
  /\ LoopAt("reopen", "free")
  /\ accepting' = TRUE
  /\ UNCHANGED <<fifo, posting, mode, api, item, heap, resources, ble, halt,
                 epoch, lost>>

\* Mutant: the action is not freed.
FreeItem_not ==
  /\ LoopAt("free", "get")
  /\ item' = Nothing
  /\ UNCHANGED <<fifo, accepting, posting, mode, api, heap, resources, ble,
                 halt, epoch, lost>>

FreeItem ==
  /\ LoopAt("free", "get")
  /\ heap' = heap + 1
  /\ item' = Nothing
  /\ UNCHANGED <<fifo, accepting, posting, mode, api, resources, ble, halt,
                 epoch, lost>>

(***************************************************************************)
(* main: light_resource_init, up to two seconds after ble_start.           *)
(***************************************************************************)
light_resource_init ==
  /\ resources = "unregistered"
  /\ resources' = "free"
  /\ UNCHANGED <<fifo, accepting, posting, light, heap, ble, halt, epoch,
                 lost>>

-----------------------------------------------------------------------------
PosterStep(p) == PostCount(p) \/ PostAlloc(p) \/ PostPut(p) \/ PostUncount(p)

LoopStep ==
  \/ LoopGet \/ ProcessTweak \/ KeepMode \/ BeginSwitch \/ Destruct
  \/ Construct \/ WaitForPosters \/ EmptyFifo \/ EndSwitch \/ FreeItem

Next ==
  /\ halt = "no"
  /\ \/ \E p \in Posters : PostCheck(p) \/ PosterStep(p)
     \/ LoopStep
     \/ light_resource_init

Spec == Init /\ [][Next]_vars

\* Threads inside post_action and the hikari_light thread are scheduled
\* again; nobody has to post.
FairSpec ==
  /\ Spec
  /\ WF_vars(halt = "no" /\ LoopStep)
  /\ \A p \in Posters : WF_vars(halt = "no" /\ PosterStep(p))

-----------------------------------------------------------------------------
(***************************************************************************)
(* Properties.                                                             *)
(***************************************************************************)
Counted(p) == pc[p] \in {"alloc", "put", "uncount"}
Switching  == loop \in {"destruct", "construct", "wait", "empty", "reopen"}

\* The semaphore counts the threads between its two uses, so "wait for all
\* threads to finish posting" (hikari_light.c:164) waits for the right ones.
PostersCounted ==
  halt = "no" => posting = Cardinality({p \in Posters : Counted(p)})

\* What the wait and the drop achieve: once actions are accepted again, the
\* fifo holds none whose poster counted itself before the switch began.
CountedActionsDropped ==
  accepting => \A i \in 1..Len(fifo) : fifo[i].counted = epoch

\* What the comment promises, "Drop outdated actions" (hikari_light.c:169):
\* an action admitted before the switch does not survive it.
OutdatedActionsDropped ==
  accepting => \A i \in 1..Len(fifo) : fifo[i].checked = epoch

\* The poster of the action read the flag before the last switch began.
Outdated(i) == fifo[i].checked < epoch

\* The damage is bounded: of each poster at most one outdated action, the
\* one it was about to count (hikari_light.c:57-62), survives a switch.
OneOutdatedPerPoster ==
  accepting =>
    \A i, j \in 1..Len(fifo) :
      Outdated(i) /\ Outdated(j) /\ fifo[i].poster = fifo[j].poster => i = j

\* A constructor never finds a resource in use: the previous mode has given
\* everything back, and only the mode in api holds the resources.
ResourcesFollowMode ==
  /\ halt \notin {"already_used", "not_found"}
  /\ ~Switching => (resources = "used" <=> api # NoMode)
  /\ loop \in {"wait", "empty", "reopen"} /\ halt = "no" => resources = "used"

\* Every block of the heap is free, in a poster's hand, in the fifo, the
\* current item, or lost by a switch: nothing is freed twice or forgotten
\* elsewhere.
HeapAccounted ==
  HeapSize = heap + Len(fifo) + lost
             + Cardinality({p \in Posters : pc[p] = "put"})
             + (IF item = Nothing THEN 0 ELSE 1)

\* The thread gets done with every action and accepts new ones again, unless
\* the system halts: the posters a switch waits for all get through, and
\* those that come later are not counted.
SwitchEnds == (loop = "process") ~> ((loop = "get" /\ accepting) \/ halt # "no")

\* "posting a tweak event will do nothing" (modes/sole.c:132) if there is no
\* function to call; it never halts the system.
TweakIsHarmless == halt # "null_api"
=============================================================================
