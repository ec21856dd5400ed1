------------------------------ MODULE ModeGraphs ------------------------------
(***************************************************************************)
(* The LEDs of the sword and the graphs of slabs that the four modes build *)
(* over them: which resource an LED slab writes, which slab stimulates     *)
(* which, and how long the delays are.  In every mode a slab is connected  *)
(* to at most one other, its feeder, so that a graph is a tree.            *)
(*                                                                         *)
(* A slab is a pair of its name and its index in the array of that name,   *)
(* 0 when there is no array; "sl" is left out of the LED slabs' names.     *)
(***************************************************************************)
EXTENDS Naturals, Sequences

Modes == {"off", "sole", "glow", "wave"}

\* These two have a ticker and a generator.
Ticking(mode) == mode \in {"glow", "wave"}

(***************************************************************************)
(* LEDs and their places in the chains.                                    *)
(***************************************************************************)
\* slp, slc, ... and their lengths.
LedArrays ==
  [p |-> 2, c |-> 6, sq |-> 4, ms |-> 6, ts |-> 2, lb |-> 6, lt |-> 8,
   rb |-> 6, rt |-> 8, lg |-> 4, rg |-> 4, ls |-> 3, rs |-> 3]

Leds == UNION {{<<array, i>> : i \in 0..(LedArrays[array] - 1)} :
                 array \in DOMAIN LedArrays}

Heads == {led \in Leds : led[2] = 0}

\* CHAIN_POMMEL_NUM and so on.
ChainLengths ==
  [P |-> 2, C |-> 6, S |-> 4, IB |-> 8, LB |-> 14, RB |-> 14, LG |-> 4,
   RG |-> 4, LS |-> 3, RS |-> 3]

\* What is registered: every element of every chain.
Places == UNION {{<<chain, i>> : i \in 0..(ChainLengths[chain] - 1)} :
                   chain \in DOMAIN ChainLengths}

Square   == <<0, 1, 3, 2>>                     \* f1 f2 b1 b2
Triangle == <<9, 8, 7, 6, 10, 11, 12, 13>>     \* f1 .. f4 b1 .. b4

\* The place behind the name that is used for an LED.
Place(led) ==
  LET i == led[2] IN
  CASE led[1] = "p"  -> <<"P", i>>
    [] led[1] = "c"  -> <<"C", i>>
    [] led[1] = "sq" -> <<"S", Square[i + 1]>>
    [] led[1] = "ms" -> <<"IB", i>>
    [] led[1] = "ts" -> <<"IB", i + 6>>
    [] led[1] = "lb" -> <<"LB", i>>
    [] led[1] = "lt" -> <<"LB", Triangle[i + 1]>>
    [] led[1] = "rb" -> <<"RB", i>>
    [] led[1] = "rt" -> <<"RB", Triangle[i + 1]>>
    [] led[1] = "lg" -> <<"LG", i>>
    [] led[1] = "rg" -> <<"RG", i>>
    [] led[1] = "ls" -> <<"LS", i>>
    [] led[1] = "rs" -> <<"RS", i>>

(***************************************************************************)
(* The graphs: the slab that a slab is connected to, Nothing if none.      *)
(***************************************************************************)
Nothing == <<"nothing", 0>>
st      == <<"st", 0>>                         \* ticker
gen     == <<"gen", 0>>                        \* sg or sw
sc      == <<"sc", 0>>                         \* HSV to RGB
sd(i)   == <<"sd", i>>                         \* delay

\* The feeders that wave and glow have in common.
Chained(slab) ==
  LET i == slab[2] IN
  CASE slab = gen      -> st
    [] slab = sc       -> gen
    [] slab[1] = "sd"  -> IF i \in {1, 2, 5, 10, 12, 13} THEN sc ELSE sd(i - 1)
    [] slab[1] = "p"   -> sd(1)
    [] slab[1] = "c"   -> IF i = 0 THEN sc ELSE <<"c", 0>>
    [] slab[1] = "sq"  -> sd(2)
    [] slab[1] = "ms"  -> sd(3)
    [] slab[1] = "ts"  -> sd(4)
    [] slab[1] \in {"lb", "rb"} -> IF i < 2 THEN sd(5)
                                   ELSE IF i < 4 THEN sd(6) ELSE sd(7)
    [] slab[1] \in {"lt", "rt"} -> IF i \in {2, 3, 6, 7} THEN sd(8) ELSE sd(9)
    [] slab[1] \in {"ls", "rs"} -> IF i < 2 THEN sd(10) ELSE sd(11)
    [] slab[1] \in {"lg", "rg"} -> IF i \in {0, 3} THEN sd(12) ELSE sd(13)
    [] OTHER -> Nothing

wave_constructor(slab) == Chained(slab)

\* The squares at the back are connected to nothing.
glow_constructor(slab) ==
  IF slab[1] = "sq" /\ slab[2] > 1 THEN Nothing ELSE Chained(slab)

\* The head of an array stimulates the others; those of rb, that of lb.
Star(slab) == IF slab[1] = "rb" THEN <<"lb", 0>> ELSE <<slab[1], 0>>

sole_constructor(slab) ==
  IF slab = sc THEN Nothing ELSE IF slab \in Heads THEN sc ELSE Star(slab)

off_constructor(slab) ==
  IF slab = <<"p", 0>> THEN Nothing
  ELSE IF slab \in Heads THEN <<"p", 0>> ELSE Star(slab)

Feeder(mode, slab) ==
  CASE mode = "wave" -> wave_constructor(slab)
    [] mode = "glow" -> glow_constructor(slab)
    [] mode = "sole" -> sole_constructor(slab)
    [] mode = "off"  -> off_constructor(slab)

\* The slab that is stimulated from outside.
Root(mode) ==
  IF Ticking(mode) THEN st ELSE IF mode = "sole" THEN sc ELSE <<"p", 0>>

\* Slabs from the outermost feeder to `slab`.
Path(mode, slab) ==
  LET up[n \in 0..10] ==         \* the n-th feeder
        IF n = 0 THEN slab
        ELSE IF up[n - 1] = Nothing THEN Nothing ELSE Feeder(mode, up[n - 1])
      last == CHOOSE n \in 0..10 : up[n] # Nothing /\ (n = 10 \/ up[n + 1] = Nothing)
  IN  [k \in 1..(last + 1) |-> up[last + 1 - k]]

Fed(mode, led) == Path(mode, led)[1] = Root(mode)

\* The delays on the way to an LED.
Delays(mode, led) ==
  LET IsDelay(slab) == slab[1] = "sd"
  IN  SelectSeq(Path(mode, led), IsDelay)

\* Tenths of the periods given to slab_create.
DelayLength(delay) ==
  CASE delay = sd(1) -> 8
    [] delay \in {sd(3), sd(4)} -> 4
    [] OTHER -> 2
=============================================================================
