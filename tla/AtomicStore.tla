---------------------------- MODULE AtomicStore ----------------------------
(***************************************************************************)
(* What the generation store promises to everyone who mutates or reads the *)
(* authority: a single register that holds nothing, or one complete        *)
(* generation, and that is only ever replaced as a whole, by the successor *)
(* of the generation it holds.                                             *)
(***************************************************************************)
EXTENDS Naturals

CONSTANTS
    Nothing,        \* no generation has been published
    Generations     \* the generations, records with a field n, their number

VARIABLE selected   \* the generation a complete read returns

AInit == selected = Nothing

(***************************************************************************)
(* The first publication has number 1, every other one the number after    *)
(* the one it replaces.                                                    *)
(***************************************************************************)
Replace(g) ==
    /\ g \in Generations
    /\ g.n = IF selected = Nothing THEN 1 ELSE selected.n + 1
    /\ selected' = g

ASpec == AInit /\ [][\E g \in Generations : Replace(g)]_selected
=============================================================================
