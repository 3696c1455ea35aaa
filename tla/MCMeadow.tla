------------------------------ MODULE MCMeadow ------------------------------
(* A trapped tuft whose bang reaches a mine, whose crater covers the tuft. *)
EXTENDS Meadow
CONSTANTS c1, c2, m1, m2, t1
Two == {c1, c2}
OneEarly == {c1}
Ground == {m1, m2, t1}
Grass == {t1}
Field == {Mine(m1), Trap(t1)}
Rings == [d \in Device |->
            IF d = Mine(m1) THEN <<m2>> ELSE <<>>]
Reaches == [c \in Cells |-> IF c = t1 THEN <<m1>> ELSE <<>>]
Covers == [c \in Cells |-> IF c = m1 THEN Tufts ELSE {}]
Clean == {<<>>}
=============================================================================
