------------------------------ MODULE MCPrimitives ------------------------------
(* A small instance of Primitives for model checking. *)
EXTENDS Primitives

\* the prime 127 in two limbs of four bits, and a curve of the form of Curve25519
SmallSteps ==
    << [a |-> 2, c |-> 1, n |-> 1], [a |-> 3, c |-> 2, n |-> 2],
       [a |-> 4, c |-> 1, n |-> 1], [a |-> 3, c |-> 1, n |-> 2] >>
EachClamped == {8 * n : n \in 0 .. 7} \cup {255}
EachU == 0 .. 255
UpTo300 == 2 .. 300

Keys == {<<>>, <<101>>, <<101, 102>>}
RAndPad == {0, 1, 77, 1023, 4095} \X {0, 4000}

Pieces == UNION {[1 .. n -> {Plain(0), Plain(1)}] : n \in 0 .. 2}
Texts == Pieces \cup {Zeros(n) : n \in 3 .. 5}
Nonces == {0, 1} \X {0, 1}
=============================================================================
