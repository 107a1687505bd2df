------------------------------ MODULE MCFactGraph ------------------------------
(* Four facts about one property, two for either value: of the same, an earlier, a     *)
(* later or no date, and of more, less or as much authority as their rivals.      *)
EXTENDS FactGraph, TLC

Values      == [f \in Fact |-> IF f \in {"a", "c"} THEN "x" ELSE "y"]
Dates       == [f \in Fact |-> CASE f = "d" -> 0 [] f = "c" -> 2 [] OTHER -> 1]
Authorities == [f \in Fact |-> CASE f = "b" -> 52 [] f = "c" -> 40 [] OTHER -> 50]

RequestSymmetry == Permutations(Request)
==============================================================================
