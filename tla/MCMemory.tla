------------------------------ MODULE MCMemory ------------------------------
(* A text that all three functions may embed, a longer one that is embedded *)
(* whole, and one longer than what rag_recall embeds.                       *)
EXTENDS Memory, TLC

MCUsers == {"u1", "u2"}
MCOwner == [s \in {"s1", "s2"} |-> IF s = "s1" THEN "u1" ELSE "u2"]
MCTexts == {"short", "goal", "long"}
MCLength == [t \in MCTexts |-> CASE t = "short" -> 2502 [] t = "goal" -> 4000 [] t = "long" -> 9000]
Interchangeable == Permutations(Calls)
=============================================================================
