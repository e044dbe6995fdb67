------------------------------ MODULE MCShell -------------------------------
(* The lines TLC tries: three stages at most, and all short lines. *)
EXTENDS Shell

LinesOver(tokens, max) == UNION {[1..n -> tokens] : n \in 1..max}

MCLines == LinesOver({"w", "|"}, 5) \cup LinesOver({"w", "<", ">", "|", "&"}, 3)
           \cup LinesOver({"w", ">", "|"}, 4)

=============================================================================
