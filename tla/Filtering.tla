----------------------------- MODULE Filtering -----------------------------
(***************************************************************************)
(* The elements of a sequence that pass, in their order.  The library's    *)
(* SelectSeq has no definition that can be reasoned about.                 *)
(***************************************************************************)
EXTENDS Naturals, Sequences

\* The elements of s that are in T.
Filtered(s, T) ==
  LET kept[n \in 0..Len(s)] ==
        IF n = 0 THEN <<>>
        ELSE IF s[n] \in T THEN Append(kept[n - 1], s[n]) ELSE kept[n - 1]
  IN  kept[Len(s)]
=============================================================================
