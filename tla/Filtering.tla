------------------------------ MODULE Filtering ------------------------------
(***************************************************************************)
(* Taking elements out of a sequence: Array.filter and splice, as the      *)
(* queues of the models use them.  The recursion is a function, not        *)
(* SelectSeq, so that FilteringProofs can say what it computes.            *)
(***************************************************************************)
EXTENDS Naturals, Sequences

Elems(s) == {s[i] : i \in DOMAIN s}

\* The elements of s that are not in S, in their order.
Without(s, S) ==
  LET kept[i \in 0..Len(s)] ==
        IF i = 0 THEN <<>>
        ELSE IF s[i] \in S THEN kept[i - 1] ELSE Append(kept[i - 1], s[i])
  IN  kept[Len(s)]
=============================================================================
