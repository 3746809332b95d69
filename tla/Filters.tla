-------------------------------- MODULE Filters --------------------------------
(* SelectSeq by a set instead of a test, as a recursive function, so that what *)
(* it keeps can be proved (RecursionProofs).                                   *)
EXTENDS Integers, Sequences

\* The elements of s that are in S, in their order.
Filter(s, S) ==
    LET upTo[k \in 0..Len(s)] ==
            IF k = 0 THEN <<>>
            ELSE IF s[k] \in S THEN Append(upTo[k - 1], s[k])
            ELSE upTo[k - 1]
    IN  upTo[Len(s)]

=============================================================================
