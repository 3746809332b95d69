------------------------------- MODULE RunStream -------------------------------
(***************************************************************************)
(* What the stream of one run promises whoever reads it.  The executor     *)
(* implements it (Executor, StreamSpec); the browser relies on it.         *)
(***************************************************************************)
EXTENDS RunEvents

VARIABLE told   \* the events sent so far

Init == told = <<>>
Next == \E e \in Events : Follows(told, e) /\ told' = Append(told, e)
Spec == Init /\ [][Next]_told

=============================================================================
