-------------------------------- MODULE Fifo --------------------------------
(***************************************************************************)
(* What a FIFO overflow buffer promises: every element put is handed out   *)
(* once, in the order of the puts.                                         *)
(***************************************************************************)
EXTENDS Sequences

CONSTANT Elements

VARIABLES waiting,   \* put and not yet handed out, in order
          out        \* everything handed out so far

Init == waiting = <<>> /\ out = <<>>

Put(e) == waiting' = Append(waiting, e) /\ UNCHANGED out

Get ==
    /\ waiting # <<>>
    /\ out' = Append(out, Head(waiting))
    /\ waiting' = Tail(waiting)

Next == Get \/ \E e \in Elements : Put(e)

Spec == Init /\ [][Next]_<<waiting, out>>
=============================================================================
