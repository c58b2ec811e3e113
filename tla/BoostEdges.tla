----------------------------- MODULE BoostEdges -----------------------------
(***************************************************************************)
(* What ventcontrol_task may rely on at its end of input_queue: the edges  *)
(* arrive in the order they were put, none is lost, and the end of a boost *)
(* is only put after its beginning.  VentControl assumes this of whoever   *)
(* fills the queue, InputTask is shown to provide it.                      *)
(***************************************************************************)
EXTENDS Sequences, Integers

CONSTANT QueueLength

VARIABLES
  input_queue,
  inputBoost    \* the edge put last

Init == input_queue = <<>> /\ inputBoost = FALSE

Put(b) ==
  /\ b \/ inputBoost
  /\ Len(input_queue) < QueueLength
  /\ input_queue' = Append(input_queue, b)
  /\ inputBoost' = b

Take ==
  /\ input_queue # <<>>
  /\ input_queue' = Tail(input_queue)
  /\ UNCHANGED inputBoost

Next == Take \/ \E b \in BOOLEAN : Put(b)

Spec == Init /\ [][Next]_<<input_queue, inputBoost>>
=============================================================================
