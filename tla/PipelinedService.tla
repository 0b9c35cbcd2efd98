---------------------------- MODULE PipelinedService ----------------------------
(***************************************************************************)
(* What a Redis client may expect of its connection: it may send commands  *)
(* before the earlier ones are answered, and the replies come back one for *)
(* each command, in the order of the commands.                             *)
(***************************************************************************)
EXTENDS Naturals, Sequences

VARIABLES
    asked,       \* number of commands taken from the client
    answered     \* the commands whose replies the client got, in that order

Init == asked = 0 /\ answered = <<>>

Ask ==
    /\ asked' \in Nat /\ asked' > asked
    /\ UNCHANGED answered

\* Some of the next replies, in order.
Answer ==
    /\ UNCHANGED asked
    /\ \E n \in Len(answered) + 1 .. asked : answered' = [i \in 1 .. n |-> i]

Next == Ask \/ Answer

Spec == Init /\ [][Next]_<<asked, answered>>

================================================================================
