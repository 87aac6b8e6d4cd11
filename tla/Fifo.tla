------------------------------- MODULE Fifo -------------------------------
(***************************************************************************)
(* What a message ring promises: a bounded queue that hands out every      *)
(* message once, in the order the messages were accepted.                  *)
(***************************************************************************)
EXTENDS Naturals, Sequences

CONSTANTS Msgs, Room, Readers, NoMsg

VARIABLES fifo,     \* accepted and not yet handed out
          handed    \* what each reader was handed last

Init == /\ fifo = <<>>
        /\ handed = [r \in Readers |-> NoMsg]

Accept == /\ Len(fifo) < Room
          /\ \E m \in Msgs : fifo' = Append(fifo, m)
          /\ UNCHANGED handed

HandOut(r) == /\ fifo # <<>>
              /\ fifo' = Tail(fifo)
              /\ handed' = [handed EXCEPT ![r] = Head(fifo)]

\* A reader lets go of the message it was handed.
Forget(r) == /\ handed' = [handed EXCEPT ![r] = NoMsg]
             /\ UNCHANGED fifo

Next == Accept \/ \E r \in Readers : HandOut(r) \/ Forget(r)

Spec == Init /\ [][Next]_<<fifo, handed>>
=============================================================================
