---------------------------- MODULE AnswerStream ----------------------------
(***************************************************************************)
(* What the daemon may expect of its devices together: each answer reaches *)
(* it once or never, and those of one device in the order they were given. *)
(***************************************************************************)
EXTENDS Naturals

CONSTANT Device

VARIABLES given,   \* how many answers each device has given
          waiting, \* of each device, those not heard yet and not lost
          heard    \* of each device, the last one heard

vars == <<given, waiting, heard>>

Init ==
  /\ given = [d \in Device |-> 0] /\ heard = [d \in Device |-> 0]
  /\ waiting = [d \in Device |-> {}]

Give(d) ==
  /\ given' = [given EXCEPT ![d] = @ + 1]
  /\ waiting' = [waiting EXCEPT ![d] = @ \cup {given'[d]}]
  /\ UNCHANGED heard

\* An answer is lost at once.
Refuse(d) == given' = [given EXCEPT ![d] = @ + 1] /\ UNCHANGED <<waiting, heard>>

Lose(d) ==
  /\ \E x \in waiting[d] : waiting' = [waiting EXCEPT ![d] = @ \ {x}]
  /\ UNCHANGED <<given, heard>>

\* The oldest one is heard.
Hear(d) ==
  \E x \in waiting[d] :
    /\ \A y \in waiting[d] : x <= y
    /\ heard' = [heard EXCEPT ![d] = x]
    /\ waiting' = [waiting EXCEPT ![d] = @ \ {x}]
    /\ UNCHANGED given

Next == \E d \in Device : Give(d) \/ Refuse(d) \/ Lose(d) \/ Hear(d)

Spec == Init /\ [][Next]_vars
=============================================================================
