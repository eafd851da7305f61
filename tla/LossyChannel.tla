---------------------------- MODULE LossyChannel ----------------------------
(***************************************************************************)
(* What the way from the check thread to the cloud promises: numbered      *)
(* changes of the status enter one by one, leave in the order in which     *)
(* they entered, and some may be lost on the way.  StatusReport implements *)
(* this specification.                                                     *)
(***************************************************************************)
EXTENDS Naturals

VARIABLES seen,   \* the changes that entered are 1..seen
          under_way,  \* those neither arrived nor lost
          newest  \* the change that arrived last, 0 before the first

Init == seen = 0 /\ under_way = {} /\ newest = 0

Enter == /\ seen' = seen + 1
         /\ under_way' \in {under_way, under_way \cup {seen + 1}}
         /\ UNCHANGED newest

Lose == /\ under_way' \in SUBSET under_way
        /\ UNCHANGED <<seen, newest>>

Arrive == \E n \in under_way : /\ \A m \in under_way : n <= m
                               /\ under_way' = under_way \ {n}
                               /\ newest' = n
                               /\ UNCHANGED seen

Next == Enter \/ Lose \/ Arrive

Spec == Init /\ [][Next]_<<seen, under_way, newest>>
=============================================================================
