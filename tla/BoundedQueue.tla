---------------------------- MODULE BoundedQueue ----------------------------
(***************************************************************************)
(* What an RT-Thread mailbox promises to the threads that share it: a      *)
(* queue of at most Size mails.  A mail that was put is taken by exactly   *)
(* one of them, the oldest first; a reset empties the queue.  Nothing here *)
(* says how threads wait: that is the business of Mailbox, which           *)
(* implements this specification.                                          *)
(***************************************************************************)
EXTENDS Naturals, Sequences

CONSTANTS Mails,    \* the values a mail can carry
          Size,     \* the number of mails the queue holds
          NoMail    \* stands for the mail taken before the first one

VARIABLES queue,    \* the mails not yet taken, oldest first
          got       \* the mail that was taken last

Init == /\ queue = <<>>
        /\ got = NoMail

Put(m) == /\ Len(queue) < Size
          /\ queue' = Append(queue, m)
          /\ UNCHANGED got

Take == /\ queue # <<>>
        /\ got' = Head(queue)
        /\ queue' = Tail(queue)

Clear == /\ queue' = <<>>
         /\ UNCHANGED got

Next == \/ \E m \in Mails : Put(m)
        \/ Take
        \/ Clear

Spec == Init /\ [][Next]_<<queue, got>>
=============================================================================
