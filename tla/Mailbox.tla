------------------------------ MODULE Mailbox ------------------------------
(***************************************************************************)
(* The RT-Thread mailbox (rt-thread/src/ipc.c), on which both pipelines of *)
(* the application stand: computer_status_mail carries the computer's      *)
(* status from the check thread to the report thread, page_mail carries    *)
(* page requests from the cloud and the key to the screen.                 *)
(*                                                                         *)
(* A step is what the kernel does between two points where interrupts are  *)
(* enabled, so a call that has to wait is two steps or more: the step that *)
(* suspends the thread and, once somebody has resumed it, another turn of  *)
(* the while loop, by which time another thread may have taken the mail or *)
(* the room the thread was resumed for.                                    *)
(*                                                                         *)
(* A mailbox is created with RT_IPC_FLAG_PRIO or RT_IPC_FLAG_FIFO; FIFO is *)
(* the case of a constant Prio.  Remaining ticks are abstracted to "none   *)
(* left" and "some left".                                                  *)
(***************************************************************************)
EXTENDS Naturals, FiniteSets, SequencesExt

CONSTANTS Threads,  \* threads that call rt_mb_send_wait and rt_mb_recv
          Mails,    \* the values they send
          Size,     \* mb->size
          NoMail,   \* content of a slot of msg_pool never written
          Prio      \* current_priority of each thread, smaller is more urgent

ASSUME SizeAssumption == Size \in Nat \ {0}
ASSUME ThreadsAssumption == IsFiniteSet(Threads)
ASSUME PrioAssumption == Prio \in [Threads -> Nat]
ASSUME NoMailAssumption == NoMail \notin Mails

VARIABLES msg_pool, entry, in_offset, out_offset,  \* the ring of mails
          suspend_thread,         \* receivers waiting for a mail, in order
          suspend_sender_thread,  \* senders waiting for room, in order
          pc,       \* where each thread stands in its call
          error,    \* thread->error: why a waiting thread was resumed
          timeout,  \* local: what is left of the time the caller gave
          value,    \* local: the mail a sender wants to put
          got       \* the mail that was fetched last

ring == <<msg_pool, entry, in_offset, out_offset>>
lists == <<suspend_thread, suspend_sender_thread>>
locals == <<timeout, value>>
vars == <<ring, lists, pc, error, locals, got>>

Timeouts == {"zero", "ticks", "forever"}
Waits == {"recvWait", "sendWait"}
Woken == {"recvWoken", "sendWoken"}

(* rt_mb_create *)
Init == /\ msg_pool = [i \in 0..(Size - 1) |-> NoMail]
        /\ entry = 0 /\ in_offset = 0 /\ out_offset = 0
        /\ suspend_thread = <<>> /\ suspend_sender_thread = <<>>
        /\ pc = [t \in Threads |-> "idle"]
        /\ error = [t \in Threads |-> "EOK"]
        /\ timeout = [t \in Threads |-> "zero"]
        /\ value = [t \in Threads |-> NoMail]
        /\ got = NoMail

NextOffset(i) == IF i + 1 >= Size THEN 0 ELSE i + 1

AtTheEnd(list, t) == {Len(list) + 1}  \* mutant: forgets RT_IPC_FLAG_PRIO

(* rt_ipc_list_suspend: before the first thread that is less urgent *)
Position(list, t) ==
    {k \in 1..(Len(list) + 1) :
        /\ \A i \in 1..(k - 1) : Prio[list[i]] <= Prio[t]
        /\ k <= Len(list) => Prio[t] < Prio[list[k]]}

(* rt_ipc_list_resume: the first thread of the list becomes ready *)
ResumeFirst(list, p, state) ==
    IF list = <<>> THEN p ELSE [p EXCEPT ![Head(list)] = state]
Rest(list) == IF list = <<>> THEN <<>> ELSE Tail(list)

(* A call that waits keeps its arguments, one that returns drops them. *)
Keep(t, v, to) == /\ timeout' = [timeout EXCEPT ![t] = to]
                  /\ value' = [value EXCEPT ![t] = v]
Drop(t) == Keep(t, NoMail, "zero")

(***************************************************************************)
(* rt_mb_send_wait, from the test of entry to the next rt_schedule or      *)
(* return, for a thread t that has v to send and may still wait for to.    *)
(***************************************************************************)
StoreWakesWhenEmpty(t, v) ==  \* mutant: resumes only for the first mail
    /\ entry # Size
    /\ msg_pool' = [msg_pool EXCEPT ![in_offset] = v]
    /\ in_offset' = NextOffset(in_offset)
    /\ entry' = entry + 1
    /\ LET first == IF entry = 0 THEN suspend_thread ELSE <<>> IN
       /\ pc' = ResumeFirst(first, [pc EXCEPT ![t] = "idle"], "recvWoken")
       /\ suspend_thread' = IF entry = 0 THEN Rest(first) ELSE suspend_thread
    /\ Drop(t)
    /\ UNCHANGED <<out_offset, suspend_sender_thread, error, got>>

StoreWakesNobody(t, v) ==     \* mutant: leaves the receivers asleep
    /\ entry # Size
    /\ msg_pool' = [msg_pool EXCEPT ![in_offset] = v]
    /\ in_offset' = NextOffset(in_offset)
    /\ entry' = entry + 1
    /\ pc' = [pc EXCEPT ![t] = "idle"]
    /\ Drop(t)
    /\ UNCHANGED <<out_offset, lists, error, got>>

Store(t, v) ==
    /\ entry # Size
    /\ msg_pool' = [msg_pool EXCEPT ![in_offset] = v]
    /\ in_offset' = NextOffset(in_offset)
    /\ entry' = entry + 1
    /\ pc' = ResumeFirst(suspend_thread, [pc EXCEPT ![t] = "idle"], "recvWoken")
    /\ suspend_thread' = Rest(suspend_thread)
    /\ Drop(t)
    /\ UNCHANGED <<out_offset, suspend_sender_thread, error, got>>

(* -RT_EFULL *)
SendFull(t, to) ==
    /\ entry = Size /\ to = "zero"
    /\ pc' = [pc EXCEPT ![t] = "idle"]
    /\ Drop(t)
    /\ UNCHANGED <<ring, lists, error, got>>

SendSuspend(t, v, to) ==
    /\ entry = Size /\ to # "zero"
    /\ \E k \in Position(suspend_sender_thread, t) :
          suspend_sender_thread' = InsertAt(suspend_sender_thread, k, t)
    /\ pc' = [pc EXCEPT ![t] = "sendWait"]
    /\ error' = [error EXCEPT ![t] = "EOK"]
    /\ Keep(t, v, to)
    /\ UNCHANGED <<ring, suspend_thread, got>>

SendLoop(t, v, to) == Store(t, v) \/ SendFull(t, to) \/ SendSuspend(t, v, to)

(* rt_mb_recv, likewise *)
FetchWakesWhenFull(t) ==      \* mutant: resumes only when it was full
    /\ entry # 0
    /\ got' = msg_pool[out_offset]
    /\ out_offset' = NextOffset(out_offset)
    /\ entry' = entry - 1
    /\ LET first == IF entry = Size THEN suspend_sender_thread ELSE <<>> IN
       /\ pc' = ResumeFirst(first, [pc EXCEPT ![t] = "idle"], "sendWoken")
       /\ suspend_sender_thread' =
             IF entry = Size THEN Rest(first) ELSE suspend_sender_thread
    /\ Drop(t)
    /\ UNCHANGED <<msg_pool, in_offset, suspend_thread, error>>

FetchAfterIncrement(t) ==     \* mutant: moves out_offset before it reads
    /\ entry # 0
    /\ got' = msg_pool[NextOffset(out_offset)]
    /\ out_offset' = NextOffset(out_offset)
    /\ entry' = entry - 1
    /\ pc' = ResumeFirst(suspend_sender_thread, [pc EXCEPT ![t] = "idle"],
                         "sendWoken")
    /\ suspend_sender_thread' = Rest(suspend_sender_thread)
    /\ Drop(t)
    /\ UNCHANGED <<msg_pool, in_offset, suspend_thread, error>>

Fetch(t) ==
    /\ entry # 0
    /\ got' = msg_pool[out_offset]
    /\ out_offset' = NextOffset(out_offset)
    /\ entry' = entry - 1
    /\ pc' = ResumeFirst(suspend_sender_thread, [pc EXCEPT ![t] = "idle"],
                         "sendWoken")
    /\ suspend_sender_thread' = Rest(suspend_sender_thread)
    /\ Drop(t)
    /\ UNCHANGED <<msg_pool, in_offset, suspend_thread, error>>

(* -RT_ETIMEOUT *)
RecvEmpty(t, to) ==
    /\ entry = 0 /\ to = "zero"
    /\ pc' = [pc EXCEPT ![t] = "idle"]
    /\ Drop(t)
    /\ UNCHANGED <<ring, lists, error, got>>

RecvSuspend(t, to) ==
    /\ entry = 0 /\ to # "zero"
    /\ \E k \in Position(suspend_thread, t) :
          suspend_thread' = InsertAt(suspend_thread, k, t)
    /\ pc' = [pc EXCEPT ![t] = "recvWait"]
    /\ error' = [error EXCEPT ![t] = "EOK"]
    /\ Keep(t, NoMail, to)
    /\ UNCHANGED <<ring, suspend_sender_thread, got>>

RecvLoop(t, to) == Fetch(t) \/ RecvEmpty(t, to) \/ RecvSuspend(t, to)

(***************************************************************************)
(* The steps.  rt_mb_send is Send with to = "zero".                        *)
(***************************************************************************)
Send(t, v, to) == pc[t] = "idle" /\ SendLoop(t, v, to)
Recv(t, to) == pc[t] = "idle" /\ RecvLoop(t, to)

(* The time left after a wait; a wait without limit stays without limit.   *)
Remaining(to) == IF to = "ticks" THEN {"zero", "ticks"} ELSE {to}

(* A resumed thread runs again: it was told of an error, or tries again.   *)
(* Nobody reads thread->error after the call: the model forgets it there.  *)
ReturnError(t) == /\ pc[t] \in Woken /\ error[t] # "EOK"
                  /\ pc' = [pc EXCEPT ![t] = "idle"]
                  /\ error' = [error EXCEPT ![t] = "EOK"]
                  /\ Drop(t)
                  /\ UNCHANGED <<ring, lists, got>>
SendAgain(t) == /\ pc[t] = "sendWoken" /\ error[t] = "EOK"
                /\ \E to \in Remaining(timeout[t]) : SendLoop(t, value[t], to)
RecvAgain(t) == /\ pc[t] = "recvWoken" /\ error[t] = "EOK"
                /\ \E to \in Remaining(timeout[t]) : RecvLoop(t, to)
Run(t) == ReturnError(t) \/ SendAgain(t) \/ RecvAgain(t)

(* rt_thread_timeout: the thread's timer fires while it waits *)
Without(list, t) ==
    IF \E i \in 1..Len(list) : list[i] = t
    THEN RemoveAt(list, CHOOSE i \in 1..Len(list) : list[i] = t)
    ELSE list
WokenFrom(w) == IF w = "recvWait" THEN "recvWoken" ELSE "sendWoken"
Timeout(t) ==
    /\ pc[t] \in Waits /\ timeout[t] = "ticks"
    /\ error' = [error EXCEPT ![t] = "ETIMEOUT"]
    /\ suspend_thread' = Without(suspend_thread, t)
    /\ suspend_sender_thread' = Without(suspend_sender_thread, t)
    /\ pc' = [pc EXCEPT ![t] = WokenFrom(pc[t])]
    /\ UNCHANGED <<ring, locals, got>>

(* rt_mb_control(RT_IPC_CMD_RESET) by a thread outside the mailbox *)
Reset ==
    /\ error' = [t \in Threads |-> IF pc[t] \in Waits THEN "ERROR" ELSE error[t]]
    /\ pc' = [t \in Threads |-> IF pc[t] \in Waits THEN WokenFrom(pc[t]) ELSE pc[t]]
    /\ suspend_thread' = <<>> /\ suspend_sender_thread' = <<>>
    /\ entry' = 0 /\ in_offset' = 0 /\ out_offset' = 0
    /\ UNCHANGED <<msg_pool, locals, got>>

Next == \/ \E t \in Threads : \/ \E v \in Mails, to \in Timeouts : Send(t, v, to)
                              \/ \E to \in Timeouts : Recv(t, to)
                              \/ Run(t)
                              \/ Timeout(t)
        \/ Reset

Spec == Init /\ [][Next]_vars

(* A thread that was resumed is ready, and the scheduler runs it some day. *)
Fairness == \A t \in Threads : WF_vars(Run(t))
FairSpec == Spec /\ Fairness

-----------------------------------------------------------------------------
(* Every variable has its type. *)
TypeOK ==
    /\ msg_pool \in [0..(Size - 1) -> Mails \cup {NoMail}]
    /\ entry \in 0..Size
    /\ in_offset \in 0..(Size - 1) /\ out_offset \in 0..(Size - 1)
    /\ suspend_thread \in Seq(Threads) /\ suspend_sender_thread \in Seq(Threads)
    /\ pc \in [Threads -> {"idle"} \cup Waits \cup Woken]
    /\ error \in [Threads -> {"EOK", "ETIMEOUT", "ERROR"}]
    /\ timeout \in [Threads -> Timeouts]
    /\ value \in [Threads -> Mails \cup {NoMail}]
    /\ got \in Mails \cup {NoMail}

(* A waiting thread is on the list of what it waits for, exactly once and  *)
(* with no error yet, and only waiting threads are: a timer (thread.c:813) *)
(* or a reset takes it off that list, else it would be resumed twice or    *)
(* never.                                                                  *)
Listed(list, p, e, state) ==
    /\ \A i, j \in 1..Len(list) : list[i] = list[j] => i = j
    /\ \A i \in 1..Len(list) : p[list[i]] = state /\ e[list[i]] = "EOK"
    /\ \A t \in Threads : p[t] = state => \E i \in 1..Len(list) : list[i] = t
WaitersListed == /\ Listed(suspend_thread, pc, error, "recvWait")
                 /\ Listed(suspend_sender_thread, pc, error, "sendWait")

Resumed(state) == {t \in Threads : pc[t] = state /\ error[t] = "EOK"}

(* No receiver is left waiting beside mails nobody is on the way to fetch: *)
(* while one waits, every mail has its own receiver among those that       *)
(* rt_mb_send_wait resumed (ipc.c:1550) and that have not run yet.         *)
NoLostMailWakeup ==
    suspend_thread # <<>> => entry <= Cardinality(Resumed("recvWoken"))

(* No sender is left waiting beside room nobody is on the way to fill:     *)
(* while one waits, every free slot has its own sender among those that    *)
(* rt_mb_recv resumed (ipc.c:1699) and that have not run yet.              *)
NoLostRoomWakeup ==
    suspend_sender_thread # <<>> =>
        Size - entry <= Cardinality(Resumed("sendWoken"))

(* The thread that rt_ipc_list_resume wakes is never less urgent than one  *)
(* that stays behind it, whatever came and timed out in between.           *)
MostUrgentFirst ==
    \A list \in {suspend_thread, suspend_sender_thread} :
        \A i, j \in DOMAIN list : i < j => Prio[list[i]] <= Prio[list[j]]

(* The mails in the ring, oldest first, are a bounded queue. *)
queue == [i \in 1..entry |-> msg_pool[IF out_offset + i - 1 < Size
                                      THEN out_offset + i - 1
                                      ELSE out_offset + i - 1 - Size]]
BQ == INSTANCE BoundedQueue

(* Every step of the mailbox puts a mail, takes the oldest, empties the    *)
(* queue, or does nothing to it.                                           *)
ImplementsBoundedQueue == BQ!Spec

(* Mails and waiting receivers do not stay side by side: the resumed       *)
(* receivers come and fetch (ipc.c:1550-1559, 1624-1689).                  *)
MailMeetsReceiver ==
    (entry # 0 /\ suspend_thread # <<>>) ~> (entry = 0 \/ suspend_thread = <<>>)
=============================================================================
