-------------------------------- MODULE Pipe --------------------------------
(***************************************************************************)
(* The pipe between the threads that publish and the MQTT worker, in bytes *)
(* (components/drivers/src/pipe.c, ringbuffer.c, waitqueue.c and           *)
(* components/dfs/src/poll.c).  MqttClient takes it for a bounded queue of *)
(* whole messages.                                                         *)
(*                                                                         *)
(* A writer holds the pipe's mutex while it puts bytes, and wakes the      *)
(* reader after it released it.  The reader polls a socket and the pipe,   *)
(* the socket first.  It is the most urgent thread: a writer takes a step  *)
(* only while the reader is blocked, but an event of the socket, or the    *)
(* end of its timeout, puts the reader between any two of them.            *)
(*                                                                         *)
(* Not here: non-blocking use and closing the pipe, and the read that      *)
(* finds nothing, which ReadFindsBytes rules out.                          *)
(***************************************************************************)
EXTENDS Integers, FiniteSets, SequencesExt

CONSTANTS Size, Blank,  \* see RingBuffer
          Writers,      \* threads, each of which writes one message
          Length,       \* the bytes of each writer's message
          NoThread,
          MaxEvents     \* bound: how often the socket becomes readable

ASSUME SizeAssumption == Size \in Nat \ {0}
ASSUME LengthAssumption == Length \in [Writers -> Nat \ {0}]
ASSUME NoThreadAssumption == NoThread \notin Writers

VARIABLES fifo,       \* the ring buffer
          lock,       \* who holds the mutex
          pc,         \* where each writer stands in pipe_fops_write
          ret,        \* its bytes in the pipe so far
          len,        \* the bytes rt_ringbuffer_put is putting
          flag,       \* writer_queue: somebody was woken
          waiting,    \* writer_queue: who waits, oldest first
          reader,     \* where the worker stands
          listed,     \* it is on reader_queue
          triggered, timed_out,  \* poll's locals
          readable,   \* the socket is
          events,     \* counts the environment's moves
          reads       \* what each read returned

writing == <<lock, pc, ret, len>>
queue == <<flag, waiting>>
polling == <<listed, triggered, timed_out>>
socket == <<readable, events>>
vars == <<fifo, writing, queue, reader, polling, socket, reads>>

Ring == INSTANCE RingBuffer

Init == /\ fifo = Ring!Create
        /\ lock = NoThread
        /\ pc = [w \in Writers |-> "take"] /\ ret = [w \in Writers |-> 0]
        /\ len = 0
        /\ flag = FALSE /\ waiting = <<>>
        /\ reader = "busy"
        /\ listed = FALSE /\ triggered = FALSE /\ timed_out = FALSE
        /\ readable = FALSE /\ events = 0
        /\ reads = <<>>

Message(w) == [i \in 1 .. Length[w] |-> <<w, i>>]
Rest(w) == Length[w] - ret[w]
Goto(w, place) == pc' = [pc EXCEPT ![w] = place]

-----------------------------------------------------------------------------
(* A writer *)

Blocked == \/ reader \in {"asleep", "busy"}
           \/ reader = "read" /\ lock # NoThread

Take(w) == /\ Blocked /\ pc[w] = "take"
           /\ lock = NoThread
           /\ lock' = w
           /\ Goto(w, "put")
           /\ UNCHANGED <<fifo, ret, len, queue, reader, polling, socket, reads>>

PutOne(w) ==        \* mutant: one byte at a time
    /\ Blocked /\ pc[w] = "put"
    /\ len' = Min({1, Rest(w), Ring!SpaceLen(fifo)})
    /\ fifo' = IF len' = 0 THEN fifo
               ELSE Ring!Copied(fifo, SubSeq(Message(w), ret[w] + 1,
                                             ret[w] + len'))
    /\ Goto(w, "index")
    /\ UNCHANGED <<lock, ret, queue, reader, polling, socket, reads>>
(* rt_ringbuffer_put, up to the index *)
Put(w) == /\ Blocked /\ pc[w] = "put"
          /\ len' = Min({Rest(w), Ring!SpaceLen(fifo)})
          /\ fifo' = IF len' = 0 THEN fifo
                     ELSE Ring!Copied(fifo, SubSeq(Message(w), ret[w] + 1,
                                                   ret[w] + len'))
          /\ Goto(w, "index")
          /\ UNCHANGED <<lock, ret, queue, reader, polling, socket, reads>>

PutIndex(w) == /\ Blocked /\ pc[w] = "index"
               /\ fifo' = IF len = 0 THEN fifo ELSE Ring!Written(fifo, len)
               /\ ret' = [ret EXCEPT ![w] = @ + len]
               /\ Goto(w, "release")
               /\ UNCHANGED <<lock, len, queue, reader, polling, socket, reads>>

Release(w) == /\ Blocked /\ pc[w] = "release"
              /\ lock' = NoThread
              /\ Goto(w, "wake")
              /\ UNCHANGED <<fifo, ret, len, queue, reader, polling, socket,
                             reads>>

WakeNobody(w) ==   \* mutant: no wakeup once the message is complete
    /\ Blocked /\ pc[w] = "wake"
    /\ UNCHANGED <<reader, polling>>
    /\ Goto(w, IF Rest(w) = 0 THEN "done" ELSE "wait")
    /\ UNCHANGED <<fifo, lock, ret, len, queue, socket, reads>>
(* rt_wqueue_wakeup of reader_queue, where only a poll can be *)
Wake(w) == /\ Blocked /\ pc[w] = "wake"
           /\ IF listed
              THEN /\ listed' = FALSE /\ triggered' = TRUE
                   /\ reader' = "poll"
              ELSE UNCHANGED <<listed, triggered, reader>>
           /\ Goto(w, IF Rest(w) = 0 THEN "done" ELSE "wait")
           /\ UNCHANGED <<fifo, lock, ret, len, queue, timed_out, socket, reads>>

(* rt_wqueue_wait up to rt_schedule *)
Wait(w) == /\ Blocked /\ pc[w] = "wait"
           /\ IF flag THEN /\ flag' = FALSE
                           /\ Goto(w, "take")
                           /\ UNCHANGED waiting
                      ELSE /\ waiting' = Append(waiting, w)
                           /\ Goto(w, "waiting")
                           /\ UNCHANGED flag
           /\ UNCHANGED <<fifo, lock, ret, len, reader, polling, socket, reads>>
(* ... and after it *)
Woken(w) == /\ Blocked /\ pc[w] = "woken"
            /\ flag' = FALSE
            /\ Goto(w, "take")
            /\ UNCHANGED <<fifo, lock, ret, len, waiting, reader, polling, socket,
                           reads>>

Writer(w) == \/ Take(w) \/ Put(w) \/ PutIndex(w) \/ Release(w)
             \/ Wake(w) \/ Wait(w) \/ Woken(w)

-----------------------------------------------------------------------------
(* The reader *)

HasData == Ring!DataLen(fifo) # 0
Spins == /\ reader = "poll"
         /\ ~readable /\ ~HasData /\ ~timed_out
         /\ triggered

(* One turn of the loop of poll_do.  The table is built anew by the next   *)
(* call.  Woken by something it does not find, the thread neither sleeps   *)
(* nor returns.                                                            *)
Return == listed' = FALSE /\ triggered' = FALSE /\ timed_out' = FALSE
Poll == /\ reader = "poll"
        /\ \/ /\ readable
              /\ readable' = FALSE /\ reader' = "busy"
              /\ Return
           \/ /\ ~readable /\ HasData
              /\ reader' = "read"
              /\ Return
              /\ UNCHANGED readable
           \/ /\ ~readable /\ ~HasData /\ timed_out
              /\ reader' = "busy"
              /\ Return
              /\ UNCHANGED readable
           \/ /\ ~readable /\ ~HasData /\ ~timed_out /\ ~triggered
              /\ reader' = "asleep"
              /\ listed' = TRUE
              /\ UNCHANGED <<triggered, timed_out, readable>>
           \/ Spins /\ UNCHANGED <<reader, polling, readable>>
        /\ UNCHANGED <<fifo, writing, queue, events, reads>>

(* pipe_fops_read of a buffer as large as the pipe; the first of the       *)
(* waiting writers is resumed.                                             *)
WakeWriter == /\ flag' = TRUE
              /\ waiting' = IF waiting = <<>> THEN <<>> ELSE Tail(waiting)
              /\ IF waiting = <<>> THEN UNCHANGED pc
                                   ELSE Goto(Head(waiting), "woken")
ReadWithoutFlag ==  \* mutant: writer_queue.flag is not set
    /\ reader = "read" /\ lock = NoThread
    /\ reads' = Append(reads, Ring!Content(fifo))
    /\ fifo' = Ring!Taken(fifo, Ring!DataLen(fifo))
    /\ UNCHANGED flag
    /\ waiting' = IF waiting = <<>> THEN <<>> ELSE Tail(waiting)
    /\ IF waiting = <<>> THEN UNCHANGED pc ELSE Goto(Head(waiting), "woken")
    /\ reader' = "busy"
    /\ UNCHANGED <<lock, ret, len, polling, socket>>
ReadUnlocked ==     \* mutant: rt_mutex_take is missing
    /\ reader = "read"
    /\ reads' = Append(reads, Ring!Content(fifo))
    /\ fifo' = Ring!Taken(fifo, Ring!DataLen(fifo))
    /\ WakeWriter
    /\ reader' = "busy"
    /\ UNCHANGED <<lock, ret, len, polling, socket>>
Read == /\ reader = "read" /\ lock = NoThread
        /\ reads' = Append(reads, Ring!Content(fifo))
        /\ fifo' = Ring!Taken(fifo, Ring!DataLen(fifo))
        /\ WakeWriter
        /\ reader' = "busy"
        /\ UNCHANGED <<lock, ret, len, polling, socket>>

(* What the worker does elsewhere has an end. *)
Again == /\ reader = "busy"
         /\ reader' = "poll"
         /\ UNCHANGED <<fifo, writing, queue, polling, socket, reads>>

Reader == Poll \/ Read \/ Again

-----------------------------------------------------------------------------
(* The socket becomes readable, or poll's time is up. *)
Event == /\ events < MaxEvents /\ ~readable
         /\ readable' = TRUE /\ events' = events + 1
         /\ IF reader = "asleep"
            THEN reader' = "poll" /\ triggered' = TRUE
            ELSE UNCHANGED <<reader, triggered>>
         /\ UNCHANGED <<fifo, writing, queue, listed, timed_out, reads>>
Timeout == /\ reader = "asleep"
           /\ reader' = "poll" /\ timed_out' = TRUE
           /\ UNCHANGED <<fifo, writing, queue, listed, triggered, socket, reads>>

Next == (\E w \in Writers : Writer(w)) \/ Reader \/ Event \/ Timeout

Spec == Init /\ [][Next]_vars

(* Threads are scheduled; the reader sleeps for seconds, in which a writer *)
(* gets its turn.                                                          *)
FairSpec == /\ Spec /\ WF_vars(Reader)
            /\ \A w \in Writers : SF_vars(Writer(w))

-----------------------------------------------------------------------------
Received == FlattenSeq(reads)
Of(w, bytes) == SelectSeq(bytes, LAMBDA b : b[1] = w)
Unsettled == \E w \in Writers : pc[w] = "index"

(* What was read and what is in the ring are the bytes each writer has     *)
(* written, all of them, each once and in its order, whatever wraps around *)
(* and whoever waits (pipe.c:160, 220-222; ringbuffer.c).                  *)
Spots(chunks) == UNION {{k} \X (1 .. Len(chunks[k])) : k \in DOMAIN chunks}
Earlier(x, y) == x[1] < y[1] \/ (x[1] = y[1] /\ x[2] < y[2])
Holds(chunks, amount) ==
    LET Byte(x) == chunks[x[1]][x[2]]
    IN  /\ {Byte(x) : x \in Spots(chunks)}
               = UNION {{w} \X (1 .. amount[w]) : w \in Writers}
        /\ \A x, y \in Spots(chunks) :
              Earlier(x, y) /\ Byte(x)[1] = Byte(y)[1]
                 => Byte(x)[2] < Byte(y)[2]
NothingLost == ~Unsettled => Holds(Append(reads, Ring!Content(fifo)), ret)

(* A message is cut in two reads only where the pipe was full: in each     *)
(* read a byte is followed by its message's next one, except as the last   *)
(* of Size bytes (pipe.c:220-245): the worker takes each read for one      *)
(* message.                                                                *)
CutOnlyWhenFull ==
    \A k \in 1 .. Len(reads), p \in 1 .. Size :
       p <= Len(reads[k]) =>
          LET b == reads[k][p]
          IN  \/ b[2] = Length[b[1]] \/ p = Size
              \/ p < Len(reads[k]) /\ reads[k][p + 1] = <<b[1], b[2] + 1>>

(* While a writer waits for room in an empty pipe, another one is on its   *)
(* way to fill it, whose bytes will bring the reader and its next wakeup   *)
(* (pipe.c:184, 238-243; waitqueue.c:46-64, 92-120).  The worker does not  *)
(* sleep beside bytes without somebody about to wake it (pipe.c:243, 252;  *)
(* poll.c:96), and does not come to read an empty pipe, where it would     *)
(* wait for the pipe alone (pipe.c:168-177, 284).                          *)
RoomIsTaken ==
    waiting # <<>> /\ ~HasData =>
       \E w \in Writers : /\ pc[w] \in {"take", "put", "index", "woken", "wait"}
                          /\ Rest(w) > 0
BytesAreRead ==
    reader = "asleep" /\ HasData =>
       listed /\ \E w \in Writers : pc[w] \in {"index", "release", "wake"}
ReadFindsBytes == reader = "read" /\ lock = NoThread => HasData
NoLostWakeup == RoomIsTaken /\ BytesAreRead /\ ReadFindsBytes

(* Every message is written to its end and read, unless the worker comes   *)
(* to spin in poll: a wakeup for bytes it has already read reaches it in   *)
(* its next poll (pipe.c:248-252, poll.c:96-114, 197-201).                 *)
AllRead == \/ <>(\A w \in Writers : Of(w, Received) = Message(w))
           \/ <>[]Spins
=============================================================================
