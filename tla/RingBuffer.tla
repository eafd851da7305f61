----------------------------- MODULE RingBuffer -----------------------------
(***************************************************************************)
(* The ring buffer of components/drivers/src/ringbuffer.c: indices that    *)
(* wrap around, each with a mirror bit that is flipped when it does, so    *)
(* that equal indices mean empty or full.  A ring is a record; operators   *)
(* return the ring after a call, or after a part of one.                   *)
(***************************************************************************)
EXTENDS Integers, Sequences

CONSTANTS Size,   \* buffer_size, a multiple of RT_ALIGN_SIZE in the code
          Blank   \* what the pool holds before the first byte

ASSUME SizeAssumption == Size \in Nat \ {0}

Create == [pool |-> [i \in 0 .. Size - 1 |-> Blank],
           read_index |-> 0, read_mirror |-> FALSE,
           write_index |-> 0, write_mirror |-> FALSE]

IsEmpty(rb) == /\ rb.read_index = rb.write_index
               /\ rb.read_mirror = rb.write_mirror
IsFull(rb) == /\ rb.read_index = rb.write_index
              /\ rb.read_mirror # rb.write_mirror

DataLen(rb) == IF IsEmpty(rb) THEN 0
               ELSE IF rb.write_index > rb.read_index
                    THEN rb.write_index - rb.read_index
                    ELSE Size - (rb.read_index - rb.write_index)
SpaceLen(rb) == Size - DataLen(rb)

(* The bytes a reader finds, oldest first *)
Content(rb) == [k \in 1 .. DataLen(rb) |->
                   rb.pool[(rb.read_index + k - 1) % Size]]

-----------------------------------------------------------------------------
(* rt_ringbuffer_put of s, which fits: the bytes are copied and the mirror *)
(* flipped, then the index is assigned.                                    *)
Wraps(index, n) == Size - index <= n
Advanced(index, n) == IF Wraps(index, n) THEN n - (Size - index) ELSE index + n

Copied(rb, s) ==
    [rb EXCEPT
       !.pool = [i \in 0 .. Size - 1 |->
                    LET k == (i - rb.write_index) % Size
                    IN  IF k < Len(s) THEN s[k + 1] ELSE rb.pool[i]],
       !.write_mirror = IF Wraps(rb.write_index, Len(s)) THEN ~@ ELSE @]
Written(rb, n) == [rb EXCEPT !.write_index = Advanced(@, n)]

(* rt_ringbuffer_get of n bytes that are there *)
Taken(rb, n) ==
    [rb EXCEPT !.read_mirror = IF Wraps(rb.read_index, n) THEN ~@ ELSE @,
               !.read_index = Advanced(@, n)]

(* rt_ringbuffer_put_force of one byte: a full ring loses its oldest. *)
Forced(rb, byte) ==
    LET put == Written(Copied(rb, <<byte>>), 1)
    IN  IF SpaceLen(rb) >= 1 THEN put
        ELSE [put EXCEPT !.read_index = put.write_index,
                         !.read_mirror = IF Wraps(rb.write_index, 1)
                                         THEN ~@ ELSE @]
=============================================================================
