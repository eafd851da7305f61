---------------------------- MODULE ConsoleProofs ----------------------------
(***************************************************************************)
(* Proofs about the console session, for any characters, any size of the   *)
(* ring, any number of keys and sessions.                                  *)
(*                                                                         *)
(* What it saves was handled in the dialog that asked for it.  ESC leaves  *)
(* a half-typed line behind while no command is chosen, so the line is of  *)
(* the dialog only while there is one: choosing a command takes a return,  *)
(* which clears the line.  In the same way the name of a pair is this      *)
(* dialog's only while cur_lvl is 2.  That each key was typed, too, needs  *)
(* the ring's part: as long as nothing was lost, a notice stands for a     *)
(* character.                                                              *)
(*                                                                         *)
(* What it handles is what was typed.  An index and its mirror bit are one *)
(* position on a circle of 2 * Size, on which the writer is Behind ahead   *)
(* of the reader; an interrupt moves either position by one, and the       *)
(* thread may put the reader's back to where it was when the thread looked *)
(* at the ring.  The notices of the semaphore cover that detour, too.      *)
(***************************************************************************)
EXTENDS Console, TLAPS

(* The ring buffer *)

Bytes == Keys \cup {Blank}
RingType == [pool : [0 .. Size - 1 -> Bytes],
             read_index : 0 .. Size - 1, read_mirror : BOOLEAN,
             write_index : 0 .. Size - 1, write_mirror : BOOLEAN]

ReadPos(rb) == IF rb.read_mirror THEN rb.read_index + Size ELSE rb.read_index
WritePos(rb) == IF rb.write_mirror THEN rb.write_index + Size ELSE rb.write_index
Step(p) == IF p = 2 * Size - 1 THEN 0 ELSE p + 1
Dist(a, b) == IF a >= b THEN a - b ELSE a - b + 2 * Size
Behind(rb) == Dist(WritePos(rb), ReadPos(rb))

LEMMA Remainder ==
  ASSUME NEW x \in 0 .. Size - 1
  PROVE  x % Size = x /\ (x + Size) % Size = x /\ (x - Size) % Size = x
BY SizeAssumption

LEMMA Fields ==
  ASSUME NEW rb \in RingType
  PROVE  /\ rb.pool \in [0 .. Size - 1 -> Bytes]
         /\ rb.read_index \in 0 .. Size - 1 /\ rb.write_index \in 0 .. Size - 1
         /\ rb.read_mirror \in BOOLEAN /\ rb.write_mirror \in BOOLEAN
BY Zenon DEF RingType

LEMMA Positions ==
  ASSUME NEW rb \in RingType
  PROVE  /\ ReadPos(rb) \in 0 .. 2 * Size - 1 /\ WritePos(rb) \in 0 .. 2 * Size - 1
         /\ rb.read_index = IF ReadPos(rb) < Size THEN ReadPos(rb) ELSE ReadPos(rb) - Size
         /\ rb.write_index = IF WritePos(rb) < Size THEN WritePos(rb) ELSE WritePos(rb) - Size
<1>1. /\ rb.read_index \in 0 .. Size - 1 /\ rb.write_index \in 0 .. Size - 1
  BY Fields
<1> QED
  BY <1>1, SizeAssumption DEF ReadPos, WritePos

LEMMA EmptyMeets ==
  ASSUME NEW rb \in RingType
  PROVE  IsEmpty(rb) <=> WritePos(rb) = ReadPos(rb)
<1>1. /\ rb.read_index \in 0 .. Size - 1 /\ rb.write_index \in 0 .. Size - 1
      /\ rb.read_mirror \in BOOLEAN /\ rb.write_mirror \in BOOLEAN
  BY Fields
<1> QED
  BY <1>1, SizeAssumption DEF ReadPos, WritePos, IsEmpty

LEMMA FullIsSize ==
  ASSUME NEW rb \in RingType
  PROVE  IsFull(rb) <=> Behind(rb) = Size
<1>1. /\ rb.read_index \in 0 .. Size - 1 /\ rb.write_index \in 0 .. Size - 1
      /\ rb.read_mirror \in BOOLEAN /\ rb.write_mirror \in BOOLEAN
  BY Fields
<1> QED
  BY <1>1, SizeAssumption DEF ReadPos, WritePos, IsFull, Behind, Dist

LEMMA DataLenIs ==
  ASSUME NEW rb \in RingType
  PROVE  /\ Behind(rb) \in 0 .. 2 * Size - 1
         /\ DataLen(rb) = IF Behind(rb) <= Size THEN Behind(rb) ELSE Behind(rb) - Size
<1>1. /\ rb.read_index \in 0 .. Size - 1 /\ rb.write_index \in 0 .. Size - 1
      /\ rb.read_mirror \in BOOLEAN /\ rb.write_mirror \in BOOLEAN
  BY Fields
<1> QED
  BY <1>1, SizeAssumption DEF ReadPos, WritePos, IsEmpty, DataLen, Behind, Dist

LEMMA StepTaken ==
  ASSUME NEW rb \in RingType, NEW from \in RingType
  PROVE  LET new == [rb EXCEPT !.read_index = Taken(from, 1).read_index,
                               !.read_mirror = Taken(from, 1).read_mirror]
         IN  /\ new \in RingType /\ new.pool = rb.pool
             /\ ReadPos(new) = Step(ReadPos(from)) /\ WritePos(new) = WritePos(rb)
<1> DEFINE i == Advanced(from.read_index, 1)
           m == IF Wraps(from.read_index, 1) THEN ~from.read_mirror ELSE from.read_mirror
           new == [rb EXCEPT !.read_index = i, !.read_mirror = m]
<1>1. Taken(from, 1).read_index = i /\ Taken(from, 1).read_mirror = m
  BY Zenon DEF Taken, RingType
<1>2. from.read_index \in 0 .. Size - 1 /\ from.read_mirror \in BOOLEAN
  BY Fields
<1>3. /\ i \in 0 .. Size - 1
      /\ i = IF from.read_index = Size - 1 THEN 0 ELSE from.read_index + 1
      /\ Wraps(from.read_index, 1) <=> from.read_index = Size - 1
  BY <1>2, SizeAssumption DEF Advanced, Wraps
<1>4. m \in BOOLEAN
  BY <1>2, Zenon
<1>5. /\ new \in RingType /\ new.pool = rb.pool
      /\ new.read_index = i /\ new.read_mirror = m
      /\ new.write_index = rb.write_index /\ new.write_mirror = rb.write_mirror
  <2> HIDE DEF i, m
  <2> QED
    BY <1>3, <1>4 DEF RingType
<1>6. WritePos(new) = WritePos(rb)
  <2> HIDE DEF i, m, new
  <2> QED
    BY <1>5, Zenon DEF WritePos
<1>7. m <=> IF from.read_index = Size - 1 THEN ~from.read_mirror ELSE from.read_mirror
  BY <1>3, Zenon
<1>8. ReadPos(new) = IF m THEN i + Size ELSE i
  <2> HIDE DEF i, m, new
  <2> QED
    BY <1>5, Zenon DEF ReadPos
<1>9. (IF m THEN i + Size ELSE i) = Step(ReadPos(from))
  <2> HIDE DEF i, m
  <2> QED
    BY <1>2, <1>3, <1>7, SizeAssumption DEF ReadPos, Step
<1> HIDE DEF i, m, new
<1>10. new = [rb EXCEPT !.read_index = Taken(from, 1).read_index,
                        !.read_mirror = Taken(from, 1).read_mirror]
  BY <1>1, Zenon DEF new
<1> QED
  BY <1>5, <1>6, <1>8, <1>9, <1>10, Zenon

LEMMA StepForced ==
  ASSUME NEW rb \in RingType, NEW byte \in Keys
  PROVE  LET new == Forced(rb, byte)
         IN  /\ new \in RingType
             /\ new.pool = [rb.pool EXCEPT ![rb.write_index] = byte]
             /\ WritePos(new) = Step(WritePos(rb))
             /\ ReadPos(new) = IF IsFull(rb) THEN Step(ReadPos(rb)) ELSE ReadPos(rb)
<1> DEFINE w == rb.write_index
           i == Advanced(w, 1)
           wraps == Wraps(w, 1)
           pool == [rb.pool EXCEPT ![w] = byte]
           wm == IF wraps THEN ~rb.write_mirror ELSE rb.write_mirror
           put == Written(Copied(rb, <<byte>>), 1)
           rm == IF wraps THEN ~rb.read_mirror ELSE rb.read_mirror
           forced == [put EXCEPT !.read_index = put.write_index, !.read_mirror = rm]
<1>1. /\ rb.pool \in [0 .. Size - 1 -> Bytes] /\ byte \in Bytes
      /\ rb.read_index \in 0 .. Size - 1 /\ w \in 0 .. Size - 1
      /\ rb.read_mirror \in BOOLEAN /\ rb.write_mirror \in BOOLEAN
  BY Fields DEF Bytes
<1>2. /\ i \in 0 .. Size - 1
      /\ i = IF w = Size - 1 THEN 0 ELSE w + 1
      /\ wraps <=> w = Size - 1
  BY <1>1, SizeAssumption DEF Advanced, Wraps
<1>3. pool \in [0 .. Size - 1 -> Bytes]
  BY <1>1
<1>4. \A j \in 0 .. Size - 1 : (j - w) % Size < 1 <=> j = w
  <2> SUFFICES ASSUME NEW j \in 0 .. Size - 1
               PROVE  (j - w) % Size < 1 <=> j = w
    OBVIOUS
  <2>1. j >= w => (j - w) % Size = j - w
    <3>1. ASSUME j >= w PROVE j - w \in 0 .. Size - 1
      BY <1>1, <3>1, SizeAssumption
    <3> QED
      BY <3>1, Remainder
  <2>2. j < w => (j - w) % Size = j - w + Size
    <3>1. ASSUME j < w PROVE j - w + Size \in 0 .. Size - 1 /\ (j - w + Size) - Size = j - w
      BY <1>1, <3>1, SizeAssumption
    <3>2. ASSUME j < w PROVE ((j - w + Size) - Size) % Size = j - w + Size
      <4>1. j - w + Size \in 0 .. Size - 1
        BY <3>1, <3>2
      <4> QED
        BY <4>1, Remainder
    <3> QED
      BY <3>1, <3>2
  <2> DEFINE d == (j - w) % Size
  <2>3. /\ j >= w => d = j - w
        /\ j < w => d = j - w + Size
    BY <2>1, <2>2, Zenon
  <2> HIDE DEF d
  <2>4. d < 1 <=> j = w
    BY <1>1, <2>3, SizeAssumption
  <2> QED
    BY <2>4 DEF d
<1>5. \A j \in 0 .. Size - 1 : j = w => ((j - w) % Size) + 1 = 1
  BY <1>1, SizeAssumption
<1>6. pool = [j \in 0 .. Size - 1 |-> LET k == (j - w) % Size
                                     IN  IF k < Len(<<byte>>) THEN <<byte>>[k + 1] ELSE rb.pool[j]]
  <2>1. Len(<<byte>>) = 1 /\ <<byte>>[1] = byte
    OBVIOUS
  <2>2. \A j \in 0 .. Size - 1 : (LET k == (j - w) % Size
                                  IN  IF k < Len(<<byte>>) THEN <<byte>>[k + 1] ELSE rb.pool[j])
                                 = IF j = w THEN byte ELSE rb.pool[j]
    BY <1>4, <1>5, <2>1
  <2> QED
    BY <1>1, <2>2
<1>7. Copied(rb, <<byte>>) = [rb EXCEPT !.pool = pool, !.write_mirror = wm]
  <2>1. Len(<<byte>>) = 1
    OBVIOUS
  <2> QED
    BY <1>6, <2>1, Zenon DEF Copied
<1>8. put = [rb EXCEPT !.pool = pool, !.write_mirror = wm, !.write_index = i]
  <2> HIDE DEF pool, wm
  <2> QED
    BY <1>7 DEF Written, RingType
<1>9. wm \in BOOLEAN /\ rm \in BOOLEAN
  BY <1>1, Zenon
<1>10. /\ put \in RingType /\ put.pool = pool
       /\ put.write_index = i /\ put.write_mirror = wm
       /\ put.read_index = rb.read_index /\ put.read_mirror = rb.read_mirror
  <2> HIDE DEF pool, wm, i, put
  <2> QED
    BY <1>2, <1>3, <1>8, <1>9 DEF RingType
<1>11. /\ forced \in RingType /\ forced.pool = pool
       /\ forced.write_index = i /\ forced.write_mirror = wm
       /\ forced.read_index = i /\ forced.read_mirror = rm
  <2> HIDE DEF pool, wm, i, put, rm
  <2> QED
    BY <1>9, <1>10, <1>2 DEF RingType
<1>12. Forced(rb, byte) = IF SpaceLen(rb) >= 1 THEN put ELSE forced
  <2>1. put.read_mirror = rb.read_mirror
    BY <1>10
  <2> QED
    BY <2>1, Zenon DEF Forced
<1>13. SpaceLen(rb) >= 1 <=> ~IsFull(rb)
  BY FullIsSize, DataLenIs, SizeAssumption DEF SpaceLen
<1>14. (IF wm THEN i + Size ELSE i) = Step(WritePos(rb))
  <2>1. wm <=> IF w = Size - 1 THEN ~rb.write_mirror ELSE rb.write_mirror
    BY <1>2, Zenon
  <2> HIDE DEF i, wm
  <2> QED
    BY <1>1, <1>2, <2>1, SizeAssumption DEF WritePos, Step
<1>15. WritePos(put) = Step(WritePos(rb)) /\ WritePos(forced) = Step(WritePos(rb))
  <2> HIDE DEF i, wm, put, forced
  <2> QED
    BY <1>10, <1>11, <1>14, Zenon DEF WritePos
<1>16. ReadPos(put) = ReadPos(rb)
  <2> HIDE DEF put
  <2> QED
    BY <1>10, Zenon DEF ReadPos
<1>17. ASSUME IsFull(rb) PROVE ReadPos(forced) = Step(ReadPos(rb))
  <2>1. rb.read_index = w
    BY <1>17 DEF IsFull
  <2>2. rm <=> IF w = Size - 1 THEN ~rb.read_mirror ELSE rb.read_mirror
    BY <1>2, Zenon
  <2>3. ReadPos(forced) = IF rm THEN i + Size ELSE i
    <3> HIDE DEF i, rm, forced
    <3> QED
      BY <1>11, Zenon DEF ReadPos
  <2> HIDE DEF i, rm, forced
  <2> QED
    BY <1>1, <1>2, <2>1, <2>2, <2>3, SizeAssumption DEF ReadPos, Step
<1> HIDE DEF put, forced
<1>18. CASE IsFull(rb)
  <2>1. Forced(rb, byte) = forced
    BY <1>12, <1>13, <1>18, Zenon
  <2> QED
    BY <1>11, <1>15, <1>17, <1>18, <2>1, Zenon
<1>19. CASE ~IsFull(rb)
  <2>1. Forced(rb, byte) = put
    BY <1>12, <1>13, <1>19, Zenon
  <2> QED
    BY <1>10, <1>15, <1>16, <1>19, <2>1, Zenon
<1> QED
  BY <1>18, <1>19

LEMMA ContentIsSeq ==
  ASSUME NEW rb \in RingType
  PROVE  /\ Content(rb) \in Seq(Bytes) /\ Len(Content(rb)) = DataLen(rb)
         /\ DataLen(rb) \in Nat
         /\ \A k \in 1 .. DataLen(rb) :
               /\ rb.read_index + k - 1 \in 0 .. 2 * Size - 1
               /\ Content(rb)[k] = rb.pool[(rb.read_index + k - 1) % Size]
<1> DEFINE n == DataLen(rb)
           slot(k) == (rb.read_index + k - 1) % Size
<1>1. n \in 0 .. Size
  BY DataLenIs, SizeAssumption
<1>2. rb.read_index \in 0 .. Size - 1 /\ rb.pool \in [0 .. Size - 1 -> Bytes]
  BY Fields
<1> HIDE DEF n
<1>3. \A k \in 1 .. n : rb.read_index + k - 1 \in 0 .. 2 * Size - 1
  BY <1>1, <1>2, SizeAssumption
<1>4. \A k \in 1 .. n : slot(k) \in 0 .. Size - 1
  BY <1>1, <1>2, SizeAssumption
<1>5. Content(rb) = [k \in 1 .. n |-> rb.pool[slot(k)]]
  BY DEF Content, n
<1> HIDE DEF slot
<1>6. \A k \in 1 .. n : rb.pool[slot(k)] \in Bytes
  BY <1>2, <1>4
<1>7. Content(rb) \in Seq(Bytes) /\ Len(Content(rb)) = n
  BY <1>1, <1>5, <1>6
<1>8. \A k \in 1 .. n : Content(rb)[k] = rb.pool[slot(k)]
  BY <1>5
<1> QED
  BY <1>1, <1>3, <1>7, <1>8 DEF n, slot

LEMMA Around ==
  ASSUME NEW x \in 0 .. 2 * Size - 1
  PROVE  x % Size = IF x < Size THEN x ELSE x - Size
<1>1. CASE x < Size
  <2>1. x \in 0 .. Size - 1
    BY <1>1, SizeAssumption
  <2>2. x % Size = x
    BY <2>1, Remainder, Zenon
  <2> QED
    BY <1>1, <2>2
<1>2. CASE ~ (x < Size)
  <2>1. PICK y \in 0 .. Size - 1 : x = y + Size
    <3>1. x - Size \in 0 .. Size - 1 /\ x = (x - Size) + Size
      BY <1>2, SizeAssumption
    <3> QED
      BY <3>1, Zenon
  <2>2. (y + Size) % Size = y
    BY Remainder, Zenon
  <2>3. x % Size = y
    BY <2>1, <2>2, Zenon
  <2> QED
    BY <1>2, <2>1, <2>3, SizeAssumption
<1> QED
  BY <1>1, <1>2

LEMMA ContentPut ==
  ASSUME NEW rb \in RingType, NEW new \in RingType, NEW byte \in Bytes,
         Behind(rb) < Size,
         new.pool = [rb.pool EXCEPT ![rb.write_index] = byte],
         WritePos(new) = Step(WritePos(rb)), ReadPos(new) = ReadPos(rb)
  PROVE  Content(new) = Append(Content(rb), byte)
<1> DEFINE n == DataLen(rb)
           r == rb.read_index
           w == rb.write_index
<1>1. r \in 0 .. Size - 1 /\ w \in 0 .. Size - 1 /\ rb.pool \in [0 .. Size - 1 -> Bytes]
  BY Fields
<1>2. /\ n \in 0 .. Size - 1 /\ DataLen(new) = n + 1 /\ new.read_index = r
      /\ w = IF r + n < Size THEN r + n ELSE r + n - Size
  <2>1. /\ n = Behind(rb) /\ Behind(rb) \in 0 .. 2 * Size - 1
        /\ Behind(new) = Behind(rb) + 1
    BY DataLenIs, Positions, SizeAssumption DEF Behind, Dist, Step
  <2>2. DataLen(new) = n + 1
    BY <2>1, DataLenIs, SizeAssumption
  <2> QED
    BY <2>1, <2>2, Positions, SizeAssumption DEF Behind, Dist
<1>3. /\ Content(rb) \in Seq(Bytes) /\ Len(Content(rb)) = n
      /\ \A k \in 1 .. n : Content(rb)[k] = rb.pool[(r + k - 1) % Size]
  BY ContentIsSeq
<1>4. /\ Content(new) \in Seq(Bytes) /\ Len(Content(new)) = n + 1
      /\ \A k \in 1 .. n + 1 : Content(new)[k] = new.pool[(r + k - 1) % Size]
  BY ContentIsSeq, <1>2
<1> HIDE DEF n, r, w
<1>5. ASSUME NEW k \in 1 .. n + 1
      PROVE  /\ (r + k - 1) % Size \in 0 .. Size - 1
             /\ (r + k - 1) % Size = w <=> k = n + 1
  <2> DEFINE x == r + k - 1
  <2>1. x \in 0 .. 2 * Size - 1 /\ x = r + k - 1
    BY <1>1, <1>2, SizeAssumption
  <2> HIDE DEF x
  <2>2. x % Size = IF x < Size THEN x ELSE x - Size
    BY <2>1, Around
  <2>3. /\ x % Size \in 0 .. Size - 1
        /\ x % Size = w <=> k = n + 1
    BY <1>1, <1>2, <2>1, <2>2, SizeAssumption
  <2> QED
    BY <2>3 DEF x
<1>6. \A k \in 1 .. n : Content(new)[k] = Content(rb)[k]
  <2> TAKE k \in 1 .. n
  <2>1. k \in 1 .. n + 1 /\ k # n + 1
    BY <1>2
  <2>2. new.pool[(r + k - 1) % Size] = rb.pool[(r + k - 1) % Size]
    BY <1>1, <1>5, <2>1 DEF w
  <2> QED
    BY <1>3, <1>4, <2>1, <2>2
<1>7. Content(new)[n + 1] = byte
  <2>1. n + 1 \in 1 .. n + 1
    BY <1>2
  <2>2. new.pool[(r + (n + 1) - 1) % Size] = byte
    BY <1>1, <1>5, <2>1 DEF w
  <2> QED
    BY <1>4, <2>1, <2>2
<1> QED
  BY <1>2, <1>3, <1>4, <1>6, <1>7

LEMMA ContentTaken ==
  ASSUME NEW rb \in RingType, NEW new \in RingType,
         Behind(rb) \in 1 .. Size, new.pool = rb.pool,
         WritePos(new) = WritePos(rb), ReadPos(new) = Step(ReadPos(rb))
  PROVE  Content(new) = Tail(Content(rb))
<1> DEFINE n == DataLen(rb)
           r == rb.read_index
           s == new.read_index
<1>1. r \in 0 .. Size - 1 /\ s \in 0 .. Size - 1
  BY Fields
<1>2. /\ n \in 1 .. Size /\ DataLen(new) = n - 1
      /\ s = IF r = Size - 1 THEN 0 ELSE r + 1
  <2>1. /\ n = Behind(rb)
        /\ Behind(new) = Behind(rb) - 1
    BY DataLenIs, Positions, SizeAssumption DEF Behind, Dist, Step
  <2>2. DataLen(new) = n - 1
    BY <2>1, DataLenIs, SizeAssumption
  <2> QED
    BY <2>1, <2>2, Positions, SizeAssumption DEF Step
<1>3. /\ Content(rb) \in Seq(Bytes) /\ Len(Content(rb)) = n
      /\ \A k \in 1 .. n : Content(rb)[k] = rb.pool[(r + k - 1) % Size]
  BY ContentIsSeq
<1>4. /\ Content(new) \in Seq(Bytes) /\ Len(Content(new)) = n - 1
      /\ \A k \in 1 .. n - 1 : Content(new)[k] = rb.pool[(s + k - 1) % Size]
  BY ContentIsSeq, <1>2
<1> HIDE DEF n, r, s
<1>5. ASSUME NEW k \in 1 .. n - 1
      PROVE  (s + k - 1) % Size = (r + (k + 1) - 1) % Size
  <2> DEFINE x == s + k - 1
           y == r + (k + 1) - 1
  <2>1. /\ x \in 0 .. 2 * Size - 1 /\ x = s + k - 1
        /\ y \in 0 .. 2 * Size - 1 /\ y = r + k
    BY <1>1, <1>2, SizeAssumption
  <2> HIDE DEF x, y
  <2>2. x % Size = IF x < Size THEN x ELSE x - Size
    BY <2>1, Around
  <2>3. y % Size = IF y < Size THEN y ELSE y - Size
    BY <2>1, Around
  <2>4. x % Size = y % Size
    BY <1>1, <1>2, <2>1, <2>2, <2>3, SizeAssumption
  <2> QED
    BY <2>4 DEF x, y
<1>6. \A k \in 1 .. n - 1 : Content(new)[k] = Content(rb)[k + 1]
  <2> TAKE k \in 1 .. n - 1
  <2>1. k + 1 \in 1 .. n
    BY <1>2
  <2> QED
    BY <1>3, <1>4, <1>5, <2>1
<1>7. /\ Tail(Content(rb)) \in Seq(Bytes) /\ Len(Tail(Content(rb))) = n - 1
      /\ \A k \in 1 .. n - 1 : Tail(Content(rb))[k] = Content(rb)[k + 1]
  BY <1>2, <1>3
<1> QED
  BY <1>4, <1>6, <1>7

-----------------------------------------------------------------------------
Notices == rx_notice + InHand

RingTypes == /\ fifo \in RingType /\ rx_notice \in Nat /\ overflowed \in BOOLEAN
             /\ at = "advance" => loaded \in RingType

(* No character without a notice, whatever a step of the thread undoes:    *)
(* while it is between finding a character and taking it, the notices also *)
(* cover the ring it has found and what came since.                        *)
NoticesCover ==
  /\ Notices >= Behind(fifo)
  /\ at = "advance" /\ IsEmpty(loaded) => Notices >= Behind(fifo) + 1
  /\ at = "advance" /\ ~IsEmpty(loaded)
     => /\ Notices >= Behind(loaded) + Dist(WritePos(fifo), WritePos(loaded))
        /\ ReadPos(fifo) = ReadPos(loaded) \/ IsFull(fifo)

(* As long as nothing was lost *)
NothingLost ==
  /\ Notices = Behind(fifo) /\ Behind(fifo) <= Size
  /\ Content(fifo) = pending
  /\ at = "advance" => /\ ~IsEmpty(loaded) /\ ReadPos(fifo) = ReadPos(loaded)
                       /\ ch = pending[1]

ConsoleInv == at \in Taking => /\ RingTypes /\ NoticesCover
                               /\ ~overflowed => NothingLost

LEMMA FreshRing == Create \in RingType /\ ReadPos(Create) = 0 /\ WritePos(Create) = 0
BY SizeAssumption DEF Create, RingType, Bytes, ReadPos, WritePos

LEMMA PrepareRing ==
  ASSUME Prepare
  PROVE  ConsoleInv'
<1>1. /\ at' = "take" /\ fifo' = Create /\ rx_notice' = 0
      /\ pending' = <<>> /\ overflowed' = FALSE
  BY DEF Prepare
<1>2. RingTypes'
  BY <1>1, FreshRing DEF RingTypes
<1>3. Notices' = 0
  BY <1>1 DEF Notices, InHand
<1>4. Behind(Create) = 0 /\ DataLen(Create) = 0
  BY FreshRing, DataLenIs, SizeAssumption DEF Behind, Dist
<1>5. Content(Create) = <<>>
  BY FreshRing, ContentIsSeq, <1>4
<1>6. NoticesCover' /\ NothingLost'
  <2> HIDE DEF Create
  <2> QED
    BY <1>1, <1>3, <1>4, <1>5, SizeAssumption DEF NoticesCover, NothingLost
<1> QED
  BY <1>2, <1>6 DEF ConsoleInv

LEMMA InterruptRing ==
  ASSUME ConsoleInv, NEW k \in Keys, Interrupt(k)
  PROVE  ConsoleInv'
<1>1. /\ at \in Taking /\ at' = at /\ loaded' = loaded /\ ch' = ch
      /\ fifo' = Forced(fifo, k) /\ rx_notice' = rx_notice + 1
      /\ overflowed' = (overflowed \/ IsFull(fifo))
      /\ pending' = IF overflowed' THEN <<>> ELSE Append(pending, k)
  BY Zenon DEF Interrupt, Put
<1>2. RingTypes /\ NoticesCover /\ (~overflowed => NothingLost)
  BY <1>1, Zenon DEF ConsoleInv
<1>3. fifo \in RingType /\ rx_notice \in Nat /\ (at = "advance" => loaded \in RingType)
  BY <1>2 DEF RingTypes
<1>4. /\ fifo' \in RingType
      /\ fifo'.pool = [fifo.pool EXCEPT ![fifo.write_index] = k]
      /\ WritePos(fifo') = Step(WritePos(fifo))
      /\ ReadPos(fifo') = IF IsFull(fifo) THEN Step(ReadPos(fifo)) ELSE ReadPos(fifo)
  BY <1>1, <1>3, StepForced, Zenon
<1>5. RingTypes'
  <2>1. overflowed' \in BOOLEAN
    BY <1>1, Zenon
  <2>2. rx_notice' \in Nat
    BY <1>1, <1>3
  <2> QED
    BY <1>1, <1>3, <1>4, <2>1, <2>2, Zenon DEF RingTypes
<1>6. Notices \in Nat /\ Notices' = Notices + 1
  BY <1>1, <1>3 DEF Notices, InHand
<1>7. /\ ReadPos(fifo) \in 0 .. 2 * Size - 1 /\ WritePos(fifo) \in 0 .. 2 * Size - 1
      /\ at = "advance" => /\ ReadPos(loaded) \in 0 .. 2 * Size - 1
                           /\ WritePos(loaded) \in 0 .. 2 * Size - 1
  BY <1>3, Positions
<1>8. /\ IsFull(fifo) <=> Behind(fifo) = Size
      /\ IsFull(fifo') <=> Behind(fifo') = Size
  BY <1>3, <1>4, FullIsSize
<1>9. /\ IsFull(fifo) => Behind(fifo') = Behind(fifo)
      /\ ~IsFull(fifo) => Behind(fifo') <= Behind(fifo) + 1
      /\ Behind(fifo) < Size => Behind(fifo') = Behind(fifo) + 1
  BY <1>4, <1>7, <1>8, SizeAssumption DEF Behind, Dist, Step
<1>10. NoticesCover'
  <2>1. Notices' >= Behind(fifo')
    <3>1. Notices >= Behind(fifo)
      BY <1>2, Zenon DEF NoticesCover
    <3>2. Behind(fifo) \in 0 .. 2 * Size - 1 /\ Behind(fifo') \in 0 .. 2 * Size - 1
      BY <1>3, <1>4, DataLenIs
    <3> QED
      BY <1>6, <1>9, <3>1, <3>2, SizeAssumption
  <2>2. at' = "advance" /\ IsEmpty(loaded') => Notices' >= Behind(fifo') + 1
    <3>1. at = "advance" /\ IsEmpty(loaded) => Notices >= Behind(fifo) + 1
      BY <1>2, Zenon DEF NoticesCover
    <3>2. Behind(fifo) \in 0 .. 2 * Size - 1 /\ Behind(fifo') \in 0 .. 2 * Size - 1
      BY <1>3, <1>4, DataLenIs
    <3> QED
      BY <1>1, <1>6, <1>9, <3>1, <3>2, SizeAssumption
  <2>3. ASSUME at' = "advance", ~IsEmpty(loaded')
        PROVE  /\ Notices' >= Behind(loaded') + Dist(WritePos(fifo'), WritePos(loaded'))
               /\ ReadPos(fifo') = ReadPos(loaded') \/ IsFull(fifo')
    <3>1. /\ at = "advance" /\ loaded' = loaded
          /\ Notices >= Behind(loaded) + Dist(WritePos(fifo), WritePos(loaded))
          /\ ReadPos(fifo) = ReadPos(loaded) \/ IsFull(fifo)
      BY <1>1, <1>2, <2>3, Zenon DEF NoticesCover
    <3>2. Behind(loaded) \in 0 .. 2 * Size - 1
      BY <1>3, <3>1, DataLenIs
    <3>3. Notices' >= Behind(loaded') + Dist(WritePos(fifo'), WritePos(loaded'))
      BY <1>4, <1>6, <1>7, <3>1, <3>2, SizeAssumption DEF Dist, Step
    <3>4. ReadPos(fifo') = ReadPos(loaded') \/ IsFull(fifo')
      BY <1>4, <1>8, <1>9, <3>1
    <3> QED
      BY <3>3, <3>4
  <2> QED
    BY <2>1, <2>2, <2>3, Zenon DEF NoticesCover
<1>11. ASSUME ~overflowed' PROVE NothingLost'
  <2>1. ~overflowed /\ ~IsFull(fifo) /\ pending' = Append(pending, k)
    BY <1>1, <1>11, Zenon
  <2>2. /\ Notices = Behind(fifo) /\ Behind(fifo) <= Size
        /\ Content(fifo) = pending
        /\ at = "advance" => /\ ~IsEmpty(loaded) /\ ReadPos(fifo) = ReadPos(loaded)
                             /\ ch = pending[1]
    BY <1>2, <2>1, Zenon DEF NothingLost
  <2>3. Behind(fifo) \in Nat /\ Behind(fifo) < Size
    BY <1>3, <1>8, <2>1, <2>2, DataLenIs, SizeAssumption
  <2>4. Notices' = Behind(fifo') /\ Behind(fifo') <= Size
    BY <1>6, <1>9, <2>2, <2>3, SizeAssumption
  <2>5. Content(fifo') = pending'
    <3>1. k \in Bytes
      BY DEF Bytes
    <3>2. ReadPos(fifo') = ReadPos(fifo)
      BY <1>4, <2>1, Zenon
    <3> QED
      BY <1>3, <1>4, <2>1, <2>2, <2>3, <3>1, <3>2, ContentPut, Zenon
  <2>6. ASSUME at' = "advance"
        PROVE  ~IsEmpty(loaded') /\ ReadPos(fifo') = ReadPos(loaded') /\ ch' = pending'[1]
    <3>1. ~IsEmpty(loaded') /\ ReadPos(fifo') = ReadPos(loaded')
      BY <1>1, <1>4, <2>1, <2>2, <2>6, Zenon
    <3>2. Notices >= 1
      BY <1>1, <1>3, <2>6 DEF Notices, InHand
    <3>3. pending \in Seq(Bytes) /\ Len(pending) >= 1
      BY <1>3, <2>2, <3>2, ContentIsSeq, DataLenIs
    <3>4. pending'[1] = pending[1]
      BY <2>1, <3>3
    <3> QED
      BY <1>1, <2>2, <2>6, <3>1, <3>4, Zenon
  <2> QED
    BY <2>4, <2>5, <2>6, Zenon DEF NothingLost
<1> QED
  BY <1>5, <1>10, <1>11, Zenon DEF ConsoleInv

LEMMA TakeRing ==
  ASSUME ConsoleInv, Take
  PROVE  ConsoleInv'
<1>1. /\ at = "take" /\ at' = "look" /\ rx_notice > 0 /\ rx_notice' = rx_notice - 1
      /\ fifo' = fifo /\ pending' = pending /\ overflowed' = overflowed
  BY DEF Take
<1>2. RingTypes /\ NoticesCover /\ (~overflowed => NothingLost)
  BY <1>1 DEF ConsoleInv, Taking
<1>3. rx_notice \in Nat /\ fifo \in RingType /\ overflowed \in BOOLEAN
  BY <1>2 DEF RingTypes
<1>4. RingTypes'
  BY <1>1, <1>3 DEF RingTypes
<1>5. Notices' = Notices
  BY <1>1, <1>3 DEF Notices, InHand
<1>6. NoticesCover'
  BY <1>1, <1>2, <1>5 DEF NoticesCover
<1>7. ~overflowed' => NothingLost'
  BY <1>1, <1>2, <1>5 DEF NothingLost
<1> QED
  BY <1>4, <1>6, <1>7 DEF ConsoleInv

LEMMA LookRing ==
  ASSUME ConsoleInv, Look
  PROVE  ConsoleInv'
<1>1. /\ at = "look" /\ at' = "advance" /\ loaded' = fifo
      /\ rx_notice' = rx_notice /\ fifo' = fifo /\ pending' = pending
      /\ overflowed' = overflowed
      /\ ~IsEmpty(fifo) => ch' = Content(fifo)[1]
  BY DEF Look, ring
<1>2. RingTypes /\ NoticesCover /\ (~overflowed => NothingLost)
  BY <1>1 DEF ConsoleInv, Taking
<1>3. rx_notice \in Nat /\ fifo \in RingType /\ overflowed \in BOOLEAN
  BY <1>2 DEF RingTypes
<1>4. RingTypes'
  BY <1>1, <1>3 DEF RingTypes
<1>5. Notices' = Notices /\ Notices >= 1
  BY <1>1, <1>3 DEF Notices, InHand
<1>6. IsEmpty(fifo) => Behind(fifo) = 0
  BY <1>3, EmptyMeets, Positions DEF Behind, Dist
<1>7. Dist(WritePos(fifo), WritePos(fifo)) = 0 /\ Behind(fifo) + 0 = Behind(fifo)
  BY <1>3, Positions, DataLenIs DEF Dist
<1>8. NoticesCover'
  BY <1>1, <1>2, <1>5, <1>6, <1>7 DEF NoticesCover
<1>9. ASSUME ~overflowed' PROVE NothingLost'
  <2>1. NothingLost
    BY <1>1, <1>2, <1>9
  <2>2. ~IsEmpty(fifo)
    BY <1>5, <1>6, <2>1 DEF NothingLost
  <2> QED
    BY <1>1, <1>5, <2>1, <2>2 DEF NothingLost
<1> QED
  BY <1>4, <1>8, <1>9 DEF ConsoleInv

(* The thread takes from a ring it found at read position r and write      *)
(* position lw, and the interrupt has moved the write position to w.       *)
LEMMA TakeFound ==
  ASSUME NEW r \in 0 .. 2 * Size - 1, NEW lw \in 0 .. 2 * Size - 1,
         NEW w \in 0 .. 2 * Size - 1, NEW n \in Nat,
         lw # r, n >= Dist(lw, r) + Dist(w, lw)
  PROVE  n - 1 >= Dist(w, Step(r))
BY SizeAssumption DEF Dist, Step

LEMMA HandleRing ==
  ASSUME ConsoleInv, Handle
  PROVE  ConsoleInv'
<1>1. /\ at = "advance" /\ Advance /\ at' \in {"take", "outside"}
      /\ pending' = IF overflowed THEN <<>> ELSE Tail(pending)
      /\ rx_notice' = rx_notice /\ overflowed' = overflowed
  BY DEF Handle, Escape, Back, Return, Character, Overrun
<1>2. RingTypes /\ NoticesCover /\ (~overflowed => NothingLost)
  BY <1>1 DEF ConsoleInv, Taking
<1>3. rx_notice \in Nat /\ fifo \in RingType /\ overflowed \in BOOLEAN /\ loaded \in RingType
  BY <1>1, <1>2 DEF RingTypes
<1>4. Notices \in Nat /\ Notices' = Notices - 1
  BY <1>1, <1>3 DEF Notices, InHand
<1>5. CASE IsEmpty(loaded)
  <2>1. fifo' = fifo
    BY <1>1, <1>5 DEF Advance
  <2>2. overflowed
    BY <1>1, <1>2, <1>5 DEF NothingLost
  <2>3. RingTypes'
    BY <1>1, <1>3, <2>1 DEF RingTypes
  <2>4. Behind(fifo) \in Nat
    BY <1>3, DataLenIs
  <2>5. Notices >= Behind(fifo) + 1
    BY <1>1, <1>2, <1>5 DEF NoticesCover
  <2>6. NoticesCover'
    BY <1>1, <1>4, <2>1, <2>4, <2>5 DEF NoticesCover
  <2> QED
    BY <1>1, <2>2, <2>3, <2>6 DEF ConsoleInv
<1>6. CASE ~IsEmpty(loaded)
  <2>1. PICK from \in {fifo, loaded} :
           fifo' = [fifo EXCEPT !.read_index = Taken(from, 1).read_index,
                                !.read_mirror = Taken(from, 1).read_mirror]
    BY <1>1, <1>6, Zenon DEF Advance
  <2>2. /\ fifo' \in RingType /\ fifo'.pool = fifo.pool
        /\ ReadPos(fifo') = Step(ReadPos(from)) /\ WritePos(fifo') = WritePos(fifo)
    <3>1. from \in RingType
      BY <1>3
    <3> QED
      BY <1>3, <2>1, <3>1, StepTaken, Zenon
  <2>3. RingTypes'
    BY <1>1, <1>3, <2>2 DEF RingTypes
  <2>4. /\ ReadPos(fifo) \in 0 .. 2 * Size - 1 /\ WritePos(fifo) \in 0 .. 2 * Size - 1
        /\ ReadPos(loaded) \in 0 .. 2 * Size - 1 /\ WritePos(loaded) \in 0 .. 2 * Size - 1
        /\ WritePos(loaded) # ReadPos(loaded)
        /\ IsFull(fifo) => Behind(fifo) = Size
    BY <1>3, <1>6, Positions, EmptyMeets, FullIsSize
  <2>5. /\ Notices >= Behind(fifo)
        /\ Notices >= Behind(loaded) + Dist(WritePos(fifo), WritePos(loaded))
        /\ ReadPos(fifo) = ReadPos(loaded) \/ IsFull(fifo)
    BY <1>1, <1>2, <1>6 DEF NoticesCover
  <2>6. Notices' >= Behind(fifo')
    <3>1. CASE ReadPos(from) = ReadPos(loaded)
      <4>1. Notices >= Dist(WritePos(loaded), ReadPos(loaded))
                       + Dist(WritePos(fifo), WritePos(loaded))
        BY <2>5, Zenon DEF Behind
      <4>2. Notices - 1 >= Dist(WritePos(fifo), Step(ReadPos(loaded)))
        BY <1>4, <2>4, <4>1, TakeFound
      <4>3. Behind(fifo') = Dist(WritePos(fifo), Step(ReadPos(loaded)))
        BY <2>2, <3>1, Zenon DEF Behind
      <4> QED
        BY <1>4, <4>2, <4>3
    <3>2. CASE ReadPos(from) = ReadPos(fifo) /\ IsFull(fifo)
      BY <1>4, <2>2, <2>4, <2>5, <3>2, SizeAssumption DEF Behind, Dist, Step
    <3> QED
      BY <2>5, <3>1, <3>2
  <2>7. NoticesCover'
    BY <1>1, <2>6 DEF NoticesCover
  <2>8. ASSUME ~overflowed' PROVE NothingLost'
    <3>1. NothingLost /\ pending' = Tail(pending)
      BY <1>1, <1>2, <2>8
    <3>2. /\ Notices = Behind(fifo) /\ Behind(fifo) <= Size /\ Content(fifo) = pending
          /\ ReadPos(from) = ReadPos(fifo)
      BY <1>1, <3>1 DEF NothingLost
    <3>3. Behind(fifo) \in 1 .. Size
      <4>1. Notices >= 1
        BY <1>1, <1>3 DEF Notices, InHand
      <4> QED
        BY <1>4, <3>2, <4>1, SizeAssumption
    <3>4. Behind(fifo') = Behind(fifo) - 1
      BY <2>2, <2>4, <3>2, <3>3, SizeAssumption DEF Behind, Dist, Step
    <3>5. Content(fifo') = pending'
      BY <1>3, <2>2, <3>1, <3>2, <3>3, ContentTaken, Zenon
    <3>6. Notices' = Behind(fifo') /\ Behind(fifo') <= Size
      BY <1>4, <3>2, <3>3, <3>4, SizeAssumption
    <3> QED
      BY <1>1, <3>5, <3>6 DEF NothingLost
  <2> QED
    BY <2>3, <2>7, <2>8 DEF ConsoleInv
<1> QED
  BY <1>5, <1>6

LEMMA NextRing == ConsoleInv /\ [Next]_vars => ConsoleInv'
<1> SUFFICES ASSUME ConsoleInv, [Next]_vars
             PROVE  ConsoleInv'
  OBVIOUS
<1>1. CASE UNCHANGED vars
  <2>1. /\ at' = at /\ fifo' = fifo /\ rx_notice' = rx_notice /\ overflowed' = overflowed
        /\ loaded' = loaded /\ ch' = ch /\ pending' = pending
    BY <1>1 DEF vars, ring
  <2> QED
    BY <2>1, Zenon DEF ConsoleInv, RingTypes, NoticesCover, NothingLost, Notices, InHand
<1>2. CASE Hook \/ EarlyInterrupt
  <2>1. at' = "hooked"
    BY <1>2 DEF Hook, EarlyInterrupt
  <2> QED
    BY <2>1 DEF ConsoleInv, Taking
<1> QED
  BY <1>1, <1>2, PrepareRing, TakeRing, LookRing, HandleRing, InterruptRing, Zenon
     DEF Next, Thread

LEMMA RingIsKept == Spec => []ConsoleInv
<1>1. Init => ConsoleInv
  BY DEF Init, ConsoleInv, Taking
<1> QED
  BY <1>1, NextRing, PTL DEF Spec

(* As long as no character was lost, the semaphore counts those in the     *)
(* ring, wherever the interrupt comes in console_getchar                   *)
(* (device_config.c:33 and 47).                                            *)
THEOREM NoticesAreExact == Spec => []CountsAgree
<1>1. ConsoleInv => CountsAgree
  <2> SUFFICES ASSUME ConsoleInv, at \in Taking, ~overflowed
               PROVE  rx_notice + InHand = DataLen(fifo)
    BY DEF CountsAgree
  <2>1. fifo \in RingType /\ Notices = Behind(fifo) /\ Behind(fifo) <= Size
    BY DEF ConsoleInv, RingTypes, NothingLost
  <2> QED
    BY <2>1, DataLenIs DEF Notices
<1> QED
  BY <1>1, RingIsKept, PTL

(* Whatever was lost to a full ring, and whatever index the thread put     *)
(* back, no character lies in the ring without a notice (ringbuffer.c,     *)
(* device_config.c:33-56).                                                 *)
THEOREM NoKeyBehind == Spec => []NeverBehind
<1>1. ConsoleInv => NeverBehind
  <2> SUFFICES ASSUME ConsoleInv, at \in Taking
               PROVE  rx_notice + InHand >= DataLen(fifo)
    BY DEF NeverBehind
  <2>1. fifo \in RingType /\ Notices >= Behind(fifo) /\ Notices \in Nat
    BY DEF ConsoleInv, RingTypes, NoticesCover, Notices, InHand
  <2>2. /\ Behind(fifo) \in Nat
        /\ DataLen(fifo) \in Nat /\ DataLen(fifo) <= Behind(fifo)
    BY <2>1, DataLenIs, SizeAssumption
  <2> QED
    BY <2>1, <2>2 DEF Notices
<1> QED
  BY <1>1, RingIsKept, PTL

(* As long as none was lost, the session handles the characters typed,     *)
(* each once and in order, with the interrupt anywhere in between          *)
(* (device_config.c:40-56, ringbuffer.c).                                  *)
THEOREM KeysAreTyped == Spec => []AsTyped
<1>1. ConsoleInv => AsTyped
  BY DEF ConsoleInv, NothingLost, AsTyped
<1> QED
  BY <1>1, RingIsKept, PTL

-----------------------------------------------------------------------------
(* What is saved *)

Entry == [key : Characters, in : Nat, typed : BOOLEAN]

FromDialog(s) == \A m \in DOMAIN s : s[m].in = dialog /\ (s[m].typed \/ overflowed)

DialogInv == /\ dialog \in Nat /\ cur_line \in Seq(Entry)
             /\ cur_cmd # CMD_NULL => FromDialog(cur_line)
             /\ cur_cmd \in Pairs /\ cur_lvl = 2 => FromDialog(config_temp)
             /\ \A i \in DOMAIN saved : FromDialog(saved[i])
             /\ at = "hooked" => cur_cmd = CMD_NULL /\ saved = <<>>

LEMMA EmptyIsTyped == FromDialog(<<>>)
BY DEF FromDialog

(* Steps outside the loop of config_init, and of the interrupt *)
LEMMA EditorStays ==
  ASSUME DialogInv, UNCHANGED editor, overflowed => overflowed',
         at' = "hooked" => at = "hooked"
  PROVE  DialogInv'
<1>1. UNCHANGED <<cur_cmd, cur_lvl, config_temp, cur_line, saved, dialog>>
  BY DEF editor
<1> QED
  BY <1>1, Zenon DEF DialogInv, FromDialog

LEMMA SessionStarts ==
  ASSUME DialogInv, Hook \/ Prepare
  PROVE  DialogInv'
<1>1. /\ cur_cmd' = CMD_NULL /\ saved' = <<>> /\ dialog' = dialog
      /\ cur_line' \in {<<>>, cur_line}
  BY DEF Hook, Prepare, editor, DialogInv
<1>2. cur_cmd' \notin Pairs
  BY <1>1 DEF CMD_NULL, Pairs
<1>3. dialog' \in Nat /\ cur_line' \in Seq(Entry)
  <2>1. dialog \in Nat /\ cur_line \in Seq(Entry) /\ <<>> \in Seq(Entry)
    BY DEF DialogInv
  <2> QED
    BY <1>1, <2>1, Zenon
<1>4. \A i \in DOMAIN saved' : FromDialog(saved[i])'
  BY <1>1
<1> QED
  BY <1>1, <1>2, <1>3, <1>4, Zenon DEF DialogInv

(* The keys that edit: a line gets characters of this dialog, or loses them. *)
LEMMA EditStep ==
  ASSUME DialogInv, Escape \/ Back \/ Character, overflowed' = overflowed,
         ~IsEmpty(loaded) \/ overflowed
  PROVE  DialogInv'
<1>1. saved' = <<>> /\ at' # "hooked" /\ UNCHANGED <<cur_lvl, config_temp, dialog>>
  BY DEF Escape, Back, Character, Same
<1>2. cur_cmd' \in {cur_cmd, CMD_NULL}
  BY DEF Escape, Back, Character, Same
<1>3. CASE cur_line' = cur_line
  <2>1. cur_cmd' # CMD_NULL => FromDialog(cur_line)'
    BY <1>1, <1>2, <1>3 DEF DialogInv, FromDialog
  <2>2. cur_cmd' \in Pairs /\ cur_lvl' = 2 => FromDialog(config_temp)'
    BY <1>1, <1>2 DEF DialogInv, FromDialog, CMD_NULL, Pairs
  <2> QED
    BY <1>1, <1>3, <2>1, <2>2 DEF DialogInv
<1>4. CASE cur_line' # cur_line
  <2>1. /\ cur_cmd' = cur_cmd
        /\ \/ cur_line' = <<>>
           \/ cur_line' = SubSeq(cur_line, 1, Len(cur_line) - 1)
           \/ /\ ch \in Characters
              /\ cur_line' = Append(cur_line, [key |-> ch, in |-> dialog,
                                               typed |-> ~IsEmpty(loaded)])
    BY <1>4 DEF Escape, Back, Character, Same
  <2>2. cur_line \in Seq(Entry) /\ Len(cur_line) \in Nat /\ dialog \in Nat
    BY DEF DialogInv
  <2>3. ASSUME cur_cmd # CMD_NULL
        PROVE  \A m \in 1..Len(cur_line) :
                  cur_line[m].in = dialog /\ (cur_line[m].typed \/ overflowed)
    BY <2>2, <2>3 DEF DialogInv, FromDialog
  <2>4. cur_line' \in Seq(Entry) /\ (cur_cmd' # CMD_NULL => FromDialog(cur_line)')
    <3>1. CASE cur_line' = <<>>
      BY <3>1 DEF FromDialog
    <3>2. CASE cur_line' = SubSeq(cur_line, 1, Len(cur_line) - 1)
      <4>1. /\ cur_line' \in Seq(Entry)
            /\ \A m \in DOMAIN cur_line' : m \in 1..Len(cur_line) /\ cur_line'[m] = cur_line[m]
        BY <2>2, <3>2
      <4> QED
        BY <1>1, <2>1, <2>3, <4>1 DEF FromDialog
    <3>3. CASE /\ ch \in Characters
               /\ cur_line' = Append(cur_line, [key |-> ch, in |-> dialog,
                                               typed |-> ~IsEmpty(loaded)])
      <4> DEFINE e == [key |-> ch, in |-> dialog, typed |-> ~IsEmpty(loaded)]
      <4>1. e \in Entry /\ e.in = dialog /\ (e.typed \/ overflowed)
        BY <2>2, <3>3 DEF Entry
      <4> HIDE DEF e
      <4>2. cur_line' = Append(cur_line, e)
        BY <3>3 DEF e
      <4>3. /\ cur_line' \in Seq(Entry)
            /\ \A m \in DOMAIN cur_line' :
                  (m \in 1..Len(cur_line) /\ cur_line'[m] = cur_line[m]) \/ cur_line'[m] = e
        BY <2>2, <4>1, <4>2
      <4> QED
        BY <1>1, <2>1, <2>3, <4>1, <4>3 DEF FromDialog
    <3> QED
      BY <2>1, <3>1, <3>2, <3>3
  <2>5. cur_cmd' \in Pairs /\ cur_lvl' = 2 => FromDialog(config_temp)'
    BY <1>1, <2>1, Zenon DEF DialogInv, FromDialog
  <2> QED
    BY <1>1, <2>2, <2>4, <2>5 DEF DialogInv
<1> QED
  BY <1>3, <1>4

(* Return: the line is handled and cleared. *)
LEMMA ReturnStep ==
  ASSUME DialogInv, Return, overflowed' = overflowed
  PROVE  DialogInv'
<1>1. cur_line' = <<>> /\ at' # "hooked" /\ (cmd_handle \/ Same)
  BY DEF Return
<1>2. dialog' \in Nat
  BY <1>1 DEF DialogInv, cmd_handle, Same, Choose, Name, Password, Mac
<1>3. cur_cmd' \in Pairs /\ cur_lvl' = 2 => FromDialog(config_temp)'
  <2>1. CASE Choose
    <3>1. \/ cur_lvl' = 1
          \/ cur_cmd' = CMD_NULL
      BY <2>1 DEF Choose
    <3> QED
      BY <3>1 DEF CMD_NULL, Pairs
  <2>2. CASE Name
    <3>1. FromDialog(cur_line)
      BY <2>2 DEF Name, DialogInv, CMD_NULL, Pairs
    <3> QED
      BY <2>2, <3>1, Zenon DEF Name, FromDialog
  <2>3. CASE Password
    BY <2>3 DEF Password
  <2>4. CASE Mac
    BY <2>4 DEF Mac, MAC_CMD, CMD_NULL, Pairs
  <2>5. CASE Same
    BY <2>5, Zenon DEF Same, DialogInv, FromDialog
  <2> QED
    BY <1>1, <2>1, <2>2, <2>3, <2>4, <2>5 DEF cmd_handle
<1>4. \A i \in DOMAIN saved' : FromDialog(saved[i])'
  <2>1. CASE saved' = <<>>
    BY <2>1
  <2>2. CASE Password
    <3>1. FromDialog(cur_line) /\ FromDialog(config_temp)
      BY <2>2 DEF Password, DialogInv, CMD_NULL, Pairs
    <3>2. saved' = <<config_temp, cur_line>> /\ dialog' = dialog
      BY <2>2 DEF Password
    <3>3. \A i \in DOMAIN saved' : saved'[i] = config_temp \/ saved'[i] = cur_line
      BY <3>2
    <3> QED
      BY <3>1, <3>2, <3>3, Zenon DEF FromDialog
  <2>3. CASE Mac /\ saved' = <<cur_line>>
    <3>1. FromDialog(cur_line)
      BY <2>3 DEF Mac, DialogInv, MAC_CMD, CMD_NULL
    <3>2. dialog' = dialog /\ \A i \in DOMAIN saved' : saved'[i] = cur_line
      BY <2>3 DEF Mac
    <3> QED
      BY <3>1, <3>2, Zenon DEF FromDialog
  <2> QED
    BY <1>1, <2>1, <2>2, <2>3 DEF cmd_handle, Same, Choose, Name, Mac
<1>5. FromDialog(<<>>)'
  BY DEF FromDialog
<1> QED
  BY <1>1, <1>2, <1>3, <1>4, <1>5 DEF DialogInv

(* Every key of a setting that is saved was handled after the setting's    *)
(* command was chosen, name and password in one dialog, whatever ESC left  *)
(* of a line and whatever the ring lost; and somebody typed it, as long as *)
(* the ring lost nothing (device_config.c:28-36, 189-262).                 *)
THEOREM SavesWereTyped == Spec => []SavesAreTyped
<1>1. Init => DialogInv
  BY DEF Init, DialogInv, FromDialog, CMD_NULL, Pairs
<1>2. ConsoleInv /\ DialogInv /\ [Next]_vars => DialogInv'
  <2> SUFFICES ASSUME ConsoleInv, DialogInv, [Next]_vars
               PROVE  DialogInv'
    OBVIOUS
  <2>1. CASE UNCHANGED vars
    BY <2>1, EditorStays DEF vars, ring
  <2>2. CASE Take \/ Look \/ EarlyInterrupt
    <3>1. /\ UNCHANGED editor /\ overflowed' = overflowed
          /\ at' = "hooked" => at = "hooked"
      BY <2>2 DEF Take, Look, EarlyInterrupt, ring
    <3> QED
      BY <3>1, EditorStays
  <2>3. ASSUME NEW k \in Keys, Interrupt(k) PROVE DialogInv'
    BY <2>3, EditorStays DEF Interrupt
  <2>4. CASE Hook \/ Prepare
    BY <2>4, SessionStarts
  <2>5. CASE Handle
    <3>1. at = "advance" /\ overflowed' = overflowed
      BY <2>5 DEF Handle
    <3>2. ~IsEmpty(loaded) \/ overflowed
      BY <3>1 DEF ConsoleInv, NothingLost, Taking
    <3>3. CASE Overrun
      <4>1. at' = "take" /\ saved' = <<>>
            /\ UNCHANGED <<cur_cmd, cur_lvl, config_temp, cur_line, dialog>>
        BY <3>3 DEF Overrun, Same
      <4>2. \A i \in DOMAIN saved' : FromDialog(saved[i])'
        BY <4>1
      <4>3. at' # "hooked"
        BY <4>1
      <4> QED
        BY <3>1, <4>1, <4>2, <4>3, Zenon DEF DialogInv, FromDialog
    <3> QED
      BY <2>5, <3>1, <3>2, <3>3, EditStep, ReturnStep DEF Handle
  <2> QED
    BY <2>1, <2>2, <2>3, <2>4, <2>5 DEF Next, Thread
<1>3. DialogInv => SavesAreTyped
  BY DEF DialogInv, FromDialog, SavesAreTyped
<1> QED
  BY <1>1, <1>2, <1>3, RingIsKept, PTL DEF Spec
=============================================================================
