---------------------------- MODULE SelectProofs ----------------------------
(***************************************************************************)
(* What the worker of the MQTT client waits for: the pipe (Pipe), for any  *)
(* size of the pipe and any number of writers and lengths of messages, and *)
(* the time (KeepAlive), for any interval of more than ten seconds.        *)
(*                                                                         *)
(* The pipe loses no byte, cuts a message only where it is full, and loses *)
(* no wakeup.  In the middle of a put the ring buffer is not sound: its    *)
(* mirror is flipped and its index is still the old one.  So the invariant *)
(* speaks of Settled, the ring as it is once the running put has assigned  *)
(* the index, and of Amount, the bytes in it then.  A put appends to the   *)
(* bytes of Settled, whatever wraps around; a read takes them all; nothing *)
(* else changes them.                                                      *)
(***************************************************************************)
EXTENDS Pipe, KeepAlive, SequenceTheorems, TLAPS

(***************************************************************************)
(* The ring buffer.  The mirror bits count as a second turn, so that both  *)
(* ends are positions on a circle of 2 * Size, where the writer is between *)
(* 0 and Size positions ahead of the reader.                               *)
(***************************************************************************)
Bytes == (Writers \X Nat) \cup {Blank}
RingType == [pool : [0 .. Size - 1 -> Bytes],
             read_index : 0 .. Size - 1, read_mirror : BOOLEAN,
             write_index : 0 .. Size - 1, write_mirror : BOOLEAN]

ReadPos(rb) == IF rb.read_mirror THEN rb.read_index + Size ELSE rb.read_index
WritePos(rb) == IF rb.write_mirror THEN rb.write_index + Size
                ELSE rb.write_index
Ahead(p, n) == IF p + n < 2 * Size THEN p + n ELSE p + n - 2 * Size
Dist(a, b) == IF a >= b THEN a - b ELSE a - b + 2 * Size
Behind(rb) == Dist(WritePos(rb), ReadPos(rb))

(* Indices that wrap around *)
LEMMA Remainder ==
  ASSUME NEW x \in 0 .. Size - 1
  PROVE  x % Size = x /\ (x + Size) % Size = x /\ (x - Size) % Size = x
BY SizeAssumption

LEMMA Around ==
  ASSUME NEW x \in 0 .. 2 * Size - 1
  PROVE  x % Size = IF x < Size THEN x ELSE x - Size
<1>1. CASE x < Size
  <2>1. x \in 0 .. Size - 1
    BY <1>1, SizeAssumption
  <2>2. x % Size = x
    BY <2>1, Remainder, Zenon
  <2> QED
    BY <1>1, <2>2
<1>2. CASE ~ (x < Size)
  <2>1. PICK y \in 0 .. Size - 1 : x = y + Size
    <3>1. x - Size \in 0 .. Size - 1 /\ x = (x - Size) + Size
      BY <1>2, SizeAssumption
    <3> QED
      BY <3>1, Zenon
  <2>2. (y + Size) % Size = y
    BY Remainder, Zenon
  <2>3. x % Size = y
    BY <2>1, <2>2, Zenon
  <2> QED
    BY <1>2, <2>1, <2>3, SizeAssumption
<1> QED
  BY <1>1, <1>2

LEMMA Offset ==
  ASSUME NEW i \in 0 .. Size - 1, NEW w \in 0 .. Size - 1
  PROVE  (i - w) % Size = IF i >= w THEN i - w ELSE i - w + Size
<1>1. CASE i >= w
  <2> DEFINE x == i - w
  <2>1. x \in 0 .. Size - 1
    BY <1>1, SizeAssumption
  <2> HIDE DEF x
  <2>2. x % Size = x
    BY <2>1, Remainder, Zenon
  <2> QED
    BY <1>1, <2>2 DEF x
<1>2. CASE ~ (i >= w)
  <2> DEFINE x == i - w + Size
  <2>1. x \in 0 .. Size - 1 /\ x - Size = i - w
    BY <1>2, SizeAssumption
  <2> HIDE DEF x
  <2>2. (x - Size) % Size = x
    BY <2>1, Remainder, Zenon
  <2>3. (i - w) % Size = x
    BY <2>1, <2>2, Zenon
  <2> QED
    BY <1>2, <2>3 DEF x
<1> QED
  BY <1>1, <1>2

(* A ring, its ends and what a reader finds *)
LEMMA Fields ==
  ASSUME NEW rb \in RingType
  PROVE  /\ rb.pool \in [0 .. Size - 1 -> Bytes]
         /\ rb.read_index \in 0 .. Size - 1 /\ rb.write_index \in 0 .. Size - 1
         /\ rb.read_mirror \in BOOLEAN /\ rb.write_mirror \in BOOLEAN
BY Zenon DEF RingType

LEMMA Positions ==
  ASSUME NEW rb \in RingType
  PROVE  /\ ReadPos(rb) \in 0 .. 2 * Size - 1
         /\ WritePos(rb) \in 0 .. 2 * Size - 1
         /\ rb.read_index = IF ReadPos(rb) < Size THEN ReadPos(rb)
                            ELSE ReadPos(rb) - Size
         /\ rb.write_index = IF WritePos(rb) < Size THEN WritePos(rb)
                             ELSE WritePos(rb) - Size
<1>1. /\ rb.read_index \in 0 .. Size - 1 /\ rb.write_index \in 0 .. Size - 1
  BY Fields
<1> QED
  BY <1>1, SizeAssumption DEF ReadPos, WritePos

LEMMA DataLenIs ==
  ASSUME NEW rb \in RingType
  PROVE  /\ Behind(rb) \in 0 .. 2 * Size - 1
         /\ Ring!DataLen(rb) \in 0 .. Size
         /\ Behind(rb) <= Size => Ring!DataLen(rb) = Behind(rb)
<1>1. /\ rb.read_index \in 0 .. Size - 1 /\ rb.write_index \in 0 .. Size - 1
      /\ rb.read_mirror \in BOOLEAN /\ rb.write_mirror \in BOOLEAN
  BY Fields
<1>2. Ring!IsEmpty(rb) <=> WritePos(rb) = ReadPos(rb)
  BY <1>1, SizeAssumption DEF ReadPos, WritePos, Ring!IsEmpty
<1>3. Behind(rb) \in 0 .. 2 * Size - 1
  BY Positions, SizeAssumption DEF Behind, Dist
<1>4. Ring!DataLen(rb) \in 0 .. Size
  BY <1>1, SizeAssumption DEF Ring!DataLen, Ring!IsEmpty
<1>5. ASSUME Behind(rb) <= Size PROVE Ring!DataLen(rb) = Behind(rb)
  <2>1. CASE WritePos(rb) = ReadPos(rb)
    BY <2>1, <1>2, Positions, SizeAssumption DEF Ring!DataLen, Behind, Dist
  <2>2. CASE WritePos(rb) # ReadPos(rb)
    <3>1. Ring!DataLen(rb) = IF rb.write_index > rb.read_index
                             THEN rb.write_index - rb.read_index
                             ELSE Size - (rb.read_index - rb.write_index)
      BY <2>2, <1>2 DEF Ring!DataLen
    <3> QED
      BY <3>1, <2>2, <1>5, Positions, SizeAssumption DEF Behind, Dist
  <2> QED
    BY <2>1, <2>2
<1> QED
  BY <1>3, <1>4, <1>5

LEMMA ContentIsSeq ==
  ASSUME NEW rb \in RingType
  PROVE  /\ Ring!Content(rb) \in Seq(Bytes)
         /\ Len(Ring!Content(rb)) = Ring!DataLen(rb)
         /\ Ring!DataLen(rb) \in 0 .. Size
         /\ \A k \in 1 .. Ring!DataLen(rb) :
               /\ rb.read_index + k - 1 \in 0 .. 2 * Size - 1
               /\ Ring!Content(rb)[k] = rb.pool[(rb.read_index + k - 1) % Size]
<1> DEFINE n == Ring!DataLen(rb)
           slot(k) == (rb.read_index + k - 1) % Size
<1>1. n \in 0 .. Size
  BY DataLenIs, SizeAssumption
<1>2. rb.read_index \in 0 .. Size - 1 /\ rb.pool \in [0 .. Size - 1 -> Bytes]
  BY Fields
<1> HIDE DEF n
<1>3. \A k \in 1 .. n : rb.read_index + k - 1 \in 0 .. 2 * Size - 1
  BY <1>1, <1>2, SizeAssumption
<1>4. \A k \in 1 .. n : slot(k) \in 0 .. Size - 1
  BY <1>1, <1>2, SizeAssumption
<1>5. Ring!Content(rb) = [k \in 1 .. n |-> rb.pool[slot(k)]]
  BY DEF Ring!Content, n
<1> HIDE DEF slot
<1>6. \A k \in 1 .. n : rb.pool[slot(k)] \in Bytes
  BY <1>2, <1>4
<1>7. Ring!Content(rb) \in Seq(Bytes) /\ Len(Ring!Content(rb)) = n
  BY <1>1, <1>5, <1>6
<1>8. \A k \in 1 .. n : Ring!Content(rb)[k] = rb.pool[slot(k)]
  BY <1>5
<1> QED
  BY <1>1, <1>3, <1>7, <1>8 DEF n, slot

LEMMA CreateIsEmpty ==
  /\ Ring!Create \in RingType
  /\ Ring!DataLen(Ring!Create) = 0
  /\ Behind(Ring!Create) = 0
<1>1. Ring!Create \in RingType
  <2>1. [i \in 0 .. Size - 1 |-> Blank] \in [0 .. Size - 1 -> Bytes]
    BY DEF Bytes
  <2> QED
    BY <2>1, SizeAssumption DEF Ring!Create, RingType
<1>2. Behind(Ring!Create) = 0
  BY SizeAssumption DEF Ring!Create, Behind, Dist, ReadPos, WritePos
<1> QED
  BY <1>1, <1>2, DataLenIs, SizeAssumption

(* rt_ringbuffer_put, up to the index, with it, and what it adds *)
LEMMA CopiedIs ==
  ASSUME NEW rb \in RingType, NEW s \in Seq(Bytes)
  PROVE  LET new == Ring!Copied(rb, s)
         IN  /\ new \in RingType
             /\ new.read_index = rb.read_index
             /\ new.read_mirror = rb.read_mirror
             /\ new.write_index = rb.write_index
             /\ new.write_mirror = IF Ring!Wraps(rb.write_index, Len(s))
                                   THEN ~rb.write_mirror ELSE rb.write_mirror
             /\ \A i \in 0 .. Size - 1 :
                   new.pool[i] = IF (i - rb.write_index) % Size < Len(s)
                                 THEN s[((i - rb.write_index) % Size) + 1]
                                 ELSE rb.pool[i]
<1> DEFINE w == rb.write_index
           slot(i) == IF (i - w) % Size < Len(s) THEN s[((i - w) % Size) + 1]
                      ELSE rb.pool[i]
           pool == [i \in 0 .. Size - 1 |-> slot(i)]
           wm == IF Ring!Wraps(w, Len(s)) THEN ~rb.write_mirror
                 ELSE rb.write_mirror
           new == [rb EXCEPT !.pool = pool, !.write_mirror = wm]
<1>1. /\ rb.pool \in [0 .. Size - 1 -> Bytes]
      /\ rb.read_index \in 0 .. Size - 1 /\ w \in 0 .. Size - 1
      /\ rb.read_mirror \in BOOLEAN /\ rb.write_mirror \in BOOLEAN
  BY Fields
<1>2. \A i \in 0 .. Size - 1 : slot(i) \in Bytes
  <2> SUFFICES ASSUME NEW i \in 0 .. Size - 1 PROVE slot(i) \in Bytes
    OBVIOUS
  <2> DEFINE x == (i - w) % Size
  <2>1. x \in 0 .. Size - 1
    BY <1>1, Offset, SizeAssumption
  <2> HIDE DEF x
  <2>2. x < Len(s) => s[x + 1] \in Bytes
    BY <2>1, SizeAssumption
  <2>3. rb.pool[i] \in Bytes
    BY <1>1
  <2> QED
    BY <2>2, <2>3 DEF x
<1> HIDE DEF slot
<1>3. pool \in [0 .. Size - 1 -> Bytes]
  BY <1>2
<1>4. wm \in BOOLEAN
  BY <1>1, Zenon
<1>5. Ring!Copied(rb, s) = new
  BY DEF Ring!Copied, slot
<1>6. /\ new \in RingType /\ new.pool = pool
      /\ new.read_index = rb.read_index /\ new.read_mirror = rb.read_mirror
      /\ new.write_index = rb.write_index /\ new.write_mirror = wm
  <2> HIDE DEF pool, wm
  <2> QED
    BY <1>3, <1>4 DEF RingType
<1>7. \A i \in 0 .. Size - 1 : new.pool[i] = slot(i)
  BY <1>6
<1> HIDE DEF new
<1> QED
  BY <1>5, <1>6, <1>7 DEF slot

LEMMA WrittenIs ==
  ASSUME NEW rb \in RingType, NEW i \in 0 .. Size - 1
  PROVE  LET new == [rb EXCEPT !.write_index = i]
         IN  /\ new \in RingType /\ new.pool = rb.pool
             /\ new.write_index = i /\ new.write_mirror = rb.write_mirror
             /\ new.read_index = rb.read_index
             /\ new.read_mirror = rb.read_mirror
BY DEF RingType

LEMMA AdvancedIs ==
  ASSUME NEW i \in 0 .. Size - 1, NEW n \in 0 .. Size, NEW m \in BOOLEAN
  PROVE  LET j == Ring!Advanced(i, n)
             wraps == Ring!Wraps(i, n)
             pos(k, b) == IF b THEN k + Size ELSE k
         IN  /\ j \in 0 .. Size - 1
             /\ pos(j, IF wraps THEN ~m ELSE m) = Ahead(pos(i, m), n)
<1>1. CASE Size - i <= n
  BY <1>1, SizeAssumption DEF Ring!Advanced, Ring!Wraps, Ahead
<1>2. CASE ~ (Size - i <= n)
  BY <1>2, SizeAssumption DEF Ring!Advanced, Ring!Wraps, Ahead
<1> QED
  BY <1>1, <1>2

Stored(rb, s) == Ring!Written(Ring!Copied(rb, s), Len(s))

LEMMA PutIs ==
  ASSUME NEW rb \in RingType, NEW s \in Seq(Bytes), Len(s) \in 0 .. Size
  PROVE  /\ Stored(rb, s) \in RingType
         /\ Stored(rb, s).pool = Ring!Copied(rb, s).pool
         /\ WritePos(Stored(rb, s)) = Ahead(WritePos(rb), Len(s))
         /\ ReadPos(Stored(rb, s)) = ReadPos(rb)
<1> DEFINE c == Ring!Copied(rb, s)
           n == Len(s)
           i == Ring!Advanced(c.write_index, n)
           new == [c EXCEPT !.write_index = i]
           wm == IF Ring!Wraps(rb.write_index, n) THEN ~rb.write_mirror
                 ELSE rb.write_mirror
<1>1. /\ c \in RingType
      /\ c.read_index = rb.read_index /\ c.read_mirror = rb.read_mirror
      /\ c.write_index = rb.write_index
      /\ c.write_mirror = wm
  BY CopiedIs
<1>2. /\ rb.write_index \in 0 .. Size - 1 /\ rb.write_mirror \in BOOLEAN
  BY Fields
<1>3. Stored(rb, s) = new
  BY Zenon DEF Stored, Ring!Written
<1>4. n \in 0 .. Size
  OBVIOUS
<1> HIDE DEF c, n
<1>5. /\ i \in 0 .. Size - 1
      /\ (IF wm THEN i + Size ELSE i) = Ahead(WritePos(rb), n)
  <2>1. i = Ring!Advanced(rb.write_index, n)
    BY <1>1
  <2>2. LET j == Ring!Advanced(rb.write_index, n)
            wraps == Ring!Wraps(rb.write_index, n)
            pos(k, b) == IF b THEN k + Size ELSE k
        IN  /\ j \in 0 .. Size - 1
            /\ pos(j, IF wraps THEN ~rb.write_mirror ELSE rb.write_mirror)
                 = Ahead(pos(rb.write_index, rb.write_mirror), n)
    BY <1>2, <1>4, AdvancedIs
  <2> QED
    BY <2>1, <2>2, Zenon DEF WritePos
<1> HIDE DEF i, wm
<1>6. /\ new \in RingType /\ new.pool = c.pool
      /\ new.write_index = i /\ new.write_mirror = c.write_mirror
      /\ new.read_index = c.read_index /\ new.read_mirror = c.read_mirror
  BY <1>1, <1>5, WrittenIs
<1> HIDE DEF new
<1>7. WritePos(new) = Ahead(WritePos(rb), n) /\ ReadPos(new) = ReadPos(rb)
  BY <1>1, <1>5, <1>6, Zenon DEF WritePos, ReadPos
<1> QED
  BY <1>3, <1>6, <1>7 DEF c, n

LEMMA BehindPut ==
  ASSUME NEW rb \in RingType, NEW s \in Seq(Bytes),
         Behind(rb) <= Size, Len(s) <= Size - Behind(rb)
  PROVE  Behind(Stored(rb, s)) = Behind(rb) + Len(s)
<1>1. Len(s) \in 0 .. Size /\ Behind(rb) \in 0 .. Size
  BY DataLenIs, SizeAssumption
<1>2. /\ WritePos(Stored(rb, s)) = Ahead(WritePos(rb), Len(s))
      /\ ReadPos(Stored(rb, s)) = ReadPos(rb)
  BY <1>1, PutIs
<1> DEFINE p == WritePos(rb)
           q == ReadPos(rb)
           n == Len(s)
<1>3. /\ p \in 0 .. 2 * Size - 1 /\ q \in 0 .. 2 * Size - 1
      /\ n \in 0 .. Size /\ Dist(p, q) <= Size /\ n <= Size - Dist(p, q)
  BY <1>1, Positions DEF Behind
<1>4. Dist(Ahead(p, n), q) = Dist(p, q) + n
  <2> HIDE DEF p, q, n
  <2>1. CASE p >= q
    BY <1>3, <2>1, SizeAssumption DEF Dist, Ahead
  <2>2. CASE ~ (p >= q)
    BY <1>3, <2>2, SizeAssumption DEF Dist, Ahead
  <2> QED
    BY <2>1, <2>2
<1> QED
  BY <1>2, <1>4, Zenon DEF Behind

LEMMA ContentPut ==
  ASSUME NEW rb \in RingType, NEW s \in Seq(Bytes),
         Behind(rb) <= Size, Len(s) <= Size - Behind(rb)
  PROVE  Ring!Content(Stored(rb, s)) = Ring!Content(rb) \o s
<1> DEFINE n == Ring!DataLen(rb)
           r == rb.read_index
           w == rb.write_index
           new == Stored(rb, s)
           m == Len(s)
           copied == Ring!Copied(rb, s)
<1>1. r \in 0 .. Size - 1 /\ w \in 0 .. Size - 1
  BY Fields
<1>2. /\ n = Behind(rb) /\ n \in 0 .. Size /\ m \in 0 .. Size - n
      /\ Behind(new) = n + m
  BY DataLenIs, BehindPut, SizeAssumption
<1>3. new \in RingType /\ new.pool = copied.pool /\ ReadPos(new) = ReadPos(rb)
  <2>1. Len(s) \in 0 .. Size
    BY <1>2, SizeAssumption
  <2> QED
    BY <2>1, PutIs
<1>4. /\ Ring!Content(rb) \in Seq(Bytes) /\ Len(Ring!Content(rb)) = n
      /\ \A k \in 1 .. n : Ring!Content(rb)[k] = rb.pool[(r + k - 1) % Size]
  BY ContentIsSeq
<1>5. new.read_index = r
  <2>1. new.read_index = IF ReadPos(new) < Size THEN ReadPos(new)
                         ELSE ReadPos(new) - Size
    BY <1>3, Positions
  <2>2. r = IF ReadPos(rb) < Size THEN ReadPos(rb) ELSE ReadPos(rb) - Size
    BY Positions
  <2> QED
    BY <2>1, <2>2, <1>3
<1>6. Ring!DataLen(new) = n + m
  BY <1>2, <1>3, DataLenIs, SizeAssumption
<1>7. /\ Ring!Content(new) \in Seq(Bytes) /\ Len(Ring!Content(new)) = n + m
      /\ \A k \in 1 .. n + m :
            Ring!Content(new)[k] = copied.pool[(r + k - 1) % Size]
  BY <1>3, <1>5, <1>6, ContentIsSeq
<1>8. \A i \in 0 .. Size - 1 :
        copied.pool[i] = IF (i - w) % Size < m THEN s[((i - w) % Size) + 1]
                         ELSE rb.pool[i]
  BY CopiedIs
<1>9. w = IF r + n < Size THEN r + n ELSE r + n - Size
  <2> DEFINE p == WritePos(rb)
             q == ReadPos(rb)
  <2>1. /\ p \in 0 .. 2 * Size - 1 /\ q \in 0 .. 2 * Size - 1
        /\ r = IF q < Size THEN q ELSE q - Size
        /\ w = IF p < Size THEN p ELSE p - Size
    BY Positions
  <2>2. n = (IF p >= q THEN p - q ELSE p - q + 2 * Size) /\ n \in 0 .. Size
    BY <1>2 DEF Behind, Dist
  <2> HIDE DEF p, q, n, r, w
  <2>3. CASE p >= q
    BY <2>1, <2>2, <2>3, SizeAssumption
  <2>4. CASE ~ (p >= q)
    BY <2>1, <2>2, <2>4, SizeAssumption
  <2> QED
    BY <2>3, <2>4
<1> HIDE DEF n, r, w, new, copied, m
<1>10. ASSUME NEW k \in 1 .. n + m
       PROVE  /\ (r + k - 1) % Size \in 0 .. Size - 1
              /\ (((r + k - 1) % Size) - w) % Size = IF k <= n THEN k - 1 - n + Size
                                                   ELSE k - 1 - n
  <2> DEFINE x == r + k - 1
             y == x % Size
  <2>1. x \in 0 .. 2 * Size - 1 /\ x = r + k - 1
    BY <1>1, <1>2, SizeAssumption
  <2> HIDE DEF x
  <2>2. x % Size = IF x < Size THEN x ELSE x - Size
    BY <2>1, Around
  <2>3. y \in 0 .. Size - 1 /\ y = IF x < Size THEN x ELSE x - Size
    BY <2>1, <2>2, <1>1, <1>2, SizeAssumption
  <2> HIDE DEF y
  <2>4. (y - w) % Size = IF y >= w THEN y - w ELSE y - w + Size
    BY <2>3, <1>1, Offset
  <2>5. (y - w) % Size = IF k <= n THEN k - 1 - n + Size ELSE k - 1 - n
    <3> DEFINE d == (y - w) % Size
    <3>1. d = IF y >= w THEN y - w ELSE y - w + Size
      BY <2>4
    <3> HIDE DEF d
    <3>0. /\ n \in Nat /\ m \in Nat /\ n + m <= Size /\ Size \in Nat
          /\ r \in Nat /\ r < Size /\ w \in Nat /\ w < Size
          /\ k \in Nat /\ 1 <= k /\ k <= n + m
          /\ x \in Nat /\ x = r + k - 1 /\ y \in Nat
      BY <2>1, <2>3, <1>1, <1>2, SizeAssumption
    <3>2. ASSUME r + n < Size
          PROVE  d = IF k <= n THEN k - 1 - n + Size ELSE k - 1 - n
      <4>1. w = r + n /\ y = IF x < Size THEN x ELSE x - Size
        BY <3>2, <2>3, <1>9
      <4> QED
        BY <3>0, <3>1, <4>1
    <3>3. ASSUME ~ (r + n < Size)
          PROVE  d = IF k <= n THEN k - 1 - n + Size ELSE k - 1 - n
      <4>1. w = r + n - Size /\ y = IF x < Size THEN x ELSE x - Size
        BY <3>3, <2>3, <1>9
      <4> QED
        BY <3>0, <3>1, <4>1
    <3>4. d = IF k <= n THEN k - 1 - n + Size ELSE k - 1 - n
      BY <3>2, <3>3
    <3> QED
      BY <3>4 DEF d
  <2> QED
    BY <2>3, <2>5 DEF y, x
<1>11. \A k \in 1 .. n : Ring!Content(new)[k] = Ring!Content(rb)[k]
  <2> TAKE k \in 1 .. n
  <2>1. k \in 1 .. n + m /\ k <= n /\ k - 1 - n + Size >= m
    BY <1>2, SizeAssumption
  <2> DEFINE y == (r + k - 1) % Size
             d == (y - w) % Size
  <2>2. y \in 0 .. Size - 1 /\ d = k - 1 - n + Size
    BY <2>1, <1>10
  <2>3. Ring!Content(new)[k] = copied.pool[y]
    BY <2>1, <1>7
  <2>4. Ring!Content(rb)[k] = rb.pool[y]
    BY <1>4
  <2>5. copied.pool[y] = IF d < m THEN s[d + 1] ELSE rb.pool[y]
    BY <2>2, <1>8
  <2> HIDE DEF d, y
  <2>6. ~ (d < m)
    BY <2>1, <2>2, <1>2
  <2> QED
    BY <2>3, <2>4, <2>5, <2>6
<1>12. \A k \in n + 1 .. n + m : Ring!Content(new)[k] = s[k - n]
  <2> TAKE k \in n + 1 .. n + m
  <2>1. k \in 1 .. n + m /\ ~ (k <= n) /\ k - 1 - n < m
    BY <1>2
  <2> DEFINE y == (r + k - 1) % Size
             d == (y - w) % Size
  <2>2. y \in 0 .. Size - 1 /\ d = k - 1 - n
    BY <2>1, <1>10
  <2>3. Ring!Content(new)[k] = copied.pool[y]
    BY <2>1, <1>7
  <2>5. copied.pool[y] = IF d < m THEN s[d + 1] ELSE rb.pool[y]
    BY <2>2, <1>8
  <2> HIDE DEF d, y
  <2>6. d < m /\ d + 1 = k - n
    BY <2>1, <2>2, <1>2
  <2> QED
    BY <2>3, <2>5, <2>6
<1>13. /\ Ring!Content(rb) \o s \in Seq(Bytes)
       /\ Len(Ring!Content(rb) \o s) = n + m
       /\ \A k \in 1 .. n + m : (Ring!Content(rb) \o s)[k] =
              IF k <= n THEN Ring!Content(rb)[k] ELSE s[k - n]
  BY <1>4, ConcatProperties DEF m
<1>14. \A k \in 1 .. n + m : Ring!Content(new)[k] = (Ring!Content(rb) \o s)[k]
  BY <1>2, <1>11, <1>12, <1>13
<1> QED
  BY <1>7, <1>13, <1>14 DEF new

(* A read of all there is leaves an empty ring, wherever its ends are. *)
LEMMA TakenIs ==
  ASSUME NEW rb \in RingType, Behind(rb) <= Size
  PROVE  LET new == Ring!Taken(rb, Ring!DataLen(rb))
         IN  /\ new \in RingType /\ Behind(new) = 0 /\ Ring!DataLen(new) = 0
             /\ Ring!Content(new) = <<>>
<1> DEFINE n == Ring!DataLen(rb)
           i == Ring!Advanced(rb.read_index, n)
           m == IF Ring!Wraps(rb.read_index, n) THEN ~rb.read_mirror
                ELSE rb.read_mirror
           new == [rb EXCEPT !.read_mirror = m, !.read_index = i]
<1>1. Ring!Taken(rb, n) = new
  BY Zenon DEF Ring!Taken
<1>2. rb.read_index \in 0 .. Size - 1 /\ rb.read_mirror \in BOOLEAN
  BY Fields
<1>3. n = Behind(rb) /\ n \in 0 .. Size
  BY DataLenIs
<1> HIDE DEF n
<1>4. /\ i \in 0 .. Size - 1
      /\ (IF m THEN i + Size ELSE i) = Ahead(ReadPos(rb), n)
  <2>2. LET j == Ring!Advanced(rb.read_index, n)
            wraps == Ring!Wraps(rb.read_index, n)
            pos(k, b) == IF b THEN k + Size ELSE k
        IN  /\ j \in 0 .. Size - 1
            /\ pos(j, IF wraps THEN ~rb.read_mirror ELSE rb.read_mirror)
                 = Ahead(pos(rb.read_index, rb.read_mirror), n)
    BY <1>2, <1>3, AdvancedIs
  <2> QED
    BY <2>2, Zenon DEF ReadPos
<1>5. m \in BOOLEAN
  BY <1>2, Zenon
<1> HIDE DEF i, m
<1>6. /\ new \in RingType
      /\ new.write_index = rb.write_index /\ new.write_mirror = rb.write_mirror
      /\ new.read_index = i /\ new.read_mirror = m
  BY <1>4, <1>5 DEF RingType
<1> HIDE DEF new
<1>7. ReadPos(new) = Ahead(ReadPos(rb), n) /\ WritePos(new) = WritePos(rb)
  BY <1>4, <1>6, Zenon DEF WritePos, ReadPos
<1>8. Behind(new) = 0
  BY <1>3, <1>7, Positions, SizeAssumption DEF Behind, Dist, Ahead
<1>9. Ring!DataLen(new) = 0
  BY <1>6, <1>8, DataLenIs, SizeAssumption
<1>10. Ring!Content(new) = <<>>
  BY <1>6, <1>9, ContentIsSeq
<1> QED
  BY <1>1, <1>6, <1>8, <1>9, <1>10 DEF n

-----------------------------------------------------------------------------
(***************************************************************************)
(* The inductive invariant of the pipe.                                    *)
(***************************************************************************)
Places == {"take", "put", "index", "release", "wake", "wait", "waiting",
           "woken", "done"}
PipeTypes == /\ pc \in [Writers -> Places]
             /\ lock \in Writers \cup {NoThread}
             /\ ret \in [Writers -> Nat] /\ len \in Nat
             /\ flag \in BOOLEAN /\ waiting \in Seq(Writers)
             /\ reader \in {"busy", "poll", "read", "asleep"}
             /\ listed \in BOOLEAN
             /\ reads \in Seq(Seq(Writers \X Nat))

(* Who writes holds the mutex, who waits has bytes left, and the waiting  *)
(* writers are on the list once.                                           *)
Mutex == \A w \in Writers : pc[w] \in {"put", "index", "release"} <=> lock = w
Amounts ==
    \A w \in Writers :
       /\ ret[w] <= Length[w]
       /\ pc[w] \in {"take", "put", "index", "wait", "waiting", "woken"}
             => ret[w] < Length[w]
       /\ pc[w] = "index" => ret[w] + len <= Length[w]
Queue == /\ \A i, j \in 1 .. Len(waiting) : i # j => waiting[i] # waiting[j]
         /\ \A i \in 1 .. Len(waiting) : pc[waiting[i]] = "waiting"

(* The ring after the running put, which never leaves it empty.            *)
Settled == IF Unsettled /\ len > 0 THEN Ring!Written(fifo, len) ELSE fifo
Amount == [w \in Writers |-> IF pc[w] = "index" THEN ret[w] + len ELSE ret[w]]
RingInv == /\ Settled \in RingType /\ Behind(Settled) <= Size
           /\ Unsettled => Ring!DataLen(Settled) # 0
(* The worker reads only what is there, and sleeps beside bytes only while *)
(* their writer is on its way to wake it.                                  *)
ReaderInv == /\ reader = "read" /\ ~Unsettled => HasData
             /\ reader = "asleep" => listed
             /\ reader = "asleep" /\ HasData =>
                   \E w \in Writers : pc[w] \in {"index", "release", "wake"}
(* An empty pipe has a writer that comes, or the flag that brings one: the *)
(* flag stays set only while the thread resumed with it has not run.       *)
Coming == \E w \in Writers : /\ pc[w] \in {"take", "put", "index", "woken"}
                             /\ Rest(w) > 0
RoomInv == /\ ~Unsettled /\ ~HasData /\ (\E w \in Writers : Rest(w) > 0)
                 => flag \/ Coming
           /\ flag /\ waiting # <<>> => \E w \in Writers : pc[w] = "woken"

(* What the reads returned and what the next one would.  Each says what    *)
(* Holds says, byte by byte.                                               *)
Chunks == Append(reads, Ring!Content(Settled))
Each(chunks, amount) ==
    /\ \A k \in 1 .. Len(chunks) : \A i \in 1 .. Len(chunks[k]) :
          chunks[k][i][2] \in 1 .. amount[chunks[k][i][1]]
    /\ \A w \in Writers : \A n \in 1 .. amount[w] :
          \E k \in 1 .. Len(chunks) : \E i \in 1 .. Len(chunks[k]) :
             chunks[k][i] = <<w, n>>
    /\ \A k, l \in 1 .. Len(chunks) :
          \A i \in 1 .. Len(chunks[k]), j \in 1 .. Len(chunks[l]) :
             /\ k < l \/ (k = l /\ i < j)
             /\ chunks[k][i][1] = chunks[l][j][1]
             => chunks[k][i][2] < chunks[l][j][2]
Cut(c) == \A p \in 1 .. Len(c) :
             \/ c[p][2] = Length[c[p][1]] \/ p = Size
             \/ p < Len(c) /\ c[p + 1] = <<c[p][1], c[p][2] + 1>>
ContentInv == /\ Ring!Content(Settled) \in Seq(Writers \X Nat)
              /\ Each(Chunks, Amount)
              /\ \A k \in 1 .. Len(Chunks) : Cut(Chunks[k])

PipeInv == /\ PipeTypes /\ Mutex /\ Amounts /\ Queue
           /\ RingInv /\ ReaderInv /\ RoomInv /\ ContentInv

-----------------------------------------------------------------------------
(***************************************************************************)
(* What a step does to the ring that counts and to the bytes in it.        *)
(***************************************************************************)
LEMMA QuietSettled ==
  ASSUME UNCHANGED <<fifo, ret, len>>,
         \A w \in Writers : pc'[w] = "index" <=> pc[w] = "index"
  PROVE  Settled' = Settled /\ Amount' = Amount /\ (Unsettled' <=> Unsettled)
<1>1. Unsettled' <=> Unsettled
  BY DEF Unsettled
<1>2. Settled' = Settled
  BY <1>1, Zenon DEF Settled
<1>3. Amount' = Amount
  BY Zenon DEF Amount
<1> QED
  BY <1>1, <1>2, <1>3

LEMMA QuietContent ==
  ASSUME ContentInv, RingInv, Settled' = Settled, Amount' = Amount,
         Unsettled' => Unsettled, reads' = reads
  PROVE  ContentInv' /\ RingInv'
<1>1. Chunks' = Chunks
  BY DEF Chunks
<1>2. ContentInv'
  BY <1>1 DEF ContentInv
<1> QED
  BY <1>2 DEF RingInv

(* The put takes as much of the message as there is room for. *)
LEMMA PutFacts ==
  ASSUME PipeInv, NEW w \in Writers, Put(w)
  PROVE  LET s == SubSeq(Message(w), ret[w] + 1, ret[w] + len')
             c == Ring!Content(fifo)
         IN  /\ Settled = fifo /\ Amount = ret /\ ~Unsettled
             /\ len' \in Nat /\ len' <= Rest(w) /\ Rest(w) > 0
             /\ c \in Seq(Writers \X Nat)
             /\ s \in Seq(Writers \X Nat) /\ Len(s) = len'
             /\ \A j \in 1 .. len' : s[j] = <<w, ret[w] + j>>
             /\ Len(c) + len' <= Size
             /\ len' = Rest(w) \/ Len(c) + len' = Size
             /\ Unsettled'
             /\ Settled' \in RingType /\ Behind(Settled') <= Size
             /\ Ring!DataLen(Settled') # 0
             /\ Ring!Content(Settled') = c \o s
             /\ Amount' = [Amount EXCEPT ![w] = @ + len']
<1> DEFINE s == SubSeq(Message(w), ret[w] + 1, ret[w] + len')
           c == Ring!Content(fifo)
<1>1. /\ pc[w] = "put" /\ pc' = [pc EXCEPT ![w] = "index"]
      /\ len' = Min({Rest(w), Ring!SpaceLen(fifo)})
      /\ fifo' = IF len' = 0 THEN fifo ELSE Ring!Copied(fifo, s)
      /\ ret' = ret
  BY DEF Put, Goto
<1>2. /\ pc \in [Writers -> Places] /\ ret \in [Writers -> Nat]
      /\ Length[w] \in Nat /\ ret[w] \in Nat /\ ret[w] < Length[w]
  BY <1>1, LengthAssumption DEF PipeInv, PipeTypes, Amounts
<1>3. ~Unsettled
  BY <1>1 DEF Unsettled, PipeInv, Mutex
<1>4. Settled = fifo /\ Amount = ret
  BY <1>2, <1>3 DEF Settled, Amount, Unsettled
<1>5. fifo \in RingType /\ Behind(fifo) <= Size
  BY <1>4 DEF PipeInv, RingInv
<1>6. /\ c \in Seq(Writers \X Nat) /\ Len(c) = Ring!DataLen(fifo)
      /\ Ring!DataLen(fifo) \in 0 .. Size /\ Behind(fifo) = Ring!DataLen(fifo)
  BY <1>4, <1>5, ContentIsSeq, DataLenIs DEF PipeInv, ContentInv
<1>7. /\ Rest(w) = Length[w] - ret[w] /\ Rest(w) \in Nat /\ Rest(w) > 0
      /\ Ring!SpaceLen(fifo) = Size - Len(c) /\ Ring!SpaceLen(fifo) \in Nat
  BY <1>2, <1>6, SizeAssumption DEF Rest, Ring!SpaceLen
<1>8. /\ len' \in {Rest(w), Ring!SpaceLen(fifo)}
      /\ len' <= Rest(w) /\ len' <= Ring!SpaceLen(fifo)
  <2> DEFINE S == {Rest(w), Ring!SpaceLen(fifo)}
  <2>1. \E x \in S : \A y \in S : x <= y
    BY <1>7
  <2>2. /\ Min(S) \in S
        /\ \A y \in S : Min(S) <= y
    BY <2>1, Zenon DEF Min
  <2> QED
    BY <1>1, <2>2
<1>9. len' \in Nat /\ ret[w] + len' <= Length[w]
  BY <1>2, <1>7, <1>8
<1>10. /\ s \in Seq(Writers \X Nat) /\ Len(s) = len'
       /\ \A j \in 1 .. len' : s[j] = <<w, ret[w] + j>>
  <2>1. Message(w) = [i \in 1 .. Length[w] |-> <<w, i>>]
    BY DEF Message
  <2>2. Message(w) \in Seq(Writers \X Nat) /\ Len(Message(w)) = Length[w]
    <3>1. \A i \in 1 .. Length[w] : <<w, i>> \in Writers \X Nat
      BY <1>2
    <3>2. [i \in 1 .. Length[w] |-> <<w, i>>] \in Seq(Writers \X Nat)
      BY <3>1, <1>2, IsASeq
    <3> QED
      BY <2>1, <3>2, <1>2
  <2>3. /\ ret[w] + 1 \in 1 .. Len(Message(w)) + 1
        /\ ret[w] + len' \in ret[w] .. Len(Message(w))
    BY <2>2, <1>2, <1>9
  <2>4. /\ s \in Seq(Writers \X Nat) /\ Len(s) = len'
        /\ \A j \in 1 .. len' : s[j] = Message(w)[ret[w] + j]
    <3> DEFINE m == Message(w)
               a == ret[w] + 1
               b == ret[w] + len'
    <3>1. m \in Seq(Writers \X Nat) /\ a \in 1 .. Len(m) + 1 /\ b \in a - 1 .. Len(m)
      BY <2>2, <2>3, <1>2
    <3>2. b - a + 1 = len' /\ \A j \in 1 .. len' : a + j - 1 = ret[w] + j
      BY <1>2, <1>9
    <3>3. /\ SubSeq(m, a, b) \in Seq(Writers \X Nat)
          /\ Len(SubSeq(m, a, b)) = b - a + 1
          /\ \A j \in 1 .. b - a + 1 : SubSeq(m, a, b)[j] = m[a + j - 1]
      <4> HIDE DEF m, a, b
      <4> QED
        BY <3>1, SubSeqProperties
    <3> QED
      BY <3>2, <3>3
  <2>5. \A j \in 1 .. len' : ret[w] + j \in 1 .. Length[w]
    BY <1>2, <1>9
  <2> QED
    BY <2>1, <2>4, <2>5
<1>11. s \in Seq(Bytes)
  BY <1>10 DEF Bytes
<1> HIDE DEF s, c
<1>12. Unsettled'
  BY <1>1, <1>2 DEF Unsettled
<1>13. Amount' = [Amount EXCEPT ![w] = @ + len']
  <2>1. \A u \in Writers : pc'[u] = "index" <=> u = w
    BY <1>1, <1>2, <1>3 DEF Unsettled
  <2>2. Amount' = [u \in Writers |-> IF u = w THEN ret[u] + len' ELSE ret[u]]
    BY <1>1, <2>1 DEF Amount
  <2> QED
    BY <2>2, <1>2, <1>4
<1>14. /\ Settled' \in RingType /\ Behind(Settled') = Len(c) + len'
       /\ Ring!Content(Settled') = c \o s
  <2>1. CASE len' = 0
    <3>1. Settled' = fifo
      BY <1>1, <2>1 DEF Settled
    <3>2. s = <<>>
      BY <1>10, <2>1
    <3> QED
      BY <2>1, <3>1, <3>2, <1>5, <1>6 DEF c
  <2>2. CASE len' # 0
    <3>1. Settled' = Stored(fifo, s)
      BY <1>1, <1>9, <1>10, <1>12, <2>2 DEF Settled, Stored
    <3>2. Len(s) <= Size - Behind(fifo) /\ Len(s) \in 0 .. Size
      BY <1>6, <1>7, <1>8, <1>9, <1>10, SizeAssumption
    <3>3. Stored(fifo, s) \in RingType
      BY <1>5, <1>11, <3>2, PutIs
    <3>4. Behind(Stored(fifo, s)) = Behind(fifo) + Len(s)
      BY <1>5, <1>11, <3>2, BehindPut
    <3>5. Ring!Content(Stored(fifo, s)) = Ring!Content(fifo) \o s
      BY <1>5, <1>11, <3>2, ContentPut
    <3> QED
      BY <3>1, <3>3, <3>4, <3>5, <1>6, <1>10 DEF c
  <2> QED
    BY <2>1, <2>2
<1>15. Len(c) + len' <= Size /\ (len' = Rest(w) \/ Len(c) + len' = Size)
  BY <1>6, <1>7, <1>8, SizeAssumption
<1>16. Ring!DataLen(Settled') # 0
  BY <1>6, <1>7, <1>8, <1>9, <1>14, <1>15, DataLenIs, SizeAssumption
<1> QED
  BY <1>3, <1>4, <1>6, <1>7, <1>8, <1>9, <1>10, <1>12, <1>13, <1>14, <1>15,
     <1>16
  DEF c, s

(* The index changes nothing that counts, and there is something to read. *)
LEMMA IndexFacts ==
  ASSUME PipeInv, NEW w \in Writers, PutIndex(w)
  PROVE  /\ Settled' = Settled /\ Amount' = Amount
         /\ Unsettled /\ ~Unsettled' /\ HasData'
<1>1. /\ pc[w] = "index" /\ pc' = [pc EXCEPT ![w] = "release"] /\ len' = len
      /\ fifo' = IF len = 0 THEN fifo ELSE Ring!Written(fifo, len)
      /\ ret' = [ret EXCEPT ![w] = @ + len]
  BY Zenon DEF PutIndex, Goto
<1>2. pc \in [Writers -> Places] /\ ret \in [Writers -> Nat] /\ len \in Nat
  BY DEF PipeInv, PipeTypes
<1>3. \A u \in Writers : pc[u] = "index" => u = w
  BY <1>1 DEF PipeInv, Mutex
<1>4. \A u \in Writers : pc'[u] # "index"
  BY <1>1, <1>2, <1>3
<1>5. Unsettled /\ ~Unsettled'
  BY <1>1, <1>4 DEF Unsettled
<1>6. Settled' = fifo'
  BY <1>5, Zenon DEF Settled
<1>7. Settled = fifo'
  BY <1>1, <1>2, <1>5 DEF Settled
<1>8. Amount' = Amount
  <2>1. Amount' = [u \in Writers |-> ret'[u]]
    BY <1>4 DEF Amount
  <2>2. \A u \in Writers :
           ret'[u] = IF pc[u] = "index" THEN ret[u] + len ELSE ret[u]
    BY <1>1, <1>2, <1>3
  <2> QED
    BY <2>1, <2>2 DEF Amount
<1>9. HasData'
  BY <1>5, <1>6, <1>7 DEF PipeInv, RingInv, HasData
<1> QED
  BY <1>5, <1>6, <1>7, <1>8, <1>9

(* The read takes everything and resumes the first who waits. *)
LEMMA ReadFacts ==
  ASSUME PipeInv, Read
  PROVE  /\ ~Unsettled /\ ~Unsettled' /\ Amount' = Amount
         /\ Settled' \in RingType /\ Behind(Settled') <= Size
         /\ Ring!Content(Settled') = <<>>
         /\ reads' = Append(reads, Ring!Content(Settled))
         /\ \A w \in Writers :
               pc'[w] = IF waiting # <<>> /\ w = Head(waiting) THEN "woken"
                        ELSE pc[w]
         /\ waiting # <<>> => /\ Head(waiting) \in Writers
                              /\ pc[Head(waiting)] = "waiting"
<1>1. /\ lock = NoThread /\ ret' = ret /\ len' = len
      /\ reads' = Append(reads, Ring!Content(fifo))
      /\ fifo' = Ring!Taken(fifo, Ring!DataLen(fifo))
      /\ IF waiting = <<>> THEN pc' = pc
                           ELSE pc' = [pc EXCEPT ![Head(waiting)] = "woken"]
  BY Zenon DEF Read, WakeWriter, Goto
<1>2. pc \in [Writers -> Places] /\ waiting \in Seq(Writers)
  BY DEF PipeInv, PipeTypes
<1>3. ASSUME waiting # <<>>
      PROVE  Head(waiting) \in Writers /\ pc[Head(waiting)] = "waiting"
  <2>1. /\ 1 \in 1 .. Len(waiting) /\ Head(waiting) = waiting[1]
        /\ waiting[1] \in Writers
    BY <1>2, <1>3, HeadTailProperties, LenProperties
  <2> QED
    BY <2>1 DEF PipeInv, Queue
<1>4. \A w \in Writers :
        pc'[w] = IF waiting # <<>> /\ w = Head(waiting) THEN "woken" ELSE pc[w]
  BY <1>1, <1>2, <1>3
<1>5. ~Unsettled
  BY <1>1, NoThreadAssumption DEF Unsettled, PipeInv, Mutex
<1>6. \A w \in Writers : pc'[w] = "index" <=> pc[w] = "index"
  BY <1>3, <1>4
<1>7. ~Unsettled'
  BY <1>5, <1>6 DEF Unsettled
<1>8. Settled = fifo /\ Settled' = fifo'
  BY <1>5, <1>7, Zenon DEF Settled
<1>9. Amount' = Amount
  BY <1>1, <1>6, Zenon DEF Amount
<1>10. fifo \in RingType /\ Behind(fifo) <= Size
  BY <1>8 DEF PipeInv, RingInv
<1>11. /\ fifo' \in RingType /\ Behind(fifo') = 0 /\ Ring!Content(fifo') = <<>>
  BY <1>1, <1>10, TakenIs
<1>12. Behind(fifo') <= Size
  BY <1>11, SizeAssumption
<1> QED
  BY <1>1, <1>3, <1>4, <1>5, <1>7, <1>8, <1>9, <1>11, <1>12

-----------------------------------------------------------------------------
(***************************************************************************)
(* Types, mutex, amounts and the list of waiting writers.                  *)
(***************************************************************************)
LEMMA InitPipe == Init => PipeInv
<1> SUFFICES ASSUME Init PROVE PipeInv
  OBVIOUS
<1>1. /\ fifo = Ring!Create /\ lock = NoThread
      /\ pc = [w \in Writers |-> "take"] /\ ret = [w \in Writers |-> 0]
      /\ len = 0 /\ flag = FALSE /\ waiting = <<>> /\ reader = "busy"
      /\ listed = FALSE /\ reads = <<>>
  BY DEF Init
<1>2. \A w \in Writers : Length[w] \in Nat /\ Length[w] > 0
  BY LengthAssumption
<1>3. PipeTypes
  <2>1. /\ pc \in [Writers -> Places] /\ ret \in [Writers -> Nat] /\ len \in Nat
        /\ lock \in Writers \cup {NoThread}
    BY <1>1 DEF Places
  <2>2. waiting \in Seq(Writers) /\ reads \in Seq(Seq(Writers \X Nat))
    BY <1>1
  <2>3. flag \in BOOLEAN /\ listed \in BOOLEAN
    BY <1>1, Zenon
  <2>4. reader \in {"busy", "poll", "read", "asleep"}
    BY <1>1
  <2> QED
    BY <2>1, <2>2, <2>3, <2>4 DEF PipeTypes
<1>4. Mutex /\ Amounts /\ Queue
  BY <1>1, <1>2, NoThreadAssumption DEF Mutex, Amounts, Queue
<1>5. ~Unsettled
  BY <1>1 DEF Unsettled
<1>6. Settled = Ring!Create /\ Amount = [w \in Writers |-> 0]
  BY <1>1, <1>5 DEF Settled, Amount, Unsettled
<1>7. /\ Ring!Create \in RingType /\ Ring!DataLen(Ring!Create) = 0
      /\ Behind(Ring!Create) = 0
  BY CreateIsEmpty
<1>8. Ring!Content(Settled) = <<>>
  <2>1. /\ Ring!Content(Ring!Create) \in Seq(Bytes)
        /\ Len(Ring!Content(Ring!Create)) = 0
    BY <1>7, ContentIsSeq
  <2> QED
    BY <1>6, <2>1
<1>9. RingInv
  BY <1>5, <1>6, <1>7, SizeAssumption DEF RingInv
<1>10. ReaderInv
  BY <1>1 DEF ReaderInv
<1>11. RoomInv
  BY <1>1 DEF RoomInv, Coming
<1>12. ContentInv
  <2>1. Len(Chunks) = 1 /\ Chunks[1] = <<>>
    BY <1>1, <1>8 DEF Chunks
  <2>2. Len(<<>>) = 0 /\ <<>> \in Seq(Writers \X Nat)
    OBVIOUS
  <2>3. Each(Chunks, Amount)
    BY <1>6, <2>1, <2>2 DEF Each
  <2>4. \A k \in 1 .. Len(Chunks) : Cut(Chunks[k])
    BY <2>1, <2>2 DEF Cut
  <2> QED
    BY <1>8, <2>2, <2>3, <2>4 DEF ContentInv
<1> QED
  BY <1>3, <1>4, <1>9, <1>10, <1>11, <1>12 DEF PipeInv

LEMMA WriterSteps ==
  ASSUME PipeInv, NEW w \in Writers, Writer(w)
  PROVE  PipeTypes' /\ Mutex' /\ Amounts' /\ Queue'
<1>1. PipeTypes /\ Mutex /\ Amounts /\ Queue
  BY DEF PipeInv
<1>2. /\ \A u \in Writers : Length[u] \in Nat
      /\ NoThread \notin Writers
  BY LengthAssumption, NoThreadAssumption
<1>a. \A i \in 1 .. Len(waiting) : waiting[i] \in Writers
  BY <1>1, LenProperties DEF PipeTypes
<1>3. CASE Take(w)
  BY <1>1, <1>2, <1>a, <1>3
  DEF Take, Goto, PipeTypes, Mutex, Amounts, Queue, Places, queue, polling,
      socket
<1>4. CASE Put(w)
  <2>1. len' \in Nat /\ len' <= Rest(w) /\ Rest(w) > 0
    BY <1>4, PutFacts
  <2>2. /\ pc[w] = "put" /\ pc' = [pc EXCEPT ![w] = "index"] /\ lock' = lock
        /\ ret' = ret /\ flag' = flag /\ waiting' = waiting /\ reader' = reader
        /\ listed' = listed /\ reads' = reads
    BY <1>4, Zenon DEF Put, Goto, queue, polling
  <2>3. ret[w] + len' <= Length[w]
    BY <1>1, <1>2, <2>1 DEF Rest, PipeTypes
  <2> QED
    BY <1>1, <1>2, <1>a, <2>1, <2>2, <2>3
    DEF PipeTypes, Mutex, Amounts, Queue, Places
<1>5. CASE PutIndex(w)
  BY <1>1, <1>2, <1>a, <1>5
  DEF PutIndex, Goto, PipeTypes, Mutex, Amounts, Queue, Places, queue, polling,
      socket
<1>6. CASE Release(w)
  BY <1>1, <1>2, <1>a, <1>6
  DEF Release, Goto, PipeTypes, Mutex, Amounts, Queue, Places, queue, polling,
      socket
<1>7. CASE Wake(w)
  <2>1. /\ pc[w] = "wake" /\ lock' = lock /\ ret' = ret /\ len' = len
        /\ flag' = flag /\ waiting' = waiting /\ reads' = reads
        /\ pc' = [pc EXCEPT ![w] = IF Rest(w) = 0 THEN "done" ELSE "wait"]
    BY <1>7, Zenon DEF Wake, Goto, queue
  <2>2. listed' \in BOOLEAN /\ reader' \in {"busy", "poll", "read", "asleep"}
    <3>1. listed' = FALSE \/ listed' = listed
      BY <1>7, Zenon DEF Wake
    <3>2. listed' \in BOOLEAN
      BY <3>1, <1>1, Zenon DEF PipeTypes
    <3> QED
      BY <3>2, <1>1, <1>7 DEF Wake, PipeTypes
  <2>3. CASE Rest(w) = 0
    BY <1>1, <1>2, <1>a, <2>1, <2>2, <2>3
    DEF PipeTypes, Mutex, Amounts, Queue, Places
  <2>4. CASE Rest(w) # 0
    <3>1. ret[w] < Length[w]
      BY <1>1, <1>2, <2>4 DEF Rest, Amounts, PipeTypes
    <3> QED
      BY <1>1, <1>2, <1>a, <2>1, <2>2, <2>4, <3>1
      DEF PipeTypes, Mutex, Amounts, Queue, Places
  <2> QED
    BY <2>3, <2>4
<1>8. CASE Wait(w)
  <2>1. /\ pc[w] = "wait" /\ lock' = lock /\ ret' = ret /\ len' = len
        /\ listed' = listed /\ reader' = reader /\ reads' = reads
    BY <1>8, Zenon DEF Wait, polling
  <2>2. CASE flag
    <3>1. /\ pc' = [pc EXCEPT ![w] = "take"] /\ waiting' = waiting
          /\ flag' = FALSE
      BY <1>8, <2>2, Zenon DEF Wait, Goto
    <3> QED
      BY <1>1, <1>2, <1>a, <2>1, <3>1
      DEF PipeTypes, Mutex, Amounts, Queue, Places
  <2>3. CASE ~flag
    <3>1. /\ pc' = [pc EXCEPT ![w] = "waiting"] /\ waiting' = Append(waiting, w)
          /\ flag' = flag
      BY <1>8, <2>3, Zenon DEF Wait, Goto
    <3>2. /\ waiting' \in Seq(Writers) /\ Len(waiting') = Len(waiting) + 1
          /\ Len(waiting) \in Nat
          /\ \A i \in 1 .. Len(waiting) : waiting'[i] = waiting[i]
          /\ waiting'[Len(waiting) + 1] = w
      BY <1>1, <3>1 DEF PipeTypes
    <3>3. \A i \in 1 .. Len(waiting) : waiting[i] # w
      BY <1>1, <2>1 DEF Queue
    <3>4. \A i \in 1 .. Len(waiting') :
             i \in 1 .. Len(waiting) \/ i = Len(waiting) + 1
      BY <3>2
    <3>5. Queue'
      BY <1>1, <1>a, <3>1, <3>2, <3>3, <3>4 DEF Queue, PipeTypes
    <3>6. PipeTypes' /\ Mutex' /\ Amounts'
      BY <1>1, <1>2, <2>1, <3>1, <3>2 DEF PipeTypes, Mutex, Amounts, Places
    <3> QED
      BY <3>5, <3>6
  <2> QED
    BY <2>2, <2>3
<1>9. CASE Woken(w)
  BY <1>1, <1>2, <1>a, <1>9
  DEF Woken, Goto, PipeTypes, Mutex, Amounts, Queue, Places, queue, polling,
      socket
<1> QED
  BY <1>3, <1>4, <1>5, <1>6, <1>7, <1>8, <1>9 DEF Writer

(* Steps that touch neither a writer nor the ring *)
Aside == UNCHANGED <<fifo, lock, pc, ret, len, flag, waiting, reads>>

LEMMA AsideSteps ==
  ASSUME Poll \/ Again \/ Event \/ Timeout \/ UNCHANGED vars
  PROVE  Aside
<1>1. CASE Poll
  BY <1>1 DEF Poll, Aside, writing, queue
<1>2. CASE Again
  BY <1>2 DEF Again, Aside, writing, queue
<1>3. CASE Event
  BY <1>3 DEF Event, Aside, writing, queue
<1>4. CASE Timeout
  BY <1>4 DEF Timeout, Aside, writing, queue
<1>5. CASE UNCHANGED vars
  BY <1>5 DEF vars, Aside, writing, queue
<1> QED
  BY <1>1, <1>2, <1>3, <1>4, <1>5

LEMMA AsideReader ==
  ASSUME PipeInv, Poll \/ Again \/ Event \/ Timeout \/ UNCHANGED vars
  PROVE  /\ reader' \in {"busy", "poll", "read", "asleep"}
         /\ listed' \in BOOLEAN
         /\ reader' = "read" => reader = "read" \/ HasData
         /\ reader' = "asleep" =>
               \/ reader = "asleep" /\ (listed' <=> listed)
               \/ listed' /\ ~HasData
<1>1. reader \in {"busy", "poll", "read", "asleep"} /\ listed \in BOOLEAN
  BY DEF PipeInv, PipeTypes
<1>2. CASE Poll
  <2>1. CASE readable /\ reader' = "busy" /\ Return
    BY <2>1 DEF Return
  <2>2. CASE HasData /\ reader' = "read" /\ Return
    BY <2>2 DEF Return
  <2>3. CASE reader' = "busy" /\ Return
    BY <2>3 DEF Return
  <2>4. CASE ~HasData /\ reader' = "asleep" /\ listed' = TRUE
    BY <2>4
  <2>5. CASE Spins /\ reader' = reader /\ listed' = listed
    BY <2>5, <1>1 DEF Spins
  <2> QED
    BY <1>2, <2>1, <2>2, <2>3, <2>4, <2>5, Zenon DEF Poll, polling
<1>3. CASE Again
  BY <1>1, <1>3 DEF Again, polling
<1>4. CASE Event
  BY <1>1, <1>4 DEF Event
<1>5. CASE Timeout
  BY <1>1, <1>5 DEF Timeout
<1>6. CASE UNCHANGED vars
  BY <1>1, <1>6 DEF vars, polling
<1> QED
  BY <1>2, <1>3, <1>4, <1>5, <1>6

LEMMA AsideInv ==
  ASSUME PipeInv, Poll \/ Again \/ Event \/ Timeout \/ UNCHANGED vars
  PROVE  PipeInv'
<1>1. Aside
  BY AsideSteps
<1>2. /\ reader' \in {"busy", "poll", "read", "asleep"} /\ listed' \in BOOLEAN
      /\ reader' = "read" => reader = "read" \/ HasData
      /\ reader' = "asleep" =>
               \/ reader = "asleep" /\ (listed' <=> listed)
               \/ listed' /\ ~HasData
  BY AsideReader
<1>3. PipeTypes' /\ Mutex' /\ Amounts' /\ Queue'
  BY <1>1, <1>2 DEF PipeInv, Aside, PipeTypes, Mutex, Amounts, Queue
<1>4. /\ Settled' = Settled /\ Amount' = Amount /\ (Unsettled' <=> Unsettled)
      /\ (HasData' <=> HasData)
  BY <1>1, QuietSettled DEF Aside, HasData
<1>5. ContentInv' /\ RingInv'
  BY <1>1, <1>4, QuietContent DEF Aside, PipeInv
<1>6. ReaderInv'
  BY <1>1, <1>2, <1>4 DEF PipeInv, ReaderInv, Aside
<1>7. RoomInv'
  BY <1>1, <1>4 DEF PipeInv, RoomInv, Aside, Coming, Rest
<1> QED
  BY <1>3, <1>5, <1>6, <1>7 DEF PipeInv

-----------------------------------------------------------------------------
(***************************************************************************)
(* The bytes: one chunk grows by the next bytes of one writer, or a new    *)
(* chunk begins.                                                           *)
(***************************************************************************)
LEMMA BelowNew ==
  ASSUME NEW e \in Nat, NEW m \in 1 .. e, NEW n \in Nat, NEW d \in 1 .. n
  PROVE  m < e + d
OBVIOUS

LEMMA EachPut ==
  ASSUME NEW chunks, NEW new, NEW last \in Nat \ {0}, NEW w \in Writers,
         NEW amount \in [Writers -> Nat], NEW n \in Nat,
         Len(chunks) = last, Len(new) = last,
         \A k \in 1 .. last : chunks[k] \in Seq(Writers \X Nat),
         \A k \in 1 .. last : k # last => new[k] = chunks[k],
         Len(new[last]) = Len(chunks[last]) + n,
         \A i \in 1 .. Len(chunks[last]) : new[last][i] = chunks[last][i],
         \A j \in 1 .. n :
            new[last][Len(chunks[last]) + j] = <<w, amount[w] + j>>,
         Each(chunks, amount)
  PROVE  Each(new, [amount EXCEPT ![w] = @ + n])
<1> DEFINE more == [amount EXCEPT ![w] = @ + n]
           New(k, i) ==
              /\ k = last /\ i > Len(chunks[last])
              /\ new[k][i] = <<w, amount[w] + (i - Len(chunks[last]))>>
              /\ i - Len(chunks[last]) \in 1 .. n
           Old(k, i) == i \in 1 .. Len(chunks[k]) /\ new[k][i] = chunks[k][i]
<1>0. last \in 1 .. last
  OBVIOUS
<1>1. \A k \in 1 .. last : /\ Len(chunks[k]) \in Nat
                           /\ \A i \in 1 .. Len(chunks[k]) :
                                 /\ chunks[k][i] \in Writers \X Nat
                                 /\ chunks[k][i][1] \in Writers
                                 /\ chunks[k][i][2] \in Nat
  OBVIOUS
<1>2. ASSUME NEW k \in 1 .. last, NEW i \in 1 .. Len(new[k])
      PROVE  Old(k, i) \/ New(k, i)
  <2>1. CASE k # last
    BY <2>1
  <2>2. CASE k = last /\ i <= Len(chunks[last])
    BY <1>1, <2>2
  <2>3. CASE k = last /\ ~ (i <= Len(chunks[last]))
    <3> DEFINE j == i - Len(chunks[last])
    <3>1. j \in 1 .. n /\ i = Len(chunks[last]) + j
      BY <1>1, <2>3
    <3>2. new[last][Len(chunks[last]) + j] = <<w, amount[w] + j>>
      <4> HIDE DEF j
      <4> QED
        BY <3>1
    <3> QED
      BY <1>1, <2>3, <3>1, <3>2
  <2> QED
    BY <2>1, <2>2, <2>3
<1>3. /\ more[w] = amount[w] + n /\ amount[w] \in Nat
      /\ \A u \in Writers : /\ amount[u] \in Nat /\ more[u] \in Nat
                            /\ amount[u] <= more[u]
                            /\ u # w => more[u] = amount[u]
  OBVIOUS
<1>4. ASSUME NEW k \in 1 .. last, NEW i \in 1 .. Len(chunks[k])
      PROVE  i \in 1 .. Len(new[k]) /\ new[k][i] = chunks[k][i]
  <2>1. CASE k = last
    BY <1>1, <2>1
  <2>2. CASE k # last
    BY <2>2
  <2> QED
    BY <2>1, <2>2
<1>5. /\ \A k \in 1 .. last : \A i \in 1 .. Len(chunks[k]) :
            chunks[k][i][2] \in 1 .. amount[chunks[k][i][1]]
      /\ \A u \in Writers : \A m \in 1 .. amount[u] :
            \E k \in 1 .. last :
               \E i \in 1 .. Len(chunks[k]) : chunks[k][i] = <<u, m>>
      /\ \A k, l \in 1 .. last :
            \A i \in 1 .. Len(chunks[k]), j \in 1 .. Len(chunks[l]) :
               /\ k < l \/ (k = l /\ i < j)
               /\ chunks[k][i][1] = chunks[l][j][1]
               => chunks[k][i][2] < chunks[l][j][2]
  BY Zenon DEF Each
<1> HIDE DEF more
<1>6. ASSUME NEW k \in 1 .. last, NEW i \in 1 .. Len(new[k])
      PROVE  new[k][i][2] \in 1 .. more[new[k][i][1]]
  <2>1. CASE Old(k, i)
    <3> DEFINE u == chunks[k][i][1]
               m == chunks[k][i][2]
    <3>1. u \in Writers /\ m \in 1 .. amount[u] /\ new[k][i][1] = u /\ new[k][i][2] = m
      BY <1>1, <1>5, <2>1
    <3> HIDE DEF u, m
    <3>2. m \in 1 .. more[u]
      <4>1. amount[u] \in Nat /\ more[u] \in Nat /\ amount[u] <= more[u]
        BY <1>3, <3>1
      <4> QED
        BY <3>1, <4>1
    <3> QED
      BY <3>1, <3>2
  <2>2. CASE New(k, i)
    <3> DEFINE j == i - Len(chunks[last])
    <3>1. j \in 1 .. n /\ new[k][i][1] = w /\ new[k][i][2] = amount[w] + j
      BY <2>2
    <3> HIDE DEF j
    <3>2. amount[w] + j \in 1 .. more[w]
      <4>1. more[w] = amount[w] + n /\ amount[w] \in Nat
        BY <1>3
      <4>2. j \in 1 .. n
        BY <3>1, Zenon
      <4> QED
        BY <4>1, <4>2
    <3> QED
      BY <3>1, <3>2, Zenon
  <2> QED
    BY <1>2, <2>1, <2>2
<1>7. ASSUME NEW u \in Writers, NEW m \in 1 .. more[u]
      PROVE  \E k \in 1 .. last :
                \E i \in 1 .. Len(new[k]) : new[k][i] = <<u, m>>
  <2>1. CASE m <= amount[u]
    <3>1. m \in 1 .. amount[u]
      BY <2>1, <1>3
    <3>2. PICK k \in 1 .. last :
             \E i \in 1 .. Len(chunks[k]) : chunks[k][i] = <<u, m>>
      BY <3>1, <1>5
    <3> QED
      BY <3>2, <1>4
  <2>2. CASE ~ (m <= amount[u])
    <3>1. u = w
      BY <2>2, <1>3
    <3> DEFINE j == m - amount[w]
               i == Len(chunks[last]) + j
    <3>2. j \in 1 .. n /\ amount[w] + j = m
      BY <2>2, <3>1, <1>3
    <3>3. i \in 1 .. Len(new[last])
      BY <3>2, <1>0, <1>1
    <3>4. new[last][i] = <<w, amount[w] + j>>
      <4> HIDE DEF j
      <4> QED
        BY <3>2
    <3>5. new[last][i] = <<u, m>>
      <4> HIDE DEF j, i
      <4> QED
        BY <3>1, <3>2, <3>4
    <3> HIDE DEF j, i
    <3> QED
      BY <3>3, <3>5, <1>0, Zenon
  <2> QED
    BY <2>1, <2>2
<1>8. ASSUME NEW k \in 1 .. last, NEW l \in 1 .. last,
             NEW i \in 1 .. Len(new[k]), NEW j \in 1 .. Len(new[l]),
             k < l \/ (k = l /\ i < j), new[k][i][1] = new[l][j][1]
      PROVE  new[k][i][2] < new[l][j][2]
  <2>1. CASE Old(k, i) /\ Old(l, j)
    <3>1. /\ i \in 1 .. Len(chunks[k]) /\ j \in 1 .. Len(chunks[l])
          /\ chunks[k][i][1] = chunks[l][j][1]
      BY <2>1, <1>8
    <3>2. chunks[k][i][2] < chunks[l][j][2]
      BY <3>1, <1>8, <1>5
    <3> QED
      BY <2>1, <3>2
  <2>2. CASE Old(k, i) /\ New(l, j)
    <3> DEFINE m == chunks[k][i][2]
               d == j - Len(chunks[last])
    <3>1. /\ d \in 1 .. n /\ new[l][j][1] = w /\ new[l][j][2] = amount[w] + d
      BY <2>2
    <3>2. chunks[k][i][1] = w /\ m \in 1 .. amount[w] /\ new[k][i][2] = m
      <4>1. i \in 1 .. Len(chunks[k]) /\ new[k][i] = chunks[k][i]
        BY <2>2
      <4>2. chunks[k][i][1] = w
        BY <4>1, <3>1, <1>8
      <4>3. chunks[k][i][2] \in 1 .. amount[chunks[k][i][1]]
        BY <4>1, <1>5
      <4> QED
        BY <4>1, <4>2, <4>3
    <3> HIDE DEF m, d
    <3>3. m < amount[w] + d
      <4>1. amount[w] \in Nat
        BY <1>3
      <4>2. m \in 1 .. amount[w] /\ d \in 1 .. n
        BY <3>1, <3>2, Zenon
      <4> QED
        BY <4>1, <4>2, BelowNew, Zenon
    <3> QED
      BY <3>1, <3>2, <3>3
  <2>3. CASE New(k, i) /\ Old(l, j)
    <3>1. /\ k = last /\ i > Len(chunks[last]) /\ j \in 1 .. Len(chunks[l])
          /\ l \in 1 .. last
      BY <2>3
    <3>2. l = last /\ i < j
      BY <3>1, <1>8
    <3> QED
      BY <3>1, <3>2, <1>1
  <2>4. CASE New(k, i) /\ New(l, j)
    <3> DEFINE c == i - Len(chunks[last])
               d == j - Len(chunks[last])
    <3>1. /\ c \in 1 .. n /\ new[k][i][2] = amount[w] + c
          /\ d \in 1 .. n /\ new[l][j][2] = amount[w] + d
      BY <2>4
    <3>2. c < d
      BY <2>4, <1>8, <1>1
    <3> HIDE DEF c, d
    <3>3. amount[w] + c < amount[w] + d
      <4>1. amount[w] \in Nat
        BY <1>3
      <4>2. c \in 1 .. n /\ d \in 1 .. n
        BY <3>1, Zenon
      <4> QED
        BY <3>2, <4>1, <4>2
    <3> QED
      BY <3>1, <3>3
  <2> QED
    BY <1>2, <2>1, <2>2, <2>3, <2>4
<1>9. Each(new, more)
  BY <1>6, <1>7, <1>8, Zenon DEF Each
<1> QED
  BY <1>9 DEF more

LEMMA EachRead ==
  ASSUME NEW chunks, NEW new, NEW last \in Nat, NEW amount,
         Len(chunks) = last, Len(new) = last + 1,
         \A k \in 1 .. last : new[k] = chunks[k],
         Len(new[last + 1]) = 0,
         Each(chunks, amount)
  PROVE  Each(new, amount)
<1>1. \A k \in 1 .. Len(new) : \A i \in 1 .. Len(new[k]) :
         k \in 1 .. Len(chunks) /\ new[k] = chunks[k]
  <2> SUFFICES ASSUME NEW k \in 1 .. Len(new), NEW i \in 1 .. Len(new[k])
               PROVE  k \in 1 .. last /\ new[k] = chunks[k]
    OBVIOUS
  <2>1. k \in 1 .. last \/ k = last + 1
    OBVIOUS
  <2> QED
    BY <2>1
<1>2. \A k \in 1 .. Len(chunks) : k \in 1 .. Len(new) /\ new[k] = chunks[k]
  OBVIOUS
<1> QED
  BY <1>1, <1>2 DEF Each

LEMMA PutContent ==
  ASSUME PipeInv, NEW w \in Writers, Put(w)
  PROVE  RingInv' /\ ContentInv'
<1> DEFINE s == SubSeq(Message(w), ret[w] + 1, ret[w] + len')
           c == Ring!Content(fifo)
           n == len'
           a == ret[w]
           last == Len(Chunks)
<1>1. /\ Settled = fifo /\ Amount = ret /\ ~Unsettled
      /\ n \in Nat /\ n <= Rest(w) /\ Rest(w) > 0
      /\ c \in Seq(Writers \X Nat)
      /\ s \in Seq(Writers \X Nat) /\ Len(s) = n
      /\ \A j \in 1 .. n : s[j] = <<w, a + j>>
      /\ Len(c) + n <= Size
      /\ n = Rest(w) \/ Len(c) + n = Size
  BY PutFacts
<1>2. /\ Unsettled'
      /\ Settled' \in RingType /\ Behind(Settled') <= Size
      /\ Ring!DataLen(Settled') # 0
      /\ Ring!Content(Settled') = c \o s
      /\ Amount' = [Amount EXCEPT ![w] = @ + n]
  BY PutFacts
<1> HIDE DEF s, c, n
<1>3. RingInv'
  BY <1>2 DEF RingInv
<1>4. /\ Chunks = Append(reads, c) /\ Chunks' = Append(reads, c \o s)
      /\ reads \in Seq(Seq(Writers \X Nat)) /\ c \o s \in Seq(Writers \X Nat)
      /\ ret \in [Writers -> Nat] /\ Length[w] \in Nat /\ a \in Nat
      /\ Rest(w) = Length[w] - a
  <2>1. reads' = reads
    BY DEF Put
  <2>2. Chunks = Append(reads, c) /\ Chunks' = Append(reads, c \o s)
    BY <1>1, <1>2, <2>1 DEF Chunks, c
  <2> QED
    BY <1>1, <2>2, LengthAssumption DEF PipeInv, PipeTypes, Rest
<1>5. /\ Len(c \o s) = Len(c) + n /\ Len(c) \in Nat
      /\ \A i \in 1 .. Len(c) : (c \o s)[i] = c[i]
      /\ \A j \in 1 .. n : (c \o s)[Len(c) + j] = <<w, a + j>>
  <2>1. /\ Len(c \o s) = Len(c) + n /\ Len(c) \in Nat
        /\ \A i \in 1 .. Len(c) + n :
              (c \o s)[i] = IF i <= Len(c) THEN c[i] ELSE s[i - Len(c)]
    <3>1. c \in Seq(Writers \X Nat) /\ s \in Seq(Writers \X Nat) /\ Len(s) = n
      BY <1>1, Zenon
    <3>2. /\ Len(c \o s) = Len(c) + Len(s)
          /\ \A i \in 1 .. Len(c) + Len(s) :
                (c \o s)[i] = IF i <= Len(c) THEN c[i] ELSE s[i - Len(c)]
      BY <3>1, ConcatProperties, Zenon
    <3>3. Len(c) \in Nat
      BY <3>1
    <3> QED
      BY <3>1, <3>2, <3>3, Zenon
  <2>2. ASSUME NEW i \in 1 .. Len(c) PROVE (c \o s)[i] = c[i]
    BY <2>1, <1>1
  <2>3. ASSUME NEW j \in 1 .. n PROVE (c \o s)[Len(c) + j] = <<w, a + j>>
    <3>1. /\ Len(c) + j \in 1 .. Len(c) + n /\ ~ (Len(c) + j <= Len(c))
          /\ (Len(c) + j) - Len(c) = j
      BY <2>1, <1>1
    <3>2. (c \o s)[Len(c) + j] = s[j]
      BY <2>1, <3>1
    <3> QED
      BY <3>2, <1>1
  <2> QED
    BY <2>1, <2>2, <2>3
<1>6. /\ last \in Nat /\ last \in 1 .. last
      /\ Len(Chunks') = last /\ Chunks[last] = c /\ Chunks'[last] = c \o s
      /\ \A k \in 1 .. last : k # last => Chunks'[k] = Chunks[k]
      /\ \A k \in 1 .. last : Chunks[k] \in Seq(Writers \X Nat)
  BY <1>1, <1>4
<1>7. Each(Chunks, Amount) /\ \A k \in 1 .. last : Cut(Chunks[k])
  BY DEF PipeInv, ContentInv
<1>8. Each(Chunks', Amount')
  <2>1. /\ last \in Nat \ {0} /\ Len(Chunks) = last
        /\ Len(Chunks'[last]) = Len(Chunks[last]) + n
        /\ \A i \in 1 .. Len(Chunks[last]) : Chunks'[last][i] = Chunks[last][i]
        /\ \A j \in 1 .. n :
              Chunks'[last][Len(Chunks[last]) + j] = <<w, Amount[w] + j>>
        /\ Amount \in [Writers -> Nat]
    <3>1. last \in Nat \ {0} /\ Len(Chunks) = last /\ Amount \in [Writers -> Nat]
      BY <1>1, <1>4, <1>6 DEF last
    <3>2. Chunks[last] = c /\ Chunks'[last] = c \o s /\ Amount[w] = a
      BY <1>1, <1>6 DEF a
    <3> QED
      BY <3>1, <3>2, <1>5, Zenon
  <2> DEFINE old == Chunks
             new == Chunks'
             amount == Amount
  <2>2. /\ amount \in [Writers -> Nat] /\ n \in Nat /\ last \in Nat \ {0}
        /\ Len(old) = last /\ Len(new) = last
        /\ \A k \in 1 .. last : old[k] \in Seq(Writers \X Nat)
        /\ \A k \in 1 .. last : k # last => new[k] = old[k]
        /\ Len(new[last]) = Len(old[last]) + n
        /\ \A i \in 1 .. Len(old[last]) : new[last][i] = old[last][i]
        /\ \A j \in 1 .. n :
              new[last][Len(old[last]) + j] = <<w, amount[w] + j>>
        /\ Each(old, amount)
    BY <1>1, <1>6, <1>7, <2>1, Zenon
  <2> HIDE DEF last, old, new, amount
  <2>3. Each(new, [amount EXCEPT ![w] = @ + n])
    BY <2>2, EachPut, Zenon
  <2> QED
    BY <2>3, <1>2 DEF new, amount
<1>9. Cut(c \o s)
  <2> SUFFICES ASSUME NEW p \in 1 .. Len(c) + n
               PROVE  LET e == c \o s
                      IN  \/ e[p][2] = Length[e[p][1]] \/ p = Size
                          \/ p < Len(e) /\ e[p + 1] = <<e[p][1], e[p][2] + 1>>
    BY <1>5 DEF Cut
  <2>0. p \in 1 .. Len(c) \/ p \in Len(c) + 1 .. Len(c) + n
    BY <1>1, <1>5
  <2>1. CASE p \in 1 .. Len(c)
    <3>1. p \in 1 .. Len(c)
      BY <2>1
    <3>2. \/ c[p][2] = Length[c[p][1]] \/ p = Size
          \/ p < Len(c) /\ c[p + 1] = <<c[p][1], c[p][2] + 1>>
      BY <3>1, <1>6, <1>7 DEF Cut
    <3>3. (c \o s)[p] = c[p]
      BY <3>1, <1>5
    <3>4. p < Len(c) => p + 1 \in 1 .. Len(c) /\ p < Len(c) + n
      BY <1>1, <1>5
    <3>5. p < Len(c) => (c \o s)[p + 1] = c[p + 1]
      BY <3>4, <1>5
    <3> QED
      BY <3>2, <3>3, <3>4, <3>5, <1>5
  <2>2. CASE p \in Len(c) + 1 .. Len(c) + n
    <3> DEFINE j == p - Len(c)
    <3>1. j \in 1 .. n /\ p = Len(c) + j
      BY <2>2, <1>1, <1>5
    <3> HIDE DEF j
    <3>2. (c \o s)[p] = <<w, a + j>>
      BY <3>1, <1>5
    <3>3. CASE j < n
      <4>1. j + 1 \in 1 .. n /\ p + 1 = Len(c) + (j + 1) /\ p < Len(c) + n
        BY <3>1, <3>3, <1>1, <1>5
      <4>2. (c \o s)[p + 1] = <<w, a + (j + 1)>>
        BY <4>1, <1>5
      <4>3. a + (j + 1) = (a + j) + 1
        BY <3>1, <1>4
      <4> QED
        BY <3>2, <4>1, <4>2, <4>3, <1>5
    <3>4. CASE ~ (j < n)
      <4>1. j = n
        BY <3>1, <3>4, <1>1
      <4>2. n = Rest(w) => a + j = Length[w]
        BY <4>1, <1>1, <1>4
      <4>3. Len(c) + n = Size => p = Size
        BY <3>1, <4>1
      <4> QED
        BY <3>2, <4>2, <4>3, <1>1
    <3> QED
      BY <3>3, <3>4
  <2> QED
    BY <2>0, <2>1, <2>2, Zenon
<1>10. ContentInv'
  <2>1. \A k \in 1 .. last : Cut(Chunks'[k])
    BY <1>6, <1>7, <1>9
  <2> QED
    BY <1>2, <1>4, <1>6, <1>8, <2>1 DEF ContentInv
<1> QED
  BY <1>3, <1>10

LEMMA ReadContent ==
  ASSUME PipeInv, Read
  PROVE  RingInv' /\ ContentInv' /\ reads' \in Seq(Seq(Writers \X Nat))
<1> DEFINE c == Ring!Content(Settled)
           last == Len(Chunks)
<1>1. /\ ~Unsettled' /\ Amount' = Amount
      /\ Settled' \in RingType /\ Behind(Settled') <= Size
      /\ Ring!Content(Settled') = <<>>
      /\ reads' = Append(reads, c)
  BY ReadFacts
<1>2. /\ c \in Seq(Writers \X Nat) /\ reads \in Seq(Seq(Writers \X Nat))
      /\ Each(Chunks, Amount) /\ \A k \in 1 .. last : Cut(Chunks[k])
  BY DEF PipeInv, PipeTypes, ContentInv
<1>3. Chunks = Append(reads, c) /\ Chunks' = Append(Append(reads, c), <<>>)
  BY <1>1 DEF Chunks
<1> HIDE DEF c
<1>4. reads' \in Seq(Seq(Writers \X Nat))
  BY <1>1, <1>2
<1>5. /\ last \in Nat /\ Len(Chunks') = last + 1
      /\ \A k \in 1 .. last : Chunks'[k] = Chunks[k]
      /\ Chunks'[last + 1] = <<>> /\ Len(Chunks'[last + 1]) = 0
  BY <1>2, <1>3
<1>6. Each(Chunks', Amount')
  <2> DEFINE old == Chunks
             new == Chunks'
             amount == Amount
  <2>1. Len(old) = last
    OBVIOUS
  <2> HIDE DEF last, old, new, amount
  <2>2. Each(new, amount)
    BY <1>2, <1>5, <2>1, EachRead DEF old, new, amount
  <2> QED
    BY <2>2, <1>1 DEF new, amount
<1>7. \A k \in 1 .. Len(Chunks') : Cut(Chunks'[k])
  <2>1. Cut(Chunks'[last + 1])
    BY <1>5 DEF Cut
  <2>2. \A k \in 1 .. last : Cut(Chunks'[k])
    BY <1>2, <1>5
  <2>3. \A k \in 1 .. Len(Chunks') : k \in 1 .. last \/ k = last + 1
    BY <1>5
  <2> QED
    BY <2>1, <2>2, <2>3
<1>8. RingInv' /\ ContentInv'
  BY <1>1, <1>6, <1>7 DEF RingInv, ContentInv
<1> QED
  BY <1>4, <1>8

-----------------------------------------------------------------------------
(***************************************************************************)
(* Every step of a writer, the reader's steps, and the invariant.          *)
(***************************************************************************)
LEMMA WriterRing ==
  ASSUME PipeInv, NEW w \in Writers, Writer(w)
  PROVE  RingInv' /\ ContentInv'
<1>1. CASE Put(w)
  BY <1>1, PutContent
<1>2. CASE PutIndex(w)
  <2>1. /\ Settled' = Settled /\ Amount' = Amount /\ ~Unsettled'
    BY <1>2, IndexFacts
  <2>2. reads' = reads
    BY <1>2 DEF PutIndex
  <2> QED
    BY <2>1, <2>2, QuietContent DEF PipeInv
<1>3. CASE Take(w) \/ Release(w) \/ Wake(w) \/ Wait(w) \/ Woken(w)
  <2>1. UNCHANGED <<fifo, ret, len, reads>>
    BY <1>3 DEF Take, Release, Wake, Wait, Woken
  <2>2. pc[w] # "index" /\ \E q : q # "index" /\ pc' = [pc EXCEPT ![w] = q]
    <3>1. CASE Take(w) \/ Release(w) \/ Woken(w)
      BY <3>1 DEF Take, Release, Woken, Goto
    <3>2. CASE Wake(w)
      BY <3>2 DEF Wake, Goto
    <3>3. CASE Wait(w)
      BY <3>3 DEF Wait, Goto
    <3> QED
      BY <1>3, <3>1, <3>2, <3>3
  <2>3. \A u \in Writers : pc'[u] = "index" <=> pc[u] = "index"
    BY <2>2 DEF PipeInv, PipeTypes
  <2>4. /\ Settled' = Settled /\ Amount' = Amount /\ (Unsettled' <=> Unsettled)
    BY <2>1, <2>3, QuietSettled
  <2> QED
    BY <2>1, <2>4, QuietContent DEF PipeInv
<1> QED
  BY <1>1, <1>2, <1>3 DEF Writer

LEMMA WriterRoom ==
  ASSUME PipeInv, NEW w \in Writers, Writer(w)
  PROVE  ReaderInv' /\ RoomInv'
<1>1. /\ pc \in [Writers -> Places] /\ Amounts /\ ReaderInv /\ RoomInv
      /\ flag \in BOOLEAN
  BY DEF PipeInv, PipeTypes
<1>2. \A u \in Writers : /\ Length[u] \in Nat /\ ret[u] \in Nat
                        /\ Rest(u) = Length[u] - ret[u]
  BY LengthAssumption DEF PipeInv, PipeTypes, Rest
<1>3. CASE Put(w)
  <2>1. Unsettled'
    BY <1>3, PutFacts
  <2>2. /\ pc[w] = "put" /\ pc' = [pc EXCEPT ![w] = "index"]
        /\ flag' = flag /\ waiting' = waiting
        /\ reader' = reader /\ listed' = listed
    BY <1>3, Zenon DEF Put, Goto, queue, polling
  <2>3. pc'[w] = "index" /\ \A u \in Writers : pc[u] = "woken" => pc'[u] = "woken"
    BY <2>2, <1>1
  <2>4. ReaderInv'
    BY <1>1, <2>1, <2>2, <2>3, Zenon DEF ReaderInv
  <2>5. RoomInv'
    BY <1>1, <2>1, <2>2, <2>3, Zenon DEF RoomInv
  <2> QED
    BY <2>4, <2>5
<1>4. CASE PutIndex(w)
  <2>1. HasData'
    BY <1>4, IndexFacts
  <2>2. /\ pc[w] = "index" /\ pc' = [pc EXCEPT ![w] = "release"]
        /\ flag' = flag /\ waiting' = waiting
        /\ reader' = reader /\ listed' = listed
    BY <1>4, Zenon DEF PutIndex, Goto, queue, polling
  <2>3. pc'[w] = "release" /\ \A u \in Writers : pc[u] = "woken" => pc'[u] = "woken"
    BY <2>2, <1>1
  <2>4. ReaderInv'
    BY <1>1, <2>1, <2>2, <2>3 DEF ReaderInv
  <2>5. RoomInv'
    BY <1>1, <2>1, <2>2, <2>3, Zenon DEF RoomInv
  <2> QED
    BY <2>4, <2>5
<1>5. ASSUME UNCHANGED <<fifo, ret>>,
             \A u \in Writers : pc'[u] = "index" <=> pc[u] = "index"
      PROVE  /\ HasData' <=> HasData
             /\ Unsettled' <=> Unsettled
             /\ \A u \in Writers : Rest(u)' = Rest(u)
  <2>1. HasData' <=> HasData
    BY <1>5 DEF HasData
  <2>2. Unsettled' <=> Unsettled
    BY <1>5 DEF Unsettled
  <2>3. \A u \in Writers : Rest(u)' = Rest(u)
    BY <1>5 DEF Rest
  <2> QED
    BY <2>1, <2>2, <2>3
<1>6. CASE Take(w)
  <2>1. /\ pc[w] = "take" /\ pc' = [pc EXCEPT ![w] = "put"]
        /\ fifo' = fifo /\ ret' = ret
        /\ flag' = flag /\ waiting' = waiting
        /\ reader' = reader /\ listed' = listed
    BY <1>6, Zenon DEF Take, Goto, queue, polling
  <2>2. \A u \in Writers : pc'[u] = IF u = w THEN "put" ELSE pc[u]
    BY <2>1, <1>1
  <2>3. /\ HasData' <=> HasData
        /\ Unsettled' <=> Unsettled
        /\ \A u \in Writers : Rest(u)' = Rest(u)
    BY <2>1, <2>2, <1>5
  <2>4. ReaderInv'
    BY <1>1, <2>1, <2>2, <2>3 DEF ReaderInv
  <2>5. Coming => Coming'
    BY <2>1, <2>2, <2>3 DEF Coming
  <2>6. RoomInv'
    BY <1>1, <2>1, <2>2, <2>3, <2>5 DEF RoomInv
  <2> QED
    BY <2>4, <2>6
<1>7. CASE Release(w)
  <2>1. /\ pc[w] = "release" /\ pc' = [pc EXCEPT ![w] = "wake"]
        /\ fifo' = fifo /\ ret' = ret
        /\ flag' = flag /\ waiting' = waiting
        /\ reader' = reader /\ listed' = listed
    BY <1>7, Zenon DEF Release, Goto, queue, polling
  <2>2. \A u \in Writers : pc'[u] = IF u = w THEN "wake" ELSE pc[u]
    BY <2>1, <1>1
  <2>3. /\ HasData' <=> HasData
        /\ Unsettled' <=> Unsettled
        /\ \A u \in Writers : Rest(u)' = Rest(u)
    BY <2>1, <2>2, <1>5
  <2>4. ReaderInv'
    BY <1>1, <2>1, <2>2, <2>3 DEF ReaderInv
  <2>5. Coming => Coming'
    BY <2>1, <2>2, <2>3 DEF Coming
  <2>6. RoomInv'
    BY <1>1, <2>1, <2>2, <2>3, <2>5 DEF RoomInv
  <2> QED
    BY <2>4, <2>6
<1>8. CASE Wake(w)
  <2>1. /\ pc[w] = "wake" /\ fifo' = fifo /\ ret' = ret
        /\ pc' = [pc EXCEPT ![w] = IF Rest(w) = 0 THEN "done" ELSE "wait"]
        /\ flag' = flag /\ waiting' = waiting
    BY <1>8, Zenon DEF Wake, Goto, queue
  <2>2. /\ \A u \in Writers : u # w => pc'[u] = pc[u]
        /\ pc'[w] \in {"done", "wait"}
    BY <2>1, <1>1
  <2>3. /\ HasData' <=> HasData
        /\ Unsettled' <=> Unsettled
        /\ \A u \in Writers : Rest(u)' = Rest(u)
    BY <2>1, <2>2, <1>5
  <2>4. /\ reader' # "asleep"
        /\ reader' = "read" => reader = "read"
    <3>1. CASE listed
      BY <1>8, <3>1 DEF Wake
    <3>2. CASE ~listed
      BY <1>1, <1>8, <3>2 DEF Wake, ReaderInv
    <3> QED
      BY <3>1, <3>2
  <2>5. ReaderInv'
    BY <1>1, <2>3, <2>4 DEF ReaderInv
  <2>6. Coming => Coming'
    BY <2>1, <2>2, <2>3 DEF Coming
  <2>7. RoomInv'
    BY <1>1, <2>1, <2>2, <2>3, <2>6 DEF RoomInv
  <2> QED
    BY <2>5, <2>7
<1>9. CASE Wait(w)
  <2>1. /\ pc[w] = "wait" /\ fifo' = fifo /\ ret' = ret
        /\ reader' = reader /\ listed' = listed
    BY <1>9, Zenon DEF Wait, polling
  <2>2. \/ /\ flag /\ flag' = FALSE /\ waiting' = waiting
           /\ pc' = [pc EXCEPT ![w] = "take"]
        \/ ~flag /\ flag' = flag /\ pc' = [pc EXCEPT ![w] = "waiting"]
    BY <1>9, Zenon DEF Wait, Goto
  <2>3. /\ \A u \in Writers : u # w => pc'[u] = pc[u]
        /\ pc'[w] = IF flag THEN "take" ELSE "waiting"
    BY <2>2, <1>1
  <2>4. /\ HasData' <=> HasData
        /\ Unsettled' <=> Unsettled
        /\ \A u \in Writers : Rest(u)' = Rest(u)
    BY <2>1, <2>3, <1>5
  <2>5. ReaderInv'
    BY <1>1, <2>1, <2>3, <2>4 DEF ReaderInv
  <2>6. Coming => Coming'
    BY <2>1, <2>3, <2>4 DEF Coming
  <2>7. ~flag'
    BY <2>2
  <2>8. flag => Coming'
    <3>1. Rest(w) > 0
      BY <1>1, <1>2, <2>1 DEF Amounts
    <3> QED
      BY <2>3, <2>4, <3>1 DEF Coming
  <2>9. RoomInv'
    BY <1>1, <2>4, <2>6, <2>7, <2>8 DEF RoomInv
  <2> QED
    BY <2>5, <2>9
<1>10. CASE Woken(w)
  <2>1. /\ pc[w] = "woken" /\ fifo' = fifo /\ ret' = ret /\ flag' = FALSE
        /\ reader' = reader /\ listed' = listed
        /\ pc' = [pc EXCEPT ![w] = "take"]
    BY <1>10, Zenon DEF Woken, Goto, polling
  <2>2. \A u \in Writers : pc'[u] = IF u = w THEN "take" ELSE pc[u]
    BY <2>1, <1>1
  <2>3. /\ HasData' <=> HasData
        /\ Unsettled' <=> Unsettled
        /\ \A u \in Writers : Rest(u)' = Rest(u)
    BY <2>1, <2>2, <1>5
  <2>4. ReaderInv'
    BY <1>1, <2>1, <2>2, <2>3 DEF ReaderInv
  <2>5. Coming'
    <3>1. Rest(w) > 0
      BY <1>1, <1>2, <2>1 DEF Amounts
    <3> QED
      BY <2>2, <2>3, <3>1 DEF Coming
  <2>6. RoomInv'
    BY <2>1, <2>5 DEF RoomInv
  <2> QED
    BY <2>4, <2>6
<1> QED
  BY <1>3, <1>4, <1>6, <1>7, <1>8, <1>9, <1>10 DEF Writer

LEMMA ReadInv ==
  ASSUME PipeInv, Read
  PROVE  PipeInv'
<1>1. RingInv' /\ ContentInv' /\ reads' \in Seq(Seq(Writers \X Nat))
  BY ReadContent
<1>2. /\ \A w \in Writers :
            pc'[w] = IF waiting # <<>> /\ w = Head(waiting) THEN "woken"
                     ELSE pc[w]
      /\ waiting # <<>> => Head(waiting) \in Writers /\ pc[Head(waiting)] = "waiting"
  BY ReadFacts
<1>3. /\ lock' = lock /\ ret' = ret /\ len' = len
      /\ reader' = "busy" /\ flag' = TRUE
      /\ listed' = listed
      /\ waiting' = IF waiting = <<>> THEN <<>> ELSE Tail(waiting)
      /\ pc' = pc \/ pc' = [pc EXCEPT ![Head(waiting)] = "woken"]
  BY Zenon DEF Read, WakeWriter, Goto, polling
<1>4. PipeTypes /\ Mutex /\ Amounts /\ Queue /\ RoomInv
  BY DEF PipeInv
<1>5. /\ waiting' \in Seq(Writers)
      /\ waiting = <<>> => Len(waiting') = 0
      /\ waiting # <<>> => /\ Len(waiting') = Len(waiting) - 1 /\ Len(waiting) \in Nat
                           /\ 1 \in 1 .. Len(waiting)
                           /\ Head(waiting) = waiting[1]
                           /\ \A i \in 1 .. Len(waiting') :
                                 waiting'[i] = waiting[i + 1]
  <2>1. CASE waiting = <<>>
    BY <1>3, <2>1
  <2>2. CASE waiting # <<>>
    <3>1. waiting' = Tail(waiting) /\ waiting \in Seq(Writers)
      BY <1>3, <1>4, <2>2 DEF PipeTypes
    <3> QED
      BY <2>2, <3>1, HeadTailProperties, LenProperties
  <2> QED
    BY <2>1, <2>2
<1>6. PipeTypes'
  <2>1. pc' \in [Writers -> Places]
    BY <1>3, <1>4 DEF PipeTypes, Places
  <2>2. flag' \in BOOLEAN /\ listed' \in BOOLEAN
    BY <1>3, <1>4, Zenon DEF PipeTypes
  <2> QED
    BY <1>1, <1>3, <1>4, <1>5, <2>1, <2>2 DEF PipeTypes
<1>7. Mutex' /\ Amounts'
  BY <1>2, <1>3, <1>4 DEF Mutex, Amounts
<1>8. Queue'
  <2>1. CASE waiting = <<>>
    BY <1>5, <2>1 DEF Queue
  <2>2. CASE waiting # <<>>
    <3>1. \A i \in 1 .. Len(waiting') :
             /\ i + 1 \in 1 .. Len(waiting) /\ waiting'[i] = waiting[i + 1]
             /\ waiting[i + 1] # waiting[1] /\ waiting[i + 1] \in Writers
             /\ pc[waiting[i + 1]] = "waiting"
      <4>1. ASSUME NEW i \in 1 .. Len(waiting')
            PROVE  i + 1 \in 1 .. Len(waiting) /\ i + 1 # 1
        BY <1>5, <2>2
      <4> QED
        BY <4>1, <1>4, <1>5, <2>2, LenProperties DEF Queue, PipeTypes
    <3>2. \A i \in 1 .. Len(waiting') : pc'[waiting'[i]] = "waiting"
      BY <1>2, <1>5, <2>2, <3>1
    <3>3. ASSUME NEW i \in 1 .. Len(waiting'), NEW j \in 1 .. Len(waiting'), i # j
          PROVE  waiting'[i] # waiting'[j]
      <4>1. i + 1 # j + 1
        BY <3>3
      <4> QED
        BY <1>4, <3>1, <4>1 DEF Queue
    <3> QED
      BY <3>2, <3>3 DEF Queue
  <2> QED
    BY <2>1, <2>2
<1>9. ReaderInv'
  BY <1>3 DEF ReaderInv
<1>10. RoomInv'
  <2>1. waiting' # <<>> => \E w \in Writers : pc'[w] = "woken"
    BY <1>2, <1>3
  <2> QED
    BY <1>3, <2>1, Zenon DEF RoomInv
<1> QED
  BY <1>1, <1>6, <1>7, <1>8, <1>9, <1>10 DEF PipeInv

LEMMA PipeInductive ==
  ASSUME PipeInv, [Next]_vars
  PROVE  PipeInv'
<1>1. ASSUME NEW w \in Writers, Writer(w) PROVE PipeInv'
  BY <1>1, WriterSteps, WriterRing, WriterRoom DEF PipeInv
<1>2. CASE Read
  BY <1>2, ReadInv
<1>3. CASE Poll \/ Again \/ Event \/ Timeout \/ UNCHANGED vars
  BY <1>3, AsideInv
<1> QED
  BY <1>1, <1>2, <1>3 DEF Next, Reader

LEMMA PipeIsSound == Spec => []PipeInv
<1>1. PipeInv /\ [Next]_vars => PipeInv'
  BY PipeInductive
<1> QED
  BY <1>1, InitPipe, PTL DEF Spec

-----------------------------------------------------------------------------
(***************************************************************************)
(* The invariant says what the properties say.                             *)
(***************************************************************************)
LEMMA EachHolds ==
  ASSUME NEW chunks \in Seq(Seq(Writers \X Nat)), NEW amount, Each(chunks, amount)
  PROVE  Holds(chunks, amount)
<1> DEFINE Byte(x) == chunks[x[1]][x[2]]
<1>1. \A x : x \in Spots(chunks) <=>
         \E k \in 1 .. Len(chunks) : \E i \in 1 .. Len(chunks[k]) : x = <<k, i>>
  <2> SUFFICES ASSUME NEW x
               PROVE  x \in Spots(chunks) <=>
                         \E k \in 1 .. Len(chunks) :
                            \E i \in 1 .. Len(chunks[k]) : x = <<k, i>>
    OBVIOUS
  <2>1. DOMAIN chunks = 1 .. Len(chunks)
    BY LenProperties
  <2>2. x \in Spots(chunks) <=>
           \E k \in 1 .. Len(chunks) : x \in {k} \X (1 .. Len(chunks[k]))
    BY <2>1, Zenon DEF Spots
  <2>3. ASSUME NEW k \in 1 .. Len(chunks)
        PROVE  x \in {k} \X (1 .. Len(chunks[k])) <=>
                  \E i \in 1 .. Len(chunks[k]) : x = <<k, i>>
    OBVIOUS
  <2> QED
    BY <2>2, <2>3
<1>2. \A k \in 1 .. Len(chunks) : \A i \in 1 .. Len(chunks[k]) :
         chunks[k][i] \in Writers \X Nat
  OBVIOUS
<1>3. {Byte(x) : x \in Spots(chunks)} = UNION {{w} \X (1 .. amount[w]) : w \in Writers}
  <2>1. ASSUME NEW x \in Spots(chunks)
        PROVE  Byte(x) \in UNION {{w} \X (1 .. amount[w]) : w \in Writers}
    <3>1. PICK k \in 1 .. Len(chunks) :
             \E i \in 1 .. Len(chunks[k]) : x = <<k, i>>
      BY <1>1
    <3>2. PICK i \in 1 .. Len(chunks[k]) : x = <<k, i>>
      BY <3>1
    <3>3. /\ Byte(x) = chunks[k][i] /\ chunks[k][i] \in Writers \X Nat
          /\ chunks[k][i][2] \in 1 .. amount[chunks[k][i][1]]
      BY <3>2, <1>2 DEF Each
    <3> HIDE DEF Byte
    <3> QED
      BY <3>3
  <2>2. ASSUME NEW w \in Writers, NEW n \in 1 .. amount[w]
        PROVE  \E x \in Spots(chunks) : Byte(x) = <<w, n>>
    <3>1. PICK k \in 1 .. Len(chunks) :
             \E i \in 1 .. Len(chunks[k]) : chunks[k][i] = <<w, n>>
      BY DEF Each
    <3>2. PICK i \in 1 .. Len(chunks[k]) : chunks[k][i] = <<w, n>>
      BY <3>1
    <3>3. <<k, i>> \in Spots(chunks) /\ Byte(<<k, i>>) = <<w, n>>
      BY <3>2, <1>1
    <3> QED
      BY <3>3, Zenon
  <2> HIDE DEF Byte
  <2>3. ASSUME NEW e \in UNION {{w} \X (1 .. amount[w]) : w \in Writers}
        PROVE  e \in {Byte(x) : x \in Spots(chunks)}
    <3>1. PICK w \in Writers : e \in {w} \X (1 .. amount[w])
      BY Zenon
    <3>2. \E n \in 1 .. amount[w] : e = <<w, n>>
      BY <3>1
    <3>3. \E x \in Spots(chunks) : Byte(x) = e
      BY <2>2, <3>2
    <3> QED
      BY <3>3, Zenon
  <2>4. ASSUME NEW e \in {Byte(x) : x \in Spots(chunks)}
        PROVE  e \in UNION {{w} \X (1 .. amount[w]) : w \in Writers}
    BY <2>1, Zenon
  <2> QED
    BY <2>3, <2>4, Zenon
<1>4. ASSUME NEW x \in Spots(chunks), NEW y \in Spots(chunks),
             Earlier(x, y), Byte(x)[1] = Byte(y)[1]
      PROVE  Byte(x)[2] < Byte(y)[2]
  <2>1. PICK k \in 1 .. Len(chunks) :
           \E i \in 1 .. Len(chunks[k]) : x = <<k, i>>
    BY <1>1
  <2>2. PICK i \in 1 .. Len(chunks[k]) : x = <<k, i>>
    BY <2>1
  <2>3. PICK l \in 1 .. Len(chunks) :
           \E j \in 1 .. Len(chunks[l]) : y = <<l, j>>
    BY <1>1
  <2>4. PICK j \in 1 .. Len(chunks[l]) : y = <<l, j>>
    BY <2>3
  <2>5. Byte(x) = chunks[k][i] /\ Byte(y) = chunks[l][j]
    BY <2>2, <2>4
  <2>6. k < l \/ (k = l /\ i < j)
    BY <2>2, <2>4, <1>4 DEF Earlier
  <2> QED
    BY <2>5, <2>6, <1>4 DEF Each
<1> QED
  BY <1>3, <1>4 DEF Holds

LEMMA InvHolds == PipeInv => NothingLost
<1> SUFFICES ASSUME PipeInv, ~Unsettled
             PROVE  Holds(Append(reads, Ring!Content(fifo)), ret)
  BY DEF NothingLost
<1>1. Settled = fifo
  BY Zenon DEF Settled
<1>2. Amount = ret
  BY DEF Amount, Unsettled, PipeInv, PipeTypes
<1>3. /\ Chunks = Append(reads, Ring!Content(fifo)) /\ Each(Chunks, ret)
      /\ reads \in Seq(Seq(Writers \X Nat))
      /\ Ring!Content(fifo) \in Seq(Writers \X Nat)
  BY <1>1, <1>2 DEF PipeInv, PipeTypes, ContentInv, Chunks
<1>4. Chunks \in Seq(Seq(Writers \X Nat))
  BY <1>3
<1>5. Holds(Chunks, ret)
  BY <1>3, <1>4, EachHolds
<1> QED
  BY <1>3, <1>5

LEMMA InvCut == PipeInv => CutOnlyWhenFull
<1> SUFFICES ASSUME PipeInv, NEW k \in 1 .. Len(reads), NEW p \in 1 .. Size,
                    p <= Len(reads[k])
             PROVE  LET b == reads[k][p]
                    IN  \/ b[2] = Length[b[1]] \/ p = Size
                        \/ p < Len(reads[k]) /\ reads[k][p + 1] = <<b[1], b[2] + 1>>
  BY DEF CutOnlyWhenFull
<1>1. reads \in Seq(Seq(Writers \X Nat))
  BY DEF PipeInv, PipeTypes
<1>2. k \in 1 .. Len(Chunks) /\ Chunks[k] = reads[k]
  BY <1>1 DEF Chunks
<1>3. Cut(reads[k])
  BY <1>2 DEF PipeInv, ContentInv
<1>4. p \in 1 .. Len(reads[k])
  BY <1>1
<1> QED
  BY <1>3, <1>4, Zenon DEF Cut

LEMMA InvWakes == PipeInv => NoLostWakeup
<1> SUFFICES ASSUME PipeInv PROVE NoLostWakeup
  OBVIOUS
<1>1. \A u \in Writers :
        /\ Rest(u) \in Int
        /\ pc[u] \in {"take", "put", "index", "wait", "waiting", "woken"} => Rest(u) > 0
  BY LengthAssumption DEF PipeInv, PipeTypes, Amounts, Rest
<1>2. RoomIsTaken
  <2> SUFFICES ASSUME waiting # <<>>, ~HasData
               PROVE  \E w \in Writers :
                         /\ pc[w] \in {"take", "put", "index", "woken", "wait"}
                         /\ Rest(w) > 0
    BY DEF RoomIsTaken
  <2>1. CASE Unsettled
    BY <2>1, <1>1 DEF Unsettled
  <2>2. CASE ~Unsettled
    <3>1. waiting[1] \in Writers /\ pc[waiting[1]] = "waiting"
      <4>1. 1 \in 1 .. Len(waiting) /\ waiting[1] \in Writers
        BY HeadTailProperties, LenProperties DEF PipeInv, PipeTypes
      <4> QED
        BY <4>1 DEF PipeInv, Queue
    <3>2. Rest(waiting[1]) > 0
      BY <3>1, <1>1
    <3>3. flag \/ Coming
      BY <2>2, <3>1, <3>2, Zenon DEF PipeInv, RoomInv
    <3>4. CASE flag
      <4>1. PICK w \in Writers : pc[w] = "woken"
        BY <3>4 DEF PipeInv, RoomInv
      <4> QED
        BY <4>1, <1>1
    <3>5. CASE Coming
      BY <3>5 DEF Coming
    <3> QED
      BY <3>3, <3>4, <3>5
  <2> QED
    BY <2>1, <2>2
<1>3. BytesAreRead
  BY DEF BytesAreRead, PipeInv, ReaderInv
<1>4. ReadFindsBytes
  <2>1. lock = NoThread => ~Unsettled
    BY NoThreadAssumption DEF Unsettled, PipeInv, Mutex
  <2> QED
    BY <2>1 DEF ReadFindsBytes, PipeInv, ReaderInv
<1> QED
  BY <1>2, <1>3, <1>4 DEF NoLostWakeup

(* The bytes each writer has written are in what was read and in the ring, *)
(* all of them, each once and in its order, whatever wraps around          *)
(* (pipe.c:160, 220-222; ringbuffer.c:55-119).                             *)
THEOREM BytesAreKept == Spec => []NothingLost
BY PipeIsSound, InvHolds, PTL

(* A message is cut in two reads only where the pipe was full, so the      *)
(* worker, who takes a read for a message (pipe.c:220-245), is right       *)
(* whenever the pipe has room.                                             *)
THEOREM FullPipesCut == Spec => []CutOnlyWhenFull
BY PipeIsSound, InvCut, PTL

(* No writer waits for room, and the worker does not sleep beside bytes,   *)
(* without a thread on its way to change it; a read finds bytes            *)
(* (pipe.c:184, 238-252; waitqueue.c:46-120; poll.c:96-114).               *)
THEOREM PipeWakes == Spec => []NoLostWakeup
BY PipeIsSound, InvWakes, PTL

-----------------------------------------------------------------------------
(***************************************************************************)
(* The time.  While the connection works and no ping is owed, the worker   *)
(* stands in the first select, whose timeout runs out exactly Keep - 10    *)
(* seconds after tick_ping, and the broker heard of the client at most     *)
(* Delay seconds before tick_ping.  While one is owed, whatever the        *)
(* timeouts are, the broker has heard of the client since it was sent, and *)
(* it answers within Delay seconds.                                        *)
(***************************************************************************)
Heard ==
    Connected /\ link = "up" =>
       IF owed = None
       THEN /\ worker = "select" /\ wait >= 0 /\ elapsed + wait = Keep - 10
            /\ idle <= elapsed + Delay
       ELSE idle <= owed

LEMMA PunctualTimeout ==
    ASSUME NEW e \in Nat, e <= Keep - 10
    PROVE  TimeoutAfter(e) = Keep - 10 - e
<1>1. ~(e > Keep - 5) /\ ~(e > Keep - 10)
  BY KeepAssumption
<1> QED
  BY <1>1 DEF TimeoutAfter

LEMMA TimeoutRange ==
    ASSUME NEW e \in Nat
    PROVE  TimeoutAfter(e) \in Int /\ TimeoutAfter(e) \in {Forever} \cup (0 .. Keep)
BY KeepAssumption DEF TimeoutAfter, Forever

(* Whenever packets arrive, the timeouts are no limit or at most the       *)
(* interval: a timeout that would be negative is none (line 1070).         *)
THEOREM TypesAreKept == KeepAliveSpec => []TypeOK
<1> USE KeepAssumption
<1>1. KeepAliveInit => TypeOK
  <2> SUFFICES ASSUME KeepAliveInit PROVE TypeOK
    OBVIOUS
  <2>1. /\ worker = "select" /\ wait \in Int /\ wait \in 0 .. Keep
        /\ elapsed \in 0 .. Cap /\ idle \in 0 .. Cap /\ link = "up"
    BY DEF KeepAliveInit, Cap
  <2>2. owed = None /\ unacked \in BOOLEAN
    BY Zenon DEF KeepAliveInit
  <2> QED
    BY <2>1, <2>2 DEF TypeOK
<1>2. TypeOK /\ [KeepAliveNext]_timing => TypeOK'
  <2> SUFFICES ASSUME TypeOK, [KeepAliveNext]_timing PROVE TypeOK'
    OBVIOUS
  <2> DEFINE Steps == \/ Ping \/ NoPingResp \/ PingResp \/ Packet \/ Publish
                      \/ Reconnect \/ Tick \/ Silence \/ Closed \/ UNCHANGED timing
  <2>1. Steps
    BY DEF KeepAliveNext
  <2>2. unacked' \in BOOLEAN /\ link' \in {"up", "silent"}
    BY <2>1, Zenon
    DEF Ping, NoPingResp, PingResp, Packet, Publish, Reconnect, Tick, Silence,
        Closed, Sent, timing, TypeOK
  <2>3. idle' \in 0 .. Cap /\ elapsed' \in 0 .. Cap /\ elapsed' \in Nat
    BY <2>1
    DEF Ping, NoPingResp, PingResp, Packet, Publish, Reconnect, Tick, Silence,
        Closed, Sent, Later, Cap, timing, TypeOK
  <2>6. owed' \in {None} \cup (0 .. Delay)
    <3> USE DelayAssumption DEF None
    <3>1. CASE Ping
      BY <3>1 DEF Ping, TypeOK
    <3>2. CASE PingResp
      BY <3>2 DEF PingResp, TypeOK
    <3>3. CASE Reconnect
      BY <3>3 DEF Reconnect
    <3>4. CASE Tick
      BY <3>4 DEF Tick, TypeOK
    <3>5. CASE \/ NoPingResp \/ Packet \/ Publish \/ Silence \/ Closed
               \/ UNCHANGED timing
      BY <3>5 DEF NoPingResp, Packet, Publish, Silence, Closed, timing, TypeOK
    <3> QED
      BY <2>1, <3>1, <3>2, <3>3, <3>4, <3>5
  <2>4. TimeoutAfter(elapsed') \in Int /\ TimeoutAfter(elapsed') \in {Forever} \cup (0 .. Keep)
    BY <2>3, TimeoutRange
  <2>5. /\ worker' \in {"select", "pingresp", "left"} /\ wait' \in Int
        /\ worker' = "pingresp" => wait' \in 0 .. 5
        /\ worker' = "select" => wait' \in {Forever} \cup (0 .. Keep)
    <3>1. CASE PingResp \/ Packet \/ Publish
      BY <2>4, <3>1 DEF PingResp, Packet, Publish, Select
    <3>2. CASE Tick
      BY <3>2 DEF Tick, Connected, Forever, TypeOK
    <3>3. CASE Ping \/ NoPingResp \/ Reconnect \/ Silence \/ Closed \/ UNCHANGED timing
      BY <3>3 DEF Ping, NoPingResp, Reconnect, Silence, Closed, timing, TypeOK
    <3> QED
      BY <2>1, <3>1, <3>2, <3>3
  <2> QED
    BY <2>2, <2>3, <2>5, <2>6 DEF TypeOK
<1> QED
  BY <1>1, <1>2, PTL DEF KeepAliveSpec

LEMMA NextHeard ==
    ASSUME TypeOK, Heard, [KeepAliveNext]_timing
    PROVE  Heard'
<1> USE KeepAssumption, DelayAssumption DEF Forever, None, Heard
<1>1. /\ wait \in Int /\ elapsed \in Nat /\ idle \in Nat /\ elapsed <= Cap
      /\ owed \in {None} \cup Nat
  BY DEF TypeOK, Cap
<1>2. CASE Ping
  BY <1>1, <1>2 DEF Ping, Sent, Connected
<1>3. CASE NoPingResp
  BY <1>3 DEF NoPingResp, Connected
<1>4. CASE PingResp
  <2>1. /\ Connected /\ link = "up" /\ owed # None /\ idle <= owed
        /\ owed' \in {None} \cup (idle .. owed - 1)
        /\ elapsed' = 0 /\ idle' = idle
        /\ worker' = "select" /\ wait' = TimeoutAfter(elapsed')
    BY <1>4, <1>1 DEF PingResp, Select
  <2>2. wait' = Keep - 10
    BY <2>1, PunctualTimeout
  <2>3. owed <= Delay
    BY <2>1 DEF TypeOK
  <2> QED
    BY <1>1, <2>1, <2>2, <2>3
<1>5. CASE Packet \/ Publish
  <2>1. /\ Connected /\ worker' = "select" /\ wait' = TimeoutAfter(elapsed)
        /\ elapsed' = elapsed /\ owed' = owed /\ link' = link
        /\ link = "up" => idle' \in {idle, 0}
    BY <1>5 DEF Packet, Publish, Select, Sent, Connected
  <2>2. CASE link = "up" /\ owed = None
    <3>1. elapsed <= Keep - 10 /\ elapsed \in Nat /\ idle <= elapsed + Delay
      BY <1>1, <2>1, <2>2
    <3>2. wait' = Keep - 10 - elapsed
      BY <2>1, <3>1, PunctualTimeout
    <3> QED
      BY <1>1, <2>1, <2>2, <3>1, <3>2
  <2>3. CASE link = "up" /\ owed # None
    BY <1>1, <2>1, <2>3
  <2>4. CASE link # "up"
    BY <2>1, <2>4
  <2> QED
    BY <2>2, <2>3, <2>4
<1>6. CASE Reconnect
  BY <1>6 DEF Reconnect, Connected
<1>7. CASE Tick
  <2>1. /\ Connected /\ wait # 0 /\ UNCHANGED <<worker, link>>
        /\ wait' = IF wait = Forever THEN Forever ELSE wait - 1
        /\ elapsed' = Later(elapsed) /\ idle' = Later(idle)
        /\ owed' = IF owed = None \/ link = "silent" THEN owed ELSE owed + 1
    BY <1>7 DEF Tick
  <2>2. CASE link = "up" /\ owed = None
    BY <1>1, <2>1, <2>2 DEF Later, Cap
  <2>3. CASE link = "up" /\ owed # None
    BY <1>1, <2>1, <2>3 DEF Later, Cap
  <2>4. CASE link # "up"
    BY <2>1, <2>4
  <2> QED
    BY <2>2, <2>3, <2>4
<1>8. CASE Silence
  BY <1>8 DEF Silence
<1>9. CASE Closed
  BY <1>9 DEF Closed, Connected
<1>10. CASE UNCHANGED timing
  BY <1>10 DEF timing, Connected
<1> QED
  BY <1>2, <1>3, <1>4, <1>5, <1>6, <1>7, <1>8, <1>9, <1>10
  DEF KeepAliveNext

(* A connection that works is never closed by the broker, in whatever      *)
(* second packets arrive, if a broker within reach answers a ping before   *)
(* half an interval and ten seconds have passed                            *)
(* (paho_mqtt_pipe.c:1063-1070).                                           *)
THEOREM BrokerStaysContent == KeepAliveSpec => []BrokerContent
<1>1. KeepAliveInit => Heard
  BY KeepAssumption, DelayAssumption DEF KeepAliveInit, Heard
<1>2. TypeOK /\ Heard /\ [KeepAliveNext]_timing => Heard'
  BY NextHeard
<1>3. TypeOK /\ Heard => BrokerContent
  <2> SUFFICES ASSUME TypeOK, Heard, Connected, link = "up"
               PROVE  idle < Patience
    BY DEF BrokerContent
  <2>1. Keep \div 2 \in Nat
    BY KeepAssumption
  <2>2. idle <= Keep - 10 + Delay /\ idle \in Nat
    BY KeepAssumption, DelayAssumption DEF TypeOK, Heard, None, Cap
  <2> QED
    BY <2>1, <2>2, KeepAssumption, DelayAssumption DEF Patience
<1> QED
  BY <1>1, <1>2, <1>3, TypesAreKept, PTL DEF KeepAliveSpec

=============================================================================
