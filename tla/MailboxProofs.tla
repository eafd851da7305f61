--------------------------- MODULE MailboxProofs ---------------------------
(***************************************************************************)
(* Proofs about the kernel mailbox, for any number of threads, any         *)
(* priorities and any size.                                                *)
(*                                                                         *)
(* IInv, the types and the waiting lists, is inductive by itself.  The two *)
(* lost-wakeup properties are inductive relative to it, by counting: a     *)
(* step that brings a mail (or room) resumes one waiting thread, and only  *)
(* a resumed thread that takes a mail (or room) stops being counted.       *)
(*                                                                         *)
(* That the most urgent thread comes first rests on the order of the two   *)
(* waiting lists (BothSorted).  That the mailbox is a queue rests on the   *)
(* slots between the two offsets holding it (QueueInv): a mail goes to the *)
(* slot after the last one, and the first slot is the oldest mail.         *)
(***************************************************************************)
EXTENDS Mailbox, FiniteSetTheorems, SequenceTheorems, TLAPS

(* Where InsertAt of rt_ipc_list_suspend leaves the other elements. *)
LEMMA InsertAtFacts ==
  ASSUME NEW S, NEW s \in Seq(S), NEW e \in S, NEW k \in 1..(Len(s) + 1)
  PROVE  /\ InsertAt(s, k, e) \in Seq(S)
         /\ Len(InsertAt(s, k, e)) = Len(s) + 1
         /\ \A i \in 1..(k - 1) : InsertAt(s, k, e)[i] = s[i]
         /\ InsertAt(s, k, e)[k] = e
         /\ \A i \in (k + 1)..(Len(s) + 1) : InsertAt(s, k, e)[i] = s[i - 1]
<1> DEFINE a == SubSeq(s, 1, k - 1)
           b == SubSeq(s, k, Len(s))
<1>1. /\ a \in Seq(S) /\ Len(a) = k - 1
      /\ \A i \in 1..(k - 1) : a[i] = s[i]
  BY SubSeqProperties, LenProperties
<1>2. /\ b \in Seq(S) /\ Len(b) = Len(s) - k + 1
      /\ \A i \in 1..(Len(s) - k + 1) : b[i] = s[k + i - 1]
  BY SubSeqProperties, LenProperties
<1>3. <<e>> \in Seq(S) /\ Len(<<e>>) = 1 /\ <<e>>[1] = e
  OBVIOUS
<1> HIDE DEF a, b
<1>4. /\ a \o <<e>> \in Seq(S) /\ Len(a \o <<e>>) = k
      /\ \A i \in 1..k : (a \o <<e>>)[i] = IF i < k THEN s[i] ELSE e
  BY <1>1, <1>3, ConcatProperties, LenProperties
<1> DEFINE c == a \o <<e>>
<1>c. c \in Seq(S) /\ Len(c) = k
  BY <1>4
<1> HIDE DEF c
<1> DEFINE d == c \o b
<1>5. /\ d \in Seq(S) /\ Len(d) = k + Len(b)
      /\ \A i \in 1..(k + Len(b)) :
            d[i] = IF i <= k THEN c[i] ELSE b[i - k]
  BY <1>2, <1>c, ConcatProperties
<1> HIDE DEF d
<1>6. InsertAt(s, k, e) = d
  BY DEF InsertAt, a, b, c, d
<1>7. Len(s) \in Nat /\ k + Len(b) = Len(s) + 1
  BY <1>2, LenProperties
<1>8. \A i \in 1..k : d[i] = IF i < k THEN s[i] ELSE e
  BY <1>4, <1>5, <1>7 DEF c
<1>9. ASSUME NEW i \in (k + 1)..(Len(s) + 1)
      PROVE  d[i] = s[i - 1]
  <2>1. /\ i - k \in 1..(Len(s) - k + 1) /\ k + (i - k) - 1 = i - 1
        /\ i \in 1..(k + Len(b)) /\ ~(i <= k)
    BY <1>7
  <2> QED BY <2>1, <1>2, <1>5
<1> QED BY <1>5, <1>6, <1>7, <1>8, <1>9

(* Where RemoveAt of rt_list_remove leaves the other elements. *)
LEMMA RemoveAtFacts ==
  ASSUME NEW S, NEW s \in Seq(S), NEW k \in 1..Len(s)
  PROVE  /\ RemoveAt(s, k) \in Seq(S)
         /\ Len(RemoveAt(s, k)) = Len(s) - 1
         /\ \A i \in 1..(Len(s) - 1) :
               RemoveAt(s, k)[i] = IF i < k THEN s[i] ELSE s[i + 1]
<1> DEFINE a == SubSeq(s, 1, k - 1)
           b == SubSeq(s, k + 1, Len(s))
<1>0. Len(s) \in Nat /\ k \in Nat /\ k >= 1 /\ k <= Len(s)
  BY LenProperties
<1>1. /\ a \in Seq(S) /\ Len(a) = k - 1
      /\ \A i \in 1..(k - 1) : a[i] = s[i]
  BY SubSeqProperties, LenProperties
<1>2. /\ b \in Seq(S) /\ Len(b) = Len(s) - k
      /\ \A i \in 1..(Len(s) - k) : b[i] = s[k + i]
  BY SubSeqProperties, LenProperties
<1> HIDE DEF a, b
<1> DEFINE c == a \o b
<1>3. /\ c \in Seq(S) /\ Len(c) = Len(a) + Len(b)
      /\ \A i \in 1..(Len(a) + Len(b)) :
            c[i] = IF i <= Len(a) THEN a[i] ELSE b[i - Len(a)]
  BY <1>1, <1>2, ConcatProperties
<1> HIDE DEF c
<1>4. Len(a) = k - 1 /\ Len(a) + Len(b) = Len(s) - 1
  BY <1>0, <1>1, <1>2
<1>5. \A i \in 1..(Len(s) - 1) :
         c[i] = IF i <= k - 1 THEN a[i] ELSE b[i - (k - 1)]
  BY <1>3, <1>4
<1>6. ASSUME NEW i \in 1..(Len(s) - 1), i < k
      PROVE  c[i] = s[i]
  <2>1. i \in 1..(k - 1) /\ i <= k - 1
    BY <1>0, <1>6
  <2> QED BY <2>1, <1>1, <1>5
<1>7. ASSUME NEW i \in 1..(Len(s) - 1), ~(i < k)
      PROVE  c[i] = s[i + 1]
  <2>1. /\ i - (k - 1) \in 1..(Len(s) - k) /\ k + (i - (k - 1)) = i + 1
        /\ ~(i <= k - 1)
    BY <1>0, <1>7
  <2> QED BY <2>1, <1>2, <1>5
<1> QED BY <1>3, <1>4, <1>6, <1>7 DEF RemoveAt, a, b, c

-----------------------------------------------------------------------------
(***************************************************************************)
(* What the list operations of the kernel do to a list of waiting threads. *)
(***************************************************************************)
PCs == {"idle"} \cup Waits \cup Woken
Errors == {"EOK", "ETIMEOUT", "ERROR"}

(* Threads that neither start nor stop waiting leave a list as it is. *)
LEMMA ListedFrame ==
  ASSUME NEW list \in Seq(Threads), NEW p \in [Threads -> PCs],
         NEW q \in [Threads -> PCs], NEW e, NEW f, NEW state,
         Listed(list, p, e, state),
         \A t \in Threads : p[t] = state <=> q[t] = state,
         \A t \in Threads : p[t] = state => f[t] = e[t]
  PROVE  Listed(list, q, f, state)
<1>1. \A i \in 1..Len(list) : list[i] \in Threads
  BY LenProperties
<1> QED BY <1>1 DEF Listed

(* rt_ipc_list_suspend puts the caller on the list, wherever its place is. *)
LEMMA ListedSuspend ==
  ASSUME NEW list \in Seq(Threads), NEW p \in [Threads -> PCs],
         NEW e \in [Threads -> Errors], NEW state \in Waits,
         NEW t \in Threads, NEW k \in 1..(Len(list) + 1),
         Listed(list, p, e, state), p[t] # state
  PROVE  Listed(InsertAt(list, k, t), [p EXCEPT ![t] = state],
                [e EXCEPT ![t] = "EOK"], state)
<1> DEFINE new == InsertAt(list, k, t)
           q == [p EXCEPT ![t] = state]
           f == [e EXCEPT ![t] = "EOK"]
<1>1. /\ new \in Seq(Threads) /\ Len(new) = Len(list) + 1
      /\ \A i \in 1..(k - 1) : new[i] = list[i]
      /\ new[k] = t
      /\ \A i \in (k + 1)..(Len(list) + 1) : new[i] = list[i - 1]
  BY InsertAtFacts
<1>2. /\ Len(list) \in Nat
      /\ \A i \in 1..Len(list) : list[i] \in Threads /\ list[i] # t
  BY LenProperties DEF Listed
<1> HIDE DEF new
<1>3. ASSUME NEW i \in 1..Len(new)
      PROVE  \/ i = k /\ new[i] = t
             \/ i < k /\ i \in 1..Len(list) /\ new[i] = list[i]
             \/ i > k /\ i - 1 \in 1..Len(list) /\ new[i] = list[i - 1]
  <2>1. CASE i < k
    <3>1. i \in 1..(k - 1) /\ i \in 1..Len(list)
      BY <2>1, <1>2
    <3> QED BY <2>1, <3>1, <1>1
  <2>2. CASE i = k
    BY <2>2, <1>1
  <2>3. CASE i > k
    <3>1. i \in (k + 1)..(Len(list) + 1) /\ i - 1 \in 1..Len(list)
      BY <2>3, <1>1, <1>2
    <3> QED BY <2>3, <3>1, <1>1
  <2> QED BY <2>1, <2>2, <2>3, <1>1, <1>2
<1>4. ASSUME NEW i \in 1..Len(new), NEW j \in 1..Len(new), new[i] = new[j]
      PROVE  i = j
  <2>1. \A a, b \in 1..Len(list) : list[a] = list[b] => a = b
    BY DEF Listed
  <2>2. /\ i = k \/ i < k \/ i > k
        /\ j = k \/ j < k \/ j > k
    BY <1>1, <1>2
  <2>3. CASE i = k
    BY <2>2, <2>3, <1>2, <1>3, <1>4
  <2>4. CASE i < k
    <3>1. i \in 1..Len(list) /\ new[i] = list[i] /\ list[i] # t
      BY <2>4, <1>2, <1>3
    <3>2. CASE j < k
      BY <3>1, <3>2, <2>1, <1>3, <1>4
    <3>3. CASE j > k
      <4>1. j - 1 \in 1..Len(list) /\ new[j] = list[j - 1]
        BY <3>3, <1>3
      <4>2. i = j - 1
        BY <3>1, <4>1, <2>1, <1>4
      <4> QED BY <4>2, <2>4, <3>3
    <3> QED BY <3>1, <3>2, <3>3, <2>2, <1>1, <1>4
  <2>5. CASE i > k
    <3>1. i - 1 \in 1..Len(list) /\ new[i] = list[i - 1] /\ list[i - 1] # t
      BY <2>5, <1>2, <1>3
    <3>2. CASE j < k
      <4>1. j \in 1..Len(list) /\ new[j] = list[j]
        BY <3>2, <1>3
      <4>2. i - 1 = j
        BY <3>1, <4>1, <2>1, <1>4
      <4> QED BY <4>2, <2>5, <3>2
    <3>3. CASE j > k
      <4>1. j - 1 \in 1..Len(list) /\ new[j] = list[j - 1]
        BY <3>3, <1>3
      <4>2. i - 1 = j - 1
        BY <3>1, <4>1, <2>1, <1>4
      <4> QED BY <4>2
    <3> QED BY <3>1, <3>2, <3>3, <2>2, <1>1, <1>4
  <2> QED BY <2>2, <2>3, <2>4, <2>5
<1>q. \A i \in 1..Len(new) : q[new[i]] = state /\ f[new[i]] = "EOK"
  BY <1>2, <1>3 DEF Listed
<1>5. ASSUME NEW u \in Threads, q[u] = state
      PROVE  \E i \in 1..Len(new) : new[i] = u
  <2>1. CASE u = t
    BY <2>1, <1>1, <1>2
  <2>2. CASE u # t
    <3>1. PICK i \in 1..Len(list) : list[i] = u
      BY <2>2, <1>5 DEF Listed
    <3>2. CASE i < k
      BY <3>1, <3>2, <1>1, <1>2
    <3>3. CASE ~(i < k)
      <4>1. /\ i + 1 \in 1..Len(new) /\ (i + 1) - 1 = i
            /\ i + 1 \in (k + 1)..(Len(list) + 1)
        BY <3>3, <1>1, <1>2
      <4>2. new[i + 1] = list[i]
        BY <4>1, <1>1
      <4> QED BY <3>1, <4>1, <4>2
    <3> QED BY <3>2, <3>3
  <2> QED BY <2>1, <2>2
<1> QED BY <1>4, <1>q, <1>5 DEF Listed, new

(* rt_ipc_list_resume takes the first thread off the list. *)
LEMMA ListedResume ==
  ASSUME NEW list \in Seq(Threads), list # <<>>, NEW p \in [Threads -> PCs],
         NEW e \in [Threads -> Errors], NEW state, NEW next \in PCs,
         next # state, Listed(list, p, e, state)
  PROVE  /\ Head(list) \in Threads
         /\ p[Head(list)] = state /\ e[Head(list)] = "EOK"
         /\ Listed(Tail(list), [p EXCEPT ![Head(list)] = next], e, state)
<1> DEFINE new == Tail(list)
           q == [p EXCEPT ![Head(list)] = next]
<1>1. /\ new \in Seq(Threads) /\ Len(new) = Len(list) - 1
      /\ \A i \in 1..Len(new) : new[i] = list[i + 1]
  BY HeadTailProperties
<1>2. /\ Len(list) \in Nat \ {0} /\ Head(list) = list[1]
      /\ \A i \in 1..Len(list) : list[i] \in Threads
  BY EmptySeq, LenProperties
<1> HIDE DEF new
<1>3. \A i, j \in 1..Len(new) : new[i] = new[j] => i = j
  BY <1>1, <1>2 DEF Listed
<1>4. \A i \in 1..Len(new) : new[i] # Head(list) /\ new[i] \in Threads
  BY <1>1, <1>2 DEF Listed
<1>5. \A i \in 1..Len(new) : q[new[i]] = state /\ e[new[i]] = "EOK"
  BY <1>1, <1>2, <1>4 DEF Listed
<1>6. ASSUME NEW u \in Threads, q[u] = state
      PROVE  \E i \in 1..Len(new) : new[i] = u
  <2>1. u # Head(list) /\ p[u] = state
    BY <1>2, <1>6
  <2>2. PICK i \in 1..Len(list) : list[i] = u
    BY <2>1 DEF Listed
  <2>3. i - 1 \in 1..Len(new) /\ new[i - 1] = list[i]
    BY <2>1, <2>2, <1>1, <1>2
  <2> QED BY <2>2, <2>3
<1> QED BY <1>2, <1>3, <1>5, <1>6 DEF Listed, new

(* rt_thread_timeout takes the thread off the list, wherever it stands. *)
LEMMA ListedTimeout ==
  ASSUME NEW list \in Seq(Threads), NEW p \in [Threads -> PCs],
         NEW e \in [Threads -> Errors], NEW state, NEW next \in PCs,
         NEW why \in Errors, NEW t \in Threads,
         next # state, Listed(list, p, e, state), p[t] = state
  PROVE  Listed(Without(list, t), [p EXCEPT ![t] = next],
                [e EXCEPT ![t] = why], state)
<1> DEFINE k == CHOOSE i \in 1..Len(list) : list[i] = t
           new == RemoveAt(list, k)
           q == [p EXCEPT ![t] = next]
           f == [e EXCEPT ![t] = why]
<1>1. /\ Len(list) \in Nat
      /\ \A i \in 1..Len(list) : list[i] \in Threads
      /\ \E i \in 1..Len(list) : list[i] = t
  BY LenProperties DEF Listed
<1>2. k \in 1..Len(list) /\ list[k] = t /\ Without(list, t) = new
  BY <1>1 DEF Without
<1> HIDE DEF k
<1>3. /\ new \in Seq(Threads) /\ Len(new) = Len(list) - 1
      /\ \A i \in 1..(Len(list) - 1) :
            new[i] = IF i < k THEN list[i] ELSE list[i + 1]
  BY <1>2, RemoveAtFacts
<1> HIDE DEF new
<1>4. ASSUME NEW i \in 1..Len(new)
      PROVE  \/ i < k /\ i \in 1..Len(list) /\ new[i] = list[i]
             \/ i >= k /\ i + 1 \in 1..Len(list) /\ new[i] = list[i + 1]
  <2>1. i \in 1..(Len(list) - 1) /\ i \in 1..Len(list) /\ i + 1 \in 1..Len(list)
    BY <1>1, <1>3
  <2>2. CASE i < k
    BY <2>1, <2>2, <1>3
  <2>3. CASE ~(i < k)
    BY <2>1, <2>3, <1>2, <1>3
  <2> QED BY <2>2, <2>3
<1>5. ASSUME NEW i \in 1..Len(new)
      PROVE  new[i] # t /\ new[i] \in Threads
  <2>1. \A a \in 1..Len(list) : list[a] = t => a = k
    BY <1>2 DEF Listed
  <2>2. CASE i < k
    BY <2>1, <2>2, <1>1, <1>2, <1>4
  <2>3. CASE ~(i < k)
    <3>1. i + 1 \in 1..Len(list) /\ new[i] = list[i + 1] /\ i + 1 # k
      BY <2>3, <1>2, <1>4
    <3> QED BY <2>1, <3>1, <1>1
  <2> QED BY <2>2, <2>3
<1>6. \A i \in 1..Len(new) : q[new[i]] = state /\ f[new[i]] = "EOK"
  BY <1>1, <1>3, <1>4, <1>5 DEF Listed
<1>7. ASSUME NEW i \in 1..Len(new), NEW j \in 1..Len(new), new[i] = new[j]
      PROVE  i = j
  <2>1. \A a, b \in 1..Len(list) : list[a] = list[b] => a = b
    BY DEF Listed
  <2>2. CASE i < k /\ j < k
    <3>1. /\ i \in 1..Len(list) /\ new[i] = list[i]
          /\ j \in 1..Len(list) /\ new[j] = list[j]
      BY <2>2, <1>2, <1>4
    <3> QED BY <2>1, <3>1, <1>7
  <2>3. CASE i < k /\ j >= k
    <3>1. /\ i \in 1..Len(list) /\ new[i] = list[i]
          /\ j + 1 \in 1..Len(list) /\ new[j] = list[j + 1]
      BY <2>3, <1>2, <1>4
    <3>2. i = j + 1
      BY <2>1, <3>1, <1>7
    <3> QED BY <3>2, <2>3, <1>2
  <2>4. CASE i >= k /\ j < k
    <3>1. /\ i + 1 \in 1..Len(list) /\ new[i] = list[i + 1]
          /\ j \in 1..Len(list) /\ new[j] = list[j]
      BY <2>4, <1>2, <1>4
    <3>2. i + 1 = j
      BY <2>1, <3>1, <1>7
    <3> QED BY <3>2, <2>4, <1>2
  <2>5. CASE i >= k /\ j >= k
    <3>1. /\ i + 1 \in 1..Len(list) /\ new[i] = list[i + 1]
          /\ j + 1 \in 1..Len(list) /\ new[j] = list[j + 1]
      BY <2>5, <1>2, <1>4
    <3>2. i + 1 = j + 1
      BY <2>1, <3>1, <1>7
    <3> QED BY <3>2
  <2> QED BY <2>2, <2>3, <2>4, <2>5, <1>2
<1>8. ASSUME NEW u \in Threads, q[u] = state
      PROVE  \E i \in 1..Len(new) : new[i] = u
  <2>1. u # t /\ p[u] = state
    BY <1>8
  <2>2. PICK i \in 1..Len(list) : list[i] = u
    BY <2>1 DEF Listed
  <2>3. CASE i < k
    <3>1. i \in 1..(Len(list) - 1)
      BY <2>3, <1>1, <1>2
    <3> QED BY <2>2, <2>3, <3>1, <1>3
  <2>4. CASE i > k
    <3>1. i - 1 \in 1..(Len(list) - 1) /\ ~(i - 1 < k) /\ (i - 1) + 1 = i
      BY <2>4, <1>1, <1>2
    <3> QED BY <2>2, <3>1, <1>3
  <2> QED BY <2>1, <2>2, <2>3, <2>4, <1>2
<1> QED BY <1>2, <1>6, <1>7, <1>8 DEF Listed

(* A thread that does not wait on a list is not on it. *)
LEMMA NotListed ==
  ASSUME NEW list \in Seq(Threads), NEW p \in [Threads -> PCs], NEW e,
         NEW state, NEW t \in Threads,
         Listed(list, p, e, state), p[t] # state
  PROVE  Without(list, t) = list
BY DEF Without, Listed

-----------------------------------------------------------------------------
(***************************************************************************)
(* The inductive invariant: types, and every waiting thread on its list.   *)
(***************************************************************************)
IInv == TypeOK /\ WaitersListed

(* A mailbox just created (rt_mb_create) has no waiting thread. *)
LEMMA InitIInv == Init => IInv
<1> SUFFICES ASSUME Init PROVE IInv
  OBVIOUS
<1>1. TypeOK
  BY SizeAssumption DEF Init, TypeOK, Timeouts
<1>2. \A state \in Waits : Listed(<<>>, pc, error, state)
  BY DEF Init, Listed, Waits
<1> QED BY <1>1, <1>2 DEF IInv, WaitersListed, Init, Waits

(* The running thread t, which is on no list, returns and resumes the      *)
(* first thread of a list on the way.                                      *)
AfterResume(list, p, t, next) ==
    ResumeFirst(list, [p EXCEPT ![t] = "idle"], next)

(* Both lists after the first thread of one of them was resumed. *)
LEMMA ResumeListed ==
  ASSUME NEW list \in Seq(Threads), NEW p \in [Threads -> PCs],
         NEW e \in [Threads -> Errors], NEW t \in Threads,
         NEW state \in Waits, NEW next \in Woken,
         Listed(list, p, e, state), p[t] \notin Waits
  PROVE  /\ AfterResume(list, p, t, next) \in [Threads -> PCs]
         /\ Rest(list) \in Seq(Threads)
         /\ Listed(Rest(list), AfterResume(list, p, t, next), e, state)
         /\ AfterResume(list, p, t, next)[t] = "idle"
         /\ \A other \in Waits \ {state} : \A u \in Threads :
               p[u] = other <=> AfterResume(list, p, t, next)[u] = other
         /\ \A u \in Threads : AfterResume(list, p, t, next)[u] = next <=>
               \/ u # t /\ p[u] = next
               \/ list # <<>> /\ u = Head(list)
         /\ list # <<>> => /\ Head(list) \in Threads /\ Head(list) # t
                           /\ p[Head(list)] = state /\ e[Head(list)] = "EOK"
<1> DEFINE p1 == [p EXCEPT ![t] = "idle"]
           q == AfterResume(list, p, t, next)
<1>1. p1 \in [Threads -> PCs] /\ Listed(list, p1, e, state)
  <2>1. p1 \in [Threads -> PCs]
    BY DEF PCs
  <2>2. \A u \in Threads : p[u] = state <=> p1[u] = state
    BY DEF Waits
  <2> QED BY <2>1, <2>2, ListedFrame
<1>2. CASE list = <<>>
  BY <1>1, <1>2 DEF AfterResume, ResumeFirst, Rest, Waits, Woken, PCs
<1>3. CASE list # <<>>
  <2>1. next \in PCs /\ next # state
    BY DEF PCs, Waits, Woken
  <2>2. /\ Head(list) \in Threads
        /\ p1[Head(list)] = state /\ e[Head(list)] = "EOK"
        /\ Listed(Tail(list), [p1 EXCEPT ![Head(list)] = next], e, state)
    BY <1>1, <1>3, <2>1, ListedResume
  <2>3. Head(list) # t /\ p[Head(list)] = state
    BY <2>2 DEF Waits
  <2>4. q = [p1 EXCEPT ![Head(list)] = next] /\ Rest(list) = Tail(list)
    BY <1>3 DEF AfterResume, ResumeFirst, Rest
  <2>5. Tail(list) \in Seq(Threads)
    BY <1>3, HeadTailProperties
  <2> QED BY <1>3, <2>1, <2>2, <2>3, <2>4, <2>5 DEF Waits, Woken, PCs
<1> QED BY <1>2, <1>3

(* The threads that wait on the other list are those that did before. *)
LEMMA ResumeOthers ==
  ASSUME NEW list \in Seq(Threads), NEW p \in [Threads -> PCs],
         NEW e \in [Threads -> Errors], NEW t \in Threads,
         NEW state \in Waits, NEW next \in Woken,
         Listed(list, p, e, state), p[t] \notin Waits,
         NEW other \in Waits \ {state}, NEW u \in Threads
  PROVE  p[u] = other <=> AfterResume(list, p, t, next)[u] = other
BY ResumeListed

(* What IInv says of each variable a proof below needs. *)
LEMMA TypesAndLists ==
  ASSUME IInv
  PROVE  /\ pc \in [Threads -> PCs] /\ error \in [Threads -> Errors]
         /\ suspend_thread \in Seq(Threads)
         /\ suspend_sender_thread \in Seq(Threads)
         /\ Listed(suspend_thread, pc, error, "recvWait")
         /\ Listed(suspend_sender_thread, pc, error, "sendWait")
BY DEF IInv, TypeOK, WaitersListed, PCs, Errors

LEMMA HeadWaits ==
  ASSUME NEW list \in Seq(Threads), NEW p, NEW e, NEW state,
         Listed(list, p, e, state), list # <<>>
  PROVE  Head(list) \in Threads /\ p[Head(list)] = state
<1>1. 1 \in 1..Len(list) /\ Head(list) = list[1] /\ list[1] \in Threads
  BY HeadTailProperties, LenProperties
<1> QED BY <1>1 DEF Listed

(* rt_mb_send_wait stores a mail: both lists stay right. *)
LEMMA StoreIInv ==
  ASSUME IInv, NEW t \in Threads, NEW v \in Mails \cup {NoMail},
         pc[t] \notin Waits, Store(t, v)
  PROVE  IInv'
<1> "recvWait" \in Waits /\ "sendWait" \in Waits \ {"recvWait"}
    /\ "recvWoken" \in Woken
  BY DEF Waits, Woken
<1>1. /\ pc' = AfterResume(suspend_thread, pc, t, "recvWoken")
      /\ suspend_thread' = Rest(suspend_thread)
      /\ error' = error /\ suspend_sender_thread' = suspend_sender_thread
  BY DEF Store, AfterResume
<1>2. /\ pc' \in [Threads -> PCs] /\ suspend_thread' \in Seq(Threads)
      /\ Listed(suspend_thread', pc', error, "recvWait")
      /\ \A u \in Threads : pc[u] = "sendWait" <=> pc'[u] = "sendWait"
  BY <1>1, TypesAndLists, ResumeListed
<1>3. Listed(suspend_sender_thread, pc', error, "sendWait")
  BY <1>2, TypesAndLists, ListedFrame
<1>4. TypeOK'
  <2>1. /\ msg_pool' \in [0..(Size - 1) -> Mails \cup {NoMail}]
        /\ entry' \in 0..Size /\ in_offset' \in 0..(Size - 1)
        /\ out_offset' \in 0..(Size - 1) /\ got' \in Mails \cup {NoMail}
    BY SizeAssumption DEF IInv, TypeOK, Store, NextOffset
  <2>2. /\ timeout' \in [Threads -> Timeouts]
        /\ value' \in [Threads -> Mails \cup {NoMail}]
    BY DEF IInv, TypeOK, Store, Drop, Keep, Timeouts
  <2> QED BY <1>1, <1>2, <2>1, <2>2, TypesAndLists DEF TypeOK, PCs, Errors
<1> QED BY <1>1, <1>2, <1>3, <1>4 DEF IInv, WaitersListed

(* rt_mb_recv fetches a mail: both lists stay right. *)
LEMMA FetchIInv ==
  ASSUME IInv, NEW t \in Threads, pc[t] \notin Waits, Fetch(t)
  PROVE  IInv'
<1> "sendWait" \in Waits /\ "recvWait" \in Waits \ {"sendWait"}
    /\ "sendWoken" \in Woken
  BY DEF Waits, Woken
<1>1. /\ pc' = AfterResume(suspend_sender_thread, pc, t, "sendWoken")
      /\ suspend_sender_thread' = Rest(suspend_sender_thread)
      /\ error' = error /\ suspend_thread' = suspend_thread
  BY DEF Fetch, AfterResume
<1>2. /\ pc' \in [Threads -> PCs] /\ suspend_sender_thread' \in Seq(Threads)
      /\ Listed(suspend_sender_thread', pc', error, "sendWait")
      /\ \A u \in Threads : pc[u] = "recvWait" <=> pc'[u] = "recvWait"
  <2>1. /\ pc' \in [Threads -> PCs] /\ suspend_sender_thread' \in Seq(Threads)
        /\ Listed(suspend_sender_thread', pc', error, "sendWait")
    BY <1>1, TypesAndLists, ResumeListed
  <2>2. ASSUME NEW u \in Threads
        PROVE  pc[u] = "recvWait" <=> pc'[u] = "recvWait"
    <3>1. /\ suspend_sender_thread \in Seq(Threads)
          /\ pc \in [Threads -> PCs] /\ error \in [Threads -> Errors]
          /\ Listed(suspend_sender_thread, pc, error, "sendWait")
      BY TypesAndLists
    <3> QED BY <3>1, <1>1, ResumeOthers
  <2> QED BY <2>1, <2>2
<1>3. Listed(suspend_thread, pc', error, "recvWait")
  BY <1>2, TypesAndLists, ListedFrame
<1>4. TypeOK'
  <2>1. /\ msg_pool' \in [0..(Size - 1) -> Mails \cup {NoMail}]
        /\ entry' \in 0..Size /\ in_offset' \in 0..(Size - 1)
        /\ out_offset' \in 0..(Size - 1) /\ got' \in Mails \cup {NoMail}
    BY SizeAssumption DEF IInv, TypeOK, Fetch, NextOffset
  <2>2. /\ timeout' \in [Threads -> Timeouts]
        /\ value' \in [Threads -> Mails \cup {NoMail}]
    BY DEF IInv, TypeOK, Fetch, Drop, Keep, Timeouts
  <2> QED BY <1>1, <1>2, <2>1, <2>2, TypesAndLists DEF TypeOK, PCs, Errors
<1> QED BY <1>1, <1>2, <1>3, <1>4 DEF IInv, WaitersListed

(* The thread puts itself on a list: RecvSuspend and SendSuspend. *)
LEMMA SuspendListed ==
  ASSUME NEW list \in Seq(Threads), NEW p \in [Threads -> PCs],
         NEW e \in [Threads -> Errors], NEW t \in Threads,
         NEW state \in Waits, NEW k \in Position(list, t),
         NEW other \in Waits \ {state}, NEW list2 \in Seq(Threads),
         Listed(list, p, e, state), Listed(list2, p, e, other),
         p[t] \notin Waits
  PROVE  /\ InsertAt(list, k, t) \in Seq(Threads)
         /\ Listed(InsertAt(list, k, t), [p EXCEPT ![t] = state],
                   [e EXCEPT ![t] = "EOK"], state)
         /\ Listed(list2, [p EXCEPT ![t] = state],
                   [e EXCEPT ![t] = "EOK"], other)
<1>1. k \in 1..(Len(list) + 1)
  BY DEF Position
<1>2. p[t] # state /\ p[t] # other
  OBVIOUS
<1>3. [p EXCEPT ![t] = state] \in [Threads -> PCs]
  BY DEF PCs
<1>4. /\ \A u \in Threads : p[u] = other <=> [p EXCEPT ![t] = state][u] = other
      /\ \A u \in Threads : p[u] = other => [e EXCEPT ![t] = "EOK"][u] = e[u]
  BY <1>2
<1>5. InsertAt(list, k, t) \in Seq(Threads)
  BY <1>1, InsertAtFacts
<1>6. Listed(InsertAt(list, k, t), [p EXCEPT ![t] = state],
             [e EXCEPT ![t] = "EOK"], state)
  BY <1>1, <1>2, ListedSuspend
<1>7. Listed(list2, [p EXCEPT ![t] = state], [e EXCEPT ![t] = "EOK"], other)
  BY <1>3, <1>4, ListedFrame
<1> QED BY <1>5, <1>6, <1>7

(* One turn of the loop of rt_mb_send_wait. *)
LEMMA SendLoopIInv ==
  ASSUME IInv, NEW t \in Threads, NEW v \in Mails \cup {NoMail},
         NEW to \in Timeouts, pc[t] \notin Waits, SendLoop(t, v, to)
  PROVE  IInv'
<1>1. CASE Store(t, v)
  BY <1>1, StoreIInv
<1>2. CASE SendFull(t, to)
  <2>1. pc' = [pc EXCEPT ![t] = "idle"] /\ UNCHANGED <<lists, error>>
    BY <1>2 DEF SendFull
  <2>2. pc' \in [Threads -> PCs]
    BY <2>1, TypesAndLists DEF PCs
  <2>3. \A u \in Threads, w \in Waits : pc[u] = w <=> pc'[u] = w
    BY <2>1, TypesAndLists DEF Waits
  <2>4. WaitersListed'
    BY <2>1, <2>2, <2>3, TypesAndLists, ListedFrame DEF WaitersListed, lists, Waits
  <2>5. TypeOK'
    BY <1>2, <2>1, <2>2 DEF IInv, TypeOK, SendFull, Drop, Keep, ring, lists, Timeouts, PCs
  <2> QED BY <2>4, <2>5 DEF IInv
<1>3. CASE SendSuspend(t, v, to)
  <2>1. PICK k \in Position(suspend_sender_thread, t) :
           suspend_sender_thread' = InsertAt(suspend_sender_thread, k, t)
    BY <1>3 DEF SendSuspend
  <2>2. /\ pc' = [pc EXCEPT ![t] = "sendWait"]
        /\ error' = [error EXCEPT ![t] = "EOK"]
        /\ suspend_thread' = suspend_thread
    BY <1>3 DEF SendSuspend
  <2>3. "sendWait" \in Waits /\ "recvWait" \in Waits \ {"sendWait"}
    BY DEF Waits
  <2>4. suspend_sender_thread' \in Seq(Threads) /\ WaitersListed'
    BY <2>1, <2>2, <2>3, TypesAndLists, SuspendListed DEF WaitersListed
  <2>5. TypeOK'
    BY <1>3, <2>2, <2>4 DEF IInv, TypeOK, SendSuspend, Keep, ring, Waits
  <2> QED BY <2>4, <2>5 DEF IInv
<1> QED BY <1>1, <1>2, <1>3 DEF SendLoop

(* One turn of the loop of rt_mb_recv. *)
LEMMA RecvLoopIInv ==
  ASSUME IInv, NEW t \in Threads, NEW to \in Timeouts,
         pc[t] \notin Waits, RecvLoop(t, to)
  PROVE  IInv'
<1>1. CASE Fetch(t)
  BY <1>1, FetchIInv
<1>2. CASE RecvEmpty(t, to)
  <2>1. pc' = [pc EXCEPT ![t] = "idle"] /\ UNCHANGED <<lists, error>>
    BY <1>2 DEF RecvEmpty
  <2>2. pc' \in [Threads -> PCs]
    BY <2>1, TypesAndLists DEF PCs
  <2>3. \A u \in Threads, w \in Waits : pc[u] = w <=> pc'[u] = w
    BY <2>1, TypesAndLists DEF Waits
  <2>4. WaitersListed'
    BY <2>1, <2>2, <2>3, TypesAndLists, ListedFrame DEF WaitersListed, lists, Waits
  <2>5. TypeOK'
    BY <1>2, <2>1, <2>2 DEF IInv, TypeOK, RecvEmpty, Drop, Keep, ring, lists, Timeouts, PCs
  <2> QED BY <2>4, <2>5 DEF IInv
<1>3. CASE RecvSuspend(t, to)
  <2>1. PICK k \in Position(suspend_thread, t) :
           suspend_thread' = InsertAt(suspend_thread, k, t)
    BY <1>3 DEF RecvSuspend
  <2>2. /\ pc' = [pc EXCEPT ![t] = "recvWait"]
        /\ error' = [error EXCEPT ![t] = "EOK"]
        /\ suspend_sender_thread' = suspend_sender_thread
    BY <1>3 DEF RecvSuspend
  <2>3. "recvWait" \in Waits /\ "sendWait" \in Waits \ {"recvWait"}
    BY DEF Waits
  <2>4. suspend_thread' \in Seq(Threads) /\ WaitersListed'
    BY <2>1, <2>2, <2>3, TypesAndLists, SuspendListed DEF WaitersListed
  <2>5. TypeOK'
    BY <1>3, <2>2, <2>4 DEF IInv, TypeOK, RecvSuspend, Keep, ring, Waits
  <2> QED BY <2>4, <2>5 DEF IInv
<1> QED BY <1>1, <1>2, <1>3 DEF RecvLoop

(* A resumed thread runs again. *)
LEMMA RunIInv ==
  ASSUME IInv, NEW t \in Threads, Run(t)
  PROVE  IInv'
<1>1. CASE ReturnError(t)
  <2>1. /\ pc' = [pc EXCEPT ![t] = "idle"] /\ pc[t] \in Woken
        /\ error' = [error EXCEPT ![t] = "EOK"] /\ UNCHANGED lists
    BY <1>1 DEF ReturnError
  <2>2. pc' \in [Threads -> PCs]
    BY <2>1, TypesAndLists DEF PCs
  <2>3. \A u \in Threads, w \in Waits :
           (pc[u] = w <=> pc'[u] = w) /\ (pc[u] = w => error'[u] = error[u])
    BY <2>1, TypesAndLists DEF Waits, Woken
  <2>4. WaitersListed'
    BY <2>1, <2>2, <2>3, TypesAndLists, ListedFrame DEF WaitersListed, lists, Waits
  <2>5. TypeOK'
    BY <1>1, <2>1, <2>2
    DEF IInv, TypeOK, ReturnError, Drop, Keep, ring, lists, Timeouts, PCs
  <2> QED BY <2>4, <2>5 DEF IInv
<1>2. CASE SendAgain(t)
  <2>1. PICK to \in Remaining(timeout[t]) : SendLoop(t, value[t], to)
    BY <1>2 DEF SendAgain
  <2>2. to \in Timeouts /\ value[t] \in Mails \cup {NoMail} /\ pc[t] \notin Waits
    BY <1>2 DEF SendAgain, IInv, TypeOK, Remaining, Timeouts, Waits
  <2> QED BY <2>1, <2>2, SendLoopIInv
<1>3. CASE RecvAgain(t)
  <2>1. PICK to \in Remaining(timeout[t]) : RecvLoop(t, to)
    BY <1>3 DEF RecvAgain
  <2>2. to \in Timeouts /\ pc[t] \notin Waits
    BY <1>3 DEF RecvAgain, IInv, TypeOK, Remaining, Timeouts, Waits
  <2> QED BY <2>1, <2>2, RecvLoopIInv
<1> QED BY <1>1, <1>2, <1>3 DEF Run

(* rt_thread_timeout takes its thread off the one list it is on. *)
LEMMA TimeoutIInv ==
  ASSUME IInv, NEW t \in Threads, Timeout(t)
  PROVE  IInv'
<1>1. /\ pc[t] \in Waits /\ pc' = [pc EXCEPT ![t] = WokenFrom(pc[t])]
      /\ error' = [error EXCEPT ![t] = "ETIMEOUT"]
      /\ suspend_thread' = Without(suspend_thread, t)
      /\ suspend_sender_thread' = Without(suspend_sender_thread, t)
  BY DEF Timeout
<1>2. WokenFrom(pc[t]) \in PCs /\ WokenFrom(pc[t]) \notin Waits
  BY DEF WokenFrom, PCs, Waits, Woken
<1>3. ASSUME NEW list \in Seq(Threads), NEW w \in Waits, Listed(list, pc, error, w)
      PROVE  Without(list, t) \in Seq(Threads) /\ Listed(Without(list, t), pc', error', w)
  <2>1. CASE pc[t] = w
    <3>1. Listed(Without(list, t), pc', error', w)
      BY <1>1, <1>2, <1>3, <2>1, TypesAndLists, ListedTimeout DEF Errors
    <3>2. \E i \in 1..Len(list) : list[i] = t
      BY <1>3, <2>1 DEF Listed
    <3>3. Without(list, t) \in Seq(Threads)
      BY <3>2, RemoveAtFacts DEF Without
    <3> QED BY <3>1, <3>3
  <2>2. CASE pc[t] # w
    <3>1. Without(list, t) = list
      BY <1>3, <2>2, TypesAndLists, NotListed
    <3>2. pc' \in [Threads -> PCs]
      BY <1>1, <1>2, TypesAndLists
    <3>3. \A u \in Threads : (pc[u] = w <=> pc'[u] = w)
                               /\ (pc[u] = w => error'[u] = error[u])
      BY <1>1, <1>2, <2>2, TypesAndLists
    <3>4. Listed(list, pc', error', w)
      BY <1>3, <3>2, <3>3, TypesAndLists, ListedFrame
    <3> QED BY <3>1, <3>4
  <2> QED BY <2>1, <2>2
<1>4. /\ suspend_thread' \in Seq(Threads) /\ suspend_sender_thread' \in Seq(Threads)
      /\ WaitersListed'
  BY <1>1, <1>3, TypesAndLists DEF WaitersListed, Waits
<1>5. pc' \in [Threads -> PCs] /\ error' \in [Threads -> Errors]
  BY <1>1, <1>2, TypesAndLists DEF Errors
<1>6. TypeOK'
  BY <1>4, <1>5 DEF IInv, TypeOK, Timeout, ring, locals, PCs, Errors
<1> QED BY <1>4, <1>6 DEF IInv

(* RT_IPC_CMD_RESET resumes every waiting thread. *)
LEMMA ResetIInv ==
  ASSUME IInv, Reset
  PROVE  IInv'
<1>1. \A t \in Threads : pc'[t] \notin Waits
  BY DEF Reset, WokenFrom, Waits
<1>2. WaitersListed'
  BY <1>1 DEF Reset, WaitersListed, Listed, Waits
<1>3. TypeOK'
  <2>1. pc' \in [Threads -> PCs] /\ error' \in [Threads -> Errors]
    BY TypesAndLists DEF Reset, WokenFrom, PCs, Errors, Woken
  <2> QED BY <2>1, SizeAssumption DEF Reset, IInv, TypeOK, PCs, Errors, locals
<1> QED BY <1>2, <1>3 DEF IInv

(* IInv is inductive. *)
LEMMA NextIInv == IInv /\ [Next]_vars => IInv'
<1> SUFFICES ASSUME IInv, [Next]_vars PROVE IInv'
  OBVIOUS
<1>1. ASSUME NEW t \in Threads, NEW v \in Mails, NEW to \in Timeouts, Send(t, v, to)
      PROVE  IInv'
  BY <1>1, SendLoopIInv DEF Send, Waits
<1>2. ASSUME NEW t \in Threads, NEW to \in Timeouts, Recv(t, to)
      PROVE  IInv'
  BY <1>2, RecvLoopIInv DEF Recv, Waits
<1>3. CASE UNCHANGED vars
  BY <1>3 DEF vars, ring, lists, locals, IInv, TypeOK, WaitersListed, Listed
<1> QED BY <1>1, <1>2, <1>3, RunIInv, TimeoutIInv, ResetIInv DEF Next

(* Types are respected and every waiting thread is on its list, whatever   *)
(* the number of threads, their priorities and the size of the mailbox.    *)
THEOREM TypesAndWaiters == Spec => [](TypeOK /\ WaitersListed)
<1>1. Init => IInv
  BY InitIInv
<1>2. IInv /\ [Next]_vars => IInv'
  BY NextIInv
<1> QED BY <1>1, <1>2, PTL DEF Spec, IInv

-----------------------------------------------------------------------------
(***************************************************************************)
(* No lost wakeup.  The number of resumed receivers changes by one at most *)
(* in a step, and the number of mails with it.                             *)
(***************************************************************************)
(* The resumed threads can be counted. *)
LEMMA ResumedFinite ==
  ASSUME NEW state
  PROVE  IsFiniteSet(Resumed(state)) /\ Cardinality(Resumed(state)) \in Nat
<1>1. Resumed(state) \in SUBSET Threads
  BY DEF Resumed
<1> QED BY <1>1, ThreadsAssumption, FS_Subset, FS_CardinalityType

(* ... and in the next state too. *)
LEMMA ResumedFinite2 ==
  ASSUME NEW state
  PROVE  IsFiniteSet(Resumed(state)') /\ Cardinality(Resumed(state)') \in Nat
<1>1. Resumed(state)' \in SUBSET Threads
  BY DEF Resumed
<1> QED BY <1>1, ThreadsAssumption, FS_Subset, FS_CardinalityType

(* The step of a mailbox operation, as far as the resumed threads of one   *)
(* side are concerned: one resumed thread more.                            *)
LEMMA GainOne ==
  ASSUME NEW state, NEW t, t \notin Resumed(state),
         Resumed(state)' = Resumed(state) \cup {t}
  PROVE  Cardinality(Resumed(state)') = Cardinality(Resumed(state)) + 1
BY ResumedFinite, FS_AddElement

(* ... and the opposite: one resumed thread less. *)
LEMMA LoseOne ==
  ASSUME NEW state, NEW t, Resumed(state)' = Resumed(state) \ {t}
  PROVE  Cardinality(Resumed(state)') >= Cardinality(Resumed(state)) - 1
<1>1. Cardinality(Resumed(state)) \in Nat
  BY ResumedFinite
<1> QED BY <1>1, ResumedFinite, FS_RemoveElement

(* One mail more, and one resumed receiver more if one was waiting. *)
LEMMA StoreKeepsMailWakeup ==
  ASSUME IInv, NoLostMailWakeup, NEW t \in Threads, NEW v,
         pc[t] \in {"idle", "sendWoken"}, Store(t, v)
  PROVE  NoLostMailWakeup'
<1> SUFFICES ASSUME suspend_thread' # <<>>
             PROVE  entry' <= Cardinality(Resumed("recvWoken")')
  BY DEF NoLostMailWakeup
<1>1. suspend_thread # <<>>
  BY DEF Store, Rest
<1>2. entry <= Cardinality(Resumed("recvWoken")) /\ entry' = entry + 1
  BY <1>1 DEF NoLostMailWakeup, Store
<1>3. pc[t] \notin Waits /\ "recvWait" \in Waits /\ "recvWoken" \in Woken
  BY DEF Waits, Woken
<1>4. pc' = AfterResume(suspend_thread, pc, t, "recvWoken") /\ error' = error
  BY DEF Store, AfterResume
<1> DEFINE h == Head(suspend_thread)
<1>5. h \in Threads /\ h # t /\ pc[h] = "recvWait" /\ error[h] = "EOK"
  BY <1>1, <1>3, TypesAndLists, ResumeListed
<1>6. \A u \in Threads :
         pc'[u] = "recvWoken" <=> \/ u # t /\ pc[u] = "recvWoken"
                                  \/ u = h
  BY <1>1, <1>3, <1>4, TypesAndLists, ResumeListed
<1> HIDE DEF h
<1>7. /\ Resumed("recvWoken")' = Resumed("recvWoken") \cup {h}
      /\ h \notin Resumed("recvWoken")
  BY <1>4, <1>5, <1>6 DEF Resumed
<1>8. Cardinality(Resumed("recvWoken")') = Cardinality(Resumed("recvWoken")) + 1
  BY <1>7, GainOne
<1> QED BY <1>2, <1>8, ResumedFinite DEF IInv, TypeOK

(* One mail less, and at most one resumed receiver less. *)
LEMMA FetchKeepsMailWakeup ==
  ASSUME IInv, NoLostMailWakeup, NEW t \in Threads,
         \/ pc[t] = "idle"
         \/ pc[t] = "recvWoken" /\ error[t] = "EOK",
         Fetch(t)
  PROVE  NoLostMailWakeup'
<1> SUFFICES ASSUME suspend_thread' # <<>>
             PROVE  entry' <= Cardinality(Resumed("recvWoken")')
  BY DEF NoLostMailWakeup
<1>1. entry <= Cardinality(Resumed("recvWoken")) /\ entry' = entry - 1
  BY DEF NoLostMailWakeup, Fetch
<1>2. pc[t] \notin Waits /\ "sendWait" \in Waits /\ "sendWoken" \in Woken
  BY DEF Waits, Woken
<1>3. /\ pc' = AfterResume(suspend_sender_thread, pc, t, "sendWoken")
      /\ error' = error
  BY DEF Fetch, AfterResume
<1>4. /\ pc'[t] = "idle"
      /\ \A u \in Threads : u # t => (pc'[u] = "recvWoken" <=> pc[u] = "recvWoken")
  <2>1. CASE suspend_sender_thread = <<>>
    BY <2>1, <1>3, TypesAndLists DEF AfterResume, ResumeFirst
  <2>2. CASE suspend_sender_thread # <<>>
    <3>1. /\ Head(suspend_sender_thread) \in Threads
          /\ Head(suspend_sender_thread) # t
          /\ pc[Head(suspend_sender_thread)] = "sendWait"
      BY <2>2, <1>2, TypesAndLists, ResumeListed
    <3> QED BY <2>2, <3>1, <1>3, TypesAndLists DEF AfterResume, ResumeFirst
  <2> QED BY <2>1, <2>2
<1>5. Resumed("recvWoken")' = Resumed("recvWoken") \ {t}
  BY <1>3, <1>4 DEF Resumed
<1>6. Cardinality(Resumed("recvWoken")') >= Cardinality(Resumed("recvWoken")) - 1
  BY <1>5, LoseOne
<1> QED BY <1>1, <1>6, ResumedFinite, ResumedFinite2 DEF IInv, TypeOK

(* One free slot more, and one resumed sender more if one was waiting. *)
LEMMA FetchKeepsRoomWakeup ==
  ASSUME IInv, NoLostRoomWakeup, NEW t \in Threads,
         pc[t] \in {"idle", "recvWoken"}, Fetch(t)
  PROVE  NoLostRoomWakeup'
<1> SUFFICES ASSUME suspend_sender_thread' # <<>>
             PROVE  Size - entry' <= Cardinality(Resumed("sendWoken")')
  BY DEF NoLostRoomWakeup
<1>1. suspend_sender_thread # <<>>
  BY DEF Fetch, Rest
<1>2. Size - entry <= Cardinality(Resumed("sendWoken")) /\ entry' = entry - 1
  BY <1>1 DEF NoLostRoomWakeup, Fetch
<1>3. pc[t] \notin Waits /\ "sendWait" \in Waits /\ "sendWoken" \in Woken
  BY DEF Waits, Woken
<1>4. pc' = AfterResume(suspend_sender_thread, pc, t, "sendWoken") /\ error' = error
  BY DEF Fetch, AfterResume
<1> DEFINE h == Head(suspend_sender_thread)
<1>5. h \in Threads /\ h # t /\ pc[h] = "sendWait" /\ error[h] = "EOK"
  BY <1>1, <1>3, TypesAndLists, ResumeListed
<1>6. \A u \in Threads :
         pc'[u] = "sendWoken" <=> \/ u # t /\ pc[u] = "sendWoken"
                                  \/ u = h
  BY <1>1, <1>3, <1>4, TypesAndLists, ResumeListed
<1> HIDE DEF h
<1>7. /\ Resumed("sendWoken")' = Resumed("sendWoken") \cup {h}
      /\ h \notin Resumed("sendWoken")
  BY <1>4, <1>5, <1>6 DEF Resumed
<1>8. Cardinality(Resumed("sendWoken")') = Cardinality(Resumed("sendWoken")) + 1
  BY <1>7, GainOne
<1> QED BY <1>2, <1>8, ResumedFinite, SizeAssumption DEF IInv, TypeOK

(* One free slot less, and at most one resumed sender less. *)
LEMMA StoreKeepsRoomWakeup ==
  ASSUME IInv, NoLostRoomWakeup, NEW t \in Threads, NEW v,
         \/ pc[t] = "idle"
         \/ pc[t] = "sendWoken" /\ error[t] = "EOK",
         Store(t, v)
  PROVE  NoLostRoomWakeup'
<1> SUFFICES ASSUME suspend_sender_thread' # <<>>
             PROVE  Size - entry' <= Cardinality(Resumed("sendWoken")')
  BY DEF NoLostRoomWakeup
<1>1. Size - entry <= Cardinality(Resumed("sendWoken")) /\ entry' = entry + 1
  BY DEF NoLostRoomWakeup, Store
<1>2. pc[t] \notin Waits /\ "recvWait" \in Waits /\ "recvWoken" \in Woken
  BY DEF Waits, Woken
<1>3. /\ pc' = AfterResume(suspend_thread, pc, t, "recvWoken")
      /\ error' = error
  BY DEF Store, AfterResume
<1>4. /\ pc'[t] = "idle"
      /\ \A u \in Threads : u # t => (pc'[u] = "sendWoken" <=> pc[u] = "sendWoken")
  <2>1. CASE suspend_thread = <<>>
    BY <2>1, <1>3, TypesAndLists DEF AfterResume, ResumeFirst
  <2>2. CASE suspend_thread # <<>>
    <3>1. /\ Head(suspend_thread) \in Threads
          /\ Head(suspend_thread) # t
          /\ pc[Head(suspend_thread)] = "recvWait"
      BY <2>2, <1>2, TypesAndLists, ResumeListed
    <3> QED BY <2>2, <3>1, <1>3, TypesAndLists DEF AfterResume, ResumeFirst
  <2> QED BY <2>1, <2>2
<1>5. Resumed("sendWoken")' = Resumed("sendWoken") \ {t}
  BY <1>3, <1>4 DEF Resumed
<1>6. Cardinality(Resumed("sendWoken")') >= Cardinality(Resumed("sendWoken")) - 1
  BY <1>5, LoseOne
<1> QED BY <1>1, <1>6, ResumedFinite, ResumedFinite2, SizeAssumption DEF IInv, TypeOK

(* A step that resumes nobody and moves no mail. *)
LEMMA WakeupFrame ==
  ASSUME IInv, NoLostMailWakeup, NoLostRoomWakeup,
         Resumed("recvWoken")' = Resumed("recvWoken"),
         Resumed("sendWoken")' = Resumed("sendWoken"),
         entry' = entry,
         suspend_thread' # <<>> => suspend_thread # <<>> \/ entry = 0,
         suspend_sender_thread' # <<>> =>
             suspend_sender_thread # <<>> \/ entry = Size
  PROVE  NoLostMailWakeup' /\ NoLostRoomWakeup'
<1>1. entry \in Nat
  BY SizeAssumption DEF IInv, TypeOK
<1> QED BY <1>1, ResumedFinite, SizeAssumption
        DEF NoLostMailWakeup, NoLostRoomWakeup

LEMMA SendLoopWakeup ==
  ASSUME IInv, NoLostMailWakeup, NoLostRoomWakeup, NEW t \in Threads, NEW v,
         NEW to, SendLoop(t, v, to),
         \/ pc[t] = "idle"
         \/ pc[t] = "sendWoken" /\ error[t] = "EOK"
  PROVE  NoLostMailWakeup' /\ NoLostRoomWakeup'
<1>1. CASE Store(t, v)
  BY <1>1, StoreKeepsMailWakeup, StoreKeepsRoomWakeup
<1>2. CASE entry = Size /\ entry' = entry /\ UNCHANGED suspend_thread
           /\ pc'[t] \notin Woken
           /\ \A u \in Threads : u # t => pc'[u] = pc[u] /\ error'[u] = error[u]
  <2>1. Resumed("recvWoken")' = Resumed("recvWoken")
    BY <1>2 DEF Resumed, Woken
  <2>2. NoLostMailWakeup'
    BY <1>2, <2>1 DEF NoLostMailWakeup
  <2>3. NoLostRoomWakeup'
    BY <1>2, ResumedFinite2, SizeAssumption DEF NoLostRoomWakeup
  <2> QED BY <2>2, <2>3
<1>3. SendFull(t, to) \/ SendSuspend(t, v, to) =>
         /\ entry = Size /\ entry' = entry /\ UNCHANGED suspend_thread
         /\ pc'[t] \notin Woken
         /\ \A u \in Threads : u # t => pc'[u] = pc[u] /\ error'[u] = error[u]
  BY TypesAndLists DEF SendFull, SendSuspend, ring, lists, Woken
<1> QED BY <1>1, <1>2, <1>3 DEF SendLoop

LEMMA RecvLoopWakeup ==
  ASSUME IInv, NoLostMailWakeup, NoLostRoomWakeup, NEW t \in Threads,
         NEW to, RecvLoop(t, to),
         \/ pc[t] = "idle"
         \/ pc[t] = "recvWoken" /\ error[t] = "EOK"
  PROVE  NoLostMailWakeup' /\ NoLostRoomWakeup'
<1>1. CASE Fetch(t)
  BY <1>1, FetchKeepsMailWakeup, FetchKeepsRoomWakeup
<1>2. CASE entry = 0 /\ entry' = entry /\ UNCHANGED suspend_sender_thread
           /\ pc'[t] \notin Woken
           /\ \A u \in Threads : u # t => pc'[u] = pc[u] /\ error'[u] = error[u]
  <2>1. Resumed("sendWoken")' = Resumed("sendWoken")
    BY <1>2 DEF Resumed, Woken
  <2>2. NoLostRoomWakeup'
    BY <1>2, <2>1 DEF NoLostRoomWakeup
  <2>3. NoLostMailWakeup'
    BY <1>2, ResumedFinite2 DEF NoLostMailWakeup
  <2> QED BY <2>2, <2>3
<1>3. RecvEmpty(t, to) \/ RecvSuspend(t, to) =>
         /\ entry = 0 /\ entry' = entry /\ UNCHANGED suspend_sender_thread
         /\ pc'[t] \notin Woken
         /\ \A u \in Threads : u # t => pc'[u] = pc[u] /\ error'[u] = error[u]
  BY TypesAndLists DEF RecvEmpty, RecvSuspend, ring, lists, Woken
<1> QED BY <1>1, <1>2, <1>3 DEF RecvLoop

LEMMA OtherStepsWakeup ==
  ASSUME IInv, NoLostMailWakeup, NoLostRoomWakeup,
         \/ UNCHANGED vars
         \/ \E t \in Threads : ReturnError(t) \/ Timeout(t)
         \/ Reset
  PROVE  NoLostMailWakeup' /\ NoLostRoomWakeup'
<1>1. CASE UNCHANGED vars
  BY <1>1 DEF vars, ring, lists, NoLostMailWakeup, NoLostRoomWakeup, Resumed
<1>2. ASSUME NEW t \in Threads, ReturnError(t)
      PROVE  NoLostMailWakeup' /\ NoLostRoomWakeup'
  <2>1. /\ Resumed("recvWoken")' = Resumed("recvWoken")
        /\ Resumed("sendWoken")' = Resumed("sendWoken")
    BY <1>2, TypesAndLists DEF ReturnError, Resumed
  <2> QED BY <1>2, <2>1, WakeupFrame DEF ReturnError, ring, lists
<1>3. ASSUME NEW t \in Threads, Timeout(t)
      PROVE  NoLostMailWakeup' /\ NoLostRoomWakeup'
  <2>1. /\ Resumed("recvWoken")' = Resumed("recvWoken")
        /\ Resumed("sendWoken")' = Resumed("sendWoken")
    BY <1>3, TypesAndLists DEF Timeout, Resumed, Waits, WokenFrom
  <2>2. Without(<<>>, t) = <<>>
    BY DEF Without
  <2> QED BY <1>3, <2>1, <2>2, WakeupFrame DEF Timeout, ring
<1>4. CASE Reset
  BY <1>4 DEF Reset, NoLostMailWakeup, NoLostRoomWakeup
<1> QED BY <1>1, <1>2, <1>3, <1>4

(* No thread sleeps beside a mail, or beside room, that nobody is on the   *)
(* way to take: for any number of threads and any size of the mailbox.     *)
THEOREM NoLostWakeup == Spec => [](NoLostMailWakeup /\ NoLostRoomWakeup)
<1> DEFINE Inv == IInv /\ NoLostMailWakeup /\ NoLostRoomWakeup
<1>1. Init => Inv
  BY InitIInv DEF Init, NoLostMailWakeup, NoLostRoomWakeup
<1>2. Inv /\ [Next]_vars => Inv'
  <2> SUFFICES ASSUME Inv, [Next]_vars
               PROVE  NoLostMailWakeup' /\ NoLostRoomWakeup'
    BY NextIInv
  <2>1. ASSUME NEW t \in Threads, NEW v, NEW to, Send(t, v, to)
        PROVE  NoLostMailWakeup' /\ NoLostRoomWakeup'
    BY <2>1, SendLoopWakeup DEF Send
  <2>2. ASSUME NEW t \in Threads, NEW to, Recv(t, to)
        PROVE  NoLostMailWakeup' /\ NoLostRoomWakeup'
    BY <2>2, RecvLoopWakeup DEF Recv
  <2>3. ASSUME NEW t \in Threads, SendAgain(t) \/ RecvAgain(t)
        PROVE  NoLostMailWakeup' /\ NoLostRoomWakeup'
    BY <2>3, SendLoopWakeup, RecvLoopWakeup DEF SendAgain, RecvAgain
  <2> QED BY <2>1, <2>2, <2>3, OtherStepsWakeup DEF Next, Run
<1> QED BY <1>1, <1>2, PTL DEF Spec

(* No sender sleeps beside room that nobody is on the way to fill          *)
(* (rt_mb_recv, ipc.c:1699): the half of NoLostWakeup about senders.       *)
THEOREM RoomIsFilled == Spec => []NoLostRoomWakeup
BY NoLostWakeup, PTL

-----------------------------------------------------------------------------
(***************************************************************************)
(* The order of the waiting lists.  Every operation on a list keeps it     *)
(* sorted by priority, so the thread at its head is always a most urgent   *)
(* one.                                                                    *)
(***************************************************************************)
Sorted(list) ==
    \A i, j \in 1..Len(list) : i < j => Prio[list[i]] <= Prio[list[j]]

(* rt_ipc_list_suspend inserts before the first thread less urgent. *)
LEMMA SuspendSorted ==
  ASSUME NEW list \in Seq(Threads), NEW t \in Threads,
         NEW k \in Position(list, t), Sorted(list)
  PROVE  Sorted(InsertAt(list, k, t))
<1> DEFINE new == InsertAt(list, k, t)
<1>0. k \in 1..(Len(list) + 1)
  BY DEF Position
<1>1. /\ k \in 1..(Len(list) + 1) /\ Len(list) \in Nat
      /\ \A i \in 1..(k - 1) : Prio[list[i]] <= Prio[t]
      /\ k <= Len(list) => Prio[t] < Prio[list[k]]
  BY LenProperties DEF Position
<1>2. /\ Len(new) = Len(list) + 1
      /\ \A i \in 1..(k - 1) : new[i] = list[i]
      /\ new[k] = t
      /\ \A i \in (k + 1)..(Len(list) + 1) : new[i] = list[i - 1]
  <2> DEFINE Facts(n, m) ==
        /\ Len(n) = Len(list) + 1
        /\ \A i \in 1..(m - 1) : n[i] = list[i]
        /\ n[m] = t
        /\ \A i \in (m + 1)..(Len(list) + 1) : n[i] = list[i - 1]
  <2>1. ASSUME NEW m \in 1..(Len(list) + 1) PROVE Facts(InsertAt(list, m, t), m)
    BY InsertAtFacts
  <2> HIDE DEF Facts
  <2>2. Facts(new, k)
    BY <1>0, <2>1, Zenon
  <2> QED
    BY <2>2 DEF Facts
<1>3. Prio[t] \in Nat /\ \A i \in 1..Len(list) : Prio[list[i]] \in Nat
  BY LenProperties, PrioAssumption
<1>4. \A i, j \in 1..Len(list) : i < j => Prio[list[i]] <= Prio[list[j]]
  BY DEF Sorted
<1> HIDE DEF new
<1>5. ASSUME NEW i \in 1..Len(new), NEW j \in 1..Len(new), i < j
      PROVE  Prio[new[i]] <= Prio[new[j]]
  <2>1. CASE j < k
    BY <2>1, <1>1, <1>2, <1>4, <1>5
  <2>2. CASE j = k
    BY <2>2, <1>1, <1>2, <1>5
  <2>3. CASE j > k
    <3>1. new[j] = list[j - 1] /\ j - 1 \in 1..Len(list) /\ k <= j - 1
      BY <2>3, <1>1, <1>2
    <3>2. CASE i < k
      BY <3>1, <3>2, <1>1, <1>2, <1>4
    <3>3. CASE i = k
      <4>1. Prio[t] < Prio[list[k]] /\ k \in 1..Len(list)
        BY <3>1, <1>1
      <4>2. k = j - 1 \/ Prio[list[k]] <= Prio[list[j - 1]]
        BY <3>1, <4>1, <1>4
      <4> QED BY <3>1, <3>3, <4>1, <4>2, <1>2, <1>3
    <3>4. CASE i > k
      <4>1. new[i] = list[i - 1] /\ i - 1 \in 1..Len(list) /\ i - 1 < j - 1
        BY <3>4, <1>1, <1>2, <1>5
      <4> QED BY <3>1, <4>1, <1>4
    <3> QED BY <3>2, <3>3, <3>4, <1>1
  <2> QED BY <2>1, <2>2, <2>3, <1>1
<1> QED BY <1>5 DEF Sorted, new

(* rt_ipc_list_resume takes the head. *)
LEMMA RestSorted ==
  ASSUME NEW list \in Seq(Threads), Sorted(list)
  PROVE  Sorted(Rest(list))
<1>1. CASE list = <<>>
  BY <1>1 DEF Rest
<1>2. CASE list # <<>>
  <2>1. /\ Len(Tail(list)) = Len(list) - 1 /\ Len(list) \in Nat
        /\ \A i \in 1..Len(Tail(list)) : Tail(list)[i] = list[i + 1]
    BY <1>2, HeadTailProperties, LenProperties
  <2>2. Sorted(Tail(list))
    BY <2>1 DEF Sorted
  <2> QED BY <1>2, <2>2 DEF Rest
<1> QED BY <1>1, <1>2

(* rt_thread_timeout takes a thread out, wherever it stands. *)
LEMMA WithoutSorted ==
  ASSUME NEW list \in Seq(Threads), NEW t, Sorted(list)
  PROVE  Sorted(Without(list, t))
<1>1. CASE ~ \E i \in 1..Len(list) : list[i] = t
  BY <1>1 DEF Without
<1>2. CASE \E i \in 1..Len(list) : list[i] = t
  <2> DEFINE k == CHOOSE i \in 1..Len(list) : list[i] = t
             new == RemoveAt(list, k)
  <2>1. k \in 1..Len(list)
    BY <1>2
  <2> HIDE DEF k
  <2>2. /\ Len(new) = Len(list) - 1 /\ Len(list) \in Nat
        /\ \A i \in 1..(Len(list) - 1) :
              new[i] = IF i < k THEN list[i] ELSE list[i + 1]
    BY <2>1, RemoveAtFacts, LenProperties
  <2> HIDE DEF new
  <2>3. Sorted(new)
    BY <2>1, <2>2 DEF Sorted
  <2> QED BY <1>2, <2>3 DEF Without, k, new
<1> QED BY <1>1, <1>2

BothSorted == Sorted(suspend_thread) /\ Sorted(suspend_sender_thread)

LEMMA LoopSorted ==
  ASSUME IInv, BothSorted, NEW t \in Threads, NEW v, NEW to,
         SendLoop(t, v, to) \/ RecvLoop(t, to)
  PROVE  BothSorted'
<1>1. CASE Store(t, v)
  BY <1>1, TypesAndLists, RestSorted DEF Store, BothSorted
<1>2. CASE Fetch(t)
  BY <1>2, TypesAndLists, RestSorted DEF Fetch, BothSorted
<1>3. CASE SendSuspend(t, v, to)
  BY <1>3, TypesAndLists, SuspendSorted DEF SendSuspend, BothSorted
<1>4. CASE RecvSuspend(t, to)
  BY <1>4, TypesAndLists, SuspendSorted DEF RecvSuspend, BothSorted
<1>5. CASE SendFull(t, to) \/ RecvEmpty(t, to)
  BY <1>5 DEF SendFull, RecvEmpty, lists, BothSorted
<1> QED BY <1>1, <1>2, <1>3, <1>4, <1>5 DEF SendLoop, RecvLoop

LEMMA NextSorted == IInv /\ BothSorted /\ [Next]_vars => BothSorted'
<1> SUFFICES ASSUME IInv, BothSorted, [Next]_vars PROVE BothSorted'
  OBVIOUS
<1>1. ASSUME NEW t \in Threads, NEW v, NEW to, Send(t, v, to) \/ Recv(t, to)
      PROVE  BothSorted'
  BY <1>1, LoopSorted DEF Send, Recv
<1>2. ASSUME NEW t \in Threads, SendAgain(t) \/ RecvAgain(t)
      PROVE  BothSorted'
  BY <1>2, LoopSorted DEF SendAgain, RecvAgain
<1>3. ASSUME NEW t \in Threads, ReturnError(t)
      PROVE  BothSorted'
  BY <1>3 DEF ReturnError, lists, BothSorted
<1>4. ASSUME NEW t \in Threads, Timeout(t)
      PROVE  BothSorted'
  BY <1>4, TypesAndLists, WithoutSorted DEF Timeout, BothSorted
<1>5. CASE Reset
  BY <1>5 DEF Reset, BothSorted, Sorted
<1>6. CASE UNCHANGED vars
  BY <1>6 DEF vars, lists, BothSorted
<1> QED BY <1>1, <1>2, <1>3, <1>4, <1>5, <1>6 DEF Next, Run

(* Whoever comes, times out or is resumed, the thread that is woken next   *)
(* (rt_ipc_list_resume, ipc.c:134) is never less urgent than one that      *)
(* stays behind it, for any priorities and any number of threads.          *)
THEOREM UrgentComesFirst == Spec => []MostUrgentFirst
<1>1. Init => IInv /\ BothSorted
  BY InitIInv DEF Init, BothSorted, Sorted
<1>2. IInv /\ BothSorted => MostUrgentFirst
  <2> SUFFICES ASSUME IInv, BothSorted,
                      NEW list \in {suspend_thread, suspend_sender_thread}
               PROVE  \A i, j \in DOMAIN list :
                         i < j => Prio[list[i]] <= Prio[list[j]]
    BY DEF MostUrgentFirst
  <2>1. list \in Seq(Threads) /\ Sorted(list)
    BY TypesAndLists DEF BothSorted
  <2>2. DOMAIN list = 1..Len(list)
    BY <2>1, LenProperties
  <2> QED BY <2>1, <2>2 DEF Sorted
<1> QED BY <1>1, <1>2, NextIInv, NextSorted, PTL DEF Spec

-----------------------------------------------------------------------------
(***************************************************************************)
(* The mailbox implements a bounded queue.  The ring of slots from         *)
(* out_offset up to in_offset, whatever its wrap, holds exactly the mails  *)
(* of the queue, and a thread in rt_mb_send_wait still has the mail it was *)
(* called with, however often it waits.                                    *)
(***************************************************************************)
(* The i-th slot from offset o on. *)
Slot(o, i) == IF o + i - 1 < Size THEN o + i - 1 ELSE o + i - 1 - Size

Sending == {"sendWait", "sendWoken"}

RingHoldsQueue == /\ in_offset = Slot(out_offset, entry + 1)
                  /\ queue \in Seq(Mails)
SendersHaveMail == \A t \in Threads : pc[t] \in Sending => value[t] \in Mails
QueueInv == RingHoldsQueue /\ SendersHaveMail

(* A function over 1..n is a sequence. *)
LEMMA FunctionIsSeq ==
  ASSUME NEW S, NEW n \in Nat, NEW f \in [1..n -> S]
  PROVE  f \in Seq(S) /\ Len(f) = n
<1>1. f \in Seq(S)
  BY SeqDef
<1>2. f \in [1..Len(f) -> S] /\ Len(f) \in Nat
  BY <1>1, LenProperties
<1>3. 1..n = 1..Len(f)
  BY <1>2
<1> QED BY <1>1, <1>2, <1>3

(* What the types say of the ring's numbers. *)
LEMMA RingTypes ==
  ASSUME IInv
  PROVE  /\ Size \in Nat \ {0} /\ entry \in 0..Size
         /\ in_offset \in 0..(Size - 1) /\ out_offset \in 0..(Size - 1)
         /\ msg_pool \in [0..(Size - 1) -> Mails \cup {NoMail}]
BY SizeAssumption DEF IInv, TypeOK

(* Slots of the ring: the i-th one exists, and no two are the same. *)
LEMMA SlotFacts ==
  ASSUME NEW o \in 0..(Size - 1), NEW i \in 1..Size
  PROVE  /\ Slot(o, i) \in 0..(Size - 1) /\ Slot(o, 1) = o
         /\ i < Size => Slot(o, i + 1) = NextOffset(Slot(o, i))
         /\ i < Size => Slot(NextOffset(o), i) = Slot(o, i + 1)
         /\ \A j \in 1..Size : Slot(o, i) = Slot(o, j) => i = j
BY SizeAssumption DEF Slot, NextOffset

(* The queue has as many mails as entry counts, one per slot. *)
LEMMA QueueFacts ==
  ASSUME IInv, queue \in Seq(Mails)
  PROVE  /\ Len(queue) = entry
         /\ \A i \in 1..entry : queue[i] = msg_pool[Slot(out_offset, i)]
<1>1. queue = [i \in 1..entry |-> msg_pool[Slot(out_offset, i)]]
  BY DEF queue, Slot
<1>2. DOMAIN queue = 1..entry /\ DOMAIN queue = 1..Len(queue)
  BY <1>1, LenProperties
<1>3. Len(queue) \in Nat /\ entry \in Nat
  BY LenProperties, RingTypes
<1>4. Len(queue) = entry
  BY <1>2, <1>3
<1> QED BY <1>1, <1>4

(* rt_mb_send_wait appends its mail (ipc.c:1540-1547). *)
LEMMA StorePuts ==
  ASSUME IInv, RingHoldsQueue, NEW t \in Threads, NEW v \in Mails, Store(t, v)
  PROVE  RingHoldsQueue' /\ BQ!Put(v)
<1>1. /\ entry # Size /\ entry' = entry + 1
      /\ msg_pool' = [msg_pool EXCEPT ![in_offset] = v]
      /\ in_offset' = NextOffset(in_offset)
      /\ out_offset' = out_offset /\ got' = got
  BY DEF Store
<1>2. /\ Size \in Nat \ {0} /\ entry \in 0..Size /\ entry + 1 \in 1..Size
      /\ entry < Size /\ out_offset \in 0..(Size - 1)
      /\ in_offset \in 0..(Size - 1)
      /\ msg_pool \in [0..(Size - 1) -> Mails \cup {NoMail}]
  BY <1>1, RingTypes
<1>3. in_offset = Slot(out_offset, entry + 1) /\ queue \in Seq(Mails)
  BY DEF RingHoldsQueue
<1>4. in_offset' = Slot(out_offset', entry' + 1)
  BY <1>1, <1>2, <1>3 DEF Slot, NextOffset
<1>5. Len(queue) = entry /\ \A i \in 1..entry : queue[i] = msg_pool[Slot(out_offset, i)]
  BY <1>3, QueueFacts
<1>6. queue' = [i \in 1..(entry + 1) |-> msg_pool'[Slot(out_offset, i)]]
  BY <1>1 DEF queue, Slot
<1> DEFINE q == Append(queue, v)
<1>7. /\ q \in Seq(Mails) /\ Len(q) = entry + 1
      /\ \A i \in 1..entry : q[i] = queue[i]
      /\ q[entry + 1] = v
  BY <1>3, <1>5, AppendProperties
<1> HIDE DEF q
<1>8. ASSUME NEW i \in 1..(entry + 1)
      PROVE  msg_pool'[Slot(out_offset, i)] = q[i]
  <2>1. i \in 1..Size /\ Slot(out_offset, i) \in 0..(Size - 1)
    BY <1>2, SlotFacts
  <2>2. CASE i = entry + 1
    BY <2>1, <2>2, <1>1, <1>2, <1>3, <1>7
  <2>3. CASE i # entry + 1
    <3>1. i \in 1..entry
      BY <2>3, <1>2
    <3>2. Slot(out_offset, i) # in_offset
      BY <2>1, <2>3, <1>2, <1>3, SlotFacts
    <3> QED BY <2>1, <3>1, <3>2, <1>1, <1>2, <1>5, <1>7
  <2> QED BY <2>2, <2>3
<1>9. queue' = q
  <2>1. q = [i \in 1..(entry + 1) |-> q[i]]
    BY <1>7, LenProperties
  <2> QED BY <2>1, <1>6, <1>8
<1>10. RingHoldsQueue'
  BY <1>4, <1>7, <1>9 DEF RingHoldsQueue
<1>11. BQ!Put(v)
  BY <1>1, <1>2, <1>5, <1>9 DEF BQ!Put, q
<1> QED BY <1>10, <1>11

(* rt_mb_recv takes the oldest mail (ipc.c:1688-1696). *)
LEMMA FetchTakes ==
  ASSUME IInv, RingHoldsQueue, NEW t \in Threads, Fetch(t)
  PROVE  RingHoldsQueue' /\ BQ!Take
<1>1. /\ entry # 0 /\ entry' = entry - 1
      /\ got' = msg_pool[out_offset]
      /\ out_offset' = NextOffset(out_offset)
      /\ in_offset' = in_offset /\ msg_pool' = msg_pool
  BY DEF Fetch
<1>2. /\ Size \in Nat \ {0} /\ entry \in 1..Size
      /\ out_offset \in 0..(Size - 1) /\ in_offset \in 0..(Size - 1)
  BY <1>1, RingTypes
<1>3. in_offset = Slot(out_offset, entry + 1) /\ queue \in Seq(Mails)
  BY DEF RingHoldsQueue
<1>4. in_offset' = Slot(out_offset', entry' + 1)
  BY <1>1, <1>2, <1>3 DEF Slot, NextOffset
<1>5. Len(queue) = entry /\ \A i \in 1..entry : queue[i] = msg_pool[Slot(out_offset, i)]
  BY <1>3, QueueFacts
<1>6. queue' = [i \in 1..(entry - 1) |-> msg_pool[Slot(out_offset', i)]]
  BY <1>1 DEF queue, Slot
<1>7. queue # <<>> /\ Head(queue) = queue[1]
  BY <1>2, <1>3, <1>5, EmptySeq
<1>8. got' = Head(queue)
  <2>1. 1 \in 1..entry /\ 1 \in 1..Size /\ Slot(out_offset, 1) = out_offset
    BY <1>2, SlotFacts
  <2> QED BY <2>1, <1>1, <1>5, <1>7
<1> DEFINE q == Tail(queue)
<1>9. /\ q \in Seq(Mails) /\ Len(q) = entry - 1
      /\ \A i \in 1..(entry - 1) : q[i] = queue[i + 1]
  BY <1>3, <1>5, <1>7, HeadTailProperties
<1> HIDE DEF q
<1>10. ASSUME NEW i \in 1..(entry - 1)
       PROVE  msg_pool[Slot(out_offset', i)] = q[i]
  <2>1. i \in 1..Size /\ i < Size /\ i + 1 \in 1..entry
    BY <1>2
  <2>2. Slot(out_offset', i) = Slot(out_offset, i + 1)
    BY <2>1, <1>1, <1>2, SlotFacts
  <2> QED BY <2>1, <2>2, <1>5, <1>9
<1>11. queue' = q
  <2>1. q = [i \in 1..(entry - 1) |-> q[i]]
    BY <1>9, LenProperties
  <2> QED BY <2>1, <1>6, <1>10
<1>12. RingHoldsQueue'
  BY <1>4, <1>9, <1>11 DEF RingHoldsQueue
<1>13. BQ!Take
  BY <1>7, <1>8, <1>11 DEF BQ!Take, q
<1> QED BY <1>12, <1>13

(* RT_IPC_CMD_RESET forgets the mails. *)
LEMMA ResetClears ==
  ASSUME IInv, RingHoldsQueue, Reset
  PROVE  RingHoldsQueue' /\ BQ!Clear
<1>1. entry' = 0 /\ in_offset' = 0 /\ out_offset' = 0 /\ got' = got
  BY DEF Reset
<1>2. queue' = <<>>
  BY <1>1 DEF queue
<1>3. in_offset' = Slot(out_offset', entry' + 1)
  BY <1>1, SizeAssumption DEF Slot
<1> QED BY <1>1, <1>2, <1>3 DEF RingHoldsQueue, BQ!Clear

(* A step that leaves the ring and the mail fetched last alone. *)
LEMMA RingFrame ==
  ASSUME RingHoldsQueue, UNCHANGED <<ring, got>>
  PROVE  RingHoldsQueue' /\ UNCHANGED <<queue, got>>
BY DEF RingHoldsQueue, ring, queue, Slot

(* A thread inside rt_mb_send_wait that was resumed, timed out or reset    *)
(* still has its mail, because nobody else writes its locals.              *)
LEMMA SendersKeepMail ==
  ASSUME IInv, SendersHaveMail, [Next]_vars
  PROVE  SendersHaveMail'
<1>0. /\ pc \in [Threads -> PCs] /\ value \in [Threads -> Mails \cup {NoMail}]
      /\ "idle" \notin Sending /\ "recvWait" \notin Sending
      /\ "recvWoken" \notin Sending
  BY TypesAndLists DEF IInv, TypeOK, Sending
<1>1. SUFFICES ASSUME NEW u \in Threads, pc'[u] \in Sending
               PROVE  value'[u] \in Mails
  BY DEF SendersHaveMail
<1>2. CASE pc[u] \in Sending /\ value'[u] = value[u]
  BY <1>2 DEF SendersHaveMail
<1>3. ASSUME NEW t \in Threads, NEW v \in Mails \cup {NoMail}, NEW to,
             SendLoop(t, v, to), pc[t] \notin Waits
      PROVE  \/ pc[u] \in Sending /\ value'[u] = value[u]
             \/ u = t /\ value'[u] = v
  <2>1. CASE Store(t, v)
    <3>1. /\ pc' = AfterResume(suspend_thread, pc, t, "recvWoken")
          /\ value' = [value EXCEPT ![t] = NoMail]
      BY <2>1 DEF Store, AfterResume, Drop, Keep
    <3>2. CASE suspend_thread = <<>>
      BY <3>1, <3>2, <1>0, <1>1 DEF AfterResume, ResumeFirst
    <3>3. CASE suspend_thread # <<>>
      <4>1. Head(suspend_thread) \in Threads /\ Head(suspend_thread) # t
        <5>1. /\ Head(suspend_thread) \in Threads
              /\ pc[Head(suspend_thread)] = "recvWait"
          BY <3>3, TypesAndLists, HeadWaits
        <5> QED BY <5>1, <1>3 DEF Waits
      <4>2. pc' = [[pc EXCEPT ![t] = "idle"] EXCEPT ![Head(suspend_thread)] = "recvWoken"]
        BY <3>1, <3>3 DEF AfterResume, ResumeFirst
      <4> QED BY <3>1, <4>1, <4>2, <1>0, <1>1
    <3> QED BY <3>2, <3>3
  <2>2. CASE SendFull(t, to)
    BY <2>2, <1>0, <1>1 DEF SendFull, Drop, Keep
  <2>3. CASE SendSuspend(t, v, to)
    BY <2>3, <1>0, <1>1 DEF SendSuspend, Keep
  <2> QED BY <2>1, <2>2, <2>3, <1>3 DEF SendLoop
<1>4. ASSUME NEW t \in Threads, NEW to, RecvLoop(t, to), pc[t] \notin Waits
      PROVE  pc[u] \in Sending /\ value'[u] = value[u]
  <2>1. CASE Fetch(t)
    <3>1. /\ pc' = AfterResume(suspend_sender_thread, pc, t, "sendWoken")
          /\ value' = [value EXCEPT ![t] = NoMail]
      BY <2>1 DEF Fetch, AfterResume, Drop, Keep
    <3>2. CASE suspend_sender_thread = <<>>
      BY <3>1, <3>2, <1>0, <1>1 DEF AfterResume, ResumeFirst
    <3>3. CASE suspend_sender_thread # <<>>
      <4>1. /\ Head(suspend_sender_thread) \in Threads
            /\ Head(suspend_sender_thread) # t
            /\ pc[Head(suspend_sender_thread)] = "sendWait"
        <5>1. /\ Head(suspend_sender_thread) \in Threads
              /\ pc[Head(suspend_sender_thread)] = "sendWait"
          BY <3>3, TypesAndLists, HeadWaits
        <5> QED BY <5>1, <1>4 DEF Waits
      <4>2. pc' = [[pc EXCEPT ![t] = "idle"]
                   EXCEPT ![Head(suspend_sender_thread)] = "sendWoken"]
        BY <3>1, <3>3 DEF AfterResume, ResumeFirst
      <4> QED BY <3>1, <4>1, <4>2, <1>0, <1>1 DEF Sending
    <3> QED BY <3>2, <3>3
  <2>2. CASE RecvEmpty(t, to)
    BY <2>2, <1>0, <1>1 DEF RecvEmpty, Drop, Keep
  <2>3. CASE RecvSuspend(t, to)
    BY <2>3, <1>0, <1>1 DEF RecvSuspend, Keep
  <2> QED BY <2>1, <2>2, <2>3, <1>4 DEF RecvLoop
<1>5. ASSUME NEW t \in Threads, NEW v \in Mails, NEW to, Send(t, v, to)
      PROVE  value'[u] \in Mails
  <2>1. SendLoop(t, v, to) /\ pc[t] \notin Waits
    BY <1>5 DEF Send, Waits
  <2> QED BY <2>1, <1>2, <1>3
<1>6. ASSUME NEW t \in Threads, NEW to, Recv(t, to)
      PROVE  value'[u] \in Mails
  BY <1>6, <1>2, <1>4 DEF Recv, Waits
<1>7. ASSUME NEW t \in Threads, SendAgain(t)
      PROVE  value'[u] \in Mails
  <2>1. PICK to : SendLoop(t, value[t], to)
    BY <1>7 DEF SendAgain
  <2>2. pc[t] \notin Waits /\ value[t] \in Mails
    BY <1>7 DEF SendAgain, Waits, SendersHaveMail, Sending
  <2> QED BY <2>1, <2>2, <1>2, <1>3
<1>8. ASSUME NEW t \in Threads, RecvAgain(t)
      PROVE  value'[u] \in Mails
  <2>1. PICK to : RecvLoop(t, to)
    BY <1>8 DEF RecvAgain
  <2>2. pc[t] \notin Waits
    BY <1>8 DEF RecvAgain, Waits
  <2> QED BY <2>1, <2>2, <1>2, <1>4
<1>9. ASSUME NEW t \in Threads, ReturnError(t)
      PROVE  value'[u] \in Mails
  BY <1>9, <1>0, <1>1, <1>2 DEF ReturnError, Drop, Keep
<1>10. ASSUME NEW t \in Threads, Timeout(t)
       PROVE  value'[u] \in Mails
  BY <1>10, <1>0, <1>1, <1>2 DEF Timeout, WokenFrom, Waits, Sending, locals
<1>11. CASE Reset
  BY <1>11, <1>0, <1>1, <1>2 DEF Reset, WokenFrom, Waits, Sending, locals
<1>12. CASE UNCHANGED vars
  BY <1>12, <1>1, <1>2 DEF vars, locals
<1> QED BY <1>5, <1>6, <1>7, <1>8, <1>9, <1>10, <1>11, <1>12 DEF Next, Run

(* Every step of the mailbox is a step of the queue, or does nothing to it *)
LEMMA QueueStep ==
  ASSUME IInv, QueueInv, [Next]_vars
  PROVE  RingHoldsQueue' /\ [BQ!Next]_<<queue, got>>
<1> DEFINE Good == RingHoldsQueue' /\ (BQ!Next \/ UNCHANGED <<queue, got>>)
<1>1. ASSUME NEW t \in Threads, NEW v \in Mails, NEW to, SendLoop(t, v, to)
      PROVE  Good
  <2>1. CASE Store(t, v)
    BY <2>1, StorePuts DEF BQ!Next, QueueInv
  <2>2. CASE SendFull(t, to) \/ SendSuspend(t, v, to)
    <3>1. UNCHANGED <<ring, got>>
      BY <2>2 DEF SendFull, SendSuspend
    <3> QED BY <3>1, RingFrame DEF QueueInv
  <2> QED BY <2>1, <2>2, <1>1 DEF SendLoop
<1>2. ASSUME NEW t \in Threads, NEW to, RecvLoop(t, to)
      PROVE  Good
  <2>1. CASE Fetch(t)
    BY <2>1, FetchTakes DEF BQ!Next, QueueInv
  <2>2. CASE RecvEmpty(t, to) \/ RecvSuspend(t, to)
    <3>1. UNCHANGED <<ring, got>>
      BY <2>2 DEF RecvEmpty, RecvSuspend
    <3> QED BY <3>1, RingFrame DEF QueueInv
  <2> QED BY <2>1, <2>2, <1>2 DEF RecvLoop
<1>3. ASSUME NEW t \in Threads, SendAgain(t)
      PROVE  Good
  <2>1. PICK to : SendLoop(t, value[t], to)
    BY <1>3 DEF SendAgain
  <2>2. value[t] \in Mails
    BY <1>3 DEF SendAgain, QueueInv, SendersHaveMail, Sending
  <2> QED BY <2>1, <2>2, <1>1
<1>4. CASE Reset
  BY <1>4, ResetClears DEF BQ!Next, QueueInv
<1>5. UNCHANGED <<ring, got>> => Good
  BY RingFrame DEF QueueInv
<1>6. ASSUME NEW t \in Threads, ReturnError(t) \/ Timeout(t)
      PROVE  Good
  BY <1>5, <1>6 DEF ReturnError, Timeout
<1>7. CASE UNCHANGED vars
  BY <1>5, <1>7 DEF vars
<1>8. ASSUME NEW t \in Threads, Run(t)
      PROVE  Good
  BY <1>2, <1>3, <1>6, <1>8 DEF Run, RecvAgain
<1> QED BY <1>1, <1>2, <1>4, <1>6, <1>7, <1>8 DEF Next, Send, Recv

(* The mailbox is a bounded queue for any size, threads and mails: what    *)
(* rt_mb_send_wait puts at in_offset (ipc.c:1541), rt_mb_recv takes at     *)
(* out_offset (ipc.c:1689) in the same order, once, and none is lost but   *)
(* by a reset, however the ring wraps and the threads wait and time out.   *)
THEOREM MailboxIsAQueue == Spec => ImplementsBoundedQueue
<1>1. Init => IInv /\ QueueInv /\ BQ!Init
  <2> SUFFICES ASSUME Init PROVE QueueInv /\ BQ!Init
    BY InitIInv
  <2>1. queue = <<>>
    BY DEF Init, queue
  <2>2. RingHoldsQueue
    BY <2>1, SizeAssumption DEF Init, RingHoldsQueue, Slot
  <2>3. SendersHaveMail
    BY DEF Init, SendersHaveMail, Sending
  <2> QED BY <2>1, <2>2, <2>3 DEF QueueInv, BQ!Init, Init
<1>2. IInv /\ QueueInv /\ [Next]_vars
      => IInv' /\ QueueInv' /\ [BQ!Next]_<<queue, got>>
  BY NextIInv, SendersKeepMail, QueueStep DEF QueueInv
<1> QED BY <1>1, <1>2, PTL DEF Spec, ImplementsBoundedQueue, BQ!Spec
=============================================================================
