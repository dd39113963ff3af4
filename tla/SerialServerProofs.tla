------------------------- MODULE SerialServerProofs -------------------------
(***************************************************************************)
(* Proofs about the serial server, on either board, for FIFOs and buffers  *)
(* of any size and any clients: stdLock keeps the two tasks out of each    *)
(* other's characters, an answered write has put its whole text, and the   *)
(* terminal shows of a line what the reader gets.                          *)
(***************************************************************************)
EXTENDS SerialServer, Induction, SequenceTheorems, TLAPS

Typed ==
  /\ DOMAIN pc = Task /\ DOMAIN emit = Task
  /\ ready \subseteq Task
  /\ tx \in 0..TxDepth

\* A task that may put characters has the lock, so there is one at most.
Exclusive == \A t \in Task : Putting(t) => lock = t

\* A task that saw room has a character to put; the room is still there, for
\* only the other task could have taken it.
RoomStays ==
  /\ \A t \in ready : Putting(t) /\ ~Printed(t)
  /\ ready # {} => tx < TxDepth

\* A task that is amid its characters is still putting them.
AmidPutting == amid # Null => amid \in Task /\ Putting(amid) /\ ~Printed(amid)

\* The inductive invariant.
LockInv == Typed /\ Exclusive /\ RoomStays /\ AmidPutting /\ NoOverrun

USE DEF LockInv, Typed, Exclusive, RoomStays, AmidPutting, NoOverrun, Task, Putting, Printed

LEMMA LockInit == Init => LockInv
  BY SerialAssumption DEF Init

\* One task at a time.
LEMMA Alone ==
  ASSUME LockInv, NEW t \in Task, NEW u \in Task, Putting(t), Putting(u)
  PROVE  t = u
  OBVIOUS

LEMMA PutWaitKeeps == ASSUME LockInv, NEW t \in Task, PutWait(t) PROVE LockInv'
<1>1. tx < TxDepth
  BY SerialAssumption DEF PutWait, TxRoom
<1> QED
  BY <1>1 DEF PutWait, putter, clients, outTask, inTask

LEMMA PutStoreKeeps == ASSUME LockInv, NEW t \in Task, PutStore(t) PROVE LockInv'
<1>1. t \in ready /\ Putting(t) /\ lock = t /\ tx < TxDepth
  BY DEF PutStore
<1>2. ready' = {}
  BY <1>1, Alone DEF PutStore
<1>3. tx' = tx + 1 /\ fault' = fault /\ UNCHANGED <<pc, lock>>
  BY <1>1 DEF PutStore
<1>4. amid' # Null => amid' = t /\ emit'[t] # <<>>
  BY <1>1 DEF PutStore
<1>5. tx' \in 0..TxDepth
  BY <1>1, <1>3, SerialAssumption
<1>6. DOMAIN emit' = Task
  BY DEF PutStore
<1> QED
  BY <1>1, <1>2, <1>3, <1>4, <1>5, <1>6

\* Steps that change neither what the tasks put nor where they put it.
LEMMA OthersKeep ==
  ASSUME LockInv, UNCHANGED <<pc, emit, ready, lock, amid>>, tx' \in 0..tx,
         fault' # "overrun"
  PROVE  LockInv'
  BY SerialAssumption

\* Steps of a task that is not putting, and does not come to it.
LEMMA AsideKeeps ==
  ASSUME LockInv, NEW t \in Task, ~Putting(t),
         \E l : l \notin {"puts", "gets", "line"} /\ pc' = [pc EXCEPT ![t] = l],
         \A u \in Task \ {t} : emit'[u] = emit[u], DOMAIN emit' = Task,
         UNCHANGED <<ready, lock, tx, amid, fault>>
  PROVE  LockInv'
  OBVIOUS

LEMMA OutKeeps == LockInv /\ OutTask => LockInv'
<1> SUFFICES ASSUME LockInv, OutTask PROVE LockInv'
  OBVIOUS
<1>1. CASE \E w \in Writer : TakeWrite(w)
  BY <1>1, AsideKeeps DEF TakeWrite, Receive, At, Goto, putter, outTask
<1>2. CASE LockOut
  BY <1>2, SerialAssumption DEF LockOut, At, Goto, putter
<1>3. CASE UnlockOut
  BY <1>3, SerialAssumption DEF UnlockOut, At, Goto, putter
<1>4. CASE Written
  BY <1>4, AsideKeeps DEF Written, RespondWrite, At, Goto, putter
<1>5. CASE MsgRead
  BY <1>5, AsideKeeps, OthersKeep
  DEF MsgRead, TakeError, Receive, RespondWrite, At, Goto, putter, outTask
<1> QED
  BY <1>1, <1>2, <1>3, <1>4, <1>5 DEF OutTask

LEMMA InKeeps == LockInv /\ InTask => LockInv'
<1> SUFFICES ASSUME LockInv, InTask PROVE LockInv'
  OBVIOUS
<1>1. CASE \E r \in Reader : TakeRead(r)
  BY <1>1, AsideKeeps, OthersKeep DEF TakeRead, RespondRead, At, Goto, putter
<1>2. CASE GetByte
  BY <1>2, OthersKeep DEF GetByte, putter
<1>3. CASE LockIn
  BY <1>3, SerialAssumption DEF LockIn, At, Goto
<1>4. CASE GetKey
  BY <1>4 DEF GetKey, At, Goto, putter
<1>5. CASE UnlockIn
  BY <1>5, SerialAssumption DEF UnlockIn, At, Goto, putter
<1>6. CASE ReadDone
  BY <1>6, AsideKeeps DEF ReadDone, At, Goto
<1> QED
  BY <1>1, <1>2, <1>3, <1>4, <1>5, <1>6 DEF InTask

LEMMA LockStep == LockInv /\ [Next]_vars => LockInv'
<1> SUFFICES ASSUME LockInv, [Next]_vars PROVE LockInv'
  OBVIOUS
<1>1. CASE OutTask
  BY <1>1, OutKeeps
<1>2. CASE InTask
  BY <1>2, InKeeps
<1>3. CASE \E t \in Task : Put(t)
  BY <1>3, PutWaitKeeps, PutStoreKeeps DEF Put
<1>4. CASE Transmit
  BY <1>4, OthersKeep DEF Transmit
<1>5. CASE \E k \in Keys : Type(k)
  BY <1>5, OthersKeep DEF Type, putter
<1>6. CASE (\E w \in Writer : Write(w)) \/ (\E r \in Reader : Read(r))
  BY <1>6, OthersKeep DEF Write, Read, putter
<1>7. CASE UNCHANGED vars
  BY <1>7, OthersKeep DEF vars, putter
<1> QED
  BY <1>1, <1>2, <1>3, <1>4, <1>5, <1>6, <1>7 DEF Next

LEMMA LockKept == Spec => []LockInv
  BY LockInit, LockStep, PTL DEF Spec

\* putc (serial/ve/uart.c:302-311) waits and stores in two steps: nobody stores a
\* character where there is no room for it any more.
THEOREM Fits == Spec => []NoOverrun
<1>1. LockInv => NoOverrun
  OBVIOUS
<1> QED
  BY <1>1, LockKept, PTL

\* StdRead and StdWrite (serial/main.c:21-39): the characters of a chunk, or of an
\* echo, come one after the other.
THEOREM Contiguous == Spec => ChunksContiguous
<1>1. LockInv /\ [Next]_vars => [\A t \in ready \ ready' : amid \in {t, Null}]_vars
  BY Alone
<1> QED
  BY <1>1, LockKept, PTL DEF Spec, ChunksContiguous

HIDE DEF LockInv, Typed, Exclusive, RoomStays, AmidPutting, NoOverrun, Task, Putting, Printed

(***************************************************************************)
(* What puts makes of a text.                                              *)
(***************************************************************************)
\* What a character of a text becomes.
One(ch) == IF ch = "LF" THEN Newline ELSE <<ch>>

\* f is the fold of a text's first top characters, as FoldLeft unrolls it.
Unrolled(s, top, f) ==
  f = [A \in SUBSET (1..top) |->
         IF A = {} THEN <<>> ELSE f[A \ {Max(A)}] \o One(s[Max(A)])]

LEMMA MaxIs ==
  ASSUME NEW top \in Nat, NEW A, A \subseteq 1..top, A # {}
  PROVE  Max(A) \in A /\ \A m \in A : m <= Max(A)
<1> DEFINE Greatest(x) == x \in A /\ \A y \in A : x >= y
<1>1. \E x : Greatest(x)
  <2>1. A \subseteq 0..top
    OBVIOUS
  <2>2. PICK n \in A : \A m \in A : m <= n
    BY <2>1, GreatestNat
  <2>3. \A m \in A : n >= m
    BY <2>1, <2>2
  <2> QED
    BY <2>3
<1>2. Greatest(CHOOSE x \in A : \A y \in A : x >= y)
  BY <1>1
<1>3. Greatest(Max(A))
  BY <1>2 DEF Max
<1> QED
  BY <1>3

LEMMA PutAllIs ==
  ASSUME NEW s, NEW n, DOMAIN s = 1..n
  PROVE  PutAll(s) = (CHOOSE f : Unrolled(s, n, f))[1..n]
  BY Zenon DEF PutAll, FoldLeft, MapThenFoldSet, Unrolled, One

LEMMA UnrolledExists ==
  ASSUME NEW s, NEW n \in Nat
  PROVE  \E f : Unrolled(s, n, f)
<1> DEFINE S == {k \in Nat : \E f : Unrolled(s, k, f)}
<1>1. 0 \in S
  <2> DEFINE f == [A \in SUBSET (1..0) |-> <<>>]
  <2>1. \A A \in SUBSET (1..0) : A = {}
    OBVIOUS
  <2>2. Unrolled(s, 0, f)
    BY <2>1 DEF Unrolled
  <2> QED
    BY <2>2
<1>2. ASSUME NEW k \in Nat, k \in S PROVE k + 1 \in S
  <2>1. PICK f : Unrolled(s, k, f)
    BY <1>2
  <2> DEFINE g == [A \in SUBSET (1..(k + 1)) |->
                     IF k + 1 \in A THEN f[A \ {k + 1}] \o One(s[k + 1]) ELSE f[A]]
  <2>2. ASSUME NEW A \in SUBSET (1..(k + 1)), A # {}
        PROVE  g[A] = g[A \ {Max(A)}] \o One(s[Max(A)])
    <3>0. k + 1 \in Nat
      OBVIOUS
    <3>1. Max(A) \in A /\ (\A m \in A : m <= Max(A)) /\ A \ {Max(A)} \in SUBSET (1..(k + 1))
      BY <2>2, <3>0, MaxIs
    <3>2. CASE k + 1 \in A
      <4>1. Max(A) = k + 1
        <5>1. Max(A) \in 1..(k + 1) /\ k + 1 <= Max(A)
          BY <3>1, <3>2
        <5> QED
          BY <5>1
      <4>2. g[A] = f[A \ {k + 1}] \o One(s[k + 1]) /\ g[A \ {k + 1}] = f[A \ {k + 1}]
        BY <3>1, <3>2, <4>1
      <4> QED
        BY <4>1, <4>2
    <3>3. CASE k + 1 \notin A
      <4>1. A \in SUBSET (1..k)
        BY <3>3
      <4>2. f[A] = f[A \ {Max(A)}] \o One(s[Max(A)])
        BY <2>1, <2>2, <4>1 DEF Unrolled
      <4>3. g[A] = f[A] /\ g[A \ {Max(A)}] = f[A \ {Max(A)}]
        BY <3>1, <3>3
      <4> QED
        BY <4>2, <4>3
    <3> QED
      BY <3>2, <3>3
  <2>3. g[{}] = <<>>
    <3>1. f[{}] = <<>>
      BY <2>1 DEF Unrolled
    <3> QED
      BY <3>1
  <2>4. Unrolled(s, k + 1, g)
    <3>1. DOMAIN g = SUBSET (1..(k + 1)) /\ g = [A \in SUBSET (1..(k + 1)) |-> g[A]]
      OBVIOUS
    <3> HIDE DEF g
    <3>2. g = [A \in SUBSET (1..(k + 1)) |->
                 IF A = {} THEN <<>> ELSE g[A \ {Max(A)}] \o One(s[Max(A)])]
      BY <2>2, <2>3, <3>1
    <3> QED
      BY <3>2 DEF Unrolled
  <2> QED
    BY <2>4
<1> HIDE DEF S
<1>3. n \in S
  BY <1>1, <1>2, NatSet
<1> QED
  BY <1>3 DEF S

Iter(s, n) == CHOOSE f : Unrolled(s, n, f)

LEMMA IterIs ==
  ASSUME NEW s, NEW n \in Nat
  PROVE  /\ Iter(s, n)[1..0] = <<>>
         /\ \A k \in 1..n : Iter(s, n)[1..k] = Iter(s, n)[1..(k - 1)] \o One(s[k])
<1>1. Unrolled(s, n, Iter(s, n))
  BY UnrolledExists, Zenon DEF Iter
<1>2. Iter(s, n)[1..0] = <<>>
  <2>1. 1..0 = {} /\ {} \in SUBSET (1..n)
    OBVIOUS
  <2> QED
    BY <1>1, <2>1 DEF Unrolled
<1>3. ASSUME NEW k \in 1..n
      PROVE  Iter(s, n)[1..k] = Iter(s, n)[1..(k - 1)] \o One(s[k])
  <2>1. 1..k \in SUBSET (1..n) /\ 1..k # {} /\ k \in Nat
    OBVIOUS
  <2>2. Max(1..k) \in 1..k /\ \A m \in 1..k : m <= Max(1..k)
    BY <2>1, MaxIs
  <2>3. Max(1..k) = k
    BY <2>2
  <2>4. (1..k) \ {k} = 1..(k - 1)
    OBVIOUS
  <2>5. Iter(s, n)[1..k] = Iter(s, n)[(1..k) \ {Max(1..k)}] \o One(s[Max(1..k)])
    BY <1>1, <2>1, Zenon DEF Unrolled
  <2> QED
    BY <2>3, <2>4, <2>5
<1> QED
  BY <1>2, <1>3

LEMMA PutAllEmpty == PutAll(<<>>) = <<>>
<1>1. DOMAIN <<>> = 1..0
  OBVIOUS
<1>2. PutAll(<<>>) = Iter(<<>>, 0)[1..0]
  BY <1>1, PutAllIs, Zenon DEF Iter
<1> QED
  BY <1>2, IterIs

\* The characters put for a text and one more.
LEMMA PutAllSnoc ==
  ASSUME NEW s \in Seq(Char), NEW ch \in Char
  PROVE  PutAll(Append(s, ch)) = PutAll(s) \o One(ch)
<1> DEFINE n == Len(s)
           t == Append(s, ch)
<1>1. n \in Nat /\ DOMAIN s = 1..n
  BY LenProperties
<1>2. t \in Seq(Char) /\ Len(t) = n + 1 /\ (\A i \in 1..n : t[i] = s[i]) /\ t[n + 1] = ch
  BY AppendProperties
<1>3. DOMAIN t = 1..(n + 1)
  BY <1>2, LenProperties
<1> HIDE DEF n, t
<1>4. PutAll(s) = Iter(s, n)[1..n] /\ PutAll(t) = Iter(t, n + 1)[1..(n + 1)]
  BY <1>1, <1>3, PutAllIs, Zenon DEF Iter
<1> DEFINE S == {k \in Nat : k <= n => Iter(s, n)[1..k] = Iter(t, n + 1)[1..k]}
<1>0. n + 1 \in Nat
  BY <1>1
<1>i. /\ Iter(t, n + 1)[1..0] = <<>>
      /\ \A k \in 1..(n + 1) : Iter(t, n + 1)[1..k] = Iter(t, n + 1)[1..(k - 1)] \o One(t[k])
  BY <1>0, IterIs
<1>5. 0 \in S
  <2>1. Iter(s, n)[1..0] = <<>>
    BY <1>1, IterIs
  <2> QED
    BY <1>i, <2>1
<1>6. ASSUME NEW k \in Nat, k \in S PROVE k + 1 \in S
  <2> SUFFICES ASSUME k + 1 <= n PROVE Iter(s, n)[1..(k + 1)] = Iter(t, n + 1)[1..(k + 1)]
    OBVIOUS
  <2>1. k + 1 \in 1..n /\ k + 1 \in 1..(n + 1) /\ (k + 1) - 1 = k
    BY <1>1
  <2>2. Iter(s, n)[1..(k + 1)] = Iter(s, n)[1..k] \o One(s[k + 1])
    BY <1>1, <2>1, IterIs
  <2>3. Iter(t, n + 1)[1..(k + 1)] = Iter(t, n + 1)[1..k] \o One(t[k + 1])
    BY <1>i, <2>1
  <2>4. Iter(s, n)[1..k] = Iter(t, n + 1)[1..k]
    BY <1>1, <1>6
  <2> QED
    BY <1>2, <2>1, <2>2, <2>3, <2>4
<1>7. n \in S
  <2> HIDE DEF S
  <2> QED
    BY <1>1, <1>5, <1>6, NatSet
<1>8. Iter(t, n + 1)[1..(n + 1)] = Iter(t, n + 1)[1..n] \o One(t[n + 1])
  <2>1. n + 1 \in 1..(n + 1) /\ (n + 1) - 1 = n
    BY <1>1
  <2> QED
    BY <1>i, <2>1
<1>9. Iter(s, n)[1..n] = Iter(t, n + 1)[1..n]
  BY <1>1, <1>7
<1>10. PutAll(t) = PutAll(s) \o One(ch)
  BY <1>2, <1>4, <1>8, <1>9
<1> QED
  BY <1>10 DEF t

LEMMA OneType == ASSUME NEW ch \in Char PROVE One(ch) \in Seq(Char)
<1>1. <<ch>> \in Seq(Char)
  OBVIOUS
<1>2. <<"LF", "CR">> \in Seq(Char) /\ <<"CR", "LF">> \in Seq(Char)
  BY DEF Char
<1> QED
  BY <1>1, <1>2 DEF One, Newline

\* What is put for two texts is what is put for the one, then for the other.
LEMMA PutAllConcat ==
  ASSUME NEW a \in Seq(Char)
  PROVE  \A b \in Seq(Char) : PutAll(b) \in Seq(Char) /\ PutAll(a \o b) = PutAll(a) \o PutAll(b)
<1> DEFINE Fine(b) == PutAll(b) \in Seq(Char)
           S == {n \in Nat : \A b \in Seq(Char) : Len(b) = n => Fine(b)}
           T == {n \in Nat : \A b \in Seq(Char) : Len(b) = n => PutAll(a \o b) = PutAll(a) \o PutAll(b)}
<1>1. 0 \in S
  <2>1. \A b \in Seq(Char) : Len(b) = 0 => b = <<>>
    BY EmptySeq
  <2> QED
    BY <2>1, PutAllEmpty, EmptySeq
<1>2. ASSUME NEW n \in Nat, n \in S PROVE n + 1 \in S
  <2> SUFFICES ASSUME NEW b \in Seq(Char), Len(b) = n + 1 PROVE Fine(b)
    OBVIOUS
  <2>1. PICK c \in Seq(Char), ch \in Char : b = Append(c, ch)
    BY EmptySeq, SequenceEmptyOrAppend
  <2>2. Len(c) = n
    BY <2>1, AppendProperties, LenProperties
  <2>3. PutAll(c) \in Seq(Char) /\ PutAll(b) = PutAll(c) \o One(ch)
    BY <1>2, <2>1, <2>2, PutAllSnoc
  <2> QED
    BY <2>3, OneType, ConcatProperties
<1>3. \A n \in Nat : n \in S
  <2> HIDE DEF S
  <2> QED
    BY <1>1, <1>2, NatSet
<1>4. \A b \in Seq(Char) : Fine(b)
  BY <1>3, LenProperties
<1> HIDE DEF S
<1>5. 0 \in T
  <2> SUFFICES ASSUME NEW b \in Seq(Char), Len(b) = 0 PROVE PutAll(a \o b) = PutAll(a) \o PutAll(b)
    OBVIOUS
  <2>1. b = <<>>
    BY EmptySeq
  <2>2. a \o <<>> = a /\ PutAll(a) \o <<>> = PutAll(a)
    BY <1>4, ConcatEmptySeq
  <2> QED
    BY <2>1, <2>2, PutAllEmpty
<1>6. ASSUME NEW n \in Nat, n \in T PROVE n + 1 \in T
  <2> SUFFICES ASSUME NEW b \in Seq(Char), Len(b) = n + 1 PROVE PutAll(a \o b) = PutAll(a) \o PutAll(b)
    OBVIOUS
  <2>1. PICK c \in Seq(Char), ch \in Char : b = Append(c, ch)
    BY EmptySeq, SequenceEmptyOrAppend
  <2>2. Len(c) = n
    BY <2>1, AppendProperties, LenProperties
  <2>3. PutAll(a \o c) = PutAll(a) \o PutAll(c) /\ PutAll(b) = PutAll(c) \o One(ch)
    BY <1>6, <2>1, <2>2, PutAllSnoc
  <2>4. a \o c \in Seq(Char) /\ a \o b = Append(a \o c, ch)
    <3>1. <<ch>> \in Seq(Char) /\ b = c \o <<ch>>
      BY <2>1, AppendIsConcat
    <3>2. a \o c \in Seq(Char)
      BY ConcatProperties
    <3>3. Append(a \o c, ch) = (a \o c) \o <<ch>>
      BY <3>2, AppendIsConcat
    <3>4. a \o (c \o <<ch>>) = (a \o c) \o <<ch>>
      BY <3>1, ConcatAssociative
    <3> QED
      BY <3>1, <3>2, <3>3, <3>4
  <2>5. PutAll(a \o b) = PutAll(a \o c) \o One(ch)
    BY <2>4, PutAllSnoc
  <2>6. (PutAll(a) \o PutAll(c)) \o One(ch) = PutAll(a) \o (PutAll(c) \o One(ch))
    <3>1. PutAll(a) \in Seq(Char) /\ PutAll(c) \in Seq(Char) /\ One(ch) \in Seq(Char)
      BY <1>4, OneType
    <3> QED
      BY <3>1, ConcatAssociative
  <2> QED
    BY <2>3, <2>5, <2>6
<1>7. \A n \in Nat : n \in T
  <2> HIDE DEF T
  <2> QED
    BY <1>5, <1>6, NatSet
<1>8. \A b \in Seq(Char) : PutAll(a \o b) = PutAll(a) \o PutAll(b)
  BY <1>7, LenProperties
<1> QED
  BY <1>4, <1>8

LEMMA TextsAre == ASSUME NEW t \in Texts PROVE t \in Seq(Char) /\ t # Null /\ Len(t) \in Nat /\ Len(t) < WordSize
<1>1. t \in Seq({"a", "b", "LF", "NUL"})
  BY SerialAssumption
<1>2. {"a", "b", "LF", "NUL"} \subseteq Char
  BY DEF Char
<1>3. t \in Seq(Char)
  BY <1>1, <1>2, SeqMonotonic
<1> QED
  BY <1>3, SerialAssumption, LenProperties

LEMMA Pieces ==
  ASSUME NEW t \in Seq(Char), NEW i \in Nat, NEW j \in Nat, i <= j, j <= Len(t)
  PROVE  /\ SubSeq(t, 1, i) \in Seq(Char) /\ SubSeq(t, i + 1, j) \in Seq(Char)
         /\ SubSeq(t, 1, i) \o SubSeq(t, i + 1, j) = SubSeq(t, 1, j)
         /\ Nuls(t) = {} => Nuls(SubSeq(t, i + 1, j)) = {}
<1>1. Len(t) \in Nat /\ \A k \in 1..Len(t) : t[k] \in Char
  BY LenProperties, ElementOfSeq
<1>2. SubSeq(t, 1, i) \in Seq(Char)
  <2>1. \A k \in 1..i : t[k] \in Char
    BY <1>1
  <2> QED
    BY <2>1, SubSeqProperties
<1>3. SubSeq(t, i + 1, j) \in Seq(Char)
  <2>1. (\A k \in (i + 1)..j : t[k] \in Char) /\ i + 1 \in Int
    BY <1>1
  <2> QED
    BY <2>1, SubSeqProperties
<1>4. 1 \in 1..(Len(t) + 1) /\ i \in (1 - 1)..Len(t) /\ j \in i..Len(t)
  BY <1>1
<1>5. ASSUME Nuls(t) = {} PROVE Nuls(SubSeq(t, i + 1, j)) = {}
  <2> DEFINE u == SubSeq(t, i + 1, j)
  <2>1. (\A k \in (i + 1)..j : t[k] \in Char) /\ i + 1 \in Int
    BY <1>1
  <2>2. /\ Len(u) = IF i + 1 <= j THEN j - (i + 1) + 1 ELSE 0
        /\ \A k \in 1..(j - (i + 1) + 1) : u[k] = t[(i + 1) + k - 1]
    BY <2>1, SubSeqProperties
  <2>3. DOMAIN u = 1..Len(u)
    BY <1>3, LenProperties
  <2> HIDE DEF u
  <2>4. ASSUME NEW k \in DOMAIN u PROVE u[k] # "NUL"
    <3>1. k \in 1..(j - (i + 1) + 1) /\ (i + 1) + k - 1 \in 1..Len(t)
      BY <1>1, <2>2, <2>3
    <3>2. DOMAIN t = 1..Len(t)
      BY LenProperties
    <3> QED
      BY <1>5, <2>2, <3>1, <3>2 DEF Nuls
  <2>5. Nuls(u) = {}
    BY <2>4 DEF Nuls
  <2> QED
    BY <2>5 DEF u
<1> QED
  BY <1>2, <1>3, <1>4, <1>5, ConcatAdjacentSubSeq

\* What puts puts of a chunk; without a NUL it is the whole of it.
LEMMA PutsOf ==
  ASSUME NEW s \in Seq(Char)
  PROVE  Puts(s) \in Seq(Char) /\ (Nuls(s) = {} => Puts(s) = PutAll(s))
<1>1. \A b \in Seq(Char) : PutAll(b) \in Seq(Char)
  <2>1. <<>> \in Seq(Char)
    BY EmptySeq
  <2> QED
    BY <2>1, PutAllConcat
<1>2. CASE Nuls(s) = {}
  BY <1>1, <1>2 DEF Puts
<1>3. CASE Nuls(s) # {}
  <2>1. Len(s) \in Nat /\ DOMAIN s = 1..Len(s) /\ \A k \in 1..Len(s) : s[k] \in Char
    BY LenProperties, ElementOfSeq
  <2>2. Nuls(s) \subseteq 1..Len(s) /\ Nuls(s) \subseteq Nat
    BY <2>1 DEF Nuls
  <2>3. Min(Nuls(s)) \in Nuls(s)
    <3>1. PICK x \in Nuls(s) : \A y \in Nuls(s) : x <= y
      BY <1>3, <2>2, LeastNat
    <3> QED
      BY <3>1 DEF Min
  <2>4. Min(Nuls(s)) - 1 \in Nat /\ \A k \in 1..(Min(Nuls(s)) - 1) : s[k] \in Char
    BY <2>1, <2>2, <2>3
  <2>5. SubSeq(s, 1, Min(Nuls(s)) - 1) \in Seq(Char)
    BY <2>4, SubSeqProperties
  <2> QED
    BY <1>1, <1>3, <2>5 DEF Puts
<1> QED
  BY <1>2, <1>3

LEMMA AtOnceIs == ASSUME NEW rest \in Nat PROVE AtOnce(rest) \in Nat /\ AtOnce(rest) <= rest
  BY SerialAssumption DEF AtOnce

\* A chunk, put after what was put before it.
LEMMA Chunk ==
  ASSUME NEW t \in Texts, NEW from \in Nat, NEW size \in Nat, from + size <= Len(t)
  PROVE  /\ SubSeq(t, from + 1, from + size) \in Seq(Char)
         /\ Puts(SubSeq(t, from + 1, from + size)) \in Seq(Char)
         /\ Nuls(t) = {} =>
              PutAll(SubSeq(t, 1, from)) \o Puts(SubSeq(t, from + 1, from + size))
                = PutAll(SubSeq(t, 1, from + size))
<1> DEFINE a == SubSeq(t, 1, from)
           b == SubSeq(t, from + 1, from + size)
<1>1. t \in Seq(Char) /\ Len(t) \in Nat
  BY TextsAre
<1>2. from + size \in Nat /\ from <= from + size
  OBVIOUS
<1>3. /\ a \in Seq(Char) /\ b \in Seq(Char) /\ a \o b = SubSeq(t, 1, from + size)
      /\ Nuls(t) = {} => Nuls(b) = {}
  BY <1>1, <1>2, Pieces
<1> HIDE DEF a, b
<1>4. PutAll(a \o b) = PutAll(a) \o PutAll(b)
  BY <1>3, PutAllConcat
<1>5. Puts(b) \in Seq(Char) /\ (Nuls(t) = {} => Puts(b) = PutAll(b))
  BY <1>3, PutsOf
<1>6. Nuls(t) = {} => PutAll(a) \o Puts(b) = PutAll(SubSeq(t, 1, from + size))
  BY <1>3, <1>4, <1>5
<1> QED
  BY <1>3, <1>5, <1>6, Zenon DEF a, b

\* A character moves from what is to be put to what has been.
LEMMA Moved ==
  ASSUME NEW s \in Seq(Char), NEW e \in Seq(Char), e # <<>>
  PROVE  /\ Head(e) \in Char /\ Tail(e) \in Seq(Char) /\ Append(s, Head(e)) \in Seq(Char)
         /\ Append(s, Head(e)) \o Tail(e) = s \o e
<1>1. Head(e) \in Char /\ Tail(e) \in Seq(Char)
  BY HeadTailProperties
<1>2. <<Head(e)>> \in Seq(Char)
  BY <1>1
<1>3. e = <<Head(e)>> \o Tail(e)
  <2>1. Len(e) \in Nat \ {0}
    BY EmptySeq
  <2>2. 1 \in 1..Len(e) /\ Len(e) \in 1..Len(e)
    BY <2>1
  <2>3. SubSeq(e, 1, Len(e)) = <<e[1]>> \o SubSeq(e, 1 + 1, Len(e))
    BY <2>2, SubSeqRecursiveFirst
  <2>4. SubSeq(e, 1, Len(e)) = e /\ Tail(e) = SubSeq(e, 2, Len(e)) /\ Head(e) = e[1]
    BY SubSeqFull, TailIsSubSeq
  <2> QED
    BY <2>3, <2>4
<1>4. Append(s, Head(e)) = s \o <<Head(e)>> /\ Append(s, Head(e)) \in Seq(Char)
  BY <1>1, AppendIsConcat, AppendProperties
<1>5. (s \o <<Head(e)>>) \o Tail(e) = s \o (<<Head(e)>> \o Tail(e))
  BY <1>1, <1>2, ConcatAssociative
<1> QED
  BY <1>1, <1>3, <1>4, <1>5

\* The front of a sequence.
LEMMA FrontIs ==
  ASSUME NEW S, NEW s \in Seq(S), s # <<>>
  PROVE  /\ Front(s) \in Seq(S) /\ Len(Front(s)) = Len(s) - 1
         /\ \A i \in 1..(Len(s) - 1) : Front(s)[i] = s[i]
<1>1. Len(s) \in Nat \ {0} /\ \A k \in 1..Len(s) : s[k] \in S
  BY EmptySeq, ElementOfSeq
<1>2. \A k \in 1..(Len(s) - 1) : s[k] \in S
  BY <1>1
<1> DEFINE n == Len(s)
           r == SubSeq(s, 1, n - 1)
<1>3. /\ r \in Seq(S) /\ Len(r) = IF 1 <= n - 1 THEN (n - 1) - 1 + 1 ELSE 0
      /\ \A i \in 1..((n - 1) - 1 + 1) : r[i] = s[1 + i - 1]
  BY <1>1, <1>2, SubSeqProperties
<1>4. n \in Nat \ {0} /\ r = Front(s)
  BY <1>1 DEF Front
<1> HIDE DEF n, r
<1>5. Len(r) = n - 1
  BY <1>3, <1>4
<1>6. ASSUME NEW i \in 1..(n - 1) PROVE r[i] = s[i]
  <2>1. i \in 1..((n - 1) - 1 + 1) /\ 1 + i - 1 = i
    BY <1>4
  <2> QED
    BY <1>3, <2>1
<1> QED
  BY <1>3, <1>4, <1>5, <1>6 DEF n

(***************************************************************************)
(* Types, and where the tasks are.                                         *)
(***************************************************************************)
\* A task with a request has its client, who still waits.
Where ==
  /\ pc["out"] \in {"idle", "lock", "puts", "more"}
  /\ pc["in"] \in {"idle", "lock", "bytes", "gets", "line", "respond"}
  /\ rx \in Seq(Keys)
  /\ pc["out"] # "idle" => serving["out"] \in Writer /\ text[serving["out"]] \in Texts
  /\ pc["in"] # "idle" => serving["in"] \in Reader

TypeInv == TypeOK /\ Where

\* The parts of the type that most steps leave alone.
Clients == /\ text \in [Writer -> Texts \cup {Null}]
           /\ wanted \in [Reader -> [code : {"size", "terminator", "other", "unanswered"},
                                     rbytes : Counts] \cup {Null}]
           /\ serving \in [Task -> Writer \cup Reader \cup {Null}]
Places == /\ pc \in [Task -> {"idle", "lock", "puts", "more", "bytes", "gets", "line", "respond"}]
          /\ ready \subseteq Task /\ lock \in Task \cup {Null} /\ amid \in Task \cup {Null}
          /\ fault \in {"none", "overrun", "stored_outside", "line_too_long", "stored_through_NULL"}
          /\ tx \in 0..TxDepth /\ left \in Nat
          /\ offset \in 0..(WordSize - 1) /\ failed \in BOOLEAN
Characters == /\ chunk \in Seq(Char) /\ sent \in Seq(Char)
              /\ line \in Seq(Char) /\ Len(line) <= InBuf
              /\ emit \in [Task -> Seq(Char)] /\ rx \in Seq(Char) /\ shown \in Seq(Char)

LEMMA Types == TypeOK <=> Clients /\ Places /\ Characters
  BY DEF TypeOK, Clients, Places, Characters

LEMMA KeysAre == Keys \subseteq Char
  BY SerialAssumption DEF Char

LEMMA TypeInit == Init => TypeInv
<1> SUFFICES ASSUME Init PROVE TypeInv
  OBVIOUS
<1>1. <<>> \in Seq(Char) /\ <<>> \in Seq(Keys) /\ Len(<<>>) = 0
  BY EmptySeq
<1>0. offset \in 0..(WordSize - 1) /\ failed \in BOOLEAN
  <2>1. 0 \in 0..(WordSize - 1)
    BY SerialAssumption
  <2>2. offset = 0 /\ failed \in BOOLEAN
    BY Zenon DEF Init
  <2> QED
    BY <2>1, <2>2
<1>2. Clients /\ Places /\ Characters
  BY <1>0, <1>1, SerialAssumption DEF Init, Clients, Places, Characters, Task
<1>3. Where
  BY <1>1 DEF Init, Where, Task
<1> QED
  BY <1>2, <1>3, Types DEF TypeInv

LEMMA ShowType == ASSUME NEW seen \in Seq(Char), NEW ch \in Char PROVE Show(seen, ch) \in Seq(Char)
<1>1. CASE ch = "BS" /\ seen # <<>>
  <2>1. Len(seen) \in Nat \ {0} /\ \A k \in 1..Len(seen) : seen[k] \in Char
    BY <1>1, EmptySeq, ElementOfSeq
  <2>2. \A k \in 1..(Len(seen) - 1) : seen[k] \in Char
    BY <2>1
  <2>3. Front(seen) \in Seq(Char)
    BY <2>1, <2>2, SubSeqProperties DEF Front
  <2> QED
    BY <1>1, <2>3 DEF Show
<1>2. CASE ~(ch = "BS" /\ seen # <<>>)
  <2>1. Append(seen, ch) \in Seq(Char) /\ <<>> \in Seq(Char)
    BY AppendProperties, EmptySeq
  <2> QED
    BY <1>2, <2>1 DEF Show
<1> QED
  BY <1>1, <1>2

LEMMA PutTypes == ASSUME LockInv, TypeInv, NEW t \in Task, Put(t) PROVE TypeInv'
<1>1. Clients /\ Places /\ Characters /\ Where
  BY Types DEF TypeInv
<1>2. CASE PutWait(t)
  <2>1. Clients' /\ Places' /\ Characters'
    BY <1>1, <1>2 DEF PutWait, Clients, Places, Characters, clients, outTask, inTask, putter
  <2>2. Where'
    BY <1>1, <1>2 DEF PutWait, Where, clients, outTask, inTask, putter
  <2> QED
    BY <2>1, <2>2, Types, PTL DEF TypeInv
<1>3. CASE PutStore(t)
  <2>1. t \in ready /\ emit[t] \in Seq(Char) /\ emit[t] # <<>> /\ tx < TxDepth
    BY <1>1, <1>3 DEF PutStore, Characters, LockInv, RoomStays, Printed
  <2>2. Head(emit[t]) \in Char /\ Tail(emit[t]) \in Seq(Char)
        /\ Append(sent, Head(emit[t])) \in Seq(Char)
    BY <1>1, <2>1, Moved DEF Characters
  <2>3. Clients'
    BY <1>1, <1>3 DEF PutStore, Clients, clients
  <2>4. Places'
    BY <1>1, <1>3, <2>1, SerialAssumption DEF PutStore, Places, inTask
  <2>5. shown' \in Seq(Char)
    <3>1. Show(shown, Head(emit[t])) \in Seq(Char) /\ <<>> \in Seq(Char)
      BY <1>1, <2>2, ShowType, EmptySeq DEF Characters
    <3> QED
      BY <1>3, <3>1 DEF PutStore
  <2>6. Characters'
    BY <1>1, <1>3, <2>2, <2>5 DEF PutStore, Characters, inTask
  <2>7. Where'
    BY <1>1, <1>3 DEF PutStore, Where, clients
  <2> QED
    BY <2>3, <2>4, <2>6, <2>7, Types, PTL DEF TypeInv
<1> QED
  BY <1>2, <1>3 DEF Put

\* Receive, from where the text is received up to.
LEMMA ReceiveTypes ==
  ASSUME TypeInv, NEW w \in Writer, text[w] \in Texts, NEW from \in Nat, NEW size \in Nat,
         from + size <= Len(text[w]), Receive(w, from, size)
  PROVE  /\ offset' = from + size /\ offset' \in 0..(WordSize - 1)
         /\ chunk' \in Seq(Char)
         /\ emit' \in [Task -> Seq(Char)] /\ pc' = [pc EXCEPT !["out"] = "lock"]
         /\ Nuls(text[w]) = {} =>
              PutAll(SubSeq(text[w], 1, from)) \o emit'["out"] = PutAll(SubSeq(text[w], 1, offset'))
         /\ emit'["in"] = emit["in"]
<1> DEFINE new == Puts(SubSeq(text[w], from + 1, from + size))
<1>1. /\ SubSeq(text[w], from + 1, from + size) \in Seq(Char) /\ new \in Seq(Char)
      /\ Nuls(text[w]) = {} =>
           PutAll(SubSeq(text[w], 1, from)) \o new = PutAll(SubSeq(text[w], 1, from + size))
  BY Chunk, Zenon
<1>2. /\ offset' = from + size /\ emit' = [emit EXCEPT !["out"] = new]
      /\ chunk' = SubSeq(text[w], from + 1, from + size)
      /\ pc' = [pc EXCEPT !["out"] = "lock"]
  BY DEF Receive, Goto
<1>3. emit \in [Task -> Seq(Char)] /\ "out" \in Task /\ "in" \in Task
  BY DEF TypeInv, TypeOK, Task
<1>4. from + size \in 0..(WordSize - 1)
  BY TextsAre, SerialAssumption
<1> HIDE DEF new
<1>5. emit'["out"] = new /\ emit'["in"] = emit["in"] /\ emit' \in [Task -> Seq(Char)]
  BY <1>1, <1>2, <1>3
<1> QED
  BY <1>1, <1>2, <1>4, <1>5

\* An error moves the offset within the words.
LEMMA ErrorTypes ==
  ASSUME TypeInv, TakeError
  PROVE  /\ offset' \in 0..(WordSize - 1) /\ chunk' = chunk /\ failed' \in BOOLEAN
         /\ sent' \in Seq(Char) /\ emit' \in [Task -> Seq(Char)]
         /\ pc' \in {pc, [pc EXCEPT !["out"] = "lock"]} /\ fault' \in {fault, "stored_outside"}
         /\ emit'["in"] = emit["in"]
         /\ UNCHANGED <<clients, serving, inTask, ready, lock, putter, rx>>
<1>1. offset \in 0..(WordSize - 1) /\ chunk \in Seq(Char) /\ sent \in Seq(Char)
      /\ failed \in BOOLEAN /\ emit \in [Task -> Seq(Char)] /\ "out" \in Task /\ "in" \in Task
  BY DEF TypeInv, TypeOK, Task
<1>2. Puts(chunk) \in Seq(Char) /\ <<>> \in Seq(Char)
  BY <1>1, PutsOf, EmptySeq
<1>3. \A k \in Errors : (IF k <= offset THEN offset - k ELSE offset + WordSize - k)
                          \in 0..(WordSize - 1)
  BY <1>1, SerialAssumption
<1>4. CASE /\ \E k \in Errors : offset' = IF k <= offset THEN offset - k
                                            ELSE offset + WordSize - k
           /\ emit' = [emit EXCEPT !["out"] = Puts(chunk)]
           /\ failed' = TRUE /\ sent' = <<>>
           /\ Goto("out", "lock")
           /\ UNCHANGED <<clients, serving, chunk, inTask, ready, lock, putter, rx, fault>>
  <2>1. offset' \in 0..(WordSize - 1)
    BY <1>3, <1>4
  <2>2. emit' \in [Task -> Seq(Char)] /\ emit'["in"] = emit["in"]
    BY <1>1, <1>2, <1>4
  <2> QED
    BY <1>2, <1>4, <2>1, <2>2 DEF Goto
<1>5. CASE /\ fault' = "stored_outside"
           /\ UNCHANGED <<clients, pc, serving, outTask, inTask, emit, ready, lock, putter, rx>>
  BY <1>1, <1>5 DEF outTask
<1> QED
  BY <1>4, <1>5 DEF TakeError

LEMMA OutTypes == ASSUME TypeInv, OutTask PROVE TypeInv'
<1>1. Clients /\ Places /\ Characters /\ Where
  BY Types DEF TypeInv
<1>2. "out" \in Task /\ "in" \in Task /\ <<>> \in Seq(Char)
  BY EmptySeq DEF Task
<1>3. ASSUME NEW w \in Writer, TakeWrite(w) PROVE TypeInv'
  <2>1. text[w] \in Texts /\ Len(text[w]) \in Nat
    BY <1>1, <1>3, TextsAre DEF TakeWrite, Clients
  <2>2. Receive(w, 0, AtOnce(Len(text[w])))
    BY <1>3 DEF TakeWrite
  <2>3. /\ offset' \in 0..(WordSize - 1) /\ chunk' \in Seq(Char) /\ emit' \in [Task -> Seq(Char)]
        /\ pc' = [pc EXCEPT !["out"] = "lock"]
    <3>1. 0 \in Nat /\ AtOnce(Len(text[w])) \in Nat /\ 0 + AtOnce(Len(text[w])) <= Len(text[w])
      BY <2>1, AtOnceIs
    <3> QED
      BY <2>1, <2>2, <3>1, ReceiveTypes
  <2>4. Clients' /\ Places' /\ Characters'
    BY <1>1, <1>2, <1>3, <2>3 DEF TakeWrite, Clients, Places, Characters, clients, inTask, putter
  <2>5. Where'
    BY <1>1, <1>2, <1>3, <2>1, <2>3 DEF TakeWrite, Where, Clients, Places, clients
  <2> QED
    BY <2>4, <2>5, Types, PTL DEF TypeInv
<1>4. ASSUME LockOut \/ UnlockOut PROVE TypeInv'
  <2>1. Clients' /\ Places' /\ Characters'
    BY <1>1, <1>2, <1>4
    DEF LockOut, UnlockOut, Goto, Clients, Places, Characters, clients, outTask, inTask, putter
  <2>2. Where'
    BY <1>1, <1>2, <1>4 DEF LockOut, UnlockOut, At, Goto, Where, Places, clients, outTask
  <2> QED
    BY <2>1, <2>2, Types, PTL DEF TypeInv
<1>5. ASSUME RespondWrite, pc["out"] = "more" PROVE TypeInv'
  <2>0. offset' \in 0..(WordSize - 1) /\ failed' \in BOOLEAN
    <3>1. 0 \in 0..(WordSize - 1)
      BY SerialAssumption
    <3>2. offset' = 0 /\ failed' \in BOOLEAN
      BY <1>5, Zenon DEF RespondWrite
    <3> QED
      BY <3>1, <3>2
  <2>1. Clients' /\ Places' /\ Characters'
    BY <1>1, <1>2, <1>5, <2>0
    DEF RespondWrite, Goto, Clients, Places, Characters, inTask, putter
  <2>2. Where'
    BY <1>1, <1>2, <1>5 DEF RespondWrite, Goto, Where, Places, Clients
  <2> QED
    BY <2>1, <2>2, Types, PTL DEF TypeInv
<1>6. ASSUME MsgRead PROVE TypeInv'
  <2>1. pc["out"] = "more" /\ serving["out"] \in Writer /\ text[serving["out"]] \in Texts
        /\ offset \in Nat /\ Rest > 0
    BY <1>1, <1>6, SerialAssumption DEF MsgRead, At, Where, Places
  <2>2. CASE /\ \E size \in 1..AtOnce(Rest) : Receive(serving["out"], offset, size)
             /\ UNCHANGED <<clients, serving, failed, sent, inTask, ready, lock, putter, rx, fault>>
    <3>1. PICK size \in 1..AtOnce(Rest) : Receive(serving["out"], offset, size)
      BY <2>2
    <3>2. size \in Nat /\ offset + size <= Len(text[serving["out"]])
      <4>1. Rest \in Nat /\ Rest = Len(text[serving["out"]]) - offset
            /\ Len(text[serving["out"]]) \in Nat
        BY <2>1, TextsAre DEF Rest
      <4>2. AtOnce(Rest) \in Nat /\ AtOnce(Rest) <= Rest
        BY <4>1, AtOnceIs
      <4> QED
        BY <2>1, <4>1, <4>2
    <3>3. /\ offset' \in 0..(WordSize - 1) /\ chunk' \in Seq(Char) /\ emit' \in [Task -> Seq(Char)]
          /\ pc' = [pc EXCEPT !["out"] = "lock"]
      BY <2>1, <3>1, <3>2, ReceiveTypes
    <3>4. Clients' /\ Places' /\ Characters'
      BY <1>1, <1>2, <2>2, <3>3 DEF Clients, Places, Characters, clients, inTask, putter
    <3>5. Where'
      BY <1>1, <1>2, <2>1, <2>2, <3>3 DEF Where, Places, clients
    <3> QED
      BY <3>4, <3>5, Types, PTL DEF TypeInv
  <2>3. CASE RespondWrite
    BY <1>5, <2>1, <2>3
  <2>4. CASE TakeError
    <3>1. /\ offset' \in 0..(WordSize - 1) /\ chunk' = chunk /\ failed' \in BOOLEAN
          /\ sent' \in Seq(Char) /\ emit' \in [Task -> Seq(Char)]
          /\ pc' \in {pc, [pc EXCEPT !["out"] = "lock"]} /\ fault' \in {fault, "stored_outside"}
          /\ UNCHANGED <<clients, serving, inTask, ready, lock, putter, rx>>
      BY <2>4, ErrorTypes
    <3>2. Clients' /\ Places' /\ Characters'
      BY <1>1, <1>2, <3>1 DEF Clients, Places, Characters, clients, inTask, putter
    <3>3. Where'
      BY <1>1, <1>2, <2>1, <3>1 DEF Where, Places, clients
    <3> QED
      BY <3>2, <3>3, Types, PTL DEF TypeInv
  <2> QED
    BY <1>6, <2>2, <2>3, <2>4 DEF MsgRead
<1>7. ASSUME Written PROVE TypeInv'
  BY <1>5, <1>7 DEF Written, At
<1> QED
  BY <1>3, <1>4, <1>6, <1>7 DEF OutTask

LEMMA InTypes == ASSUME TypeInv, InTask PROVE TypeInv'
<1>1. Clients /\ Places /\ Characters /\ Where
  BY Types DEF TypeInv
<1>2. "out" \in Task /\ "in" \in Task /\ <<>> \in Seq(Char) /\ Len(<<>>) <= InBuf
  BY EmptySeq, SerialAssumption DEF Task
<1>3. ASSUME NEW r \in Reader, TakeRead(r) PROVE TypeInv'
  <2>1. wanted[r] \in [code : {"size", "terminator", "other", "unanswered"}, rbytes : Counts]
    BY <1>1, <1>3 DEF TakeRead, Clients
  <2>2. wanted[r].rbytes \in Nat
    BY <2>1, SerialAssumption
  <2>3. [wanted[r] EXCEPT !.code = "unanswered"]
          \in [code : {"size", "terminator", "other", "unanswered"}, rbytes : Counts]
    BY <2>1
  <2>4. Clients'
    BY <1>1, <1>2, <1>3, <2>3 DEF TakeRead, RespondRead, Clients
  <2>5. Places'
    BY <1>1, <1>2, <1>3, <2>2 DEF TakeRead, Goto, Places, outTask, inTask, putter
  <2>6. Characters'
    BY <1>1, <1>2, <1>3 DEF TakeRead, Characters, inTask, outTask, putter
  <2>7. Where'
    BY <1>1, <1>2, <1>3 DEF TakeRead, At, Goto, Where, Places, Clients, outTask
  <2> QED
    BY <2>4, <2>5, <2>6, <2>7, Types, PTL DEF TypeInv
<1>4. ASSUME rx # <<>> PROVE /\ Head(rx) \in Keys /\ Head(rx) \in Char
                             /\ Tail(rx) \in Seq(Keys) /\ Tail(rx) \in Seq(Char)
  BY <1>1, <1>4, KeysAre, HeadTailProperties DEF Where, Characters
<1>5. ASSUME GetByte PROVE TypeInv'
  <2>1. rx # <<>> /\ left > 0
    BY <1>5 DEF GetByte
  <2>2. Clients' /\ Places' /\ Characters'
    BY <1>1, <1>4, <1>5, <2>1 DEF GetByte, Clients, Places, Characters, clients, outTask, putter
  <2>3. Where'
    BY <1>1, <1>4, <1>5, <2>1 DEF GetByte, Where, clients, outTask
  <2> QED
    BY <2>2, <2>3, Types, PTL DEF TypeInv
<1>6. ASSUME LockIn \/ UnlockIn PROVE TypeInv'
  <2>1. Clients' /\ Places' /\ Characters'
    BY <1>1, <1>2, <1>6
    DEF LockIn, UnlockIn, Goto, Clients, Places, Characters, clients, outTask, inTask, putter
  <2>2. Where'
    BY <1>1, <1>2, <1>6 DEF LockIn, UnlockIn, At, Goto, Where, Places, clients, outTask
  <2> QED
    BY <2>1, <2>2, Types, PTL DEF TypeInv
<1>7. ASSUME GetKey PROVE TypeInv'
  <2>1. rx # <<>> /\ pc["in"] = "gets" /\ UNCHANGED <<clients, serving, outTask, left, ready, lock, putter>>
        /\ rx' = Tail(rx) /\ emit' \in {emit, [emit EXCEPT !["in"] = Echo(Head(rx))]}
        /\ fault' \in {fault, "line_too_long"}
        /\ (pc' = pc \/ pc' = [pc EXCEPT !["in"] = "line"])
    BY <1>7 DEF GetKey, At, Goto
  <2>2. Echo(Head(rx)) \in Seq(Char)
    <3>1. <<"BS", "SP", "BS">> \in Seq(Char) /\ <<"LF", "CR">> \in Seq(Char)
          /\ <<Head(rx)>> \in Seq(Char)
      BY <1>4, <2>1 DEF Char
    <3> QED
      BY <3>1 DEF Echo
  <2>3. line' \in Seq(Char) /\ Len(line') <= InBuf
    <3>0. line \in Seq(Char) /\ Len(line) \in Nat /\ Len(line) <= InBuf /\ InBuf \in Nat
      BY <1>1, LenProperties, SerialAssumption DEF Characters
    <3>1. CASE line # <<>> /\ line' = Front(line)
      <4>1. Front(line) \in Seq(Char) /\ Len(Front(line)) = Len(line) - 1
        BY <3>0, <3>1, FrontIs
      <4> QED
        BY <3>0, <3>1, <4>1
    <3>2. CASE Len(line) < InBuf /\ line' = Append(line, Head(rx))
      <4>1. Append(line, Head(rx)) \in Seq(Char) /\ Len(Append(line, Head(rx))) = Len(line) + 1
        BY <1>4, <2>1, <3>0, AppendProperties
      <4> QED
        BY <3>0, <3>2, <4>1
    <3>3. CASE line' = line
      BY <3>0, <3>3
    <3> QED
      BY <1>7, <3>1, <3>2, <3>3 DEF GetKey
  <2>4. Clients' /\ Places'
    BY <1>1, <1>2, <2>1 DEF Clients, Places, clients, outTask, putter
  <2>5. Characters'
    BY <1>1, <1>2, <1>4, <2>1, <2>2, <2>3 DEF Characters, outTask, putter
  <2>6. Where'
    BY <1>1, <1>2, <1>4, <2>1 DEF Where, Places, clients, outTask
  <2> QED
    BY <2>4, <2>5, <2>6, Types, PTL DEF TypeInv
<1>8. ASSUME ReadDone PROVE TypeInv'
  <2>1. Clients' /\ Places' /\ Characters'
    BY <1>1, <1>2, <1>8 DEF ReadDone, RespondRead, Goto, Clients, Places, Characters, outTask
  <2>2. Where'
    BY <1>1, <1>2, <1>8 DEF ReadDone, Goto, Where, Places, Clients, outTask
  <2> QED
    BY <2>1, <2>2, Types, PTL DEF TypeInv
<1> QED
  BY <1>3, <1>5, <1>6, <1>7, <1>8 DEF InTask

LEMMA TypeStep == LockInv /\ TypeInv /\ [Next]_vars => TypeInv'
<1> SUFFICES ASSUME LockInv, TypeInv, [Next]_vars PROVE TypeInv'
  OBVIOUS
<1>1. Clients /\ Places /\ Characters /\ Where
  BY Types DEF TypeInv
<1>2. ASSUME Transmit PROVE TypeInv'
  <2>1. Clients' /\ Places' /\ Characters'
    BY <1>1, <1>2, SerialAssumption DEF Transmit, Clients, Places, Characters, clients, outTask, inTask
  <2>2. Where'
    BY <1>1, <1>2 DEF Transmit, Where, clients, outTask
  <2> QED
    BY <2>1, <2>2, Types, PTL DEF TypeInv
<1>3. ASSUME NEW k \in Keys, Type(k) PROVE TypeInv'
  <2>1. rx' \in Seq(Keys) /\ rx' \in Seq(Char)
    BY <1>1, <1>3, KeysAre, AppendProperties DEF Type, Where, Characters
  <2>2. Clients' /\ Places' /\ Characters'
    BY <1>1, <1>3, <2>1 DEF Type, Clients, Places, Characters, clients, outTask, inTask, putter
  <2>3. Where'
    BY <1>1, <1>3, <2>1 DEF Type, Where, clients, outTask
  <2> QED
    BY <2>2, <2>3, Types, PTL DEF TypeInv
<1>4. ASSUME NEW w \in Writer, Write(w) PROVE TypeInv'
  <2>1. PICK t \in Texts : text' = [text EXCEPT ![w] = t]
    BY <1>4 DEF Write
  <2>2. Clients' /\ Places' /\ Characters'
    BY <1>1, <1>4, <2>1 DEF Write, Clients, Places, Characters, outTask, inTask, putter
  <2>3. text[w] = Null /\ \A v \in Writer \ {w} : text'[v] = text[v]
    BY <1>1, <1>4, <2>1 DEF Write, Clients
  <2>4. Where'
    BY <1>1, <1>4, <2>3, SerialAssumption DEF Write, Where, outTask
  <2> QED
    BY <2>2, <2>4, Types, PTL DEF TypeInv
<1>5. ASSUME NEW r \in Reader, Read(r) PROVE TypeInv'
  <2>1. Clients' /\ Places' /\ Characters'
    BY <1>1, <1>5 DEF Read, Clients, Places, Characters, outTask, inTask, putter
  <2>2. Where'
    BY <1>1, <1>5 DEF Read, Where, outTask
  <2> QED
    BY <2>1, <2>2, Types, PTL DEF TypeInv
<1>6. CASE UNCHANGED vars
  <2>1. Clients' /\ Places' /\ Characters'
    BY <1>1, <1>6 DEF vars, Clients, Places, Characters, clients, outTask, inTask, putter
  <2>2. Where'
    BY <1>1, <1>6 DEF vars, Where, clients, outTask
  <2> QED
    BY <2>1, <2>2, Types, PTL DEF TypeInv
<1> QED
  BY <1>2, <1>3, <1>4, <1>5, <1>6, PutTypes, OutTypes, InTypes DEF Next

LEMMA TypesKept == Spec => []TypeInv
  BY TypeInit, TypeStep, LockKept, PTL DEF Spec

\* serial/main.c: every variable keeps its type; in particular a request that is
\* being served has a client, the FIFO and the buffers hold characters, the line is
\* never longer than its buffer, and no offset leaves a word.
THEOREM SerialTyped == Spec => []TypeOK
<1>1. TypeInv => TypeOK
  BY DEF TypeInv
<1> QED
  BY <1>1, TypesKept, PTL

(***************************************************************************)
(* What is written.                                                        *)
(***************************************************************************)
\* What was put of a text and what is left to put make up what puts makes of the
\* part that was received, unless there is a NUL in it or a MsgRead has failed.
Delivered ==
  /\ pc["out"] # "idle" /\ ~failed /\ Nuls(text[serving["out"]]) = {} =>
       sent \o emit["out"] = PutAll(SubSeq(text[serving["out"]], 1, offset))
  /\ pc["out"] = "more" => emit["out"] = <<>>

\* A task that is not putting leaves its characters alone.
LEMMA DeliveredQuiet ==
  ASSUME Delivered, UNCHANGED <<offset, failed, sent>>, emit'["out"] = emit["out"],
         pc'["out"] = pc["out"], serving'["out"] = serving["out"],
         pc["out"] # "idle" => text'[serving["out"]] = text[serving["out"]]
  PROVE  Delivered'
  BY DEF Delivered

LEMMA DeliveredPut ==
  ASSUME LockInv, TypeInv, Delivered, NEW t \in Task, Put(t)
  PROVE  Delivered'
<1>1. CASE PutWait(t)
  BY <1>1, DeliveredQuiet DEF PutWait, outTask, clients
<1>2. CASE PutStore(t)
  <2>1. t \in ready /\ emit[t] # <<>> /\ Putting(t)
    BY <1>2 DEF PutStore, LockInv, RoomStays, Printed
  <2>2. emit \in [Task -> Seq(Char)] /\ sent \in Seq(Char)
    BY DEF TypeInv, TypeOK
  <2>3. emit' = [emit EXCEPT ![t] = Tail(@)] /\ UNCHANGED <<clients, pc, serving, offset, failed>>
    BY <1>2 DEF PutStore
  <2>4. CASE t = "out"
    <3>1. pc["out"] \notin {"idle", "more"}
      BY <2>1, <2>4 DEF Putting
    <3>2. /\ ~failed => sent' = Append(sent, Head(emit["out"]))
          /\ emit'["out"] = Tail(emit["out"])
      BY <1>2, <2>2, <2>3, <2>4 DEF PutStore
    <3>3. ~failed => sent' \o emit'["out"] = sent \o emit["out"]
      BY <2>1, <2>2, <2>4, <3>2, Moved
    <3> QED
      BY <2>3, <3>1, <3>3 DEF Delivered, clients
  <2>5. CASE t # "out"
    <3>1. sent' = sent /\ emit'["out"] = emit["out"]
      BY <1>2, <2>2, <2>3, <2>5 DEF PutStore, Task
    <3> QED
      BY <2>3, <3>1, DeliveredQuiet DEF clients
  <2> QED
    BY <2>4, <2>5
<1> QED
  BY <1>1, <1>2 DEF Put

LEMMA DeliveredOut == ASSUME TypeInv, Delivered, OutTask PROVE Delivered'
<1>1. Clients /\ Places /\ Characters /\ Where
  BY Types DEF TypeInv
<1>2. "out" \in Task /\ "in" \in Task
  BY DEF Task
<1>3. ASSUME NEW w \in Writer, TakeWrite(w) PROVE Delivered'
  <2>1. text[w] \in Texts /\ Len(text[w]) \in Nat /\ text[w] \in Seq(Char)
    BY <1>1, <1>3, TextsAre DEF TakeWrite, Clients
  <2>2. Receive(w, 0, AtOnce(Len(text[w]))) /\ UNCHANGED text /\ sent' = <<>> /\ serving'["out"] = w
    BY <1>1, <1>2, <1>3 DEF TakeWrite, clients, Clients
  <2>3. 0 \in Nat /\ AtOnce(Len(text[w])) \in Nat /\ 0 + AtOnce(Len(text[w])) <= Len(text[w])
    BY <2>1, AtOnceIs
  <2>4. /\ emit' \in [Task -> Seq(Char)] /\ pc' = [pc EXCEPT !["out"] = "lock"]
        /\ Nuls(text[w]) = {} =>
             PutAll(SubSeq(text[w], 1, 0)) \o emit'["out"] = PutAll(SubSeq(text[w], 1, offset'))
    BY <2>1, <2>2, <2>3, ReceiveTypes
  <2>5. SubSeq(text[w], 1, 0) = <<>>
    BY SubSeqEmpty
  <2>6. Nuls(text[w]) = {} => sent' \o emit'["out"] = PutAll(SubSeq(text[w], 1, offset'))
    BY <2>2, <2>4, <2>5, PutAllEmpty
  <2>7. pc'["out"] = "lock"
    BY <1>1, <1>2, <2>4 DEF Places
  <2> QED
    BY <2>2, <2>6, <2>7 DEF Delivered
<1>4. ASSUME LockOut PROVE Delivered'
  <2>1. pc'["out"] = "puts" /\ pc["out"] = "lock"
    BY <1>1, <1>2, <1>4 DEF LockOut, At, Goto, Places
  <2> QED
    BY <1>4, <2>1 DEF LockOut, Delivered, clients, outTask
<1>5. ASSUME UnlockOut PROVE Delivered'
  <2>1. pc'["out"] = "more" /\ pc["out"] = "puts" /\ emit["out"] = <<>>
    BY <1>1, <1>2, <1>5 DEF UnlockOut, At, Goto, Places, Printed
  <2> QED
    BY <1>5, <2>1 DEF UnlockOut, Delivered, clients, outTask
<1>6. ASSUME RespondWrite PROVE Delivered'
  <2>1. pc'["out"] = "idle"
    BY <1>1, <1>2, <1>6 DEF RespondWrite, Goto, Places
  <2> QED
    BY <2>1 DEF Delivered
<1>7. ASSUME MsgRead PROVE Delivered'
  <2>1. pc["out"] = "more" /\ serving["out"] \in Writer /\ text[serving["out"]] \in Texts
        /\ offset \in Nat /\ Rest > 0
    BY <1>1, <1>7, SerialAssumption DEF MsgRead, At, Where, Places
  <2>2. CASE /\ \E size \in 1..AtOnce(Rest) : Receive(serving["out"], offset, size)
             /\ UNCHANGED <<clients, serving, failed, sent, inTask, ready, lock, putter, rx, fault>>
    <3> DEFINE t == text[serving["out"]]
    <3>1. UNCHANGED text /\ UNCHANGED serving /\ sent' = sent /\ failed' = failed
      BY <2>2 DEF clients
    <3>2. PICK size \in 1..AtOnce(Rest) : Receive(serving["out"], offset, size)
      BY <2>2
    <3>3. size \in Nat /\ offset + size <= Len(t)
      <4>1. Rest \in Nat /\ Rest = Len(t) - offset /\ Len(t) \in Nat
        BY <2>1, TextsAre DEF Rest
      <4>2. AtOnce(Rest) \in Nat /\ AtOnce(Rest) <= Rest
        BY <4>1, AtOnceIs
      <4> QED
        BY <2>1, <4>1, <4>2
    <3>4. /\ pc' = [pc EXCEPT !["out"] = "lock"]
          /\ Nuls(t) = {} =>
               PutAll(SubSeq(t, 1, offset)) \o emit'["out"] = PutAll(SubSeq(t, 1, offset'))
      BY <2>1, <3>2, <3>3, ReceiveTypes
    <3>5. ~failed /\ Nuls(t) = {} => sent = PutAll(SubSeq(t, 1, offset))
      <4>1. sent \in Seq(Char)
            /\ (~failed /\ Nuls(t) = {} => sent \o <<>> = PutAll(SubSeq(t, 1, offset)))
        BY <1>1, <2>1 DEF Delivered, Characters
      <4> HIDE DEF t
      <4> QED
        BY <4>1, ConcatEmptySeq
    <3>6. pc'["out"] = "lock"
      BY <1>1, <1>2, <3>4 DEF Places
    <3> QED
      BY <3>1, <3>4, <3>5, <3>6 DEF Delivered
  <2>3. CASE RespondWrite
    BY <1>6, <2>3
  <2>4. CASE TakeError
    <3>1. CASE failed' = TRUE /\ pc'["out"] = "lock"
      BY <3>1 DEF Delivered
    <3>2. CASE UNCHANGED <<clients, pc, serving, outTask, emit>>
      BY <3>2, DeliveredQuiet DEF clients, outTask
    <3> QED
      BY <1>1, <1>2, <2>4, <3>1, <3>2 DEF TakeError, Goto, Places
  <2> QED
    BY <1>7, <2>2, <2>3, <2>4 DEF MsgRead
<1> QED
  BY <1>3, <1>4, <1>5, <1>6, <1>7 DEF OutTask, Written

LEMMA DeliveredStep == LockInv /\ TypeInv /\ Delivered /\ [Next]_vars => Delivered'
<1> SUFFICES ASSUME LockInv, TypeInv, Delivered, [Next]_vars PROVE Delivered'
  OBVIOUS
<1>1. Clients /\ Places /\ Characters /\ Where
  BY Types DEF TypeInv
<1>2. "out" \in Task /\ "in" \in Task
  BY DEF Task
<1>3. CASE InTask
  <2>1. /\ UNCHANGED <<offset, failed, sent>> /\ emit'["out"] = emit["out"] /\ pc'["out"] = pc["out"]
        /\ serving'["out"] = serving["out"] /\ UNCHANGED text
    BY <1>1, <1>2, <1>3
    DEF InTask, TakeRead, GetByte, LockIn, GetKey, UnlockIn, ReadDone, Goto, RespondRead,
        outTask, clients, Clients, Places, Characters
  <2> QED
    BY <2>1, DeliveredQuiet
<1>4. CASE Transmit \/ (\E k \in Keys : Type(k)) \/ (\E r \in Reader : Read(r)) \/ UNCHANGED vars
  <2>1. /\ UNCHANGED <<offset, failed, sent>> /\ UNCHANGED <<emit, pc, serving, text>>
    BY <1>4 DEF Transmit, Type, Read, vars, outTask, clients
  <2> QED
    BY <2>1, DeliveredQuiet
<1>5. ASSUME NEW w \in Writer, Write(w) PROVE Delivered'
  <2>1. /\ UNCHANGED <<offset, failed, sent>> /\ UNCHANGED <<emit, pc, serving>>
        /\ text[w] = Null /\ \A v \in Writer \ {w} : text'[v] = text[v]
    BY <1>1, <1>5 DEF Write, outTask, Clients
  <2>2. pc["out"] # "idle" => text'[serving["out"]] = text[serving["out"]]
    BY <1>1, <2>1, SerialAssumption DEF Where
  <2> QED
    BY <2>1, <2>2, DeliveredQuiet
<1> QED
  BY <1>3, <1>4, <1>5, DeliveredPut, DeliveredOut DEF Next

LEMMA DeliveredKept == Spec => []Delivered
<1>1. Init => Delivered
  BY DEF Init, Delivered, Task
<1> QED
  BY <1>1, DeliveredStep, TypesKept, LockKept, PTL DEF Spec

\* WriteStdOut (serial/main.c:92-116): for texts of any length, cut into chunks
\* anywhere, and whatever the other task and the FIFO do meanwhile, a write of a
\* text without NUL whose chunks all came, and no error, is answered when exactly
\* its characters have been put.
THEOREM WholeText == Spec => WritesDelivered
<1> DEFINE Answered == \A w \in Writer :
             text[w] # Null /\ text'[w] = Null /\ Rest = 0 /\ ~failed /\ Nuls(text[w]) = {}
               => sent = PutAll(text[w])
<1>1. TypeInv /\ Delivered /\ [Next]_vars => [Answered]_vars
  <2> SUFFICES ASSUME TypeInv, Delivered, Next,
                      NEW w \in Writer, text[w] # Null, text'[w] = Null, Rest = 0,
                      ~failed, Nuls(text[w]) = {}
               PROVE  sent = PutAll(text[w])
    OBVIOUS
  <2>1. Clients /\ Places /\ Characters /\ Where
    BY Types DEF TypeInv
  <2>2. RespondWrite /\ pc["out"] = "more"
    <3>1. CASE OutTask
      BY <3>1 DEF OutTask, TakeWrite, LockOut, UnlockOut, MsgRead, TakeError, Written, clients, At
    <3>2. CASE InTask
      BY <3>2 DEF InTask, TakeRead, GetByte, LockIn, GetKey, UnlockIn, ReadDone, clients
    <3>3. CASE \E t \in Task : Put(t)
      BY <3>3 DEF Put, PutWait, PutStore, clients
    <3>4. CASE Transmit \/ (\E k \in Keys : Type(k)) \/ (\E r \in Reader : Read(r))
      BY <3>4 DEF Transmit, Type, Read, clients
    <3>5. ASSUME NEW v \in Writer, Write(v) PROVE FALSE
      BY <2>1, <3>5, SerialAssumption DEF Write, Clients
    <3> QED
      BY <3>1, <3>2, <3>3, <3>4, <3>5 DEF Next
  <2>3. serving["out"] = w
    BY <2>1, <2>2 DEF RespondWrite, Clients
  <2>4. text[w] \in Texts /\ text[w] \in Seq(Char) /\ Len(text[w]) \in Nat
    BY <2>1, TextsAre DEF Clients
  <2>5. offset = Len(text[w])
    BY <2>1, <2>3, <2>4, SerialAssumption DEF Rest, Places
  <2>6. sent \o <<>> = PutAll(SubSeq(text[w], 1, Len(text[w])))
    BY <2>2, <2>3, <2>5 DEF Delivered
  <2>7. SubSeq(text[w], 1, Len(text[w])) = text[w]
    BY <2>4, SubSeqFull
  <2>8. sent \o <<>> = sent
    BY <2>1, ConcatEmptySeq DEF Characters
  <2> QED
    BY <2>6, <2>7, <2>8
<1> QED
  BY <1>1, TypesKept, DeliveredKept, PTL DEF Spec, WritesDelivered

(***************************************************************************)
(* What is typed.                                                          *)
(***************************************************************************)
\* A backspace is stored in an empty line only.
LineChars == \A i \in DOMAIN line : line[i] \in {"a", "b"} \/ (i = 1 /\ line[i] = "BS")

\* What is left of the echo of the last key brings the terminal to the line.
EchoLeft ==
  \/ emit["in"] = <<>> /\ shown = Visible(line)
  \/ \E ch \in Char : emit["in"] = <<ch>> /\ Show(shown, ch) = Visible(line)
  \/ emit["in"] = <<"SP", "BS">> /\ shown = Visible(line)
  \/ emit["in"] = <<"BS", "SP", "BS">> /\ Show(shown, "BS") = Visible(line)
  \/ emit["in"] = <<"LF", "CR">> /\ line = <<>>

Echoed ==
  /\ pc["in"] \notin {"gets", "line"} => emit["in"] = <<>>
  /\ pc["in"] = "lock" => line = <<>>
  /\ pc["in"] = "gets" => LineChars /\ EchoLeft

LEMMA FrontOfAppend ==
  ASSUME NEW S, NEW s \in Seq(S), NEW e \in S
  PROVE  Front(Append(s, e)) = s
<1> DEFINE t == Append(s, e)
<1>1. t \in Seq(S) /\ t # <<>> /\ Len(t) = Len(s) + 1 /\ \A i \in 1..Len(s) : t[i] = s[i]
  BY AppendProperties
<1>2. Len(s) \in Nat
  BY LenProperties
<1> HIDE DEF t
<1>3. Front(t) \in Seq(S) /\ Len(Front(t)) = Len(s) /\ \A i \in 1..Len(s) : Front(t)[i] = s[i]
  BY <1>1, <1>2, FrontIs
<1>4. Front(t) = s
  BY <1>3, SeqEqual
<1> QED
  BY <1>4 DEF t

\* Erasing the last character of the line erases what is seen of it.
LEMMA VisibleFront ==
  ASSUME NEW l \in Seq(Char), l # <<>>, \A i \in 1..Len(l) : l[i] = "BS" => i = 1
  PROVE  Show(Visible(l), "BS") = Visible(Front(l))
<1> DEFINE n == Len(l)
           f == Front(l)
<1>1. n \in Nat \ {0} /\ f \in Seq(Char) /\ Len(f) = n - 1 /\ \A i \in 1..(n - 1) : f[i] = l[i]
  BY FrontIs, EmptySeq
<1>2. f = <<>> <=> n = 1
  BY <1>1, EmptySeq
<1>3. CASE l[1] = "BS"
  <2>1. Tail(l) \in Seq(Char) /\ Len(Tail(l)) = n - 1 /\ \A i \in 1..(n - 1) : Tail(l)[i] = l[i + 1]
    BY HeadTailProperties
  <2>2. CASE n = 1
    <3>1. f = <<>> /\ Tail(l) = <<>>
      BY <1>1, <1>2, <2>1, <2>2, EmptySeq
    <3> QED
      BY <1>3, <3>1 DEF Visible, Show
  <2>3. CASE n # 1
    <3>1. Tail(l) # <<>> /\ f # <<>> /\ f[1] = l[1]
      <4>1. n - 1 \in Nat \ {0} /\ 1 \in 1..(n - 1)
        BY <1>1, <2>3
      <4>2. Len(Tail(l)) # 0
        BY <2>1, <4>1
      <4> HIDE DEF n, f
      <4> QED
        BY <1>1, <1>2, <2>3, <4>1, <4>2, EmptySeq
    <3>2. /\ Front(Tail(l)) \in Seq(Char) /\ Len(Front(Tail(l))) = (n - 1) - 1
          /\ \A i \in 1..((n - 1) - 1) : Front(Tail(l))[i] = Tail(l)[i]
      BY <2>1, <3>1, FrontIs
    <3>3. /\ Tail(f) \in Seq(Char) /\ Len(Tail(f)) = (n - 1) - 1
          /\ \A i \in 1..((n - 1) - 1) : Tail(f)[i] = f[i + 1]
      BY <1>1, <3>1, HeadTailProperties
    <3>4. ASSUME NEW i \in 1..((n - 1) - 1) PROVE Front(Tail(l))[i] = Tail(f)[i]
      <4>1. i \in 1..(n - 1) /\ i + 1 \in 1..(n - 1)
        BY <1>1
      <4> HIDE DEF n, f
      <4> QED
        BY <1>1, <2>1, <3>2, <3>3, <4>1
    <3>5. Front(Tail(l)) = Tail(f)
      BY <3>2, <3>3, <3>4, SeqEqual
    <3> QED
      BY <1>3, <3>1, <3>5 DEF Visible, Show
  <2> QED
    BY <2>2, <2>3
<1>4. CASE l[1] # "BS"
  <2>1. f # <<>> => f[1] = l[1]
    BY <1>1, <1>2
  <2> QED
    BY <1>4, <2>1 DEF Visible, Show
<1> QED
  BY <1>3, <1>4

\* A key that is stored shows, unless it is a stray backspace.
LEMMA VisibleAppend ==
  ASSUME NEW l \in Seq(Char), NEW ch \in {"a", "b", "BS"}, ch = "BS" => l = <<>>
  PROVE  Show(Visible(l), ch) = Visible(Append(l, ch))
<1>1. ch \in Char
  BY DEF Char
<1>2. CASE l = <<>>
  <2>1. Append(l, ch) # <<>> /\ Append(l, ch)[1] = ch /\ Tail(Append(l, ch)) = <<>>
    <3>1. Len(l) = 0 /\ Append(l, ch) # <<>> /\ Append(l, ch)[Len(l) + 1] = ch
      BY <1>1, <1>2, AppendProperties, EmptySeq
    <3>2. Tail(Append(l, ch)) = <<>>
      BY <1>1, <1>2, HeadTailAppend
    <3> QED
      BY <3>1, <3>2
  <2> QED
    BY <1>2, <2>1 DEF Visible, Show
<1>3. CASE l # <<>>
  <2>1. Len(l) \in Nat \ {0}
    BY <1>3, EmptySeq
  <2>2. Append(l, ch) # <<>> /\ Append(l, ch)[1] = l[1] /\ Tail(Append(l, ch)) = Append(Tail(l), ch)
    BY <1>1, <1>3, <2>1, AppendProperties, HeadTailAppend
  <2> QED
    BY <1>3, <2>2 DEF Visible, Show
<1> QED
  BY <1>2, <1>3

\* A task that is not putting leaves the echo alone.
LEMMA EchoedQuiet ==
  ASSUME Echoed, pc'["in"] = pc["in"], emit'["in"] = emit["in"], UNCHANGED line,
         pc["in"] = "gets" => UNCHANGED shown
  PROVE  Echoed'
  BY DEF Echoed, LineChars, EchoLeft

LEMMA EchoedPut ==
  ASSUME LockInv, TypeInv, Echoed, NEW t \in Task, Put(t)
  PROVE  Echoed'
<1>1. CASE PutWait(t)
  BY <1>1, EchoedQuiet DEF PutWait, putter, inTask
<1>2. CASE PutStore(t)
  <2>1. t \in ready /\ emit[t] # <<>> /\ Putting(t)
    BY <1>2 DEF PutStore, LockInv, RoomStays, Printed
  <2>2. emit \in [Task -> Seq(Char)] /\ shown \in Seq(Char) /\ "in" \in Task
    BY DEF TypeInv, TypeOK, Task
  <2>3. emit' = [emit EXCEPT ![t] = Tail(@)] /\ UNCHANGED <<pc, line>>
    BY <1>2 DEF PutStore, inTask
  <2>4. CASE t = "in" /\ pc["in"] = "gets"
    <3>1. shown' = Show(shown, Head(emit["in"])) /\ emit'["in"] = Tail(emit["in"])
      BY <1>2, <2>2, <2>3, <2>4 DEF PutStore
    <3>2. LineChars /\ EchoLeft
      BY <2>4 DEF Echoed
    <3>3. EchoLeft'
      <4>1. CASE \E ch \in Char : emit["in"] = <<ch>> /\ Show(shown, ch) = Visible(line)
        <5>1. PICK ch \in Char : emit["in"] = <<ch>> /\ Show(shown, ch) = Visible(line)
          BY <4>1
        <5>2. Head(emit["in"]) = ch /\ Tail(emit["in"]) = <<>>
          BY <5>1
        <5> QED
          BY <2>3, <3>1, <5>1, <5>2 DEF EchoLeft
      <4>2. CASE emit["in"] = <<"SP", "BS">> /\ shown = Visible(line)
        <5>1. Head(emit["in"]) = "SP" /\ Tail(emit["in"]) = <<"BS">> /\ "BS" \in Char /\ "SP" \in Char
          BY <4>2 DEF Char
        <5>2. shown' = Append(shown, "SP")
          BY <3>1, <5>1 DEF Show
        <5>3. Show(shown', "BS") = shown
          BY <2>2, <5>1, <5>2, FrontOfAppend, AppendProperties DEF Show
        <5> QED
          BY <2>3, <3>1, <4>2, <5>1, <5>3 DEF EchoLeft
      <4>3. CASE emit["in"] = <<"BS", "SP", "BS">> /\ Show(shown, "BS") = Visible(line)
        <5>1. Head(emit["in"]) = "BS" /\ Tail(emit["in"]) = <<"SP", "BS">>
          BY <4>3
        <5> QED
          BY <2>3, <3>1, <4>3, <5>1 DEF EchoLeft
      <4>4. CASE emit["in"] = <<"LF", "CR">> /\ line = <<>>
        <5>1. Tail(emit["in"]) = <<"CR">> /\ "CR" \in Char
          BY <4>4 DEF Char
        <5>2. Show(shown', "CR") = <<>> /\ Visible(line') = <<>>
          BY <2>3, <4>4 DEF Show, Visible
        <5> QED
          BY <3>1, <5>1, <5>2 DEF EchoLeft
      <4> QED
        BY <2>1, <2>4, <3>2, <4>1, <4>2, <4>3, <4>4 DEF EchoLeft
    <3> QED
      BY <2>3, <2>4, <3>2, <3>3 DEF Echoed, LineChars
  <2>5. CASE t = "in" /\ pc["in"] # "gets"
    BY <2>1, <2>3, <2>5 DEF Echoed, Putting
  <2>6. CASE t # "in"
    <3>1. pc["in"] # "gets"
      BY <2>1, <2>2, <2>6 DEF LockInv, Exclusive, Putting
    <3>2. emit'["in"] = emit["in"]
      BY <2>2, <2>3, <2>6
    <3> QED
      BY <2>3, <3>1, <3>2, EchoedQuiet
  <2> QED
    BY <2>4, <2>5, <2>6
<1> QED
  BY <1>1, <1>2 DEF Put

LEMMA EchoedKey == ASSUME TypeInv, Echoed, GetKey, Len(line) < InBuf PROVE Echoed'
<1>1. Clients /\ Places /\ Characters /\ Where
  BY Types DEF TypeInv
<1>0. ~(Len(line) >= InBuf)
  BY <1>1, LenProperties, SerialAssumption DEF Characters
<1> DEFINE ch == Head(rx)
<1>2. "in" \in Task /\ rx # <<>> /\ emit["in"] = <<>> /\ pc["in"] = "gets"
  BY <1>1 DEF GetKey, At, Printed, Task
<1>3. ch \in {"a", "b", "BS", "CR"}
  BY <1>1, <1>2, HeadTailProperties, SerialAssumption DEF Where
<1>4. emit'["in"] = Echo(ch) /\ shown' = shown
  BY <1>0, <1>1, <1>2 DEF GetKey, Characters, putter
<1>5. LineChars /\ shown = Visible(line) /\ line \in Seq(Char)
  BY <1>1, <1>2 DEF Echoed, EchoLeft, Characters
<1>6. Len(line) \in Nat /\ DOMAIN line = 1..Len(line)
  BY <1>5, LenProperties
<1>7. CASE ch = "BS" /\ line # <<>>
  <2>1. line' = Front(line) /\ pc' = pc
    BY <1>0, <1>7 DEF GetKey
  <2>2. emit'["in"] = <<"BS", "SP", "BS">>
    BY <1>4, <1>7 DEF Echo
  <2>3. \A i \in 1..Len(line) : line[i] = "BS" => i = 1
    BY <1>5, <1>6 DEF LineChars
  <2>4. Show(shown, "BS") = Visible(Front(line))
    BY <1>5, <1>7, <2>3, VisibleFront
  <2>5. /\ Front(line) \in Seq(Char) /\ Len(Front(line)) = Len(line) - 1
        /\ \A i \in 1..(Len(line) - 1) : Front(line)[i] = line[i]
    BY <1>5, <1>7, FrontIs
  <2>6. DOMAIN Front(line) = 1..(Len(line) - 1)
    BY <2>5, LenProperties
  <2>7. LineChars'
    <3> SUFFICES ASSUME NEW i \in DOMAIN line'
                 PROVE  line'[i] \in {"a", "b"} \/ (i = 1 /\ line'[i] = "BS")
      BY DEF LineChars
    <3>1. i \in 1..(Len(line) - 1) /\ i \in 1..Len(line)
      BY <1>6, <2>1, <2>6
    <3> QED
      BY <1>5, <1>6, <2>1, <2>5, <3>1 DEF LineChars
  <2>8. EchoLeft'
    BY <1>4, <2>1, <2>2, <2>4 DEF EchoLeft
  <2> QED
    BY <1>2, <2>1, <2>7, <2>8 DEF Echoed
<1>8. CASE ch = "CR"
  <2>1. line' = line /\ pc' = IF line = <<>> THEN pc ELSE [pc EXCEPT !["in"] = "line"]
    BY <1>0, <1>8 DEF GetKey, Goto
  <2>2. CASE line = <<>>
    <3>1. emit'["in"] = <<"LF", "CR">>
      BY <1>4, <1>8 DEF Echo
    <3>2. EchoLeft' /\ LineChars'
      BY <1>5, <2>1, <2>2, <3>1 DEF EchoLeft, LineChars
    <3> QED
      BY <1>2, <2>1, <2>2, <3>2 DEF Echoed
  <2>3. CASE line # <<>>
    <3>1. pc'["in"] = "line"
      BY <1>1, <1>2, <2>1, <2>3 DEF Places
    <3> QED
      BY <3>1 DEF Echoed
  <2> QED
    BY <2>2, <2>3
<1>9. CASE ch # "CR" /\ (ch = "BS" => line = <<>>)
  <2>1. line' = Append(line, ch) /\ pc' = pc
    BY <1>0, <1>3, <1>9 DEF GetKey
  <2>2. emit'["in"] = <<ch>> /\ ch \in {"a", "b", "BS"} /\ ch \in Char
    BY <1>3, <1>4, <1>9 DEF Echo, Char
  <2> HIDE DEF ch
  <2>3. Show(shown, ch) = Visible(Append(line, ch))
    BY <1>5, <1>9, <2>2, VisibleAppend
  <2>4. EchoLeft'
    BY <1>4, <2>1, <2>2, <2>3 DEF EchoLeft
  <2>5. /\ Append(line, ch) \in Seq(Char) /\ Len(Append(line, ch)) = Len(line) + 1
        /\ (\A i \in 1..Len(line) : Append(line, ch)[i] = line[i])
        /\ Append(line, ch)[Len(line) + 1] = ch
    BY <1>5, <2>2, AppendProperties
  <2>6. DOMAIN Append(line, ch) = 1..(Len(line) + 1)
    BY <2>5, LenProperties
  <2>7. LineChars'
    <3> SUFFICES ASSUME NEW i \in DOMAIN line'
                 PROVE  line'[i] \in {"a", "b"} \/ (i = 1 /\ line'[i] = "BS")
      BY DEF LineChars
    <3>1. CASE i \in 1..Len(line)
      BY <1>5, <1>6, <2>1, <2>5, <3>1 DEF LineChars
    <3>2. CASE i = Len(line) + 1
      <4>1. ch = "BS" => Len(line) = 0
        BY <1>9, EmptySeq
      <4> QED
        BY <1>6, <2>1, <2>2, <2>5, <3>2, <4>1
    <3>3. i \in 1..Len(line) \/ i = Len(line) + 1
      BY <1>6, <2>1, <2>6
    <3> QED
      BY <3>1, <3>2, <3>3
  <2> QED
    BY <1>2, <2>1, <2>4, <2>7 DEF Echoed
<1> QED
  BY <1>3, <1>7, <1>8, <1>9

LEMMA EchoedIn == ASSUME TypeInv, Echoed, InTask PROVE Echoed'
<1>1. Clients /\ Places /\ Characters /\ Where
  BY Types DEF TypeInv
<1>2. "in" \in Task
  BY DEF Task
<1>3. ASSUME NEW r \in Reader, TakeRead(r) PROVE Echoed'
  <2>1. pc["in"] = "idle" /\ emit' = emit /\ shown' = shown
    BY <1>3 DEF TakeRead, At, putter
  <2>2. \/ pc' = pc /\ line' = line
        \/ pc'["in"] = "bytes"
        \/ pc'["in"] = "lock" /\ line' = <<>>
    BY <1>1, <1>2, <1>3 DEF TakeRead, Goto, Places, inTask
  <2> QED
    BY <2>1, <2>2 DEF Echoed
<1>4. CASE GetByte
  BY <1>4, EchoedQuiet DEF GetByte, putter
<1>8. CASE GetKey /\ ~(Len(line) < InBuf)
  BY <1>8, EchoedQuiet DEF GetKey, putter
<1>5. CASE LockIn
  <2>1. pc["in"] = "lock" /\ pc'["in"] = "gets" /\ shown' = <<>> /\ emit' = emit /\ line' = line
    BY <1>1, <1>2, <1>5 DEF LockIn, At, Goto, Places, inTask
  <2>2. line = <<>> /\ emit["in"] = <<>>
    BY <2>1 DEF Echoed
  <2>3. LineChars' /\ EchoLeft'
    BY <2>1, <2>2 DEF LineChars, EchoLeft, Visible
  <2> QED
    BY <2>1, <2>3 DEF Echoed
<1>6. CASE UnlockIn
  <2>1. emit["in"] = <<>> /\ pc'["in"] = "respond" /\ emit' = emit
    BY <1>1, <1>2, <1>6 DEF UnlockIn, Goto, Places, Printed
  <2> QED
    BY <2>1 DEF Echoed
<1>7. CASE ReadDone
  <2>1. emit["in"] = <<>> /\ pc'["in"] = "idle" /\ emit' = emit
    BY <1>1, <1>2, <1>7 DEF ReadDone, At, Goto, Places, Echoed
  <2> QED
    BY <2>1 DEF Echoed
<1> QED
  BY <1>3, <1>4, <1>5, <1>6, <1>7, <1>8, EchoedKey DEF InTask

LEMMA EchoedStep == LockInv /\ TypeInv /\ Echoed /\ [Next]_vars => Echoed'
<1> SUFFICES ASSUME LockInv, TypeInv, Echoed, [Next]_vars PROVE Echoed'
  OBVIOUS
<1>1. Clients /\ Places /\ Characters /\ Where
  BY Types DEF TypeInv
<1>2. "out" \in Task /\ "in" \in Task
  BY DEF Task
<1>3. CASE OutTask
  <2>1. UNCHANGED <<line, shown>> /\ emit'["in"] = emit["in"] /\ pc'["in"] = pc["in"]
    BY <1>1, <1>2, <1>3
    DEF OutTask, TakeWrite, LockOut, UnlockOut, MsgRead, TakeError, Written, RespondWrite, Receive,
        Goto, inTask, putter, Places, Characters
  <2> QED
    BY <2>1, EchoedQuiet
<1>4. CASE Transmit \/ (\E k \in Keys : Type(k)) \/ (\E w \in Writer : Write(w))
           \/ (\E r \in Reader : Read(r)) \/ UNCHANGED vars
  <2>1. UNCHANGED <<line, shown, emit, pc>>
    BY <1>4 DEF Transmit, Type, Write, Read, vars, inTask, putter
  <2> QED
    BY <2>1, EchoedQuiet
<1> QED
  BY <1>3, <1>4, EchoedPut, EchoedIn DEF Next

LEMMA EchoedKept == Spec => []Echoed
<1>1. Init => Echoed
  BY DEF Init, Echoed, Task
<1> QED
  BY <1>1, EchoedStep, TypesKept, LockKept, PTL DEF Spec

\* gets (serial/ve/uart.c, serial/sunxi/uart.c): for lines of any length and keys
\* in any order, what the user sees when an echo is out is what the reader would
\* get, but for a backspace at its start.
THEOREM SeenIsRead == Spec => []ShownIsLine
<1>1. ASSUME Echoed PROVE ShownIsLine
  BY <1>1 DEF ShownIsLine, At, Printed, Echoed, EchoLeft
<1> QED
  BY <1>1, EchoedKept, PTL
=============================================================================
