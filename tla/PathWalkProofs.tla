--------------------------- MODULE PathWalkProofs ---------------------------
(***************************************************************************)
(* Proofs that the pointer loops of path resolution agree with ProcTree,   *)
(* for paths of any length over any characters, in any tree, and that each *)
(* turn of a loop moves its cursor on within the string.                   *)
(***************************************************************************)
EXTENDS PathWalk, Induction, SequenceTheorems, TLAPS

(***************************************************************************)
(* Sequences.                                                              *)
(***************************************************************************)
\* The first elements of a sequence.
LEMMA PrefixIs ==
  ASSUME NEW S, NEW s \in Seq(S), NEW i \in 0..Len(s)
  PROVE  /\ SubSeq(s, 1, i) \in Seq(S) /\ Len(SubSeq(s, 1, i)) = i
         /\ \A j \in 1..i : SubSeq(s, 1, i)[j] = s[j]
<1>1. \A j \in 1..i : s[j] \in S
  BY ElementOfSeq
<1>2. /\ SubSeq(s, 1, i) \in Seq(S)
      /\ Len(SubSeq(s, 1, i)) = IF 1 <= i THEN i - 1 + 1 ELSE 0
      /\ \A j \in 1..(i - 1 + 1) : SubSeq(s, 1, i)[j] = s[1 + j - 1]
  BY <1>1, SubSeqProperties
<1> QED BY <1>2

\* What a sequence gains at its end leaves its prefixes.
LEMMA PrefixOfAppend ==
  ASSUME NEW S, NEW s \in Seq(S), NEW e \in S, NEW i \in 0..Len(s)
  PROVE  SubSeq(Append(s, e), 1, i) = SubSeq(s, 1, i)
<1>1. /\ Append(s, e) \in Seq(S) /\ Len(Append(s, e)) = Len(s) + 1
      /\ \A j \in 1..Len(s) : Append(s, e)[j] = s[j]
  BY AppendProperties
<1>2. i \in 0..Len(Append(s, e)) /\ \A j \in 1..i : j \in 1..Len(s)
  BY <1>1
<1> DEFINE t == Append(s, e)
           p == SubSeq(t, 1, i)
           q == SubSeq(s, 1, i)
<1> HIDE DEF t
<1>3. p \in Seq(S) /\ Len(p) = i /\ \A j \in 1..i : p[j] = t[j]
  BY <1>1, <1>2, PrefixIs DEF t
<1>4. q \in Seq(S) /\ Len(q) = i /\ \A j \in 1..i : q[j] = s[j]
  BY PrefixIs
<1>5. \A j \in 1..i : t[j] = s[j]
  BY <1>1, <1>2 DEF t
<1> HIDE DEF p, q
<1>6. p = q
  BY <1>3, <1>4, <1>5, SeqEqual
<1> QED BY <1>6 DEF p, q, t

\* The front and the last of an extended sequence.
LEMMA FrontOfAppend ==
  ASSUME NEW S, NEW s \in Seq(S), NEW e \in S
  PROVE  /\ Append(s, e) \in Seq(S) /\ Len(Append(s, e)) = Len(s) + 1
         /\ Front(Append(s, e)) = s /\ Last(Append(s, e)) = e
<1>1. /\ Append(s, e) \in Seq(S) /\ Len(Append(s, e)) = Len(s) + 1 /\ Len(s) \in Nat
      /\ Append(s, e)[Len(s) + 1] = e
  BY AppendProperties, LenProperties
<1>2. SubSeq(Append(s, e), 1, Len(s)) = s
  BY <1>1, PrefixOfAppend, SubSeqFull
<1> QED BY <1>1, <1>2 DEF Front, Last

\* A sequence that is not empty has both,
LEMMA FrontLast ==
  ASSUME NEW S, NEW s \in Seq(S), s # <<>>
  PROVE  /\ Len(s) \in Nat \ {0} /\ Front(s) \in Seq(S) /\ Len(Front(s)) = Len(s) - 1
         /\ Last(s) \in S
<1>1. Len(s) \in Nat \ {0}
  BY EmptySeq
<1>2. Len(s) - 1 \in 0..Len(s) /\ Len(s) \in 1..Len(s)
  BY <1>1
<1> QED BY <1>1, <1>2, PrefixIs, ElementOfSeq DEF Front, Last

\* and is what they make.
LEMMA FrontAppend ==
  ASSUME NEW S, NEW s \in Seq(S), s # <<>>
  PROVE  s = Append(Front(s), Last(s))
<1>1. PICK t \in Seq(S), e \in S : s = Append(t, e)
  BY SequenceEmptyOrAppend
<1>2. Front(s) = t /\ Last(s) = e
  BY <1>1, FrontOfAppend
<1> QED BY <1>1, <1>2

\* The prefixes of a sequence and of the sequence extended.
LEMMA PrefixesOfAppend ==
  ASSUME NEW S, NEW s \in Seq(S), NEW e \in S
  PROVE  {SubSeq(Append(s, e), 1, i) : i \in 0..Len(Append(s, e))} =
           {SubSeq(s, 1, i) : i \in 0..Len(s)} \cup {Append(s, e)}
<1>1. /\ Append(s, e) \in Seq(S) /\ Len(Append(s, e)) = Len(s) + 1 /\ Len(s) \in Nat
  BY AppendProperties, LenProperties
<1>2. SubSeq(Append(s, e), 1, Len(s) + 1) = Append(s, e)
  BY <1>1, SubSeqFull
<1>3. \A i \in 0..Len(s) : SubSeq(Append(s, e), 1, i) = SubSeq(s, 1, i)
  BY PrefixOfAppend
<1>4. 0..(Len(s) + 1) = 0..Len(s) \cup {Len(s) + 1}
  BY <1>1
<1> QED BY <1>1, <1>2, <1>3, <1>4

(***************************************************************************)
(* The definition of Components, as a recursion with one solution.         *)
(***************************************************************************)
Words == Seq(Chars)

LEMMA SplitIs ==
  ASSUME NEW string \in Seq(Chars)
  PROVE  /\ Split(string)[0] = << <<>> >>
         /\ \A k \in 0..Len(string) : Split(string)[k] \in Seq(Words) \ {<<>>}
         /\ \A k \in 1..Len(string) :
              Split(string)[k] =
                IF string[k] = "/" THEN Append(Split(string)[k - 1], <<>>)
                ELSE Append(Front(Split(string)[k - 1]), Append(Last(Split(string)[k - 1]), string[k]))
<1> DEFINE top == Len(string)
           T == Seq(Words) \ {<<>>}
           More(l, ch) == IF ch = "/" THEN Append(l, <<>>)
                          ELSE Append(Front(l), Append(Last(l), ch))
           step == [x \in (1..top) \X T |-> More(x[2], string[x[1]])]
           IsSplit(h) == h = [k \in 0..top |-> IF k = 0 THEN << <<>> >> ELSE More(h[k - 1], string[k])]
           split == CHOOSE h : IsSplit(h)
<1>1. top \in Nat
  BY LenProperties
<1>2. << <<>> >> \in T
  BY EmptySeq DEF Words
<1>3. ASSUME NEW l \in T, NEW k \in 1..top PROVE More(l, string[k]) \in T
  <2>1. string[k] \in Chars /\ <<>> \in Words
    BY <1>3, ElementOfSeq, EmptySeq DEF Words
  <2>2. Front(l) \in Seq(Words) /\ Last(l) \in Words
    BY FrontLast
  <2>3. Append(Last(l), string[k]) \in Words
    BY <2>1, <2>2, AppendProperties DEF Words
  <2>4. /\ Append(l, <<>>) \in T
        /\ Append(Front(l), Append(Last(l), string[k])) \in T
    <3> HIDE DEF Words
    <3>1. l \in Seq(Words)
      OBVIOUS
    <3>2. Append(l, <<>>) \in Seq(Words) /\ Append(l, <<>>) # <<>>
      BY <2>1, <3>1, AppendProperties
    <3>3. /\ Append(Front(l), Append(Last(l), string[k])) \in Seq(Words)
          /\ Append(Front(l), Append(Last(l), string[k])) # <<>>
      <4> DEFINE front == Front(l)
                 word == Append(Last(l), string[k])
      <4>1. front \in Seq(Words) /\ word \in Words
        BY <2>2, <2>3
      <4> HIDE DEF front, word
      <4>2. Append(front, word) \in Seq(Words) /\ Append(front, word) # <<>>
        BY <4>1, AppendProperties
      <4> QED BY <4>2 DEF front, word
    <3> QED BY <3>2, <3>3
  <2> QED BY <2>4
<1> HIDE DEF More, T
<1>4. step \in [(1..top) \X T -> T]
  BY <1>3
<1>5. \E h : IsSplit(h)
  <2> HIDE DEF step, top
  <2>1. PICK f : Computes(f, T, << <<>> >>, top, step)
    BY <1>1, <1>2, <1>4, RecursionExists
  <2>2. ASSUME NEW k \in 0..top PROVE f[k] = IF k = 0 THEN << <<>> >> ELSE More(f[k - 1], string[k])
    <3>1. CASE k = 0
      BY <2>1, <3>1 DEF Computes
    <3>2. CASE k # 0
      <4>1. k \in 1..top /\ k - 1 \in 0..top
        BY <1>1, <3>2
      <4>2. f[k - 1] \in T /\ f[k] = step[<<k, f[k - 1]>>]
        BY <2>1, <4>1 DEF Computes
      <4>3. <<k, f[k - 1]>> \in (1..top) \X T
        BY <4>1, <4>2
      <4> QED BY <3>2, <4>2, <4>3 DEF step
    <3> QED BY <3>1, <3>2
  <2>3. f = [k \in 0..top |-> f[k]]
    BY <2>1 DEF Computes
  <2>4. f = [k \in 0..top |-> IF k = 0 THEN << <<>> >> ELSE More(f[k - 1], string[k])]
    BY <2>2, <2>3
  <2> QED BY <2>4
<1>6. IsSplit(split)
  <2> HIDE DEF IsSplit
  <2> QED BY <1>5, Zenon
<1>7. Split(string) = split
  BY DEF Split, More
<1> HIDE DEF split, step
<1>8. split[0] = << <<>> >> /\ \A k \in 1..top : split[k] = More(split[k - 1], string[k])
  <2>1. 0 \in 0..top /\ \A k \in 1..top : k \in 0..top /\ k # 0
    BY <1>1
  <2> QED BY <1>6, <2>1
<1>9. \A k \in 0..top : split[k] \in T
  <2> DEFINE S == {k \in Nat : k <= top => split[k] \in T}
  <2>1. 0 \in S
    BY <1>2, <1>8
  <2>2. ASSUME NEW k \in Nat, k \in S PROVE k + 1 \in S
    <3> SUFFICES ASSUME k + 1 <= top PROVE split[k + 1] \in T
      OBVIOUS
    <3>1. k + 1 \in 1..top /\ (k + 1) - 1 = k
      BY <1>1
    <3>2. split[k + 1] = More(split[k], string[k + 1])
      BY <1>8, <3>1
    <3>3. split[k] \in T
      BY <1>1, <2>2
    <3> QED BY <1>3, <3>1, <3>2, <3>3
  <2>3. Nat \subseteq S
    <3> HIDE DEF S
    <3> QED BY <2>1, <2>2, NatSet
  <2> QED BY <1>1, <2>3
<1> QED BY <1>7, <1>8, <1>9 DEF More, T

(***************************************************************************)
(* The same on the offsets of the path itself.                             *)
(***************************************************************************)
LEMMA BodyIs ==
  ASSUME NEW p \in Seq(Chars)
  PROVE  /\ Body(p) \in Seq(Chars) /\ Len(p) \in Nat /\ Start(p) \in 0..Len(p)
         /\ Start(p) = IF p # <<>> /\ p[1] = "/" THEN 1 ELSE 0
         /\ Len(Body(p)) = Len(p) - Start(p)
         /\ \A k \in 1..Len(Body(p)) : Body(p)[k] = p[k + Start(p)]
<1>1. CASE p # <<>> /\ p[1] = "/"
  <2>1. Body(p) = Tail(p)
    BY <1>1 DEF Body
  <2>2. /\ Tail(p) \in Seq(Chars) /\ Len(Tail(p)) = Len(p) - 1 /\ Len(p) \in Nat \ {0}
        /\ \A k \in 1..Len(Tail(p)) : Tail(p)[k] = p[k + 1]
    BY <1>1, HeadTailProperties, EmptySeq
  <2>3. Start(p) = 1
    BY <2>1, <2>2 DEF Start
  <2> QED BY <1>1, <2>1, <2>2, <2>3
<1>2. CASE ~(p # <<>> /\ p[1] = "/")
  <2>1. Body(p) = p
    BY <1>2 DEF Body
  <2>2. Len(p) \in Nat
    BY LenProperties
  <2>3. Start(p) = 0
    BY <2>1, <2>2 DEF Start
  <2>4. \A k \in 1..Len(p) : k + 0 = k
    BY <2>2
  <2> QED BY <1>2, <2>1, <2>2, <2>3, <2>4
<1> QED BY <1>1, <1>2

LEMMA CutIs ==
  ASSUME NEW p \in Seq(Chars)
  PROVE  /\ Cut(p, Start(p)) = << <<>> >>
         /\ \A i \in Start(p)..Len(p) : Cut(p, i) \in Seq(Words) /\ Cut(p, i) # <<>>
         /\ p # <<>> => Components(p) = Cut(p, Len(p))
<1> DEFINE b == Body(p)
           s == Start(p)
<1>1. b \in Seq(Chars) /\ Len(p) \in Nat /\ s \in 0..Len(p) /\ Len(b) = Len(p) - s
  BY BodyIs
<1> HIDE DEF b, s
<1>2. s - s = 0 /\ \A i \in s..Len(p) : i - s \in 0..Len(b)
  BY <1>1
<1>3. Split(b)[0] = << <<>> >> /\ \A k \in 0..Len(b) : Split(b)[k] \in Seq(Words) \ {<<>>}
  BY <1>1, SplitIs
<1>4. \A i : Cut(p, i) = Split(b)[i - s]
  BY DEF Cut, b, s
<1>5. p # <<>> => Components(p) = Split(b)[Len(b)]
  BY DEF Components, b
<1> QED BY <1>1, <1>2, <1>3, <1>4, <1>5 DEF s

\* One more character.
LEMMA CutStep ==
  ASSUME NEW p \in Seq(Chars), NEW i \in Start(p)..(Len(p) - 1)
  PROVE  Cut(p, i + 1) = IF p[i + 1] = "/" THEN Append(Cut(p, i), <<>>)
                         ELSE Append(Front(Cut(p, i)), Append(Last(Cut(p, i)), p[i + 1]))
<1> DEFINE b == Body(p)
           s == Start(p)
           k == (i + 1) - s
<1>1. /\ b \in Seq(Chars) /\ Len(p) \in Nat /\ s \in 0..Len(p) /\ Len(b) = Len(p) - s
      /\ \A j \in 1..Len(b) : b[j] = p[j + s]
  BY BodyIs
<1>2. i \in s..(Len(p) - 1)
  OBVIOUS
<1> HIDE DEF b, s
<1>3. k \in 1..Len(b) /\ k - 1 = i - s /\ k + s = i + 1
  BY <1>1, <1>2
<1>4. b[k] = p[i + 1]
  BY <1>1, <1>3
<1>5. Split(b)[k] = IF b[k] = "/" THEN Append(Split(b)[k - 1], <<>>)
                    ELSE Append(Front(Split(b)[k - 1]), Append(Last(Split(b)[k - 1]), b[k]))
  BY <1>1, <1>3, SplitIs
<1>6. Cut(p, i + 1) = Split(b)[k] /\ Cut(p, i) = Split(b)[k - 1]
  <2>1. \A n : Cut(p, n) = Split(b)[n - s]
    BY DEF Cut, b, s
  <2>2. Cut(p, i + 1) = Split(b)[k]
    BY <2>1
  <2> QED BY <1>3, <2>1, <2>2
<1> QED BY <1>4, <1>5, <1>6

\* The characters up to the next '/' make one name.
LEMMA CutName ==
  ASSUME NEW p \in Seq(Chars), NEW i \in Start(p)..Len(p), NEW m \in 0..(Len(p) - i),
         NEW l \in Seq(Words), Cut(p, i) = Append(l, <<>>),
         \A k \in 1..m : p[i + k] # "/"
  PROVE  /\ SubSeq(p, i + 1, i + m) \in Words
         /\ Cut(p, i + m) = Append(l, SubSeq(p, i + 1, i + m))
<1>1. Len(p) \in Nat /\ Start(p) \in 0..Len(p) /\ i \in Nat
  BY BodyIs
<1>2. ASSUME NEW k \in 0..m PROVE SubSeq(p, i + 1, i + k) \in Words
  <2>1. \A j \in (i + 1)..(i + k) : p[j] \in Chars
    BY <1>1, ElementOfSeq
  <2> QED BY <1>1, <2>1, SubSeqProperties DEF Words
<1> DEFINE S == {k \in Nat : k <= m => Cut(p, i + k) = Append(l, SubSeq(p, i + 1, i + k))}
<1>3. 0 \in S
  <2>1. SubSeq(p, i + 1, i + 0) = <<>> /\ i + 0 = i
    BY <1>1, SubSeqEmpty
  <2> QED BY <2>1
<1>4. ASSUME NEW k \in Nat, k \in S PROVE k + 1 \in S
  <2> SUFFICES ASSUME k + 1 <= m PROVE Cut(p, i + (k + 1)) = Append(l, SubSeq(p, i + 1, i + (k + 1)))
    OBVIOUS
  <2> DEFINE word == SubSeq(p, i + 1, i + k)
             ch == p[(i + k) + 1]
  <2>1. k <= m /\ k \in 0..m /\ k + 1 \in 1..m /\ (i + k) + 1 = i + (k + 1) /\ i + k \in Start(p)..(Len(p) - 1)
    BY <1>1
  <2>2. Cut(p, i + k) = Append(l, word) /\ word \in Words
    BY <1>2, <1>4, <2>1
  <2>3. ch # "/"
    BY <2>1
  <2>4. Cut(p, (i + k) + 1) = Append(Front(Cut(p, i + k)), Append(Last(Cut(p, i + k)), ch))
    BY <2>1, <2>3, CutStep
  <2>5. SubSeq(p, i + 1, i + (k + 1)) = Append(word, ch)
    <3>1. ch \in Chars
      BY <1>1, <2>1, ElementOfSeq
    <3>2. /\ word \in Seq(Chars) /\ Len(word) = k
          /\ \A j \in 1..k : word[j] = p[i + j]
      <4>1. \A j \in (i + 1)..(i + k) : p[j] \in Chars
        BY <1>1, <2>1, ElementOfSeq
      <4>2. /\ word \in Seq(Chars)
            /\ Len(word) = IF i + 1 <= i + k THEN (i + k) - (i + 1) + 1 ELSE 0
            /\ \A j \in 1..((i + k) - (i + 1) + 1) : word[j] = p[(i + 1) + j - 1]
        BY <1>1, <2>1, <4>1, SubSeqProperties
      <4> HIDE DEF word
      <4> QED BY <1>1, <2>1, <4>2
    <3> DEFINE n == i + (k + 1)
               new == SubSeq(p, i + 1, n)
               old == Append(word, ch)
    <3>3. new \in Seq(Chars) /\ Len(new) = k + 1 /\ \A j \in 1..(k + 1) : new[j] = p[i + j]
      <4>1. \A j \in (i + 1)..n : p[j] \in Chars
        BY <1>1, <2>1, ElementOfSeq
      <4>2. /\ new \in Seq(Chars)
            /\ Len(new) = IF i + 1 <= n THEN n - (i + 1) + 1 ELSE 0
            /\ \A j \in 1..(n - (i + 1) + 1) : new[j] = p[(i + 1) + j - 1]
        BY <1>1, <2>1, <4>1, SubSeqProperties
      <4> HIDE DEF new
      <4> QED BY <1>1, <2>1, <4>2
    <3>4. p[i + (k + 1)] = ch
      BY <2>1
    <3> HIDE DEF word, ch, new
    <3>5. /\ old \in Seq(Chars) /\ Len(old) = k + 1 /\ old[k + 1] = ch
          /\ \A j \in 1..k : old[j] = word[j]
      BY <3>1, <3>2, AppendProperties
    <3> HIDE DEF old
    <3>6. ASSUME NEW j \in 1..(k + 1) PROVE new[j] = old[j]
      <4>1. CASE j \in 1..k
        BY <3>2, <3>3, <3>5, <4>1
      <4>2. CASE j = k + 1
        <5>1. k + 1 \in 1..(k + 1) /\ new[k + 1] = p[i + (k + 1)]
          BY <2>1, <3>3
        <5> QED BY <3>4, <3>5, <4>2, <5>1
      <4> QED BY <2>1, <4>1, <4>2
    <3>7. new = old
      BY <3>3, <3>5, <3>6, SeqEqual
    <3> QED BY <3>7 DEF new, old
  <2> HIDE DEF word, ch
  <2>6. Front(Append(l, word)) = l /\ Last(Append(l, word)) = word
    BY <2>2, FrontOfAppend
  <2>7. Cut(p, i + (k + 1)) = Append(l, Append(word, ch))
    BY <2>1, <2>2, <2>4, <2>6
  <2> QED BY <2>5, <2>7
<1>5. m \in S
  <2> HIDE DEF S
  <2>1. Nat \subseteq S
    BY <1>3, <1>4, NatSet
  <2> QED BY <1>1, <2>1
<1>6. m \in 0..m /\ m <= m
  BY <1>1
<1> QED BY <1>2, <1>5, <1>6

\* Later characters leave the names before the last alone.
LEMMA CutKeeps ==
  ASSUME NEW p \in Seq(Chars), NEW i \in Start(p)..Len(p), NEW j \in i..Len(p)
  PROVE  /\ Len(Cut(p, i)) <= Len(Cut(p, j))
         /\ SubSeq(Cut(p, j), 1, Len(Cut(p, i)) - 1) = Front(Cut(p, i))
<1> DEFINE front == Front(Cut(p, i))
           len == Len(Cut(p, i))
           Keeps(k) == len <= Len(Cut(p, k)) /\ SubSeq(Cut(p, k), 1, len - 1) = front
           S == {k \in Nat : i + k <= Len(p) => Keeps(i + k)}
<1>1. Len(p) \in Nat /\ Start(p) \in 0..Len(p) /\ i \in Nat
  BY BodyIs
<1>2. len \in Nat \ {0}
  BY CutIs, FrontLast
<1>3. 0 \in S
  BY <1>1, <1>2 DEF Front
<1>4. ASSUME NEW k \in Nat, k \in S PROVE k + 1 \in S
  <2> SUFFICES ASSUME i + (k + 1) <= Len(p) PROVE Keeps(i + (k + 1))
    OBVIOUS
  <2> DEFINE n == i + k
             l == Cut(p, n)
             new == Cut(p, n + 1)
  <2>1. n \in Start(p)..(Len(p) - 1) /\ n \in Start(p)..Len(p) /\ n + 1 = i + (k + 1) /\ n + 1 \in Start(p)..Len(p)
    BY <1>1
  <2>2. len <= Len(l) /\ SubSeq(l, 1, len - 1) = front
    BY <1>1, <1>4, <2>1
  <2>3. l \in Seq(Words) /\ l # <<>> /\ new \in Seq(Words) /\ new # <<>>
    BY <2>1, CutIs
  <2>4. new = IF p[n + 1] = "/" THEN Append(l, <<>>)
              ELSE Append(Front(l), Append(Last(l), p[n + 1]))
    BY <2>1, CutStep
  <2>5. p[n + 1] \in Chars
    BY <1>1, <2>1, ElementOfSeq
  <2> HIDE DEF n, l, new, len, front
  <2>6. len <= Len(new) /\ SubSeq(new, 1, len - 1) = front
    <3>1. <<>> \in Words
      BY EmptySeq DEF Words
    <3>2. /\ Len(l) \in Nat \ {0} /\ Front(l) \in Seq(Words) /\ Len(Front(l)) = Len(l) - 1
          /\ Last(l) \in Words
      BY <2>3, FrontLast
    <3>3. CASE p[n + 1] = "/"
      <4>1. new = Append(l, <<>>) /\ len - 1 \in 0..Len(l)
        BY <1>2, <2>2, <2>4, <3>2, <3>3
      <4>2. Len(new) = Len(l) + 1
        BY <2>3, <3>1, <4>1, AppendProperties
      <4>3. SubSeq(new, 1, len - 1) = SubSeq(l, 1, len - 1)
        BY <2>3, <3>1, <4>1, PrefixOfAppend
      <4> QED BY <1>2, <2>2, <3>2, <4>2, <4>3
    <3>4. CASE p[n + 1] # "/"
      <4> DEFINE f == Front(l)
                 word == Append(Last(l), p[n + 1])
      <4>1. word \in Words
        BY <2>5, <3>2, AppendProperties DEF Words
      <4>2. f \in Seq(Words) /\ Len(f) = Len(l) - 1 /\ new = Append(f, word)
        BY <2>4, <3>2, <3>4
      <4>3. len - 1 \in 0..Len(f) /\ len - 1 \in 0..Len(l)
        BY <1>2, <2>2, <3>2, <4>2
      <4>4. SubSeq(f, 1, len - 1) = SubSeq(l, 1, len - 1)
        <5>1. l = Append(f, Last(l))
          BY <2>3, <3>2, FrontAppend
        <5> HIDE DEF f
        <5>2. SubSeq(Append(f, Last(l)), 1, len - 1) = SubSeq(f, 1, len - 1)
          BY <3>2, <4>2, <4>3, PrefixOfAppend
        <5> QED BY <5>1, <5>2
      <4> HIDE DEF f, word
      <4>5. Len(new) = Len(f) + 1 /\ SubSeq(new, 1, len - 1) = SubSeq(f, 1, len - 1)
        BY <4>1, <4>2, <4>3, AppendProperties, PrefixOfAppend
      <4> QED BY <1>2, <2>2, <3>2, <4>2, <4>4, <4>5
    <3> QED BY <3>3, <3>4
  <2> QED BY <2>1, <2>6 DEF new, n, len, front
<1>5. j - i \in S
  <2> HIDE DEF S
  <2>1. Nat \subseteq S /\ j - i \in Nat
    BY <1>1, <1>3, <1>4, NatSet
  <2> QED BY <2>1
<1>6. i + (j - i) = j /\ j <= Len(p)
  BY <1>1
<1> QED BY <1>5, <1>6

\* A name that has ended is kept whole, and not the last one if a '/' ended it.
LEMMA CutWhole ==
  ASSUME NEW p \in Seq(Chars), NEW i \in Start(p)..Len(p), i < Len(p) => p[i + 1] = "/"
  PROVE  /\ Len(Cut(p, i)) <= Len(Cut(p, Len(p)))
         /\ i < Len(p) => Len(Cut(p, i)) < Len(Cut(p, Len(p)))
         /\ SubSeq(Cut(p, Len(p)), 1, Len(Cut(p, i))) = Cut(p, i)
<1> DEFINE l == Cut(p, i)
           all == Cut(p, Len(p))
<1>1. Len(p) \in Nat /\ Start(p) \in 0..Len(p) /\ Len(p) \in Start(p)..Len(p) /\ i \in Nat
  BY BodyIs
<1>2. l \in Seq(Words) /\ all \in Seq(Words) /\ Len(l) \in Nat
  BY <1>1, CutIs, LenProperties
<1>3. CASE i = Len(p)
  BY <1>2, <1>3, SubSeqFull
<1>4. CASE i < Len(p)
  <2>1. i \in Start(p)..(Len(p) - 1) /\ i + 1 \in Start(p)..Len(p) /\ Len(p) \in (i + 1)..Len(p)
    BY <1>1, <1>4
  <2>2. Cut(p, i + 1) = Append(l, <<>>)
    BY <1>4, <2>1, CutStep
  <2> HIDE DEF l, all
  <2>3. <<>> \in Words
    BY EmptySeq DEF Words
  <2>4. Len(Append(l, <<>>)) = Len(l) + 1 /\ Front(Append(l, <<>>)) = l
    BY <1>2, <2>3, FrontOfAppend
  <2>5. Len(l) + 1 <= Len(all) /\ SubSeq(all, 1, (Len(l) + 1) - 1) = l
    BY <2>1, <2>2, <2>4, CutKeeps DEF all
  <2>6. Len(all) \in Nat /\ (Len(l) + 1) - 1 = Len(l)
    BY <1>2, LenProperties
  <2>7. Len(l) <= Len(all) /\ Len(l) < Len(all) /\ SubSeq(all, 1, Len(l)) = l
    BY <1>2, <2>5, <2>6
  <2> QED BY <2>7 DEF l, all
<1> QED BY <1>1, <1>3, <1>4

\* The components of a path, and when the last is empty.
LEMMA ComponentsEnd ==
  ASSUME NEW p \in Seq(Chars), p # <<>>
  PROVE  /\ Components(p) = Cut(p, Len(p)) /\ Components(p) \in Seq(Words) /\ Components(p) # <<>>
         /\ EndsInSlash(Components(p)) <=> p[Len(p)] = "/"
<1>1. Len(p) \in Nat \ {0} /\ Start(p) \in 0..Len(p) /\ Len(p) \in Start(p)..Len(p)
  BY BodyIs, EmptySeq
<1>2. Components(p) = Cut(p, Len(p)) /\ Cut(p, Len(p)) \in Seq(Words) /\ Cut(p, Len(p)) # <<>>
  BY <1>1, CutIs
<1>3. Last(Cut(p, Len(p))) = <<>> <=> p[Len(p)] = "/"
  <2>1. CASE Start(p) = Len(p)
    <3>1. Len(p) = 1 /\ p[1] = "/"
      BY <1>1, <2>1, BodyIs
    <3>2. Cut(p, Len(p)) = << <<>> >>
      BY <2>1, CutIs
    <3>3. Last(<< <<>> >>) = <<>>
      BY DEF Last
    <3> QED BY <3>1, <3>2, <3>3
  <2>2. CASE Start(p) < Len(p)
    <3> DEFINE n == Len(p) - 1
               l == Cut(p, n)
               ch == p[Len(p)]
    <3>1. n \in Start(p)..(Len(p) - 1) /\ n \in Start(p)..Len(p) /\ n + 1 = Len(p)
      BY <1>1, <2>2
    <3>2. l \in Seq(Words) /\ l # <<>> /\ ch \in Chars /\ <<>> \in Words
      BY <1>1, <3>1, CutIs, ElementOfSeq, EmptySeq DEF Words
    <3>3. Cut(p, Len(p)) = IF ch = "/" THEN Append(l, <<>>) ELSE Append(Front(l), Append(Last(l), ch))
      BY <3>1, CutStep
    <3> HIDE DEF n, l, ch
    <3>4. CASE ch = "/"
      BY <3>2, <3>3, <3>4, FrontOfAppend DEF ch
    <3>5. CASE ch # "/"
      <4> DEFINE f == Front(l)
                 word == Append(Last(l), ch)
      <4>1. f \in Seq(Words) /\ Last(l) \in Words
        BY <3>2, FrontLast
      <4>2. word \in Words /\ word # <<>>
        BY <3>2, <4>1, AppendProperties DEF Words
      <4>3. Cut(p, Len(p)) = Append(f, word)
        BY <3>3, <3>5
      <4> HIDE DEF f, word
      <4>4. Last(Append(f, word)) = word
        BY <4>1, <4>2, FrontOfAppend
      <4> QED BY <3>5, <4>2, <4>3, <4>4 DEF ch
    <3> QED BY <3>4, <3>5
  <2> QED BY <1>1, <2>1, <2>2
<1> QED BY <1>2, <1>3 DEF EndsInSlash

(***************************************************************************)
(* The characters and the names of the path.                               *)
(***************************************************************************)
LEMMA CharIs ==
  ASSUME path \in Seq(Chars), NEW i \in 0..Len(path)
  PROVE  /\ Char(i) = NUL <=> i = Len(path)
         /\ i < Len(path) => Char(i) = path[i + 1] /\ Char(i) \in Chars
<1>1. Len(path) \in Nat
  BY LenProperties
<1>2. CASE i = Len(path)
  BY <1>1, <1>2 DEF Char
<1>3. CASE i < Len(path)
  <2>1. i + 1 \in 1..Len(path)
    BY <1>1, <1>3
  <2>2. path[i + 1] \in Chars
    BY <2>1, ElementOfSeq
  <2> QED BY <1>3, <2>2, PathAssumption DEF Char
<1> QED BY <1>1, <1>2, <1>3

\* A name goes on to the next '/' or to the end.
LEMMA NameLenIs ==
  ASSUME path \in Seq(Chars), NEW i \in 0..Len(path)
  PROVE  /\ NameLen(i) \in 0..(Len(path) - i)
         /\ Char(i + NameLen(i)) \in {NUL, "/"}
         /\ \A k \in 1..NameLen(i) : path[i + k] # "/"
<1> DEFINE ends(n) == /\ Char(i + n) \in {NUL, "/"}
                      /\ \A k \in 0..(n - 1) : Char(i + k) \notin {NUL, "/"}
           S == {n \in 0..(Len(path) - i) : Char(i + n) \in {NUL, "/"}}
<1>1. Len(path) \in Nat
  BY LenProperties
<1>2. Len(path) - i \in S
  <2>1. i + (Len(path) - i) = Len(path) /\ Len(path) - i \in 0..(Len(path) - i)
    BY <1>1
  <2>2. Char(Len(path)) = NUL
    BY <1>1, CharIs
  <2> QED BY <2>1, <2>2
<1>3. \E n \in S : \A m \in S : n <= m
  <2>1. S \subseteq Nat
    BY <1>1
  <2>2. S # {}
    BY <1>2
  <2> HIDE DEF S
  <2> QED BY <2>1, <2>2, LeastNat
<1>4. PICK n \in S : \A m \in S : n <= m
  BY <1>3
<1>5. n \in 0..(Len(path) - i) /\ ends(n)
  <2>1. ASSUME NEW k \in 0..(n - 1) PROVE Char(i + k) \notin {NUL, "/"}
    <3>1. k \in 0..(Len(path) - i) /\ ~(n <= k)
      BY <1>1
    <3> QED BY <1>4, <3>1
  <2> QED BY <2>1
<1>6. NameLen(i) = CHOOSE m \in 0..(Len(path) - i) : ends(m)
  BY DEF NameLen
<1> HIDE DEF ends
<1>7. NameLen(i) \in 0..(Len(path) - i) /\ ends(NameLen(i))
  BY <1>5, <1>6
<1>8. ASSUME NEW k \in 1..NameLen(i) PROVE path[i + k] # "/"
  <2>1. /\ k - 1 \in 0..(NameLen(i) - 1) /\ i + (k - 1) \in 0..Len(path) /\ i + (k - 1) < Len(path)
        /\ (i + (k - 1)) + 1 = i + k
    BY <1>1, <1>7
  <2>2. Char(i + (k - 1)) = path[i + k]
    BY <2>1, CharIs
  <2> QED BY <1>7, <2>1, <2>2 DEF ends
<1> QED BY <1>7, <1>8 DEF ends

(***************************************************************************)
(* The inductive invariant.                                                *)
(***************************************************************************)
\* A name begins at an offset, after those of l.
BeginsName(i, l) == i \in Start(path)..Len(path) /\ Cut(path, i) = Append(l, <<>>)

\* The names of the parent end at the cursor.
CursorAtEnd ==
  \/ ptr = 0 /\ parent = <<>>
  \/ /\ ptr \in 1..Len(path) /\ Char(ptr) \in {NUL, "/"}
     /\ parent = Cut(path, ptr)

\* What Check lets through.
Unslashed == path # <<>> => path[Len(path)] # "/"

WalkInv ==
  /\ path \in PathStrings /\ op \in {"get", "create"} /\ tree \in Trees
  /\ parent \in Seq(Words)
  /\ pc \in {"check", "resolve", "create", "none", "file", "fault"}
  /\ dirs = tree \cup Prefixes(parent)
  /\ pc = "check" => ptr = 0 /\ parent = <<>>
  /\ pc = "resolve" => Prefixes(parent) \subseteq tree /\ Unslashed /\ CursorAtEnd
  /\ pc = "create" => /\ op = "create" /\ path # <<>> /\ Unslashed
                      /\ BeginsName(remaining, parent)
                      /\ ~Consumed(tree, Components(path))
  /\ GetAgrees /\ CreateAgrees

\* The name that begins at an offset is the next component.
LEMMA NameIs ==
  ASSUME path \in Seq(Chars), path # <<>>, NEW i, NEW l \in Seq(Words), BeginsName(i, l)
  PROVE  LET end   == i + NameLen(i)
             child == Append(l, NameAt(i))
             names == Components(path)
         IN  /\ i \in Nat /\ end \in i..Len(path) /\ Char(end) \in {NUL, "/"}
             /\ NameAt(i) \in Words /\ child \in Seq(Words) /\ Cut(path, end) = child
             /\ SubSeq(names, 1, Len(l) + 1) = child /\ Len(names) >= Len(l) + 1
             /\ end = Len(path) => names = child
             /\ end < Len(path) => Len(names) > Len(l) + 1
<1> DEFINE n == NameLen(i)
           end == i + n
           child == Append(l, NameAt(i))
           names == Components(path)
<1>1. Len(path) \in Nat /\ Start(path) \in 0..Len(path) /\ i \in Start(path)..Len(path) /\ i \in 0..Len(path)
  BY BodyIs DEF BeginsName
<1>2. /\ n \in 0..(Len(path) - i) /\ Char(end) \in {NUL, "/"}
      /\ \A k \in 1..n : path[i + k] # "/"
  BY <1>1, NameLenIs
<1> HIDE DEF n
<1>3. SubSeq(path, i + 1, i + n) \in Words /\ Cut(path, i + n) = Append(l, SubSeq(path, i + 1, i + n))
  BY <1>1, <1>2, CutName DEF BeginsName
<1>4. NameAt(i) = SubSeq(path, i + 1, i + n)
  BY DEF NameAt, n
<1>5. NameAt(i) \in Words /\ Cut(path, end) = child
  BY <1>3, <1>4
<1>6. end \in i..Len(path) /\ end \in Start(path)..Len(path) /\ end \in 0..Len(path) /\ i \in Nat
  BY <1>1, <1>2
<1>7. end < Len(path) => path[end + 1] = "/"
  BY <1>2, <1>6, CharIs
<1> HIDE DEF end
<1>8. child \in Seq(Words) /\ Len(child) = Len(l) + 1
  <2> DEFINE word == NameAt(i)
  <2>1. word \in Words
    BY <1>5
  <2> HIDE DEF word, Words
  <2>2. Append(l, word) \in Seq(Words) /\ Len(Append(l, word)) = Len(l) + 1
    BY <2>1, AppendProperties
  <2> QED BY <2>2 DEF word
<1>9. names = Cut(path, Len(path)) /\ Len(names) \in Nat /\ Len(l) \in Nat
  BY ComponentsEnd, LenProperties
<1> HIDE DEF child
<1>10. /\ Len(child) <= Len(Cut(path, Len(path)))
       /\ end < Len(path) => Len(child) < Len(Cut(path, Len(path)))
       /\ SubSeq(Cut(path, Len(path)), 1, Len(child)) = child
  BY <1>5, <1>6, <1>7, CutWhole
<1> HIDE DEF names
<1>11. /\ SubSeq(names, 1, Len(l) + 1) = child /\ Len(names) >= Len(l) + 1
       /\ end = Len(path) => names = child
       /\ end < Len(path) => Len(names) > Len(l) + 1
  BY <1>5, <1>8, <1>9, <1>10
<1> QED BY <1>2, <1>5, <1>6, <1>8, <1>11 DEF end, child, names, n

\* Resolved is the length of the longest prefix that is a chain of directories.
LEMMA ResolvedIs ==
  ASSUME NEW D, NEW names \in Seq(Words), NEW n \in 0..Len(names),
         \A k \in 0..n : SubSeq(names, 1, k) \in D,
         n < Len(names) => SubSeq(names, 1, n + 1) \notin D
  PROVE  Resolved(D, names) = n
<1> DEFINE stops(k) == /\ \A i \in 0..k : SubSeq(names, 1, i) \in D
                       /\ k < Len(names) => SubSeq(names, 1, k + 1) \notin D
<1>1. Len(names) \in Nat
  BY LenProperties
<1>2. stops(n)
  OBVIOUS
<1>3. ASSUME NEW k \in 0..Len(names), stops(k) PROVE k = n
  <2>1. CASE k < n
    <3>1. k + 1 \in 0..n /\ k < Len(names)
      BY <1>1, <2>1
    <3> QED BY <1>2, <1>3, <3>1
  <2>2. CASE n < k
    <3>1. n + 1 \in 0..k /\ n < Len(names)
      BY <1>1, <2>2
    <3> QED BY <1>2, <1>3, <3>1
  <2> QED BY <1>1, <2>1, <2>2
<1>4. Resolved(D, names) = CHOOSE k \in 0..Len(names) : stops(k)
  BY DEF Resolved
<1> HIDE DEF stops
<1> QED BY <1>2, <1>3, <1>4

\* In a tree whose directories reach down to l, with a name after it: the name
\* is a directory, or the resolution ends at l.
LEMMA ResolvedBefore ==
  ASSUME NEW D, NEW names \in Seq(Words), NEW l \in Seq(Words), NEW word \in Words,
         Prefixes(l) \subseteq D, Append(l, word) \notin D,
         Len(names) >= Len(l) + 1, SubSeq(names, 1, Len(l) + 1) = Append(l, word)
  PROVE  Resolved(D, names) = Len(l)
<1> DEFINE child == Append(l, word)
<1>1. Len(names) \in Nat /\ Len(l) \in Nat
  BY LenProperties
<1>2. ASSUME NEW k \in 0..Len(l) PROVE SubSeq(names, 1, k) \in D
  <2> DEFINE q == SubSeq(names, 1, k)
             r == SubSeq(l, 1, k)
  <2>1. k \in 0..Len(names) /\ Len(l) + 1 \in 0..Len(names)
    BY <1>1
  <2>2. /\ q \in Seq(Words) /\ Len(q) = k /\ \A j \in 1..k : q[j] = names[j]
        /\ r \in Seq(Words) /\ Len(r) = k /\ \A j \in 1..k : r[j] = l[j]
    BY <2>1, PrefixIs
  <2>3. \A j \in 1..(Len(l) + 1) : child[j] = names[j]
    BY <2>1, PrefixIs
  <2>4. \A j \in 1..Len(l) : child[j] = l[j]
    BY AppendProperties
  <2> HIDE DEF q, r, child
  <2>5. ASSUME NEW j \in 1..k PROVE q[j] = r[j]
    <3>1. j \in 1..Len(l) /\ j \in 1..(Len(l) + 1)
      BY <1>1
    <3>2. child[j] = names[j] /\ child[j] = l[j]
      BY <2>3, <2>4, <3>1
    <3> QED BY <2>2, <3>2
  <2>6. q = r
    BY <2>2, <2>5, SeqEqual
  <2> QED BY <2>6 DEF q, r, Prefixes
<1>3. Len(l) \in 0..Len(names) /\ Len(l) < Len(names)
  BY <1>1
<1> QED BY <1>2, <1>3, ResolvedIs

(***************************************************************************)
(* The invariant holds at the start and each step keeps it.                *)
(***************************************************************************)
LEMMA EmptyPrefixes == Prefixes(<<>>) = {<<>>}
<1>1. Len(<<>>) = 0 /\ 0..0 = {0} /\ SubSeq(<<>>, 1, 0) = <<>>
  BY EmptySeq, SubSeqEmpty
<1> QED BY <1>1 DEF Prefixes

LEMMA PathIs ==
  ASSUME WalkInv
  PROVE  path \in Seq(Chars) /\ IsTree(tree) /\ <<>> \in tree
BY PathAssumption DEF WalkInv, IsTree

LEMMA WalkStarts == Init => WalkInv
<1> SUFFICES ASSUME Init PROVE WalkInv
  OBVIOUS
<1>1. <<>> \in tree /\ Prefixes(<<>>) = {<<>>} /\ <<>> \in Seq(Words)
  BY EmptyPrefixes, EmptySeq, PathAssumption DEF Init, IsTree
<1>2. ~Ended
  BY DEF Init, Ended
<1>3. dirs = tree \cup Prefixes(parent)
  BY <1>1 DEF Init
<1> QED BY <1>1, <1>2, <1>3 DEF Init, WalkInv, GetAgrees, CreateAgrees

LEMMA CheckKeeps ==
  ASSUME WalkInv, Check
  PROVE  WalkInv'
<1> DEFINE names == Components(path)
<1>1. /\ path \in Seq(Chars) /\ <<>> \in tree /\ Prefixes(<<>>) = {<<>>}
      /\ parent = <<>> /\ ptr = 0
  BY PathIs, EmptyPrefixes DEF Check, WalkInv
<1>2. dirs = tree
  BY <1>1 DEF WalkInv
<1>3. UNCHANGED <<path, op, tree, dirs, parent, ptr, remaining, name>> /\ pc' \in {"none", "resolve"}
  BY DEF Check
<1>4. path # <<>> => /\ Components(path) # <<>>
                     /\ pc' = "none" <=> EndsInSlash(Components(path))
                     /\ pc' = "none" <=> path[Len(path)] = "/"
  <2> SUFFICES ASSUME path # <<>>
               PROVE  /\ Components(path) # <<>>
                      /\ pc' = "none" <=> EndsInSlash(Components(path))
                      /\ pc' = "none" <=> path[Len(path)] = "/"
    OBVIOUS
  <2>1. Len(path) \in Nat \ {0}
    BY <1>1, EmptySeq
  <2>2. Len(path) - 1 \in 0..Len(path) /\ Len(path) - 1 < Len(path) /\ (Len(path) - 1) + 1 = Len(path)
    BY <2>1
  <2>3. Char(Len(path) - 1) = path[Len(path)]
    BY <1>1, <2>2, CharIs
  <2> QED BY <1>1, <2>3, ComponentsEnd DEF Check
<1>5. path = <<>> => Components(path) = <<>>
  BY DEF Components
<1>6. CASE pc' = "resolve"
  <2>1. Unslashed'
    BY <1>3, <1>4, <1>6 DEF Unslashed
  <2>2. CursorAtEnd'
    BY <1>1, <1>3 DEF CursorAtEnd
  <2>3. ~Ended'
    BY <1>6 DEF Ended
  <2> QED BY <1>1, <1>3, <1>6, <2>1, <2>2, <2>3 DEF WalkInv, GetAgrees, CreateAgrees
<1>7. CASE pc' = "none"
  <2>1. names = <<>> \/ EndsInSlash(names)
    BY <1>4, <1>5, <1>7
  <2>2. GetAgrees'
    BY <1>3, <1>7, <2>1 DEF GetAgrees, LeavesFileName
  <2>3. CreateAgrees'
    BY <1>2, <1>3, <1>4, <1>7, <2>1 DEF CreateAgrees
  <2> QED BY <1>1, <1>3, <1>7, <2>2, <2>3 DEF WalkInv
<1> QED BY <1>3, <1>6, <1>7

\* Where ProcPathResolve stands: at the end of the path, or before a name.
LEMMA ResolveAt ==
  ASSUME WalkInv, pc = "resolve"
  PROVE  LET at == IF Char(ptr) = "/" THEN ptr + 1 ELSE ptr
         IN  /\ ptr \in 0..Len(path)
             /\ ptr # 0 => Char(ptr) \in {NUL, "/"}
             /\ Char(ptr) = NUL => parent = Components(path)
             /\ Char(ptr) # NUL =>
                  /\ path # <<>> /\ BeginsName(at, parent) /\ at \in Nat /\ Char(at) # NUL
                  /\ ptr < at + NameLen(at) /\ at + NameLen(at) <= Len(path)
<1> DEFINE at == IF Char(ptr) = "/" THEN ptr + 1 ELSE ptr
<1>1. path \in Seq(Chars) /\ CursorAtEnd /\ Unslashed /\ parent \in Seq(Words)
  BY PathIs DEF WalkInv
<1>2. /\ Len(path) \in Nat /\ Start(path) \in 0..Len(path)
      /\ Start(path) = IF path # <<>> /\ path[1] = "/" THEN 1 ELSE 0
      /\ Start(path) <= 1
  <2>1. /\ Len(path) \in Nat /\ Start(path) \in 0..Len(path)
        /\ Start(path) = IF path # <<>> /\ path[1] = "/" THEN 1 ELSE 0
    BY <1>1, BodyIs
  <2>2. Start(path) \in {0, 1}
    BY <2>1
  <2> QED BY <2>1, <2>2
<1>3. ptr \in 0..Len(path) /\ (ptr # 0 => Char(ptr) \in {NUL, "/"})
  BY <1>1, <1>2 DEF CursorAtEnd
<1>4. Char(ptr) = NUL <=> ptr = Len(path)
  BY <1>1, <1>3, CharIs
<1>5. ptr < Len(path) => Char(ptr) = path[ptr + 1]
  BY <1>1, <1>3, CharIs
<1>6. path = <<>> <=> Len(path) = 0
  BY <1>1, EmptySeq
<1>7. Char(ptr) = NUL => parent = Components(path)
  <2> SUFFICES ASSUME Char(ptr) = NUL PROVE parent = Components(path)
    OBVIOUS
  <2>1. ptr = Len(path)
    BY <1>4
  <2>2. CASE path = <<>>
    <3>1. ptr = 0
      BY <1>6, <2>1, <2>2
    <3>2. ~(ptr \in 1..Len(path))
      BY <1>2, <3>1
    <3>3. parent = <<>>
      BY <1>1, <3>2 DEF CursorAtEnd
    <3> QED BY <2>2, <3>3 DEF Components
  <2>3. CASE path # <<>>
    <3>1. ptr # 0
      BY <1>6, <2>1, <2>3
    <3>2. parent = Cut(path, Len(path))
      BY <1>1, <2>1, <3>1 DEF CursorAtEnd
    <3> QED BY <1>1, <2>3, <3>2, ComponentsEnd
  <2> QED BY <2>2, <2>3
<1>8. Char(ptr) # NUL =>
        /\ path # <<>> /\ BeginsName(at, parent) /\ at \in Nat /\ Char(at) # NUL
        /\ ptr < at + NameLen(at) /\ at + NameLen(at) <= Len(path)
  <2> SUFFICES ASSUME Char(ptr) # NUL
               PROVE  /\ path # <<>> /\ BeginsName(at, parent) /\ at \in Nat /\ Char(at) # NUL
                      /\ ptr < at + NameLen(at) /\ at + NameLen(at) <= Len(path)
    OBVIOUS
  <2>1. ptr < Len(path) /\ path # <<>> /\ Char(ptr) = path[ptr + 1]
    BY <1>2, <1>3, <1>4, <1>5, <1>6
  <2>2. at \in ptr..(ptr + 1) /\ at \in 0..Len(path)
    BY <1>2, <1>3, <2>1
  <2>3. BeginsName(at, parent)
    <3>1. CASE ptr = 0 /\ parent = <<>>
      <4>1. at = Start(path)
        BY <1>2, <2>1, <3>1
      <4>2. Cut(path, Start(path)) = << <<>> >> /\ Append(<<>>, <<>>) = << <<>> >>
        BY <1>1, CutIs
      <4> QED BY <1>2, <3>1, <4>1, <4>2 DEF BeginsName
    <3>2. CASE ptr \in 1..Len(path) /\ Char(ptr) \in {NUL, "/"} /\ parent = Cut(path, ptr)
      <4>1. Char(ptr) = "/" /\ at = ptr + 1 /\ path[ptr + 1] = "/"
        BY <2>1, <3>2
      <4>2. ptr \in Start(path)..(Len(path) - 1) /\ ptr + 1 \in Start(path)..Len(path)
        BY <1>2, <1>3, <2>1, <3>2
      <4>3. Cut(path, ptr + 1) = Append(parent, <<>>)
        BY <1>1, <3>2, <4>1, <4>2, CutStep
      <4> QED BY <4>1, <4>2, <4>3 DEF BeginsName
    <3> QED BY <1>1, <3>1, <3>2 DEF CursorAtEnd
  <2>4. Char(at) # NUL
    <3>1. CASE at = ptr
      BY <3>1
    <3>2. CASE at = ptr + 1
      <4>1. path[at] = "/"
        BY <1>3, <2>1, <3>2
      <4>2. at # Len(path)
        BY <1>1, <2>1, <4>1 DEF Unslashed
      <4> QED BY <1>1, <2>2, <4>2, CharIs
    <3> QED BY <3>1, <3>2
  <2>5. at \in Nat /\ at + NameLen(at) \in at..Len(path) /\ Char(at + NameLen(at)) \in {NUL, "/"}
    BY <1>1, <2>1, <2>3, NameIs
  <2>6. ptr # at + NameLen(at)
    <3> SUFFICES ASSUME ptr = at + NameLen(at) PROVE FALSE
      OBVIOUS
    <3>1. ptr = at /\ Char(ptr) \in {NUL, "/"}
      BY <1>2, <1>3, <2>2, <2>5
    <3>2. Char(ptr) = "/"
      BY <3>1
    <3> QED BY <1>3, <3>1, <3>2
  <2> HIDE DEF at
  <2>7. ptr < at + NameLen(at) /\ at + NameLen(at) <= Len(path)
    BY <1>2, <1>3, <2>2, <2>5, <2>6
  <2> QED BY <2>1, <2>3, <2>4, <2>5, <2>7
<1> QED BY <1>3, <1>7, <1>8

\* A path whose names are all directories is consumed; what is left is not empty.
LEMMA ConsumedIs ==
  ASSUME path \in Seq(Chars), Unslashed, NEW D, <<>> \in D, Prefixes(Components(path)) \subseteq D
  PROVE  /\ Resolved(D, Components(path)) = Len(Components(path))
         /\ Consumed(D, Components(path)) /\ ~EndsInSlash(Components(path))
<1> DEFINE names == Components(path)
<1>1. names \in Seq(Words) /\ ~EndsInSlash(names)
  <2>1. CASE path = <<>>
    <3>1. names = <<>>
      BY <2>1 DEF Components
    <3> QED BY <3>1, EmptySeq DEF EndsInSlash
  <2>2. CASE path # <<>>
    BY <2>2, ComponentsEnd DEF Unslashed
  <2> QED BY <2>1, <2>2
<1>2. \A k \in 0..Len(names) : SubSeq(names, 1, k) \in D
  BY DEF Prefixes
<1> HIDE DEF names
<1>3. Len(names) \in 0..Len(names) /\ ~(Len(names) < Len(names))
  BY <1>1, LenProperties
<1>4. Resolved(D, names) = Len(names)
  BY <1>1, <1>2, <1>3, ResolvedIs
<1> QED BY <1>1, <1>4 DEF Consumed, names

LEMMA ResolveKeeps ==
  ASSUME WalkInv, Resolve
  PROVE  /\ WalkInv'
         /\ pc' # "check"
         /\ pc' = "resolve" => ptr < ptr' /\ ptr' <= Len(path)
<1> DEFINE at == IF Char(ptr) = "/" THEN ptr + 1 ELSE ptr
           stuck == Char(ptr) \notin {NUL, "/"} /\ ptr # 0
           child == Append(parent, NameAt(at))
           end == at + NameLen(at)
           names == Components(path)
<1>1. /\ pc = "resolve" /\ path \in PathStrings /\ path \in Seq(Chars) /\ op \in {"get", "create"}
      /\ tree \in Trees /\ <<>> \in tree /\ parent \in Seq(Words)
      /\ Prefixes(parent) \subseteq tree /\ dirs = tree /\ Unslashed
  BY PathIs DEF WalkInv, Resolve
<1>2. /\ ptr \in 0..Len(path)
      /\ ~stuck
      /\ Char(ptr) = NUL => parent = names
      /\ Char(ptr) # NUL =>
           /\ path # <<>> /\ BeginsName(at, parent) /\ at \in Nat /\ Char(at) # NUL
           /\ ptr < end /\ end <= Len(path)
  BY <1>1, ResolveAt
<1>3. UNCHANGED <<path, op, tree, dirs>>
  BY DEF Resolve
<1>4. \/ Char(ptr) = NUL /\ Leave(NULL)
      \/ /\ Char(ptr) # NUL /\ child \in dirs
         /\ parent' = child /\ ptr' = end
         /\ UNCHANGED <<remaining, pc, name>>
      \/ Char(ptr) # NUL /\ child \notin dirs /\ Leave(at)
  BY <1>2 DEF Resolve
<1>5. Char(ptr) # NUL =>
        /\ end \in at..Len(path) /\ Char(end) \in {NUL, "/"}
        /\ NameAt(at) \in Words /\ child \in Seq(Words) /\ Cut(path, end) = child
        /\ SubSeq(names, 1, Len(parent) + 1) = child /\ Len(names) >= Len(parent) + 1
        /\ end = Len(path) => names = child
        /\ end < Len(path) => Len(names) > Len(parent) + 1
  <2> HIDE DEF at
  <2> QED BY <1>1, <1>2, NameIs
<1>6. CASE Char(ptr) = NUL /\ Leave(NULL)
  <2> HIDE DEF names, at, stuck
  <2>1. /\ Resolved(tree, names) = Len(names) /\ Consumed(tree, names) /\ ~EndsInSlash(names)
    BY <1>1, <1>2, <1>6, ConsumedIs DEF names
  <2>2. parent' = parent /\ pc' = IF op = "create" THEN "fault" ELSE "none"
    <3>1. parent' = parent /\ pc' = Resume(NULL)
      BY <1>6 DEF Leave
    <3>2. Resume(NULL) = IF op = "create" THEN "fault" ELSE "none"
      BY <1>1 DEF Resume
    <3> QED BY <3>1, <3>2
  <2>3. names' = names
    BY <1>3 DEF names
  <2>4. Len(names) \in Nat
    BY <1>1, <1>2, <1>6, LenProperties
  <2>5. GetAgrees'
    <3>1. ~LeavesFileName(tree, names)
      BY <2>1, <2>4 DEF LeavesFileName
    <3>2. pc' # "file" /\ tree' = tree
      BY <1>3, <2>2
    <3>3. ~LeavesFileName(tree, names)'
      BY <2>3, <3>1, <3>2 DEF LeavesFileName, EndsInSlash
    <3> QED BY <3>2, <3>3 DEF GetAgrees, names
  <2>6. CreateAgrees'
    BY <1>1, <1>3, <2>1, <2>2, <2>3 DEF CreateAgrees, names
  <2>7. pc' \in {"none", "fault"} /\ dirs' = tree' \cup Prefixes(parent')
    BY <1>1, <1>3, <2>2
  <2> QED BY <1>1, <1>3, <2>2, <2>5, <2>6, <2>7 DEF WalkInv
<1>7. CASE /\ Char(ptr) # NUL /\ child \in dirs
           /\ parent' = child /\ ptr' = end
           /\ UNCHANGED <<remaining, pc, name>>
  <2>1. Prefixes(child) = Prefixes(parent) \cup {child}
    <3> DEFINE word == NameAt(at)
    <3>1. word \in Words /\ parent \in Seq(Words)
      BY <1>1, <1>5, <1>7
    <3> HIDE DEF word, Words
    <3> QED BY <3>1, PrefixesOfAppend DEF Prefixes, word
  <2> HIDE DEF child, end, names, at, stuck
  <2>2. Prefixes(parent') \subseteq tree'
    BY <1>1, <1>3, <1>7, <2>1
  <2>3. ptr' \in 1..Len(path') /\ ptr < ptr' /\ ptr' <= Len(path)
    <3>1. Len(path) \in Nat
      BY <1>1, LenProperties
    <3> QED BY <1>2, <1>3, <1>5, <1>7, <3>1
  <2>4. CursorAtEnd'
    BY <1>3, <1>5, <1>7, <2>3 DEF CursorAtEnd, Char
  <2>5. dirs' = tree' \cup Prefixes(parent') /\ pc' = "resolve" /\ parent' \in Seq(Words)
    BY <1>1, <1>3, <1>5, <1>7, <2>2
  <2>6. Unslashed' /\ ~Ended'
    BY <1>1, <1>3, <2>5 DEF Unslashed, Ended
  <2> QED BY <1>1, <1>3, <2>2, <2>3, <2>4, <2>5, <2>6 DEF WalkInv, GetAgrees, CreateAgrees
<1>8. CASE Char(ptr) # NUL /\ child \notin dirs /\ Leave(at)
  <2>1. Resolved(tree, names) = Len(parent)
    <3> DEFINE word == NameAt(at)
    <3>1. word \in Words /\ Append(parent, word) \notin tree
      BY <1>1, <1>5, <1>8
    <3>2. Len(names) >= Len(parent) + 1 /\ SubSeq(names, 1, Len(parent) + 1) = Append(parent, word)
      BY <1>5, <1>8
    <3>3. names \in Seq(Words)
      BY <1>1, <1>2, <1>8, ComponentsEnd
    <3> HIDE DEF word, names
    <3> QED BY <1>1, <3>1, <3>2, <3>3, ResolvedBefore
  <2> HIDE DEF child, names, at, stuck
  <2>2. names \in Seq(Words) /\ names # <<>> /\ ~EndsInSlash(names) /\ Len(names) \in Nat /\ Len(parent) \in Nat
    <3>1. names \in Seq(Words) /\ names # <<>> /\ ~EndsInSlash(names)
      BY <1>1, <1>2, <1>8, ComponentsEnd DEF names, Unslashed
    <3> QED BY <1>1, <3>1, LenProperties
  <2>3. ~Consumed(tree, names)
    BY <1>5, <1>8, <2>1, <2>2 DEF Consumed
  <2>4. parent' = parent /\ ptr' = ptr /\ remaining' = at
    BY <1>8 DEF Leave
  <2>5. /\ pc' = Resume(at)
        /\ pc' = "file" => name' = SubSeq(path, at + 1, Len(path))
    BY <1>8 DEF Leave
  <2>6. at # NULL /\ Char(at) # NUL
    BY <1>2, <1>8 DEF NULL
  <2>7. dirs' = tree' \cup Prefixes(parent') /\ names' = names
    BY <1>1, <1>3, <2>4 DEF names
  <2>8. CASE op = "create"
    <3>1. pc' = "create"
      <4>1. Resume(at) = "create"
        BY <2>6, <2>8 DEF Resume
      <4> QED BY <2>5, <4>1
    <3>2. BeginsName(remaining, parent)'
      BY <1>2, <1>3, <1>8, <2>4 DEF BeginsName
    <3>3. Unslashed' /\ ~Ended'
      BY <1>1, <1>3, <3>1 DEF Unslashed, Ended
    <3>4. ~Consumed(tree', names')
      BY <1>3, <2>3, <2>7
    <3> QED BY <1>1, <1>2, <1>3, <1>8, <2>4, <2>7, <2>8, <3>1, <3>2, <3>3, <3>4
            DEF WalkInv, GetAgrees, CreateAgrees, names
  <2>9. CASE op = "get"
    <3>1. pc' = IF \E i \in at..(Len(path) - 1) : Char(i) = "/" THEN "none" ELSE "file"
      BY <2>5, <2>6, <2>9 DEF Resume
    <3>2. Len(path) \in Nat /\ at \in Nat /\ end \in at..Len(path) /\ at \in 0..Len(path)
      BY <1>1, <1>2, <1>5, <1>8, LenProperties
    <3>3. CASE end < Len(path)
      <4>1. end \in at..(Len(path) - 1) /\ end \in 0..Len(path)
        BY <3>2, <3>3
      <4>2. Char(end) = "/"
        BY <1>1, <1>5, <1>8, <3>3, <4>1, CharIs
      <4>3. pc' = "none"
        BY <3>1, <4>1, <4>2
      <4>4. ~LeavesFileName(tree, names)
        BY <1>5, <1>8, <2>1, <2>2, <3>3 DEF LeavesFileName
      <4> QED BY <1>1, <1>3, <2>4, <2>7, <2>9, <4>3, <4>4 DEF WalkInv, GetAgrees, CreateAgrees, names
    <3>4. CASE end = Len(path)
      <4>1. ASSUME NEW i \in at..(Len(path) - 1) PROVE Char(i) # "/"
        <5>1. /\ i \in 0..Len(path) /\ i < Len(path) /\ (i - at) + 1 \in 1..NameLen(at)
              /\ at + ((i - at) + 1) = i + 1
          <6>1. NameLen(at) \in 0..(Len(path) - at)
            BY <1>1, <3>2, NameLenIs
          <6> QED BY <3>2, <3>4, <6>1
        <5>2. path[i + 1] # "/"
          BY <1>1, <3>2, <5>1, NameLenIs
        <5> QED BY <1>1, <5>1, <5>2, CharIs
      <4>2. pc' = "file"
        BY <3>1, <4>1
      <4>3. LeavesFileName(tree, names)
        <5>1. names = child /\ Len(names) = Len(parent) + 1
          <6> DEFINE word == NameAt(at)
          <6>1. word \in Words /\ names = Append(parent, word)
            BY <1>5, <1>8, <3>4 DEF child
          <6> HIDE DEF word, Words
          <6>2. Len(Append(parent, word)) = Len(parent) + 1
            BY <1>1, <6>1, AppendProperties
          <6> QED BY <6>1, <6>2 DEF child, word
        <5> QED BY <2>1, <2>2, <5>1 DEF LeavesFileName
      <4>4. name' = NameAt(at)
        BY <2>5, <3>4, <4>2 DEF NameAt
      <4>5. Append(parent', name') = names'
        BY <1>5, <1>8, <2>4, <2>7, <3>4, <4>4 DEF child
      <4>6. LeavesFileName(tree', names')
        BY <1>3, <2>7, <4>3
      <4> QED BY <1>1, <1>3, <2>4, <2>7, <2>9, <4>2, <4>5, <4>6 DEF WalkInv, GetAgrees, CreateAgrees, names
    <3> QED BY <3>2, <3>3, <3>4
  <2>10. pc' # "check" /\ pc' # "resolve"
    BY <2>5 DEF Resume
  <2> QED BY <1>1, <2>8, <2>9, <2>10
<1>9. pc' # "check" /\ (pc' = "resolve" => ptr < ptr' /\ ptr' <= Len(path))
  <2>1. ASSUME NEW rest, Leave(rest) PROVE pc' # "check" /\ pc' # "resolve"
    BY <2>1 DEF Leave, Resume
  <2>2. CASE Char(ptr) # NUL /\ ptr' = end /\ pc' = pc
    BY <1>1, <1>2, <2>2
  <2> QED BY <1>4, <2>1, <2>2
<1> QED BY <1>4, <1>6, <1>7, <1>8, <1>9

LEMMA CreateKeeps ==
  ASSUME WalkInv, Create
  PROVE  /\ WalkInv'
         /\ pc' \in {"create", "file"}
         /\ pc' = "create" => remaining < remaining' /\ remaining' <= Len(path)
<1> DEFINE word == NameAt(remaining)
           child == Append(parent, word)
           end == remaining + NameLen(remaining)
           names == Components(path)
<1>1. /\ pc = "create" /\ path \in PathStrings /\ path \in Seq(Chars) /\ path # <<>> /\ op = "create"
      /\ tree \in Trees /\ parent \in Seq(Words)
      /\ dirs = tree \cup Prefixes(parent) /\ Unslashed
      /\ BeginsName(remaining, parent) /\ ~Consumed(tree, names)
  BY PathIs DEF WalkInv, Create
<1>2. /\ remaining \in Nat /\ end \in remaining..Len(path) /\ Char(end) \in {NUL, "/"}
      /\ word \in Words /\ child \in Seq(Words) /\ Cut(path, end) = child
      /\ end = Len(path) => names = child
  BY <1>1, NameIs
<1>3. UNCHANGED <<path, op, tree, ptr>>
  BY DEF Create
<1>4. Len(path) \in Nat /\ Len(parent) \in Nat /\ Start(path) \in 0..Len(path) /\ end \in 0..Len(path)
  BY <1>1, <1>2, BodyIs, LenProperties
<1>5. names \in Seq(Words) /\ names # <<>> /\ ~EndsInSlash(names)
  BY <1>1, ComponentsEnd DEF Unslashed
<1>6. names' = names
  BY <1>3
<1>7. \/ /\ Char(end) = NUL
         /\ pc' = "file" /\ name' = word
         /\ UNCHANGED <<dirs, parent, remaining>>
      \/ /\ Char(end) = "/"
         /\ parent' = child
         /\ dirs' = dirs \cup {parent'}
         /\ remaining' = end + 1
         /\ UNCHANGED <<pc, name>>
  BY DEF Create
<1> HIDE DEF word
<1>8. /\ Len(child) = Len(parent) + 1
      /\ Prefixes(child) = Prefixes(parent) \cup {child}
      /\ \A k \in 0..Len(parent) : SubSeq(child, 1, k) = SubSeq(parent, 1, k)
  <2> HIDE DEF Words
  <2>1. word \in Words /\ parent \in Seq(Words)
    BY <1>1, <1>2
  <2>2. Len(child) = Len(parent) + 1
    BY <2>1, AppendProperties
  <2>3. Prefixes(child) = Prefixes(parent) \cup {child}
    BY <2>1, PrefixesOfAppend DEF Prefixes
  <2>4. \A k \in 0..Len(parent) : SubSeq(child, 1, k) = SubSeq(parent, 1, k)
    BY <2>1, PrefixOfAppend
  <2> QED BY <2>2, <2>3, <2>4
<1> HIDE DEF child, end, names
<1>9. CASE /\ Char(end) = NUL
           /\ pc' = "file" /\ name' = word
           /\ UNCHANGED <<dirs, parent, remaining>>
  <2>1. names = child
    BY <1>1, <1>2, <1>4, <1>9, CharIs
  <2>2. WithParents(tree, names) = tree \cup Prefixes(parent)
    <3>1. 0..(Len(names) - 1) = 0..Len(parent)
      BY <1>4, <1>8, <2>1
    <3> QED BY <1>8, <2>1, <3>1 DEF WithParents, Prefixes
  <2>3. Append(parent', name') = names'
    BY <1>6, <1>9, <2>1 DEF child
  <2>4. /\ WithParents(tree', names') = dirs' /\ ~Consumed(tree', names')
        /\ names' # <<>> /\ ~EndsInSlash(names')
    BY <1>1, <1>3, <1>5, <1>6, <1>9, <2>2
  <2>5. CreateAgrees'
    BY <1>9, <2>3, <2>4 DEF CreateAgrees, names
  <2>6. GetAgrees' /\ op' = "create"
    BY <1>1, <1>3 DEF GetAgrees
  <2> QED BY <1>1, <1>3, <1>9, <2>5, <2>6 DEF WalkInv
<1>10. CASE /\ Char(end) = "/"
            /\ parent' = child
            /\ dirs' = dirs \cup {parent'}
            /\ remaining' = end + 1
            /\ UNCHANGED <<pc, name>>
  <2>1. end < Len(path) /\ path[end + 1] = "/"
    <3>1. Char(end) # NUL
      BY <1>10 DEF NUL
    <3>2. end # Len(path)
      BY <1>1, <1>4, <3>1, CharIs
    <3> QED BY <1>1, <1>4, <1>10, <3>2, CharIs
  <2>2. end \in Start(path)..(Len(path) - 1) /\ end + 1 \in Start(path)..Len(path)
    BY <1>1, <1>2, <1>4, <2>1 DEF BeginsName
  <2>3. Cut(path, end + 1) = Append(child, <<>>)
    BY <1>1, <1>2, <2>1, <2>2, CutStep
  <2>4. BeginsName(remaining, parent)'
    BY <1>3, <1>10, <2>2, <2>3 DEF BeginsName
  <2>5. dirs' = tree' \cup Prefixes(parent')
    BY <1>1, <1>3, <1>8, <1>10
  <2>6. pc' = "create" /\ ~Ended' /\ Unslashed'
    BY <1>1, <1>3, <1>10 DEF Ended, Unslashed
  <2>7. ~Consumed(tree', names')
    BY <1>1, <1>3, <1>6
  <2>8. remaining < remaining' /\ remaining' <= Len(path)
    BY <1>2, <1>4, <1>10, <2>1
  <2> QED BY <1>1, <1>2, <1>3, <1>10, <2>4, <2>5, <2>6, <2>7, <2>8
          DEF WalkInv, GetAgrees, CreateAgrees, names
<1> QED BY <1>7, <1>9, <1>10

LEMMA StutterKeeps ==
  ASSUME WalkInv, UNCHANGED vars
  PROVE  WalkInv'
BY DEF vars, WalkInv, CursorAtEnd, Unslashed, BeginsName, Char, GetAgrees, CreateAgrees, Ended

(***************************************************************************)
(* The theorems.                                                           *)
(***************************************************************************)
\* The invariant of the walk: the parent is the directory of the names before
\* the cursor, and the directories made are those that lead to it.
THEOREM WalkInductive == Spec => []WalkInv
<1>1. WalkInv /\ [Next]_vars => WalkInv'
  BY CheckKeeps, ResolveKeeps, CreateKeeps, StutterKeeps DEF Next
<1> QED BY <1>1, WalkStarts, PTL DEF Spec

\* proc.c:186-244 and 312-323, for paths of any length in any tree: the directory
\* the loops stand in exists and has the names of the characters before the cursor.
THEOREM WalkFollows == Spec => []WalkFollowsComponents
<1>1. WalkInv => WalkFollowsComponents
  <2> SUFFICES ASSUME WalkInv PROVE WalkFollowsComponents
    OBVIOUS
  <2>1. parent \in Seq(Words) /\ dirs = tree \cup Prefixes(parent)
    BY DEF WalkInv
  <2>2. Len(parent) \in 0..Len(parent) /\ SubSeq(parent, 1, Len(parent)) = parent
    BY <2>1, LenProperties, SubSeqFull
  <2>3. parent \in dirs
    BY <2>1, <2>2 DEF Prefixes
  <2>4. pc = "resolve" => parent = IF ptr = 0 THEN <<>> ELSE Cut(path, ptr)
    BY DEF WalkInv, CursorAtEnd
  <2>5. pc = "create" => Append(parent, <<>>) = Cut(path, remaining)
    BY DEF WalkInv, BeginsName
  <2> QED BY <2>3, <2>4, <2>5 DEF WalkFollowsComponents
<1> QED BY <1>1, WalkInductive, PTL

\* proc.c:246-287: a get searches a file name exactly when one component is left.
THEOREM GetIsTree == Spec => []GetAgrees
<1>1. WalkInv => GetAgrees
  BY DEF WalkInv
<1> QED BY <1>1, WalkInductive, PTL

\* proc.c:289-327: a create makes the directories and the name that ProcTree says,
\* and reads through NULL for a path that is a directory and for no other.
THEOREM CreateIsTree == Spec => []CreateAgrees
<1>1. WalkInv => CreateAgrees
  BY DEF WalkInv
<1> QED BY <1>1, WalkInductive, PTL

\* proc.c:121-143 and 204-236: each turn of a loop moves its cursor on, and never
\* past the terminating NUL, so that no path has more turns than characters.
THEOREM CursorsAdvance == Spec => TurnsAdvance
<1> DEFINE Turn == /\ pc' # "check"
                   /\ pc' = "resolve" => \/ pc = "check"
                                         \/ pc = "resolve" /\ ptr < ptr' /\ ptr' <= Len(path)
                   /\ pc' = "create" => \/ pc = "resolve"
                                        \/ pc = "create" /\ remaining < remaining' /\ remaining' <= Len(path)
<1>1. WalkInv /\ [Next]_vars => [Turn]_vars
  <2> SUFFICES ASSUME WalkInv, Next PROVE Turn
    OBVIOUS
  <2>1. CASE Check
    BY <2>1 DEF Check
  <2>2. CASE Resolve
    BY <2>2, ResolveKeeps DEF Resolve
  <2>3. CASE Create
    BY <2>3, CreateKeeps DEF Create
  <2> QED BY <2>1, <2>2, <2>3 DEF Next
<1> QED BY <1>1, WalkInductive, PTL DEF Spec, TurnsAdvance
=============================================================================
