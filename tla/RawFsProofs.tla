---------------------------- MODULE RawFsProofs ----------------------------
(***************************************************************************)
(* Proofs about the shell of rawfs, for any number of blocks, names, sizes *)
(* and processes: the doubly linked list is one, read either way; memory   *)
(* is held for what is listed; and the commands implement Listing.         *)
(***************************************************************************)
EXTENDS RawFs, Induction, SequenceTheorems, TLAPS

(***************************************************************************)
(* The list.  Lists(n, l) says that l[1], ..., l[n] are the files, each    *)
(* once, in the order of both kinds of links.                              *)
(***************************************************************************)
Lists(n, l) ==
  /\ \A b \in Block : file[b] # Null <=> \E i \in 1..n : l[i] = b
  /\ \A i, j \in 1..n : l[i] = l[j] => i = j
  /\ \A i \in 1..n : file[l[i]].next = IF i = n THEN Null ELSE l[i + 1]
  /\ \A i \in 1..n : file[l[i]].prev = IF i = 1 THEN Null ELSE l[i - 1]
  /\ first = IF n = 0 THEN Null ELSE l[1]
  /\ last = IF n = 0 THEN Null ELSE l[n]
  /\ n <= files

ListInv == \E n \in Nat : \E l \in [1..n -> Block] : Lists(n, l)

\* The inductive invariant.
RawInv == TypeOK /\ data = Allocated /\ ListInv

LEMMA NullIsNoBlock == Null \notin Block /\ Null \notin File
  BY RawFsAssumption, NullAssumption

LEMMA Listed ==
  ASSUME TypeOK, NEW n \in Nat, NEW l \in [1..n -> Block], Lists(n, l), NEW i \in 1..n
  PROVE  l[i] \in Block /\ file[l[i]] \in File /\ file[l[i]] # Null
<1>1. l[i] \in Block /\ file[l[i]] # Null
  BY DEF Lists
<1> QED
  BY <1>1 DEF TypeOK

\* The blocks that a walk along a link meets, when the link leads through l.
LEMMA ChainIs ==
  ASSUME NEW n \in Nat, NEW l \in [1..n -> Block], NEW at, NEW A, NEW link \in [A -> A \cup {Null}],
         \A i, j \in 1..n : l[i] = l[j] => i = j,
         \A i \in 1..n : l[i] \in A,
         \A i \in 1..n : link[l[i]] = IF i = n THEN Null ELSE l[i + 1],
         at = IF n = 0 THEN Null ELSE l[1]
  PROVE  Chain(at, link) = l /\ Len(l) = n
<1> DEFINE top == Cardinality(Block)
           T == A \cup {Null}
           step == [x \in (1..top) \X T |-> IF x[2] = Null THEN Null ELSE link[x[2]]]
           IsHop(h) == h = [k \in 1..top |->
                              IF k = 1 THEN at
                              ELSE IF h[k - 1] = Null THEN Null ELSE link[h[k - 1]]]
           hop == CHOOSE h : IsHop(h)
<1>1. top \in Nat /\ n <= top
  BY RawFsAssumption, EnumerationBound, FS_CardinalityType
<1>2. at \in T
  OBVIOUS
<1>3. step \in [(1..top) \X T -> T]
  OBVIOUS
<1>4. \E h : IsHop(h)
  <2> HIDE DEF top, T, step
  <2>1. PICK f : Computes(f, T, at, top, step)
    BY <1>1, <1>2, <1>3, RecursionExists
  <2>2. \A k \in 1..top : f[k] = IF f[k - 1] = Null THEN Null ELSE link[f[k - 1]]
    <3> SUFFICES ASSUME NEW k \in 1..top
                 PROVE  f[k] = IF f[k - 1] = Null THEN Null ELSE link[f[k - 1]]
      OBVIOUS
    <3>1. f[k - 1] \in T /\ f[k] = step[<<k, f[k - 1]>>]
      BY <1>1, <2>1 DEF Computes
    <3>2. <<k, f[k - 1]>> \in (1..top) \X T
      BY <3>1
    <3> QED
      BY <3>1, <3>2 DEF step
  <2> DEFINE h == [k \in 1..top |-> f[k - 1]]
  <2>3. IsHop(h)
    <3>1. ASSUME NEW k \in 1..top
          PROVE  h[k] = IF k = 1 THEN at ELSE IF h[k - 1] = Null THEN Null ELSE link[h[k - 1]]
      <4>1. CASE k = 1
        BY <1>1, <2>1, <4>1 DEF Computes
      <4>2. CASE k # 1
        <5>1. k - 1 \in 1..top /\ h[k] = f[k - 1] /\ h[k - 1] = f[(k - 1) - 1]
          BY <1>1, <4>2
        <5> QED
          BY <2>2, <4>2, <5>1
      <4> QED
        BY <4>1, <4>2
    <3> QED
      BY <3>1
  <2> QED
    BY <2>3
<1>5. IsHop(hop)
  <2> HIDE DEF IsHop
  <2> QED
    BY <1>4, Zenon
<1>6. Chain(at, link) = SubSeq(hop, 1, Cardinality({k \in 1..top : hop[k] # Null}))
  BY Zenon DEF Chain
<1> HIDE DEF hop, top, T, step
<1>5a. \A k \in 1..top : hop[k] = IF k = 1 THEN at ELSE IF hop[k - 1] = Null THEN Null ELSE link[hop[k - 1]]
  BY <1>5
<1>5b. ASSUME NEW k \in 1..top, k # 1
       PROVE  hop[k] = IF hop[k - 1] = Null THEN Null ELSE link[hop[k - 1]]
  BY <1>5a, <1>5b
<1>7. ASSUME NEW k \in 1..top PROVE hop[k] = IF k <= n THEN l[k] ELSE Null
  <2> DEFINE S == {j \in Nat : j + 1 <= top => hop[j + 1] = IF j + 1 <= n THEN l[j + 1] ELSE Null}
  <2>1. 0 \in S
    BY <1>1, <1>5
  <2>2. ASSUME NEW j \in Nat, j \in S PROVE j + 1 \in S
    <3> SUFFICES ASSUME (j + 1) + 1 <= top
                 PROVE  hop[(j + 1) + 1] = IF (j + 1) + 1 <= n THEN l[(j + 1) + 1] ELSE Null
      OBVIOUS
    <3>1. hop[j + 1] = IF j + 1 <= n THEN l[j + 1] ELSE Null
      BY <1>1, <2>2
    <3>2. hop[(j + 1) + 1] = IF hop[j + 1] = Null THEN Null ELSE link[hop[j + 1]]
      <4>1. (j + 1) + 1 \in 1..top /\ (j + 1) + 1 # 1 /\ ((j + 1) + 1) - 1 = j + 1
        BY <1>1
      <4>2. hop[(j + 1) + 1] = IF hop[((j + 1) + 1) - 1] = Null THEN Null ELSE link[hop[((j + 1) + 1) - 1]]
        BY <1>5b, <4>1
      <4> QED
        BY <4>1, <4>2
    <3>3. CASE j + 1 <= n
      <4>1. j + 1 \in 1..n /\ l[j + 1] # Null
        BY <3>3, NullIsNoBlock
      <4>2. link[l[j + 1]] = IF j + 1 = n THEN Null ELSE l[(j + 1) + 1]
        BY <4>1
      <4> QED
        BY <3>1, <3>2, <3>3, <4>1, <4>2
    <3>4. CASE ~(j + 1 <= n)
      BY <3>1, <3>2, <3>4
    <3> QED
      BY <3>3, <3>4
  <2>3. k - 1 \in S
    <3> HIDE DEF S
    <3> QED
      BY <1>1, <2>1, <2>2, NatSet
  <2> QED
    BY <1>1, <2>3
<1>8. {k \in 1..top : hop[k] # Null} = 1..n
  BY <1>1, <1>7, NullIsNoBlock
<1>9. Cardinality(1..n) = n
  BY FS_Interval
<1>10. \A k \in 1..n : hop[k] = l[k] /\ hop[k] \in Block
  BY <1>1, <1>7
<1>11. SubSeq(hop, 1, n) \in Seq(Block) /\ Len(SubSeq(hop, 1, n)) = n
       /\ \A k \in 1..n : SubSeq(hop, 1, n)[k] = l[k]
  BY <1>10, SubSeqProperties
<1>12. l \in Seq(Block) /\ Len(l) = n
  BY SeqDef, LenProperties
<1>13. Chain(at, link) = SubSeq(hop, 1, n)
  BY <1>6, <1>8, <1>9
<1>14. SubSeq(hop, 1, n) = l
  BY <1>11, <1>12, SeqEqual
<1> QED
  BY <1>12, <1>13, <1>14

\* The list read from first is l, and read from last it is l turned round.
LEMMA ForwardIs ==
  ASSUME TypeOK, NEW n \in Nat, NEW l \in [1..n -> Block], Lists(n, l)
  PROVE  Forward = l /\ Len(Forward) = n
<1> DEFINE link == [b \in Allocated |-> file[b].next]
<1>1. \A i \in 1..n : l[i] \in Allocated
  BY Listed DEF Allocated
<1>2. \A i \in 1..n : link[l[i]] = IF i = n THEN Null ELSE l[i + 1]
  BY <1>1 DEF Lists
<1>3. link \in [Allocated -> Allocated \cup {Null}]
  <2>1. ASSUME NEW b \in Allocated PROVE link[b] \in Allocated \cup {Null}
    <3>1. PICK i \in 1..n : l[i] = b
      BY DEF Lists, Allocated
    <3>2. i # n => i + 1 \in 1..n
      OBVIOUS
    <3> HIDE DEF link
    <3> QED
      BY <1>1, <1>2, <3>1, <3>2
  <2> QED
    BY <2>1
<1>4. \A i, j \in 1..n : l[i] = l[j] => i = j
  BY DEF Lists
<1>5. first = IF n = 0 THEN Null ELSE l[1]
  BY DEF Lists
<1> HIDE DEF link
<1>6. Chain(first, link) = l /\ Len(l) = n
  BY <1>1, <1>2, <1>3, <1>4, <1>5, ChainIs
<1> QED
  BY <1>6 DEF Forward, link

LEMMA BackwardIs ==
  ASSUME TypeOK, NEW n \in Nat, NEW l \in [1..n -> Block], Lists(n, l)
  PROVE  Backward = Reverse(l)
<1> DEFINE link == [b \in Allocated |-> file[b].prev]
           m == [i \in 1..n |-> l[(n - i) + 1]]
<1>1. \A i \in 1..n : l[i] \in Allocated
  BY Listed DEF Allocated
<1>2. \A i \in 1..n : (n - i) + 1 \in 1..n /\ m[i] = l[(n - i) + 1]
  OBVIOUS
<1>3. \A i \in 1..n : link[l[i]] = IF i = 1 THEN Null ELSE l[i - 1]
  BY <1>1 DEF Lists
<1>4. \A i \in 1..n : link[m[i]] = IF i = n THEN Null ELSE m[i + 1]
  <2> SUFFICES ASSUME NEW i \in 1..n PROVE link[m[i]] = IF i = n THEN Null ELSE m[i + 1]
    OBVIOUS
  <2> DEFINE j == (n - i) + 1
  <2>1. j \in 1..n /\ m[i] = l[j] /\ (i = n <=> j = 1)
    OBVIOUS
  <2>2. link[l[j]] = IF j = 1 THEN Null ELSE l[j - 1]
    BY <1>3, <2>1
  <2>3. i # n => i + 1 \in 1..n /\ (n - (i + 1)) + 1 = j - 1
    OBVIOUS
  <2>4. i # n => m[i + 1] = l[j - 1]
    BY <1>2, <2>3
  <2> HIDE DEF m, link, j
  <2> QED
    BY <2>1, <2>2, <2>4
<1>5. link \in [Allocated -> Allocated \cup {Null}]
  <2>1. ASSUME NEW b \in Allocated PROVE link[b] \in Allocated \cup {Null}
    <3>1. PICK i \in 1..n : l[i] = b
      BY DEF Lists, Allocated
    <3>2. i # 1 => i - 1 \in 1..n
      OBVIOUS
    <3> HIDE DEF link
    <3> QED
      BY <1>1, <1>3, <3>1, <3>2
  <2> QED
    BY <2>1
<1>6. \A i, j \in 1..n : l[i] = l[j] => i = j
  BY DEF Lists
<1>7. \A i, j \in 1..n : m[i] = m[j] => i = j
  <2> SUFFICES ASSUME NEW i \in 1..n, NEW j \in 1..n, m[i] = m[j] PROVE i = j
    OBVIOUS
  <2>1. (n - i) + 1 = (n - j) + 1
    BY <1>2, <1>6
  <2> QED
    BY <2>1
<1>8. m \in [1..n -> Block] /\ \A i \in 1..n : m[i] \in Allocated
  BY <1>1, <1>2
<1>9. last = IF n = 0 THEN Null ELSE m[1]
  <2>1. n # 0 => m[1] = l[n]
    OBVIOUS
  <2> QED
    BY <2>1 DEF Lists
<1>10. Len(l) = n
  BY SeqDef, LenProperties
<1>11. m = Reverse(l)
  BY <1>10 DEF Reverse
<1> HIDE DEF link, m
<1>12. m \in [1..n -> Block] /\ \A i \in 1..n : m[i] \in Allocated
  BY <1>8
<1>13. Chain(last, link) = m /\ Len(m) = n
  BY <1>4, <1>5, <1>7, <1>12, <1>9, ChainIs
<1> QED
  BY <1>11, <1>13 DEF Backward, link

(***************************************************************************)
(* What the commands do to the list.                                       *)
(***************************************************************************)
Added(n, l, b) == [i \in 1..(n + 1) |-> IF i = n + 1 THEN b ELSE l[i]]

\* Names and sizes of the files that stay are what they were.
Kept(B) == \A b \in B : file'[b].name = file[b].name /\ file'[b].size = file[b].size

LEMMA AddLists ==
  ASSUME TypeOK, NEW n \in Nat, NEW l \in [1..n -> Block], Lists(n, l),
         NEW b \in Block, file[b] = Null, NEW name \in Name, NEW size \in Size \ {0},
         FsAddFile(b, [name |-> name, size |-> size, next |-> Null, prev |-> Null])
  PROVE  /\ Added(n, l, b) \in [1..(n + 1) -> Block] /\ Lists(n + 1, Added(n, l, b))'
         /\ Kept(Allocated) /\ file'[b].name = name /\ file'[b].size = size
         /\ Allocated' = Allocated \cup {b}
         /\ file' \in [Block -> File \cup {Null}]
         /\ first' \in Block \cup {Null} /\ last' \in Block \cup {Null}
<1> DEFINE m == Added(n, l, b)
<1>1. m \in [1..(n + 1) -> Block] /\ m[n + 1] = b /\ \A i \in 1..n : m[i] = l[i]
  BY DEF Added
<1>2. \A i \in 1..n : l[i] \in Block /\ l[i] # b /\ file[l[i]] \in File /\ file[l[i]] # Null
  BY Listed
<1>3. (first = Null <=> n = 0) /\ (n # 0 => last = l[n] /\ n \in 1..n /\ first = l[1]) /\ n <= files
      /\ files \in Nat
  BY NullIsNoBlock, <1>2 DEF Lists, TypeOK
<1>4. file'[b] = [name |-> name, size |-> size, next |-> Null, prev |-> IF n = 0 THEN Null ELSE l[n]]
  BY <1>2, <1>3 DEF FsAddFile, TypeOK
<1>5. \A a \in Block \ {b} : (n = 0 \/ a # l[n]) => file'[a] = file[a]
  BY <1>2, <1>3 DEF FsAddFile, TypeOK
<1>6. n # 0 => file'[l[n]] = [file[l[n]] EXCEPT !.next = b]
  BY <1>2, <1>3 DEF FsAddFile, TypeOK
<1>7. \A i \in 1..n : file'[l[i]] \in File /\ file'[l[i]].prev = file[l[i]].prev
        /\ file'[l[i]].name = file[l[i]].name /\ file'[l[i]].size = file[l[i]].size
        /\ file'[l[i]].next = IF i = n THEN b ELSE file[l[i]].next
  BY <1>2, <1>5, <1>6 DEF File, Lists
<1>8. file'[b] \in File
  BY <1>2, <1>3, <1>4 DEF File
<1>9. \A a \in Block : file[a] # Null <=> \E i \in 1..n : l[i] = a
  BY DEF Lists
<1>10. file' \in [Block -> File \cup {Null}] /\ \A a \in Block : file'[a] # Null <=> a = b \/ file[a] # Null
  <2>1. DOMAIN file' = Block /\ file' = [a \in Block |-> file'[a]]
    BY DEF FsAddFile, TypeOK
  <2>2. ASSUME NEW a \in Block PROVE file'[a] \in File \cup {Null} /\ (file'[a] # Null <=> a = b \/ file[a] # Null)
    <3>1. CASE a = b
      BY <1>8, <3>1, NullIsNoBlock
    <3>2. CASE a # b /\ file[a] = Null
      BY <1>2, <1>3, <1>5, <3>2
    <3>3. CASE a # b /\ file[a] # Null
      BY <1>7, <1>9, <3>3, NullIsNoBlock
    <3> QED
      BY <3>1, <3>2, <3>3
  <2> QED
    BY <2>1, <2>2
<1>11. Lists(n + 1, m)'
  <2> HIDE DEF m
  <2>1. \A a \in Block : file'[a] # Null <=> \E i \in 1..(n + 1) : m[i] = a
    <3>1. \A i : i \in 1..(n + 1) <=> i \in 1..n \/ i = n + 1
      OBVIOUS
    <3> QED
      BY <1>1, <1>9, <1>10, <3>1
  <2>2. \A i, j \in 1..(n + 1) : m[i] = m[j] => i = j
    BY <1>1, <1>2 DEF Lists
  <2>3. \A i \in 1..(n + 1) : file'[m[i]].next = IF i = n + 1 THEN Null ELSE m[i + 1]
    <3>1. ASSUME NEW i \in 1..n PROVE file'[m[i]].next = m[i + 1]
      <4>1. i # n => i + 1 \in 1..n /\ file[l[i]].next = l[i + 1]
        BY DEF Lists
      <4> QED
        BY <1>1, <1>7, <4>1
    <3>2. file'[m[n + 1]].next = Null
      BY <1>1, <1>4
    <3> QED
      BY <3>1, <3>2
  <2>4. \A i \in 1..(n + 1) : file'[m[i]].prev = IF i = 1 THEN Null ELSE m[i - 1]
    <3>1. ASSUME NEW i \in 1..n PROVE file'[m[i]].prev = IF i = 1 THEN Null ELSE m[i - 1]
      <4>1. i # 1 => i - 1 \in 1..n
        OBVIOUS
      <4> QED
        BY <1>1, <1>7, <4>1 DEF Lists
    <3>2. file'[m[n + 1]].prev = IF n + 1 = 1 THEN Null ELSE m[(n + 1) - 1]
      BY <1>1, <1>3, <1>4
    <3> QED
      BY <3>1, <3>2
  <2>5. first' = m[1] /\ last' = m[n + 1] /\ n + 1 <= files'
    BY <1>1, <1>3 DEF FsAddFile
  <2> QED
    BY <2>1, <2>2, <2>3, <2>4, <2>5 DEF Lists
<1>12. Kept(Allocated)
  BY <1>7, <1>9 DEF Kept, Allocated
<1>13. first' \in Block \cup {Null} /\ last' \in Block \cup {Null}
  BY DEF FsAddFile, TypeOK
<1>14. Allocated' = Allocated \cup {b}
  BY <1>10 DEF Allocated
<1> QED
  BY <1>1, <1>4, <1>10, <1>11, <1>12, <1>13, <1>14

LEMMA NextRelinked ==
  ASSUME NEW f \in File, NEW x \in Block \cup {Null}, NEW g, g = [f EXCEPT !.next = x]
  PROVE  g \in File /\ g.name = f.name /\ g.size = f.size /\ g.next = x /\ g.prev = f.prev
  BY DEF File

LEMMA PrevRelinked ==
  ASSUME NEW f \in File, NEW x \in Block \cup {Null}, NEW g, g = [f EXCEPT !.prev = x]
  PROVE  g \in File /\ g.name = f.name /\ g.size = f.size /\ g.next = f.next /\ g.prev = x
  BY DEF File

Removed(n, l, k) == [i \in 1..(n - 1) |-> IF i < k THEN l[i] ELSE l[i + 1]]

LEMMA RemoveLists ==
  ASSUME TypeOK, NEW n \in Nat, NEW l \in [1..n -> Block], Lists(n, l),
         NEW k \in 1..n, FsRemoveFile(l[k])
  PROVE  /\ n - 1 \in Nat /\ Removed(n, l, k) \in [1..(n - 1) -> Block]
         /\ Lists(n - 1, Removed(n, l, k))'
         /\ Kept(Allocated \ {l[k]}) /\ Allocated' = Allocated \ {l[k]}
         /\ file' \in [Block -> File \cup {Null}]
         /\ first' \in Block \cup {Null} /\ last' \in Block \cup {Null}
<1> DEFINE m == Removed(n, l, k)
           b == l[k]
<1>1. n - 1 \in Nat /\ m \in [1..(n - 1) -> Block]
      /\ \A i \in 1..(n - 1) : m[i] = IF i < k THEN l[i] ELSE l[i + 1]
  BY DEF Removed
<1>2. \A i \in 1..n : l[i] \in Block /\ file[l[i]] \in File /\ file[l[i]] # Null
  BY Listed
<1>3. \A i, j \in 1..n : l[i] = l[j] => i = j
  BY DEF Lists
<1>4. \A i \in 1..n : (i # n => i + 1 \in 1..n) /\ (i # 1 => i - 1 \in 1..n)
  OBVIOUS
<1>5. (b = first <=> k = 1) /\ (b = last <=> k = n)
  BY <1>3 DEF Lists
<1>6. \A i \in 1..n : /\ file[l[i]].next = IF i = n THEN Null ELSE l[i + 1]
                      /\ file[l[i]].prev = IF i = 1 THEN Null ELSE l[i - 1]
  BY DEF Lists
<1>7. first' = IF k = 1 THEN file[b].next ELSE first
  BY <1>5 DEF FsRemoveFile
<1>8. last' = IF k = n THEN file[b].prev ELSE last
  BY <1>5 DEF FsRemoveFile
<1>9. file'[b] = Null
  BY <1>2 DEF FsRemoveFile
<1>10. file[b].next \in Block \cup {Null} /\ file[b].prev \in Block \cup {Null}
  BY <1>2 DEF File
<1>11. ASSUME NEW i \in 1..n, i # k
       PROVE  /\ i = k - 1 => file'[l[i]] = [file[l[i]] EXCEPT !.next = file[b].next]
              /\ i = k + 1 => file'[l[i]] = [file[l[i]] EXCEPT !.prev = file[b].prev]
              /\ i # k - 1 /\ i # k + 1 => file'[l[i]] = file[l[i]]
  <2>1. l[i] # b
    BY <1>3, <1>11
  <2>2. (b # first /\ l[i] = file[b].prev) <=> i = k - 1
    BY <1>3, <1>4, <1>5, <1>6
  <2>3. (b # last /\ l[i] = file[b].next) <=> i = k + 1
    BY <1>3, <1>4, <1>5, <1>6
  <2>4. i = k - 1 => i # k + 1
    OBVIOUS
  <2> QED
    BY <1>2, <2>1, <2>2, <2>3, <2>4, Zenon DEF FsRemoveFile
<1>12. ASSUME NEW i \in 1..n, i # k
       PROVE  /\ file'[l[i]] \in File
              /\ file'[l[i]].name = file[l[i]].name /\ file'[l[i]].size = file[l[i]].size
              /\ file'[l[i]].next = IF i = k - 1 THEN file[b].next ELSE file[l[i]].next
              /\ file'[l[i]].prev = IF i = k + 1 THEN file[b].prev ELSE file[l[i]].prev
  <2>1. file[l[i]] \in File
    BY <1>2
  <2>2. i = k - 1 => i # k + 1
    OBVIOUS
  <2>3. CASE i = k - 1
    <3>1. file'[l[i]] = [file[l[i]] EXCEPT !.next = file[b].next]
      BY <1>11, <1>12, <2>3, Zenon
    <3>2. /\ file'[l[i]] \in File /\ file'[l[i]].name = file[l[i]].name
          /\ file'[l[i]].size = file[l[i]].size
          /\ file'[l[i]].next = file[b].next /\ file'[l[i]].prev = file[l[i]].prev
      <4> DEFINE f == file[l[i]]
                 x == file[b].next
                 g == file'[l[i]]
      <4>1. f \in File /\ x \in Block \cup {Null} /\ g = [f EXCEPT !.next = x]
        BY <1>10, <2>1, <3>1, Zenon
      <4> HIDE DEF f, x, g
      <4>2. g \in File /\ g.name = f.name /\ g.size = f.size /\ g.next = x /\ g.prev = f.prev
        BY <4>1, NextRelinked
      <4> QED
        BY <4>2, Zenon DEF f, x, g
    <3> QED
      BY <2>2, <2>3, <3>2, Zenon
  <2>4. CASE i = k + 1
    <3>1. file'[l[i]] = [file[l[i]] EXCEPT !.prev = file[b].prev]
      BY <1>11, <1>12, <2>4, Zenon
    <3>2. /\ file'[l[i]] \in File /\ file'[l[i]].name = file[l[i]].name
          /\ file'[l[i]].size = file[l[i]].size
          /\ file'[l[i]].next = file[l[i]].next /\ file'[l[i]].prev = file[b].prev
      <4> DEFINE f == file[l[i]]
                 x == file[b].prev
                 g == file'[l[i]]
      <4>1. f \in File /\ x \in Block \cup {Null} /\ g = [f EXCEPT !.prev = x]
        BY <1>10, <2>1, <3>1, Zenon
      <4> HIDE DEF f, x, g
      <4>2. g \in File /\ g.name = f.name /\ g.size = f.size /\ g.next = f.next /\ g.prev = x
        BY <4>1, PrevRelinked
      <4> QED
        BY <4>2, Zenon DEF f, x, g
    <3> QED
      BY <2>2, <2>4, <3>2, Zenon
  <2>5. CASE i # k - 1 /\ i # k + 1
    BY <1>11, <1>12, <2>1, <2>5, Zenon
  <2> QED
    BY <2>3, <2>4, <2>5
<1>13. \A a \in Block : file[a] # Null <=> \E i \in 1..n : l[i] = a
  BY DEF Lists
<1>14. \A a \in Block : file[a] = Null => file'[a] = Null
  <2> SUFFICES ASSUME NEW a \in Block, file[a] = Null PROVE file'[a] = Null
    OBVIOUS
  <2>1. k # 1 => a # file[b].prev
    BY <1>4, <1>6, <1>13
  <2>2. k # n => a # file[b].next
    BY <1>4, <1>6, <1>13
  <2> HIDE DEF b
  <2> QED
    BY <1>5, <2>1, <2>2 DEF FsRemoveFile, b
<1>15. \A a \in Block : file'[a] # Null <=> a # b /\ file[a] # Null
  <2>1. ASSUME NEW a \in Block, a # b, file[a] # Null PROVE file'[a] # Null
    <3>1. PICK i \in 1..n : l[i] = a
      BY <1>13, <2>1
    <3> QED
      BY <1>12, <2>1, <3>1, NullIsNoBlock
  <2> QED
    BY <1>9, <1>14, <2>1
<1>16. file' \in [Block -> File \cup {Null}]
  <2>1. DOMAIN file' = Block /\ file' = [a \in Block |-> file'[a]]
    BY DEF FsRemoveFile
  <2>2. ASSUME NEW a \in Block PROVE file'[a] \in File \cup {Null}
    <3>1. CASE a = b \/ file[a] = Null
      BY <1>9, <1>14, <3>1
    <3>2. CASE a # b /\ file[a] # Null
      BY <1>12, <1>13, <3>2
    <3> QED
      BY <3>1, <3>2
  <2> QED
    BY <2>1, <2>2
<1>17. Lists(n - 1, m)'
  <2> HIDE DEF m
  <2>1. \A a \in Block : file'[a] # Null <=> \E i \in 1..(n - 1) : m[i] = a
    <3>1. ASSUME NEW a \in Block, file'[a] # Null PROVE \E i \in 1..(n - 1) : m[i] = a
      <4>1. PICK i \in 1..n : l[i] = a /\ i # k
        BY <1>13, <1>15, <3>1
      <4>2. CASE i < k
        BY <1>1, <4>1, <4>2
      <4>3. CASE k < i
        <5>1. i - 1 \in 1..(n - 1) /\ ~(i - 1 < k) /\ (i - 1) + 1 = i
          BY <4>3
        <5> QED
          BY <1>1, <4>1, <5>1
      <4> QED
        BY <4>1, <4>2, <4>3
    <3>2. ASSUME NEW i \in 1..(n - 1) PROVE file'[m[i]] # Null
      <4>1. i \in 1..n /\ i + 1 \in 1..n
        OBVIOUS
      <4>2. i < k => l[i] # b
        BY <1>3, <4>1
      <4>3. ~(i < k) => l[i + 1] # b
        BY <1>3, <4>1
      <4> HIDE DEF b
      <4> QED
        BY <1>1, <1>2, <1>15, <4>1, <4>2, <4>3
    <3> QED
      BY <3>1, <3>2
  <2>2. \A i, j \in 1..(n - 1) : m[i] = m[j] => i = j
    <3> SUFFICES ASSUME NEW i \in 1..(n - 1), NEW j \in 1..(n - 1), m[i] = m[j] PROVE i = j
      OBVIOUS
    <3> DEFINE p(x) == IF x < k THEN x ELSE x + 1
    <3>1. p(i) \in 1..n /\ p(j) \in 1..n /\ l[p(i)] = l[p(j)]
      BY <1>1
    <3>2. p(i) = p(j)
      BY <1>3, <3>1
    <3> QED
      BY <3>2
  <2>3. \A i \in 1..(n - 1) : file'[m[i]].next = IF i = n - 1 THEN Null ELSE m[i + 1]
    <3> SUFFICES ASSUME NEW i \in 1..(n - 1)
                 PROVE  file'[m[i]].next = IF i = n - 1 THEN Null ELSE m[i + 1]
      OBVIOUS
    <3>1. CASE i < k - 1
      <4>1. i \in 1..n /\ i # k /\ i # n /\ i # n - 1 /\ i < k /\ i + 1 < k /\ i # k - 1 /\ i + 1 \in 1..(n - 1)
        BY <3>1
      <4> QED
        BY <1>1, <1>6, <1>12, <4>1
    <3>2. CASE i = k - 1
      <4>1. i \in 1..n /\ i # k /\ i < k /\ i + 1 = k /\ (i = n - 1 <=> k = n) /\ ~(k < k)
            /\ (i # n - 1 => i + 1 \in 1..(n - 1))
        BY <3>2
      <4> QED
        BY <1>1, <1>6, <1>12, <3>2, <4>1
    <3>3. CASE i > k - 1
      <4>1. i + 1 \in 1..n /\ i + 1 # k /\ i + 1 # k - 1 /\ ~(i < k) /\ ~(i + 1 < k)
            /\ (i + 1 = n <=> i = n - 1) /\ (i # n - 1 => i + 1 \in 1..(n - 1))
        BY <3>3
      <4> QED
        BY <1>1, <1>6, <1>12, <4>1
    <3> QED
      BY <3>1, <3>2, <3>3
  <2>4. \A i \in 1..(n - 1) : file'[m[i]].prev = IF i = 1 THEN Null ELSE m[i - 1]
    <3> SUFFICES ASSUME NEW i \in 1..(n - 1)
                 PROVE  file'[m[i]].prev = IF i = 1 THEN Null ELSE m[i - 1]
      OBVIOUS
    <3>1. CASE i < k
      <4>1. i \in 1..n /\ i # k /\ i # k + 1 /\ (i # 1 => i - 1 \in 1..(n - 1) /\ i - 1 < k)
        BY <3>1
      <4> QED
        BY <1>1, <1>6, <1>12, <3>1, <4>1
    <3>2. CASE i = k
      <4>1. i + 1 \in 1..n /\ i + 1 # k /\ ~(i < k) /\ (i # 1 => i - 1 \in 1..(n - 1) /\ i - 1 < k)
        BY <3>2
      <4> QED
        BY <1>1, <1>6, <1>12, <3>2, <4>1
    <3>3. CASE i > k
      <4>1. i + 1 \in 1..n /\ i + 1 # k /\ i + 1 # k + 1 /\ i + 1 # 1 /\ ~(i < k) /\ i # 1
            /\ i - 1 \in 1..(n - 1) /\ ~(i - 1 < k) /\ (i - 1) + 1 = i /\ (i + 1) - 1 = i
        BY <3>3
      <4> QED
        BY <1>1, <1>6, <1>12, <4>1
    <3> QED
      BY <3>1, <3>2, <3>3
  <2>5. first' = IF n - 1 = 0 THEN Null ELSE m[1]
    <3>1. first = l[1]
      BY DEF Lists
    <3>2. n - 1 # 0 => 1 \in 1..(n - 1) /\ m[1] = IF k = 1 THEN l[2] ELSE l[1]
      BY <1>1
    <3> QED
      BY <1>6, <1>7, <3>1, <3>2
  <2>6. last' = IF n - 1 = 0 THEN Null ELSE m[n - 1]
    <3>1. last = l[n]
      BY DEF Lists
    <3>2. n - 1 # 0 => n - 1 \in 1..(n - 1) /\ m[n - 1] = IF k = n THEN l[n - 1] ELSE l[n]
      BY <1>1
    <3> QED
      BY <1>6, <1>8, <3>1, <3>2
  <2>7. n - 1 <= files'
    BY DEF FsRemoveFile, Lists, TypeOK
  <2> QED
    BY <2>1, <2>2, <2>3, <2>4, <2>5, <2>6, <2>7 DEF Lists
<1>18. Allocated' = Allocated \ {b}
  BY <1>15 DEF Allocated
<1>19. Kept(Allocated \ {b})
  <2> SUFFICES ASSUME NEW a \in Allocated \ {b}
               PROVE  file'[a].name = file[a].name /\ file'[a].size = file[a].size
    BY DEF Kept
  <2>1. PICK i \in 1..n : l[i] = a /\ i # k
    BY <1>13 DEF Allocated
  <2> QED
    BY <1>12, <2>1
<1>20. first' \in Block \cup {Null} /\ last' \in Block \cup {Null}
  BY <1>7, <1>8, <1>10 DEF TypeOK
<1> QED
  BY <1>1, <1>16, <1>17, <1>18, <1>19, <1>20

(***************************************************************************)
(* Looking for a file.                                                     *)
(***************************************************************************)
\* The least of a set of numbers.
LEMMA MinIs ==
  ASSUME NEW S, S \subseteq Nat, S # {}
  PROVE  Min(S) \in S /\ \A m \in S : Min(S) <= m
<1> DEFINE Least(x) == x \in S /\ \A y \in S : x <= y
<1>1. \E x : Least(x)
  BY LeastNat
<1>2. Least(CHOOSE x \in S : \A y \in S : x <= y)
  BY <1>1
<1> QED
  BY <1>2 DEF Min

\* The places of a name.
Named(n, l, name) == {i \in 1..n : file[l[i]].name = name}

LEMMA SearchIs ==
  ASSUME TypeOK, NEW n \in Nat, NEW l \in [1..n -> Block], Lists(n, l), NEW name
  PROVE  /\ Named(n, l, name) = {} => FsSearchFile(name) = Null
         /\ Named(n, l, name) # {} => /\ Min(Named(n, l, name)) \in Named(n, l, name)
                                      /\ FsSearchFile(name) = l[Min(Named(n, l, name))]
                                      /\ FsSearchFile(name) # Null
<1> DEFINE I == Named(n, l, name)
           found == SelectInSeq(l, LAMBDA b : file[b].name = name)
<1>1. Forward = l /\ Len(l) = n
  BY ForwardIs
<1>2. found = IF I # {} THEN Min(I) ELSE 0
  BY <1>1 DEF SelectInSeq, Named
<1>3. I \subseteq 1..n
  BY DEF Named
<1>4. I # {} => Min(I) \in I /\ files # 0 /\ Min(I) # 0
  <2>1. I # {} => I \subseteq Nat
    BY <1>3
  <2>2. I # {} => Min(I) \in I
    BY <2>1, MinIs
  <2>3. n <= files /\ files \in Nat
    BY DEF Lists, TypeOK
  <2> QED
    BY <1>3, <2>2, <2>3
<1>5. FsSearchFile(name) = IF files = 0 \/ found = 0 THEN Null ELSE l[found]
  BY <1>1 DEF FsSearchFile
<1>6. I # {} => l[Min(I)] # Null
  BY <1>3, <1>4, NullIsNoBlock
<1> HIDE DEF I, found
<1> QED
  BY <1>2, <1>4, <1>5, <1>6 DEF I

\* What a file found is: one of the list, of that name.
LEMMA Found ==
  ASSUME TypeOK, NEW n \in Nat, NEW l \in [1..n -> Block], Lists(n, l), NEW name,
         FsSearchFile(name) # Null
  PROVE  \E k \in 1..n : /\ FsSearchFile(name) = l[k] /\ l[k] \in Block /\ file[l[k]] \in File
                         /\ k = Min(Named(n, l, name)) /\ Named(n, l, name) # {}
<1> DEFINE I == Named(n, l, name)
<1>1. I # {} /\ Min(I) \in I /\ FsSearchFile(name) = l[Min(I)]
  BY SearchIs
<1>2. Min(I) \in 1..n
  BY <1>1 DEF Named
<1> QED
  BY <1>1, <1>2, Listed

(***************************************************************************)
(* The invariant is inductive.                                             *)
(***************************************************************************)
LEMMA RawInit == Init => RawInv
<1> SUFFICES ASSUME Init PROVE RawInv
  OBVIOUS
<1>1. Allocated = {} /\ data = {}
  BY DEF Init, Allocated
<1>2. ListInv
  <2> DEFINE l == [i \in 1..0 |-> CHOOSE b \in Block : TRUE]
  <2>1. l \in [1..0 -> Block]
    OBVIOUS
  <2>2. Lists(0, l)
    BY DEF Init, Lists
  <2> QED
    BY <2>1, <2>2 DEF ListInv
<1>3. TypeOK
  BY RawFsAssumption DEF Init, TypeOK
<1> QED
  BY <1>1, <1>2, <1>3 DEF RawInv

\* A command that leaves the list alone.
LEMMA StoreStays ==
  ASSUME RawInv, UNCHANGED store
  PROVE  data' = Allocated' /\ ListInv'
<1>1. data' = Allocated'
  <2>1. file' = file /\ data' = data
    BY DEF store
  <2>2. Allocated' = Allocated
    BY <2>1 DEF Allocated
  <2> QED
    BY <2>1, <2>2 DEF RawInv
<1>2a. PICK n \in Nat : \E l \in [1..n -> Block] : Lists(n, l)
  BY DEF RawInv, ListInv
<1>2. PICK l \in [1..n -> Block] : Lists(n, l)
  BY <1>2a
<1>3. Lists(n, l)'
  BY <1>2 DEF Lists, store, fileSystem
<1> QED
  BY <1>1, <1>3 DEF ListInv

\* When mmap fails, nothing has changed in the end.
LEMMA FreedAgain ==
  ASSUME TypeOK, NEW b \in Block, file[b] = Null, NEW new,
         file' = Free([file EXCEPT ![b] = new], b), UNCHANGED <<fileSystem, data>>
  PROVE  UNCHANGED store
<1>1. file' = [a \in Block |-> IF a = b THEN Null ELSE file[a]]
  BY DEF Free, TypeOK
<1>2. file' = file
  BY <1>1 DEF TypeOK
<1> QED
  BY <1>2 DEF store

LEMMA LoadKeeps ==
  ASSUME RawInv, NEW name \in Name, NEW size \in Size, LoadFile(name, size)
  PROVE  RawInv'
<1>1. TypeOK
  BY DEF RawInv
<1>2. size \in Nat /\ UNCHANGED <<running, waiting, shell>>
  BY RawFsAssumption DEF LoadFile
<1>3. CASE Say("load", "E_ERROR", 0) /\ UNCHANGED store
  <2>1. TypeOK'
    BY <1>1, <1>2, <1>3 DEF TypeOK, Say, store, fileSystem
  <2> QED
    BY <1>3, <2>1, StoreStays DEF RawInv
<1>4. CASE /\ Valid(size) /\ files < MaxLoads
           /\ \E b \in Block :
                /\ file[b] = Null
                /\ FsAddFile(b, [name |-> name, size |-> size, next |-> Null, prev |-> Null])
                /\ data' = data \cup {b}
           /\ Say("load", "E_OK", size)
  <2>1. PICK b \in Block :
          /\ file[b] = Null
          /\ FsAddFile(b, [name |-> name, size |-> size, next |-> Null, prev |-> Null])
          /\ data' = data \cup {b}
    BY <1>4
  <2>2. size \in Size \ {0}
    BY <1>4 DEF Valid
  <2>3a. PICK n \in Nat : \E l \in [1..n -> Block] : Lists(n, l)
    BY DEF RawInv, ListInv
  <2>3. PICK l \in [1..n -> Block] : Lists(n, l)
    BY <2>3a
  <2>4. /\ Added(n, l, b) \in [1..(n + 1) -> Block] /\ Lists(n + 1, Added(n, l, b))'
        /\ Allocated' = Allocated \cup {b}
        /\ file' \in [Block -> File \cup {Null}]
        /\ first' \in Block \cup {Null} /\ last' \in Block \cup {Null}
    BY <1>1, <2>1, <2>2, <2>3, AddLists
  <2>5. ListInv'
    BY <2>4 DEF ListInv
  <2>6. data' = Allocated' /\ data' \subseteq Block
    BY <1>1, <2>1, <2>4 DEF RawInv, TypeOK
  <2>7. files' \in 0..MaxLoads
    BY <1>1, <1>4, <2>1, RawFsAssumption DEF FsAddFile, TypeOK
  <2>8. TypeOK'
    BY <1>1, <1>2, <1>4, <2>4, <2>6, <2>7 DEF TypeOK, Say
  <2> QED
    BY <2>5, <2>6, <2>8 DEF RawInv
<1> QED
  BY <1>1, <1>3, <1>4, FreedAgain DEF LoadFile

LEMMA DeleteKeeps ==
  ASSUME RawInv, NEW name \in Name, DeleteFile(name)
  PROVE  RawInv'
<1> DEFINE b == FsSearchFile(name)
<1>1. TypeOK
  BY DEF RawInv
<1>2. UNCHANGED <<running, waiting, shell>>
  BY DEF DeleteFile
<1>3. CASE b = Null /\ Say("delete", "E_ERROR", 0) /\ UNCHANGED store
  <2>1. TypeOK'
    BY <1>1, <1>2, <1>3 DEF TypeOK, Say, store, fileSystem
  <2> QED
    BY <1>3, <2>1, StoreStays DEF RawInv
<1>4. CASE b # Null /\ FsRemoveFile(b) /\ DestroyFile(b) /\ Say("delete", "E_OK", file[b].size)
  <2>1a. PICK n \in Nat : \E l \in [1..n -> Block] : Lists(n, l)
    BY DEF RawInv, ListInv
  <2>1. PICK l \in [1..n -> Block] : Lists(n, l)
    BY <2>1a
  <2>2. PICK k \in 1..n : b = l[k] /\ l[k] \in Block /\ file[l[k]] \in File
    BY <1>1, <1>4, <2>1, Found
  <2>3. /\ n - 1 \in Nat /\ Removed(n, l, k) \in [1..(n - 1) -> Block]
        /\ Lists(n - 1, Removed(n, l, k))' /\ Allocated' = Allocated \ {l[k]}
        /\ file' \in [Block -> File \cup {Null}]
        /\ first' \in Block \cup {Null} /\ last' \in Block \cup {Null}
    <3>1. FsRemoveFile(l[k])
      <4> HIDE DEF b
      <4> QED
        BY <1>4, <2>2 DEF FsRemoveFile
    <3> QED
      BY <1>1, <2>1, <3>1, RemoveLists
  <2>4. ListInv'
    BY <2>3 DEF ListInv
  <2>5. data' = Allocated' /\ data' \subseteq Block
    BY <1>1, <1>4, <2>2, <2>3 DEF RawInv, TypeOK, DestroyFile
  <2>6. files' = files
    BY <1>4 DEF FsRemoveFile
  <2>7. file[b].size \in Size
    BY <2>2 DEF File
  <2>8. TypeOK'
    BY <1>1, <1>2, <1>4, <2>3, <2>5, <2>6, <2>7 DEF TypeOK, Say
  <2> QED
    BY <2>4, <2>5, <2>8 DEF RawInv
<1> QED
  BY <1>3, <1>4 DEF DeleteFile

LEMMA RawStep == RawInv /\ [Next]_vars => RawInv'
<1> SUFFICES ASSUME RawInv, [Next]_vars PROVE RawInv'
  OBVIOUS
<1>1. TypeOK
  BY DEF RawInv
<1>2. ASSUME NEW name \in Name, NEW size \in Size, LoadFile(name, size) PROVE RawInv'
  BY <1>2, LoadKeeps
<1>3. ASSUME NEW name \in Name, DeleteFile(name) PROVE RawInv'
  BY <1>3, DeleteKeeps
<1>4a. PICK n \in Nat : \E l \in [1..n -> Block] : Lists(n, l)
  BY DEF RawInv, ListInv
<1>4. PICK l \in [1..n -> Block] : Lists(n, l)
  BY <1>4a
<1>5. \A name : FsSearchFile(name) # Null => file[FsSearchFile(name)].size \in Size
  <2> SUFFICES ASSUME NEW name, FsSearchFile(name) # Null PROVE file[FsSearchFile(name)].size \in Size
    OBVIOUS
  <2>1. PICK k \in 1..n : FsSearchFile(name) = l[k] /\ file[l[k]] \in File
    BY <1>1, <1>4, Found
  <2> QED
    BY <2>1 DEF File
<1>6. UNCHANGED store /\ TypeOK' => RawInv'
  BY StoreStays DEF RawInv
<1>7. ASSUME NEW name \in Name, ListFile(name) PROVE RawInv'
  <2>1. UNCHANGED store /\ UNCHANGED <<running, waiting, shell>>
    BY <1>7 DEF ListFile
  <2>2. TypeOK'
    BY <1>1, <1>5, <1>7, <2>1 DEF ListFile, TypeOK, Say, store, fileSystem
  <2> QED
    BY <1>6, <2>1, <2>2
<1>8. ASSUME NEW name \in Name, NEW wait \in BOOLEAN, Exec(name, wait) PROVE RawInv'
  <2>1. UNCHANGED store
    BY <1>8 DEF Exec
  <2>2. running' \subseteq Pid /\ waiting' \in Pid \cup {Null} /\ shell' \in {"prompt", "wait", "exit", "aborted"}
    BY <1>1, <1>8 DEF Exec, TypeOK
  <2>3. said' \in [cmd : {"none", "load", "delete", "ls", "exec", "other"},
                   ret : {"none", "E_OK", "E_ERROR"}, size : Size \cup {0}]
    BY <1>5, <1>8 DEF Exec, Say
  <2>4. TypeOK'
    BY <1>1, <2>1, <2>2, <2>3 DEF TypeOK, store, fileSystem
  <2> QED
    BY <1>6, <2>1, <2>4
<1>9. CASE ListFiles \/ OtherCommand \/ Leave \/ Waited
  <2>1. UNCHANGED store
    BY <1>9 DEF ListFiles, OtherCommand, Leave, Waited
  <2>2. TypeOK'
    BY <1>1, <1>9, <2>1 DEF ListFiles, OtherCommand, Leave, Waited, TypeOK, Say, store, fileSystem
  <2> QED
    BY <1>6, <2>1, <2>2
<1>10. ASSUME NEW pid \in Pid, ProcessEnds(pid) \/ KillPid(pid) PROVE RawInv'
  <2>1. UNCHANGED store
    BY <1>10 DEF ProcessEnds, KillPid
  <2>2. TypeOK'
    BY <1>1, <1>10, <2>1 DEF ProcessEnds, KillPid, TypeOK, Say, store, fileSystem
  <2> QED
    BY <1>6, <2>1, <2>2
<1>11. CASE UNCHANGED vars
  <2>1. UNCHANGED store /\ TypeOK'
    BY <1>1, <1>11 DEF vars, TypeOK, store, fileSystem
  <2> QED
    BY <1>6, <2>1
<1> QED
  BY <1>2, <1>3, <1>7, <1>8, <1>9, <1>10, <1>11 DEF Next

THEOREM RawInductive == Spec => []RawInv
<1> QED
  BY RawInit, RawStep, PTL DEF Spec

(***************************************************************************)
(* What it gives.                                                          *)
(***************************************************************************)
\* rawfs/main.c: every variable keeps its type, and every link leads to a file
\* or nowhere.
THEOREM Typed == Spec => []TypeOK
<1>1. RawInv => TypeOK
  BY DEF RawInv
<1> QED
  BY <1>1, RawInductive, PTL

\* rawfs/main.c:74-135: whatever is loaded and deleted, in whatever order, the
\* list is the same list read either way.
THEOREM OneList == Spec => []LinksAgree
<1>1. ASSUME RawInv PROVE LinksAgree
  <2>1a. PICK n \in Nat : \E l \in [1..n -> Block] : Lists(n, l)
    BY <1>1 DEF RawInv, ListInv
  <2>1. PICK l \in [1..n -> Block] : Lists(n, l)
    BY <2>1a
  <2>2. Forward = l /\ Backward = Reverse(l)
    BY <1>1, <2>1, ForwardIs, BackwardIs DEF RawInv
  <2> QED
    BY <2>2 DEF LinksAgree
<1> QED
  BY <1>1, RawInductive, PTL

\* rawfs/main.c:22-64, 236: the blocks and the memory in use are those of the
\* files that the list shows.
THEOREM NothingLost == Spec => []NoLeak
<1>1. ASSUME RawInv PROVE NoLeak
  <2>1a. PICK n \in Nat : \E l \in [1..n -> Block] : Lists(n, l)
    BY <1>1 DEF RawInv, ListInv
  <2>1. PICK l \in [1..n -> Block] : Lists(n, l)
    BY <2>1a
  <2>2. Forward = l /\ Len(l) = n
    BY <1>1, <2>1, ForwardIs DEF RawInv
  <2>3. Allocated = {l[i] : i \in 1..n}
    BY <2>1 DEF Lists, Allocated
  <2> QED
    BY <1>1, <2>2, <2>3 DEF NoLeak, RawInv, ToSet
<1> QED
  BY <1>1, RawInductive, PTL

(***************************************************************************)
(* The commands implement Listing.                                         *)
(***************************************************************************)
Entry == [name : Name, size : Size]

Image(n, l) == [i \in 1..n |-> [name |-> file[l[i]].name, size |-> file[l[i]].size]]

\* What Listing sees of the list.
Shown == [i \in DOMAIN Forward |-> [name |-> file[Forward[i]].name, size |-> file[Forward[i]].size]]

ShownRight == \A n \in Nat : \A l \in [1..n -> Block] : Lists(n, l) => Shown = Image(n, l)

LEMMA ShowsImage == RawInv => ShownRight
<1> SUFFICES ASSUME RawInv, NEW n \in Nat, NEW l \in [1..n -> Block], Lists(n, l)
             PROVE  Shown = Image(n, l)
  BY DEF ShownRight
<1>1. Forward = l /\ DOMAIN l = 1..n
  BY ForwardIs DEF RawInv
<1> QED
  BY <1>1 DEF Shown, Image

LEMMA ImageIs ==
  ASSUME TypeOK, NEW n \in Nat, NEW l \in [1..n -> Block], Lists(n, l)
  PROVE  Image(n, l) \in Seq(Entry) /\ Len(Image(n, l)) = n /\ DOMAIN Image(n, l) = 1..n
<1>1. \A i \in 1..n : file[l[i]].name \in Name /\ file[l[i]].size \in Size
  BY Listed DEF File
<1>2. Image(n, l) \in [1..n -> Entry]
  BY <1>1 DEF Image, Entry
<1> HIDE DEF Image
<1> QED
  BY <1>2, SeqDef, LenProperties

\* A name that is listed is the name of a file, and the oldest is the first.
LEMMA PromiseOldest ==
  ASSUME RawInv, NEW n \in Nat, NEW l \in [1..n -> Block], Lists(n, l), NEW name
  PROVE  /\ Promise!Has(name) <=> Named(n, l, name) # {}
         /\ Promise!Has(name) => Promise!Oldest(name) = Min(Named(n, l, name))
<1> DEFINE I == {i \in 1..Len(Shown) : Shown[i].name = name}
<1>1. Promise!Has(name) <=> \E i \in DOMAIN Shown : Shown[i].name = name
  BY DEF Promise!Has, Shown
<1>2. Promise!Oldest(name) = IF I # {} THEN Min(I) ELSE 0
  BY DEF Promise!Oldest, Shown, Promise!SelectInSeq, Min, Promise!Min
<1>3. Shown = Image(n, l)
  BY ShowsImage DEF ShownRight
<1>4. Len(Shown) = n /\ DOMAIN Shown = 1..n
  BY <1>3, ImageIs DEF RawInv
<1>5. \A i \in 1..n : Shown[i].name = file[l[i]].name
  BY <1>3 DEF Image
<1>6. I = Named(n, l, name)
  BY <1>4, <1>5 DEF Named
<1>7. Promise!Has(name) <=> I # {}
  BY <1>1, <1>4
<1> HIDE DEF I
<1> QED
  BY <1>2, <1>6, <1>7

\* Finding a file is finding the oldest entry.
LEMMA PromiseFound ==
  ASSUME RawInv, NEW name
  PROVE  /\ Promise!Has(name) <=> FsSearchFile(name) # Null
         /\ Promise!Has(name) => Shown[Promise!Oldest(name)].size = file[FsSearchFile(name)].size
<1>1. TypeOK
  BY DEF RawInv
<1>2a. PICK n \in Nat : \E l \in [1..n -> Block] : Lists(n, l)
  BY DEF RawInv, ListInv
<1>2. PICK l \in [1..n -> Block] : Lists(n, l)
  BY <1>2a
<1> DEFINE I == Named(n, l, name)
<1>3. (Promise!Has(name) <=> I # {}) /\ (Promise!Has(name) => Promise!Oldest(name) = Min(I))
  BY <1>2, PromiseOldest
<1>4. /\ I = {} => FsSearchFile(name) = Null
      /\ I # {} => Min(I) \in I /\ FsSearchFile(name) = l[Min(I)] /\ FsSearchFile(name) # Null
  BY <1>1, <1>2, SearchIs
<1>5. Shown = Image(n, l)
  BY <1>2, ShowsImage DEF ShownRight
<1>6. \A i \in I : i \in 1..n /\ Shown[i].size = file[l[i]].size
  BY <1>5 DEF Image, Named
<1> HIDE DEF I
<1> QED
  BY <1>3, <1>4, <1>6

LEMMA StoreQuiet == ASSUME UNCHANGED store PROVE Shown' = Shown
  BY DEF Shown, store, fileSystem, Forward, Chain, Allocated

LEMMA LoadPromise ==
  ASSUME RawInv, RawInv', NEW name \in Name, NEW size \in Size, LoadFile(name, size)
  PROVE  Promise!Load(name, size) \/ Promise!Fail("load")
<1>1. TypeOK
  BY DEF RawInv
<1>2. CASE Say("load", "E_ERROR", 0) /\ UNCHANGED store
  <2>1. Shown' = Shown
    BY <1>2, StoreQuiet
  <2> QED
    BY <1>2, <2>1 DEF Promise!Fail, Promise!Say, Say, Shown
<1>3. CASE /\ Valid(size) /\ files < MaxLoads
           /\ \E b \in Block :
                /\ file[b] = Null
                /\ FsAddFile(b, [name |-> name, size |-> size, next |-> Null, prev |-> Null])
                /\ data' = data \cup {b}
           /\ Say("load", "E_OK", size)
  <2>1. PICK b \in Block :
          /\ file[b] = Null
          /\ FsAddFile(b, [name |-> name, size |-> size, next |-> Null, prev |-> Null])
    BY <1>3
  <2>2. size \in Size \ {0}
    BY <1>3 DEF Valid
  <2>3a. PICK n \in Nat : \E l \in [1..n -> Block] : Lists(n, l)
    BY DEF RawInv, ListInv
  <2>3. PICK l \in [1..n -> Block] : Lists(n, l)
    BY <2>3a
  <2> DEFINE m == Added(n, l, b)
             L == Image(n, l)
             e == [name |-> name, size |-> size]
  <2>4. /\ m \in [1..(n + 1) -> Block] /\ Lists(n + 1, m)'
        /\ Kept(Allocated) /\ file'[b].name = name /\ file'[b].size = size
    BY <1>1, <2>1, <2>2, <2>3, AddLists
  <2>5. Shown = L
    BY <2>3, ShowsImage DEF ShownRight
  <2>6. ShownRight'
    BY ShowsImage, PTL
  <2>7. Shown' = Image(n + 1, m)'
    <3> HIDE DEF m
    <3> QED
      BY <2>4, <2>6 DEF ShownRight
  <2>8. Shown' = [i \in 1..(n + 1) |-> [name |-> file'[m[i]].name, size |-> file'[m[i]].size]]
    BY <2>7 DEF Image
  <2>9. L \in Seq(Entry) /\ Len(L) = n
    BY <1>1, <2>3, ImageIs
  <2>10. e \in Entry
    BY DEF Entry
  <2>11. \A i \in 1..n : L[i] = [name |-> file'[m[i]].name, size |-> file'[m[i]].size]
    <3> SUFFICES ASSUME NEW i \in 1..n
                 PROVE  L[i] = [name |-> file'[m[i]].name, size |-> file'[m[i]].size]
      OBVIOUS
    <3>1. m[i] = l[i] /\ l[i] \in Allocated
      BY <2>3, Listed, <1>1 DEF Added, Allocated
    <3>2. file'[l[i]].name = file[l[i]].name /\ file'[l[i]].size = file[l[i]].size
      BY <2>4, <3>1 DEF Kept
    <3> QED
      BY <3>1, <3>2 DEF Image
  <2>12. m[n + 1] = b
    BY DEF Added
  <2> HIDE DEF m, L
  <2>13. Append(L, e) \in Seq(Entry) /\ Len(Append(L, e)) = n + 1
         /\ (\A i \in 1..n : Append(L, e)[i] = L[i]) /\ Append(L, e)[n + 1] = e
    BY <2>9, <2>10, AppendProperties
  <2> DEFINE S == Shown'
  <2>14. S \in [1..(n + 1) -> Entry]
    <3>1. ASSUME NEW i \in 1..(n + 1)
          PROVE  [name |-> file'[m[i]].name, size |-> file'[m[i]].size] \in Entry
      <4>1. CASE i = n + 1
        BY <2>4, <2>10, <2>12, <4>1
      <4>2. CASE i # n + 1
        <5>1. i \in 1..n /\ L[i] \in Entry
          BY <2>9, <4>2, ElementOfSeq
        <5> QED
          BY <2>11, <5>1
      <4> QED
        BY <4>1, <4>2
    <3> QED
      BY <2>8, <3>1
  <2>15. \A i \in 1..(n + 1) : S[i] = Append(L, e)[i]
    <3> SUFFICES ASSUME NEW i \in 1..(n + 1) PROVE S[i] = Append(L, e)[i]
      OBVIOUS
    <3>0. S[i] = [name |-> file'[m[i]].name, size |-> file'[m[i]].size]
      BY <2>8
    <3>1. CASE i = n + 1
      BY <2>4, <2>12, <2>13, <3>0, <3>1
    <3>2. CASE i # n + 1
      <4>1. i \in 1..n
        BY <3>2
      <4> QED
        BY <2>11, <2>13, <3>0, <4>1
    <3> QED
      BY <3>1, <3>2
  <2> HIDE DEF S
  <2>16. S \in Seq(Entry) /\ Len(S) = n + 1
    BY <2>14, SeqDef, LenProperties
  <2>17. S = Append(L, e)
    BY <2>13, <2>15, <2>16, SeqEqual
  <2>18. Shown' = Append(Shown, e)
    BY <2>5, <2>17 DEF S
  <2> QED
    BY <1>3, <2>18 DEF Promise!Load, Promise!Say, Say, Shown
<1> QED
  BY <1>1, <1>2, <1>3, FreedAgain DEF LoadFile

\* A sequence without one of its elements.
LEMMA WithoutOne ==
  ASSUME NEW S, NEW s \in Seq(S), NEW k \in 1..Len(s)
  PROVE  LET r == SubSeq(s, 1, k - 1) \o SubSeq(s, k + 1, Len(s))
         IN  /\ r \in Seq(S) /\ Len(r) = Len(s) - 1
             /\ \A i \in 1..(Len(s) - 1) : r[i] = IF i < k THEN s[i] ELSE s[i + 1]
<1> DEFINE n == Len(s)
           a == SubSeq(s, 1, k - 1)
           z == SubSeq(s, k + 1, n)
<1>1. n \in Nat /\ \A i \in 1..n : s[i] \in S
  BY LenProperties, ElementOfSeq
<1>2. a \in Seq(S) /\ Len(a) = k - 1 /\ \A i \in 1..(k - 1) : a[i] = s[i]
  <2>1. \A i \in 1..(k - 1) : s[i] \in S
    BY <1>1
  <2>2. /\ a \in Seq(S) /\ Len(a) = IF 1 <= k - 1 THEN (k - 1) - 1 + 1 ELSE 0
        /\ \A i \in 1..((k - 1) - 1 + 1) : a[i] = s[1 + i - 1]
    BY <1>1, <2>1, SubSeqProperties
  <2> HIDE DEF a
  <2> QED
    BY <1>1, <2>2
<1>3. z \in Seq(S) /\ Len(z) = n - k /\ \A i \in 1..(n - k) : z[i] = s[k + i]
  <2>1. \A i \in (k + 1)..n : s[i] \in S
    BY <1>1
  <2>2. /\ z \in Seq(S) /\ Len(z) = IF k + 1 <= n THEN n - (k + 1) + 1 ELSE 0
        /\ \A i \in 1..(n - (k + 1) + 1) : z[i] = s[(k + 1) + i - 1]
    BY <1>1, <2>1, SubSeqProperties
  <2> HIDE DEF z
  <2>3. Len(z) = n - k
    BY <1>1, <2>2
  <2>4. ASSUME NEW i \in 1..(n - k) PROVE z[i] = s[k + i]
    <3>1. i \in 1..(n - (k + 1) + 1) /\ (k + 1) + i - 1 = k + i
      BY <1>1
    <3>2. z[i] = s[(k + 1) + i - 1]
      BY <2>2, <3>1
    <3> QED
      BY <3>1, <3>2
  <2> QED
    BY <2>2, <2>3, <2>4
<1> HIDE DEF a, z
<1>4. /\ a \o z \in Seq(S) /\ Len(a \o z) = n - 1
      /\ \A i \in 1..(n - 1) : (a \o z)[i] = IF i <= k - 1 THEN a[i] ELSE z[i - (k - 1)]
  <2>1. /\ a \o z \in Seq(S) /\ Len(a \o z) = Len(a) + Len(z)
        /\ \A i \in 1..(Len(a) + Len(z)) : (a \o z)[i] = IF i <= Len(a) THEN a[i] ELSE z[i - Len(a)]
    BY <1>2, <1>3, ConcatProperties
  <2>2. Len(a) + Len(z) = n - 1
    BY <1>1, <1>2, <1>3
  <2> QED
    BY <1>2, <2>1, <2>2
<1>5. ASSUME NEW i \in 1..(n - 1) PROVE (a \o z)[i] = IF i < k THEN s[i] ELSE s[i + 1]
  <2>1. CASE i < k
    BY <1>1, <1>2, <1>4, <2>1
  <2>2. CASE ~(i < k)
    <3>1. i - (k - 1) \in 1..(n - k) /\ k + (i - (k - 1)) = i + 1 /\ ~(i <= k - 1)
      BY <1>1, <2>2
    <3> QED
      BY <1>3, <1>4, <2>2, <3>1
  <2> QED
    BY <2>1, <2>2
<1> QED
  BY <1>4, <1>5 DEF a, z

LEMMA DeletePromise ==
  ASSUME RawInv, RawInv', NEW name \in Name, DeleteFile(name)
  PROVE  Promise!Delete(name)
<1> DEFINE b == FsSearchFile(name)
<1>1. TypeOK
  BY DEF RawInv
<1>2. /\ Promise!Has(name) <=> b # Null
      /\ Promise!Has(name) => Shown[Promise!Oldest(name)].size = file[b].size
  BY PromiseFound
<1>3. CASE b = Null /\ Say("delete", "E_ERROR", 0) /\ UNCHANGED store
  <2>1. Shown' = Shown
    BY <1>3, StoreQuiet
  <2>2. ~Promise!Has(name)
    BY <1>2, <1>3
  <2>3. said' = [cmd |-> "delete", ret |-> "E_ERROR", size |-> 0]
    BY <1>3 DEF Say
  <2> QED
    BY <2>1, <2>2, <2>3 DEF Promise!Delete, Promise!Say, Shown
<1>4. CASE b # Null /\ FsRemoveFile(b) /\ DestroyFile(b) /\ Say("delete", "E_OK", file[b].size)
  <2>1a. PICK n \in Nat : \E l \in [1..n -> Block] : Lists(n, l)
    BY DEF RawInv, ListInv
  <2>1. PICK l \in [1..n -> Block] : Lists(n, l)
    BY <2>1a
  <2>2. PICK k \in 1..n : b = l[k] /\ k = Min(Named(n, l, name)) /\ Named(n, l, name) # {}
    BY <1>1, <1>4, <2>1, Found
  <2> DEFINE m == Removed(n, l, k)
             L == Image(n, l)
             R == SubSeq(L, 1, k - 1) \o SubSeq(L, k + 1, Len(L))
             S == Shown'
  <2>3. n - 1 \in Nat /\ m \in [1..(n - 1) -> Block] /\ Lists(n - 1, m)' /\ Kept(Allocated \ {l[k]})
    <3>1. FsRemoveFile(l[k])
      <4> HIDE DEF b
      <4> QED
        BY <1>4, <2>2 DEF FsRemoveFile
    <3> QED
      BY <1>1, <2>1, <3>1, RemoveLists
  <2>4. Shown = L
    BY <2>1, ShowsImage DEF ShownRight
  <2>5. ShownRight'
    BY ShowsImage, PTL
  <2>6. S = Image(n - 1, m)'
    <3> HIDE DEF m
    <3> QED
      BY <2>3, <2>5 DEF ShownRight
  <2>7. S = [i \in 1..(n - 1) |-> [name |-> file'[m[i]].name, size |-> file'[m[i]].size]]
    BY <2>6 DEF Image
  <2>8. L \in Seq(Entry) /\ Len(L) = n
    BY <1>1, <2>1, ImageIs
  <2>9. \A i \in 1..(n - 1) : IF i < k THEN i \in 1..n /\ i # k /\ m[i] = l[i]
                              ELSE i + 1 \in 1..n /\ i + 1 # k /\ m[i] = l[i + 1]
    BY DEF Removed
  <2>10. \A i \in 1..n : i # k => l[i] \in Allocated \ {l[k]}
    BY <1>1, <2>1, Listed DEF Lists, Allocated
  <2>11. \A i \in 1..n : i # k => L[i] = [name |-> file'[l[i]].name, size |-> file'[l[i]].size]
    BY <2>3, <2>10 DEF Kept, Image
  <2>12. \A i \in 1..n : L[i] \in Entry
    BY <2>8, ElementOfSeq
  <2>13. R \in Seq(Entry) /\ Len(R) = n - 1
         /\ \A i \in 1..(n - 1) : R[i] = IF i < k THEN L[i] ELSE L[i + 1]
    <3> HIDE DEF L
    <3> QED
      BY <2>8, WithoutOne
  <2> HIDE DEF m, L, R
  <2>14. ASSUME NEW i \in 1..(n - 1)
         PROVE  S[i] = R[i] /\ S[i] \in Entry
    <3>1. S[i] = [name |-> file'[m[i]].name, size |-> file'[m[i]].size]
      BY <2>7
    <3>2. CASE i < k
      BY <2>9, <2>11, <2>12, <2>13, <3>1, <3>2
    <3>3. CASE ~(i < k)
      BY <2>9, <2>11, <2>12, <2>13, <3>1, <3>3
    <3> QED
      BY <3>2, <3>3
  <2>15. S \in [1..(n - 1) -> Entry]
    <3>1. \A i \in 1..(n - 1) : [name |-> file'[m[i]].name, size |-> file'[m[i]].size] \in Entry
      BY <2>7, <2>14
    <3> QED
      BY <2>7, <3>1
  <2> HIDE DEF S
  <2>16. S \in Seq(Entry) /\ Len(S) = n - 1
    BY <2>3, <2>15, SeqDef, LenProperties
  <2>17. S = R
    BY <2>13, <2>14, <2>16, SeqEqual
  <2>18. Promise!Has(name) /\ Promise!Oldest(name) = k
    BY <2>1, <2>2, PromiseOldest
  <2>19. Shown' = SubSeq(Shown, 1, Promise!Oldest(name) - 1)
                  \o SubSeq(Shown, Promise!Oldest(name) + 1, Len(Shown))
    BY <2>4, <2>17, <2>18 DEF S, R
  <2>20. said' = [cmd |-> "delete", ret |-> "E_OK", size |-> Shown[Promise!Oldest(name)].size]
    BY <1>2, <1>4, <2>18 DEF Say
  <2> QED
    BY <2>18, <2>19, <2>20 DEF Promise!Delete, Promise!Say, Promise!RemoveAt, Shown
<1> QED
  BY <1>3, <1>4 DEF DeleteFile

LEMMA QuietPromise ==
  ASSUME UNCHANGED store, said' = said
  PROVE  UNCHANGED Promise!vars
<1>1. Shown' = Shown
  BY StoreQuiet
<1> QED
  BY <1>1 DEF Promise!vars, Shown

LEMMA OtherPromise ==
  ASSUME UNCHANGED store, NEW cmd, Say(cmd, "E_OK", 0)
  PROVE  Promise!Other(cmd)
<1>1. Shown' = Shown
  BY StoreQuiet
<1> QED
  BY <1>1 DEF Promise!Other, Promise!Say, Say, Shown

LEMMA UsePromise ==
  ASSUME RawInv, UNCHANGED store, NEW name, NEW cmd,
         \/ FsSearchFile(name) = Null /\ Say(cmd, "E_ERROR", 0)
         \/ FsSearchFile(name) # Null /\ Say(cmd, "E_OK", file[FsSearchFile(name)].size)
  PROVE  Promise!Use(cmd, name)
<1>1. Shown' = Shown
  BY StoreQuiet
<1>2. /\ Promise!Has(name) <=> FsSearchFile(name) # Null
      /\ Promise!Has(name) => Shown[Promise!Oldest(name)].size = file[FsSearchFile(name)].size
  BY PromiseFound
<1>3. \/ ~Promise!Has(name) /\ said' = [cmd |-> cmd, ret |-> "E_ERROR", size |-> 0]
      \/ Promise!Has(name)
         /\ said' = [cmd |-> cmd, ret |-> "E_OK", size |-> Shown[Promise!Oldest(name)].size]
  BY <1>2 DEF Say
<1> QED
  BY <1>1, <1>3 DEF Promise!Use, Promise!Say, Shown

LEMMA StepPromise == RawInv /\ RawInv' /\ [Next]_vars => [Promise!Next]_(Promise!vars)
<1> SUFFICES ASSUME RawInv, RawInv', [Next]_vars PROVE [Promise!Next]_(Promise!vars)
  OBVIOUS
<1>1. ASSUME NEW name \in Name, NEW size \in Size, LoadFile(name, size) PROVE Promise!Next
  BY <1>1, LoadPromise DEF Promise!Next
<1>2. ASSUME NEW name \in Name, DeleteFile(name) PROVE Promise!Next
  BY <1>2, DeletePromise DEF Promise!Next
<1>3. ASSUME NEW name \in Name, ListFile(name) PROVE Promise!Next
  <2>1. Promise!Use("ls", name)
    BY <1>3, UsePromise DEF ListFile
  <2> QED
    BY <2>1 DEF Promise!Next
<1>4. ASSUME NEW name \in Name, NEW wait \in BOOLEAN, Exec(name, wait) PROVE Promise!Next
  <2>1. UNCHANGED store
    BY <1>4 DEF Exec
  <2>2. CASE Say("exec", "E_ERROR", 0)
    <3>1. Shown' = Shown
      BY <2>1, StoreQuiet
    <3>2. Promise!Fail("exec")
      BY <2>2, <3>1 DEF Promise!Fail, Promise!Say, Say, Shown
    <3> QED
      BY <3>2 DEF Promise!Next
  <2>3. CASE FsSearchFile(name) # Null /\ Say("exec", "E_OK", file[FsSearchFile(name)].size)
    <3>1. Promise!Use("exec", name)
      BY <2>1, <2>3, UsePromise
    <3> QED
      BY <3>1 DEF Promise!Next
  <2> QED
    BY <1>4, <2>2, <2>3 DEF Exec
<1>5. CASE ListFiles
  <2>1. Promise!Other("ls")
    BY <1>5, OtherPromise DEF ListFiles
  <2> QED
    BY <2>1 DEF Promise!Next
<1>6. ASSUME OtherCommand \/ \E pid \in Pid : KillPid(pid) PROVE Promise!Next
  <2>1. Promise!Other("other")
    BY <1>6, OtherPromise DEF OtherCommand, KillPid
  <2> QED
    BY <2>1 DEF Promise!Next
<1>7. ASSUME Leave \/ Waited \/ (\E pid \in Pid : ProcessEnds(pid)) \/ UNCHANGED vars
      PROVE  UNCHANGED Promise!vars
  <2>1. UNCHANGED store /\ said' = said
    BY <1>7 DEF Leave, Waited, ProcessEnds, vars
  <2> QED
    BY <2>1, QuietPromise
<1> QED
  BY <1>1, <1>2, <1>3, <1>4, <1>5, <1>6, <1>7 DEF Next

\* rawfs/main.c: for any number of blocks, names and sizes, the commands do to
\* the listing what Listing says, and find the oldest file of a name.
THEOREM ListingImplemented == Spec => ImplementsListing
<1>1. Init => Promise!Init
  <2> SUFFICES ASSUME Init PROVE Promise!Init
    OBVIOUS
  <2>1. RawInv
    BY RawInit
  <2>2. Allocated = {}
    BY DEF Init, Allocated
  <2>3a. PICK n \in Nat : \E l \in [1..n -> Block] : Lists(n, l)
    BY <2>1 DEF RawInv, ListInv
  <2>3. PICK l \in [1..n -> Block] : Lists(n, l)
    BY <2>3a
  <2>4. n = 0
    BY <2>3 DEF Lists, Init
  <2>5. Shown = Image(n, l) /\ Image(n, l) \in Seq(Entry) /\ Len(Image(n, l)) = 0
    BY <2>1, <2>3, <2>4, ShowsImage, ImageIs DEF ShownRight, RawInv
  <2>6. Shown = <<>>
    BY <2>5, EmptySeq
  <2> QED
    BY <2>6 DEF Promise!Init, Shown, Init
<1> QED
  BY <1>1, RawInductive, StepPromise, PTL DEF Spec, ImplementsListing, Promise!Spec
=============================================================================
