---------------------------- MODULE DbApiProofs ----------------------------
(***************************************************************************)
(* Proof that marks in a flat statement list are nested transactions, that *)
(* the application is told the truth about its statements and that the     *)
(* operations of its connections are serializable in real time, for every  *)
(* set of connections and savepoint names and every bound.                 *)
(*                                                                         *)
(* The argument: a statement is in at most one request, a request is one   *)
(* number of one session, and a pending write is the last number its       *)
(* session has used.  So a request that the service will not run any more  *)
(* is known by its number or its epoch, and what was given up is in no     *)
(* other request.  An operation is placed at the revision it began at, or  *)
(* at the one its write made.                                              *)
(***************************************************************************)
EXTENDS DbApi, FiniteSetTheorems, WellFoundedInduction, TLAPS

\* No statement occurs twice.
Distinct(list) == \A i, j \in 1..Len(list) : list[i] = list[j] => i = j

-----------------------------------------------------------------------------
\* A set of naturals has a least element.
LEMMA LeastNumber ==
  ASSUME NEW T, T \subseteq Nat, T # {}
  PROVE  \E x \in T : \A y \in T : x <= y
<1> DEFINE R == OpToRel(<, Nat)
<1>1. \A x, y \in Nat : x < y => <<x, y>> \in R
  BY DEF OpToRel
<1>2. IsWellFoundedOn(R, Nat)
  BY NatLessThanWellFounded, Zenon
<1> HIDE DEF R
<1>3. PICK x \in T : \A y \in T : ~(<<y, x>> \in R)
  BY <1>2, WFMin
<1>4. ASSUME NEW y \in T PROVE x <= y
  <2>1. x \in Nat /\ y \in Nat /\ ~(<<y, x>> \in R)
    BY <1>3
  <2>2. ~(y < x)
    BY <1>1, <2>1
  <2> QED
    BY <2>1, <2>2
<1> QED
  BY <1>4

\* A set that holds 0 and with each number below top the next one holds all
\* numbers through top.
LEMMA NumberInduction ==
  ASSUME NEW top \in Nat, NEW P, 0 \in P,
         \A n \in 1..top : n - 1 \in P => n \in P
  PROVE  \A n \in 0..top : n \in P
<1> DEFINE T == {n \in 0..top : n \notin P}
<1> SUFFICES ASSUME T # {} PROVE FALSE
  OBVIOUS
<1>1. T \subseteq Nat
  OBVIOUS
<1>2. PICK n \in T : \A y \in T : n <= y
  <2> HIDE DEF T
  <2> QED
    BY <1>1, LeastNumber
<1>3. n \in 1..top
  BY <1>2
<1>4. n - 1 \notin T
  <2>1. n \in Nat /\ ~(n <= n - 1)
    BY <1>3
  <2> QED
    BY <1>2, <2>1
<1> QED
  BY <1>2, <1>3, <1>4

-----------------------------------------------------------------------------
\* The elements of a sequence, by their places.
LEMMA RangeMembers ==
  ASSUME NEW S, NEW list \in Seq(S)
  PROVE  /\ Range(list) \subseteq S
         /\ \A i \in 1..Len(list) : list[i] \in Range(list)
         /\ \A s \in Range(list) : \E i \in 1..Len(list) : s = list[i]
BY DEF Range

\* The elements of a sequence that is put together.
LEMMA RangeConcat ==
  ASSUME NEW S, NEW s \in Seq(S), NEW t \in Seq(S)
  PROVE  Range(s \o t) = Range(s) \cup Range(t)
<1>1. s \o t \in Seq(S) /\ Len(s \o t) = Len(s) + Len(t)
  OBVIOUS
<1>2. ASSUME NEW x \in Range(s \o t) PROVE x \in Range(s) \cup Range(t)
  <2>1. PICK i \in 1..Len(s \o t) : x = (s \o t)[i]
    BY <1>1 DEF Range
  <2>2. i <= Len(s) => x = s[i] /\ i \in 1..Len(s)
    BY <2>1
  <2>3. ~(i <= Len(s)) => x = t[i - Len(s)] /\ i - Len(s) \in 1..Len(t)
    BY <1>1, <2>1
  <2> QED
    BY <2>2, <2>3 DEF Range
<1>3. ASSUME NEW x \in Range(s) PROVE x \in Range(s \o t)
  <2>1. PICK i \in 1..Len(s) : x = s[i]
    BY DEF Range
  <2>2. i \in 1..Len(s \o t) /\ (s \o t)[i] = x
    BY <1>1, <2>1
  <2> QED
    BY <1>1, <2>2, RangeMembers
<1>4. ASSUME NEW x \in Range(t) PROVE x \in Range(s \o t)
  <2>1. PICK i \in 1..Len(t) : x = t[i]
    BY DEF Range
  <2>2. i + Len(s) \in 1..Len(s \o t) /\ (s \o t)[i + Len(s)] = x
    BY <1>1, <2>1
  <2> QED
    BY <1>1, <2>2, RangeMembers
<1> QED
  BY <1>2, <1>3, <1>4

\* The elements of no statement and of one.
LEMMA RangeSmall ==
  /\ Range(<<>>) = {}
  /\ \A x : Range(<<x>>) = {x}
BY DEF Range

\* The elements of a beginning.
LEMMA RangePrefix ==
  ASSUME NEW S, NEW s \in Seq(S), NEW n \in 0..Len(s)
  PROVE  Range(SubSeq(s, 1, n)) \subseteq Range(s)
<1>1. SubSeq(s, 1, n) \in Seq(S) /\ Len(SubSeq(s, 1, n)) = n
  OBVIOUS
<1> SUFFICES ASSUME NEW x \in Range(SubSeq(s, 1, n)) PROVE x \in Range(s)
  OBVIOUS
<1>2. PICK i \in 1..n : x = SubSeq(s, 1, n)[i]
  BY <1>1 DEF Range
<1>3. x = s[i] /\ i \in 1..Len(s)
  BY <1>2
<1> QED
  BY <1>3, RangeMembers

\* Beginnings of a sequence without repetitions have none, and a new element
\* may be put at its end.
LEMMA DistinctPrefix ==
  ASSUME NEW S, NEW s \in Seq(S), Distinct(s), NEW n \in 0..Len(s)
  PROVE  Distinct(SubSeq(s, 1, n))
<1>1. Len(SubSeq(s, 1, n)) = n /\ \A i \in 1..n : SubSeq(s, 1, n)[i] = s[i]
  OBVIOUS
<1>2. 1..n \subseteq 1..Len(s)
  OBVIOUS
<1> QED
  BY <1>1, <1>2 DEF Distinct

\* A new element may be put at the end.
LEMMA DistinctAppend ==
  ASSUME NEW S, NEW s \in Seq(S), Distinct(s), NEW x \in S, x \notin Range(s)
  PROVE  Distinct(s \o <<x>>)
<1> DEFINE t == s \o <<x>>
<1>1. /\ Len(t) = Len(s) + 1 /\ t[Len(s) + 1] = x
      /\ \A i \in 1..Len(s) : t[i] = s[i]
  OBVIOUS
<1>2. \A i \in 1..Len(s) : s[i] # x
  BY RangeMembers
<1> SUFFICES ASSUME NEW i \in 1..Len(t), NEW j \in 1..Len(t), t[i] = t[j] PROVE i = j
  BY DEF Distinct
<1> HIDE DEF t
<1>3. \A k \in 1..Len(t) : k \in 1..Len(s) \/ k = Len(s) + 1
  BY <1>1
<1>4. CASE i \in 1..Len(s) /\ j \in 1..Len(s)
  BY <1>1, <1>4 DEF Distinct
<1>5. CASE i \in 1..Len(s) /\ j = Len(s) + 1
  BY <1>1, <1>2, <1>5
<1>6. CASE j \in 1..Len(s) /\ i = Len(s) + 1
  BY <1>1, <1>2, <1>6
<1> QED
  BY <1>3, <1>4, <1>5, <1>6

\* A list of distinct new statements makes their rows active.
LEMMA AfterDistinct ==
  ASSUME NEW list \in Seq(Stmts), Distinct(list), NEW state,
         Range(list) \cap state = {}
  PROVE  After(state, list) = state \cup Range(list)
<1>1. ASSUME NEW s \in Range(list)
      PROVE  Cardinality({i \in 1..Len(list) : list[i] = s}) % 2 = 1
  <2>1. PICK i \in 1..Len(list) : s = list[i]
    BY RangeMembers
  <2>2. {k \in 1..Len(list) : list[k] = s} = {i}
    BY <2>1 DEF Distinct
  <2>3. Cardinality({i}) = 1
    BY FS_Singleton, Zenon
  <2>4. 1 % 2 = 1
    OBVIOUS
  <2> QED
    BY <2>2, <2>3, <2>4, Zenon
<1>2. {s \in Range(list) : Cardinality({i \in 1..Len(list) : list[i] = s}) % 2 = 1} = Range(list)
  BY <1>1
<1> QED
  BY <1>2 DEF After, Toggle

-----------------------------------------------------------------------------
\* The recursion of FlattenSeq, unfolded.
Flattens(seqs, top, g) ==
    g = [i \in 1..top |-> IF i = 1 THEN seqs[i] ELSE g[i-1] \o seqs[i]]

\* It can be unfolded through every length.
LEMMA FlatteningExists ==
  ASSUME NEW seqs, NEW top \in Nat
  PROVE  \E g : Flattens(seqs, top, g)
<1> DEFINE P == {n \in Nat : \E g : Flattens(seqs, n, g)}
<1>1. 0 \in P
  <2> DEFINE g == [i \in 1..0 |-> <<>>]
  <2>1. g = [i \in 1..0 |-> IF i = 1 THEN seqs[i] ELSE g[i-1] \o seqs[i]]
    OBVIOUS
  <2>2. Flattens(seqs, 0, g)
    <3> HIDE DEF g
    <3> QED
      BY <2>1 DEF Flattens
  <2> QED
    BY <2>2
<1>2. ASSUME NEW n \in 1..top, n - 1 \in P PROVE n \in P
  <2>1. PICK g : Flattens(seqs, n - 1, g)
    BY <1>2
  <2> DEFINE last == IF n = 1 THEN seqs[n] ELSE g[n-1] \o seqs[n]
             h == [i \in 1..n |-> IF i = n THEN last ELSE g[i]]
  <2>2. g = [i \in 1..n-1 |-> IF i = 1 THEN seqs[i] ELSE g[i-1] \o seqs[i]]
    BY <2>1 DEF Flattens
  <2>3. ASSUME NEW i \in 1..n
        PROVE  h[i] = IF i = 1 THEN seqs[i] ELSE h[i-1] \o seqs[i]
    <3>1. CASE i = n
      <4>1. n # 1 => n - 1 \in 1..n /\ n - 1 # n
        OBVIOUS
      <4>2. h[n] = last /\ (n # 1 => h[n-1] = g[n-1])
        BY <4>1
      <4> HIDE DEF h
      <4> QED
        BY <3>1, <4>2
    <3>2. CASE i # n
      <4>1. i \in 1..n-1 /\ (i # 1 => i - 1 \in 1..n /\ i - 1 # n)
        BY <3>2
      <4>2. h[i] = g[i] /\ (i # 1 => h[i-1] = g[i-1])
        BY <3>2, <4>1
      <4>3. g[i] = IF i = 1 THEN seqs[i] ELSE g[i-1] \o seqs[i]
        BY <2>2, <4>1
      <4> HIDE DEF h
      <4> QED
        BY <4>2, <4>3
    <3> QED
      BY <3>1, <3>2
  <2>4. h = [i \in 1..n |-> IF i = 1 THEN seqs[i] ELSE h[i-1] \o seqs[i]]
    <3>1. h = [i \in 1..n |-> h[i]]
      OBVIOUS
    <3> HIDE DEF h
    <3> QED
      BY <2>3, <3>1
  <2>5. Flattens(seqs, n, h)
    <3> HIDE DEF h
    <3> QED
      BY <2>4 DEF Flattens
  <2>6. n \in Nat
    OBVIOUS
  <2> HIDE DEF h
  <2> QED
    BY <2>5, <2>6
<1>3. \A n \in 0..top : n \in P
  <2> HIDE DEF P
  <2> QED
    BY <1>1, <1>2, NumberInduction
<1> QED
  BY <1>3

\* The recursive equation of the work of a nest.
LEMMA WorkUnfolds ==
  ASSUME NEW nest \in Seq(Frames), nest # <<>>
  PROVE  \E r : /\ Work(nest) = r[Len(nest)] /\ r[1] = nest[1].work
                /\ \A i \in 2..Len(nest) : r[i] = r[i-1] \o nest[i].work
<1> DEFINE seqs == [i \in 1..Len(nest) |-> nest[i].work]
           n == Len(nest)
           r == CHOOSE g : Flattens(seqs, n, g)
<1>1. n \in Nat \ {0} /\ Len(seqs) = n /\ \A i \in 1..n : seqs[i] = nest[i].work
  OBVIOUS
<1>2. Work(nest) = FlattenSeq(seqs)
  BY DEF Work
<1>3. \E g : Flattens(seqs, n, g)
  BY <1>1, FlatteningExists
<1> HIDE DEF seqs
<1>4. FlattenSeq(seqs) = r[n]
  BY <1>1 DEF FlattenSeq, Flattens
<1>5. Flattens(seqs, n, r)
  BY <1>3
<1> HIDE DEF r
<1>6. r = [i \in 1..n |-> IF i = 1 THEN seqs[i] ELSE r[i-1] \o seqs[i]]
  BY <1>5 DEF Flattens
<1> HIDE DEF n
<1>7. r[1] = seqs[1] /\ \A i \in 2..n : r[i] = r[i-1] \o seqs[i]
  <2>1. 1 \in 1..n /\ \A i \in 2..n : i \in 1..n /\ i # 1
    BY <1>1
  <2>2. r[1] = seqs[1]
    BY <1>6, <2>1
  <2>3. ASSUME NEW i \in 2..n PROVE r[i] = r[i-1] \o seqs[i]
    <3>1. i \in 1..n /\ i # 1
      BY <2>1
    <3> QED
      BY <1>6, <3>1
  <2> QED
    BY <2>2, <2>3
<1>8. /\ Work(nest) = r[n] /\ r[1] = nest[1].work
      /\ \A i \in 2..n : r[i] = r[i-1] \o nest[i].work
  <2>1. 1 \in 1..n /\ 2..n \subseteq 1..n
    BY <1>1
  <2> QED
    BY <1>1, <1>2, <1>4, <1>7, <2>1
<1> QED
  BY <1>8 DEF n

\* No frames hold no work.
LEMMA WorkEmpty == Work(<<>>) = <<>>
<1>1. [i \in 1..Len(<<>>) |-> <<>>[i].work] = <<>>
  OBVIOUS
<1>2. FlattenSeq(<<>>) = <<>>
  BY DEF FlattenSeq
<1> QED
  BY <1>1, <1>2 DEF Work

\* A frame adds its work to the work of the frames around it.
LEMMA WorkAppend ==
  ASSUME NEW nest \in Seq(Frames), NEW f \in Frames
  PROVE  Work(Append(nest, f)) = Work(nest) \o f.work
<1> DEFINE n == Len(nest)
           more == Append(nest, f)
<1>1. /\ n \in Nat /\ more \in Seq(Frames) /\ more # <<>> /\ Len(more) = n + 1
      /\ more[n + 1] = f /\ \A i \in 1..n : more[i] = nest[i]
  OBVIOUS
<1>2. f.work \in Seq(Stmts)
  BY DEF Frames
<1> HIDE DEF more
<1>3. PICK r : /\ Work(more) = r[Len(more)] /\ r[1] = more[1].work
               /\ \A i \in 2..Len(more) : r[i] = r[i-1] \o more[i].work
  BY <1>1, WorkUnfolds
<1>4. CASE nest = <<>>
  <2>1. n = 0 /\ <<>> \o f.work = f.work
    BY <1>2, <1>4
  <2>2. Len(more) = 1 /\ more[1] = f
    BY <1>1, <2>1
  <2>3. Work(more) = f.work
    BY <1>3, <2>2
  <2> QED
    BY <1>4, <2>1, <2>3, WorkEmpty DEF more
<1>5. CASE nest # <<>>
  <2>1. PICK q : /\ Work(nest) = q[n] /\ q[1] = nest[1].work
                 /\ \A i \in 2..n : q[i] = q[i-1] \o nest[i].work
    BY <1>5, WorkUnfolds
  <2> DEFINE P == {i \in Nat : i = 0 \/ r[i] = q[i]}
  <2>2. n >= 1
    BY <1>5
  <2> HIDE DEF n
  <2>3. ASSUME NEW i \in 1..n, i - 1 \in P PROVE i \in P
    <3>1. CASE i = 1
      BY <1>1, <1>3, <2>1, <3>1
    <3>2. CASE i # 1
      <4>1. i \in 2..n /\ i \in 2..Len(more) /\ i - 1 # 0 /\ more[i] = nest[i] /\ i \in Nat
        BY <1>1, <3>2
      <4>2. r[i-1] = q[i-1]
        BY <2>3, <4>1
      <4> QED
        BY <1>3, <2>1, <4>1, <4>2
    <3> QED
      BY <3>1, <3>2
  <2>4. \A i \in 0..n : i \in P
    <3>1. 0 \in P
      OBVIOUS
    <3> HIDE DEF P
    <3> QED
      BY <1>1, <2>3, <3>1, NumberInduction
  <2>5. r[n] = q[n]
    BY <1>1, <2>2, <2>4
  <2>6. n + 1 \in 2..Len(more) /\ (n + 1) - 1 = n
    BY <1>1, <2>2
  <2> QED
    BY <1>1, <1>3, <2>1, <2>5, <2>6 DEF more
<1> QED
  BY <1>4, <1>5

\* A sequence that is not empty ends in its last element.
LEMMA LastOfSequence ==
  ASSUME NEW S, NEW s \in Seq(S), NEW n \in 1..Len(s)
  PROVE  /\ SubSeq(s, 1, n) = Append(SubSeq(s, 1, n - 1), s[n])
         /\ SubSeq(s, 1, n - 1) \in Seq(S) /\ s[n] \in S
OBVIOUS

\* The work of nested frames is a list of statements.
LEMMA WorkType ==
  ASSUME NEW nest \in Seq(Frames)
  PROVE  Work(nest) \in Seq(Stmts)
<1> DEFINE P == {n \in Nat : Work(SubSeq(nest, 1, n)) \in Seq(Stmts)}
<1>1. 0 \in P
  <2>1. SubSeq(nest, 1, 0) = <<>> /\ <<>> \in Seq(Stmts)
    OBVIOUS
  <2> QED
    BY <2>1, WorkEmpty
<1>2. ASSUME NEW n \in 1..Len(nest), n - 1 \in P PROVE n \in P
  <2> DEFINE s == SubSeq(nest, 1, n - 1)
  <2>1. SubSeq(nest, 1, n) = Append(s, nest[n]) /\ s \in Seq(Frames) /\ nest[n] \in Frames
    BY LastOfSequence
  <2>2. Work(s) \in Seq(Stmts) /\ nest[n].work \in Seq(Stmts) /\ n \in Nat
    BY <1>2, <2>1 DEF Frames
  <2> HIDE DEF s
  <2>3. Work(Append(s, nest[n])) \in Seq(Stmts)
    <3>1. Work(Append(s, nest[n])) = Work(s) \o nest[n].work
      BY <2>1, WorkAppend
    <3>2. Work(s) \o nest[n].work \in Seq(Stmts)
      BY <2>2
    <3> QED
      BY <3>1, <3>2
  <2> QED
    BY <2>1, <2>2, <2>3
<1>3. \A n \in 0..Len(nest) : n \in P
  <2> HIDE DEF P
  <2>1. Len(nest) \in Nat
    OBVIOUS
  <2> QED
    BY <1>1, <1>2, <2>1, NumberInduction
<1>4. SubSeq(nest, 1, Len(nest)) = nest /\ Len(nest) \in 0..Len(nest)
  OBVIOUS
<1> QED
  BY <1>3, <1>4

\* What ends in a statement is not empty.
LEMMA ConcatNotEmpty ==
  ASSUME NEW S, NEW a \in Seq(S), NEW b \in Seq(S), Len(b) = 1
  PROVE  a \o b # <<>>
<1>1. \A x, y \in Seq(S) : Len(x \o y) = Len(x) + Len(y) /\ Len(x) \in Nat
  OBVIOUS
<1>2. Len(a \o b) = Len(a) + Len(b) /\ Len(a) \in Nat
  BY <1>1, Zenon
<1> QED
  BY <1>2

\* Concatenation is associative.
LEMMA ConcatAssociative ==
  ASSUME NEW S, NEW x \in Seq(S), NEW y \in Seq(S), NEW z \in Seq(S)
  PROVE  (x \o y) \o z = x \o (y \o z)
OBVIOUS

\* The work of two nests, one in the other.
LEMMA WorkConcat ==
  ASSUME NEW a \in Seq(Frames), NEW b \in Seq(Frames)
  PROVE  Work(a \o b) = Work(a) \o Work(b)
<1> DEFINE P == {n \in Nat : Work(a \o SubSeq(b, 1, n)) = Work(a) \o Work(SubSeq(b, 1, n))}
<1>1. 0 \in P
  <2>1. SubSeq(b, 1, 0) = <<>> /\ a \o <<>> = a
    OBVIOUS
  <2>2. Work(a) \o <<>> = Work(a)
    BY WorkType
  <2> QED
    BY <2>1, <2>2, WorkEmpty
<1>2. ASSUME NEW n \in 1..Len(b), n - 1 \in P PROVE n \in P
  <2> DEFINE s == SubSeq(b, 1, n - 1)
  <2>1. SubSeq(b, 1, n) = Append(s, b[n]) /\ s \in Seq(Frames) /\ b[n] \in Frames
    BY LastOfSequence
  <2>2. Work(a \o s) = Work(a) \o Work(s) /\ n \in Nat
    BY <1>2
  <2> HIDE DEF s
  <2>3. a \o Append(s, b[n]) = Append(a \o s, b[n]) /\ a \o s \in Seq(Frames)
    BY <2>1
  <2>4. Work(Append(s, b[n])) = Work(s) \o b[n].work
    BY <2>1, WorkAppend
  <2>5. Work(Append(a \o s, b[n])) = Work(a \o s) \o b[n].work
    BY <2>1, <2>3, WorkAppend
  <2>6. Work(a) \in Seq(Stmts) /\ Work(s) \in Seq(Stmts) /\ b[n].work \in Seq(Stmts)
    BY <2>1, WorkType DEF Frames
  <2>7. (Work(a) \o Work(s)) \o b[n].work = Work(a) \o (Work(s) \o b[n].work)
    <3> DEFINE x == Work(a)
               y == Work(s)
               z == b[n].work
    <3>1. x \in Seq(Stmts) /\ y \in Seq(Stmts) /\ z \in Seq(Stmts)
      BY <2>6
    <3> HIDE DEF x, y, z
    <3>2. (x \o y) \o z = x \o (y \o z)
      BY <3>1, ConcatAssociative
    <3> QED
      BY <3>2 DEF x, y, z
  <2> QED
    BY <2>1, <2>2, <2>3, <2>4, <2>5, <2>7
<1>3. \A n \in 0..Len(b) : n \in P
  <2> HIDE DEF P
  <2>1. Len(b) \in Nat
    OBVIOUS
  <2> QED
    BY <1>1, <1>2, <2>1, NumberInduction
<1>4. SubSeq(b, 1, Len(b)) = b /\ Len(b) \in 0..Len(b)
  OBVIOUS
<1> QED
  BY <1>3, <1>4

-----------------------------------------------------------------------------
\* Marks in a list of statements stand for a nest of frames.
SavepointMarks == [name : Names, at : Nat]

NestOf(nest, list, marks) ==
    /\ Len(nest) = Len(marks) + 1 /\ nest[1].name = None
    /\ list = Work(nest)
    /\ \A i \in 1..Len(marks) : /\ marks[i].name = nest[i+1].name
                                /\ marks[i].at = Len(Work(SubSeq(nest, 1, i)))

\* A transaction that has just begun.
LEMMA NestBase == Base \in Seq(Frames) /\ NestOf(Base, <<>>, <<>>)
<1> DEFINE f == [name |-> None, work |-> <<>>]
<1>1. f \in Frames /\ <<>> \in Seq(Frames) /\ Base = Append(<<>>, f)
  BY DEF Frames, Base
<1>2. Work(Base) = <<>>
  <2>1. Work(Append(<<>>, f)) = Work(<<>>) \o f.work
    BY <1>1, WorkAppend
  <2> QED
    BY <1>1, <2>1, WorkEmpty
<1>3. Base \in Seq(Frames) /\ Len(Base) = Len(<<>>) + 1 /\ Base[1].name = None
  BY <1>1 DEF Base
<1> QED
  BY <1>2, <1>3 DEF NestOf

\* A nest that is cut at a frame whose work is replaced.
LEMMA NestCut ==
  ASSUME NEW nest \in Seq(Frames), NEW list, NEW marks \in Seq(SavepointMarks),
         NestOf(nest, list, marks),
         NEW k \in 0..Len(marks), NEW f \in Frames, f.name = nest[k + 1].name
  PROVE  /\ Append(SubSeq(nest, 1, k), f) \in Seq(Frames)
         /\ SubSeq(marks, 1, k) \in Seq(SavepointMarks)
         /\ NestOf(Append(SubSeq(nest, 1, k), f), Work(SubSeq(nest, 1, k)) \o f.work,
                   SubSeq(marks, 1, k))
<1> DEFINE outer == SubSeq(nest, 1, k)
           cut == Append(outer, f)
           kept == SubSeq(marks, 1, k)
<1>1. Len(nest) = Len(marks) + 1 /\ nest[1].name = None
  BY DEF NestOf
<1>2. /\ outer \in Seq(Frames) /\ Len(outer) = k /\ \A i \in 1..k : outer[i] = nest[i]
      /\ kept \in Seq(SavepointMarks) /\ Len(kept) = k /\ \A i \in 1..k : kept[i] = marks[i]
  BY <1>1
<1>3. /\ cut \in Seq(Frames) /\ Len(cut) = k + 1 /\ cut[k + 1] = f
      /\ \A i \in 1..k : cut[i] = nest[i]
  BY <1>2
<1>4. \A i \in 1..k : SubSeq(cut, 1, i) = SubSeq(nest, 1, i)
  BY <1>1, <1>2
<1>5. Work(cut) = Work(outer) \o f.work
  BY <1>2, WorkAppend
<1> HIDE DEF cut, kept, outer
<1>6. cut[1].name = None
  BY <1>1, <1>3
<1>7. ASSUME NEW i \in 1..k
      PROVE  /\ kept[i].name = cut[i+1].name
             /\ kept[i].at = Len(Work(SubSeq(cut, 1, i)))
  <2>1. marks[i].name = nest[i+1].name /\ marks[i].at = Len(Work(SubSeq(nest, 1, i)))
    BY DEF NestOf
  <2>2. cut[i+1].name = nest[i+1].name
    BY <1>3
  <2> QED
    BY <1>2, <1>4, <2>1, <2>2
<1>8. NestOf(cut, Work(outer) \o f.work, kept)
  BY <1>2, <1>3, <1>5, <1>6, <1>7 DEF NestOf
<1> QED
  BY <1>2, <1>3, <1>8 DEF cut, kept, outer

\* A frame with other work is a frame.
LEMMA FrameGrows ==
  ASSUME NEW f \in Frames, NEW more \in Seq(Stmts)
  PROVE  LET grown == [f EXCEPT !.work = @ \o more]
             empty == [f EXCEPT !.work = <<>>]
         IN  /\ grown \in Frames /\ grown.name = f.name /\ grown.work = f.work \o more
             /\ empty \in Frames /\ empty.name = f.name /\ empty.work = <<>>
<1> DEFINE long == f.work \o more
<1>1. /\ f = [name |-> f.name, work |-> f.work] /\ f.name \in Names \cup {None}
      /\ f.work \in Seq(Stmts)
  BY DEF Frames
<1>2. long \in Seq(Stmts) /\ <<>> \in Seq(Stmts)
  BY <1>1
<1> HIDE DEF long
<1>3. \A w \in Seq(Stmts) : LET g == [f EXCEPT !.work = w] IN
        g \in Frames /\ g.name = f.name /\ g.work = w
  BY <1>1 DEF Frames
<1>4. [f EXCEPT !.work = @ \o more] = [f EXCEPT !.work = long]
  BY DEF long
<1> QED
  BY <1>2, <1>3, <1>4 DEF long

\* Preview of a statement: the innermost frame grows.
LEMMA NestWrite ==
  ASSUME NEW nest \in Seq(Frames), NEW list, NEW marks \in Seq(SavepointMarks),
         NestOf(nest, list, marks), NEW more \in Seq(Stmts)
  PROVE  LET grown == [nest EXCEPT ![Len(nest)].work = @ \o more] IN
         grown \in Seq(Frames) /\ NestOf(grown, list \o more, marks)
<1> DEFINE k == Len(marks)
           f == [nest[k + 1] EXCEPT !.work = @ \o more]
           grown == [nest EXCEPT ![Len(nest)].work = @ \o more]
<1>1. Len(nest) = k + 1 /\ k \in 0..Len(marks) /\ nest[k + 1] \in Frames /\ list = Work(nest)
  BY DEF NestOf
<1>2. f \in Frames /\ f.name = nest[k + 1].name /\ f.work = nest[k + 1].work \o more
  BY <1>1, FrameGrows
<1>3. grown = Append(SubSeq(nest, 1, k), f) /\ SubSeq(marks, 1, k) = marks
  BY <1>1
<1>4. nest = Append(SubSeq(nest, 1, k), nest[k + 1]) /\ SubSeq(nest, 1, k) \in Seq(Frames)
  BY <1>1
<1> HIDE DEF f, k, grown
<1>5. /\ Append(SubSeq(nest, 1, k), f) \in Seq(Frames)
      /\ NestOf(Append(SubSeq(nest, 1, k), f), Work(SubSeq(nest, 1, k)) \o f.work, marks)
  BY <1>1, <1>2, <1>3, NestCut
<1>6. list = Work(SubSeq(nest, 1, k)) \o nest[k + 1].work
  BY <1>1, <1>4, WorkAppend
<1>7. Work(SubSeq(nest, 1, k)) \o (nest[k + 1].work \o more) = list \o more
  <2> DEFINE x == Work(SubSeq(nest, 1, k))
             y == nest[k + 1].work
  <2>1. x \in Seq(Stmts) /\ y \in Seq(Stmts)
    BY <1>1, <1>4, WorkType DEF Frames
  <2> HIDE DEF x, y
  <2>2. (x \o y) \o more = x \o (y \o more)
    BY <2>1, ConcatAssociative
  <2> QED
    BY <1>6, <2>2 DEF x, y
<1> QED
  BY <1>2, <1>3, <1>5, <1>7 DEF grown

\* A savepoint opens an empty frame.
LEMMA NestSavepoint ==
  ASSUME NEW nest \in Seq(Frames), NEW list, NEW marks \in Seq(SavepointMarks),
         NestOf(nest, list, marks), NEW name \in Names
  PROVE  LET inner == Append(nest, [name |-> name, work |-> <<>>])
             more == Append(marks, [name |-> name, at |-> Len(list)])
         IN  inner \in Seq(Frames) /\ more \in Seq(SavepointMarks) /\ NestOf(inner, list, more)
<1> DEFINE f == [name |-> name, work |-> <<>>]
           m == [name |-> name, at |-> Len(list)]
           inner == Append(nest, f)
           more == Append(marks, m)
           k == Len(marks)
<1>1. Len(nest) = k + 1 /\ k \in Nat /\ list = Work(nest) /\ nest[1].name = None
  BY DEF NestOf
<1>2. f \in Frames /\ f.name = name /\ f.work = <<>>
  BY DEF Frames
<1>3. list \in Seq(Stmts) /\ list \o <<>> = list
  BY <1>1, WorkType
<1>4. m \in SavepointMarks /\ m.name = name /\ m.at = Len(list)
  BY <1>3 DEF SavepointMarks
<1> HIDE DEF f, m
<1>5. Work(inner) = list
  BY <1>1, <1>2, <1>3, WorkAppend
<1>6. /\ inner \in Seq(Frames) /\ Len(inner) = k + 2 /\ inner[k + 2] = f
      /\ \A i \in 1..k+1 : inner[i] = nest[i]
      /\ SubSeq(inner, 1, k + 1) = nest
      /\ \A i \in 1..k : SubSeq(inner, 1, i) = SubSeq(nest, 1, i)
  BY <1>1, <1>2
<1>7. /\ more \in Seq(SavepointMarks) /\ Len(more) = k + 1 /\ more[k + 1] = m
      /\ \A i \in 1..k : more[i] = marks[i]
  BY <1>4
<1> HIDE DEF inner, more
<1>8. ASSUME NEW i \in 1..k+1
      PROVE  more[i].name = inner[i+1].name /\ more[i].at = Len(Work(SubSeq(inner, 1, i)))
  <2>1. CASE i = k + 1
    <3>1. (k + 1) + 1 = k + 2
      BY <1>1
    <3> QED
      BY <1>1, <1>2, <1>4, <1>6, <1>7, <2>1, <3>1
  <2>2. CASE i \in 1..k
    <3>1. marks[i].name = nest[i+1].name /\ marks[i].at = Len(Work(SubSeq(nest, 1, i)))
      BY <2>2 DEF NestOf
    <3>2. i + 1 \in 1..k+1
      BY <1>1, <2>2
    <3> QED
      BY <1>6, <1>7, <2>2, <3>1, <3>2
  <2> QED
    BY <1>1, <2>1, <2>2
<1>9. NestOf(inner, list, more)
  <2>1. Len(inner) = Len(more) + 1 /\ inner[1].name = None
    BY <1>1, <1>6, <1>7
  <2> QED
    BY <1>5, <1>7, <1>8, <2>1 DEF NestOf
<1> QED
  BY <1>6, <1>7, <1>9 DEF inner, more, f, m

\* The innermost mark of a name, and the frame it stands for.
LEMMA NestIndex ==
  ASSUME NEW nest \in Seq(Frames), NEW list, NEW marks \in Seq(SavepointMarks),
         NestOf(nest, list, marks), NEW name \in Names, Marks(marks, name)
  PROVE  LET mark == _savepoint_index(marks, name) IN
         /\ mark \in 1..Len(marks) /\ marks[mark].name = name
         /\ _savepoint_index(nest, name) = mark + 1
<1> DEFINE k == Len(marks)
           Is(i) == marks[i].name = name /\ \A j \in i+1..k : marks[j].name # name
           IsFrame(i) == nest[i].name = name /\ \A j \in i+1..k+1 : nest[j].name # name
           mark == _savepoint_index(marks, name)
<1>1. Len(nest) = k + 1 /\ k \in Nat /\ nest[1].name = None
  BY DEF NestOf
<1>2. name # None
  BY ValueAssumption
<1>3. \E i \in 1..k : Is(i)
  <2> DEFINE T == {d \in Nat : d <= k /\ marks[k - d].name = name /\ k - d \in 1..k}
  <2>1. PICK i \in 1..k : marks[i].name = name
    BY DEF Marks
  <2>2. k - i \in T
    <3>1. k - i \in Nat /\ k - i <= k /\ k - (k - i) = i
      BY <1>1
    <3> QED
      BY <2>1, <3>1
  <2>3. T \subseteq Nat /\ T # {}
    BY <2>2
  <2>4. PICK d \in T : \A e \in T : d <= e
    <3> HIDE DEF T
    <3> QED
      BY <2>3, LeastNumber
  <2>5. k - d \in 1..k /\ marks[k - d].name = name
    BY <2>4
  <2>6. ASSUME NEW j \in (k-d)+1..k, marks[j].name = name PROVE FALSE
    <3>1. k - j \in Nat /\ k - j <= k /\ k - (k - j) = j /\ j \in 1..k /\ ~(d <= k - j)
      BY <1>1, <2>4, <2>5
    <3>2. k - j \in T
      BY <2>6, <3>1
    <3> QED
      BY <2>4, <3>1, <3>2
  <2>7. Is(k - d)
    BY <2>5, <2>6
  <2> QED
    BY <2>5, <2>7
<1>4. mark \in 1..k /\ Is(mark)
  BY <1>3 DEF _savepoint_index
<1> HIDE DEF mark
<1>5. \A i \in 1..k : marks[i].name = nest[i+1].name
  BY DEF NestOf
<1>6. IsFrame(mark + 1)
  <2>1. nest[mark + 1].name = name
    BY <1>4, <1>5
  <2>2. ASSUME NEW j \in (mark+1)+1..k+1 PROVE nest[j].name # name
    <3>1. j - 1 \in mark+1..k /\ (j - 1) + 1 = j /\ j - 1 \in 1..k
      BY <1>1, <1>4
    <3>2. marks[j - 1].name # name
      BY <1>4, <3>1
    <3>3. marks[j - 1].name = nest[(j - 1) + 1].name
      BY <1>5, <3>1
    <3> QED
      BY <3>1, <3>2, <3>3
  <2> QED
    BY <2>1, <2>2
<1>7. mark + 1 \in 1..k+1
  BY <1>1, <1>4
<1>8. ASSUME NEW i \in 1..k+1, IsFrame(i) PROVE i = mark + 1
  <2>1. CASE i < mark + 1
    <3>1. mark + 1 \in i+1..k+1
      BY <1>7, <2>1
    <3> QED
      BY <1>6, <1>8, <3>1
  <2>2. CASE mark + 1 < i
    <3>1. i \in (mark+1)+1..k+1
      BY <1>7, <2>2
    <3> QED
      BY <1>6, <1>8, <3>1
  <2> QED
    BY <1>7, <2>1, <2>2
<1>9. _savepoint_index(nest, name) = CHOOSE i \in 1..k+1 : IsFrame(i)
  BY <1>1 DEF _savepoint_index
<1>10. _savepoint_index(nest, name) = mark + 1
  <2> HIDE DEF IsFrame
  <2> QED
    BY <1>6, <1>7, <1>8, <1>9
<1> QED
  BY <1>4, <1>10 DEF mark

\* ROLLBACK TO: the frame starts over.
LEMMA NestRollback ==
  ASSUME NEW nest \in Seq(Frames), NEW list, NEW marks \in Seq(SavepointMarks),
         NestOf(nest, list, marks), NEW m \in 1..Len(marks)
  PROVE  LET cut == Append(SubSeq(nest, 1, m), [nest[m + 1] EXCEPT !.work = <<>>])
             kept == SubSeq(list, 1, marks[m].at)
         IN  /\ marks[m].at \in 0..Len(list)
             /\ cut \in Seq(Frames) /\ SubSeq(marks, 1, m) \in Seq(SavepointMarks)
             /\ NestOf(cut, kept, SubSeq(marks, 1, m))
<1> DEFINE f == [nest[m + 1] EXCEPT !.work = <<>>]
           outer == SubSeq(nest, 1, m)
           inner == SubSeq(nest, m + 1, Len(nest))
           cut == Append(outer, f)
<1>1. /\ Len(nest) = Len(marks) + 1 /\ list = Work(nest)
      /\ marks[m].at = Len(Work(SubSeq(nest, 1, m)))
  BY DEF NestOf
<1>2. /\ m \in 0..Len(marks) /\ nest[m + 1] \in Frames /\ outer \in Seq(Frames)
      /\ inner \in Seq(Frames) /\ nest = outer \o inner
  BY <1>1
<1>3. f \in Frames /\ f.name = nest[m + 1].name /\ f.work = <<>>
  <2>1. <<>> \in Seq(Stmts)
    OBVIOUS
  <2> QED
    BY <1>2, <2>1, FrameGrows
<1> HIDE DEF f, outer, inner
<1>4. list = Work(outer) \o Work(inner) /\ Work(outer) \in Seq(Stmts) /\ Work(inner) \in Seq(Stmts)
  BY <1>1, <1>2, WorkConcat, WorkType
<1>5. /\ Len(Work(outer)) \in 0..Len(list) /\ SubSeq(list, 1, Len(Work(outer))) = Work(outer)
      /\ Work(outer) \o <<>> = Work(outer)
  <2> DEFINE x == Work(outer)
             y == Work(inner)
  <2>1. x \in Seq(Stmts) /\ y \in Seq(Stmts)
    BY <1>4
  <2> HIDE DEF x, y
  <2>2. /\ Len(x) \in 0..Len(x \o y) /\ SubSeq(x \o y, 1, Len(x)) = x /\ x \o <<>> = x
    BY <2>1
  <2> QED
    BY <1>4, <2>2 DEF x, y
<1>6. /\ cut \in Seq(Frames) /\ SubSeq(marks, 1, m) \in Seq(SavepointMarks)
      /\ NestOf(cut, Work(outer) \o f.work, SubSeq(marks, 1, m))
  <2>1. f.name = nest[m + 1].name /\ f \in Frames
    BY <1>3
  <2> QED
    BY <1>2, <2>1, NestCut DEF outer
<1> QED
  BY <1>1, <1>3, <1>5, <1>6 DEF outer, f

\* RELEASE: the frame becomes part of the one around it.
LEMMA NestRelease ==
  ASSUME NEW nest \in Seq(Frames), NEW list, NEW marks \in Seq(SavepointMarks),
         NestOf(nest, list, marks), NEW m \in 1..Len(marks)
  PROVE  LET f == [nest[m] EXCEPT !.work = @ \o Work(SubSeq(nest, m + 1, Len(nest)))]
             joined == Append(SubSeq(nest, 1, m - 1), f)
         IN  /\ joined \in Seq(Frames) /\ SubSeq(marks, 1, m - 1) \in Seq(SavepointMarks)
             /\ NestOf(joined, list, SubSeq(marks, 1, m - 1))
<1> DEFINE outer == SubSeq(nest, 1, m - 1)
           inner == SubSeq(nest, m + 1, Len(nest))
           f == [nest[m] EXCEPT !.work = @ \o Work(inner)]
           joined == Append(outer, f)
<1>1. Len(nest) = Len(marks) + 1 /\ list = Work(nest)
  BY DEF NestOf
<1>2. /\ m - 1 \in 0..Len(marks) /\ (m - 1) + 1 = m /\ nest[m] \in Frames /\ outer \in Seq(Frames)
      /\ inner \in Seq(Frames) /\ nest = Append(outer, nest[m]) \o inner
      /\ Append(outer, nest[m]) \in Seq(Frames)
  BY <1>1
<1> HIDE DEF outer, inner
<1>3. Work(inner) \in Seq(Stmts) /\ Work(outer) \in Seq(Stmts) /\ nest[m].work \in Seq(Stmts)
  BY <1>2, WorkType DEF Frames
<1>4. f \in Frames /\ f.name = nest[m].name /\ f.work = nest[m].work \o Work(inner)
  BY <1>2, <1>3, FrameGrows
<1> HIDE DEF f
<1>5. list = Work(outer) \o f.work
  <2>1. list = Work(Append(outer, nest[m])) \o Work(inner)
    BY <1>1, <1>2, WorkConcat
  <2>2. Work(Append(outer, nest[m])) = Work(outer) \o nest[m].work
    BY <1>2, WorkAppend
  <2> DEFINE x == Work(outer)
             y == nest[m].work
             z == Work(inner)
  <2>3. x \in Seq(Stmts) /\ y \in Seq(Stmts) /\ z \in Seq(Stmts)
    BY <1>3
  <2> HIDE DEF x, y, z
  <2>4. (x \o y) \o z = x \o (y \o z)
    BY <2>3, ConcatAssociative
  <2> QED
    BY <1>4, <2>1, <2>2, <2>4 DEF x, y, z
<1>6. /\ joined \in Seq(Frames) /\ SubSeq(marks, 1, m - 1) \in Seq(SavepointMarks)
      /\ NestOf(joined, Work(outer) \o f.work, SubSeq(marks, 1, m - 1))
  <2>1. f.name = nest[(m - 1) + 1].name
    BY <1>2, <1>4
  <2> QED
    BY <1>2, <1>4, <2>1, NestCut DEF outer
<1> QED
  BY <1>5, <1>6 DEF outer, inner, f

-----------------------------------------------------------------------------
(***************************************************************************)
(* The inductive invariant.  First, what a connection keeps.               *)
(***************************************************************************)
\* Statements are made in order and are new until they are first used.
InOrder(c) ==
    /\ created[c] <= MaxNew[c]
    /\ \A i \in 1..MaxNew[c] : fate[<<c, i>>] = "new" <=> i > created[c]

\* A list of statements that one connection has made.
Owned(c, list) ==
    /\ Distinct(list)
    /\ \A s \in Range(list) : s[1] = c /\ fate[s] # "new"

\* A transaction that has a read version has a session epoch, one that has none
\* is empty.
Begun(c) ==
    /\ session_epoch[c] <= epoch
    /\ version[c] = 0 => statements[c] = <<>> /\ savepoints[c] = <<>> /\ frames[c] = Base
    /\ version[c] # 0 => session_epoch[c] # -1

Committing(c) == call[c] # None /\ call[c].kind \in Commits

\* A pending write is the last number of its session and nothing is known of it.
Waiting(c) ==
    /\ Submitted(c) => pending[c] # None
    /\ pending[c] # None =>
         /\ pending[c].session = <<c, session[c]>> /\ pending[c].sequence = sequence[c]
         /\ \A s \in Range(pending[c].body) : fate[s] = "open"
         /\ failed[c] \/ Committing(c) \/ version[c] = 0

\* A call that previews, and what it takes back when it fails.
Previewing(c) ==
    Executing(c) =>
        /\ pending[c] = None /\ ~failed[c] /\ version[c] # 0
        /\ call[c].kind # "query" => call[c].left >= 1 /\ created[c] + call[c].left <= MaxNew[c]
        /\ Len(call[c].before) <= Len(statements[c])
        /\ call[c].before = SubSeq(statements[c], 1, Len(call[c].before))
        /\ call[c].kind # "many" => call[c].before = statements[c] /\ call[c].left <= 1
        /\ NestOf(call[c].nest, call[c].before, savepoints[c])

\* A transaction that has not failed holds the work of its nest, all of it open.
Nested(c) ==
    ~failed[c] => /\ NestOf(frames[c], statements[c], savepoints[c])
                  /\ \A s \in Range(statements[c]) : fate[s] = "open"

\* A transaction that has begun is an operation of the history.
Operating(c) ==
    pending[c] = None => /\ op[c] # None => version[c] # 0
                         /\ ~failed[c] /\ version[c] # 0 => op[c] # None

Local(c) ==
    /\ InOrder(c) /\ Owned(c, statements[c]) /\ Begun(c) /\ Waiting(c)
    /\ Previewing(c) /\ Nested(c) /\ Operating(c)

(***************************************************************************)
(* Next, the requests: one for each number of a session, of statements of  *)
(* its own.                                                                *)
(***************************************************************************)
Sent(p) ==
    LET c == p.session[1] IN
    /\ p.body # <<>> /\ Owned(c, p.body) /\ p.epoch <= epoch
    /\ p.session[2] <= session[c]
    /\ p.session[2] = session[c] => /\ p.sequence <= sequence[c]
                                    /\ p.sequence = sequence[c] => pending[c] = p
    /\ \A s \in Range(statements[c]) \cap Range(p.body) : fate[s] = "open" => pending[c] = p

Apart ==
    \A p, q \in requests :
        /\ p.session = q.session /\ p.sequence = q.sequence => p = q
        /\ p # q => Range(p.body) \cap Range(q.body) = {}

(***************************************************************************)
(* Last, the service: what is active was run, what was run will not be run *)
(* again, and what the application knows agrees with it.                   *)
(***************************************************************************)
Spent(p) == p.epoch < epoch \/ p.sequence <= rows[p.session].sequence

Served ==
    /\ \A s \in db : \E p \in requests : s \in Range(p.body) /\ Spent(p)
    /\ \A k \in Sessions : rows[k].sequence # 0 =>
           \E p \in requests : p.session = k /\ p.sequence = rows[k].sequence
    /\ \A p \in requests : p.epoch = epoch /\ rows[p.session].sequence = p.sequence =>
           /\ rows[p.session].outcome = "Applied" => Range(p.body) \subseteq db
           /\ rows[p.session].outcome = "Conflict" => Range(p.body) \cap db = {}

Known ==
    \A s \in Stmts : /\ fate[s] = "done" => s \in db
                     /\ fate[s] = "gone" =>
                           s \notin db /\ \A p \in requests : s \in Range(p.body) => Spent(p)

DbApiInv ==
    /\ TypeOK /\ (\A c \in Conns : Local(c)) /\ (\A p \in requests : Sent(p))
    /\ Apart /\ Served /\ Known

-----------------------------------------------------------------------------
(***************************************************************************)
(* Types.                                                                  *)
(***************************************************************************)
\* The values that a variable is given.
LEMMA Values ==
  /\ NoOp \in Operations /\ NoRead \in Reads /\ SUBSET Stmts \subseteq Reads
  /\ None \notin PendingWrites /\ None \notin Calls /\ None \notin Operations /\ None \notin Names
  /\ Base \in Seq(Frames) /\ <<>> \in Seq(Stmts)
  /\ <<>> \in Seq(SavepointMarks)
<1>1. NoRead \in Reads /\ SUBSET Stmts \subseteq Reads
  BY DEF Reads
<1>2. {} \in SUBSET Ids
  OBVIOUS
<1>3. NoOp \in Operations
  BY <1>1, <1>2 DEF NoOp, Operations
<1> QED
  BY <1>1, <1>3, ValueAssumption, NestBase

\* A statement list changes rows that exist.
LEMMA AfterType ==
  ASSUME NEW state \in SUBSET Stmts, NEW list \in Seq(Stmts)
  PROVE  After(state, list) \in SUBSET Stmts
BY RangeMembers DEF After, Toggle

\* The next operation of a connection has a name of its own.
LEMMA FinishedCount ==
  ASSUME TypeOK, NEW c \in Conns
  PROVE  /\ IsFiniteSet(Finished(c)) /\ Cardinality(Finished(c)) \in Nat
         /\ <<c, Cardinality(Finished(c)) + 1>> \in Ids
<1>1. IsFiniteSet(history) /\ Finished(c) \subseteq history
  BY DEF TypeOK, Finished
<1>2. IsFiniteSet(Finished(c)) /\ Cardinality(Finished(c)) \in Nat
  BY <1>1, FS_Subset, FS_CardinalityType
<1> QED
  BY <1>2 DEF Ids

\* Initial states are of these types.
LEMMA InitType == Init => TypeOK
<1> SUFFICES ASSUME Init PROVE TypeOK
  OBVIOUS
<1>1. \A c \in Conns : <<c, 1>> \in Sessions
  BY DbApiAssumption DEF Sessions
<1>2. IsFiniteSet(history)
  BY FS_EmptySet DEF Init
<1>3. NoRow \in [sequence : Nat, outcome : {"None", "Applied", "Conflict"}]
  BY DEF NoRow
<1> QED
  BY <1>1, <1>2, <1>3, Values, DbApiAssumption DEF Init, TypeOK, SavepointMarks

\* The service changes its own variables.
LEMMA ApplyType ==
  ASSUME TypeOK, NEW p \in requests, Apply(p) PROVE TypeOK'
<1>1. /\ p \in PendingWrites /\ p.session \in Sessions /\ p.sequence \in Nat
      /\ p.body \in Seq(Stmts) /\ revision \in Nat \ {0}
  BY DEF TypeOK, PendingWrites
<1>2. db' \subseteq Stmts
  BY <1>1, AfterType DEF TypeOK, Apply
<1>3. revision' \in Nat \ {0} /\ revision' >= revision
  BY <1>1 DEF Apply
<1>4. rows' \in [Sessions -> [sequence : Nat, outcome : {"None", "Applied", "Conflict"}]]
  BY <1>1 DEF TypeOK, Apply
<1>5. /\ \A q \in requests : q.version <= revision'
      /\ version \in [Conns -> 0..revision']
  <2>1. \A q \in requests : q.version \in Nat /\ q.version <= revision
    BY DEF TypeOK, PendingWrites
  <2>2. 0..revision \subseteq 0..revision'
    BY <1>1, <1>3
  <2> QED
    BY <1>1, <1>3, <2>1, <2>2 DEF TypeOK
<1> QED
  BY <1>2, <1>3, <1>4, <1>5 DEF TypeOK, Apply, native, dbapi, app

\* Retiring the sessions, too.
LEMMA RetireType ==
  ASSUME TypeOK, retire_sessions PROVE TypeOK'
<1>1. revision \in Nat \ {0} /\ revision' = revision + 1
  BY DEF TypeOK, retire_sessions
<1>2. /\ \A q \in requests : q.version <= revision'
      /\ version \in [Conns -> 0..revision']
  <2>1. \A q \in requests : q.version \in Nat /\ q.version <= revision
    BY DEF TypeOK, PendingWrites
  <2>2. 0..revision \subseteq 0..revision'
    BY <1>1
  <2> QED
    BY <1>1, <2>1, <2>2 DEF TypeOK
<1>3. epoch' \in 0..MaxEpoch
  BY DbApiAssumption DEF TypeOK, retire_sessions
<1>4. rows' \in [Sessions -> [sequence : Nat, outcome : {"None", "Applied", "Conflict"}]]
  BY DEF TypeOK, retire_sessions, NoRow
<1>5. UNCHANGED <<db, requests, native, dbapi, call, app>>
  BY DEF retire_sessions
<1>6. revision' \in Nat \ {0}
  BY <1>1
<1> QED
  BY <1>2, <1>3, <1>4, <1>5, <1>6 DEF TypeOK, native, dbapi, app

\* What a request consists of.
LEMMA PendingType ==
  ASSUME NEW p \in PendingWrites
  PROVE  /\ p # None /\ p.session \in Sessions /\ p.session[1] \in Conns
         /\ p.session = <<p.session[1], p.session[2]>> /\ p.session[2] \in Nat
         /\ p.sequence \in Nat \ {0} /\ p.epoch \in 0..MaxEpoch /\ p.version \in Nat
         /\ p.body \in Seq(Stmts) /\ Range(p.body) \subseteq Stmts
<1>1. /\ p.session \in Sessions /\ p.sequence \in Nat \ {0} /\ p.epoch \in 0..MaxEpoch
      /\ p.version \in Nat /\ p.body \in Seq(Stmts)
  BY DEF PendingWrites
<1>2. \A k \in Sessions : k[1] \in Conns /\ k[2] \in Nat /\ k = <<k[1], k[2]>>
  BY DbApiAssumption DEF Sessions
<1>3. Range(p.body) \subseteq Stmts
  BY <1>1, RangeMembers
<1> QED
  BY <1>1, <1>2, <1>3, Values

\* Requests are requests.
LEMMA RequestType ==
  ASSUME TypeOK, NEW p \in requests
  PROVE  /\ p \in PendingWrites /\ p # None /\ p.session \in Sessions /\ p.session[1] \in Conns
         /\ p.session = <<p.session[1], p.session[2]>> /\ p.session[2] \in Nat
         /\ p.sequence \in Nat \ {0} /\ p.epoch \in 0..MaxEpoch /\ p.version \in Nat
         /\ p.body \in Seq(Stmts) /\ Range(p.body) \subseteq Stmts
<1>1. p \in PendingWrites
  BY DEF TypeOK
<1> QED
  BY <1>1, PendingType

-----------------------------------------------------------------------------
(***************************************************************************)
(* What the steps of a connection have in common.                          *)
(***************************************************************************)
\* The other connections are left alone.
Elsewhere(c) ==
    \A d \in Conns \ {c} :
        /\ session'[d] = session[d] /\ sequence'[d] = sequence[d] /\ pending'[d] = pending[d]
        /\ session_epoch'[d] = session_epoch[d] /\ version'[d] = version[d]
        /\ statements'[d] = statements[d] /\ savepoints'[d] = savepoints[d]
        /\ failed'[d] = failed[d] /\ call'[d] = call[d] /\ created'[d] = created[d]
        /\ frames'[d] = frames[d] /\ op'[d] = op[d]

\* What is learnt is true.
Learns(c) ==
    \A s \in Stmts :
        \/ fate'[s] = fate[s]
        \/ /\ s[1] = c /\ fate[s] \in {"new", "open"}
           /\ \/ fate'[s] = "open"
              \/ fate'[s] = "done" /\ s \in db
              \/ /\ fate'[s] = "gone" /\ s \notin db
                 /\ \A p \in requests : s \in Range(p.body) => Spent(p)

\* The session stays, or its number moves on, or there is a new one.
Moves(c) ==
    \/ /\ session'[c] = session[c] /\ sequence'[c] = sequence[c]
       /\ pending'[c] = pending[c] \/ pending[c] = None
    \/ session'[c] = session[c] /\ sequence'[c] = sequence[c] + 1
    \/ session'[c] = session[c] + 1

\* Open statements of the transaction stay open, or are new.
Carries(c) ==
    \A s \in Range(statements'[c]) : fate'[s] = "open" =>
        \/ fate[s] = "new"
        \/ /\ s \in Range(statements[c]) /\ fate[s] = "open"
           /\ \/ pending'[c] = pending[c] \/ pending[c] = None
              \/ s \notin Range(pending[c].body)

\* A request is the first one under its number and of its statements.
Submits(c) ==
    \/ requests' = requests
    \/ LET w == pending'[c] IN
       /\ requests' = requests \cup {w} /\ pending[c] = None /\ w # None
       /\ session'[c] = session[c] /\ sequence'[c] = sequence[c]
       /\ w.body # <<>> /\ Distinct(w.body) /\ w.epoch <= epoch
       /\ \A s \in Range(w.body) :
              s[1] = c /\ (fate[s] = "new" \/ (s \in Range(statements[c]) /\ fate[s] = "open"))

Steps(c) ==
    /\ Elsewhere(c) /\ Learns(c) /\ Moves(c) /\ Carries(c) /\ Submits(c)
    /\ db' = db /\ epoch' = epoch /\ rows' = rows

\* What is new was not sent, and what is open and not pending was not either:
\* neither is active.
LEMMA Unsent ==
  ASSUME DbApiInv, NEW c \in Conns, NEW s \in Stmts,
         \/ fate[s] = "new"
         \/ /\ s \in Range(statements[c]) /\ fate[s] = "open"
            /\ pending[c] = None \/ s \notin Range(pending[c].body)
  PROVE  s \notin db /\ \A p \in requests : s \notin Range(p.body)
<1>1. ASSUME NEW p \in requests, s \in Range(p.body) PROVE FALSE
  <2>1. TypeOK /\ Sent(p) /\ Local(c)
    BY DEF DbApiInv
  <2>2. s[1] = p.session[1] /\ fate[s] # "new"
    BY <1>1, <2>1 DEF Sent, Owned
  <2>3. s \in Range(statements[c]) /\ fate[s] = "open"
    BY <2>2
  <2>4. s[1] = c
    BY <2>1, <2>3 DEF Local, Owned
  <2>5. pending[c] = p
    BY <1>1, <2>1, <2>2, <2>3, <2>4 DEF Sent
  <2>6. p # None
    BY <2>1, RequestType
  <2> QED
    BY <1>1, <2>2, <2>5, <2>6
<1> QED
  BY <1>1 DEF DbApiInv, Served

\* The other connections keep what they keep.
LEMMA LocalElsewhere ==
  ASSUME DbApiInv, NEW c \in Conns, Elsewhere(c), Learns(c), epoch' = epoch,
         NEW d \in Conns \ {c}
  PROVE  Local(d)'
<1>1. TypeOK /\ Local(d)
  BY DEF DbApiInv
<1>2. \A s \in Stmts : s[1] = d => fate'[s] = fate[s]
  BY DEF Learns
<1>3. /\ session'[d] = session[d] /\ sequence'[d] = sequence[d] /\ pending'[d] = pending[d]
      /\ session_epoch'[d] = session_epoch[d] /\ version'[d] = version[d]
      /\ statements'[d] = statements[d] /\ savepoints'[d] = savepoints[d]
      /\ failed'[d] = failed[d] /\ call'[d] = call[d] /\ created'[d] = created[d]
      /\ frames'[d] = frames[d] /\ op'[d] = op[d]
  BY DEF Elsewhere
<1>4. \A s \in Range(statements[d]) : s[1] = d /\ s \in Stmts
  BY <1>1, RangeMembers DEF TypeOK, Local, Owned
<1>5. InOrder(d)'
  <2>1. \A i \in 1..MaxNew[d] : <<d, i>> \in Stmts /\ <<d, i>>[1] = d
    BY DEF Stmts
  <2> QED
    BY <1>1, <1>2, <1>3, <2>1 DEF Local, InOrder
<1>6. Owned(d, statements[d])'
  BY <1>1, <1>2, <1>3, <1>4 DEF Local, Owned
<1>7. Begun(d)'
  BY <1>1, <1>3 DEF Local, Begun
<1>8. Waiting(d)'
  <2>1. Submitted(d)' <=> Submitted(d)
    BY <1>3 DEF Submitted
  <2>2. Committing(d)' <=> Committing(d)
    BY <1>3 DEF Committing
  <2>3. ASSUME pending[d] # None
        PROVE  \A s \in Range(pending[d].body) : fate'[s] = "open"
    <3>1. pending[d] \in requests
      BY <1>1, <2>3 DEF TypeOK
    <3>2. Sent(pending[d]) /\ pending[d].session = <<d, session[d]>>
      BY <1>1, <2>3, <3>1 DEF DbApiInv, Local, Waiting
    <3>3. \A s \in Range(pending[d].body) : s \in Stmts /\ s[1] = d /\ fate[s] = "open"
      BY <1>1, <2>3, <3>1, <3>2, RequestType DEF Sent, Owned, Local, Waiting
    <3> QED
      BY <1>2, <3>3
  <2> QED
    BY <1>1, <1>3, <2>1, <2>2, <2>3 DEF Local, Waiting
<1>9. Previewing(d)'
  <2>1. Executing(d)' <=> Executing(d)
    BY <1>3 DEF Executing
  <2> QED
    BY <1>1, <1>3, <2>1 DEF Local, Previewing
<1>10. Nested(d)'
  BY <1>1, <1>2, <1>3, <1>4 DEF Local, Nested
<1>11. Operating(d)'
  BY <1>1, <1>3 DEF Local, Operating
<1> QED
  BY <1>5, <1>6, <1>7, <1>8, <1>9, <1>10, <1>11 DEF Local

\* Requests that were sent stay what they are.
LEMMA SentStays ==
  ASSUME DbApiInv, NEW c \in Conns, TypeOK', Steps(c), NEW p \in requests
  PROVE  Sent(p)'
<1> DEFINE d == p.session[1]
<1>1. TypeOK /\ Sent(p)
  BY DEF DbApiInv
<1>2. /\ d \in Conns /\ p # None /\ p.session[2] \in Nat /\ p.sequence \in Nat
      /\ Range(p.body) \subseteq Stmts
  BY <1>1, RequestType
<1> HIDE DEF d
<1>3. \A s \in Stmts : fate[s] # "new" => fate'[s] # "new"
  BY DEF Steps, Learns
<1>4. p.body # <<>> /\ Owned(d, p.body)' /\ p.epoch <= epoch'
  BY <1>1, <1>2, <1>3 DEF Sent, Owned, Steps, d
<1>5. CASE d # c
  <2>1. /\ session'[d] = session[d] /\ sequence'[d] = sequence[d] /\ pending'[d] = pending[d]
        /\ statements'[d] = statements[d]
    BY <1>2, <1>5 DEF Steps, Elsewhere
  <2>2. \A s \in Range(p.body) : fate'[s] = fate[s]
    <3>1. \A s \in Range(p.body) : s \in Stmts /\ s[1] = d
      BY <1>1, <1>2 DEF Sent, Owned, d
    <3> QED
      BY <1>5, <3>1 DEF Steps, Learns
  <2> QED
    BY <1>1, <1>4, <2>1, <2>2 DEF Sent, d
<1>6. CASE d = c
  <2>1. /\ session[c] \in Nat /\ sequence[c] \in Nat /\ session'[c] \in Nat /\ sequence'[c] \in Nat
    BY <1>1 DEF TypeOK
  <2>2. /\ p.session[2] <= session[c]
        /\ p.session[2] = session[c] => /\ p.sequence <= sequence[c]
                                        /\ p.sequence = sequence[c] => pending[c] = p
    BY <1>1, <1>6 DEF Sent, d
  <2>3. /\ p.session[2] <= session'[c]
        /\ p.session[2] = session'[c] => /\ p.sequence <= sequence'[c]
                                         /\ p.sequence = sequence'[c] => pending'[c] = p
    BY <1>2, <2>1, <2>2 DEF Steps, Moves
  <2>4. ASSUME NEW s \in Range(statements'[c]), s \in Range(p.body), fate'[s] = "open"
        PROVE  pending'[c] = p
    <3>1. fate[s] # "new"
      BY <1>1, <2>4 DEF Sent, Owned
    <3>2. /\ s \in Range(statements[c]) /\ fate[s] = "open"
          /\ pending'[c] = pending[c] \/ pending[c] = None \/ s \notin Range(pending[c].body)
      BY <2>4, <3>1 DEF Steps, Carries
    <3>3. pending[c] = p
      BY <1>1, <1>6, <2>4, <3>2 DEF Sent, d
    <3> QED
      BY <1>2, <2>4, <3>2, <3>3
  <2> QED
    BY <1>4, <1>6, <2>3, <2>4 DEF Sent, d
<1> QED
  BY <1>5, <1>6

\* A new request is one of its connection.
LEMMA SentNew ==
  ASSUME DbApiInv, NEW c \in Conns, TypeOK', Local(c)', Steps(c), requests' # requests,
         NEW w, w = pending'[c]
  PROVE  /\ requests' = requests \cup {w} /\ Sent(w)'
         /\ \A p \in requests : /\ ~(p.session = w.session /\ p.sequence = w.sequence)
                                /\ Range(p.body) \cap Range(w.body) = {}
         /\ w.session \in Sessions /\ rows[w.session].sequence # w.sequence
         /\ \A s \in Range(w.body) : fate'[s] = "open"
<1>1. /\ requests' = requests \cup {w} /\ pending[c] = None /\ w # None
      /\ session'[c] = session[c] /\ sequence'[c] = sequence[c]
      /\ w.body # <<>> /\ Distinct(w.body) /\ w.epoch <= epoch /\ epoch' = epoch
  BY DEF Steps, Submits
<1>2. w \in PendingWrites
  BY <1>1 DEF TypeOK
<1>3. \A s \in Range(w.body) :
        /\ s[1] = c /\ s \in Stmts
        /\ s \notin db /\ \A p \in requests : s \notin Range(p.body)
  <2>1. Range(w.body) \subseteq Stmts
    BY <1>2, PendingType
  <2> SUFFICES ASSUME NEW s \in Range(w.body)
               PROVE  s[1] = c /\ s \notin db /\ \A p \in requests : s \notin Range(p.body)
    BY <2>1
  <2>2. s[1] = c /\ (fate[s] = "new" \/ (s \in Range(statements[c]) /\ fate[s] = "open"))
    BY DEF Steps, Submits
  <2> QED
    BY <1>1, <2>1, <2>2, Unsent
<1>4. /\ w.session = <<c, session[c]>> /\ w.sequence = sequence[c]
      /\ \A s \in Range(w.body) : fate'[s] = "open"
  BY <1>1 DEF Local, Waiting
<1>5. TypeOK /\ session[c] \in Nat /\ sequence[c] \in Nat \ {0}
  BY DEF DbApiInv, TypeOK
<1>6. ASSUME NEW p \in requests, p.session = w.session, p.sequence = w.sequence PROVE FALSE
  <2>1. Sent(p) /\ p.session[1] = c /\ p.session[2] = session[c] /\ p # None
    BY <1>4, <1>5, <1>6, RequestType DEF DbApiInv
  <2> QED
    BY <1>1, <1>4, <1>6, <2>1 DEF Sent
<1>7. w.session \in Sessions /\ rows[w.session].sequence # w.sequence
  <2>1. w.session \in Sessions
    BY <1>4, <1>5 DEF TypeOK
  <2>2. rows[w.session].sequence # 0 =>
           \E p \in requests : p.session = w.session /\ p.sequence = rows[w.session].sequence
    BY <2>1 DEF DbApiInv, Served
  <2> QED
    BY <1>4, <1>5, <1>6, <2>1, <2>2
<1>8. Sent(w)'
  <2>1. w.session[1] = c /\ w.session[2] = session'[c] /\ w.sequence = sequence'[c]
    BY <1>1, <1>4
  <2>2. Owned(c, w.body)'
    BY <1>1, <1>3, <1>4 DEF Owned
  <2>3. session'[c] <= session'[c] /\ sequence'[c] <= sequence'[c]
    BY <1>1, <1>5
  <2> QED
    BY <1>1, <2>1, <2>2, <2>3 DEF Sent
<1> QED
  BY <1>1, <1>3, <1>4, <1>6, <1>7, <1>8

\* The steps of a connection keep the invariant.
LEMMA StepsKeep ==
  ASSUME DbApiInv, NEW c \in Conns, TypeOK', Local(c)', Steps(c)
  PROVE  DbApiInv'
<1>1. \A d \in Conns : Local(d)'
  BY LocalElsewhere DEF Steps
<1>2. TypeOK /\ Apart /\ Served /\ Known
  BY DEF DbApiInv
<1>3. /\ db' = db /\ epoch' = epoch /\ rows' = rows
      /\ \A p : Spent(p)' <=> Spent(p)
  BY DEF Steps, Spent
<1>4. \A p \in requests : Sent(p)'
  BY SentStays
<1>5. CASE requests' = requests
  <2>1. Apart' /\ Served'
    BY <1>2, <1>3, <1>5 DEF Apart, Served
  <2>2. Known'
    BY <1>2, <1>3, <1>5 DEF Known, Steps, Learns
  <2> QED
    BY <1>1, <1>4, <1>5, <2>1, <2>2 DEF DbApiInv
<1>6. CASE requests' # requests
  <2>1. PICK w : w = pending'[c]
    OBVIOUS
  <2>2. /\ requests' = requests \cup {w} /\ Sent(w)'
        /\ \A p \in requests : /\ ~(p.session = w.session /\ p.sequence = w.sequence)
                               /\ Range(p.body) \cap Range(w.body) = {}
        /\ w.session \in Sessions /\ rows[w.session].sequence # w.sequence
        /\ \A s \in Range(w.body) : fate'[s] = "open"
    BY <1>6, <2>1, SentNew
  <2>3. Apart'
    BY <1>2, <2>2 DEF Apart
  <2>4. Served'
    BY <1>2, <1>3, <2>2 DEF Served
  <2>5. Known'
    BY <1>2, <1>3, <2>2 DEF Known, Steps, Learns
  <2> QED
    BY <1>1, <1>4, <2>2, <2>3, <2>4, <2>5 DEF DbApiInv
<1> QED
  BY <1>5, <1>6

-----------------------------------------------------------------------------
(***************************************************************************)
(* The service.                                                            *)
(***************************************************************************)
\* What a connection keeps does not depend on the database.
LEMMA LocalServed ==
  ASSUME NEW d \in Conns, Local(d), UNCHANGED <<native, dbapi, call, app>>,
         epoch' >= epoch, epoch \in Nat, epoch' \in Nat, session_epoch[d] \in Int
  PROVE  Local(d)'
<1>1. /\ UNCHANGED <<session, sequence, pending, session_epoch, version, statements, savepoints>>
      /\ UNCHANGED <<failed, call, created, frames, fate, op>>
  BY DEF native, dbapi, app
<1>2. InOrder(d)' /\ Owned(d, statements[d])' /\ Nested(d)'
  BY <1>1 DEF Local, InOrder, Owned, Nested
<1>3. Begun(d)'
  BY <1>1 DEF Local, Begun
<1>4. Waiting(d)'
  BY <1>1 DEF Local, Waiting, Submitted, Committing
<1>5. Previewing(d)' /\ Operating(d)'
  BY <1>1 DEF Local, Previewing, Executing, Operating
<1> QED
  BY <1>2, <1>3, <1>4, <1>5 DEF Local

\* Neither do requests.
LEMMA SentServed ==
  ASSUME TypeOK, NEW p \in requests, Sent(p), UNCHANGED <<native, dbapi, call, app>>,
         epoch' >= epoch, epoch' \in Nat
  PROVE  Sent(p)'
<1>1. UNCHANGED <<session, sequence, pending, statements, fate>>
  BY DEF native, dbapi, app
<1>2. p.epoch <= epoch'
  <2>1. p.epoch \in 0..MaxEpoch /\ p.epoch <= epoch /\ epoch \in 0..MaxEpoch /\ MaxEpoch \in Nat
    BY RequestType, DbApiAssumption DEF Sent, TypeOK
  <2> QED
    BY <2>1
<1> QED
  BY <1>1, <1>2 DEF Sent, Owned

\* A request that is run was not run before: its statements become active, or
\* none of them does.
LEMMA ApplyRuns ==
  ASSUME DbApiInv, NEW p \in requests, Apply(p)
  PROVE  /\ ~Spent(p) /\ Range(p.body) \cap db = {}
         /\ LET stale == p.version \notin {0, revision} IN
            db' = IF stale THEN db ELSE db \cup Range(p.body)
<1>1. /\ TypeOK /\ Sent(p) /\ Apart /\ Served
      /\ p.sequence \in Nat /\ p.session \in Sessions /\ p.body \in Seq(Stmts)
  BY RequestType DEF DbApiInv
<1>2. rows[p.session].sequence \in Nat /\ p.epoch = epoch /\ epoch \in Nat
  BY <1>1 DEF TypeOK, Apply
<1>3. ~Spent(p)
  BY <1>1, <1>2 DEF Spent, Apply
<1>4. Range(p.body) \cap db = {}
  BY <1>1, <1>3 DEF Served, Apart
<1>5. Distinct(p.body)
  BY <1>1 DEF Sent, Owned
<1>6. After(db, p.body) = db \cup Range(p.body)
  BY <1>1, <1>4, <1>5, AfterDistinct
<1> QED
  BY <1>3, <1>4, <1>6 DEF Apply

\* Running a request keeps the invariant.
LEMMA ApplyKeeps ==
  ASSUME DbApiInv, NEW p \in requests, Apply(p)
  PROVE  DbApiInv'
<1>1. TypeOK /\ Apart /\ Served /\ Known /\ Sent(p)
  BY DEF DbApiInv
<1>2. TypeOK'
  BY <1>1, ApplyType
<1>3. UNCHANGED <<native, dbapi, call, app>> /\ requests' = requests /\ epoch' = epoch
  BY DEF Apply
<1>4. epoch \in Nat /\ epoch' >= epoch /\ epoch' \in Nat /\ \A d \in Conns : session_epoch[d] \in Int
  BY <1>1, <1>3 DEF TypeOK
<1>5. \A d \in Conns : Local(d)'
  BY <1>3, <1>4, LocalServed DEF DbApiInv
<1>6. \A q \in requests' : Sent(q)'
  BY <1>1, <1>3, <1>4, SentServed DEF DbApiInv
<1>7. Apart'
  BY <1>1, <1>3 DEF Apart
<1>8. /\ ~Spent(p) /\ Range(p.body) \cap db = {}
      /\ db' = db \/ db' = db \cup Range(p.body)
      /\ p.version \notin {0, revision} => db' = db
      /\ p.version \in {0, revision} => db' = db \cup Range(p.body)
  BY ApplyRuns
<1>9. /\ p.session \in Sessions /\ p.sequence \in Nat
      /\ \A q \in requests : q.session \in Sessions /\ q.sequence \in Nat
      /\ \A k \in Sessions : rows[k].sequence \in Nat
      /\ p.epoch = epoch
  BY <1>1, RequestType DEF TypeOK, Apply
<1>10. /\ rows'[p.session].sequence = p.sequence
       /\ rows'[p.session].outcome =
             IF p.version \notin {0, revision} THEN "Conflict" ELSE "Applied"
       /\ rows[p.session].sequence + 1 = p.sequence
       /\ \A k \in Sessions : k # p.session => rows'[k] = rows[k]
  BY <1>1, <1>9 DEF TypeOK, Apply
<1>11. Spent(p)' /\ \A q \in requests : Spent(q) => Spent(q)'
  <2>1. Spent(p)'
    BY <1>9, <1>10 DEF Spent
  <2>2. ASSUME NEW q \in requests, Spent(q) PROVE Spent(q)'
    <3>1. CASE q.session = p.session
      BY <1>3, <1>9, <1>10, <2>2, <3>1 DEF Spent
    <3>2. CASE q.session # p.session
      BY <1>3, <1>9, <1>10, <2>2, <3>2 DEF Spent
    <3> QED
      BY <3>1, <3>2
  <2> QED
    BY <2>1, <2>2
<1>12. Served'
  <2>1. \A s \in db' : \E q \in requests' : s \in Range(q.body) /\ Spent(q)'
    BY <1>1, <1>3, <1>8, <1>11 DEF Served
  <2>2. ASSUME NEW k \in Sessions, rows'[k].sequence # 0
        PROVE  \E q \in requests' : q.session = k /\ q.sequence = rows'[k].sequence
    BY <1>1, <1>3, <1>10, <2>2 DEF Served
  <2>3. ASSUME NEW q \in requests, q.epoch = epoch, rows'[q.session].sequence = q.sequence
        PROVE  /\ rows'[q.session].outcome = "Applied" => Range(q.body) \subseteq db'
               /\ rows'[q.session].outcome = "Conflict" => Range(q.body) \cap db' = {}
    <3>1. CASE q = p
      BY <1>8, <1>10, <3>1
    <3>2. CASE q # p
      <4>1. q.session # p.session
        BY <1>1, <1>10, <2>3, <3>2 DEF Apart
      <4>2. rows'[q.session] = rows[q.session] /\ Range(q.body) \cap Range(p.body) = {}
        BY <1>1, <1>9, <1>10, <3>2, <4>1 DEF Apart
      <4> QED
        BY <1>1, <1>8, <2>3, <4>2 DEF Served
    <3> QED
      BY <3>1, <3>2
  <2> QED
    BY <1>3, <2>1, <2>2, <2>3 DEF Served
<1>13. Known'
  <2>1. fate' = fate
    BY <1>3 DEF app
  <2> QED
    BY <1>1, <1>3, <1>8, <1>11, <2>1 DEF Known
<1> QED
  BY <1>2, <1>5, <1>6, <1>7, <1>12, <1>13 DEF DbApiInv

\* So does retiring the sessions.
LEMMA RetireKeeps ==
  ASSUME DbApiInv, retire_sessions
  PROVE  DbApiInv'
<1>1. TypeOK /\ Apart /\ Served /\ Known
  BY DEF DbApiInv
<1>2. TypeOK'
  BY <1>1, RetireType
<1>3. /\ UNCHANGED <<native, dbapi, call, app>> /\ requests' = requests /\ epoch' = epoch + 1
      /\ db' = db
  BY DEF retire_sessions
<1>4. epoch \in Nat /\ epoch' >= epoch /\ epoch' \in Nat /\ \A d \in Conns : session_epoch[d] \in Int
  BY <1>1, <1>3 DEF TypeOK
<1>5. \A d \in Conns : Local(d)'
  BY <1>3, <1>4, LocalServed DEF DbApiInv
<1>6. \A q \in requests' : Sent(q)'
  BY <1>1, <1>3, <1>4, SentServed DEF DbApiInv
<1>7. Apart'
  BY <1>1, <1>3 DEF Apart
<1>8. \A q \in requests : Spent(q)' /\ q.epoch # epoch'
  <2>1. \A q \in requests : q.epoch \in Nat /\ q.epoch <= epoch
    BY <1>1, RequestType DEF DbApiInv, Sent
  <2> QED
    BY <1>3, <1>4, <2>1 DEF Spent
<1>9. \A k \in Sessions : rows'[k].sequence = 0
  BY <1>1 DEF TypeOK, retire_sessions, NoRow
<1>10. Served'
  BY <1>1, <1>3, <1>8, <1>9 DEF Served
<1>11. Known'
  <2>1. fate' = fate
    BY <1>3 DEF app
  <2> QED
    BY <1>1, <1>3, <1>8, <2>1 DEF Known
<1> QED
  BY <1>2, <1>5, <1>6, <1>7, <1>10, <1>11 DEF DbApiInv

-----------------------------------------------------------------------------
(***************************************************************************)
(* The calls of an application.                                            *)
(***************************************************************************)
\* What the invariant says of a connection.
LEMMA Unfold ==
  ASSUME DbApiInv, NEW c \in Conns
  PROVE  /\ TypeOK /\ Local(c)
         /\ InOrder(c) /\ Owned(c, statements[c]) /\ Begun(c) /\ Waiting(c)
         /\ Previewing(c) /\ Nested(c) /\ Operating(c)
         /\ statements[c] \in Seq(Stmts) /\ Range(statements[c]) \subseteq Stmts
         /\ savepoints[c] \in Seq(SavepointMarks) /\ frames[c] \in Seq(Frames)
         /\ created[c] \in Nat /\ version[c] \in 0..revision /\ revision \in Nat \ {0}
         /\ epoch \in 0..MaxEpoch /\ MaxNew[c] \in Nat /\ MaxEpoch \in Nat
         /\ session_epoch[c] \in -1..MaxEpoch
<1>1. TypeOK /\ Local(c)
  BY DEF DbApiInv
<1>2. /\ statements[c] \in Seq(Stmts) /\ savepoints[c] \in Seq(SavepointMarks)
      /\ frames[c] \in Seq(Frames) /\ created[c] \in Nat /\ version[c] \in 0..revision
      /\ revision \in Nat \ {0} /\ epoch \in 0..MaxEpoch /\ session_epoch[c] \in -1..MaxEpoch
  BY <1>1 DEF TypeOK, SavepointMarks
<1>3. MaxNew[c] \in Nat /\ MaxEpoch \in Nat
  BY DbApiAssumption
<1>4. Range(statements[c]) \subseteq Stmts
  BY <1>2, RangeMembers
<1> QED
  BY <1>1, <1>2, <1>3, <1>4 DEF Local

\* The types after an operation has been started.
LEMMA StartType ==
  ASSUME TypeOK, NEW c \in Conns, StartOp(c)
  PROVE  /\ op' \in [Conns -> Operations \cup {None}] /\ op'[c] # None
         /\ \A d \in Conns \ {c} : op'[d] = op[d]
<1> DEFINE o == [NoOp EXCEPT !.before = {h.id : h \in history}]
<1>1. {h.id : h \in history} \in SUBSET Ids
  BY DEF TypeOK
<1>2. o \in Operations
  BY <1>1, Values DEF NoOp, Operations
<1> HIDE DEF o
<1>3. (op[c] # None /\ op' = op) \/ op' = [op EXCEPT ![c] = o]
  BY DEF StartOp, o
<1>4. op \in [Conns -> Operations \cup {None}]
  BY DEF TypeOK
<1> QED
  BY <1>2, <1>3, <1>4, Values

\* A transaction begins at a revision and in an epoch.
LEMMA BeginType ==
  ASSUME TypeOK, NEW c \in Conns, _begin(c)
  PROVE  /\ version' \in [Conns -> 0..revision] /\ session_epoch' \in [Conns -> -1..MaxEpoch]
         /\ \A d \in Conns \ {c} : version'[d] = version[d] /\ session_epoch'[d] = session_epoch[d]
         /\ version'[c] # 0 /\ session_epoch'[c] # -1
         /\ version[c] # 0 => version'[c] = version[c]
         /\ version[c] = 0 => version'[c] = revision
         /\ session_epoch'[c] = session_epoch[c] \/ session_epoch'[c] = epoch
<1>1. /\ version \in [Conns -> 0..revision] /\ session_epoch \in [Conns -> -1..MaxEpoch]
      /\ revision \in Nat \ {0} /\ epoch \in 0..MaxEpoch /\ MaxEpoch \in Nat
  BY DbApiAssumption DEF TypeOK
<1> DEFINE v == IF version[c] = 0 THEN revision ELSE version[c]
           e == IF session_epoch[c] = -1 THEN epoch ELSE session_epoch[c]
<1>2. version' = [version EXCEPT ![c] = v] /\ session_epoch' = [session_epoch EXCEPT ![c] = e]
  BY DEF _begin
<1>3. v \in 0..revision /\ v # 0 /\ e \in -1..MaxEpoch /\ e # -1
  BY <1>1
<1>4. version'[c] = v /\ session_epoch'[c] = e
  BY <1>1, <1>2
<1>5. /\ version[c] # 0 => v = version[c]
      /\ version[c] = 0 => v = revision
      /\ e = session_epoch[c] \/ e = epoch
  OBVIOUS
<1> HIDE DEF v, e
<1> QED
  BY <1>1, <1>2, <1>3, <1>4, <1>5

\* A call of a cursor, up to its first preview.
LEMMA ExecuteKeeps ==
  ASSUME DbApiInv, NEW c \in Conns, NEW kind \in {"query", "write", "many"}, Execute(c, kind)
  PROVE  TypeOK' /\ Local(c)' /\ Steps(c)
<1> DEFINE left == CASE kind = "query" -> 0 [] kind = "write" -> 1 [] OTHER -> 2
           new == [kind |-> kind, left |-> left, before |-> statements[c], nest |-> frames[c]]
<1>1. /\ TypeOK /\ Local(c) /\ InOrder(c) /\ Owned(c, statements[c]) /\ Begun(c) /\ Waiting(c)
      /\ Nested(c) /\ statements[c] \in Seq(Stmts) /\ frames[c] \in Seq(Frames)
      /\ session_epoch[c] \in -1..MaxEpoch /\ epoch \in 0..MaxEpoch /\ MaxEpoch \in Nat
      /\ call \in [Conns -> Calls \cup {None}]
  BY Unfold DEF TypeOK
<1>2. /\ pending[c] = None /\ ~failed[c] /\ call[c] = None /\ created[c] + left <= MaxNew[c]
      /\ call' = [call EXCEPT ![c] = new]
      /\ _begin(c) /\ StartOp(c)
      /\ UNCHANGED <<db, revision, epoch, rows, requests, session, sequence, pending, statements>>
      /\ UNCHANGED <<savepoints, failed, autocommit, closed, created, frames, fate, history>>
  BY DEF Execute, Idle, _ready, service
<1>3. left \in 0..2 /\ (kind # "query" => left >= 1) /\ (kind # "many" => left <= 1)
  OBVIOUS
<1> HIDE DEF left
<1>4. new \in Calls /\ new # None
  <2>1. new \in Calls
    BY <1>1, <1>3 DEF Calls
  <2> QED
    BY <2>1, Values
<1>5. /\ new.kind = kind /\ new.left = left /\ new.before = statements[c] /\ new.nest = frames[c]
  OBVIOUS
<1> HIDE DEF new
<1>6. /\ call' \in [Conns -> Calls \cup {None}] /\ call'[c] = new
      /\ \A d \in Conns \ {c} : call'[d] = call[d]
  BY <1>1, <1>2, <1>4
<1>7. /\ version' \in [Conns -> 0..revision] /\ session_epoch' \in [Conns -> -1..MaxEpoch]
      /\ \A d \in Conns \ {c} : version'[d] = version[d] /\ session_epoch'[d] = session_epoch[d]
      /\ version'[c] # 0 /\ session_epoch'[c] # -1
      /\ session_epoch'[c] = session_epoch[c] \/ session_epoch'[c] = epoch
  BY <1>1, <1>2, BeginType
<1>8. /\ op' \in [Conns -> Operations \cup {None}] /\ op'[c] # None
      /\ \A d \in Conns \ {c} : op'[d] = op[d]
  BY <1>1, <1>2, StartType
<1>9. TypeOK'
  BY <1>1, <1>2, <1>6, <1>7, <1>8 DEF TypeOK
<1>10. InOrder(c)' /\ Owned(c, statements[c])' /\ Nested(c)'
  BY <1>1, <1>2 DEF InOrder, Owned, Nested
<1>11. Begun(c)'
  BY <1>1, <1>2, <1>7 DEF Begun
<1>12. Waiting(c)'
  BY <1>2, <1>4, <1>5, <1>6 DEF Waiting, Submitted, Commits
<1>13. Previewing(c)'
  <2>1. SubSeq(statements[c], 1, Len(statements[c])) = statements[c]
        /\ Len(statements[c]) <= Len(statements[c])
    BY <1>1
  <2>2. NestOf(frames[c], statements[c], savepoints[c])
    BY <1>1, <1>2 DEF Nested
  <2> QED
    BY <1>2, <1>3, <1>5, <1>6, <1>7, <2>1, <2>2 DEF Previewing
<1>14. Steps(c)
  <2>1. Elsewhere(c)
    BY <1>2, <1>6, <1>7, <1>8 DEF Elsewhere
  <2>2. Learns(c) /\ Moves(c) /\ Carries(c) /\ Submits(c)
    BY <1>2 DEF Learns, Moves, Carries, Submits
  <2> QED
    BY <1>2, <2>1, <2>2 DEF Steps
<1>15. Operating(c)'
  BY <1>7, <1>8 DEF Operating
<1> QED
  BY <1>9, <1>10, <1>11, <1>12, <1>13, <1>14, <1>15 DEF Local

\* What most calls of a connection leave alone.
LEMMA Unmoved ==
  ASSUME NEW c \in Conns, requests' = requests, pending'[c] = pending[c],
         session'[c] = session[c], sequence'[c] = sequence[c]
  PROVE  Moves(c) /\ Submits(c)
BY DEF Moves, Submits

\* An autocommit query reads, a failed begin aborts, a setting is changed.
LEMMA QueryKeeps ==
  ASSUME DbApiInv, NEW c \in Conns, QueryAutocommit(c) \/ BeginFails(c) \/ SetAutocommit(c)
  PROVE  TypeOK' /\ Local(c)' /\ Steps(c)
<1>1. /\ TypeOK /\ Local(c) /\ InOrder(c) /\ Owned(c, statements[c]) /\ Begun(c) /\ Waiting(c)
      /\ Nested(c) /\ Operating(c) /\ failed \in [Conns -> BOOLEAN] /\ autocommit \in [Conns -> BOOLEAN]
  BY Unfold DEF TypeOK
<1>2. /\ pending[c] = None /\ ~failed[c] /\ call[c] = None
      /\ UNCHANGED <<db, revision, epoch, rows, requests, session, sequence, pending, statements>>
      /\ UNCHANGED <<session_epoch, version, savepoints, closed, call, created, frames, fate, op>>
  BY DEF QueryAutocommit, BeginFails, SetAutocommit, Idle, _ready, service, native, dbapi, app
<1>3. failed' \in [Conns -> BOOLEAN] /\ \A d \in Conns \ {c} : failed'[d] = failed[d]
  BY <1>1 DEF QueryAutocommit, BeginFails, SetAutocommit, dbapi
<1>4. autocommit' \in [Conns -> BOOLEAN]
  BY <1>1 DEF QueryAutocommit, BeginFails, SetAutocommit, dbapi
<1>5. IsFiniteSet(history') /\ \A h \in history' : h.id \in Ids
  <2>1. IsFiniteSet(history) /\ \A h \in history : h.id \in Ids
    BY <1>1 DEF TypeOK
  <2>2. CASE history' = history
    BY <2>1, <2>2
  <2>3. CASE QueryAutocommit(c)
    <3> DEFINE h == [id |-> <<c, Cardinality(Finished(c)) + 1>>, before |-> {g.id : g \in history},
                     observed |-> db, after |-> NoRead, toggled |-> {}]
    <3>1. history' = history \cup {h} /\ h.id = <<c, Cardinality(Finished(c)) + 1>>
      BY <2>3 DEF QueryAutocommit
    <3> HIDE DEF h
    <3> QED
      BY <1>1, <2>1, <3>1, FinishedCount, FS_AddElement
  <2> QED
    BY <2>2, <2>3 DEF BeginFails, SetAutocommit, app
<1>6. TypeOK'
  BY <1>1, <1>2, <1>3, <1>4, <1>5 DEF TypeOK
<1>7. Local(c)'
  BY <1>1, <1>2 DEF Local, InOrder, Owned, Begun, Waiting, Previewing, Nested,
                    Submitted, Executing, Committing, Operating
<1>8. Steps(c)
  <2>1. Elsewhere(c)
    BY <1>2, <1>3 DEF Elsewhere
  <2> QED
    BY <1>2, <2>1, Unmoved DEF Steps, Learns, Carries
<1> QED
  BY <1>6, <1>7, <1>8

\* A savepoint.
LEMMA SavepointKeeps ==
  ASSUME DbApiInv, NEW c \in Conns, NEW name \in Names, savepoint(c, name)
  PROVE  TypeOK' /\ Local(c)' /\ Steps(c)
<1> DEFINE inner == Append(frames[c], [name |-> name, work |-> <<>>])
           more == Append(savepoints[c], [name |-> name, at |-> Len(statements[c])])
<1>1. /\ TypeOK /\ Local(c) /\ InOrder(c) /\ Owned(c, statements[c]) /\ Begun(c) /\ Waiting(c)
      /\ Nested(c) /\ statements[c] \in Seq(Stmts) /\ frames[c] \in Seq(Frames)
      /\ savepoints[c] \in Seq(SavepointMarks)
      /\ session_epoch[c] \in -1..MaxEpoch /\ epoch \in 0..MaxEpoch /\ MaxEpoch \in Nat
      /\ frames \in [Conns -> Seq(Frames)] /\ savepoints \in [Conns -> Seq(SavepointMarks)]
  BY Unfold DEF TypeOK, SavepointMarks
<1>2. /\ pending[c] = None /\ ~failed[c] /\ call[c] = None
      /\ _begin(c) /\ StartOp(c)
      /\ savepoints' = [savepoints EXCEPT ![c] = more]
      /\ frames' = [frames EXCEPT ![c] = inner]
      /\ UNCHANGED <<db, revision, epoch, rows, requests, session, sequence, pending, statements>>
      /\ UNCHANGED <<failed, autocommit, closed, call, created, fate, history>>
  BY DEF savepoint, Idle, _ready, service
<1>3. inner \in Seq(Frames) /\ more \in Seq(SavepointMarks) /\ NestOf(inner, statements[c], more)
  BY <1>1, <1>2, NestSavepoint DEF Nested
<1> HIDE DEF inner, more
<1>4. /\ frames' \in [Conns -> Seq(Frames)] /\ frames'[c] = inner
      /\ savepoints' \in [Conns -> Seq(SavepointMarks)] /\ savepoints'[c] = more
      /\ \A d \in Conns \ {c} : frames'[d] = frames[d] /\ savepoints'[d] = savepoints[d]
  BY <1>1, <1>2, <1>3
<1>5. /\ version' \in [Conns -> 0..revision] /\ session_epoch' \in [Conns -> -1..MaxEpoch]
      /\ \A d \in Conns \ {c} : version'[d] = version[d] /\ session_epoch'[d] = session_epoch[d]
      /\ version'[c] # 0 /\ session_epoch'[c] # -1
      /\ session_epoch'[c] = session_epoch[c] \/ session_epoch'[c] = epoch
  BY <1>1, <1>2, BeginType
<1>6. /\ op' \in [Conns -> Operations \cup {None}] /\ op'[c] # None
      /\ \A d \in Conns \ {c} : op'[d] = op[d]
  BY <1>1, <1>2, StartType
<1>7. TypeOK'
  BY <1>1, <1>2, <1>4, <1>5, <1>6 DEF TypeOK, SavepointMarks
<1>8. InOrder(c)' /\ Owned(c, statements[c])' /\ Nested(c)'
  BY <1>1, <1>2, <1>3, <1>4 DEF InOrder, Owned, Nested
<1>9. Begun(c)'
  BY <1>1, <1>2, <1>5 DEF Begun
<1>10. Waiting(c)' /\ Previewing(c)' /\ Operating(c)'
  BY <1>2, <1>5, <1>6 DEF Waiting, Previewing, Submitted, Executing, Operating
<1>11. Steps(c)
  <2>1. Elsewhere(c)
    BY <1>2, <1>4, <1>5, <1>6 DEF Elsewhere
  <2> QED
    BY <1>2, <2>1, Unmoved DEF Steps, Learns, Carries
<1> QED
  BY <1>7, <1>8, <1>9, <1>10, <1>11 DEF Local

\* A verdict on statements that are not known of yet.
LEMMA Settled ==
  ASSUME NEW some, NEW verdict \in {"open", "done", "gone"}, Settle(some, verdict),
         fate \in [Stmts -> {"new", "open", "done", "gone"}]
  PROVE  /\ fate' \in [Stmts -> {"new", "open", "done", "gone"}]
         /\ \A s \in Stmts : s \notin some => fate'[s] = fate[s]
         /\ \A s \in Stmts : s \in some /\ fate[s] \in {"new", "open"} => fate'[s] = verdict
         /\ \A s \in Stmts : fate'[s] = fate[s] \/ (fate[s] \in {"new", "open"} /\ fate'[s] = verdict)
BY DEF Settle

\* Statements that were not sent can be given up.
LEMMA SettledGone ==
  ASSUME DbApiInv, NEW c \in Conns, NEW some, Settle(some, "gone"),
         \A s \in some : \/ s[1] = c /\ fate[s] = "new"
                         \/ /\ s \in Range(statements[c])
                            /\ pending[c] = None \/ s \notin Range(pending[c].body)
  PROVE  /\ fate' \in [Stmts -> {"new", "open", "done", "gone"}]
         /\ Learns(c)
         /\ \A s \in Stmts : s \notin some => fate'[s] = fate[s]
         /\ \A s \in Stmts : fate'[s] = "open" => fate[s] = "open" /\ s \notin some
<1>1. fate \in [Stmts -> {"new", "open", "done", "gone"}] /\ Owned(c, statements[c])
  BY DEF DbApiInv, TypeOK, Local
<1>2. /\ fate' \in [Stmts -> {"new", "open", "done", "gone"}]
      /\ \A s \in Stmts : s \notin some => fate'[s] = fate[s]
      /\ \A s \in Stmts : s \in some /\ fate[s] \in {"new", "open"} => fate'[s] = "gone"
      /\ \A s \in Stmts : fate'[s] = fate[s] \/ (fate[s] \in {"new", "open"} /\ fate'[s] = "gone")
  BY <1>1, Settled
<1>3. ASSUME NEW s \in Stmts, s \in some, fate[s] \in {"new", "open"}
      PROVE  s[1] = c /\ s \notin db /\ \A p \in requests : s \notin Range(p.body)
  <2>1. s[1] = c
    BY <1>1, <1>3 DEF Owned
  <2> QED
    BY <1>3, <2>1, Unsent
<1>4. Learns(c)
  BY <1>2, <1>3 DEF Learns
<1> QED
  BY <1>2, <1>4

\* A connection that has no transaction.
LEMMA LocalCleared ==
  ASSUME NEW c \in Conns, version'[c] = 0, statements'[c] = <<>>, savepoints'[c] = <<>>,
         ~failed'[c], frames'[c] = Base, session_epoch'[c] <= epoch',
         InOrder(c)', Waiting(c)', ~Executing(c)', pending'[c] = None => op'[c] = None
  PROVE  Local(c)'
<1>1. Owned(c, statements[c])' /\ Nested(c)'
  <2>1. Range(statements'[c]) = {} /\ Distinct(<<>>)
    BY RangeSmall DEF Distinct
  <2> QED
    BY <2>1, NestBase DEF Owned, Nested
<1>2. Begun(c)' /\ Previewing(c)' /\ Operating(c)'
  BY DEF Begun, Previewing, Operating
<1> QED
  BY <1>1, <1>2 DEF Local

\* _clear and the types.
LEMMA ClearType ==
  ASSUME TypeOK, NEW c \in Conns, _clear(c), frames' = [frames EXCEPT ![c] = Base]
  PROVE  /\ version' \in [Conns -> 0..revision] /\ statements' \in [Conns -> Seq(Stmts)]
         /\ savepoints' \in [Conns -> Seq(SavepointMarks)] /\ failed' \in [Conns -> BOOLEAN]
         /\ frames' \in [Conns -> Seq(Frames)]
         /\ version'[c] = 0 /\ statements'[c] = <<>> /\ savepoints'[c] = <<>> /\ ~failed'[c]
         /\ frames'[c] = Base
         /\ \A d \in Conns \ {c} :
              /\ version'[d] = version[d] /\ statements'[d] = statements[d]
              /\ savepoints'[d] = savepoints[d] /\ failed'[d] = failed[d]
              /\ frames'[d] = frames[d]
<1>1. /\ version \in [Conns -> 0..revision] /\ statements \in [Conns -> Seq(Stmts)]
      /\ savepoints \in [Conns -> Seq(SavepointMarks)] /\ failed \in [Conns -> BOOLEAN]
      /\ frames \in [Conns -> Seq(Frames)] /\ revision \in Nat
  BY DEF TypeOK, SavepointMarks
<1>2. /\ version' \in [Conns -> 0..revision] /\ version'[c] = 0
      /\ \A d \in Conns \ {c} : version'[d] = version[d]
  BY <1>1 DEF _clear
<1>3. /\ statements' \in [Conns -> Seq(Stmts)] /\ statements'[c] = <<>>
      /\ \A d \in Conns \ {c} : statements'[d] = statements[d]
  BY <1>1, Values DEF _clear
<1>4. /\ savepoints' \in [Conns -> Seq(SavepointMarks)] /\ savepoints'[c] = <<>>
      /\ \A d \in Conns \ {c} : savepoints'[d] = savepoints[d]
  BY <1>1, Values DEF _clear
<1>5. /\ failed' \in [Conns -> BOOLEAN] /\ ~failed'[c]
      /\ \A d \in Conns \ {c} : failed'[d] = failed[d]
  BY <1>1 DEF _clear
<1>6. /\ frames' \in [Conns -> Seq(Frames)] /\ frames'[c] = Base
      /\ \A d \in Conns \ {c} : frames'[d] = frames[d]
  BY <1>1, Values
<1> QED
  BY <1>2, <1>3, <1>4, <1>5, <1>6

\* Statements that are no longer new have been made.
LEMMA OrderStays ==
  ASSUME NEW c \in Conns, InOrder(c), created'[c] = created[c],
         \A s \in Stmts : s[1] = c => (fate'[s] = "new" <=> fate[s] = "new")
  PROVE  InOrder(c)'
<1>1. \A i \in 1..MaxNew[c] : <<c, i>> \in Stmts /\ <<c, i>>[1] = c
  BY DEF Stmts
<1> QED
  BY <1>1 DEF InOrder

\* An operation that did not take place.
LEMMA AbandonType ==
  ASSUME TypeOK, NEW c \in Conns, AbandonOp(c)
  PROVE  /\ op' \in [Conns -> Operations \cup {None}] /\ op'[c] = None /\ history' = history
         /\ \A d \in Conns \ {c} : op'[d] = op[d]
<1>1. op \in [Conns -> Operations \cup {None}]
  BY DEF TypeOK
<1> QED
  BY <1>1 DEF AbandonOp

\* Giving up what was not sent leaves the pending write open.
LEMMA GoneWaits ==
  ASSUME DbApiInv, NEW c \in Conns, NEW some, Settle(some, "gone"),
         pending[c] # None, some \cap Range(pending[c].body) = {}
  PROVE  /\ pending[c].session = <<c, session[c]>> /\ pending[c].sequence = sequence[c]
         /\ \A s \in Range(pending[c].body) : fate'[s] = "open"
<1>1. TypeOK /\ Waiting(c) /\ fate \in [Stmts -> {"new", "open", "done", "gone"}]
  BY Unfold DEF TypeOK
<1>2. pending[c] \in requests
  BY <1>1 DEF TypeOK
<1>3. Range(pending[c].body) \subseteq Stmts
  BY <1>1, <1>2, RequestType
<1>4. \A s \in Stmts : s \notin some => fate'[s] = fate[s]
  BY <1>1, Settled
<1> QED
  BY <1>1, <1>3, <1>4 DEF Waiting

\* What is given up was not new.
LEMMA GoneOrder ==
  ASSUME DbApiInv, NEW c \in Conns, NEW some, Settle(some, "gone"),
         some \subseteq Range(statements[c]), created'[c] = created[c]
  PROVE  InOrder(c)'
<1>1. /\ InOrder(c) /\ Owned(c, statements[c])
      /\ fate \in [Stmts -> {"new", "open", "done", "gone"}]
  BY Unfold DEF TypeOK
<1>2. /\ \A s \in Stmts : s \notin some => fate'[s] = fate[s]
      /\ \A s \in Stmts : fate'[s] = fate[s] \/ (fate[s] \in {"new", "open"} /\ fate'[s] = "gone")
  BY <1>1, Settled
<1>3. \A s \in Stmts : fate'[s] = "new" <=> fate[s] = "new"
  BY <1>1, <1>2 DEF Owned
<1> QED
  BY <1>1, <1>3, OrderStays

\* rollback ends the transaction.
LEMMA RollbackKeeps ==
  ASSUME DbApiInv, NEW c \in Conns, rollback(c)
  PROVE  TypeOK' /\ Local(c)' /\ Steps(c)
<1>1. TypeOK /\ InOrder(c) /\ Begun(c)
  BY Unfold
<1>2. /\ pending[c] = None /\ call[c] = None /\ _clear(c) /\ frames' = [frames EXCEPT ![c] = Base]
      /\ Settle(Range(statements[c]), "gone") /\ AbandonOp(c)
      /\ UNCHANGED <<db, revision, epoch, rows, requests, session, sequence, pending>>
      /\ UNCHANGED <<session_epoch, autocommit, closed, call, created>>
  BY DEF rollback, Idle, MayRollback, service, native
<1>3. /\ version' \in [Conns -> 0..revision] /\ statements' \in [Conns -> Seq(Stmts)]
      /\ savepoints' \in [Conns -> Seq(SavepointMarks)] /\ failed' \in [Conns -> BOOLEAN]
      /\ frames' \in [Conns -> Seq(Frames)]
      /\ version'[c] = 0 /\ statements'[c] = <<>> /\ savepoints'[c] = <<>> /\ ~failed'[c]
      /\ frames'[c] = Base
      /\ \A d \in Conns \ {c} :
           /\ version'[d] = version[d] /\ statements'[d] = statements[d]
           /\ savepoints'[d] = savepoints[d] /\ failed'[d] = failed[d]
           /\ frames'[d] = frames[d]
  BY <1>1, <1>2, ClearType
<1>4. /\ op' \in [Conns -> Operations \cup {None}] /\ op'[c] = None /\ history' = history
      /\ \A d \in Conns \ {c} : op'[d] = op[d]
  BY <1>1, <1>2, AbandonType
<1>5. fate' \in [Stmts -> {"new", "open", "done", "gone"}] /\ Learns(c)
  BY <1>2, SettledGone
<1>6. TypeOK'
  BY <1>1, <1>2, <1>3, <1>4, <1>5 DEF TypeOK, SavepointMarks
<1>7. Waiting(c)' /\ ~Executing(c)'
  BY <1>2 DEF Waiting, Submitted, Executing
<1>8. InOrder(c)'
  BY <1>2, GoneOrder
<1>9. session_epoch'[c] <= epoch'
  BY <1>1, <1>2 DEF Begun
<1>10. Local(c)'
  BY <1>3, <1>4, <1>7, <1>8, <1>9, LocalCleared
<1>11. Elsewhere(c)
  BY <1>2, <1>3, <1>4 DEF Elsewhere
<1>12. Carries(c)
  BY <1>3, RangeSmall DEF Carries
<1> QED
  BY <1>2, <1>5, <1>6, <1>10, <1>11, <1>12, Unmoved DEF Steps

\* The end of a connection, or a new one with its pending write.
LEMMA CloseKeeps ==
  ASSUME DbApiInv, NEW c \in Conns, close(c) \/ Reconnect(c, TRUE)
  PROVE  TypeOK' /\ Local(c)' /\ Steps(c)
<1>1. /\ TypeOK /\ InOrder(c) /\ Begun(c) /\ Waiting(c)
      /\ closed \in [Conns -> BOOLEAN] /\ call \in [Conns -> Calls \cup {None}]
      /\ op \in [Conns -> Operations \cup {None}]
  BY Unfold DEF TypeOK
<1>2. /\ call[c] = None /\ _clear(c) /\ frames' = [frames EXCEPT ![c] = Base]
      /\ Settle(Undone(c), "gone")
      /\ UNCHANGED <<db, revision, epoch, rows, requests, session, sequence, pending>>
      /\ UNCHANGED <<session_epoch, autocommit, created>>
  BY DEF close, Reconnect, Idle, service, native
<1>3. /\ version' \in [Conns -> 0..revision] /\ statements' \in [Conns -> Seq(Stmts)]
      /\ savepoints' \in [Conns -> Seq(SavepointMarks)] /\ failed' \in [Conns -> BOOLEAN]
      /\ frames' \in [Conns -> Seq(Frames)]
      /\ version'[c] = 0 /\ statements'[c] = <<>> /\ savepoints'[c] = <<>> /\ ~failed'[c]
      /\ frames'[c] = Base
      /\ \A d \in Conns \ {c} :
           /\ version'[d] = version[d] /\ statements'[d] = statements[d]
           /\ savepoints'[d] = savepoints[d] /\ failed'[d] = failed[d]
           /\ frames'[d] = frames[d]
  BY <1>1, <1>2, ClearType
<1>4. /\ op' \in [Conns -> Operations \cup {None}] /\ (pending[c] = None => op'[c] = None)
      /\ history' = history /\ \A d \in Conns \ {c} : op'[d] = op[d]
  BY <1>1, AbandonType DEF close, Reconnect
<1>5. /\ closed' \in [Conns -> BOOLEAN] /\ call' \in [Conns -> Calls \cup {None}]
      /\ call'[c] = None /\ \A d \in Conns \ {c} : call'[d] = call[d]
  BY <1>1, <1>2 DEF close, Reconnect
<1>6. /\ Undone(c) \subseteq Range(statements[c])
      /\ pending[c] # None => Undone(c) \cap Range(pending[c].body) = {}
  BY DEF Undone
<1>7. fate' \in [Stmts -> {"new", "open", "done", "gone"}] /\ Learns(c)
  BY <1>2, <1>6, SettledGone
<1>8. TypeOK'
  BY <1>1, <1>2, <1>3, <1>4, <1>5, <1>7 DEF TypeOK, SavepointMarks
<1>9. Waiting(c)' /\ ~Executing(c)'
  <2>1. ~Submitted(c)' /\ ~Executing(c)'
    BY <1>5 DEF Submitted, Executing
  <2>2. pending[c] # None =>
          /\ pending[c].session = <<c, session[c]>> /\ pending[c].sequence = sequence[c]
          /\ \A s \in Range(pending[c].body) : fate'[s] = "open"
    BY <1>2, <1>6, GoneWaits
  <2> QED
    BY <1>2, <1>3, <2>1, <2>2 DEF Waiting
<1>10. InOrder(c)'
  BY <1>2, <1>6, GoneOrder
<1>11. session_epoch'[c] <= epoch'
  BY <1>1, <1>2 DEF Begun
<1>12. Local(c)'
  BY <1>2, <1>3, <1>4, <1>9, <1>10, <1>11, LocalCleared
<1>13. Elsewhere(c)
  BY <1>2, <1>3, <1>4, <1>5 DEF Elsewhere
<1>14. Carries(c)
  BY <1>3, RangeSmall DEF Carries
<1> QED
  BY <1>2, <1>7, <1>8, <1>12, <1>13, <1>14, Unmoved DEF Steps

\* A new connection with a session of its own.
LEMMA ReconnectKeeps ==
  ASSUME DbApiInv, NEW c \in Conns, Reconnect(c, FALSE)
  PROVE  TypeOK' /\ Local(c)' /\ Steps(c)
<1>1. /\ TypeOK /\ InOrder(c) /\ Begun(c) /\ Waiting(c) /\ epoch \in 0..MaxEpoch /\ MaxEpoch \in Nat
      /\ closed \in [Conns -> BOOLEAN] /\ call \in [Conns -> Calls \cup {None}]
      /\ session \in [Conns -> Nat] /\ sequence \in [Conns -> Nat \ {0}]
      /\ pending \in [Conns -> requests \cup {None}] /\ session_epoch \in [Conns -> -1..MaxEpoch]
  BY Unfold DEF TypeOK
<1>2. /\ _clear(c) /\ frames' = [frames EXCEPT ![c] = Base] /\ session[c] < MaxSession[c]
      /\ Settle(Undone(c), "gone") /\ AbandonOp(c)
      /\ session' = [session EXCEPT ![c] = @ + 1] /\ sequence' = [sequence EXCEPT ![c] = 1]
      /\ pending' = [pending EXCEPT ![c] = None] /\ session_epoch' = [session_epoch EXCEPT ![c] = -1]
      /\ closed' = [closed EXCEPT ![c] = FALSE] /\ call' = [call EXCEPT ![c] = None]
      /\ UNCHANGED <<db, revision, epoch, rows, requests, autocommit, created>>
  BY DEF Reconnect, service
<1>3. /\ version' \in [Conns -> 0..revision] /\ statements' \in [Conns -> Seq(Stmts)]
      /\ savepoints' \in [Conns -> Seq(SavepointMarks)] /\ failed' \in [Conns -> BOOLEAN]
      /\ frames' \in [Conns -> Seq(Frames)]
      /\ version'[c] = 0 /\ statements'[c] = <<>> /\ savepoints'[c] = <<>> /\ ~failed'[c]
      /\ frames'[c] = Base
      /\ \A d \in Conns \ {c} :
           /\ version'[d] = version[d] /\ statements'[d] = statements[d]
           /\ savepoints'[d] = savepoints[d] /\ failed'[d] = failed[d]
           /\ frames'[d] = frames[d]
  BY <1>1, <1>2, ClearType
<1>4. /\ op' \in [Conns -> Operations \cup {None}] /\ op'[c] = None /\ history' = history
      /\ \A d \in Conns \ {c} : op'[d] = op[d]
  BY <1>1, <1>2, AbandonType
<1>5. /\ closed' \in [Conns -> BOOLEAN] /\ call' \in [Conns -> Calls \cup {None}]
      /\ call'[c] = None /\ \A d \in Conns \ {c} : call'[d] = call[d]
  BY <1>1, <1>2
<1>6. /\ session' \in [Conns -> Nat] /\ session'[c] = session[c] + 1
      /\ sequence' \in [Conns -> Nat \ {0}] /\ pending' \in [Conns -> requests \cup {None}]
      /\ pending'[c] = None /\ session_epoch'[c] = -1
      /\ session_epoch' \in [Conns -> -1..MaxEpoch]
      /\ \A d \in Conns \ {c} : /\ session'[d] = session[d] /\ sequence'[d] = sequence[d]
                                /\ pending'[d] = pending[d] /\ session_epoch'[d] = session_epoch[d]
  BY <1>1, <1>2
<1>7. \A d \in Conns : <<d, session'[d]>> \in Sessions
  <2>1. <<c, session'[c]>> \in Sessions
    <3>1. MaxSession[c] \in Nat /\ session[c] \in Nat
      BY <1>1, DbApiAssumption
    <3>2. session[c] + 1 \in 1..MaxSession[c]
      BY <1>2, <3>1
    <3> QED
      BY <1>6, <3>2 DEF Sessions
  <2> QED
    BY <1>1, <1>6, <2>1 DEF TypeOK
<1>8. /\ Undone(c) \subseteq Range(statements[c])
      /\ pending[c] # None => Undone(c) \cap Range(pending[c].body) = {}
  BY DEF Undone
<1>9. fate' \in [Stmts -> {"new", "open", "done", "gone"}] /\ Learns(c)
  BY <1>2, <1>8, SettledGone
<1>10. TypeOK'
  BY <1>1, <1>2, <1>3, <1>4, <1>5, <1>6, <1>7, <1>9 DEF TypeOK, SavepointMarks
<1>11. Waiting(c)' /\ ~Executing(c)'
  BY <1>5, <1>6 DEF Waiting, Submitted, Executing
<1>12. InOrder(c)'
  BY <1>2, <1>8, GoneOrder
<1>13. session_epoch'[c] <= epoch'
  BY <1>1, <1>2, <1>6
<1>14. Local(c)'
  BY <1>3, <1>4, <1>11, <1>12, <1>13, LocalCleared
<1>15. Elsewhere(c)
  BY <1>2, <1>3, <1>4, <1>5, <1>6 DEF Elsewhere
<1>16. Carries(c) /\ Moves(c) /\ Submits(c)
  BY <1>2, <1>3, <1>6, RangeSmall DEF Carries, Moves, Submits
<1> QED
  BY <1>2, <1>9, <1>10, <1>14, <1>15, <1>16 DEF Steps

\* What an operation reads.
LEMMA ReadType ==
  ASSUME TypeOK, NEW c \in Conns, op[c] # None, NEW x \in Reads,
         op' = [op EXCEPT ![c].after = x] \/ op' = [op EXCEPT ![c].observed = x]
  PROVE  /\ op' \in [Conns -> Operations \cup {None}] /\ op'[c] # None
         /\ \A d \in Conns \ {c} : op'[d] = op[d]
         /\ op'[c].before = op[c].before
<1>1. op \in [Conns -> Operations \cup {None}] /\ op[c] \in Operations
  BY DEF TypeOK
<1>2. \A o \in Operations : /\ [o EXCEPT !.after = x] \in Operations
                            /\ [o EXCEPT !.observed = x] \in Operations
                            /\ [o EXCEPT !.after = x].before = o.before
                            /\ [o EXCEPT !.observed = x].before = o.before
  BY DEF Operations
<1> DEFINE a == [op[c] EXCEPT !.after = x]
           b == [op[c] EXCEPT !.observed = x]
<1>3. op' = [op EXCEPT ![c] = a] \/ op' = [op EXCEPT ![c] = b]
  OBVIOUS
<1>4. a \in Operations /\ b \in Operations /\ a.before = op[c].before /\ b.before = op[c].before
  BY <1>1, <1>2
<1> HIDE DEF a, b
<1> QED
  BY <1>1, <1>3, <1>4, Values

\* A transaction that is in progress and usable.
LEMMA InProgress ==
  ASSUME DbApiInv, NEW c \in Conns, pending[c] = None, ~failed[c],
         version[c] # 0 \/ savepoints[c] # <<>> \/ statements[c] # <<>>
  PROVE  version[c] # 0 /\ op[c] # None /\ session_epoch[c] # -1
<1>1. Begun(c) /\ Operating(c)
  BY Unfold
<1> QED
  BY <1>1 DEF Begun, Operating

\* A mark of that name exists only in a transaction.
LEMMA MarksExist ==
  ASSUME NEW marks, NEW name, Marks(marks, name) PROVE marks # <<>>
BY DEF Marks

\* ROLLBACK TO.
LEMMA RollbackSavepointKeeps ==
  ASSUME DbApiInv, NEW c \in Conns, NEW name \in Names, rollback_savepoint(c, name)
  PROVE  TypeOK' /\ Local(c)' /\ Steps(c)
<1> DEFINE m == _savepoint_index(savepoints[c], name)
           list == SubSeq(statements[c], 1, savepoints[c][m].at)
           marks == SubSeq(savepoints[c], 1, m)
           nest == Append(SubSeq(frames[c], 1, m), [frames[c][m + 1] EXCEPT !.work = <<>>])
<1>1. /\ TypeOK /\ InOrder(c) /\ Owned(c, statements[c]) /\ Begun(c) /\ Waiting(c)
      /\ Nested(c) /\ statements[c] \in Seq(Stmts) /\ frames[c] \in Seq(Frames)
      /\ savepoints[c] \in Seq(SavepointMarks) /\ Range(statements[c]) \subseteq Stmts
      /\ statements \in [Conns -> Seq(Stmts)] /\ frames \in [Conns -> Seq(Frames)]
      /\ savepoints \in [Conns -> Seq(SavepointMarks)]
  BY Unfold DEF TypeOK, SavepointMarks
<1>2. /\ pending[c] = None /\ ~failed[c] /\ call[c] = None /\ Marks(savepoints[c], name)
      /\ UNCHANGED <<db, revision, epoch, rows, requests, session, sequence, pending>>
      /\ UNCHANGED <<session_epoch, version, failed, autocommit, closed, call, created, history>>
      /\ op' = [op EXCEPT ![c].after = NoRead]
  BY DEF rollback_savepoint, Idle, _ready, service, native
<1>3. /\ NestOf(frames[c], statements[c], savepoints[c])
      /\ \A s \in Range(statements[c]) : fate[s] = "open"
  BY <1>1, <1>2 DEF Nested
<1>4. m \in 1..Len(savepoints[c]) /\ _savepoint_index(frames[c], name) = m + 1
  BY <1>1, <1>2, <1>3, NestIndex
<1>5. /\ savepoints[c][m].at \in 0..Len(statements[c])
      /\ nest \in Seq(Frames) /\ marks \in Seq(SavepointMarks) /\ NestOf(nest, list, marks)
  BY <1>1, <1>3, <1>4, NestRollback
<1>6. list \in Seq(Stmts) /\ Distinct(list) /\ Range(list) \subseteq Range(statements[c])
  <2>1. list \in Seq(Stmts)
    BY <1>1, <1>5
  <2>2. Distinct(list)
    BY <1>1, <1>5, DistinctPrefix DEF Owned
  <2>3. Range(list) \subseteq Range(statements[c])
    BY <1>1, <1>5, RangePrefix
  <2> QED
    BY <2>1, <2>2, <2>3
<1>7. /\ statements' = [statements EXCEPT ![c] = list]
      /\ savepoints' = [savepoints EXCEPT ![c] = marks]
      /\ frames' = [frames EXCEPT ![c] = nest]
      /\ Settle(Range(statements[c]) \ Range(statements'[c]), "gone")
  <2>1. (m + 1) - 1 = m
    BY <1>4
  <2> QED
    BY <1>4, <2>1 DEF rollback_savepoint
<1> HIDE DEF list, marks, nest, m
<1>8. /\ statements' \in [Conns -> Seq(Stmts)] /\ statements'[c] = list
      /\ savepoints' \in [Conns -> Seq(SavepointMarks)] /\ savepoints'[c] = marks
      /\ frames' \in [Conns -> Seq(Frames)] /\ frames'[c] = nest
      /\ \A d \in Conns \ {c} : /\ statements'[d] = statements[d] /\ savepoints'[d] = savepoints[d]
                                /\ frames'[d] = frames[d]
  BY <1>1, <1>5, <1>6, <1>7
<1>9. Settle(Range(statements[c]) \ Range(list), "gone")
  BY <1>7, <1>8
<1>10. /\ fate' \in [Stmts -> {"new", "open", "done", "gone"}] /\ Learns(c)
       /\ \A s \in Stmts : s \notin Range(statements[c]) \ Range(list) => fate'[s] = fate[s]
  BY <1>2, <1>9, SettledGone
<1>11. /\ op' \in [Conns -> Operations \cup {None}] /\ op'[c] # None
       /\ \A d \in Conns \ {c} : op'[d] = op[d]
  <2>1. op[c] # None
    BY <1>2, MarksExist, InProgress
  <2> QED
    BY <1>1, <1>2, <2>1, ReadType, Values
<1>12. TypeOK'
  BY <1>1, <1>2, <1>8, <1>10, <1>11 DEF TypeOK, SavepointMarks
<1>13. InOrder(c)'
  <2>1. Range(statements[c]) \ Range(list) \subseteq Range(statements[c])
    OBVIOUS
  <2> QED
    BY <1>2, <1>9, <2>1, GoneOrder
<1>14. \A s \in Range(list) : fate'[s] = "open" /\ s[1] = c
  BY <1>1, <1>3, <1>6, <1>10 DEF Owned
<1>15. Owned(c, statements[c])' /\ Nested(c)'
  BY <1>5, <1>6, <1>8, <1>14 DEF Owned, Nested
<1>16. version[c] # 0
  BY <1>2, MarksExist, InProgress
<1>17. Begun(c)' /\ Waiting(c)' /\ Previewing(c)' /\ Operating(c)'
  BY <1>1, <1>2, <1>11, <1>16 DEF Begun, Waiting, Previewing, Operating, Submitted, Executing
<1>18. Elsewhere(c)
  BY <1>2, <1>8, <1>11 DEF Elsewhere
<1>19. Carries(c)
  BY <1>2, <1>3, <1>6, <1>8 DEF Carries
<1>20. Local(c)'
  BY <1>13, <1>15, <1>17 DEF Local
<1> QED
  BY <1>2, <1>10, <1>12, <1>18, <1>19, <1>20, Unmoved DEF Steps

\* RELEASE.
LEMMA ReleaseSavepointKeeps ==
  ASSUME DbApiInv, NEW c \in Conns, NEW name \in Names, release_savepoint(c, name)
  PROVE  TypeOK' /\ Local(c)' /\ Steps(c)
<1> DEFINE m == _savepoint_index(savepoints[c], name)
           inner == Work(SubSeq(frames[c], m + 1, Len(frames[c])))
           marks == SubSeq(savepoints[c], 1, m - 1)
           nest == Append(SubSeq(frames[c], 1, m - 1), [frames[c][m] EXCEPT !.work = @ \o inner])
<1>1. /\ TypeOK /\ InOrder(c) /\ Owned(c, statements[c]) /\ Begun(c) /\ Waiting(c)
      /\ Nested(c) /\ Operating(c) /\ statements[c] \in Seq(Stmts) /\ frames[c] \in Seq(Frames)
      /\ savepoints[c] \in Seq(SavepointMarks)
      /\ frames \in [Conns -> Seq(Frames)] /\ savepoints \in [Conns -> Seq(SavepointMarks)]
  BY Unfold DEF TypeOK, SavepointMarks
<1>2. /\ pending[c] = None /\ ~failed[c] /\ call[c] = None /\ Marks(savepoints[c], name)
      /\ UNCHANGED <<db, revision, epoch, rows, requests, session, sequence, pending>>
      /\ UNCHANGED <<session_epoch, version, statements, failed, autocommit, closed, call, created>>
      /\ UNCHANGED <<fate, op, history>>
  BY DEF release_savepoint, Idle, _ready, service, native
<1>3. NestOf(frames[c], statements[c], savepoints[c])
  BY <1>1, <1>2 DEF Nested
<1>4. m \in 1..Len(savepoints[c]) /\ _savepoint_index(frames[c], name) = m + 1
  BY <1>1, <1>2, <1>3, NestIndex
<1>5. nest \in Seq(Frames) /\ marks \in Seq(SavepointMarks) /\ NestOf(nest, statements[c], marks)
  BY <1>1, <1>3, <1>4, NestRelease
<1>6. /\ savepoints' = [savepoints EXCEPT ![c] = marks]
      /\ frames' = [frames EXCEPT ![c] = nest]
  <2> DEFINE f == _savepoint_index(frames[c], name)
             wider == [frames[c][f - 1] EXCEPT !.work = @ \o Work(SubSeq(frames[c], f, Len(frames[c])))]
  <2>1. f = m + 1 /\ f - 1 = m /\ f - 2 = m - 1
    BY <1>4
  <2>2. /\ savepoints' = [savepoints EXCEPT ![c] = marks]
        /\ frames' = [frames EXCEPT ![c] = Append(SubSeq(frames[c], 1, f - 2), wider)]
    BY DEF release_savepoint
  <2>3. wider = [frames[c][m] EXCEPT !.work = @ \o inner]
    <3> HIDE DEF f, m
    <3> QED
      BY <2>1
  <2> HIDE DEF f, wider
  <2> QED
    BY <2>1, <2>2, <2>3
<1>7. version[c] # 0
  BY <1>2, MarksExist, InProgress
<1> HIDE DEF marks, nest, m
<1>8. /\ savepoints' \in [Conns -> Seq(SavepointMarks)] /\ savepoints'[c] = marks
      /\ frames' \in [Conns -> Seq(Frames)] /\ frames'[c] = nest
      /\ \A d \in Conns \ {c} : savepoints'[d] = savepoints[d] /\ frames'[d] = frames[d]
  BY <1>1, <1>5, <1>6
<1>9. TypeOK'
  BY <1>1, <1>2, <1>8 DEF TypeOK, SavepointMarks
<1>10. InOrder(c)' /\ Owned(c, statements[c])' /\ Nested(c)'
  BY <1>1, <1>2, <1>5, <1>8 DEF InOrder, Owned, Nested
<1>11. Begun(c)' /\ Waiting(c)' /\ Previewing(c)' /\ Operating(c)'
  BY <1>1, <1>2, <1>7 DEF Begun, Waiting, Previewing, Operating, Submitted, Executing
<1>12. Elsewhere(c)
  BY <1>2, <1>8 DEF Elsewhere
<1>13. Learns(c) /\ Carries(c)
  BY <1>2 DEF Learns, Carries
<1>14. Local(c)'
  BY <1>10, <1>11 DEF Local
<1> QED
  BY <1>2, <1>9, <1>12, <1>13, <1>14, Unmoved DEF Steps

\* The call in progress.
LEMMA CallType ==
  ASSUME TypeOK, NEW c \in Conns, call[c] # None
  PROVE  /\ call[c] \in Calls /\ call[c].left \in 0..2 /\ call[c].before \in Seq(Stmts)
         /\ call[c].nest \in Seq(Frames)
         /\ call[c].kind \in {"query", "write", "many", "commit", "commitmany", "batch", "resolve"}
<1>1. call[c] \in Calls
  BY DEF TypeOK
<1> QED
  BY <1>1 DEF Calls

\* The statement that a call adds is a new one.
LEMMA NewStatement ==
  ASSUME DbApiInv, NEW c \in Conns, Executing(c)
  PROVE  /\ New(c) \in Seq(Stmts) /\ Len(New(c)) \in {0, 1}
         /\ call[c].kind = "query" => New(c) = <<>> /\ Range(New(c)) = {}
         /\ call[c].kind # "query" =>
              /\ New(c) = <<<<c, created[c] + 1>>>> /\ Range(New(c)) = {<<c, created[c] + 1>>}
              /\ created[c] + 1 \in 1..MaxNew[c] /\ Len(New(c)) = 1
         /\ \A s \in Range(New(c)) : s \in Stmts /\ s[1] = c /\ fate[s] = "new"
         /\ Range(statements[c] \o New(c)) = Range(statements[c]) \cup Range(New(c))
         /\ statements[c] \o New(c) \in Seq(Stmts)
<1>1. /\ TypeOK /\ InOrder(c) /\ Previewing(c) /\ created[c] \in Nat /\ MaxNew[c] \in Nat
      /\ statements[c] \in Seq(Stmts)
  BY Unfold
<1>2. call[c].left \in 0..2
  BY <1>1, CallType DEF Executing
<1>3. CASE call[c].kind = "query"
  <2>1. New(c) = <<>>
    BY <1>3 DEF New
  <2>2. Range(New(c)) = {} /\ Len(New(c)) = 0 /\ New(c) \in Seq(Stmts)
    BY <2>1, RangeSmall
  <2>3. statements[c] \o New(c) = statements[c]
    BY <1>1, <2>1
  <2> QED
    BY <1>1, <1>3, <2>1, <2>2, <2>3
<1>4. CASE call[c].kind # "query"
  <2> DEFINE s == <<c, created[c] + 1>>
  <2>1. created[c] + 1 \in 1..MaxNew[c]
    BY <1>1, <1>2, <1>4 DEF Previewing
  <2>2. s \in Stmts /\ s[1] = c /\ fate[s] = "new"
    BY <1>1, <2>1 DEF Stmts, InOrder
  <2>3. New(c) = <<s>>
    BY <1>4 DEF New
  <2> HIDE DEF s
  <2>4. New(c) \in Seq(Stmts) /\ Len(New(c)) = 1 /\ Range(New(c)) = {s}
    BY <2>2, <2>3, RangeSmall
  <2>5. Range(statements[c] \o New(c)) = Range(statements[c]) \cup Range(New(c))
    BY <1>1, <2>4, RangeConcat
  <2>6. statements[c] \o New(c) \in Seq(Stmts)
    BY <1>1, <2>4
  <2> QED
    BY <1>4, <2>1, <2>2, <2>3, <2>4, <2>5, <2>6 DEF s
<1> QED
  BY <1>3, <1>4

\* The count of statements after a call added one.
LEMMA OrderNew ==
  ASSUME DbApiInv, NEW c \in Conns, Executing(c), created'[c] = created[c] + Len(New(c)),
         \A s \in Stmts : s[1] = c => (fate'[s] = "new" <=> fate[s] = "new" /\ s \notin Range(New(c)))
  PROVE  InOrder(c)'
<1>1. InOrder(c) /\ created[c] \in Nat /\ MaxNew[c] \in Nat
  BY Unfold
<1>2. \A i \in 1..MaxNew[c] : <<c, i>> \in Stmts /\ <<c, i>>[1] = c
  BY DEF Stmts
<1>3. CASE call[c].kind = "query"
  <2>1. Range(New(c)) = {} /\ Len(New(c)) = 0
    BY <1>3, NewStatement
  <2> QED
    BY <1>1, <1>2, <2>1 DEF InOrder
<1>4. CASE call[c].kind # "query"
  <2>1. /\ Range(New(c)) = {<<c, created[c] + 1>>} /\ created[c] + 1 \in 1..MaxNew[c]
        /\ Len(New(c)) = 1
    BY <1>4, NewStatement
  <2>2. created'[c] = created[c] + 1 /\ created'[c] <= MaxNew[c]
    BY <1>1, <2>1
  <2>3. ASSUME NEW i \in 1..MaxNew[c] PROVE fate'[<<c, i>>] = "new" <=> i > created'[c]
    <3>1. fate'[<<c, i>>] = "new" <=> fate[<<c, i>>] = "new" /\ <<c, i>> # <<c, created[c] + 1>>
      BY <1>2, <2>1
    <3>2. <<c, i>> # <<c, created[c] + 1>> <=> i # created[c] + 1
      OBVIOUS
    <3>3. fate[<<c, i>>] = "new" <=> i > created[c]
      BY <1>1 DEF InOrder
    <3> QED
      BY <1>1, <2>2, <3>1, <3>2, <3>3
  <2> QED
    BY <2>2, <2>3 DEF InOrder
<1> QED
  BY <1>3, <1>4

\* A call that raises.
LEMMA RaiseKeeps ==
  ASSUME DbApiInv, NEW c \in Conns, NEW fails \in BOOLEAN, Executing(c), Raise(c, fails)
  PROVE  TypeOK' /\ Local(c)' /\ Steps(c)
<1> DEFINE all == Range(statements[c]) \cup Range(New(c))
           some == IF autocommit[c] THEN all ELSE all \ Range(call[c].before)
<1>1. /\ TypeOK /\ InOrder(c) /\ Owned(c, statements[c]) /\ Begun(c) /\ Nested(c) /\ Previewing(c)
      /\ statements[c] \in Seq(Stmts) /\ Range(statements[c]) \subseteq Stmts
      /\ created[c] \in Nat
      /\ statements \in [Conns -> Seq(Stmts)] /\ frames \in [Conns -> Seq(Frames)]
      /\ failed \in [Conns -> BOOLEAN] /\ created \in [Conns -> Nat]
      /\ call \in [Conns -> Calls \cup {None}]
      /\ fate \in [Stmts -> {"new", "open", "done", "gone"}]
  BY Unfold DEF TypeOK
<1>2. /\ New(c) \in Seq(Stmts) /\ Len(New(c)) \in {0, 1}
      /\ \A s \in Range(New(c)) : s \in Stmts /\ s[1] = c /\ fate[s] = "new"
      /\ Range(statements[c] \o New(c)) = all
  BY NewStatement
<1>3. /\ call[c].before \in Seq(Stmts) /\ call[c].nest \in Seq(Frames)
  BY <1>1, CallType DEF Executing
<1>4. /\ pending[c] = None /\ ~failed[c] /\ version[c] # 0 /\ op[c] # None
      /\ Len(call[c].before) \in 0..Len(statements[c])
      /\ call[c].before = SubSeq(statements[c], 1, Len(call[c].before))
      /\ call[c].kind # "many" => call[c].before = statements[c]
      /\ NestOf(call[c].nest, call[c].before, savepoints[c])
  <2>1. Len(call[c].before) \in Nat /\ Len(statements[c]) \in Nat
    BY <1>1, <1>3
  <2>2. op[c] # None
    BY <1>1, InProgress DEF Previewing
  <2> QED
    BY <1>1, <2>1, <2>2 DEF Previewing
<1>5. /\ UNCHANGED <<db, revision, epoch, rows, requests, session, sequence, pending>>
      /\ UNCHANGED <<session_epoch, autocommit, closed>>
      /\ created' = [created EXCEPT ![c] = @ + Len(New(c))] /\ call' = [call EXCEPT ![c] = None]
      /\ Settle(some, "gone")
  BY <1>2 DEF Raise, service, native
<1>6. \A s \in some : \/ s[1] = c /\ fate[s] = "new"
                      \/ s \in Range(statements[c])
  BY <1>2
<1> HIDE DEF some
<1>7. /\ fate' \in [Stmts -> {"new", "open", "done", "gone"}] /\ Learns(c)
      /\ \A s \in Stmts : s \notin some => fate'[s] = fate[s]
  BY <1>4, <1>5, <1>6, SettledGone
<1>8. /\ created' \in [Conns -> Nat] /\ created'[c] = created[c] + Len(New(c))
      /\ call' \in [Conns -> Calls \cup {None}] /\ call'[c] = None
      /\ \A d \in Conns \ {c} : created'[d] = created[d] /\ call'[d] = call[d]
  <2>1. created[c] + Len(New(c)) \in Nat
    BY <1>1, <1>2
  <2> QED
    BY <1>1, <1>5, <2>1
<1>9. Range(call[c].before) \subseteq Range(statements[c]) /\ Distinct(call[c].before)
  <2>1. Range(SubSeq(statements[c], 1, Len(call[c].before))) \subseteq Range(statements[c])
    BY <1>1, <1>4, RangePrefix
  <2>2. Distinct(SubSeq(statements[c], 1, Len(call[c].before)))
    BY <1>1, <1>4, DistinctPrefix DEF Owned
  <2> QED
    BY <1>4, <2>1, <2>2
<1>10. Range(New(c)) \subseteq some /\ some \subseteq all
  <2>1. Range(New(c)) \cap Range(statements[c]) = {}
    BY <1>1, <1>2 DEF Owned
  <2> QED
    BY <1>9, <2>1 DEF some
<1>11. InOrder(c)'
  <2>1. /\ \A s \in Stmts : s \in some /\ fate[s] \in {"new", "open"} => fate'[s] = "gone"
        /\ \A s \in Stmts : fate'[s] = fate[s] \/ (fate[s] \in {"new", "open"} /\ fate'[s] = "gone")
    BY <1>1, <1>5, Settled
  <2>2. \A s \in Stmts : fate'[s] = "new" <=> fate[s] = "new" /\ s \notin Range(New(c))
    BY <1>1, <1>2, <1>7, <1>10, <2>1 DEF Owned
  <2> QED
    BY <1>8, <2>2, OrderNew
<1>12. Waiting(c)' /\ ~Executing(c)' /\ Previewing(c)'
  BY <1>4, <1>5, <1>8 DEF Waiting, Submitted, Executing, Previewing
<1>13. CASE autocommit[c]
  <2>1. _clear(c) /\ frames' = [frames EXCEPT ![c] = Base] /\ AbandonOp(c)
    BY <1>13 DEF Raise
  <2>2. /\ version' \in [Conns -> 0..revision] /\ statements' \in [Conns -> Seq(Stmts)]
        /\ savepoints' \in [Conns -> Seq(SavepointMarks)] /\ failed' \in [Conns -> BOOLEAN]
        /\ frames' \in [Conns -> Seq(Frames)]
        /\ version'[c] = 0 /\ statements'[c] = <<>> /\ savepoints'[c] = <<>> /\ ~failed'[c]
        /\ frames'[c] = Base
        /\ \A d \in Conns \ {c} :
             /\ version'[d] = version[d] /\ statements'[d] = statements[d]
             /\ savepoints'[d] = savepoints[d] /\ failed'[d] = failed[d]
             /\ frames'[d] = frames[d]
    BY <1>1, <2>1, ClearType
  <2>3. /\ op' \in [Conns -> Operations \cup {None}] /\ op'[c] = None /\ history' = history
        /\ \A d \in Conns \ {c} : op'[d] = op[d]
    BY <1>1, <2>1, AbandonType
  <2>4. TypeOK'
    BY <1>1, <1>5, <1>7, <1>8, <2>2, <2>3 DEF TypeOK, SavepointMarks
  <2>5. session_epoch'[c] <= epoch'
    BY <1>1, <1>5 DEF Begun
  <2>6. Local(c)'
    BY <1>11, <1>12, <2>2, <2>3, <2>5, LocalCleared
  <2>7. Elsewhere(c)
    BY <1>5, <1>8, <2>2, <2>3 DEF Elsewhere
  <2>8. Carries(c)
    BY <2>2, RangeSmall DEF Carries
  <2> QED
    BY <1>5, <1>7, <2>4, <2>6, <2>7, <2>8, Unmoved DEF Steps
<1>14. CASE ~autocommit[c]
  <2>1. /\ statements' = [statements EXCEPT ![c] = call[c].before]
        /\ frames' = [frames EXCEPT ![c] = call[c].nest]
        /\ failed' = [failed EXCEPT ![c] = @ \/ fails]
        /\ UNCHANGED <<version, savepoints, op, history>>
    <3>1. (IF call[c].kind = "many" THEN call[c].before ELSE statements[c]) = call[c].before
      BY <1>4
    <3> QED
      BY <1>14, <3>1 DEF Raise
  <2>2. /\ statements' \in [Conns -> Seq(Stmts)] /\ statements'[c] = call[c].before
        /\ frames' \in [Conns -> Seq(Frames)] /\ frames'[c] = call[c].nest
        /\ failed' \in [Conns -> BOOLEAN]
        /\ \A d \in Conns \ {c} : /\ statements'[d] = statements[d] /\ frames'[d] = frames[d]
                                  /\ failed'[d] = failed[d]
    BY <1>1, <1>3, <2>1
  <2>3. TypeOK'
    BY <1>1, <1>5, <1>7, <1>8, <2>1, <2>2 DEF TypeOK
  <2>4. \A s \in Range(call[c].before) : /\ s \in Range(statements[c]) /\ s[1] = c
                                         /\ fate[s] = "open" /\ fate'[s] = "open"
    <3>1. \A s \in Range(call[c].before) : s \in Stmts /\ s \notin some
      BY <1>1, <1>9, <1>14 DEF some
    <3> QED
      BY <1>1, <1>4, <1>7, <1>9, <3>1 DEF Owned, Nested
  <2>5. Owned(c, statements[c])' /\ Nested(c)'
    BY <1>4, <1>9, <2>1, <2>2, <2>4 DEF Owned, Nested
  <2>6. Begun(c)' /\ Operating(c)'
    BY <1>1, <1>4, <1>5, <2>1 DEF Begun, Operating
  <2>7. Local(c)'
    BY <1>11, <1>12, <2>5, <2>6 DEF Local
  <2>8. Elsewhere(c)
    BY <1>5, <1>8, <2>1, <2>2 DEF Elsewhere
  <2>9. Carries(c)
    BY <1>5, <2>2, <2>4 DEF Carries
  <2> QED
    BY <1>5, <1>7, <2>3, <2>7, <2>8, <2>9, Unmoved DEF Steps
<1> QED
  BY <1>13, <1>14

\* The write of a transaction, under the next number of its session.
LEMMA WriteType ==
  ASSUME DbApiInv, NEW c \in Conns, NEW list \in Seq(Stmts), NEW ver \in 0..revision,
         NEW e \in 0..epoch
  PROVE  LET w == [Write(c, list, ver) EXCEPT !.epoch = e] IN
         /\ w \in PendingWrites /\ w # None /\ w.version <= revision /\ w.epoch <= epoch
         /\ w.session = <<c, session[c]>> /\ w.sequence = sequence[c] /\ w.body = list
         /\ w.version = ver /\ w.epoch = e
<1> DEFINE w == [session |-> <<c, session[c]>>, sequence |-> sequence[c], epoch |-> e,
                 version |-> ver, body |-> list]
<1>1. /\ <<c, session[c]>> \in Sessions /\ sequence[c] \in Nat \ {0} /\ revision \in Nat
      /\ epoch \in 0..MaxEpoch /\ MaxEpoch \in Nat
  BY DbApiAssumption DEF DbApiInv, TypeOK
<1>2. e \in 0..MaxEpoch /\ ver \in Nat /\ ver <= revision /\ e <= epoch
  BY <1>1
<1>3. w \in PendingWrites
  BY <1>1, <1>2 DEF PendingWrites
<1>4. [Write(c, list, ver) EXCEPT !.epoch = e] = w
  BY DEF Write
<1> QED
  BY <1>2, <1>3, <1>4, Values

\* A write that is submitted is pending.
LEMMA SubmitType ==
  ASSUME TypeOK, NEW c \in Conns, NEW w \in PendingWrites, w.version <= revision,
         NEW kind \in {"commit", "commitmany", "batch", "resolve"}, _execute_prepared(c, w, kind)
  PROVE  /\ requests' = requests \cup {w} /\ requests' \subseteq PendingWrites
         /\ \A p \in requests' : p.version <= revision
         /\ pending' \in [Conns -> requests' \cup {None}] /\ pending'[c] = w
         /\ call' \in [Conns -> Calls \cup {None}] /\ call'[c] # None /\ call'[c].kind = kind
         /\ ~Executing(c)'
         /\ Committing(c)' <=> kind \in Commits
         /\ \A d \in Conns \ {c} : pending'[d] = pending[d] /\ call'[d] = call[d]
<1> DEFINE new == [kind |-> kind, left |-> 0, before |-> <<>>, nest |-> Base]
<1>1. new \in Calls /\ new # None /\ new.kind = kind
  <2>1. new \in Calls
    BY Values DEF Calls
  <2> QED
    BY <2>1, Values
<1> HIDE DEF new
<1>2. /\ pending' = [pending EXCEPT ![c] = w] /\ requests' = requests \cup {w}
      /\ call' = [call EXCEPT ![c] = new]
  BY DEF _execute_prepared, new
<1>3. /\ requests \subseteq PendingWrites /\ \A p \in requests : p.version <= revision
      /\ pending \in [Conns -> requests \cup {None}] /\ call \in [Conns -> Calls \cup {None}]
  BY DEF TypeOK
<1>4. /\ requests' \subseteq PendingWrites /\ \A p \in requests' : p.version <= revision
  BY <1>2, <1>3
<1>5. pending' \in [Conns -> requests' \cup {None}] /\ pending'[c] = w
  BY <1>2, <1>3
<1>6. /\ call' \in [Conns -> Calls \cup {None}] /\ call'[c] = new
      /\ \A d \in Conns \ {c} : pending'[d] = pending[d] /\ call'[d] = call[d]
  BY <1>1, <1>2, <1>3
<1>7. ~Executing(c)' /\ (Committing(c)' <=> kind \in Commits)
  BY <1>1, <1>6 DEF Executing, Committing
<1> QED
  BY <1>1, <1>2, <1>4, <1>5, <1>6, <1>7

\* What a preview does to the statements and the nest.
PreviewedEffect(c, list) ==
    /\ list \in Seq(Stmts) /\ Distinct(list)
    /\ Range(list) = Range(statements[c]) \cup Range(New(c))
    /\ statements' \in [Conns -> Seq(Stmts)] /\ statements'[c] = list
    /\ frames' \in [Conns -> Seq(Frames)] /\ NestOf(frames'[c], list, savepoints[c])
    /\ created' \in [Conns -> Nat] /\ created'[c] = created[c] + Len(New(c))
    /\ fate' \in [Stmts -> {"new", "open", "done", "gone"}]
    /\ \A s \in Range(list) : /\ s[1] = c /\ s \in Stmts /\ fate'[s] = "open"
                              /\ fate[s] = "new" \/ (s \in Range(statements[c]) /\ fate[s] = "open")
    /\ \A s \in Stmts : s \notin Range(New(c)) => fate'[s] = fate[s]
    /\ \A d \in Conns \ {c} : /\ statements'[d] = statements[d] /\ frames'[d] = frames[d]
                              /\ created'[d] = created[d]
    /\ InOrder(c)' /\ Learns(c)
    /\ op[c] # None /\ op' \in [Conns -> Operations \cup {None}] /\ op'[c] # None
    /\ \A d \in Conns \ {c} : op'[d] = op[d]

\* A preview does that.
LEMMA PreviewedWork ==
  ASSUME DbApiInv, NEW c \in Conns, Previewed(c), NEW list, list = statements[c] \o New(c)
  PROVE  PreviewedEffect(c, list)
<1>1. /\ TypeOK /\ Owned(c, statements[c]) /\ Nested(c) /\ Previewing(c)
      /\ statements[c] \in Seq(Stmts) /\ frames[c] \in Seq(Frames)
      /\ savepoints[c] \in Seq(SavepointMarks) /\ created[c] \in Nat
      /\ statements \in [Conns -> Seq(Stmts)] /\ frames \in [Conns -> Seq(Frames)]
      /\ created \in [Conns -> Nat] /\ fate \in [Stmts -> {"new", "open", "done", "gone"}]
      /\ Range(statements[c]) \subseteq Stmts
  BY Unfold DEF TypeOK
<1>2. Executing(c) /\ pending[c] = None /\ ~failed[c] /\ version[c] # 0
  BY <1>1 DEF Previewed, Previewing
<1>3. /\ New(c) \in Seq(Stmts) /\ Len(New(c)) \in {0, 1}
      /\ call[c].kind = "query" => New(c) = <<>>
      /\ call[c].kind # "query" => \E x \in Stmts : New(c) = <<x>> /\ Range(New(c)) = {x}
      /\ \A s \in Range(New(c)) : s \in Stmts /\ s[1] = c /\ fate[s] = "new"
      /\ Range(list) = Range(statements[c]) \cup Range(New(c)) /\ list \in Seq(Stmts)
  <2>1. call[c].kind # "query" => \E x \in Stmts : New(c) = <<x>> /\ Range(New(c)) = {x}
    <3> SUFFICES ASSUME call[c].kind # "query"
                 PROVE  \E x \in Stmts : New(c) = <<x>> /\ Range(New(c)) = {x}
      OBVIOUS
    <3> DEFINE x == <<c, created[c] + 1>>
    <3>1. New(c) = <<x>> /\ Range(New(c)) = {x} /\ \A s \in Range(New(c)) : s \in Stmts
      BY <1>2, NewStatement
    <3> HIDE DEF x
    <3> QED
      BY <3>1
  <2> QED
    BY <1>2, <2>1, NewStatement
<1>4. Distinct(list)
  <2>1. CASE call[c].kind = "query"
    <3>1. list = statements[c]
      BY <1>1, <1>3, <2>1
    <3> QED
      BY <1>1, <3>1 DEF Owned
  <2>2. CASE call[c].kind # "query"
    <3>1. PICK x \in Stmts : New(c) = <<x>> /\ Range(New(c)) = {x}
      BY <1>3, <2>2
    <3>2. x \notin Range(statements[c])
      BY <1>1, <1>3, <3>1 DEF Owned
    <3> QED
      BY <1>1, <3>1, <3>2, DistinctAppend DEF Owned
  <2> QED
    BY <2>1, <2>2
<1> DEFINE grown == [frames[c] EXCEPT ![Len(frames[c])].work = @ \o New(c)]
<1>5. grown \in Seq(Frames) /\ NestOf(grown, list, savepoints[c])
  BY <1>1, <1>2, <1>3, NestWrite DEF Nested
<1>6. /\ statements' = [statements EXCEPT ![c] = list]
      /\ frames' = [frames EXCEPT ![c] = grown]
      /\ created' = [created EXCEPT ![c] = @ + Len(New(c))]
      /\ Settle(Range(New(c)), "open")
  BY DEF Previewed
<1> HIDE DEF grown
<1>7. /\ statements' \in [Conns -> Seq(Stmts)] /\ statements'[c] = list
      /\ frames' \in [Conns -> Seq(Frames)] /\ frames'[c] = grown
      /\ \A d \in Conns \ {c} : statements'[d] = statements[d] /\ frames'[d] = frames[d]
  BY <1>1, <1>3, <1>5, <1>6
<1>8. /\ created' \in [Conns -> Nat] /\ created'[c] = created[c] + Len(New(c))
      /\ \A d \in Conns \ {c} : created'[d] = created[d]
  <2>1. created[c] + Len(New(c)) \in Nat
    BY <1>1, <1>3
  <2> QED
    BY <1>1, <1>6, <2>1
<1>9. /\ fate' \in [Stmts -> {"new", "open", "done", "gone"}]
      /\ \A s \in Stmts : s \notin Range(New(c)) => fate'[s] = fate[s]
      /\ \A s \in Stmts : s \in Range(New(c)) /\ fate[s] \in {"new", "open"} => fate'[s] = "open"
  BY <1>1, <1>6, Settled
<1>10. /\ \A s \in Range(list) : /\ s[1] = c /\ s \in Stmts /\ fate'[s] = "open"
                                 /\ fate[s] = "new" \/ (s \in Range(statements[c]) /\ fate[s] = "open")
  BY <1>1, <1>2, <1>3, <1>9 DEF Owned, Nested
<1>11. InOrder(c)'
  <2>1. \A s \in Stmts : fate'[s] = "new" <=> fate[s] = "new" /\ s \notin Range(New(c))
    BY <1>3, <1>9
  <2> QED
    BY <1>2, <1>8, <2>1, OrderNew
<1>12. Learns(c)
  BY <1>3, <1>9 DEF Learns
<1>13. op[c] # None
  BY <1>2, InProgress
<1>14. /\ op' \in [Conns -> Operations \cup {None}] /\ op'[c] # None
       /\ \A d \in Conns \ {c} : op'[d] = op[d]
  <2> DEFINE seen == After(db, list)
  <2>1. seen \in Reads /\ NoRead \in Reads
    BY <1>1, <1>3, AfterType, Values DEF TypeOK
  <2>2. \/ op' = [op EXCEPT ![c].after = NoRead]
        \/ op' = [op EXCEPT ![c].observed = seen]
        \/ op' = [op EXCEPT ![c].after = seen]
    BY DEF Previewed
  <2> HIDE DEF seen
  <2> QED
    BY <1>1, <1>13, <2>1, <2>2, ReadType
<1> QED
  BY <1>3, <1>4, <1>5, <1>7, <1>8, <1>9, <1>10, <1>11, <1>12, <1>13, <1>14 DEF PreviewedEffect

\* A preview that succeeds.
LEMMA PreviewedKeeps ==
  ASSUME DbApiInv, NEW c \in Conns, Previewed(c)
  PROVE  TypeOK' /\ Local(c)' /\ Steps(c)
<1> DEFINE last == call[c].left <= 1
           submits == last /\ autocommit[c] /\ call[c].kind # "query"
<1>1. PICK list : list = statements[c] \o New(c)
  OBVIOUS
<1>2. /\ list \in Seq(Stmts) /\ Distinct(list)
      /\ Range(list) = Range(statements[c]) \cup Range(New(c))
      /\ statements' \in [Conns -> Seq(Stmts)] /\ statements'[c] = list
      /\ frames' \in [Conns -> Seq(Frames)] /\ NestOf(frames'[c], list, savepoints[c])
      /\ created' \in [Conns -> Nat] /\ created'[c] = created[c] + Len(New(c))
      /\ fate' \in [Stmts -> {"new", "open", "done", "gone"}]
      /\ \A s \in Range(list) : /\ s[1] = c /\ s \in Stmts /\ fate'[s] = "open"
                                /\ fate[s] = "new" \/ (s \in Range(statements[c]) /\ fate[s] = "open")
      /\ \A d \in Conns \ {c} : /\ statements'[d] = statements[d] /\ frames'[d] = frames[d]
                                /\ created'[d] = created[d]
      /\ InOrder(c)' /\ Learns(c)
      /\ op[c] # None /\ op' \in [Conns -> Operations \cup {None}] /\ op'[c] # None
      /\ \A d \in Conns \ {c} : op'[d] = op[d]
  <2>1. PreviewedEffect(c, list)
    BY <1>1, PreviewedWork, Zenon
  <2> QED
    BY <2>1 DEF PreviewedEffect
<1>3. /\ TypeOK /\ Begun(c) /\ Previewing(c) /\ statements[c] \in Seq(Stmts) /\ created[c] \in Nat
      /\ version[c] \in 0..revision /\ session_epoch[c] \in -1..MaxEpoch /\ epoch \in 0..MaxEpoch
      /\ MaxEpoch \in Nat /\ MaxNew[c] \in Nat /\ revision \in Nat
      /\ call \in [Conns -> Calls \cup {None}]
  BY Unfold DEF TypeOK
<1>4. /\ Executing(c) /\ pending[c] = None /\ ~failed[c] /\ version[c] # 0
      /\ session_epoch[c] \in 0..epoch
  BY <1>3 DEF Previewed, Previewing, Begun
<1>5. /\ UNCHANGED <<db, revision, epoch, rows, session, sequence, session_epoch, version>>
      /\ UNCHANGED <<savepoints, failed, autocommit, closed, history>>
  BY DEF Previewed
<1>6. Owned(c, statements[c])' /\ Nested(c)' /\ Begun(c)' /\ Operating(c)'
  <2>1. Owned(c, statements[c])' /\ Nested(c)'
    BY <1>2, <1>5 DEF Owned, Nested
  <2>2. Begun(c)' /\ Operating(c)'
    BY <1>2, <1>3, <1>4, <1>5 DEF Begun, Operating
  <2> QED
    BY <2>1, <2>2
<1>7. Carries(c)
  BY <1>2, <1>4 DEF Carries
<1>8. CASE submits
  <2> DEFINE kind == IF call[c].kind = "many" THEN "commitmany" ELSE "commit"
  <2>1. PICK w : w = [Write(c, list, version[c]) EXCEPT !.epoch = session_epoch[c]]
    OBVIOUS
  <2>2. /\ w \in PendingWrites /\ w # None /\ w.version <= revision /\ w.epoch <= epoch
        /\ w.session = <<c, session[c]>> /\ w.sequence = sequence[c] /\ w.body = list
    BY <1>2, <1>3, <1>4, <2>1, WriteType
  <2>3. w = Write(c, list, version[c])
    BY <2>1 DEF Write
  <2>4. _execute_prepared(c, w, kind) /\ kind \in Commits
    BY <1>1, <1>8, <2>3 DEF Previewed, Commits
  <2> HIDE DEF kind
  <2>5. /\ requests' = requests \cup {w} /\ requests' \subseteq PendingWrites
        /\ \A p \in requests' : p.version <= revision
        /\ pending' \in [Conns -> requests' \cup {None}] /\ pending'[c] = w
        /\ call' \in [Conns -> Calls \cup {None}] /\ call'[c] # None /\ call'[c].kind = kind
        /\ ~Executing(c)' /\ Committing(c)'
        /\ \A d \in Conns \ {c} : pending'[d] = pending[d] /\ call'[d] = call[d]
    BY <1>3, <2>2, <2>4, SubmitType DEF Commits
  <2>6. TypeOK'
    BY <1>2, <1>3, <1>5, <2>5 DEF TypeOK
  <2>7. Waiting(c)' /\ Previewing(c)' /\ Operating(c)'
    BY <1>2, <1>5, <2>2, <2>5 DEF Waiting, Previewing, Operating
  <2>8. Local(c)'
    BY <1>2, <1>6, <2>7 DEF Local
  <2>9. Elsewhere(c)
    BY <1>2, <1>5, <2>5 DEF Elsewhere
  <2>10. Moves(c)
    BY <1>4, <1>5 DEF Moves
  <2>11. Submits(c)
    <3>1. list # <<>>
      <4>1. Len(New(c)) = 1 /\ New(c) \in Seq(Stmts)
        BY <1>4, <1>8, NewStatement
      <4>2. statements[c] \o New(c) # <<>>
        BY <1>3, <4>1, ConcatNotEmpty, Zenon
      <4> QED
        BY <1>1, <4>2, Zenon
    <3> QED
      BY <1>2, <1>4, <1>5, <2>2, <2>5, <3>1 DEF Submits
  <2> QED
    BY <1>2, <1>5, <1>7, <2>6, <2>8, <2>9, <2>10, <2>11 DEF Steps
<1>9. CASE ~submits
  <2> DEFINE next == [call[c] EXCEPT !.left = @ - 1]
  <2>1. /\ call' = [call EXCEPT ![c] = IF last THEN None ELSE next]
        /\ UNCHANGED <<pending, requests>>
    BY <1>9 DEF Previewed
  <2>2. call[c] \in Calls /\ call[c].left \in 0..2 /\ call[c].before \in Seq(Stmts)
    BY <1>3, <1>4, CallType DEF Executing
  <2>3. ~last => /\ next \in Calls /\ next # None /\ next.kind = call[c].kind
                 /\ next.left = call[c].left - 1 /\ next.before = call[c].before
                 /\ next.nest = call[c].nest
    <3>1. ~last => call[c].left - 1 \in 0..2
      BY <2>2
    <3>2. ASSUME ~last PROVE next \in Calls
      <4>1. \A n \in 0..2, x \in Calls : [x EXCEPT !.left = n] \in Calls
        BY DEF Calls
      <4> QED
        BY <2>2, <3>1, <3>2, <4>1
    <3>3. /\ next.kind = call[c].kind /\ next.left = call[c].left - 1
          /\ next.before = call[c].before /\ next.nest = call[c].nest
      BY <2>2 DEF Calls
    <3> QED
      BY <3>2, <3>3, Values
  <2> HIDE DEF next
  <2>4. /\ call' \in [Conns -> Calls \cup {None}]
        /\ call'[c] = IF last THEN None ELSE next
        /\ \A d \in Conns \ {c} : call'[d] = call[d]
    BY <1>3, <2>1, <2>3
  <2>5. TypeOK'
    BY <1>2, <1>3, <1>5, <2>1, <2>4 DEF TypeOK
  <2>6. Waiting(c)'
    BY <1>4, <2>1, <2>3, <2>4 DEF Waiting, Submitted, Executing, Commits
  <2>7. Previewing(c)'
    <3>1. CASE last
      BY <2>4, <3>1 DEF Previewing, Executing
    <3>2. CASE ~last
      <4>1. call'[c] = next /\ call[c].left = 2
        BY <2>2, <2>4, <3>2
      <4>2. call[c].kind = "many"
        BY <1>3, <1>4, <4>1 DEF Previewing
      <4>3. /\ created[c] + 2 <= MaxNew[c] /\ Len(call[c].before) <= Len(statements[c])
            /\ call[c].before = SubSeq(statements[c], 1, Len(call[c].before))
            /\ NestOf(call[c].nest, call[c].before, savepoints[c])
        BY <1>3, <1>4, <4>1, <4>2 DEF Previewing
      <4>4. Len(New(c)) = 1 /\ New(c) \in Seq(Stmts)
        BY <1>4, <4>2, NewStatement
      <4>5. created'[c] + 1 <= MaxNew[c]
        BY <1>2, <1>3, <4>3, <4>4
      <4>6. Len(call[c].before) <= Len(list) /\ call[c].before = SubSeq(list, 1, Len(call[c].before))
        BY <1>1, <1>3, <2>2, <4>3, <4>4
      <4> QED
        BY <1>2, <1>4, <1>5, <2>1, <2>3, <3>2, <4>1, <4>2, <4>3, <4>5, <4>6 DEF Previewing
    <3> QED
      BY <3>1, <3>2
  <2>8. Local(c)'
    BY <1>2, <1>6, <2>6, <2>7 DEF Local
  <2>9. Elsewhere(c)
    BY <1>2, <1>5, <2>1, <2>4 DEF Elsewhere
  <2> QED
    BY <1>2, <1>5, <1>7, <2>1, <2>5, <2>8, <2>9, Unmoved DEF Steps
<1> QED
  BY <1>8, <1>9

\* An operation that took place.
LEMMA EndType ==
  ASSUME TypeOK, NEW c \in Conns, NEW list, EndOp(c, list)
  PROVE  /\ op' \in [Conns -> Operations \cup {None}] /\ op'[c] = None
         /\ \A d \in Conns \ {c} : op'[d] = op[d]
         /\ IsFiniteSet(history') /\ \A h \in history' : h.id \in Ids
<1> DEFINE o == IF op[c] = None THEN NoOp ELSE op[c]
           h == [id |-> <<c, Cardinality(Finished(c)) + 1>>, before |-> o.before,
                 observed |-> o.observed, after |-> o.after, toggled |-> Range(list)]
<1>1. /\ history' = history \cup {h} /\ h.id = <<c, Cardinality(Finished(c)) + 1>>
      /\ op' = [op EXCEPT ![c] = None]
  BY DEF EndOp
<1> HIDE DEF h
<1>2. /\ op \in [Conns -> Operations \cup {None}]
      /\ IsFiniteSet(history) /\ \A g \in history : g.id \in Ids
  BY DEF TypeOK
<1>3. IsFiniteSet(history') /\ \A g \in history' : g.id \in Ids
  BY <1>1, <1>2, FinishedCount, FS_AddElement
<1> QED
  BY <1>1, <1>2, <1>3

\* A commit.
LEMMA CommitKeeps ==
  ASSUME DbApiInv, NEW c \in Conns, commit(c)
  PROVE  TypeOK' /\ Local(c)' /\ Steps(c)
<1>1. /\ TypeOK /\ InOrder(c) /\ Owned(c, statements[c]) /\ Begun(c) /\ Nested(c)
      /\ statements[c] \in Seq(Stmts) /\ version[c] \in 0..revision /\ MaxEpoch \in Nat
      /\ session_epoch[c] \in -1..MaxEpoch /\ epoch \in 0..MaxEpoch
      /\ op \in [Conns -> Operations \cup {None}]
  BY Unfold DEF TypeOK
<1>2. /\ pending[c] = None /\ ~failed[c] /\ call[c] = None
      /\ UNCHANGED <<db, revision, epoch, rows, session, sequence, session_epoch, autocommit>>
      /\ UNCHANGED <<closed, created, fate>>
  BY DEF commit, Idle, _ready
<1>3. InOrder(c)' /\ Learns(c)
  BY <1>1, <1>2 DEF InOrder, Learns
<1>4. CASE statements[c] = <<>>
  <2>1. /\ _clear(c) /\ frames' = [frames EXCEPT ![c] = Base]
        /\ UNCHANGED <<pending, requests, call>>
    BY <1>4 DEF commit
  <2>2. /\ version' \in [Conns -> 0..revision] /\ statements' \in [Conns -> Seq(Stmts)]
        /\ savepoints' \in [Conns -> Seq(SavepointMarks)] /\ failed' \in [Conns -> BOOLEAN]
        /\ frames' \in [Conns -> Seq(Frames)]
        /\ version'[c] = 0 /\ statements'[c] = <<>> /\ savepoints'[c] = <<>> /\ ~failed'[c]
        /\ frames'[c] = Base
        /\ \A d \in Conns \ {c} :
             /\ version'[d] = version[d] /\ statements'[d] = statements[d]
             /\ savepoints'[d] = savepoints[d] /\ failed'[d] = failed[d]
             /\ frames'[d] = frames[d]
    BY <1>1, <2>1, ClearType
  <2>3. /\ op' \in [Conns -> Operations \cup {None}] /\ op'[c] = None
        /\ \A d \in Conns \ {c} : op'[d] = op[d]
        /\ IsFiniteSet(history') /\ \A h \in history' : h.id \in Ids
    <3>1. CASE op[c] = None
      BY <1>1, <1>4, <3>1 DEF commit, TypeOK
    <3>2. CASE op[c] # None
      <4>1. EndOp(c, <<>>)
        BY <1>4, <3>2 DEF commit
      <4> QED
        BY <1>1, <4>1, EndType
    <3> QED
      BY <3>1, <3>2
  <2>4. TypeOK'
    BY <1>1, <1>2, <2>1, <2>2, <2>3 DEF TypeOK, SavepointMarks
  <2>5. Waiting(c)' /\ ~Executing(c)'
    BY <1>2, <2>1 DEF Waiting, Submitted, Executing
  <2>6. session_epoch'[c] <= epoch'
    BY <1>1, <1>2 DEF Begun
  <2>7. Local(c)'
    BY <1>3, <2>2, <2>3, <2>5, <2>6, LocalCleared
  <2>8. Elsewhere(c)
    BY <1>2, <2>1, <2>2, <2>3 DEF Elsewhere
  <2>9. Carries(c)
    BY <2>2, RangeSmall DEF Carries
  <2> QED
    BY <1>2, <1>3, <2>1, <2>4, <2>7, <2>8, <2>9, Unmoved DEF Steps
<1>5. CASE statements[c] # <<>>
  <2>1. PICK w : w = [Write(c, statements[c], version[c]) EXCEPT !.epoch = session_epoch[c]]
    OBVIOUS
  <2>2. session_epoch[c] \in 0..epoch
    BY <1>1, <1>5 DEF Begun
  <2>3. /\ w \in PendingWrites /\ w # None /\ w.version <= revision /\ w.epoch <= epoch
        /\ w.session = <<c, session[c]>> /\ w.sequence = sequence[c] /\ w.body = statements[c]
    BY <1>1, <2>1, <2>2, WriteType
  <2>4. w = Write(c, statements[c], version[c])
    BY <2>1 DEF Write
  <2>5. /\ _execute_prepared(c, w, "commit")
        /\ UNCHANGED <<version, statements, savepoints, failed, frames, op, history>>
    BY <1>5, <2>4 DEF commit
  <2>6. /\ requests' = requests \cup {w} /\ requests' \subseteq PendingWrites
        /\ \A p \in requests' : p.version <= revision
        /\ pending' \in [Conns -> requests' \cup {None}] /\ pending'[c] = w
        /\ call' \in [Conns -> Calls \cup {None}] /\ call'[c] # None
        /\ ~Executing(c)' /\ Committing(c)'
        /\ \A d \in Conns \ {c} : pending'[d] = pending[d] /\ call'[d] = call[d]
    BY <1>1, <2>3, <2>5, SubmitType DEF Commits
  <2>7. TypeOK'
    BY <1>1, <1>2, <2>5, <2>6 DEF TypeOK
  <2>8. Owned(c, statements[c])' /\ Nested(c)' /\ Begun(c)'
    BY <1>1, <1>2, <2>5 DEF Owned, Nested, Begun
  <2>9. \A s \in Range(statements[c]) : fate[s] = "open" /\ s[1] = c
    BY <1>1, <1>2 DEF Owned, Nested
  <2>10. Waiting(c)' /\ Previewing(c)' /\ Operating(c)'
    BY <1>2, <2>3, <2>5, <2>6, <2>9 DEF Waiting, Previewing, Operating
  <2>11. Local(c)'
    BY <1>3, <2>8, <2>10 DEF Local
  <2>12. Elsewhere(c)
    BY <1>2, <2>5, <2>6 DEF Elsewhere
  <2>13. Moves(c) /\ Carries(c)
    BY <1>2, <2>5 DEF Moves, Carries
  <2>14. Submits(c)
    BY <1>1, <1>2, <1>5, <2>3, <2>6, <2>9 DEF Submits, Owned
  <2> QED
    BY <1>2, <1>3, <2>7, <2>11, <2>12, <2>13, <2>14 DEF Steps
<1> QED
  BY <1>4, <1>5

\* The same request once more.
LEMMA ResolvePendingKeeps ==
  ASSUME DbApiInv, NEW c \in Conns, resolve_pending(c)
  PROVE  TypeOK' /\ Local(c)' /\ Steps(c)
<1>1. /\ TypeOK /\ Local(c) /\ InOrder(c) /\ Owned(c, statements[c]) /\ Begun(c) /\ Nested(c)
      /\ Waiting(c) /\ Operating(c)
  BY Unfold
<1>2. /\ pending[c] # None /\ call[c] = None /\ _execute_prepared(c, pending[c], "resolve")
      /\ UNCHANGED <<db, revision, epoch, rows, session, sequence, session_epoch>>
      /\ UNCHANGED <<version, statements, savepoints, failed, autocommit, closed>>
      /\ UNCHANGED <<created, frames, fate, op, history>>
  BY DEF resolve_pending, Idle, dbapi, app
<1>3. PICK w \in requests : w = pending[c]
  BY <1>1, <1>2 DEF TypeOK
<1>4. w \in PendingWrites /\ w.version <= revision
  BY <1>1, <1>3 DEF TypeOK
<1>5. _execute_prepared(c, w, "resolve")
  BY <1>2, <1>3
<1>6. /\ requests' = requests \cup {w} /\ requests' \subseteq PendingWrites
      /\ \A p \in requests' : p.version <= revision
      /\ pending' \in [Conns -> requests' \cup {None}] /\ pending'[c] = w
      /\ call' \in [Conns -> Calls \cup {None}] /\ call'[c] # None /\ call'[c].kind = "resolve"
      /\ ~Executing(c)'
      /\ \A d \in Conns \ {c} : pending'[d] = pending[d] /\ call'[d] = call[d]
  BY <1>1, <1>4, <1>5, SubmitType
<1>7. TypeOK'
  BY <1>1, <1>2, <1>6 DEF TypeOK
<1>8. InOrder(c)' /\ Owned(c, statements[c])' /\ Nested(c)' /\ Begun(c)'
  BY <1>1, <1>2 DEF InOrder, Owned, Nested, Begun
<1>9. Waiting(c)' /\ Previewing(c)' /\ Operating(c)'
  BY <1>1, <1>2, <1>3, <1>6 DEF Waiting, Previewing, Operating, Committing
<1>10. Local(c)'
  BY <1>8, <1>9 DEF Local
<1>11. Elsewhere(c)
  BY <1>2, <1>6 DEF Elsewhere
<1>12. Learns(c) /\ Carries(c) /\ requests' = requests /\ pending'[c] = pending[c]
  BY <1>2, <1>3, <1>6 DEF Learns, Carries
<1> QED
  BY <1>2, <1>7, <1>10, <1>11, <1>12, Unmoved DEF Steps

\* New statements, the next ones of a connection.
Unused(c, list) ==
    /\ list \in Seq(Stmts) /\ list # <<>> /\ Distinct(list)
    /\ \A s \in Range(list) : s \in Stmts /\ s[1] = c /\ fate[s] = "new"
    /\ \A i \in 1..MaxNew[c] : <<c, i>> \in Range(list) <=>
                                  i > created[c] /\ i <= created[c] + MAX_STATEMENTS

\* The statements of a batch are new.
LEMMA BatchStatements ==
  ASSUME DbApiInv, NEW c \in Conns, created[c] + MAX_STATEMENTS <= MaxNew[c],
         NEW list, list = [i \in 1..MAX_STATEMENTS |-> <<c, created[c] + i>>]
  PROVE  Unused(c, list)
<1>1. /\ InOrder(c) /\ created[c] \in Nat /\ MaxNew[c] \in Nat /\ MAX_STATEMENTS \in Nat \ {0}
  BY Unfold, DbApiAssumption
<1>2. \A i \in 1..MAX_STATEMENTS : <<c, created[c] + i>> \in Stmts
  BY <1>1 DEF Stmts
<1>3. list \in Seq(Stmts) /\ Len(list) = MAX_STATEMENTS /\ list # <<>>
  <2>1. list \in [1..MAX_STATEMENTS -> Stmts]
    BY <1>2
  <2>2. \A n \in Nat \ {0} : \A f \in [1..n -> Stmts] :
           f \in Seq(Stmts) /\ Len(f) = n /\ f # <<>>
    OBVIOUS
  <2> QED
    BY <1>1, <2>1, <2>2, Zenon
<1>4. Distinct(list)
  BY <1>1, <1>3 DEF Distinct
<1>5. Range(list) = {<<c, created[c] + i>> : i \in 1..MAX_STATEMENTS}
  BY <1>3 DEF Range
<1>6. \A s \in Range(list) : s \in Stmts /\ s[1] = c /\ fate[s] = "new"
  <2>1. \A i \in 1..MAX_STATEMENTS : created[c] + i \in 1..MaxNew[c] /\ created[c] + i > created[c]
    BY <1>1
  <2>2. \A i \in 1..MAX_STATEMENTS : fate[<<c, created[c] + i>>] = "new"
    BY <1>1, <2>1 DEF InOrder
  <2> QED
    BY <1>2, <1>5, <2>2
<1>7. ASSUME NEW i \in 1..MaxNew[c]
      PROVE  <<c, i>> \in Range(list) <=> i > created[c] /\ i <= created[c] + MAX_STATEMENTS
  <2>1. ASSUME i > created[c], i <= created[c] + MAX_STATEMENTS PROVE <<c, i>> \in Range(list)
    <3>1. i - created[c] \in 1..MAX_STATEMENTS /\ created[c] + (i - created[c]) = i
      BY <1>1, <2>1
    <3> QED
      BY <1>5, <3>1
  <2>2. ASSUME <<c, i>> \in Range(list) PROVE i > created[c] /\ i <= created[c] + MAX_STATEMENTS
    <3>1. PICK j \in 1..MAX_STATEMENTS : <<c, i>> = <<c, created[c] + j>>
      BY <1>5, <2>2
    <3> QED
      BY <1>1, <3>1
  <2> QED
    BY <2>1, <2>2
<1> QED
  BY <1>3, <1>4, <1>6, <1>7 DEF Unused

\* A buffered batch.
LEMMA BatchKeeps ==
  ASSUME DbApiInv, NEW c \in Conns, Batch(c)
  PROVE  TypeOK' /\ Local(c)' /\ Steps(c)
<1>1. /\ TypeOK /\ InOrder(c) /\ Owned(c, statements[c]) /\ Begun(c) /\ Nested(c)
      /\ statements[c] \in Seq(Stmts) /\ revision \in Nat \ {0} /\ MaxEpoch \in Nat
      /\ created[c] \in Nat /\ MaxNew[c] \in Nat /\ MAX_STATEMENTS \in Nat
      /\ session_epoch[c] \in -1..MaxEpoch /\ epoch \in 0..MaxEpoch
      /\ session_epoch \in [Conns -> -1..MaxEpoch] /\ created \in [Conns -> Nat]
      /\ fate \in [Stmts -> {"new", "open", "done", "gone"}]
  BY Unfold, DbApiAssumption DEF TypeOK
<1>2. /\ pending[c] = None /\ ~failed[c] /\ call[c] = None /\ version[c] = 0
      /\ created[c] + MAX_STATEMENTS <= MaxNew[c]
      /\ UNCHANGED <<db, revision, epoch, rows, session, sequence, frames, history>>
      /\ UNCHANGED <<version, statements, savepoints, failed, autocommit, closed>>
  BY DEF Batch, Idle, _ready, dbapi
<1>3. PICK list : list = [i \in 1..MAX_STATEMENTS |-> <<c, created[c] + i>>]
  OBVIOUS
<1>4. /\ list \in Seq(Stmts) /\ list # <<>> /\ Distinct(list)
      /\ \A s \in Range(list) : s \in Stmts /\ s[1] = c /\ fate[s] = "new"
      /\ \A i \in 1..MaxNew[c] : <<c, i>> \in Range(list) <=>
                                    i > created[c] /\ i <= created[c] + MAX_STATEMENTS
  <2>1. Unused(c, list)
    BY <1>2, <1>3, BatchStatements, Zenon
  <2> QED
    BY <2>1 DEF Unused
<1>5. /\ session_epoch' \in [Conns -> -1..MaxEpoch] /\ session_epoch'[c] \in 0..epoch
      /\ \A d \in Conns \ {c} : session_epoch'[d] = session_epoch[d]
  <2> DEFINE e == IF session_epoch[c] = -1 THEN epoch ELSE session_epoch[c]
  <2>1. session_epoch' = [session_epoch EXCEPT ![c] = e]
    BY DEF Batch
  <2>2. e \in 0..epoch /\ e \in -1..MaxEpoch
    BY <1>1 DEF Begun
  <2> HIDE DEF e
  <2> QED
    BY <1>1, <2>1, <2>2
<1>6. /\ created' = [created EXCEPT ![c] = @ + MAX_STATEMENTS] /\ Settle(Range(list), "open")
      /\ StartOp(c)
      /\ _execute_prepared(c, [Write(c, list, 0) EXCEPT !.epoch = session_epoch'[c]], "batch")
  BY <1>3 DEF Batch
<1>7. PICK w : w = [Write(c, list, 0) EXCEPT !.epoch = session_epoch'[c]]
  OBVIOUS
<1>8. /\ w \in PendingWrites /\ w # None /\ w.version <= revision /\ w.epoch <= epoch
      /\ w.session = <<c, session[c]>> /\ w.sequence = sequence[c] /\ w.body = list
  <2>1. 0 \in 0..revision
    BY <1>1
  <2> QED
    BY <1>4, <1>5, <1>7, <2>1, WriteType
<1>9. /\ requests' = requests \cup {w} /\ requests' \subseteq PendingWrites
      /\ \A p \in requests' : p.version <= revision
      /\ pending' \in [Conns -> requests' \cup {None}] /\ pending'[c] = w
      /\ call' \in [Conns -> Calls \cup {None}] /\ call'[c] # None
      /\ ~Executing(c)' /\ ~Committing(c)'
      /\ \A d \in Conns \ {c} : pending'[d] = pending[d] /\ call'[d] = call[d]
  BY <1>1, <1>6, <1>7, <1>8, SubmitType DEF Commits
<1>10. /\ op' \in [Conns -> Operations \cup {None}] /\ \A d \in Conns \ {c} : op'[d] = op[d]
  BY <1>1, <1>6, StartType
<1>11. /\ created' \in [Conns -> Nat] /\ created'[c] = created[c] + MAX_STATEMENTS
       /\ \A d \in Conns \ {c} : created'[d] = created[d]
  BY <1>1, <1>6
<1>12. /\ fate' \in [Stmts -> {"new", "open", "done", "gone"}]
       /\ \A s \in Stmts : s \notin Range(list) => fate'[s] = fate[s]
       /\ \A s \in Range(list) : fate'[s] = "open"
  BY <1>1, <1>4, <1>6, Settled
<1>13. TypeOK'
  BY <1>1, <1>2, <1>5, <1>9, <1>10, <1>11, <1>12 DEF TypeOK
<1>14. InOrder(c)'
  <2>1. ASSUME NEW i \in 1..MaxNew[c] PROVE fate'[<<c, i>>] = "new" <=> i > created'[c]
    <3>1. <<c, i>> \in Stmts
      BY DEF Stmts
    <3>2. fate[<<c, i>>] = "new" <=> i > created[c]
      BY <1>1 DEF InOrder
    <3> QED
      BY <1>1, <1>4, <1>11, <1>12, <3>1, <3>2
  <2> QED
    BY <1>1, <1>2, <1>11, <2>1 DEF InOrder
<1>15. statements[c] = <<>> /\ Range(statements[c]) = {}
  BY <1>1, <1>2, RangeSmall DEF Begun
<1>16. Owned(c, statements[c])' /\ Nested(c)' /\ Begun(c)'
  <2>1. Owned(c, statements[c])' /\ Nested(c)'
    BY <1>1, <1>2, <1>15 DEF Owned, Nested
  <2>2. Begun(c)'
    BY <1>1, <1>2, <1>5 DEF Begun
  <2> QED
    BY <2>1, <2>2
<1>17. Waiting(c)' /\ Previewing(c)' /\ Operating(c)'
  BY <1>2, <1>8, <1>9, <1>12 DEF Waiting, Previewing, Operating
<1>18. Local(c)'
  BY <1>14, <1>16, <1>17 DEF Local
<1>19. Elsewhere(c)
  BY <1>2, <1>5, <1>9, <1>10, <1>11 DEF Elsewhere
<1>20. Learns(c)
  BY <1>4, <1>12 DEF Learns
<1>21. Moves(c) /\ Carries(c)
  BY <1>2, <1>15 DEF Moves, Carries
<1>22. Submits(c)
  BY <1>2, <1>4, <1>8, <1>9 DEF Submits
<1> QED
  BY <1>2, <1>13, <1>18, <1>19, <1>20, <1>21, <1>22 DEF Steps

\* What the answer to a submitted write, or its absence, leaves of a transaction:
\* all of it, nothing, or an aborted one.
Outcome(c) ==
    /\ version' \in [Conns -> 0..revision] /\ statements' \in [Conns -> Seq(Stmts)]
    /\ savepoints' \in [Conns -> Seq(SavepointMarks)] /\ failed' \in [Conns -> BOOLEAN]
    /\ frames' \in [Conns -> Seq(Frames)]
    /\ \A d \in Conns \ {c} :
         /\ version'[d] = version[d] /\ statements'[d] = statements[d]
         /\ savepoints'[d] = savepoints[d] /\ failed'[d] = failed[d]
         /\ frames'[d] = frames[d]
    /\ \/ /\ ~Committing(c) /\ version'[c] = version[c] /\ statements'[c] = statements[c]
          /\ savepoints'[c] = savepoints[c] /\ failed'[c] = failed[c] /\ frames'[c] = frames[c]
       \/ /\ version'[c] = 0 /\ statements'[c] = <<>> /\ savepoints'[c] = <<>> /\ ~failed'[c]
          /\ frames'[c] = Base
       \/ /\ failed'[c] /\ version'[c] = version[c] /\ savepoints'[c] = savepoints[c]
          /\ frames'[c] = frames[c] /\ statements'[c] \in {statements[c], <<>>}

\* A commit that ended well.
LEMMA OutcomeClear ==
  ASSUME TypeOK, NEW c \in Conns, _clear(c), frames' = [frames EXCEPT ![c] = Base]
  PROVE  Outcome(c)
BY ClearType DEF Outcome

\* A batch or a resolution that ended, and a call that was no commit.
LEMMA OutcomeSame ==
  ASSUME TypeOK, NEW c \in Conns, ~Committing(c),
         UNCHANGED <<version, statements, savepoints, failed, frames>>
  PROVE  Outcome(c)
BY DEF Outcome, TypeOK, SavepointMarks

\* A commit that raised.
LEMMA OutcomeRaised ==
  ASSUME TypeOK, NEW c \in Conns, NEW open \in BOOLEAN, CommitRaises(c, open), call[c] # None
  PROVE  /\ Outcome(c)
         /\ open => \/ ~Committing(c) /\ version'[c] = version[c] /\ failed'[c] = failed[c]
                    \/ failed'[c]
<1>1. CASE call[c].kind \notin Commits
  <2>1. ~Committing(c) /\ UNCHANGED <<version, statements, savepoints, failed, frames>>
    BY <1>1 DEF CommitRaises, Committing
  <2> QED
    BY <2>1, OutcomeSame
<1>2. CASE call[c].kind \in Commits /\ autocommit[c] /\ ~open
  <2>1. _clear(c) /\ frames' = [frames EXCEPT ![c] = Base]
    BY <1>2 DEF CommitRaises
  <2> QED
    BY <1>2, <2>1, OutcomeClear
<1>3. CASE call[c].kind \in Commits /\ ~(autocommit[c] /\ ~open)
  <2>1. /\ failed' = [failed EXCEPT ![c] = TRUE] /\ UNCHANGED <<version, savepoints, frames>>
        /\ statements' = statements \/ statements' = [statements EXCEPT ![c] = <<>>]
    BY <1>3 DEF CommitRaises
  <2>2. /\ version \in [Conns -> 0..revision] /\ statements \in [Conns -> Seq(Stmts)]
        /\ savepoints \in [Conns -> Seq(SavepointMarks)] /\ failed \in [Conns -> BOOLEAN]
        /\ frames \in [Conns -> Seq(Frames)]
    BY DEF TypeOK, SavepointMarks
  <2>3. /\ failed' \in [Conns -> BOOLEAN] /\ failed'[c]
        /\ \A d \in Conns \ {c} : failed'[d] = failed[d]
    BY <2>1, <2>2
  <2>4. /\ statements' \in [Conns -> Seq(Stmts)] /\ statements'[c] \in {statements[c], <<>>}
        /\ \A d \in Conns \ {c} : statements'[d] = statements[d]
    BY <2>1, <2>2, Values
  <2> QED
    BY <2>1, <2>2, <2>3, <2>4 DEF Outcome
<1> QED
  BY <1>1, <1>2, <1>3

\* What is left of the statements.
LEMMA OutcomeStatements ==
  ASSUME DbApiInv, NEW c \in Conns, Outcome(c)
  PROVE  /\ statements'[c] = statements[c] \/ statements'[c] = <<>>
         /\ Distinct(statements'[c]) /\ Range(statements'[c]) \subseteq Range(statements[c])
         /\ version'[c] = 0 =>
              statements'[c] = <<>> /\ savepoints'[c] = <<>> /\ frames'[c] = Base
         /\ version'[c] # 0 => version[c] # 0
<1>1. Owned(c, statements[c]) /\ Begun(c)
  BY Unfold
<1>2. Range(<<>>) = {} /\ Distinct(<<>>)
  BY RangeSmall DEF Distinct
<1>3. statements'[c] = statements[c] \/ statements'[c] = <<>>
  BY DEF Outcome
<1> QED
  BY <1>1, <1>2, <1>3 DEF Outcome, Owned, Begun

\* The outcome of a write stays open.
LEMMA OpenKeeps ==
  ASSUME DbApiInv, NEW c \in Conns, Submitted(c), CommitRaises(c, TRUE),
         call' = [call EXCEPT ![c] = None],
         UNCHANGED <<service, native, autocommit, closed, created, fate, op, history>>
  PROVE  TypeOK' /\ Local(c)' /\ Steps(c)
<1>1. /\ TypeOK /\ InOrder(c) /\ Owned(c, statements[c]) /\ Begun(c) /\ Nested(c) /\ Waiting(c)
      /\ call \in [Conns -> Calls \cup {None}] /\ call[c] # None
  BY Unfold DEF TypeOK, Submitted
<1>2. /\ UNCHANGED <<db, revision, epoch, rows, requests, session, sequence, pending>>
      /\ UNCHANGED <<session_epoch, autocommit, closed, created, fate, op, history>>
  BY DEF service, native
<1>3. /\ Outcome(c)
      /\ \/ ~Committing(c) /\ version'[c] = version[c] /\ failed'[c] = failed[c]
         \/ failed'[c]
  BY <1>1, OutcomeRaised
<1>4. /\ call' \in [Conns -> Calls \cup {None}] /\ call'[c] = None
      /\ \A d \in Conns \ {c} : call'[d] = call[d]
  BY <1>1
<1>5. TypeOK'
  BY <1>1, <1>2, <1>3, <1>4 DEF TypeOK, Outcome, SavepointMarks
<1>6. pending[c] # None
  BY <1>1 DEF Waiting
<1>7. /\ statements'[c] = statements[c] \/ statements'[c] = <<>>
      /\ Distinct(statements'[c]) /\ Range(statements'[c]) \subseteq Range(statements[c])
      /\ version'[c] = 0 => statements'[c] = <<>> /\ savepoints'[c] = <<>> /\ frames'[c] = Base
      /\ version'[c] # 0 => version[c] # 0
  BY <1>3, OutcomeStatements
<1>8. InOrder(c)' /\ Owned(c, statements[c])' /\ Begun(c)'
  BY <1>1, <1>2, <1>7 DEF InOrder, Owned, Begun
<1>9. Waiting(c)' /\ Previewing(c)' /\ Operating(c)'
  BY <1>1, <1>2, <1>3, <1>4, <1>6 DEF Waiting, Previewing, Operating, Submitted, Executing
<1>10. Nested(c)'
  <2>1. CASE failed'[c]
    BY <2>1 DEF Nested
  <2>2. CASE ~failed'[c] /\ version'[c] = 0
    BY <1>7, <2>2, NestBase, RangeSmall DEF Nested
  <2>3. CASE ~failed'[c] /\ version'[c] # 0
    BY <1>1, <1>2, <1>3, <2>3 DEF Nested, Outcome
  <2> QED
    BY <2>1, <2>2, <2>3
<1>11. Local(c)'
  BY <1>8, <1>9, <1>10 DEF Local
<1>12. Elsewhere(c)
  BY <1>2, <1>3, <1>4 DEF Elsewhere, Outcome
<1>13. Learns(c) /\ Carries(c)
  BY <1>2, <1>7 DEF Learns, Carries
<1> QED
  BY <1>2, <1>5, <1>11, <1>12, <1>13, Unmoved DEF Steps

\* The outcome of a write is known.
LEMMA ResolvedKeeps ==
  ASSUME DbApiInv, NEW c \in Conns, Submitted(c), Outcome(c), NEW p \in requests, p = pending[c],
         NEW verdict \in {"done", "gone"}, Settle(Range(p.body), verdict),
         verdict = "done" => Range(p.body) \subseteq db,
         verdict = "gone" => Range(p.body) \cap db = {} /\ Spent(p),
         op' \in [Conns -> Operations \cup {None}], op'[c] = None,
         \A d \in Conns \ {c} : op'[d] = op[d],
         IsFiniteSet(history'), \A h \in history' : h.id \in Ids,
         pending' = [pending EXCEPT ![c] = None], sequence' = [sequence EXCEPT ![c] = @ + 1],
         call' = [call EXCEPT ![c] = None],
         UNCHANGED <<service, session, session_epoch, autocommit, closed, created>>
  PROVE  TypeOK' /\ Local(c)' /\ Steps(c)
<1>1. /\ TypeOK /\ InOrder(c) /\ Owned(c, statements[c]) /\ Begun(c) /\ Nested(c) /\ Waiting(c)
      /\ call \in [Conns -> Calls \cup {None}] /\ pending \in [Conns -> requests \cup {None}]
      /\ sequence \in [Conns -> Nat \ {0}] /\ fate \in [Stmts -> {"new", "open", "done", "gone"}]
  BY Unfold DEF TypeOK
<1>2. /\ UNCHANGED <<db, revision, epoch, rows, requests, session>>
      /\ UNCHANGED <<session_epoch, autocommit, closed, created>>
  BY DEF service
<1>3. /\ call' \in [Conns -> Calls \cup {None}] /\ call'[c] = None
      /\ pending' \in [Conns -> requests \cup {None}] /\ pending'[c] = None
      /\ sequence' \in [Conns -> Nat \ {0}] /\ sequence'[c] = sequence[c] + 1
      /\ \A d \in Conns \ {c} : /\ call'[d] = call[d] /\ pending'[d] = pending[d]
                                /\ sequence'[d] = sequence[d]
  BY <1>1
<1>4. /\ fate' \in [Stmts -> {"new", "open", "done", "gone"}]
      /\ \A s \in Stmts : s \notin Range(p.body) => fate'[s] = fate[s]
      /\ \A s \in Stmts : s \in Range(p.body) /\ fate[s] \in {"new", "open"} => fate'[s] = verdict
      /\ \A s \in Stmts : fate'[s] = fate[s] \/ (fate[s] \in {"new", "open"} /\ fate'[s] = verdict)
  BY <1>1, Settled
<1>5. /\ p # None /\ p.session = <<c, session[c]>> /\ Range(p.body) \subseteq Stmts
      /\ \A s \in Range(p.body) : fate[s] = "open" /\ s[1] = c
  <2>1. p # None /\ Range(p.body) \subseteq Stmts
    BY <1>1, RequestType
  <2>2. p.session = <<c, session[c]>> /\ \A s \in Range(p.body) : fate[s] = "open"
    BY <1>1, <2>1 DEF Waiting
  <2>3. Sent(p) /\ p.session[1] = c
    BY <2>2 DEF DbApiInv
  <2> QED
    BY <2>1, <2>2, <2>3 DEF Sent, Owned
<1>6. \A s \in Stmts : fate'[s] = "new" <=> fate[s] = "new"
  BY <1>4, <1>5
<1>7. \A s \in Stmts : fate'[s] = "open" => fate[s] = "open" /\ s \notin Range(p.body)
  BY <1>4
<1>8. TypeOK'
  BY <1>1, <1>2, <1>3, <1>4 DEF TypeOK, Outcome, SavepointMarks
<1>9. Learns(c)
  <2>1. ASSUME NEW s \in Stmts, fate'[s] # fate[s]
        PROVE  /\ s[1] = c /\ fate[s] \in {"new", "open"}
               /\ \/ fate'[s] = "done" /\ s \in db
                  \/ /\ fate'[s] = "gone" /\ s \notin db
                     /\ \A q \in requests : s \in Range(q.body) => Spent(q)
    <3>1. s \in Range(p.body) /\ fate[s] \in {"new", "open"} /\ fate'[s] = verdict
      BY <1>4, <2>1
    <3>2. \A q \in requests : s \in Range(q.body) => q = p
      BY <3>1 DEF DbApiInv, Apart
    <3> QED
      BY <1>5, <3>1, <3>2
  <2> QED
    BY <2>1 DEF Learns
<1>10. /\ statements'[c] = statements[c] \/ statements'[c] = <<>>
       /\ Distinct(statements'[c]) /\ Range(statements'[c]) \subseteq Range(statements[c])
       /\ version'[c] = 0 => statements'[c] = <<>> /\ savepoints'[c] = <<>> /\ frames'[c] = Base
       /\ version'[c] # 0 => version[c] # 0
  BY OutcomeStatements
<1>11. Range(statements[c]) \subseteq Stmts
  BY Unfold
<1>12. Owned(c, statements[c])' /\ Begun(c)' /\ InOrder(c)'
  <2>1. Owned(c, statements[c])'
    BY <1>1, <1>6, <1>10, <1>11 DEF Owned
  <2>2. Begun(c)'
    BY <1>1, <1>2, <1>10 DEF Begun
  <2>3. InOrder(c)'
    BY <1>1, <1>2, <1>6, OrderStays
  <2> QED
    BY <2>1, <2>2, <2>3
<1>13. failed'[c] \/ version'[c] = 0
  BY <1>1, <1>5 DEF Outcome, Waiting
<1>14. Waiting(c)' /\ Previewing(c)' /\ Operating(c)'
  BY <1>3, <1>13 DEF Waiting, Previewing, Operating, Submitted, Executing
<1>15. Nested(c)'
  <2>1. CASE failed'[c]
    BY <2>1 DEF Nested
  <2>2. CASE ~failed'[c]
    BY <1>10, <1>13, <2>2, NestBase, RangeSmall DEF Nested
  <2> QED
    BY <2>1, <2>2
<1>16. Local(c)'
  BY <1>12, <1>14, <1>15 DEF Local
<1>17. Elsewhere(c)
  BY <1>2, <1>3 DEF Elsewhere, Outcome
<1>18. Carries(c)
  BY <1>7, <1>10, <1>11 DEF Carries
<1>19. Moves(c) /\ Submits(c)
  BY <1>2, <1>3 DEF Moves, Submits
<1> QED
  BY <1>2, <1>8, <1>9, <1>16, <1>17, <1>18, <1>19 DEF Steps

\* The answer to a pending write.
LEMMA ResolveKeeps ==
  ASSUME DbApiInv, NEW c \in Conns, _resolve(c)
  PROVE  TypeOK' /\ Local(c)' /\ Steps(c)
<1>1. TypeOK /\ Waiting(c) /\ Served /\ Submitted(c) /\ call[c] # None
  BY Unfold DEF DbApiInv, _resolve, Submitted
<1>2. pending[c] # None
  BY <1>1 DEF Waiting
<1>3. PICK p \in requests : p = pending[c]
  BY <1>1, <1>2 DEF TypeOK
<1>4. /\ call' = [call EXCEPT ![c] = None]
      /\ UNCHANGED <<service, session, session_epoch, autocommit, closed, created>>
      /\ Code(p) # "None"
  BY <1>3 DEF _resolve
<1>5. rows[p.session].outcome \in {"None", "Applied", "Conflict"}
  BY <1>1, RequestType DEF TypeOK
<1>6. Code(p) \in {"Expired", "Applied", "Conflict"}
  BY <1>4, <1>5 DEF Code
<1>7. Code(p) # "Expired" => /\ p.epoch = epoch /\ rows[p.session].sequence = p.sequence
                             /\ rows[p.session].outcome = Code(p)
  BY <1>4 DEF Code
<1>8. Code(p) = "Applied" => Range(p.body) \subseteq db
  BY <1>1, <1>7 DEF Served
<1>9. Code(p) = "Conflict" => Range(p.body) \cap db = {} /\ Spent(p)
  <2>1. p.sequence \in Nat
    BY <1>1, RequestType
  <2> QED
    BY <1>1, <1>7, <2>1 DEF Served, Spent
<1>10. CASE Code(p) = "Expired"
  <2>1. /\ UNCHANGED <<pending, sequence>> /\ UNCHANGED <<fate, op, history>>
        /\ CommitRaises(c, TRUE)
    BY <1>3, <1>10 DEF _resolve, Resolves
  <2> QED
    BY <1>1, <1>4, <2>1, OpenKeeps DEF native
<1>11. CASE Code(p) = "Applied"
  <2>1. /\ pending' = [pending EXCEPT ![c] = None] /\ sequence' = [sequence EXCEPT ![c] = @ + 1]
        /\ Settle(Range(p.body), "done") /\ EndOp(c, p.body)
    BY <1>3, <1>11 DEF _resolve, Resolves
  <2>2. Outcome(c)
    <3>1. CASE call[c].kind \in Commits
      <4>1. _clear(c) /\ frames' = [frames EXCEPT ![c] = Base]
        BY <1>3, <1>11, <3>1 DEF _resolve
      <4> QED
        BY <1>1, <4>1, OutcomeClear
    <3>2. CASE call[c].kind \notin Commits
      <4>1. ~Committing(c) /\ UNCHANGED <<version, statements, savepoints, failed, frames>>
        BY <1>3, <1>11, <3>2 DEF _resolve, Committing
      <4> QED
        BY <1>1, <4>1, OutcomeSame
    <3> QED
      BY <3>1, <3>2
  <2>3. /\ op' \in [Conns -> Operations \cup {None}] /\ op'[c] = None
        /\ \A d \in Conns \ {c} : op'[d] = op[d]
        /\ IsFiniteSet(history') /\ \A h \in history' : h.id \in Ids
    BY <1>1, <2>1, EndType
  <2> QED
    BY <1>1, <1>3, <1>4, <1>8, <1>11, <2>1, <2>2, <2>3, ResolvedKeeps
<1>12. CASE Code(p) = "Conflict"
  <2>1. /\ pending' = [pending EXCEPT ![c] = None] /\ sequence' = [sequence EXCEPT ![c] = @ + 1]
        /\ Settle(Range(p.body), "gone") /\ AbandonOp(c) /\ CommitRaises(c, FALSE)
    BY <1>3, <1>12 DEF _resolve, Resolves
  <2>2. Outcome(c)
    BY <1>1, <2>1, OutcomeRaised
  <2>3. /\ op' \in [Conns -> Operations \cup {None}] /\ op'[c] = None
        /\ \A d \in Conns \ {c} : op'[d] = op[d] /\ history' = history
    BY <1>1, <2>1, AbandonType
  <2>4. IsFiniteSet(history') /\ \A h \in history' : h.id \in Ids
    BY <1>1, <2>1 DEF TypeOK, AbandonOp
  <2> QED
    BY <1>1, <1>3, <1>4, <1>9, <1>12, <2>1, <2>2, <2>3, <2>4, ResolvedKeeps
<1> QED
  BY <1>6, <1>10, <1>11, <1>12

-----------------------------------------------------------------------------
(***************************************************************************)
(* The theorems.                                                           *)
(***************************************************************************)
\* The invariant holds initially.
LEMMA InitKeeps == Init => DbApiInv
<1> SUFFICES ASSUME Init PROVE DbApiInv
  OBVIOUS
<1>1. TypeOK
  BY InitType
<1>2. /\ db = {} /\ requests = {} /\ epoch = 0 /\ rows = [s \in Sessions |-> NoRow]
      /\ fate = [s \in Stmts |-> "new"]
  BY DEF Init
<1>3. ASSUME NEW c \in Conns PROVE Local(c)
  <2>1. /\ created[c] = 0 /\ statements[c] = <<>> /\ savepoints[c] = <<>> /\ frames[c] = Base
        /\ version[c] = 0 /\ session_epoch[c] = -1 /\ ~failed[c] /\ call[c] = None
        /\ pending[c] = None /\ op[c] = None /\ MaxNew[c] \in Nat
    BY <1>3, DbApiAssumption DEF Init
  <2>2. InOrder(c)
    <3>1. \A i \in 1..MaxNew[c] : <<c, i>> \in Stmts
      BY DEF Stmts
    <3> QED
      BY <1>2, <2>1, <3>1 DEF InOrder
  <2>3. Owned(c, statements[c]) /\ Nested(c)
    <3>1. Range(<<>>) = {} /\ Distinct(<<>>)
      BY RangeSmall DEF Distinct
    <3> QED
      BY <2>1, <3>1, NestBase DEF Owned, Nested
  <2>4. Begun(c) /\ Waiting(c) /\ Previewing(c) /\ Operating(c)
    BY <1>2, <2>1 DEF Begun, Waiting, Previewing, Operating, Submitted, Executing
  <2> QED
    BY <2>2, <2>3, <2>4 DEF Local
<1>4. Apart /\ Served /\ Known
  BY <1>2 DEF Apart, Served, Known, NoRow
<1> QED
  BY <1>1, <1>2, <1>3, <1>4 DEF DbApiInv

\* Every call and every step of the service keeps it.
LEMMA NextKeeps == DbApiInv /\ [Next]_vars => DbApiInv'
<1> SUFFICES ASSUME DbApiInv, [Next]_vars PROVE DbApiInv'
  OBVIOUS
<1>1. CASE UNCHANGED vars
  <2>1. /\ UNCHANGED <<db, revision, epoch, rows, requests, session, sequence, pending>>
        /\ UNCHANGED <<session_epoch, version, statements, savepoints, failed, autocommit>>
        /\ UNCHANGED <<closed, call, created, frames, fate, op, history>>
    BY <1>1 DEF vars, service, native, dbapi, app
  <2>2. TypeOK' /\ (\A c \in Conns : Local(c)') /\ Apart' /\ Served' /\ Known'
    <3>1. TypeOK' /\ Apart' /\ Served' /\ Known'
      BY <2>1 DEF DbApiInv, TypeOK, Apart, Served, Known, Spent
    <3>2. ASSUME NEW c \in Conns PROVE Local(c)'
      <4>1. Local(c)
        BY DEF DbApiInv
      <4> QED
        BY <2>1, <4>1 DEF Local, InOrder, Owned, Begun, Waiting, Previewing, Nested, Operating,
                          Submitted, Executing, Committing
    <3> QED
      BY <3>1, <3>2
  <2>3. \A p \in requests : Sent(p)'
    BY <2>1 DEF DbApiInv, Sent, Owned
  <2> QED
    BY <2>1, <2>2, <2>3 DEF DbApiInv
<1>2. ASSUME NEW p \in requests, Apply(p) PROVE DbApiInv'
  BY <1>2, ApplyKeeps
<1>3. CASE retire_sessions
  BY <1>3, RetireKeeps
<1>4. ASSUME NEW c \in Conns, TypeOK' /\ Local(c)' /\ Steps(c) PROVE DbApiInv'
  BY <1>4, StepsKeep
<1>5. ASSUME NEW c \in Conns, NEW kind \in {"query", "write", "many"}, Execute(c, kind)
      PROVE  DbApiInv'
  BY <1>4, <1>5, ExecuteKeeps
<1>6. ASSUME NEW c \in Conns, QueryAutocommit(c) \/ BeginFails(c) \/ SetAutocommit(c)
      PROVE  DbApiInv'
  BY <1>4, <1>6, QueryKeeps
<1>7. ASSUME NEW c \in Conns, Previewed(c) PROVE DbApiInv'
  BY <1>4, <1>7, PreviewedKeeps
<1>8. ASSUME NEW c \in Conns, Aborted(c) \/ Refused(c) PROVE DbApiInv'
  <2>1. PICK fails \in BOOLEAN : Executing(c) /\ Raise(c, fails)
    BY <1>8 DEF Aborted, Refused
  <2> QED
    BY <1>4, <2>1, RaiseKeeps
<1>9. ASSUME NEW c \in Conns, NEW name \in Names, savepoint(c, name) PROVE DbApiInv'
  BY <1>4, <1>9, SavepointKeeps
<1>10. ASSUME NEW c \in Conns, NEW name \in Names, rollback_savepoint(c, name) PROVE DbApiInv'
  BY <1>4, <1>10, RollbackSavepointKeeps
<1>11. ASSUME NEW c \in Conns, NEW name \in Names, release_savepoint(c, name) PROVE DbApiInv'
  BY <1>4, <1>11, ReleaseSavepointKeeps
<1>12. ASSUME NEW c \in Conns, commit(c) PROVE DbApiInv'
  BY <1>4, <1>12, CommitKeeps
<1>13. ASSUME NEW c \in Conns, Batch(c) PROVE DbApiInv'
  BY <1>4, <1>13, BatchKeeps
<1>14. ASSUME NEW c \in Conns, resolve_pending(c) PROVE DbApiInv'
  BY <1>4, <1>14, ResolvePendingKeeps
<1>15. ASSUME NEW c \in Conns, _resolve(c) PROVE DbApiInv'
  BY <1>4, <1>15, ResolveKeeps
<1>16. ASSUME NEW c \in Conns, UnknownOutcome(c) PROVE DbApiInv'
  <2>1. TypeOK' /\ Local(c)' /\ Steps(c)
    BY <1>16, OpenKeeps DEF UnknownOutcome
  <2> QED
    BY <1>4, <2>1
<1>17. ASSUME NEW c \in Conns, rollback(c) PROVE DbApiInv'
  BY <1>4, <1>17, RollbackKeeps
<1>18. ASSUME NEW c \in Conns, close(c) PROVE DbApiInv'
  BY <1>4, <1>18, CloseKeeps
<1>19. ASSUME NEW c \in Conns, NEW keep \in BOOLEAN, Reconnect(c, keep) PROVE DbApiInv'
  BY <1>4, <1>19, CloseKeeps, ReconnectKeeps
<1> QED
  BY <1>1, <1>2, <1>3, <1>5, <1>6, <1>7, <1>8, <1>9, <1>10, <1>11, <1>12, <1>13, <1>14, <1>15,
     <1>16, <1>17, <1>18, <1>19 DEF Next

\* Whatever the calls, the lost replies and the reconnections, every reachable
\* state satisfies the invariant.
THEOREM DbApiInvariant == Spec => []DbApiInv
<1>1. Init => DbApiInv
  BY InitKeeps
<1>2. DbApiInv /\ [Next]_vars => DbApiInv'
  BY NextKeeps
<1> QED
  BY <1>1, <1>2, PTL DEF Spec

\* Type correctness of the connections, the service and the history.
THEOREM DbApiTypes == Spec => []TypeOK
<1>1. DbApiInv => TypeOK
  BY DEF DbApiInv
<1> QED
  BY <1>1, DbApiInvariant, PTL

\* The application is told the truth: what was reported committed is in the
\* database, what was reported rolled back, failed or conflicting is not and never
\* will be.
THEOREM FatesAreTrueTheorem == Spec => []FatesAreTrue
<1>1. DbApiInv => FatesAreTrue
  <2> SUFFICES ASSUME DbApiInv, NEW s \in Stmts
               PROVE  /\ fate[s] = "done" => s \in db
                      /\ fate[s] \in {"new", "gone"} => s \notin db
    BY DEF FatesAreTrue
  <2>1. /\ fate[s] = "done" => s \in db
        /\ fate[s] = "gone" => s \notin db
    BY DEF DbApiInv, Known
  <2>2. ASSUME fate[s] = "new", s \in db PROVE FALSE
    <3>1. PICK p \in requests : s \in Range(p.body)
      BY <2>2 DEF DbApiInv, Served
    <3> QED
      BY <2>2, <3>1 DEF DbApiInv, Sent, Owned
  <2> QED
    BY <2>1, <2>2
<1> QED
  BY <1>1, DbApiInvariant, PTL

\* Marks in a flat statement list are nested transactions: a usable transaction
\* holds exactly the work of its open savepoints, and nothing that was rolled back.
THEOREM SavepointsNestTheorem == Spec => []SavepointsNest
<1>1. DbApiInv => SavepointsNest
  <2> SUFFICES ASSUME DbApiInv, NEW c \in Conns, _ready(c), Idle(c)
               PROVE  /\ statements[c] = Work(frames[c])
                      /\ [i \in 1..Len(savepoints[c]) |-> savepoints[c][i].name]
                           = [i \in 1..Len(frames[c]) - 1 |-> frames[c][i + 1].name]
                      /\ \A s \in Range(statements[c]) : fate[s] = "open"
    BY DEF SavepointsNest, DbApiInv
  <2>1. /\ NestOf(frames[c], statements[c], savepoints[c])
        /\ \A s \in Range(statements[c]) : fate[s] = "open"
    BY Unfold DEF _ready, Nested
  <2>2. Len(savepoints[c]) \in Nat /\ Len(frames[c]) \in Nat
    BY Unfold
  <2>3. Len(frames[c]) - 1 = Len(savepoints[c])
    BY <2>1, <2>2 DEF NestOf
  <2>4. \A i \in 1..Len(savepoints[c]) : savepoints[c][i].name = frames[c][i + 1].name
    BY <2>1 DEF NestOf
  <2> QED
    BY <2>1, <2>3, <2>4 DEF NestOf
<1> QED
  BY <1>1, DbApiInvariant, PTL

-----------------------------------------------------------------------------
(***************************************************************************)
(* Serializability.  The history variables that the argument needs are the *)
(* witnesses of a second invariant: when, the revision at which a row      *)
(* became active; key, the revision at which an operation is placed; and   *)
(* rank, the order in which operations ended.                              *)
(***************************************************************************)
\* The rows that were active at a revision.
Past(when, v) == {s \in db : when[s] <= v}

\* The statements of a body become active together, at a revision of their own:
\* the one after the revision they were previewed at, if they were.
Dated(when) ==
    /\ \A s \in db : when[s] <= revision
    /\ \A p \in requests : \A s \in Range(p.body) \cap db :
           /\ p.version # 0 => when[s] = p.version + 1
           /\ \A t \in Range(p.body) : t \in db /\ when[t] = when[s]
    /\ \A s, t \in db : when[s] = when[t] =>
           \E p \in requests : s \in Range(p.body) /\ t \in Range(p.body)

\* An operation that returned saw the state at its place.
Explained(h, when, key) ==
    LET k == key[h.id] IN
    /\ k <= revision
    /\ h.toggled = {} => h.observed \in {NoRead, Past(when, k)} /\ h.after \in {NoRead, Past(when, k)}
    /\ h.toggled # {} => /\ h.toggled = {s \in db : when[s] = k}
                         /\ h.observed \in {NoRead, Past(when, k - 1)}
                         /\ h.after \in {NoRead, Past(when, k)}

\* Those that returned before it have earlier places; no two wrote at one place.
Ordered(h, key, rank) ==
    /\ h.id[2] <= Cardinality(Finished(h.id[1]))
    /\ rank[h.id] < Cardinality(history)
    /\ h.before \subseteq {g.id : g \in history}
    /\ \A b \in h.before : /\ key[b] <= key[h.id] /\ rank[b] < rank[h.id]
                           /\ h.toggled # {} => key[b] < key[h.id]
    /\ \A g \in history : /\ g.id = h.id => g = h
                          /\ g.toggled # {} /\ h.toggled # {} /\ key[g.id] = key[h.id] => g = h

\* What is known to be committed was written by an operation that returned.
Credited == \A s \in Stmts : fate[s] = "done" <=> \E h \in history : s \in h.toggled

\* The statements that the last query of a transaction has seen.
Seen(c) == IF Executing(c) THEN call[c].before ELSE statements[c]

\* An operation in progress saw the state at the revision it began at, and one
\* that has been submitted will be placed after those that returned before it.
Viewed(c, when, key) ==
    LET o == op[c]
        p == pending[c]
    IN
    o # None =>
      /\ o.before \subseteq {h.id : h \in history}
      /\ p = None /\ ~failed[c] =>
           /\ \A b \in o.before : key[b] <= version[c]
           /\ o.observed \in {NoRead, Past(when, version[c])}
           /\ o.after \in {NoRead, Past(when, version[c]) \cup Range(Seen(c))}
      /\ p # None =>
           /\ p.version = 0 => o.observed = NoRead /\ o.after = NoRead
           /\ p.version # 0 =>
                /\ o.observed \in {NoRead, Past(when, p.version)}
                /\ o.after \in {NoRead, Past(when, p.version) \cup Range(p.body)}
           /\ \A s \in Range(p.body) \cap db : \A b \in o.before : key[b] < when[s]

Timed(when, key, rank) ==
    /\ Dated(when) /\ Credited
    /\ \A h \in history : Explained(h, when, key) /\ Ordered(h, key, rank)
    /\ \A c \in Conns : Viewed(c, when, key)

\* The invariant of the history.
HistoryInv ==
    \E when \in [Stmts -> Nat], key \in [Ids -> Nat], rank \in [Ids -> Nat] :
        Timed(when, key, rank)

-----------------------------------------------------------------------------
(***************************************************************************)
(* Why the invariant is enough: operations in the order of their places,   *)
(* the write of a place before the reads there, reads as they ended.       *)
(***************************************************************************)
\* The pairs that the search of serial_history reaches with one operation more.
Further(ops, reached) ==
    UNION {{<<p[1] \cup {o.id}, Toggle(p[2], o.toggled)>> :
              o \in {g \in ops : g.id \notin p[1] /\ Legal(g, p[1], p[2])}} : p \in reached}

\* Its recursion, unfolded.
Search(initial, ops, top, g) ==
    g = [n \in 0..top |-> IF n = 0 THEN {<<{}, initial>>} ELSE Further(ops, g[n - 1])]

\* It can be unfolded through every depth.
LEMMA SearchExists ==
  ASSUME NEW initial, NEW ops, NEW top \in Nat
  PROVE  \E g : Search(initial, ops, top, g)
<1> DEFINE first == {<<{}, initial>>}
           P == {n \in Nat : \E g : Search(initial, ops, n, g)}
<1>1. 0 \in P
  <2> DEFINE g == [n \in 0..0 |-> first]
  <2>1. g = [n \in 0..0 |-> IF n = 0 THEN first ELSE Further(ops, g[n - 1])]
    OBVIOUS
  <2>2. Search(initial, ops, 0, g)
    <3> HIDE DEF g
    <3> QED
      BY <2>1 DEF Search
  <2> QED
    BY <2>2
<1>2. ASSUME NEW n \in 1..top, n - 1 \in P PROVE n \in P
  <2>1. PICK g : Search(initial, ops, n - 1, g)
    BY <1>2
  <2> HIDE DEF first
  <2> DEFINE h == [i \in 0..n |-> IF i = n THEN Further(ops, g[n - 1]) ELSE g[i]]
  <2>2. g = [i \in 0..n-1 |-> IF i = 0 THEN first ELSE Further(ops, g[i - 1])]
    BY <2>1 DEF Search, first
  <2>3. ASSUME NEW i \in 0..n
        PROVE  h[i] = IF i = 0 THEN first ELSE Further(ops, h[i - 1])
    <3>1. CASE i = n
      <4>1. n # 0 /\ n - 1 \in 0..n /\ n - 1 # n
        OBVIOUS
      <4>2. h[n] = Further(ops, g[n - 1]) /\ h[n - 1] = g[n - 1]
        BY <4>1
      <4> HIDE DEF h
      <4> QED
        BY <3>1, <4>1, <4>2
    <3>2. CASE i # n
      <4>1. i \in 0..n-1 /\ (i # 0 => i - 1 \in 0..n /\ i - 1 # n)
        BY <3>2
      <4>2. h[i] = g[i] /\ (i # 0 => h[i - 1] = g[i - 1])
        BY <3>2, <4>1
      <4>3. g[i] = IF i = 0 THEN first ELSE Further(ops, g[i - 1])
        BY <2>2, <4>1
      <4> HIDE DEF h
      <4> QED
        BY <4>2, <4>3
    <3> QED
      BY <3>1, <3>2
  <2>4. h = [i \in 0..n |-> IF i = 0 THEN first ELSE Further(ops, h[i - 1])]
    <3>1. h = [i \in 0..n |-> h[i]]
      OBVIOUS
    <3> HIDE DEF h
    <3> QED
      BY <2>3, <3>1
  <2>5. Search(initial, ops, n, h)
    <3> HIDE DEF h
    <3> QED
      BY <2>4 DEF Search, first
  <2>6. n \in Nat
    OBVIOUS
  <2> HIDE DEF h
  <2> QED
    BY <2>5, <2>6
<1>3. \A n \in 0..top : n \in P
  <2> HIDE DEF P
  <2> QED
    BY <1>1, <1>2, NumberInduction
<1> QED
  BY <1>3

\* The recursive equations of the search.
LEMMA SearchUnfolds ==
  ASSUME NEW initial, NEW ops, Cardinality(ops) \in Nat
  PROVE  \E r : /\ Placed(initial, ops) = r[Cardinality(ops)]
                /\ <<{}, initial>> \in r[0]
                /\ \A n \in 1..Cardinality(ops) : r[n] = Further(ops, r[n - 1])
<1> DEFINE top == Cardinality(ops)
           r == CHOOSE g : Search(initial, ops, top, g)
<1>1. \E g : Search(initial, ops, top, g)
  BY SearchExists
<1>2. Placed(initial, ops) = r[top]
  BY DEF Placed, Search, Further
<1>3. Search(initial, ops, top, r)
  BY <1>1
<1> HIDE DEF r
<1>4. r = [n \in 0..top |-> IF n = 0 THEN {<<{}, initial>>} ELSE Further(ops, r[n - 1])]
  BY <1>3 DEF Search
<1>5. top \in Nat
  OBVIOUS
<1> HIDE DEF top
<1>6. <<{}, initial>> \in r[0]
  BY <1>4, <1>5
<1>7. \A n \in 1..top : r[n] = Further(ops, r[n - 1])
  <2>1. \A n \in 1..top : n \in 0..top /\ n # 0
    BY <1>5
  <2> QED
    BY <1>4, <2>1
<1> QED
  BY <1>2, <1>6, <1>7 DEF top

\* An operation that may come next, comes next.
LEMMA SearchStep ==
  ASSUME NEW ops, NEW reached, NEW done, NEW state, <<done, state>> \in reached,
         NEW o \in ops, o.id \notin done, Legal(o, done, state)
  PROVE  <<done \cup {o.id}, Toggle(state, o.toggled)>> \in Further(ops, reached)
<1> DEFINE p == <<done, state>>
<1>1. p \in reached /\ p[1] = done /\ p[2] = state
  OBVIOUS
<1> HIDE DEF p
<1>2. <<p[1] \cup {o.id}, Toggle(p[2], o.toggled)>> \in Further(ops, reached)
  BY <1>1 DEF Further
<1> QED
  BY <1>1, <1>2

\* The order of places.
Precedes(g, h, key) ==
    \/ key[g.id] < key[h.id]
    \/ key[g.id] = key[h.id] /\ (g.toggled # {} \/ h.toggled = {})

\* Of the operations that have not been placed, one may be next.
LEMMA NextExists ==
  ASSUME TypeOK, NEW when, NEW key \in [Ids -> Nat], NEW rank \in [Ids -> Nat],
         Timed(when, key, rank), NEW rest \in SUBSET history, rest # {}
  PROVE  \E h \in rest : \A g \in rest : Precedes(h, g, key) /\ g.id \notin h.before
<1>1. \A h \in rest : h.id \in Ids /\ key[h.id] \in Nat /\ rank[h.id] \in Nat
  BY DEF TypeOK
<1>2. \A h \in rest : \A b \in h.before :
          key[b] <= key[h.id] /\ rank[b] < rank[h.id] /\ (h.toggled # {} => key[b] < key[h.id])
  BY DEF Timed, Ordered
<1> DEFINE K == {key[h.id] : h \in rest}
<1>3. PICK k \in K : \A x \in K : k <= x
  <2>1. K \subseteq Nat /\ K # {}
    BY <1>1
  <2> HIDE DEF K
  <2> QED
    BY <2>1, LeastNumber
<1> DEFINE T == {h \in rest : key[h.id] = k}
           W == {h \in T : h.toggled # {}}
<1>4. T # {} /\ k \in Nat /\ \A g \in rest : k <= key[g.id] /\ (g \notin T => k < key[g.id])
  <2>1. PICK h \in rest : key[h.id] = k
    BY <1>3
  <2>2. k \in Nat /\ h \in T
    BY <1>1, <2>1
  <2>3. ASSUME NEW g \in rest PROVE k <= key[g.id] /\ (g \notin T => k < key[g.id])
    <3>1. key[g.id] \in K
      OBVIOUS
    <3>2. k <= key[g.id] /\ key[g.id] \in Nat
      BY <1>1, <1>3, <3>1
    <3> QED
      BY <2>2, <3>2
  <2> QED
    BY <2>2, <2>3
<1>5. CASE W # {}
  <2>1. PICK h \in W : TRUE
    BY <1>5
  <2>2. ASSUME NEW g \in rest PROVE Precedes(h, g, key) /\ g.id \notin h.before
    BY <1>1, <1>2, <1>4, <2>1 DEF Precedes
  <2> QED
    BY <2>1, <2>2
<1>6. CASE W = {}
  <2> DEFINE R == {rank[h.id] : h \in T}
  <2>1. PICK x \in R : \A y \in R : x <= y
    <3>1. R \subseteq Nat /\ R # {}
      BY <1>1, <1>4
    <3> HIDE DEF R
    <3> QED
      BY <3>1, LeastNumber
  <2>2. PICK h \in T : rank[h.id] = x
    BY <2>1
  <2>4. h \in rest /\ key[h.id] = k /\ h.toggled = {}
    BY <1>6, <2>2
  <2>5. \A g \in T : rank[h.id] <= rank[g.id]
    BY <2>1, <2>2
  <2>3. ASSUME NEW g \in rest PROVE Precedes(h, g, key) /\ g.id \notin h.before
    <3>1. Precedes(h, g, key)
      <4>1. g \in T => key[g.id] = k /\ g.toggled = {}
        BY <1>6
      <4> QED
        BY <1>1, <1>4, <2>4, <4>1 DEF Precedes
    <3>2. CASE g \in T
      <4>1. ~(rank[g.id] < rank[h.id])
        BY <1>1, <2>4, <2>5, <3>2
      <4>2. g.id \notin h.before
        BY <1>2, <2>4, <4>1
      <4> QED
        BY <3>1, <4>2
    <3>3. CASE g \notin T
      <4>1. ~(key[g.id] <= key[h.id])
        BY <1>1, <1>4, <2>4, <3>3
      <4>2. g.id \notin h.before
        BY <1>2, <2>4, <4>1
      <4> QED
        BY <3>1, <4>2
    <3> QED
      BY <3>1, <3>2, <3>3
  <2> QED
    BY <2>2, <2>3
<1> QED
  BY <1>5, <1>6

\* Operations up to a place.
Segment(some, key) ==
    /\ some \subseteq history
    /\ \A g \in some, h \in history \ some : Precedes(g, h, key)

Toggled(some) == UNION {g.toggled : g \in some}

\* They lead to the state at that place.
LEMMA SegmentState ==
  ASSUME TypeOK, NEW when \in [Stmts -> Nat], NEW key \in [Ids -> Nat], NEW rank \in [Ids -> Nat],
         Timed(when, key, rank), \A s \in db : \E h \in history : s \in h.toggled,
         NEW some, Segment(some, key), NEW h \in history \ some,
         \A g \in history \ some : Precedes(h, g, key)
  PROVE  /\ h.toggled = {} => Toggled(some) = Past(when, key[h.id])
         /\ h.toggled # {} => Toggled(some) = Past(when, key[h.id] - 1)
<1>1. \A g \in history : key[g.id] \in Nat
  BY DEF TypeOK
<1>2. \A g \in history : /\ g.toggled = {} \/ g.toggled = {s \in db : when[s] = key[g.id]}
                         /\ \A s \in g.toggled : s \in db /\ when[s] = key[g.id]
  BY DEF Timed, Explained
<1>3. \A s \in db : when[s] \in Nat
  BY DEF TypeOK
<1>4. some \subseteq history /\ \A g \in some : Precedes(g, h, key)
  BY DEF Segment
<1>5. ASSUME NEW s \in Toggled(some)
      PROVE  s \in db /\ when[s] <= key[h.id] /\ (h.toggled # {} => when[s] <= key[h.id] - 1)
  <2>1. PICK g \in some : s \in g.toggled
    BY DEF Toggled
  <2>2. s \in db /\ when[s] = key[g.id] /\ g # h
    BY <1>2, <1>4, <2>1
  <2>3. key[g.id] <= key[h.id]
    BY <1>1, <1>4 DEF Precedes
  <2>4. ASSUME h.toggled # {} PROVE key[g.id] # key[h.id]
    BY <1>4, <2>1, <2>2, <2>4 DEF Timed, Ordered
  <2> QED
    BY <1>1, <1>4, <2>2, <2>3, <2>4
<1>6. ASSUME NEW s \in db, when[s] <= key[h.id], h.toggled # {} => when[s] <= key[h.id] - 1
      PROVE  s \in Toggled(some)
  <2>1. PICK g \in history : s \in g.toggled
    OBVIOUS
  <2>2. when[s] = key[g.id] /\ g.toggled # {}
    BY <1>2, <2>1
  <2>3. g \in some
    <3> SUFFICES ASSUME g \in history \ some PROVE FALSE
      OBVIOUS
    <3>1. Precedes(h, g, key)
      OBVIOUS
    <3> QED
      BY <1>1, <1>3, <1>6, <2>2, <3>1 DEF Precedes
  <2> QED
    BY <2>1, <2>3 DEF Toggled
<1>7. CASE h.toggled = {}
  <2>1. \A s : s \in Toggled(some) <=> s \in db /\ when[s] <= key[h.id]
    BY <1>5, <1>6, <1>7
  <2>2. Toggled(some) = {s \in db : when[s] <= key[h.id]}
    BY <2>1
  <2> QED
    BY <1>7, <2>2 DEF Past
<1>8. CASE h.toggled # {}
  <2>1. \A s \in db : when[s] <= key[h.id] - 1 => when[s] <= key[h.id]
    BY <1>1, <1>3
  <2>2. \A s : s \in Toggled(some) <=> s \in db /\ when[s] <= key[h.id] - 1
    BY <1>5, <1>6, <1>8, <2>1
  <2>3. Toggled(some) = {s \in db : when[s] <= key[h.id] - 1}
    BY <2>2
  <2> QED
    BY <1>8, <2>3 DEF Past
<1> QED
  BY <1>7, <1>8

\* Reads of a state that a write leads to.
LEMMA PastWrite ==
  ASSUME NEW when \in [Stmts -> Nat], db \subseteq Stmts, NEW k \in Nat, NEW some,
         some = {s \in db : when[s] = k}
  PROVE  /\ Toggle(Past(when, k - 1), some) = Past(when, k)
         /\ Past(when, k - 1) \cup some = Past(when, k)
<1>1. \A s \in db : when[s] \in Nat
  OBVIOUS
<1>2. \A s \in db : when[s] <= k <=> when[s] <= k - 1 \/ when[s] = k
  BY <1>1
<1>3. \A s \in db : ~(when[s] <= k - 1 /\ when[s] = k)
  BY <1>1
<1> QED
  BY <1>2, <1>3 DEF Past, Toggle

\* The operations up to a place, and the next one.
LEMMA SegmentGrows ==
  ASSUME TypeOK, NEW when \in [Stmts -> Nat], NEW key \in [Ids -> Nat], NEW rank \in [Ids -> Nat],
         Timed(when, key, rank), \A s \in db : \E h \in history : s \in h.toggled,
         NEW ops, history \subseteq ops, NEW reached,
         NEW some, Segment(some, key), some # history,
         <<{g.id : g \in some}, Toggled(some)>> \in reached
  PROVE  \E h \in history \ some :
            /\ Segment(some \cup {h}, key)
            /\ <<{g.id : g \in some \cup {h}}, Toggled(some \cup {h})>> \in Further(ops, reached)
<1> DEFINE ids == {g.id : g \in some}
<1>1. some \subseteq history /\ history \ some # {}
  BY DEF Segment
<1>2. PICK h \in history \ some :
          \A g \in history \ some : Precedes(h, g, key) /\ g.id \notin h.before
  BY <1>1, NextExists
<1>3. Explained(h, when, key) /\ Ordered(h, key, rank) /\ key[h.id] \in Nat
  BY <1>2 DEF Timed, TypeOK
<1>4. h.before \subseteq ids
  <2>1. ASSUME NEW b \in h.before PROVE b \in ids
    <3>1. PICK g \in history : g.id = b
      BY <1>3, <2>1 DEF Ordered
    <3> QED
      BY <1>2, <2>1, <3>1
  <2> QED
    BY <2>1
<1>5. h.id \notin ids
  <2>1. \A g \in some : g.id # h.id
    BY <1>1, <1>2, <1>3 DEF Ordered
  <2> QED
    BY <2>1
<1>6. /\ h.toggled = {} => Toggled(some) = Past(when, key[h.id])
      /\ h.toggled # {} => Toggled(some) = Past(when, key[h.id] - 1)
  BY <1>2, SegmentState
<1>7. /\ h.observed \in {NoRead, Toggled(some)}
      /\ h.after \in {NoRead, Toggle(Toggled(some), h.toggled)}
      /\ Toggle(Toggled(some), h.toggled) = Toggled(some) \cup h.toggled
  <2>1. CASE h.toggled = {}
    <3>1. Toggle(Toggled(some), h.toggled) = Toggled(some)
      BY <2>1 DEF Toggle
    <3> QED
      BY <1>3, <1>6, <2>1, <3>1 DEF Explained
  <2>2. CASE h.toggled # {}
    <3>1. /\ h.toggled = {s \in db : when[s] = key[h.id]}
          /\ h.observed \in {NoRead, Past(when, key[h.id] - 1)}
          /\ h.after \in {NoRead, Past(when, key[h.id])}
      BY <1>3, <2>2 DEF Explained
    <3>2. /\ Toggle(Past(when, key[h.id] - 1), h.toggled) = Past(when, key[h.id])
          /\ Past(when, key[h.id] - 1) \cup h.toggled = Past(when, key[h.id])
      <4>1. db \subseteq Stmts
        BY DEF TypeOK
      <4> QED
        BY <1>3, <3>1, <4>1, PastWrite, Zenon
    <3> QED
      BY <1>6, <2>2, <3>1, <3>2
  <2> QED
    BY <2>1, <2>2
<1>8. Legal(h, ids, Toggled(some))
  BY <1>4, <1>7 DEF Legal
<1>9. <<ids \cup {h.id}, Toggle(Toggled(some), h.toggled)>> \in Further(ops, reached)
  <2>1. h \in ops
    BY <1>2
  <2> HIDE DEF ids
  <2> QED
    BY <1>5, <1>8, <2>1, SearchStep DEF ids
<1>10. Segment(some \cup {h}, key)
  <2>1. \A g \in history : key[g.id] \in Nat
    BY DEF TypeOK
  <2> QED
    BY <1>1, <1>2, <2>1 DEF Segment
<1>11. {g.id : g \in some \cup {h}} = ids \cup {h.id}
  OBVIOUS
<1>12. Toggled(some \cup {h}) = Toggle(Toggled(some), h.toggled)
  <2>1. Toggled(some \cup {h}) = Toggled(some) \cup h.toggled
    BY DEF Toggled
  <2> QED
    BY <1>7, <2>1
<1> QED
  BY <1>2, <1>9, <1>10, <1>11, <1>12

\* A history of these operations is explained, once no outcome is open.
LEMMA SerialOrder ==
  ASSUME DbApiInv, HistoryInv, \A p \in requests : \A s \in Range(p.body) : fate[s] # "open"
  PROVE  serial_history({}, history \cup
            {[id |-> <<None, 0>>, before |-> {h.id : h \in history}, observed |-> db,
              after |-> NoRead, toggled |-> {}]})
<1> DEFINE last == [id |-> <<None, 0>>, before |-> {h.id : h \in history}, observed |-> db,
                    after |-> NoRead, toggled |-> {}]
           ops == history \cup {last}
           top == Cardinality(history)
<1>1. PICK when \in [Stmts -> Nat], key \in [Ids -> Nat], rank \in [Ids -> Nat] :
          Timed(when, key, rank)
  BY DEF HistoryInv
<1>2. TypeOK /\ IsFiniteSet(history) /\ db \subseteq Stmts
  BY DEF DbApiInv, TypeOK
<1>3. \A s \in db : \E h \in history : s \in h.toggled
  <2> SUFFICES ASSUME NEW s \in db PROVE \E h \in history : s \in h.toggled
    OBVIOUS
  <2>1. PICK p \in requests : s \in Range(p.body)
    BY DEF DbApiInv, Served
  <2>2. fate[s] # "open" /\ fate[s] # "new" /\ fate[s] # "gone" /\ s \in Stmts
    BY <1>2, <2>1 DEF DbApiInv, Known, Sent, Owned
  <2>3. fate[s] = "done"
    BY <1>2, <2>2 DEF TypeOK
  <2> QED
    BY <1>1, <2>2, <2>3 DEF Timed, Credited
<1>4. /\ last.id = <<None, 0>> /\ last.before = {h.id : h \in history} /\ last.observed = db
      /\ last.after = NoRead /\ last.toggled = {}
  OBVIOUS
<1>5. last.id \notin {h.id : h \in history}
  <2>1. last.id \notin Ids
    BY <1>4 DEF Ids
  <2> QED
    BY <1>2, <2>1 DEF TypeOK
<1> HIDE DEF last
<1>6. top \in Nat /\ Cardinality(ops) = top + 1
  <2>1. last \notin history
    BY <1>5
  <2> QED
    BY <1>2, <2>1, FS_CardinalityType, FS_AddElement
<1>7. PICK r : /\ Placed({}, ops) = r[Cardinality(ops)]
               /\ <<{}, {}>> \in r[0]
               /\ \A n \in 1..Cardinality(ops) : r[n] = Further(ops, r[n - 1])
  <2>1. Cardinality(ops) \in Nat
    BY <1>6
  <2> HIDE DEF ops
  <2> QED
    BY <2>1, SearchUnfolds
<1> DEFINE P == {n \in Nat : \E some \in SUBSET history :
                     /\ Cardinality(some) = n /\ Segment(some, key)
                     /\ <<{g.id : g \in some}, Toggled(some)>> \in r[n]}
<1>8. 0 \in P
  <2>1. Cardinality({}) = 0 /\ Segment({}, key) /\ {g.id : g \in {}} = {} /\ Toggled({}) = {}
    BY FS_EmptySet DEF Segment, Toggled
  <2> QED
    BY <1>7, <2>1
<1>9. ASSUME NEW n \in 1..top, n - 1 \in P PROVE n \in P
  <2>1. PICK some \in SUBSET history :
            /\ Cardinality(some) = n - 1 /\ Segment(some, key)
            /\ <<{g.id : g \in some}, Toggled(some)>> \in r[n - 1]
    BY <1>9
  <2>2. some # history /\ n \in 1..Cardinality(ops) /\ n \in Nat
    BY <1>6, <2>1
  <2>3. r[n] = Further(ops, r[n - 1]) /\ history \subseteq ops
    BY <1>7, <2>2
  <2>4. PICK h \in history \ some :
            /\ Segment(some \cup {h}, key)
            /\ <<{g.id : g \in some \cup {h}}, Toggled(some \cup {h})>> \in Further(ops, r[n - 1])
    <3> HIDE DEF ops, top, P
    <3> QED
      BY <1>1, <1>2, <1>3, <2>1, <2>2, <2>3, SegmentGrows
  <2>5. IsFiniteSet(some)
    BY <1>2, <2>1, FS_Subset
  <2>6. Cardinality(some \cup {h}) = n
    <3>1. h \notin some
      BY <2>4
    <3>2. Cardinality(some \cup {h}) = Cardinality(some) + 1
      BY <2>5, <3>1, FS_AddElement
    <3> QED
      BY <2>1, <3>2
  <2>7. some \cup {h} \in SUBSET history
    BY <2>1, <2>4
  <2> HIDE DEF ops, top
  <2> QED
    BY <2>2, <2>3, <2>4, <2>6, <2>7
<1>10. top \in P
  <2>1. \A n \in 0..top : n \in P
    <3> HIDE DEF P, top
    <3> QED
      BY <1>6, <1>8, <1>9, NumberInduction
  <2>2. top \in 0..top
    BY <1>6
  <2> HIDE DEF P, top
  <2> QED
    BY <2>1, <2>2
<1>11. PICK some \in SUBSET history :
           /\ Cardinality(some) = top /\ <<{g.id : g \in some}, Toggled(some)>> \in r[top]
  BY <1>10
<1>12. some = history
  BY <1>2, <1>11, FS_Subset
<1>13. Toggled(history) = db
  <2>1. \A h \in history : h.toggled \subseteq db
    BY <1>1 DEF Timed, Explained
  <2> QED
    BY <1>3, <2>1 DEF Toggled
<1>14. Legal(last, {h.id : h \in history}, db)
  BY <1>4 DEF Legal
<1>15. <<{h.id : h \in history} \cup {last.id}, Toggle(db, last.toggled)>> \in Further(ops, r[top])
  <2>1. <<{h.id : h \in history}, db>> \in r[top] /\ last \in ops
    BY <1>11, <1>12, <1>13
  <2> HIDE DEF ops, top, P
  <2> QED
    BY <1>5, <1>14, <2>1, SearchStep
<1>16. r[top + 1] = Further(ops, r[top])
  <2>1. top + 1 \in 1..Cardinality(ops) /\ (top + 1) - 1 = top
    BY <1>6
  <2> HIDE DEF ops, top
  <2> QED
    BY <1>7, <2>1
<1>17. Placed({}, ops) # {}
  BY <1>6, <1>7, <1>15, <1>16
<1> QED
  BY <1>17 DEF serial_history, last

-----------------------------------------------------------------------------
(***************************************************************************)
(* The steps of a connection and the history.                              *)
(***************************************************************************)
\* What is known of the operations that returned.
LEMMA TimedFacts ==
  ASSUME DbApiInv, NEW when \in [Stmts -> Nat], NEW key \in [Ids -> Nat], NEW rank \in [Ids -> Nat],
         Timed(when, key, rank)
  PROVE  /\ \A h \in history : /\ h.id \in Ids /\ key[h.id] \in Nat /\ key[h.id] <= revision
                               /\ rank[h.id] \in Nat
         /\ Past(when, revision) = db
         /\ revision \in Nat \ {0} /\ db \subseteq Stmts
<1>1. /\ \A h \in history : h.id \in Ids
      /\ revision \in Nat \ {0} /\ db \subseteq Stmts
  BY DEF DbApiInv, TypeOK
<1>2. \A h \in history : key[h.id] \in Nat /\ key[h.id] <= revision /\ rank[h.id] \in Nat
  BY <1>1 DEF Timed, Explained
<1>3. Past(when, revision) = db
  BY DEF Timed, Dated, Past
<1> QED
  BY <1>1, <1>2, <1>3

\* A new request has not been run.
LEMMA DatedStays ==
  ASSUME DbApiInv, NEW c \in Conns, Steps(c), TypeOK', revision' = revision,
         NEW when, Dated(when)
  PROVE  Dated(when)'
<1>1. db' = db /\ Submits(c) /\ TypeOK
  BY DEF Steps, DbApiInv
<1>2. CASE requests' = requests
  BY <1>1, <1>2 DEF Dated
<1>3. CASE requests' # requests
  <2>1. PICK w : w = pending'[c]
    OBVIOUS
  <2>2. /\ requests' = requests \cup {w} /\ pending[c] = None
        /\ \A s \in Range(w.body) :
              s[1] = c /\ (fate[s] = "new" \/ (s \in Range(statements[c]) /\ fate[s] = "open"))
    BY <1>1, <1>3, <2>1 DEF Submits
  <2>3. Range(w.body) \subseteq Stmts
    <3>1. w \in PendingWrites
      BY <2>2 DEF TypeOK
    <3> QED
      BY <3>1, PendingType
  <2>4. Range(w.body) \cap db = {}
    BY <2>2, <2>3, Unsent
  <2> QED
    BY <1>1, <2>2, <2>4 DEF Dated
<1> QED
  BY <1>2, <1>3

\* The operations of the other connections.
LEMMA ViewedElsewhere ==
  ASSUME DbApiInv, NEW c \in Conns, Steps(c), history \subseteq history',
         NEW when, NEW key, NEW key2, \A h \in history : key2[h.id] = key[h.id],
         NEW d \in Conns \ {c}, Viewed(d, when, key)
  PROVE  Viewed(d, when, key2)'
<1>1. /\ db' = db /\ op'[d] = op[d] /\ pending'[d] = pending[d] /\ failed'[d] = failed[d]
      /\ version'[d] = version[d] /\ call'[d] = call[d] /\ statements'[d] = statements[d]
  BY DEF Steps, Elsewhere
<1>2. Seen(d)' = Seen(d)
  BY <1>1 DEF Seen, Executing
<1>3. \A v : Past(when, v)' = Past(when, v)
  BY <1>1 DEF Past
<1>4. \A b \in {h.id : h \in history} : key2[b] = key[b]
  OBVIOUS
<1> QED
  BY <1>1, <1>2, <1>3, <1>4 DEF Viewed

\* What a step that ends no operation leaves alone.
Quiet ==
    /\ revision' = revision /\ history' = history
    /\ \A s \in Stmts : fate'[s] = "done" <=> fate[s] = "done"

\* Such a step.
LEMMA TimedStep ==
  ASSUME DbApiInv, NEW c \in Conns, Steps(c), TypeOK', Quiet,
         NEW when \in [Stmts -> Nat], NEW key \in [Ids -> Nat], NEW rank \in [Ids -> Nat],
         Timed(when, key, rank), Viewed(c, when, key)'
  PROVE  HistoryInv'
<1>1. db' = db /\ revision' = revision /\ history' = history
  BY DEF Steps, Quiet
<1>2. Dated(when)'
  BY DatedStays DEF Timed, Quiet
<1>3. Credited'
  BY <1>1 DEF Timed, Credited, Quiet
<1>4. ASSUME NEW h \in history PROVE Explained(h, when, key)' /\ Ordered(h, key, rank)'
  <2>1. Explained(h, when, key) /\ Ordered(h, key, rank)
    BY DEF Timed
  <2>2. Explained(h, when, key)'
    BY <1>1, <2>1 DEF Explained, Past
  <2>3. Ordered(h, key, rank)'
    BY <1>1, <2>1 DEF Ordered, Finished
  <2> QED
    BY <2>2, <2>3
<1>5. \A d \in Conns : Viewed(d, when, key)'
  <2>1. ASSUME NEW d \in Conns \ {c} PROVE Viewed(d, when, key)'
    BY <1>1, ViewedElsewhere DEF Timed
  <2> QED
    BY <2>1
<1>6. Timed(when, key, rank)'
  BY <1>1, <1>2, <1>3, <1>4, <1>5 DEF Timed
<1> QED
  BY <1>6 DEF HistoryInv

\* A step that ends an operation, at a place that follows from what it saw.
LEMMA TimedEnd ==
  ASSUME DbApiInv, NEW c \in Conns, Steps(c), TypeOK', revision' = revision, op'[c] = None,
         NEW when \in [Stmts -> Nat], NEW key \in [Ids -> Nat], NEW rank \in [Ids -> Nat],
         Timed(when, key, rank),
         NEW h, history' = history \cup {h}, h.id = <<c, Cardinality(Finished(c)) + 1>>,
         NEW k \in Nat, k <= revision, h.before \subseteq {g.id : g \in history},
         \A b \in h.before : key[b] <= k /\ (h.toggled # {} => key[b] < k),
         h.toggled = {} => h.observed \in {NoRead, Past(when, k)} /\ h.after \in {NoRead, Past(when, k)},
         h.toggled # {} => /\ h.toggled = {s \in db : when[s] = k}
                           /\ h.observed \in {NoRead, Past(when, k - 1)}
                           /\ h.after \in {NoRead, Past(when, k)},
         \A s \in h.toggled : fate[s] # "done",
         \A s \in Stmts : fate'[s] = "done" <=> fate[s] = "done" \/ s \in h.toggled
  PROVE  HistoryInv'
<1>0. PICK n : n = Cardinality(history)
  OBVIOUS
<1>1. db' = db /\ TypeOK /\ IsFiniteSet(history) /\ n \in Nat
  BY <1>0, FS_CardinalityType DEF Steps, DbApiInv, TypeOK
<1>2. h.id \in Ids /\ h.id[1] = c /\ IsFiniteSet(Finished(c)) /\ Cardinality(Finished(c)) \in Nat
  BY <1>1, FinishedCount
<1>3. PICK key2 \in [Ids -> Nat], rank2 \in [Ids -> Nat] :
          /\ key2[h.id] = k /\ rank2[h.id] = n
          /\ \A i \in Ids \ {h.id} : key2[i] = key[i] /\ rank2[i] = rank[i]
  <2>1. /\ [key EXCEPT ![h.id] = k] \in [Ids -> Nat]
        /\ [rank EXCEPT ![h.id] = n] \in [Ids -> Nat]
    BY <1>1
  <2> QED
    BY <1>2, <2>1
<1>4. \A g \in history : /\ g.id \in Ids /\ key[g.id] \in Nat /\ key[g.id] <= revision
                         /\ rank[g.id] \in Nat
  BY TimedFacts
<1>5. \A g \in history : g.id # h.id
  <2> SUFFICES ASSUME NEW g \in history, g.id = h.id PROVE FALSE
    OBVIOUS
  <2>1. g.id[2] <= Cardinality(Finished(g.id[1]))
    BY DEF Timed, Ordered
  <2> QED
    BY <1>2, <2>1
<1>6. \A g \in history : key2[g.id] = key[g.id] /\ rank2[g.id] = rank[g.id]
  BY <1>3, <1>4, <1>5
<1>7. Cardinality(history') = n + 1 /\ h \notin history
  BY <1>1, <1>5, <1>0, FS_AddElement
<1> DEFINE count(d) == Cardinality({g \in history' : g.id[1] = d})
<1>8. /\ \A d : d # c => count(d) = Cardinality(Finished(d))
      /\ count(c) = Cardinality(Finished(c)) + 1
  <2>1. \A d : d # c => {g \in history' : g.id[1] = d} = Finished(d)
    BY <1>2 DEF Finished
  <2>2. {g \in history' : g.id[1] = c} = Finished(c) \cup {h}
    BY <1>2 DEF Finished
  <2>3. h \notin Finished(c)
    BY <1>7 DEF Finished
  <2>4. Cardinality(Finished(c) \cup {h}) = Cardinality(Finished(c)) + 1
    BY <1>2, <2>3, FS_AddElement
  <2> QED
    BY <2>1, <2>2, <2>4
<1> HIDE DEF count
<1>9. Dated(when)'
  BY DatedStays DEF Timed
<1>10. Credited'
  BY DEF Timed, Credited
<1>11. ASSUME NEW g \in history PROVE Explained(g, when, key2)' /\ Ordered(g, key2, rank2)'
  <2>1. Explained(g, when, key) /\ Ordered(g, key, rank)
    BY DEF Timed
  <2>2. Explained(g, when, key2)'
    BY <1>1, <1>6, <2>1 DEF Explained, Past
  <2>3. g.id[2] <= count(g.id[1])
    <3>1. g.id[2] \in Nat
      BY <1>4 DEF Ids
    <3>2. g.id[2] <= Cardinality(Finished(g.id[1]))
      BY <2>1 DEF Ordered
    <3> QED
      BY <1>2, <1>8, <3>1, <3>2
  <2>4. \A b \in g.before : /\ key2[b] <= key2[g.id] /\ rank2[b] < rank2[g.id]
                            /\ g.toggled # {} => key2[b] < key2[g.id]
    <3>1. \A b \in g.before : key2[b] = key[b] /\ rank2[b] = rank[b]
      BY <1>6, <2>1 DEF Ordered
    <3> QED
      BY <1>6, <2>1, <3>1 DEF Ordered
  <2>5. g.toggled # {} /\ h.toggled # {} => key2[g.id] # key2[h.id]
    <3> SUFFICES ASSUME g.toggled # {}, h.toggled # {}, key[g.id] = k PROVE FALSE
      BY <1>3, <1>6
    <3>1. g.toggled = h.toggled
      BY <2>1 DEF Explained
    <3>2. PICK s \in Stmts : s \in h.toggled
      BY <1>1 DEF TypeOK
    <3> QED
      BY <3>1, <3>2 DEF Timed, Credited
  <2>6. Ordered(g, key2, rank2)'
    <3>1. rank2[g.id] < Cardinality(history')
      BY <1>1, <1>4, <1>6, <1>7, <1>0, <2>1 DEF Ordered
    <3>2. g.before \subseteq {f.id : f \in history'}
      BY <2>1 DEF Ordered
    <3>3. \A f \in history' :
             /\ f.id = g.id => f = g
             /\ f.toggled # {} /\ g.toggled # {} /\ key2[f.id] = key2[g.id] => f = g
      <4>1. \A f \in history : key2[f.id] = key2[g.id] <=> key[f.id] = key[g.id]
        BY <1>6
      <4> QED
        BY <1>5, <2>1, <2>5, <4>1 DEF Ordered
    <3> QED
      BY <2>3, <2>4, <3>1, <3>2, <3>3 DEF Ordered, Finished, count
  <2> QED
    BY <2>2, <2>6
<1>12. Explained(h, when, key2)'
  BY <1>1, <1>3 DEF Explained, Past
<1>13. Ordered(h, key2, rank2)'
  <2>1. h.id[2] <= count(h.id[1])
    <3>1. h.id[2] = Cardinality(Finished(c)) + 1
      BY <1>2
    <3> QED
      BY <1>2, <1>8, <3>1
  <2>2. rank2[h.id] < Cardinality(history')
    BY <1>1, <1>3, <1>7
  <2>3. \A b \in h.before : /\ key2[b] <= key2[h.id] /\ rank2[b] < rank2[h.id]
                            /\ h.toggled # {} => key2[b] < key2[h.id]
    <3>1. \A g \in history : rank[g.id] < n
      BY <1>0 DEF Timed, Ordered
    <3>2. \A b \in h.before : key2[b] = key[b] /\ rank2[b] = rank[b] /\ rank[b] < n
      BY <1>6, <3>1
    <3> QED
      BY <1>3, <3>2
  <2>4. \A f \in history' :
             /\ f.id = h.id => f = h
             /\ f.toggled # {} /\ h.toggled # {} /\ key2[f.id] = key2[h.id] => f = h
    <3>1. ASSUME NEW f \in history, f.toggled # {}, h.toggled # {} PROVE key2[f.id] # key2[h.id]
      <4> SUFFICES ASSUME key[f.id] = k PROVE FALSE
        BY <1>3, <1>6
      <4>1. f.toggled = h.toggled
        BY <3>1 DEF Timed, Explained
      <4>2. PICK s \in Stmts : s \in h.toggled
        BY <1>1, <3>1 DEF TypeOK
      <4> QED
        BY <4>1, <4>2 DEF Timed, Credited
    <3> QED
      BY <1>5, <3>1
  <2>5. h.before \subseteq {f.id : f \in history'}
    OBVIOUS
  <2> QED
    BY <2>1, <2>2, <2>3, <2>4, <2>5 DEF Ordered, Finished, count
<1>14. \A d \in Conns : Viewed(d, when, key2)'
  <2>1. Viewed(c, when, key2)'
    BY DEF Viewed
  <2>2. ASSUME NEW d \in Conns \ {c} PROVE Viewed(d, when, key2)'
    BY <1>6, ViewedElsewhere DEF Timed
  <2> QED
    BY <2>1, <2>2
<1>15. Timed(when, key2, rank2)'
  BY <1>9, <1>10, <1>11, <1>12, <1>13, <1>14 DEF Timed
<1> QED
  BY <1>3, <1>15 DEF HistoryInv

-----------------------------------------------------------------------------
(***************************************************************************)
(* The steps of the service and the history.                               *)
(***************************************************************************)
\* Initially there is no history.
LEMMA InitHistory == Init => HistoryInv
<1> SUFFICES ASSUME Init PROVE HistoryInv
  OBVIOUS
<1>1. PICK when \in [Stmts -> Nat] : TRUE
  <2>1. [s \in Stmts |-> 0] \in [Stmts -> Nat]
    OBVIOUS
  <2> QED
    BY <2>1
<1>2. PICK key \in [Ids -> Nat] : TRUE
  <2>1. [i \in Ids |-> 0] \in [Ids -> Nat]
    OBVIOUS
  <2> QED
    BY <2>1
<1>3. /\ db = {} /\ requests = {} /\ history = {} /\ fate = [s \in Stmts |-> "new"]
      /\ \A c \in Conns : op[c] = None
  BY DEF Init
<1>4. Dated(when) /\ Credited /\ \A c \in Conns : Viewed(c, when, key)
  BY <1>3 DEF Dated, Credited, Viewed
<1>5. Timed(when, key, key)
  BY <1>3, <1>4 DEF Timed
<1> QED
  BY <1>5 DEF HistoryInv

\* The variables that the service does not change.
LEMMA Unserved ==
  ASSUME UNCHANGED <<native, dbapi, call, app>>
  PROVE  /\ UNCHANGED <<session, sequence, pending, session_epoch, version, statements>>
         /\ UNCHANGED <<savepoints, failed, call, created, frames, fate, op, history>>
         /\ \A c : Seen(c)' = Seen(c) /\ Finished(c)' = Finished(c)
<1>1. /\ UNCHANGED <<session, sequence, pending, session_epoch, version, statements>>
      /\ UNCHANGED <<savepoints, failed, call, created, frames, fate, op, history>>
  BY DEF native, dbapi, app
<1> QED
  BY <1>1 DEF Seen, Executing, Finished

\* Nothing becomes active.
LEMMA HistoryStays ==
  ASSUME DbApiInv, HistoryInv, UNCHANGED <<native, dbapi, call, app>>, requests' = requests,
         db' = db, revision' \in Nat, revision' >= revision
  PROVE  HistoryInv'
<1>1. PICK when \in [Stmts -> Nat], key \in [Ids -> Nat], rank \in [Ids -> Nat] :
          Timed(when, key, rank)
  BY DEF HistoryInv
<1>2. /\ UNCHANGED <<pending, version, failed, fate, op, history>>
      /\ \A c : Seen(c)' = Seen(c) /\ Finished(c)' = Finished(c)
  BY Unserved
<1>3. /\ revision \in Nat /\ \A s \in db : when[s] \in Nat
      /\ \A h \in history : key[h.id] \in Nat
  BY <1>1, TimedFacts
<1>4. \A v : Past(when, v)' = Past(when, v)
  BY DEF Past
<1>5. Dated(when)' /\ Credited'
  <2>1. \A s \in db : when[s] <= revision'
    BY <1>1, <1>3 DEF Timed, Dated
  <2> QED
    BY <1>1, <1>2, <2>1 DEF Timed, Dated, Credited
<1>6. ASSUME NEW h \in history PROVE Explained(h, when, key)' /\ Ordered(h, key, rank)'
  <2>1. Explained(h, when, key) /\ Ordered(h, key, rank)
    BY <1>1 DEF Timed
  <2>2. Explained(h, when, key)'
    BY <1>3, <2>1 DEF Explained, Past
  <2>3. Ordered(h, key, rank)'
    BY <1>2, <2>1 DEF Ordered, Finished
  <2> QED
    BY <2>2, <2>3
<1>7. ASSUME NEW c \in Conns PROVE Viewed(c, when, key)'
  <2>1. Viewed(c, when, key)
    BY <1>1 DEF Timed
  <2> QED
    BY <1>2, <1>4, <2>1 DEF Viewed
<1>8. Timed(when, key, rank)'
  BY <1>2, <1>5, <1>6, <1>7 DEF Timed
<1> QED
  BY <1>8 DEF HistoryInv

\* A body becomes active, at the next revision.
LEMMA HistoryGrows ==
  ASSUME DbApiInv, HistoryInv, UNCHANGED <<native, dbapi, call, app>>, requests' = requests,
         NEW p \in requests, Range(p.body) \cap db = {}, p.version \in {0, revision},
         db' = db \cup Range(p.body), revision' = revision + 1
  PROVE  HistoryInv'
<1>1. PICK when \in [Stmts -> Nat], key \in [Ids -> Nat], rank \in [Ids -> Nat] :
          Timed(when, key, rank)
  BY DEF HistoryInv
<1>2. /\ UNCHANGED <<pending, version, failed, fate, op, history>>
      /\ \A c : Seen(c)' = Seen(c) /\ Finished(c)' = Finished(c)
  BY Unserved
<1>3. /\ revision \in Nat /\ db \subseteq Stmts /\ Range(p.body) \subseteq Stmts
      /\ \A h \in history : key[h.id] \in Nat /\ key[h.id] <= revision
  BY <1>1, TimedFacts, RequestType DEF DbApiInv
<1>4. PICK new \in [Stmts -> Nat] :
          \A s \in Stmts : new[s] = IF s \in Range(p.body) THEN revision + 1 ELSE when[s]
  <2>1. [s \in Stmts |-> IF s \in Range(p.body) THEN revision + 1 ELSE when[s]] \in [Stmts -> Nat]
    BY <1>3
  <2> QED
    BY <2>1
<1>5. /\ \A s \in db : new[s] = when[s] /\ when[s] \in Nat /\ when[s] <= revision
      /\ \A s \in Range(p.body) : new[s] = revision + 1
  BY <1>1, <1>3, <1>4 DEF Timed, Dated
<1>6. \A v \in Int : v <= revision => /\ {s \in db' : new[s] <= v} = Past(when, v)
                                      /\ {s \in db' : new[s] = v} = {s \in db : when[s] = v}
  <2> SUFFICES ASSUME NEW v \in Int, v <= revision
               PROVE  /\ {s \in db' : new[s] <= v} = Past(when, v)
                      /\ {s \in db' : new[s] = v} = {s \in db : when[s] = v}
    OBVIOUS
  <2>1. \A s \in Range(p.body) : ~(new[s] <= v) /\ new[s] # v
    BY <1>3, <1>5
  <2> QED
    BY <1>5, <2>1 DEF Past
<1>7. Dated(new)'
  <2>1. \A s \in db' : new[s] <= revision'
    BY <1>3, <1>5
  <2>2. ASSUME NEW q \in requests, NEW s \in Range(q.body) \cap db'
        PROVE  /\ q.version # 0 => new[s] = q.version + 1
               /\ \A t \in Range(q.body) : t \in db' /\ new[t] = new[s]
    <3>1. CASE s \in Range(p.body)
      <4>1. q = p
        BY <2>2, <3>1 DEF DbApiInv, Apart
      <4> QED
        BY <1>5, <3>1, <4>1
    <3>2. CASE s \notin Range(p.body)
      <4>1. s \in Range(q.body) \cap db
        BY <2>2, <3>2
      <4>2. /\ q.version # 0 => when[s] = q.version + 1
            /\ \A t \in Range(q.body) : t \in db /\ when[t] = when[s]
        BY <1>1, <4>1 DEF Timed, Dated
      <4> QED
        BY <1>5, <4>1, <4>2
    <3> QED
      BY <3>1, <3>2
  <2>3. ASSUME NEW s \in db', NEW t \in db', new[s] = new[t]
        PROVE  \E q \in requests : s \in Range(q.body) /\ t \in Range(q.body)
    <3>1. CASE s \in db /\ t \in db
      BY <1>1, <1>5, <2>3, <3>1 DEF Timed, Dated
    <3>2. CASE s \in Range(p.body) /\ t \in Range(p.body)
      BY <3>2
    <3>3. CASE s \in db /\ t \in Range(p.body)
      BY <1>3, <1>5, <2>3, <3>3
    <3>4. CASE t \in db /\ s \in Range(p.body)
      BY <1>3, <1>5, <2>3, <3>4
    <3> QED
      BY <3>1, <3>2, <3>3, <3>4
  <2> QED
    BY <2>1, <2>2, <2>3 DEF Dated
<1>8. Credited'
  BY <1>1, <1>2 DEF Timed, Credited
<1>9. ASSUME NEW h \in history PROVE Explained(h, new, key)' /\ Ordered(h, key, rank)'
  <2>1. Explained(h, when, key) /\ Ordered(h, key, rank)
    BY <1>1 DEF Timed
  <2>2. key[h.id] \in Int /\ key[h.id] - 1 \in Int /\ key[h.id] <= revision /\ key[h.id] - 1 <= revision
        /\ key[h.id] <= revision'
    BY <1>3
  <2>3. /\ {s \in db' : new[s] <= key[h.id]} = Past(when, key[h.id])
        /\ {s \in db' : new[s] <= key[h.id] - 1} = Past(when, key[h.id] - 1)
        /\ {s \in db' : new[s] = key[h.id]} = {s \in db : when[s] = key[h.id]}
    BY <1>6, <2>2
  <2>4. Explained(h, new, key)'
    <3>1. /\ Past(new, key[h.id])' = Past(when, key[h.id])
          /\ Past(new, key[h.id] - 1)' = Past(when, key[h.id] - 1)
      BY <2>3 DEF Past
    <3> QED
      BY <2>1, <2>2, <2>3, <3>1 DEF Explained
  <2>5. Ordered(h, key, rank)'
    BY <1>2, <2>1 DEF Ordered, Finished
  <2> QED
    BY <2>4, <2>5
<1>10. ASSUME NEW c \in Conns PROVE Viewed(c, new, key)'
  <2> SUFFICES ASSUME op[c] # None PROVE Viewed(c, new, key)'
    BY <1>2 DEF Viewed
  <2>1. Viewed(c, when, key) /\ op[c].before \subseteq {h.id : h \in history}
    BY <1>1 DEF Timed, Viewed
  <2>2. version[c] \in Int /\ version[c] <= revision
    BY <1>3 DEF DbApiInv, TypeOK
  <2>3. pending[c] # None => pending[c] \in requests /\ pending[c].version \in Int
                             /\ pending[c].version <= revision
    <3>1. TypeOK /\ (pending[c] # None => pending[c] \in requests)
      BY DEF DbApiInv, TypeOK
    <3>2. \A q \in requests : q.version \in Nat /\ q.version <= revision
      BY <3>1, RequestType DEF TypeOK
    <3> QED
      BY <3>1, <3>2
  <2>4. Past(new, version[c])' = Past(when, version[c])
    BY <1>2, <1>6, <2>2 DEF Past
  <2>5. pending[c] # None => Past(new, pending[c].version)' = Past(when, pending[c].version)
    BY <1>2, <1>6, <2>3 DEF Past
  <2>6. pending[c] # None => \A s \in Range(pending[c].body) \cap db' : \A b \in op[c].before :
                                 key[b] < new[s]
    <3> SUFFICES ASSUME pending[c] # None, NEW s \in Range(pending[c].body) \cap db',
                        NEW b \in op[c].before
                 PROVE  key[b] < new[s]
      OBVIOUS
    <3>1. key[b] \in Nat /\ key[b] <= revision
      BY <1>3, <2>1
    <3>2. CASE s \in db
      BY <1>5, <2>1, <3>2 DEF Viewed
    <3>3. CASE s \in Range(p.body)
      BY <1>3, <1>5, <3>1, <3>3
    <3> QED
      BY <3>2, <3>3
  <2> QED
    BY <1>2, <2>1, <2>4, <2>5, <2>6 DEF Viewed
<1>11. Timed(new, key, rank)'
  BY <1>2, <1>7, <1>8, <1>9, <1>10 DEF Timed
<1> QED
  BY <1>11 DEF HistoryInv

\* The steps of the service.
LEMMA ServiceHistory ==
  ASSUME DbApiInv, HistoryInv, (\E p \in requests : Apply(p)) \/ retire_sessions
  PROVE  HistoryInv'
<1>1. revision \in Nat
  BY DEF DbApiInv, TypeOK
<1>2. CASE retire_sessions
  <2>1. /\ UNCHANGED <<native, dbapi, call, app>> /\ requests' = requests
        /\ db' = db /\ revision' = revision + 1
    BY <1>2 DEF retire_sessions
  <2>2. revision' \in Nat /\ revision' >= revision
    BY <1>1, <2>1
  <2> QED
    BY <2>1, <2>2, HistoryStays
<1>3. ASSUME NEW p \in requests, Apply(p) PROVE HistoryInv'
  <2>1. UNCHANGED <<native, dbapi, call, app>> /\ requests' = requests
    BY <1>3 DEF Apply
  <2>2. /\ Range(p.body) \cap db = {}
        /\ p.version \notin {0, revision} => db' = db
        /\ p.version \in {0, revision} => db' = db \cup Range(p.body)
    BY <1>3, ApplyRuns
  <2>3. CASE p.version \notin {0, revision}
    <3>1. revision' = revision /\ db' = db
      BY <1>3, <2>2, <2>3 DEF Apply
    <3>2. revision' \in Nat /\ revision' >= revision
      BY <1>1, <3>1
    <3> QED
      BY <2>1, <3>1, <3>2, HistoryStays
  <2>4. CASE p.version \in {0, revision}
    <3>1. revision' = revision + 1
      BY <1>3, <2>4 DEF Apply
    <3> QED
      BY <2>1, <2>2, <2>4, <3>1, HistoryGrows
  <2> QED
    BY <2>3, <2>4
<1> QED
  BY <1>2, <1>3

-----------------------------------------------------------------------------
(***************************************************************************)
(* The calls of an application and the history.                            *)
(***************************************************************************)
\* No write is known to be committed by these verdicts.
LEMMA SettleQuiet ==
  ASSUME TypeOK, NEW some, NEW verdict \in {"open", "gone"}, Settle(some, verdict)
  PROVE  \A s \in Stmts : fate'[s] = "done" <=> fate[s] = "done"
<1>1. fate \in [Stmts -> {"new", "open", "done", "gone"}]
  BY DEF TypeOK
<1>2. \A s \in Stmts : fate'[s] = fate[s] \/ (fate[s] \in {"new", "open"} /\ fate'[s] = verdict)
  BY <1>1, Settled
<1> QED
  BY <1>2

\* The operation is over, or goes on as before, or its transaction is aborted.
LEMMA StayHistory ==
  ASSUME DbApiInv, HistoryInv, NEW c \in Conns, TypeOK' /\ Local(c)' /\ Steps(c), Quiet,
         \/ op'[c] = None
         \/ /\ op'[c] = op[c] /\ pending'[c] = pending[c]
            /\ pending[c] = None /\ ~failed'[c] =>
                 ~failed[c] /\ version'[c] = version[c] /\ Seen(c)' = Seen(c)
  PROVE  HistoryInv'
<1>1. PICK when \in [Stmts -> Nat], key \in [Ids -> Nat], rank \in [Ids -> Nat] :
          Timed(when, key, rank)
  BY DEF HistoryInv
<1>2. db' = db /\ history' = history /\ \A v : Past(when, v)' = Past(when, v)
  BY DEF Steps, Quiet, Past
<1>3. Viewed(c, when, key)'
  <2>1. CASE op'[c] = None
    BY <2>1 DEF Viewed
  <2>2. CASE op'[c] # None
    <3>1. Viewed(c, when, key)
      BY <1>1 DEF Timed
    <3> QED
      BY <1>2, <2>2, <3>1 DEF Viewed
  <2> QED
    BY <2>1, <2>2
<1> QED
  BY <1>1, <1>3, TimedStep

\* A new operation begins at this revision.
LEMMA StartHistory ==
  ASSUME DbApiInv, HistoryInv, NEW c \in Conns, TypeOK' /\ Local(c)' /\ Steps(c), Quiet,
         pending'[c] = None, op[c] = None, StartOp(c), version'[c] = revision
  PROVE  HistoryInv'
<1>1. PICK when \in [Stmts -> Nat], key \in [Ids -> Nat], rank \in [Ids -> Nat] :
          Timed(when, key, rank)
  BY DEF HistoryInv
<1>2. db' = db /\ history' = history
  BY DEF Steps, Quiet
<1>3. /\ op'[c].before = {h.id : h \in history}
      /\ op'[c].observed = NoRead /\ op'[c].after = NoRead
  <2>1. op \in [Conns -> Operations \cup {None}]
    BY DEF DbApiInv, TypeOK
  <2> QED
    BY <2>1 DEF StartOp, NoOp
<1>4. \A h \in history : key[h.id] \in Nat /\ key[h.id] <= revision
  BY <1>1, TimedFacts
<1>5. Viewed(c, when, key)'
  BY <1>2, <1>3, <1>4 DEF Viewed
<1> QED
  BY <1>1, <1>5, TimedStep

\* The first call of a transaction, or a later one.
LEMMA ExecuteHistory ==
  ASSUME DbApiInv, HistoryInv, NEW c \in Conns,
         \/ \E kind \in {"query", "write", "many"} : Execute(c, kind)
         \/ \E name \in Names : savepoint(c, name)
  PROVE  HistoryInv'
<1>1. TypeOK' /\ Local(c)' /\ Steps(c)
  BY ExecuteKeeps, SavepointKeeps
<1>2. /\ call[c] = None /\ pending[c] = None /\ ~failed[c] /\ _begin(c) /\ StartOp(c)
      /\ revision' = revision /\ history' = history /\ fate' = fate /\ failed' = failed
      /\ pending' = pending /\ statements' = statements
  BY DEF Execute, savepoint, Idle, _ready, service
<1>3. Quiet
  BY <1>2 DEF Quiet
<1>4. /\ TypeOK /\ Operating(c)
  BY Unfold
<1>5. /\ version[c] # 0 => version'[c] = version[c]
      /\ version[c] = 0 => version'[c] = revision
  BY <1>2, <1>4, BeginType
<1>6. CASE op[c] = None
  <2>1. version[c] = 0
    BY <1>2, <1>4, <1>6 DEF Operating
  <2> QED
    BY <1>1, <1>2, <1>3, <1>5, <1>6, <2>1, StartHistory
<1>7. CASE op[c] # None
  <2>1. version'[c] = version[c] /\ op' = op
    BY <1>2, <1>4, <1>5, <1>7 DEF Operating, StartOp
  <2>2. Seen(c)' = Seen(c)
    <3>1. Seen(c) = statements[c]
      BY <1>2 DEF Seen, Executing
    <3>2. CASE \E kind \in {"query", "write", "many"} : Execute(c, kind)
      <4>1. PICK kind \in {"query", "write", "many"} : Execute(c, kind)
        BY <3>2
      <4>2. PICK left : call' = [call EXCEPT ![c] = [kind |-> kind, left |-> left,
                                                     before |-> statements[c], nest |-> frames[c]]]
        BY <4>1 DEF Execute
      <4>3. call \in [Conns -> Calls \cup {None}]
        BY <1>4 DEF TypeOK
      <4>4. call'[c].before = statements[c]
        BY <4>2, <4>3
      <4> QED
        BY <1>2, <3>1, <4>4 DEF Seen
    <3>3. CASE \E name \in Names : savepoint(c, name)
      <4>1. call' = call
        BY <3>3 DEF savepoint
      <4> QED
        BY <1>2, <4>1 DEF Seen, Executing
    <3> QED
      BY <3>2, <3>3
  <2> QED
    BY <1>1, <1>2, <1>3, <2>1, <2>2, StayHistory
<1> QED
  BY <1>6, <1>7

\* A failed begin, a setting, a released savepoint, the same request once more.
LEMMA SteadyHistory ==
  ASSUME DbApiInv, HistoryInv, NEW c \in Conns,
         \/ BeginFails(c) \/ SetAutocommit(c) \/ resolve_pending(c)
         \/ \E name \in Names : release_savepoint(c, name)
  PROVE  HistoryInv'
<1>1. TypeOK' /\ Local(c)' /\ Steps(c)
  BY QueryKeeps, ReleaseSavepointKeeps, ResolvePendingKeeps
<1>2. /\ revision' = revision /\ history' = history /\ fate' = fate /\ op' = op
  BY DEF BeginFails, SetAutocommit, resolve_pending, release_savepoint, service, app
<1>3. Quiet
  BY <1>2 DEF Quiet
<1>4. TypeOK
  BY Unfold
<1>5. CASE BeginFails(c)
  <2>1. pending' = pending /\ failed'[c]
    BY <1>4, <1>5 DEF BeginFails, native, TypeOK
  <2> QED
    BY <1>1, <1>2, <1>3, <2>1, StayHistory
<1>6. CASE SetAutocommit(c) \/ \E name \in Names : release_savepoint(c, name)
  <2>1. UNCHANGED <<pending, failed, version, statements, call>>
    BY <1>6 DEF SetAutocommit, release_savepoint, native
  <2>2. Seen(c)' = Seen(c)
    BY <2>1 DEF Seen, Executing
  <2> QED
    BY <1>1, <1>2, <1>3, <2>1, <2>2, StayHistory
<1>7. CASE resolve_pending(c)
  <2>1. pending[c] # None /\ pending'[c] = pending[c]
    BY <1>4, <1>7 DEF resolve_pending, _execute_prepared, TypeOK
  <2> QED
    BY <1>1, <1>2, <1>3, <2>1, StayHistory
<1> QED
  BY <1>5, <1>6, <1>7

\* A transaction that is given up, or not yet.
LEMMA AbandonHistory ==
  ASSUME DbApiInv, HistoryInv, NEW c \in Conns,
         rollback(c) \/ close(c) \/ \E keep \in BOOLEAN : Reconnect(c, keep)
  PROVE  HistoryInv'
<1>1. TypeOK' /\ Local(c)' /\ Steps(c)
  BY RollbackKeeps, CloseKeeps, ReconnectKeeps
<1>2. TypeOK
  BY Unfold
<1>3. \E some : Settle(some, "gone")
  BY DEF rollback, close, Reconnect
<1>4. revision' = revision /\ history' = history
  BY DEF rollback, close, Reconnect, service, AbandonOp
<1>5. Quiet
  BY <1>2, <1>3, <1>4, SettleQuiet DEF Quiet
<1>6. op'[c] = None \/ (op'[c] = op[c] /\ pending'[c] = pending[c] /\ pending[c] # None)
  <2>1. op \in [Conns -> Operations \cup {None}]
    BY <1>2 DEF TypeOK
  <2> QED
    BY <2>1 DEF rollback, close, Reconnect, native, AbandonOp
<1> QED
  BY <1>1, <1>5, <1>6, StayHistory

\* A call that raises.
LEMMA RaiseHistory ==
  ASSUME DbApiInv, HistoryInv, NEW c \in Conns, NEW fails \in BOOLEAN, Executing(c), Raise(c, fails)
  PROVE  HistoryInv'
<1>1. TypeOK' /\ Local(c)' /\ Steps(c)
  BY RaiseKeeps
<1>2. TypeOK /\ Previewing(c)
  BY Unfold
<1>3. \E some : Settle(some, "gone")
  BY DEF Raise
<1>4. revision' = revision /\ history' = history /\ pending' = pending /\ call'[c] = None
  BY <1>2 DEF Raise, service, native, AbandonOp, TypeOK
<1>5. Quiet
  BY <1>2, <1>3, <1>4, SettleQuiet DEF Quiet
<1>6. CASE autocommit[c]
  <2>1. op'[c] = None
    BY <1>2, <1>6 DEF Raise, AbandonOp, TypeOK
  <2> QED
    BY <1>1, <1>5, <2>1, StayHistory
<1>7. CASE ~autocommit[c]
  <2>1. op' = op /\ version' = version /\ statements'[c] = call[c].before
    <3>1. /\ op' = op /\ version' = version
          /\ statements' = [statements EXCEPT ![c] = IF call[c].kind = "many" THEN call[c].before ELSE @]
      BY <1>7 DEF Raise
    <3>2. statements \in [Conns -> Seq(Stmts)]
      BY <1>2 DEF TypeOK
    <3> QED
      BY <1>2, <3>1, <3>2 DEF Previewing
  <2>2. Seen(c)' = Seen(c)
    BY <1>4, <2>1 DEF Seen, Executing
  <2>3. ~failed[c]
    BY <1>2 DEF Previewing
  <2> QED
    BY <1>1, <1>4, <1>5, <2>1, <2>2, <2>3, StayHistory
<1> QED
  BY <1>6, <1>7

\* What an operation has read.
LEMMA ReadValue ==
  ASSUME TypeOK, NEW c \in Conns, op[c] # None, NEW x
  PROVE  /\ op' = [op EXCEPT ![c].after = x] =>
              /\ op'[c].after = x /\ op'[c].observed = op[c].observed /\ op'[c].before = op[c].before
         /\ op' = [op EXCEPT ![c].observed = x] =>
              /\ op'[c].observed = x /\ op'[c].after = op[c].after /\ op'[c].before = op[c].before
<1>1. op \in [Conns -> Operations \cup {None}] /\ op[c] \in Operations
  BY DEF TypeOK
<1>2. \A o \in Operations :
        /\ [o EXCEPT !.after = x].after = x /\ [o EXCEPT !.after = x].observed = o.observed
        /\ [o EXCEPT !.after = x].before = o.before
        /\ [o EXCEPT !.observed = x].observed = x /\ [o EXCEPT !.observed = x].after = o.after
        /\ [o EXCEPT !.observed = x].before = o.before
  BY DEF Operations
<1>3. /\ [op EXCEPT ![c].after = x][c] = [op[c] EXCEPT !.after = x]
      /\ [op EXCEPT ![c].observed = x][c] = [op[c] EXCEPT !.observed = x]
  BY <1>1
<1> QED
  BY <1>1, <1>2, <1>3

\* ROLLBACK TO forgets what was read.
LEMMA RollbackSavepointHistory ==
  ASSUME DbApiInv, HistoryInv, NEW c \in Conns, NEW name \in Names, rollback_savepoint(c, name)
  PROVE  HistoryInv'
<1>1. TypeOK' /\ Local(c)' /\ Steps(c)
  BY RollbackSavepointKeeps
<1>2. PICK when \in [Stmts -> Nat], key \in [Ids -> Nat], rank \in [Ids -> Nat] :
          Timed(when, key, rank)
  BY DEF HistoryInv
<1>3. /\ pending[c] = None /\ ~failed[c] /\ Marks(savepoints[c], name)
      /\ op' = [op EXCEPT ![c].after = NoRead]
      /\ UNCHANGED <<db, revision, pending, version, failed, history>>
      /\ \E some : Settle(some, "gone")
  BY DEF rollback_savepoint, _ready, service, native
<1>4. TypeOK /\ op[c] # None /\ version[c] # 0
  BY <1>3, Unfold, MarksExist, InProgress
<1>5. Quiet
  BY <1>3, <1>4, SettleQuiet DEF Quiet
<1>6. /\ op'[c].after = NoRead /\ op'[c].observed = op[c].observed
      /\ op'[c].before = op[c].before
  BY <1>3, <1>4, ReadValue
<1>7. Viewed(c, when, key)'
  <2>1. Viewed(c, when, key)
    BY <1>2 DEF Timed
  <2>2. \A v : Past(when, v)' = Past(when, v)
    BY <1>3 DEF Past
  <2> QED
    BY <1>3, <1>4, <1>6, <2>1, <2>2 DEF Viewed
<1> QED
  BY <1>1, <1>2, <1>5, <1>7, TimedStep

\* A transaction that is submitted.
LEMMA ViewedSubmit ==
  ASSUME NEW c \in Conns, NEW when, NEW key, Viewed(c, when, key),
         op[c] # None, pending[c] = None, ~failed[c], version[c] # 0,
         op'[c].before = op[c].before, op'[c].observed = op[c].observed,
         NEW w, pending'[c] = w, w # None, w.version = version[c],
         op'[c].after \in {NoRead, Past(when, version[c]) \cup Range(w.body)},
         Range(w.body) \cap db = {}, db' = db, history' = history
  PROVE  Viewed(c, when, key)'
<1>1. \A v : Past(when, v)' = Past(when, v)
  BY DEF Past
<1> QED
  BY <1>1 DEF Viewed

\* What a transaction would submit has not been run.
LEMMA OpenNotRun ==
  ASSUME DbApiInv, NEW c \in Conns, pending[c] = None, NEW some \in SUBSET Stmts,
         \A s \in some : fate[s] = "new" \/ (s \in Range(statements[c]) /\ fate[s] = "open")
  PROVE  some \cap db = {}
BY Unsent

\* A preview that succeeds saw the state at the revision of the transaction.
LEMMA PreviewedHistory ==
  ASSUME DbApiInv, HistoryInv, NEW c \in Conns, Previewed(c)
  PROVE  HistoryInv'
<1>1. TypeOK' /\ Local(c)' /\ Steps(c)
  BY PreviewedKeeps
<1>2. PICK when \in [Stmts -> Nat], key \in [Ids -> Nat], rank \in [Ids -> Nat] :
          Timed(when, key, rank)
  BY DEF HistoryInv
<1>3. /\ TypeOK /\ Previewing(c) /\ Executing(c) /\ version[c] = revision
      /\ UNCHANGED <<db, revision, version, failed, history>>
      /\ Settle(Range(New(c)), "open")
  BY Unfold DEF Previewed
<1>4. Quiet
  BY <1>3, SettleQuiet DEF Quiet
<1>5. pending[c] = None /\ ~failed[c] /\ version[c] # 0
  BY <1>3 DEF Previewing
<1>6. PICK list : list = statements[c] \o New(c)
  OBVIOUS
<1>7. /\ list \in Seq(Stmts) /\ Distinct(list) /\ statements'[c] = list /\ op[c] # None
      /\ \A s \in Range(list) : s \in Stmts
      /\ \A s \in Range(list) : fate[s] = "new" \/ (s \in Range(statements[c]) /\ fate[s] = "open")
  <2>1. PreviewedEffect(c, list)
    BY <1>6, PreviewedWork, Zenon
  <2> QED
    BY <2>1 DEF PreviewedEffect
<1>8. Range(list) \cap db = {}
  BY <1>5, <1>7, OpenNotRun
<1>9. After(db, list) = db \cup Range(list) /\ Past(when, version[c]) = db
  <2>1. Past(when, version[c]) = db
    BY <1>2, <1>3, TimedFacts
  <2> QED
    BY <1>7, <1>8, <2>1, AfterDistinct
<1>10. Viewed(c, when, key) /\ \A v : Past(when, v)' = Past(when, v)
  BY <1>2, <1>3 DEF Timed, Past
<1>11. CASE call[c].kind = "query"
  <2>1. call[c].left <= 1 /\ call[c].before = statements[c] /\ list = statements[c]
    <3>1. New(c) = <<>> /\ statements[c] \in Seq(Stmts)
      BY <1>3, <1>11, NewStatement, Unfold
    <3>2. \A x \in Seq(Stmts) : x \o <<>> = x
      OBVIOUS
    <3>3. list = statements[c]
      BY <1>6, <3>1, <3>2, Zenon
    <3> QED
      BY <1>3, <1>11, <3>3 DEF Previewing
  <2>2. call'[c] = None /\ pending' = pending
    BY <1>3, <1>11, <2>1 DEF Previewed, TypeOK
  <2>3. Seen(c) = list
    BY <1>3, <2>1 DEF Seen
  <2>4. Seen(c)' = list
    BY <1>7, <2>2 DEF Seen, Executing
  <2>5. \/ op' = [op EXCEPT ![c].observed = After(db, list)] /\ list = <<>>
        \/ op' = [op EXCEPT ![c].after = After(db, list)]
    <3>1. op' = IF list = <<>> /\ op[c].observed = NoRead
                THEN [op EXCEPT ![c].observed = After(db, list)]
                ELSE [op EXCEPT ![c].after = After(db, list)]
      BY <1>6, <1>11 DEF Previewed
    <3> QED
      BY <3>1
  <2>6. CASE op' = [op EXCEPT ![c].observed = After(db, list)] /\ list = <<>>
    <3>1. After(db, list) = db
      BY <1>9, <2>6, RangeSmall
    <3>2. /\ op'[c].observed = db /\ op'[c].after = op[c].after
          /\ op'[c].before = op[c].before
      BY <1>3, <1>7, <2>6, <3>1, ReadValue
    <3> QED
      <4>1. Viewed(c, when, key)'
        BY <1>3, <1>5, <1>7, <1>9, <1>10, <2>2, <2>3, <2>4, <3>2 DEF Viewed
      <4> QED
        BY <1>1, <1>2, <1>4, <4>1, TimedStep
  <2>7. CASE op' = [op EXCEPT ![c].after = After(db, list)]
    <3>1. /\ op'[c].after = db \cup Range(list) /\ op'[c].observed = op[c].observed
          /\ op'[c].before = op[c].before
      BY <1>3, <1>7, <1>9, <2>7, ReadValue
    <3>2. Viewed(c, when, key)'
      BY <1>3, <1>5, <1>7, <1>9, <1>10, <2>2, <2>3, <2>4, <3>1 DEF Viewed
    <3> QED
      BY <1>1, <1>2, <1>4, <3>2, TimedStep
  <2> QED
    BY <2>5, <2>6, <2>7
<1>12. CASE call[c].kind # "query"
  <2>1. op' = [op EXCEPT ![c].after = NoRead]
    BY <1>12 DEF Previewed
  <2>2. /\ op'[c].after = NoRead /\ op'[c].observed = op[c].observed
        /\ op'[c].before = op[c].before
    BY <1>3, <1>7, <2>1, ReadValue
  <2>3. \/ pending' = pending
        \/ pending' = [pending EXCEPT ![c] = Write(c, list, version[c])]
    <3>1. \/ pending' = pending
          \/ \E kind : _execute_prepared(c, Write(c, list, version[c]), kind)
      BY <1>6 DEF Previewed
    <3> QED
      BY <3>1 DEF _execute_prepared
  <2>4. CASE pending' = pending
    <3>1. Viewed(c, when, key)'
      BY <1>3, <1>5, <1>7, <1>10, <2>2, <2>4 DEF Viewed
    <3> QED
      BY <1>1, <1>2, <1>4, <3>1, TimedStep
  <2>5. CASE pending' = [pending EXCEPT ![c] = Write(c, list, version[c])]
    <3>1. PICK w : w = Write(c, list, version[c])
      OBVIOUS
    <3>2. w.version = version[c] /\ w.body = list
      BY <3>1 DEF Write
    <3>3. pending'[c] = w
      BY <1>3, <2>5, <3>1 DEF TypeOK
    <3>4. w # None
      <4>1. session_epoch[c] \in 0..epoch /\ version[c] \in 0..revision
        BY <1>5, Unfold DEF Begun
      <4>2. w = [Write(c, list, version[c]) EXCEPT !.epoch = session_epoch[c]]
        BY <3>1 DEF Write
      <4> QED
        BY <1>7, <4>1, <4>2, WriteType
    <3>5. Viewed(c, when, key)'
      BY <1>3, <1>5, <1>7, <1>8, <1>10, <2>2, <3>2, <3>3, <3>4, ViewedSubmit
    <3> QED
      BY <1>1, <1>2, <1>4, <3>5, TimedStep
  <2> QED
    BY <2>3, <2>4, <2>5
<1> QED
  BY <1>11, <1>12

\* The operation that ends.
LEMMA EndValue ==
  ASSUME TypeOK, NEW c \in Conns, NEW list, EndOp(c, list)
  PROVE  /\ op'[c] = None
         /\ \E h : /\ history' = history \cup {h} /\ h.id = <<c, Cardinality(Finished(c)) + 1>>
                   /\ h.toggled = Range(list)
                   /\ op[c] = None => h.before = {} /\ h.observed = NoRead /\ h.after = NoRead
                   /\ op[c] # None => /\ h.before = op[c].before /\ h.observed = op[c].observed
                                      /\ h.after = op[c].after
<1> DEFINE o == IF op[c] = None THEN NoOp ELSE op[c]
           h == [id |-> <<c, Cardinality(Finished(c)) + 1>>, before |-> o.before,
                 observed |-> o.observed, after |-> o.after, toggled |-> Range(list)]
<1>1. history' = history \cup {h} /\ op' = [op EXCEPT ![c] = None]
  BY DEF EndOp
<1>2. op'[c] = None
  BY <1>1 DEF TypeOK
<1>3. /\ op[c] = None => h.before = {} /\ h.observed = NoRead /\ h.after = NoRead
      /\ op[c] # None => /\ h.before = op[c].before /\ h.observed = op[c].observed
                         /\ h.after = op[c].after
  BY DEF NoOp
<1>4. h.id = <<c, Cardinality(Finished(c)) + 1>> /\ h.toggled = Range(list)
  OBVIOUS
<1> HIDE DEF h
<1> QED
  BY <1>1, <1>2, <1>3, <1>4

\* A write is not the absence of one.
LEMMA WriteIsOne ==
  ASSUME DbApiInv, NEW c \in Conns, NEW list \in Seq(Stmts), NEW ver \in 0..revision,
         NEW e \in 0..epoch
  PROVE  [Write(c, list, ver) EXCEPT !.epoch = e] # None
BY WriteType

\* A commit without a write is placed at the revision it began at, and one with
\* a write will be placed after it.
LEMMA CommitHistory ==
  ASSUME DbApiInv, HistoryInv, NEW c \in Conns, commit(c)
  PROVE  HistoryInv'
<1>1. TypeOK' /\ Local(c)' /\ Steps(c)
  BY CommitKeeps
<1>2. PICK when \in [Stmts -> Nat], key \in [Ids -> Nat], rank \in [Ids -> Nat] :
          Timed(when, key, rank)
  BY DEF HistoryInv
<1>3. /\ pending[c] = None /\ ~failed[c] /\ call[c] = None
      /\ db' = db /\ revision' = revision /\ fate' = fate
  BY DEF commit, Idle, _ready
<1>4. /\ TypeOK /\ Viewed(c, when, key) /\ Seen(c) = statements[c]
      /\ version[c] \in 0..revision /\ revision \in Nat
  BY <1>2, <1>3, Unfold DEF Timed, Seen, Executing
<1>5. CASE statements[c] = <<>> /\ op[c] = None
  <2>1. op' = op /\ history' = history
    BY <1>5 DEF commit
  <2> QED
    BY <1>1, <1>3, <1>5, <2>1, StayHistory DEF Quiet
<1>6. CASE statements[c] = <<>> /\ op[c] # None
  <2>1. EndOp(c, <<>>)
    BY <1>6 DEF commit
  <2>2. op'[c] = None
    BY <1>4, <2>1, EndValue
  <2>3. PICK h : /\ history' = history \cup {h} /\ h.id = <<c, Cardinality(Finished(c)) + 1>>
                 /\ h.toggled = Range(<<>>)
                 /\ h.before = op[c].before /\ h.observed = op[c].observed /\ h.after = op[c].after
    <3>1. PICK h : /\ history' = history \cup {h} /\ h.id = <<c, Cardinality(Finished(c)) + 1>>
                   /\ h.toggled = Range(<<>>)
                   /\ op[c] = None => h.before = {} /\ h.observed = NoRead /\ h.after = NoRead
                   /\ op[c] # None => /\ h.before = op[c].before /\ h.observed = op[c].observed
                                      /\ h.after = op[c].after
      BY <1>4, <2>1, EndValue, Zenon
    <3> QED
      BY <1>6, <3>1, Zenon
  <2>4. h.toggled = {}
    BY <2>3, RangeSmall
  <2>5. PICK k : k = version[c]
    OBVIOUS
  <2>6. k \in Nat /\ k <= revision
    BY <1>4, <2>5
  <2>7. /\ h.before \subseteq {g.id : g \in history} /\ \A b \in h.before : key[b] <= k
        /\ h.observed \in {NoRead, Past(when, k)} /\ h.after \in {NoRead, Past(when, k)}
    <3>1. Range(Seen(c)) = {}
      BY <1>4, <1>6, RangeSmall
    <3> QED
      BY <1>3, <1>4, <1>6, <2>3, <2>5, <3>1 DEF Viewed
  <2> QED
    BY <1>1, <1>2, <1>3, <2>2, <2>3, <2>4, <2>6, <2>7, TimedEnd
<1>7. CASE statements[c] # <<>>
  <2>1. PICK w : w = Write(c, statements[c], version[c])
    OBVIOUS
  <2>2. /\ op' = op /\ history' = history /\ pending' = [pending EXCEPT ![c] = w]
    BY <1>7, <2>1 DEF commit, _execute_prepared
  <2>3. /\ pending'[c] = w /\ w.version = version[c] /\ w.body = statements[c]
    BY <1>4, <2>1, <2>2 DEF TypeOK, Write
  <2>4. op[c] # None /\ version[c] # 0 /\ session_epoch[c] # -1
    BY <1>3, <1>7, InProgress
  <2>5. w # None
    <3>1. session_epoch[c] \in 0..epoch /\ statements[c] \in Seq(Stmts)
      BY <2>4, Unfold DEF Begun
    <3>2. w = [Write(c, statements[c], version[c]) EXCEPT !.epoch = session_epoch[c]]
      BY <2>1 DEF Write
    <3>3. [Write(c, statements[c], version[c]) EXCEPT !.epoch = session_epoch[c]] # None
      BY <1>4, <3>1, WriteIsOne, Zenon
    <3> QED
      BY <3>2, <3>3, Zenon
  <2>6. Range(w.body) \cap db = {}
    <3>1. Range(statements[c]) \subseteq Stmts /\ \A s \in Range(statements[c]) : fate[s] = "open"
      BY <1>3, Unfold DEF Nested
    <3> QED
      BY <1>3, <2>3, <3>1, OpenNotRun
  <2>7. op[c].after \in {NoRead, Past(when, version[c]) \cup Range(w.body)}
    BY <1>3, <1>4, <2>3, <2>4 DEF Viewed
  <2>8. Viewed(c, when, key)'
    BY <1>3, <1>4, <2>2, <2>3, <2>4, <2>5, <2>6, <2>7, ViewedSubmit
  <2>9. Quiet
    BY <1>3, <2>2 DEF Quiet
  <2> QED
    BY <1>1, <1>2, <2>8, <2>9, TimedStep
<1> QED
  BY <1>5, <1>6, <1>7

\* A batch will be placed after those that returned.
LEMMA BatchHistory ==
  ASSUME DbApiInv, HistoryInv, NEW c \in Conns, Batch(c)
  PROVE  HistoryInv'
<1>1. TypeOK' /\ Local(c)' /\ Steps(c)
  BY BatchKeeps
<1>2. PICK when \in [Stmts -> Nat], key \in [Ids -> Nat], rank \in [Ids -> Nat] :
          Timed(when, key, rank)
  BY DEF HistoryInv
<1>3. /\ op[c] = None /\ StartOp(c) /\ db' = db /\ revision' = revision /\ history' = history
      /\ created[c] + MAX_STATEMENTS <= MaxNew[c] /\ \E some : Settle(some, "open")
  BY DEF Batch
<1>4. TypeOK /\ op \in [Conns -> Operations \cup {None}] /\ pending \in [Conns -> requests \cup {None}]
  BY Unfold DEF TypeOK
<1>5. Quiet
  BY <1>3, <1>4, SettleQuiet DEF Quiet
<1>6. /\ op'[c].before = {h.id : h \in history}
      /\ op'[c].observed = NoRead /\ op'[c].after = NoRead
  BY <1>3, <1>4 DEF StartOp, NoOp
<1>7. PICK list : list = [i \in 1..MAX_STATEMENTS |-> <<c, created[c] + i>>]
  OBVIOUS
<1>8. Range(list) \cap db = {}
  <2>1. Unused(c, list)
    BY <1>3, <1>7, BatchStatements, Zenon
  <2> QED
    BY <2>1, Unsent DEF Unused
<1>9. PICK w : w = [Write(c, list, 0) EXCEPT !.epoch = session_epoch'[c]]
  OBVIOUS
<1>10. pending' = [pending EXCEPT ![c] = w]
  BY <1>7, <1>9 DEF Batch, _execute_prepared
<1>11. pending'[c] = w /\ w.version = 0 /\ w.body = list
  BY <1>4, <1>9, <1>10 DEF Write
<1>12. w # None
  <2>1. session_epoch'[c] \in 0..epoch
    <3>1. /\ session_epoch \in [Conns -> -1..MaxEpoch] /\ epoch \in Nat /\ session_epoch[c] <= epoch
      BY <1>4, Unfold DEF TypeOK, Begun
    <3> QED
      BY <3>1 DEF Batch
  <2>2. list \in Seq(Stmts) /\ 0 \in 0..revision
    <3>1. Unused(c, list)
      BY <1>3, <1>7, BatchStatements, Zenon
    <3> QED
      BY <3>1, Unfold DEF Unused
  <2>3. [Write(c, list, 0) EXCEPT !.epoch = session_epoch'[c]] # None
    BY <2>1, <2>2, WriteIsOne, Zenon
  <2> QED
    BY <1>9, <2>3, Zenon
<1>13. Viewed(c, when, key)'
  BY <1>3, <1>6, <1>8, <1>11, <1>12 DEF Viewed
<1> QED
  BY <1>1, <1>2, <1>5, <1>13, TimedStep

\* A query of its own is placed at the revision it reads.
LEMMA QueryHistory ==
  ASSUME DbApiInv, HistoryInv, NEW c \in Conns, QueryAutocommit(c)
  PROVE  HistoryInv'
<1>1. TypeOK' /\ Local(c)' /\ Steps(c)
  BY QueryKeeps
<1>2. PICK when \in [Stmts -> Nat], key \in [Ids -> Nat], rank \in [Ids -> Nat] :
          Timed(when, key, rank)
  BY DEF HistoryInv
<1>3. /\ op[c] = None /\ op' = op /\ db' = db /\ revision' = revision /\ fate' = fate
  BY DEF QueryAutocommit, service
<1>4. PICK h : h = [id |-> <<c, Cardinality(Finished(c)) + 1>>, before |-> {g.id : g \in history},
                    observed |-> db, after |-> NoRead, toggled |-> {}]
  OBVIOUS
<1>5. /\ history' = history \cup {h} /\ h.id = <<c, Cardinality(Finished(c)) + 1>>
      /\ h.before = {g.id : g \in history} /\ h.observed = db /\ h.after = NoRead /\ h.toggled = {}
  BY <1>4 DEF QueryAutocommit
<1>6. PICK k : k = revision
  OBVIOUS
<1>7. k \in Nat /\ k <= revision /\ Past(when, k) = db /\ \A b \in h.before : key[b] <= k
  BY <1>2, <1>5, <1>6, TimedFacts
<1> QED
  BY <1>1, <1>2, <1>3, <1>5, <1>7, TimedEnd

\* A call that leaves the outcome open.
LEMMA OpenHistory ==
  ASSUME DbApiInv, HistoryInv, NEW c \in Conns, Submitted(c), CommitRaises(c, TRUE),
         call' = [call EXCEPT ![c] = None],
         UNCHANGED <<service, native, autocommit, closed, created, fate, op, history>>
  PROVE  HistoryInv'
<1>1. TypeOK' /\ Local(c)' /\ Steps(c)
  BY OpenKeeps
<1>2. UNCHANGED <<revision, pending, fate, op, history>>
  BY DEF service, native
<1>3. pending[c] # None
  BY Unfold DEF Waiting
<1> QED
  BY <1>1, <1>2, <1>3, StayHistory DEF Quiet

\* A write that was applied is placed at the revision it made.
LEMMA AppliedHistory ==
  ASSUME DbApiInv, HistoryInv, NEW c \in Conns, TypeOK' /\ Local(c)' /\ Steps(c),
         revision' = revision, NEW p \in requests, p = pending[c], Range(p.body) \subseteq db,
         Settle(Range(p.body), "done"), EndOp(c, p.body)
  PROVE  HistoryInv'
<1>1. PICK when \in [Stmts -> Nat], key \in [Ids -> Nat], rank \in [Ids -> Nat] :
          Timed(when, key, rank)
  BY DEF HistoryInv
<1>2. /\ TypeOK /\ Sent(p) /\ Apart /\ Dated(when) /\ Viewed(c, when, key) /\ p # None
      /\ p.body \in Seq(Stmts) /\ p.version \in Nat /\ db \subseteq Stmts
  BY <1>1, RequestType DEF DbApiInv, Timed, TypeOK
<1>3. \A s \in Range(p.body) : fate[s] = "open"
  BY <1>2, Unfold DEF Waiting
<1>4. op'[c] = None
  BY <1>2, EndValue
<1>5. PICK h : /\ history' = history \cup {h} /\ h.id = <<c, Cardinality(Finished(c)) + 1>>
               /\ h.toggled = Range(p.body)
               /\ op[c] = None => h.before = {} /\ h.observed = NoRead /\ h.after = NoRead
               /\ op[c] # None => /\ h.before = op[c].before /\ h.observed = op[c].observed
                                  /\ h.after = op[c].after
  BY <1>2, EndValue, Zenon
<1>6. PICK s \in Range(p.body) : TRUE
  <2>1. p.body # <<>>
    BY <1>2 DEF Sent
  <2>2. \A x \in Seq(Stmts) : x # <<>> => 1 \in 1..Len(x)
    OBVIOUS
  <2> QED
    BY <1>2, <2>1, <2>2, RangeMembers
<1>7. PICK k : k = when[s]
  OBVIOUS
<1>8. s \in db /\ k \in Nat /\ k <= revision
  BY <1>2, <1>6, <1>7 DEF Dated
<1>9. Range(p.body) = {t \in db : when[t] = k}
  <2>1. ASSUME NEW t \in db, when[t] = k PROVE t \in Range(p.body)
    <3>1. PICK q \in requests : s \in Range(q.body) /\ t \in Range(q.body)
      BY <1>2, <1>7, <1>8, <2>1 DEF Dated
    <3>2. q = p
      BY <1>2, <1>6, <3>1 DEF Apart
    <3> QED
      BY <3>1, <3>2
  <2>2. \A t \in Range(p.body) : t \in db /\ when[t] = k
    <3>1. \E x \in Range(p.body) : x \in db /\ when[x] = k
      BY <1>6, <1>7, <1>8
    <3>2. \A x \in Range(p.body) : x \in db => \A t \in Range(p.body) : t \in db /\ when[t] = when[x]
      BY <1>2 DEF Dated
    <3> QED
      BY <3>1, <3>2
  <2> QED
    BY <2>1, <2>2
<1>10. h.toggled = {t \in db : when[t] = k} /\ h.toggled # {}
  BY <1>5, <1>6, <1>9
<1>11. Past(when, k - 1) \cup h.toggled = Past(when, k)
  BY <1>2, <1>8, <1>10, PastWrite, Zenon
<1>12. p.version # 0 => p.version = k - 1
  BY <1>2, <1>6, <1>7, <1>8 DEF Dated
<1>13. /\ h.before \subseteq {g.id : g \in history} /\ \A b \in h.before : key[b] < k
       /\ h.observed \in {NoRead, Past(when, k - 1)} /\ h.after \in {NoRead, Past(when, k)}
  <2>1. CASE op[c] = None
    BY <1>5, <2>1
  <2>2. CASE op[c] # None
    <3>1. /\ h.before = op[c].before /\ h.observed = op[c].observed /\ h.after = op[c].after
      BY <1>5, <2>2
    <3>2. h.before \subseteq {g.id : g \in history} /\ \A b \in h.before : key[b] < k
      BY <1>2, <1>6, <1>7, <1>8, <2>2, <3>1 DEF Viewed
    <3>3. CASE p.version = 0
      BY <1>2, <2>2, <3>1, <3>2, <3>3 DEF Viewed
    <3>4. CASE p.version # 0
      <4>1. /\ h.observed \in {NoRead, Past(when, p.version)}
            /\ h.after \in {NoRead, Past(when, p.version) \cup Range(p.body)}
        BY <1>2, <2>2, <3>1, <3>4 DEF Viewed
      <4> QED
        BY <1>5, <1>11, <1>12, <3>2, <3>4, <4>1
    <3> QED
      BY <3>3, <3>4
  <2> QED
    BY <2>1, <2>2
<1>14. \A b \in h.before : key[b] <= k /\ (h.toggled # {} => key[b] < k)
  <2>1. \A g \in history : key[g.id] \in Nat
    BY <1>1, TimedFacts
  <2> QED
    BY <1>8, <1>13, <2>1
<1>15. /\ \A t \in h.toggled : fate[t] # "done"
       /\ \A t \in Stmts : fate'[t] = "done" <=> fate[t] = "done" \/ t \in h.toggled
  <2>1. fate \in [Stmts -> {"new", "open", "done", "gone"}]
    BY <1>2 DEF TypeOK
  <2>2. /\ \A t \in Stmts : t \notin Range(p.body) => fate'[t] = fate[t]
        /\ \A t \in Stmts : t \in Range(p.body) /\ fate[t] \in {"new", "open"} => fate'[t] = "done"
    BY <2>1, Settled
  <2> QED
    BY <1>3, <1>5, <2>2
<1> QED
  BY <1>1, <1>4, <1>5, <1>8, <1>10, <1>13, <1>14, <1>15, TimedEnd

\* The answer to a pending write.
LEMMA ResolveHistory ==
  ASSUME DbApiInv, HistoryInv, NEW c \in Conns, _resolve(c)
  PROVE  HistoryInv'
<1>1. TypeOK' /\ Local(c)' /\ Steps(c)
  BY ResolveKeeps
<1>2. TypeOK /\ Waiting(c) /\ Submitted(c) /\ Served /\ pending[c] # None
  BY Unfold DEF _resolve, Waiting, DbApiInv
<1>3. PICK p \in requests : p = pending[c]
  BY <1>2 DEF TypeOK
<1>4. /\ call' = [call EXCEPT ![c] = None] /\ Code(p) # "None"
      /\ UNCHANGED <<service, session, session_epoch, autocommit, closed, created>>
      /\ revision' = revision
  BY <1>3 DEF _resolve, service
<1>5. rows[p.session].outcome \in {"None", "Applied", "Conflict"}
  BY <1>2, RequestType DEF TypeOK
<1>6. Code(p) \in {"Expired", "Applied", "Conflict"}
  BY <1>4, <1>5 DEF Code
<1>7. CASE Code(p) = "Expired"
  <2>1. /\ UNCHANGED <<pending, sequence>> /\ UNCHANGED <<fate, op, history>>
        /\ CommitRaises(c, TRUE)
    BY <1>3, <1>7 DEF _resolve, Resolves
  <2> QED
    BY <1>2, <1>4, <2>1, OpenHistory DEF native
<1>8. CASE Code(p) = "Conflict"
  <2>1. Settle(Range(p.body), "gone") /\ AbandonOp(c)
    BY <1>3, <1>8 DEF _resolve, Resolves
  <2>2. op'[c] = None /\ history' = history
    BY <1>2, <2>1, AbandonType
  <2>3. Quiet
    BY <1>2, <1>4, <2>1, <2>2, SettleQuiet DEF Quiet
  <2> QED
    BY <1>1, <2>2, <2>3, StayHistory
<1>9. CASE Code(p) = "Applied"
  <2>1. Settle(Range(p.body), "done") /\ EndOp(c, p.body)
    BY <1>3, <1>9 DEF _resolve
  <2>2. Range(p.body) \subseteq db
    BY <1>2, <1>9 DEF Served, Code
  <2> QED
    BY <1>1, <1>3, <1>4, <2>1, <2>2, AppliedHistory
<1> QED
  BY <1>6, <1>7, <1>8, <1>9

\* Every call and every step of the service keeps the history explained.
LEMMA NextHistory == DbApiInv /\ HistoryInv /\ [Next]_vars => HistoryInv'
<1> SUFFICES ASSUME DbApiInv, HistoryInv, [Next]_vars PROVE HistoryInv'
  OBVIOUS
<1>1. CASE UNCHANGED vars
  <2>1. /\ UNCHANGED <<native, dbapi, call, app>> /\ requests' = requests
        /\ db' = db /\ revision' = revision
    BY <1>1 DEF vars, service
  <2>2. revision' \in Nat /\ revision' >= revision
    BY <2>1 DEF DbApiInv, TypeOK
  <2> QED
    BY <2>1, <2>2, HistoryStays
<1>2. CASE (\E p \in requests : Apply(p)) \/ retire_sessions
  BY <1>2, ServiceHistory
<1>3. ASSUME NEW c \in Conns, \/ \E kind \in {"query", "write", "many"} : Execute(c, kind)
                              \/ \E name \in Names : savepoint(c, name)
      PROVE  HistoryInv'
  BY <1>3, ExecuteHistory
<1>4. ASSUME NEW c \in Conns, \/ BeginFails(c) \/ SetAutocommit(c) \/ resolve_pending(c)
                              \/ \E name \in Names : release_savepoint(c, name)
      PROVE  HistoryInv'
  BY <1>4, SteadyHistory
<1>5. ASSUME NEW c \in Conns, rollback(c) \/ close(c) \/ \E keep \in BOOLEAN : Reconnect(c, keep)
      PROVE  HistoryInv'
  BY <1>5, AbandonHistory
<1>6. ASSUME NEW c \in Conns, Aborted(c) \/ Refused(c) PROVE HistoryInv'
  <2>1. PICK fails \in BOOLEAN : Executing(c) /\ Raise(c, fails)
    BY <1>6 DEF Aborted, Refused
  <2> QED
    BY <2>1, RaiseHistory
<1>7. ASSUME NEW c \in Conns, NEW name \in Names, rollback_savepoint(c, name) PROVE HistoryInv'
  BY <1>7, RollbackSavepointHistory
<1>8. ASSUME NEW c \in Conns, Previewed(c) PROVE HistoryInv'
  BY <1>8, PreviewedHistory
<1>9. ASSUME NEW c \in Conns, commit(c) PROVE HistoryInv'
  BY <1>9, CommitHistory
<1>10. ASSUME NEW c \in Conns, Batch(c) PROVE HistoryInv'
  BY <1>10, BatchHistory
<1>11. ASSUME NEW c \in Conns, QueryAutocommit(c) PROVE HistoryInv'
  BY <1>11, QueryHistory
<1>12. ASSUME NEW c \in Conns, UnknownOutcome(c) PROVE HistoryInv'
  BY <1>12, OpenHistory DEF UnknownOutcome
<1>13. ASSUME NEW c \in Conns, _resolve(c) PROVE HistoryInv'
  BY <1>13, ResolveHistory
<1> QED
  BY <1>1, <1>2, <1>3, <1>4, <1>5, <1>6, <1>7, <1>8, <1>9, <1>10, <1>11, <1>12, <1>13 DEF Next

\* Every reachable history has places for its operations.
THEOREM HistoryInvariant == Spec => []HistoryInv
<1>1. Init => HistoryInv
  BY InitHistory
<1>2. DbApiInv /\ HistoryInv /\ [Next]_vars => HistoryInv'
  BY NextHistory
<1> QED
  BY <1>1, <1>2, DbApiInvariant, PTL DEF Spec

\* The operations of the connections are serializable in real time: whenever no
\* outcome is open, the search of the history campaign finds a serial order that
\* explains every row they saw, and it ends in the state a later read finds.
THEOREM HistoryExplainedTheorem == Spec => []HistoryExplained
<1>1. DbApiInv /\ HistoryInv => HistoryExplained
  BY SerialOrder DEF HistoryExplained
<1> QED
  BY <1>1, DbApiInvariant, HistoryInvariant, PTL
=============================================================================
