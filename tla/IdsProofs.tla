----------------------------- MODULE IdsProofs -----------------------------
(***************************************************************************)
(* Proofs about durable identifiers, for any block size, number of node    *)
(* numbers and number of milliseconds: every host's ids increase strictly, *)
(* and no two hosts share one.                                             *)
(***************************************************************************)
EXTENDS Ids, TLAPS

\* Multiplication is monotone: the arithmetic every other fact rests on.
LEMMA ProductNat ==
  ASSUME NEW a \in Nat, NEW c \in Nat
  PROVE  a * c \in Nat
BY SMT

LEMMA ScaleGap ==
  ASSUME NEW a \in Int, NEW b \in Int, NEW c \in Nat, a < b
  PROVE  a * c + c <= b * c
<1> DEFINE d == b - a - 1
<1>1. d \in Nat
  BY SMT
<1>2. d * c \in Nat
  BY <1>1, ProductNat
<1>3. b * c = a * c + c + d * c
  BY SMT
<1> QED
  BY <1>2, <1>3, SMT

\* A quotient is determined by the number it divides: a block number and an
\* offset, or a millisecond and a node number, can be read back from an id.
LEMMA QuotientUnique ==
  ASSUME NEW a \in Int, NEW b \in Int, NEW c \in Nat,
         NEW k \in 0..c-1, NEW l \in 0..c-1, a * c + k = b * c + l
  PROVE  a = b
<1>1. a * c \in Int /\ b * c \in Int
  BY SMT
<1>2. ~(a < b)
  <2> SUFFICES ASSUME a < b PROVE FALSE
    OBVIOUS
  <2>1. a * c + c <= b * c
    BY ScaleGap
  <2> QED BY <1>1, <2>1, SMT
<1>3. ~(b < a)
  <2> SUFFICES ASSUME b < a PROVE FALSE
    OBVIOUS
  <2>1. b * c + c <= a * c
    BY ScaleGap
  <2> QED BY <1>1, <2>1, SMT
<1> QED BY <1>2, <1>3, SMT

\* The constants' types, spelled out.
LEMMA Constants ==
  /\ NODE_IDS \in Nat /\ NODE_IDS > 0
  /\ BLOCK \in Nat /\ BLOCK > 0
  /\ MS_LIMIT \in Nat /\ MS_LIMIT > 0
  /\ \A n \in Members : n \in Nat /\ n < NODE_IDS
BY IdsAssumption, SMT

LEMMA WordFacts == SPAN \in Nat /\ SPAN > 0 /\ WORD \in Nat /\ WORD > 0
<1>1. SPAN \in Nat
  BY Constants, ProductNat DEF SPAN
<1>2. 0 * BLOCK + BLOCK <= NODE_IDS * BLOCK
  BY Constants, ScaleGap
<1>3. SPAN > 0
  BY <1>1, <1>2, Constants, SMT DEF SPAN
<1>4. WORD \in Nat
  BY <1>1, Constants, ProductNat DEF WORD
<1>5. 0 * SPAN + SPAN <= MS_LIMIT * SPAN
  BY <1>1, Constants, ScaleGap
<1> QED
  BY <1>1, <1>3, <1>4, <1>5, Constants, SMT DEF WORD

\* Every block lies inside the 64-bit word.
LEMMA BlockFits ==
  ASSUME NEW n \in Members, NEW t \in 0..MS_LIMIT-1
  PROVE  IdBase(t, n) \in Nat /\ IdBase(t, n) + BLOCK <= WORD
<1> DEFINE p == t * NODE_IDS
<1> DEFINE q == MS_LIMIT * NODE_IDS
<1>0. t \in Nat /\ t < MS_LIMIT /\ n \in Nat /\ n < NODE_IDS
  BY Constants, SMT
<1>1. p \in Nat /\ q \in Nat
  BY <1>0, Constants, ProductNat
<1>2. p + NODE_IDS <= q
  BY <1>0, Constants, ScaleGap
<1>3. p + n < q /\ p + n \in Nat
  <2> HIDE DEF p, q
  <2> QED BY <1>0, <1>1, <1>2, Constants, SMT
<1>4. (p + n) * BLOCK \in Nat
  BY <1>3, Constants, ProductNat
<1>5. (p + n) * BLOCK + BLOCK <= q * BLOCK
  <2> HIDE DEF p, q
  <2> QED BY <1>1, <1>3, Constants, ScaleGap
<1>6. WORD = q * BLOCK
  BY Constants, SMT DEF WORD, SPAN
<1> QED
  BY <1>4, <1>5, <1>6 DEF IdBase

\* Blocks of one host are disjoint and ordered as their milliseconds.
LEMMA BlocksOrdered ==
  ASSUME NEW n \in Members, NEW t \in 0..MS_LIMIT-1, NEW u \in 0..MS_LIMIT-1, t < u
  PROVE  IdBase(t, n) + BLOCK <= IdBase(u, n)
<1> DEFINE p == t * NODE_IDS
<1> DEFINE q == u * NODE_IDS
<1>0. t \in Nat /\ u \in Nat /\ n \in Nat
  BY Constants, SMT
<1>1. p \in Nat /\ q \in Nat
  BY <1>0, Constants, ProductNat
<1>2. p + NODE_IDS <= q
  BY <1>0, Constants, ScaleGap
<1>3. p + n < q + n /\ p + n \in Nat /\ q + n \in Nat
  <2> HIDE DEF p, q
  <2> QED BY <1>0, <1>1, <1>2, Constants, SMT
<1>4. (p + n) * BLOCK + BLOCK <= (q + n) * BLOCK
  <2> HIDE DEF p, q
  <2> QED BY <1>3, Constants, ScaleGap
<1> QED
  BY <1>4 DEF IdBase

\* u64 arithmetic on a number that is at most one past the last word.
LEMMA Wrap ==
  ASSUME NEW x \in 0..WORD
  PROVE  x % WORD = IF x = WORD THEN 0 ELSE x
<1>1. x = WORD => x % WORD = 0
  BY WordFacts, SMT
<1>2. x < WORD => x % WORD = x
  BY WordFacts, SMT
<1> QED
  BY <1>1, <1>2, WordFacts, SMT

-----------------------------------------------------------------------------
\* What a sequence over S holds is in S.
LEMMA ElementIn ==
  ASSUME NEW S, NEW q \in Seq(S), NEW i \in 1..Len(q)
  PROVE  q[i] \in S
OBVIOUS

\* Handing out an id above all earlier ones keeps the sequence increasing and
\* bounded by anything above that id.
LEMMA HandOutKeeps ==
  ASSUME TypeOK, NEW n \in Members, NEW id \in 0..WORD-1,
         IdsIncrease, AllBelow(issued[n], id), HandOut(n, id)
  PROVE  /\ issued' \in [Members -> Seq(0..WORD-1)]
         /\ id_next' \in [Members -> 0..WORD-1]
         /\ IdsIncrease'
         /\ \A bound \in Nat : id < bound => AllBelow(issued'[n], bound)
         /\ \A m \in Members : m # n => issued'[m] = issued[m] /\ id_next'[m] = id_next[m]
         /\ id_next'[n] = (id + 1) % WORD
         /\ issued'[n] # <<>>
<1>1. issued'[n] = Append(issued[n], id) /\ issued[n] \in Seq(0..WORD-1)
  BY DEF TypeOK, HandOut
<1>2. \A m \in Members : m # n => issued'[m] = issued[m] /\ id_next'[m] = id_next[m]
  BY DEF TypeOK, HandOut
<1>3. Len(issued'[n]) = Len(issued[n]) + 1 /\ Len(issued[n]) \in Nat
  BY <1>1, SMT
<1>4. \A i \in 1..Len(issued[n]) :
        issued'[n][i] = issued[n][i] /\ issued[n][i] < id /\ issued[n][i] \in 0..WORD-1
  <2> SUFFICES ASSUME NEW i \in 1..Len(issued[n])
               PROVE  /\ issued'[n][i] = issued[n][i] /\ issued[n][i] < id
                      /\ issued[n][i] \in 0..WORD-1
    OBVIOUS
  <2>1. issued[n][i] \in 0..WORD-1
    BY <1>1, ElementIn
  <2>2. issued'[n][i] = issued[n][i]
    BY <1>1, SMT
  <2> QED BY <2>1, <2>2 DEF AllBelow
<1>5. issued'[n][Len(issued[n]) + 1] = id
  BY <1>1, SMT
<1>6. issued' \in [Members -> Seq(0..WORD-1)]
  BY <1>1 DEF TypeOK, HandOut
<1>7. (id + 1) % WORD \in 0..WORD-1
  BY Wrap, WordFacts, SMT
<1>8. id_next' \in [Members -> 0..WORD-1] /\ id_next'[n] = (id + 1) % WORD
  BY <1>7 DEF TypeOK, HandOut
<1>9. IdsIncrease'
  <2> SUFFICES ASSUME NEW m \in Members, NEW i \in 1..Len(issued'[m]),
                      NEW j \in 1..Len(issued'[m]), i < j
               PROVE  issued'[m][i] < issued'[m][j]
    BY DEF IdsIncrease
  <2>1. CASE m # n
    BY <1>2, <2>1 DEF IdsIncrease
  <2>2. CASE m = n /\ j = Len(issued[n]) + 1
    <3>1. i \in 1..Len(issued[n])
      BY <1>3, <2>2, SMT
    <3> QED BY <1>4, <1>5, <2>2, <3>1
  <2>3. CASE m = n /\ j # Len(issued[n]) + 1
    <3>1. i \in 1..Len(issued[n]) /\ j \in 1..Len(issued[n])
      BY <1>3, <2>3, SMT
    <3> QED BY <1>4, <2>3, <3>1 DEF IdsIncrease
  <2> QED BY <2>1, <2>2, <2>3
<1>10. ASSUME NEW bound \in Nat, id < bound PROVE AllBelow(issued'[n], bound)
  <2> SUFFICES ASSUME NEW i \in 1..Len(issued'[n]) PROVE issued'[n][i] < bound
    BY DEF AllBelow
  <2>1. CASE i = Len(issued[n]) + 1
    BY <1>5, <1>10, <2>1
  <2>2. CASE i # Len(issued[n]) + 1
    <3>1. i \in 1..Len(issued[n])
      BY <1>3, <2>2, SMT
    <3> DEFINE x == issued'[n][i]
    <3>2. x < id /\ x \in 0..WORD-1
      BY <1>4, <3>1, Zenon
    <3>3. WORD \in Nat
      BY WordFacts
    <3> HIDE DEF x
    <3>4. x < bound
      BY <1>10, <3>2, <3>3, SMT
    <3> QED BY <3>4 DEF x
  <2> QED BY <2>1, <2>2
<1>11. issued'[n] # <<>>
  BY <1>1, SMT
<1> QED
  BY <1>2, <1>6, <1>8, <1>9, <1>10, <1>11

\* The initial state satisfies the invariant.
LEMMA IdsInit == Init => IdsInv
<1> SUFFICES ASSUME Init PROVE IdsInv
  OBVIOUS
<1>1. TypeOK
  BY WordFacts, Constants, SMT DEF Init, TypeOK
<1>2. \A n \in Members : issued[n] = <<>> /\ ms[n] = -1 /\ id_next[n] = id_end[n]
  BY DEF Init
<1>3. IdsIncrease
  BY <1>2, SMT DEF IdsIncrease
<1>4. BlockReserved
  BY <1>2 DEF BlockReserved
<1>5. CursorInBlock
  BY <1>2 DEF CursorInBlock
<1> QED BY <1>1, <1>3, <1>4, <1>5 DEF IdsInv

\* Every step preserves it.
LEMMA IdsStep == IdsInv /\ [Next]_vars => IdsInv'
<1> SUFFICES ASSUME IdsInv, [Next]_vars PROVE IdsInv'
  OBVIOUS
<1> USE DEF IdsInv
<1>1. ASSUME NEW n \in Members, NEW t \in 0..MS_LIMIT-1, NextInBlock(n, t)
      PROVE  IdsInv'
  <2> DEFINE id == id_next[n]
  <2> DEFINE top == IdBase(ms[n], n) + BLOCK
  <2>1. ~poisoned[n] /\ id_next[n] # id_end[n] /\ HandOut(n, id)
        /\ UNCHANGED <<ms, id_end, poisoned>>
    BY <1>1 DEF NextInBlock, NeedsBlock
  <2>2. /\ ms[n] # -1 /\ IdBase(ms[n], n) <= id /\ id < top
        /\ id_end[n] = top % WORD /\ AllBelow(issued[n], id)
    BY <2>1 DEF CursorInBlock
  <2>3. id \in 0..WORD-1 /\ ms[n] \in -1..MS_LIMIT-1
    BY DEF TypeOK
  <2>3a. ms[n] \in 0..MS_LIMIT-1
    BY <2>2, <2>3, Constants, SMT
  <2>4. IdBase(ms[n], n) \in Nat /\ top \in Nat /\ top <= WORD
    BY <2>3a, BlockFits, Constants, SMT
  <2>5. /\ issued' \in [Members -> Seq(0..WORD-1)] /\ id_next' \in [Members -> 0..WORD-1]
        /\ IdsIncrease' /\ id_next'[n] = (id + 1) % WORD /\ issued'[n] # <<>>
        /\ \A bound \in Nat : id < bound => AllBelow(issued'[n], bound)
        /\ \A m \in Members : m # n => issued'[m] = issued[m] /\ id_next'[m] = id_next[m]
    <3> HIDE DEF id
    <3> QED BY <2>1, <2>2, <2>3, HandOutKeeps
  <2>6. TypeOK'
    BY <2>1, <2>5 DEF TypeOK
  <2>7. BlockReserved'
    <3> SUFFICES ASSUME NEW m \in Members
                 PROVE  /\ ms'[m] = -1 => issued'[m] = <<>>
                        /\ ms'[m] # -1 => AllBelow(issued'[m], IdBase(ms'[m], m) + BLOCK)
      BY <2>1 DEF BlockReserved
    <3>1. CASE m = n
      BY <2>1, <2>2, <2>4, <2>5, <3>1
    <3>2. CASE m # n
      BY <2>1, <2>5, <3>2 DEF BlockReserved, AllBelow
    <3> QED BY <3>1, <3>2
  <2>8. CursorInBlock'
    <3> SUFFICES ASSUME NEW m \in Members, ~poisoned'[m] /\ id_next'[m] # id_end'[m]
                 PROVE  /\ ms[m] # -1
                        /\ IdBase(ms[m], m) <= id_next'[m]
                        /\ id_next'[m] < IdBase(ms[m], m) + BLOCK
                        /\ id_end[m] = (IdBase(ms[m], m) + BLOCK) % WORD
                        /\ AllBelow(issued'[m], id_next'[m])
      BY <2>1 DEF CursorInBlock
    <3>1. CASE m # n
      BY <2>1, <2>5, <3>1 DEF CursorInBlock, AllBelow
    <3>2. CASE m = n
      <4>1. id + 1 \in 0..WORD
        BY <2>3, WordFacts, SMT
      <4>2. top \in 0..WORD
        BY <2>4, WordFacts, SMT
      <4>3. (id + 1) % WORD # top % WORD
        BY <2>1, <2>2, <2>5, <3>2
      <4>4. id + 1 < WORD /\ id + 1 < top
        <5>1. id + 1 # top
          BY <4>3
        <5> HIDE DEF id, top
        <5> QED BY <2>2, <2>3, <2>4, <5>1, WordFacts, SMT
      <4>5. id_next'[n] = id + 1
        <5>1. (id + 1) % WORD = id + 1
          <6> HIDE DEF id, top
          <6>1. id + 1 # WORD
            BY <2>3, <4>4, WordFacts, SMT
          <6> QED BY <4>1, <6>1, Wrap
        <5> QED BY <2>5, <5>1
      <4>6. AllBelow(issued'[n], id + 1)
        BY <2>3, <2>5, WordFacts, SMT
      <4>7. AllBelow(issued'[n], id_next'[n])
        BY <4>5, <4>6 DEF AllBelow
      <4>8. IdBase(ms[n], n) <= id + 1
        <5> HIDE DEF id
        <5> QED BY <2>2, <2>3, <2>4, WordFacts, SMT
      <4> QED BY <2>1, <2>2, <3>2, <4>4, <4>5, <4>7, <4>8
    <3> QED BY <3>1, <3>2
  <2> QED BY <2>5, <2>6, <2>7, <2>8
<1>2. ASSUME NEW n \in Members, NEW t \in 0..MS_LIMIT-1, NextInNewBlock(n, t)
      PROVE  IdsInv'
  <2> DEFINE r == ReservedMs(n, t)
  <2> DEFINE base == IdBase(r, n)
  <2>0. ms[n] \in -1..MS_LIMIT-1
    BY DEF TypeOK
  <2>1. r \in 0..MS_LIMIT-1 /\ ms[n] < r
    BY <1>2, <2>0, Constants, SMT DEF NextInNewBlock, ReservedMs, Reservable
  <2>2. base \in Nat /\ base + BLOCK <= WORD /\ base \in 0..WORD-1
    <3>1. base \in Nat /\ base + BLOCK <= WORD
      <4> HIDE DEF r
      <4> QED BY <2>1, BlockFits
    <3> HIDE DEF base
    <3> QED BY <3>1, Constants, WordFacts, SMT
  <2>3. HandOut(n, base) /\ UNCHANGED poisoned
        /\ ms' = [ms EXCEPT ![n] = r]
        /\ id_end' = [id_end EXCEPT ![n] = (base + BLOCK) % WORD]
    BY <1>2 DEF NextInNewBlock
  <2>4. AllBelow(issued[n], base)
    <3>1. CASE ms[n] = -1
      <4>1. Len(issued[n]) = 0
        BY <3>1 DEF BlockReserved
      <4> QED BY <4>1, SMT DEF AllBelow
    <3>2. CASE ms[n] # -1
      <4>1. ms[n] \in 0..MS_LIMIT-1
        BY <2>0, <3>2, Constants, SMT
      <4>2. IdBase(ms[n], n) + BLOCK <= base
        <5> HIDE DEF r
        <5> QED BY <2>1, <4>1, BlocksOrdered
      <4>3. IdBase(ms[n], n) \in Nat
        BY <4>1, BlockFits
      <4>4. AllBelow(issued[n], IdBase(ms[n], n) + BLOCK)
        BY <3>2 DEF BlockReserved
      <4>5. \A i \in 1..Len(issued[n]) : issued[n][i] \in 0..WORD-1
        BY ElementIn DEF TypeOK
      <4> HIDE DEF base
      <4> QED BY <2>2, <4>2, <4>3, <4>4, <4>5, WordFacts, Constants, SMT DEF AllBelow
    <3> QED BY <3>1, <3>2
  <2>5. /\ issued' \in [Members -> Seq(0..WORD-1)] /\ id_next' \in [Members -> 0..WORD-1]
        /\ IdsIncrease' /\ id_next'[n] = (base + 1) % WORD
        /\ \A bound \in Nat : base < bound => AllBelow(issued'[n], bound)
        /\ \A m \in Members : m # n => issued'[m] = issued[m] /\ id_next'[m] = id_next[m]
    <3> HIDE DEF base
    <3> QED BY <2>2, <2>3, <2>4, HandOutKeeps
  <2>6. (base + BLOCK) % WORD \in 0..WORD-1
    <3> HIDE DEF base
    <3> QED BY <2>2, Wrap, WordFacts, Constants, SMT
  <2>7. TypeOK'
    <3>1. ms' \in [Members -> -1..MS_LIMIT-1]
      <4> HIDE DEF r
      <4>1. r \in -1..MS_LIMIT-1
        BY <2>1, Constants, SMT
      <4> QED BY <2>3, <4>1 DEF TypeOK
    <3>2. id_end' \in [Members -> 0..WORD-1]
      BY <2>3, <2>6 DEF TypeOK
    <3> QED BY <2>3, <2>5, <3>1, <3>2 DEF TypeOK
  <2>8. ms'[n] = r /\ id_end'[n] = (base + BLOCK) % WORD
        /\ \A m \in Members : m # n => ms'[m] = ms[m] /\ id_end'[m] = id_end[m]
    <3> HIDE DEF r, base
    <3> QED BY <2>3 DEF TypeOK
  <2>9. base + 1 <= base + BLOCK /\ base < base + BLOCK /\ base + BLOCK \in Nat
    <3> HIDE DEF base
    <3> QED BY <2>2, Constants, SMT
  <2>10. BlockReserved'
    <3> SUFFICES ASSUME NEW m \in Members
                 PROVE  /\ ms'[m] = -1 => issued'[m] = <<>>
                        /\ ms'[m] # -1 => AllBelow(issued'[m], IdBase(ms'[m], m) + BLOCK)
      BY DEF BlockReserved
    <3>1. CASE m = n
      <4>1. r # -1
        BY <2>1, Constants, SMT
      <4>2. AllBelow(issued'[n], base + BLOCK)
        BY <2>5, <2>9
      <4> QED BY <2>8, <3>1, <4>1, <4>2 DEF AllBelow
    <3>2. CASE m # n
      BY <2>5, <2>8, <3>2 DEF BlockReserved, AllBelow
    <3> QED BY <3>1, <3>2
  <2>11. CursorInBlock'
    <3> SUFFICES ASSUME NEW m \in Members, ~poisoned'[m] /\ id_next'[m] # id_end'[m]
                 PROVE  /\ ms'[m] # -1
                        /\ IdBase(ms'[m], m) <= id_next'[m]
                        /\ id_next'[m] < IdBase(ms'[m], m) + BLOCK
                        /\ id_end'[m] = (IdBase(ms'[m], m) + BLOCK) % WORD
                        /\ AllBelow(issued'[m], id_next'[m])
      BY DEF CursorInBlock
    <3>1. CASE m # n
      BY <2>3, <2>5, <2>8, <3>1 DEF CursorInBlock, AllBelow
    <3>2. CASE m = n
      <4>1. (base + 1) % WORD # (base + BLOCK) % WORD
        BY <2>5, <2>8, <3>2
      <4>2. base + 1 < WORD /\ base + 1 < base + BLOCK /\ base + 1 \in 0..WORD
        <5>1. base + 1 # base + BLOCK
          BY <4>1
        <5> HIDE DEF base
        <5> QED BY <2>2, <5>1, Constants, WordFacts, SMT
      <4>3. (base + 1) % WORD = base + 1
        <5> HIDE DEF base
        <5> QED BY <2>2, <4>2, Wrap, WordFacts, SMT
      <4>4. AllBelow(issued'[n], base + 1)
        <5> HIDE DEF base
        <5> QED BY <2>2, <2>5, SMT
      <4>5. AllBelow(issued'[n], id_next'[n])
        BY <2>5, <4>3, <4>4 DEF AllBelow
      <4>6. base <= base + 1 /\ r # -1
        <5>1. r # -1
          BY <2>1, Constants, SMT
        <5>2. base <= base + 1
          <6> HIDE DEF base
          <6> QED BY <2>2, SMT
        <5> QED BY <5>1, <5>2
      <4> QED BY <2>5, <2>8, <3>2, <4>2, <4>3, <4>5, <4>6
    <3> QED BY <3>1, <3>2
  <2> QED BY <2>5, <2>7, <2>10, <2>11
<1>3. ASSUME NEW n \in Members, NEW t \in 0..MS_LIMIT-1, ReserveFails(n, t)
      PROVE  IdsInv'
  <2> DEFINE r == ReservedMs(n, t)
  <2>0. ms[n] \in -1..MS_LIMIT-1
    BY DEF TypeOK
  <2>1. UNCHANGED <<id_next, id_end, issued>> /\ poisoned' = [poisoned EXCEPT ![n] = TRUE]
    BY <1>3 DEF ReserveFails
  <2>2. \/ ms' = ms
        \/ r \in 0..MS_LIMIT-1 /\ ms[n] < r /\ ms' = [ms EXCEPT ![n] = r]
    BY <1>3, <2>0, Constants, SMT DEF ReserveFails, ReservedMs, Reservable
  <2>3. \A m \in Members : m # n => ms'[m] = ms[m] /\ poisoned'[m] = poisoned[m]
    BY <2>1, <2>2 DEF TypeOK
  <2>4. poisoned'[n] = TRUE
    BY <2>1 DEF TypeOK
  <2>5. TypeOK'
    <3>1. ms' \in [Members -> -1..MS_LIMIT-1]
      <4> HIDE DEF r
      <4>1. r \in 0..MS_LIMIT-1 => r \in -1..MS_LIMIT-1
        BY Constants, SMT
      <4> QED BY <2>2, <4>1 DEF TypeOK
    <3>2. poisoned' \in [Members -> BOOLEAN]
      BY <2>1, Zenon DEF TypeOK
    <3> QED BY <2>1, <3>1, <3>2 DEF TypeOK
  <2>6. IdsIncrease'
    BY <2>1 DEF IdsIncrease
  <2>7. CursorInBlock'
    BY <2>1, <2>3, <2>4 DEF CursorInBlock, AllBelow
  <2>8. BlockReserved'
    <3> SUFFICES ASSUME NEW m \in Members
                 PROVE  /\ ms'[m] = -1 => issued[m] = <<>>
                        /\ ms'[m] # -1 => AllBelow(issued[m], IdBase(ms'[m], m) + BLOCK)
      BY <2>1 DEF BlockReserved, AllBelow
    <3>1. CASE ms'[m] = ms[m]
      BY <3>1 DEF BlockReserved
    <3>2. CASE ms'[m] # ms[m]
      <4>1. m = n /\ ms'[n] = r /\ r \in 0..MS_LIMIT-1 /\ ms[n] < r
        <5> HIDE DEF r
        <5> QED BY <2>2, <2>3, <3>2 DEF TypeOK
      <4>2. CASE ms[n] = -1
        <5>1. Len(issued[n]) = 0
          BY <4>2 DEF BlockReserved
        <5>2. ms'[n] # -1
          BY <4>1, Constants, SMT
        <5>3. \A b : AllBelow(issued[n], b)
          BY <5>1, SMT DEF AllBelow
        <5> QED BY <4>1, <5>2, <5>3
      <4>3. CASE ms[n] # -1
        <5>1. ms[n] \in 0..MS_LIMIT-1
          BY <2>0, <4>3, Constants, SMT
        <5>2. IdBase(ms[n], n) + BLOCK <= IdBase(r, n)
          <6> HIDE DEF r
          <6> QED BY <4>1, <5>1, BlocksOrdered
        <5>3. IdBase(ms[n], n) \in Nat /\ IdBase(r, n) \in Nat
          <6> HIDE DEF r
          <6> QED BY <4>1, <5>1, BlockFits
        <5>4. AllBelow(issued[n], IdBase(ms[n], n) + BLOCK)
          BY <4>3 DEF BlockReserved
        <5>5. \A i \in 1..Len(issued[n]) : issued[n][i] \in 0..WORD-1
          BY ElementIn DEF TypeOK
        <5>6. AllBelow(issued[n], IdBase(r, n) + BLOCK)
          <6> HIDE DEF r
          <6> SUFFICES ASSUME NEW i \in 1..Len(issued[n])
                       PROVE  issued[n][i] < IdBase(r, n) + BLOCK
            BY DEF AllBelow
          <6>1. issued[n][i] < IdBase(ms[n], n) + BLOCK
            BY <5>4 DEF AllBelow
          <6>2. issued[n][i] \in Int
            BY <5>5, WordFacts, SMT
          <6> QED BY <5>2, <5>3, <6>1, <6>2, Constants, SMT
        <5>7. ms'[n] # -1
          BY <4>1, Constants, SMT
        <5> QED BY <4>1, <5>6, <5>7
      <4> QED BY <4>2, <4>3
    <3> QED BY <3>1, <3>2
  <2> QED BY <2>5, <2>6, <2>7, <2>8
<1>4. ASSUME NEW n \in Members, Restart(n) PROVE IdsInv'
  <2>1. /\ UNCHANGED <<ms, issued>>
        /\ id_next' = [id_next EXCEPT ![n] = 0] /\ id_end' = [id_end EXCEPT ![n] = 0]
        /\ poisoned' = [poisoned EXCEPT ![n] = FALSE]
    BY <1>4 DEF Restart
  <2>2. TypeOK'
    <3>1. poisoned' \in [Members -> BOOLEAN]
      BY <2>1, Zenon DEF TypeOK
    <3>2. 0 \in 0..WORD-1
      BY WordFacts, SMT
    <3>3. id_next' \in [Members -> 0..WORD-1] /\ id_end' \in [Members -> 0..WORD-1]
      BY <2>1, <3>2 DEF TypeOK
    <3> QED BY <2>1, <3>1, <3>3 DEF TypeOK
  <2>3. IdsIncrease' /\ BlockReserved'
    BY <2>1 DEF IdsIncrease, BlockReserved, AllBelow
  <2>4. CursorInBlock'
    <3> SUFFICES ASSUME NEW m \in Members, ~poisoned'[m] /\ id_next'[m] # id_end'[m]
                 PROVE  /\ ms[m] # -1
                        /\ IdBase(ms[m], m) <= id_next'[m]
                        /\ id_next'[m] < IdBase(ms[m], m) + BLOCK
                        /\ id_end'[m] = (IdBase(ms[m], m) + BLOCK) % WORD
                        /\ AllBelow(issued'[m], id_next'[m])
      BY <2>1 DEF CursorInBlock
    <3>1. m # n
      BY <2>1 DEF TypeOK
    <3>2. id_next'[m] = id_next[m] /\ id_end'[m] = id_end[m] /\ poisoned'[m] = poisoned[m]
      BY <2>1, <3>1 DEF TypeOK
    <3> QED BY <2>1, <3>2 DEF CursorInBlock, AllBelow
  <2> QED BY <2>2, <2>3, <2>4
<1>5. CASE UNCHANGED vars
  BY <1>5 DEF vars, TypeOK, IdsIncrease, BlockReserved, CursorInBlock, AllBelow
<1> QED
  BY <1>1, <1>2, <1>3, <1>4, <1>5 DEF Next

\* The invariant holds in every reachable state.
LEMMA IdsInvariant == Spec => []IdsInv
BY IdsInit, IdsStep, PTL DEF Spec

\* Type correctness of the id allocator (next_id, reserve_ids) for any limits.
THEOREM TypeCorrect == Spec => []TypeOK
<1>1. IdsInv => TypeOK
  BY DEF IdsInv
<1> QED BY <1>1, IdsInvariant, PTL

\* next_id hands out strictly increasing ids on each host, whatever the clock
\* says and however often the host restarts or fails to reserve a block.
THEOREM IdsStrictlyIncrease == Spec => []IdsIncrease
<1>1. IdsInv => IdsIncrease
  BY DEF IdsInv
<1> QED BY <1>1, IdsInvariant, PTL

-----------------------------------------------------------------------------
OwnInv == IdsInv /\ OwnNumber

\* An id handed out at node n is n's: its block is one of n's blocks.
LEMMA OwnHandOut ==
  ASSUME TypeOK, OwnNumber, NEW n \in Members, NEW t \in 0..MS_LIMIT-1,
         NEW k \in 0..BLOCK-1, HandOut(n, IdBase(t, n) + k)
  PROVE  OwnNumber'
<1> DEFINE id == IdBase(t, n) + k
<1>1. issued'[n] = Append(issued[n], id) /\ issued[n] \in Seq(0..WORD-1)
  BY DEF TypeOK, HandOut
<1>2. \A m \in Members : m # n => issued'[m] = issued[m]
  BY DEF TypeOK, HandOut
<1> SUFFICES ASSUME NEW m \in Members, NEW i \in 1..Len(issued'[m])
             PROVE  \E u \in 0..MS_LIMIT-1, l \in 0..BLOCK-1 :
                        issued'[m][i] = IdBase(u, m) + l
  BY DEF OwnNumber
<1>3. CASE m # n
  BY <1>2, <1>3 DEF OwnNumber
<1>4. CASE m = n /\ i = Len(issued[n]) + 1
  <2>1. issued'[m][i] = id
    <3> HIDE DEF id
    <3> QED BY <1>1, <1>4, SMT
  <2> QED BY <1>4, <2>1
<1>5. CASE m = n /\ i # Len(issued[n]) + 1
  <2>1. i \in 1..Len(issued[n]) /\ issued'[m][i] = issued[n][i]
    <3> HIDE DEF id
    <3> QED BY <1>1, <1>5, SMT
  <2> QED BY <1>5, <2>1 DEF OwnNumber
<1> QED BY <1>3, <1>4, <1>5

LEMMA OwnStep == OwnInv /\ [Next]_vars => OwnInv'
<1> SUFFICES ASSUME OwnInv, [Next]_vars PROVE OwnNumber'
  BY IdsStep DEF OwnInv
<1> USE DEF OwnInv, IdsInv
<1>1. ASSUME NEW n \in Members, NEW t \in 0..MS_LIMIT-1, NextInBlock(n, t)
      PROVE  OwnNumber'
  <2>1. ~poisoned[n] /\ id_next[n] # id_end[n] /\ HandOut(n, id_next[n])
    BY <1>1 DEF NextInBlock, NeedsBlock
  <2>2. /\ ms[n] # -1 /\ IdBase(ms[n], n) <= id_next[n]
        /\ id_next[n] < IdBase(ms[n], n) + BLOCK
    BY <2>1 DEF CursorInBlock
  <2>3. ms[n] \in -1..MS_LIMIT-1 /\ id_next[n] \in 0..WORD-1
    BY DEF TypeOK
  <2>4. ms[n] \in 0..MS_LIMIT-1
    BY <2>2, <2>3, Constants, SMT
  <2>5. IdBase(ms[n], n) \in Nat
    BY <2>4, BlockFits
  <2> DEFINE k == id_next[n] - IdBase(ms[n], n)
  <2>6. k \in 0..BLOCK-1 /\ id_next[n] = IdBase(ms[n], n) + k
    BY <2>2, <2>3, <2>5, WordFacts, Constants, SMT
  <2>7. HandOut(n, IdBase(ms[n], n) + k)
    BY <2>1, <2>6
  <2> HIDE DEF k
  <2> QED BY <2>4, <2>6, <2>7, OwnHandOut
<1>2. ASSUME NEW n \in Members, NEW t \in 0..MS_LIMIT-1, NextInNewBlock(n, t)
      PROVE  OwnNumber'
  <2> DEFINE r == ReservedMs(n, t)
  <2>0. ms[n] \in -1..MS_LIMIT-1
    BY DEF TypeOK
  <2>1. r \in 0..MS_LIMIT-1 /\ HandOut(n, IdBase(r, n))
    BY <1>2, <2>0, Constants, SMT DEF NextInNewBlock, ReservedMs, Reservable
  <2> HIDE DEF r
  <2>2. IdBase(r, n) \in Nat
    BY <2>1, BlockFits
  <2>3. HandOut(n, IdBase(r, n) + 0)
    <3>1. IdBase(r, n) + 0 = IdBase(r, n)
      BY <2>2, SMT
    <3> QED BY <2>1, <3>1
  <2>4. 0 \in 0..BLOCK-1
    BY Constants, SMT
  <2> QED BY <2>1, <2>3, <2>4, OwnHandOut
<1>3. ASSUME issued' = issued PROVE OwnNumber'
  BY <1>3 DEF OwnNumber
<1> QED
  BY <1>1, <1>2, <1>3 DEF Next, ReserveFails, Restart, vars

\* Two nodes' blocks share no id: the node number can be read back from it.
LEMMA BlocksApart ==
  ASSUME NEW n1 \in Members, NEW n2 \in Members,
         NEW t1 \in 0..MS_LIMIT-1, NEW t2 \in 0..MS_LIMIT-1,
         NEW k1 \in 0..BLOCK-1, NEW k2 \in 0..BLOCK-1,
         IdBase(t1, n1) + k1 = IdBase(t2, n2) + k2
  PROVE  n1 = n2
<1> DEFINE a == t1 * NODE_IDS + n1
<1> DEFINE b == t2 * NODE_IDS + n2
<1>1. t1 \in Nat /\ t2 \in Nat /\ n1 \in 0..NODE_IDS-1 /\ n2 \in 0..NODE_IDS-1
  BY Constants, SMT
<1>2. t1 * NODE_IDS \in Nat /\ t2 * NODE_IDS \in Nat
  BY <1>1, Constants, ProductNat
<1>3. a \in Int /\ b \in Int
  BY <1>1, <1>2, Constants, SMT
<1>4. a * BLOCK + k1 = b * BLOCK + k2
  BY DEF IdBase
<1>5. a = b
  <2> HIDE DEF a, b
  <2> QED BY <1>3, <1>4, Constants, QuotientUnique
<1>6. t1 = t2
  BY <1>1, <1>5, Constants, QuotientUnique
<1> QED
  BY <1>1, <1>2, <1>5, <1>6, Constants, SMT

\* No two hosts ever hand out the same id, although they share no state: the
\* node number keeps their blocks apart, for any number of ids and restarts.
THEOREM IdsDistinct == Spec => []IdsDistinctAcrossNodes
<1>1. Init => OwnInv
  <2> SUFFICES ASSUME Init PROVE OwnNumber
    BY IdsInit DEF OwnInv
  <2>1. \A n \in Members : Len(issued[n]) = 0
    BY DEF Init
  <2> QED BY <2>1, SMT DEF OwnNumber
<1>2. OwnInv => IdsDistinctAcrossNodes
  <2> SUFFICES ASSUME OwnInv, NEW n1 \in Members, NEW n2 \in Members, n1 # n2,
                      NEW i \in 1..Len(issued[n1]), NEW j \in 1..Len(issued[n2]),
                      issued[n1][i] = issued[n2][j]
               PROVE  FALSE
    BY DEF IdsDistinctAcrossNodes
  <2>1. PICK t1 \in 0..MS_LIMIT-1, k1 \in 0..BLOCK-1 : issued[n1][i] = IdBase(t1, n1) + k1
    BY DEF OwnInv, OwnNumber
  <2>2. PICK t2 \in 0..MS_LIMIT-1, k2 \in 0..BLOCK-1 : issued[n2][j] = IdBase(t2, n2) + k2
    BY DEF OwnInv, OwnNumber
  <2> QED BY <2>1, <2>2, BlocksApart
<1> QED
  BY <1>1, <1>2, OwnStep, PTL DEF Spec
=============================================================================
