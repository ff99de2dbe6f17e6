---------------------------- MODULE EngineProofs ----------------------------
(***************************************************************************)
(* Proof that grouping, giving groups up, crashes and replays are          *)
(* invisible, that a request executes at most once, that retries are       *)
(* stable and that optimistic transactions are isolated, for every set of  *)
(* requests, every log and every bound.                                    *)
(*                                                                         *)
(* The argument: the reference execution is a function of the log, and     *)
(* staging an entry of a group computes what the reference computes for    *)
(* it.  So the database is always a value of the reference, and what is to *)
(* be shown about histories is shown once, by following the reference from *)
(* one slot to the next.                                                   *)
(***************************************************************************)
EXTENDS Engine, FiniteSetTheorems, WellFoundedInduction, TLAPS

\* The reference execution of the log L; g unfolds it through slot top.
ReferenceOf(L) ==
    LET f[n \in 0..Len(L)] ==
          IF n = 0 THEN EmptyDb ELSE engine_apply_outcome(f[n-1], n, L[n])
    IN f

Unfolds(L, top, g) ==
    g = [n \in 0..top |-> IF n = 0 THEN EmptyDb ELSE engine_apply_outcome(g[n-1], n, L[n])]

-----------------------------------------------------------------------------
\* A set of naturals has a least element.
LEMMA LeastSlot ==
  ASSUME NEW T, T \subseteq Nat, T # {}
  PROVE  \E x \in T : \A y \in T : x <= y
<1> DEFINE R == OpToRel(<, Nat)
<1>1. \A x, y \in Nat : x < y => <<x, y>> \in R
  BY DEF OpToRel
<1>2. IsWellFoundedOn(R, Nat)
  BY NatLessThanWellFounded, Zenon
<1> HIDE DEF R
<1>3. PICK x \in T : \A y \in T : ~(<<y, x>> \in R)
  BY <1>2, WFMin
<1>4. ASSUME NEW y \in T PROVE x <= y
  <2>1. x \in Nat /\ y \in Nat /\ ~(<<y, x>> \in R)
    BY <1>3
  <2>2. ~(y < x)
    BY <1>1, <2>1
  <2> QED
    BY <2>1, <2>2
<1> QED
  BY <1>4

\* Induction along the slots, for a set of slots: one that holds 0 and with
\* each slot below top the next one holds all.
LEMMA SlotInduction ==
  ASSUME NEW top \in Nat, NEW P, 0 \in P,
         \A n \in 1..top : n - 1 \in P => n \in P
  PROVE  \A n \in 0..top : n \in P
<1> DEFINE T == {n \in 0..top : n \notin P}
<1> SUFFICES ASSUME T # {} PROVE FALSE
  OBVIOUS
<1>1. T \subseteq Nat
  OBVIOUS
<1>2. PICK n \in T : \A y \in T : n <= y
  <2> HIDE DEF T
  <2> QED
    BY <1>1, LeastSlot
<1>3. n \in 1..top
  BY <1>2
<1>4. n - 1 \notin T
  <2>1. n \in Nat /\ ~(n <= n - 1)
    BY <1>3
  <2> QED
    BY <1>2, <2>1
<1>5. n - 1 \in P
  BY <1>3, <1>4
<1> QED
  BY <1>2, <1>3, <1>5

\* The reference execution exists, through every slot.
LEMMA UnfoldingExists ==
  ASSUME NEW L, NEW top \in Nat
  PROVE  \E g : Unfolds(L, top, g)
<1> DEFINE P == {n \in Nat : \E g : Unfolds(L, n, g)}
<1>1. 0 \in P
  <2> DEFINE g == [n \in 0..0 |-> EmptyDb]
  <2>1. g = [n \in 0..0 |-> IF n = 0 THEN EmptyDb
                            ELSE engine_apply_outcome(g[n-1], n, L[n])]
    OBVIOUS
  <2>2. Unfolds(L, 0, g)
    <3> HIDE DEF g
    <3> QED
      BY <2>1 DEF Unfolds
  <2> QED
    BY <2>2
<1>2. ASSUME NEW n \in 1..top, n - 1 \in P PROVE n \in P
  <2>1. PICK g : Unfolds(L, n - 1, g)
    BY <1>2
  <2> DEFINE last == engine_apply_outcome(g[n-1], n, L[n])
             h == [i \in 0..n |-> IF i = n THEN last ELSE g[i]]
  <2>2. g = [i \in 0..n-1 |-> IF i = 0 THEN EmptyDb
                              ELSE engine_apply_outcome(g[i-1], i, L[i])]
    BY <2>1 DEF Unfolds
  <2>3. ASSUME NEW i \in 0..n
        PROVE  h[i] = IF i = 0 THEN EmptyDb ELSE engine_apply_outcome(h[i-1], i, L[i])
    <3>1. CASE i = n
      <4>1. n - 1 \in 0..n /\ n - 1 # n /\ n # 0
        OBVIOUS
      <4>2. h[n-1] = g[n-1] /\ h[n] = last
        BY <4>1
      <4> QED
        BY <3>1, <4>1, <4>2
    <3>2. CASE i # n
      <4>1. i \in 0..n-1 /\ (i # 0 => i - 1 \in 0..n /\ i - 1 # n)
        BY <3>2
      <4>2. h[i] = g[i] /\ (i # 0 => h[i-1] = g[i-1])
        BY <3>2, <4>1
      <4>3. g[i] = IF i = 0 THEN EmptyDb ELSE engine_apply_outcome(g[i-1], i, L[i])
        BY <2>2, <4>1
      <4> QED
        BY <4>2, <4>3
    <3> QED
      BY <3>1, <3>2
  <2>4. h = [i \in 0..n |-> IF i = 0 THEN EmptyDb
                            ELSE engine_apply_outcome(h[i-1], i, L[i])]
    <3>1. h = [i \in 0..n |-> h[i]]
      OBVIOUS
    <3> HIDE DEF h
    <3> QED
      BY <2>3, <3>1
  <2>5. Unfolds(L, n, h)
    <3> HIDE DEF h
    <3> QED
      BY <2>4 DEF Unfolds
  <2>6. n \in Nat
    OBVIOUS
  <2> HIDE DEF h
  <2> QED
    BY <2>5, <2>6
<1>3. \A n \in 0..top : n \in P
  <2> HIDE DEF P
  <2> QED
    BY <1>1, <1>2, SlotInduction
<1> QED
  BY <1>3

\* The recursive equation of the reference.
LEMMA ReferenceUnfolds ==
  ASSUME NEW L, Len(L) \in Nat
  PROVE  /\ ReferenceOf(L)[0] = EmptyDb
         /\ \A n \in 1..Len(L) :
                ReferenceOf(L)[n] = engine_apply_outcome(ReferenceOf(L)[n-1], n, L[n])
<1> DEFINE r == ReferenceOf(L)
<1>1. r = CHOOSE g : Unfolds(L, Len(L), g)
  BY DEF ReferenceOf, Unfolds
<1>2. \E g : Unfolds(L, Len(L), g)
  BY UnfoldingExists
<1>3. Unfolds(L, Len(L), r)
  BY <1>1, <1>2
<1>4. r = [n \in 0..Len(L) |-> IF n = 0 THEN EmptyDb ELSE engine_apply_outcome(r[n-1], n, L[n])]
  BY <1>3 DEF Unfolds
<1> HIDE DEF r
<1>5. r[0] = EmptyDb
  BY <1>4
<1>6. ASSUME NEW n \in 1..Len(L) PROVE r[n] = engine_apply_outcome(r[n-1], n, L[n])
  <2>1. n \in 0..Len(L) /\ n # 0
    OBVIOUS
  <2> QED
    BY <1>4, <2>1
<1> QED
  BY <1>5, <1>6 DEF r

\* What is decided later does not change the reference of a prefix.
LEMMA ReferenceOfPrefix ==
  ASSUME NEW L, NEW L1, Len(L) \in Nat, Len(L1) \in Nat, Len(L) <= Len(L1),
         \A n \in 1..Len(L) : L1[n] = L[n]
  PROVE  \A n \in 0..Len(L) : ReferenceOf(L1)[n] = ReferenceOf(L)[n]
<1> DEFINE r == ReferenceOf(L)
           r1 == ReferenceOf(L1)
           P == {n \in Nat : r1[n] = r[n]}
<1>1. /\ r[0] = EmptyDb /\ r1[0] = EmptyDb
      /\ \A n \in 1..Len(L) : r[n] = engine_apply_outcome(r[n-1], n, L[n])
      /\ \A n \in 1..Len(L1) : r1[n] = engine_apply_outcome(r1[n-1], n, L1[n])
  BY ReferenceUnfolds
<1> HIDE DEF r, r1
<1>2. 0 \in P
  BY <1>1
<1>3. ASSUME NEW n \in 1..Len(L), n - 1 \in P PROVE n \in P
  <2>1. n \in 1..Len(L1) /\ n \in Nat /\ r1[n-1] = r[n-1] /\ L1[n] = L[n]
    BY <1>3
  <2> QED
    BY <1>1, <2>1
<1>4. \A n \in 0..Len(L) : n \in P
  <2> HIDE DEF P
  <2> QED
    BY <1>2, <1>3, SlotInduction
<1> QED
  BY <1>4 DEF r, r1

-----------------------------------------------------------------------------
\* Staging an entry of a group computes what the reference computes for it.
LEMMA StageMatches ==
  ASSUME NEW d, NEW slot, NEW m
  PROVE  engine_stage_request(d, slot, m).db = engine_apply_outcome(d, slot, m)
<1> DEFINE look == Lookup(d, slot, m)
           ran == engine_run_outcome(d, m)
           late == DeferredViolation(d, m)
<1>1. CASE ~look.execute
  BY <1>1 DEF engine_stage_request, engine_apply_outcome
<1>2. CASE look.execute /\ ran.kind # "Applied"
  BY <1>2 DEF engine_stage_request, engine_apply_outcome
<1>3. CASE look.execute /\ ran.kind = "Applied" /\ late
  BY <1>3 DEF engine_stage_request, engine_apply_outcome
<1>4. CASE look.execute /\ ran.kind = "Applied" /\ ~late
  BY <1>4 DEF engine_stage_request, engine_apply_outcome
<1> QED
  BY <1>1, <1>2, <1>3, <1>4

\* The group as a function of the log, and one more of its entries.
GroupOf(L, d, k) ==
    LET stage[i \in 0..k] ==
          IF i = 0 THEN [staged |-> TRUE, db |-> d]
          ELSE IF ~stage[i-1].staged THEN stage[i-1]
          ELSE engine_stage_request(stage[i-1].db, Through(d) + i, L[Through(d) + i])
    IN stage[k]

StageNext(L, d, v, i) ==
    IF ~v.staged THEN v
    ELSE engine_stage_request(v.db, Through(d) + i, L[Through(d) + i])

GroupUnfolds(L, d, top, g) ==
    g = [i \in 0..top |-> IF i = 0 THEN [staged |-> TRUE, db |-> d]
                          ELSE StageNext(L, d, g[i-1], i)]

\* The staging of a group exists, through every one of its entries.
LEMMA GroupUnfoldingExists ==
  ASSUME NEW L, NEW d, NEW top \in Nat
  PROVE  \E g : GroupUnfolds(L, d, top, g)
<1> DEFINE first == [staged |-> TRUE, db |-> d]
           P == {n \in Nat : \E g : GroupUnfolds(L, d, n, g)}
<1>1. 0 \in P
  <2> DEFINE g == [n \in 0..0 |-> first]
  <2>1. g = [n \in 0..0 |-> IF n = 0 THEN first ELSE StageNext(L, d, g[n-1], n)]
    OBVIOUS
  <2>2. GroupUnfolds(L, d, 0, g)
    <3> HIDE DEF g
    <3> QED
      BY <2>1 DEF GroupUnfolds
  <2> QED
    BY <2>2
<1>2. ASSUME NEW n \in 1..top, n - 1 \in P PROVE n \in P
  <2>1. PICK g : GroupUnfolds(L, d, n - 1, g)
    BY <1>2
  <2> DEFINE last == StageNext(L, d, g[n-1], n)
             h == [i \in 0..n |-> IF i = n THEN last ELSE g[i]]
  <2>2. g = [i \in 0..n-1 |-> IF i = 0 THEN first ELSE StageNext(L, d, g[i-1], i)]
    BY <2>1 DEF GroupUnfolds
  <2> HIDE DEF first
  <2>3. ASSUME NEW i \in 0..n
        PROVE  h[i] = IF i = 0 THEN first ELSE StageNext(L, d, h[i-1], i)
    <3>1. CASE i = n
      <4>1. n - 1 \in 0..n /\ n - 1 # n /\ n # 0
        OBVIOUS
      <4>2. h[n-1] = g[n-1] /\ h[n] = last
        BY <4>1
      <4> QED
        BY <3>1, <4>1, <4>2
    <3>2. CASE i # n
      <4>1. i \in 0..n-1 /\ (i # 0 => i - 1 \in 0..n /\ i - 1 # n)
        BY <3>2
      <4>2. h[i] = g[i] /\ (i # 0 => h[i-1] = g[i-1])
        BY <3>2, <4>1
      <4>3. g[i] = IF i = 0 THEN first ELSE StageNext(L, d, g[i-1], i)
        BY <2>2, <4>1
      <4> QED
        BY <4>2, <4>3
    <3> QED
      BY <3>1, <3>2
  <2>4. h = [i \in 0..n |-> IF i = 0 THEN first ELSE StageNext(L, d, h[i-1], i)]
    <3>1. h = [i \in 0..n |-> h[i]]
      OBVIOUS
    <3> HIDE DEF h
    <3> QED
      BY <2>3, <3>1
  <2>5. GroupUnfolds(L, d, n, h)
    <3> HIDE DEF h
    <3> QED
      BY <2>4 DEF GroupUnfolds, first
  <2>6. n \in Nat
    OBVIOUS
  <2> HIDE DEF h
  <2> QED
    BY <2>5, <2>6
<1>3. \A n \in 0..top : n \in P
  <2> HIDE DEF P
  <2> QED
    BY <1>1, <1>2, SlotInduction
<1> QED
  BY <1>3

\* A group that is staged to its end leaves the database of the reference.
LEMMA GroupMatches ==
  ASSUME NEW L, NEW d, NEW k \in Nat, Len(L) \in Nat, Through(d) \in Nat,
         Through(d) + k <= Len(L), d = ReferenceOf(L)[Through(d)],
         GroupOf(L, d, k).staged
  PROVE  GroupOf(L, d, k).db = ReferenceOf(L)[Through(d) + k]
<1> DEFINE r == ReferenceOf(L)
           from == Through(d)
           first == [staged |-> TRUE, db |-> d]
           g == CHOOSE f : GroupUnfolds(L, d, k, f)
           P == {i \in Nat : g[i].staged => g[i].db = r[from + i]}
<1>1. GroupOf(L, d, k) = g[k]
  BY DEF GroupOf, GroupUnfolds, StageNext
<1>2. GroupUnfolds(L, d, k, g)
  BY GroupUnfoldingExists
<1>3. g = [i \in 0..k |-> IF i = 0 THEN first ELSE StageNext(L, d, g[i-1], i)]
  BY <1>2 DEF GroupUnfolds
<1>4. \A n \in 1..Len(L) : r[n] = engine_apply_outcome(r[n-1], n, L[n])
  BY ReferenceUnfolds
<1> HIDE DEF g, r
<1>5. 0 \in P
  <2>1. g[0] = first
    BY <1>3
  <2>2. from + 0 = from /\ d = r[from]
    BY DEF r
  <2> QED
    BY <2>1, <2>2
<1>6. ASSUME NEW i \in 1..k, i - 1 \in P PROVE i \in P
  <2>1. i \in 0..k /\ i # 0 /\ i \in Nat
    OBVIOUS
  <2>2. g[i] = StageNext(L, d, g[i-1], i)
    BY <1>3, <2>1
  <2>3. SUFFICES ASSUME g[i].staged PROVE g[i].db = r[from + i]
    BY <2>1
  <2>4. g[i-1].staged /\ g[i] = engine_stage_request(g[i-1].db, from + i, L[from + i])
    BY <2>2, <2>3 DEF StageNext
  <2>5. g[i-1].db = r[from + (i - 1)]
    BY <1>6, <2>4
  <2>6. from + i \in 1..Len(L) /\ from + (i - 1) = (from + i) - 1
    OBVIOUS
  <2>7. g[i].db = engine_apply_outcome(g[i-1].db, from + i, L[from + i])
    BY <2>4, StageMatches
  <2> QED
    BY <1>4, <2>5, <2>6, <2>7
<1>7. \A i \in 0..k : i \in P
  <2> HIDE DEF P
  <2> QED
    BY <1>5, <1>6, SlotInduction
<1>8. k \in 0..k
  OBVIOUS
<1> QED
  BY <1>1, <1>7, <1>8 DEF r

-----------------------------------------------------------------------------
\* The tables of a database.
Digests == Nat \X Nat \X Statements
Rows == {NoRow} \cup [seq : Nat \ {0}, hash : Digests, out : Outcomes]
Databases == [rows : SUBSET Keys, sessions : [Sessions -> Rows], epoch : Nat, version : Nat,
              outcomes : Seq(Outcomes)]

\* Nothing but the rows is changed by SQL.
LEMMA ExecuteProperty ==
  ASSUME NEW d \in Databases, NEW body \in Statements
  PROVE  /\ Execute(d, body).kind \in Kinds
         /\ \E R \in SUBSET Keys : Execute(d, body).db = [d EXCEPT !.rows = R]
<1> DEFINE added == [d EXCEPT !.rows = @ \cup {body.key}]
           removed == [d EXCEPT !.rows = @ \ {body.key}]
           Fits(e) == \E R \in SUBSET Keys : e = [d EXCEPT !.rows = R]
<1>1. body.key \in Keys /\ d.rows \subseteq Keys
  BY DEF Statements, Databases
<1>2. Fits(added)
  <2>1. added = [d EXCEPT !.rows = d.rows \cup {body.key}]
    OBVIOUS
  <2>2. d.rows \cup {body.key} \in SUBSET Keys
    BY <1>1
  <2> HIDE DEF added
  <2> QED
    BY <2>1, <2>2
<1>3. Fits(removed)
  <2>1. removed = [d EXCEPT !.rows = d.rows \ {body.key}]
    OBVIOUS
  <2>2. d.rows \ {body.key} \in SUBSET Keys
    BY <1>1
  <2> HIDE DEF removed
  <2> QED
    BY <2>1, <2>2
<1>4. Fits(d)
  <2>1. d = [d EXCEPT !.rows = d.rows]
    BY DEF Databases
  <2> QED
    BY <1>1, <2>1
<1>5. Execute(d, body).db \in {added, removed, d} /\ Execute(d, body).kind \in Kinds
  <2> HIDE DEF added, removed
  <2>1. CASE body.op = "replace"
    BY <2>1 DEF Execute, Kinds, added, removed
  <2>2. CASE body.op = "insert"
    BY <2>2 DEF Execute, Kinds, added, removed
  <2>3. CASE body.op = "rollback"
    BY <2>3 DEF Execute, Kinds, added, removed
  <2>4. CASE body.op = "delete"
    BY <2>4 DEF Execute, Kinds, added, removed
  <2>5. CASE body.op = "child"
    BY <2>5 DEF Execute, Kinds, added, removed
  <2>6. CASE body.op = "denied"
    BY <2>6 DEF Execute, Kinds, added, removed
  <2>7. CASE body.op = "invalid"
    BY <2>7 DEF Execute, Kinds, added, removed
  <2> QED
    BY <2>1, <2>2, <2>3, <2>4, <2>5, <2>6, <2>7 DEF Statements
<1> QED
  <2> HIDE DEF added, removed
  <2> QED
    BY <1>2, <1>3, <1>4, <1>5

\* Running a mutation leaves outcomes and revision alone; only the retirement
\* of sessions touches epoch and sessions.
LEMMA RunProperty ==
  ASSUME NEW d \in Databases, NEW m \in Mutations
  PROVE  LET run == engine_run_outcome(d, m) IN
         /\ run.kind \in Kinds
         /\ run.db \in Databases
         /\ run.db.outcomes = d.outcomes /\ run.db.version = d.version
         /\ \/ run.db.epoch = d.epoch /\ run.db.sessions = d.sessions
            \/ /\ m.kind = "Session_Epoch" /\ run.db.epoch = d.epoch + 1
               /\ run.db.sessions = [s \in Sessions |-> NoRow]
         /\ m.kind = "Transaction" /\ run.kind = "Applied" => ~StaleRevision(d, m)
<1> DEFINE run == engine_run_outcome(d, m)
<1>a. ASSUME NEW R \in SUBSET Keys
      PROVE  LET e == [d EXCEPT !.rows = R] IN
             /\ e \in Databases /\ e.outcomes = d.outcomes /\ e.version = d.version
             /\ e.epoch = d.epoch /\ e.sessions = d.sessions
  BY DEF Databases
<1>b. ASSUME NEW body \in Statements
      PROVE  LET e == Execute(d, body) IN
             /\ e.kind \in Kinds
             /\ e.db \in Databases /\ e.db.outcomes = d.outcomes /\ e.db.version = d.version
             /\ e.db.epoch = d.epoch /\ e.db.sessions = d.sessions
  <2>1. PICK R \in SUBSET Keys : Execute(d, body).db = [d EXCEPT !.rows = R]
    BY ExecuteProperty
  <2>2. Execute(d, body).kind \in Kinds
    BY ExecuteProperty
  <2> QED
    BY <1>a, <2>1, <2>2
<1>1. CASE m.kind = "Skip"
  <2>1. run = [kind |-> "Applied", db |-> d]
    BY <1>1 DEF engine_run_outcome
  <2> HIDE DEF run
  <2> QED
    BY <1>1, <2>1 DEF Kinds, run
<1>2. CASE m.kind = "Session_Epoch"
  <2>1. run = engine_retire_sessions(d, m.expected)
    BY <1>2 DEF engine_run_outcome
  <2> DEFINE e == [d EXCEPT !.epoch = @ + 1, !.sessions = [s \in Sessions |-> NoRow]]
  <2>2. /\ e \in Databases /\ e.outcomes = d.outcomes /\ e.version = d.version
        /\ e.epoch = d.epoch + 1 /\ e.sessions = [s \in Sessions |-> NoRow]
    <3> DEFINE none == [s \in Sessions |-> NoRow]
    <3>1. none \in [Sessions -> Rows]
      BY DEF Rows
    <3> HIDE DEF none
    <3>2. \A x \in Nat : LET f == [d EXCEPT !.epoch = x, !.sessions = none] IN
              /\ f \in Databases /\ f.outcomes = d.outcomes /\ f.version = d.version
              /\ f.epoch = x /\ f.sessions = none
      BY <3>1 DEF Databases
    <3>3. e = [d EXCEPT !.epoch = d.epoch + 1, !.sessions = none] /\ d.epoch + 1 \in Nat
      BY DEF none, Databases
    <3> HIDE DEF e
    <3> QED
      BY <3>2, <3>3 DEF none
  <2>3. run.kind \in {"Applied", "Conflict"} /\ run.db \in {d, e}
    BY <2>1 DEF engine_retire_sessions
  <2> HIDE DEF e, run
  <2> QED
    BY <1>2, <2>2, <2>3 DEF Kinds, run
<1>3. CASE m.kind = "Raw_SQL"
  <2>1. run = Execute(d, m.body) /\ m.body \in Statements
    BY <1>3 DEF engine_run_outcome, Mutations
  <2> HIDE DEF run
  <2> QED
    BY <1>3, <1>b, <2>1 DEF run
<1>4. CASE m.kind = "Transaction"
  <2>1. /\ run = IF StaleRevision(d, m) THEN [kind |-> "Conflict", db |-> d]
                 ELSE Execute(d, m.body)
        /\ m.body \in Statements
    BY <1>4 DEF engine_run_outcome, Mutations
  <2>2. CASE StaleRevision(d, m)
    <3>1. run = [kind |-> "Conflict", db |-> d]
      BY <2>1, <2>2
    <3> HIDE DEF run
    <3> QED
      BY <1>4, <3>1 DEF Kinds, run
  <2>3. CASE ~StaleRevision(d, m)
    <3>1. run = Execute(d, m.body)
      BY <2>1, <2>3
    <3> HIDE DEF run
    <3> QED
      BY <1>4, <1>b, <2>1, <2>3, <3>1 DEF run
  <2> QED
    BY <2>2, <2>3
<1> QED
  BY <1>1, <1>2, <1>3, <1>4 DEF Mutations

\* The row that a request leaves behind.
NewRow(m, out) == [seq |-> m.sequence, hash |-> transaction_digest(m), out |-> out]

\* What engine_record_outcome writes: r is d after it.
Recorded(r, d, slot, out, m, record) ==
    /\ r \in Databases
    /\ r.epoch = d.epoch
    /\ r.outcomes = Append(d.outcomes, out)
    /\ r.version = IF AdvancesVersion(slot, out, m) THEN slot + 1 ELSE d.version
    /\ r.sessions = IF record THEN [d.sessions EXCEPT ![m.session] = NewRow(m, out)]
                    ELSE d.sessions

\* Recording an outcome writes exactly that.
LEMMA RecordProperty ==
  ASSUME NEW d \in Databases, NEW slot \in Nat, NEW out \in Outcomes, NEW m \in Mutations,
         NEW record \in BOOLEAN, record => m.kind = "Transaction"
  PROVE  Recorded(engine_record_outcome(d, slot, out, m, record), d, slot, out, m, record)
<1> DEFINE v == IF AdvancesVersion(slot, out, m) THEN slot + 1 ELSE d.version
           o == Append(d.outcomes, out)
           t == IF record THEN [d.sessions EXCEPT ![m.session] = NewRow(m, out)]
                ELSE d.sessions
<1>1. v \in Nat
  BY DEF Databases
<1>2. o \in Seq(Outcomes)
  BY DEF Databases
<1>3. t \in [Sessions -> Rows]
  <2>1. CASE record
    <3>1. /\ m.kind = "Transaction" /\ m.session \in Sessions /\ m.sequence \in Nat \ {0}
          /\ m.epoch \in Nat /\ m.read_version \in Nat /\ m.body \in Statements
      BY <2>1 DEF Mutations
    <3>2. transaction_digest(m) \in Digests
      BY <3>1 DEF transaction_digest, Digests
    <3>3. NewRow(m, out) \in Rows
      BY <3>1, <3>2 DEF NewRow, Rows
    <3> QED
      BY <2>1, <3>1, <3>3 DEF Databases
  <2>2. CASE ~record
    BY <2>2 DEF Databases
  <2> QED
    BY <2>1, <2>2
<1>4. engine_record_outcome(d, slot, out, m, record) =
          [d EXCEPT !.version = v, !.outcomes = o, !.sessions = t]
  BY DEF engine_record_outcome, NewRow
<1> HIDE DEF v, o, t
<1>5. LET r == [d EXCEPT !.version = v, !.outcomes = o, !.sessions = t] IN
      /\ r \in Databases /\ r.epoch = d.epoch
      /\ r.outcomes = o /\ r.version = v /\ r.sessions = t
  BY <1>1, <1>2, <1>3 DEF Databases
<1> QED
  BY <1>4, <1>5 DEF v, o, t, Recorded

-----------------------------------------------------------------------------
\* The ways a request is answered in its slot.  Refusals and repeated answers
\* write no row; a gap and an execution do, above the row that was there.
Answer(d, slot, m, out, record) ==
    LET row == d.sessions[m.session] IN
    \/ /\ ~record /\ out = Out("Expired", slot)
       /\ m.epoch # d.epoch \/ (row # NoRow /\ m.sequence < row.seq)
    \/ /\ ~record /\ m.epoch = d.epoch /\ row # NoRow /\ m.sequence = row.seq
       /\ row.hash # transaction_digest(m) /\ out = Out("Identity_Conflict", slot)
    \/ /\ ~record /\ m.epoch = d.epoch /\ row # NoRow /\ m.sequence = row.seq
       /\ row.hash = transaction_digest(m) /\ out = row.out
    \/ /\ ~record /\ m.epoch = d.epoch /\ row = NoRow
       /\ SessionCount(d) >= MAX_REQUEST_SESSIONS /\ out = Out("Session_Limit", slot)
    \/ /\ record /\ m.epoch = d.epoch /\ m.sequence > row.seq
       /\ row # NoRow \/ SessionCount(d) < MAX_REQUEST_SESSIONS
       /\ out.slot = slot
       /\ out.kind = "Applied" => m.sequence = row.seq + 1 /\ ~StaleRevision(d, m)

\* The outcome, the revision and the log position after slot; the sessions are
\* left to the kind of the mutation.
Moved(d, e, slot, m, out) ==
    /\ e \in Databases /\ out \in Outcomes
    /\ e.outcomes = Append(d.outcomes, out)
    /\ e.version = IF AdvancesVersion(slot, out, m) THEN slot + 1 ELSE d.version

\* The lookup is one of those answers, or permits execution.
LEMMA LookupProperty ==
  ASSUME NEW d \in Databases, NEW slot \in 1..MaxSlot, NEW m \in Mutations,
         m.kind = "Transaction", SessionCount(d) \in Nat
  PROVE  LET look == Lookup(d, slot, m)
             row == d.sessions[m.session]
         IN /\ look.out \in Outcomes /\ look.record \in BOOLEAN /\ look.execute \in BOOLEAN
            /\ look.execute => /\ m.epoch = d.epoch /\ m.sequence = row.seq + 1
                               /\ m.sequence > row.seq /\ look.record
                               /\ row # NoRow \/ SessionCount(d) < MAX_REQUEST_SESSIONS
            /\ ~look.execute => Answer(d, slot, m, look.out, look.record)
<1> DEFINE row == d.sessions[m.session]
           look == Lookup(d, slot, m)
           answer(out, record) == [out |-> out, execute |-> FALSE, record |-> record]
<1>1. /\ m.session \in Sessions /\ m.sequence \in Nat /\ m.sequence > 0
      /\ row \in Rows /\ MAX_REQUEST_SESSIONS \in Nat
  BY EngineAssumption DEF Mutations, Databases
<1>2. row.seq \in Nat /\ (row = NoRow => row.seq = 0) /\ (row # NoRow => row.out \in Outcomes)
  BY <1>1 DEF Rows, NoRow
<1>3. look = engine_request_lookup(d, m, slot)
  BY DEF Lookup
<1>4. \A kind \in Kinds : Out(kind, slot) \in Outcomes /\ Out(kind, slot).kind = kind
                          /\ Out(kind, slot).slot = slot
  BY DEF Out, Outcomes
<1>5. {"Expired", "Identity_Conflict", "Session_Limit", "Sequence_Gap", "Applied"} \subseteq Kinds
  BY DEF Kinds
<1> HIDE DEF look, row
<1>a. CASE m.epoch # d.epoch \/ (row # NoRow /\ m.sequence < row.seq)
  <2>1. look = answer(Out("Expired", slot), FALSE)
    BY <1>3, <1>a DEF engine_request_lookup, row
  <2> QED
    BY <1>4, <1>5, <1>a, <2>1 DEF Answer, look, row
<1>b. CASE m.epoch = d.epoch /\ row # NoRow /\ m.sequence = row.seq
  <2>1. CASE row.hash # transaction_digest(m)
    <3>1. look = answer(Out("Identity_Conflict", slot), FALSE)
      BY <1>2, <1>3, <1>b, <2>1 DEF engine_request_lookup, row
    <3> QED
      BY <1>4, <1>5, <1>b, <2>1, <3>1 DEF Answer, look, row
  <2>2. CASE row.hash = transaction_digest(m)
    <3>1. look = answer(row.out, FALSE)
      BY <1>2, <1>3, <1>b, <2>2 DEF engine_request_lookup, row
    <3> QED
      BY <1>2, <1>b, <2>2, <3>1 DEF Answer, look, row
  <2> QED
    BY <2>1, <2>2
<1>c. CASE /\ m.epoch = d.epoch /\ row = NoRow /\ SessionCount(d) >= MAX_REQUEST_SESSIONS
  <2>1. look = answer(Out("Session_Limit", slot), FALSE)
    BY <1>3, <1>c DEF engine_request_lookup, row
  <2> QED
    BY <1>4, <1>5, <1>c, <2>1 DEF Answer, look, row
<1>d. CASE /\ m.epoch = d.epoch /\ m.sequence > row.seq
           /\ row # NoRow \/ SessionCount(d) < MAX_REQUEST_SESSIONS
  <2>1. ~(row # NoRow /\ m.sequence < row.seq) /\ ~(row # NoRow /\ m.sequence = row.seq)
    BY <1>1, <1>2, <1>d
  <2>2. ~(row = NoRow /\ SessionCount(d) >= MAX_REQUEST_SESSIONS)
    BY <1>1, <1>d
  <2>3. CASE m.sequence # row.seq + 1
    <3>1. look = answer(Out("Sequence_Gap", slot), TRUE)
      BY <1>3, <1>d, <2>1, <2>2, <2>3 DEF engine_request_lookup, row
    <3> QED
      BY <1>4, <1>5, <1>d, <2>3, <3>1 DEF Answer, look, row
  <2>4. CASE m.sequence = row.seq + 1
    <3>1. look = [out |-> Out("Applied", slot), execute |-> TRUE, record |-> TRUE]
      BY <1>3, <1>d, <2>1, <2>2, <2>4 DEF engine_request_lookup, row
    <3> QED
      BY <1>4, <1>5, <1>d, <2>4, <3>1 DEF look, row
  <2> QED
    BY <2>3, <2>4
<1> QED
  <2>1. \/ m.epoch # d.epoch \/ (row # NoRow /\ m.sequence < row.seq)
        \/ m.epoch = d.epoch /\ row # NoRow /\ m.sequence = row.seq
        \/ m.epoch = d.epoch /\ row = NoRow /\ SessionCount(d) >= MAX_REQUEST_SESSIONS
        \/ /\ m.epoch = d.epoch /\ m.sequence > row.seq
           /\ row # NoRow \/ SessionCount(d) < MAX_REQUEST_SESSIONS
    BY <1>1, <1>2
  <2> QED
    BY <1>a, <1>b, <1>c, <1>d, <2>1

\* A request in its slot: one of the answers, and its row when it is recorded.
LEMMA TransactionStep ==
  ASSUME NEW d \in Databases, NEW slot \in 1..MaxSlot, NEW m \in Mutations,
         m.kind = "Transaction", SessionCount(d) \in Nat
  PROVE  LET e == engine_apply_outcome(d, slot, m) IN
         \E out \in Outcomes, record \in BOOLEAN :
             /\ Answer(d, slot, m, out, record)
             /\ Moved(d, e, slot, m, out)
             /\ e.epoch = d.epoch
             /\ e.sessions = IF record THEN [d.sessions EXCEPT ![m.session] = NewRow(m, out)]
                             ELSE d.sessions
<1> DEFINE look == Lookup(d, slot, m)
           run == engine_run_outcome(d, m)
           e == engine_apply_outcome(d, slot, m)
           row == d.sessions[m.session]
           Result(out, record) ==
             /\ Answer(d, slot, m, out, record)
             /\ Moved(d, e, slot, m, out)
             /\ e.epoch = d.epoch
             /\ e.sessions = IF record THEN [d.sessions EXCEPT ![m.session] = NewRow(m, out)]
                             ELSE d.sessions
<1>1. /\ look.out \in Outcomes /\ look.record \in BOOLEAN /\ look.execute \in BOOLEAN
      /\ look.execute => /\ m.epoch = d.epoch /\ m.sequence = row.seq + 1
                         /\ m.sequence > row.seq /\ look.record
                         /\ row # NoRow \/ SessionCount(d) < MAX_REQUEST_SESSIONS
      /\ ~look.execute => Answer(d, slot, m, look.out, look.record)
  BY LookupProperty
<1>2. /\ run.kind \in Kinds /\ run.db \in Databases
      /\ run.db.outcomes = d.outcomes /\ run.db.version = d.version
      /\ run.db.epoch = d.epoch /\ run.db.sessions = d.sessions
      /\ run.kind = "Applied" => ~StaleRevision(d, m)
  BY RunProperty
<1>3. slot \in Nat /\ \A kind \in Kinds : /\ Out(kind, slot) \in Outcomes
                                          /\ Out(kind, slot).kind = kind
                                          /\ Out(kind, slot).slot = slot
  BY DEF Out, Outcomes
<1>4. {"Applied", "Constraint"} \subseteq Kinds
  BY DEF Kinds
<1> HIDE DEF look, run, e
<1>5. CASE ~look.execute
  <2>1. e = engine_record_outcome(d, slot, look.out, m, look.record)
    BY <1>5 DEF engine_apply_outcome, look, e
  <2>2. Moved(d, e, slot, m, look.out) /\ e.epoch = d.epoch
        /\ e.sessions = IF look.record
                        THEN [d.sessions EXCEPT ![m.session] = NewRow(m, look.out)]
                        ELSE d.sessions
    <3> DEFINE out == look.out
               record == look.record
    <3>1. out \in Outcomes /\ record \in BOOLEAN /\ slot \in Nat
      BY <1>1, <1>3
    <3> HIDE DEF out, record
    <3>2. Recorded(engine_record_outcome(d, slot, out, m, record), d, slot, out, m, record)
      BY <3>1, RecordProperty, Zenon
    <3>3. e = engine_record_outcome(d, slot, out, m, record)
      BY <2>1 DEF out, record
    <3>4. Moved(d, e, slot, m, out) /\ e.epoch = d.epoch
          /\ e.sessions = IF record THEN [d.sessions EXCEPT ![m.session] = NewRow(m, out)]
                          ELSE d.sessions
      BY <3>1, <3>2, <3>3, Zenon DEF Moved, Recorded
    <3> QED
      BY <3>4 DEF out, record
  <2>3. Result(look.out, look.record)
    BY <1>1, <1>5, <2>2
  <2> HIDE DEF Result
  <2> QED
    BY <1>1, <2>3 DEF Result, e
<1>6. CASE look.execute
  <2>1. look.record = TRUE
    BY <1>1, <1>6
  <2>2. PICK kind \in Kinds, before \in {d, run.db} :
          /\ e = engine_record_outcome(before, slot, Out(kind, slot), m, TRUE)
          /\ kind = "Applied" => run.kind = "Applied"
    <3>1. CASE run.kind # "Applied"
      <4>1. e = engine_record_outcome(d, slot, Out(run.kind, slot), m, TRUE)
        BY <1>6, <2>1, <3>1 DEF engine_apply_outcome, look, run, e
      <4> QED
        BY <1>2, <3>1, <4>1
    <3>2. CASE run.kind = "Applied" /\ DeferredViolation(d, m)
      <4>1. e = engine_record_outcome(d, slot, Out("Constraint", slot), m, TRUE)
        BY <1>6, <2>1, <3>2 DEF engine_apply_outcome, look, run, e
      <4> QED
        BY <1>4, <4>1
    <3>3. CASE run.kind = "Applied" /\ ~DeferredViolation(d, m)
      <4>1. e = engine_record_outcome(run.db, slot, Out("Applied", slot), m, TRUE)
        BY <1>6, <2>1, <3>3 DEF engine_apply_outcome, look, run, e
      <4> QED
        BY <1>4, <3>3, <4>1
    <3> QED
      BY <3>1, <3>2, <3>3
  <2> DEFINE out == Out(kind, slot)
  <2>3. out \in Outcomes /\ out.kind = kind /\ out.slot = slot
    BY <1>3
  <2> HIDE DEF out
  <2>4. /\ before \in Databases /\ before.outcomes = d.outcomes /\ before.version = d.version
        /\ before.epoch = d.epoch /\ before.sessions = d.sessions
    BY <1>2
  <2>5. e = engine_record_outcome(before, slot, out, m, TRUE)
    BY <2>2 DEF out
  <2>6. /\ Moved(d, e, slot, m, out) /\ e.epoch = d.epoch
        /\ e.sessions = [d.sessions EXCEPT ![m.session] = NewRow(m, out)]
    <3>1. slot \in Nat /\ TRUE \in BOOLEAN
      BY <1>3
    <3>2. Recorded(engine_record_outcome(before, slot, out, m, TRUE), before, slot, out, m, TRUE)
      BY <2>3, <2>4, <3>1, RecordProperty, Zenon
    <3> QED
      BY <2>3, <2>4, <2>5, <3>2, Zenon DEF Moved, Recorded
  <2>7. Answer(d, slot, m, out, TRUE)
    BY <1>1, <1>2, <1>6, <2>2, <2>3 DEF Answer
  <2>8. Result(out, TRUE)
    BY <2>6, <2>7
  <2> HIDE DEF Result
  <2> QED
    BY <2>3, <2>8 DEF Result, e
<1> QED
  BY <1>1, <1>5, <1>6

\* Any other mutation in its slot: the sessions stay, or are all retired.
LEMMA OtherStep ==
  ASSUME NEW d \in Databases, NEW slot \in 1..MaxSlot, NEW m \in Mutations,
         m.kind # "Transaction"
  PROVE  LET e == engine_apply_outcome(d, slot, m) IN
         \E out \in Outcomes :
             /\ Moved(d, e, slot, m, out)
             /\ \/ e.epoch = d.epoch /\ e.sessions = d.sessions
                \/ e.epoch = d.epoch + 1 /\ e.sessions = [s \in Sessions |-> NoRow]
<1> DEFINE run == engine_run_outcome(d, m)
           e == engine_apply_outcome(d, slot, m)
<1>1. Lookup(d, slot, m) = [out |-> Out("Applied", slot), execute |-> TRUE, record |-> FALSE]
  BY DEF Lookup
<1>2. /\ run.kind \in Kinds /\ run.db \in Databases
      /\ run.db.outcomes = d.outcomes /\ run.db.version = d.version
      /\ \/ run.db.epoch = d.epoch /\ run.db.sessions = d.sessions
         \/ /\ run.db.epoch = d.epoch + 1
            /\ run.db.sessions = [s \in Sessions |-> NoRow]
  BY RunProperty
<1>3. slot \in Nat /\ \A kind \in Kinds : Out(kind, slot) \in Outcomes
  BY DEF Out, Outcomes
<1>4. {"Applied", "Constraint"} \subseteq Kinds
  BY DEF Kinds
<1> HIDE DEF run, e
<1>5. PICK kind \in Kinds, before \in {d, run.db} :
          e = engine_record_outcome(before, slot, Out(kind, slot), m, FALSE)
  <2>1. CASE run.kind # "Applied"
    <3>1. e = engine_record_outcome(d, slot, Out(run.kind, slot), m, FALSE)
      BY <1>1, <2>1 DEF engine_apply_outcome, run, e
    <3> QED
      BY <1>2, <3>1
  <2>2. CASE run.kind = "Applied" /\ DeferredViolation(d, m)
    <3>1. e = engine_record_outcome(d, slot, Out("Constraint", slot), m, FALSE)
      BY <1>1, <2>2 DEF engine_apply_outcome, run, e
    <3> QED
      BY <1>4, <3>1
  <2>3. CASE run.kind = "Applied" /\ ~DeferredViolation(d, m)
    <3>1. e = engine_record_outcome(run.db, slot, Out("Applied", slot), m, FALSE)
      BY <1>1, <2>3 DEF engine_apply_outcome, run, e
    <3> QED
      BY <1>4, <3>1
  <2> QED
    BY <2>1, <2>2, <2>3
<1> DEFINE out == Out(kind, slot)
<1>6. out \in Outcomes /\ before \in Databases
  BY <1>2, <1>3
<1> HIDE DEF out
<1>7. e = engine_record_outcome(before, slot, out, m, FALSE)
  BY <1>5 DEF out
<1>8. /\ e \in Databases /\ e.epoch = before.epoch /\ e.sessions = before.sessions
      /\ e.outcomes = Append(before.outcomes, out)
      /\ e.version = IF AdvancesVersion(slot, out, m) THEN slot + 1 ELSE before.version
  <2>1. slot \in Nat /\ FALSE \in BOOLEAN
    BY <1>3
  <2>2. Recorded(engine_record_outcome(before, slot, out, m, FALSE), before, slot, out, m, FALSE)
    BY <1>6, <2>1, RecordProperty, Zenon
  <2> QED
    BY <1>7, <2>2, Zenon DEF Recorded
<1>9. before.outcomes = d.outcomes /\ before.version = d.version
  BY <1>2
<1>10. Moved(d, e, slot, m, out)
  BY <1>6, <1>8, <1>9 DEF Moved
<1>11. \/ e.epoch = d.epoch /\ e.sessions = d.sessions
       \/ e.epoch = d.epoch + 1 /\ e.sessions = [s \in Sessions |-> NoRow]
  BY <1>2, <1>8
<1> QED
  BY <1>6, <1>10, <1>11 DEF e

-----------------------------------------------------------------------------
\* What is to be shown of a database d that has executed a prefix of L.
Did(d, t) == d.outcomes[t].kind = "Applied" /\ d.outcomes[t].slot = t

Known(d) == {s \in Sessions : d.sessions[s] # NoRow}

\* The tables: the session table within its limit, no row ahead of the log.
TablesGood(d) ==
    /\ d \in Databases /\ d.version \in 1..Through(d) + 1
    /\ IsFiniteSet(Known(d)) /\ SessionCount(d) <= MAX_REQUEST_SESSIONS
    /\ \A s \in Sessions : d.sessions[s] # NoRow => d.sessions[s].out.slot <= Through(d)

\* The revision is above every slot that executed.
VersionGood(L, d) ==
    \A t \in 1..Through(d) : L[t].kind # "Skip" /\ Did(d, t) => t < d.version

\* Why a repeated request m, which was answered out, cannot execute again nor
\* be answered otherwise while its epoch lasts.
Told(d, m, out) ==
    /\ m.epoch <= d.epoch
    /\ m.epoch = d.epoch =>
         LET row == d.sessions[m.session] IN
         \/ row.seq > m.sequence
         \/ row.seq = m.sequence /\ row.hash = transaction_digest(m) /\ row.out = out
         \/ /\ row.seq = m.sequence /\ row.hash # transaction_digest(m)
            /\ out.kind = "Identity_Conflict"
         \/ /\ row = NoRow /\ SessionCount(d) >= MAX_REQUEST_SESSIONS
            /\ out.kind = "Session_Limit"

ToldGood(L, d) ==
    \A t \in 1..Through(d) : L[t].kind = "Transaction" => Told(d, L[t], d.outcomes[t])

\* The three properties of histories, of one database.
OnceIn(L, d) ==
    \A s1, s2 \in 1..Through(d) :
        s1 < s2 /\ SameIdentity(L[s1], L[s2]) => ~(Did(d, s1) /\ Did(d, s2))

Agrees(first, later) ==
    \/ later.kind = "Expired"
    \/ later = first
    \/ later.kind = first.kind /\ first.kind \in {"Session_Limit", "Identity_Conflict"}

StableIn(L, d) ==
    \A s1, s2 \in 1..Through(d) :
        s1 < s2 /\ L[s1].kind = "Transaction" /\ L[s1] = L[s2] =>
            Agrees(d.outcomes[s1], d.outcomes[s2])

IsolatedIn(L, d) ==
    \A s \in 1..Through(d) :
        L[s].kind = "Transaction" /\ L[s].read_version # 0 /\ Did(d, s) =>
            \A t \in 1..s-1 : t >= L[s].read_version =>
                ~(L[t].kind \in {"Transaction", "Raw_SQL"} /\ Did(d, t))

Good(L, d) ==
    /\ TablesGood(d) /\ VersionGood(L, d) /\ ToldGood(L, d)
    /\ OnceIn(L, d) /\ StableIn(L, d) /\ IsolatedIn(L, d)

\* The slot that comes next, its mutation, and what the client knew.
NextSlot(L, d, slot, m) ==
    /\ slot = Through(d) + 1 /\ slot \in 1..MaxSlot
    /\ m = L[slot] /\ m \in Mutations
    /\ m.kind = "Transaction" => m.epoch <= d.epoch

\* The outcomes grow by one; the older ones stay.
LEMMA MovedProperty ==
  ASSUME NEW d \in Databases, NEW e, NEW slot, NEW m, NEW out,
         slot = Through(d) + 1, Moved(d, e, slot, m, out)
  PROVE  /\ Through(d) \in Nat /\ slot \in Nat /\ Through(e) = slot /\ e.outcomes[slot] = out
         /\ \A t \in 1..Through(d) : e.outcomes[t] = d.outcomes[t] /\ t # slot /\ t < slot
         /\ \A t \in 1..Through(d) : Did(e, t) <=> Did(d, t)
         /\ \A t \in 1..Through(e) : t \in 1..Through(d) \/ t = slot
<1>1. d.outcomes \in Seq(Outcomes) /\ out \in Outcomes /\ e.outcomes = Append(d.outcomes, out)
  BY DEF Databases, Moved
<1>2. Through(d) = Len(d.outcomes) /\ Through(e) = Len(e.outcomes)
  BY DEF Through
<1>3. Through(d) \in Nat /\ Through(e) = slot /\ slot \in Nat
  BY <1>1, <1>2
<1>4. e.outcomes[slot] = out
  BY <1>1, <1>2
<1>5. \A t \in 1..Through(d) : e.outcomes[t] = d.outcomes[t] /\ t # slot /\ t < slot
  BY <1>1, <1>2
<1>6. \A t \in 1..Through(e) : t \in 1..Through(d) \/ t = slot
  BY <1>3
<1> QED
  BY <1>3, <1>4, <1>5, <1>6 DEF Did

\* An executed slot raises the revision above itself.
LEMMA VersionStep ==
  ASSUME NEW L, NEW d \in Databases, NEW e, NEW slot, NEW m, NEW out,
         d.version \in 1..Through(d) + 1, VersionGood(L, d),
         NextSlot(L, d, slot, m), Moved(d, e, slot, m, out)
  PROVE  e.version \in 1..Through(e) + 1 /\ VersionGood(L, e)
<1>1. slot = Through(d) + 1 /\ m = L[slot]
  BY DEF NextSlot
<1>2. /\ Through(d) \in Nat /\ slot \in Nat /\ Through(e) = slot /\ e.outcomes[slot] = out
      /\ \A t \in 1..Through(d) : Did(e, t) <=> Did(d, t)
      /\ \A t \in 1..Through(e) : t \in 1..Through(d) \/ t = slot
  BY <1>1, MovedProperty
<1>3. e.version = IF AdvancesVersion(slot, out, m) THEN slot + 1 ELSE d.version
  BY DEF Moved
<1>4. e.version \in 1..slot + 1 /\ d.version <= e.version
  BY <1>1, <1>2, <1>3
<1>5. ASSUME NEW t \in 1..Through(e), L[t].kind # "Skip", Did(e, t) PROVE t < e.version
  <2>1. CASE t = slot
    <3>1. AdvancesVersion(slot, out, m)
      BY <1>1, <1>2, <1>5, <2>1 DEF AdvancesVersion, Did
    <3> QED
      BY <1>2, <1>3, <2>1, <3>1
  <2>2. CASE t \in 1..Through(d)
    <3>1. t < d.version
      BY <1>2, <1>5, <2>2 DEF VersionGood
    <3> QED
      BY <1>2, <1>4, <3>1
  <2> QED
    BY <1>2, <2>1, <2>2
<1> QED
  BY <1>2, <1>4, <1>5 DEF VersionGood

\* A request was handled in its slot (the conclusion of TransactionStep).
Handled(d, e, slot, m, out, record) ==
    /\ m.kind = "Transaction" /\ record \in BOOLEAN
    /\ Answer(d, slot, m, out, record) /\ Moved(d, e, slot, m, out)
    /\ e.epoch = d.epoch
    /\ e.sessions = IF record THEN [d.sessions EXCEPT ![m.session] = NewRow(m, out)]
                    ELSE d.sessions

\* The row of a request's session and the types around it.
LEMMA RequestTypes ==
  ASSUME NEW d, TablesGood(d), NEW m \in Mutations, m.kind = "Transaction"
  PROVE  /\ m.session \in Sessions /\ m.sequence \in Nat /\ m.sequence > 0 /\ m.epoch \in Nat
         /\ d.sessions[m.session] \in Rows /\ d.sessions[m.session].seq \in Nat
         /\ d.sessions[m.session] = NoRow => d.sessions[m.session].seq = 0
         /\ d.sessions[m.session] # NoRow => d.sessions[m.session].seq > 0
         /\ d \in Databases /\ d.epoch \in Nat /\ DOMAIN d.sessions = Sessions
         /\ SessionCount(d) = Cardinality(Known(d)) /\ SessionCount(d) \in Nat
         /\ MAX_REQUEST_SESSIONS \in Nat
<1>1. /\ m.session \in Sessions /\ m.sequence \in Nat /\ m.sequence > 0 /\ m.epoch \in Nat
  BY DEF Mutations
<1>2. d \in Databases /\ d.epoch \in Nat /\ d.sessions \in [Sessions -> Rows]
  BY DEF TablesGood, Databases
<1>3. d.sessions[m.session] \in Rows /\ DOMAIN d.sessions = Sessions
  BY <1>1, <1>2
<1>4. \A row \in Rows : /\ row.seq \in Nat /\ (row = NoRow => row.seq = 0)
                        /\ (row # NoRow => row.seq > 0)
  BY DEF Rows, NoRow
<1>5. SessionCount(d) = Cardinality(Known(d)) /\ SessionCount(d) \in Nat
  BY FS_CardinalityType DEF TablesGood, SessionCount, Known
<1> QED
  BY <1>1, <1>2, <1>3, <1>4, <1>5, EngineAssumption

\* Recording a row adds at most its session to the known ones, and that only
\* below the limit.
LEMMA KnownStep ==
  ASSUME NEW d, NEW e, NEW slot, NEW m \in Mutations, NEW out, NEW record,
         TablesGood(d), Handled(d, e, slot, m, out, record)
  PROVE  /\ IsFiniteSet(Known(e)) /\ SessionCount(e) <= MAX_REQUEST_SESSIONS
         /\ SessionCount(d) >= MAX_REQUEST_SESSIONS => SessionCount(e) = SessionCount(d)
<1> DEFINE row == d.sessions[m.session]
<1>0. m.kind = "Transaction"
  BY DEF Handled
<1>1. /\ m.session \in Sessions /\ DOMAIN d.sessions = Sessions
      /\ SessionCount(d) = Cardinality(Known(d)) /\ SessionCount(d) \in Nat
      /\ MAX_REQUEST_SESSIONS \in Nat /\ d.sessions \in [Sessions -> Rows]
      /\ SessionCount(e) = Cardinality(Known(e))
      /\ IsFiniteSet(Known(d)) /\ SessionCount(d) <= MAX_REQUEST_SESSIONS
  BY <1>0, RequestTypes DEF TablesGood, SessionCount, Known, Databases
<1>2. CASE ~record
  <2>1. Known(e) = Known(d)
    BY <1>2 DEF Handled, Known
  <2> QED
    BY <1>1, <2>1
<1>3. CASE record
  <2>1. e.sessions = [d.sessions EXCEPT ![m.session] = NewRow(m, out)]
    BY <1>3 DEF Handled
  <2>2. NewRow(m, out) # NoRow
    BY DEF NewRow, NoRow
  <2>3. Known(e) = Known(d) \cup {m.session}
    BY <1>1, <2>1, <2>2 DEF Known
  <2>4. row # NoRow \/ SessionCount(d) < MAX_REQUEST_SESSIONS
    BY <1>3 DEF Handled, Answer
  <2>5. /\ IsFiniteSet(Known(e))
        /\ Cardinality(Known(e)) = IF m.session \in Known(d) THEN Cardinality(Known(d))
                                   ELSE Cardinality(Known(d)) + 1
    BY <1>1, <2>3, FS_AddElement
  <2>6. m.session \in Known(d) <=> row # NoRow
    BY <1>1 DEF Known
  <2> HIDE DEF row
  <2> QED
    BY <1>1, <2>4, <2>5, <2>6
<1> QED
  BY <1>2, <1>3 DEF Handled

\* The tables stay good.
LEMMA TablesStep ==
  ASSUME NEW L, NEW d, NEW e, NEW slot, NEW m, NEW out, NEW record,
         Good(L, d), NextSlot(L, d, slot, m), Handled(d, e, slot, m, out, record)
  PROVE  TablesGood(e)
<1>1. /\ TablesGood(d) /\ m \in Mutations /\ slot = Through(d) + 1 /\ d \in Databases
      /\ m.kind = "Transaction" /\ Moved(d, e, slot, m, out)
  BY DEF Good, TablesGood, NextSlot, Handled
<1>2. IsFiniteSet(Known(e)) /\ SessionCount(e) <= MAX_REQUEST_SESSIONS
  BY <1>1, KnownStep
<1>3. e \in Databases /\ e.version \in 1..Through(e) + 1
  BY <1>1, VersionStep DEF Good, TablesGood, Moved
<1>4. Through(d) \in Nat /\ Through(e) = slot /\ slot \in Nat
  BY <1>1, MovedProperty
<1>5. ASSUME NEW s \in Sessions, e.sessions[s] # NoRow
      PROVE  e.sessions[s].out.slot <= slot
  <2>1. d.sessions \in [Sessions -> Rows] /\ m.session \in Sessions
    BY <1>1, RequestTypes DEF Databases
  <2>2. CASE e.sessions[s] = d.sessions[s]
    <3>1. d.sessions[s].out.slot <= Through(d) /\ d.sessions[s] \in Rows
      BY <1>1, <1>5, <2>1, <2>2 DEF TablesGood
    <3>2. d.sessions[s].out.slot \in Nat
      BY <1>5, <2>2, <3>1 DEF Rows, Outcomes
    <3> QED
      BY <1>1, <1>4, <2>2, <3>1, <3>2
  <2>3. CASE record /\ s = m.session
    <3>1. e.sessions[s] = NewRow(m, out) /\ out.slot = slot
      BY <2>1, <2>3 DEF Handled, Answer
    <3> QED
      BY <1>4, <3>1 DEF NewRow
  <2> QED
    BY <2>1, <2>2, <2>3 DEF Handled
<1> QED
  BY <1>2, <1>3, <1>4, <1>5 DEF TablesGood

\* What earlier requests were told stays binding, and so does this answer.
LEMMA ToldStep ==
  ASSUME NEW L, NEW d, NEW e, NEW slot, NEW m, NEW out, NEW record,
         Good(L, d), NextSlot(L, d, slot, m), Handled(d, e, slot, m, out, record),
         \A t \in 1..Through(d) : L[t] \in Mutations
  PROVE  ToldGood(L, e)
<1> DEFINE row == d.sessions[m.session]
<1>1. /\ TablesGood(d) /\ m \in Mutations /\ slot = Through(d) + 1 /\ d \in Databases
      /\ m.kind = "Transaction" /\ Moved(d, e, slot, m, out) /\ m.epoch <= d.epoch
      /\ e.epoch = d.epoch /\ m = L[slot] /\ record \in BOOLEAN
  BY DEF Good, TablesGood, NextSlot, Handled
<1>2. /\ Through(e) = slot /\ e.outcomes[slot] = out
      /\ \A t \in 1..Through(d) : e.outcomes[t] = d.outcomes[t]
      /\ \A t \in 1..Through(e) : t \in 1..Through(d) \/ t = slot
  BY <1>1, MovedProperty
<1>3. /\ m.session \in Sessions /\ m.sequence \in Nat /\ m.sequence > 0
      /\ row.seq \in Nat /\ (row = NoRow => row.seq = 0) /\ (row # NoRow => row.seq > 0)
      /\ d.sessions \in [Sessions -> Rows] /\ SessionCount(d) \in Nat
      /\ MAX_REQUEST_SESSIONS \in Nat
  BY <1>1, RequestTypes DEF Databases
<1>4. SessionCount(d) >= MAX_REQUEST_SESSIONS => SessionCount(e) = SessionCount(d)
  BY <1>1, KnownStep
<1>5. e.sessions = IF record THEN [d.sessions EXCEPT ![m.session] = NewRow(m, out)]
                   ELSE d.sessions
  BY DEF Handled
<1>6. NewRow(m, out).seq = m.sequence /\ NewRow(m, out).hash = transaction_digest(m)
      /\ NewRow(m, out).out = out
  BY DEF NewRow
<1>7. record => m.sequence > row.seq /\ (row # NoRow \/ SessionCount(d) < MAX_REQUEST_SESSIONS)
  BY DEF Handled, Answer
<1>8. Told(e, m, out)
  <2>1. CASE record
    <3>1. e.sessions[m.session] = NewRow(m, out)
      BY <1>3, <1>5, <2>1
    <3> QED
      BY <1>1, <1>6, <3>1 DEF Told
  <2>2. CASE ~record
    <3>1. e.sessions[m.session] = row
      BY <1>5, <2>2
    <3>2. \/ m.epoch # d.epoch \/ (row # NoRow /\ m.sequence < row.seq)
          \/ /\ row # NoRow /\ m.sequence = row.seq /\ row.hash # transaction_digest(m)
             /\ out = Out("Identity_Conflict", slot)
          \/ /\ row # NoRow /\ m.sequence = row.seq /\ row.hash = transaction_digest(m)
             /\ out = row.out
          \/ /\ row = NoRow /\ SessionCount(d) >= MAX_REQUEST_SESSIONS
             /\ out = Out("Session_Limit", slot)
      BY <2>2 DEF Handled, Answer
    <3>3. Out("Identity_Conflict", slot).kind = "Identity_Conflict"
          /\ Out("Session_Limit", slot).kind = "Session_Limit"
      BY DEF Out
    <3> HIDE DEF row
    <3> QED
      BY <1>1, <1>3, <1>4, <3>1, <3>2, <3>3 DEF Told
  <2> QED
    BY <1>1, <2>1, <2>2
<1>9. ASSUME NEW t \in 1..Through(d), L[t].kind = "Transaction"
      PROVE  Told(e, L[t], d.outcomes[t])
  <2> DEFINE q == L[t]
             was == d.sessions[q.session]
             now == e.sessions[q.session]
             o == d.outcomes[t]
  <2>1. q \in Mutations /\ q.kind = "Transaction"
    BY <1>9
  <2> HIDE DEF q
  <2>2. /\ q.session \in Sessions /\ q.sequence \in Nat /\ q.sequence > 0
        /\ was.seq \in Nat /\ (was = NoRow => was.seq = 0)
    BY <1>1, <2>1, RequestTypes
  <2>3. Told(d, q, o)
    BY <1>9 DEF Good, ToldGood, q
  <2>4. CASE ~record \/ q.session # m.session
    <3>1. now = was
      BY <1>3, <1>5, <2>2, <2>4
    <3> HIDE DEF was, now, o
    <3> QED
      BY <1>1, <1>3, <1>4, <2>3, <3>1 DEF Told, was, now, q, o
  <2>5. CASE record /\ q.session = m.session
    <3>1. now = NewRow(m, out) /\ was = row
      BY <1>3, <1>5, <2>5
    <3>2. now.seq = m.sequence /\ m.sequence > was.seq
          /\ (was # NoRow \/ SessionCount(d) < MAX_REQUEST_SESSIONS)
      BY <1>6, <1>7, <2>5, <3>1
    <3>3. q.epoch = d.epoch => was.seq >= q.sequence
      BY <1>3, <2>2, <2>3, <3>2 DEF Told
    <3>4. q.epoch = d.epoch => now.seq > q.sequence
      BY <1>3, <2>2, <3>2, <3>3
    <3> QED
      BY <1>1, <2>3, <3>4 DEF Told, q, o
  <2> QED
    BY <1>1, <2>4, <2>5
<1> QED
  BY <1>1, <1>2, <1>8, <1>9 DEF ToldGood

\* A request that executes has not executed before, on the rows of its preview.
LEMMA ExecutionStep ==
  ASSUME NEW L, NEW d, NEW e, NEW slot, NEW m, NEW out, NEW record,
         Good(L, d), NextSlot(L, d, slot, m), Handled(d, e, slot, m, out, record), Did(e, slot)
  PROVE  /\ m.epoch = d.epoch /\ m.sequence > d.sessions[m.session].seq
         /\ m.read_version # 0 => m.read_version = d.version
<1> DEFINE row == d.sessions[m.session]
<1>1. /\ TablesGood(d) /\ m \in Mutations /\ slot = Through(d) + 1 /\ d \in Databases
      /\ m.kind = "Transaction" /\ Moved(d, e, slot, m, out)
      /\ Answer(d, slot, m, out, record)
  BY DEF Good, TablesGood, NextSlot, Handled
<1>2. Through(d) \in Nat /\ e.outcomes[slot] = out
  BY <1>1, MovedProperty
<1>3. out.kind = "Applied" /\ out.slot = slot
  BY <1>2 DEF Did
<1>4. \A kind \in {"Expired", "Identity_Conflict", "Session_Limit"} : out # Out(kind, slot)
  BY <1>3 DEF Out
<1>5. row # NoRow => out # row.out
  <2>1. SUFFICES ASSUME row # NoRow, out = row.out PROVE FALSE
    OBVIOUS
  <2>2. row.out.slot <= Through(d)
    BY <1>1, <2>1, RequestTypes DEF TablesGood
  <2> QED
    BY <1>1, <1>2, <1>3, <2>1, <2>2
<1>6. m.epoch = d.epoch /\ m.sequence > row.seq /\ ~StaleRevision(d, m)
  BY <1>1, <1>3, <1>4, <1>5 DEF Answer
<1> QED
  BY <1>1, <1>6 DEF StaleRevision

\* So the three properties of histories are kept.
LEMMA HistoriesStep ==
  ASSUME NEW L, NEW d, NEW e, NEW slot, NEW m, NEW out, NEW record,
         Good(L, d), NextSlot(L, d, slot, m), Handled(d, e, slot, m, out, record)
  PROVE  OnceIn(L, e) /\ StableIn(L, e) /\ IsolatedIn(L, e)
<1> DEFINE row == d.sessions[m.session]
<1>1. /\ TablesGood(d) /\ m \in Mutations /\ slot = Through(d) + 1 /\ d \in Databases
      /\ m.kind = "Transaction" /\ Moved(d, e, slot, m, out) /\ m.epoch <= d.epoch
      /\ m = L[slot] /\ Answer(d, slot, m, out, record)
  BY DEF Good, TablesGood, NextSlot, Handled
<1>2. /\ Through(d) \in Nat /\ slot \in Nat /\ Through(e) = slot /\ e.outcomes[slot] = out
      /\ \A t \in 1..Through(d) : e.outcomes[t] = d.outcomes[t] /\ t # slot /\ t < slot
      /\ \A t \in 1..Through(d) : Did(e, t) <=> Did(d, t)
      /\ \A t \in 1..Through(e) : t \in 1..Through(d) \/ t = slot
  BY <1>1, MovedProperty
<1>3. /\ m.sequence \in Nat /\ m.sequence > 0 /\ row.seq \in Nat
      /\ (row = NoRow => row.seq = 0) /\ SessionCount(d) \in Nat /\ MAX_REQUEST_SESSIONS \in Nat
  BY <1>1, RequestTypes
<1>4. \A t \in 1..Through(e) : t < slot => t \in 1..Through(d)
  BY <1>2
<1>5. OnceIn(L, e)
  <2>1. ASSUME NEW s1 \in 1..Through(e), NEW s2 \in 1..Through(e), s1 < s2,
               SameIdentity(L[s1], L[s2]), Did(e, s1), Did(e, s2)
        PROVE  FALSE
    <3>1. CASE s2 = slot
      <4>1. s1 \in 1..Through(d) /\ Did(d, s1)
        BY <1>2, <1>4, <2>1, <3>1
      <4>2. L[s1].kind = "Transaction" /\ L[s1].session = m.session
            /\ L[s1].sequence = m.sequence /\ L[s1].epoch = m.epoch
        BY <1>1, <2>1, <3>1 DEF SameIdentity
      <4>3. Told(d, L[s1], d.outcomes[s1])
        BY <4>1, <4>2 DEF Good, ToldGood
      <4>4. m.epoch = d.epoch /\ m.sequence > row.seq
        BY <2>1, <3>1, ExecutionStep
      <4>5. d.outcomes[s1].kind = "Applied"
        BY <4>1 DEF Did
      <4> HIDE DEF row
      <4>6. \/ row.seq > m.sequence \/ row.seq = m.sequence
            \/ d.outcomes[s1].kind = "Session_Limit"
        BY <4>2, <4>3, <4>4 DEF Told, row
      <4> QED
        BY <1>3, <4>4, <4>5, <4>6
    <3>2. CASE s2 \in 1..Through(d)
      <4>1. s1 \in 1..Through(d)
        BY <1>2, <2>1, <3>2
      <4> QED
        BY <1>2, <2>1, <3>2, <4>1 DEF Good, OnceIn
    <3> QED
      BY <1>2, <3>1, <3>2
  <2> QED
    BY <2>1 DEF OnceIn
<1>6. StableIn(L, e)
  <2>1. ASSUME NEW s1 \in 1..Through(e), NEW s2 \in 1..Through(e), s1 < s2,
               L[s1].kind = "Transaction", L[s1] = L[s2]
        PROVE  Agrees(e.outcomes[s1], e.outcomes[s2])
    <3>1. CASE s2 = slot
      <4> DEFINE first == d.outcomes[s1]
      <4>1. s1 \in 1..Through(d) /\ e.outcomes[s1] = first /\ L[s1] = m
        BY <1>1, <1>2, <1>4, <2>1, <3>1
      <4>2. Told(d, m, first)
        BY <4>1, <1>1 DEF Good, ToldGood
      <4>3. Out("Expired", slot).kind = "Expired"
            /\ Out("Identity_Conflict", slot).kind = "Identity_Conflict"
            /\ Out("Session_Limit", slot).kind = "Session_Limit"
        BY DEF Out
      <4> HIDE DEF row, first
      <4>4. Agrees(first, out)
        <5>1. CASE m.epoch # d.epoch
          <6>1. out = Out("Expired", slot)
            BY <1>1, <5>1 DEF Answer
          <6> QED
            BY <4>3, <6>1 DEF Agrees
        <5>2. CASE m.epoch = d.epoch
          <6>1. \/ row.seq > m.sequence
                \/ /\ row.seq = m.sequence /\ row.hash = transaction_digest(m)
                   /\ row.out = first
                \/ /\ row.seq = m.sequence /\ row.hash # transaction_digest(m)
                   /\ first.kind = "Identity_Conflict"
                \/ /\ row = NoRow /\ SessionCount(d) >= MAX_REQUEST_SESSIONS
                   /\ first.kind = "Session_Limit"
            BY <4>2, <5>2 DEF Told, row
          <6>2. \/ out = Out("Expired", slot) /\ m.sequence < row.seq
                \/ /\ m.sequence = row.seq /\ row.hash # transaction_digest(m)
                   /\ out = Out("Identity_Conflict", slot) /\ row # NoRow
                \/ /\ m.sequence = row.seq /\ row.hash = transaction_digest(m)
                   /\ out = row.out /\ row # NoRow
                \/ row = NoRow /\ out = Out("Session_Limit", slot)
                \/ /\ m.sequence > row.seq
                   /\ row # NoRow \/ SessionCount(d) < MAX_REQUEST_SESSIONS
            BY <1>1, <5>2 DEF Answer, row
          <6> QED
            BY <1>3, <4>3, <6>1, <6>2 DEF Agrees
        <5> QED
          BY <5>1, <5>2
      <4> QED
        BY <1>2, <3>1, <4>1, <4>4
    <3>2. CASE s2 \in 1..Through(d)
      <4>1. s1 \in 1..Through(d)
        BY <1>2, <2>1, <3>2
      <4> QED
        BY <1>2, <2>1, <3>2, <4>1 DEF Good, StableIn
    <3> QED
      BY <1>2, <3>1, <3>2
  <2> QED
    BY <2>1 DEF StableIn
<1>7. IsolatedIn(L, e)
  <2>1. ASSUME NEW s \in 1..Through(e), L[s].kind = "Transaction", L[s].read_version # 0,
               Did(e, s), NEW t \in 1..s-1, t >= L[s].read_version,
               L[t].kind \in {"Transaction", "Raw_SQL"}, Did(e, t)
        PROVE  FALSE
    <3>1. CASE s = slot
      <4>1. t \in 1..Through(d) /\ Did(d, t)
        BY <1>1, <1>2, <2>1, <3>1
      <4>2. t < d.version
        BY <2>1, <4>1 DEF Good, VersionGood
      <4>3. m.read_version = d.version
        BY <1>1, <2>1, <3>1, ExecutionStep
      <4>4. d.version \in Nat
        BY <1>1 DEF Databases
      <4> QED
        BY <1>1, <2>1, <3>1, <4>1, <4>2, <4>3, <4>4
    <3>2. CASE s \in 1..Through(d)
      <4>1. t \in 1..Through(d)
        BY <1>2, <3>2
      <4> QED
        BY <1>2, <2>1, <3>2, <4>1 DEF Good, IsolatedIn
    <3> QED
      BY <1>2, <3>1, <3>2
  <2> QED
    BY <2>1 DEF IsolatedIn
<1> QED
  BY <1>5, <1>6, <1>7

\* A mutation that is not a request: it repeats none, and if it retires the
\* sessions then their epoch is over.
LEMMA OtherGood ==
  ASSUME NEW L, NEW d, NEW e, NEW slot, NEW m, NEW out,
         Good(L, d), NextSlot(L, d, slot, m), m.kind # "Transaction",
         Moved(d, e, slot, m, out),
         \/ e.epoch = d.epoch /\ e.sessions = d.sessions
         \/ e.epoch = d.epoch + 1 /\ e.sessions = [s \in Sessions |-> NoRow],
         \A t \in 1..Through(d) : L[t] \in Mutations
  PROVE  Good(L, e)
<1>1. /\ TablesGood(d) /\ m \in Mutations /\ slot = Through(d) + 1 /\ d \in Databases
      /\ m = L[slot] /\ e \in Databases /\ d.epoch \in Nat
  BY DEF Good, TablesGood, NextSlot, Moved, Databases
<1>2. /\ Through(d) \in Nat /\ slot \in Nat /\ Through(e) = slot
      /\ \A t \in 1..Through(d) : e.outcomes[t] = d.outcomes[t] /\ t # slot /\ t < slot
      /\ \A t \in 1..Through(d) : Did(e, t) <=> Did(d, t)
      /\ \A t \in 1..Through(e) : t \in 1..Through(d) \/ t = slot
  BY <1>1, MovedProperty
<1>3. e.version \in 1..Through(e) + 1 /\ VersionGood(L, e)
  BY <1>1, VersionStep DEF Good, TablesGood
<1>4. CASE e.epoch = d.epoch /\ e.sessions = d.sessions
  <2>1. Known(e) = Known(d) /\ SessionCount(e) = SessionCount(d)
    BY <1>4 DEF Known, SessionCount
  <2>2. TablesGood(e)
    <3>1. ASSUME NEW s \in Sessions, e.sessions[s] # NoRow
          PROVE  e.sessions[s].out.slot <= Through(e)
      <4>1. d.sessions[s] \in Rows /\ d.sessions[s] # NoRow
            /\ d.sessions[s].out.slot <= Through(d)
        BY <1>1, <1>4, <3>1 DEF TablesGood, Databases
      <4>2. d.sessions[s].out.slot \in Nat
        BY <4>1 DEF Rows, Outcomes
      <4> QED
        BY <1>1, <1>2, <1>4, <4>1, <4>2
    <3> QED
      BY <1>1, <1>3, <2>1, <3>1 DEF TablesGood
  <2>3. ToldGood(L, e)
    <3>1. ASSUME NEW t \in 1..Through(d), L[t].kind = "Transaction"
          PROVE  Told(e, L[t], e.outcomes[t])
      <4>1. Told(d, L[t], d.outcomes[t]) /\ e.outcomes[t] = d.outcomes[t]
        BY <1>2, <3>1 DEF Good, ToldGood
      <4> QED
        BY <1>4, <2>1, <4>1 DEF Told
    <3> QED
      BY <1>1, <1>2, <3>1 DEF ToldGood
  <2> QED
    BY <2>2, <2>3, <1>1, <1>2, <1>3 DEF Good, OnceIn, StableIn, IsolatedIn, SameIdentity
<1>5. CASE e.epoch = d.epoch + 1 /\ e.sessions = [s \in Sessions |-> NoRow]
  <2>1. Known(e) = {} /\ SessionCount(e) = Cardinality(Known(e))
    BY <1>5 DEF Known, SessionCount
  <2>2. TablesGood(e)
    <3>1. IsFiniteSet(Known(e)) /\ SessionCount(e) = 0 /\ MAX_REQUEST_SESSIONS \in Nat
      BY <2>1, FS_EmptySet, EngineAssumption
    <3> QED
      BY <1>1, <1>3, <1>5, <3>1 DEF TablesGood
  <2>3. ToldGood(L, e)
    <3>1. ASSUME NEW t \in 1..Through(d), L[t].kind = "Transaction"
          PROVE  Told(e, L[t], e.outcomes[t])
      <4>1. L[t].epoch <= d.epoch /\ L[t].epoch \in Nat
        BY <3>1 DEF Good, ToldGood, Told, Mutations
      <4>2. L[t].epoch < e.epoch
        BY <1>1, <1>5, <4>1
      <4> QED
        BY <1>1, <1>5, <4>1, <4>2 DEF Told
    <3> QED
      BY <1>1, <1>2, <3>1 DEF ToldGood
  <2> QED
    BY <2>2, <2>3, <1>1, <1>2, <1>3 DEF Good, OnceIn, StableIn, IsolatedIn, SameIdentity
<1> QED
  BY <1>4, <1>5

\* The reference moves from good to good.
LEMMA GoodStep ==
  ASSUME NEW L, NEW d, NEW slot, NEW m, Good(L, d), NextSlot(L, d, slot, m),
         \A t \in 1..Through(d) : L[t] \in Mutations
  PROVE  Good(L, engine_apply_outcome(d, slot, m)) /\ Through(engine_apply_outcome(d, slot, m)) = slot
<1> DEFINE e == engine_apply_outcome(d, slot, m)
<1>1. /\ TablesGood(d) /\ m \in Mutations /\ slot = Through(d) + 1 /\ d \in Databases
      /\ slot \in 1..MaxSlot
  BY DEF Good, TablesGood, NextSlot
<1>2. CASE m.kind = "Transaction"
  <2>1. SessionCount(d) \in Nat
    BY <1>1, <1>2, RequestTypes
  <2>2. PICK out \in Outcomes, record \in BOOLEAN :
           /\ Answer(d, slot, m, out, record)
           /\ Moved(d, e, slot, m, out)
           /\ e.epoch = d.epoch
           /\ e.sessions = IF record THEN [d.sessions EXCEPT ![m.session] = NewRow(m, out)]
                           ELSE d.sessions
    BY <1>1, <1>2, <2>1, TransactionStep
  <2> HIDE DEF e
  <2>3. Handled(d, e, slot, m, out, record)
    BY <1>2, <2>2, Zenon DEF Handled
  <2>4. TablesGood(e) /\ ToldGood(L, e)
    BY <2>3, TablesStep, ToldStep
  <2>5. OnceIn(L, e) /\ StableIn(L, e) /\ IsolatedIn(L, e)
    BY <2>3, HistoriesStep
  <2>6. VersionGood(L, e) /\ Through(e) = slot
    BY <1>1, <2>2, VersionStep, MovedProperty DEF Good, TablesGood
  <2> QED
    BY <2>4, <2>5, <2>6 DEF Good, e
<1>3. CASE m.kind # "Transaction"
  <2>1. PICK out \in Outcomes :
           /\ Moved(d, e, slot, m, out)
           /\ \/ e.epoch = d.epoch /\ e.sessions = d.sessions
              \/ e.epoch = d.epoch + 1 /\ e.sessions = [s \in Sessions |-> NoRow]
    BY <1>1, <1>3, OtherStep
  <2> HIDE DEF e
  <2>2. Good(L, e)
    BY <1>3, <2>1, OtherGood
  <2>3. Through(e) = slot
    BY <1>1, <2>1, MovedProperty
  <2> QED
    BY <2>2, <2>3 DEF e
<1> QED
  BY <1>2, <1>3

\* A client learned the epoch of its request from a replica that had it.
EpochsKnown(L) ==
    \A s \in 1..Len(L) :
        L[s].kind = "Transaction" => L[s].epoch <= ReferenceOf(L)[s - 1].epoch

\* The database before the first slot.
LEMMA EmptyGood ==
  ASSUME NEW L
  PROVE  Good(L, EmptyDb) /\ Through(EmptyDb) = 0
<1>1. /\ EmptyDb.sessions = [s \in Sessions |-> NoRow] /\ EmptyDb.outcomes = <<>>
      /\ EmptyDb.version = 1 /\ EmptyDb.epoch = 0 /\ EmptyDb.rows = {}
      /\ EmptyDb \in [rows : {{}}, sessions : {[s \in Sessions |-> NoRow]}, epoch : {0},
                      version : {1}, outcomes : {<<>>}]
  BY DEF EmptyDb
<1>2. Through(EmptyDb) = 0
  BY <1>1 DEF Through
<1>3. EmptyDb \in Databases
  <2>1. [s \in Sessions |-> NoRow] \in [Sessions -> Rows]
    BY DEF Rows
  <2>2. <<>> \in Seq(Outcomes) /\ {} \in SUBSET Keys /\ 0 \in Nat /\ 1 \in Nat
    OBVIOUS
  <2> DEFINE none == [s \in Sessions |-> NoRow]
  <2> HIDE DEF none
  <2>3. [rows |-> {}, sessions |-> none, epoch |-> 0, version |-> 1, outcomes |-> <<>>]
          \in Databases
    BY <2>1, <2>2 DEF Databases, none
  <2> QED
    BY <2>3 DEF EmptyDb, none
<1>4. Known(EmptyDb) = {} /\ SessionCount(EmptyDb) = Cardinality(Known(EmptyDb))
  BY <1>1 DEF Known, SessionCount
<1>5. IsFiniteSet(Known(EmptyDb)) /\ SessionCount(EmptyDb) <= MAX_REQUEST_SESSIONS
  BY <1>4, FS_EmptySet, EngineAssumption
<1>6. TablesGood(EmptyDb)
  BY <1>1, <1>2, <1>3, <1>5 DEF TablesGood
<1> QED
  BY <1>2, <1>6 DEF Good, VersionGood, ToldGood, OnceIn, StableIn, IsolatedIn

\* The reference execution is good in every slot of every log.
LEMMA ReferenceGood ==
  ASSUME NEW L, Len(L) \in Nat, Len(L) <= MaxSlot, \A t \in 1..Len(L) : L[t] \in Mutations,
         EpochsKnown(L)
  PROVE  \A n \in 0..Len(L) : Good(L, ReferenceOf(L)[n]) /\ Through(ReferenceOf(L)[n]) = n
<1> DEFINE r == ReferenceOf(L)
           P == {n \in Nat : Good(L, r[n]) /\ Through(r[n]) = n}
<1>1. /\ r[0] = EmptyDb
      /\ \A n \in 1..Len(L) : r[n] = engine_apply_outcome(r[n-1], n, L[n])
  BY ReferenceUnfolds
<1>2. \A s \in 1..Len(L) : L[s].kind = "Transaction" => L[s].epoch <= r[s - 1].epoch
  BY DEF EpochsKnown
<1> HIDE DEF r
<1>3. 0 \in P
  BY <1>1, EmptyGood
<1>4. ASSUME NEW n \in 1..Len(L), n - 1 \in P PROVE n \in P
  <2>1. Good(L, r[n-1]) /\ Through(r[n-1]) = n - 1 /\ n \in Nat
    BY <1>4
  <2>2. NextSlot(L, r[n-1], n, L[n])
    BY <1>2, <2>1, EngineAssumption DEF NextSlot
  <2>3. \A t \in 1..Through(r[n-1]) : L[t] \in Mutations
    BY <2>1
  <2>4. LET e == engine_apply_outcome(r[n-1], n, L[n]) IN Good(L, e) /\ Through(e) = n
    BY <2>1, <2>2, <2>3, GoodStep
  <2> QED
    BY <1>1, <2>1, <2>4
<1>5. \A n \in 0..Len(L) : n \in P
  <2> HIDE DEF P
  <2> QED
    BY <1>3, <1>4, SlotInduction
<1> QED
  BY <1>5 DEF r

-----------------------------------------------------------------------------
\* The inductive invariant: what is committed and what a power loss falls back
\* to are both the reference of a prefix of the log.
EngineInv ==
    /\ log \in Seq(Requests) /\ Len(log) <= MaxSlot /\ EpochsKnown(log)
    /\ fallback \in 0..MAX_APPLICATION_GROUP
    /\ \A d \in {db, synced} :
         Through(d) \in 0..Len(log) /\ d = ReferenceOf(log)[Through(d)]

\* The reference of the log as the module states it.
LEMMA ReferenceIs == Reference = ReferenceOf(log) /\ \A d, k : engine_apply_group(d, k) = GroupOf(log, d, k)
BY DEF Reference, ReferenceOf, engine_apply_group, GroupOf

\* The invariant gives the reference its shape.
LEMMA InvReference ==
  ASSUME EngineInv
  PROVE  /\ Len(log) \in Nat
         /\ \A t \in 1..Len(log) : log[t] \in Mutations
         /\ \A n \in 0..Len(log) : /\ Good(log, ReferenceOf(log)[n])
                                   /\ Through(ReferenceOf(log)[n]) = n
<1>1. log \in Seq(Requests) /\ Len(log) <= MaxSlot /\ EpochsKnown(log)
  BY DEF EngineInv
<1>2. Len(log) \in Nat /\ \A t \in 1..Len(log) : log[t] \in Mutations
  BY <1>1, RequestAssumption
<1> QED
  BY <1>1, <1>2, ReferenceGood

\* Deciding one more slot changes the reference of no earlier one.
LEMMA DecideStep ==
  ASSUME EngineInv, NEW m \in Requests, Decide(m)
  PROVE  EngineInv'
<1>1. /\ log' = Append(log, m) /\ Len(log) < MaxSlot /\ UNCHANGED <<db, synced, fallback>>
      /\ m.kind = "Transaction" => m.epoch <= ReferenceOf(log)[Len(log)].epoch
      /\ log \in Seq(Requests) /\ EpochsKnown(log)
  BY ReferenceIs DEF Decide, EngineInv
<1>2. /\ log' \in Seq(Requests) /\ Len(log) \in Nat /\ Len(log') = Len(log) + 1
      /\ \A n \in 1..Len(log) : log'[n] = log[n]
      /\ log'[Len(log')] = m
  BY <1>1
<1>3. \A n \in 0..Len(log) : ReferenceOf(log')[n] = ReferenceOf(log)[n]
  <2>1. Len(log') \in Nat /\ Len(log) <= Len(log')
    BY <1>2
  <2> QED
    BY <1>2, <2>1, ReferenceOfPrefix
<1>4. Len(log') <= MaxSlot
  BY <1>1, <1>2, EngineAssumption
<1>5. EpochsKnown(log')
  <2>1. ASSUME NEW s \in 1..Len(log'), log'[s].kind = "Transaction"
        PROVE  log'[s].epoch <= ReferenceOf(log')[s - 1].epoch
    <3>1. s - 1 \in 0..Len(log)
      BY <1>2
    <3>2. ReferenceOf(log')[s - 1] = ReferenceOf(log)[s - 1]
      BY <1>3, <3>1
    <3>3. CASE s = Len(log')
      <4>1. s - 1 = Len(log) /\ log'[s] = m
        BY <1>2, <3>3
      <4> QED
        BY <1>1, <2>1, <3>2, <4>1
    <3>4. CASE s \in 1..Len(log)
      BY <1>1, <1>2, <2>1, <3>2, <3>4 DEF EpochsKnown
    <3> QED
      BY <1>2, <3>3, <3>4
  <2> QED
    BY <2>1 DEF EpochsKnown
<1>6. ASSUME NEW d \in {db, synced}
      PROVE  Through(d) \in 0..Len(log') /\ d = ReferenceOf(log')[Through(d)]
  <2>1. Through(d) \in 0..Len(log) /\ d = ReferenceOf(log)[Through(d)]
    BY DEF EngineInv
  <2> QED
    BY <1>2, <1>3, <2>1
<1> QED
  <2>1. \A d \in {db', synced'} :
            Through(d) \in 0..Len(log') /\ d = ReferenceOf(log')[Through(d)]
    BY <1>1, <1>6
  <2>2. fallback' \in 0..MAX_APPLICATION_GROUP
    BY <1>1 DEF EngineInv
  <2> QED
    BY <1>2, <1>4, <1>5, <2>1, <2>2 DEF EngineInv

\* Every other step moves between prefixes of the same log.
LEMMA EngineStep ==
  ASSUME EngineInv, [Next]_vars
  PROVE  EngineInv'
<1> DEFINE r == ReferenceOf(log)
           Prefix(d) == Through(d) \in 0..Len(log) /\ d = r[Through(d)]
<1>0. /\ MAX_APPLICATION_GROUP \in Nat /\ fallback \in 0..MAX_APPLICATION_GROUP
      /\ Prefix(db) /\ Prefix(synced)
      /\ log \in Seq(Requests) /\ Len(log) <= MaxSlot /\ EpochsKnown(log)
  BY EngineAssumption DEF EngineInv
<1>1. /\ Len(log) \in Nat
      /\ \A n \in 0..Len(log) : Through(r[n]) = n
  BY InvReference
<1>2. \A n \in 1..Len(log) : r[n] = engine_apply_outcome(r[n-1], n, log[n])
  BY <1>1, ReferenceUnfolds
<1>k. ASSUME log' = log, Prefix(db'), Prefix(synced'), fallback' \in 0..MAX_APPLICATION_GROUP
      PROVE  EngineInv'
  <2>1. \A d \in {db', synced'} :
            Through(d) \in 0..Len(log') /\ d = ReferenceOf(log')[Through(d)]
    BY <1>k
  <2> QED
    BY <1>0, <1>k, <2>1 DEF EngineInv
<1> HIDE DEF r
<1>3. ASSUME NEW m \in Requests, Decide(m) PROVE EngineInv'
  BY <1>3, DecideStep
<1>4. CASE ApplyOne
  <2> DEFINE n == Through(db) + 1
  <2>1. /\ db' = engine_apply_outcome(db, n, log[n]) /\ UNCHANGED <<log, synced>>
        /\ n \in 1..Len(log) /\ n - 1 = Through(db)
        /\ fallback' \in 0..MAX_APPLICATION_GROUP
    BY <1>0, <1>1, <1>4 DEF ApplyOne
  <2> HIDE DEF n
  <2>2. db' = r[n] /\ n \in 0..Len(log)
    BY <1>0, <1>1, <1>2, <2>1
  <2>3. Prefix(db')
    BY <1>1, <2>2
  <2> QED
    BY <1>0, <1>k, <2>1, <2>3
<1>5. ASSUME NEW k \in 2..MAX_APPLICATION_GROUP, ApplyGroup(k) PROVE EngineInv'
  <2> DEFINE group == GroupOf(log, db, k)
  <2>1. /\ db' = IF group.staged THEN group.db ELSE db
        /\ fallback' = IF group.staged THEN 0 ELSE k
        /\ UNCHANGED <<log, synced>>
        /\ Through(db) + k <= Len(log) /\ k \in Nat /\ k \in 0..MAX_APPLICATION_GROUP
    BY <1>0, <1>5, ReferenceIs DEF ApplyGroup
  <2>2. fallback' \in 0..MAX_APPLICATION_GROUP
    BY <1>0, <2>1
  <2>3. CASE group.staged
    <3>1. group.db = r[Through(db) + k]
      BY <1>0, <1>1, <2>1, <2>3, GroupMatches DEF r
    <3>2. Through(db) + k \in 0..Len(log)
      BY <1>0, <1>1, <2>1
    <3>3. db' = r[Through(db) + k]
      BY <2>1, <2>3, <3>1
    <3>4. Prefix(db')
      BY <1>1, <3>2, <3>3
    <3> QED
      BY <1>0, <1>k, <2>1, <2>2, <3>4
  <2>4. CASE ~group.staged
    BY <1>0, <1>k, <2>1, <2>2, <2>4
  <2> QED
    BY <2>3, <2>4
<1>6. CASE Checkpoint
  BY <1>0, <1>6, <1>k DEF Checkpoint
<1>7. CASE Crash
  BY <1>0, <1>7, <1>k DEF Crash
<1>8. CASE UNCHANGED vars
  BY <1>0, <1>8, <1>k DEF vars
<1> QED
  BY <1>3, <1>4, <1>5, <1>6, <1>7, <1>8 DEF Next

\* Both databases are always references of prefixes of the log.
THEOREM EngineTheorem == Spec => []EngineInv
<1>1. Init => EngineInv
  <2> SUFFICES ASSUME Init PROVE EngineInv
    OBVIOUS
  <2>1. log = <<>> /\ log \in Seq(Requests) /\ Len(log) = 0
        /\ db = EmptyDb /\ synced = EmptyDb /\ fallback = 0
    BY DEF Init
  <2>2. ReferenceOf(log)[0] = EmptyDb
    BY <2>1, ReferenceUnfolds
  <2>3. Through(EmptyDb) = 0
    BY EmptyGood
  <2>4. EpochsKnown(log)
    BY <2>1 DEF EpochsKnown
  <2> QED
    BY <2>1, <2>2, <2>3, <2>4, EngineAssumption DEF EngineInv
<1>2. EngineInv /\ [Next]_vars => EngineInv'
  BY EngineStep
<1> QED
  BY <1>1, <1>2, PTL DEF Spec

\* However the entries were grouped, however often groups were given up and
\* crashes made the replica replay, its database is the one the reference
\* execution gives (engine_apply_outcomes, engine_apply_group).
THEOREM GroupingIsInvisibleTheorem == Spec => []GroupingIsInvisible
<1>1. EngineInv => GroupingIsInvisible
  BY ReferenceIs DEF EngineInv, GroupingIsInvisible
<1> QED
  BY <1>1, EngineTheorem, PTL

\* The committed database is good: the common part of the theorems below.
LEMMA InvGood ==
  ASSUME EngineInv, NEW d \in {db, synced}
  PROVE  Good(log, d) /\ Through(d) \in 0..Len(log)
BY InvReference DEF EngineInv

\* A request identity executes in at most one slot of the log, for every set of
\* requests, whatever retries, retirements and limits are in between, and the
\* tables keep their types (engine_request_lookup, engine_record_outcome).
THEOREM ExactlyOnceTheorem == Spec => []ExactlyOnce
<1>1. ASSUME EngineInv PROVE ExactlyOnce
  <2>1. OnceIn(log, db)
    BY <1>1, InvGood DEF Good
  <2>2. log \in Seq(Requests) /\ fallback \in 0..MAX_APPLICATION_GROUP
        /\ Len(log) <= MaxSlot /\ Len(log) \in Nat /\ MaxSlot \in Nat
    BY <1>1, InvReference, EngineAssumption DEF EngineInv
  <2>3. ASSUME NEW d \in {db, synced}
        PROVE  /\ d.rows \subseteq Keys
               /\ d.epoch \in Nat /\ d.version \in 1..MaxSlot + 1
               /\ d.outcomes \in Seq(Outcomes) /\ Through(d) <= Len(log)
               /\ \A s \in Sessions : d.sessions[s] # NoRow =>
                     d.sessions[s].seq \in Nat \ {0} /\ d.sessions[s].out \in Outcomes
               /\ SessionCount(d) <= MAX_REQUEST_SESSIONS
    <3>1. TablesGood(d) /\ Through(d) \in 0..Len(log)
      BY <1>1, InvGood DEF Good
    <3>2. d \in Databases /\ SessionCount(d) <= MAX_REQUEST_SESSIONS
      BY <3>1 DEF TablesGood
    <3>3. d.rows \subseteq Keys /\ d.epoch \in Nat /\ d.outcomes \in Seq(Outcomes)
      BY <3>2 DEF Databases
    <3>4. d.version \in 1..MaxSlot + 1 /\ Through(d) <= Len(log)
      BY <2>2, <3>1 DEF TablesGood
    <3>5. ASSUME NEW s \in Sessions, d.sessions[s] # NoRow
          PROVE  d.sessions[s].seq \in Nat \ {0} /\ d.sessions[s].out \in Outcomes
      <4>1. d.sessions[s] \in Rows
        BY <3>2 DEF Databases
      <4> QED
        BY <3>5, <4>1 DEF Rows
    <3> QED
      BY <3>2, <3>3, <3>4, <3>5
  <2>4. TypeOK
    BY <2>2, <2>3 DEF TypeOK
  <2> QED
    BY <2>1, <2>4 DEF ExactlyOnce, OnceIn, Did, Executed
<1> QED
  BY <1>1, EngineTheorem, PTL

\* A retry is told what the first submission was told, or that the request has
\* expired (engine_request_lookup).
THEOREM RetriesAreStableTheorem == Spec => []RetriesAreStable
<1>1. EngineInv => RetriesAreStable
  BY InvGood DEF Good, StableIn, Agrees, RetriesAreStable
<1> QED
  BY <1>1, EngineTheorem, PTL

\* An optimistic transaction that applies has run on the rows of its preview
\* (engine_read_version, engine_advance_version).
THEOREM OptimisticIsolationTheorem == Spec => []OptimisticIsolation
<1>1. EngineInv => OptimisticIsolation
  BY InvGood DEF Good, IsolatedIn, Did, Executed, OptimisticIsolation
<1> QED
  BY <1>1, EngineTheorem, PTL

-----------------------------------------------------------------------------
(* What those who submit requests rely on (module WritePathProofs): facts   *)
(* about the reference execution of any log, without the state above.       *)

\* One slot, whatever its mutation.
LEMMA ApplyStep ==
  ASSUME NEW d, NEW slot \in 1..MaxSlot, NEW m \in Mutations, TablesGood(d)
  PROVE  LET e == engine_apply_outcome(d, slot, m) IN
         \E out \in Outcomes :
            /\ Moved(d, e, slot, m, out) /\ d.epoch <= e.epoch
            /\ \/ \E record \in BOOLEAN : Handled(d, e, slot, m, out, record)
               \/ /\ m.kind # "Transaction"
                  /\ \/ e.sessions = d.sessions
                     \/ e.sessions = [s \in Sessions |-> NoRow]
<1> DEFINE e == engine_apply_outcome(d, slot, m)
<1>1. d \in Databases /\ d.epoch \in Nat
  BY DEF TablesGood, Databases
<1>2. CASE m.kind = "Transaction"
  <2>1. SessionCount(d) \in Nat
    BY <1>2, RequestTypes
  <2>2. PICK out \in Outcomes, record \in BOOLEAN :
           /\ Answer(d, slot, m, out, record)
           /\ Moved(d, e, slot, m, out)
           /\ e.epoch = d.epoch
           /\ e.sessions = IF record THEN [d.sessions EXCEPT ![m.session] = NewRow(m, out)]
                           ELSE d.sessions
    BY <1>1, <1>2, <2>1, TransactionStep
  <2> HIDE DEF e
  <2>3. Handled(d, e, slot, m, out, record)
    BY <1>2, <2>2, Zenon DEF Handled
  <2>4. d.epoch <= e.epoch
    BY <1>1, <2>2
  <2> QED
    BY <2>2, <2>3, <2>4 DEF e
<1>3. CASE m.kind # "Transaction"
  <2>1. PICK out \in Outcomes :
           /\ Moved(d, e, slot, m, out)
           /\ \/ e.epoch = d.epoch /\ e.sessions = d.sessions
              \/ e.epoch = d.epoch + 1 /\ e.sessions = [s \in Sessions |-> NoRow]
    BY <1>1, <1>3, OtherStep
  <2> HIDE DEF e
  <2>2. d.epoch <= e.epoch
    BY <1>1, <2>1
  <2> QED
    BY <1>3, <2>1, <2>2 DEF e
<1> QED
  BY <1>2, <1>3

\* Some slot executed the request of session s with sequence number q.
Source(L, d, s, q) ==
    \E u \in 1..Through(d) : /\ L[u].kind = "Transaction" /\ L[u].session = s
                             /\ L[u].sequence = q /\ Did(d, u)

\* Who is answered "Applied", now or by a row, was executed; a session's
\* requests execute in the order of their sequence numbers.
ExplainedIn(L, d) ==
    /\ \A s \in Sessions : d.sessions[s] # NoRow /\ d.sessions[s].out.kind = "Applied" =>
          Source(L, d, s, d.sessions[s].seq)
    /\ \A t \in 1..Through(d) : L[t].kind = "Transaction" /\ d.outcomes[t].kind = "Applied" =>
          Source(L, d, L[t].session, L[t].sequence)

OrderedIn(L, d) ==
    \A s1, s2 \in 1..Through(d) :
        /\ s1 < s2 /\ L[s1].kind = "Transaction" /\ L[s2].kind = "Transaction"
        /\ L[s1].session = L[s2].session /\ L[s1].epoch = L[s2].epoch
        /\ L[s2].sequence <= L[s1].sequence
        => ~(Did(d, s1) /\ Did(d, s2))

\* The answers to requests stay explained.
LEMMA ExplainedStep ==
  ASSUME NEW L, NEW d, NEW slot, NEW m, Good(L, d), NextSlot(L, d, slot, m), ExplainedIn(L, d)
  PROVE  ExplainedIn(L, engine_apply_outcome(d, slot, m))
<1> DEFINE e == engine_apply_outcome(d, slot, m)
<1>1. /\ TablesGood(d) /\ m \in Mutations /\ slot = Through(d) + 1 /\ d \in Databases
      /\ m = L[slot] /\ slot \in 1..MaxSlot
  BY DEF Good, TablesGood, NextSlot
<1>2. PICK out \in Outcomes :
            /\ Moved(d, e, slot, m, out)
            /\ \/ \E record \in BOOLEAN : Handled(d, e, slot, m, out, record)
               \/ /\ m.kind # "Transaction"
                  /\ \/ e.sessions = d.sessions
                     \/ e.sessions = [s \in Sessions |-> NoRow]
  BY <1>1, ApplyStep
<1> HIDE DEF e
<1>3. /\ Through(d) \in Nat /\ slot \in Nat /\ Through(e) = slot /\ e.outcomes[slot] = out
      /\ \A t \in 1..Through(d) : e.outcomes[t] = d.outcomes[t]
      /\ \A t \in 1..Through(d) : Did(e, t) <=> Did(d, t)
      /\ \A t \in 1..Through(e) : t \in 1..Through(d) \/ t = slot
  BY <1>1, <1>2, MovedProperty
<1>4. ASSUME NEW s, NEW q, Source(L, d, s, q) PROVE Source(L, e, s, q)
  <2>1. PICK u \in 1..Through(d) : /\ L[u].kind = "Transaction" /\ L[u].session = s
                                   /\ L[u].sequence = q /\ Did(d, u)
    BY <1>4 DEF Source
  <2>2. u \in 1..Through(e) /\ Did(e, u)
    BY <1>1, <1>3, <2>1
  <2> QED
    BY <2>1, <2>2 DEF Source
<1>5. ASSUME m.kind = "Transaction", out.kind = "Applied"
      PROVE  Source(L, e, m.session, m.sequence)
  <2> DEFINE row == d.sessions[m.session]
  <2>1. PICK record \in BOOLEAN : Handled(d, e, slot, m, out, record)
    BY <1>2, <1>5
  <2>2. Answer(d, slot, m, out, record)
    BY <2>1 DEF Handled
  <2>3. \A kind \in {"Expired", "Identity_Conflict", "Session_Limit"} : out # Out(kind, slot)
    BY <1>5 DEF Out
  <2>4. CASE row # NoRow /\ m.sequence = row.seq /\ out = row.out
    <3>1. m.session \in Sessions
      BY <1>1, <1>5, RequestTypes
    <3> QED
      BY <1>4, <1>5, <2>4, <3>1 DEF ExplainedIn
  <2>5. CASE out.slot = slot
    <3>1. Did(e, slot) /\ slot \in 1..Through(e)
      BY <1>1, <1>3, <1>5, <2>5 DEF Did
    <3> QED
      BY <1>1, <1>5, <3>1 DEF Source
  <2> HIDE DEF row
  <2> QED
    BY <2>2, <2>3, <2>4, <2>5 DEF Answer, row
<1>6. ASSUME NEW t \in 1..Through(e), L[t].kind = "Transaction", e.outcomes[t].kind = "Applied"
      PROVE  Source(L, e, L[t].session, L[t].sequence)
  <2>1. CASE t = slot
    BY <1>1, <1>3, <1>5, <1>6, <2>1
  <2>2. CASE t \in 1..Through(d)
    BY <1>3, <1>4, <1>6, <2>2 DEF ExplainedIn
  <2> QED
    BY <1>3, <2>1, <2>2
<1>7. ASSUME NEW s \in Sessions, e.sessions[s] # NoRow, e.sessions[s].out.kind = "Applied"
      PROVE  Source(L, e, s, e.sessions[s].seq)
  <2>1. CASE e.sessions[s] = d.sessions[s]
    BY <1>4, <1>7, <2>1 DEF ExplainedIn
  <2>2. CASE e.sessions[s] # d.sessions[s]
    <3>1. e.sessions # [x \in Sessions |-> NoRow]
      BY <1>7
    <3>2. m.kind = "Transaction" /\ \E record \in BOOLEAN : Handled(d, e, slot, m, out, record)
      BY <1>2, <2>2, <3>1 DEF Handled
    <3>3. e.sessions = [d.sessions EXCEPT ![m.session] = NewRow(m, out)]
      BY <2>2, <3>2 DEF Handled
    <3>4. DOMAIN d.sessions = Sessions
      BY <1>1 DEF Databases
    <3>5. s = m.session /\ e.sessions[s] = NewRow(m, out)
      BY <2>2, <3>3, <3>4
    <3>6. e.sessions[s].seq = m.sequence /\ e.sessions[s].out = out
      BY <3>5 DEF NewRow
    <3> QED
      BY <1>5, <1>7, <3>2, <3>5, <3>6
  <2> QED
    BY <2>1, <2>2
<1> QED
  BY <1>6, <1>7 DEF ExplainedIn, e

\* A session's requests keep their order.
LEMMA OrderedStep ==
  ASSUME NEW L, NEW d, NEW slot, NEW m, Good(L, d), NextSlot(L, d, slot, m), OrderedIn(L, d),
         \A t \in 1..Through(d) : L[t] \in Mutations
  PROVE  OrderedIn(L, engine_apply_outcome(d, slot, m))
<1> DEFINE e == engine_apply_outcome(d, slot, m)
           row == d.sessions[m.session]
<1>1. /\ TablesGood(d) /\ m \in Mutations /\ slot = Through(d) + 1 /\ d \in Databases
      /\ m = L[slot] /\ slot \in 1..MaxSlot
  BY DEF Good, TablesGood, NextSlot
<1>2. PICK out \in Outcomes :
            /\ Moved(d, e, slot, m, out)
            /\ \/ \E record \in BOOLEAN : Handled(d, e, slot, m, out, record)
               \/ m.kind # "Transaction"
  BY <1>1, ApplyStep
<1> HIDE DEF e
<1>3. /\ Through(d) \in Nat /\ slot \in Nat /\ Through(e) = slot
      /\ \A t \in 1..Through(d) : Did(e, t) <=> Did(d, t)
      /\ \A t \in 1..Through(e) : t \in 1..Through(d) \/ t = slot
  BY <1>1, <1>2, MovedProperty
<1>4. ASSUME NEW s1 \in 1..Through(e), NEW s2 \in 1..Through(e), s1 < s2,
             L[s1].kind = "Transaction", L[s2].kind = "Transaction",
             L[s1].session = L[s2].session, L[s1].epoch = L[s2].epoch,
             L[s2].sequence <= L[s1].sequence, Did(e, s1), Did(e, s2)
      PROVE  FALSE
  <2>1. s1 \in 1..Through(d) /\ Did(d, s1)
    <3>1. s1 # slot
      BY <1>3, <1>4
    <3> QED
      BY <1>3, <1>4, <3>1
  <2>2. CASE s2 = slot
    <3>1. m.kind = "Transaction" /\ L[s1] \in Mutations /\ m.session = L[s1].session
          /\ m.epoch = L[s1].epoch /\ m.sequence <= L[s1].sequence
      BY <1>1, <1>4, <2>1, <2>2
    <3>2. PICK record \in BOOLEAN : Handled(d, e, slot, m, out, record)
      BY <1>2, <3>1
    <3>3. m.epoch = d.epoch /\ m.sequence > row.seq
      BY <1>4, <2>2, <3>2, ExecutionStep
    <3>4. Told(d, L[s1], d.outcomes[s1]) /\ d.outcomes[s1].kind = "Applied"
      BY <1>4, <2>1 DEF Good, ToldGood, Did
    <3>5. m.sequence \in Nat /\ row.seq \in Nat /\ L[s1].sequence \in Nat
      BY <1>1, <1>4, <3>1, RequestTypes
    <3> HIDE DEF row
    <3>6. row.seq > L[s1].sequence \/ row.seq = L[s1].sequence
      BY <3>1, <3>3, <3>4 DEF Told, row
    <3> QED
      BY <3>1, <3>3, <3>5, <3>6
  <2>3. CASE s2 \in 1..Through(d)
    <3>1. Did(d, s2)
      BY <1>3, <1>4, <2>3
    <3> QED
      BY <1>4, <2>1, <2>3, <3>1 DEF OrderedIn
  <2> QED
    BY <1>3, <2>2, <2>3
<1> QED
  BY <1>4 DEF OrderedIn, e

\* A log of valid mutations whose clients knew the epochs they named.
KnownLog(L) ==
    /\ Len(L) \in Nat /\ Len(L) <= MaxSlot /\ \A t \in 1..Len(L) : L[t] \in Mutations
    /\ EpochsKnown(L)

\* An outcome, once recorded, is the outcome for ever.
LEMMA OutcomesStay ==
  ASSUME NEW L, KnownLog(L), NEW t \in 1..Len(L)
  PROVE  \A n \in t..Len(L) : ReferenceOf(L)[n].outcomes[t] = ReferenceOf(L)[t].outcomes[t]
<1> DEFINE r == ReferenceOf(L)
           P == {n \in Nat : n >= t => r[n].outcomes[t] = r[t].outcomes[t]}
<1>1. \A n \in 0..Len(L) : Good(L, r[n]) /\ Through(r[n]) = n
  BY ReferenceGood DEF KnownLog
<1>2. \A n \in 1..Len(L) : r[n] = engine_apply_outcome(r[n-1], n, L[n])
  BY ReferenceUnfolds DEF KnownLog
<1>0. Len(L) \in Nat
  BY DEF KnownLog
<1> HIDE DEF r
<1>3. 0 \in P
  OBVIOUS
<1>4. ASSUME NEW n \in 1..Len(L), n - 1 \in P PROVE n \in P
  <2>1. n - 1 \in 0..Len(L) /\ n \in 1..MaxSlot /\ L[n] \in Mutations
    BY EngineAssumption DEF KnownLog
  <2>2. TablesGood(r[n-1]) /\ Through(r[n-1]) = n - 1 /\ r[n-1] \in Databases
    BY <1>1, <2>1 DEF Good, TablesGood
  <2>3. PICK out \in Outcomes : Moved(r[n-1], r[n], n, L[n], out)
    BY <1>2, <2>1, <2>2, ApplyStep
  <2>4. \A x \in 1..n-1 : r[n].outcomes[x] = r[n-1].outcomes[x]
    <3> DEFINE d == r[n-1]
               e == r[n]
    <3>1. /\ d \in Databases /\ n = Through(d) + 1 /\ Moved(d, e, n, L[n], out)
          /\ 1..Through(d) = 1..n-1
      BY <2>2, <2>3
    <3> HIDE DEF d, e
    <3>2. \A x \in 1..Through(d) : e.outcomes[x] = d.outcomes[x]
      BY <3>1, MovedProperty
    <3> QED
      BY <3>1, <3>2 DEF d, e
  <2> QED
    BY <1>4, <2>4
<1>5. \A n \in 0..Len(L) : n \in P
  <2> HIDE DEF P
  <2> QED
    BY <1>0, <1>3, <1>4, SlotInduction
<1> QED
  BY <1>5 DEF r

\* What the outcomes of a log tell its clients.
LEMMA ReferenceAnswers ==
  ASSUME NEW L, KnownLog(L)
  PROVE  LET r == ReferenceOf(L)
             did(t) == r[t].outcomes[t].kind = "Applied" /\ r[t].outcomes[t].slot = t
         IN /\ r[Len(L)].epoch \in Nat
            /\ \A t \in 1..Len(L) :
                  L[t].kind = "Transaction" /\ r[t].outcomes[t].kind = "Applied" =>
                    \E u \in 1..Len(L) : /\ L[u].kind = "Transaction" /\ L[u].session = L[t].session
                                         /\ L[u].sequence = L[t].sequence /\ did(u)
            /\ \A s1, s2 \in 1..Len(L) :
                  /\ s1 < s2 /\ L[s1].kind = "Transaction" /\ L[s2].kind = "Transaction"
                  /\ L[s1].session = L[s2].session /\ L[s1].epoch = L[s2].epoch
                  /\ L[s2].sequence <= L[s1].sequence
                  => ~(did(s1) /\ did(s2))
            /\ \A s1, s2 \in 1..Len(L) :
                  s1 < s2 /\ L[s1].kind = "Transaction" /\ L[s1] = L[s2] =>
                    Agrees(r[s1].outcomes[s1], r[s2].outcomes[s2])
<1> DEFINE r == ReferenceOf(L)
           P == {n \in Nat : ExplainedIn(L, r[n]) /\ OrderedIn(L, r[n])}
           last == r[Len(L)]
<1>0. Len(L) \in Nat /\ Len(L) <= MaxSlot /\ (\A t \in 1..Len(L) : L[t] \in Mutations)
  BY DEF KnownLog
<1>1. \A n \in 0..Len(L) : Good(L, r[n]) /\ Through(r[n]) = n
  BY ReferenceGood DEF KnownLog
<1>2. /\ r[0] = EmptyDb
      /\ \A n \in 1..Len(L) : r[n] = engine_apply_outcome(r[n-1], n, L[n])
  BY <1>0, ReferenceUnfolds
<1>3. \A n \in 1..Len(L) : L[n].kind = "Transaction" => L[n].epoch <= r[n-1].epoch
  BY DEF KnownLog, EpochsKnown
<1>4. \A t \in 1..Len(L) : last.outcomes[t] = r[t].outcomes[t]
  BY <1>0, OutcomesStay
<1> HIDE DEF r, last
<1>5. 0 \in P
  <2>1. Through(r[0]) = 0
    BY <1>0, <1>1
  <2>2. \A s \in Sessions : r[0].sessions[s] = NoRow
    BY <1>2 DEF EmptyDb
  <2> QED
    BY <2>1, <2>2 DEF ExplainedIn, OrderedIn
<1>6. ASSUME NEW n \in 1..Len(L), n - 1 \in P PROVE n \in P
  <2>1. Good(L, r[n-1]) /\ Through(r[n-1]) = n - 1 /\ n \in Nat
    BY <1>0, <1>1
  <2>2. NextSlot(L, r[n-1], n, L[n])
    BY <1>0, <1>3, <2>1, EngineAssumption DEF NextSlot
  <2>3. \A t \in 1..Through(r[n-1]) : L[t] \in Mutations
    BY <1>0, <2>1
  <2> QED
    BY <1>2, <1>6, <2>1, <2>2, <2>3, ExplainedStep, OrderedStep
<1>7. \A n \in 0..Len(L) : n \in P
  <2> HIDE DEF P
  <2> QED
    BY <1>0, <1>5, <1>6, SlotInduction
<1>8. Len(L) \in 0..Len(L)
  BY <1>0
<1>9. ExplainedIn(L, last) /\ OrderedIn(L, last) /\ Good(L, last) /\ Through(last) = Len(L)
  BY <1>1, <1>7, <1>8 DEF last
<1>10. \A t \in 1..Len(L) : Did(last, t) <=> r[t].outcomes[t].kind = "Applied" /\ r[t].outcomes[t].slot = t
  BY <1>4 DEF Did
<1>11. last.epoch \in Nat
  BY <1>9 DEF Good, TablesGood, Databases
<1>12. ASSUME NEW t \in 1..Len(L), L[t].kind = "Transaction", r[t].outcomes[t].kind = "Applied"
       PROVE  \E u \in 1..Len(L) : /\ L[u].kind = "Transaction" /\ L[u].session = L[t].session
                                   /\ L[u].sequence = L[t].sequence
                                   /\ r[u].outcomes[u].kind = "Applied" /\ r[u].outcomes[u].slot = u
  <2>1. Source(L, last, L[t].session, L[t].sequence)
    BY <1>4, <1>9, <1>12 DEF ExplainedIn
  <2> QED
    BY <1>9, <1>10, <2>1 DEF Source
<1>13. \A s1, s2 \in 1..Len(L) :
          /\ s1 < s2 /\ L[s1].kind = "Transaction" /\ L[s2].kind = "Transaction"
          /\ L[s1].session = L[s2].session /\ L[s1].epoch = L[s2].epoch
          /\ L[s2].sequence <= L[s1].sequence
          => ~(Did(last, s1) /\ Did(last, s2))
  BY <1>9 DEF OrderedIn
<1>14. \A s1, s2 \in 1..Len(L) :
          s1 < s2 /\ L[s1].kind = "Transaction" /\ L[s1] = L[s2] =>
             Agrees(r[s1].outcomes[s1], r[s2].outcomes[s2])
  BY <1>4, <1>9 DEF Good, StableIn
<1> QED
  BY <1>10, <1>11, <1>12, <1>13, <1>14 DEF r, last

\* A known log stays known when slots are decided whose requests name epochs
\* known before; the epoch never falls and no earlier outcome changes.
LEMMA ReferenceExtends ==
  ASSUME NEW L, NEW L1, KnownLog(L),
         Len(L1) \in Nat, Len(L1) <= MaxSlot, Len(L) <= Len(L1),
         \A t \in 1..Len(L1) : L1[t] \in Mutations,
         \A t \in 1..Len(L) : L1[t] = L[t],
         \A t \in Len(L)+1..Len(L1) : L1[t].kind = "Transaction" =>
             L1[t].epoch <= ReferenceOf(L)[Len(L)].epoch
  PROVE  /\ KnownLog(L1)
         /\ \A n \in 0..Len(L) : ReferenceOf(L1)[n] = ReferenceOf(L)[n]
         /\ ReferenceOf(L)[Len(L)].epoch <= ReferenceOf(L1)[Len(L1)].epoch
<1> DEFINE r == ReferenceOf(L)
           r1 == ReferenceOf(L1)
           known == r[Len(L)].epoch
           P == {n \in Nat : /\ Good(L1, r1[n]) /\ Through(r1[n]) = n
                             /\ n >= Len(L) => known <= r1[n].epoch}
<1>0. Len(L) \in Nat /\ Len(L) \in 0..Len(L) /\ 0 \in 0..Len(L)
  BY DEF KnownLog
<1>1. \A n \in 0..Len(L) : r1[n] = r[n]
  BY <1>0, ReferenceOfPrefix
<1>2. /\ r1[0] = EmptyDb
      /\ \A n \in 1..Len(L1) : r1[n] = engine_apply_outcome(r1[n-1], n, L1[n])
  BY ReferenceUnfolds
<1>3. \A n \in 1..Len(L) : L[n].kind = "Transaction" => L[n].epoch <= r[n-1].epoch
  BY DEF KnownLog, EpochsKnown
<1>4. \A n \in 0..Len(L) : r[n].epoch \in Nat
  <2>1. \A n \in 0..Len(L) : Good(L, r[n])
    BY ReferenceGood DEF KnownLog
  <2> QED
    BY <2>1 DEF Good, TablesGood, Databases
<1>5. \A t \in Len(L)+1..Len(L1) : L1[t].kind = "Transaction" => L1[t].epoch <= known
  OBVIOUS
<1>6. known \in Nat /\ known = r1[Len(L)].epoch
  BY <1>0, <1>1, <1>4
<1> HIDE DEF r, r1, known
<1>7. 0 \in P
  <2>1. 0 >= Len(L) => known <= r1[0].epoch
    BY <1>0, <1>6
  <2> QED
    BY <1>2, <2>1, EmptyGood
<1>8. ASSUME NEW n \in 1..Len(L1), n - 1 \in P
      PROVE  /\ n \in P
             /\ L1[n].kind = "Transaction" => L1[n].epoch <= r1[n-1].epoch
  <2>1. /\ Good(L1, r1[n-1]) /\ Through(r1[n-1]) = n - 1 /\ n \in Nat /\ n \in 1..MaxSlot
        /\ (n - 1 >= Len(L) => known <= r1[n-1].epoch) /\ L1[n] \in Mutations
    BY <1>8, EngineAssumption
  <2>2. TablesGood(r1[n-1]) /\ r1[n-1].epoch \in Nat
    BY <2>1 DEF Good, TablesGood, Databases
  <2>3. L1[n].kind = "Transaction" => L1[n].epoch <= r1[n-1].epoch
    <3>1. CASE n \in 1..Len(L)
      <4>1. n - 1 \in 0..Len(L)
        BY <3>1
      <4> QED
        BY <1>1, <1>3, <3>1, <4>1
    <3>2. CASE n \in Len(L)+1..Len(L1)
      <4>1. n - 1 >= Len(L)
        BY <1>0, <3>2
      <4>2. L1[n].kind = "Transaction" => L1[n].epoch \in Nat
        BY <2>1 DEF Mutations
      <4> QED
        BY <1>5, <1>6, <2>1, <2>2, <3>2, <4>1, <4>2
    <3> QED
      BY <1>0, <3>1, <3>2
  <2>4. NextSlot(L1, r1[n-1], n, L1[n])
    BY <2>1, <2>3 DEF NextSlot
  <2>5. \A t \in 1..Through(r1[n-1]) : L1[t] \in Mutations
    BY <2>1
  <2>6. Good(L1, r1[n]) /\ Through(r1[n]) = n
    BY <1>2, <2>1, <2>4, <2>5, GoodStep
  <2>7. r1[n-1].epoch <= r1[n].epoch
    BY <1>2, <2>1, <2>2, ApplyStep
  <2>8. r1[n].epoch \in Nat
    BY <2>6 DEF Good, TablesGood, Databases
  <2>9. n >= Len(L) => known <= r1[n].epoch
    <3>1. CASE n = Len(L)
      BY <1>6, <2>8, <3>1
    <3>2. CASE n > Len(L)
      <4>1. n - 1 >= Len(L)
        BY <1>0, <3>2
      <4> QED
        BY <1>6, <2>1, <2>2, <2>7, <2>8, <4>1
    <3> QED
      BY <1>0, <3>1, <3>2
  <2> QED
    BY <2>1, <2>3, <2>6, <2>9
<1>9. \A n \in 0..Len(L1) : n \in P
  <2> HIDE DEF P
  <2> QED
    BY <1>7, <1>8, SlotInduction
<1>10. EpochsKnown(L1)
  <2>1. ASSUME NEW s \in 1..Len(L1), L1[s].kind = "Transaction"
        PROVE  L1[s].epoch <= r1[s - 1].epoch
    <3>1. s - 1 \in 0..Len(L1)
      OBVIOUS
    <3> QED
      BY <1>8, <1>9, <2>1, <3>1
  <2> QED
    BY <2>1 DEF EpochsKnown, r1
<1>11. Len(L1) \in P /\ Len(L1) >= Len(L)
  BY <1>0, <1>9
<1>12. known <= r1[Len(L1)].epoch
  BY <1>11
<1> QED
  BY <1>1, <1>10, <1>12 DEF KnownLog, r, r1, known
=============================================================================
