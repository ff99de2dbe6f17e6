-------------------------- MODULE WritePathProofs ---------------------------
(***************************************************************************)
(* Proof that what the client library returns is true, that a client's     *)
(* writes execute in their order, and that connections and slots stay      *)
(* paired, for any servers, clients, windows and numbers of attempts.      *)
(*                                                                         *)
(* The argument: however many copies of a write there are, in connections, *)
(* proposals and decisions, they are all equal and name the epoch their    *)
(* client knew (CopyInv); a result was recorded for such a copy by a slot  *)
(* of the decided prefix (AnswersInv).  The rest is what module            *)
(* EngineProofs shows of the execution of any log: answers agree with each *)
(* other, and an answer "Applied" has one execution behind it.             *)
(***************************************************************************)
EXTENDS WritePath, FiniteSetTheorems, TLAPS

\* The lemmas on the engine's reference execution; they are about any log, so
\* the requests and the state of Engine do not matter here.
P == INSTANCE EngineProofs WITH
        Sessions <- Clients, Requests <- {}, MAX_APPLICATION_GROUP <- 1,
        log <- <<>>, db <- None, synced <- None, fallback <- 0

\* The decided prefix and its execution, of any decisions C.
ThroughOf(C) == CHOOSE m \in 0..MaxSlot :
    /\ \A s \in 1..m : C[s] # None
    /\ m < MaxSlot => C[m + 1] = None

LogOf(C) == [s \in 1..ThroughOf(C) |-> C[s]]
EpochOf(C) == P!ReferenceOf(LogOf(C))[ThroughOf(C)].epoch
OutcomeOf(C, s) == P!ReferenceOf(LogOf(C))[s].outcomes[s]

-----------------------------------------------------------------------------
\* Connections and slots are paired: the second part of SlotsBackConnections.
SlotsInv ==
    \A n \in Servers, i \in Connections :
        connection[n][i] # None /\ connection[n][i].slot # 0 =>
            LET s == connection[n][i].slot IN
            /\ owner_of(s) = n
            /\ proposed[s] = connection[n][i].value
            /\ \A j \in Connections \ {i} :
                  connection[n][j] # None => connection[n][j].slot # s

\* A copy of the write w is pending, waiting, proposed or decided.
Sent(w) ==
    \/ \E c \in Clients : client[c].pending = w
    \/ \E n \in Servers, i \in Connections :
          connection[n][i] # None /\ connection[n][i].value = w
    \/ \E s \in Slots : proposed[s] = w \/ chosen[s] = w

\* Copies name their client's epoch and are not ahead of it; two copies of one
\* write are equal.
CopyInv ==
    /\ \A w \in PendingWrites : Sent(w) =>
         LET k == client[w.session] IN
         /\ w.epoch = k.epoch /\ w.sequence <= k.sequence
         /\ w.sequence = k.sequence => k.pending = w
    /\ \A v, w \in PendingWrites :
         Sent(v) /\ Sent(w) /\ v.session = w.session /\ v.sequence = w.sequence => v = w

\* The pending write is the client's next one, the connection it waits at holds
\* it, and the earlier ones have their results.
ClientInv ==
    \A c \in Clients :
        /\ client[c].pending # None =>
              client[c].pending.session = c /\ client[c].pending.sequence = client[c].sequence
        /\ \A n \in Servers, i \in Connections : client[c].at = <<n, i>> =>
              /\ connection[n][i] # None /\ client[c].pending # None
              /\ connection[n][i].value = client[c].pending
        /\ \A q \in 1..MaxSequence : result[c][q] # None <=> q < client[c].sequence

\* Servers apply decided slots; no client is ahead of the decided epoch.
LogInv ==
    /\ \A n \in Servers : applied[n] <= ThroughOf(chosen)
    /\ P!KnownLog(LogOf(chosen))
    /\ \A c \in Clients : client[c].epoch <= EpochOf(chosen)

\* A result is the outcome of a decided copy of the write.
AnswersInv ==
    \A c \in Clients, q \in 1..MaxSequence : result[c][q] # None =>
        \E t \in 1..ThroughOf(chosen) :
            /\ chosen[t] \in PendingWrites /\ chosen[t].session = c /\ chosen[t].sequence = q
            /\ OutcomeOf(chosen, t).kind = result[c][q]

\* The inductive invariant.
WriteInv == TypeOK /\ SlotsInv /\ CopyInv /\ ClientInv /\ LogInv /\ AnswersInv

-----------------------------------------------------------------------------
\* The reference execution of Engine's instance is that of the lemmas.
LEMMA SameApply ==
  ASSUME NEW d, NEW s, NEW m
  PROVE  P!engine_apply_outcome(d, s, m) = E!engine_apply_outcome(d, s, m)
<1>0. P!SessionCount(d) = E!SessionCount(d)
  BY DEF P!SessionCount, E!SessionCount, P!NoRow, E!NoRow, P!Cardinality, E!Cardinality,
         P!IsFiniteSet, E!IsFiniteSet
<1>1. P!Lookup(d, s, m) = E!Lookup(d, s, m)
  BY <1>0 DEF P!Lookup, E!Lookup, P!engine_request_lookup, E!engine_request_lookup, P!Out, E!Out,
              P!NoRow, E!NoRow, P!transaction_digest, E!transaction_digest
<1>2. P!engine_run_outcome(d, m) = E!engine_run_outcome(d, m)
  BY DEF P!engine_run_outcome, E!engine_run_outcome, P!StaleRevision, E!StaleRevision,
         P!engine_retire_sessions, E!engine_retire_sessions, P!Execute, E!Execute, P!NoRow, E!NoRow
<1> QED
  BY <1>1, <1>2 DEF P!engine_apply_outcome, E!engine_apply_outcome, P!engine_record_outcome,
                    E!engine_record_outcome, P!DeferredViolation, E!DeferredViolation, P!Out, E!Out,
                    P!AdvancesVersion, E!AdvancesVersion, P!transaction_digest, E!transaction_digest

\* So are the decided prefix and the outcomes.
LEMMA SameReference ==
  /\ DecidedThrough = ThroughOf(chosen) /\ Log = LogOf(chosen)
  /\ E!Reference = P!ReferenceOf(LogOf(chosen))
  /\ \A s : Outcome(s) = OutcomeOf(chosen, s)
<1>1. DecidedThrough = ThroughOf(chosen) /\ Log = LogOf(chosen)
  BY DEF DecidedThrough, ThroughOf, Log, LogOf
<1>2. E!Reference = P!ReferenceOf(Log)
  BY SameApply DEF E!Reference, P!ReferenceOf, E!EmptyDb, P!EmptyDb, E!NoRow, P!NoRow
<1> QED
  BY <1>1, <1>2 DEF Outcome, OutcomeOf

\* The assumptions of those lemmas.
LEMMA LemmasApply == P!EngineAssumption /\ P!RequestAssumption
BY WriteAssumption DEF P!EngineAssumption, P!RequestAssumption

\* Any decisions have a decided prefix.
LEMMA ThroughProperty ==
  ASSUME NEW C
  PROVE  /\ ThroughOf(C) \in 0..MaxSlot
         /\ \A s \in 1..ThroughOf(C) : C[s] # None
         /\ ThroughOf(C) < MaxSlot => C[ThroughOf(C) + 1] = None
<1> DEFINE T == {m \in 0..MaxSlot : m < MaxSlot => C[m + 1] = None}
<1>0. MaxSlot \in Nat
  BY WriteAssumption
<1>1. T \subseteq Nat /\ MaxSlot \in T
  BY <1>0
<1>2. PICK m \in T : \A y \in T : m <= y
  <2> HIDE DEF T
  <2> QED
    BY <1>1, P!LeastSlot, LemmasApply
<1>3. ASSUME NEW s \in 1..m, C[s] = None PROVE FALSE
  <2>1. s - 1 \in T
    BY <1>0, <1>2, <1>3
  <2>2. ~(m <= s - 1)
    BY <1>0, <1>2
  <2> QED
    BY <1>2, <2>1, <2>2
<1>4. \E x \in 0..MaxSlot : /\ \A s \in 1..x : C[s] # None
                            /\ x < MaxSlot => C[x + 1] = None
  BY <1>2, <1>3
<1> QED
  BY <1>4 DEF ThroughOf

\* The decided prefix is a sequence.
LEMMA LogProperty ==
  ASSUME NEW C
  PROVE  /\ Len(LogOf(C)) = ThroughOf(C) /\ ThroughOf(C) \in Nat /\ ThroughOf(C) <= MaxSlot
         /\ \A s \in 1..ThroughOf(C) : LogOf(C)[s] = C[s]
<1>1. ThroughOf(C) \in 0..MaxSlot /\ MaxSlot \in Nat
  BY ThroughProperty, WriteAssumption
<1> HIDE DEF ThroughOf
<1> QED
  BY <1>1 DEF LogOf

\* It grows with the decisions.
LEMMA ThroughGrows ==
  ASSUME NEW C, NEW C1, \A s \in Slots : C[s] # None => C1[s] = C[s]
  PROVE  ThroughOf(C) <= ThroughOf(C1)
<1>0. MaxSlot \in Nat
  BY WriteAssumption
<1>1. /\ ThroughOf(C) \in 0..MaxSlot /\ ThroughOf(C1) \in 0..MaxSlot
      /\ \A s \in 1..ThroughOf(C) : C[s] # None
      /\ ThroughOf(C1) < MaxSlot => C1[ThroughOf(C1) + 1] = None
  BY ThroughProperty
<1> DEFINE a == ThroughOf(C)
           b == ThroughOf(C1)
<1> HIDE DEF a, b
<1>2. /\ a \in 0..MaxSlot /\ b \in 0..MaxSlot /\ (\A s \in 1..a : C[s] # None)
      /\ (b < MaxSlot => C1[b + 1] = None)
  BY <1>1 DEF a, b
<1>3. ASSUME b < a PROVE FALSE
  <2>1. b + 1 \in 1..a /\ b + 1 \in Slots /\ b < MaxSlot
    BY <1>0, <1>2, <1>3 DEF Slots
  <2>2. C[b + 1] # None /\ C1[b + 1] = C[b + 1]
    BY <1>2, <2>1
  <2> QED
    BY <1>2, <2>1, <2>2
<1>4. a <= b
  BY <1>0, <1>2, <1>3
<1> QED
  BY <1>4 DEF a, b

\* What is decided is a mutation of Engine.
LEMMA WritesAreMutations ==
  /\ PendingWrites \cup {Skip, Retire} \subseteq P!Mutations
  /\ \A w \in PendingWrites :
        /\ w.kind = "Transaction" /\ w.session \in Clients /\ w.sequence \in 1..MaxSequence
        /\ w.epoch \in Nat /\ w # Skip /\ w # Retire /\ w # None
  /\ Skip.kind # "Transaction" /\ Retire.kind # "Transaction" /\ Skip # None /\ Retire # None
<1>1. P!Statements = E!Statements
  BY DEF P!Statements, E!Statements
<1>2. \A b \in UNION {Bodies[q] : q \in 1..MaxSequence} : b \in P!Statements
  BY <1>1, ValueAssumption
<1>3. PendingWrites \subseteq P!Mutations
  <2>1. SUFFICES ASSUME NEW w \in PendingWrites PROVE w \in P!Mutations
    OBVIOUS
  <2>2. w.body \in P!Statements
    BY <1>2 DEF PendingWrites
  <2>3. w \in [kind : {"Transaction"}, session : Clients, sequence : Nat \ {0}, epoch : Nat,
               read_version : Nat, body : P!Statements]
    BY <2>2 DEF PendingWrites
  <2> QED
    BY <2>3 DEF P!Mutations
<1>4. {Skip, Retire} \subseteq P!Mutations
  BY DEF P!Mutations, Skip, Retire
<1>5. Skip.kind = "Skip" /\ Retire.kind = "Session_Epoch"
  BY DEF Skip, Retire
<1>6. \A w \in PendingWrites :
        /\ w.kind = "Transaction" /\ w.session \in Clients /\ w.sequence \in 1..MaxSequence
        /\ w.epoch \in Nat
  BY DEF PendingWrites
<1>7. None \notin PendingWrites /\ None # Skip /\ None # Retire
  BY ValueAssumption
<1> QED
  BY <1>3, <1>4, <1>5, <1>6, <1>7

-----------------------------------------------------------------------------
\* Deciding a slot extends the log by mutations whose epochs are known.
LEMMA DecideExtends ==
  ASSUME WriteInv, NEW s \in Slots, Decide(s)
  PROVE  /\ P!KnownLog(LogOf(chosen')) /\ ThroughOf(chosen) <= ThroughOf(chosen')
         /\ EpochOf(chosen) <= EpochOf(chosen')
         /\ \A t \in 1..ThroughOf(chosen) : /\ chosen'[t] = chosen[t]
                                            /\ OutcomeOf(chosen', t) = OutcomeOf(chosen, t)
<1> DEFINE a == ThroughOf(chosen)
           b == ThroughOf(chosen')
           L == LogOf(chosen)
           L1 == LogOf(chosen')
<1>0. /\ chosen \in [Slots -> PendingWrites \cup {Skip, Retire, None}]
      /\ proposed \in [Slots -> PendingWrites \cup {Retire, None}]
      /\ MaxSlot \in Nat /\ P!KnownLog(L)
  BY WriteAssumption DEF WriteInv, TypeOK, LogInv
<1>1. /\ \A t \in Slots : chosen[t] # None => chosen'[t] = chosen[t]
      /\ \A t \in Slots : chosen'[t] \in {chosen[t], Skip, proposed[t]}
  BY <1>0 DEF Decide
<1>2. /\ a \in Nat /\ a <= MaxSlot /\ Len(L) = a /\ b \in Nat /\ b <= MaxSlot /\ Len(L1) = b
      /\ (\A t \in 1..a : L[t] = chosen[t]) /\ (\A t \in 1..b : L1[t] = chosen'[t])
  BY LogProperty
<1>3. a <= b
  BY <1>1, ThroughGrows
<1>4. (\A t \in 1..a : chosen[t] # None) /\ (\A t \in 1..b : chosen'[t] # None)
  BY ThroughProperty
<1> HIDE DEF a, b, L, L1
<1>5. \A t \in 1..b : t \in Slots /\ L1[t] \in P!Mutations
  <2>1. SUFFICES ASSUME NEW t \in 1..b PROVE t \in Slots /\ L1[t] \in P!Mutations
    OBVIOUS
  <2>2. t \in Slots
    BY <1>0, <1>2 DEF Slots
  <2>3. chosen'[t] \in PendingWrites \cup {Skip, Retire}
    BY <1>0, <1>1, <1>4, <2>2
  <2> QED
    BY <1>2, <2>2, <2>3, WritesAreMutations
<1>6. \A t \in 1..a : L1[t] = L[t] /\ chosen'[t] = chosen[t]
  <2>1. SUFFICES ASSUME NEW t \in 1..a PROVE L1[t] = L[t] /\ chosen'[t] = chosen[t]
    OBVIOUS
  <2>2. t \in 1..b
    BY <1>2, <1>3
  <2> QED
    BY <1>1, <1>2, <1>4, <1>5, <2>2
<1>7. ASSUME NEW t \in a+1..b, L1[t].kind = "Transaction"
      PROVE  L1[t].epoch <= P!ReferenceOf(L)[Len(L)].epoch
  <2>1. t \in 1..b /\ t \in Slots
    BY <1>2, <1>5, <1>7
  <2> DEFINE w == chosen'[t]
  <2>2. w \in PendingWrites /\ w \in {chosen[t], proposed[t]} /\ L1[t] = w
    <3>1. chosen'[t] \in PendingWrites \cup {Skip, Retire} /\ L1[t] = chosen'[t]
      BY <1>0, <1>1, <1>2, <1>4, <2>1
    <3> QED
      BY <1>1, <1>7, <2>1, <3>1, WritesAreMutations
  <2>3. Sent(w)
    BY <2>1, <2>2 DEF Sent
  <2> HIDE DEF w
  <2>4. w.epoch = client[w.session].epoch /\ w.session \in Clients
    BY <2>2, <2>3, WritesAreMutations DEF WriteInv, CopyInv
  <2>5. client[w.session].epoch <= EpochOf(chosen)
    BY <2>4 DEF WriteInv, LogInv
  <2> QED
    BY <1>2, <2>2, <2>4, <2>5 DEF EpochOf, L, a
<1>8. /\ P!KnownLog(L1)
      /\ \A n \in 0..Len(L) : P!ReferenceOf(L1)[n] = P!ReferenceOf(L)[n]
      /\ P!ReferenceOf(L)[Len(L)].epoch <= P!ReferenceOf(L1)[Len(L1)].epoch
  BY <1>0, <1>2, <1>3, <1>5, <1>6, <1>7, P!ReferenceExtends, LemmasApply
<1>9. EpochOf(chosen) <= EpochOf(chosen')
  BY <1>2, <1>8 DEF EpochOf, L, L1, a, b
<1>10. \A t \in 1..a : P!ReferenceOf(L1)[t].outcomes[t] = P!ReferenceOf(L)[t].outcomes[t]
  BY <1>2, <1>8
<1> QED
  BY <1>3, <1>6, <1>8, <1>9, <1>10 DEF a, b, L, L1, OutcomeOf

\* The decided epoch is a number.
LEMMA EpochProperty ==
  ASSUME LogInv
  PROVE  EpochOf(chosen) \in Nat
<1>1. P!KnownLog(LogOf(chosen))
  BY DEF LogInv
<1>2. Len(LogOf(chosen)) = ThroughOf(chosen)
  BY LogProperty
<1>3. P!ReferenceOf(LogOf(chosen))[Len(LogOf(chosen))].epoch \in Nat
  BY <1>1, P!ReferenceAnswers, LemmasApply
<1> QED
  BY <1>2, <1>3 DEF EpochOf

-----------------------------------------------------------------------------
\* A remainder by M of a number below 2M.
LEMMA Remainder ==
  ASSUME NEW M \in Nat \ {0}, NEW x \in Nat
  PROVE  /\ x % M \in 0..M-1
         /\ x < M => x % M = x
         /\ x >= M /\ x < M + M => x % M = x - M
OBVIOUS

\* The k-th smallest of at least k slots exists.
LEMMA NthProperty ==
  ASSUME NEW S \in SUBSET Slots, NEW k \in Nat, 1 <= k, k <= Cardinality(S)
  PROVE  Nth(S, k) \in S /\ Cardinality({t \in S : t <= Nth(S, k)}) = k
<1> DEFINE Below(m) == {t \in S : t <= m}
           T == {m \in 0..MaxSlot : Cardinality(Below(m)) >= k}
<1>0. MaxSlot \in Nat /\ S \subseteq 1..MaxSlot
  BY WriteAssumption DEF Slots
<1>1. IsFiniteSet(S)
  <2>1. IsFiniteSet(1..MaxSlot)
    BY <1>0, FS_Interval
  <2> QED
    BY <1>0, <2>1, FS_Subset
<1>2. \A m \in 0..MaxSlot : IsFiniteSet(Below(m)) /\ Cardinality(Below(m)) \in Nat
  BY <1>1, FS_Subset, FS_CardinalityType
<1>3. Below(MaxSlot) = S /\ Below(0) = {}
  <2>1. \A t \in S : t <= MaxSlot /\ ~(t <= 0)
    BY <1>0
  <2> QED
    BY <2>1
<1>4. T \subseteq Nat /\ MaxSlot \in T
  BY <1>0, <1>3
<1>5. PICK m \in T : \A y \in T : m <= y
  <2> HIDE DEF T
  <2> QED
    BY <1>4, P!LeastSlot, LemmasApply
<1>6. m \in 1..MaxSlot
  <2>1. m # 0
    BY <1>3, <1>5, FS_EmptySet
  <2> QED
    BY <1>0, <1>5, <2>1
<1>7. ~(Cardinality(Below(m - 1)) >= k) /\ m - 1 \in 0..MaxSlot
  <2>1. m - 1 \in 0..MaxSlot /\ ~(m <= m - 1)
    BY <1>0, <1>6
  <2>2. m - 1 \notin T
    BY <1>5, <2>1
  <2> HIDE DEF Below
  <2> QED
    BY <2>1, <2>2
<1>8. m \in S
  <2>1. SUFFICES ASSUME m \notin S PROVE FALSE
    OBVIOUS
  <2>2. Below(m) = Below(m - 1)
    <3>1. \A t \in S : t <= m <=> t <= m - 1
      BY <1>0, <1>6, <2>1
    <3> QED
      BY <3>1
  <2> QED
    BY <1>5, <1>7, <2>2
<1>9. Below(m) = Below(m - 1) \cup {m} /\ m \notin Below(m - 1)
  <2>1. \A t \in S : t <= m <=> t <= m - 1 \/ t = m
    BY <1>0, <1>6
  <2>2. ~(m <= m - 1)
    BY <1>6
  <2> QED
    BY <1>8, <2>1, <2>2
<1>10. Cardinality(Below(m)) = Cardinality(Below(m - 1)) + 1
  <2> HIDE DEF Below
  <2> QED
    BY <1>2, <1>7, <1>9, FS_AddElement
<1>11. Cardinality(Below(m)) = k
  <2>1. Cardinality(Below(m)) >= k
    BY <1>5
  <2> HIDE DEF Below
  <2> QED
    BY <1>2, <1>7, <1>10, <2>1
<1> QED
  BY <1>8, <1>11 DEF Nth

\* The order of the waiting connections has no ties and no gaps below the first.
LEMMA RankProperty ==
  ASSUME TypeOK, NEW n \in Servers
  PROVE  /\ IsFiniteSet(Waiting(n)) /\ Cardinality(Waiting(n)) \in Nat
         /\ \A i \in Waiting(n) : Rank(n, i) \in Nat /\ 1 <= Rank(n, i)
         /\ \A i, j \in Waiting(n) : Rank(n, i) = Rank(n, j) => i = j
<1> DEFINE W == Waiting(n)
           M == MAX_CONNECTIONS
           Upto(i) == {j \in W : Offset(n, j) <= Offset(n, i)}
<1>0. M \in Nat \ {0} /\ write_cursor[n] \in 0..M-1 /\ W \subseteq 0..M-1
  BY WriteAssumption DEF TypeOK, Connections, Waiting
<1>1. IsFiniteSet(W) /\ Cardinality(W) \in Nat
  <2>1. IsFiniteSet(0..M-1)
    BY <1>0, FS_Interval
  <2> QED
    BY <1>0, <2>1, FS_Subset, FS_CardinalityType
<1>2. \A i \in 0..M-1 : /\ Offset(n, i) \in Nat
                        /\ (i < write_cursor[n] => Offset(n, i) = i - write_cursor[n] + M)
                        /\ (i >= write_cursor[n] => Offset(n, i) = i - write_cursor[n])
  <2>1. SUFFICES ASSUME NEW i \in 0..M-1
                 PROVE  /\ Offset(n, i) \in Nat
                        /\ (i < write_cursor[n] => Offset(n, i) = i - write_cursor[n] + M)
                        /\ (i >= write_cursor[n] => Offset(n, i) = i - write_cursor[n])
    OBVIOUS
  <2> DEFINE x == i - write_cursor[n] + M
             c == write_cursor[n]
  <2>2. /\ x \in Nat /\ (i < c => x < M) /\ (i >= c => x >= M /\ x < M + M)
        /\ x - M = i - c
    BY <1>0
  <2> HIDE DEF x
  <2>3. /\ x % M \in 0..M-1 /\ (x < M => x % M = x)
        /\ (x >= M /\ x < M + M => x % M = x - M)
    BY <1>0, <2>2, Remainder
  <2>4. Offset(n, i) = x % M
    BY DEF Offset, x
  <2> HIDE DEF M
  <2> QED
    BY <1>0, <2>2, <2>3, <2>4 DEF x
<1>3. \A i, j \in W : Offset(n, i) = Offset(n, j) => i = j
  BY <1>0, <1>2
<1>4. \A i \in W : IsFiniteSet(Upto(i)) /\ Cardinality(Upto(i)) \in Nat /\ i \in Upto(i)
  <2>1. SUFFICES ASSUME NEW i \in W PROVE IsFiniteSet(Upto(i)) /\ Cardinality(Upto(i)) \in Nat /\ i \in Upto(i)
    OBVIOUS
  <2>2. IsFiniteSet(Upto(i)) /\ Cardinality(Upto(i)) \in Nat
    BY <1>1, FS_Subset, FS_CardinalityType
  <2> QED
    BY <1>0, <1>2, <2>2
<1>5. \A i \in W : Rank(n, i) = Cardinality(Upto(i))
  BY DEF Rank
<1>6. ASSUME NEW i \in W PROVE 1 <= Cardinality(Upto(i))
  <2>1. Upto(i) # {}
    BY <1>4
  <2> HIDE DEF Upto
  <2> QED
    BY <1>4, <2>1, FS_EmptySet
<1>7. ASSUME NEW i \in W, NEW j \in W, Offset(n, i) < Offset(n, j)
      PROVE  Cardinality(Upto(i)) # Cardinality(Upto(j))
  <2>1. Upto(i) \subseteq Upto(j)
    BY <1>0, <1>2, <1>7
  <2>2. j \in Upto(j) /\ j \notin Upto(i)
    BY <1>0, <1>2, <1>7
  <2> HIDE DEF Upto
  <2>3. Cardinality(Upto(i)) = Cardinality(Upto(j)) => Upto(i) = Upto(j)
    BY <1>4, <2>1, FS_Subset
  <2> QED
    BY <2>2, <2>3
<1>8. ASSUME NEW i \in W, NEW j \in W, Rank(n, i) = Rank(n, j) PROVE i = j
  <2> HIDE DEF W, Upto
  <2>1. Offset(n, i) \in Nat /\ Offset(n, j) \in Nat
    BY <1>0, <1>2
  <2>2. ~(Offset(n, i) < Offset(n, j)) /\ ~(Offset(n, j) < Offset(n, i))
    BY <1>5, <1>7, <1>8
  <2> QED
    BY <1>3, <2>1, <2>2
<1> HIDE DEF Upto, W
<1> QED
  BY <1>1, <1>4, <1>5, <1>6, <1>8 DEF W

-----------------------------------------------------------------------------
\* The parts of the state, as TypeOK has them.
ConnectionRecords == [value : PendingWrites, slot : 0..MaxSlot]
ClientRecords ==
    [sequence : 1..MaxSequence + 1, epoch : Nat \cup {-1}, index : 0..N - 1,
     attempts : 0..MaxAttempts, pending : PendingWrites \cup {None},
     at : (Servers \X Connections) \cup {None}]

\* Turning to the next endpoint changes nothing but where the client waits.
LEMMA NextEndpointProperty ==
  ASSUME TypeOK, NEW c \in Clients
  PROVE  LET k == NextEndpoint(c) IN
         /\ k \in ClientRecords /\ k.at = None /\ k.sequence = client[c].sequence
         /\ k.epoch = client[c].epoch /\ k.pending = client[c].pending
<1>1. client[c] \in ClientRecords
  BY DEF TypeOK, ClientRecords
<1>2. (client[c].index + 1) % N \in 0..N-1
  <2>1. N \in Nat \ {0} /\ client[c].index + 1 \in Nat
    BY <1>1, WriteAssumption DEF ClientRecords
  <2> QED
    BY <2>1, Remainder
<1> DEFINE x == (client[c].index + 1) % N
           k == NextEndpoint(c)
<1>3. k = [client[c] EXCEPT !.at = None, !.index = x]
  BY DEF NextEndpoint
<1>4. x \in 0..N-1
  BY <1>2
<1> HIDE DEF x, k
<1> QED
  BY <1>1, <1>3, <1>4 DEF ClientRecords, k

\* An answer ends the attempt, and the write if it is final.
LEMMA ResolvedProperty ==
  ASSUME TypeOK, ClientInv, NEW c \in Clients, client[c].pending # None, NEW code
  PROVE  LET k == Resolved(c, code) IN
         /\ k \in ClientRecords /\ k.at = None /\ k.epoch = client[c].epoch
         /\ code \in FinalCodes => k.pending = None /\ k.sequence = client[c].sequence + 1
         /\ code \notin FinalCodes =>
               k.pending = client[c].pending /\ k.sequence = client[c].sequence
<1>1. client[c] \in ClientRecords
  BY DEF TypeOK, ClientRecords
<1>2. client[c].sequence \in 1..MaxSequence /\ MaxSequence \in Nat
  <2>1. client[c].pending \in PendingWrites /\ client[c].pending.sequence = client[c].sequence
    BY <1>1 DEF ClientRecords, ClientInv
  <2> QED
    BY <2>1, WritesAreMutations, WriteAssumption
<1>3. "Busy" \notin FinalCodes /\ "Unknown_Outcome" \notin FinalCodes
  BY DEF FinalCodes
<1> DEFINE k == Resolved(c, code)
<1>4. CASE code \in {"Busy", "Unknown_Outcome"}
  <2>1. k = NextEndpoint(c) /\ code \notin FinalCodes
    BY <1>3, <1>4 DEF Resolved
  <2> HIDE DEF k
  <2> QED
    BY <2>1, NextEndpointProperty DEF k
<1>5. CASE code \in FinalCodes
  <2>1. k = [client[c] EXCEPT !.at = None, !.pending = None, !.sequence = client[c].sequence + 1]
    BY <1>3, <1>5 DEF Resolved
  <2>2. client[c].sequence + 1 \in 1..MaxSequence + 1
    BY <1>2
  <2> HIDE DEF k
  <2> QED
    BY <1>1, <1>5, <2>1, <2>2 DEF ClientRecords, k
<1>6. CASE code \notin FinalCodes /\ code \notin {"Busy", "Unknown_Outcome"}
  <2>1. k = [client[c] EXCEPT !.at = None]
    BY <1>6 DEF Resolved
  <2> HIDE DEF k
  <2> QED
    BY <1>1, <1>6, <2>1 DEF ClientRecords, k
<1> QED
  BY <1>4, <1>5, <1>6

\* A step that copies writes only from where copies are keeps CopyInv; a client
\* keeps its pending write and epoch, or goes on to its next write.
LEMMA CopyKept ==
  ASSUME TypeOK, CopyInv,
         \A c \in Clients :
            /\ client'[c].epoch = client[c].epoch
            /\ \/ client'[c].pending = client[c].pending /\ client'[c].sequence = client[c].sequence
               \/ client'[c].pending = None /\ client'[c].sequence = client[c].sequence + 1,
         \A n \in Servers, i \in Connections : connection'[n][i] # None =>
            \/ connection[n][i] # None /\ connection'[n][i].value = connection[n][i].value
            \/ \E c \in Clients : connection'[n][i].value = client[c].pending,
         \A s \in Slots :
            \/ proposed'[s] \in {proposed[s], Retire, None}
            \/ \E n \in Servers, i \in Connections :
                  connection[n][i] # None /\ proposed'[s] = connection[n][i].value,
         \A s \in Slots : chosen'[s] \in {chosen[s], proposed[s], Skip}
  PROVE  CopyInv'
<1>1. ASSUME NEW w \in PendingWrites, Sent(w)' PROVE Sent(w)
  <2>0. w # None /\ w # Retire /\ w # Skip
    BY WritesAreMutations
  <2>1. ASSUME NEW c \in Clients, client'[c].pending = w PROVE Sent(w)
    BY <2>0, <2>1 DEF Sent
  <2>2. ASSUME NEW n \in Servers, NEW i \in Connections, connection'[n][i] # None,
               connection'[n][i].value = w
        PROVE  Sent(w)
    BY <2>2 DEF Sent
  <2>3. ASSUME NEW s \in Slots, proposed'[s] = w PROVE Sent(w)
    BY <2>0, <2>3 DEF Sent
  <2>4. ASSUME NEW s \in Slots, chosen'[s] = w PROVE Sent(w)
    BY <2>0, <2>4 DEF Sent
  <2> QED
    BY <1>1, <2>1, <2>2, <2>3, <2>4 DEF Sent
<1>2. ASSUME NEW w \in PendingWrites, Sent(w)'
      PROVE  /\ w.epoch = client'[w.session].epoch
             /\ w.sequence <= client'[w.session].sequence
             /\ w.sequence = client'[w.session].sequence => client'[w.session].pending = w
  <2> DEFINE c == w.session
  <2>1. /\ w.epoch = client[c].epoch /\ w.sequence <= client[c].sequence
        /\ w.sequence = client[c].sequence => client[c].pending = w
    BY <1>1, <1>2 DEF CopyInv
  <2>2. c \in Clients /\ w.sequence \in Nat /\ client[c].sequence \in Nat
    BY WritesAreMutations DEF TypeOK
  <2> HIDE DEF c
  <2> QED
    BY <2>1, <2>2 DEF c
<1>3. \A v, w \in PendingWrites :
         Sent(v)' /\ Sent(w)' /\ v.session = w.session /\ v.sequence = w.sequence => v = w
  BY <1>1 DEF CopyInv
<1> QED
  BY <1>2, <1>3 DEF CopyInv

-----------------------------------------------------------------------------
\* Server n offers the writes of some of its connections in free slots of its
\* own: admit_writes and poll_write_again.
Offers(n, batch, f) ==
    /\ batch \subseteq {i \in Connections : connection[n][i] # None}
    /\ f \in [batch -> OwnFree(n)]
    /\ \A i, j \in batch : f[i] = f[j] => i = j
    /\ connection' = [connection EXCEPT ![n] = [i \in Connections |->
            IF i \in batch THEN [connection[n][i] EXCEPT !.slot = f[i]] ELSE connection[n][i]]]
    /\ DOMAIN proposed' = Slots /\ proposed' = [s \in Slots |-> proposed'[s]]
    /\ \A s \in Slots :
          \/ \E i \in batch : f[i] = s /\ proposed'[s] = connection[n][i].value
          \/ proposed'[s] = proposed[s] /\ \A i \in batch : f[i] # s
    /\ write_cursor' \in [Servers -> Connections]
    /\ UNCHANGED <<chosen, applied, client, result>>

\* Free slots carry nothing.
LEMMA OwnFreeProperty ==
  ASSUME NEW n, NEW s \in OwnFree(n)
  PROVE  s \in Slots /\ owner_of(s) = n /\ proposed[s] = None /\ chosen[s] = None
<1>1. s \in Nat
  BY DEF OwnFree, Slots
<1> QED
  BY <1>1 DEF OwnFree

\* An offer keeps the invariant.
LEMMA OffersStep ==
  ASSUME WriteInv, NEW n \in Servers, NEW batch, NEW f, Offers(n, batch, f)
  PROVE  WriteInv'
<1>0. /\ TypeOK /\ SlotsInv /\ CopyInv /\ ClientInv /\ LogInv /\ AnswersInv
      /\ connection \in [Servers -> [Connections -> ConnectionRecords \cup {None}]]
      /\ proposed \in [Slots -> PendingWrites \cup {Retire, None}]
  BY DEF WriteInv, TypeOK, ConnectionRecords
<1>1. \A i \in batch : /\ i \in Connections /\ connection[n][i] # None
                       /\ connection[n][i] \in ConnectionRecords
                       /\ f[i] \in Slots /\ owner_of(f[i]) = n /\ proposed[f[i]] = None
                       /\ f[i] \in 0..MaxSlot /\ f[i] # 0
  <2>1. SUFFICES ASSUME NEW i \in batch
                 PROVE  /\ i \in Connections /\ connection[n][i] # None
                        /\ connection[n][i] \in ConnectionRecords
                        /\ f[i] \in Slots /\ owner_of(f[i]) = n /\ proposed[f[i]] = None
                        /\ f[i] \in 0..MaxSlot /\ f[i] # 0
    OBVIOUS
  <2>2. i \in Connections /\ connection[n][i] # None /\ f[i] \in OwnFree(n)
    BY DEF Offers
  <2>3. f[i] \in Slots /\ owner_of(f[i]) = n /\ proposed[f[i]] = None
    BY <2>2, OwnFreeProperty
  <2> QED
    BY <1>0, <2>2, <2>3 DEF Slots
<1>2. /\ DOMAIN connection' = Servers
      /\ \A m \in Servers \ {n} : connection'[m] = connection[m]
      /\ \A i \in batch : connection'[n][i] = [connection[n][i] EXCEPT !.slot = f[i]]
      /\ \A i \in Connections \ batch : connection'[n][i] = connection[n][i]
      /\ DOMAIN connection'[n] = Connections
  BY <1>0, <1>1 DEF Offers
<1>3. \A i \in batch : /\ connection'[n][i] \in ConnectionRecords
                       /\ connection'[n][i].value = connection[n][i].value
                       /\ connection'[n][i].slot = f[i]
  BY <1>1, <1>2 DEF ConnectionRecords
<1>4. connection' \in [Servers -> [Connections -> ConnectionRecords \cup {None}]]
  <2>1. connection'[n] \in [Connections -> ConnectionRecords \cup {None}]
    <3>1. connection'[n] = [i \in Connections |->
            IF i \in batch THEN [connection[n][i] EXCEPT !.slot = f[i]] ELSE connection[n][i]]
      BY <1>0 DEF Offers
    <3>2. \A i \in Connections : connection'[n][i] \in ConnectionRecords \cup {None}
      BY <1>0, <1>2, <1>3
    <3> HIDE DEF Offers
    <3> QED
      BY <3>1, <3>2
  <2>2. connection' = [connection EXCEPT ![n] = connection'[n]]
    BY <1>0 DEF Offers
  <2> QED
    BY <1>0, <2>1, <2>2
<1>5. proposed' \in [Slots -> PendingWrites \cup {Retire, None}]
  <2>1. ASSUME NEW s \in Slots PROVE proposed'[s] \in PendingWrites \cup {Retire, None}
    <3>1. CASE \E i \in batch : f[i] = s /\ proposed'[s] = connection[n][i].value
      BY <1>1, <3>1 DEF ConnectionRecords
    <3>2. CASE proposed'[s] = proposed[s]
      BY <1>0, <3>2
    <3> QED
      BY <3>1, <3>2 DEF Offers
  <2>2. proposed' = [s \in Slots |-> proposed'[s]]
    BY DEF Offers
  <2> QED
    BY <2>1, <2>2
<1>6. TypeOK'
  BY <1>0, <1>4, <1>5 DEF TypeOK, Offers, ConnectionRecords
<1>7. /\ \A i \in batch : proposed'[f[i]] = connection[n][i].value
      /\ \A s \in Slots : proposed[s] # None => proposed'[s] = proposed[s]
  <2>1. ASSUME NEW i \in batch PROVE proposed'[f[i]] = connection[n][i].value
    BY <1>1 DEF Offers
  <2>2. ASSUME NEW s \in Slots, proposed[s] # None PROVE proposed'[s] = proposed[s]
    BY <1>1, <2>2 DEF Offers
  <2> QED
    BY <2>1, <2>2
<1>8. SlotsInv'
  <2>1. SUFFICES ASSUME NEW m \in Servers, NEW i \in Connections, connection'[m][i] # None,
                        connection'[m][i].slot # 0
                 PROVE  /\ owner_of(connection'[m][i].slot) = m
                        /\ proposed'[connection'[m][i].slot] = connection'[m][i].value
                        /\ \A j \in Connections \ {i} : connection'[m][j] # None =>
                              connection'[m][j].slot # connection'[m][i].slot
    BY DEF SlotsInv, owner_of
  <2>2. ASSUME NEW l \in Servers, NEW j \in Connections, connection[l][j] # None,
               connection[l][j].slot # 0
        PROVE  /\ connection[l][j].slot \in Slots /\ owner_of(connection[l][j].slot) = l
               /\ proposed[connection[l][j].slot] = connection[l][j].value
               /\ proposed[connection[l][j].slot] # None
               /\ proposed'[connection[l][j].slot] = connection[l][j].value
    <3>1. connection[l][j] \in ConnectionRecords
      BY <1>0, <2>2
    <3>2. connection[l][j].value # None /\ connection[l][j].slot \in Slots
      BY <2>2, <3>1, WritesAreMutations DEF ConnectionRecords, Slots
    <3> QED
      BY <1>0, <1>7, <2>2, <3>2 DEF SlotsInv
  <2>3. CASE m # n
    BY <1>0, <1>2, <2>1, <2>2, <2>3 DEF SlotsInv
  <2>4. CASE m = n /\ i \in batch
    <3>1. owner_of(f[i]) = n /\ proposed'[f[i]] = connection'[n][i].value
      BY <1>1, <1>3, <1>7, <2>4
    <3>2. ASSUME NEW j \in Connections \ {i}, connection'[n][j] # None
          PROVE  connection'[n][j].slot # f[i]
      <4>1. CASE j \in batch
        <5>1. f[i] # f[j]
          BY <2>4, <3>2, <4>1 DEF Offers
        <5> QED
          BY <1>3, <4>1, <5>1
      <4>2. CASE j \notin batch
        <5>1. connection'[n][j] = connection[n][j]
          BY <1>2, <4>2
        <5> QED
          BY <1>1, <2>2, <2>4, <3>2, <5>1
      <4> QED
        BY <4>1, <4>2
    <3> QED
      BY <1>3, <2>4, <3>1, <3>2
  <2>5. CASE m = n /\ i \notin batch
    <3>1. connection'[n][i] = connection[n][i]
      BY <1>2, <2>5
    <3> DEFINE s == connection[n][i].slot
    <3>2. owner_of(s) = n /\ proposed'[s] = connection[n][i].value /\ proposed[s] # None
      BY <2>1, <2>2, <2>5, <3>1
    <3>3. ASSUME NEW j \in Connections \ {i}, connection'[n][j] # None
          PROVE  connection'[n][j].slot # s
      <4>1. CASE j \in batch
        BY <1>1, <1>3, <3>2, <4>1
      <4>2. CASE j \notin batch
        <5>1. connection'[n][j] = connection[n][j]
          BY <1>2, <4>2
        <5> QED
          BY <1>0, <2>1, <2>5, <3>1, <3>3, <5>1 DEF SlotsInv
      <4> QED
        BY <4>1, <4>2
    <3> QED
      BY <2>5, <3>1, <3>2, <3>3
  <2> QED
    BY <2>3, <2>4, <2>5
<1>9. /\ UNCHANGED <<chosen, applied, client, result>>
      /\ \A m \in Servers, i \in Connections :
            /\ connection'[m][i] # None <=> connection[m][i] # None
            /\ connection[m][i] # None => connection'[m][i].value = connection[m][i].value
  <2>1. \A i \in batch : connection'[n][i] # None
    BY <1>3, ValueAssumption DEF ConnectionRecords
  <2>2. ASSUME NEW m \in Servers, NEW i \in Connections
        PROVE  /\ connection'[m][i] # None <=> connection[m][i] # None
               /\ connection[m][i] # None => connection'[m][i].value = connection[m][i].value
    <3>1. CASE m = n /\ i \in batch
      BY <1>1, <1>3, <2>1, <3>1
    <3>2. CASE ~(m = n /\ i \in batch)
      BY <1>2, <3>2
    <3> QED
      BY <3>1, <3>2
  <2>3. UNCHANGED <<chosen, applied, client, result>>
    BY DEF Offers
  <2> QED
    BY <2>2, <2>3
<1>10. CopyInv'
  <2>1. \A s \in Slots :
            \/ proposed'[s] \in {proposed[s], Retire, None}
            \/ \E m \in Servers, i \in Connections :
                  connection[m][i] # None /\ proposed'[s] = connection[m][i].value
    BY <1>1 DEF Offers
  <2> QED
    BY <1>0, <1>9, <2>1, CopyKept
<1>11. ClientInv'
  BY <1>0, <1>9 DEF ClientInv
<1>12. LogInv' /\ AnswersInv'
  BY <1>0, <1>9 DEF LogInv, AnswersInv
<1> QED
  BY <1>6, <1>8, <1>10, <1>11, <1>12 DEF WriteInv

\* admit_writes gives each connection of the batch a free slot of its own.
LEMMA AdmitStep ==
  ASSUME WriteInv, NEW n \in Servers, admit_writes(n)
  PROVE  WriteInv'
<1>0. TypeOK /\ MAX_CONNECTIONS \in Nat \ {0} /\ connection \in [Servers -> [Connections -> ConnectionRecords \cup {None}]]
      /\ write_cursor \in [Servers -> Connections]
  BY WriteAssumption DEF WriteInv, TypeOK, ConnectionRecords
<1>1. PICK count \in Halvings(Collected(n)) :
        /\ count <= Cardinality(OwnFree(n))
        /\ LET batch == {i \in Waiting(n) : Rank(n, i) <= count}
               slot(i) == Nth(OwnFree(n), Rank(n, i))
           IN /\ connection' = [connection EXCEPT ![n] =
                    [i \in Connections |-> IF i \in batch
                                           THEN [@[i] EXCEPT !.slot = slot(i)]
                                           ELSE @[i]]]
              /\ proposed' = [s \in Slots |->
                    IF \E i \in batch : slot(i) = s
                    THEN connection[n][CHOOSE i \in batch : slot(i) = s].value
                    ELSE proposed[s]]
              /\ \E last \in batch : /\ Rank(n, last) = count
                                     /\ write_cursor' = [write_cursor EXCEPT
                                           ![n] = (last + 1) % MAX_CONNECTIONS]
        /\ UNCHANGED <<chosen, applied, client, result>>
  BY DEF admit_writes
<1> DEFINE W == Waiting(n)
           S == OwnFree(n)
           batch == {i \in W : Rank(n, i) <= count}
           slot(i) == Nth(S, Rank(n, i))
           f == [i \in batch |-> slot(i)]
<1>2. /\ IsFiniteSet(W) /\ Cardinality(W) \in Nat
      /\ \A i \in W : Rank(n, i) \in Nat /\ 1 <= Rank(n, i)
      /\ \A i, j \in W : Rank(n, i) = Rank(n, j) => i = j
  BY <1>0, RankProperty
<1>3. count \in Nat /\ count <= Cardinality(S) /\ S \in SUBSET Slots
  BY <1>1, <1>2, WriteAssumption DEF Halvings, Collected, OwnFree
<1>4. IsFiniteSet(S) /\ Cardinality(S) \in Nat
  <2>1. IsFiniteSet(Slots)
    BY FS_Interval, WriteAssumption DEF Slots
  <2> QED
    BY <1>3, <2>1, FS_Subset, FS_CardinalityType
<1>5. W \subseteq {i \in Connections : connection[n][i] # None}
  BY DEF Waiting
<1> HIDE DEF W, S
<1>6. \A i \in batch : slot(i) \in S /\ Cardinality({t \in S : t <= slot(i)}) = Rank(n, i)
  <2>1. SUFFICES ASSUME NEW i \in batch
                 PROVE  slot(i) \in S /\ Cardinality({t \in S : t <= slot(i)}) = Rank(n, i)
    OBVIOUS
  <2>2. Rank(n, i) \in Nat /\ 1 <= Rank(n, i) /\ Rank(n, i) <= Cardinality(S)
    BY <1>2, <1>3, <1>4
  <2> QED
    BY <1>3, <2>2, NthProperty
<1>7. \A i, j \in batch : slot(i) = slot(j) => i = j
  <2>1. SUFFICES ASSUME NEW i \in batch, NEW j \in batch, slot(i) = slot(j) PROVE i = j
    OBVIOUS
  <2>2. Rank(n, i) = Rank(n, j)
    BY <1>6, <2>1
  <2> QED
    BY <1>2, <2>2
<1>8. /\ connection' = [connection EXCEPT ![n] =
                    [i \in Connections |-> IF i \in batch
                                           THEN [connection[n][i] EXCEPT !.slot = slot(i)]
                                           ELSE connection[n][i]]]
      /\ proposed' = [s \in Slots |->
                    IF \E i \in batch : slot(i) = s
                    THEN connection[n][CHOOSE i \in batch : slot(i) = s].value
                    ELSE proposed[s]]
      /\ UNCHANGED <<chosen, applied, client, result>>
  BY <1>0, <1>1 DEF W, S
<1>9. write_cursor' \in [Servers -> Connections]
  <2>1. PICK last \in batch :
            write_cursor' = [write_cursor EXCEPT ![n] = (last + 1) % MAX_CONNECTIONS]
    BY <1>1 DEF W, S
  <2>2. last + 1 \in Nat
    BY <1>0, <1>5 DEF Connections
  <2>3. (last + 1) % MAX_CONNECTIONS \in Connections
    BY <1>0, <2>2, Remainder DEF Connections
  <2> QED
    BY <1>0, <2>1, <2>3
<1> HIDE DEF slot
<1>10. f \in [batch -> S] /\ (\A i \in batch : f[i] = slot(i)) /\ batch \subseteq W
  BY <1>6
<1> HIDE DEF batch, f
<1>11. connection' = [connection EXCEPT ![n] =
                    [i \in Connections |-> IF i \in batch
                                           THEN [connection[n][i] EXCEPT !.slot = f[i]]
                                           ELSE connection[n][i]]]
  <2>1. [i \in Connections |-> IF i \in batch THEN [connection[n][i] EXCEPT !.slot = slot(i)]
                               ELSE connection[n][i]]
        = [i \in Connections |-> IF i \in batch THEN [connection[n][i] EXCEPT !.slot = f[i]]
                                 ELSE connection[n][i]]
    BY <1>10
  <2> QED
    BY <1>8, <2>1
<1>12. ASSUME NEW s \in Slots
       PROVE  \/ \E i \in batch : f[i] = s /\ proposed'[s] = connection[n][i].value
              \/ proposed'[s] = proposed[s] /\ \A i \in batch : f[i] # s
  <2>1. CASE \E i \in batch : slot(i) = s
    <3> DEFINE i == CHOOSE i \in batch : slot(i) = s
    <3>1. i \in batch /\ slot(i) = s
      BY <2>1
    <3>2. proposed'[s] = connection[n][i].value
      BY <1>8, <2>1
    <3> HIDE DEF i
    <3> QED
      BY <1>10, <3>1, <3>2
  <2>2. CASE ~(\E i \in batch : slot(i) = s)
    BY <1>8, <1>10, <2>2
  <2> QED
    BY <2>1, <2>2
<1>13. DOMAIN proposed' = Slots /\ proposed' = [s \in Slots |-> proposed'[s]]
  BY <1>8
<1>14. Offers(n, batch, f)
  <2>1. \A i, j \in batch : f[i] = f[j] => i = j
    BY <1>7, <1>10
  <2>2. batch \subseteq {i \in Connections : connection[n][i] # None}
    BY <1>5, <1>10
  <2> QED
    BY <1>8, <1>9, <1>10, <1>11, <1>12, <1>13, <2>1, <2>2 DEF Offers, S
<1> QED
  BY <1>14, OffersStep

\* A free slot exists, and the first one is free.
LEMMA FirstFree ==
  ASSUME NEW n, OwnFree(n) # {}
  PROVE  Nth(OwnFree(n), 1) \in OwnFree(n)
<1> DEFINE S == OwnFree(n)
<1>1. S \in SUBSET Slots /\ IsFiniteSet(Slots)
  BY FS_Interval, WriteAssumption DEF Slots, OwnFree
<1>2. IsFiniteSet(S)
  BY <1>1, FS_Subset
<1>3. Cardinality(S) \in Nat /\ Cardinality(S) # 0
  BY <1>2, FS_CardinalityType, FS_EmptySet
<1> HIDE DEF S
<1>4. Nth(S, 1) \in S
  <2>1. 1 \in Nat /\ 1 <= 1 /\ 1 <= Cardinality(S)
    BY <1>3
  <2> QED
    BY <1>1, <2>1, NthProperty
<1> QED
  BY <1>4 DEF S

\* poll_write_again offers one write again.
LEMMA PollAgainStep ==
  ASSUME WriteInv, NEW n \in Servers, NEW i \in Connections, poll_write_again(n, i)
  PROVE  WriteInv'
<1> DEFINE s == Nth(OwnFree(n), 1)
           f == [j \in {i} |-> s]
<1>0. /\ connection \in [Servers -> [Connections -> ConnectionRecords \cup {None}]]
      /\ proposed \in [Slots -> PendingWrites \cup {Retire, None}]
      /\ write_cursor \in [Servers -> Connections]
  BY DEF WriteInv, TypeOK, ConnectionRecords
<1>1. /\ connection[n][i] # None /\ OwnFree(n) # {}
      /\ proposed' = [proposed EXCEPT ![s] = connection[n][i].value]
      /\ connection' = [connection EXCEPT ![n][i].slot = s]
      /\ UNCHANGED <<chosen, applied, write_cursor, client, result>>
  BY DEF poll_write_again
<1>2. s \in OwnFree(n) /\ s \in Slots
  BY <1>1, FirstFree, OwnFreeProperty
<1> HIDE DEF s
<1>3. connection' = [connection EXCEPT ![n] = [j \in Connections |->
            IF j \in {i} THEN [connection[n][j] EXCEPT !.slot = f[j]] ELSE connection[n][j]]]
  <2>1. connection' = [connection EXCEPT ![n] = [connection[n] EXCEPT ![i] =
                          [connection[n][i] EXCEPT !.slot = s]]]
    BY <1>0, <1>1
  <2>2. [connection[n] EXCEPT ![i] = [connection[n][i] EXCEPT !.slot = s]]
        = [j \in Connections |->
            IF j \in {i} THEN [connection[n][j] EXCEPT !.slot = f[j]] ELSE connection[n][j]]
    BY <1>0
  <2> QED
    BY <2>1, <2>2
<1>4. f \in [{i} -> OwnFree(n)] /\ f[i] = s
  BY <1>2
<1>5. ASSUME NEW t \in Slots
      PROVE  \/ \E j \in {i} : f[j] = t /\ proposed'[t] = connection[n][j].value
             \/ proposed'[t] = proposed[t] /\ \A j \in {i} : f[j] # t
  BY <1>0, <1>1, <1>2, <1>4
<1>6. DOMAIN proposed' = Slots /\ proposed' = [t \in Slots |-> proposed'[t]]
  BY <1>0, <1>1
<1> HIDE DEF f
<1>7. Offers(n, {i}, f)
  BY <1>0, <1>1, <1>3, <1>4, <1>5, <1>6 DEF Offers
<1> QED
  BY <1>7, OffersStep

-----------------------------------------------------------------------------
\* An answer, if it is final, is the outcome of the slot the connection holds.
LEMMA RespondStep ==
  ASSUME WriteInv, NEW n \in Servers, NEW i \in Connections, NEW code,
         connection[n][i] # None, respond(n, i, code),
         write_cursor' \in [Servers -> Connections], UNCHANGED slots,
         code \in FinalCodes =>
            LET t == connection[n][i].slot IN
            /\ t \in 1..ThroughOf(chosen) /\ chosen[t] = connection[n][i].value
            /\ OutcomeOf(chosen, t).kind = code
  PROVE  WriteInv'
<1>0. /\ TypeOK /\ SlotsInv /\ CopyInv /\ ClientInv /\ LogInv /\ AnswersInv
      /\ connection \in [Servers -> [Connections -> ConnectionRecords \cup {None}]]
      /\ client \in [Clients -> ClientRecords]
      /\ result \in [Clients -> [1..MaxSequence -> FinalCodes \cup {None}]]
      /\ MaxSequence \in Nat
  BY WriteAssumption DEF WriteInv, TypeOK, ConnectionRecords, ClientRecords
<1>1. /\ connection' = [connection EXCEPT ![n][i] = None]
      /\ client' = [c \in Clients |-> IF c \in Readers(n, i) THEN Resolved(c, code) ELSE client[c]]
      /\ result' = [c \in Clients |->
                      IF c \in Readers(n, i) /\ code \in FinalCodes
                      THEN [result[c] EXCEPT ![client[c].sequence] = code]
                      ELSE result[c]]
      /\ UNCHANGED <<proposed, chosen, applied>>
  BY DEF respond, slots
<1>2. \A c \in Readers(n, i) :
         /\ c \in Clients /\ client[c].at = <<n, i>> /\ client[c].pending # None
         /\ connection[n][i].value = client[c].pending
  BY <1>0 DEF Readers, ClientInv
<1>3. ASSUME NEW c \in Readers(n, i)
      PROVE  /\ client'[c] \in ClientRecords /\ client'[c].at = None
             /\ client'[c].epoch = client[c].epoch
             /\ code \in FinalCodes =>
                   client'[c].pending = None /\ client'[c].sequence = client[c].sequence + 1
             /\ code \notin FinalCodes =>
                   client'[c].pending = client[c].pending /\ client'[c].sequence = client[c].sequence
  <2>1. client'[c] = Resolved(c, code)
    BY <1>1, <1>2
  <2> QED
    BY <1>0, <1>2, <2>1, ResolvedProperty
<1>4. \A c \in Clients \ Readers(n, i) : client'[c] = client[c] /\ result'[c] = result[c]
  BY <1>1
<1>5. client' \in [Clients -> ClientRecords]
  <2>1. \A c \in Clients : client'[c] \in ClientRecords
    BY <1>0, <1>3, <1>4
  <2>2. client' = [c \in Clients |-> client'[c]]
    BY <1>1
  <2> QED
    BY <2>1, <2>2
<1>6. \A c \in Readers(n, i) :
         /\ client[c].sequence \in 1..MaxSequence
         /\ client[c].pending \in PendingWrites /\ client[c].pending.session = c
         /\ client[c].pending.sequence = client[c].sequence
  <2>1. SUFFICES ASSUME NEW c \in Readers(n, i)
                 PROVE  /\ client[c].sequence \in 1..MaxSequence
                        /\ client[c].pending \in PendingWrites /\ client[c].pending.session = c
                        /\ client[c].pending.sequence = client[c].sequence
    OBVIOUS
  <2>2. client[c].pending \in PendingWrites
    BY <1>0, <1>2 DEF ClientRecords
  <2>3. client[c].pending.session = c /\ client[c].pending.sequence = client[c].sequence
    BY <1>0, <1>2 DEF ClientInv
  <2> QED
    BY <2>2, <2>3, WritesAreMutations
<1>7. \A c \in Readers(n, i) :
         /\ code \in FinalCodes => result'[c] = [result[c] EXCEPT ![client[c].sequence] = code]
         /\ code \notin FinalCodes => result'[c] = result[c]
  BY <1>1, <1>2
<1>8. result' \in [Clients -> [1..MaxSequence -> FinalCodes \cup {None}]]
  <2>1. ASSUME NEW c \in Clients PROVE result'[c] \in [1..MaxSequence -> FinalCodes \cup {None}]
    <3>1. CASE c \in Readers(n, i) /\ code \in FinalCodes
      <4>1. /\ result'[c] = [result[c] EXCEPT ![client[c].sequence] = code]
            /\ client[c].sequence \in 1..MaxSequence
            /\ result[c] \in [1..MaxSequence -> FinalCodes \cup {None}]
        BY <1>0, <1>6, <1>7, <3>1
      <4> QED
        BY <3>1, <4>1
    <3>2. CASE ~(c \in Readers(n, i) /\ code \in FinalCodes)
      BY <1>0, <1>4, <1>7, <3>2
    <3> QED
      BY <3>1, <3>2
  <2>2. result' = [c \in Clients |-> result'[c]]
    BY <1>1
  <2> QED
    BY <2>1, <2>2
<1>9. connection' \in [Servers -> [Connections -> ConnectionRecords \cup {None}]]
  BY <1>0, <1>1
<1>10. TypeOK'
  BY <1>0, <1>1, <1>5, <1>8, <1>9 DEF TypeOK, ConnectionRecords, ClientRecords
<1>11. /\ connection'[n][i] = None
       /\ \A m \in Servers, j \in Connections :
             connection'[m][j] # None => connection'[m][j] = connection[m][j]
       /\ \A m \in Servers, j \in Connections :
             <<m, j>> # <<n, i>> => connection'[m][j] = connection[m][j]
  BY <1>0, <1>1
<1>12. SlotsInv'
  BY <1>0, <1>1, <1>11 DEF SlotsInv, owner_of
<1>13. CopyInv'
  <2>1. \A c \in Clients :
            /\ client'[c].epoch = client[c].epoch
            /\ \/ client'[c].pending = client[c].pending /\ client'[c].sequence = client[c].sequence
               \/ client'[c].pending = None /\ client'[c].sequence = client[c].sequence + 1
    BY <1>3, <1>4
  <2> QED
    BY <1>0, <1>1, <1>11, <2>1, CopyKept
<1>14. ASSUME NEW c \in Clients
       PROVE  /\ client'[c].pending # None =>
                   /\ client'[c].pending.session = c
                   /\ client'[c].pending.sequence = client'[c].sequence
              /\ \A m \in Servers, j \in Connections : client'[c].at = <<m, j>> =>
                    /\ connection'[m][j] # None /\ client'[c].pending # None
                    /\ connection'[m][j].value = client'[c].pending
              /\ \A q \in 1..MaxSequence : result'[c][q] # None <=> q < client'[c].sequence
  <2>0. /\ client[c].pending # None =>
              client[c].pending.session = c /\ client[c].pending.sequence = client[c].sequence
        /\ \A m \in Servers, j \in Connections : client[c].at = <<m, j>> =>
              /\ connection[m][j] # None /\ client[c].pending # None
              /\ connection[m][j].value = client[c].pending
        /\ \A q \in 1..MaxSequence : result[c][q] # None <=> q < client[c].sequence
    BY <1>0 DEF ClientInv
  <2>1. CASE c \notin Readers(n, i)
    <3>1. client[c].at # <<n, i>>
      BY <2>1 DEF Readers
    <3> QED
      BY <1>4, <1>11, <2>0, <2>1, <3>1
  <2>2. CASE c \in Readers(n, i)
    <3>1. \A m \in Servers, j \in Connections : client'[c].at # <<m, j>>
      <4>1. client'[c].at = None /\ None \notin Servers \X Connections
        BY <1>3, <2>2, ValueAssumption
      <4>2. \A m \in Servers, j \in Connections : <<m, j>> \in Servers \X Connections
        OBVIOUS
      <4> QED
        BY <4>1, <4>2
    <3>2. CASE code \in FinalCodes
      <4>1. result'[c] = [result[c] EXCEPT ![client[c].sequence] = code] /\ code # None
        BY <1>7, <2>2, <3>2, ValueAssumption
      <4>2. \A q \in 1..MaxSequence : result'[c][q] # None <=> q < client[c].sequence + 1
        BY <1>0, <1>6, <2>0, <2>2, <4>1
      <4> QED
        BY <1>3, <2>2, <3>1, <3>2, <4>2
    <3>3. CASE code \notin FinalCodes
      BY <1>3, <1>7, <2>0, <2>2, <3>1, <3>3
    <3> QED
      BY <3>2, <3>3
  <2> QED
    BY <2>1, <2>2
<1>15. ClientInv'
  BY <1>14 DEF ClientInv
<1>16. LogInv'
  <2>1. \A c \in Clients : client'[c].epoch = client[c].epoch
    BY <1>3, <1>4
  <2> QED
    BY <1>0, <1>1, <2>1 DEF LogInv
<1>17. AnswersInv'
  <2>1. SUFFICES ASSUME NEW c \in Clients, NEW q \in 1..MaxSequence, result'[c][q] # None
                 PROVE  \E t \in 1..ThroughOf(chosen) :
                           /\ chosen[t] \in PendingWrites /\ chosen[t].session = c
                           /\ chosen[t].sequence = q
                           /\ OutcomeOf(chosen, t).kind = result'[c][q]
    BY <1>1 DEF AnswersInv
  <2>2. CASE result'[c][q] = result[c][q]
    BY <1>0, <2>1, <2>2 DEF AnswersInv
  <2>3. CASE result'[c][q] # result[c][q]
    <3>1. c \in Readers(n, i) /\ code \in FinalCodes
      BY <1>4, <1>7, <2>3
    <3>2. q = client[c].sequence /\ result'[c][q] = code
      <4>1. /\ result'[c] = [result[c] EXCEPT ![client[c].sequence] = code]
            /\ result[c] \in [1..MaxSequence -> FinalCodes \cup {None}]
        BY <1>0, <1>7, <3>1
      <4> QED
        BY <2>3, <4>1
    <3>3. connection[n][i].value = client[c].pending
      BY <1>2, <3>1
    <3> QED
      BY <1>6, <3>1, <3>2, <3>3
  <2> QED
    BY <2>2, <2>3
<1> QED
  BY <1>10, <1>12, <1>13, <1>15, <1>16, <1>17 DEF WriteInv

-----------------------------------------------------------------------------
\* execute makes a write pending that no copy is of yet, under the epoch its
\* client has known or asks for now.
LEMMA ExecuteStep ==
  ASSUME WriteInv, NEW c \in Clients, execute(c)
  PROVE  WriteInv'
<1>0. /\ TypeOK /\ SlotsInv /\ CopyInv /\ ClientInv /\ LogInv /\ AnswersInv
      /\ client \in [Clients -> ClientRecords] /\ client[c] \in ClientRecords
      /\ MaxSequence \in Nat
  BY WriteAssumption DEF WriteInv, TypeOK, ClientRecords
<1> DEFINE epoch == IF client[c].epoch # -1 THEN client[c].epoch ELSE EpochOf(chosen)
<1>1. /\ client[c].pending = None /\ client[c].sequence <= MaxSequence
      /\ UNCHANGED <<slots, connection, write_cursor, result>>
  BY DEF execute
<1>2. PICK body \in Bodies[client[c].sequence] :
         client' = [client EXCEPT
             ![c].epoch = epoch,
             ![c].pending = [kind |-> "Transaction", session |-> c,
                             sequence |-> client[c].sequence, epoch |-> epoch,
                             read_version |-> 0, body |-> body]]
  <2>1. E!Reference[DecidedThrough].epoch = EpochOf(chosen)
    BY SameReference DEF EpochOf
  <2> QED
    BY <2>1 DEF execute
<1>3. epoch \in Nat /\ epoch <= EpochOf(chosen)
  <2>1. EpochOf(chosen) \in Nat /\ client[c].epoch <= EpochOf(chosen)
    BY <1>0, EpochProperty DEF LogInv
  <2> QED
    BY <1>0, <2>1 DEF ClientRecords
<1>4. client[c].epoch \in Nat => epoch = client[c].epoch
  OBVIOUS
<1> DEFINE w == [kind |-> "Transaction", session |-> c, sequence |-> client[c].sequence,
                 epoch |-> epoch, read_version |-> 0, body |-> body]
<1> HIDE DEF epoch
<1>5. client[c].sequence \in 1..MaxSequence
  BY <1>0, <1>1 DEF ClientRecords
<1>6. /\ w \in PendingWrites /\ w.session = c /\ w.sequence = client[c].sequence
      /\ w.epoch = epoch /\ w # None
  <2>1. body \in UNION {Bodies[q] : q \in 1..MaxSequence}
    BY <1>5
  <2>2. w \in PendingWrites
    BY <1>3, <1>5, <2>1 DEF PendingWrites
  <2> QED
    BY <2>2, WritesAreMutations
<1>7. client' = [client EXCEPT ![c] = [client[c] EXCEPT !.epoch = epoch, !.pending = w]]
  BY <1>0, <1>2
<1> HIDE DEF w
<1>8. /\ client'[c] \in ClientRecords /\ client'[c].epoch = epoch /\ client'[c].pending = w
      /\ client'[c].sequence = client[c].sequence /\ client'[c].at = client[c].at
      /\ \A k \in Clients \ {c} : client'[k] = client[k]
      /\ client' \in [Clients -> ClientRecords]
  <2> DEFINE r == [client[c] EXCEPT !.epoch = epoch, !.pending = w]
  <2>1. /\ r \in ClientRecords /\ r.epoch = epoch /\ r.pending = w
        /\ r.sequence = client[c].sequence /\ r.at = client[c].at
    BY <1>0, <1>3, <1>6 DEF ClientRecords
  <2> HIDE DEF r
  <2>2. client' = [client EXCEPT ![c] = r]
    BY <1>7 DEF r
  <2> QED
    BY <1>0, <2>1, <2>2
<1>9. TypeOK'
  BY <1>0, <1>1, <1>8 DEF TypeOK, ClientRecords, slots
<1>10. SlotsInv'
  BY <1>0, <1>1 DEF SlotsInv, slots, owner_of
<1>11. ASSUME NEW v \in PendingWrites, Sent(v)' PROVE v = w \/ Sent(v)
  BY <1>1, <1>8, <1>11 DEF Sent, slots
<1>12. ASSUME NEW v \in PendingWrites, Sent(v), v.session = c
       PROVE  v.epoch = epoch /\ v.sequence < client[c].sequence
  <2>1. /\ v.epoch = client[c].epoch /\ v.sequence <= client[c].sequence
        /\ v.sequence = client[c].sequence => client[c].pending = v
    BY <1>0, <1>12 DEF CopyInv
  <2>2. v.epoch \in Nat /\ v # None /\ v.sequence \in Nat
    BY WritesAreMutations
  <2> QED
    BY <1>1, <1>4, <1>5, <2>1, <2>2
<1>13. CopyInv'
  <2>1. ASSUME NEW v \in PendingWrites, Sent(v)'
        PROVE  /\ v.epoch = client'[v.session].epoch
               /\ v.sequence <= client'[v.session].sequence
               /\ v.sequence = client'[v.session].sequence => client'[v.session].pending = v
    <3>0. v.session \in Clients /\ v.sequence \in Nat
      BY WritesAreMutations
    <3>1. CASE v = w
      BY <1>5, <1>6, <1>8, <3>1
    <3>2. CASE Sent(v) /\ v.session = c
      <4>1. v.epoch = epoch /\ v.sequence < client[c].sequence
        BY <1>12, <3>2
      <4> QED
        BY <1>5, <1>8, <3>0, <3>2, <4>1
    <3>3. CASE Sent(v) /\ v.session # c
      BY <1>0, <1>8, <3>0, <3>3 DEF CopyInv
    <3> QED
      BY <1>11, <2>1, <3>1, <3>2, <3>3
  <2>2. ASSUME NEW u \in PendingWrites, NEW v \in PendingWrites, Sent(u)', Sent(v)',
               u.session = v.session, u.sequence = v.sequence
        PROVE  u = v
    <3>1. CASE Sent(u) /\ Sent(v)
      BY <1>0, <2>2, <3>1 DEF CopyInv
    <3>2. ASSUME NEW x \in PendingWrites, Sent(x), x.session = w.session, x.sequence = w.sequence
          PROVE  FALSE
      <4>1. x.sequence < client[c].sequence /\ x.sequence = client[c].sequence
        BY <1>6, <1>12, <3>2
      <4> QED
        BY <1>5, <4>1
    <3> QED
      BY <1>11, <2>2, <3>1, <3>2
  <2> QED
    BY <2>1, <2>2 DEF CopyInv
<1>14. ClientInv'
  <2>1. \A n \in Servers, i \in Connections : client[c].at # <<n, i>>
    BY <1>0, <1>1 DEF ClientInv
  <2> QED
    BY <1>0, <1>1, <1>6, <1>8, <2>1 DEF ClientInv
<1>15. LogInv'
  BY <1>0, <1>1, <1>3, <1>8 DEF LogInv, slots
<1>16. AnswersInv'
  BY <1>0, <1>1 DEF AnswersInv, slots
<1> QED
  BY <1>9, <1>10, <1>13, <1>14, <1>15, <1>16 DEF WriteInv

\* An attempt copies the pending write to a free connection.
LEMMA AttemptStep ==
  ASSUME WriteInv, NEW c \in Clients, NEW i \in Connections, Attempt(c, i)
  PROVE  WriteInv'
<1> DEFINE n == client[c].index + 1
           k == [value |-> client[c].pending, slot |-> 0]
<1>0. /\ TypeOK /\ SlotsInv /\ CopyInv /\ ClientInv /\ LogInv /\ AnswersInv
      /\ client \in [Clients -> ClientRecords] /\ client[c] \in ClientRecords
      /\ connection \in [Servers -> [Connections -> ConnectionRecords \cup {None}]]
      /\ N \in Nat \ {0} /\ MaxAttempts \in Nat /\ MaxSlot \in Nat
  BY WriteAssumption DEF WriteInv, TypeOK, ClientRecords, ConnectionRecords
<1>1. /\ client[c].pending # None /\ client[c].at = None /\ client[c].attempts < MaxAttempts
      /\ connection[n][i] = None
      /\ connection' = [connection EXCEPT ![n][i] = k]
      /\ client' = [client EXCEPT ![c] = [client[c] EXCEPT !.at = <<n, i>>,
                                                           !.attempts = client[c].attempts + 1]]
      /\ UNCHANGED <<slots, write_cursor, result>>
  BY <1>0 DEF Attempt
<1>2. n \in Servers /\ client[c].pending \in PendingWrites
      /\ client[c].attempts + 1 \in 0..MaxAttempts
  BY <1>0, <1>1 DEF ClientRecords, Servers
<1>3. k \in ConnectionRecords /\ k # None /\ k.value = client[c].pending /\ k.slot = 0
  <2>1. k \in ConnectionRecords
    BY <1>0, <1>2 DEF ConnectionRecords
  <2> QED
    BY <2>1, ValueAssumption DEF ConnectionRecords
<1> HIDE DEF n, k
<1>4. /\ client'[c] \in ClientRecords /\ client'[c].at = <<n, i>>
      /\ client'[c].pending = client[c].pending /\ client'[c].epoch = client[c].epoch
      /\ client'[c].sequence = client[c].sequence
      /\ \A d \in Clients \ {c} : client'[d] = client[d]
      /\ client' \in [Clients -> ClientRecords]
  <2> DEFINE x == client[c].attempts + 1
             r == [client[c] EXCEPT !.at = <<n, i>>, !.attempts = x]
  <2>1. client' = [client EXCEPT ![c] = r]
    BY <1>1
  <2>2. x \in 0..MaxAttempts /\ <<n, i>> \in Servers \X Connections
    BY <1>2
  <2> HIDE DEF x
  <2>3. /\ r \in ClientRecords /\ r.at = <<n, i>> /\ r.pending = client[c].pending
        /\ r.epoch = client[c].epoch /\ r.sequence = client[c].sequence
    BY <1>0, <2>2 DEF ClientRecords
  <2> HIDE DEF r
  <2> QED
    BY <1>0, <2>1, <2>3
<1>5. /\ connection' \in [Servers -> [Connections -> ConnectionRecords \cup {None}]]
      /\ connection'[n][i] = k
      /\ \A m \in Servers, j \in Connections :
            m # n \/ j # i => connection'[m][j] = connection[m][j]
  BY <1>0, <1>1, <1>2, <1>3
<1>6. TypeOK'
  BY <1>0, <1>1, <1>4, <1>5 DEF TypeOK, ClientRecords, ConnectionRecords, slots
<1>7. SlotsInv'
  <2>1. ASSUME NEW m \in Servers, NEW j \in Connections, connection'[m][j] # None,
               connection'[m][j].slot # 0
        PROVE  /\ connection'[m][j] = connection[m][j]
               /\ \A l \in Connections : connection'[m][l] # None =>
                     connection'[m][l] = connection[m][l] \/ connection'[m][l].slot = 0
    BY <1>3, <1>5, <2>1
  <2>2. UNCHANGED proposed
    BY <1>1 DEF slots
  <2> QED
    BY <1>0, <2>1, <2>2 DEF SlotsInv, owner_of
<1>8. CopyInv'
  <2>1. \A d \in Clients : /\ client'[d].epoch = client[d].epoch
                           /\ client'[d].pending = client[d].pending
                           /\ client'[d].sequence = client[d].sequence
    BY <1>4
  <2>2. \A m \in Servers, j \in Connections : connection'[m][j] # None =>
            \/ connection[m][j] # None /\ connection'[m][j].value = connection[m][j].value
            \/ \E d \in Clients : connection'[m][j].value = client[d].pending
    BY <1>3, <1>5
  <2>3. UNCHANGED <<proposed, chosen>>
    BY <1>1 DEF slots
  <2> QED
    BY <1>0, <2>1, <2>2, <2>3, CopyKept
<1>9. ClientInv'
  <2>1. ASSUME NEW d \in Clients, NEW m \in Servers, NEW j \in Connections,
               client'[d].at = <<m, j>>
        PROVE  /\ connection'[m][j] # None /\ client'[d].pending # None
               /\ connection'[m][j].value = client'[d].pending
    <3>1. CASE d = c
      <4>1. m = n /\ j = i
        BY <1>4, <2>1, <3>1
      <4> QED
        BY <1>1, <1>3, <1>4, <1>5, <3>1, <4>1
    <3>2. CASE d # c
      <4>1. /\ connection[m][j] # None /\ client[d].pending # None
            /\ connection[m][j].value = client[d].pending /\ client'[d] = client[d]
        BY <1>0, <1>4, <2>1, <3>2 DEF ClientInv
      <4>2. m # n \/ j # i
        BY <1>1, <4>1
      <4> QED
        BY <1>5, <4>1, <4>2
    <3> QED
      BY <3>1, <3>2
  <2>2. UNCHANGED result
    BY <1>1
  <2> QED
    BY <1>0, <1>4, <2>1, <2>2 DEF ClientInv
<1>10. LogInv' /\ AnswersInv'
  BY <1>0, <1>1, <1>4 DEF LogInv, AnswersInv, slots
<1> QED
  BY <1>6, <1>7, <1>8, <1>9, <1>10 DEF WriteInv

-----------------------------------------------------------------------------
\* Clients turn to their next endpoint, of connections that are gone or go on
\* without them: GiveUp and Restart.
Leaves(gone) ==
    /\ gone \subseteq Clients
    /\ client' = [c \in Clients |-> IF c \in gone THEN NextEndpoint(c) ELSE client[c]]
    /\ connection' \in [Servers -> [Connections -> ConnectionRecords \cup {None}]]
    /\ \A m \in Servers, j \in Connections :
          /\ connection'[m][j] # None => connection'[m][j] = connection[m][j]
          /\ connection'[m][j] = connection[m][j] \/ \A c \in Clients \ gone : client[c].at # <<m, j>>
          /\ connection'[m][j] # None /\ connection'[m][j].slot # 0 =>
                proposed'[connection'[m][j].slot] = proposed[connection'[m][j].slot]
    /\ proposed' \in [Slots -> PendingWrites \cup {Retire, None}]
    /\ \A s \in Slots : proposed'[s] \in {proposed[s], None}
    /\ write_cursor' \in [Servers -> Connections]
    /\ UNCHANGED <<chosen, applied, result>>

\* Leaving keeps the invariant.
LEMMA LeaveStep ==
  ASSUME WriteInv, NEW gone, Leaves(gone)
  PROVE  WriteInv'
<1> USE DEF Leaves
<1>0. /\ TypeOK /\ SlotsInv /\ CopyInv /\ ClientInv /\ LogInv /\ AnswersInv
      /\ client \in [Clients -> ClientRecords]
  BY DEF WriteInv, TypeOK, ClientRecords
<1>1. \A c \in gone :
         /\ client'[c] \in ClientRecords /\ client'[c].at = None
         /\ client'[c].sequence = client[c].sequence
         /\ client'[c].epoch = client[c].epoch /\ client'[c].pending = client[c].pending
  BY <1>0, NextEndpointProperty
<1>2. \A c \in Clients \ gone : client'[c] = client[c]
  OBVIOUS
<1>3. client' \in [Clients -> ClientRecords]
  <2>1. \A c \in Clients : client'[c] \in ClientRecords
    BY <1>0, <1>1, <1>2
  <2>2. client' = [c \in Clients |-> client'[c]]
    OBVIOUS
  <2> QED
    BY <2>1, <2>2
<1>4. TypeOK'
  BY <1>0, <1>3 DEF TypeOK, ClientRecords, ConnectionRecords
<1>5. \A c \in Clients : /\ client'[c].epoch = client[c].epoch
                         /\ client'[c].pending = client[c].pending
                         /\ client'[c].sequence = client[c].sequence
  BY <1>1, <1>2
<1>6. SlotsInv'
  <2>1. ASSUME NEW m \in Servers, NEW j \in Connections, connection'[m][j] # None,
               connection'[m][j].slot # 0
        PROVE  /\ owner_of(connection'[m][j].slot) = m
               /\ proposed'[connection'[m][j].slot] = connection'[m][j].value
               /\ \A l \in Connections \ {j} : connection'[m][l] # None =>
                     connection'[m][l].slot # connection'[m][j].slot
    <3>1. connection'[m][j] = connection[m][j]
      BY <2>1
    <3>2. proposed'[connection'[m][j].slot] = proposed[connection'[m][j].slot]
      BY <2>1
    <3>3. \A l \in Connections : connection'[m][l] # None => connection'[m][l] = connection[m][l]
      OBVIOUS
    <3>4. /\ owner_of(connection[m][j].slot) = m
          /\ proposed[connection[m][j].slot] = connection[m][j].value
          /\ \A l \in Connections \ {j} : connection[m][l] # None =>
                connection[m][l].slot # connection[m][j].slot
      BY <1>0, <2>1, <3>1 DEF SlotsInv
    <3> HIDE DEF Leaves
    <3> QED
      BY <3>1, <3>2, <3>3, <3>4
  <2> QED
    BY <2>1 DEF SlotsInv, owner_of
<1>7. CopyInv'
  <2>1. /\ \A m \in Servers, j \in Connections : connection'[m][j] # None =>
              connection[m][j] # None /\ connection'[m][j].value = connection[m][j].value
        /\ \A s \in Slots : proposed'[s] \in {proposed[s], Retire, None}
        /\ \A s \in Slots : chosen'[s] \in {chosen[s], proposed[s], Skip}
    OBVIOUS
  <2> QED
    BY <1>0, <1>5, <2>1, CopyKept
<1>8. ClientInv'
  <2>1. \A c \in gone, m \in Servers, j \in Connections : client'[c].at # <<m, j>>
    <3>1. \A m \in Servers, j \in Connections : <<m, j>> \in Servers \X Connections
      OBVIOUS
    <3>2. None \notin Servers \X Connections
      BY ValueAssumption
    <3>3. \A c \in gone : client'[c].at = None
      BY <1>1
    <3>4. ASSUME NEW c \in gone, NEW m \in Servers, NEW j \in Connections,
                 client'[c].at = <<m, j>>
          PROVE  FALSE
      <4>1. None = <<m, j>>
        BY <3>3, <3>4
      <4> QED
        BY <3>1, <3>2, <4>1
    <3> QED
      BY <3>4
  <2>2. ASSUME NEW c \in Clients, NEW m \in Servers, NEW j \in Connections,
               client'[c].at = <<m, j>>
        PROVE  /\ connection'[m][j] # None /\ client'[c].pending # None
               /\ connection'[m][j].value = client'[c].pending
    <3>1. c \in Clients \ gone /\ client[c].at = <<m, j>>
      BY <1>2, <2>1, <2>2
    <3>2. connection'[m][j] = connection[m][j]
      BY <3>1
    <3> QED
      BY <1>0, <1>5, <3>1, <3>2 DEF ClientInv
  <2> QED
    BY <1>0, <1>5, <2>2 DEF ClientInv
<1>9. LogInv' /\ AnswersInv'
  BY <1>0, <1>5 DEF LogInv, AnswersInv
<1> QED
  BY <1>4, <1>6, <1>7, <1>8, <1>9 DEF WriteInv

\* A client gives up on its attempt.
LEMMA GiveUpStep ==
  ASSUME WriteInv, NEW c \in Clients, GiveUp(c)
  PROVE  WriteInv'
<1>0. /\ client \in [Clients -> ClientRecords]
      /\ connection \in [Servers -> [Connections -> ConnectionRecords \cup {None}]]
      /\ proposed \in [Slots -> PendingWrites \cup {Retire, None}]
      /\ write_cursor \in [Servers -> Connections]
  BY DEF WriteInv, TypeOK, ClientRecords, ConnectionRecords
<1>1. UNCHANGED <<proposed, chosen, applied, connection, write_cursor, result>>
  BY DEF GiveUp, slots
<1>2. client' = [d \in Clients |-> IF d \in {c} THEN NextEndpoint(d) ELSE client[d]]
  BY <1>0 DEF GiveUp
<1> DEFINE gone == {c}
<1>3. gone \in SUBSET Clients
  OBVIOUS
<1>4. client' = [d \in Clients |-> IF d \in gone THEN NextEndpoint(d) ELSE client[d]]
  BY <1>2
<1> HIDE DEF gone
<1>5. /\ connection' \in [Servers -> [Connections -> ConnectionRecords \cup {None}]]
      /\ proposed' \in [Slots -> PendingWrites \cup {Retire, None}]
      /\ write_cursor' \in [Servers -> Connections]
      /\ \A s \in Slots : proposed'[s] \in {proposed[s], None}
  BY <1>0, <1>1
<1>6. \A m \in Servers, j \in Connections :
         /\ connection'[m][j] # None => connection'[m][j] = connection[m][j]
         /\ connection'[m][j] = connection[m][j] \/ \A d \in Clients \ gone : client[d].at # <<m, j>>
         /\ connection'[m][j] # None /\ connection'[m][j].slot # 0 =>
               proposed'[connection'[m][j].slot] = proposed[connection'[m][j].slot]
  BY <1>1
<1>7. Leaves(gone)
  BY <1>1, <1>3, <1>4, <1>5, <1>6 DEF Leaves
<1> QED
  BY <1>7, LeaveStep

\* A server restarts: its connections and some of its proposals are gone.
LEMMA RestartStep ==
  ASSUME WriteInv, NEW n \in Servers, Restart(n)
  PROVE  WriteInv'
<1> DEFINE gone == {c \in Clients : \E i \in Connections : client[c].at = <<n, i>>}
<1>0. /\ connection \in [Servers -> [Connections -> ConnectionRecords \cup {None}]]
      /\ proposed \in [Slots -> PendingWrites \cup {Retire, None}]
      /\ write_cursor \in [Servers -> Connections] /\ SlotsInv
      /\ MAX_CONNECTIONS \in Nat \ {0}
  BY WriteAssumption DEF WriteInv, TypeOK, ConnectionRecords
<1>1. /\ connection' = [connection EXCEPT ![n] = [i \in Connections |-> None]]
      /\ client' = [c \in Clients |-> IF c \in gone THEN NextEndpoint(c) ELSE client[c]]
      /\ write_cursor' = [write_cursor EXCEPT ![n] = 0]
      /\ UNCHANGED <<chosen, applied, result>>
  BY DEF Restart
<1>2. PICK lost \in SUBSET {s \in Slots : owner_of(s) = n /\ proposed[s] # None /\ chosen[s] = None} :
          proposed' = [s \in Slots |-> IF s \in lost THEN None ELSE proposed[s]]
  BY DEF Restart
<1>3. /\ connection' \in [Servers -> [Connections -> ConnectionRecords \cup {None}]]
      /\ \A j \in Connections : connection'[n][j] = None
      /\ \A m \in Servers \ {n} : connection'[m] = connection[m]
  BY <1>0, <1>1
<1>4. /\ proposed' \in [Slots -> PendingWrites \cup {Retire, None}]
      /\ \A s \in Slots : proposed'[s] \in {proposed[s], None}
      /\ \A s \in Slots : owner_of(s) # n => proposed'[s] = proposed[s]
  BY <1>0, <1>2
<1>5. write_cursor' \in [Servers -> Connections]
  <2>1. 0 \in Connections
    BY <1>0 DEF Connections
  <2> QED
    BY <1>0, <1>1, <2>1
<1>6. ASSUME NEW m \in Servers, NEW j \in Connections, connection'[m][j] # None
      PROVE  /\ connection'[m][j] = connection[m][j]
             /\ connection'[m][j].slot # 0 =>
                   proposed'[connection'[m][j].slot] = proposed[connection'[m][j].slot]
  <2>1. m # n /\ connection'[m][j] = connection[m][j]
    BY <1>3, <1>6
  <2>2. connection[m][j].slot # 0 =>
           owner_of(connection[m][j].slot) = m /\ connection[m][j].slot \in Slots
    <3>1. connection[m][j] \in ConnectionRecords
      BY <1>0, <1>6, <2>1
    <3> QED
      BY <1>0, <1>6, <2>1, <3>1 DEF SlotsInv, ConnectionRecords, Slots
  <2> QED
    BY <1>4, <2>1, <2>2
<1>7. ASSUME NEW m \in Servers, NEW j \in Connections
      PROVE  connection'[m][j] = connection[m][j] \/ \A c \in Clients \ gone : client[c].at # <<m, j>>
  BY <1>3
<1>8. gone \in SUBSET Clients
  OBVIOUS
<1> HIDE DEF gone
<1>9. Leaves(gone)
  BY <1>1, <1>3, <1>4, <1>5, <1>6, <1>7, <1>8 DEF Leaves
<1> QED
  BY <1>9, LeaveStep

\* An operator's request is offered in a free slot.
LEMMA SessionStep ==
  ASSUME WriteInv, session_request
  PROVE  WriteInv'
<1> DEFINE s == Nth(OwnFree(Operator), 1)
<1>0. /\ TypeOK /\ SlotsInv /\ CopyInv /\ ClientInv /\ LogInv /\ AnswersInv
      /\ proposed \in [Slots -> PendingWrites \cup {Retire, None}]
      /\ connection \in [Servers -> [Connections -> ConnectionRecords \cup {None}]]
  BY DEF WriteInv, TypeOK, ConnectionRecords
<1>1. /\ OwnFree(Operator) # {} /\ proposed' = [proposed EXCEPT ![s] = Retire]
      /\ UNCHANGED <<chosen, applied, connection, write_cursor, client, result>>
  BY DEF session_request
<1>2. s \in Slots /\ proposed[s] = None
  BY <1>1, FirstFree, OwnFreeProperty
<1> HIDE DEF s
<1>3. /\ proposed' \in [Slots -> PendingWrites \cup {Retire, None}]
      /\ \A t \in Slots : proposed'[t] \in {proposed[t], Retire}
      /\ \A t \in Slots : proposed[t] # None => proposed'[t] = proposed[t]
  BY <1>0, <1>1, <1>2
<1>4. TypeOK'
  BY <1>0, <1>1, <1>3 DEF TypeOK
<1>5. SlotsInv'
  <2>1. ASSUME NEW n \in Servers, NEW i \in Connections, connection[n][i] # None,
               connection[n][i].slot # 0
        PROVE  proposed'[connection[n][i].slot] = proposed[connection[n][i].slot]
    <3>1. connection[n][i] \in ConnectionRecords
      BY <1>0, <2>1
    <3>2. connection[n][i].value # None /\ connection[n][i].slot \in Slots
      BY <2>1, <3>1, WritesAreMutations DEF ConnectionRecords, Slots
    <3> QED
      BY <1>0, <1>3, <2>1, <3>2 DEF SlotsInv
  <2> QED
    BY <1>0, <1>1, <2>1 DEF SlotsInv, owner_of
<1>6. CopyInv'
  BY <1>0, <1>1, <1>3, CopyKept
<1>7. ClientInv' /\ LogInv' /\ AnswersInv'
  BY <1>0, <1>1 DEF ClientInv, LogInv, AnswersInv
<1> QED
  BY <1>4, <1>5, <1>6, <1>7 DEF WriteInv

\* Consensus decides a slot.
LEMMA DecideStep ==
  ASSUME WriteInv, NEW s \in Slots, Decide(s)
  PROVE  WriteInv'
<1>0. /\ TypeOK /\ SlotsInv /\ CopyInv /\ ClientInv /\ LogInv /\ AnswersInv
      /\ proposed \in [Slots -> PendingWrites \cup {Retire, None}]
      /\ chosen \in [Slots -> PendingWrites \cup {Skip, Retire, None}]
  BY DEF WriteInv, TypeOK
<1>1. UNCHANGED <<proposed, applied, connection, write_cursor, client, result>>
  BY DEF Decide
<1>2. /\ chosen' \in [Slots -> PendingWrites \cup {Skip, Retire, None}]
      /\ \A t \in Slots : chosen'[t] \in {chosen[t], proposed[t], Skip}
  BY <1>0 DEF Decide
<1>3. /\ P!KnownLog(LogOf(chosen')) /\ ThroughOf(chosen) <= ThroughOf(chosen')
      /\ EpochOf(chosen) <= EpochOf(chosen')
      /\ \A t \in 1..ThroughOf(chosen) : /\ chosen'[t] = chosen[t]
                                         /\ OutcomeOf(chosen', t) = OutcomeOf(chosen, t)
  BY DecideExtends
<1>4. TypeOK'
  BY <1>0, <1>1, <1>2 DEF TypeOK
<1>5. SlotsInv' /\ ClientInv'
  BY <1>0, <1>1 DEF SlotsInv, ClientInv, owner_of
<1>6. CopyInv'
  BY <1>0, <1>1, <1>2, CopyKept
<1>7. ThroughOf(chosen) \in Nat /\ ThroughOf(chosen') \in Nat
  BY LogProperty
<1>8. LogInv'
  <2>1. \A n \in Servers : applied'[n] <= ThroughOf(chosen')
    BY <1>0, <1>1, <1>3, <1>7 DEF LogInv, TypeOK
  <2>2. EpochOf(chosen) \in Nat
    BY <1>0, EpochProperty
  <2>3. EpochOf(chosen') \in Nat
    <3>1. Len(LogOf(chosen')) = ThroughOf(chosen')
      BY LogProperty
    <3>2. P!ReferenceOf(LogOf(chosen'))[Len(LogOf(chosen'))].epoch \in Nat
      BY <1>3, P!ReferenceAnswers, LemmasApply
    <3> QED
      BY <3>1, <3>2 DEF EpochOf
  <2>4. \A c \in Clients : client'[c].epoch <= EpochOf(chosen')
    <3>1. \A c \in Clients : client[c].epoch \in Int /\ client[c].epoch <= EpochOf(chosen)
      BY <1>0 DEF TypeOK, LogInv
    <3> QED
      BY <1>1, <1>3, <2>2, <2>3, <3>1
  <2> QED
    BY <1>3, <2>1, <2>4 DEF LogInv
<1>9. AnswersInv'
  <2>1. ASSUME NEW c \in Clients, NEW q \in 1..MaxSequence, result[c][q] # None
        PROVE  \E t \in 1..ThroughOf(chosen') :
                  /\ chosen'[t] \in PendingWrites /\ chosen'[t].session = c
                  /\ chosen'[t].sequence = q
                  /\ OutcomeOf(chosen', t).kind = result[c][q]
    <3>1. PICK t \in 1..ThroughOf(chosen) :
                  /\ chosen[t] \in PendingWrites /\ chosen[t].session = c
                  /\ chosen[t].sequence = q
                  /\ OutcomeOf(chosen, t).kind = result[c][q]
      BY <1>0, <2>1 DEF AnswersInv
    <3>2. t \in 1..ThroughOf(chosen')
      BY <1>3, <1>7
    <3> QED
      BY <1>3, <3>1, <3>2
  <2> QED
    BY <1>1, <2>1 DEF AnswersInv
<1> QED
  BY <1>4, <1>5, <1>6, <1>8, <1>9 DEF WriteInv

\* A server applies a decided slot.
LEMMA ApplyStep ==
  ASSUME WriteInv, NEW n \in Servers, Apply(n)
  PROVE  WriteInv'
<1>0. /\ TypeOK /\ SlotsInv /\ CopyInv /\ ClientInv /\ LogInv /\ AnswersInv
      /\ applied \in [Servers -> 0..MaxSlot] /\ MaxSlot \in Nat
  BY WriteAssumption DEF WriteInv, TypeOK
<1>1. /\ applied[n] < ThroughOf(chosen) /\ applied' = [applied EXCEPT ![n] = applied[n] + 1]
      /\ UNCHANGED <<proposed, chosen, connection, write_cursor, client, result>>
  BY SameReference DEF Apply
<1>2. ThroughOf(chosen) \in Nat /\ ThroughOf(chosen) <= MaxSlot
  BY LogProperty
<1>3. applied[n] + 1 \in 0..MaxSlot /\ applied[n] + 1 <= ThroughOf(chosen)
  BY <1>0, <1>1, <1>2
<1>4. applied' \in [Servers -> 0..MaxSlot] /\ \A m \in Servers : applied'[m] <= ThroughOf(chosen)
  BY <1>0, <1>1, <1>3 DEF LogInv
<1>5. TypeOK'
  BY <1>0, <1>1, <1>4 DEF TypeOK
<1>6. LogInv'
  BY <1>0, <1>1, <1>4 DEF LogInv
<1>7. CopyInv'
  BY <1>0, <1>1, CopyKept
<1>8. SlotsInv' /\ ClientInv' /\ AnswersInv'
  BY <1>0, <1>1 DEF SlotsInv, ClientInv, AnswersInv, owner_of
<1> QED
  BY <1>5, <1>6, <1>7, <1>8 DEF WriteInv

\* The first in line is refused under history-space pressure.
LEMMA RefuseStep ==
  ASSUME WriteInv, NEW n \in Servers, RefuseWrite(n)
  PROVE  WriteInv'
<1>0. write_cursor \in [Servers -> Connections] /\ MAX_CONNECTIONS \in Nat \ {0}
  BY WriteAssumption DEF WriteInv, TypeOK
<1>1. PICK i \in Waiting(n) :
         /\ respond(n, i, "Busy")
         /\ write_cursor' = [write_cursor EXCEPT ![n] = (i + 1) % MAX_CONNECTIONS]
  BY DEF RefuseWrite
<1>2. i \in Connections /\ connection[n][i] # None
  BY DEF Waiting
<1>3. (i + 1) % MAX_CONNECTIONS \in Connections
  <2>1. i + 1 \in Nat
    BY <1>0, <1>2 DEF Connections
  <2>2. (i + 1) % MAX_CONNECTIONS \in 0..MAX_CONNECTIONS-1
    BY ONLY <1>0, <2>1, Remainder
  <2> QED
    BY <2>2 DEF Connections
<1>4. write_cursor' \in [Servers -> Connections]
  BY <1>0, <1>1, <1>3
<1>5. "Busy" \notin FinalCodes
  BY DEF FinalCodes
<1>6. UNCHANGED slots
  BY DEF RefuseWrite
<1> QED
  BY <1>1, <1>2, <1>4, <1>5, <1>6, RespondStep

\* The request's timeout.
LEMMA TimeoutStep ==
  ASSUME WriteInv, NEW n \in Servers, NEW i \in Connections, Timeout(n, i)
  PROVE  WriteInv'
<1> DEFINE code == IF connection[n][i].slot = 0 THEN "Busy" ELSE "Unknown_Outcome"
<1>1. /\ connection[n][i] # None /\ respond(n, i, code) /\ UNCHANGED slots
      /\ UNCHANGED write_cursor
  BY DEF Timeout
<1>2. code \notin FinalCodes
  BY DEF FinalCodes
<1>3. write_cursor' \in [Servers -> Connections]
  BY <1>1 DEF WriteInv, TypeOK
<1> HIDE DEF code
<1> QED
  BY <1>1, <1>2, <1>3, RespondStep

\* The answer is the outcome of the applied slot, which holds this very value.
LEMMA PollStep ==
  ASSUME WriteInv, NEW n \in Servers, NEW i \in Connections, poll_write(n, i)
  PROVE  WriteInv'
<1> DEFINE t == connection[n][i].slot
           code == OutcomeOf(chosen, t).kind
<1>0. /\ connection \in [Servers -> [Connections -> ConnectionRecords \cup {None}]]
      /\ applied \in [Servers -> 0..MaxSlot] /\ applied[n] <= ThroughOf(chosen)
      /\ write_cursor \in [Servers -> Connections]
  BY DEF WriteInv, TypeOK, ConnectionRecords, LogInv
<1>1. /\ connection[n][i] # None /\ t # 0 /\ t <= applied[n]
      /\ chosen[t] = connection[n][i].value /\ UNCHANGED slots /\ UNCHANGED write_cursor
  BY DEF poll_write
<1>2. respond(n, i, code)
  <2>1. Outcome(t).kind = code
    BY SameReference
  <2> QED
    BY <2>1 DEF poll_write
<1>3. ThroughOf(chosen) \in Nat
  BY LogProperty
<1>4. t \in 0..MaxSlot /\ MaxSlot \in Nat
  BY <1>0, <1>1, WriteAssumption DEF ConnectionRecords
<1>5. t \in 1..ThroughOf(chosen)
  <2> HIDE DEF t
  <2>1. applied[n] \in 0..MaxSlot
    BY <1>0
  <2> QED
    BY <1>0, <1>1, <1>3, <1>4, <2>1
<1>6. code \in FinalCodes =>
         LET u == connection[n][i].slot IN
         /\ u \in 1..ThroughOf(chosen) /\ chosen[u] = connection[n][i].value
         /\ OutcomeOf(chosen, u).kind = code
  BY <1>1, <1>5
<1> HIDE DEF code
<1>7. write_cursor' \in [Servers -> Connections]
  BY <1>0, <1>1
<1> QED
  BY <1>1, <1>2, <1>6, <1>7, RespondStep

-----------------------------------------------------------------------------
\* Nothing is decided at first: the invariant holds of the initial state.
LEMMA WriteInit == Init => WriteInv
<1> SUFFICES ASSUME Init PROVE WriteInv
  OBVIOUS
<1>0. /\ N \in Nat \ {0} /\ MAX_CONNECTIONS \in Nat \ {0} /\ MaxSlot \in Nat
      /\ MaxSequence \in Nat /\ MaxAttempts \in Nat
  BY WriteAssumption
<1> DEFINE first == [sequence |-> 1, epoch |-> -1, index |-> 0, attempts |-> 0,
                     pending |-> None, at |-> None]
<1>1. /\ proposed = [s \in Slots |-> None] /\ chosen = [s \in Slots |-> None]
      /\ applied = [n \in Servers |-> 0]
      /\ connection = [n \in Servers |-> [i \in Connections |-> None]]
      /\ write_cursor = [n \in Servers |-> 0]
      /\ client = [c \in Clients |-> first]
      /\ result = [c \in Clients |-> [q \in 1..MaxSequence |-> None]]
  BY DEF Init
<1>2. /\ first \in ClientRecords /\ first.sequence = 1 /\ first.epoch = -1
      /\ first.pending = None /\ first.at = None
  BY <1>0 DEF ClientRecords
<1> HIDE DEF first
<1>3. TypeOK
  <2>1. 0 \in Connections /\ 0 \in 0..MaxSlot
    BY <1>0 DEF Connections
  <2>2. client \in [Clients -> ClientRecords]
    BY <1>1, <1>2
  <2> QED
    BY <1>1, <2>1, <2>2 DEF TypeOK, ClientRecords
<1>4. SlotsInv
  BY <1>1 DEF SlotsInv
<1>5. \A w \in PendingWrites : ~Sent(w)
  BY <1>1, <1>2, WritesAreMutations DEF Sent
<1>6. CopyInv
  BY <1>5 DEF CopyInv
<1>7. ClientInv
  <2>1. ASSUME NEW c \in Clients, NEW n \in Servers, NEW i \in Connections,
               client[c].at = <<n, i>>
        PROVE  FALSE
    <3>1. None = <<n, i>> /\ <<n, i>> \in Servers \X Connections
      BY <1>1, <1>2, <2>1
    <3> QED
      BY <3>1, ValueAssumption
  <2>2. \A c \in Clients : /\ client[c].pending = None
                           /\ \A q \in 1..MaxSequence : result[c][q] = None /\ ~(q < client[c].sequence)
    BY <1>0, <1>1, <1>2
  <2> QED
    BY <2>1, <2>2 DEF ClientInv
<1>8. ThroughOf(chosen) = 0
  <2>1. /\ ThroughOf(chosen) \in 0..MaxSlot
        /\ \A s \in 1..ThroughOf(chosen) : chosen[s] # None
    BY ThroughProperty
  <2> DEFINE a == ThroughOf(chosen)
  <2> HIDE DEF a
  <2>2. a \in 0..MaxSlot /\ \A s \in 1..a : chosen[s] # None
    BY <2>1 DEF a
  <2>3. a # 0 => 1 \in 1..a /\ 1 \in Slots
    BY <1>0, <2>2 DEF Slots
  <2>4. a = 0
    BY <1>1, <2>2, <2>3
  <2> QED
    BY <2>4 DEF a
<1>9. P!KnownLog(LogOf(chosen))
  <2>1. Len(LogOf(chosen)) = 0
    BY <1>8, LogProperty
  <2> QED
    BY <1>0, <2>1 DEF P!KnownLog, P!EpochsKnown
<1>10. LogInv
  <2>1. Len(LogOf(chosen)) = ThroughOf(chosen)
    BY LogProperty
  <2>2. P!ReferenceOf(LogOf(chosen))[Len(LogOf(chosen))].epoch \in Nat
    BY <1>9, P!ReferenceAnswers, LemmasApply
  <2>3. EpochOf(chosen) \in Nat
    BY <2>1, <2>2 DEF EpochOf
  <2>4. \A c \in Clients : client[c].epoch <= EpochOf(chosen)
    BY <1>1, <1>2, <2>3
  <2>5. \A n \in Servers : applied[n] <= ThroughOf(chosen)
    BY <1>1, <1>8
  <2> QED
    BY <1>9, <2>4, <2>5 DEF LogInv
<1>11. AnswersInv
  BY <1>1 DEF AnswersInv
<1> QED
  BY <1>3, <1>4, <1>6, <1>7, <1>10, <1>11 DEF WriteInv

\* Every step keeps it.
LEMMA WriteStep == WriteInv /\ [Next]_vars => WriteInv'
<1> SUFFICES ASSUME WriteInv, [Next]_vars PROVE WriteInv'
  OBVIOUS
<1>1. ASSUME NEW c \in Clients, execute(c) PROVE WriteInv'
  BY <1>1, ExecuteStep
<1>2. ASSUME NEW c \in Clients, NEW i \in Connections, Attempt(c, i) PROVE WriteInv'
  BY <1>2, AttemptStep
<1>3. ASSUME NEW c \in Clients, GiveUp(c) PROVE WriteInv'
  BY <1>3, GiveUpStep
<1>4. ASSUME NEW n \in Servers, admit_writes(n) PROVE WriteInv'
  BY <1>4, AdmitStep
<1>5. ASSUME NEW n \in Servers, RefuseWrite(n) PROVE WriteInv'
  BY <1>5, RefuseStep
<1>6. ASSUME NEW n \in Servers, Apply(n) PROVE WriteInv'
  BY <1>6, ApplyStep
<1>7. ASSUME NEW n \in Servers, Restart(n) PROVE WriteInv'
  BY <1>7, RestartStep
<1>8. CASE session_request
  BY <1>8, SessionStep
<1>9. ASSUME NEW s \in Slots, Decide(s) PROVE WriteInv'
  BY <1>9, DecideStep
<1>10. ASSUME NEW n \in Servers, NEW i \in Connections, poll_write(n, i) PROVE WriteInv'
  BY <1>10, PollStep
<1>11. ASSUME NEW n \in Servers, NEW i \in Connections, poll_write_again(n, i) PROVE WriteInv'
  BY <1>11, PollAgainStep
<1>12. ASSUME NEW n \in Servers, NEW i \in Connections, Timeout(n, i) PROVE WriteInv'
  BY <1>12, TimeoutStep
<1>13. CASE UNCHANGED vars
  <2>1. UNCHANGED <<proposed, chosen, applied, connection, write_cursor, client, result>>
    BY <1>13 DEF vars, slots
  <2>2. TypeOK' /\ SlotsInv' /\ ClientInv' /\ LogInv' /\ AnswersInv'
    BY <2>1 DEF WriteInv, TypeOK, SlotsInv, ClientInv, LogInv, AnswersInv, owner_of
  <2>3. \A w : Sent(w)' = Sent(w)
    BY <2>1 DEF Sent
  <2>4. CopyInv'
    BY <2>1, <2>3 DEF WriteInv, CopyInv
  <2> QED
    BY <2>2, <2>4 DEF WriteInv
<1> QED
  BY <1>1, <1>2, <1>3, <1>4, <1>5, <1>6, <1>7, <1>8, <1>9, <1>10, <1>11, <1>12, <1>13 DEF Next

\* The inductive invariant holds in every reachable state: however the attempts
\* of clients, the proposals of servers, restarts and decisions interleave.
THEOREM WriteTheorem == Spec => []WriteInv
<1>1. Init => WriteInv
  BY WriteInit
<1>2. WriteInv /\ [Next]_vars => WriteInv'
  BY WriteStep
<1> QED
  BY <1>1, <1>2, PTL DEF Spec

\* Type correctness, and the pairing of connections and slots that poll_write
\* relies on when it takes a slot's outcome for the answer of a connection.
THEOREM SlotsBackConnectionsTheorem == Spec => []SlotsBackConnections
<1>1. WriteInv => SlotsBackConnections
  BY DEF WriteInv, SlotsInv, SlotsBackConnections
<1> QED
  BY <1>1, WriteTheorem, PTL

-----------------------------------------------------------------------------
\* What the decided copies of a client's writes are, and what the engine's
\* lemmas say of the log they form.
LEMMA CopiesAnswered ==
  ASSUME WriteInv, NEW c \in Clients
  PROVE  /\ \A t \in 1..ThroughOf(chosen) :
              chosen[t].kind = "Transaction" => chosen[t] \in PendingWrites /\ Sent(chosen[t])
         /\ \A t \in 1..ThroughOf(chosen) :
              chosen[t].kind = "Transaction" /\ OutcomeOf(chosen, t).kind = "Applied" =>
                \E u \in 1..ThroughOf(chosen) :
                   /\ chosen[u].kind = "Transaction" /\ chosen[u].session = chosen[t].session
                   /\ chosen[u].sequence = chosen[t].sequence
                   /\ OutcomeOf(chosen, u).kind = "Applied" /\ OutcomeOf(chosen, u).slot = u
         /\ \A s, t \in 1..ThroughOf(chosen) :
              /\ s < t /\ chosen[s].kind = "Transaction" /\ chosen[t].kind = "Transaction"
              /\ chosen[s].session = chosen[t].session /\ chosen[s].epoch = chosen[t].epoch
              /\ chosen[t].sequence <= chosen[s].sequence
              => ~(/\ OutcomeOf(chosen, s).kind = "Applied" /\ OutcomeOf(chosen, s).slot = s
                   /\ OutcomeOf(chosen, t).kind = "Applied" /\ OutcomeOf(chosen, t).slot = t)
         /\ \A s, t \in 1..ThroughOf(chosen) :
              s < t /\ chosen[s].kind = "Transaction" /\ chosen[s] = chosen[t] =>
                P!Agrees(OutcomeOf(chosen, s), OutcomeOf(chosen, t))
<1> DEFINE a == ThroughOf(chosen)
           L == LogOf(chosen)
           r == P!ReferenceOf(L)
<1>0. /\ chosen \in [Slots -> PendingWrites \cup {Skip, Retire, None}] /\ P!KnownLog(L)
  BY DEF WriteInv, TypeOK, LogInv
<1>1. /\ a \in Nat /\ a <= MaxSlot /\ Len(L) = a /\ MaxSlot \in Nat
      /\ \A t \in 1..a : L[t] = chosen[t]
  BY LogProperty, WriteAssumption
<1>2. \A t \in 1..a : chosen[t] # None
  BY ThroughProperty
<1>3. \A t : OutcomeOf(chosen, t) = r[t].outcomes[t]
  BY DEF OutcomeOf
<1>4. /\ \A t \in 1..Len(L) :
            L[t].kind = "Transaction" /\ r[t].outcomes[t].kind = "Applied" =>
              \E u \in 1..Len(L) : /\ L[u].kind = "Transaction" /\ L[u].session = L[t].session
                                   /\ L[u].sequence = L[t].sequence
                                   /\ r[u].outcomes[u].kind = "Applied" /\ r[u].outcomes[u].slot = u
      /\ \A s1, s2 \in 1..Len(L) :
            /\ s1 < s2 /\ L[s1].kind = "Transaction" /\ L[s2].kind = "Transaction"
            /\ L[s1].session = L[s2].session /\ L[s1].epoch = L[s2].epoch
            /\ L[s2].sequence <= L[s1].sequence
            => ~(/\ r[s1].outcomes[s1].kind = "Applied" /\ r[s1].outcomes[s1].slot = s1
                 /\ r[s2].outcomes[s2].kind = "Applied" /\ r[s2].outcomes[s2].slot = s2)
      /\ \A s1, s2 \in 1..Len(L) :
            s1 < s2 /\ L[s1].kind = "Transaction" /\ L[s1] = L[s2] =>
              P!Agrees(r[s1].outcomes[s1], r[s2].outcomes[s2])
  <2> HIDE DEF L
  <2> QED
    BY <1>0, P!ReferenceAnswers, LemmasApply
<1> HIDE DEF a, L, r
<1>5. \A t \in 1..a : chosen[t].kind = "Transaction" => chosen[t] \in PendingWrites /\ Sent(chosen[t])
  <2>1. SUFFICES ASSUME NEW t \in 1..a, chosen[t].kind = "Transaction"
                 PROVE  chosen[t] \in PendingWrites /\ Sent(chosen[t])
    OBVIOUS
  <2>2. t \in Slots
    BY <1>1 DEF Slots
  <2>3. chosen[t] \in PendingWrites
    BY <1>0, <1>2, <2>1, <2>2, WritesAreMutations
  <2> QED
    BY <2>2, <2>3 DEF Sent
<1>6. \A t \in 1..a :
         chosen[t].kind = "Transaction" /\ OutcomeOf(chosen, t).kind = "Applied" =>
           \E u \in 1..a :
              /\ chosen[u].kind = "Transaction" /\ chosen[u].session = chosen[t].session
              /\ chosen[u].sequence = chosen[t].sequence
              /\ OutcomeOf(chosen, u).kind = "Applied" /\ OutcomeOf(chosen, u).slot = u
  <2>1. SUFFICES ASSUME NEW t \in 1..a, chosen[t].kind = "Transaction",
                        r[t].outcomes[t].kind = "Applied"
                 PROVE  \E u \in 1..a :
                           /\ chosen[u].kind = "Transaction" /\ chosen[u].session = chosen[t].session
                           /\ chosen[u].sequence = chosen[t].sequence
                           /\ r[u].outcomes[u].kind = "Applied" /\ r[u].outcomes[u].slot = u
    BY <1>3
  <2>2. t \in 1..Len(L) /\ L[t].kind = "Transaction" /\ L[t] = chosen[t]
    BY <1>1, <2>1
  <2>3. PICK u \in 1..Len(L) :
           /\ L[u].kind = "Transaction" /\ L[u].session = L[t].session
           /\ L[u].sequence = L[t].sequence
           /\ r[u].outcomes[u].kind = "Applied" /\ r[u].outcomes[u].slot = u
    BY <1>4, <2>1, <2>2, Zenon
  <2>4. u \in 1..a /\ L[u] = chosen[u]
    BY <1>1
  <2> QED
    BY <2>2, <2>3, <2>4
<1>7. \A s, t \in 1..a :
         /\ s < t /\ chosen[s].kind = "Transaction" /\ chosen[t].kind = "Transaction"
         /\ chosen[s].session = chosen[t].session /\ chosen[s].epoch = chosen[t].epoch
         /\ chosen[t].sequence <= chosen[s].sequence
         => ~(/\ OutcomeOf(chosen, s).kind = "Applied" /\ OutcomeOf(chosen, s).slot = s
              /\ OutcomeOf(chosen, t).kind = "Applied" /\ OutcomeOf(chosen, t).slot = t)
  <2>1. SUFFICES ASSUME NEW s \in 1..a, NEW t \in 1..a,
                        s < t, chosen[s].kind = "Transaction", chosen[t].kind = "Transaction",
                        chosen[s].session = chosen[t].session, chosen[s].epoch = chosen[t].epoch,
                        chosen[t].sequence <= chosen[s].sequence
                 PROVE  ~(/\ r[s].outcomes[s].kind = "Applied" /\ r[s].outcomes[s].slot = s
                          /\ r[t].outcomes[t].kind = "Applied" /\ r[t].outcomes[t].slot = t)
    BY <1>3
  <2>2. L[s] = chosen[s] /\ L[t] = chosen[t] /\ s \in 1..Len(L) /\ t \in 1..Len(L)
    BY <1>1
  <2>3. /\ s < t /\ L[s].kind = "Transaction" /\ L[t].kind = "Transaction"
        /\ L[s].session = L[t].session /\ L[s].epoch = L[t].epoch
        /\ L[t].sequence <= L[s].sequence
    BY <2>1, <2>2
  <2> QED
    BY <1>4, <2>2, <2>3, Zenon
<1>8. \A s, t \in 1..a :
         s < t /\ chosen[s].kind = "Transaction" /\ chosen[s] = chosen[t] =>
           P!Agrees(OutcomeOf(chosen, s), OutcomeOf(chosen, t))
  <2>1. SUFFICES ASSUME NEW s \in 1..a, NEW t \in 1..a, s < t,
                        chosen[s].kind = "Transaction", chosen[s] = chosen[t]
                 PROVE  P!Agrees(r[s].outcomes[s], r[t].outcomes[t])
    BY <1>3
  <2>2. /\ s \in 1..Len(L) /\ t \in 1..Len(L) /\ s < t
        /\ L[s].kind = "Transaction" /\ L[s] = L[t]
    BY <1>1, <2>1
  <2> QED
    BY <1>4, <2>2, Zenon
<1> QED
  BY <1>5, <1>6, <1>7, <1>8 DEF a

\* An execution of a client's write is by a decided copy of it.
LEMMA ExecutionsProperty ==
  ASSUME WriteInv, NEW c \in Clients, NEW q
  PROVE  /\ Executions(c, q) =
              {s \in 1..ThroughOf(chosen) :
                 /\ chosen[s].kind = "Transaction" /\ chosen[s].session = c /\ chosen[s].sequence = q
                 /\ OutcomeOf(chosen, s).kind = "Applied" /\ OutcomeOf(chosen, s).slot = s}
         /\ \A s \in Executions(c, q) :
              /\ s \in 1..ThroughOf(chosen) /\ s \in Nat
              /\ chosen[s].kind = "Transaction" /\ chosen[s].session = c /\ chosen[s].sequence = q
              /\ OutcomeOf(chosen, s).kind = "Applied" /\ OutcomeOf(chosen, s).slot = s
              /\ chosen[s] \in PendingWrites /\ Sent(chosen[s])
              /\ chosen[s].epoch = client[c].epoch /\ q <= client[c].sequence
<1>1. Executions(c, q) =
        {s \in 1..ThroughOf(chosen) :
           /\ chosen[s].kind = "Transaction" /\ chosen[s].session = c /\ chosen[s].sequence = q
           /\ OutcomeOf(chosen, s).kind = "Applied" /\ OutcomeOf(chosen, s).slot = s}
  BY SameReference DEF Executions, Executed
<1>2. ASSUME NEW s \in Executions(c, q)
      PROVE  /\ s \in 1..ThroughOf(chosen) /\ s \in Nat
             /\ chosen[s].kind = "Transaction" /\ chosen[s].session = c /\ chosen[s].sequence = q
             /\ OutcomeOf(chosen, s).kind = "Applied" /\ OutcomeOf(chosen, s).slot = s
             /\ chosen[s] \in PendingWrites /\ Sent(chosen[s])
             /\ chosen[s].epoch = client[c].epoch /\ q <= client[c].sequence
  <2>1. /\ s \in 1..ThroughOf(chosen)
        /\ chosen[s].kind = "Transaction" /\ chosen[s].session = c /\ chosen[s].sequence = q
        /\ OutcomeOf(chosen, s).kind = "Applied" /\ OutcomeOf(chosen, s).slot = s
    BY <1>1
  <2>2. chosen[s] \in PendingWrites /\ Sent(chosen[s])
    BY <2>1, CopiesAnswered
  <2>3. chosen[s].epoch = client[c].epoch /\ q <= client[c].sequence
    BY <2>1, <2>2 DEF WriteInv, CopyInv
  <2>4. s \in Nat
    BY <2>1, LogProperty
  <2> QED
    BY <2>1, <2>2, <2>3, <2>4
<1> QED
  BY <1>1, <1>2

\* The invariant makes results true: an "Applied" has one execution, by the
\* engine's answers; a rejection and an execution would be two answers to equal
\* copies that do not agree.
LEMMA InvResults == WriteInv => ResultsAreTrue
<1> SUFFICES ASSUME WriteInv, NEW c \in Clients, NEW q \in 1..MaxSequence
             PROVE  /\ result[c][q] = "Applied" => Cardinality(Executions(c, q)) = 1
                    /\ result[c][q] \in FinalCodes \ {"Applied"} => Executions(c, q) = {}
  BY DEF ResultsAreTrue
<1> DEFINE a == ThroughOf(chosen)
<1>0. a \in Nat
  BY LogProperty
<1>1. ASSUME result[c][q] \in FinalCodes
      PROVE  \E t \in 1..a :
                /\ chosen[t] \in PendingWrites /\ chosen[t].session = c /\ chosen[t].sequence = q
                /\ chosen[t].kind = "Transaction" /\ OutcomeOf(chosen, t).kind = result[c][q]
  <2>1. result[c][q] # None
    BY <1>1, ValueAssumption
  <2> QED
    BY <2>1, WritesAreMutations DEF WriteInv, AnswersInv
<1>2. ASSUME result[c][q] = "Applied" PROVE Cardinality(Executions(c, q)) = 1
  <2>1. PICK t \in 1..a :
           /\ chosen[t] \in PendingWrites /\ chosen[t].session = c /\ chosen[t].sequence = q
           /\ chosen[t].kind = "Transaction" /\ OutcomeOf(chosen, t).kind = "Applied"
    BY <1>1, <1>2 DEF FinalCodes
  <2>2. PICK u \in 1..a :
           /\ chosen[u].kind = "Transaction" /\ chosen[u].session = c /\ chosen[u].sequence = q
           /\ OutcomeOf(chosen, u).kind = "Applied" /\ OutcomeOf(chosen, u).slot = u
    BY <2>1, CopiesAnswered
  <2>3. u \in Executions(c, q)
    BY <2>2, ExecutionsProperty
  <2>4. ASSUME NEW s \in Executions(c, q), NEW v \in Executions(c, q), s < v PROVE FALSE
    <3>1. /\ s \in 1..a /\ v \in 1..a /\ chosen[s].kind = "Transaction"
          /\ chosen[v].kind = "Transaction" /\ chosen[s].session = chosen[v].session
          /\ chosen[s].epoch = chosen[v].epoch /\ chosen[v].sequence <= chosen[s].sequence
          /\ OutcomeOf(chosen, s).kind = "Applied" /\ OutcomeOf(chosen, s).slot = s
          /\ OutcomeOf(chosen, v).kind = "Applied" /\ OutcomeOf(chosen, v).slot = v
      <4>1. q <= q
        OBVIOUS
      <4> QED
        BY <4>1, ExecutionsProperty
    <3> QED
      BY <2>4, <3>1, CopiesAnswered
  <2>5. \A s \in Executions(c, q) : s \in Nat
    BY ExecutionsProperty
  <2>6. \A s \in Executions(c, q) : s = u
    BY <2>3, <2>4, <2>5
  <2>7. Executions(c, q) = {u}
    BY <2>3, <2>6
  <2> QED
    BY <2>7, FS_Singleton
<1>3. ASSUME result[c][q] \in FinalCodes \ {"Applied"}, NEW u \in Executions(c, q) PROVE FALSE
  <2>1. PICK t \in 1..a :
           /\ chosen[t] \in PendingWrites /\ chosen[t].session = c /\ chosen[t].sequence = q
           /\ chosen[t].kind = "Transaction" /\ OutcomeOf(chosen, t).kind = result[c][q]
    BY <1>1, <1>3
  <2>2. /\ u \in 1..a /\ chosen[u] \in PendingWrites /\ Sent(chosen[u])
        /\ chosen[u].session = c /\ chosen[u].sequence = q
        /\ chosen[u].kind = "Transaction" /\ OutcomeOf(chosen, u).kind = "Applied"
    BY ExecutionsProperty
  <2>3. chosen[t] = chosen[u]
    <3>1. Sent(chosen[t])
      BY <2>1, CopiesAnswered
    <3> QED
      BY <2>1, <2>2, <3>1 DEF WriteInv, CopyInv
  <2> DEFINE one == OutcomeOf(chosen, t)
             other == OutcomeOf(chosen, u)
  <2>4. /\ t < u => P!Agrees(one, other)
        /\ u < t => P!Agrees(other, one)
    BY <2>1, <2>2, <2>3, CopiesAnswered
  <2>5. one.kind \in FinalCodes \ {"Applied"} /\ other.kind = "Applied"
    BY <1>3, <2>1, <2>2
  <2>6. t < u \/ u < t
    <3>1. t # u
      BY <2>5
    <3> QED
      BY <1>0, <2>2, <3>1
  <2> HIDE DEF one, other
  <2> QED
    BY <2>4, <2>5, <2>6 DEF P!Agrees, FinalCodes
<1> QED
  BY <1>2, <1>3

\* It makes writes execute in their order: the engine executes a client's
\* requests of one epoch in the order of their sequence numbers.
LEMMA InvOrder == WriteInv => WritesInOrder
<1> SUFFICES ASSUME WriteInv, NEW c \in Clients, NEW q \in 2..MaxSequence,
                    NEW s \in Executions(c, q)
             PROVE  /\ result[c][q - 1] # None
                    /\ \A t \in Executions(c, q - 1) : t < s
  BY DEF WritesInOrder
<1>0. q \in Nat /\ q - 1 \in 1..MaxSequence /\ MaxSequence \in Nat
  BY WriteAssumption
<1>1. /\ s \in 1..ThroughOf(chosen) /\ s \in Nat
      /\ chosen[s].kind = "Transaction" /\ chosen[s].session = c /\ chosen[s].sequence = q
      /\ OutcomeOf(chosen, s).kind = "Applied" /\ OutcomeOf(chosen, s).slot = s
      /\ chosen[s].epoch = client[c].epoch /\ q <= client[c].sequence
  BY ExecutionsProperty
<1>2. client[c].sequence \in Nat
  <2>1. client[c].sequence \in 1..MaxSequence + 1
    BY DEF WriteInv, TypeOK
  <2> QED
    BY <1>0, <2>1
<1>3. q - 1 < client[c].sequence
  BY <1>0, <1>1, <1>2
<1>4. result[c][q - 1] # None
  BY <1>0, <1>3 DEF WriteInv, ClientInv
<1>5. ASSUME NEW t \in Executions(c, q - 1) PROVE t < s
  <2>1. /\ t \in 1..ThroughOf(chosen) /\ t \in Nat
        /\ chosen[t].kind = "Transaction" /\ chosen[t].session = c /\ chosen[t].sequence = q - 1
        /\ OutcomeOf(chosen, t).kind = "Applied" /\ OutcomeOf(chosen, t).slot = t
        /\ chosen[t].epoch = client[c].epoch
    BY ExecutionsProperty
  <2>2. chosen[t].sequence <= chosen[s].sequence /\ t # s
    BY <1>0, <1>1, <2>1
  <2>3. ~(s < t)
    BY <1>1, <2>1, <2>2, CopiesAnswered
  <2> QED
    BY <1>1, <2>1, <2>2, <2>3
<1> QED
  BY <1>4, <1>5

\* What the client library returns is true and stays true: a write reported as
\* applied executed exactly once, a rejected one never does, for any number of
\* servers, clients, retries and restarts.
THEOREM ResultsAreTrueTheorem == Spec => []ResultsAreTrue
BY WriteTheorem, InvResults, PTL

\* A client's writes execute in their order, each only after the earlier ones
\* have their results, however many copies of them are under way.
THEOREM WritesInOrderTheorem == Spec => []WritesInOrder
BY WriteTheorem, InvOrder, PTL
=============================================================================
