-------------------------------- MODULE Ids --------------------------------
(***************************************************************************)
(* Durable 64-bit identifiers (src/src/durable/ids.odin).  A host reserves *)
(* a whole logical millisecond, a block of ids, in its journal before it   *)
(* hands out the first id of the block; the cursor into the block lives in *)
(* memory only.  Ids name read barriers, snapshots and generations, and    *)
(* are told to callers, so none may ever be handed out twice: not after a  *)
(* restart, not when the clock goes back, not by another node.             *)
(*                                                                         *)
(* An id is  ms << 22 | node << 12 | offset : with BLOCK = 4096 offsets    *)
(* and NODE_IDS = 1024 node numbers it is the integer IdBase + offset.     *)
(***************************************************************************)
EXTENDS Integers, Sequences

CONSTANTS
    Members,    \* node numbers in use
    NODE_IDS,   \* 1024
    BLOCK,      \* 4096
    MS_LIMIT,   \* 2^42
    MaxIssued   \* bound on the ids one host hands out

ASSUME IdsAssumption ==
    /\ NODE_IDS \in Nat \ {0} /\ BLOCK \in Nat \ {0} /\ MS_LIMIT \in Nat \ {0}
    /\ Members \subseteq 1..NODE_IDS - 1
    /\ MaxIssued \in Nat

VARIABLES
    ms,         \* _sqlodin_ids.ms in each journal, -1 when the store is new
    id_next,    \* in memory: the next id of the current block
    id_end,     \* in memory: the end of the current block
    poisoned,
    issued      \* history: the ids each host has handed out, in order

vars == <<ms, id_next, id_end, poisoned, issued>>

SPAN == NODE_IDS * BLOCK        \* ids of one millisecond; x >> 22 is x \div SPAN
WORD == MS_LIMIT * SPAN         \* 2^64: u64 arithmetic is modulo WORD

\* Mutant of IdBase: the node number is not shifted.
IdBaseUnshifted(t, n) == t * NODE_IDS * BLOCK + n

\* The first id of the block of millisecond t at node n.
IdBase(t, n) == (t * NODE_IDS + n) * BLOCK

\* Type correctness: the journal never holds a millisecond whose ids would not fit
\* into a word, so what the cursor hands out never wraps into an earlier block.
TypeOK ==
    /\ ms \in [Members -> -1..MS_LIMIT - 1]
    /\ id_next \in [Members -> 0..WORD - 1]
    /\ id_end \in [Members -> 0..WORD - 1]
    /\ poisoned \in [Members -> BOOLEAN]
    /\ issued \in [Members -> Seq(0..WORD - 1)]

Init ==
    /\ ms = [n \in Members |-> -1]
    /\ id_next = [n \in Members |-> 0]
    /\ id_end = [n \in Members |-> 0]
    /\ poisoned = [n \in Members |-> FALSE]
    /\ issued = [n \in Members |-> <<>>]

\* next_id asks for a new block when the current one is used up or belongs to
\* an earlier millisecond than the clock's.
NeedsBlock(n, t) == id_next[n] = id_end[n] \/ t > id_next[n] \div SPAN

\* Mutant of ReservedMs: the last reserved millisecond is taken again.
ReservedMsAgain(n, t) == IF t > ms[n] THEN t ELSE IF ms[n] = -1 THEN 0 ELSE ms[n]

\* reserve_ids: the millisecond it reserves.  The clock may be behind.
ReservedMs(n, t) == IF t > ms[n] THEN t ELSE ms[n] + 1

\* Mutant of Reservable: one millisecond more than 42 bits hold.
ReservableInclusive(t) == t <= MS_LIMIT

\* reserve_ids writes no millisecond that an id has no room for.
Reservable(t) == t < MS_LIMIT

\* next_id returns an id and moves the cursor.
HandOut(n, id) ==
    /\ Len(issued[n]) < MaxIssued
    /\ issued' = [issued EXCEPT ![n] = Append(@, id)]
    /\ id_next' = [id_next EXCEPT ![n] = (id + 1) % WORD]

\* next_id inside the current block.
NextInBlock(n, t) ==
    /\ ~poisoned[n] /\ t < MS_LIMIT /\ ~NeedsBlock(n, t)
    /\ HandOut(n, id_next[n])
    /\ UNCHANGED <<ms, id_end, poisoned>>

\* next_id that reserves a block first.
NextInNewBlock(n, t) ==
    /\ ~poisoned[n] /\ t < MS_LIMIT /\ NeedsBlock(n, t)
    /\ Reservable(ReservedMs(n, t))
    /\ ms' = [ms EXCEPT ![n] = ReservedMs(n, t)]
    /\ id_end' = [id_end EXCEPT ![n] = (IdBase(ReservedMs(n, t), n) + BLOCK) % WORD]
    /\ HandOut(n, IdBase(ReservedMs(n, t), n))
    /\ UNCHANGED poisoned

\* next_id whose reservation fails (no milliseconds left, no room, a storage
\* error): the host is poisoned.  A failing commit may have reached the disk.
ReserveFails(n, t) ==
    /\ ~poisoned[n] /\ t < MS_LIMIT /\ NeedsBlock(n, t)
    /\ poisoned' = [poisoned EXCEPT ![n] = TRUE]
    /\ \/ UNCHANGED ms
       \/ /\ Reservable(ReservedMs(n, t))
          /\ ms' = [ms EXCEPT ![n] = ReservedMs(n, t)]
    /\ UNCHANGED <<id_next, id_end, issued>>

\* The process stops and the store is opened again.
Restart(n) ==
    /\ id_next' = [id_next EXCEPT ![n] = 0]
    /\ id_end' = [id_end EXCEPT ![n] = 0]
    /\ poisoned' = [poisoned EXCEPT ![n] = FALSE]
    /\ UNCHANGED <<ms, issued>>

Next ==
    \E n \in Members :
        \/ \E t \in 0..MS_LIMIT - 1 :
              NextInBlock(n, t) \/ NextInNewBlock(n, t) \/ ReserveFails(n, t)
        \/ Restart(n)

Spec == Init /\ [][Next]_vars

-----------------------------------------------------------------------------
\* Each host hands out a strictly increasing sequence of ids, through clock
\* rollback, used-up blocks, failed reservations and restarts, up to the very
\* last id of the 64-bit space.
IdsIncrease ==
    \A n \in Members : \A i, j \in 1..Len(issued[n]) :
        i < j => issued[n][i] < issued[n][j]

\* No two hosts ever hand out the same id.
IdsDistinctAcrossNodes ==
    \A n1, n2 \in Members : n1 # n2 =>
        \A i \in 1..Len(issued[n1]), j \in 1..Len(issued[n2]) :
            issued[n1][i] # issued[n2][j]

-----------------------------------------------------------------------------
\* The strengthening the proofs use: the journal's millisecond bounds all ids
\* handed out, and the cursor is above them unless its block is used up.
AllBelow(ids, bound) == \A i \in 1..Len(ids) : ids[i] < bound

BlockReserved ==
    \A n \in Members :
        /\ ms[n] = -1 => issued[n] = <<>>
        /\ ms[n] # -1 => AllBelow(issued[n], IdBase(ms[n], n) + BLOCK)

CursorInBlock ==
    \A n \in Members : ~poisoned[n] /\ id_next[n] # id_end[n] =>
        /\ ms[n] # -1
        /\ IdBase(ms[n], n) <= id_next[n] /\ id_next[n] < IdBase(ms[n], n) + BLOCK
        /\ id_end[n] = (IdBase(ms[n], n) + BLOCK) % WORD
        /\ AllBelow(issued[n], id_next[n])

OwnNumber ==
    \A n \in Members : \A i \in 1..Len(issued[n]) :
        \E t \in 0..MS_LIMIT - 1, k \in 0..BLOCK - 1 :
            issued[n][i] = IdBase(t, n) + k

IdsInv == TypeOK /\ IdsIncrease /\ BlockReserved /\ CursorInBlock
=============================================================================
