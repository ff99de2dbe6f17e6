----------------------------- MODULE MultiMaster -----------------------------
(***************************************************************************)
(* Multi-master Paxos with rotating slot ownership, as SQLodin drives it:  *)
(* every slot has one owner, who may propose in it at ballot round zero    *)
(* without a prepare phase; any other node takes the slot over ("revokes"  *)
(* it) at a higher ballot.  The protocol core is the pinned paxos-odin     *)
(* library (external, modelled from its use in src/src/paxos.odin and      *)
(* src/src/durable); SQLodin adds two things, which are what this module   *)
(* is about:                                                               *)
(*   - owner_fast_commit (src/src/paxos.odin), which lets a voter learn an *)
(*     owner's round-zero value without waiting for the owner's Commit;    *)
(*   - the durable group (src/src/durable/transition_group.odin): protocol *)
(*     transitions stage their journal records and their messages, and     *)
(*     nothing leaves the host before one journal barrier covers them all. *)
(* A crash forgets everything that was staged.  The network is a set of    *)
(* released messages that is never emptied: a message may be lost (never   *)
(* received), delayed, duplicated and reordered.                           *)
(***************************************************************************)
EXTENDS Integers, FiniteSets

CONSTANTS
    N,              \* number of members; members are 1..N in membership order
    Slots,          \* slots of the log under consideration
    Values,         \* client mutations
    Noop,           \* mutation_make_skip(0, 0)
    None,           \* no value: not voted, not chosen
    Ballots,        \* ballots in use; 0 is the owner's round-zero ballot
    ReadQuorum,     \* membership_read_quorum
    WriteQuorum,    \* membership_write_quorum
    GROUP_MESSAGES  \* capacity of a transition group, in messages

Nodes == 1..N

ASSUME MembersAssumption ==
    /\ N \in Nat \ {0}
    /\ Slots \subseteq Nat \ {0}
    /\ Noop \notin Values /\ None \notin Values \cup {Noop}
    /\ Ballots \subseteq Nat /\ 0 \in Ballots
    /\ GROUP_MESSAGES \in Nat \ {0}

ASSUME QuorumAssumption ==
    /\ ReadQuorum \in 1..N /\ WriteQuorum \in 1..N
    /\ ReadQuorum + WriteQuorum > N

Proposals == Values \cup {Noop}
NoVote == [bal |-> -1, val |-> None]
Votes == [bal : Ballots, val : Proposals] \cup {NoVote}

VARIABLES
    ledger,   \* ledger[n]: the protocol state in memory, staged records included
    disk,     \* disk[n]: the journal behind the last FULL barrier
    staged,   \* staged[n]: messages copied into the open transition group
    msgs      \* messages released by some host

vars == <<ledger, disk, staged, msgs>>

Ledgers == [promise : [Slots -> Ballots],
            vote    : [Slots -> Votes],
            chosen  : [Slots -> Proposals \cup {None}]]

Messages ==
    [type : {"Prepare"}, from : Nodes, slot : Slots, bal : Ballots]
    \cup [type : {"Promise"}, from : Nodes, slot : Slots, bal : Ballots,
          vote : Votes, chosen : Proposals \cup {None}]
    \cup [type : {"Accept"}, from : Nodes, slot : Slots, bal : Ballots, val : Proposals]
    \cup [type : {"Accepted"}, from : Nodes, slot : Slots, bal : Ballots]
    \cup [type : {"Commit"}, slot : Slots, val : Proposals]

\* Type correctness of the ledgers and of everything staged or sent.
TypeOK ==
    /\ ledger \in [Nodes -> Ledgers]
    /\ disk \in [Nodes -> Ledgers]
    /\ staged \in [Nodes -> SUBSET Messages]
    /\ msgs \subseteq Messages

-----------------------------------------------------------------------------
\* Rotating ownership: slots go round the membership.
owner_of(s) == ((s - 1) % N) + 1

\* The node whose ballot b of slot s is: the owner's at round zero; above it
\* ballots count (round, node) pairs in their order.
ballot_node(b, s) == IF b = 0 THEN owner_of(s) ELSE ((b - 1) % N) + 1

EmptyLedger == [promise |-> [s \in Slots |-> 0],
                vote    |-> [s \in Slots |-> NoVote],
                chosen  |-> [s \in Slots |-> None]]

Init ==
    /\ ledger = [n \in Nodes |-> EmptyLedger]
    /\ disk = [n \in Nodes |-> EmptyLedger]
    /\ staged = [n \in Nodes |-> {}]
    /\ msgs = {}

\* Mutant of Stage: the messages leave with the transition, before the barrier.
StageReleasesAtOnce(n, l, out) ==
    /\ ledger' = [ledger EXCEPT ![n] = l]
    /\ msgs' = msgs \cup out
    /\ UNCHANGED <<disk, staged>>

\* stage_transition: the records of one transition join the open journal
\* transaction (ledger ahead of disk) and its messages the group, whose room
\* transition_room has checked.
Stage(n, l, out) ==
    /\ Cardinality(staged[n] \cup out) <= GROUP_MESSAGES
    /\ ledger' = [ledger EXCEPT ![n] = l]
    /\ staged' = [staged EXCEPT ![n] = @ \cup out]
    /\ UNCHANGED <<disk, msgs>>

WithPromise(l, s, b) == [l EXCEPT !.promise[s] = b]
WithVote(l, s, b, v) ==
    [l EXCEPT !.promise[s] = b, !.vote[s] = [bal |-> b, val |-> v]]
WithChosen(l, s, v) == [l EXCEPT !.chosen[s] = v]

-----------------------------------------------------------------------------
\* node_propose (a client's mutation) and the skips of node_tick and
\* node_progress: the owner votes at round zero and asks the others to accept.
\* A slot it has voted in, promised away or learned is behind own_next.
Propose(n, s, v) ==
    /\ owner_of(s) = n
    /\ ledger[n].vote[s] = NoVote
    /\ ledger[n].promise[s] = 0
    /\ ledger[n].chosen[s] = None
    /\ Stage(n, WithVote(ledger[n], s, 0, v),
             {[type |-> "Accept", from |-> n, slot |-> s, bal |-> 0, val |-> v]})

\* node_tick on a suspected owner: a bounded prepare of the slot at a ballot
\* of its own, above every ballot it has promised.
Prepare(n, s, b) ==
    /\ b > ledger[n].promise[s] /\ ballot_node(b, s) = n
    /\ ledger[n].chosen[s] = None
    /\ Stage(n, WithPromise(ledger[n], s, b),
             {[type |-> "Prepare", from |-> n, slot |-> s, bal |-> b]})

\* What node n reports of slot s to the holder of ballot b.
PromiseOf(n, s, b) ==
    [type |-> "Promise", from |-> n, slot |-> s, bal |-> b,
     vote |-> ledger[n].vote[s], chosen |-> ledger[n].chosen[s]]

\* Mutant of OnPrepare: the promise already given is not consulted.
OnPrepareAnyBallot(n, m) ==
    /\ m.type = "Prepare"
    /\ Stage(n, WithPromise(ledger[n], m.slot, m.bal),
             {PromiseOf(n, m.slot, m.bal)})

\* node_step on Prepare; a lower ballot only draws a Nack and changes nothing.
OnPrepare(n, m) ==
    /\ m.type = "Prepare" /\ m.bal > ledger[n].promise[m.slot]
    /\ Stage(n, WithPromise(ledger[n], m.slot, m.bal),
             {PromiseOf(n, m.slot, m.bal)})

\* Mutant of Offer: any reported vote will do.
OfferAnyVote(promises) ==
    IF \A p \in promises : p.vote = NoVote
    THEN {Noop}
    ELSE {p.vote.val : p \in {q \in promises : q.vote # NoVote}}

\* The value a revoker must offer: a reported decision, else the highest
\* reported vote, else the no-op.
Offer(promises) ==
    IF \E p \in promises : p.chosen # None
    THEN {p.chosen : p \in {q \in promises : q.chosen # None}}
    ELSE IF \A p \in promises : p.vote = NoVote
    THEN {Noop}
    ELSE {p.vote.val : p \in {q \in promises :
              \A r \in promises : r.vote.bal <= q.vote.bal}}

\* node_step on the Promise that completes a read quorum (the revoker's own
\* promise counts): the revoker votes for the value it must offer and asks the
\* others to accept it.
Resolve(n, s, b) ==
    /\ b # 0 /\ ballot_node(b, s) = n
    /\ ledger[n].promise[s] = b /\ ledger[n].vote[s].bal < b
    /\ LET others == {m \in msgs : m.type = "Promise" /\ m.slot = s /\ m.bal = b} IN
       \E promises \in SUBSET others :
          /\ Cardinality(promises) + 1 = ReadQuorum
          /\ \E v \in Offer(promises \cup {PromiseOf(n, s, b)}) :
                Stage(n, WithVote(ledger[n], s, b, v),
                      {[type |-> "Accept", from |-> n, slot |-> s, bal |-> b, val |-> v]})

\* Mutant of owner_fast_commit: the own vote is not checked.
FastCommitUnvoted(n, l, m) ==
    /\ m.bal = 0
    /\ ballot_node(m.bal, m.slot) = m.from /\ owner_of(m.slot) = m.from
    /\ m.from # n
    /\ m.val = Noop \/ WriteQuorum = 2

\* owner_fast_commit, evaluated on the ledger after the Accept m was stepped.
\* M2: an owner's round-zero no-op is the only choosable value of its slot.
\* M5: with a write quorum of two, this node's own round-zero vote and the
\* owner's are a quorum.
owner_fast_commit(n, l, m) ==
    /\ m.bal = 0
    /\ ballot_node(m.bal, m.slot) = m.from /\ owner_of(m.slot) = m.from
    /\ m.from # n
    /\ \/ m.val = Noop
       \/ /\ WriteQuorum = 2
          /\ l.vote[m.slot] = [bal |-> m.bal, val |-> m.val]

\* step_batch on one Accept packet: node_step votes and answers unless a
\* higher ballot is promised, then, in the same group and when it has room,
\* the synthesized Commit is stepped too.
OnAccept(n, m) ==
    /\ m.type = "Accept" /\ m.from # n
    /\ LET votes == m.bal >= ledger[n].promise[m.slot]
           l == IF votes THEN WithVote(ledger[n], m.slot, m.bal, m.val) ELSE ledger[n]
           out == IF votes
                  THEN {[type |-> "Accepted", from |-> n, slot |-> m.slot, bal |-> m.bal]}
                  ELSE {}
       IN \/ Stage(n, l, out)
          \/ /\ owner_fast_commit(n, l, m)
             /\ Stage(n, WithChosen(l, m.slot, m.val), out)

\* node_step on the Accepted that completes a write quorum (the proposer's own
\* vote counts): the proposer learns the decision and broadcasts it.
OnAccepted(n, s, b) ==
    /\ ballot_node(b, s) = n /\ ledger[n].vote[s].bal = b
    /\ ledger[n].chosen[s] = None
    /\ LET others == {m.from : m \in {k \in msgs : k.type = "Accepted" /\ k.slot = s
                                                   /\ k.bal = b}} IN
       /\ others # {}
       /\ Cardinality(others \cup {n}) >= WriteQuorum
    /\ LET v == ledger[n].vote[s].val IN
       Stage(n, WithChosen(ledger[n], s, v),
             {[type |-> "Commit", slot |-> s, val |-> v]})

\* node_step on Commit, from the proposer or from serve's replay of history.
OnCommit(n, m) ==
    /\ m.type = "Commit" /\ ledger[n].chosen[m.slot] = None
    /\ Stage(n, WithChosen(ledger[n], m.slot, m.val), {})

\* serve: a node answers a peer's Learn with the decisions it has; only a
\* decision behind the barrier is applied and so may be served.
Serve(n, s) ==
    /\ ledger[n] = disk[n] /\ staged[n] = {}
    /\ disk[n].chosen[s] # None
    /\ msgs' = msgs \cup {[type |-> "Commit", slot |-> s,
                           val |-> disk[n].chosen[s]]}
    /\ UNCHANGED <<ledger, disk, staged>>

\* group_close: one FULL journal barrier covers every staged record; only then
\* do the group's packets reach the queue that pop serves.
GroupClose(n) ==
    /\ ledger[n] # disk[n] \/ staged[n] # {}
    /\ disk' = [disk EXCEPT ![n] = ledger[n]]
    /\ msgs' = msgs \cup staged[n]
    /\ staged' = [staged EXCEPT ![n] = {}]
    /\ UNCHANGED ledger

\* The process dies, or the host is poisoned and reopened, before the barrier
\* of the open group (fault Before_Journal_Commit): recover_ledger rebuilds
\* memory from the journal.  A crash after the barrier loses the packets only;
\* that is GroupClose with those packets never delivered.
Crash(n) ==
    /\ ledger[n] # disk[n] \/ staged[n] # {}
    /\ ledger' = [ledger EXCEPT ![n] = disk[n]]
    /\ staged' = [staged EXCEPT ![n] = {}]
    /\ UNCHANGED <<disk, msgs>>

Next ==
    \E n \in Nodes :
        \/ \E s \in Slots, v \in Proposals : Propose(n, s, v)
        \/ \E s \in Slots, b \in Ballots : Prepare(n, s, b)
        \/ \E m \in msgs : OnPrepare(n, m)
        \/ \E s \in Slots, b \in Ballots : Resolve(n, s, b)
        \/ \E m \in msgs : OnAccept(n, m)
        \/ \E s \in Slots, b \in Ballots : OnAccepted(n, s, b)
        \/ \E m \in msgs : OnCommit(n, m)
        \/ \E s \in Slots : Serve(n, s)
        \/ GroupClose(n)
        \/ Crash(n)

Spec == Init /\ [][Next]_vars

-----------------------------------------------------------------------------
\* Agreement: no two hosts, in memory or in their journals, ever hold different
\* decisions for one slot, whichever way each learned it (quorum of Accepted,
\* Commit, M2 no-op, M5 two-vote quorum) and whatever crashed in between.
Agreement ==
    /\ TypeOK
    /\ \A n1, n2 \in Nodes, s \in Slots :
         LET known(n) == {ledger[n].chosen[s], disk[n].chosen[s]} \ {None}
         IN \A v \in known(n1), w \in known(n2) : v = w

\* A decision behind the barrier rests on votes that no crash can take back:
\* a client mutation on a write quorum of journals that hold it, a no-op on
\* such a quorum or on the owner's own journaled round-zero no-op (M2).
DurableDecisionsRestOnDurableVotes ==
    \A n \in Nodes, s \in Slots :
        LET v == disk[n].chosen[s]
            holders == {k \in Nodes : disk[k].vote[s].val = v}
        IN v # None =>
              \/ Cardinality(holders) >= WriteQuorum
              \/ v = Noop /\ owner_of(s) \in holders

\* What a host has told others it still knows after any crash: a released
\* Promise or Accepted is covered by the promise in its journal, and a released
\* round-zero Accept by its journaled vote at that or a higher ballot.
ReleasedIsDurable ==
    \A m \in msgs :
        /\ m.type \in {"Promise", "Accepted", "Accept"} =>
              disk[m.from].promise[m.slot] >= m.bal
        /\ m.type \in {"Accepted", "Accept"} =>
              disk[m.from].vote[m.slot].bal >= m.bal

\* A journaled decision is never replaced, and promises in the journal never
\* move back: what recovery folds extends what was recovered before.
JournalNeverForgets ==
    [][\A n \in Nodes, s \in Slots :
          /\ disk[n].chosen[s] # None => disk'[n].chosen[s] = disk[n].chosen[s]
          /\ disk'[n].promise[s] >= disk[n].promise[s]
          /\ disk'[n].vote[s].bal >= disk[n].vote[s].bal]_vars
=============================================================================
