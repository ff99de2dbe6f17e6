----------------------------- MODULE ReadCohort -----------------------------
(***************************************************************************)
(* Linearizable reads of one server (src/service/read_batch.odin).  Reads  *)
(* that wait form a closed cohort; the server then asks its peers for the  *)
(* highest slot each has seen, waits for a read quorum (itself included)   *)
(* and answers the cohort once its own applied prefix reaches the highest  *)
(* reported slot.  No journal write is involved, so everything rests on    *)
(* who is counted, when, and for which cohort.                             *)
(*                                                                         *)
(* Consensus is abstracted (see MultiMaster) to which node has a durable   *)
(* vote for which slot; a write is acknowledged by any node that applied   *)
(* its decided slot.  Links lose their frames when they are re-established *)
(* and nodes restart.                                                      *)
(***************************************************************************)
EXTENDS Integers, FiniteSets

CONSTANTS
    N,              \* members 1..N; the modelled server is Reader
    Reader,
    ReadQuorum, WriteQuorum,
    Clients,        \* client connections of the reader
    Skips,          \* slots decided as an owner's no-op
    MaxSlot,        \* bound on slots
    MaxToken,       \* bound on cohorts between two restarts of the reader
    MAX_QUEUED_FRAMES,  \* frames a link holds
    MaxFaults       \* bound on link losses and restarts

Nodes == 1..N
Peers == Nodes \ {Reader}
Slots == 1..MaxSlot

ASSUME ReadAssumption ==
    /\ N \in Nat \ {0} /\ Reader \in Nodes
    /\ ReadQuorum \in 1..N /\ WriteQuorum \in 1..N /\ ReadQuorum + WriteQuorum > N
    /\ MaxSlot \in Nat /\ MaxToken \in Nat /\ MAX_QUEUED_FRAMES \in Nat /\ MaxFaults \in Nat
    /\ Skips \subseteq Slots

VARIABLES
    voted,          \* voted[n]: slots node n has voted for behind its barrier
    highest_seen,   \* highest_seen[n]: volatile, node_highest_seen
    applied,        \* applied[n]: contiguous applied prefix
    acked,          \* history: the highest write slot acknowledged anywhere
    conn,           \* state of each client connection
    ticket,         \* the cohort each connection belongs to, 0 for none
    need,           \* history: acked when the waiting read was invoked
    read_cohort,    \* token of the active cohort, 0 for none
    frontier_token, frontier_high, frontier_replies, frontier_voters, frontier_ready,
    frontier_replied,   \* per peer link: the token it answered
    requests, replies,  \* frames on the links
    faults

consensus == <<voted, highest_seen, applied, acked>>
reads == <<conn, ticket, need>>
cohort == <<read_cohort, frontier_token, frontier_high, frontier_replies,
            frontier_voters, frontier_ready, frontier_replied>>
links == <<requests, replies>>
vars == <<consensus, reads, cohort, links, faults>>

Tokens == 0..MaxToken

\* Type correctness.
TypeOK ==
    /\ voted \in [Nodes -> SUBSET Slots]
    /\ highest_seen \in [Nodes -> 0..MaxSlot] /\ applied \in [Nodes -> 0..MaxSlot]
    /\ acked \in 0..MaxSlot
    /\ conn \in [Clients -> {"idle", "waiting", "answered"}]
    /\ ticket \in [Clients -> Tokens]
    /\ need \in [Clients -> 0..MaxSlot]
    /\ read_cohort \in Tokens /\ frontier_token \in Tokens
    /\ frontier_high \in 0..MaxSlot /\ frontier_replies \in 0..N
    /\ frontier_voters \subseteq Peers /\ frontier_ready \in BOOLEAN
    /\ frontier_replied \in [Peers -> Tokens]
    /\ requests \subseteq [peer : Peers, token : Tokens]
    /\ replies \subseteq [peer : Peers, token : Tokens, frontier : 0..MaxSlot]
    /\ faults \in 0..MaxFaults

Init ==
    /\ voted = [n \in Nodes |-> {}]
    /\ highest_seen = [n \in Nodes |-> 0] /\ applied = [n \in Nodes |-> 0]
    /\ acked = 0
    /\ conn = [c \in Clients |-> "idle"] /\ ticket = [c \in Clients |-> 0]
    /\ need = [c \in Clients |-> 0]
    /\ read_cohort = 0 /\ frontier_token = 0 /\ frontier_high = 0
    /\ frontier_replies = 0 /\ frontier_voters = {} /\ frontier_ready = FALSE
    /\ frontier_replied = [p \in Peers |-> 0]
    /\ requests = {} /\ replies = {}
    /\ faults = 0

Larger(a, b) == IF a > b THEN a ELSE b
Largest(S) == IF S = {} THEN 0 ELSE CHOOSE x \in S : \A y \in S : y <= x

-----------------------------------------------------------------------------
\* Consensus, as the service sees it: a node votes for a slot behind its
\* barrier, having seen it; it may have seen slots it never votes for.
Vote(n, s) ==
    /\ s \notin voted[n]
    /\ voted' = [voted EXCEPT ![n] = @ \cup {s}]
    /\ highest_seen' = [highest_seen EXCEPT ![n] = Larger(@, s)]
    /\ UNCHANGED <<applied, acked, reads, cohort, links, faults>>

See(n, s) ==
    /\ s > highest_seen[n]
    /\ highest_seen' = [highest_seen EXCEPT ![n] = s]
    /\ UNCHANGED <<voted, applied, acked, reads, cohort, links, faults>>

\* A slot is decided by a write quorum, a no-op by its owner's vote alone.
Decided(s) ==
    \/ Cardinality({n \in Nodes : s \in voted[n]}) >= WriteQuorum
    \/ s \in Skips /\ s \in voted[((s - 1) % N) + 1]

Apply(n) ==
    /\ applied[n] < MaxSlot /\ Decided(applied[n] + 1)
    /\ applied' = [applied EXCEPT ![n] = @ + 1]
    /\ highest_seen' = [highest_seen EXCEPT ![n] = Larger(@, applied[n] + 1)]
    /\ UNCHANGED <<voted, acked, reads, cohort, links, faults>>

\* poll_write at any node: a write is acknowledged once applied there.
Acknowledge(n, s) ==
    /\ s \notin Skips /\ s <= applied[n] /\ s > acked
    /\ acked' = s
    /\ UNCHANGED <<voted, highest_seen, applied, reads, cohort, links, faults>>

-----------------------------------------------------------------------------
\* dispatch of a linearizable query, begin or preview on a free connection.
Invoke(c) ==
    /\ conn[c] # "waiting"
    /\ conn' = [conn EXCEPT ![c] = "waiting"]
    /\ need' = [need EXCEPT ![c] = acked]
    /\ UNCHANGED <<consensus, ticket, cohort, links, faults>>

Frames(p) == Cardinality({m \in requests : m.peer = p} \cup {m \in replies : m.peer = p})

\* send_frontier_requests: to the peers that have not answered; a peer whose
\* output queue is full or that is being sent a snapshot gets none.
send_frontier_requests(peers, token) ==
    /\ \A p \in peers : Frames(p) < MAX_QUEUED_FRAMES
    /\ requests' = requests \cup {[peer |-> p, token |-> token] : p \in peers}

\* begin_read_cohort: membership closes, then the own frontier is observed.
begin_read_cohort ==
    /\ read_cohort = 0 /\ \E c \in Clients : conn[c] = "waiting"
    /\ frontier_token < MaxToken
    /\ frontier_token' = frontier_token + 1
    /\ read_cohort' = frontier_token + 1
    /\ ticket' = [c \in Clients |-> IF conn[c] = "waiting" THEN frontier_token + 1
                                    ELSE ticket[c]]
    /\ frontier_high' = highest_seen[Reader]
    /\ frontier_replies' = 0 /\ frontier_voters' = {}
    /\ frontier_ready' = (ReadQuorum <= 1)
    /\ frontier_replied' = [p \in Peers |-> 0]
    /\ \E peers \in SUBSET Peers : send_frontier_requests(peers, frontier_token + 1)
    /\ UNCHANGED <<consensus, conn, need, replies, faults>>

\* Mutant of Retry: unanswered requests are not repeated.
RetryNever(peers) == FALSE /\ UNCHANGED vars

\* finish_read_cohort before the quorum: repeat the requests after
\* FRONTIER_RETRY.
Retry(peers) ==
    /\ read_cohort # 0 /\ ~frontier_ready
    /\ peers # {} /\ \A p \in peers : frontier_replied[p] # read_cohort
    /\ send_frontier_requests(peers, read_cohort)
    /\ UNCHANGED <<consensus, reads, cohort, replies, faults>>

\* Mutant of respond_frontier: the peer reports its applied prefix.
RespondApplied(m) ==
    /\ requests' = requests \ {m}
    /\ replies' = replies \cup {[peer |-> m.peer, token |-> m.token,
                                 frontier |-> applied[m.peer]]}
    /\ UNCHANGED <<consensus, reads, cohort, faults>>

\* respond_frontier at a peer: the frontier when the request is handled.
respond_frontier(m) ==
    /\ requests' = requests \ {m}
    /\ replies' = replies \cup {[peer |-> m.peer, token |-> m.token,
                                 frontier |-> highest_seen[m.peer]]}
    /\ UNCHANGED <<consensus, reads, cohort, faults>>

\* receive_frontier: a reply to another cohort, a second reply of one peer and
\* a reply after the quorum change nothing.
Counts(m) ==
    /\ read_cohort # 0 /\ m.token = read_cohort
    /\ ~frontier_ready /\ m.peer \notin frontier_voters

receive_frontier(m) ==
    /\ replies' = replies \ {m}
    /\ IF Counts(m)
       THEN /\ frontier_replied' = [frontier_replied EXCEPT ![m.peer] = read_cohort]
            /\ frontier_voters' = frontier_voters \cup {m.peer}
            /\ frontier_high' = Larger(frontier_high, m.frontier)
            /\ frontier_replies' = frontier_replies + 1
            /\ frontier_ready' = (frontier_replies + 1 >= ReadQuorum - 1)
            /\ UNCHANGED <<read_cohort, frontier_token>>
       ELSE UNCHANGED cohort
    /\ UNCHANGED <<consensus, reads, requests, faults>>

\* Mutant of finish_read_cohort: everyone who waits is answered.
FinishEveryone ==
    /\ read_cohort # 0 /\ frontier_ready
    /\ applied[Reader] >= frontier_high
    /\ LET members == {c \in Clients : conn[c] = "waiting"} IN
       /\ conn' = [c \in Clients |-> IF c \in members THEN "answered" ELSE conn[c]]
       /\ need' = [c \in Clients |-> IF c \in members THEN 0 ELSE need[c]]
       /\ ticket' = [c \in Clients |-> 0]
    /\ read_cohort' = 0
    /\ UNCHANGED <<consensus, frontier_token, frontier_high, frontier_replies,
                   frontier_voters, frontier_ready, frontier_replied, links, faults>>

\* finish_read_cohort: every member is answered from one applied prefix.
finish_read_cohort ==
    /\ read_cohort # 0 /\ frontier_ready
    /\ applied[Reader] >= frontier_high
    /\ LET members == {c \in Clients : ticket[c] = read_cohort} IN
       /\ conn' = [c \in Clients |-> IF c \in members THEN "answered" ELSE conn[c]]
       /\ need' = [c \in Clients |-> IF c \in members THEN 0 ELSE need[c]]
       /\ ticket' = [c \in Clients |-> IF c \in members THEN 0 ELSE ticket[c]]
    /\ read_cohort' = 0
    /\ UNCHANGED <<consensus, frontier_token, frontier_high, frontier_replies,
                   frontier_voters, frontier_ready, frontier_replied, links, faults>>

\* Mutant of release_read: nobody retires the cohort.
ReleaseOnly(c) ==
    /\ ticket' = [ticket EXCEPT ![c] = 0]
    /\ UNCHANGED read_cohort

\* release_read: the last member to leave retires the cohort.
release_read(c) ==
    /\ ticket' = [ticket EXCEPT ![c] = 0]
    /\ read_cohort' =
         IF ticket[c] # 0 /\ ticket[c] = read_cohort
            /\ \A d \in Clients \ {c} : ticket[d] # ticket[c]
         THEN 0 ELSE read_cohort

\* drive_connection times the read out, or connection_close drops it.
Leave(c) ==
    /\ conn[c] = "waiting"
    /\ release_read(c)
    /\ conn' = [conn EXCEPT ![c] = "idle"]
    /\ need' = [need EXCEPT ![c] = 0]
    /\ UNCHANGED <<consensus, frontier_token, frontier_high, frontier_replies,
                   frontier_voters, frontier_ready, frontier_replied, links, faults>>

-----------------------------------------------------------------------------
Fault == faults < MaxFaults /\ faults' = faults + 1

LoseLink(p) ==
    /\ requests' = {m \in requests : m.peer # p}
    /\ replies' = {m \in replies : m.peer # p}

\* connection_close of a peer's link, and the new link that replaces it: its
\* frames are lost and its frontier_replied starts at zero.
Reconnect(p) ==
    /\ Fault /\ LoseLink(p)
    /\ frontier_replied' = [frontier_replied EXCEPT ![p] = 0]
    /\ UNCHANGED <<consensus, reads, read_cohort, frontier_token, frontier_high,
                   frontier_replies, frontier_voters, frontier_ready>>

\* node_restore: highest_seen resumes at the ledger.
Resumed(n) == Larger(Largest(voted[n]), applied[n])

PeerRestart(p) ==
    /\ Fault /\ LoseLink(p)
    /\ highest_seen' = [highest_seen EXCEPT ![p] = Resumed(p)]
    /\ frontier_replied' = [frontier_replied EXCEPT ![p] = 0]
    /\ UNCHANGED <<voted, applied, acked, reads, read_cohort, frontier_token, frontier_high,
                   frontier_replies, frontier_voters, frontier_ready>>

\* The reader restarts: tokens count from zero again, on new links.
ReaderRestart ==
    /\ Fault
    /\ requests' = {} /\ replies' = {}
    /\ highest_seen' = [highest_seen EXCEPT ![Reader] = Resumed(Reader)]
    /\ conn' = [c \in Clients |-> "idle"] /\ ticket' = [c \in Clients |-> 0]
    /\ need' = [c \in Clients |-> 0]
    /\ read_cohort' = 0 /\ frontier_token' = 0 /\ frontier_high' = 0
    /\ frontier_replies' = 0 /\ frontier_voters' = {} /\ frontier_ready' = FALSE
    /\ frontier_replied' = [p \in Peers |-> 0]
    /\ UNCHANGED <<voted, applied, acked>>

Next ==
    \/ \E n \in Nodes, s \in Slots : Vote(n, s) \/ See(n, s) \/ Acknowledge(n, s)
    \/ \E n \in Nodes : Apply(n)
    \/ \E c \in Clients : Invoke(c) \/ Leave(c)
    \/ begin_read_cohort
    \/ \E peers \in SUBSET Peers : Retry(peers)
    \/ \E m \in requests : respond_frontier(m)
    \/ \E m \in replies : receive_frontier(m)
    \/ finish_read_cohort
    \/ \E p \in Peers : Reconnect(p) \/ PeerRestart(p)
    \/ ReaderRestart

Spec == Init /\ [][Next]_vars

\* The run loop repeats requests, links deliver what they do not lose, and the
\* members decide and apply every slot that has been seen (see MultiMaster).
Fairness ==
    /\ WF_vars(finish_read_cohort)
    /\ \A p \in Peers :
         /\ WF_vars(Retry({p}))
         /\ WF_vars(\E m \in requests : m.peer = p /\ respond_frontier(m))
         /\ WF_vars(\E m \in replies : m.peer = p /\ receive_frontier(m))
    /\ \A n \in Nodes : WF_vars(Apply(n)) /\ \A s \in Slots : WF_vars(Vote(n, s))

FairSpec == Spec /\ Fairness

-----------------------------------------------------------------------------
\* A linearizable read observes every write that was acknowledged, by any
\* node, before it was invoked: through late, repeated and stale replies,
\* members that leave, links that are re-established and restarts.
ReadsAreFresh ==
    [][\A c \in Clients : conn[c] = "waiting" /\ conn'[c] = "answered" =>
          applied[Reader] >= need[c]]_vars

\* Once the quorum has answered, the frontier bounds every write acknowledged
\* before any member of the cohort was invoked; members that arrive later have
\* no ticket and cannot borrow it.
FrontierBoundsMembers ==
    read_cohort # 0 /\ frontier_ready =>
        \A c \in Clients : ticket[c] = read_cohort => need[c] <= frontier_high

\* No cohort without members: a cohort that everyone left is retired at once,
\* so it cannot hold up the reads that arrive after it, and no connection
\* holds a ticket of a cohort that is over.
CohortHasMembers ==
    /\ TypeOK
    /\ read_cohort # 0 => \E c \in Clients : ticket[c] = read_cohort
    /\ \A c \in Clients : ticket[c] \in {0, read_cohort}

\* A cohort always ends: it is answered or all its members leave, although
\* requests and replies are lost and peers restart in the middle of it.
CohortsEnd == read_cohort # 0 ~> read_cohort = 0
=============================================================================
