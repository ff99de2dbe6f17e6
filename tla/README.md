# SQLodin: verification project

SQLodin replicates one SQLite database over several masters. Every member owns
a share of the slots of one log (slots rotate round the membership), proposes
client mutations in its own slots without a prepare phase, and applies the
decided log in order to its own SQLite file. Applications reach it through a
Python package, and a body of Python tools qualifies every build: campaigns that
kill, restart, back up and migrate real clusters and decide whether the build is
sound. This directory holds TLA+ models of the core, of the package and of the
campaigns, the TLC configurations that check them, and proofs checked by TLAPS.
Every definition is translated from the source named in `PROJECT.json` under
"map"; paths below are relative to the repository.

The consensus core is the library `deps/paxos-odin`, a submodule whose source is
not part of this tree. It is modelled from the way `src/paxos.odin` and
`src/durable` drive it, and marked external in the map.

## 1. The system

| component | state | operations | talks to |
|---|---|---|---|
| consensus (`src/paxos.odin`) | promises, votes, decisions per slot; window above the applied floor | propose, step, tick, progress; `owner_fast_commit` | durable host, synchronously |
| durable host (`src/durable/{host,transition_group,journal,batch,progress,separated,storage}.odin`) | journal database, transition group, released packets, poison flag | turn begin/commit, propose, step batch, pop, outcome, open, close | node (calls), SQLite (two files in format 5, one in format 4), service (turns) |
| identifiers (`src/durable/ids.odin`) | reserved millisecond in the journal, cursor in memory | next_id, reserve_ids | journal |
| SQL engine (`src/engine*.odin`, `transaction.odin`) | tables, `_sqlodin_outcomes`, request sessions, epoch, revision, watermark | apply outcomes (grouped or one by one), look up, retire sessions | host (decided entries), SQLite |
| service (`service/*.odin`) | client connections, peer links, read cohort, write cursor | run loop: receive, admit, poll, read cohorts, route, time out | host (turns), peers (frames over mTLS), clients |
| client library (`languages/python/src/sqlodin/client.py`) | session, sequence, epoch, the one pending write | execute, resolve_pending, query, session_epoch, retire_sessions, request_snapshot | any server, with failover |
| DB-API (`languages/python/src/sqlodin/{dbapi,transaction,parameters}.py`) | staged statements, savepoint marks, the transaction's revision, failed flag | execute, executemany, savepoints, commit, rollback, close | client library; SQLAlchemy above it |
| snapshots and transfer (`src/durable/snapshot_*.odin`, `service/snapshot*.odin`) | the last capture and its worker thread, receipts, the last seal, the incoming image | begin, pin, worker end, receipt, seal, offer, install, cancel | log (barriers and seals are entries), peers, file system |
| generations and retirement (`src/durable/{generation,image}_*.odin`, `service/maintenance.odin`) | catalog (current, previous), image inventory, files | begin and poll compaction, publish, retire | snapshots, file system |
| backup, restore, migration (`src/durable/`) | archives, manifests, redirect files | offline operator commands | file system |
| qualification campaigns (`tools/check_*.py`, `tools/run_*_soak.py`) | process handles, configuration files, counts of acknowledged effects, saved identities, a report | start, kill, write, read, wait, compare, back up, restore, migrate | voters (processes), the package |
| soak supervisors (`tools/native_soak_worker.py`, `tools/qualification_worker.py`) | `server.pid`, `resource.json`, one watch per start, a deadline | start, stop, status, audit, retire; watch | the controller (over SSH), the voter (a child) |

How they interact. A service turn is: `turn_begin`, some host calls (packets
received, writes admitted, ticks), `turn_commit`, then `pop` of the released
packets. Each call runs protocol transitions whose journal records go to an open
SQLite transaction and whose packets and committed slots go to the transition
group; `group_close` commits the journal with a FULL barrier, applies the
entries, and only then publishes the packets. Reads make no journal write: a
cohort of waiting reads asks a read quorum for the highest slot seen and is
answered when the local application has got that far.

What is hard here, and which property speaks about it:

* a message that leaves before its record is on disk (`SentIsDurable`,
  `ReleasedIsDurable`), a decision learned on two votes or on the owner's no-op
  while another node revokes the slot (`Agreement`,
  `DurableDecisionsRestOnDurableVotes`, `JournalNeverForgets`);
* an application database that runs without sync barriers and may lose slots
  already acknowledged (`AcknowledgedSurvives`, `ApplicationBehindJournal`);
* groups shared by calls of different size (`GroupFits`), closed early or late
  (`EntriesContinueApplication`, `StagedPacketsSettle`), recovery at a gap
  (`RecoveryCompletes`);
* SQL that undoes its neighbours in a grouped transaction
  (`GroupingIsInvisible`), requests decided in several slots, reused, retired or
  refused (`ExactlyOnce`, `RetriesAreStable`), revisions that go stale
  (`OptimisticIsolation`);
* reads that must not borrow an older cohort's frontier (`ReadsAreFresh`,
  `FrontierBoundsMembers`), members that leave (`CohortHasMembers`), lost frames
  (`CohortsEnd`);
* writes that are answered, retried elsewhere and decided later
  (`ResultsAreTrue`, `WritesInOrder`, `SlotsBackConnections`);
* snapshots whose images vouch for history that is gone: certificates made of old
  receipts, deletions, replaced stores and restarts (`NewestSealBacked`,
  `GenerationsBacked`, `SealKnown`, `CapturesAreNew`, `CapturesAgree`);
* transactions kept as a flat list of statements with marks (`SavepointsNest`),
  joined into one text (`BodiesSplitBack`), whose commit may be answered, lost,
  retried from a saved identity or overtaken by a retirement (`FatesAreTrue`),
  on a revision that was asked for once (`HistoryExplained`);
* campaigns that must neither condemn a sound build because a voter lags
  (`NoFalseAlarm`) nor pass one that lost or repeated an effect
  (`RecordsAreTrue`), nor leave processes behind (`NothingLeftRunning`), nor wait
  for what nobody does (`CampaignsEnd`);
* remote actions the controller gave up on, that go on (`DirectoryIsExclusive`,
  `VotersExpire`);
* ids over restarts, clock rollback and the end of the 64-bit word
  (`IdsIncrease`, `IdsDistinctAcrossNodes`).

`PROJECT.json` lists each hazard at its source line, including the ones no
property covers yet.

## 2. Modules and the code

**MultiMaster.** `ledger[n]` is the protocol state in memory, `disk[n]` the
journal behind the last barrier, `staged[n]` the messages of the open group,
`msgs` everything ever released (never emptied, so messages are lost, delayed,
duplicated and reordered by not being, or being, received). Actions are the
handlers of the upstream node as the host calls them (`Propose`, `Prepare`,
`OnPrepare`, `Resolve`, `OnAccept`, `OnAccepted`, `OnCommit`), `Serve`,
`GroupClose` and `Crash`. Ours to get right, and translated line by line, are
`owner_fast_commit` with its rules M2 (an owner's round-zero no-op is learned at
once) and M5 (with a write quorum of two the voter and the owner are a quorum)
and the order records, barrier, messages.

**DurableHost.** One host, step by step: `TurnBegin`, `Admit` (any call),
`transition_begin`, `transition_full`, `Transition`, `FastCommit`, `CallEnd`,
`TurnCommit`, `NextIdCloses`, then the steps of `group_close` (`JournalCommit`,
`ApplyEntries`, `ApplyDone`, `Publish`, `Serve`, `CloseDone`), `Pop`,
`Acknowledge`, SQLite's `Checkpoint`, `Poison` at any storage call (a failed
COMMIT may have reached the disk), `Crash` between any two steps, and `Open`,
`RecoverOne`, `RecoverDone`. Records are sequence numbers, a packet is the
number of the last record it rests on, a decision is its slot. `separated`,
chosen at the start, is the storage format: 5 keeps the application in a database of its own
with `synchronous=NORMAL`, whose tail a power loss may take; 4 folds leading
no-ops into the journal transaction (`SkipPrefix`).

**Ids.** `next_id`/`reserve_ids` with u64 arithmetic modulo `WORD`, the wrap of
the last block included; `Restart`, failing reservations, any clock reading.

**Engine.** The log, the committed database, the synced database, and the
entries left over from a group that was given up. `engine_apply_outcome` is the
reference path (one SQLite transaction per entry), `engine_apply_group` the
grouped path with savepoints. SQL is seven statements that succeed or reject in
the ways the code distinguishes: an ordinary constraint, a ROLLBACK conflict
clause that ends the surrounding transaction, a deferred foreign key that fails
at COMMIT, a policy refusal, a syntax error.

**ReadCohort.** One reader with its clients and peers; consensus enters as "who
has a durable vote for which slot". `begin_read_cohort`, `Retry`,
`respond_frontier`, `receive_frontier`, `finish_read_cohort` and `Leave` (with
`release_read`) are the procedures of `service/read_batch.odin` and their callers;
`Reconnect`, `PeerRestart`, `ReaderRestart` are the faults.

**WritePath.** Composes the Python connection, the servers' connection tables
and the engine's request table (`INSTANCE Engine`: the outcome of a slot is what
Engine's reference execution of the decided prefix records). Consensus enters as
"a slot is decided with the value its owner offered or with a no-op". A client
that gives up leaves a connection behind on which the server goes on working.
A slot has one owner, so the value stands for the pair of value and
`origin_node` that `poll_write` compares.

**Snapshot.** All voters of the group with one chosen log of barriers, seals and
no-ops. Per voter: `applied`, the last capture and its worker thread (`worker`),
the pending barrier and seal proposals, the last seal known (`sealed`), the
jobs that set `snapshot_busy` (`compaction`, `transfer`), and the durable part,
the image `inventory`, the complete `images` and the images of the current and
previous generation (`base`, `previous`). Actions: `begin_snapshot`,
`apply_host_entries` (with `snapshot_pin` and `snapshot_observe_seal`),
`snapshot_worker` and its error, `snapshot_progress` and its poisoning, `open`,
`begin_compaction`/`poll_compaction`, `receive_snapshot_offer`,
`snapshot_transfer_install`/`_cancel`, `retire_snapshot_image` and its
interruption. Abstractions: a slot's value is fixed when it is proposed, since
nobody sees it before applying it; client writes are left out, so a transfer
happens only when the offered barrier itself is not applied here; receipts ever
sent form a set, and a certificate uses any part of it; an image is its prefix and
whether it was received; a capture that is done and sealed is forgotten, as no
condition of the code asks for it again; publication is the one FULL transaction
on the catalog; a failed compaction ends the process and so is `open`.

**DbApi** (with **History**). Connections of `dbapi.py` and batches of
`transaction.py` over the native connection of `client.py`, down to single
previews and submissions: `Execute` opens a call, `_begin` asks for the revision,
`Previewed`/`Aborted`/`Refused` end a statement, `commit` submits the list under
the connection's identity, `_resolve` and `UnknownOutcome` are the two ways its
answer can go, `Reconnect` is a process that dies and comes back with or without
the saved identity. The service is what Engine shows of it: `Apply` runs a body
at most once, at its revision and epoch, at any time after it was sent. Each
statement toggles a row of its own, so the database tells which ones ran. The
ghost part (`frames`, `fate`, `history`) is what a caller believes: a nest of
savepoints, what it was told of each statement, and the operations for
`serial_history`, which is the search of `tools/check_transaction_history.py`.

**SqlText.** `_kind`, `prepare` and `_body` as functions on short texts over
fourteen lexical pieces, and SQLite's own splitting of a body as the reference.
It shares a run with DbApi (a behaviour either examines a text or runs
connections) because neither has a state in common with the other.

**Campaigns** and **Qualification.** Campaigns writes each of the qualification
scripts (29 with their options) as a sequence of steps: what it does to the
cluster and what it asserts, in the script's order. Qualification carries the
steps out, in up to three threads. A cluster is a sequence of database states, two
voters that trust each other and share a genesis are a quorum, and a voter
applies at its own pace. The pace is lazy: a directory holds the least and the
most its voter can have applied (`low`, `high`), and whoever looks finds any state
in between. A fenced read moves `low` to the end, a kill freezes the interval, a
local read, a status, a backup or an audit picks from it.

Every write is one effect on a group of rows (`Tables`); `told` is what the script
was told of, and `count` compares, on the groups the script's query covers, what
a fenced read sees with it. Few scripts read everything again after their last
crash: `check_capacity.verify` has no balance, the sum of `check_network_service`
shows no transfer, and so on. What a campaign leaves unread is named with it in
`Scripts`, and `RecordsAreTrue` claims the rest; without any one of those
exceptions TLC finds a loss that the script does not see. `fault` lets the cluster lose an
effect at one kill or repeat one at one retry.

Snapshots are followed as far as scripts depend on them. A barrier is applied in a
step of its own (`Meet`), at which the voter captures, or does not: its earlier
capture is not sealed (`Free`), it is compacting (`MayCompact`), or it replays its
own journal. `Capture` completes its image. `Certify` commits the seal once a
voter with its capture in memory has the receipts of two, `Publish` needs the seal
and the voter's own image, as `drive_maintenance` does, and so does the offline
`compact`. `ScheduleBarrier` is maintenance itself. `checkpoint_step` and `ask`
are the loop of `check_capacity`, which holds its request back while any of the
three voters reports work.

`Exception` is a deadline or an interruption anywhere; `close` is the `finally`
clause, which ends at the first voter whose stop raises (`closed = "raised"`).
Of loops with a count, `Ops` iterations are taken. Left out: the five seconds of
`check_majority.py:81` (a deadline, so an `Exception`), `snapshot_error` (no
capture fails; module Snapshot has those), a barrier or seal whose slot gets
another value. The 64 slots of `check_majority.py:83` are one slot here. That
enough ticks of the packet controller have run before a settled comparison is
assumed (`settle`).

**SoakSupervisor.** One remote host of a soak, for both supervisors
(`kind`). The controller runs its script word by word; each word is an action on
the host, which goes on when the controller has given up on it (`Timeout`) or has
been interrupted. `Popen`, `Opened`, `WritePid`, `Poll`, `save`, `Replace`,
`Finally` are the steps of `watch`, with the temporary file that all watches of
a host share; `Exec`, `Die`, `Vanish` are the kernel's, with the parent-death
signal. The `channel` kind has the SSH link instead (`Connect`, `round`, `Kill`,
`Break`).

**MC modules** only define the small sets the configurations name.

## 3. Runs

| run | instance | checks |
|---|---|---|
| consensus | 3 members, quorums 2/2, one slot, owner and two revokers, groups of 2 messages | `Agreement`, `DurableDecisionsRestOnDurableVotes`, `ReleasedIsDurable`, `JournalNeverForgets` |
| host | both formats, batches of 2 packets, no-ops among the slots, with fairness | `TypeOK`, `SentIsDurable`, `ApplicationBehindJournal`, `AcknowledgedSurvives`, `GroupFits`, `EntriesContinueApplication`, `StagedPacketsSettle`, `RecoveryCompletes` |
| engine | all logs of 4 entries over 15 requests | `GroupingIsInvisible`, `ExactlyOnce`, `RetriesAreStable`, `OptimisticIsolation` |
| ids | two hosts, blocks of 2, 3 milliseconds | `TypeOK`, `IdsIncrease`, `IdsDistinctAcrossNodes` |
| reads | 2 clients, 2 cohorts, one fault | `FrontierBoundsMembers`, `CohortHasMembers`, `ReadsAreFresh` |
| reads_liveness | read quorum 3, an owner's no-op | `CohortsEnd` |
| writes | 1 client with 2 writes and 4 attempts, 2 servers with 2 connections, window 3, 3 slots, one retirement | `ResultsAreTrue`, `WritesInOrder`, `SlotsBackConnections` |
| snapshots | 3 voters, 2 barriers in 4 slots, one fault | `NewestSealBacked`, `GenerationsBacked`, `SealKnown`, `CapturesAreNew` |
| snapshot_stall | 3 voters, 3 barriers in 3 slots, two faults | expected violation of `CapturesAgree` |
| dbapi | 2 connections, bodies of 2 statements, 2 nested savepoints of one name, one retirement; texts of up to 4 pieces | `SavepointsNest`, `FatesAreTrue`, `HistoryExplained`, `BodiesSplitBack` |
| qualification | 29 campaigns, 3 voters, 2 operations per loop, one scheduled barrier per cycle, one fault | `NoFalseAlarm`, `RecordsAreTrue`, `NothingLeftRunning`, `CampaignsEnd` |
| supervisor | both supervisors, 3 starts (creation, a fault, the final recovery) | `DirectoryIsExclusive`, `VotersExpire` |

Type invariants that are not listed are the first conjunct of another invariant
of the run.

**Bounds.** Consensus in one slot does not depend on other slots (no variable
relates two slots), so one slot with every kind of contender is the interesting
case: owner's value, owner's no-op, two revokers that may revoke each other. Two
staged messages let one barrier cover two transitions. For the host, groups of
two records, one message and one request, with transitions of up to two records
and one message, make the room test fail on every resource; three records and two
slots are a group that is full and one that begins after it, with a crash between
and after them. Four log entries are a full group of three plus its
successor, or request, retirement, retry, retry. Two cohorts suffice for a reply
to be stale, one fault for a peer to answer twice or forget what it saw. Two
connections and batches of two (`CHUNK`) let `admit_writes` fill its array exactly,
though never leave a waiting write behind (the proof of `SlotsBackConnections`
holds for every `CHUNK`); with three slots a batch can be cut by the window, a slot be
displaced, and an abandoned connection compete with the client's next attempt;
four attempts are a write, its retry, the next write and its retry. Two barriers
and their two seals are a capture that supersedes another, a generation with a
predecessor, and an image that is retired; three voters are a certificate that one
voter is not part of. A body of two statements is the least that can be joined
wrongly and be rolled back in part; two savepoints of one name are the least for
which the innermost matters; the second connection is there to invalidate the
first one's revision. Four pieces are a word, a mark that opens, one that closes
and a semicolon. The campaigns are straight lines but for their loops, in which
two iterations reach every voter that a longer one would alternate between; one
barrier of automatic maintenance (`MaxAuto`) can be ahead of, behind or in the
place of one that is asked for, and one further round (`MaxExtra`) is a
publication that comes late. In the program maintenance schedules another
barrier after fifteen minutes of changes; the model begins with it when the load
of `check_capacity` is written, and follows no barrier that is scheduled after the checkpoint or the publication which the script waits for.
Three starts are those of a soak with one fault.
`MaxSlot`, `MaxSeq`, `MaxToken`, `MaxFaults`, `MaxIssued`, `MaxSequence`, `MaxAttempts`,
`MaxBarriers`, `MaxSlots`, `MaxNew`, `MaxSavepoints`, `MaxOps`, `MaxSession`,
`MaxEpoch`, `MaxText`, `MaxAuto`, `MaxExtra`, `Ops` and `MaxStarts` cap what the
program leaves unbounded.

**Deadlock** is checked except where the bounded instance really ends: all
slots decided and messages delivered (consensus), log full and applied (engine),
writes used up (writes), barriers and slots used up (snapshots), statements used
up or a text examined (dbapi), the report written (qualification), the run
expired (supervisor). All runs of the core have
three voters with majority quorums; other memberships and quorums, and that the
two-vote rule M5 stays off with them, are covered by the proof of `Agreement`.

**Fairness.** The host is one thread: a call, a close and a recovery that have
begun go on (`WF`), and the run loop ends every turn with `turn_commit` however
many calls it makes (`SF`, since each call disables it for a while). Nothing is
assumed of crashes and storage failures, so `StagedPacketsSettle` excepts a
poisoned host and `RecoveryCompletes` holds once crashes stop. A read cohort
relies on the run loop repeating requests every `FRONTIER_RETRY`, on links
delivering what they do not lose, on live peers answering, and on consensus
deciding slots that were seen (the upstream revocation timers): `WF` of each per
peer and per slot. Link losses and restarts are finite in number (`MaxFaults`).
For the campaigns one `WF` is assumed, of everything together: as long as some
step of the script or of the voters is possible, one is taken; a receipt of a mate
that has lost its capture since (`Certify(FALSE)`) need not have arrived. A
deadline of the script is only ever an `Exception`, which is not fair, so
`CampaignsEnd` says where no deadline is needed: everywhere but behind a voter that has `Missed` the newest barrier. That
case is real: a voter whose worker still copies the image of an earlier barrier,
or that is compacting, passes the next one, which the two others seal, and has no
image to publish; `check_capacity` waits for it. The model has no later barrier to
help; in the program maintenance schedules one after fifteen minutes, within the
script's watchdog of thirty, unless the captures disagree as in `snapshot_stall`,
when none is admitted and only the watchdog ends the wait. For the supervisors the clock, the watches (which sleep two
seconds and look again) and the kernel (which delivers signals) are fair; the
controller, its actions and its SSH sessions are not.

## 4. Findings

`snapshot_pin` (`src/durable/snapshot_worker.odin:63`) returns without a capture
when the host is busy, when the copy of an earlier barrier is running, and when
an earlier capture is finished but not sealed; a host that replays a barrier
in recovery does not capture it either. `specs/generation-catalog.typ` says "every
receiving voter captures that same application prefix" and the comment in
`service/maintenance.odin` "every voter captures it". Run `snapshot_stall`
shows what follows: after two restarts at bad moments three voters hold finished
captures of three prefixes, no two of them agree, no certificate can form, and
`begin_snapshot` answers Backpressure at every voter, so no later barrier
replaces them. Restarting a voter drops its capture and ends the stall. With more
slots and barriers a stall without any restart is reachable too (a voter that
compacts skips a barrier). Data is not at risk; the log is not compacted meanwhile.

Four remarks of less weight, met while modelling and checked by no run of their
own:

* `engine_record_outcome` (`src/engine_outcomes.odin:145`) advances the
  optimistic revision for every applied entry but a no-op, so for session
  retirement too, while the comment on `engine_read_version` says "Revision
  changes only when application SQL applies, never for read barriers or
  duplicate/rejected requests". An optimistic transaction open across a
  retirement is answered Conflict although no row changed.
* `compact_store` (`src/durable/generation_publish.odin:35`) builds the generation
  from this voter's own image, and fails with `.Storage` when its manifest is
  missing. The command advises "Use sqlodin compact NODE.json after a snapshot is
  certified and this voter is stopped" (`cli/compact.odin:11`), but two receipts of
  three certify: a voter that is stopped after the seal and before its worker has
  finished cannot compact. `check_generation_service`, `check_restore_service` and
  `check_session_retirement` assert success at all three voters right after
  `wait_sealed`, so they can fail on a sound build. Qualification reaches this
  (`alarm = "no image"`), and `NoFalseAlarm` excepts that assertion and no other.
* `RemoteWorker.stop` (`tools/run_cluster_soak.py:60`) has nothing to stop when its
  SSH client has ended by itself, and `qualification_worker.audit` ("Offline
  read-only audit") looks for no voter, so an audit after a broken session may
  read the files of a voter that is still being wound up. `native_soak_worker`
  does look (`alive`), and `DirectoryIsExclusive` is about it.
* A watch that is killed between forking its child and the child's request to
  die with its parent leaves a voter nobody ends; the comment on `child_limits`
  ("A killed supervisor must not leave a writer running behind its SSH channel")
  does not except it, `VotersExpire` does.

## 5. Proofs

Eight modules hold the theorems; each extends the module it is about, and each
theorem is for every value of the constants, from the ASSUMEs of that module.
No property below is inductive by itself: the invariant that carries each proof
was first checked by TLC on the run of its module.

**DurableHostProofs** (from `HostAssumption` and `CapacityAssumption`: every
window, capacity, batch and log bound, both formats): `TypeCorrect`,
`NothingSentEarly`, `RecoveryAccepts`, `AcknowledgementsSurvive`,
`EntriesContinue`, `GroupNeverOverflows`. `SentIsDurable` says
nothing of queued packets, `ApplicationBehindJournal` nothing of entries that
are about to be applied. `DurabilityInv` adds what the code keeps between its
steps: the journal never knows more than memory (`JournalInMemory`); after the
barrier and in recovery memory is the journal (`BarrierCrossed`), so whatever is
applied or published then is covered; a poisoned host is inside no operation
(`PoisonedIsIdle`), which is why a COMMIT that failed but reached the disk is
harmless; staged packets rest on staged records (`StagedWork`), released ones on
journaled records (`ReleasedWork`). `EntriesContinue` needs a second invariant on
top of it: known slots reach exactly to the emitted one, and entries are exactly
the slots between the application and it. `GroupFits` needs a third, `WindowInv`:
a node learns only slots of its window, so a journaled decision implies that the
slots a window below it are journaled too, and a group can never be handed more
slots than a window.

**IdsProofs** (from `IdsAssumption`: all widths of the id fields):
`TypeCorrect`, `IdsStrictlyIncrease`, `IdsDistinct`. The invariant `IdsInv` says
that the journal's millisecond bounds every id handed out (`BlockReserved`) and
that the cursor, when it has ids left, is above all of them in the last reserved
block (`CursorInBlock`), the wrapped end 2^64 = 0 included. `OwnNumber`, that each
id is a block base of its host plus an offset, gives distinctness by
uniqueness of quotients.

**MultiMasterProofs** (from `MembersAssumption` and `QuorumAssumption`: any
membership, slots, values and ballots, and any read and write quorums with
ReadQuorum + WriteQuorum > N, the ones for which M5 is off included):
`WorldsTheorem`, `AgreementTheorem`, `ReleasedIsDurableTheorem`,
`DurableDecisionsTheorem`, `JournalNeverForgetsTheorem`. A host acts on memory that is not yet on disk and
stages messages that nobody may see yet, so no invariant of the present ledgers
and released messages alone is inductive: a crash takes memory back, a close
publishes messages at once. `WorldsInv` therefore quantifies over all sets S of
hosts: if the hosts in S closed their groups now and all others crashed, the
resulting ledgers and messages would satisfy `PaxosInv`, the invariant of plain
Paxos (a vote at ballot b is safe at b; a promise reports the highest vote below
it and binds its sender; a decision rests on a quorum of votes or on the owner's
no-op; round zero has one proposal). `GroupClose` and `Crash` only move the present from one
world to another, and every other action is one step of plain Paxos in the
worlds whose S holds the acting host, and a stutter in the others.

**ReadCohortProofs** (from `ReadAssumption`: any membership and intersecting
quorums, any clients, any number of faults): `FreshTheorem`,
`CohortHasMembersTheorem`, `FrontierBoundsMembersTheorem`,
`ReadsAreFreshTheorem`. `FreshInv` follows the write each member must see (`Needed`) while
replies are being counted: `Covers` names a write quorum that voted for it, each
of whose nodes has raised the frontier if it is counted; and tokens keep replies
to an older cohort out (`CohortInv`). When a read quorum has been counted, the
two quorums meet.

**EngineProofs** (from `EngineAssumption` and `RequestAssumption`):
`EngineTheorem`, `GroupingIsInvisibleTheorem`, `ExactlyOnceTheorem`,
`RetriesAreStableTheorem`, `OptimisticIsolationTheorem`, for every set of
requests, every log and every group size. `RequestAssumption` says that decided
entries are the mutations `mutation_validate` lets through (a sequence from 1, a
body that is one of the modelled statements). `EngineInv` says that both the committed and the
synced database are values of the reference execution of the log; the steps of a
group are shown to compute what the reference computes, entry by entry, the
restart of a group that was given up included. What the properties say about
histories is then shown of the reference alone (`Good`, kept by every slot):
the tables never hold more sessions than admitted, what a session was told last
(`Told`) explains every answer the log holds for it, and the revision is the last
slot that changed application state.

**SnapshotProofs** (from `SnapshotAssumption`: any finite set of voters, any
number of barriers, slots and faults): `SnapshotTheorem`,
`NewestSealBackedTheorem`, `GenerationsBackedTheorem`, `SealKnownTheorem`,
`CapturesAreNewTheorem`. `SnapshotInv` holds what no single host can see: a receipt was
sent once its image was complete, and that image goes only when a newer seal is
chosen (`SentInv`); a chosen seal counts such receipts and lies above its prefix
(`LogInv`); workers and jobs hold images of the inventory (`WorkerInv`,
`JobInv`, `InventoryInv`). `SealKnown` compares a host's memory with a replay of the whole log;
the proof replaces the replay by bounds (`KnownSeal`): since a seal lies
above what it seals, the seals a restart skips, those below its base, are older
than the base.

**WritePathProofs** (from `WriteAssumption` and `ValueAssumption`: any servers,
clients, connection tables, windows, attempts and log length; bodies are the
modelled statements and `None` is no value): `WriteTheorem`,
`ResultsAreTrueTheorem`, `WritesInOrderTheorem`, `SlotsBackConnectionsTheorem`.
The properties relate a result to the whole log, while copies of the write it
answers are still in connections, proposals and slots that may yet be decided.
`WriteInv` says that all copies of a write are equal, name the epoch their client
has known since its first write and are not ahead of it (`CopyInv`); that a
client has one write under way and the connection it waits at holds that write
(`ClientInv`); that slots and connections are paired (`SlotsInv`), so that the
outcome `poll_write` reads is of this very write; that the decided prefix names
only epochs known when it was decided (`LogInv`); and that each result was the
outcome of a decided copy (`AnswersInv`). The rest is about the engine and any
log, and is cited from EngineProofs through an INSTANCE: deciding more slots
leaves the outcomes of earlier ones alone (`ReferenceExtends`), an answer
"Applied" has an execution behind it, executions of one session and epoch follow
their sequence numbers, and answers to equal requests agree
(`ReferenceAnswers`). So an "Applied" has exactly one execution, and a
rejection beside an execution would be two answers that disagree.

**DbApiProofs** (from `DbApiAssumption` and `ValueAssumption`: any connections
and savepoint names, every bound on statements, operations, sessions and epochs;
`None` is no value): `DbApiInvariant`, `DbApiTypes`, `FatesAreTrueTheorem`,
`SavepointsNestTheorem`, `HistoryInvariant`, `HistoryExplainedTheorem`.
`FatesAreTrue` says nothing of requests under way, of which copies may still
reach the service. `DbApiInv` says that a statement is in at most one place: one
request, one connection's list; that a request is one number of one session
(`Apart`, `Sent`); that a pending write is the last number its session has used
(`Waiting`, `Submitted`), so a request the service will never run is known by
its number or its epoch; and that the marks of a connection are the lengths of
its outer frames. `HistoryExplained` needs what no variable records: the
revision at which a row became active, the place of each operation and the
order in which they ended. `HistoryInv` therefore asserts that such functions
`when`, `key` and `rank` exist (`Timed`) and each action is shown to extend them:
the statements of a body become active at one revision of their own, the one
after the revision they were previewed at (`Dated`); an operation that returned
saw the rows up to its place, which is the revision its write made or, if it
wrote nothing, the one it began at (`Explained`); operations that had returned
before it have earlier places (`Ordered`). Ordered by place, then the write, then
rank, the history passes every test of `serial_history`, so its search reaches
all operations.

The library's induction theorems cannot be instantiated here, but its theorem
that every well-founded set has a least element can: where a proof goes
along a log or a group (`Reference`, `engine_apply_group`, replays), it assumes a
counterexample and takes the least one. So those proofs do hold for every
length.

Only model-checked: liveness, which is beyond the prover (`StagedPacketsSettle`,
`RecoveryCompletes`, `CohortsEnd`, `CampaignsEnd`, `VotersExpire`); the statement
lexer of `SqlText`, which is recursive operators over data (`BodiesSplitBack`);
the campaigns (`NoFalseAlarm`, `RecordsAreTrue`, `NothingLeftRunning`) and the soak
supervisors (`DirectoryIsExclusive`), whose properties are about fixed scripts of
a few steps on a fixed number of hosts, for which TLC's run is already exhaustive
up to the bounds.

## 6. Not modelled

SQL policy tables, limits and result formatting (sequential, tested directly);
byte codecs, hashing, image formats, TLS (data formats and I/O); command line and
shell; the SQLAlchemy dialect and the search helpers (no state of their own).
Fetching rows, type conversion and the transport of the Python package. Of the
tools: benchmarks and comparisons (`tools/compare_*`, `tools/calibrate_*`,
`tools/benchmark.py`, `tools/measure_bench.py`: times and statistics), builds and the site, preparation of
remote hosts, resource samples, and the terminal tests of `check_cli`. The hash
chain and identity checks of a store are left out of DurableHost: the model's
disks do not corrupt. Garbage collection of a node's window is modelled only
as the floor `applied`. Offline backup, restore, compaction and migration enter
Qualification as the campaigns use them, not with the steps inside the commands.

## 7. Plan

In order of importance:

1. *ServerTurn*: the run loop's incoming buffer, kept suffix under
   back-pressure, released queue and self-addressed packets.
2. *Generation*: the phases of a build with crashes between file system steps,
   the inventory entry before the directory, retirement of directories and of the
   root store; exactly one authoritative store at every instant, and it refines
   the one-step `Publish` of Snapshot.
3. *SnapshotTransfer*: the chunks between offer and installation, over links that
   drop.
4. *HistorySpace*: the admission and transition reserves; an admitted
   transition never runs out of space.
5. The steps inside backup, restore and migration, with crashes between them; the
   host's barrier reads (`reads.odin`).
6. The ticks of the packet controller, so that `settle` needs no assumption.
7. Abstract specifications: a replicated log that WritePath and Engine
   implement (each client's writes as an atomic register of results), and
   DurableHost as an implementation of one atomic "durable step" that MultiMaster's
   `Stage`/`GroupClose`/`Crash` uses.
8. Proofs: `DirectoryIsExclusive` for any script of starts and stops.
