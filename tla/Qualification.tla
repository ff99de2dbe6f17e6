---------------------------- MODULE Qualification ----------------------------
(***************************************************************************)
(* Campaigns of the qualification scripts against three voters.  The       *)
(* voters are what the scripts see of them (modules MultiMaster, Engine,   *)
(* Snapshot and ReadCohort check that they deserve it): a cluster commits  *)
(* one sequence of database states, a voter applies it at its own pace,    *)
(* and two voters that trust each other are a quorum.  The scripts are     *)
(* judged both ways: on such a cluster no assertion of theirs may fail,    *)
(* whatever the timing, and on a cluster that loses or repeats an effect   *)
(* they must not report success.                                           *)
(***************************************************************************)
EXTENDS Campaigns, FiniteSets, FiniteSetsExt, Bags, BagsExt, TLC

CONSTANTS
    None,
    MaxAuto,         \* barriers scheduled by maintenance itself, per cycle
    MaxExtra         \* writes of a loop that writes until a generation appears

VARIABLES
    log,             \* database states of each cluster, in commit order
    disk,            \* data directories of each voter
    cfg,             \* configuration file of each voter
    up,              \* the authority a running voter trusts, or None
    orphans,         \* processes whose handle the script has lost
    reg,             \* what the script remembers
    told,            \* what it was told: effects, identities, open identities
    todo,            \* steps left of each thread
    alarm,           \* why an assertion failed, or "none"
    status, closed,  \* its report, and whether it has cleaned up
    fault            \* what the cluster has done wrong

cluster == <<log, disk, cfg, up, orphans>>
script == <<todo, alarm, status, closed>>
vars == <<cluster, reg, told, script, fault>>

Threads == 0..2
Genesis == [v |-> EmptyBag, seen |-> {}, epoch |-> 0, barrier |-> 0, sealed |-> 0]

\* A campaign: its steps, and the groups of rows that no comparison after its last
\* crash reads.
But(steps, unread) == [steps |-> steps, unread |-> unread]
Full(steps) == But(steps, {})
Checked == {"account", "transfer", "counters", "cli"}   \* what checks writes

Scripts ==
    <<But(checks(FALSE), Checked \ {"account"}),
      But(check_python_features, Checked \cup {"embeddings"}),
      But(check_orm_transactions, Checked \cup {"names"}),
      But(check_network_hosts, Tables \ {"progress"}),
      But(check_snapshot_service, {"rows"}), But(check_backup_service, {"search"}),
      But(check_snapshot_catchup(FALSE), {"items"}), But(check_snapshot_catchup(TRUE), {"items"}),
      But(check_restore_service, {"search"}), But(check_migration(TRUE), {"values"}),
      But(check_capacity(FALSE), {"balance"}), But(check_capacity(TRUE), {"balance"}),
      But(check_cli, {"amounts"}),
      Full(check_majority), Full(check_generation_service), Full(check_live_compaction(FALSE)),
      Full(check_live_compaction(TRUE)), Full(check_session_retirement),
      Full(check_legacy_epoch_restore), Full(check_migration(FALSE)), Full(case),
      Full(check_certificate_lifecycle), Full(check_admission), Full(check_resource_load),
      Full(check_saved_recovery), Full(check_transaction_history), Full(exercise),
      Full(run_native_soak), Full(run_soak)>>

Init ==
    /\ log = <<>> /\ disk = [n \in All |-> <<>>]
    /\ cfg = [n \in All |-> [dir |-> "data", ca |-> "ca", ok |-> TRUE, cut |-> FALSE]]
    /\ up = [n \in All |-> None] /\ orphans = {}
    /\ told = [acked |-> EmptyBag, ids |-> {}, open |-> {}]
    /\ \E s \in 1..Len(Scripts) :
         /\ todo = [t \in Threads |-> IF t = 0 THEN Scripts[s].steps ELSE <<>>]
         /\ reg = [ns |-> "network", ca |-> "ca", target |-> 0, frontier |-> 0,
                   images |-> <<>>, maintenance |-> "manual", auto |-> 0, extra |-> 0, published |-> {},
                   full |-> {}, tx |-> <<>>, commits |-> 0, unread |-> Scripts[s].unread]
    /\ alarm = "none" /\ status = "running" /\ closed = "no"
    /\ fault = "none"

-----------------------------------------------------------------------------
\* The cluster

Larger(a, b) == IF a > b THEN a ELSE b

HasDir(n) == cfg[n].dir \in DOMAIN disk[n]
Dir(n) == disk[n][cfg[n].dir]
Log(n) == log[Dir(n).key]
Now(n) == Log(n)[Len(Log(n))]
Mates(n) == {m \in All : /\ up[m] # None /\ up[m] = up[n] /\ Dir(m).key = Dir(n).key
                          /\ (m = n \/ ~(cfg[m].cut \/ cfg[n].cut))}
Quorum(n) == Cardinality(Mates(n)) >= 2

\* The barrier that a voter has yet to deal with: what it does on applying it is a
\* step of its own (Meet), so it has applied nothing beyond.
Unmet(n) == {slot \in Dir(n).met + 1..Len(Log(n)) : Log(n)[slot].barrier = slot}
Reach(n) == IF Unmet(n) = {} THEN Len(Log(n)) ELSE Min(Unmet(n)) - 1

\* A voter applies what is committed at its own pace.  The model does not take
\* those steps: a directory holds the least and the most its voter can have
\* applied, and whoever looks finds something in between.  A voter whose mates
\* have all retired what it needs stays where it is until it installs an image.
Follows(n) == up[n] # None /\ Quorum(n) /\ \E m \in Mates(n) \ {n} : Dir(m).gen <= Dir(n).high
High(n) == IF Follows(n) THEN Larger(Dir(n).high, Reach(n)) ELSE Dir(n).high

\* The directories before a step that changes who follows whom.
Settled ==
    [n \in All |-> IF HasDir(n) THEN [disk[n] EXCEPT ![cfg[n].dir].high = High(n)] ELSE disk[n]]

\* These voters end: a capture in memory is gone, and what the journal may hold
\* of the log is replayed at the next start without capturing anything.
Ended(voters) ==
    [n \in All |-> IF n \notin voters \/ up[n] = None THEN Settled[n]
                   ELSE [Settled[n] EXCEPT ![cfg[n].dir] = [@ EXCEPT !.pin = 0, !.replay = Len(Log(n))]]]

\* The voter is found at a position.
Seen(n, at) ==
    disk' = [disk EXCEPT ![n][cfg[n].dir] =
               [@ EXCEPT !.low = at, !.high = IF up[n] = None THEN at ELSE @]]

\* Voters that serve the script's cluster name to its credentials.
Serving(on) == {n \in on : up[n] = reg.ca /\ up[n] # None /\ Dir(n).key[1] = reg.ns}

\* Of those, the voters that can answer for a quorum.
Acting(on) == {n \in Serving(on) : Quorum(n) /\ High(n) = Len(Log(n))}

\* A fenced operation at one of these endpoints, which applies what is committed
\* first, and one that commits an entry.  Of several endpoints the script does
\* not know which one has answered.
Fence(on) ==
    /\ IF Cardinality(on) = 1 THEN \A n \in on : Seen(n, Len(Log(n))) ELSE UNCHANGED disk
    /\ UNCHANGED log
Commit(on, n, state) ==
    /\ log' = [log EXCEPT ![Dir(n).key] = Append(@, state)]
    /\ IF on = {n} THEN Seen(n, Len(Log(n)) + 1) ELSE UNCHANGED disk

\* The state a fenced operation finds.
One(on) == CHOOSE n \in Acting(on) : TRUE

\* What the voters do by themselves is followed until the campaign has ended.
Background == status = "running" /\ UNCHANGED <<cfg, up, orphans, reg, told, script, fault>>

\* A voter too far behind installs the generation of a mate.
Install(n) ==
    /\ up[n] # None /\ Quorum(n) /\ ~Follows(n)
    /\ Dir(n).pin \in Dir(n).images \cup {0}
    /\ \E m \in Mates(n) :
         /\ Dir(m).gen > Dir(n).high
         /\ disk' = [disk EXCEPT ![n][cfg[n].dir] =
                       [@ EXCEPT !.low = Dir(m).gen, !.high = Dir(m).gen, !.gen = Dir(m).gen,
                                 !.met = Larger(@, Dir(m).gen), !.pin = 0, !.images = {Dir(m).gen}]]
    /\ UNCHANGED log /\ Background

\* begin_snapshot is admitted, and snapshot_pin captures, if the capture before
\* has ended and its seal is known.
Free(n) == Dir(n).pin = 0 \/ (Dir(n).pin \in Dir(n).images /\ Log(n)[Reach(n)].sealed >= Dir(n).pin)

\* A generation that automatic maintenance may be building: no capture begins.
Publishable(n, slot) == slot > Dir(n).gen /\ slot \in Dir(n).images
MayCompact(n) == reg.maintenance = "auto" /\ Publishable(n, Log(n)[Reach(n)].sealed)

\* A voter applies the next barrier.  It captures its state if it is free and not
\* compacting, and if it has not found the barrier in its own journal.
Meet(n) ==
    /\ Follows(n) /\ Unmet(n) # {} /\ High(n) = Reach(n)
    /\ LET slot == Min(Unmet(n)) IN
       \E pin \in (IF Free(n) THEN {slot} ELSE {Dir(n).pin})
                  \cup (IF MayCompact(n) \/ slot <= Dir(n).replay THEN {Dir(n).pin} ELSE {}) :
          disk' = [disk EXCEPT ![n][cfg[n].dir] =
                     [@ EXCEPT !.low = slot, !.high = slot, !.met = slot, !.pin = pin]]
    /\ UNCHANGED log /\ Background

\* The worker has verified the image and written its manifest.
Capture(n) ==
    /\ up[n] # None /\ Dir(n).pin \notin Dir(n).images \cup {0}
    /\ disk' = [disk EXCEPT ![n][cfg[n].dir].images = @ \cup {Dir(n).pin}]
    /\ UNCHANGED log /\ Background

\* A voter that keeps its capture in memory has the receipts of two, its own among
\* them: the seal is committed.  A mate that still has its capture sends the receipt
\* every second; of one that has lost it since, the receipt may have come before.
Certify(kept) ==
  \E n \in Acting(All) : \E m \in All \ {n} :
    LET slot == Dir(n).pin IN
    /\ slot > Now(n).sealed /\ slot \in Dir(n).images
    /\ HasDir(m) /\ Dir(m).key = Dir(n).key /\ slot \in Dir(m).images
    /\ kept <=> m \in Mates(n) /\ Dir(m).pin = slot
    /\ Commit(All, n, [Now(n) EXCEPT !.sealed = slot])
    /\ Background

\* The first state that knows of a seal of this slot or a later one.
SealAt(n, slot) == CHOOSE i \in 1..Len(Log(n)) :
                     Log(n)[i].sealed >= slot /\ \A j \in 1..i - 1 : Log(n)[j].sealed < slot

\* Automatic maintenance at the voter with no connected one before it: a barrier,
\* when there is nothing to publish.
ScheduleBarrier ==
  reg.auto > 0 /\ status = "running" /\ \E n \in Acting(All) :
    /\ \A m \in Mates(n) : n <= m
    /\ Free(n) /\ ~Publishable(n, Now(n).sealed)
    /\ Commit(All, n, [Now(n) EXCEPT !.barrier = Len(Log(n)) + 1])
    /\ reg' = [reg EXCEPT !.auto = @ - 1]
    /\ UNCHANGED <<cfg, up, orphans, told, script, fault>>

\* ... and the publication of the newest seal that the voter knows, if it has an
\* image of it and is not capturing another.  The new host has no capture.
Publish(n) ==
    /\ reg.maintenance = "auto" /\ up[n] # None /\ Publishable(n, Now(n).sealed)
    /\ Dir(n).pin \in Dir(n).images \cup {0}
    /\ High(n) >= SealAt(n, Now(n).sealed)
    /\ LET slot == Now(n).sealed IN
       disk' = [Settled EXCEPT ![n][cfg[n].dir] =
                  [@ EXCEPT !.low = Larger(@, SealAt(n, slot)), !.gen = slot, !.pin = 0,
                            !.images = {i \in @ : i >= slot}]]
    /\ UNCHANGED log /\ Background

Effect(state, table) == [state EXCEPT !.v = BagAdd(@, table)]
EffectOf(state, id, table) == [Effect(state, table) EXCEPT !.seen = @ \cup {id}]

\* A write that its client gave up on is committed after all.
ChooseOpen(id, table) ==
  Acting(All) # {} /\ LET n == One(All) IN
    /\ id \notin Now(n).seen
    /\ Commit(All, n, EffectOf(Now(n), id, table)) /\ Background

-----------------------------------------------------------------------------
\* The steps.  One that asserts something ends the campaign when it is false.
Judge(t, assertion, reason) ==
    /\ todo' = IF assertion THEN [todo EXCEPT ![t] = Tail(@)] ELSE [u \in Threads |-> <<>>]
    /\ alarm' = IF assertion THEN "none" ELSE reason
    /\ status' = IF assertion THEN status ELSE "failed"
    /\ UNCHANGED closed
Expect(t, assertion) == Judge(t, assertion, "assertion")

Continue(t) == todo' = [todo EXCEPT ![t] = Tail(@)] /\ UNCHANGED <<alarm, status, closed>>

\* Cluster.start: the handle of a process that is still running is lost, and
\* the new one finds the directory locked.
Launch(t, n) ==
    LET good == up[n] = None /\ HasDir(n) /\ cfg[n].ok IN
    /\ up' = [up EXCEPT ![n] = IF good THEN cfg[n].ca ELSE None]
    /\ orphans' = IF up[n] = None THEN orphans ELSE orphans \cup {n}
    /\ Expect(t, good)

start(t, n) == Launch(t, n) /\ disk' = Settled /\ UNCHANGED <<log, cfg, reg, told, fault>>

MakeDir(n, dir, d) == disk' = [disk EXCEPT ![n] = (dir :> d) @@ @]
NewDir(key) == [key |-> key, low |-> 1, high |-> 1, gen |-> 0, met |-> 0, pin |-> 0, images |-> {}, replay |-> 0]

create(t, n) ==
    /\ up[n] = None /\ ~HasDir(n)
    /\ LET key == <<reg.ns, 0>> IN
       /\ log' = IF key \in DOMAIN log THEN log ELSE log @@ (key :> <<Genesis>>)
       /\ MakeDir(n, cfg[n].dir, NewDir(key))
    /\ up' = [up EXCEPT ![n] = cfg[n].ca]
    /\ Continue(t)
    /\ UNCHANGED <<cfg, orphans, reg, told, fault>>

\* Cluster.stop kills the process.  In a faulty run an acknowledged effect may
\* be gone from then on.
stop(t, n) ==
    /\ up' = [up EXCEPT ![n] = None]
    /\ \/ UNCHANGED <<log, fault>>
       \/ /\ fault = "none" /\ up[n] # None
          /\ \E table \in BagToSet(Now(n).v) :
               log' = [log EXCEPT ![Dir(n).key] = Append(@, [Now(n) EXCEPT !.v = BagRemove(@, table)])]
          /\ fault' = "forget"
    /\ reg' = [reg EXCEPT !.full = @ \ {n}]
    /\ disk' = Ended({n}) /\ Continue(t)
    /\ UNCHANGED <<cfg, orphans, told>>

terminate(t, n) ==
    /\ up' = [up EXCEPT ![n] = None]
    /\ disk' = Ended({n}) /\ Expect(t, up[n] # None)
    /\ UNCHANGED <<log, cfg, orphans, reg, told, fault>>

Silent == UNCHANGED <<cluster, reg, told, fault>>
Looks == UNCHANGED <<log, cfg, up, orphans, reg, told, fault>>
Fenced(on) == Fence(on) /\ UNCHANGED <<cfg, up, orphans, reg, told, fault>>

\* Commands that have to be refused.
recreate(t, n) == Expect(t, up[n] = None /\ HasDir(n)) /\ Silent
refused_start(t, n) == Expect(t, up[n] = None /\ ~cfg[n].ok) /\ Silent
locked(t, n) == Expect(t, up[n] # None) /\ Silent
rejected(t, n, ca) == Expect(t, up[n] # ca) /\ Silent
no_backup(t, n, image) == Expect(t, image \in DOMAIN reg.images) /\ Silent

\* A voter alone neither acknowledges a write nor serves a fenced read.
no_quorum(t, n) == Expect(t, ~(n \in Serving(All) /\ Quorum(n))) /\ Silent

minority(t, n, id, table) ==
    /\ Expect(t, ~(n \in Serving(All) /\ Quorum(n)))
    /\ told' = [told EXCEPT !.open = @ \cup {<<id, table>>}]
    /\ UNCHANGED <<cluster, reg, fault>>

\* The voter's disk fails under a write: it stops without an answer.
storage_fault(t, n, id) ==
    /\ n \in Acting({n})
    /\ up' = [up EXCEPT ![n] = None]
    /\ told' = [told EXCEPT !.open = @ \cup {<<id, "rows">>}]
    /\ disk' = Ended({n}) /\ Continue(t)
    /\ UNCHANGED <<log, cfg, orphans, reg, fault>>

\* Fenced operations at one of the endpoints.
fenced_write(t, on, table) ==
    /\ Acting(on) # {} /\ Commit(on, One(on), Effect(Now(One(on)), table))
    /\ told' = [told EXCEPT !.acked = BagAdd(@, table)]
    /\ Continue(t)
    /\ UNCHANGED <<cfg, up, orphans, reg, fault>>

\* An update that changes no value.
touch(t, on) ==
    /\ Acting(on) # {} /\ Commit(on, One(on), Now(One(on)))
    /\ Continue(t)
    /\ UNCHANGED <<cfg, up, orphans, reg, told, fault>>

\* A new client, which a voter with no client slot left turns away.
ready_step(t, n) == n \in Acting({n}) \ reg.full /\ Continue(t) /\ Fenced({n})

\* Two bags hold as many effects on each of these groups.
Same(read, a, b) == \A table \in read : CopiesIn(table, a) = CopiesIn(table, b)

count(t, on, read) ==
    Acting(on) # {} /\ Expect(t, Same(read, Now(One(on)).v, told.acked)) /\ Fenced(on)

\* resolve_pending of a saved identity: a repeated one has no effect, in a
\* faulty run it may have one.
resolve(t, on, id, epoch, table) ==
    Acting(on) # {} /\ LET n == One(on) IN
        /\ LET fresh == id \notin Now(n).seen IN
           \/ /\ fresh /\ Commit(on, n, EffectOf(Now(n), id, table)) /\ UNCHANGED fault
           \/ /\ ~fresh /\ Fence(on) /\ UNCHANGED fault
           \/ /\ ~fresh /\ fault = "none"
              /\ Commit(on, n, Effect(Now(n), table)) /\ fault' = "twice"
        /\ told' = [acked |-> IF id \in told.ids THEN told.acked ELSE BagAdd(told.acked, table),
                    ids |-> told.ids \cup {id}, open |-> told.open \ {<<id, table>>}]
        /\ Expect(t, epoch = Now(n).epoch)
        /\ UNCHANGED <<cfg, up, orphans, reg>>

expired_step(t, on, id, epoch) ==
    Acting(on) # {} /\ Expect(t, epoch # Now(One(on)).epoch) /\ Fenced(on)

epoch_step(t, on, epoch) ==
    Acting(on) # {} /\ Expect(t, Now(One(on)).epoch = epoch) /\ Fenced(on)

\* retire_sessions: repeating the last retirement is harmless, an older one is
\* a conflict (result -1).
retire(t, on, epoch, result) ==
    Acting(on) # {} /\ LET n == One(on) IN
        /\ IF Now(n).epoch = epoch
           THEN Commit(on, n, [Now(n) EXCEPT !.epoch = @ + 1, !.seen = {}])
           ELSE Fence(on)
        /\ Expect(t, result = IF Now(n).epoch \in {epoch, epoch + 1} THEN epoch + 1 ELSE -1)
        /\ UNCHANGED <<cfg, up, orphans, reg, told, fault>>

\* An optimistic transaction begins with a read; its commit, or a later read in
\* it, is a conflict when the database has changed since.
begin(t, x) ==
    /\ Acting(All) # {} /\ Fence(All)
    /\ reg' = [reg EXCEPT !.tx = (x :> Now(One(All)).v) @@ @]
    /\ Continue(t)
    /\ UNCHANGED <<cfg, up, orphans, told, fault>>

Outcome(x, n) == IF reg.tx[x] = Now(n).v THEN "ok" ELSE "conflict"

commit(t, x, on, outcome, table) ==
    Acting(on) # {} /\ LET n == One(on) IN
        /\ IF Outcome(x, n) = "ok"
           THEN /\ Commit(on, n, Effect(Now(n), table))
                /\ told' = [told EXCEPT !.acked = BagAdd(@, table)]
                /\ reg' = [reg EXCEPT !.commits = @ + 1]
           ELSE Fence(on) /\ UNCHANGED <<told, reg>>
        /\ Expect(t, outcome \in {Outcome(x, n), "either"})
        /\ UNCHANGED <<cfg, up, orphans, fault>>

reread(t, x, outcome) ==
    Acting(All) # {} /\ Expect(t, outcome = Outcome(x, One(All))) /\ Fenced(All)

\* Of transactions that ran at the same time one has committed.
progress(t) ==
    /\ Expect(t, reg.commits > 0)
    /\ reg' = [reg EXCEPT !.commits = 0]
    /\ UNCHANGED <<cluster, told, fault>>

\* A write whose reply is lost, and one that is sent and not waited for.
lost(t, on, id, table) ==
    /\ Acting(on) # {} /\ Commit(on, One(on), EffectOf(Now(One(on)), id, table))
    /\ told' = [told EXCEPT !.open = @ \cup {<<id, table>>}]
    /\ Continue(t)
    /\ UNCHANGED <<cfg, up, orphans, reg, fault>>
submit(t, id) ==
    /\ told' = [told EXCEPT !.open = @ \cup {<<id, "rows">>}]
    /\ Continue(t)
    /\ UNCHANGED <<cluster, reg, fault>>

\* A campaign that resumes another takes over the rows it finds.
adopt(t, on) ==
    /\ Acting(on) # {} /\ Fence(on)
    /\ told' = [told EXCEPT !.acked = Now(One(on)).v]
    /\ Continue(t)
    /\ UNCHANGED <<cfg, up, orphans, reg, fault>>

\* request_snapshot: a busy voter is passed over until one admits it.
Barrier(on) ==
    \E n \in Acting(on) :
        /\ Free(n)
        /\ Commit(All, n, [Now(n) EXCEPT !.barrier = Len(Log(n)) + 1])
        /\ reg' = [reg EXCEPT !.target = Len(Log(n)) + 1]
snapshot(t, on) == Barrier(on) /\ Continue(t) /\ UNCHANGED <<cfg, up, orphans, told, fault>>

\* wait_sealed polls the status of every voter; one that is down ends it.
wait_for_seal(t, nodes) ==
    IF nodes \subseteq Serving(All)
    THEN /\ \A n \in nodes : /\ Now(n).sealed >= reg.target
                              /\ High(n) >= SealAt(n, reg.target)
         /\ disk' = [n \in All |-> IF n \notin nodes THEN disk[n]
                                   ELSE [disk[n] EXCEPT ![cfg[n].dir].low =
                                           Larger(@, SealAt(n, reg.target))]]
         /\ Continue(t) /\ Looks
    ELSE Expect(t, FALSE) /\ Silent

\* Local status of a voter: what it has applied is for it to say.
Look(t, n, P(_)) ==
    \E at \in Dir(n).low..High(n) : Seen(n, at) /\ Expect(t, P(at)) /\ Looks

status_step(t, n) == Expect(t, n \in Serving(All)) /\ Silent
local_read(t, n, read) ==
    Look(t, n, LAMBDA at : n \in Serving(All) /\ Same(read, Log(n)[at].v, told.acked))
has_seal(t, n) == Look(t, n, LAMBDA at : Log(n)[at].sealed >= reg.target)
reached(t, n) == Look(t, n, LAMBDA at : at >= reg.frontier)
has_generation(t, n) == Expect(t, Dir(n).gen >= reg.target) /\ Silent

caught_up(t, n) ==
    /\ n \in Serving(All) /\ Dir(n).gen >= reg.target /\ High(n) >= reg.frontier
    /\ Seen(n, Larger(Dir(n).low, reg.frontier)) /\ Continue(t) /\ Looks

\* No packet is left.  That whoever can follow has applied everything by then, also
\* where the controller has run no further tick before it compares, is assumed.
settle(t) ==
    /\ disk' = [n \in All |-> IF up[n] = None THEN disk[n]
                              ELSE [disk[n] EXCEPT ![cfg[n].dir].low = High(n)]]
    /\ Continue(t) /\ Looks

\* The voters report one applied prefix.
same_prefix(t, on) ==
    /\ Expect(t, \A m, n \in on : Dir(m).low = Len(Log(m)) /\ Len(Log(m)) = Len(Log(n)))
    /\ Silent

\* Every voter has published the generation asked for.
generations(t, on) ==
    on \subseteq Serving(All) /\ (\A n \in on : Dir(n).gen >= reg.target) /\ Continue(t) /\ Silent

\* Status values the script keeps.
Remember(t, r) == reg' = r /\ Continue(t) /\ UNCHANGED <<cluster, told, fault>>

frontier(t, on) ==
    \E n \in Serving(on) : \E at \in Dir(n).low..High(n) :
        /\ Seen(n, at) /\ reg' = [reg EXCEPT !.frontier = at]
        /\ Continue(t) /\ UNCHANGED <<log, cfg, up, orphans, told, fault>>
\* The most that these voters have applied, and whether it is beyond what was kept.
lag(t, on) ==
    LET most(bound(_)) == Max({bound(n) : n \in on}) IN
    \E prefix \in most(LAMBDA n : Dir(n).low)..most(High) :
        /\ Expect(t, on \subseteq Serving(All) /\ prefix > reg.frontier)
        /\ reg' = [reg EXCEPT !.frontier = prefix]
        /\ UNCHANGED <<cluster, told, fault>>
generation(t, n) == n \in Serving(All) /\ Remember(t, [reg EXCEPT !.target = Dir(n).gen])
next_generation(t, on) == \E n \in Serving(on) : 
    Remember(t, [reg EXCEPT !.target = Dir(n).gen + 1, !.auto = MaxAuto])

\* checkpoint: the most that any voter has applied has to be covered.  A snapshot
\* is asked for unless some voter reports a capture or a seal above its generation;
\* one that maintenance began may do as well.
required(t) ==
    \E n \in Serving(All) : \E at \in Dir(n).low..High(n) :
        /\ \A m \in All : Dir(m).low <= at
        /\ Remember(t, [reg EXCEPT !.frontier = at, !.target = 0])
\* What a voter reports that has applied this much.
Working(n, at) == Larger(Dir(n).pin, Log(n)[at].sealed) > Dir(n).gen
WaitsForMaintenance(t, on) ==   \* mutant: never asks for a snapshot itself
    (\A n \in on : Dir(n).gen >= reg.frontier) /\ Continue(t) /\ Silent
checkpoint_step(t, on) ==
    \/ /\ \A n \in on : Dir(n).gen >= (IF reg.target = 0 THEN reg.frontier ELSE reg.target)
       /\ Remember(t, [reg EXCEPT !.auto = 0])
    \/ /\ reg.target = 0 /\ \A n \in on : ~Working(n, Dir(n).low)
       /\ todo' = [todo EXCEPT ![t] = <<<<"ask", on>>>> \o @]
       /\ UNCHANGED <<alarm, status, closed>> /\ Silent

\* The request itself, when maintenance may have begun something since; one that
\* every voter refuses as busy is repeated unless a voter is at work by then.
ask(t, on) ==
    \/ Barrier(on) /\ Continue(t) /\ UNCHANGED <<cfg, up, orphans, told, fault>>
    \/ /\ \A n \in Acting(on) : ~Free(n)
       /\ \E n \in on : Working(n, High(n))
       /\ Continue(t) /\ Silent

\* The loop that writes until every voter was seen to have published; after
\* MaxExtra more rounds the model waits for it instead.
poll(t, n) ==
    /\ n \in Serving(All)
    /\ reg.extra < MaxExtra \/ Dir(n).gen >= reg.target
    /\ Remember(t, [reg EXCEPT !.published = IF Dir(n).gen >= reg.target THEN @ \cup {n} ELSE @])
published(t, on, round) ==
    \/ on \subseteq reg.published /\ Remember(t, [reg EXCEPT !.published = {}, !.extra = 0, !.auto = 0])
    \/ /\ ~(on \subseteq reg.published) /\ reg.extra < MaxExtra
       /\ reg' = [reg EXCEPT !.extra = @ + 1]
       /\ todo' = [todo EXCEPT ![t] = round \o @]
       /\ UNCHANGED <<cluster, told, alarm, status, closed, fault>>

-----------------------------------------------------------------------------
\* Offline commands on the directory of a stopped voter.  compact needs the seal
\* and the voter's own image of the sealed state.
compact(t, n) ==
    \E at \in Dir(n).low..Dir(n).high :
        LET sealed == Log(n)[at].sealed
            certified == up[n] = None /\ sealed > Dir(n).gen
            good == certified /\ sealed \in Dir(n).images
        IN
        /\ disk' = [Settled EXCEPT ![n][cfg[n].dir] =
                      [@ EXCEPT !.low = at, !.high = at, !.gen = IF good THEN sealed ELSE @]]
        /\ Judge(t, good, IF certified THEN "no image" ELSE "assertion") /\ Looks

\* backup remembers the cut and what had been acknowledged when it was made.
backup(t, n, image) ==
    \E at \in Dir(n).low..Dir(n).high :
        /\ Expect(t, up[n] = None /\ image \notin DOMAIN reg.images)
        /\ reg' = [reg EXCEPT !.images = (image :> [state |-> Log(n)[at], acked |-> told.acked]) @@ @]
        /\ Seen(n, at)
        /\ UNCHANGED <<log, cfg, up, orphans, told, fault>>

image_step(t, image) ==
    Expect(t, Same(Tables, reg.images[image].state.v, reg.images[image].acked)) /\ Silent

\* An audit reads the files of voters that were stopped, wherever each got to;
\* an effect that a fault has lost is in none of them.
audit(t, on) ==
    LET held(n) == {Log(n)[at].v : at \in Dir(n).low..Dir(n).high}
                   \cup (IF fault = "none" THEN {} ELSE {Now(n).v})
    IN
    /\ Expect(t, \A n \in on : up[n] = None /\ held(n) = {told.acked})
    /\ Silent

\* restore: the image is the first state of a new cluster.
restore(t, n, image) ==
    LET key == <<reg.ns, BagCardinality(reg.images[image].state.v)>>
        first == [reg.images[image].state EXCEPT !.barrier = 0, !.sealed = 0]
    IN
    /\ log' = IF key \in DOMAIN log THEN log ELSE log @@ (key :> <<first>>)
    /\ MakeDir(n, cfg[n].dir, NewDir(key))
    /\ Expect(t, up[n] = None /\ ~HasDir(n))
    /\ UNCHANGED <<cfg, up, orphans, reg, told, fault>>

migrate(t, n, dir) ==
    /\ MakeDir(n, dir, Dir(n))
    /\ Expect(t, up[n] = None /\ dir \notin DOMAIN disk[n])
    /\ UNCHANGED <<log, cfg, up, orphans, reg, told, fault>>

rename(t, n, from, to) ==
    /\ disk' = [disk EXCEPT ![n] = (to :> @[from]) @@ [d \in DOMAIN @ \ {from} |-> @[d]]]
    /\ Continue(t)
    /\ UNCHANGED <<log, cfg, up, orphans, reg, told, fault>>

\* A configuration file is written; the running process does not read it again.
config(t, n, c) ==
    /\ cfg' = [cfg EXCEPT ![n] = c]
    /\ Continue(t)
    /\ UNCHANGED <<log, disk, up, orphans, reg, told, fault>>

\* The controller that carries the packets of a voter cuts it off, or not.
Partition(t, n, cut) ==
    /\ cfg' = [cfg EXCEPT ![n].cut = cut]
    /\ disk' = Settled /\ Continue(t)
    /\ UNCHANGED <<log, up, orphans, reg, told, fault>>

-----------------------------------------------------------------------------
Fork(t, one, two) ==
    /\ todo' = [todo EXCEPT ![t] = Tail(@), ![1] = one, ![2] = two]
    /\ UNCHANGED <<alarm, status, closed>> /\ Silent

Join(t) == todo[1] = <<>> /\ todo[2] = <<>> /\ Continue(t) /\ Silent

\* An argument that a step may leave out.
Table(s, i) == IF Len(s) < i THEN "rows" ELSE s[i]
Read(s, i) == IF Len(s) < i THEN Tables ELSE s[i]

Step(t) ==
    /\ status = "running" /\ todo[t] # <<>>
    /\ LET s == Head(todo[t]) IN
       \/ s[1] = "create" /\ create(t, s[2])
       \/ s[1] = "start" /\ start(t, s[2])
       \/ s[1] = "stop" /\ stop(t, s[2])
       \/ s[1] = "terminate" /\ terminate(t, s[2])
       \/ s[1] = "recreate" /\ recreate(t, s[2])
       \/ s[1] = "refused_start" /\ refused_start(t, s[2])
       \/ s[1] = "locked" /\ locked(t, s[2])
       \/ s[1] = "rejected" /\ rejected(t, s[2], s[3])
       \/ s[1] = "no_backup" /\ no_backup(t, s[2], s[3])
       \/ s[1] = "no_quorum" /\ no_quorum(t, s[2])
       \/ s[1] = "minority" /\ minority(t, s[2], s[3], Table(s, 4))
       \/ s[1] = "fault" /\ storage_fault(t, s[2], s[3])
       \/ s[1] = "write" /\ fenced_write(t, s[2], Table(s, 3))
       \/ s[1] = "touch" /\ touch(t, s[2])
       \/ s[1] = "ready" /\ ready_step(t, s[2])
       \/ s[1] = "count" /\ count(t, s[2], Read(s, 3))
       \/ s[1] = "resolve" /\ resolve(t, s[2], s[3], s[4], Table(s, 5))
       \/ s[1] = "expired" /\ expired_step(t, s[2], s[3], s[4])
       \/ s[1] = "epoch" /\ epoch_step(t, s[2], s[3])
       \/ s[1] = "retire" /\ retire(t, s[2], s[3], s[4])
       \/ s[1] = "snapshot" /\ snapshot(t, s[2])
       \/ s[1] = "sealed" /\ wait_for_seal(t, s[2])
       \/ s[1] = "status" /\ status_step(t, s[2])
       \/ s[1] = "local" /\ local_read(t, s[2], Read(s, 3))
       \/ s[1] = "has_seal" /\ has_seal(t, s[2])
       \/ s[1] = "has_generation" /\ has_generation(t, s[2])
       \/ s[1] = "reached" /\ reached(t, s[2])
       \/ s[1] = "caught_up" /\ caught_up(t, s[2])
       \/ s[1] = "frontier" /\ frontier(t, s[2])
       \/ s[1] = "lag" /\ lag(t, s[2])
       \/ s[1] = "generation" /\ generation(t, s[2])
       \/ s[1] = "next_generation" /\ next_generation(t, s[2])
       \/ s[1] = "poll" /\ poll(t, s[2])
       \/ s[1] = "published" /\ published(t, s[2], s[3])
       \/ s[1] = "compact" /\ compact(t, s[2])
       \/ s[1] = "backup" /\ backup(t, s[2], s[3])
       \/ s[1] = "image" /\ image_step(t, s[2])
       \/ s[1] = "restore" /\ restore(t, s[2], s[3])
       \/ s[1] = "migrate" /\ migrate(t, s[2], s[3])
       \/ s[1] = "rename" /\ rename(t, s[2], s[3], s[4])
       \/ s[1] = "config" /\ config(t, s[2], [cfg[s[2]] EXCEPT !.dir = s[3], !.ok = TRUE])
       \/ s[1] = "misconfigure" /\ config(t, s[2], [cfg[s[2]] EXCEPT !.ok = FALSE])
       \/ s[1] = "renew" /\ config(t, s[2], [cfg[s[2]] EXCEPT !.ca = "renewed"])
       \/ s[1] = "credentials" /\ Remember(t, [reg EXCEPT !.ca = "renewed"])
       \/ s[1] = "namespace" /\ Remember(t, [reg EXCEPT !.ns = s[2]])
       \/ s[1] = "auto" /\ Remember(t, [reg EXCEPT !.maintenance = "auto"])
       \/ s[1] = "schedule" /\ Remember(t, [reg EXCEPT !.auto = MaxAuto])
       \/ s[1] = "fill" /\ Remember(t, [reg EXCEPT !.full = @ \cup {s[2]}])
       \/ s[1] = "release" /\ Remember(t, [reg EXCEPT !.full = @ \ {s[2]}])
       \/ s[1] = "busy" /\ Expect(t, s[2] \in reg.full) /\ Silent
       \/ s[1] = "begin" /\ begin(t, s[2])
       \/ s[1] = "commit" /\ commit(t, s[2], s[3], s[4], Table(s, 5))
       \/ s[1] = "reread" /\ reread(t, s[2], s[3])
       \/ s[1] = "progress" /\ progress(t)
       \/ s[1] = "lost" /\ lost(t, s[2], s[3], Table(s, 4))
       \/ s[1] = "submit" /\ submit(t, s[2])
       \/ s[1] = "adopt" /\ adopt(t, s[2])
       \/ s[1] = "settle" /\ settle(t)
       \/ s[1] = "same_prefix" /\ same_prefix(t, s[2])
       \/ s[1] = "audit" /\ audit(t, s[2])
       \/ s[1] = "generations" /\ generations(t, s[2])
       \/ s[1] = "required" /\ required(t)
       \/ s[1] = "checkpoint" /\ checkpoint_step(t, s[2])
       \/ s[1] = "ask" /\ ask(t, s[2])
       \/ s[1] = "isolate" /\ Partition(t, s[2], TRUE)
       \/ s[1] = "heal" /\ Partition(t, s[2], FALSE)
       \/ s[1] = "fork" /\ Fork(t, s[2], s[3])
       \/ s[1] = "join" /\ Join(t)

\* report.update(complete=True, passed=True) after the last step.
Pass ==
    /\ status = "running" /\ \A t \in Threads : todo[t] = <<>>
    /\ status' = "passed"
    /\ UNCHANGED <<cluster, reg, told, todo, alarm, closed, fault>>

\* A deadline passes, a connection breaks or the operator interrupts.
Exception ==
    /\ fault = "none" /\ status = "running"
    /\ status' = "failed" /\ todo' = [t \in Threads |-> <<>>]
    /\ UNCHANGED <<cluster, reg, told, alarm, closed, fault>>

\* The finally clause: Cluster.close stops the voters one after the other, and ends
\* at the first whose stop raises (a wait or an ssh command that fails).
close ==
    /\ status \in {"passed", "failed"} /\ closed = "no"
    /\ \E last \in {3} \cup {n \in 0..2 : up[n + 1] # None} :
         /\ up' = [n \in All |-> IF n <= last THEN None ELSE up[n]]
         /\ disk' = Ended(1..last)
         /\ closed' = IF last = 3 THEN "clean" ELSE "raised"
    /\ UNCHANGED <<log, cfg, orphans, reg, told, todo, alarm, status, fault>>

\* What happens as long as the machines run at all.
Progress ==
    \/ \E t \in Threads : Step(t)
    \/ \E n \in All : Meet(n) \/ Capture(n) \/ Publish(n) \/ Install(n)
    \/ Certify(TRUE) \/ ScheduleBarrier \/ Pass \/ close

Next ==
    \/ Progress \/ Exception \/ Certify(FALSE)
    \/ \E open \in told.open : ChooseOpen(open[1], open[2])

Spec == Init /\ [][Next]_vars
LiveSpec == Spec /\ WF_vars(Progress)

-----------------------------------------------------------------------------
TypeOK ==
    /\ status \in {"running", "passed", "failed"} /\ fault \in {"none", "forget", "twice"}
    /\ \A n \in All : \A d \in DOMAIN disk[n] :
         LET dir == disk[n][d] IN
         /\ dir.key \in DOMAIN log
         /\ {dir.low, dir.high} \subseteq 1..Len(log[dir.key])
         /\ dir.gen \in 0..Larger(dir.low, dir.high)
         /\ up[n] = None \/ cfg[n].dir # d => dir.low <= dir.high

\* On a cluster that keeps its promises no assertion of a campaign fails,
\* whatever the pace of the voters, the interleaving of the script's threads and
\* the late fate of writes that were given up: the scripts read behind a fence
\* before they compare, back up only what they have fenced, and wait where a
\* voter may lag.  One assertion can fail on a sound build and is excepted: that
\* compact succeeds right after the seal.  Two voters make a seal, and one that is
\* stopped before its own image is complete has nothing to compact to.
NoFalseAlarm == TypeOK /\ (fault = "none" => alarm \in {"none", "no image"})

\* A campaign reports success only if the database holds exactly the effects it
\* was told of, on all the rows but those it names as unread: a cluster that loses
\* one at a crash, or repeats one at a retry, is caught before the report is
\* written.
RecordsAreTrue ==
    status = "passed" =>
        \E n \in All : Dir(n).key[1] = reg.ns /\ Same(Tables \ reg.unread, Now(n).v, told.acked)

\* After a Cluster.close that raised nothing no voter is left running, however the
\* campaign ended: no step starts a voter over a process whose handle it then loses.
NothingLeftRunning == closed = "clean" => orphans = {} /\ \A n \in All : up[n] = None

\* A voter has gone past the newest barrier without what it takes: a capture in
\* memory until the seal is known, its own image from then on.
Missed(n) ==
    LET slot == Now(n).barrier IN
    /\ Dir(n).gen < slot /\ slot <= Dir(n).met
    /\ IF Now(n).sealed < slot THEN Dir(n).pin # slot ELSE slot \notin Dir(n).images

\* Every campaign comes to an end, unless a voter has missed the newest barrier
\* for good: nothing else that it waits for (a seal, a generation, a voter that
\* catches up, a snapshot admitted after a busy one) depends on a voter it has
\* stopped or on a request nobody makes.
CampaignsEnd == <>[](status = "running" => \E n \in Serving(All) : Missed(n))
=============================================================================
