------------------------------ MODULE Campaigns ------------------------------
(***************************************************************************)
(* The qualification scripts in tools/: what each one does to a cluster of *)
(* three voters and what it asserts, as a sequence of steps that module    *)
(* Qualification carries out.  A step is a tuple of its name and what it   *)
(* acts on.  Every write is one effect on a group of rows ("rows" if the   *)
(* step names none); "count" asserts that a fenced read of the groups it   *)
(* names (of all of them if it names none) sees exactly the effects        *)
(* acknowledged so far.  Loops over the number of operations asked for on  *)
(* the command line run Ops times.                                         *)
(***************************************************************************)
EXTENDS Integers, Sequences, SequencesExt

CONSTANT Ops         \* --operations and other repetitions

All == {1, 2, 3}

\* Rows that some comparison of a script reads and another one does not.
Tables == {"rows", "account", "transfer", "counters", "cli", "first", "search", "items", "values",
           "balance", "documents", "embeddings", "parents", "names", "progress", "amounts", "one"}

\* for node in (1, 2, 3)
ForEach(Steps(_)) == Steps(1) \o Steps(2) \o Steps(3)
Repeat(n, Steps(_)) == FlattenSeq([i \in 1..n |-> Steps(i)])
Times(n, step) == [i \in 1..n |-> step]

\* Cluster.start, Cluster.stop and the loops over the three voters.
Create == ForEach(LAMBDA n : <<<<"create", n>>>>)
Start == ForEach(LAMBDA n : <<<<"start", n>>>>)
Stop == ForEach(LAMBDA n : <<<<"stop", n>>>>)

\* check_majority.ready: a fresh read at the voter succeeds.
ready(n) == <<<<"ready", n>>>>
Ready == ForEach(ready)
Fresh == Create \o Ready

\* A fenced read of these groups at every voter once it is ready.
CountAll(read) == ForEach(LAMBDA n : ready(n) \o <<<<"count", {n}, read>>>>)
RestartUnread(read) == Stop \o Start             \* mutant: nothing is read after the restart
RestartRunning(read) == Start \o CountAll(read)   \* mutant: the voters were not stopped
Restart(read) == Stop \o Start \o CountAll(read)

\* wait_sealed
wait_sealed(nodes) == <<<<"sealed", nodes>>>>

\* wait_caught_up: voter 3 has the generation and the frontier asked for, then
\* serves a fresh read.
wait_caught_up == <<<<"caught_up", 3>>, <<"ready", 3>>>>

-----------------------------------------------------------------------------
\* check_network_service

cli_checks == <<<<"status", 1>>, <<"write", {1}, "cli">>, <<"count", {1}, {"cli"}>>>>

security_checks == Times(3, <<"rejected", 1, "rogue">>) \o <<<<"count", All, {"account"}>>>>

\* Writers of different voters at the same time; each reads what it wrote.
concurrent_checks ==
    LET writer(n) == Repeat(Ops, LAMBDA i : <<<<"write", {n}, "counters">>, <<"ready", n>>>>) IN
    <<<<"write", All, "counters">>, <<"fork", writer(1), writer(2)>>, <<"join">>,
      <<"count", All, {"counters"}>>>>

\* SIGTERM ends a voter; its directory cannot be created a second time.
lifecycle_checks ==
    <<<<"terminate", 1>>, <<"recreate", 1>>, <<"start", 1>>, <<"count", {1}, {"account"}>>>>

\* The sum that is compared after the restart does not show the transfer between
\* two accounts, and counters and cli_test are not read again.
checks(remote) ==
    Create \o (IF remote THEN <<>> ELSE cli_checks)
    \o <<<<"write", All, "account">>, <<"count", All, {"account"}>>>>
    \o ForEach(LAMBDA n : <<<<"write", {n}, "account">>>>)
    \o <<<<"count", All, {"account"}>>, <<"write", All, "transfer">>, <<"count", All, {"account", "transfer"}>>>>
    \o security_checks \o concurrent_checks
    \o ForEach(LAMBDA n : <<<<"resolve", {n}, "one", 0, "account">>>>) \o <<<<"count", All, {"account"}>>>>
    \o <<<<"epoch", {1}, 0>>, <<"stop", 2>>, <<"stop", 3>>,
         <<"minority", 1, "three", "account">>, <<"no_quorum", 1>>, <<"local", 1, {"account"}>>,
         <<"start", 2>>, <<"start", 3>>, <<"resolve", All, "three", 0, "account">>,
         <<"count", All, {"account", "transfer"}>>>>
    \o Restart({"account"}) \o (IF remote THEN <<>> ELSE lifecycle_checks)

\* check_majority: with each voter away in turn the two others write and read,
\* and move on by more than a window (here, by a slot).
check_majority ==
    Fresh \o <<<<"write", All>>>>
    \o ForEach(LAMBDA victim :
         LET survivors == SetToSortSeq(All \ {victim}, <)
             operation(i) == LET n == survivors[((i - 1) % 2) + 1] IN
                             <<IF i = 1 THEN <<"write", {n}>> ELSE <<"count", {n}>>>>
         IN  <<<<"frontier", {victim}>>, <<"stop", victim>>>> \o Repeat(Ops, operation)
             \o <<<<"lag", All \ {victim}>>, <<"start", victim>>>> \o ready(victim)
             \o <<<<"count", {victim}>>, <<"reached", victim>>>>)
    \o Restart(Tables)

\* After the second outage one row is read.
check_snapshot_service ==
    Fresh \o Times(2, <<"write", All>>) \o <<<<"snapshot", All>>>>
    \o Repeat(Ops, LAMBDA i : <<<<"write", {(i % 3) + 1}>>>>)
    \o wait_sealed(All) \o Stop \o Start
    \o ForEach(LAMBDA n : ready(n) \o <<<<"has_seal", n>>, <<"count", {n}>>>>)
    \o <<<<"stop", 3>>, <<"snapshot", {1, 2}>>, <<"write", {1, 2}, "first">>>> \o wait_sealed({1, 2})
    \o <<<<"start", 3>>>> \o ready(3) \o <<<<"count", {3}, {"first"}>>>>

\* The search table is read in the backup only.
check_backup_service ==
    Fresh \o <<<<"write", {1}>>, <<"write", {1}, "search">>, <<"count", {1}, {"rows"}>>, <<"locked", 1>>,
      <<"stop", 1>>, <<"backup", 1, "backup">>, <<"no_backup", 1, "backup">>,
      <<"write", {2, 3}>>, <<"count", {2, 3}, {"rows"}>>, <<"image", "backup">>, <<"start", 1>>>>
    \o ready(1) \o <<<<"count", {1}, {"rows"}>>>>

check_generation_service ==
    Fresh \o <<<<"write", All>>>>
    \o Repeat(2, LAMBDA cycle :
         Repeat(Ops, LAMBDA i : <<<<"write", {(i % 3) + 1}>>>>)
         \o <<<<"snapshot", All>>>> \o wait_sealed(All) \o <<<<"locked", 1>>>>
         \o ForEach(LAMBDA n : <<<<"stop", n>>, <<"compact", n>>, <<"start", n>>>> \o ready(n)
                               \o <<<<"has_generation", n>>, <<"count", {n}>>>>))
    \o Restart(Tables) \o ForEach(LAMBDA n : <<<<"write", {n}>>>>)

\* Voter 3 is away while the others move past it twice; with --slow-kib writes
\* continue while it installs an image.  The last comparison sums the visits; how
\* many items there are is compared before the restart.
check_snapshot_catchup(slow) ==
    Fresh \o <<<<"write", All>>, <<"count", {3}>>, <<"stop", 3>>, <<"write", {1, 2}, "items">>>>
    \o Repeat(2, LAMBDA cycle :
         Times(Ops, <<"write", {1, 2}>>) \o <<<<"snapshot", {1, 2}>>>> \o wait_sealed({1, 2})
         \o Repeat(2, LAMBDA n : <<<<"stop", n>>, <<"compact", n>>, <<"start", n>>>> \o ready(n)
                                 \o <<<<"has_generation", n>>>>))
    \o (IF slow THEN Repeat(2, LAMBDA n : <<<<"stop", n>>, <<"start", n>>>> \o ready(n))
                     \o <<<<"fork", Times(Ops, <<"write", {1, 2}>>), <<>>>>>>
        ELSE <<>>)
    \o <<<<"start", 3>>, <<"join">>, <<"frontier", {1, 2}>>>> \o wait_caught_up
    \o <<<<"has_generation", 3>>, <<"count", {3}>>, <<"write", {3}>>>> \o Restart({"rows"})

\* Automatic maintenance; with --scheduled the barriers are not asked for but
\* come by themselves.  Each cycle writes (once here, the loop below goes on) and
\* then writes until both voters were seen to have published a new generation.
check_live_compaction(scheduled) ==
    LET round == <<<<"poll", 1>>, <<"write", {1}>>, <<"poll", 2>>, <<"write", {2}>>>> IN
    <<<<"auto">>>> \o Fresh \o Times(2, <<"write", All>>)
    \o <<<<"count", {3}>>, <<"stop", 3>>>>
    \o Repeat(2, LAMBDA cycle :
         (IF scheduled THEN <<<<"next_generation", {1, 2}>>>> ELSE <<>>)
         \o <<<<"write", {1, 2}>>>>
         \o (IF scheduled THEN <<>> ELSE <<<<"snapshot", {1, 2}>>>>)
         \o round \o <<<<"published", {1, 2}, round>>>>)
    \o <<<<"generation", 1>>, <<"frontier", {1}>>, <<"start", 3>>>> \o wait_caught_up
    \o <<<<"count", {3}>>, <<"write", {3}>>>> \o Restart(Tables)

-----------------------------------------------------------------------------
\* The restored voter's configuration: a new directory of a new cluster.
Restored(n, dir, image) == <<<<"config", n, dir>>, <<"restore", n, image>>>>

\* The acknowledged cut: a fenced read at the voter that is then backed up.
CutUnfenced(n, read) == <<>>   \* mutant: what the voter has applied by itself
Cut(n, read) == <<<<"count", {n}, read>>>>

\* check_restore_service.no_quorum is the step of that name.  The search and
\* vector tables are read once the repaired cluster is complete, not later.
check_restore_service ==
    Fresh \o <<<<"write", {1}>>, <<"write", {1}, "search">>,
         <<"stop", 3>>, <<"rename", 3, "data", "lost">>, <<"resolve", {1}, "ab", 0>>, <<"count", {1}, {"rows"}>>,
         <<"stop", 1>>, <<"backup", 1, "older">>, <<"start", 1>>>> \o ready(1)
    \o <<<<"write", {2}>>>> \o Cut(1, {"rows"})
    \o <<<<"stop", 1>>, <<"backup", 1, "backup">>, <<"stop", 2>>, <<"namespace", "recovered">>>>
    \o ForEach(LAMBDA n : Restored(n, "restored", IF n = 3 THEN "older" ELSE "backup"))
    \o Start \o ready(1) \o ready(2)
    \o <<<<"no_quorum", 3>>, <<"resolve", {2}, "ab", 0>>, <<"count", {2}, {"rows"}>>, <<"stop", 3>>,
         <<"rename", 3, "lost", "data">>, <<"config", 3, "data">>, <<"start", 3>>, <<"no_quorum", 3>>,
         <<"count", {1, 2}, {"rows"}>>, <<"stop", 3>>>>
    \o Restored(3, "repaired", "backup") \o <<<<"start", 3>>>>
    \o ForEach(LAMBDA n : ready(n) \o <<<<"write", {n}>>, <<"count", {n}, {"search"}>>>>)
    \o <<<<"snapshot", {1}>>>> \o wait_sealed(All)
    \o ForEach(LAMBDA n : <<<<"stop", n>>, <<"compact", n>>, <<"start", n>>>> \o ready(n))
    \o Restart({"rows"}) \o <<<<"resolve", {3}, "ab", 0>>, <<"count", {3}, {"rows"}>>>>

expired(n, id, epoch) == <<<<"expired", {n}, id, epoch>>>>

check_session_retirement ==
    Fresh \o Times(2, <<"write", All>>)
    \o <<<<"resolve", {1}, "old", 0>>, <<"stop", 3>>, <<"retire", {1}, 0, 1>>, <<"retire", {1}, 0, 1>>>>
    \o expired(2, "old", 0)
    \o <<<<"resolve", {2}, "current", 1>>, <<"retire", {1}, 0, 1>>, <<"resolve", {1}, "current", 1>>,
         <<"write", {2}>>, <<"count", {2}>>, <<"retire", {2}, 1, 2>>, <<"retire", {2}, 0, -1>>>>
    \o expired(2, "current", 1)
    \o <<<<"start", 3>>>> \o ForEach(LAMBDA n : ready(n) \o <<<<"epoch", {n}, 2>>, <<"write", {n}>>>>)
    \o <<<<"snapshot", {1}>>>> \o wait_sealed(All) \o Stop
    \o ForEach(LAMBDA n : <<<<"compact", n>>>>) \o Start \o Ready
    \o expired(3, "old", 0) \o expired(3, "current", 1)
    \o <<<<"touch", {3}>>, <<"count", {3}>>, <<"write", {1}>>, <<"retire", {1}, 2, 3>>,
         <<"expired", {1}, "shell", 2>>, <<"write", {1}>>, <<"resolve", {1}, "kept", 3>>>> \o Cut(1, Tables)
    \o <<<<"stop", 1>>, <<"backup", 1, "backup">>, <<"stop", 2>>, <<"stop", 3>>, <<"namespace", "recovered">>>>
    \o ForEach(LAMBDA n : Restored(n, "restored", "backup")) \o Start \o Ready
    \o expired(2, "old", 0) \o expired(2, "current", 1)
    \o <<<<"resolve", {3}, "kept", 3>>, <<"count", {3}>>, <<"epoch", {3}, 3>>>>

check_legacy_epoch_restore ==
    Fresh \o Times(2, <<"write", All>>) \o <<<<"resolve", {1}, "ab", 0>>>> \o Cut(1, Tables)
    \o <<<<"stop", 1>>, <<"backup", 1, "backup">>, <<"stop", 2>>, <<"stop", 3>>, <<"namespace", "recovered">>>>
    \o ForEach(LAMBDA n : Restored(n, "restored", "backup")) \o Start \o Ready
    \o <<<<"resolve", {3}, "ab", 0>>, <<"count", {3}>>, <<"retire", {3}, 0, 1>>,
         <<"expired", {2}, "ab", 0>>, <<"write", {1}>>, <<"count", {1}>>>>
    \o Stop \o Start \o ForEach(LAMBDA n : ready(n) \o <<<<"epoch", {n}, 1>>, <<"count", {n}>>>>)

\* Every voter is migrated while all are down; with --old-binary a first set of
\* copies is abandoned before the source is used again.  The values it leaves
\* there are compared after the migration; at the end rows are counted.
check_migration(old) ==
    Fresh \o <<<<"write", All>>>> \o Repeat(Ops, LAMBDA i : <<<<"write", {(i % 3) + 1}>>>>)
    \o <<<<"locked", 1>>>> \o Stop
    \o (IF old THEN ForEach(LAMBDA n : <<<<"migrate", n, "abandoned">>>>) \o Start
                    \o ForEach(LAMBDA n : ready(n) \o <<<<"count", {n}>>, <<"write", {n}, "values">>>>) \o Stop
        ELSE <<>>)
    \o ForEach(LAMBDA n : <<<<"migrate", n, "format5">>, <<"config", n, "format5">>>>)
    \o Start \o CountAll(Tables) \o ForEach(LAMBDA n : <<<<"write", {n}>>>>) \o Restart({"rows"})

\* The voter with the failing disk stops before it acknowledges; the same
\* identity succeeds elsewhere, once.
case ==
    Fresh \o Times(2, <<"write", {1}>>) \o ForEach(LAMBDA n : <<<<"count", {n}>>>>)
    \o <<<<"stop", 1>>, <<"start", 1>>>> \o ready(1)
    \o <<<<"fault", 1, "ef">>, <<"resolve", {2}, "ef", 0>>, <<"count", {2}>>, <<"start", 1>>>> \o ready(1)
    \o <<<<"resolve", {1}, "ef", 0>>, <<"count", {1}>>>> \o Restart(Tables)

check_certificate_lifecycle ==
    Fresh \o Times(2, <<"write", All>>) \o <<<<"resolve", {1}, "cd", 0>>, <<"rejected", 1, "expired">>,
      <<"stop", 1>>, <<"misconfigure", 1>>, <<"refused_start", 1>>, <<"write", {2, 3}>>,
      <<"refused_start", 1>>, <<"config", 1, "data">>, <<"start", 1>>>> \o ready(1)
    \o <<<<"stop", 2>>, <<"stop", 3>>, <<"status", 1>>, <<"no_quorum", 1>>, <<"stop", 1>>>>
    \o ForEach(LAMBDA n : <<<<"renew", n>>>>) \o <<<<"credentials">>>> \o Start \o Ready
    \o Times(2, <<"rejected", 1, "ca">>) \o <<<<"resolve", {3}, "cd", 0>>, <<"count", {3}>>>>
    \o ForEach(LAMBDA n : <<<<"write", {n}>>>>) \o Restart(Tables)

-----------------------------------------------------------------------------
\* Every client slot of a voter taken: a further client is told it is busy.
Saturate == ForEach(LAMBDA n : <<<<"fill", n>>, <<"busy", n>>>>)

check_admission ==
    Fresh \o Saturate \o <<<<"write", {1}>>>> \o ForEach(LAMBDA n : <<<<"write", {n}>>>>)
    \o <<<<"stop", 3>>, <<"write", {1}>>, <<"write", {2}>>, <<"count", {2}>>,
         <<"release", 3>>, <<"start", 3>>>> \o ready(3)
    \o <<<<"count", {3}>>, <<"write", {3}>>, <<"count", {1}>>, <<"count", {2}>>, <<"release", 1>>>>
    \o ready(1) \o <<<<"count", {1}>>>>

\* check_resource_load.worker: one of the workers asks for a snapshot.
worker(n, request_snapshot) ==
    <<<<"write", {n}>>>> \o (IF request_snapshot THEN <<<<"snapshot", {n}>>>> ELSE <<>>)

\* check_resource_load.campaign and the orderly end of the voters in its main.
check_resource_load ==
    <<<<"auto">>>> \o Fresh \o <<<<"write", All>>>> \o Saturate
    \o <<<<"fork", worker(1, TRUE), worker(2, FALSE)>>, <<"join">>, <<"write", {1}>>>>
    \o ForEach(LAMBDA n : <<<<"count", {n}>>>>) \o <<<<"generations", All>>>>
    \o ForEach(LAMBDA n : <<<<"terminate", n>>>>)

\* check_capacity.verify compares ids, row counts and payloads, not the balances;
\* checkpoint: a snapshot that covers what the voters have applied, their own or
\* one that is asked for.
Verified(read) == ForEach(LAMBDA n : <<<<"count", {n}, read>>>>)
verify == Verified({"rows"})
checkpoint == <<<<"required">>, <<"checkpoint", All>>>>

\* retained_cluster: a campaign that was interrupted after its load, and one
\* that resumes it with the number of rows it finds.
check_capacity(resume) ==
    <<<<"auto">>>> \o Fresh \o <<<<"write", All>>>>
    \o (IF resume THEN Times(Ops, <<"write", All>>) \o verify \o Stop \o Start \o Ready
                       \o <<<<"adopt", All>>>> \o verify
        ELSE <<>>)
    \o Times(Ops, <<"write", All>>) \o verify \o <<<<"schedule">>>> \o checkpoint
    \o ForEach(LAMBDA n : <<<<"write", {n}, "balance">>, <<"ready", n>>>>)
    \o Stop \o Start \o Ready \o verify

\* copy_data refuses the directory of a running voter; the copies recover in a
\* cluster of their own, whose voters are compared with each other and then with
\* the load's own record of its transfers.
copy_data == ForEach(LAMBDA n : <<<<"migrate", n, "copy">>, <<"config", n, "copy">>>>)

\* audit_replicas and the audits of the soaks: the files of voters that were
\* stopped hold the same rows.
audit_replicas == <<<<"audit", All>>>>
check_saved_recovery ==
    Fresh \o Times(2, <<"write", All>>) \o Stop \o copy_data \o Start \o Ready \o Stop \o audit_replicas

-----------------------------------------------------------------------------
\* Optimistic transactions: one begins with a read, and commits if nothing has
\* changed since.
Transaction(x, table) == <<<<"begin", x>>, <<"commit", x, All, "ok", table>>>>
Conflict(table) == <<<<"begin", "a">>, <<"begin", "b">>, <<"commit", "a", All, "ok", table>>,
                     <<"commit", "b", All, "conflict", table>>>>
RolledBack(x, read) == <<<<"begin", x>>, <<"count", All, read>>>>

\* A reply lost after the commit, and the same identity elsewhere.
LostReply(n, m, id, table) == <<<<"lost", {n}, id, table>>, <<"resolve", {m}, id, 0, table>>>>

sqlalchemy_checks == Times(3, <<"write", All, "documents">>) \o <<<<"count", All, {"documents"}>>>>

\* A repeated index.put, a rejected one, and recovery of all voters, after which
\* the index and the mapped table are read, and the table of embeddings is not.
features ==
    Times(2, <<"write", All, "documents">>)
    \o <<<<"resolve", {1}, "vector", 0, "documents">>, <<"resolve", {2}, "vector", 0, "documents">>,
         <<"count", All, {"documents"}>>, <<"write", All, "embeddings">>, <<"count", All, {"documents", "embeddings"}>>>>
    \o sqlalchemy_checks \o Stop \o Start \o Verified({"documents"})

\* Two sessions of the object mapper, and what each sees of the other: new
\* parents, and changes of their names.
OrmTransactions ==
    <<<<"write", All, "parents">>>> \o Transaction("a", "parents") \o <<<<"count", All, {"parents"}>>>>
    \o Times(2, <<"begin", "a">>) \o RolledBack("a", {"parents"}) \o Transaction("a", "parents")
    \o RolledBack("a", {"parents"}) \o Conflict("names") \o <<<<"count", All, {"names"}>>>>
    \o Conflict("names") \o Transaction("b", "names")
    \o <<<<"begin", "a">>, <<"write", All, "names">>, <<"reread", "a", "conflict">>>>
    \o Transaction("a", "names") \o RolledBack("a", {"names"})

\* A transaction whose voter goes away, a lost reply and a lost quorum.  After the
\* restart the parents are counted and the name with the lost reply is read, no
\* other name is.
OrmOutages ==
    <<<<"begin", "a">>, <<"stop", 1>>, <<"reread", "a", "ok">>, <<"commit", "a", All, "ok", "names">>, <<"start", 1>>>>
    \o LostReply(1, 2, "ack", "parents")
    \o <<<<"begin", "a">>, <<"stop", 2>>, <<"stop", 3>>, <<"minority", 1, "quorum", "names">>,
         <<"start", 2>>, <<"start", 3>>, <<"resolve", {3}, "quorum", 0, "names">>>>
    \o Stop \o Start \o Verified({"parents"})

orm_checks == OrmTransactions \o OrmOutages

\* check_network_hosts: the voters of three hosts, each away in turn, and a
\* generation that outlives a restart.
majority_checks ==
    <<<<"write", All, "progress">>>>
    \o ForEach(LAMBDA victim :
         LET survivors == SetToSortSeq(All \ {victim}, <)
             operation(i) == <<IF i = 1 THEN <<"write", {survivors[1]}, "progress">>
                               ELSE <<"count", {survivors[2]}, {"progress"}>>>>
         IN  <<<<"epoch", {survivors[1]}, 0>>, <<"epoch", {survivors[2]}, 0>>, <<"stop", victim>>>>
             \o Repeat(Ops, operation) \o <<<<"start", victim>>>> \o ready(victim)
             \o <<<<"count", {victim}, {"progress"}>>>>)
    \o <<<<"snapshot", All>>, <<"generations", All>>>> \o Stop \o Start
    \o ForEach(LAMBDA n : ready(n) \o <<<<"count", {n}, {"progress"}>>, <<"has_generation", n>>>>)

check_python_features == checks(FALSE) \o features
check_orm_transactions == checks(FALSE) \o orm_checks
check_network_hosts == <<<<"auto">>>> \o checks(TRUE) \o features \o orm_checks \o majority_checks

\* check_transaction_history: transactions of two clients at a time, with each
\* voter away in turn; one of them makes progress and a read sees all of them.
operation(x, n) == <<<<"begin", x>>, <<"commit", x, {n}, "either">>>>
check_transaction_history ==
    LET batch(absent) ==
          LET live == SetToSortSeq(All \ {absent}, <) IN
          <<<<"fork", operation("a", live[1]), operation("b", live[2])>>, <<"join">>,
            <<"count", {live[1]}>>, <<"progress">>>>
    IN  Create \o Times(2, <<"write", All>>) \o batch(0) \o Verified(Tables)
        \o ForEach(LAMBDA absent : <<<<"stop", absent>>>> \o batch(absent)
                                    \o <<<<"start", absent>>>> \o Verified(Tables))
        \o Stop \o Start \o Verified(Tables)

-----------------------------------------------------------------------------
\* check_cli: the shell's transactions, a conflict, and a lost reply that only
\* the same certificate may retry.  After the restart items are counted; their
\* names and amounts are not read again.
conflict_test ==
    <<<<"begin", "a">>, <<"write", All, "amounts">>, <<"commit", "a", {1}, "conflict", "amounts">>,
      <<"count", All, {"amounts"}>>>>
lost_reply_test ==
    <<<<"lost", {1}, "shell", "amounts">>, <<"rejected", 1, "node1">>, <<"resolve", {3}, "shell", 0, "amounts">>,
      <<"count", All, {"amounts"}>>>>

check_cli ==
    Create \o <<<<"write", {1}>>, <<"count", {1}>>, <<"status", 1>>, <<"status", 2>>>>
    \o <<<<"begin", "a">>, <<"commit", "a", {1}, "ok", "amounts">>, <<"count", {1}>>>>
    \o Repeat(3, LAMBDA i : RolledBack("a", {"amounts"}))
    \o <<<<"write", {1}, "amounts">>, <<"write", {1}>>>> \o conflict_test \o lost_reply_test
    \o <<<<"count", All, {"rows"}>>>> \o Stop \o Start \o <<<<"count", {1}, {"rows"}>>>>

-----------------------------------------------------------------------------
\* check_process_cluster: voters behind a controller that carries their packets.
\* settle returns when no packet is left, and settled reads are local.
settled_verify == <<<<"settle">>>> \o ForEach(LAMBDA n : <<<<"local", n>>>>)

\* In the loop one account is compared, which every other transfer changes;
\* settled comparisons read everything.
exercise ==
    Create \o <<<<"write", All>>, <<"resolve", {1}, "first", 0>>>>
    \o Repeat(Ops, LAMBDA i : <<<<"write", {(i % 3) + 1}, IF i % 2 = 1 THEN "one" ELSE "rows">>>>
                              \o Verified({"one"}))
    \o settled_verify \o <<<<"submit", "uncertain">>>> \o Stop \o Start
    \o <<<<"resolve", {2}, "uncertain", 0>>>> \o settled_verify
    \o <<<<"resolve", {3}, "first", 0>>>> \o settled_verify
    \o <<<<"isolate", 1>>, <<"minority", 1, "minority">>, <<"no_quorum", 1>>, <<"heal", 1>>,
         <<"resolve", {2}, "minority", 0>>>> \o settled_verify \o <<<<"ready", 1>>, <<"count", {1}>>>>
    \o <<<<"stop", 1>>>> \o Times(Ops, <<"write", {2, 3}>>) \o <<<<"start", 1>>, <<"count", {1}>>>>
    \o settled_verify \o Stop \o Start \o settled_verify

\* run_native_soak.main: transfers, repeated ones among them, a voter that is
\* killed while the others go on, recovery of all and an offline audit.
run_native_soak ==
    Fresh \o <<<<"write", All>>>>
    \o Repeat(Ops, LAMBDA i : <<<<"resolve", {i}, "transfer", 0>>, <<"count", {i}>>>>)
    \o <<<<"stop", 1>>, <<"count", {2}>>, <<"touch", {2}>>, <<"start", 1>>, <<"ready", 1>>>> \o Verified(Tables)
    \o Stop \o Start \o Verified(Tables) \o Stop \o audit_replicas

\* run_cluster_soak.run_soak: the same through the controller, whose voters must
\* end at one applied prefix.
run_soak ==
    Create \o <<<<"write", All>>>>
    \o Repeat(Ops, LAMBDA i : <<<<"resolve", {i}, "transfer", 0>>>> \o Verified(Tables))
    \o settled_verify \o <<<<"resolve", {3}, "transfer", 0>>>>
    \o <<<<"stop", 2>>, <<"start", 2>>, <<"count", {2}>>>>
    \o Stop \o Start \o <<<<"settle">>>> \o Verified(Tables) \o <<<<"settle">>, <<"same_prefix", All>>>>
    \o Stop \o audit_replicas
=============================================================================
