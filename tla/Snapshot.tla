------------------------------ MODULE Snapshot ------------------------------
(***************************************************************************)
(* Certified snapshots of the whole group: an ordered barrier, the image   *)
(* each voter captures at it, the receipts they exchange, the seal that a  *)
(* majority certificate puts in the log, and what a sealed image then      *)
(* permits: replacing the local store by a generation based on it, sending *)
(* it to a voter that lags behind, deleting older images.  A certificate   *)
(* and a generation replace history that nobody keeps afterwards, so the   *)
(* question is whether the images they stand for are still there.          *)
(*                                                                         *)
(* Consensus is abstracted (see MultiMaster) to one log of what is chosen: *)
(* a proposal takes a slot, which holds its value or, when another voter   *)
(* recovered the slot, a no-op.  Nobody sees a slot before applying it, so *)
(* when it is chosen does not matter.  Client writes are left out.  Every  *)
(* voter builds the same logical state from the same prefix (see Engine),  *)
(* so receipts for one prefix always carry the same key.                   *)
(***************************************************************************)
EXTENDS Integers, Sequences, FiniteSets

CONSTANTS
    Node,
    MaxBarriers,    \* bound on snapshot barriers
    MaxSlots,       \* bound on the log
    MaxFaults       \* bound on restarts, failed workers and displaced proposals

ASSUME SnapshotAssumption ==
    /\ IsFiniteSet(Node) /\ Node # {} /\ MaxBarriers \in Nat /\ MaxSlots \in Nat
    /\ MaxFaults \in Nat

VARIABLES
    log,            \* slot -> [kind, prefix, voters]
    applied,        \* engine.applied_through
    poisoned,       \* the host stopped itself; only a restart helps
    worker,         \* Snapshot_State: [prefix, phase] of the last capture; one that
                    \* is done and sealed is dropped, the code no longer asks for it
    pending,        \* pending_slot until it is applied, else 0
    seal_slot,      \* slot of this voter's seal proposal, 0 for none
    sealed,         \* snapshot_sealed.key.prefix
    sent,           \* receipts under way, [voter, prefix]: any order, any delay
    inventory,      \* durable: image files the store owns
    images,         \* durable: images that are complete and have their manifest
    base, previous, \* durable: image of the current and of the previous generation
    compaction,     \* prefix of the generation being built, 0 for none
    transfer,       \* prefix of the image being received, 0 for none
    faults

volatile == <<worker, pending, seal_slot, compaction, transfer>>
durable == <<inventory, images, base, previous>>
vars == <<log, applied, poisoned, volatile, sealed, sent, durable, faults>>

Slots == 1..Len(log)
Phases == {"none", "running", "done", "failed"}
Image == [prefix : Nat, received : BOOLEAN]
NoImage == [prefix |-> 0, received |-> FALSE]
Local(p) == [prefix |-> p, received |-> FALSE]
Incoming(p) == [prefix |-> p, received |-> TRUE]

\* Type correctness.
TypeOK ==
    /\ log \in Seq([kind : {"barrier", "seal", "skip"}, prefix : Nat, voters : SUBSET Node])
    /\ applied \in [Node -> 0..Len(log)]
    /\ poisoned \in [Node -> BOOLEAN]
    /\ worker \in [Node -> [prefix : 0..Len(log), phase : Phases]]
    /\ pending \in [Node -> 0..Len(log)] /\ seal_slot \in [Node -> 0..Len(log)]
    /\ sealed \in [Node -> 0..Len(log)]
    /\ sent \subseteq [voter : Node, prefix : Slots]
    /\ inventory \in [Node -> SUBSET Image] /\ images \in [Node -> SUBSET Image]
    /\ \A n \in Node : images[n] \subseteq inventory[n]
    /\ base \in [Node -> Image] /\ previous \in [Node -> Image]
    /\ compaction \in [Node -> 0..Len(log)] /\ transfer \in [Node -> 0..Len(log)]
    /\ faults \in 0..MaxFaults

NoWorker == [prefix |-> 0, phase |-> "none"]

Init ==
    /\ log = <<>> /\ sent = {} /\ faults = 0
    /\ applied = [n \in Node |-> 0] /\ sealed = [n \in Node |-> 0]
    /\ poisoned = [n \in Node |-> FALSE]
    /\ worker = [n \in Node |-> NoWorker]
    /\ pending = [n \in Node |-> 0] /\ seal_slot = [n \in Node |-> 0]
    /\ inventory = [n \in Node |-> {}] /\ images = [n \in Node |-> {}]
    /\ base = [n \in Node |-> NoImage] /\ previous = [n \in Node |-> NoImage]
    /\ compaction = [n \in Node |-> 0] /\ transfer = [n \in Node |-> 0]

-----------------------------------------------------------------------------
Larger(a, b) == IF a > b THEN a ELSE b

\* snapshot_busy: a compaction or an incoming transfer holds the host.
snapshot_busy(n) == compaction[n] # 0 \/ transfer[n] # 0

snapshot_worker_running(n) == worker[n].phase = "running"
snapshot_worker_failed(n) == worker[n].phase = "failed"

\* The last capture succeeded or is unfinished, and no seal has reached it.
CaptureUnsealed(n) ==
    /\ worker[n].phase # "none" /\ ~snapshot_worker_failed(n)
    /\ sealed[n] < worker[n].prefix

\* A quorum certificate: receipts of a majority of distinct voters.
build(voters) == Cardinality(voters) >= Cardinality(Node) \div 2 + 1

\* propose_internal: the value takes a slot, which another voter's recovery
\* may turn into a no-op.
propose_internal(kind, prefix, voters) ==
    /\ Len(log) < MaxSlots
    /\ \/ /\ log' = Append(log, [kind |-> kind, prefix |-> prefix, voters |-> voters])
          /\ faults' = faults
       \/ /\ faults < MaxFaults /\ faults' = faults + 1
          /\ log' = Append(log, [kind |-> "skip", prefix |-> 0, voters |-> {}])

Barriers == Cardinality({s \in Slots : log[s].kind = "barrier"})

begin_snapshot(n) ==
    /\ ~poisoned[n] /\ ~snapshot_busy(n)
    /\ pending[n] = 0 /\ ~snapshot_worker_running(n) /\ ~CaptureUnsealed(n)
    /\ Barriers < MaxBarriers
    /\ propose_internal("barrier", 0, {})
    /\ pending' = [pending EXCEPT ![n] = Len(log) + 1]
    /\ UNCHANGED <<applied, poisoned, worker, seal_slot, compaction, transfer,
                   sealed, sent, durable>>

-----------------------------------------------------------------------------
\* The capture that snapshot_pin leaves at prefix p: the copy runs unless the
\* image's path is already taken (register_snapshot_image).
Capture(n, p) ==
    [prefix |-> p, phase |-> IF Local(p) \in inventory[n] THEN "failed" ELSE "running"]

\* snapshot_pin for a barrier at slot p, applied while the host is live.
snapshot_pin(n, p) ==
    IF snapshot_busy(n) \/ snapshot_worker_running(n) \/ CaptureUnsealed(n) THEN
        UNCHANGED <<worker, seal_slot, inventory>>
    ELSE
        /\ worker' = [worker EXCEPT ![n] = Capture(n, p)]
        /\ seal_slot' = [seal_slot EXCEPT ![n] = 0]
        /\ inventory' = [inventory EXCEPT ![n] = @ \cup {Local(p)}]

\* snapshot_observe_seal: seals of newer prefixes only; the capture that the
\* seal reaches, and its proposal, are history then.
snapshot_observe_seal(n, prefix) ==
    LET newest == Larger(sealed[n], prefix)
        over == worker[n].phase = "done" /\ worker[n].prefix <= newest
    IN  /\ sealed' = [sealed EXCEPT ![n] = newest]
        /\ worker' = [worker EXCEPT ![n] = IF over THEN NoWorker ELSE @]
        /\ seal_slot' = [seal_slot EXCEPT ![n] = IF over THEN 0 ELSE @]

\* Any barrier a host is free to capture, or its own proposal being applied,
\* ends the wait of begin_snapshot (snapshot_pin, snapshot_progress).
PendingOver(n) ==
    \/ pending[n] = applied[n] + 1
    \/ log[applied[n] + 1].kind = "barrier" /\ ~snapshot_busy(n)

\* apply_host_entries, one control record at a time: the code splits its
\* application group at each, so a capture pins exactly its own prefix.
apply_host_entries(n) ==
    /\ ~poisoned[n] /\ applied[n] < Len(log)
    /\ applied' = [applied EXCEPT ![n] = @ + 1]
    /\ pending' = [pending EXCEPT ![n] = IF PendingOver(n) THEN 0 ELSE @]
    /\ LET entry == log[applied[n] + 1] IN
       \/ /\ entry.kind = "barrier" /\ snapshot_pin(n, applied[n] + 1)
          /\ UNCHANGED sealed
       \/ /\ entry.kind = "seal" /\ snapshot_observe_seal(n, entry.prefix)
          /\ UNCHANGED inventory
       \/ /\ entry.kind = "skip"
          /\ UNCHANGED <<worker, seal_slot, inventory, sealed>>
    /\ UNCHANGED <<log, poisoned, compaction, transfer, sent, images, base, previous, faults>>

\* The worker thread ends: image verified, manifest written and synced.  From
\* here on drive_snapshots sends its receipt to every peer, again and again.
snapshot_worker(n) ==
    /\ snapshot_worker_running(n)
    /\ worker' = [worker EXCEPT ![n] =
                     IF @.prefix <= sealed[n] THEN NoWorker ELSE [@ EXCEPT !.phase = "done"]]
    /\ images' = [images EXCEPT ![n] = @ \cup {Local(worker[n].prefix)}]
    /\ sent' = sent \cup {[voter |-> n, prefix |-> worker[n].prefix]}
    /\ UNCHANGED <<log, applied, poisoned, pending, seal_slot, compaction, transfer,
                   sealed, inventory, base, previous, faults>>

\* The worker thread ends with an error (space, copy, verification, budget).
snapshot_worker_error(n) ==
    /\ snapshot_worker_running(n) /\ faults < MaxFaults
    /\ worker' = [worker EXCEPT ![n].phase = "failed"]
    /\ faults' = faults + 1
    /\ UNCHANGED <<log, applied, poisoned, pending, seal_slot, compaction, transfer,
                   sealed, sent, durable>>

-----------------------------------------------------------------------------
\* This voter's own seal lost its slot, or none was proposed yet.
SealFree(n) ==
    \A s \in {seal_slot[n]} \ {0} : s <= applied[n] /\ log[s].kind # "seal"

\* The receipts a certificate can be made of: the local one and those that
\* snapshot_receive_receipt has accepted so far, one per peer and only for the
\* prefix captured here.  They arrive late, repeatedly and in any order.
Receipts(n) ==
    {v \cup {n} : v \in SUBSET {m \in Node \ {n} :
                        [voter |-> m, prefix |-> worker[n].prefix] \in sent}}

\* snapshot_progress, every turn: a failed worker stops the host ...
snapshot_poison(n) ==
    /\ ~poisoned[n] /\ snapshot_worker_failed(n)
    /\ poisoned' = [poisoned EXCEPT ![n] = TRUE]
    /\ UNCHANGED <<log, applied, volatile, sealed, sent, durable, faults>>

\* ... and once a majority retains the capture its certificate is proposed,
\* again if the proposal lost its slot.
snapshot_progress(n) ==
    /\ ~poisoned[n] /\ worker[n].phase = "done" /\ CaptureUnsealed(n) /\ SealFree(n)
    /\ \E voters \in Receipts(n) :
           build(voters) /\ propose_internal("seal", worker[n].prefix, voters)
    /\ seal_slot' = [seal_slot EXCEPT ![n] = Len(log) + 1]
    /\ UNCHANGED <<applied, poisoned, worker, pending, compaction, transfer, sealed,
                   sent, durable>>

-----------------------------------------------------------------------------
\* What a host that opens a store based on image b finds when it replays the
\* chosen records through slot k: the newest seal after the base, or the base.
Replayed(b, k) ==
    LET seals == {log[s].prefix : s \in {t \in b + 1..k : log[t].kind = "seal"}} IN
    CHOOSE p \in seals \cup {b} : \A q \in seals \cup {b} : q <= p

\* The host of n is a new one: no capture, proposal, receipt or job survives.
FreshHost(n) ==
    /\ worker' = [worker EXCEPT ![n] = NoWorker]
    /\ pending' = [pending EXCEPT ![n] = 0]
    /\ seal_slot' = [seal_slot EXCEPT ![n] = 0]
    /\ compaction' = [compaction EXCEPT ![n] = 0]
    /\ transfer' = [transfer EXCEPT ![n] = 0]

\* Mutants of open: seals of the replayed suffix are not observed; the suffix is
\* replayed by the running host, with its captures enabled.
OpenForgetsSeals(n) ==
    /\ poisoned[n] \/ faults < MaxFaults
    /\ faults' = IF poisoned[n] THEN faults ELSE faults + 1
    /\ poisoned' = [poisoned EXCEPT ![n] = FALSE]
    /\ FreshHost(n)
    /\ \E k \in applied[n]..Len(log) : applied' = [applied EXCEPT ![n] = k]
    /\ sealed' = [sealed EXCEPT ![n] = base[n].prefix]
    /\ UNCHANGED <<log, sent, durable>>

OpenReplaysLive(n) ==
    /\ poisoned[n] \/ faults < MaxFaults
    /\ faults' = IF poisoned[n] THEN faults ELSE faults + 1
    /\ poisoned' = [poisoned EXCEPT ![n] = FALSE]
    /\ FreshHost(n)
    /\ applied' = [applied EXCEPT ![n] = base[n].prefix]
    /\ sealed' = [sealed EXCEPT ![n] = base[n].prefix]
    /\ UNCHANGED <<log, sent, durable>>

\* open after a crash or an exit of the host: a failed build of a generation
\* (drive_maintenance) ends the process too.  recover_application replays the
\* chosen suffix before snapshot_enable, so its barriers capture nothing.
open(n) ==
    /\ poisoned[n] \/ faults < MaxFaults
    /\ faults' = IF poisoned[n] THEN faults ELSE faults + 1
    /\ poisoned' = [poisoned EXCEPT ![n] = FALSE]
    /\ FreshHost(n)
    /\ \E k \in applied[n]..Len(log) :
         /\ applied' = [applied EXCEPT ![n] = k]
         /\ sealed' = [sealed EXCEPT ![n] = Replayed(base[n].prefix, k)]
    /\ UNCHANGED <<log, sent, durable>>

\* drive_maintenance: the newest sealed image, captured here, is above the base.
begin_compaction(n) ==
    /\ ~poisoned[n] /\ ~snapshot_busy(n) /\ ~snapshot_worker_running(n)
    /\ sealed[n] > base[n].prefix /\ Local(sealed[n]) \in images[n]
    /\ compaction' = [compaction EXCEPT ![n] = sealed[n]]
    /\ UNCHANGED <<log, applied, poisoned, worker, pending, seal_slot, transfer,
                   sealed, sent, durable, faults>>

\* publish_open_generation: the catalog names the new store and its exact
\* predecessor; the host that adopts it starts with an empty Snapshot_State.
Publish(n, image) ==
    /\ base' = [base EXCEPT ![n] = image]
    /\ previous' = [previous EXCEPT ![n] = base[n]]
    /\ FreshHost(n)

poll_compaction(n) ==
    /\ ~poisoned[n] /\ compaction[n] # 0
    /\ Publish(n, Local(compaction[n]))
    /\ UNCHANGED <<log, applied, poisoned, sealed, sent, inventory, images, faults>>

-----------------------------------------------------------------------------
\* A peer offers the image its generation is based on; a voter behind it takes it.
receive_snapshot_offer(n, m) ==
    /\ ~poisoned[n] /\ ~poisoned[m] /\ m # n
    /\ ~snapshot_worker_running(n) /\ ~snapshot_busy(n)
    /\ base[m].prefix > applied[n] /\ base[m] \in images[m]
    /\ transfer' = [transfer EXCEPT ![n] = base[m].prefix]
    /\ inventory' = [inventory EXCEPT ![n] = @ \cup {Incoming(base[m].prefix)}]
    /\ UNCHANGED <<log, applied, poisoned, worker, pending, seal_slot, compaction,
                   sealed, sent, images, base, previous, faults>>

\* snapshot_transfer_install: the image replaces the applied prefix, the local
\* journal supplies what follows it.
snapshot_transfer_install(n) ==
    /\ ~poisoned[n] /\ transfer[n] > applied[n]
    /\ images' = [images EXCEPT ![n] = @ \cup {Incoming(transfer[n])}]
    /\ Publish(n, Incoming(transfer[n]))
    /\ \E k \in transfer[n]..Len(log) :
         /\ applied' = [applied EXCEPT ![n] = k]
         /\ sealed' = [sealed EXCEPT ![n] = Replayed(transfer[n], k)]
    /\ UNCHANGED <<log, poisoned, sent, inventory, faults>>

\* The local log caught up first, the donor's link was lost or stayed silent, or
\* a newer image is offered: the partial file goes, its entry stays owned.
snapshot_transfer_cancel(n) ==
    /\ ~poisoned[n] /\ transfer[n] # 0
    /\ transfer' = [transfer EXCEPT ![n] = 0]
    /\ UNCHANGED <<log, applied, poisoned, worker, pending, seal_slot, compaction,
                   sealed, sent, durable, faults>>

\* Mutants of Retirable: the last sealed image too; the predecessor's image too.
RetirableSealed(n, i) ==
    /\ i \in inventory[n] /\ i # base[n] /\ i # previous[n]
    /\ i.received \/ i.prefix <= sealed[n]

RetirablePrevious(n, i) ==
    /\ i \in inventory[n] /\ i # base[n]
    /\ i.received \/ i.prefix < sealed[n]

\* image_retirement_candidate: an owned image that neither the generation nor
\* its predecessor names, and that is an incoming copy or below the last seal.
Retirable(n, i) ==
    /\ i \in inventory[n] /\ i # base[n] /\ i # previous[n]
    /\ i.received \/ i.prefix < sealed[n]

\* retire_snapshot_image: files first, then the inventory entry.
retire_snapshot_image(n, i) ==
    /\ ~poisoned[n] /\ ~snapshot_busy(n) /\ ~snapshot_worker_running(n)
    /\ Retirable(n, i)
    /\ images' = [images EXCEPT ![n] = @ \ {i}]
    /\ inventory' = [inventory EXCEPT ![n] = @ \ {i}]
    /\ UNCHANGED <<log, applied, poisoned, volatile, sealed, sent, base, previous, faults>>

\* The same, interrupted after the files: the restarted host finds the entry.
retire_interrupted(n, i) ==
    /\ ~poisoned[n] /\ ~snapshot_busy(n) /\ ~snapshot_worker_running(n)
    /\ Retirable(n, i) /\ i \in images[n] /\ faults < MaxFaults
    /\ images' = [images EXCEPT ![n] = @ \ {i}]
    /\ FreshHost(n)
    /\ sealed' = [sealed EXCEPT ![n] = Replayed(base[n].prefix, applied[n])]
    /\ faults' = faults + 1
    /\ UNCHANGED <<log, applied, poisoned, sent, inventory, base, previous>>

Next ==
    \E n \in Node :
        \/ begin_snapshot(n) \/ apply_host_entries(n)
        \/ snapshot_worker(n) \/ snapshot_worker_error(n)
        \/ snapshot_poison(n) \/ snapshot_progress(n) \/ open(n)
        \/ begin_compaction(n) \/ poll_compaction(n)
        \/ snapshot_transfer_install(n) \/ snapshot_transfer_cancel(n)
        \/ \E m \in Node : receive_snapshot_offer(n, m)
        \/ \E i \in inventory[n] : retire_snapshot_image(n, i) \/ retire_interrupted(n, i)

Spec == Init /\ [][Next]_vars

-----------------------------------------------------------------------------
ChosenSeals == {s \in Slots : log[s].kind = "seal"}

\* The newest chosen seal is backed: a majority certified it, and every voter
\* its certificate counts still holds its complete image, whatever was retired,
\* restarted or replaced since.
NewestSealBacked ==
    /\ TypeOK
    /\ \A s \in ChosenSeals :
         /\ 2 * Cardinality(log[s].voters) > Cardinality(Node)
         /\ (\A t \in ChosenSeals : log[t].prefix <= log[s].prefix) =>
               \A v \in log[s].voters : Local(log[s].prefix) \in images[v]

\* A store is only ever replaced by a certified image: the base of every
\* voter's generation was sealed by a chosen entry, and it and the image of the
\* generation before it are still there to recover or to send from.
GenerationsBacked ==
    \A n \in Node : \A i \in {base[n], previous[n]} \ {NoImage} :
        /\ i \in images[n]
        /\ \E s \in ChosenSeals : log[s].prefix = i.prefix

\* However it got there - log, restart, compaction or transfer - a live host
\* knows exactly the newest of the seals it has applied and its own base.
SealKnown ==
    \A n \in Node :
        ~poisoned[n] => sealed[n] = Larger(base[n].prefix, Replayed(0, applied[n]))

\* No voter meets a barrier twice: the image a live host is about to capture
\* has never been begun in an earlier life of the same voter, where finding its
\* file would stop the host.
CapturesAreNew ==
    \A n \in Node :
        ~poisoned[n] /\ applied[n] < Len(log) => Local(applied[n] + 1) \notin inventory[n]

-----------------------------------------------------------------------------
\* Nothing is left to do for the snapshot that any voter holds.
Settled(n) ==
    /\ ~poisoned[n] /\ worker[n].phase = "done" /\ CaptureUnsealed(n)
    /\ applied[n] = Len(log) /\ ~snapshot_busy(n) /\ pending[n] = 0 /\ SealFree(n)
    /\ ~(sealed[n] > base[n].prefix /\ Local(sealed[n]) \in images[n])

\* "every receiving voter captures that same application prefix": when every
\* voter holds a finished capture, a majority holds the same one.  Otherwise no
\* certificate can form and begin_snapshot refuses at every voter for good.
CapturesAgree ==
    (\A n \in Node : Settled(n)) =>
        \E n \in Node : 2 * Cardinality({m \in Node : worker[m].prefix = worker[n].prefix})
                            > Cardinality(Node)
=============================================================================
