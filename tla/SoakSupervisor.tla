--------------------------- MODULE SoakSupervisor ---------------------------
(***************************************************************************)
(* One host of a soak.  A controller on another machine starts, stops and  *)
(* audits the voter of this host through actions it may give up on; every  *)
(* start leaves behind a process that watches its voter until the run      *)
(* expires.  Two such supervisors exist: native_soak_worker.py, whose      *)
(* actions are commands of their own that find the voter in server.pid     *)
(* ("native"), and qualification_worker.py, which carries the voter's      *)
(* packets over one SSH channel ("channel").                               *)
(***************************************************************************)
EXTENDS Integers, Sequences, FiniteSets

CONSTANT MaxStarts       \* starts of a campaign
ASSUME StartsAssumption == MaxStarts \in Nat \ {0}

VARIABLES
    kind,            \* the supervisor this host has
    script, phase,   \* words the controller has left, in main or in finally
    acts,            \* actions under way on the host
    waiting,         \* the one the controller waits for, or 0
    watch,           \* the process behind each start
    voter,           \* its child
    pidfile,         \* server.pid: a start, or -1 while it is being written
    tmp, resource,   \* resource.tmp, or "none", and resource.json: "fine" or "error"
    failed,          \* what a watch has to report
    link,            \* the start whose channel the controller holds, and its state
    expired,         \* the deadline of the run has passed
    killed           \* a watch was killed from outside

files == <<pidfile, tmp, resource, failed>>
controller == <<script, phase, waiting>>
vars == <<kind, controller, acts, watch, voter, files, link, expired, killed>>

Starts == 1..MaxStarts
Native == kind = "native"

\* run_native_soak.main and run_cluster_soak.run_soak as this host sees them:
\* a fault with its recovery, recovery of the whole cluster, and the audit.
Main(k) ==
    IF k = "channel"
    THEN <<"start", "round", "stop", "start", "round", "stop", "start", "round", "stop", "audit">>
    ELSE <<"start", "status", "stop", "restart", "status", "stop", "start", "stop", "audit">>

\* The finally clauses.
Cleanup == IF kind = "native" THEN <<"stop", "retire">> ELSE <<"stop">>

Init ==
    /\ kind \in {"native", "channel"}
    /\ script = Main(kind) /\ phase = "main"
    /\ acts = {} /\ waiting = 0
    /\ watch = [k \in Starts |-> "none"] /\ voter = [k \in Starts |-> "none"]
    /\ pidfile = 0 /\ tmp = "none" /\ resource = "fine" /\ failed = [k \in Starts |-> FALSE]
    /\ link = [to |-> 0, up |-> FALSE]
    /\ expired = FALSE /\ killed = FALSE

-----------------------------------------------------------------------------
\* The controller

\* An exception in main goes to the finally clauses, through the one that ends
\* a fault; an exception in those is noted and they go on.
Raised ==
    IF phase = "main"
    THEN /\ phase' = "failed"
         /\ script' = (IF Head(script) = "restart" /\ waiting = 0 THEN <<"restart">> ELSE <<>>) \o Cleanup
    ELSE phase' = phase /\ script' = Tail(script)

Returned ==
    IF phase = "main" /\ Len(script) = 1
    THEN phase' = "passed" /\ script' = Cleanup
    ELSE phase' = phase /\ script' = Tail(script)

\* control and the RPCs of RemoteWorker.  An action is known by its place in the
\* finally clauses, or as the one that main waits for.
control ==
    /\ script # <<>> /\ waiting = 0
    /\ waiting' = IF phase = "main" THEN Len(Main(kind)) ELSE Len(script)
    /\ acts' = acts \cup {[id |-> waiting', word |-> Head(script), at |-> "begin"]}
    /\ UNCHANGED <<kind, script, phase, watch, voter, files, link, expired, killed>>

\* subprocess.run gives up after 90 seconds.  It kills the SSH client and not
\* what it has begun, which may go on; the action of a controller on the same
\* host is killed and takes no further step.  Of an action that only looks on the
\* model keeps nothing.  A failed stop closes the channel.
Looking(a) == a.at = "poll" \/ a.word \in {"status", "retire"}
Timeout ==
    /\ waiting # 0 /\ Raised /\ waiting' = 0
    /\ acts' = {a \in acts : a.id # waiting \/ (Native /\ ~Looking(a))}
    /\ link' = IF \E a \in acts : a.id = waiting /\ a.word = "stop" THEN [to |-> 0, up |-> FALSE] ELSE link
    /\ UNCHANGED <<kind, watch, voter, files, expired, killed>>

\* A query fails or the operator interrupts.
Interrupt ==
    /\ phase = "main" /\ waiting = 0 /\ Raised
    /\ UNCHANGED <<kind, waiting, acts, watch, voter, files, link, expired, killed>>

-----------------------------------------------------------------------------
\* The actions of native_soak_worker.py

Living == {"running", "dying"}
alive == pidfile > 0 /\ voter[pidfile] \in Living

\* An action goes on, or ends with its result if somebody still waits for it.
Goes(a, at) ==
    LET b == [a EXCEPT !.at = at] IN
    acts' = (acts \ {a}) \cup (IF a.id = waiting \/ ~Looking(b) THEN {b} ELSE {}) /\ UNCHANGED controller
Ends(a, ok) ==
    /\ acts' = acts \ {a}
    /\ IF a.id = waiting
       THEN waiting' = 0 /\ IF ok THEN Returned ELSE Raised
       ELSE UNCHANGED controller

Quiet == UNCHANGED <<kind, watch, voter, files, link, expired, killed>>

\* The run has expired, the pid file is half written, or the voter is in a state
\* the action cannot have.
Refused(a) ==
    /\ Native /\ a.at = "begin"
    /\ \/ expired \/ pidfile = -1
       \/ a.word \in {"start", "restart", "audit", "retire"} /\ alive
       \/ a.word = "status" /\ (~alive \/ resource = "error")
    /\ Ends(a, FALSE) /\ Quiet

Ready(a) == Native /\ a.at = "begin" /\ ~expired /\ pidfile # -1

NextStart == CHOOSE k \in Starts : watch[k] = "none" /\ \A j \in 1..k - 1 : watch[j] # "none"

Spawn(a) ==
    /\ Ready(a) /\ a.word \in {"start", "restart"} /\ ~alive
    /\ watch' = [watch EXCEPT ![NextStart] = "begun"]
    /\ Goes(a, "poll")
    /\ UNCHANGED <<kind, voter, files, link, expired, killed>>

\* start returns when the pid file names a living voter; it fails when the watch
\* has ended, when it reads half a pid, and after five seconds.
StartUnconfirmed(a) ==   \* mutant: the watch will get there
    a.word \in {"start", "restart"} /\ a.at = "poll" /\ Ends(a, TRUE) /\ Quiet
Confirm(a) ==
    /\ a.word \in {"start", "restart"} /\ a.at = "poll"
    /\ \/ alive /\ Ends(a, TRUE)
       \/ ~alive /\ Ends(a, FALSE)
    /\ Quiet

stop(a) ==
    /\ Ready(a) /\ a.word = "stop"
    /\ voter' = IF alive THEN [voter EXCEPT ![pidfile] = "dying"] ELSE voter
    /\ Goes(a, "poll")
    /\ UNCHANGED <<kind, watch, files, link, expired, killed>>

\* A killed voter that nobody has waited for yet has no command line: it counts
\* as stopped.
Stopped(a) ==
    /\ Native /\ a.word = "stop" /\ a.at = "poll"
    /\ \/ ~alive /\ pidfile # -1 /\ Ends(a, TRUE)
       \/ (alive \/ pidfile = -1) /\ Ends(a, FALSE)
    /\ Quiet

status(a) == Ready(a) /\ a.word = "status" /\ alive /\ Ends(a, TRUE) /\ Quiet
retire(a) == Ready(a) /\ a.word = "retire" /\ ~alive /\ Ends(a, TRUE) /\ Quiet

\* The audit of either supervisor; that of the channel looks at no voter first.
audit(a) ==
    /\ a.word = "audit" /\ a.at = "begin" /\ ~expired
    /\ Native => Ready(a) /\ ~alive
    /\ Goes(a, "reading") /\ Quiet
Audited(a) == a.at = "reading" /\ Ends(a, TRUE) /\ Quiet

Action(a) ==
    \/ Refused(a) \/ Spawn(a) \/ Confirm(a) \/ stop(a) \/ Stopped(a)
    \/ status(a) \/ retire(a) \/ audit(a) \/ Audited(a)

-----------------------------------------------------------------------------
\* RemoteWorker and its channel

\* The controller only spawns the SSH client; nothing is confirmed.
Connect(a) ==
    /\ a.word = "start" /\ ~Native
    /\ watch' = [watch EXCEPT ![NextStart] = "begun"]
    /\ link' = [to |-> NextStart, up |-> TRUE]
    /\ Ends(a, TRUE)
    /\ UNCHANGED <<kind, voter, files, expired, killed>>

round(a) ==
    /\ a.word = "round"
    /\ \/ link.up /\ watch[link.to] = "loop" /\ voter[link.to] = "running" /\ Ends(a, TRUE)
       \/ (~link.up \/ watch[link.to] = "gone") /\ Ends(a, FALSE)
    /\ Quiet

\* stop sends the kill command and waits for its answer; a channel whose client
\* has ended has nothing to stop.
Kill(a) ==
    /\ ~Native /\ a.word = "stop" /\ a.at = "begin"
    /\ \/ ~link.up /\ Ends(a, TRUE) /\ link' = [to |-> 0, up |-> FALSE] /\ UNCHANGED watch
       \/ /\ link.up /\ watch[link.to] = "loop"
          /\ watch' = [watch EXCEPT ![link.to] = "end"]
          /\ Goes(a, "poll") /\ UNCHANGED link
    /\ UNCHANGED <<kind, voter, files, expired, killed>>

Killed(a) ==
    /\ ~Native /\ a.word = "stop" /\ a.at = "poll" /\ link.to # 0 /\ watch[link.to] = "gone"
    /\ Ends(a, link.up) /\ link' = [to |-> 0, up |-> FALSE]
    /\ UNCHANGED <<kind, watch, voter, files, expired, killed>>

\* The SSH client of the controller ends.
Break ==
    /\ link.up /\ link' = [link EXCEPT !.up = FALSE]
    /\ UNCHANGED <<kind, controller, acts, watch, voter, files, expired, killed>>

Remote(a) == Connect(a) \/ round(a) \/ Kill(a) \/ Killed(a)

-----------------------------------------------------------------------------
\* The process behind a start: watch and supervise

Bystanders == UNCHANGED <<kind, controller, acts, link, expired, killed>>
Watch(k, at) == watch' = [watch EXCEPT ![k] = at] /\ Bystanders

Popen(k) ==
    /\ watch[k] = "begun"
    /\ IF expired THEN Watch(k, "gone") /\ UNCHANGED voter
       ELSE Watch(k, "popen") /\ voter' = [voter EXCEPT ![k] = "forked"]
    /\ UNCHANGED <<files>>

\* Popen returns once the child has the voter's program.
Opened(k) ==
    /\ watch[k] = "popen" /\ voter[k] # "forked"
    /\ Watch(k, IF Native THEN "pid" ELSE "loop")
    /\ pidfile' = IF Native THEN -1 ELSE pidfile
    /\ UNCHANGED <<voter, tmp, resource, failed>>

WritePid(k) ==
    /\ watch[k] = "pid" /\ pidfile' = k /\ Watch(k, "loop")
    /\ UNCHANGED <<voter, tmp, resource, failed>>

\* One turn of the loop of watch: a sample of the child, the guards, and the
\* report.  An exceeded guard is an error, and so is a child that dies between
\* the poll and the sample, which has no VmRSS.
WatchForever(k) ==   \* mutant: no deadline
    /\ Native /\ watch[k] = "loop"
    /\ Watch(k, IF voter[k] \in Living THEN "save" ELSE "end")
    /\ UNCHANGED <<voter, files>>
Poll(k) ==
    /\ Native /\ watch[k] = "loop"
    /\ IF voter[k] \in Living /\ ~expired
       THEN \/ Watch(k, "save") /\ UNCHANGED failed
            \/ Watch(k, "end") /\ failed' = [failed EXCEPT ![k] = TRUE]
       ELSE Watch(k, "end") /\ UNCHANGED failed
    /\ UNCHANGED <<voter, pidfile, tmp, resource>>

\* save: every report of this host goes through one temporary name, and one
\* that another watch has already moved away is an error.
save(k) ==
    /\ watch[k] \in {"save", "report"}
    /\ tmp' = IF failed[k] THEN "error" ELSE "fine"
    /\ Watch(k, IF watch[k] = "save" THEN "replace" ELSE "last")
    /\ UNCHANGED <<voter, pidfile, resource, failed>>

Replace(k) ==
    /\ watch[k] \in {"replace", "last"}
    /\ resource' = IF tmp = "none" THEN resource ELSE tmp
    /\ tmp' = "none"
    /\ IF watch[k] = "last" THEN Watch(k, "gone") /\ failed' = [failed EXCEPT ![k] = FALSE]
       ELSE /\ Watch(k, IF tmp = "none" THEN "end" ELSE "loop")
            /\ failed' = [failed EXCEPT ![k] = tmp = "none"]
    /\ UNCHANGED <<voter, pidfile>>

\* supervise leaves its loop when the channel ends, when no frame has come for
\* 90 seconds, when a budget is exceeded and at the alarm.
Leave(k) ==
    /\ ~Native /\ watch[k] = "loop" /\ Watch(k, "end")
    /\ UNCHANGED <<voter, files>>

\* The finally clause: the child is killed if it has not ended, and waited for.
Finally(k) ==
    /\ watch[k] = "end"
    /\ \/ voter[k] = "running" /\ voter' = [voter EXCEPT ![k] = "dying"] /\ Watch(k, "end")
       \/ /\ voter[k] = "zombie" /\ voter' = [voter EXCEPT ![k] = "dead"]
          /\ Watch(k, IF Native THEN "report" ELSE "gone")
    /\ UNCHANGED <<files>>

WatchStep(k) ==
    \/ Popen(k) \/ Opened(k) \/ WritePid(k) \/ Poll(k)
    \/ save(k) \/ Replace(k) \/ Leave(k) \/ Finally(k)

\* The watch is killed, or its alarm rings before the try block.  A child that
\* runs the voter has asked to die with its parent (limits, child_limits).
Vanish(k) ==
    /\ watch[k] \notin {"none", "gone"}
    /\ \/ ~killed /\ killed' = TRUE
       \/ ~Native /\ expired /\ watch[k] = "popen" /\ UNCHANGED killed
    /\ watch' = [watch EXCEPT ![k] = "gone"] /\ failed' = [failed EXCEPT ![k] = FALSE]
    /\ voter' = [voter EXCEPT ![k] = CASE @ = "running" -> "dying" [] @ = "zombie" -> "dead" [] OTHER -> @]
    /\ UNCHANGED <<kind, controller, acts, pidfile, tmp, resource, link, expired>>

\* The child asks, then becomes the voter, which ends if another one has the
\* directory.  One whose parent is gone before it asks, or before it looks who
\* its parent is, asks in vain.
Exec(k) ==
    /\ voter[k] = "forked"
    /\ voter' = [voter EXCEPT ![k] =
                    IF \E j \in Starts : voter[j] \in Living \cup {"orphan"} THEN "dying"
                    ELSE IF watch[k] = "gone" THEN "orphan" ELSE "running"]
    /\ UNCHANGED <<watch, files>> /\ Bystanders

Die(k) ==
    /\ voter[k] = "dying"
    /\ voter' = [voter EXCEPT ![k] = IF watch[k] = "gone" THEN "dead" ELSE "zombie"]
    /\ UNCHANGED <<watch, files>> /\ Bystanders

VoterStep(k) == Exec(k) \/ Die(k)

Expire ==
    /\ ~expired /\ expired' = TRUE
    /\ UNCHANGED <<kind, controller, acts, watch, voter, files, link, killed>>

Next ==
    \/ control \/ Timeout \/ Interrupt \/ Break \/ Expire
    \/ \E a \in acts : Action(a) \/ Remote(a)
    \/ \E k \in Starts : WatchStep(k) \/ VoterStep(k) \/ Vanish(k)

\* The clock, the watches and the kernel go on; the controller need not.
Spec ==
    /\ Init /\ [][Next]_vars /\ WF_vars(Expire)
    /\ \A k \in Starts : WF_vars(WatchStep(k)) /\ WF_vars(VoterStep(k))

-----------------------------------------------------------------------------
Present(k) == voter[k] \in {"forked", "running", "dying", "orphan"}
Coming(k) == watch[k] \in {"begun", "popen"} \/ Present(k)
Auditing == \E a \in acts : a.at = "reading"

TypeOK ==
    /\ kind \in {"native", "channel"} /\ phase \in {"main", "passed", "failed"}
    /\ \A a, b \in acts : a.id = b.id => a = b
    /\ pidfile \in -1..MaxStarts /\ {tmp, resource} \subseteq {"none", "fine", "error"}
    /\ link.to \in 0..MaxStarts
    /\ \A k \in Starts : watch[k] = "none" => voter[k] = "none"

\* On a host of the native soak no two voters have the data directory open, and
\* while an audit reads its files no voter has it open or is about to: start
\* confirms its voter before the controller may stop it, whatever actions the
\* controller has given up on and however late the watches are.
DirectoryIsExclusive ==
    /\ TypeOK
    /\ Native => /\ Cardinality({k \in Starts : Present(k)}) <= 1
                 /\ Auditing => \A k \in Starts : ~Coming(k)

\* Whatever happens to the controller and to its actions, no voter outlives the
\* deadline for long: every watch ends its child, and a child whose watch was
\* killed dies with it.  The one exception the code leaves is a watch killed
\* while its child is not yet the voter.
VotersExpire == <>[](\A k \in Starts : ~Present(k) \/ voter[k] = "orphan")
=============================================================================
