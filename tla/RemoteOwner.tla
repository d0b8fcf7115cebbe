----------------------------- MODULE RemoteOwner -----------------------------
(***************************************************************************)
(* The owner receipt of a remote data directory: who may serve it, and who *)
(* may stop the one that does.                                             *)
(*                                                                         *)
(* The directory may be a share of several hosts.  A desktop runs the      *)
(* remote entry on one of them: a probe, a serve or a stop.  Each does its *)
(* whole decision under one advisory guard; a serve publishes a receipt of *)
(* its process, lets the guard go and execs the server.  Nothing guards    *)
(* the processes themselves: they end, are reaped, have their numbers      *)
(* reused, and go with a reboot, between any two steps of a decision.      *)
(*                                                                         *)
(* A start identity stands for a process: it is never given out again,     *)
(* while its pid is.  A receipt is the identity of the process that        *)
(* published it, and says what that process was: host, boot, pid and       *)
(* session.  A desktop makes a session token for every serve, so the start *)
(* identity of its process stands for the session too.                     *)
(***************************************************************************)
EXTENDS Naturals

CONSTANTS
    Hosts,     \* hosts that share the data directory
    Pinning,   \* hosts whose kernel has pidfd signalling
    Pids,      \* process numbers, each of one host: <<host, number>>
    Runs,      \* runs of the remote entry at a time
    NoRun,     \* nobody holds the guard
    NoReceipt, \* no receipt is published
    Legacy,    \* a receipt of before fencing, which names no host
    MaxStarts, \* bound: processes started
    MaxFaults  \* bound: reboots, killed runs, and operations that fail

Starts == 1 .. MaxStarts

ASSUME HostsAssumption == Pinning \subseteq Hosts /\ Hosts # {}
ASSUME PidsAssumption == Pids \subseteq Hosts \X Nat /\ Pids # {}
ASSUME SentinelsAssumption ==
    /\ NoRun \notin Runs
    /\ {NoReceipt, Legacy} \cap Nat = {} /\ NoReceipt # Legacy
ASSUME LimitsAssumption == MaxStarts \in Nat /\ MaxFaults \in Nat

VARIABLES
    boot,    \* the boot each host is in
    proc,    \* every process ever started, by start identity
    next,    \* the next start identity
    receipt, \* the published receipt
    guard,   \* the run that holds the receipt guard
    run,     \* where each run of the entry is, and what it holds
    faults   \* faults so far

vars == <<boot, proc, next, receipt, guard, run, faults>>

Idle == [at |-> "idle", cmd |-> "none", host |-> CHOOSE h \in Hosts : TRUE,
         self |-> 0, session |-> 0, seen |-> 0, handle |-> 0]
Unborn == [state |-> "unborn", kind |-> "other", pid |-> CHOOSE p \in Pids : TRUE,
           boot |-> 0]

\* The directory may still hold the receipt of an older release.
Init ==
    /\ boot = [h \in Hosts |-> 0]
    /\ proc = [s \in Starts |-> Unborn]
    /\ next = 1
    /\ receipt \in {NoReceipt, Legacy}
    /\ guard = NoRun
    /\ run = [w \in Runs |-> Idle]
    /\ faults = 0

Fault == faults < MaxFaults /\ faults' = faults + 1

-----------------------------------------------------------------------------
(* Processes. *)

Running(s) == proc[s].state = "running"

HostOf(s) == proc[s].pid[1]

\* An ended process keeps its number, and its start identity in /proc, until it is
\* reaped.
Present(s) == proc[s].state \in {"running", "zombie"}
Holds(s, p) == Present(s) /\ proc[s].pid = p
Vacant(p) == \A s \in Starts : ~Holds(s, p)

Start(p, kind) ==
    /\ next \in Starts
    /\ Vacant(p)
    /\ next' = next + 1
    /\ proc' = [proc EXCEPT ![next] = [state |-> "running", kind |-> kind, pid |-> p,
                                       boot |-> boot[p[1]]]]

\* A process that is none of the desktop's takes a free number.
OtherStarts(p) ==
    /\ Start(p, "other")
    /\ UNCHANGED <<boot, receipt, guard, run, faults>>

\* A process ends by itself: a signalled server when its last connection closes,
\* any server with the channel that started it.  One that still runs the entry ends
\* with that run.
ProcessEnds(s) ==
    /\ Running(s)
    /\ \A w \in Runs : run[w].self # s
    /\ proc' = [proc EXCEPT ![s].state = "zombie"]
    /\ UNCHANGED <<boot, next, receipt, guard, run, faults>>

Reap(s) ==
    /\ proc[s].state = "zombie"
    /\ proc' = [proc EXCEPT ![s].state = "gone"]
    /\ UNCHANGED <<boot, next, receipt, guard, run, faults>>

\* A reboot ends every process and every run of the host, and its locks.
Reboot(h) ==
    /\ Fault
    /\ boot' = [boot EXCEPT ![h] = @ + 1]
    /\ proc' = [s \in Starts |-> IF Present(s) /\ HostOf(s) = h
                                 THEN [proc[s] EXCEPT !.state = "gone"] ELSE proc[s]]
    /\ run' = [w \in Runs |-> IF run[w].host = h THEN Idle ELSE run[w]]
    /\ guard' = IF guard # NoRun /\ run[guard].host = h THEN NoRun ELSE guard
    /\ UNCHANGED <<next, receipt>>

-----------------------------------------------------------------------------
(* Runs of the entry. *)

Goes(w, at) == run' = [run EXCEPT ![w].at = at]

\* Mutant: the guard is a file, which outlives the run that made it.
EndedLeavesGuard(w) ==
    /\ run' = [run EXCEPT ![w] = Idle]
    /\ guard' = guard
    /\ proc' = IF run[w].self = 0 THEN proc
               ELSE [proc EXCEPT ![run[w].self].state = "zombie"]

\* A run ends, and with it the guard it holds and the process that did not come to
\* exec a server.
Ended(w) ==
    /\ run' = [run EXCEPT ![w] = Idle]
    /\ guard' = IF guard = w THEN NoRun ELSE guard
    /\ proc' = IF run[w].self = 0 THEN proc
               ELSE [proc EXCEPT ![run[w].self].state = "zombie"]

\* A run that waits for the guard.
Waiting(cmd, host, self, session) ==
    [at |-> "guard", cmd |-> cmd, host |-> host, self |-> self, session |-> session,
     seen |-> 0, handle |-> 0]

BeginProbe(w, h) ==
    /\ run[w].at = "idle"
    /\ run' = [run EXCEPT ![w] = Waiting("probe", h, 0, 0)]
    /\ UNCHANGED <<boot, proc, next, receipt, guard, faults>>

\* A desktop stops a session that it started, on whatever host it reaches.
BeginStop(w, h, t) ==
    /\ run[w].at = "idle"
    /\ proc[t].kind # "other"
    /\ run' = [run EXCEPT ![w] = Waiting("stop", h, 0, t)]
    /\ UNCHANGED <<boot, proc, next, receipt, guard, faults>>

BeginServe(w, p) ==
    /\ run[w].at = "idle"
    /\ Start(p, "serve")
    /\ run' = [run EXCEPT ![w] = Waiting("serve", p[1], next, 0)]
    /\ UNCHANGED <<boot, receipt, guard, faults>>

\* A run is killed.  One that has published its receipt ends as the server would.
Killed(w) ==
    /\ run[w].at # "idle"
    /\ IF run[w].at = "exec" THEN UNCHANGED faults ELSE Fault
    /\ Ended(w)
    /\ UNCHANGED <<boot, next, receipt>>

\* Mutant: the guard does not exclude.
TakeGuardShared(w) ==
    /\ run[w].at = "guard"
    /\ guard' = w
    /\ Goes(w, IF run[w].cmd = "withdraw" THEN "compare" ELSE "read")
    /\ UNCHANGED <<boot, proc, next, receipt, faults>>

\* The guard is held over the whole decision.  A run that withdraws its receipt
\* after a failed exec takes it anew.
TakeGuard(w) ==
    /\ run[w].at = "guard"
    /\ guard = NoRun
    /\ guard' = w
    /\ Goes(w, IF run[w].cmd = "withdraw" THEN "compare" ELSE "read")
    /\ UNCHANGED <<boot, proc, next, receipt, faults>>

\* The guard cannot be opened, or is held for longer than the ten seconds a run
\* waits.
GuardRefused(w) ==
    /\ run[w].at = "guard"
    /\ Fault
    /\ Ended(w)
    /\ UNCHANGED <<boot, next, receipt>>

\* A step that only moves on, and one that ends the run with what it has found.
Advances(w, at) == Goes(w, at) /\ UNCHANGED <<boot, proc, next, receipt, guard, faults>>
Gives(w) == Ended(w) /\ UNCHANGED <<boot, next, receipt, faults>>

\* What follows a directory without a receipt: a serve publishes its own.
Cleared(w) ==
    IF run[w].cmd = "serve" THEN Goes(w, "publish") /\ UNCHANGED <<proc, guard>>
                            ELSE Ended(w)

-----------------------------------------------------------------------------
(* Reading the receipt.  A pid means something on its own host and boot only. *)

ReadNothing(w) ==
    /\ run[w].at = "read"
    /\ receipt = NoReceipt
    /\ Cleared(w)
    /\ UNCHANGED <<boot, next, receipt, faults>>

\* Mutant: the pid of another host is looked up here.
AdmitsForeign(w) == receipt \in Starts /\ (run[w].cmd = "stop" => receipt = run[w].session)

\* The receipt is one of this host, and for a stop one of its session.
Admits(w) ==
    /\ receipt \in Starts
    /\ HostOf(receipt) = run[w].host
    /\ run[w].cmd = "stop" => receipt = run[w].session

ReadRefused(w) ==
    /\ run[w].at = "read"
    /\ receipt # NoReceipt /\ ~Admits(w)
    /\ Gives(w)

\* The processes of an earlier boot are gone: no pid is looked at.
PriorBoot(w) == proc[receipt].boot # boot[run[w].host]

ReadOwner(w) ==
    /\ run[w].at = "read"
    /\ Admits(w)
    /\ run' = [run EXCEPT ![w] = [@ EXCEPT !.seen = receipt,
                                           !.at = IF PriorBoot(w) THEN "compare" ELSE "observe"]]
    /\ UNCHANGED <<boot, proc, next, receipt, guard, faults>>

-----------------------------------------------------------------------------
(* Observing the recorded process. *)

\* The recorded number is looked up where the run is.
SeenPid(w) == <<run[w].host, proc[run[w].seen].pid[2]>>
SeenLive(w) == Holds(run[w].seen, SeenPid(w))
SeenVacant(w) == Vacant(SeenPid(w))

\* A live owner keeps its receipt from a serve or a probe, the caller's own from
\* neither; a stop goes on to pin it.
ObserveLive(w) ==
    /\ run[w].at = "observe"
    /\ SeenLive(w)
    /\ IF run[w].cmd = "stop" THEN Advances(w, "open") ELSE Gives(w)

ObserveExited(w) ==
    /\ run[w].at = "observe"
    /\ SeenVacant(w)
    /\ Advances(w, "compare")

\* A pid with another start: gone for who wants to start, and no proof for who is to
\* say what became of it.
ObserveReplaced(w) ==
    /\ run[w].at = "observe"
    /\ ~SeenVacant(w) /\ ~SeenLive(w)
    /\ IF run[w].cmd = "stop" THEN Gives(w) ELSE Advances(w, "compare")

\* A receipt or an identity that cannot be read, and a process that cannot be read,
\* pinned, polled or signalled, settle nothing.
Unreadable(w) ==
    /\ run[w].at \in {"read", "observe", "open", "identify", "poll", "signal", "wait",
                      "watch"}
    /\ run[w].at \in {"observe", "watch"} => ~SeenVacant(w)
    /\ Fault
    /\ Ended(w)
    /\ UNCHANGED <<boot, next, receipt>>

-----------------------------------------------------------------------------
(* Stopping it: through one handle, or by watching alone. *)

\* The handle names whatever process has the pid now.
OpenPins(w) ==
    /\ run[w].at = "open" /\ run[w].host \in Pinning
    /\ \E s \in Starts :
           /\ Holds(s, SeenPid(w))
           /\ run' = [run EXCEPT ![w] = [@ EXCEPT !.handle = s, !.at = "identify"]]
    /\ UNCHANGED <<boot, proc, next, receipt, guard, faults>>

OpenVacant(w) ==
    /\ run[w].at = "open" /\ run[w].host \in Pinning
    /\ SeenVacant(w)
    /\ Advances(w, "compare")

OpenUnsupported(w) ==
    /\ run[w].at = "open" /\ run[w].host \notin Pinning
    /\ Advances(w, "watch")

\* Mutant: the start identity is not read again under the pin.
IdentifyTrusting(w) == run[w].at = "identify" /\ Advances(w, "poll")

\* With the pin held, the pid must still carry the recorded start.
Identify(w) ==
    /\ run[w].at = "identify"
    /\ IF SeenLive(w) THEN Advances(w, "poll") ELSE Gives(w)

Poll(w) ==
    /\ run[w].at = "poll"
    /\ Advances(w, IF Running(run[w].handle) THEN "signal" ELSE "compare")

\* Mutant: a process that was signalled is taken to be gone.
SignalConfirms(w) == run[w].at = "signal" /\ Advances(w, "compare")

\* One SIGTERM, through the handle.  What it does to the process is ProcessEnds, or
\* nothing.
Signal(w) ==
    /\ run[w].at = "signal"
    /\ Advances(w, "wait")

WaitExited(w) ==
    /\ run[w].at = "wait"
    /\ ~Running(run[w].handle)
    /\ Advances(w, "compare")

WatchExited(w) ==
    /\ run[w].at = "watch"
    /\ SeenVacant(w)
    /\ Advances(w, "compare")

\* The budget is spent, or the pid went to another process: the receipt stays.
Unconfirmed(w) ==
    /\ \/ run[w].at = "wait" /\ Running(run[w].handle)
       \/ run[w].at = "watch" /\ ~SeenVacant(w)
    /\ Gives(w)

-----------------------------------------------------------------------------
(* Removing a receipt and publishing one. *)

\* Only the receipt that was judged is removed.
Compare(w) ==
    /\ run[w].at = "compare"
    /\ IF receipt = run[w].seen THEN Advances(w, "remove")
       ELSE Cleared(w) /\ UNCHANGED <<boot, next, receipt, faults>>

Remove(w) ==
    /\ run[w].at = "remove"
    /\ receipt' = NoReceipt
    /\ Cleared(w)
    /\ UNCHANGED <<boot, next, faults>>

RemoveFails(w) ==
    /\ run[w].at = "remove"
    /\ Fault
    /\ Ended(w)
    /\ UNCHANGED <<boot, next, receipt>>

\* One hard link makes the whole receipt appear, over no other, and the guard goes.
Publish(w) ==
    /\ run[w].at = "publish"
    /\ receipt = NoReceipt
    /\ receipt' = run[w].self
    /\ proc' = [proc EXCEPT ![run[w].self].kind = "owner"]
    /\ guard' = NoRun
    /\ Goes(w, "exec")
    /\ UNCHANGED <<boot, next, faults>>

PublishRefused(w) ==
    /\ run[w].at = "publish"
    /\ IF receipt = NoReceipt THEN Fault ELSE UNCHANGED faults
    /\ Ended(w)
    /\ UNCHANGED <<boot, next, receipt>>

\* The process goes on as the server, and keeps its identity.
Exec(w) ==
    /\ run[w].at = "exec"
    /\ run' = [run EXCEPT ![w] = Idle]
    /\ UNCHANGED <<boot, proc, next, receipt, guard, faults>>

ExecFails(w) ==
    /\ run[w].at = "exec"
    /\ Fault
    /\ run' = [run EXCEPT ![w] = [Waiting("withdraw", @.host, @.self, 0) EXCEPT
                                       !.seen = run[w].self]]
    /\ UNCHANGED <<boot, proc, next, receipt, guard>>

\* The one step a refusal of an unfenced receipt names: it is removed by hand.
OperatorClears ==
    /\ receipt = Legacy
    /\ receipt' = NoReceipt
    /\ UNCHANGED <<boot, proc, next, guard, run, faults>>

-----------------------------------------------------------------------------
Step(w) ==
    \/ TakeGuard(w)
    \/ ReadNothing(w) \/ ReadRefused(w) \/ ReadOwner(w)
    \/ ObserveLive(w) \/ ObserveExited(w) \/ ObserveReplaced(w)
    \/ OpenPins(w) \/ OpenVacant(w) \/ OpenUnsupported(w) \/ Identify(w) \/ Poll(w)
    \/ Signal(w) \/ WaitExited(w) \/ WatchExited(w) \/ Unconfirmed(w)
    \/ Compare(w) \/ Remove(w) \/ Publish(w) \/ PublishRefused(w) \/ Exec(w)

Fails(w) ==
    \/ Killed(w) \/ GuardRefused(w) \/ Unreadable(w) \/ RemoveFails(w)
    \/ ExecFails(w)

Begin(w) ==
    \/ \E h \in Hosts : BeginProbe(w, h) \/ \E t \in Starts : BeginStop(w, h, t)
    \/ \E p \in Pids : BeginServe(w, p)

Next ==
    \/ \E w \in Runs : Step(w) \/ Fails(w) \/ Begin(w)
    \/ \E s \in Starts : ProcessEnds(s) \/ Reap(s)
    \/ \E h \in Hosts : Reboot(h)
    \/ \E p \in Pids : OtherStarts(p)
    \/ OperatorClears

Spec == Init /\ [][Next]_vars

-----------------------------------------------------------------------------
(* Fairness.  A run that is not killed goes on; a hold of the guard is over before *)
(* those who wait for it give up; an ended process is reaped; and the desktop of a *)
(* host probes the directory again, as it does before every start.                 *)

Fairness ==
    /\ \A w \in Runs : WF_vars(Step(w)) /\ SF_vars(TakeGuard(w))
    /\ \A h \in Hosts : SF_vars(\E w \in Runs : BeginProbe(w, h))
    /\ WF_vars(\E s \in Starts : Reap(s))

FairSpec == Spec /\ Fairness

-----------------------------------------------------------------------------
(* Properties. *)

Places == {"idle", "guard", "read", "observe", "open", "identify", "poll", "signal",
           "wait", "watch", "compare", "remove", "publish", "exec"}
Processes == [state : {"unborn", "running", "zombie", "gone"},
              kind : {"other", "serve", "owner"}, pid : Pids, boot : Nat]
RunStates == [at : Places, cmd : {"none", "probe", "stop", "serve", "withdraw"},
              host : Hosts, self : Starts \cup {0}, session : Starts \cup {0},
              seen : Starts \cup {0}, handle : Starts \cup {0}]

\* Every variable keeps the shape that the code gives it.
TypeOK ==
    /\ boot \in [Hosts -> Nat]
    /\ proc \in [Starts -> Processes]
    /\ next \in 1 .. MaxStarts + 1
    /\ receipt \in Starts \cup {NoReceipt, Legacy}
    /\ guard \in Runs \cup {NoRun}
    /\ run \in [Runs -> RunStates]
    /\ faults \in Nat

Serving(s) == Running(s) /\ proc[s].kind = "owner"

\* The receipt of a server that runs is never removed or replaced, whatever probes,
\* starts and stops decide meanwhile on any host: so no two servers ever run under
\* a receipt of their own.
ServingIsRecorded == \A s \in Starts : Serving(s) => receipt = s

\* A stop that is to report its owner gone is right, and for good, though pids are
\* reused between its steps and it may never have signalled anything.
ConfirmedIsGone ==
    \A w \in Runs : run[w].cmd = "stop" /\ run[w].at \in {"compare", "remove"} =>
        ~Running(run[w].session)

\* A stop signals the process that its own session started and that published its
\* receipt, whoever has the pid by then.
SignalsItsOwn ==
    \A w \in Runs : run[w].at = "signal" =>
        run[w].handle = run[w].session /\ proc[run[w].handle].kind = "owner"

\* The receipt does what OneOwner promises: see there.
Single == INSTANCE OneOwner WITH
    Owners <- Starts,
    None <- NoReceipt,
    claim <- receipt,
    serving <- {s \in Starts : Serving(s)}
ImplementsOneOwner == Single!Spec

\* The receipt that an ended owner leaves, by a crash, a failed exec or a reboot, does
\* not keep the directory from being served: its host clears it in the end.
Abandoned == receipt \in Starts /\ ~Running(receipt)
AbandonedIsCleared == Abandoned ~> ~Abandoned
-----------------------------------------------------------------------------
(* The inductive invariant. *)

Inside == Places \ {"idle", "guard", "exec"}

\* Start identities are given out in order, one process has a number at a time, and
\* none outlives the boot it was started in.
ProcessesInv ==
    /\ \A s \in Starts : s >= next <=> proc[s].state = "unborn"
    /\ \A s \in Starts : proc[s].state = "unborn" => proc[s].kind = "other"
    /\ \A s, t \in Starts : Present(s) /\ Holds(t, proc[s].pid) => s = t
    /\ \A s \in Starts : Present(s) => proc[s].boot = boot[HostOf(s)]

\* The guard is held by the run that decides.
GuardInv == \A w \in Runs : run[w].at \in Inside <=> guard = w

\* A serve runs in a process of its own, an owner once it has published.
ServesInv ==
    /\ \A w \in Runs : run[w].self # 0 <=> run[w].cmd \in {"serve", "withdraw"}
    /\ \A w \in Runs : run[w].self # 0 =>
           /\ Running(run[w].self) /\ HostOf(run[w].self) = run[w].host
           /\ proc[run[w].self].kind =
                  IF run[w].at = "exec" \/ run[w].cmd = "withdraw" THEN "owner" ELSE "serve"
    /\ \A v, w \in Runs : run[w].self # 0 /\ run[v].self = run[w].self => v = w
    /\ \A w \in Runs : run[w].at \in {"exec", "publish"} => run[w].cmd = "serve"
    /\ \A w \in Runs : run[w].cmd = "withdraw" =>
           run[w].at \in {"guard", "compare", "remove"} /\ run[w].seen = run[w].self
    /\ \A w \in Runs : run[w].cmd = "none" <=> run[w].at = "idle"

\* What a run has judged is still the receipt, and still true, when it acts on it.
JudgedInv ==
    /\ receipt \in Starts => proc[receipt].kind = "owner"
    /\ \A w \in Runs : run[w].at = "publish" => receipt = NoReceipt
    /\ \A w \in Runs : run[w].at \in Inside \ {"read", "publish"} =>
           /\ receipt = run[w].seen /\ receipt \in Starts /\ HostOf(receipt) = run[w].host
           /\ run[w].cmd = "stop" => receipt = run[w].session
    /\ \A w \in Runs : run[w].at \in {"open", "identify", "poll", "signal", "wait", "watch"} =>
           run[w].cmd = "stop"
    /\ \A w \in Runs : run[w].at = "identify" =>
           /\ run[w].handle \in Starts
           /\ SeenLive(w) => run[w].handle = run[w].seen
    /\ \A w \in Runs : run[w].at \in {"poll", "signal", "wait"} => run[w].handle = run[w].seen
    /\ \A w \in Runs : run[w].at \in {"compare", "remove"} /\ run[w].cmd # "withdraw" =>
           ~Running(run[w].seen)

\* The strengthening that every step keeps.  The receipt of a running server survives
\* because nothing removes a receipt but a run that holds the guard, saw its process
\* ended, and has kept the guard since: an ended process stays ended.
OwnerInv ==
    TypeOK /\ ServingIsRecorded /\ ProcessesInv /\ GuardInv /\ ServesInv /\ JudgedInv

=============================================================================
