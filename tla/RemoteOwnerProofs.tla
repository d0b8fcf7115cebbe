-------------------------- MODULE RemoteOwnerProofs --------------------------
(***************************************************************************)
(* The owner receipt for any hosts, pids, runs, processes and faults: the  *)
(* invariant of RemoteOwner, what a stop may signal and report, and that   *)
(* the receipt implements OneOwner.                                        *)
(***************************************************************************)
EXTENDS RemoteOwner, TLAPS

-----------------------------------------------------------------------------
(* Types. *)

LEMMA StartsAre ==
    /\ Starts \subseteq Nat /\ 0 \notin Starts
    /\ NoReceipt \notin Starts /\ Legacy \notin Starts
    /\ NoReceipt \notin Nat /\ Legacy \notin Nat
    /\ NoReceipt # Legacy /\ NoRun \notin Runs
  <1>1. Starts \subseteq Nat /\ 0 \notin Starts
    BY LimitsAssumption, SMT DEF Starts
  <1>2. NoReceipt \notin Nat /\ Legacy \notin Nat /\ NoReceipt # Legacy /\ NoRun \notin Runs
    BY SentinelsAssumption, Zenon
  <1> QED
    BY <1>1, <1>2

LEMMA PidsAre ==
    ASSUME NEW p \in Pids
    PROVE  p[1] \in Hosts /\ p = <<p[1], p[2]>>
  BY PidsAssumption, SMT

LEMMA IdleType ==
    /\ Idle \in RunStates
    /\ Idle.at = "idle" /\ Idle.cmd = "none" /\ Idle.self = 0 /\ Idle.host \in Hosts
    /\ Idle.session = 0 /\ Idle.seen = 0 /\ Idle.handle = 0
  <1>1. (CHOOSE h \in Hosts : TRUE) \in Hosts
    BY HostsAssumption, Zenon
  <1> QED
    BY <1>1, SMT DEF Idle, RunStates, Places

LEMMA UnbornType == Unborn \in Processes /\ Unborn.state = "unborn" /\ Unborn.kind = "other"
  <1>1. (CHOOSE p \in Pids : TRUE) \in Pids
    BY PidsAssumption, Zenon
  <1> QED
    BY <1>1, SMT DEF Unborn, Processes

LEMMA InsideIs ==
    Inside = {"read", "observe", "open", "identify", "poll", "signal", "wait", "watch",
              "compare", "remove", "publish"}
  BY SMT DEF Inside, Places

LEMMA RunType ==
    ASSUME TypeOK, NEW w \in Runs
    PROVE  /\ run[w] \in RunStates
           /\ run[w].at \in Places /\ run[w].host \in Hosts
           /\ run[w].cmd \in {"none", "probe", "stop", "serve", "withdraw"}
           /\ run[w].self \in Starts \cup {0} /\ run[w].seen \in Starts \cup {0}
           /\ run[w].session \in Starts \cup {0} /\ run[w].handle \in Starts \cup {0}
  <1>1. run[w] \in RunStates
    BY DEF TypeOK
  <1> QED
    BY <1>1, SMT DEF RunStates

\* What a run keeps while it moves on.
Same(q, r) ==
    /\ q \in RunStates /\ q.cmd = r.cmd /\ q.host = r.host
    /\ q.self = r.self /\ q.session = r.session

LEMMA AtSet ==
    ASSUME NEW r \in RunStates, NEW a \in Places, NEW q, q = [r EXCEPT !.at = a]
    PROVE  Same(q, r) /\ q.at = a /\ q.seen = r.seen /\ q.handle = r.handle
  BY SMT DEF RunStates, Same

LEMMA SeenSet ==
    ASSUME NEW r \in RunStates, NEW x \in Starts \cup {0}, NEW q, q = [r EXCEPT !.seen = x]
    PROVE  Same(q, r) /\ q.at = r.at /\ q.seen = x /\ q.handle = r.handle
  BY SMT DEF RunStates, Same

LEMMA HandleSet ==
    ASSUME NEW r \in RunStates, NEW x \in Starts \cup {0}, NEW q,
           q = [r EXCEPT !.handle = x]
    PROVE  Same(q, r) /\ q.at = r.at /\ q.seen = r.seen /\ q.handle = x
  BY SMT DEF RunStates, Same

LEMMA SeenAndAtSet ==
    ASSUME NEW r \in RunStates, NEW a \in Places, NEW x \in Starts \cup {0}
    PROVE  LET q == [r EXCEPT !.seen = x, !.at = a]
           IN  Same(q, r) /\ q.at = a /\ q.seen = x /\ q.handle = r.handle
  <1> DEFINE z == [r EXCEPT !.seen = x]
             q == [z EXCEPT !.at = a]
  <1>1. Same(z, r) /\ z.seen = x /\ z.handle = r.handle
    BY SeenSet, Zenon
  <1>2. z \in RunStates
    BY <1>1, Zenon DEF Same
  <1> HIDE DEF z
  <1>3. Same(q, z) /\ q.at = a /\ q.seen = z.seen /\ q.handle = z.handle
    BY <1>2, AtSet, Zenon
  <1>4. [r EXCEPT !.seen = x, !.at = a] = q
    BY DEF z
  <1> HIDE DEF q
  <1> QED
    BY <1>1, <1>3, <1>4, Zenon DEF Same

\* A run that pinned a process.
Pinned(r, x) == [r EXCEPT !.handle = x, !.at = "identify"]

LEMMA PinnedSet ==
    ASSUME NEW r \in RunStates, NEW x \in Starts \cup {0}
    PROVE  /\ Same(Pinned(r, x), r) /\ Pinned(r, x).at = "identify"
           /\ Pinned(r, x).seen = r.seen /\ Pinned(r, x).handle = x
  <1> DEFINE z == [r EXCEPT !.handle = x]
             q == [z EXCEPT !.at = "identify"]
  <1>1. Same(z, r) /\ z.seen = r.seen /\ z.handle = x
    BY HandleSet, Zenon
  <1>2. z \in RunStates /\ "identify" \in Places
    BY <1>1, Zenon DEF Same, Places
  <1>3. Pinned(r, x) = q
    BY DEF Pinned
  <1> HIDE DEF z
  <1>4. Same(q, z) /\ q.at = "identify" /\ q.seen = z.seen /\ q.handle = z.handle
    BY <1>2, AtSet, Zenon
  <1> HIDE DEF q
  <1> QED
    BY <1>1, <1>3, <1>4, Zenon DEF Same

LEMMA ProcType ==
    ASSUME TypeOK, NEW s \in Starts
    PROVE  /\ proc[s] \in Processes
           /\ proc[s].state \in {"unborn", "running", "zombie", "gone"}
           /\ proc[s].kind \in {"other", "serve", "owner"}
           /\ proc[s].pid \in Pids /\ proc[s].boot \in Nat
           /\ HostOf(s) \in Hosts /\ proc[s].pid = <<HostOf(s), proc[s].pid[2]>>
  <1>1. proc[s] \in Processes
    BY DEF TypeOK
  <1>2. proc[s].pid \in Pids
    BY <1>1, SMT DEF Processes
  <1> QED
    BY <1>1, <1>2, PidsAre, SMT DEF Processes, HostOf

LEMMA InitType == Init => OwnerInv
  <1> SUFFICES ASSUME Init PROVE OwnerInv
    OBVIOUS
  <1>1. TypeOK
    BY StartsAre, IdleType, UnbornType, LimitsAssumption, SMT
       DEF Init, TypeOK, Starts
  <1>2. ServingIsRecorded
    BY UnbornType, SMT DEF Init, ServingIsRecorded, Serving, Running
  <1>3. ProcessesInv
    BY UnbornType, SMT DEF Init, ProcessesInv, Present, Holds, Starts
  <1>4. GuardInv
    BY IdleType, InsideIs, StartsAre DEF Init, GuardInv
  <1>5. ServesInv
    BY IdleType DEF Init, ServesInv
  <1>6. JudgedInv
    BY IdleType, InsideIs, StartsAre DEF Init, JudgedInv
  <1> QED
    BY <1>1, <1>2, <1>3, <1>4, <1>5, <1>6 DEF OwnerInv

-----------------------------------------------------------------------------
(* Steps of the guard holder that leave the receipt and the processes alone. *)

LEMMA Holder ==
    ASSUME OwnerInv, NEW w \in Runs, run[w].at \in Inside
    PROVE  /\ guard = w
           /\ \A v \in Runs : run[v].at \in Inside => v = w
  BY DEF OwnerInv, GuardInv

\* What the holder may move on to, by what it has established.
MayBeAt(w, at) ==
    /\ at \in Inside \ {"read", "publish"}
    /\ run[w].cmd = "withdraw" => at \in {"compare", "remove"}
    /\ at \in {"open", "identify", "poll", "signal", "wait", "watch"} => run[w].cmd = "stop"
    /\ at # "identify"
    /\ at \in {"poll", "signal", "wait"} => run[w].handle = run[w].seen
    /\ at \in {"compare", "remove"} /\ run[w].cmd # "withdraw" => ~Running(run[w].seen)

LEMMA AdvancesKeeps ==
    ASSUME OwnerInv, NEW w \in Runs, NEW at, Advances(w, at), MayBeAt(w, at),
           run[w].at \in Inside \ {"read", "publish"}
    PROVE  OwnerInv'
  <1>1. /\ run' = [run EXCEPT ![w].at = at]
        /\ boot' = boot /\ proc' = proc /\ next' = next /\ receipt' = receipt
        /\ guard' = guard /\ faults' = faults
    BY DEF Advances, Goes
  <1>2. TypeOK /\ run \in [Runs -> RunStates] /\ at \in Places
    BY InsideIs DEF OwnerInv, TypeOK, MayBeAt, Places
  <1>3. /\ \A v \in Runs : v # w => run'[v] = run[v]
        /\ run'[w] \in RunStates
        /\ run'[w].at = at /\ run'[w].cmd = run[w].cmd /\ run'[w].host = run[w].host
        /\ run'[w].self = run[w].self /\ run'[w].session = run[w].session
        /\ run'[w].seen = run[w].seen /\ run'[w].handle = run[w].handle
    BY <1>1, <1>2, SMT DEF RunStates
  <1>4. TypeOK'
    BY <1>1, <1>2, <1>3, SMT DEF TypeOK
  <1>5. ServingIsRecorded' /\ ProcessesInv'
    BY <1>1 DEF OwnerInv, ServingIsRecorded, ProcessesInv, Serving, Running, Present,
       Holds, HostOf
  <1>6. GuardInv'
    BY <1>1, <1>3 DEF OwnerInv, GuardInv, MayBeAt
  <1>7. ServesInv'
    BY <1>1, <1>3, InsideIs, SMT DEF OwnerInv, ServesInv, MayBeAt, Running, HostOf
  <1>8. JudgedInv'
    BY <1>1, <1>3, InsideIs, SMT
       DEF OwnerInv, JudgedInv, MayBeAt, Running, Present, Holds, HostOf, SeenLive, SeenPid
  <1> QED
    BY <1>4, <1>5, <1>6, <1>7, <1>8 DEF OwnerInv

LEMMA ObserveKeeps ==
    ASSUME OwnerInv, NEW w \in Runs, run[w].at = "observe", run[w].cmd # "withdraw",
           \/ ObserveLive(w) /\ run[w].cmd = "stop"
           \/ ObserveExited(w)
           \/ ObserveReplaced(w) /\ run[w].cmd # "stop"
    PROVE  OwnerInv'
  <1>1. /\ run[w].seen \in Starts /\ HostOf(run[w].seen) = run[w].host
        /\ proc[run[w].seen].pid = SeenPid(w)
    BY InsideIs, ProcType DEF OwnerInv, JudgedInv, SeenPid
  <1>2. CASE ObserveLive(w) /\ run[w].cmd = "stop"
    <2>1. MayBeAt(w, "open") /\ Advances(w, "open")
      BY <1>2, InsideIs DEF MayBeAt, ObserveLive
    <2> QED
      BY <2>1, AdvancesKeeps, InsideIs
  <1>3. CASE SeenVacant(w) \/ ~SeenLive(w)
    <2>1. ~Running(run[w].seen)
      BY <1>1, <1>3 DEF SeenVacant, SeenLive, Vacant, Holds, Present, Running
    <2>2. MayBeAt(w, "compare")
      BY <2>1, InsideIs DEF MayBeAt
    <2>3. CASE Advances(w, "compare")
      BY <2>2, <2>3, AdvancesKeeps, InsideIs
    <2> QED
      BY <1>2, <2>3 DEF ObserveExited, ObserveReplaced
  <1> QED
    BY <1>2, <1>3 DEF ObserveExited, ObserveReplaced

LEMMA StopKeeps ==
    ASSUME OwnerInv, NEW w \in Runs,
           \/ OpenVacant(w) \/ OpenUnsupported(w)
           \/ Identify(w) /\ SeenLive(w)
           \/ Poll(w) \/ Signal(w) \/ WaitExited(w) \/ WatchExited(w)
    PROVE  OwnerInv'
  <1>1. /\ run[w].at \in {"open", "identify", "poll", "signal", "wait", "watch"}
        /\ run[w].at \in Inside \ {"read", "publish"}
    BY InsideIs DEF OpenVacant, OpenUnsupported, Identify, Poll, Signal, WaitExited,
       WatchExited
  <1>2. /\ run[w].cmd = "stop"
        /\ run[w].seen \in Starts /\ HostOf(run[w].seen) = run[w].host
        /\ run[w].at = "identify" /\ SeenLive(w) => run[w].handle = run[w].seen
        /\ run[w].at \in {"poll", "signal", "wait"} => run[w].handle = run[w].seen
    BY <1>1, InsideIs DEF OwnerInv, JudgedInv
  <1>3. proc[run[w].seen].pid = SeenPid(w)
    BY <1>2, ProcType DEF OwnerInv, SeenPid
  <1>4. SeenVacant(w) => ~Running(run[w].seen)
    BY <1>2, <1>3 DEF SeenVacant, Vacant, Holds, Present, Running
  <1>5. CASE Advances(w, "compare") /\ (SeenVacant(w) \/ ~Running(run[w].seen))
    <2>1. MayBeAt(w, "compare")
      BY <1>2, <1>4, <1>5, InsideIs DEF MayBeAt
    <2> QED
      BY <1>1, <1>5, <2>1, AdvancesKeeps
  <1>6. CASE /\ \/ Advances(w, "watch")
                \/ Identify(w) /\ Advances(w, "poll")
                \/ Poll(w) /\ Advances(w, "signal")
                \/ Signal(w) /\ Advances(w, "wait")
             /\ Identify(w) => SeenLive(w)
    <2>1. ASSUME NEW at \in {"watch", "poll", "signal", "wait"}, Advances(w, at),
                 at # "watch" => run[w].handle = run[w].seen
          PROVE  OwnerInv'
      <3>1. MayBeAt(w, at)
        BY <1>2, <2>1, InsideIs DEF MayBeAt
      <3> QED
        BY <1>1, <2>1, <3>1, AdvancesKeeps
    <2> QED
      BY <1>2, <1>6, <2>1 DEF Identify, Poll, Signal
  <1>7. CASE Identify(w) /\ SeenLive(w)
    BY <1>6, <1>7 DEF Identify
  <1>8. CASE Poll(w)
    BY <1>2, <1>5, <1>6, <1>8 DEF Poll, Identify
  <1>9. CASE Signal(w)
    BY <1>6, <1>9 DEF Signal, Identify
  <1>10. CASE WaitExited(w)
    BY <1>2, <1>5, <1>10 DEF WaitExited
  <1>11. CASE OpenVacant(w) \/ WatchExited(w)
    BY <1>5, <1>11 DEF OpenVacant, WatchExited
  <1>12. CASE OpenUnsupported(w)
    BY <1>6, <1>12 DEF OpenUnsupported, Identify
  <1> QED
    BY <1>7, <1>8, <1>9, <1>10, <1>11, <1>12

\* A run that has judged finds the receipt it judged.
LEMMA CompareFinds ==
    ASSUME OwnerInv, NEW w \in Runs, Compare(w)
    PROVE  receipt = run[w].seen /\ Advances(w, "remove")
  BY InsideIs DEF OwnerInv, JudgedInv, Compare

LEMMA CompareKeeps ==
    ASSUME OwnerInv, NEW w \in Runs, Compare(w)
    PROVE  OwnerInv'
  <1>1. run[w].at = "compare" /\ MayBeAt(w, "remove")
    BY InsideIs DEF OwnerInv, JudgedInv, Compare, MayBeAt
  <1> QED
    BY <1>1, CompareFinds, AdvancesKeeps, InsideIs

LEMMA OpenPinsKeeps ==
    ASSUME OwnerInv, NEW w \in Runs, OpenPins(w)
    PROVE  OwnerInv'
  <1>1. PICK s \in Starts : /\ Holds(s, SeenPid(w))
                            /\ run' = [run EXCEPT ![w] = [@ EXCEPT !.handle = s, !.at = "identify"]]
    BY DEF OpenPins
  <1>2. /\ boot' = boot /\ proc' = proc /\ next' = next /\ receipt' = receipt
        /\ guard' = guard /\ faults' = faults /\ run[w].at = "open"
    BY DEF OpenPins
  <1>3. TypeOK /\ run \in [Runs -> RunStates]
    BY DEF OwnerInv, TypeOK
  <1>4. /\ \A v \in Runs : v # w => run'[v] = run[v]
        /\ run'[w] \in RunStates
        /\ run'[w].at = "identify" /\ run'[w].cmd = run[w].cmd
        /\ run'[w].host = run[w].host
        /\ run'[w].self = run[w].self /\ run'[w].session = run[w].session
        /\ run'[w].seen = run[w].seen /\ run'[w].handle = s
    <2>1. /\ run'[w] = Pinned(run[w], s)
          /\ \A v \in Runs : v # w => run'[v] = run[v]
      BY <1>1, <1>3, Zenon DEF Pinned
    <2>2. run[w] \in RunStates /\ s \in Starts \cup {0}
      BY <1>3
    <2>3. /\ Same(Pinned(run[w], s), run[w]) /\ Pinned(run[w], s).at = "identify"
          /\ Pinned(run[w], s).seen = run[w].seen /\ Pinned(run[w], s).handle = s
      BY <2>2, PinnedSet, Zenon
    <2> QED
      BY <2>1, <2>3 DEF Same
  <1>5. /\ run[w].cmd = "stop" /\ run[w].seen \in Starts
        /\ receipt = run[w].seen /\ HostOf(receipt) = run[w].host
        /\ receipt = run[w].session
    BY <1>2, InsideIs DEF OwnerInv, JudgedInv
  <1>6. SeenLive(w) => s = run[w].seen
    BY <1>1, <1>5 DEF OwnerInv, ProcessesInv, SeenLive, Holds, Present
  <1>7. TypeOK'
    BY <1>1, <1>2, <1>3, <1>4, SMT DEF TypeOK
  <1>8. ServingIsRecorded' /\ ProcessesInv'
    BY <1>2 DEF OwnerInv, ServingIsRecorded, ProcessesInv, Serving, Running, Present,
       Holds, HostOf
  <1>9. GuardInv'
    BY <1>2, <1>4, InsideIs DEF OwnerInv, GuardInv
  <1>10. ServesInv'
    BY <1>2, <1>4, <1>5, InsideIs, SMT DEF OwnerInv, ServesInv, Running, HostOf
  <1>11. JudgedInv'
    BY <1>2, <1>4, <1>5, <1>6, InsideIs, SMT
       DEF OwnerInv, JudgedInv, Running, Present, Holds, HostOf, SeenLive, SeenPid
  <1> QED
    BY <1>7, <1>8, <1>9, <1>10, <1>11 DEF OwnerInv

LEMMA ReadOwnerKeeps ==
    ASSUME OwnerInv, NEW w \in Runs, ReadOwner(w)
    PROVE  OwnerInv'
  <1>1. PICK at \in {"compare", "observe"} :
            /\ run' = [run EXCEPT ![w] = [@ EXCEPT !.seen = receipt, !.at = at]]
            /\ at = "compare" => PriorBoot(w)
    BY DEF ReadOwner
  <1>2. /\ boot' = boot /\ proc' = proc /\ next' = next /\ receipt' = receipt
        /\ guard' = guard /\ faults' = faults /\ run[w].at = "read" /\ Admits(w)
    BY DEF ReadOwner
  <1>3. TypeOK /\ run \in [Runs -> RunStates] /\ receipt \in Starts
    BY <1>2 DEF OwnerInv, TypeOK, Admits
  <1>4. /\ \A v \in Runs : v # w => run'[v] = run[v]
        /\ run'[w] \in RunStates
        /\ run'[w].at = at /\ run'[w].cmd = run[w].cmd /\ run'[w].host = run[w].host
        /\ run'[w].self = run[w].self /\ run'[w].session = run[w].session
        /\ run'[w].seen = receipt /\ run'[w].handle = run[w].handle
    <2> DEFINE q == [run[w] EXCEPT !.seen = receipt, !.at = at]
    <2>1. /\ run'[w] = q
          /\ \A v \in Runs : v # w => run'[v] = run[v]
      BY <1>1, <1>3, Zenon
    <2>2. run[w] \in RunStates /\ at \in Places /\ receipt \in Starts \cup {0}
      BY <1>3 DEF Places
    <2>3. Same(q, run[w]) /\ q.at = at /\ q.seen = receipt /\ q.handle = run[w].handle
      BY <2>2, SeenAndAtSet, Zenon
    <2> HIDE DEF q
    <2> QED
      BY <2>1, <2>3, Zenon DEF Same
  <1>5. /\ HostOf(receipt) = run[w].host
        /\ run[w].cmd = "stop" => receipt = run[w].session
        /\ run[w].cmd # "withdraw"
    BY <1>2, InsideIs DEF Admits, OwnerInv, ServesInv
  <1>6. at = "compare" => ~Running(receipt)
    BY <1>1, <1>3, <1>5 DEF PriorBoot, OwnerInv, ProcessesInv, Present, Running
  <1>7. TypeOK'
    BY <1>1, <1>2, <1>3, <1>4, SMT DEF TypeOK
  <1>8. ServingIsRecorded' /\ ProcessesInv'
    BY <1>2 DEF OwnerInv, ServingIsRecorded, ProcessesInv, Serving, Running, Present,
       Holds, HostOf
  <1>9. GuardInv'
    BY <1>2, <1>4, InsideIs DEF OwnerInv, GuardInv
  <1>10. ServesInv'
    BY <1>2, <1>4, <1>5, InsideIs, SMT DEF OwnerInv, ServesInv, Running, HostOf
  <1>11. JudgedInv'
    BY <1>2, <1>3, <1>4, <1>5, <1>6, InsideIs, SMT
       DEF OwnerInv, JudgedInv, Running, Present, Holds, HostOf, SeenLive, SeenPid
  <1> QED
    BY <1>7, <1>8, <1>9, <1>10, <1>11 DEF OwnerInv

-----------------------------------------------------------------------------
(* Steps that end processes, and runs with them. *)

\* Processes that only grow older: none starts, and none runs again.
Ages ==
    /\ proc' \in [Starts -> Processes]
    /\ \A s \in Starts :
           /\ proc'[s].kind = proc[s].kind /\ proc'[s].pid = proc[s].pid
           /\ proc'[s].boot = proc[s].boot
           /\ proc'[s].state = "unborn" <=> proc[s].state = "unborn"
           /\ proc'[s].state = "running" => proc[s].state = "running"
           /\ proc'[s].state \in {"running", "zombie"} =>
                  proc[s].state \in {"running", "zombie"}

LEMMA StateSet ==
    ASSUME TypeOK, NEW t \in Starts, NEW x \in {"zombie", "gone"},
           proc' = [proc EXCEPT ![t].state = x],
           proc[t].state \in {"running", "zombie"}, x = "zombie" => proc[t].state = "running"
    PROVE  Ages /\ proc'[t].state = x /\ \A s \in Starts : s # t => proc'[s] = proc[s]
  <1>1. proc \in [Starts -> Processes]
    BY DEF TypeOK
  <1>2. /\ proc'[t] \in Processes /\ proc'[t].state = x
        /\ proc'[t].kind = proc[t].kind /\ proc'[t].pid = proc[t].pid
        /\ proc'[t].boot = proc[t].boot
        /\ \A s \in Starts : s # t => proc'[s] = proc[s]
    BY <1>1, SMT DEF Processes
  <1>3. proc' \in [Starts -> Processes]
    BY <1>1, <1>2, SMT
  <1> QED
    BY <1>2, <1>3, SMT DEF Ages

LEMMA AgesKeeps ==
    ASSUME OwnerInv, Ages, UNCHANGED <<boot, next>>
    PROVE  ProcessesInv'
  BY SMT DEF OwnerInv, Ages, ProcessesInv, Present, Holds, HostOf

LEMMA EndedAges ==
    ASSUME OwnerInv, NEW w \in Runs, Ended(w)
    PROVE  /\ Ages
           /\ run[w].self # 0 => run[w].self \in Starts /\ proc'[run[w].self].state # "running"
           /\ \A s \in Starts : s # run[w].self => proc'[s] = proc[s]
           /\ \A v \in Runs : v # w => run'[v] = run[v]
           /\ run'[w] = Idle /\ run' \in [Runs -> RunStates]
           /\ guard' = IF guard = w THEN NoRun ELSE guard
  <1>1. TypeOK /\ run \in [Runs -> RunStates]
    BY DEF OwnerInv, TypeOK
  <1>2. /\ \A v \in Runs : v # w => run'[v] = run[v]
        /\ run'[w] = Idle /\ run' \in [Runs -> RunStates]
        /\ guard' = IF guard = w THEN NoRun ELSE guard
    BY <1>1, IdleType, SMT DEF Ended
  <1>3. CASE run[w].self = 0
    <2>1. proc' = proc
      BY <1>3 DEF Ended
    <2>2. Ages
      BY <1>1, <2>1 DEF Ages, TypeOK
    <2>3. \A s \in Starts : s # run[w].self => proc'[s] = proc[s]
      BY <2>1
    <2>4. run[w].self # 0 => run[w].self \in Starts /\ proc'[run[w].self].state # "running"
      BY <1>3
    <2> QED
      BY <1>2, <2>2, <2>3, <2>4, Zenon
  <1>4. CASE run[w].self # 0
    <2>1. run[w].self \in Starts /\ Running(run[w].self)
      BY <1>1, <1>4, RunType DEF OwnerInv, ServesInv
    <2>2. proc' = [proc EXCEPT ![run[w].self].state = "zombie"]
      BY <1>4 DEF Ended
    <2>3. /\ Ages /\ proc'[run[w].self].state = "zombie"
          /\ \A s \in Starts : s # run[w].self => proc'[s] = proc[s]
      BY <1>1, <2>1, <2>2, StateSet DEF Running
    <2> QED
      BY <1>2, <2>1, <2>3, Zenon
  <1> QED
    BY <1>3, <1>4

\* A run may end at any place; the receipt it removes on the way is no server's.
LEMMA EndedKeeps ==
    ASSUME OwnerInv, NEW w \in Runs, Ended(w), UNCHANGED <<boot, next>>, faults' \in Nat,
           \/ receipt' = receipt
           \/ run[w].at \in Inside /\ receipt' = NoReceipt /\ \A s \in Starts : ~Serving(s)'
    PROVE  OwnerInv'
  <1>1. /\ Ages
        /\ run[w].self # 0 => run[w].self \in Starts /\ proc'[run[w].self].state # "running"
        /\ \A s \in Starts : s # run[w].self => proc'[s] = proc[s]
        /\ \A v \in Runs : v # w => run'[v] = run[v]
        /\ run'[w] = Idle /\ run' \in [Runs -> RunStates]
        /\ guard' = IF guard = w THEN NoRun ELSE guard
    BY EndedAges
  <1>2. TypeOK /\ receipt' \in Starts \cup {NoReceipt, Legacy}
    BY DEF OwnerInv, TypeOK
  <1>3. TypeOK'
    BY <1>1, <1>2 DEF TypeOK, Ages
  <1>4. ServingIsRecorded'
    BY <1>1, <1>2 DEF OwnerInv, ServingIsRecorded, Serving, Running, Ages
  <1>5. ProcessesInv'
    BY <1>1, AgesKeeps
  <1>6. GuardInv'
    BY <1>1, IdleType, InsideIs, StartsAre DEF OwnerInv, GuardInv
  <1>7. ServesInv'
    <2>1. ASSUME NEW v \in Runs, v # w, run[v].self # 0
          PROVE  /\ run[v].self \in Starts /\ run[v].self # run[w].self
                 /\ proc'[run[v].self] = proc[run[v].self]
      BY <1>1, <1>2, <2>1, RunType DEF OwnerInv, ServesInv
    <2> QED
      BY <1>1, <2>1, IdleType, SMT DEF OwnerInv, ServesInv, Running, HostOf
  <1>8. JudgedInv'
    <2>1. ASSUME NEW v \in Runs, run'[v].at # "idle"
          PROVE  v # w /\ run'[v] = run[v]
      BY <1>1, <2>1, IdleType
    <2>2. ASSUME NEW v \in Runs, run'[v].at \in Inside
          PROVE  receipt' = receipt
      BY <2>1, <2>2, InsideIs, Holder
    <2>3. receipt' \in Starts => receipt' = receipt
      BY StartsAre
    <2>4. ASSUME NEW v \in Runs, run'[v].at = "identify", SeenLive(v)'
          PROVE  v # w /\ run'[v] = run[v] /\ SeenLive(v)
      <3>1. v # w /\ run'[v] = run[v] /\ run[v].seen \in Starts
        BY <2>1, <2>2, <2>4, InsideIs DEF OwnerInv, JudgedInv
      <3> QED
        BY <1>1, <2>4, <3>1 DEF SeenLive, SeenPid, Holds, Present, Ages
    <2>5. ASSUME NEW v \in Runs, run'[v].at \in {"compare", "remove"}
          PROVE  run[v].seen \in Starts /\ run'[v] = run[v]
      BY <2>1, <2>2, <2>5, InsideIs DEF OwnerInv, JudgedInv
    <2> QED
      BY <1>1, <2>1, <2>2, <2>3, <2>4, <2>5, InsideIs, SMT
         DEF OwnerInv, JudgedInv, Running, Ages, HostOf
  <1> QED
    BY <1>3, <1>4, <1>5, <1>6, <1>7, <1>8 DEF OwnerInv

LEMMA FaultType ==
    ASSUME OwnerInv, Fault \/ UNCHANGED faults
    PROVE  faults' \in Nat
  BY SMT DEF OwnerInv, TypeOK, Fault

LEMMA RefusalsKeep ==
    ASSUME OwnerInv, NEW w \in Runs,
           \/ GuardRefused(w) \/ Killed(w) \/ Unreadable(w) \/ RemoveFails(w)
           \/ ReadRefused(w) \/ Unconfirmed(w) \/ PublishRefused(w)
           \/ ObserveLive(w) /\ run[w].cmd # "stop"
           \/ ObserveReplaced(w) /\ run[w].cmd = "stop"
           \/ Identify(w) /\ ~SeenLive(w)
           \/ ReadNothing(w) /\ run[w].cmd # "serve"
    PROVE  OwnerInv'
  <1>1. Ended(w) /\ UNCHANGED <<boot, next, receipt>> /\ (Fault \/ UNCHANGED faults)
    BY DEF GuardRefused, Killed, Unreadable, RemoveFails, ReadRefused, Unconfirmed,
       PublishRefused, ObserveLive, ObserveReplaced, Identify, ReadNothing, Gives, Cleared
  <1> QED
    BY <1>1, FaultType, EndedKeeps

-----------------------------------------------------------------------------
(* Steps outside the guard, and its taking. *)

LEMMA WaitingType ==
    ASSUME NEW c \in {"none", "probe", "stop", "serve", "withdraw"}, NEW h \in Hosts,
           NEW s \in Starts \cup {0}, NEW t \in Starts \cup {0}
    PROVE  LET q == Waiting(c, h, s, t)
           IN  /\ q \in RunStates /\ q.at = "guard" /\ q.cmd = c /\ q.host = h
               /\ q.self = s /\ q.session = t /\ q.seen = 0 /\ q.handle = 0
  BY SMT DEF Waiting, RunStates, Places

LEMMA OutsideKeeps ==
    ASSUME OwnerInv, NEW w \in Runs, run[w].at \notin Inside,
           NEW r \in RunStates, r.at \in {"idle", "guard"}, run' = [run EXCEPT ![w] = r],
           r.cmd = "none" <=> r.at = "idle",
           \/ r.self = 0 /\ r.cmd \notin {"serve", "withdraw"}
           \/ /\ run[w].at = "exec" /\ r.cmd = "withdraw" /\ r.host = run[w].host
              /\ r.self = run[w].self /\ r.seen = run[w].self,
           UNCHANGED <<boot, proc, next, receipt, guard>>, faults' \in Nat
    PROVE  OwnerInv'
  <1>1. TypeOK /\ run \in [Runs -> RunStates]
    BY DEF OwnerInv, TypeOK
  <1>2. run'[w] = r /\ (\A v \in Runs : v # w => run'[v] = run[v])
    BY <1>1
  <1>3. run' \in [Runs -> RunStates]
    BY <1>1
  <1>4. TypeOK'
    BY <1>1, <1>3 DEF TypeOK
  <1>5. ServingIsRecorded' /\ ProcessesInv'
    BY DEF OwnerInv, ServingIsRecorded, ProcessesInv, Serving, Running, Present,
       Holds, HostOf
  <1>6. GuardInv'
    BY <1>2, InsideIs DEF OwnerInv, GuardInv
  <1>7. ServesInv'
    <2>1. run[w].at = "exec" => run[w].self # 0
      BY DEF OwnerInv, ServesInv
    <2> QED
      BY <1>2, <2>1, SMT DEF OwnerInv, ServesInv, Running, HostOf
  <1>8. JudgedInv'
    BY <1>2, InsideIs, SMT
       DEF OwnerInv, JudgedInv, Running, Present, Holds, HostOf, SeenLive, SeenPid
  <1> QED
    BY <1>4, <1>5, <1>6, <1>7, <1>8 DEF OwnerInv

LEMMA BeginKeeps ==
    ASSUME OwnerInv, NEW w \in Runs, NEW h \in Hosts,
           BeginProbe(w, h) \/ \E t \in Starts : BeginStop(w, h, t)
    PROVE  OwnerInv'
  <1>1. run[w].at \notin Inside /\ UNCHANGED <<boot, proc, next, receipt, guard, faults>>
    BY InsideIs DEF BeginProbe, BeginStop
  <1>2. faults' \in Nat
    BY <1>1, FaultType
  <1>3. ASSUME NEW c \in {"probe", "stop"}, NEW x \in Starts \cup {0},
               run' = [run EXCEPT ![w] = Waiting(c, h, 0, x)]
        PROVE  OwnerInv'
    <2> DEFINE q == Waiting(c, h, 0, x)
    <2>1. q \in RunStates /\ q.at = "guard" /\ q.cmd = c /\ q.self = 0
      BY WaitingType
    <2>2. run' = [run EXCEPT ![w] = q]
      BY <1>3
    <2> HIDE DEF q
    <2> QED
      BY <1>1, <1>2, <2>1, <2>2, OutsideKeeps
  <1> QED
    BY <1>3 DEF BeginProbe, BeginStop

LEMMA ExecKeeps ==
    ASSUME OwnerInv, NEW w \in Runs, Exec(w)
    PROVE  OwnerInv'
  <1>1. /\ run[w].at \notin Inside /\ UNCHANGED <<boot, proc, next, receipt, guard>>
        /\ run' = [run EXCEPT ![w] = Idle]
    BY InsideIs DEF Exec
  <1>2. faults' \in Nat
    BY FaultType DEF Exec
  <1> QED
    BY <1>1, <1>2, IdleType, OutsideKeeps

LEMMA ExecFailsKeeps ==
    ASSUME OwnerInv, NEW w \in Runs, ExecFails(w)
    PROVE  OwnerInv'
  <1> DEFINE z == Waiting("withdraw", run[w].host, run[w].self, 0)
             q == [z EXCEPT !.seen = run[w].self]
  <1>1. TypeOK
    BY DEF OwnerInv
  <1>2. /\ z \in RunStates /\ z.at = "guard" /\ z.cmd = "withdraw"
        /\ z.host = run[w].host /\ z.self = run[w].self
    BY <1>1, RunType, WaitingType
  <1>3. run[w].at = "exec" /\ UNCHANGED <<boot, proc, next, receipt, guard>>
    BY DEF ExecFails
  <1>4. run' = [run EXCEPT ![w] = q]
    BY <1>1 DEF ExecFails, TypeOK
  <1>5. run[w].self \in Starts \cup {0}
    BY <1>1, RunType
  <1> HIDE DEF z
  <1>6. Same(q, z) /\ q.at = z.at /\ q.seen = run[w].self
    BY <1>2, <1>5, SeenSet, Zenon
  <1>7. faults' \in Nat
    BY FaultType DEF ExecFails
  <1> HIDE DEF q
  <1>8. /\ q \in RunStates /\ q.at = "guard" /\ q.cmd = "withdraw"
        /\ q.host = run[w].host /\ q.self = run[w].self /\ q.seen = run[w].self
    BY <1>2, <1>6 DEF Same
  <1>9. run[w].at \notin Inside
    BY <1>3, InsideIs
  <1> QED
    BY <1>3, <1>4, <1>7, <1>8, <1>9, OutsideKeeps

LEMMA TakeGuardKeeps ==
    ASSUME OwnerInv, NEW w \in Runs, TakeGuard(w)
    PROVE  OwnerInv'
  <1> DEFINE a == IF run[w].cmd = "withdraw" THEN "compare" ELSE "read"
  <1>1. /\ run[w].at = "guard" /\ guard = NoRun /\ guard' = w
        /\ run' = [run EXCEPT ![w].at = a]
        /\ boot' = boot /\ proc' = proc /\ next' = next /\ receipt' = receipt
        /\ faults' = faults
    BY DEF TakeGuard, Goes
  <1>2. TypeOK /\ run \in [Runs -> RunStates] /\ a \in Places
    BY DEF OwnerInv, TypeOK, Places
  <1>3. a \in {"compare", "read"} /\ (a = "compare" <=> run[w].cmd = "withdraw")
    OBVIOUS
  <1> HIDE DEF a
  <1>4. /\ \A v \in Runs : v # w => run'[v] = run[v]
        /\ run'[w] \in RunStates
        /\ run'[w].at = a /\ run'[w].cmd = run[w].cmd /\ run'[w].host = run[w].host
        /\ run'[w].self = run[w].self /\ run'[w].session = run[w].session
        /\ run'[w].seen = run[w].seen /\ run'[w].handle = run[w].handle
    BY <1>1, <1>2, SMT DEF RunStates
  <1>5. \A v \in Runs : run[v].at \notin Inside
    BY <1>1, StartsAre DEF OwnerInv, GuardInv
  <1>6. a = "compare" => /\ receipt = run[w].seen /\ receipt \in Starts
                         /\ HostOf(receipt) = run[w].host
    BY <1>2, <1>3, RunType
       DEF OwnerInv, ServesInv, ServingIsRecorded, Serving, Running
  <1>7. TypeOK'
    BY <1>1, <1>2, <1>4, SMT DEF TypeOK
  <1>8. ServingIsRecorded' /\ ProcessesInv'
    BY <1>1 DEF OwnerInv, ServingIsRecorded, ProcessesInv, Serving, Running, Present,
       Holds, HostOf
  <1>9. GuardInv'
    BY <1>1, <1>3, <1>4, <1>5, InsideIs DEF GuardInv
  <1>10. ServesInv'
    BY <1>1, <1>3, <1>4, SMT DEF OwnerInv, ServesInv, Running, HostOf
  <1>11. JudgedInv'
    BY <1>1, <1>3, <1>4, <1>5, <1>6, InsideIs, SMT
       DEF OwnerInv, JudgedInv, Running, HostOf
  <1> QED
    BY <1>7, <1>8, <1>9, <1>10, <1>11 DEF OwnerInv

-----------------------------------------------------------------------------
(* Processes that start, end and are reaped. *)

\* A process that takes a free number: one of the desktop's own runs it, or none.
LEMMA StartIs ==
    ASSUME OwnerInv, NEW p \in Pids, NEW k \in {"other", "serve"}, Start(p, k)
    PROVE  /\ next \in Starts /\ next' = next + 1 /\ next' \in 1 .. MaxStarts + 1
           /\ proc[next].state = "unborn" /\ proc[next].kind = "other"
           /\ proc' \in [Starts -> Processes]
           /\ proc'[next].state = "running" /\ proc'[next].kind = k
           /\ proc'[next].pid = p /\ proc'[next].boot = boot[p[1]]
           /\ \A s \in Starts : s # next => proc'[s] = proc[s]
           /\ p[1] \in Hosts
  <1> DEFINE q == [state |-> "running", kind |-> k, pid |-> p, boot |-> boot[p[1]]]
  <1>1. next \in Starts /\ next' = next + 1 /\ proc' = [proc EXCEPT ![next] = q]
    BY DEF Start
  <1>2. TypeOK /\ proc \in [Starts -> Processes] /\ p[1] \in Hosts
    BY PidsAre DEF OwnerInv, TypeOK
  <1>3. boot[p[1]] \in Nat
    BY <1>2 DEF TypeOK
  <1>4. /\ q \in Processes /\ q.state = "running" /\ q.kind = k
        /\ q.pid = p /\ q.boot = boot[p[1]]
    BY <1>3, SMT DEF Processes
  <1> HIDE DEF q
  <1>5. proc[next].state = "unborn" /\ proc[next].kind = "other"
    BY <1>1, StartsAre, SMT DEF OwnerInv, ProcessesInv
  <1>6. next' \in 1 .. MaxStarts + 1
    BY <1>1, LimitsAssumption, SMT DEF Starts
  <1> QED
    BY <1>1, <1>2, <1>4, <1>5, <1>6

LEMMA StartKeepsProcesses ==
    ASSUME OwnerInv, NEW p \in Pids, NEW k \in {"other", "serve"}, Start(p, k),
           UNCHANGED boot
    PROVE  ProcessesInv'
  <1>1. /\ next \in Starts /\ next' = next + 1
        /\ proc[next].state = "unborn" /\ proc[next].kind = "other"
        /\ proc'[next].state = "running" /\ proc'[next].kind = k
        /\ proc'[next].pid = p /\ proc'[next].boot = boot[p[1]]
        /\ \A s \in Starts : s # next => proc'[s] = proc[s]
    BY StartIs
  <1>2. (\A s \in Starts : s >= next <=> proc[s].state = "unborn")'
    BY <1>1, StartsAre, SMT DEF OwnerInv, ProcessesInv
  <1>3. (\A s \in Starts : proc[s].state = "unborn" => proc[s].kind = "other")'
    BY <1>1 DEF OwnerInv, ProcessesInv
  <1>4. Vacant(p)
    BY DEF Start
  <1>5. (\A s, t \in Starts : Present(s) /\ Holds(t, proc[s].pid) => s = t)'
    BY <1>1, <1>4, Z3 DEF OwnerInv, ProcessesInv, Vacant, Holds, Present
  <1>6. (\A s \in Starts : Present(s) => proc[s].boot = boot[HostOf(s)])'
    BY <1>1 DEF OwnerInv, ProcessesInv, Present, HostOf
  <1> QED
    BY <1>2, <1>3, <1>5, <1>6 DEF ProcessesInv

LEMMA OtherStartsKeeps ==
    ASSUME OwnerInv, NEW p \in Pids, OtherStarts(p)
    PROVE  OwnerInv'
  <1>1. /\ Start(p, "other") /\ boot' = boot /\ receipt' = receipt /\ guard' = guard
        /\ run' = run /\ faults' = faults
    BY DEF OtherStarts
  <1>2. /\ next \in Starts /\ next' = next + 1 /\ next' \in 1 .. MaxStarts + 1
        /\ proc[next].state = "unborn" /\ proc[next].kind = "other"
        /\ proc' \in [Starts -> Processes]
        /\ proc'[next].state = "running" /\ proc'[next].kind = "other"
        /\ \A s \in Starts : s # next => proc'[s] = proc[s]
    BY <1>1, StartIs
  <1>3. TypeOK
    BY DEF OwnerInv
  <1>4. TypeOK'
    BY <1>1, <1>2, <1>3 DEF TypeOK
  <1>5. ServingIsRecorded'
    BY <1>1, <1>2 DEF OwnerInv, ServingIsRecorded, Serving, Running
  <1>6. ProcessesInv'
    BY <1>1, StartKeepsProcesses
  <1>7. GuardInv'
    BY <1>1 DEF OwnerInv, GuardInv
  <1>8. \A v \in Runs : run[v].self # 0 => run[v].self \in Starts /\ run[v].self # next
    BY <1>2, <1>3, RunType DEF OwnerInv, ServesInv, Running
  <1>9. ServesInv'
    BY <1>1, <1>2, <1>8, SMT DEF OwnerInv, ServesInv, Running, HostOf
  <1>10. receipt # next
    BY <1>2 DEF OwnerInv, JudgedInv
  <1>11. JudgedInv'
    BY <1>1, <1>2, <1>10, InsideIs, SMT
       DEF OwnerInv, JudgedInv, Running, Present, Holds, HostOf, SeenLive, SeenPid
  <1> QED
    BY <1>4, <1>5, <1>6, <1>7, <1>9, <1>11 DEF OwnerInv

LEMMA BeginServeKeeps ==
    ASSUME OwnerInv, NEW w \in Runs, NEW p \in Pids, BeginServe(w, p)
    PROVE  OwnerInv'
  <1> DEFINE q == Waiting("serve", p[1], next, 0)
  <1>1. /\ Start(p, "serve") /\ boot' = boot /\ receipt' = receipt /\ guard' = guard
        /\ run' = [run EXCEPT ![w] = q] /\ faults' = faults /\ run[w].at = "idle"
    BY DEF BeginServe
  <1>2. /\ next \in Starts /\ next' = next + 1 /\ next' \in 1 .. MaxStarts + 1
        /\ proc[next].state = "unborn" /\ proc[next].kind = "other"
        /\ proc' \in [Starts -> Processes]
        /\ proc'[next].state = "running" /\ proc'[next].kind = "serve"
        /\ proc'[next].pid = p
        /\ \A s \in Starts : s # next => proc'[s] = proc[s]
        /\ p[1] \in Hosts
    BY <1>1, StartIs
  <1>3. TypeOK /\ run \in [Runs -> RunStates]
    BY DEF OwnerInv, TypeOK
  <1>4. /\ q \in RunStates /\ q.at = "guard" /\ q.cmd = "serve" /\ q.host = p[1]
        /\ q.self = next
    BY <1>2, WaitingType
  <1> HIDE DEF q
  <1>5. /\ run'[w] = q /\ (\A v \in Runs : v # w => run'[v] = run[v])
        /\ run' \in [Runs -> RunStates]
    BY <1>1, <1>3, <1>4
  <1>6. TypeOK'
    BY <1>1, <1>2, <1>3, <1>5 DEF TypeOK
  <1>7. ServingIsRecorded'
    BY <1>1, <1>2 DEF OwnerInv, ServingIsRecorded, Serving, Running
  <1>8. ProcessesInv'
    BY <1>1, StartKeepsProcesses
  <1>9. GuardInv'
    BY <1>1, <1>4, <1>5, InsideIs DEF OwnerInv, GuardInv
  <1>10. \A v \in Runs : run[v].self # 0 => run[v].self \in Starts /\ run[v].self # next
    BY <1>2, <1>3, RunType DEF OwnerInv, ServesInv, Running
  <1>11. ServesInv'
    <2>1. 0 # next
      BY <1>2, StartsAre
    <2> QED
      BY <1>1, <1>2, <1>4, <1>5, <1>10, <2>1, SMT DEF OwnerInv, ServesInv, Running, HostOf
  <1>12. receipt # next
    BY <1>2 DEF OwnerInv, JudgedInv
  <1>13. JudgedInv'
    BY <1>1, <1>2, <1>4, <1>5, <1>12, InsideIs, SMT
       DEF OwnerInv, JudgedInv, Running, Present, Holds, HostOf, SeenLive, SeenPid
  <1> QED
    BY <1>6, <1>7, <1>8, <1>9, <1>11, <1>13 DEF OwnerInv

LEMMA EndKeeps ==
    ASSUME OwnerInv, NEW s \in Starts, ProcessEnds(s) \/ Reap(s)
    PROVE  OwnerInv' /\ Ages
  <1>1. TypeOK
    BY DEF OwnerInv
  <1>2. /\ boot' = boot /\ next' = next /\ receipt' = receipt /\ guard' = guard
        /\ run' = run /\ faults' = faults
    BY DEF ProcessEnds, Reap
  <1>3. /\ Ages /\ \A t \in Starts : t # s => proc'[t] = proc[t]
        /\ \A v \in Runs : run[v].self # s
    <2>1. CASE ProcessEnds(s)
      <3>1. proc' = [proc EXCEPT ![s].state = "zombie"] /\ proc[s].state = "running"
        BY <2>1 DEF ProcessEnds, Running
      <3>2. Ages /\ \A t \in Starts : t # s => proc'[t] = proc[t]
        BY <1>1, <3>1, StateSet
      <3> QED
        BY <2>1, <3>2 DEF ProcessEnds
    <2>2. CASE Reap(s)
      <3>1. proc' = [proc EXCEPT ![s].state = "gone"] /\ proc[s].state = "zombie"
        BY <2>2 DEF Reap
      <3>2. Ages /\ \A t \in Starts : t # s => proc'[t] = proc[t]
        BY <1>1, <3>1, StateSet
      <3>3. \A v \in Runs : run[v].self # s
        BY <3>1, StartsAre DEF OwnerInv, ServesInv, Running
      <3> QED
        BY <3>2, <3>3
    <2> QED
      BY <2>1, <2>2
  <1>4. TypeOK'
    BY <1>1, <1>2, <1>3 DEF TypeOK, Ages
  <1>5. ServingIsRecorded'
    BY <1>2, <1>3 DEF OwnerInv, ServingIsRecorded, Serving, Running, Ages
  <1>6. ProcessesInv'
    BY <1>2, <1>3, AgesKeeps
  <1>7. GuardInv'
    BY <1>2 DEF OwnerInv, GuardInv
  <1>8. ServesInv'
    <2>1. \A v \in Runs : run[v].self # 0 =>
              run[v].self \in Starts /\ proc'[run[v].self] = proc[run[v].self]
      BY <1>1, <1>3, RunType
    <2> QED
      BY <1>2, <2>1, SMT DEF OwnerInv, ServesInv, Running, HostOf
  <1>9. JudgedInv'
    <2>1. ASSUME NEW v \in Runs, run[v].at = "identify", SeenLive(v)'
          PROVE  SeenLive(v)
      <3>1. run[v].seen \in Starts
        BY <2>1, InsideIs DEF OwnerInv, JudgedInv
      <3> QED
        BY <1>2, <1>3, <2>1, <3>1 DEF SeenLive, SeenPid, Holds, Present, Ages
    <2>2. ASSUME NEW v \in Runs, run[v].at \in {"compare", "remove"}
          PROVE  run[v].seen \in Starts
      BY <2>2, InsideIs DEF OwnerInv, JudgedInv
    <2> QED
      BY <1>2, <1>3, <2>1, <2>2, InsideIs, SMT DEF OwnerInv, JudgedInv, Running, Ages, HostOf
  <1> QED
    BY <1>3, <1>4, <1>5, <1>6, <1>7, <1>8, <1>9 DEF OwnerInv

-----------------------------------------------------------------------------
(* Removing a receipt and publishing one; a reboot. *)

\* Only a receipt that no server runs under is removed, unless by that server.
LEMMA RemovesUnserved ==
    ASSUME OwnerInv, NEW w \in Runs, Remove(w)
    PROVE  /\ run[w].seen = receipt /\ receipt \in Starts
           /\ run[w].cmd # "withdraw" => \A s \in Starts : ~Serving(s)
           /\ run[w].cmd = "withdraw" => run[w].self = receipt /\ Serving(receipt)
  <1>1. /\ run[w].at = "remove" /\ receipt = run[w].seen /\ receipt \in Starts
        /\ run[w].cmd # "withdraw" => ~Running(receipt)
    BY InsideIs DEF Remove, OwnerInv, JudgedInv
  <1>2. run[w].cmd # "withdraw" => \A s \in Starts : ~Serving(s)
    BY <1>1 DEF OwnerInv, ServingIsRecorded, Serving
  <1>3. run[w].cmd = "withdraw" => run[w].self = receipt /\ Serving(receipt)
    BY <1>1 DEF OwnerInv, ServesInv, Serving
  <1> QED
    BY <1>1, <1>2, <1>3

\* A serve that finds no receipt, or has removed the one it found, goes on to publish.
LEMMA ClearedKeeps ==
    ASSUME OwnerInv, NEW w \in Runs, run[w].cmd = "serve", run[w].at \in {"read", "remove"},
           Goes(w, "publish"), receipt' = NoReceipt, \A s \in Starts : ~Serving(s),
           UNCHANGED <<boot, proc, next, guard, faults>>
    PROVE  OwnerInv'
  <1>1. TypeOK /\ run \in [Runs -> RunStates] /\ run' = [run EXCEPT ![w].at = "publish"]
    BY DEF OwnerInv, TypeOK, Goes
  <1>2. /\ \A v \in Runs : v # w => run'[v] = run[v]
        /\ run'[w] \in RunStates
        /\ run'[w].at = "publish" /\ run'[w].cmd = "serve" /\ run'[w].host = run[w].host
        /\ run'[w].self = run[w].self /\ run'[w].session = run[w].session
        /\ run'[w].seen = run[w].seen /\ run'[w].handle = run[w].handle
    BY <1>1, SMT DEF RunStates, Places
  <1>3. \A v \in Runs : v # w => run[v].at \notin Inside
    BY Holder, InsideIs
  <1>4. TypeOK'
    BY <1>1, <1>2, SMT DEF TypeOK
  <1>5. ServingIsRecorded' /\ ProcessesInv'
    BY DEF OwnerInv, ServingIsRecorded, ProcessesInv, Serving, Running, Present,
       Holds, HostOf
  <1>6. GuardInv'
    BY <1>2, InsideIs DEF OwnerInv, GuardInv
  <1>7. ServesInv'
    BY <1>2, SMT DEF OwnerInv, ServesInv, Running, HostOf
  <1>8. JudgedInv'
    BY <1>2, <1>3, InsideIs, StartsAre, SMT DEF JudgedInv
  <1> QED
    BY <1>4, <1>5, <1>6, <1>7, <1>8 DEF OwnerInv

LEMMA ReadNothingKeeps ==
    ASSUME OwnerInv, NEW w \in Runs, ReadNothing(w)
    PROVE  OwnerInv'
  <1>1. CASE run[w].cmd = "serve"
    <2>1. \A s \in Starts : ~Serving(s)
      BY StartsAre DEF ReadNothing, OwnerInv, ServingIsRecorded
    <2> QED
      BY <1>1, <2>1, ClearedKeeps DEF ReadNothing, Cleared
  <1> QED
    BY <1>1, RefusalsKeep

LEMMA RemoveKeeps ==
    ASSUME OwnerInv, NEW w \in Runs, Remove(w)
    PROVE  OwnerInv'
  <1>1. CASE run[w].cmd = "serve"
    <2>1. \A s \in Starts : ~Serving(s)
      BY <1>1, RemovesUnserved
    <2> QED
      BY <1>1, <2>1, ClearedKeeps DEF Remove, Cleared
  <1>2. CASE run[w].cmd # "serve"
    <2>1. /\ Ended(w) /\ receipt' = NoReceipt /\ UNCHANGED <<boot, next>>
          /\ run[w].at \in Inside
      BY <1>2, InsideIs DEF Remove, Cleared
    <2>2. faults' \in Nat
      BY FaultType DEF Remove
    <2>3. /\ Ages
          /\ run[w].self # 0 => proc'[run[w].self].state # "running"
      BY <2>1, EndedAges
    <2>4. ASSUME NEW s \in Starts PROVE ~Serving(s)'
      <3>1. Serving(s)' => Serving(s)
        BY <2>3 DEF Serving, Running, Ages
      <3>2. Serving(s) => s = receipt
        BY DEF OwnerInv, ServingIsRecorded
      <3>3. run[w].cmd = "withdraw" => run[w].self = receipt
        BY RemovesUnserved
      <3>4. receipt # 0
        BY RemovesUnserved, StartsAre
      <3> QED
        BY <2>3, <3>1, <3>2, <3>3, <3>4, RemovesUnserved DEF Serving, Running
    <2> QED
      BY <2>1, <2>2, <2>4, EndedKeeps
  <1> QED
    BY <1>1, <1>2

LEMMA PublishKeeps ==
    ASSUME OwnerInv, NEW w \in Runs, Publish(w)
    PROVE  /\ OwnerInv'
           /\ run[w].self \in Starts /\ receipt = NoReceipt /\ receipt' = run[w].self
           /\ \A s \in Starts : ~Serving(s)
           /\ \A s \in Starts : Serving(s)' <=> s = run[w].self
  <1> DEFINE o == run[w].self
  <1>1. /\ receipt = NoReceipt /\ receipt' = o /\ guard' = NoRun
        /\ proc' = [proc EXCEPT ![o].kind = "owner"]
        /\ run' = [run EXCEPT ![w].at = "exec"]
        /\ boot' = boot /\ next' = next /\ faults' = faults /\ run[w].at = "publish"
    BY DEF Publish, Goes
  <1>2. TypeOK /\ run \in [Runs -> RunStates] /\ proc \in [Starts -> Processes]
    BY DEF OwnerInv, TypeOK
  <1>3. /\ run[w].cmd = "serve" /\ o \in Starts /\ proc[o].state = "running"
        /\ HostOf(o) = run[w].host
    BY <1>1, <1>2, RunType DEF OwnerInv, ServesInv, Running
  <1> HIDE DEF o
  <1>4. /\ \A v \in Runs : v # w => run'[v] = run[v]
        /\ run'[w] \in RunStates
        /\ run'[w].at = "exec" /\ run'[w].cmd = "serve" /\ run'[w].host = run[w].host
        /\ run'[w].self = run[w].self /\ run'[w].session = run[w].session
        /\ run'[w].seen = run[w].seen /\ run'[w].handle = run[w].handle
    BY <1>1, <1>2, <1>3, SMT DEF RunStates, Places
  <1>5. /\ \A s \in Starts : s # o => proc'[s] = proc[s]
        /\ proc'[o] \in Processes /\ proc'[o].kind = "owner" /\ proc'[o].state = "running"
        /\ proc'[o].pid = proc[o].pid /\ proc'[o].boot = proc[o].boot
    BY <1>1, <1>2, <1>3, SMT DEF Processes
  <1>6. \A v \in Runs : v # w => run[v].at \notin Inside
    BY <1>1, Holder, InsideIs
  <1>7. \A s \in Starts : ~Serving(s)
    BY <1>1, StartsAre DEF OwnerInv, ServingIsRecorded
  <1>8. \A s \in Starts : Serving(s)' <=> s = o
    BY <1>3, <1>5, <1>7 DEF Serving, Running
  <1>9. TypeOK'
    <2>1. proc' \in [Starts -> Processes]
      BY <1>1, <1>2, <1>5
    <2>2. run' \in [Runs -> RunStates]
      BY <1>1, <1>2, <1>4
    <2> QED
      BY <1>1, <1>2, <1>3, <2>1, <2>2 DEF TypeOK
  <1>10. ServingIsRecorded'
    BY <1>1, <1>8 DEF ServingIsRecorded
  <1>11. ProcessesInv'
    <2>1. \A s \in Starts : proc'[s].state = proc[s].state /\ proc'[s].pid = proc[s].pid
                            /\ proc'[s].boot = proc[s].boot
      BY <1>3, <1>5
    <2> QED
      BY <1>1, <1>3, <1>5, <2>1 DEF OwnerInv, ProcessesInv, Present, Holds, HostOf
  <1>12. GuardInv'
    BY <1>1, <1>4, <1>6, InsideIs, StartsAre DEF OwnerInv, GuardInv
  <1>13. ServesInv'
    <2>1. \A v \in Runs : run[v].self = o /\ run[v].self # 0 => v = w
      BY DEF OwnerInv, ServesInv, o
    <2>2. run[w].self = o
      BY DEF o
    <2>3. \A v \in Runs : run[v].self # 0 =>
              run[v].self \in Starts /\ proc'[run[v].self].state = proc[run[v].self].state
              /\ proc'[run[v].self].pid = proc[run[v].self].pid
              /\ (v # w => proc'[run[v].self] = proc[run[v].self])
      BY <1>2, <1>3, <1>5, <2>1, RunType
    <2> QED
      BY <1>3, <1>4, <1>5, <2>1, <2>2, <2>3, SMT DEF OwnerInv, ServesInv, Running, HostOf
  <1>14. JudgedInv'
    BY <1>1, <1>3, <1>4, <1>5, <1>6, InsideIs, SMT DEF JudgedInv
  <1> QED
    BY <1>1, <1>3, <1>7, <1>8, <1>9, <1>10, <1>11, <1>12, <1>13, <1>14 DEF OwnerInv, o

LEMMA RebootKeeps ==
    ASSUME OwnerInv, NEW h \in Hosts, Reboot(h)
    PROVE  OwnerInv' /\ Ages /\ receipt' = receipt
  <1>1. /\ boot' = [boot EXCEPT ![h] = @ + 1] /\ next' = next /\ receipt' = receipt
        /\ proc' = [s \in Starts |-> IF Present(s) /\ HostOf(s) = h
                                     THEN [proc[s] EXCEPT !.state = "gone"] ELSE proc[s]]
        /\ run' = [w \in Runs |-> IF run[w].host = h THEN Idle ELSE run[w]]
        /\ guard' = IF guard # NoRun /\ run[guard].host = h THEN NoRun ELSE guard
    BY DEF Reboot
  <1>2. TypeOK /\ faults' \in Nat
    BY FaultType DEF OwnerInv, Reboot
  <1>3. ASSUME NEW s \in Starts
        PROVE  /\ proc'[s] \in Processes
               /\ proc'[s].kind = proc[s].kind /\ proc'[s].pid = proc[s].pid
               /\ proc'[s].boot = proc[s].boot
               /\ Present(s) /\ HostOf(s) = h => proc'[s].state = "gone"
               /\ ~(Present(s) /\ HostOf(s) = h) => proc'[s] = proc[s]
    <2>1. proc[s] \in Processes
      BY <1>2, ProcType
    <2>2. proc'[s] = IF Present(s) /\ HostOf(s) = h
                     THEN [proc[s] EXCEPT !.state = "gone"] ELSE proc[s]
      BY <1>1
    <2> QED
      BY <2>1, <2>2, SMT DEF Processes
  <1>4. Ages
    BY <1>1, <1>3 DEF Ages, Present
  <1>5. \A w \in Runs : IF run[w].host = h THEN run'[w] = Idle ELSE run'[w] = run[w]
    BY <1>1
  <1>6. ASSUME NEW w \in Runs, run'[w].at # "idle"
        PROVE  run'[w] = run[w] /\ run[w].host # h
    BY <1>5, <1>6, IdleType
  <1>7. TypeOK'
    <2>1. boot' \in [Hosts -> Nat]
      BY <1>1, <1>2, SMT DEF TypeOK
    <2>2. run' \in [Runs -> RunStates]
      BY <1>1, <1>2, IdleType, SMT DEF TypeOK
    <2> QED
      BY <1>1, <1>2, <1>4, <2>1, <2>2 DEF TypeOK, Ages
  <1>8. ServingIsRecorded'
    BY <1>1, <1>4 DEF OwnerInv, ServingIsRecorded, Serving, Running, Ages
  <1>9. ProcessesInv'
    <2>1. ASSUME NEW s \in Starts, Present(s)'
          PROVE  Present(s) /\ proc'[s] = proc[s] /\ HostOf(s) # h
                 /\ boot'[HostOf(s)] = boot[HostOf(s)]
      BY <1>1, <1>2, <1>3, <1>4, <2>1, ProcType DEF Present, Ages, TypeOK
    <2>2. (\A s, t \in Starts : Present(s) /\ Holds(t, proc[s].pid) => s = t)'
      BY <1>3, <1>4, <2>1 DEF OwnerInv, ProcessesInv, Holds, Ages
    <2>3. (\A s \in Starts : Present(s) => proc[s].boot = boot[HostOf(s)])'
      BY <1>3, <2>1 DEF OwnerInv, ProcessesInv, HostOf
    <2> QED
      BY <1>1, <1>4, <2>2, <2>3 DEF OwnerInv, ProcessesInv, Ages
  <1>10. GuardInv'
    <2>1. ASSUME NEW w \in Runs PROVE (run[w].at \in Inside <=> guard = w)'
      <3>1. run[w].at \in Inside <=> guard = w
        BY DEF OwnerInv, GuardInv
      <3>2. CASE run[w].host = h
        BY <1>1, <1>5, <3>2, IdleType, InsideIs, StartsAre
      <3>3. CASE run[w].host # h
        BY <1>1, <1>5, <3>1, <3>3, StartsAre
      <3> QED
        BY <3>2, <3>3
    <2> QED
      BY <2>1 DEF GuardInv
  <1>11. ServesInv'
    <2>1. ASSUME NEW w \in Runs, run[w].host # h, run[w].self # 0
          PROVE  run[w].self \in Starts /\ proc'[run[w].self] = proc[run[w].self]
      BY <1>2, <1>3, <2>1, RunType DEF OwnerInv, ServesInv
    <2> QED
      BY <1>5, <2>1, IdleType, SMT DEF OwnerInv, ServesInv, Running, HostOf
  <1>12. JudgedInv'
    <2>1. ASSUME NEW w \in Runs, run'[w].at = "identify", SeenLive(w)'
          PROVE  SeenLive(w)
      <3>1. run'[w] = run[w] /\ run[w].seen \in Starts
        BY <1>6, <2>1, InsideIs DEF OwnerInv, JudgedInv
      <3> QED
        BY <1>4, <2>1, <3>1 DEF SeenLive, SeenPid, Holds, Present, Ages
    <2>2. ASSUME NEW w \in Runs, run'[w].at \in {"compare", "remove"}
          PROVE  run'[w] = run[w] /\ run[w].seen \in Starts
      BY <1>6, <2>2, InsideIs DEF OwnerInv, JudgedInv
    <2> QED
      BY <1>1, <1>4, <1>6, <2>1, <2>2, InsideIs, SMT
         DEF OwnerInv, JudgedInv, Running, Ages, HostOf
  <1> QED
    BY <1>1, <1>4, <1>7, <1>8, <1>9, <1>10, <1>11, <1>12 DEF OwnerInv

LEMMA OperatorClearsKeeps ==
    ASSUME OwnerInv, OperatorClears
    PROVE  OwnerInv' /\ \A s \in Starts : ~Serving(s)
  <1>1. /\ receipt = Legacy /\ receipt' = NoReceipt
        /\ UNCHANGED <<boot, proc, next, guard, run, faults>>
    BY DEF OperatorClears
  <1>2. \A s \in Starts : ~Serving(s)
    BY <1>1, StartsAre DEF OwnerInv, ServingIsRecorded
  <1>3. \A w \in Runs : run[w].at \in Inside => run[w].at = "read"
    BY <1>1, StartsAre, InsideIs DEF OwnerInv, JudgedInv
  <1>4. TypeOK' /\ ServingIsRecorded' /\ ProcessesInv' /\ GuardInv' /\ ServesInv'
    BY <1>1, <1>2 DEF OwnerInv, TypeOK, ServingIsRecorded, Serving, Running, ProcessesInv,
       Present, Holds, HostOf, GuardInv, ServesInv
  <1>5. JudgedInv'
    BY <1>1, <1>3, InsideIs, StartsAre DEF JudgedInv
  <1> QED
    BY <1>2, <1>4, <1>5 DEF OwnerInv

-----------------------------------------------------------------------------
(* The invariant, what a stop signals and reports, and OneOwner. *)

\* One step of a run that is neither killed nor refused by a fault.
LEMMA StepKeeps ==
    ASSUME OwnerInv, NEW w \in Runs, Step(w)
    PROVE  OwnerInv'
  <1>1. run[w].at = "observe" => run[w].cmd # "withdraw"
    BY DEF OwnerInv, ServesInv
  <1>2. CASE ObserveLive(w) \/ ObserveExited(w) \/ ObserveReplaced(w)
    <2>1. run[w].at = "observe"
      BY <1>2 DEF ObserveLive, ObserveExited, ObserveReplaced
    <2> QED
      BY <1>1, <1>2, <2>1, ObserveKeeps, RefusalsKeep
  <1>3. CASE \/ OpenVacant(w) \/ OpenUnsupported(w) \/ Identify(w) \/ Poll(w)
             \/ Signal(w) \/ WaitExited(w) \/ WatchExited(w)
    BY <1>3, StopKeeps, RefusalsKeep
  <1>4. CASE OpenPins(w)
    BY <1>4, OpenPinsKeeps
  <1>5. CASE TakeGuard(w)
    BY <1>5, TakeGuardKeeps
  <1>6. CASE ReadOwner(w)
    BY <1>6, ReadOwnerKeeps
  <1>7. CASE ReadNothing(w)
    BY <1>7, ReadNothingKeeps
  <1>8. CASE Compare(w)
    BY <1>8, CompareKeeps
  <1>9. CASE Remove(w)
    BY <1>9, RemoveKeeps
  <1>10. CASE Publish(w)
    BY <1>10, PublishKeeps
  <1>11. CASE Exec(w)
    BY <1>11, ExecKeeps
  <1>12. CASE ReadRefused(w) \/ Unconfirmed(w) \/ PublishRefused(w)
    BY <1>12, RefusalsKeep
  <1> QED
    BY <1>2, <1>3, <1>4, <1>5, <1>6, <1>7, <1>8, <1>9, <1>10, <1>11, <1>12 DEF Step

LEMMA NextKeeps ==
    ASSUME OwnerInv, [Next]_vars
    PROVE  OwnerInv'
  <1>1. CASE UNCHANGED vars
    BY <1>1 DEF vars, OwnerInv, TypeOK, ServingIsRecorded, Serving, Running, ProcessesInv,
       Present, Holds, HostOf, GuardInv, ServesInv, JudgedInv, SeenLive, SeenPid
  <1>2. CASE \E w \in Runs : Step(w)
    BY <1>2, StepKeeps
  <1>3. CASE \E w \in Runs : Fails(w)
    BY <1>3, RefusalsKeep, ExecFailsKeeps DEF Fails
  <1>4. CASE \E w \in Runs : Begin(w)
    <2>1. PICK w \in Runs : Begin(w)
      BY <1>4
    <2>2. CASE \E h \in Hosts : BeginProbe(w, h)
      BY <2>2, BeginKeeps
    <2>3. CASE \E h \in Hosts, t \in Starts : BeginStop(w, h, t)
      BY <2>3, BeginKeeps
    <2>4. CASE \E p \in Pids : BeginServe(w, p)
      BY <2>4, BeginServeKeeps
    <2> QED
      BY <2>1, <2>2, <2>3, <2>4 DEF Begin
  <1>5. CASE \E s \in Starts : ProcessEnds(s) \/ Reap(s)
    BY <1>5, EndKeeps
  <1>6. CASE \E h \in Hosts : Reboot(h)
    BY <1>6, RebootKeeps
  <1>7. CASE \E p \in Pids : OtherStarts(p)
    BY <1>7, OtherStartsKeeps
  <1>8. CASE OperatorClears
    BY <1>8, OperatorClearsKeeps
  <1> QED
    BY <1>1, <1>2, <1>3, <1>4, <1>5, <1>6, <1>7, <1>8 DEF Next

\* No receipt of a running server is lost, and what a run has judged stays true while it
\* holds the guard, on any hosts and with any pids, runs, processes and faults.
THEOREM OwnerInvariant == Spec => []OwnerInv
  <1>1. Init => OwnerInv
    BY InitType
  <1>2. OwnerInv /\ [Next]_vars => OwnerInv'
    BY NextKeeps
  <1> QED
    BY <1>1, <1>2, PTL DEF Spec

\* No probe, start or stop removes or replaces the receipt of a server that runs, and so
\* no two servers run under a receipt of their own.
THEOREM ServingIsRecordedHolds == Spec => []ServingIsRecorded
  <1>1. OwnerInv => ServingIsRecorded
    BY DEF OwnerInv
  <1> QED
    BY <1>1, OwnerInvariant, PTL

\* A stop reports an owner gone only when it is.
THEOREM ConfirmedIsGoneHolds == Spec => []ConfirmedIsGone
  <1>1. OwnerInv => ConfirmedIsGone
    <2>1. SUFFICES ASSUME OwnerInv, NEW w \in Runs, run[w].cmd = "stop",
                          run[w].at \in {"compare", "remove"}
                   PROVE  ~Running(run[w].session)
      BY DEF ConfirmedIsGone
    <2> QED
      BY <2>1, InsideIs DEF OwnerInv, JudgedInv
  <1> QED
    BY <1>1, OwnerInvariant, PTL

\* A stop signals the process of its own session and no other.
THEOREM SignalsItsOwnHolds == Spec => []SignalsItsOwn
  <1>1. OwnerInv => SignalsItsOwn
    <2>1. SUFFICES ASSUME OwnerInv, NEW w \in Runs, run[w].at = "signal"
                   PROVE  run[w].handle = run[w].session /\ proc[run[w].handle].kind = "owner"
      BY DEF SignalsItsOwn
    <2> QED
      BY <2>1, InsideIs DEF OwnerInv, JudgedInv
  <1> QED
    BY <1>1, OwnerInvariant, PTL

-----------------------------------------------------------------------------
(* The receipt implements OneOwner. *)

Served == {s \in Starts : Serving(s)}

LEMMA ServedIs ==
    ASSUME OwnerInv
    PROVE  Served = {} \/ (receipt \in Starts /\ Served = {receipt})
  <1>1. ASSUME NEW s \in Served PROVE s = receipt /\ s \in Starts
    BY <1>1 DEF OwnerInv, ServingIsRecorded, Served
  <1>2. CASE Served # {}
    <2>1. PICK s \in Served : TRUE
      BY <1>2
    <2>2. receipt \in Served
      BY <1>1, <2>1
    <2> QED
      BY <1>1, <2>2
  <1> QED
    BY <1>2

LEMMA RestsOwner ==
    ASSUME receipt' = receipt, \A s \in Starts : Serving(s)' <=> Serving(s)
    PROVE  [Single!Next]_(Single!ownerVars)
  <1>1. Served' = Served
    BY DEF Served
  <1> QED
    BY <1>1 DEF Served, Single!ownerVars

\* Whatever ends a process leaves the receipt behind.
LEMMA AgesOwner ==
    ASSUME OwnerInv, Ages, receipt' = receipt
    PROVE  [Single!Next]_(Single!ownerVars)
  <1>1. \A s \in Starts : Serving(s)' => Serving(s)
    BY DEF Ages, Serving, Running
  <1>2. CASE Served' = Served
    BY <1>2 DEF Served, Single!ownerVars
  <1>3. CASE Served' # Served
    <2>1. Served' \subseteq Served
      BY <1>1 DEF Served
    <2>2. receipt \in Starts /\ Served = {receipt} /\ Served' = {}
      BY <1>3, <2>1, ServedIs
    <2>3. receipt \in Served /\ Served' = Served \ {receipt}
      BY <2>2
    <2>4. Single!Ends(receipt)
      BY <2>3 DEF Served, Single!Ends
    <2> QED
      BY <2>2, <2>4 DEF Single!Next
  <1> QED
    BY <1>2, <1>3

LEMMA StepOwner ==
    ASSUME OwnerInv, NEW w \in Runs, Step(w)
    PROVE  [Single!Next]_(Single!ownerVars)
  <1>1. CASE UNCHANGED <<proc, receipt>>
    BY <1>1, RestsOwner DEF Serving, Running
  <1>2. CASE Ended(w) /\ receipt' = receipt
    BY <1>2, EndedAges, AgesOwner
  <1>3. CASE Publish(w)
    <2>1. /\ run[w].self \in Starts /\ receipt = NoReceipt /\ receipt' = run[w].self
          /\ Served = {} /\ Served' = {run[w].self}
      BY <1>3, PublishKeeps DEF Served
    <2>2. Single!Take(run[w].self)
      BY <2>1 DEF Served, Single!Take
    <2> QED
      BY <2>1, <2>2 DEF Single!Next
  <1>4. CASE Remove(w)
    <2>1. /\ receipt \in Starts /\ receipt' = NoReceipt /\ receipt # NoReceipt
      BY <1>4, RemovesUnserved, StartsAre DEF Remove
    <2>2. Ended(w) \/ (run[w].cmd = "serve" /\ proc' = proc)
      <3>1. Cleared(w)
        BY <1>4 DEF Remove
      <3>2. CASE run[w].cmd = "serve"
        BY <3>1, <3>2 DEF Cleared
      <3> QED
        BY <3>1, <3>2 DEF Cleared
    <2>3. CASE run[w].cmd # "withdraw"
      <3>1. \A s \in Starts : ~Serving(s)
        BY <1>4, <2>3, RemovesUnserved
      <3>2. \A s \in Starts : ~Serving(s)'
        BY <2>2, <3>1, EndedAges DEF Ages, Serving, Running
      <3>3. Served = {} /\ Served' = {}
        BY <3>1, <3>2 DEF Served
      <3>4. Single!Clear
        BY <2>1, <3>3 DEF Served, Single!Clear
      <3> QED
        BY <3>4 DEF Single!Next
    <2>4. CASE run[w].cmd = "withdraw"
      <3>1. run[w].self = receipt /\ Serving(receipt) /\ Ended(w)
        BY <1>4, <2>2, <2>4, RemovesUnserved
      <3>2. Ages /\ proc'[receipt].state # "running"
        BY <2>1, <3>1, EndedAges, StartsAre
      <3>3. Served = {receipt}
        BY <2>1, <3>1, ServedIs DEF Served
      <3>4. \A s \in Starts : ~Serving(s)'
        BY <3>2, <3>3 DEF Ages, Served, Serving, Running
      <3>5. receipt \in Served /\ Served' = Served \ {receipt}
        BY <3>3, <3>4 DEF Served
      <3>6. Single!GivesUp(receipt)
        BY <2>1, <3>5 DEF Served, Single!GivesUp
      <3> QED
        BY <2>1, <3>6 DEF Single!Next
    <2> QED
      BY <2>3, <2>4
  <1>5. CASE Compare(w)
    <2>1. UNCHANGED <<proc, receipt>>
      BY <1>5, CompareFinds DEF Advances
    <2> QED
      BY <1>1, <2>1
  <1>6. CASE TakeGuard(w) \/ ReadNothing(w) \/ ReadRefused(w) \/ ReadOwner(w) \/ Exec(w)
    BY <1>1, <1>2, <1>6
       DEF TakeGuard, ReadNothing, ReadRefused, ReadOwner, Exec, Gives, Cleared
  <1>7. CASE ObserveLive(w) \/ ObserveExited(w) \/ ObserveReplaced(w) \/ Identify(w)
    BY <1>1, <1>2, <1>7
       DEF ObserveLive, ObserveExited, ObserveReplaced, Identify, Advances, Gives
  <1>8. CASE OpenPins(w) \/ OpenVacant(w) \/ OpenUnsupported(w) \/ Poll(w) \/ Signal(w)
    BY <1>1, <1>8 DEF OpenPins, OpenVacant, OpenUnsupported, Poll, Signal, Advances
  <1>9. CASE WaitExited(w) \/ WatchExited(w) \/ Unconfirmed(w) \/ PublishRefused(w)
    BY <1>1, <1>2, <1>9 DEF WaitExited, WatchExited, Unconfirmed, PublishRefused, Advances,
       Gives
  <1> QED
    BY <1>3, <1>4, <1>5, <1>6, <1>7, <1>8, <1>9 DEF Step

LEMMA StartOwner ==
    ASSUME OwnerInv, NEW p \in Pids, NEW k \in {"other", "serve"}, Start(p, k),
           receipt' = receipt
    PROVE  [Single!Next]_(Single!ownerVars)
  <1>1. \A s \in Starts : Serving(s)' <=> Serving(s)
    BY StartIs DEF Serving, Running
  <1> QED
    BY <1>1, RestsOwner

\* A server serves under a receipt of its own only, which nobody else takes from it
\* while it runs.
THEOREM ImplementsOneOwnerHolds == Spec => ImplementsOneOwner
  <1>1. Init => Single!Init
    <2>1. ASSUME Init PROVE Served = {} /\ receipt \in {NoReceipt, Legacy}
      BY <2>1, UnbornType DEF Init, Served, Serving, Running
    <2> QED
      BY <2>1 DEF Served, Single!Init
  <1>2. OwnerInv /\ [Next]_vars => [Single!Next]_(Single!ownerVars)
    <2>1. SUFFICES ASSUME OwnerInv, [Next]_vars PROVE [Single!Next]_(Single!ownerVars)
      OBVIOUS
    <2>2. CASE UNCHANGED vars
      BY <2>2, RestsOwner DEF vars, Serving, Running
    <2>3. CASE \E w \in Runs : Step(w)
      BY <2>1, <2>3, StepOwner
    <2>4. CASE \E w \in Runs : Fails(w)
      <3>1. PICK w \in Runs : Fails(w)
        BY <2>4
      <3>2. CASE Ended(w) /\ receipt' = receipt
        BY <2>1, <3>2, EndedAges, AgesOwner
      <3>3. CASE ExecFails(w)
        BY <3>3, RestsOwner DEF ExecFails, Serving, Running
      <3> QED
        BY <3>1, <3>2, <3>3 DEF Fails, Killed, GuardRefused, Unreadable, RemoveFails
    <2>5. CASE \E w \in Runs : Begin(w)
      <3>1. PICK w \in Runs : Begin(w)
        BY <2>5
      <3>2. CASE \E p \in Pids : BeginServe(w, p)
        <4>1. PICK p \in Pids : Start(p, "serve") /\ receipt' = receipt
          BY <3>2 DEF BeginServe
        <4> QED
          BY <2>1, <4>1, StartOwner
      <3>3. CASE UNCHANGED <<proc, receipt>>
        BY <3>3, RestsOwner DEF Serving, Running
      <3> QED
        BY <3>1, <3>2, <3>3 DEF Begin, BeginProbe, BeginStop
    <2>6. CASE \E s \in Starts : ProcessEnds(s) \/ Reap(s)
      <3>1. Ages /\ receipt' = receipt
        BY <2>1, <2>6, EndKeeps DEF ProcessEnds, Reap
      <3> QED
        BY <2>1, <3>1, AgesOwner
    <2>7. CASE \E h \in Hosts : Reboot(h)
      BY <2>1, <2>7, RebootKeeps, AgesOwner
    <2>8. CASE \E p \in Pids : OtherStarts(p)
      BY <2>1, <2>8, StartOwner DEF OtherStarts
    <2>9. CASE OperatorClears
      <3>1. /\ receipt = Legacy /\ receipt' = NoReceipt /\ receipt # NoReceipt
            /\ proc' = proc
        BY <2>9, StartsAre DEF OperatorClears
      <3>2. \A s \in Starts : ~Serving(s) /\ ~Serving(s)'
        BY <2>1, <2>9, <3>1, OperatorClearsKeeps DEF Serving, Running
      <3>3. Served = {} /\ Served' = {}
        BY <3>2 DEF Served
      <3>4. Single!Clear
        BY <3>1, <3>3 DEF Served, Single!Clear
      <3> QED
        BY <3>4 DEF Single!Next
    <2> QED
      BY <2>1, <2>2, <2>3, <2>4, <2>5, <2>6, <2>7, <2>8, <2>9 DEF Next
  <1> QED
    BY <1>1, <1>2, OwnerInvariant, PTL DEF Spec, ImplementsOneOwner, Single!Spec

=============================================================================
