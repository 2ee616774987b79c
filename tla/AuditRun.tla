------------------------------ MODULE AuditRun ------------------------------
(***************************************************************************)
(* `bailey audit`: one recorded run of a target.                           *)
(*                                                                         *)
(* Four parties take part.  Bailey starts a privileged helper, spawns the  *)
(* target stopped at its exec, tells the helper what to observe, and lets  *)
(* the target go once the helper has acknowledged.  The target's processes *)
(* fork, exit and access things; the kernel programs put every access that *)
(* is in scope into a ring, or count it when the ring is full.  The helper *)
(* moves records from the ring to a pipe, which bailey reads only when the *)
(* target is gone.  Closing the helper's stdin is the only stop signal.    *)
(*                                                                         *)
(* Source: crates/bailey/src/backend/audit.rs and audit_helper.rs,         *)
(* crates/bailey-bpf-helper/src/main.rs, crates/bailey-ebpf/src/main.rs.   *)
(***************************************************************************)
EXTENDS Naturals, FiniteSets, Sequences

CONSTANTS
  Procs, Root,  \* processes of the target; the one bailey spawns
  PipeCap,      \* records that fit the pipe from the helper
  RingCap,      \* records that fit the kernel's ring
  MaxEvents,    \* MAX_EVENTS: records bailey keeps
  MaxAccesses,  \* bound: accesses made
  MaxCrashes    \* bound: deaths of the helper or of bailey

ASSUME RootAssumption == Root \in Procs
ASSUME CapAssumption == PipeCap \in Nat \ {0} /\ RingCap \in Nat /\ MaxEvents \in Nat
ASSUME BoundsAssumption == MaxAccesses \in Nat /\ MaxCrashes \in Nat

VARIABLES
  pc,        \* where bailey is in run_and_record
  helper,    \* where the helper is in run
  cgroup,    \* the run has a cgroup of its own
  stdin,     \* what the helper would read: "open" is nothing yet
  pipe,      \* frames the helper wrote and bailey has not read
  scope,     \* the SCOPE map holds the run's cgroup
  tracked,   \* the TRACKED map: processes followed where there is no cgroup
  proc,      \* each process: "unborn", "born", "stopped", "running", "gone"
  parent,    \* who forked it
  ring, dropped, \* the EVENTS and DROPPED maps
  counting,  \* increments of DROPPED under way: by whom, and the value read
  accesses,  \* how many accesses were made; they are numbered
  due,       \* history: those submitted, complete before the root was gone
  missed,    \* history: those by the run's processes that were not in scope
  events, lost, summary, \* the Trace bailey reads, and whether it is whole
  crashes

target == <<proc, parent>>
maps   == <<scope, tracked, ring, dropped>>
seen   == <<counting, accesses, due, missed>>
trace  == <<events, lost, summary>>
vars   == <<pc, helper, cgroup, stdin, pipe, target, maps, seen, trace, crashes>>

Over     == {"done", "failed", "dead"}
Frame(k, n) == [tag |-> k, value |-> n]

Init ==
  /\ pc = "hello" /\ helper = "load" /\ cgroup \in BOOLEAN
  /\ stdin = "open" /\ pipe = <<>>
  /\ scope = FALSE /\ tracked = {} /\ ring = <<>> /\ dropped = 0
  /\ proc = [p \in Procs |-> "unborn"] /\ parent = [p \in Procs |-> Root]
  /\ counting = {} /\ accesses = 0 /\ due = {} /\ missed = {}
  /\ events = <<>> /\ lost = 0 /\ summary = FALSE
  /\ crashes = 0

-----------------------------------------------------------------------------
(***************************************************************************)
(* Bailey.  On any error it ends: the helper's stdin closes, and a target  *)
(* still held at its exec is at the kernel's mercy.                        *)
(***************************************************************************)
Released == {"gone", "running"}

Stop(label) ==
  /\ pc' = label
  /\ stdin' = "closed"
  /\ \E fate \in Released :
       proc' = [proc EXCEPT ![Root] = IF @ \in {"born", "stopped"} THEN fate ELSE @]

Fail == Stop("failed")

Closed == helper = "gone" /\ pipe = <<>>

\* Recorder::start: the greeting, of the version this build speaks.
ReadHello ==
  /\ pc = "hello"
  /\ \/ /\ pipe # <<>> /\ pipe' = Tail(pipe)
        /\ \/ pc' = "spawn" /\ UNCHANGED <<stdin, proc>>
           \/ Fail
     \/ Closed /\ Fail /\ UNCHANGED pipe
  /\ UNCHANGED <<helper, cgroup, parent, maps, seen, trace, crashes>>

Spawn ==
  /\ pc = "spawn"
  /\ \/ pc' = "stop" /\ proc' = [proc EXCEPT ![Root] = "born"] /\ UNCHANGED stdin
     \/ Fail
  /\ UNCHANGED <<helper, cgroup, pipe, parent, maps, seen, trace, crashes>>

\* wait_for_stop: one that does not stop within the timeout is killed.
WaitForStop ==
  /\ pc = "stop"
  /\ \/ proc[Root] = "stopped" /\ pc' = "observe" /\ UNCHANGED <<stdin, proc>>
     \/ proc[Root] = "gone" /\ Fail
     \/ /\ proc[Root] = "born"
        /\ pc' = "failed" /\ stdin' = "closed"
        /\ proc' = [proc EXCEPT ![Root] = "gone"]
  /\ UNCHANGED <<helper, cgroup, pipe, parent, maps, seen, trace, crashes>>

\* Recorder::observe, first half: the scope is written.
SendScope ==
  /\ pc = "observe"
  /\ \/ helper # "gone" /\ pc' = "ack" /\ stdin' = "scope" /\ UNCHANGED proc
     \/ helper = "gone" /\ Fail
  /\ UNCHANGED <<helper, cgroup, pipe, parent, maps, seen, trace, crashes>>

\* Mutant: the acknowledgement is not waited for.
ReadAckLater ==
  /\ pc = "ack"
  /\ pc' = "resume"
  /\ pipe' = SelectSeq(pipe, LAMBDA f : f.tag # "ack")
  /\ UNCHANGED <<helper, cgroup, stdin, target, maps, seen, trace, crashes>>

\* Recorder::observe, second half: the acknowledgement, or the end.
ReadAck ==
  /\ pc = "ack"
  /\ \/ pipe # <<>> /\ pipe' = Tail(pipe) /\ pc' = "resume" /\ UNCHANGED <<stdin, proc>>
     \/ Closed /\ Fail /\ UNCHANGED pipe
  /\ UNCHANGED <<helper, cgroup, parent, maps, seen, trace, crashes>>

Resume ==
  /\ pc = "resume"
  /\ \/ /\ proc[Root] = "stopped"
        /\ proc' = [proc EXCEPT ![Root] = "running"]
        /\ pc' = "wait" /\ UNCHANGED stdin
     \/ proc[Root] = "gone" /\ Fail
  /\ UNCHANGED <<helper, cgroup, pipe, parent, maps, seen, trace, crashes>>

\* Mutant: the helper's stdin stays open.
WaitOpen ==
  /\ pc = "wait" /\ proc[Root] = "gone"
  /\ pc' = "read"
  /\ UNCHANGED <<helper, cgroup, stdin, pipe, target, maps, seen, trace, crashes>>

\* Confined::wait, and then Recorder::finish, which closes the helper's stdin.
Wait ==
  /\ pc = "wait" /\ proc[Root] = "gone"
  /\ pc' = "read" /\ stdin' = "closed"
  /\ UNCHANGED <<helper, cgroup, pipe, target, maps, seen, trace, crashes>>

\* read_frames: records up to the cap, the rest counted, and the summary.
ReadFrame ==
  /\ pc = "read" /\ pipe # <<>>
  /\ pipe' = Tail(pipe)
  /\ LET frame == Head(pipe) IN
     \/ /\ frame.tag = "record" /\ Len(events) < MaxEvents
        /\ events' = Append(events, frame.value)
        /\ UNCHANGED <<lost, summary>>
     \/ /\ frame.tag = "record" /\ Len(events) >= MaxEvents
        /\ lost' = lost + 1
        /\ UNCHANGED <<events, summary>>
     \/ /\ frame.tag = "summary"
        /\ lost' = lost + frame.value
        /\ summary' = TRUE
        /\ UNCHANGED events
  /\ UNCHANGED <<pc, helper, cgroup, stdin, target, maps, seen, crashes>>

\* The stream ends, with or without a summary, and the trace is what was read.
ReadEnd ==
  /\ pc = "read" /\ Closed
  /\ pc' = "done"
  /\ UNCHANGED <<helper, cgroup, stdin, pipe, target, maps, seen, trace, crashes>>

Killed ==
  /\ pc \notin Over /\ crashes < MaxCrashes
  /\ crashes' = crashes + 1
  /\ Stop("dead")
  /\ UNCHANGED <<helper, cgroup, pipe, parent, maps, seen, trace>>

-----------------------------------------------------------------------------
(***************************************************************************)
(* The helper.  A write waits while the pipe is full, and ends the helper  *)
(* when nobody can read it any more.                                       *)
(***************************************************************************)

\* Mutant: writes do not wait.
RoomAlways == TRUE

Room == Len(pipe) < PipeCap

Write(frame, label) ==
  \/ /\ pc \notin Over /\ Room
     /\ pipe' = Append(pipe, frame)
     /\ helper' = label
  \/ pc \in Over /\ helper' = "gone" /\ UNCHANGED pipe

HelperLoad ==
  /\ helper = "load"
  /\ \/ Write(Frame("hello", 0), "scope")
     \/ helper' = "gone" /\ UNCHANGED pipe
  /\ UNCHANGED <<pc, cgroup, stdin, target, maps, seen, trace, crashes>>

\* Mutant: the scope is acknowledged without having been set.
HelperScopeUnset ==
  /\ helper = "scope"
  /\ \/ stdin = "scope" /\ stdin' = "open" /\ helper' = "ack"
     \/ stdin = "closed" /\ helper' = "gone" /\ UNCHANGED stdin
  /\ UNCHANGED <<pc, cgroup, pipe, target, maps, seen, trace, crashes>>

HelperScope ==
  /\ helper = "scope"
  /\ \/ /\ stdin = "scope" /\ stdin' = "open"
        /\ scope' = cgroup
        /\ tracked' = IF cgroup THEN {} ELSE {Root}
        /\ helper' = "ack"
     \/ /\ stdin = "closed"
        /\ helper' = "gone"
        /\ UNCHANGED <<stdin, scope, tracked>>
  /\ UNCHANGED <<pc, cgroup, pipe, target, ring, dropped, seen, trace, crashes>>

HelperAck ==
  /\ helper = "ack"
  /\ Write(Frame("ack", 0), "follow")
  /\ UNCHANGED <<pc, cgroup, stdin, target, maps, seen, trace, crashes>>

\* follow_descendants reads /proc: the children of processes that are there.
Children(ps) == {q \in Procs : proc[q] = "running" /\ parent[q] \in ps /\ proc[parent[q]] = "running"}

\* The work list ends with the least set that holds what is tracked already and
\* the children of all it holds.
Descendants ==
  {q \in Procs : \A ps \in SUBSET Procs :
                   tracked \union Children(ps) \subseteq ps => q \in ps}

HelperFollow ==
  /\ \/ helper = "follow" /\ helper' = "drain"
     \/ helper = "lastFollow" /\ helper' = "lastDrain"
  /\ tracked' = IF cgroup THEN tracked ELSE Descendants
  /\ UNCHANGED <<pc, cgroup, stdin, pipe, target, scope, ring, dropped, seen, trace, crashes>>

\* Mutant: a record is written before it is taken from the ring, and stays.
HelperDrainTwice ==
  /\ helper \in {"drain", "lastDrain"}
  /\ \/ /\ ring # <<>>
        /\ Write(Frame("record", Head(ring)), helper)
        /\ ring' \in {ring, Tail(ring)}
     \/ /\ ring = <<>>
        /\ helper' = IF helper = "drain" THEN "poll" ELSE "summary"
        /\ UNCHANGED <<pipe, ring>>
  /\ UNCHANGED <<pc, cgroup, stdin, target, scope, tracked, dropped, seen, trace, crashes>>

HelperDrain ==
  /\ helper \in {"drain", "lastDrain"}
  /\ \/ /\ ring # <<>>
        /\ Write(Frame("record", Head(ring)), helper)
        /\ ring' = Tail(ring)
     \/ /\ ring = <<>>
        /\ helper' = IF helper = "drain" THEN "poll" ELSE "summary"
        /\ UNCHANGED <<pipe, ring>>
  /\ UNCHANGED <<pc, cgroup, stdin, target, scope, tracked, dropped, seen, trace, crashes>>

\* Mutant: the end of stdin is taken for nothing to read.
HelperPollOn ==
  /\ helper = "poll"
  /\ helper' = "follow"
  /\ UNCHANGED <<pc, cgroup, stdin, pipe, target, maps, seen, trace, crashes>>

HelperPoll ==
  /\ helper = "poll"
  /\ helper' = IF stdin = "closed" THEN "lastFollow" ELSE "follow"
  /\ UNCHANGED <<pc, cgroup, stdin, pipe, target, maps, seen, trace, crashes>>

HelperSummary ==
  /\ helper = "summary"
  /\ Write(Frame("summary", dropped), "gone")
  /\ UNCHANGED <<pc, cgroup, stdin, target, maps, seen, trace, crashes>>

HelperDies ==
  /\ helper # "gone" /\ crashes < MaxCrashes
  /\ crashes' = crashes + 1
  /\ helper' = "gone"
  /\ UNCHANGED <<pc, cgroup, stdin, pipe, target, maps, seen, trace>>

-----------------------------------------------------------------------------
(***************************************************************************)
(* The target's processes, and the programs attached to what they do.      *)
(***************************************************************************)

\* The trap of PTRACE_TRACEME, at the end of the exec.
Trap ==
  /\ proc[Root] = "born"
  /\ proc' = [proc EXCEPT ![Root] = "stopped"]
  /\ UNCHANGED <<pc, helper, cgroup, stdin, pipe, parent, maps, seen, trace, crashes>>

Counting(p) == \E entry \in counting : entry.by = p

\* A process that is not in the middle of an access.
Free(p) == proc[p] = "running" /\ ~Counting(p)

Fork(p) ==
  /\ Free(p)
  /\ \E q \in Procs \ {Root} :
       /\ proc[q] = "unborn"
       /\ proc' = [proc EXCEPT ![q] = "running"]
       /\ parent' = [parent EXCEPT ![q] = p]
  /\ UNCHANGED <<pc, helper, cgroup, stdin, pipe, maps, seen, trace, crashes>>

\* A process ends, or is killed while it is held.
Exit(p) ==
  /\ Free(p) \/ proc[p] \in {"born", "stopped"}
  /\ proc' = [proc EXCEPT ![p] = "gone"]
  /\ UNCHANGED <<pc, helper, cgroup, stdin, pipe, parent, maps, seen, trace, crashes>>

\* in_scope: by cgroup, which is inherited at fork, or by pid.
InScope(p) == IF scope THEN TRUE ELSE p \in tracked

Attached == helper \notin {"load", "gone"}

\* The access is submitted, and is owed to the trace while the root is there.
Owe(n) == due' = IF proc[Root] = "running" THEN due \union {n} ELSE due

\* submit: a record in the ring, or the start of a count when the ring is full
\* or the record cannot be filled.  Where the program cannot read what it is
\* called with, it returns before that.
Access(p) ==
  LET n == accesses + 1 IN
  /\ Free(p) /\ accesses < MaxAccesses
  /\ accesses' = n
  /\ \/ /\ Attached /\ InScope(p) /\ Len(ring) < RingCap
        /\ ring' = Append(ring, n)
        /\ Owe(n)
        /\ UNCHANGED <<counting, missed>>
     \/ /\ Attached /\ InScope(p)
        /\ counting' = counting \union {[by |-> p, access |-> n, read |-> dropped]}
        /\ UNCHANGED <<ring, due, missed>>
     \/ /\ Attached /\ ~InScope(p)
        /\ missed' = missed \union {n}
        /\ UNCHANGED <<ring, counting, due>>
     \/ /\ ~Attached \/ InScope(p)
        /\ UNCHANGED <<ring, counting, due, missed>>
  /\ UNCHANGED <<pc, helper, cgroup, stdin, pipe, target, scope, tracked, dropped, trace, crashes>>

\* Mutant: a lost record is not counted.
CountNothing(p) ==
  \E entry \in counting :
    /\ entry.by = p
    /\ counting' = counting \ {entry}
    /\ Owe(entry.access)
    /\ UNCHANGED <<pc, helper, cgroup, stdin, pipe, target, maps, accesses, missed,
                   trace, crashes>>

\* count_drop: the rest of an increment that is not atomic.
CountDrop(p) ==
  \E entry \in counting :
    /\ entry.by = p
    /\ counting' = counting \ {entry}
    /\ dropped' = entry.read + 1
    /\ Owe(entry.access)
    /\ UNCHANGED <<pc, helper, cgroup, stdin, pipe, target, scope, tracked, ring,
                   accesses, missed, trace, crashes>>

-----------------------------------------------------------------------------
BaileyStep ==
  \/ ReadHello \/ Spawn \/ WaitForStop \/ SendScope \/ ReadAck \/ Resume
  \/ Wait \/ ReadFrame \/ ReadEnd

HelperStep ==
  \/ HelperLoad \/ HelperScope \/ HelperAck \/ HelperFollow \/ HelperDrain
  \/ HelperPoll \/ HelperSummary

TargetStep ==
  \/ Trap
  \/ \E p \in Procs : Fork(p) \/ Exit(p) \/ Access(p) \/ CountDrop(p)

Next == BaileyStep \/ HelperStep \/ TargetStep \/ Killed \/ HelperDies

Spec == Init /\ [][Next]_vars

\* Bailey and the helper are scheduled, and the target is under no obligation.
FairSpec == Spec /\ WF_vars(BaileyStep) /\ WF_vars(HelperStep)

-----------------------------------------------------------------------------
(***************************************************************************)
(* Properties.                                                             *)
(***************************************************************************)
Numbers == 0..MaxAccesses
Frames  == [tag : {"hello", "ack", "record", "summary"}, value : Numbers]

\* The types of the variables: the pipe and the ring never hold more than fits
\* them, and the trace no more than MAX_EVENTS (RingBuf, read_frames).
TypeOK ==
  /\ pc \in {"hello", "spawn", "stop", "observe", "ack", "resume", "wait", "read"} \union Over
  /\ helper \in {"load", "scope", "ack", "follow", "drain", "poll", "lastFollow",
                 "lastDrain", "summary", "gone"}
  /\ cgroup \in BOOLEAN /\ scope \in BOOLEAN /\ summary \in BOOLEAN
  /\ stdin \in {"open", "scope", "closed"}
  /\ pipe \in Seq(Frames) /\ Len(pipe) <= PipeCap
  /\ ring \in Seq(Numbers) /\ Len(ring) <= RingCap
  /\ events \in Seq(Numbers) /\ Len(events) <= MaxEvents
  /\ tracked \subseteq Procs
  /\ proc \in [Procs -> {"unborn", "born", "stopped", "running", "gone"}]
  /\ parent \in [Procs -> Procs]
  /\ counting \subseteq [by : Procs, access : Numbers, read : Numbers]
  /\ accesses \in Numbers /\ due \subseteq Numbers /\ missed \subseteq Numbers
  /\ dropped \in Nat /\ lost \in Nat /\ crashes \in Nat

\* While bailey records, the target does not run before the helper is watching
\* it: "only then may the parent let the target run" (record, HelperScope).
WatchedBeforeRunning ==
  pc \notin Over /\ proc[Root] = "running" =>
    IF cgroup THEN scope ELSE Root \in tracked

\* In a cgroup nothing a process of the run does is out of scope, however it
\* was forked and whoever outlives whom (in_scope).
CgroupMissesNothing == cgroup /\ pc \notin Over => missed = {}

Recorded == {events[i] : i \in DOMAIN events}

\* A trace with a summary holds every access that was in scope and submitted
\* while the target was there, or says that it lost some; the count itself may
\* be short, since its increment is not atomic, but is never zero then (submit,
\* read_frames).
SummaryIsTrue ==
  pc = "done" /\ summary =>
    /\ lost = 0 => due \subseteq Recorded
    /\ lost <= accesses - Cardinality(Recorded)

\* The events are accesses in the order they were made, none of them twice
\* (drain, read_frames).
EventsInOrder ==
  \A i, j \in DOMAIN events : i < j => events[i] < events[j]

Waiting == pc = "wait" /\ proc[Root] # "gone"

\* Bailey never waits for anything but the target: everything else it waits
\* for comes, or its end is noticed.
BaileyEnds == ~Waiting ~> pc \in Over \/ Waiting

\* The privileged helper does not outlive the bailey that started it, whatever
\* it was doing when bailey ended (stdin_closed, and writes to a closed pipe).
HelperEnds == pc \in Over ~> helper = "gone"

\* "A trace that lost events says so" (event.rs), whatever became of the helper.
LossIsSaid == pc = "done" /\ lost = 0 => due \subseteq Recorded
=============================================================================
