---------------------------- MODULE RunLifecycle ----------------------------
(***************************************************************************)
(* What confined runs leave on the host they share.                        *)
(*                                                                         *)
(* Before its target starts a run builds things every other process of the *)
(* user can see: FUSE mounts, relay sockets, a staging directory, a        *)
(* cgroup.  It takes them down when the target ends or when setting up     *)
(* fails, through guards that are dropped in order; a signal drops         *)
(* nothing.  Leftovers are named after the pid of the run that made them,  *)
(* and the next run sweeps those whose pid no longer exists.  Runs of one  *)
(* user do all this side by side, and pids are used again.                 *)
(*                                                                         *)
(* Source: crates/bailey/src/backend/enforce.rs (spawn, Confined, the      *)
(* guards and the staging sweep), fuse.rs, relay.rs, and cli.rs (cmd_run). *)
(***************************************************************************)
EXTENDS Naturals, FiniteSets, Sequences

CONSTANTS
  Runs,      \* invocations of `bailey run`
  Pids,      \* process ids; that of a run that is over is given out again
  Policies,  \* what a run may be asked for, see PolicyType
  MaxFuse, MaxSockets, \* bounds: mounts and relays in one policy
  MaxKills   \* bound: runs killed by a signal

\* Whether the backend isolates, and what the policy asks for; a private /tmp is
\* one the isolation layer makes on disk.
PolicyType == [isolate : BOOLEAN, fuse : 0..MaxFuse, sockets : 0..MaxSockets,
               forward : BOOLEAN, tmp : BOOLEAN, limits : BOOLEAN]

ASSUME PoliciesAssumption == Policies # {} /\ Policies \subseteq PolicyType
ASSUME PidsAssumption == Pids # {}
ASSUME BoundsAssumption == MaxFuse \in Nat /\ MaxSockets \in Nat /\ MaxKills \in Nat

VARIABLES
  pc,        \* where a run is in `spawn`, `wait` and `cmd_run`
  pid, plan, \* the run's process id and its policy
  next,      \* the next mount or socket to make, or to take down
  sweep,     \* entries a sweep has still to look at
  doomed,    \* entries a sweep found ownerless and is about to remove
  stale,     \* history: entries that were ownerless ever since the sweep began
  raced,     \* history: runs given a pid whose relays a sweep was about to remove
  held,      \* the guards that exist, and so will be dropped
  outcome,   \* "none", "ran", or "refused" before the target started
  target,    \* "none", "alive" or "gone"
  staged,    \* staging directories, by the run that made them
  fuseDirs, points, mounts,   \* /tmp/.bailey-fuse.PID, /K under it, mounted there
  relayDirs, socks,           \* /tmp/.bailey-sock.PID, /K under it, by whom
  cgroups, limited, members,  \* bailey.PID, whose limits, whose processes
  kept,      \* <<run, guard>>: removals the kernel refused at teardown
  kills

self  == <<pid, plan>>
swept == <<sweep, doomed, stale, raced>>
loop  == <<next, swept>>
ended == <<outcome, target>>
fuse  == <<fuseDirs, points, mounts>>
relay == <<relayDirs, socks>>
cgrp  == <<cgroups, limited, members>>
host  == <<staged, fuse, relay, cgrp>>
vars  == <<pc, self, loop, held, ended, host, kept, kills>>

Live(r)  == pc[r] \notin {"off", "done", "dead"}
Alive(p) == \E r \in Runs : Live(r) /\ pid[r] = p

Goto(r, label)   == pc' = [pc EXCEPT ![r] = label]
At(r, label)     == pc[r] = label
Hold(r, guards)  == held' = [held EXCEPT ![r] = @ \union guards]
Of(r, k)         == <<pid[r], k, r>>    \* the r's own k-th mount or socket

Init ==
  /\ pc = [r \in Runs |-> "off"]
  /\ pid = [r \in Runs |-> CHOOSE p \in Pids : TRUE]
  /\ plan = [r \in Runs |-> CHOOSE policy \in Policies : TRUE]
  /\ next = [r \in Runs |-> 0]
  /\ sweep = [r \in Runs |-> {}] /\ doomed = [r \in Runs |-> {}]
  /\ stale = [r \in Runs |-> {}] /\ raced = {}
  /\ held = [r \in Runs |-> {}]
  /\ outcome = [r \in Runs |-> "none"] /\ target = [r \in Runs |-> "none"]
  /\ staged = {}
  /\ fuseDirs = {} /\ points = {} /\ mounts = {}
  /\ relayDirs = {} /\ socks = {}
  /\ cgroups = {} /\ limited = {} /\ members = {}
  /\ kept = {} /\ kills = 0

-----------------------------------------------------------------------------
(***************************************************************************)
(* Starting, and the pre-launch hooks, which abort the run when one fails. *)
(***************************************************************************)
\* Mutant: the pid of the sweeping run is taken for the owner's.
OwnerSelf(r, entry) == pid[r]

\* Whose pid decides whether a sweep removes an entry: a staging directory is
\* named after its run's, a FUSE or relay one is a pid.
Owner(r, entry) == IF At(r, "sweepStaging") THEN pid[entry] ELSE entry

Start(r) ==
  /\ At(r, "off")
  /\ \E p \in Pids, policy \in Policies :
       /\ ~Alive(p)
       /\ pid' = [pid EXCEPT ![r] = p]
       /\ plan' = [plan EXCEPT ![r] = policy]
       /\ stale' = [q \in Runs |-> {entry \in stale[q] : Owner(q, entry) # p}]
       /\ raced' = raced \union
                     {s \in {r} : \E q \in Runs : At(q, "sweepRelay") /\ p \in doomed[q]}
  /\ Goto(r, "hooks")
  /\ UNCHANGED <<next, sweep, doomed, held, ended, host, kept, kills>>

PreLaunch(r) ==
  /\ At(r, "hooks")
  /\ \/ Goto(r, "fuse") /\ UNCHANGED outcome
     \/ Goto(r, "done") /\ outcome' = [outcome EXCEPT ![r] = "refused"]
  /\ UNCHANGED <<self, loop, held, target, host, kept, kills>>

\* An error return: the guards built so far drop, the last declared first.
Fail(r) ==
  /\ Goto(r, "dropStaging")
  /\ outcome' = [outcome EXCEPT ![r] = "refused"]
  /\ next' = [next EXCEPT ![r] = 0]

-----------------------------------------------------------------------------
(***************************************************************************)
(* The sweeps.  Each lists the entries there are, asks of one at a time    *)
(* whether the pid in its name exists, and removes it if not.  Staging and *)
(* FUSE directories are removed only when empty, relay ones with all they  *)
(* hold.                                                                   *)
(***************************************************************************)
BeginSweep(r, label, entries, ownerless) ==
  /\ Goto(r, label)
  /\ sweep' = [sweep EXCEPT ![r] = entries]
  /\ stale' = [stale EXCEPT ![r] = ownerless]

\* Mutant: the pid in the name is not asked about.
SweepUnasked(r) ==
  /\ pc[r] \in {"sweepFuse", "sweepRelay", "sweepStaging"}
  /\ doomed[r] = {}
  /\ \E entry \in sweep[r] :
       /\ sweep' = [sweep EXCEPT ![r] = @ \ {entry}]
       /\ doomed' = [doomed EXCEPT ![r] = {entry}]
  /\ UNCHANGED <<pc, self, next, stale, raced, held, ended, host, kept, kills>>

\* Mutant: an entry that is kept is looked at again.
SweepRetries(r) ==
  /\ pc[r] \in {"sweepFuse", "sweepRelay", "sweepStaging"}
  /\ doomed[r] = {}
  /\ \E entry \in sweep[r] :
       /\ sweep' = [sweep EXCEPT ![r] = IF Alive(Owner(r, entry)) THEN @ ELSE @ \ {entry}]
       /\ doomed' = [doomed EXCEPT ![r] = IF Alive(Owner(r, entry)) THEN {} ELSE {entry}]
  /\ UNCHANGED <<pc, self, next, stale, raced, held, ended, host, kept, kills>>

SweepLook(r) ==
  /\ pc[r] \in {"sweepFuse", "sweepRelay", "sweepStaging"}
  /\ doomed[r] = {}
  /\ \E entry \in sweep[r] :
       /\ sweep' = [sweep EXCEPT ![r] = @ \ {entry}]
       /\ doomed' = [doomed EXCEPT ![r] = IF Alive(Owner(r, entry)) THEN {} ELSE {entry}]
  /\ UNCHANGED <<pc, self, next, stale, raced, held, ended, host, kept, kills>>

SweepRemove(r) ==
  /\ doomed[r] # {}
  /\ doomed' = [doomed EXCEPT ![r] = {}]
  /\ \/ /\ At(r, "sweepFuse")
        /\ fuseDirs' = fuseDirs \ {p \in doomed[r] : \A point \in points : point[1] # p}
        /\ UNCHANGED <<staged, points, mounts, relay>>
     \/ /\ At(r, "sweepRelay")
        /\ relayDirs' = relayDirs \ doomed[r]
        /\ socks' = {sock \in socks : sock[1] \notin doomed[r]}
        /\ UNCHANGED <<staged, fuse>>
     \/ /\ At(r, "sweepStaging")
        /\ staged' = staged \ doomed[r]
        /\ UNCHANGED <<fuse, relay>>
  /\ UNCHANGED <<pc, self, next, sweep, stale, raced, held, ended, cgrp, kept, kills>>

SweepEnd(r) ==
  /\ sweep[r] = {} /\ doomed[r] = {}
  /\ \/ At(r, "sweepFuse") /\ Goto(r, "mount")
     \/ At(r, "sweepRelay") /\ Goto(r, "listen")
     \/ At(r, "sweepStaging") /\ Goto(r, "stage")
  /\ UNCHANGED <<self, loop, held, ended, host, kept, kills>>

-----------------------------------------------------------------------------
(***************************************************************************)
(* FUSE mounts, one after another.  The guard exists once all are made.    *)
(***************************************************************************)
FuseWanted(r) ==
  /\ At(r, "fuse")
  /\ \/ plan[r].fuse = 0 /\ Goto(r, "relay") /\ UNCHANGED <<sweep, stale, next, outcome>>
     \/ plan[r].fuse > 0 /\ ~plan[r].isolate /\ Fail(r) /\ UNCHANGED <<sweep, stale>>
     \/ /\ plan[r].fuse > 0 /\ plan[r].isolate
        /\ BeginSweep(r, "sweepFuse", fuseDirs, {p \in fuseDirs : ~Alive(p)})
        /\ UNCHANGED <<next, outcome>>
  /\ UNCHANGED <<self, doomed, raced, held, target, host, kept, kills>>

\* create_dir_all for the mountpoint, then the mount command.
Mount(r) ==
  LET k == next[r] IN
  /\ At(r, "mount") /\ k < plan[r].fuse
  /\ fuseDirs' = fuseDirs \union {pid[r]}
  /\ points' = points \union {<<pid[r], k>>}
  /\ \/ /\ mounts' = mounts \union {Of(r, k)}
        /\ next' = [next EXCEPT ![r] = k + 1]
        /\ UNCHANGED <<pc, outcome>>
     \/ Fail(r) /\ UNCHANGED mounts
  /\ UNCHANGED <<self, swept, held, target, staged, relay, cgrp, kept, kills>>

MountsMade(r) ==
  /\ At(r, "mount") /\ next[r] = plan[r].fuse
  /\ Hold(r, {"fuse"})
  /\ next' = [next EXCEPT ![r] = 0]
  /\ Goto(r, "relay")
  /\ UNCHANGED <<self, swept, ended, host, kept, kills>>

-----------------------------------------------------------------------------
(***************************************************************************)
(* Relay sockets, one after another.  The guard exists once all listen.    *)
(***************************************************************************)

\* Refused without isolation, and where a relay overlaps a grant.
RelaysWanted(r) ==
  /\ At(r, "relay")
  /\ \/ plan[r].sockets = 0 /\ Goto(r, "checks") /\ UNCHANGED <<sweep, stale, next, outcome>>
     \/ plan[r].sockets > 0 /\ Fail(r) /\ UNCHANGED <<sweep, stale>>
     \/ /\ plan[r].sockets > 0 /\ plan[r].isolate
        /\ BeginSweep(r, "sweepRelay", relayDirs, {p \in relayDirs : ~Alive(p)})
        /\ UNCHANGED <<next, outcome>>
  /\ UNCHANGED <<self, doomed, raced, held, target, host, kept, kills>>

\* The helper that opens URLs may be missing, and the directory refused.
\* A run that relays URLs fails here as well when it lacks the helper to open them.
ListenDir(r) ==
  /\ At(r, "listen")
  /\ \/ /\ relayDirs' = relayDirs \union {pid[r]}
        /\ Goto(r, "bind")
        /\ UNCHANGED <<next, outcome>>
     \/ Fail(r) /\ UNCHANGED relayDirs
  /\ UNCHANGED <<self, swept, held, target, staged, fuse, socks, cgrp,
                 kept, kills>>

\* A bind fails where the file is there already or the directory is not; and for
\* reasons of its own.
Bindable(r, k) == pid[r] \in relayDirs /\ \A s \in Runs : <<pid[r], k, s>> \notin socks

Bind(r) ==
  LET k == next[r] IN
  /\ At(r, "bind") /\ k < plan[r].sockets
  /\ \/ /\ Bindable(r, k)
        /\ socks' = socks \union {Of(r, k)}
        /\ next' = [next EXCEPT ![r] = k + 1]
        /\ UNCHANGED <<pc, outcome>>
     \/ Fail(r) /\ UNCHANGED socks
  /\ UNCHANGED <<self, swept, held, target, staged, fuse, relayDirs, cgrp, kept, kills>>

RelaysMade(r) ==
  /\ At(r, "bind") /\ next[r] = plan[r].sockets
  /\ Hold(r, {"relay"})
  /\ next' = [next EXCEPT ![r] = 0]
  /\ Goto(r, "checks")
  /\ UNCHANGED <<self, swept, ended, host, kept, kills>>

-----------------------------------------------------------------------------
(***************************************************************************)
(* The staging directory.                                                  *)
(***************************************************************************)

\* Forwards that contradict each other or the network mode refuse the run.
Checks(r) ==
  /\ At(r, "checks")
  /\ \/ plan[r].forward /\ Fail(r) /\ UNCHANGED <<sweep, stale>>
     \/ ~plan[r].isolate /\ Goto(r, "cgroup") /\ UNCHANGED <<sweep, stale, next, outcome>>
     \/ /\ plan[r].isolate
        /\ BeginSweep(r, "sweepStaging", staged, {s \in staged : ~Alive(pid[s])})
        /\ UNCHANGED <<next, outcome>>
  /\ UNCHANGED <<self, doomed, raced, held, target, host, kept, kills>>

\* build_isolation_plan makes the directory last, under a name nobody has.
Stage(r) ==
  /\ At(r, "stage")
  /\ \/ staged' = staged \union {r} /\ Goto(r, "tmp") /\ UNCHANGED <<next, outcome>>
     \/ Fail(r) /\ UNCHANGED staged
  /\ UNCHANGED <<self, swept, held, target, fuse, relay, cgrp, kept, kills>>

\* The policy's own `tmp_dir` is made where it has one.
MakeTmp(r) ==
  /\ At(r, "tmp")
  /\ \/ Goto(r, "cgroup") /\ UNCHANGED <<next, outcome>>
     \/ plan[r].tmp /\ Fail(r)
  /\ UNCHANGED <<self, swept, held, target, host, kept, kills>>

-----------------------------------------------------------------------------
(***************************************************************************)
(* The cgroup.  Nothing that goes wrong here fails the run.  The staging   *)
(* guard is built on the way out, after everything above.                  *)
(***************************************************************************)
ReadyToSpawn(r, guards) ==
  /\ Goto(r, "spawn")
  /\ Hold(r, guards \union (IF plan[r].isolate THEN {"staging"} ELSE {}))

Populated(p) == \E r \in Runs : <<p, r>> \in members
LimitsBy(p)  == {r \in Runs : <<p, r>> \in limited}

\* No limits asked for, nowhere to make a cgroup, or one in the way that
\* still has processes.
NoCgroup(r) ==
  /\ At(r, "cgroup")
  /\ ReadyToSpawn(r, {})
  /\ UNCHANGED <<self, loop, ended, host, kept, kills>>

\* Mutant: a leftover of the same name is joined as it is.
JoinLeftover(r) ==
  /\ At(r, "cgroup") /\ plan[r].limits
  /\ cgroups' = cgroups \union {pid[r]}
  /\ Goto(r, "limit")
  /\ UNCHANGED <<self, loop, held, ended, staged, fuse, relay, limited, members, kept, kills>>

\* A leftover of the same name is removed and made anew, without its limits.
MakeCgroup(r) ==
  /\ At(r, "cgroup") /\ plan[r].limits
  /\ ~Populated(pid[r])
  /\ cgroups' = cgroups \union {pid[r]}
  /\ limited' = {entry \in limited : entry[1] # pid[r]}
  /\ Goto(r, "limit")
  /\ UNCHANGED <<self, loop, held, ended, staged, fuse, relay, members, kept, kills>>

\* A limit that cannot be written gives the cgroup up where it is.
WriteLimits(r) ==
  /\ At(r, "limit")
  /\ \/ limited' = limited \union {<<pid[r], r>>} /\ ReadyToSpawn(r, {"cgroup"})
     \/ UNCHANGED limited /\ ReadyToSpawn(r, {})
  /\ UNCHANGED <<self, loop, ended, staged, fuse, relay, cgroups, members, kept, kills>>

-----------------------------------------------------------------------------
(***************************************************************************)
(* The target, and the processes it leaves.                                *)
(***************************************************************************)

\* The child joins the cgroup before anything else that can fail.
Spawn(r) ==
  /\ At(r, "spawn")
  /\ \/ /\ Goto(r, "running")
        /\ target' = [target EXCEPT ![r] = "alive"]
        /\ members' = IF "cgroup" \in held[r] THEN members \union {<<pid[r], r>>} ELSE members
        /\ UNCHANGED <<next, outcome>>
     \/ Fail(r) /\ UNCHANGED <<target, members>>
  /\ UNCHANGED <<self, swept, held, staged, fuse, relay, cgroups, limited, kept, kills>>

\* PID 1 of an isolated run takes every process with it; otherwise some of
\* what the target started may stay.
TargetEnds(r) ==
  /\ target[r] = "alive"
  /\ target' = [target EXCEPT ![r] = "gone"]
  /\ members' \in {members \ {<<pid[r], r>>}} \union (IF plan[r].isolate THEN {} ELSE {members})
  /\ \/ /\ At(r, "running")
        /\ Goto(r, "downCgroup")
        /\ outcome' = [outcome EXCEPT ![r] = "ran"]
     \/ pc[r] = "dead" /\ UNCHANGED <<pc, outcome>>
  /\ UNCHANGED <<self, loop, held, staged, fuse, relay, cgroups, limited, kept, kills>>

LastProcessEnds(r) ==
  /\ target[r] = "gone" /\ \E p \in Pids : <<p, r>> \in members
  /\ members' = {entry \in members : entry[2] # r}
  /\ UNCHANGED <<pc, self, loop, held, ended, staged, fuse, relay, cgroups, limited, kept, kills>>

-----------------------------------------------------------------------------
(***************************************************************************)
(* Teardown.  Confined::wait drops cgroup, staging, FUSE, relay; an error  *)
(* return drops staging, cgroup, relay, FUSE.                              *)
(***************************************************************************)
AfterDrop == [downCgroup  |-> "downStaging", downStaging |-> "downFuse",
              downFuse    |-> "downRelay",   downRelay   |-> "post",
              dropStaging |-> "dropCgroup",  dropCgroup  |-> "dropRelay",
              dropRelay   |-> "dropFuse",    dropFuse    |-> "done"]

Dropping(r, guard, labels) ==
  /\ pc[r] \in labels
  /\ held' = [held EXCEPT ![r] = @ \ {guard}]
  /\ Goto(r, AfterDrop[pc[r]])

Drops(r, guard) == guard \in held[r]

DropCgroup(r) ==
  LET empty == ~Populated(pid[r]) IN
  /\ Dropping(r, "cgroup", {"downCgroup", "dropCgroup"})
  /\ cgroups' = IF Drops(r, "cgroup") /\ empty THEN cgroups \ {pid[r]} ELSE cgroups
  /\ limited' = IF Drops(r, "cgroup") /\ empty
                THEN {entry \in limited : entry[1] # pid[r]} ELSE limited
  /\ kept' = IF Drops(r, "cgroup") /\ ~empty THEN kept \union {<<r, "cgroup">>} ELSE kept
  /\ UNCHANGED <<self, loop, ended, staged, fuse, relay, members, kills>>

DropStaging(r) ==
  /\ Dropping(r, "staging", {"downStaging", "dropStaging"})
  /\ staged' = IF Drops(r, "staging") THEN staged \ {r} ELSE staged
  /\ UNCHANGED <<self, loop, ended, fuse, relay, cgrp, kept, kills>>

\* Mutant: one mount too many is taken down.
UnmountPastEnd(r) ==
  LET k == next[r] IN
  /\ pc[r] \in {"downFuse", "dropFuse"} /\ Drops(r, "fuse") /\ k <= plan[r].fuse
  /\ next' = [next EXCEPT ![r] = k + 1]
  /\ mounts' = mounts \ {Of(r, k)}
  /\ points' = points \ {<<pid[r], k>>}
  /\ UNCHANGED <<pc, self, swept, held, ended, staged, fuseDirs, relay,
                 cgrp, kept, kills>>

\* One mount at a time: unmount, which may fail, and remove the mountpoint,
\* which the kernel refuses while anything is mounted there.
Unmount(r) ==
  LET k == next[r] IN
  /\ pc[r] \in {"downFuse", "dropFuse"} /\ Drops(r, "fuse") /\ k < plan[r].fuse
  /\ next' = [next EXCEPT ![r] = k + 1]
  /\ \/ /\ mounts' = mounts \ {Of(r, k)}
        /\ points' = points \ {point \in {<<pid[r], k>>} :
                                 \A m \in mounts' : <<m[1], m[2]>> # point}
        /\ UNCHANGED kept
     \/ kept' = kept \union {<<r, "fuse">>} /\ UNCHANGED <<mounts, points>>
  /\ UNCHANGED <<pc, self, swept, held, ended, staged, fuseDirs, relay, cgrp, kills>>

DropFuse(r) ==
  /\ Drops(r, "fuse") => next[r] = plan[r].fuse
  /\ Dropping(r, "fuse", {"downFuse", "dropFuse"})
  /\ fuseDirs' = IF Drops(r, "fuse") /\ \A point \in points : point[1] # pid[r]
                 THEN fuseDirs \ {pid[r]} ELSE fuseDirs
  /\ UNCHANGED <<self, loop, ended, staged, points, mounts, relay, cgrp, kept, kills>>

\* Mutant: the relay directory is removed as if it were empty.
DropEmptyRelay(r) ==
  /\ Dropping(r, "relay", {"downRelay", "dropRelay"})
  /\ relayDirs' = IF \A sock \in socks : sock[1] # pid[r]
                  THEN relayDirs \ {pid[r]} ELSE relayDirs
  /\ UNCHANGED <<self, loop, ended, staged, fuse, socks, cgrp, kept, kills>>

DropRelay(r) ==
  /\ Dropping(r, "relay", {"downRelay", "dropRelay"})
  /\ relayDirs' = IF Drops(r, "relay") THEN relayDirs \ {pid[r]} ELSE relayDirs
  /\ socks' = IF Drops(r, "relay") THEN {s \in socks : s[1] # pid[r]} ELSE socks
  /\ UNCHANGED <<self, loop, ended, staged, fuse, cgrp, kept, kills>>

\* Post-exit hooks run last, and nothing they do fails the run.
PostExit(r) ==
  /\ At(r, "post")
  /\ Goto(r, "done")
  /\ UNCHANGED <<self, loop, held, ended, host, kept, kills>>

-----------------------------------------------------------------------------
\* A signal does not unwind: no guard drops, and the target is not told.
Kill(r) ==
  /\ Live(r) /\ kills < MaxKills
  /\ kills' = kills + 1
  /\ Goto(r, "dead")
  /\ UNCHANGED <<self, loop, held, ended, host, kept>>

\* What a run does on its own, as long as the commands it runs come back.
Step(r) ==
  \/ PreLaunch(r)
  \/ SweepLook(r) \/ SweepRemove(r) \/ SweepEnd(r)
  \/ FuseWanted(r) \/ Mount(r) \/ MountsMade(r)
  \/ RelaysWanted(r) \/ ListenDir(r) \/ Bind(r) \/ RelaysMade(r)
  \/ Checks(r) \/ Stage(r) \/ MakeTmp(r)
  \/ NoCgroup(r) \/ MakeCgroup(r) \/ WriteLimits(r)
  \/ Spawn(r)
  \/ DropCgroup(r) \/ DropStaging(r) \/ Unmount(r) \/ DropFuse(r) \/ DropRelay(r)
  \/ PostExit(r)

Next ==
  \E r \in Runs :
    \/ Start(r) \/ Step(r) \/ TargetEnds(r) \/ LastProcessEnds(r) \/ Kill(r)

Spec == Init /\ [][Next]_vars

FairSpec == Spec /\ \A r \in Runs : WF_vars(Step(r))

-----------------------------------------------------------------------------
(***************************************************************************)
(* Properties.                                                             *)
(***************************************************************************)
Labels == {"off", "hooks", "fuse", "sweepFuse", "mount", "relay", "sweepRelay",
           "listen", "bind", "checks", "sweepStaging", "stage", "tmp", "cgroup",
           "limit", "spawn", "running", "downCgroup", "downStaging", "downFuse",
           "downRelay", "dropStaging", "dropCgroup", "dropRelay", "dropFuse",
           "post", "done", "dead"}
Guards == {"fuse", "relay", "cgroup", "staging"}
Indices == 0..(IF MaxFuse > MaxSockets THEN MaxFuse ELSE MaxSockets)

\* The types of the variables: a run counts no further than it has mounts and
\* sockets, and everything on the host is named by a pid (spawn, the guards).
TypeOK ==
  /\ pc \in [Runs -> Labels] /\ pid \in [Runs -> Pids] /\ plan \in [Runs -> Policies]
  /\ next \in [Runs -> Indices]
  /\ sweep \in [Runs -> SUBSET (Pids \union Runs)]
  /\ doomed \in [Runs -> SUBSET (Pids \union Runs)]
  /\ stale \in [Runs -> SUBSET (Pids \union Runs)] /\ raced \subseteq Runs
  /\ held \in [Runs -> SUBSET Guards]
  /\ outcome \in [Runs -> {"none", "ran", "refused"}]
  /\ target \in [Runs -> {"none", "alive", "gone"}]
  /\ staged \subseteq Runs
  /\ fuseDirs \subseteq Pids /\ points \subseteq Pids \X Indices
  /\ mounts \subseteq Pids \X Indices \X Runs
  /\ relayDirs \subseteq Pids /\ socks \subseteq Pids \X Indices \X Runs
  /\ cgroups \subseteq Pids /\ limited \subseteq Pids \X Runs
  /\ members \subseteq Pids \X Runs
  /\ kept \subseteq Runs \X Guards /\ kills \in 0..MaxKills

TearingDown(r) ==
  pc[r] \in {"downCgroup", "downStaging", "downFuse", "downRelay",
             "dropStaging", "dropCgroup", "dropRelay", "dropFuse"}

\* No run takes away the staging directory, a mount or the limits of one that
\* is using them, even when pids are used again (sweep_staging,
\* fuse::sweep_stale, try_create_cgroup).
HostStateLeftAlone ==
  [][\A r \in Runs : Live(r) /\ ~TearingDown(r) =>
       /\ r \in staged => r \in staged'
       /\ \A m \in mounts : m[3] = r => m \in mounts'
       /\ <<pid[r], r>> \in limited => <<pid[r], r>> \in limited']_vars

\* No run takes away the sockets another's target connects to, unless that one
\* was given its pid between a sweep's question whether the pid exists and the
\* removal that follows (relay::sweep_stale, RelayGuard::drop).
RelaysLeftAlone ==
  [][\A r \in Runs \ raced : Live(r) /\ ~TearingDown(r) =>
       \A sock \in socks : sock[3] = r => sock \in socks']_vars

\* A process in a run's cgroup is under that run's limits and no other's, and
\* shares them with no other run's processes (try_create_cgroup).
LimitsAreOwn ==
  \A entry \in members :
    /\ LimitsBy(entry[1]) = {entry[2]}
    /\ \A other \in members : other[1] = entry[1] => other = entry

\* A run whose target ended leaves nothing on the host, whoever ran beside it,
\* but what the kernel would not let go of (Confined::wait).
RunEndsClean ==
  \A r \in Runs : pc[r] \in {"post", "done"} /\ outcome[r] = "ran" =>
    /\ r \notin staged
    /\ \A m \in mounts : m[3] = r => <<r, "fuse">> \in kept
    /\ \A sock \in socks : sock[3] # r
    /\ <<pid[r], r>> \in limited => <<r, "cgroup">> \in kept

\* A staging or relay directory that was ownerless when another run's sweep
\* began, and whose pid was not given out since, is gone when that sweep ends
\* (sweep_staging, relay::sweep_stale).
StaleIsSwept ==
  \A r \in Runs :
    /\ At(r, "stage") => stale[r] \intersect staged = {}
    /\ At(r, "listen") => stale[r] \intersect relayDirs = {}

\* Setting up and tearing down always finish: a run that is not waiting for
\* its target gets there or ends (spawn, Confined::wait).
RunSettles ==
  \A r \in Runs :
    (Live(r) /\ target[r] # "alive") ~> (~Live(r) \/ target[r] = "alive")
=============================================================================
