-------------------------- MODULE RunLifecycleProofs --------------------------
(***************************************************************************)
(* What holds of any number of runs beside each other, with any policies   *)
(* and any pids: the types of their state, what a run may not take from    *)
(* another, whose limits a process is under, what the end of a run leaves  *)
(* and what a sweep removes.                                               *)
(***************************************************************************)
EXTENDS RunLifecycle, TLAPS

-----------------------------------------------------------------------------
(* The parts of the inductive invariant.                                   *)

Ended(r) == pc[r] \in {"done", "dead"}

\* Up to the first mount, and from the guard over the mounts to its drop.
BeforeMounts == {"off", "hooks", "fuse", "sweepFuse"}
BeforeRelays == BeforeMounts \union {"mount", "relay", "sweepRelay", "listen"}
BeforeStaging == BeforeRelays \union {"bind", "checks", "sweepStaging", "stage"}
BeforeLimits == BeforeStaging \union {"tmp", "cgroup", "limit"}
GuardedStaging == {"spawn", "running", "downCgroup", "downStaging"}
GuardedRelays == {"checks", "sweepStaging", "stage", "tmp", "cgroup", "limit",
                  "downFuse", "downRelay"} \union GuardedStaging
GuardedMounts == {"relay", "sweepRelay", "listen", "bind", "checks", "sweepStaging", "stage",
                  "tmp", "cgroup", "limit", "downFuse"} \union GuardedStaging
Waited == {"downCgroup", "downStaging", "downFuse", "downRelay", "post"}

\* The kernel gives a pid to one process at a time.
PidsOwn == \A r, s \in Runs : Live(r) /\ Live(s) /\ pid[r] = pid[s] => r = s

\* What a sweep found ownerless is removed before the run goes on.
DoomedInSweep ==
  \A r \in Runs : doomed[r] # {} => pc[r] \in {"sweepFuse", "sweepRelay", "sweepStaging", "dead"}

\* A sweep of staging directories holds those of runs that have started, and
\* dooms those of runs that are over.
StagingSwept ==
  /\ \A e \in staged : pc[e] # "off"
  /\ \A r \in Runs : At(r, "sweepStaging") =>
       /\ sweep[r] \subseteq Runs /\ doomed[r] \subseteq Runs
       /\ \A e \in sweep[r] : pc[e] # "off"
       /\ \A e \in doomed[r] : Ended(e)

\* Limits belong to the run whose pid names the cgroup, one run to a cgroup,
\* and every process is under limits of its own run.
LimitsInPlace ==
  /\ \A e \in limited : e[1] = pid[e[2]] /\ pc[e[2]] \notin BeforeLimits
  /\ \A e, f \in limited : e[1] = f[1] => e = f
  /\ members \subseteq limited
  /\ \A r \in Runs : At(r, "limit") => \A e \in limited : e[1] # pid[r]
  /\ \A r \in Runs : "cgroup" \in held[r] /\ ~Ended(r) => <<pid[r], r>> \in limited

-----------------------------------------------------------------------------
(* Types.                                                                  *)

\* The bounds are numbers, and a policy asks for no more than they allow.
LEMMA BoundsType ==
  /\ MaxFuse \in Nat /\ MaxSockets \in Nat /\ MaxKills \in Nat
  /\ \A i \in 0..MaxFuse : i \in Indices
  /\ \A i \in 0..MaxSockets : i \in Indices
  /\ \A i \in Indices : i \in Nat
  /\ 0 \in Indices
  /\ \A p \in Policies : /\ p.fuse \in 0..MaxFuse /\ p.sockets \in 0..MaxSockets
                         /\ p.isolate \in BOOLEAN
  BY BoundsAssumption, PoliciesAssumption DEF Indices, PolicyType

\* Every drop is followed by another, by the post-exit hooks or by the end.
LEMMA DropOrder ==
  ASSUME NEW label \in {"downCgroup", "downStaging", "downFuse", "downRelay",
                        "dropStaging", "dropCgroup", "dropRelay", "dropFuse"}
  PROVE  AfterDrop[label] \in {"downStaging", "downFuse", "downRelay", "post",
                               "dropCgroup", "dropRelay", "dropFuse", "done"}
  BY DEF AfterDrop

\* Runs start well typed.
LEMMA TypeInit == Init => TypeOK
<1>1. (CHOOSE p \in Pids : TRUE) \in Pids
  BY PidsAssumption
<1>2. (CHOOSE policy \in Policies : TRUE) \in Policies
  BY PoliciesAssumption
<1> QED BY <1>1, <1>2, BoundsType DEF Init, TypeOK, Labels

\* What an error return and a drop do to the run's own variables.
LEMMA FailType ==
  ASSUME TypeOK, NEW r \in Runs, Fail(r)
  PROVE  /\ pc' \in [Runs -> Labels] /\ next' \in [Runs -> Indices]
         /\ outcome' \in [Runs -> {"none", "ran", "refused"}]
  BY BoundsType DEF TypeOK, Fail, Goto, Labels

\* A drop goes on to a label, and takes a guard away.
LEMMA DroppingType ==
  ASSUME TypeOK, NEW r \in Runs, NEW guard \in Guards,
         NEW labels \in SUBSET {"downCgroup", "downStaging", "downFuse", "downRelay",
                                "dropStaging", "dropCgroup", "dropRelay", "dropFuse"},
         Dropping(r, guard, labels)
  PROVE  pc' \in [Runs -> Labels] /\ held' \in [Runs -> SUBSET Guards]
<1>1. pc[r] \in {"downCgroup", "downStaging", "downFuse", "downRelay",
                 "dropStaging", "dropCgroup", "dropRelay", "dropFuse"}
  BY DEF Dropping
<1>2. AfterDrop[pc[r]] \in Labels
  BY <1>1, DropOrder DEF Labels
<1> QED BY <1>2 DEF TypeOK, Dropping, Goto

\* Every step of every run keeps the types.
LEMMA TypeStep == TypeOK /\ [Next]_vars => TypeOK'
<1> SUFFICES ASSUME TypeOK, [Next]_vars PROVE TypeOK'
  OBVIOUS
<1> USE DEF TypeOK, Goto, At, self, swept, loop, ended, fuse, relay, cgrp, host
<1>1. ASSUME NEW r \in Runs, Start(r) PROVE TypeOK'
  <2>1. pc' \in [Runs -> Labels]
    BY <1>1 DEF Start, Labels
  <2>2. pid' \in [Runs -> Pids] /\ plan' \in [Runs -> Policies]
    BY <1>1 DEF Start
  <2> QED BY <1>1, <2>1, <2>2 DEF Start
<1>2. ASSUME NEW r \in Runs, PreLaunch(r) PROVE TypeOK'
  BY <1>2, BoundsType DEF PreLaunch, Labels
<1>3. ASSUME NEW r \in Runs, SweepLook(r) PROVE TypeOK'
  BY <1>3, BoundsType DEF SweepLook
<1>4. ASSUME NEW r \in Runs, SweepRemove(r) PROVE TypeOK'
  BY <1>4, BoundsType DEF SweepRemove
<1>5. ASSUME NEW r \in Runs, SweepEnd(r) PROVE TypeOK'
  <2>1. pc' \in [Runs -> Labels]
    BY <1>5 DEF SweepEnd, Labels
  <2> QED BY <1>5, <2>1 DEF SweepEnd
<1>6. ASSUME NEW r \in Runs, FuseWanted(r) PROVE TypeOK'
  <2>1. /\ pc' \in [Runs -> Labels] /\ next' \in [Runs -> Indices]
        /\ outcome' \in [Runs -> {"none", "ran", "refused"}]
    BY <1>6, FailType DEF FuseWanted, BeginSweep, Labels
  <2>2. sweep' \in [Runs -> SUBSET (Pids \union Runs)]
    BY <1>6 DEF FuseWanted, BeginSweep
  <2>3. stale' \in [Runs -> SUBSET (Pids \union Runs)]
    BY <1>6 DEF FuseWanted, BeginSweep
  <2> QED BY <1>6, <2>1, <2>2, <2>3 DEF FuseWanted
<1>7. ASSUME NEW r \in Runs, Mount(r) PROVE TypeOK'
  <2>1. CASE Fail(r)
    BY <1>7, <2>1, FailType, BoundsType DEF Mount, Of
  <2>2. CASE ~Fail(r)
    BY <1>7, <2>2, BoundsType DEF Mount, Of
  <2> QED BY <2>1, <2>2
<1>8. ASSUME NEW r \in Runs, MountsMade(r) PROVE TypeOK'
  BY <1>8, BoundsType DEF MountsMade, Hold, Labels, Guards
<1>9. ASSUME NEW r \in Runs, RelaysWanted(r) PROVE TypeOK'
  <2>1. /\ pc' \in [Runs -> Labels] /\ next' \in [Runs -> Indices]
        /\ outcome' \in [Runs -> {"none", "ran", "refused"}]
    BY <1>9, FailType DEF RelaysWanted, BeginSweep, Labels
  <2>2. sweep' \in [Runs -> SUBSET (Pids \union Runs)]
    BY <1>9 DEF RelaysWanted, BeginSweep
  <2>3. stale' \in [Runs -> SUBSET (Pids \union Runs)]
    BY <1>9 DEF RelaysWanted, BeginSweep
  <2> QED BY <1>9, <2>1, <2>2, <2>3 DEF RelaysWanted
<1>10. ASSUME NEW r \in Runs, ListenDir(r) PROVE TypeOK'
  <2>1. CASE Fail(r)
    BY <1>10, <2>1, FailType, BoundsType DEF ListenDir
  <2>2. CASE ~Fail(r)
    BY <1>10, <2>2, BoundsType DEF ListenDir, Labels
  <2> QED BY <2>1, <2>2
<1>11. ASSUME NEW r \in Runs, Bind(r) PROVE TypeOK'
  <2>1. CASE Fail(r)
    BY <1>11, <2>1, FailType, BoundsType DEF Bind, Of
  <2>2. CASE ~Fail(r)
    BY <1>11, <2>2, BoundsType DEF Bind, Of
  <2> QED BY <2>1, <2>2
<1>12. ASSUME NEW r \in Runs, RelaysMade(r) PROVE TypeOK'
  BY <1>12, BoundsType DEF RelaysMade, Hold, Labels, Guards
<1>13. ASSUME NEW r \in Runs, Checks(r) PROVE TypeOK'
  <2>1. /\ pc' \in [Runs -> Labels] /\ next' \in [Runs -> Indices]
        /\ outcome' \in [Runs -> {"none", "ran", "refused"}]
    BY <1>13, FailType DEF Checks, BeginSweep, Labels
  <2>2. sweep' \in [Runs -> SUBSET (Pids \union Runs)]
    BY <1>13 DEF Checks, BeginSweep
  <2>3. stale' \in [Runs -> SUBSET (Pids \union Runs)]
    BY <1>13 DEF Checks, BeginSweep
  <2> QED BY <1>13, <2>1, <2>2, <2>3 DEF Checks
<1>14. ASSUME NEW r \in Runs, Stage(r) PROVE TypeOK'
  <2>1. CASE Fail(r)
    BY <1>14, <2>1, FailType, BoundsType DEF Stage, Labels
  <2>2. CASE ~Fail(r)
    BY <1>14, <2>2, BoundsType DEF Stage, Labels
  <2> QED BY <2>1, <2>2
<1>15. ASSUME NEW r \in Runs, MakeTmp(r) PROVE TypeOK'
  <2>1. CASE Fail(r)
    BY <1>15, <2>1, FailType, BoundsType DEF MakeTmp, Labels
  <2>2. CASE ~Fail(r)
    BY <1>15, <2>2, BoundsType DEF MakeTmp, Labels
  <2> QED BY <2>1, <2>2
<1>16. ASSUME NEW r \in Runs, NoCgroup(r) PROVE TypeOK'
  BY <1>16, BoundsType DEF NoCgroup, ReadyToSpawn, Hold, Labels, Guards
<1>17. ASSUME NEW r \in Runs, MakeCgroup(r) PROVE TypeOK'
  BY <1>17, BoundsType DEF MakeCgroup, Labels
<1>18. ASSUME NEW r \in Runs, WriteLimits(r) PROVE TypeOK'
  <2>1. limited' \subseteq Pids \X Runs
    BY <1>18 DEF WriteLimits
  <2>2. pc' \in [Runs -> Labels] /\ held' \in [Runs -> SUBSET Guards]
    BY <1>18 DEF WriteLimits, ReadyToSpawn, Hold, Labels, Guards
  <2> QED BY <1>18, <2>1, <2>2, BoundsType DEF WriteLimits
<1>19. ASSUME NEW r \in Runs, Spawn(r) PROVE TypeOK'
  <2>1. /\ pc' \in [Runs -> Labels] /\ next' \in [Runs -> Indices]
        /\ outcome' \in [Runs -> {"none", "ran", "refused"}]
    BY <1>19, FailType DEF Spawn, Labels
  <2>2. target' \in [Runs -> {"none", "alive", "gone"}]
    BY <1>19 DEF Spawn
  <2>3. members' \subseteq Pids \X Runs
    BY <1>19 DEF Spawn
  <2> QED BY <1>19, <2>1, <2>2, <2>3 DEF Spawn
<1>20. ASSUME NEW r \in Runs, TargetEnds(r) PROVE TypeOK'
  <2>1. pc' \in [Runs -> Labels] /\ outcome' \in [Runs -> {"none", "ran", "refused"}]
    BY <1>20 DEF TargetEnds, Labels
  <2> QED BY <1>20, <2>1 DEF TargetEnds
<1>21. ASSUME NEW r \in Runs, LastProcessEnds(r) PROVE TypeOK'
  BY <1>21, BoundsType DEF LastProcessEnds
<1>22. ASSUME NEW r \in Runs, DropCgroup(r) PROVE TypeOK'
  <2>1. pc' \in [Runs -> Labels] /\ held' \in [Runs -> SUBSET Guards]
    BY <1>22, DroppingType DEF DropCgroup, Guards
  <2> QED BY <1>22, <2>1 DEF DropCgroup, Drops, Guards
<1>23. ASSUME NEW r \in Runs, DropStaging(r) PROVE TypeOK'
  <2>1. pc' \in [Runs -> Labels] /\ held' \in [Runs -> SUBSET Guards]
    BY <1>23, DroppingType DEF DropStaging, Guards
  <2> QED BY <1>23, <2>1 DEF DropStaging, Drops
<1>24. ASSUME NEW r \in Runs, Unmount(r) PROVE TypeOK'
  BY <1>24, BoundsType DEF Unmount, Of, Drops, Guards
<1>25. ASSUME NEW r \in Runs, DropFuse(r) PROVE TypeOK'
  <2>1. pc' \in [Runs -> Labels] /\ held' \in [Runs -> SUBSET Guards]
    BY <1>25, DroppingType DEF DropFuse, Guards
  <2> QED BY <1>25, <2>1 DEF DropFuse, Drops
<1>26. ASSUME NEW r \in Runs, DropRelay(r) PROVE TypeOK'
  <2>1. pc' \in [Runs -> Labels] /\ held' \in [Runs -> SUBSET Guards]
    BY <1>26, DroppingType DEF DropRelay, Guards
  <2> QED BY <1>26, <2>1 DEF DropRelay, Drops
<1>27. ASSUME NEW r \in Runs, PostExit(r) PROVE TypeOK'
  BY <1>27, BoundsType DEF PostExit, Labels
<1>28. ASSUME NEW r \in Runs, Kill(r) PROVE TypeOK'
  BY <1>28, BoundsType DEF Kill, Live, Labels
<1>29. CASE UNCHANGED vars
  BY <1>29 DEF vars
<1> QED
  BY <1>1, <1>2, <1>3, <1>4, <1>5, <1>6, <1>7, <1>8, <1>9, <1>10, <1>11, <1>12, <1>13, <1>14,
     <1>15, <1>16, <1>17, <1>18, <1>19, <1>20, <1>21, <1>22, <1>23, <1>24, <1>25, <1>26, <1>27,
     <1>28, <1>29
     DEF Next, Step

\* The types of the variables hold in every state (spawn, Confined::wait,
\* cmd_run).
THEOREM TypeCorrect == Spec => []TypeOK
  BY TypeInit, TypeStep, PTL DEF Spec

-----------------------------------------------------------------------------
(* What a step may do to a run.                                            *)

Act(r) == Start(r) \/ Step(r) \/ TargetEnds(r) \/ LastProcessEnds(r) \/ Kill(r)

\* A step is one run's; it keeps its pid and policy once it has them, and a
\* run that is over stays so.
LEMMA OneMoves ==
  ASSUME TypeOK, NEW r \in Runs, Act(r)
  PROVE  /\ \A s \in Runs \ {r} :
              /\ pc'[s] = pc[s] /\ pid'[s] = pid[s] /\ plan'[s] = plan[s]
              /\ next'[s] = next[s] /\ sweep'[s] = sweep[s] /\ doomed'[s] = doomed[s]
              /\ held'[s] = held[s] /\ outcome'[s] = outcome[s]
              /\ ~Start(r) => stale'[s] = stale[s]
         /\ ~Start(r) => pid'[r] = pid[r] /\ plan'[r] = plan[r]
         /\ pc[r] # "off" => pc'[r] # "off"
         /\ pc[r] = "off" /\ ~Start(r) => pc'[r] = "off"
         /\ Ended(r) => pc'[r] = pc[r]
<1> USE DEF TypeOK, Goto, At, self, swept, loop, ended, fuse, relay, cgrp, host, Ended
<1>1. CASE Start(r)
  BY <1>1 DEF Start
<1>2. CASE PreLaunch(r)
  BY <1>2 DEF PreLaunch
<1>3. CASE SweepLook(r)
  BY <1>3 DEF SweepLook
<1>4. CASE SweepRemove(r)
  BY <1>4 DEF SweepRemove
<1>5. CASE SweepEnd(r)
  BY <1>5 DEF SweepEnd
<1>6. CASE FuseWanted(r)
  BY <1>6 DEF FuseWanted, BeginSweep, Fail
<1>7. CASE Mount(r)
  BY <1>7 DEF Mount, Of, Fail
<1>8. CASE MountsMade(r)
  BY <1>8 DEF MountsMade, Hold
<1>9. CASE RelaysWanted(r)
  BY <1>9 DEF RelaysWanted, BeginSweep, Fail
<1>10. CASE ListenDir(r)
  BY <1>10 DEF ListenDir, Fail
<1>11. CASE Bind(r)
  BY <1>11 DEF Bind, Of, Fail
<1>12. CASE RelaysMade(r)
  BY <1>12 DEF RelaysMade, Hold
<1>13. CASE Checks(r)
  BY <1>13 DEF Checks, BeginSweep, Fail
<1>14. CASE Stage(r)
  BY <1>14 DEF Stage, Fail
<1>15. CASE MakeTmp(r)
  BY <1>15 DEF MakeTmp, Fail
<1>16. CASE NoCgroup(r)
  BY <1>16 DEF NoCgroup, ReadyToSpawn, Hold
<1>17. CASE MakeCgroup(r)
  BY <1>17 DEF MakeCgroup
<1>18. CASE WriteLimits(r)
  BY <1>18 DEF WriteLimits, ReadyToSpawn, Hold
<1>19. CASE Spawn(r)
  BY <1>19 DEF Spawn, Fail
<1>20. CASE TargetEnds(r)
  BY <1>20 DEF TargetEnds
<1>21. CASE LastProcessEnds(r)
  BY <1>21 DEF LastProcessEnds
<1>22. CASE DropCgroup(r)
  BY <1>22 DEF DropCgroup, Drops, Dropping, AfterDrop
<1>23. CASE DropStaging(r)
  BY <1>23 DEF DropStaging, Drops, Dropping, AfterDrop
<1>24. CASE Unmount(r)
  BY <1>24 DEF Unmount, Of, Drops
<1>25. CASE DropFuse(r)
  BY <1>25 DEF DropFuse, Drops, Dropping, AfterDrop
<1>26. CASE DropRelay(r)
  BY <1>26 DEF DropRelay, Drops, Dropping, AfterDrop
<1>27. CASE PostExit(r)
  BY <1>27 DEF PostExit
<1>28. CASE Kill(r)
  BY <1>28 DEF Kill, Live
<1> QED
  BY <1>1, <1>2, <1>3, <1>4, <1>5, <1>6, <1>7, <1>8, <1>9, <1>10, <1>11, <1>12, <1>13, <1>14,
     <1>15, <1>16, <1>17, <1>18, <1>19, <1>20, <1>21, <1>22, <1>23, <1>24, <1>25, <1>26, <1>27,
     <1>28
     DEF Act, Step

-----------------------------------------------------------------------------
(* Pids.                                                                   *)

\* A run starts under a pid no live run has.
LEMMA PidsOwnStep ==
  ASSUME TypeOK, PidsOwn, NEW r \in Runs, Act(r)
  PROVE  PidsOwn'
<1>1. CASE Start(r)
  <2>1. pid' \in [Runs -> Pids] /\ \A s \in Runs : Live(s) => pid[s] # pid'[r]
    BY <1>1 DEF Start, Alive, TypeOK
  <2> QED BY <1>1, <2>1, OneMoves DEF PidsOwn, Live
<1>2. CASE ~Start(r)
  <2>1. \A s \in Runs : pid'[s] = pid[s] /\ (Live(s)' => Live(s))
    BY <1>2, OneMoves DEF Live, Ended
  <2> QED BY <2>1 DEF PidsOwn
<1> QED BY <1>1, <1>2

-----------------------------------------------------------------------------
(* What a run may take from another.                                       *)

\* A sweep goes on only when it has removed what it found.
LEMMA DoomedStep ==
  ASSUME TypeOK, TypeOK', DoomedInSweep, NEW r \in Runs, Act(r)
  PROVE  DoomedInSweep'
<1> USE DEF TypeOK, Goto, At, self, swept, loop, ended, fuse, relay, cgrp, host
<1>1. CASE Start(r)
  BY <1>1 DEF Start, DoomedInSweep
<1>2. CASE PreLaunch(r)
  BY <1>2 DEF PreLaunch, DoomedInSweep
<1>3. CASE SweepLook(r)
  BY <1>3 DEF SweepLook, DoomedInSweep
<1>4. CASE SweepRemove(r)
  BY <1>4 DEF SweepRemove, DoomedInSweep
<1>5. CASE SweepEnd(r)
  BY <1>5 DEF SweepEnd, DoomedInSweep
<1>6. CASE FuseWanted(r)
  BY <1>6 DEF FuseWanted, BeginSweep, Fail, DoomedInSweep
<1>7. CASE Mount(r)
  BY <1>7 DEF Mount, Of, Fail, DoomedInSweep
<1>8. CASE MountsMade(r)
  BY <1>8 DEF MountsMade, Hold, DoomedInSweep
<1>9. CASE RelaysWanted(r)
  BY <1>9 DEF RelaysWanted, BeginSweep, Fail, DoomedInSweep
<1>10. CASE ListenDir(r)
  BY <1>10 DEF ListenDir, Fail, DoomedInSweep
<1>11. CASE Bind(r)
  BY <1>11 DEF Bind, Of, Fail, DoomedInSweep
<1>12. CASE RelaysMade(r)
  BY <1>12 DEF RelaysMade, Hold, DoomedInSweep
<1>13. CASE Checks(r)
  BY <1>13 DEF Checks, BeginSweep, Fail, DoomedInSweep
<1>14. CASE Stage(r)
  BY <1>14 DEF Stage, Fail, DoomedInSweep
<1>15. CASE MakeTmp(r)
  BY <1>15 DEF MakeTmp, Fail, DoomedInSweep
<1>16. CASE NoCgroup(r)
  BY <1>16 DEF NoCgroup, ReadyToSpawn, Hold, DoomedInSweep
<1>17. CASE MakeCgroup(r)
  BY <1>17 DEF MakeCgroup, DoomedInSweep
<1>18. CASE WriteLimits(r)
  BY <1>18 DEF WriteLimits, ReadyToSpawn, Hold, DoomedInSweep
<1>19. CASE Spawn(r)
  BY <1>19 DEF Spawn, Fail, DoomedInSweep
<1>20. CASE TargetEnds(r)
  BY <1>20 DEF TargetEnds, DoomedInSweep
<1>21. CASE LastProcessEnds(r)
  BY <1>21 DEF LastProcessEnds, DoomedInSweep
<1>22. CASE DropCgroup(r)
  BY <1>22 DEF DropCgroup, Drops, Dropping, AfterDrop, DoomedInSweep
<1>23. CASE DropStaging(r)
  BY <1>23 DEF DropStaging, Drops, Dropping, AfterDrop, DoomedInSweep
<1>24. CASE Unmount(r)
  BY <1>24 DEF Unmount, Of, Drops, DoomedInSweep
<1>25. CASE DropFuse(r)
  BY <1>25 DEF DropFuse, Drops, Dropping, AfterDrop, DoomedInSweep
<1>26. CASE DropRelay(r)
  BY <1>26 DEF DropRelay, Drops, Dropping, AfterDrop, DoomedInSweep
<1>27. CASE PostExit(r)
  BY <1>27 DEF PostExit, DoomedInSweep
<1>28. CASE Kill(r)
  BY <1>28 DEF Kill, Live, DoomedInSweep
<1> QED
  BY <1>1, <1>2, <1>3, <1>4, <1>5, <1>6, <1>7, <1>8, <1>9, <1>10, <1>11,
     <1>12, <1>13, <1>14, <1>15, <1>16, <1>17, <1>18, <1>19, <1>20,
     <1>21, <1>22, <1>23, <1>24, <1>25, <1>26, <1>27, <1>28
     DEF Act, Step

\* The question a sweep asked stays answered: a run that is over does not
\* start again, under whatever pid another run does.
LEMMA StagingStep ==
  ASSUME TypeOK, TypeOK', PidsOwn, DoomedInSweep, StagingSwept, NEW r \in Runs, Act(r)
  PROVE  StagingSwept'
<1> USE DEF TypeOK, Goto, At, self, swept, loop, ended, fuse, relay, cgrp, host
<1>1. CASE Start(r)
  BY <1>1, OneMoves DEF Start, StagingSwept, DoomedInSweep, Ended
<1>2. CASE PreLaunch(r)
  BY <1>2, OneMoves DEF PreLaunch, StagingSwept, DoomedInSweep, Ended
<1>3. CASE SweepLook(r)
  <2>1. CASE At(r, "sweepStaging")
    <3>1. PICK entry \in sweep[r] :
            /\ sweep' = [sweep EXCEPT ![r] = @ \ {entry}]
            /\ doomed' = [doomed EXCEPT ![r] = IF Alive(Owner(r, entry)) THEN {} ELSE {entry}]
      BY <1>3 DEF SweepLook
    <3>2. entry \in Runs /\ pc[entry] # "off"
      BY <2>1 DEF StagingSwept
    <3>3. ~Alive(Owner(r, entry)) => Ended(entry)
      BY <2>1, <3>2 DEF Owner, Alive, Live, Ended
    <3>4. pc' = pc /\ staged' = staged
      BY <1>3 DEF SweepLook
    <3> QED BY <2>1, <3>1, <3>2, <3>3, <3>4, OneMoves DEF StagingSwept, Ended
  <2>2. CASE ~At(r, "sweepStaging")
    BY <1>3, <2>2, OneMoves DEF SweepLook, StagingSwept, Ended
  <2> QED BY <2>1, <2>2
<1>4. CASE SweepRemove(r)
  BY <1>4, OneMoves DEF SweepRemove, StagingSwept, DoomedInSweep, Ended
<1>5. CASE SweepEnd(r)
  BY <1>5, OneMoves DEF SweepEnd, StagingSwept, DoomedInSweep, Ended
<1>6. CASE FuseWanted(r)
  <2>1. staged' = staged /\ doomed' = doomed /\ pc'[r] # "sweepStaging"
    BY <1>6 DEF FuseWanted, BeginSweep, Fail
  <2>2. \A s \in Runs : (pc[s] # "off" => pc'[s] # "off") /\ (Ended(s) => Ended(s)')
    BY OneMoves DEF Ended
  <2>3. \A s \in Runs : At(s, "sweepStaging")' => At(s, "sweepStaging") /\ sweep'[s] = sweep[s]
    BY <2>1, OneMoves
  <2> QED BY <2>1, <2>2, <2>3 DEF StagingSwept
<1>7. CASE Mount(r)
  BY <1>7, OneMoves DEF Mount, Of, Fail, StagingSwept, DoomedInSweep, Ended
<1>8. CASE MountsMade(r)
  BY <1>8, OneMoves DEF MountsMade, Hold, StagingSwept, DoomedInSweep, Ended
<1>9. CASE RelaysWanted(r)
  <2>1. staged' = staged /\ doomed' = doomed /\ pc'[r] # "sweepStaging"
    BY <1>9 DEF RelaysWanted, BeginSweep, Fail
  <2>2. \A s \in Runs : (pc[s] # "off" => pc'[s] # "off") /\ (Ended(s) => Ended(s)')
    BY OneMoves DEF Ended
  <2>3. \A s \in Runs : At(s, "sweepStaging")' => At(s, "sweepStaging") /\ sweep'[s] = sweep[s]
    BY <2>1, OneMoves
  <2> QED BY <2>1, <2>2, <2>3 DEF StagingSwept
<1>10. CASE ListenDir(r)
  BY <1>10, OneMoves DEF ListenDir, Fail, StagingSwept, DoomedInSweep, Ended
<1>11. CASE Bind(r)
  BY <1>11, OneMoves DEF Bind, Of, Fail, StagingSwept, DoomedInSweep, Ended
<1>12. CASE RelaysMade(r)
  BY <1>12, OneMoves DEF RelaysMade, Hold, StagingSwept, DoomedInSweep, Ended
<1>13. CASE Checks(r)
  <2>1. /\ staged' = staged /\ doomed' = doomed /\ pc[r] = "checks"
        /\ pc'[r] = "sweepStaging" => sweep'[r] = staged
    BY <1>13 DEF Checks, BeginSweep, Fail
  <2>2. \A s \in Runs : (pc[s] # "off" => pc'[s] # "off") /\ (Ended(s) => Ended(s)')
    BY OneMoves DEF Ended
  <2>3. \A s \in Runs \ {r} :
          At(s, "sweepStaging")' => At(s, "sweepStaging") /\ sweep'[s] = sweep[s]
    BY OneMoves
  <2>4. doomed[r] = {} /\ staged \subseteq Runs
    BY <2>1 DEF DoomedInSweep
  <2> QED BY <2>1, <2>2, <2>3, <2>4 DEF StagingSwept
<1>14. CASE Stage(r)
  BY <1>14, OneMoves DEF Stage, Fail, StagingSwept, DoomedInSweep, Ended
<1>15. CASE MakeTmp(r)
  BY <1>15, OneMoves DEF MakeTmp, Fail, StagingSwept, DoomedInSweep, Ended
<1>16. CASE NoCgroup(r)
  BY <1>16, OneMoves DEF NoCgroup, ReadyToSpawn, Hold, StagingSwept, DoomedInSweep, Ended
<1>17. CASE MakeCgroup(r)
  BY <1>17, OneMoves DEF MakeCgroup, StagingSwept, DoomedInSweep, Ended
<1>18. CASE WriteLimits(r)
  BY <1>18, OneMoves DEF WriteLimits, ReadyToSpawn, Hold, StagingSwept, DoomedInSweep, Ended
<1>19. CASE Spawn(r)
  BY <1>19, OneMoves DEF Spawn, Fail, StagingSwept, DoomedInSweep, Ended
<1>20. CASE TargetEnds(r)
  BY <1>20, OneMoves DEF TargetEnds, StagingSwept, DoomedInSweep, Ended
<1>21. CASE LastProcessEnds(r)
  BY <1>21, OneMoves DEF LastProcessEnds, StagingSwept, DoomedInSweep, Ended
<1>22. CASE DropCgroup(r)
  BY <1>22, OneMoves
     DEF DropCgroup, Drops, Dropping, AfterDrop, StagingSwept, DoomedInSweep, Ended
<1>23. CASE DropStaging(r)
  BY <1>23, OneMoves
     DEF DropStaging, Drops, Dropping, AfterDrop, StagingSwept, DoomedInSweep, Ended
<1>24. CASE Unmount(r)
  BY <1>24, OneMoves DEF Unmount, Of, Drops, StagingSwept, DoomedInSweep, Ended
<1>25. CASE DropFuse(r)
  BY <1>25, OneMoves
     DEF DropFuse, Drops, Dropping, AfterDrop, StagingSwept, DoomedInSweep, Ended
<1>26. CASE DropRelay(r)
  BY <1>26, OneMoves
     DEF DropRelay, Drops, Dropping, AfterDrop, StagingSwept, DoomedInSweep, Ended
<1>27. CASE PostExit(r)
  BY <1>27, OneMoves DEF PostExit, StagingSwept, DoomedInSweep, Ended
<1>28. CASE Kill(r)
  BY <1>28, OneMoves DEF Kill, Live, StagingSwept, DoomedInSweep, Ended
<1> QED
  BY <1>1, <1>2, <1>3, <1>4, <1>5, <1>6, <1>7, <1>8, <1>9, <1>10, <1>11,
     <1>12, <1>13, <1>14, <1>15, <1>16, <1>17, <1>18, <1>19, <1>20,
     <1>21, <1>22, <1>23, <1>24, <1>25, <1>26, <1>27, <1>28
     DEF Act, Step

\* A cgroup is found empty when no run's process is in it.
LEMMA EmptyCgroup ==
  ASSUME TypeOK, NEW p, ~Populated(p)
  PROVE  \A m \in members : m[1] # p
<1> SUFFICES ASSUME NEW m \in members, m[1] = p PROVE FALSE
  OBVIOUS
<1>1. m = <<m[1], m[2]>> /\ m[2] \in Runs
  BY DEF TypeOK
<1> QED BY <1>1 DEF Populated

\* A cgroup is made anew only when nothing runs in it, so that the limits in
\* it are those of one run.
LEMMA LimitsStep ==
  ASSUME TypeOK, TypeOK', PidsOwn, LimitsInPlace, NEW r \in Runs, Act(r)
  PROVE  LimitsInPlace'
<1> USE DEF TypeOK, Goto, At, self, swept, loop, ended, fuse, relay, cgrp, host
<1>0. ASSUME limited' = limited, members' = members, held' = held, pid' = pid,
             pc[r] \in BeforeLimits, ~Ended(r), pc'[r] # "limit"
      PROVE  LimitsInPlace'
  <2>1. \A s \in Runs \ {r} : pc'[s] = pc[s]
    BY OneMoves
  <2> QED BY <1>0, <2>1 DEF LimitsInPlace, Ended
<1>1. CASE Start(r)
  <2>1. \A e \in limited : e \in Pids \X Runs /\ e[1] = pid[e[2]] /\ pc[e[2]] \notin BeforeLimits
    BY DEF LimitsInPlace
  <2>2. limited' = limited /\ members' = members /\ held' = held /\ pc[r] = "off" /\ pc'[r] = "hooks"
    BY <1>1 DEF Start
  <2>3. \A e \in limited : e[2] # r
    BY <2>1, <2>2 DEF BeforeLimits, BeforeStaging, BeforeRelays, BeforeMounts
  <2>4. ASSUME "cgroup" \in held[r] PROVE FALSE
    <3>1. <<pid[r], r>> \in limited
      BY <2>2, <2>4 DEF LimitsInPlace, Ended
    <3> QED BY <2>3, <3>1
  <2>5. \A s \in Runs \ {r} : pc'[s] = pc[s] /\ pid'[s] = pid[s]
    BY OneMoves
  <2>6. \A e \in limited : e[1] = pid'[e[2]] /\ pc'[e[2]] \notin BeforeLimits
    BY <2>1, <2>3, <2>5
  <2>7. \A s \in Runs : At(s, "limit")' => \A e \in limited : e[1] # pid'[s]
    BY <2>2, <2>5 DEF LimitsInPlace
  <2>8. \A s \in Runs : "cgroup" \in held[s] /\ ~Ended(s)' => <<pid'[s], s>> \in limited
    BY <2>2, <2>4, <2>5 DEF LimitsInPlace, Ended
  <2> QED BY <2>2, <2>6, <2>7, <2>8 DEF LimitsInPlace
<1>2. CASE PreLaunch(r)
  <2>1. limited' = limited /\ members' = members /\ held' = held /\ pid' = pid
    BY <1>2 DEF PreLaunch
  <2>2. pc[r] \in BeforeLimits /\ ~Ended(r) /\ pc'[r] # "limit"
    BY <1>2 DEF PreLaunch, Ended, BeforeLimits, BeforeStaging, BeforeRelays, BeforeMounts
  <2> QED BY <1>0, <2>1, <2>2
<1>3. CASE SweepLook(r)
  BY <1>3, OneMoves
     DEF SweepLook, LimitsInPlace, Ended, BeforeLimits, BeforeStaging, BeforeRelays,
         BeforeMounts
<1>4. CASE SweepRemove(r)
  BY <1>4, OneMoves
     DEF SweepRemove, LimitsInPlace, Ended, BeforeLimits, BeforeStaging, BeforeRelays,
         BeforeMounts
<1>5. CASE SweepEnd(r)
  <2>1. limited' = limited /\ members' = members /\ held' = held /\ pid' = pid
    BY <1>5 DEF SweepEnd
  <2>2. pc[r] \in BeforeLimits /\ ~Ended(r) /\ pc'[r] # "limit"
    BY <1>5 DEF SweepEnd, Ended, BeforeLimits, BeforeStaging, BeforeRelays, BeforeMounts
  <2>3. \A s \in Runs \ {r} : pc'[s] = pc[s]
    BY OneMoves
  <2> QED BY <2>1, <2>2, <2>3 DEF LimitsInPlace, Ended
<1>6. CASE FuseWanted(r)
  <2>1. limited' = limited /\ members' = members /\ held' = held /\ pid' = pid
    BY <1>6 DEF FuseWanted
  <2>2. pc[r] \in BeforeLimits /\ ~Ended(r) /\ pc'[r] # "limit"
    BY <1>6 DEF FuseWanted, BeginSweep, Fail, Ended, BeforeLimits, BeforeStaging, BeforeRelays, BeforeMounts
  <2> QED BY <1>0, <2>1, <2>2
<1>7. CASE Mount(r)
  BY <1>7, OneMoves
     DEF Mount, Of, Fail, LimitsInPlace, Ended, BeforeLimits, BeforeStaging, BeforeRelays,
         BeforeMounts
<1>8. CASE MountsMade(r)
  BY <1>8, OneMoves
     DEF MountsMade, Hold, LimitsInPlace, Ended, BeforeLimits, BeforeStaging, BeforeRelays,
         BeforeMounts
<1>9. CASE RelaysWanted(r)
  <2>1. limited' = limited /\ members' = members /\ held' = held /\ pid' = pid
    BY <1>9 DEF RelaysWanted
  <2>2. pc[r] \in BeforeLimits /\ ~Ended(r) /\ pc'[r] # "limit"
    BY <1>9 DEF RelaysWanted, BeginSweep, Fail, Ended, BeforeLimits, BeforeStaging, BeforeRelays, BeforeMounts
  <2> QED BY <1>0, <2>1, <2>2
<1>10. CASE ListenDir(r)
  <2>1. limited' = limited /\ members' = members /\ held' = held /\ pid' = pid
    BY <1>10 DEF ListenDir
  <2>2. pc[r] \in BeforeLimits /\ ~Ended(r) /\ pc'[r] # "limit"
    BY <1>10 DEF ListenDir, Fail, Ended, BeforeLimits, BeforeStaging, BeforeRelays, BeforeMounts
  <2> QED BY <1>0, <2>1, <2>2
<1>11. CASE Bind(r)
  <2>1. \A e \in limited' : e[1] = pid'[e[2]] /\ pc'[e[2]] \notin BeforeLimits
    BY <1>11, OneMoves
       DEF Bind, Of, Fail, LimitsInPlace, BeforeLimits, BeforeStaging, BeforeRelays,
           BeforeMounts
  <2>2. \A e, f \in limited' : e[1] = f[1] => e = f
    BY <1>11
       DEF Bind, Of, Fail, LimitsInPlace, BeforeLimits, BeforeStaging, BeforeRelays,
           BeforeMounts
  <2>3. members' \subseteq limited'
    BY <1>11
       DEF Bind, Of, Fail, LimitsInPlace, BeforeLimits, BeforeStaging, BeforeRelays,
           BeforeMounts
  <2>4. \A s \in Runs : At(s, "limit")' => \A e \in limited' : e[1] # pid'[s]
    BY <1>11, OneMoves
       DEF Bind, Of, Fail, LimitsInPlace, BeforeLimits, BeforeStaging, BeforeRelays,
           BeforeMounts
  <2>5. \A s \in Runs : "cgroup" \in held'[s] /\ ~Ended(s)' => <<pid'[s], s>> \in limited'
    BY <1>11, OneMoves
       DEF Bind, Of, Fail, LimitsInPlace, Ended, BeforeLimits, BeforeStaging, BeforeRelays,
           BeforeMounts
  <2> QED BY <2>1, <2>2, <2>3, <2>4, <2>5 DEF LimitsInPlace
<1>12. CASE RelaysMade(r)
  BY <1>12, OneMoves
     DEF RelaysMade, Hold, LimitsInPlace, Ended, BeforeLimits, BeforeStaging, BeforeRelays,
         BeforeMounts
<1>13. CASE Checks(r)
  BY <1>13, OneMoves
     DEF Checks, BeginSweep, Fail, LimitsInPlace, Ended, BeforeLimits, BeforeStaging,
         BeforeRelays, BeforeMounts
<1>14. CASE Stage(r)
  BY <1>14, OneMoves
     DEF Stage, Fail, LimitsInPlace, Ended, BeforeLimits, BeforeStaging, BeforeRelays,
         BeforeMounts
<1>15. CASE MakeTmp(r)
  <2>1. limited' = limited /\ members' = members /\ held' = held /\ pid' = pid
    BY <1>15 DEF MakeTmp
  <2>2. pc[r] \in BeforeLimits /\ ~Ended(r) /\ pc'[r] # "limit"
    BY <1>15 DEF MakeTmp, Fail, Ended, BeforeLimits, BeforeStaging, BeforeRelays, BeforeMounts
  <2> QED BY <1>0, <2>1, <2>2
<1>16. CASE NoCgroup(r)
  BY <1>16, OneMoves
     DEF NoCgroup, ReadyToSpawn, Hold, LimitsInPlace, Ended, BeforeLimits, BeforeStaging,
         BeforeRelays, BeforeMounts
<1>17. CASE MakeCgroup(r)
  <2>1. \A e \in limited : e \in Pids \X Runs /\ e[1] = pid[e[2]] /\ pc[e[2]] \notin BeforeLimits
    BY DEF LimitsInPlace
  <2>2. /\ limited' = {entry \in limited : entry[1] # pid[r]} /\ members' = members
        /\ held' = held /\ pid' = pid /\ pc[r] = "cgroup" /\ pc'[r] = "limit"
        /\ \A m \in members : m[1] # pid[r]
    BY <1>17, EmptyCgroup DEF MakeCgroup
  <2>3. \A e \in limited : e[2] # r
    BY <2>1, <2>2 DEF BeforeLimits, BeforeStaging, BeforeRelays, BeforeMounts
  <2>4. \A s \in Runs \ {r} : pc'[s] = pc[s]
    BY OneMoves
  <2>5. \A e \in limited' : e[1] = pid[e[2]] /\ pc'[e[2]] \notin BeforeLimits
    BY <2>1, <2>2, <2>3, <2>4
  <2>6. members \subseteq limited'
    BY <2>2 DEF LimitsInPlace
  <2>7. \A s \in Runs : At(s, "limit")' => \A e \in limited' : e[1] # pid[s]
    BY <2>2, <2>4 DEF LimitsInPlace
  <2>8. ASSUME NEW s \in Runs, "cgroup" \in held[s], ~Ended(s)' PROVE <<pid[s], s>> \in limited'
    <3>1. <<pid[s], s>> \in limited /\ s # r
      BY <2>2, <2>3, <2>4, <2>8 DEF LimitsInPlace, Ended
    <3>2. pid[s] # pid[r]
      BY <2>1, <2>2, <2>4, <2>8, <3>1
         DEF PidsOwn, Live, Ended, BeforeLimits, BeforeStaging, BeforeRelays, BeforeMounts
    <3> QED BY <2>2, <3>1, <3>2
  <2> QED BY <2>2, <2>5, <2>6, <2>7, <2>8 DEF LimitsInPlace
<1>18. CASE WriteLimits(r)
  <2>1. \A e \in limited' : e[1] = pid'[e[2]] /\ pc'[e[2]] \notin BeforeLimits
    BY <1>18, OneMoves
       DEF WriteLimits, ReadyToSpawn, Hold, PidsOwn, Live, LimitsInPlace, BeforeLimits,
           BeforeStaging, BeforeRelays, BeforeMounts
  <2>2. \A e, f \in limited' : e[1] = f[1] => e = f
    BY <1>18
       DEF WriteLimits, ReadyToSpawn, Hold, PidsOwn, Live, LimitsInPlace, BeforeLimits,
           BeforeStaging, BeforeRelays, BeforeMounts
  <2>3. members' \subseteq limited'
    BY <1>18
       DEF WriteLimits, ReadyToSpawn, Hold, PidsOwn, Live, LimitsInPlace, BeforeLimits,
           BeforeStaging, BeforeRelays, BeforeMounts
  <2>4. \A s \in Runs : At(s, "limit")' => \A e \in limited' : e[1] # pid'[s]
    BY <1>18, OneMoves
       DEF WriteLimits, ReadyToSpawn, Hold, PidsOwn, Live, LimitsInPlace, BeforeLimits,
           BeforeStaging, BeforeRelays, BeforeMounts
  <2>5. \A s \in Runs : "cgroup" \in held'[s] /\ ~Ended(s)' => <<pid'[s], s>> \in limited'
    BY <1>18, OneMoves
       DEF WriteLimits, ReadyToSpawn, Hold, PidsOwn, Live, LimitsInPlace, Ended, BeforeLimits,
           BeforeStaging, BeforeRelays, BeforeMounts
  <2> QED BY <2>1, <2>2, <2>3, <2>4, <2>5 DEF LimitsInPlace
<1>19. CASE Spawn(r)
  BY <1>19, OneMoves
     DEF Spawn, Fail, LimitsInPlace, Ended, BeforeLimits, BeforeStaging, BeforeRelays,
         BeforeMounts
<1>20. CASE TargetEnds(r)
  BY <1>20, OneMoves
     DEF TargetEnds, LimitsInPlace, Ended, BeforeLimits, BeforeStaging, BeforeRelays,
         BeforeMounts
<1>21. CASE LastProcessEnds(r)
  BY <1>21, OneMoves
     DEF LastProcessEnds, LimitsInPlace, Ended, BeforeLimits, BeforeStaging, BeforeRelays,
         BeforeMounts
<1>22. CASE DropCgroup(r)
  <2>1. \A e \in limited : e \in Pids \X Runs /\ e[1] = pid[e[2]] /\ pc[e[2]] \notin BeforeLimits
    BY DEF LimitsInPlace
  <2>2. /\ pid' = pid /\ members' = members /\ held' = [held EXCEPT ![r] = @ \ {"cgroup"}]
        /\ pc[r] \in {"downCgroup", "dropCgroup"} /\ pc'[r] \in {"downStaging", "dropRelay"}
        /\ \/ limited' = limited
           \/ /\ limited' = {e \in limited : e[1] # pid[r]}
              /\ \A m \in members : m[1] # pid[r]
    BY <1>22, EmptyCgroup DEF DropCgroup, Dropping, AfterDrop
  <2>3. limited' \subseteq limited /\ \A e \in limited : e[1] # pid[r] => e \in limited'
    BY <2>2
  <2>4. \A s \in Runs \ {r} : pc'[s] = pc[s]
    BY OneMoves
  <2>5. \A e \in limited' : e[1] = pid[e[2]] /\ pc'[e[2]] \notin BeforeLimits
    BY <2>1, <2>2, <2>3, <2>4 DEF BeforeLimits, BeforeStaging, BeforeRelays, BeforeMounts
  <2>6. members \subseteq limited'
    BY <2>2 DEF LimitsInPlace
  <2>7. \A s \in Runs : At(s, "limit")' => \A e \in limited' : e[1] # pid[s]
    BY <2>2, <2>3, <2>4 DEF LimitsInPlace
  <2>8. ASSUME NEW s \in Runs, "cgroup" \in held'[s], ~Ended(s)' PROVE <<pid[s], s>> \in limited'
    <3>1. s # r /\ "cgroup" \in held[s] /\ pc'[s] = pc[s]
      BY <2>2, <2>4, <2>8
    <3>2. <<pid[s], s>> \in limited
      BY <2>8, <3>1 DEF LimitsInPlace, Ended
    <3>3. pid[s] # pid[r]
      BY <2>1, <2>2, <2>8, <3>1, <3>2
         DEF PidsOwn, Live, Ended, BeforeLimits, BeforeStaging, BeforeRelays, BeforeMounts
    <3> QED BY <2>3, <3>2, <3>3
  <2>9. \A e, f \in limited' : e[1] = f[1] => e = f
    BY <2>3 DEF LimitsInPlace
  <2> QED BY <2>2, <2>5, <2>6, <2>7, <2>8, <2>9 DEF LimitsInPlace
<1>23. CASE DropStaging(r)
  BY <1>23, OneMoves
     DEF DropStaging, Drops, Dropping, AfterDrop, LimitsInPlace, Ended, BeforeLimits,
         BeforeStaging, BeforeRelays, BeforeMounts
<1>24. CASE Unmount(r)
  BY <1>24, OneMoves
     DEF Unmount, Of, Drops, LimitsInPlace, Ended, BeforeLimits, BeforeStaging, BeforeRelays,
         BeforeMounts
<1>25. CASE DropFuse(r)
  BY <1>25, OneMoves
     DEF DropFuse, Drops, Dropping, AfterDrop, LimitsInPlace, Ended, BeforeLimits,
         BeforeStaging, BeforeRelays, BeforeMounts
<1>26. CASE DropRelay(r)
  BY <1>26, OneMoves
     DEF DropRelay, Drops, Dropping, AfterDrop, LimitsInPlace, Ended, BeforeLimits,
         BeforeStaging, BeforeRelays, BeforeMounts
<1>27. CASE PostExit(r)
  BY <1>27, OneMoves
     DEF PostExit, LimitsInPlace, Ended, BeforeLimits, BeforeStaging, BeforeRelays,
         BeforeMounts
<1>28. CASE Kill(r)
  BY <1>28, OneMoves
     DEF Kill, Live, LimitsInPlace, Ended, BeforeLimits, BeforeStaging, BeforeRelays,
         BeforeMounts
<1> QED
  BY <1>1, <1>2, <1>3, <1>4, <1>5, <1>6, <1>7, <1>8, <1>9, <1>10, <1>11,
     <1>12, <1>13, <1>14, <1>15, <1>16, <1>17, <1>18, <1>19, <1>20,
     <1>21, <1>22, <1>23, <1>24, <1>25, <1>26, <1>27, <1>28
     DEF Act, Step

SharedInv == TypeOK /\ PidsOwn /\ DoomedInSweep /\ StagingSwept /\ LimitsInPlace

\* The host starts with the invariant of what runs share.
LEMMA SharedInit == Init => SharedInv
<1> SUFFICES ASSUME Init PROVE SharedInv
  OBVIOUS
<1> QED BY TypeInit DEF Init, SharedInv, PidsOwn, Live, DoomedInSweep, StagingSwept,
                        LimitsInPlace, At

\* Every step keeps it.
LEMMA SharedStep == SharedInv /\ [Next]_vars => SharedInv'
<1> SUFFICES ASSUME SharedInv, [Next]_vars PROVE SharedInv'
  OBVIOUS
<1> USE DEF SharedInv
<1>1. TypeOK'
  BY TypeStep
<1>2. ASSUME NEW r \in Runs, Act(r) PROVE SharedInv'
  BY <1>1, <1>2, PidsOwnStep, DoomedStep, StagingStep, LimitsStep
<1>3. CASE UNCHANGED vars
  BY <1>1, <1>3 DEF vars, self, swept, loop, ended, host, cgrp, fuse, relay, PidsOwn, Live, At,
                    DoomedInSweep, StagingSwept, LimitsInPlace, Ended
<1> QED BY <1>2, <1>3 DEF Next, Act

\* So it holds always.
LEMMA SharedHolds == Spec => []SharedInv
  BY SharedInit, SharedStep, PTL DEF Spec

\* A process is under the limits of its own run and of no other, however often
\* pids are used again (try_create_cgroup).
THEOREM LimitsStayOwn == Spec => []LimitsAreOwn
<1>1. SharedInv => LimitsAreOwn
  <2> SUFFICES ASSUME SharedInv, NEW entry \in members
               PROVE  /\ LimitsBy(entry[1]) = {entry[2]}
                      /\ \A other \in members : other[1] = entry[1] => other = entry
    BY DEF LimitsAreOwn
  <2>1. entry \in limited /\ entry = <<entry[1], entry[2]>> /\ entry[2] \in Runs
    BY DEF SharedInv, TypeOK, LimitsInPlace
  <2>2. \A s \in Runs : <<entry[1], s>> \in limited => <<entry[1], s>> = entry
    BY <2>1 DEF SharedInv, LimitsInPlace
  <2>3. \A s \in Runs : <<entry[1], s>> \in limited <=> s = entry[2]
    BY <2>1, <2>2
  <2>4. \A other \in members : other[1] = entry[1] => other = entry
    BY <2>1 DEF SharedInv, LimitsInPlace
  <2> QED BY <2>1, <2>3, <2>4 DEF LimitsBy
<1> QED BY <1>1, SharedHolds, PTL

\* What a run has that is not tearing down stays as it is in another's step.
LEMMA StepLeavesAlone ==
  ASSUME SharedInv, NEW r \in Runs, Act(r), NEW s \in Runs, Live(s), ~TearingDown(s)
  PROVE  /\ s \in staged => s \in staged'
         /\ \A m \in mounts : m[3] = s => m \in mounts'
         /\ <<pid[s], s>> \in limited => <<pid[s], s>> \in limited'
<1> USE DEF SharedInv, TypeOK, Goto, At, self, swept, loop, ended, fuse, relay, cgrp, host, TearingDown
<1>1. CASE Start(r)
  BY <1>1 DEF Start
<1>2. CASE PreLaunch(r)
  BY <1>2 DEF PreLaunch
<1>3. CASE SweepLook(r)
  BY <1>3 DEF SweepLook
<1>4. CASE SweepRemove(r)
  <2>1. mounts' = mounts /\ limited' = limited
    BY <1>4 DEF SweepRemove
  <2>2. s \in staged => s \in staged'
    BY <1>4 DEF SweepRemove, StagingSwept, Ended, Live
  <2> QED BY <2>1, <2>2
<1>5. CASE SweepEnd(r)
  BY <1>5 DEF SweepEnd
<1>6. CASE FuseWanted(r)
  BY <1>6 DEF FuseWanted, BeginSweep, Fail
<1>7. CASE Mount(r)
  BY <1>7 DEF Mount, Of, Fail
<1>8. CASE MountsMade(r)
  BY <1>8 DEF MountsMade, Hold
<1>9. CASE RelaysWanted(r)
  BY <1>9 DEF RelaysWanted, BeginSweep, Fail
<1>10. CASE ListenDir(r)
  BY <1>10 DEF ListenDir, Fail
<1>11. CASE Bind(r)
  BY <1>11 DEF Bind, Of, Fail
<1>12. CASE RelaysMade(r)
  BY <1>12 DEF RelaysMade, Hold
<1>13. CASE Checks(r)
  BY <1>13 DEF Checks, BeginSweep, Fail
<1>14. CASE Stage(r)
  BY <1>14 DEF Stage, Fail
<1>15. CASE MakeTmp(r)
  BY <1>15 DEF MakeTmp, Fail
<1>16. CASE NoCgroup(r)
  BY <1>16 DEF NoCgroup, ReadyToSpawn, Hold
<1>17. CASE MakeCgroup(r)
  <2>1. mounts' = mounts /\ staged' = staged /\ pc[r] = "cgroup"
        /\ limited' = {e \in limited : e[1] # pid[r]}
    BY <1>17 DEF MakeCgroup
  <2>2. ASSUME <<pid[s], s>> \in limited PROVE pid[s] # pid[r]
    <3>1. s # r
      BY <2>1, <2>2 DEF LimitsInPlace, BeforeLimits
    <3> QED BY <2>1, <3>1 DEF PidsOwn, Live
  <2> QED BY <2>1, <2>2
<1>18. CASE WriteLimits(r)
  BY <1>18 DEF WriteLimits, ReadyToSpawn, Hold
<1>19. CASE Spawn(r)
  BY <1>19 DEF Spawn, Fail
<1>20. CASE TargetEnds(r)
  BY <1>20 DEF TargetEnds
<1>21. CASE LastProcessEnds(r)
  BY <1>21 DEF LastProcessEnds
<1>22. CASE DropCgroup(r)
  <2>1. mounts' = mounts /\ staged' = staged /\ pc[r] \in {"downCgroup", "dropCgroup"}
        /\ \A e \in limited : e[1] # pid[r] => e \in limited'
    BY <1>22 DEF DropCgroup, Dropping
  <2>2. s # r /\ pid[s] # pid[r]
    BY <2>1 DEF PidsOwn, Live
  <2> QED BY <2>1, <2>2
<1>23. CASE DropStaging(r)
  BY <1>23 DEF DropStaging, Drops, Dropping, AfterDrop
<1>24. CASE Unmount(r)
  BY <1>24 DEF Unmount, Of, Drops
<1>25. CASE DropFuse(r)
  BY <1>25 DEF DropFuse, Drops, Dropping, AfterDrop
<1>26. CASE DropRelay(r)
  BY <1>26 DEF DropRelay, Drops, Dropping, AfterDrop
<1>27. CASE PostExit(r)
  BY <1>27 DEF PostExit
<1>28. CASE Kill(r)
  BY <1>28 DEF Kill, Live
<1> QED
  BY <1>1, <1>2, <1>3, <1>4, <1>5, <1>6, <1>7, <1>8, <1>9, <1>10, <1>11,
     <1>12, <1>13, <1>14, <1>15, <1>16, <1>17, <1>18, <1>19, <1>20,
     <1>21, <1>22, <1>23, <1>24, <1>25, <1>26, <1>27, <1>28
     DEF Act, Step

\* No run takes away what another is using, however often pids are used again
\* (sweep_staging, fuse::sweep_stale, try_create_cgroup).
THEOREM HostStateIsLeftAlone == Spec => HostStateLeftAlone
<1> DEFINE Kept == \A r \in Runs : Live(r) /\ ~TearingDown(r) =>
                     /\ r \in staged => r \in staged'
                     /\ \A m \in mounts : m[3] = r => m \in mounts'
                     /\ <<pid[r], r>> \in limited => <<pid[r], r>> \in limited'
<1>1. SharedInv /\ [Next]_vars => [Kept]_vars
  BY StepLeavesAlone DEF Next, Act
<1> QED BY <1>1, SharedHolds, PTL DEF Spec, HostStateLeftAlone

-----------------------------------------------------------------------------
(* What a run leaves behind when its target has ended.                     *)

\* Once a run is done having run its target, or is past a drop on the way.
Past(r, labels) == pc[r] \in labels \/ (pc[r] = "done" /\ outcome[r] = "ran")

NextReset ==
  \A r \in Runs : \/ pc[r] \in {"mount", "bind", "downFuse", "downRelay", "post", "done", "dead",
                               "dropStaging", "dropCgroup", "dropRelay", "dropFuse"}
                \/ next[r] = 0

WaitedRan == \A r \in Runs : outcome[r] = "ran" => pc[r] \in Waited \union {"done", "dead"}

\* A guard stands over what a run made from the moment the run could succeed
\* until the drop.
StagingGuarded ==
  /\ \A r \in Runs : pc[r] \in {"sweepStaging", "stage"} => plan[r].isolate
  /\ \A r \in staged :
       /\ pc[r] \notin BeforeStaging /\ plan[r].isolate
       /\ pc[r] \in GuardedStaging => "staging" \in held[r]
       /\ ~Past(r, {"downFuse", "downRelay", "post"})

MountGuarded(m) ==
  LET r == m[3] IN
  /\ m[1] = pid[r] /\ m[2] < plan[r].fuse /\ pc[r] \notin BeforeMounts
  /\ pc[r] \in GuardedMounts => "fuse" \in held[r]
  /\ pc[r] = "downFuse" /\ m[2] < next[r] => <<r, "fuse">> \in kept
  /\ Past(r, {"downRelay", "post"}) => <<r, "fuse">> \in kept

MountsGuarded == \A m \in mounts : MountGuarded(m)

RelayGuarded(k) ==
  LET r == k[3] IN
  /\ k[1] = pid[r] /\ pc[r] \notin BeforeRelays
  /\ pc[r] \in GuardedRelays => "relay" \in held[r]
  /\ ~Past(r, {"post"})

RelaysGuarded == \A k \in socks : RelayGuarded(k)

LimitGuarded(e) ==
  LET r == e[2] IN
  /\ pc[r] \in {"spawn", "running", "downCgroup"} => "cgroup" \in held[r]
  /\ Past(r, {"downStaging", "downFuse", "downRelay", "post"}) => <<r, "cgroup">> \in kept

LimitsGuarded == \A e \in limited : LimitGuarded(e)

-----------------------------------------------------------------------------
(* What sweeps take while no pid is used twice.                            *)

RelaysSwept ==
  /\ \A p \in relayDirs : \E q \in Runs : pc[q] # "off" /\ pid[q] = p
  /\ \A k \in socks : k[1] = pid[k[3]] /\ pc[k[3]] # "off"
  /\ \A r \in Runs : At(r, "sweepRelay") =>
       /\ \A p \in sweep[r] : \E q \in Runs : pc[q] # "off" /\ pid[q] = p
       /\ \A p \in doomed[r] : \E q \in Runs : Ended(q) /\ pid[q] = p

StaleInSweep ==
  \A r \in Runs : pc[r] \in {"sweepStaging", "stage"} =>
    /\ stale[r] \subseteq Runs /\ \A e \in stale[r] : Ended(e)
    /\ stale[r] \intersect staged \subseteq sweep[r] \union doomed[r]
    /\ At(r, "stage") => sweep[r] = {} /\ doomed[r] = {}

-----------------------------------------------------------------------------
(* The steps keep them.                                                    *)

\* The count starts from nought in every loop over mounts or sockets.
LEMMA NextStep ==
  ASSUME TypeOK, TypeOK', NextReset, NEW r \in Runs, Act(r)
  PROVE  NextReset'
<1> USE DEF TypeOK, Goto, At, self, swept, loop, ended, fuse, relay, cgrp, host
<1>1. CASE Start(r)
  BY <1>1 DEF Start, NextReset
<1>2. CASE PreLaunch(r)
  BY <1>2 DEF PreLaunch, NextReset
<1>3. CASE SweepLook(r)
  BY <1>3 DEF SweepLook, NextReset
<1>4. CASE SweepRemove(r)
  BY <1>4 DEF SweepRemove, NextReset
<1>5. CASE SweepEnd(r)
  BY <1>5 DEF SweepEnd, NextReset
<1>6. CASE FuseWanted(r)
  BY <1>6 DEF FuseWanted, BeginSweep, Fail, NextReset
<1>7. CASE Mount(r)
  BY <1>7 DEF Mount, Of, Fail, NextReset
<1>8. CASE MountsMade(r)
  BY <1>8 DEF MountsMade, Hold, NextReset
<1>9. CASE RelaysWanted(r)
  BY <1>9 DEF RelaysWanted, BeginSweep, Fail, NextReset
<1>10. CASE ListenDir(r)
  BY <1>10 DEF ListenDir, Fail, NextReset
<1>11. CASE Bind(r)
  BY <1>11 DEF Bind, Of, Fail, NextReset
<1>12. CASE RelaysMade(r)
  BY <1>12 DEF RelaysMade, Hold, NextReset
<1>13. CASE Checks(r)
  BY <1>13 DEF Checks, BeginSweep, Fail, NextReset
<1>14. CASE Stage(r)
  BY <1>14 DEF Stage, Fail, NextReset
<1>15. CASE MakeTmp(r)
  BY <1>15 DEF MakeTmp, Fail, NextReset
<1>16. CASE NoCgroup(r)
  BY <1>16 DEF NoCgroup, ReadyToSpawn, Hold, NextReset
<1>17. CASE MakeCgroup(r)
  BY <1>17 DEF MakeCgroup, NextReset
<1>18. CASE WriteLimits(r)
  BY <1>18 DEF WriteLimits, ReadyToSpawn, Hold, NextReset
<1>19. CASE Spawn(r)
  BY <1>19 DEF Spawn, Fail, NextReset
<1>20. CASE TargetEnds(r)
  BY <1>20 DEF TargetEnds, NextReset
<1>21. CASE LastProcessEnds(r)
  BY <1>21 DEF LastProcessEnds, NextReset
<1>22. CASE DropCgroup(r)
  BY <1>22 DEF DropCgroup, Drops, Dropping, AfterDrop, NextReset
<1>23. CASE DropStaging(r)
  BY <1>23 DEF DropStaging, Drops, Dropping, AfterDrop, NextReset
<1>24. CASE Unmount(r)
  BY <1>24 DEF Unmount, Of, Drops, NextReset
<1>25. CASE DropFuse(r)
  BY <1>25 DEF DropFuse, Drops, Dropping, AfterDrop, NextReset
<1>26. CASE DropRelay(r)
  BY <1>26 DEF DropRelay, Drops, Dropping, AfterDrop, NextReset
<1>27. CASE PostExit(r)
  BY <1>27 DEF PostExit, NextReset
<1>28. CASE Kill(r)
  BY <1>28 DEF Kill, Live, NextReset
<1> QED
  BY <1>1, <1>2, <1>3, <1>4, <1>5, <1>6, <1>7, <1>8, <1>9, <1>10, <1>11,
     <1>12, <1>13, <1>14, <1>15, <1>16, <1>17, <1>18, <1>19, <1>20,
     <1>21, <1>22, <1>23, <1>24, <1>25, <1>26, <1>27, <1>28
     DEF Act, Step

\* Only a run that waited for its target ends as one that ran.
LEMMA WaitedStep ==
  ASSUME TypeOK, TypeOK', WaitedRan, NEW r \in Runs, Act(r)
  PROVE  WaitedRan'
<1> USE DEF TypeOK, Goto, At, self, swept, loop, ended, fuse, relay, cgrp, host
<1>1. CASE Start(r)
  BY <1>1 DEF Start, WaitedRan, Waited
<1>2. CASE PreLaunch(r)
  BY <1>2 DEF PreLaunch, WaitedRan, Waited
<1>3. CASE SweepLook(r)
  BY <1>3 DEF SweepLook, WaitedRan, Waited
<1>4. CASE SweepRemove(r)
  BY <1>4 DEF SweepRemove, WaitedRan, Waited
<1>5. CASE SweepEnd(r)
  BY <1>5 DEF SweepEnd, WaitedRan, Waited
<1>6. CASE FuseWanted(r)
  BY <1>6 DEF FuseWanted, BeginSweep, Fail, WaitedRan, Waited
<1>7. CASE Mount(r)
  BY <1>7 DEF Mount, Of, Fail, WaitedRan, Waited
<1>8. CASE MountsMade(r)
  BY <1>8 DEF MountsMade, Hold, WaitedRan, Waited
<1>9. CASE RelaysWanted(r)
  BY <1>9 DEF RelaysWanted, BeginSweep, Fail, WaitedRan, Waited
<1>10. CASE ListenDir(r)
  BY <1>10 DEF ListenDir, Fail, WaitedRan, Waited
<1>11. CASE Bind(r)
  BY <1>11 DEF Bind, Of, Fail, WaitedRan, Waited
<1>12. CASE RelaysMade(r)
  BY <1>12 DEF RelaysMade, Hold, WaitedRan, Waited
<1>13. CASE Checks(r)
  BY <1>13 DEF Checks, BeginSweep, Fail, WaitedRan, Waited
<1>14. CASE Stage(r)
  BY <1>14 DEF Stage, Fail, WaitedRan, Waited
<1>15. CASE MakeTmp(r)
  BY <1>15 DEF MakeTmp, Fail, WaitedRan, Waited
<1>16. CASE NoCgroup(r)
  BY <1>16 DEF NoCgroup, ReadyToSpawn, Hold, WaitedRan, Waited
<1>17. CASE MakeCgroup(r)
  BY <1>17 DEF MakeCgroup, WaitedRan, Waited
<1>18. CASE WriteLimits(r)
  BY <1>18 DEF WriteLimits, ReadyToSpawn, Hold, WaitedRan, Waited
<1>19. CASE Spawn(r)
  BY <1>19 DEF Spawn, Fail, WaitedRan, Waited
<1>20. CASE TargetEnds(r)
  BY <1>20 DEF TargetEnds, WaitedRan, Waited
<1>21. CASE LastProcessEnds(r)
  BY <1>21 DEF LastProcessEnds, WaitedRan, Waited
<1>22. CASE DropCgroup(r)
  BY <1>22 DEF DropCgroup, Drops, Dropping, AfterDrop, WaitedRan, Waited
<1>23. CASE DropStaging(r)
  BY <1>23 DEF DropStaging, Drops, Dropping, AfterDrop, WaitedRan, Waited
<1>24. CASE Unmount(r)
  BY <1>24 DEF Unmount, Of, Drops, WaitedRan, Waited
<1>25. CASE DropFuse(r)
  BY <1>25 DEF DropFuse, Drops, Dropping, AfterDrop, WaitedRan, Waited
<1>26. CASE DropRelay(r)
  BY <1>26 DEF DropRelay, Drops, Dropping, AfterDrop, WaitedRan, Waited
<1>27. CASE PostExit(r)
  BY <1>27 DEF PostExit, WaitedRan, Waited
<1>28. CASE Kill(r)
  BY <1>28 DEF Kill, Live, WaitedRan, Waited
<1> QED
  BY <1>1, <1>2, <1>3, <1>4, <1>5, <1>6, <1>7, <1>8, <1>9, <1>10, <1>11,
     <1>12, <1>13, <1>14, <1>15, <1>16, <1>17, <1>18, <1>19, <1>20,
     <1>21, <1>22, <1>23, <1>24, <1>25, <1>26, <1>27, <1>28
     DEF Act, Step

\* A run adds to the host only what is its own, and what was kept stays so.
LEMMA OwnAdditions ==
  ASSUME TypeOK, NEW r \in Runs, Act(r)
  PROVE  /\ kept \subseteq kept'
         /\ staged' \subseteq staged \union {r}
         /\ \A m \in mounts' : m \in mounts \/ m[3] = r
         /\ \A k \in socks' : k \in socks \/ k[3] = r
         /\ \A e \in limited' : e \in limited \/ e[2] = r
<1> USE DEF TypeOK, Goto, At, self, swept, loop, ended, fuse, relay, cgrp, host
<1>1. CASE Start(r)
  BY <1>1 DEF Start
<1>2. CASE PreLaunch(r)
  BY <1>2 DEF PreLaunch
<1>3. CASE SweepLook(r)
  BY <1>3 DEF SweepLook
<1>4. CASE SweepRemove(r)
  BY <1>4 DEF SweepRemove
<1>5. CASE SweepEnd(r)
  BY <1>5 DEF SweepEnd
<1>6. CASE FuseWanted(r)
  BY <1>6 DEF FuseWanted, BeginSweep, Fail
<1>7. CASE Mount(r)
  BY <1>7 DEF Mount, Of, Fail
<1>8. CASE MountsMade(r)
  BY <1>8 DEF MountsMade, Hold
<1>9. CASE RelaysWanted(r)
  BY <1>9 DEF RelaysWanted, BeginSweep, Fail
<1>10. CASE ListenDir(r)
  BY <1>10 DEF ListenDir, Fail
<1>11. CASE Bind(r)
  BY <1>11 DEF Bind, Of, Fail
<1>12. CASE RelaysMade(r)
  BY <1>12 DEF RelaysMade, Hold
<1>13. CASE Checks(r)
  BY <1>13 DEF Checks, BeginSweep, Fail
<1>14. CASE Stage(r)
  BY <1>14 DEF Stage, Fail
<1>15. CASE MakeTmp(r)
  BY <1>15 DEF MakeTmp, Fail
<1>16. CASE NoCgroup(r)
  BY <1>16 DEF NoCgroup, ReadyToSpawn, Hold
<1>17. CASE MakeCgroup(r)
  BY <1>17 DEF MakeCgroup
<1>18. CASE WriteLimits(r)
  BY <1>18 DEF WriteLimits, ReadyToSpawn, Hold
<1>19. CASE Spawn(r)
  BY <1>19 DEF Spawn, Fail
<1>20. CASE TargetEnds(r)
  BY <1>20 DEF TargetEnds
<1>21. CASE LastProcessEnds(r)
  BY <1>21 DEF LastProcessEnds
<1>22. CASE DropCgroup(r)
  BY <1>22 DEF DropCgroup, Drops, Dropping, AfterDrop
<1>23. CASE DropStaging(r)
  BY <1>23 DEF DropStaging, Drops, Dropping, AfterDrop
<1>24. CASE Unmount(r)
  BY <1>24 DEF Unmount, Of, Drops
<1>25. CASE DropFuse(r)
  BY <1>25 DEF DropFuse, Drops, Dropping, AfterDrop
<1>26. CASE DropRelay(r)
  BY <1>26 DEF DropRelay, Drops, Dropping, AfterDrop
<1>27. CASE PostExit(r)
  BY <1>27 DEF PostExit
<1>28. CASE Kill(r)
  BY <1>28 DEF Kill, Live
<1> QED
  BY <1>1, <1>2, <1>3, <1>4, <1>5, <1>6, <1>7, <1>8, <1>9, <1>10, <1>11,
     <1>12, <1>13, <1>14, <1>15, <1>16, <1>17, <1>18, <1>19, <1>20,
     <1>21, <1>22, <1>23, <1>24, <1>25, <1>26, <1>27, <1>28
     DEF Act, Step

\* The staging guard is built before the target is, and drops once.
LEMMA StagingGuardedStep ==
  ASSUME TypeOK, TypeOK', WaitedRan, StagingGuarded, NEW r \in Runs, Act(r)
  PROVE  StagingGuarded'
<1> USE DEF TypeOK, Goto, At, self, swept, loop, ended, fuse, relay, cgrp, host
<1>1. CASE Start(r)
  BY <1>1, OneMoves
     DEF Start, StagingGuarded, Past, WaitedRan, Waited, GuardedStaging, BeforeStaging,
         BeforeRelays, BeforeMounts
<1>2. CASE PreLaunch(r)
  BY <1>2, OneMoves
     DEF PreLaunch, StagingGuarded, Past, WaitedRan, Waited, GuardedStaging, BeforeStaging,
         BeforeRelays, BeforeMounts
<1>3. CASE SweepLook(r)
  BY <1>3, OneMoves
     DEF SweepLook, StagingGuarded, Past, WaitedRan, Waited, GuardedStaging, BeforeStaging,
         BeforeRelays, BeforeMounts
<1>4. CASE SweepRemove(r)
  BY <1>4, OneMoves
     DEF SweepRemove, StagingGuarded, Past, WaitedRan, Waited, GuardedStaging, BeforeStaging,
         BeforeRelays, BeforeMounts
<1>5. CASE SweepEnd(r)
  BY <1>5, OneMoves
     DEF SweepEnd, StagingGuarded, Past, WaitedRan, Waited, GuardedStaging, BeforeStaging,
         BeforeRelays, BeforeMounts
<1>6. CASE FuseWanted(r)
  BY <1>6, OneMoves
     DEF FuseWanted, BeginSweep, Fail, StagingGuarded, Past, WaitedRan, Waited, GuardedStaging,
         BeforeStaging, BeforeRelays, BeforeMounts
<1>7. CASE Mount(r)
  BY <1>7, OneMoves
     DEF Mount, Of, Fail, StagingGuarded, Past, WaitedRan, Waited, GuardedStaging,
         BeforeStaging, BeforeRelays, BeforeMounts
<1>8. CASE MountsMade(r)
  BY <1>8, OneMoves
     DEF MountsMade, Hold, StagingGuarded, Past, WaitedRan, Waited, GuardedStaging,
         BeforeStaging, BeforeRelays, BeforeMounts
<1>9. CASE RelaysWanted(r)
  BY <1>9, OneMoves
     DEF RelaysWanted, BeginSweep, Fail, StagingGuarded, Past, WaitedRan, Waited,
         GuardedStaging, BeforeStaging, BeforeRelays, BeforeMounts
<1>10. CASE ListenDir(r)
  BY <1>10, OneMoves
     DEF ListenDir, Fail, StagingGuarded, Past, WaitedRan, Waited, GuardedStaging, BeforeStaging,
         BeforeRelays, BeforeMounts
<1>11. CASE Bind(r)
  BY <1>11, OneMoves
     DEF Bind, Of, Fail, StagingGuarded, Past, WaitedRan, Waited, GuardedStaging,
         BeforeStaging, BeforeRelays, BeforeMounts
<1>12. CASE RelaysMade(r)
  BY <1>12, OneMoves
     DEF RelaysMade, Hold, StagingGuarded, Past, WaitedRan, Waited, GuardedStaging,
         BeforeStaging, BeforeRelays, BeforeMounts
<1>13. CASE Checks(r)
  BY <1>13, OneMoves
     DEF Checks, BeginSweep, Fail, StagingGuarded, Past, WaitedRan, Waited, GuardedStaging,
         BeforeStaging, BeforeRelays, BeforeMounts
<1>14. CASE Stage(r)
  BY <1>14, OneMoves
     DEF Stage, Fail, StagingGuarded, Past, WaitedRan, Waited, GuardedStaging, BeforeStaging,
         BeforeRelays, BeforeMounts
<1>15. CASE MakeTmp(r)
  BY <1>15, OneMoves
     DEF MakeTmp, Fail, StagingGuarded, Past, WaitedRan, Waited, GuardedStaging, BeforeStaging,
         BeforeRelays, BeforeMounts
<1>16. CASE NoCgroup(r)
  BY <1>16, OneMoves
     DEF NoCgroup, ReadyToSpawn, Hold, StagingGuarded, Past, WaitedRan, Waited, GuardedStaging,
         BeforeStaging, BeforeRelays, BeforeMounts
<1>17. CASE MakeCgroup(r)
  BY <1>17, OneMoves
     DEF MakeCgroup, StagingGuarded, Past, WaitedRan, Waited, GuardedStaging, BeforeStaging,
         BeforeRelays, BeforeMounts
<1>18. CASE WriteLimits(r)
  BY <1>18, OneMoves
     DEF WriteLimits, ReadyToSpawn, Hold, StagingGuarded, Past, WaitedRan, Waited,
         GuardedStaging, BeforeStaging, BeforeRelays, BeforeMounts
<1>19. CASE Spawn(r)
  BY <1>19, OneMoves
     DEF Spawn, Fail, StagingGuarded, Past, WaitedRan, Waited, GuardedStaging, BeforeStaging,
         BeforeRelays, BeforeMounts
<1>20. CASE TargetEnds(r)
  BY <1>20, OneMoves
     DEF TargetEnds, StagingGuarded, Past, WaitedRan, Waited, GuardedStaging, BeforeStaging,
         BeforeRelays, BeforeMounts
<1>21. CASE LastProcessEnds(r)
  BY <1>21, OneMoves
     DEF LastProcessEnds, StagingGuarded, Past, WaitedRan, Waited, GuardedStaging,
         BeforeStaging, BeforeRelays, BeforeMounts
<1>22. CASE DropCgroup(r)
  BY <1>22, OneMoves
     DEF DropCgroup, Drops, Dropping, AfterDrop, StagingGuarded, Past, WaitedRan, Waited,
         GuardedStaging, BeforeStaging, BeforeRelays, BeforeMounts
<1>23. CASE DropStaging(r)
  BY <1>23, OneMoves
     DEF DropStaging, Drops, Dropping, AfterDrop, StagingGuarded, Past, WaitedRan, Waited,
         GuardedStaging, BeforeStaging, BeforeRelays, BeforeMounts
<1>24. CASE Unmount(r)
  BY <1>24, OneMoves
     DEF Unmount, Of, Drops, StagingGuarded, Past, WaitedRan, Waited, GuardedStaging,
         BeforeStaging, BeforeRelays, BeforeMounts
<1>25. CASE DropFuse(r)
  BY <1>25, OneMoves
     DEF DropFuse, Drops, Dropping, AfterDrop, StagingGuarded, Past, WaitedRan, Waited,
         GuardedStaging, BeforeStaging, BeforeRelays, BeforeMounts
<1>26. CASE DropRelay(r)
  BY <1>26, OneMoves
     DEF DropRelay, Drops, Dropping, AfterDrop, StagingGuarded, Past, WaitedRan, Waited,
         GuardedStaging, BeforeStaging, BeforeRelays, BeforeMounts
<1>27. CASE PostExit(r)
  BY <1>27, OneMoves
     DEF PostExit, StagingGuarded, Past, WaitedRan, Waited, GuardedStaging, BeforeStaging,
         BeforeRelays, BeforeMounts
<1>28. CASE Kill(r)
  BY <1>28, OneMoves
     DEF Kill, Live, StagingGuarded, Past, WaitedRan, Waited, GuardedStaging, BeforeStaging,
         BeforeRelays, BeforeMounts
<1> QED
  BY <1>1, <1>2, <1>3, <1>4, <1>5, <1>6, <1>7, <1>8, <1>9, <1>10, <1>11,
     <1>12, <1>13, <1>14, <1>15, <1>16, <1>17, <1>18, <1>19, <1>20,
     <1>21, <1>22, <1>23, <1>24, <1>25, <1>26, <1>27, <1>28
     DEF Act, Step

\* The FUSE guard takes every mount down, or is told that it cannot.
LEMMA MountsGuardedStep ==
  ASSUME TypeOK, TypeOK', NextReset, WaitedRan, MountsGuarded, NEW r \in Runs, Act(r)
  PROVE  MountsGuarded'
<1> SUFFICES ASSUME NEW m \in mounts' PROVE MountGuarded(m)'
  BY DEF MountsGuarded
<1>1. CASE m[3] # r
  BY <1>1, OneMoves, OwnAdditions DEF TypeOK, MountsGuarded, MountGuarded, Past
<1>2. CASE m[3] = r
  <2> USE DEF TypeOK, Goto, At, self, swept, loop, ended, fuse, relay, cgrp, host
  <2>1. CASE Start(r)
    BY <2>1, <1>2, BoundsType
       DEF Start, NextReset, WaitedRan, Waited, MountsGuarded, MountGuarded, Past,
           GuardedMounts, GuardedStaging, BeforeMounts
  <2>2. CASE PreLaunch(r)
    BY <2>2, <1>2, BoundsType
       DEF PreLaunch, NextReset, WaitedRan, Waited, MountsGuarded, MountGuarded, Past,
           GuardedMounts, GuardedStaging, BeforeMounts
  <2>3. CASE SweepLook(r)
    BY <2>3, <1>2, BoundsType
       DEF SweepLook, NextReset, WaitedRan, Waited, MountsGuarded, MountGuarded, Past,
           GuardedMounts, GuardedStaging, BeforeMounts
  <2>4. CASE SweepRemove(r)
    BY <2>4, <1>2, BoundsType
       DEF SweepRemove, NextReset, WaitedRan, Waited, MountsGuarded, MountGuarded, Past,
           GuardedMounts, GuardedStaging, BeforeMounts
  <2>5. CASE SweepEnd(r)
    BY <2>5, <1>2, BoundsType
       DEF SweepEnd, NextReset, WaitedRan, Waited, MountsGuarded, MountGuarded, Past,
           GuardedMounts, GuardedStaging, BeforeMounts
  <2>6. CASE FuseWanted(r)
    BY <2>6, <1>2, BoundsType
       DEF FuseWanted, BeginSweep, Fail, NextReset, WaitedRan, Waited, MountsGuarded,
           MountGuarded, Past, GuardedMounts, GuardedStaging, BeforeMounts
  <2>7. CASE Mount(r)
    BY <2>7, <1>2, BoundsType
       DEF Mount, Of, Fail, NextReset, WaitedRan, Waited, MountsGuarded, MountGuarded, Past,
           GuardedMounts, GuardedStaging, BeforeMounts
  <2>8. CASE MountsMade(r)
    BY <2>8, <1>2, BoundsType
       DEF MountsMade, Hold, NextReset, WaitedRan, Waited, MountsGuarded, MountGuarded, Past,
           GuardedMounts, GuardedStaging, BeforeMounts
  <2>9. CASE RelaysWanted(r)
    BY <2>9, <1>2, BoundsType
       DEF RelaysWanted, BeginSweep, Fail, NextReset, WaitedRan, Waited, MountsGuarded,
           MountGuarded, Past, GuardedMounts, GuardedStaging, BeforeMounts
  <2>10. CASE ListenDir(r)
    BY <2>10, <1>2, BoundsType
       DEF ListenDir, Fail, NextReset, WaitedRan, Waited, MountsGuarded, MountGuarded, Past,
           GuardedMounts, GuardedStaging, BeforeMounts
  <2>11. CASE Bind(r)
    BY <2>11, <1>2, BoundsType
       DEF Bind, Of, Fail, NextReset, WaitedRan, Waited, MountsGuarded, MountGuarded, Past,
           GuardedMounts, GuardedStaging, BeforeMounts
  <2>12. CASE RelaysMade(r)
    BY <2>12, <1>2, BoundsType
       DEF RelaysMade, Hold, NextReset, WaitedRan, Waited, MountsGuarded, MountGuarded, Past,
           GuardedMounts, GuardedStaging, BeforeMounts
  <2>13. CASE Checks(r)
    BY <2>13, <1>2, BoundsType
       DEF Checks, BeginSweep, Fail, NextReset, WaitedRan, Waited, MountsGuarded, MountGuarded,
           Past, GuardedMounts, GuardedStaging, BeforeMounts
  <2>14. CASE Stage(r)
    BY <2>14, <1>2, BoundsType
       DEF Stage, Fail, NextReset, WaitedRan, Waited, MountsGuarded, MountGuarded, Past,
           GuardedMounts, GuardedStaging, BeforeMounts
  <2>15. CASE MakeTmp(r)
    BY <2>15, <1>2, BoundsType
       DEF MakeTmp, Fail, NextReset, WaitedRan, Waited, MountsGuarded, MountGuarded, Past,
           GuardedMounts, GuardedStaging, BeforeMounts
  <2>16. CASE NoCgroup(r)
    BY <2>16, <1>2, BoundsType
       DEF NoCgroup, ReadyToSpawn, Hold, NextReset, WaitedRan, Waited, MountsGuarded,
           MountGuarded, Past, GuardedMounts, GuardedStaging, BeforeMounts
  <2>17. CASE MakeCgroup(r)
    BY <2>17, <1>2, BoundsType
       DEF MakeCgroup, NextReset, WaitedRan, Waited, MountsGuarded, MountGuarded, Past,
           GuardedMounts, GuardedStaging, BeforeMounts
  <2>18. CASE WriteLimits(r)
    BY <2>18, <1>2, BoundsType
       DEF WriteLimits, ReadyToSpawn, Hold, NextReset, WaitedRan, Waited, MountsGuarded,
           MountGuarded, Past, GuardedMounts, GuardedStaging, BeforeMounts
  <2>19. CASE Spawn(r)
    BY <2>19, <1>2, BoundsType
       DEF Spawn, Fail, NextReset, WaitedRan, Waited, MountsGuarded, MountGuarded, Past,
           GuardedMounts, GuardedStaging, BeforeMounts
  <2>20. CASE TargetEnds(r)
    BY <2>20, <1>2, BoundsType
       DEF TargetEnds, NextReset, WaitedRan, Waited, MountsGuarded, MountGuarded, Past,
           GuardedMounts, GuardedStaging, BeforeMounts
  <2>21. CASE LastProcessEnds(r)
    BY <2>21, <1>2, BoundsType
       DEF LastProcessEnds, NextReset, WaitedRan, Waited, MountsGuarded, MountGuarded, Past,
           GuardedMounts, GuardedStaging, BeforeMounts
  <2>22. CASE DropCgroup(r)
    BY <2>22, <1>2, BoundsType
       DEF DropCgroup, Drops, Dropping, AfterDrop, NextReset, WaitedRan, Waited, MountsGuarded,
           MountGuarded, Past, GuardedMounts, GuardedStaging, BeforeMounts
  <2>23. CASE DropStaging(r)
    <3>1. /\ UNCHANGED <<pid, plan, next, outcome, mounts, kept>>
          /\ held' = [held EXCEPT ![r] = held[r] \ {"staging"}]
          /\ \/ pc[r] = "downStaging" /\ pc'[r] = "downFuse"
             \/ pc[r] = "dropStaging" /\ pc'[r] = "dropCgroup"
      BY <2>23 DEF DropStaging, Dropping, AfterDrop
    <3>2. MountGuarded(m)
      BY <3>1 DEF MountsGuarded
    <3> QED
      BY <3>1, <3>2, <1>2, BoundsType
         DEF NextReset, WaitedRan, Waited, MountGuarded, Past, GuardedMounts, GuardedStaging,
             BeforeMounts
  <2>24. CASE Unmount(r)
    <3>1. /\ pc' = pc /\ pid' = pid /\ plan' = plan /\ held' = held /\ outcome' = outcome
          /\ next'[r] = next[r] + 1 /\ m \in mounts /\ kept \subseteq kept'
          /\ m = <<pid[r], next[r], r>> => <<r, "fuse">> \in kept'
      BY <2>24, <1>2 DEF Unmount, Of
    <3>2. MountGuarded(m)
      BY <3>1 DEF MountsGuarded
    <3>3. /\ m = <<m[1], m[2], m[3]>> /\ m[1] = pid[r] /\ m[2] \in Nat /\ next[r] \in Nat
      BY <3>1, <3>2, <1>2, BoundsType DEF MountGuarded
    <3>4. m[2] < next[r] + 1 => m[2] < next[r] \/ m = <<pid[r], next[r], r>>
      <4>1. m[2] < next[r] + 1 => m[2] < next[r] \/ m[2] = next[r]
        BY <3>3, SMTT(60)
      <4> QED BY <3>3, <4>1, <1>2
    <3>5. m[2] < next'[r] /\ pc[r] = "downFuse" => <<r, "fuse">> \in kept'
      BY <3>1, <3>2, <3>4, <1>2 DEF MountGuarded
    <3> QED BY <3>1, <3>2, <3>5, <1>2 DEF MountGuarded, Past
  <2>25. CASE DropFuse(r)
    BY <2>25, <1>2, BoundsType
       DEF DropFuse, Drops, Dropping, AfterDrop, NextReset, WaitedRan, Waited, MountsGuarded,
           MountGuarded, Past, GuardedMounts, GuardedStaging, BeforeMounts
  <2>26. CASE DropRelay(r)
    BY <2>26, <1>2, BoundsType
       DEF DropRelay, Drops, Dropping, AfterDrop, NextReset, WaitedRan, Waited, MountsGuarded,
           MountGuarded, Past, GuardedMounts, GuardedStaging, BeforeMounts
  <2>27. CASE PostExit(r)
    BY <2>27, <1>2, BoundsType
       DEF PostExit, NextReset, WaitedRan, Waited, MountsGuarded, MountGuarded, Past,
           GuardedMounts, GuardedStaging, BeforeMounts
  <2>28. CASE Kill(r)
    BY <2>28, <1>2, BoundsType
       DEF Kill, Live, NextReset, WaitedRan, Waited, MountsGuarded, MountGuarded, Past,
           GuardedMounts, GuardedStaging, BeforeMounts
  <2> QED
    BY <2>1, <2>2, <2>3, <2>4, <2>5, <2>6, <2>7, <2>8, <2>9, <2>10, <2>11,
     <2>12, <2>13, <2>14, <2>15, <2>16, <2>17, <2>18, <2>19, <2>20,
     <2>21, <2>22, <2>23, <2>24, <2>25, <2>26, <2>27, <2>28
     DEF Act, Step
<1> QED BY <1>1, <1>2

\* The relay guard takes every socket of the run's directory.
LEMMA RelaysGuardedStep ==
  ASSUME TypeOK, TypeOK', WaitedRan, RelaysGuarded, NEW r \in Runs, Act(r)
  PROVE  RelaysGuarded'
<1> SUFFICES ASSUME NEW k \in socks' PROVE RelayGuarded(k)'
  BY DEF RelaysGuarded
<1>1. CASE k[3] # r
  BY <1>1, OneMoves, OwnAdditions DEF TypeOK, RelaysGuarded, RelayGuarded, Past
<1>2. CASE k[3] = r
  <2> USE DEF TypeOK, Goto, At, self, swept, loop, ended, fuse, relay, cgrp, host
  <2>1. CASE Start(r)
    BY <2>1, <1>2
       DEF Start, WaitedRan, Waited, RelaysGuarded, RelayGuarded, Past, GuardedRelays,
           GuardedStaging, BeforeRelays, BeforeMounts
  <2>2. CASE PreLaunch(r)
    BY <2>2, <1>2
       DEF PreLaunch, WaitedRan, Waited, RelaysGuarded, RelayGuarded, Past, GuardedRelays,
           GuardedStaging, BeforeRelays, BeforeMounts
  <2>3. CASE SweepLook(r)
    BY <2>3, <1>2
       DEF SweepLook, WaitedRan, Waited, RelaysGuarded, RelayGuarded, Past, GuardedRelays,
           GuardedStaging, BeforeRelays, BeforeMounts
  <2>4. CASE SweepRemove(r)
    BY <2>4, <1>2
       DEF SweepRemove, WaitedRan, Waited, RelaysGuarded, RelayGuarded, Past, GuardedRelays,
           GuardedStaging, BeforeRelays, BeforeMounts
  <2>5. CASE SweepEnd(r)
    BY <2>5, <1>2
       DEF SweepEnd, WaitedRan, Waited, RelaysGuarded, RelayGuarded, Past, GuardedRelays,
           GuardedStaging, BeforeRelays, BeforeMounts
  <2>6. CASE FuseWanted(r)
    BY <2>6, <1>2
       DEF FuseWanted, BeginSweep, Fail, WaitedRan, Waited, RelaysGuarded, RelayGuarded, Past,
           GuardedRelays, GuardedStaging, BeforeRelays, BeforeMounts
  <2>7. CASE Mount(r)
    BY <2>7, <1>2
       DEF Mount, Of, Fail, WaitedRan, Waited, RelaysGuarded, RelayGuarded, Past,
           GuardedRelays, GuardedStaging, BeforeRelays, BeforeMounts
  <2>8. CASE MountsMade(r)
    BY <2>8, <1>2
       DEF MountsMade, Hold, WaitedRan, Waited, RelaysGuarded, RelayGuarded, Past,
           GuardedRelays, GuardedStaging, BeforeRelays, BeforeMounts
  <2>9. CASE RelaysWanted(r)
    BY <2>9, <1>2
       DEF RelaysWanted, BeginSweep, Fail, WaitedRan, Waited, RelaysGuarded, RelayGuarded,
           Past, GuardedRelays, GuardedStaging, BeforeRelays, BeforeMounts
  <2>10. CASE ListenDir(r)
    BY <2>10, <1>2
       DEF ListenDir, Fail, WaitedRan, Waited, RelaysGuarded, RelayGuarded, Past, GuardedRelays,
           GuardedStaging, BeforeRelays, BeforeMounts
  <2>11. CASE Bind(r)
    BY <2>11, <1>2
       DEF Bind, Of, Fail, WaitedRan, Waited, RelaysGuarded, RelayGuarded, Past, GuardedRelays,
           GuardedStaging, BeforeRelays, BeforeMounts
  <2>12. CASE RelaysMade(r)
    BY <2>12, <1>2
       DEF RelaysMade, Hold, WaitedRan, Waited, RelaysGuarded, RelayGuarded, Past,
           GuardedRelays, GuardedStaging, BeforeRelays, BeforeMounts
  <2>13. CASE Checks(r)
    BY <2>13, <1>2
       DEF Checks, BeginSweep, Fail, WaitedRan, Waited, RelaysGuarded, RelayGuarded, Past,
           GuardedRelays, GuardedStaging, BeforeRelays, BeforeMounts
  <2>14. CASE Stage(r)
    BY <2>14, <1>2
       DEF Stage, Fail, WaitedRan, Waited, RelaysGuarded, RelayGuarded, Past, GuardedRelays,
           GuardedStaging, BeforeRelays, BeforeMounts
  <2>15. CASE MakeTmp(r)
    BY <2>15, <1>2
       DEF MakeTmp, Fail, WaitedRan, Waited, RelaysGuarded, RelayGuarded, Past, GuardedRelays,
           GuardedStaging, BeforeRelays, BeforeMounts
  <2>16. CASE NoCgroup(r)
    BY <2>16, <1>2
       DEF NoCgroup, ReadyToSpawn, Hold, WaitedRan, Waited, RelaysGuarded, RelayGuarded, Past,
           GuardedRelays, GuardedStaging, BeforeRelays, BeforeMounts
  <2>17. CASE MakeCgroup(r)
    BY <2>17, <1>2
       DEF MakeCgroup, WaitedRan, Waited, RelaysGuarded, RelayGuarded, Past, GuardedRelays,
           GuardedStaging, BeforeRelays, BeforeMounts
  <2>18. CASE WriteLimits(r)
    BY <2>18, <1>2
       DEF WriteLimits, ReadyToSpawn, Hold, WaitedRan, Waited, RelaysGuarded, RelayGuarded,
           Past, GuardedRelays, GuardedStaging, BeforeRelays, BeforeMounts
  <2>19. CASE Spawn(r)
    BY <2>19, <1>2
       DEF Spawn, Fail, WaitedRan, Waited, RelaysGuarded, RelayGuarded, Past, GuardedRelays,
           GuardedStaging, BeforeRelays, BeforeMounts
  <2>20. CASE TargetEnds(r)
    BY <2>20, <1>2
       DEF TargetEnds, WaitedRan, Waited, RelaysGuarded, RelayGuarded, Past, GuardedRelays,
           GuardedStaging, BeforeRelays, BeforeMounts
  <2>21. CASE LastProcessEnds(r)
    BY <2>21, <1>2
       DEF LastProcessEnds, WaitedRan, Waited, RelaysGuarded, RelayGuarded, Past,
           GuardedRelays, GuardedStaging, BeforeRelays, BeforeMounts
  <2>22. CASE DropCgroup(r)
    BY <2>22, <1>2
       DEF DropCgroup, Drops, Dropping, AfterDrop, WaitedRan, Waited, RelaysGuarded,
           RelayGuarded, Past, GuardedRelays, GuardedStaging, BeforeRelays, BeforeMounts
  <2>23. CASE DropStaging(r)
    BY <2>23, <1>2
       DEF DropStaging, Drops, Dropping, AfterDrop, WaitedRan, Waited, RelaysGuarded,
           RelayGuarded, Past, GuardedRelays, GuardedStaging, BeforeRelays, BeforeMounts
  <2>24. CASE Unmount(r)
    BY <2>24, <1>2
       DEF Unmount, Of, Drops, WaitedRan, Waited, RelaysGuarded, RelayGuarded, Past,
           GuardedRelays, GuardedStaging, BeforeRelays, BeforeMounts
  <2>25. CASE DropFuse(r)
    BY <2>25, <1>2
       DEF DropFuse, Drops, Dropping, AfterDrop, WaitedRan, Waited, RelaysGuarded,
           RelayGuarded, Past, GuardedRelays, GuardedStaging, BeforeRelays, BeforeMounts
  <2>26. CASE DropRelay(r)
    BY <2>26, <1>2
       DEF DropRelay, Drops, Dropping, AfterDrop, WaitedRan, Waited, RelaysGuarded,
           RelayGuarded, Past, GuardedRelays, GuardedStaging, BeforeRelays, BeforeMounts
  <2>27. CASE PostExit(r)
    BY <2>27, <1>2
       DEF PostExit, WaitedRan, Waited, RelaysGuarded, RelayGuarded, Past, GuardedRelays,
           GuardedStaging, BeforeRelays, BeforeMounts
  <2>28. CASE Kill(r)
    BY <2>28, <1>2
       DEF Kill, Live, WaitedRan, Waited, RelaysGuarded, RelayGuarded, Past, GuardedRelays,
           GuardedStaging, BeforeRelays, BeforeMounts
  <2> QED
    BY <2>1, <2>2, <2>3, <2>4, <2>5, <2>6, <2>7, <2>8, <2>9, <2>10, <2>11,
     <2>12, <2>13, <2>14, <2>15, <2>16, <2>17, <2>18, <2>19, <2>20,
     <2>21, <2>22, <2>23, <2>24, <2>25, <2>26, <2>27, <2>28
     DEF Act, Step
<1> QED BY <1>1, <1>2

\* The cgroup goes with its guard, or is told to have processes.
LEMMA LimitsGuardedStep ==
  ASSUME TypeOK, TypeOK', LimitsInPlace, WaitedRan, LimitsGuarded, NEW r \in Runs, Act(r)
  PROVE  LimitsGuarded'
<1> SUFFICES ASSUME NEW e \in limited' PROVE LimitGuarded(e)'
  BY DEF LimitsGuarded
<1>1. CASE e[2] # r
  BY <1>1, OneMoves, OwnAdditions DEF TypeOK, LimitsGuarded, LimitGuarded, Past
<1>2. CASE e[2] = r
  <2> USE DEF TypeOK, Goto, At, self, swept, loop, ended, fuse, relay, cgrp, host
  <2>1. CASE Start(r)
    BY <2>1, <1>2
       DEF Start, LimitsInPlace, WaitedRan, Waited, LimitsGuarded, LimitGuarded, Past,
           BeforeLimits, BeforeStaging, BeforeRelays, BeforeMounts
  <2>2. CASE PreLaunch(r)
    BY <2>2, <1>2
       DEF PreLaunch, LimitsInPlace, WaitedRan, Waited, LimitsGuarded, LimitGuarded, Past,
           BeforeLimits, BeforeStaging, BeforeRelays, BeforeMounts
  <2>3. CASE SweepLook(r)
    BY <2>3, <1>2
       DEF SweepLook, LimitsInPlace, WaitedRan, Waited, LimitsGuarded, LimitGuarded, Past,
           BeforeLimits, BeforeStaging, BeforeRelays, BeforeMounts
  <2>4. CASE SweepRemove(r)
    BY <2>4, <1>2
       DEF SweepRemove, LimitsInPlace, WaitedRan, Waited, LimitsGuarded, LimitGuarded, Past,
           BeforeLimits, BeforeStaging, BeforeRelays, BeforeMounts
  <2>5. CASE SweepEnd(r)
    BY <2>5, <1>2
       DEF SweepEnd, LimitsInPlace, WaitedRan, Waited, LimitsGuarded, LimitGuarded, Past,
           BeforeLimits, BeforeStaging, BeforeRelays, BeforeMounts
  <2>6. CASE FuseWanted(r)
    BY <2>6, <1>2
       DEF FuseWanted, BeginSweep, Fail, LimitsInPlace, WaitedRan, Waited, LimitsGuarded,
           LimitGuarded, Past, BeforeLimits, BeforeStaging, BeforeRelays, BeforeMounts
  <2>7. CASE Mount(r)
    BY <2>7, <1>2
       DEF Mount, Of, Fail, LimitsInPlace, WaitedRan, Waited, LimitsGuarded, LimitGuarded,
           Past, BeforeLimits, BeforeStaging, BeforeRelays, BeforeMounts
  <2>8. CASE MountsMade(r)
    BY <2>8, <1>2
       DEF MountsMade, Hold, LimitsInPlace, WaitedRan, Waited, LimitsGuarded, LimitGuarded,
           Past, BeforeLimits, BeforeStaging, BeforeRelays, BeforeMounts
  <2>9. CASE RelaysWanted(r)
    BY <2>9, <1>2
       DEF RelaysWanted, BeginSweep, Fail, LimitsInPlace, WaitedRan, Waited, LimitsGuarded,
           LimitGuarded, Past, BeforeLimits, BeforeStaging, BeforeRelays, BeforeMounts
  <2>10. CASE ListenDir(r)
    BY <2>10, <1>2
       DEF ListenDir, Fail, LimitsInPlace, WaitedRan, Waited, LimitsGuarded, LimitGuarded, Past,
           BeforeLimits, BeforeStaging, BeforeRelays, BeforeMounts
  <2>11. CASE Bind(r)
    BY <2>11, <1>2
       DEF Bind, Of, Fail, LimitsInPlace, WaitedRan, Waited, LimitsGuarded, LimitGuarded, Past,
           BeforeLimits, BeforeStaging, BeforeRelays, BeforeMounts
  <2>12. CASE RelaysMade(r)
    BY <2>12, <1>2
       DEF RelaysMade, Hold, LimitsInPlace, WaitedRan, Waited, LimitsGuarded, LimitGuarded,
           Past, BeforeLimits, BeforeStaging, BeforeRelays, BeforeMounts
  <2>13. CASE Checks(r)
    BY <2>13, <1>2
       DEF Checks, BeginSweep, Fail, LimitsInPlace, WaitedRan, Waited, LimitsGuarded,
           LimitGuarded, Past, BeforeLimits, BeforeStaging, BeforeRelays, BeforeMounts
  <2>14. CASE Stage(r)
    BY <2>14, <1>2
       DEF Stage, Fail, LimitsInPlace, WaitedRan, Waited, LimitsGuarded, LimitGuarded, Past,
           BeforeLimits, BeforeStaging, BeforeRelays, BeforeMounts
  <2>15. CASE MakeTmp(r)
    BY <2>15, <1>2
       DEF MakeTmp, Fail, LimitsInPlace, WaitedRan, Waited, LimitsGuarded, LimitGuarded, Past,
           BeforeLimits, BeforeStaging, BeforeRelays, BeforeMounts
  <2>16. CASE NoCgroup(r)
    BY <2>16, <1>2
       DEF NoCgroup, ReadyToSpawn, Hold, LimitsInPlace, WaitedRan, Waited, LimitsGuarded,
           LimitGuarded, Past, BeforeLimits, BeforeStaging, BeforeRelays, BeforeMounts
  <2>17. CASE MakeCgroup(r)
    BY <2>17, <1>2
       DEF MakeCgroup, LimitsInPlace, WaitedRan, Waited, LimitsGuarded, LimitGuarded, Past,
           BeforeLimits, BeforeStaging, BeforeRelays, BeforeMounts
  <2>18. CASE WriteLimits(r)
    BY <2>18, <1>2
       DEF WriteLimits, ReadyToSpawn, Hold, LimitsInPlace, WaitedRan, Waited, LimitsGuarded,
           LimitGuarded, Past, BeforeLimits, BeforeStaging, BeforeRelays, BeforeMounts
  <2>19. CASE Spawn(r)
    BY <2>19, <1>2
       DEF Spawn, Fail, LimitsInPlace, WaitedRan, Waited, LimitsGuarded, LimitGuarded, Past,
           BeforeLimits, BeforeStaging, BeforeRelays, BeforeMounts
  <2>20. CASE TargetEnds(r)
    BY <2>20, <1>2
       DEF TargetEnds, LimitsInPlace, WaitedRan, Waited, LimitsGuarded, LimitGuarded, Past,
           BeforeLimits, BeforeStaging, BeforeRelays, BeforeMounts
  <2>21. CASE LastProcessEnds(r)
    BY <2>21, <1>2
       DEF LastProcessEnds, LimitsInPlace, WaitedRan, Waited, LimitsGuarded, LimitGuarded,
           Past, BeforeLimits, BeforeStaging, BeforeRelays, BeforeMounts
  <2>22. CASE DropCgroup(r)
    BY <2>22, <1>2
       DEF DropCgroup, Drops, Dropping, AfterDrop, LimitsInPlace, WaitedRan, Waited,
           LimitsGuarded, LimitGuarded, Past, BeforeLimits, BeforeStaging, BeforeRelays,
           BeforeMounts
  <2>23. CASE DropStaging(r)
    BY <2>23, <1>2
       DEF DropStaging, Drops, Dropping, AfterDrop, LimitsInPlace, WaitedRan, Waited,
           LimitsGuarded, LimitGuarded, Past, BeforeLimits, BeforeStaging, BeforeRelays,
           BeforeMounts
  <2>24. CASE Unmount(r)
    BY <2>24, <1>2
       DEF Unmount, Of, Drops, LimitsInPlace, WaitedRan, Waited, LimitsGuarded, LimitGuarded,
           Past, BeforeLimits, BeforeStaging, BeforeRelays, BeforeMounts
  <2>25. CASE DropFuse(r)
    BY <2>25, <1>2
       DEF DropFuse, Drops, Dropping, AfterDrop, LimitsInPlace, WaitedRan, Waited,
           LimitsGuarded, LimitGuarded, Past, BeforeLimits, BeforeStaging, BeforeRelays,
           BeforeMounts
  <2>26. CASE DropRelay(r)
    BY <2>26, <1>2
       DEF DropRelay, Drops, Dropping, AfterDrop, LimitsInPlace, WaitedRan, Waited,
           LimitsGuarded, LimitGuarded, Past, BeforeLimits, BeforeStaging, BeforeRelays,
           BeforeMounts
  <2>27. CASE PostExit(r)
    BY <2>27, <1>2
       DEF PostExit, LimitsInPlace, WaitedRan, Waited, LimitsGuarded, LimitGuarded, Past,
           BeforeLimits, BeforeStaging, BeforeRelays, BeforeMounts
  <2>28. CASE Kill(r)
    BY <2>28, <1>2
       DEF Kill, Live, LimitsInPlace, WaitedRan, Waited, LimitsGuarded, LimitGuarded, Past,
           BeforeLimits, BeforeStaging, BeforeRelays, BeforeMounts
  <2> QED
    BY <2>1, <2>2, <2>3, <2>4, <2>5, <2>6, <2>7, <2>8, <2>9, <2>10, <2>11,
     <2>12, <2>13, <2>14, <2>15, <2>16, <2>17, <2>18, <2>19, <2>20,
     <2>21, <2>22, <2>23, <2>24, <2>25, <2>26, <2>27, <2>28
     DEF Act, Step
<1> QED BY <1>1, <1>2

CleanInv ==
  /\ SharedInv /\ NextReset /\ WaitedRan
  /\ StagingGuarded /\ MountsGuarded /\ RelaysGuarded /\ LimitsGuarded

\* The invariant of what a run has yet to clear up, initially.
LEMMA CleanInit == Init => CleanInv
<1> SUFFICES ASSUME Init PROVE CleanInv
  OBVIOUS
<1> QED BY SharedInit DEF Init, CleanInv, NextReset, WaitedRan, StagingGuarded,
                          MountsGuarded, RelaysGuarded, LimitsGuarded

\* Every step keeps it.
LEMMA CleanStep == CleanInv /\ [Next]_vars => CleanInv'
<1> SUFFICES ASSUME CleanInv, [Next]_vars PROVE CleanInv'
  OBVIOUS
<1>1. SharedInv' /\ TypeOK /\ TypeOK' /\ LimitsInPlace
  BY SharedStep DEF CleanInv, SharedInv
<1>2. ASSUME NEW r \in Runs, Act(r) PROVE CleanInv'
  BY <1>1, <1>2, NextStep, WaitedStep, StagingGuardedStep, MountsGuardedStep,
     RelaysGuardedStep, LimitsGuardedStep DEF CleanInv
<1>3. CASE UNCHANGED vars
  <2> USE DEF vars, self, swept, loop, ended, host, cgrp, fuse, relay, CleanInv
  <2>1. NextReset' /\ WaitedRan' /\ StagingGuarded'
    BY <1>3 DEF NextReset, WaitedRan, StagingGuarded, Past
  <2>2. MountsGuarded'
    BY <1>3 DEF MountsGuarded, MountGuarded, Past
  <2>3. RelaysGuarded' /\ LimitsGuarded'
    BY <1>3 DEF RelaysGuarded, LimitsGuarded, RelayGuarded, LimitGuarded, Past
  <2> QED BY <1>1, <2>1, <2>2, <2>3
<1> QED BY <1>2, <1>3 DEF Next, Act

\* A run whose target ended leaves nothing behind, whoever runs beside it and
\* whatever is killed, but what the kernel refused (Confined::wait).
THEOREM EndsAreClean == Spec => []RunEndsClean
<1>1. CleanInv => RunEndsClean
  <2> SUFFICES ASSUME CleanInv, NEW r \in Runs, pc[r] \in {"post", "done"}, outcome[r] = "ran"
               PROVE  /\ r \notin staged
                      /\ \A m \in mounts : m[3] = r => <<r, "fuse">> \in kept
                      /\ \A sock \in socks : sock[3] # r
                      /\ <<pid[r], r>> \in limited => <<r, "cgroup">> \in kept
    BY DEF RunEndsClean
  <2>1. Past(r, {"post"})
    BY DEF Past
  <2>2. Past(r, {"downRelay", "post"}) /\ Past(r, {"downFuse", "downRelay", "post"})
        /\ Past(r, {"downStaging", "downFuse", "downRelay", "post"})
    BY DEF Past
  <2>3. r \notin staged
    BY <2>2 DEF CleanInv, StagingGuarded
  <2>4. \A m \in mounts : m[3] = r => <<r, "fuse">> \in kept
    BY <2>2 DEF CleanInv, MountsGuarded, MountGuarded
  <2>5. \A sock \in socks : sock[3] # r
    BY <2>1 DEF CleanInv, RelaysGuarded, RelayGuarded
  <2>6. <<pid[r], r>> \in limited => <<r, "cgroup">> \in kept
    BY <2>2 DEF CleanInv, LimitsGuarded, LimitGuarded
  <2> QED BY <2>3, <2>4, <2>5, <2>6
<1>2. Spec => []CleanInv
  BY CleanInit, CleanStep, PTL DEF Spec
<1> QED BY <1>1, <1>2, PTL

-----------------------------------------------------------------------------
(* What a sweep removes, and what it does not.                             *)

\* The sweeps whose entries are counted, and the labels they lead to.
Sweeping == {"sweepStaging", "stage", "sweepRelay", "listen"}

\* A socket is in the directory named after its run's pid, and a living run
\* whose directory a sweep is about to remove got its pid since the sweep looked.
SocksNamed == \A k \in socks : k[1] = pid[k[3]] /\ pc[k[3]] # "off"

RacedCounted ==
  \A q, s \in Runs : At(q, "sweepRelay") /\ Live(s) /\ pid[s] \in doomed[q] => s \in raced

\* Until a sweep has removed them it holds the entries that are ownerless since it
\* began; the run of such a staging directory is over, and the pid of such a relay
\* directory no run has.
StagingHeld ==
  \A q \in Runs :
    /\ pc[q] \in {"sweepStaging", "stage"} =>
         stale[q] \subseteq Runs /\ \A e \in stale[q] : Ended(e)
    /\ At(q, "sweepStaging") =>
         /\ \A e \in stale[q] : ~Alive(pid[e])
         /\ stale[q] \intersect staged \subseteq sweep[q] \union doomed[q]
    /\ At(q, "stage") => stale[q] \intersect staged = {}

RelaysHeld ==
  \A q \in Runs :
    /\ pc[q] \in {"sweepRelay", "listen"} => \A p \in stale[q] : ~Alive(p)
    /\ At(q, "sweepRelay") => stale[q] \intersect relayDirs \subseteq sweep[q] \union doomed[q]
    /\ At(q, "listen") => stale[q] \intersect relayDirs = {}

SweepInv == SharedInv /\ SocksNamed /\ RacedCounted /\ StagingHeld /\ RelaysHeld

\* A run that is over stays so, and a pid no run has comes back by a start only.
LEMMA AliveStep ==
  ASSUME TypeOK, NEW r \in Runs, Act(r)
  PROVE  /\ \A e \in Runs : Ended(e) => Ended(e)' /\ pid'[e] = pid[e]
         /\ ~Start(r) => \A s \in Runs : (Live(s)' => Live(s)) /\ pid'[s] = pid[s]
         /\ ~Start(r) => \A p : Alive(p)' => Alive(p)
<1>1. \A e \in Runs : Ended(e) => Ended(e)' /\ pid'[e] = pid[e]
  BY OneMoves DEF Ended, Start, At
<1>2. ~Start(r) => \A s \in Runs : (Live(s)' => Live(s)) /\ pid'[s] = pid[s]
  BY OneMoves DEF Live, Ended
<1> QED BY <1>1, <1>2 DEF Alive

\* What the steps outside the two sweeps leave of what is counted.
LEMMA OutsideSweeps ==
  ASSUME TypeOK, NEW r \in Runs, Act(r)
  PROVE  \/ Start(r) \/ SweepLook(r) \/ SweepRemove(r) \/ SweepEnd(r) \/ RelaysWanted(r)
         \/ ListenDir(r) \/ Checks(r) \/ Stage(r)
         \/ /\ relayDirs' \subseteq relayDirs /\ staged' \subseteq staged
            /\ \/ pc'[r] \notin Sweeping
               \/ /\ pc'[r] = pc[r] /\ sweep'[r] = sweep[r]
                  /\ doomed'[r] = doomed[r] /\ stale'[r] = stale[r]
<1> USE DEF TypeOK, Goto, At, self, swept, loop, ended, fuse, relay, cgrp, host, Sweeping
<1> DEFINE Quiet == /\ relayDirs' \subseteq relayDirs /\ staged' \subseteq staged
                    /\ \/ pc'[r] \notin Sweeping
                       \/ /\ pc'[r] = pc[r] /\ sweep'[r] = sweep[r]
                          /\ doomed'[r] = doomed[r] /\ stale'[r] = stale[r]
<1>1. ASSUME PreLaunch(r) PROVE Quiet
  BY <1>1 DEF PreLaunch
<1>2. ASSUME FuseWanted(r) PROVE Quiet
  BY <1>2 DEF FuseWanted, BeginSweep, Fail
<1>3. ASSUME Mount(r) PROVE Quiet
  BY <1>3 DEF Mount, Of, Fail
<1>4. ASSUME MountsMade(r) PROVE Quiet
  BY <1>4 DEF MountsMade, Hold
<1>5. ASSUME Bind(r) PROVE Quiet
  BY <1>5 DEF Bind, Of, Fail
<1>6. ASSUME RelaysMade(r) PROVE Quiet
  BY <1>6 DEF RelaysMade, Hold
<1>7. ASSUME MakeTmp(r) PROVE Quiet
  BY <1>7 DEF MakeTmp, Fail
<1>8. ASSUME NoCgroup(r) PROVE Quiet
  BY <1>8 DEF NoCgroup, ReadyToSpawn, Hold
<1>9. ASSUME MakeCgroup(r) PROVE Quiet
  BY <1>9 DEF MakeCgroup
<1>10. ASSUME WriteLimits(r) PROVE Quiet
  BY <1>10 DEF WriteLimits, ReadyToSpawn, Hold
<1>11. ASSUME Spawn(r) PROVE Quiet
  BY <1>11 DEF Spawn, Fail
<1>12. ASSUME TargetEnds(r) PROVE Quiet
  BY <1>12 DEF TargetEnds
<1>13. ASSUME LastProcessEnds(r) PROVE Quiet
  BY <1>13 DEF LastProcessEnds
<1>14. ASSUME DropCgroup(r) PROVE Quiet
  BY <1>14 DEF DropCgroup, Drops, Dropping, AfterDrop
<1>15. ASSUME DropStaging(r) PROVE Quiet
  BY <1>15 DEF DropStaging, Drops, Dropping, AfterDrop
<1>16. ASSUME Unmount(r) PROVE Quiet
  BY <1>16 DEF Unmount, Of, Drops
<1>17. ASSUME DropFuse(r) PROVE Quiet
  BY <1>17 DEF DropFuse, Drops, Dropping, AfterDrop
<1>18. ASSUME DropRelay(r) PROVE Quiet
  BY <1>18 DEF DropRelay, Drops, Dropping, AfterDrop
<1>19. ASSUME PostExit(r) PROVE Quiet
  BY <1>19 DEF PostExit
<1>20. ASSUME Kill(r) PROVE Quiet
  BY <1>20 DEF Kill, Live
<1> QED
  BY <1>1, <1>2, <1>3, <1>4, <1>5, <1>6, <1>7, <1>8, <1>9, <1>10, <1>11, <1>12, <1>13, <1>14, <1>15, <1>16, <1>17, <1>18, <1>19, <1>20
     DEF Act, Step

\* Sockets come with a bind.
LEMMA SocksNamedStep ==
  ASSUME TypeOK, SocksNamed, NEW r \in Runs, Act(r)
  PROVE  SocksNamed'
<1>1. \A k \in socks : pc'[k[3]] # "off" /\ pid'[k[3]] = pid[k[3]]
  <2> SUFFICES ASSUME NEW k \in socks PROVE pc'[k[3]] # "off" /\ pid'[k[3]] = pid[k[3]]
    OBVIOUS
  <2>1. k[3] \in Runs /\ pc[k[3]] # "off"
    BY DEF TypeOK, SocksNamed
  <2>2. CASE k[3] = r
    BY <2>1, <2>2, OneMoves DEF Start, At
  <2>3. CASE k[3] # r
    BY <2>1, <2>3, OneMoves
  <2> QED BY <2>2, <2>3
<1>2. CASE Bind(r)
  <2>1. socks' \subseteq socks \union {Of(r, next[r])} /\ pid' = pid /\ pc[r] = "bind"
    BY <1>2 DEF Bind, At, self
  <2>2. pc'[r] # "off"
    BY <2>1, OneMoves
  <2> QED BY <1>1, <2>1, <2>2 DEF SocksNamed, Of
<1>3. CASE ~Bind(r)
  <2>1. socks' \subseteq socks
    BY <1>3 DEF Act, Step, host, relay, Start, PreLaunch, SweepLook, SweepRemove, SweepEnd,
       FuseWanted, Mount, MountsMade, RelaysWanted, ListenDir, RelaysMade, Checks, Stage,
       MakeTmp, NoCgroup, MakeCgroup, WriteLimits, Spawn, TargetEnds, LastProcessEnds,
       DropCgroup, DropStaging, Unmount, DropFuse, DropRelay, PostExit, Kill
  <2> QED BY <1>1, <2>1 DEF SocksNamed
<1> QED BY <1>2, <1>3

\* The directory a sweep dooms is of no living run, until one starts under its pid.
LEMMA RacedCountedStep ==
  ASSUME TypeOK, TypeOK', DoomedInSweep, RacedCounted, NEW r \in Runs, Act(r)
  PROVE  RacedCounted'
<1>1. CASE Start(r)
  <2>1. /\ pc[r] = "off" /\ pc' = [pc EXCEPT ![r] = "hooks"] /\ doomed' = doomed
        /\ pid' \in [Runs -> Pids]
        /\ \A q \in Runs : At(q, "sweepRelay") /\ pid'[r] \in doomed[q] => r \in raced'
        /\ raced \subseteq raced'
    BY <1>1 DEF Start, At, Goto, TypeOK
  <2>2. \A s \in Runs \ {r} : pid'[s] = pid[s] /\ (Live(s)' => Live(s))
    BY OneMoves DEF Live
  <2>3. \A q \in Runs : At(q, "sweepRelay")' => At(q, "sweepRelay")
    BY <2>1 DEF At, TypeOK
  <2> QED BY <2>1, <2>2, <2>3 DEF RacedCounted
<1>2. CASE SweepLook(r)
  <2>1. PICK entry \in sweep[r] :
          doomed' = [doomed EXCEPT ![r] = IF Alive(Owner(r, entry)) THEN {} ELSE {entry}]
    BY <1>2 DEF SweepLook
  <2>2. pc' = pc /\ pid' = pid /\ raced' = raced
    BY <1>2 DEF SweepLook, self
  <2>3. ASSUME NEW q \in Runs, NEW s \in Runs, At(q, "sweepRelay"), Live(s), pid[s] \in doomed'[q]
        PROVE  s \in raced
    <3>1. CASE q = r
      <4>1. Owner(r, entry) = entry
        BY <2>3, <3>1 DEF Owner, At
      <4>2. pid[s] = entry /\ ~Alive(entry)
        BY <2>1, <2>3, <3>1, <4>1 DEF TypeOK
      <4> QED BY <2>3, <4>2 DEF Alive
    <3>2. CASE q # r
      BY <2>1, <2>3, <3>2 DEF RacedCounted, TypeOK
    <3> QED BY <3>1, <3>2
  <2> QED BY <2>2, <2>3 DEF RacedCounted, At, Live
<1>3. CASE ~Start(r) /\ ~SweepLook(r)
  <2>1. /\ raced' = raced
        /\ \A q \in Runs : At(q, "sweepRelay")' =>
             At(q, "sweepRelay") \/ (q = r /\ pc[r] = "relay")
        /\ \A q \in Runs : doomed'[q] \subseteq doomed[q]
    <3> USE DEF TypeOK, Goto, At, self, swept, loop, ended, fuse, relay, cgrp, host
    <3> DEFINE Same == /\ raced' = raced
                       /\ \A q \in Runs : At(q, "sweepRelay")' =>
                            At(q, "sweepRelay") \/ (q = r /\ pc[r] = "relay")
                       /\ \A q \in Runs : doomed'[q] \subseteq doomed[q]
    <3>1. ASSUME PreLaunch(r) PROVE Same
      BY <3>1 DEF PreLaunch
    <3>2. ASSUME FuseWanted(r) PROVE Same
      BY <3>2 DEF FuseWanted, BeginSweep, Fail
    <3>3. ASSUME Mount(r) PROVE Same
      BY <3>3 DEF Mount, Of, Fail
    <3>4. ASSUME MountsMade(r) PROVE Same
      BY <3>4 DEF MountsMade, Hold
    <3>5. ASSUME Bind(r) PROVE Same
      BY <3>5 DEF Bind, Of, Fail
    <3>6. ASSUME RelaysMade(r) PROVE Same
      BY <3>6 DEF RelaysMade, Hold
    <3>7. ASSUME MakeTmp(r) PROVE Same
      BY <3>7 DEF MakeTmp, Fail
    <3>8. ASSUME NoCgroup(r) PROVE Same
      BY <3>8 DEF NoCgroup, ReadyToSpawn, Hold
    <3>9. ASSUME MakeCgroup(r) PROVE Same
      BY <3>9 DEF MakeCgroup
    <3>10. ASSUME WriteLimits(r) PROVE Same
      BY <3>10 DEF WriteLimits, ReadyToSpawn, Hold
    <3>11. ASSUME Spawn(r) PROVE Same
      BY <3>11 DEF Spawn, Fail
    <3>12. ASSUME TargetEnds(r) PROVE Same
      BY <3>12 DEF TargetEnds
    <3>13. ASSUME LastProcessEnds(r) PROVE Same
      BY <3>13 DEF LastProcessEnds
    <3>14. ASSUME DropCgroup(r) PROVE Same
      BY <3>14 DEF DropCgroup, Drops, Dropping, AfterDrop
    <3>15. ASSUME DropStaging(r) PROVE Same
      BY <3>15 DEF DropStaging, Drops, Dropping, AfterDrop
    <3>16. ASSUME Unmount(r) PROVE Same
      BY <3>16 DEF Unmount, Of, Drops
    <3>17. ASSUME DropFuse(r) PROVE Same
      BY <3>17 DEF DropFuse, Drops, Dropping, AfterDrop
    <3>18. ASSUME DropRelay(r) PROVE Same
      BY <3>18 DEF DropRelay, Drops, Dropping, AfterDrop
    <3>19. ASSUME PostExit(r) PROVE Same
      BY <3>19 DEF PostExit
    <3>20. ASSUME Kill(r) PROVE Same
      BY <3>20 DEF Kill, Live
    <3>21. ASSUME SweepRemove(r) PROVE Same
      BY <3>21 DEF SweepRemove
    <3>22. ASSUME SweepEnd(r) PROVE Same
      BY <3>22 DEF SweepEnd
    <3>23. ASSUME RelaysWanted(r) PROVE Same
      BY <3>23 DEF RelaysWanted, BeginSweep, Fail
    <3>24. ASSUME ListenDir(r) PROVE Same
      BY <3>24 DEF ListenDir, Fail
    <3>25. ASSUME Checks(r) PROVE Same
      BY <3>25 DEF Checks, BeginSweep, Fail
    <3>26. ASSUME Stage(r) PROVE Same
      BY <3>26 DEF Stage, Fail
    <3> QED
      BY <1>3, <3>1, <3>2, <3>3, <3>4, <3>5, <3>6, <3>7, <3>8, <3>9, <3>10, <3>11, <3>12, <3>13, <3>14, <3>15, <3>16, <3>17, <3>18, <3>19, <3>20, <3>21, <3>22, <3>23, <3>24, <3>25, <3>26
         DEF Act, Step
  <2>2. \A s \in Runs : (Live(s)' => Live(s)) /\ pid'[s] = pid[s]
    BY <1>3, AliveStep
  <2>3. pc[r] = "relay" => doomed[r] = {}
    BY DEF DoomedInSweep
  <2> QED BY <2>1, <2>2, <2>3 DEF RacedCounted
<1> QED BY <1>1, <1>2, <1>3

\* A sweep of staging directories passes over none that is ownerless since it began.
LEMMA StagingHeldStep ==
  ASSUME TypeOK, TypeOK', DoomedInSweep, StagingSwept, StagingHeld, NEW r \in Runs, Act(r)
  PROVE  StagingHeld'
<1> USE DEF TypeOK, Goto, At, self, swept, loop, ended, fuse, relay, cgrp, host
<1>A. /\ \A e \in Runs : Ended(e) => Ended(e)' /\ pid'[e] = pid[e]
      /\ ~Start(r) => \A p : Alive(p)' => Alive(p)
  BY AliveStep
<1>B. \A q \in Runs \ {r} :
        /\ pc'[q] = pc[q] /\ sweep'[q] = sweep[q] /\ doomed'[q] = doomed[q]
        /\ ~Start(r) => stale'[q] = stale[q]
  BY OneMoves
<1> DEFINE Kept(q) ==
      /\ pc'[q] \in {"sweepStaging", "stage"} =>
           stale'[q] \subseteq Runs /\ \A e \in stale'[q] : Ended(e)'
      /\ pc'[q] = "sweepStaging" =>
           /\ \A e \in stale'[q] : ~Alive(pid[e])'
           /\ stale'[q] \intersect staged' \subseteq sweep'[q] \union doomed'[q]
      /\ pc'[q] = "stage" => stale'[q] \intersect staged' = {}
<1>C. ASSUME NEW q \in Runs, ~Start(r), pc'[q] = pc[q], stale'[q] = stale[q],
             pc[q] = "sweepStaging" =>
               stale[q] \intersect staged' \subseteq sweep'[q] \union doomed'[q],
             pc[q] = "stage" => stale[q] \intersect staged' = {}
      PROVE  Kept(q)
  <2>1. pc[q] = "sweepStaging" => \A e \in stale[q] : ~Alive(pid[e]) /\ e \in Runs /\ Ended(e)
    BY DEF StagingHeld
  <2>2. pc[q] = "sweepStaging" => \A e \in stale[q] : ~Alive(pid[e])'
    BY <1>A, <1>C, <2>1 DEF Alive
  <2>3. pc[q] \in {"sweepStaging", "stage"} => stale[q] \subseteq Runs /\ \A e \in stale[q] : Ended(e)'
    BY <1>A DEF StagingHeld
  <2> QED BY <1>C, <2>2, <2>3
<1>D. ASSUME NEW q \in Runs \ {r}, ~Start(r), pc[q] \in {"sweepStaging", "stage"} =>
               stale[q] \intersect staged' \subseteq staged
      PROVE  Kept(q)
  <2>1. pc[q] = "sweepStaging" =>
          stale[q] \intersect staged' \subseteq sweep'[q] \union doomed'[q]
    BY <1>B, <1>D DEF StagingHeld
  <2>2. pc[q] = "stage" => stale[q] \intersect staged' = {}
    BY <1>D DEF StagingHeld
  <2> HIDE DEF Kept
  <2> QED BY <1>B, <1>C, <1>D, <2>1, <2>2
<1>E. SUFFICES \A q \in Runs : Kept(q)
  BY DEF StagingHeld
<1>1. CASE Start(r)
  <2>1. /\ pc' = [pc EXCEPT ![r] = "hooks"] /\ pc[r] = "off" /\ UNCHANGED <<sweep, doomed, staged>>
        /\ \A q \in Runs : stale'[q] = {e \in stale[q] : Owner(q, e) # pid'[r]}
    BY <1>1 DEF Start
  <2>2. ASSUME NEW q \in Runs, pc[q] = "sweepStaging", NEW e \in stale'[q]
        PROVE  ~Alive(pid[e])'
    <3>1. e \in Runs /\ Ended(e) /\ ~Alive(pid[e]) /\ pid[e] # pid'[r]
      BY <2>1, <2>2 DEF StagingHeld, Owner
    <3>2. pid'[e] = pid[e]
      BY <1>A, <3>1
    <3>3. ASSUME NEW s \in Runs, Live(s)', pid'[s] = pid[e] PROVE FALSE
      <4>1. s # r
        BY <3>1, <3>3
      <4>2. Live(s) /\ pid[s] = pid[e]
        BY <3>3, <4>1, OneMoves DEF Live
      <4> QED BY <3>1, <4>2 DEF Alive
    <3> QED BY <3>2, <3>3 DEF Alive
  <2> QED BY <1>A, <2>1, <2>2 DEF StagingHeld
<1>2. CASE SweepLook(r)
  <2>1. PICK entry \in sweep[r] :
          /\ sweep' = [sweep EXCEPT ![r] = @ \ {entry}]
          /\ doomed' = [doomed EXCEPT ![r] = IF Alive(Owner(r, entry)) THEN {} ELSE {entry}]
    BY <1>2 DEF SweepLook
  <2>2. pc' = pc /\ staged' = staged /\ stale' = stale /\ ~At(r, "stage") /\ doomed[r] = {} /\ ~Start(r)
    BY <1>2 DEF SweepLook, Start
  <2>3. ASSUME At(r, "sweepStaging"), entry \in stale[r] PROVE ~Alive(Owner(r, entry))
    BY <2>3 DEF StagingHeld, Owner
  <2>4. pc[r] = "sweepStaging" => stale[r] \intersect staged \subseteq sweep'[r] \union doomed'[r]
    BY <2>1, <2>2, <2>3 DEF StagingHeld
  <2>5. Kept(r)
    BY <1>C, <2>2, <2>4
  <2>6. \A q \in Runs \ {r} : Kept(q)
    BY <1>D, <2>2
  <2> HIDE DEF Kept
  <2> QED BY <2>5, <2>6
<1>3. CASE SweepRemove(r)
  <2>1. /\ pc' = pc /\ stale' = stale /\ sweep' = sweep /\ staged' \subseteq staged /\ ~Start(r)
        /\ At(r, "sweepStaging") => staged' = staged \ doomed[r]
        /\ doomed' = [doomed EXCEPT ![r] = {}] /\ doomed[r] # {}
    BY <1>3 DEF SweepRemove, Start, DoomedInSweep
  <2>2. Kept(r)
    <3>1. pc[r] = "sweepStaging" => stale[r] \intersect staged' \subseteq sweep'[r] \union doomed'[r]
      BY <2>1 DEF StagingHeld
    <3>2. pc[r] # "stage"
      BY <2>1 DEF DoomedInSweep
    <3> HIDE DEF Kept
    <3> QED BY <1>C, <2>1, <3>1, <3>2
  <2>3. \A q \in Runs \ {r} : Kept(q)
    BY <1>D, <2>1
  <2> HIDE DEF Kept
  <2> QED BY <2>2, <2>3
<1>4. CASE SweepEnd(r)
  <2>1. /\ staged' = staged /\ stale' = stale /\ sweep[r] = {} /\ doomed[r] = {} /\ ~Start(r)
        /\ (pc'[r] = "stage" /\ pc[r] = "sweepStaging") \/ pc'[r] \in {"mount", "listen"}
    BY <1>4 DEF SweepEnd, Start
  <2>2. Kept(r)
    BY <1>A, <2>1 DEF StagingHeld
  <2>3. \A q \in Runs \ {r} : Kept(q)
    BY <1>D, <2>1
  <2> HIDE DEF Kept
  <2> QED BY <2>2, <2>3
<1>5. CASE RelaysWanted(r) \/ ListenDir(r)
  <2>1. staged' = staged /\ pc'[r] \notin {"sweepStaging", "stage"} /\ ~Start(r)
    BY <1>5 DEF RelaysWanted, ListenDir, BeginSweep, Fail, Start
  <2>2. Kept(r)
    BY <2>1
  <2>3. \A q \in Runs \ {r} : Kept(q)
    BY <1>D, <2>1
  <2> HIDE DEF Kept
  <2> QED BY <2>2, <2>3
<1>6. CASE Checks(r)
  <2>1. /\ staged' = staged /\ pid' = pid /\ pc[r] = "checks" /\ pc'[r] # "stage" /\ ~Start(r)
        /\ pc'[r] = "sweepStaging" =>
             sweep'[r] = staged /\ stale'[r] = {s \in staged : ~Alive(pid[s])}
    BY <1>6 DEF Checks, BeginSweep, Fail, Start
  <2>2. \A e \in staged : e \in Runs /\ (~Alive(pid[e]) => Ended(e)')
    BY <1>A DEF StagingSwept, Alive, Live, Ended
  <2>3. \A e \in staged : ~Alive(pid[e]) => ~Alive(pid[e])'
    BY <1>A, <2>1 DEF Alive
  <2>4. Kept(r)
    BY <2>1, <2>2, <2>3
  <2>5. \A q \in Runs \ {r} : Kept(q)
    BY <1>D, <2>1
  <2> HIDE DEF Kept
  <2> QED BY <2>4, <2>5
<1>7. CASE Stage(r)
  <2>1. staged' \subseteq staged \union {r} /\ pc[r] = "stage" /\ pc'[r] \notin {"sweepStaging", "stage"}
        /\ ~Start(r)
    BY <1>7 DEF Stage, Fail, Start
  <2>2. \A q \in Runs : pc[q] \in {"sweepStaging", "stage"} => r \notin stale[q]
    BY <2>1 DEF StagingHeld, Ended
  <2>3. Kept(r)
    BY <2>1
  <2>4. \A q \in Runs \ {r} : Kept(q)
    BY <1>D, <2>1, <2>2
  <2> HIDE DEF Kept
  <2> QED BY <2>3, <2>4
<1>8. CASE /\ staged' \subseteq staged /\ ~Start(r)
           /\ \/ pc'[r] \notin Sweeping
              \/ /\ pc'[r] = pc[r] /\ sweep'[r] = sweep[r]
                 /\ doomed'[r] = doomed[r] /\ stale'[r] = stale[r]
  <2>1. Kept(r)
    <3>1. CASE pc'[r] \notin Sweeping
      BY <3>1 DEF Sweeping
    <3>2. CASE /\ pc'[r] = pc[r] /\ sweep'[r] = sweep[r]
               /\ doomed'[r] = doomed[r] /\ stale'[r] = stale[r]
      <4>1. pc[r] = "sweepStaging" =>
              stale[r] \intersect staged' \subseteq sweep'[r] \union doomed'[r]
        BY <1>8, <3>2 DEF StagingHeld
      <4>2. pc[r] = "stage" => stale[r] \intersect staged' = {}
        BY <1>8 DEF StagingHeld
      <4> HIDE DEF Kept
      <4> QED BY <1>8, <1>C, <3>2, <4>1, <4>2
    <3> QED BY <1>8, <3>1, <3>2
  <2>2. \A q \in Runs \ {r} : Kept(q)
    BY <1>D, <1>8
  <2> HIDE DEF Kept
  <2> QED BY <2>1, <2>2
<1> HIDE DEF Kept
<1> QED BY <1>1, <1>2, <1>3, <1>4, <1>5, <1>6, <1>7, <1>8, OutsideSweeps

\* A sweep of relay directories passes over none that is ownerless since it began.
LEMMA RelaysHeldStep ==
  ASSUME TypeOK, TypeOK', DoomedInSweep, RelaysHeld, NEW r \in Runs, Act(r)
  PROVE  RelaysHeld'
<1> USE DEF TypeOK, Goto, At, self, swept, loop, ended, fuse, relay, cgrp, host
<1>A. ~Start(r) => \A p : Alive(p)' => Alive(p)
  BY AliveStep
<1>B. \A q \in Runs \ {r} :
        /\ pc'[q] = pc[q] /\ sweep'[q] = sweep[q] /\ doomed'[q] = doomed[q]
        /\ ~Start(r) => stale'[q] = stale[q]
  BY OneMoves
<1> DEFINE Kept(q) ==
      /\ pc'[q] \in {"sweepRelay", "listen"} => \A p \in stale'[q] : ~Alive(p)'
      /\ pc'[q] = "sweepRelay" =>
           stale'[q] \intersect relayDirs' \subseteq sweep'[q] \union doomed'[q]
      /\ pc'[q] = "listen" => stale'[q] \intersect relayDirs' = {}
<1>C. ASSUME NEW q \in Runs, ~Start(r), pc'[q] = pc[q], stale'[q] = stale[q],
             pc[q] = "sweepRelay" =>
               stale[q] \intersect relayDirs' \subseteq sweep'[q] \union doomed'[q],
             pc[q] = "listen" => stale[q] \intersect relayDirs' = {}
      PROVE  Kept(q)
  <2>1. pc[q] \in {"sweepRelay", "listen"} => \A p \in stale[q] : ~Alive(p)'
    BY <1>A, <1>C DEF RelaysHeld
  <2> QED BY <1>C, <2>1
<1>D. ASSUME NEW q \in Runs \ {r}, ~Start(r), pc[q] \in {"sweepRelay", "listen"} =>
               stale[q] \intersect relayDirs' \subseteq relayDirs
      PROVE  Kept(q)
  <2>1. pc[q] = "sweepRelay" =>
          stale[q] \intersect relayDirs' \subseteq sweep'[q] \union doomed'[q]
    BY <1>B, <1>D DEF RelaysHeld
  <2>2. pc[q] = "listen" => stale[q] \intersect relayDirs' = {}
    BY <1>D DEF RelaysHeld
  <2> HIDE DEF Kept
  <2> QED BY <1>B, <1>C, <1>D, <2>1, <2>2
<1>E. SUFFICES \A q \in Runs : Kept(q)
  BY DEF RelaysHeld
<1>1. CASE Start(r)
  <2>1. /\ pc' = [pc EXCEPT ![r] = "hooks"] /\ pc[r] = "off"
        /\ UNCHANGED <<sweep, doomed, relayDirs>>
        /\ \A q \in Runs : stale'[q] = {e \in stale[q] : Owner(q, e) # pid'[r]}
    BY <1>1 DEF Start
  <2>2. ASSUME NEW q \in Runs, pc[q] \in {"sweepRelay", "listen"}, NEW p \in stale'[q]
        PROVE  ~Alive(p)'
    <3>1. ~Alive(p) /\ p # pid'[r]
      BY <2>1, <2>2 DEF RelaysHeld, Owner
    <3>2. ASSUME NEW s \in Runs, Live(s)', pid'[s] = p PROVE FALSE
      <4>1. s # r
        BY <3>1, <3>2
      <4>2. Live(s) /\ pid[s] = p
        BY <3>2, <4>1, OneMoves DEF Live
      <4> QED BY <3>1, <4>2 DEF Alive
    <3> QED BY <3>2 DEF Alive
  <2> QED BY <2>1, <2>2 DEF RelaysHeld
<1>2. CASE SweepLook(r)
  <2>1. PICK entry \in sweep[r] :
          /\ sweep' = [sweep EXCEPT ![r] = @ \ {entry}]
          /\ doomed' = [doomed EXCEPT ![r] = IF Alive(Owner(r, entry)) THEN {} ELSE {entry}]
    BY <1>2 DEF SweepLook
  <2>2. /\ pc' = pc /\ relayDirs' = relayDirs /\ stale' = stale /\ ~At(r, "listen")
        /\ doomed[r] = {} /\ ~Start(r)
    BY <1>2 DEF SweepLook, Start
  <2>3. ASSUME At(r, "sweepRelay"), entry \in stale[r] PROVE ~Alive(Owner(r, entry))
    BY <2>3 DEF RelaysHeld, Owner
  <2>4. pc[r] = "sweepRelay" =>
          stale[r] \intersect relayDirs \subseteq sweep'[r] \union doomed'[r]
    BY <2>1, <2>2, <2>3 DEF RelaysHeld
  <2>5. Kept(r)
    BY <1>C, <2>2, <2>4
  <2>6. \A q \in Runs \ {r} : Kept(q)
    BY <1>D, <2>2
  <2> HIDE DEF Kept
  <2> QED BY <2>5, <2>6
<1>3. CASE SweepRemove(r)
  <2>1. /\ pc' = pc /\ stale' = stale /\ sweep' = sweep /\ relayDirs' \subseteq relayDirs
        /\ ~Start(r)
        /\ At(r, "sweepRelay") => relayDirs' = relayDirs \ doomed[r]
        /\ doomed' = [doomed EXCEPT ![r] = {}] /\ doomed[r] # {}
    BY <1>3 DEF SweepRemove, Start, DoomedInSweep
  <2>2. Kept(r)
    <3>1. pc[r] = "sweepRelay" =>
            stale[r] \intersect relayDirs' \subseteq sweep'[r] \union doomed'[r]
      BY <2>1 DEF RelaysHeld
    <3>2. pc[r] # "listen"
      BY <2>1 DEF DoomedInSweep
    <3> HIDE DEF Kept
    <3> QED BY <1>C, <2>1, <3>1, <3>2
  <2>3. \A q \in Runs \ {r} : Kept(q)
    BY <1>D, <2>1
  <2> HIDE DEF Kept
  <2> QED BY <2>2, <2>3
<1>4. CASE SweepEnd(r)
  <2>1. /\ relayDirs' = relayDirs /\ stale' = stale /\ sweep[r] = {} /\ doomed[r] = {}
        /\ ~Start(r)
        /\ (pc'[r] = "listen" /\ pc[r] = "sweepRelay") \/ pc'[r] \in {"mount", "stage"}
    BY <1>4 DEF SweepEnd, Start
  <2>2. Kept(r)
    BY <1>A, <2>1 DEF RelaysHeld
  <2>3. \A q \in Runs \ {r} : Kept(q)
    BY <1>D, <2>1
  <2> HIDE DEF Kept
  <2> QED BY <2>2, <2>3
<1>5. CASE Checks(r) \/ Stage(r)
  <2>1. relayDirs' = relayDirs /\ pc'[r] \notin {"sweepRelay", "listen"} /\ ~Start(r)
    BY <1>5 DEF Checks, Stage, BeginSweep, Fail, Start
  <2>2. Kept(r)
    BY <2>1
  <2>3. \A q \in Runs \ {r} : Kept(q)
    BY <1>D, <2>1
  <2> HIDE DEF Kept
  <2> QED BY <2>2, <2>3
<1>6. CASE RelaysWanted(r)
  <2>1. /\ relayDirs' = relayDirs /\ pc[r] = "relay" /\ pc'[r] # "listen" /\ ~Start(r)
        /\ pc'[r] = "sweepRelay" =>
             sweep'[r] = relayDirs /\ stale'[r] = {p \in relayDirs : ~Alive(p)}
    BY <1>6 DEF RelaysWanted, BeginSweep, Fail, Start
  <2>2. Kept(r)
    BY <1>A, <2>1
  <2>3. \A q \in Runs \ {r} : Kept(q)
    BY <1>D, <2>1
  <2> HIDE DEF Kept
  <2> QED BY <2>2, <2>3
<1>7. CASE ListenDir(r)
  <2>1. /\ relayDirs' \subseteq relayDirs \union {pid[r]} /\ pc[r] = "listen" /\ ~Start(r)
        /\ pc'[r] \notin {"sweepRelay", "listen"}
    BY <1>7 DEF ListenDir, Fail, Start
  <2>2. \A q \in Runs : pc[q] \in {"sweepRelay", "listen"} => pid[r] \notin stale[q]
    BY <2>1 DEF RelaysHeld, Alive, Live
  <2>3. Kept(r)
    BY <2>1
  <2>4. \A q \in Runs \ {r} : Kept(q)
    BY <1>D, <2>1, <2>2
  <2> HIDE DEF Kept
  <2> QED BY <2>3, <2>4
<1>8. CASE /\ relayDirs' \subseteq relayDirs /\ ~Start(r)
           /\ \/ pc'[r] \notin Sweeping
              \/ /\ pc'[r] = pc[r] /\ sweep'[r] = sweep[r]
                 /\ doomed'[r] = doomed[r] /\ stale'[r] = stale[r]
  <2>1. Kept(r)
    <3>1. CASE pc'[r] \notin Sweeping
      BY <3>1 DEF Sweeping
    <3>2. CASE /\ pc'[r] = pc[r] /\ sweep'[r] = sweep[r]
               /\ doomed'[r] = doomed[r] /\ stale'[r] = stale[r]
      <4>1. pc[r] = "sweepRelay" =>
              stale[r] \intersect relayDirs' \subseteq sweep'[r] \union doomed'[r]
        BY <1>8, <3>2 DEF RelaysHeld
      <4>2. pc[r] = "listen" => stale[r] \intersect relayDirs' = {}
        BY <1>8 DEF RelaysHeld
      <4> HIDE DEF Kept
      <4> QED BY <1>8, <1>C, <3>2, <4>1, <4>2
    <3> QED BY <1>8, <3>1, <3>2
  <2>2. \A q \in Runs \ {r} : Kept(q)
    BY <1>D, <1>8
  <2> HIDE DEF Kept
  <2> QED BY <2>1, <2>2
<1> HIDE DEF Kept
<1> QED BY <1>1, <1>2, <1>3, <1>4, <1>5, <1>6, <1>7, <1>8, OutsideSweeps

\* The invariant of the sweeps, initially.
LEMMA SweepInit == Init => SweepInv
<1> SUFFICES ASSUME Init PROVE SweepInv
  OBVIOUS
<1> QED BY SharedInit DEF Init, SweepInv, SocksNamed, RacedCounted, StagingHeld, RelaysHeld, At

\* Every step keeps it.
LEMMA SweepStep == SweepInv /\ [Next]_vars => SweepInv'
<1> SUFFICES ASSUME SweepInv, [Next]_vars PROVE SweepInv'
  OBVIOUS
<1>1. SharedInv' /\ TypeOK /\ TypeOK' /\ DoomedInSweep /\ StagingSwept
  BY SharedStep DEF SweepInv, SharedInv
<1>2. ASSUME NEW r \in Runs, Act(r) PROVE SweepInv'
  BY <1>1, <1>2, SocksNamedStep, RacedCountedStep, StagingHeldStep, RelaysHeldStep DEF SweepInv
<1>3. CASE UNCHANGED vars
  <2> USE DEF vars, self, swept, loop, ended, host, cgrp, fuse, relay, At, Live, Ended, Alive
  <2>1. SocksNamed' /\ RacedCounted'
    BY <1>3 DEF SocksNamed, RacedCounted, SweepInv
  <2>2. StagingHeld'
    BY <1>3 DEF StagingHeld, SweepInv
  <2>3. RelaysHeld'
    BY <1>3 DEF RelaysHeld, SweepInv
  <2> QED BY <1>1, <2>1, <2>2, <2>3 DEF SweepInv
<1> QED BY <1>2, <1>3 DEF Next, Act

\* So it holds always.
LEMMA SweepHolds == Spec => []SweepInv
  BY SweepInit, SweepStep, PTL DEF Spec

\* A sweep that ends has removed every staging and relay directory that has been
\* ownerless since it began, however often pids are given out again (sweep_staging,
\* relay::sweep_stale).
THEOREM StaleIsAlwaysSwept == Spec => []StaleIsSwept
<1>1. SweepInv => StaleIsSwept
  BY DEF SweepInv, StagingHeld, RelaysHeld, StaleIsSwept, At
<1> QED BY <1>1, SweepHolds, PTL

\* No step takes a socket from a run that lives and is not tearing down.
LEMMA StepLeavesRelays ==
  ASSUME SweepInv, NEW r \in Runs, Act(r), NEW s \in Runs \ raced, Live(s), ~TearingDown(s),
         NEW k \in socks, k[3] = s
  PROVE  k \in socks'
<1> USE DEF SweepInv, SharedInv, TypeOK, Goto, At, self, swept, loop, ended, fuse, relay, cgrp, host,
            TearingDown
<1>1. CASE Start(r)
  BY <1>1 DEF Start
<1>2. CASE PreLaunch(r)
  BY <1>2 DEF PreLaunch
<1>3. CASE SweepLook(r)
  BY <1>3 DEF SweepLook
<1>4. CASE SweepRemove(r)
  <2>1. CASE At(r, "sweepRelay") /\ k[1] \in doomed[r]
    BY <2>1 DEF SocksNamed, RacedCounted
  <2>2. CASE ~(At(r, "sweepRelay") /\ k[1] \in doomed[r])
    BY <1>4, <2>2 DEF SweepRemove
  <2> QED BY <2>1, <2>2
<1>5. CASE SweepEnd(r)
  BY <1>5 DEF SweepEnd
<1>6. CASE FuseWanted(r)
  BY <1>6 DEF FuseWanted, BeginSweep, Fail
<1>7. CASE Mount(r)
  BY <1>7 DEF Mount, Of, Fail
<1>8. CASE MountsMade(r)
  BY <1>8 DEF MountsMade, Hold
<1>9. CASE RelaysWanted(r)
  BY <1>9 DEF RelaysWanted, BeginSweep, Fail
<1>10. CASE ListenDir(r)
  BY <1>10 DEF ListenDir, Fail
<1>11. CASE Bind(r)
  BY <1>11 DEF Bind, Of, Fail
<1>12. CASE RelaysMade(r)
  BY <1>12 DEF RelaysMade, Hold
<1>13. CASE Checks(r)
  BY <1>13 DEF Checks, BeginSweep, Fail
<1>14. CASE Stage(r)
  BY <1>14 DEF Stage, Fail
<1>15. CASE MakeTmp(r)
  BY <1>15 DEF MakeTmp, Fail
<1>16. CASE NoCgroup(r)
  BY <1>16 DEF NoCgroup, ReadyToSpawn, Hold
<1>17. CASE MakeCgroup(r)
  BY <1>17 DEF MakeCgroup
<1>18. CASE WriteLimits(r)
  BY <1>18 DEF WriteLimits, ReadyToSpawn, Hold
<1>19. CASE Spawn(r)
  BY <1>19 DEF Spawn, Fail
<1>20. CASE TargetEnds(r)
  BY <1>20 DEF TargetEnds
<1>21. CASE LastProcessEnds(r)
  BY <1>21 DEF LastProcessEnds
<1>22. CASE DropCgroup(r)
  BY <1>22 DEF DropCgroup, Drops, Dropping, AfterDrop
<1>23. CASE DropStaging(r)
  BY <1>23 DEF DropStaging, Drops, Dropping, AfterDrop
<1>24. CASE Unmount(r)
  BY <1>24 DEF Unmount, Of, Drops
<1>25. CASE DropFuse(r)
  BY <1>25 DEF DropFuse, Drops, Dropping, AfterDrop
<1>26. CASE DropRelay(r)
  <2>1. /\ pc[r] \in {"downRelay", "dropRelay"}
        /\ \A other \in socks : other[1] # pid[r] => other \in socks'
    BY <1>26 DEF DropRelay, Dropping
  <2>2. s # r /\ pid[s] # pid[r]
    BY <2>1 DEF PidsOwn, Live
  <2> QED BY <2>1, <2>2 DEF SocksNamed
<1>27. CASE PostExit(r)
  BY <1>27 DEF PostExit
<1>28. CASE Kill(r)
  BY <1>28 DEF Kill, Live
<1> QED
  BY <1>1, <1>2, <1>3, <1>4, <1>5, <1>6, <1>7, <1>8, <1>9, <1>10, <1>11,
     <1>12, <1>13, <1>14, <1>15, <1>16, <1>17, <1>18, <1>19, <1>20,
     <1>21, <1>22, <1>23, <1>24, <1>25, <1>26, <1>27, <1>28
     DEF Act, Step

\* No run takes away the sockets another's target connects to, but for one that got
\* its pid while a sweep was about to remove that pid's leftovers (relay::sweep_stale).
THEOREM RelaysAreLeftAlone == Spec => RelaysLeftAlone
<1> DEFINE Kept == \A r \in Runs \ raced : Live(r) /\ ~TearingDown(r) =>
                     \A sock \in socks : sock[3] = r => sock \in socks'
<1>1. SweepInv /\ [Next]_vars => [Kept]_vars
  <2> SUFFICES ASSUME SweepInv, [Next]_vars, ~UNCHANGED vars PROVE Kept
    OBVIOUS
  <2> QED BY StepLeavesRelays DEF Next, Act
<1> QED BY <1>1, SweepHolds, PTL DEF Spec, RelaysLeftAlone
=============================================================================
