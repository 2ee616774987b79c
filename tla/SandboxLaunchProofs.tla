-------------------------- MODULE SandboxLaunchProofs --------------------------
(***************************************************************************)
(* What holds of a run's processes for any orphans, any exit codes and any *)
(* number of processes killed: their types, what the target can reach, how *)
(* often the hooks run and what the command's status is.                   *)
(***************************************************************************)
EXTENDS SandboxLaunch, TLAPS

-----------------------------------------------------------------------------
(* The parts of the inductive invariant.                                   *)

HookLabels  == {"spawn", "spawning", "wait", "post"}
RunLabels   == {"lock", "hooks"} \cup HookLabels
OuterLabels == {"none", "gone", "start", "fork", "ready", "pasta", "let go", "reap", "abandon"}
                 \cup RunLabels
InnerLabels == {"none", "gone", "enter", "announce", "release"} \cup RunLabels
ChildLabels == {"none", "gone", "setup", "reap", "arm", "confine", "exec", "execed"}
InitLabels  == {"none", "gone", "root", "arm", "confine", "exec", "supervise"}

\* Which labels a process has.
Roles ==
  /\ pc["outer"] \in OuterLabels /\ pc["inner"] \in InnerLabels
  /\ pc["child"] \in ChildLabels /\ pc["init"] \in InitLabels
  /\ pc["target"] \in {"none", "running", "gone"}

\* The inner process goes on with the run only when the outer one has had the
\* namespace configured and let it go; otherwise there is no inner process.
Handshake ==
  /\ pc["inner"] \in {"none", "enter", "announce"} => "ready" \notin pipe
  /\ pc["outer"] \in {"pasta", "let go"} => "ready" \in pipe
  /\ pc["outer"] = "let go" \/ "release" \in pipe => net = "routed"
  /\ net = "routed" => "ready" \in pipe
  /\ pc["outer"] \in {"ready", "pasta", "let go", "abandon"} => "release" \notin pipe
  /\ pc["inner"] \in RunLabels => "release" \in pipe
  /\ pc["outer"] \in {"none", "start", "fork"} \cup RunLabels => pc["inner"] = "none"

\* A process that is still to run the hooks finds them not run; one that has
\* run them is the only one.
HooksCounted ==
  /\ \A p \in Runners :
       /\ pc[p] \in {"start", "fork", "enter", "announce", "release", "lock", "hooks"} => pre = 0
       /\ pc[p] \in HookLabels => pre = 1 /\ post = 0
       /\ pc[p] = "spawn" => pc["child"] = "none"
  /\ pre <= 1 /\ post <= pre
  /\ pre = 0 => pc["child"] = "none"
  /\ pc["child"] = "none" => pc["init"] = "none" /\ pc["target"] = "none"

\* Behind a broker nobody runs the hooks, let alone the target, before the
\* lockdown is in the namespace; and where a policy gives Landlock up, nothing
\* is spawned that would rest on it.
Bounded ==
  /\ rule # Traffic => net = "routed"
  /\ Proxied => pc["outer"] \notin {"hooks"} \cup HookLabels
  /\ Proxied /\ pc["inner"] \in {"hooks"} \cup HookLabels => rule = Lockdown
  /\ Proxied /\ pc["child"] # "none" => net = "routed" /\ rule = Lockdown
  /\ opts.self_fuse /\ pc["child"] # "none" => Isolating
  /\ Unkept => /\ pc["outer"] \in {"start", "gone"}
               /\ pc["inner"] = "none" /\ pc["child"] = "none"

\* The target runs as the child or under the init, and ends with it.
Boxed ==
  /\ Isolating => pc["child"] \in {"none", "setup", "reap", "gone"}
  /\ ~Isolating => pc["init"] = "none" /\ pc["child"] # "reap"
  /\ ~Isolating => (pc["target"] = "running" <=> pc["child"] = "execed")
  /\ ~Isolating /\ pc["child"] \in {"none", "setup", "arm", "confine", "exec"} => pc["target"] = "none"
  /\ pc["child"] = "setup" => pc["init"] = "none"
  /\ pc["child"] = "reap" => pc["init"] # "none"
  /\ Isolating /\ pc["init"] \in {"none", "root", "arm", "confine", "exec"} => pc["target"] = "none"
  /\ Gone("init") => pc["target"] # "running"
  /\ failed => /\ pc["child"] \in {"reap", "gone"} /\ pc["init"] \in {"none", "gone"}
               /\ pc["target"] = "none"
  /\ killed = {} /\ Gone("child") => /\ pc["init"] \in {"none", "gone"}
                                     /\ pc["target"] # "running"

\* A status is handed up from one process to the next.
Handed ==
  killed = {} =>
    /\ Gone("init") /\ pc["target"] # "none" =>
         /\ code["init"] = code["target"]
         /\ \A o \in Orphans : orphan[o] \in {"none", "reaped"}
    /\ Gone("child") /\ pc["target"] # "none" =>
         code["child"] = code["target"] /\ (Isolating => Gone("init"))
    /\ \A p \in Runners :
         /\ pc[p] = "post" => Gone("child")
         /\ Gone(p) /\ pc["child"] # "none" /\ (p = "inner" \/ pc["inner"] = "none") =>
              Gone("child") /\ (pc["target"] = "none" \/ code[p] = code["child"])
    /\ Gone("outer") => pc["inner"] \in {"none", "gone"}
    /\ Gone("outer") /\ Gone("inner") /\ pc["target"] # "none" => code["outer"] = code["inner"]
    /\ pc["child"] # "none" /\ pc["inner"] # "none" => "release" \in pipe
    /\ post > 0 => Gone("child")

-----------------------------------------------------------------------------
(* Types.                                                                  *)

Labels == {"none", "gone", "start", "fork", "ready", "pasta", "let go", "reap", "abandon",
           "enter", "announce", "release", "lock", "hooks", "spawn", "spawning", "wait", "post",
           "setup", "root", "arm", "confine", "exec", "execed", "supervise", "running"}

\* Where the processes are, and everything else.
CtlType ==
  /\ pc \in [Procs -> Labels] /\ code \in [Procs -> 0..255]
  /\ writers \in [{"ready", "release"} -> SUBSET Runners]
RestType ==
  /\ opts \in Options /\ pipe \subseteq {"ready", "release"}
  /\ net \in {"none", "made", "routed"} /\ rule \in {Traffic, NoLoopback, Lockdown}
  /\ pre \in Nat /\ post \in Nat /\ failed \in BOOLEAN /\ armed \in BOOLEAN
  /\ relay \in {"off", "waiting", "serving", "failed"}
  /\ orphan \in [Orphans -> {"none", "alive", "zombie", "reaped"}]
  /\ killed \subseteq Procs

\* The types of the state in two parts: where the processes are, and the rest.
LEMMA Types == TypeOK <=> CtlType /\ RestType
  BY DEF TypeOK, CtlType, RestType, Labels

\* Every way of choosing an exit code yields one.
LEMMA CodesType ==
  /\ Codes \cup {Signaled} \subseteq 0..255 /\ Refusal \in 0..255 /\ Signaled \in 0..255
  /\ 0 \in 0..255
  BY CodesAssumption DEF Signaled, Refusal

\* The processes a run has.
LEMMA Members ==
  /\ "outer" \in Procs /\ "inner" \in Procs /\ "child" \in Procs /\ "init" \in Procs
  /\ "target" \in Procs /\ \A p \in Runners : p \in Procs
  /\ \A p \in Sandboxed : p \in Procs
  BY DEF Procs, Runners, Sandboxed

\* A step from one label to the next keeps the types of the labels.
LEMMA GoType ==
  ASSUME CtlType, NEW p \in Procs, NEW l \in Labels, Go(p, l)
  PROVE  pc' \in [Procs -> Labels] /\ code' \in [Procs -> 0..255]
  BY DEF CtlType, Go, Labels

\* A process that ends leaves a code and ends its hold on the pipes.
LEMMA ExitsType ==
  ASSUME CtlType, NEW p \in Procs, NEW c \in 0..255, Exits(p, c)
  PROVE  /\ pc' \in [Procs -> Labels] /\ code' \in [Procs -> 0..255]
         /\ writers' \in [{"ready", "release"} -> SUBSET Runners]
<1>1. pc' \in [Procs -> Labels] /\ code' \in [Procs -> 0..255]
  BY DEF CtlType, Exits, Labels
<1>2. writers' \in [{"ready", "release"} -> SUBSET Runners]
  BY DEF CtlType, Exits
<1> QED BY <1>1, <1>2

\* Closing a pipe leaves processes as writers.
LEMMA ClosesType ==
  ASSUME CtlType, NEW p, NEW k, Closes(p, k)
  PROVE  writers' \in [{"ready", "release"} -> SUBSET Runners]
  BY DEF CtlType, Closes

\* The init that ends takes what is in its pid namespace with it.
LEMMA InitExitsType ==
  ASSUME CtlType, NEW c \in 0..255, InitExits(c)
  PROVE  /\ pc' \in [Procs -> Labels] /\ code' \in [Procs -> 0..255]
         /\ orphan' \in [Orphans -> {"none", "alive", "zombie", "reaped"}]
<1>1. pc' \in [Procs -> Labels]
  BY DEF CtlType, InitExits, Labels
<1>2. code' \in [Procs -> 0..255]
  BY CodesType DEF CtlType, InitExits
<1>3. orphan' \in [Orphans -> {"none", "alive", "zombie", "reaped"}]
  BY DEF TypeOK, InitExits
<1> QED BY <1>1, <1>2, <1>3

\* A run starts well typed.
LEMMA TypeInit == Init => TypeOK
<1> SUFFICES ASSUME Init PROVE TypeOK
  OBVIOUS
<1>1. pc \in [Procs -> Labels]
  BY DEF Init, Labels
<1> QED BY <1>1, CodesType DEF Init, TypeOK, Labels

\* No step leaves the types.
LEMMA TypeStep ==
  ASSUME TypeOK, [Next]_vars
  PROVE  TypeOK'
<1> USE DEF At, Gone, bailey, box
<1> CtlType /\ RestType
  BY Types
<1> SUFFICES CtlType' /\ RestType'
  BY DEF TypeOK, CtlType, RestType, Labels
<1>1. CASE Decide
  <2>1. CtlType'
    BY <1>1, ExitsType, GoType, CodesType, Members DEF Decide, CtlType, Labels
  <2>2. RestType'
    BY <1>1 DEF Decide, RestType
  <2> QED BY <2>1, <2>2
<1>2. CASE Fork
  <2>1. CtlType'
    <3>1. CASE Exits("outer", Refusal)
      BY <3>1, ExitsType, CodesType, Members DEF CtlType
    <3>2. CASE ~Exits("outer", Refusal)
      <4>1. pc' \in [Procs -> Labels] /\ code' \in [Procs -> 0..255]
        BY <1>2, <3>2, Members DEF Fork, CtlType, Labels
      <4>2. writers' \in [{"ready", "release"} -> SUBSET Runners]
        BY <1>2, <3>2 DEF Fork, Runners
      <4> QED BY <4>1, <4>2 DEF CtlType
    <3> QED BY <3>1, <3>2
  <2>2. RestType'
    BY <1>2 DEF Fork, RestType
  <2> QED BY <2>1, <2>2
<1>3. CASE AwaitReady
  <2>1. CtlType'
    BY <1>3, GoType, CodesType, Members DEF AwaitReady, CtlType, Labels
  <2>2. RestType'
    BY <1>3 DEF AwaitReady, RestType
  <2> QED BY <2>1, <2>2
<1>4. CASE Configure
  <2>1. CtlType'
    BY <1>4, GoType, ClosesType, CodesType, Members DEF Configure, CtlType, Labels
  <2>2. RestType'
    BY <1>4 DEF Configure, RestType
  <2> QED BY <2>1, <2>2
<1>5. CASE LetGo
  <2>1. CtlType'
    BY <1>5, GoType, ExitsType, ClosesType, CodesType, Members DEF LetGo, CtlType, Labels
  <2>2. RestType'
    BY <1>5 DEF LetGo, RestType
  <2> QED BY <2>1, <2>2
<1>6. CASE Reap
  <2>1. CtlType'
    BY <1>6, ExitsType, CodesType, Members DEF Reap, CtlType, Labels
  <2>2. RestType'
    BY <1>6 DEF Reap, RestType
  <2> QED BY <2>1, <2>2
<1>7. CASE Abandon
  <2>1. CtlType'
    BY <1>7, ExitsType, CodesType, Members DEF Abandon, CtlType, Labels
  <2>2. RestType'
    BY <1>7 DEF Abandon, RestType
  <2> QED BY <2>1, <2>2
<1>8. CASE Enter
  <2>1. CtlType'
    BY <1>8, GoType, ClosesType, ExitsType, CodesType, Members DEF Enter, CtlType, Labels
  <2>2. RestType'
    BY <1>8 DEF Enter, RestType
  <2> QED BY <2>1, <2>2
<1>9. CASE Announce
  <2>1. CtlType'
    BY <1>9, GoType, ClosesType, ExitsType, CodesType, Members DEF Announce, CtlType, Labels
  <2>2. RestType'
    BY <1>9 DEF Announce, RestType
  <2> QED BY <2>1, <2>2
<1>10. CASE AwaitRelease
  <2>1. CtlType'
    BY <1>10, GoType, ExitsType, CodesType, Members DEF AwaitRelease, CtlType, Labels
  <2>2. RestType'
    BY <1>10 DEF AwaitRelease, RestType
  <2> QED BY <2>1, <2>2
<1>11. ASSUME NEW p \in Runners, Lock(p) PROVE CtlType' /\ RestType'
  <2>1. CtlType'
    BY <1>11, GoType, ExitsType, CodesType, Members DEF Lock, CtlType, Labels
  <2>2. RestType'
    BY <1>11 DEF Lock, RestType
  <2> QED BY <2>1, <2>2
<1>12. ASSUME NEW p \in Runners, PreLaunch(p) PROVE CtlType' /\ RestType'
  <2>1. CtlType'
    BY <1>12, GoType, ExitsType, CodesType, Members DEF PreLaunch, CtlType, Labels
  <2>2. RestType'
    BY <1>12 DEF PreLaunch, RestType
  <2> QED BY <2>1, <2>2
<1>13. ASSUME NEW p \in Runners, Spawn(p) PROVE CtlType' /\ RestType'
  <2>1. CtlType'
    BY <1>13, ExitsType, CodesType, Members DEF Spawn, CtlType, Labels
  <2>2. RestType'
    BY <1>13 DEF Spawn, RestType
  <2> QED BY <2>1, <2>2
<1>14. ASSUME NEW p \in Runners, SpawnReturns(p) PROVE CtlType' /\ RestType'
  <2>1. CtlType'
    BY <1>14, GoType, ExitsType, CodesType, Members DEF SpawnReturns, ExecOrGone, CtlType, Labels
  <2>2. RestType'
    BY <1>14 DEF SpawnReturns, ExecOrGone, RestType
  <2> QED BY <2>1, <2>2
<1>15. ASSUME NEW p \in Runners, Wait(p) PROVE CtlType' /\ RestType'
  <2>1. CtlType'
    BY <1>15, GoType, CodesType, Members DEF Wait, CtlType, Labels
  <2>2. RestType'
    BY <1>15 DEF Wait, RestType
  <2> QED BY <2>1, <2>2
<1>16. ASSUME NEW p \in Runners, PostExit(p) PROVE CtlType' /\ RestType'
  <2>1. CtlType'
    BY <1>16, ExitsType, CodesType, Members DEF PostExit, CtlType, Labels
  <2>2. RestType'
    BY <1>16 DEF PostExit, RestType
  <2> QED BY <2>1, <2>2
<1>17. CASE Setup
  <2>1. CtlType'
    BY <1>17, CodesType, Members DEF Setup, CtlType, Labels
  <2>2. RestType'
    BY <1>17 DEF Setup, RestType
  <2> QED BY <2>1, <2>2
<1>18. CASE ChildReaps
  <2>1. CtlType'
    BY <1>18, ExitsType, CodesType, Members DEF ChildReaps, CtlType, Labels
  <2>2. RestType'
    BY <1>18 DEF ChildReaps, RestType
  <2> QED BY <2>1, <2>2
<1>19. CASE Root
  <2>1. CtlType'
    BY <1>19, GoType, CodesType, Members DEF Root, CtlType, Labels
  <2>2. RestType'
    BY <1>19 DEF Root, RestType
  <2> QED BY <2>1, <2>2
<1>20. CASE Supervise
  <2>1. CtlType'
    BY <1>20, InitExitsType, CodesType, Members DEF Supervise, CtlType, Labels
  <2>2. RestType'
    BY <1>20 DEF Supervise, InitExits, RestType
  <2> QED BY <2>1, <2>2
<1>21. ASSUME NEW q \in Sandboxed, Fails(q) PROVE CtlType' /\ RestType'
  <2>1. CtlType'
    BY <1>21, ExitsType, CodesType, Members DEF Fails, CtlType, Labels
  <2>2. RestType'
    BY <1>21 DEF Fails, RestType
  <2> QED BY <2>1, <2>2
<1>22. ASSUME NEW q \in Sandboxed, Arm(q) PROVE CtlType' /\ RestType'
  <2>1. CtlType'
    BY <1>22, GoType, CodesType, Members DEF Arm, CtlType, Labels
  <2>2. RestType'
    BY <1>22 DEF Arm, RestType, Options
  <2> QED BY <2>1, <2>2
<1>23. ASSUME NEW q \in Sandboxed, Confine(q) PROVE CtlType' /\ RestType'
  <2>1. CtlType'
    BY <1>23, GoType, CodesType, Members DEF Confine, CtlType, Labels
  <2>2. RestType'
    BY <1>23 DEF Confine, RestType
  <2> QED BY <2>1, <2>2
<1>24. ASSUME NEW q \in Sandboxed, Exec(q) PROVE CtlType' /\ RestType'
  <2>1. CtlType'
    BY <1>24, CodesType, Members DEF Exec, CtlType, Labels
  <2>2. RestType'
    BY <1>24 DEF Exec, RestType
  <2> QED BY <2>1, <2>2
<1>25. CASE Handover
  <2>1. CtlType'
    BY <1>25, CodesType, Members DEF Handover, CtlType, Labels
  <2>2. RestType'
    BY <1>25 DEF Handover, RestType
  <2> QED BY <2>1, <2>2
<1>26. ASSUME NEW c \in Codes \cup {Signaled}, TargetEnds(c) PROVE CtlType' /\ RestType'
  <2>1. CtlType'
    BY <1>26, CodesType, Members DEF TargetEnds, CtlType, Labels
  <2>2. RestType'
    BY <1>26 DEF TargetEnds, RestType
  <2> QED BY <2>1, <2>2
<1>27. ASSUME NEW o \in Orphans, TargetAbandons(o) PROVE CtlType' /\ RestType'
  <2>1. CtlType'
    BY <1>27, CodesType, Members DEF TargetAbandons, CtlType, Labels
  <2>2. RestType'
    BY <1>27 DEF TargetAbandons, RestType
  <2> QED BY <2>1, <2>2
<1>28. ASSUME NEW o \in Orphans, OrphanEnds(o) PROVE CtlType' /\ RestType'
  <2>1. CtlType'
    BY <1>28, CodesType, Members DEF OrphanEnds, CtlType, Labels
  <2>2. RestType'
    BY <1>28 DEF OrphanEnds, RestType
  <2> QED BY <2>1, <2>2
<1>29. ASSUME NEW p \in Procs, Kill(p) PROVE CtlType' /\ RestType'
  <2>1. CtlType'
    BY <1>29, ExitsType, InitExitsType, CodesType, Members DEF Kill, Alive, CtlType, Labels
  <2>2. RestType'
    BY <1>29, Members DEF Kill, Alive, InitExits, RestType
  <2> QED BY <2>1, <2>2
<1>30. CASE UNCHANGED vars
  BY <1>30 DEF vars, bailey, box, CtlType, RestType
<1> QED
  BY <1>1, <1>2, <1>3, <1>4, <1>5, <1>6, <1>7, <1>8, <1>9, <1>10, <1>11, <1>12, <1>13, <1>14,
       <1>15, <1>16, <1>17, <1>18, <1>19, <1>20, <1>21, <1>22, <1>23, <1>24, <1>25, <1>26,
       <1>27, <1>28, <1>29, <1>30 DEF Next, Outer, Inner, Runner, Child, InitProcess,
       Confining, World, Sandboxed

\* The types of the state hold in every state (cmd_run and what it forks).
THEOREM TypeCorrect == Spec => []TypeOK
  BY TypeInit, TypeStep, PTL DEF Spec

-----------------------------------------------------------------------------
(* The steps keep the invariant.                                           *)

\* Labels and codes are functions of the processes.
LEMMA Shape ==
  ASSUME TypeOK
  PROVE  /\ pc = [p \in Procs |-> pc[p]] /\ code = [p \in Procs |-> code[p]]
         /\ DOMAIN pc = Procs /\ DOMAIN code = Procs
  BY DEF TypeOK

\* Each process keeps to its own labels.
LEMMA RolesStep ==
  ASSUME TypeOK, Roles, [Next]_vars
  PROVE  Roles'
<1> USE DEF At, Gone, bailey, box, Procs, Runners, Sandboxed
<1>1. CASE Decide
  BY <1>1, Shape DEF Decide, Exits, Go, Roles, OuterLabels, InnerLabels, RunLabels, HookLabels,
       ChildLabels, InitLabels
<1>2. CASE Fork
  BY <1>2, Shape DEF Fork, Exits, Roles, OuterLabels, InnerLabels, RunLabels, HookLabels,
       ChildLabels, InitLabels
<1>3. CASE AwaitReady
  BY <1>3, Shape DEF AwaitReady, Go, Roles, OuterLabels, InnerLabels, RunLabels, HookLabels,
       ChildLabels, InitLabels
<1>4. CASE Configure
  BY <1>4, Shape DEF Configure, Go, Closes, Roles, OuterLabels, InnerLabels, RunLabels,
       HookLabels, ChildLabels, InitLabels
<1>5. CASE LetGo
  BY <1>5, Shape DEF LetGo, Go, Exits, Closes, Roles, OuterLabels, InnerLabels, RunLabels,
       HookLabels, ChildLabels, InitLabels
<1>6. CASE Reap
  BY <1>6, Shape DEF Reap, Exits, Roles, OuterLabels, InnerLabels, RunLabels, HookLabels,
       ChildLabels, InitLabels
<1>7. CASE Abandon
  BY <1>7, Shape DEF Abandon, Exits, Roles, OuterLabels, InnerLabels, RunLabels, HookLabels,
       ChildLabels, InitLabels
<1>8. CASE Enter
  BY <1>8, Shape DEF Enter, Go, Closes, Exits, Roles, OuterLabels, InnerLabels, RunLabels,
       HookLabels, ChildLabels, InitLabels
<1>9. CASE Announce
  BY <1>9, Shape DEF Announce, Go, Closes, Exits, Roles, OuterLabels, InnerLabels, RunLabels,
       HookLabels, ChildLabels, InitLabels
<1>10. CASE AwaitRelease
  BY <1>10, Shape DEF AwaitRelease, Go, Exits, Roles, OuterLabels, InnerLabels, RunLabels,
       HookLabels, ChildLabels, InitLabels
<1>11. ASSUME NEW p \in Runners, Lock(p) PROVE Roles'
  BY <1>11, Shape DEF Lock, Go, Exits, Roles, OuterLabels, InnerLabels, RunLabels, HookLabels,
       ChildLabels, InitLabels
<1>12. ASSUME NEW p \in Runners, PreLaunch(p) PROVE Roles'
  BY <1>12, Shape DEF PreLaunch, Go, Exits, Roles, OuterLabels, InnerLabels, RunLabels,
       HookLabels, ChildLabels, InitLabels
<1>13. ASSUME NEW p \in Runners, Spawn(p) PROVE Roles'
  BY <1>13, Shape DEF Spawn, Exits, Roles, OuterLabels, InnerLabels, RunLabels, HookLabels,
       ChildLabels, InitLabels
<1>14. ASSUME NEW p \in Runners, SpawnReturns(p) PROVE Roles'
  BY <1>14, Shape DEF SpawnReturns, Go, Exits, ExecOrGone, Roles, OuterLabels, InnerLabels,
       RunLabels, HookLabels, ChildLabels, InitLabels
<1>15. ASSUME NEW p \in Runners, Wait(p) PROVE Roles'
  BY <1>15, Shape DEF Wait, Go, Roles, OuterLabels, InnerLabels, RunLabels, HookLabels,
       ChildLabels, InitLabels
<1>16. ASSUME NEW p \in Runners, PostExit(p) PROVE Roles'
  BY <1>16, Shape DEF PostExit, Exits, Roles, OuterLabels, InnerLabels, RunLabels, HookLabels,
       ChildLabels, InitLabels
<1>17. CASE Setup
  BY <1>17, Shape DEF Setup, Roles, OuterLabels, InnerLabels, RunLabels, HookLabels,
       ChildLabels, InitLabels
<1>18. CASE ChildReaps
  BY <1>18, Shape DEF ChildReaps, Exits, Roles, OuterLabels, InnerLabels, RunLabels,
       HookLabels, ChildLabels, InitLabels
<1>19. CASE Root
  BY <1>19, Shape DEF Root, Go, Roles, OuterLabels, InnerLabels, RunLabels, HookLabels,
       ChildLabels, InitLabels
<1>20. CASE Supervise
  BY <1>20, Shape DEF Supervise, InitExits, Roles, OuterLabels, InnerLabels, RunLabels,
       HookLabels, ChildLabels, InitLabels
<1>21. ASSUME NEW q \in Sandboxed, Fails(q) PROVE Roles'
  <2>1. pc' = [pc EXCEPT ![q] = "gone"] /\ q \in {"child", "init"}
    BY <1>21 DEF Fails, Exits
  <2> QED BY <2>1, Shape DEF Roles, ChildLabels, InitLabels
<1>22. ASSUME NEW q \in Sandboxed, Arm(q) PROVE Roles'
  BY <1>22, Shape DEF Arm, Go, Roles, OuterLabels, InnerLabels, RunLabels, HookLabels,
       ChildLabels, InitLabels
<1>23. ASSUME NEW q \in Sandboxed, Confine(q) PROVE Roles'
  BY <1>23, Shape DEF Confine, Go, Roles, OuterLabels, InnerLabels, RunLabels, HookLabels,
       ChildLabels, InitLabels
<1>24. ASSUME NEW q \in Sandboxed, Exec(q) PROVE Roles'
  BY <1>24, Shape DEF Exec, Roles, OuterLabels, InnerLabels, RunLabels, HookLabels,
       ChildLabels, InitLabels
<1>25. CASE Handover
  <2>1. pc' = pc
    BY <1>25 DEF Handover
  <2> QED BY <2>1 DEF Roles
<1>26. ASSUME NEW c \in Codes \cup {Signaled}, TargetEnds(c) PROVE Roles'
  BY <1>26, Shape DEF TargetEnds, Roles, OuterLabels, InnerLabels, RunLabels, HookLabels,
       ChildLabels, InitLabels
<1>27. ASSUME NEW o \in Orphans, TargetAbandons(o) PROVE Roles'
  <2>1. pc' = pc
    BY <1>27 DEF TargetAbandons
  <2> QED BY <2>1 DEF Roles
<1>28. ASSUME NEW o \in Orphans, OrphanEnds(o) PROVE Roles'
  <2>1. pc' = pc
    BY <1>28 DEF OrphanEnds
  <2> QED BY <2>1 DEF Roles
<1>29. ASSUME NEW p \in Procs, Kill(p) PROVE Roles'
  <2>1. \/ p # "target" /\ pc' = [pc EXCEPT ![p] = "gone"]
        \/ pc' = [pc EXCEPT !["init"] = "gone", !["target"] = IF @ = "none" THEN @ ELSE "gone"]
    BY <1>29 DEF Kill, Exits, InitExits, Alive, Roles
  <2>2. \A x \in Procs : pc'[x] = pc[x] \/ pc'[x] = "gone"
    BY <2>1, Shape
  <2> QED BY <2>2 DEF Roles, OuterLabels, InnerLabels, ChildLabels, InitLabels
<1>30. CASE UNCHANGED vars
  BY <1>30 DEF vars, Roles
<1> QED
  BY <1>1, <1>2, <1>3, <1>4, <1>5, <1>6, <1>7, <1>8, <1>9, <1>10, <1>11, <1>12, <1>13, <1>14,
       <1>15, <1>16, <1>17, <1>18, <1>19, <1>20, <1>21, <1>22, <1>23, <1>24, <1>25, <1>26,
       <1>27, <1>28, <1>29, <1>30 DEF Next, Outer, Inner, Runner, Child, InitProcess,
       Confining, World, Sandboxed

\* Each byte is sent once, and what it stands for is done before it is.
LEMMA HandshakeStep ==
  ASSUME TypeOK, Roles, Handshake, [Next]_vars
  PROVE  Handshake'
<1> USE DEF At, Gone, bailey, box, Procs, Runners, Sandboxed
<1>1. CASE Decide
  BY <1>1, Shape DEF Decide, Exits, Go, Handshake, RunLabels, HookLabels
<1>2. CASE Fork
  BY <1>2, Shape DEF Fork, Exits, Handshake, RunLabels, HookLabels
<1>3. CASE AwaitReady
  BY <1>3, Shape DEF AwaitReady, Go, Handshake, RunLabels, HookLabels
<1>4. CASE Configure
  BY <1>4, Shape DEF Configure, Go, Closes, Handshake, RunLabels, HookLabels
<1>5. CASE LetGo
  BY <1>5, Shape DEF LetGo, Go, Exits, Closes, Handshake, RunLabels, HookLabels
<1>6. CASE Reap
  BY <1>6, Shape DEF Reap, Exits, Handshake, RunLabels, HookLabels
<1>7. CASE Abandon
  BY <1>7, Shape DEF Abandon, Exits, Handshake, RunLabels, HookLabels
<1>8. CASE Enter
  BY <1>8, Shape DEF Enter, Go, Closes, Exits, Handshake, RunLabels, HookLabels
<1>9. CASE Announce
  BY <1>9, Shape DEF Announce, Go, Closes, Exits, Handshake, RunLabels, HookLabels
<1>10. CASE AwaitRelease
  BY <1>10, Shape DEF AwaitRelease, Go, Exits, Handshake, RunLabels, HookLabels
<1>11. ASSUME NEW p \in Runners, Lock(p) PROVE Handshake'
  BY <1>11, Shape DEF Lock, Go, Exits, Handshake, RunLabels, HookLabels
<1>12. ASSUME NEW p \in Runners, PreLaunch(p) PROVE Handshake'
  BY <1>12, Shape DEF PreLaunch, Go, Exits, Handshake, RunLabels, HookLabels
<1>13. ASSUME NEW p \in Runners, Spawn(p) PROVE Handshake'
  BY <1>13, Shape DEF Spawn, Exits, Handshake, RunLabels, HookLabels
<1>14. ASSUME NEW p \in Runners, SpawnReturns(p) PROVE Handshake'
  BY <1>14, Shape DEF SpawnReturns, Go, Exits, ExecOrGone, Handshake, RunLabels, HookLabels
<1>15. ASSUME NEW p \in Runners, Wait(p) PROVE Handshake'
  BY <1>15, Shape DEF Wait, Go, Handshake, RunLabels, HookLabels
<1>16. ASSUME NEW p \in Runners, PostExit(p) PROVE Handshake'
  BY <1>16, Shape DEF PostExit, Exits, Handshake, RunLabels, HookLabels
<1>17. CASE Setup
  BY <1>17, Shape DEF Setup, Handshake, RunLabels, HookLabels
<1>18. CASE ChildReaps
  BY <1>18, Shape DEF ChildReaps, Exits, Handshake, RunLabels, HookLabels
<1>19. CASE Root
  BY <1>19, Shape DEF Root, Go, Handshake, RunLabels, HookLabels
<1>20. CASE Supervise
  BY <1>20, Shape DEF Supervise, InitExits, Handshake, RunLabels, HookLabels
<1>21. ASSUME NEW q \in Sandboxed, Fails(q) PROVE Handshake'
  BY <1>21, Shape DEF Fails, Exits, Handshake, RunLabels, HookLabels
<1>22. ASSUME NEW q \in Sandboxed, Arm(q) PROVE Handshake'
  BY <1>22, Shape DEF Arm, Go, Handshake, RunLabels, HookLabels
<1>23. ASSUME NEW q \in Sandboxed, Confine(q) PROVE Handshake'
  BY <1>23, Shape DEF Confine, Go, Handshake, RunLabels, HookLabels
<1>24. ASSUME NEW q \in Sandboxed, Exec(q) PROVE Handshake'
  BY <1>24, Shape DEF Exec, Handshake, RunLabels, HookLabels
<1>25. CASE Handover
  <2>1. pc' = pc /\ pipe' = pipe /\ net' = net
    BY <1>25 DEF Handover
  <2> QED BY <2>1 DEF Handshake
<1>26. ASSUME NEW c \in Codes \cup {Signaled}, TargetEnds(c) PROVE Handshake'
  BY <1>26, Shape DEF TargetEnds, Handshake, RunLabels, HookLabels
<1>27. ASSUME NEW o \in Orphans, TargetAbandons(o) PROVE Handshake'
  <2>1. pc' = pc /\ pipe' = pipe /\ net' = net
    BY <1>27 DEF TargetAbandons
  <2> QED BY <2>1 DEF Handshake
<1>28. ASSUME NEW o \in Orphans, OrphanEnds(o) PROVE Handshake'
  <2>1. pc' = pc /\ pipe' = pipe /\ net' = net
    BY <1>28 DEF OrphanEnds
  <2> QED BY <2>1 DEF Handshake
<1>29. ASSUME NEW p \in Procs, Kill(p) PROVE Handshake'
  BY <1>29, Shape DEF Kill, Exits, InitExits, Alive, Handshake, RunLabels, HookLabels
<1>30. CASE UNCHANGED vars
  BY <1>30 DEF vars, bailey, box, Handshake
<1> QED
  BY <1>1, <1>2, <1>3, <1>4, <1>5, <1>6, <1>7, <1>8, <1>9, <1>10, <1>11, <1>12, <1>13, <1>14,
       <1>15, <1>16, <1>17, <1>18, <1>19, <1>20, <1>21, <1>22, <1>23, <1>24, <1>25, <1>26,
       <1>27, <1>28, <1>29, <1>30 DEF Next, Outer, Inner, Runner, Child, InitProcess,
       Confining, World, Sandboxed

\* While one process goes on with the run, the other is not on its way there.
LEMMA OneRunner ==
  ASSUME Roles, Handshake, NEW p \in Runners, pc[p] \in RunLabels, NEW x \in Runners, x # p
  PROVE  pc[x] \in {"none", "gone", "ready", "pasta", "let go", "reap", "abandon"}
<1>1. CASE p = "outer"
  <2>1. x = "inner" /\ pc["inner"] = "none"
    BY <1>1 DEF Runners, Handshake
  <2> QED BY <2>1
<1>2. CASE p = "inner"
  <2>1. x = "outer" /\ pc["inner"] # "none"
    BY <1>2 DEF Runners, RunLabels, HookLabels
  <2>2. pc["outer"] \in OuterLabels \ ({"none", "start", "fork"} \cup RunLabels)
    BY <2>1 DEF Handshake, Roles
  <2> QED BY <2>1, <2>2 DEF OuterLabels
<1> QED BY <1>1, <1>2 DEF Runners

\* The process that runs the hooks is the only one that goes on with the run.
LEMMA HooksStep ==
  ASSUME TypeOK, Roles, Handshake, HooksCounted, [Next]_vars
  PROVE  HooksCounted'
<1> USE DEF At, Gone, bailey, box, Procs, Runners, Sandboxed
<1>1. CASE Decide
  BY <1>1, Shape DEF Decide, Exits, Go, Handshake, HooksCounted, RunLabels, HookLabels
<1>2. CASE Fork
  BY <1>2, Shape DEF Fork, Exits, Handshake, HooksCounted, RunLabels, HookLabels
<1>3. CASE AwaitReady
  BY <1>3, Shape DEF AwaitReady, Go, Handshake, HooksCounted, RunLabels, HookLabels
<1>4. CASE Configure
  BY <1>4, Shape DEF Configure, Go, Closes, Handshake, HooksCounted, RunLabels, HookLabels
<1>5. CASE LetGo
  BY <1>5, Shape DEF LetGo, Go, Exits, Closes, Handshake, HooksCounted, RunLabels, HookLabels
<1>6. CASE Reap
  BY <1>6, Shape DEF Reap, Exits, Handshake, HooksCounted, RunLabels, HookLabels
<1>7. CASE Abandon
  BY <1>7, Shape DEF Abandon, Exits, Handshake, HooksCounted, RunLabels, HookLabels
<1>8. CASE Enter
  BY <1>8, Shape DEF Enter, Go, Closes, Exits, Handshake, HooksCounted, RunLabels, HookLabels
<1>9. CASE Announce
  BY <1>9, Shape DEF Announce, Go, Closes, Exits, Handshake, HooksCounted, RunLabels,
       HookLabels
<1>10. CASE AwaitRelease
  BY <1>10, Shape DEF AwaitRelease, Go, Exits, Handshake, HooksCounted, RunLabels, HookLabels
<1>11. ASSUME NEW p \in Runners, Lock(p) PROVE HooksCounted'
  BY <1>11, Shape DEF Lock, Go, Exits, Handshake, HooksCounted, RunLabels, HookLabels
<1>12. ASSUME NEW p \in Runners, PreLaunch(p) PROVE HooksCounted'
  <2>1. /\ pc[p] = "hooks" /\ p # "child" /\ p \in Procs
        /\ pc'[p] \in {"spawn", "gone"} /\ pre' = pre + 1 /\ post' = post
        /\ \A x \in Procs : x # p => pc'[x] = pc[x]
        /\ p # "init" /\ p # "target" /\ pre \in Nat /\ post \in Nat
    BY <1>12, Shape, Types DEF RestType, PreLaunch, Go, Exits
  <2>2. \A x \in Runners : x # p => x \in Procs /\ x # "child" /\
          pc[x] \in {"none", "gone", "ready", "pasta", "let go", "reap", "abandon"}
    BY <2>1, OneRunner, Members DEF RunLabels, HookLabels
  <2>3. \A x \in Runners :
          /\ pc'[x] \notin {"start", "fork", "enter", "announce", "release", "lock", "hooks"}
          /\ pc'[x] \in HookLabels => x = p
    BY <2>1, <2>2 DEF HookLabels
  <2>4. pre' = 1 /\ post' = 0
    BY <2>1 DEF HooksCounted, HookLabels
  <2>5. \A x \in Runners : pc'[x] = "spawn" => pc'["child"] = "none"
    BY <2>1, <2>2 DEF HooksCounted
  <2>6. pc'["child"] = "none" => pc'["init"] = "none" /\ pc'["target"] = "none"
    BY <2>1 DEF HooksCounted
  <2>7. pre' <= 1 /\ post' <= pre' /\ pre' # 0
    BY <2>4
  <2>8. \A x \in Runners : pc'[x] \in HookLabels => pre' = 1 /\ post' = 0
    BY <2>1, <2>3, <2>4 DEF HookLabels
  <2> QED BY <2>3, <2>5, <2>6, <2>7, <2>8 DEF HooksCounted
<1>13. ASSUME NEW p \in Runners, Spawn(p) PROVE HooksCounted'
  <2>1. /\ pc[p] = "spawn" /\ p # "child" /\ p \in Procs
        /\ pc'[p] \in {"spawning", "gone"} /\ pre' = pre /\ post' = post
        /\ \A x \in Procs : x # p /\ x # "child" => pc'[x] = pc[x]
        /\ pc'["child"] \in {pc["child"], "setup"}
        /\ p # "init" /\ p # "target" /\ pre \in Nat /\ post \in Nat
    BY <1>13, Shape, Types DEF RestType, Spawn, Exits
  <2>2. \A x \in Runners : x # p => x \in Procs /\ x # "child" /\
          pc[x] \in {"none", "gone", "ready", "pasta", "let go", "reap", "abandon"}
    BY <2>1, OneRunner, Members DEF RunLabels, HookLabels
  <2>3. \A x \in Runners :
          /\ pc'[x] \notin {"start", "fork", "enter", "announce", "release", "lock", "hooks"}
          /\ pc'[x] \in HookLabels => x = p
    BY <2>1, <2>2 DEF HookLabels
  <2>4. pre' = 1 /\ post' = 0
    BY <2>1 DEF HooksCounted, HookLabels
  <2>5. \A x \in Runners : pc'[x] = "spawn" => pc'["child"] = "none"
    BY <2>1, <2>2 DEF HooksCounted
  <2>6. pc'["child"] = "none" => pc'["init"] = "none" /\ pc'["target"] = "none"
    BY <2>1 DEF HooksCounted
  <2>7. pre' <= 1 /\ post' <= pre' /\ pre' # 0
    BY <2>4
  <2>8. \A x \in Runners : pc'[x] \in HookLabels => pre' = 1 /\ post' = 0
    BY <2>1, <2>3, <2>4 DEF HookLabels
  <2> QED BY <2>3, <2>5, <2>6, <2>7, <2>8 DEF HooksCounted
<1>14. ASSUME NEW p \in Runners, SpawnReturns(p) PROVE HooksCounted'
  <2>1. /\ pc[p] = "spawning" /\ p # "child" /\ p \in Procs
        /\ pc'[p] \in {"wait", "gone"} /\ pre' = pre /\ post' = post
        /\ \A x \in Procs : x # p => pc'[x] = pc[x]
        /\ p # "init" /\ p # "target" /\ pre \in Nat /\ post \in Nat
    BY <1>14, Shape, Types DEF RestType, SpawnReturns, Go, Exits
  <2>2. \A x \in Runners : x # p => x \in Procs /\ x # "child" /\
          pc[x] \in {"none", "gone", "ready", "pasta", "let go", "reap", "abandon"}
    BY <2>1, OneRunner, Members DEF RunLabels, HookLabels
  <2>3. \A x \in Runners :
          /\ pc'[x] \notin {"start", "fork", "enter", "announce", "release", "lock", "hooks"}
          /\ pc'[x] \in HookLabels => x = p
    BY <2>1, <2>2 DEF HookLabels
  <2>4. pre' = 1 /\ post' = 0
    BY <2>1 DEF HooksCounted, HookLabels
  <2>5. \A x \in Runners : pc'[x] = "spawn" => pc'["child"] = "none"
    BY <2>1, <2>2 DEF HooksCounted
  <2>6. pc'["child"] = "none" => pc'["init"] = "none" /\ pc'["target"] = "none"
    BY <2>1 DEF HooksCounted
  <2>7. pre' <= 1 /\ post' <= pre' /\ pre' # 0
    BY <2>4
  <2>8. \A x \in Runners : pc'[x] \in HookLabels => pre' = 1 /\ post' = 0
    BY <2>1, <2>3, <2>4 DEF HookLabels
  <2> QED BY <2>3, <2>5, <2>6, <2>7, <2>8 DEF HooksCounted
<1>15. ASSUME NEW p \in Runners, Wait(p) PROVE HooksCounted'
  BY <1>15, Shape DEF Wait, Go, Handshake, HooksCounted, RunLabels, HookLabels
<1>16. ASSUME NEW p \in Runners, PostExit(p) PROVE HooksCounted'
  <2>1. /\ pc[p] = "post" /\ p # "child" /\ p \in Procs
        /\ pc'[p] = "gone" /\ pre' = pre /\ post' = post + 1
        /\ \A x \in Procs : x # p => pc'[x] = pc[x]
        /\ p # "init" /\ p # "target" /\ pre \in Nat /\ post \in Nat
    BY <1>16, Shape, Types DEF RestType, PostExit, Exits
  <2>2. \A x \in Runners : x # p => x \in Procs /\ x # "child" /\
          pc[x] \in {"none", "gone", "ready", "pasta", "let go", "reap", "abandon"}
    BY <2>1, OneRunner, Members DEF RunLabels, HookLabels
  <2>3. \A x \in Runners :
          /\ pc'[x] \notin {"start", "fork", "enter", "announce", "release", "lock", "hooks"}
          /\ pc'[x] \in HookLabels => x = p
    BY <2>1, <2>2 DEF HookLabels
  <2>4. pre' = 1 /\ post' = 1
    BY <2>1 DEF HooksCounted, HookLabels
  <2>5. \A x \in Runners : pc'[x] = "spawn" => pc'["child"] = "none"
    BY <2>1, <2>2 DEF HooksCounted
  <2>6. pc'["child"] = "none" => pc'["init"] = "none" /\ pc'["target"] = "none"
    BY <2>1 DEF HooksCounted
  <2>7. pre' <= 1 /\ post' <= pre' /\ pre' # 0
    BY <2>4
  <2>8. \A x \in Runners : pc'[x] \in HookLabels => pre' = 1 /\ post' = 0
    BY <2>1, <2>3, <2>4 DEF HookLabels
  <2> QED BY <2>3, <2>5, <2>6, <2>7, <2>8 DEF HooksCounted
<1>17. CASE Setup
  BY <1>17, Shape DEF Setup, Handshake, HooksCounted, RunLabels, HookLabels
<1>18. CASE ChildReaps
  BY <1>18, Shape DEF ChildReaps, Exits, Handshake, HooksCounted, RunLabels, HookLabels
<1>19. CASE Root
  BY <1>19, Shape DEF Root, Go, Handshake, HooksCounted, RunLabels, HookLabels
<1>20. CASE Supervise
  <2>1. \A x \in Procs : pc'[x] = pc[x] \/ (pc'[x] = "gone" /\ pc[x] # "none")
    BY <1>20, Shape DEF Supervise, InitExits
  <2>2. pre' = pre /\ post' = post
    BY <1>20 DEF Supervise
  <2> QED BY <2>1, <2>2 DEF HooksCounted, HookLabels
<1>21. ASSUME NEW q \in Sandboxed, Fails(q) PROVE HooksCounted'
  BY <1>21, Shape DEF Fails, Exits, Handshake, HooksCounted, RunLabels, HookLabels
<1>22. ASSUME NEW q \in Sandboxed, Arm(q) PROVE HooksCounted'
  BY <1>22, Shape DEF Arm, Go, Handshake, HooksCounted, RunLabels, HookLabels
<1>23. ASSUME NEW q \in Sandboxed, Confine(q) PROVE HooksCounted'
  BY <1>23, Shape DEF Confine, Go, Handshake, HooksCounted, RunLabels, HookLabels
<1>24. ASSUME NEW q \in Sandboxed, Exec(q) PROVE HooksCounted'
  BY <1>24, Shape DEF Exec, Handshake, HooksCounted, RunLabels, HookLabels
<1>25. CASE Handover
  <2>1. pc' = pc /\ pre' = pre /\ post' = post
    BY <1>25 DEF Handover
  <2> QED BY <2>1 DEF HooksCounted
<1>26. ASSUME NEW c \in Codes \cup {Signaled}, TargetEnds(c) PROVE HooksCounted'
  BY <1>26, Shape DEF TargetEnds, Handshake, HooksCounted, RunLabels, HookLabels
<1>27. ASSUME NEW o \in Orphans, TargetAbandons(o) PROVE HooksCounted'
  <2>1. pc' = pc /\ pre' = pre /\ post' = post
    BY <1>27 DEF TargetAbandons
  <2> QED BY <2>1 DEF HooksCounted
<1>28. ASSUME NEW o \in Orphans, OrphanEnds(o) PROVE HooksCounted'
  <2>1. pc' = pc /\ pre' = pre /\ post' = post
    BY <1>28 DEF OrphanEnds
  <2> QED BY <2>1 DEF HooksCounted
<1>29. ASSUME NEW p \in Procs, Kill(p) PROVE HooksCounted'
  <2>1. \A x \in Procs : pc'[x] = pc[x] \/ (pc'[x] = "gone" /\ pc[x] # "none")
    BY <1>29, Shape DEF Kill, Exits, InitExits, Alive
  <2>2. pre' = pre /\ post' = post
    BY <1>29 DEF Kill
  <2> QED BY <2>1, <2>2 DEF HooksCounted, HookLabels
<1>30. CASE UNCHANGED vars
  BY <1>30 DEF vars, bailey, box, HooksCounted
<1> QED
  BY <1>1, <1>2, <1>3, <1>4, <1>5, <1>6, <1>7, <1>8, <1>9, <1>10, <1>11, <1>12, <1>13, <1>14,
       <1>15, <1>16, <1>17, <1>18, <1>19, <1>20, <1>21, <1>22, <1>23, <1>24, <1>25, <1>26,
       <1>27, <1>28, <1>29, <1>30 DEF Next, Outer, Inner, Runner, Child, InitProcess,
       Confining, World, Sandboxed

\* No process goes on behind a broker without the lockdown, and none installs
\* a rule elsewhere.
LEMMA BoundedStep ==
  ASSUME TypeOK, Roles, Handshake, HooksCounted, Bounded, [Next]_vars
  PROVE  Bounded'
<1> USE DEF At, Gone, bailey, box, Procs, Runners, Sandboxed
<1>1. CASE Decide
  BY <1>1, Shape DEF Decide, Exits, Go, Handshake, HooksCounted, Bounded, Proxied, Unkept,
       Isolating, RunLabels, HookLabels
<1>2. CASE Fork
  BY <1>2, Shape DEF Fork, Exits, Handshake, HooksCounted, Bounded, Proxied, Unkept, Isolating,
       RunLabels, HookLabels
<1>3. CASE AwaitReady
  BY <1>3, Shape DEF AwaitReady, Go, Handshake, HooksCounted, Bounded, Proxied, Unkept,
       Isolating, RunLabels, HookLabels
<1>4. CASE Configure
  BY <1>4, Shape DEF Configure, Go, Closes, Handshake, HooksCounted, Bounded, Proxied, Unkept,
       Isolating, RunLabels, HookLabels
<1>5. CASE LetGo
  BY <1>5, Shape DEF LetGo, Go, Exits, Closes, Handshake, HooksCounted, Bounded, Proxied, Unkept,
       Isolating, RunLabels, HookLabels
<1>6. CASE Reap
  BY <1>6, Shape DEF Reap, Exits, Handshake, HooksCounted, Bounded, Proxied, Unkept, Isolating,
       RunLabels, HookLabels
<1>7. CASE Abandon
  BY <1>7, Shape DEF Abandon, Exits, Handshake, HooksCounted, Bounded, Proxied, Unkept,
       Isolating, RunLabels, HookLabels
<1>8. CASE Enter
  BY <1>8, Shape DEF Enter, Go, Closes, Exits, Handshake, HooksCounted, Bounded, Proxied, Unkept,
       Isolating, RunLabels, HookLabels
<1>9. CASE Announce
  BY <1>9, Shape DEF Announce, Go, Closes, Exits, Handshake, HooksCounted, Bounded, Proxied,
       Unkept, Isolating, RunLabels, HookLabels
<1>10. CASE AwaitRelease
  BY <1>10, Shape DEF AwaitRelease, Go, Exits, Handshake, HooksCounted, Bounded, Proxied, Unkept,
       Isolating, RunLabels, HookLabels
<1>11. ASSUME NEW p \in Runners, Lock(p) PROVE Bounded'
  BY <1>11, Shape DEF Lock, Go, Exits, Handshake, HooksCounted, Bounded, Proxied, Unkept,
       Isolating, RunLabels, HookLabels
<1>12. ASSUME NEW p \in Runners, PreLaunch(p) PROVE Bounded'
  BY <1>12, Shape DEF PreLaunch, Go, Exits, Handshake, HooksCounted, Bounded, Proxied, Unkept,
       Isolating, RunLabels, HookLabels
<1>13. ASSUME NEW p \in Runners, Spawn(p) PROVE Bounded'
  BY <1>13, Shape DEF Spawn, Exits, Handshake, HooksCounted, Bounded, Proxied, Unkept, Isolating,
       RunLabels, HookLabels
<1>14. ASSUME NEW p \in Runners, SpawnReturns(p) PROVE Bounded'
  BY <1>14, Shape DEF SpawnReturns, Go, Exits, ExecOrGone, Handshake, HooksCounted, Bounded,
       Proxied, Unkept, Isolating, RunLabels, HookLabels
<1>15. ASSUME NEW p \in Runners, Wait(p) PROVE Bounded'
  BY <1>15, Shape DEF Wait, Go, Handshake, HooksCounted, Bounded, Proxied, Unkept, Isolating,
       RunLabels, HookLabels
<1>16. ASSUME NEW p \in Runners, PostExit(p) PROVE Bounded'
  BY <1>16, Shape DEF PostExit, Exits, Handshake, HooksCounted, Bounded, Proxied, Unkept,
       Isolating, RunLabels, HookLabels
<1>17. CASE Setup
  BY <1>17, Shape DEF Setup, Handshake, HooksCounted, Bounded, Proxied, Unkept, Isolating,
       RunLabels, HookLabels
<1>18. CASE ChildReaps
  BY <1>18, Shape DEF ChildReaps, Exits, Handshake, HooksCounted, Bounded, Proxied, Unkept,
       Isolating, RunLabels, HookLabels
<1>19. CASE Root
  BY <1>19, Shape DEF Root, Go, Handshake, HooksCounted, Bounded, Proxied, Unkept, Isolating,
       RunLabels, HookLabels
<1>20. CASE Supervise
  BY <1>20, Shape DEF Supervise, InitExits, Handshake, HooksCounted, Bounded, Proxied, Unkept,
       Isolating, RunLabels, HookLabels
<1>21. ASSUME NEW q \in Sandboxed, Fails(q) PROVE Bounded'
  BY <1>21, Shape DEF Fails, Exits, Handshake, HooksCounted, Bounded, Proxied, Unkept, Isolating,
       RunLabels, HookLabels
<1>22. ASSUME NEW q \in Sandboxed, Arm(q) PROVE Bounded'
  BY <1>22, Shape DEF Arm, Go, Handshake, HooksCounted, Bounded, Proxied, Unkept, Isolating,
       RunLabels, HookLabels
<1>23. ASSUME NEW q \in Sandboxed, Confine(q) PROVE Bounded'
  BY <1>23, Shape DEF Confine, Go, Handshake, HooksCounted, Bounded, Proxied, Unkept, Isolating,
       RunLabels, HookLabels
<1>24. ASSUME NEW q \in Sandboxed, Exec(q) PROVE Bounded'
  BY <1>24, Shape DEF Exec, Handshake, HooksCounted, Bounded, Proxied, Unkept, Isolating,
       RunLabels, HookLabels
<1>25. CASE Handover
  <2>1. pc' = pc /\ net' = net /\ rule' = rule /\ opts' = opts
    BY <1>25 DEF Handover
  <2> QED BY <2>1 DEF Bounded, Proxied, Unkept, Isolating
<1>26. ASSUME NEW c \in Codes \cup {Signaled}, TargetEnds(c) PROVE Bounded'
  BY <1>26, Shape DEF TargetEnds, Handshake, HooksCounted, Bounded, Proxied, Unkept, Isolating,
       RunLabels, HookLabels
<1>27. ASSUME NEW o \in Orphans, TargetAbandons(o) PROVE Bounded'
  <2>1. pc' = pc /\ net' = net /\ rule' = rule /\ opts' = opts
    BY <1>27 DEF TargetAbandons
  <2> QED BY <2>1 DEF Bounded, Proxied, Unkept, Isolating
<1>28. ASSUME NEW o \in Orphans, OrphanEnds(o) PROVE Bounded'
  <2>1. pc' = pc /\ net' = net /\ rule' = rule /\ opts' = opts
    BY <1>28 DEF OrphanEnds
  <2> QED BY <2>1 DEF Bounded, Proxied, Unkept, Isolating
<1>29. ASSUME NEW p \in Procs, Kill(p) PROVE Bounded'
  BY <1>29, Shape DEF Kill, Exits, InitExits, Alive, Handshake, HooksCounted, Bounded, Proxied,
       Unkept, Isolating, RunLabels, HookLabels
<1>30. CASE UNCHANGED vars
  BY <1>30 DEF vars, bailey, box, Bounded, Proxied, Unkept, Isolating
<1> QED
  BY <1>1, <1>2, <1>3, <1>4, <1>5, <1>6, <1>7, <1>8, <1>9, <1>10, <1>11, <1>12, <1>13, <1>14,
       <1>15, <1>16, <1>17, <1>18, <1>19, <1>20, <1>21, <1>22, <1>23, <1>24, <1>25, <1>26,
       <1>27, <1>28, <1>29, <1>30 DEF Next, Outer, Inner, Runner, Child, InitProcess,
       Confining, World, Sandboxed

\* The target does not outlive what it runs in.
LEMMA BoxedStep ==
  ASSUME TypeOK, Roles, HooksCounted, Boxed, [Next]_vars
  PROVE  Boxed'
<1> USE DEF At, Gone, bailey, box, Procs, Runners, Sandboxed
<1>1. CASE Decide
  BY <1>1, Shape DEF Decide, Exits, Go, Roles, ChildLabels, InitLabels, HooksCounted, Boxed,
       Isolating
<1>2. CASE Fork
  BY <1>2, Shape DEF Fork, Exits, Roles, ChildLabels, InitLabels, HooksCounted, Boxed,
       Isolating
<1>3. CASE AwaitReady
  BY <1>3, Shape DEF AwaitReady, Go, Roles, ChildLabels, InitLabels, HooksCounted, Boxed,
       Isolating
<1>4. CASE Configure
  BY <1>4, Shape DEF Configure, Go, Closes, Roles, ChildLabels, InitLabels, HooksCounted,
       Boxed, Isolating
<1>5. CASE LetGo
  BY <1>5, Shape DEF LetGo, Go, Exits, Closes, Roles, ChildLabels, InitLabels, HooksCounted,
       Boxed, Isolating
<1>6. CASE Reap
  BY <1>6, Shape DEF Reap, Exits, Roles, ChildLabels, InitLabels, HooksCounted, Boxed,
       Isolating
<1>7. CASE Abandon
  BY <1>7, Shape DEF Abandon, Exits, Roles, ChildLabels, InitLabels, HooksCounted, Boxed,
       Isolating
<1>8. CASE Enter
  BY <1>8, Shape DEF Enter, Go, Closes, Exits, Roles, ChildLabels, InitLabels, HooksCounted,
       Boxed, Isolating
<1>9. CASE Announce
  BY <1>9, Shape DEF Announce, Go, Closes, Exits, Roles, ChildLabels, InitLabels, HooksCounted,
       Boxed, Isolating
<1>10. CASE AwaitRelease
  BY <1>10, Shape DEF AwaitRelease, Go, Exits, Roles, ChildLabels, InitLabels, HooksCounted,
       Boxed, Isolating
<1>11. ASSUME NEW p \in Runners, Lock(p) PROVE Boxed'
  BY <1>11, Shape DEF Lock, Go, Exits, Roles, ChildLabels, InitLabels, HooksCounted, Boxed,
       Isolating
<1>12. ASSUME NEW p \in Runners, PreLaunch(p) PROVE Boxed'
  BY <1>12, Shape DEF PreLaunch, Go, Exits, Roles, ChildLabels, InitLabels, HooksCounted,
       Boxed, Isolating
<1>13. ASSUME NEW p \in Runners, Spawn(p) PROVE Boxed'
  BY <1>13, Shape DEF Spawn, Exits, Roles, ChildLabels, InitLabels, HooksCounted, Boxed,
       Isolating
<1>14. ASSUME NEW p \in Runners, SpawnReturns(p) PROVE Boxed'
  BY <1>14, Shape DEF SpawnReturns, Go, Exits, ExecOrGone, Roles, ChildLabels, InitLabels,
       HooksCounted, Boxed, Isolating
<1>15. ASSUME NEW p \in Runners, Wait(p) PROVE Boxed'
  BY <1>15, Shape DEF Wait, Go, Roles, ChildLabels, InitLabels, HooksCounted, Boxed, Isolating
<1>16. ASSUME NEW p \in Runners, PostExit(p) PROVE Boxed'
  BY <1>16, Shape DEF PostExit, Exits, Roles, ChildLabels, InitLabels, HooksCounted, Boxed,
       Isolating
<1>17. CASE Setup
  BY <1>17, Shape DEF Setup, Roles, ChildLabels, InitLabels, HooksCounted, Boxed, Isolating
<1>18. CASE ChildReaps
  BY <1>18, Shape DEF ChildReaps, Exits, Roles, ChildLabels, InitLabels, HooksCounted, Boxed,
       Isolating
<1>19. CASE Root
  BY <1>19, Shape DEF Root, Go, Roles, ChildLabels, InitLabels, HooksCounted, Boxed, Isolating
<1>20. CASE Supervise
  BY <1>20, Shape DEF Supervise, InitExits, Roles, ChildLabels, InitLabels, HooksCounted,
       Boxed, Isolating
<1>21. ASSUME NEW q \in Sandboxed, Fails(q) PROVE Boxed'
  BY <1>21, Shape DEF Fails, Exits, Roles, ChildLabels, InitLabels, HooksCounted, Boxed,
       Isolating
<1>22. ASSUME NEW q \in Sandboxed, Arm(q) PROVE Boxed'
  BY <1>22, Shape DEF Arm, Go, Roles, ChildLabels, InitLabels, HooksCounted, Boxed, Isolating
<1>23. ASSUME NEW q \in Sandboxed, Confine(q) PROVE Boxed'
  BY <1>23, Shape DEF Confine, Go, Roles, ChildLabels, InitLabels, HooksCounted, Boxed,
       Isolating
<1>24. ASSUME NEW q \in Sandboxed, Exec(q) PROVE Boxed'
  BY <1>24, Shape DEF Exec, Roles, ChildLabels, InitLabels, HooksCounted, Boxed, Isolating
<1>25. CASE Handover
  <2>1. pc' = pc /\ failed' = failed /\ killed' = killed /\ opts' = opts
    BY <1>25 DEF Handover
  <2> QED BY <2>1 DEF Boxed, Isolating
<1>26. ASSUME NEW c \in Codes \cup {Signaled}, TargetEnds(c) PROVE Boxed'
  BY <1>26, Shape DEF TargetEnds, Roles, ChildLabels, InitLabels, HooksCounted, Boxed,
       Isolating
<1>27. ASSUME NEW o \in Orphans, TargetAbandons(o) PROVE Boxed'
  <2>1. pc' = pc /\ failed' = failed /\ killed' = killed /\ opts' = opts
    BY <1>27 DEF TargetAbandons
  <2> QED BY <2>1 DEF Boxed, Isolating
<1>28. ASSUME NEW o \in Orphans, OrphanEnds(o) PROVE Boxed'
  <2>1. pc' = pc /\ failed' = failed /\ killed' = killed /\ opts' = opts
    BY <1>28 DEF OrphanEnds
  <2> QED BY <2>1 DEF Boxed, Isolating
<1>29. ASSUME NEW p \in Procs, Kill(p) PROVE Boxed'
  BY <1>29, Shape DEF Kill, Exits, InitExits, Alive, Roles, ChildLabels, InitLabels,
       HooksCounted, Boxed, Isolating
<1>30. CASE UNCHANGED vars
  BY <1>30 DEF vars, bailey, box, Boxed, Isolating
<1> QED
  BY <1>1, <1>2, <1>3, <1>4, <1>5, <1>6, <1>7, <1>8, <1>9, <1>10, <1>11, <1>12, <1>13, <1>14,
       <1>15, <1>16, <1>17, <1>18, <1>19, <1>20, <1>21, <1>22, <1>23, <1>24, <1>25, <1>26,
       <1>27, <1>28, <1>29, <1>30 DEF Next, Outer, Inner, Runner, Child, InitProcess,
       Confining, World, Sandboxed

\* Every process that ends hands up the status of the one below it.
LEMMA HandedStep ==
  ASSUME TypeOK, Roles, Handshake, HooksCounted, Boxed, Handed, [Next]_vars
  PROVE  Handed'
<1> USE DEF At, Gone, bailey, box, Procs, Runners, Sandboxed
<1>1. CASE Decide
  BY <1>1, Shape DEF Decide, Exits, Go, Roles, Handshake, HooksCounted, Boxed, Handed,
       Isolating, RunLabels, HookLabels
<1>2. CASE Fork
  BY <1>2, Shape DEF Fork, Exits, Roles, Handshake, HooksCounted, Boxed, Handed, Isolating,
       RunLabels, HookLabels
<1>3. CASE AwaitReady
  BY <1>3, Shape DEF AwaitReady, Go, Roles, Handshake, HooksCounted, Boxed, Handed, Isolating,
       RunLabels, HookLabels
<1>4. CASE Configure
  BY <1>4, Shape DEF Configure, Go, Closes, Roles, Handshake, HooksCounted, Boxed, Handed,
       Isolating, RunLabels, HookLabels
<1>5. CASE LetGo
  BY <1>5, Shape DEF LetGo, Go, Exits, Closes, Roles, Handshake, HooksCounted, Boxed, Handed,
       Isolating, RunLabels, HookLabels
<1>6. CASE Reap
  BY <1>6, Shape DEF Reap, Exits, Roles, Handshake, HooksCounted, Boxed, Handed, Isolating,
       RunLabels, HookLabels
<1>7. CASE Abandon
  BY <1>7, Shape DEF Abandon, Exits, Roles, Handshake, HooksCounted, Boxed, Handed, Isolating,
       RunLabels, HookLabels
<1>8. CASE Enter
  BY <1>8, Shape DEF Enter, Go, Closes, Exits, Roles, Handshake, HooksCounted, Boxed, Handed,
       Isolating, RunLabels, HookLabels
<1>9. CASE Announce
  BY <1>9, Shape DEF Announce, Go, Closes, Exits, Roles, Handshake, HooksCounted, Boxed,
       Handed, Isolating, RunLabels, HookLabels
<1>10. CASE AwaitRelease
  BY <1>10, Shape DEF AwaitRelease, Go, Exits, Roles, Handshake, HooksCounted, Boxed, Handed,
       Isolating, RunLabels, HookLabels
<1>11. ASSUME NEW p \in Runners, Lock(p) PROVE Handed'
  BY <1>11, Shape DEF Lock, Go, Exits, Roles, Handshake, HooksCounted, Boxed, Handed,
       Isolating, RunLabels, HookLabels
<1>12. ASSUME NEW p \in Runners, PreLaunch(p) PROVE Handed'
  BY <1>12, Shape DEF PreLaunch, Go, Exits, Roles, Handshake, HooksCounted, Boxed, Handed,
       Isolating, RunLabels, HookLabels
<1>13. ASSUME NEW p \in Runners, Spawn(p) PROVE Handed'
  <2>1. /\ pc[p] = "spawn" /\ pc["child"] = "none" /\ pipe' = pipe /\ post' = post
        /\ orphan' = orphan /\ opts' = opts /\ killed' = killed
    BY <1>13 DEF Spawn, HooksCounted
  <2>2. CASE Exits(p, Refusal)
    BY <2>1, <2>2, Shape DEF Exits, Roles, Handshake, HooksCounted, Boxed, Handed, Isolating,
         RunLabels, HookLabels
  <2>3. CASE ~Exits(p, Refusal)
    <3>1. pc' = [pc EXCEPT ![p] = "spawning", !["child"] = "setup"] /\ code' = code
      BY <1>13, <2>3 DEF Spawn
    <3> QED BY <2>1, <3>1, Shape DEF Roles, Handshake, HooksCounted, Boxed, Handed, Isolating,
              RunLabels, HookLabels
  <2> QED BY <2>2, <2>3
<1>14. ASSUME NEW p \in Runners, SpawnReturns(p) PROVE Handed'
  BY <1>14, Shape DEF SpawnReturns, Go, Exits, ExecOrGone, Roles, Handshake, HooksCounted,
       Boxed, Handed, Isolating, RunLabels, HookLabels
<1>15. ASSUME NEW p \in Runners, Wait(p) PROVE Handed'
  BY <1>15, Shape DEF Wait, Go, Roles, Handshake, HooksCounted, Boxed, Handed, Isolating,
       RunLabels, HookLabels
<1>16. ASSUME NEW p \in Runners, PostExit(p) PROVE Handed'
  BY <1>16, Shape DEF PostExit, Exits, Roles, Handshake, HooksCounted, Boxed, Handed,
       Isolating, RunLabels, HookLabels
<1>17. CASE Setup
  BY <1>17, Shape DEF Setup, Roles, Handshake, HooksCounted, Boxed, Handed, Isolating,
       RunLabels, HookLabels
<1>18. CASE ChildReaps
  BY <1>18, Shape DEF ChildReaps, Exits, Roles, Handshake, HooksCounted, Boxed, Handed,
       Isolating, RunLabels, HookLabels
<1>19. CASE Root
  BY <1>19, Shape DEF Root, Go, Roles, Handshake, HooksCounted, Boxed, Handed, Isolating,
       RunLabels, HookLabels
<1>20. CASE Supervise
  <2>1. CASE UNCHANGED <<pc, code>>
    <3>1. UNCHANGED <<opts, pipe, post, killed>> /\ pc["init"] = "supervise"
      BY <1>20 DEF Supervise
    <3> QED BY <2>1, <3>1 DEF Handed, Isolating
  <2>2. CASE Gone("target") /\ InitExits(code["target"])
    <3>1. /\ UNCHANGED <<opts, pipe, post, killed>> /\ pc["init"] = "supervise"
          /\ pc'["init"] = "gone" /\ code'["init"] = code["target"]
          /\ \A x \in Procs : x # "init" => pc'[x] = pc[x] /\ code'[x] = code[x]
          /\ \A o \in Orphans : orphan'[o] \in {"none", "reaped"}
      BY <1>20, <2>2, Shape DEF Supervise, InitExits
    <3>2. killed = {} => ~Gone("child")
      BY <3>1 DEF Boxed
    <3> QED BY <2>2, <3>1, <3>2, Shape DEF Handed, Isolating
  <2> QED BY <1>20, <2>1, <2>2 DEF Supervise
<1>21. ASSUME NEW q \in Sandboxed, Fails(q) PROVE Handed'
  <2>1. pc["target"] = "none"
    BY <1>21 DEF Fails, Boxed, Roles, ChildLabels, InitLabels
  <2>2. /\ UNCHANGED <<opts, pipe, post, killed, orphan>> /\ pc'[q] = "gone" /\ q \in {"child", "init"}
        /\ \A x \in Procs : x # q => pc'[x] = pc[x] /\ code'[x] = code[x]
        /\ pc[q] \notin {"none", "gone"}
    BY <1>21, Shape DEF Fails, Exits
  <2>3. pc'["target"] = "none" /\ \A x \in Runners : pc'[x] = pc[x]
    BY <2>1, <2>2
  <2>4. Gone("child") => Gone("child")'
    BY <2>2
  <2>5. pc'["child"] # "none" => pc["child"] # "none"
    BY <2>2
  <2> QED BY <2>2, <2>3, <2>4, <2>5 DEF Handed
<1>22. ASSUME NEW q \in Sandboxed, Arm(q) PROVE Handed'
  BY <1>22, Shape DEF Arm, Go, Roles, Handshake, HooksCounted, Boxed, Handed, Isolating,
       RunLabels, HookLabels
<1>23. ASSUME NEW q \in Sandboxed, Confine(q) PROVE Handed'
  BY <1>23, Shape DEF Confine, Go, Roles, Handshake, HooksCounted, Boxed, Handed, Isolating,
       RunLabels, HookLabels
<1>24. ASSUME NEW q \in Sandboxed, Exec(q) PROVE Handed'
  BY <1>24, Shape DEF Exec, Roles, Handshake, HooksCounted, Boxed, Handed, Isolating,
       RunLabels, HookLabels
<1>25. CASE Handover
  <2>1. UNCHANGED <<pc, code, pipe, post, killed, opts, orphan>>
    BY <1>25 DEF Handover
  <2> QED BY <2>1 DEF Handed, Isolating
<1>26. ASSUME NEW c \in Codes \cup {Signaled}, TargetEnds(c) PROVE Handed'
  BY <1>26, Shape DEF TargetEnds, Roles, Handshake, HooksCounted, Boxed, Handed, Isolating,
       RunLabels, HookLabels
<1>27. ASSUME NEW o \in Orphans, TargetAbandons(o) PROVE Handed'
  BY <1>27, Shape DEF TargetAbandons, Roles, Handshake, HooksCounted, Boxed, Handed, Isolating,
       RunLabels, HookLabels
<1>28. ASSUME NEW o \in Orphans, OrphanEnds(o) PROVE Handed'
  BY <1>28, Shape DEF OrphanEnds, Roles, Handshake, HooksCounted, Boxed, Handed, Isolating,
       RunLabels, HookLabels
<1>29. ASSUME NEW p \in Procs, Kill(p) PROVE Handed'
  BY <1>29, Shape DEF Kill, Exits, InitExits, Alive, Roles, Handshake, HooksCounted, Boxed,
       Handed, Isolating, RunLabels, HookLabels
<1>30. CASE UNCHANGED vars
  BY <1>30 DEF vars, bailey, box, Handed, Isolating
<1> QED
  BY <1>1, <1>2, <1>3, <1>4, <1>5, <1>6, <1>7, <1>8, <1>9, <1>10, <1>11, <1>12, <1>13, <1>14,
       <1>15, <1>16, <1>17, <1>18, <1>19, <1>20, <1>21, <1>22, <1>23, <1>24, <1>25, <1>26,
       <1>27, <1>28, <1>29, <1>30 DEF Next, Outer, Inner, Runner, Child, InitProcess,
       Confining, World, Sandboxed

IInv == TypeOK /\ Roles /\ Handshake /\ HooksCounted /\ Bounded /\ Boxed /\ Handed

\* A run starts with the invariant.
LEMMA InvInit == Init => IInv
<1> SUFFICES ASSUME Init PROVE IInv
  OBVIOUS
<1>1. /\ pc["outer"] = "start" /\ code \in [Procs -> 0..255]
      /\ \A p \in Procs : p # "outer" => pc[p] = "none"
  BY TypeInit DEF Init, TypeOK, Procs
<1>2. Roles /\ Handshake
  BY <1>1 DEF Init, Procs, Roles, OuterLabels, InnerLabels, RunLabels, HookLabels, ChildLabels,
              InitLabels, Handshake
<1>3. HooksCounted /\ Bounded
  BY <1>1 DEF Init, Procs, Runners, HooksCounted, RunLabels, HookLabels, Bounded, Unkept
<1>4. Boxed /\ Handed
  BY <1>1 DEF Init, Procs, Runners, Boxed, Handed, Gone
<1> QED BY TypeInit, <1>2, <1>3, <1>4 DEF IInv

\* Every step keeps it.
LEMMA InvStep == IInv /\ [Next]_vars => IInv'
  BY TypeStep, RolesStep, HandshakeStep, HooksStep, BoundedStep, BoxedStep, HandedStep DEF IInv

\* So it holds always.
LEMMA InvHolds == Spec => []IInv
  BY InvInit, InvStep, PTL DEF Spec

\* A running target was run by somebody who counted.
LEMMA RunningTarget ==
  ASSUME IInv, pc["target"] = "running"
  PROVE  pc["child"] # "none" /\ pre = 1 /\ (killed = {} => post = 0)
<1>1. pc["child"] # "none"
  BY DEF IInv, HooksCounted
<1>2. pre \in Nat /\ post \in Nat
  BY DEF IInv, TypeOK
<1>3. pre = 1
  BY <1>1, <1>2 DEF IInv, HooksCounted
<1>4. ASSUME killed = {} PROVE post = 0
  <2>1. ~(post > 0)
    BY <1>4 DEF IInv, Handed, Boxed
  <2> QED BY <1>2, <2>1
<1> QED BY <1>1, <1>3, <1>4

\* A target that runs was spawned where its policy could be kept.
LEMMA RunIsKept ==
  ASSUME IInv, pc["target"] = "running"
  PROVE  ~Unkept /\ (opts.self_fuse => opts.userns)
  BY RunningTarget DEF IInv, Bounded, Isolating

\* Behind a broker a target reaches the broker alone, however the launch went;
\* one denied egress reaches nothing in a network of its own and connects to
\* nothing elsewhere, and one allowed some ports connects to no other, unless
\* the kernel lacks Landlock's network rules; and no ruleset is installed
\* outside a namespace made for it (lock_egress_to_broker, select,
\* LandlockPlan, finalize).
THEOREM EgressStaysBounded == Spec => []EgressIsBounded
<1>1. IInv => EgressIsBounded
  <2> SUFFICES ASSUME IInv PROVE EgressIsBounded
    OBVIOUS
  <2>0. opts \in Options
    BY DEF IInv, TypeOK
  <2>1. ASSUME pc["target"] = "running", Proxied PROVE net = "routed" /\ Reach = Lockdown
    <3>1. net = "routed" /\ rule = Lockdown /\ ~Isolated
      BY <2>1, RunningTarget DEF IInv, Bounded, Isolated
    <3>2. Lockdown \subseteq Routed /\ Lockdown \subseteq Landlocked
      <4>1. "broker" \in Permitted
        BY <2>0, <2>1 DEF Permitted, Options, TcpPorts
      <4> DEFINE t == <<"broker", "broker">>
      <4>2. t \in Traffic /\ t[1] = "broker" /\ t[2] = "broker"
        BY DEF Traffic, TcpPorts, Peers
      <4> HIDE DEF t
      <4>3. t \in Routed /\ t \in Landlocked
        BY <2>1, <4>1, <4>2 DEF Routed, Landlocked
      <4> QED BY <4>3 DEF t, Lockdown
    <3> QED BY <3>1, <3>2 DEF Reach
  <2>2. ASSUME Denied, ~Proxied, opts.userns PROVE Reach = {}
    BY <2>2 DEF Reach, Isolated
  <2>3. ASSUME pc["target"] = "running", Denied, ~Proxied, opts.landlock PROVE Tcp(Reach) = {}
    <3>1. CASE opts.userns
      BY <3>1, <2>2, <2>3 DEF Tcp
    <3>2. CASE ~opts.userns
      <4>1. Enforced /\ Permitted = {}
        BY <3>2, <2>3, RunIsKept, <2>0 DEF Enforced, Permitted, Denied, Options
      <4> QED BY <4>1 DEF Tcp, Reach, Landlocked
    <3> QED BY <3>1, <3>2
  <2>4. ASSUME pc["target"] = "running", opts.egress = "ports", ~Proxied, opts.landlock,
               NEW t \in Tcp(Reach)
        PROVE  t[1] = "allowed"
    <3>1. Enforced /\ Permitted = {"allowed"}
      BY <2>4, RunIsKept, <2>0 DEF Enforced, Unkept, Permitted, Options
    <3>2. t[1] \in TcpPorts /\ t \in Landlocked
      BY <2>4 DEF Tcp, Reach, Isolated, Denied
    <3> QED BY <3>1, <3>2 DEF Landlocked
  <2>5. rule # Traffic => net = "routed"
    BY DEF IInv, Bounded
  <2> QED BY <2>1, <2>2, <2>3, <2>4, <2>5 DEF EgressIsBounded, At
<1> QED BY <1>1, InvHolds, PTL

\* Whoever goes on with the run, and whoever dies, the hooks are run once and
\* around the target (cmd_run).
THEOREM HooksRunOnce == Spec => []HooksOnce
<1>1. IInv => HooksOnce
  <2> SUFFICES ASSUME IInv PROVE HooksOnce
    OBVIOUS
  <2>1. pre <= 1 /\ post <= pre
    BY DEF IInv, HooksCounted
  <2> QED BY <2>1, RunningTarget DEF HooksOnce, At
<1> QED BY <1>1, InvHolds, PTL

\* The command ends with the status of its target, and after everything in its
\* sandbox, unless one of its processes was killed (Reap, supervise).
THEOREM StatusIsHandedUp == Spec => []StatusIsTargets
<1>1. IInv => StatusIsTargets
  <2> SUFFICES ASSUME IInv, Gone("outer"), killed = {}, pc["target"] # "none"
               PROVE  /\ Gone("target") /\ code["outer"] = code["target"]
                      /\ Isolating => \A o \in Orphans : orphan[o] \in {"none", "reaped"}
    BY DEF StatusIsTargets
  <2>1. pc["child"] # "none" /\ pc["inner"] \in {"none", "gone"}
    BY DEF IInv, HooksCounted, Handed
  <2>2. Gone("child") /\ code["outer"] = code["child"]
    BY <2>1 DEF IInv, Handed, Runners, Gone
  <2>3. Gone("target")
    BY <2>2 DEF IInv, Boxed, Roles, Gone
  <2> QED BY <2>2, <2>3 DEF IInv, Handed
<1> QED BY <1>1, InvHolds, PTL
================================================================================
