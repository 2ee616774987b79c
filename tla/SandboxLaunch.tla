---------------------------- MODULE SandboxLaunch ----------------------------
(***************************************************************************)
(* The processes of one `bailey run`, from the command to the target and   *)
(* back to an exit status.                                                 *)
(*                                                                         *)
(* With --proxy-net or --egress-proxy the command forks: the inner process *)
(* makes a network namespace and waits, the outer has pasta configure it   *)
(* and lets the inner go on.  Whichever process goes on (the runner) locks *)
(* egress, runs the hooks and spawns.  Under isolation the spawned child   *)
(* only waits for the sandbox's init, which runs the target and reaps what *)
(* the target abandons; without it the child becomes the target.  A thread *)
(* of the runner takes the forwards' listeners when they are handed over.  *)
(*                                                                         *)
(* Source: crates/bailey/src/cli.rs (cmd_run, wrap_in_private_namespace),  *)
(* backend/network.rs, backend/isolation.rs (enter, supervise),            *)
(* backend/enforce.rs (spawn, wait), backend/forward.rs (arm, receive).    *)
(***************************************************************************)
EXTENDS Naturals, FiniteSets

CONSTANTS
  Orphans,  \* processes the target may abandon
  Codes,    \* the exit codes a target may return
  MaxKills  \* bound: processes of bailey's killed from outside

ASSUME CodesAssumption == Codes \subseteq 0..255 /\ MaxKills \in Nat

Refusal == 1    \* ExitCode::FAILURE
Signaled == 137 \* 128 + SIGKILL

Procs == {"outer", "inner", "child", "init", "target"}

\* What a target may send, and to whom: TCP to the broker's port, to a port the
\* policy allows or to another, and every other protocol.  The broker listens
\* on the host's loopback, where the host's own services are too.
TcpPorts == {"broker", "allowed", "unnamed"}
Peers    == {"broker", "loopback", "world"}
Traffic  == (TcpPorts \cup {"not tcp"}) \X Peers

VARIABLES
  opts,    \* the command line, the policy and the host
  pc, code, \* where each process is; its exit status once it is gone
  pipe,    \* the pipes a byte is in: "ready", "release"
  writers, \* who could still write each pipe
  net, rule, \* the private namespace; the traffic its ruleset admits
  pre, post, \* history: times the hooks were run
  failed,  \* the child reported an error on spawn's pipe
  armed, relay, \* the listeners were sent; the thread that takes them
  orphan, killed

bailey == <<pipe, writers, net, rule, pre, post>>
box    == <<failed, armed, relay, orphan>>
vars   == <<opts, pc, code, bailey, box, killed>>

Options == [
  proxy : {"none", "net", "egress"}, off : BOOLEAN,  \* --proxy-net, --egress-proxy; --no-proxy-net
  egress : {"denied", "ports", "all"}, forwards : BOOLEAN, self_fuse : BOOLEAN, \* the policy
  isolate : BOOLEAN, pasta : BOOLEAN, userns : BOOLEAN,
  landlock : BOOLEAN]  \* the kernel has Landlock's network rules (ABI 4)

Init ==
  /\ opts \in Options
  /\ pc = [p \in Procs |-> IF p = "outer" THEN "start" ELSE "none"]
  /\ code = [p \in Procs |-> 0]
  /\ pipe = {} /\ writers = [k \in {"ready", "release"} |-> {}]
  /\ net = "none" /\ rule = Traffic /\ pre = 0 /\ post = 0
  /\ failed = FALSE /\ armed = FALSE /\ relay = "off"
  /\ orphan = [o \in Orphans |-> "none"] /\ killed = {}

Gone(p)    == pc[p] = "gone"
Alive(p)   == pc[p] \notin {"none", "gone"}
At(p, l)   == pc[p] = l
Go(p, l)   == pc' = [pc EXCEPT ![p] = l] /\ UNCHANGED code
Closes(p, k) == writers' = [writers EXCEPT ![k] = @ \ {p}]
Exits(p, c) ==
  /\ pc' = [pc EXCEPT ![p] = "gone"] /\ code' = [code EXCEPT ![p] = c]
  /\ writers' = [k \in DOMAIN writers |-> writers[k] \ {p}]

-----------------------------------------------------------------------------
(* The private namespace (wrap_in_private_namespace).                      *)

Proxied == opts.proxy = "egress"
Denied  == opts.egress = "denied"
Wanted  == ~opts.off /\ opts.proxy # "none" /\ (Denied => Proxied)
Able    == opts.pasta /\ opts.userns

\* A self_fuse run gives up Landlock, so ports alone cannot be allowed (finalize).
Unkept == opts.self_fuse /\ opts.egress = "ports"

\* refuse_root, resolve and what the options ask for may all refuse.
Decide ==
  /\ At("outer", "start")
  /\ \/ Exits("outer", Refusal)
     \/ /\ ~Unkept /\ (~Wanted \/ (~Able /\ ~Proxied))
        /\ Go("outer", "lock") /\ UNCHANGED writers
     \/ /\ ~Unkept /\ Wanted /\ Able
        /\ Go("outer", "fork") /\ UNCHANGED writers
  /\ UNCHANGED <<opts, pipe, net, rule, pre, post, box, killed>>

Fork ==
  /\ At("outer", "fork")
  /\ \/ Exits("outer", Refusal)
     \/ /\ pc' = [pc EXCEPT !["outer"] = "ready", !["inner"] = "enter"]
        /\ writers' = [ready |-> {"inner"}, release |-> {"outer", "inner"}]
        /\ UNCHANGED code
  /\ UNCHANGED <<opts, pipe, net, rule, pre, post, box, killed>>

\* Mutant: the child keeps its copy of the end it does not use.
EnterKeepsEnd ==
  /\ At("inner", "enter")
  /\ \/ /\ net' = "made" /\ Go("inner", "announce") /\ UNCHANGED writers
     \/ Exits("inner", Refusal) /\ UNCHANGED net
  /\ UNCHANGED <<opts, pipe, rule, pre, post, box, killed>>

Enter ==
  /\ At("inner", "enter")
  /\ \/ net' = "made" /\ Go("inner", "announce") /\ Closes("inner", "release")
     \/ Exits("inner", Refusal) /\ UNCHANGED net
  /\ UNCHANGED <<opts, pipe, rule, pre, post, box, killed>>

\* Writing to a pipe nobody reads fails.
Announce ==
  /\ At("inner", "announce")
  /\ \/ /\ ~Gone("outer")
        /\ pipe' = pipe \cup {"ready"} /\ Closes("inner", "ready") /\ Go("inner", "release")
     \/ Gone("outer") /\ Exits("inner", Refusal) /\ UNCHANGED pipe
  /\ UNCHANGED <<opts, net, rule, pre, post, box, killed>>

\* The end of the pipe is a refusal; a byte makes this process the Creator.
AwaitRelease ==
  /\ At("inner", "release")
  /\ \/ "release" \in pipe /\ Go("inner", "lock") /\ UNCHANGED writers
     \/ "release" \notin pipe /\ writers["release"] = {} /\ Exits("inner", Refusal)
  /\ UNCHANGED <<opts, pipe, net, rule, pre, post, box, killed>>

AwaitReady ==
  /\ At("outer", "ready")
  /\ \/ "ready" \in pipe /\ Go("outer", "pasta")
     \/ "ready" \notin pipe /\ writers["ready"] = {} /\ Go("outer", "abandon")
  /\ UNCHANGED <<opts, bailey, box, killed>>

\* pasta is given the inner process's pid, and closes what it inherits.
Configure ==
  /\ At("outer", "pasta")
  /\ \/ ~Gone("inner") /\ net' = "routed" /\ Go("outer", "let go") /\ UNCHANGED writers
     \/ Closes("outer", "release") /\ Go("outer", "abandon") /\ UNCHANGED net
  /\ UNCHANGED <<opts, pipe, rule, pre, post, box, killed>>

LetGo ==
  /\ At("outer", "let go")
  /\ \/ /\ ~Gone("inner")
        /\ pipe' = pipe \cup {"release"} /\ Closes("outer", "release") /\ Go("outer", "reap")
     \/ Gone("inner") /\ Exits("outer", Refusal) /\ UNCHANGED pipe
  /\ UNCHANGED <<opts, net, rule, pre, post, box, killed>>

\* Mutant: the outer process goes on with the run as well.
ReapGoesOn ==
  /\ At("outer", "reap") /\ Gone("inner")
  /\ Go("outer", "hooks")
  /\ UNCHANGED <<opts, bailey, box, killed>>

\* Mutant: the death of a process two below is counted again.
ReapCounted ==
  /\ At("outer", "reap") /\ Gone("inner")
  /\ Exits("outer", IF code["inner"] > 127 THEN code["inner"] + 128 ELSE code["inner"])
  /\ UNCHANGED <<opts, pipe, net, rule, pre, post, box, killed>>

\* The run happened in the inner process, and this is its status.
Reap ==
  /\ At("outer", "reap") /\ Gone("inner")
  /\ Exits("outer", code["inner"])
  /\ UNCHANGED <<opts, pipe, net, rule, pre, post, box, killed>>

Abandon ==
  /\ At("outer", "abandon") /\ Gone("inner")
  /\ Exits("outer", Refusal)
  /\ UNCHANGED <<opts, pipe, net, rule, pre, post, box, killed>>

-----------------------------------------------------------------------------
(* The rest of cmd_run, in the one process that goes on with the run.      *)

Runners == {"outer", "inner"}

\* The two rulesets: a default drop with one destination, and a default
\* accept without the loopback.
Lockdown   == {<<"broker", "broker">>}
NoLoopback == {t \in Traffic : t[2] # "loopback"}

\* Mutant: a lockdown that cannot be installed is only warned about.
LockBestEffort(p) ==
  /\ At(p, "lock")
  /\ \/ Proxied /\ p # "inner" /\ Exits(p, Refusal) /\ UNCHANGED rule
     \/ /\ p = "inner"
        /\ rule' \in {IF Proxied THEN Lockdown ELSE NoLoopback, Traffic}
        /\ Go(p, "hooks") /\ UNCHANGED writers
     \/ opts.proxy # "egress" /\ p # "inner" /\ Go(p, "hooks") /\ UNCHANGED <<rule, writers>>
  /\ UNCHANGED <<opts, pipe, net, pre, post, box, killed>>

\* Only the process that made the namespace installs a rule.  The broker's
\* lockdown must succeed; dropping the host's loopback is a best effort.
Lock(p) ==
  /\ At(p, "lock")
  /\ \/ Proxied /\ Exits(p, Refusal) /\ UNCHANGED rule
     \/ /\ p = "inner"
        /\ IF Proxied THEN rule' = Lockdown ELSE rule' \in {NoLoopback, Traffic}
        /\ Go(p, "hooks") /\ UNCHANGED writers
     \/ ~Proxied /\ p # "inner" /\ Go(p, "hooks") /\ UNCHANGED <<rule, writers>>
  /\ UNCHANGED <<opts, pipe, net, pre, post, box, killed>>

PreLaunch(p) ==
  /\ At(p, "hooks")
  /\ pre' = pre + 1
  /\ \/ Go(p, "spawn") /\ UNCHANGED writers
     \/ Exits(p, Refusal)
  /\ UNCHANGED <<opts, pipe, net, rule, post, box, killed>>

\* A private network is for a policy that denies egress (select), and a
\* brokered run already has one; forwards need it.
Isolated  == Denied /\ opts.userns /\ ~Proxied
Isolating == opts.isolate /\ opts.userns

\* pasta maps the host's loopback to one address, for a broker only.
Routed == {t \in Traffic : t[2] = "broker" => Proxied}

\* Landlock permits TCP by port, at whatever host; a broker's is added to what
\* the policy allows.  It is a best effort, and a self_fuse run goes without.
Permitted ==
  CASE opts.egress = "all" -> TcpPorts
    [] opts.egress = "ports" -> {"allowed"} \cup (IF Proxied THEN {"broker"} ELSE {})
    [] OTHER -> IF Proxied THEN {"broker"} ELSE {}
Enforced   == opts.landlock /\ ~opts.self_fuse
Landlocked == {t \in Traffic : Enforced /\ t[1] \in TcpPorts => t[1] \in Permitted}

\* What the target's own sockets reach; a forward carries its one destination
\* for the target, through bailey.
Reach ==
  IF Isolated \/ net = "made" THEN {}
  ELSE (IF net = "routed" THEN Routed ELSE Traffic) \cap rule \cap Landlocked

\* Mutant: no thread takes the listeners before the spawn returns.
SpawnNoThread(p) ==
  /\ At(p, "spawn")
  /\ \/ Exits(p, Refusal)
     \/ /\ opts.forwards => Isolated
        /\ opts.self_fuse => Isolating
        /\ pc' = [pc EXCEPT ![p] = "spawning", !["child"] = "setup"]
        /\ UNCHANGED <<code, writers>>
  /\ UNCHANGED <<opts, pipe, net, rule, pre, post, failed, armed, relay, orphan, killed>>

\* Everything before the fork may refuse (RunLifecycle has those steps).
Spawn(p) ==
  /\ At(p, "spawn")
  /\ \/ Exits(p, Refusal) /\ UNCHANGED relay
     \/ /\ opts.forwards => Isolated
        /\ opts.self_fuse => Isolating
        /\ relay' = IF opts.forwards THEN "waiting" ELSE "off"
        /\ pc' = [pc EXCEPT ![p] = "spawning", !["child"] = "setup"]
        /\ UNCHANGED <<code, writers>>
  /\ UNCHANGED <<opts, pipe, net, rule, pre, post, failed, armed, orphan, killed>>

\* spawn returns when its error pipe is closed or says something.  The child
\* and the init hold it open, and an exec closes it: under isolation spawn
\* does not return before the run is over.
ExecOrGone(q) == pc[q] \in {"none", "gone", "execed"}
SpawnReturns(p) ==
  /\ At(p, "spawning")
  /\ \/ failed /\ Gone("child") /\ Exits(p, Refusal)
     \/ /\ ~failed /\ ExecOrGone("child") /\ ExecOrGone("init")
        /\ Go(p, "wait") /\ UNCHANGED writers
  /\ UNCHANGED <<opts, pipe, net, rule, pre, post, box, killed>>

\* Confined::wait, then the post-exit hooks, whose failure is only printed.
Wait(p) ==
  /\ At(p, "wait") /\ Gone("child")
  /\ Go(p, "post")
  /\ UNCHANGED <<opts, bailey, box, killed>>

PostExit(p) ==
  /\ At(p, "post")
  /\ post' = post + 1 /\ Exits(p, code["child"])
  /\ UNCHANGED <<opts, pipe, net, rule, pre, box, killed>>

\* The announce socket ends when nobody who could send on it is left.
Handover ==
  /\ relay = "waiting" /\ \E p \in Runners : Alive(p) /\ pc[p] \in {"spawning", "wait", "post"}
  /\ \/ armed /\ relay' = "serving"
     \/ /\ ~armed /\ \A p \in Runners : ~At(p, "spawning")
        /\ ExecOrGone("child") /\ ExecOrGone("init")
        /\ relay' = "failed"
  /\ UNCHANGED <<opts, pc, code, bailey, failed, armed, orphan, killed>>

-----------------------------------------------------------------------------
(* The child of spawn and the sandbox's init (pre_exec, enter).            *)

Sandboxed == {"child", "init"}

\* An error in pre_exec is written to spawn's pipe.
Fails(q) ==
  /\ pc[q] \in {"setup", "root", "arm", "confine", "exec"}
  /\ failed' = TRUE /\ Exits(q, Refusal)
  /\ UNCHANGED <<opts, pipe, net, rule, pre, post, armed, relay, orphan, killed>>

\* The limits and the cgroup, then the namespaces; under isolation the new
\* pid namespace's first process is forked and the child waits for it.
Setup ==
  /\ At("child", "setup")
  /\ IF Isolating
     THEN pc' = [pc EXCEPT !["child"] = "reap", !["init"] = "root"]
     ELSE pc' = [pc EXCEPT !["child"] = "arm"]
  /\ UNCHANGED <<opts, code, bailey, box, killed>>

Root ==
  /\ At("init", "root") /\ Go("init", "arm")
  /\ UNCHANGED <<opts, bailey, box, killed>>

Arm(q) ==
  /\ At(q, "arm") /\ Go(q, "confine")
  /\ armed' = opts.forwards
  /\ UNCHANGED <<opts, bailey, failed, relay, orphan, killed>>

\* Landlock, seccomp and the capabilities.
Confine(q) ==
  /\ At(q, "confine") /\ Go(q, "exec")
  /\ UNCHANGED <<opts, bailey, box, killed>>

Exec(q) ==
  /\ At(q, "exec")
  /\ pc' = [pc EXCEPT ![q] = IF q = "init" THEN "supervise" ELSE "execed",
                      !["target"] = "running"]
  /\ UNCHANGED <<opts, code, bailey, box, killed>>

\* The init's end is the end of its pid namespace.
InitExits(c) ==
  /\ pc' = [pc EXCEPT !["init"] = "gone", !["target"] = IF @ = "none" THEN @ ELSE "gone"]
  /\ code' = [code EXCEPT !["init"] = c, !["target"] = IF At("target", "running") THEN Signaled ELSE @]
  /\ orphan' = [o \in Orphans |-> IF orphan[o] = "none" THEN "none" ELSE "reaped"]

\* Mutant: the init reports the first child that ends.
ReapFirst ==
  /\ At("init", "supervise")
  /\ \/ \E o \in Orphans : orphan[o] = "zombie" /\ InitExits(0)
     \/ Gone("target") /\ InitExits(code["target"])
  /\ UNCHANGED <<opts, bailey, failed, armed, relay, killed>>

\* waitpid(-1): any child, and the target's status ends the loop.
Supervise ==
  /\ At("init", "supervise")
  /\ \/ \E o \in Orphans :
          /\ orphan[o] = "zombie" /\ orphan' = [orphan EXCEPT ![o] = "reaped"]
          /\ UNCHANGED <<pc, code>>
     \/ Gone("target") /\ InitExits(code["target"])
  /\ UNCHANGED <<opts, bailey, failed, armed, relay, killed>>

ChildReaps ==
  /\ At("child", "reap") /\ Gone("init")
  /\ Exits("child", code["init"])
  /\ UNCHANGED <<opts, pipe, net, rule, pre, post, box, killed>>

-----------------------------------------------------------------------------
(* The target and the world outside.                                       *)

\* Without isolation the target is the child itself.
TargetEnds(c) ==
  /\ At("target", "running")
  /\ LET own == {"target"} \cup (IF At("child", "execed") THEN {"child"} ELSE {}) IN
       /\ pc' = [p \in Procs |-> IF p \in own THEN "gone" ELSE pc[p]]
       /\ code' = [p \in Procs |-> IF p \in own THEN c ELSE code[p]]
  /\ UNCHANGED <<opts, bailey, box, killed>>

TargetAbandons(o) ==
  /\ At("target", "running") /\ orphan[o] = "none"
  /\ orphan' = [orphan EXCEPT ![o] = "alive"]
  /\ UNCHANGED <<opts, pc, code, bailey, failed, armed, relay, killed>>

\* Outside a pid namespace of its own the host's init reaps it.
OrphanEnds(o) ==
  /\ orphan[o] = "alive"
  /\ orphan' = [orphan EXCEPT ![o] = IF Isolating THEN "zombie" ELSE "reaped"]
  /\ UNCHANGED <<opts, pc, code, bailey, failed, armed, relay, killed>>

Kill(p) ==
  /\ Cardinality(killed) < MaxKills
  /\ Alive(p) /\ pc[p] \notin {"running", "execed"}
  /\ killed' = killed \cup {p}
  /\ \/ p = "init" /\ InitExits(Signaled) /\ UNCHANGED writers
     \/ p # "init" /\ Exits(p, Signaled) /\ UNCHANGED orphan
  /\ UNCHANGED <<opts, pipe, net, rule, pre, post, failed, armed, relay>>

-----------------------------------------------------------------------------
Outer == Decide \/ Fork \/ AwaitReady \/ Configure \/ LetGo \/ Reap \/ Abandon
Inner == Enter \/ Announce \/ AwaitRelease
Runner(p) ==
  Lock(p) \/ PreLaunch(p) \/ Spawn(p) \/ SpawnReturns(p) \/ Wait(p) \/ PostExit(p)
Confining(q) == Fails(q) \/ Arm(q) \/ Confine(q) \/ Exec(q)
Child == Setup \/ ChildReaps \/ Confining("child")
InitProcess == Root \/ Supervise \/ Confining("init")

World ==
  \/ \E c \in Codes \cup {Signaled} : TargetEnds(c)
  \/ \E o \in Orphans : TargetAbandons(o) \/ OrphanEnds(o)
  \/ \E p \in Procs : Kill(p)

Next ==
  \/ Outer \/ Inner \/ Child \/ InitProcess \/ Handover
  \/ \E p \in Runners : Runner(p)
  \/ World

Spec == Init /\ [][Next]_vars

\* Bailey's own processes are scheduled, and pasta, nft and the hooks return.
\* The target may run for ever, and nobody has to be killed.
FairSpec ==
  /\ Spec
  /\ WF_vars(Outer) /\ WF_vars(Inner) /\ WF_vars(Child) /\ WF_vars(InitProcess)
  /\ WF_vars(Handover) /\ \A p \in Runners : WF_vars(Runner(p))

-----------------------------------------------------------------------------
(* Properties                                                              *)

\* The types of the state.
TypeOK ==
  /\ opts \in Options
  /\ pc \in [Procs -> {"none", "gone", "start", "fork", "ready", "pasta", "let go", "reap",
                       "abandon", "enter", "announce", "release", "lock", "hooks", "spawn",
                       "spawning", "wait", "post", "setup", "root", "arm", "confine", "exec",
                       "execed", "supervise", "running"}]
  /\ code \in [Procs -> 0..255]
  /\ pipe \subseteq {"ready", "release"}
  /\ writers \in [{"ready", "release"} -> SUBSET Runners]
  /\ net \in {"none", "made", "routed"} /\ rule \in {Traffic, NoLoopback, Lockdown}
  /\ pre \in Nat /\ post \in Nat /\ failed \in BOOLEAN /\ armed \in BOOLEAN
  /\ relay \in {"off", "waiting", "serving", "failed"}
  /\ orphan \in [Orphans -> {"none", "alive", "zombie", "reaped"}]
  /\ killed \subseteq Procs

\* Whatever is missing, fails or dies on the way: a target asked to run behind
\* a broker reaches the broker and nothing else; one that is denied egress
\* reaches nothing where it can have a network of its own, and connects to
\* nothing elsewhere; one allowed some ports connects to no other.  On a kernel
\* without Landlock's network rules the ports are not enforced, as
\* docs/reference/kernel.md says, and that is the only exception: a self_fuse
\* run, which gives Landlock up, is refused where it would rest on it.  No rule
\* is ever installed where the command was started (cmd_run,
\* lock_egress_to_broker, select, LandlockPlan, finalize).
Tcp(s) == {t \in s : t[1] \in TcpPorts}
EgressIsBounded ==
  /\ At("target", "running") =>
       /\ Proxied => net = "routed" /\ Reach = Lockdown
       /\ Denied /\ ~Proxied /\ opts.userns => Reach = {}
       /\ Denied /\ ~Proxied /\ opts.landlock => Tcp(Reach) = {}
       /\ opts.egress = "ports" /\ ~Proxied /\ opts.landlock =>
            \A t \in Tcp(Reach) : t[1] = "allowed"
  /\ rule # Traffic => net = "routed"

\* The hooks are run by one process, around the target (cmd_run).
HooksOnce ==
  /\ pre <= 1 /\ post <= pre
  /\ At("target", "running") => pre = 1
  /\ At("target", "running") /\ killed = {} => post = 0

\* When the command ends after its target ran, its status is the target's,
\* through up to four processes, and under isolation nothing of the sandbox
\* is left (Reap, ChildReaps, supervise).
StatusIsTargets ==
  Gone("outer") /\ killed = {} /\ pc["target"] # "none" =>
    /\ Gone("target") /\ code["outer"] = code["target"]
    /\ Isolating => \A o \in Orphans : orphan[o] \in {"none", "reaped"}

\* While a target runs it is attended: what it abandons is reaped, and its
\* forwards are served (supervise, the thread of spawn).
SandboxAttended ==
  /\ \A o \in Orphans : orphan[o] = "zombie" ~> orphan[o] # "zombie"
  /\ At("target", "running") /\ armed
       ~> Gone("target") \/ relay = "serving" \/ \A p \in Runners : ~Alive(p)

\* Nobody waits for ever except for the target: each process ends, whoever
\* failed or was killed (the pipes of wrap_in_private_namespace, the error
\* pipe of spawn, the waits of enter and supervise).
LaunchEnds ==
  []<>(At("target", "running") \/ \A p \in Procs : ~Alive(p))
===============================================================================
