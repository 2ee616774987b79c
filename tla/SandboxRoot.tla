------------------------------ MODULE SandboxRoot ------------------------------
(***************************************************************************)
(* The file system an isolated target sees: how a policy becomes a list of *)
(* mounts and Landlock rules, and what those add up to once they are made. *)
(*                                                                         *)
(* bailey derives the world and plans from the policy and the host as it   *)
(* finds them.  Later a child makes the mounts one at a time, in a mount   *)
(* namespace of its own beneath a fresh root; a step that fails refuses    *)
(* the run.  Landlock comes last.  Meanwhile the host goes on: a path may  *)
(* vanish before it is bound, and one may appear at any time.              *)
(*                                                                         *)
(* A path is a sequence of names, and names are numbers because the code   *)
(* sorts paths.  A place in the new root resolves through the mounts to a  *)
(* node: a file system and a path in it.                                   *)
(*                                                                         *)
(* Source: crates/bailey/src/backend/world.rs (derive), enforce.rs         *)
(* (LandlockPlan, build_isolation_plan), isolation.rs (setup_root).        *)
(***************************************************************************)
EXTENDS Naturals, Sequences, SequencesExt

CONSTANTS
  HostPaths,      \* the paths the host may have, closed under parents
  Files,          \* those of them that are files, the others are directories
  Volatile,       \* the paths that may appear and vanish
  Home, Tmp, Shm, Pts, \* the real home, /tmp, /dev/shm and /dev/pts
  Places,         \* where a policy may place a grant
  Policies,       \* the policies a run may be given
  MaxChanges      \* bound: paths that appear or vanish

Rights == {"read", "write", "execute"}
Under(p, q)    == IsPrefix(q, p)            \* p.starts_with(q)
Beneath(p, q)  == IsStrictPrefix(q, p)
Rest(p, q)     == SubSeq(p, Len(q) + 1, Len(p))  \* p.strip_prefix(q)
Parent(p)      == SubSeq(p, 1, Len(p) - 1)
\* The order of PathBuf.
Before(p, q) ==
  \/ Beneath(q, p)
  \/ \E i \in 1..Len(p) : /\ i <= Len(q) /\ p[i] < q[i]
                          /\ SubSeq(p, 1, i - 1) = SubSeq(q, 1, i - 1)
First(S) == CHOOSE p \in S : \A q \in S \ {p} : Before(p, q)

\* The names a path of the host may have for the target.
Names == HostPaths \cup UNION {{at \o Rest(p, q) : q \in {q \in HostPaths : Under(p, q)}} :
                                 at \in Places, p \in HostPaths}

ASSUME PathsAssumption ==
  /\ HostPaths \cup Places \subseteq Seq(Nat) /\ IsFiniteSet(HostPaths)
  /\ \A p \in HostPaths : \A n \in 0..(Len(p) - 1) : SubSeq(p, 1, n) \in HostPaths \ Files
  /\ Volatile \subseteq Files /\ Files \subseteq HostPaths
  /\ {<<>>, Home, Tmp, Shm, Pts} \subseteq HostPaths \ Files
  /\ Len(Home) = 1 /\ Len(Tmp) = 1 /\ Home # Tmp  \* as /tmp is; MountPrivate
  /\ MaxChanges \in Nat

\* A policy grants paths of the host, and has denials and islands by any of
\* their names; an island beneath where the host has a relocated grant is one
\* of its paths.  A launch directory may have lost its grant again.
WellFormed(given) ==
  /\ DOMAIN given.rules \cup given.implicit \subseteq HostPaths
  /\ \A p \in DOMAIN given.rules : /\ given.rules[p].rights \subseteq Rights
                                   /\ given.rules[p].at \in Places \cup {p}
  /\ given.denied \cup given.read_only \subseteq Names /\ IsFiniteSet(given.read_only)
  /\ \A r \in given.read_only \ HostPaths, p \in DOMAIN given.rules :
       Under(r, p) => given.rules[p].at = p

ASSUME PoliciesAssumption == \A given \in Policies : WellFormed(given)

VARIABLES
  policy,     \* rules (rights, and where each is placed), denied, read_only;
              \* the directories granted on the user's behalf (implicit)
  pc,
  binds, covers, remounts, \* what is left to mount of the plan
  landlock,   \* the Landlock rules: planned, then applied
  mounts,     \* the new root: what is mounted where
  dirs, files, \* the nodes there are
  changes,
  seen        \* history: the host paths there since the plan was made

plan  == <<binds, covers, remounts, landlock>>
root  == <<mounts, dirs, files>>
vars  == <<policy, pc, plan, root, changes, seen>>

Host(p)     == <<"host", p>>
OnHost(p)   == Host(p) \in dirs \cup files
Granted     == DOMAIN policy.rules
At(p)       == policy.rules[p].at
Moved(p)    == At(p) # p
Writes(p)   == "write" \in policy.rules[p].rights

Init ==
  /\ policy \in Policies
  /\ pc = "plan"
  /\ binds = {} /\ covers = {} /\ remounts = <<>> /\ landlock = {}
  /\ mounts = <<>>
  /\ dirs = {Host(p) : p \in HostPaths \ Files}
  /\ \E absent \in SUBSET Volatile : files = {Host(p) : p \in Files \ absent}
  /\ changes = 0 /\ seen = {}

-----------------------------------------------------------------------------
(* The world (World::derive).                                              *)

CoveredByGrant(path) == \E p \in Granted : Under(path, p) \/ Under(path, At(p))
PolicyTouches(path)  == \E p \in Granted : Under(path, At(p)) \/ Under(At(p), path)

PrivateHome == ~CoveredByGrant(Home)
PrivateTmp  == ~PolicyTouches(Tmp)
PrivateShm  == ~PolicyTouches(Shm)
Devpts      == PolicyTouches(Pts)

-----------------------------------------------------------------------------
(* The plan (LandlockPlan::build, build_isolation_plan).                   *)

\* Mutant: a name is taken for the host's as it stands.
ToHostUnmoved(path) == path

\* The first relocated grant that matches is followed.
ToHost(path) ==
  LET hits == {p \in Granted : Moved(p) /\ Under(path, At(p))} IN
  IF hits = {} THEN path ELSE First(hits) \o Rest(path, At(First(hits)))

ToVisible(path) ==
  LET hits == {p \in Granted : Moved(p) /\ Under(path, p)} IN
  IF hits = {} THEN path ELSE At(First(hits)) \o Rest(path, First(hits))

DeniedPaths == {ToHost(d) : d \in policy.denied}

\* Mutant: what comes along is bound once more.
BoundAgain == {p \in Granted : OnHost(p) /\ \A d \in DeniedPaths : ~Under(p, d)}

\* What is beneath a directory that is bound comes along with it.
Bound ==
  LET live == {p \in Granted : OnHost(p) /\ \A d \in DeniedPaths : ~Under(p, d)} IN
  {p \in live : \A q \in live : ~Beneath(p, q)}

\* A denied path is covered where its parent's bind puts it.
Concealed ==
  UNION {{At(b) \o Rest(d, b) : d \in {d \in DeniedPaths : Under(d, b) /\ OnHost(d)}} : b \in Bound}

\* Grants without write beneath what bailey made writable of its own accord.
UnwritableBeneathImplicit ==
  LET roots == {ToVisible(r) : r \in policy.implicit} \cup (IF PrivateHome THEN {Home} ELSE {})
  IN  {p \in Granted : ~Writes(p) /\ \E r \in roots : Beneath(At(p), r)}

\* Mutant: only a writable ancestor keeps a read grant from being remounted.
MetadataDescendants ==
  {p \in Granted : ~Writes(p) /\ \A q \in Granted : Writes(q) => ~Under(p, q)}

\* Grants without write that no grant with it overlaps: Landlock does not
\* mediate chmod and the like, and a read-only mount does.
MetadataReadOnly ==
  {p \in Granted : ~Writes(p) /\ \A q \in Granted : Writes(q) => ~Under(p, q) /\ ~Under(q, p)}

\* By where the target sees it, each with the host's spelling; an island's
\* comes first.
ReadOnly ==
  LET islands == {[at |-> ToVisible(r), host |-> r] : r \in policy.read_only}
      grants  == {[at |-> At(p), host |-> p] : p \in UnwritableBeneathImplicit \cup MetadataReadOnly}
      spelt(at, S) == First({e.host : e \in {e \in S : e.at = at}})
  IN  [at \in {e.at : e \in islands \cup grants} |->
         IF \E e \in islands : e.at = at THEN spelt(at, islands) ELSE spelt(at, grants)]

Allows(path, rights) == [at |-> path, rights |-> rights]
LandlockPlan ==
  {Allows(At(p), policy.rules[p].rights) : p \in Granted}
    \cup {Allows(area, {"read", "write"}) :
            area \in (IF PrivateHome THEN {Home} ELSE {}) \cup (IF PrivateTmp THEN {Tmp} ELSE {})
                        \cup (IF PrivateShm THEN {Shm} ELSE {})}

Plan ==
  /\ pc = "plan"
  /\ binds' = Bound /\ covers' = Concealed /\ remounts' = ReadOnly /\ landlock' = LandlockPlan
  /\ seen' = {p \in HostPaths : OnHost(p)}
  /\ pc' = "root"
  /\ UNCHANGED <<policy, root, changes>>

-----------------------------------------------------------------------------
(* The new root (setup_root).                                              *)

\* The node a path of the new root is.
MountOf(path) == CHOOSE m \in DOMAIN mounts : Under(path, m) /\
                   \A n \in DOMAIN mounts : Under(path, n) => Len(n) <= Len(m)
Resolve(path) == <<mounts[MountOf(path)].fs, mounts[MountOf(path)].path \o Rest(path, MountOf(path))>>
InRoot(path)  == Resolve(path) \in dirs \cup files

\* What is mounted hides the mounts beneath it.
Mount(new) ==
  [q \in DOMAIN new \cup {r \in DOMAIN mounts : \A p \in DOMAIN new : ~Beneath(r, p)} |->
     IF q \in DOMAIN new THEN new[q] ELSE mounts[q]]

Fresh(fs, path) == [fs |-> fs, path |-> path, ro |-> FALSE]
Refused == pc' = "refused" /\ UNCHANGED <<plan, root>>

\* The private home and /tmp go before the binds, so that a grant beneath
\* one lands in it.
MountPrivate ==
  LET areas == (IF PrivateHome THEN {Home} ELSE {}) \cup (IF PrivateTmp THEN {Tmp} ELSE {}) IN
  /\ pc = "root"
  /\ mounts' = [q \in {<<>>} \cup areas |-> Fresh(IF q = <<>> THEN "root" ELSE "private", q)]
  /\ dirs' = dirs \cup {<<"root", a>> : a \in areas \cup {<<>>}} \cup {<<"private", a>> : a \in areas}
  /\ pc' = "bind"
  /\ UNCHANGED <<policy, plan, files, changes, seen>>

\* make_beneath: the mountpoint and what is above it are made where missing,
\* in whatever file system they fall.
Made(path, isDir) == {Resolve(SubSeq(path, 1, i)) : i \in 1..(IF isDir THEN Len(path) ELSE Len(path) - 1)}
Fits(path, isDir) ==
  /\ Made(path, isDir) \cap files = {}
  /\ ~isDir => Resolve(path) \notin dirs

Bind ==
  LET p == First(binds)
      isDir == p \notin Files IN
  /\ pc = "bind" /\ binds # {}
  /\ \/ /\ OnHost(p) /\ Fits(At(p), isDir)
        /\ dirs' = dirs \cup Made(At(p), isDir)
        /\ files' = IF isDir THEN files ELSE files \cup {Resolve(At(p))}
        /\ mounts' = Mount([q \in {At(p)} |-> Fresh("host", p)])
        /\ binds' = binds \ {p}
        /\ UNCHANGED <<pc, covers, remounts, landlock>>
     \/ ~(OnHost(p) /\ Fits(At(p), isDir)) /\ Refused
  /\ UNCHANGED <<policy, changes, seen>>

\* /dev/shm and /dev/pts go after the binds, which may cover /dev.
MountDevices ==
  LET areas == (IF PrivateShm THEN {Shm} ELSE {}) \cup (IF Devpts THEN {Pts} ELSE {}) IN
  /\ pc = "bind" /\ binds = {}
  /\ \/ /\ \A a \in areas : Fits(a, TRUE)
        /\ dirs' = dirs \cup (UNION {Made(a, TRUE) : a \in areas}) \cup {<<"private", a>> : a \in areas}
        /\ mounts' = Mount([q \in areas |-> Fresh("private", q)])
        /\ pc' = "conceal"
        /\ UNCHANGED <<files, plan>>
     \/ ~(\A a \in areas : Fits(a, TRUE)) /\ Refused
  /\ UNCHANGED <<policy, changes, seen>>

\* An empty read-only file system over a directory, an empty file over a file.
Conceal ==
  /\ pc = "conceal"
  /\ LET there == {c \in covers : InRoot(c)} IN
       mounts' = Mount([q \in {c \in there : \A d \in there : ~Beneath(c, d)} |->
                          [fs |-> "cover", path |-> q, ro |-> TRUE]])
  /\ dirs' = dirs \cup {<<"cover", c>> : c \in covers}
  /\ covers' = {} /\ pc' = "remount"
  /\ UNCHANGED <<policy, binds, remounts, landlock, files, changes, seen>>

\* A path is bound over itself, with what is mounted beneath it, and that
\* bind is made read-only.  One the new root lost refuses the run.
Remount ==
  LET at == First(DOMAIN remounts)
      again == [fs |-> Resolve(at)[1], path |-> Resolve(at)[2], ro |-> TRUE] IN
  /\ pc = "remount" /\ DOMAIN remounts # {}
  /\ \/ /\ InRoot(at) \/ ~OnHost(remounts[at])
        /\ mounts' = IF InRoot(at)
                     THEN [q \in {at} \cup DOMAIN mounts |-> IF q = at THEN again ELSE mounts[q]]
                     ELSE mounts
        /\ remounts' = [q \in DOMAIN remounts \ {at} |-> remounts[q]]
        /\ UNCHANGED <<pc, binds, covers, landlock, dirs, files>>
     \/ ~InRoot(at) /\ OnHost(remounts[at]) /\ Refused
  /\ UNCHANGED <<policy, changes, seen>>

\* A rule whose path the new root does not have is skipped.
ApplyLandlock ==
  /\ pc = "remount" /\ DOMAIN remounts = {}
  /\ landlock' = {l \in landlock : InRoot(l.at)}
  /\ pc' = "running"
  /\ UNCHANGED <<policy, binds, covers, remounts, root, changes, seen>>

-----------------------------------------------------------------------------
(* The host, meanwhile.                                                    *)

Appears(p) ==
  /\ changes < MaxChanges /\ pc # "refused" /\ ~OnHost(p)
  /\ files' = files \cup {Host(p)} /\ changes' = changes + 1
  /\ UNCHANGED <<policy, pc, plan, mounts, dirs, seen>>

\* What is mounted, or mounted upon, stays.
Vanishes(p) ==
  /\ changes < MaxChanges /\ pc = "root" /\ OnHost(p)
  /\ files' = files \ {Host(p)} /\ seen' = seen \ {p} /\ changes' = changes + 1
  /\ UNCHANGED <<policy, pc, plan, mounts, dirs>>

\* A path of the policy that cannot be probed, and a mount, a mountpoint or a
\* rule that cannot be made, refuse the run.
Fails ==
  /\ pc \notin {"running", "refused"} /\ Refused
  /\ UNCHANGED <<policy, changes, seen>>

Setup == Plan \/ MountPrivate \/ Bind \/ MountDevices \/ Conceal \/ Remount \/ ApplyLandlock \/ Fails
Next  == Setup \/ \E p \in Volatile : Appears(p) \/ Vanishes(p)
Spec  == Init /\ [][Next]_vars

-----------------------------------------------------------------------------
(* What the target can do, and what it should be able to do.               *)

Effective(v) ==
  (UNION {l.rights : l \in {m \in landlock : Under(v, m.at)}})
     \ (IF mounts[MountOf(v)].ro THEN {"write"} ELSE {})

\* The user's own grants; bailey's launch directory gives way to a narrower
\* one beneath it.
Written == Granted \ policy.implicit
Launch  == Granted \cap policy.implicit
Wanted(v) ==
  ((UNION {policy.rules[p].rights : p \in {q \in Granted : Under(v, At(q))}})
     \cup (IF PrivateHome /\ Under(v, Home) THEN {"read"} ELSE {}))
    \ (IF \/ \E p \in Written : Under(v, At(p)) /\ Writes(p)
          \/ /\ \E r \in Launch : Under(v, At(r))
             /\ \A p \in Written \cap seen : Under(v, At(p)) => \A r \in Launch : ~Beneath(At(p), At(r))
       THEN {} ELSE {"write"})

\* A denial is of what the host has at its path, and beneath the place of a
\* relocated grant of what the target finds there.
Denies(d, h, v) ==
  Under(h, d) \/ (Under(v, d) /\ \E p \in Granted : Moved(p) /\ Under(d, At(p)))

\* It is beneath the place of a relocated grant and bears on another grant too.
Ambiguous(d) ==
  \E p, q \in Granted : /\ p # q /\ Moved(p) /\ Under(d, At(p))
                        /\ \E name \in {q, At(q)} : Under(d, name) \/ Under(name, d)

\* The types of the state, and that no bind is beneath another one's source.
TypeOK ==
  /\ Granted \subseteq HostPaths /\ \A p \in Granted : At(p) \in Names
  /\ pc \in {"plan", "root", "bind", "conceal", "remount", "running", "refused"}
  /\ binds \subseteq Granted /\ \A p, q \in binds : ~Beneath(p, q)
  /\ covers \subseteq Names /\ DOMAIN remounts \subseteq Names
  /\ \A l \in landlock : l.at \in Names /\ l.rights \subseteq Rights
  /\ DOMAIN mounts \subseteq Names
  /\ \A m \in DOMAIN mounts : mounts[m].fs \in {"root", "private", "host", "cover"}
  /\ {n[1] : n \in dirs \cup files} \subseteq {"root", "private", "host", "cover"}
  /\ changes \in 0..MaxChanges /\ seen \subseteq HostPaths

\* The user granted writing within an island.
Reopened(v, island) ==
  \E p \in Granted : Writes(p) /\ Under(v, At(p)) /\ (Under(p, island) \/ Under(At(p), island))

\* What of the host a target reaches it was granted, where it reaches it and
\* with no more than the rights written for it.  Nothing of the host's home,
\* /tmp or /dev/shm shows through; bailey's own writable areas make nothing
\* beneath them writable, and only the private home widens a grant, by reading
\* (add_world_grants).  A path that was denied, or made an island, under either
\* of its names, is one however its parents were granted or placed, unless a
\* denial bears on two grants one of which is relocated: DenialsAreApplied says
\* what goes wrong there (build_isolation_plan, setup_root, LandlockPlan).
ReachIsGranted ==
  pc = "running" => \A v \in Names : InRoot(v) /\ Resolve(v)[1] = "host" =>
    LET h == Resolve(v)[2] IN
    /\ \E p \in Granted : Under(h, p) /\ v = At(p) \o Rest(h, p)
    /\ Effective(v) \subseteq Wanted(v)
    /\ \A d \in policy.denied : ~Ambiguous(d) /\ {h, d, ToHost(d)} \cap seen # {} => ~Denies(d, h, v)
    /\ \A r \in policy.read_only : (Under(h, r) \/ Under(v, r)) /\ {r, ToHost(r)} \cap seen # {} =>
         "write" \notin Effective(v) \/ Reopened(v, r)

\* A grant keeps the rights it was written with.  Left aside: grants under a
\* denial or an island, grants placed beneath others or beneath which others
\* were moved away, and writing beneath a grant that bailey remounts.
Narrowed(p) ==
  \/ \E d \in policy.denied \cup policy.read_only : Under(p, d) \/ Under(At(p), d)
  \/ \E q \in Granted : (Beneath(p, q) \/ Beneath(At(p), At(q))) /\ (Moved(p) \/ Moved(q))
GrantsKeepRights ==
  pc = "running" => \A p \in Granted : p \in seen /\ ~Narrowed(p) =>
    \/ policy.rules[p].rights \subseteq Effective(At(p))
    \/ \E q \in UnwritableBeneathImplicit : Beneath(p, q)

\* What docs/guide/environment.md:115 says: "A grant inside the home keeps the
\* rights it was written with."
HomeGrantsKeepRights ==
  pc = "running" => \A p \in Granted : p \in seen /\ ~Narrowed(p) /\ Beneath(p, Home) =>
    policy.rules[p].rights \subseteq Effective(At(p))

===============================================================================
