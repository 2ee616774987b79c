----------------------------- MODULE TrustStore -----------------------------
(***************************************************************************)
(* The trust store and its users: `bailey trust`, `bailey untrust` and the *)
(* discovery a run performs.                                               *)
(*                                                                         *)
(* A discovered `bailey.toml` contributes to a policy only when the digest *)
(* of its contents is the one the store records for its path.  The store   *)
(* is one file, read whole by every command and replaced whole by a rename *)
(* of a staging file that is created exclusively.  Commands are separate   *)
(* processes with no lock between them, configs are edited while they run, *)
(* and any of them may die between two system calls.                       *)
(*                                                                         *)
(* Source: crates/bailey/src/trust.rs, config.rs (discover, resolve) and   *)
(* cli.rs (cmd_trust, cmd_untrust, report_untrusted).                      *)
(***************************************************************************)
EXTENDS Naturals, FiniteSets

CONSTANTS
  Procs,      \* process slots; a slot that finished runs another command
  Nested,     \* the slots that run inside a sandbox, where no store is read
  Paths,      \* the configs discovery can meet
  Global,     \* those in the user's config directory, which need no record
  Contents,   \* what a config can say
  Absent,     \* stands for "no such file" and "no such entry"
  MaxEdits,   \* bound: changes made to the configs by their owner or others
  MaxDamage,  \* bound: times the store file is left unreadable
  MaxCommands,\* bound: commands started
  MaxCrashes  \* bound: commands killed, or failed in a save

ASSUME NestedAssumption == Nested \subseteq Procs
ASSUME GlobalAssumption == Global \subseteq Paths
ASSUME BoundsAssumption == {MaxEdits, MaxDamage, MaxCommands, MaxCrashes} \subseteq Nat

\* SHA-256 of some bytes, taken to be free of collisions.
Digest(b) == [sha256 |-> b]

Digests == {Digest(b) : b \in Contents}
Entries == [Paths -> Digests \union {Absent}]
Bytes   == Contents \union {Absent}
Empty   == [path \in Paths |-> Absent]

ASSUME AbsentAssumption == Absent \notin Contents /\ Absent \notin Digests

VARIABLES
  bytes,     \* bytes[path]: the config's contents now, or Absent
  exposed,   \* the configs that somebody else may write, or move aside
  disk,      \* the store file: path -> digest
  damaged,   \* the store file cannot be read or parsed
  staging,   \* the file `trusted.toml.new`: "none", "created" or "written"
  staged,    \* what was written to it
  pc, arg,   \* what a process is doing, and the path it is doing it to
  mem,       \* the Store a process loaded
  shown,     \* what `trust` displayed of the config before recording it
  todo,      \* configs a discovery has still to check
  own,       \* global configs a discovery found no reason to reject
  verified,  \* the bytes a discovery kept because their digest was recorded
  applied,   \* <<path, bytes>> of the layers the resolved policy was built on
  accepted,  \* history: every <<path, digest>> a trust command recorded
  said,      \* history: the record the last completed command announced
  missed,    \* history: records that changed since a process loaded its Store
  undone,    \* history: records written over since they were announced
  edits, damages, commands, crashes

world   == <<bytes, exposed, edits>>
file    == <<disk, damaged, damages, staging, staged>>
command == <<mem, shown>>
run     == <<todo, own, verified, applied>>
history == <<accepted, said, missed, undone>>
counts  == <<commands, crashes>>
vars    == <<world, file, pc, arg, command, run, history, counts>>

Goto(p, label) == pc' = [pc EXCEPT ![p] = label]

\* A command ends, with whatever it had to say printed.
Finish(p) == Goto(p, "idle")

Init ==
  /\ bytes \in [Paths -> Contents]
  /\ exposed = {}
  /\ disk = Empty /\ damaged = FALSE /\ staging = "none" /\ staged = Empty
  /\ pc = [p \in Procs |-> "idle"]
  /\ \E path \in Paths : arg = [p \in Procs |-> path]
  /\ mem = [p \in Procs |-> Empty]
  /\ shown = [p \in Procs |-> Absent]
  /\ todo = [p \in Procs |-> {}]
  /\ own = [p \in Procs |-> {}]
  /\ verified = [p \in Procs |-> Empty]
  /\ applied = [p \in Procs |-> {}]
  /\ accepted = {} /\ said = Empty
  /\ missed = [p \in Procs |-> {}] /\ undone = {}
  /\ edits = 0 /\ damages = 0 /\ commands = 0 /\ crashes = 0

\* A command that may still save the Store it loaded.
Holding(p) == pc[p] \in {"show", "inspect", "digest", "create", "write", "rename"}

\* Records that change while a command holds its copy are missing from it.
Missed(paths) ==
  missed' = [p \in Procs |-> IF Holding(p) THEN missed[p] \union paths ELSE {}]

-----------------------------------------------------------------------------
(***************************************************************************)
(* The world outside: configs are edited, removed, and change hands, and   *)
(* the store file is left unreadable, which no command does.               *)
(***************************************************************************)
Edit(path) ==
  /\ edits < MaxEdits
  /\ edits' = edits + 1
  /\ \/ /\ \E b \in Bytes \ {bytes[path]} : bytes' = [bytes EXCEPT ![path] = b]
        /\ UNCHANGED exposed
     \/ /\ exposed' \in {exposed \union {path}, exposed \ {path}} \ {exposed}
        /\ UNCHANGED bytes
  /\ UNCHANGED <<file, pc, arg, command, run, history, counts>>

\* Damage to a store that records nothing changes nothing.
Damage ==
  /\ damages < MaxDamage
  /\ disk # Empty
  /\ damages' = damages + 1
  /\ damaged' = TRUE
  /\ Missed(Paths)
  /\ undone' = Paths
  /\ UNCHANGED <<world, disk, staging, staged, pc, arg, command, run, accepted, said, counts>>

(***************************************************************************)
(* Starting a command.                                                     *)
(***************************************************************************)
Start(p, label) ==
  /\ pc[p] = "idle"
  /\ commands < MaxCommands
  /\ commands' = commands + 1
  /\ Goto(p, label)
  /\ UNCHANGED <<world, file, command, history, crashes>>

StartOn(p, path, label) ==
  /\ Start(p, label)
  /\ arg' = [arg EXCEPT ![p] = path]
  /\ UNCHANGED run

StartTrust(p)   == \E path \in Paths : StartOn(p, path, "trust")
StartUntrust(p) == \E path \in Paths : StartOn(p, path, "untrust")

StartRun(p) ==
  /\ Start(p, "resolve")
  /\ applied' = [applied EXCEPT ![p] = {}]
  /\ UNCHANGED <<arg, todo, own, verified>>

\* What Store::load returns: nothing inside a sandbox, and nothing when the
\* file cannot be read or parsed.
Loaded(p) == IF p \in Nested \/ damaged THEN Empty ELSE disk

-----------------------------------------------------------------------------
(***************************************************************************)
(* `bailey trust <path>`: load the store, show the hooks the config would  *)
(* run, check who can change the file, hash it, and save.                  *)
(***************************************************************************)
TrustLoad(p) ==
  /\ pc[p] = "trust"
  /\ mem' = [mem EXCEPT ![p] = Loaded(p)]
  /\ missed' = [missed EXCEPT ![p] = {}]
  /\ Goto(p, "show")
  /\ UNCHANGED <<world, file, arg, shown, run, accepted, said, undone, counts>>

\* report_hooks reads the file on its own; one it cannot read shows nothing.
ShowHooks(p) ==
  /\ pc[p] = "show"
  /\ shown' = [shown EXCEPT ![p] = bytes[arg[p]]]
  /\ Goto(p, "inspect")
  /\ UNCHANGED <<world, file, arg, mem, run, history, counts>>

\* Store::record up to the digest: reachable, present, in nobody else's hands.
MayBeRecorded(p) ==
  /\ p \notin Nested
  /\ bytes[arg[p]] # Absent
  /\ arg[p] \notin exposed

RecordInspect(p) ==
  /\ pc[p] = "inspect"
  /\ IF MayBeRecorded(p) THEN Goto(p, "digest") ELSE Finish(p)
  /\ UNCHANGED <<world, file, arg, command, run, history, counts>>

\* Mutant: the error of the second read is dropped.
RecordUnread(p) ==
  /\ pc[p] = "digest"
  /\ mem' = [mem EXCEPT ![p][arg[p]] = Digest(bytes[arg[p]])]
  /\ accepted' = accepted \union {<<arg[p], Digest(bytes[arg[p]])>>}
  /\ Goto(p, "create")
  /\ UNCHANGED <<world, file, arg, shown, run, said, missed, undone, counts>>

\* The digest is of a read of its own, later than the one that was shown.
RecordDigest(p) ==
  LET path == arg[p] IN
  /\ pc[p] = "digest"
  /\ \/ /\ bytes[path] = Absent
        /\ Finish(p)
        /\ UNCHANGED <<mem, accepted>>
     \/ /\ bytes[path] # Absent
        /\ mem' = [mem EXCEPT ![p][path] = Digest(bytes[path])]
        /\ accepted' = accepted \union {<<path, Digest(bytes[path])>>}
        /\ Goto(p, "create")
  /\ UNCHANGED <<world, file, arg, shown, run, said, missed, undone, counts>>

\* Mutant: what is saved starts from a fresh store instead of the loaded one.
UntrustAfresh(p) ==
  /\ pc[p] = "untrust"
  /\ mem' = [mem EXCEPT ![p] = Empty]
  /\ missed' = [missed EXCEPT ![p] = {}]
  /\ IF Loaded(p)[arg[p]] = Absent THEN Finish(p) ELSE Goto(p, "create")
  /\ UNCHANGED <<world, file, arg, shown, run, accepted, said, undone, counts>>

\* `bailey untrust <path>`: load, forget; an error when there was no record.
UntrustForget(p) ==
  /\ pc[p] = "untrust"
  /\ mem' = [mem EXCEPT ![p] = [Loaded(p) EXCEPT ![arg[p]] = Absent]]
  /\ missed' = [missed EXCEPT ![p] = {}]
  /\ IF Loaded(p)[arg[p]] = Absent THEN Finish(p) ELSE Goto(p, "create")
  /\ UNCHANGED <<world, file, arg, shown, run, accepted, said, undone, counts>>

-----------------------------------------------------------------------------
(***************************************************************************)
(* Store::save_to: create the staging file exclusively, write it, rename   *)
(* it over the store.  Only then does the command announce its record.     *)
(***************************************************************************)
\* Mutant: the staging file is opened whether or not it is there.
StageAnyway == TRUE

StageFree == staging = "none"

StageCreate(p) ==
  /\ pc[p] = "create"
  /\ \/ /\ StageFree
        /\ staging' = "created"
        /\ staged' = Empty
        /\ Goto(p, "write")
     \/ /\ ~StageFree
        /\ Finish(p)
        /\ UNCHANGED <<staging, staged>>
  /\ UNCHANGED <<world, disk, damaged, damages, arg, command, run, history, counts>>

\* Mutant: the store is written where it is, and not renamed over.
WriteInPlace(p) ==
  /\ pc[p] = "write"
  /\ staging' = "written"
  /\ staged' = mem[p]
  /\ disk' = mem[p]
  /\ Goto(p, "rename")
  /\ UNCHANGED <<world, damaged, damages, arg, command, run, history, counts>>

StageWrite(p) ==
  /\ pc[p] = "write"
  /\ staging' = "written"
  /\ staged' = mem[p]
  /\ Goto(p, "rename")
  /\ UNCHANGED <<world, disk, damaged, damages, arg, command, run, history, counts>>

StageRename(p) ==
  /\ pc[p] = "rename"
  /\ disk' = staged
  /\ damaged' = FALSE
  /\ staging' = "none"
  /\ staged' = Empty
  /\ said' = [said EXCEPT ![arg[p]] = mem[p][arg[p]]]
  /\ Missed(missed[p] \union {arg[p]})
  /\ undone' = (undone \union missed[p]) \ {arg[p]}
  /\ Finish(p)
  /\ UNCHANGED <<world, damages, arg, command, run, accepted, counts>>

\* A write or a rename that fails (a full disk) is reported, and the staging
\* file stays where it is.
StageFails(p) ==
  /\ pc[p] \in {"write", "rename"}
  /\ crashes < MaxCrashes
  /\ crashes' = crashes + 1
  /\ Finish(p)
  /\ UNCHANGED <<world, file, arg, command, run, history, commands>>

-----------------------------------------------------------------------------
(***************************************************************************)
(* A run.  discover() walks to the configs that are there, loads the store *)
(* once and checks each; the layers that apply are built from the bytes    *)
(* the check read.  A global config is only checked for who may write it,  *)
(* and read afterwards.  Discovery checks in order of path depth; any      *)
(* order is allowed here.  report_untrusted(), which discovers again only  *)
(* to print, is left out.                                                  *)
(***************************************************************************)

\* Mutant: the global config is looked for inside a sandbox too.
FoundEverywhere(p) == {path \in Paths : bytes[path] # Absent}

\* Inside a sandbox the global config is not looked for at all.
Found(p) == {path \in Paths : bytes[path] # Absent}
              \ (IF p \in Nested THEN Global ELSE {})

Discover(p) ==
  /\ pc[p] = "resolve"
  /\ todo' = [todo EXCEPT ![p] = Found(p)]
  /\ mem' = [mem EXCEPT ![p] = Loaded(p)]
  /\ own' = [own EXCEPT ![p] = {}]
  /\ verified' = [verified EXCEPT ![p] = Empty]
  /\ Goto(p, "check")
  /\ UNCHANGED <<world, file, arg, shown, applied, history, counts>>

\* Rejected before the contents are read: no store, no file, exposed.
Rejected(p, path) ==
  \/ p \in Nested /\ path \notin Global
  \/ bytes[path] = Absent
  \/ path \in exposed

\* The recorded digest is the digest of what is read now.
Matches(p, path) == bytes[path] # Absent /\ mem[p][path] = Digest(bytes[path])

\* check_read on the metadata alone; only then is the file read.
CheckOne(p, path) ==
  \/ /\ Rejected(p, path)
     /\ todo' = [todo EXCEPT ![p] = @ \ {path}]
     /\ UNCHANGED <<pc, arg, own>>
  \/ /\ ~Rejected(p, path) /\ path \in Global
     /\ todo' = [todo EXCEPT ![p] = @ \ {path}]
     /\ own' = [own EXCEPT ![p] = @ \union {path}]
     /\ UNCHANGED <<pc, arg>>
  \/ /\ ~Rejected(p, path) /\ path \notin Global
     /\ arg' = [arg EXCEPT ![p] = path]
     /\ Goto(p, "read")
     /\ UNCHANGED <<todo, own>>

CheckMeta(p) ==
  /\ pc[p] = "check"
  /\ \E path \in todo[p] : CheckOne(p, path)
  /\ UNCHANGED <<world, file, command, verified, applied, history, counts>>

CheckRead(p) ==
  LET path == arg[p] IN
  /\ pc[p] = "read"
  /\ verified' = [verified EXCEPT ![p][path] =
                    IF Matches(p, path) THEN bytes[path] ELSE Absent]
  /\ todo' = [todo EXCEPT ![p] = @ \ {path}]
  /\ Goto(p, "check")
  /\ UNCHANGED <<world, file, arg, command, own, applied, history, counts>>

\* Mutant: the file is read again once it has been checked.
LayersReread(p) ==
  {<<path, bytes[path]>> : path \in {q \in Paths : verified[p][q] # Absent}}
    \union {<<path, bytes[path]>> : path \in own[p]}

\* load_verified_layer parses the bytes that were checked, not the file; a
\* global config has no checked bytes and is read here.
Layers(p) ==
  {<<path, verified[p][path]>> : path \in {q \in Paths : verified[p][q] # Absent}}
    \union {<<path, bytes[path]>> : path \in own[p]}

\* A global config that is gone by now fails the whole resolution.
Apply(p) ==
  /\ pc[p] = "check" /\ todo[p] = {}
  /\ \/ /\ \A path \in own[p] : bytes[path] # Absent
        /\ applied' = [applied EXCEPT ![p] = Layers(p)]
     \/ \E path \in own[p] : bytes[path] = Absent /\ UNCHANGED applied
  /\ Finish(p)
  /\ UNCHANGED <<world, file, arg, command, todo, own, verified, history, counts>>

-----------------------------------------------------------------------------
\* A process is killed between two system calls; the files stay as they are.
Crash(p) ==
  /\ pc[p] # "idle"
  /\ crashes < MaxCrashes
  /\ crashes' = crashes + 1
  /\ Finish(p)
  /\ UNCHANGED <<world, file, arg, command, run, history, commands>>

Next ==
  \/ \E path \in Paths : Edit(path)
  \/ Damage
  \/ \E p \in Procs :
       \/ StartTrust(p) \/ StartUntrust(p) \/ StartRun(p)
       \/ TrustLoad(p) \/ ShowHooks(p) \/ RecordInspect(p) \/ RecordDigest(p)
       \/ UntrustForget(p)
       \/ StageCreate(p) \/ StageWrite(p) \/ StageRename(p) \/ StageFails(p)
       \/ Discover(p) \/ CheckMeta(p) \/ CheckRead(p) \/ Apply(p)
       \/ Crash(p)

Spec == Init /\ [][Next]_vars

-----------------------------------------------------------------------------
(***************************************************************************)
(* Properties.                                                             *)
(***************************************************************************)
Labels == {"idle", "trust", "show", "inspect", "digest", "untrust", "create",
           "write", "rename", "resolve", "check", "read"}

\* The types of the variables: the store and every command's copy of it map
\* each path to a digest or to nothing (Store, StoreFile, Source).
TypeOK ==
  /\ bytes \in [Paths -> Bytes] /\ exposed \subseteq Paths
  /\ disk \in Entries /\ staged \in Entries
  /\ damaged \in BOOLEAN /\ staging \in {"none", "created", "written"}
  /\ pc \in [Procs -> Labels] /\ arg \in [Procs -> Paths]
  /\ mem \in [Procs -> Entries] /\ shown \in [Procs -> Bytes]
  /\ todo \in [Procs -> SUBSET Paths] /\ own \in [Procs -> SUBSET Global]
  /\ verified \in [Procs -> [Paths -> Bytes]]
  /\ applied \in [Procs -> SUBSET (Paths \X Contents)]
  /\ accepted \subseteq Paths \X Digests /\ said \in Entries
  /\ missed \in [Procs -> SUBSET Paths] /\ undone \subseteq Paths
  /\ edits \in Nat /\ damages \in Nat /\ commands \in Nat /\ crashes \in Nat

\* No policy is ever built on bytes of a discovered config that no `bailey
\* trust` accepted for that path: whatever is edited, renamed, damaged, killed
\* or run at the same time (check_read, load_verified_layer, save_to).
AppliedWasAccepted ==
  \A p \in Procs : \A layer \in applied[p] :
    layer[1] \notin Global => <<layer[1], Digest(layer[2])>> \in accepted

\* What a save renames over the store is what that same command wrote, never
\* another command's half-done file: the exclusive create is the only lock
\* there is (write_private, save_to).
StagingIsOwn ==
  \A p \in Procs : pc[p] = "rename" => staging = "written" /\ staged = mem[p]

\* What the store says of a path: nothing while it cannot be read.
Stored(path) == IF damaged THEN Absent ELSE disk[path]

\* What the store records is what the last completed commands announced: a
\* "trusted" or "no longer trusting" is undone by damage to the file, or by the
\* save of a command that had loaded the store before the record changed, and
\* by nothing else: no save of a command that saw it, whatever its path, no
\* death and no failed save (cmd_trust, cmd_untrust, save_to).
AcknowledgedHolds == \A path \in Paths \ undone : Stored(path) = said[path]

\* A save changes the record of the path its command was given, and those that
\* changed since it loaded the store, and no other; nothing but a save and damage
\* changes what the store says (Store::record and Store::forget change one
\* entry, save_to writes them all).
SaveKeepsOthers ==
  [][\A path \in Paths : Stored(path)' # Stored(path) =>
       \/ damages' # damages
       \/ \E p \in Procs : pc[p] = "rename" /\ path \in missed[p] \union {arg[p]}]_vars

\* A run inside a sandbox builds its policy on no discovered or global config
\* at all, whatever the store or the files say (store_path, discover).
NestedAppliesNothing == \A p \in Nested : applied[p] = {}
=============================================================================
