------------------------- MODULE TrustStoreProofs -------------------------
(***************************************************************************)
(* Theorems about TrustStore, for any number of processes, configs and     *)
(* contents: the types, that no policy is built on a discovered config     *)
(* nobody accepted, and that the store says what the commands announced    *)
(* but for what an overlap or damage undid.                                *)
(***************************************************************************)
EXTENDS TrustStore, TLAPS

-----------------------------------------------------------------------------
(***************************************************************************)
(* Type correctness.                                                       *)
(***************************************************************************)

\* What a command loads is a map from the paths to digests or nothing.
LEMMA LoadedType ==
  ASSUME TypeOK, NEW p \in Procs
  PROVE  Loaded(p) \in Entries
  BY DEF TypeOK, Loaded, Entries, Empty

\* The layers a run applies are pairs of a path and contents, when the global
\* configs it is about to read are all there.
LEMMA LayersType ==
  ASSUME TypeOK, NEW p \in Procs, \A path \in own[p] : bytes[path] # Absent
  PROVE  Layers(p) \subseteq Paths \X Contents
<1>1. \A path \in Paths : verified[p][path] # Absent => verified[p][path] \in Contents
  BY DEF TypeOK, Bytes
<1>2. \A path \in own[p] : path \in Paths /\ bytes[path] \in Contents
  BY GlobalAssumption DEF TypeOK, Bytes
<1> QED BY <1>1, <1>2 DEF Layers

\* The initial values have their types.
LEMMA TypeInit == Init => TypeOK
<1> SUFFICES ASSUME Init PROVE TypeOK
  OBVIOUS
<1>1. Empty \in Entries /\ Empty \in [Paths -> Bytes]
  BY DEF Empty, Entries, Bytes
<1>2. bytes \in [Paths -> Bytes]
  BY DEF Init, Bytes
<1>3. disk \in Entries /\ staged \in Entries /\ said \in Entries /\ mem \in [Procs -> Entries]
  BY <1>1 DEF Init
<1>4. shown \in [Procs -> Bytes] /\ verified \in [Procs -> [Paths -> Bytes]]
  BY <1>1 DEF Init, Bytes
<1>5. pc \in [Procs -> Labels] /\ arg \in [Procs -> Paths]
  BY DEF Init, Labels
<1> QED BY <1>2, <1>3, <1>4, <1>5 DEF Init, TypeOK

\* Every step keeps the types.
LEMMA TypeStep == TypeOK /\ [Next]_vars => TypeOK'
<1> SUFFICES ASSUME TypeOK, [Next]_vars PROVE TypeOK'
  OBVIOUS
<1> USE DEF TypeOK, world, file, command, run, history, counts, Goto, Finish, Labels
<1>1. CASE UNCHANGED vars
  BY <1>1 DEF vars
<1>2. ASSUME NEW path \in Paths, Edit(path) PROVE TypeOK'
  BY <1>2 DEF Edit, Bytes
<1>3. CASE Damage
  BY <1>3 DEF Damage, Missed
<1>4. ASSUME NEW p \in Procs, StartTrust(p) PROVE TypeOK'
  BY <1>4 DEF StartTrust, StartOn, Start
<1>5. ASSUME NEW p \in Procs, StartUntrust(p) PROVE TypeOK'
  BY <1>5 DEF StartUntrust, StartOn, Start
<1>6. ASSUME NEW p \in Procs, StartRun(p) PROVE TypeOK'
  BY <1>6 DEF StartRun, Start
<1>7. ASSUME NEW p \in Procs, TrustLoad(p) PROVE TypeOK'
  BY <1>7, LoadedType DEF TrustLoad
<1>8. ASSUME NEW p \in Procs, ShowHooks(p) PROVE TypeOK'
  BY <1>8 DEF ShowHooks
<1>9. ASSUME NEW p \in Procs, RecordInspect(p) PROVE TypeOK'
  BY <1>9 DEF RecordInspect
<1>10. ASSUME NEW p \in Procs, RecordDigest(p) PROVE TypeOK'
  <2>1. CASE bytes[arg[p]] = Absent
    BY <1>10, <2>1 DEF RecordDigest
  <2>2. CASE bytes[arg[p]] # Absent
    <3>1. arg[p] \in Paths /\ Digest(bytes[arg[p]]) \in Digests
      BY <2>2 DEF Bytes, Digests
    <3>2. mem' \in [Procs -> Entries]
      <4> DEFINE new == [mem[p] EXCEPT ![arg[p]] = Digest(bytes[arg[p]])]
      <4>1. new \in Entries
        BY <3>1 DEF Entries
      <4>2. mem' = [mem EXCEPT ![p] = new]
        BY <1>10, <2>2 DEF RecordDigest
      <4> QED BY <4>1, <4>2
    <3>3. accepted' = accepted \union {<<arg[p], Digest(bytes[arg[p]])>>}
      BY <1>10, <2>2 DEF RecordDigest
    <3>4. accepted' \subseteq Paths \X Digests
      BY <3>1, <3>3
    <3> QED BY <1>10, <2>2, <3>2, <3>4 DEF RecordDigest
  <2> QED BY <2>1, <2>2
<1>11. ASSUME NEW p \in Procs, UntrustForget(p) PROVE TypeOK'
  BY <1>11, LoadedType DEF UntrustForget, Entries
<1>12. ASSUME NEW p \in Procs, StageCreate(p) PROVE TypeOK'
  BY <1>12 DEF StageCreate, Entries, Empty
<1>13. ASSUME NEW p \in Procs, StageWrite(p) PROVE TypeOK'
  BY <1>13 DEF StageWrite
<1>14. ASSUME NEW p \in Procs, StageRename(p) PROVE TypeOK'
  BY <1>14 DEF StageRename, Missed, Entries, Empty
<1>15. ASSUME NEW p \in Procs, StageFails(p) PROVE TypeOK'
  BY <1>15 DEF StageFails
<1>16. ASSUME NEW p \in Procs, Discover(p) PROVE TypeOK'
  BY <1>16, LoadedType DEF Discover, Found, Empty, Bytes
<1>17. ASSUME NEW p \in Procs, CheckMeta(p) PROVE TypeOK'
  <2>1. PICK path \in todo[p] : CheckOne(p, path)
    BY <1>17 DEF CheckMeta
  <2>2. path \in Paths
    OBVIOUS
  <2>3. \/ UNCHANGED todo
        \/ todo' = [todo EXCEPT ![p] = todo[p] \ {path}]
    BY <2>1 DEF CheckOne
  <2>4. \/ UNCHANGED own
        \/ path \in Global /\ own' = [own EXCEPT ![p] = own[p] \union {path}]
    BY <2>1 DEF CheckOne
  <2>5. \/ UNCHANGED <<pc, arg>>
        \/ pc' = [pc EXCEPT ![p] = "read"] /\ arg' = [arg EXCEPT ![p] = path]
    BY <2>1 DEF CheckOne
  <2>6. todo' \in [Procs -> SUBSET Paths]
    BY <2>3
  <2>7. own' \in [Procs -> SUBSET Global]
    BY <2>4
  <2>8. pc' \in [Procs -> Labels] /\ arg' \in [Procs -> Paths]
    BY <2>2, <2>5
  <2> QED BY <1>17, <2>6, <2>7, <2>8 DEF CheckMeta
<1>18. ASSUME NEW p \in Procs, CheckRead(p) PROVE TypeOK'
  BY <1>18 DEF CheckRead, Bytes
<1>19. ASSUME NEW p \in Procs, Apply(p) PROVE TypeOK'
  <2>1. CASE \A path \in own[p] : bytes[path] # Absent
    <3>1. Layers(p) \in SUBSET (Paths \X Contents)
      BY <2>1, LayersType
    <3>2. applied' \in [Procs -> SUBSET (Paths \X Contents)]
      BY <1>19, <2>1, <3>1 DEF Apply
    <3> QED BY <1>19, <3>2 DEF Apply
  <2>2. CASE \E path \in own[p] : bytes[path] = Absent
    BY <1>19, <2>2 DEF Apply
  <2> QED BY <2>1, <2>2
<1>20. ASSUME NEW p \in Procs, Crash(p) PROVE TypeOK'
  BY <1>20 DEF Crash
<1> HIDE DEF TypeOK, world, file, command, run, history, counts, Goto, Finish, Labels
<1> QED
  BY <1>1, <1>2, <1>3, <1>4, <1>5, <1>6, <1>7, <1>8, <1>9, <1>10, <1>11, <1>12,
     <1>13, <1>14, <1>15, <1>16, <1>17, <1>18, <1>19, <1>20
  DEF Next

\* Whatever the commands do, every variable keeps its type.
THEOREM TypeCorrect == Spec => []TypeOK
<1>1. Init => TypeOK BY TypeInit
<1>2. TypeOK /\ [Next]_vars => TypeOK' BY TypeStep
<1> QED BY <1>1, <1>2, PTL DEF Spec

-----------------------------------------------------------------------------
(***************************************************************************)
(* Only accepted bytes apply.  Digests travel from `trust` into a store a  *)
(* command holds, the staging file, the store file, other commands' copies *)
(* of it, and a run's verdicts: the invariant says that of each of them.   *)
(***************************************************************************)
Recorded(entries) ==
  \A path \in Paths : entries[path] # Absent => <<path, entries[path]>> \in accepted

StoresRecorded ==
  Recorded(disk) /\ Recorded(staged) /\ \A p \in Procs : Recorded(mem[p])

VerifiedRecorded ==
  \A p \in Procs, path \in Paths :
    verified[p][path] # Absent => <<path, Digest(verified[p][path])>> \in accepted

AcceptedInv == TypeOK /\ StoresRecorded /\ VerifiedRecorded /\ AppliedWasAccepted

\* Nothing accepted is ever forgotten: accepted is a history.
LEMMA AcceptedGrows == [Next]_vars => accepted \subseteq accepted'
  BY DEF Next, vars, history, Edit, Damage, StartTrust, StartUntrust, StartRun,
         StartOn, Start, TrustLoad, ShowHooks, RecordInspect, RecordDigest,
         UntrustForget, StageCreate, StageWrite, StageRename, StageFails,
         Discover, CheckMeta, CheckRead, Apply, Crash

\* The empty store records nothing, and a loaded one nothing unaccepted.
LEMMA LoadedRecorded ==
  ASSUME Recorded(disk), NEW p
  PROVE  Recorded(Loaded(p)) /\ Recorded(Empty)
  BY DEF Recorded, Loaded, Empty

\* What is recorded stays so while accepted grows.
LEMMA RecordedStays ==
  ASSUME NEW entries, Recorded(entries), accepted \subseteq accepted'
  PROVE  \A path \in Paths : entries[path] # Absent => <<path, entries[path]>> \in accepted'
  BY DEF Recorded

\* Every copy of the store, on disk or in a process, holds accepted digests.
LEMMA StoresStep ==
  ASSUME TypeOK, StoresRecorded, [Next]_vars
  PROVE  StoresRecorded'
<1> USE DEF StoresRecorded, world, file, command, history
<1>1. accepted \subseteq accepted'
  BY AcceptedGrows
<1> DEFINE Held(entries) ==
      \A path \in Paths : entries[path] # Absent => <<path, entries[path]>> \in accepted'
<1>2. Held(disk) /\ Held(staged) /\ Held(Empty) /\ \A p \in Procs : Held(mem[p]) /\ Held(Loaded(p))
  BY <1>1, LoadedRecorded, RecordedStays
<1>3. SUFFICES Held(disk') /\ Held(staged') /\ \A p \in Procs : Held(mem'[p])
  BY DEF Recorded
<1>4. \A p \in Procs : mem \in [Procs -> Entries]
  BY DEF TypeOK
<1>5. CASE UNCHANGED <<disk, staged, mem>>
  BY <1>2, <1>5
<1>6. ASSUME NEW p \in Procs, TrustLoad(p) PROVE Held(disk') /\ Held(staged') /\ \A q \in Procs : Held(mem'[q])
  BY <1>2, <1>4, <1>6 DEF TrustLoad
<1>7. ASSUME NEW p \in Procs, Discover(p)
      PROVE Held(disk') /\ Held(staged') /\ \A q \in Procs : Held(mem'[q])
  BY <1>2, <1>4, <1>7 DEF Discover
<1>8. ASSUME NEW p \in Procs, RecordDigest(p) PROVE Held(disk') /\ Held(staged') /\ \A q \in Procs : Held(mem'[q])
  <2>1. CASE bytes[arg[p]] = Absent
    BY <1>2, <1>8, <2>1 DEF RecordDigest
  <2>2. CASE bytes[arg[p]] # Absent
    <3> DEFINE new == [mem[p] EXCEPT ![arg[p]] = Digest(bytes[arg[p]])]
    <3>1. mem' = [mem EXCEPT ![p] = new] /\ UNCHANGED <<disk, staged>>
      BY <1>8, <2>2 DEF RecordDigest
    <3>2. <<arg[p], Digest(bytes[arg[p]])>> \in accepted'
      BY <1>8, <2>2 DEF RecordDigest
    <3>3. Held(new)
      BY <1>2, <1>4, <3>2 DEF Entries
    <3> HIDE DEF new, Held
    <3> QED BY <1>2, <1>4, <3>1, <3>3
  <2> QED BY <2>1, <2>2
<1>9. ASSUME NEW p \in Procs, UntrustForget(p) PROVE Held(disk') /\ Held(staged') /\ \A q \in Procs : Held(mem'[q])
  <2> DEFINE new == [Loaded(p) EXCEPT ![arg[p]] = Absent]
  <2>1. mem' = [mem EXCEPT ![p] = new] /\ UNCHANGED <<disk, staged>>
    BY <1>9 DEF UntrustForget
  <2>2. Loaded(p) \in Entries
    BY LoadedType
  <2>3. Held(new)
    BY <1>2, <2>2 DEF Entries
  <2> HIDE DEF new, Held
  <2> QED BY <1>2, <1>4, <2>1, <2>3
<1>10. ASSUME NEW p \in Procs, StageCreate(p) PROVE Held(disk') /\ Held(staged') /\ \A q \in Procs : Held(mem'[q])
  BY <1>2, <1>10 DEF StageCreate
<1>11. ASSUME NEW p \in Procs, StageWrite(p) PROVE Held(disk') /\ Held(staged') /\ \A q \in Procs : Held(mem'[q])
  BY <1>2, <1>11 DEF StageWrite
<1>12. ASSUME NEW p \in Procs, StageRename(p) PROVE Held(disk') /\ Held(staged') /\ \A q \in Procs : Held(mem'[q])
  BY <1>2, <1>12 DEF StageRename
<1>13. \/ UNCHANGED <<disk, staged, mem>>
       \/ \E p \in Procs :
            \/ TrustLoad(p) \/ RecordDigest(p) \/ UntrustForget(p)
            \/ StageCreate(p) \/ StageWrite(p) \/ StageRename(p)
            \/ Discover(p)
  BY DEF Next, vars, Edit, Damage, StartTrust, StartUntrust, StartRun, StartOn, Start,
         ShowHooks, RecordInspect, StageFails, CheckMeta, CheckRead, Apply, Crash
<1> HIDE DEF Held
<1> QED BY <1>5, <1>6, <1>7, <1>8, <1>9, <1>10, <1>11, <1>12, <1>13

\* Bytes a discovery kept are the bytes of an accepted digest.
LEMMA VerifiedStep ==
  ASSUME TypeOK, StoresRecorded, VerifiedRecorded, [Next]_vars
  PROVE  VerifiedRecorded'
<1>1. accepted \subseteq accepted'
  BY AcceptedGrows
<1>2. CASE UNCHANGED verified
  BY <1>1, <1>2 DEF VerifiedRecorded
<1>3. ASSUME NEW p \in Procs, Discover(p) PROVE VerifiedRecorded'
  BY <1>1, <1>3 DEF Discover, VerifiedRecorded, TypeOK, Empty
<1>4. ASSUME NEW p \in Procs, CheckRead(p) PROVE VerifiedRecorded'
  <2> DEFINE path == arg[p]
  <2>1. path \in Paths /\ verified \in [Procs -> [Paths -> Bytes]]
    BY DEF TypeOK
  <2>2. CASE ~Matches(p, path)
    <3>1. verified' = [verified EXCEPT ![p][path] = Absent]
      BY <1>4, <2>2 DEF CheckRead
    <3> QED BY <1>1, <2>1, <3>1 DEF VerifiedRecorded
  <2>3. CASE Matches(p, path)
    <3>1. verified' = [verified EXCEPT ![p][path] = bytes[path]]
      BY <1>4, <2>3 DEF CheckRead
    <3>2. mem[p][path] = Digest(bytes[path]) /\ mem[p][path] # Absent
      <4>1. bytes[path] \in Contents
        BY <2>1, <2>3 DEF Matches, TypeOK, Bytes
      <4> QED BY <2>3, <4>1, AbsentAssumption DEF Matches, Digests
    <3>3. <<path, Digest(bytes[path])>> \in accepted
      BY <2>1, <3>2 DEF StoresRecorded, Recorded
    <3> QED BY <1>1, <2>1, <3>1, <3>3 DEF VerifiedRecorded
  <2> QED BY <2>2, <2>3
<1>5. \/ UNCHANGED verified
      \/ \E p \in Procs : Discover(p) \/ CheckRead(p)
  BY DEF Next, vars, run, Edit, Damage, StartTrust, StartUntrust, StartRun, StartOn, Start,
         TrustLoad, ShowHooks, RecordInspect, RecordDigest, UntrustForget, StageCreate,
         StageWrite, StageRename, StageFails, CheckMeta, Apply, Crash
<1> QED BY <1>2, <1>3, <1>4, <1>5

\* A run applies what its discovery kept, and the global configs.
LEMMA AppliedStep ==
  ASSUME TypeOK, VerifiedRecorded, AppliedWasAccepted, [Next]_vars
  PROVE  AppliedWasAccepted'
<1>1. accepted \subseteq accepted'
  BY AcceptedGrows
<1>2. CASE UNCHANGED applied
  BY <1>1, <1>2 DEF AppliedWasAccepted
<1>3. ASSUME NEW p \in Procs, StartRun(p) PROVE AppliedWasAccepted'
  BY <1>1, <1>3 DEF StartRun, AppliedWasAccepted, TypeOK
<1>4. ASSUME NEW p \in Procs, Apply(p) PROVE AppliedWasAccepted'
  <2>1. CASE UNCHANGED applied
    BY <1>2, <2>1
  <2>2. CASE applied' = [applied EXCEPT ![p] = Layers(p)]
    <3>1. \A layer \in Layers(p) :
            layer[1] \notin Global => <<layer[1], Digest(layer[2])>> \in accepted
      <4>1. own[p] \subseteq Global
        BY DEF TypeOK
      <4> QED BY <4>1 DEF Layers, VerifiedRecorded
    <3> QED BY <1>1, <2>2, <3>1 DEF AppliedWasAccepted, TypeOK
  <2> QED BY <1>4, <2>1, <2>2 DEF Apply
<1>5. \/ UNCHANGED applied
      \/ \E p \in Procs : StartRun(p) \/ Apply(p)
  BY DEF Next, vars, run, Edit, Damage, StartTrust, StartUntrust, StartOn, Start,
         TrustLoad, ShowHooks, RecordInspect, RecordDigest, UntrustForget, StageCreate,
         StageWrite, StageRename, StageFails, Discover, CheckMeta, CheckRead, Crash
<1> QED BY <1>2, <1>3, <1>4, <1>5

\* No run ever applies bytes of a discovered config that no `bailey trust`
\* accepted for that path.
THEOREM OnlyAcceptedApplies == Spec => []AppliedWasAccepted
<1>1. Init => AcceptedInv
  <2> SUFFICES ASSUME Init PROVE AcceptedInv
    OBVIOUS
  <2>1. TypeOK
    BY TypeInit
  <2>2. StoresRecorded /\ VerifiedRecorded /\ AppliedWasAccepted
    BY DEF Init, StoresRecorded, Recorded, VerifiedRecorded, AppliedWasAccepted, Empty
  <2> QED BY <2>1, <2>2 DEF AcceptedInv
<1>2. AcceptedInv /\ [Next]_vars => AcceptedInv'
  BY TypeStep, StoresStep, VerifiedStep, AppliedStep DEF AcceptedInv
<1>3. AcceptedInv => AppliedWasAccepted
  BY DEF AcceptedInv
<1> QED BY <1>1, <1>2, <1>3, PTL DEF Spec

-----------------------------------------------------------------------------
(***************************************************************************)
(* The staging file has one writer.  The exclusive create lets a command   *)
(* in only while nobody is between its create and its rename, and nobody   *)
(* else takes the file away.                                               *)
(***************************************************************************)
Saving(p) == pc[p] \in {"write", "rename"}

SaverInv ==
  /\ \A p \in Procs : Saving(p) => staging # "none"
  /\ \A p, q \in Procs : Saving(p) /\ Saving(q) => p = q
  /\ StagingIsOwn

\* Outside the save a command neither enters it nor touches its file or store.
LEMMA OtherSteps ==
  ASSUME TypeOK, [Next]_vars
  PROVE  \/ /\ UNCHANGED <<staging, staged>>
            /\ \/ UNCHANGED <<pc, mem>>
               \/ \E p \in Procs, label \in Labels \ {"write", "rename"} :
                    /\ pc' = [pc EXCEPT ![p] = label]
                    /\ UNCHANGED mem \/ (~Saving(p) /\ \E m : mem' = [mem EXCEPT ![p] = m])
         \/ \E p \in Procs : StageCreate(p) \/ StageWrite(p) \/ StageRename(p)
<1> USE DEF vars, file, command, Goto, Finish, Labels
<1>1. CASE \/ UNCHANGED vars \/ Damage \/ \E path \in Paths : Edit(path)
  BY <1>1 DEF Damage, Edit
<1>2. ASSUME NEW p \in Procs, StartTrust(p) \/ StartUntrust(p) \/ StartRun(p)
      PROVE  \E label \in {"trust", "untrust", "resolve"} :
               pc' = [pc EXCEPT ![p] = label] /\ UNCHANGED <<file, mem>>
  BY <1>2 DEF StartTrust, StartUntrust, StartRun, StartOn, Start
<1>3. ASSUME NEW p \in Procs,
             TrustLoad(p) \/ UntrustForget(p) \/ Discover(p)
      PROVE  /\ \E label \in {"show", "idle", "create", "check"} :
                  pc' = [pc EXCEPT ![p] = label]
             /\ ~Saving(p) /\ UNCHANGED file
             /\ \E m : mem' = [mem EXCEPT ![p] = m]
  BY <1>3 DEF TrustLoad, UntrustForget, Discover, Saving
<1>4. ASSUME NEW p \in Procs, RecordDigest(p)
      PROVE  /\ \E label \in {"idle", "create"} : pc' = [pc EXCEPT ![p] = label]
             /\ ~Saving(p) /\ UNCHANGED file
             /\ UNCHANGED mem \/ \E m : mem' = [mem EXCEPT ![p] = m]
  BY <1>4 DEF RecordDigest, Saving
<1>5. ASSUME NEW p \in Procs,
             \/ ShowHooks(p) \/ RecordInspect(p) \/ CheckRead(p) \/ Apply(p)
             \/ Crash(p) \/ StageFails(p)
      PROVE  \E label \in {"inspect", "digest", "idle", "check"} :
               pc' = [pc EXCEPT ![p] = label] /\ UNCHANGED <<file, mem>>
  BY <1>5 DEF ShowHooks, RecordInspect, CheckRead, Apply, Crash, StageFails
<1>6. ASSUME NEW p \in Procs, CheckMeta(p)
      PROVE  /\ UNCHANGED <<file, mem>>
             /\ UNCHANGED pc \/ pc' = [pc EXCEPT ![p] = "read"]
  BY <1>6 DEF CheckMeta, CheckOne
<1> QED BY <1>1, <1>2, <1>3, <1>4, <1>5, <1>6 DEF Next

\* Every step keeps the staging file in one command's hands.
LEMMA SaverStep ==
  ASSUME TypeOK, SaverInv, [Next]_vars
  PROVE  SaverInv'
<1> USE DEF SaverInv, StagingIsOwn, Saving, Goto, Finish
<1>1. pc \in [Procs -> Labels] /\ mem \in [Procs -> Entries]
  BY DEF TypeOK
<1>2. CASE UNCHANGED <<staging, staged, pc, mem>>
  BY <1>2
<1>3. ASSUME UNCHANGED <<staging, staged>>,
             NEW p \in Procs, NEW label \in Labels \ {"write", "rename"},
             pc' = [pc EXCEPT ![p] = label],
             UNCHANGED mem \/ (~Saving(p) /\ \E m : mem' = [mem EXCEPT ![p] = m])
      PROVE  SaverInv'
  <2>1. \A q \in Procs : pc'[q] \in {"write", "rename"} => q # p /\ pc'[q] = pc[q]
    BY <1>1, <1>3
  <2>2. \A q \in Procs : q # p => mem'[q] = mem[q]
    BY <1>1, <1>3
  <2> QED BY <1>3, <2>1, <2>2
<1>4. ASSUME NEW p \in Procs, StageCreate(p) PROVE SaverInv'
  <2>1. CASE StageFree
    <3>1. \A q \in Procs : ~Saving(q)
      BY <2>1 DEF StageFree
    <3> QED BY <1>1, <1>4, <2>1, <3>1 DEF StageCreate, StageFree
  <2>2. CASE ~StageFree
    BY <1>1, <1>4, <2>2 DEF StageCreate, command
  <2> QED BY <2>1, <2>2
<1>5. ASSUME NEW p \in Procs, StageWrite(p) PROVE SaverInv'
  BY <1>1, <1>5 DEF StageWrite, command
<1>6. ASSUME NEW p \in Procs, StageRename(p) PROVE SaverInv'
  BY <1>1, <1>6 DEF StageRename, command
<1> QED BY <1>2, <1>3, <1>4, <1>5, <1>6, OtherSteps

\* What a save renames over the store is always what that command wrote.
THEOREM SaverOwnsStaging == Spec => []StagingIsOwn
<1>1. Init => TypeOK /\ SaverInv
  BY TypeInit DEF Init, SaverInv, Saving, StagingIsOwn
<1>2. TypeOK /\ SaverInv /\ [Next]_vars => (TypeOK /\ SaverInv)'
  BY TypeStep, SaverStep
<1>3. SaverInv => StagingIsOwn
  BY DEF SaverInv
<1> QED BY <1>1, <1>2, <1>3, PTL DEF Spec

-----------------------------------------------------------------------------
(***************************************************************************)
(* Inside a sandbox nothing found is applied.  Neither kind of config gets *)
(* as far as the layers: a global one is not looked for, and without a     *)
(* store no other is read.                                                 *)
(***************************************************************************)
NestedInv ==
  \A p \in Nested :
    /\ pc[p] # "read" /\ todo[p] \intersect Global = {}
    /\ own[p] = {} /\ verified[p] = Empty /\ applied[p] = {}

\* Every step keeps a sandboxed run's discovery empty-handed.
LEMMA NestedStep ==
  ASSUME TypeOK, NestedInv, [Next]_vars
  PROVE  NestedInv'
<1> USE NestedAssumption DEF NestedInv, run, Goto, Finish
<1>1. /\ pc \in [Procs -> Labels] /\ todo \in [Procs -> SUBSET Paths]
      /\ own \in [Procs -> SUBSET Global] /\ verified \in [Procs -> [Paths -> Bytes]]
      /\ applied \in [Procs -> SUBSET (Paths \X Contents)]
  BY DEF TypeOK
<1>2. ASSUME UNCHANGED run,
             \/ UNCHANGED pc
             \/ \E p \in Procs, label \in Labels \ {"read"} : pc' = [pc EXCEPT ![p] = label]
      PROVE  NestedInv'
  BY <1>1, <1>2
<1>3. ASSUME NEW p \in Procs, StartRun(p) PROVE NestedInv'
  BY <1>1, <1>3 DEF StartRun, Start
<1>4. ASSUME NEW p \in Procs, Discover(p) PROVE NestedInv'
  BY <1>1, <1>4 DEF Discover, Found
<1>5. ASSUME NEW p \in Procs, CheckMeta(p) PROVE NestedInv'
  <2>1. PICK path \in todo[p] : CheckOne(p, path)
    BY <1>5 DEF CheckMeta
  <2>2. UNCHANGED <<verified, applied>>
    BY <1>5 DEF CheckMeta
  <2>3. CASE p \in Nested
    <3>1. Rejected(p, path)
      BY <2>1, <2>3 DEF Rejected
    <3>2. todo' = [todo EXCEPT ![p] = todo[p] \ {path}] /\ UNCHANGED <<pc, own>>
      BY <2>1, <2>3, <3>1 DEF CheckOne, Rejected
    <3> QED BY <1>1, <2>2, <3>2
  <2>4. CASE p \notin Nested
    <3>1. /\ UNCHANGED pc \/ pc' = [pc EXCEPT ![p] = "read"]
          /\ UNCHANGED todo \/ todo' = [todo EXCEPT ![p] = todo[p] \ {path}]
          /\ UNCHANGED own \/ own' = [own EXCEPT ![p] = own[p] \union {path}]
      BY <2>1 DEF CheckOne
    <3>2. \A q \in Nested : pc'[q] = pc[q] /\ todo'[q] = todo[q] /\ own'[q] = own[q]
      BY <1>1, <2>4, <3>1
    <3> QED BY <2>2, <3>2
  <2> QED BY <2>3, <2>4
<1>6. ASSUME NEW p \in Procs, CheckRead(p) PROVE NestedInv'
  BY <1>1, <1>6 DEF CheckRead
<1>7. ASSUME NEW p \in Procs, Apply(p) PROVE NestedInv'
  <2>1. CASE p \in Nested
    <3>1. Layers(p) = {}
      BY <2>1 DEF Layers, Empty
    <3> QED BY <1>1, <1>7, <2>1, <3>1 DEF Apply
  <2>2. CASE p \notin Nested
    BY <1>1, <1>7, <2>2 DEF Apply
  <2> QED BY <2>1, <2>2
<1>8. \/ /\ UNCHANGED run
          /\ \/ UNCHANGED pc
             \/ \E p \in Procs, label \in Labels \ {"read"} : pc' = [pc EXCEPT ![p] = label]
       \/ \E p \in Procs :
            \/ StartRun(p) \/ Discover(p) \/ CheckMeta(p) \/ CheckRead(p) \/ Apply(p)
  <2> USE DEF vars, Labels
  <2>1. CASE \/ UNCHANGED vars \/ Damage \/ \E path \in Paths : Edit(path)
    BY <2>1 DEF Damage, Edit
  <2>2. ASSUME NEW p \in Procs,
               \/ StartTrust(p) \/ StartUntrust(p) \/ TrustLoad(p) \/ ShowHooks(p)
               \/ RecordInspect(p) \/ RecordDigest(p) \/ UntrustForget(p)
               \/ StageCreate(p) \/ StageWrite(p) \/ StageRename(p) \/ StageFails(p)
               \/ Crash(p)
        PROVE  /\ UNCHANGED run
               /\ \E label \in Labels \ {"read"} : pc' = [pc EXCEPT ![p] = label]
    BY <2>2 DEF StartTrust, StartUntrust, StartOn, Start, TrustLoad, ShowHooks,
       RecordInspect, RecordDigest, UntrustForget, StageCreate, StageWrite, StageRename,
       StageFails, Crash
  <2> QED BY <2>1, <2>2 DEF Next
<1> QED BY <1>2, <1>3, <1>4, <1>5, <1>6, <1>7, <1>8

\* A run inside a sandbox never applies a discovered or a global config.
THEOREM NestedIsBare == Spec => []NestedAppliesNothing
<1>1. Init => TypeOK /\ NestedInv
  BY TypeInit, NestedAssumption DEF Init, NestedInv
<1>2. TypeOK /\ NestedInv /\ [Next]_vars => (TypeOK /\ NestedInv)'
  BY TypeStep, NestedStep
<1>3. NestedInv => NestedAppliesNothing
  BY DEF NestedInv, NestedAppliesNothing
<1> QED BY <1>1, <1>2, <1>3, PTL DEF Spec

-----------------------------------------------------------------------------
(***************************************************************************)
(* Nothing that was announced is undone, but by damage and by a command    *)
(* that had not seen it.  What a command holds of the store differs from   *)
(* what the store says in the record of its own path, and in what it       *)
(* missed, only; and nested commands never get to a save.                  *)
(***************************************************************************)
Copies ==
  /\ \A p \in Nested : pc[p] \notin {"digest", "create", "write", "rename"}
  /\ \A p \in Procs \ Nested :
       /\ pc[p] \in {"show", "inspect", "digest"} =>
            \A path \in Paths \ missed[p] : mem[p][path] = Stored(path)
       /\ pc[p] \in {"create", "write", "rename"} =>
            \A path \in Paths \ (missed[p] \union {arg[p]}) : mem[p][path] = Stored(path)

AckInv == TypeOK /\ SaverInv /\ Copies /\ AcknowledgedHolds

\* What a command outside a sandbox loads is what the store says.
LEMMA LoadedIsStored ==
  ASSUME TypeOK, NEW p \in Procs \ Nested, NEW path \in Paths
  PROVE  Loaded(p)[path] = Stored(path)
  BY DEF Loaded, Stored, Empty

\* What is renamed over the store is the store with one record changed, the one
\* the command announces, and with what the command missed.
LEMMA RenameIsOwn ==
  ASSUME TypeOK, SaverInv, Copies, NEW p \in Procs, StageRename(p)
  PROVE  /\ p \in Procs \ Nested /\ pc[p] = "rename" /\ arg[p] \in Paths
         /\ disk' = mem[p] /\ ~damaged'
         /\ \A path \in Paths \ (missed[p] \union {arg[p]}) : mem[p][path] = Stored(path)
<1>1. pc[p] = "rename" /\ disk' = staged /\ ~damaged'
  BY DEF StageRename
<1>2. staged = mem[p] /\ p \in Procs \ Nested
  BY <1>1 DEF SaverInv, StagingIsOwn, Copies
<1> QED
  BY <1>1, <1>2 DEF Copies, TypeOK

\* Every step leaves the copies of the store as close to it as that.
LEMMA CopiesStep ==
  ASSUME TypeOK, SaverInv, Copies, [Next]_vars
  PROVE  Copies'
<1> USE NestedAssumption DEF Copies, Stored, world, file, command, history, Goto, Finish
<1>1. /\ pc \in [Procs -> Labels] /\ mem \in [Procs -> Entries] /\ arg \in [Procs -> Paths]
      /\ missed \in [Procs -> SUBSET Paths] /\ disk \in Entries
  BY DEF TypeOK
<1>2. CASE UNCHANGED vars
  BY <1>2 DEF vars
<1>3. ASSUME NEW path \in Paths, Edit(path) PROVE Copies'
  BY <1>1, <1>3 DEF Edit
<1>4. CASE Damage
  BY <1>1, <1>4 DEF Damage, Missed, Holding
<1>5. ASSUME NEW p \in Procs, StartTrust(p) PROVE Copies'
  BY <1>1, <1>5 DEF StartTrust, StartOn, Start
<1>6. ASSUME NEW p \in Procs, StartUntrust(p) PROVE Copies'
  BY <1>1, <1>6 DEF StartUntrust, StartOn, Start
<1>7. ASSUME NEW p \in Procs, StartRun(p) PROVE Copies'
  BY <1>1, <1>7 DEF StartRun, Start
<1>8. ASSUME NEW p \in Procs, TrustLoad(p) PROVE Copies'
  BY <1>1, <1>8, LoadedIsStored DEF TrustLoad
<1>9. ASSUME NEW p \in Procs, ShowHooks(p) PROVE Copies'
  BY <1>1, <1>9 DEF ShowHooks
<1>10. ASSUME NEW p \in Procs, RecordInspect(p) PROVE Copies'
  BY <1>1, <1>10 DEF RecordInspect, MayBeRecorded
<1>11. ASSUME NEW p \in Procs, RecordDigest(p) PROVE Copies'
  <2>1. p \notin Nested /\ pc[p] = "digest"
    BY <1>11 DEF RecordDigest
  <2>2. CASE bytes[arg[p]] = Absent
    BY <1>1, <1>11, <2>2 DEF RecordDigest
  <2>3. CASE bytes[arg[p]] # Absent
    <3>1. mem' = [mem EXCEPT ![p] = [mem[p] EXCEPT ![arg[p]] = Digest(bytes[arg[p]])]]
      BY <1>11, <2>3, <1>1 DEF RecordDigest
    <3>2. \A path \in Paths \ {arg[p]} : mem'[p][path] = mem[p][path]
      BY <1>1, <3>1 DEF Entries
    <3>3. \A q \in Procs \ {p} : mem'[q] = mem[q] /\ pc'[q] = pc[q]
      BY <1>1, <1>11, <2>3, <3>1 DEF RecordDigest
    <3>4. UNCHANGED <<disk, damaged, arg, missed>> /\ pc'[p] = "create"
      BY <1>1, <1>11, <2>3 DEF RecordDigest
    <3> QED
      BY <1>1, <2>1, <3>2, <3>3, <3>4
  <2> QED
    BY <2>2, <2>3
<1>12. ASSUME NEW p \in Procs, UntrustForget(p) PROVE Copies'
  <2>1. CASE p \in Nested
    <3>1. Loaded(p)[arg[p]] = Absent
      BY <1>1, <2>1 DEF Loaded, Empty
    <3> QED
      BY <1>1, <1>12, <2>1, <3>1 DEF UntrustForget
  <2>2. CASE p \notin Nested
    <3>1. Loaded(p) \in Entries /\ arg[p] \in Paths
      BY <1>1, LoadedType
    <3>2. mem' = [mem EXCEPT ![p] = [Loaded(p) EXCEPT ![arg[p]] = Absent]]
      BY <1>12 DEF UntrustForget
    <3>3. \A path \in Paths \ {arg[p]} : mem'[p][path] = Stored(path)
      BY <1>1, <2>2, <3>1, <3>2, LoadedIsStored DEF Entries
    <3>4. \A q \in Procs \ {p} : mem'[q] = mem[q] /\ pc'[q] = pc[q] /\ missed'[q] = missed[q]
      BY <1>1, <1>12, <3>2 DEF UntrustForget
    <3>5. UNCHANGED <<disk, damaged, arg>> /\ pc'[p] \in {"idle", "create"}
      BY <1>1, <1>12 DEF UntrustForget
    <3> QED
      BY <1>1, <2>2, <3>3, <3>4, <3>5
  <2> QED
    BY <2>1, <2>2
<1>13. ASSUME NEW p \in Procs, StageCreate(p) PROVE Copies'
  BY <1>1, <1>13 DEF StageCreate
<1>14. ASSUME NEW p \in Procs, StageWrite(p) PROVE Copies'
  BY <1>1, <1>14 DEF StageWrite
<1>15. ASSUME NEW p \in Procs, StageRename(p) PROVE Copies'
  <2>1. /\ pc[p] = "rename" /\ disk' = mem[p] /\ ~damaged'
        /\ \A path \in Paths \ (missed[p] \union {arg[p]}) : disk'[path] = Stored(path)
    BY <1>15, RenameIsOwn
  <2>2. /\ UNCHANGED <<mem, arg>> /\ pc' = [pc EXCEPT ![p] = "idle"]
        /\ missed' = [q \in Procs |-> IF Holding(q) THEN missed[q] \union (missed[p] \union {arg[p]})
                                                    ELSE {}]
    BY <1>15 DEF StageRename, Missed
  <2>3. \A path \in Paths \ (missed[p] \union {arg[p]}) : Stored(path)' = Stored(path)
    BY <2>1
  <2>4. ASSUME NEW q \in Procs, q # p, Holding(q)
        PROVE  /\ missed'[q] = missed[q] \union (missed[p] \union {arg[p]})
               /\ pc'[q] = pc[q] /\ mem'[q] = mem[q] /\ arg'[q] = arg[q]
    BY <1>1, <2>2, <2>4
  <2>5. \A q \in Procs : pc'[q] # "idle" => q # p /\ pc'[q] = pc[q]
    BY <1>1, <2>2
  <2>6. ASSUME NEW q \in Procs \ Nested, Holding(q), q # p
        PROVE  /\ pc'[q] \in {"show", "inspect", "digest"} =>
                    \A path \in Paths \ missed'[q] : mem'[q][path] = Stored(path)'
               /\ pc'[q] \in {"create", "write", "rename"} =>
                    \A path \in Paths \ (missed'[q] \union {arg'[q]}) :
                      mem'[q][path] = Stored(path)'
    <3> HIDE DEF Stored
    <3> QED
      BY <2>3, <2>4, <2>6
  <2>7. \A q \in Nested : pc'[q] \notin {"digest", "create", "write", "rename"}
    BY <1>1, <2>2
  <2> HIDE DEF Stored
  <2> QED
    BY <2>5, <2>6, <2>7 DEF Holding
<1>16. ASSUME NEW p \in Procs, StageFails(p) PROVE Copies'
  BY <1>1, <1>16 DEF StageFails
<1>17. ASSUME NEW p \in Procs, Discover(p) PROVE Copies'
  BY <1>1, <1>17 DEF Discover
<1>18. ASSUME NEW p \in Procs, CheckMeta(p) PROVE Copies'
  <2>1. /\ UNCHANGED <<mem, disk, damaged, missed>> /\ pc[p] = "check"
        /\ \A q \in Procs : pc'[q] = pc[q] \/ pc'[q] = "read"
        /\ \A q \in Procs : arg'[q] = arg[q] \/ pc'[q] = "read"
    BY <1>1, <1>18 DEF CheckMeta, CheckOne
  <2> QED
    BY <1>1, <2>1
<1>19. ASSUME NEW p \in Procs, CheckRead(p) PROVE Copies'
  BY <1>1, <1>19 DEF CheckRead
<1>20. ASSUME NEW p \in Procs, Apply(p) PROVE Copies'
  BY <1>1, <1>20 DEF Apply
<1>21. ASSUME NEW p \in Procs, Crash(p) PROVE Copies'
  BY <1>1, <1>21 DEF Crash
<1> QED
  BY <1>2, <1>3, <1>4, <1>5, <1>6, <1>7, <1>8, <1>9, <1>10, <1>11, <1>12, <1>13, <1>14,
     <1>15, <1>16, <1>17, <1>18, <1>19, <1>20, <1>21 DEF Next

\* What the store says changes with damage and at the end of a save only.
LEMMA StoreSteps ==
  ASSUME [Next]_vars
  PROVE  \/ UNCHANGED <<disk, damaged, said, undone>>
         \/ Damage
         \/ \E p \in Procs : StageRename(p)
BY DEF Next, vars, file, history, Edit, StartTrust, StartUntrust, StartRun, StartOn,
       Start, TrustLoad, ShowHooks, RecordInspect, RecordDigest, UntrustForget, StageCreate,
       StageWrite, StageFails, Discover, CheckMeta, CheckRead, Apply, Crash

\* Every step keeps what was announced and not undone.
LEMMA AckStep ==
  ASSUME AckInv, [Next]_vars
  PROVE  AcknowledgedHolds'
<1>1. CASE UNCHANGED <<disk, damaged, said, undone>>
  BY <1>1 DEF AckInv, AcknowledgedHolds, Stored
<1>2. CASE Damage
  BY <1>2 DEF Damage, AcknowledgedHolds
<1>3. ASSUME NEW p \in Procs, StageRename(p) PROVE AcknowledgedHolds'
  <2>1. /\ disk' = mem[p] /\ ~damaged'
        /\ \A path \in Paths \ (missed[p] \union {arg[p]}) : mem[p][path] = Stored(path)
    BY <1>3, RenameIsOwn DEF AckInv
  <2>2. /\ said' = [said EXCEPT ![arg[p]] = mem[p][arg[p]]]
        /\ undone' = (undone \union missed[p]) \ {arg[p]}
    BY <1>3 DEF StageRename
  <2>3. said \in Entries /\ arg[p] \in Paths
    BY DEF AckInv, TypeOK
  <2>4. ASSUME NEW path \in Paths \ undone' PROVE mem[p][path] = said'[path]
    <3>1. CASE path = arg[p]
      BY <2>2, <2>3, <3>1 DEF Entries
    <3>2. CASE path # arg[p]
      BY <2>1, <2>2, <2>3, <3>2 DEF Entries, AckInv, AcknowledgedHolds
    <3> QED
      BY <3>1, <3>2
  <2> QED
    BY <2>1, <2>4 DEF AcknowledgedHolds, Stored
<1> QED
  BY <1>1, <1>2, <1>3, StoreSteps

\* The invariant behind the two theorems.
LEMMA AckInvariant == Spec => []AckInv
<1>1. Init => AckInv
  <2> SUFFICES ASSUME Init PROVE AckInv
    OBVIOUS
  <2>1. TypeOK
    BY TypeInit
  <2>2. SaverInv /\ Copies /\ AcknowledgedHolds
    BY NestedAssumption
    DEF Init, SaverInv, Saving, StagingIsOwn, Copies, AcknowledgedHolds, Stored
  <2> QED
    BY <2>1, <2>2 DEF AckInv
<1>2. AckInv /\ [Next]_vars => AckInv'
  BY TypeStep, SaverStep, CopiesStep, AckStep DEF AckInv
<1> QED
  BY <1>1, <1>2, PTL DEF Spec

\* The store holds what the completed commands announced, but for the records that
\* damage or an overlapping command undid, whichever commands died or failed.
THEOREM AnnouncedHolds == Spec => []AcknowledgedHolds
<1>1. AckInv => AcknowledgedHolds
  BY DEF AckInv
<1> QED
  BY <1>1, AckInvariant, PTL

\* A save changes the record of its own path, and those that changed since its
\* command loaded the store, and no other, whatever overlaps with it.
THEOREM OthersAreKept == Spec => SaveKeepsOthers
<1>1. AckInv /\ [Next]_vars =>
        [\A path \in Paths : Stored(path)' # Stored(path) =>
           \/ damages' # damages
           \/ \E p \in Procs : pc[p] = "rename" /\ path \in missed[p] \union {arg[p]}]_vars
  <2> SUFFICES ASSUME AckInv, [Next]_vars, NEW path \in Paths, Stored(path)' # Stored(path)
               PROVE  \/ damages' # damages
                      \/ \E p \in Procs :
                           pc[p] = "rename" /\ path \in missed[p] \union {arg[p]}
    OBVIOUS
  <2>1. CASE UNCHANGED <<disk, damaged, said, undone>>
    BY <2>1 DEF Stored
  <2>2. CASE Damage
    BY <2>2 DEF Damage, AckInv, TypeOK
  <2>3. ASSUME NEW p \in Procs, StageRename(p), path \notin missed[p] \union {arg[p]}
        PROVE  FALSE
    <3>1. disk' = mem[p] /\ ~damaged' /\ mem[p][path] = Stored(path)
      BY <2>3, RenameIsOwn DEF AckInv
    <3> QED
      BY <3>1 DEF Stored
  <2> QED
    BY <2>1, <2>2, <2>3, StoreSteps DEF StageRename
<1> QED
  BY <1>1, AckInvariant, PTL DEF Spec, SaveKeepsOthers
=============================================================================
