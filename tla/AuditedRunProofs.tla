--------------------------- MODULE AuditedRunProofs ---------------------------
(***************************************************************************)
(* What holds of the new root also when its policy was generated from an   *)
(* audit, and that such a policy suffices: whatever was chosen of a trace, *)
(* the target can do again.                                                *)
(***************************************************************************)
EXTENDS AuditedRun, SandboxRootProofs

-----------------------------------------------------------------------------
(* What coalesce leaves out is covered by what it leaves.                  *)

\* The directory of a path is above it.
LEMMA ParentFacts ==
  ASSUME NEW p \in Path, p # <<>>
  PROVE  Parent(p) \in Path /\ Beneath(p, Parent(p)) /\ Len(Parent(p)) < Len(p)
<1>1. Len(p) \in Nat /\ Len(p) # 0
  BY EmptySeq, LenProperties DEF Path
<1>2. /\ Parent(p) \in Path /\ Len(Parent(p)) = Len(p) - 1
      /\ \A i \in 1..Len(Parent(p)) : Parent(p)[i] = p[i]
  <2>1. \A i \in 1..(Len(p) - 1) : p[i] \in Nat
    BY <1>1, ElementOfSeq DEF Path
  <2>2. /\ SubSeq(p, 1, Len(p) - 1) \in Seq(Nat)
        /\ Len(SubSeq(p, 1, Len(p) - 1)) =
             IF 1 <= Len(p) - 1 THEN (Len(p) - 1) - 1 + 1 ELSE 0
        /\ \A i \in 1..((Len(p) - 1) - 1 + 1) : SubSeq(p, 1, Len(p) - 1)[i] = p[1 + i - 1]
    BY <1>1, <2>1, SubSeqProperties
  <2>3. Len(p) - 1 \in Nat /\ (Len(p) - 1) - 1 + 1 = Len(p) - 1
    BY <1>1
  <2>4. Len(Parent(p)) = Len(p) - 1
    BY <1>1, <2>2, <2>3 DEF Parent
  <2>5. \A i \in 1..(Len(p) - 1) : Parent(p)[i] = p[i]
    BY <1>1, <2>2, <2>3 DEF Parent
  <2> QED BY <2>2, <2>4, <2>5 DEF Parent, Path
<1> QED BY <1>1, <1>2, UnderMeans

\* Some path of C is that path or above it.
Covers(C, p) == \E q \in C : Under(p, q)

\* The top directory apart, a turn of the loop covers what was there, by paths
\* of the host.
LEMMA RoundCovers ==
  ASSUME NEW S \in SUBSET HostPaths
  PROVE  /\ Round(S) \subseteq HostPaths
         /\ \A p \in S \ {<<>>} : Covers(Round(S) \ {<<>>}, p)
<1> DEFINE below == S \ {<<>>}
           in(d) == {p \in below : Parent(p) = d}
           named == {d \in {Parent(p) : p \in below} : Cardinality(in(d)) >= CoalesceAt /\ MayName(d)}
<1>1. Round(S) = {p \in below : Parent(p) \notin named} \cup named
  BY DEF Round
<1>2. \A p \in below : p \in Path /\ Under(p, p) /\ Parent(p) \in HostPaths /\ Under(p, Parent(p))
  BY HostFacts, ParentFacts, UnderOrder, UnderMeans
<1>3. \A d \in named : d # <<>>
  BY EmptySeq DEF MayName
<1> HIDE DEF in, named
<1>4. named \subseteq {Parent(p) : p \in below}
  BY DEF named
<1>5. ASSUME NEW p \in S \ {<<>>} PROVE Covers(Round(S) \ {<<>>}, p)
  <2>1. CASE Parent(p) \in named
    BY <1>1, <1>2, <1>3, <2>1 DEF Covers
  <2>2. CASE Parent(p) \notin named
    BY <1>1, <1>2, <2>2 DEF Covers
  <2> QED BY <2>1, <2>2
<1> QED BY <1>1, <1>2, <1>4, <1>5

Turns(S) == Max({Len(p) : p \in S} \cup {1})

\* How many turns coalesce's loop is given.
LEMMA TurnsType ==
  ASSUME NEW S \in SUBSET HostPaths
  PROVE  Turns(S) \in Nat
<1> DEFINE L == {Len(p) : p \in S} \cup {1}
           R == {e \in Nat \X Nat : e[1] > e[2]}
<1>1. L \subseteq Nat /\ L # {}
  BY HostFacts, LenProperties DEF Path
<1>2. IsFiniteSet(L)
  <2>1. IsFiniteSet(S)
    BY PathsAssumption, FS_Subset
  <2> DEFINE f == [p \in S |-> Len(p)]
  <2>2. f \in Surjection(S, {Len(p) : p \in S})
    BY DEF Surjection
  <2>3. IsFiniteSet({Len(p) : p \in S})
    BY <2>1, <2>2, FS_Surjection
  <2> QED BY <2>3, FS_AddElement
<1> HIDE DEF L
<1>3. \A x, y \in L : <<x, y>> \in R <=> x > y
  BY <1>1
<1> HIDE DEF R
<1>4. /\ \A x \in L : <<x, x>> \notin R
      /\ \A x, y, z \in L : <<x, y>> \in R /\ <<y, z>> \in R => <<x, z>> \in R
      /\ \A x, y \in L : x = y \/ <<x, y>> \in R \/ <<y, x>> \in R
  BY <1>1, <1>3
<1>5. \E m \in L : \A x \in L \ {m} : <<m, x>> \in R
  BY <1>1, <1>2, <1>4, LeastOf
<1>6. \E m \in L : \A x \in L : m >= x
  <2>1. PICK m \in L : \A x \in L \ {m} : <<m, x>> \in R
    BY <1>5
  <2>2. ASSUME NEW x \in L PROVE m >= x
    <3>1. CASE x = m
      BY <1>1, <3>1
    <3>2. CASE x # m
      <4>1. <<m, x>> \in R
        BY <2>1, <3>2
      <4>2. m > x
        BY <1>3, <4>1
      <4>3. m \in Nat /\ x \in Nat
        BY <1>1
      <4> QED BY <4>2, <4>3
    <3> QED BY <3>1, <3>2
  <2> QED BY <2>2
<1>7. Max(L) \in L
  BY <1>6 DEF Max
<1> QED BY <1>1, <1>7 DEF Turns, L

\* What the loop's set is at each turn.
IsRounds(f, S, n) == f = [i \in 0..n |-> IF i = 0 THEN S ELSE Round(f[i - 1])]

\* There are such turns.
LEMMA RoundsExist ==
  ASSUME NEW S, NEW n \in Nat
  PROVE  \E f : IsRounds(f, S, n)
<1> DEFINE Bad == {k \in Nat : ~\E f : IsRounds(f, S, k)}
<1>1. ASSUME Bad # {} PROVE FALSE
  <2>1. PICK k \in Bad : \A j \in Bad : k <= j
    BY <1>1, LeastNat
  <2>2. CASE k = 0
    <3> DEFINE f == [i \in 0..0 |-> S]
    <3>1. f = [i \in 0..0 |-> IF i = 0 THEN S ELSE Round(f[i - 1])]
      OBVIOUS
    <3>2. IsRounds(f, S, k)
      BY <2>2, <3>1 DEF IsRounds
    <3> QED BY <3>2
  <2>3. CASE k # 0
    <3>1. k - 1 \in Nat /\ k - 1 \notin Bad
      BY <2>1, <2>3
    <3>2. PICK g : IsRounds(g, S, k - 1)
      BY <3>1
    <3> DEFINE f == [i \in 0..k |-> IF i = k THEN Round(g[k - 1]) ELSE g[i]]
    <3>3. \A i \in 0..(k - 1) : f[i] = g[i] /\ g[i] = IF i = 0 THEN S ELSE Round(g[i - 1])
      BY <3>1, <3>2 DEF IsRounds
    <3>4. \A i \in 0..k : f[i] = IF i = 0 THEN S ELSE Round(f[i - 1])
      <4> SUFFICES ASSUME NEW i \in 0..k PROVE f[i] = IF i = 0 THEN S ELSE Round(f[i - 1])
        OBVIOUS
      <4>1. CASE i = k
        <5>1. i - 1 \in 0..(k - 1)
          BY <3>1, <4>1
        <5> QED BY <2>3, <3>3, <4>1, <5>1
      <4>2. CASE i # k
        <5>1. i \in 0..(k - 1) /\ (i # 0 => i - 1 \in 0..(k - 1))
          BY <4>2
        <5> QED BY <3>3, <5>1
      <4> QED BY <4>1, <4>2
    <3>5. f = [i \in 0..k |-> f[i]]
      OBVIOUS
    <3> HIDE DEF f
    <3>6. IsRounds(f, S, k)
      BY <3>4, <3>5 DEF IsRounds
    <3> QED BY <3>6
  <2> QED BY <2>2, <2>3
<1> QED BY <1>1

\* No turn uncovers anything.
LEMMA RoundsCover ==
  ASSUME NEW S \in SUBSET HostPaths, NEW n \in Nat, NEW f, IsRounds(f, S, n), NEW i \in 0..n
  PROVE  f[i] \subseteq HostPaths /\ \A p \in S \ {<<>>} : Covers(f[i] \ {<<>>}, p)
<1> DEFINE Good(j) == f[j] \subseteq HostPaths /\ \A p \in S \ {<<>>} : Covers(f[j] \ {<<>>}, p)
           Bad == {j \in 0..n : ~Good(j)}
<1>0. f[0] = S /\ \A j \in 1..n : f[j] = Round(f[j - 1])
  BY DEF IsRounds
<1>1. Good(0)
  BY <1>0, HostFacts, UnderOrder DEF Covers
<1>2. ASSUME NEW j \in 1..n, Good(j - 1) PROVE Good(j)
  <2>1. /\ f[j] \subseteq HostPaths
        /\ \A q \in f[j - 1] \ {<<>>} : Covers(f[j] \ {<<>>}, q)
    BY <1>0, <1>2, RoundCovers
  <2>2. ASSUME NEW p \in S \ {<<>>} PROVE Covers(f[j] \ {<<>>}, p)
    <3>1. PICK q \in f[j - 1] \ {<<>>} : Under(p, q)
      BY <1>2, <2>2 DEF Covers
    <3>2. PICK r \in f[j] \ {<<>>} : Under(q, r)
      BY <2>1, <3>1 DEF Covers
    <3>3. p \in Path /\ q \in Path /\ r \in Path
      BY <1>2, <2>1, <2>2, <3>1, <3>2, HostFacts
    <3> QED BY <3>1, <3>2, <3>3, UnderOrder DEF Covers
  <2> QED BY <2>1, <2>2
<1> HIDE DEF Good
<1>3. ASSUME Bad # {} PROVE FALSE
  <2>1. PICK j \in Bad : \A k \in Bad : j <= k
    <3>1. Bad \in SUBSET Nat
      OBVIOUS
    <3> QED BY <1>3, <3>1, LeastNat
  <2>2. j # 0 /\ j \in 1..n /\ j - 1 \in 0..n
    BY <1>1, <2>1
  <2>3. j - 1 \notin Bad
    BY <2>1, <2>2
  <2> QED BY <1>2, <2>1, <2>2, <2>3
<1>4. Good(i)
  BY <1>3
<1> QED BY <1>4 DEF Good

\* Every path but the top directory is under one of those that stay.
LEMMA CoalesceCovers ==
  ASSUME NEW S \in SUBSET HostPaths
  PROVE  Coalesce(S) \subseteq HostPaths /\ \A p \in S \ {<<>>} : Covers(Coalesce(S), p)
<1> DEFINE f == CHOOSE f : IsRounds(f, S, Turns(S))
           last == f[Turns(S)]
<1>1. Turns(S) \in Nat /\ IsRounds(f, S, Turns(S))
  BY TurnsType, RoundsExist
<1>2. Coalesce(S) = {p \in last : \A q \in last : ~Beneath(p, q)}
  BY Zenon DEF Coalesce, Turns, IsRounds
<1> HIDE DEF f
<1>3. last \subseteq HostPaths /\ \A p \in S \ {<<>>} : Covers(last, p)
  <2>1. Turns(S) \in 0..Turns(S)
    BY <1>1
  <2> QED BY <1>1, <2>1, RoundsCover DEF Covers
<1> HIDE DEF last
<1>4. ASSUME NEW p \in S \ {<<>>} PROVE Covers(Coalesce(S), p)
  <2>1. PICK q \in last : Under(p, q)
    BY <1>3 DEF Covers
  <2> DEFINE L == {Len(r) : r \in {r \in last : Under(q, r)}}
  <2>2. last \subseteq Path /\ p \in Path /\ q \in Path
    BY <1>3, HostFacts
  <2>3. L \in SUBSET Nat /\ L # {}
    <3>1. \A r \in last : Len(r) \in Nat
      BY <2>2, UnderMeans
    <3>2. Len(q) \in L
      BY <2>2, UnderOrder
    <3> QED BY <3>1, <3>2
  <2>4. PICK l \in L : \A k \in L : l <= k
    BY <2>3, LeastNat
  <2>5. PICK r \in last : Under(q, r) /\ Len(r) = l
    BY <2>4
  <2>6. ASSUME NEW t \in last, Beneath(r, t) PROVE FALSE
    <3>1. Under(q, t) /\ r \in Path /\ t \in Path
      BY <2>2, <2>5, <2>6, UnderOrder, UnderMeans
    <3>2. Len(r) <= Len(t)
      BY <2>4, <2>5, <3>1
    <3> QED BY <2>6, <3>1, <3>2, UnderMeans, UnderOrder
  <2>7. Under(p, r)
    BY <2>1, <2>2, <2>5, UnderOrder
  <2> QED BY <1>2, <2>5, <2>6, <2>7 DEF Covers
<1> QED BY <1>2, <1>3, <1>4

-----------------------------------------------------------------------------
(* What a profile grants.                                                  *)

\* What a trace records.
IsAccess(a) == a.kind \in Rights /\ a.path \in HostPaths

\* An access a profile is to allow: it has a path that a grant can name.
Asks(a) == a.resolved /\ a.path # <<>> /\ ~Under(a.path, Pts)

\* A profile grants every access it was generated for, on paths of the host.
LEMMA GeneratedGrants ==
  ASSUME NEW c, \A a \in c : IsAccess(a)
  PROVE  /\ DOMAIN Generated(c) \subseteq HostPaths
         /\ \A p \in DOMAIN Generated(c) : Generated(c)[p] \subseteq Rights
         /\ \A a \in c : Asks(a) =>
              \E p \in DOMAIN Generated(c) : Under(a.path, p) /\ a.kind \in Generated(c)[p]
<1> DEFINE grants == UNION {{kind} \X Coalesce(Observed(kind, c)) : kind \in Rights}
<1>1. ASSUME NEW kind \in Rights
      PROVE  /\ Observed(kind, c) \in SUBSET HostPaths
             /\ Coalesce(Observed(kind, c)) \subseteq HostPaths
             /\ \A p \in Observed(kind, c) \ {<<>>} : Covers(Coalesce(Observed(kind, c)), p)
  <2>1. Observed(kind, c) \in SUBSET HostPaths
    BY DEF Observed, IsAccess
  <2> QED BY <2>1, CoalesceCovers
<1>2. /\ \A g \in grants : g[2] \in HostPaths
      /\ \A kind \in Rights : \A p \in Coalesce(Observed(kind, c)) : <<kind, p>> \in grants
  BY <1>1
<1>3. Generated(c) = [p \in {g[2] : g \in grants} |-> {kind \in Rights : <<kind, p>> \in grants}]
  BY DEF Generated
<1> HIDE DEF grants
<1>4. ASSUME NEW a \in c, Asks(a)
      PROVE  \E p \in DOMAIN Generated(c) : Under(a.path, p) /\ a.kind \in Generated(c)[p]
  <2>1. a.kind \in Rights /\ a.path \in Observed(a.kind, c) \ {<<>>}
    BY <1>4 DEF Asks, Observed, IsAccess
  <2>2. PICK p \in Coalesce(Observed(a.kind, c)) : Under(a.path, p)
    BY <1>1, <2>1 DEF Covers
  <2>3. <<a.kind, p>> \in grants
    BY <1>2, <2>1
  <2>4. p \in {g[2] : g \in grants}
    BY <2>3
  <2> QED BY <1>3, <2>1, <2>2, <2>3, <2>4
<1> QED BY <1>2, <1>3, <1>4

\* On top of a policy it leaves nothing out and keeps it well formed.
LEMMA LayeredGrants ==
  ASSUME PolicyOK, NEW profile, DOMAIN profile \subseteq HostPaths,
         \A p \in DOMAIN profile : profile[p] \subseteq Rights
  PROVE  /\ WellFormed(Layered(profile)) /\ Layered(profile).implicit = policy.implicit
         /\ \A p \in DOMAIN profile : /\ p \in DOMAIN Layered(profile).rules
                                       /\ profile[p] \subseteq Layered(profile).rules[p].rights
<1> DEFINE given == Layered(profile)
<1>1. /\ DOMAIN given.rules = Granted \cup DOMAIN profile
      /\ \A p \in DOMAIN given.rules :
           /\ given.rules[p].rights = (IF p \in Granted THEN policy.rules[p].rights ELSE {})
                                       \cup (IF p \in DOMAIN profile THEN profile[p] ELSE {})
           /\ given.rules[p].at = IF p \in Granted THEN At(p) ELSE p
      /\ given.denied = policy.denied \ DOMAIN profile
      /\ given.read_only = policy.read_only /\ given.implicit = policy.implicit
  BY DEF Layered
<1> HIDE DEF given
<1>2. WellFormed(given)
  BY <1>1 DEF WellFormed, PolicyOK, Granted, At
<1> QED BY <1>1, <1>2 DEF given

-----------------------------------------------------------------------------
(* The invariant.                                                          *)

\* Nothing is planned or mounted until there is a plan.
Untouched ==
  pc = "plan" =>
    /\ binds = {} /\ covers = {} /\ remounts = <<>> /\ landlock = {} /\ mounts = <<>> /\ seen = {}
    /\ dirs = {Host(p) : p \in HostPaths \ Files}

\* The policy grants what was chosen, and bailey added nothing to it.
Answered ==
  /\ \A a \in findings : IsAccess(a)
  /\ \A a \in Selected(findings, asked) :
       Asks(a) => \E g \in Granted : Under(a.path, g) /\ a.kind \in policy.rules[g].rights
  /\ findings # {} => policy.implicit = {}

AuditedInv == TypeInv /\ (Unmoved => RootInv) /\ (Unmoved => ServedInv) /\ Untouched /\ Answered

\* It holds before anything was recorded.
LEMMA AuditedInitInv == AuditedInit => AuditedInv
<1> SUFFICES ASSUME AuditedInit PROVE AuditedInv
  OBVIOUS
<1>1. Init /\ findings = {}
  BY DEF AuditedInit
<1>2. TypeInv /\ RootInv
  BY <1>1, TypeInit, RootInit
<1>3. ServedInv /\ Untouched
  BY <1>1 DEF Init, ServedInv, HostServed, RulesServed, DirsSeen, Untouched
<1>4. Answered
  BY <1>1 DEF Answered, Selected
<1> QED BY <1>2, <1>3, <1>4 DEF AuditedInv

\* An audit leaves a well formed policy that grants what was chosen.
LEMMA AuditKeeps == AuditedInv /\ Audit => AuditedInv'
<1> SUFFICES ASSUME AuditedInv, Audit PROVE AuditedInv'
  OBVIOUS
<1>0. /\ TypeInv /\ PolicyOK /\ Untouched /\ pc = "plan" /\ pc' = "plan" /\ policy \in Bases
      /\ binds' = binds /\ covers' = covers /\ remounts' = remounts /\ landlock' = landlock
      /\ mounts' = mounts /\ dirs' = dirs /\ files' = files /\ changes' = changes /\ seen' = seen
  BY TypeParts DEF AuditedInv, Audit, plan, root
<1>1. PICK trace \in Traces, all \in BOOLEAN :
        /\ findings' = Reconciled(trace) /\ asked' = all
        /\ policy' = Layered(Generated(Selected(Reconciled(trace), all)))
  BY DEF Audit
<1> DEFINE chosen  == Selected(Reconciled(trace), all)
           profile == Generated(chosen)
<1>2. /\ \A a \in Reconciled(trace) : IsAccess(a)
      /\ \A a \in chosen : IsAccess(a)
  BY AuditAssumption DEF Reconciled, Selected, IsAccess
<1> HIDE DEF chosen
<1>3. /\ DOMAIN profile \subseteq HostPaths
      /\ \A p \in DOMAIN profile : profile[p] \subseteq Rights
      /\ \A a \in chosen : Asks(a) =>
           \E p \in DOMAIN profile : Under(a.path, p) /\ a.kind \in profile[p]
  BY <1>2, GeneratedGrants
<1> HIDE DEF profile
<1>4. /\ WellFormed(policy') /\ policy'.implicit = policy.implicit
      /\ \A p \in DOMAIN profile : p \in DOMAIN policy'.rules /\ profile[p] \subseteq policy'.rules[p].rights
  BY <1>0, <1>1, <1>3, LayeredGrants DEF profile, chosen
<1>5. TypeInv'
  <2>1. PlanType'
    <3>1. DOMAIN remounts = {}
      BY <1>0 DEF Untouched
    <3> QED BY <1>0, <3>1, FS_EmptySet DEF Untouched, PlanType
  <2>2. RootType' /\ HostAtFirst' /\ TopMounted'
    BY <1>0 DEF TypeInv, RootType, HostAtFirst, TopMounted
  <2>3. OtherType'
    BY <1>0, <1>4 DEF TypeInv, OtherType, PolicyOK
  <2> QED BY <2>1, <2>2, <2>3 DEF TypeInv
<1>6. RootInv'
  <2>1. DOMAIN remounts' = {} /\ DOMAIN mounts' = {} /\ seen' = {} /\ binds' = {} /\ covers' = {}
    BY <1>0 DEF Untouched
  <2>2. HostStays'
    BY <1>0, <2>1 DEF Untouched, HostStays, OnHost
  <2>3. MountsInPlace' /\ TopsServed'
    BY <2>1 DEF MountsInPlace, TopsServed, Served
  <2>4. DeniedHidden' /\ RemountsMade'
    BY <1>0, <2>1 DEF DeniedHidden, RemountsMade, Concealing, Hiding
  <2>5. RulesPlanned'
    BY <1>0 DEF Untouched, RulesPlanned
  <2> QED BY <2>2, <2>3, <2>4, <2>5 DEF RootInv
<1>7. ServedInv' /\ Untouched'
  BY <1>0 DEF ServedInv, HostServed, RulesServed, DirsSeen, Untouched
<1>8. Answered'
  <2>1. policy'.implicit = {}
    BY <1>0, <1>4, AuditAssumption
  <2>2. ASSUME NEW a \in chosen, Asks(a)
        PROVE  \E g \in DOMAIN policy'.rules : Under(a.path, g) /\ a.kind \in policy'.rules[g].rights
    BY <1>3, <1>4, <2>2
  <2> QED BY <1>1, <1>2, <2>1, <2>2 DEF Answered, Granted, chosen
<1> QED BY <1>5, <1>6, <1>7, <1>8 DEF AuditedInv

\* And so does every step of the run.
LEMMA AuditedStep == AuditedInv /\ [AuditedNext]_avars => AuditedInv'
<1> SUFFICES ASSUME AuditedInv, [Next]_vars, UNCHANGED <<findings, asked>> PROVE AuditedInv'
  BY AuditKeeps DEF AuditedNext, avars
<1>1. TypeInv' /\ (Unmoved => RootInv)'
  BY TypeStep, RootStep DEF AuditedInv
<1>2. policy' = policy
  BY DEF Next, Setup, Plan, MountPrivate, Bind, MountDevices, Conceal, Remount, ApplyLandlock,
         Fails, Appears, Vanishes, vars
<1>3. (Unmoved => ServedInv)'
  <2>1. Unmoved' <=> Unmoved
    BY <1>2, PolicyStays
  <2> QED BY <1>1, <2>1, ServedStep DEF AuditedInv
<1>4. Untouched'
  <2>1. CASE Setup
    BY <2>1 DEF Setup, Plan, MountPrivate, Bind, MountDevices, Conceal, Remount, ApplyLandlock,
                Fails, Refused, Untouched
  <2>2. CASE (\E p \in Volatile : Appears(p) \/ Vanishes(p)) \/ UNCHANGED vars
    BY <2>2 DEF Appears, Vanishes, vars, plan, root, AuditedInv, Untouched
  <2> QED BY <2>1, <2>2 DEF Next
<1>5. Answered'
  BY <1>2 DEF AuditedInv, Answered, Granted
<1> QED BY <1>1, <1>3, <1>4, <1>5 DEF AuditedInv

-----------------------------------------------------------------------------
(* What follows.                                                           *)

\* Whatever the traces, what was selected of them and the policy they are
\* reconciled with, the state of the run has its types (cmd_profile_generate,
\* build_isolation_plan, setup_root).
THEOREM AuditedTypeCorrect == AuditedSpec => []TypeOK
<1>1. AuditedInv => TypeOK
  BY TypeParts DEF AuditedInv
<1> QED BY <1>1, AuditedInitInv, AuditedStep, PTL DEF AuditedSpec

\* A generated profile opens nothing beyond its grants, and narrows none: what
\* NothingElseIsReached and GrantsKeepTheirRights say of a policy as it was
\* given holds of it with the profile layered on top (generate_profile,
\* build_isolation_plan, setup_root, LandlockPlan).
THEOREM AuditedRootIsSound ==
  AuditedSpec => [](Unmoved => ReachIsGranted /\ (PtsWhole => GrantsKeepRights))
<1>1. AuditedInv => (Unmoved => ReachIsGranted /\ (PtsWhole => GrantsKeepRights))
  BY Reach, Keep DEF AuditedInv
<1> QED BY <1>1, AuditedInitInv, AuditedStep, PTL DEF AuditedSpec

\* A chosen access is one the target can repeat.
LEMMA ChosenIsReached ==
  ASSUME AuditedInv, Unmoved, pc = "running", NEW a \in Selected(findings, asked),
         a.resolved, a.path # <<>>, a.path \in seen, ~Under(a.path, Pts), ~Under(a.path, Home),
         \A x \in policy.denied \cup policy.read_only : ~Under(a.path, x)
  PROVE  Reaches(a)
<1> DEFINE v == a.path
<1>0. /\ TypeInv /\ RootInv /\ ServedInv /\ PolicyOK /\ MountsOK
      /\ \A p \in Granted : At(p) = p
  BY TypeParts, OneName DEF AuditedInv
<1>1. /\ v \in HostPaths /\ v \in Path /\ v # Pts /\ ~Beneath(v, Pts) /\ policy.implicit = {}
      /\ Pts \in Path /\ Home \in Path
  <2>1. a \in findings /\ findings # {}
    BY DEF Selected
  <2>2. Pts \in Path /\ Home \in Path
    BY HostFacts, PathsAssumption
  <2>3. v \in HostPaths /\ v \in Path /\ policy.implicit = {}
    BY <2>1, HostFacts DEF AuditedInv, Answered, IsAccess
  <2> QED BY <2>2, <2>3, UnderOrder, UnderMeans
<1>2. PICK g \in Granted : Under(v, g) /\ a.kind \in policy.rules[g].rights
  BY DEF AuditedInv, Answered, Asks
<1>3. g \in HostPaths /\ g \in Path
  BY <1>0, PolicyFacts, HostFacts
<1>4. InRoot(v) /\ Resolve(v) = Host(v)
  <2>1. Safe(v)
    BY <1>1, <1>2 DEF Safe
  <2> QED BY <1>0, <1>1, <2>1 DEF ServedInv, HostServed
<1>5. Allows(g, policy.rules[g].rights) \in landlock
  <2>1. g \in seen
    <3>1. g = v \/ Beneath(v, g)
      BY <1>1, <1>2, <1>3, UnderMeans
    <3>2. Beneath(v, g) => g \in HostPaths \ Files
      BY <1>1, <1>3, HostFacts
    <3> QED BY <1>0, <3>1, <3>2 DEF ServedInv, DirsSeen
  <2>2. ~Beneath(g, Pts)
    BY <1>1, <1>2, <1>3, UnderOrder, UnderMeans
  <2>3. \A d \in policy.denied : ~Under(g, d)
    <3>1. \A d \in policy.denied : d \in Path
      BY <1>0, PolicyFacts, NamesFacts
    <3> QED BY <1>1, <1>2, <1>3, <3>1, UnderOrder
  <2>4. Under(g, g)
    BY <1>3, UnderOrder
  <2>5. Safe(g)
    BY <2>1, <2>2, <2>3, <2>4 DEF Safe
  <2> QED BY <1>0, <2>5 DEF ServedInv, RulesServed
<1>6. a.kind \in UNION {l.rights : l \in {m \in landlock : Under(v, m.at)}}
  <2>1. Allows(g, policy.rules[g].rights) \in {m \in landlock : Under(v, m.at)}
    BY <1>2, <1>5 DEF Allows
  <2>2. a.kind \in Allows(g, policy.rules[g].rights).rights
    BY <1>2 DEF Allows
  <2> QED BY <2>1, <2>2
<1>7. ASSUME a.kind = "write" PROVE ~mounts[MountOf(v)].ro
  <2>1. mounts[MountOf(v)].ro => MountOf(v) \in UnwritableBeneathImplicit
    BY <1>0, <1>1, <1>2, <1>7, WriteKept DEF Writes
  <2> DEFINE m == MountOf(v)
  <2>2. Under(v, m) /\ m \in Path
    BY <1>0, <1>1, MountFacts
  <2>3. m \in UnwritableBeneathImplicit => Beneath(m, Home)
    BY <1>0, <1>1, OneName
  <2> HIDE DEF m
  <2>4. ~Beneath(m, Home)
    BY <1>1, <2>2, UnderOrder, UnderMeans
  <2> QED BY <2>1, <2>3, <2>4 DEF m
<1> QED BY <1>4, <1>6, <1>7 DEF Reaches, Effective

\* Whatever the host, the traces and the policy they are reconciled with, a
\* run whose grants are all placed where the host has them can do again what
\* its profile was generated for (reconcile, coalesce, generate_profile,
\* build_isolation_plan, setup_root, LandlockPlan).
THEOREM ProfileSuffices == AuditedSpec => [](Unmoved => GeneratedSuffices)
<1>1. AuditedInv => (Unmoved => GeneratedSuffices)
  BY ChosenIsReached DEF GeneratedSuffices
<1> QED BY <1>1, AuditedInitInv, AuditedStep, PTL DEF AuditedSpec
===============================================================================
