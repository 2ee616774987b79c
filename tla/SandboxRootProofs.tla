--------------------------- MODULE SandboxRootProofs ---------------------------
(***************************************************************************)
(* What holds of the new root whatever the host and the policies: the      *)
(* types of its state; and, when every grant is placed where the host has  *)
(* it, that a target reaches nothing it was not granted or that was        *)
(* denied, and that a grant keeps its rights.                              *)
(***************************************************************************)
EXTENDS SandboxRoot, SequenceTheorems, FiniteSetTheorems, WellFoundedInduction, TLAPS

-----------------------------------------------------------------------------
(* Least elements.                                                         *)

\* A set of numbers that is not empty has a least one.
LEMMA LeastNat ==
  ASSUME NEW S \in SUBSET Nat, S # {}
  PROVE  \E m \in S : \A n \in S : m <= n
<1>1. PICK n \in S : TRUE
  OBVIOUS
<1> DEFINE T == {0..(x - 1) : x \in {x \in S : x <= n}}
<1>2. T # {} /\ T \subseteq FiniteSubsetsOf(0..n)
  <2>1. \A x \in {x \in S : x <= n} : 0..(x-1) \subseteq 0..n /\ IsFiniteSet(0..(x-1))
    BY FS_Interval
  <2> QED BY <1>1, <2>1 DEF FiniteSubsetsOf
<1>3. PICK t \in T : \A u \in T : <<u, t>> \notin StrictSubsetOrdering(0..n)
  BY <1>2, FS_StrictSubsetOrderingWellFounded, WFMin
<1>4. PICK m \in S : m <= n /\ t = 0..(m - 1)
  BY <1>3
<1>5. ASSUME NEW k \in S, k < m PROVE FALSE
  <2>1. 0..(k-1) \in T
    BY <1>4, <1>5
  <2>2. 0..(k-1) \subseteq 0..(m-1) /\ k \in 0..(m-1) /\ k \notin 0..(k-1)
    BY <1>4, <1>5
  <2>3. <<0..(k-1), t>> \in StrictSubsetOrdering(0..n)
    BY <1>2, <1>3, <1>4, <2>1, <2>2 DEF StrictSubsetOrdering
  <2> QED BY <1>3, <2>1, <2>3
<1> QED BY <1>4, <1>5

\* One with a bound has a greatest.
LEMMA GreatestNat ==
  ASSUME NEW S \in SUBSET Nat, S # {}, NEW n \in Nat, \A x \in S : x <= n
  PROVE  \E m \in S : \A x \in S : x <= m
<1> DEFINE T == {n - x : x \in S}
<1>1. T \in SUBSET Nat /\ T # {}
  <2>1. \A x \in S : n - x \in Nat
    OBVIOUS
  <2> QED BY <2>1
<1>2. PICK t \in T : \A u \in T : t <= u
  BY <1>1, LeastNat
<1>3. PICK m \in S : t = n - m
  BY <1>2
<1>4. ASSUME NEW x \in S PROVE x <= m
  <2>1. n - m <= n - x
    BY <1>2, <1>3
  <2> QED BY <2>1
<1> QED BY <1>3, <1>4

\* So has a finite set under an order that compares any two of its elements.
LEMMA LeastOf ==
  ASSUME NEW S, IsFiniteSet(S), S # {}, NEW R,
         \A x \in S : <<x, x>> \notin R,
         \A x, y, z \in S : <<x, y>> \in R /\ <<y, z>> \in R => <<x, z>> \in R,
         \A x, y \in S : x = y \/ <<x, y>> \in R \/ <<y, x>> \in R
  PROVE  \E m \in S : \A x \in S \ {m} : <<m, x>> \in R
<1> DEFINE Less(x) == {y \in S : <<y, x>> \in R}
           T == {Less(x) : x \in S}
<1>1. T # {} /\ T \subseteq FiniteSubsetsOf(S)
  <2>1. \A x \in S : Less(x) \in SUBSET S
    OBVIOUS
  <2>2. \A x \in S : IsFiniteSet(Less(x))
    BY <2>1, FS_Subset
  <2>3. \A x \in S : Less(x) \in FiniteSubsetsOf(S)
    BY <2>1, <2>2 DEF FiniteSubsetsOf
  <2> HIDE DEF Less
  <2> QED BY <2>3
<1>2. PICK t \in T : \A u \in T : <<u, t>> \notin StrictSubsetOrdering(S)
  BY <1>1, FS_StrictSubsetOrderingWellFounded, WFMin
<1>3. PICK m \in S : t = Less(m)
  BY <1>2
<1>4. ASSUME NEW x \in S \ {m} PROVE <<m, x>> \in R
  <2> SUFFICES ASSUME <<x, m>> \in R PROVE FALSE
    OBVIOUS
  <2>1. Less(x) \subseteq Less(m) /\ x \in Less(m) /\ x \notin Less(x)
    OBVIOUS
  <2>2. <<Less(x), Less(m)>> \in StrictSubsetOrdering(S)
    BY <2>1 DEF StrictSubsetOrdering
  <2> QED BY <1>2, <1>3, <2>2
<1> QED BY <1>3, <1>4

-----------------------------------------------------------------------------
(* Paths.                                                                  *)

Path == Seq(Nat)

\* What it is to be under a path.
LEMMA UnderMeans ==
  ASSUME NEW p \in Path, NEW q \in Path
  PROVE  /\ Len(p) \in Nat /\ Len(q) \in Nat
         /\ Under(p, q) <=> (Len(q) <= Len(p) /\ \A i \in 1..Len(q) : p[i] = q[i])
         /\ Beneath(p, q) <=> (Under(p, q) /\ p # q)
<1>1. Len(p) \in Nat /\ Len(q) \in Nat
  BY LenProperties DEF Path
<1>2. ASSUME Len(q) <= Len(p)
      PROVE  /\ SubSeq(q, 1, Len(q)) \in Path /\ SubSeq(p, 1, Len(q)) \in Path
             /\ Len(SubSeq(q, 1, Len(q))) = Len(q) /\ Len(SubSeq(p, 1, Len(q))) = Len(q)
             /\ \A i \in 1..Len(q) : SubSeq(q, 1, Len(q))[i] = q[i] /\ SubSeq(p, 1, Len(q))[i] = p[i]
  <2>1. \A i \in 1..Len(q) : q[i] \in Nat /\ p[i] \in Nat
    BY <1>1, <1>2, ElementOfSeq DEF Path
  <2>2. Len(q) \in Int /\ 1 \in Int
    BY <1>1
  <2>3. /\ SubSeq(q, 1, Len(q)) \in Seq(Nat)
        /\ Len(SubSeq(q, 1, Len(q))) = IF 1 <= Len(q) THEN Len(q) - 1 + 1 ELSE 0
        /\ \A i \in 1..(Len(q) - 1 + 1) : SubSeq(q, 1, Len(q))[i] = q[1 + i - 1]
    BY <2>1, <2>2, SubSeqProperties
  <2>4. /\ SubSeq(p, 1, Len(q)) \in Seq(Nat)
        /\ Len(SubSeq(p, 1, Len(q))) = IF 1 <= Len(q) THEN Len(q) - 1 + 1 ELSE 0
        /\ \A i \in 1..(Len(q) - 1 + 1) : SubSeq(p, 1, Len(q))[i] = p[1 + i - 1]
    BY <2>1, <2>2, SubSeqProperties
  <2> QED BY <1>1, <2>3, <2>4 DEF Path
<1>3. Under(p, q) <=> (Len(q) <= Len(p) /\ \A i \in 1..Len(q) : p[i] = q[i])
  <2>1. CASE ~(Len(q) <= Len(p))
    BY <2>1 DEF Under, IsPrefix
  <2>2. CASE Len(q) <= Len(p)
    <3>1. SubSeq(q, 1, Len(q)) = SubSeq(p, 1, Len(q)) <=> \A i \in 1..Len(q) : p[i] = q[i]
      <4>1. ASSUME \A i \in 1..Len(q) : p[i] = q[i]
            PROVE  SubSeq(q, 1, Len(q)) = SubSeq(p, 1, Len(q))
        BY <1>2, <2>2, <4>1, SeqEqual DEF Path
      <4>2. ASSUME SubSeq(q, 1, Len(q)) = SubSeq(p, 1, Len(q)), NEW i \in 1..Len(q)
            PROVE  p[i] = q[i]
        BY <1>2, <2>2, <4>2
      <4> QED BY <4>1, <4>2
    <3> QED BY <2>2, <3>1 DEF Under, IsPrefix
  <2> QED BY <1>1, <2>1, <2>2
<1> QED BY <1>1, <1>3 DEF Beneath, IsStrictPrefix, Under

\* Being under a path is an order, and what a path is under is a chain.
LEMMA UnderOrder ==
  ASSUME NEW p \in Path
  PROVE  /\ Under(p, p) /\ Under(p, <<>>) /\ <<>> \in Path
         /\ \A q \in Path : Under(p, q) /\ Under(q, p) => p = q
         /\ \A q \in Path : Under(p, q) /\ Len(p) <= Len(q) => p = q
         /\ \A q, r \in Path : Under(p, q) /\ Under(q, r) => Under(p, r)
         /\ \A q, r \in Path : Under(p, q) /\ Under(p, r) => Under(q, r) \/ Under(r, q)
         /\ \A q, r \in Path : Under(p, q) /\ Under(p, r) /\ Len(r) <= Len(q) => Under(q, r)
<1>1. <<>> \in Path /\ Len(<<>>) = 0
  BY EmptySeq DEF Path
<1>2. Under(p, p) /\ Under(p, <<>>)
  BY <1>1, UnderMeans
<1>3. ASSUME NEW q \in Path, Under(p, q), Len(p) <= Len(q) PROVE p = q
  BY <1>3, UnderMeans, SeqEqual DEF Path
<1>4. ASSUME NEW q \in Path, Under(p, q), Under(q, p) PROVE p = q
  BY <1>3, <1>4, UnderMeans
<1>5. ASSUME NEW q \in Path, NEW r \in Path, Under(p, q), Under(q, r) PROVE Under(p, r)
  BY <1>5, UnderMeans
<1>6. ASSUME NEW q \in Path, NEW r \in Path, Under(p, q), Under(p, r), Len(r) <= Len(q)
      PROVE  Under(q, r)
  BY <1>6, UnderMeans
<1>7. ASSUME NEW q \in Path, NEW r \in Path, Under(p, q), Under(p, r)
      PROVE  Under(q, r) \/ Under(r, q)
  <2>1. Len(q) \in Nat /\ Len(r) \in Nat
    BY UnderMeans
  <2> QED BY <1>6, <1>7, <2>1
<1> QED BY <1>1, <1>2, <1>3, <1>4, <1>5, <1>6, <1>7

\* What is left of a path after one it is under.
LEMMA RestFacts ==
  ASSUME NEW p \in Path, NEW q \in Path
  PROVE  /\ Rest(p, q) \in Path
         /\ \A at \in Path : at \o Rest(p, q) \in Path
         /\ Under(p, q) => q \o Rest(p, q) = p
<1>1. Len(p) \in Nat /\ Len(q) \in Nat /\ \A i \in 1..Len(p) : p[i] \in Nat
  BY LenProperties, ElementOfSeq DEF Path
<1>2. \A i \in (Len(q) + 1)..Len(p) : p[i] \in Nat
  BY <1>1
<1>3. Len(q) + 1 \in Int /\ Len(p) \in Int
  BY <1>1
<1>4. /\ Rest(p, q) \in Path
      /\ Len(Rest(p, q)) = IF Len(q) + 1 <= Len(p) THEN Len(p) - (Len(q) + 1) + 1 ELSE 0
      /\ \A i \in 1..(Len(p) - (Len(q) + 1) + 1) : Rest(p, q)[i] = p[Len(q) + 1 + i - 1]
  BY <1>2, <1>3, SubSeqProperties DEF Path, Rest
<1>5. \A at \in Path : at \o Rest(p, q) \in Path
  BY <1>4, ConcatProperties DEF Path
<1>6. ASSUME Under(p, q) PROVE q \o Rest(p, q) = p
  <2>1. Len(q) <= Len(p) /\ \A i \in 1..Len(q) : p[i] = q[i]
    BY <1>6, UnderMeans
  <2>2. Len(Rest(p, q)) = Len(p) - Len(q)
    BY <1>1, <1>4, <2>1
  <2>3. /\ q \o Rest(p, q) \in Path /\ Len(q \o Rest(p, q)) = Len(q) + Len(Rest(p, q))
        /\ \A i \in 1..(Len(q) + Len(Rest(p, q))) :
             (q \o Rest(p, q))[i] = IF i <= Len(q) THEN q[i] ELSE Rest(p, q)[i - Len(q)]
    BY <1>4, ConcatProperties DEF Path
  <2>4. Len(q \o Rest(p, q)) = Len(p)
    BY <1>1, <2>2, <2>3
  <2>5. ASSUME NEW i \in 1..Len(p) PROVE (q \o Rest(p, q))[i] = p[i]
    <3>1. CASE i <= Len(q)
      BY <1>1, <2>1, <2>2, <2>3, <3>1
    <3>2. CASE ~(i <= Len(q))
      <4>1. i - Len(q) \in 1..(Len(p) - (Len(q) + 1) + 1)
        BY <1>1, <3>2
      <4>2. Rest(p, q)[i - Len(q)] = p[Len(q) + 1 + (i - Len(q)) - 1]
        BY <1>4, <4>1
      <4>3. Len(q) + 1 + (i - Len(q)) - 1 = i
        BY <1>1
      <4>4. (q \o Rest(p, q))[i] = Rest(p, q)[i - Len(q)]
        BY <1>1, <2>2, <2>3, <3>2
      <4> QED BY <4>2, <4>3, <4>4
    <3> QED BY <3>1, <3>2
  <2> QED BY <2>3, <2>4, <2>5, SeqEqual DEF Path
<1> QED BY <1>4, <1>5, <1>6

\* Nothing is left of a path after itself.
LEMMA RestSelf ==
  ASSUME NEW p \in Path
  PROVE  Rest(p, p) = <<>>
<1>1. Len(p) \in Nat
  BY LenProperties DEF Path
<1>2. Len(p) + 1 > Len(p) /\ Len(p) + 1 \in Int /\ Len(p) \in Int
  BY <1>1
<1> QED BY <1>2, SubSeqEmpty DEF Rest

\* The order of paths in terms of their names.
LEMMA BeforeMeans ==
  ASSUME NEW p \in Path, NEW q \in Path
  PROVE  Before(p, q) <=>
           \/ Beneath(q, p)
           \/ \E i \in 1..Len(p) : /\ i <= Len(q) /\ p[i] < q[i]
                                   /\ \A j \in 1..(i - 1) : p[j] = q[j]
<1>1. Len(p) \in Nat /\ Len(q) \in Nat /\ (\A i \in 1..Len(p) : p[i] \in Nat)
      /\ (\A i \in 1..Len(q) : q[i] \in Nat)
  BY LenProperties, ElementOfSeq DEF Path
<1>2. ASSUME NEW i \in 1..Len(p), i <= Len(q)
      PROVE  SubSeq(p, 1, i - 1) = SubSeq(q, 1, i - 1) <=> \A j \in 1..(i - 1) : p[j] = q[j]
  <2>1. i - 1 \in Int /\ 1 \in Int
    OBVIOUS
  <2>2. (\A j \in 1..(i - 1) : p[j] \in Nat) /\ (\A j \in 1..(i - 1) : q[j] \in Nat)
    BY <1>1, <1>2
  <2>3. /\ SubSeq(p, 1, i - 1) \in Seq(Nat)
        /\ Len(SubSeq(p, 1, i - 1)) = IF 1 <= i - 1 THEN i - 1 - 1 + 1 ELSE 0
        /\ \A j \in 1..(i - 1 - 1 + 1) : SubSeq(p, 1, i - 1)[j] = p[1 + j - 1]
    BY <2>1, <2>2, SubSeqProperties
  <2>4. /\ SubSeq(q, 1, i - 1) \in Seq(Nat)
        /\ Len(SubSeq(q, 1, i - 1)) = IF 1 <= i - 1 THEN i - 1 - 1 + 1 ELSE 0
        /\ \A j \in 1..(i - 1 - 1 + 1) : SubSeq(q, 1, i - 1)[j] = q[1 + j - 1]
    BY <2>1, <2>2, SubSeqProperties
  <2>5. Len(SubSeq(p, 1, i - 1)) = i - 1 /\ Len(SubSeq(q, 1, i - 1)) = i - 1
    BY <2>3, <2>4
  <2>6. \A j \in 1..(i - 1) : SubSeq(p, 1, i - 1)[j] = p[j] /\ SubSeq(q, 1, i - 1)[j] = q[j]
    BY <2>3, <2>4
  <2>7. ASSUME \A j \in 1..(i - 1) : p[j] = q[j]
        PROVE  SubSeq(p, 1, i - 1) = SubSeq(q, 1, i - 1)
    BY <2>3, <2>4, <2>5, <2>6, <2>7, SeqEqual
  <2> QED BY <2>6, <2>7
<1> QED BY <1>1, <1>2 DEF Before

\* It is an order that compares any two paths.
LEMMA BeforeOrder ==
  /\ \A p \in Path : ~Before(p, p)
  /\ \A p, q, r \in Path : Before(p, q) /\ Before(q, r) => Before(p, r)
  /\ \A p, q \in Path : p = q \/ Before(p, q) \/ Before(q, p)
<1>1. ASSUME NEW p \in Path PROVE ~Before(p, p)
  <2>1. ~Beneath(p, p)
    BY UnderMeans
  <2>2. \A i \in 1..Len(p) : p[i] \in Nat
    BY ElementOfSeq DEF Path
  <2> QED BY <2>1, <2>2, BeforeMeans
<1>2. ASSUME NEW p \in Path, NEW q \in Path, NEW r \in Path, Before(p, q), Before(q, r)
      PROVE  Before(p, r)
  <2>0. /\ Len(p) \in Nat /\ Len(q) \in Nat /\ Len(r) \in Nat
        /\ \A i \in 1..Len(p) : p[i] \in Nat
        /\ \A i \in 1..Len(q) : q[i] \in Nat
        /\ \A i \in 1..Len(r) : r[i] \in Nat
    BY LenProperties, ElementOfSeq DEF Path
  <2>1. CASE Beneath(q, p) /\ Beneath(r, q)
    <3>1. Under(r, p)
      BY <2>1, UnderMeans, UnderOrder
    <3>2. r # p
      BY <2>1, UnderMeans, UnderOrder
    <3> QED BY <3>1, <3>2, UnderMeans, BeforeMeans
  <2>2. ASSUME Beneath(q, p), NEW i \in 1..Len(q), i <= Len(r), q[i] < r[i],
               \A j \in 1..(i - 1) : q[j] = r[j]
        PROVE  Before(p, r)
    <3>1. Len(p) <= Len(q) /\ (\A j \in 1..Len(p) : q[j] = p[j])
      BY <2>2, UnderMeans
    <3>2. CASE i <= Len(p)
      <4>1. i \in 1..Len(p) /\ p[i] < r[i] /\ \A j \in 1..(i - 1) : p[j] = r[j]
        BY <2>0, <2>2, <3>1, <3>2
      <4> QED BY <2>2, <4>1, BeforeMeans
    <3>3. CASE ~(i <= Len(p))
      <4>1. Len(p) < Len(r) /\ \A j \in 1..Len(p) : r[j] = p[j]
        BY <2>0, <2>2, <3>1, <3>3
      <4>2. Beneath(r, p)
        BY <2>0, <4>1, UnderMeans
      <4> QED BY <4>2, BeforeMeans
    <3> QED BY <3>2, <3>3
  <2>3. ASSUME Beneath(r, q), NEW i \in 1..Len(p), i <= Len(q), p[i] < q[i],
               \A j \in 1..(i - 1) : p[j] = q[j]
        PROVE  Before(p, r)
    <3>1. Len(q) <= Len(r) /\ (\A j \in 1..Len(q) : r[j] = q[j])
      BY <2>3, UnderMeans
    <3>2. i <= Len(r) /\ p[i] < r[i] /\ \A j \in 1..(i - 1) : p[j] = r[j]
      BY <2>0, <2>3, <3>1
    <3> QED BY <3>2, BeforeMeans
  <2>4. ASSUME NEW i \in 1..Len(p), i <= Len(q), p[i] < q[i], \A j \in 1..(i - 1) : p[j] = q[j],
               NEW k \in 1..Len(q), k <= Len(r), q[k] < r[k], \A j \in 1..(k - 1) : q[j] = r[j]
        PROVE  Before(p, r)
    <3>1. CASE i <= k
      <4>1. i <= Len(r) /\ p[i] < r[i] /\ \A j \in 1..(i - 1) : p[j] = r[j]
        BY <2>0, <2>4, <3>1
      <4> QED BY <4>1, BeforeMeans
    <3>2. CASE ~(i <= k)
      <4>1. k \in 1..Len(p) /\ p[k] < r[k] /\ \A j \in 1..(k - 1) : p[j] = r[j]
        BY <2>0, <2>4, <3>2
      <4> QED BY <2>4, <4>1, BeforeMeans
    <3> QED BY <3>1, <3>2
  <2>5. \/ Beneath(q, p)
        \/ \E i \in 1..Len(p) : i <= Len(q) /\ p[i] < q[i] /\ \A j \in 1..(i - 1) : p[j] = q[j]
    BY <1>2, BeforeMeans
  <2>6. \/ Beneath(r, q)
        \/ \E k \in 1..Len(q) : k <= Len(r) /\ q[k] < r[k] /\ \A j \in 1..(k - 1) : q[j] = r[j]
    BY <1>2, BeforeMeans
  <2> QED BY <2>1, <2>2, <2>3, <2>4, <2>5, <2>6
<1>3. ASSUME NEW p \in Path, NEW q \in Path, p # q, ~Beneath(q, p), ~Beneath(p, q)
      PROVE  Before(p, q) \/ Before(q, p)
  <2>0. /\ Len(p) \in Nat /\ Len(q) \in Nat
        /\ \A i \in 1..Len(p) : p[i] \in Nat
        /\ \A i \in 1..Len(q) : q[i] \in Nat
    BY LenProperties, ElementOfSeq DEF Path
  <2> DEFINE Differ == {i \in Nat : 1 <= i /\ i <= Len(p) /\ i <= Len(q) /\ p[i] # q[i]}
  <2>1. Differ # {}
    <3>1. CASE Len(q) <= Len(p)
      <4>1. \E i \in 1..Len(q) : p[i] # q[i]
        BY <1>3, <3>1, UnderMeans
      <4> QED BY <2>0, <3>1, <4>1
    <3>2. CASE ~(Len(q) <= Len(p))
      <4>1. \E i \in 1..Len(p) : p[i] # q[i]
        BY <1>3, <2>0, <3>2, UnderMeans
      <4> QED BY <2>0, <3>2, <4>1
    <3> QED BY <3>1, <3>2
  <2>2. PICK i \in Differ : \A j \in Differ : i <= j
    BY <2>1, LeastNat
  <2>3. \A j \in 1..(i - 1) : p[j] = q[j]
    BY <2>0, <2>2
  <2>4. i \in 1..Len(p) /\ i \in 1..Len(q) /\ i <= Len(p) /\ i <= Len(q)
        /\ (p[i] < q[i] \/ q[i] < p[i])
    BY <2>0, <2>2
  <2> QED BY <2>3, <2>4, BeforeMeans
<1>4. ASSUME NEW p \in Path, NEW q \in Path PROVE p = q \/ Before(p, q) \/ Before(q, p)
  BY <1>3 DEF Before
<1> QED BY <1>1, <1>2, <1>4

\* The first of finitely many paths is one of them.
LEMMA FirstIsOne ==
  ASSUME NEW S, IsFiniteSet(S), S \subseteq Path, S # {}
  PROVE  First(S) \in S
<1> DEFINE R == {x \in S \X S : Before(x[1], x[2])}
<1>1. \A x, y \in S : <<x, y>> \in R <=> Before(x, y)
  OBVIOUS
<1> HIDE DEF R
<1>2. \A x \in S : <<x, x>> \notin R
  BY <1>1, BeforeOrder
<1>3. \A x, y, z \in S : <<x, y>> \in R /\ <<y, z>> \in R => <<x, z>> \in R
  BY <1>1, BeforeOrder
<1>4. \A x, y \in S : x = y \/ <<x, y>> \in R \/ <<y, x>> \in R
  BY <1>1, BeforeOrder
<1>5. \E m \in S : \A x \in S \ {m} : <<m, x>> \in R
  BY <1>2, <1>3, <1>4, LeastOf
<1>6. \E m \in S : \A x \in S \ {m} : Before(m, x)
  BY <1>1, <1>5
<1> QED BY <1>6 DEF First

\* The host paths are paths, and what is above one is a directory.
LEMMA HostFacts ==
  /\ HostPaths \subseteq Path /\ Places \subseteq Path
  /\ \A p \in HostPaths, q \in Path : Beneath(p, q) => q \in HostPaths \ Files
<1>1. HostPaths \subseteq Path /\ Places \subseteq Path
  BY PathsAssumption DEF Path
<1>2. ASSUME NEW p \in HostPaths, NEW q \in Path, Beneath(p, q) PROVE q \in HostPaths \ Files
  <2>1. p \in Path /\ Len(p) \in Nat /\ Len(q) \in Nat /\ Len(q) <= Len(p)
    BY <1>1, <1>2, UnderMeans
  <2>2. SubSeq(q, 1, Len(q)) = SubSeq(p, 1, Len(q)) /\ q # p
    BY <1>2 DEF Beneath, IsStrictPrefix, IsPrefix
  <2>3. q = SubSeq(p, 1, Len(q))
    BY <2>2, SubSeqFull DEF Path
  <2>4. Len(q) # Len(p)
    BY <2>1, <2>2, <2>3, SubSeqFull DEF Path
  <2>5. Len(q) \in 0..(Len(p) - 1)
    BY <2>1, <2>4
  <2> QED BY <2>3, <2>5, PathsAssumption
<1> QED BY <1>1, <1>2

\* Every place and path a name is made of is a name.
LEMMA NamesFacts ==
  /\ Names \subseteq Path /\ HostPaths \subseteq Names
  /\ \A at \in Places \cup HostPaths, p, q \in HostPaths :
       Under(p, q) /\ (at = q \/ at \in Places) => at \o Rest(p, q) \in Names
<1>1. HostPaths \subseteq Names
  BY DEF Names
<1>2. ASSUME NEW n \in Names PROVE n \in Path
  <2>1. CASE n \in HostPaths
    BY <2>1, HostFacts
  <2>2. CASE n \notin HostPaths
    <3>1. PICK at \in Places, p \in HostPaths, q \in HostPaths : n = at \o Rest(p, q)
      BY <2>2 DEF Names
    <3> QED BY <3>1, HostFacts, RestFacts
  <2> QED BY <2>1, <2>2
<1>3. ASSUME NEW p \in HostPaths, NEW q \in HostPaths, Under(p, q), NEW at \in Places
      PROVE  at \o Rest(p, q) \in Names
  <2> DEFINE Beyond(a, y) == {a \o Rest(y, x) : x \in {x \in HostPaths : Under(y, x)}}
  <2>1. at \o Rest(p, q) \in Beyond(at, p)
    BY <1>3
  <2>2. Names = HostPaths \cup UNION {Beyond(a, y) : a \in Places, y \in HostPaths}
    BY DEF Names
  <2> HIDE DEF Beyond
  <2>3. Beyond(at, p) \in {Beyond(a, y) : a \in Places, y \in HostPaths}
    BY SMT
  <2> QED BY <2>1, <2>2, <2>3
<1>4. ASSUME NEW p \in HostPaths, NEW q \in HostPaths, Under(p, q)
      PROVE  q \o Rest(p, q) \in Names
  BY <1>1, <1>4, HostFacts, RestFacts
<1> QED BY <1>1, <1>2, <1>3, <1>4

PolicyOK == WellFormed(policy)

\* Finitely many paths are granted, and a plan's First is one of its paths.
LEMMA PolicyFacts ==
  ASSUME PolicyOK
  PROVE  /\ Granted \subseteq HostPaths /\ IsFiniteSet(Granted)
         /\ \A p \in Granted : At(p) \in Places \cup {p} /\ At(p) \in Names
         /\ \A p \in Granted : policy.rules[p].rights \subseteq Rights
         /\ policy.implicit \subseteq HostPaths
         /\ policy.denied \subseteq Names /\ policy.read_only \subseteq Names
         /\ \A S \in SUBSET Granted : S # {} => First(S) \in S
<1>1. /\ Granted \subseteq HostPaths /\ policy.implicit \subseteq HostPaths
      /\ \A p \in Granted : At(p) \in Places \cup {p} /\ policy.rules[p].rights \subseteq Rights
      /\ policy.denied \subseteq Names /\ policy.read_only \subseteq Names
  BY DEF WellFormed, PolicyOK, Granted, At
<1>2. IsFiniteSet(Granted)
  BY <1>1, PathsAssumption, FS_Subset
<1>3. \A S \in SUBSET Granted : S # {} => First(S) \in S
  <2> SUFFICES ASSUME NEW S \in SUBSET Granted, S # {} PROVE First(S) \in S
    OBVIOUS
  <2>1. IsFiniteSet(S) /\ S \subseteq Path
    BY <1>1, <1>2, HostFacts, FS_Subset
  <2> QED BY <2>1, FirstIsOne
<1>4. ASSUME NEW p \in Granted PROVE At(p) \in Names
  <2>1. CASE At(p) = p
    BY <1>1, <2>1, NamesFacts
  <2>2. CASE At(p) \in Places
    <3>1. p \in HostPaths /\ p \in Path /\ Under(p, p)
      BY <1>1, HostFacts, UnderOrder
    <3>2. At(p) \o Rest(p, p) \in Names
      BY <2>2, <3>1, NamesFacts
    <3>3. Rest(p, p) = <<>>
      BY <3>1, RestSelf
    <3>4. At(p) \in Seq(Nat)
      BY <2>2, HostFacts DEF Path
    <3> QED BY <3>2, <3>3, <3>4, ConcatEmptySeq
  <2> QED BY <1>1, <2>1, <2>2
<1> QED BY <1>1, <1>2, <1>3, <1>4

MountsOK == DOMAIN mounts \subseteq Path /\ <<>> \in DOMAIN mounts

\* Of the paths above one, the root among them, one is the longest.
LEMMA Deepest ==
  ASSUME NEW D \in SUBSET Path, <<>> \in D, NEW v \in Path
  PROVE  \E m \in D : Under(v, m) /\ \A n \in D : Under(v, n) => Len(n) <= Len(m)
<1> DEFINE S == {Len(m) : m \in {m \in D : Under(v, m)}}
<1>1. S \in SUBSET Nat /\ S # {} /\ Len(v) \in Nat /\ \A n \in S : n <= Len(v)
  <2>1. \A m \in D : Under(v, m) => Len(m) \in Nat /\ Len(m) <= Len(v)
    BY UnderMeans
  <2>2. Under(v, <<>>) /\ Len(v) \in Nat
    BY UnderOrder, UnderMeans
  <2> QED BY <2>1, <2>2
<1>2. \E k \in S : \A n \in S : n <= k
  BY <1>1, GreatestNat
<1> QED BY <1>2

\* A path has a mount, and it is beneath every other mount the path is under.
LEMMA MountFacts ==
  ASSUME MountsOK, NEW v \in Path
  PROVE  /\ MountOf(v) \in DOMAIN mounts /\ Under(v, MountOf(v)) /\ MountOf(v) \in Path
         /\ \A m \in DOMAIN mounts : Under(v, m) => Under(MountOf(v), m)
<1>1. /\ MountOf(v) \in DOMAIN mounts /\ Under(v, MountOf(v))
      /\ \A n \in DOMAIN mounts : Under(v, n) => Len(n) <= Len(MountOf(v))
  BY Deepest DEF MountOf, MountsOK
<1>2. ASSUME NEW m \in DOMAIN mounts, Under(v, m) PROVE Under(MountOf(v), m)
  BY <1>1, <1>2, UnderOrder DEF MountsOK
<1> QED BY <1>1, <1>2 DEF MountsOK

\* And after the next step.
LEMMA MountFactsNext ==
  ASSUME MountsOK', NEW v \in Path
  PROVE  /\ MountOf(v)' \in DOMAIN mounts' /\ Under(v, MountOf(v)') /\ MountOf(v)' \in Path
         /\ \A m \in DOMAIN mounts' : Under(v, m) => Under(MountOf(v)', m)
<1>1. /\ MountOf(v)' \in DOMAIN mounts' /\ Under(v, MountOf(v)')
      /\ \A n \in DOMAIN mounts' : Under(v, n) => Len(n) <= Len(MountOf(v)')
  BY Deepest DEF MountOf, MountsOK
<1>2. ASSUME NEW m \in DOMAIN mounts', Under(v, m) PROVE Under(MountOf(v)', m)
  BY <1>1, <1>2, UnderOrder DEF MountsOK
<1> QED BY <1>1, <1>2 DEF MountsOK

-----------------------------------------------------------------------------
(* Types.                                                                  *)

\* The plan: what is left to mount, and the Landlock rules.
PlanType ==
  /\ binds \subseteq Granted /\ \A p, q \in binds : ~Beneath(p, q)
  /\ covers \subseteq Names /\ DOMAIN remounts \subseteq Names /\ IsFiniteSet(DOMAIN remounts)
  /\ \A l \in landlock : l.at \in Names /\ l.rights \subseteq Rights

\* The new root and the nodes there are.
FileSystems == {"root", "private", "host", "cover"}
RootType ==
  /\ DOMAIN mounts \subseteq Names
  /\ \A m \in DOMAIN mounts : mounts[m].fs \in FileSystems
  /\ \A n \in dirs \cup files : n[1] \in FileSystems

OtherType ==
  /\ PolicyOK
  /\ pc \in {"plan", "root", "bind", "conceal", "remount", "running", "refused"}
  /\ changes \in 0..MaxChanges /\ seen \subseteq HostPaths

\* Before the first mount the host has no paths but its own; from then on
\* every path has a mount.
HostAtFirst == pc = "plan" => \A n \in dirs \cup files : n[1] = "host" => n[2] \in HostPaths
TopMounted  == pc \in {"bind", "conceal", "remount", "running"} => <<>> \in DOMAIN mounts

TypeInv == PlanType /\ RootType /\ OtherType /\ HostAtFirst /\ TopMounted

\* The shapes of nodes.
LEMMA NodeFacts == \A p : Host(p)[1] = "host" /\ Host(p)[2] = p
  BY DEF Host

\* A function's values on a finite set are finitely many.
LEMMA FiniteValues ==
  ASSUME NEW S, IsFiniteSet(S), NEW f, f = [x \in S |-> f[x]]
  PROVE  IsFiniteSet({f[x] : x \in S})
<1> DEFINE V == {f[x] : x \in S}
<1>1. f \in Surjection(S, V)
  BY DEF Surjection
<1> QED BY <1>1, FS_Surjection

\* Where the target sees a path is one of its names.
LEMMA VisibleIsName ==
  ASSUME PolicyOK, NEW r \in Names,
         r \notin HostPaths => \A p \in Granted : Under(r, p) => At(p) = p
  PROVE  ToVisible(r) \in Names
<1> DEFINE hits == {p \in Granted : Moved(p) /\ Under(r, p)}
<1>1. CASE hits = {}
  BY <1>1 DEF ToVisible
<1>2. CASE hits # {}
  <2>1. First(hits) \in hits
    BY <1>2, PolicyFacts
  <2>2. r \in HostPaths
    BY <2>1 DEF Moved
  <2>3. At(First(hits)) \o Rest(r, First(hits)) \in Names
    BY <2>1, <2>2, PolicyFacts, NamesFacts DEF Moved
  <2> QED BY <1>2, <2>3 DEF ToVisible
<1> QED BY <1>1, <1>2

\* What is made read-only has names the target may use, finitely many.
LEMMA ReadOnlyNames ==
  ASSUME PolicyOK
  PROVE  DOMAIN ReadOnly \subseteq Names /\ IsFiniteSet(DOMAIN ReadOnly)
<1> DEFINE islands == {ToVisible(r) : r \in policy.read_only}
           grants  == {At(p) : p \in Granted}
<1>1. DOMAIN ReadOnly \subseteq islands \cup grants
  BY DEF ReadOnly, UnwritableBeneathImplicit, MetadataReadOnly
<1>2. islands \subseteq Names
  <2> SUFFICES ASSUME NEW r \in policy.read_only PROVE ToVisible(r) \in Names
    OBVIOUS
  <2>1. r \in Names
    BY PolicyFacts
  <2>2. r \notin HostPaths => \A p \in Granted : Under(r, p) => At(p) = p
    BY DEF WellFormed, PolicyOK, Granted, At
  <2> QED BY <2>1, <2>2, VisibleIsName
<1>3. grants \subseteq Names
  BY PolicyFacts
<1>4. IsFiniteSet(islands)
  <2> DEFINE f == [r \in policy.read_only |-> ToVisible(r)]
  <2>1. IsFiniteSet(policy.read_only)
    BY DEF WellFormed, PolicyOK
  <2>2. islands = {f[r] : r \in policy.read_only}
    OBVIOUS
  <2>3. f = [r \in policy.read_only |-> f[r]]
    OBVIOUS
  <2> HIDE DEF f
  <2>4. IsFiniteSet({f[r] : r \in policy.read_only})
    BY <2>1, <2>3, FiniteValues
  <2> QED BY <2>2, <2>4
<1>5. IsFiniteSet(grants)
  <2> DEFINE f == [p \in Granted |-> At(p)]
  <2>1. IsFiniteSet(Granted)
    BY PolicyFacts
  <2>2. grants = {f[p] : p \in Granted}
    OBVIOUS
  <2>3. f = [p \in Granted |-> f[p]]
    OBVIOUS
  <2> HIDE DEF f
  <2>4. IsFiniteSet({f[p] : p \in Granted})
    BY <2>1, <2>3, FiniteValues
  <2> QED BY <2>2, <2>4
<1> HIDE DEF islands, grants
<1>6. IsFiniteSet(islands \cup grants)
  BY <1>4, <1>5, FS_Union
<1>7. IsFiniteSet(DOMAIN ReadOnly)
  BY <1>1, <1>6, FS_Subset
<1> QED BY <1>1, <1>2, <1>3, <1>7

\* A cover is put at a name of what it covers.
LEMMA ConcealedNames ==
  ASSUME PolicyOK, \A n \in dirs \cup files : n[1] = "host" => n[2] \in HostPaths
  PROVE  Concealed \subseteq Names
<1> SUFFICES ASSUME NEW c \in Concealed PROVE c \in Names
  OBVIOUS
<1>1. PICK b \in Bound : \E d \in DeniedPaths : Under(d, b) /\ OnHost(d) /\ c = At(b) \o Rest(d, b)
  BY DEF Concealed
<1>2. PICK d \in DeniedPaths : Under(d, b) /\ OnHost(d) /\ c = At(b) \o Rest(d, b)
  BY <1>1
<1>3. d \in HostPaths
  BY <1>2, NodeFacts DEF OnHost
<1>4. b \in Granted
  BY <1>1 DEF Bound
<1> QED BY <1>2, <1>3, <1>4, PolicyFacts, NamesFacts

\* The plan's rules are for names of the target.
LEMMA LandlockNames ==
  ASSUME PolicyOK
  PROVE  \A l \in LandlockPlan : l.at \in Names /\ l.rights \subseteq Rights
<1> SUFFICES ASSUME NEW l \in LandlockPlan PROVE l.at \in Names /\ l.rights \subseteq Rights
  OBVIOUS
<1>1. CASE \E p \in Granted : l = Allows(At(p), policy.rules[p].rights)
  BY <1>1, PolicyFacts DEF Allows
<1>2. CASE \E area \in {Home, Tmp, Shm} : l = Allows(area, {"read", "write"})
  BY <1>2, PathsAssumption, NamesFacts DEF Allows, Rights
<1> QED BY <1>1, <1>2 DEF LandlockPlan

\* A path resolves to one of the file systems there are.
LEMMA ResolveType ==
  ASSUME MountsOK, \A m \in DOMAIN mounts : mounts[m].fs \in FileSystems, NEW v \in Path
  PROVE  Resolve(v)[1] \in FileSystems
  BY MountFacts DEF Resolve

\* So do those that are made for a mount.
LEMMA MadeType ==
  ASSUME MountsOK, \A m \in DOMAIN mounts : mounts[m].fs \in FileSystems,
         NEW v \in Path, NEW isDir \in BOOLEAN
  PROVE  \A n \in Made(v, isDir) : n[1] \in FileSystems
<1> SUFFICES ASSUME NEW i \in 1..(IF isDir THEN Len(v) ELSE Len(v) - 1)
             PROVE  Resolve(SubSeq(v, 1, i))[1] \in FileSystems
  BY DEF Made
<1>1. Len(v) \in Nat /\ \A j \in 1..Len(v) : v[j] \in Nat
  BY LenProperties, ElementOfSeq DEF Path
<1>2. i \in 1..Len(v)
  BY <1>1
<1>3. SubSeq(v, 1, i) \in Path
  BY <1>1, <1>2, SubSeqProperties DEF Path
<1> QED BY <1>3, ResolveType

\* Mounting keeps a mount at the top.
LEMMA MountType ==
  ASSUME MountsOK, NEW new, DOMAIN new \subseteq Path
  PROVE  /\ DOMAIN Mount(new) \subseteq DOMAIN new \cup DOMAIN mounts
         /\ <<>> \in DOMAIN Mount(new)
         /\ \A q \in DOMAIN Mount(new) : Mount(new)[q] = IF q \in DOMAIN new THEN new[q] ELSE mounts[q]
<1>1. \A p \in Path : ~Beneath(<<>>, p)
  <2> SUFFICES ASSUME NEW p \in Path, Beneath(<<>>, p) PROVE FALSE
    OBVIOUS
  <2>1. <<>> \in Path /\ Under(<<>>, p) /\ p # <<>>
    BY UnderMeans, UnderOrder
  <2> QED BY <2>1, UnderOrder
<1> QED BY <1>1 DEF Mount, MountsOK

\* The types, from these parts.
LEMMA TypeParts ==
  TypeInv => TypeOK /\ PolicyOK /\ (pc \in {"bind", "conceal", "remount", "running"} => MountsOK)
<1>1. PolicyOK => Granted \subseteq HostPaths /\ \A p \in Granted : At(p) \in Names
  BY PolicyFacts
<1>2. DOMAIN mounts \subseteq Names => DOMAIN mounts \subseteq Path
  BY NamesFacts
<1>3. {n[1] : n \in dirs \cup files} \subseteq {"root", "private", "host", "cover"}
        <=> \A n \in dirs \cup files : n[1] \in {"root", "private", "host", "cover"}
  OBVIOUS
<1> QED BY <1>1, <1>2, <1>3 DEF TypeInv, TypeOK, PlanType, RootType, OtherType, HostAtFirst,
                              TopMounted, FileSystems, MountsOK

\* The host starts well typed, whatever the policy.
LEMMA TypeInit == Init => TypeInv
<1> SUFFICES ASSUME Init PROVE TypeInv
  OBVIOUS
<1>1. PlanType
  <2>1. DOMAIN remounts = {}
    BY DEF Init
  <2> QED BY <2>1, FS_EmptySet DEF Init, PlanType
<1>2. \A n \in dirs \cup files : \E p \in HostPaths : n = Host(p)
  BY PathsAssumption DEF Init
<1>3. RootType
  <2>1. DOMAIN mounts = {}
    BY DEF Init
  <2> QED BY <1>2, <2>1, NodeFacts DEF RootType, FileSystems
<1>4. OtherType
  BY PathsAssumption, PoliciesAssumption DEF Init, OtherType, PolicyOK
<1>5. HostAtFirst
  BY <1>2, NodeFacts DEF HostAtFirst
<1>6. TopMounted
  BY DEF Init, TopMounted
<1> QED BY <1>1, <1>3, <1>4, <1>5, <1>6 DEF TypeInv

\* Every step keeps the types.
LEMMA TypeStep == TypeInv /\ [Next]_vars => TypeInv'
<1> SUFFICES ASSUME TypeInv, [Next]_vars PROVE TypeInv'
  OBVIOUS
<1>0. PlanType /\ RootType /\ OtherType /\ HostAtFirst /\ TopMounted
  BY DEF TypeInv
<1>P. PolicyOK /\ (pc \in {"bind", "conceal", "remount", "running"} => MountsOK)
  BY TypeParts
<1>K. policy' = policy => (PolicyOK' /\ Granted' = Granted /\ \A p \in Granted : At(p)' = At(p))
  BY <1>P DEF PolicyOK, Granted, At
<1>L. ASSUME plan' \in {plan}, policy' = policy PROVE PlanType'
  BY <1>0, <1>L, <1>K DEF PlanType, plan
<1>1. CASE Plan
  <2>1. PlanType'
    <3>1. binds' = Bound /\ Bound \subseteq Granted /\ \A p, q \in Bound : ~Beneath(p, q)
      BY <1>1 DEF Plan, Bound
    <3>2. covers' = Concealed /\ Concealed \subseteq Names
      BY <1>0, <1>1, <1>P, ConcealedNames DEF Plan, HostAtFirst
    <3>3. remounts' = ReadOnly /\ DOMAIN ReadOnly \subseteq Names /\ IsFiniteSet(DOMAIN ReadOnly)
      BY <1>1, <1>P, ReadOnlyNames DEF Plan
    <3>4. landlock' = LandlockPlan /\ \A l \in LandlockPlan : l.at \in Names /\ l.rights \subseteq Rights
      BY <1>1, <1>P, LandlockNames DEF Plan
    <3>5. Granted' = Granted
      BY <1>1, <1>K DEF Plan
    <3> QED BY <3>1, <3>2, <3>3, <3>4, <3>5 DEF PlanType
  <2>2. RootType'
    BY <1>0, <1>1 DEF Plan, RootType, root
  <2>3. OtherType'
    BY <1>0, <1>1 DEF Plan, OtherType, PolicyOK
  <2>4. HostAtFirst' /\ TopMounted'
    BY <1>1 DEF Plan, HostAtFirst, TopMounted
  <2> QED BY <2>1, <2>2, <2>3, <2>4 DEF TypeInv
<1>2. CASE MountPrivate
  <2> DEFINE areas == (IF PrivateHome THEN {Home} ELSE {}) \cup (IF PrivateTmp THEN {Tmp} ELSE {})
  <2>0. areas \subseteq Names /\ <<>> \in Names
    BY PathsAssumption, NamesFacts
  <2>1. PlanType'
    BY <1>2, <1>L DEF MountPrivate
  <2>2. RootType'
    <3>1. mounts' = [q \in {<<>>} \cup areas |-> Fresh(IF q = <<>> THEN "root" ELSE "private", q)]
      BY <1>2 DEF MountPrivate
    <3>2. dirs' = dirs \cup {<<"root", a>> : a \in areas \cup {<<>>}} \cup {<<"private", a>> : a \in areas}
          /\ files' = files
      BY <1>2 DEF MountPrivate
    <3> HIDE DEF areas
    <3>3. DOMAIN mounts' \subseteq Names /\ \A m \in DOMAIN mounts' : mounts'[m].fs \in FileSystems
      BY <2>0, <3>1 DEF Fresh, FileSystems
    <3>4. \A n \in dirs' \cup files' : n[1] \in FileSystems
      BY <1>0, <3>2 DEF RootType, FileSystems
    <3> QED BY <3>3, <3>4 DEF RootType
  <2>3. OtherType'
    BY <1>0, <1>2 DEF MountPrivate, OtherType, PolicyOK
  <2>4. HostAtFirst' /\ TopMounted'
    BY <1>2 DEF MountPrivate, HostAtFirst, TopMounted
  <2> QED BY <2>1, <2>2, <2>3, <2>4 DEF TypeInv
<1>R. ASSUME Refused, policy' = policy, changes' = changes, seen' = seen PROVE TypeInv'
  <2>1. PlanType'
    BY <1>R, <1>L DEF Refused
  <2>2. RootType'
    BY <1>0, <1>R DEF Refused, RootType, root
  <2>3. OtherType'
    BY <1>0, <1>R DEF Refused, OtherType, PolicyOK
  <2>4. HostAtFirst' /\ TopMounted'
    BY <1>R DEF Refused, HostAtFirst, TopMounted
  <2> QED BY <2>1, <2>2, <2>3, <2>4 DEF TypeInv
<1>3. CASE Bind
  <2> DEFINE p == First(binds)
             isDir == p \notin Files
  <2>0. CASE ~(OnHost(p) /\ Fits(At(p), isDir)) /\ Refused
    BY <1>3, <1>R, <2>0 DEF Bind
  <2>1. CASE /\ OnHost(p) /\ Fits(At(p), isDir)
             /\ dirs' = dirs \cup Made(At(p), isDir)
             /\ files' = IF isDir THEN files ELSE files \cup {Resolve(At(p))}
             /\ mounts' = Mount([q \in {At(p)} |-> Fresh("host", p)])
             /\ binds' = binds \ {p}
             /\ UNCHANGED <<pc, covers, remounts, landlock>>
    <3>0. policy' = policy /\ changes' = changes /\ seen' = seen /\ pc = "bind"
      BY <1>3 DEF Bind
    <3>1. PlanType'
      BY <1>0, <1>K, <2>1, <3>0 DEF PlanType
    <3>2. p \in Granted /\ At(p) \in Names /\ At(p) \in Path /\ MountsOK
      <4>1. binds # {} /\ binds \subseteq Granted
        BY <1>0, <1>3 DEF Bind, PlanType
      <4>2. p \in Granted
        BY <1>P, <4>1, PolicyFacts
      <4> QED BY <1>P, <3>0, <4>2, PolicyFacts, NamesFacts
    <3> DEFINE new == [q \in {At(p)} |-> Fresh("host", p)]
    <3>3. /\ DOMAIN Mount(new) \subseteq DOMAIN new \cup DOMAIN mounts
          /\ <<>> \in DOMAIN Mount(new)
          /\ \A q \in DOMAIN Mount(new) : Mount(new)[q] = IF q \in DOMAIN new THEN new[q] ELSE mounts[q]
      BY <3>2, MountType
    <3>4. RootType'
      <4>1. \A n \in Made(At(p), isDir) \cup {Resolve(At(p))} : n[1] \in FileSystems
        BY <1>0, <3>2, MadeType, ResolveType DEF RootType
      <4>2. \A n \in dirs' \cup files' : n[1] \in FileSystems
        BY <1>0, <2>1, <4>1 DEF RootType
      <4>3. DOMAIN mounts' \subseteq Names
        BY <1>0, <2>1, <3>2, <3>3 DEF RootType
      <4>4. \A q \in DOMAIN mounts' : mounts'[q].fs \in FileSystems
        <5>1. \A q \in DOMAIN new : new[q].fs \in FileSystems
          BY DEF Fresh, FileSystems
        <5>2. mounts' = Mount(new)
          BY <2>1
        <5> HIDE DEF new
        <5> QED BY <1>0, <3>3, <5>1, <5>2 DEF RootType
      <4> QED BY <4>2, <4>3, <4>4 DEF RootType
    <3>5. OtherType'
      BY <1>0, <2>1, <3>0 DEF OtherType, PolicyOK
    <3>6. HostAtFirst' /\ TopMounted'
      BY <2>1, <3>0, <3>3 DEF HostAtFirst, TopMounted
    <3> QED BY <3>1, <3>4, <3>5, <3>6 DEF TypeInv
  <2> QED BY <1>3, <2>0, <2>1 DEF Bind
<1>4. CASE MountDevices
  <2> DEFINE areas == (IF PrivateShm THEN {Shm} ELSE {}) \cup (IF Devpts THEN {Pts} ELSE {})
  <2>0. CASE Refused
    BY <1>4, <1>R, <2>0 DEF MountDevices
  <2>1. CASE /\ dirs' = dirs \cup (UNION {Made(a, TRUE) : a \in areas}) \cup {<<"private", a>> : a \in areas}
             /\ mounts' = Mount([q \in areas |-> Fresh("private", q)])
             /\ pc' = "conceal"
             /\ UNCHANGED <<files, plan>>
    <3>0. policy' = policy /\ changes' = changes /\ seen' = seen /\ pc = "bind"
      BY <1>4 DEF MountDevices
    <3>1. PlanType'
      BY <1>L, <2>1, <3>0
    <3>2. areas \subseteq Names /\ areas \subseteq Path /\ MountsOK
      BY <1>P, <3>0, PathsAssumption, NamesFacts
    <3>D. /\ files' = files
          /\ dirs' = dirs \cup (UNION {Made(a, TRUE) : a \in areas}) \cup {<<"private", a>> : a \in areas}
      BY <2>1
    <3> DEFINE new == [q \in areas |-> Fresh("private", q)]
    <3> HIDE DEF areas
    <3>3. /\ DOMAIN Mount(new) \subseteq DOMAIN new \cup DOMAIN mounts
          /\ <<>> \in DOMAIN Mount(new)
          /\ \A q \in DOMAIN Mount(new) : Mount(new)[q] = IF q \in DOMAIN new THEN new[q] ELSE mounts[q]
      BY <3>2, MountType
    <3>4. RootType'
      <4>1. \A a \in areas : \A n \in Made(a, TRUE) : n[1] \in FileSystems
        BY <1>0, <3>2, MadeType DEF RootType
      <4>2. \A n \in dirs' \cup files' : n[1] \in FileSystems
        <5>1. \A n \in UNION {Made(a, TRUE) : a \in areas} : n[1] \in FileSystems
          BY <4>1
        <5>2. \A n \in {<<"private", a>> : a \in areas} : n[1] \in FileSystems
          BY DEF FileSystems
        <5> DEFINE made == UNION {Made(a, TRUE) : a \in areas}
                   own == {<<"private", a>> : a \in areas}
        <5>3. dirs' = dirs \cup made \cup own
          BY <3>D, Zenon
        <5>4. \A n \in made \cup own : n[1] \in FileSystems
          BY <5>1, <5>2
        <5> HIDE DEF made, own
        <5> QED BY <1>0, <3>D, <5>3, <5>4 DEF RootType
      <4>3. DOMAIN mounts' \subseteq Names
        BY <1>0, <2>1, <3>2, <3>3 DEF RootType
      <4>4. \A q \in DOMAIN mounts' : mounts'[q].fs \in FileSystems
        <5>1. \A q \in DOMAIN new : new[q].fs \in FileSystems
          BY DEF Fresh, FileSystems
        <5>2. mounts' = Mount(new)
          BY <2>1
        <5> HIDE DEF new
        <5> QED BY <1>0, <3>3, <5>1, <5>2 DEF RootType
      <4> QED BY <4>2, <4>3, <4>4 DEF RootType
    <3>5. OtherType'
      BY <1>0, <2>1, <3>0 DEF OtherType, PolicyOK
    <3>6. HostAtFirst' /\ TopMounted'
      BY <2>1, <3>0, <3>3 DEF HostAtFirst, TopMounted
    <3> QED BY <3>1, <3>4, <3>5, <3>6 DEF TypeInv
  <2> QED BY <1>4, <2>0, <2>1 DEF MountDevices
<1>5. CASE Conceal
  <2> DEFINE there == {c \in covers : InRoot(c)}
             new == [q \in {c \in there : \A d \in there : ~Beneath(c, d)} |->
                       [fs |-> "cover", path |-> q, ro |-> TRUE]]
  <2>0. /\ pc = "conceal" /\ mounts' = Mount(new)
        /\ dirs' = dirs \cup {<<"cover", c>> : c \in covers}
        /\ covers' = {} /\ pc' = "remount"
        /\ UNCHANGED <<policy, binds, remounts, landlock, files, changes, seen>>
    BY <1>5 DEF Conceal
  <2>1. PlanType'
    BY <1>0, <1>K, <2>0 DEF PlanType
  <2>2. DOMAIN new \subseteq Names /\ DOMAIN new \subseteq Path /\ MountsOK
        /\ \A q \in DOMAIN new : new[q].fs \in FileSystems
    BY <1>0, <1>P, <2>0, NamesFacts DEF PlanType, FileSystems
  <2> HIDE DEF new
  <2>3. /\ DOMAIN Mount(new) \subseteq DOMAIN new \cup DOMAIN mounts
        /\ <<>> \in DOMAIN Mount(new)
        /\ \A q \in DOMAIN Mount(new) : Mount(new)[q] = IF q \in DOMAIN new THEN new[q] ELSE mounts[q]
    BY <2>2, MountType
  <2>4. RootType'
    <3>2. \A n \in dirs' \cup files' : n[1] \in FileSystems
      BY <1>0, <2>0 DEF RootType, FileSystems
    <3>3. DOMAIN mounts' \subseteq Names
      BY <1>0, <2>0, <2>2, <2>3 DEF RootType
    <3>4. \A q \in DOMAIN mounts' : mounts'[q].fs \in FileSystems
      BY <1>0, <2>0, <2>2, <2>3 DEF RootType
    <3> QED BY <3>2, <3>3, <3>4 DEF RootType
  <2>5. OtherType'
    BY <1>0, <2>0 DEF OtherType, PolicyOK
  <2>6. HostAtFirst' /\ TopMounted'
    BY <2>0, <2>3 DEF HostAtFirst, TopMounted
  <2> QED BY <2>1, <2>4, <2>5, <2>6 DEF TypeInv
<1>6. CASE Remount
  <2> DEFINE at == First(DOMAIN remounts)
             again == [fs |-> Resolve(at)[1], path |-> Resolve(at)[2], ro |-> TRUE]
  <2>0. CASE Refused
    BY <1>6, <1>R, <2>0 DEF Remount
  <2>1. CASE /\ mounts' = IF InRoot(at)
                          THEN [q \in {at} \cup DOMAIN mounts |-> IF q = at THEN again ELSE mounts[q]]
                          ELSE mounts
             /\ remounts' = [q \in DOMAIN remounts \ {at} |-> remounts[q]]
             /\ UNCHANGED <<pc, binds, covers, landlock, dirs, files>>
    <3>0. policy' = policy /\ changes' = changes /\ seen' = seen /\ pc = "remount"
      BY <1>6 DEF Remount
    <3>1. PlanType'
      <4>1. DOMAIN remounts' \subseteq DOMAIN remounts
        BY <2>1
      <4>2. IsFiniteSet(DOMAIN remounts')
        BY <1>0, <4>1, FS_Subset DEF PlanType
      <4> QED BY <1>0, <1>K, <2>1, <3>0, <4>1, <4>2 DEF PlanType
    <3>2. at \in Names /\ at \in Path /\ MountsOK
      <4>1. DOMAIN remounts # {} /\ DOMAIN remounts \subseteq Names /\ IsFiniteSet(DOMAIN remounts)
        BY <1>0, <1>6 DEF Remount, PlanType
      <4>2. at \in DOMAIN remounts
        BY <4>1, NamesFacts, FirstIsOne
      <4> QED BY <1>P, <3>0, <4>1, <4>2, NamesFacts
    <3>3. again.fs \in FileSystems
      BY <1>0, <3>2, ResolveType DEF RootType
    <3> HIDE DEF again
    <3>4. RootType'
      BY <1>0, <2>1, <3>2, <3>3 DEF RootType
    <3>5. OtherType'
      BY <1>0, <2>1, <3>0 DEF OtherType, PolicyOK
    <3>6. HostAtFirst' /\ TopMounted'
      BY <1>0, <2>1, <3>0 DEF HostAtFirst, TopMounted
    <3> QED BY <3>1, <3>4, <3>5, <3>6 DEF TypeInv
  <2> QED BY <1>6, <2>0, <2>1 DEF Remount
<1>7. CASE ApplyLandlock
  <2>1. PlanType'
    BY <1>0, <1>7, <1>K DEF ApplyLandlock, PlanType
  <2>2. RootType'
    BY <1>0, <1>7 DEF ApplyLandlock, RootType, root
  <2>3. OtherType'
    BY <1>0, <1>7 DEF ApplyLandlock, OtherType, PolicyOK
  <2>4. HostAtFirst' /\ TopMounted'
    BY <1>0, <1>7 DEF ApplyLandlock, HostAtFirst, TopMounted, root
  <2> QED BY <2>1, <2>2, <2>3, <2>4 DEF TypeInv
<1>8. ASSUME NEW p \in Volatile, Appears(p) PROVE TypeInv'
  <2>1. PlanType'
    BY <1>8, <1>L DEF Appears
  <2>2. RootType'
    BY <1>0, <1>8, NodeFacts DEF Appears, RootType, FileSystems
  <2>3. OtherType'
    BY <1>0, <1>8, PathsAssumption DEF Appears, OtherType, PolicyOK
  <2>4. HostAtFirst' /\ TopMounted'
    BY <1>0, <1>8, NodeFacts, PathsAssumption DEF Appears, HostAtFirst, TopMounted
  <2> QED BY <2>1, <2>2, <2>3, <2>4 DEF TypeInv
<1>9. ASSUME NEW p \in Volatile, Vanishes(p) PROVE TypeInv'
  <2>1. PlanType'
    BY <1>9, <1>L DEF Vanishes
  <2>2. RootType'
    BY <1>0, <1>9 DEF Vanishes, RootType
  <2>3. OtherType'
    BY <1>0, <1>9, PathsAssumption DEF Vanishes, OtherType, PolicyOK
  <2>4. HostAtFirst' /\ TopMounted'
    BY <1>0, <1>9 DEF Vanishes, HostAtFirst, TopMounted
  <2> QED BY <2>1, <2>2, <2>3, <2>4 DEF TypeInv
<1>10. CASE UNCHANGED vars
  <2>1. PlanType'
    BY <1>10, <1>L DEF vars
  <2>2. RootType' /\ HostAtFirst' /\ TopMounted'
    BY <1>0, <1>10 DEF vars, root, RootType, HostAtFirst, TopMounted
  <2>3. OtherType'
    BY <1>0, <1>10 DEF vars, OtherType, PolicyOK
  <2> QED BY <2>1, <2>2, <2>3 DEF TypeInv
<1>11. CASE Fails
  BY <1>11, <1>R DEF Fails
<1> QED BY <1>1, <1>2, <1>3, <1>4, <1>5, <1>6, <1>7, <1>8, <1>9, <1>10, <1>11 DEF Next, Setup

\* Whatever the policy and the host, the state has its types throughout, and
\* no bind is ever left to make beneath another (build_isolation_plan,
\* setup_root).
THEOREM TypeCorrect == Spec => []TypeOK
<1>1. TypeInv => TypeOK
  BY TypeParts
<1> QED BY <1>1, TypeInit, TypeStep, PTL DEF Spec

-----------------------------------------------------------------------------
(* The new root when every grant is placed where the host has it.          *)

Unmoved == \A p \in Granted : ~Moved(p)

\* Grants that are mounted: still to bind, or bound and not remounted yet.
Served == binds \cup {m \in DOMAIN mounts : mounts[m].fs = "host" /\ ~mounts[m].ro}

\* What is to be remounted read-only.
Planned == UnwritableBeneathImplicit \cup MetadataReadOnly \cup policy.read_only

Unmounted  == pc \in {"plan", "root"}
Concealing == pc \in {"root", "bind", "conceal"}
Hiding     == pc \in {"remount", "running"}

\* A directory of the host stays, and so does what the plan was made with.
HostStays == /\ \A p \in HostPaths \ Files : OnHost(p)
             /\ \A p \in seen : OnHost(p)

\* Everything is mounted where it belongs, and the host is mounted only where
\* it was granted.
MountsInPlace ==
  /\ Unmounted => DOMAIN mounts = {}
  /\ \A m \in DOMAIN mounts : mounts[m].path = m
  /\ \A m \in DOMAIN mounts : mounts[m].fs = "host" => OnHost(m) /\ \E g \in Granted : Under(m, g)

\* What is served is a topmost grant outside every denied path.
TopsServed ==
  \A b \in Served : /\ b \in Granted /\ \A q \in Granted : ~Beneath(b, q)
                    /\ \A d \in policy.denied : ~Under(b, d)

\* A denied path beneath it is to be covered, and is out of reach then.
DeniedHidden ==
  /\ covers \subseteq policy.denied
  /\ Concealing => \A b \in Served, d \in policy.denied \cap seen : Under(d, b) => d \in covers
  /\ Hiding => \A v \in Names, d \in policy.denied \cap seen : Under(v, d) => Resolve(v)[1] # "host"

\* What is to be read-only is remounted, and nothing else is read-only but a
\* cover.
RemountsMade ==
  /\ \A at \in DOMAIN remounts : remounts[at] = at
  /\ DOMAIN remounts \subseteq Planned
  /\ Concealing => Planned \subseteq DOMAIN remounts /\ \A m \in DOMAIN mounts : ~mounts[m].ro
  /\ Hiding =>
       /\ \A at \in Planned \cap seen : at \in DOMAIN remounts \/ (at \in DOMAIN mounts /\ mounts[at].ro)
       /\ \A m \in DOMAIN mounts \cap Planned :
            mounts[m].fs = "host" /\ ~mounts[m].ro => m \in DOMAIN remounts
  /\ \A m \in DOMAIN mounts : mounts[m].ro => m \in Planned \cup policy.denied
  /\ pc = "running" => DOMAIN remounts = {}

RulesPlanned == landlock \subseteq LandlockPlan

RootInv == HostStays /\ MountsInPlace /\ TopsServed /\ DeniedHidden /\ RemountsMade /\ RulesPlanned

\* The policy decides all this, and it stays.
LEMMA PolicyStays ==
  ASSUME policy' = policy
  PROVE  /\ Granted' = Granted /\ Planned' = Planned /\ LandlockPlan' = LandlockPlan
         /\ (Unmoved' <=> Unmoved)
<1>1. Granted' = Granted /\ (\A p : At(p)' = At(p)) /\ (\A p : Writes(p)' <=> Writes(p))
  BY DEF Granted, At, Writes
<1>2. (Unmoved' <=> Unmoved) /\ (\A p : Moved(p)' <=> Moved(p))
  BY <1>1 DEF Unmoved, Moved
<1>3. (PrivateHome' <=> PrivateHome) /\ (PrivateTmp' <=> PrivateTmp) /\ (PrivateShm' <=> PrivateShm)
  BY <1>1 DEF PrivateHome, PrivateTmp, PrivateShm, CoveredByGrant, PolicyTouches
<1>4. \A p : ToVisible(p)' = ToVisible(p)
  BY DEF ToVisible, Moved, At, Granted
<1>5. UnwritableBeneathImplicit' = UnwritableBeneathImplicit /\ MetadataReadOnly' = MetadataReadOnly
  BY DEF UnwritableBeneathImplicit, MetadataReadOnly, PrivateHome, CoveredByGrant, ToVisible, Moved,
         At, Granted, Writes
<1>6. LandlockPlan' = LandlockPlan
  BY DEF LandlockPlan, PrivateHome, PrivateTmp, PrivateShm, CoveredByGrant, PolicyTouches, At, Granted
<1> QED BY <1>1, <1>2, <1>5, <1>6 DEF Planned

\* Nothing moves: a path has one name.
LEMMA OneName ==
  ASSUME PolicyOK, Unmoved
  PROVE  /\ \A p \in Granted : At(p) = p
         /\ \A v : ToHost(v) = v /\ ToVisible(v) = v
         /\ DeniedPaths = policy.denied
         /\ UnwritableBeneathImplicit =
              {p \in Granted :
                 /\ ~Writes(p)
                 /\ \E r \in policy.implicit \cup (IF PrivateHome THEN {Home} ELSE {}) : Beneath(p, r)}
         /\ Planned \subseteq Names
<1>1. \A p \in Granted : At(p) = p
  BY DEF Unmoved, Moved
<1>2. \A v : ToHost(v) = v /\ ToVisible(v) = v
  BY DEF ToHost, ToVisible, Unmoved
<1>3. DeniedPaths = policy.denied
  BY <1>2 DEF DeniedPaths
<1>4. {ToVisible(r) : r \in policy.implicit} = policy.implicit
  BY <1>2
<1>5. UnwritableBeneathImplicit =
        {p \in Granted : ~Writes(p) /\ \E r \in policy.implicit \cup (IF PrivateHome THEN {Home} ELSE {}) :
                                         Beneath(p, r)}
  BY <1>1, <1>4 DEF UnwritableBeneathImplicit
<1>6. Planned \subseteq Names
  BY PolicyFacts, NamesFacts DEF Planned, UnwritableBeneathImplicit, MetadataReadOnly
<1> QED BY <1>1, <1>2, <1>3, <1>5, <1>6

\* The remounts of the plan, each at its own path.
LEMMA ReadOnlyMeans ==
  ASSUME PolicyOK, Unmoved
  PROVE  DOMAIN ReadOnly = Planned /\ \A at \in Planned : ReadOnly[at] = at
<1> DEFINE islands == {[at |-> ToVisible(r), host |-> r] : r \in policy.read_only}
           grants  == {[at |-> At(p), host |-> p] : p \in UnwritableBeneathImplicit \cup MetadataReadOnly}
           spelt(at, S) == First({e.host : e \in {e \in S : e.at = at}})
<1>1. ReadOnly = [at \in {e.at : e \in islands \cup grants} |->
                    IF \E e \in islands : e.at = at THEN spelt(at, islands) ELSE spelt(at, grants)]
  BY DEF ReadOnly
<1>2. islands = {[at |-> r, host |-> r] : r \in policy.read_only}
  BY OneName
<1>3. grants = {[at |-> p, host |-> p] : p \in UnwritableBeneathImplicit \cup MetadataReadOnly}
  BY OneName DEF UnwritableBeneathImplicit, MetadataReadOnly
<1>4. \A e \in islands \cup grants : e.host = e.at
  BY <1>2, <1>3
<1>5. {e.at : e \in islands \cup grants} = Planned
  <2>1. /\ \A e \in islands : e.at \in policy.read_only
        /\ \A r \in policy.read_only : [at |-> r, host |-> r] \in islands /\ [at |-> r, host |-> r].at = r
    BY <1>2
  <2>2. /\ \A e \in grants : e.at \in UnwritableBeneathImplicit \cup MetadataReadOnly
        /\ \A p \in UnwritableBeneathImplicit \cup MetadataReadOnly :
             [at |-> p, host |-> p] \in grants /\ [at |-> p, host |-> p].at = p
    BY <1>3
  <2> HIDE DEF islands, grants
  <2> QED BY <2>1, <2>2 DEF Planned
<1> HIDE DEF islands, grants
<1>6. ASSUME NEW at \in Planned, NEW S \in SUBSET (islands \cup grants), \E e \in S : e.at = at
      PROVE  spelt(at, S) = at
  <2>1. {e.host : e \in {e \in S : e.at = at}} = {at}
    BY <1>4, <1>6
  <2>2. IsFiniteSet({at}) /\ at \in Path
    BY <1>6, OneName, NamesFacts, FS_Singleton
  <2>3. First({at}) \in {at}
    BY <2>2, FirstIsOne
  <2> QED BY <2>1, <2>3
<1>7. ASSUME NEW at \in Planned PROVE ReadOnly[at] = at
  <2>1. CASE \E e \in islands : e.at = at
    <3>1. spelt(at, islands) = at
      BY <1>6, <2>1
    <3> HIDE DEF spelt
    <3> QED BY <1>1, <1>5, <1>7, <2>1, <3>1
  <2>2. CASE ~\E e \in islands : e.at = at
    <3>1. \E e \in grants : e.at = at
      BY <1>5, <1>7, <2>2
    <3>2. spelt(at, grants) = at
      BY <1>6, <3>1
    <3> HIDE DEF spelt
    <3> QED BY <1>1, <1>5, <1>7, <2>2, <3>2
  <2> QED BY <2>1, <2>2
<1> HIDE DEF spelt
<1> QED BY <1>1, <1>5, <1>7

\* What is bound is served for good reason.
LEMMA BoundMeans ==
  ASSUME PolicyOK, Unmoved, HostStays, NEW b \in Bound
  PROVE  /\ b \in Granted /\ OnHost(b) /\ \A d \in policy.denied : ~Under(b, d)
         /\ \A q \in Granted : ~Beneath(b, q)
<1>1. b \in Granted /\ OnHost(b) /\ \A d \in policy.denied : ~Under(b, d)
  BY OneName DEF Bound
<1>2. ASSUME NEW q \in Granted, Beneath(b, q) PROVE FALSE
  <2>1. b \in HostPaths /\ b \in Path /\ q \in Path /\ policy.denied \subseteq Path
    BY <1>1, PolicyFacts, HostFacts, NamesFacts
  <2>2. OnHost(q)
    BY <1>2, <2>1, HostFacts DEF HostStays
  <2>3. Under(b, q)
    BY <1>2, <2>1, UnderMeans
  <2>4. \A d \in policy.denied : ~Under(q, d)
    BY <1>1, <2>1, <2>3, UnderOrder
  <2> QED BY <1>2, <2>2, <2>4, OneName DEF Bound
<1> QED BY <1>1, <1>2

\* What is concealed is denied, and everything denied that is there.
LEMMA ConcealedMeans ==
  ASSUME PolicyOK, Unmoved
  PROVE  /\ Concealed \subseteq policy.denied
         /\ \A b \in Bound, d \in policy.denied : Under(d, b) /\ OnHost(d) => d \in Concealed
<1>1. \A b \in Bound, d \in policy.denied : Under(d, b) => At(b) \o Rest(d, b) = d
  BY OneName, PolicyFacts, HostFacts, NamesFacts, RestFacts DEF Bound
<1> DEFINE Beneaths(b) == {At(b) \o Rest(d, b) : d \in {d \in DeniedPaths : Under(d, b) /\ OnHost(d)}}
<1>2. \A b \in Bound : Beneaths(b) = {d \in policy.denied : Under(d, b) /\ OnHost(d)}
  BY <1>1, OneName
<1>3. Concealed = UNION {Beneaths(b) : b \in Bound}
  BY Zenon DEF Concealed
<1> HIDE DEF Beneaths
<1> QED BY <1>2, <1>3

\* A path resolves to itself, in the file system that is mounted there.
LEMMA ResolveMeans ==
  ASSUME MountsOK, \A m \in DOMAIN mounts : mounts[m].path = m, NEW v \in Path
  PROVE  Resolve(v) = <<mounts[MountOf(v)].fs, v>>
<1>1. MountOf(v) \in DOMAIN mounts /\ Under(v, MountOf(v)) /\ MountOf(v) \in Path
  BY MountFacts
<1> QED BY <1>1, RestFacts DEF Resolve

\* And after the next step.
LEMMA ResolveNext ==
  ASSUME MountsOK', \A m \in DOMAIN mounts' : mounts'[m].path = m, NEW v \in Path
  PROVE  Resolve(v)' = <<mounts'[MountOf(v)'].fs, v>>
<1>1. MountOf(v)' \in DOMAIN mounts' /\ Under(v, MountOf(v)') /\ MountOf(v)' \in Path
  BY MountFactsNext
<1> QED BY <1>1, RestFacts DEF Resolve

\* Binding a path over itself changes nothing but that it is read-only.
LEMMA RemountKeeps ==
  ASSUME MountsOK, \A m \in DOMAIN mounts : mounts[m].path = m, NEW at \in Path,
         mounts' = [q \in {at} \cup DOMAIN mounts |->
                      IF q = at THEN [fs |-> Resolve(at)[1], path |-> Resolve(at)[2], ro |-> TRUE]
                      ELSE mounts[q]]
  PROVE  /\ MountsOK' /\ \A m \in DOMAIN mounts' : mounts'[m].path = m
         /\ \A v \in Path : Resolve(v)' = Resolve(v)
<1>1. Resolve(at) = <<mounts[MountOf(at)].fs, at>>
  BY ResolveMeans
<1>2. MountsOK' /\ \A m \in DOMAIN mounts' : mounts'[m].path = m
  BY <1>1 DEF MountsOK
<1>3. ASSUME NEW v \in Path PROVE Resolve(v)' = Resolve(v)
  <2>1. Resolve(v)' = <<mounts'[MountOf(v)'].fs, v>> /\ Resolve(v) = <<mounts[MountOf(v)].fs, v>>
    BY <1>2, ResolveMeans, ResolveNext
  <2>2. /\ MountOf(v) \in DOMAIN mounts /\ Under(v, MountOf(v)) /\ MountOf(v) \in Path
        /\ \A m \in DOMAIN mounts : Under(v, m) => Under(MountOf(v), m)
    BY MountFacts
  <2>3. /\ MountOf(v)' \in DOMAIN mounts' /\ Under(v, MountOf(v)') /\ MountOf(v)' \in Path
        /\ \A m \in DOMAIN mounts' : Under(v, m) => Under(MountOf(v)', m)
    BY <1>2, MountFactsNext
  <2>4. Under(MountOf(v)', MountOf(v))
    BY <2>2, <2>3
  <2>5. CASE MountOf(v)' = at
    <3>1. mounts'[MountOf(v)'].fs = mounts[MountOf(at)].fs
      BY <1>1, <2>5
    <3>2. /\ MountOf(at) \in DOMAIN mounts /\ Under(at, MountOf(at)) /\ MountOf(at) \in Path
          /\ \A m \in DOMAIN mounts : Under(at, m) => Under(MountOf(at), m)
      BY MountFacts
    <3>3. Under(MountOf(at), MountOf(v))
      BY <2>2, <2>4, <2>5, <3>2
    <3>4. Under(v, MountOf(at))
      BY <2>3, <2>5, <3>2, UnderOrder
    <3>5. MountOf(at) = MountOf(v)
      BY <2>2, <3>2, <3>3, <3>4, UnderOrder
    <3> QED BY <2>1, <3>1, <3>5
  <2>6. CASE MountOf(v)' # at
    <3>1. MountOf(v)' \in DOMAIN mounts /\ mounts'[MountOf(v)'] = mounts[MountOf(v)']
      BY <2>3, <2>6
    <3>2. MountOf(v)' = MountOf(v)
      BY <2>2, <2>3, <2>4, <3>1, UnderOrder
    <3> QED BY <2>1, <3>1, <3>2
  <2> QED BY <2>5, <2>6
<1> QED BY <1>2, <1>3

-----------------------------------------------------------------------------
(* That invariant is kept.                                                 *)

\* Nothing is mounted at first.
LEMMA RootInit == Init => RootInv
<1> SUFFICES ASSUME Init PROVE RootInv
  OBVIOUS
<1>1. /\ pc = "plan" /\ binds = {} /\ covers = {} /\ DOMAIN remounts = {} /\ landlock = {}
      /\ DOMAIN mounts = {} /\ seen = {}
  BY DEF Init
<1>2. HostStays
  <2>1. dirs = {Host(p) : p \in HostPaths \ Files}
    BY DEF Init
  <2> QED BY <1>1, <2>1 DEF HostStays, OnHost
<1>3. MountsInPlace
  BY <1>1 DEF MountsInPlace
<1>4. TopsServed
  BY <1>1 DEF TopsServed, Served
<1>5. DeniedHidden
  BY <1>1 DEF DeniedHidden, Concealing, Hiding
<1>6. RemountsMade
  BY <1>1 DEF RemountsMade, Concealing, Hiding
<1>7. RulesPlanned
  BY <1>1 DEF RulesPlanned
<1> QED BY <1>2, <1>3, <1>4, <1>5, <1>6, <1>7 DEF RootInv

\* A step that mounts nothing keeps it.
LEMMA RootCalm ==
  ASSUME RootInv, HostStays', policy' = policy, mounts' = mounts, binds' = binds, covers' = covers,
         remounts' = remounts, landlock' \subseteq landlock, seen' \subseteq seen,
         \A m \in DOMAIN mounts : mounts[m].fs = "host" => OnHost(m)',
         pc' \in {pc, "refused"} \/ (pc = "remount" /\ pc' = "running" /\ DOMAIN remounts = {})
  PROVE  RootInv'
<1>0. /\ HostStays /\ MountsInPlace /\ TopsServed /\ DeniedHidden /\ RemountsMade /\ RulesPlanned
      /\ Granted' = Granted /\ Planned' = Planned /\ LandlockPlan' = LandlockPlan
  BY PolicyStays DEF RootInv
<1>1. /\ Served' = Served /\ (Unmounted' => Unmounted) /\ (Concealing' => Concealing)
      /\ (Hiding' => Hiding) /\ \A v : Resolve(v)' = Resolve(v)
  BY DEF Served, Unmounted, Concealing, Hiding, Resolve, MountOf
<1>2. MountsInPlace'
  BY <1>0, <1>1 DEF MountsInPlace
<1>3. TopsServed'
  BY <1>0, <1>1 DEF TopsServed
<1>4. DeniedHidden'
  BY <1>0, <1>1 DEF DeniedHidden
<1>5. RemountsMade'
  BY <1>0, <1>1 DEF RemountsMade
<1>6. RulesPlanned'
  BY <1>0 DEF RulesPlanned
<1> QED BY <1>2, <1>3, <1>4, <1>5, <1>6 DEF RootInv

\* The plan establishes what the mounts rely on.
LEMMA RootPlan == TypeInv /\ Unmoved /\ RootInv /\ Plan => RootInv'
<1> SUFFICES ASSUME TypeInv, Unmoved, RootInv, Plan PROVE RootInv'
  OBVIOUS
<1>0. /\ HostStays /\ MountsInPlace /\ PolicyOK
      /\ Granted' = Granted /\ Planned' = Planned /\ LandlockPlan' = LandlockPlan
  BY TypeParts, PolicyStays DEF RootInv, Plan
<1>1. /\ binds' = Bound /\ covers' = Concealed /\ remounts' = ReadOnly /\ landlock' = LandlockPlan
      /\ seen' = {p \in HostPaths : OnHost(p)} /\ pc' = "root" /\ policy' = policy
      /\ mounts' = mounts /\ dirs' = dirs /\ files' = files /\ pc = "plan"
  BY DEF Plan, root
<1>2. DOMAIN mounts = {}
  BY <1>0, <1>1 DEF MountsInPlace, Unmounted
<1>3. Served' = Bound /\ \A p : OnHost(p)' = OnHost(p)
  BY <1>1, <1>2 DEF Served, OnHost
<1>4. HostStays'
  BY <1>0, <1>1, <1>3 DEF HostStays
<1>5. MountsInPlace'
  BY <1>1, <1>2 DEF MountsInPlace
<1>6. TopsServed'
  BY <1>0, <1>1, <1>3, BoundMeans DEF TopsServed
<1>7. DeniedHidden'
  BY <1>0, <1>1, <1>3, ConcealedMeans DEF DeniedHidden, Hiding
<1>8. RemountsMade'
  BY <1>0, <1>1, <1>2, ReadOnlyMeans DEF RemountsMade, Hiding
<1>9. RulesPlanned'
  BY <1>0, <1>1 DEF RulesPlanned
<1> QED BY <1>4, <1>5, <1>6, <1>7, <1>8, <1>9 DEF RootInv

\* The private areas are mounted first.
LEMMA RootPrivate == Unmoved /\ RootInv /\ MountPrivate => RootInv'
<1> SUFFICES ASSUME Unmoved, RootInv, MountPrivate PROVE RootInv'
  OBVIOUS
<1> DEFINE areas == (IF PrivateHome THEN {Home} ELSE {}) \cup (IF PrivateTmp THEN {Tmp} ELSE {})
<1>0. /\ HostStays /\ MountsInPlace /\ TopsServed /\ DeniedHidden /\ RemountsMade /\ RulesPlanned
      /\ Granted' = Granted /\ Planned' = Planned /\ LandlockPlan' = LandlockPlan
  BY PolicyStays DEF RootInv, MountPrivate
<1>1. /\ mounts' = [q \in {<<>>} \cup areas |-> Fresh(IF q = <<>> THEN "root" ELSE "private", q)]
      /\ dirs \subseteq dirs' /\ files' = files /\ pc = "root" /\ pc' = "bind"
      /\ policy' = policy /\ seen' = seen
      /\ binds' = binds /\ covers' = covers /\ remounts' = remounts /\ landlock' = landlock
  BY DEF MountPrivate, plan
<1> HIDE DEF areas
<1>2. \A m \in DOMAIN mounts' : mounts'[m].path = m /\ mounts'[m].fs # "host" /\ mounts'[m].ro = FALSE
  BY <1>1 DEF Fresh
<1>3. Served' = binds /\ Served' \subseteq Served
  BY <1>1, <1>2 DEF Served
<1>4. HostStays'
  BY <1>0, <1>1 DEF HostStays, OnHost
<1>5. MountsInPlace'
  BY <1>1, <1>2 DEF MountsInPlace, Unmounted
<1>6. TopsServed'
  BY <1>0, <1>1, <1>3 DEF TopsServed
<1>7. DeniedHidden'
  BY <1>0, <1>1, <1>3 DEF DeniedHidden, Concealing, Hiding
<1>8. RemountsMade'
  BY <1>0, <1>1, <1>2 DEF RemountsMade, Concealing, Hiding
<1>9. RulesPlanned'
  BY <1>0, <1>1 DEF RulesPlanned
<1> QED BY <1>4, <1>5, <1>6, <1>7, <1>8, <1>9 DEF RootInv

\* A grant is bound where the host has it.
LEMMA RootBind ==
  ASSUME TypeInv, Unmoved, RootInv, Bind, ~Refused
  PROVE  RootInv'
<1> DEFINE p == First(binds)
           new == [q \in {p} |-> Fresh("host", p)]
<1>0. /\ HostStays /\ MountsInPlace /\ TopsServed /\ DeniedHidden /\ RemountsMade /\ RulesPlanned
      /\ Granted' = Granted /\ Planned' = Planned /\ LandlockPlan' = LandlockPlan
      /\ PolicyOK /\ PlanType
  BY TypeParts, PolicyStays DEF RootInv, TypeInv, Bind
<1>1. p \in binds /\ p \in Granted /\ At(p) = p /\ p \in Path /\ Under(p, p)
  <2>1. binds # {} /\ binds \subseteq Granted
    BY <1>0 DEF Bind, PlanType
  <2>2. p \in binds
    BY <1>0, <2>1, PolicyFacts
  <2> QED BY <1>0, <2>1, <2>2, OneName, PolicyFacts, HostFacts, UnderOrder
<1>2. /\ OnHost(p) /\ mounts' = Mount(new) /\ binds' = binds \ {p}
      /\ dirs \subseteq dirs' /\ files \subseteq files' /\ pc = "bind" /\ pc' = "bind"
      /\ policy' = policy /\ seen' = seen
      /\ covers' = covers /\ remounts' = remounts /\ landlock' = landlock
  <2>1. pc = "bind" /\ policy' = policy /\ seen' = seen
    BY DEF Bind
  <2>2. /\ OnHost(p) /\ dirs' = dirs \cup Made(At(p), p \notin Files)
        /\ files' = IF p \notin Files THEN files ELSE files \cup {Resolve(At(p))}
        /\ mounts' = Mount([q \in {At(p)} |-> Fresh("host", p)])
        /\ binds' = binds \ {p}
        /\ UNCHANGED <<pc, covers, remounts, landlock>>
    BY DEF Bind
  <2> QED BY <1>1, <2>1, <2>2
<1>3. /\ MountsOK /\ DOMAIN new = {p} /\ new[p].fs = "host" /\ new[p].path = p /\ new[p].ro = FALSE
  BY <1>2, TypeParts DEF Fresh
<1> HIDE DEF new, p
<1>4. /\ DOMAIN mounts' \subseteq {p} \cup DOMAIN mounts
      /\ \A q \in DOMAIN mounts' : mounts'[q] = IF q = p THEN new[p] ELSE mounts[q]
  BY <1>1, <1>2, <1>3, MountType
<1>5. Served' \subseteq Served
  BY <1>1, <1>2, <1>4 DEF Served
<1>6. HostStays' /\ \A q : OnHost(q) => OnHost(q)'
  BY <1>0, <1>2 DEF HostStays, OnHost
<1>7. MountsInPlace'
  BY <1>0, <1>1, <1>2, <1>3, <1>4, <1>6 DEF MountsInPlace, Unmounted
<1>8. TopsServed'
  BY <1>0, <1>2, <1>5 DEF TopsServed
<1>9. DeniedHidden'
  BY <1>0, <1>2, <1>5 DEF DeniedHidden, Concealing, Hiding
<1>10. RemountsMade'
  BY <1>0, <1>2, <1>3, <1>4 DEF RemountsMade, Concealing, Hiding
<1>11. RulesPlanned'
  BY <1>0, <1>2 DEF RulesPlanned
<1> QED BY <1>6, <1>7, <1>8, <1>9, <1>10, <1>11 DEF RootInv

\* The devices' areas may hide what was bound, and show nothing of the host.
LEMMA RootDevices ==
  ASSUME TypeInv, Unmoved, RootInv, MountDevices, ~Refused
  PROVE  RootInv'
<1> DEFINE areas == (IF PrivateShm THEN {Shm} ELSE {}) \cup (IF Devpts THEN {Pts} ELSE {})
           new == [q \in areas |-> Fresh("private", q)]
<1>0. /\ HostStays /\ MountsInPlace /\ TopsServed /\ DeniedHidden /\ RemountsMade /\ RulesPlanned
      /\ Granted' = Granted /\ Planned' = Planned /\ LandlockPlan' = LandlockPlan
  BY PolicyStays DEF RootInv, MountDevices
<1>1. /\ mounts' = Mount(new) /\ dirs \subseteq dirs' /\ files' = files
      /\ pc = "bind" /\ pc' = "conceal" /\ policy' = policy /\ seen' = seen
      /\ binds' = binds /\ covers' = covers /\ remounts' = remounts /\ landlock' = landlock
  <2>1. pc = "bind" /\ policy' = policy /\ seen' = seen
    BY DEF MountDevices
  <2>2. /\ dirs' = dirs \cup (UNION {Made(a, TRUE) : a \in areas}) \cup {<<"private", a>> : a \in areas}
        /\ mounts' = Mount(new) /\ pc' = "conceal" /\ UNCHANGED <<files, plan>>
    BY DEF MountDevices
  <2> HIDE DEF new
  <2>3. dirs \subseteq dirs'
    BY <2>2
  <2> QED BY <2>1, <2>2, <2>3 DEF plan
<1>2. areas \subseteq Path /\ MountsOK
  BY <1>1, TypeParts, HostFacts, PathsAssumption
<1>3. DOMAIN new = areas /\ \A q \in areas : new[q].fs # "host" /\ new[q].path = q /\ new[q].ro = FALSE
  BY DEF Fresh
<1> HIDE DEF new, areas
<1>4. /\ DOMAIN mounts' \subseteq areas \cup DOMAIN mounts
      /\ \A q \in DOMAIN mounts' : mounts'[q] = IF q \in areas THEN new[q] ELSE mounts[q]
  BY <1>1, <1>2, <1>3, MountType
<1>5. Served' \subseteq Served
  BY <1>1, <1>3, <1>4 DEF Served
<1>6. HostStays' /\ \A q : OnHost(q) => OnHost(q)'
  BY <1>0, <1>1 DEF HostStays, OnHost
<1>7. MountsInPlace'
  BY <1>0, <1>1, <1>3, <1>4, <1>6 DEF MountsInPlace, Unmounted
<1>8. TopsServed'
  BY <1>0, <1>1, <1>5 DEF TopsServed
<1>9. DeniedHidden'
  BY <1>0, <1>1, <1>5 DEF DeniedHidden, Concealing, Hiding
<1>10. RemountsMade'
  BY <1>0, <1>1, <1>3, <1>4 DEF RemountsMade, Concealing, Hiding
<1>11. RulesPlanned'
  BY <1>0, <1>1 DEF RulesPlanned
<1> QED BY <1>6, <1>7, <1>8, <1>9, <1>10, <1>11 DEF RootInv

\* A path is made read-only, or is not on the host any more.
LEMMA RootRemount ==
  ASSUME TypeInv, Unmoved, RootInv, Remount, ~Refused
  PROVE  RootInv'
<1> DEFINE at == First(DOMAIN remounts)
<1>0. /\ HostStays /\ MountsInPlace /\ TopsServed /\ DeniedHidden /\ RemountsMade /\ RulesPlanned
      /\ Granted' = Granted /\ Planned' = Planned /\ LandlockPlan' = LandlockPlan
      /\ PolicyOK /\ PlanType
  BY TypeParts, PolicyStays DEF RootInv, TypeInv, Remount
<1>1. at \in DOMAIN remounts /\ at \in Planned /\ at \in Names /\ at \in Path /\ remounts[at] = at
  <2>1. /\ DOMAIN remounts # {} /\ IsFiniteSet(DOMAIN remounts)
        /\ DOMAIN remounts \subseteq Names /\ Names \subseteq Path
    BY <1>0, NamesFacts DEF Remount, PlanType
  <2>2. at \in DOMAIN remounts
    BY <2>1, FirstIsOne
  <2> QED BY <1>0, <2>1, <2>2 DEF RemountsMade
<1>2. /\ pc = "remount" /\ pc' = "remount" /\ policy' = policy /\ seen' = seen
      /\ InRoot(at) \/ ~OnHost(at)
      /\ mounts' = IF InRoot(at)
                   THEN [q \in {at} \cup DOMAIN mounts |->
                           IF q = at THEN [fs |-> Resolve(at)[1], path |-> Resolve(at)[2], ro |-> TRUE]
                           ELSE mounts[q]]
                   ELSE mounts
      /\ remounts' = [q \in DOMAIN remounts \ {at} |-> remounts[q]]
      /\ UNCHANGED <<binds, covers, landlock, dirs, files>>
  BY <1>1 DEF Remount
<1>3. MountsOK
  BY <1>2, TypeParts
<1> HIDE DEF at
<1>4. HostStays' /\ (\A q : OnHost(q)' = OnHost(q)) /\ (InRoot(at) => Resolve(at) \in dirs \cup files)
  BY <1>0, <1>2 DEF HostStays, OnHost, InRoot
<1>5. DOMAIN remounts' = DOMAIN remounts \ {at} /\ \A q \in DOMAIN remounts' : remounts'[q] = remounts[q]
  BY <1>2
<1>6. RulesPlanned'
  BY <1>0, <1>2 DEF RulesPlanned
<1>7. CASE ~InRoot(at)
  <2>1. ~OnHost(at) /\ mounts' = mounts
    BY <1>2, <1>7
  <2>2. at \notin seen /\ (at \in DOMAIN mounts => mounts[at].fs # "host")
    BY <1>0, <2>1 DEF HostStays, MountsInPlace
  <2>3. Served' = Served /\ \A v : Resolve(v)' = Resolve(v)
    BY <1>2, <2>1 DEF Served, Resolve, MountOf
  <2>4. MountsInPlace'
    BY <1>0, <1>2, <1>4, <2>1 DEF MountsInPlace, Unmounted
  <2>5. TopsServed'
    BY <1>0, <1>2, <2>3 DEF TopsServed
  <2>6. DeniedHidden'
    BY <1>0, <1>2, <2>3 DEF DeniedHidden, Concealing, Hiding
  <2>7. RemountsMade'
    BY <1>0, <1>2, <1>5, <2>1, <2>2 DEF RemountsMade, Concealing, Hiding
  <2> QED BY <1>4, <1>6, <2>4, <2>5, <2>6, <2>7 DEF RootInv
<1>8. CASE InRoot(at)
  <2> DEFINE again == [fs |-> Resolve(at)[1], path |-> Resolve(at)[2], ro |-> TRUE]
  <2>1. mounts' = [q \in {at} \cup DOMAIN mounts |-> IF q = at THEN again ELSE mounts[q]]
    BY <1>2, <1>8
  <2>2. Resolve(at) = <<mounts[MountOf(at)].fs, at>>
    BY <1>0, <1>1, <1>3, ResolveMeans DEF MountsInPlace
  <2>3. /\ MountOf(at) \in DOMAIN mounts /\ Under(at, MountOf(at)) /\ MountOf(at) \in Path
    BY <1>1, <1>3, MountFacts
  <2>4. again.fs = mounts[MountOf(at)].fs /\ again.path = at /\ again.ro = TRUE
    BY <2>2
  <2>5. \A v \in Path : Resolve(v)' = Resolve(v)
    BY <1>0, <1>1, <1>3, <2>1, RemountKeeps DEF MountsInPlace
  <2>6. again.fs = "host" => OnHost(at) /\ \E g \in Granted : Under(at, g)
    <3> SUFFICES ASSUME again.fs = "host" PROVE OnHost(at) /\ \E g \in Granted : Under(at, g)
      OBVIOUS
    <3>1. Resolve(at) = Host(at)
      BY <2>2, <2>4 DEF Host
    <3>2. OnHost(at)
      BY <1>4, <1>8, <3>1 DEF OnHost
    <3>3. PICK g \in Granted : Under(MountOf(at), g)
      BY <1>0, <2>3, <2>4 DEF MountsInPlace
    <3>4. Under(at, g)
      BY <1>0, <1>1, <2>3, <3>3, PolicyFacts, HostFacts, UnderOrder
    <3> QED BY <3>2, <3>4
  <2> HIDE DEF again
  <2>7. DOMAIN mounts' = {at} \cup DOMAIN mounts
        /\ \A q \in DOMAIN mounts' : mounts'[q] = IF q = at THEN again ELSE mounts[q]
    BY <2>1
  <2>8. Served' \subseteq Served
    BY <1>2, <2>4, <2>7 DEF Served
  <2>9. MountsInPlace'
    <3>1. \A m \in DOMAIN mounts' : mounts'[m].path = m
      BY <1>0, <2>4, <2>7 DEF MountsInPlace
    <3>2. ASSUME NEW m \in DOMAIN mounts', mounts'[m].fs = "host"
          PROVE  OnHost(m) /\ \E g \in Granted : Under(m, g)
      <4>1. CASE m = at
        BY <2>6, <2>7, <3>2, <4>1
      <4>2. CASE m # at
        BY <1>0, <2>7, <3>2, <4>2 DEF MountsInPlace
      <4> QED BY <4>1, <4>2
    <3> QED BY <1>0, <1>2, <1>4, <3>1, <3>2 DEF MountsInPlace, Unmounted
  <2>10. TopsServed'
    BY <1>0, <1>2, <2>8 DEF TopsServed
  <2>11. DeniedHidden'
    BY <1>0, <1>2, <2>5, NamesFacts DEF DeniedHidden, Concealing, Hiding
  <2>12. RemountsMade'
    BY <1>0, <1>1, <1>2, <1>5, <2>4, <2>7 DEF RemountsMade, Concealing, Hiding
  <2> QED BY <1>4, <1>6, <2>9, <2>10, <2>11, <2>12 DEF RootInv
<1> QED BY <1>7, <1>8

\* Covers go over what is denied, and hide all that is beneath it.
LEMMA RootConceal == TypeInv /\ Unmoved /\ RootInv /\ Conceal => RootInv'
<1> SUFFICES ASSUME TypeInv, Unmoved, RootInv, Conceal PROVE RootInv'
  OBVIOUS
<1> DEFINE there == {c \in covers : InRoot(c)}
           tops == {c \in there : \A d \in there : ~Beneath(c, d)}
           new == [q \in tops |-> [fs |-> "cover", path |-> q, ro |-> TRUE]]
<1>0. /\ HostStays /\ MountsInPlace /\ TopsServed /\ DeniedHidden /\ RemountsMade /\ RulesPlanned
      /\ Granted' = Granted /\ Planned' = Planned /\ LandlockPlan' = LandlockPlan
      /\ PolicyOK /\ PlanType
  BY TypeParts, PolicyStays DEF RootInv, TypeInv, Conceal
<1>1. /\ pc = "conceal" /\ mounts' = Mount(new) /\ dirs \subseteq dirs' /\ files' = files
      /\ covers' = {} /\ pc' = "remount" /\ policy' = policy /\ seen' = seen
      /\ binds' = binds /\ remounts' = remounts /\ landlock' = landlock
  BY DEF Conceal
<1>2. MountsOK /\ covers \subseteq Path /\ tops \subseteq covers /\ covers \subseteq policy.denied
  BY <1>0, <1>1, TypeParts, NamesFacts DEF PlanType, DeniedHidden
<1>3. DOMAIN new = tops /\ \A q \in tops : new[q].fs = "cover" /\ new[q].path = q /\ new[q].ro = TRUE
  OBVIOUS
<1>4. DOMAIN new \subseteq Path
  BY <1>2, <1>3
<1>5. /\ DOMAIN mounts' = tops \cup {r \in DOMAIN mounts : \A c \in tops : ~Beneath(r, c)}
      /\ \A q \in DOMAIN mounts' : mounts'[q] = IF q \in tops THEN new[q] ELSE mounts[q]
  BY <1>1, <1>3 DEF Mount
<1> HIDE DEF new
<1>6. MountsOK'
  <2>1. <<>> \in DOMAIN mounts'
    BY <1>1, <1>2, <1>4, MountType
  <2> QED BY <1>2, <1>5, <2>1 DEF MountsOK
\* What is there is under one of the covers made.
<1>7. ASSUME NEW d \in there PROVE \E c \in tops : Under(d, c)
  <2> DEFINE S == {Len(c) : c \in {c \in there : Under(d, c)}}
  <2>1. S \in SUBSET Nat /\ S # {}
    <3>1. \A c \in there : Len(c) \in Nat
      BY <1>2, UnderMeans
    <3>2. Under(d, d)
      BY <1>2, UnderOrder
    <3> QED BY <3>1, <3>2
  <2>2. \E k \in S : \A n \in S : k <= n
    BY <2>1, LeastNat
  <2>3. PICK c \in there : Under(d, c) /\ \A e \in there : Under(d, e) => Len(c) <= Len(e)
    BY <2>2
  <2>4. ASSUME NEW e \in there, Beneath(c, e) PROVE FALSE
    <3>1. c \in Path /\ e \in Path /\ d \in Path
      BY <1>2
    <3>2. Under(c, e) /\ c # e
      BY <2>4, <3>1, UnderMeans
    <3>3. Under(d, e)
      BY <2>3, <3>1, <3>2, UnderOrder
    <3> QED BY <2>3, <3>1, <3>2, <3>3, UnderOrder
  <2> QED BY <2>3, <2>4
<1> HIDE DEF tops
<1>8. Served' \subseteq Served /\ \A m \in DOMAIN mounts' : mounts'[m].fs = "host" => m \in Served
  BY <1>0, <1>1, <1>3, <1>5 DEF Served, RemountsMade, Concealing
<1>9. HostStays' /\ \A q : OnHost(q) => OnHost(q)'
  BY <1>0, <1>1 DEF HostStays, OnHost
<1>10. MountsInPlace'
  <2>1. \A m \in DOMAIN mounts' : mounts'[m].path = m
    BY <1>0, <1>3, <1>5 DEF MountsInPlace
  <2>2. \A m \in DOMAIN mounts' : mounts'[m].fs = "host" => m \in DOMAIN mounts /\ mounts[m].fs = "host"
    BY <1>3, <1>5
  <2> QED BY <1>0, <1>1, <1>9, <2>1, <2>2 DEF MountsInPlace, Unmounted
<1>11. TopsServed'
  BY <1>0, <1>1, <1>8 DEF TopsServed
<1>12. DeniedHidden'
  <2>1. ASSUME NEW v \in Names, NEW d \in policy.denied \cap seen, Under(v, d), Resolve(v)'[1] = "host"
        PROVE  FALSE
    <3> DEFINE m == MountOf(v)'
    <3>0. v \in Path /\ d \in Path
      BY <2>1, NamesFacts, HostFacts, TypeParts, PolicyFacts
    <3>1. /\ m \in DOMAIN mounts' /\ Under(v, m) /\ m \in Path
          /\ \A n \in DOMAIN mounts' : Under(v, n) => Under(m, n)
      BY <1>6, <3>0, MountFactsNext
    <3>2. mounts'[m].fs = "host"
      <4>1. Resolve(v)' = <<mounts'[m].fs, v>>
        BY <1>6, <1>10, <3>0, ResolveNext DEF MountsInPlace
      <4> QED BY <2>1, <4>1
    <3> HIDE DEF m
    <3>3. m \in Served /\ m \in DOMAIN mounts /\ mounts[m].fs = "host" /\ m \notin tops
          /\ \A c \in tops : ~Beneath(m, c)
      BY <1>3, <1>5, <1>8, <3>1, <3>2
    <3>4. ~Under(m, d)
      BY <1>0, <2>1, <3>3 DEF TopsServed
    <3>5. Under(d, m)
      BY <2>1, <3>0, <3>1, <3>4, UnderOrder
    <3>6. d \in covers
      BY <1>0, <1>1, <3>3, <3>5 DEF DeniedHidden, Concealing
    <3>7. InRoot(d)
      <4> DEFINE n == MountOf(d)
      <4>1. /\ n \in DOMAIN mounts /\ Under(d, n) /\ n \in Path
            /\ \A k \in DOMAIN mounts : Under(d, k) => Under(n, k)
        BY <1>2, <3>0, MountFacts
      <4>2. Resolve(d) = <<mounts[n].fs, d>>
        BY <1>0, <1>2, <3>0, ResolveMeans DEF MountsInPlace
      <4> HIDE DEF n
      <4>3. Under(n, m) /\ Under(v, n)
        BY <2>1, <3>0, <3>3, <3>5, <4>1, UnderOrder
      <4>4. CASE n \in DOMAIN mounts'
        <5>1. n = m
          BY <3>1, <4>1, <4>3, <4>4, UnderOrder
        <5>2. Resolve(d) = Host(d)
          BY <3>3, <4>2, <5>1 DEF Host
        <5> QED BY <1>0, <2>1, <5>2 DEF HostStays, OnHost, InRoot
      <4>5. CASE n \notin DOMAIN mounts'
        <5>1. PICK c \in tops : Beneath(n, c)
          BY <1>5, <4>1, <4>5
        <5>2. c \in Path /\ c \in DOMAIN mounts' /\ Under(n, c)
          BY <1>2, <1>5, <4>1, <5>1, UnderMeans
        <5>3. Under(v, c)
          BY <3>0, <4>1, <4>3, <5>2, UnderOrder
        <5>4. Under(m, c) /\ m # c
          BY <3>1, <3>3, <5>2, <5>3
        <5> QED BY <3>1, <3>3, <5>1, <5>2, <5>4, UnderMeans
      <4> QED BY <4>4, <4>5
    <3>8. PICK c \in tops : Under(d, c)
      BY <1>7, <3>6, <3>7
    <3>9. c \in Path /\ c \in DOMAIN mounts' /\ Under(v, c)
      BY <1>2, <1>5, <2>1, <3>0, <3>8, UnderOrder
    <3>10. Under(m, c) /\ m # c
      BY <3>1, <3>3, <3>9
    <3> QED BY <3>1, <3>3, <3>8, <3>9, <3>10, UnderMeans
  <2> QED BY <1>0, <1>1, <2>1 DEF DeniedHidden, Concealing, Hiding
<1>13. RemountsMade'
  <2>1. \A m \in DOMAIN mounts' : mounts'[m].ro => m \in policy.denied
    BY <1>0, <1>1, <1>2, <1>5 DEF RemountsMade, Concealing
  <2>2. Planned \subseteq DOMAIN remounts
    BY <1>0, <1>1 DEF RemountsMade, Concealing
  <2> QED BY <1>0, <1>1, <2>1, <2>2 DEF RemountsMade, Concealing, Hiding
<1>14. RulesPlanned'
  BY <1>0, <1>1 DEF RulesPlanned
<1> QED BY <1>9, <1>10, <1>11, <1>12, <1>13, <1>14 DEF RootInv

\* Every step keeps it.
LEMMA RootStep == TypeInv /\ (Unmoved => RootInv) /\ [Next]_vars => (Unmoved => RootInv)'
<1> SUFFICES ASSUME TypeInv, Unmoved => RootInv, [Next]_vars, Unmoved' PROVE RootInv'
  OBVIOUS
<1>0. policy' = policy
  BY DEF Next, Setup, Plan, MountPrivate, Bind, MountDevices, Conceal, Remount, ApplyLandlock,
         Fails, Appears, Vanishes, vars
<1>1. Unmoved /\ RootInv /\ HostStays /\ MountsInPlace
  BY <1>0, PolicyStays DEF RootInv
<1>R. ASSUME Refused, seen' = seen PROVE RootInv'
  <2>1. /\ mounts' = mounts /\ binds' = binds /\ covers' = covers /\ remounts' = remounts
        /\ landlock' = landlock /\ dirs' = dirs /\ files' = files /\ pc' = "refused"
    BY <1>R DEF Refused, plan, root
  <2>2. HostStays' /\ \A q : OnHost(q)' = OnHost(q)
    BY <1>1, <1>R, <2>1 DEF HostStays, OnHost
  <2>3. \A m \in DOMAIN mounts : mounts[m].fs = "host" => OnHost(m)'
    BY <1>1, <2>2 DEF MountsInPlace
  <2> QED BY <1>0, <1>1, <1>R, <2>1, <2>2, <2>3, RootCalm
<1>2. CASE Bind
  BY <1>1, <1>2, <1>R, RootBind DEF Bind
<1>3. CASE MountDevices
  BY <1>1, <1>3, <1>R, RootDevices DEF MountDevices
<1>4. CASE Remount
  BY <1>1, <1>4, <1>R, RootRemount DEF Remount
<1>5. CASE ApplyLandlock
  <2>1. /\ mounts' = mounts /\ binds' = binds /\ covers' = covers /\ remounts' = remounts
        /\ landlock' \subseteq landlock /\ dirs' = dirs /\ files' = files /\ seen' = seen
        /\ pc = "remount" /\ pc' = "running" /\ DOMAIN remounts = {}
    BY <1>5 DEF ApplyLandlock, root
  <2>2. HostStays' /\ \A q : OnHost(q)' = OnHost(q)
    BY <1>1, <2>1 DEF HostStays, OnHost
  <2>3. \A m \in DOMAIN mounts : mounts[m].fs = "host" => OnHost(m)'
    BY <1>1, <2>2 DEF MountsInPlace
  <2> QED BY <1>0, <1>1, <2>1, <2>2, <2>3, RootCalm
<1>6. ASSUME NEW p \in Volatile, Appears(p) PROVE RootInv'
  <2>1. /\ mounts' = mounts /\ binds' = binds /\ covers' = covers /\ remounts' = remounts
        /\ landlock' = landlock /\ dirs' = dirs /\ files \subseteq files' /\ seen' = seen /\ pc' = pc
    BY <1>6 DEF Appears, plan
  <2>2. HostStays' /\ \A q : OnHost(q) => OnHost(q)'
    BY <1>1, <2>1 DEF HostStays, OnHost
  <2>3. \A m \in DOMAIN mounts : mounts[m].fs = "host" => OnHost(m)'
    BY <1>1, <2>2 DEF MountsInPlace
  <2> QED BY <1>0, <1>1, <2>1, <2>2, <2>3, RootCalm
<1>7. ASSUME NEW p \in Volatile, Vanishes(p) PROVE RootInv'
  <2>1. /\ mounts' = mounts /\ binds' = binds /\ covers' = covers /\ remounts' = remounts
        /\ landlock' = landlock /\ dirs' = dirs /\ files' = files \ {Host(p)}
        /\ seen' = seen \ {p} /\ pc' = pc /\ pc = "root"
    BY <1>7 DEF Vanishes, plan
  <2>2. \A q : q # p /\ OnHost(q) => OnHost(q)'
    <3>1. \A q : q # p => Host(q) # Host(p)
      BY DEF Host
    <3> QED BY <2>1, <3>1 DEF OnHost
  <2>3. HostStays'
    <3>1. p \in Files
      BY PathsAssumption
    <3> QED BY <1>1, <2>1, <2>2, <3>1 DEF HostStays
  <2>4. \A m \in DOMAIN mounts : mounts[m].fs = "host" => OnHost(m)'
    BY <1>1, <2>1 DEF MountsInPlace, Unmounted
  <2> QED BY <1>0, <1>1, <2>1, <2>3, <2>4, RootCalm
<1>8. CASE UNCHANGED vars
  <2>1. /\ mounts' = mounts /\ binds' = binds /\ covers' = covers /\ remounts' = remounts
        /\ landlock' = landlock /\ dirs' = dirs /\ files' = files /\ seen' = seen /\ pc' = pc
    BY <1>8 DEF vars, plan, root
  <2>2. HostStays' /\ \A q : OnHost(q)' = OnHost(q)
    BY <1>1, <2>1 DEF HostStays, OnHost
  <2>3. \A m \in DOMAIN mounts : mounts[m].fs = "host" => OnHost(m)'
    BY <1>1, <2>2 DEF MountsInPlace
  <2> QED BY <1>0, <1>1, <2>1, <2>2, <2>3, RootCalm
<1>9. CASE Fails
  BY <1>9, <1>R DEF Fails
<1> QED BY <1>1, <1>2, <1>3, <1>4, <1>5, <1>6, <1>7, <1>8, <1>9, RootPlan, RootPrivate, RootConceal
        DEF Next, Setup

-----------------------------------------------------------------------------
(* What the target reaches.                                                *)

\* The host's part of the new root, and by which rules it is allowed.
LEMMA ReachMeans ==
  ASSUME TypeInv, Unmoved, RootInv, pc = "running", NEW v \in Names, Resolve(v)[1] = "host"
  PROVE  /\ v \in Path /\ MountOf(v) \in DOMAIN mounts /\ Under(v, MountOf(v)) /\ MountOf(v) \in Path
         /\ \A n \in DOMAIN mounts : Under(v, n) => Under(MountOf(v), n)
         /\ mounts[MountOf(v)].fs = "host" /\ Resolve(v)[2] = v
         /\ \E g \in Granted : Under(v, g)
         /\ \A l \in landlock : Under(v, l.at) =>
              \/ \E q \in Granted : l = Allows(q, policy.rules[q].rights)
              \/ PrivateHome /\ l = Allows(Home, {"read", "write"})
<1>0. PolicyOK /\ MountsOK /\ MountsInPlace /\ RulesPlanned /\ v \in Path
  BY TypeParts, NamesFacts DEF RootInv
<1>1. /\ MountOf(v) \in DOMAIN mounts /\ Under(v, MountOf(v)) /\ MountOf(v) \in Path
      /\ \A n \in DOMAIN mounts : Under(v, n) => Under(MountOf(v), n)
  BY <1>0, MountFacts
<1>2. Resolve(v) = <<mounts[MountOf(v)].fs, v>>
  BY <1>0, ResolveMeans DEF MountsInPlace
<1>3. mounts[MountOf(v)].fs = "host" /\ Resolve(v)[2] = v
  BY <1>2
<1>4. PICK g \in Granted : Under(MountOf(v), g)
  BY <1>0, <1>1, <1>3 DEF MountsInPlace
<1>5. Under(v, g) /\ g \in Path /\ At(g) = g
  BY <1>0, <1>1, <1>4, PolicyFacts, HostFacts, UnderOrder, OneName
<1>6. \A area \in {Tmp, Shm} : Under(v, area) => PolicyTouches(area)
  BY <1>0, <1>5, UnderOrder, HostFacts, PathsAssumption DEF PolicyTouches
<1>7. ASSUME NEW l \in landlock, Under(v, l.at)
      PROVE  \/ \E q \in Granted : l = Allows(q, policy.rules[q].rights)
             \/ PrivateHome /\ l = Allows(Home, {"read", "write"})
  <2>1. \/ \E q \in Granted : l = Allows(At(q), policy.rules[q].rights)
        \/ PrivateHome /\ l = Allows(Home, {"read", "write"})
        \/ PrivateTmp /\ l = Allows(Tmp, {"read", "write"})
        \/ PrivateShm /\ l = Allows(Shm, {"read", "write"})
    BY <1>0 DEF RulesPlanned, LandlockPlan
  <2>2. \A area : Allows(area, {"read", "write"}).at = area
    BY DEF Allows
  <2> QED BY <1>0, <1>6, <1>7, <2>1, <2>2, OneName DEF PrivateTmp, PrivateShm
<1> QED BY <1>0, <1>1, <1>3, <1>5, <1>7

\* Only a grant with write that is not remounted can be written.
LEMMA WriteMeans ==
  ASSUME TypeInv, Unmoved, RootInv, pc = "running", NEW v \in Names, Resolve(v)[1] = "host",
         "write" \in Effective(v)
  PROVE  /\ MountOf(v) \in Granted /\ ~mounts[MountOf(v)].ro
         /\ \A q \in Granted : ~Beneath(MountOf(v), q)
         /\ \E q \in Granted : Writes(q) /\ Under(v, q)
<1> DEFINE m == MountOf(v)
<1>0. /\ v \in Path /\ m \in DOMAIN mounts /\ Under(v, m) /\ m \in Path
      /\ mounts[m].fs = "host"
      /\ \A l \in landlock : Under(v, l.at) =>
           \/ \E q \in Granted : l = Allows(q, policy.rules[q].rights)
           \/ PrivateHome /\ l = Allows(Home, {"read", "write"})
      /\ PolicyOK /\ TopsServed /\ RemountsMade
  BY ReachMeans, TypeParts DEF RootInv
<1>1. ~mounts[m].ro /\ \E l \in landlock : Under(v, l.at) /\ "write" \in l.rights
  BY DEF Effective
<1> HIDE DEF m
<1>2. m \in Served
  BY <1>0, <1>1 DEF Served
<1>3. m \in Granted /\ \A q \in Granted : ~Beneath(m, q)
  BY <1>0, <1>2 DEF TopsServed
<1>4. m \notin Planned
  BY <1>0, <1>1 DEF RemountsMade, Hiding
<1>5. \E q \in Granted : Writes(q) /\ Under(v, q)
  <2>1. PICK l \in landlock : Under(v, l.at) /\ "write" \in l.rights
    BY <1>1
  <2>2. CASE \E q \in Granted : l = Allows(q, policy.rules[q].rights)
    BY <2>1, <2>2 DEF Allows, Writes
  <2>3. CASE PrivateHome /\ l = Allows(Home, {"read", "write"})
    <3>1. Under(v, Home) /\ Home \in Path
      BY <2>1, <2>3, HostFacts, PathsAssumption DEF Allows
    <3>2. ~Under(Home, m)
      BY <1>3, <2>3 DEF PrivateHome, CoveredByGrant
    <3>3. Beneath(m, Home)
      BY <1>0, <3>1, <3>2, UnderOrder, UnderMeans
    <3>4. Writes(m)
      BY <1>0, <1>3, <1>4, <2>3, <3>3, OneName DEF Planned
    <3> QED BY <1>0, <1>3, <3>4
  <2> QED BY <1>0, <2>1, <2>2, <2>3
<1> QED BY <1>1, <1>3, <1>5 DEF m

-----------------------------------------------------------------------------
(* What a grant is worth.                                                  *)

\* What was there when the plan was made, beneath a grant, and is neither
\* denied nor beneath /dev/pts, where the run has terminals of its own.
Safe(v) ==
  /\ v \in seen /\ ~Beneath(v, Pts)
  /\ \E g \in Granted : Under(v, g)
  /\ \A d \in policy.denied : ~Under(v, d)

\* That is served, and the host's own once all binds are made.
HostServed ==
  \A v \in HostPaths : Safe(v) =>
    /\ pc \in {"root", "bind"} => \E b \in Served : Under(v, b) /\ (b \in binds \/ MountOf(v) = b)
    /\ pc \in {"conceal", "remount", "running"} => InRoot(v) /\ (v # Pts => Resolve(v) = Host(v))

\* And a grant that is keeps its Landlock rule.
RulesServed ==
  pc \notin {"plan", "refused"} =>
    \A p \in Granted : Safe(p) => Allows(p, policy.rules[p].rights) \in landlock

\* Every directory is seen.
DirsSeen == pc \notin {"plan", "refused"} => HostPaths \ Files \subseteq seen

ServedInv == HostServed /\ RulesServed /\ DirsSeen

\* What is there and not denied is under something that is bound.
LEMMA BoundAbove ==
  ASSUME PolicyOK, Unmoved, NEW p \in Granted, OnHost(p), \A d \in policy.denied : ~Under(p, d)
  PROVE  \E b \in Bound : Under(p, b)
<1> DEFINE live == {q \in Granted : OnHost(q) /\ \A d \in DeniedPaths : ~Under(q, d)}
           S == {Len(q) : q \in {q \in live : Under(p, q)}}
<1>1. Granted \subseteq Path /\ p \in live
  BY PolicyFacts, HostFacts, OneName
<1>2. S \in SUBSET Nat /\ S # {}
  <2>1. \A q \in live : Len(q) \in Nat
    BY <1>1, UnderMeans
  <2>2. Under(p, p)
    BY <1>1, UnderOrder
  <2> QED BY <1>1, <2>1, <2>2
<1>3. \E k \in S : \A n \in S : k <= n
  BY <1>2, LeastNat
<1>4. PICK b \in live : Under(p, b) /\ \A q \in live : Under(p, q) => Len(b) <= Len(q)
  BY <1>3
<1>5. ASSUME NEW q \in live, Beneath(b, q) PROVE FALSE
  <2>1. b \in Path /\ q \in Path /\ p \in Path
    BY <1>1
  <2>2. Under(b, q) /\ b # q
    BY <1>5, <2>1, UnderMeans
  <2>3. Under(p, q)
    BY <1>4, <2>1, <2>2, UnderOrder
  <2> QED BY <1>4, <2>1, <2>2, <2>3, UnderOrder
<1>6. b \in Bound
  BY <1>4, <1>5 DEF Bound
<1> QED BY <1>4, <1>6

\* What a step leaves safe was safe.
LEMMA SafeStays ==
  ASSUME policy' = policy, seen' \subseteq seen
  PROVE  /\ Granted' = Granted /\ \A v : Safe(v)' => Safe(v)
  BY DEF Safe, Granted

\* The plan serves what is safe.
LEMMA ServedPlan ==
  ASSUME PolicyOK, Unmoved, HostStays, Plan
  PROVE  ServedInv'
<1>1. /\ binds' = Bound /\ landlock' = LandlockPlan /\ seen' = {p \in HostPaths : OnHost(p)}
      /\ pc' = "root" /\ policy' = policy /\ Granted' = Granted
  BY PolicyStays DEF Plan
<1>2. ASSUME NEW v \in HostPaths, Safe(v)' PROVE \E b \in Served' : Under(v, b) /\ b \in binds'
  <2>1. PICK g \in Granted : Under(v, g)
    BY <1>1, <1>2 DEF Safe
  <2>2. /\ v \in Path /\ g \in Path /\ OnHost(v) /\ policy.denied \subseteq Path /\ Bound \subseteq Path
        /\ \A d \in policy.denied : ~Under(v, d)
    BY <1>1, <1>2, PolicyFacts, HostFacts, NamesFacts DEF Safe, Bound
  <2>3. OnHost(g)
    BY <2>1, <2>2, HostFacts, UnderMeans DEF HostStays
  <2>4. \A d \in policy.denied : ~Under(g, d)
    BY <2>1, <2>2, UnderOrder
  <2>5. PICK b \in Bound : Under(g, b)
    BY <2>3, <2>4, BoundAbove
  <2>6. Under(v, b)
    BY <2>1, <2>2, <2>5, UnderOrder
  <2> QED BY <1>1, <2>5, <2>6 DEF Served
<1>3. HostServed'
  BY <1>1, <1>2 DEF HostServed
<1>4. RulesServed'
  <2>1. \A p \in Granted : Allows(p, policy.rules[p].rights) \in LandlockPlan
    BY OneName DEF LandlockPlan
  <2> QED BY <1>1, <2>1 DEF RulesServed
<1>5. DirsSeen'
  BY <1>1 DEF DirsSeen, HostStays
<1> QED BY <1>3, <1>4, <1>5 DEF ServedInv

\* Before the binds nothing of the host is mounted.
LEMMA ServedPrivate ==
  ASSUME ServedInv, MountsInPlace, MountPrivate
  PROVE  ServedInv'
<1>1. /\ binds' = binds /\ landlock' = landlock /\ seen' = seen /\ DOMAIN mounts = {}
      /\ pc = "root" /\ pc' = "bind" /\ policy' = policy
  BY DEF MountPrivate, plan, MountsInPlace, Unmounted
<1>2. Served = binds /\ binds' \subseteq Served' /\ Granted' = Granted /\ \A v : Safe(v)' => Safe(v)
  BY <1>1, SafeStays DEF Served
<1> QED BY <1>1, <1>2 DEF ServedInv, HostServed, RulesServed, DirsSeen

\* A bind serves what is under it, and takes no other bind's place.
LEMMA ServedBind ==
  ASSUME TypeInv, Unmoved, RootInv, ServedInv, Bind, ~Refused
  PROVE  ServedInv'
<1> DEFINE a == First(binds)
           new == [q \in {a} |-> Fresh("host", a)]
<1>0. PolicyOK /\ PlanType /\ TopsServed
  BY TypeParts DEF RootInv, TypeInv
<1>1. a \in binds /\ a \in Granted /\ At(a) = a /\ a \in Path
  <2>1. binds # {} /\ binds \subseteq Granted
    BY <1>0 DEF Bind, PlanType
  <2>2. a \in binds
    BY <1>0, <2>1, PolicyFacts
  <2> QED BY <1>0, <2>1, <2>2, OneName, PolicyFacts, HostFacts
<1>2. /\ mounts' = Mount(new) /\ binds' = binds \ {a} /\ landlock' = landlock
      /\ pc = "bind" /\ pc' = "bind" /\ policy' = policy /\ seen' = seen
  BY <1>1 DEF Bind
<1>3. /\ DOMAIN new = {a} /\ new[a].fs = "host" /\ new[a].ro = FALSE
  BY DEF Fresh
<1> HIDE DEF new, a
<1>4. /\ DOMAIN mounts' = {a} \cup {r \in DOMAIN mounts : ~Beneath(r, a)}
      /\ \A q \in DOMAIN mounts' : mounts'[q] = IF q = a THEN new[a] ELSE mounts[q]
  BY <1>2, <1>3 DEF Mount
<1>5. MountsOK /\ MountsOK' /\ a \in Served' /\ Granted' = Granted /\ \A v : Safe(v)' => Safe(v)
  <2>1. MountsOK
    BY <1>2, TypeParts
  <2>2. <<>> \in DOMAIN Mount(new)
    BY <1>1, <1>3, <2>1, MountType
  <2>3. MountsOK'
    BY <1>1, <1>2, <1>4, <2>1, <2>2 DEF MountsOK
  <2>4. a \in Served'
    BY <1>3, <1>4 DEF Served
  <2> QED BY <1>2, <2>1, <2>3, <2>4, SafeStays
<1>6. ASSUME NEW v \in HostPaths, Safe(v)'
      PROVE  \E b \in Served' : Under(v, b) /\ (b \in binds' \/ MountOf(v)' = b)
  <2>0. v \in Path
    BY HostFacts
  <2>1. PICK b \in Served : Under(v, b) /\ (b \in binds \/ MountOf(v) = b)
    BY <1>2, <1>5, <1>6 DEF ServedInv, HostServed
  <2>2. b \in Granted /\ b \in Path /\ (\A q \in Granted : ~Beneath(b, q) /\ ~Beneath(a, q))
    BY <1>0, <1>1, <2>1, PolicyFacts, HostFacts DEF TopsServed, Served
  <2>3. /\ MountOf(v)' \in DOMAIN mounts' /\ Under(v, MountOf(v)') /\ MountOf(v)' \in Path
        /\ \A n \in DOMAIN mounts' : Under(v, n) => Under(MountOf(v)', n)
    BY <1>5, <2>0, MountFactsNext
  <2>4. CASE b = a
    <3>1. Under(MountOf(v)', a)
      BY <1>4, <2>1, <2>3, <2>4
    <3>2. MountOf(v)' = a
      BY <1>1, <1>4, <2>3, <3>1, UnderMeans
    <3> QED BY <1>5, <2>1, <2>4, <3>2
  <2>5. CASE b # a /\ b \in binds
    BY <1>2, <2>1, <2>5 DEF Served
  <2>6. CASE b \notin binds
    <3>1. b \in DOMAIN mounts /\ mounts[b].fs = "host" /\ ~mounts[b].ro /\ MountOf(v) = b /\ b # a
      BY <1>1, <2>1, <2>6 DEF Served
    <3>2. b \in DOMAIN mounts' /\ mounts'[b] = mounts[b]
      BY <1>1, <1>4, <2>2, <3>1
    <3>3. Under(MountOf(v)', b)
      BY <2>1, <2>3, <3>2
    <3>4. MountOf(v)' # a
      BY <1>1, <2>2, <3>1, <3>3, UnderMeans
    <3>5. Under(b, MountOf(v)')
      <4>1. MountOf(v)' \in DOMAIN mounts
        BY <1>4, <2>3, <3>4
      <4> QED BY <1>5, <2>0, <2>3, <3>1, <4>1, MountFacts
    <3>6. MountOf(v)' = b
      BY <2>2, <2>3, <3>3, <3>5, UnderOrder
    <3> QED BY <2>1, <3>1, <3>2, <3>6 DEF Served
  <2> QED BY <2>4, <2>5, <2>6
<1>7. HostServed'
  BY <1>2, <1>6 DEF HostServed
<1> QED BY <1>2, <1>5, <1>7 DEF ServedInv, RulesServed, DirsSeen

\* The devices' areas are beside everything that is safe.
LEMMA ServedDevices ==
  ASSUME TypeInv, Unmoved, RootInv, RootInv', ServedInv, MountDevices, ~Refused
  PROVE  ServedInv'
<1> DEFINE areas == (IF PrivateShm THEN {Shm} ELSE {}) \cup (IF Devpts THEN {Pts} ELSE {})
           new == [q \in areas |-> Fresh("private", q)]
<1>0. /\ PolicyOK /\ HostStays /\ MountsInPlace /\ MountsInPlace'
      /\ Shm \in Path /\ Pts \in Path
  BY TypeParts, HostFacts, PathsAssumption DEF RootInv
<1>1. /\ mounts' = Mount(new) /\ files' = files /\ binds = {} /\ landlock' = landlock
      /\ dirs \subseteq dirs' /\ (\A q \in areas : <<"private", q>> \in dirs')
      /\ pc = "bind" /\ pc' = "conceal" /\ policy' = policy /\ seen' = seen
  <2>1. pc = "bind" /\ binds = {} /\ policy' = policy /\ seen' = seen
    BY DEF MountDevices
  <2>2. /\ dirs' = dirs \cup (UNION {Made(q, TRUE) : q \in areas}) \cup {<<"private", q>> : q \in areas}
        /\ mounts' = Mount(new) /\ pc' = "conceal" /\ UNCHANGED <<files, plan>>
    BY DEF MountDevices
  <2> HIDE DEF new, areas
  <2>3. dirs \subseteq dirs' /\ \A q \in areas : <<"private", q>> \in dirs'
    BY <2>2
  <2> QED BY <2>1, <2>2, <2>3 DEF plan
<1>2. areas \subseteq Path /\ DOMAIN new = areas /\ \A q \in areas : new[q].fs = "private"
  BY <1>0 DEF Fresh
<1>3. ASSUME NEW v \in HostPaths, Safe(v), NEW q \in areas PROVE Under(v, q) => v = q /\ v = Pts
  <2>1. v \in Path /\ \A g \in Granted : g \in Path /\ At(g) = g
    BY <1>0, OneName, PolicyFacts, HostFacts
  <2>2. ASSUME q = Shm, PrivateShm, Under(v, q) PROVE FALSE
    <3>1. PICK g \in Granted : Under(v, g)
      BY <1>3 DEF Safe
    <3>2. Under(Shm, g) \/ Under(g, Shm)
      BY <1>0, <2>1, <2>2, <3>1, UnderOrder
    <3> QED BY <2>1, <2>2, <3>2 DEF PrivateShm, PolicyTouches
  <2>3. ASSUME q = Pts, Under(v, q) PROVE v = q
    BY <1>0, <1>3, <2>1, <2>3, UnderMeans DEF Safe
  <2> QED BY <2>2, <2>3
<1> HIDE DEF new, areas
<1>5. /\ DOMAIN mounts' = areas \cup {r \in DOMAIN mounts : \A q \in areas : ~Beneath(r, q)}
      /\ \A q \in DOMAIN mounts' : mounts'[q] = IF q \in areas THEN new[q] ELSE mounts[q]
  BY <1>1, <1>2 DEF Mount
<1>6. MountsOK /\ MountsOK' /\ Granted' = Granted /\ \A v : Safe(v)' => Safe(v)
  <2>1. MountsOK
    BY <1>1, TypeParts
  <2>2. <<>> \in DOMAIN Mount(new)
    BY <1>2, <2>1, MountType
  <2> QED BY <1>1, <1>2, <1>5, <2>1, <2>2, SafeStays DEF MountsOK
<1>7. ASSUME NEW v \in HostPaths, Safe(v)'
      PROVE  InRoot(v)' /\ (v # Pts => Resolve(v)' = Host(v))
  <2>0. Safe(v) /\ v \in Path /\ OnHost(v)
    BY <1>0, <1>6, <1>7, HostFacts DEF Safe, HostStays
  <2>1. PICK b \in Served : Under(v, b) /\ MountOf(v) = b
    BY <1>1, <2>0 DEF ServedInv, HostServed
  <2>2. b \in DOMAIN mounts /\ mounts[b].fs = "host" /\ b \in Path
    BY <1>0, <1>1, <1>6, <2>1 DEF Served, MountsOK
  <2>3. /\ MountOf(v)' \in DOMAIN mounts' /\ Under(v, MountOf(v)') /\ MountOf(v)' \in Path
        /\ \A n \in DOMAIN mounts' : Under(v, n) => Under(MountOf(v)', n)
    BY <1>6, <2>0, MountFactsNext
  <2>4. Resolve(v)' = <<mounts'[MountOf(v)'].fs, v>>
    BY <1>0, <1>6, <2>0, ResolveNext DEF MountsInPlace
  <2>5. CASE MountOf(v)' \in areas
    <3>1. MountOf(v)' = v /\ v = Pts
      BY <1>3, <2>0, <2>3, <2>5
    <3>2. Resolve(v)' = <<"private", v>>
      BY <1>2, <1>5, <2>3, <2>4, <2>5, <3>1
    <3> QED BY <1>1, <2>5, <3>1, <3>2 DEF InRoot
  <2>6. CASE MountOf(v)' \notin areas
    <3>1. b \in DOMAIN mounts'
      <4>1. ASSUME NEW q \in areas, Beneath(b, q) PROVE FALSE
        <5>1. q \in Path /\ Under(b, q) /\ b # q
          BY <1>2, <2>2, <4>1, UnderMeans
        <5>2. Under(v, q)
          BY <2>0, <2>1, <2>2, <5>1, UnderOrder
        <5>3. v = q
          BY <1>3, <2>0, <5>2
        <5> QED BY <2>1, <2>2, <5>1, <5>3, UnderOrder
      <4> QED BY <1>5, <2>2, <4>1
    <3>2. Under(MountOf(v)', b)
      BY <2>1, <2>3, <3>1
    <3>3. MountOf(v)' \in DOMAIN mounts /\ mounts'[MountOf(v)'] = mounts[MountOf(v)']
      BY <1>5, <2>3, <2>6
    <3>4. Under(b, MountOf(v)')
      BY <1>6, <2>0, <2>1, <2>3, <3>3, MountFacts
    <3>5. MountOf(v)' = b
      BY <2>2, <2>3, <3>2, <3>4, UnderOrder
    <3>6. Resolve(v)' = Host(v)
      BY <2>2, <2>4, <3>3, <3>5 DEF Host
    <3>7. InRoot(v)'
      BY <1>1, <2>0, <3>6 DEF InRoot, OnHost
    <3> QED BY <3>6, <3>7
  <2> QED BY <2>5, <2>6
<1>8. HostServed'
  <2>1. \A v : Host(v)' = Host(v)
    BY DEF Host
  <2> QED BY <1>1, <1>7, <2>1 DEF HostServed
<1> QED BY <1>1, <1>6, <1>8 DEF ServedInv, RulesServed, DirsSeen

\* No cover is above what is safe.
LEMMA ServedConceal ==
  ASSUME TypeInv, Unmoved, RootInv, RootInv', ServedInv, Conceal
  PROVE  ServedInv'
<1> DEFINE there == {c \in covers : InRoot(c)}
           tops == {c \in there : \A d \in there : ~Beneath(c, d)}
           new == [q \in tops |-> [fs |-> "cover", path |-> q, ro |-> TRUE]]
<1>0. PolicyOK /\ PlanType /\ MountsInPlace /\ MountsInPlace' /\ DeniedHidden
  BY TypeParts DEF RootInv, TypeInv
<1>1. /\ pc = "conceal" /\ mounts' = Mount(new) /\ dirs \subseteq dirs' /\ files' = files
      /\ pc' = "remount" /\ policy' = policy /\ seen' = seen /\ landlock' = landlock
  BY DEF Conceal
<1>2. MountsOK /\ tops \subseteq Path /\ tops \subseteq policy.denied
  BY <1>0, <1>1, TypeParts, NamesFacts DEF PlanType, DeniedHidden
<1>3. DOMAIN new = tops
  OBVIOUS
<1> HIDE DEF new, tops
<1>5. /\ DOMAIN mounts' = tops \cup {r \in DOMAIN mounts : \A c \in tops : ~Beneath(r, c)}
      /\ \A q \in DOMAIN mounts' : mounts'[q] = IF q \in tops THEN new[q] ELSE mounts[q]
  BY <1>1, <1>3 DEF Mount
<1>6. MountsOK' /\ Granted' = Granted /\ \A v : Safe(v)' => Safe(v)
  <2>1. <<>> \in DOMAIN mounts'
    BY <1>1, <1>2, <1>3, MountType
  <2> QED BY <1>1, <1>2, <1>5, <2>1, SafeStays DEF MountsOK
<1>7. ASSUME NEW v \in HostPaths, Safe(v)'
      PROVE  InRoot(v)' /\ Resolve(v)' = Resolve(v) /\ (v # Pts => Resolve(v)' = Host(v))
  <2>0. /\ v \in Path /\ InRoot(v) /\ (v # Pts => Resolve(v) = Host(v))
        /\ \A c \in tops : ~Under(v, c)
    BY <1>1, <1>2, <1>6, <1>7, HostFacts DEF Safe, ServedInv, HostServed
  <2>1. /\ MountOf(v) \in DOMAIN mounts /\ Under(v, MountOf(v)) /\ MountOf(v) \in Path
        /\ \A n \in DOMAIN mounts : Under(v, n) => Under(MountOf(v), n)
    BY <1>2, <2>0, MountFacts
  <2>2. /\ MountOf(v)' \in DOMAIN mounts' /\ Under(v, MountOf(v)') /\ MountOf(v)' \in Path
        /\ \A n \in DOMAIN mounts' : Under(v, n) => Under(MountOf(v)', n)
    BY <1>6, <2>0, MountFactsNext
  <2>3. MountOf(v) \in DOMAIN mounts'
    <3>1. ASSUME NEW c \in tops, Beneath(MountOf(v), c) PROVE FALSE
      <4>1. c \in Path /\ Under(MountOf(v), c)
        BY <1>2, <2>1, <3>1, UnderMeans
      <4> QED BY <2>0, <2>1, <4>1, UnderOrder
    <3> QED BY <1>5, <2>1, <3>1
  <2>4. MountOf(v)' \in DOMAIN mounts /\ mounts'[MountOf(v)'] = mounts[MountOf(v)']
    BY <1>5, <2>0, <2>2
  <2>5. MountOf(v)' = MountOf(v)
    <3>1. Under(MountOf(v)', MountOf(v)) /\ Under(MountOf(v), MountOf(v)')
      BY <2>1, <2>2, <2>3, <2>4
    <3> QED BY <2>1, <2>2, <3>1, UnderOrder
  <2>6. Resolve(v)' = Resolve(v)
    <3>1. Resolve(v)' = <<mounts'[MountOf(v)'].fs, v>>
      BY <1>0, <1>6, <2>0, ResolveNext DEF MountsInPlace
    <3>2. Resolve(v) = <<mounts[MountOf(v)].fs, v>>
      BY <1>0, <1>2, <2>0, ResolveMeans DEF MountsInPlace
    <3> QED BY <2>4, <2>5, <3>1, <3>2
  <2> QED BY <1>1, <2>0, <2>6 DEF InRoot
<1>8. HostServed'
  <2>1. \A v : Host(v)' = Host(v)
    BY DEF Host
  <2> QED BY <1>1, <1>7, <2>1 DEF HostServed
<1> QED BY <1>1, <1>6, <1>8 DEF ServedInv, RulesServed, DirsSeen

\* A path that is made read-only is where it was.
LEMMA ServedRemount ==
  ASSUME TypeInv, RootInv, ServedInv, Remount, ~Refused
  PROVE  ServedInv'
<1> DEFINE at == First(DOMAIN remounts)
<1>0. MountsOK /\ MountsInPlace /\ at \in Path
  <2>1. /\ DOMAIN remounts # {} /\ IsFiniteSet(DOMAIN remounts)
        /\ DOMAIN remounts \subseteq Path
    BY NamesFacts DEF Remount, TypeInv, PlanType
  <2>2. at \in DOMAIN remounts
    BY <2>1, FirstIsOne
  <2> QED BY <2>1, <2>2, TypeParts DEF Remount, RootInv
<1>1. /\ pc = "remount" /\ pc' = "remount" /\ policy' = policy /\ seen' = seen
      /\ mounts' = IF InRoot(at)
                   THEN [q \in {at} \cup DOMAIN mounts |->
                           IF q = at THEN [fs |-> Resolve(at)[1], path |-> Resolve(at)[2], ro |-> TRUE]
                           ELSE mounts[q]]
                   ELSE mounts
      /\ UNCHANGED <<binds, covers, landlock, dirs, files>>
  BY DEF Remount
<1> HIDE DEF at
<1>2. \A v \in Path : Resolve(v)' = Resolve(v)
  <2>1. CASE InRoot(at)
    BY <1>0, <1>1, <2>1, RemountKeeps DEF MountsInPlace
  <2>2. CASE ~InRoot(at)
    BY <1>1, <2>2 DEF Resolve, MountOf
  <2> QED BY <2>1, <2>2
<1>3. Granted' = Granted /\ \A v : Safe(v)' => Safe(v)
  BY <1>1, SafeStays
<1>4. \A v \in HostPaths : (InRoot(v)' <=> InRoot(v)) /\ Resolve(v)' = Resolve(v)
  BY <1>1, <1>2, HostFacts DEF InRoot
<1>5. HostServed'
  <2>1. \A v : Host(v)' = Host(v)
    BY DEF Host
  <2> QED BY <1>1, <1>3, <1>4, <2>1 DEF ServedInv, HostServed
<1> QED BY <1>1, <1>3, <1>5 DEF ServedInv, RulesServed, DirsSeen

\* Only the rules of what is not there are skipped.
LEMMA ServedLandlock ==
  ASSUME TypeInv, Unmoved, ServedInv, ApplyLandlock
  PROVE  ServedInv'
<1>1. /\ pc = "remount" /\ pc' = "running" /\ landlock' = {l \in landlock : InRoot(l.at)}
      /\ policy' = policy /\ seen' = seen /\ mounts' = mounts /\ dirs' = dirs /\ files' = files
  BY DEF ApplyLandlock, root
<1>2. /\ Granted' = Granted /\ (\A v : Safe(v)' => Safe(v))
      /\ \A v : (InRoot(v)' <=> InRoot(v)) /\ Resolve(v)' = Resolve(v) /\ Host(v)' = Host(v)
  BY <1>1, SafeStays DEF InRoot, Resolve, MountOf, Host
<1>3. Granted \subseteq HostPaths /\ \A p \in Granted : Allows(p, policy.rules[p].rights).at = p
  BY TypeParts, PolicyFacts DEF Allows
<1>4. HostServed'
  BY <1>1, <1>2 DEF ServedInv, HostServed
<1>5. RulesServed'
  BY <1>1, <1>2, <1>3 DEF ServedInv, HostServed, RulesServed
<1> QED BY <1>1, <1>4, <1>5 DEF ServedInv, DirsSeen

\* What the host gains, or loses before the first mount, changes nothing.
LEMMA ServedHost ==
  ASSUME ServedInv, policy' = policy, mounts' = mounts, binds' = binds, landlock' = landlock,
         dirs' = dirs, pc' = pc, seen' \subseteq seen,
         HostPaths \ Files \subseteq seen => HostPaths \ Files \subseteq seen',
         pc # "root" => files \subseteq files'
  PROVE  ServedInv'
<1>1. /\ Granted' = Granted /\ (\A v : Safe(v)' => Safe(v)) /\ Served' = Served
      /\ (\A v : MountOf(v)' = MountOf(v) /\ Resolve(v)' = Resolve(v) /\ Host(v)' = Host(v))
      /\ (pc # "root" => \A v : InRoot(v) => InRoot(v)')
  BY SafeStays DEF Served, MountOf, Resolve, InRoot, Host
<1>2. HostServed'
  BY <1>1 DEF ServedInv, HostServed
<1> QED BY <1>1, <1>2 DEF ServedInv, RulesServed, DirsSeen

\* Every step serves what is safe.
LEMMA ServedStep ==
  ASSUME TypeInv, Unmoved, RootInv, RootInv', ServedInv, [Next]_vars
  PROVE  ServedInv'
<1>0. PolicyOK /\ MountsInPlace /\ HostStays
  BY TypeParts DEF RootInv
<1>R. ASSUME Refused PROVE ServedInv'
  BY <1>R DEF Refused, ServedInv, HostServed, RulesServed, DirsSeen
<1>1. CASE Plan
  BY <1>0, <1>1, ServedPlan
<1>2. CASE MountPrivate
  BY <1>0, <1>2, ServedPrivate
<1>3. CASE Bind
  BY <1>3, <1>R, ServedBind DEF Bind
<1>4. CASE MountDevices
  BY <1>4, <1>R, ServedDevices DEF MountDevices
<1>5. CASE Conceal
  BY <1>5, ServedConceal
<1>6. CASE Remount
  BY <1>6, <1>R, ServedRemount DEF Remount
<1>7. CASE ApplyLandlock
  BY <1>7, ServedLandlock
<1>8. CASE (\E p \in Volatile : Appears(p) \/ Vanishes(p)) \/ UNCHANGED vars
  <2>1. /\ policy' = policy /\ mounts' = mounts /\ binds' = binds /\ landlock' = landlock
        /\ dirs' = dirs /\ seen' \subseteq seen /\ pc' = pc /\ (pc # "root" => files \subseteq files')
    BY <1>8 DEF Appears, Vanishes, vars, plan, root
  <2>2. HostPaths \ Files \subseteq seen => HostPaths \ Files \subseteq seen'
    BY <1>8, PathsAssumption DEF Appears, Vanishes, vars
  <2> QED BY <2>1, <2>2, ServedHost
<1>9. CASE Fails
  BY <1>9, <1>R DEF Fails
<1> QED BY <1>1, <1>2, <1>3, <1>4, <1>5, <1>6, <1>7, <1>8, <1>9 DEF Next, Setup

\* What is mounted read-only above a path that a grant makes writable.
LEMMA WriteKept ==
  ASSUME TypeInv, Unmoved, RootInv, pc = "running", NEW v \in Path,
         NEW g \in Granted, Under(v, g), Writes(g),
         \A d \in policy.denied \cup policy.read_only : ~Under(v, d)
  PROVE  mounts[MountOf(v)].ro => MountOf(v) \in UnwritableBeneathImplicit
<1> DEFINE m == MountOf(v)
<1>1. m \in DOMAIN mounts /\ Under(v, m) /\ m \in Path /\ RemountsMade /\ PolicyOK
  BY TypeParts, MountFacts DEF RootInv
<1> HIDE DEF m
<1>2. Under(m, g) \/ Under(g, m)
  BY <1>1, PolicyFacts, HostFacts, UnderOrder
<1>3. m \notin MetadataReadOnly
  BY <1>2 DEF MetadataReadOnly
<1>4. mounts[m].ro => m \in UnwritableBeneathImplicit
  BY <1>1, <1>3 DEF RemountsMade, Planned
<1> QED BY <1>4 DEF m

\* A devpts of the run's own hides what is beneath the host's.
PtsWhole == \A p \in Granted : ~Beneath(p, Pts)

\* And a grant that is served and has its rule is worth all its rights.
LEMMA Keep ==
  ASSUME TypeInv, Unmoved, RootInv, ServedInv, PtsWhole
  PROVE  GrantsKeepRights
<1> SUFFICES ASSUME pc = "running", NEW p \in Granted, p \in seen, ~Narrowed(p),
                    ~\E q \in UnwritableBeneathImplicit : Beneath(p, q)
             PROVE  policy.rules[p].rights \subseteq Effective(At(p))
  BY DEF GrantsKeepRights
<1>0. PolicyOK /\ MountsOK /\ At(p) = p /\ p \in Path /\ Under(p, p)
  BY TypeParts, OneName, PolicyFacts, HostFacts, UnderOrder DEF RootInv
<1>1. \A d \in policy.denied \cup policy.read_only : ~Under(p, d)
  BY DEF Narrowed
<1>2. Allows(p, policy.rules[p].rights) \in landlock
  BY <1>0, <1>1 DEF ServedInv, RulesServed, Safe, PtsWhole
<1>3. policy.rules[p].rights \subseteq UNION {l.rights : l \in {m \in landlock : Under(p, m.at)}}
  <2>1. Allows(p, policy.rules[p].rights) \in {m \in landlock : Under(p, m.at)}
    BY <1>0, <1>2 DEF Allows
  <2>2. Allows(p, policy.rules[p].rights).rights = policy.rules[p].rights
    BY DEF Allows
  <2> QED BY <2>1, <2>2
<1>4. ASSUME Writes(p) PROVE ~mounts[MountOf(p)].ro
  <2> DEFINE m == MountOf(p)
  <2>1. Under(p, m) /\ m \in Path
    BY <1>0, MountFacts
  <2>2. mounts[m].ro => m \in UnwritableBeneathImplicit
    BY <1>0, <1>1, <1>4, WriteKept
  <2> HIDE DEF m
  <2>3. m \in UnwritableBeneathImplicit => m # p
    BY <1>4 DEF UnwritableBeneathImplicit
  <2>4. ~mounts[m].ro
    BY <1>0, <2>1, <2>2, <2>3, UnderMeans
  <2> QED BY <2>4 DEF m
<1> QED BY <1>0, <1>3, <1>4 DEF Effective, Writes

\* What the target reaches was granted to it.
LEMMA Reach ==
  ASSUME TypeInv, Unmoved, RootInv, ServedInv
  PROVE  ReachIsGranted
<1> SUFFICES ASSUME pc = "running", NEW v \in Names, Resolve(v)[1] = "host"
             PROVE  LET h == Resolve(v)[2] IN
               /\ \E p \in Granted : Under(h, p) /\ v = At(p) \o Rest(h, p)
               /\ Effective(v) \subseteq Wanted(v)
               /\ \A d \in policy.denied : ~Ambiguous(d) /\ {h, d, ToHost(d)} \cap seen # {} =>
                    ~Denies(d, h, v)
               /\ \A r \in policy.read_only :
                    (Under(h, r) \/ Under(v, r)) /\ {r, ToHost(r)} \cap seen # {} =>
                      "write" \notin Effective(v) \/ Reopened(v, r)
  BY DEF ReachIsGranted
<1> DEFINE m == MountOf(v)
<1>0. PolicyOK /\ HostStays /\ MountsInPlace /\ TopsServed /\ DeniedHidden /\ RemountsMade
  BY TypeParts DEF RootInv
<1>1. /\ v \in Path /\ m \in DOMAIN mounts /\ Under(v, m) /\ m \in Path
      /\ \A n \in DOMAIN mounts : Under(v, n) => Under(m, n)
      /\ mounts[m].fs = "host" /\ Resolve(v)[2] = v
      /\ \E g \in Granted : Under(v, g)
      /\ \A l \in landlock : Under(v, l.at) =>
           \/ \E q \in Granted : l = Allows(q, policy.rules[q].rights)
           \/ PrivateHome /\ l = Allows(Home, {"read", "write"})
  BY ReachMeans
<1>2. "write" \in Effective(v) =>
        /\ m \in Granted /\ ~mounts[m].ro /\ \A q \in Granted : ~Beneath(m, q)
        /\ \E q \in Granted : Writes(q) /\ Under(v, q)
  BY WriteMeans
<1>3. /\ \A p \in Granted : At(p) = p /\ p \in Path
      /\ \A p : ToHost(p) = p
      /\ Launch \subseteq Granted /\ Launch \subseteq policy.implicit
  BY <1>0, OneName, PolicyFacts, HostFacts DEF Launch
<1> HIDE DEF m
\* What is to be read-only and was there when the plan was made is mounted so.
<1>4. \A at \in Planned \cap seen : at \in DOMAIN mounts /\ mounts[at].ro
  BY <1>0 DEF RemountsMade, Hiding
<1>5. \E p \in Granted : Under(v, p) /\ v = At(p) \o Rest(v, p)
  BY <1>1, <1>3, RestFacts
<1>6. Effective(v) \subseteq Wanted(v)
  <2> SUFFICES ASSUME NEW x \in Effective(v) PROVE x \in Wanted(v)
    OBVIOUS
  <2>1. PICK l \in landlock : Under(v, l.at) /\ x \in l.rights
    BY DEF Effective
  <2>2. CASE x # "write"
    <3>1. CASE \E q \in Granted : l = Allows(q, policy.rules[q].rights)
      <4>1. PICK q \in Granted : Under(v, At(q)) /\ x \in policy.rules[q].rights
        BY <1>3, <2>1, <3>1 DEF Allows
      <4>2. x \in UNION {policy.rules[p].rights : p \in {q1 \in Granted : Under(v, At(q1))}}
        BY <4>1
      <4> QED BY <2>2, <4>2 DEF Wanted
    <3>2. CASE PrivateHome /\ l = Allows(Home, {"read", "write"})
      <4>1. Under(v, Home) /\ x = "read"
        BY <2>1, <2>2, <3>2 DEF Allows
      <4> QED BY <2>2, <3>2, <4>1 DEF Wanted
    <3> QED BY <1>1, <2>1, <3>1, <3>2
  <2>3. CASE x = "write"
    <3>1. /\ m \in Granted /\ ~mounts[m].ro /\ \A q \in Granted : ~Beneath(m, q)
          /\ \E q \in Granted : Writes(q) /\ Under(v, q)
      BY <1>2, <2>3
    <3>2. PICK q \in Granted : Writes(q) /\ Under(v, q)
      BY <3>1
    <3>3. x \in UNION {policy.rules[p].rights : p \in {q1 \in Granted : Under(v, At(q1))}}
      BY <1>3, <2>3, <3>2 DEF Writes
    <3>4. \/ \E p \in Written : Under(v, At(p)) /\ Writes(p)
          \/ /\ \E r \in Launch : Under(v, At(r))
             /\ \A p \in Written \cap seen : Under(v, At(p)) => \A r \in Launch : ~Beneath(At(p), At(r))
      <4> SUFFICES ASSUME ~\E p \in Written : Under(v, At(p)) /\ Writes(p)
                   PROVE  /\ \E r \in Launch : Under(v, At(r))
                          /\ \A p \in Written \cap seen :
                               Under(v, At(p)) => \A r \in Launch : ~Beneath(At(p), At(r))
        OBVIOUS
      <4>1. q \in Launch
        BY <1>3, <3>2 DEF Written, Launch
      <4>2. ASSUME NEW p \in Written \cap seen, Under(v, At(p)),
                   NEW r \in Launch, Beneath(At(p), At(r))
            PROVE  FALSE
        <5>1. p \in Granted /\ At(p) = p /\ At(r) = r /\ ~Writes(p) /\ p \in Path
          BY <1>3, <4>2 DEF Written
        <5>2. p \in Planned
          BY <1>0, <1>3, <4>2, <5>1, OneName DEF Planned
        <5>3. p \in DOMAIN mounts /\ mounts[p].ro
          BY <1>4, <4>2, <5>2
        <5>4. Under(m, p) /\ m # p
          BY <1>1, <3>1, <4>2, <5>1, <5>3
        <5> QED BY <1>1, <3>1, <5>1, <5>4, UnderMeans
      <4> QED BY <1>3, <3>2, <4>1, <4>2
    <3> QED BY <3>3, <3>4 DEF Wanted
  <2> QED BY <2>2, <2>3
<1>7. ASSUME NEW d \in policy.denied, {v, d, ToHost(d)} \cap seen # {} PROVE ~Denies(d, v, v)
  <2> SUFFICES ASSUME Under(v, d) PROVE FALSE
    BY <1>3 DEF Denies, Moved
  <2>1. d \in Path /\ (v = d \/ Beneath(v, d))
    BY <1>0, <1>1, <1>7, PolicyFacts, NamesFacts, UnderMeans
  <2>2. d \in seen
    <3>1. CASE v \in seen
      <4>1. v \in HostPaths
        BY <3>1 DEF TypeInv, OtherType
      <4>2. Beneath(v, d) => d \in HostPaths \ Files
        BY <2>1, <4>1, HostFacts
      <4> QED BY <2>1, <3>1, <4>2 DEF ServedInv, DirsSeen
    <3> QED BY <1>3, <1>7, <3>1
  <2> QED BY <1>0, <1>3, <1>7, <2>2 DEF DeniedHidden, Hiding
<1>8. ASSUME NEW r \in policy.read_only, Under(v, r), {r, ToHost(r)} \cap seen # {},
             "write" \in Effective(v)
      PROVE  Reopened(v, r)
  <2>1. r \in seen /\ r \in Planned /\ r \in Path
    BY <1>0, <1>3, <1>8, PolicyFacts, NamesFacts DEF Planned
  <2>2. r \in DOMAIN mounts /\ mounts[r].ro
    BY <1>4, <2>1
  <2>3. /\ m \in Granted /\ ~mounts[m].ro /\ \A q \in Granted : ~Beneath(m, q)
        /\ \E q \in Granted : Writes(q) /\ Under(v, q)
    BY <1>2, <1>8
  <2>4. Under(m, r)
    BY <1>1, <1>8, <2>2
  <2>5. PICK q \in Granted : Writes(q) /\ Under(v, q)
    BY <2>3
  <2>6. Under(q, m)
    <3>1. Under(q, m) \/ Under(m, q)
      BY <1>1, <1>3, <2>5, UnderOrder
    <3>2. Under(m, q) => m = q
      BY <1>1, <1>3, <2>3, UnderMeans
    <3>3. Under(q, q)
      BY <1>3, UnderOrder
    <3> QED BY <3>1, <3>2, <3>3
  <2>7. Under(q, r)
    BY <1>1, <1>3, <2>1, <2>4, <2>6, UnderOrder
  <2> QED BY <1>3, <2>5, <2>7 DEF Reopened
<1> QED BY <1>1, <1>5, <1>6, <1>7, <1>8

-----------------------------------------------------------------------------
(* What follows.                                                           *)

RunInv == TypeInv /\ (Unmoved => RootInv) /\ (Unmoved => ServedInv)

\* It holds of every run.
LEMMA RunInvHolds == Spec => []RunInv
<1>1. Init => RunInv
  <2>1. Init => ServedInv
    BY DEF Init, ServedInv, HostServed, RulesServed, DirsSeen
  <2> QED BY <2>1, TypeInit, RootInit DEF RunInv
<1>2. RunInv /\ [Next]_vars => RunInv'
  <2> SUFFICES ASSUME RunInv, [Next]_vars PROVE RunInv'
    OBVIOUS
  <2>1. TypeInv' /\ (Unmoved => RootInv)'
    BY TypeStep, RootStep DEF RunInv
  <2>2. policy' = policy
    BY DEF Next, Setup, Plan, MountPrivate, Bind, MountDevices, Conceal, Remount, ApplyLandlock,
           Fails, Appears, Vanishes, vars
  <2>3. Unmoved' <=> Unmoved
    BY <2>2, PolicyStays
  <2>4. Unmoved' => ServedInv'
    BY <2>1, <2>3, ServedStep DEF RunInv
  <2> QED BY <2>1, <2>4 DEF RunInv
<1> QED BY <1>1, <1>2, PTL DEF Spec

\* Whatever the host and the policies: a run whose grants are all placed where
\* the host has them reaches nothing of the host it was not granted, with no
\* more than the rights written for it, but for reading in a private home; what
\* was denied stays out of reach, and an island read-only
\* (build_isolation_plan, setup_root, LandlockPlan).
THEOREM NothingElseIsReached == Spec => [](Unmoved => ReachIsGranted)
<1>1. RunInv => (Unmoved => ReachIsGranted)
  BY Reach DEF RunInv
<1> QED BY <1>1, RunInvHolds, PTL

\* And such a run keeps the rights its grants were written with, wherever no
\* denial, island or read-only grant above narrows them: what is mounted
\* later hides none of them, unless a grant is beneath /dev/pts
\* (build_isolation_plan, setup_root, LandlockPlan).
THEOREM GrantsKeepTheirRights == Spec => [](Unmoved /\ PtsWhole => GrantsKeepRights)
<1>1. RunInv => (Unmoved /\ PtsWhole => GrantsKeepRights)
  BY Keep DEF RunInv
<1> QED BY <1>1, RunInvHolds, PTL
===============================================================================
