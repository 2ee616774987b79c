------------------------------ MODULE AuditedRun ------------------------------
(***************************************************************************)
(* A policy may come from an audit: what an earlier run was seen to do is  *)
(* compared with the policy it had, the accesses the policy does not grant *)
(* are findings, and a profile is generated from those that were chosen.   *)
(* The target then runs in the root SandboxRoot builds for both.           *)
(*                                                                         *)
(* Source: crates/bailey/src/reconcile.rs, and of cli.rs                   *)
(* policy_with_own_storage, cmd_profile_generate.                          *)
(***************************************************************************)
EXTENDS SandboxRoot

CONSTANTS
  Traces,       \* the traces: sets of accesses [kind, path, resolved]
  Bases,        \* the policies a trace may be reconciled against
  TargetDir,    \* the directory of the target's program
  SystemRoots,  \* /usr, /etc, /dev and their like
  Secrets,      \* the paths whose name says they hold a credential
  OwnHome,      \* where the private home is kept: an audit does not isolate
  CoalesceAt    \* COALESCE_AT

ASSUME AuditAssumption ==
  /\ Bases \subseteq Policies
  /\ \A b \in Bases : b.implicit = {}  \* only a confined shell has them
  /\ \A t \in Traces : \A a \in t : a.kind \in Rights /\ a.path \in HostPaths
  /\ CoalesceAt \in Nat \ {0}

VARIABLES
  findings,     \* what the trace has that the policy did not grant
  asked         \* --include-high-risk

avars == <<vars, findings, asked>>

-----------------------------------------------------------------------------
(* reconcile                                                               *)

\* The audited run had its private home at its own path.
OwnStorage(a) == PrivateHome /\ Under(a.path, OwnHome) /\ a.kind # "execute"

IsGranted(a) ==
  OwnStorage(a) \/ \E p \in Granted : a.kind \in policy.rules[p].rights /\ Under(a.path, p)

HighRisk(a) ==
  \/ a.path \in Secrets
  \/ \A low \in SystemRoots \cup {TargetDir} : ~Under(a.path, low)

Reconciled(trace) == {a \in trace : ~IsGranted(a)}

Selected(found, all) == {a \in found : all \/ ~HighRisk(a)}

-----------------------------------------------------------------------------
(* generate_profile                                                        *)

\* Not the home, nor anything above it, nor a top-level directory.
MayName(dir) == Len(dir) >= 2 /\ ~Under(Home, dir)

\* One turn of the loop.  The root directory, which has no parent, falls out.
Round(S) ==
  LET below == S \ {<<>>}
      in(d) == {p \in below : Parent(p) = d}
      named == {d \in {Parent(p) : p \in below} : Cardinality(in(d)) >= CoalesceAt /\ MayName(d)}
  IN  {p \in below : Parent(p) \notin named} \cup named

\* Mutant: a path covers itself.
CoalesceSelf(S) ==
  LET turns == Max({Len(p) : p \in S} \cup {1})
      round[n \in 0..turns] == IF n = 0 THEN S ELSE Round(round[n - 1])
      last == round[turns]
  IN  {p \in last : \A q \in last : ~Under(p, q)}

\* Another turn names a directory only if this one named something in it, so
\* there are no more than a path has names.
Coalesce(S) ==
  LET turns == Max({Len(p) : p \in S} \cup {1})
      round[n \in 0..turns] == IF n = 0 THEN S ELSE Round(round[n - 1])
      last == round[turns]
  IN  {p \in last : \A q \in last : ~Beneath(p, q)}

\* A path that was not resolved names nothing, and a terminal's is of one
\* session.
Observed(kind, chosen) ==
  {a.path : a \in {a \in chosen : a.kind = kind /\ a.resolved /\ ~Under(a.path, Pts)}}

Generated(chosen) ==
  LET grants == UNION {{kind} \X Coalesce(Observed(kind, chosen)) : kind \in Rights}
  IN  [p \in {g[2] : g \in grants} |-> {kind \in Rights : <<kind, p>> \in grants}]

\* The profile is a layer on the policy it was reconciled against; its grants
\* take the place of a denial of the same path.
Layered(profile) ==
  [rules |-> [p \in Granted \cup DOMAIN profile |->
     [rights |-> (IF p \in Granted THEN policy.rules[p].rights ELSE {})
                   \cup (IF p \in DOMAIN profile THEN profile[p] ELSE {}),
      at     |-> IF p \in Granted THEN At(p) ELSE p]],
   denied    |-> policy.denied \ DOMAIN profile,
   read_only |-> policy.read_only,
   implicit  |-> policy.implicit]

\* audit, profile generate, and the profile taken up.
Audit ==
  /\ pc = "plan" /\ findings = {} /\ policy \in Bases
  /\ \E trace \in Traces, all \in BOOLEAN :
       /\ findings' = Reconciled(trace) /\ asked' = all
       /\ policy' = Layered(Generated(Selected(Reconciled(trace), all)))
  /\ UNCHANGED <<pc, plan, root, changes, seen>>

AuditedInit == Init /\ findings = {} /\ asked = FALSE
AuditedNext == Audit \/ (Next /\ UNCHANGED <<findings, asked>>)
AuditedSpec == AuditedInit /\ [][AuditedNext]_avars

-----------------------------------------------------------------------------
Reaches(a) == InRoot(a.path) /\ Resolve(a.path) = Host(a.path) /\ a.kind \in Effective(a.path)

\* A profile generated from a trace lets the target do again what it was
\* generated for: every chosen access that has a path still, outside the home
\* and what the policy denies or made an island, is one the confined run
\* allows, on the host's own file, whatever directories stand in for the files
\* and whatever the sandbox mounts or remounts beside them (generate_profile,
\* coalesce, build_isolation_plan).  Left aside are terminals and the root
\* directory, for which no grant is generated, and the home, where
\* HomeGrantsKeepRights says what goes wrong.
GeneratedSuffices ==
  pc = "running" => \A a \in Selected(findings, asked) :
    \/ ~a.resolved \/ a.path = <<>> \/ a.path \notin seen
    \/ Under(a.path, Pts) \/ Under(a.path, Home)
    \/ \E x \in policy.denied \cup policy.read_only : Under(a.path, x)
    \/ Reaches(a)
===============================================================================
