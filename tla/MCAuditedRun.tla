----------------------------- MODULE MCAuditedRun -----------------------------
(***************************************************************************)
(* AuditedRun over a small host: a home and a project directory, each with *)
(* a directory of files in it, and the shared areas.                       *)
(*                                                                         *)
(* A written policy grants up to two of their paths, or three that nest,   *)
(* one of them or two placed elsewhere or none, and denies one or makes    *)
(* one an island.  An audited one has at most one grant to begin with.     *)
(***************************************************************************)
EXTENDS AuditedRun

MCHome == <<1>>
MCSrv  == <<2>>
MCTmp  == <<3>>
MCShm  == <<4, 1>>
MCPts  == <<4, 2>>

MCFiles == {<<1, 1, 1>>, <<2, 1, 1>>, <<2, 1, 2>>, <<2, 1, 3>>}
MCHostPaths ==
  MCFiles \cup {<<>>, MCHome, <<1, 1>>, MCSrv, <<2, 1>>, MCTmp, <<3, 1>>, <<4>>, MCShm, MCPts}
MCVolatile == {<<2, 1, 1>>}
Spots    == {<<1, 9>>, <<9>>, <<4>>}
MCPlaces == Spots \cup {<<9, 1>>}

Some == {{"read"}, {"read", "write"}}
Grants(paths, places) ==
  {[p \in paths |-> [rights |-> r[p], at |-> IF p = moved THEN at ELSE p]] :
     r \in [paths -> Some], moved \in paths \cup {<<>>}, at \in places}

Paths == MCHostPaths \ {<<>>, <<2, 1, 2>>, <<2, 1, 3>>}
One   == {{p} : p \in Paths}
Two   == {{p, q} : p \in Paths, q \in {MCHome, <<1, 1>>, MCSrv, <<2, 1>>}}
Three == {{MCHome, <<1, 1>>, <<1, 1, 1>>}, {MCSrv, <<2, 1>>, <<2, 1, 1>>}}

\* A launch directory bailey grants of its own accord, for a confined shell;
\* the user's layers may have taken the grant back.
Launched(rules) ==
  IF \/ MCSrv \in DOMAIN rules /\ rules[MCSrv] = [rights |-> {"read", "write"}, at |-> MCSrv]
     \/ MCSrv \notin DOMAIN rules /\ <<2, 1>> \in DOMAIN rules
  THEN {{}, {MCSrv}} ELSE {{}}

Exceptions == {<<{}, {}>>} \cup {<<{d}, {}>> : d \in {<<1, 1>>, <<2, 1>>, <<2, 1, 1>>, <<9, 1>>}}
                           \cup {<<{}, {i}>> : i \in {<<1, 1>>, <<2, 1>>, <<2, 1, 1>>, <<9, 1>>}}

Policy(rules, e, l) == [rules |-> rules, denied |-> e[1], read_only |-> e[2], implicit |-> l]

MCBases ==
  {Policy(rules, e, {}) : rules \in {<<>>} \cup UNION {Grants({p}, {p}) : p \in {<<1>>, <<2>>, <<2, 1, 1>>}},
                           e \in {<<{}, {}>>, <<{<<2, 1, 2>>}, {}>>}}

\* Two grants that are both placed elsewhere, and where one place, or one path,
\* is beneath the other.
Both == {<<<<1>>, <<9>>, <<2>>, <<9, 1>>>>, <<<<1>>, <<9, 1>>, <<2>>, <<9>>>>,
         <<<<2>>, <<9>>, <<2, 1>>, <<1, 9>>>>, <<<<2>>, <<4>>, <<4, 1>>, <<9>>>>,
         <<<<1, 1>>, <<9>>, <<2>>, <<4>>>>}
Either == {<<1>>, <<9>>, <<9, 1>>, <<9, 1, 1>>, <<9, 1, 1, 2>>, <<2, 1>>, <<2, 1, 1>>, <<4, 1>>}
Relocated(exceptions) ==
  {Policy([p \in {b[1], b[3]} |->
             [rights |-> IF p = b[1] THEN {"read"} ELSE r, at |-> IF p = b[1] THEN b[2] ELSE b[4]]], e, {}) :
     b \in Both, r \in Some, e \in exceptions}

\* Grants without reading, alone or beneath one that is read.
Unread ==
  {Policy([p \in S |-> [rights |-> IF p = MCHome \/ p = MCSrv THEN {"read"} ELSE r,
                        at |-> IF p = moved THEN <<1, 9>> ELSE p]], <<{}, {}>>, {}) :
     S \in {{<<1, 1>>}, {<<1, 1, 1>>}, {<<2, 1>>}, {MCHome, <<1, 1>>}, {MCSrv, <<2, 1>>}},
     r \in {{"write"}, {"execute"}}, moved \in {<<>>, <<2, 1>>}}

MCPolicies ==
  MCBases \cup Unread \cup Relocated({<<{d}, {}>> : d \in Either} \cup {<<{}, {i}>> : i \in Either}) \cup
  UNION {{Policy(rules, e, l) : e \in Exceptions, l \in Launched(rules)} :
           rules \in UNION {Grants(S, Spots) : S \in One} \cup UNION {Grants(S, {<<9>>}) : S \in Three}
                       \cup UNION {Grants(S, {<<1, 9>>, <<9>>}) : S \in Two}}

Seen(kind, path) == [kind |-> kind, path |-> path, resolved |-> TRUE]
Routine ==
  {Seen("read", <<2, 1, 1>>), Seen("read", <<2, 1, 2>>), Seen("read", <<2, 1, 3>>),
   Seen("write", <<2, 1, 1>>), Seen("write", <<2, 1>>), Seen("execute", <<2, 1, 2>>)}
Other ==
  {Seen("read", <<1, 1, 1>>), Seen("write", MCTmp), Seen("read", MCPts), Seen("write", <<3, 1>>),
   [Seen("read", <<1, 1>>) EXCEPT !.resolved = FALSE]}
MCTraces == {a \cup b : a \in SUBSET Routine, b \in {{}} \cup {{o} : o \in Other}}

\* For the runs that look for one counterexample each.
HomePolicies ==
  {Policy(rules, <<{}, {}>>, {}) : rules \in UNION {Grants({<<1, 1>>, p}, {<<9>>}) : p \in {<<1, 1, 1>>, MCSrv}}}
DeniedPolicies == Relocated({<<{<<9, 1, 1, 2>>}, {}>>})
NoTraces == {{}}

MCSystem  == {<<4>>}
MCSecrets == {<<2, 1, 3>>}
MCOwnHome == <<3, 1>>
===============================================================================
