--------------------------- MODULE MCRunLifecycle ---------------------------
(***************************************************************************)
(* Policies for small instances of RunLifecycle.                           *)
(***************************************************************************)
EXTENDS RunLifecycle, TLC

Bare == [isolate |-> FALSE, fuse |-> 0, sockets |-> 0,
         forward |-> FALSE, tmp |-> FALSE, limits |-> FALSE]

\* Everything at once, inside namespaces.
Full     == [Bare EXCEPT !.isolate = TRUE, !.fuse = 2, !.sockets = 1,
                         !.tmp = TRUE, !.limits = TRUE]
\* No namespaces: limits are all that is left to clean up, and a policy that
\* names mounts or sockets is refused.
Limited  == [Bare EXCEPT !.limits = TRUE]
Refused  == [Bare EXCEPT !.sockets = 1]
Mounting == [Bare EXCEPT !.fuse = 1]
\* Namespaces alone, and a forward.
Forwards == [Bare EXCEPT !.isolate = TRUE, !.forward = TRUE]
\* What sweeps are about: a mount, a socket and a staging directory.
Serving  == [Bare EXCEPT !.isolate = TRUE, !.fuse = 1, !.sockets = 1]

Mixed     == {Full, Limited, Refused, Mounting, Forwards}
Light     == {Serving, Limited}

Symmetry == Permutations(Runs)
=============================================================================
