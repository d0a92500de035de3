----------------------------- MODULE MCLifetime -----------------------------
(***************************************************************************)
(* Instances of Lifetime.                                                  *)
(***************************************************************************)
EXTENDS Lifetime

CONSTANTS c1, c2

TwoCallers == {c1, c2}
AllThreads == Threads
BothPools == {ThisPool, OtherPool}
Role(submits, tasks, waiting, calling, another) ==
  [submit |-> submits, tasks |-> tasks, wait |-> waiting, call |-> calling, other |-> another]

AllRoles == {Role({c1, c2, 1}, 2, {}, {}, FALSE), Role({c1}, 1, {c2}, {}, FALSE),
             Role({}, 0, {c1, c2}, {}, FALSE), Role({c2}, 2, {}, {c1}, FALSE),
             Role({}, 0, {}, {c1}, TRUE)}

(* Two threads call the primitives of one pool (README, section 4).        *)
TwoCall == {Role({}, 0, {}, {c1, c2}, FALSE)}

TwoDrivers == {"dp", "dq"}
=============================================================================
