---------------------------- MODULE MCPrimitives ----------------------------
(***************************************************************************)
(* Instances of Primitives.                                                *)
(***************************************************************************)
EXTENDS Primitives

CallOf(k, n, bs, m, t) ==
  [kind |-> k, stages |-> n, barriers |-> bs, blocks |-> m, token |-> t, quiet |-> {}]

TwoBarriers == CallOf("chain", 3, <<"all", "none", "all">>, 0, TRUE)
SerialChain == CallOf("chain", 3, <<"serial", "none", "none">>, 0, TRUE)
MixedChain  == CallOf("chain", 3, <<"none", "serial", "all">>, 0, FALSE)
BlockChain  == CallOf("chain", 2, <<"all", "all">>, 2, TRUE)
TwoPhases   == CallOf("plex", 2, <<>>, 0, TRUE)
AScan       == CallOf("scan", 1, <<>>, 0, TRUE)
ThreeTiles  == CallOf("lookback", 3, <<>>, 0, FALSE)

ThreeSlots == {0, 1, 2}
OneCluster == [s \in ThreeSlots |-> 0]
OneAndTwo  == [s \in ThreeSlots |-> IF s = 0 THEN 0 ELSE 1]
TwoAndOne  == [s \in ThreeSlots |-> IF s = 2 THEN 1 ELSE 0]

PoolOf(y, cs) == [clusters |-> y, calls |-> cs]

(* On clusters a scan does not survive a throw of its first pass (README,  *)
(* section 4): here its body is quiet there, and throws in the second pass *)
(* as the prefix function does in the folds.  ScanThrow.cfg has the rest.  *)
QuietScan == [AScan EXCEPT !.quiet = {Pass1}]

(* With WrapAt = 3 the epochs go on after a scan or a plex of two phases,  *)
(* and start over after a chain of three stages or two plexes.             *)
AllPools ==
  {PoolOf(OneCluster, <<AScan, SerialChain>>), PoolOf(OneCluster, <<TwoBarriers, AScan>>),
   PoolOf(OneCluster, <<MixedChain>>), PoolOf(OneCluster, <<BlockChain>>),
   PoolOf(OneCluster, <<TwoPhases, TwoPhases, TwoPhases>>)}
  \union {PoolOf(y, <<QuietScan>>) : y \in {OneAndTwo, TwoAndOne}}
  \union {PoolOf(y, <<ThreeTiles>>) : y \in {OneCluster, OneAndTwo, TwoAndOne}}

ThrowingPools == {PoolOf(y, <<AScan>>) : y \in {OneAndTwo, TwoAndOne}}
=============================================================================
