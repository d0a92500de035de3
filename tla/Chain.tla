------------------------------- MODULE Chain --------------------------------
(***************************************************************************)
(* parallelChain: every slot runs the stages in their order on its own     *)
(* chunk, or on blocks it claims from the stage's counter, and meets the   *)
(* others as the barrier behind each stage says.                           *)
(*                                                                         *)
(* Sources: thread_pool.h (runChainStageForSlot, waitAllSlotsDone,         *)
(* waitProducerSerialBarrier, runDynamicChainStageForSlot,                 *)
(* parallelChainImplWithRuntimeHints), detail/chain_state.h.               *)
(*                                                                         *)
(* A chain is [kind |-> "chain", stages, barriers, blocks, token]: barrier *)
(* i stands behind stage i; blocks = 0 for the static engine, else the     *)
(* number of blocks of a stage of the dynamic one.  "all" is Global and    *)
(* DeterministicReduce, "serial" is ProducerSerial, "none" is None.        *)
(***************************************************************************)
EXTENDS Staged

VARIABLE claimed     (* dynamicStageCounters: the next block of each stage *)

Dynamic == call.blocks > 0
Behind(i) == IF i = 1 THEN "none" ELSE call.barriers[i - 1]

ChainInit == claimed = <<>>
ChainOpen(c) == claimed' = [i \in 1 .. c.stages |-> 0]
ChainClose == claimed' = <<>>

SerialBefore(i) == i - 1          \* mutant: the stage before the serial one
SerialTarget(i) == i

(* waitAllSlotsDone, waitProducerSerialBarrier *)
MayEnter(s, i) ==
  \/ Behind(i) = "none"
  \/ Behind(i) = "all" /\ \A t \in Others(s) : Reached(t, i - 1)
  \/ Behind(i) = "serial" /\ (s = 0 \/ Reached(0, SerialTarget(i)))

RunsBody(s, i) == Behind(i) # "serial" \/ s = 0

Enter(s) ==
  LET i == at[s]
  IN  /\ At(s, "wait") /\ MayEnter(s, i)
      /\ IF Dynamic \/ ~RunsBody(s, i)
         THEN /\ Goto(s, IF Cancelling THEN "bail" ELSE IF Dynamic THEN "poll" ELSE "stamp")
              /\ cancelled' = Cancelling
              /\ UNCHANGED <<poolVars, at, item, done, exc, stopped, history>>
         ELSE RunOrLeave(s, <<i, s>>, "bail")
      /\ UNCHANGED claimed

(* The dynamic engine looks at the flag, but not at the token, between two *)
(* blocks.                                                                 *)
Poll(s) ==
  /\ At(s, "poll")
  /\ Go(s, IF cancelled THEN "stamp" ELSE "claim")
  /\ UNCHANGED claimed

Claim(s) ==
  LET i == at[s]
      block == claimed[i]
  IN  /\ At(s, "claim")
      /\ claimed' = [claimed EXCEPT ![i] = @ + 1]
      /\ IF block >= call.blocks
         THEN Goto(s, "stamp") /\ UNCHANGED <<item, history>>
         ELSE Run(s, <<i, block>>)
      /\ UNCHANGED <<poolVars, at, done, cancelled, exc, stopped>>

StageOver(s) ==
  /\ Complete(s, IF Dynamic THEN "poll" ELSE "stamp")
  /\ UNCHANGED claimed

StageThrow(s) == Throw(s) /\ UNCHANGED claimed
StageFlag(s) == Flag(s, "bail") /\ UNCHANGED claimed

(* A slot that gives up satisfies every wait of the call. *)
Bail(s) ==
  /\ At(s, "bail")
  /\ StampAndGo(s, call.stages, "out")
  /\ UNCHANGED claimed

(* The stamp, where somebody may read it, and the next stage. *)
StampNeeded(s, i) ==
  \/ Dynamic
  \/ call.barriers[i] # "none"
  \/ Behind(i) = "serial" /\ s = 0

StageStamp(s) ==
  LET i == at[s]
      last == i = call.stages
  IN  /\ At(s, "stamp")
      /\ IF StampNeeded(s, i) THEN Stamp(s, i) ELSE UNCHANGED done
      /\ Goto(s, IF last THEN "out" ELSE "wait")
      /\ at' = [at EXCEPT ![s] = IF last THEN i ELSE i + 1]
      /\ UNCHANGED <<poolVars, item, cancelled, exc, stopped, history, claimed>>

ChainBegin(s) == Begin(s, 1) /\ UNCHANGED claimed

ChainSlot(s) ==
  /\ Kind = "chain"
  /\ \/ ChainBegin(s) \/ Enter(s) \/ Poll(s) \/ Claim(s) \/ StageOver(s)
     \/ StageThrow(s) \/ StageFlag(s) \/ Bail(s) \/ StageStamp(s)

-----------------------------------------------------------------------------
(* The units of a chain and what each builds on, as the barriers promise.  *)
SharesOf(c, i) == IF c.blocks > 0 THEN 0 .. c.blocks - 1
                  ELSE IF i > 1 /\ c.barriers[i - 1] = "serial" THEN {0} ELSE Slots

ChainUnits(c) == UNION {{i} \X SharesOf(c, i) : i \in 1 .. c.stages}

(* All of the stages before an "all" barrier, the stage that a "serial"    *)
(* barrier has made serial, and, on one's own slot, every earlier stage.   *)
ChainNeeds(c, u) ==
  {v \in ChainUnits(c) :
     /\ v[1] < u[1]
     /\ \/ \E j \in v[1] .. u[1] - 1 : c.barriers[j] = "all"
        \/ v[1] > 1 /\ c.barriers[v[1] - 1] = "serial"
        \/ c.blocks = 0 /\ v[2] = u[2]}
=============================================================================
