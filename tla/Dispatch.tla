------------------------------ MODULE Dispatch ------------------------------
(***************************************************************************)
(* The dispatch protocol of citor::ThreadPool: how a call is published on  *)
(* the workers' mailboxes, how a rank's share is claimed by its worker or  *)
(* by the producer waiting in the join ("cold collapse"), how the worker's *)
(* same-line stamp and its late acknowledgement come back, and how the     *)
(* descriptor of one call is kept away from workers still reading it.      *)
(*                                                                         *)
(* Sources: thread_pool.h (parallelFor, dispatchReduceJobTyped,            *)
(* drainColdStampedAcks, dispatchOneStaticLockedBody, shutdownAndJoin),    *)
(* detail/worker_loop.h (workerMainLoop), detail/dispatch_static.h         *)
(* (tryClaimRank, typedWorkerEntry), detail/pool_control.h.                *)
(*                                                                         *)
(* Every atomic access that another thread can interleave with is a step   *)
(* of its own.  The descriptor is not atomic: reading it is a window       *)
(* (wpc = "reading"), and so is writing it (pc = "writing").               *)
(*                                                                         *)
(* Sleeping and waking are module Parking's: here a worker that has not    *)
(* looked at its mailbox is simply late.                                   *)
(***************************************************************************)
EXTENDS Integers, FiniteSets

CONSTANTS Workers,     (* the background ranks 1 .. participants - 1        *)
          Producers,   (* the threads that call the pool's primitives       *)
          Calls,       (* the calls, as records: see DispatchAssumption     *)
          CallsOf,     (* the calls each producer makes on this pool        *)
          Elsewhere,   (* the calls each producer makes on another pool     *)
          LowLatency,  (* the values hotSpinDepth # 0 takes at a dispatch   *)
          MaxCalls,    (* bound on the number of calls                      *)
          None         (* the null pointer                                  *)

(***************************************************************************)
(* kind "for" is parallelFor (workerStateBase set: its ranks may be        *)
(* collapsed), "reduce" is the typed reducer (workerStateBase null), and   *)
(* "region" stands for forkJoin, parallelChain, parallelScan and runPlex,  *)
(* which publish an untyped descriptor from the producer's stack.          *)
(* wide: blockCount > participants.  reusable: kReuseEligible, the hints   *)
(* and the body's type allow the reuse bit.  key tells apart the rest of   *)
(* the parameters (range, chunk, body).                                    *)
(***************************************************************************)
Kinds == {"for", "reduce", "region"}

DispatchAssumption ==
  /\ IsFiniteSet(Workers)
  /\ Workers \subseteq Nat \ {0} /\ Workers # {}
  /\ \A c \in Calls : /\ c.kind \in Kinds
                      /\ c.wide \in BOOLEAN
                      /\ c.reusable \in BOOLEAN
  /\ CallsOf \in [Producers -> SUBSET Calls]
  /\ Elsewhere \in [Producers -> SUBSET Calls]
  /\ LowLatency \subseteq BOOLEAN
  /\ MaxCalls \in Nat
  /\ None \notin Calls /\ None \notin Producers
  /\ None \notin Producers \X Kinds

ASSUME DispatchAssumption

Ranks == {0} \union Workers
(* sharedParallelForDesc, sharedReduceDesc, a stack frame of the producer. *)
Descs == Producers \X Kinds

(***************************************************************************)
(* A mailbox word: the phase and its flag bits (pool_control.h).           *)
(***************************************************************************)
Mailbox == [gen : Nat, reuse : BOOLEAN, skip : BOOLEAN,
            done : BOOLEAN, acked : BOOLEAN, down : BOOLEAN]

Word(g) == [gen |-> g, reuse |-> FALSE, skip |-> FALSE,
            done |-> FALSE, acked |-> FALSE, down |-> FALSE]

VARIABLES
  generation,     (* m_control.generation, the phase part              *)
  activeJob,      (* m_control.activeJob                               *)
  mailbox,        (* WorkerState::mailbox                              *)
  mailboxDesc,    (* WorkerState::mailboxDesc                          *)
  claimedAt,      (* WorkerState::claimedAt                            *)
  coldMask,       (* m_coldStampedMask                                 *)
  lastPublished,  (* m_lastPublishedDesc                               *)
  gate,           (* the holder of the dispatch gate                   *)
  desc,           (* the contents of each JobDescriptor                *)
  pc,             (* producer: where it is                             *)
  call,           (* producer: the call it is making                   *)
  reuseHint,      (* producer: kReuseEligible && keyMatches            *)
  word,           (* producer: publishedMb                             *)
  mask,           (* producer: the local mask of a drain               *)
  cleared,        (* producer: the bits of mask found acknowledged     *)
  slots,          (* producer: slots still to probe, publish or join   *)
  wpc,            (* worker: where it is                               *)
  seen,           (* worker: the phase of lastSeenMailbox              *)
  obs,            (* worker: the mailbox word it acts on               *)
  reading,        (* worker: the descriptor it reads                   *)
  cache,          (* worker: the parameters of its last full read      *)
  destroyer,      (* shutdownAndJoin: step, slots left, loaded word    *)
  todo,           (* history: shares of the open call not yet started  *)
  running         (* history: the shares being executed, with params   *)

poolVars == <<generation, activeJob, mailbox, mailboxDesc, claimedAt,
              coldMask, lastPublished, gate>>
drainVars == <<mask, cleared, slots>>
prodVars == <<pc, call, reuseHint, word, drainVars>>
workVars == <<wpc, seen, obs, reading, cache>>
histVars == <<todo, running>>
vars == <<poolVars, desc, prodVars, workVars, destroyer, histVars>>

Init ==
  /\ generation = 0
  /\ activeJob = None
  /\ mailbox = [w \in Workers |-> Word(0)]
  /\ mailboxDesc = [w \in Workers |-> None]
  /\ claimedAt = [w \in Workers |-> 0]
  /\ coldMask = {}
  /\ lastPublished = None
  /\ gate = None
  /\ desc = [d \in Descs |-> None]
  /\ pc = [p \in Producers |-> "idle"]
  /\ call = [p \in Producers |-> None]
  /\ reuseHint = [p \in Producers |-> FALSE]
  /\ word = [p \in Producers |-> Word(0)]
  /\ mask = [p \in Producers |-> {}]
  /\ cleared = [p \in Producers |-> {}]
  /\ slots = [p \in Producers |-> {}]
  /\ wpc = [w \in Workers |-> "idle"]
  /\ seen = [w \in Workers |-> 0]
  /\ obs = [w \in Workers |-> Word(0)]
  /\ reading = [w \in Workers |-> None]
  /\ cache = [w \in Workers |-> None]
  /\ destroyer = [at |-> "no", slots |-> {}, word |-> Word(0)]
  /\ todo = {}
  /\ running = {}

First(S) == CHOOSE s \in S : \A t \in S : s <= t
DescOf(p) == <<p, call[p].kind>>
At(p, here) == pc[p] = here
Go(p, to) == pc' = [pc EXCEPT ![p] = to]

-----------------------------------------------------------------------------
(***************************************************************************)
(* The producer, up to the dispatch gate.                                  *)
(***************************************************************************)

(* What is left of a call before it takes its generation number. *)
Entering == {"load", "probe", "clear", "write", "writing", "lease", "prepare"}

(* A primitive is called.  parallelFor drains the cold-stamped workers    *)
(* before it touches its descriptor; the reducer writes its descriptor    *)
(* first; the others take the gate first.                                  *)
Begin(p, c) ==
  /\ At(p, "idle")
  /\ destroyer.at = "no"
  /\ generation + Cardinality({q \in Producers : pc[q] \in Entering})
       < MaxCalls
  /\ call' = [call EXCEPT ![p] = c]
  /\ Go(p, CASE c.kind = "for"    -> "load"
             [] c.kind = "reduce" -> "write"
             [] c.kind = "region" -> "lease")
  /\ UNCHANGED <<poolVars, desc, reuseHint, word, drainVars, workVars,
                 destroyer, histVars>>

(* The drain, at parallelFor's entry without the gate and in front of     *)
(* every publication under it: wait for the acknowledgement of every      *)
(* worker whose mailbox a producer stamped in its place.                   *)
Gated(p) == gate = p
AfterDrain(p) == IF Gated(p) THEN "publish" ELSE "write"

DrainLoad(p) ==
  /\ At(p, "load")
  /\ mask' = [mask EXCEPT ![p] = coldMask]
  /\ cleared' = [cleared EXCEPT ![p] = {}]
  /\ IF coldMask = {}
     THEN /\ Go(p, AfterDrain(p))
          /\ slots' = [slots EXCEPT ![p] = IF Gated(p) THEN Workers ELSE {}]
     ELSE /\ Go(p, "probe")
          /\ slots' = [slots EXCEPT ![p] = coldMask]
  /\ UNCHANGED <<poolVars, desc, call, reuseHint, word, workVars, destroyer,
                 histVars>>

DrainProbe(p) ==
  /\ At(p, "probe")
  /\ LET w == First(slots[p])
     IN  /\ slots' = [slots EXCEPT ![p] = @ \ {w}]
         /\ cleared' = [cleared EXCEPT ![p] =
                          IF mailbox[w].acked THEN @ \union {w} ELSE @]
         /\ IF slots[p] = {w} THEN Go(p, "clear") ELSE UNCHANGED pc
  /\ UNCHANGED <<poolVars, desc, call, reuseHint, word, mask, workVars,
                 destroyer, histVars>>

(* fetch_and(~cleared); done when nothing is pending, else look again. *)
DrainClear(p) ==
  /\ At(p, "clear")
  /\ coldMask' = coldMask \ cleared[p]
  /\ mask' = [mask EXCEPT ![p] = {}]
  /\ cleared' = [cleared EXCEPT ![p] = {}]
  /\ IF cleared[p] = mask[p]
     THEN /\ Go(p, AfterDrain(p))
          /\ slots' = [slots EXCEPT ![p] = IF Gated(p) THEN Workers ELSE {}]
     ELSE /\ Go(p, "load")
          /\ UNCHANGED slots
  /\ UNCHANGED <<generation, activeJob, mailbox, mailboxDesc, claimedAt,
                 lastPublished, gate, desc, call, reuseHint, word, workVars,
                 destroyer, histVars>>

(* The write-eliding comparison of the descriptor with the call. *)
AfterWrite(p) == IF Gated(p) THEN "prepare" ELSE "lease"

KeyMatches(p) ==
  /\ At(p, "write")
  /\ desc[DescOf(p)] = call[p]
  /\ reuseHint' = [reuseHint EXCEPT ![p] = call[p].reusable]
  /\ Go(p, AfterWrite(p))
  /\ UNCHANGED <<poolVars, desc, call, word, drainVars, workVars, destroyer,
                 histVars>>

WriteBegin(p) ==
  /\ At(p, "write")
  /\ desc[DescOf(p)] # call[p]
  /\ reuseHint' = [reuseHint EXCEPT ![p] = FALSE]
  /\ Go(p, "writing")
  /\ UNCHANGED <<poolVars, desc, call, word, drainVars, workVars, destroyer,
                 histVars>>

WriteEnd(p) ==
  /\ At(p, "writing")
  /\ desc' = [desc EXCEPT ![DescOf(p)] = call[p]]
  /\ Go(p, AfterWrite(p))
  /\ UNCHANGED <<poolVars, call, reuseHint, word, drainVars, workVars,
                 destroyer, histVars>>

(* The same thread uses another pool in between.  Its descriptors are per  *)
(* thread and not per pool, so all that this pool sees of the call is that *)
(* the descriptor was overwritten.                                         *)
ElsewhereBegin(p, c) ==
  /\ At(p, "idle")
  /\ destroyer.at = "no"
  /\ desc[<<p, c.kind>>] # c
  /\ call' = [call EXCEPT ![p] = c]
  /\ Go(p, "elsewhere")
  /\ UNCHANGED <<poolVars, desc, reuseHint, word, drainVars, workVars,
                 destroyer, histVars>>

ElsewhereEnd(p) ==
  /\ At(p, "elsewhere")
  /\ desc' = [desc EXCEPT ![DescOf(p)] = call[p]]
  /\ call' = [call EXCEPT ![p] = None]
  /\ Go(p, "idle")
  /\ UNCHANGED <<poolVars, reuseHint, word, drainVars, workVars, destroyer,
                 histVars>>

Lease(p) ==
  /\ At(p, "lease")
  /\ gate = None
  /\ gate' = p
  /\ Go(p, IF call[p].kind = "region" THEN "write" ELSE "prepare")
  /\ UNCHANGED <<generation, activeJob, mailbox, mailboxDesc, claimedAt,
                 coldMask, lastPublished, desc, call, reuseHint, word,
                 drainVars, workVars, destroyer, histVars>>

-----------------------------------------------------------------------------
(***************************************************************************)
(* dispatchOneStaticLockedBody.                                            *)
(***************************************************************************)

(* The generation, the flags of the published word and the active job;    *)
(* from here the call is open.                                             *)
Prepare(p, lowLatency) ==
  /\ At(p, "prepare")
  /\ LET reuseSafe == reuseHint[p] /\ lastPublished = DescOf(p)
         hotReuse  == reuseSafe /\ call[p].wide
         skipCold  == /\ lowLatency \/ hotReuse
                      /\ Cardinality(Ranks) > 2
                      /\ call[p].kind = "for"
     IN  word' = [word EXCEPT ![p] = [Word(generation + 1) EXCEPT
                                        !.reuse = reuseSafe, !.skip = skipCold]]
  /\ generation' = generation + 1
  /\ activeJob' = DescOf(p)
  /\ todo' = Ranks
  /\ Go(p, "load")
  /\ UNCHANGED <<mailbox, mailboxDesc, claimedAt, coldMask, lastPublished,
                 gate, desc, call, reuseHint, drainVars, workVars, destroyer,
                 running>>

(* A full publication stores the descriptor pointer, then the word. *)
PublishDesc(p) ==
  /\ At(p, "publish")
  /\ ~word[p].reuse
  /\ mailboxDesc' = [mailboxDesc EXCEPT ![First(slots[p])] = DescOf(p)]
  /\ Go(p, "word")
  /\ UNCHANGED <<generation, activeJob, mailbox, claimedAt, coldMask,
                 lastPublished, gate, desc, call, reuseHint, word, drainVars,
                 workVars, destroyer, histVars>>

(* A reuse publication stores the word only; the last full one is noted. *)
PublishWord(p) ==
  /\ At(p, IF word[p].reuse THEN "publish" ELSE "word")
  /\ LET w == First(slots[p])
     IN  /\ mailbox' = [mailbox EXCEPT ![w] = word[p]]
         /\ IF slots[p] = {w}
            THEN /\ slots' = [slots EXCEPT ![p] = Workers]
                 /\ lastPublished' = IF word[p].reuse THEN lastPublished
                                                      ELSE DescOf(p)
                 /\ Go(p, "own")
            ELSE /\ slots' = [slots EXCEPT ![p] = @ \ {w}]
                 /\ UNCHANGED lastPublished
                 /\ Go(p, "publish")
  /\ UNCHANGED <<generation, activeJob, mailboxDesc, claimedAt, coldMask,
                 gate, desc, call, reuseHint, word, mask, cleared, workVars,
                 destroyer, histVars>>

(* A share is run by the producer: its own, or the rank it claimed. *)
Run(r, params) == /\ todo' = todo \ {r}
                  /\ running' = running \union {<<r, params>>}
Ran(r, params) == /\ running' = running \ {<<r, params>>}
                  /\ UNCHANGED todo

OwnStart(p) ==
  /\ At(p, "own")
  /\ Run(0, call[p])
  /\ Go(p, "ownRun")
  /\ UNCHANGED <<poolVars, desc, call, reuseHint, word, drainVars, workVars,
                 destroyer>>

OwnFinish(p) ==
  /\ At(p, "ownRun")
  /\ Ran(0, call[p])
  /\ Go(p, "join")
  /\ UNCHANGED <<poolVars, desc, call, reuseHint, word, drainVars, workVars,
                 destroyer>>

(* The join, one slot after the other. *)
NextSlotLate(p) ==      \* mutant: the test for the last slot comes late
  /\ slots' = [slots EXCEPT ![p] = @ \ {First(@)}]
  /\ Go(p, IF slots[p] = {} THEN "return" ELSE "join")

NextSlot(p) ==
  /\ slots' = [slots EXCEPT ![p] = @ \ {First(@)}]
  /\ Go(p, IF slots[p] = {First(slots[p])} THEN "return" ELSE "join")

JoinDone(p) ==
  /\ At(p, "join")
  /\ [mailbox[First(slots[p])] EXCEPT !.acked = FALSE]
       = [word[p] EXCEPT !.done = TRUE]
  /\ NextSlot(p)
  /\ UNCHANGED <<poolVars, desc, call, reuseHint, word, mask, cleared,
                 workVars, destroyer, histVars>>

(* tryClaimRank, by the producer and by the worker. *)
ClaimableTwice(w, g) == claimedAt[w] <= g    \* mutant: < turned into <=
Claimable(w, g) == claimedAt[w] < g
Claim(w, g) == claimedAt' = [claimedAt EXCEPT ![w] = g]

(* Cold collapse: the worker is late, the producer runs its rank. *)
JoinClaim(p) ==
  /\ At(p, "join")
  /\ ~word[p].skip /\ call[p].kind = "for"
  /\ LET w == First(slots[p])
     IN  /\ Claimable(w, word[p].gen)
         /\ Claim(w, word[p].gen)
         /\ Run(w, call[p])
  /\ Go(p, "rankRun")
  /\ UNCHANGED <<generation, activeJob, mailbox, mailboxDesc, coldMask,
                 lastPublished, gate, desc, call, reuseHint, word, drainVars,
                 workVars, destroyer>>

RankFinish(p) ==
  /\ At(p, "rankRun")
  /\ Ran(First(slots[p]), call[p])
  /\ Go(p, "stamp")
  /\ UNCHANGED <<poolVars, desc, call, reuseHint, word, drainVars, workVars,
                 destroyer>>

(* The stamp in the worker's place; lost if the worker stamped first.  A  *)
(* full publication is remembered in m_coldStampedMask, a reuse one is not. *)
NeverOwed(p) == FALSE           \* mutant: the fetch_or on the mask is missing
AckOwed(p) == ~word[p].reuse

ColdStamp(p) ==
  /\ At(p, "stamp")
  /\ LET w == First(slots[p])
     IN  IF mailbox[w] = word[p]
         THEN /\ mailbox' = [mailbox EXCEPT ![w].done = TRUE]
              /\ IF AckOwed(p) THEN Go(p, "mask") /\ UNCHANGED slots
                               ELSE NextSlot(p)
         ELSE UNCHANGED mailbox /\ NextSlot(p)
  /\ UNCHANGED <<generation, activeJob, mailboxDesc, claimedAt, coldMask,
                 lastPublished, gate, desc, call, reuseHint, word, mask,
                 cleared, workVars, destroyer, histVars>>

ColdMask(p) ==
  /\ At(p, "mask")
  /\ coldMask' = coldMask \union {First(slots[p])}
  /\ NextSlot(p)
  /\ UNCHANGED <<generation, activeJob, mailbox, mailboxDesc, claimedAt,
                 lastPublished, gate, desc, call, reuseHint, word, mask,
                 cleared, workVars, destroyer, histVars>>

(* The call returns: the lease ends, and with it a descriptor on the stack. *)
Return(p) ==
  /\ At(p, "return")
  /\ gate' = None
  /\ desc' = IF call[p].kind = "region"
             THEN [desc EXCEPT ![DescOf(p)] = None] ELSE desc
  /\ call' = [call EXCEPT ![p] = None]
  /\ word' = [word EXCEPT ![p] = Word(0)]
  /\ reuseHint' = [reuseHint EXCEPT ![p] = FALSE]
  /\ Go(p, "idle")
  /\ UNCHANGED <<generation, activeJob, mailbox, mailboxDesc, claimedAt,
                 coldMask, lastPublished, drainVars, workVars, destroyer,
                 histVars>>

-----------------------------------------------------------------------------
(***************************************************************************)
(* The worker: one turn of workerMainLoop.                                 *)
(***************************************************************************)
WGo(w, to) == wpc' = [wpc EXCEPT ![w] = to]

(* The phase moved past the one last served. *)
Observe(w) ==
  /\ wpc[w] = "idle"
  /\ mailbox[w].gen # seen[w]
  /\ ~(mailbox[w].down /\ activeJob = None)
  /\ obs' = [obs EXCEPT ![w] = mailbox[w]]
  /\ WGo(w, "fetch")
  /\ UNCHANGED <<poolVars, desc, prodVars, seen, reading, cache, destroyer,
                 histVars>>

(* Under the reuse bit a worker that has parameters keeps them. *)
FetchReuse(w) ==
  /\ wpc[w] = "fetch"
  /\ obs[w].reuse /\ cache[w] # None
  /\ WGo(w, "claim")
  /\ UNCHANGED <<poolVars, desc, prodVars, seen, obs, reading, cache,
                 destroyer, histVars>>

FetchDesc(w) ==
  /\ wpc[w] = "fetch"
  /\ ~(obs[w].reuse /\ cache[w] # None)
  /\ reading' = [reading EXCEPT ![w] = mailboxDesc[w]]
  /\ WGo(w, "reading")
  /\ UNCHANGED <<poolVars, desc, prodVars, seen, obs, cache, destroyer,
                 histVars>>

ReadDesc(w) ==
  /\ wpc[w] = "reading"
  /\ cache' = [cache EXCEPT ![w] = desc[reading[w]]]
  /\ reading' = [reading EXCEPT ![w] = None]
  /\ WGo(w, "claim")
  /\ UNCHANGED <<poolVars, desc, prodVars, seen, obs, destroyer, histVars>>

(* coldCollapseDispatch *)
Cold(w) == cache[w].kind = "for" /\ ~obs[w].skip

ClaimRank(w) ==
  /\ wpc[w] = "claim"
  /\ Cold(w)
  /\ Claimable(w, obs[w].gen)
  /\ Claim(w, obs[w].gen)
  /\ Run(w, cache[w])
  /\ WGo(w, "run")
  /\ UNCHANGED <<generation, activeJob, mailbox, mailboxDesc, coldMask,
                 lastPublished, gate, desc, prodVars, seen, obs, reading,
                 cache, destroyer>>

LoseRank(w) ==
  /\ wpc[w] = "claim"
  /\ Cold(w)
  /\ ~Claimable(w, obs[w].gen)
  /\ WGo(w, "stamp")
  /\ UNCHANGED <<poolVars, desc, prodVars, seen, obs, reading, cache,
                 destroyer, histVars>>

RunRank(w) ==
  /\ wpc[w] = "claim"
  /\ ~Cold(w)
  /\ Run(w, cache[w])
  /\ WGo(w, "run")
  /\ UNCHANGED <<poolVars, desc, prodVars, seen, obs, reading, cache,
                 destroyer>>

Finish(w) ==
  /\ wpc[w] = "run"
  /\ Ran(w, cache[w])
  /\ WGo(w, "stamp")
  /\ UNCHANGED <<poolVars, desc, prodVars, seen, obs, reading, cache,
                 destroyer>>

(* lastSeenMailbox moves to the word just served, never to a later one. *)
LastPublished(w) == mailbox[w].gen   \* mutant: skips an overtaking dispatch
LastServed(w) == obs[w].gen

Served(w) == /\ seen' = [seen EXCEPT ![w] = LastServed(w)]
             /\ obs' = [obs EXCEPT ![w] = Word(0)]
             /\ WGo(w, "idle")

NeverOvertaken(w) == FALSE      \* mutant: a plain store in place of the CAS
Overtaken(w) == mailbox[w] # obs[w]

StampColdDone(w) ==
  /\ wpc[w] = "stamp"
  /\ Cold(w)
  /\ ~Overtaken(w)
  /\ mailbox' = [mailbox EXCEPT ![w] = [obs[w] EXCEPT !.done = TRUE,
                                                      !.acked = TRUE]]
  /\ Served(w)
  /\ UNCHANGED <<generation, activeJob, mailboxDesc, claimedAt, coldMask,
                 lastPublished, gate, desc, prodVars, reading, cache,
                 destroyer, histVars>>

StampColdLost(w) ==
  /\ wpc[w] = "stamp"
  /\ Cold(w)
  /\ Overtaken(w)
  /\ WGo(w, "ack")
  /\ UNCHANGED <<poolVars, desc, prodVars, seen, obs, reading, cache,
                 destroyer, histVars>>

NoAck(w) == FALSE               \* mutant: the fetch_or is missing
LateAck(w) == TRUE

Acknowledge(w) ==
  /\ wpc[w] = "ack"
  /\ mailbox' = [mailbox EXCEPT ![w].acked = LateAck(w)]
  /\ Served(w)
  /\ UNCHANGED <<generation, activeJob, mailboxDesc, claimedAt, coldMask,
                 lastPublished, gate, desc, prodVars, reading, cache,
                 destroyer, histVars>>

StampDone(w) ==
  /\ wpc[w] = "stamp"
  /\ ~Cold(w)
  /\ mailbox' = [mailbox EXCEPT ![w] = [obs[w] EXCEPT !.done = TRUE]]
  /\ Served(w)
  /\ UNCHANGED <<generation, activeJob, mailboxDesc, claimedAt, coldMask,
                 lastPublished, gate, desc, prodVars, reading, cache,
                 destroyer, histVars>>

Exit(w) ==
  /\ wpc[w] = "idle"
  /\ mailbox[w].down /\ activeJob = None
  /\ WGo(w, "exited")
  /\ UNCHANGED <<poolVars, desc, prodVars, seen, obs, reading, cache,
                 destroyer, histVars>>

-----------------------------------------------------------------------------
(***************************************************************************)
(* shutdownAndJoin, by the destructor: no call is in flight (the caller's  *)
(* duty), but a worker whose rank was collapsed may still be busy with it. *)
(***************************************************************************)
Shutdown ==
  /\ destroyer.at = "no"
  /\ \A p \in Producers : At(p, "idle")
  /\ activeJob' = None
  /\ destroyer' = [destroyer EXCEPT !.at = "load", !.slots = Workers]
  /\ UNCHANGED <<generation, mailbox, mailboxDesc, claimedAt, coldMask,
                 lastPublished, gate, desc, prodVars, workVars, histVars>>

ShutdownLoad ==
  /\ destroyer.at = "load"
  /\ destroyer' = [destroyer EXCEPT !.at = "store",
                                    !.word = mailbox[First(destroyer.slots)]]
  /\ UNCHANGED <<poolVars, desc, prodVars, workVars, histVars>>

ShutdownStore ==
  /\ destroyer.at = "store"
  /\ LET w == First(destroyer.slots)
     IN  /\ mailbox' = [mailbox EXCEPT ![w] =
                          [destroyer.word EXCEPT !.gen = @ + 1, !.down = TRUE]]
         /\ destroyer' = [at    |-> IF destroyer.slots = {w} THEN "join"
                                                             ELSE "load",
                          slots |-> destroyer.slots \ {w},
                          word  |-> Word(0)]
  /\ UNCHANGED <<generation, activeJob, mailboxDesc, claimedAt, coldMask,
                 lastPublished, gate, desc, prodVars, workVars, histVars>>

ShutdownJoin ==
  /\ destroyer.at = "join"
  /\ \A w \in Workers : wpc[w] = "exited"
  /\ destroyer' = [destroyer EXCEPT !.at = "destroyed"]
  /\ UNCHANGED <<poolVars, desc, prodVars, workVars, histVars>>

(* The one legitimate end: the pool is gone. *)
Destroyed == destroyer.at = "destroyed" /\ UNCHANGED vars

-----------------------------------------------------------------------------
Drain(p)   == DrainLoad(p) \/ DrainProbe(p) \/ DrainClear(p)
Write(p)   == KeyMatches(p) \/ WriteBegin(p) \/ WriteEnd(p)
Publish(p) == \/ \E l \in LowLatency : Prepare(p, l)
              \/ PublishDesc(p) \/ PublishWord(p)
Own(p)     == OwnStart(p) \/ OwnFinish(p)
Join(p)    == \/ JoinDone(p) \/ JoinClaim(p) \/ RankFinish(p)
              \/ ColdStamp(p) \/ ColdMask(p)
InCall(p)  == \/ Drain(p) \/ Write(p) \/ ElsewhereEnd(p) \/ Lease(p)
              \/ Publish(p) \/ Own(p) \/ Join(p) \/ Return(p)

Fetch(w)  == FetchReuse(w) \/ FetchDesc(w) \/ ReadDesc(w)
Share(w)  == ClaimRank(w) \/ LoseRank(w) \/ RunRank(w) \/ Finish(w)
Stamp(w)  == \/ StampColdDone(w) \/ StampColdLost(w)
             \/ Acknowledge(w) \/ StampDone(w)
Worker(w) == Observe(w) \/ Fetch(w) \/ Share(w) \/ Stamp(w) \/ Exit(w)

Destroy == ShutdownLoad \/ ShutdownStore \/ ShutdownJoin

Call(p) == \/ \E c \in CallsOf[p] : Begin(p, c)
           \/ \E c \in Elsewhere[p] : ElsewhereBegin(p, c)

Next == \/ \E p \in Producers : Call(p) \/ InCall(p)
        \/ \E w \in Workers : Worker(w)
        \/ Shutdown \/ Destroy \/ Destroyed

(* A thread that can take a step takes one: the operating system runs     *)
(* every thread.  Nobody has to call the pool, or to destroy it.           *)
Fairness == /\ \A p \in Producers : WF_vars(InCall(p))
            /\ \A w \in Workers : WF_vars(Worker(w))
            /\ WF_vars(Destroy)

Spec == Init /\ [][Next]_vars
FairSpec == Spec /\ Fairness

-----------------------------------------------------------------------------
(***************************************************************************)
(* Properties.                                                             *)
(***************************************************************************)
PCs == Entering \union {"idle", "elsewhere", "publish", "word", "own", "ownRun",
                        "join", "rankRun", "stamp", "mask", "return"}
WPCs == {"idle", "fetch", "reading", "claim", "run", "stamp", "ack", "exited"}

PerSlot == {"probe", "publish", "word", "own", "ownRun", "join", "rankRun",
            "stamp", "mask"}

(* The type invariant of the protocol's state: the types, and that every   *)
(* loop over the slots is entered with a slot left to handle.              *)
TypeOK ==
  /\ generation \in Nat
  /\ activeJob \in Descs \union {None}
  /\ mailbox \in [Workers -> Mailbox]
  /\ mailboxDesc \in [Workers -> Descs \union {None}]
  /\ claimedAt \in [Workers -> Nat]
  /\ coldMask \subseteq Workers
  /\ lastPublished \in Descs \union {None}
  /\ gate \in Producers \union {None}
  /\ desc \in [Descs -> Calls \union {None}]
  /\ pc \in [Producers -> PCs]
  /\ call \in [Producers -> Calls \union {None}]
  /\ reuseHint \in [Producers -> BOOLEAN]
  /\ word \in [Producers -> Mailbox]
  /\ mask \in [Producers -> SUBSET Workers]
  /\ cleared \in [Producers -> SUBSET Workers]
  /\ slots \in [Producers -> SUBSET Workers]
  /\ wpc \in [Workers -> WPCs]
  /\ seen \in [Workers -> Nat]
  /\ obs \in [Workers -> Mailbox]
  /\ reading \in [Workers -> Descs \union {None}]
  /\ cache \in [Workers -> Calls \union {None}]
  /\ destroyer \in [at : {"no", "load", "store", "join", "destroyed"},
                    slots : SUBSET Workers, word : Mailbox]
  /\ todo \subseteq Ranks
  /\ running \subseteq Ranks \X (Calls \union {None})
  /\ \A p \in Producers : pc[p] \in PerSlot => slots[p] # {}

(* The calls that are open, from the generation number to the return. *)
InRegion(p) == Gated(p) /\ pc[p] \notin {"write", "writing", "prepare"}
Promise == INSTANCE Region WITH
             region <- {call[p] : p \in {q \in Producers : InRegion(q)}}

(* The protocol keeps the promise of a parallel region: every rank's share *)
(* runs once, whoever runs it, with the parameters of the call that is     *)
(* open, and the call returns only after the last share.  Two claims of    *)
(* one rank, a worker acting on cached parameters of another call, a share *)
(* outside every call or a join satisfied too early all break it.          *)
ParallelRegion == Promise!Spec

(* A rank that is running runs the call that is open: parameters taken     *)
(* from a worker's cache under the reuse bit are those of the dispatch.    *)
CachedIsCurrent ==
  \A r \in running : \E p \in Producers : InRegion(p) /\ r[2] = call[p]

(* A descriptor is never written while a worker reads it, and a worker     *)
(* never reads the descriptor of a stack frame that is gone, although a    *)
(* call returns without waiting for the workers it collapsed: the drain of *)
(* the next call stands between them.                                      *)
DescNotTorn ==
  \A w \in Workers : wpc[w] = "reading" =>
    /\ reading[w] \in Descs
    /\ desc[reading[w]] # None
    /\ \A p \in Producers : pc[p] \in {"writing", "elsewhere"}
                              => DescOf(p) # reading[w]

(* A stamp, an acknowledgement or the shutdown never puts back the word of *)
(* an earlier dispatch over one already published to that worker.          *)
MailboxForward ==
  [][\A w \in Workers : mailbox'[w].gen >= mailbox[w].gen]_vars

(* A producer's stamp is not forgotten before the worker it stood in for   *)
(* has acknowledged the dispatch, although the mask is drained without the *)
(* gate.                                                                   *)
StampNotLost ==
  [][\A w \in coldMask : mailbox[w].acked \/ w \in coldMask']_vars

(* A call that has begun returns: no drain waits for an acknowledgement    *)
(* that cannot come and no join for a stamp that was overwritten.          *)
CallsReturn == \A p \in Producers : ~At(p, "idle") ~> At(p, "idle")

(* A destructor that has begun joins every worker, the ones still busy     *)
(* with a collapsed share included.                                        *)
ShutdownCompletes == destroyer.at # "no" ~> destroyer.at = "destroyed"
=============================================================================
