---------------------------- MODULE DispatchProofs ---------------------------
(***************************************************************************)
(* Proofs about Dispatch, for any number of workers, producers and calls.  *)
(*                                                                         *)
(* TypeOK is not inductive by itself: reading a descriptor yields a call   *)
(* only if the worker holds a descriptor, which needs the whole path from  *)
(* the publication of a pointer to its use.  IInv adds that path.          *)
(*                                                                         *)
(* What holds of a call beyond that depends on which calls are made beside *)
(* each other (README, section 4) and is checked on instances.             *)
(***************************************************************************)
EXTENDS Dispatch, TLAPS, FiniteSetTheorems, WellFoundedInduction

(* Where a producer can be only while it holds the dispatch gate, and      *)
(* where it can be with and without it.                                    *)
UnderGate == {"prepare", "publish", "word", "own", "ownRun", "join",
              "rankRun", "stamp", "mask", "return"}
EitherWay == {"load", "probe", "clear", "write", "writing"}

(* A producer past Prepare. *)
Numbered(p) == \/ pc[p] \in UnderGate \ {"prepare"}
               \/ gate = p /\ pc[p] \in {"load", "probe", "clear"}

GateInv ==
  \A p \in Producers :
    /\ pc[p] # "idle" => call[p] \in Calls
    /\ pc[p] \in UnderGate => gate = p
    /\ gate = p => pc[p] \in UnderGate \union EitherWay
    /\ ~word[p].down
    /\ Numbered(p) => word[p].gen > 0

ShutInv ==
  /\ destroyer.at # "no" =>
       activeJob = None /\ \A p \in Producers : pc[p] = "idle"
  /\ destroyer.at \in {"load", "store"} => destroyer.slots # {}
  /\ \A w \in Workers : mailbox[w].down => destroyer.at # "no"

(* A worker that is serving a dispatch. *)
Busy(w) == wpc[w] \notin {"idle", "exited"}

(* The descriptor pointers: one is behind every phase a worker can serve. *)
WorkerPtrInv ==
  \A w \in Workers :
    /\ mailbox[w].gen > 0 /\ ~mailbox[w].down => mailboxDesc[w] \in Descs
    /\ mailbox[w].gen = 0 => seen[w] = 0 /\ ~Busy(w)
    /\ Busy(w) => /\ mailboxDesc[w] \in Descs
                  /\ obs[w].gen > 0
                  /\ ~obs[w].down
    /\ wpc[w] = "reading" => reading[w] \in Descs

ProducerPtrInv ==
  /\ lastPublished # None => \A w \in Workers : mailboxDesc[w] \in Descs
  /\ \A p \in Producers :
       /\ Numbered(p) /\ word[p].reuse => lastPublished # None
       /\ pc[p] = "word" => /\ ~word[p].reuse
                            /\ mailboxDesc[First(slots[p])] \in Descs
       /\ pc[p] \in {"publish", "word"} /\ ~word[p].reuse =>
            \A w \in Workers \ slots[p] : mailboxDesc[w] \in Descs

IInv == TypeOK /\ GateInv /\ ShutInv /\ WorkerPtrInv /\ ProducerPtrInv

-----------------------------------------------------------------------------
(* The slot a loop handles next is one of the slots it has left. *)
LEMMA FirstIn ==
  ASSUME NEW S, S \subseteq Workers, S # {}
  PROVE  First(S) \in S
<1> DEFINE Below(s) == {t \in S : t <= s}
           U == {Below(s) : s \in S}
<1>1. S \subseteq Nat /\ IsFiniteSet(S)
  BY FS_Subset, DispatchAssumption DEF DispatchAssumption
<1>2. U \subseteq FiniteSubsetsOf(S) /\ U # {}
  <2>1. \A s \in S : Below(s) \in SUBSET S
    OBVIOUS
  <2>2. \A s \in S : IsFiniteSet(Below(s))
    BY <2>1, <1>1, FS_Subset
  <2> QED
    BY <2>1, <2>2 DEF FiniteSubsetsOf
<1>3. PICK x \in U : \A y \in U : ~(<<y, x>> \in StrictSubsetOrdering(S))
  BY <1>1, <1>2, FS_StrictSubsetOrderingWellFounded, WFMin
<1>4. PICK s \in S : x = Below(s)
  BY DEF U
<1>5. \A t \in S : s <= t
  <2> SUFFICES ASSUME NEW t \in S, t < s  PROVE FALSE
    BY <1>1
  <2>1. /\ s <= s /\ ~(s <= t)
        /\ \A u \in S : u <= t => u <= s
    BY <1>1
  <2>2. <<Below(t), x>> \in StrictSubsetOrdering(S)
    BY <2>1, <1>4, ZenonT(40) DEF StrictSubsetOrdering
  <2> QED
    BY <2>2, <1>3
<1> HIDE DEF Below, U
<1> QED
  BY <1>5 DEF First

(* The words a mailbox can hold. *)
LEMMA WordType ==
  /\ \A g \in Nat : Word(g) \in Mailbox
  /\ \A m \in Mailbox :
       /\ m.gen \in Nat
       /\ [m EXCEPT !.acked = TRUE] \in Mailbox
       /\ [m EXCEPT !.done = TRUE] \in Mailbox
       /\ [m EXCEPT !.done = TRUE, !.acked = TRUE] \in Mailbox
       /\ [m EXCEPT !.gen = @ + 1, !.down = TRUE] \in Mailbox
       /\ \A b, c \in BOOLEAN : [m EXCEPT !.reuse = b, !.skip = c] \in Mailbox
<1>1. \A g \in Nat : Word(g) \in Mailbox
  BY DEF Word, Mailbox
<1>2. ASSUME NEW m \in Mailbox
      PROVE  /\ m.gen \in Nat
             /\ [m EXCEPT !.acked = TRUE] \in Mailbox
             /\ [m EXCEPT !.done = TRUE] \in Mailbox
             /\ [m EXCEPT !.done = TRUE, !.acked = TRUE] \in Mailbox
  BY DEF Mailbox
<1>3. ASSUME NEW m \in Mailbox
      PROVE  [m EXCEPT !.gen = @ + 1, !.down = TRUE] \in Mailbox
  <2>1. m.gen + 1 \in Nat
    BY DEF Mailbox
  <2> QED
    BY <2>1 DEF Mailbox
<1>4. ASSUME NEW m \in Mailbox, NEW b \in BOOLEAN, NEW c \in BOOLEAN
      PROVE  [m EXCEPT !.reuse = b, !.skip = c] \in Mailbox
  BY DEF Mailbox
<1> QED
  BY <1>1, <1>2, <1>3, <1>4

(* The fields of a call. *)
LEMMA CallType ==
  \A c \in Calls : /\ c.kind \in Kinds
                  /\ c.reusable \in BOOLEAN /\ c.wide \in BOOLEAN
BY DispatchAssumption DEF DispatchAssumption

(* ... in particular for a producer that is inside such a loop. *)
LEMMA SlotType ==
  ASSUME TypeOK, NEW p \in Producers, pc[p] \in PerSlot
  PROVE  First(slots[p]) \in Workers /\ First(slots[p]) \in slots[p]
BY FirstIn DEF TypeOK

(* A share that starts or ends keeps the types of the history variables. *)
LEMMA RunType ==
  ASSUME TypeOK, NEW r \in Ranks, NEW c \in Calls \union {None},
         Run(r, c) \/ Ran(r, c)
  PROVE  /\ todo' \subseteq Ranks
         /\ running' \subseteq Ranks \X (Calls \union {None})
BY DEF TypeOK, Run, Ran

(* The join moves on to a slot it has not joined, if there is one. *)
LEMMA NextSlotType ==
  ASSUME TypeOK, NEW p \in Producers, pc[p] \in PerSlot, NextSlot(p)
  PROVE  /\ slots' \in [Producers -> SUBSET Workers]
         /\ pc' \in [Producers -> PCs]
         /\ \A q \in Producers : pc'[q] \in PerSlot => slots'[q] # {}
<1>1. slots' \in [Producers -> SUBSET Workers] /\ pc' \in [Producers -> PCs]
  BY DEF TypeOK, NextSlot, Go, PCs
<1>2. ASSUME NEW q \in Producers, q # p, pc'[q] \in PerSlot
      PROVE  slots'[q] # {}
  BY <1>2 DEF TypeOK, NextSlot, Go
<1>3. ASSUME pc'[p] \in PerSlot  PROVE slots'[p] # {}
  <2>1. slots'[p] = slots[p] \ {First(slots[p])}
    BY DEF TypeOK, NextSlot
  <2>2. slots[p] # {First(slots[p])}
    BY <1>3 DEF TypeOK, NextSlot, Go, PerSlot
  <2> QED
    BY <2>1, <2>2 DEF TypeOK
<1> QED
  BY <1>1, <1>2, <1>3

(* A producer with no slot left to publish or join has gone round all.     *)
LEMMA WorkersNotEmpty == Workers # {}
BY DispatchAssumption DEF DispatchAssumption

(* The ranks: slot 0 and the workers. *)
LEMMA RankTypes == 0 \in Ranks /\ Workers \subseteq Ranks
BY DEF Ranks

(* The null pointer is no producer, no descriptor and no call. *)
LEMMA NoneApart ==
  None \notin Producers /\ None \notin Descs /\ None \notin Calls
BY DispatchAssumption DEF DispatchAssumption, Descs

(* Setting the reuse and skip bits of a word. *)
LEMMA FlagType ==
  \A m \in Mailbox, b, c \in BOOLEAN :
    LET x == [m EXCEPT !.reuse = b, !.skip = c]
    IN  x \in Mailbox /\ x.gen = m.gen /\ x.reuse = b /\ x.down = m.down
BY DEF Mailbox

(* The word a dispatch publishes is new, is not the shutdown word, and has *)
(* the reuse bit only if the descriptor was the last one published.        *)
LEMMA PreparedWord ==
  ASSUME TypeOK, NEW p \in Producers, NEW l \in BOOLEAN, Prepare(p, l)
  PROVE  /\ word' \in [Producers -> Mailbox]
         /\ \A q \in Producers \ {p} : word'[q] = word[q]
         /\ word'[p].gen = generation + 1
         /\ ~word'[p].down
         /\ word'[p].reuse => lastPublished = DescOf(p)
<1> DEFINE r == reuseHint[p] /\ lastPublished = DescOf(p)
<1>1. PICK c \in BOOLEAN :
        word' = [word EXCEPT ![p] = [Word(generation + 1) EXCEPT
                                       !.reuse = r, !.skip = c]]
  BY Zenon DEF Prepare
<1>2. r \in BOOLEAN /\ (r => lastPublished = DescOf(p))
  BY DEF TypeOK
<1> HIDE DEF r
<1>3. /\ Word(generation + 1) \in Mailbox
      /\ Word(generation + 1).gen = generation + 1
      /\ ~Word(generation + 1).down
  <2>1. generation + 1 \in Nat
    BY DEF TypeOK
  <2>2. \A g \in Nat : Word(g) \in Mailbox /\ Word(g).gen = g /\ ~Word(g).down
    BY DEF Word, Mailbox
  <2> QED
    BY <2>1, <2>2
<1> DEFINE x == [Word(generation + 1) EXCEPT !.reuse = r, !.skip = c]
<1>4. /\ x \in Mailbox /\ x.gen = generation + 1
      /\ x.reuse = r /\ ~x.down
  <2> DEFINE m == Word(generation + 1)
  <2>1. m \in Mailbox /\ m.gen = generation + 1 /\ ~m.down
    BY <1>3
  <2>2. c \in BOOLEAN /\ r \in BOOLEAN
    BY <1>2
  <2> HIDE DEF m
  <2>3. LET y == [m EXCEPT !.reuse = r, !.skip = c]
        IN  y \in Mailbox /\ y.gen = m.gen /\ y.reuse = r /\ y.down = m.down
    BY <2>1, <2>2, FlagType, ZenonT(40)
  <2> QED
    BY <2>1, <2>3 DEF m
<1>5. word' = [word EXCEPT ![p] = x]
  BY <1>1
<1> HIDE DEF x
<1> QED
  BY <1>2, <1>4, <1>5 DEF TypeOK

(* The producer's stamp leaves the phase and the shutdown bit alone. *)
LEMMA ColdStampKeeps ==
  ASSUME TypeOK, NEW p \in Producers, ColdStamp(p)
  PROVE  \A v \in Workers : /\ mailbox'[v].gen = mailbox[v].gen
                            /\ mailbox'[v].down = mailbox[v].down
<1> DEFINE w == First(slots[p])
           m0 == [mailbox[w] EXCEPT !.done = TRUE]
<1>1. w \in Workers
  BY SlotType DEF ColdStamp, At, PerSlot
<1>2. mailbox' = [mailbox EXCEPT ![w] = m0] \/ mailbox' = mailbox
  BY <1>1 DEF ColdStamp, TypeOK
<1>3. m0.gen = mailbox[w].gen /\ m0.down = mailbox[w].down
  BY <1>1 DEF TypeOK, Mailbox
<1> HIDE DEF w, m0
<1> QED
  BY <1>1, <1>2, <1>3 DEF TypeOK

(* What the steps of a producer, of a worker and of the destructor leave   *)
(* alone.                                                                  *)
LEMMA ProducerFrame ==
  ASSUME NEW p \in Producers, Call(p) \/ InCall(p)
  PROVE  UNCHANGED <<workVars, destroyer>>
<1>1. CASE Call(p)
  BY <1>1 DEF Call, Begin, ElsewhereBegin, workVars
<1>2. CASE Drain(p) \/ Write(p) \/ ElsewhereEnd(p) \/ Lease(p)
  BY <1>2 DEF Drain, DrainLoad, DrainProbe, DrainClear, Write, KeyMatches,
              WriteBegin, WriteEnd, ElsewhereEnd, Lease, workVars
<1>3. CASE Publish(p) \/ Own(p)
  BY <1>3 DEF Publish, Prepare, PublishDesc, PublishWord, Own, OwnStart,
              OwnFinish, workVars
<1>4. CASE Join(p) \/ Return(p)
  BY <1>4 DEF Join, JoinDone, JoinClaim, RankFinish, ColdStamp, ColdMask,
              Return, workVars
<1> QED
  BY <1>1, <1>2, <1>3, <1>4 DEF InCall

(* ... a worker leaves the producers, the generation and the gate alone, *)
LEMMA WorkerFrame ==
  ASSUME TypeOK, NEW w \in Workers, Worker(w)
  PROVE  /\ UNCHANGED <<generation, activeJob, mailboxDesc, coldMask,
                        lastPublished, gate, desc, prodVars, destroyer>>
         /\ \/ StampColdDone(w) \/ Acknowledge(w) \/ StampDone(w)
            \/ UNCHANGED mailbox
         /\ \A v \in Workers \ {w} : mailbox'[v] = mailbox[v]
<1>1. CASE Observe(w) \/ Fetch(w) \/ Exit(w)
  BY <1>1 DEF Observe, Fetch, FetchReuse, FetchDesc, ReadDesc, Exit, poolVars
<1>2. CASE Share(w)
  BY <1>2 DEF Share, ClaimRank, LoseRank, RunRank, Finish, poolVars
<1>3. CASE Stamp(w)
  BY <1>3 DEF Stamp, StampColdDone, StampColdLost, Acknowledge, LateAck,
              StampDone,
              poolVars, TypeOK
<1> QED
  BY <1>1, <1>2, <1>3 DEF Worker

(* The steps of a call that write a mailbox or a descriptor pointer. *)
LEMMA MailboxFrame ==
  ASSUME NEW p \in Producers, InCall(p)
  PROVE  /\ PublishWord(p) \/ ColdStamp(p) \/ UNCHANGED mailbox
         /\ PublishDesc(p) \/ UNCHANGED mailboxDesc
         /\ PublishWord(p) \/ UNCHANGED lastPublished
<1>1. CASE Drain(p) \/ Write(p) \/ ElsewhereEnd(p) \/ Lease(p)
  BY <1>1 DEF Drain, DrainLoad, DrainProbe, DrainClear, Write, KeyMatches,
              WriteBegin, WriteEnd, ElsewhereEnd, Lease, poolVars
<1>2. CASE Publish(p) \/ Own(p)
  BY <1>2 DEF Publish, Prepare, PublishDesc, PublishWord, Own, OwnStart,
              OwnFinish, poolVars
<1>3. CASE Join(p) \/ Return(p)
  BY <1>3 DEF Join, JoinDone, JoinClaim, RankFinish, ColdStamp, ColdMask,
              Return, poolVars
<1> QED
  BY <1>1, <1>2, <1>3 DEF InCall

(* The destructor writes mailboxes and nothing else of the protocol. *)
LEMMA DestroyFrame ==
  ASSUME Shutdown \/ Destroy \/ Destroyed
  PROVE  UNCHANGED <<generation, mailboxDesc, claimedAt, coldMask,
                     lastPublished, gate, desc, prodVars, workVars, histVars>>
BY DEF Shutdown, Destroy, ShutdownLoad, ShutdownStore, ShutdownJoin,
       Destroyed, vars, poolVars

(* A call that has begun has a descriptor. *)
LEMMA DescOfType ==
  ASSUME IInv, NEW p \in Producers, pc[p] # "idle"
  PROVE  DescOf(p) \in Descs
BY CallType DEF IInv, GateInv, DescOf, Descs

(* What a full publication points a worker at is a descriptor. *)
LEMMA PublishedDesc ==
  ASSUME IInv, NEW p \in Producers, PublishDesc(p)
  PROVE  /\ First(slots[p]) \in Workers
         /\ mailboxDesc' = [mailboxDesc EXCEPT ![First(slots[p])] = DescOf(p)]
         /\ DescOf(p) \in Descs
         /\ \A v \in Workers : \/ mailboxDesc'[v] \in Descs
                               \/ mailboxDesc'[v] = mailboxDesc[v]
<1>1. First(slots[p]) \in Workers
  BY SlotType DEF IInv, PublishDesc, At, PerSlot
<1>2. DescOf(p) \in Descs
  BY DescOfType DEF PublishDesc, At
<1>3. mailboxDesc' = [mailboxDesc EXCEPT ![First(slots[p])] = DescOf(p)]
  BY DEF PublishDesc
<1> QED
  BY <1>1, <1>2, <1>3 DEF IInv, TypeOK

(* Every step keeps the types. *)
LEMMA TypeStep ==
  ASSUME IInv, [Next]_vars
  PROVE  TypeOK'
<1>1. ASSUME NEW p \in Producers, NEW c \in Calls, Begin(p, c)  PROVE TypeOK'
  <2>1. PICK to \in {"load", "write", "lease"} : pc' = [pc EXCEPT ![p] = to]
    BY <1>1, CallType DEF Begin, Go, Kinds
  <2>2. call' = [call EXCEPT ![p] = c]
    BY <1>1 DEF Begin
  <2> QED
    BY <1>1, <2>1, <2>2 DEF Begin, poolVars, drainVars, workVars, histVars,
                            IInv, TypeOK, PCs, PerSlot, Entering
<1>2. ASSUME NEW p \in Producers, DrainLoad(p)  PROVE TypeOK'
  <2>0. /\ slots \in [Producers -> SUBSET Workers] /\ pc \in [Producers -> PCs]
        /\ coldMask \subseteq Workers
    BY DEF IInv, TypeOK
  <2>1. /\ slots' \in [Producers -> SUBSET Workers]
        /\ pc' \in [Producers -> PCs]
        /\ pc'[p] \in {"publish", "write", "probe"}
        /\ pc'[p] = "publish" => slots'[p] = Workers
        /\ pc'[p] = "probe" => slots'[p] = coldMask /\ coldMask # {}
    <3>1. CASE coldMask = {}
      BY <1>2, <2>0, <3>1 DEF DrainLoad, Go, AfterDrain, PCs, Entering
    <3>2. CASE coldMask # {}
      BY <1>2, <2>0, <3>2 DEF DrainLoad, Go, PCs, Entering
    <3> QED
      BY <3>1, <3>2
  <2>2. \A q \in Producers \ {p} : pc'[q] = pc[q] /\ slots'[q] = slots[q]
    BY <1>2 DEF DrainLoad, Go, IInv, TypeOK
  <2>3. \A q \in Producers : pc'[q] \in PerSlot => slots'[q] # {}
    BY <2>1, <2>2, WorkersNotEmpty DEF IInv, TypeOK, PerSlot
  <2> QED
    BY <1>2, <2>1, <2>3 DEF DrainLoad, poolVars, workVars, histVars, IInv,
                            TypeOK
<1>3. ASSUME NEW p \in Producers, DrainProbe(p)  PROVE TypeOK'
  <2>1. First(slots[p]) \in slots[p] /\ First(slots[p]) \in Workers
    BY <1>3, SlotType DEF DrainProbe, At, PerSlot, IInv
  <2>2. /\ slots' \in [Producers -> SUBSET Workers]
        /\ cleared' \in [Producers -> SUBSET Workers]
    BY <1>3, <2>1 DEF DrainProbe, IInv, TypeOK
  <2>3. CASE slots[p] = {First(slots[p])}
    BY <1>3, <2>2, <2>3, SMTT(30) DEF DrainProbe, At, Go, poolVars, workVars, histVars,
                            IInv, TypeOK, PCs, PerSlot, Entering
  <2>4. CASE slots[p] # {First(slots[p])}
    BY <1>3, <2>1, <2>2, <2>4 DEF DrainProbe, At, poolVars, workVars, histVars,
                                  IInv, TypeOK
  <2> QED
    BY <2>3, <2>4
<1>4. ASSUME NEW p \in Producers, DrainClear(p)  PROVE TypeOK'
  <2>1. coldMask' \subseteq Workers
    BY <1>4 DEF DrainClear, IInv, TypeOK
  <2>2. /\ slots' \in [Producers -> SUBSET Workers]
        /\ pc' \in [Producers -> PCs]
        /\ pc'[p] \in {"publish", "write", "load"}
        /\ pc'[p] = "publish" => slots'[p] = Workers
    <3>1. CASE cleared[p] = mask[p]
      BY <1>4, <3>1 DEF DrainClear, Go, AfterDrain, IInv, TypeOK, PCs, Entering
    <3>2. CASE cleared[p] # mask[p]
      BY <1>4, <3>2 DEF DrainClear, Go, IInv, TypeOK, PCs, Entering
    <3> QED
      BY <3>1, <3>2
  <2>3. \A q \in Producers \ {p} : pc'[q] = pc[q] /\ slots'[q] = slots[q]
    BY <1>4 DEF DrainClear, Go, IInv, TypeOK
  <2>4. \A q \in Producers : pc'[q] \in PerSlot => slots'[q] # {}
    BY <2>2, <2>3, WorkersNotEmpty DEF IInv, TypeOK, PerSlot
  <2> QED
    BY <1>4, <2>1, <2>2, <2>4 DEF DrainClear, workVars, histVars, IInv, TypeOK
<1>5. ASSUME NEW p \in Producers, KeyMatches(p)  PROVE TypeOK'
  BY <1>5, WordType, CallType, SlotType
  DEF KeyMatches, At, Go, DescOf, AfterWrite, Gated, poolVars, drainVars,
      workVars, histVars, IInv, TypeOK, GateInv, ShutInv, WorkerPtrInv, Busy,
      PCs, WPCs, PerSlot, Entering, Ranks, Descs
<1>6. ASSUME NEW p \in Producers, WriteBegin(p)  PROVE TypeOK'
  BY <1>6, WordType, CallType, SlotType
  DEF WriteBegin, At, Go, DescOf, poolVars, drainVars, workVars, histVars,
      IInv, TypeOK, GateInv, ShutInv, WorkerPtrInv, Busy, PCs, WPCs, PerSlot,
      Entering, Ranks, Descs
<1>7. ASSUME NEW p \in Producers, WriteEnd(p)  PROVE TypeOK'
  BY <1>7, WordType, CallType, SlotType
  DEF WriteEnd, At, Go, DescOf, AfterWrite, Gated, poolVars, drainVars,
      workVars, histVars, IInv, TypeOK, GateInv, ShutInv, WorkerPtrInv, Busy,
      PCs, WPCs, PerSlot, Entering, Ranks, Descs
<1>8. ASSUME NEW p \in Producers, ElsewhereEnd(p)  PROVE TypeOK'
  BY <1>8, WordType, CallType, SlotType
  DEF ElsewhereEnd, At, Go, DescOf, poolVars, drainVars, workVars, histVars,
      IInv, TypeOK, GateInv, ShutInv, WorkerPtrInv, Busy, PCs, WPCs, PerSlot,
      Entering, Ranks, Descs
<1>9. ASSUME NEW p \in Producers, NEW c \in Calls, ElsewhereBegin(p, c)
      PROVE  TypeOK'
  <2>1. pc' = [pc EXCEPT ![p] = "elsewhere"] /\ call' = [call EXCEPT ![p] = c]
    BY <1>9 DEF ElsewhereBegin, Go
  <2> QED
    BY <1>9, <2>1 DEF ElsewhereBegin, poolVars, drainVars, workVars, histVars,
                      IInv, TypeOK, PCs, PerSlot
<1>10. ASSUME NEW p \in Producers, Lease(p)  PROVE TypeOK'
  BY <1>10, WordType, ZenonT(40) DEF Lease, At, Go, drainVars, workVars, histVars, IInv,
                         TypeOK, GateInv, ShutInv, WorkerPtrInv, Busy, PCs,
                         WPCs, PerSlot, Entering, Ranks, Descs
<1>11. ASSUME NEW p \in Producers, NEW l \in BOOLEAN, Prepare(p, l)
       PROVE  TypeOK'
  <2>1. PICK b \in BOOLEAN, c \in BOOLEAN :
          word' = [word EXCEPT ![p] = [Word(generation + 1) EXCEPT
                                         !.reuse = b, !.skip = c]]
    BY <1>11, Zenon DEF Prepare
  <2>2. Word(generation + 1) \in Mailbox /\ generation' \in Nat
    <3>1. generation + 1 \in Nat /\ generation' = generation + 1
      BY <1>11, SMTT(30) DEF Prepare, IInv, TypeOK
    <3> QED
      BY <3>1, WordType
  <2>3. word' \in [Producers -> Mailbox]
    BY <2>1, <2>2, WordType DEF IInv, TypeOK
  <2>4. activeJob' \in Descs
    BY <1>11, CallType DEF Prepare, At, DescOf, Descs, IInv, TypeOK, GateInv
  <2> QED
    BY <1>11, <2>2, <2>3, <2>4 DEF Prepare, At, Go, drainVars, workVars,
                                  IInv, TypeOK, PCs, PerSlot, Entering
<1>12. ASSUME NEW p \in Producers, PublishDesc(p)  PROVE TypeOK'
  BY <1>12, WordType, CallType, SlotType
  DEF PublishDesc, At, Go, DescOf, drainVars, workVars, histVars, IInv, TypeOK,
      GateInv, ShutInv, WorkerPtrInv, Busy, PCs, WPCs, PerSlot, Entering,
      Ranks, Descs
<1>13. ASSUME NEW p \in Producers, PublishWord(p)  PROVE TypeOK'
  <2> DEFINE w == First(slots[p])
  <2>0. w \in slots[p] /\ w \in Workers
    BY <1>13, SlotType DEF PublishWord, At, PerSlot, IInv
  <2>a. slots \in [Producers -> SUBSET Workers] /\ pc \in [Producers -> PCs]
    BY DEF IInv, TypeOK
  <2>1. mailbox' \in [Workers -> Mailbox]
    BY <1>13, <2>0 DEF PublishWord, IInv, TypeOK
  <2>2. lastPublished' \in Descs \union {None}
    BY <1>13, CallType DEF PublishWord, IInv, TypeOK, GateInv, At, DescOf,
                           Descs
  <2>3. CASE slots[p] = {w}
    <3>1. /\ slots' = [slots EXCEPT ![p] = Workers]
          /\ pc' = [pc EXCEPT ![p] = "own"]
      BY <1>13, <2>3 DEF PublishWord, Go
    <3>2. pc' \in [Producers -> PCs] /\ slots' \in [Producers -> SUBSET Workers]
      BY <2>a, <3>1 DEF PCs
    <3>3. \A q \in Producers : pc'[q] \in PerSlot => slots'[q] # {}
      BY <2>a, <3>1, WorkersNotEmpty DEF IInv, TypeOK, PerSlot
    <3> QED
      BY <1>13, <2>1, <2>2, <3>2, <3>3 DEF PublishWord, workVars, histVars,
                                           IInv, TypeOK
  <2>4. CASE slots[p] # {w}
    <3>1. /\ slots' = [slots EXCEPT ![p] = @ \ {w}]
          /\ pc' = [pc EXCEPT ![p] = "publish"]
      BY <1>13, <2>4 DEF PublishWord, Go
    <3>2. pc' \in [Producers -> PCs] /\ slots' \in [Producers -> SUBSET Workers]
      BY <2>a, <3>1 DEF PCs
    <3>3. \A q \in Producers : pc'[q] \in PerSlot => slots'[q] # {}
      BY <2>a, <2>0, <2>4, <3>1 DEF IInv, TypeOK, PerSlot
    <3> QED
      BY <1>13, <2>1, <2>2, <3>2, <3>3 DEF PublishWord, workVars, histVars,
                                           IInv, TypeOK
  <2> QED
    BY <2>3, <2>4
<1>14. ASSUME NEW p \in Producers, OwnStart(p)  PROVE TypeOK'
  BY <1>14, RunType, RankTypes
  DEF OwnStart, At, Go, poolVars, drainVars, workVars, IInv, TypeOK, GateInv,
      ShutInv, WorkerPtrInv, Busy, PCs, WPCs, PerSlot, Entering, Ranks, Descs
<1>15. ASSUME NEW p \in Producers, OwnFinish(p)  PROVE TypeOK'
  <2>1. /\ running' \subseteq Ranks \X (Calls \union {None})
        /\ todo' \subseteq Ranks
    BY <1>15, RunType, RankTypes DEF OwnFinish, IInv, TypeOK
  <2> QED
    BY <1>15, <2>1 DEF OwnFinish, At, Go, poolVars, drainVars, workVars,
                       IInv, TypeOK, PCs, PerSlot
<1>16. ASSUME NEW p \in Producers, JoinDone(p)  PROVE TypeOK'
  BY <1>16, NextSlotType, SlotType
  DEF JoinDone, At, poolVars, workVars, histVars, IInv, TypeOK, GateInv,
      ShutInv, WorkerPtrInv, Busy, PCs, WPCs, PerSlot, Entering, Ranks, Descs
<1>17. ASSUME NEW p \in Producers, JoinClaim(p)  PROVE TypeOK'
  BY <1>17, RunType, SlotType, WordType, RankTypes
  DEF JoinClaim, At, Go, Claimable, Claim, drainVars, workVars, IInv, TypeOK,
      GateInv, ShutInv, WorkerPtrInv, Busy, PCs, WPCs, PerSlot, Entering,
      Ranks, Descs
<1>18. ASSUME NEW p \in Producers, RankFinish(p)  PROVE TypeOK'
  BY <1>18, RunType, SlotType, RankTypes
  DEF RankFinish, At, Go, poolVars, drainVars, workVars, IInv, TypeOK, GateInv,
      ShutInv, WorkerPtrInv, Busy, PCs, WPCs, PerSlot, Entering, Ranks, Descs
<1>19. ASSUME NEW p \in Producers, ColdStamp(p)  PROVE TypeOK'
  <2> DEFINE w == First(slots[p])
             m == [mailbox[w] EXCEPT !.done = TRUE]
  <2>0. w \in Workers
    BY <1>19, SlotType DEF ColdStamp, At, PerSlot, IInv
  <2>1. mailbox' = [mailbox EXCEPT ![w] = m] \/ mailbox' = mailbox
    BY <1>19, <2>0, SMTT(30) DEF ColdStamp, IInv, TypeOK
  <2>2. m \in Mailbox
    BY <2>0, WordType DEF IInv, TypeOK
  <2> HIDE DEF m
  <2>3. mailbox' \in [Workers -> Mailbox]
    BY <2>0, <2>1, <2>2 DEF IInv, TypeOK
  <2>4. CASE NextSlot(p)
    BY <1>19, <2>3, <2>4, NextSlotType
    DEF ColdStamp, At, workVars, histVars, IInv, TypeOK, PerSlot
  <2>5. CASE Go(p, "mask") /\ UNCHANGED slots
    BY <1>19, <2>3, <2>5 DEF ColdStamp, At, Go, workVars, histVars, IInv,
                             TypeOK, PCs, PerSlot
  <2> QED
    BY <1>19, <2>4, <2>5 DEF ColdStamp
<1>20. ASSUME NEW p \in Producers, ColdMask(p)  PROVE TypeOK'
  <2>1. coldMask' \subseteq Workers
    BY <1>20, SlotType DEF ColdMask, At, PerSlot, IInv, TypeOK
  <2> QED
    BY <1>20, <2>1, NextSlotType DEF ColdMask, At, workVars, histVars,
                                     IInv, TypeOK, PerSlot
<1>21. ASSUME NEW p \in Producers, Return(p)  PROVE TypeOK'
  BY <1>21, WordType, CallType, SlotType
  DEF Return, At, Go, DescOf, drainVars, workVars, histVars, IInv, TypeOK,
      GateInv, ShutInv, WorkerPtrInv, Busy, PCs, WPCs, PerSlot, Entering,
      Ranks, Descs
<1>22. ASSUME NEW w \in Workers, Observe(w)  PROVE TypeOK'
  BY <1>22, WordType, CallType
  DEF Observe, WGo, poolVars, prodVars, drainVars, histVars, IInv, TypeOK,
      GateInv, ShutInv, WorkerPtrInv, Busy, PCs, WPCs, PerSlot, Entering,
      Ranks, Descs
<1>23. ASSUME NEW w \in Workers, FetchReuse(w)  PROVE TypeOK'
  BY <1>23, WordType, CallType
  DEF FetchReuse, WGo, poolVars, prodVars, drainVars, histVars, IInv, TypeOK,
      GateInv, ShutInv, WorkerPtrInv, Busy, PCs, WPCs, PerSlot, Entering,
      Ranks, Descs
<1>24. ASSUME NEW w \in Workers, FetchDesc(w)  PROVE TypeOK'
  BY <1>24, WordType, CallType
  DEF FetchDesc, WGo, poolVars, prodVars, drainVars, histVars, IInv, TypeOK,
      GateInv, ShutInv, WorkerPtrInv, Busy, PCs, WPCs, PerSlot, Entering,
      Ranks, Descs
<1>25. ASSUME NEW w \in Workers, ReadDesc(w)  PROVE TypeOK'
  BY <1>25, WordType, CallType
  DEF ReadDesc, WGo, poolVars, prodVars, drainVars, histVars, IInv, TypeOK,
      GateInv, ShutInv, WorkerPtrInv, Busy, PCs, WPCs, PerSlot, Entering,
      Ranks, Descs
<1>26. ASSUME NEW w \in Workers, ClaimRank(w)  PROVE TypeOK'
  BY <1>26, RunType, WordType, RankTypes
  DEF ClaimRank, Claimable, Claim, WGo, Cold, prodVars, drainVars, IInv,
      TypeOK, GateInv, ShutInv, WorkerPtrInv, Busy, PCs, WPCs, PerSlot,
      Entering, Ranks, Descs
<1>27. ASSUME NEW w \in Workers, LoseRank(w)  PROVE TypeOK'
  BY <1>27, WordType, CallType
  DEF LoseRank, Claimable, WGo, Cold, poolVars, prodVars, drainVars, histVars,
      IInv, TypeOK, GateInv, ShutInv, WorkerPtrInv, Busy, PCs, WPCs, PerSlot,
      Entering, Ranks, Descs
<1>28. ASSUME NEW w \in Workers, RunRank(w)  PROVE TypeOK'
  BY <1>28, RunType, RankTypes
  DEF RunRank, WGo, Cold, poolVars, prodVars, drainVars, IInv, TypeOK, GateInv,
      ShutInv, WorkerPtrInv, Busy, PCs, WPCs, PerSlot, Entering, Ranks, Descs
<1>29. ASSUME NEW w \in Workers, Finish(w)  PROVE TypeOK'
  BY <1>29, RunType, RankTypes
  DEF Finish, WGo, poolVars, prodVars, drainVars, IInv, TypeOK, GateInv,
      ShutInv, WorkerPtrInv, Busy, PCs, WPCs, PerSlot, Entering, Ranks, Descs
<1>30. ASSUME NEW w \in Workers, StampColdDone(w)  PROVE TypeOK'
  BY <1>30, WordType DEF StampColdDone, Cold, Served, WGo, LastServed,
                         Overtaken, prodVars, drainVars, histVars, IInv,
                         TypeOK, GateInv, ShutInv, WorkerPtrInv, Busy, PCs,
                         WPCs, PerSlot, Entering, Ranks, Descs
<1>31. ASSUME NEW w \in Workers, StampColdLost(w)  PROVE TypeOK'
  BY <1>31, WordType, CallType, ZenonT(40)
  DEF StampColdLost, WGo, Cold, Overtaken, poolVars, prodVars, drainVars,
      histVars, IInv, TypeOK, GateInv, ShutInv, WorkerPtrInv, Busy, PCs, WPCs,
      PerSlot, Entering, Ranks, Descs
<1>32. ASSUME NEW w \in Workers, Acknowledge(w)  PROVE TypeOK'
  <2>1. mailbox' = [mailbox EXCEPT ![w] = [mailbox[w] EXCEPT !.acked = TRUE]]
    BY <1>32 DEF Acknowledge, LateAck, IInv, TypeOK
  <2>2. mailbox' \in [Workers -> Mailbox]
    BY <2>1, WordType, ZenonT(40) DEF IInv, TypeOK
  <2>3. seen' \in [Workers -> Nat] /\ obs' \in [Workers -> Mailbox]
    BY <1>32, WordType DEF Acknowledge, LateAck, Served, LastServed, IInv,
                             TypeOK
  <2> QED
    BY <1>32, <2>2, <2>3 DEF Acknowledge, LateAck, Served, WGo, prodVars,
                                 drainVars,
                             histVars, IInv, TypeOK, WPCs
<1>33. ASSUME NEW w \in Workers, StampDone(w)  PROVE TypeOK'
  BY <1>33, WordType DEF StampDone, Cold, Served, WGo, LastServed, prodVars,
                         drainVars, histVars, IInv, TypeOK, GateInv, ShutInv,
                         WorkerPtrInv, Busy, PCs, WPCs, PerSlot, Entering,
                         Ranks, Descs
<1>34. ASSUME NEW w \in Workers, Exit(w)  PROVE TypeOK'
  BY <1>34, WordType, CallType
  DEF Exit, WGo, poolVars, prodVars, drainVars, histVars, IInv, TypeOK,
      GateInv, ShutInv, WorkerPtrInv, Busy, PCs, WPCs, PerSlot, Entering,
      Ranks, Descs
<1>35. ASSUME Shutdown  PROVE TypeOK'
  BY <1>35, WordType, CallType
  DEF Shutdown, At, prodVars, drainVars, workVars, histVars,
      IInv, TypeOK, GateInv, ShutInv, WorkerPtrInv, Busy, PCs, WPCs, PerSlot,
      Entering, Ranks, Descs
<1>36. ASSUME ShutdownLoad  PROVE TypeOK'
  <2>1. First(destroyer.slots) \in Workers
    BY <1>36, FirstIn DEF ShutdownLoad, IInv, TypeOK, ShutInv
  <2> QED
    BY <1>36, <2>1 DEF ShutdownLoad, poolVars, prodVars, drainVars, workVars,
                       histVars, IInv, TypeOK
<1>37. ASSUME ShutdownStore  PROVE TypeOK'
  BY <1>37, WordType, CallType, FirstIn
  DEF ShutdownStore, prodVars, drainVars, workVars, histVars, IInv, TypeOK,
      GateInv, ShutInv, WorkerPtrInv, Busy, PCs, WPCs, PerSlot, Entering,
      Ranks, Descs
<1>38. ASSUME ShutdownJoin  PROVE TypeOK'
  BY <1>38, WordType, CallType
  DEF ShutdownJoin, poolVars, prodVars, drainVars, workVars, histVars, IInv,
      TypeOK, GateInv, ShutInv, WorkerPtrInv, Busy, PCs, WPCs, PerSlot,
      Entering, Ranks, Descs
<1>39. CASE UNCHANGED vars
  BY <1>39 DEF vars, poolVars, prodVars, drainVars, workVars, histVars,
                 IInv, TypeOK, PerSlot
<1> QED
  <2>1. ASSUME NEW p \in Producers, Call(p)  PROVE TypeOK'
    BY <2>1, <1>1, <1>9, DispatchAssumption
    DEF Call, DispatchAssumption
  <2>2. ASSUME NEW p \in Producers, InCall(p)  PROVE TypeOK'
    BY <2>2, <1>2, <1>3, <1>4, <1>5, <1>6, <1>7, <1>8, <1>10, <1>11, <1>12,
       <1>13, <1>14, <1>15, <1>16, <1>17, <1>18, <1>19, <1>20, <1>21,
       DispatchAssumption
    DEF InCall, Drain, Write, Publish, Own, Join, DispatchAssumption
  <2>3. ASSUME NEW w \in Workers, Worker(w)  PROVE TypeOK'
    BY <2>3, <1>22, <1>23, <1>24, <1>25, <1>26, <1>27, <1>28, <1>29, <1>30,
       <1>31, <1>32, <1>33, <1>34
    DEF Worker, Fetch, Share, Stamp
  <2> QED
    BY <2>1, <2>2, <2>3, <1>35, <1>36, <1>37, <1>38, <1>39
    DEF Next, Destroy, Destroyed

(* Every step keeps the gate with the one producer that holds it. *)
LEMMA GateStep ==
  ASSUME IInv, [Next]_vars
  PROVE  GateInv'
<1>1. ASSUME NEW p \in Producers, NEW c \in Calls, Begin(p, c)  PROVE GateInv'
  BY <1>1, CallType DEF Begin, At, Go, Entering, poolVars, drainVars, workVars,
                        histVars, IInv, TypeOK, GateInv, Numbered, UnderGate,
                        EitherWay, Kinds
<1>2. ASSUME NEW p \in Producers, DrainLoad(p)  PROVE GateInv'
  BY <1>2, CallType DEF DrainLoad, At, Go, Gated, AfterDrain, poolVars,
                        workVars, histVars, IInv, TypeOK, GateInv, Numbered,
                        UnderGate, EitherWay, Kinds
<1>3. ASSUME NEW p \in Producers, DrainProbe(p)  PROVE GateInv'
  BY <1>3, CallType DEF DrainProbe, At, Go, poolVars, workVars, histVars, IInv,
                        TypeOK, GateInv, Numbered, UnderGate, EitherWay, Kinds
<1>4. ASSUME NEW p \in Producers, DrainClear(p)  PROVE GateInv'
  BY <1>4, CallType DEF DrainClear, At, Go, Gated, AfterDrain,
                        workVars, histVars, IInv, TypeOK, GateInv, Numbered,
                        UnderGate, EitherWay, Kinds
<1>5. ASSUME NEW p \in Producers, KeyMatches(p)  PROVE GateInv'
  BY <1>5, CallType DEF KeyMatches, At, Go, DescOf, AfterWrite, Gated,
                        poolVars, drainVars, workVars, histVars, IInv, TypeOK,
                        GateInv, Numbered, UnderGate, EitherWay, Kinds
<1>6. ASSUME NEW p \in Producers, WriteBegin(p)  PROVE GateInv'
  BY <1>6, CallType DEF WriteBegin, At, Go, DescOf, poolVars, drainVars,
                        workVars, histVars, IInv, TypeOK, GateInv, Numbered,
                        UnderGate, EitherWay, Kinds
<1>7. ASSUME NEW p \in Producers, WriteEnd(p)  PROVE GateInv'
  BY <1>7, CallType DEF WriteEnd, At, Go, DescOf, AfterWrite, Gated, poolVars,
                        drainVars, workVars, histVars, IInv, TypeOK, GateInv,
                        Numbered, UnderGate, EitherWay, Kinds
<1>8. ASSUME NEW p \in Producers, ElsewhereEnd(p)  PROVE GateInv'
  BY <1>8, CallType DEF ElsewhereEnd, At, Go, DescOf, poolVars, drainVars,
                        workVars, histVars, IInv, TypeOK, GateInv, Numbered,
                        UnderGate, EitherWay, Kinds
<1>9. ASSUME NEW p \in Producers, NEW c \in Calls, ElsewhereBegin(p, c)
      PROVE  GateInv'
  BY <1>9, CallType DEF ElsewhereBegin, At, Go, poolVars, drainVars, workVars,
                        histVars, IInv, TypeOK, GateInv, Numbered, UnderGate,
                        EitherWay, Kinds
<1>10. ASSUME NEW p \in Producers, Lease(p)  PROVE GateInv'
  BY <1>10, NoneApart DEF Lease, At, Go, IInv, TypeOK, GateInv, Numbered,
                          UnderGate, EitherWay
<1>11. ASSUME NEW p \in Producers, NEW l \in BOOLEAN, Prepare(p, l)
       PROVE  GateInv'
  <2>1. /\ generation \in Nat /\ pc' = [pc EXCEPT ![p] = "load"]
        /\ UNCHANGED <<call, gate>> /\ pc[p] = "prepare"
    BY <1>11 DEF Prepare, At, Go, IInv, TypeOK
  <2>2. /\ \A q \in Producers \ {p} : word'[q] = word[q]
        /\ word'[p].gen > 0 /\ ~word'[p].down
    BY <1>11, <2>1, PreparedWord DEF IInv
  <2> QED
    BY <2>1, <2>2 DEF IInv, TypeOK, GateInv, Numbered, UnderGate, EitherWay
<1>12. ASSUME NEW p \in Producers, PublishDesc(p)  PROVE GateInv'
  BY <1>12, CallType DEF PublishDesc, At, Go, DescOf, drainVars, workVars,
                         histVars, IInv, TypeOK, GateInv, Numbered, UnderGate,
                         EitherWay, Kinds
<1>13. ASSUME NEW p \in Producers, PublishWord(p)  PROVE GateInv'
  BY <1>13, CallType DEF PublishWord, At, Go, DescOf, workVars, histVars, IInv,
                         TypeOK, GateInv, Numbered, UnderGate, EitherWay, Kinds
<1>14. ASSUME NEW p \in Producers, OwnStart(p)  PROVE GateInv'
  BY <1>14, CallType DEF OwnStart, At, Go, Run, poolVars, drainVars, workVars,
                         IInv, TypeOK, GateInv, Numbered, UnderGate, EitherWay,
                         Kinds
<1>15. ASSUME NEW p \in Producers, OwnFinish(p)  PROVE GateInv'
  BY <1>15, CallType DEF OwnFinish, At, Go, Ran, poolVars, drainVars, workVars,
                         IInv, TypeOK, GateInv, Numbered, UnderGate, EitherWay,
                         Kinds
<1>16. ASSUME NEW p \in Producers, JoinDone(p)  PROVE GateInv'
  BY <1>16, CallType DEF JoinDone, At, NextSlot, Go, poolVars, workVars,
                         histVars, IInv, TypeOK, GateInv, Numbered, UnderGate,
                         EitherWay, Kinds
<1>17. ASSUME NEW p \in Producers, JoinClaim(p)  PROVE GateInv'
  BY <1>17, CallType DEF JoinClaim, At, Go, Run, Claimable, Claim, drainVars,
                         workVars, IInv, TypeOK, GateInv, Numbered, UnderGate,
                         EitherWay, Kinds
<1>18. ASSUME NEW p \in Producers, RankFinish(p)  PROVE GateInv'
  BY <1>18, CallType DEF RankFinish, At, Go, Ran, poolVars, drainVars,
                         workVars, IInv, TypeOK, GateInv, Numbered, UnderGate,
                         EitherWay, Kinds
<1>19. ASSUME NEW p \in Producers, ColdStamp(p)  PROVE GateInv'
  BY <1>19, CallType DEF ColdStamp, At, Go, NextSlot, AckOwed, workVars,
                         histVars, IInv, TypeOK, GateInv, Numbered, UnderGate,
                         EitherWay, Kinds
<1>20. ASSUME NEW p \in Producers, ColdMask(p)  PROVE GateInv'
  BY <1>20, CallType DEF ColdMask, At, NextSlot, Go, workVars, histVars, IInv,
                         TypeOK, GateInv, Numbered, UnderGate, EitherWay, Kinds
<1>21. ASSUME NEW p \in Producers, Return(p)  PROVE GateInv'
  <2>1. \A q \in Producers \ {p} : /\ pc'[q] = pc[q] /\ call'[q] = call[q]
                                    /\ word'[q] = word[q]
                                    /\ pc[q] \notin UnderGate /\ gate # q /\ gate' # q
    BY <1>21, NoneApart DEF Return, At, Go, IInv, TypeOK, GateInv, UnderGate
  <2>2. gate' # p /\ pc'[p] = "idle" /\ word'[p] = Word(0)
    BY <1>21, NoneApart DEF Return, At, Go, IInv, TypeOK
  <2> QED
    BY <2>1, <2>2 DEF IInv, GateInv, Numbered, UnderGate, EitherWay, Word
<1>22. ASSUME UNCHANGED <<gate, prodVars>>  PROVE GateInv'
  BY <1>22 DEF prodVars, IInv, GateInv, Numbered
<1> QED
  <2>1. ASSUME NEW p \in Producers, Call(p)  PROVE GateInv'
    BY <2>1, <1>1, <1>9, DispatchAssumption DEF Call, DispatchAssumption
  <2>2. ASSUME NEW p \in Producers, InCall(p)  PROVE GateInv'
    BY <2>2, DispatchAssumption,
       <1>2, <1>3, <1>4, <1>5, <1>6, <1>7, <1>8, <1>10, <1>11, <1>12,
       <1>13, <1>14, <1>15, <1>16, <1>17, <1>18, <1>19, <1>20, <1>21
    DEF InCall, Drain, Write, Publish, Own, Join, DispatchAssumption
  <2>3. CASE UNCHANGED vars
    BY <2>3, <1>22 DEF vars, poolVars
  <2> QED
    BY <2>1, <2>2, <2>3, <1>22, WorkerFrame, DestroyFrame DEF Next, IInv

(* Nothing is published once the destructor has begun. *)
LEMMA ShutStep ==
  ASSUME IInv, [Next]_vars
  PROVE  ShutInv'
<1> USE DEF IInv, ShutInv
<1>1. ASSUME NEW p \in Producers, NEW c \in Calls,
             Begin(p, c) \/ ElsewhereBegin(p, c)
      PROVE  ShutInv'
  BY <1>1 DEF Begin, ElsewhereBegin, poolVars
<1>2. ASSUME NEW p \in Producers, InCall(p)  PROVE ShutInv'
  <2>1. destroyer.at = "no" /\ UNCHANGED destroyer
    <3>1. pc[p] # "idle"
      BY <1>2 DEF InCall, Drain, DrainLoad, DrainProbe, DrainClear, Write,
                  KeyMatches, WriteBegin, WriteEnd, ElsewhereEnd, Lease,
                  Publish, Prepare, PublishDesc, PublishWord, Own, OwnStart,
                  OwnFinish, Join, JoinDone, JoinClaim, RankFinish, ColdStamp,
                  ColdMask, Return, At
    <3> QED
      BY <1>2, <3>1, ProducerFrame, SMTT(30)
  <2>2. \A w \in Workers : mailbox'[w].down => mailbox[w].down
    <3>1. CASE PublishWord(p)
      BY <3>1 DEF PublishWord, TypeOK, GateInv
    <3>2. CASE ColdStamp(p)
      BY <3>2, ColdStampKeeps
    <3>3. CASE UNCHANGED mailbox
      BY <3>3
    <3> QED
      BY <1>2, <3>1, <3>2, <3>3, MailboxFrame
  <2> QED
    BY <2>1, <2>2
<1>3. ASSUME NEW w \in Workers, Worker(w)  PROVE ShutInv'
  <2>1. mailbox'[w].down => mailbox[w].down
    <3>1. CASE StampColdDone(w)
      BY <3>1 DEF StampColdDone, Overtaken, TypeOK, Mailbox
    <3>2. CASE StampDone(w)
      <4>1. wpc[w] = "stamp"
        BY <3>2 DEF StampDone
      <4>2. ~obs[w].down
        BY <4>1 DEF WorkerPtrInv, Busy
      <4>3. obs[w] \in Mailbox /\ mailbox \in [Workers -> Mailbox]
        BY DEF TypeOK
      <4>4. mailbox'[w] = [obs[w] EXCEPT !.done = TRUE]
        BY <3>2, <4>3 DEF StampDone
      <4>5. mailbox'[w].down = obs[w].down
        BY <4>3, <4>4 DEF Mailbox
      <4> QED
        BY <4>2, <4>5
    <3>3. CASE Acknowledge(w)
      BY <3>3 DEF Acknowledge, LateAck, TypeOK, Mailbox
    <3>4. CASE UNCHANGED mailbox
      BY <3>4
    <3> QED
      BY <1>3, <3>1, <3>2, <3>3, <3>4, WorkerFrame
  <2>2. \A v \in Workers \ {w} : mailbox'[v] = mailbox[v]
    BY <1>3, WorkerFrame
  <2> QED
    BY <1>3, <2>1, <2>2, WorkerFrame DEF prodVars
<1>4. CASE Shutdown
  BY <1>4, WorkersNotEmpty DEF Shutdown, At, prodVars, TypeOK
<1>5. CASE ShutdownLoad
  BY <1>5 DEF ShutdownLoad, poolVars, prodVars, TypeOK
<1>6. CASE ShutdownStore
  <2>1. First(destroyer.slots) \in destroyer.slots
    BY <1>6, FirstIn DEF ShutdownStore, TypeOK
  <2> QED
    BY <1>6, <2>1 DEF ShutdownStore, prodVars, TypeOK
<1>7. CASE ShutdownJoin
  BY <1>7 DEF ShutdownJoin, poolVars, prodVars, TypeOK
<1>8. CASE UNCHANGED vars
  BY <1>8 DEF vars, poolVars, prodVars
<1> QED
  <2>1. ASSUME NEW p \in Producers, Call(p)  PROVE ShutInv'
    BY <2>1, <1>1, DispatchAssumption DEF Call, DispatchAssumption
  <2> QED
    BY <2>1, <1>2, <1>3, <1>4, <1>5, <1>6, <1>7, <1>8
    DEF Next, Destroy, Destroyed

(* A worker that has something to serve has a descriptor to serve it with. *)
LEMMA WorkerPtrStep ==
  ASSUME IInv, [Next]_vars
  PROVE  WorkerPtrInv'
<1>1. ASSUME NEW p \in Producers, Call(p)  PROVE WorkerPtrInv'
  BY <1>1 DEF Call, Begin, ElsewhereBegin, poolVars, workVars,
              IInv, WorkerPtrInv, Busy
<1>2. ASSUME NEW p \in Producers, InCall(p)  PROVE WorkerPtrInv'
  <2> USE DEF IInv, WorkerPtrInv, Busy
  <2>1. UNCHANGED workVars
    BY <1>2, ProducerFrame
  <2>2. CASE PublishDesc(p)
    <3>1. \A v \in Workers :
            mailboxDesc'[v] \in Descs \/ mailboxDesc'[v] = mailboxDesc[v]
      BY <2>2, PublishedDesc DEF At
    <3> QED
      BY <2>1, <2>2, <3>1 DEF PublishDesc, workVars
  <2>3. CASE PublishWord(p)
    <3> DEFINE w == First(slots[p])
    <3>1. w \in Workers
      BY <2>3, SlotType DEF PublishWord, At, PerSlot
    <3>2. word[p].gen > 0 /\ mailboxDesc[w] \in Descs
      BY <2>3, <3>1 DEF PublishWord, At, GateInv, Numbered, UnderGate,
                        ProducerPtrInv
    <3>3. /\ mailbox' = [mailbox EXCEPT ![w] = word[p]]
          /\ UNCHANGED mailboxDesc
      BY <2>3 DEF PublishWord
    <3> HIDE DEF w
    <3>4. word[p].gen # 0
      BY <3>2 DEF TypeOK, Mailbox
    <3> QED
      BY <2>1, <3>1, <3>2, <3>3, <3>4 DEF workVars, TypeOK
  <2>4. CASE ColdStamp(p)
    BY <2>1, <2>4, ColdStampKeeps DEF ColdStamp, workVars
  <2>5. CASE UNCHANGED <<mailbox, mailboxDesc>>
    BY <2>1, <2>5 DEF workVars
  <2> QED
    BY <1>2, <2>2, <2>3, <2>4, <2>5, MailboxFrame
    DEF PublishWord, ColdStamp, PublishDesc
<1>3. ASSUME NEW w \in Workers, Worker(w)  PROVE WorkerPtrInv'
  <2> USE DEF IInv, WorkerPtrInv, Busy, WGo
  <2>1. /\ UNCHANGED mailboxDesc
        /\ \A v \in Workers \ {w} : mailbox'[v] = mailbox[v]
    BY <1>3, WorkerFrame
  <2>2. CASE Observe(w)
    <3>1. mailbox[w].gen > 0 /\ ~mailbox[w].down
      BY <2>2 DEF Observe, TypeOK, ShutInv, Mailbox
    <3> QED
      BY <2>2, <3>1 DEF Observe, poolVars, TypeOK
  <2>3. CASE FetchReuse(w)
    BY <2>3 DEF FetchReuse, poolVars, TypeOK
  <2>4. CASE FetchDesc(w)
    BY <2>4 DEF FetchDesc, poolVars, TypeOK
  <2>5. CASE ReadDesc(w)
    BY <2>5 DEF ReadDesc, poolVars, TypeOK
  <2>6. CASE ClaimRank(w)
    BY <2>6 DEF ClaimRank, TypeOK
  <2>7. CASE LoseRank(w)
    BY <2>7 DEF LoseRank, poolVars, TypeOK
  <2>8. CASE RunRank(w)
    BY <2>8 DEF RunRank, poolVars, TypeOK
  <2>9. CASE Finish(w)
    BY <2>9 DEF Finish, poolVars, TypeOK
  <2>10. CASE StampColdDone(w)
    BY <2>10 DEF StampColdDone, Served, Overtaken, TypeOK, Mailbox
  <2>11. CASE StampColdLost(w)
    BY <2>11 DEF StampColdLost, poolVars, TypeOK
  <2>12. CASE Acknowledge(w)
    BY <2>12 DEF Acknowledge, LateAck, Served, TypeOK, Mailbox
  <2>13. CASE StampDone(w)
    BY <2>13 DEF StampDone, Served, TypeOK, Mailbox
  <2>14. CASE Exit(w)
    BY <2>14 DEF Exit, poolVars, TypeOK
  <2> QED
    BY <1>3, <2>2, <2>3, <2>4, <2>5, <2>6, <2>7, <2>8, <2>9, <2>10, <2>11,
       <2>12, <2>13, <2>14 DEF Worker, Fetch, Share, Stamp
<1>4. CASE Shutdown \/ Destroy \/ Destroyed
  <2> USE DEF IInv, WorkerPtrInv, Busy
  <2>1. UNCHANGED <<mailboxDesc, workVars>>
    BY <1>4, DestroyFrame
  <2>2. CASE ShutdownStore
    <3> DEFINE w == First(destroyer.slots)
               m == [destroyer.word EXCEPT !.gen = @ + 1, !.down = TRUE]
    <3>1. mailbox' = [mailbox EXCEPT ![w] = m]
      BY <2>2 DEF ShutdownStore
    <3>2. m.down /\ m.gen # 0
      BY DEF TypeOK, Mailbox
    <3> HIDE DEF w, m
    <3> QED
      BY <2>1, <3>1, <3>2 DEF workVars, TypeOK
  <2>3. CASE UNCHANGED mailbox
    BY <2>1, <2>3 DEF workVars
  <2> QED
    BY <1>4, <2>2, <2>3 DEF Shutdown, Destroy, ShutdownLoad, ShutdownJoin,
                            Destroyed, vars, poolVars
<1>5. CASE UNCHANGED vars
  BY <1>5 DEF vars, poolVars, workVars, IInv, WorkerPtrInv, Busy
<1> QED
  BY <1>1, <1>2, <1>3, <1>4, <1>5 DEF Next

(* A reuse publication is behind a full one that reached every worker. *)
LEMMA ProducerPtrStep ==
  ASSUME IInv, [Next]_vars
  PROVE  ProducerPtrInv'
<1>1. ASSUME NEW p \in Producers, NEW c \in Calls, Begin(p, c)
      PROVE  ProducerPtrInv'
  <2>1. gate # p /\ UNCHANGED gate /\ ~Numbered(p)'
    BY <1>1, CallType DEF Begin, At, Go, poolVars, IInv, TypeOK, GateInv,
                        Numbered, UnderGate, EitherWay, Kinds
  <2>2. /\ UNCHANGED <<lastPublished, mailboxDesc, word, slots>>
        /\ \A q \in Producers \ {p} : pc'[q] = pc[q]
    BY <1>1 DEF Begin, Go, poolVars, drainVars, IInv, TypeOK
  <2> QED
    BY <2>1, <2>2 DEF IInv, ProducerPtrInv, Numbered, UnderGate
<1>2. ASSUME NEW p \in Producers, DrainLoad(p)  PROVE ProducerPtrInv'
  BY <1>2 DEF DrainLoad, At, Go, Gated, AfterDrain, poolVars, workVars,
        histVars, IInv, TypeOK, ProducerPtrInv, GateInv, Numbered,
        UnderGate
<1>3. ASSUME NEW p \in Producers, DrainProbe(p)  PROVE ProducerPtrInv'
  BY <1>3 DEF DrainProbe, At, Go, poolVars, workVars, histVars, IInv, TypeOK,
        ProducerPtrInv, GateInv, Numbered, UnderGate
<1>4. ASSUME NEW p \in Producers, DrainClear(p)  PROVE ProducerPtrInv'
  BY <1>4 DEF DrainClear, At, Go, Gated, AfterDrain, workVars,
        histVars, IInv, TypeOK, ProducerPtrInv, GateInv, Numbered,
        UnderGate
<1>5. ASSUME NEW p \in Producers, KeyMatches(p)  PROVE ProducerPtrInv'
  BY <1>5 DEF KeyMatches, At, Go, DescOf, AfterWrite, Gated, poolVars,
        drainVars, workVars, histVars, IInv, TypeOK, ProducerPtrInv,
        GateInv, Numbered, UnderGate
<1>6. ASSUME NEW p \in Producers, WriteBegin(p)  PROVE ProducerPtrInv'
  BY <1>6 DEF WriteBegin, At, Go, DescOf, poolVars, drainVars, workVars,
        histVars, IInv, TypeOK, ProducerPtrInv, GateInv, Numbered,
        UnderGate
<1>7. ASSUME NEW p \in Producers, WriteEnd(p)  PROVE ProducerPtrInv'
  BY <1>7 DEF WriteEnd, At, Go, DescOf, AfterWrite, Gated, poolVars, drainVars,
        workVars, histVars, IInv, TypeOK, ProducerPtrInv, GateInv,
        Numbered, UnderGate
<1>8. ASSUME NEW p \in Producers, ElsewhereEnd(p)  PROVE ProducerPtrInv'
  BY <1>8 DEF ElsewhereEnd, At, Go, DescOf, poolVars, drainVars, workVars,
        histVars, IInv, TypeOK, ProducerPtrInv, GateInv, Numbered,
        UnderGate
<1>9. ASSUME NEW p \in Producers, NEW c \in Calls, ElsewhereBegin(p, c)
      PROVE  ProducerPtrInv'
  BY <1>9 DEF ElsewhereBegin, At, Go, poolVars, drainVars, workVars, histVars,
        IInv, TypeOK, ProducerPtrInv, GateInv, Numbered, UnderGate
<1>10. ASSUME NEW p \in Producers, Lease(p)  PROVE ProducerPtrInv'
  BY <1>10 DEF Lease, At, Go, drainVars, workVars, histVars, IInv, TypeOK,
        ProducerPtrInv, GateInv, Numbered, UnderGate
<1>11. ASSUME NEW p \in Producers, NEW l \in BOOLEAN, Prepare(p, l)
       PROVE  ProducerPtrInv'
  <2>1. /\ lastPublished \in Descs \union {None}
        /\ UNCHANGED <<gate, lastPublished, mailboxDesc, slots>>
        /\ pc' = [pc EXCEPT ![p] = "load"]
    BY <1>11 DEF Prepare, Go, drainVars, IInv, TypeOK
  <2>2. /\ word'[p].reuse => lastPublished # None
        /\ \A q \in Producers \ {p} : word'[q] = word[q]
    <3>1. pc[p] # "idle"
      BY <1>11 DEF Prepare, At
    <3> QED
      BY <1>11, <3>1, PreparedWord, DescOfType, NoneApart DEF IInv
  <2> QED
    BY <2>1, <2>2 DEF IInv, TypeOK, ProducerPtrInv, Numbered, UnderGate
<1>12. ASSUME NEW p \in Producers, PublishDesc(p)  PROVE ProducerPtrInv'
  <2>1. /\ gate = p /\ ~word[p].reuse /\ pc' = [pc EXCEPT ![p] = "word"]
        /\ UNCHANGED <<gate, lastPublished, word, slots>>
    BY <1>12 DEF PublishDesc, At, Go, drainVars, IInv, GateInv, UnderGate
  <2>2. /\ mailboxDesc'[First(slots[p])] \in Descs
        /\ \A v \in Workers : mailboxDesc[v] \in Descs => mailboxDesc'[v] \in Descs
    BY <1>12, PublishedDesc DEF IInv, TypeOK
  <2>3. ASSUME NEW q \in Producers \ {p}
        PROVE  pc'[q] = pc[q] /\ pc[q] \notin UnderGate
    BY <2>1, <2>3 DEF IInv, TypeOK, GateInv
  <2> QED
    BY <1>12, <2>1, <2>2, <2>3
    DEF PublishDesc, At, IInv, TypeOK, ProducerPtrInv, Numbered, UnderGate
<1>13. ASSUME NEW p \in Producers, PublishWord(p)  PROVE ProducerPtrInv'
  BY <1>13 DEF PublishWord, At, Go, DescOf, workVars, histVars, IInv, TypeOK,
        ProducerPtrInv, GateInv, Numbered, UnderGate
<1>14. ASSUME NEW p \in Producers, OwnStart(p)  PROVE ProducerPtrInv'
  BY <1>14 DEF OwnStart, At, Go, Run, poolVars, drainVars, workVars, IInv,
        TypeOK, ProducerPtrInv, GateInv, Numbered, UnderGate
<1>15. ASSUME NEW p \in Producers, OwnFinish(p)  PROVE ProducerPtrInv'
  BY <1>15 DEF OwnFinish, At, Go, Ran, poolVars, drainVars, workVars, IInv,
        TypeOK, ProducerPtrInv, GateInv, Numbered, UnderGate
<1>16. ASSUME NEW p \in Producers, JoinDone(p)  PROVE ProducerPtrInv'
  BY <1>16 DEF JoinDone, At, NextSlot, Go, poolVars, workVars, histVars, IInv,
        TypeOK, ProducerPtrInv, GateInv, Numbered, UnderGate
<1>17. ASSUME NEW p \in Producers, JoinClaim(p)  PROVE ProducerPtrInv'
  BY <1>17 DEF JoinClaim, At, Go, Run, Claimable, Claim, drainVars, workVars,
        IInv, TypeOK, ProducerPtrInv, GateInv, Numbered, UnderGate
<1>18. ASSUME NEW p \in Producers, RankFinish(p)  PROVE ProducerPtrInv'
  BY <1>18 DEF RankFinish, At, Go, Ran, poolVars, drainVars, workVars, IInv,
        TypeOK, ProducerPtrInv, GateInv, Numbered, UnderGate
<1>19. ASSUME NEW p \in Producers, ColdStamp(p)  PROVE ProducerPtrInv'
  BY <1>19 DEF ColdStamp, At, Go, NextSlot, AckOwed, workVars, histVars, IInv,
        TypeOK, ProducerPtrInv, GateInv, Numbered, UnderGate
<1>20. ASSUME NEW p \in Producers, ColdMask(p)  PROVE ProducerPtrInv'
  BY <1>20 DEF ColdMask, At, NextSlot, Go, workVars, histVars, IInv, TypeOK,
        ProducerPtrInv, GateInv, Numbered, UnderGate
<1>21. ASSUME NEW p \in Producers, Return(p)  PROVE ProducerPtrInv'
  <2>1. /\ UNCHANGED <<lastPublished, mailboxDesc, slots>>
        /\ \A q \in Producers \ {p} : pc'[q] = pc[q] /\ word'[q] = word[q]
        /\ pc'[p] = "idle" /\ \A q \in Producers : gate' # q
    BY <1>21, NoneApart DEF Return, Go, drainVars, IInv, TypeOK
  <2> QED
    BY <2>1 DEF IInv, ProducerPtrInv, Numbered, UnderGate
<1>22. ASSUME UNCHANGED <<gate, prodVars, lastPublished, mailboxDesc>>
       PROVE  ProducerPtrInv'
  BY <1>22 DEF prodVars, drainVars, IInv, ProducerPtrInv, Numbered
<1> QED
  <2>1. ASSUME NEW p \in Producers, Call(p)  PROVE ProducerPtrInv'
    BY <2>1, <1>1, <1>9, DispatchAssumption DEF Call, DispatchAssumption
  <2>2. ASSUME NEW p \in Producers, InCall(p)  PROVE ProducerPtrInv'
    BY <2>2, DispatchAssumption,
       <1>2, <1>3, <1>4, <1>5, <1>6, <1>7, <1>8, <1>10, <1>11, <1>12,
       <1>13, <1>14, <1>15, <1>16, <1>17, <1>18, <1>19, <1>20, <1>21
    DEF InCall, Drain, Write, Publish, Own, Join, DispatchAssumption
  <2>3. CASE UNCHANGED vars
    BY <2>3, <1>22 DEF vars, poolVars
  <2> QED
    BY <2>1, <2>2, <2>3, <1>22, WorkerFrame, DestroyFrame DEF Next, IInv

(***************************************************************************)
(* The inductive invariant and what follows from it.                       *)
(***************************************************************************)
(* The invariant holds of a pool that was just constructed. *)
LEMMA InitInv == Init => IInv
<1> SUFFICES ASSUME Init  PROVE IInv
  OBVIOUS
<1>1. Word(0) \in Mailbox /\ Word(0).gen = 0 /\ ~Word(0).down
  BY DEF Word, Mailbox
<1>2. TypeOK
  BY <1>1 DEF Init, TypeOK, PCs, WPCs, PerSlot, Entering
<1>3. GateInv /\ ShutInv /\ WorkerPtrInv /\ ProducerPtrInv
  BY <1>1, NoneApart DEF Init, GateInv, ShutInv, WorkerPtrInv, ProducerPtrInv,
                         Numbered, UnderGate, EitherWay, Busy
<1> QED
  BY <1>2, <1>3 DEF IInv

(* The invariant holds throughout: of every state of every pool. *)
THEOREM Invariance == Spec => []IInv
<1>1. IInv /\ [Next]_vars => IInv'
  BY TypeStep, GateStep, ShutStep, WorkerPtrStep, ProducerPtrStep DEF IInv
<1> QED
  BY <1>1, InitInv, PTL DEF Spec

(* The state of the protocol stays well typed, and no loop over the slots  *)
(* is entered without one: for any number of workers, producers and calls. *)
THEOREM Typing == Spec => []TypeOK
<1>1. IInv => TypeOK
  BY DEF IInv
<1> QED
  BY <1>1, Invariance, PTL

(* The gate is a lock: two producers are never both between taking their   *)
(* generation and returning.                                               *)
OnePublisher ==
  \A p, q \in Producers : pc[p] \in UnderGate /\ pc[q] \in UnderGate => p = q

(* For any number of producers and workers, publications exclude each      *)
(* other.                                                                  *)
THEOREM Exclusion == Spec => []OnePublisher
<1>1. IInv => OnePublisher
  BY DEF IInv, GateInv, OnePublisher
<1> QED
  BY <1>1, Invariance, PTL

(* A worker that observes a phase has a descriptor to serve it with: a     *)
(* full publication stores the pointer first, and a reuse publication,     *)
(* which stores none, follows a full one that reached every worker.  The   *)
(* branch of workerMainLoop for a null descriptor is unreachable.          *)
DescriptorBehindPhase ==
  \A w \in Workers : wpc[w] \in {"fetch", "reading", "claim", "run"} =>
    mailboxDesc[w] \in Descs /\ ~obs[w].down

(* No worker of any pool follows a null descriptor, whatever mix of full   *)
(* and reuse publications it was sent.                                     *)
THEOREM DescriptorFirst == Spec => []DescriptorBehindPhase
<1>1. IInv => DescriptorBehindPhase
  BY DEF IInv, WorkerPtrInv, Busy, DescriptorBehindPhase
<1> QED
  BY <1>1, Invariance, PTL
=============================================================================
