------------------------- MODULE DispatchGateProofs -------------------------
(***************************************************************************)
(* What the run of DispatchGate checks for four threads, proved for any    *)
(* number of them in any lanes: dispatches exclude each other, nobody is   *)
(* stranded on the lock word, and the lanes are kept.                      *)
(***************************************************************************)
EXTENDS DispatchGate, FiniteSetTheorems, TLAPS

Lower == {"throughput", "background"}

(* Where a thread that holds the lock is, and where one that asks for it. *)
Holding(t) == pc[t] \in {"fastRecheck", "recheck", "recheckThroughput",
                         "deregister", "inside", "unlock"}
OnTheWord(t) == pc[t] \in {"lock", "slow", "park", "parked"}

(* The way of each lane through the code. *)
PathInv ==
  \A t \in Threads :
    /\ OnTheWord(t) => next[t] = IF Lane[t] = "latency" THEN "deregister"
                                                        ELSE "recheck"
    /\ pc[t] \in {"unlock", "wake"} =>
         \/ next[t] = "idle"
         \/ next[t] = "wait" /\ Lane[t] \in Lower
         \/ next[t] = "register" /\ Lane[t] = "throughput"
    /\ pc[t] \in {"fast", "try", "fastRecheck"} => Lane[t] = "throughput"
    /\ pc[t] \in {"register", "deregister"} => Lane[t] # "background"
    /\ pc[t] \in {"wait", "recheck"} => Lane[t] \in Lower
    /\ pc[t] \in {"waitThroughput", "recheckThroughput"} =>
         Lane[t] = "background"

(* The lock is one, and the waiter bit is only ever set on a lock held. *)
HoldInv ==
  /\ waiter => held
  /\ \A t \in Threads : Holding(t) => held
  /\ \A t, u \in Threads : Holding(t) /\ Holding(u) => t = u

(* During a scope nobody but its owner is in the pool, if the caller keeps *)
(* to one producer.                                                        *)
ScopeInv ==
  \A t \in Threads :
    /\ pc[t] = "insideFree" => t \in scopes
    /\ t \in scopes /\ OneProducer =>
         /\ scopes = {t}
         /\ pc[t] \in {"idle", "insideFree"}
         /\ \A u \in Threads \ {t} : pc[u] = "idle"

(* The counters count the registered threads of their lanes. *)
Counted(lane) == {t \in Threads : Lane[t] = lane /\ Registered(t)}
CountInv == /\ latency = Cardinality(Counted("latency"))
            /\ throughput = Cardinality(Counted("throughput"))

(* The one background caller that can pass a latency caller is between its *)
(* two checks; once it is in, no other can be there.                       *)
LaneInv ==
  \A t \in Threads : Registered(t) =>
    IF Lane[t] = "latency"
    THEN /\ overtaken[t] <= 1
         /\ overtaken[t] = 1 => \A u \in Threads : pc[u] # "recheckThroughput"
    ELSE overtaken[t] = 0

Types ==
  /\ held \in BOOLEAN /\ waiter \in BOOLEAN
  /\ scopes \subseteq Scoped
  /\ pc \in [Threads -> PCs]
  /\ next \in [Threads -> PCs]
  /\ calls \in [Threads -> 0..MaxCalls]
  /\ overtaken \in [Threads -> Nat]

(* The steps that leave the registered threads what they are. *)
Step(t) == \/ Call(t) \/ Word(t) \/ Fast(t) \/ Look(t) \/ Leave(t)
           \/ WaitLatency(t) \/ WaitThroughput(t)
           \/ OpenScope(t) \/ CloseScope(t)

IInv == /\ Types /\ PathInv /\ HoldInv /\ ScopeInv /\ CountInv
        /\ NoneStranded /\ LaneInv

(* Where a call goes first. *)
LEMMA CallGoes ==
  ASSUME IInv, NEW t \in Threads, Call(t)
  PROVE  /\ \E to \in {"insideFree", "register", "fast", "wait"} :
              /\ pc' = [pc EXCEPT ![t] = to]
              /\ to = "insideFree" <=> t \in scopes
              /\ to = "register" => Lane[t] = "latency"
              /\ to = "fast" => Lane[t] = "throughput"
              /\ to = "wait" => Lane[t] = "background"
         /\ At(t, "idle")
         /\ UNCHANGED <<held, waiter, latency, throughput, scopes, next,
                        overtaken>>
<1>1. Lane[t] \in {"latency", "throughput", "background"}
  BY GateAssumption DEF GateAssumption, Lanes
<1>2. CASE SkipsGate(t)
  BY <1>2 DEF Call, SkipsGate, Go, lock, counters
<1>3. CASE ~SkipsGate(t)
  BY <1>1, <1>3 DEF Call, SkipsGate, Go, lock, counters
<1> QED
  BY <1>2, <1>3

(* The types, but for the counters. *)
LEMMA TypesStep == IInv /\ [Next]_vars => Types'
<1> SUFFICES ASSUME IInv, [Next]_vars
             PROVE  Types'
  OBVIOUS
<1>1. ASSUME NEW t \in Threads, Call(t)  PROVE Types'
  <2>1. calls' \in [Threads -> 0..MaxCalls]
    BY <1>1, GateAssumption DEF Call, IInv, Types, GateAssumption
  <2>2. pc' \in [Threads -> PCs]
    BY <1>1, CallGoes DEF IInv, Types, PCs
  <2> QED
    BY <1>1, <2>1, <2>2, CallGoes DEF IInv, Types
<1>2. ASSUME NEW t \in Threads, LockFast(t)  PROVE Types'
  BY <1>2 DEF LockFast, Go, IInv, Types
<1>3. ASSUME NEW t \in Threads, SpinOut(t)  PROVE Types'
  BY <1>3 DEF SpinOut, Go, IInv, Types, lock, PCs
<1>4. ASSUME NEW t \in Threads, LockSlow(t)  PROVE Types'
  BY <1>4 DEF LockSlow, BitKept, Go, IInv, Types
<1>5. ASSUME NEW t \in Threads, MarkWaiter(t)  PROVE Types'
  BY <1>5 DEF MarkWaiter, Go, IInv, Types, PCs
<1>6. ASSUME NEW t \in Threads, Park(t)  PROVE Types'
  BY <1>6 DEF Park, Go, IInv, Types, lock, PCs
<1>7. ASSUME NEW t \in Threads, Unlock(t)  PROVE Types'
  BY <1>7 DEF Unlock, Go, IInv, Types, PCs
<1>8. ASSUME NEW t \in Threads, Wake(t)  PROVE Types'
  BY <1>8 DEF Wake, Go, IInv, Types, lock, PCs
<1>9. ASSUME NEW t \in Threads, FastLoad(t)  PROVE Types'
  BY <1>9 DEF FastLoad, Go, IInv, Types, lock, PCs
<1>10. ASSUME NEW t \in Threads, FastTry(t)  PROVE Types'
  BY <1>10 DEF FastTry, Go, IInv, Types, PCs
<1>11. ASSUME NEW t \in Threads, FastRecheck(t)  PROVE Types'
  BY <1>11 DEF FastRecheck, UnlockThen, LetIn, Go, IInv, Types, lock, PCs
<1>12. ASSUME NEW t \in Threads, Register(t)  PROVE Types'
  BY <1>12 DEF Register, LockThen, Go, IInv, Types, lock, PCs
<1>13. ASSUME NEW t \in Threads, WaitLatency(t)  PROVE Types'
  BY <1>13 DEF WaitLatency, LockThen, Go, IInv, Types, lock, PCs
<1>14. ASSUME NEW t \in Threads, WaitThroughput(t)  PROVE Types'
  BY <1>14 DEF WaitThroughput, LockThen, Go, IInv, Types, lock, PCs
<1>15. ASSUME NEW t \in Threads, Recheck(t)  PROVE Types'
  BY <1>15 DEF Recheck, UnlockThen, LetIn, Go, IInv, Types, lock, PCs
<1>16. ASSUME NEW t \in Threads, RecheckThroughput(t)  PROVE Types'
  BY <1>16 DEF RecheckThroughput, UnlockThen, LetIn, Go, IInv, Types, lock, PCs
<1>17. ASSUME NEW t \in Threads, Deregister(t)  PROVE Types'
  BY <1>17 DEF Deregister, Go, IInv, Types, lock, PCs
<1>18. ASSUME NEW t \in Threads, Leave(t)  PROVE Types'
  BY <1>18 DEF Leave, UnlockThen, Go, IInv, Types, lock, PCs
<1>19. ASSUME NEW t \in Threads, OpenScope(t)  PROVE Types'
  BY <1>19 DEF OpenScope, IInv, Types, lock
<1>20. ASSUME NEW t \in Threads, CloseScope(t)  PROVE Types'
  BY <1>20 DEF CloseScope, IInv, Types, lock
<1>21. CASE UNCHANGED vars
  BY <1>21 DEF IInv, vars, lock, Types
<1> QED
  BY <1>1, <1>2, <1>3, <1>4, <1>5, <1>6, <1>7, <1>8, <1>9, <1>10, <1>11, <1>12,
     <1>13, <1>14, <1>15, <1>16, <1>17, <1>18, <1>19, <1>20, <1>21 DEF Next,
     Acquire, Word, Fast, Queue, Look, Done

(* Each lane keeps to its way. *)
LEMMA PathStep == IInv /\ [Next]_vars => PathInv'
<1> SUFFICES ASSUME IInv, [Next]_vars
             PROVE  PathInv'
  OBVIOUS
<1>1. ASSUME NEW t \in Threads, Call(t)  PROVE PathInv'
  BY <1>1, GateAssumption DEF Call, Go, IInv, PathInv, OnTheWord,
     GateAssumption, Lanes, Lower
<1>2. ASSUME NEW t \in Threads, LockFast(t)  PROVE PathInv'
  BY <1>2, GateAssumption DEF LockFast, At, Go, IInv, PathInv, OnTheWord,
     GateAssumption, Lanes, Lower
<1>3. ASSUME NEW t \in Threads, SpinOut(t)  PROVE PathInv'
  BY <1>3 DEF SpinOut, At, Go, IInv, PathInv, OnTheWord
<1>4. ASSUME NEW t \in Threads, LockSlow(t)  PROVE PathInv'
  BY <1>4, GateAssumption DEF LockSlow, At, Go, IInv, PathInv, OnTheWord,
     GateAssumption, Lanes, Lower
<1>5. ASSUME NEW t \in Threads, MarkWaiter(t)  PROVE PathInv'
  BY <1>5 DEF MarkWaiter, At, Go, IInv, PathInv, OnTheWord
<1>6. ASSUME NEW t \in Threads, Park(t)  PROVE PathInv'
  BY <1>6 DEF Park, At, Go, IInv, PathInv, OnTheWord
<1>7. ASSUME NEW t \in Threads, Unlock(t)  PROVE PathInv'
  BY <1>7 DEF Unlock, At, Go, IInv, PathInv, OnTheWord
<1>8. ASSUME NEW t \in Threads, Wake(t)  PROVE PathInv'
  BY <1>8 DEF Wake, Parked, At, Go, IInv, Types, PathInv, OnTheWord
<1>9. ASSUME NEW t \in Threads, FastLoad(t)  PROVE PathInv'
  BY <1>9 DEF FastLoad, At, Go, IInv, PathInv, OnTheWord
<1>10. ASSUME NEW t \in Threads, FastTry(t)  PROVE PathInv'
  BY <1>10 DEF FastTry, At, Go, IInv, Types, PathInv, OnTheWord
<1>11. ASSUME NEW t \in Threads, FastRecheck(t)  PROVE PathInv'
  BY <1>11, SMTT(30) DEF FastRecheck, UnlockThen, At, Go, IInv, Types, PathInv, OnTheWord
<1>12. ASSUME NEW t \in Threads, Register(t)  PROVE PathInv'
  <2>1. Lane[t] \in Lanes /\ pc \in [Threads -> PCs] /\ next \in [Threads -> PCs]
    BY GateAssumption DEF GateAssumption, IInv, Types
  <2>2. \/ Lane[t] = "latency" /\ pc' = [pc EXCEPT ![t] = "lock"]
             /\ next' = [next EXCEPT ![t] = "deregister"]
        \/ Lane[t] # "latency" /\ pc' = [pc EXCEPT ![t] = "wait"] /\ next' = next
    BY <1>12 DEF Register, LockThen, Go
  <2>3. pc[t] = "register"
    BY <1>12 DEF Register, At
  <2>4. Lane[t] # "background"
    BY <2>3 DEF IInv, PathInv
  <2> QED
    BY <2>1, <2>2, <2>4 DEF IInv, PathInv, OnTheWord, Lanes, Lower
<1>13. ASSUME NEW t \in Threads, WaitLatency(t)  PROVE PathInv'
  BY <1>13 DEF WaitLatency, LockThen, At, Go, IInv, Types, PathInv, OnTheWord,
     Lower
<1>14. ASSUME NEW t \in Threads, WaitThroughput(t)  PROVE PathInv'
  BY <1>14 DEF WaitThroughput, LockThen, At, Go, IInv, Types, PathInv,
     OnTheWord, Lower
<1>15. ASSUME NEW t \in Threads, Recheck(t)  PROVE PathInv'
  BY <1>15 DEF Recheck, UnlockThen, At, Go, IInv, Types, PathInv, OnTheWord,
     Lower
<1>16. ASSUME NEW t \in Threads, RecheckThroughput(t)  PROVE PathInv'
  BY <1>16 DEF RecheckThroughput, UnlockThen, At, Go, IInv, Types, PathInv,
     OnTheWord, Lower
<1>17. ASSUME NEW t \in Threads, Deregister(t)  PROVE PathInv'
  BY <1>17 DEF Deregister, Go, IInv, PathInv, OnTheWord
<1>18. ASSUME NEW t \in Threads, Leave(t)  PROVE PathInv'
  BY <1>18 DEF Leave, UnlockThen, Go, IInv, Types, PathInv, OnTheWord
<1>19. ASSUME NEW t \in Threads, OpenScope(t)  PROVE PathInv'
  BY <1>19 DEF OpenScope, IInv, PathInv, OnTheWord
<1>20. ASSUME NEW t \in Threads, CloseScope(t)  PROVE PathInv'
  BY <1>20 DEF CloseScope, IInv, PathInv, OnTheWord
<1>21. CASE UNCHANGED vars
  BY <1>21 DEF IInv, vars, PathInv, OnTheWord
<1> QED
  BY <1>1, <1>2, <1>3, <1>4, <1>5, <1>6, <1>7, <1>8, <1>9, <1>10, <1>11, <1>12,
     <1>13, <1>14, <1>15, <1>16, <1>17, <1>18, <1>19, <1>20, <1>21 DEF Next,
     Acquire, Word, Fast, Queue, Look, Done

(* The lock stays one. *)
LEMMA HoldStep == IInv /\ [Next]_vars => HoldInv'
<1> SUFFICES ASSUME IInv, [Next]_vars
             PROVE  HoldInv'
  OBVIOUS
<1>1. ASSUME NEW t \in Threads, Call(t)  PROVE HoldInv'
  BY <1>1, CallGoes DEF IInv, Types, HoldInv, Holding
<1>2. ASSUME NEW t \in Threads, LockFast(t)  PROVE HoldInv'
  BY <1>2 DEF LockFast, Free, Go, IInv, HoldInv, Holding
<1>3. ASSUME NEW t \in Threads, SpinOut(t)  PROVE HoldInv'
  BY <1>3 DEF SpinOut, Go, IInv, lock, HoldInv, Holding
<1>4. ASSUME NEW t \in Threads, LockSlow(t)  PROVE HoldInv'
  BY <1>4 DEF LockSlow, Free, Go, IInv, HoldInv, Holding
<1>5. ASSUME NEW t \in Threads, MarkWaiter(t)  PROVE HoldInv'
  BY <1>5 DEF MarkWaiter, Go, IInv, HoldInv, Holding
<1>6. ASSUME NEW t \in Threads, Park(t)  PROVE HoldInv'
  BY <1>6 DEF Park, Go, IInv, lock, HoldInv, Holding
<1>7. ASSUME NEW t \in Threads, Unlock(t)  PROVE HoldInv'
  BY <1>7 DEF Unlock, At, Go, IInv, Types, PathInv, HoldInv, Holding
<1>8. ASSUME NEW t \in Threads, Wake(t)  PROVE HoldInv'
  BY <1>8 DEF Wake, At, Go, IInv, Types, lock, PathInv, HoldInv, Holding
<1>9. ASSUME NEW t \in Threads, FastLoad(t)  PROVE HoldInv'
  BY <1>9 DEF FastLoad, Go, IInv, lock, HoldInv, Holding
<1>10. ASSUME NEW t \in Threads, FastTry(t)  PROVE HoldInv'
  BY <1>10 DEF FastTry, Free, Go, IInv, Types, HoldInv, Holding
<1>11. ASSUME NEW t \in Threads, FastRecheck(t)  PROVE HoldInv'
  BY <1>11 DEF FastRecheck, UnlockThen, At, Go, IInv, Types, lock, HoldInv,
     Holding
<1>12. ASSUME NEW t \in Threads, Register(t)  PROVE HoldInv'
  BY <1>12 DEF Register, LockThen, Go, IInv, Types, lock, HoldInv, Holding
<1>13. ASSUME NEW t \in Threads, WaitLatency(t)  PROVE HoldInv'
  BY <1>13 DEF WaitLatency, LockThen, Go, IInv, Types, lock, HoldInv, Holding
<1>14. ASSUME NEW t \in Threads, WaitThroughput(t)  PROVE HoldInv'
  BY <1>14 DEF WaitThroughput, LockThen, Go, IInv, Types, lock, HoldInv,
     Holding
<1>15. ASSUME NEW t \in Threads, Recheck(t)  PROVE HoldInv'
  BY <1>15 DEF Recheck, UnlockThen, At, Go, IInv, Types, lock, HoldInv, Holding
<1>16. ASSUME NEW t \in Threads, RecheckThroughput(t)  PROVE HoldInv'
  BY <1>16 DEF RecheckThroughput, UnlockThen, At, Go, IInv, Types, lock,
     HoldInv, Holding
<1>17. ASSUME NEW t \in Threads, Deregister(t)  PROVE HoldInv'
  BY <1>17 DEF Deregister, At, Go, IInv, lock, HoldInv, Holding
<1>18. ASSUME NEW t \in Threads, Leave(t)  PROVE HoldInv'
  BY <1>18 DEF Leave, UnlockThen, At, Go, IInv, Types, lock, HoldInv, Holding
<1>19. ASSUME NEW t \in Threads, OpenScope(t)  PROVE HoldInv'
  BY <1>19 DEF OpenScope, IInv, lock, HoldInv, Holding
<1>20. ASSUME NEW t \in Threads, CloseScope(t)  PROVE HoldInv'
  BY <1>20 DEF CloseScope, IInv, lock, HoldInv, Holding
<1>21. CASE UNCHANGED vars
  BY <1>21 DEF IInv, vars, lock, HoldInv, Holding
<1> QED
  BY <1>1, <1>2, <1>3, <1>4, <1>5, <1>6, <1>7, <1>8, <1>9, <1>10, <1>11, <1>12,
     <1>13, <1>14, <1>15, <1>16, <1>17, <1>18, <1>19, <1>20, <1>21 DEF Next,
     Acquire, Word, Fast, Queue, Look, Done

(* The owner of a scope stays alone. *)
LEMMA ScopeStep == IInv /\ [Next]_vars => ScopeInv'
<1> SUFFICES ASSUME IInv, [Next]_vars
             PROVE  ScopeInv'
  OBVIOUS
<1>1. ASSUME NEW t \in Threads, Call(t)  PROVE ScopeInv'
  <2>1. ASSUME NEW u \in Threads, pc'[u] = "insideFree"
        PROVE  u \in scopes'
    BY <1>1, <2>1, CallGoes DEF IInv, Types, ScopeInv
  <2>2. ASSUME NEW u \in Threads, u \in scopes', OneProducer
        PROVE  /\ scopes' = {u}
               /\ pc'[u] \in {"idle", "insideFree"}
               /\ \A v \in Threads \ {u} : pc'[v] = "idle"
    <3>1. scopes' = scopes /\ scopes \subseteq {t}
      BY <1>1, <2>2 DEF Call
    <3>2. u = t
      BY <2>2, <3>1
    <3> QED
      BY <1>1, <2>2, <3>1, <3>2, CallGoes DEF IInv, Types, ScopeInv
  <2> QED
    BY <2>1, <2>2 DEF ScopeInv
<1>2. ASSUME NEW t \in Threads, LockFast(t)  PROVE ScopeInv'
  BY <1>2 DEF LockFast, At, Go, IInv, ScopeInv, PathInv, OnTheWord
<1>3. ASSUME NEW t \in Threads, SpinOut(t)  PROVE ScopeInv'
  BY <1>3 DEF SpinOut, At, Go, IInv, ScopeInv
<1>4. ASSUME NEW t \in Threads, LockSlow(t)  PROVE ScopeInv'
  BY <1>4 DEF LockSlow, At, Go, IInv, ScopeInv, PathInv, OnTheWord
<1>5. ASSUME NEW t \in Threads, MarkWaiter(t)  PROVE ScopeInv'
  BY <1>5 DEF MarkWaiter, At, Go, IInv, ScopeInv
<1>6. ASSUME NEW t \in Threads, Park(t)  PROVE ScopeInv'
  BY <1>6 DEF Park, At, Go, IInv, ScopeInv
<1>7. ASSUME NEW t \in Threads, Unlock(t)  PROVE ScopeInv'
  BY <1>7 DEF Unlock, At, Go, IInv, ScopeInv, PathInv
<1>8. ASSUME NEW t \in Threads, Wake(t)  PROVE ScopeInv'
  BY <1>8 DEF Wake, At, Go, IInv, Types, ScopeInv, PathInv
<1>9. ASSUME NEW t \in Threads, FastLoad(t)  PROVE ScopeInv'
  BY <1>9 DEF FastLoad, At, Go, IInv, ScopeInv
<1>10. ASSUME NEW t \in Threads, FastTry(t)  PROVE ScopeInv'
  BY <1>10 DEF FastTry, At, Go, IInv, Types, ScopeInv
<1>11. ASSUME NEW t \in Threads, FastRecheck(t)  PROVE ScopeInv'
  BY <1>11 DEF FastRecheck, UnlockThen, At, Go, IInv, Types, ScopeInv
<1>12. ASSUME NEW t \in Threads, Register(t)  PROVE ScopeInv'
  BY <1>12 DEF Register, LockThen, At, Go, IInv, Types, ScopeInv
<1>13. ASSUME NEW t \in Threads, WaitLatency(t)  PROVE ScopeInv'
  BY <1>13 DEF WaitLatency, LockThen, At, Go, IInv, Types, ScopeInv
<1>14. ASSUME NEW t \in Threads, WaitThroughput(t)  PROVE ScopeInv'
  BY <1>14 DEF WaitThroughput, LockThen, At, Go, IInv, Types, ScopeInv
<1>15. ASSUME NEW t \in Threads, Recheck(t)  PROVE ScopeInv'
  BY <1>15 DEF Recheck, UnlockThen, At, Go, IInv, Types, ScopeInv
<1>16. ASSUME NEW t \in Threads, RecheckThroughput(t)  PROVE ScopeInv'
  BY <1>16 DEF RecheckThroughput, UnlockThen, At, Go, IInv, Types, ScopeInv
<1>17. ASSUME NEW t \in Threads, Deregister(t)  PROVE ScopeInv'
  BY <1>17 DEF Deregister, At, Go, IInv, ScopeInv
<1>18. ASSUME NEW t \in Threads, Leave(t)  PROVE ScopeInv'
  BY <1>18 DEF Leave, UnlockThen, At, Go, IInv, Types, ScopeInv
<1>19. ASSUME NEW t \in Threads, OpenScope(t)  PROVE ScopeInv'
  BY <1>19 DEF OpenScope, At, IInv, ScopeInv
<1>20. ASSUME NEW t \in Threads, CloseScope(t)  PROVE ScopeInv'
  BY <1>20 DEF CloseScope, At, IInv, ScopeInv
<1>21. CASE UNCHANGED vars
  BY <1>21 DEF IInv, vars, ScopeInv
<1> QED
  BY <1>1, <1>2, <1>3, <1>4, <1>5, <1>6, <1>7, <1>8, <1>9, <1>10, <1>11, <1>12,
     <1>13, <1>14, <1>15, <1>16, <1>17, <1>18, <1>19, <1>20, <1>21 DEF Next,
     Acquire, Word, Fast, Queue, Look, Done

(* Nobody comes to be stranded. *)
LEMMA StrandStep == IInv /\ [Next]_vars => NoneStranded'
<1> SUFFICES ASSUME IInv, [Next]_vars
             PROVE  NoneStranded'
  OBVIOUS
<1>1. ASSUME NEW t \in Threads, Call(t)  PROVE NoneStranded'
  BY <1>1, CallGoes DEF At, IInv, Types, NoneStranded, Parked
<1>2. ASSUME NEW t \in Threads, LockFast(t)  PROVE NoneStranded'
  <2>1. Parked' \subseteq Parked
    BY <1>2 DEF LockFast, Go, At, IInv, PathInv, OnTheWord, Parked
  <2>2. ASSUME NEW u \in Threads, pc[u] \in {"slow", "park", "wake"}
        PROVE  pc'[u] = pc[u]
    BY <1>2, <2>2 DEF LockFast, Go, At
  <2> QED
    BY <1>2, <2>1, <2>2 DEF LockFast, IInv, NoneStranded
<1>3. ASSUME NEW t \in Threads, SpinOut(t)  PROVE NoneStranded'
  BY <1>3 DEF SpinOut, Go, IInv, Types, NoneStranded
<1>4. ASSUME NEW t \in Threads, LockSlow(t)  PROVE NoneStranded'
  BY <1>4 DEF LockSlow, BitKept, NoneStranded
<1>5. ASSUME NEW t \in Threads, MarkWaiter(t)  PROVE NoneStranded'
  BY <1>5 DEF MarkWaiter, NoneStranded
<1>6. ASSUME NEW t \in Threads, Park(t)  PROVE NoneStranded'
  BY <1>6 DEF Park, At, Go, lock, NoneStranded
<1>7. ASSUME NEW t \in Threads, Unlock(t)  PROVE NoneStranded'
  <2>1. Parked' \subseteq Parked
    BY <1>7 DEF Unlock, Go, At, IInv, PathInv, Parked
  <2>2. ASSUME NEW u \in Threads, pc[u] \in {"slow", "park", "wake"}
        PROVE  pc'[u] = pc[u]
    BY <1>7, <2>2 DEF Unlock, Go, At
  <2>3. waiter => pc'[t] = "wake"
    BY <1>7 DEF Unlock, Go, IInv, Types
  <2> QED
    BY <1>7, <2>1, <2>2, <2>3 DEF IInv, NoneStranded
<1>8. ASSUME NEW t \in Threads, Wake(t)  PROVE NoneStranded'
  <2>1. CASE Parked = {} /\ Go(t, next[t])
    <3>1. Parked' = {}
      BY <1>8, <2>1 DEF Wake, Go, At, IInv, PathInv, Parked
    <3> QED
      BY <3>1 DEF NoneStranded
  <2>2. ASSUME NEW u \in Parked,
               pc' = [pc EXCEPT ![t] = next[t], ![u] = "slow"]
        PROVE  NoneStranded'
    BY <2>2 DEF IInv, Types, NoneStranded, Parked
  <2> QED
    BY <1>8, <2>1, <2>2 DEF Wake
<1>9. ASSUME NEW t \in Threads, FastLoad(t)  PROVE NoneStranded'
  BY <1>9 DEF FastLoad, At, Go, IInv, lock, NoneStranded, Parked
<1>10. ASSUME NEW t \in Threads, FastTry(t)  PROVE NoneStranded'
  BY <1>10 DEF FastTry, At, Go, IInv, Types, NoneStranded, Parked
<1>11. ASSUME NEW t \in Threads, FastRecheck(t)  PROVE NoneStranded'
  BY <1>11 DEF FastRecheck, UnlockThen, At, Go, IInv, Types, lock,
     NoneStranded, Parked
<1>12. ASSUME NEW t \in Threads, Register(t)  PROVE NoneStranded'
  BY <1>12 DEF Register, LockThen, At, Go, IInv, Types, lock, NoneStranded,
     Parked
<1>13. ASSUME NEW t \in Threads, WaitLatency(t)  PROVE NoneStranded'
  BY <1>13 DEF WaitLatency, LockThen, At, Go, IInv, Types, lock, NoneStranded,
     Parked
<1>14. ASSUME NEW t \in Threads, WaitThroughput(t)  PROVE NoneStranded'
  BY <1>14 DEF WaitThroughput, LockThen, At, Go, IInv, Types, lock,
     NoneStranded, Parked
<1>15. ASSUME NEW t \in Threads, Recheck(t)  PROVE NoneStranded'
  BY <1>15 DEF Recheck, UnlockThen, At, Go, IInv, Types, lock, NoneStranded,
     Parked
<1>16. ASSUME NEW t \in Threads, RecheckThroughput(t)  PROVE NoneStranded'
  BY <1>16 DEF RecheckThroughput, UnlockThen, At, Go, IInv, Types, lock,
     NoneStranded, Parked
<1>17. ASSUME NEW t \in Threads, Deregister(t)  PROVE NoneStranded'
  BY <1>17 DEF Deregister, At, Go, IInv, lock, NoneStranded, Parked
<1>18. ASSUME NEW t \in Threads, Leave(t)  PROVE NoneStranded'
  BY <1>18 DEF Leave, UnlockThen, At, Go, IInv, Types, lock, NoneStranded,
     Parked
<1>19. ASSUME NEW t \in Threads, OpenScope(t)  PROVE NoneStranded'
  BY <1>19 DEF OpenScope, At, IInv, lock, NoneStranded, Parked
<1>20. ASSUME NEW t \in Threads, CloseScope(t)  PROVE NoneStranded'
  BY <1>20 DEF CloseScope, At, IInv, lock, NoneStranded, Parked
<1>21. CASE UNCHANGED vars
  BY <1>21 DEF IInv, vars, lock, NoneStranded, Parked, At
<1> QED
  BY <1>1, <1>2, <1>3, <1>4, <1>5, <1>6, <1>7, <1>8, <1>9, <1>10, <1>11, <1>12,
     <1>13, <1>14, <1>15, <1>16, <1>17, <1>18, <1>19, <1>20, <1>21 DEF Next,
     Acquire, Word, Fast, Queue, Look, Done

(* Nothing but Register and Deregister moves a thread in or out of the     *)
(* counted lanes.                                                          *)
LEMMA RegisteredStays ==
  ASSUME IInv, NEW t \in Threads, Step(t)
  PROVE  \A u \in Threads : Registered(u)' <=> Registered(u)
<1>1. CASE Call(t)
  BY <1>1, CallGoes DEF IInv, Types, Registered, At
<1>2. CASE LockFast(t)
  BY <1>2 DEF LockFast, At, Go, IInv, PathInv, OnTheWord, Registered
<1>3. CASE SpinOut(t)
  BY <1>3 DEF SpinOut, At, Go, Registered
<1>4. CASE LockSlow(t)
  BY <1>4 DEF LockSlow, At, Go, IInv, PathInv, OnTheWord, Registered
<1>5. CASE MarkWaiter(t)
  BY <1>5 DEF MarkWaiter, At, Go, Registered
<1>6. CASE Park(t)
  BY <1>6 DEF Park, At, Go, Registered
<1>7. CASE Unlock(t)
  BY <1>7 DEF Unlock, At, Go, IInv, PathInv, Registered
<1>8. CASE Wake(t)
  BY <1>8 DEF Wake, Parked, At, Go, IInv, Types, PathInv, Registered
<1>9. CASE FastLoad(t)
  BY <1>9 DEF FastLoad, At, Go, Registered
<1>10. CASE FastTry(t)
  BY <1>10 DEF FastTry, At, Go, IInv, Types, Registered
<1>11. CASE FastRecheck(t)
  BY <1>11 DEF FastRecheck, UnlockThen, At, Go, IInv, Types, Registered
<1>12. CASE WaitLatency(t)
  BY <1>12 DEF WaitLatency, LockThen, At, Go, IInv, Types, Registered
<1>13. CASE WaitThroughput(t)
  BY <1>13 DEF WaitThroughput, LockThen, At, Go, IInv, Types, PathInv,
     Registered
<1>14. CASE Recheck(t)
  BY <1>14 DEF Recheck, UnlockThen, At, Go, IInv, Types, Registered
<1>15. CASE RecheckThroughput(t)
  BY <1>15 DEF RecheckThroughput, UnlockThen, At, Go, IInv, Types, PathInv,
     Registered
<1>16. CASE Leave(t)
  BY <1>16 DEF Leave, UnlockThen, Go, IInv, Types, Registered
<1>17. CASE OpenScope(t)
  BY <1>17 DEF OpenScope, Registered
<1>18. CASE CloseScope(t)
  BY <1>18 DEF CloseScope, Registered
<1> QED
  BY <1>1, <1>2, <1>3, <1>4, <1>5, <1>6, <1>7, <1>8, <1>9, <1>10, <1>11, <1>12,
     <1>13, <1>14, <1>15, <1>16, <1>17, <1>18 DEF Step, Word, Fast, Look

(* An empty counter is an empty lane. *)
LEMMA EmptyLane ==
  ASSUME IInv
  PROVE  /\ \A lane \in Lanes : IsFiniteSet(Counted(lane))
         /\ latency = 0 => Counted("latency") = {}
         /\ throughput = 0 => Counted("throughput") = {}
<1>1. \A lane \in Lanes : Counted(lane) \subseteq Threads
  BY DEF Counted
<1>2. \A lane \in Lanes : IsFiniteSet(Counted(lane))
  BY <1>1, FS_Subset, GateAssumption DEF GateAssumption
<1> QED
  BY <1>2, FS_EmptySet DEF IInv, CountInv, Lanes

(* The counters stay exact. *)
LEMMA CountStep == IInv /\ [Next]_vars => CountInv'
<1> SUFFICES ASSUME IInv, [Next]_vars
             PROVE  CountInv'
  OBVIOUS
<1>1. ASSUME UNCHANGED counters,
             \A u \in Threads : Registered(u)' <=> Registered(u)
      PROVE  CountInv'
  <2>1. \A lane \in Lanes : Counted(lane)' = Counted(lane)
    BY <1>1 DEF Counted
  <2> QED
    BY <1>1, <2>1 DEF IInv, CountInv, counters, Lanes
<1>2. ASSUME NEW t \in Threads, Step(t)  PROVE CountInv'
  <2>1. UNCHANGED counters
    BY <1>2 DEF Step, Word, Fast, Look, Call, LockFast, SpinOut, LockSlow,
       MarkWaiter, Park, Unlock, Wake, FastLoad, FastTry, FastRecheck,
       WaitLatency, WaitThroughput, Recheck, RecheckThroughput, Leave,
       OpenScope, CloseScope
  <2> QED
    BY <1>1, <1>2, <2>1, RegisteredStays
<1>3. ASSUME NEW t \in Threads, Register(t)  PROVE CountInv'
  <2>1. CASE Lane[t] = "latency"
    <3>1. /\ Counted("latency")' = Counted("latency") \union {t}
          /\ t \notin Counted("latency")
          /\ Counted("throughput")' = Counted("throughput")
      BY <1>3, <2>1 DEF Register, LockThen, At, Go, IInv, Types, Counted,
         Registered
    <3>2. latency' = latency + 1 /\ throughput' = throughput
      BY <1>3, <2>1 DEF Register
    <3> QED
      BY <3>1, <3>2, EmptyLane, FS_AddElement DEF IInv, CountInv, Lanes
  <2>2. CASE Lane[t] # "latency"
    <3>1. /\ Counted("throughput")' = Counted("throughput") \union {t}
          /\ t \notin Counted("throughput")
          /\ Counted("latency")' = Counted("latency")
      BY <1>3, <2>2, GateAssumption, ZenonT(40) DEF Register, At, Go, IInv, Types, PathInv,
         Counted, Registered, GateAssumption, Lanes
    <3>2. latency' = latency /\ throughput' = throughput + 1
      BY <1>3, <2>2 DEF Register
    <3> QED
      BY <3>1, <3>2, EmptyLane, FS_AddElement DEF IInv, CountInv, Lanes
  <2> QED
    BY <2>1, <2>2
<1>4. ASSUME NEW t \in Threads, Deregister(t)  PROVE CountInv'
  <2>1. CASE Lane[t] = "latency"
    <3>1. /\ Counted("latency")' = Counted("latency") \ {t}
          /\ t \in Counted("latency")
          /\ Counted("throughput")' = Counted("throughput")
      BY <1>4, <2>1 DEF Deregister, At, Go, IInv, Types, Counted, Registered
    <3>2. latency' = latency - 1 /\ throughput' = throughput
      BY <1>4, <2>1 DEF Deregister, TakenOff
    <3> QED
      BY <3>1, <3>2, EmptyLane, FS_RemoveElement DEF IInv, CountInv, Lanes
  <2>2. CASE Lane[t] # "latency"
    <3>1. /\ Counted("throughput")' = Counted("throughput") \ {t}
          /\ t \in Counted("throughput")
          /\ Counted("latency")' = Counted("latency")
      BY <1>4, <2>2, GateAssumption DEF Deregister, At, Go, IInv, Types,
         PathInv, Counted, Registered, GateAssumption, Lanes
    <3>2. latency' = latency /\ throughput' = throughput - 1
      BY <1>4, <2>2 DEF Deregister, TakenOff
    <3> QED
      BY <3>1, <3>2, EmptyLane, FS_RemoveElement DEF IInv, CountInv, Lanes
  <2> QED
    BY <2>1, <2>2
<1>5. CASE UNCHANGED vars
  <2>1. \A u \in Threads : Registered(u)' <=> Registered(u)
    BY <1>5 DEF vars, Registered
  <2> QED
    BY <1>1, <1>5, <2>1 DEF vars
<1> QED
  BY <1>2, <1>3, <1>4, <1>5 DEF Next, Acquire, Queue, Done, Step

(* The lanes stay honoured. *)
LEMMA LaneStep == IInv /\ [Next]_vars => LaneInv'
<1> SUFFICES ASSUME IInv, [Next]_vars
             PROVE  LaneInv'
  OBVIOUS
<1>1. ASSUME UNCHANGED overtaken,
             \A u \in Threads : Registered(u)' => Registered(u),
             \A u \in Threads : pc'[u] = "recheckThroughput" =>
                                 pc[u] = "recheckThroughput"
      PROVE  LaneInv'
  BY <1>1 DEF IInv, LaneInv
<1>2. ASSUME NEW t \in Threads, Step(t),
             ~FastRecheck(t), ~Recheck(t), ~RecheckThroughput(t)
      PROVE  LaneInv'
  <2>1. UNCHANGED overtaken
    BY <1>2 DEF Step, Word, Fast, Look, Call, LockFast, SpinOut, LockSlow,
       MarkWaiter, Park, Unlock, Wake, FastLoad, FastTry, WaitLatency,
       WaitThroughput, Leave, OpenScope, CloseScope
  <2>2. ASSUME NEW u \in Threads, pc'[u] = "recheckThroughput"
        PROVE  pc[u] = "recheckThroughput"
    <3>1. CASE Call(t)
      BY <1>2, <2>2, <3>1, CallGoes DEF IInv, Types
    <3>2. CASE LockFast(t)
      BY <1>2, <2>2, <3>2 DEF LockFast, At, Go, IInv, PathInv, OnTheWord
    <3>3. CASE SpinOut(t)
      BY <1>2, <2>2, <3>3 DEF SpinOut, Go
    <3>4. CASE LockSlow(t)
      BY <1>2, <2>2, <3>4 DEF LockSlow, At, Go, IInv, PathInv, OnTheWord
    <3>5. CASE MarkWaiter(t)
      BY <1>2, <2>2, <3>5 DEF MarkWaiter, Go
    <3>6. CASE Park(t)
      BY <1>2, <2>2, <3>6 DEF Park, Go
    <3>7. CASE Unlock(t)
      BY <1>2, <2>2, <3>7 DEF Unlock, At, Go, IInv, PathInv
    <3>8. CASE Wake(t)
      BY <1>2, <2>2, <3>8 DEF Wake, At, Go, IInv, Types, PathInv
    <3>9. CASE FastLoad(t)
      BY <1>2, <2>2, <3>9 DEF FastLoad, Go
    <3>10. CASE FastTry(t)
      BY <1>2, <2>2, <3>10 DEF FastTry, Go, IInv, Types
    <3>11. CASE WaitLatency(t)
      BY <1>2, <2>2, <3>11 DEF WaitLatency, LockThen, Go, IInv, Types
    <3>12. CASE WaitThroughput(t)
      BY <1>2, <2>2, <3>12 DEF WaitThroughput, LockThen, Go, IInv, Types
    <3>13. CASE Leave(t)
      BY <1>2, <2>2, <3>13 DEF Leave, UnlockThen, Go, IInv, Types
    <3>14. CASE OpenScope(t)
      BY <1>2, <2>2, <3>14 DEF OpenScope
    <3>15. CASE CloseScope(t)
      BY <1>2, <2>2, <3>15 DEF CloseScope
    <3> QED
      BY <1>2, <3>1, <3>2, <3>3, <3>4, <3>5, <3>6, <3>7, <3>8, <3>9, <3>10,
         <3>11, <3>12, <3>13, <3>14, <3>15 DEF Step, Word, Fast, Look
  <2> QED
    BY <1>1, <1>2, <2>1, <2>2, RegisteredStays
<1>3. ASSUME NEW t \in Threads, Register(t)  PROVE LaneInv'
  <2>1. \A u \in Threads \ {t} : Registered(u)' <=> Registered(u)
    BY <1>3 DEF Register, LockThen, Go, IInv, Types, Registered
  <2>2. /\ overtaken' = [overtaken EXCEPT ![t] = 0]
        /\ \A u \in Threads : pc'[u] = "recheckThroughput" =>
                               pc[u] = "recheckThroughput"
    BY <1>3 DEF Register, LockThen, Go, IInv, Types
  <2> QED
    BY <2>1, <2>2 DEF IInv, Types, LaneInv
<1>4. ASSUME NEW t \in Threads, Deregister(t)  PROVE LaneInv'
  <2>1. \A u \in Threads : Registered(u)' => Registered(u)
    BY <1>4 DEF Deregister, Go, Registered
  <2> QED
    BY <1>1, <1>4, <2>1 DEF Deregister, Go
<1>5. ASSUME NEW t \in Threads, latency = 0, Step(t),
             \/ UNCHANGED overtaken
             \/ LetIn(t) /\ Lane[t] = "throughput"
      PROVE  LaneInv'
  <2>1. \A u \in Threads : Registered(u)' =>
                            Registered(u) /\ Lane[u] = "throughput"
    BY <1>5, EmptyLane, RegisteredStays DEF Counted, Registered
  <2>2. \A u \in Threads : Registered(u)' => overtaken'[u] = overtaken[u]
    BY <1>5, <2>1 DEF LetIn, Outranks
  <2> QED
    BY <2>1, <2>2 DEF IInv, LaneInv
<1>6. ASSUME NEW t \in Threads, FastRecheck(t)  PROVE LaneInv'
  <2>1. CASE latency = 0
    BY <1>5, <1>6, <2>1 DEF FastRecheck, At, IInv, PathInv, Step, Fast
  <2>2. CASE latency # 0
    <3>1. /\ UNCHANGED overtaken
          /\ \A u \in Threads : pc'[u] = "recheckThroughput" =>
                                 pc[u] = "recheckThroughput"
      BY <1>6, <2>2 DEF FastRecheck, UnlockThen, Go, IInv, Types
    <3> QED
      BY <1>1, <1>6, <3>1, RegisteredStays DEF Step, Fast
  <2> QED
    BY <2>1, <2>2
<1>7. ASSUME NEW t \in Threads, Recheck(t)  PROVE LaneInv'
  <2>1. CASE latency = 0
    BY <1>5, <1>7, <2>1 DEF Recheck, Step, Look
  <2>2. CASE latency # 0
    <3>1. /\ UNCHANGED overtaken
          /\ \A u \in Threads : pc'[u] = "recheckThroughput" =>
                                 pc[u] = "recheckThroughput"
      BY <1>7, <2>2 DEF Recheck, Empty, UnlockThen, Go, IInv, Types
    <3> QED
      BY <1>1, <1>7, <3>1, RegisteredStays DEF Step, Look
  <2> QED
    BY <2>1, <2>2
<1>8. ASSUME NEW t \in Threads, RecheckThroughput(t)  PROVE LaneInv'
  <2>1. CASE throughput = 0
    <3>1. \A u \in Threads : Registered(u)' =>
                              Registered(u) /\ Lane[u] = "latency"
      BY <1>8, <2>1, EmptyLane, RegisteredStays DEF Counted, Registered, Step,
         Look
    <3>2. \A u \in Threads : pc'[u] # "recheckThroughput"
      BY <1>8, <2>1 DEF RecheckThroughput, Empty, At, Go, IInv, Types, HoldInv,
         Holding
    <3>3. \A u \in Threads : Registered(u)' => overtaken[u] = 0
      BY <1>8, <3>1 DEF RecheckThroughput, At, IInv, Types, LaneInv
    <3>4. \A u \in Threads : overtaken'[u] <= overtaken[u] + 1
      BY <1>8, <2>1 DEF RecheckThroughput, LetIn, IInv, Types
    <3> QED
      BY <3>1, <3>2, <3>3, <3>4 DEF LaneInv
  <2>2. CASE throughput # 0
    <3>1. /\ UNCHANGED overtaken
          /\ \A u \in Threads : pc'[u] = "recheckThroughput" =>
                                 pc[u] = "recheckThroughput"
      BY <1>8, <2>2 DEF RecheckThroughput, Empty, UnlockThen, Go, IInv, Types
    <3> QED
      BY <1>1, <1>8, <3>1, RegisteredStays DEF Step, Look
  <2> QED
    BY <2>1, <2>2
<1>9. CASE UNCHANGED vars
  BY <1>9 DEF vars, IInv, LaneInv, Registered
<1> QED
  BY <1>2, <1>3, <1>4, <1>6, <1>7, <1>8, <1>9 DEF Next, Acquire, Queue, Done,
     Step

(* The gate starts in order. *)
LEMMA InitInv == Init => IInv
<1> SUFFICES ASSUME Init
             PROVE  IInv
  OBVIOUS
<1>1. Types
  <2>1. calls \in [Threads -> 0..MaxCalls]
    BY GateAssumption DEF Init, GateAssumption
  <2> QED
    BY <2>1 DEF Init, Types, PCs
<1>2. Counted("latency") = {} /\ Counted("throughput") = {}
  BY DEF Init, Counted, Registered
<1>3. CountInv
  BY <1>2, FS_EmptySet DEF Init, CountInv
<1>4. PathInv /\ HoldInv /\ ScopeInv /\ LaneInv
  BY DEF Init, PathInv, OnTheWord, HoldInv, Holding, ScopeInv, LaneInv
<1>5. NoneStranded
  BY DEF Init, NoneStranded, Parked, At
<1> QED
  BY <1>1, <1>3, <1>4, <1>5 DEF IInv

(* The invariant holds throughout: however many threads, in any lanes. *)
THEOREM Invariance == Spec => []IInv
<1>1. IInv /\ [Next]_vars => IInv'
  BY TypesStep, PathStep, HoldStep, ScopeStep, CountStep, StrandStep, LaneStep
     DEF IInv
<1> QED
  BY <1>1, InitInv, PTL DEF Spec

(* The types; in particular a counter never falls below zero, however      *)
(* often the lower lanes give the lock back, and never exceeds the threads. *)
THEOREM Typing == Spec => []TypeOK
<1>1. IInv => TypeOK
  <2> SUFFICES ASSUME IInv
               PROVE  TypeOK
    OBVIOUS
  <2>1. \A lane \in Lanes :
          Cardinality(Counted(lane)) \in 0..Cardinality(Threads)
    <3>1. \A lane \in Lanes : Counted(lane) \subseteq Threads
      BY DEF Counted
    <3> QED
      BY <3>1, FS_Subset, FS_CardinalityType, GateAssumption DEF GateAssumption
  <2> QED
    BY <2>1 DEF IInv, Types, CountInv, TypeOK, Lanes
<1> QED
  BY <1>1, Invariance, PTL

(* Dispatches exclude each other, whatever the lanes, as long as nobody    *)
(* but its owner uses the pool during a low-latency scope.                 *)
THEOREM Exclusion == ASSUME OneProducer  PROVE Spec => []OneDispatch
<1>1. IInv => OneDispatch
  <2> SUFFICES ASSUME IInv, NEW t \in Inside, NEW u \in Inside
               PROVE  t = u
    BY DEF OneDispatch
  <2>1. CASE pc[t] = "inside" /\ pc[u] = "inside"
    BY <2>1 DEF IInv, HoldInv, Holding, Inside
  <2>2. CASE pc[t] = "insideFree" \/ pc[u] = "insideFree"
    BY <2>2, OneProducer DEF IInv, ScopeInv, Inside
  <2> QED
    BY <2>1, <2>2 DEF Inside
<1> QED
  BY <1>1, Invariance, PTL

(* No thread is left parked on the lock word: unlocking clears the waiter  *)
(* bit for all and wakes one, and that one sees to the others.             *)
THEOREM Unstranded == Spec => []NoneStranded
<1>1. IInv => NoneStranded
  BY DEF IInv
<1> QED
  BY <1>1, Invariance, PTL

(* A latency caller is passed by at most one caller of a lower lane, a     *)
(* throughput caller by no background caller, however many there are.      *)
THEOREM Order == Spec => []LaneOrder
<1>1. IInv => LaneOrder
  BY DEF IInv, LaneInv, LaneOrder
<1> QED
  BY <1>1, Invariance, PTL
=============================================================================
