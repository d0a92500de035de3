---------------------------- MODULE ParkingProofs ----------------------------
(***************************************************************************)
(* The theorems of module Parking, for any number of workers, threads,     *)
(* calls, scopes and bumps of the futex word: its types, that no worker is *)
(* left with what is on a stack that is gone, and that a scope is open     *)
(* when every worker has acknowledged it.  That nobody sleeps too long and *)
(* that the mask of the collapsed workers is never short need more than    *)
(* the code sees to (README, section 4) and are checked on an instance.    *)
(***************************************************************************)
EXTENDS Parking, FiniteSetTheorems, SequenceTheorems, WellFoundedInduction,
        TLAPS

-----------------------------------------------------------------------------
(***************************************************************************)
(* The type invariant, by what the parts are about.                        *)
(***************************************************************************)
Entering == {"drain", "clear", "clearSome"}
Calling == Entering \union {"lease", "locked", "publish", "probe", "join"}
Gated == {"locked", "publish", "probe", "join"}
Scoping == {"scopeWake", "scopeWait"}

PoolTypes ==
  /\ generation \in 0 .. MaxCalls
  /\ mailbox \in [Workers -> [gen : 0 .. MaxCalls + 1, down : BOOLEAN]]
  /\ owed \subseteq Workers
  /\ depth \in 0 .. 1 /\ epoch \in 0 .. MaxScopes

Tokens == {x \in Int : x >= Stale}
Stores == {x \in Int : x >= -Far}

ProdTypes ==
  /\ gate \in Threads \union {Nobody}
  /\ pc \in [Threads -> PCs] /\ step \in [Threads -> {"none", "store", "wake"}]
  /\ next \in [Threads -> Stores]
  /\ lowLatency \in [Threads -> BOOLEAN]
  /\ kind \in [Threads -> Kinds \union {"none"}]
  /\ slots \in [Threads -> SUBSET Workers]

WorkTypes ==
  /\ token \in [Workers -> Tokens]
  /\ wpc \in [Workers -> WPCs]
  /\ obs \in [Workers -> 0 .. MaxCalls + 1]
  /\ seen \in [Workers -> 0 .. MaxCalls]
  /\ hotEpoch \in [Workers -> 0 .. MaxScopes]

QueueTypes ==
  /\ asleep \in Seq(Workers) /\ IsInjective(asleep)
  /\ ToSet(asleep) = {w \in Workers : wpc[w] = "asleep"}

(* The parts make up the type invariant of the model. *)
LEMMA TypeParts == TypeOK <=> PoolTypes /\ ProdTypes /\ WorkTypes /\ QueueTypes
  BY DEF TypeOK, PoolTypes, ProdTypes, WorkTypes, QueueTypes, Tokens, Stores

(* The producers' places. *)
BoundInv ==
  /\ IsFiniteSet(BeforeDispatch)
  /\ generation + Cardinality(BeforeDispatch) <= MaxCalls

PlaceInv ==
  \A t \in Threads :
    /\ t # Owner => pc[t] \in Calling \union {"idle"}
    /\ Ending /\ t # Owner => pc[t] = "idle"
    /\ pc[t] \in {"publish", "join", "stop"} \union Scoping => slots[t] # {}
    /\ pc[t] = "probe" => slots[t] = Workers
    /\ pc[t] \in Gated <=> gate = t
    /\ step[t] # "none"
         => pc[t] \in {"drain", "locked", "probe", "scopeWake", "stopWake"}

DepthInv ==
  /\ Ending \/ pc[Owner] = "scopeDepth" => depth = 0
  /\ pc[Owner] \in Scoping => depth = 1
  /\ pc[Owner] = "scopeDepth" \/ InScope => epoch > 0
  /\ \A w \in Workers : hotEpoch[w] <= epoch

PathInv == PlaceInv /\ DepthInv

(* The phases. *)
DownAt(w) ==
  mailbox[w].down => /\ Ending /\ seen[w] < mailbox[w].gen
                     /\ (pc[Owner] = "stop" => w \notin slots[Owner])
OpenAt(w) ==
  ~mailbox[w].down => /\ mailbox[w].gen <= generation
                      /\ pc[Owner] \notin {"stopWake", "stopJoin", "destroyed"}
                      /\ (pc[Owner] = "stop" => w \in slots[Owner])
ServesAt(w) ==
  wpc[w] \in {"serve", "chain"} =>
    /\ seen[w] < obs[w] /\ obs[w] <= generation /\ obs[w] <= mailbox[w].gen
    /\ (mailbox[w].down => obs[w] < mailbox[w].gen)
TokenAt(w) == token[w] # Stale => wpc[w] \in {"recheck", "park"}

PhaseInv ==
  \A w \in Workers :
    DownAt(w) /\ OpenAt(w) /\ seen[w] <= mailbox[w].gen /\ ServesAt(w)
      /\ TokenAt(w)

IInv == TypeOK /\ BoundInv /\ PathInv /\ PhaseInv

-----------------------------------------------------------------------------
(* A loop over slots that are left takes one of them. *)
LEMMA FirstIn ==
  ASSUME NEW S, S \subseteq Workers, S # {}
  PROVE  First(S) \in S
<1> DEFINE Below(s) == {t \in S : t <= s}
           U == {Below(s) : s \in S}
<1>1. S \subseteq Nat /\ IsFiniteSet(S)
  BY FS_Subset, ParkingAssumption DEF ParkingAssumption
<1>2. U \subseteq FiniteSubsetsOf(S) /\ U # {}
  <2>1. \A s \in S : Below(s) \in SUBSET S
    OBVIOUS
  <2>2. \A s \in S : IsFiniteSet(Below(s))
    BY <2>1, <1>1, FS_Subset
  <2> QED
    BY <2>1, <2>2 DEF FiniteSubsetsOf
<1>3. PICK x \in U : \A y \in U : ~(<<y, x>> \in StrictSubsetOrdering(S))
  BY <1>1, <1>2, FS_StrictSubsetOrderingWellFounded, WFMin
<1>4. PICK s \in S : x = Below(s)
  BY DEF U
<1>5. \A t \in S : s <= t
  <2> SUFFICES ASSUME NEW t \in S, t < s  PROVE FALSE
    BY <1>1
  <2>1. /\ s <= s /\ ~(s <= t)
        /\ \A u \in S : u <= t => u <= s
    BY <1>1
  <2>2. Below(t) \subseteq Below(s) /\ s \in Below(s) /\ s \notin Below(t)
    BY <2>1
  <2>3. <<Below(t), Below(s)>> \in StrictSubsetOrdering(S)
    BY <2>2 DEF StrictSubsetOrdering
  <2> QED
    BY <1>3, <1>4, <2>3
<1> QED
  BY <1>5 DEF First

(* The smaller of two. *)
LEMMA SmallerOf ==
  ASSUME NEW m \in Nat, NEW n \in Nat
  PROVE  Min({m, n}) = IF m <= n THEN m ELSE n
<1>1. CASE m <= n
  BY <1>1 DEF Min
<1>2. CASE ~(m <= n)
  BY <1>2 DEF Min
<1> QED
  BY <1>1, <1>2

(* The first k of a queue leave it. *)
LEMMA Popped ==
  ASSUME NEW s \in Seq(Workers), IsInjective(s), NEW k \in 0 .. Len(s)
  PROVE  LET r == SubSeq(s, k + 1, Len(s))
             out == ToSet(SubSeq(s, 1, k))
         IN  /\ r \in Seq(Workers) /\ Len(r) = Len(s) - k
             /\ \A i \in 1 .. Len(r) : r[i] = s[k + i]
             /\ IsInjective(r)
             /\ out = {s[i] : i \in 1 .. k}
             /\ ToSet(r) = ToSet(s) \ out
<1> DEFINE r == SubSeq(s, k + 1, Len(s))
           f == SubSeq(s, 1, k)
<1>1. Len(s) \in Nat /\ DOMAIN s = 1 .. Len(s)
        /\ \A i \in 1 .. Len(s) : s[i] \in Workers
  BY LenProperties, ElementOfSeq
<1>2. r \in Seq(Workers) /\ Len(r) = Len(s) - k
        /\ \A i \in 1 .. Len(s) - k : r[i] = s[k + i]
  <2>1. \A i \in k + 1 .. Len(s) : s[i] \in Workers
    BY <1>1
  <2>2. r \in Seq(Workers)
          /\ Len(r) = IF k + 1 <= Len(s) THEN Len(s) - (k + 1) + 1 ELSE 0
    BY <1>1, <2>1, SubSeqProperties
  <2>3. \A i \in 1 .. Len(s) - (k + 1) + 1 : r[i] = s[(k + 1) + i - 1]
    BY <1>1, <2>1, SubSeqProperties
  <2> HIDE DEF r
  <2>4. \A l \in Nat : (IF k + 1 <= l THEN l - (k + 1) + 1 ELSE 0) = IF k <= l THEN l - k ELSE 0
    BY <1>1
  <2>5. Len(r) = Len(s) - k
    <3>1. Len(s) \in Nat /\ k <= Len(s)
      BY <1>1
    <3>2. Len(r) = IF k <= Len(s) THEN Len(s) - k ELSE 0
      BY <2>2, <2>4, <3>1
    <3> QED
      BY <3>1, <3>2
  <2>6. ASSUME NEW i \in 1 .. Len(s) - k PROVE r[i] = s[k + i]
    <3>1. (k + 1) + i - 1 = k + i /\ i \in 1 .. Len(s) - (k + 1) + 1
      BY <1>1
    <3> QED
      BY <2>3, <3>1
  <2> QED
    BY <2>2, <2>5, <2>6
<1>3. f \in Seq(Workers) /\ Len(f) = k /\ \A i \in 1 .. k : f[i] = s[i]
  <2>1. \A i \in 1 .. k : s[i] \in Workers
    BY <1>1
  <2>2. /\ f \in Seq(Workers)
        /\ Len(f) = IF 1 <= k THEN k - 1 + 1 ELSE 0
        /\ \A i \in 1 .. k - 1 + 1 : f[i] = s[1 + i - 1]
    BY <1>1, <2>1, SubSeqProperties
  <2> QED
    BY <1>1, <2>2
<1>4. DOMAIN r = 1 .. Len(s) - k /\ DOMAIN f = 1 .. k
  BY <1>2, <1>3, LenProperties
<1> HIDE DEF r, f
<1>5. IsInjective(r)
  <2> SUFFICES ASSUME NEW i \in DOMAIN r, NEW j \in DOMAIN r, r[i] = r[j]
               PROVE  i = j
    BY DEF IsInjective
  <2>1. k + i \in DOMAIN s /\ k + j \in DOMAIN s /\ s[k + i] = s[k + j]
    BY <1>1, <1>2, <1>4, SMTT(30)
  <2>2. k + i = k + j
    BY <2>1 DEF IsInjective
  <2> QED
    BY <2>2, <1>4
<1>6. ToSet(f) = {s[i] : i \in 1 .. k}
  BY <1>3, <1>4 DEF ToSet
<1>7. ToSet(r) = ToSet(s) \ ToSet(f)
  <2>1. ASSUME NEW i \in DOMAIN r PROVE r[i] \in ToSet(s)
                 /\ r[i] \notin ToSet(f)
    <3>1. k + i \in DOMAIN s /\ r[i] = s[k + i]
      BY <1>1, <1>2, <1>4
    <3>2. ASSUME NEW j \in 1 .. k PROVE s[j] # s[k + i]
      <4>1. j \in DOMAIN s /\ j # k + i
        BY <1>1, <1>4
      <4> QED
        BY <4>1, <3>1 DEF IsInjective
    <3> QED
      BY <3>1, <3>2, <1>6 DEF ToSet
  <2>2. ASSUME NEW j \in DOMAIN s, s[j] \notin ToSet(f) PROVE s[j] \in ToSet(r)
    <3>1. j \notin 1 .. k
      BY <2>2, <1>6
    <3>2. j - k \in DOMAIN r /\ r[j - k] = s[k + (j - k)] /\ k + (j - k) = j
      BY <3>1, <1>1, <1>2, <1>4
    <3> QED
      BY <3>2 DEF ToSet
  <2>3. \A x \in ToSet(r) : x \in ToSet(s) \ ToSet(f)
    BY <2>1 DEF ToSet
  <2>4. \A x \in ToSet(s) \ ToSet(f) : x \in ToSet(r)
    BY <2>2 DEF ToSet
  <2> QED
    BY <2>3, <2>4
<1> QED
  BY <1>2, <1>5, <1>6, <1>7 DEF r, f

(* One leaves the queue. *)
LEMMA Plucked ==
  ASSUME NEW s \in Seq(Workers), IsInjective(s), NEW i \in 1 .. Len(s)
  PROVE  LET r == RemoveAt(s, i)
         IN  /\ r \in Seq(Workers) /\ Len(r) = Len(s) - 1
             /\ \A j \in 1 .. Len(r) : r[j] = IF j < i THEN s[j] ELSE s[j + 1]
             /\ IsInjective(r)
             /\ ToSet(r) = ToSet(s) \ {s[i]}
<1> DEFINE r == RemoveAt(s, i)
           f == SubSeq(s, 1, i - 1)
           g == SubSeq(s, i + 1, Len(s))
<1>1. Len(s) \in Nat /\ DOMAIN s = 1 .. Len(s)
        /\ \A j \in 1 .. Len(s) : s[j] \in Workers
  BY LenProperties, ElementOfSeq
<1>2. g \in Seq(Workers) /\ Len(g) = Len(s) - i
        /\ \A j \in 1 .. Len(s) - i : g[j] = s[i + j]
  <2>1. \A j \in i + 1 .. Len(s) : s[j] \in Workers
    BY <1>1
  <2>2. /\ g \in Seq(Workers)
        /\ Len(g) = IF i + 1 <= Len(s) THEN Len(s) - (i + 1) + 1 ELSE 0
        /\ \A j \in 1 .. Len(s) - (i + 1) + 1 : g[j] = s[(i + 1) + j - 1]
    BY <1>1, <2>1, SubSeqProperties
  <2> QED
    BY <1>1, <2>2, SMTT(30)
<1>3. f \in Seq(Workers) /\ Len(f) = i - 1 /\ \A j \in 1 .. i - 1 : f[j] = s[j]
  <2>1. \A j \in 1 .. i - 1 : s[j] \in Workers
    BY <1>1
  <2>2. /\ f \in Seq(Workers)
        /\ Len(f) = IF 1 <= i - 1 THEN i - 1 - 1 + 1 ELSE 0
        /\ \A j \in 1 .. i - 1 - 1 + 1 : f[j] = s[1 + j - 1]
    BY <1>1, <2>1, SubSeqProperties
  <2> QED
    BY <1>1, <2>2
<1>4. r = f \o g
  BY DEF RemoveAt
<1> HIDE DEF r, f, g
<1>5. /\ r \in Seq(Workers) /\ Len(r) = Len(s) - 1
      /\ \A j \in 1 .. Len(s) - 1 : r[j] = IF j < i THEN s[j] ELSE s[j + 1]
  <2>1. /\ r \in Seq(Workers) /\ Len(r) = Len(f) + Len(g)
        /\ \A j \in 1 .. Len(f) + Len(g) : r[j] = IF j <= Len(f) THEN f[j] ELSE g[j - Len(f)]
    BY <1>2, <1>3, <1>4, ConcatProperties
  <2>2. Len(f) + Len(g) = Len(s) - 1
    BY <1>1, <1>2, <1>3
  <2>3. ASSUME NEW j \in 1 .. Len(s) - 1 PROVE r[j] = IF j < i THEN s[j] ELSE s[j + 1]
    <3>1. CASE j < i
      <4>1. j \in 1 .. i - 1 /\ j <= Len(f) /\ j \in 1 .. Len(f) + Len(g)
        BY <3>1, <2>2, <1>3
      <4> QED
        BY <4>1, <3>1, <2>1, <1>3
    <3>2. CASE ~(j < i)
      <4>1. r[j] = g[j - (i - 1)] /\ j - (i - 1) \in 1 .. Len(s) - i
        BY <3>2, <2>1, <2>2, <1>1, <1>3
      <4>2. i + (j - (i - 1)) = j + 1
        OBVIOUS
      <4> QED
        BY <4>1, <4>2, <1>2, <3>2
    <3> QED
      BY <3>1, <3>2
  <2> QED
    BY <2>1, <2>2, <2>3
<1>6. DOMAIN r = 1 .. Len(s) - 1
  BY <1>5, LenProperties
<1> DEFINE at(j) == IF j < i THEN j ELSE j + 1
<1>7. \A j \in DOMAIN r : at(j) \in DOMAIN s /\ at(j) # i /\ r[j] = s[at(j)]
  BY <1>1, <1>5, <1>6
<1>8. \A j, l \in DOMAIN r : at(j) = at(l) => j = l
  BY <1>6
<1> HIDE DEF at
<1>9. IsInjective(r)
  BY <1>7, <1>8 DEF IsInjective
<1>10. ToSet(r) = ToSet(s) \ {s[i]}
  <2>1. \A x \in ToSet(r) : x \in ToSet(s) \ {s[i]}
    BY <1>7, <1>1 DEF ToSet, IsInjective
  <2>2. ASSUME NEW l \in DOMAIN s, l # i PROVE s[l] \in ToSet(r)
    <3>1. CASE l < i
      <4>1. l \in DOMAIN r /\ at(l) = l
        BY <3>1, <1>1, <1>6 DEF at
      <4> QED
        BY <4>1, <1>7 DEF ToSet
    <3>2. CASE ~(l < i)
      <4>1. l - 1 \in DOMAIN r /\ at(l - 1) = l
        BY <3>2, <2>2, <1>1, <1>6 DEF at
      <4> QED
        BY <4>1, <1>7 DEF ToSet
    <3> QED
      BY <3>1, <3>2
  <2> QED
    BY <2>1, <2>2 DEF ToSet
<1> QED
  BY <1>5, <1>9, <1>10 DEF r

-----------------------------------------------------------------------------
(***************************************************************************)
(* Who takes a step, and what a step may do to the pool and to the         *)
(* producers.                                                              *)
(***************************************************************************)
Entry(t) == EntryLook(t) \/ EntryDrained(t) \/ EntryPending(t)

CallStep(t) ==
  \/ Entry(t) \/ Lease(t) \/ Drained(t) \/ DrainPending(t)
  \/ Publish(t) \/ ProbeHit(t) \/ ProbeMissed(t) \/ Join(t) \/ Collapse(t)
  \/ StoreWord(t) \/ Wake(t)

OwnerStep ==
  \/ ScopeEpoch \/ ScopeDepth \/ ScopeWake \/ ScopeAcked \/ ScopeRetry \/ ScopeClose
  \/ Shutdown \/ ShutdownStore \/ ShutdownWake \/ ShutdownJoin

WorkStep(w) ==
  \/ Observe(w) \/ Serve(w) \/ Look(w) \/ Ack(w) \/ GiveUp(w) \/ Token(w)
  \/ Recheck(w) \/ Park(w) \/ Woken(w) \/ ChainWake(w) \/ Interrupted(w)

(* Every step is a call's, the owner's or a worker's. *)
LEMMA Steps ==
  ASSUME [Next]_vars
  PROVE  \/ \E t \in Threads, k \in Kinds : Begin(t, k)
         \/ \E t \in Threads : CallStep(t)
         \/ OwnerStep
         \/ \E w \in Workers : WorkStep(w)
         \/ UNCHANGED vars
<1>1. ASSUME NEW t \in Threads, Producer(t) PROVE CallStep(t) \/ OwnerStep
  BY <1>1 DEF Producer, InCall, Opening, Stopping, CallStep, Entry, OwnerStep
<1>2. ASSUME NEW w \in Workers, Worker(w) \/ Interrupted(w) PROVE WorkStep(w)
  BY <1>2 DEF Worker, WorkStep
<1>3. CASE ScopeEpoch \/ ScopeClose \/ Shutdown
  BY <1>3 DEF OwnerStep
<1>4. CASE Next
  BY <1>1, <1>2, <1>3, <1>4 DEF Next, Destroyed
<1> QED
  BY <1>4

(* The drain at the entry of a call moves its producer only. *)
LEMMA EntryMoves ==
  ASSUME PoolTypes, ProdTypes, NEW t \in Threads, Entry(t)
  PROVE  /\ pc[t] \in Entering /\ step[t] = "none"
         /\ \E x \in Entering \union {"lease"} :
              pc' = [pc EXCEPT ![t] = x] /\ (step'[t] # "none" => x = "drain")
         /\ slots' \in [Threads -> SUBSET Workers] /\ owed' \subseteq Workers
         /\ \A u \in Threads \ {t} : slots'[u] = slots[u] /\ step'[u] = step[u]
         /\ step' \in [Threads -> {"none", "store", "wake"}]
         /\ next' \in [Threads -> Stores]
         /\ UNCHANGED <<generation, mailbox, token, asleep, scopeVars, gate,
                        lowLatency, kind, workVars>>
<1>1. Far \in Nat /\ 0 \in Stores /\ 1 \in Stores
  BY ParkingAssumption DEF ParkingAssumption, Stores
<1>2. CASE EntryLook(t)
  <2>1. PICK x \in {"clear", "clearSome"} : pc' = [pc EXCEPT ![t] = x]
    BY <1>2 DEF EntryLook, Go
  <2>2. /\ pc[t] = "drain" /\ step[t] = "none" /\ UNCHANGED <<step, next, owed>>
        /\ slots' = [slots EXCEPT ![t] = Found] /\ Found \subseteq owed
    BY <1>2 DEF EntryLook, At, SetSlots, Found
  <2>3. UNCHANGED <<generation, mailbox, token, asleep, scopeVars, gate,
                    lowLatency, kind, workVars>>
    BY <1>2 DEF EntryLook
  <2> QED
    BY <2>1, <2>2, <2>3 DEF Entering, PoolTypes, ProdTypes
<1>3. CASE EntryDrained(t)
  <2>1. /\ pc' = [pc EXCEPT ![t] = "lease"] /\ pc[t] = "clear" /\ step[t] = "none"
        /\ slots' = [slots EXCEPT ![t] = {}] /\ owed' = owed \ slots[t]
        /\ UNCHANGED <<step, next>>
    BY <1>3 DEF EntryDrained, EntryClear, Go, At, SetSlots
  <2>2. UNCHANGED <<generation, mailbox, token, asleep, scopeVars, gate,
                    lowLatency, kind, workVars>>
    BY <1>3 DEF EntryDrained
  <2> QED
    BY <2>1, <2>2 DEF Entering, PoolTypes, ProdTypes
<1>4. CASE EntryPending(t)
  <2>1. /\ pc' = [pc EXCEPT ![t] = "drain"] /\ pc[t] = "clearSome" /\ step[t] = "none"
        /\ slots' = [slots EXCEPT ![t] = {}] /\ owed' = owed \ slots[t]
    BY <1>4 DEF EntryPending, EntryClear, Go, At, SetSlots
  <2>2. \/ UNCHANGED <<step, next>>
        \/ step' = [step EXCEPT ![t] = "store"] /\ next' = [next EXCEPT ![t] = 1]
    BY <1>4 DEF EntryPending, LoadWord
  <2>3. UNCHANGED <<generation, mailbox, token, asleep, scopeVars, gate,
                    lowLatency, kind, workVars>>
    BY <1>4 DEF EntryPending
  <2> QED
    BY <1>1, <2>1, <2>2, <2>3 DEF Entering, PoolTypes, ProdTypes
<1> QED
  BY <1>2, <1>3, <1>4 DEF Entry

(* The generation, the mailboxes and the scopes keep their types. *)
LEMMA PoolStep == IInv /\ [Next]_vars => PoolTypes'
<1> SUFFICES ASSUME IInv, [Next]_vars PROVE PoolTypes'
  OBVIOUS
<1>0. PoolTypes /\ ProdTypes /\ WorkTypes /\ BoundInv /\ PathInv /\ PhaseInv
  BY TypeParts DEF IInv
<1> USE ParkingAssumption DEF ParkingAssumption
<1>1. ASSUME NEW t \in Threads, Drained(t) PROVE PoolTypes'
  <2>1. t \in BeforeDispatch
    BY <1>1 DEF Drained, At, BeforeDispatch
  <2>2. Cardinality(BeforeDispatch) \in Nat /\ Cardinality(BeforeDispatch) # 0
    BY <1>0, <2>1, FS_CardinalityType, FS_EmptySet DEF BoundInv
  <2>3. generation' \in 0 .. MaxCalls
    BY <2>2, <1>0, <1>1 DEF BoundInv, Drained, PoolTypes
  <2> QED
    BY <2>3, <1>0, <1>1 DEF Drained, PoolTypes, scopeVars
<1>2. ASSUME NEW t \in Threads, Publish(t) PROVE PoolTypes'
  <2>1. First(slots[t]) \in Workers
    BY <1>0, <1>2, FirstIn DEF Publish, At, PathInv, PlaceInv, DepthInv,
       ProdTypes
  <2>2. generation \in 0 .. MaxCalls + 1
    BY <1>0 DEF PoolTypes
  <2>3. PICK w \in Workers : mailbox' = [mailbox EXCEPT ![w].gen = generation]
    BY <1>2, <2>1 DEF Publish
  <2>4. mailbox' \in [Workers -> [gen : 0 .. MaxCalls + 1, down : BOOLEAN]]
    BY <2>2, <2>3, <1>0 DEF PoolTypes
  <2> QED
    BY <2>4, <1>0, <1>2 DEF Publish, PoolTypes, scopeVars
<1>3. CASE ShutdownStore
  <2>1. PICK w : w = First(slots[Owner]) /\ w \in Workers /\ w \in slots[Owner]
    BY <1>0, <1>3, FirstIn DEF ShutdownStore, At, PathInv, PlaceInv, DepthInv,
       ProdTypes
  <2>2. mailbox' = [mailbox EXCEPT ![w] = [gen |-> mailbox[w].gen + 1, down |-> TRUE]]
    BY <1>3, <2>1 DEF ShutdownStore
  <2>3. mailbox[w].gen + 1 \in 0 .. MaxCalls + 1
    <3>1. ~mailbox[w].down
      BY <1>0, <1>3, <2>1 DEF PhaseInv, DownAt, ShutdownStore, At
    <3> QED
      BY <3>1, <2>1, <1>0 DEF PhaseInv, OpenAt, PoolTypes
  <2>4. mailbox' \in [Workers -> [gen : 0 .. MaxCalls + 1, down : BOOLEAN]]
    BY <2>2, <2>3, <1>0 DEF PoolTypes
  <2> QED
    BY <2>4, <1>0, <1>3 DEF ShutdownStore, PoolTypes, scopeVars
<1>4. ASSUME NEW t \in Threads, Entry(t) \/ DrainPending(t) \/ Collapse(t) PROVE PoolTypes'
  <2>1. UNCHANGED <<generation, mailbox, depth, epoch>>
    BY <1>4, <1>0, EntryMoves DEF DrainPending, Collapse, scopeVars
  <2>2. owed' \subseteq Workers
    <3>1. CASE Collapse(t)
      <4>1. First(slots[t]) \in Workers
        BY <1>0, <3>1, FirstIn DEF Collapse, At, PathInv, PlaceInv, DepthInv,
           ProdTypes
      <4> QED
        BY <4>1, <3>1, <1>0 DEF Collapse, PoolTypes
    <3> QED
      BY <3>1, <1>4, <1>0, EntryMoves DEF DrainPending, PoolTypes
  <2> QED
    BY <2>1, <2>2, <1>0 DEF PoolTypes
<1>5. CASE ScopeEpoch \/ ScopeDepth \/ ScopeClose
  <2>1. UNCHANGED <<generation, mailbox, owed>>
    BY <1>5 DEF ScopeEpoch, ScopeDepth, ScopeClose
  <2>2. depth' \in 0 .. 1 /\ epoch' \in 0 .. MaxScopes
    <3>1. CASE ScopeEpoch
      BY <3>1, <1>0 DEF ScopeEpoch, PoolTypes
    <3>2. CASE ScopeDepth
      BY <3>2, <1>0 DEF ScopeDepth, PoolTypes, PathInv, PlaceInv, DepthInv, At
    <3>3. CASE ScopeClose
      BY <3>3, <1>0 DEF ScopeClose, PoolTypes, Engaged, InScope
    <3> QED
      BY <3>1, <3>2, <3>3, <1>5
  <2> QED
    BY <2>1, <2>2, <1>0 DEF PoolTypes
<1>6. ASSUME UNCHANGED <<generation, mailbox, owed, depth, epoch>> PROVE PoolTypes'
  BY <1>6, <1>0 DEF PoolTypes
<1>7. ASSUME NEW t \in Threads, NEW k \in Kinds,
             \/ Begin(t, k) \/ Lease(t) \/ ProbeHit(t) \/ ProbeMissed(t) \/ Join(t)
             \/ StoreWord(t) \/ Wake(t)
      PROVE  UNCHANGED <<generation, mailbox, owed, depth, epoch>>
  BY <1>7 DEF Begin, Lease, ProbeHit, ProbeMissed, Join, StoreWord, Wake,
     scopeVars
<1>8. CASE \/ ScopeWake \/ ScopeAcked \/ ScopeRetry \/ Shutdown \/ ShutdownWake \/ ShutdownJoin
           \/ UNCHANGED vars
  <2>1. UNCHANGED <<generation, mailbox, owed, depth, epoch>>
    BY <1>8 DEF ScopeWake, ScopeAcked, ScopeRetry, Shutdown, ShutdownWake,
       ShutdownJoin, scopeVars, vars
  <2> QED
    BY <2>1, <1>6
<1>9. ASSUME NEW w \in Workers,
             \/ Observe(w) \/ Serve(w) \/ Look(w) \/ Ack(w) \/ GiveUp(w) \/ Token(w)
             \/ Recheck(w) \/ Park(w) \/ Woken(w) \/ ChainWake(w) \/ Interrupted(w)
      PROVE  UNCHANGED <<generation, mailbox, owed, depth, epoch>>
  BY <1>9 DEF Observe, Serve, Look, Ack, GiveUp, Token, Recheck, Park, Woken,
     ChainWake, Interrupted, poolVars, scopeVars
<1>10. "for" \in Kinds
  BY DEF Kinds
<1> QED
  BY <1>1, <1>2, <1>3, <1>4, <1>5, <1>6, <1>7, <1>8, <1>9, <1>10, Steps
  DEF CallStep, OwnerStep, WorkStep

(* So do the places of a join. *)
LEMMA NextSlotTypes ==
  ASSUME ProdTypes, NEW t \in Threads, NextSlot(t)
  PROVE  /\ pc' \in [Threads -> PCs] /\ slots' \in [Threads -> SUBSET Workers]
         /\ gate' \in Threads \union {Nobody}
         /\ lowLatency' \in [Threads -> BOOLEAN]
         /\ kind' \in [Threads -> Kinds \union {"none"}]
  BY DEF NextSlot, ProdTypes, SetSlots, Go, PCs

(* The producers' state keeps its types. *)
LEMMA ProdStep == IInv /\ [Next]_vars => ProdTypes'
<1> SUFFICES ASSUME IInv, [Next]_vars PROVE ProdTypes'
  OBVIOUS
<1>0. PoolTypes /\ ProdTypes /\ WorkTypes /\ PathInv /\ PhaseInv
  BY TypeParts DEF IInv
<1>a. Owner \in Threads /\ Far \in Nat /\ 0 \in Stores /\ 1 \in Stores
  BY ParkingAssumption DEF ParkingAssumption, Stores
<1>1. ASSUME NEW t \in Threads, NEW k \in Kinds, Begin(t, k) PROVE ProdTypes'
  BY <1>0, <1>1 DEF ProdTypes, Begin, Go, PCs, InScope
<1>2. ASSUME NEW t \in Threads, Entry(t) \/ Drained(t) \/ ProbeHit(t) PROVE ProdTypes'
  <2>1. CASE Entry(t)
    <3>1. Entering \union {"lease"} \subseteq PCs
      BY DEF Entering, PCs
    <3> QED
      BY <2>1, <3>1, <1>0, EntryMoves DEF ProdTypes
  <2> QED
    BY <1>0, <1>2, <2>1 DEF ProdTypes, Drained, ProbeHit, Go, SetSlots, PCs
<1>3. ASSUME NEW t \in Threads, Lease(t) PROVE ProdTypes'
  BY <1>0, <1>3 DEF ProdTypes, Lease, Go, PCs, WakesNot, InScope
<1>4. ASSUME NEW t \in Threads, DrainPending(t) \/ ProbeMissed(t) PROVE ProdTypes'
  BY <1>0, <1>4, <1>a DEF ProdTypes, DrainPending, ProbeMissed, LoadWord
<1>5. ASSUME NEW t \in Threads, Publish(t) PROVE ProdTypes'
  BY <1>0, <1>5 DEF ProdTypes, Publish, Go, SetSlots, PCs
<1>6. ASSUME NEW t \in Threads, Join(t) \/ Collapse(t) PROVE ProdTypes'
  <2>1. NextSlot(t) /\ UNCHANGED <<step, next>>
    BY <1>6 DEF Join, Collapse
  <2> QED
    BY <2>1, <1>0, NextSlotTypes DEF ProdTypes
<1>7. ASSUME NEW t \in Threads, StoreWord(t) PROVE ProdTypes'
  <2>1. next' \in [Threads -> Stores]
    BY <1>0, <1>7, <1>a DEF StoreWord, ProdTypes, Stores
  <2>2. step' \in [Threads -> {"none", "store", "wake"}]
    BY <1>0, <1>7 DEF StoreWord, ProdTypes
  <2>3. UNCHANGED <<gate, pc, lowLatency, kind, slots>>
    BY <1>7 DEF StoreWord
  <2> QED
    BY <2>1, <2>2, <2>3, <1>0 DEF ProdTypes
<1>8. ASSUME NEW t \in Threads, Wake(t) PROVE ProdTypes'
  <2>1. AfterWake(pc[t]) \in PCs
    BY <1>0 DEF AfterWake, PCs, ProdTypes
  <2> QED
    BY <2>1, <1>0, <1>8 DEF Wake, ProdTypes, Go
<1>9. CASE ScopeEpoch \/ ScopeDepth \/ ScopeAcked \/ ScopeRetry
  BY <1>0, <1>9, <1>a DEF ScopeEpoch, ScopeDepth, ScopeAcked, ScopeRetry,
     ProdTypes, Go, SetSlots, PCs
<1>10. CASE ScopeWake \/ ShutdownWake
  BY <1>0, <1>10, <1>a DEF ScopeWake, ShutdownWake, LoadWord, ProdTypes
<1>11. CASE Shutdown \/ ShutdownStore \/ ShutdownJoin
  BY <1>0, <1>11, <1>a DEF Shutdown, ShutdownStore, ShutdownJoin, ProdTypes,
     Go, SetSlots, PCs
<1>12. CASE ScopeClose \/ UNCHANGED vars
  BY <1>0, <1>12 DEF ScopeClose, vars, prodVars, ProdTypes
<1>13. ASSUME NEW w \in Workers,
              \/ Observe(w) \/ Serve(w) \/ Look(w) \/ Ack(w) \/ GiveUp(w) \/ Token(w)
              \/ Recheck(w) \/ Park(w) \/ Woken(w) \/ ChainWake(w) \/ Interrupted(w)
       PROVE  UNCHANGED prodVars
  BY <1>13 DEF Observe, Serve, Look, Ack, GiveUp, Token, Recheck, Park, Woken,
     ChainWake, Interrupted, poolVars
<1>14. UNCHANGED prodVars => ProdTypes'
  BY <1>0 DEF prodVars, ProdTypes
<1> QED
  BY <1>1, <1>2, <1>3, <1>4, <1>5, <1>6, <1>7, <1>8, <1>9, <1>10, <1>11,
     <1>12, <1>13, <1>14, Steps DEF CallStep, OwnerStep, WorkStep

-----------------------------------------------------------------------------
(* Who is in the kernel's queue. *)
LEMMA Queued ==
  ASSUME QueueTypes
  PROVE  /\ Len(asleep) \in Nat /\ DOMAIN asleep = 1 .. Len(asleep)
         /\ \A i \in 1 .. Len(asleep) : asleep[i] \in Workers
              /\ wpc[asleep[i]] = "asleep"
         /\ \A i, j \in 1 .. Len(asleep) : asleep[i] = asleep[j] => i = j
         /\ \A w \in Workers : wpc[w] = "asleep"
              => \E i \in 1 .. Len(asleep) : asleep[i] = w
<1>1. /\ asleep \in Seq(Workers) /\ IsInjective(asleep)
      /\ ToSet(asleep) = {w \in Workers : wpc[w] = "asleep"}
  BY DEF QueueTypes
<1>2. Len(asleep) \in Nat /\ DOMAIN asleep = 1 .. Len(asleep)
  BY <1>1, LenProperties
<1>3. ASSUME NEW i \in 1 .. Len(asleep)
      PROVE  asleep[i] \in Workers /\ wpc[asleep[i]] = "asleep"
  <2>1. asleep[i] \in ToSet(asleep)
    BY <1>2 DEF ToSet
  <2> QED
    BY <2>1, <1>1
<1>4. ASSUME NEW w \in Workers, wpc[w] = "asleep"
      PROVE  \E i \in 1 .. Len(asleep) : asleep[i] = w
  <2>1. w \in ToSet(asleep)
    BY <1>1, <1>4
  <2> QED
    BY <2>1, <1>2 DEF ToSet
<1>5. \A i, j \in 1 .. Len(asleep) : asleep[i] = asleep[j] => i = j
  BY <1>1, <1>2, SMTT(30) DEF IsInjective
<1> QED
  BY <1>2, <1>3, <1>4, <1>5

(* A wake that reaches k of the queue. *)
LEMMA WakesOf ==
  ASSUME TypeOK, NEW n \in Nat, WakeUp(n)
  PROVE  \E k \in 0 .. Len(asleep) :
           /\ k = (IF n <= Len(asleep) THEN n ELSE Len(asleep))
           /\ asleep' \in Seq(Workers) /\ IsInjective(asleep')
           /\ Len(asleep') = Len(asleep) - k
           /\ \A i \in 1 .. Len(asleep') : asleep'[i] = asleep[k + i]
           /\ wpc' = [w \in Workers |-> IF w \in {asleep[i] : i \in 1 .. k} THEN "woken" ELSE wpc[w]]
           /\ ToSet(asleep') = ToSet(asleep) \ {asleep[i] : i \in 1 .. k}
<1>1. asleep \in Seq(Workers) /\ IsInjective(asleep) /\ Len(asleep) \in Nat
  BY LenProperties DEF TypeOK
<1> DEFINE k == IF n <= Len(asleep) THEN n ELSE Len(asleep)
<1>2. k \in 0 .. Len(asleep) /\ Min({n, Len(asleep)}) = k
  BY <1>1, SmallerOf
<1> HIDE DEF k
<1>3. /\ asleep' = SubSeq(asleep, k + 1, Len(asleep))
      /\ wpc' = [w \in Workers |-> IF w \in ToSet(SubSeq(asleep, 1, k)) THEN "woken" ELSE wpc[w]]
  BY <1>2 DEF WakeUp
<1>4. LET r == SubSeq(asleep, k + 1, Len(asleep))
          out == ToSet(SubSeq(asleep, 1, k))
      IN  /\ r \in Seq(Workers) /\ Len(r) = Len(asleep) - k
          /\ \A i \in 1 .. Len(r) : r[i] = asleep[k + i]
          /\ IsInjective(r)
          /\ out = {asleep[i] : i \in 1 .. k}
          /\ ToSet(r) = ToSet(asleep) \ out
  BY <1>1, <1>2, Popped
<1>5. k = (IF n <= Len(asleep) THEN n ELSE Len(asleep))
  BY DEF k
<1> QED
  BY <1>2, <1>3, <1>4, <1>5

(* The wake of a woken worker reaches two of the queue. *)
LEMMA ChainsOf ==
  ASSUME TypeOK, NEW v \in Workers, ChainWake(v)
  PROVE  \E k \in 0 .. Len(asleep) :
           /\ k = (IF 2 <= Len(asleep) THEN 2 ELSE Len(asleep))
           /\ asleep' \in Seq(Workers) /\ IsInjective(asleep')
           /\ Len(asleep') = Len(asleep) - k
           /\ \A i \in 1 .. Len(asleep') : asleep'[i] = asleep[k + i]
           /\ wpc' = [w \in Workers |-> IF w = v THEN "serve"
                                        ELSE IF w \in {asleep[i] : i \in 1 .. k} THEN "woken"
                                        ELSE wpc[w]]
           /\ ToSet(asleep') = ToSet(asleep) \ {asleep[i] : i \in 1 .. k}
<1>1. asleep \in Seq(Workers) /\ IsInjective(asleep) /\ Len(asleep) \in Nat
  BY LenProperties DEF TypeOK
<1> DEFINE k == IF 2 <= Len(asleep) THEN 2 ELSE Len(asleep)
<1>2. k \in 0 .. Len(asleep) /\ Min({2, Len(asleep)}) = k
  BY <1>1, SmallerOf
<1> HIDE DEF k
<1>4. LET r == SubSeq(asleep, k + 1, Len(asleep))
          out == ToSet(SubSeq(asleep, 1, k))
      IN  /\ r \in Seq(Workers) /\ Len(r) = Len(asleep) - k
          /\ \A i \in 1 .. Len(r) : r[i] = asleep[k + i]
          /\ IsInjective(r)
          /\ out = {asleep[i] : i \in 1 .. k}
          /\ ToSet(r) = ToSet(asleep) \ out
  BY <1>1, <1>2, Popped
<1>6. v \notin ToSet(SubSeq(asleep, 1, k))
  <2>1. wpc[v] = "chain"
          /\ \A i \in 1 .. Len(asleep) : wpc[asleep[i]] = "asleep"
    BY Queued, TypeParts DEF ChainWake, WAt
  <2> QED
    BY <2>1, <1>1, <1>2, <1>4
<1>3. /\ asleep' = SubSeq(asleep, k + 1, Len(asleep))
      /\ wpc' = [w \in Workers |-> IF w = v THEN "serve"
                                   ELSE IF w \in ToSet(SubSeq(asleep, 1, k)) THEN "woken"
                                   ELSE wpc[w]]
  BY <1>2, <1>6 DEF ChainWake
<1>5. k = (IF 2 <= Len(asleep) THEN 2 ELSE Len(asleep))
  BY DEF k
<1> QED
  BY <1>2, <1>3, <1>4, <1>5

(* How many a wake is for. *)
LEMMA WokenMany == ASSUME TypeOK, NEW here PROVE WokenFrom(here) \in Nat
<1>1. Len(asleep) \in Nat
  BY LenProperties DEF TypeOK
<1> QED
  BY <1>1 DEF WokenFrom, Everybody

-----------------------------------------------------------------------------
(***************************************************************************)
(* What a step may do to the workers and to the kernel's queue.            *)
(***************************************************************************)
(* A turn of the worker's loop that leaves the queue alone. *)
LoopStep(w) ==
  \/ Observe(w) \/ Serve(w) \/ Look(w) \/ Ack(w) \/ GiveUp(w) \/ Token(w)
  \/ Recheck(w) \/ Woken(w)

(* A turn of the loop leaves the pool alone and puts nobody to sleep. *)
LEMMA LoopMoves ==
  ASSUME WorkTypes, NEW w \in Workers, LoopStep(w)
  PROVE  /\ UNCHANGED <<poolVars, asleep>>
         /\ wpc[w] # "asleep"
         /\ \E x \in WPCs \ {"asleep"} : wpc' = [wpc EXCEPT ![w] = x]
<1>1. CASE Observe(w)
  BY <1>1 DEF Observe, Take, WGo, WPCs
<1>2. CASE Serve(w) \/ Look(w) \/ Ack(w) \/ GiveUp(w) \/ Token(w)
  BY <1>2 DEF Serve, Look, Ack, GiveUp, Token, WGo, WPCs, WAt
<1>3. CASE Recheck(w)
  BY <1>3 DEF Recheck, Take, WGo, WPCs, WAt
<1>4. CASE Woken(w)
  <2>1. UNCHANGED <<poolVars, asleep>> /\ wpc[w] = "woken"
    BY <1>4 DEF Woken, WAt
  <2>2. CASE New(w)
    <3>1. /\ wpc' = [wpc EXCEPT ![w] = CASE Chains(w) -> "chain"
                                         [] mailbox[w].down -> "exited"
                                         [] OTHER -> "serve"]
      BY <2>2, <1>4 DEF Woken, WGo
    <3>2. Chains(w) => ~mailbox[w].down
      BY DEF Chains
    <3> QED
      BY <2>1, <3>1, <3>2 DEF WPCs
  <2>3. CASE ~New(w)
    BY <2>1, <2>3, <1>4 DEF Woken, WGo, WPCs
  <2> QED
    BY <2>2, <2>3
<1> QED
  BY <1>1, <1>2, <1>3, <1>4 DEF LoopStep

(* The workers' state keeps its types. *)
LEMMA WorkStepTypes == IInv /\ [Next]_vars => WorkTypes'
<1> SUFFICES ASSUME IInv, [Next]_vars PROVE WorkTypes'
  OBVIOUS
<1>0. PoolTypes /\ ProdTypes /\ WorkTypes /\ QueueTypes /\ PathInv /\ PhaseInv
        /\ TypeOK
  BY TypeParts DEF IInv
<1>a. Far \in Nat /\ MaxCalls \in Nat /\ MaxScopes \in Nat /\ Stale \in Tokens
        /\ 0 \in Tokens
      /\ Stale \in Int
  BY ParkingAssumption DEF ParkingAssumption, Tokens, Stale
<1>1. ASSUME NEW t \in Threads, StoreWord(t) PROVE WorkTypes'
  <2> DEFINE d == next[t]
             others == {u \in Threads \ {t} : step[u] = "store"}
             Shifted(x) == IF x < d
               /\ \A u \in others : x < next[u] THEN Stale ELSE x - d
  <2>1. /\ \A u \in others : next[u] - d >= -Far
        /\ token' = [w \in Workers |-> IF token[w] = Stale THEN Stale ELSE Shifted(token[w])]
        /\ UNCHANGED workVars
    BY <1>1 DEF StoreWord
  <2>2. d \in Int /\ \A u \in others : next[u] \in Int
    BY <1>0 DEF ProdTypes, Stores
  <2>3. ASSUME NEW w \in Workers PROVE token'[w] \in Tokens
    <3>1. token[w] \in Int
      BY <1>0 DEF WorkTypes, Tokens
    <3>2. CASE token[w] = Stale
      BY <3>2, <2>1, <1>a
    <3>3. CASE token[w] # Stale
      <4>1. token'[w] = Shifted(token[w])
        BY <3>3, <2>1
      <4>2. CASE token[w] < d /\ \A u \in others : token[w] < next[u]
        BY <4>1, <4>2, <1>a
      <4>3. CASE ~(token[w] < d /\ \A u \in others : token[w] < next[u])
        <5>1. token'[w] = token[w] - d
          BY <4>1, <4>3
        <5>2. CASE token[w] >= d
          BY <5>1, <5>2, <3>1, <2>2, <1>a DEF Tokens, Stale
        <5>3. ASSUME NEW u \in others, token[w] >= next[u] PROVE token'[w] \in Tokens
          BY <5>1, <5>3, <3>1, <2>1, <2>2, <1>a DEF Tokens, Stale
        <5> QED
          BY <5>2, <5>3, <4>3, <3>1, <2>2
      <4> QED
        BY <4>2, <4>3
    <3> QED
      BY <3>2, <3>3
  <2>4. token' \in [Workers -> Tokens]
    BY <2>1, <2>3
  <2> QED
    BY <2>1, <2>4, <1>0 DEF WorkTypes, workVars
<1>2. ASSUME NEW t \in Threads, Wake(t) PROVE WorkTypes'
  <2>1. UNCHANGED <<token, obs, seen, hotEpoch>> /\ WakeUp(WokenFrom(pc[t]))
    BY <1>2 DEF Wake
  <2>2. WokenFrom(pc[t]) \in Nat
    BY WokenMany, <1>0
  <2>3. wpc' \in [Workers -> WPCs]
    <3>1. PICK S : wpc' = [w \in Workers |-> IF w \in S THEN "woken" ELSE wpc[w]]
      BY <2>1, <2>2, <1>0, WakesOf
    <3> QED
      BY <3>1, <1>0 DEF WorkTypes, WPCs
  <2> QED
    BY <2>1, <2>3, <1>0 DEF WorkTypes
<1>3. ASSUME NEW w \in Workers, LoopStep(w) PROVE WorkTypes'
  <2>1. wpc' \in [Workers -> WPCs]
    <3>1. PICK x \in WPCs : wpc' = [wpc EXCEPT ![w] = x]
      BY <1>0, <1>3, LoopMoves
    <3> QED
      BY <3>1, <1>0 DEF WorkTypes
  <2>2. token' \in [Workers -> Tokens]
    <3>1. CASE Token(w) \/ Recheck(w)
      BY <3>1, <1>0, <1>a DEF Token, Recheck, Forget, WorkTypes
    <3>2. CASE ~(Token(w) \/ Recheck(w))
      BY <3>2, <1>0, <1>3 DEF LoopStep, Observe, Serve, Look, Ack, GiveUp,
         Woken, WorkTypes
    <3> QED
      BY <3>1, <3>2
  <2>3. obs' \in [Workers -> 0 .. MaxCalls + 1]
    <3>1. mailbox[w].gen \in 0 .. MaxCalls + 1 /\ 0 \in 0 .. MaxCalls + 1
      BY <1>0, <1>a DEF PoolTypes
    <3>2. CASE Observe(w) \/ Recheck(w)
      BY <3>1, <3>2, <1>0 DEF Observe, Recheck, Take, WorkTypes
    <3>3. CASE Serve(w) \/ Woken(w)
      BY <3>1, <3>3, <1>0 DEF Serve, Woken, WorkTypes
    <3>4. CASE Look(w) \/ Ack(w) \/ GiveUp(w) \/ Token(w)
      BY <3>4, <1>0 DEF Look, Ack, GiveUp, Token, WorkTypes
    <3> QED
      BY <3>2, <3>3, <3>4, <1>3 DEF LoopStep
  <2>4. seen' \in [Workers -> 0 .. MaxCalls]
    <3>1. CASE Serve(w)
      <4>1. obs[w] \in 0 .. MaxCalls
        BY <3>1, <1>0, <1>a DEF Serve, WAt, PhaseInv, ServesAt, PoolTypes,
           WorkTypes
      <4> QED
        BY <4>1, <3>1, <1>0 DEF Serve, WorkTypes
    <3>2. CASE ~Serve(w)
      BY <3>2, <1>0, <1>3 DEF LoopStep, Observe, Look, Ack, GiveUp, Token,
         Recheck, Woken, WorkTypes
    <3> QED
      BY <3>1, <3>2
  <2>5. hotEpoch' \in [Workers -> 0 .. MaxScopes]
    <3>1. CASE Ack(w)
      BY <3>1, <1>0 DEF Ack, WorkTypes, PoolTypes
    <3>2. CASE ~Ack(w)
      BY <3>2, <1>0, <1>3 DEF LoopStep, Observe, Look, Serve, GiveUp, Token,
         Recheck, Woken, WorkTypes
    <3> QED
      BY <3>1, <3>2
  <2> QED
    BY <2>1, <2>2, <2>3, <2>4, <2>5 DEF WorkTypes
<1>4. ASSUME NEW w \in Workers, Park(w) PROVE WorkTypes'
  BY <1>0, <1>4, <1>a DEF Park, Forget, WGo, WorkTypes, WPCs
<1>5. ASSUME NEW w \in Workers, Interrupted(w) PROVE WorkTypes'
  BY <1>0, <1>5 DEF Interrupted, WGo, WorkTypes, WPCs
<1>6. ASSUME NEW v \in Workers, ChainWake(v) PROVE WorkTypes'
  <2>1. UNCHANGED <<token, obs, seen, hotEpoch>>
    BY <1>6 DEF ChainWake
  <2>2. PICK S : wpc' = [w \in Workers |-> IF w = v THEN "serve"
                                      ELSE IF w \in S THEN "woken" ELSE wpc[w]]
    BY <1>6, <1>0, ChainsOf
  <2>3. wpc' \in [Workers -> WPCs]
    BY <2>2, <1>0 DEF WorkTypes, WPCs
  <2> QED
    BY <2>1, <2>3, <1>0 DEF WorkTypes
<1>7. ASSUME NEW t \in Threads, NEW k \in Kinds,
             \/ Begin(t, k) \/ Entry(t) \/ Lease(t) \/ Drained(t) \/ DrainPending(t)
             \/ Publish(t) \/ ProbeHit(t) \/ ProbeMissed(t) \/ Join(t) \/ Collapse(t)
      PROVE  UNCHANGED <<workVars, token>>
  BY <1>7 DEF Begin, Entry, EntryLook, EntryDrained, EntryPending, Lease, Drained,
     DrainPending, Publish, ProbeHit, ProbeMissed, Join, Collapse
<1>8. CASE OwnerStep
  BY <1>8, <1>0 DEF OwnerStep, ScopeEpoch, ScopeDepth, ScopeWake, ScopeAcked,
     ScopeRetry, ScopeClose, Shutdown, ShutdownStore, ShutdownWake,
     ShutdownJoin, workVars, WorkTypes
<1>9. UNCHANGED <<workVars, token>> => WorkTypes'
  BY <1>0 DEF workVars, WorkTypes
<1>10. "for" \in Kinds
  BY DEF Kinds
<1>11. UNCHANGED vars => UNCHANGED <<workVars, token>>
  BY DEF vars
<1> QED
  BY <1>1, <1>2, <1>3, <1>4, <1>5, <1>6, <1>7, <1>8, <1>9, <1>10, <1>11, Steps
  DEF CallStep, WorkStep, LoopStep

(* The queue holds each sleeping worker once, after every step. *)
LEMMA QueueStep == IInv /\ [Next]_vars => QueueTypes'
<1> SUFFICES ASSUME IInv, [Next]_vars PROVE QueueTypes'
  OBVIOUS
<1>0. WorkTypes /\ QueueTypes /\ TypeOK
  BY TypeParts DEF IInv
<1>1. ASSUME NEW t \in Threads, Wake(t) PROVE QueueTypes'
  <2>1. WakeUp(WokenFrom(pc[t])) /\ WokenFrom(pc[t]) \in Nat
    BY <1>1, <1>0, WokenMany DEF Wake
  <2>2. PICK S : /\ asleep' \in Seq(Workers) /\ IsInjective(asleep')
                 /\ wpc' = [w \in Workers |-> IF w \in S THEN "woken" ELSE wpc[w]]
                 /\ ToSet(asleep') = ToSet(asleep) \ S
    BY <2>1, <1>0, WakesOf
  <2> QED
    BY <2>2, <1>0 DEF QueueTypes
<1>2. ASSUME NEW w \in Workers, LoopStep(w) PROVE QueueTypes'
  <2>1. PICK x \in WPCs \ {"asleep"} : wpc' = [wpc EXCEPT ![w] = x]
    BY <1>0, <1>2, LoopMoves
  <2>2. wpc[w] # "asleep" /\ asleep' = asleep
    BY <1>0, <1>2, LoopMoves
  <2>3. {v \in Workers : wpc'[v] = "asleep"} = {v \in Workers : wpc[v] = "asleep"}
    BY <2>1, <2>2, <1>0 DEF WorkTypes
  <2> QED
    BY <2>2, <2>3, <1>0 DEF QueueTypes
<1>3. ASSUME NEW w \in Workers, Park(w) PROVE QueueTypes'
  <2>1. wpc[w] = "park" /\ w \notin ToSet(asleep)
    BY <1>0, <1>3 DEF Park, WAt, QueueTypes
  <2>2. CASE token[w] = 0
    <3>1. asleep' = Append(asleep, w) /\ wpc' = [wpc EXCEPT ![w] = "asleep"]
      BY <1>3, <2>2 DEF Park, WGo
    <3>2. asleep \in Seq(Workers) /\ Len(asleep) \in Nat
            /\ DOMAIN asleep = 1 .. Len(asleep)
      BY <1>0, Queued DEF QueueTypes
    <3>3. /\ asleep' \in Seq(Workers) /\ Len(asleep') = Len(asleep) + 1
          /\ \A i \in 1 .. Len(asleep) : asleep'[i] = asleep[i]
          /\ asleep'[Len(asleep) + 1] = w
      BY <3>1, <3>2, AppendProperties
    <3>4. DOMAIN asleep' = 1 .. Len(asleep) + 1
      BY <3>3, LenProperties
    <3>5. \A i \in 1 .. Len(asleep) : asleep[i] # w
      BY <2>1, <3>2 DEF ToSet
    <3>6. IsInjective(asleep')
      <4> SUFFICES ASSUME NEW i \in 1 .. Len(asleep) + 1, NEW j \in 1 .. Len(asleep) + 1,
                          asleep'[i] = asleep'[j]
                   PROVE  i = j
        BY <3>4 DEF IsInjective
      <4>1. i \in 1 .. Len(asleep) \/ i = Len(asleep) + 1
        BY <3>2
      <4>2. j \in 1 .. Len(asleep) \/ j = Len(asleep) + 1
        BY <3>2
      <4> QED
        BY <4>1, <4>2, <3>3, <3>5, <1>0, Queued
    <3>7. ToSet(asleep') = ToSet(asleep) \union {w}
      <4>1. \A i \in 1 .. Len(asleep) + 1 : i \in 1 .. Len(asleep) \/ i = Len(asleep) + 1
        BY <3>2
      <4>2. \A i \in 1 .. Len(asleep) : i \in 1 .. Len(asleep) + 1
        BY <3>2
      <4>3. Len(asleep) + 1 \in 1 .. Len(asleep) + 1
        BY <3>2
      <4>4. \A x \in ToSet(asleep') : x \in ToSet(asleep) \union {w}
        BY <4>1, <3>2, <3>3, <3>4 DEF ToSet
      <4>5. \A x \in ToSet(asleep) : x \in ToSet(asleep')
        BY <4>2, <3>2, <3>3, <3>4 DEF ToSet
      <4>6. w \in ToSet(asleep')
        BY <4>3, <3>3, <3>4 DEF ToSet
      <4> QED
        BY <4>4, <4>5, <4>6
    <3>8. {v \in Workers : wpc'[v] = "asleep"} = {v \in Workers : wpc[v] = "asleep"} \union {w}
      BY <3>1, <1>0 DEF WorkTypes
    <3> QED
      BY <3>3, <3>6, <3>7, <3>8, <1>0 DEF QueueTypes
  <2>3. CASE token[w] # 0
    <3>1. asleep' = asleep /\ wpc' = [wpc EXCEPT ![w] = "woken"]
      BY <1>3, <2>3 DEF Park, WGo
    <3>2. {v \in Workers : wpc'[v] = "asleep"} = {v \in Workers : wpc[v] = "asleep"}
      BY <3>1, <2>1, <1>0 DEF WorkTypes
    <3> QED
      BY <3>1, <3>2, <1>0 DEF QueueTypes
  <2> QED
    BY <2>2, <2>3
<1>4. ASSUME NEW w \in Workers, Interrupted(w) PROVE QueueTypes'
  <2>1. PICK i \in 1 .. Len(asleep) : asleep[i] = w
          /\ asleep' = RemoveAt(asleep, i)
    BY <1>4, <1>0, Queued DEF Interrupted
  <2>2. asleep \in Seq(Workers) /\ IsInjective(asleep)
    BY <1>0 DEF QueueTypes
  <2>3. /\ RemoveAt(asleep, i) \in Seq(Workers)
             /\ IsInjective(RemoveAt(asleep, i))
        /\ ToSet(RemoveAt(asleep, i)) = ToSet(asleep) \ {asleep[i]}
    BY <2>2, Plucked
  <2>4. asleep' \in Seq(Workers) /\ IsInjective(asleep')
          /\ ToSet(asleep') = ToSet(asleep) \ {w}
    BY <2>1, <2>3
  <2>5. {v \in Workers : wpc'[v] = "asleep"} = {v \in Workers : wpc[v] = "asleep"} \ {w}
    BY <1>4, <1>0 DEF Interrupted, WGo, WorkTypes
  <2> QED
    BY <2>4, <2>5, <1>0 DEF QueueTypes
<1>5. ASSUME NEW v \in Workers, ChainWake(v) PROVE QueueTypes'
  <2>1. PICK S : /\ asleep' \in Seq(Workers) /\ IsInjective(asleep')
                 /\ wpc' = [w \in Workers |-> IF w = v THEN "serve"
                                         ELSE IF w \in S THEN "woken" ELSE wpc[w]]
                 /\ ToSet(asleep') = ToSet(asleep) \ S
    BY <1>5, <1>0, ChainsOf
  <2>2. wpc[v] # "asleep"
    BY <1>5 DEF ChainWake, WAt
  <2> QED
    BY <2>1, <2>2, <1>0 DEF QueueTypes
<1>6. ASSUME NEW t \in Threads, NEW k \in Kinds,
             \/ Begin(t, k) \/ Entry(t) \/ Lease(t) \/ Drained(t) \/ DrainPending(t)
             \/ Publish(t) \/ ProbeHit(t) \/ ProbeMissed(t) \/ Join(t) \/ Collapse(t)
             \/ StoreWord(t)
      PROVE  UNCHANGED <<asleep, wpc>>
  BY <1>6 DEF Begin, Entry, EntryLook, EntryDrained, EntryPending, Lease, Drained,
     DrainPending, Publish, ProbeHit, ProbeMissed, Join, Collapse, StoreWord, workVars
<1>7. CASE OwnerStep
  BY <1>7, <1>0 DEF OwnerStep, ScopeEpoch, ScopeDepth, ScopeWake, ScopeAcked,
     ScopeRetry, ScopeClose, Shutdown, ShutdownStore, ShutdownWake,
     ShutdownJoin, workVars, QueueTypes
<1>8. UNCHANGED <<asleep, wpc>> => QueueTypes'
  BY <1>0 DEF QueueTypes
<1>9. UNCHANGED vars => UNCHANGED <<asleep, wpc>>
  BY DEF vars, workVars
<1>10. "for" \in Kinds
  BY DEF Kinds
<1> QED
  BY <1>1, <1>2, <1>3, <1>4, <1>5, <1>6, <1>7, <1>8, <1>9, <1>10, Steps
  DEF CallStep, WorkStep, LoopStep

-----------------------------------------------------------------------------
(***************************************************************************)
(* Where the producers are: PlaceInv.                                      *)
(***************************************************************************)
WakePlaces == {"drain", "locked", "probe", "scopeWake", "stopWake"}
LoopPlaces == {"publish", "join", "stop", "scopeWake", "scopeWait"}

(* A producer takes a step to another place, or stays where it is. *)
LEMMA PlaceMoves ==
  ASSUME ProdTypes, PlaceInv, NEW t \in Threads, NEW x \in PCs,
         pc' = [pc EXCEPT ![t] = x],
         \A u \in Threads \ {t} : /\ slots'[u] = slots[u] /\ step'[u] = step[u]
                                  /\ gate' = u <=> gate = u,
         t # Owner => x \in Calling \union {"idle"},
         Ending' /\ x # "idle" => t = Owner,
         Ending' => Ending \/ \A u \in Threads : pc[u] = "idle",
         x \in LoopPlaces => slots'[t] # {},
         x = "probe" => slots'[t] = Workers,
         x \in Gated <=> gate' = t,
         step'[t] # "none" => x \in WakePlaces
  PROVE  PlaceInv'
<1> SUFFICES ASSUME NEW u \in Threads
    PROVE /\ u # Owner => pc'[u] \in Calling \union {"idle"}
          /\ Ending' /\ u # Owner => pc'[u] = "idle"
          /\ pc'[u] \in {"publish", "join", "stop"} \union Scoping
               => slots'[u] # {}
          /\ pc'[u] = "probe" => slots'[u] = Workers
          /\ pc'[u] \in Gated <=> gate' = u
          /\ step'[u] # "none"
               => pc'[u] \in {"drain", "locked", "probe", "scopeWake", "stopWake"}
  BY DEF PlaceInv
<1>1. CASE u = t
  <2>1. pc'[u] = x
    BY <1>1 DEF ProdTypes
  <2> QED
    BY <2>1, <1>1 DEF LoopPlaces, WakePlaces, Scoping
<1>2. CASE u # t
  <2>1. pc'[u] = pc[u]
    BY <1>2 DEF ProdTypes
  <2> QED
    BY <2>1, <1>2 DEF PlaceInv
<1> QED
  BY <1>1, <1>2

(* Only the owner's own steps begin the end. *)
LEMMA EndingPlace ==
  ASSUME ProdTypes, NEW t \in Threads, NEW x, pc' = [pc EXCEPT ![t] = x],
         t = Owner => x \notin {"stop", "stopWake", "stopJoin", "destroyed"}
  PROVE  Ending' => Ending /\ t # Owner
<1>1. Owner \in Threads
  BY ParkingAssumption DEF ParkingAssumption
<1> QED
  BY <1>1 DEF Ending, ProdTypes

(* Every step keeps the producers in their places. *)
LEMMA PlaceStep == IInv /\ [Next]_vars => PlaceInv'
<1> SUFFICES ASSUME IInv, [Next]_vars PROVE PlaceInv'
  OBVIOUS
<1>0. PoolTypes /\ ProdTypes /\ PlaceInv /\ ProdTypes' /\ Owner \in Threads
        /\ Nobody \notin Threads
      /\ Workers # {}
  BY TypeParts, ProdStep, ParkingAssumption DEF IInv, PathInv,
     ParkingAssumption
<1>1. ASSUME NEW t \in Threads, NEW k \in Kinds, Begin(t, k) PROVE PlaceInv'
  <2>1. PICK x \in {"drain", "lease"} : pc' = [pc EXCEPT ![t] = x]
    BY <1>1 DEF Begin, Go
  <2>2. UNCHANGED <<slots, step, gate>> /\ pc[t] = "idle" /\ step[t] = "none"
          /\ ~Ending
    BY <1>1 DEF Begin, At
  <2>3. ~Ending'
    BY <2>1, <2>2, <1>0, EndingPlace
  <2>4. gate # t
    BY <2>2, <1>0 DEF PlaceInv, Gated
  <2>5. x \in PCs /\ x \in Calling /\ x \notin LoopPlaces /\ x \notin Gated
    BY <2>1 DEF PCs, Calling, Entering, LoopPlaces, Gated
  <2> QED
    BY <2>1, <2>2, <2>3, <2>4, <2>5, <1>0, PlaceMoves
<1>e. ASSUME NEW t \in Threads, Entry(t) PROVE PlaceInv'
  <2>1. /\ pc[t] \in Entering /\ step[t] = "none" /\ UNCHANGED gate
        /\ \A u \in Threads \ {t} : slots'[u] = slots[u] /\ step'[u] = step[u]
    BY <1>e, <1>0, EntryMoves
  <2>2. PICK x \in Entering \union {"lease"} :
           pc' = [pc EXCEPT ![t] = x] /\ (step'[t] # "none" => x = "drain")
    BY <1>e, <1>0, EntryMoves
  <2>3. Ending' => Ending /\ t # Owner
    BY <2>2, <1>0, EndingPlace DEF Entering
  <2>4. Ending' => FALSE
    BY <2>3, <2>1, <1>0 DEF PlaceInv, Entering
  <2>5. gate # t
    BY <2>1, <1>0 DEF PlaceInv, Gated, Entering
  <2>6. x \in PCs /\ x \in Calling /\ x \notin LoopPlaces /\ x \notin Gated
          /\ x # "probe" /\ (step'[t] # "none" => x \in WakePlaces)
    BY <2>2 DEF PCs, Calling, Entering, LoopPlaces, Gated, WakePlaces
  <2> QED
    BY <2>1, <2>2, <2>4, <2>5, <2>6, <1>0, PlaceMoves
<1>2. ASSUME NEW t \in Threads, ProbeHit(t) PROVE PlaceInv'
  <2>1. pc' = [pc EXCEPT ![t] = "join"]
    BY <1>2 DEF ProbeHit, Go
  <2>2. UNCHANGED <<slots, step, gate>> /\ pc[t] = "probe" /\ step[t] = "none"
    BY <1>2 DEF ProbeHit, At
  <2>3. Ending' => Ending /\ t # Owner
    BY <2>1, <1>0, EndingPlace
  <2>4. Ending' => FALSE
    BY <2>3, <2>2, <1>0 DEF PlaceInv
  <2>5. "join" \in PCs /\ "join" \in Calling /\ slots[t] # {} /\ "join" \in Gated
          /\ gate = t
    BY <2>2, <1>0 DEF PCs, Calling, Entering, Gated, PlaceInv
  <2> QED
    BY <2>1, <2>2, <2>4, <2>5, <1>0, PlaceMoves
<1>3. ASSUME NEW t \in Threads, Lease(t) PROVE PlaceInv'
  <2>1. pc' = [pc EXCEPT ![t] = "locked"] /\ gate = Nobody /\ gate' = t
    BY <1>3 DEF Lease, Go
  <2>2. UNCHANGED <<slots, step>> /\ pc[t] = "lease" /\ step[t] = "none"
    BY <1>3 DEF Lease, At
  <2>3. Ending' => Ending /\ t # Owner
    BY <2>1, <1>0, EndingPlace
  <2>4. Ending' => FALSE
    BY <2>3, <2>2, <1>0 DEF PlaceInv
  <2>5. "locked" \in PCs /\ "locked" \in Calling /\ "locked" \notin LoopPlaces
          /\ "locked" \in Gated
    BY DEF PCs, Calling, Entering, LoopPlaces, Gated
  <2> QED
    BY <2>1, <2>2, <2>4, <2>5, <1>0, PlaceMoves
<1>4. ASSUME NEW t \in Threads, Drained(t) PROVE PlaceInv'
  <2>1. pc' = [pc EXCEPT ![t] = "publish"]
          /\ slots' = [slots EXCEPT ![t] = Workers]
    BY <1>4 DEF Drained, Go, SetSlots
  <2>2. UNCHANGED <<gate, step>> /\ pc[t] = "locked" /\ step[t] = "none"
    BY <1>4 DEF Drained, At
  <2>3. Ending' => Ending /\ t # Owner
    BY <2>1, <1>0, EndingPlace
  <2>4. Ending' => FALSE
    BY <2>3, <2>2, <1>0 DEF PlaceInv
  <2>5. gate = t
    BY <2>2, <1>0 DEF PlaceInv, Gated
  <2>6. "publish" \in PCs /\ "publish" \in Calling /\ "publish" \in Gated
    BY DEF PCs, Calling, Entering, Gated
  <2>7. slots'[t] = Workers /\ \A u \in Threads \ {t} : slots'[u] = slots[u]
    BY <2>1, <1>0 DEF ProdTypes
  <2> QED
    BY <2>1, <2>2, <2>4, <2>5, <2>6, <2>7, <1>0, PlaceMoves
<1>5. ASSUME NEW t \in Threads, DrainPending(t) \/ ProbeMissed(t) PROVE PlaceInv'
  <2>1. UNCHANGED <<pc, slots, gate>> /\ pc[t] \in {"drain", "locked", "probe"}
        /\ step' = [step EXCEPT ![t] = "store"]
    BY <1>5 DEF DrainPending, ProbeMissed, LoadWord, At
  <2> QED
    BY <2>1, <1>0 DEF PlaceInv, ProdTypes, Ending
<1>6. ASSUME NEW t \in Threads, Publish(t) PROVE PlaceInv'
  <2>1. PICK x \in {"publish", "probe", "join"} :
           /\ pc' = [pc EXCEPT ![t] = x]
           /\ IF x = "publish" THEN slots[t] \ {First(slots[t])} # {}
                                   /\ slots' = [slots EXCEPT ![t] = slots[t] \ {First(slots[t])}]
                              ELSE slots' = [slots EXCEPT ![t] = Workers]
    <3>1. pc[t] = "publish" /\ slots[t] # {}
      BY <1>6, <1>0 DEF Publish, At, PlaceInv
    <3>2. CASE slots[t] = {First(slots[t])}
      BY <3>2, <1>6 DEF Publish, Go, SetSlots
    <3>3. CASE slots[t] # {First(slots[t])}
      <4>1. pc' = [pc EXCEPT ![t] = "publish"]
        BY <3>1, <3>3, <1>6, <1>0 DEF Publish, ProdTypes
      <4>2. slots[t] \ {First(slots[t])} # {}
        BY <3>1, <3>3
      <4> QED
        BY <4>1, <4>2, <3>3, <1>6 DEF Publish, SetSlots
    <3> QED
      BY <3>2, <3>3
  <2>2. UNCHANGED <<gate, step>> /\ pc[t] = "publish" /\ step[t] = "none"
    BY <1>6 DEF Publish, At
  <2>3. Ending' => Ending /\ t # Owner
    BY <2>1, <1>0, EndingPlace
  <2>4. Ending' => FALSE
    BY <2>3, <2>2, <1>0 DEF PlaceInv
  <2>5. gate = t /\ x \in Gated
    BY <2>1, <2>2, <1>0 DEF PlaceInv, Gated
  <2>6. x \in PCs /\ x \in Calling
    BY <2>1 DEF PCs, Calling, Entering
  <2>7. slots'[t] # {} /\ (x = "probe" => slots'[t] = Workers)
        /\ \A u \in Threads \ {t} : slots'[u] = slots[u]
    BY <2>1, <1>0 DEF ProdTypes
  <2> QED
    BY <2>1, <2>2, <2>4, <2>5, <2>6, <2>7, <1>0, PlaceMoves
<1>7. ASSUME NEW t \in Threads, Join(t) \/ Collapse(t) PROVE PlaceInv'
  <2>1. NextSlot(t) /\ UNCHANGED step /\ pc[t] = "join" /\ step[t] = "none"
    BY <1>7 DEF Join, Collapse, At
  <2>2. gate = t
    BY <2>1, <1>0 DEF PlaceInv, Gated
  <2> DEFINE left == slots[t] \ {First(slots[t])}
             x == IF left = {} THEN "idle" ELSE "join"
  <2>3. /\ pc' = [pc EXCEPT ![t] = x]
        /\ slots' = [slots EXCEPT ![t] = left]
        /\ gate' = IF left = {} THEN Nobody ELSE gate
    <3>1. left # {} => pc' = [pc EXCEPT ![t] = "join"]
      BY <2>1, <1>0 DEF NextSlot, ProdTypes
    <3> QED
      BY <3>1, <2>1 DEF NextSlot, SetSlots, Go
  <2> HIDE DEF left
  <2>4. Ending' => Ending /\ t # Owner
    BY <2>3, <1>0, EndingPlace
  <2>5. Ending' => FALSE
    BY <2>4, <2>1, <1>0 DEF PlaceInv
  <2>6. x \in PCs /\ x \in Calling \union {"idle"} /\ (x \in LoopPlaces
          => left # {}) /\ x # "probe"
    BY DEF PCs, Calling, Entering, LoopPlaces
  <2>7. x \in Gated <=> gate' = t
    BY <2>2, <2>3, <1>0 DEF Gated
  <2>8. slots'[t] = left /\ \A u \in Threads \ {t} : slots'[u] = slots[u]
          /\ (gate' = u <=> gate = u)
    BY <2>2, <2>3, <1>0 DEF ProdTypes
  <2> QED
    BY <2>1, <2>3, <2>5, <2>6, <2>7, <2>8, <1>0, PlaceMoves
<1>8. ASSUME NEW t \in Threads, StoreWord(t) PROVE PlaceInv'
  <2>1. UNCHANGED <<pc, slots, gate>> /\ step[t] = "store"
          /\ step' = [step EXCEPT ![t] = "wake"]
    BY <1>8 DEF StoreWord
  <2> QED
    BY <2>1, <1>0 DEF PlaceInv, ProdTypes, Ending
<1>9. ASSUME NEW t \in Threads, Wake(t) PROVE PlaceInv'
  <2>1. UNCHANGED <<slots, gate>> /\ step[t] = "wake"
          /\ step' = [step EXCEPT ![t] = "none"]
        /\ pc' = [pc EXCEPT ![t] = AfterWake(pc[t])]
    BY <1>9 DEF Wake, Go
  <2>2. pc[t] \in {"drain", "locked", "probe", "scopeWake", "stopWake"}
    BY <2>1, <1>0 DEF PlaceInv
  <2> DEFINE x == AfterWake(pc[t])
  <2>3. x = (IF pc[t] = "probe" THEN "join" ELSE IF pc[t] = "scopeWake" THEN "scopeWait"
             ELSE IF pc[t] = "stopWake" THEN "stopJoin" ELSE pc[t])
    BY <2>2 DEF AfterWake
  <2> HIDE DEF x
  <2>4. step'[t] = "none" /\ \A u \in Threads \ {t} : step'[u] = step[u]
    BY <2>1, <1>0 DEF ProdTypes
  <2>5. Ending' => Ending
    BY <2>1, <2>2, <2>3, <1>0 DEF Ending, ProdTypes, x
  <2>6. Ending' /\ x # "idle" => t = Owner
    BY <2>5, <2>2, <1>0 DEF PlaceInv
  <2>7. /\ x \in PCs /\ (t # Owner => x \in Calling \union {"idle"})
        /\ x \in LoopPlaces => slots[t] # {}
        /\ x = "probe" => slots[t] = Workers
        /\ x \in Gated <=> gate = t
    BY <2>2, <2>3, <1>0 DEF PlaceInv, PCs, Calling, Entering, LoopPlaces, Gated, Scoping
  <2> QED
    BY <2>1, <2>4, <2>5, <2>6, <2>7, <1>0, PlaceMoves DEF x
<1>10. CASE ScopeEpoch \/ ScopeDepth \/ ScopeAcked \/ ScopeRetry
  <2>1. PICK x \in {"scopeDepth", "scopeWake", "scopeWait", "idle"} :
           /\ pc' = [pc EXCEPT ![Owner] = x]
           /\ x \in {"scopeWake", "scopeWait"} => slots'[Owner] # {}
    <3>1. CASE ScopeEpoch
      BY <3>1 DEF ScopeEpoch, Go
    <3>2. CASE ScopeDepth
      BY <3>2, <1>0 DEF ScopeDepth, Go, SetSlots, ProdTypes
    <3>3. CASE ScopeRetry
      BY <3>3, <1>0 DEF ScopeRetry, Go, At, PlaceInv, Scoping
    <3>4. CASE ScopeAcked
      <4>1. pc[Owner] = "scopeWait" /\ slots[Owner] # {}
        BY <3>4, <1>0 DEF ScopeAcked, At, PlaceInv, Scoping
      <4>2. CASE slots[Owner] = {First(slots[Owner])}
        BY <4>2, <3>4 DEF ScopeAcked, Go
      <4>3. CASE slots[Owner] # {First(slots[Owner])}
        <5>1. pc' = [pc EXCEPT ![Owner] = "scopeWait"]
          BY <4>1, <4>3, <3>4, <1>0 DEF ScopeAcked, ProdTypes
        <5>2. slots'[Owner] = slots[Owner] \ {First(slots[Owner])}
          BY <3>4, <1>0 DEF ScopeAcked, SetSlots, ProdTypes
        <5> QED
          BY <5>1, <5>2, <4>1, <4>3
      <4> QED
        BY <4>2, <4>3
    <3> QED
      BY <3>1, <3>2, <3>3, <3>4, <1>10
  <2>2. UNCHANGED <<gate, step>>
          /\ pc[Owner] \in {"idle", "scopeDepth", "scopeWait"}
        /\ step[Owner] = "none"
    BY <1>10 DEF ScopeEpoch, ScopeDepth, ScopeAcked, ScopeRetry, At
  <2>3. \A u \in Threads \ {Owner} : slots'[u] = slots[u]
    BY <1>10, <1>0 DEF ScopeEpoch, ScopeDepth, ScopeAcked, ScopeRetry,
       SetSlots, ProdTypes
  <2>4. ~Ending'
    BY <2>1, <1>0, EndingPlace
  <2>5. gate # Owner
    BY <2>2, <1>0 DEF PlaceInv, Gated
  <2>6. x \in PCs /\ x \notin Gated /\ x # "probe" /\ (x \in LoopPlaces
          => slots'[Owner] # {})
    BY <2>1 DEF PCs, Gated, LoopPlaces
  <2> QED
    BY <2>1, <2>2, <2>3, <2>4, <2>5, <2>6, <1>0, PlaceMoves
<1>11. CASE ScopeWake \/ ShutdownWake
  <2>1. UNCHANGED <<pc, slots, gate>>
          /\ pc[Owner] \in {"scopeWake", "stopWake"}
        /\ step' = [step EXCEPT ![Owner] = "store"]
    BY <1>11 DEF ScopeWake, ShutdownWake, LoadWord, At
  <2> QED
    BY <2>1, <1>0 DEF PlaceInv, ProdTypes, Ending
<1>12. CASE Shutdown \/ ShutdownStore \/ ShutdownJoin
  <2>1. PICK x \in {"stop", "stopWake", "destroyed"} :
           /\ pc' = [pc EXCEPT ![Owner] = x]
           /\ x = "stop" => slots'[Owner] # {}
    <3>1. CASE Shutdown
      BY <3>1, <1>0 DEF Shutdown, Go, SetSlots, ProdTypes
    <3>2. CASE ShutdownJoin
      BY <3>2 DEF ShutdownJoin, Go
    <3>3. CASE ShutdownStore
      <4>1. pc[Owner] = "stop" /\ slots[Owner] # {}
        BY <3>3, <1>0 DEF ShutdownStore, At, PlaceInv
      <4>2. CASE slots[Owner] = {First(slots[Owner])}
        BY <4>2, <3>3 DEF ShutdownStore, Go
      <4>3. CASE slots[Owner] # {First(slots[Owner])}
        <5>1. pc' = [pc EXCEPT ![Owner] = "stop"]
          BY <4>1, <4>3, <3>3, <1>0 DEF ShutdownStore, ProdTypes
        <5>2. slots'[Owner] = slots[Owner] \ {First(slots[Owner])}
          BY <3>3, <1>0 DEF ShutdownStore, SetSlots, ProdTypes
        <5> QED
          BY <5>1, <5>2, <4>1, <4>3
      <4> QED
        BY <4>2, <4>3
    <3> QED
      BY <3>1, <3>2, <3>3, <1>12
  <2>2. UNCHANGED <<gate, step>> /\ pc[Owner] \in {"idle", "stop", "stopJoin"}
        /\ step[Owner] = "none"
    BY <1>12, <1>0 DEF Shutdown, ShutdownStore, ShutdownJoin, At
  <2>3. \A u \in Threads \ {Owner} : slots'[u] = slots[u]
    BY <1>12, <1>0 DEF Shutdown, ShutdownStore, ShutdownJoin, SetSlots,
       ProdTypes
  <2>4. Ending \/ \A u \in Threads : pc[u] = "idle"
    BY <1>12 DEF Shutdown, ShutdownStore, ShutdownJoin, At, Ending
  <2>5. gate # Owner
    BY <2>2, <1>0 DEF PlaceInv, Gated
  <2>6. x \in PCs /\ x \notin Gated /\ x # "probe" /\ (x \in LoopPlaces
          => slots'[Owner] # {})
    BY <2>1 DEF PCs, Gated, LoopPlaces
  <2> QED
    BY <2>1, <2>2, <2>3, <2>4, <2>5, <2>6, <1>0, PlaceMoves
<1>13. UNCHANGED prodVars => PlaceInv'
  BY <1>0 DEF prodVars, PlaceInv, Ending
<1>14. CASE ScopeClose \/ UNCHANGED vars
  BY <1>13, <1>14 DEF ScopeClose, vars
<1>15. ASSUME NEW w \in Workers, WorkStep(w) PROVE UNCHANGED prodVars
  BY <1>15 DEF WorkStep, Observe, Serve, Look, Ack, GiveUp, Token, Recheck,
     Park, Woken, ChainWake, Interrupted, poolVars
<1> QED
  BY <1>1, <1>e, <1>2, <1>3, <1>4, <1>5, <1>6, <1>7, <1>8, <1>9, <1>10, <1>11,
     <1>12, <1>13, <1>14, <1>15, Steps DEF CallStep, OwnerStep

-----------------------------------------------------------------------------
(***************************************************************************)
(* The scopes' depth and epoch, and the bound on the calls.                *)
(***************************************************************************)
(* Every step keeps the depth and the epoch in step with the places. *)
LEMMA DepthStep == IInv /\ [Next]_vars => DepthInv'
<1> SUFFICES ASSUME IInv, [Next]_vars PROVE DepthInv'
  OBVIOUS
<1>0. PoolTypes /\ ProdTypes /\ WorkTypes /\ PlaceInv /\ DepthInv
        /\ Owner \in Threads
  BY TypeParts, ParkingAssumption DEF IInv, PathInv, ParkingAssumption
<1>a. depth \in {0, 1} /\ epoch \in Nat
  BY <1>0 DEF PoolTypes
<1>1. CASE ScopeEpoch
  BY <1>1, <1>0, <1>a DEF ScopeEpoch, Go, DepthInv, ProdTypes, WorkTypes,
     Ending, InScope, Scoping, workVars
<1>2. CASE ScopeDepth
  BY <1>2, <1>0, <1>a DEF ScopeDepth, At, Go, DepthInv, ProdTypes, Ending,
     InScope, Scoping, workVars
<1>3. CASE ScopeClose
  BY <1>3, <1>0, <1>a DEF ScopeClose, At, Engaged, DepthInv, Ending, InScope,
     Scoping, workVars, prodVars
<1>4. CASE Shutdown \/ ShutdownStore \/ ShutdownWake \/ ShutdownJoin
  BY <1>4, <1>0, <1>a DEF Shutdown, ShutdownStore, ShutdownWake, ShutdownJoin,
     LoadWord, At, Go, DepthInv, ProdTypes, Ending, InScope, Scoping,
     workVars, scopeVars
<1>5. CASE ScopeWake \/ ScopeAcked \/ ScopeRetry
  BY <1>5, <1>0, <1>a DEF ScopeWake, ScopeAcked, ScopeRetry, LoadWord, At, Go,
     DepthInv, ProdTypes, Ending, InScope, Scoping, workVars, scopeVars
(* A call of a primitive, by Owner too, is none of a scope's places. *)
<1>6. ASSUME NEW t \in Threads, NEW x, pc' = [pc EXCEPT ![t] = x],
             t = Owner => x \in Calling \union {"idle"},
             UNCHANGED <<depth, epoch, hotEpoch>>
      PROVE  DepthInv'
  <2>1. pc'[Owner] = pc[Owner] \/ pc'[Owner] \in Calling \union {"idle"}
    BY <1>6, <1>0 DEF ProdTypes
  <2> QED
    BY <2>1, <1>6, <1>0 DEF DepthInv, Ending, InScope, Scoping, Calling, Entering
<1>7. ASSUME NEW t \in Threads, NEW k \in Kinds, Begin(t, k) PROVE DepthInv'
  <2>1. PICK x \in {"drain", "lease"} : pc' = [pc EXCEPT ![t] = x]
    BY <1>7 DEF Begin, Go
  <2> QED
    BY <2>1, <1>6, <1>7 DEF Begin, Calling, Entering, scopeVars, workVars
<1>8. ASSUME NEW t \in Threads, Lease(t) \/ Drained(t) \/ ProbeHit(t) PROVE DepthInv'
  <2>1. PICK x \in Calling : pc' = [pc EXCEPT ![t] = x]
    BY <1>8 DEF Lease, Drained, ProbeHit, Go, Calling, Entering
  <2> QED
    BY <2>1, <1>6, <1>8 DEF Lease, Drained, ProbeHit, scopeVars, workVars
<1>e. ASSUME NEW t \in Threads, Entry(t) PROVE DepthInv'
  <2>1. PICK x \in Calling : pc' = [pc EXCEPT ![t] = x]
    BY <1>e, <1>0, EntryMoves DEF Calling, Entering
  <2> QED
    BY <2>1, <1>6, <1>e, <1>0, EntryMoves DEF scopeVars, workVars
<1>9. ASSUME NEW t \in Threads, Publish(t) \/ Join(t) \/ Collapse(t) PROVE DepthInv'
  <2>1. UNCHANGED <<depth, epoch, hotEpoch>> /\ pc[t] \in {"publish", "join"}
    BY <1>9 DEF Publish, Join, Collapse, At, scopeVars, workVars
  <2>2. PICK x \in Calling \union {"idle"} : pc' = [pc EXCEPT ![t] = x]
    <3>1. pc' = [pc EXCEPT ![t] = pc[t]] \/ \E x \in {"join", "probe", "idle"} : pc' = [pc EXCEPT ![t] = x]
      BY <1>9, <1>0 DEF Publish, Join, Collapse, NextSlot, Go, ProdTypes
    <3> QED
      BY <3>1, <2>1 DEF Calling, Entering
  <2> QED
    BY <2>1, <2>2, <1>6
<1>10. ASSUME NEW t \in Threads, DrainPending(t) \/ ProbeMissed(t) \/ StoreWord(t) PROVE DepthInv'
  <2>1. UNCHANGED <<pc, depth, epoch, hotEpoch>>
    BY <1>10 DEF DrainPending, ProbeMissed, StoreWord, scopeVars, workVars
  <2> QED
    BY <2>1, <1>0 DEF DepthInv, Ending, InScope
<1>11. ASSUME NEW t \in Threads, Wake(t) PROVE DepthInv'
  <2>1. UNCHANGED <<depth, epoch, hotEpoch>>
          /\ pc' = [pc EXCEPT ![t] = AfterWake(pc[t])]
    BY <1>11 DEF Wake, Go, scopeVars
  <2>2. pc[t] \in {"drain", "locked", "probe", "scopeWake", "stopWake"}
    BY <1>11, <1>0 DEF Wake, PlaceInv
  <2>3. AfterWake(pc[t]) = (IF pc[t] = "probe" THEN "join" ELSE IF pc[t] = "scopeWake" THEN "scopeWait"
             ELSE IF pc[t] = "stopWake" THEN "stopJoin" ELSE pc[t])
    BY <2>2 DEF AfterWake
  <2>4. /\ Ending' <=> Ending
        /\ pc'[Owner] = "scopeDepth" <=> pc[Owner] = "scopeDepth"
        /\ pc'[Owner] \in Scoping <=> pc[Owner] \in Scoping
    BY <2>1, <2>2, <2>3, <1>0 DEF Ending, Scoping, ProdTypes
  <2> QED
    BY <2>1, <2>4, <1>0 DEF DepthInv, InScope
<1>12. ASSUME NEW w \in Workers, WorkStep(w) PROVE DepthInv'
  <2>1. UNCHANGED <<pc, depth, epoch>>
    BY <1>12 DEF WorkStep, Observe, Serve, Look, Ack, GiveUp, Token, Recheck,
       Park, Woken, ChainWake, Interrupted, poolVars, prodVars, scopeVars
  <2>2. hotEpoch' = hotEpoch \/ hotEpoch' = [hotEpoch EXCEPT ![w] = epoch]
    BY <1>12 DEF WorkStep, Observe, Serve, Look, Ack, GiveUp, Token, Recheck,
       Park, Woken, ChainWake, Interrupted
  <2>3. \A v \in Workers : hotEpoch'[v] <= epoch
    BY <2>2, <1>0, <1>a DEF DepthInv, WorkTypes
  <2> QED
    BY <2>1, <2>3, <1>0 DEF DepthInv, Ending, InScope
<1>13. CASE UNCHANGED vars
  BY <1>13, <1>0 DEF vars, prodVars, scopeVars, workVars, DepthInv, Ending,
     InScope
<1> QED
  BY <1>1, <1>e, <1>2, <1>3, <1>4, <1>5, <1>7, <1>8, <1>9, <1>10, <1>11, <1>12,
     <1>13, Steps DEF CallStep, OwnerStep

-----------------------------------------------------------------------------
(* The calls that have begun and those that may begin. *)
LEMMA BoundStep == IInv /\ [Next]_vars => BoundInv'
<1> SUFFICES ASSUME IInv, [Next]_vars PROVE BoundInv'
  OBVIOUS
<1>0. PoolTypes /\ ProdTypes /\ PlaceInv /\ BoundInv /\ Owner \in Threads
  BY TypeParts, ParkingAssumption DEF IInv, PathInv, ParkingAssumption
<1>a. /\ IsFiniteSet(BeforeDispatch) /\ Cardinality(BeforeDispatch) \in Nat
      /\ generation \in Nat /\ MaxCalls \in Nat
  BY <1>0, FS_CardinalityType, ParkingAssumption DEF BoundInv, PoolTypes,
     ParkingAssumption
<1> DEFINE Early == {"drain", "clear", "clearSome", "lease", "locked"}
<1>1. ASSUME NEW t \in Threads, NEW k \in Kinds, Begin(t, k) PROVE BoundInv'
  <2>1. PICK x \in {"drain", "lease"} : pc' = [pc EXCEPT ![t] = x]
    BY <1>1 DEF Begin, Go
  <2>2. pc[t] = "idle" /\ generation + Cardinality(BeforeDispatch) < MaxCalls
          /\ generation' = generation
    BY <1>1 DEF Begin, At
  <2>3. BeforeDispatch' = BeforeDispatch \union {t} /\ t \notin BeforeDispatch
    BY <2>1, <2>2, <1>0 DEF BeforeDispatch, ProdTypes
  <2>4. IsFiniteSet(BeforeDispatch')
          /\ Cardinality(BeforeDispatch') = Cardinality(BeforeDispatch) + 1
    BY <2>3, <1>a, FS_AddElement
  <2> QED
    BY <2>2, <2>4, <1>a DEF BoundInv
<1>2. ASSUME NEW t \in Threads, Drained(t) PROVE BoundInv'
  <2>1. pc' = [pc EXCEPT ![t] = "publish"] /\ pc[t] = "locked"
          /\ generation' = generation + 1
    BY <1>2 DEF Drained, At, Go
  <2>2. BeforeDispatch' = BeforeDispatch \ {t} /\ t \in BeforeDispatch
    BY <2>1, <1>0 DEF BeforeDispatch, ProdTypes
  <2>3. IsFiniteSet(BeforeDispatch')
          /\ Cardinality(BeforeDispatch') = Cardinality(BeforeDispatch) - 1
    BY <2>2, <1>a, FS_RemoveElement
  <2> QED
    BY <2>1, <2>3, <1>a, <1>0 DEF BoundInv
<1>3. ASSUME UNCHANGED generation, \A t \in Threads : pc'[t] \in Early
               <=> pc[t] \in Early
      PROVE  BoundInv'
  <2>1. BeforeDispatch' = BeforeDispatch
    BY <1>3 DEF BeforeDispatch
  <2> QED
    BY <2>1, <1>3, <1>0 DEF BoundInv
<1> HIDE DEF Early
<1>4. ASSUME NEW t \in Threads, NEW x, pc' = [pc EXCEPT ![t] = x], x \in Early
               <=> pc[t] \in Early,
             UNCHANGED generation
      PROVE  BoundInv'
  <2>1. \A u \in Threads : pc'[u] \in Early <=> pc[u] \in Early
    BY <1>4, <1>0 DEF ProdTypes
  <2> QED
    BY <2>1, <1>3, <1>4
<1>5. ASSUME NEW t \in Threads, Lease(t) \/ ProbeHit(t) PROVE BoundInv'
  <2>1. PICK x \in {"locked", "join"} : pc' = [pc EXCEPT ![t] = x]
           /\ (pc[t] = "lease" <=> x # "join") /\ pc[t] \in {"lease", "probe"}
    BY <1>5 DEF Lease, ProbeHit, Go, At
  <2>2. x \in Early <=> pc[t] \in Early
    BY <2>1 DEF Early
  <2> QED
    BY <2>1, <2>2, <1>4, <1>5 DEF Lease, ProbeHit
<1>e. ASSUME NEW t \in Threads, Entry(t) PROVE BoundInv'
  <2>1. PICK x \in Entering \union {"lease"} : pc' = [pc EXCEPT ![t] = x]
    BY <1>e, <1>0, EntryMoves
  <2>2. pc[t] \in Entering /\ UNCHANGED generation
    BY <1>e, <1>0, EntryMoves
  <2>3. x \in Early <=> pc[t] \in Early
    BY <2>1, <2>2 DEF Early, Entering
  <2> QED
    BY <2>1, <2>2, <2>3, <1>4
<1>6. ASSUME NEW t \in Threads, Publish(t) \/ Join(t) \/ Collapse(t) PROVE BoundInv'
  <2>1. UNCHANGED generation /\ pc[t] \in {"publish", "join"}
    BY <1>6 DEF Publish, Join, Collapse, At
  <2>2. PICK x \in {"publish", "join", "probe", "idle"} : pc' = [pc EXCEPT ![t] = x]
    <3>1. pc' = [pc EXCEPT ![t] = pc[t]] \/ \E x \in {"join", "probe", "idle"} : pc' = [pc EXCEPT ![t] = x]
      BY <1>6, <1>0 DEF Publish, Join, Collapse, NextSlot, Go, ProdTypes
    <3> QED
      BY <3>1, <2>1
  <2>3. x \in Early <=> pc[t] \in Early
    BY <2>1, <2>2 DEF Early
  <2> QED
    BY <2>1, <2>2, <2>3, <1>4
<1>7. ASSUME NEW t \in Threads, DrainPending(t) \/ ProbeMissed(t) \/ StoreWord(t) PROVE BoundInv'
  BY <1>7, <1>3 DEF DrainPending, ProbeMissed, StoreWord
<1>8. ASSUME NEW t \in Threads, Wake(t) PROVE BoundInv'
  <2>1. UNCHANGED generation /\ pc' = [pc EXCEPT ![t] = AfterWake(pc[t])]
    BY <1>8 DEF Wake, Go
  <2>2. AfterWake(pc[t]) \in Early <=> pc[t] \in Early
    BY DEF AfterWake, Early
  <2> QED
    BY <2>1, <2>2, <1>4
<1>9. CASE ScopeEpoch \/ ScopeDepth \/ ScopeRetry \/ Shutdown \/ ShutdownJoin
  <2>1. PICK x \in {"scopeDepth", "scopeWake", "stop", "destroyed"} :
           pc' = [pc EXCEPT ![Owner] = x]
    BY <1>9 DEF ScopeEpoch, ScopeDepth, ScopeRetry, Shutdown, ShutdownJoin, Go
  <2>2. UNCHANGED generation /\ pc[Owner] \notin Early
    BY <1>9, <1>0 DEF ScopeEpoch, ScopeDepth, ScopeRetry, Shutdown,
       ShutdownJoin, At, Early
  <2> QED
    BY <2>1, <2>2, <1>4, <1>0 DEF Early
<1>10. CASE ScopeAcked \/ ShutdownStore
  <2>1. UNCHANGED generation /\ pc[Owner] \in {"scopeWait", "stop"}
    BY <1>10 DEF ScopeAcked, ShutdownStore, At
  <2>2. \/ UNCHANGED pc
        \/ \E x \in {"idle", "stopWake"} : pc' = [pc EXCEPT ![Owner] = x]
    BY <1>10 DEF ScopeAcked, ShutdownStore, Go
  <2> QED
    BY <2>1, <2>2, <1>3, <1>4, <1>0 DEF Early
<1>11. CASE ScopeWake \/ ScopeClose \/ ShutdownWake \/ UNCHANGED vars
  BY <1>11, <1>3 DEF ScopeWake, ScopeClose, ShutdownWake, vars, prodVars
<1>12. ASSUME NEW w \in Workers, WorkStep(w) PROVE BoundInv'
  BY <1>12, <1>3 DEF WorkStep, Observe, Serve, Look, Ack, GiveUp, Token,
     Recheck, Park, Woken, ChainWake, Interrupted, poolVars, prodVars
<1> QED
  BY <1>1, <1>e, <1>2, <1>5, <1>6, <1>7, <1>8, <1>9, <1>10, <1>11, <1>12, Steps
  DEF CallStep, OwnerStep

-----------------------------------------------------------------------------
(***************************************************************************)
(* The phases, as the producers change them.                               *)
(***************************************************************************)
Stopped == {"stopWake", "stopJoin", "destroyed"}

(* The end, by the owner's place. *)
LEMMA EndingIs == Ending <=> pc[Owner] \in Stopped \union {"stop"}
  BY DEF Ending, Stopped

(* Steps that neither publish nor serve. *)
LEMMA PhaseFrame ==
  ASSUME PoolTypes, PhaseInv, generation' \in Nat, generation' >= generation,
         UNCHANGED <<mailbox, token, wpc, obs, seen>>,
         \/ ~Ending /\ ~Ending'
         \/ pc'[Owner] = pc[Owner] /\ slots'[Owner] = slots[Owner]
         \/ pc[Owner] \in Stopped /\ pc'[Owner] \in Stopped,
         WorkTypes
  PROVE  PhaseInv'
<1> SUFFICES ASSUME NEW w \in Workers
    PROVE  DownAt(w)' /\ OpenAt(w)' /\ seen'[w] <= mailbox'[w].gen
             /\ ServesAt(w)' /\ TokenAt(w)'
  BY DEF PhaseInv
<1>0. DownAt(w) /\ OpenAt(w) /\ seen[w] <= mailbox[w].gen /\ ServesAt(w)
        /\ TokenAt(w)
  BY DEF PhaseInv
<1>1. generation \in Nat /\ mailbox[w].gen \in Nat /\ obs[w] \in Nat
  BY DEF PoolTypes, WorkTypes
<1>2. DownAt(w)' /\ OpenAt(w)'
  BY <1>0, <1>1 DEF DownAt, OpenAt, Ending, Stopped
<1>3. ServesAt(w)'
  BY <1>0, <1>1 DEF ServesAt
<1>4. TokenAt(w)'
  BY <1>0 DEF TokenAt, Stale
<1> QED
  BY <1>0, <1>2, <1>3, <1>4

(* Steps of a thread in a call, by pc. *)
LEMMA CallFrame ==
  ASSUME PoolTypes, ProdTypes, PhaseInv, WorkTypes, NEW t \in Threads, NEW x,
         pc' = [pc EXCEPT ![t] = x],
         pc[t] \notin Stopped \union {"stop"}, x \notin Stopped \union {"stop"},
         \A u \in Threads \ {t} : slots'[u] = slots[u],
         UNCHANGED <<mailbox, token, wpc, obs, seen>>,
         generation' \in Nat, generation' >= generation
  PROVE  PhaseInv'
<1>0. Owner \in Threads
  BY ParkingAssumption DEF ParkingAssumption
<1>1. CASE t = Owner
  <2>1. ~Ending /\ ~Ending'
    BY <1>0, <1>1, EndingIs DEF ProdTypes, Ending, Stopped
  <2> QED
    BY <2>1, PhaseFrame
<1>2. CASE t # Owner
  <2>1. pc'[Owner] = pc[Owner] /\ slots'[Owner] = slots[Owner]
    BY <1>0, <1>2 DEF ProdTypes
  <2> QED
    BY <2>1, PhaseFrame
<1> QED
  BY <1>1, <1>2

(* The producers and the phases. *)
LEMMA PhaseProducer ==
  ASSUME IInv, [Next]_vars, NEW t \in Threads, CallStep(t) \/ \E k \in Kinds : Begin(t, k)
  PROVE  PhaseInv'
<1>0. PoolTypes /\ ProdTypes /\ WorkTypes /\ QueueTypes /\ PlaceInv
        /\ PhaseInv /\ Owner \in Threads
      /\ TypeOK
  BY TypeParts, ParkingAssumption DEF IInv, PathInv, ParkingAssumption
<1>a. generation \in Nat /\ generation >= generation
  BY <1>0 DEF PoolTypes
<1>2. ASSUME NEW k \in Kinds, Begin(t, k) PROVE PhaseInv'
  <2>1. /\ UNCHANGED <<mailbox, token, wpc, obs, seen, slots, generation>>
        /\ pc[t] = "idle"
        /\ \E x \in Calling : pc' = [pc EXCEPT ![t] = x]
    BY <1>2 DEF Begin, At, Go, workVars, Calling, Entering
  <2> QED
    BY <2>1, <1>0, CallFrame, <1>a DEF Stopped, Calling, Entering
<1>3. ASSUME Lease(t) \/ Drained(t) \/ ProbeHit(t) PROVE PhaseInv'
  <2>1. UNCHANGED <<mailbox, token, wpc, obs, seen>> /\ generation' \in Nat
          /\ generation' >= generation
    BY <1>3, <1>a DEF Lease, Drained, ProbeHit, workVars
  <2>2. \A u \in Threads \ {t} : slots'[u] = slots[u]
    BY <1>3, <1>0 DEF Lease, Drained, ProbeHit, SetSlots, ProdTypes
  <2>3. pc[t] \in Calling /\ \E x \in Calling : pc' = [pc EXCEPT ![t] = x]
    BY <1>3 DEF Lease, Drained, ProbeHit, At, Go, Calling, Entering
  <2> QED
    BY <2>1, <2>2, <2>3, <1>0, CallFrame DEF Stopped, Calling, Entering
<1>e. ASSUME Entry(t) PROVE PhaseInv'
  <2>1. /\ UNCHANGED <<mailbox, token, wpc, obs, seen, generation>>
        /\ \A u \in Threads \ {t} : slots'[u] = slots[u]
        /\ pc[t] \in Entering
    BY <1>e, <1>0, EntryMoves DEF workVars
  <2>2. PICK x \in Entering \union {"lease"} : pc' = [pc EXCEPT ![t] = x]
    BY <1>e, <1>0, EntryMoves
  <2> QED
    BY <2>1, <2>2, <1>0, <1>a, CallFrame DEF Stopped, Entering
<1>4. ASSUME Join(t) \/ Collapse(t) PROVE PhaseInv'
  <2>1. UNCHANGED <<mailbox, token, wpc, obs, seen, generation>>
    BY <1>4 DEF Join, Collapse, workVars
  <2>2. \A u \in Threads \ {t} : slots'[u] = slots[u]
    BY <1>4, <1>0 DEF Join, Collapse, NextSlot, SetSlots, ProdTypes
  <2>3. pc[t] = "join"
          /\ \E x \in {"idle", "join"} : pc' = [pc EXCEPT ![t] = x]
    <3>1. pc[t] = "join" /\ (UNCHANGED pc \/ pc' = [pc EXCEPT ![t] = "idle"])
      BY <1>4 DEF Join, Collapse, NextSlot, At, Go
    <3>2. UNCHANGED pc => pc' = [pc EXCEPT ![t] = "join"]
      BY <3>1, <1>0 DEF ProdTypes
    <3> QED
      BY <3>1, <3>2
  <2> QED
    BY <2>1, <2>2, <2>3, <1>0, CallFrame, <1>a DEF Stopped
<1>6. ASSUME DrainPending(t) \/ ProbeMissed(t) PROVE PhaseInv'
  <2>1. UNCHANGED <<mailbox, token, wpc, obs, seen, generation, pc, slots>>
    BY <1>6 DEF DrainPending, ProbeMissed, workVars
  <2> QED
    BY <2>1, <1>0, <1>a, PhaseFrame
<1>7. ASSUME Publish(t) PROVE PhaseInv'
  <2>1. PICK v \in Workers : v = First(slots[t])
          /\ mailbox' = [mailbox EXCEPT ![v].gen = generation]
    BY <1>7, <1>0, FirstIn DEF Publish, At, PlaceInv, ProdTypes
  <2>2. pc[t] = "publish" /\ ~Ending
    BY <1>7, <1>0 DEF Publish, At, PlaceInv, Ending
  <2>3. ~Ending'
    BY <2>2, <1>7, <1>0 DEF Ending, Publish, Go, ProdTypes
  <2>4. UNCHANGED <<token, wpc, obs, seen, generation>>
    BY <1>7 DEF Publish, workVars
  <2>5. \A w \in Workers : /\ ~mailbox[w].down
                           /\ mailbox'[w].down = mailbox[w].down
                           /\ mailbox'[w].gen = (IF w = v THEN generation ELSE mailbox[w].gen)
    BY <2>1, <2>2, <1>0 DEF PhaseInv, DownAt, PoolTypes
  <2>6. \A w \in Workers : mailbox[w].gen \in Nat /\ obs[w] \in Nat
          /\ seen[w] \in Nat
    BY <1>0 DEF PoolTypes, WorkTypes
  <2>7. \A w \in Workers : mailbox[w].gen <= mailbox'[w].gen
          /\ mailbox'[w].gen <= generation
    <3> SUFFICES ASSUME NEW w \in Workers
                 PROVE  mailbox[w].gen <= mailbox'[w].gen
                          /\ mailbox'[w].gen <= generation
      OBVIOUS
    <3>1. mailbox[w].gen <= generation
      BY <2>5, <1>0 DEF PhaseInv, OpenAt
    <3> QED
      BY <3>1, <2>5, <2>6, <1>a
  <2> QED
    <3> SUFFICES ASSUME NEW w \in Workers
        PROVE  DownAt(w)' /\ OpenAt(w)' /\ seen'[w] <= mailbox'[w].gen
                 /\ ServesAt(w)' /\ TokenAt(w)'
      BY DEF PhaseInv
    <3>0. DownAt(w) /\ OpenAt(w) /\ seen[w] <= mailbox[w].gen /\ ServesAt(w)
            /\ TokenAt(w)
      BY <1>0 DEF PhaseInv
    <3>1. mailbox[w].gen \in Nat /\ mailbox'[w].gen \in Nat /\ seen[w] \in Nat
            /\ obs[w] \in Nat
      BY <2>6, <2>5, <1>a
    <3>2. mailbox[w].gen <= mailbox'[w].gen /\ mailbox'[w].gen <= generation
            /\ ~mailbox'[w].down
          /\ ~mailbox[w].down
      BY <2>5, <2>7
    <3>3. DownAt(w)' /\ OpenAt(w)'
      BY <3>2, <2>3, <2>4 DEF DownAt, OpenAt, Ending
    <3>4. ServesAt(w)' /\ seen'[w] <= mailbox'[w].gen
      BY <3>0, <3>1, <3>2, <2>4 DEF ServesAt
    <3>5. TokenAt(w)'
      BY <3>0, <2>4 DEF TokenAt, Stale
    <3> QED
      BY <3>3, <3>4, <3>5
<1>8. ASSUME StoreWord(t) PROVE PhaseInv'
  <2>1. \A w \in Workers : token[w] = Stale => token'[w] = Stale
    BY <1>8 DEF StoreWord
  <2>2. UNCHANGED <<mailbox, wpc, obs, seen, generation, pc, slots>>
    BY <1>8 DEF StoreWord, workVars
  <2> QED
    BY <2>1, <2>2, <1>0 DEF PhaseInv, DownAt, OpenAt, ServesAt, TokenAt,
       Ending, Stale
<1>9. ASSUME Wake(t) PROVE PhaseInv'
  <2>1. \A w \in Workers : wpc'[w] = wpc[w] \/ (wpc[w] = "asleep"
          /\ wpc'[w] = "woken")
    <3>1. WakeUp(WokenFrom(pc[t])) /\ WokenFrom(pc[t]) \in Nat
      BY <1>9, <1>0, WokenMany DEF Wake
    <3>2. PICK k \in 0 .. Len(asleep) :
            wpc' = [w \in Workers |-> IF w \in {asleep[i] : i \in 1 .. k} THEN "woken" ELSE wpc[w]]
      BY <3>1, <1>0, WakesOf
    <3>3. \A i \in 1 .. k : asleep[i] \in Workers /\ wpc[asleep[i]] = "asleep"
      BY <1>0, Queued
    <3> QED
      BY <3>2, <3>3
  <2>2. UNCHANGED <<mailbox, obs, seen, generation, slots, token>>
          /\ pc' = [pc EXCEPT ![t] = AfterWake(pc[t])]
    BY <1>9 DEF Wake, Go
  <2>3. pc[t] \in {"drain", "locked", "probe", "scopeWake", "stopWake"}
    BY <1>9, <1>0 DEF Wake, PlaceInv
  <2>4. /\ Ending' <=> Ending
        /\ pc'[Owner] = "stop" <=> pc[Owner] = "stop"
        /\ pc'[Owner] \in Stopped <=> pc[Owner] \in Stopped
    BY <2>2, <2>3, <1>0 DEF AfterWake, Ending, ProdTypes, Stopped
  <2> SUFFICES ASSUME NEW w \in Workers
      PROVE  DownAt(w)' /\ OpenAt(w)' /\ seen'[w] <= mailbox'[w].gen
               /\ ServesAt(w)' /\ TokenAt(w)'
    BY DEF PhaseInv
  <2>5. DownAt(w) /\ OpenAt(w) /\ seen[w] <= mailbox[w].gen /\ ServesAt(w)
          /\ TokenAt(w)
    BY <1>0 DEF PhaseInv
  <2>6. DownAt(w)'
    BY <2>2, <2>4, <2>5 DEF DownAt
  <2>7. OpenAt(w)'
    BY <2>2, <2>4, <2>5 DEF OpenAt, Stopped
  <2>8. ServesAt(w)'
    BY <2>1, <2>2, <2>5 DEF ServesAt
  <2>9. TokenAt(w)'
    BY <2>1, <2>2, <2>5 DEF TokenAt, Stale
  <2> QED
    BY <2>2, <2>5, <2>6, <2>7, <2>8, <2>9
<1> QED
  BY <1>e, <1>2, <1>3, <1>4, <1>6, <1>7, <1>8, <1>9 DEF CallStep

(* The owner, its scopes and the end. *)
LEMMA PhaseOwner ==
  ASSUME IInv, [Next]_vars, OwnerStep
  PROVE  PhaseInv'
<1>0. PoolTypes /\ ProdTypes /\ WorkTypes /\ QueueTypes /\ PlaceInv
        /\ PhaseInv /\ Owner \in Threads
      /\ TypeOK
  BY TypeParts, ParkingAssumption DEF IInv, PathInv, ParkingAssumption
<1>a. generation \in Nat /\ generation >= generation
  BY <1>0 DEF PoolTypes
<1>10. CASE ScopeEpoch \/ ScopeDepth \/ ScopeWake \/ ScopeAcked \/ ScopeRetry
  <2>1. UNCHANGED <<mailbox, token, wpc, obs, seen, generation>>
    BY <1>10 DEF ScopeEpoch, ScopeDepth, ScopeWake, ScopeAcked, ScopeRetry,
       workVars
  <2>2. pc[Owner] \in {"idle", "scopeDepth", "scopeWake", "scopeWait"}
    BY <1>10 DEF ScopeEpoch, ScopeDepth, ScopeWake, ScopeAcked, ScopeRetry, At
  <2>3. pc'[Owner] \in {"idle", "scopeDepth", "scopeWake", "scopeWait"}
    BY <1>10, <2>2, <1>0 DEF ScopeEpoch, ScopeDepth, ScopeWake, ScopeAcked,
       ScopeRetry, Go, ProdTypes
  <2> QED
    BY <2>1, <2>2, <2>3, <1>0, <1>a, PhaseFrame DEF Ending
<1>b. CASE ScopeClose \/ ShutdownWake
  <2>1. UNCHANGED <<mailbox, token, wpc, obs, seen, generation, pc, slots>>
    BY <1>b DEF ScopeClose, ShutdownWake, workVars, prodVars
  <2> QED
    BY <2>1, <1>0, <1>a, PhaseFrame
<1>11. CASE Shutdown
  <2>1. ~Ending /\ pc'[Owner] = "stop" /\ slots'[Owner] = Workers
    BY <1>11, <1>0 DEF Shutdown, At, Ending, Go, SetSlots, ProdTypes
  <2>2. UNCHANGED <<mailbox, token, wpc, obs, seen, generation>>
    BY <1>11 DEF Shutdown, workVars
  <2> SUFFICES ASSUME NEW w \in Workers
      PROVE  DownAt(w)' /\ OpenAt(w)' /\ seen'[w] <= mailbox'[w].gen
               /\ ServesAt(w)' /\ TokenAt(w)'
    BY DEF PhaseInv
  <2>5. DownAt(w) /\ OpenAt(w) /\ seen[w] <= mailbox[w].gen /\ ServesAt(w)
          /\ TokenAt(w)
    BY <1>0 DEF PhaseInv
  <2>6. DownAt(w)' /\ OpenAt(w)'
    BY <2>1, <2>2, <2>5 DEF DownAt, OpenAt
  <2>7. ServesAt(w)' /\ TokenAt(w)'
    BY <2>2, <2>5 DEF ServesAt, TokenAt, Stale
  <2> QED
    BY <2>2, <2>5, <2>6, <2>7
<1>12. CASE ShutdownStore
  <2>1. PICK v \in Workers : v = First(slots[Owner]) /\ v \in slots[Owner]
    BY <1>12, <1>0, FirstIn DEF ShutdownStore, At, PlaceInv, ProdTypes
  <2>2. mailbox' = [mailbox EXCEPT ![v] = [gen |-> mailbox[v].gen + 1, down |-> TRUE]]
    BY <1>12, <2>1 DEF ShutdownStore
  <2>3. pc[Owner] = "stop" /\ UNCHANGED <<token, wpc, obs, seen, generation>>
    BY <1>12 DEF ShutdownStore, At, workVars
  <2>4. /\ slots'[Owner] = slots[Owner] \ {v}
        /\ pc'[Owner] = (IF slots[Owner] = {v} THEN "stopWake" ELSE "stop")
    BY <1>12, <2>1, <2>3, <1>0 DEF ShutdownStore, Go, SetSlots, ProdTypes
  <2>5. Ending /\ Ending'
    BY <2>3, <2>4 DEF Ending
  <2> SUFFICES ASSUME NEW w \in Workers
      PROVE  DownAt(w)' /\ OpenAt(w)' /\ seen'[w] <= mailbox'[w].gen
               /\ ServesAt(w)' /\ TokenAt(w)'
    BY DEF PhaseInv
  <2>6. mailbox[w].gen \in Nat /\ obs[w] \in Nat /\ seen[w] \in Nat
    BY <1>0 DEF PoolTypes, WorkTypes
  <2>7. DownAt(w) /\ OpenAt(w) /\ seen[w] <= mailbox[w].gen /\ ServesAt(w)
          /\ TokenAt(w)
    BY <1>0 DEF PhaseInv
  <2>8. TokenAt(w)'
    BY <2>3, <2>7 DEF TokenAt, Stale
  <2>9. CASE w = v
    <3>1. mailbox'[w].down /\ mailbox'[w].gen = mailbox[w].gen + 1
      BY <2>9, <2>2, <1>0 DEF PoolTypes
    <3>2. seen[w] < mailbox'[w].gen /\ seen[w] <= mailbox'[w].gen
      BY <3>1, <2>6, <2>7
    <3>3. DownAt(w)' /\ OpenAt(w)'
      BY <3>1, <3>2, <2>3, <2>4, <2>5, <2>9 DEF DownAt, OpenAt
    <3>4. ServesAt(w)'
      BY <3>1, <2>3, <2>6, <2>7 DEF ServesAt
    <3> QED
      BY <3>2, <3>3, <3>4, <2>3, <2>8
  <2>10. CASE w # v
    <3>1. mailbox'[w] = mailbox[w]
      BY <2>10, <2>2, <1>0 DEF PoolTypes
    <3>3. DownAt(w)' /\ OpenAt(w)'
      BY <3>1, <2>3, <2>4, <2>5, <2>7, <2>10 DEF DownAt, OpenAt
    <3>4. ServesAt(w)'
      BY <3>1, <2>3, <2>7 DEF ServesAt
    <3> QED
      BY <3>1, <3>3, <3>4, <2>3, <2>7, <2>8
  <2> QED
    BY <2>9, <2>10
<1>14. CASE ShutdownJoin
  <2>1. pc[Owner] = "stopJoin" /\ pc'[Owner] = "destroyed"
        /\ UNCHANGED <<mailbox, token, wpc, obs, seen, generation>>
    BY <1>14, <1>0 DEF ShutdownJoin, At, Go, workVars, ProdTypes
  <2> QED
    BY <2>1, <1>0, <1>a, PhaseFrame DEF Stopped
<1> QED
  BY <1>10, <1>b, <1>11, <1>12, <1>14 DEF OwnerStep

-----------------------------------------------------------------------------
(***************************************************************************)
(* The phases, as the workers serve them; and the invariant.               *)
(***************************************************************************)
(* A worker's steps and the phases. *)
LEMMA WakesLeaveAlone ==
  ASSUME QueueTypes, TypeOK, NEW w \in Workers, ChainWake(w) \/ Interrupted(w), NEW v \in Workers
  PROVE  \/ wpc'[v] = wpc[v]
         \/ wpc[v] = "asleep" /\ wpc'[v] = "woken"
         \/ wpc[v] = "chain" /\ wpc'[v] = "serve"
<1>0. wpc \in [Workers -> WPCs]
  BY DEF TypeOK
<1>1. CASE ChainWake(w)
  <2>1. PICK k \in 0 .. Len(asleep) :
          wpc' = [u \in Workers |-> IF u = w THEN "serve"
                                    ELSE IF u \in {asleep[i] : i \in 1 .. k} THEN "woken"
                                    ELSE wpc[u]]
    BY <1>1, ChainsOf
  <2>2. \A i \in 1 .. k : asleep[i] \in Workers /\ wpc[asleep[i]] = "asleep"
    BY Queued
  <2>3. wpc[w] = "chain"
    BY <1>1 DEF ChainWake, WAt
  <2> QED
    BY <2>1, <2>2, <2>3
<1>2. CASE Interrupted(w)
  BY <1>0, <1>2 DEF Interrupted, WAt, WGo
<1> QED
  BY <1>1, <1>2

(* A worker's step keeps the phases in order. *)
LEMMA PhaseWorker ==
  ASSUME IInv, NEW w \in Workers, WorkStep(w)
  PROVE  PhaseInv'
<1>0. PoolTypes /\ ProdTypes /\ WorkTypes /\ QueueTypes /\ PlaceInv
        /\ PhaseInv /\ TypeOK
  BY TypeParts DEF IInv, PathInv
<1>a. UNCHANGED <<mailbox, generation, pc, slots>>
  BY DEF WorkStep, Observe, Serve, Look, Ack, GiveUp, Token, Recheck, Park,
     Woken, ChainWake, Interrupted, poolVars, prodVars
<1> SUFFICES ASSUME NEW v \in Workers
    PROVE  DownAt(v)' /\ OpenAt(v)' /\ seen'[v] <= mailbox'[v].gen
             /\ ServesAt(v)' /\ TokenAt(v)'
  BY DEF PhaseInv
<1>b. DownAt(v) /\ OpenAt(v) /\ seen[v] <= mailbox[v].gen /\ ServesAt(v)
        /\ TokenAt(v)
  BY <1>0 DEF PhaseInv
<1>c. mailbox[v].gen \in Nat /\ obs[v] \in Nat /\ seen[v] \in Nat
  BY <1>0 DEF PoolTypes, WorkTypes
<1>1. OpenAt(v)'
  BY <1>a, <1>b DEF OpenAt
<1>2. seen'[v] <= mailbox'[v].gen /\ DownAt(v)'
  <2>1. CASE Serve(w) /\ v = w
    <3>1. seen'[v] = obs[v] /\ wpc[v] = "serve"
      BY <2>1, <1>0 DEF Serve, WAt, WorkTypes
    <3> QED
      BY <3>1, <1>a, <1>b, <1>c DEF DownAt, ServesAt, Ending
  <2>2. CASE ~(Serve(w) /\ v = w)
    <3>1. seen'[v] = seen[v]
      BY <2>2, <1>0 DEF WorkStep, Observe, Serve, Look, Ack, GiveUp, Token,
         Recheck, Park, Woken, ChainWake, Interrupted, WorkTypes
    <3> QED
      BY <3>1, <1>a, <1>b DEF DownAt, Ending
  <2> QED
    BY <2>1, <2>2
<1>3. TokenAt(v)'
  <2>1. CASE ChainWake(w) \/ Interrupted(w)
    <3>1. UNCHANGED token
      BY <2>1 DEF ChainWake, Interrupted
    <3> QED
      BY <2>1, <3>1, <1>b, <1>0, WakesLeaveAlone DEF TokenAt, Stale
  <2>2. CASE v # w /\ ~(ChainWake(w) \/ Interrupted(w))
    <3>1. token'[v] = token[v] /\ wpc'[v] = wpc[v]
      BY <2>2, <1>0 DEF WorkStep, Observe, Serve, Look, Ack, GiveUp, Token,
         Recheck, Park, Woken, Take, Forget, WGo, WorkTypes
    <3> QED
      BY <3>1, <1>b DEF TokenAt, Stale
  <2>3. CASE v = w /\ (Recheck(w) \/ Park(w) \/ Token(w))
    BY <2>3, <1>b, <1>0 DEF TokenAt, Recheck, Park, Token, Take, Forget, WGo,
       WorkTypes, Stale
  <2>4. CASE v = w /\ (Observe(w) \/ Serve(w) \/ Look(w) \/ Ack(w) \/ GiveUp(w) \/ Woken(w))
    <3>1. token'[v] = token[v] /\ wpc[v] \notin {"recheck", "park"}
      BY <2>4 DEF Observe, Serve, Look, Ack, GiveUp, Woken, WAt
    <3> QED
      BY <3>1, <1>b DEF TokenAt, Stale
  <2> QED
    BY <2>1, <2>2, <2>3, <2>4 DEF WorkStep
<1>4. ServesAt(v)'
  <2>1. CASE ChainWake(w) \/ Interrupted(w)
    <3>1. UNCHANGED <<obs, seen>>
      BY <2>1 DEF ChainWake, Interrupted
    <3> QED
      BY <2>1, <3>1, <1>a, <1>b, <1>0, WakesLeaveAlone DEF ServesAt
  <2>2. CASE v # w /\ ~(ChainWake(w) \/ Interrupted(w))
    <3>1. obs'[v] = obs[v] /\ seen'[v] = seen[v] /\ wpc'[v] = wpc[v]
      BY <2>2, <1>0 DEF WorkStep, Observe, Serve, Look, Ack, GiveUp, Token,
         Recheck, Park, Woken, Take, Forget, WGo, WorkTypes
    <3> QED
      BY <3>1, <1>a, <1>b DEF ServesAt
  <2>3. CASE v = w /\ New(v) /\ (Observe(w) \/ Recheck(w) \/ Woken(w))
    <3>1. obs'[v] = mailbox[v].gen /\ seen'[v] = seen[v]
      BY <2>3, <1>0 DEF Observe, Recheck, Woken, Take, FoundNew, WorkTypes
    <3>2. seen[v] # mailbox[v].gen
      BY <2>3 DEF New
    <3>3. CASE mailbox[v].down
      <4>1. ~Chains(v)
        BY <3>3 DEF Chains
      <4>2. CASE Observe(w) \/ Recheck(w)
        BY <2>3, <3>3, <4>2, <1>0 DEF Observe, Recheck, Take, FoundNew, WGo,
           ServesAt, WorkTypes
      <4>3. CASE Woken(w)
        <5>1. wpc' = [wpc EXCEPT ![w] = "exited"]
          BY <2>3, <3>3, <4>1, <4>3 DEF Woken, WGo
        <5> QED
          BY <5>1, <2>3, <1>0 DEF ServesAt, WorkTypes
      <4> QED
        BY <4>2, <4>3, <2>3
    <3>4. CASE ~mailbox[v].down
      BY <3>1, <3>2, <3>4, <1>a, <1>b, <1>c DEF ServesAt, OpenAt
    <3> QED
      BY <3>3, <3>4
  <2>4. CASE v = w /\ ~New(v) /\ (Observe(w) \/ Recheck(w) \/ Woken(w))
    <3>1. wpc'[v] \in {"park", "load"}
      BY <2>4, <1>0 DEF Observe, Recheck, Woken, FoundNew, WGo, WorkTypes
    <3> QED
      BY <3>1 DEF ServesAt
  <2>5. CASE v = w /\ (Serve(w) \/ Look(w) \/ Ack(w) \/ GiveUp(w) \/ Token(w) \/ Park(w))
    <3>1. wpc'[v] \notin {"serve", "chain"}
      BY <2>5, <1>0 DEF Serve, Look, Ack, GiveUp, Token, Park, WGo, WorkTypes
    <3> QED
      BY <3>1 DEF ServesAt
  <2> QED
    BY <2>1, <2>2, <2>3, <2>4, <2>5 DEF WorkStep
<1> QED
  BY <1>1, <1>2, <1>3, <1>4

(* Every step keeps the phases in order. *)
LEMMA PhaseStep == IInv /\ [Next]_vars => PhaseInv'
<1> SUFFICES ASSUME IInv, [Next]_vars PROVE PhaseInv'
  OBVIOUS
<1>1. CASE UNCHANGED vars
  BY <1>1 DEF vars, prodVars, workVars, IInv, PhaseInv, DownAt, OpenAt,
     ServesAt, TokenAt, Ending, Stale
<1> QED
  BY <1>1, PhaseProducer, PhaseOwner, PhaseWorker, Steps

-----------------------------------------------------------------------------
(* The invariant holds at first. *)
LEMMA InitInv == Init => IInv
<1> SUFFICES ASSUME Init PROVE IInv
  OBVIOUS
<1>0. Owner \in Threads /\ Far \in Nat /\ MaxCalls \in Nat /\ MaxScopes \in Nat
  BY ParkingAssumption DEF ParkingAssumption
<1>1. PoolTypes
  BY <1>0 DEF Init, PoolTypes
<1>2. ProdTypes
  BY <1>0 DEF Init, ProdTypes, PCs, Stores
<1>3. WorkTypes
  BY <1>0 DEF Init, WorkTypes, WPCs, Tokens, Stale
<1>4. QueueTypes
  <2>1. asleep = <<>> /\ DOMAIN asleep = {} /\ asleep \in Seq(Workers)
    BY DEF Init
  <2>2. IsInjective(asleep) /\ ToSet(asleep) = {}
    BY <2>1 DEF IsInjective, ToSet
  <2>3. {w \in Workers : wpc[w] = "asleep"} = {}
    BY DEF Init
  <2> QED
    BY <2>1, <2>2, <2>3 DEF QueueTypes
<1>5. BoundInv
  <2>1. BeforeDispatch = {}
    BY DEF Init, BeforeDispatch
  <2>2. IsFiniteSet(BeforeDispatch) /\ Cardinality(BeforeDispatch) = 0
    BY <2>1, FS_EmptySet
  <2> QED
    BY <2>2, <1>0 DEF BoundInv, Init
<1>6. PlaceInv
  <2>1. \A t \in Threads : pc[t] = "idle" /\ step[t] = "none" /\ gate # t
    BY ParkingAssumption DEF Init, ParkingAssumption
  <2> QED
    BY <2>1, <1>0 DEF PlaceInv, Ending, Gated, Scoping
<1>7. DepthInv
  BY <1>0 DEF Init, DepthInv, Ending, InScope, Scoping
<1>8. PhaseInv
  BY <1>0 DEF Init, PhaseInv, DownAt, OpenAt, ServesAt, TokenAt
<1> QED
  BY <1>1, <1>2, <1>3, <1>4, <1>5, <1>6, <1>7, <1>8, TypeParts DEF IInv,
     PathInv

(* Every step keeps the invariant. *)
LEMMA StepInv == IInv /\ [Next]_vars => IInv'
<1>1. TypeOK' <=> PoolTypes' /\ ProdTypes' /\ WorkTypes' /\ QueueTypes'
  BY DEF TypeOK, PoolTypes, ProdTypes, WorkTypes, QueueTypes, Tokens, Stores
<1> QED
  BY <1>1, PoolStep, ProdStep, WorkStepTypes, QueueStep, BoundStep, PlaceStep,
     DepthStep, PhaseStep DEF IInv, PathInv

(* The invariant, for any workers, threads and bounds: one producer at a   *)
(* time has the gate, the owner's scopes and its destructor are where the  *)
(* depth and the mailboxes say, and a worker's phases are in order.        *)
THEOREM ParkingInvariance == Spec => []IInv
  BY InitInv, StepInv, PTL DEF Spec

(* Every variable has its type, and the kernel's queue holds each sleeping *)
(* worker once.                                                            *)
THEOREM ParkingTypes == Spec => []TypeOK
<1>1. IInv => TypeOK
  BY DEF IInv
<1> QED
  BY <1>1, ParkingInvariance, PTL

-----------------------------------------------------------------------------
(***************************************************************************)
(* The constructor of a low-latency scope waits for every worker.          *)
(***************************************************************************)
(* The slots its loop has behind it have acknowledged the epoch of this    *)
(* scope, and in the scope every slot has.                                 *)
HotAt(w) ==
  /\ (pc[Owner] \in Scoping /\ w \notin slots[Owner] => hotEpoch[w] = epoch)
  /\ (InScope /\ pc[Owner] \notin Scoping => hotEpoch[w] = epoch)

ScopeInv == \A w \in Workers : HotAt(w)

(* Steps that leave the scopes alone. *)
LEMMA ScopeFrame ==
  ASSUME ScopeInv, UNCHANGED <<depth, epoch, hotEpoch>>,
         pc'[Owner] \in Scoping <=> pc[Owner] \in Scoping,
         pc[Owner] \in Scoping => slots'[Owner] = slots[Owner]
  PROVE  ScopeInv'
BY DEF ScopeInv, HotAt, InScope

(* The places of a scope are the owner's, and no call's. *)
LEMMA CallsLeaveScopes ==
  ASSUME IInv, NEW t \in Threads, CallStep(t) \/ \E k \in Kinds : Begin(t, k)
  PROVE  /\ UNCHANGED <<depth, epoch, hotEpoch>>
         /\ pc'[Owner] \in Scoping <=> pc[Owner] \in Scoping
         /\ pc[Owner] \in Scoping => slots'[Owner] = slots[Owner]
<1>0. PoolTypes /\ ProdTypes /\ PlaceInv /\ Owner \in Threads
  BY TypeParts, ParkingAssumption DEF IInv, PathInv, ParkingAssumption
<1>1. UNCHANGED <<depth, epoch, hotEpoch>>
  BY DEF CallStep, Begin, Entry, EntryLook, EntryDrained, EntryPending, Lease, Drained,
     DrainPending, Publish, ProbeHit, ProbeMissed, Join, Collapse, StoreWord,
     Wake, scopeVars, workVars
<1>2. CASE StoreWord(t) \/ DrainPending(t) \/ ProbeMissed(t)
  BY <1>1, <1>2 DEF StoreWord, DrainPending, ProbeMissed
<1>3. CASE Wake(t)
  <2>1. UNCHANGED slots /\ pc' = [pc EXCEPT ![t] = AfterWake(pc[t])]
    BY <1>3 DEF Wake, Go
  <2>2. pc[t] \in {"drain", "locked", "probe", "scopeWake", "stopWake"}
    BY <1>3, <1>0 DEF Wake, PlaceInv
  <2>3. AfterWake(pc[t]) = (IF pc[t] = "probe" THEN "join" ELSE IF pc[t] = "scopeWake" THEN "scopeWait"
             ELSE IF pc[t] = "stopWake" THEN "stopJoin" ELSE pc[t])
    BY <2>2 DEF AfterWake
  <2> QED
    BY <1>0, <1>1, <2>1, <2>2, <2>3 DEF Scoping, ProdTypes
<1>4. CASE \/ Lease(t) \/ Drained(t) \/ Publish(t) \/ ProbeHit(t)
           \/ Join(t) \/ Collapse(t) \/ \E k \in Kinds : Begin(t, k)
  <2>1. pc[t] \in Calling \union {"idle"}
    BY <1>4 DEF Lease, Drained, Publish, ProbeHit, Join, Collapse, Begin, At,
       Calling, Entering
  <2>2. pc'[t] \in Calling \union {"idle"}
    BY <1>4, <1>0, <2>1 DEF Lease, Drained, Publish, ProbeHit, Join, Collapse,
       Begin, NextSlot, Go, Calling, Entering, ProdTypes
  <2>3. \A u \in Threads \ {t} : slots'[u] = slots[u] /\ pc'[u] = pc[u]
    BY <1>4, <1>0 DEF Lease, Drained, Publish, ProbeHit, Join, Collapse, Begin,
       NextSlot, Go, SetSlots, ProdTypes
  <2>4. CASE t = Owner
    BY <2>1, <2>2, <2>4, <1>1 DEF Calling, Entering, Scoping
  <2>5. CASE t # Owner
    BY <2>3, <2>5, <1>0, <1>1
  <2> QED
    BY <2>4, <2>5
<1>5. CASE Entry(t)
  <2>1. /\ pc[t] \in Entering
        /\ \A u \in Threads \ {t} : slots'[u] = slots[u]
        /\ \E x \in Entering \union {"lease"} : pc' = [pc EXCEPT ![t] = x]
    BY <1>0, <1>5, EntryMoves
  <2> QED
    BY <2>1, <1>0, <1>1 DEF Entering, Scoping, ProdTypes
<1> QED
  BY <1>2, <1>3, <1>4, <1>5 DEF CallStep

(* The calls keep ScopeInv. *)
LEMMA ScopeProducer ==
  ASSUME IInv, ScopeInv, NEW t \in Threads, CallStep(t) \/ \E k \in Kinds : Begin(t, k)
  PROVE  ScopeInv'
  BY CallsLeaveScopes, ScopeFrame

(* The owner keeps it. *)
LEMMA ScopeOwner ==
  ASSUME IInv, ScopeInv, OwnerStep
  PROVE  ScopeInv'
<1>0. PoolTypes /\ ProdTypes /\ WorkTypes /\ PlaceInv /\ DepthInv
        /\ Owner \in Threads
  BY TypeParts, ParkingAssumption DEF IInv, PathInv, ParkingAssumption
<1>a. /\ epoch \in Nat /\ depth \in 0 .. 1
      /\ \A w \in Workers : hotEpoch[w] \in Nat /\ hotEpoch[w] <= epoch
  BY <1>0 DEF PoolTypes, WorkTypes, DepthInv
<1>1. CASE ScopeEpoch \/ ScopeClose
  <2>1. ~InScope' /\ pc'[Owner] \notin Scoping
    BY <1>1, <1>0, <1>a DEF ScopeEpoch, ScopeClose, Engaged, InScope, At, Go,
       ProdTypes, Scoping, prodVars
  <2> QED
    BY <2>1 DEF ScopeInv, HotAt
<1>2. CASE ScopeDepth
  <2>1. pc'[Owner] \in Scoping /\ slots'[Owner] = Workers
    BY <1>2, <1>0 DEF ScopeDepth, Go, SetSlots, ProdTypes, Scoping
  <2> QED
    BY <2>1 DEF ScopeInv, HotAt
<1>3. CASE ScopeAcked
  <2>1. /\ pc[Owner] = "scopeWait" /\ pc'[Owner] \in {"scopeWait", "idle"}
        /\ UNCHANGED <<hotEpoch, depth, epoch>>
    BY <1>3, <1>0 DEF ScopeAcked, At, Go, ProdTypes, workVars, scopeVars
  <2>2. PICK v \in Workers : v = First(slots[Owner]) /\ v \in slots[Owner]
    BY <2>1, <1>0, FirstIn DEF PlaceInv, ProdTypes, Scoping
  <2>3. /\ hotEpoch[v] >= epoch /\ slots'[Owner] = slots[Owner] \ {v}
        /\ (pc'[Owner] = "idle" => slots[Owner] = {v})
    BY <1>3, <2>1, <2>2, <1>0 DEF ScopeAcked, Acked, SetSlots, ProdTypes
  <2>4. hotEpoch[v] = epoch
    BY <2>3, <1>a
  <2>5. ASSUME NEW w \in Workers PROVE HotAt(w)'
    <3>1. w \notin slots'[Owner] => hotEpoch[w] = epoch
      BY <2>1, <2>3, <2>4 DEF ScopeInv, HotAt, Scoping
    <3>2. pc'[Owner] = "idle" => hotEpoch[w] = epoch
      BY <3>1, <2>3
    <3> QED
      BY <3>1, <3>2, <2>1 DEF HotAt, Scoping
  <2> QED
    BY <2>5 DEF ScopeInv
<1>4. CASE ScopeWake \/ ScopeRetry \/ Shutdown \/ ShutdownStore \/ ShutdownWake \/ ShutdownJoin
  <2>1. UNCHANGED <<hotEpoch, depth, epoch>>
    BY <1>4 DEF ScopeWake, ScopeRetry, Shutdown, ShutdownStore, ShutdownWake,
       ShutdownJoin, workVars, scopeVars
  <2>2. /\ pc'[Owner] \in Scoping <=> pc[Owner] \in Scoping
        /\ pc[Owner] \in Scoping => slots'[Owner] = slots[Owner]
    <3>1. CASE ScopeWake \/ ScopeRetry \/ ShutdownWake
      BY <3>1, <1>0 DEF ScopeWake, ScopeRetry, ShutdownWake, At, Go,
         ProdTypes, Scoping
    <3>2. CASE Shutdown \/ ShutdownStore \/ ShutdownJoin
      BY <3>2, <1>0 DEF Shutdown, ShutdownStore, ShutdownJoin, At, Go,
         ProdTypes, Scoping
    <3> QED
      BY <3>1, <3>2, <1>4
  <2> QED
    BY <2>1, <2>2, ScopeFrame
<1> QED
  BY <1>1, <1>2, <1>3, <1>4 DEF OwnerStep

(* The workers keep it: what they acknowledge is the epoch there is. *)
LEMMA ScopeWorker ==
  ASSUME IInv, ScopeInv, NEW w \in Workers, WorkStep(w)
  PROVE  ScopeInv'
<1>0. WorkTypes
  BY TypeParts DEF IInv
<1>1. UNCHANGED <<depth, epoch, pc, slots>>
  BY DEF WorkStep, Observe, Serve, Look, Ack, GiveUp, Token, Recheck, Park,
     Woken, ChainWake, Interrupted, poolVars, prodVars, scopeVars
<1>2. hotEpoch' = [hotEpoch EXCEPT ![w] = epoch] \/ UNCHANGED hotEpoch
  BY DEF WorkStep, Observe, Serve, Look, Ack, GiveUp, Token, Recheck, Park,
     Woken, ChainWake, Interrupted
<1>3. \A v \in Workers : hotEpoch'[v] \in {hotEpoch[v], epoch}
  BY <1>0, <1>2 DEF WorkTypes
<1> QED
  BY <1>1, <1>3 DEF ScopeInv, HotAt, InScope

(* Every step keeps it. *)
LEMMA ScopeStep == IInv /\ ScopeInv /\ [Next]_vars => ScopeInv'
<1> SUFFICES ASSUME IInv, ScopeInv, [Next]_vars PROVE ScopeInv'
  OBVIOUS
<1>1. CASE UNCHANGED vars
  BY <1>1, ScopeFrame DEF vars, prodVars, workVars, scopeVars
<1> QED
  BY <1>1, ScopeProducer, ScopeOwner, ScopeWorker, Steps

(* It holds at first. *)
LEMMA InitScope == Init => ScopeInv
  BY ParkingAssumption DEF Init, ScopeInv, HotAt, InScope, Scoping,
     ParkingAssumption

(* Once the constructor of a scope has returned, every worker has          *)
(* acknowledged the epoch of that very scope and none an earlier one only, *)
(* for any number of scopes after one another.                             *)
AckedInScope == InScope /\ pc[Owner] \notin Scoping => \A w \in Workers : hotEpoch[w] = epoch

(* The handshake of the constructor is complete in every open scope. *)
THEOREM ScopesAcked == Spec => []AckedInScope
<1>1. ScopeInv => AckedInScope
  BY DEF ScopeInv, HotAt, AckedInScope
<1> QED
  BY <1>1, ScopeStep, InitScope, ParkingInvariance, PTL DEF Spec

-----------------------------------------------------------------------------
(***************************************************************************)
(* What is published, and who has answered when a call returns.            *)
(***************************************************************************)
(* The slots a publishing producer has done have the generation.           *)
PubAt(t, w) ==
  pc[t] = "publish" /\ w \notin slots[t] => mailbox[w].gen = generation
(* Of the slots that were joined only a parallelFor's may owe an answer.   *)
JoinAt(t, w) == pc[t] = "join" /\ w \notin slots[t] /\ New(w) => kind[t] = "for"
(* Between two publications every mailbox has the generation.              *)
Published(w) ==
  (\A t \in Threads : pc[t] # "publish") /\ ~Ending
    => mailbox[w].gen = generation

DoneAt(w) == (\A t \in Threads : PubAt(t, w) /\ JoinAt(t, w)) /\ Published(w)

DoneInv == \A w \in Workers : DoneAt(w)

(* At the end nobody publishes or joins. *)
LEMMA DoneAtEnd ==
  ASSUME PlaceInv', Ending'
  PROVE  DoneInv'
<1>1. \A t \in Threads : pc'[t] \notin {"publish", "join"}
  BY DEF PlaceInv, Ending
<1> QED
  BY <1>1 DEF DoneInv, DoneAt, PubAt, JoinAt, Published

(* Steps that neither publish nor serve. *)
LEMMA DoneFrame ==
  ASSUME NEW w \in Workers, DoneAt(w), ~Ending, UNCHANGED <<mailbox, generation>>,
         seen'[w] = seen[w],
         \A t \in Threads : /\ (pc'[t] = "publish" <=> pc[t] = "publish")
                            /\ (pc'[t] = "join" <=> pc[t] = "join")
                            /\ (pc[t] \in {"publish", "join"}
                                 => slots'[t] = slots[t] /\ kind'[t] = kind[t])
  PROVE  DoneAt(w)'
<1>0. New(w)' <=> New(w)
  BY DEF New
<1>1. ASSUME NEW t \in Threads PROVE PubAt(t, w)' /\ JoinAt(t, w)'
  <2>1. PubAt(t, w) /\ JoinAt(t, w)
    BY DEF DoneAt
  <2> QED
    BY <2>1, <1>0 DEF PubAt, JoinAt
<1>2. Published(w)'
  BY DEF DoneAt, Published
<1> QED
  BY <1>1, <1>2 DEF DoneAt

(* One producer at a time has the gate. *)
LEMMA OneGated ==
  ASSUME PlaceInv, NEW t \in Threads, pc[t] \in Gated
  PROVE  ~Ending /\ \A u \in Threads \ {t} : pc[u] \notin {"publish", "probe", "join"}
<1>1. \A u \in Threads \ {t} : pc[u] \notin Gated
  BY DEF PlaceInv
<1>2. ~Ending
  BY DEF PlaceInv, Ending, Gated
<1> QED
  BY <1>1, <1>2 DEF Gated

(* The calls keep DoneInv. *)
LEMMA DoneProducer ==
  ASSUME IInv, DoneInv, PlaceInv', NEW t \in Threads, CallStep(t) \/ \E k \in Kinds : Begin(t, k),
         ~Ending'
  PROVE  DoneInv'
<1>0. PoolTypes /\ ProdTypes /\ WorkTypes /\ PlaceInv /\ Owner \in Threads
  BY TypeParts, ParkingAssumption DEF IInv, PathInv, ParkingAssumption
<1> SUFFICES ASSUME NEW w \in Workers PROVE DoneAt(w)'
  BY DEF DoneInv
<1>b. DoneAt(w)
  BY DEF DoneInv
<1>a. CASE Entry(t) \/ Lease(t) \/ \E k \in Kinds : Begin(t, k)
  <2>1. /\ UNCHANGED <<mailbox, generation, seen>>
        /\ \A u \in Threads \ {t} : slots'[u] = slots[u] /\ kind'[u] = kind[u]
        /\ pc[t] \in Entering \union {"idle", "lease"}
        /\ \E x \in Entering \union {"lease", "locked"} : pc' = [pc EXCEPT ![t] = x]
    <3>1. CASE Entry(t)
      BY <3>1, <1>0, EntryMoves DEF workVars
    <3>2. CASE Lease(t) \/ \E k \in Kinds : Begin(t, k)
      BY <3>2, <1>0 DEF Lease, Begin, At, Go, ProdTypes, Entering, workVars
    <3> QED
      BY <3>1, <3>2, <1>a
  <2>2. pc[t] \notin {"publish", "join"} /\ pc'[t] \notin {"publish", "join"} /\ ~Ending
    BY <2>1, <1>0 DEF Ending, Entering, ProdTypes
  <2>3. \A u \in Threads : /\ (pc'[u] = "publish" <=> pc[u] = "publish")
                           /\ (pc'[u] = "join" <=> pc[u] = "join")
                           /\ (pc[u] \in {"publish", "join"}
                                => slots'[u] = slots[u] /\ kind'[u] = kind[u])
    BY <2>1, <2>2, <1>0 DEF ProdTypes
  <2> QED
    BY <2>1, <2>2, <2>3, <1>b, DoneFrame
<1>1. CASE DrainPending(t) \/ ProbeMissed(t) \/ StoreWord(t)
  <2>1. UNCHANGED <<mailbox, generation, seen, slots, kind, pc>>
    BY <1>1 DEF DrainPending, ProbeMissed, StoreWord, workVars
  <2> QED
    BY <2>1, <1>b, DoneFrame DEF Ending
<1>2. CASE Wake(t) /\ pc[t] # "probe"
  <2>1. UNCHANGED <<mailbox, generation, seen, slots, kind>>
          /\ pc' = [pc EXCEPT ![t] = AfterWake(pc[t])]
    BY <1>2 DEF Wake, Go
  <2>2. pc[t] \in {"drain", "locked", "scopeWake", "stopWake"}
    BY <1>2, <1>0 DEF Wake, PlaceInv
  <2>3. AfterWake(pc[t]) = (IF pc[t] = "scopeWake" THEN "scopeWait"
             ELSE IF pc[t] = "stopWake" THEN "stopJoin" ELSE pc[t])
    BY <2>2 DEF AfterWake
  <2>4. ~Ending /\ \A u \in Threads : /\ (pc'[u] = "publish" <=> pc[u] = "publish")
                                      /\ (pc'[u] = "join" <=> pc[u] = "join")
    BY <2>1, <2>2, <2>3, <1>0 DEF Ending, ProdTypes
  <2> QED
    BY <2>1, <2>4, <1>b, DoneFrame
<1>3. CASE Drained(t)
  <2>1. /\ pc[t] = "locked" /\ pc' = [pc EXCEPT ![t] = "publish"]
        /\ slots' = [slots EXCEPT ![t] = Workers]
    BY <1>3 DEF Drained, At, Go, SetSlots
  <2>2. \A u \in Threads \ {t} : pc[u] \notin {"publish", "probe", "join"}
    BY <2>1, <1>0, OneGated DEF Gated
  <2>3. w \in slots'[t] /\ pc'[t] = "publish"
          /\ \A u \in Threads \ {t} : pc'[u] \notin {"publish", "join"}
    BY <2>1, <2>2, <1>0 DEF ProdTypes
  <2> QED
    BY <2>3 DEF DoneAt, PubAt, JoinAt, Published
<1>4. CASE Publish(t)
  <2>1. PICK v \in Workers : v = First(slots[t]) /\ v \in slots[t]
    BY <1>4, <1>0, FirstIn DEF Publish, At, PlaceInv, ProdTypes
  <2>2. /\ pc[t] = "publish" /\ UNCHANGED generation
        /\ mailbox' = [mailbox EXCEPT ![v].gen = generation]
    BY <1>4, <2>1 DEF Publish, At
  <2>3. mailbox'[w].gen = IF w = v THEN generation ELSE mailbox[w].gen
    BY <2>2, <1>0 DEF PoolTypes
  <2>4. PubAt(t, w)
          /\ \A u \in Threads \ {t} : pc[u] \notin {"publish", "probe", "join"}
    BY <2>2, <1>b, <1>0, OneGated DEF DoneAt, Gated
  <2>5. CASE slots[t] = {v}
    <3>1. \E x \in {"join", "probe"} : pc' = [pc EXCEPT ![t] = x]
      BY <1>4, <2>5, <2>1 DEF Publish, Go
    <3>2. slots'[t] = Workers
      BY <1>4, <2>5, <2>1, <1>0 DEF Publish, SetSlots, ProdTypes
    <3>3. mailbox'[w].gen = generation'
      BY <2>2, <2>3, <2>4, <2>5 DEF PubAt
    <3>4. pc'[t] \in {"join", "probe"}
            /\ \A u \in Threads \ {t} : pc'[u] \notin {"publish", "join"}
      BY <3>1, <2>4, <1>0 DEF ProdTypes
    <3> QED
      BY <3>2, <3>3, <3>4 DEF DoneAt, PubAt, JoinAt, Published
  <2>6. CASE slots[t] # {v}
    <3>1. UNCHANGED pc /\ slots' = [slots EXCEPT ![t] = slots[t] \ {v}]
      BY <1>4, <2>6, <2>1 DEF Publish, SetSlots
    <3>2. slots'[t] = slots[t] \ {v}
      BY <3>1, <1>0 DEF ProdTypes
    <3>3. PubAt(t, w)'
      BY <3>1, <3>2, <2>2, <2>3, <2>4 DEF PubAt
    <3> QED
      BY <3>1, <3>3, <2>2, <2>4 DEF DoneAt, PubAt, JoinAt, Published
  <2> QED
    BY <2>5, <2>6
<1>5. CASE ProbeHit(t) \/ (Wake(t) /\ pc[t] = "probe")
  <2>1. /\ pc[t] = "probe" /\ UNCHANGED <<mailbox, generation, slots>>
        /\ pc' = [pc EXCEPT ![t] = "join"]
    BY <1>5 DEF ProbeHit, Wake, AfterWake, At, Go
  <2>2. slots'[t] = Workers
    BY <2>1, <1>0 DEF PlaceInv
  <2>3. ~Ending /\ \A u \in Threads \ {t} : pc[u] \notin {"publish", "probe", "join"}
    BY <2>1, <1>0, OneGated DEF Gated
  <2>4. mailbox'[w].gen = generation'
    BY <2>1, <2>3, <1>b DEF DoneAt, Published
  <2>5. pc'[t] = "join"
          /\ \A u \in Threads \ {t} : pc'[u] \notin {"publish", "join"}
    BY <2>1, <2>3, <1>0 DEF ProdTypes
  <2> QED
    BY <2>2, <2>4, <2>5 DEF DoneAt, PubAt, JoinAt, Published
<1>6. CASE Join(t) \/ Collapse(t)
  <2>1. PICK v \in Workers : v = First(slots[t]) /\ v \in slots[t]
    BY <1>6, <1>0, FirstIn DEF Join, Collapse, At, PlaceInv, ProdTypes
  <2>2. /\ pc[t] = "join" /\ UNCHANGED <<generation, seen, mailbox>>
        /\ ~New(v) \/ kind[t] = "for"
        /\ NextSlot(t)
    BY <1>6, <2>1 DEF Join, Collapse, Collapses, At, workVars, New, Done
  <2>3. /\ slots' = [slots EXCEPT ![t] = slots[t] \ {v}]
        /\ \/ pc' = [pc EXCEPT ![t] = "idle"]
           \/ UNCHANGED <<pc, kind>>
    BY <2>1, <2>2 DEF NextSlot, SetSlots, Go
  <2>4. slots'[t] = slots[t] \ {v}
    BY <2>3, <1>0 DEF ProdTypes
  <2>5. ~Ending /\ \A u \in Threads \ {t} : pc[u] \notin {"publish", "probe", "join"}
    BY <2>2, <1>0, OneGated DEF Gated
  <2>6. \A u \in Threads \ {t} : pc'[u] \notin {"publish", "probe", "join"}
    BY <2>3, <2>5, <1>0 DEF ProdTypes
  <2>7. pc'[t] # "publish" /\ (pc'[t] = "join" => kind'[t] = kind[t])
    BY <2>2, <2>3, <1>0 DEF ProdTypes
  <2>8. mailbox'[w].gen = generation'
    BY <2>2, <2>5, <1>b DEF DoneAt, Published
  <2>9. w \notin slots'[t] /\ New(w)' => kind[t] = "for"
    <3>1. JoinAt(t, w) /\ (New(w)' <=> New(w))
      BY <2>2, <1>b DEF DoneAt, New
    <3> QED
      BY <3>1, <2>2, <2>4 DEF JoinAt
  <2> QED
    BY <2>6, <2>7, <2>8, <2>9 DEF DoneAt, PubAt, JoinAt, Published
<1> QED
  BY <1>a, <1>1, <1>2, <1>3, <1>4, <1>5, <1>6 DEF CallStep

(* The owner keeps it. *)
LEMMA DoneOwner ==
  ASSUME IInv, DoneInv, OwnerStep, ~Ending'
  PROVE  DoneInv'
<1>0. ProdTypes /\ PlaceInv /\ Owner \in Threads
  BY TypeParts, ParkingAssumption DEF IInv, PathInv, ParkingAssumption
<1>1. \/ ScopeEpoch \/ ScopeDepth \/ ScopeWake \/ ScopeAcked \/ ScopeRetry \/ ScopeClose
  <2>1. CASE Shutdown \/ ShutdownStore \/ ShutdownJoin
    BY <2>1, <1>0 DEF Shutdown, ShutdownStore, ShutdownJoin, At, Go, Ending,
       ProdTypes
  <2>2. CASE ShutdownWake
    BY <2>2 DEF ShutdownWake, At, Ending
  <2> QED
    BY <2>1, <2>2 DEF OwnerStep
<1>2. /\ UNCHANGED <<mailbox, generation, seen, kind>>
      /\ \A u \in Threads \ {Owner} : pc'[u] = pc[u] /\ slots'[u] = slots[u]
  BY <1>0, <1>1 DEF ScopeEpoch, ScopeDepth, ScopeWake, ScopeAcked, ScopeRetry,
     ScopeClose, Go, SetSlots, ProdTypes, workVars, prodVars
<1>3. pc[Owner] \in {"idle", "scopeDepth", "scopeWake", "scopeWait"}
  BY <1>1 DEF ScopeEpoch, ScopeDepth, ScopeWake, ScopeAcked, ScopeRetry,
     ScopeClose, At
<1>4. pc'[Owner] \in {"idle", "scopeDepth", "scopeWake", "scopeWait"}
  BY <1>0, <1>1, <1>3 DEF ScopeEpoch, ScopeDepth, ScopeWake, ScopeAcked,
     ScopeRetry, ScopeClose, Go, ProdTypes, prodVars
<1> SUFFICES ASSUME NEW w \in Workers PROVE DoneAt(w)'
  BY DEF DoneInv
<1>5. DoneAt(w) /\ ~Ending
  BY <1>3 DEF DoneInv, Ending
<1>6. \A t \in Threads : /\ (pc'[t] = "publish" <=> pc[t] = "publish")
                         /\ (pc'[t] = "join" <=> pc[t] = "join")
                         /\ (pc[t] \in {"publish", "join"}
                              => slots'[t] = slots[t] /\ kind'[t] = kind[t])
  BY <1>2, <1>3, <1>4
<1> QED
  BY <1>2, <1>5, <1>6, DoneFrame

(* A worker that serves settles its own phase only. *)
LEMMA DoneWorker ==
  ASSUME IInv, DoneInv, NEW v \in Workers, WorkStep(v), ~Ending'
  PROVE  DoneInv'
<1>0. PoolTypes /\ WorkTypes /\ PhaseInv
  BY TypeParts DEF IInv
<1>1. UNCHANGED <<mailbox, generation, kind, pc, slots>>
  BY DEF WorkStep, Observe, Serve, Look, Ack, GiveUp, Token, Recheck, Park,
     Woken, ChainWake, Interrupted, poolVars, prodVars
<1>2. ~Ending
  BY <1>1 DEF Ending
<1> SUFFICES ASSUME NEW w \in Workers PROVE DoneAt(w)'
  BY DEF DoneInv
<1>3. DoneAt(w)
  BY DEF DoneInv
<1>4. CASE Serve(v) /\ w = v
  <2>1. seen'[w] = obs[w] /\ wpc[w] = "serve"
    BY <1>4, <1>0 DEF Serve, WAt, WorkTypes
  <2>2. seen[w] < obs[w] /\ obs[w] <= mailbox[w].gen
    BY <2>1, <1>0 DEF PhaseInv, ServesAt
  <2>3. New(w)
    BY <2>2, <1>0 DEF New, PoolTypes, WorkTypes
  <2>4. ASSUME NEW t \in Threads PROVE PubAt(t, w)' /\ JoinAt(t, w)'
    <3>1. PubAt(t, w) /\ JoinAt(t, w)
      BY <1>3 DEF DoneAt
    <3> QED
      BY <3>1, <2>3, <1>1 DEF PubAt, JoinAt
  <2>5. Published(w)'
    BY <1>1, <1>2, <1>3 DEF DoneAt, Published
  <2> QED
    BY <2>4, <2>5 DEF DoneAt
<1>5. CASE ~(Serve(v) /\ w = v)
  <2>1. seen'[w] = seen[w]
    BY <1>5, <1>0 DEF WorkStep, Observe, Serve, Look, Ack, GiveUp, Token,
       Recheck, Park, Woken, ChainWake, Interrupted, WorkTypes
  <2> QED
    BY <2>1, <1>1, <1>2, <1>3, DoneFrame
<1> QED
  BY <1>4, <1>5

(* Every step keeps it. *)
LEMMA DoneStep == IInv /\ DoneInv /\ [Next]_vars => DoneInv'
<1> SUFFICES ASSUME IInv, DoneInv, [Next]_vars PROVE DoneInv'
  OBVIOUS
<1>1. PlaceInv'
  BY PlaceStep
<1>2. CASE Ending'
  BY <1>1, <1>2, DoneAtEnd
<1>3. CASE ~Ending' /\ UNCHANGED vars
  <2>1. UNCHANGED <<mailbox, generation, seen, kind, pc, slots>>
    BY <1>3 DEF vars, prodVars, workVars
  <2>2. ~Ending
    BY <1>3, <2>1 DEF Ending
  <2> QED
    BY <2>1, <2>2, DoneFrame DEF DoneInv
<1> QED
  BY <1>1, <1>2, <1>3, DoneProducer, DoneOwner, DoneWorker, Steps

(* It holds at first. *)
LEMMA InitDone == Init => DoneInv
<1> SUFFICES ASSUME Init, NEW w \in Workers PROVE DoneAt(w)
  BY DEF DoneInv
<1>1. \A t \in Threads : pc[t] = "idle"
  BY DEF Init
<1>2. mailbox[w].gen = 0 /\ generation = 0
  BY DEF Init
<1> QED
  BY <1>1, <1>2 DEF DoneAt, PubAt, JoinAt, Published

(* A call ends in the join loop and nowhere else. *)
LEMMA CallEnds ==
  ASSUME IInv, [Next]_vars, NEW t \in Threads, kind[t] # "none", kind'[t] = "none"
  PROVE  Join(t) \/ Collapse(t)
<1>0. ProdTypes /\ Owner \in Threads
  BY TypeParts, ParkingAssumption DEF IInv, ParkingAssumption
<1>1. ASSUME NEW u \in Threads, CallStep(u), ~(Join(u) \/ Collapse(u)) PROVE FALSE
  BY <1>1 DEF CallStep, Entry, EntryLook, EntryDrained, EntryPending, Lease, Drained,
     DrainPending, Publish, ProbeHit, ProbeMissed, StoreWord, Wake
<1>2. ASSUME NEW u \in Threads, Join(u) \/ Collapse(u) PROVE u = t
  BY <1>2, <1>0 DEF Join, Collapse, NextSlot, ProdTypes
<1>3. ASSUME NEW u \in Threads, NEW k \in Kinds, Begin(u, k) PROVE FALSE
  BY <1>3, <1>0 DEF Begin, ProdTypes, Kinds
<1>4. CASE OwnerStep
  BY <1>4 DEF OwnerStep, ScopeEpoch, ScopeDepth, ScopeWake, ScopeAcked, ScopeRetry,
     ScopeClose, Shutdown, ShutdownStore, ShutdownWake, ShutdownJoin, prodVars
<1>5. ASSUME NEW w \in Workers, WorkStep(w) PROVE FALSE
  BY <1>5 DEF WorkStep, Observe, Serve, Look, Ack, GiveUp, Token, Recheck, Park,
     Woken, ChainWake, Interrupted, poolVars, prodVars
<1>6. CASE UNCHANGED vars
  BY <1>6 DEF vars, prodVars
<1> QED
  BY <1>1, <1>2, <1>3, <1>4, <1>5, <1>6, Steps

(* A call whose workers use its caller's stack returns only when every     *)
(* worker has got its dispatch and answered it, for any number of workers  *)
(* and threads, whatever was collapsed before, whoever clears a bit of the *)
(* mask and whatever wakes are lost: a lost wake can hang such a call, and *)
(* cannot end it too early.                                                *)
THEOREM NobodyLeftInside == Spec => NobodyInTheFrame
<1>1. IInv /\ DoneInv /\ [Next]_vars
        => [\A t \in Threads : kind[t] \in {"reduce", "lease"} /\ kind'[t] = "none" =>
              \A w \in Workers : mailbox[w].gen = generation /\ ~New(w)]_vars
  <2> SUFFICES ASSUME IInv, DoneInv, [Next]_vars, NEW t \in Threads,
                      kind[t] \in {"reduce", "lease"}, kind'[t] = "none",
                      NEW w \in Workers
               PROVE  mailbox[w].gen = generation /\ ~New(w)
    OBVIOUS
  <2>0. ProdTypes /\ PlaceInv
    BY TypeParts DEF IInv, PathInv
  <2>1. Join(t)
    BY CallEnds DEF Collapse, Collapses
  <2>2. PICK v \in Workers : v = First(slots[t]) /\ v \in slots[t]
    BY <2>1, <2>0, FirstIn DEF Join, At, PlaceInv, ProdTypes
  <2>3. pc[t] = "join" /\ ~New(v)
    BY <2>1, <2>2 DEF Join, At, New, Done
  <2>4. slots[t] \ {v} = {}
    BY <2>1, <2>2 DEF Join, NextSlot
  <2>5. JoinAt(t, w) /\ Published(w)
    BY DEF DoneInv, DoneAt
  <2>6. ~New(w)
    BY <2>3, <2>4, <2>5 DEF JoinAt
  <2>7. mailbox[w].gen = generation
    BY <2>3, <2>5, <2>0, OneGated DEF Published, Gated
  <2> QED
    BY <2>6, <2>7
<1> QED
  BY <1>1, DoneStep, InitDone, ParkingInvariance, PTL DEF Spec, NobodyInTheFrame
=============================================================================
