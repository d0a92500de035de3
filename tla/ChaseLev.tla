------------------------------ MODULE ChaseLev ------------------------------
(***************************************************************************)
(* The work-stealing deque of citor: one owner pushes and pops at the      *)
(* bottom, any number of thieves steal at the top, and the owner replaces  *)
(* the ring buffer by a larger one when it is full.                        *)
(*                                                                         *)
(* Source: detail/chase_lev_deque.h (ChaseLevDeque).                       *)
(*                                                                         *)
(* The memory is that of x86: a store of the owner goes through a store    *)
(* buffer, first in first out, and reaches the others later; the seq_cst   *)
(* fence and every compare-and-swap wait until the buffer is empty.  The   *)
(* owner is the only one that stores; a thief loads and swaps.             *)
(*                                                                         *)
(* Indices are as unbounded as 64 bits are.  A task is its number in the   *)
(* order of the pushes: forkJoin pushes a descriptor once.                 *)
(***************************************************************************)
EXTENDS Integers, SequencesExt

CONSTANTS Thieves,     (* the threads that steal                           *)
          InitCap,     (* kInitialCapacity: 64 in the code                 *)
          Reserves,    (* the arguments of reserveOwner                    *)
          MaxPush      (* bound on the pushes                              *)

(* No odd number but 1 divides a power of two. *)
PowerOfTwo(c) == c \in Nat \ {0} /\ \A d \in 2 .. c : c % d = 0 => d % 2 = 0

ChaseLevAssumption ==
  /\ IsFiniteSet(Thieves)
  /\ PowerOfTwo(InitCap)
  /\ Reserves \subseteq Nat
  /\ MaxPush \in Nat

ASSUME ChaseLevAssumption

Tasks == 1 .. MaxPush
None == 0                   (* T{} in a slot, std::nullopt as an answer *)

VARIABLES
  top, bottom,   (* m_top and m_bottom, as the memory has them           *)
  array,         (* m_array: a position in arrays                         *)
  arrays,        (* every Array ever allocated: its slots, from index 0   *)
  retired,       (* m_freelist                                            *)
  freed,         (* the arrays given back to the allocator                *)
  buf,           (* the owner's store buffer, the oldest store first      *)
  pc,            (* where the owner is                                    *)
  pushed,        (* the pushes so far                                     *)
  rt,            (* the owner's copy of top                               *)
  rb,            (* the owner's copy of bottom                            *)
  tpc,           (* where each thief is                                   *)
  tt, tarr, tval,(* a thief's copies of top, of the array, of the slot    *)
  out            (* how often each task was handed out                    *)

memVars == <<top, bottom, array, arrays>>
ownVars == <<pc, pushed, rt, rb>>
thiefVars == <<tpc, tt, tarr, tval>>
vars == <<memVars, retired, freed, buf, ownVars, thiefVars, out>>

-----------------------------------------------------------------------------
(***************************************************************************)
(* Arrays and the store buffer.                                            *)
(***************************************************************************)
Empty(cap) == [i \in 0 .. cap - 1 |-> None]
Cap(a) == Cardinality(DOMAIN a)

(* The slot of a logical index: i & mask, capacities being powers of two. *)
Slot(a, i) == i % Cap(a)

Store(var, val) == [var |-> var, at |-> 0, val |-> val]
SlotStore(i, val) == [var |-> "slot", at |-> i, val |-> val]

(* What the owner itself reads: its own latest store, or the memory. *)
Latest(var, mem) ==
  LET mine == {i \in 1 .. Len(buf) : buf[i].var = var}
  IN  IF mine = {} THEN mem ELSE buf[Max(mine)].val

OwnBottom == Latest("bottom", bottom)
OwnArray == Latest("array", array)
OwnSlot(i) ==
  LET mine == {k \in 1 .. Len(buf) : buf[k].var = "slot" /\ buf[k].at = i}
  IN  IF mine = {} THEN arrays[OwnArray][Slot(arrays[OwnArray], i)]
                   ELSE buf[Max(mine)].val

Fenced == buf = <<>>

(* One store leaves the buffer. *)
Drain ==
  /\ buf # <<>>
  /\ buf' = Tail(buf)
  /\ LET s == Head(buf)
     IN  /\ bottom' = IF s.var = "bottom" THEN s.val ELSE bottom
         /\ array' = IF s.var = "array" THEN s.val ELSE array
         /\ arrays' = IF s.var = "slot"
                      THEN [arrays EXCEPT ![array][Slot(arrays[array], s.at)] = s.val]
                      ELSE arrays
  /\ UNCHANGED <<top, retired, freed, ownVars, thiefVars, out>>

-----------------------------------------------------------------------------
(***************************************************************************)
(* The owner.                                                              *)
(***************************************************************************)
Init ==
  /\ top = 0 /\ bottom = 0
  /\ arrays = <<Empty(InitCap)>> /\ array = 1
  /\ retired = {} /\ freed = {}
  /\ buf = <<>>
  /\ pc = "idle" /\ pushed = 0 /\ rt = 0 /\ rb = 0
  /\ tpc = [h \in Thieves |-> "idle"]
  /\ tt = [h \in Thieves |-> 0]
  /\ tarr = [h \in Thieves |-> 0]
  /\ tval = [h \in Thieves |-> None]
  /\ out = [t \in Tasks |-> 0]

(* Full: one slot of the ring stays free. *)
MustGrow(b, t) == b - t >= Cap(arrays[OwnArray]) - 1

PushBegin ==
  /\ pc = "idle"
  /\ pushed < MaxPush
  /\ rb' = OwnBottom /\ rt' = top
  /\ pc' = IF MustGrow(OwnBottom, top) THEN "grow" ELSE "push"
  /\ UNCHANGED <<memVars, retired, freed, buf, pushed, thiefVars, out>>

(* A fresh array with the live elements.  Nobody else can see it before    *)
(* its address is stored, and that store leaves the buffer after these.    *)
Copied(cap, t, b) ==
  [s \in 0 .. cap - 1 |->
     LET live == {i \in t .. b - 1 : i % cap = s}
     IN  IF live = {} THEN None ELSE OwnSlot(Max(live))]

NewArray(cap, t, b) ==
  /\ arrays' = Append(arrays, Copied(cap, t, b))
  /\ buf' = Append(buf, Store("array", Len(arrays) + 1))

Grow ==
  /\ pc = "grow"
  /\ NewArray(2 * Cap(arrays[OwnArray]), rt, rb)
  /\ pc' = "retire"
  /\ UNCHANGED <<top, bottom, array, retired, freed, pushed, rt, rb, thiefVars, out>>

(* The old array goes to the list by compare-and-swap, and stays there. *)
Superseded == Len(arrays) - 1
ReclaimedAtOnce == {Superseded}       \* mutant: the old array is deleted
Reclaimed == {}

Retire ==
  /\ pc \in {"retire", "retireReserve"}
  /\ Fenced
  /\ retired' = retired \union {Superseded}
  /\ freed' = freed \union Reclaimed
  /\ pc' = IF pc = "retire" THEN "push" ELSE "idle"
  /\ UNCHANGED <<memVars, buf, pushed, rt, rb, thiefVars, out>>

(* The slot, then the bottom: both into the buffer. *)
PushStores(b, t) == <<SlotStore(b, t), Store("bottom", b + 1)>>

Push ==
  /\ pc = "push"
  /\ pushed' = pushed + 1
  /\ buf' = buf \o PushStores(rb, pushed + 1)
  /\ pc' = "idle"
  /\ UNCHANGED <<memVars, retired, freed, rt, rb, thiefVars, out>>

(* reserveOwner: one growth for the pushes to come.  A capacity is a power *)
(* of two, and so are its doublings: the first that is enough is the one   *)
(* power of two in this range.                                             *)
Exactly(n) == {n + 1}                 \* mutant: no rounding
Doublings(n) == {c \in n + 1 .. 2 * n + 1 : PowerOfTwo(c)}

Reserve(n) ==
  /\ pc = "idle"
  /\ n + 1 > Cap(arrays[OwnArray])
  /\ rb' = OwnBottom /\ rt' = top
  /\ \E cap \in Doublings(n) : NewArray(cap, top, OwnBottom)
  /\ pc' = "retireReserve"
  /\ UNCHANGED <<top, bottom, array, retired, freed, pushed, thiefVars, out>>

PopBegin ==
  /\ pc = "idle"
  /\ rb' = OwnBottom - 1
  /\ buf' = Append(buf, Store("bottom", OwnBottom - 1))
  /\ pc' = "pop"
  /\ UNCHANGED <<memVars, retired, freed, pushed, rt, thiefVars, out>>

HandOut(t) == out' = [out EXCEPT ![t] = @ + 1]
NoFence == TRUE                       \* mutant: the fence is left out
PopFence == Fenced

(* Behind the fence the owner reads top.  Above its own index the deque is *)
(* empty, below it the task is the owner's, at it a thief may be after the *)
(* same task and the swap decides.                                         *)
NoneOrOneLeft(t, b) == t >= b         \* mutant: the last task is given up
NothingLeft(t, b) == t > b
Uncontended(t, b) == t # b

PopEmpty ==
  /\ pc = "pop" /\ PopFence
  /\ NothingLeft(top, rb)
  /\ buf' = Append(buf, Store("bottom", rb + 1))
  /\ pc' = "idle"
  /\ UNCHANGED <<memVars, retired, freed, pushed, rt, rb, thiefVars, out>>

PopOwn ==
  /\ pc = "pop" /\ PopFence
  /\ ~NothingLeft(top, rb) /\ Uncontended(top, rb)
  /\ HandOut(OwnSlot(rb))
  /\ pc' = "idle"
  /\ UNCHANGED <<memVars, retired, freed, buf, pushed, rt, rb, thiefVars>>

PopLast ==
  /\ pc = "pop" /\ PopFence
  /\ ~NothingLeft(top, rb) /\ ~Uncontended(top, rb)
  /\ rt' = top
  /\ pc' = "last"
  /\ UNCHANGED <<memVars, retired, freed, buf, pushed, rb, thiefVars, out>>

(* compare_exchange_strong on top, then the bottom is put back. *)
PopSwap ==
  /\ pc = "last" /\ Fenced
  /\ IF top = rt
     THEN top' = rt + 1 /\ HandOut(OwnSlot(rb))
     ELSE UNCHANGED <<top, out>>
  /\ buf' = Append(buf, Store("bottom", rb + 1))
  /\ pc' = "idle"
  /\ UNCHANGED <<bottom, array, arrays, retired, freed, pushed, rt, rb, thiefVars>>

(* The destructor: the active array and the list.  The call that owns the  *)
(* deque has joined with every thief before.                               *)
Destroy ==
  /\ pc = "idle"
  /\ Fenced
  /\ \A h \in Thieves : tpc[h] = "idle"
  /\ freed' = retired \union {array}
  /\ pc' = "gone"
  /\ UNCHANGED <<memVars, retired, buf, pushed, rt, rb, thiefVars, out>>

-----------------------------------------------------------------------------
(***************************************************************************)
(* A thief: top, bottom, array, slot, swap.                                *)
(***************************************************************************)
Goto(h, p) == tpc' = [tpc EXCEPT ![h] = p]

(* The end of an attempt: a thief keeps nothing. *)
Forget(h) ==
  /\ tval' = [tval EXCEPT ![h] = None]
  /\ tarr' = [tarr EXCEPT ![h] = 0]
  /\ tt' = [tt EXCEPT ![h] = 0]

StealTop(h) ==
  /\ tpc[h] = "idle"
  /\ pc # "gone"
  /\ tt' = [tt EXCEPT ![h] = top]
  /\ Goto(h, "bottom")
  /\ UNCHANGED <<memVars, retired, freed, buf, ownVars, tarr, tval, out>>

SeesTask(t) == t < bottom

StealBottom(h) ==
  /\ tpc[h] = "bottom"
  /\ IF SeesTask(tt[h]) THEN Goto(h, "array") /\ UNCHANGED <<tt, tarr, tval>>
                        ELSE Goto(h, "idle") /\ Forget(h)
  /\ UNCHANGED <<memVars, retired, freed, buf, ownVars, out>>

StealArray(h) ==
  /\ tpc[h] = "array"
  /\ tarr' = [tarr EXCEPT ![h] = array]
  /\ Goto(h, "slot")
  /\ UNCHANGED <<memVars, retired, freed, buf, ownVars, tt, tval, out>>

StealSlot(h) ==
  /\ tpc[h] = "slot"
  /\ LET a == arrays[tarr[h]]
     IN  tval' = [tval EXCEPT ![h] = a[Slot(a, tt[h])]]
  /\ Goto(h, "swap")
  /\ UNCHANGED <<memVars, retired, freed, buf, ownVars, tt, tarr, out>>

StealWin(h) ==
  /\ tpc[h] = "swap"
  /\ top = tt[h]
  /\ top' = top + 1
  /\ HandOut(tval[h])
  /\ Forget(h)
  /\ Goto(h, "idle")
  /\ UNCHANGED <<bottom, array, arrays, retired, freed, buf, ownVars>>

StealLose(h) ==
  /\ tpc[h] = "swap"
  /\ top # tt[h]
  /\ Forget(h)
  /\ Goto(h, "idle")
  /\ UNCHANGED <<memVars, retired, freed, buf, ownVars, out>>

-----------------------------------------------------------------------------
Owner == \/ PushBegin \/ Grow \/ Retire \/ Push
         \/ PopBegin \/ PopEmpty \/ PopOwn \/ PopLast \/ PopSwap
         \/ Destroy
         \/ \E n \in Reserves : Reserve(n)

Thief(h) == StealTop(h) \/ StealBottom(h) \/ StealArray(h) \/ StealSlot(h)
            \/ StealWin(h) \/ StealLose(h)

Gone == pc = "gone" /\ UNCHANGED vars

Next == Drain \/ Owner \/ (\E h \in Thieves : Thief(h)) \/ Gone

Spec == Init /\ [][Next]_vars

-----------------------------------------------------------------------------
(***************************************************************************)
(* Properties.                                                             *)
(***************************************************************************)
(* Types.  A capacity is a power of two, or the mask of a slot index would *)
(* not be its remainder.                                                   *)
TypeOK ==
  /\ top \in Nat /\ bottom \in Int
  /\ array \in 1 .. Len(arrays)
  /\ \A k \in 1 .. Len(arrays) :
       /\ DOMAIN arrays[k] = 0 .. Cap(arrays[k]) - 1
       /\ PowerOfTwo(Cap(arrays[k]))
       /\ \A i \in DOMAIN arrays[k] : arrays[k][i] \in Tasks \union {None}
  /\ retired \subseteq 1 .. Len(arrays) /\ freed \subseteq 1 .. Len(arrays)
  /\ \A k \in 1 .. Len(buf) : buf[k].var \in {"bottom", "array", "slot"}
  /\ pc \in {"idle", "grow", "retire", "retireReserve", "push", "pop", "last", "gone"}
  /\ pushed \in 0 .. MaxPush /\ rt \in Nat /\ rb \in Int
  /\ tpc \in [Thieves -> {"idle", "bottom", "array", "slot", "swap"}]
  /\ tt \in [Thieves -> Nat]
  /\ tarr \in [Thieves -> 0 .. Len(arrays)]
  /\ tval \in [Thieves -> Tasks \union {None}]
  /\ out \in [Tasks -> Nat]

(* The deque in the order of the owner's stores.  A pop has not happened   *)
(* before it knows whose the task is.                                      *)
LogicalBottom == IF pc \in {"pop", "last"} THEN rb + 1 ELSE OwnBottom
Contents == [k \in 1 .. LogicalBottom - top |-> OwnSlot(top + k - 1)]

(* The deque is a line of tasks: what the owner pops is the last one, what *)
(* a thief steals is the first, and no task is handed out twice, also when *)
(* owner and thief meet at the last one, when the ring wraps round, and    *)
(* when the owner replaces the array under a thief (push, pop, steal and   *)
(* grow of ChaseLevDeque).                                                 *)
Line == INSTANCE TaskDeque WITH content <- Contents
ImplementsTaskDeque == Line!Spec

(* A pop that comes back with nothing finds the deque empty: fork-join     *)
(* goes looking for tasks elsewhere when its own deque has none.           *)
MissesNothing ==
  [][(pc \in {"pop", "last"} /\ pc' = "idle" /\ out' = out) => Contents' = <<>>]_vars

(* A thief loads from an array that is still allocated: a superseded array *)
(* waits on the list for the destructor (grow, reserveOwner).              *)
ArraysLive == \A h \in Thieves : tpc[h] = "slot" => tarr[h] \notin freed
=============================================================================
