--------------------------- MODULE ForkJoinProofs ---------------------------
(***************************************************************************)
(* The theorems of module ForkJoin, for any slots, calls and fanouts: a    *)
(* nested drain pops its own call's tasks, the two counts of a call tell   *)
(* what is left of it, and a fork-join implements module TaskScope.        *)
(***************************************************************************)
EXTENDS ForkJoin, FiniteSetTheorems, SequenceTheorems, TLAPS

-----------------------------------------------------------------------------
(***************************************************************************)
(* The inductive invariant, by its parts.                                  *)
(***************************************************************************)
(* The frames of a stack: calls, which drain or spread their tasks, and     *)
(* tasks above them.                                                       *)
Draining == {"drain", "pop", "steal"}
CallPlaces == {"push", "tail"} \union Draining
Underway == {"body", "threw", "flag", "retire"}
TaskPlaces == {"gate", "skipped"} \union Underway
Hows == {"own", "peer", "tail"}
CallFrameType == [at : CallPlaces, call : Calls, own : Nat]
TaskFrameType == [at : TaskPlaces, task : Tasks, how : Hows]
FrameType == CallFrameType \union TaskFrameType

TypeInv ==
  /\ deque \in [Slots -> Seq(Tasks)]
  /\ stack \in [Slots -> Seq(FrameType)]
  /\ used \in 0 .. MaxCalls /\ outer \in 0 .. used
  /\ job \subseteq Slots /\ open \subseteq 1 .. used
  /\ pending \in [Calls -> Int]
  /\ cancelled \in [Calls -> BOOLEAN]
  /\ exc \in [Calls -> Tasks \union {None}]
  /\ token \subseteq open /\ stopped \in BOOLEAN
  /\ threw \subseteq Tasks
  /\ outcome \in Tasks \union {None}

CallAt(s, k) == k \in 1 .. Len(stack[s]) /\ stack[s][k].at \in CallPlaces
TaskAt(s, k) == k \in 1 .. Len(stack[s]) /\ stack[s][k].at \in TaskPlaces

(* What stands on what. *)
BottomAt(s, k) ==
  k = 1 => /\ stack[s][k].at \in Draining
           /\ stack[s][k].call = outer /\ stack[s][k].own = 0
NestedAt(s, k) ==
  k > 1 /\ CallAt(s, k) =>
    stack[s][k].call # outer /\ stack[s][k - 1].at = "body"
OnTopAt(s, k) ==
  TaskAt(s, k) =>
    /\ k > 1
    /\ IF stack[s][k].how = "tail"
       THEN /\ stack[s][k - 1].at = "tail"
            /\ stack[s][k].task =
                 <<stack[s][k - 1].call, Fanout(stack[s][k - 1].call)>>
       ELSE stack[s][k - 1].at = "drain"
    /\ stack[s][k].how = "own" =>
         /\ stack[s][k - 1].call # outer
         /\ CallOf(stack[s][k].task) = stack[s][k - 1].call
TopAt(s, k) ==
  /\ k = Len(stack[s]) => stack[s][k].at # "tail"
  /\ stack[s][k].at = "tail" => stack[s][k].own = 0
  /\ stack[s][k].at = "push" => stack[s][k].own < Deferred(stack[s][k].call)

StackInv ==
  \A s \in Slots : \A k \in 1 .. Len(stack[s]) :
    BottomAt(s, k) /\ NestedAt(s, k) /\ OnTopAt(s, k) /\ TopAt(s, k)

(* A call higher on a stack is younger; a nested call is on one stack.     *)
YoungerAt(s, k, l) ==
  k < l /\ CallAt(s, k) /\ CallAt(s, l) => stack[s][k].call < stack[s][l].call
ApartAt(s, k, u, l) ==
  (/\ k > 1 /\ CallAt(s, k) /\ l > 1 /\ CallAt(u, l)
   /\ stack[s][k].call = stack[u][l].call) => s = u
LivesAt(s, k) == CallAt(s, k) => stack[s][k].call \in open

CallsInv ==
  \A s, u \in Slots, k, l \in Nat :
    YoungerAt(s, k, l) /\ ApartAt(s, k, u, l) /\ LivesAt(s, k)

(* The outer call. *)
OuterInv ==
  /\ outer # 0 => outer \in open
  /\ outer = 0 => job = {} /\ \A s \in Slots : stack[s] = <<>>
  /\ \A s \in job : stack[s] = <<>>

(* A task is in one place at most: a deque of a slot on which its call is, *)
(* in the order of the calls, or a frame.                                  *)
HomeAt(s, c) == c = outer \/ \E k \in 2 .. Len(stack[s]) :
                              CallAt(s, k) /\ stack[s][k].call = c
LineAt(s, i, j) == i <= j => CallOf(deque[s][i]) <= CallOf(deque[s][j])
DequeInv ==
  \A s \in Slots : \A j \in 1 .. Len(deque[s]) :
    /\ CallOf(deque[s][j]) \in open
    /\ HomeAt(s, CallOf(deque[s][j]))
    /\ \A i \in 1 .. Len(deque[s]) : LineAt(s, i, j)

OfferedOnce ==
  \A s, u \in Slots : \A i \in 1 .. Len(deque[s]), j \in 1 .. Len(deque[u]) :
    deque[s][i] = deque[u][j] => s = u /\ i = j
TakenOnce ==
  \A s, u \in Slots, k, l \in Nat :
    TaskAt(s, k) /\ TaskAt(u, l) /\ stack[s][k].task = stack[u][l].task
      => s = u /\ k = l
NotBoth ==
  \A s, u \in Slots, k \in Nat : \A j \in 1 .. Len(deque[u]) :
    TaskAt(s, k) => stack[s][k].task # deque[u][j]
TakenOpen ==
  \A s \in Slots, k \in Nat : TaskAt(s, k) => CallOf(stack[s][k].task) \in open
OnceInv == OfferedOnce /\ TakenOnce /\ NotBoth /\ TakenOpen

(* What a call has not pushed yet is nowhere. *)
UnpushedInv ==
  \A s \in Slots, k \in Nat :
    CallAt(s, k) /\ stack[s][k].at = "push" =>
      /\ \A u \in Slots : \A j \in 1 .. Len(deque[u]) :
           CallOf(deque[u][j]) = stack[s][k].call
             => deque[u][j][2] <= stack[s][k].own
      /\ \A u \in Slots, l \in Nat :
           TaskAt(u, l) /\ CallOf(stack[u][l].task) = stack[s][k].call
             => stack[u][l].task[2] <= stack[s][k].own

(* The tasks of a call that count, and the count. *)
OfferedAt(t) == \E s \in Slots : \E j \in 1 .. Len(deque[s]) : deque[s][j] = t
CountedAt(t) == \E s \in Slots, k \in Nat :
  TaskAt(s, k) /\ stack[s][k].task = t /\ stack[s][k].how # "tail"
Live(c) == {t \in Tasks : CallOf(t) = c /\ (OfferedAt(t) \/ CountedAt(t))}
Due(f) == IF f.at = "push" THEN pending[f.call] - (Deferred(f.call) - f.own)
                           ELSE pending[f.call] - f.own
CountInv ==
  /\ outer # 0 => pending[outer] = Cardinality(Live(outer))
  /\ \A s \in Slots, k \in Nat :
       k > 1 /\ CallAt(s, k) =>
         Due(stack[s][k]) = Cardinality(Live(stack[s][k].call))
  /\ outer # 0 => \A s \in Slots :
       s \notin job /\ stack[s] = <<>> => Live(outer) = {}

(* As long as an older task is offered below them, no task of a nested     *)
(* call has been stolen.                                                   *)
Older(s, c) == \E j \in 1 .. Len(deque[s]) : CallOf(deque[s][j]) < c
StolenInv ==
  \A s \in Slots, k \in Nat :
    k > 1 /\ CallAt(s, k) /\ Older(s, stack[s][k].call) =>
      \A u \in Slots, l \in Nat :
        TaskAt(u, l) /\ CallOf(stack[u][l].task) = stack[s][k].call
          => stack[u][l].how # "peer"

(* The exception of a call is one of its tasks', one that has thrown is    *)
(* about to be it or has found one there, and what is passed over may be.  *)
CaughtInv ==
  \A c \in Calls : /\ exc[c] # None => exc[c] \in threw /\ CallOf(exc[c]) = c
                   /\ cancelled[c] => exc[c] # None
ThrownInv ==
  \A t \in threw :
    /\ CallOf(t) \in open
    /\ exc[CallOf(t)] # None \/ \E s \in Slots, k \in Nat :
         TaskAt(s, k) /\ stack[s][k].at = "threw" /\ stack[s][k].task = t
MarkedAt(s, k) ==
  /\ stack[s][k].at = "threw" => stack[s][k].task \in threw
  /\ stack[s][k].at = "flag" => exc[CallOf(stack[s][k].task)] # None
  /\ stack[s][k].at = "skipped" => Skipped(CallOf(stack[s][k].task))
ExcInv == /\ CaughtInv /\ ThrownInv
          /\ \A s \in Slots, k \in Nat : TaskAt(s, k) => MarkedAt(s, k)

(* The ends of a sequence. *)
LEMMA SeqFront ==
  ASSUME NEW S, NEW s \in Seq(S), s # <<>>
  PROVE  /\ Len(s) \in Nat /\ Len(s) > 0
         /\ Last(s) = s[Len(s)] /\ Last(s) \in S
         /\ Front(s) \in Seq(S) /\ Len(Front(s)) = Len(s) - 1
         /\ \A k \in 1 .. Len(s) - 1 : Front(s)[k] = s[k]
<1>1. Len(s) \in Nat /\ Len(s) # 0
  BY EmptySeq, LenProperties
<1>2. \A k \in 1 .. Len(s) : s[k] \in S
  BY ElementOfSeq
<1>3. /\ Front(s) \in Seq(S)
      /\ Len(Front(s)) = IF 1 <= Len(s) - 1 THEN Len(s) - 1 - 1 + 1 ELSE 0
      /\ \A i \in 1 .. Len(s) - 1 - 1 + 1 : Front(s)[i] = s[1 + i - 1]
  <2>1. \A i \in 1 .. Len(s) - 1 : s[i] \in S
    BY <1>1, <1>2
  <2> QED
    BY <1>1, <2>1, SubSeqProperties DEF Front
<1>4. Len(Front(s)) = Len(s) - 1
  <2>1. \A n \in Nat : n # 0 =>
          (IF 1 <= n - 1 THEN n - 1 - 1 + 1 ELSE 0) = n - 1
    OBVIOUS
  <2> QED
    BY <1>1, <1>3, <2>1
<1>5. ASSUME NEW k \in 1 .. Len(s) - 1 PROVE Front(s)[k] = s[k]
  <2>1. k \in 1 .. Len(s) - 1 - 1 + 1 /\ 1 + k - 1 = k
    BY <1>1
  <2> QED
    BY <1>3, <2>1
<1> QED
  BY <1>1, <1>2, <1>3, <1>4, <1>5 DEF Last

(* The first element of a sequence and the rest.                           *)
LEMMA SeqTail ==
  ASSUME NEW S, NEW s \in Seq(S), s # <<>>
  PROVE  /\ Len(s) \in Nat /\ Len(s) > 0
         /\ Head(s) = s[1] /\ Head(s) \in S
         /\ Tail(s) \in Seq(S) /\ Len(Tail(s)) = Len(s) - 1
         /\ \A k \in 1 .. Len(s) - 1 : Tail(s)[k] = s[k + 1]
<1>1. Len(s) \in Nat /\ Len(s) # 0
  BY EmptySeq, LenProperties
<1>2. Head(s) = s[1]
  BY <1>1
<1> QED
  BY <1>1, <1>2, HeadTailProperties

(* A sequence with one more at its end.                                    *)
LEMMA SeqAppend ==
  ASSUME NEW S, NEW s \in Seq(S), NEW x \in S
  PROVE  /\ Len(s) \in Nat
         /\ Append(s, x) \in Seq(S) /\ Len(Append(s, x)) = Len(s) + 1
         /\ Append(s, x)[Len(s) + 1] = x
         /\ \A k \in 1 .. Len(s) : Append(s, x)[k] = s[k]
BY AppendProperties, LenProperties

(* The empty sequence is the one of length 0.                              *)
LEMMA SeqNonEmpty ==
  ASSUME NEW S, NEW s \in Seq(S)
  PROVE  Len(s) \in Nat /\ (s = <<>> <=> Len(s) = 0)
BY EmptySeq, LenProperties

(* A frame is a call's or a task's, by its place. *)
LEMMA FrameIs ==
  ASSUME NEW f \in FrameType
  PROVE  /\ f.at \in CallPlaces \/ f.at \in TaskPlaces
         /\ ~(f.at \in CallPlaces /\ f.at \in TaskPlaces)
         /\ f.at \in CallPlaces =>
              f \in CallFrameType /\ f.call \in Calls /\ f.own \in Nat
         /\ f.at \in TaskPlaces =>
              f \in TaskFrameType /\ f.task \in Tasks /\ f.how \in Hows
<1>1. CASE f \in CallFrameType
  <2>1. f.at \in CallPlaces /\ f.call \in Calls /\ f.own \in Nat
    BY <1>1 DEF CallFrameType
  <2> QED
    BY <1>1, <2>1 DEF CallPlaces, Draining, TaskPlaces, Underway
<1>2. CASE f \in TaskFrameType
  <2>1. f.at \in TaskPlaces /\ f.task \in Tasks /\ f.how \in Hows
    BY <1>2 DEF TaskFrameType
  <2> QED
    BY <1>2, <2>1 DEF CallPlaces, Draining, TaskPlaces, Underway
<1> QED
  BY <1>1, <1>2 DEF FrameType

(* A call's frame in another place.                                        *)
LEMMA CallMoved ==
  ASSUME NEW f \in FrameType, f.at \in CallPlaces, NEW p \in CallPlaces
  PROVE  LET g == [f EXCEPT !.at = p]
         IN  g \in FrameType /\ g.at = p /\ g.call = f.call /\ g.own = f.own
<1>1. f \in [at : CallPlaces, call : Calls, own : Nat]
  BY FrameIs DEF CallFrameType
<1> DEFINE g == [f EXCEPT !.at = p]
<1>2. g \in CallFrameType /\ g.at = p /\ g.call = f.call /\ g.own = f.own
  BY <1>1 DEF CallFrameType
<1> QED
  BY <1>2 DEF FrameType

(* A call's frame with another private count.                              *)
LEMMA CallCounted ==
  ASSUME NEW f \in FrameType, f.at \in CallPlaces, NEW o \in Nat
  PROVE  LET g == [f EXCEPT !.own = o]
         IN  g \in FrameType /\ g.at = f.at /\ g.call = f.call /\ g.own = o
<1>1. f \in [at : CallPlaces, call : Calls, own : Nat]
  BY FrameIs DEF CallFrameType
<1> DEFINE g == [f EXCEPT !.own = o]
<1>2. g \in CallFrameType /\ g.at = f.at /\ g.call = f.call /\ g.own = o
  BY <1>1 DEF CallFrameType
<1> QED
  BY <1>2 DEF FrameType

(* A task's frame in another place.                                        *)
LEMMA TaskMoved ==
  ASSUME NEW f \in FrameType, f.at \in TaskPlaces, NEW p \in TaskPlaces
  PROVE  LET g == [f EXCEPT !.at = p]
         IN  g \in FrameType /\ g.at = p /\ g.task = f.task /\ g.how = f.how
<1>1. f \in [at : TaskPlaces, task : Tasks, how : Hows]
  BY FrameIs DEF TaskFrameType
<1> DEFINE g == [f EXCEPT !.at = p]
<1>2. g \in TaskFrameType /\ g.at = p /\ g.task = f.task /\ g.how = f.how
  BY <1>1 DEF TaskFrameType
<1> QED
  BY <1>2 DEF FrameType

(* The frame of a new call.                                                *)
LEMMA NewCall ==
  ASSUME NEW p \in CallPlaces, NEW c \in Calls, NEW o \in Nat
  PROVE  LET g == CallFrame(p, c, o)
         IN  g \in FrameType /\ g.at = p /\ g.call = c /\ g.own = o
BY DEF CallFrame, FrameType, CallFrameType

(* The frame of a new task.                                                *)
LEMMA NewTask ==
  ASSUME NEW p \in TaskPlaces, NEW t \in Tasks, NEW h \in Hows
  PROVE  LET g == TaskFrame(p, t, h)
         IN  g \in FrameType /\ g.at = p /\ g.task = t /\ g.how = h
BY DEF TaskFrame, FrameType, TaskFrameType

(* Calls and tasks. *)
LEMMA CallsAre ==
  /\ MaxCalls \in Nat /\ Calls \subseteq Nat \ {0} /\ 0 \notin Calls
  /\ \A c \in Calls : c \in Nat /\ c > 0 /\ c <= MaxCalls
  /\ \A c : c \in 1 .. MaxCalls <=> c \in Calls
  /\ \A c : Fanout(c) \in {2, 3} /\ Deferred(c) \in {1, 2}
     /\ Deferred(c) = Fanout(c) - 1
BY ForkJoinAssumption DEF ForkJoinAssumption, Calls, Fanout, Deferred

(* A task is its call and its position there.                              *)
LEMMA TasksAre ==
  /\ \A t \in Tasks : /\ CallOf(t) \in Calls /\ t[1] = CallOf(t)
                      /\ t[2] \in 1 .. Fanout(CallOf(t)) /\ t = <<CallOf(t), t[2]>>
                      /\ t # None
  /\ \A c \in Calls : \A i \in 1 .. Fanout(c) :
       <<c, i>> \in Tasks /\ CallOf(<<c, i>>) = c /\ <<c, i>>[2] = i
<1>1. ASSUME NEW t \in Tasks
      PROVE  /\ CallOf(t) \in Calls /\ t[1] = CallOf(t)
             /\ t[2] \in 1 .. Fanout(CallOf(t)) /\ t = <<CallOf(t), t[2]>>
             /\ t # None
  <2>1. PICK c \in Calls : t \in {c} \X (1 .. Fanout(c))
    BY DEF Tasks
  <2>2. t[1] = c /\ t[2] \in 1 .. Fanout(c) /\ t = <<t[1], t[2]>>
    BY <2>1
  <2>3. t # None
    BY <2>2, CallsAre DEF None
  <2> QED
    BY <2>2, <2>3 DEF CallOf
<1>2. ASSUME NEW c \in Calls, NEW i \in 1 .. Fanout(c)
      PROVE  <<c, i>> \in Tasks /\ CallOf(<<c, i>>) = c /\ <<c, i>>[2] = i
  BY DEF Tasks, CallOf
<1> QED
  BY <1>1, <1>2

-----------------------------------------------------------------------------
(***************************************************************************)
(* What a step does to a stack.                                            *)
(***************************************************************************)
(* What a step does to the stacks: to one of them, from some frame up.     *)
OnlyStack(s) == \A u \in Slots \ {s} : stack'[u] = stack[u]
SameUpTo(s, m) == \A k \in 1 .. m : stack'[s][k] = stack[s][k]
StackType == stack' \in [Slots -> Seq(FrameType)]

(* Stacks and deques are finite sequences of frames and of tasks.          *)
LEMMA Heights ==
  ASSUME TypeInv, NEW s \in Slots
  PROVE  /\ stack[s] \in Seq(FrameType)
         /\ Len(stack[s]) \in Nat /\ (stack[s] = <<>> <=> Len(stack[s]) = 0)
         /\ \A k \in 1 .. Len(stack[s]) : stack[s][k] \in FrameType
         /\ deque[s] \in Seq(Tasks)
         /\ Len(deque[s]) \in Nat /\ (deque[s] = <<>> <=> Len(deque[s]) = 0)
         /\ \A j \in 1 .. Len(deque[s]) : deque[s][j] \in Tasks
<1>1. stack[s] \in Seq(FrameType) /\ deque[s] \in Seq(Tasks)
  BY DEF TypeInv
<1>2. /\ Len(stack[s]) \in Nat /\ (stack[s] = <<>> <=> Len(stack[s]) = 0)
      /\ Len(deque[s]) \in Nat /\ (deque[s] = <<>> <=> Len(deque[s]) = 0)
  BY <1>1, SeqNonEmpty
<1>3. /\ \A k \in 1 .. Len(stack[s]) : stack[s][k] \in FrameType
      /\ \A j \in 1 .. Len(deque[s]) : deque[s][j] \in Tasks
  BY <1>1, ElementOfSeq
<1> QED
  BY <1>1, <1>2, <1>3

(* The frame a slot is at is the last of its stack.                        *)
LEMMA Topmost ==
  ASSUME TypeInv, NEW s \in Slots, NEW q, At(s, q)
  PROVE  /\ Len(stack[s]) \in Nat /\ Len(stack[s]) > 0
         /\ Last(stack[s]) = stack[s][Len(stack[s])]
         /\ stack[s][Len(stack[s])] \in FrameType
         /\ stack[s][Len(stack[s])].at = q
BY Heights DEF At, Last

(* A step that replaces one stack.                                         *)
LEMMA OneStack ==
  ASSUME TypeInv, NEW s \in Slots, NEW q \in Seq(FrameType),
         stack' = [stack EXCEPT ![s] = q]
  PROVE  StackType /\ OnlyStack(s) /\ stack'[s] = q
BY DEF TypeInv, StackType, OnlyStack

(* A step that replaces the topmost frame.                                 *)
LEMMA TopReplaced ==
  ASSUME TypeInv, NEW s \in Slots, stack[s] # <<>>, NEW f \in FrameType,
         stack' = [stack EXCEPT ![s] = [@ EXCEPT ![Len(stack[s])] = f]]
  PROVE  /\ StackType /\ OnlyStack(s) /\ Len(stack'[s]) = Len(stack[s])
         /\ SameUpTo(s, Len(stack[s]) - 1)
         /\ stack'[s][Len(stack[s])] = f
<1>1. Len(stack[s]) \in 1 .. Len(stack[s]) /\ stack[s] \in Seq(FrameType)
  BY Heights
<1> DEFINE q == [stack[s] EXCEPT ![Len(stack[s])] = f]
<1>2. /\ q \in Seq(FrameType) /\ Len(q) = Len(stack[s])
      /\ \A j \in 1 .. Len(stack[s]) :
           q[j] = IF j = Len(stack[s]) THEN f ELSE stack[s][j]
  BY <1>1, ExceptSeq
<1>3. stack' = [stack EXCEPT ![s] = q]
  OBVIOUS
<1> HIDE DEF q
<1>4. StackType /\ OnlyStack(s) /\ stack'[s] = q
  BY <1>2, <1>3, OneStack
<1> QED
  BY <1>1, <1>2, <1>4 DEF SameUpTo

(* A step that moves the topmost frame to another place.                   *)
LEMMA MoveStack ==
  ASSUME TypeInv, NEW s \in Slots, NEW q, NEW p, At(s, q), Move(s, p),
         \/ q \in CallPlaces /\ p \in CallPlaces
         \/ q \in TaskPlaces /\ p \in TaskPlaces
  PROVE  /\ StackType /\ OnlyStack(s) /\ Len(stack'[s]) = Len(stack[s])
         /\ SameUpTo(s, Len(stack[s]) - 1)
         /\ stack'[s][Len(stack[s])].at = p
         /\ q \in CallPlaces =>
              /\ stack'[s][Len(stack[s])].call = stack[s][Len(stack[s])].call
              /\ stack'[s][Len(stack[s])].own = stack[s][Len(stack[s])].own
         /\ q \in TaskPlaces =>
              /\ stack'[s][Len(stack[s])].task = stack[s][Len(stack[s])].task
              /\ stack'[s][Len(stack[s])].how = stack[s][Len(stack[s])].how
<1> DEFINE n == Len(stack[s])
           f == stack[s][n]
           g == [f EXCEPT !.at = p]
<1>1. f \in FrameType /\ f.at = q /\ stack[s] # <<>>
  BY Topmost DEF At
<1>2. /\ g \in FrameType /\ g.at = p
      /\ q \in CallPlaces => g.call = f.call /\ g.own = f.own
      /\ q \in TaskPlaces => g.task = f.task /\ g.how = f.how
  <2>1. CASE q \in CallPlaces
    BY <1>1, <2>1, CallMoved, FrameIs
  <2>2. CASE q \in TaskPlaces
    BY <1>1, <2>2, TaskMoved, FrameIs
  <2> QED
    BY <2>1, <2>2
<1>3. stack' = [stack EXCEPT ![s] = [@ EXCEPT ![Len(stack[s])] = g]]
  BY DEF Move
<1> HIDE DEF g
<1>4. /\ StackType /\ OnlyStack(s) /\ Len(stack'[s]) = Len(stack[s])
      /\ SameUpTo(s, Len(stack[s]) - 1)
      /\ stack'[s][Len(stack[s])] = g
  BY <1>1, <1>2, <1>3, TopReplaced
<1> QED
  BY <1>2, <1>4

(* A step that puts a frame on top.                                        *)
LEMMA EnterStack ==
  ASSUME TypeInv, NEW s \in Slots, NEW f \in FrameType, Enter(s, f)
  PROVE  /\ StackType /\ OnlyStack(s)
         /\ Len(stack'[s]) = Len(stack[s]) + 1
         /\ SameUpTo(s, Len(stack[s]))
         /\ stack'[s][Len(stack[s]) + 1] = f
<1> DEFINE q == Append(stack[s], f)
<1>1. stack[s] \in Seq(FrameType)
  BY Heights
<1>2. /\ q \in Seq(FrameType) /\ Len(q) = Len(stack[s]) + 1
      /\ q[Len(stack[s]) + 1] = f
      /\ \A k \in 1 .. Len(stack[s]) : q[k] = stack[s][k]
  BY <1>1, SeqAppend
<1>3. stack' = [stack EXCEPT ![s] = q]
  BY DEF Enter
<1> HIDE DEF q
<1> QED
  BY <1>2, <1>3, OneStack DEF SameUpTo

(* A step that takes the topmost frame away.                               *)
LEMMA LeaveStack ==
  ASSUME TypeInv, NEW s \in Slots, stack[s] # <<>>,
         stack' = [stack EXCEPT ![s] = Front(stack[s])]
  PROVE  /\ StackType /\ OnlyStack(s)
         /\ Len(stack'[s]) = Len(stack[s]) - 1
         /\ SameUpTo(s, Len(stack[s]) - 1)
<1> DEFINE q == Front(stack[s])
<1>1. stack[s] \in Seq(FrameType)
  BY Heights
<1>2. /\ q \in Seq(FrameType) /\ Len(q) = Len(stack[s]) - 1
      /\ \A k \in 1 .. Len(stack[s]) - 1 : q[k] = stack[s][k]
  BY <1>1, SeqFront
<1>3. stack' = [stack EXCEPT ![s] = q]
  OBVIOUS
<1> HIDE DEF q
<1> QED
  BY <1>2, <1>3, OneStack DEF SameUpTo

(* A step that puts a task above a drain.                                  *)
LEMMA AboveStack ==
  ASSUME TypeInv, NEW s \in Slots, NEW q \in CallPlaces, At(s, q),
         NEW f \in FrameType, Above(s, f)
  PROVE  /\ StackType /\ OnlyStack(s)
         /\ Len(stack'[s]) = Len(stack[s]) + 1
         /\ SameUpTo(s, Len(stack[s]) - 1)
         /\ stack'[s][Len(stack[s])].at = "drain"
         /\ stack'[s][Len(stack[s])].call = stack[s][Len(stack[s])].call
         /\ stack'[s][Len(stack[s])].own = stack[s][Len(stack[s])].own
         /\ stack'[s][Len(stack[s]) + 1] = f
<1> DEFINE n == Len(stack[s])
           g == [stack[s][n] EXCEPT !.at = "drain"]
           q0 == [stack[s] EXCEPT ![n] = g]
           q1 == Append(q0, f)
<1>1. /\ n \in 1 .. n /\ n \in Nat /\ stack[s] \in Seq(FrameType)
      /\ stack[s][n] \in FrameType /\ stack[s][n].at \in CallPlaces
  BY Topmost, Heights
<1>2. /\ g \in FrameType /\ g.at = "drain" /\ g.call = stack[s][n].call
      /\ g.own = stack[s][n].own
  <2>1. "drain" \in CallPlaces
    BY DEF CallPlaces, Draining
  <2> QED
    BY <1>1, <2>1, CallMoved
<1>3. stack' = [stack EXCEPT ![s] = q1]
  BY DEF Above
<1> HIDE DEF g
<1>4. /\ q0 \in Seq(FrameType) /\ Len(q0) = n
      /\ \A j \in 1 .. n : q0[j] = IF j = n THEN g ELSE stack[s][j]
  BY <1>1, <1>2, ExceptSeq
<1> HIDE DEF q0
<1>5. /\ q1 \in Seq(FrameType) /\ Len(q1) = n + 1 /\ q1[n + 1] = f
      /\ \A k \in 1 .. n : q1[k] = q0[k]
  BY <1>4, SeqAppend
<1> HIDE DEF q1
<1>6. StackType /\ OnlyStack(s) /\ stack'[s] = q1
  BY <1>3, <1>5, OneStack
<1>7. stack'[s][n] = g /\ \A k \in 1 .. n - 1 : stack'[s][k] = stack[s][k]
  BY <1>1, <1>4, <1>5, <1>6
<1> QED
  BY <1>2, <1>5, <1>6, <1>7 DEF SameUpTo

(* The top leaves, and the frame below it is replaced. *)
LEMMA BelowReplaced ==
  ASSUME TypeInv, NEW s \in Slots, Len(stack[s]) > 1, NEW f \in FrameType,
         stack' = [stack EXCEPT ![s] =
                     [Front(stack[s]) EXCEPT ![Len(Front(stack[s]))] = f]]
  PROVE  /\ StackType /\ OnlyStack(s)
         /\ Len(stack'[s]) = Len(stack[s]) - 1
         /\ SameUpTo(s, Len(stack[s]) - 2)
         /\ stack'[s][Len(stack[s]) - 1] = f
<1> DEFINE n == Len(stack[s])
           q0 == Front(stack[s])
           q1 == [q0 EXCEPT ![Len(q0)] = f]
<1>1. n \in Nat /\ n > 1 /\ stack[s] \in Seq(FrameType) /\ stack[s] # <<>>
  BY Heights
<1>2. /\ q0 \in Seq(FrameType) /\ Len(q0) = n - 1
      /\ \A k \in 1 .. n - 1 : q0[k] = stack[s][k]
  BY <1>1, SeqFront
<1>3. stack' = [stack EXCEPT ![s] = q1]
  OBVIOUS
<1> HIDE DEF q0
<1>4. /\ q1 \in Seq(FrameType) /\ Len(q1) = Len(q0)
      /\ \A j \in 1 .. Len(q0) : q1[j] = IF j = Len(q0) THEN f ELSE q0[j]
  <2>1. Len(q0) \in 1 .. Len(q0)
    BY <1>1, <1>2
  <2> QED
    BY <1>2, <2>1, ExceptSeq
<1> HIDE DEF q1
<1>5. StackType /\ OnlyStack(s) /\ stack'[s] = q1
  BY <1>3, <1>4, OneStack
<1>6. q1[n - 1] = f /\ \A k \in 1 .. n - 2 : q1[k] = stack[s][k]
  <2>1. q1[n - 1] = f
    <3>1. n - 1 \in 1 .. Len(q0) /\ n - 1 = Len(q0)
      BY <1>1, <1>2
    <3> QED
      BY <1>4, <3>1
  <2>2. ASSUME NEW k \in 1 .. n - 2 PROVE q1[k] = stack[s][k]
    <3>1. k \in 1 .. Len(q0) /\ k # Len(q0) /\ k \in 1 .. n - 1
      BY <1>1, <1>2
    <3> QED
      BY <1>2, <1>4, <3>1
  <2> QED
    BY <2>1, <2>2
<1> QED
  BY <1>2, <1>4, <1>5, <1>6 DEF SameUpTo

(* Which frames a step changes: all calls but one stay what and where they *)
(* are, with their counts; all tasks but one do, and in their places.      *)
CallSame(u, k) ==
  /\ CallAt(u, k)' <=> CallAt(u, k)
  /\ CallAt(u, k) => stack'[u][k].call = stack[u][k].call
OwnSame(u, k) ==
  CallAt(u, k) /\ CallAt(u, k)' =>
    /\ stack'[u][k].own = stack[u][k].own
    /\ stack'[u][k].at = "push" <=> stack[u][k].at = "push"
TaskSame(u, k) ==
  /\ TaskAt(u, k)' <=> TaskAt(u, k)
  /\ TaskAt(u, k) => /\ stack'[u][k].task = stack[u][k].task
                     /\ stack'[u][k].how = stack[u][k].how
PlaceSame(u, k) ==
  TaskAt(u, k) /\ TaskAt(u, k)' => stack'[u][k].at = stack[u][k].at

CallsBut(s, m) == \A u \in Slots, k \in Nat : (u = s /\ k = m) \/ CallSame(u, k)
OwnsBut(s, m) == \A u \in Slots, k \in Nat : (u = s /\ k = m) \/ OwnSame(u, k)
TasksBut(s, m) == \A u \in Slots, k \in Nat : (u = s /\ k = m) \/ TaskSame(u, k)
PlacesBut(s, m) == \A u \in Slots, k \in Nat : (u = s /\ k = m) \/ PlaceSame(u, k)

(* Frames a step does not reach. *)
LEMMA Frozen ==
  ASSUME TypeInv, NEW s \in Slots, NEW m \in Nat,
         m <= Len(stack[s]), m <= Len(stack'[s]),
         StackType, OnlyStack(s), SameUpTo(s, m),
         NEW u \in Slots, NEW k \in Nat, u # s \/ k <= m
  PROVE  /\ CallSame(u, k) /\ OwnSame(u, k) /\ TaskSame(u, k) /\ PlaceSame(u, k)
         /\ k \in 1 .. Len(stack[u]) <=> k \in 1 .. Len(stack'[u])
         /\ k \in 1 .. Len(stack[u]) => stack'[u][k] = stack[u][k]
<1>1. Len(stack[s]) \in Nat /\ Len(stack'[s]) \in Nat
  <2>1. stack'[s] \in Seq(FrameType)
    BY DEF StackType
  <2> QED
    BY <2>1, Heights, SeqNonEmpty
<1>2. k \in 1 .. Len(stack[u]) <=> k \in 1 .. Len(stack'[u])
  BY <1>1 DEF OnlyStack
<1>3. k \in 1 .. Len(stack[u]) => stack'[u][k] = stack[u][k]
  BY <1>1 DEF OnlyStack, SameUpTo
<1> QED
  BY <1>2, <1>3 DEF CallSame, OwnSame, TaskSame, PlaceSame, CallAt, TaskAt

(* The places by kind. *)
LEMMA Apart ==
  /\ \A f : ~(f.at \in CallPlaces /\ f.at \in TaskPlaces)
  /\ "push" \in CallPlaces /\ "tail" \in CallPlaces
  /\ {"drain", "pop", "steal"} \subseteq CallPlaces
  /\ {"gate", "skipped", "body", "threw", "flag", "retire"} = TaskPlaces
BY DEF CallPlaces, Draining, TaskPlaces, Underway

(* A drain that moves on leaves every call and every task as it is.        *)
LEMMA MovedCall ==
  ASSUME TypeInv, NEW s \in Slots, NEW q \in Draining, NEW p \in Draining,
         At(s, q), Move(s, p)
  PROVE  CallsBut(s, 0) /\ OwnsBut(s, 0) /\ TasksBut(s, 0) /\ PlacesBut(s, 0)
<1> DEFINE n == Len(stack[s])
<1>1. /\ StackType /\ OnlyStack(s) /\ Len(stack'[s]) = n
      /\ SameUpTo(s, n - 1)
      /\ stack'[s][n].at = p
      /\ stack'[s][n].call = stack[s][n].call
      /\ stack'[s][n].own = stack[s][n].own
  BY MoveStack DEF CallPlaces
<1>2. n \in Nat /\ n > 0 /\ stack[s][n].at = q
  BY Topmost
<1>3. q \in CallPlaces /\ p \in CallPlaces /\ q \notin TaskPlaces
      /\ p \notin TaskPlaces /\ q # "push" /\ p # "push"
  BY DEF CallPlaces, Draining, TaskPlaces, Underway
<1> SUFFICES ASSUME NEW u \in Slots, NEW k \in Nat
             PROVE  CallSame(u, k) /\ OwnSame(u, k) /\ TaskSame(u, k) /\ PlaceSame(u, k)
  BY DEF CallsBut, OwnsBut, TasksBut, PlacesBut
<1>4. CASE u # s \/ k <= n - 1
  BY <1>1, <1>2, <1>4, Frozen, SMTT(30)
<1>5. CASE u = s /\ k = n
  BY <1>1, <1>2, <1>3, <1>5 DEF CallSame, OwnSame, TaskSame, PlaceSame,
     CallAt, TaskAt
<1>6. CASE u = s /\ k > n
  BY <1>1, <1>2, <1>6 DEF CallSame, OwnSame, TaskSame, PlaceSame, CallAt,
     TaskAt
<1> QED
  BY <1>2, <1>4, <1>5, <1>6

(* A task that moves on changes its place only.                            *)
LEMMA MovedTask ==
  ASSUME TypeInv, NEW s \in Slots, NEW q \in TaskPlaces, NEW p \in TaskPlaces,
         At(s, q), Move(s, p)
  PROVE  /\ CallsBut(s, 0) /\ OwnsBut(s, 0) /\ TasksBut(s, 0)
         /\ PlacesBut(s, Len(stack[s]))
<1> DEFINE n == Len(stack[s])
<1>1. /\ StackType /\ OnlyStack(s) /\ Len(stack'[s]) = n
      /\ SameUpTo(s, n - 1)
      /\ stack'[s][n].at = p
      /\ stack'[s][n].task = stack[s][n].task
      /\ stack'[s][n].how = stack[s][n].how
  BY MoveStack
<1>2. n \in Nat /\ n > 0 /\ stack[s][n].at = q
  BY Topmost
<1>3. q \notin CallPlaces /\ p \notin CallPlaces
  BY DEF CallPlaces, Draining, TaskPlaces, Underway
<1> SUFFICES ASSUME NEW u \in Slots, NEW k \in Nat
             PROVE  /\ CallSame(u, k) /\ OwnSame(u, k) /\ TaskSame(u, k)
                    /\ (u = s /\ k = n) \/ PlaceSame(u, k)
  BY DEF CallsBut, OwnsBut, TasksBut, PlacesBut
<1>4. CASE u # s \/ k <= n - 1
  BY <1>1, <1>2, <1>4, Frozen
<1>5. CASE u = s /\ k = n
  BY <1>1, <1>2, <1>3, <1>5 DEF CallSame, OwnSame, TaskSame, CallAt, TaskAt
<1>6. CASE u = s /\ k > n
  BY <1>1, <1>2, <1>6 DEF CallSame, OwnSame, TaskSame, PlaceSame, CallAt,
     TaskAt
<1> QED
  BY <1>2, <1>4, <1>5, <1>6

(* A call that is entered is the only frame that changes.                  *)
LEMMA EnteredCall ==
  ASSUME TypeInv, NEW s \in Slots, NEW f \in FrameType, f.at \in CallPlaces,
         Enter(s, f)
  PROVE  /\ CallsBut(s, Len(stack[s]) + 1)
         /\ OwnsBut(s, 0) /\ TasksBut(s, 0) /\ PlacesBut(s, 0)
<1> DEFINE n == Len(stack[s])
<1>1. /\ StackType /\ OnlyStack(s) /\ Len(stack'[s]) = n + 1
      /\ SameUpTo(s, n)
      /\ stack'[s][n + 1] = f
  BY EnterStack
<1>2. n \in Nat
  BY Heights
<1>3. f.at \notin TaskPlaces
  BY Apart
<1> SUFFICES ASSUME NEW u \in Slots, NEW k \in Nat
             PROVE  /\ (u = s /\ k = n + 1) \/ CallSame(u, k)
                    /\ OwnSame(u, k) /\ TaskSame(u, k) /\ PlaceSame(u, k)
  BY DEF CallsBut, OwnsBut, TasksBut, PlacesBut
<1>4. CASE u # s \/ k <= n
  <2>1. n <= Len(stack[s]) /\ n <= Len(stack'[s])
    BY <1>1, <1>2
  <2> QED
    BY <1>1, <1>2, <1>4, <2>1, Frozen
<1>5. CASE u = s /\ k = n + 1
  BY <1>1, <1>2, <1>3, <1>5 DEF OwnSame, TaskSame, PlaceSame, CallAt, TaskAt
<1>6. CASE u = s /\ k > n + 1
  BY <1>1, <1>2, <1>6 DEF CallSame, OwnSame, TaskSame, PlaceSame, CallAt,
     TaskAt
<1> QED
  BY <1>2, <1>4, <1>5, <1>6

(* A task that is taken is the only frame that changes.                    *)
LEMMA AboveTask ==
  ASSUME TypeInv, NEW s \in Slots, NEW q \in Draining, At(s, q),
         NEW f \in FrameType, f.at \in TaskPlaces, Above(s, f)
  PROVE  /\ CallsBut(s, 0) /\ OwnsBut(s, 0)
         /\ TasksBut(s, Len(stack[s]) + 1) /\ PlacesBut(s, 0)
<1> DEFINE n == Len(stack[s])
<1>1. /\ StackType /\ OnlyStack(s) /\ Len(stack'[s]) = n + 1
      /\ SameUpTo(s, n - 1)
      /\ stack'[s][n].at = "drain"
      /\ stack'[s][n].call = stack[s][n].call
      /\ stack'[s][n].own = stack[s][n].own
      /\ stack'[s][n + 1] = f
  BY AboveStack DEF CallPlaces
<1>2. n \in Nat /\ n > 0 /\ stack[s][n].at = q
  BY Topmost
<1>3. f.at \notin CallPlaces
  BY Apart
<1>4. q \in CallPlaces /\ "drain" \in CallPlaces /\ q \notin TaskPlaces
      /\ "drain" \notin TaskPlaces /\ q # "push"
  BY DEF CallPlaces, Draining, TaskPlaces, Underway
<1> SUFFICES ASSUME NEW u \in Slots, NEW k \in Nat
             PROVE  /\ CallSame(u, k) /\ OwnSame(u, k) /\ PlaceSame(u, k)
                    /\ (u = s /\ k = n + 1) \/ TaskSame(u, k)
  BY DEF CallsBut, OwnsBut, TasksBut, PlacesBut
<1>5. CASE u # s \/ k <= n - 1
  <2>1. n - 1 \in Nat /\ n - 1 <= n /\ n - 1 <= n + 1
    BY <1>2
  <2> QED
    BY <1>1, <1>5, <2>1, Frozen
<1>6. CASE u = s /\ k = n
  BY <1>1, <1>2, <1>4, <1>6 DEF CallSame, OwnSame, TaskSame, PlaceSame,
     CallAt, TaskAt
<1>7. CASE u = s /\ k = n + 1
  BY <1>1, <1>2, <1>3, <1>7 DEF CallSame, OwnSame, PlaceSame, CallAt, TaskAt
<1>8. CASE u = s /\ k > n + 1
  BY <1>1, <1>2, <1>8 DEF CallSame, OwnSame, TaskSame, PlaceSame, CallAt,
     TaskAt
<1> QED
  BY <1>2, <1>5, <1>6, <1>7, <1>8

(* The frame that is left is the only one that changes.                    *)
LEMMA LeftTop ==
  ASSUME TypeInv, NEW s \in Slots, NEW q, At(s, q),
         stack' = [stack EXCEPT ![s] = Front(stack[s])]
  PROVE  /\ OwnsBut(s, 0) /\ PlacesBut(s, 0)
         /\ CallsBut(s, Len(stack[s])) /\ TasksBut(s, Len(stack[s]))
         /\ q \in CallPlaces => TasksBut(s, 0)
         /\ q \in TaskPlaces => CallsBut(s, 0)
         /\ \A k \in Nat : k = Len(stack[s]) => ~CallAt(s, k)' /\ ~TaskAt(s, k)'
<1> DEFINE n == Len(stack[s])
<1>1. n \in Nat /\ n > 0 /\ stack[s][n].at = q /\ stack[s] # <<>>
  BY Topmost DEF At
<1>2. /\ StackType /\ OnlyStack(s) /\ Len(stack'[s]) = n - 1
      /\ SameUpTo(s, n - 1)
  BY <1>1, LeaveStack
<1>3. ~(q \in CallPlaces /\ q \in TaskPlaces)
  BY <1>1, Apart
<1>4. ASSUME NEW u \in Slots, NEW k \in Nat
      PROVE  /\ OwnSame(u, k) /\ PlaceSame(u, k)
             /\ (u = s /\ k = n) \/ CallSame(u, k)
             /\ (u = s /\ k = n) \/ TaskSame(u, k)
             /\ q \in CallPlaces => TaskSame(u, k)
             /\ q \in TaskPlaces => CallSame(u, k)
  <2>1. CASE u # s \/ k <= n - 1
    BY <1>1, <1>2, <2>1, Frozen
  <2>2. CASE u = s /\ k = n
    BY <1>1, <1>2, <1>3, <2>2 DEF CallSame, OwnSame, TaskSame, PlaceSame,
       CallAt, TaskAt
  <2>3. CASE u = s /\ k > n
    BY <1>1, <1>2, <2>3 DEF CallSame, OwnSame, TaskSame, PlaceSame, CallAt,
       TaskAt
  <2> QED
    BY <1>1, <2>1, <2>2, <2>3
<1>5. ASSUME NEW k \in Nat, k = n
      PROVE  ~CallAt(s, k)' /\ ~TaskAt(s, k)'
  BY <1>5, <1>1, <1>2 DEF CallAt, TaskAt
<1> QED
  BY <1>4, <1>5 DEF CallsBut, OwnsBut, TasksBut, PlacesBut

(* A nested call returns into the task below. *)
LEMMA JoinedStack ==
  ASSUME TypeInv, StackInv, NEW s \in Slots, JoinDone(s)
  PROVE  LET n == Len(stack[s])
         IN  /\ n \in Nat /\ n > 1
             /\ stack[s][n].at = "drain" /\ stack[s][n].call \in Calls
             /\ stack[s][n].call = TopCall(s)
             /\ stack[s][n - 1].at = "body"
             /\ stack[s][n - 1].task = Last(Front(stack[s])).task
             /\ StackType /\ OnlyStack(s) /\ Len(stack'[s]) = n - 1
             /\ SameUpTo(s, n - 2)
             /\ stack'[s][n - 1].at =
                  IF exc[stack[s][n].call] = None THEN "body" ELSE "threw"
             /\ stack'[s][n - 1].task = stack[s][n - 1].task
             /\ stack'[s][n - 1].how = stack[s][n - 1].how
<1> DEFINE n == Len(stack[s])
           f == stack[s][n - 1]
           p == IF exc[TopCall(s)] = None THEN "body" ELSE "threw"
           g == [f EXCEPT !.at = p]
<1>1. /\ n \in Nat /\ n > 0 /\ stack[s][n].at = "drain"
      /\ Last(stack[s]) = stack[s][n] /\ stack[s][n] \in FrameType
      /\ stack[s] # <<>>
  BY Topmost DEF JoinDone, At
<1>2. stack[s][n].call \in Calls /\ stack[s][n].call = TopCall(s)
      /\ stack[s][n].call # outer
  BY <1>1, Apart, FrameIs DEF TopCall, JoinDone
<1>3. n > 1
  BY <1>1, <1>2 DEF StackInv, BottomAt
<1>4. f.at = "body"
  BY <1>1, <1>3, Apart DEF StackInv, NestedAt, CallAt
<1>5. f \in FrameType
  BY <1>1, <1>3, Heights
<1>6. g \in FrameType /\ g.at = p /\ g.task = f.task /\ g.how = f.how
  <2>1. p \in TaskPlaces /\ f.at \in TaskPlaces
    BY <1>4, Apart
  <2> QED
    BY <1>5, <2>1, TaskMoved
<1>7. /\ Len(Front(stack[s])) = n - 1
      /\ Front(stack[s])[n - 1] = f
      /\ Last(Front(stack[s])) = f
  <2>1. stack[s] \in Seq(FrameType)
    BY Heights
  <2>2. /\ Len(Front(stack[s])) = n - 1
        /\ \A k \in 1 .. n - 1 : Front(stack[s])[k] = stack[s][k]
    BY <1>1, <2>1, SeqFront
  <2>3. n - 1 \in 1 .. n - 1
    BY <1>1, <1>3
  <2> QED
    BY <2>2, <2>3 DEF Last
<1>8. stack' = [stack EXCEPT ![s] =
                  [Front(stack[s]) EXCEPT ![Len(Front(stack[s]))] = g]]
  <2>1. stack' = [stack EXCEPT ![s] =
                    [Front(stack[s]) EXCEPT ![Len(Front(stack[s]))].at = p]]
    BY DEF JoinDone
  <2>2. [Front(stack[s]) EXCEPT ![Len(Front(stack[s]))].at = p]
          = [Front(stack[s]) EXCEPT ![Len(Front(stack[s]))] =
               [Front(stack[s])[Len(Front(stack[s]))] EXCEPT !.at = p]]
    OBVIOUS
  <2> QED
    BY <2>1, <2>2, <1>7
<1> HIDE DEF g
<1>9. /\ StackType /\ OnlyStack(s) /\ Len(stack'[s]) = n - 1
      /\ SameUpTo(s, n - 2) /\ stack'[s][n - 1] = g
  BY <1>3, <1>6, <1>8, BelowReplaced
<1> QED
  BY <1>1, <1>2, <1>3, <1>4, <1>6, <1>7, <1>9

(* A join ends its call and moves the task that made it.                   *)
LEMMA JoinedCall ==
  ASSUME TypeInv, StackInv, NEW s \in Slots, JoinDone(s)
  PROVE  /\ CallsBut(s, Len(stack[s])) /\ OwnsBut(s, 0) /\ TasksBut(s, 0)
         /\ PlacesBut(s, Len(stack[s]) - 1)
         /\ \A k \in Nat : k = Len(stack[s]) => ~CallAt(s, k)'
<1> DEFINE n == Len(stack[s])
<1>1. /\ n \in Nat /\ n > 1
      /\ stack[s][n].at = "drain" /\ stack[s][n - 1].at = "body"
      /\ StackType /\ OnlyStack(s) /\ Len(stack'[s]) = n - 1
      /\ SameUpTo(s, n - 2)
      /\ stack'[s][n - 1].at \in {"body", "threw"}
      /\ stack'[s][n - 1].task = stack[s][n - 1].task
      /\ stack'[s][n - 1].how = stack[s][n - 1].how
  BY JoinedStack
<1>2. {"body", "threw"} \subseteq TaskPlaces /\ "drain" \notin TaskPlaces
      /\ "body" \notin CallPlaces /\ "threw" \notin CallPlaces
  BY DEF CallPlaces, Draining, TaskPlaces, Underway
<1>3. ASSUME NEW u \in Slots, NEW k \in Nat
      PROVE  /\ OwnSame(u, k) /\ TaskSame(u, k)
             /\ (u = s /\ k = n) \/ CallSame(u, k)
             /\ (u = s /\ k = n - 1) \/ PlaceSame(u, k)
  <2>1. CASE u # s \/ k <= n - 2
    BY <1>1, <2>1, Frozen
  <2>2. CASE u = s /\ k = n - 1
    BY <1>1, <1>2, <2>2 DEF CallSame, OwnSame, TaskSame, CallAt, TaskAt
  <2>3. CASE u = s /\ k = n
    BY <1>1, <1>2, <2>3 DEF OwnSame, TaskSame, PlaceSame, CallAt, TaskAt
  <2>4. CASE u = s /\ k > n
    BY <1>1, <2>4 DEF CallSame, OwnSame, TaskSame, PlaceSame, CallAt, TaskAt
  <2> QED
    BY <1>1, <2>1, <2>2, <2>3, <2>4
<1>4. ASSUME NEW k \in Nat, k = n PROVE ~CallAt(s, k)'
  BY <1>1, <1>4 DEF CallAt
<1> QED
  BY <1>3, <1>4 DEF CallsBut, OwnsBut, TasksBut, PlacesBut

(* A task that is over leaves, by how it came. *)
LEMMA RetiredStack ==
  ASSUME TypeInv, StackInv, NEW s \in Slots, Retire(s)
  PROVE  LET n == Len(stack[s])
             f == stack[s][n]
         IN  /\ n \in Nat /\ n > 1 /\ Last(stack[s]) = f
             /\ f.at \in {"retire", "skipped"} /\ f \in FrameType
             /\ f.task \in Tasks /\ f.how \in Hows
             /\ stack[s][n - 1] \in FrameType
             /\ stack[s][n - 1].at = IF f.how = "tail" THEN "tail" ELSE "drain"
             /\ stack[s][n - 1].call \in Calls /\ stack[s][n - 1].own \in Nat
             /\ StackType /\ OnlyStack(s) /\ Len(stack'[s]) = n - 1
             /\ SameUpTo(s, n - 2)
             /\ stack'[s][n - 1].at = "drain"
             /\ stack'[s][n - 1].call = stack[s][n - 1].call
             /\ stack'[s][n - 1].own = IF f.how = "own"
                                        THEN stack[s][n - 1].own + 1
                                        ELSE stack[s][n - 1].own
<1> DEFINE n == Len(stack[s])
           f == stack[s][n]
           b == stack[s][n - 1]
<1>1. /\ n \in Nat /\ n > 0 /\ f.at \in {"retire", "skipped"}
      /\ Last(stack[s]) = f /\ f \in FrameType
      /\ stack[s] # <<>>
  BY Topmost DEF Retire, At
<1>2. f.at \in TaskPlaces /\ f.task \in Tasks /\ f.how \in Hows
  BY <1>1, Apart, FrameIs
<1>3. /\ n > 1
      /\ b.at = IF f.how = "tail" THEN "tail" ELSE "drain"
  BY <1>1, <1>2 DEF StackInv, OnTopAt, TaskAt
<1>4. b \in FrameType /\ b.at \in CallPlaces /\ b.call \in Calls /\ b.own \in Nat
  BY <1>1, <1>3, Heights, Apart, FrameIs
<1>5. /\ stack[s] \in Seq(FrameType)
      /\ Len(Front(stack[s])) = n - 1
      /\ Front(stack[s])[n - 1] = b
      /\ \A k \in 1 .. n - 1 : Front(stack[s])[k] = stack[s][k]
  <2>1. stack[s] \in Seq(FrameType)
    BY Heights
  <2>2. /\ Len(Front(stack[s])) = n - 1
        /\ \A k \in 1 .. n - 1 : Front(stack[s])[k] = stack[s][k]
    BY <1>1, <2>1, SeqFront
  <2>3. n - 1 \in 1 .. n - 1
    BY <1>1, <1>3
  <2> QED
    BY <2>1, <2>2, <2>3
<1>6. CASE f.how = "own"
  <2> DEFINE g == [b EXCEPT !.own = b.own + 1]
  <2>1. g \in FrameType /\ g.at = b.at /\ g.call = b.call /\ g.own = b.own + 1
    <3>1. b.own + 1 \in Nat
      BY <1>4
    <3> HIDE DEF b
    <3> QED
      BY <1>4, <3>1, CallCounted
  <2>2. stack' = [stack EXCEPT ![s] =
                    [Front(stack[s]) EXCEPT ![Len(Front(stack[s]))] = g]]
    <3>1. stack' = [stack EXCEPT ![s] =
                      [Front(stack[s]) EXCEPT ![Len(Front(stack[s]))].own = @ + 1]]
      BY <1>1, <1>6 DEF Retire
    <3>2. [Front(stack[s]) EXCEPT ![Len(Front(stack[s]))].own = @ + 1]
            = [Front(stack[s]) EXCEPT ![Len(Front(stack[s]))] =
                 [Front(stack[s])[Len(Front(stack[s]))] EXCEPT !.own = @ + 1]]
      OBVIOUS
    <3> QED
      BY <3>1, <3>2, <1>5
  <2> HIDE DEF g
  <2>3. /\ StackType /\ OnlyStack(s) /\ Len(stack'[s]) = n - 1
        /\ SameUpTo(s, n - 2) /\ stack'[s][n - 1] = g
    BY <1>3, <2>1, <2>2, BelowReplaced
  <2> QED
    BY <1>1, <1>2, <1>3, <1>4, <1>6, <2>1, <2>3
<1>7. CASE f.how = "tail"
  <2> DEFINE g == [b EXCEPT !.at = "drain"]
  <2>1. g \in FrameType /\ g.at = "drain" /\ g.call = b.call /\ g.own = b.own
    BY <1>4, CallMoved, Apart
  <2>2. stack' = [stack EXCEPT ![s] =
                    [Front(stack[s]) EXCEPT ![Len(Front(stack[s]))] = g]]
    <3>1. stack' = [stack EXCEPT ![s] =
                      [Front(stack[s]) EXCEPT ![Len(Front(stack[s]))].at = "drain"]]
      BY <1>1, <1>7 DEF Retire
    <3>2. [Front(stack[s]) EXCEPT ![Len(Front(stack[s]))].at = "drain"]
            = [Front(stack[s]) EXCEPT ![Len(Front(stack[s]))] =
                 [Front(stack[s])[Len(Front(stack[s]))] EXCEPT !.at = "drain"]]
      OBVIOUS
    <3> QED
      BY <3>1, <3>2, <1>5
  <2> HIDE DEF g
  <2>3. /\ StackType /\ OnlyStack(s) /\ Len(stack'[s]) = n - 1
        /\ SameUpTo(s, n - 2) /\ stack'[s][n - 1] = g
    BY <1>3, <2>1, <2>2, BelowReplaced
  <2> QED
    BY <1>1, <1>2, <1>3, <1>4, <1>7, <2>1, <2>3
<1>8. CASE f.how = "peer"
  <2>1. stack' = [stack EXCEPT ![s] = Front(stack[s])]
    BY <1>1, <1>8 DEF Retire
  <2>2. /\ StackType /\ OnlyStack(s) /\ Len(stack'[s]) = n - 1
        /\ SameUpTo(s, n - 1)
    BY <1>1, <2>1, LeaveStack
  <2>3. stack'[s][n - 1] = b /\ SameUpTo(s, n - 2)
    BY <1>1, <1>3, <2>2 DEF SameUpTo
  <2> QED
    BY <1>1, <1>2, <1>3, <1>4, <1>8, <2>2, <2>3
<1> QED
  BY <1>2, <1>6, <1>7, <1>8 DEF Hows

(* A task that retires leaves, counted by its call if it was its own.      *)
LEMMA RetiredTask ==
  ASSUME TypeInv, StackInv, NEW s \in Slots, Retire(s)
  PROVE  /\ CallsBut(s, 0) /\ PlacesBut(s, 0)
         /\ TasksBut(s, Len(stack[s]))
         /\ OwnsBut(s, Len(stack[s]) - 1)
         /\ stack[s][Len(stack[s])].how # "own" => OwnsBut(s, 0)
         /\ \A k \in Nat : k = Len(stack[s]) => ~TaskAt(s, k)'
<1> DEFINE n == Len(stack[s])
           f == stack[s][n]
           b == stack[s][n - 1]
<1>1. /\ n \in Nat /\ n > 1 /\ f.at \in {"retire", "skipped"}
      /\ b.at \in {"tail", "drain"}
      /\ StackType /\ OnlyStack(s) /\ Len(stack'[s]) = n - 1
      /\ SameUpTo(s, n - 2)
      /\ stack'[s][n - 1].at = "drain"
      /\ stack'[s][n - 1].call = b.call
      /\ f.how # "own" => stack'[s][n - 1].own = b.own
  BY RetiredStack
<1>2. /\ {"retire", "skipped"} \subseteq TaskPlaces
      /\ {"tail", "drain"} \subseteq CallPlaces
      /\ "retire" \notin CallPlaces /\ "skipped" \notin CallPlaces
      /\ "tail" \notin TaskPlaces /\ "drain" \notin TaskPlaces
  BY DEF CallPlaces, Draining, TaskPlaces, Underway
<1> HIDE DEF f, b
<1>3. ASSUME NEW u \in Slots, NEW k \in Nat
      PROVE  /\ CallSame(u, k) /\ PlaceSame(u, k)
             /\ (u = s /\ k = n) \/ TaskSame(u, k)
             /\ (u = s /\ k = n - 1) \/ OwnSame(u, k)
             /\ f.how # "own" => OwnSame(u, k)
  <2>1. CASE u # s \/ k <= n - 2
    BY <1>1, <2>1, Frozen
  <2>2. CASE u = s /\ k = n - 1
    BY <1>1, <1>2, <2>2, SMTT(30) DEF CallSame, OwnSame, TaskSame, PlaceSame, CallAt,
       TaskAt, b
  <2>3. CASE u = s /\ k = n
    BY <1>1, <1>2, <2>3 DEF CallSame, OwnSame, PlaceSame, CallAt, TaskAt, f
  <2>4. CASE u = s /\ k > n
    BY <1>1, <2>4 DEF CallSame, OwnSame, TaskSame, PlaceSame, CallAt, TaskAt
  <2> QED
    BY <1>1, <2>1, <2>2, <2>3, <2>4
<1>4. ASSUME NEW k \in Nat, k = n PROVE ~TaskAt(s, k)'
  BY <1>1, <1>4 DEF TaskAt
<1> QED
  BY <1>3, <1>4 DEF CallsBut, OwnsBut, TasksBut, PlacesBut, f

(* A call spreads its tasks: one more ... *)
LEMMA PushingCall ==
  ASSUME TypeInv, StackInv, NEW s \in Slots, Push(s)
  PROVE  LET f == stack[s][Len(stack[s])]
         IN  /\ Len(stack[s]) \in Nat /\ Len(stack[s]) > 1
             /\ Last(stack[s]) = f /\ f \in FrameType /\ f.at = "push"
             /\ f.call \in Calls /\ f.call # outer /\ f.own \in Nat
             /\ f.own + 1 <= Deferred(f.call)
             /\ <<f.call, f.own + 1>> \in Tasks
             /\ <<f.call, Fanout(f.call)>> \in Tasks
             /\ stack[s] # <<>>
<1> DEFINE n == Len(stack[s])
           f == stack[s][n]
<1>1. /\ n \in Nat /\ n > 0 /\ f.at = "push"
      /\ Last(stack[s]) = f /\ f \in FrameType /\ stack[s] # <<>>
  BY Topmost DEF Push, At
<1>2. f.call \in Calls /\ f.own \in Nat
  BY <1>1, Apart, FrameIs
<1>3. n > 1
  BY <1>1 DEF StackInv, BottomAt, Draining
<1>4. f.call # outer
  BY <1>1, <1>3, Apart DEF StackInv, NestedAt, CallAt
<1>5. f.own < Deferred(f.call)
  BY <1>1 DEF StackInv, TopAt
<1>6. f.own + 1 <= Deferred(f.call) /\ f.own + 1 \in 1 .. Fanout(f.call)
      /\ Fanout(f.call) \in 1 .. Fanout(f.call)
  BY <1>2, <1>5, CallsAre
<1>7. <<f.call, f.own + 1>> \in Tasks /\ <<f.call, Fanout(f.call)>> \in Tasks
  BY <1>2, <1>6, TasksAre
<1> QED
  BY <1>1, <1>2, <1>3, <1>4, <1>6, <1>7

(* A push that is not the last one moves the call's count.                 *)
LEMMA PushedMore ==
  ASSUME TypeInv, StackInv, NEW s \in Slots, Push(s),
         stack[s][Len(stack[s])].own + 1 < Deferred(TopCall(s))
  PROVE  LET n == Len(stack[s])
         IN  /\ StackType /\ OnlyStack(s) /\ Len(stack'[s]) = n
             /\ SameUpTo(s, n - 1)
             /\ stack'[s][n].at = "push"
             /\ stack'[s][n].call = stack[s][n].call
             /\ stack'[s][n].own = stack[s][n].own + 1
             /\ CallsBut(s, 0) /\ OwnsBut(s, n) /\ TasksBut(s, 0)
             /\ PlacesBut(s, 0)
<1> DEFINE n == Len(stack[s])
           f == stack[s][n]
           g == [f EXCEPT !.own = f.own + 1]
<1>1. /\ n \in Nat /\ n > 1 /\ Last(stack[s]) = f /\ f \in FrameType
      /\ f.at = "push" /\ f.call \in Calls /\ f.own \in Nat /\ stack[s] # <<>>
  BY PushingCall
<1>2. g \in FrameType /\ g.at = "push" /\ g.call = f.call /\ g.own = f.own + 1
  <2>1. f.own + 1 \in Nat /\ f.at \in CallPlaces
    BY <1>1, Apart
  <2> HIDE DEF f
  <2> QED
    BY <1>1, <2>1, CallCounted
<1>3. stack' = [stack EXCEPT ![s] = [@ EXCEPT ![n] = g]]
  BY <1>1 DEF Push, TopCall
<1> HIDE DEF g
<1>4. /\ StackType /\ OnlyStack(s) /\ Len(stack'[s]) = n
      /\ SameUpTo(s, n - 1) /\ stack'[s][n] = g
  BY <1>1, <1>2, <1>3, TopReplaced
<1>5. "push" \in CallPlaces /\ "push" \notin TaskPlaces
  BY DEF CallPlaces, Draining, TaskPlaces, Underway
<1>6. ASSUME NEW u \in Slots, NEW k \in Nat
      PROVE  /\ CallSame(u, k) /\ TaskSame(u, k) /\ PlaceSame(u, k)
             /\ (u = s /\ k = n) \/ OwnSame(u, k)
  <2>1. CASE u # s \/ k <= n - 1
    BY <1>1, <1>4, <2>1, Frozen, SMTT(30)
  <2>2. CASE u = s /\ k = n
    BY <1>1, <1>2, <1>4, <1>5, <2>2 DEF CallSame, TaskSame, PlaceSame, CallAt,
       TaskAt
  <2>3. CASE u = s /\ k > n
    BY <1>1, <1>4, <2>3 DEF CallSame, OwnSame, TaskSame, PlaceSame, CallAt,
       TaskAt
  <2> QED
    BY <1>1, <2>1, <2>2, <2>3
<1> QED
  BY <1>2, <1>4, <1>6 DEF CallsBut, OwnsBut, TasksBut, PlacesBut

(* ... or the last that others may take, and then the tail. *)
LEMMA PushedLast ==
  ASSUME TypeInv, StackInv, NEW s \in Slots, Push(s),
         ~(stack[s][Len(stack[s])].own + 1 < Deferred(TopCall(s)))
  PROVE  LET n == Len(stack[s])
         IN  /\ StackType /\ OnlyStack(s) /\ Len(stack'[s]) = n + 1
             /\ SameUpTo(s, n - 1)
             /\ stack'[s][n].at = "tail"
             /\ stack'[s][n].call = stack[s][n].call
             /\ stack'[s][n].own = 0
             /\ stack'[s][n + 1].at = "gate"
             /\ stack'[s][n + 1].task = <<stack[s][n].call, Fanout(stack[s][n].call)>>
             /\ stack'[s][n + 1].how = "tail"
             /\ CallsBut(s, 0) /\ OwnsBut(s, n) /\ TasksBut(s, n + 1)
             /\ PlacesBut(s, 0)
<1> DEFINE n == Len(stack[s])
           f == stack[s][n]
           a == CallFrame("tail", f.call, 0)
           b == TaskFrame("gate", <<f.call, Fanout(f.call)>>, "tail")
           q0 == Front(stack[s])
           ab == <<a, b>>
           q1 == q0 \o ab
<1>1. /\ n \in Nat /\ n > 1 /\ Last(stack[s]) = f /\ f \in FrameType
      /\ f.at = "push" /\ f.call \in Calls /\ stack[s] # <<>>
      /\ <<f.call, Fanout(f.call)>> \in Tasks
      /\ stack[s] \in Seq(FrameType)
  BY PushingCall, Heights
<1>2. a \in FrameType /\ a.at = "tail" /\ a.call = f.call /\ a.own = 0
  BY <1>1, NewCall, Apart
<1>3. /\ b \in FrameType /\ b.at = "gate"
      /\ b.task = <<f.call, Fanout(f.call)>> /\ b.how = "tail"
  <2>1. "gate" \in TaskPlaces /\ "tail" \in Hows
    BY DEF TaskPlaces, Hows
  <2> QED
    BY <1>1, <2>1, NewTask
<1>4. stack' = [stack EXCEPT ![s] = q1]
  BY <1>1 DEF Push, TopCall
<1> HIDE DEF a, b
<1>5. /\ q0 \in Seq(FrameType) /\ Len(q0) = n - 1
      /\ \A k \in 1 .. n - 1 : q0[k] = stack[s][k]
  BY <1>1, SeqFront
<1> HIDE DEF q0
<1>6. /\ ab \in Seq(FrameType) /\ Len(ab) = 2
      /\ ab[1] = a /\ ab[2] = b
  BY <1>2, <1>3
<1> HIDE DEF ab
<1>7. /\ q1 \in Seq(FrameType) /\ Len(q1) = Len(q0) + 2
      /\ \A i \in 1 .. Len(q0) + 2 :
           q1[i] = IF i <= Len(q0) THEN q0[i] ELSE ab[i - Len(q0)]
  <2>1. /\ q1 \in Seq(FrameType) /\ Len(q1) = Len(q0) + Len(ab)
        /\ \A i \in 1 .. Len(q0) + Len(ab) :
             q1[i] = IF i <= Len(q0) THEN q0[i] ELSE ab[i - Len(q0)]
    BY <1>5, <1>6, ConcatProperties
  <2> QED
    BY <1>6, <2>1
<1>8. q1[n] = a /\ q1[n + 1] = b
  <2>1. /\ n \in 1 .. Len(q0) + 2 /\ ~(n <= Len(q0)) /\ n - Len(q0) = 1
        /\ n + 1 \in 1 .. Len(q0) + 2 /\ ~(n + 1 <= Len(q0))
        /\ n + 1 - Len(q0) = 2
    BY <1>1, <1>5
  <2> QED
    BY <1>6, <1>7, <2>1
<1>9. \A k \in 1 .. n - 1 : q1[k] = stack[s][k]
  <2> SUFFICES ASSUME NEW k \in 1 .. n - 1 PROVE q1[k] = stack[s][k]
    OBVIOUS
  <2>1. k \in 1 .. Len(q0) + 2 /\ k <= Len(q0)
    BY <1>1, <1>5
  <2> QED
    BY <1>5, <1>7, <2>1
<1>10. Len(q1) = n + 1
  BY <1>1, <1>5, <1>7
<1> HIDE DEF q1
<1>11. /\ StackType /\ OnlyStack(s) /\ Len(stack'[s]) = n + 1
       /\ SameUpTo(s, n - 1) /\ stack'[s][n] = a /\ stack'[s][n + 1] = b
  <2>1. StackType /\ OnlyStack(s) /\ stack'[s] = q1
    BY <1>4, <1>7, OneStack
  <2> QED
    BY <1>8, <1>9, <1>10, <2>1 DEF SameUpTo
<1>12. {"push", "tail"} \subseteq CallPlaces /\ "push" \notin TaskPlaces
       /\ "tail" \notin TaskPlaces /\ "gate" \notin CallPlaces
  BY DEF CallPlaces, Draining, TaskPlaces, Underway
<1>13. ASSUME NEW u \in Slots, NEW k \in Nat
       PROVE  /\ CallSame(u, k) /\ PlaceSame(u, k)
              /\ (u = s /\ k = n) \/ OwnSame(u, k)
              /\ (u = s /\ k = n + 1) \/ TaskSame(u, k)
  <2>1. CASE u # s \/ k <= n - 1
    <3>1. n - 1 \in Nat /\ n - 1 <= Len(stack[s]) /\ n - 1 <= Len(stack'[s])
      BY <1>1, <1>11
    <3> QED
      BY <1>1, <1>11, <2>1, <3>1, Frozen
  <2>2. CASE u = s /\ k = n
    BY <1>1, <1>2, <1>11, <1>12, <2>2 DEF CallSame, TaskSame, PlaceSame,
       CallAt, TaskAt
  <2>3. CASE u = s /\ k = n + 1
    BY <1>1, <1>3, <1>11, <1>12, <2>3 DEF CallSame, OwnSame, PlaceSame,
       CallAt, TaskAt
  <2>4. CASE u = s /\ k > n + 1
    BY <1>1, <1>11, <2>4 DEF CallSame, OwnSame, TaskSame, PlaceSame, CallAt,
       TaskAt
  <2> QED
    BY <1>1, <2>1, <2>2, <2>3, <2>4
<1> QED
  BY <1>2, <1>3, <1>11, <1>13 DEF CallsBut, OwnsBut, TasksBut, PlacesBut

(* Steps that leave all stacks alone. *)
LEMMA NoneMoved ==
  ASSUME UNCHANGED stack
  PROVE  \A s \in Slots : CallsBut(s, 0) /\ OwnsBut(s, 0) /\ TasksBut(s, 0)
                          /\ PlacesBut(s, 0)
BY DEF CallsBut, OwnsBut, TasksBut, PlacesBut, CallSame, OwnSame, TaskSame,
   PlaceSame, CallAt, TaskAt

-----------------------------------------------------------------------------
(***************************************************************************)
(* What a step does to a deque.                                            *)
(***************************************************************************)
(* What a step does to the deques. *)
DequeType == deque' \in [Slots -> Seq(Tasks)]
OnlyDeque(v) == \A u \in Slots \ {v} : deque'[u] = deque[u]

(* The i-th task is taken; those above it, if any, move down by d. *)
TakesFrom(v, i, d) ==
  /\ i \in 1 .. Len(deque[v]) /\ d \in {0, 1}
  /\ OnlyDeque(v) /\ Len(deque'[v]) = Len(deque[v]) - 1
  /\ \A j \in 1 .. Len(deque[v]) - 1 :
       deque'[v][j] = deque[v][j + d] /\ j + d # i
       /\ j + d \in 1 .. Len(deque[v])
  /\ \A j \in 1 .. Len(deque[v]) :
       j # i => j - d \in 1 .. Len(deque[v]) - 1

(* A step that changes one deque.                                          *)
LEMMA OneDeque ==
  ASSUME TypeInv, NEW v \in Slots, NEW q \in Seq(Tasks),
         deque' = [deque EXCEPT ![v] = q]
  PROVE  DequeType /\ OnlyDeque(v) /\ deque'[v] = q
BY DEF TypeInv, DequeType, OnlyDeque

(* A pop takes the last task.                                              *)
LEMMA DequePopped ==
  ASSUME TypeInv, NEW s \in Slots, deque[s] # <<>>,
         deque' = [deque EXCEPT ![s] = Front(@)]
  PROVE  /\ DequeType /\ Last(deque[s]) = deque[s][Len(deque[s])]
         /\ deque[s][Len(deque[s])] \in Tasks
         /\ TakesFrom(s, Len(deque[s]), 0)
<1> DEFINE q == Front(deque[s])
           m == Len(deque[s])
<1>1. deque[s] \in Seq(Tasks)
  BY Heights
<1>2. /\ m \in Nat /\ m > 0 /\ Last(deque[s]) = deque[s][m]
      /\ Last(deque[s]) \in Tasks
      /\ q \in Seq(Tasks) /\ Len(q) = m - 1
      /\ \A j \in 1 .. m - 1 : q[j] = deque[s][j]
  BY <1>1, SeqFront
<1>3. deque' = [deque EXCEPT ![s] = q]
  OBVIOUS
<1> HIDE DEF q
<1>4. DequeType /\ OnlyDeque(s) /\ deque'[s] = q
  BY <1>2, <1>3, OneDeque
<1> HIDE DEF m
<1>5. \A j \in 1 .. m - 1 : j + 0 = j /\ j # m /\ j \in 1 .. m
  BY <1>2
<1>6. \A j \in 1 .. m : j # m => j - 0 \in 1 .. m - 1
  BY <1>2
<1>7. m \in 1 .. m /\ 0 \in {0, 1}
  BY <1>2
<1>8. \A j \in 1 .. m - 1 : deque'[s][j] = deque[s][j + 0]
  BY <1>2, <1>4, <1>5
<1> QED
  BY <1>2, <1>4, <1>5, <1>6, <1>7, <1>8 DEF TakesFrom, m

(* A steal takes the first.                                                *)
LEMMA DequeStolen ==
  ASSUME TypeInv, NEW v \in Slots, deque[v] # <<>>,
         deque' = [deque EXCEPT ![v] = Tail(@)]
  PROVE  /\ DequeType /\ Head(deque[v]) = deque[v][1]
         /\ deque[v][1] \in Tasks
         /\ TakesFrom(v, 1, 1)
<1> DEFINE q == Tail(deque[v])
           m == Len(deque[v])
<1>1. deque[v] \in Seq(Tasks)
  BY Heights
<1>2. /\ m \in Nat /\ m > 0 /\ Head(deque[v]) = deque[v][1]
      /\ Head(deque[v]) \in Tasks
      /\ q \in Seq(Tasks) /\ Len(q) = m - 1
      /\ \A j \in 1 .. m - 1 : q[j] = deque[v][j + 1]
  BY <1>1, SeqTail
<1>3. deque' = [deque EXCEPT ![v] = q]
  OBVIOUS
<1> HIDE DEF q
<1>4. DequeType /\ OnlyDeque(v) /\ deque'[v] = q
  BY <1>2, <1>3, OneDeque
<1> HIDE DEF m
<1>5. \A j \in 1 .. m - 1 : j + 1 # 1 /\ j + 1 \in 1 .. m
  BY <1>2
<1>6. \A j \in 1 .. m : j # 1 => j - 1 \in 1 .. m - 1
  BY <1>2
<1>7. 1 \in 1 .. m /\ 1 \in {0, 1}
  BY <1>2
<1> QED
  BY <1>2, <1>4, <1>5, <1>6, <1>7 DEF TakesFrom, m

(* A push puts a task at the end.                                          *)
LEMMA DequePushed ==
  ASSUME TypeInv, NEW s \in Slots, NEW t \in Tasks,
         deque' = [deque EXCEPT ![s] = Append(@, t)]
  PROVE  /\ DequeType /\ OnlyDeque(s)
         /\ Len(deque'[s]) = Len(deque[s]) + 1
         /\ deque'[s][Len(deque[s]) + 1] = t
         /\ \A j \in 1 .. Len(deque[s]) : deque'[s][j] = deque[s][j]
<1> DEFINE q == Append(deque[s], t)
<1>1. deque[s] \in Seq(Tasks)
  BY Heights
<1>2. /\ q \in Seq(Tasks) /\ Len(q) = Len(deque[s]) + 1
      /\ q[Len(deque[s]) + 1] = t
      /\ \A j \in 1 .. Len(deque[s]) : q[j] = deque[s][j]
  BY <1>1, SeqAppend
<1>3. deque' = [deque EXCEPT ![s] = q]
  OBVIOUS
<1> HIDE DEF q
<1> QED
  BY <1>2, <1>3, OneDeque

(* The outer call fills the empty deque of slot 0.                         *)
LEMMA DequeFilled ==
  ASSUME TypeInv, NEW c \in Calls, 0 \in Slots, deque[0] = <<>>,
         deque' = [deque EXCEPT ![0] = @ \o [i \in 1 .. Fanout(c) |-> <<c, i>>]]
  PROVE  /\ DequeType /\ OnlyDeque(0)
         /\ Len(deque'[0]) = Fanout(c)
         /\ \A j \in 1 .. Fanout(c) : deque'[0][j] = <<c, j>>
<1> DEFINE r == [i \in 1 .. Fanout(c) |-> <<c, i>>]
           q == deque[0] \o r
<1>1. Fanout(c) \in Nat /\ \A j \in 1 .. Fanout(c) : <<c, j>> \in Tasks
  BY CallsAre, TasksAre
<1>2. r \in Seq(Tasks) /\ Len(r) = Fanout(c)
      /\ \A j \in 1 .. Fanout(c) : r[j] = <<c, j>>
  BY <1>1, SMTT(30)
<1>3. deque' = [deque EXCEPT ![0] = q]
  OBVIOUS
<1> HIDE DEF r
<1>4. q = r
  BY <1>2, ConcatEmptySeq
<1>5. DequeType /\ OnlyDeque(0) /\ deque'[0] = r
  BY <1>2, <1>3, <1>4, OneDeque
<1> QED
  BY <1>2, <1>5

(* A task is popped or stolen: which, whence and how. *)
LEMMA TookTask ==
  ASSUME TypeInv, NEW s \in Slots, NEW v \in Slots,
         (PopOwn(s) /\ v = s) \/ Steal(s, v)
  PROVE  \E i \in 1 .. Len(deque[v]), d \in {0, 1}, h \in {"own", "peer"},
            q \in {"pop", "steal"} :
           /\ At(s, q) /\ TakesFrom(v, i, d) /\ DequeType
           /\ deque[v][i] \in Tasks
           /\ Above(s, TaskFrame("gate", deque[v][i], h))
           /\ h = "own" <=> q = "pop" /\ Counts(TopCall(s))
                              /\ CallOf(deque[v][i]) = TopCall(s)
           /\ q = "pop" => v = s /\ i = Len(deque[v]) /\ d = 0
           /\ q = "steal" => v # s /\ i = 1 /\ d = 1
<1>1. CASE PopOwn(s) /\ v = s
  <2>1. deque[s] # <<>> /\ deque' = [deque EXCEPT ![s] = Front(@)]
    BY <1>1 DEF PopOwn
  <2>2. /\ DequeType /\ Last(deque[s]) = deque[s][Len(deque[s])]
        /\ deque[s][Len(deque[s])] \in Tasks
        /\ TakesFrom(s, Len(deque[s]), 0)
    BY <2>1, DequePopped
  <2> DEFINE h == HowPopped(TopCall(s), Last(deque[s]))
  <2>3. Above(s, TaskFrame("gate", deque[s][Len(deque[s])], h)) /\ At(s, "pop")
    BY <1>1, <2>2 DEF PopOwn
  <2>4. h \in {"own", "peer"} /\ Len(deque[s]) \in 1 .. Len(deque[s])
    BY <2>2 DEF HowPopped, TakesFrom
  <2>5. h = "own" <=> Counts(TopCall(s))
                       /\ CallOf(deque[s][Len(deque[s])]) = TopCall(s)
    BY <2>2 DEF HowPopped
  <2> HIDE DEF h
  <2> USE <1>1, <2>4
  <2> WITNESS Len(deque[v]) \in 1 .. Len(deque[v]), 0 \in {0, 1},
              h \in {"own", "peer"}, "pop" \in {"pop", "steal"}
  <2> QED
    BY <1>1, <2>2, <2>3, <2>5
<1>2. CASE Steal(s, v)
  <2>1. /\ deque[v] # <<>> /\ deque' = [deque EXCEPT ![v] = Tail(@)]
        /\ v # s /\ At(s, "steal")
    BY <1>2 DEF Steal, Stolen
  <2>2. /\ DequeType /\ Head(deque[v]) = deque[v][1]
        /\ deque[v][1] \in Tasks
        /\ TakesFrom(v, 1, 1)
    BY <2>1, DequeStolen
  <2>3. Above(s, TaskFrame("gate", deque[v][1], "peer"))
    BY <1>2, <2>2 DEF Steal, Stolen
  <2>4. 1 \in 1 .. Len(deque[v])
    BY <2>2 DEF TakesFrom
  <2> USE <2>4
  <2> WITNESS 1 \in 1 .. Len(deque[v]), 1 \in {0, 1},
              "peer" \in {"own", "peer"}, "steal" \in {"pop", "steal"}
  <2> QED
    BY <2>1, <2>2, <2>3
<1> QED
  BY <1>1, <1>2

-----------------------------------------------------------------------------
(***************************************************************************)
(* The steps of a slot.                                                    *)
(***************************************************************************)
(* The steps by what they do to a stack. *)
LookOn(s) == Look(s) \/ PopNone(s) \/ StealNone(s)
TaskStep(s) == Gate(s) \/ BodyEnd(s) \/ BodyThrow(s) \/ Capture(s) \/ Flag(s)

(* A drain that looks, or finds nothing, moves its own frame only.         *)
LEMMA QuietMove ==
  ASSUME NEW s \in Slots, LookOn(s)
  PROVE  /\ \E q \in Draining, p \in Draining :
              /\ At(s, q) /\ Move(s, p)
              /\ p = "pop" => q = "drain" /\ Effective(Last(stack[s])) > 0
         /\ UNCHANGED <<deque, used, outer, job, open, stateVars, stopped, threw, outcome>>
<1>1. {"drain", "pop", "steal"} = Draining /\ "pop" # "drain" /\ "pop" # "steal"
  BY DEF Draining
<1> QED
  BY <1>1 DEF LookOn, Look, PopNone, StealNone

(* A task that moves on leaves the deques and the counts alone.            *)
LEMMA TaskMove ==
  ASSUME NEW s \in Slots, TaskStep(s)
  PROVE  /\ \E q \in TaskPlaces \ {"skipped", "retire"}, p \in TaskPlaces \ {"gate"} :
              At(s, q) /\ Move(s, p)
         /\ UNCHANGED <<deque, used, outer, job, open, pending, token, stopped, outcome>>
<1>1. {"gate", "skipped", "body", "threw", "flag", "retire"} = TaskPlaces
  BY Apart
<1> QED
  BY <1>1 DEF TaskStep, Gate, BodyEnd, BodyThrow, Capture, Flag, stateVars

(* The steps of a slot, grouped by what they change.                       *)
LEMMA SlotStep ==
  ASSUME NEW s \in Slots, Slot(s)
  PROVE  \/ LookOn(s) \/ TaskStep(s) \/ Begin(s) \/ BodyFork(s)
         \/ (\E v \in Slots : (PopOwn(s) /\ v = s) \/ Steal(s, v))
         \/ ShareDone(s) \/ JoinDone(s) \/ Retire(s) \/ Push(s)
BY DEF Slot, LookOn, TaskStep

(* The outer call in progress is a call.                                   *)
LEMMA OuterIs ==
  ASSUME TypeInv, outer # 0
  PROVE  outer \in Calls
<1>1. used \in Int /\ used <= MaxCalls /\ outer \in Int /\ outer > 0 /\ outer <= used
  BY ForkJoinAssumption DEF TypeInv, ForkJoinAssumption
<1> QED
  BY <1>1, ForkJoinAssumption DEF Calls, ForkJoinAssumption

(* A slot that has frames has begun its share of an outer call. *)
LEMMA Working ==
  ASSUME TypeInv, OuterInv, NEW s \in Slots, NEW q, At(s, q)
  PROVE  outer # 0 /\ outer \in Calls /\ s \notin job
<1>1. stack[s] # <<>>
  BY DEF At
<1>2. outer # 0 /\ s \notin job
  BY <1>1 DEF OuterInv
<1> QED
  BY <1>2, OuterIs

(* The types. *)
LEMMA QuietType ==
  ASSUME TypeInv, StackType,
         UNCHANGED <<deque, used, outer, open, stateVars, stopped, threw, outcome>>,
         job' \subseteq job
  PROVE  TypeInv'
BY DEF TypeInv, StackType, stateVars

(* A slot that begins its share has the outer call's frame alone.          *)
LEMMA BeginStack ==
  ASSUME TypeInv, OuterInv, NEW s \in Slots, Begin(s)
  PROVE  /\ outer \in Calls /\ stack[s] = <<>> /\ Len(stack[s]) = 0
         /\ LET f == CallFrame("drain", outer, 0)
            IN  /\ f \in FrameType /\ f.at = "drain" /\ f.call = outer /\ f.own = 0
                /\ Enter(s, f)
         /\ StackType /\ OnlyStack(s) /\ Len(stack'[s]) = 1
         /\ stack'[s][1].at = "drain" /\ stack'[s][1].call = outer
         /\ stack'[s][1].own = 0
<1> DEFINE f == CallFrame("drain", outer, 0)
<1>1. s \in job /\ Enter(s, f)
  BY DEF Begin
<1>2. outer # 0 /\ stack[s] = <<>>
  BY <1>1 DEF OuterInv
<1>3. outer \in Calls /\ Len(stack[s]) = 0
  BY <1>2, OuterIs, Heights
<1>4. f \in FrameType /\ f.at = "drain" /\ f.call = outer /\ f.own = 0
  BY <1>3, NewCall, Apart
<1> HIDE DEF f
<1>5. /\ StackType /\ OnlyStack(s)
      /\ Len(stack'[s]) = Len(stack[s]) + 1
      /\ stack'[s][Len(stack[s]) + 1] = f
  BY <1>1, <1>4, EnterStack
<1>6. Len(stack[s]) + 1 = 1
  BY <1>3
<1> QED
  BY <1>1, <1>2, <1>3, <1>4, <1>5, <1>6 DEF f

(* A task that forks has the frame of a new call above it.                 *)
LEMMA ForkStack ==
  ASSUME TypeInv, OuterInv, NEW s \in Slots, BodyFork(s)
  PROVE  LET c == used + 1
             f == CallFrame("push", c, 0)
             n == Len(stack[s])
         IN  /\ c \in Calls /\ c # outer /\ c \notin open
             /\ n \in Nat /\ n > 0 /\ stack[s][n].at = "body"
             /\ f \in FrameType /\ f.at = "push" /\ f.call = c /\ f.own = 0
             /\ Enter(s, f)
             /\ StackType /\ OnlyStack(s) /\ Len(stack'[s]) = n + 1
             /\ SameUpTo(s, n) /\ stack'[s][n + 1] = f
<1> DEFINE c == used + 1
           f == CallFrame("push", c, 0)
<1>1. Enter(s, f) /\ At(s, "body") /\ c \in Calls
  BY DEF BodyFork
<1>2. c # outer /\ c \notin open
  BY DEF TypeInv
<1>3. f \in FrameType /\ f.at = "push" /\ f.call = c /\ f.own = 0
  BY <1>1, NewCall, Apart
<1> HIDE DEF f
<1>4. /\ StackType /\ OnlyStack(s)
      /\ Len(stack'[s]) = Len(stack[s]) + 1
      /\ SameUpTo(s, Len(stack[s]))
      /\ stack'[s][Len(stack[s]) + 1] = f
  BY <1>1, <1>3, EnterStack
<1>5. Len(stack[s]) \in Nat /\ Len(stack[s]) > 0 /\ stack[s][Len(stack[s])].at = "body"
  BY <1>1, Topmost
<1> QED
  BY <1>1, <1>2, <1>3, <1>4, <1>5 DEF f

(* A pop or a steal puts the task above the drain.                         *)
LEMMA TakeStack ==
  ASSUME TypeInv, NEW s \in Slots, NEW q \in {"pop", "steal"}, At(s, q),
         NEW t \in Tasks, NEW h \in {"own", "peer"},
         Above(s, TaskFrame("gate", t, h))
  PROVE  LET n == Len(stack[s])
         IN  /\ n \in Nat /\ n > 0 /\ stack[s][n].at = q
             /\ StackType /\ OnlyStack(s) /\ Len(stack'[s]) = n + 1
             /\ SameUpTo(s, n - 1)
             /\ stack'[s][n].at = "drain"
             /\ stack'[s][n].call = stack[s][n].call
             /\ stack'[s][n].own = stack[s][n].own
             /\ stack'[s][n + 1].at = "gate"
             /\ stack'[s][n + 1].task = t /\ stack'[s][n + 1].how = h
             /\ TopCall(s) = stack[s][n].call /\ stack[s][n].call \in Calls
             /\ CallsBut(s, 0) /\ OwnsBut(s, 0) /\ TasksBut(s, n + 1)
             /\ PlacesBut(s, 0)
<1> DEFINE f == TaskFrame("gate", t, h)
<1>1. f \in FrameType /\ f.at = "gate" /\ f.task = t /\ f.how = h
  <2>1. "gate" \in TaskPlaces /\ h \in Hows
    BY DEF TaskPlaces, Hows
  <2> QED
    BY <2>1, NewTask
<1>2. q \in CallPlaces /\ q \in Draining /\ f.at \in TaskPlaces
  BY <1>1 DEF CallPlaces, Draining, TaskPlaces
<1> HIDE DEF f
<1>3. Above(s, f)
  BY DEF f
<1>4. /\ Len(stack[s]) \in Nat /\ Len(stack[s]) > 0
      /\ stack[s][Len(stack[s])].at = q
      /\ Last(stack[s]) = stack[s][Len(stack[s])]
      /\ stack[s][Len(stack[s])] \in FrameType
  BY Topmost
<1>5. stack[s][Len(stack[s])].call \in Calls
  BY <1>2, <1>4, FrameIs
<1>6. /\ CallsBut(s, 0) /\ OwnsBut(s, 0)
      /\ TasksBut(s, Len(stack[s]) + 1) /\ PlacesBut(s, 0)
  BY <1>1, <1>2, <1>3, AboveTask
<1>7. /\ StackType /\ OnlyStack(s)
      /\ Len(stack'[s]) = Len(stack[s]) + 1
      /\ SameUpTo(s, Len(stack[s]) - 1)
      /\ stack'[s][Len(stack[s])].at = "drain"
      /\ stack'[s][Len(stack[s])].call = stack[s][Len(stack[s])].call
      /\ stack'[s][Len(stack[s])].own = stack[s][Len(stack[s])].own
      /\ stack'[s][Len(stack[s]) + 1] = f
  BY <1>1, <1>2, <1>3, AboveStack
<1> QED
  BY <1>1, <1>4, <1>5, <1>6, <1>7 DEF TopCall

(* A share ends with the outer call's frame, the only one.                 *)
LEMMA ShareStack ==
  ASSUME TypeInv, StackInv, NEW s \in Slots, ShareDone(s)
  PROVE  /\ Len(stack[s]) = 1 /\ stack[s][1].at = "drain"
         /\ stack[s][1].call = outer /\ stack[s][1].own = 0
         /\ Effective(stack[s][1]) <= 0
         /\ StackType /\ OnlyStack(s) /\ Len(stack'[s]) = 0 /\ stack'[s] = <<>>
         /\ stack' = [stack EXCEPT ![s] = Front(stack[s])]
         /\ At(s, "drain")
<1>1. /\ Len(stack[s]) \in Nat /\ Len(stack[s]) > 0
      /\ stack[s][Len(stack[s])].at = "drain"
      /\ Last(stack[s]) = stack[s][Len(stack[s])]
  BY Topmost DEF ShareDone
<1>2. stack[s][Len(stack[s])].call = outer
  BY <1>1 DEF ShareDone, TopCall
<1>3. ~(Len(stack[s]) > 1)
  BY <1>1, <1>2, Apart DEF StackInv, NestedAt, CallAt
<1>4. Len(stack[s]) = 1
  <2>1. Len(stack[s]) \in Nat /\ Len(stack[s]) > 0
    BY <1>1
  <2>2. \A m \in Nat : m > 0 /\ ~(m > 1) => m = 1
    OBVIOUS
  <2> QED
    BY <2>1, <2>2, <1>3
<1>5. stack' = [stack EXCEPT ![s] = Front(stack[s])] /\ At(s, "drain")
  BY DEF ShareDone, Leave
<1>6. /\ StackType /\ OnlyStack(s) /\ Len(stack'[s]) = Len(stack[s]) - 1
  BY <1>5, LeaveStack DEF At
<1>7. Len(stack'[s]) = 0 /\ stack'[s] = <<>>
  <2>1. stack'[s] \in Seq(FrameType)
    BY <1>6 DEF StackType
  <2>2. Len(stack'[s]) = 0
    BY <1>4, <1>6
  <2> QED
    BY <2>1, <2>2, SeqNonEmpty
<1>8. stack[s][1].own = 0
  BY <1>4 DEF StackInv, BottomAt
<1>9. Effective(stack[s][1]) <= 0
  BY <1>1, <1>4 DEF ShareDone
<1> QED
  BY <1>1, <1>2, <1>4, <1>5, <1>6, <1>7, <1>8, <1>9

-----------------------------------------------------------------------------
(***************************************************************************)
(* The types.                                                              *)
(***************************************************************************)
(* The types, step by step. *)
LEMMA CloseTypes ==
  ASSUME TypeInv, NEW c \in Calls, Close(c)
  PROVE  /\ open' \subseteq 1 .. used /\ pending' \in [Calls -> Int]
         /\ cancelled' \in [Calls -> BOOLEAN]
         /\ exc' \in [Calls -> Tasks \union {None}]
         /\ token' \subseteq open' /\ outcome' \in Tasks \union {None}
<1>1. exc[c] \in Tasks \union {None}
  BY DEF TypeInv
<1>2. exc' \in [Calls -> Tasks \union {None}]
  BY DEF TypeInv, Close
<1>3. pending' \in [Calls -> Int] /\ cancelled' \in [Calls -> BOOLEAN]
  BY DEF TypeInv, Close
<1>4. open' \subseteq 1 .. used /\ token' \subseteq open'
  BY DEF TypeInv, Close
<1> QED
  BY <1>1, <1>2, <1>3, <1>4 DEF Close

(* A new call keeps the types.                                             *)
LEMMA OpenTypes ==
  ASSUME TypeInv, used + 1 \in Calls, used' = used + 1,
         open' = open \union {used + 1}, NEW k \in Int,
         pending' = [pending EXCEPT ![used + 1] = k],
         token' = token \union ({used + 1} \intersect Tokened)
  PROVE  /\ used' \in 0 .. MaxCalls /\ open' \subseteq 1 .. used'
         /\ pending' \in [Calls -> Int] /\ token' \subseteq open'
<1>1. used \in Nat /\ used + 1 <= MaxCalls /\ MaxCalls \in Nat
  BY CallsAre DEF TypeInv
<1>2. pending' \in [Calls -> Int] /\ token' \subseteq open'
  BY DEF TypeInv
<1>3. open' \subseteq 1 .. used'
  BY <1>1 DEF TypeInv
<1> QED
  BY <1>1, <1>2, <1>3

(* A task that moves on keeps the types.                                   *)
LEMMA TaskStepType ==
  ASSUME TypeInv, StackInv, NEW s \in Slots, TaskStep(s)
  PROVE  TypeInv'
<1>1. /\ \E q \in TaskPlaces, p \in TaskPlaces : At(s, q) /\ Move(s, p)
      /\ UNCHANGED <<deque, used, outer, job, open, pending, token, stopped, outcome>>
  BY TaskMove
<1>2. StackType
  BY <1>1, MoveStack
<1>3. TopTask(s) \in Tasks /\ CallOf(TopTask(s)) \in Calls
  <2>1. PICK q \in TaskPlaces : At(s, q)
    BY <1>1
  <2>2. /\ Last(stack[s]) = stack[s][Len(stack[s])]
        /\ stack[s][Len(stack[s])] \in FrameType
        /\ stack[s][Len(stack[s])].at = q
    BY <2>1, Topmost
  <2>3. stack[s][Len(stack[s])].task \in Tasks
    BY <2>2, FrameIs
  <2> QED
    BY <2>2, <2>3, TasksAre DEF TopTask
<1>4. cancelled' \in [Calls -> BOOLEAN]
  <2>1. UNCHANGED cancelled \/ cancelled' = [cancelled EXCEPT ![CallOf(TopTask(s))] = TRUE]
    BY DEF TaskStep, Gate, BodyEnd, BodyThrow, Capture, Flag, stateVars
  <2> QED
    BY <2>1, <1>3 DEF TypeInv
<1>5. exc' \in [Calls -> Tasks \union {None}]
  <2>1. UNCHANGED exc \/ exc' = [exc EXCEPT ![CallOf(TopTask(s))] =
                                   IF @ = None THEN TopTask(s) ELSE @]
    BY DEF TaskStep, Gate, BodyEnd, BodyThrow, Capture, Flag, stateVars
  <2> QED
    BY <2>1, <1>3 DEF TypeInv
<1>6. threw' \subseteq Tasks
  <2>1. UNCHANGED threw \/ threw' = threw \union {TopTask(s)}
    BY DEF TaskStep, Gate, BodyEnd, BodyThrow, Capture, Flag
  <2> QED
    BY <2>1, <1>3 DEF TypeInv
<1> QED
  BY <1>1, <1>2, <1>4, <1>5, <1>6 DEF TypeInv, StackType

(* A task that forks keeps the types.                                      *)
LEMMA ForkType ==
  ASSUME TypeInv, OuterInv, NEW s \in Slots, BodyFork(s)
  PROVE  TypeInv'
<1>1. StackType
  BY ForkStack
<1>2. InitialCount(used + 1) \in Int
  BY CallsAre DEF InitialCount
<1>3. /\ used' \in 0 .. MaxCalls /\ open' \subseteq 1 .. used'
      /\ pending' \in [Calls -> Int] /\ token' \subseteq open'
  BY <1>2, OpenTypes DEF BodyFork
<1>4. UNCHANGED <<deque, outer, job, cancelled, exc, stopped, threw, outcome>>
      /\ used' = used + 1
  BY DEF BodyFork
<1>5. outer' \in 0 .. used'
  BY <1>3, <1>4, CallsAre DEF TypeInv
<1> QED
  BY <1>1, <1>3, <1>4, <1>5 DEF TypeInv, StackType

(* A drain that takes a task keeps the types.                              *)
LEMMA TakeType ==
  ASSUME TypeInv, NEW s \in Slots, NEW v \in Slots,
         (PopOwn(s) /\ v = s) \/ Steal(s, v)
  PROVE  TypeInv'
<1>1. PICK i \in 1 .. Len(deque[v]), d \in {0, 1}, h \in {"own", "peer"},
           q \in {"pop", "steal"} :
           /\ At(s, q) /\ DequeType /\ deque[v][i] \in Tasks
           /\ Above(s, TaskFrame("gate", deque[v][i], h))
  BY TookTask
<1>2. StackType
  BY <1>1, TakeStack
<1>3. UNCHANGED <<used, outer, job, open, stateVars, stopped, threw, outcome>>
  BY DEF PopOwn, Steal
<1> QED
  BY <1>1, <1>2, <1>3 DEF TypeInv, StackType, DequeType, stateVars

(* A join that is done keeps the types.                                    *)
LEMMA JoinType ==
  ASSUME TypeInv, StackInv, NEW s \in Slots, JoinDone(s)
  PROVE  TypeInv'
<1>1. /\ StackType /\ TopCall(s) \in Calls
      /\ Len(stack[s]) \in Nat /\ Len(stack[s]) > 1
      /\ stack[s][Len(stack[s]) - 1].at = "body"
      /\ stack[s][Len(stack[s]) - 1].task = Last(Front(stack[s])).task
  BY JoinedStack
<1>2. Last(Front(stack[s])).task \in Tasks
  <2>1. stack[s][Len(stack[s]) - 1] \in FrameType
    BY <1>1, Heights
  <2> QED
    BY <1>1, <2>1, FrameIs, Apart
<1>3. Close(TopCall(s)) /\ UNCHANGED <<deque, used, outer, job, stopped>>
  BY DEF JoinDone
<1>4. threw' \subseteq Tasks
  BY <1>2 DEF JoinDone, TypeInv
<1>5. /\ open' \subseteq 1 .. used /\ pending' \in [Calls -> Int]
      /\ cancelled' \in [Calls -> BOOLEAN]
      /\ exc' \in [Calls -> Tasks \union {None}]
      /\ token' \subseteq open' /\ outcome' \in Tasks \union {None}
  BY <1>1, <1>3, CloseTypes
<1> QED
  BY <1>1, <1>3, <1>4, <1>5 DEF TypeInv, StackType

(* A task that retires keeps the types.                                    *)
LEMMA RetireType ==
  ASSUME TypeInv, StackInv, NEW s \in Slots, Retire(s)
  PROVE  TypeInv'
<1>1. StackType
  BY RetiredStack
<1>2. UNCHANGED <<deque, used, outer, job, open, cancelled, exc, token,
                  stopped, threw, outcome>>
  BY DEF Retire
<1>3. pending' \in [Calls -> Int]
  <2>1. PICK c : pending' = pending \/ pending' = [pending EXCEPT ![c] = @ - 1]
    BY DEF Retire, Weight
  <2> QED
    BY <2>1 DEF TypeInv
<1> QED
  BY <1>1, <1>2, <1>3 DEF TypeInv, StackType

(* A call that pushes keeps the types, and pushes one of its tasks.        *)
LEMMA PushType ==
  ASSUME TypeInv, StackInv, NEW s \in Slots, Push(s)
  PROVE  TypeInv' /\ \E t \in Tasks :
           /\ t = <<stack[s][Len(stack[s])].call, stack[s][Len(stack[s])].own + 1>>
           /\ deque' = [deque EXCEPT ![s] = Append(@, t)]
<1>1. StackType
  BY PushedMore, PushedLast
<1>2. UNCHANGED <<used, outer, job, open, stateVars, stopped, threw, outcome>>
  BY DEF Push
<1> DEFINE t == <<stack[s][Len(stack[s])].call, stack[s][Len(stack[s])].own + 1>>
<1>3. Last(stack[s]) = stack[s][Len(stack[s])] /\ t \in Tasks
  BY PushingCall
<1>4. deque' = [deque EXCEPT ![s] = Append(@, t)]
  BY <1>3 DEF Push
<1>5. DequeType
  BY <1>3, <1>4, DequePushed
<1> QED
  BY <1>1, <1>2, <1>3, <1>4, <1>5 DEF TypeInv, StackType, DequeType, stateVars

(* The outer call keeps the types, and fills the deque of slot 0.          *)
LEMMA OuterType ==
  ASSUME TypeInv, \A s \in Slots : deque[s] = <<>>, OuterCall
  PROVE  TypeInv' /\ DequeType /\ OnlyDeque(0)
         /\ Len(deque'[0]) = Fanout(used + 1)
         /\ \A j \in 1 .. Fanout(used + 1) : deque'[0][j] = <<used + 1, j>>
<1>1. /\ used + 1 \in Calls /\ used' = used + 1 /\ outer' = used + 1
      /\ job' = Slots
      /\ UNCHANGED <<stack, cancelled, exc, stopped, threw, outcome>>
  BY DEF OuterCall
<1>2. Fanout(used + 1) \in Int /\ 0 \in Slots
  BY CallsAre, ForkJoinAssumption DEF ForkJoinAssumption
<1>3. /\ used' \in 0 .. MaxCalls /\ open' \subseteq 1 .. used'
      /\ pending' \in [Calls -> Int] /\ token' \subseteq open'
  BY <1>2, OpenTypes DEF OuterCall
<1>4. deque' = [deque EXCEPT ![0] = @ \o [i \in 1 .. Fanout(used + 1) |-> <<used + 1, i>>]]
  BY DEF OuterCall
<1>5. /\ DequeType /\ OnlyDeque(0)
      /\ Len(deque'[0]) = Fanout(used + 1)
      /\ \A j \in 1 .. Fanout(used + 1) : deque'[0][j] = <<used + 1, j>>
  BY <1>1, <1>2, <1>4, DequeFilled
<1>6. outer' \in 0 .. used'
  BY <1>1 DEF TypeInv
<1> QED
  BY <1>1, <1>3, <1>5, <1>6 DEF TypeInv, DequeType

(* The return of the outer call keeps the types.                           *)
LEMMA ReturnType ==
  ASSUME TypeInv, Return
  PROVE  TypeInv' /\ outer \in Calls
<1>1. outer \in Calls
  BY OuterIs DEF Return
<1>2. /\ Close(outer) /\ UNCHANGED <<deque, stack, used, job, stopped>>
      /\ outer' = 0 /\ threw' \subseteq threw
  BY DEF Return
<1>3. /\ open' \subseteq 1 .. used /\ pending' \in [Calls -> Int]
      /\ cancelled' \in [Calls -> BOOLEAN]
      /\ exc' \in [Calls -> Tasks \union {None}]
      /\ token' \subseteq open' /\ outcome' \in Tasks \union {None}
  BY <1>1, <1>2, CloseTypes
<1> QED
  BY <1>1, <1>2, <1>3 DEF TypeInv

(* Every step keeps the types.                                             *)
LEMMA TypeStep ==
  ASSUME TypeInv, StackInv, OuterInv,
         outer = 0 => \A s \in Slots : deque[s] = <<>>, [Next]_vars
  PROVE  TypeInv'
<1>1. CASE OuterCall
  BY <1>1, OuterType DEF OuterCall
<1>2. CASE Return
  BY <1>2, ReturnType
<1>3. CASE Stop
  BY <1>3 DEF Stop, TypeInv, stateVars
<1>4. CASE UNCHANGED vars
  BY <1>4 DEF vars, TypeInv, stateVars
<1>5. ASSUME NEW s \in Slots, Slot(s) PROVE TypeInv'
  <2>1. CASE LookOn(s)
    <3>1. /\ \E q \in Draining, p \in Draining : At(s, q) /\ Move(s, p)
          /\ UNCHANGED <<deque, used, outer, job, open, stateVars, stopped, threw, outcome>>
      BY <2>1, QuietMove
    <3>2. StackType
      BY <3>1, MoveStack DEF CallPlaces
    <3> QED
      BY <3>1, <3>2, QuietType
  <2>2. CASE TaskStep(s)
    BY <2>2, TaskStepType
  <2>3. CASE Begin(s)
    <3>1. StackType
      BY <2>3, BeginStack
    <3>2. UNCHANGED <<deque, used, outer, open, stateVars, stopped, threw, outcome>>
          /\ job' \subseteq job
      BY <2>3 DEF Begin
    <3> QED
      BY <3>1, <3>2, QuietType
  <2>4. CASE BodyFork(s)
    BY <2>4, ForkType
  <2>5. ASSUME NEW v \in Slots, (PopOwn(s) /\ v = s) \/ Steal(s, v) PROVE TypeInv'
    BY <2>5, TakeType
  <2>6. CASE ShareDone(s)
    <3>1. StackType
      BY <2>6, ShareStack
    <3>2. UNCHANGED <<deque, used, outer, job, open, stateVars, stopped, threw, outcome>>
      BY <2>6 DEF ShareDone
    <3> QED
      BY <3>1, <3>2, QuietType
  <2>7. CASE JoinDone(s)
    BY <2>7, JoinType
  <2>8. CASE Retire(s)
    BY <2>8, RetireType
  <2>9. CASE Push(s)
    BY <2>9, PushType
  <2> QED
    BY <1>5, <2>1, <2>2, <2>3, <2>4, <2>5, <2>6, <2>7, <2>8, <2>9, SlotStep
<1> QED
  BY <1>1, <1>2, <1>3, <1>4, <1>5 DEF Next, AllCallsMade

-----------------------------------------------------------------------------
(***************************************************************************)
(* The order of the frames: StackInv.                                      *)
(***************************************************************************)
(* What stands on what. *)
FrameOK(s, k) ==
  BottomAt(s, k) /\ NestedAt(s, k) /\ OnTopAt(s, k) /\ TopAt(s, k)

(* Frames that a step does not reach stand as they stood.                  *)
LEMMA KeptFrames ==
  ASSUME TypeInv, StackInv, UNCHANGED outer, NEW s \in Slots, NEW m \in Nat,
         StackType, OnlyStack(s), SameUpTo(s, m),
         m <= Len(stack[s]), m < Len(stack'[s]),
         NEW u \in Slots, NEW k \in 1 .. Len(stack'[u]), u # s \/ k <= m
  PROVE  FrameOK(u, k)'
<1>1. Len(stack[s]) \in Nat /\ Len(stack'[s]) \in Nat
  <2>1. stack'[s] \in Seq(FrameType)
    BY DEF StackType
  <2> QED
    BY <2>1, Heights, SeqNonEmpty
<1>2. CASE u # s
  <2>1. stack'[u] = stack[u]
    BY <1>2 DEF OnlyStack
  <2>2. FrameOK(u, k)
    BY <2>1 DEF StackInv, FrameOK
  <2> QED
    BY <2>1, <2>2 DEF FrameOK, BottomAt, NestedAt, OnTopAt, TopAt, CallAt,
       TaskAt
<1>3. CASE u = s /\ k <= m
  <2>1. /\ k \in 1 .. Len(stack[s]) /\ stack'[s][k] = stack[s][k]
        /\ k # Len(stack'[s])
    BY <1>1, <1>3 DEF SameUpTo
  <2>2. k > 1 => stack'[s][k - 1] = stack[s][k - 1]
    BY <1>1, <1>3 DEF SameUpTo
  <2>3. FrameOK(s, k)
    BY <2>1 DEF StackInv, FrameOK
  <2>4. BottomAt(s, k)' /\ TopAt(s, k)'
    BY <2>1, <2>3 DEF FrameOK, BottomAt, TopAt
  <2>5. NestedAt(s, k)' /\ OnTopAt(s, k)'
    BY <1>3, <2>1, <2>2, <2>3 DEF FrameOK, NestedAt, OnTopAt, CallAt, TaskAt
  <2> QED
    BY <1>3, <2>4, <2>5 DEF FrameOK
<1> QED
  BY <1>2, <1>3

(* A call frame and a task frame that are in order. *)
LEMMA CallOK ==
  ASSUME NEW s \in Slots, NEW k \in Nat, k \in 1 .. Len(stack'[s]),
         stack'[s][k].at \in CallPlaces,
         k = 1 => /\ stack'[s][k].at \in Draining
                  /\ stack'[s][k].call = outer' /\ stack'[s][k].own = 0,
         k > 1 => stack'[s][k].call # outer' /\ stack'[s][k - 1].at = "body",
         k = Len(stack'[s]) => stack'[s][k].at # "tail",
         stack'[s][k].at = "tail" => stack'[s][k].own = 0,
         stack'[s][k].at = "push" =>
           stack'[s][k].own < Deferred(stack'[s][k].call)
  PROVE  FrameOK(s, k)'
<1>1. ~(stack'[s][k].at \in TaskPlaces)
  BY Apart
<1> QED
  BY <1>1 DEF FrameOK, BottomAt, NestedAt, OnTopAt, TopAt, CallAt, TaskAt

(* What a task's frame has to stand on.                                    *)
LEMMA TaskOK ==
  ASSUME NEW s \in Slots, NEW k \in Nat, k \in 1 .. Len(stack'[s]), k > 1,
         stack'[s][k].at \in TaskPlaces,
         IF stack'[s][k].how = "tail"
         THEN /\ stack'[s][k - 1].at = "tail"
              /\ stack'[s][k].task =
                   <<stack'[s][k - 1].call, Fanout(stack'[s][k - 1].call)>>
         ELSE stack'[s][k - 1].at = "drain",
         stack'[s][k].how = "own" =>
           /\ stack'[s][k - 1].call # outer'
           /\ CallOf(stack'[s][k].task) = stack'[s][k - 1].call
  PROVE  FrameOK(s, k)'
<1>1. ~(stack'[s][k].at \in CallPlaces) /\ stack'[s][k].at # "tail"
      /\ stack'[s][k].at # "push"
  BY Apart DEF TaskPlaces, Underway
<1> QED
  BY <1>1 DEF FrameOK, BottomAt, NestedAt, OnTopAt, TopAt, CallAt, TaskAt

(* A drain that moves on keeps the order of the frames.                    *)
LEMMA StackQuiet ==
  ASSUME TypeInv, StackInv, NEW s \in Slots, LookOn(s)
  PROVE  StackInv'
<1> DEFINE n == Len(stack[s])
<1>1. PICK q \in Draining, p \in Draining : At(s, q) /\ Move(s, p)
  BY QuietMove
<1>2. /\ StackType /\ OnlyStack(s) /\ Len(stack'[s]) = n
      /\ SameUpTo(s, n - 1)
      /\ stack'[s][n].at = p
      /\ stack'[s][n].call = stack[s][n].call
      /\ stack'[s][n].own = stack[s][n].own
  BY <1>1, MoveStack DEF CallPlaces
<1>3. n \in Nat /\ n > 0 /\ stack[s][n].at = q /\ UNCHANGED outer
  BY <1>1, Topmost, QuietMove
<1>4. p \in CallPlaces /\ q \in CallPlaces /\ p # "tail" /\ p # "push"
  BY DEF CallPlaces, Draining
<1>5. FrameOK(s, n)
  BY <1>3 DEF StackInv, FrameOK
<1>6. ASSUME NEW k \in Nat, k = n PROVE FrameOK(s, k)'
  <2>1. k > 1 => stack'[s][k - 1] = stack[s][k - 1]
    BY <1>2, <1>3, <1>6 DEF SameUpTo
  <2>2. k \in 1 .. Len(stack'[s]) /\ k \in 1 .. Len(stack[s])
    BY <1>2, <1>3, <1>6
  <2>3. k = 1 => /\ stack'[s][k].at \in Draining
                 /\ stack'[s][k].call = outer' /\ stack'[s][k].own = 0
    BY <1>2, <1>3, <1>5, <1>6 DEF FrameOK, BottomAt
  <2>4. k > 1 => stack'[s][k].call # outer' /\ stack'[s][k - 1].at = "body"
    BY <1>2, <1>3, <1>4, <1>5, <1>6, <2>1, <2>2 DEF FrameOK, NestedAt, CallAt
  <2> QED
    BY <1>2, <1>4, <1>6, <2>2, <2>3, <2>4, CallOK
<1>7. ASSUME NEW u \in Slots, NEW k \in 1 .. Len(stack'[u]) PROVE FrameOK(u, k)'
  <2>1. CASE u = s /\ k = n
    BY <1>3, <1>6, <2>1
  <2>2. CASE u # s \/ k <= n - 1
    <3>1. n - 1 \in Nat /\ n - 1 <= Len(stack[s]) /\ n - 1 < Len(stack'[s])
      BY <1>2, <1>3
    <3> QED
      BY <1>2, <1>3, <2>2, <3>1, KeptFrames
  <2> QED
    BY <1>2, <1>3, <2>1, <2>2
<1> QED
  BY <1>7 DEF StackInv, FrameOK

(* A task that moves on keeps it.                                          *)
LEMMA StackTask ==
  ASSUME TypeInv, StackInv, NEW s \in Slots, TaskStep(s)
  PROVE  StackInv'
<1> DEFINE n == Len(stack[s])
<1>1. PICK q \in TaskPlaces, p \in TaskPlaces : At(s, q) /\ Move(s, p)
  BY TaskMove
<1>2. /\ StackType /\ OnlyStack(s) /\ Len(stack'[s]) = n
      /\ SameUpTo(s, n - 1)
      /\ stack'[s][n].at = p
      /\ stack'[s][n].task = stack[s][n].task
      /\ stack'[s][n].how = stack[s][n].how
  BY <1>1, MoveStack
<1>3. n \in Nat /\ n > 0 /\ stack[s][n].at = q /\ UNCHANGED outer
  BY <1>1, Topmost, TaskMove
<1>4. OnTopAt(s, n) /\ TaskAt(s, n)
  BY <1>3 DEF StackInv, TaskAt
<1>5. n > 1
  BY <1>4 DEF OnTopAt
<1>6. ASSUME NEW k \in Nat, k = n PROVE FrameOK(s, k)'
  <2>1. stack'[s][k - 1] = stack[s][k - 1]
    BY <1>2, <1>3, <1>5, <1>6 DEF SameUpTo
  <2>2. k \in 1 .. Len(stack'[s]) /\ k > 1 /\ stack'[s][k].at \in TaskPlaces
    BY <1>2, <1>3, <1>5, <1>6
  <2> QED
    BY <1>2, <1>3, <1>4, <1>6, <2>1, <2>2, TaskOK DEF OnTopAt
<1>7. ASSUME NEW u \in Slots, NEW k \in 1 .. Len(stack'[u]) PROVE FrameOK(u, k)'
  <2>1. CASE u = s /\ k = n
    BY <1>3, <1>6, <2>1
  <2>2. CASE u # s \/ k <= n - 1
    <3>1. n - 1 \in Nat /\ n - 1 <= Len(stack[s]) /\ n - 1 < Len(stack'[s])
      BY <1>2, <1>3
    <3> QED
      BY <1>2, <1>3, <2>2, <3>1, KeptFrames
  <2> QED
    BY <1>2, <1>3, <2>1, <2>2
<1> QED
  BY <1>7 DEF StackInv, FrameOK

(* A share that begins keeps it.                                           *)
LEMMA StackBegin ==
  ASSUME TypeInv, StackInv, OuterInv, NEW s \in Slots, Begin(s)
  PROVE  StackInv'
<1>1. /\ Len(stack[s]) = 0 /\ StackType /\ OnlyStack(s) /\ Len(stack'[s]) = 1
      /\ stack'[s][1].at = "drain" /\ stack'[s][1].call = outer
      /\ stack'[s][1].own = 0 /\ UNCHANGED outer
  BY BeginStack DEF Begin
<1>2. ASSUME NEW k \in Nat, k = 1 PROVE FrameOK(s, k)'
  <2>1. "drain" \in CallPlaces /\ "drain" \in Draining
    BY DEF CallPlaces, Draining
  <2> QED
    BY <1>1, <1>2, <2>1, CallOK
<1>3. ASSUME NEW u \in Slots, NEW k \in 1 .. Len(stack'[u]) PROVE FrameOK(u, k)'
  <2>1. CASE u = s
    <3>1. Len(stack'[u]) = 1
      BY <1>1, <2>1
    <3>2. k \in 1 .. 1
      BY <3>1
    <3>3. \A x \in 1 .. 1 : x = 1 /\ x \in Nat
      OBVIOUS
    <3> QED
      BY <1>2, <2>1, <3>2, <3>3
  <2>2. CASE u # s
    <3>1. SameUpTo(s, 0)
      BY DEF SameUpTo
    <3>2. 0 \in Nat /\ 0 <= Len(stack[s]) /\ 0 < Len(stack'[s])
      BY <1>1
    <3> QED
      BY <1>1, <2>2, <3>1, <3>2, KeptFrames
  <2> QED
    BY <2>1, <2>2
<1> QED
  BY <1>3 DEF StackInv, FrameOK

(* A task that forks keeps it: its call stands on a body.                  *)
LEMMA StackFork ==
  ASSUME TypeInv, StackInv, OuterInv, NEW s \in Slots, BodyFork(s)
  PROVE  StackInv'
<1> DEFINE n == Len(stack[s])
           c == used + 1
<1>1. /\ c \in Calls /\ c # outer
      /\ n \in Nat /\ n > 0 /\ stack[s][n].at = "body"
      /\ StackType /\ OnlyStack(s) /\ Len(stack'[s]) = n + 1
      /\ SameUpTo(s, n) /\ UNCHANGED outer
      /\ stack'[s][n + 1].at = "push" /\ stack'[s][n + 1].call = c
      /\ stack'[s][n + 1].own = 0
  BY ForkStack DEF BodyFork
<1> HIDE DEF c
<1>2. ASSUME NEW k \in Nat, k = n + 1 PROVE FrameOK(s, k)'
  <2>1. "push" \in CallPlaces /\ Deferred(c) \in {1, 2}
    BY CallsAre DEF CallPlaces
  <2>2. k \in 1 .. Len(stack'[s]) /\ k > 1 /\ k - 1 = n /\ n \in 1 .. n
    BY <1>1, <1>2
  <2>3. stack'[s][k - 1].at = "body"
    BY <1>1, <2>2 DEF SameUpTo
  <2> QED
    BY <1>1, <1>2, <2>1, <2>2, <2>3, CallOK, SMTT(30)
<1>3. ASSUME NEW u \in Slots, NEW k \in 1 .. Len(stack'[u]) PROVE FrameOK(u, k)'
  <2>1. CASE u = s /\ k = n + 1
    BY <1>1, <1>2, <2>1
  <2>2. CASE u # s \/ k <= n
    <3>1. n \in Nat /\ n <= Len(stack[s]) /\ n < Len(stack'[s])
      BY <1>1
    <3> QED
      BY <1>1, <2>2, <3>1, KeptFrames
  <2> QED
    BY <1>1, <2>1, <2>2
<1> QED
  BY <1>3 DEF StackInv, FrameOK

(* A task that is taken keeps it: it stands on a drain.                    *)
LEMMA StackTake ==
  ASSUME TypeInv, StackInv, NEW s \in Slots, NEW v \in Slots,
         (PopOwn(s) /\ v = s) \/ Steal(s, v)
  PROVE  StackInv'
<1> DEFINE n == Len(stack[s])
<1>1. PICK i \in 1 .. Len(deque[v]), d \in {0, 1}, h \in {"own", "peer"},
           q \in {"pop", "steal"} :
           /\ At(s, q) /\ deque[v][i] \in Tasks
           /\ Above(s, TaskFrame("gate", deque[v][i], h))
           /\ h = "own" <=> q = "pop" /\ Counts(TopCall(s))
                              /\ CallOf(deque[v][i]) = TopCall(s)
  BY TookTask
<1> DEFINE t == deque[v][i]
<1>2. /\ n \in Nat /\ n > 0 /\ stack[s][n].at = q
      /\ StackType /\ OnlyStack(s) /\ Len(stack'[s]) = n + 1
      /\ SameUpTo(s, n - 1)
      /\ stack'[s][n].at = "drain"
      /\ stack'[s][n].call = stack[s][n].call
      /\ stack'[s][n].own = stack[s][n].own
      /\ stack'[s][n + 1].at = "gate"
      /\ stack'[s][n + 1].task = t /\ stack'[s][n + 1].how = h
      /\ TopCall(s) = stack[s][n].call
  BY <1>1, TakeStack
<1>3. UNCHANGED outer
  BY DEF PopOwn, Steal
<1>4. FrameOK(s, n)
  BY <1>2 DEF StackInv, FrameOK
<1>5. q \in CallPlaces /\ q \in Draining /\ "drain" \in CallPlaces
      /\ "drain" \in Draining /\ "gate" \in TaskPlaces
  BY DEF CallPlaces, Draining, TaskPlaces
<1> HIDE DEF t
<1>6. ASSUME NEW k \in Nat, k = n PROVE FrameOK(s, k)'
  <2>1. k > 1 => stack'[s][k - 1] = stack[s][k - 1]
    BY <1>2, <1>6, SMTT(20) DEF SameUpTo
  <2>2. k \in 1 .. Len(stack'[s]) /\ k \in 1 .. Len(stack[s])
        /\ k # Len(stack'[s])
    BY <1>2, <1>6
  <2>3. k = 1 => /\ stack'[s][k].at \in Draining
                 /\ stack'[s][k].call = outer' /\ stack'[s][k].own = 0
    BY <1>2, <1>3, <1>4, <1>5, <1>6 DEF FrameOK, BottomAt
  <2>4. k > 1 => stack'[s][k].call # outer' /\ stack'[s][k - 1].at = "body"
    BY <1>2, <1>3, <1>4, <1>5, <1>6, <2>1, <2>2 DEF FrameOK, NestedAt, CallAt
  <2> QED
    BY <1>2, <1>5, <1>6, <2>2, <2>3, <2>4, CallOK
<1>7. ASSUME NEW k \in Nat, k = n + 1 PROVE FrameOK(s, k)'
  <2>1. k \in 1 .. Len(stack'[s]) /\ k > 1 /\ k - 1 = n
    BY <1>2, <1>7
  <2>2. h # "tail"
    OBVIOUS
  <2>3. h = "own" => stack[s][n].call # outer /\ CallOf(t) = stack[s][n].call
    BY <1>1, <1>2 DEF Counts, t
  <2> QED
    BY <1>2, <1>3, <1>5, <1>7, <2>1, <2>2, <2>3, TaskOK
<1>8. ASSUME NEW u \in Slots, NEW k \in 1 .. Len(stack'[u]) PROVE FrameOK(u, k)'
  <2>1. CASE u = s /\ k = n
    BY <1>2, <1>6, <2>1
  <2>2. CASE u = s /\ k = n + 1
    BY <1>2, <1>7, <2>2
  <2>3. CASE u # s \/ k <= n - 1
    <3>1. n - 1 \in Nat /\ n - 1 <= Len(stack[s]) /\ n - 1 < Len(stack'[s])
      BY <1>2
    <3> QED
      BY <1>2, <1>3, <2>3, <3>1, KeptFrames
  <2> QED
    BY <1>2, <2>1, <2>2, <2>3
<1> QED
  BY <1>8 DEF StackInv, FrameOK

(* A share that is over keeps it.                                          *)
LEMMA StackShare ==
  ASSUME TypeInv, StackInv, NEW s \in Slots, ShareDone(s)
  PROVE  StackInv'
<1>1. OnlyStack(s) /\ Len(stack'[s]) = 0 /\ UNCHANGED outer
  BY ShareStack DEF ShareDone
<1>2. ASSUME NEW u \in Slots, NEW k \in 1 .. Len(stack'[u]) PROVE FrameOK(u, k)'
  <2>1. u # s
    <3> SUFFICES ASSUME u = s PROVE FALSE
      OBVIOUS
    <3>1. Len(stack'[u]) = 0
      BY <1>1
    <3>2. k \in 1 .. 0
      BY <3>1
    <3> QED
      BY <3>2
  <2>2. stack'[u] = stack[u]
    BY <1>1, <2>1 DEF OnlyStack
  <2>3. FrameOK(u, k)
    BY <2>2 DEF StackInv, FrameOK
  <2> QED
    BY <1>1, <2>2, <2>3 DEF FrameOK, BottomAt, NestedAt, OnTopAt, TopAt,
       CallAt, TaskAt
<1> QED
  BY <1>2 DEF StackInv, FrameOK

(* A join that is done keeps it.                                           *)
LEMMA StackJoin ==
  ASSUME TypeInv, StackInv, NEW s \in Slots, JoinDone(s)
  PROVE  StackInv'
<1> DEFINE n == Len(stack[s])
<1>1. /\ n \in Nat /\ n > 1 /\ stack[s][n - 1].at = "body"
      /\ StackType /\ OnlyStack(s) /\ Len(stack'[s]) = n - 1
      /\ SameUpTo(s, n - 2)
      /\ stack'[s][n - 1].at \in {"body", "threw"}
      /\ stack'[s][n - 1].task = stack[s][n - 1].task
      /\ stack'[s][n - 1].how = stack[s][n - 1].how
      /\ UNCHANGED outer
  BY JoinedStack DEF JoinDone
<1>2. "body" \in TaskPlaces /\ "threw" \in TaskPlaces
  BY Apart
<1>3. OnTopAt(s, n - 1) /\ TaskAt(s, n - 1)
  <2>1. n - 1 \in 1 .. Len(stack[s])
    BY <1>1
  <2> QED
    BY <1>1, <1>2, <2>1 DEF StackInv, TaskAt
<1>4. n - 1 > 1
  BY <1>3 DEF OnTopAt
<1>5. ASSUME NEW k \in Nat, k = n - 1 PROVE FrameOK(s, k)'
  <2>1. stack'[s][k - 1] = stack[s][k - 1]
    BY <1>1, <1>4, <1>5, SMTT(30) DEF SameUpTo
  <2>2. k \in 1 .. Len(stack'[s]) /\ k > 1 /\ stack'[s][k].at \in TaskPlaces
    BY <1>1, <1>2, <1>4, <1>5
  <2> QED
    BY <1>1, <1>3, <1>5, <2>1, <2>2, TaskOK DEF OnTopAt
<1>6. ASSUME NEW u \in Slots, NEW k \in 1 .. Len(stack'[u]) PROVE FrameOK(u, k)'
  <2>1. CASE u = s /\ k = n - 1
    BY <1>1, <1>5, <2>1
  <2>2. CASE u # s \/ k <= n - 2
    <3>1. n - 2 \in Nat /\ n - 2 <= Len(stack[s]) /\ n - 2 < Len(stack'[s])
      BY <1>1, SMTT(30)
    <3> QED
      BY <1>1, <2>2, <3>1, KeptFrames
  <2> QED
    BY <1>1, <2>1, <2>2
<1> QED
  BY <1>6 DEF StackInv, FrameOK

(* A task that retires keeps it.                                           *)
LEMMA StackRetire ==
  ASSUME TypeInv, StackInv, NEW s \in Slots, Retire(s)
  PROVE  StackInv'
<1> DEFINE n == Len(stack[s])
           f == stack[s][n]
           b == stack[s][n - 1]
<1>1. /\ n \in Nat /\ n > 1 /\ f.at \in {"retire", "skipped"}
      /\ b.at = IF f.how = "tail" THEN "tail" ELSE "drain"
      /\ StackType /\ OnlyStack(s) /\ Len(stack'[s]) = n - 1
      /\ SameUpTo(s, n - 2)
      /\ stack'[s][n - 1].at = "drain"
      /\ stack'[s][n - 1].call = b.call
      /\ stack'[s][n - 1].own = IF f.how = "own" THEN b.own + 1 ELSE b.own
      /\ UNCHANGED outer
  BY RetiredStack DEF Retire
<1>2. {"drain", "tail"} \subseteq CallPlaces /\ "drain" \in Draining
      /\ "tail" \notin Draining
      /\ {"retire", "skipped"} \subseteq TaskPlaces
  BY DEF CallPlaces, Draining, TaskPlaces, Underway
<1> HIDE DEF f, b
<1>3. FrameOK(s, n) /\ FrameOK(s, n - 1) /\ n - 1 \in 1 .. Len(stack[s])
      /\ n \in 1 .. Len(stack[s])
  <2>1. n \in 1 .. Len(stack[s]) /\ n - 1 \in 1 .. Len(stack[s])
    BY <1>1
  <2> QED
    BY <2>1 DEF StackInv, FrameOK
<1>4. f.how = "own" => b.call # outer
  BY <1>1, <1>2, <1>3 DEF FrameOK, OnTopAt, TaskAt, f, b
<1>5. n - 1 = 1 => b.at \in Draining /\ b.call = outer /\ b.own = 0
  BY <1>3 DEF FrameOK, BottomAt, b
<1>6. n - 1 > 1 => b.call # outer /\ stack[s][n - 2].at = "body"
  <2>1. b.at \in CallPlaces
    BY <1>1, <1>2
  <2>2. n - 1 - 1 = n - 2
    BY <1>1
  <2> QED
    BY <1>3, <2>1, <2>2 DEF FrameOK, NestedAt, CallAt, b
<1>7. ASSUME NEW k \in Nat, k = n - 1 PROVE FrameOK(s, k)'
  <2>1. k > 1 => stack'[s][k - 1] = stack[s][n - 2]
    <3> SUFFICES ASSUME k > 1 PROVE stack'[s][k - 1] = stack[s][n - 2]
      OBVIOUS
    <3>1. k - 1 = n - 2 /\ n - 2 \in 1 .. n - 2
      BY <1>1, <1>7
    <3> QED
      BY <1>1, <3>1 DEF SameUpTo
  <2>2. k \in 1 .. Len(stack'[s])
    BY <1>1, <1>7
  <2>3. k = 1 => /\ stack'[s][k].at \in Draining
                 /\ stack'[s][k].call = outer' /\ stack'[s][k].own = 0
    BY <1>1, <1>2, <1>4, <1>5, <1>7
  <2>4. k > 1 => stack'[s][k].call # outer' /\ stack'[s][k - 1].at = "body"
    BY <1>1, <1>6, <1>7, <2>1
  <2>5. stack'[s][k].at = "drain"
    BY <1>1, <1>7
  <2> QED
    BY <1>2, <2>2, <2>3, <2>4, <2>5, CallOK
<1>8. ASSUME NEW u \in Slots, NEW k \in 1 .. Len(stack'[u]) PROVE FrameOK(u, k)'
  <2>1. CASE u = s /\ k = n - 1
    BY <1>1, <1>7, <2>1
  <2>2. CASE u # s \/ k <= n - 2
    <3>1. n - 2 \in Nat /\ n - 2 <= Len(stack[s]) /\ n - 2 < Len(stack'[s])
      BY <1>1, SMTT(30)
    <3> QED
      BY <1>1, <2>2, <3>1, KeptFrames
  <2> QED
    BY <1>1, <2>1, <2>2
<1> QED
  BY <1>8 DEF StackInv, FrameOK

(* A call that pushes keeps it, with its last task above it at the end.    *)
LEMMA StackPush ==
  ASSUME TypeInv, StackInv, NEW s \in Slots, Push(s)
  PROVE  StackInv'
<1> DEFINE n == Len(stack[s])
           f == stack[s][n]
<1>1. /\ n \in Nat /\ n > 1 /\ f.at = "push" /\ f.call \in Calls
      /\ f.call # outer /\ f.own \in Nat /\ Last(stack[s]) = f
      /\ f.own + 1 <= Deferred(f.call) /\ UNCHANGED outer
  BY PushingCall DEF Push
<1>2. FrameOK(s, n) /\ n \in 1 .. Len(stack[s])
  BY <1>1 DEF StackInv, FrameOK
<1>3. {"push", "tail"} \subseteq CallPlaces /\ "gate" \in TaskPlaces
  BY DEF CallPlaces, Draining, TaskPlaces
<1>4. stack[s][n - 1].at = "body"
  BY <1>1, <1>2, <1>3 DEF FrameOK, NestedAt, CallAt
<1> HIDE DEF f
<1>5. CASE f.own + 1 < Deferred(TopCall(s))
  <2>1. /\ StackType /\ OnlyStack(s) /\ Len(stack'[s]) = n
        /\ SameUpTo(s, n - 1)
        /\ stack'[s][n].at = "push" /\ stack'[s][n].call = f.call
        /\ stack'[s][n].own = f.own + 1
    BY <1>5, PushedMore DEF f
  <2>2. f.own + 1 < Deferred(f.call)
    BY <1>1, <1>5 DEF TopCall
  <2>3. ASSUME NEW k \in Nat, k = n PROVE FrameOK(s, k)'
    <3>1. k \in 1 .. Len(stack'[s]) /\ k > 1 /\ stack'[s][k - 1] = stack[s][n - 1]
      BY <1>1, <2>1, <2>3 DEF SameUpTo
    <3> QED
      BY <1>1, <1>3, <1>4, <2>1, <2>2, <2>3, <3>1, CallOK
  <2>4. ASSUME NEW u \in Slots, NEW k \in 1 .. Len(stack'[u]) PROVE FrameOK(u, k)'
    <3>1. CASE u = s /\ k = n
      BY <1>1, <2>3, <3>1
    <3>2. CASE u # s \/ k <= n - 1
      <4>1. n - 1 \in Nat /\ n - 1 <= Len(stack[s]) /\ n - 1 < Len(stack'[s])
        BY <1>1, <2>1
      <4> QED
        BY <1>1, <2>1, <3>2, <4>1, KeptFrames
    <3> QED
      BY <1>1, <2>1, <3>1, <3>2
  <2> QED
    BY <2>4 DEF StackInv, FrameOK
<1>6. CASE ~(f.own + 1 < Deferred(TopCall(s)))
  <2>1. /\ StackType /\ OnlyStack(s) /\ Len(stack'[s]) = n + 1
        /\ SameUpTo(s, n - 1)
        /\ stack'[s][n].at = "tail" /\ stack'[s][n].call = f.call
        /\ stack'[s][n].own = 0
        /\ stack'[s][n + 1].at = "gate"
        /\ stack'[s][n + 1].task = <<f.call, Fanout(f.call)>>
        /\ stack'[s][n + 1].how = "tail"
    BY <1>6, PushedLast DEF f
  <2>2. ASSUME NEW k \in Nat, k = n PROVE FrameOK(s, k)'
    <3>1. k \in 1 .. Len(stack'[s]) /\ k > 1 /\ stack'[s][k - 1] = stack[s][n - 1]
          /\ k # Len(stack'[s])
      BY <1>1, <2>1, <2>2, SMTT(30) DEF SameUpTo
    <3> QED
      BY <1>1, <1>3, <1>4, <2>1, <2>2, <3>1, CallOK
  <2>3. ASSUME NEW k \in Nat, k = n + 1 PROVE FrameOK(s, k)'
    <3>1. k \in 1 .. Len(stack'[s]) /\ k > 1 /\ k - 1 = n
      BY <1>1, <2>1, <2>3
    <3> QED
      BY <1>1, <1>3, <2>1, <2>3, <3>1, TaskOK
  <2>4. ASSUME NEW u \in Slots, NEW k \in 1 .. Len(stack'[u]) PROVE FrameOK(u, k)'
    <3>1. CASE u = s /\ k = n
      BY <1>1, <2>2, <3>1
    <3>2. CASE u = s /\ k = n + 1
      BY <1>1, <2>3, <3>2
    <3>3. CASE u # s \/ k <= n - 1
      <4>1. n - 1 \in Nat /\ n - 1 <= Len(stack[s]) /\ n - 1 < Len(stack'[s])
        BY <1>1, <2>1, SMTT(30)
      <4> QED
        BY <1>1, <2>1, <3>3, <4>1, KeptFrames
    <3> QED
      BY <1>1, <2>1, <3>1, <3>2, <3>3
  <2> QED
    BY <2>4 DEF StackInv, FrameOK
<1> QED
  BY <1>5, <1>6

(* Every step keeps the order of the frames.                               *)
LEMMA StackStep ==
  ASSUME TypeInv, StackInv, OuterInv, [Next]_vars
  PROVE  StackInv'
<1>1. CASE OuterCall \/ Return
  <2>1. \A s \in Slots : stack[s] = <<>> /\ stack'[s] = <<>>
    BY <1>1 DEF OuterCall, Return, OuterInv
  <2>2. \A s \in Slots : Len(stack'[s]) = 0
    BY <2>1
  <2>3. 1 .. 0 = {}
    OBVIOUS
  <2> QED
    BY <2>2, <2>3 DEF StackInv
<1>2. CASE Stop \/ UNCHANGED vars
  <2>1. UNCHANGED <<stack, outer>>
    BY <1>2 DEF Stop, vars
  <2> QED
    BY <2>1 DEF StackInv, BottomAt, NestedAt, OnTopAt, TopAt, CallAt, TaskAt
<1>3. ASSUME NEW s \in Slots, Slot(s) PROVE StackInv'
  BY <1>3, SlotStep, StackQuiet, StackTask, StackBegin, StackFork, StackTake,
     StackShare, StackJoin, StackRetire, StackPush
<1> QED
  BY <1>1, <1>2, <1>3 DEF Next, AllCallsMade

-----------------------------------------------------------------------------
(***************************************************************************)
(* The calls: CallsInv and OuterInv.                                       *)
(***************************************************************************)
(* The calls on the stacks. *)
CallWas(u, k) ==
  CallAt(u, k)' => CallAt(u, k) /\ stack'[u][k].call = stack[u][k].call

(* A step after which no call stands where none stood.                     *)
LEMMA CallsWere ==
  ASSUME NEW s \in Slots, NEW m \in Nat, CallsBut(s, m),
         \A k \in Nat : k = m => ~CallAt(s, k)'
  PROVE  \A u \in Slots, k \in Nat : CallWas(u, k)
BY DEF CallsBut, CallSame, CallWas

(* Stacks begin at 1.                                                      *)
LEMMA NoFrame0 ==
  ASSUME NEW s \in Slots
  PROVE  \A k \in Nat : k = 0 => ~CallAt(s, k)' /\ ~TaskAt(s, k)'
                                 /\ ~CallAt(s, k) /\ ~TaskAt(s, k)
BY DEF CallAt, TaskAt

(* Where no call is new, calls stay apart.                                 *)
LEMMA CallsKept ==
  ASSUME CallsInv, \A u \in Slots, k \in Nat : CallWas(u, k),
         \A u \in Slots, k \in Nat : CallAt(u, k)' => stack'[u][k].call \in open'
  PROVE  CallsInv'
<1> SUFFICES ASSUME NEW s \in Slots, NEW u \in Slots, NEW k \in Nat, NEW l \in Nat
             PROVE  YoungerAt(s, k, l)' /\ ApartAt(s, k, u, l)' /\ LivesAt(s, k)'
  BY DEF CallsInv
<1>1. CallWas(s, k) /\ CallWas(s, l) /\ CallWas(u, l)
  OBVIOUS
<1>2. YoungerAt(s, k, l) /\ ApartAt(s, k, u, l)
  BY DEF CallsInv
<1>3. LivesAt(s, k)'
  BY DEF LivesAt
<1>4. YoungerAt(s, k, l)'
  BY <1>1, <1>2 DEF CallWas, YoungerAt
<1>5. ApartAt(s, k, u, l)'
  BY <1>1, <1>2 DEF CallWas, ApartAt
<1> QED
  BY <1>3, <1>4, <1>5

(* A nested call has one frame. *)
LEMMA CallOnce ==
  ASSUME TypeInv, StackInv, CallsInv,
         NEW s \in Slots, NEW n \in Nat, n > 1, CallAt(s, n),
         NEW u \in Slots, NEW k \in Nat, CallAt(u, k),
         stack[u][k].call = stack[s][n].call
  PROVE  u = s /\ k = n
<1>1. stack[s][n].call # outer /\ stack[s][n].call \in Calls
  <2>1. NestedAt(s, n) /\ stack[s][n] \in FrameType
    BY Heights DEF StackInv, CallAt
  <2> QED
    BY <2>1, FrameIs DEF NestedAt, CallAt
<1>2. k > 1
  <2>1. BottomAt(u, k) /\ k >= 1
    BY DEF StackInv, CallAt
  <2> QED
    BY <1>1, <2>1 DEF BottomAt
<1>3. u = s
  BY <1>2 DEF CallsInv, ApartAt
<1>4. ~(k < n) /\ ~(n < k)
  <2>1. YoungerAt(s, k, n) /\ YoungerAt(s, n, k)
    BY DEF CallsInv
  <2>2. ~(stack[s][n].call < stack[s][n].call)
    BY <1>1, CallsAre
  <2> QED
    BY <1>3, <2>1, <2>2 DEF YoungerAt
<1> QED
  BY <1>3, <1>4

(* What is known of a call on a stack.                                     *)
LEMMA CallFacts ==
  ASSUME TypeInv, StackInv, CallsInv, NEW s \in Slots, NEW k \in Nat, CallAt(s, k)
  PROVE  /\ k >= 1 /\ k <= Len(stack[s]) /\ Len(stack[s]) \in Nat
         /\ stack[s][k] \in FrameType /\ stack[s][k].call \in Calls
         /\ stack[s][k].call \in Nat
         /\ stack[s][k].own \in Nat /\ stack[s][k].call \in open
         /\ stack[s][k].call <= used
         /\ k > 1 => stack[s][k].call # outer
         /\ k = 1 => stack[s][k].call = outer /\ stack[s][k].own = 0
<1>1. k \in 1 .. Len(stack[s]) /\ stack[s][k].at \in CallPlaces
      /\ Len(stack[s]) \in Nat
  BY Heights DEF CallAt
<1>2. stack[s][k] \in FrameType
  BY <1>1, Heights
<1>3. stack[s][k].call \in Calls /\ stack[s][k].own \in Nat
  BY <1>1, <1>2, FrameIs
<1>4. stack[s][k].call \in open
  BY DEF CallsInv, LivesAt
<1>5. stack[s][k].call <= used /\ stack[s][k].call \in Nat
  BY <1>3, <1>4, CallsAre DEF TypeInv
<1>6. /\ k > 1 => stack[s][k].call # outer
      /\ k = 1 => stack[s][k].call = outer /\ stack[s][k].own = 0
  BY <1>1 DEF StackInv, NestedAt, BottomAt
<1> QED
  BY <1>1, <1>2, <1>3, <1>4, <1>5, <1>6

(* CallsInv is kept where no call comes or goes.                           *)
LEMMA CallsSame ==
  ASSUME TypeInv, StackInv, CallsInv, NEW s \in Slots, CallsBut(s, 0),
         open \subseteq open'
  PROVE  CallsInv'
<1>1. \A u \in Slots, k \in Nat : CallWas(u, k)
  BY CallsWere, NoFrame0
<1>2. ASSUME NEW u \in Slots, NEW k \in Nat, CallAt(u, k)'
      PROVE  stack'[u][k].call \in open'
  <2>1. CallAt(u, k) /\ stack'[u][k].call = stack[u][k].call
    BY <1>1, <1>2 DEF CallWas
  <2> QED
    BY <2>1, CallFacts
<1> QED
  BY <1>1, <1>2, CallsKept

(* A task that forks keeps it: the new call is the youngest.               *)
LEMMA CallsFork ==
  ASSUME TypeInv, StackInv, CallsInv, OuterInv, NEW s \in Slots, BodyFork(s)
  PROVE  CallsInv'
<1> DEFINE n == Len(stack[s])
           c == used + 1
<1>1. /\ c \in Calls /\ c # outer /\ c \notin open
      /\ n \in Nat /\ n > 0
      /\ Len(stack'[s]) = n + 1 /\ stack'[s][n + 1].call = c
      /\ open' = open \union {c}
  BY ForkStack DEF BodyFork
<1>2. c \in Nat /\ used \in Nat /\ used < c
  BY <1>1, CallsAre DEF TypeInv
<1>3. CallsBut(s, n + 1)
  BY ForkStack, EnteredCall, Apart
<1> HIDE DEF n, c
<1>4. ASSUME NEW u \in Slots, NEW k \in Nat, CallAt(u, k)', ~(u = s /\ k = n + 1)
      PROVE  /\ CallAt(u, k) /\ stack'[u][k].call = stack[u][k].call
             /\ stack'[u][k].call \in open /\ stack'[u][k].call < c
             /\ stack'[u][k].call \in Nat
  <2>1. CallAt(u, k) /\ stack'[u][k].call = stack[u][k].call
    BY <1>3, <1>4 DEF CallsBut, CallSame
  <2>2. /\ stack[u][k].call \in open /\ stack[u][k].call <= used
        /\ stack[u][k].call \in Nat
    BY <2>1, CallFacts
  <2> QED
    BY <1>2, <2>1, <2>2
<1>5. \A k \in Nat : CallAt(s, k)' => k <= n + 1
  BY <1>1 DEF CallAt
<1>6. ASSUME NEW u \in Slots, NEW v \in Slots, NEW k \in Nat, NEW l \in Nat
      PROVE  YoungerAt(u, k, l)' /\ ApartAt(u, k, v, l)' /\ LivesAt(u, k)'
  <2>1. LivesAt(u, k)'
    BY <1>1, <1>4 DEF LivesAt
  <2>2. YoungerAt(u, k, l)'
    <3> SUFFICES ASSUME k < l, CallAt(u, k)', CallAt(u, l)'
                 PROVE  stack'[u][k].call < stack'[u][l].call
      BY DEF YoungerAt
    <3>1. ~(u = s /\ k = n + 1)
      BY <1>1, <1>5
    <3>2. CallAt(u, k) /\ stack'[u][k].call = stack[u][k].call
          /\ stack'[u][k].call < c
      BY <1>4, <3>1
    <3>3. CASE u = s /\ l = n + 1
      BY <1>1, <3>2, <3>3
    <3>4. CASE ~(u = s /\ l = n + 1)
      <4>1. CallAt(u, l) /\ stack'[u][l].call = stack[u][l].call
        BY <1>4, <3>4
      <4> QED
        BY <3>2, <4>1 DEF CallsInv, YoungerAt
    <3> QED
      BY <3>3, <3>4
  <2>3. ApartAt(u, k, v, l)'
    <3> SUFFICES ASSUME k > 1, CallAt(u, k)', l > 1, CallAt(v, l)',
                        stack'[u][k].call = stack'[v][l].call
                 PROVE  u = v
      BY DEF ApartAt
    <3>1. CASE u = s /\ k = n + 1
      <4>1. stack'[u][k].call = c
        BY <1>1, <3>1
      <4>2. v = s /\ l = n + 1
        <5> SUFFICES ASSUME ~(v = s /\ l = n + 1) PROVE FALSE
          OBVIOUS
        <5>1. stack'[v][l].call < c /\ stack'[v][l].call = c
          BY <1>4, <4>1
        <5> QED
          BY <1>2, <5>1
      <4> QED
        BY <3>1, <4>2
    <3>2. CASE v = s /\ l = n + 1
      <4>1. stack'[v][l].call = c
        BY <1>1, <3>2
      <4>2. u = s /\ k = n + 1
        BY <1>2, <1>4, <4>1
      <4> QED
        BY <3>2, <4>2
    <3>3. CASE ~(u = s /\ k = n + 1) /\ ~(v = s /\ l = n + 1)
      <4>1. CallAt(u, k) /\ stack'[u][k].call = stack[u][k].call
        BY <1>4, <3>3
      <4>2. CallAt(v, l) /\ stack'[v][l].call = stack[v][l].call
        BY <1>4, <3>3
      <4> QED
        BY <4>1, <4>2 DEF CallsInv, ApartAt
    <3> QED
      BY <3>1, <3>2, <3>3
  <2> QED
    BY <2>1, <2>2, <2>3
<1> QED
  BY <1>6 DEF CallsInv

(* A join that is done keeps it: no other frame is of its call.            *)
LEMMA CallsJoin ==
  ASSUME TypeInv, StackInv, CallsInv, NEW s \in Slots, JoinDone(s)
  PROVE  CallsInv'
<1> DEFINE n == Len(stack[s])
           c == stack[s][n].call
<1>1. /\ n \in Nat /\ n > 1 /\ stack[s][n].at = "drain" /\ c = TopCall(s)
  BY JoinedStack
<1>2. open' = open \ {c}
  BY <1>1 DEF JoinDone, Close
<1>3. CallAt(s, n)
  BY <1>1, Apart DEF CallAt
<1>4. /\ CallsBut(s, n) /\ \A k \in Nat : k = n => ~CallAt(s, k)'
  BY JoinedCall
<1>5. \A u \in Slots, k \in Nat : CallWas(u, k)
  BY <1>1, <1>4, CallsWere
<1>6. ASSUME NEW u \in Slots, NEW k \in Nat, CallAt(u, k)'
      PROVE  stack'[u][k].call \in open'
  <2>1. CallAt(u, k) /\ stack'[u][k].call = stack[u][k].call
    BY <1>5, <1>6 DEF CallWas
  <2>2. stack[u][k].call \in open
    BY <2>1, CallFacts
  <2>3. stack[u][k].call # c
    <3> SUFFICES ASSUME stack[u][k].call = c PROVE FALSE
      OBVIOUS
    <3>1. u = s /\ k = n
      BY <1>1, <1>3, <2>1, CallOnce
    <3> QED
      BY <1>4, <1>6, <3>1
  <2> QED
    BY <1>2, <2>1, <2>2, <2>3
<1> QED
  BY <1>5, <1>6, CallsKept

(* Every step keeps the calls apart and alive.                             *)
LEMMA CallsStep ==
  ASSUME TypeInv, StackInv, CallsInv, OuterInv, [Next]_vars
  PROVE  CallsInv'
<1>1. CASE OuterCall \/ Stop \/ UNCHANGED vars
  <2>1. UNCHANGED stack /\ open \subseteq open'
    BY <1>1 DEF OuterCall, Stop, vars
  <2>2. CallsBut(0, 0) /\ 0 \in Slots
    BY <2>1, NoneMoved, ForkJoinAssumption DEF ForkJoinAssumption
  <2> QED
    BY <2>1, <2>2, CallsSame
<1>2. CASE Return
  <2>1. UNCHANGED stack /\ \A s \in Slots : stack[s] = <<>>
    BY <1>2 DEF Return
  <2>2. ASSUME NEW s \in Slots, NEW k \in Nat PROVE ~CallAt(s, k)'
    <3>1. Len(stack'[s]) = 0
      BY <2>1
    <3>2. k \notin 1 .. 0
      OBVIOUS
    <3> QED
      BY <3>1, <3>2 DEF CallAt
  <2> QED
    BY <2>2 DEF CallsInv, YoungerAt, ApartAt, LivesAt
<1>3. ASSUME NEW s \in Slots, Slot(s) PROVE CallsInv'
  <2>1. CASE LookOn(s)
    <3>1. CallsBut(s, 0) /\ UNCHANGED open
      BY <2>1, QuietMove, MovedCall
    <3> QED
      BY <3>1, CallsSame
  <2>2. CASE TaskStep(s)
    <3>1. CallsBut(s, 0) /\ UNCHANGED open
      BY <2>2, TaskMove, MovedTask
    <3> QED
      BY <3>1, CallsSame
  <2>3. CASE Begin(s)
    <3> DEFINE c == outer
    <3>1. /\ outer # 0 /\ outer \in open /\ outer \in Calls
          /\ Len(stack[s]) = 0 /\ OnlyStack(s) /\ Len(stack'[s]) = 1
          /\ stack'[s][1].call = outer /\ UNCHANGED <<open, outer>>
      BY <2>3, BeginStack, CallsAre DEF OuterInv, Begin
    <3>2. CallsBut(s, 1)
      <4>1. CallsBut(s, Len(stack[s]) + 1)
        BY <2>3, BeginStack, EnteredCall, Apart
      <4>2. Len(stack[s]) + 1 = 1
        BY <3>1
      <4> QED
        BY <4>1, <4>2
    <3>3. ASSUME NEW u \in Slots, NEW k \in Nat, CallAt(u, k)', ~(u = s /\ k = 1)
          PROVE  /\ CallAt(u, k) /\ stack'[u][k].call = stack[u][k].call
                 /\ stack'[u][k].call \in open
      <4>1. CallAt(u, k) /\ stack'[u][k].call = stack[u][k].call
        BY <3>2, <3>3 DEF CallsBut, CallSame
      <4> QED
        BY <4>1, CallFacts
    <3>4. \A k \in Nat : CallAt(s, k)' => k = 1
      BY <3>1 DEF CallAt
    <3>5. ASSUME NEW u \in Slots, NEW v \in Slots, NEW k \in Nat, NEW l \in Nat
          PROVE  YoungerAt(u, k, l)' /\ ApartAt(u, k, v, l)' /\ LivesAt(u, k)'
      <4>1. LivesAt(u, k)'
        BY <3>1, <3>3 DEF LivesAt
      <4>2. CASE u = s \/ v = s
        <5>1. YoungerAt(u, k, l)'
          <6> SUFFICES ASSUME k < l, CallAt(u, k)', CallAt(u, l)'
                       PROVE  stack'[u][k].call < stack'[u][l].call
            BY DEF YoungerAt
          <6>1. u # s
            BY <3>4
          <6>2. /\ CallAt(u, k) /\ stack'[u][k].call = stack[u][k].call
                /\ CallAt(u, l) /\ stack'[u][l].call = stack[u][l].call
            BY <3>3, <6>1
          <6> QED
            BY <6>2 DEF CallsInv, YoungerAt
        <5>2. ApartAt(u, k, v, l)'
          BY <3>4, <4>2 DEF ApartAt
        <5> QED
          BY <4>1, <5>1, <5>2
      <4>3. CASE u # s /\ v # s
        <5>1. YoungerAt(u, k, l) /\ ApartAt(u, k, v, l)
          BY DEF CallsInv
        <5>2. /\ CallAt(u, k)' => CallAt(u, k) /\ stack'[u][k].call = stack[u][k].call
              /\ CallAt(u, l)' => CallAt(u, l) /\ stack'[u][l].call = stack[u][l].call
              /\ CallAt(v, l)' => CallAt(v, l) /\ stack'[v][l].call = stack[v][l].call
          BY <3>3, <4>3
        <5> QED
          BY <4>1, <5>1, <5>2 DEF YoungerAt, ApartAt
      <4> QED
        BY <4>2, <4>3
    <3> QED
      BY <3>5 DEF CallsInv
  <2>4. CASE BodyFork(s)
    BY <2>4, CallsFork
  <2>5. ASSUME NEW v \in Slots, (PopOwn(s) /\ v = s) \/ Steal(s, v) PROVE CallsInv'
    <3>1. PICK i \in 1 .. Len(deque[v]), h \in {"own", "peer"}, q \in {"pop", "steal"} :
             /\ At(s, q) /\ deque[v][i] \in Tasks
             /\ Above(s, TaskFrame("gate", deque[v][i], h))
      BY <2>5, TookTask
    <3>2. CallsBut(s, 0)
      BY <3>1, TakeStack
    <3>3. UNCHANGED open
      BY <2>5 DEF PopOwn, Steal
    <3> QED
      BY <3>2, <3>3, CallsSame
  <2>6. CASE ShareDone(s)
    <3>1. Len(stack[s]) = 1 /\ CallsBut(s, Len(stack[s]))
          /\ (\A k \in Nat : k = Len(stack[s]) => ~CallAt(s, k)')
      BY <2>6, ShareStack, LeftTop
    <3>2. \A u \in Slots, k \in Nat : CallWas(u, k)
      BY <3>1, CallsWere
    <3>3. UNCHANGED open
      BY <2>6 DEF ShareDone
    <3>4. ASSUME NEW u \in Slots, NEW k \in Nat, CallAt(u, k)'
          PROVE  stack'[u][k].call \in open'
      <4>1. CallAt(u, k) /\ stack'[u][k].call = stack[u][k].call
        BY <3>2, <3>4 DEF CallWas
      <4> QED
        BY <3>3, <4>1, CallFacts
    <3> QED
      BY <3>2, <3>4, CallsKept
  <2>7. CASE JoinDone(s)
    BY <2>7, CallsJoin
  <2>8. CASE Retire(s)
    <3>1. CallsBut(s, 0) /\ UNCHANGED open
      BY <2>8, RetiredTask DEF Retire
    <3> QED
      BY <3>1, CallsSame
  <2>9. CASE Push(s)
    <3>1. CallsBut(s, 0) /\ UNCHANGED open
      BY <2>9, PushedMore, PushedLast DEF Push
    <3> QED
      BY <3>1, CallsSame
  <2> QED
    BY <1>3, <2>1, <2>2, <2>3, <2>4, <2>5, <2>6, <2>7, <2>8, <2>9, SlotStep
<1> QED
  BY <1>1, <1>2, <1>3 DEF Next, AllCallsMade

(* The outer call. *)
LEMMA OuterStep ==
  ASSUME TypeInv, StackInv, OuterInv, [Next]_vars
  PROVE  OuterInv'
<1>1. CASE OuterCall
  <2>1. /\ outer' = used + 1 /\ used + 1 \in Calls /\ outer' \in open'
        /\ UNCHANGED stack /\ outer = 0 /\ job' = Slots
    BY <1>1 DEF OuterCall
  <2>2. outer' # 0
    BY <2>1, CallsAre
  <2> QED
    BY <2>1, <2>2 DEF OuterInv
<1>2. CASE Return
  BY <1>2 DEF Return, OuterInv
<1>3. CASE Stop \/ UNCHANGED vars
  BY <1>3 DEF Stop, vars, OuterInv
<1>4. ASSUME NEW s \in Slots, Slot(s) PROVE OuterInv'
  <2>1. CASE Begin(s)
    <3>1. /\ outer # 0 /\ OnlyStack(s) /\ UNCHANGED <<outer, open>>
          /\ job' = job \ {s}
      BY <2>1, BeginStack, CallsAre DEF Begin
    <3> QED
      BY <3>1 DEF OuterInv, OnlyStack, TypeInv
  <2>2. CASE ~Begin(s)
    <3>1. /\ (\E q \in CallPlaces \union TaskPlaces : At(s, q))
          /\ UNCHANGED <<outer, job>> /\ OnlyStack(s)
      <4>1. CASE LookOn(s)
        <5>1. "drain" \in Draining /\ Draining \subseteq CallPlaces
          BY DEF CallPlaces, Draining
        <5> QED
          BY <4>1, <5>1, QuietMove, MoveStack
      <4>2. CASE TaskStep(s)
        BY <4>2, TaskMove, MoveStack
      <4>3. CASE BodyFork(s)
        <5>1. At(s, "body") /\ UNCHANGED <<outer, job>> /\ "body" \in TaskPlaces
          BY <4>3, Apart DEF BodyFork
        <5> QED
          BY <4>3, <5>1, ForkStack
      <4>4. ASSUME NEW v \in Slots, (PopOwn(s) /\ v = s) \/ Steal(s, v)
            PROVE  /\ (\E q \in CallPlaces \union TaskPlaces : At(s, q))
                   /\ UNCHANGED <<outer, job>> /\ OnlyStack(s)
        <5>1. PICK i \in 1 .. Len(deque[v]), h \in {"own", "peer"}, q \in {"pop", "steal"} :
                 /\ At(s, q) /\ deque[v][i] \in Tasks
                 /\ Above(s, TaskFrame("gate", deque[v][i], h))
          BY <4>4, TookTask
        <5>2. OnlyStack(s) /\ q \in CallPlaces
          BY <5>1, TakeStack, Apart
        <5> QED
          BY <4>4, <5>1, <5>2 DEF PopOwn, Steal
      <4>5. CASE ShareDone(s)
        <5>1. At(s, "drain") /\ UNCHANGED <<outer, job>> /\ "drain" \in CallPlaces
          BY <4>5, Apart DEF ShareDone
        <5> QED
          BY <4>5, <5>1, ShareStack
      <4>6. CASE JoinDone(s)
        <5>1. At(s, "drain") /\ UNCHANGED <<outer, job>> /\ "drain" \in CallPlaces
          BY <4>6, Apart DEF JoinDone
        <5> QED
          BY <4>6, <5>1, JoinedStack
      <4>7. CASE Retire(s)
        <5>1. At(s, "retire") \/ At(s, "skipped")
          BY <4>7 DEF Retire
        <5>2. UNCHANGED <<outer, job>> /\ {"retire", "skipped"} \subseteq TaskPlaces
          BY <4>7, Apart DEF Retire
        <5> QED
          BY <4>7, <5>1, <5>2, RetiredStack
      <4>8. CASE Push(s)
        <5>1. At(s, "push") /\ UNCHANGED <<outer, job>> /\ "push" \in CallPlaces
          BY <4>8, Apart DEF Push
        <5> QED
          BY <4>8, <5>1, PushedMore, PushedLast
      <4> QED
        BY <1>4, <2>2, <4>1, <4>2, <4>3, <4>4, <4>5, <4>6, <4>7, <4>8,
           SlotStep
    <3>2. outer # 0 /\ s \notin job
      BY <3>1, Working
    <3>3. outer' \in open'
      <4>1. outer \in open /\ outer' = outer
        BY <3>1, <3>2 DEF OuterInv
      <4>2. open' = open \/ open \subseteq open' \/ (JoinDone(s) /\ open' = open \ {TopCall(s)})
        BY <1>4 DEF Slot, Begin, Look, PopOwn, PopNone, StealNone, ShareDone,
           JoinDone, Close, Gate, BodyEnd, BodyThrow, BodyFork, Push, Capture,
           Flag, Retire, Steal
      <4>3. JoinDone(s) => TopCall(s) # outer
        BY DEF JoinDone
      <4> QED
        BY <4>1, <4>2, <4>3
    <3> QED
      BY <3>1, <3>2, <3>3 DEF OuterInv, OnlyStack, TypeInv
  <2> QED
    BY <2>1, <2>2
<1> QED
  BY <1>1, <1>2, <1>3, <1>4 DEF Next, AllCallsMade

-----------------------------------------------------------------------------
(***************************************************************************)
(* Steps that bring no task, and the end of a call.                        *)
(***************************************************************************)
(* Steps after which no task is where it was not before, and no call       *)
(* spreads its tasks that did not.                                         *)
TaskWas(u, k) ==
  TaskAt(u, k)' => /\ TaskAt(u, k) /\ stack'[u][k].task = stack[u][k].task
                   /\ stack'[u][k].how = stack[u][k].how
PushAt(u, k) == CallAt(u, k) /\ stack[u][k].at = "push"
PushWas(u, k) ==
  PushAt(u, k)' => /\ PushAt(u, k) /\ stack'[u][k].call = stack[u][k].call
                   /\ stack'[u][k].own = stack[u][k].own

(* A step after which no task stands where none stood.                     *)
LEMMA TasksWere ==
  ASSUME NEW s \in Slots, NEW m \in Nat, TasksBut(s, m),
         \A k \in Nat : k = m => ~TaskAt(s, k)'
  PROVE  \A u \in Slots, k \in Nat : TaskWas(u, k)
BY DEF TasksBut, TaskSame, TaskWas

(* A step after which no call spreads that did not.                        *)
LEMMA PushesWere ==
  ASSUME NEW s \in Slots, \A u \in Slots, k \in Nat : CallWas(u, k),
         OwnsBut(s, 0)
  PROVE  \A u \in Slots, k \in Nat : PushWas(u, k)
<1> SUFFICES ASSUME NEW u \in Slots, NEW k \in Nat, PushAt(u, k)'
             PROVE  PushWas(u, k)
  BY DEF PushWas
<1>1. CallAt(u, k)'
  BY DEF PushAt
<1>2. CallAt(u, k) /\ stack'[u][k].call = stack[u][k].call
  BY <1>1 DEF CallWas
<1>3. ~(u = s /\ k = 0)
  BY <1>1, NoFrame0
<1>4. OwnSame(u, k)
  BY <1>3 DEF OwnsBut
<1> QED
  BY <1>1, <1>2, <1>4 DEF PushAt, PushWas, OwnSame

Plain(s) == \/ LookOn(s) \/ TaskStep(s) \/ Begin(s) \/ ShareDone(s)
            \/ JoinDone(s) \/ Retire(s)

(* A drain or a task that moves on brings no call and no task.             *)
LEMMA QuietShape ==
  ASSUME TypeInv, NEW s \in Slots, LookOn(s) \/ TaskStep(s)
  PROVE  /\ CallsBut(s, 0) /\ OwnsBut(s, 0) /\ TasksBut(s, 0)
         /\ UNCHANGED <<deque, used, outer, job, open, pending, token, stopped, outcome>>
<1>1. CASE LookOn(s)
  BY <1>1, QuietMove, MovedCall DEF stateVars
<1>2. CASE TaskStep(s)
  BY <1>2, TaskMove, MovedTask
<1> QED
  BY <1>1, <1>2

(* Nor does a share that begins, but for the outer call's frame.           *)
LEMMA BeginShape ==
  ASSUME TypeInv, OuterInv, NEW s \in Slots, Begin(s)
  PROVE  /\ CallsBut(s, 1) /\ OwnsBut(s, 0) /\ TasksBut(s, 0) /\ PlacesBut(s, 0)
         /\ CallAt(s, 1)' /\ ~CallAt(s, 1)
         /\ stack'[s][1].at = "drain" /\ stack'[s][1].call = outer
         /\ stack'[s][1].own = 0
         /\ \A k \in Nat : k > 1 => ~CallAt(s, k)'
<1>1. /\ Len(stack[s]) = 0 /\ Len(stack'[s]) = 1
      /\ stack'[s][1].at = "drain" /\ stack'[s][1].call = outer
      /\ stack'[s][1].own = 0
  BY BeginStack
<1>2. Len(stack[s]) + 1 = 1 /\ 1 \in 1 .. 1 /\ ~(1 \in 1 .. 0)
  BY <1>1
<1>3. /\ CallsBut(s, Len(stack[s]) + 1) /\ OwnsBut(s, 0) /\ TasksBut(s, 0)
      /\ PlacesBut(s, 0)
  BY BeginStack, EnteredCall, Apart
<1>4. CallAt(s, 1)'
  BY <1>1, <1>2, Apart DEF CallAt
<1>5. ~CallAt(s, 1)
  BY <1>1, <1>2 DEF CallAt
<1>6. \A k \in Nat : k > 1 => ~CallAt(s, k)'
  BY <1>1 DEF CallAt
<1> QED
  BY <1>1, <1>2, <1>3, <1>4, <1>5, <1>6

(* Steps that bring no task and leave the deques alone.                    *)
LEMMA PlainStep ==
  ASSUME TypeInv, StackInv, OuterInv, NEW s \in Slots, Plain(s)
  PROVE  /\ UNCHANGED <<deque, outer, used>>
         /\ \A u \in Slots, k \in Nat : TaskWas(u, k)
         /\ ~(Retire(s) /\ stack[s][Len(stack[s])].how = "own") =>
               \A u \in Slots, k \in Nat : PushWas(u, k)
<1>1. CASE LookOn(s) \/ TaskStep(s)
  <2>1. CallsBut(s, 0) /\ OwnsBut(s, 0) /\ TasksBut(s, 0)
        /\ UNCHANGED <<deque, outer, used>>
    BY <1>1, QuietShape
  <2>2. \A u \in Slots, k \in Nat : CallWas(u, k)
    BY <2>1, CallsWere, NoFrame0
  <2> QED
    BY <2>1, <2>2, TasksWere, PushesWere, NoFrame0
<1>2. CASE Begin(s)
  <2>1. /\ CallsBut(s, 1) /\ OwnsBut(s, 0) /\ TasksBut(s, 0)
        /\ stack'[s][1].at = "drain"
        /\ UNCHANGED <<deque, outer, used>>
    BY <1>2, BeginShape DEF Begin
  <2>2. ASSUME NEW u \in Slots, NEW k \in Nat PROVE PushWas(u, k)
    <3> SUFFICES ASSUME PushAt(u, k)' PROVE PushWas(u, k)
      BY DEF PushWas
    <3>1. CallAt(u, k)' /\ ~(u = s /\ k = 1)
      BY <2>1 DEF PushAt
    <3>2. CallAt(u, k) /\ stack'[u][k].call = stack[u][k].call
      BY <2>1, <3>1 DEF CallsBut, CallSame
    <3>3. ~(u = s /\ k = 0)
      BY <3>1, NoFrame0
    <3>4. OwnSame(u, k)
      BY <2>1, <3>3 DEF OwnsBut
    <3> QED
      BY <3>1, <3>2, <3>4 DEF PushAt, PushWas, OwnSame
  <2> QED
    BY <2>1, <2>2, TasksWere, NoFrame0
<1>3. CASE ShareDone(s)
  <2>1. /\ OwnsBut(s, 0) /\ CallsBut(s, Len(stack[s])) /\ TasksBut(s, 0)
        /\ Len(stack[s]) \in Nat
        /\ \A k \in Nat : k = Len(stack[s]) => ~CallAt(s, k)'
        /\ UNCHANGED <<deque, outer, used>>
    BY <1>3, ShareStack, LeftTop, Apart DEF ShareDone
  <2>2. \A u \in Slots, k \in Nat : CallWas(u, k)
    BY <2>1, CallsWere
  <2> QED
    BY <2>1, <2>2, TasksWere, PushesWere, NoFrame0
<1>4. CASE JoinDone(s)
  <2>1. /\ OwnsBut(s, 0) /\ CallsBut(s, Len(stack[s])) /\ TasksBut(s, 0)
        /\ Len(stack[s]) \in Nat
        /\ \A k \in Nat : k = Len(stack[s]) => ~CallAt(s, k)'
        /\ UNCHANGED <<deque, outer, used>>
    BY <1>4, JoinedCall, Heights DEF JoinDone
  <2>2. \A u \in Slots, k \in Nat : CallWas(u, k)
    BY <2>1, CallsWere
  <2> QED
    BY <2>1, <2>2, TasksWere, PushesWere, NoFrame0
<1>5. CASE Retire(s)
  <2>1. /\ CallsBut(s, 0) /\ TasksBut(s, Len(stack[s])) /\ Len(stack[s]) \in Nat
        /\ stack[s][Len(stack[s])].how # "own" => OwnsBut(s, 0)
        /\ \A k \in Nat : k = Len(stack[s]) => ~TaskAt(s, k)'
        /\ UNCHANGED <<deque, outer, used>>
    BY <1>5, RetiredTask, Heights DEF Retire
  <2>2. \A u \in Slots, k \in Nat : CallWas(u, k)
    BY <2>1, CallsWere, NoFrame0
  <2>3. \A u \in Slots, k \in Nat : TaskWas(u, k)
    BY <2>1, TasksWere
  <2> QED
    BY <1>5, <2>1, <2>2, <2>3, PushesWere
<1> QED
  BY <1>1, <1>2, <1>3, <1>4, <1>5 DEF Plain

(* A retired own task counts on a frame that drains. *)
LEMMA RetirePushes ==
  ASSUME TypeInv, StackInv, OuterInv, NEW s \in Slots, Plain(s)
  PROVE  \A u \in Slots, k \in Nat : PushWas(u, k)
<1>1. CASE ~(Retire(s) /\ stack[s][Len(stack[s])].how = "own")
  BY <1>1, PlainStep
<1>2. CASE Retire(s)
  <2> SUFFICES ASSUME NEW u \in Slots, NEW k \in Nat, PushAt(u, k)'
               PROVE  PushWas(u, k)
    BY DEF PushWas
  <2>1. CallAt(u, k)'
    BY DEF PushAt
  <2>2. /\ CallsBut(s, 0) /\ OwnsBut(s, Len(stack[s]) - 1)
        /\ stack'[s][Len(stack[s]) - 1].at = "drain"
    BY <1>2, RetiredTask, RetiredStack
  <2>3. ~(u = s /\ k = 0)
    BY <2>1, NoFrame0
  <2>4. CallAt(u, k) /\ stack'[u][k].call = stack[u][k].call
    BY <2>1, <2>2, <2>3 DEF CallsBut, CallSame
  <2>5. ~(u = s /\ k = Len(stack[s]) - 1)
    BY <2>2 DEF PushAt
  <2>6. OwnSame(u, k)
    BY <2>2, <2>5 DEF OwnsBut
  <2> QED
    BY <2>1, <2>4, <2>6 DEF PushAt, PushWas, OwnSame
<1> QED
  BY <1>1, <1>2

(* The tasks of a call that count are few. *)
LEMMA LiveIs ==
  ASSUME NEW c \in Calls
  PROVE  /\ IsFiniteSet(Live(c)) /\ Cardinality(Live(c)) \in Nat
         /\ Cardinality(Live(c)) = 0 <=> Live(c) = {}
<1> DEFINE A == {<<c, 1>>, <<c, 2>>, <<c, 3>>}
<1>1. ASSUME NEW t \in Live(c) PROVE t \in A
  <2>1. t \in Tasks /\ CallOf(t) = c
    BY DEF Live
  <2>2. t[2] \in 1 .. Fanout(c) /\ t = <<c, t[2]>>
    BY <2>1, TasksAre
  <2>3. t[2] \in {1, 2, 3}
    BY <2>2, CallsAre
  <2> QED
    BY <2>2, <2>3
<1>2. IsFiniteSet(A)
  <2>1. IsFiniteSet({})
    BY FS_EmptySet
  <2>2. IsFiniteSet({} \union {<<c, 1>>})
    BY <2>1, FS_AddElement
  <2>3. IsFiniteSet(({} \union {<<c, 1>>}) \union {<<c, 2>>})
    BY <2>2, FS_AddElement
  <2>4. IsFiniteSet((({} \union {<<c, 1>>}) \union {<<c, 2>>}) \union {<<c, 3>>})
    BY <2>3, FS_AddElement
  <2>5. A = (({} \union {<<c, 1>>}) \union {<<c, 2>>}) \union {<<c, 3>>}
    OBVIOUS
  <2> QED
    BY <2>4, <2>5
<1>3. IsFiniteSet(Live(c))
  BY <1>1, <1>2, FS_Subset
<1> QED
  BY <1>3, FS_CardinalityType, FS_EmptySet

(* A join that returns leaves no task of its call behind. *)
LEMMA NoneLeft ==
  ASSUME TypeInv, StackInv, CallsInv, CountInv, NEW s \in Slots, JoinDone(s)
  PROVE  LET c == stack[s][Len(stack[s])].call
         IN  /\ Live(c) = {}
             /\ \A u \in Slots : \A j \in 1 .. Len(deque[u]) : CallOf(deque[u][j]) # c
             /\ \A u \in Slots, k \in Nat :
                  TaskAt(u, k) => CallOf(stack[u][k].task) # c
<1> DEFINE n == Len(stack[s])
           c == stack[s][n].call
<1>1. /\ n \in Nat /\ n > 1 /\ stack[s][n].at = "drain" /\ c \in Calls
      /\ c = TopCall(s)
  BY JoinedStack
<1>2. CallAt(s, n)
  BY <1>1, Apart DEF CallAt
<1>3. Effective(stack[s][n]) <= 0
  <2>1. Last(stack[s]) = stack[s][n]
    BY Topmost DEF JoinDone
  <2> QED
    BY <2>1 DEF JoinDone
<1>4. Due(stack[s][n]) = Cardinality(Live(c)) /\ Due(stack[s][n]) <= 0
  <2>1. Due(stack[s][n]) = Cardinality(Live(c))
    BY <1>1, <1>2 DEF CountInv
  <2>2. Due(stack[s][n]) = Effective(stack[s][n])
    BY <1>1 DEF Due, Effective
  <2> QED
    BY <1>3, <2>1, <2>2
<1>5. Live(c) = {}
  <2>1. Cardinality(Live(c)) \in Nat /\ Cardinality(Live(c)) <= 0
    BY <1>1, <1>4, LiveIs
  <2>2. Cardinality(Live(c)) = 0
    BY <2>1
  <2> QED
    BY <1>1, <2>2, LiveIs
<1>6. ASSUME NEW u \in Slots, NEW j \in 1 .. Len(deque[u]), CallOf(deque[u][j]) = c
      PROVE  FALSE
  <2>1. deque[u][j] \in Tasks
    BY Heights
  <2>2. deque[u][j] \in Live(c)
    BY <1>6, <2>1 DEF Live, OfferedAt
  <2> QED
    BY <1>5, <2>2
<1>7. ASSUME NEW u \in Slots, NEW k \in Nat, TaskAt(u, k),
             CallOf(stack[u][k].task) = c
      PROVE  FALSE
  <2>1. stack[u][k] \in FrameType /\ k \in 1 .. Len(stack[u])
    BY <1>7, Heights DEF TaskAt
  <2>2. stack[u][k].task \in Tasks
    BY <1>7, <2>1, FrameIs DEF TaskAt
  <2>3. stack[u][k].how = "tail"
    <3> SUFFICES ASSUME stack[u][k].how # "tail" PROVE FALSE
      OBVIOUS
    <3>1. stack[u][k].task \in Live(c)
      BY <1>7, <2>2 DEF Live, CountedAt
    <3> QED
      BY <1>5, <3>1
  <2>4. OnTopAt(u, k)
    BY <2>1 DEF StackInv
  <2>5. /\ k > 1 /\ stack[u][k - 1].at = "tail"
        /\ stack[u][k].task = <<stack[u][k - 1].call, Fanout(stack[u][k - 1].call)>>
    BY <1>7, <2>3, <2>4 DEF OnTopAt
  <2>6. k - 1 \in Nat /\ CallAt(u, k - 1)
    <3>1. k - 1 \in 1 .. Len(stack[u]) /\ k - 1 \in Nat
      BY <2>1, <2>5, Heights
    <3> QED
      BY <2>5, <3>1, Apart DEF CallAt
  <2>7. stack[u][k - 1].call = c
    BY <1>7, <2>5 DEF CallOf
  <2>8. u = s /\ k - 1 = n
    BY <1>1, <1>2, <2>6, <2>7, CallOnce
  <2>9. stack[s][n].at = "tail"
    BY <2>5, <2>8
  <2> QED
    BY <1>1, <2>9
<1> QED
  BY <1>5, <1>6, <1>7

(* Empty stacks have no frame.                                             *)
LEMMA NoFrames ==
  ASSUME \A s \in Slots : stack[s] = <<>>
  PROVE  \A u \in Slots, k \in Nat : ~CallAt(u, k) /\ ~TaskAt(u, k)
<1> SUFFICES ASSUME NEW u \in Slots, NEW k \in Nat PROVE ~CallAt(u, k) /\ ~TaskAt(u, k)
  OBVIOUS
<1>1. Len(stack[u]) = 0
  OBVIOUS
<1>2. k \notin 1 .. 0
  OBVIOUS
<1> QED
  BY <1>1, <1>2 DEF CallAt, TaskAt

(* Between outer calls nothing is offered, and none is when one returns.   *)
LEMMA NothingOffered ==
  ASSUME TypeInv, OuterInv, DequeInv, CountInv, outer = 0 \/ Return
  PROVE  /\ \A s \in Slots : stack[s] = <<>> /\ deque[s] = <<>>
         /\ \A u \in Slots, k \in Nat : ~CallAt(u, k) /\ ~TaskAt(u, k)
<1>1. \A s \in Slots : stack[s] = <<>>
  BY DEF OuterInv, Return
<1>2. \A u \in Slots, k \in Nat : ~CallAt(u, k) /\ ~TaskAt(u, k)
  BY <1>1, NoFrames
<1>3. ASSUME NEW s \in Slots, NEW j \in 1 .. Len(deque[s]) PROVE FALSE
  <2>1. deque[s][j] \in Tasks
    BY Heights
  <2>2. HomeAt(s, CallOf(deque[s][j]))
    BY DEF DequeInv
  <2>3. CallOf(deque[s][j]) = outer
    <3>1. 2 .. Len(stack[s]) \subseteq Nat
      OBVIOUS
    <3> QED
      BY <1>2, <2>2, <3>1 DEF HomeAt
  <2>4. outer # 0
    BY <2>1, <2>3, TasksAre, CallsAre
  <2>5. Live(outer) = {}
    <3>1. job = {} /\ 0 \in Slots
      BY <2>4, ForkJoinAssumption DEF Return, ForkJoinAssumption
    <3> QED
      BY <1>1, <2>4, <3>1 DEF CountInv
  <2>6. deque[s][j] \in Live(outer)
    BY <2>1, <2>3 DEF Live, OfferedAt
  <2> QED
    BY <2>5, <2>6
<1>4. ASSUME NEW s \in Slots PROVE deque[s] = <<>>
  <2>1. Len(deque[s]) \in Nat /\ (deque[s] = <<>> <=> Len(deque[s]) = 0)
    BY Heights
  <2>2. 1 \notin 1 .. Len(deque[s])
    BY <1>3
  <2>3. \A m \in Nat : 1 \notin 1 .. m => m = 0
    OBVIOUS
  <2> QED
    BY <2>1, <2>2, <2>3
<1> QED
  BY <1>1, <1>2, <1>4

-----------------------------------------------------------------------------
(***************************************************************************)
(* The deques: DequeInv.                                                   *)
(***************************************************************************)
(* Where an offered task was before one was taken. *)
Was(u, v, d, j) == IF u = v THEN j + d ELSE j

(* What is offered after a take was offered before, at a known place.      *)
LEMMA OfferedWas ==
  ASSUME TypeInv, NEW v \in Slots, NEW i, NEW d, TakesFrom(v, i, d), DequeType,
         NEW u \in Slots, NEW j \in 1 .. Len(deque'[u])
  PROVE  /\ Was(u, v, d, j) \in 1 .. Len(deque[u])
         /\ deque'[u][j] = deque[u][Was(u, v, d, j)]
         /\ ~(u = v /\ Was(u, v, d, j) = i)
<1>1. CASE u = v
  <2>1. Len(deque'[v]) = Len(deque[v]) - 1
    BY DEF TakesFrom
  <2>2. j \in 1 .. Len(deque[v]) - 1
    BY <1>1, <2>1
  <2> QED
    BY <1>1, <2>2 DEF TakesFrom, Was
<1>2. CASE u # v
  <2>1. deque'[u] = deque[u]
    BY <1>2 DEF TakesFrom, OnlyDeque
  <2> QED
    BY <1>2, <2>1 DEF Was
<1> QED
  BY <1>1, <1>2

(* What is offered before a take is still, unless it is what was taken.    *)
LEMMA OfferedStill ==
  ASSUME TypeInv, NEW v \in Slots, NEW i, NEW d, TakesFrom(v, i, d),
         NEW u \in Slots, NEW j \in 1 .. Len(deque[u]), ~(u = v /\ j = i)
  PROVE  \E l \in 1 .. Len(deque'[u]) : deque'[u][l] = deque[u][j]
<1>1. CASE u = v
  <2>1. /\ j - d \in 1 .. Len(deque[v]) - 1
        /\ deque'[v][j - d] = deque[v][j - d + d]
        /\ Len(deque'[v]) = Len(deque[v]) - 1
        /\ d \in {0, 1}
    BY <1>1 DEF TakesFrom
  <2>2. j - d + d = j
    BY <2>1
  <2> QED
    BY <1>1, <2>1, <2>2
<1>2. CASE u # v
  BY <1>2 DEF TakesFrom, OnlyDeque
<1> QED
  BY <1>1, <1>2

(* What is offered, and where. *)
HomeNext(u, c) ==
  c = outer' \/ \E k \in 2 .. Len(stack'[u]) : CallAt(u, k)' /\ stack'[u][k].call = c
LineNext(u, i, j) == i <= j => CallOf(deque'[u][i]) <= CallOf(deque'[u][j])

(* DequeInv of the next state.                                             *)
LEMMA DequeNext ==
  ASSUME \A u \in Slots : \A j \in 1 .. Len(deque'[u]) :
           /\ CallOf(deque'[u][j]) \in open'
           /\ HomeNext(u, CallOf(deque'[u][j]))
           /\ \A i \in 1 .. Len(deque'[u]) : LineNext(u, i, j)
  PROVE  DequeInv'
BY DEF DequeInv, HomeAt, LineAt, HomeNext, LineNext, CallAt

(* A call stays at home while its frame does.                              *)
LEMMA HomeKept ==
  ASSUME UNCHANGED outer, NEW u \in Slots, NEW c, HomeAt(u, c),
         \A k \in Nat : k >= 2 /\ CallAt(u, k) /\ stack[u][k].call = c =>
                          CallAt(u, k)' /\ stack'[u][k].call = c
  PROVE  HomeNext(u, c)
<1>1. CASE c = outer
  BY <1>1 DEF HomeNext
<1>2. CASE c # outer
  <2>1. PICK k \in 2 .. Len(stack[u]) : CallAt(u, k) /\ stack[u][k].call = c
    BY <1>2 DEF HomeAt
  <2>2. k \in Nat /\ k >= 2
    BY <2>1
  <2>3. CallAt(u, k)' /\ stack'[u][k].call = c
    BY <2>1, <2>2
  <2>4. k \in 2 .. Len(stack'[u])
    BY <2>2, <2>3 DEF CallAt
  <2> QED
    BY <2>3, <2>4 DEF HomeNext
<1> QED
  BY <1>1, <1>2

(* So it does on every stack but for the frame a step changes.             *)
LEMMA HomesKept ==
  ASSUME UNCHANGED outer, NEW s \in Slots, NEW m \in Nat, CallsBut(s, m),
         m <= 1 \/ ~CallAt(s, m), NEW u \in Slots, NEW c, HomeAt(u, c)
  PROVE  HomeNext(u, c)
<1>1. ASSUME NEW k \in Nat, k >= 2, CallAt(u, k), stack[u][k].call = c
      PROVE  CallAt(u, k)' /\ stack'[u][k].call = c
  <2>1. ~(u = s /\ k = m)
    BY <1>1
  <2> QED
    BY <1>1, <2>1 DEF CallsBut, CallSame
<1> QED
  BY <1>1, HomeKept

(* Steps that leave the deques alone.                                      *)
LEMMA DequeKept ==
  ASSUME DequeInv, UNCHANGED deque,
         \A u \in Slots : \A j \in 1 .. Len(deque[u]) :
           /\ HomeAt(u, CallOf(deque[u][j])) => HomeNext(u, CallOf(deque[u][j]))
           /\ CallOf(deque[u][j]) \in open'
  PROVE  DequeInv'
<1>1. ASSUME NEW u \in Slots, NEW j \in 1 .. Len(deque'[u])
      PROVE  /\ CallOf(deque'[u][j]) \in open'
             /\ HomeNext(u, CallOf(deque'[u][j]))
             /\ \A i \in 1 .. Len(deque'[u]) : LineNext(u, i, j)
  <2>1. j \in 1 .. Len(deque[u])
    OBVIOUS
  <2>2. HomeAt(u, CallOf(deque[u][j])) /\ \A i \in 1 .. Len(deque[u]) : LineAt(u, i, j)
    BY <2>1 DEF DequeInv
  <2>3. HomeNext(u, CallOf(deque[u][j])) /\ CallOf(deque[u][j]) \in open'
    BY <2>1, <2>2
  <2> QED
    BY <2>2, <2>3 DEF LineAt, LineNext
<1> QED
  BY <1>1, DequeNext

(* A task that is taken leaves its deque in order.                         *)
LEMMA DequeTake ==
  ASSUME TypeInv, DequeInv, NEW v \in Slots, NEW i, NEW d, TakesFrom(v, i, d),
         DequeType, UNCHANGED <<outer, open>>, NEW s \in Slots, CallsBut(s, 0)
  PROVE  DequeInv'
<1>1. ASSUME NEW u \in Slots, NEW j \in 1 .. Len(deque'[u])
      PROVE  /\ CallOf(deque'[u][j]) \in open'
             /\ HomeNext(u, CallOf(deque'[u][j]))
             /\ \A l \in 1 .. Len(deque'[u]) : LineNext(u, l, j)
  <2> DEFINE w == Was(u, v, d, j)
  <2>1. w \in 1 .. Len(deque[u]) /\ deque'[u][j] = deque[u][w]
    BY OfferedWas
  <2>2. /\ CallOf(deque[u][w]) \in open /\ HomeAt(u, CallOf(deque[u][w]))
        /\ \A l \in 1 .. Len(deque[u]) : LineAt(u, l, w)
    BY <2>1 DEF DequeInv
  <2>3. ASSUME NEW c, HomeAt(u, c) PROVE HomeNext(u, c)
    BY <2>3, HomesKept
  <2>4. HomeNext(u, CallOf(deque'[u][j]))
    <3>1. HomeNext(u, CallOf(deque[u][w]))
      BY <2>2, <2>3
    <3> QED
      BY <2>1, <3>1
  <2>5. ASSUME NEW l \in 1 .. Len(deque'[u]) PROVE LineNext(u, l, j)
    <3> DEFINE x == Was(u, v, d, l)
    <3>1. x \in 1 .. Len(deque[u]) /\ deque'[u][l] = deque[u][x]
      BY OfferedWas
    <3>2. l <= j => x <= w
      BY DEF Was, TakesFrom
    <3>3. LineAt(u, x, w)
      BY <2>2, <3>1
    <3> QED
      BY <2>1, <3>1, <3>2, <3>3 DEF LineAt, LineNext
  <2> QED
    BY <2>1, <2>2, <2>4, <2>5
<1> QED
  BY <1>1, DequeNext

(* So does one that is pushed: the call on top is the youngest there.      *)
LEMMA DequePush ==
  ASSUME TypeInv, StackInv, CallsInv, DequeInv, NEW s \in Slots, Push(s)
  PROVE  DequeInv'
<1> DEFINE n == Len(stack[s])
           c == stack[s][n].call
           m == Len(deque[s])
<1>1. /\ n \in Nat /\ n > 1 /\ stack[s][n].at = "push" /\ c \in Calls
      /\ UNCHANGED <<outer, open>> /\ c # outer
  BY PushingCall DEF Push
<1>2. CallsBut(s, 0)
  BY PushedMore, PushedLast
<1>3. PICK t \in Tasks : /\ t = <<c, stack[s][n].own + 1>>
                         /\ deque' = [deque EXCEPT ![s] = Append(@, t)]
  BY PushType
<1>4. CallOf(t) = c
  BY <1>3 DEF CallOf
<1>5. /\ OnlyDeque(s) /\ Len(deque'[s]) = m + 1 /\ deque'[s][m + 1] = t
      /\ \A j \in 1 .. m : deque'[s][j] = deque[s][j]
  BY <1>3, DequePushed
<1>6. m \in Nat
  BY Heights
<1>7. CallAt(s, n)
  BY <1>1, Apart DEF CallAt
<1>8. c \in open
  BY <1>1, <1>7, CallFacts
<1>9. HomeNext(s, c)
  <2>1. HomeAt(s, c)
    <3>1. n \in 2 .. Len(stack[s])
      BY <1>1
    <3> QED
      BY <1>7, <3>1 DEF HomeAt
  <2> HIDE DEF c
  <2> QED
    BY <1>1, <1>2, <2>1, HomesKept
<1>10. ASSUME NEW x, HomeAt(s, x) PROVE x <= c
  <2>1. CASE x = outer
    <3>1. 1 \in 1 .. Len(stack[s])
      BY <1>1
    <3>2. BottomAt(s, 1)
      BY <3>1 DEF StackInv
    <3>3. stack[s][1].call = outer /\ CallAt(s, 1)
      BY <3>1, <3>2 DEF BottomAt, CallAt, CallPlaces
    <3>4. stack[s][1].call < c
      BY <1>1, <1>7, <3>3 DEF CallsInv, YoungerAt
    <3>5. outer \in Nat /\ c \in Nat
      BY <1>1, CallsAre DEF TypeInv
    <3> QED
      BY <2>1, <3>3, <3>4, <3>5
  <2>2. ASSUME NEW k \in 2 .. Len(stack[s]), CallAt(s, k), stack[s][k].call = x
        PROVE  x <= c
    <3>1. k \in Nat /\ k <= n
      BY <1>1
    <3>2. x \in Nat /\ c \in Nat
      BY <1>1, <2>2, <3>1, CallFacts, CallsAre
    <3>3. k < n => x < c
      BY <1>1, <1>7, <2>2, <3>1 DEF CallsInv, YoungerAt
    <3>4. k = n => x = c
      BY <2>2
    <3> QED
      BY <1>1, <3>1, <3>2, <3>3, <3>4
  <2> QED
    BY <1>10, <2>1, <2>2 DEF HomeAt
<1> HIDE DEF m, c, n
<1>11. ASSUME NEW u \in Slots, NEW j \in 1 .. Len(deque'[u])
       PROVE  /\ CallOf(deque'[u][j]) \in open'
              /\ HomeNext(u, CallOf(deque'[u][j]))
              /\ \A l \in 1 .. Len(deque'[u]) : LineNext(u, l, j)
  <2>1. CASE u = s /\ j = m + 1
    <3>1. deque'[u][j] = t
      BY <1>5, <2>1
    <3>2. CallOf(deque'[u][j]) = c
      BY <1>4, <3>1
    <3>3. HomeNext(u, CallOf(deque'[u][j]))
      BY <1>9, <2>1, <3>2
    <3>4. ASSUME NEW l \in 1 .. Len(deque'[u]) PROVE LineNext(u, l, j)
      <4>1. CASE l = m + 1
        <5>1. CallOf(deque'[u][l]) = c /\ c \in Nat
          BY <1>1, <2>1, <3>2, <4>1, CallsAre
        <5> QED
          BY <3>2, <5>1 DEF LineAt, LineNext
      <4>2. CASE l # m + 1
        <5>1. l \in 1 .. m
          BY <1>5, <1>6, <2>1, <4>2
        <5>2. deque'[u][l] = deque[s][l] /\ HomeAt(s, CallOf(deque[s][l]))
          BY <1>5, <2>1, <5>1 DEF DequeInv, m
        <5>3. CallOf(deque[s][l]) <= c
          BY <1>10, <5>2
        <5> QED
          BY <3>2, <5>2, <5>3 DEF LineAt, LineNext
      <4> QED
        BY <4>1, <4>2
    <3> QED
      BY <1>1, <1>8, <3>2, <3>3, <3>4
  <2>2. CASE ~(u = s /\ j = m + 1)
    <3>1. j \in 1 .. Len(deque[u]) /\ deque'[u][j] = deque[u][j]
      <4>1. CASE u = s
        <5>1. j \in 1 .. m
          BY <1>5, <1>6, <2>2, <4>1
        <5> QED
          BY <1>5, <4>1, <5>1 DEF m
      <4>2. CASE u # s
        BY <1>5, <4>2 DEF OnlyDeque
      <4> QED
        BY <4>1, <4>2
    <3>2. /\ CallOf(deque[u][j]) \in open /\ HomeAt(u, CallOf(deque[u][j]))
          /\ \A l \in 1 .. Len(deque[u]) : LineAt(u, l, j)
      BY <3>1 DEF DequeInv
    <3>3. HomeNext(u, CallOf(deque'[u][j]))
      <4>1. ASSUME NEW x, HomeAt(u, x) PROVE HomeNext(u, x)
        BY <1>1, <1>2, <4>1, HomesKept
      <4>2. HomeNext(u, CallOf(deque[u][j]))
        BY <3>2, <4>1
      <4> QED
        BY <3>1, <4>2
    <3>4. ASSUME NEW l \in 1 .. Len(deque'[u]) PROVE LineNext(u, l, j)
      <4>1. CASE u = s /\ l = m + 1
        <5>1. ~(l <= j)
          BY <1>6, <2>2, <3>1, <4>1 DEF m
        <5> QED
          BY <5>1 DEF LineAt, LineNext
      <4>2. CASE ~(u = s /\ l = m + 1)
        <5>1. l \in 1 .. Len(deque[u]) /\ deque'[u][l] = deque[u][l]
          <6>1. CASE u = s
            <7>1. l \in 1 .. m
              BY <1>5, <1>6, <4>2, <6>1
            <7> QED
              BY <1>5, <6>1, <7>1 DEF m
          <6>2. CASE u # s
            BY <1>5, <6>2 DEF OnlyDeque
          <6> QED
            BY <6>1, <6>2
        <5>2. LineAt(u, l, j)
          BY <3>2, <5>1
        <5> QED
          BY <3>1, <5>1, <5>2 DEF LineAt, LineNext
      <4> QED
        BY <4>1, <4>2
    <3> QED
      BY <1>1, <3>1, <3>2, <3>3, <3>4
  <2> QED
    BY <2>1, <2>2
<1> QED
  BY <1>11, DequeNext

(* So does the outer call, on the empty deque of slot 0.                   *)
LEMMA DequeOuter ==
  ASSUME TypeInv, OuterInv, DequeInv, CountInv, OuterCall
  PROVE  DequeInv'
<1> DEFINE c == used + 1
<1>1. outer = 0 /\ c \in Calls /\ outer' = c /\ open' = open \union {c}
  BY DEF OuterCall
<1>2. \A s \in Slots : deque[s] = <<>>
  BY <1>1, NothingOffered
<1>3. /\ OnlyDeque(0) /\ Len(deque'[0]) = Fanout(c)
      /\ \A j \in 1 .. Fanout(c) : deque'[0][j] = <<c, j>>
  BY <1>2, OuterType
<1> HIDE DEF c
<1>4. ASSUME NEW u \in Slots, NEW j \in 1 .. Len(deque'[u])
      PROVE  u = 0 /\ CallOf(deque'[u][j]) = c
  <2>1. u = 0
    <3> SUFFICES ASSUME u # 0 PROVE FALSE
      OBVIOUS
    <3>1. deque'[u] = <<>>
      BY <1>2, <1>3 DEF OnlyDeque
    <3>2. Len(deque'[u]) = 0 /\ j \notin 1 .. 0
      BY <3>1
    <3> QED
      BY <3>2
  <2>2. deque'[u][j] = <<c, j>>
    BY <1>3, <2>1
  <2> QED
    BY <2>1, <2>2 DEF CallOf
<1>5. ASSUME NEW u \in Slots, NEW j \in 1 .. Len(deque'[u])
      PROVE  /\ CallOf(deque'[u][j]) \in open'
             /\ HomeNext(u, CallOf(deque'[u][j]))
             /\ \A l \in 1 .. Len(deque'[u]) : LineNext(u, l, j)
  <2>1. CallOf(deque'[u][j]) = c
    BY <1>4
  <2>2. ASSUME NEW l \in 1 .. Len(deque'[u]) PROVE LineNext(u, l, j)
    <3>1. CallOf(deque'[u][l]) = c /\ c <= c
      BY <1>1, <1>4, CallsAre
    <3> QED
      BY <2>1, <3>1 DEF LineAt, LineNext
  <2> QED
    BY <1>1, <2>1, <2>2 DEF HomeNext
<1> QED
  BY <1>5, DequeNext

(* Every step keeps the deques in the order of the calls, at home.         *)
LEMMA DequeStep ==
  ASSUME TypeInv, StackInv, CallsInv, OuterInv, DequeInv, CountInv, [Next]_vars
  PROVE  DequeInv'
<1>1. CASE OuterCall
  BY <1>1, DequeOuter
<1>2. CASE Return
  <2>1. \A s \in Slots : deque[s] = <<>>
    BY <1>2, NothingOffered
  <2>2. UNCHANGED deque
    BY <1>2 DEF Return
  <2>3. ASSUME NEW u \in Slots, NEW j \in 1 .. Len(deque'[u]) PROVE FALSE
    <3>1. Len(deque'[u]) = 0
      BY <2>1, <2>2
    <3>2. j \in 1 .. 0
      BY <3>1
    <3> QED
      BY <3>2
  <2> QED
    BY <2>3 DEF DequeInv
<1>3. CASE Stop \/ UNCHANGED vars
  <2>1. UNCHANGED <<deque, stack, outer, open>>
    BY <1>3 DEF Stop, vars
  <2> QED
    BY <2>1 DEF DequeInv, HomeAt, LineAt, CallAt
<1>4. ASSUME NEW s \in Slots, Slot(s) PROVE DequeInv'
  <2>1. ASSUME UNCHANGED <<deque, outer>>, open \subseteq open',
               NEW m \in Nat, CallsBut(s, m), m <= 1 \/ ~CallAt(s, m)
        PROVE  DequeInv'
    <3>1. ASSUME NEW u \in Slots, NEW j \in 1 .. Len(deque[u])
          PROVE  /\ HomeAt(u, CallOf(deque[u][j])) => HomeNext(u, CallOf(deque[u][j]))
                 /\ CallOf(deque[u][j]) \in open'
      <4>1. CallOf(deque[u][j]) \in open
        BY DEF DequeInv
      <4>2. ASSUME NEW x, HomeAt(u, x) PROVE HomeNext(u, x)
        BY <2>1, <4>2, HomesKept
      <4> QED
        BY <2>1, <4>1, <4>2
    <3> QED
      BY <2>1, <3>1, DequeKept
  <2>2. CASE LookOn(s) \/ TaskStep(s)
    BY <2>1, <2>2, QuietShape
  <2>3. CASE Begin(s)
    <3>1. CallsBut(s, 1) /\ UNCHANGED <<deque, outer, open>>
      BY <2>3, BeginShape DEF Begin
    <3> QED
      BY <2>1, <3>1
  <2>4. CASE BodyFork(s)
    <3>1. CallsBut(s, Len(stack[s]) + 1) /\ Len(stack[s]) \in Nat
      BY <2>4, ForkStack, EnteredCall, Apart
    <3>2. ~CallAt(s, Len(stack[s]) + 1)
      BY <3>1 DEF CallAt
    <3>3. UNCHANGED <<deque, outer>> /\ open \subseteq open'
      BY <2>4 DEF BodyFork
    <3>4. Len(stack[s]) + 1 \in Nat
      BY <3>1
    <3> QED
      BY <2>1, <3>1, <3>2, <3>3, <3>4
  <2>5. ASSUME NEW v \in Slots, (PopOwn(s) /\ v = s) \/ Steal(s, v) PROVE DequeInv'
    <3>1. PICK i \in 1 .. Len(deque[v]), d \in {0, 1}, h \in {"own", "peer"},
               q \in {"pop", "steal"} :
             /\ At(s, q) /\ TakesFrom(v, i, d) /\ DequeType /\ deque[v][i] \in Tasks
             /\ Above(s, TaskFrame("gate", deque[v][i], h))
      BY <2>5, TookTask
    <3>2. CallsBut(s, 0)
      BY <3>1, TakeStack
    <3>3. UNCHANGED <<outer, open>>
      BY <2>5 DEF PopOwn, Steal
    <3> QED
      BY <3>1, <3>2, <3>3, DequeTake
  <2>6. CASE ShareDone(s)
    <3>1. CallsBut(s, Len(stack[s])) /\ Len(stack[s]) = 1
      BY <2>6, ShareStack, LeftTop
    <3>2. UNCHANGED <<deque, outer, open>>
      BY <2>6 DEF ShareDone
    <3>3. CallsBut(s, 1)
      BY <3>1
    <3> QED
      BY <2>1, <3>2, <3>3
  <2>7. CASE JoinDone(s)
    <3> DEFINE n == Len(stack[s])
               c == stack[s][n].call
    <3>1. \A u \in Slots : \A j \in 1 .. Len(deque[u]) : CallOf(deque[u][j]) # c
      BY <2>7, NoneLeft
    <3>2. CallsBut(s, n) /\ n \in Nat /\ c = TopCall(s)
      BY <2>7, JoinedCall, JoinedStack
    <3>3. UNCHANGED <<deque, outer>> /\ open' = open \ {c}
      BY <2>7, <3>2 DEF JoinDone, Close
    <3>4. ASSUME NEW u \in Slots, NEW x, x # c, HomeAt(u, x) PROVE HomeNext(u, x)
      <4>1. ASSUME NEW k \in Nat, k >= 2, CallAt(u, k), stack[u][k].call = x
            PROVE  CallAt(u, k)' /\ stack'[u][k].call = x
        <5>1. ~(u = s /\ k = n)
          BY <3>4, <4>1
        <5> QED
          BY <3>2, <4>1, <5>1 DEF CallsBut, CallSame
      <4> QED
        BY <3>3, <3>4, <4>1, HomeKept
    <3>5. ASSUME NEW u \in Slots, NEW j \in 1 .. Len(deque[u])
          PROVE  /\ HomeAt(u, CallOf(deque[u][j])) => HomeNext(u, CallOf(deque[u][j]))
                 /\ CallOf(deque[u][j]) \in open'
      <4>1. CallOf(deque[u][j]) \in open /\ CallOf(deque[u][j]) # c
        BY <3>1 DEF DequeInv
      <4>3. HomeAt(u, CallOf(deque[u][j])) => HomeNext(u, CallOf(deque[u][j]))
        BY <3>4, <4>1
      <4> QED
        BY <3>3, <4>1, <4>3
    <3> QED
      BY <3>3, <3>5, DequeKept
  <2>8. CASE Retire(s)
    <3>1. CallsBut(s, 0) /\ UNCHANGED <<deque, outer, open>>
      BY <2>8, RetiredTask DEF Retire
    <3> QED
      BY <2>1, <3>1
  <2>9. CASE Push(s)
    BY <2>9, DequePush
  <2> QED
    BY <1>4, <2>2, <2>3, <2>4, <2>5, <2>6, <2>7, <2>8, <2>9, SlotStep
<1> QED
  BY <1>1, <1>2, <1>3, <1>4 DEF Next, AllCallsMade

-----------------------------------------------------------------------------
(***************************************************************************)
(* A task is in one place: OnceInv.                                        *)
(***************************************************************************)
(* A task is in one place at most. *)
LEMMA TakenTask ==
  ASSUME TypeInv, NEW s \in Slots, NEW k \in Nat, TaskAt(s, k)
  PROVE  /\ k \in 1 .. Len(stack[s]) /\ stack[s][k] \in FrameType
         /\ stack[s][k].task \in Tasks /\ stack[s][k].how \in Hows
<1>1. k \in 1 .. Len(stack[s]) /\ stack[s][k].at \in TaskPlaces
  BY DEF TaskAt
<1> QED
  BY <1>1, Heights, FrameIs

(* Where no task comes, each stays in one place.                           *)
LEMMA OnceKept ==
  ASSUME OnceInv, UNCHANGED deque, \A u \in Slots, k \in Nat : TaskWas(u, k),
         \A u \in Slots, k \in Nat : TaskAt(u, k) => CallOf(stack[u][k].task) \in open'
  PROVE  OnceInv'
<1>1. OfferedOnce'
  BY DEF OnceInv, OfferedOnce
<1>2. TakenOnce'
  <2> SUFFICES ASSUME NEW u \in Slots, NEW w \in Slots, NEW k \in Nat, NEW l \in Nat,
                      TaskAt(u, k)', TaskAt(w, l)',
                      stack'[u][k].task = stack'[w][l].task
               PROVE  u = w /\ k = l
    BY DEF TakenOnce
  <2>1. /\ TaskAt(u, k) /\ stack'[u][k].task = stack[u][k].task
        /\ TaskAt(w, l) /\ stack'[w][l].task = stack[w][l].task
    BY DEF TaskWas
  <2> QED
    BY <2>1 DEF OnceInv, TakenOnce
<1>3. NotBoth'
  <2> SUFFICES ASSUME NEW u \in Slots, NEW w \in Slots, NEW k \in Nat,
                      NEW j \in 1 .. Len(deque'[w]), TaskAt(u, k)'
               PROVE  stack'[u][k].task # deque'[w][j]
    BY DEF NotBoth
  <2>1. TaskAt(u, k) /\ stack'[u][k].task = stack[u][k].task
    BY DEF TaskWas
  <2> QED
    BY <2>1 DEF OnceInv, NotBoth
<1>4. TakenOpen'
  <2> SUFFICES ASSUME NEW u \in Slots, NEW k \in Nat, TaskAt(u, k)'
               PROVE  CallOf(stack'[u][k].task) \in open'
    BY DEF TakenOpen
  <2>1. TaskAt(u, k) /\ stack'[u][k].task = stack[u][k].task
    BY DEF TaskWas
  <2> QED
    BY <2>1
<1> QED
  BY <1>1, <1>2, <1>3, <1>4 DEF OnceInv

(* A task that is taken goes from its deque to one stack.                  *)
LEMMA OnceTake ==
  ASSUME TypeInv, DequeInv, OnceInv, NEW s \in Slots, NEW v \in Slots,
         (PopOwn(s) /\ v = s) \/ Steal(s, v)
  PROVE  OnceInv'
<1> DEFINE n == Len(stack[s])
<1>1. PICK i \in 1 .. Len(deque[v]), d \in {0, 1}, h \in {"own", "peer"},
           q \in {"pop", "steal"} :
           /\ At(s, q) /\ TakesFrom(v, i, d) /\ DequeType /\ deque[v][i] \in Tasks
           /\ Above(s, TaskFrame("gate", deque[v][i], h))
  BY TookTask
<1> DEFINE t == deque[v][i]
<1>2. /\ n \in Nat /\ stack'[s][n + 1].task = t /\ TasksBut(s, n + 1)
  BY <1>1, TakeStack
<1>3. UNCHANGED open
  BY DEF PopOwn, Steal
<1>4. ASSUME NEW u \in Slots, NEW k \in Nat, TaskAt(u, k)', ~(u = s /\ k = n + 1)
      PROVE  TaskAt(u, k) /\ stack'[u][k].task = stack[u][k].task
  BY <1>2, <1>4 DEF TasksBut, TaskSame
<1>5. \A u \in Slots, k \in Nat : TaskAt(u, k) => stack[u][k].task # t
  BY DEF OnceInv, NotBoth
<1> HIDE DEF n
<1>6. OfferedOnce'
  <2> SUFFICES ASSUME NEW u \in Slots, NEW w \in Slots, NEW j \in 1 .. Len(deque'[u]),
                      NEW l \in 1 .. Len(deque'[w]), deque'[u][j] = deque'[w][l]
               PROVE  u = w /\ j = l
    BY DEF OfferedOnce
  <2>1. /\ Was(u, v, d, j) \in 1 .. Len(deque[u])
        /\ deque'[u][j] = deque[u][Was(u, v, d, j)]
        /\ Was(w, v, d, l) \in 1 .. Len(deque[w])
        /\ deque'[w][l] = deque[w][Was(w, v, d, l)]
    BY <1>1, OfferedWas
  <2> DEFINE a == Was(u, v, d, j)
             b == Was(w, v, d, l)
  <2>2. u = w /\ a = b
    <3>1. a \in 1 .. Len(deque[u]) /\ b \in 1 .. Len(deque[w])
          /\ deque[u][a] = deque[w][b]
      BY <2>1
    <3> HIDE DEF a, b
    <3> QED
      BY <3>1 DEF OnceInv, OfferedOnce
  <2>3. j = l
    <3>1. j \in Int /\ l \in Int
      OBVIOUS
    <3> QED
      BY <2>2, <3>1 DEF Was
  <2> QED
    BY <2>2, <2>3
<1>7. TakenOnce'
  <2> SUFFICES ASSUME NEW u \in Slots, NEW w \in Slots, NEW k \in Nat, NEW l \in Nat,
                      TaskAt(u, k)', TaskAt(w, l)',
                      stack'[u][k].task = stack'[w][l].task
               PROVE  u = w /\ k = l
    BY DEF TakenOnce
  <2>1. CASE ~(u = s /\ k = n + 1) /\ ~(w = s /\ l = n + 1)
    <3>1. /\ TaskAt(u, k) /\ stack'[u][k].task = stack[u][k].task
          /\ TaskAt(w, l) /\ stack'[w][l].task = stack[w][l].task
      BY <1>4, <2>1
    <3> QED
      BY <3>1 DEF OnceInv, TakenOnce
  <2>2. CASE u = s /\ k = n + 1 /\ ~(w = s /\ l = n + 1)
    <3>1. TaskAt(w, l) /\ stack'[w][l].task = stack[w][l].task
      BY <1>4, <2>2
    <3> QED
      BY <1>2, <1>5, <2>2, <3>1
  <2>3. CASE w = s /\ l = n + 1 /\ ~(u = s /\ k = n + 1)
    <3>1. TaskAt(u, k) /\ stack'[u][k].task = stack[u][k].task
      BY <1>4, <2>3
    <3> QED
      BY <1>2, <1>5, <2>3, <3>1
  <2> QED
    BY <2>1, <2>2, <2>3
<1>8. NotBoth'
  <2> SUFFICES ASSUME NEW u \in Slots, NEW w \in Slots, NEW k \in Nat,
                      NEW j \in 1 .. Len(deque'[w]), TaskAt(u, k)'
               PROVE  stack'[u][k].task # deque'[w][j]
    BY DEF NotBoth
  <2>1. /\ Was(w, v, d, j) \in 1 .. Len(deque[w])
        /\ deque'[w][j] = deque[w][Was(w, v, d, j)]
        /\ ~(w = v /\ Was(w, v, d, j) = i)
    BY <1>1, OfferedWas
  <2>2. CASE u = s /\ k = n + 1
    <3>1. stack'[u][k].task = t
      BY <1>2, <2>2
    <3>2. deque[w][Was(w, v, d, j)] # deque[v][i]
      BY <2>1 DEF OnceInv, OfferedOnce
    <3> QED
      BY <2>1, <3>1, <3>2
  <2>3. CASE ~(u = s /\ k = n + 1)
    <3>1. TaskAt(u, k) /\ stack'[u][k].task = stack[u][k].task
      BY <1>4, <2>3
    <3> QED
      BY <2>1, <3>1 DEF OnceInv, NotBoth
  <2> QED
    BY <2>2, <2>3
<1>9. TakenOpen'
  <2> SUFFICES ASSUME NEW u \in Slots, NEW k \in Nat, TaskAt(u, k)'
               PROVE  CallOf(stack'[u][k].task) \in open'
    BY DEF TakenOpen
  <2>1. CallOf(t) \in open
    BY DEF DequeInv
  <2>2. CASE u = s /\ k = n + 1
    BY <1>2, <1>3, <2>1, <2>2
  <2>3. CASE ~(u = s /\ k = n + 1)
    <3>1. TaskAt(u, k) /\ stack'[u][k].task = stack[u][k].task
      BY <1>4, <2>3
    <3> QED
      BY <1>3, <3>1 DEF OnceInv, TakenOpen
  <2> QED
    BY <2>2, <2>3
<1> QED
  BY <1>6, <1>7, <1>8, <1>9 DEF OnceInv

(* A task that a call has not pushed yet is nowhere. *)
LEMMA Fresh ==
  ASSUME UnpushedInv, NEW s \in Slots, NEW n \in Nat, PushAt(s, n),
         NEW x \in Nat, x > stack[s][n].own, stack[s][n].own \in Nat
  PROVE  /\ \A u \in Slots : \A j \in 1 .. Len(deque[u]) :
              deque[u][j] # <<stack[s][n].call, x>>
         /\ \A u \in Slots, l \in Nat :
              TaskAt(u, l) => stack[u][l].task # <<stack[s][n].call, x>>
<1> DEFINE c == stack[s][n].call
           t == <<c, x>>
<1>1. CallOf(t) = c /\ t[2] = x /\ ~(x <= stack[s][n].own)
  BY DEF CallOf
<1>2. CallAt(s, n) /\ stack[s][n].at = "push"
  BY DEF PushAt
<1> HIDE DEF t
<1>3. \A u \in Slots : \A j \in 1 .. Len(deque[u]) : deque[u][j] # t
  BY <1>1, <1>2 DEF UnpushedInv
<1>4. \A u \in Slots, l \in Nat : TaskAt(u, l) => stack[u][l].task # t
  BY <1>1, <1>2 DEF UnpushedInv
<1> QED
  BY <1>3, <1>4 DEF t

(* What a push adds. *)
Spreading(s) == stack[s][Len(stack[s])].call
NextTask(s) == <<Spreading(s), stack[s][Len(stack[s])].own + 1>>
TailTask(s) == <<Spreading(s), Fanout(Spreading(s))>>

(* What a push adds to a deque, which was nowhere (UnpushedInv).           *)
LEMMA PushAdds ==
  ASSUME TypeInv, StackInv, CallsInv, UnpushedInv, NEW s \in Slots, Push(s)
  PROVE  LET n == Len(stack[s])
             m == Len(deque[s])
             c == Spreading(s)
             t == NextTask(s)
             x == TailTask(s)
         IN  /\ c = stack[s][n].call
             /\ n \in Nat /\ n > 1 /\ m \in Nat /\ c \in Calls /\ c \in open
             /\ CallAt(s, n) /\ PushAt(s, n)
             /\ t \in Tasks /\ x \in Tasks /\ t # x
             /\ CallOf(t) = c /\ CallOf(x) = c
             /\ t[2] = stack[s][n].own + 1 /\ x[2] = Fanout(c)
             /\ UNCHANGED open /\ OnlyDeque(s) /\ DequeType
             /\ Len(deque'[s]) = m + 1
             /\ deque'[s][m + 1] = t
             /\ \A u \in Slots : \A j \in 1 .. Len(deque'[u]) :
                  \/ u = s /\ j = m + 1 /\ deque'[u][j] = t
                  \/ j \in 1 .. Len(deque[u]) /\ deque'[u][j] = deque[u][j]
             /\ CallsBut(s, 0) /\ OwnsBut(s, n) /\ PlacesBut(s, 0)
             /\ \A u \in Slots, k \in Nat : TaskAt(u, k)' =>
                  \/ TaskWas(u, k) /\ TaskAt(u, k)
                  \/ /\ u = s /\ k = n + 1
                     /\ stack'[u][k].task = x /\ stack'[u][k].how = "tail"
             /\ \A u \in Slots, k \in Nat : TaskAt(u, k) =>
                  /\ TaskAt(u, k)' /\ stack'[u][k].task = stack[u][k].task
                  /\ stack'[u][k].how = stack[u][k].how
             /\ \A u \in Slots : \A j \in 1 .. Len(deque[u]) :
                  deque[u][j] # t /\ deque[u][j] # x
             /\ \A u \in Slots, l \in Nat :
                  TaskAt(u, l) => stack[u][l].task # t /\ stack[u][l].task # x
<1> DEFINE n == Len(stack[s])
           m == Len(deque[s])
           c == Spreading(s)
           o == stack[s][n].own
           t == NextTask(s)
           x == TailTask(s)
<1>0. c = stack[s][n].call /\ t = <<c, o + 1>> /\ x = <<c, Fanout(c)>>
  BY DEF Spreading, NextTask, TailTask
<1> HIDE DEF t, x, c
<1>1. /\ n \in Nat /\ n > 1 /\ stack[s][n].at = "push" /\ c \in Calls
      /\ o \in Nat /\ o + 1 <= Deferred(c) /\ t \in Tasks /\ x \in Tasks
      /\ UNCHANGED open
  BY <1>0, PushingCall DEF Push
<1>2. CallAt(s, n) /\ PushAt(s, n)
  BY <1>1, Apart DEF CallAt, PushAt
<1>3. c \in open /\ m \in Nat
  BY <1>0, <1>1, <1>2, CallFacts, Heights
<1>4. /\ t # x /\ CallOf(t) = c /\ CallOf(x) = c /\ t[2] = o + 1 /\ x[2] = Fanout(c)
      /\ o + 1 \in Nat /\ o + 1 > o /\ Fanout(c) \in Nat /\ Fanout(c) > o
  BY <1>0, <1>1, CallsAre, SMTT(30) DEF CallOf
<1>5. deque' = [deque EXCEPT ![s] = Append(@, t)]
  BY <1>0, PushType
<1>6. /\ \A u \in Slots : \A j \in 1 .. Len(deque[u]) : deque[u][j] # t
      /\ \A u \in Slots, l \in Nat : TaskAt(u, l) => stack[u][l].task # t
  BY <1>0, <1>1, <1>2, <1>4, Fresh, SMTT(30)
<1>7. /\ \A u \in Slots : \A j \in 1 .. Len(deque[u]) : deque[u][j] # x
      /\ \A u \in Slots, l \in Nat : TaskAt(u, l) => stack[u][l].task # x
  BY <1>0, <1>1, <1>2, <1>4, Fresh
<1>8. /\ CallsBut(s, 0) /\ OwnsBut(s, n) /\ PlacesBut(s, 0)
      /\ \/ TasksBut(s, 0)
         \/ /\ TasksBut(s, n + 1)
            /\ stack'[s][n + 1].task = x /\ stack'[s][n + 1].how = "tail"
  BY <1>0, PushedMore, PushedLast
<1> HIDE DEF o
<1>9. /\ DequeType /\ OnlyDeque(s) /\ Len(deque'[s]) = m + 1 /\ deque'[s][m + 1] = t
      /\ \A j \in 1 .. m : deque'[s][j] = deque[s][j]
  BY <1>1, <1>5, DequePushed
<1>10. ASSUME NEW u \in Slots, NEW j \in 1 .. Len(deque'[u])
       PROVE  \/ u = s /\ j = m + 1 /\ deque'[u][j] = t
              \/ j \in 1 .. Len(deque[u]) /\ deque'[u][j] = deque[u][j]
  <2>1. CASE u = s
    <3>1. j \in 1 .. m \/ j = m + 1
      BY <1>3, <1>9, <2>1
    <3> QED
      BY <1>9, <2>1, <3>1
  <2>2. CASE u # s
    BY <1>9, <2>2 DEF OnlyDeque
  <2> QED
    BY <2>1, <2>2
<1> HIDE DEF m, n
<1>11. ASSUME NEW u \in Slots, NEW k \in Nat, TaskAt(u, k)'
       PROVE  \/ TaskWas(u, k) /\ TaskAt(u, k)
              \/ /\ u = s /\ k = n + 1
                 /\ stack'[u][k].task = x /\ stack'[u][k].how = "tail"
  <2>1. ~(u = s /\ k = 0)
    BY <1>11, NoFrame0
  <2> QED
    BY <1>8, <1>11, <2>1 DEF TasksBut, TaskSame, TaskWas
<1>12. ASSUME NEW u \in Slots, NEW k \in Nat, TaskAt(u, k)
       PROVE  /\ TaskAt(u, k)' /\ stack'[u][k].task = stack[u][k].task
              /\ stack'[u][k].how = stack[u][k].how
  <2>1. ~(u = s /\ k = 0)
    BY <1>12, NoFrame0
  <2>2. ~(u = s /\ k = n + 1)
    <3>1. k <= Len(stack[u])
      BY <1>12, Heights DEF TaskAt
    <3> QED
      BY <1>1, <3>1 DEF n
  <2> QED
    BY <1>8, <1>12, <2>1, <2>2 DEF TasksBut, TaskSame
<1>13. \A u \in Slots : \A j \in 1 .. Len(deque'[u]) :
         \/ u = s /\ j = m + 1 /\ deque'[u][j] = t
         \/ j \in 1 .. Len(deque[u]) /\ deque'[u][j] = deque[u][j]
  BY <1>10
<1>14. \A u \in Slots, k \in Nat : TaskAt(u, k)' =>
         \/ TaskWas(u, k) /\ TaskAt(u, k)
         \/ /\ u = s /\ k = n + 1
            /\ stack'[u][k].task = x /\ stack'[u][k].how = "tail"
  BY <1>11
<1>15. \A u \in Slots, k \in Nat : TaskAt(u, k) =>
         /\ TaskAt(u, k)' /\ stack'[u][k].task = stack[u][k].task
         /\ stack'[u][k].how = stack[u][k].how
  BY <1>12
<1>16. \A u \in Slots : \A j \in 1 .. Len(deque[u]) : deque[u][j] # t /\ deque[u][j] # x
  BY <1>6, <1>7
<1>17. \A u \in Slots, l \in Nat : TaskAt(u, l) => stack[u][l].task # t /\ stack[u][l].task # x
  BY <1>6, <1>7
<1>18. /\ c = stack[s][n].call
       /\ n \in Nat /\ n > 1 /\ m \in Nat /\ c \in Calls /\ c \in open
       /\ CallAt(s, n) /\ PushAt(s, n)
       /\ t \in Tasks /\ x \in Tasks /\ t # x
       /\ CallOf(t) = c /\ CallOf(x) = c
       /\ t[2] = stack[s][n].own + 1 /\ x[2] = Fanout(c)
       /\ UNCHANGED open
  BY <1>0, <1>1, <1>2, <1>3, <1>4 DEF o
<1> USE DEF n, m, t, x, c
<1> QED
  BY <1>8, <1>9, <1>13, <1>14, <1>15, <1>16, <1>17, <1>18, SMTT(30)

(* A task that is pushed is in one place.                                  *)
LEMMA OncePush ==
  ASSUME TypeInv, StackInv, CallsInv, OnceInv, UnpushedInv, NEW s \in Slots, Push(s)
  PROVE  OnceInv'
<1> DEFINE n == Len(stack[s])
           m == Len(deque[s])
           c == Spreading(s)
           t == NextTask(s)
           x == TailTask(s)
<1>1. /\ c \in open /\ t # x /\ CallOf(x) = c /\ UNCHANGED open
      /\ \A u \in Slots : \A j \in 1 .. Len(deque'[u]) :
           \/ u = s /\ j = m + 1 /\ deque'[u][j] = t
           \/ j \in 1 .. Len(deque[u]) /\ deque'[u][j] = deque[u][j]
      /\ \A u \in Slots, k \in Nat : TaskAt(u, k)' =>
           \/ TaskWas(u, k) /\ TaskAt(u, k)
           \/ u = s /\ k = n + 1 /\ stack'[u][k].task = x
      /\ \A u \in Slots : \A j \in 1 .. Len(deque[u]) :
           deque[u][j] # t /\ deque[u][j] # x
      /\ \A u \in Slots, l \in Nat :
           TaskAt(u, l) => stack[u][l].task # t /\ stack[u][l].task # x
  BY PushAdds
<1> HIDE DEF n, m, c, t, x
<1>2. OfferedOnce'
  <2> SUFFICES ASSUME NEW u \in Slots, NEW w \in Slots, NEW j \in 1 .. Len(deque'[u]),
                      NEW l \in 1 .. Len(deque'[w]), deque'[u][j] = deque'[w][l]
               PROVE  u = w /\ j = l
    BY DEF OfferedOnce
  <2>1. /\ \/ u = s /\ j = m + 1 /\ deque'[u][j] = t
           \/ j \in 1 .. Len(deque[u]) /\ deque'[u][j] = deque[u][j]
        /\ \/ w = s /\ l = m + 1 /\ deque'[w][l] = t
           \/ l \in 1 .. Len(deque[w]) /\ deque'[w][l] = deque[w][l]
    BY <1>1
  <2>2. /\ j \in 1 .. Len(deque[u]) => deque[u][j] # t
        /\ l \in 1 .. Len(deque[w]) => deque[w][l] # t
    BY <1>1
  <2> QED
    BY <2>1, <2>2 DEF OnceInv, OfferedOnce
<1>3. TakenOnce'
  <2> SUFFICES ASSUME NEW u \in Slots, NEW w \in Slots, NEW k \in Nat, NEW l \in Nat,
                      TaskAt(u, k)', TaskAt(w, l)',
                      stack'[u][k].task = stack'[w][l].task
               PROVE  u = w /\ k = l
    BY DEF TakenOnce
  <2>1. /\ \/ TaskAt(u, k) /\ stack'[u][k].task = stack[u][k].task
           \/ u = s /\ k = n + 1 /\ stack'[u][k].task = x
        /\ \/ TaskAt(w, l) /\ stack'[w][l].task = stack[w][l].task
           \/ w = s /\ l = n + 1 /\ stack'[w][l].task = x
    BY <1>1 DEF TaskWas
  <2>2. /\ TaskAt(u, k) => stack[u][k].task # x
        /\ TaskAt(w, l) => stack[w][l].task # x
    BY <1>1
  <2> QED
    BY <2>1, <2>2 DEF OnceInv, TakenOnce
<1>4. NotBoth'
  <2> SUFFICES ASSUME NEW u \in Slots, NEW w \in Slots, NEW k \in Nat,
                      NEW j \in 1 .. Len(deque'[w]), TaskAt(u, k)'
               PROVE  stack'[u][k].task # deque'[w][j]
    BY DEF NotBoth
  <2>1. /\ \/ TaskAt(u, k) /\ stack'[u][k].task = stack[u][k].task
           \/ u = s /\ k = n + 1 /\ stack'[u][k].task = x
        /\ \/ w = s /\ j = m + 1 /\ deque'[w][j] = t
           \/ j \in 1 .. Len(deque[w]) /\ deque'[w][j] = deque[w][j]
    BY <1>1 DEF TaskWas
  <2>2. /\ TaskAt(u, k) => stack[u][k].task # t
        /\ j \in 1 .. Len(deque[w]) => deque[w][j] # x
    BY <1>1
  <2> QED
    BY <1>1, <2>1, <2>2 DEF OnceInv, NotBoth
<1>5. TakenOpen'
  <2> SUFFICES ASSUME NEW u \in Slots, NEW k \in Nat, TaskAt(u, k)'
               PROVE  CallOf(stack'[u][k].task) \in open'
    BY DEF TakenOpen
  <2>1. \/ TaskAt(u, k) /\ stack'[u][k].task = stack[u][k].task
        \/ u = s /\ k = n + 1 /\ stack'[u][k].task = x
    BY <1>1 DEF TaskWas
  <2> QED
    BY <1>1, <2>1 DEF OnceInv, TakenOpen
<1> QED
  BY <1>2, <1>3, <1>4, <1>5 DEF OnceInv

(* What the outer call adds, where nothing was.                            *)
LEMMA OuterAdds ==
  ASSUME TypeInv, OuterInv, DequeInv, CountInv, OuterCall
  PROVE  LET c == used + 1
         IN  /\ c \in Calls /\ outer' = c /\ c \in open' /\ UNCHANGED stack
             /\ \A u \in Slots, k \in Nat :
                  ~CallAt(u, k)' /\ ~TaskAt(u, k)' /\ ~CallAt(u, k) /\ ~TaskAt(u, k)
             /\ \A u \in Slots : \A j \in 1 .. Len(deque'[u]) :
                  u = 0 /\ j \in 1 .. Fanout(c) /\ deque'[u][j] = <<c, j>>
             /\ Len(deque'[0]) = Fanout(c)
<1> DEFINE c == used + 1
<1>1. outer = 0 /\ c \in Calls /\ outer' = c /\ c \in open' /\ UNCHANGED stack
  BY DEF OuterCall
<1>2. \A s \in Slots : deque[s] = <<>>
  BY <1>1, NothingOffered
<1>3. \A u \in Slots, k \in Nat : ~CallAt(u, k) /\ ~TaskAt(u, k)
  BY <1>1, NothingOffered
<1>4. \A u \in Slots, k \in Nat : ~CallAt(u, k)' /\ ~TaskAt(u, k)'
  BY <1>1, <1>3 DEF CallAt, TaskAt
<1>5. /\ OnlyDeque(0) /\ Len(deque'[0]) = Fanout(c)
      /\ \A j \in 1 .. Fanout(c) : deque'[0][j] = <<c, j>>
  BY <1>2, OuterType
<1> HIDE DEF c
<1>6. ASSUME NEW u \in Slots, NEW j \in 1 .. Len(deque'[u])
      PROVE  u = 0 /\ j \in 1 .. Fanout(c) /\ deque'[u][j] = <<c, j>>
  <2>1. u = 0
    <3> SUFFICES ASSUME u # 0 PROVE FALSE
      OBVIOUS
    <3>1. deque'[u] = <<>>
      BY <1>2, <1>5 DEF OnlyDeque
    <3>2. Len(deque'[u]) = 0 /\ j \notin 1 .. 0
      BY <3>1
    <3> QED
      BY <3>2
  <2> QED
    BY <1>5, <2>1
<1> QED
  BY <1>1, <1>3, <1>4, <1>5, <1>6 DEF c

(* Every step keeps each task in one place.                                *)
LEMMA OnceStep ==
  ASSUME TypeInv, StackInv, CallsInv, OuterInv, DequeInv, OnceInv, UnpushedInv,
         CountInv, [Next]_vars
  PROVE  OnceInv'
<1>0. \A u \in Slots, k \in Nat : TaskAt(u, k) => CallOf(stack[u][k].task) \in open
  BY DEF OnceInv, TakenOpen
<1>1. CASE OuterCall
  <2> DEFINE c == used + 1
  <2>1. /\ \A u \in Slots, k \in Nat : ~TaskAt(u, k)'
        /\ \A u \in Slots : \A j \in 1 .. Len(deque'[u]) :
             u = 0 /\ deque'[u][j] = <<c, j>>
    BY <1>1, OuterAdds
  <2>2. OfferedOnce'
    <3> SUFFICES ASSUME NEW u \in Slots, NEW w \in Slots, NEW j \in 1 .. Len(deque'[u]),
                        NEW l \in 1 .. Len(deque'[w]), deque'[u][j] = deque'[w][l]
                 PROVE  u = w /\ j = l
      BY DEF OfferedOnce
    <3>1. u = 0 /\ w = 0 /\ <<c, j>> = <<c, l>>
      BY <2>1
    <3> QED
      BY <3>1
  <2> QED
    BY <2>1, <2>2 DEF OnceInv, TakenOnce, NotBoth, TakenOpen
<1>2. CASE Return
  <2>1. UNCHANGED <<stack, deque>>
    BY <1>2 DEF Return
  <2>2. \A u \in Slots, k \in Nat : ~TaskAt(u, k)
    BY <1>2, NothingOffered
  <2>3. \A u \in Slots, k \in Nat : ~TaskAt(u, k)'
    BY <2>1, <2>2 DEF TaskAt
  <2>4. OfferedOnce'
    BY <2>1 DEF OnceInv, OfferedOnce
  <2> QED
    BY <2>3, <2>4 DEF OnceInv, TakenOnce, NotBoth, TakenOpen
<1>3. CASE Stop \/ UNCHANGED vars
  <2>1. UNCHANGED <<deque, stack, open>>
    BY <1>3 DEF Stop, vars
  <2>2. \A u \in Slots, k \in Nat : TaskWas(u, k)
    BY <2>1 DEF TaskWas, TaskAt
  <2> QED
    BY <1>0, <2>1, <2>2, OnceKept
<1>4. ASSUME NEW s \in Slots, Slot(s) PROVE OnceInv'
  <2>1. CASE LookOn(s) \/ TaskStep(s) \/ Begin(s) \/ ShareDone(s) \/ Retire(s)
    <3>1. UNCHANGED deque /\ \A u \in Slots, k \in Nat : TaskWas(u, k)
      BY <2>1, PlainStep DEF Plain
    <3>2. UNCHANGED open
      BY <2>1, QuietShape DEF Begin, ShareDone, Retire
    <3> QED
      BY <1>0, <3>1, <3>2, OnceKept
  <2>2. CASE BodyFork(s)
    <3>1. TasksBut(s, 0)
      BY <2>2, ForkStack, EnteredCall, Apart
    <3>2. \A u \in Slots, k \in Nat : TaskWas(u, k)
      BY <3>1, TasksWere, NoFrame0
    <3>3. UNCHANGED deque /\ open \subseteq open'
      BY <2>2 DEF BodyFork
    <3> QED
      BY <1>0, <3>2, <3>3, OnceKept
  <2>3. ASSUME NEW v \in Slots, (PopOwn(s) /\ v = s) \/ Steal(s, v) PROVE OnceInv'
    BY <2>3, OnceTake
  <2>4. CASE JoinDone(s)
    <3>1. UNCHANGED deque /\ \A u \in Slots, k \in Nat : TaskWas(u, k)
      BY <2>4, PlainStep DEF Plain
    <3> DEFINE c == stack[s][Len(stack[s])].call
    <3>2. \A u \in Slots, k \in Nat : TaskAt(u, k) => CallOf(stack[u][k].task) # c
      BY <2>4, NoneLeft
    <3>3. open' = open \ {c}
      BY <2>4, JoinedStack DEF JoinDone, Close
    <3> QED
      BY <1>0, <3>1, <3>2, <3>3, OnceKept
  <2>5. CASE Push(s)
    BY <2>5, OncePush
  <2> QED
    BY <1>4, <2>1, <2>2, <2>3, <2>4, <2>5, SlotStep
<1> QED
  BY <1>1, <1>2, <1>3, <1>4 DEF Next, AllCallsMade

-----------------------------------------------------------------------------
(***************************************************************************)
(* What has not been pushed: UnpushedInv.                                  *)
(***************************************************************************)
(* What a call has not pushed yet is nowhere. *)
LEMMA UnpushedNext ==
  ASSUME \A s \in Slots, k \in Nat : PushAt(s, k)' =>
           /\ \A u \in Slots : \A j \in 1 .. Len(deque'[u]) :
                CallOf(deque'[u][j]) = stack'[s][k].call
                  => deque'[u][j][2] <= stack'[s][k].own
           /\ \A u \in Slots, l \in Nat :
                TaskAt(u, l)' /\ CallOf(stack'[u][l].task) = stack'[s][k].call
                  => stack'[u][l].task[2] <= stack'[s][k].own
  PROVE  UnpushedInv'
BY DEF UnpushedInv, PushAt

(* Where no task is new, what is still to be pushed stays nowhere.         *)
LEMMA UnpushedKept ==
  ASSUME UnpushedInv, \A u \in Slots, k \in Nat : PushWas(u, k),
         \A u \in Slots : \A j \in 1 .. Len(deque'[u]) :
           \E l \in 1 .. Len(deque[u]) : deque'[u][j] = deque[u][l],
         \A u \in Slots, k \in Nat : TaskAt(u, k)' =>
           \/ TaskAt(u, k) /\ stack'[u][k].task = stack[u][k].task
           \/ \E w \in Slots : \E l \in 1 .. Len(deque[w]) :
                stack'[u][k].task = deque[w][l]
  PROVE  UnpushedInv'
<1>1. ASSUME NEW s \in Slots, NEW k \in Nat, PushAt(s, k)'
      PROVE  /\ \A u \in Slots : \A j \in 1 .. Len(deque'[u]) :
                  CallOf(deque'[u][j]) = stack'[s][k].call
                    => deque'[u][j][2] <= stack'[s][k].own
             /\ \A u \in Slots, l \in Nat :
                  TaskAt(u, l)' /\ CallOf(stack'[u][l].task) = stack'[s][k].call
                    => stack'[u][l].task[2] <= stack'[s][k].own
  <2>1. /\ PushAt(s, k) /\ stack'[s][k].call = stack[s][k].call
        /\ stack'[s][k].own = stack[s][k].own
    BY <1>1 DEF PushWas
  <2>2. /\ \A u \in Slots : \A j \in 1 .. Len(deque[u]) :
             CallOf(deque[u][j]) = stack[s][k].call
               => deque[u][j][2] <= stack[s][k].own
        /\ \A u \in Slots, l \in Nat :
             TaskAt(u, l) /\ CallOf(stack[u][l].task) = stack[s][k].call
               => stack[u][l].task[2] <= stack[s][k].own
    BY <2>1 DEF UnpushedInv, PushAt
  <2>3. ASSUME NEW u \in Slots, NEW j \in 1 .. Len(deque'[u]),
               CallOf(deque'[u][j]) = stack'[s][k].call
        PROVE  deque'[u][j][2] <= stack'[s][k].own
    <3>1. PICK l \in 1 .. Len(deque[u]) : deque'[u][j] = deque[u][l]
      OBVIOUS
    <3> QED
      BY <2>1, <2>2, <2>3, <3>1
  <2>4. ASSUME NEW u \in Slots, NEW l \in Nat, TaskAt(u, l)',
               CallOf(stack'[u][l].task) = stack'[s][k].call
        PROVE  stack'[u][l].task[2] <= stack'[s][k].own
    <3>1. CASE TaskAt(u, l) /\ stack'[u][l].task = stack[u][l].task
      BY <2>1, <2>2, <2>4, <3>1
    <3>2. ASSUME NEW w \in Slots, NEW j \in 1 .. Len(deque[w]),
                 stack'[u][l].task = deque[w][j]
          PROVE  stack'[u][l].task[2] <= stack'[s][k].own
      BY <2>1, <2>2, <2>4, <3>2
    <3> QED
      BY <2>4, <3>1, <3>2
  <2> QED
    BY <2>3, <2>4
<1> QED
  BY <1>1, UnpushedNext

(* A task that forks keeps it: of a new call nothing is anywhere.          *)
LEMMA UnpushedFork ==
  ASSUME TypeInv, StackInv, CallsInv, OuterInv, DequeInv, OnceInv, UnpushedInv,
         NEW s \in Slots, BodyFork(s)
  PROVE  UnpushedInv'
<1> DEFINE n == Len(stack[s])
           c == used + 1
<1>1. /\ c \notin open /\ n \in Nat /\ stack'[s][n + 1].call = c
      /\ CallsBut(s, n + 1) /\ OwnsBut(s, 0) /\ TasksBut(s, 0)
  BY ForkStack, EnteredCall, Apart
<1>2. UNCHANGED deque
  BY DEF BodyFork
<1>3. \A u \in Slots, k \in Nat : TaskWas(u, k)
  BY <1>1, TasksWere, NoFrame0
<1> HIDE DEF n, c
<1>4. ASSUME NEW w \in Slots, NEW k \in Nat, PushAt(w, k)'
      PROVE  /\ \A u \in Slots : \A j \in 1 .. Len(deque'[u]) :
                  CallOf(deque'[u][j]) = stack'[w][k].call
                    => deque'[u][j][2] <= stack'[w][k].own
             /\ \A u \in Slots, l \in Nat :
                  TaskAt(u, l)' /\ CallOf(stack'[u][l].task) = stack'[w][k].call
                    => stack'[u][l].task[2] <= stack'[w][k].own
  <2>1. CASE w = s /\ k = n + 1
    <3>1. stack'[w][k].call = c
      BY <1>1, <2>1
    <3>2. \A u \in Slots : \A j \in 1 .. Len(deque'[u]) : CallOf(deque'[u][j]) # c
      BY <1>1, <1>2 DEF DequeInv
    <3>3. \A u \in Slots, l \in Nat :
            TaskAt(u, l)' => CallOf(stack'[u][l].task) # c
      BY <1>1, <1>3 DEF OnceInv, TakenOpen, TaskWas
    <3> QED
      BY <3>1, <3>2, <3>3
  <2>2. CASE ~(w = s /\ k = n + 1)
    <3>1. CallAt(w, k)'
      BY <1>4 DEF PushAt
    <3>2. CallAt(w, k) /\ stack'[w][k].call = stack[w][k].call
      BY <1>1, <2>2, <3>1 DEF CallsBut, CallSame
    <3>3. ~(w = s /\ k = 0)
      BY <3>1, NoFrame0
    <3>4. PushAt(w, k) /\ stack'[w][k].own = stack[w][k].own
      BY <1>1, <1>4, <3>1, <3>2, <3>3 DEF OwnsBut, OwnSame, PushAt
    <3>5. /\ \A u \in Slots : \A j \in 1 .. Len(deque[u]) :
               CallOf(deque[u][j]) = stack[w][k].call
                 => deque[u][j][2] <= stack[w][k].own
          /\ \A u \in Slots, l \in Nat :
               TaskAt(u, l) /\ CallOf(stack[u][l].task) = stack[w][k].call
                 => stack[u][l].task[2] <= stack[w][k].own
      BY <3>4 DEF UnpushedInv, PushAt
    <3>6. \A u \in Slots : \A j \in 1 .. Len(deque'[u]) :
            CallOf(deque'[u][j]) = stack'[w][k].call
              => deque'[u][j][2] <= stack'[w][k].own
      BY <1>2, <3>2, <3>4, <3>5
    <3>7. ASSUME NEW u \in Slots, NEW l \in Nat, TaskAt(u, l)',
                 CallOf(stack'[u][l].task) = stack'[w][k].call
          PROVE  stack'[u][l].task[2] <= stack'[w][k].own
      BY <1>3, <3>2, <3>4, <3>5, <3>7 DEF TaskWas
    <3> QED
      BY <3>6, <3>7
  <2> QED
    BY <2>1, <2>2
<1> QED
  BY <1>4, UnpushedNext

(* A push keeps it: the next task goes, those behind it stay nowhere.      *)
LEMMA UnpushedPush ==
  ASSUME TypeInv, StackInv, CallsInv, UnpushedInv, NEW s \in Slots, Push(s)
  PROVE  UnpushedInv'
<1> DEFINE n == Len(stack[s])
           m == Len(deque[s])
           c == Spreading(s)
           t == NextTask(s)
           x == TailTask(s)
<1>1. /\ c = stack[s][n].call /\ CallAt(s, n) /\ n \in Nat /\ n > 1
      /\ CallOf(t) = c /\ CallOf(x) = c /\ t[2] = stack[s][n].own + 1
      /\ \A u \in Slots : \A j \in 1 .. Len(deque'[u]) :
           \/ u = s /\ j = m + 1 /\ deque'[u][j] = t
           \/ j \in 1 .. Len(deque[u]) /\ deque'[u][j] = deque[u][j]
      /\ CallsBut(s, 0) /\ OwnsBut(s, n)
      /\ \A u \in Slots, k \in Nat : TaskAt(u, k)' =>
           \/ TaskWas(u, k) /\ TaskAt(u, k)
           \/ u = s /\ k = n + 1 /\ stack'[u][k].task = x
  BY PushAdds
<1>2. \/ stack'[s][n].own = stack[s][n].own + 1 /\ Len(stack'[s]) = n
      \/ stack'[s][n].at = "tail"
  BY PushedMore, PushedLast
<1>3. stack[s][n].own \in Nat /\ PushAt(s, n) /\ c \in Calls
  BY PushingCall, PushAdds
<1> HIDE DEF m, c, t, x, n
<1>4. ASSUME NEW w \in Slots, NEW k \in Nat, PushAt(w, k)'
      PROVE  /\ \A u \in Slots : \A j \in 1 .. Len(deque'[u]) :
                  CallOf(deque'[u][j]) = stack'[w][k].call
                    => deque'[u][j][2] <= stack'[w][k].own
             /\ \A u \in Slots, l \in Nat :
                  TaskAt(u, l)' /\ CallOf(stack'[u][l].task) = stack'[w][k].call
                    => stack'[u][l].task[2] <= stack'[w][k].own
  <2>1. CallAt(w, k)' /\ stack'[w][k].at = "push"
    BY <1>4 DEF PushAt
  <2>2. ~(w = s /\ k = 0)
    BY <2>1, NoFrame0
  <2>3. CallAt(w, k) /\ stack'[w][k].call = stack[w][k].call
    BY <1>1, <2>1, <2>2 DEF CallsBut, CallSame
  <2>4. CASE w = s /\ k = n
    <3>1. stack'[w][k].own = stack[s][n].own + 1 /\ stack'[w][k].call = c
          /\ Len(stack'[s]) = n
      BY <1>1, <1>2, <2>1, <2>3, <2>4
    <3>2. /\ \A u \in Slots : \A j \in 1 .. Len(deque[u]) :
               CallOf(deque[u][j]) = c => deque[u][j][2] <= stack[s][n].own
          /\ \A u \in Slots, l \in Nat :
               TaskAt(u, l) /\ CallOf(stack[u][l].task) = c
                 => stack[u][l].task[2] <= stack[s][n].own
      BY <1>1, <1>3 DEF UnpushedInv, PushAt
    <3>3. ASSUME NEW u \in Slots, NEW j \in 1 .. Len(deque'[u]),
                 CallOf(deque'[u][j]) = c
          PROVE  deque'[u][j][2] <= stack[s][n].own + 1
      <4>1. CASE deque'[u][j] = t
        BY <1>1, <1>3, <4>1
      <4>2. CASE j \in 1 .. Len(deque[u]) /\ deque'[u][j] = deque[u][j]
        <5>1. deque[u][j][2] <= stack[s][n].own
          BY <3>2, <3>3, <4>2
        <5>2. deque[u][j][2] \in Int
          <6>1. deque[u][j] \in Tasks
            BY <4>2, Heights
          <6>2. /\ deque[u][j][2] \in 1 .. Fanout(CallOf(deque[u][j]))
                /\ Fanout(CallOf(deque[u][j])) \in {2, 3}
            BY <6>1, TasksAre, CallsAre
          <6> QED
            BY <6>2
        <5> QED
          BY <1>3, <4>2, <5>1, <5>2
      <4> QED
        BY <1>1, <4>1, <4>2
    <3>4. ASSUME NEW u \in Slots, NEW l \in Nat, TaskAt(u, l)',
                 CallOf(stack'[u][l].task) = c
          PROVE  stack'[u][l].task[2] <= stack[s][n].own + 1
      <4>1. ~(u = s /\ l = n + 1)
        <5>1. l <= Len(stack'[u])
          BY <3>4 DEF TaskAt
        <5> QED
          BY <1>1, <3>1, <5>1
      <4>2. TaskAt(u, l) /\ stack'[u][l].task = stack[u][l].task
        BY <1>1, <3>4, <4>1 DEF TaskWas
      <4>3. stack[u][l].task[2] <= stack[s][n].own
        BY <3>2, <3>4, <4>2
      <4>4. stack[u][l].task[2] \in Int
        <5>1. stack[u][l].task \in Tasks
          BY <4>2, TakenTask
        <5>2. /\ stack[u][l].task[2] \in 1 .. Fanout(CallOf(stack[u][l].task))
              /\ Fanout(CallOf(stack[u][l].task)) \in {2, 3}
          BY <5>1, TasksAre, CallsAre
        <5> QED
          BY <5>2
      <4> QED
        BY <1>3, <4>2, <4>3, <4>4
    <3> QED
      BY <3>1, <3>3, <3>4
  <2>5. CASE ~(w = s /\ k = n)
    <3>1. PushAt(w, k) /\ stack'[w][k].own = stack[w][k].own
      BY <1>1, <2>1, <2>3, <2>5 DEF OwnsBut, OwnSame, PushAt
    <3>2. stack[w][k].call # c
      BY <1>1, <2>3, <2>5, CallOnce
    <3>3. /\ \A u \in Slots : \A j \in 1 .. Len(deque[u]) :
               CallOf(deque[u][j]) = stack[w][k].call
                 => deque[u][j][2] <= stack[w][k].own
          /\ \A u \in Slots, l \in Nat :
               TaskAt(u, l) /\ CallOf(stack[u][l].task) = stack[w][k].call
                 => stack[u][l].task[2] <= stack[w][k].own
      BY <3>1 DEF UnpushedInv, PushAt
    <3>4. ASSUME NEW u \in Slots, NEW j \in 1 .. Len(deque'[u]),
                 CallOf(deque'[u][j]) = stack[w][k].call
          PROVE  deque'[u][j][2] <= stack[w][k].own
      <4>1. j \in 1 .. Len(deque[u]) /\ deque'[u][j] = deque[u][j]
        BY <1>1, <3>2, <3>4
      <4> QED
        BY <3>3, <3>4, <4>1
    <3>5. ASSUME NEW u \in Slots, NEW l \in Nat, TaskAt(u, l)',
                 CallOf(stack'[u][l].task) = stack[w][k].call
          PROVE  stack'[u][l].task[2] <= stack[w][k].own
      <4>1. TaskAt(u, l) /\ stack'[u][l].task = stack[u][l].task
        BY <1>1, <3>2, <3>5 DEF TaskWas
      <4> QED
        BY <3>3, <3>5, <4>1
    <3> QED
      BY <2>3, <3>1, <3>4, <3>5
  <2> QED
    BY <2>4, <2>5
<1> QED
  BY <1>4, UnpushedNext

(* Every step keeps what is still to be pushed nowhere.                    *)
LEMMA UnpushedStep ==
  ASSUME TypeInv, StackInv, CallsInv, OuterInv, DequeInv, OnceInv, UnpushedInv,
         CountInv, [Next]_vars
  PROVE  UnpushedInv'
<1>1. CASE OuterCall \/ Return
  <2>1. UNCHANGED stack /\ \A u \in Slots, k \in Nat : ~CallAt(u, k)
    <3>1. outer = 0 \/ Return
      BY <1>1 DEF OuterCall
    <3> QED
      BY <1>1, <3>1, NothingOffered DEF OuterCall, Return
  <2>2. \A u \in Slots, k \in Nat : ~CallAt(u, k)'
    BY <2>1 DEF CallAt
  <2> QED
    BY <2>2 DEF UnpushedInv
<1>2. CASE Stop \/ UNCHANGED vars
  <2>1. UNCHANGED <<deque, stack>>
    BY <1>2 DEF Stop, vars
  <2> QED
    BY <2>1 DEF UnpushedInv, CallAt, TaskAt
<1>3. ASSUME NEW s \in Slots, Slot(s) PROVE UnpushedInv'
  <2>1. CASE Plain(s)
    <3>1. UNCHANGED deque /\ \A u \in Slots, k \in Nat : TaskWas(u, k)
      BY <2>1, PlainStep
    <3>2. \A u \in Slots, k \in Nat : PushWas(u, k)
      BY <2>1, RetirePushes
    <3>3. \A u \in Slots, k \in Nat : TaskAt(u, k)' =>
            TaskAt(u, k) /\ stack'[u][k].task = stack[u][k].task
      BY <3>1 DEF TaskWas
    <3>4. \A u \in Slots : \A j \in 1 .. Len(deque'[u]) :
            \E l \in 1 .. Len(deque[u]) : deque'[u][j] = deque[u][l]
      BY <3>1
    <3> QED
      BY <3>2, <3>3, <3>4, UnpushedKept
  <2>2. CASE BodyFork(s)
    BY <2>2, UnpushedFork
  <2>3. ASSUME NEW v \in Slots, (PopOwn(s) /\ v = s) \/ Steal(s, v)
        PROVE  UnpushedInv'
    <3>1. PICK i \in 1 .. Len(deque[v]), d \in {0, 1}, h \in {"own", "peer"},
               q \in {"pop", "steal"} :
             /\ At(s, q) /\ TakesFrom(v, i, d) /\ DequeType /\ deque[v][i] \in Tasks
             /\ Above(s, TaskFrame("gate", deque[v][i], h))
      BY <2>3, TookTask
    <3>2. /\ CallsBut(s, 0) /\ OwnsBut(s, 0) /\ TasksBut(s, Len(stack[s]) + 1)
          /\ stack'[s][Len(stack[s]) + 1].task = deque[v][i]
      BY <3>1, TakeStack
    <3>3. \A u \in Slots, k \in Nat : PushWas(u, k)
      BY <3>2, CallsWere, PushesWere, NoFrame0
    <3>4. ASSUME NEW u \in Slots, NEW j \in 1 .. Len(deque'[u])
          PROVE  \E l \in 1 .. Len(deque[u]) : deque'[u][j] = deque[u][l]
      BY <3>1, OfferedWas
    <3>5. ASSUME NEW u \in Slots, NEW k \in Nat, TaskAt(u, k)'
          PROVE  \/ TaskAt(u, k) /\ stack'[u][k].task = stack[u][k].task
                 \/ \E w \in Slots : \E l \in 1 .. Len(deque[w]) :
                      stack'[u][k].task = deque[w][l]
      <4>1. CASE u = s /\ k = Len(stack[s]) + 1
        BY <3>2, <4>1
      <4>2. CASE ~(u = s /\ k = Len(stack[s]) + 1)
        BY <3>2, <3>5, <4>2 DEF TasksBut, TaskSame
      <4> QED
        BY <4>1, <4>2
    <3> QED
      BY <3>3, <3>4, <3>5, UnpushedKept
  <2>4. CASE Push(s)
    BY <2>4, UnpushedPush
  <2> QED
    BY <1>3, <2>1, <2>2, <2>3, <2>4, SlotStep DEF Plain
<1> QED
  BY <1>1, <1>2, <1>3 DEF Next, AllCallsMade

-----------------------------------------------------------------------------
(***************************************************************************)
(* The tasks that count: CountInv.                                         *)
(***************************************************************************)
(* The counts. *)
OfferedNext(t) == \E s \in Slots : \E j \in 1 .. Len(deque'[s]) : deque'[s][j] = t
CountedNext(t) == \E s \in Slots, k \in Nat :
  TaskAt(s, k)' /\ stack'[s][k].task = t /\ stack'[s][k].how # "tail"
LiveNext(c) == {t \in Tasks : CallOf(t) = c /\ (OfferedNext(t) \/ CountedNext(t))}
DueNext(u, k) ==
  IF stack'[u][k].at = "push"
  THEN pending'[stack'[u][k].call]
         - (Deferred(stack'[u][k].call) - stack'[u][k].own)
  ELSE pending'[stack'[u][k].call] - stack'[u][k].own

(* CountInv of the next state.                                             *)
LEMMA CountNext ==
  ASSUME outer' # 0 => pending'[outer'] = Cardinality(LiveNext(outer')),
         \A s \in Slots, k \in Nat : k > 1 /\ CallAt(s, k)' =>
           DueNext(s, k) = Cardinality(LiveNext(stack'[s][k].call)),
         outer' # 0 => \A s \in Slots :
           s \notin job' /\ stack'[s] = <<>> => LiveNext(outer') = {}
  PROVE  CountInv'
<1>1. (outer # 0 => pending[outer] = Cardinality(Live(outer)))'
  BY DEF Live, LiveNext, OfferedAt, OfferedNext, CountedAt, CountedNext,
     TaskAt
<1>2. (\A s \in Slots, k \in Nat : k > 1 /\ CallAt(s, k) =>
         Due(stack[s][k]) = Cardinality(Live(stack[s][k].call)))'
  BY DEF Live, LiveNext, OfferedAt, OfferedNext, CountedAt, CountedNext,
     TaskAt, Due, DueNext, CallAt
<1>3. (outer # 0 => \A s \in Slots :
         s \notin job /\ stack[s] = <<>> => Live(outer) = {})'
  BY DEF Live, LiveNext, OfferedAt, OfferedNext, CountedAt, CountedNext,
     TaskAt
<1> QED
  BY <1>1, <1>2, <1>3 DEF CountInv

(* Steps that leave all tasks where they are. *)
LEMMA LiveSame ==
  ASSUME UNCHANGED deque, NEW s \in Slots, TasksBut(s, 0), NEW c
  PROVE  LiveNext(c) = Live(c)
<1>1. ASSUME NEW u \in Slots, NEW k \in Nat PROVE TaskSame(u, k)
  <2>1. CASE u = s /\ k = 0
    <3>1. ~TaskAt(u, k)' /\ ~TaskAt(u, k)
      BY <2>1, NoFrame0
    <3> QED
      BY <3>1 DEF TaskSame
  <2>2. CASE ~(u = s /\ k = 0)
    BY <2>2 DEF TasksBut
  <2> QED
    BY <2>1, <2>2
<1>2. ASSUME NEW t PROVE OfferedNext(t) <=> OfferedAt(t)
  BY DEF OfferedNext, OfferedAt
<1>3. ASSUME NEW t PROVE CountedNext(t) <=> CountedAt(t)
  <2>1. CountedNext(t) => CountedAt(t)
    BY <1>1 DEF CountedNext, CountedAt, TaskSame
  <2>2. CountedAt(t) => CountedNext(t)
    BY <1>1 DEF CountedNext, CountedAt, TaskSame
  <2> QED
    BY <2>1, <2>2
<1> QED
  BY <1>2, <1>3 DEF LiveNext, Live

(* A task that is taken goes on to count.                                  *)
LEMMA LiveTake ==
  ASSUME TypeInv, OnceInv, NEW s \in Slots, NEW v \in Slots,
         (PopOwn(s) /\ v = s) \/ Steal(s, v), NEW c
  PROVE  LiveNext(c) = Live(c)
<1> DEFINE n == Len(stack[s])
<1>1. PICK i \in 1 .. Len(deque[v]), d \in {0, 1}, h \in {"own", "peer"},
           q \in {"pop", "steal"} :
           /\ At(s, q) /\ TakesFrom(v, i, d) /\ DequeType /\ deque[v][i] \in Tasks
           /\ Above(s, TaskFrame("gate", deque[v][i], h))
  BY TookTask
<1> DEFINE x == deque[v][i]
<1>2. /\ n \in Nat /\ Len(stack'[s]) = n + 1
      /\ stack'[s][n + 1].task = x /\ stack'[s][n + 1].how = h
      /\ stack'[s][n + 1].at = "gate" /\ TasksBut(s, n + 1)
  BY <1>1, TakeStack, SMTT(30)
<1>3. /\ n + 1 \in Nat
      /\ \A k \in Nat : k = n + 1 => TaskAt(s, k)' /\ ~TaskAt(s, k)
  <2>1. n + 1 \in Nat /\ n + 1 \in 1 .. n + 1 /\ n + 1 \notin 1 .. n
    BY <1>2
  <2> QED
    BY <1>2, <2>1, Apart DEF TaskAt
<1> HIDE DEF n
<1>4. ASSUME NEW t, OfferedNext(t) \/ CountedNext(t) PROVE OfferedAt(t) \/ CountedAt(t)
  <2>1. ASSUME NEW u \in Slots, NEW j \in 1 .. Len(deque'[u]), deque'[u][j] = t
        PROVE  OfferedAt(t)
    <3>1. /\ Was(u, v, d, j) \in 1 .. Len(deque[u])
          /\ deque'[u][j] = deque[u][Was(u, v, d, j)]
      BY <1>1, OfferedWas
    <3> QED
      BY <2>1, <3>1 DEF OfferedAt
  <2>2. ASSUME NEW u \in Slots, NEW k \in Nat, TaskAt(u, k)',
               stack'[u][k].task = t, stack'[u][k].how # "tail"
        PROVE  OfferedAt(t) \/ CountedAt(t)
    <3>1. CASE u = s /\ k = n + 1
      BY <1>2, <2>2, <3>1 DEF OfferedAt
    <3>2. CASE ~(u = s /\ k = n + 1)
      BY <1>2, <2>2, <3>2 DEF TasksBut, TaskSame, CountedAt
    <3> QED
      BY <3>1, <3>2
  <2> QED
    BY <1>4, <2>1, <2>2 DEF OfferedNext, CountedNext
<1>5. ASSUME NEW t, OfferedAt(t) \/ CountedAt(t) PROVE OfferedNext(t) \/ CountedNext(t)
  <2>1. ASSUME NEW u \in Slots, NEW j \in 1 .. Len(deque[u]), deque[u][j] = t
        PROVE  OfferedNext(t) \/ CountedNext(t)
    <3>1. CASE u = v /\ j = i
      <4>1. h # "tail"
        OBVIOUS
      <4> QED
        BY <1>2, <1>3, <2>1, <3>1, <4>1 DEF CountedNext
    <3>2. CASE ~(u = v /\ j = i)
      <4>1. \E l \in 1 .. Len(deque'[u]) : deque'[u][l] = deque[u][j]
        BY <1>1, <3>2, OfferedStill
      <4> QED
        BY <2>1, <4>1 DEF OfferedNext
    <3> QED
      BY <3>1, <3>2
  <2>2. ASSUME NEW u \in Slots, NEW k \in Nat, TaskAt(u, k),
               stack[u][k].task = t, stack[u][k].how # "tail"
        PROVE  CountedNext(t)
    <3>1. ~(u = s /\ k = n + 1)
      BY <1>3, <2>2
    <3> QED
      BY <1>2, <2>2, <3>1 DEF TasksBut, TaskSame, CountedNext
  <2> QED
    BY <1>5, <2>1, <2>2 DEF OfferedAt, CountedAt
<1> QED
  BY <1>4, <1>5 DEF LiveNext, Live

(* One that retires does not, unless it was kept for the caller.           *)
LEMMA LiveRetire ==
  ASSUME TypeInv, StackInv, OnceInv, NEW s \in Slots, Retire(s), NEW c
  PROVE  LET f == stack[s][Len(stack[s])]
         IN  /\ f.how = "tail" => LiveNext(c) = Live(c)
             /\ f.how # "tail" /\ CallOf(f.task) # c => LiveNext(c) = Live(c)
             /\ f.how # "tail" /\ CallOf(f.task) = c =>
                  f.task \in Live(c) /\ LiveNext(c) = Live(c) \ {f.task}
<1> DEFINE n == Len(stack[s])
           f == stack[s][n]
<1>1. /\ n \in Nat /\ n > 1 /\ f.at \in {"retire", "skipped"}
      /\ f.task \in Tasks /\ f.how \in Hows
  BY RetiredStack
<1>2. TaskAt(s, n)
  BY <1>1, Apart DEF TaskAt
<1>3. /\ TasksBut(s, n) /\ UNCHANGED deque
      /\ \A k \in Nat : k = n => ~TaskAt(s, k)'
  BY <1>1, RetiredTask DEF Retire
<1> HIDE DEF f
<1>4. \A t : OfferedNext(t) <=> OfferedAt(t)
  BY <1>3 DEF OfferedNext, OfferedAt
<1>5. ASSUME NEW t, CountedNext(t)
      PROVE  CountedAt(t) /\ t # f.task
  <2>1. PICK u \in Slots, k \in Nat : TaskAt(u, k)' /\ stack'[u][k].task = t
                                      /\ stack'[u][k].how # "tail"
    BY <1>5 DEF CountedNext
  <2>2. ~(u = s /\ k = n)
    BY <1>3, <2>1
  <2>3. TaskAt(u, k) /\ stack[u][k].task = t /\ stack[u][k].how # "tail"
    BY <1>3, <2>1, <2>2 DEF TasksBut, TaskSame
  <2>4. t # f.task
    BY <1>1, <1>2, <2>2, <2>3 DEF OnceInv, TakenOnce, f
  <2> QED
    BY <2>3, <2>4 DEF CountedAt
<1>6. ASSUME NEW t, CountedAt(t), t # f.task \/ f.how = "tail"
      PROVE  CountedNext(t)
  <2>1. PICK u \in Slots, k \in Nat : TaskAt(u, k) /\ stack[u][k].task = t
                                      /\ stack[u][k].how # "tail"
    BY <1>6 DEF CountedAt
  <2>2. ~(u = s /\ k = n)
    BY <1>6, <2>1 DEF f
  <2> QED
    BY <1>3, <2>1, <2>2 DEF TasksBut, TaskSame, CountedNext
<1>7. ~OfferedAt(f.task)
  BY <1>1, <1>2 DEF OnceInv, NotBoth, OfferedAt, f
<1>8. f.how # "tail" => CountedAt(f.task)
  BY <1>1, <1>2 DEF CountedAt, f
<1>9. CASE f.how = "tail"
  BY <1>4, <1>5, <1>6, <1>9 DEF LiveNext, Live, f
<1>10. CASE f.how # "tail" /\ CallOf(f.task) # c
  BY <1>4, <1>5, <1>6, <1>10 DEF LiveNext, Live, f
<1>11. CASE f.how # "tail" /\ CallOf(f.task) = c
  <2>1. f.task \in Live(c)
    BY <1>1, <1>8, <1>11 DEF Live
  <2>2. LiveNext(c) \subseteq Live(c) \ {f.task}
    BY <1>4, <1>5, <1>7 DEF LiveNext, Live
  <2>3. Live(c) \ {f.task} \subseteq LiveNext(c)
    BY <1>4, <1>6 DEF LiveNext, Live
  <2> QED
    BY <1>11, <2>1, <2>2, <2>3 DEF f
<1> QED
  BY <1>9, <1>10, <1>11 DEF f

(* One that is pushed is new.                                              *)
LEMMA LivePush ==
  ASSUME TypeInv, StackInv, CallsInv, UnpushedInv, NEW s \in Slots, Push(s), NEW c
  PROVE  /\ c # Spreading(s) => LiveNext(c) = Live(c)
         /\ c = Spreading(s) =>
              NextTask(s) \notin Live(c) /\ LiveNext(c) = Live(c) \union {NextTask(s)}
<1> DEFINE m == Len(deque[s])
           n == Len(stack[s])
           t == NextTask(s)
<1>1. /\ t \in Tasks /\ CallOf(t) = Spreading(s) /\ m \in Nat
      /\ Len(deque'[s]) = m + 1 /\ deque'[s][m + 1] = t
      /\ \A u \in Slots : \A j \in 1 .. Len(deque'[u]) :
           \/ u = s /\ j = m + 1 /\ deque'[u][j] = t
           \/ j \in 1 .. Len(deque[u]) /\ deque'[u][j] = deque[u][j]
      /\ \A u \in Slots, k \in Nat : TaskAt(u, k)' =>
           \/ TaskWas(u, k) /\ TaskAt(u, k)
           \/ u = s /\ k = n + 1 /\ stack'[u][k].how = "tail"
      /\ \A u \in Slots, k \in Nat : TaskAt(u, k) =>
           /\ TaskAt(u, k)' /\ stack'[u][k].task = stack[u][k].task
           /\ stack'[u][k].how = stack[u][k].how
      /\ \A u \in Slots : \A j \in 1 .. Len(deque[u]) : deque[u][j] # t
      /\ \A u \in Slots, l \in Nat : TaskAt(u, l) => stack[u][l].task # t
  BY PushAdds
<1>2. \A u \in Slots : \A j \in 1 .. Len(deque[u]) :
        j \in 1 .. Len(deque'[u]) /\ deque'[u][j] = deque[u][j]
  <2>1. /\ OnlyDeque(s) /\ Len(deque'[s]) = m + 1
        /\ \A j \in 1 .. m : deque'[s][j] = deque[s][j]
    BY PushType, DequePushed
  <2>2. ASSUME NEW u \in Slots, NEW j \in 1 .. Len(deque[u])
        PROVE  j \in 1 .. Len(deque'[u]) /\ deque'[u][j] = deque[u][j]
    <3>1. CASE u = s
      BY <1>1, <2>1, <3>1
    <3>2. CASE u # s
      BY <2>1, <3>2 DEF OnlyDeque
    <3> QED
      BY <3>1, <3>2
  <2> QED
    BY <2>2
<1> HIDE DEF t, n
<1>3. OfferedNext(t) /\ ~OfferedAt(t) /\ ~CountedAt(t)
  <2>1. m + 1 \in 1 .. Len(deque'[s])
    BY <1>1
  <2> QED
    BY <1>1, <2>1 DEF OfferedNext, OfferedAt, CountedAt
<1>4. ASSUME NEW x, OfferedNext(x) PROVE OfferedAt(x) \/ x = t
  BY <1>1, <1>4 DEF OfferedNext, OfferedAt
<1>5. ASSUME NEW x, OfferedAt(x) PROVE OfferedNext(x)
  BY <1>2, <1>5 DEF OfferedNext, OfferedAt
<1>6. ASSUME NEW x, CountedNext(x) PROVE CountedAt(x)
  <2>1. PICK u \in Slots, k \in Nat : TaskAt(u, k)' /\ stack'[u][k].task = x
                                      /\ stack'[u][k].how # "tail"
    BY <1>6 DEF CountedNext
  <2>2. TaskAt(u, k) /\ stack[u][k].task = x /\ stack[u][k].how # "tail"
    BY <1>1, <2>1 DEF TaskWas
  <2> QED
    BY <2>2 DEF CountedAt
<1>7. ASSUME NEW x, CountedAt(x) PROVE CountedNext(x)
  <2>1. PICK u \in Slots, k \in Nat : TaskAt(u, k) /\ stack[u][k].task = x
                                      /\ stack[u][k].how # "tail"
    BY <1>7 DEF CountedAt
  <2>2. TaskAt(u, k)' /\ stack'[u][k].task = x /\ stack'[u][k].how # "tail"
    BY <1>1, <2>1
  <2> QED
    BY <2>2 DEF CountedNext
<1>8. CASE c # Spreading(s)
  BY <1>1, <1>4, <1>5, <1>6, <1>7, <1>8 DEF LiveNext, Live
<1>9. CASE c = Spreading(s)
  <2>1. t \notin Live(c)
    BY <1>3 DEF Live
  <2>2. LiveNext(c) \subseteq Live(c) \union {t}
    BY <1>4, <1>6 DEF LiveNext, Live
  <2>3. Live(c) \subseteq LiveNext(c)
    BY <1>5, <1>7 DEF LiveNext, Live
  <2>4. t \in LiveNext(c)
    BY <1>1, <1>3, <1>9 DEF LiveNext
  <2> QED
    BY <1>9, <2>1, <2>2, <2>3, <2>4 DEF t
<1> QED
  BY <1>8, <1>9

(* The outer call has all of its tasks.                                    *)
LEMMA LiveOuter ==
  ASSUME TypeInv, OuterInv, DequeInv, CountInv, OuterCall
  PROVE  Cardinality(LiveNext(used + 1)) = Fanout(used + 1)
<1> DEFINE c == used + 1
           F(j) == <<c, j>>
<1>1. /\ c \in Calls
      /\ \A u \in Slots, k \in Nat : ~TaskAt(u, k)'
      /\ \A u \in Slots : \A j \in 1 .. Len(deque'[u]) :
           u = 0 /\ j \in 1 .. Fanout(c) /\ deque'[u][j] = <<c, j>>
      /\ Len(deque'[0]) = Fanout(c)
  BY OuterAdds
<1>2. 0 \in Slots /\ Fanout(c) \in {2, 3}
  BY ForkJoinAssumption, CallsAre DEF ForkJoinAssumption
<1> HIDE DEF c
<1>3. LiveNext(c) = {<<c, j>> : j \in 1 .. Fanout(c)}
  <2>1. ASSUME NEW t \in LiveNext(c) PROVE \E j \in 1 .. Fanout(c) : t = <<c, j>>
    <3>1. OfferedNext(t)
      BY <1>1 DEF LiveNext, CountedNext
    <3> QED
      BY <1>1, <3>1 DEF OfferedNext
  <2>2. ASSUME NEW j \in 1 .. Fanout(c) PROVE <<c, j>> \in LiveNext(c)
    <3>1. deque'[0][j] = <<c, j>> /\ j \in 1 .. Len(deque'[0])
      BY <1>1, <1>2
    <3>2. <<c, j>> \in Tasks /\ CallOf(<<c, j>>) = c
      BY <1>1, TasksAre
    <3> QED
      BY <1>2, <3>1, <3>2 DEF LiveNext, OfferedNext
  <2> QED
    BY <2>1, <2>2
<1>4. Cardinality({<<c, j>> : j \in 1 .. Fanout(c)}) = Fanout(c)
  <2>1. CASE Fanout(c) = 2
    <3>1. {<<c, j>> : j \in 1 .. 2} = {<<c, 1>>} \union {<<c, 2>>}
      <4>1. 1 .. 2 = {1, 2}
        OBVIOUS
      <4> QED
        BY <4>1
    <3>2. IsFiniteSet({<<c, 1>>}) /\ Cardinality({<<c, 1>>}) = 1
      BY FS_Singleton
    <3>3. <<c, 2>> \notin {<<c, 1>>}
      OBVIOUS
    <3>4. Cardinality({<<c, 1>>} \union {<<c, 2>>}) = 1 + 1
      BY <3>2, <3>3, FS_AddElement
    <3> QED
      BY <2>1, <3>1, <3>4
  <2>2. CASE Fanout(c) = 3
    <3> DEFINE A == {<<c, 1>>} \union {<<c, 2>>}
    <3>1. {<<c, j>> : j \in 1 .. 3} = A \union {<<c, 3>>}
      <4>1. 1 .. 3 = {1, 2, 3}
        OBVIOUS
      <4> QED
        BY <4>1
    <3>2. IsFiniteSet({<<c, 1>>}) /\ Cardinality({<<c, 1>>}) = 1
      BY FS_Singleton
    <3>3. <<c, 2>> \notin {<<c, 1>>} /\ <<c, 3>> \notin A
      OBVIOUS
    <3>4. IsFiniteSet(A) /\ Cardinality(A) = 1 + 1
      BY <3>2, <3>3, FS_AddElement
    <3> HIDE DEF A
    <3>5. Cardinality(A \union {<<c, 3>>}) = 2 + 1
      BY <3>3, <3>4, FS_AddElement
    <3> QED
      BY <2>2, <3>1, <3>5
  <2> QED
    BY <1>2, <2>1, <2>2
<1> QED
  BY <1>3, <1>4 DEF c

(* A call whose count and tasks a step leaves alone.                       *)
LEMMA FrameCount ==
  ASSUME CountInv, NEW u \in Slots, NEW k \in Nat, k > 1, CallAt(u, k)',
         CallWas(u, k), OwnSame(u, k),
         pending'[stack[u][k].call] = pending[stack[u][k].call],
         LiveNext(stack[u][k].call) = Live(stack[u][k].call)
  PROVE  DueNext(u, k) = Cardinality(LiveNext(stack'[u][k].call))
<1>1. CallAt(u, k) /\ stack'[u][k].call = stack[u][k].call
  BY DEF CallWas
<1>2. Due(stack[u][k]) = Cardinality(Live(stack[u][k].call))
  BY <1>1 DEF CountInv
<1>3. DueNext(u, k) = Due(stack[u][k])
  BY <1>1 DEF DueNext, Due, OwnSame
<1> QED
  BY <1>1, <1>2, <1>3

(* A step that leaves all of them alone.                                   *)
LEMMA CountKept ==
  ASSUME TypeInv, StackInv, CallsInv, CountInv, UNCHANGED outer, outer # 0,
         pending'[outer] = pending[outer],
         \A c \in Calls : LiveNext(c) = Live(c),
         \A u \in Slots, k \in Nat : k > 1 /\ CallAt(u, k)' =>
           /\ CallWas(u, k) /\ OwnSame(u, k)
           /\ pending'[stack[u][k].call] = pending[stack[u][k].call],
         \A u \in Slots : u \notin job' /\ stack'[u] = <<>> =>
           (u \notin job /\ stack[u] = <<>>) \/ Live(outer) = {}
  PROVE  CountInv'
<1>1. outer \in Calls /\ outer' = outer
  BY OuterIs
<1>2. pending'[outer'] = Cardinality(LiveNext(outer'))
  BY <1>1 DEF CountInv
<1>3. ASSUME NEW u \in Slots, NEW k \in Nat, k > 1, CallAt(u, k)'
      PROVE  DueNext(u, k) = Cardinality(LiveNext(stack'[u][k].call))
  <2>1. /\ CallWas(u, k) /\ OwnSame(u, k)
        /\ pending'[stack[u][k].call] = pending[stack[u][k].call]
    BY <1>3
  <2>2. stack[u][k].call \in Calls
    BY <1>3, <2>1, CallFacts DEF CallWas
  <2> QED
    BY <1>3, <2>1, <2>2, FrameCount
<1>4. ASSUME NEW u \in Slots, u \notin job', stack'[u] = <<>>
      PROVE  LiveNext(outer') = {}
  <2>1. Live(outer) = {}
    BY <1>4 DEF CountInv
  <2> QED
    BY <1>1, <2>1
<1> QED
  BY <1>2, <1>3, <1>4, CountNext

(* A slot with frames does not become idle. *)
LEMMA IdleWas ==
  ASSUME TypeInv, NEW s \in Slots, OnlyStack(s), StackType, Len(stack'[s]) > 0,
         job \ {s} \subseteq job'
  PROVE  \A u \in Slots : u \notin job' /\ stack'[u] = <<>> =>
           u \notin job /\ stack[u] = <<>>
<1> SUFFICES ASSUME NEW u \in Slots, u \notin job', stack'[u] = <<>>
             PROVE  u \notin job /\ stack[u] = <<>>
  OBVIOUS
<1>1. u # s
  <2>1. u = s => Len(stack'[s]) = 0
    OBVIOUS
  <2> QED
    BY <2>1
<1> QED
  BY <1>1 DEF OnlyStack

(* A frame that moves on leaves the counts right.                          *)
LEMMA CountQuiet ==
  ASSUME TypeInv, StackInv, CallsInv, OuterInv, CountInv, NEW s \in Slots,
         LookOn(s) \/ TaskStep(s) \/ Begin(s)
  PROVE  CountInv'
<1>1. /\ UNCHANGED <<deque, outer, pending>> /\ OwnsBut(s, 0) /\ TasksBut(s, 0)
      /\ CallsBut(s, 0) \/ CallsBut(s, 1)
  BY QuietShape, BeginShape DEF Begin, stateVars
<1>2. outer # 0 /\ outer \in Calls /\ OnlyStack(s) /\ StackType
      /\ Len(stack'[s]) > 0 /\ job \ {s} \subseteq job'
  <2>1. CASE LookOn(s)
    <3>1. \E q \in Draining, p \in Draining : At(s, q) /\ Move(s, p)
      BY <2>1, QuietMove
    <3> QED
      BY <2>1, <3>1, Working, MoveStack, Topmost, QuietShape DEF CallPlaces
  <2>2. CASE TaskStep(s)
    <3>1. \E q \in TaskPlaces, p \in TaskPlaces : At(s, q) /\ Move(s, p)
      BY <2>2, TaskMove
    <3> QED
      BY <2>2, <3>1, Working, MoveStack, Topmost, QuietShape
  <2>3. CASE Begin(s)
    BY <2>3, BeginStack, CallsAre DEF Begin
  <2> QED
    BY <2>1, <2>2, <2>3
<1>3. \A c \in Calls : LiveNext(c) = Live(c)
  BY <1>1, LiveSame
<1>4. ASSUME NEW u \in Slots, NEW k \in Nat, k > 1
      PROVE  CallWas(u, k) /\ OwnSame(u, k)
  BY <1>1, <1>4 DEF CallsBut, CallSame, CallWas, OwnsBut
<1>5. \A u \in Slots : u \notin job' /\ stack'[u] = <<>> =>
        u \notin job /\ stack[u] = <<>>
  BY <1>2, IdleWas
<1> QED
  BY <1>1, <1>2, <1>3, <1>4, <1>5, CountKept

(* So does a task that is taken: it still counts.                          *)
LEMMA CountTake ==
  ASSUME TypeInv, StackInv, CallsInv, OuterInv, OnceInv, CountInv,
         NEW s \in Slots, NEW v \in Slots, (PopOwn(s) /\ v = s) \/ Steal(s, v)
  PROVE  CountInv'
<1>1. PICK i \in 1 .. Len(deque[v]), h \in {"own", "peer"}, q \in {"pop", "steal"} :
           /\ At(s, q) /\ deque[v][i] \in Tasks
           /\ Above(s, TaskFrame("gate", deque[v][i], h))
  BY TookTask
<1>2. /\ CallsBut(s, 0) /\ OwnsBut(s, 0) /\ OnlyStack(s) /\ StackType
      /\ Len(stack'[s]) > 0
  BY <1>1, TakeStack
<1>3. UNCHANGED <<outer, pending, job>>
  BY DEF PopOwn, Steal, stateVars
<1>4. outer # 0
  BY <1>1, Working
<1>5. \A c \in Calls : LiveNext(c) = Live(c)
  BY LiveTake
<1>6. ASSUME NEW u \in Slots, NEW k \in Nat, k > 1
      PROVE  CallWas(u, k) /\ OwnSame(u, k)
  BY <1>2, <1>6 DEF CallsBut, CallSame, CallWas, OwnsBut
<1>7. \A u \in Slots : u \notin job' /\ stack'[u] = <<>> =>
        u \notin job /\ stack[u] = <<>>
  BY <1>2, <1>3, IdleWas
<1> QED
  BY <1>3, <1>4, <1>5, <1>6, <1>7, CountKept

(* So does a share that is over: the count is 0 and nothing is left.       *)
LEMMA CountShare ==
  ASSUME TypeInv, StackInv, CallsInv, OuterInv, CountInv, NEW s \in Slots,
         ShareDone(s)
  PROVE  CountInv'
<1>1. /\ Len(stack[s]) = 1 /\ stack[s][1].call = outer /\ stack[s][1].own = 0
      /\ Effective(stack[s][1]) <= 0 /\ OnlyStack(s) /\ At(s, "drain")
      /\ stack' = [stack EXCEPT ![s] = Front(stack[s])]
  BY ShareStack
<1>2. outer # 0 /\ outer \in Calls
  BY <1>1, Working
<1>3. /\ OwnsBut(s, 0) /\ CallsBut(s, Len(stack[s])) /\ TasksBut(s, 0)
  BY <1>1, LeftTop, Apart
<1>4. CallsBut(s, 1)
  BY <1>1, <1>3
<1>5. UNCHANGED <<deque, outer, pending, job>>
  BY DEF ShareDone, stateVars
<1>6. \A c \in Calls : LiveNext(c) = Live(c)
  BY <1>3, <1>5, LiveSame
<1>7. ASSUME NEW u \in Slots, NEW k \in Nat, k > 1
      PROVE  CallWas(u, k) /\ OwnSame(u, k)
  BY <1>3, <1>4, <1>7 DEF CallsBut, CallSame, CallWas, OwnsBut
<1>8. Live(outer) = {}
  <2>1. pending[outer] = Cardinality(Live(outer))
    BY <1>2 DEF CountInv
  <2>2. Cardinality(Live(outer)) \in Nat
    BY <1>2, LiveIs
  <2>3. Cardinality(Live(outer)) = 0
    BY <1>1, <2>1, <2>2 DEF Effective
  <2> QED
    BY <1>2, <2>3, LiveIs
<1> QED
  BY <1>2, <1>5, <1>6, <1>7, <1>8, CountKept

(* So does a join that is done.                                            *)
LEMMA CountJoin ==
  ASSUME TypeInv, StackInv, CallsInv, OuterInv, CountInv, NEW s \in Slots,
         JoinDone(s)
  PROVE  CountInv'
<1> DEFINE n == Len(stack[s])
           c == stack[s][n].call
<1>1. /\ n \in Nat /\ n > 1 /\ stack[s][n].at = "drain" /\ c \in Calls
      /\ c = TopCall(s) /\ StackType /\ OnlyStack(s) /\ Len(stack'[s]) = n - 1
  BY JoinedStack
<1>2. CallAt(s, n)
  BY <1>1, Apart DEF CallAt
<1>3. c # outer /\ UNCHANGED <<deque, outer, job>>
      /\ pending' = [pending EXCEPT ![c] = 0]
  BY <1>1 DEF JoinDone, Close
<1>4. outer # 0 /\ outer \in Calls
  BY Working DEF JoinDone
<1>5. /\ CallsBut(s, n) /\ OwnsBut(s, 0) /\ TasksBut(s, 0)
      /\ \A k \in Nat : k = n => ~CallAt(s, k)'
  BY JoinedCall
<1>6. \A x \in Calls : LiveNext(x) = Live(x)
  BY <1>3, <1>5, LiveSame
<1>7. \A u \in Slots, k \in Nat : CallWas(u, k)
  BY <1>1, <1>5, CallsWere
<1>8. ASSUME NEW u \in Slots, NEW k \in Nat, k > 1, CallAt(u, k)'
      PROVE  /\ CallWas(u, k) /\ OwnSame(u, k)
             /\ pending'[stack[u][k].call] = pending[stack[u][k].call]
  <2>1. CallAt(u, k)
    BY <1>7, <1>8 DEF CallWas
  <2>2. OwnSame(u, k)
    BY <1>5, <1>8 DEF OwnsBut
  <2>3. stack[u][k].call # c
    <3> SUFFICES ASSUME stack[u][k].call = c PROVE FALSE
      OBVIOUS
    <3>1. u = s /\ k = n
      BY <1>1, <1>2, <2>1, CallOnce
    <3> QED
      BY <1>5, <1>8, <3>1
  <2>4. stack[u][k].call \in Calls
    BY <2>1, CallFacts
  <2> QED
    BY <1>3, <1>7, <2>2, <2>3, <2>4 DEF TypeInv
<1>9. \A u \in Slots : u \notin job' /\ stack'[u] = <<>> =>
        u \notin job /\ stack[u] = <<>>
  BY <1>1, <1>3, IdleWas
<1>10. pending'[outer] = pending[outer]
  BY <1>3, <1>4 DEF TypeInv
<1> QED
  BY <1>3, <1>4, <1>6, <1>8, <1>9, <1>10, CountKept

(* So does a task that forks: the count is due to what will be pushed.     *)
LEMMA CountFork ==
  ASSUME TypeInv, StackInv, CallsInv, OuterInv, DequeInv, OnceInv, CountInv,
         NEW s \in Slots, BodyFork(s)
  PROVE  CountInv'
<1> DEFINE n == Len(stack[s])
           c == used + 1
<1>1. /\ c \in Calls /\ c # outer /\ c \notin open
      /\ n \in Nat /\ n > 0 /\ StackType /\ OnlyStack(s) /\ Len(stack'[s]) = n + 1
      /\ stack'[s][n + 1].at = "push" /\ stack'[s][n + 1].call = c
      /\ stack'[s][n + 1].own = 0
      /\ CallsBut(s, n + 1) /\ OwnsBut(s, 0) /\ TasksBut(s, 0)
  BY ForkStack, EnteredCall, Apart
<1>2. /\ UNCHANGED <<deque, outer, job>> /\ At(s, "body")
      /\ pending' = [pending EXCEPT ![c] = Deferred(c)]
  BY DEF BodyFork, InitialCount
<1>3. outer # 0 /\ outer \in Calls
  BY <1>2, Working
<1>4. \A x \in Calls : LiveNext(x) = Live(x)
  BY <1>1, <1>2, LiveSame
<1>5. Live(c) = {}
  <2>1. ASSUME NEW t \in Live(c) PROVE FALSE
    <3>1. CallOf(t) = c /\ (OfferedAt(t) \/ CountedAt(t))
      BY DEF Live
    <3>2. OfferedAt(t) => CallOf(t) \in open
      BY DEF OfferedAt, DequeInv
    <3>3. CountedAt(t) => CallOf(t) \in open
      BY DEF CountedAt, OnceInv, TakenOpen
    <3> QED
      BY <1>1, <3>1, <3>2, <3>3
  <2> QED
    BY <2>1
<1> HIDE DEF n, c
<1>6. \A x \in Calls : x # c => pending'[x] = pending[x]
  BY <1>2 DEF TypeInv
<1>7. pending'[c] = Deferred(c)
  BY <1>1, <1>2 DEF TypeInv
<1>8. pending'[outer'] = Cardinality(LiveNext(outer'))
  BY <1>1, <1>2, <1>3, <1>4, <1>6 DEF CountInv
<1>9. ASSUME NEW u \in Slots, NEW k \in Nat, k > 1, CallAt(u, k)'
      PROVE  DueNext(u, k) = Cardinality(LiveNext(stack'[u][k].call))
  <2>1. CASE u = s /\ k = n + 1
    <3>1. DueNext(u, k) = Deferred(c) - (Deferred(c) - 0)
      BY <1>1, <1>7, <2>1 DEF DueNext
    <3>2. Deferred(c) \in {1, 2}
      BY CallsAre
    <3>3. LiveNext(stack'[u][k].call) = {}
      BY <1>1, <1>4, <1>5, <2>1
    <3>4. Cardinality({}) = 0
      BY FS_EmptySet
    <3> QED
      BY <3>1, <3>2, <3>3, <3>4
  <2>2. CASE ~(u = s /\ k = n + 1)
    <3>1. CallAt(u, k) /\ stack'[u][k].call = stack[u][k].call
      BY <1>1, <1>9, <2>2 DEF CallsBut, CallSame
    <3>2. OwnSame(u, k)
      BY <1>1, <1>9 DEF OwnsBut
    <3>3. stack[u][k].call \in Calls /\ stack[u][k].call # c
      BY <1>1, <3>1, CallFacts
    <3>4. CallWas(u, k)
      BY <3>1 DEF CallWas
    <3> QED
      BY <1>4, <1>6, <1>9, <3>2, <3>3, <3>4, FrameCount
  <2> QED
    BY <2>1, <2>2
<1>10. \A u \in Slots : u \notin job' /\ stack'[u] = <<>> =>
         u \notin job /\ stack[u] = <<>>
  <2>1. Len(stack'[s]) > 0 /\ job \ {s} \subseteq job'
    BY <1>1, <1>2
  <2> QED
    BY <1>1, <2>1, IdleWas
<1>11. ASSUME NEW u \in Slots, u \notin job', stack'[u] = <<>>
       PROVE  LiveNext(outer') = {}
  <2>1. Live(outer) = {}
    BY <1>3, <1>10, <1>11 DEF CountInv
  <2> QED
    BY <1>2, <1>3, <1>4, <2>1
<1> QED
  BY <1>8, <1>9, <1>11, CountNext

(* So does a task that retires: it is counted once, on one of the counts.  *)
LEMMA CountRetire ==
  ASSUME TypeInv, StackInv, CallsInv, OuterInv, OnceInv, CountInv,
         NEW s \in Slots, Retire(s)
  PROVE  CountInv'
<1> DEFINE n == Len(stack[s])
           f == stack[s][n]
           b == stack[s][n - 1]
           c == CallOf(f.task)
<1>1. /\ n \in Nat /\ n > 1 /\ Last(stack[s]) = f
      /\ f.at \in {"retire", "skipped"}
      /\ f.task \in Tasks /\ f.how \in Hows
      /\ b.at = IF f.how = "tail" THEN "tail" ELSE "drain"
      /\ b.call \in Calls /\ b.own \in Nat
      /\ StackType /\ OnlyStack(s) /\ Len(stack'[s]) = n - 1
      /\ stack'[s][n - 1].at = "drain" /\ stack'[s][n - 1].call = b.call
      /\ stack'[s][n - 1].own = IF f.how = "own" THEN b.own + 1 ELSE b.own
  BY RetiredStack
<1>2. c \in Calls
  BY <1>1, TasksAre
<1>3. /\ UNCHANGED <<deque, outer, job>>
      /\ pending' = IF f.how = "peer" THEN [pending EXCEPT ![c] = @ - 1] ELSE pending
  BY <1>1 DEF Retire, Shared, Weight
<1>4. outer # 0 /\ outer \in Calls
  BY Working DEF Retire
<1>5. CallsBut(s, 0) /\ OwnsBut(s, n - 1) /\ (f.how # "own" => OwnsBut(s, 0))
  BY RetiredTask
<1>6. f.how = "own" => b.call # outer /\ c = b.call
  <2>1. TaskAt(s, n) /\ n \in 1 .. Len(stack[s])
    BY <1>1, Apart DEF TaskAt
  <2>2. OnTopAt(s, n)
    BY <2>1 DEF StackInv
  <2> QED
    BY <2>1, <2>2 DEF OnTopAt
<1>7. CallAt(s, n - 1)
  <2>1. n - 1 \in 1 .. Len(stack[s]) /\ b.at \in CallPlaces
    BY <1>1, Apart
  <2> QED
    BY <2>1 DEF CallAt
<1>8. /\ f.how = "tail" => \A x \in Calls : LiveNext(x) = Live(x)
      /\ f.how # "tail" =>
           /\ \A x \in Calls : x # c => LiveNext(x) = Live(x)
           /\ f.task \in Live(c) /\ LiveNext(c) = Live(c) \ {f.task}
  BY LiveRetire
<1>9. f.how # "tail" => Cardinality(LiveNext(c)) = Cardinality(Live(c)) - 1
  BY <1>2, <1>8, LiveIs, FS_RemoveElement
<1>10. \A x \in Calls : LiveNext(x) \subseteq Live(x)
  BY <1>8
<1>11. ASSUME NEW u \in Slots, NEW k \in Nat, k > 1
       PROVE  CallWas(u, k) /\ (CallAt(u, k) => CallAt(u, k)')
  BY <1>5, <1>11 DEF CallsBut, CallSame, CallWas
<1>12. ASSUME NEW u \in Slots, u \notin job', stack'[u] = <<>>
       PROVE  LiveNext(outer') = {}
  <2>1. Len(stack'[s]) > 0 /\ job \ {s} \subseteq job'
    BY <1>1, <1>3
  <2>2. u \notin job /\ stack[u] = <<>>
    BY <1>1, <1>12, <2>1, IdleWas
  <2>3. Live(outer) = {}
    BY <1>4, <2>2 DEF CountInv
  <2> QED
    BY <1>3, <1>4, <1>10, <2>3
<1>13. outer # 0 => pending[outer] = Cardinality(Live(outer))
  BY DEF CountInv
<1> HIDE DEF n, f, b, c
<1>14. CASE f.how = "tail"
  <2>1. UNCHANGED pending /\ OwnsBut(s, 0)
    BY <1>3, <1>5, <1>14
  <2>2. ASSUME NEW u \in Slots, NEW k \in Nat, k > 1, CallAt(u, k)'
        PROVE  DueNext(u, k) = Cardinality(LiveNext(stack'[u][k].call))
    <3>1. OwnSame(u, k)
      BY <2>1, <2>2 DEF OwnsBut
    <3>2. CallWas(u, k)
      BY <1>11, <2>2
    <3>3. stack[u][k].call \in Calls
      BY <2>2, <3>2, CallFacts DEF CallWas
    <3>4. LiveNext(stack[u][k].call) = Live(stack[u][k].call)
      BY <1>8, <1>14, <3>3
    <3> QED
      BY <2>1, <2>2, <3>1, <3>2, <3>4, FrameCount
  <2>3. pending'[outer'] = Cardinality(LiveNext(outer'))
    BY <1>3, <1>4, <1>8, <1>13, <1>14, <2>1
  <2> QED
    BY <1>12, <2>2, <2>3, CountNext
<1>15. CASE f.how = "peer"
  <2>1. OwnsBut(s, 0)
    BY <1>5, <1>15
  <2>2. /\ \A x \in Calls : x # c => pending'[x] = pending[x]
        /\ pending'[c] = pending[c] - 1
    BY <1>2, <1>3, <1>15 DEF TypeInv
  <2>3. Cardinality(LiveNext(c)) = Cardinality(Live(c)) - 1
    BY <1>9, <1>15
  <2>4. \A x \in Calls : x # c => LiveNext(x) = Live(x)
    BY <1>8, <1>15
  <2>5. pending'[outer'] = Cardinality(LiveNext(outer'))
    <3>1. CASE outer = c
      BY <1>3, <1>4, <1>13, <2>2, <2>3, <3>1
    <3>2. CASE outer # c
      BY <1>3, <1>4, <1>13, <2>2, <2>4, <3>2
    <3> QED
      BY <3>1, <3>2
  <2>6. ASSUME NEW u \in Slots, NEW k \in Nat, k > 1, CallAt(u, k)'
        PROVE  DueNext(u, k) = Cardinality(LiveNext(stack'[u][k].call))
    <3>1. OwnSame(u, k)
      BY <2>1, <2>6 DEF OwnsBut
    <3>2. CallWas(u, k)
      BY <1>11, <2>6
    <3>3. CallAt(u, k) /\ stack'[u][k].call = stack[u][k].call
      BY <2>6, <3>2 DEF CallWas
    <3>4. /\ stack[u][k].call \in Calls /\ stack[u][k].own \in Nat
      BY <3>3, CallFacts
    <3>5. CASE stack[u][k].call # c
      BY <2>2, <2>4, <2>6, <3>1, <3>2, <3>4, <3>5, FrameCount
    <3>6. CASE stack[u][k].call = c
      <4>1. Due(stack[u][k]) = Cardinality(Live(c))
        BY <2>6, <3>3, <3>6 DEF CountInv
      <4>2. /\ stack'[u][k].own = stack[u][k].own
            /\ stack'[u][k].at = "push" <=> stack[u][k].at = "push"
        BY <2>6, <3>1, <3>3 DEF OwnSame
      <4>3. pending[c] \in Int /\ Deferred(c) \in {1, 2}
        BY <1>2, CallsAre DEF TypeInv
      <4>4. DueNext(u, k) = Due(stack[u][k]) - 1
        BY <2>2, <3>3, <3>4, <3>6, <4>2, <4>3 DEF DueNext, Due
      <4> QED
        BY <2>3, <3>3, <3>6, <4>1, <4>4
    <3> QED
      BY <3>5, <3>6
  <2> QED
    BY <1>12, <2>5, <2>6, CountNext
<1>16. CASE f.how = "own"
  <2>1. UNCHANGED pending
    BY <1>3, <1>16
  <2>2. Cardinality(LiveNext(c)) = Cardinality(Live(c)) - 1
    BY <1>9, <1>16
  <2>3. \A x \in Calls : x # c => LiveNext(x) = Live(x)
    BY <1>8, <1>16
  <2>4. c # outer
    BY <1>6, <1>16
  <2>5. pending'[outer'] = Cardinality(LiveNext(outer'))
    BY <1>3, <1>4, <1>13, <2>1, <2>3, <2>4
  <2>6. n - 1 \in Nat /\ n - 1 > 1
    <3>1. n - 1 \in Nat /\ n - 1 >= 1
      BY <1>1
    <3>2. n - 1 # 1
      BY <1>6, <1>7, <1>16, <3>1, CallFacts DEF b
    <3>3. \A m \in Nat : m >= 1 /\ m # 1 => m > 1
      OBVIOUS
    <3> HIDE DEF n
    <3> QED
      BY <3>1, <3>2, <3>3
  <2>7. ASSUME NEW u \in Slots, NEW k \in Nat, k > 1, CallAt(u, k)'
        PROVE  DueNext(u, k) = Cardinality(LiveNext(stack'[u][k].call))
    <3>1. CallWas(u, k)
      BY <1>11, <2>7
    <3>2. CallAt(u, k) /\ stack'[u][k].call = stack[u][k].call
      BY <2>7, <3>1 DEF CallWas
    <3>3. /\ stack[u][k].call \in Calls /\ stack[u][k].own \in Nat
      BY <3>2, CallFacts
    <3>4. CASE u = s /\ k = n - 1
      <4>1. /\ stack[u][k] = b /\ stack'[u][k].at = "drain"
            /\ stack'[u][k].call = c /\ stack'[u][k].own = b.own + 1
            /\ b.at = "drain" /\ b.call = c
        BY <1>1, <1>6, <1>16, <3>4 DEF b
      <4>2. Due(b) = Cardinality(Live(c))
        BY <2>7, <3>2, <4>1 DEF CountInv
      <4>3. pending[c] \in Int
        BY <1>2 DEF TypeInv
      <4>4. DueNext(u, k) = Due(b) - 1
        BY <1>1, <2>1, <4>1, <4>3 DEF DueNext, Due
      <4> QED
        BY <2>2, <4>1, <4>2, <4>4
    <3>5. CASE ~(u = s /\ k = n - 1)
      <4>1. OwnSame(u, k)
        BY <1>5, <3>5 DEF OwnsBut
      <4>2. stack[u][k].call # c
        <5> SUFFICES ASSUME stack[u][k].call = c PROVE FALSE
          OBVIOUS
        <5>1. stack[u][k].call = stack[s][n - 1].call
          BY <1>6, <1>16 DEF b
        <5>2. u = s /\ k = n - 1
          BY <1>7, <2>6, <3>2, <5>1, CallOnce
        <5> QED
          BY <3>5, <5>2
      <4>3. LiveNext(stack[u][k].call) = Live(stack[u][k].call)
        BY <2>3, <3>3, <4>2
      <4> QED
        BY <2>1, <2>7, <3>1, <4>1, <4>3, FrameCount
    <3> QED
      BY <3>4, <3>5
  <2> QED
    BY <1>12, <2>5, <2>7, CountNext
<1> QED
  BY <1>1, <1>14, <1>15, <1>16 DEF Hows

(* So does a call that pushes.                                             *)
LEMMA CountPush ==
  ASSUME TypeInv, StackInv, CallsInv, OuterInv, UnpushedInv, CountInv,
         NEW s \in Slots, Push(s)
  PROVE  CountInv'
<1> DEFINE n == Len(stack[s])
           c == Spreading(s)
           o == stack[s][n].own
<1>1. /\ n \in Nat /\ n > 1 /\ c \in Calls /\ CallAt(s, n) /\ PushAt(s, n)
      /\ CallsBut(s, 0) /\ OwnsBut(s, n) /\ c = stack[s][n].call
  BY PushAdds
<1>2. /\ c # outer /\ o \in Nat /\ o + 1 <= Deferred(c)
      /\ stack[s][n].at = "push" /\ Last(stack[s]) = stack[s][n]
      /\ TopCall(s) = c
  BY PushingCall DEF Spreading, TopCall
<1>3. UNCHANGED <<outer, job, pending>>
  BY DEF Push, stateVars
<1>4. outer # 0 /\ outer \in Calls
  BY Working DEF Push
<1>5. /\ \A x \in Calls : x # c => LiveNext(x) = Live(x)
      /\ NextTask(s) \notin Live(c) /\ LiveNext(c) = Live(c) \union {NextTask(s)}
  BY LivePush
<1>6. Cardinality(LiveNext(c)) = Cardinality(Live(c)) + 1
  BY <1>1, <1>5, LiveIs, FS_AddElement
<1>7. pending'[outer'] = Cardinality(LiveNext(outer'))
  BY <1>2, <1>3, <1>4, <1>5 DEF CountInv
<1>8. /\ StackType /\ OnlyStack(s) /\ Len(stack'[s]) > 0
      /\ stack'[s][n].call = c
      /\ \/ stack'[s][n].at = "push" /\ stack'[s][n].own = o + 1
         \/ stack'[s][n].at = "tail" /\ stack'[s][n].own = 0 /\ o + 1 = Deferred(c)
  <2>1. CASE o + 1 < Deferred(TopCall(s))
    BY <1>1, <2>1, PushedMore
  <2>2. CASE ~(o + 1 < Deferred(TopCall(s)))
    <3>1. /\ StackType /\ OnlyStack(s) /\ Len(stack'[s]) = n + 1
          /\ stack'[s][n].call = c
          /\ stack'[s][n].at = "tail" /\ stack'[s][n].own = 0
      BY <1>1, <2>2, PushedLast
    <3>2. o + 1 = Deferred(c)
      <4>1. o + 1 <= Deferred(c) /\ ~(o + 1 < Deferred(c)) /\ Deferred(c) \in {1, 2}
            /\ o \in Nat
        BY <1>2, <2>2, CallsAre
      <4> HIDE DEF o
      <4> QED
        BY <4>1
    <3> QED
      BY <1>1, <3>1, <3>2
  <2> QED
    BY <2>1, <2>2
<1>9. pending[c] \in Int /\ Deferred(c) \in {1, 2}
  BY <1>1, CallsAre DEF TypeInv
<1> HIDE DEF n, c, o
<1>10. Due(stack[s][n]) = Cardinality(Live(c))
  BY <1>1 DEF CountInv
<1>11. Due(stack[s][n]) = pending[c] - (Deferred(c) - o)
  BY <1>1, <1>2 DEF Due, o
<1>12. ASSUME NEW k \in Nat, k = n
       PROVE  DueNext(s, k) = Due(stack[s][n]) + 1
  <2>1. CASE stack'[s][n].at = "push" /\ stack'[s][n].own = o + 1
    <3>1. DueNext(s, k) = pending[c] - (Deferred(c) - (o + 1))
      BY <1>3, <1>8, <1>12, <2>1 DEF DueNext
    <3> QED
      BY <1>2, <1>9, <1>11, <3>1
  <2>2. CASE stack'[s][n].at = "tail" /\ stack'[s][n].own = 0 /\ o + 1 = Deferred(c)
    <3>1. DueNext(s, k) = pending[c] - 0
      BY <1>3, <1>8, <1>12, <2>2 DEF DueNext
    <3> QED
      BY <1>2, <1>9, <1>11, <2>2, <3>1
  <2> QED
    BY <1>8, <2>1, <2>2
<1>13. ASSUME NEW u \in Slots, NEW k \in Nat, k > 1, CallAt(u, k)'
       PROVE  DueNext(u, k) = Cardinality(LiveNext(stack'[u][k].call))
  <2>1. CallWas(u, k)
    BY <1>1, <1>13 DEF CallsBut, CallSame, CallWas
  <2>2. CallAt(u, k) /\ stack'[u][k].call = stack[u][k].call
    BY <1>13, <2>1 DEF CallWas
  <2>3. CASE u = s /\ k = n
    <3>1. DueNext(u, k) = Due(stack[s][n]) + 1 /\ stack'[u][k].call = c
      BY <1>8, <1>12, <2>3
    <3> QED
      BY <1>6, <1>10, <3>1
  <2>4. CASE ~(u = s /\ k = n)
    <3>1. OwnSame(u, k)
      BY <1>1, <2>4 DEF OwnsBut
    <3>2. stack[u][k].call # c
      BY <1>1, <2>2, <2>4, CallOnce
    <3>3. stack[u][k].call \in Calls
      BY <2>2, CallFacts
    <3>4. LiveNext(stack[u][k].call) = Live(stack[u][k].call)
      BY <1>5, <3>2, <3>3
    <3> QED
      BY <1>3, <1>13, <2>1, <3>1, <3>4, FrameCount
  <2> QED
    BY <2>3, <2>4
<1>14. ASSUME NEW u \in Slots, u \notin job', stack'[u] = <<>>
       PROVE  LiveNext(outer') = {}
  <2>1. job \ {s} \subseteq job'
    BY <1>3
  <2>2. u \notin job /\ stack[u] = <<>>
    BY <1>8, <1>14, <2>1, IdleWas
  <2>3. Live(outer) = {}
    BY <1>4, <2>2 DEF CountInv
  <2> QED
    BY <1>2, <1>3, <1>4, <1>5, <2>3
<1> QED
  BY <1>7, <1>13, <1>14, CountNext

(* Every step keeps the counts.                                            *)
LEMMA CountStep ==
  ASSUME TypeInv, StackInv, CallsInv, OuterInv, DequeInv, OnceInv, UnpushedInv,
         CountInv, [Next]_vars
  PROVE  CountInv'
<1>1. CASE OuterCall
  <2> DEFINE c == used + 1
  <2>1. /\ c \in Calls /\ outer' = c /\ job' = Slots
        /\ \A u \in Slots, k \in Nat : ~CallAt(u, k)'
        /\ pending' = [pending EXCEPT ![c] = Fanout(c)]
    BY <1>1, OuterAdds DEF OuterCall
  <2>2. pending'[c] = Fanout(c)
    BY <2>1 DEF TypeInv
  <2>3. pending'[outer'] = Cardinality(LiveNext(outer'))
    BY <1>1, <2>1, <2>2, LiveOuter
  <2> QED
    BY <2>1, <2>3, CountNext
<1>2. CASE Return
  <2>1. outer' = 0 /\ UNCHANGED stack
    BY <1>2 DEF Return
  <2>2. \A u \in Slots, k \in Nat : ~CallAt(u, k)
    BY <1>2, NothingOffered
  <2>3. \A u \in Slots, k \in Nat : ~CallAt(u, k)'
    BY <2>1, <2>2 DEF CallAt
  <2> QED
    BY <2>1, <2>3, CountNext
<1>3. CASE Stop \/ UNCHANGED vars
  <2>1. UNCHANGED <<deque, stack, outer, job, pending>>
    BY <1>3 DEF Stop, vars, stateVars
  <2> QED
    BY <2>1 DEF CountInv, Live, OfferedAt, CountedAt, TaskAt, CallAt, Due
<1>4. ASSUME NEW s \in Slots, Slot(s) PROVE CountInv'
  BY <1>4, SlotStep, CountQuiet, CountTake, CountShare, CountJoin, CountFork,
     CountRetire, CountPush
<1> QED
  BY <1>1, <1>2, <1>3, <1>4 DEF Next, AllCallsMade

-----------------------------------------------------------------------------
(***************************************************************************)
(* Thieves take the older tasks first: StolenInv.                          *)
(***************************************************************************)
(* No task of a nested call is stolen while an older one is offered.       *)
OlderNext(s, c) == \E j \in 1 .. Len(deque'[s]) : CallOf(deque'[s][j]) < c

(* StolenInv of the next state.                                            *)
LEMMA StolenNext ==
  ASSUME \A s \in Slots, k \in Nat :
           k > 1 /\ CallAt(s, k)' /\ OlderNext(s, stack'[s][k].call) =>
             \A u \in Slots, l \in Nat :
               TaskAt(u, l)' /\ CallOf(stack'[u][l].task) = stack'[s][k].call
                 => stack'[u][l].how # "peer"
  PROVE  StolenInv'
BY DEF StolenInv, Older, OlderNext

(* Steps by which no call and no thief gets a task.                        *)
LEMMA StolenKept ==
  ASSUME StolenInv,
         \A u \in Slots, k \in Nat : k > 1 => CallWas(u, k),
         \A u \in Slots, k \in Nat :
           k > 1 /\ CallAt(u, k) /\ OlderNext(u, stack[u][k].call)
             => Older(u, stack[u][k].call),
         \A u \in Slots, l \in Nat :
           TaskAt(u, l)' => TaskWas(u, l) \/ stack'[u][l].how # "peer"
  PROVE  StolenInv'
<1> SUFFICES ASSUME NEW s \in Slots, NEW k \in Nat, k > 1, CallAt(s, k)',
                    OlderNext(s, stack'[s][k].call),
                    NEW u \in Slots, NEW l \in Nat, TaskAt(u, l)',
                    CallOf(stack'[u][l].task) = stack'[s][k].call
             PROVE  stack'[u][l].how # "peer"
  BY StolenNext
<1>1. CallAt(s, k) /\ stack'[s][k].call = stack[s][k].call
  BY DEF CallWas
<1>2. Older(s, stack[s][k].call)
  BY <1>1
<1>3. CASE TaskWas(u, l)
  <2>1. /\ TaskAt(u, l) /\ stack'[u][l].task = stack[u][l].task
        /\ stack'[u][l].how = stack[u][l].how
    BY <1>3 DEF TaskWas
  <2> QED
    BY <1>1, <1>2, <2>1 DEF StolenInv
<1> QED
  BY <1>3

(* The same deques hold the same older tasks.                              *)
LEMMA OlderSame ==
  ASSUME UNCHANGED deque, NEW u, NEW c, OlderNext(u, c)
  PROVE  Older(u, c)
BY DEF OlderNext, Older

(* The calls that were nested before a plain step.                         *)
LEMMA PlainCalls ==
  ASSUME TypeInv, StackInv, OuterInv, NEW s \in Slots, Plain(s)
  PROVE  \A u \in Slots, k \in Nat : k > 1 => CallWas(u, k)
<1>1. CASE LookOn(s) \/ TaskStep(s)
  BY <1>1, QuietShape, CallsWere, NoFrame0
<1>2. CASE Begin(s)
  BY <1>2, BeginShape DEF CallsBut, CallSame, CallWas
<1>3. CASE ShareDone(s)
  <2>1. /\ CallsBut(s, Len(stack[s])) /\ Len(stack[s]) \in Nat
        /\ \A k \in Nat : k = Len(stack[s]) => ~CallAt(s, k)'
    BY <1>3, ShareStack, LeftTop, Apart
  <2> QED
    BY <2>1, CallsWere
<1>4. CASE JoinDone(s)
  <2>1. /\ CallsBut(s, Len(stack[s])) /\ Len(stack[s]) \in Nat
        /\ \A k \in Nat : k = Len(stack[s]) => ~CallAt(s, k)'
    BY <1>4, JoinedCall, Heights
  <2> QED
    BY <2>1, CallsWere
<1>5. CASE Retire(s)
  BY <1>5, RetiredTask, CallsWere, NoFrame0
<1> QED
  BY <1>1, <1>2, <1>3, <1>4, <1>5 DEF Plain

(* A task that forks: nothing of the new call is anywhere.                 *)
LEMMA StolenFork ==
  ASSUME TypeInv, OuterInv, OnceInv, StolenInv, NEW s \in Slots, BodyFork(s)
  PROVE  StolenInv'
<1> DEFINE n == Len(stack[s])
           c == used + 1
<1>1. /\ c \notin open /\ n \in Nat /\ stack'[s][n + 1].call = c
      /\ CallsBut(s, n + 1) /\ TasksBut(s, 0)
  BY ForkStack, EnteredCall, Apart
<1>2. UNCHANGED deque
  BY DEF BodyFork
<1>3. \A u \in Slots, k \in Nat : TaskWas(u, k)
  BY <1>1, TasksWere, NoFrame0
<1> HIDE DEF n, c
<1> SUFFICES ASSUME NEW w \in Slots, NEW k \in Nat, k > 1, CallAt(w, k)',
                    OlderNext(w, stack'[w][k].call),
                    NEW u \in Slots, NEW l \in Nat, TaskAt(u, l)',
                    CallOf(stack'[u][l].task) = stack'[w][k].call
             PROVE  stack'[u][l].how # "peer"
  BY StolenNext
<1>4. /\ TaskAt(u, l) /\ stack'[u][l].task = stack[u][l].task
      /\ stack'[u][l].how = stack[u][l].how
  BY <1>3 DEF TaskWas
<1>5. CallOf(stack[u][l].task) \in open
  BY <1>4 DEF OnceInv, TakenOpen
<1>6. ~(w = s /\ k = n + 1)
  BY <1>1, <1>4, <1>5
<1>7. CallAt(w, k) /\ stack'[w][k].call = stack[w][k].call
  BY <1>1, <1>6 DEF CallsBut, CallSame
<1>8. Older(w, stack[w][k].call)
  BY <1>2, <1>7, OlderSame
<1> QED
  BY <1>4, <1>7, <1>8 DEF StolenInv

(* Who takes a task as a peer's takes the oldest of its deque, or one of   *)
(* the outer call.                                                         *)
LEMMA StolenTake ==
  ASSUME TypeInv, StackInv, CallsInv, DequeInv, StolenInv, PopsItsOwn,
         NEW s \in Slots, NEW v \in Slots, (PopOwn(s) /\ v = s) \/ Steal(s, v)
  PROVE  StolenInv'
<1> DEFINE n == Len(stack[s])
<1>1. PICK i \in 1 .. Len(deque[v]), d \in {0, 1}, h \in {"own", "peer"},
           q \in {"pop", "steal"} :
           /\ At(s, q) /\ TakesFrom(v, i, d) /\ DequeType /\ deque[v][i] \in Tasks
           /\ Above(s, TaskFrame("gate", deque[v][i], h))
           /\ h = "own" <=> q = "pop" /\ Counts(TopCall(s))
                              /\ CallOf(deque[v][i]) = TopCall(s)
           /\ q = "pop" => v = s /\ i = Len(deque[v]) /\ d = 0
           /\ q = "steal" => v # s /\ i = 1 /\ d = 1
  BY TookTask
<1> DEFINE t == deque[v][i]
<1>2. /\ n \in Nat /\ n > 0 /\ stack[s][n].at = q
      /\ CallsBut(s, 0) /\ TasksBut(s, n + 1)
      /\ stack'[s][n + 1].task = t /\ stack'[s][n + 1].how = h
      /\ TopCall(s) = stack[s][n].call
  BY <1>1, TakeStack
<1>3. \A u \in Slots, k \in Nat : CallWas(u, k)
  BY <1>2, CallsWere, NoFrame0
<1>4. HomeAt(v, CallOf(t)) /\ \A j \in 1 .. Len(deque[v]) : LineAt(v, i, j)
  BY <1>1 DEF DequeInv
<1> HIDE DEF n
<1> SUFFICES ASSUME NEW w \in Slots, NEW k \in Nat, k > 1, CallAt(w, k)',
                    OlderNext(w, stack'[w][k].call),
                    NEW u \in Slots, NEW l \in Nat, TaskAt(u, l)',
                    CallOf(stack'[u][l].task) = stack'[w][k].call,
                    stack'[u][l].how = "peer"
             PROVE  FALSE
  BY StolenNext
<1> DEFINE c == stack[w][k].call
<1>5. CallAt(w, k) /\ stack'[w][k].call = c
  BY <1>3 DEF CallWas
<1>6. c # outer /\ c \in Nat /\ c \in Calls
  BY <1>5, CallFacts
<1>7. PICK j \in 1 .. Len(deque'[w]) : CallOf(deque'[w][j]) < c
  BY <1>5 DEF OlderNext
<1> DEFINE x == Was(w, v, d, j)
<1>8. x \in 1 .. Len(deque[w]) /\ deque'[w][j] = deque[w][x]
  BY <1>1, OfferedWas
<1>9. CallOf(deque[w][x]) < c
  BY <1>7, <1>8
<1>10. Older(w, c)
  <2> HIDE DEF x
  <2> QED
    BY <1>8, <1>9 DEF Older
<1>11. CASE ~(u = s /\ l = n + 1)
  <2>1. /\ TaskAt(u, l) /\ stack'[u][l].task = stack[u][l].task
        /\ stack'[u][l].how = stack[u][l].how
    BY <1>2, <1>11 DEF TasksBut, TaskSame
  <2> QED
    BY <1>5, <1>10, <2>1 DEF StolenInv
<1>12. CASE u = s /\ l = n + 1
  <2>1. CallOf(t) = c /\ h = "peer"
    BY <1>2, <1>5, <1>12
  <2>2. CASE q = "steal"
    <3>1. i = 1 /\ d = 1
      BY <1>1, <2>2
    <3>2. PICK m \in 2 .. Len(stack[v]) : CallAt(v, m) /\ stack[v][m].call = c
      BY <1>4, <1>6, <2>1 DEF HomeAt
    <3>3. m \in Nat /\ m > 1
      BY <3>2
    <3>4. v = w
      BY <1>5, <3>2, <3>3, CallOnce
    <3>5. CallOf(t) <= CallOf(deque[w][x])
      <4>1. x \in 1 .. Len(deque[v]) /\ i <= x
        BY <1>8, <3>1, <3>4
      <4> HIDE DEF x, t
      <4> QED
        BY <1>4, <3>4, <4>1 DEF LineAt, t
    <3>6. CallOf(deque[w][x]) \in Nat
      BY <1>8, Heights, TasksAre, CallsAre
    <3> HIDE DEF x, t, c
    <3> QED
      BY <1>6, <1>9, <2>1, <3>5, <3>6
  <2>3. CASE q = "pop"
    <3>1. v = s /\ i = Len(deque[s]) /\ deque[s] # <<>> /\ At(s, "pop")
      <4>1. v = s /\ i = Len(deque[s]) /\ At(s, "pop")
        BY <1>1, <2>3
      <4>2. Len(deque[s]) # 0
        BY <1>1, <4>1
      <4> QED
        BY <4>1, <4>2, Heights
    <3>2. CallOf(t) = CallOf(Last(deque[s]))
      BY <3>1 DEF Last
    <3>3. ~Counts(TopCall(s))
      BY <1>1, <2>1, <2>3, <3>1, <3>2 DEF PopsItsOwn
    <3>4. CallAt(s, n)
      BY <1>2, <2>3, Apart DEF CallAt, n
    <3>5. n = 1
      <4>1. stack[s][n].call = outer
        BY <1>2, <3>3 DEF Counts
      <4>2. ~(n > 1)
        BY <1>2, <3>4, <4>1, CallFacts
      <4> QED
        BY <1>2, <4>2
    <3>6. PICK m \in 2 .. Len(stack[s]) : CallAt(s, m)
      BY <1>4, <1>6, <2>1, <3>1 DEF HomeAt
    <3> QED
      BY <3>5, <3>6 DEF n
  <2> QED
    BY <2>2, <2>3
<1> QED
  BY <1>11, <1>12

(* A push goes on top of the older ones.                                   *)
LEMMA StolenPush ==
  ASSUME TypeInv, StackInv, CallsInv, UnpushedInv, StolenInv,
         NEW s \in Slots, Push(s)
  PROVE  StolenInv'
<1> DEFINE n == Len(stack[s])
           m == Len(deque[s])
           c == Spreading(s)
           t == NextTask(s)
<1>1. /\ c = stack[s][n].call /\ n \in Nat /\ n > 1 /\ CallAt(s, n)
      /\ CallOf(t) = c /\ CallsBut(s, 0)
      /\ \A u \in Slots : \A j \in 1 .. Len(deque'[u]) :
           \/ u = s /\ j = m + 1 /\ deque'[u][j] = t
           \/ j \in 1 .. Len(deque[u]) /\ deque'[u][j] = deque[u][j]
      /\ \A u \in Slots, k \in Nat : TaskAt(u, k)' =>
           \/ TaskWas(u, k) /\ TaskAt(u, k)
           \/ stack'[u][k].how = "tail"
  BY PushAdds
<1>2. \A u \in Slots, k \in Nat : CallWas(u, k)
  BY <1>1, CallsWere, NoFrame0
<1> HIDE DEF n, m, t, c
<1>3. ASSUME NEW u \in Slots, NEW k \in Nat, k > 1, CallAt(u, k),
             OlderNext(u, stack[u][k].call)
      PROVE  Older(u, stack[u][k].call)
  <2>1. PICK j \in 1 .. Len(deque'[u]) : CallOf(deque'[u][j]) < stack[u][k].call
    BY <1>3 DEF OlderNext
  <2>2. CASE j \in 1 .. Len(deque[u]) /\ deque'[u][j] = deque[u][j]
    BY <2>1, <2>2 DEF Older
  <2>3. CASE u = s /\ deque'[u][j] = t
    <3>1. c < stack[s][k].call /\ CallAt(s, k) /\ k <= n
      BY <1>1, <1>3, <2>1, <2>3, CallFacts DEF n
    <3>2. c \in Nat /\ stack[s][k].call \in Nat
      BY <1>1, <3>1, CallFacts
    <3>3. k < n => stack[s][k].call < c
      BY <1>1, <3>1 DEF CallsInv, YoungerAt
    <3>4. k = n \/ k < n
      BY <1>1, <3>1
    <3> QED
      BY <1>1, <3>1, <3>2, <3>3, <3>4
  <2> QED
    BY <1>1, <2>2, <2>3
<1>4. \A u \in Slots, l \in Nat :
        TaskAt(u, l)' => TaskWas(u, l) \/ stack'[u][l].how # "peer"
  BY <1>1
<1> QED
  BY <1>2, <1>3, <1>4, StolenKept

(* Every step keeps the thieves behind the older tasks.                    *)
LEMMA StolenStep ==
  ASSUME TypeInv, StackInv, CallsInv, OuterInv, DequeInv, OnceInv, UnpushedInv,
         CountInv, StolenInv, PopsItsOwn, [Next]_vars
  PROVE  StolenInv'
<1>1. CASE OuterCall \/ Return
  <2>1. UNCHANGED stack /\ \A u \in Slots, k \in Nat : ~CallAt(u, k)
    <3>1. outer = 0 \/ Return
      BY <1>1 DEF OuterCall
    <3> QED
      BY <1>1, <3>1, NothingOffered DEF OuterCall, Return
  <2>2. \A u \in Slots, k \in Nat : ~CallAt(u, k)'
    BY <2>1 DEF CallAt
  <2> QED
    BY <2>2 DEF StolenInv
<1>2. CASE Stop \/ UNCHANGED vars
  <2>1. UNCHANGED <<deque, stack>>
    BY <1>2 DEF Stop, vars
  <2> QED
    BY <2>1 DEF StolenInv, Older, CallAt, TaskAt
<1>3. ASSUME NEW s \in Slots, Slot(s) PROVE StolenInv'
  <2>1. CASE Plain(s)
    <3>1. UNCHANGED deque /\ \A u \in Slots, k \in Nat : TaskWas(u, k)
      BY <2>1, PlainStep
    <3>2. \A u \in Slots, k \in Nat : k > 1 => CallWas(u, k)
      BY <2>1, PlainCalls
    <3> QED
      BY <3>1, <3>2, OlderSame, StolenKept
  <2>2. CASE BodyFork(s)
    BY <2>2, StolenFork
  <2>3. ASSUME NEW v \in Slots, (PopOwn(s) /\ v = s) \/ Steal(s, v)
        PROVE  StolenInv'
    BY <2>3, StolenTake
  <2>4. CASE Push(s)
    BY <2>4, StolenPush
  <2> QED
    BY <1>3, <2>1, <2>2, <2>3, <2>4, SlotStep DEF Plain
<1> QED
  BY <1>1, <1>2, <1>3 DEF Next, AllCallsMade

-----------------------------------------------------------------------------
(***************************************************************************)
(* A drain pops its own tasks: PopsItsOwn.                                 *)
(***************************************************************************)
(* What a nested call finds on top of the deque of its slot.               *)
LEMMA PopsLook ==
  ASSUME TypeInv, StackInv, CallsInv, DequeInv, CountInv, StolenInv,
         NEW s \in Slots, Look(s), Counts(TopCall(s)), deque[s] # <<>>
  PROVE  CallOf(Last(deque[s])) = TopCall(s)
<1> DEFINE n == Len(stack[s])
           c == stack[s][n].call
           m == Len(deque[s])
           t == deque[s][m]
<1>1. /\ n \in Nat /\ n > 0 /\ Last(stack[s]) = stack[s][n]
      /\ stack[s][n].at = "drain" /\ TopCall(s) = c
      /\ Effective(stack[s][n]) > 0 /\ c # outer
  BY Topmost DEF Look, TopCall, Counts
<1>2. CallAt(s, n)
  BY <1>1, Apart DEF CallAt
<1>3. c \in Calls /\ c \in Nat
  BY <1>1, <1>2, CallFacts
<1>4. n > 1
  BY <1>1 DEF StackInv, BottomAt
<1>5. m \in Nat /\ m > 0 /\ m \in 1 .. m /\ t \in Tasks /\ Last(deque[s]) = t
  <2>1. m \in Nat /\ m # 0
    BY Heights
  <2>2. m \in 1 .. m
    BY <2>1
  <2> QED
    BY <2>1, <2>2, Heights DEF Last
<1>6. HomeAt(s, CallOf(t)) /\ \A j \in 1 .. m : LineAt(s, j, m)
  BY <1>5 DEF DequeInv
<1>7. CallOf(t) \in Nat
  BY <1>5, TasksAre, CallsAre
<1>8. CallOf(t) <= c
  <2>1. CASE CallOf(t) = outer
    <3>1. 1 \in 1 .. n /\ 1 < n /\ 1 \in Nat
      BY <1>4
    <3>2. /\ stack[s][1].at \in Draining /\ stack[s][1].call = outer
      BY <3>1 DEF StackInv, BottomAt
    <3>3. CallAt(s, 1)
      BY <3>1, <3>2 DEF CallAt, CallPlaces
    <3>4. stack[s][1].call < c
      BY <1>1, <1>2, <3>1, <3>3 DEF CallsInv, YoungerAt
    <3> QED
      BY <1>3, <1>7, <2>1, <3>2, <3>4
  <2>2. CASE \E k \in 2 .. n : CallAt(s, k) /\ stack[s][k].call = CallOf(t)
    <3>1. PICK k \in 2 .. n : CallAt(s, k) /\ stack[s][k].call = CallOf(t)
      BY <2>2
    <3>2. k \in Nat /\ (k < n \/ k = n)
      BY <1>1, <3>1
    <3>3. k < n => stack[s][k].call < c
      BY <1>1, <1>2, <3>1, <3>2 DEF CallsInv, YoungerAt
    <3> HIDE DEF c, t
    <3>4. k = n => stack[s][k].call = c
      BY DEF c
    <3> QED
      BY <1>3, <1>7, <3>1, <3>2, <3>3, <3>4
  <2> QED
    BY <1>6, <2>1, <2>2 DEF HomeAt
<1>9. ~(CallOf(t) < c)
  <2> SUFFICES ASSUME CallOf(t) < c PROVE FALSE
    OBVIOUS
  <2>1. Older(s, c)
    <3> HIDE DEF c
    <3> QED
      BY <1>5 DEF Older
  <2>2. \A u \in Slots, l \in Nat :
          TaskAt(u, l) /\ CallOf(stack[u][l].task) = c => stack[u][l].how # "peer"
    BY <1>1, <1>2, <1>4, <2>1 DEF StolenInv
  <2>3. Cardinality(Live(c)) > 0
    <3>1. Due(stack[s][n]) = Cardinality(Live(c))
      BY <1>1, <1>2, <1>4 DEF CountInv
    <3>2. Due(stack[s][n]) = Effective(stack[s][n])
      BY <1>1 DEF Due, Effective
    <3> QED
      BY <1>1, <3>1, <3>2
  <2>4. Live(c) # {}
    BY <1>3, <2>3, LiveIs
  <2>5. PICK x \in Tasks : CallOf(x) = c /\ (OfferedAt(x) \/ CountedAt(x))
    BY <2>4 DEF Live
  <2> HIDE DEF n
  <2>6. ~OfferedAt(x)
    <3> SUFFICES ASSUME OfferedAt(x) PROVE FALSE
      OBVIOUS
    <3>1. PICK v \in Slots : \E i \in 1 .. Len(deque[v]) : deque[v][i] = x
      BY DEF OfferedAt
    <3>2. PICK i \in 1 .. Len(deque[v]) : deque[v][i] = x
      BY <3>1
    <3>3. HomeAt(v, c)
      BY <2>5, <3>2 DEF DequeInv
    <3>4. PICK k \in 2 .. Len(stack[v]) : CallAt(v, k) /\ stack[v][k].call = c
      BY <1>1, <3>3 DEF HomeAt
    <3>5. k \in Nat
      BY <3>4
    <3>6. v = s
      BY <1>1, <1>2, <1>4, <3>4, <3>5, CallOnce
    <3>7. CallOf(deque[s][i]) <= CallOf(deque[s][m])
      <4>1. i \in 1 .. m /\ i <= m
        BY <1>5, <3>2, <3>6
      <4> HIDE DEF m
      <4>2. LineAt(s, i, m)
        BY <1>6, <4>1
      <4> QED
        BY <4>1, <4>2 DEF LineAt
    <3>8. CallOf(deque[s][i]) = c
      BY <2>5, <3>2, <3>6
    <3> HIDE DEF c
    <3> QED
      BY <1>3, <1>7, <3>7, <3>8
  <2>7. ~CountedAt(x)
    <3> SUFFICES ASSUME CountedAt(x) PROVE FALSE
      OBVIOUS
    <3>1. PICK u \in Slots, l \in Nat :
            TaskAt(u, l) /\ stack[u][l].task = x /\ stack[u][l].how # "tail"
      BY DEF CountedAt
    <3>2. stack[u][l].how = "own"
      BY <2>2, <2>5, <3>1, TakenTask DEF Hows
    <3>3. /\ l \in 1 .. Len(stack[u]) /\ l > 1 /\ stack[u][l - 1].at = "drain"
          /\ stack[u][l - 1].call = c
      BY <2>5, <3>1, <3>2 DEF TaskAt, StackInv, OnTopAt
    <3>4. Len(stack[u]) \in Nat
      BY Heights
    <3>5. l - 1 \in Nat /\ l - 1 \in 1 .. Len(stack[u])
      BY <3>3, <3>4
    <3>6. CallAt(u, l - 1)
      BY <3>3, <3>5, Apart DEF CallAt
    <3>7. u = s /\ l - 1 = n
      BY <1>1, <1>2, <1>4, <3>3, <3>5, <3>6, CallOnce
    <3> QED
      BY <3>3, <3>4, <3>7 DEF n
  <2> QED
    BY <2>5, <2>6, <2>7
<1> HIDE DEF c, t
<1> QED
  BY <1>1, <1>3, <1>5, <1>7, <1>8, <1>9

(* Who is about to pop has just looked, or was about to before; his deque  *)
(* is as it was, but for its older end.                                    *)
LEMMA PopsKept ==
  ASSUME TypeInv, PopsItsOwn, UNCHANGED outer, DequeType,
         \A u \in Slots : At(u, "pop")' =>
           stack'[u] = stack[u]
           /\ (deque'[u] # <<>> => /\ deque[u] # <<>>
                                   /\ Last(deque'[u]) = Last(deque[u]))
  PROVE  PopsItsOwn'
BY DEF PopsItsOwn, At, TopCall, Counts

(* The top of a stack after a step.                                        *)
LEMMA TopNext ==
  ASSUME StackType, NEW s \in Slots, NEW n \in Nat, n > 0, Len(stack'[s]) = n
  PROVE  /\ At(s, "pop")' => stack'[s][n].at = "pop"
         /\ TopCall(s)' = stack'[s][n].call
BY DEF At, TopCall, Last

(* After a step of a slot that leaves something else on top of its stack   *)
(* only the others may be about to pop.                                    *)
LEMMA PopsOthers ==
  ASSUME TypeInv, PopsItsOwn, UNCHANGED outer, DequeType, NEW s \in Slots,
         OnlyStack(s), ~At(s, "pop")',
         \A u \in Slots \ {s} : deque'[u] # <<>> =>
           deque[u] # <<>> /\ Last(deque'[u]) = Last(deque[u])
  PROVE  PopsItsOwn'
<1>1. \A u \in Slots : At(u, "pop")' =>
           stack'[u] = stack[u]
           /\ (deque'[u] # <<>> => /\ deque[u] # <<>>
                                   /\ Last(deque'[u]) = Last(deque[u]))
  BY DEF OnlyStack
<1> QED
  BY <1>1, PopsKept

(* A drain that moves on to its pop finds its own tasks (PopsLook).        *)
LEMMA PopsQuiet ==
  ASSUME TypeInv, StackInv, CallsInv, DequeInv, CountInv, StolenInv, PopsItsOwn,
         NEW s \in Slots, LookOn(s)
  PROVE  PopsItsOwn'
<1> DEFINE n == Len(stack[s])
<1>1. PICK q \in Draining, p \in Draining :
        At(s, q) /\ Move(s, p)
        /\ (p = "pop" => q = "drain" /\ Effective(Last(stack[s])) > 0)
  BY QuietMove
<1>2. UNCHANGED <<deque, outer>> /\ DequeType
  BY DEF LookOn, Look, PopNone, StealNone, DequeType, TypeInv
<1>3. /\ StackType /\ OnlyStack(s) /\ Len(stack'[s]) = n
      /\ stack'[s][n].at = p /\ stack'[s][n].call = stack[s][n].call
  BY <1>1, MoveStack DEF CallPlaces
<1>4. n \in Nat /\ n > 0 /\ Last(stack[s]) = stack[s][n]
  BY <1>1, Topmost
<1>5. CASE p = "pop"
  <2>1. Look(s)
    <3>1. Move(s, "pop") /\ At(s, "drain") /\ Effective(Last(stack[s])) > 0
      BY <1>1, <1>5
    <3>2. UNCHANGED <<deque, used, outer, job, open, stateVars, stopped, threw, outcome>>
      BY QuietMove
    <3> QED
      BY <3>1, <3>2 DEF Look
  <2>2. TopCall(s)' = TopCall(s)
    <3>1. TopCall(s) = stack[s][n].call
      BY <1>4 DEF TopCall
    <3> HIDE DEF n
    <3> QED
      BY <1>3, <1>4, <3>1, TopNext
  <2>3. ASSUME NEW u \in Slots, At(u, "pop")', Counts(TopCall(u))', deque'[u] # <<>>
        PROVE  CallOf(Last(deque'[u])) = TopCall(u)'
    <3>1. CASE u = s
      BY <1>2, <2>1, <2>2, <2>3, <3>1, PopsLook DEF Counts
    <3>2. CASE u # s
      <4>1. stack'[u] = stack[u]
        BY <1>3, <3>2 DEF OnlyStack
      <4> QED
        BY <1>2, <2>3, <4>1 DEF PopsItsOwn, At, TopCall, Counts
    <3> QED
      BY <3>1, <3>2
  <2> QED
    BY <2>3 DEF PopsItsOwn
<1>6. CASE p # "pop"
  <2>1. ~At(s, "pop")'
    <3> HIDE DEF n
    <3> QED
      BY <1>3, <1>4, <1>6, TopNext
  <2> QED
    BY <1>2, <1>3, <2>1, PopsOthers
<1> QED
  BY <1>5, <1>6

(* A drain at its pop keeps them when another task is taken.               *)
LEMMA PopsTake ==
  ASSUME TypeInv, PopsItsOwn, NEW s \in Slots, NEW v \in Slots,
         (PopOwn(s) /\ v = s) \/ Steal(s, v)
  PROVE  PopsItsOwn'
<1> DEFINE n == Len(stack[s])
<1>1. PICK i \in 1 .. Len(deque[v]), d \in {0, 1}, h \in {"own", "peer"},
           q \in {"pop", "steal"} :
           /\ At(s, q) /\ TakesFrom(v, i, d) /\ DequeType /\ deque[v][i] \in Tasks
           /\ Above(s, TaskFrame("gate", deque[v][i], h))
           /\ q = "pop" => v = s
           /\ q = "steal" => v # s /\ i = 1 /\ d = 1
  BY TookTask
<1>2. /\ n \in Nat /\ StackType /\ OnlyStack(s) /\ Len(stack'[s]) = n + 1
      /\ stack'[s][n + 1].at = "gate"
  BY <1>1, TakeStack
<1>3. ~At(s, "pop")'
  <2>1. n + 1 \in Nat /\ n + 1 > 0
    BY <1>2
  <2> HIDE DEF n
  <2> QED
    BY <1>2, <2>1, TopNext
<1>4. UNCHANGED outer
  BY DEF PopOwn, Steal
<1>5. ASSUME NEW u \in Slots \ {s}, deque'[u] # <<>>
      PROVE  deque[u] # <<>> /\ Last(deque'[u]) = Last(deque[u])
  <2>1. CASE u # v
    BY <1>1, <1>5, <2>1 DEF TakesFrom, OnlyDeque
  <2>2. CASE u = v
    <3>1. d = 1
      BY <1>1, <2>2
    <3>2. /\ Len(deque'[v]) = Len(deque[v]) - 1
          /\ \A j \in 1 .. Len(deque[v]) - 1 : deque'[v][j] = deque[v][j + 1]
      BY <1>1, <3>1 DEF TakesFrom
    <3>3. Len(deque[v]) \in Nat /\ Len(deque'[v]) \in Nat /\ Len(deque'[v]) # 0
      <4>1. deque'[v] \in Seq(Tasks)
        BY <1>1 DEF DequeType
      <4> QED
        BY <1>5, <2>2, <4>1, Heights, SeqNonEmpty
    <3>4. deque'[v][Len(deque'[v])] = deque[v][Len(deque[v])]
      <4>1. /\ Len(deque'[v]) \in 1 .. Len(deque[v]) - 1
            /\ Len(deque'[v]) + 1 = Len(deque[v])
        <5>1. \A a, b \in Nat : a = b - 1 /\ a # 0 =>
                a \in 1 .. b - 1 /\ a + 1 = b
          OBVIOUS
        <5> QED
          BY <3>2, <3>3, <5>1
      <4> QED
        BY <3>2, <4>1
    <3>5. deque[v] # <<>>
      BY <3>2, <3>3, Heights
    <3> QED
      BY <2>2, <3>4, <3>5 DEF Last
  <2> QED
    BY <2>1, <2>2
<1> QED
  BY <1>1, <1>2, <1>3, <1>4, <1>5, PopsOthers

(* It keeps them when one is pushed.                                       *)
LEMMA PopsPush ==
  ASSUME TypeInv, StackInv, CallsInv, UnpushedInv, PopsItsOwn,
         NEW s \in Slots, Push(s)
  PROVE  PopsItsOwn'
<1> DEFINE n == Len(stack[s])
<1>1. OnlyDeque(s) /\ DequeType /\ n \in Nat /\ n > 1 /\ UNCHANGED outer
  BY PushAdds DEF Push
<1>2. StackType /\ OnlyStack(s) /\ ~At(s, "pop")'
  <2>1. CASE stack[s][n].own + 1 < Deferred(TopCall(s))
    <3>1. StackType /\ OnlyStack(s) /\ Len(stack'[s]) = n /\ stack'[s][n].at = "push"
      BY <2>1, PushedMore
    <3>2. n > 0
      BY <1>1
    <3> HIDE DEF n
    <3> QED
      BY <1>1, <3>1, <3>2, TopNext
  <2>2. CASE ~(stack[s][n].own + 1 < Deferred(TopCall(s)))
    <3>1. /\ StackType /\ OnlyStack(s) /\ Len(stack'[s]) = n + 1
          /\ stack'[s][n + 1].at = "gate"
      BY <2>2, PushedLast
    <3>2. n + 1 \in Nat /\ n + 1 > 0
      BY <1>1
    <3> HIDE DEF n
    <3> QED
      BY <3>1, <3>2, TopNext
  <2> QED
    BY <2>1, <2>2
<1>3. \A u \in Slots \ {s} : deque'[u] # <<>> =>
        deque[u] # <<>> /\ Last(deque'[u]) = Last(deque[u])
  BY <1>1 DEF OnlyDeque
<1> QED
  BY <1>1, <1>2, <1>3, PopsOthers, SMTT(30)

-----------------------------------------------------------------------------
(***************************************************************************)
(* The invariant.                                                          *)
(***************************************************************************)
(* It keeps them when slots do anything else.                              *)
LEMMA PopsPlain ==
  ASSUME TypeInv, StackInv, OuterInv, PopsItsOwn, NEW s \in Slots,
         TaskStep(s) \/ Begin(s) \/ ShareDone(s) \/ JoinDone(s) \/ Retire(s)
           \/ BodyFork(s)
  PROVE  PopsItsOwn'
<1> DEFINE n == Len(stack[s])
<1>1. UNCHANGED <<deque, outer>> /\ DequeType
  BY DEF TaskStep, Gate, BodyEnd, BodyThrow, Capture, Flag, Begin, ShareDone,
     JoinDone, Retire, BodyFork, DequeType, TypeInv
<1>2. ASSUME NEW k \in Nat, k > 0, StackType, Len(stack'[s]) = k,
             stack'[s][k].at # "pop"
      PROVE  ~At(s, "pop")'
  BY <1>2, TopNext
<1>3. OnlyStack(s) /\ ~At(s, "pop")'
  <2>1. CASE TaskStep(s)
    <3>1. PICK q \in TaskPlaces, p \in TaskPlaces : At(s, q) /\ Move(s, p)
      BY <2>1, TaskMove
    <3>2. /\ StackType /\ OnlyStack(s) /\ Len(stack'[s]) = n
          /\ stack'[s][n].at = p
      BY <3>1, MoveStack
    <3>3. n \in Nat /\ n > 0
      BY <3>1, Topmost
    <3>4. p # "pop"
      BY DEF TaskPlaces, Underway
    <3> HIDE DEF n
    <3> QED
      BY <1>2, <3>2, <3>3, <3>4
  <2>2. CASE Begin(s)
    <3>1. /\ StackType /\ OnlyStack(s) /\ Len(stack'[s]) = 1
          /\ stack'[s][1].at = "drain"
      BY <2>2, BeginStack
    <3> QED
      BY <1>2, <3>1
  <2>3. CASE ShareDone(s)
    BY <2>3, ShareStack DEF At
  <2>4. CASE JoinDone(s)
    <3>1. /\ StackType /\ OnlyStack(s) /\ Len(stack'[s]) = n - 1
          /\ n \in Nat /\ n > 1
          /\ stack'[s][n - 1].at \in {"body", "threw"}
      BY <2>4, JoinedStack
    <3>2. n - 1 \in Nat /\ n - 1 > 0
      BY <3>1
    <3> HIDE DEF n
    <3> QED
      BY <1>2, <3>1, <3>2
  <2>5. CASE Retire(s)
    <3>1. /\ StackType /\ OnlyStack(s) /\ Len(stack'[s]) = n - 1
          /\ n \in Nat /\ n > 1 /\ stack'[s][n - 1].at = "drain"
      BY <2>5, RetiredStack
    <3>2. n - 1 \in Nat /\ n - 1 > 0
      BY <3>1
    <3> HIDE DEF n
    <3> QED
      BY <1>2, <3>1, <3>2
  <2>6. CASE BodyFork(s)
    <3>1. /\ StackType /\ OnlyStack(s) /\ Len(stack'[s]) = n + 1
          /\ n \in Nat /\ stack'[s][n + 1].at = "push"
      BY <2>6, ForkStack
    <3>2. n + 1 \in Nat /\ n + 1 > 0
      BY <3>1
    <3> HIDE DEF n
    <3> QED
      BY <1>2, <3>1, <3>2
  <2> QED
    BY <2>1, <2>2, <2>3, <2>4, <2>5, <2>6
<1>4. \A u \in Slots \ {s} : deque'[u] # <<>> =>
        deque[u] # <<>> /\ Last(deque'[u]) = Last(deque[u])
  BY <1>1
<1> QED
  BY <1>1, <1>3, <1>4, PopsOthers

(* Every step keeps the drains at their own tasks.                         *)
LEMMA PopsStep ==
  ASSUME TypeInv, StackInv, CallsInv, OuterInv, DequeInv, OnceInv, UnpushedInv,
         CountInv, StolenInv, PopsItsOwn, [Next]_vars
  PROVE  PopsItsOwn'
<1>1. CASE OuterCall \/ Return
  <2>1. UNCHANGED stack /\ \A s \in Slots : stack[s] = <<>>
    <3>1. outer = 0 \/ Return
      BY <1>1 DEF OuterCall
    <3> QED
      BY <1>1, <3>1, NothingOffered DEF OuterCall, Return
  <2> QED
    BY <2>1 DEF PopsItsOwn, At
<1>2. CASE Stop \/ UNCHANGED vars
  <2>1. UNCHANGED <<deque, stack, outer>>
    BY <1>2 DEF Stop, vars
  <2> QED
    BY <2>1 DEF PopsItsOwn, At, TopCall, Counts
<1>3. ASSUME NEW s \in Slots, Slot(s) PROVE PopsItsOwn'
  <2>1. CASE LookOn(s)
    BY <2>1, PopsQuiet
  <2>2. CASE TaskStep(s) \/ Begin(s) \/ ShareDone(s) \/ JoinDone(s) \/ Retire(s)
             \/ BodyFork(s)
    BY <2>2, PopsPlain
  <2>3. ASSUME NEW v \in Slots, (PopOwn(s) /\ v = s) \/ Steal(s, v)
        PROVE  PopsItsOwn'
    BY <2>3, PopsTake
  <2>4. CASE Push(s)
    BY <2>4, PopsPush
  <2> QED
    BY <1>3, <2>1, <2>2, <2>3, <2>4, SlotStep
<1> QED
  BY <1>1, <1>2, <1>3 DEF Next, AllCallsMade

(* The core of the invariant: all but the exceptions.                      *)
CoreInv == /\ TypeInv /\ StackInv /\ CallsInv /\ OuterInv /\ DequeInv /\ OnceInv
           /\ UnpushedInv /\ CountInv /\ StolenInv /\ PopsItsOwn

(* The invariant holds at first.                                           *)
LEMMA CoreInit == Init => CoreInv
<1> SUFFICES ASSUME Init PROVE CoreInv
  OBVIOUS
<1>1. /\ \A s \in Slots : stack[s] = <<>> /\ deque[s] = <<>>
      /\ outer = 0 /\ job = {} /\ used = 0 /\ open = {}
  BY DEF Init
<1>2. \A u \in Slots, k \in Nat : ~CallAt(u, k) /\ ~TaskAt(u, k)
  BY <1>1, NoFrames
<1>3. \A s \in Slots : Len(stack[s]) = 0 /\ Len(deque[s]) = 0
  BY <1>1
<1>4. 1 .. 0 = {}
  OBVIOUS
<1>5. TypeInv
  <2>1. /\ deque \in [Slots -> Seq(Tasks)] /\ stack \in [Slots -> Seq(FrameType)]
    <3>1. <<>> \in Seq(Tasks) /\ <<>> \in Seq(FrameType)
      OBVIOUS
    <3> QED
      BY <3>1 DEF Init
  <2>2. used \in 0 .. MaxCalls /\ outer \in 0 .. used
    BY <1>1, ForkJoinAssumption DEF ForkJoinAssumption
  <2>3. /\ pending \in [Calls -> Int] /\ cancelled \in [Calls -> BOOLEAN]
        /\ exc \in [Calls -> Tasks \union {None}]
    <3>1. 0 \in Int /\ FALSE \in BOOLEAN /\ None \in Tasks \union {None}
      OBVIOUS
    <3> QED
      BY <3>1 DEF Init
  <2>4. /\ job \subseteq Slots /\ open \subseteq 1 .. used /\ token \subseteq open
        /\ threw \subseteq Tasks
    BY DEF Init
  <2>5. stopped \in BOOLEAN /\ outcome \in Tasks \union {None}
    BY DEF Init
  <2> QED
    BY <2>1, <2>2, <2>3, <2>4, <2>5 DEF TypeInv
<1>6. StackInv /\ DequeInv /\ OfferedOnce
  BY <1>3, <1>4 DEF StackInv, DequeInv, OfferedOnce
<1>7. CallsInv /\ OuterInv
  BY <1>1, <1>2 DEF CallsInv, YoungerAt, ApartAt, LivesAt, OuterInv
<1>8. OnceInv /\ UnpushedInv
  BY <1>2, <1>6 DEF OnceInv, TakenOnce, NotBoth, TakenOpen, UnpushedInv
<1>9. CountInv /\ StolenInv
  BY <1>1, <1>2 DEF CountInv, StolenInv
<1>10. PopsItsOwn
  BY <1>1 DEF PopsItsOwn, At
<1> QED
  BY <1>5, <1>6, <1>7, <1>8, <1>9, <1>10 DEF CoreInv

(* Every step keeps it.                                                    *)
LEMMA CoreStep == CoreInv /\ [Next]_vars => CoreInv'
<1> SUFFICES ASSUME CoreInv, [Next]_vars PROVE CoreInv'
  OBVIOUS
<1> USE DEF CoreInv
<1>1. TypeInv'
  <2>1. outer = 0 => \A s \in Slots : deque[s] = <<>>
    BY NothingOffered
  <2> QED
    BY <2>1, TypeStep
<1>2. StackInv' /\ CallsInv' /\ OuterInv'
  BY StackStep, CallsStep, OuterStep
<1>3. DequeInv' /\ OnceInv' /\ UnpushedInv'
  BY DequeStep, OnceStep, UnpushedStep
<1>4. CountInv' /\ StolenInv' /\ PopsItsOwn'
  BY CountStep, StolenStep, PopsStep
<1> QED
  BY <1>1, <1>2, <1>3, <1>4

(* Frames, calls, tasks and counts are where they belong, for any slots,   *)
(* calls and fanouts: the invariant that the theorems below rest on.       *)
THEOREM ForkJoinCore == Spec => []CoreInv
<1>1. Init => CoreInv
  BY CoreInit
<1>2. CoreInv /\ [Next]_vars => CoreInv'
  BY CoreStep
<1> QED
  BY <1>1, <1>2, PTL DEF Spec

(* A nested drain pops tasks of its own call only, whatever the thieves    *)
(* take meanwhile: so its private count misses none (runForkJoinDrain).    *)
THEOREM NestedPopsItsOwn == Spec => []PopsItsOwn
<1>1. CoreInv => PopsItsOwn
  BY DEF CoreInv
<1> QED
  BY <1>1, ForkJoinCore, PTL

(* The tasks that are not over, as the run states them.                    *)
LEMMA FramesAre ==
  ASSUME TypeInv
  PROVE  /\ \A f \in CallFrames : \E s \in Slots, k \in Nat :
              CallAt(s, k) /\ stack[s][k] = f
         /\ \A f \in TaskFrames : \E s \in Slots, k \in Nat :
              TaskAt(s, k) /\ stack[s][k] = f
         /\ \A s \in Slots, k \in Nat : CallAt(s, k) => stack[s][k] \in CallFrames
         /\ \A s \in Slots, k \in Nat : TaskAt(s, k) => stack[s][k] \in TaskFrames
<1>1. ASSUME NEW s \in Slots, NEW k \in 1 .. Len(stack[s])
      PROVE  /\ stack[s][k] \in Frames /\ k \in Nat
             /\ CallAt(s, k) => "task" \notin DOMAIN stack[s][k]
             /\ TaskAt(s, k) => "task" \in DOMAIN stack[s][k]
             /\ CallAt(s, k) \/ TaskAt(s, k)
  <2>1. stack[s][k] \in Frames /\ k \in Nat
    BY DEF Frames
  <2>2. stack[s][k] \in FrameType
    BY Heights
  <2>3. CASE stack[s][k] \in CallFrameType
    <3>1. DOMAIN stack[s][k] = {"at", "call", "own"} /\ stack[s][k].at \in CallPlaces
      BY <2>3 DEF CallFrameType
    <3> QED
      BY <2>1, <3>1, Apart DEF CallAt, TaskAt
  <2>4. CASE stack[s][k] \in TaskFrameType
    <3>1. DOMAIN stack[s][k] = {"at", "task", "how"} /\ stack[s][k].at \in TaskPlaces
      BY <2>4 DEF TaskFrameType
    <3> QED
      BY <2>1, <3>1, Apart DEF CallAt, TaskAt
  <2> QED
    BY <2>2, <2>3, <2>4 DEF FrameType
<1>2. ASSUME NEW f \in Frames
      PROVE  \E s \in Slots : \E k \in 1 .. Len(stack[s]) : stack[s][k] = f
  BY DEF Frames
<1>3. ASSUME NEW f \in CallFrames
      PROVE  \E s \in Slots, k \in Nat : CallAt(s, k) /\ stack[s][k] = f
  <2>1. f \in Frames /\ "task" \notin DOMAIN f
    BY DEF CallFrames, TaskFrames
  <2>2. PICK s \in Slots : \E k \in 1 .. Len(stack[s]) : stack[s][k] = f
    BY <1>2, <2>1
  <2>3. PICK k \in 1 .. Len(stack[s]) : stack[s][k] = f
    BY <2>2
  <2> QED
    BY <1>1, <2>1, <2>3
<1>4. ASSUME NEW f \in TaskFrames
      PROVE  \E s \in Slots, k \in Nat : TaskAt(s, k) /\ stack[s][k] = f
  <2>1. f \in Frames /\ "task" \in DOMAIN f
    BY DEF TaskFrames
  <2>2. PICK s \in Slots : \E k \in 1 .. Len(stack[s]) : stack[s][k] = f
    BY <1>2, <2>1
  <2>3. PICK k \in 1 .. Len(stack[s]) : stack[s][k] = f
    BY <2>2
  <2> QED
    BY <1>1, <2>1, <2>3
<1>5. ASSUME NEW s \in Slots, NEW k \in Nat, CallAt(s, k)
      PROVE  stack[s][k] \in CallFrames
  BY <1>1, <1>5 DEF CallAt, CallFrames, TaskFrames
<1>6. ASSUME NEW s \in Slots, NEW k \in Nat, TaskAt(s, k)
      PROVE  stack[s][k] \in TaskFrames
  BY <1>1, <1>6 DEF TaskAt, TaskFrames
<1> QED
  BY <1>3, <1>4, <1>5, <1>6

(* What is offered stands on a deque.                                      *)
LEMMA OfferedIs ==
  ASSUME TypeInv
  PROVE  \A t : t \in Offered <=> OfferedAt(t)
<1> TAKE t
<1>1. ASSUME NEW s \in Slots
      PROVE  t \in ToSet(deque[s]) <=> \E j \in 1 .. Len(deque[s]) : deque[s][j] = t
  <2>1. DOMAIN deque[s] = 1 .. Len(deque[s])
    <3>1. deque[s] \in Seq(Tasks)
      BY Heights
    <3> QED
      BY <3>1
  <2> QED
    BY <2>1 DEF ToSet
<1> QED
  BY <1>1 DEF Offered, OfferedAt

(* The tasks that are not over are those that count.                       *)
LEMMA NotOverIs ==
  ASSUME TypeInv, NEW c
  PROVE  NotOver(c) = Live(c)
<1>1. ASSUME NEW t PROVE (\E f \in TaskFrames : f.task = t /\ f.how # "tail") <=> CountedAt(t)
  <2>1. ASSUME NEW f \in TaskFrames, f.task = t, f.how # "tail" PROVE CountedAt(t)
    <3>1. PICK s \in Slots, k \in Nat : TaskAt(s, k) /\ stack[s][k] = f
      BY FramesAre
    <3> QED
      BY <2>1, <3>1 DEF CountedAt
  <2>2. ASSUME CountedAt(t) PROVE \E f \in TaskFrames : f.task = t /\ f.how # "tail"
    <3>1. PICK s \in Slots, k \in Nat :
            TaskAt(s, k) /\ stack[s][k].task = t /\ stack[s][k].how # "tail"
      BY <2>2 DEF CountedAt
    <3>2. stack[s][k] \in TaskFrames
      BY <3>1, FramesAre
    <3> QED
      BY <3>1, <3>2
  <2> QED
    BY <2>1, <2>2
<1>2. \A t \in Tasks : t \in Offered <=> OfferedAt(t)
  BY OfferedIs
<1> QED
  BY <1>1, <1>2 DEF NotOver, Live

(* The invariant counts them.                                              *)
LEMMA CoreCounts == CoreInv => CountsAgree
<1> SUFFICES ASSUME CoreInv, NEW f \in CallFrames, f.at # "push"
             PROVE  Effective(f) = Cardinality(NotOver(f.call))
  BY DEF CountsAgree
<1> USE DEF CoreInv
<1>1. PICK s \in Slots, k \in Nat : CallAt(s, k) /\ stack[s][k] = f
  BY FramesAre
<1>2. NotOver(f.call) = Live(f.call)
  BY NotOverIs
<1>3. /\ k >= 1 /\ f.call \in Calls
      /\ k = 1 => f.call = outer /\ f.own = 0
  BY <1>1, CallFacts
<1>4. CASE k > 1
  BY <1>1, <1>2, <1>4 DEF CountInv, Due, Effective
<1>5. CASE k = 1
  <2>1. outer # 0 /\ outer \in Calls
    BY <1>3, <1>5, CallsAre
  <2>2. pending[outer] \in Int
    BY <2>1 DEF TypeInv
  <2>3. pending[outer] = Cardinality(Live(outer))
    BY <2>1 DEF CountInv
  <2> QED
    BY <1>2, <1>3, <1>5, <2>2, <2>3 DEF Effective
<1> QED
  BY <1>1, <1>3, <1>4, <1>5

(* What a drain reads, pending less its private count, is the number of    *)
(* the call's tasks that are not over, at every moment it may read it.     *)
THEOREM CountsTell == Spec => []CountsAgree
BY ForkJoinCore, CoreCounts, PTL

-----------------------------------------------------------------------------
(***************************************************************************)
(* The exceptions: ExcInv.                                                 *)
(***************************************************************************)
(* The exceptions.                                                         *)
SkippedNext(c) == cancelled'[c] \/ (c \in token' /\ stopped')
MarkedNext(s, k) ==
  /\ stack'[s][k].at = "threw" => stack'[s][k].task \in threw'
  /\ stack'[s][k].at = "flag" => exc'[CallOf(stack'[s][k].task)] # None
  /\ stack'[s][k].at = "skipped" => SkippedNext(CallOf(stack'[s][k].task))

(* ExcInv of the next state.                                               *)
LEMMA ExcNext ==
  ASSUME \A c \in Calls :
           /\ exc'[c] # None => exc'[c] \in threw' /\ CallOf(exc'[c]) = c
           /\ cancelled'[c] => exc'[c] # None,
         \A t \in threw' :
           /\ CallOf(t) \in open'
           /\ exc'[CallOf(t)] # None \/ \E s \in Slots, k \in Nat :
                TaskAt(s, k)' /\ stack'[s][k].at = "threw" /\ stack'[s][k].task = t,
         \A s \in Slots, k \in Nat : TaskAt(s, k)' => MarkedNext(s, k)
  PROVE  ExcInv'
<1>1. CaughtInv'
  BY DEF CaughtInv
<1>2. ThrownInv'
  BY DEF ThrownInv
<1>3. (\A s \in Slots, k \in Nat : TaskAt(s, k) => MarkedAt(s, k))'
  BY DEF MarkedAt, MarkedNext, Skipped, SkippedNext
<1> QED
  BY <1>1, <1>2, <1>3 DEF ExcInv

(* A task's frame that a step does not change.                             *)
LEMMA FrameStays ==
  ASSUME NEW s \in Slots, NEW m \in Nat, NEW p \in Nat,
         TasksBut(s, m), PlacesBut(s, p),
         NEW u \in Slots, NEW k \in Nat, ~(u = s /\ (k = m \/ k = p))
  PROVE  /\ TaskAt(u, k)' <=> TaskAt(u, k)
         /\ TaskAt(u, k) => stack'[u][k].task = stack[u][k].task
                            /\ stack'[u][k].at = stack[u][k].at
BY DEF TasksBut, TaskSame, PlacesBut, PlaceSame

(* A step that changes one frame, and at most adds exceptions.             *)
LEMMA ExcMoved ==
  ASSUME TypeInv, ExcInv, NEW s \in Slots, NEW m \in Nat, NEW p \in Nat,
         TasksBut(s, m), PlacesBut(s, p),
         \A c \in Calls :
           /\ exc'[c] # None => exc'[c] \in threw' /\ CallOf(exc'[c]) = c
           /\ cancelled'[c] => exc'[c] # None
           /\ exc[c] # None => exc'[c] # None,
         open \subseteq open', threw \subseteq threw',
         \A c \in Calls : Skipped(c) => SkippedNext(c),
         \A t \in threw' : t \notin threw =>
           CallOf(t) \in open' /\ \E k \in Nat :
             TaskAt(s, k)' /\ stack'[s][k].at = "threw" /\ stack'[s][k].task = t,
         \A k \in Nat : k = m \/ k = p =>
           /\ TaskAt(s, k)' => MarkedNext(s, k)
           /\ TaskAt(s, k) /\ stack[s][k].at = "threw"
                => exc'[CallOf(stack[s][k].task)] # None
  PROVE  ExcInv'
<1>1. ASSUME NEW t \in threw'
      PROVE  /\ CallOf(t) \in open'
             /\ exc'[CallOf(t)] # None \/ \E u \in Slots, k \in Nat :
                  TaskAt(u, k)' /\ stack'[u][k].at = "threw" /\ stack'[u][k].task = t
  <2>1. CASE t \notin threw
    BY <2>1
  <2>2. CASE t \in threw
    <3>1. CallOf(t) \in open /\ CallOf(t) \in Calls
      BY <2>2, TasksAre DEF TypeInv, ExcInv, ThrownInv
    <3>2. CASE exc[CallOf(t)] # None
      BY <3>1, <3>2
    <3>3. CASE \E u \in Slots, k \in Nat :
                 TaskAt(u, k) /\ stack[u][k].at = "threw" /\ stack[u][k].task = t
      <4>1. PICK u \in Slots, k \in Nat :
              TaskAt(u, k) /\ stack[u][k].at = "threw" /\ stack[u][k].task = t
        BY <3>3
      <4>2. CASE u = s /\ (k = m \/ k = p)
        BY <3>1, <4>1, <4>2
      <4>3. CASE ~(u = s /\ (k = m \/ k = p))
        BY <3>1, <4>1, <4>3, FrameStays
      <4> QED
        BY <4>2, <4>3
    <3> QED
      BY <2>2, <3>2, <3>3 DEF ExcInv, ThrownInv
  <2> QED
    BY <2>1, <2>2
<1>2. ASSUME NEW u \in Slots, NEW k \in Nat, TaskAt(u, k)' PROVE MarkedNext(u, k)
  <2>1. CASE u = s /\ (k = m \/ k = p)
    BY <1>2, <2>1
  <2>2. CASE ~(u = s /\ (k = m \/ k = p))
    <3>1. /\ TaskAt(u, k) /\ stack'[u][k].task = stack[u][k].task
          /\ stack'[u][k].at = stack[u][k].at
      BY <1>2, <2>2, FrameStays
    <3>2. MarkedAt(u, k)
      BY <3>1 DEF ExcInv
    <3>3. CallOf(stack[u][k].task) \in Calls
      BY <3>1, TakenTask, TasksAre
    <3> QED
      BY <3>1, <3>2, <3>3 DEF MarkedAt, MarkedNext
  <2> QED
    BY <2>1, <2>2
<1> QED
  BY <1>1, <1>2, ExcNext

(* Steps that leave the exceptions alone.                                  *)
LEMMA ExcPlain ==
  ASSUME TypeInv, ExcInv, NEW s \in Slots, NEW m \in Nat, NEW p \in Nat,
         TasksBut(s, m), PlacesBut(s, p), UNCHANGED <<exc, cancelled, threw>>,
         open \subseteq open', token \subseteq token', stopped => stopped',
         \A k \in Nat : k = m \/ k = p =>
           /\ TaskAt(s, k)' => MarkedNext(s, k)
           /\ TaskAt(s, k) => stack[s][k].at # "threw"
  PROVE  ExcInv'
<1>1. \A c \in Calls :
           /\ exc'[c] # None => exc'[c] \in threw' /\ CallOf(exc'[c]) = c
           /\ cancelled'[c] => exc'[c] # None
           /\ exc[c] # None => exc'[c] # None
  BY DEF ExcInv, CaughtInv
<1>2. \A c \in Calls : Skipped(c) => SkippedNext(c)
  BY DEF Skipped, SkippedNext
<1>3. threw \subseteq threw' /\ \A t \in threw' : t \in threw
  OBVIOUS
<1> QED
  BY <1>1, <1>2, <1>3, ExcMoved

(* Places that ask for nothing.                                            *)
LEMMA Unmarked ==
  ASSUME NEW s \in Slots, NEW k \in Nat,
         stack'[s][k].at \in {"gate", "body", "retire"}
  PROVE  MarkedNext(s, k)
BY DEF MarkedNext

(* A task that passes the gate or ends keeps ExcInv.                       *)
LEMMA ExcGate ==
  ASSUME TypeInv, ExcInv, NEW s \in Slots, Gate(s) \/ BodyEnd(s)
  PROVE  ExcInv'
<1> DEFINE n == Len(stack[s])
<1>1. PICK q \in {"gate", "body"}, p \in TaskPlaces :
        /\ At(s, q) /\ Move(s, p)
        /\ \/ p \in {"body", "retire"}
           \/ p = "skipped" /\ Skipped(CallOf(TopTask(s)))
        /\ UNCHANGED <<deque, used, outer, job, open, stateVars, stopped, threw, outcome>>
  BY Apart DEF Gate, BodyEnd
<1>2. /\ n \in Nat /\ TopTask(s) = stack[s][n].task /\ stack[s][n].at = q
  BY <1>1, Topmost DEF TopTask
<1>3. q \in TaskPlaces
  BY Apart
<1>4. TasksBut(s, 0) /\ PlacesBut(s, n)
  BY <1>1, <1>3, MovedTask
<1>5. stack'[s][n].at = p /\ stack'[s][n].task = stack[s][n].task
  BY <1>1, <1>3, MoveStack
<1>6. /\ UNCHANGED <<exc, cancelled, threw>> /\ open \subseteq open'
      /\ token \subseteq token' /\ (stopped => stopped')
  BY <1>1 DEF stateVars
<1>7. MarkedNext(s, n)
  <2>1. CASE p \in {"body", "retire"}
    BY <1>2, <1>5, <2>1, Unmarked
  <2>2. CASE p = "skipped" /\ Skipped(CallOf(TopTask(s)))
    BY <1>1, <1>2, <1>5, <2>2 DEF MarkedNext, Skipped, SkippedNext, stateVars
  <2> QED
    BY <1>1, <2>1, <2>2
<1>8. \A k \in Nat : k = 0 => ~TaskAt(s, k)' /\ ~TaskAt(s, k)
  BY NoFrame0
<1> HIDE DEF n
<1>9. stack[s][n].at # "threw"
  BY <1>2
<1>10. 0 \in Nat /\ \A k \in Nat : k = 0 \/ k = n =>
         /\ TaskAt(s, k)' => MarkedNext(s, k)
         /\ TaskAt(s, k) => stack[s][k].at # "threw"
  BY <1>7, <1>8, <1>9
<1> QED
  BY <1>2, <1>4, <1>6, <1>10, ExcPlain

(* One that throws keeps it.                                               *)
LEMMA ExcThrow ==
  ASSUME TypeInv, OnceInv, ExcInv, NEW s \in Slots, BodyThrow(s)
  PROVE  ExcInv'
<1> DEFINE n == Len(stack[s])
           t == stack[s][n].task
<1>1. At(s, "body") /\ Move(s, "threw") /\ "body" \in TaskPlaces
      /\ "threw" \in TaskPlaces
  BY Apart DEF BodyThrow
<1>2. n \in Nat /\ n > 0 /\ TopTask(s) = t /\ stack[s][n].at = "body"
  BY <1>1, Topmost DEF TopTask
<1>3. TaskAt(s, n)
  BY <1>1, <1>2 DEF TaskAt
<1>4. TasksBut(s, 0) /\ PlacesBut(s, n)
  BY <1>1, MovedTask
<1>5. stack'[s][n].at = "threw" /\ stack'[s][n].task = t /\ Len(stack'[s]) = n
  BY <1>1, MoveStack
<1>6. /\ UNCHANGED <<exc, cancelled, token, stopped, open>>
      /\ threw' = threw \union {t}
  BY <1>2 DEF BodyThrow, stateVars
<1>7. CallOf(t) \in open /\ t \in threw'
  BY <1>2, <1>3, <1>6 DEF OnceInv, TakenOpen
<1>8. \A c \in Calls :
           /\ exc'[c] # None => exc'[c] \in threw' /\ CallOf(exc'[c]) = c
           /\ cancelled'[c] => exc'[c] # None
           /\ exc[c] # None => exc'[c] # None
  BY <1>6 DEF ExcInv, CaughtInv
<1>9. \A c \in Calls : Skipped(c) => SkippedNext(c)
  BY <1>6 DEF Skipped, SkippedNext
<1>10. \A k \in Nat : k = n => TaskAt(s, k)'
  BY <1>1, <1>2, <1>5 DEF TaskAt
<1>11. MarkedNext(s, n)
  BY <1>5, <1>7 DEF MarkedNext
<1>12. \A k \in Nat : k = 0 => ~TaskAt(s, k)' /\ ~TaskAt(s, k)
  BY NoFrame0
<1>13. stack[s][n].at # "threw"
  BY <1>2
<1> HIDE DEF n, t
<1>14. \A k \in Nat : k = 0 \/ k = n =>
         /\ TaskAt(s, k)' => MarkedNext(s, k)
         /\ TaskAt(s, k) /\ stack[s][k].at = "threw"
              => exc'[CallOf(stack[s][k].task)] # None
  BY <1>11, <1>12, <1>13
<1>15. \A x \in threw' : x \notin threw =>
         CallOf(x) \in open' /\ \E k \in Nat :
           TaskAt(s, k)' /\ stack'[s][k].at = "threw" /\ stack'[s][k].task = x
  BY <1>2, <1>5, <1>6, <1>7, <1>10
<1>16. 0 \in Nat /\ open \subseteq open' /\ threw \subseteq threw'
  BY <1>6
<1> QED
  BY <1>2, <1>4, <1>8, <1>9, <1>14, <1>15, <1>16, ExcMoved

(* One whose exception is kept, or finds another one there, keeps it.      *)
LEMMA ExcCapture ==
  ASSUME TypeInv, ExcInv, NEW s \in Slots, Capture(s)
  PROVE  ExcInv'
<1> DEFINE n == Len(stack[s])
           t == stack[s][n].task
           c == CallOf(t)
<1>1. At(s, "threw") /\ Move(s, "flag") /\ "flag" \in TaskPlaces
      /\ "threw" \in TaskPlaces
  BY Apart DEF Capture
<1>2. n \in Nat /\ n > 0 /\ TopTask(s) = t /\ stack[s][n].at = "threw"
  BY <1>1, Topmost DEF TopTask
<1>3. TaskAt(s, n)
  BY <1>1, <1>2 DEF TaskAt
<1>4. t \in threw /\ t \in Tasks /\ c \in Calls /\ t # None
  BY <1>2, <1>3, TakenTask, TasksAre DEF ExcInv, MarkedAt
<1>5. TasksBut(s, 0) /\ PlacesBut(s, n)
  BY <1>1, MovedTask
<1>6. stack'[s][n].at = "flag" /\ stack'[s][n].task = t
  BY <1>1, MoveStack
<1>7. /\ UNCHANGED <<cancelled, token, stopped, open, threw>>
      /\ exc' = [exc EXCEPT ![c] = IF @ = None THEN t ELSE @]
  BY <1>2 DEF Capture
<1> HIDE DEF n, t, c
<1>8. exc' = [exc EXCEPT ![c] = IF exc[c] = None THEN t ELSE exc[c]]
  BY <1>7
<1>9. /\ exc'[c] = IF exc[c] = None THEN t ELSE exc[c]
      /\ \A x \in Calls : x # c => exc'[x] = exc[x]
  BY <1>4, <1>8 DEF TypeInv
<1>10. ASSUME NEW x \in Calls
       PROVE  /\ exc'[x] # None => exc'[x] \in threw' /\ CallOf(exc'[x]) = x
              /\ cancelled'[x] => exc'[x] # None
              /\ exc[x] # None => exc'[x] # None
  <2>1. CASE exc'[x] = exc[x]
    BY <1>7, <2>1 DEF ExcInv, CaughtInv
  <2>2. CASE exc'[x] # exc[x]
    <3>1. x = c /\ exc'[x] = t /\ exc[x] = None
      BY <1>9, <2>2
    <3> QED
      BY <1>4, <1>7, <3>1 DEF c
  <2> QED
    BY <2>1, <2>2
<1>11. \A x \in Calls : Skipped(x) => SkippedNext(x)
  BY <1>7 DEF Skipped, SkippedNext
<1>12. exc'[c] # None
  BY <1>4, <1>9
<1>13. MarkedNext(s, n)
  BY <1>6, <1>12 DEF MarkedNext, c
<1>14. \A k \in Nat : k = 0 => ~TaskAt(s, k)' /\ ~TaskAt(s, k)
  BY NoFrame0
<1>15. exc'[CallOf(stack[s][n].task)] # None
  BY <1>12 DEF c, t
<1>16. \A k \in Nat : k = 0 \/ k = n =>
         /\ TaskAt(s, k)' => MarkedNext(s, k)
         /\ TaskAt(s, k) /\ stack[s][k].at = "threw"
              => exc'[CallOf(stack[s][k].task)] # None
  BY <1>13, <1>14, <1>15
<1>17. /\ 0 \in Nat /\ open \subseteq open' /\ threw \subseteq threw'
       /\ \A x \in threw' : x \in threw
  BY <1>7
<1> QED
  BY <1>2, <1>5, <1>10, <1>11, <1>16, <1>17, ExcMoved

(* One that raises the flag keeps it.                                      *)
LEMMA ExcFlag ==
  ASSUME TypeInv, ExcInv, NEW s \in Slots, Flag(s)
  PROVE  ExcInv'
<1> DEFINE n == Len(stack[s])
           t == stack[s][n].task
           c == CallOf(t)
<1>1. At(s, "flag") /\ Move(s, "retire") /\ "flag" \in TaskPlaces
      /\ "retire" \in TaskPlaces
  BY Apart DEF Flag
<1>2. n \in Nat /\ n > 0 /\ TopTask(s) = t /\ stack[s][n].at = "flag"
  BY <1>1, Topmost DEF TopTask
<1>3. TaskAt(s, n)
  BY <1>1, <1>2 DEF TaskAt
<1>4. exc[c] # None /\ c \in Calls
  BY <1>2, <1>3, TakenTask, TasksAre DEF ExcInv, MarkedAt
<1>5. TasksBut(s, 0) /\ PlacesBut(s, n)
  BY <1>1, MovedTask
<1>6. stack'[s][n].at = "retire"
  BY <1>1, MoveStack
<1>7. /\ UNCHANGED <<exc, token, stopped, open, threw>>
      /\ cancelled' = [cancelled EXCEPT ![c] = TRUE]
  BY <1>2 DEF Flag
<1> HIDE DEF n, t, c
<1>8. cancelled'[c] /\ \A x \in Calls : x # c => cancelled'[x] = cancelled[x]
  BY <1>4, <1>7 DEF TypeInv
<1>9. \A x \in Calls :
              /\ exc'[x] # None => exc'[x] \in threw' /\ CallOf(exc'[x]) = x
              /\ cancelled'[x] => exc'[x] # None
              /\ exc[x] # None => exc'[x] # None
  BY <1>4, <1>7, <1>8 DEF ExcInv, CaughtInv
<1>10. ASSUME NEW x \in Calls, Skipped(x) PROVE SkippedNext(x)
  <2>1. CASE x \in token /\ stopped
    BY <1>7, <2>1 DEF SkippedNext
  <2>2. CASE cancelled[x]
    <3>1. CASE x = c
      BY <1>8, <3>1 DEF SkippedNext
    <3>2. CASE x # c
      <4>1. cancelled'[x] = cancelled[x]
        BY <1>7, <3>2 DEF TypeInv
      <4> QED
        BY <2>2, <4>1 DEF SkippedNext
    <3> QED
      BY <3>1, <3>2
  <2> QED
    BY <1>10, <2>1, <2>2 DEF Skipped
<1>11. MarkedNext(s, n)
  BY <1>2, <1>6, Unmarked
<1>12. \A k \in Nat : k = 0 => ~TaskAt(s, k)' /\ ~TaskAt(s, k)
  BY NoFrame0
<1>13. stack[s][n].at # "threw"
  BY <1>2
<1>14. \A k \in Nat : k = 0 \/ k = n =>
         /\ TaskAt(s, k)' => MarkedNext(s, k)
         /\ TaskAt(s, k) /\ stack[s][k].at = "threw"
              => exc'[CallOf(stack[s][k].task)] # None
  BY <1>11, <1>12, <1>13
<1>15. /\ 0 \in Nat /\ open \subseteq open' /\ threw \subseteq threw'
       /\ \A x \in threw' : x \in threw
  BY <1>7
<1> QED
  BY <1>2, <1>5, <1>9, <1>10, <1>14, <1>15, ExcMoved

(* A drain that moves on, a share and a task that forks keep it.           *)
LEMMA ExcQuiet ==
  ASSUME TypeInv, OuterInv, StackInv, ExcInv, NEW s \in Slots,
         LookOn(s) \/ Begin(s) \/ ShareDone(s) \/ BodyFork(s)
  PROVE  ExcInv'
<1>1. TasksBut(s, 0) /\ PlacesBut(s, 0)
  <2>1. CASE LookOn(s)
    BY <2>1, QuietMove, MovedCall
  <2>2. CASE Begin(s)
    BY <2>2, BeginShape
  <2>3. CASE ShareDone(s)
    <3>1. /\ At(s, "drain") /\ "drain" \in CallPlaces
          /\ stack' = [stack EXCEPT ![s] = Front(stack[s])]
      BY <2>3, ShareStack, Apart
    <3> QED
      BY <3>1, LeftTop
  <2>4. CASE BodyFork(s)
    BY <2>4, ForkStack, EnteredCall, Apart
  <2> QED
    BY <2>1, <2>2, <2>3, <2>4
<1>2. /\ UNCHANGED <<exc, cancelled, threw, stopped>>
      /\ open \subseteq open' /\ token \subseteq token'
  BY DEF LookOn, Look, PopNone, StealNone, Begin, ShareDone, BodyFork,
     stateVars
<1>3. 0 \in Nat /\ \A k \in Nat : k = 0 \/ k = 0 =>
           /\ TaskAt(s, k)' => MarkedNext(s, k)
           /\ TaskAt(s, k) => stack[s][k].at # "threw"
  BY NoFrame0
<1> QED
  BY <1>1, <1>2, <1>3, ExcPlain

(* A task that is taken keeps it.                                          *)
LEMMA ExcTake ==
  ASSUME TypeInv, ExcInv, NEW s \in Slots, NEW v \in Slots,
         (PopOwn(s) /\ v = s) \/ Steal(s, v)
  PROVE  ExcInv'
<1> DEFINE n == Len(stack[s])
<1>1. PICK i \in 1 .. Len(deque[v]), h \in {"own", "peer"}, q \in {"pop", "steal"} :
           /\ At(s, q) /\ deque[v][i] \in Tasks
           /\ Above(s, TaskFrame("gate", deque[v][i], h))
  BY TookTask
<1>2. /\ n \in Nat /\ stack'[s][n + 1].at = "gate"
      /\ TasksBut(s, n + 1) /\ PlacesBut(s, 0)
  BY <1>1, TakeStack
<1>3. /\ UNCHANGED <<exc, cancelled, threw, stopped>>
      /\ open \subseteq open' /\ token \subseteq token'
  BY DEF PopOwn, Steal, stateVars
<1>4. MarkedNext(s, n + 1)
  BY <1>2, Unmarked
<1>5. \A k \in Nat : k = n + 1 => ~TaskAt(s, k)
  BY <1>2 DEF TaskAt
<1>6. \A k \in Nat : k = 0 => ~TaskAt(s, k)' /\ ~TaskAt(s, k)
  BY NoFrame0
<1>7. n + 1 \in Nat /\ 0 \in Nat
  BY <1>2
<1> HIDE DEF n
<1>8. \A k \in Nat : k = n + 1 \/ k = 0 =>
           /\ TaskAt(s, k)' => MarkedNext(s, k)
           /\ TaskAt(s, k) => stack[s][k].at # "threw"
  BY <1>4, <1>5, <1>6
<1> QED
  BY <1>2, <1>3, <1>7, <1>8, ExcPlain

(* A call that pushes keeps it.                                            *)
LEMMA ExcPush ==
  ASSUME TypeInv, StackInv, ExcInv, NEW s \in Slots, Push(s)
  PROVE  ExcInv'
<1> DEFINE n == Len(stack[s])
<1>1. /\ UNCHANGED <<exc, cancelled, threw, stopped>>
      /\ open \subseteq open' /\ token \subseteq token'
  BY DEF Push, stateVars
<1>2. \A k \in Nat : k = 0 => ~TaskAt(s, k)' /\ ~TaskAt(s, k)
  BY NoFrame0
<1>3. n \in Nat
  BY Heights
<1>4. CASE stack[s][n].own + 1 < Deferred(TopCall(s))
  <2>1. TasksBut(s, 0) /\ PlacesBut(s, 0)
    BY <1>4, PushedMore
  <2>2. 0 \in Nat /\ \A k \in Nat : k = 0 \/ k = 0 =>
           /\ TaskAt(s, k)' => MarkedNext(s, k)
           /\ TaskAt(s, k) => stack[s][k].at # "threw"
    BY <1>2
  <2> QED
    BY <1>1, <2>1, <2>2, ExcPlain
<1>5. CASE ~(stack[s][n].own + 1 < Deferred(TopCall(s)))
  <2>1. /\ stack'[s][n + 1].at = "gate"
        /\ TasksBut(s, n + 1) /\ PlacesBut(s, 0)
    BY <1>5, PushedLast
  <2>2. MarkedNext(s, n + 1)
    BY <1>3, <2>1, Unmarked
  <2>3. \A k \in Nat : k = n + 1 => ~TaskAt(s, k)
    BY <1>3 DEF TaskAt
  <2>4. n + 1 \in Nat /\ 0 \in Nat
    BY <1>3
  <2> HIDE DEF n
  <2>5. \A k \in Nat : k = n + 1 \/ k = 0 =>
           /\ TaskAt(s, k)' => MarkedNext(s, k)
           /\ TaskAt(s, k) => stack[s][k].at # "threw"
    BY <1>2, <2>2, <2>3
  <2> QED
    BY <1>1, <2>1, <2>4, <2>5, ExcPlain
<1> QED
  BY <1>4, <1>5

(* A task that retires keeps it.                                           *)
LEMMA ExcRetire ==
  ASSUME TypeInv, StackInv, ExcInv, NEW s \in Slots, Retire(s)
  PROVE  ExcInv'
<1> DEFINE n == Len(stack[s])
<1>1. /\ UNCHANGED <<exc, cancelled, threw, stopped>>
      /\ open \subseteq open' /\ token \subseteq token'
  BY DEF Retire
<1>2. /\ TasksBut(s, n) /\ PlacesBut(s, 0)
      /\ \A k \in Nat : k = n => ~TaskAt(s, k)'
  BY RetiredTask
<1>3. n \in Nat /\ stack[s][n].at # "threw"
  BY RetiredStack
<1>4. \A k \in Nat : k = 0 => ~TaskAt(s, k)' /\ ~TaskAt(s, k)
  BY NoFrame0
<1> HIDE DEF n
<1>5. 0 \in Nat /\ \A k \in Nat : k = n \/ k = 0 =>
           /\ TaskAt(s, k)' => MarkedNext(s, k)
           /\ TaskAt(s, k) => stack[s][k].at # "threw"
  BY <1>2, <1>3, <1>4
<1> QED
  BY <1>1, <1>2, <1>3, <1>5, ExcPlain

(* What is left of a call that is closed.                                  *)
LEMMA ClosedCall ==
  ASSUME TypeInv, NEW c \in Calls, Close(c)
  PROVE  /\ exc'[c] = None /\ ~cancelled'[c]
         /\ \A x \in Calls : x # c => exc'[x] = exc[x] /\ cancelled'[x] = cancelled[x]
         /\ open' = open \ {c} /\ token' = token \ {c} /\ outcome' = exc[c]
BY DEF Close, TypeInv

(* The return of the outer call keeps it: nobody runs.                     *)
LEMMA ExcReturn ==
  ASSUME TypeInv, OuterInv, DequeInv, CountInv, ExcInv, Return
  PROVE  ExcInv'
<1>1. /\ Close(outer) /\ threw' = {t \in threw : CallOf(t) # outer}
      /\ UNCHANGED stack /\ outer \in Calls
  BY OuterIs DEF Return
<1>2. \A u \in Slots, k \in Nat : ~TaskAt(u, k)
  BY NothingOffered
<1>3. \A u \in Slots, k \in Nat : ~TaskAt(u, k)'
  BY <1>1, <1>2 DEF TaskAt
<1>4. /\ exc'[outer] = None /\ ~cancelled'[outer]
      /\ \A x \in Calls : x # outer => exc'[x] = exc[x] /\ cancelled'[x] = cancelled[x]
      /\ open' = open \ {outer}
  BY <1>1, ClosedCall
<1>5. \A c \in Calls :
           /\ exc'[c] # None => exc'[c] \in threw' /\ CallOf(exc'[c]) = c
           /\ cancelled'[c] => exc'[c] # None
  BY <1>1, <1>4 DEF ExcInv, CaughtInv
<1>6. ASSUME NEW t \in threw' PROVE CallOf(t) \in open' /\ exc'[CallOf(t)] # None
  <2>1. t \in threw /\ t \in Tasks /\ CallOf(t) # outer
    BY <1>1 DEF TypeInv
  <2>2. CallOf(t) \in open /\ exc[CallOf(t)] # None /\ CallOf(t) \in Calls
    BY <1>2, <2>1, TasksAre DEF ExcInv, ThrownInv
  <2> QED
    BY <1>4, <2>1, <2>2
<1> QED
  BY <1>3, <1>5, <1>6, ExcNext

(* A join that is done keeps it: its exception becomes the caller's.       *)
LEMMA ExcJoin ==
  ASSUME TypeInv, StackInv, CallsInv, CountInv, OnceInv, ExcInv,
         NEW s \in Slots, JoinDone(s)
  PROVE  ExcInv'
<1> DEFINE n == Len(stack[s])
           c == stack[s][n].call
           b == stack[s][n - 1].task
<1>1. /\ n \in Nat /\ n > 1 /\ c \in Calls /\ c = TopCall(s)
      /\ stack[s][n - 1].at = "body"
      /\ b = Last(Front(stack[s])).task /\ Len(stack'[s]) = n - 1
      /\ stack'[s][n - 1].at = IF exc[c] = None THEN "body" ELSE "threw"
      /\ stack'[s][n - 1].task = b
  BY JoinedStack
<1>2. /\ Close(c)
      /\ threw' = IF exc[c] = None THEN threw \ {t \in threw : CallOf(t) = c}
                  ELSE (threw \ {t \in threw : CallOf(t) = c}) \union {b}
      /\ UNCHANGED stopped
  BY <1>1 DEF JoinDone
<1>3. TasksBut(s, 0) /\ PlacesBut(s, n - 1)
  BY JoinedCall
<1>4. \A u \in Slots, k \in Nat : TaskAt(u, k) => CallOf(stack[u][k].task) # c
  BY NoneLeft
<1>5. /\ exc'[c] = None /\ ~cancelled'[c]
      /\ \A x \in Calls : x # c => exc'[x] = exc[x] /\ cancelled'[x] = cancelled[x]
      /\ open' = open \ {c} /\ token' = token \ {c}
  BY <1>1, <1>2, ClosedCall
<1>6. n - 1 \in Nat /\ n - 1 > 0 /\ n - 1 \in 1 .. n /\ n - 1 \in 1 .. n - 1
  BY <1>1
<1>7. TaskAt(s, n - 1)
  BY <1>1, <1>6, Apart DEF TaskAt
<1>8. CallOf(b) \in open /\ CallOf(b) # c
  BY <1>4, <1>6, <1>7 DEF OnceInv, TakenOpen
<1>9. \A k \in Nat : k = n - 1 => TaskAt(s, k)'
  BY <1>1, <1>6, Apart DEF TaskAt
<1> HIDE DEF n, c, b
<1>10. \A t \in threw : CallOf(t) # c => t \in threw'
  BY <1>2
<1>11. \A x \in Calls :
           /\ exc'[x] # None => exc'[x] \in threw' /\ CallOf(exc'[x]) = x
           /\ cancelled'[x] => exc'[x] # None
  BY <1>5, <1>10 DEF ExcInv, CaughtInv
<1>12. ASSUME NEW u \in Slots, NEW k \in Nat, ~(u = s /\ k = n - 1), u # s \/ k # 0
       PROVE  /\ TaskAt(u, k)' <=> TaskAt(u, k)
              /\ TaskAt(u, k) => stack'[u][k].task = stack[u][k].task
                                 /\ stack'[u][k].at = stack[u][k].at
  BY <1>3, <1>6, <1>12, FrameStays
<1>13. ASSUME NEW t \in threw'
       PROVE  /\ CallOf(t) \in open'
              /\ exc'[CallOf(t)] # None \/ \E u \in Slots, k \in Nat :
                   TaskAt(u, k)' /\ stack'[u][k].at = "threw" /\ stack'[u][k].task = t
  <2>1. CASE exc[c] # None /\ t = b
    BY <1>1, <1>5, <1>6, <1>8, <1>9, <2>1
  <2>2. CASE t \in threw /\ CallOf(t) # c
    <3>1. CallOf(t) \in open /\ CallOf(t) \in Calls
      BY <2>2, TasksAre DEF TypeInv, ExcInv, ThrownInv
    <3>2. CASE exc[CallOf(t)] # None
      BY <1>5, <2>2, <3>1, <3>2
    <3>3. CASE \E u \in Slots, k \in Nat :
                 TaskAt(u, k) /\ stack[u][k].at = "threw" /\ stack[u][k].task = t
      <4>1. PICK u \in Slots, k \in Nat :
              TaskAt(u, k) /\ stack[u][k].at = "threw" /\ stack[u][k].task = t
        BY <3>3
      <4>2. ~(u = s /\ k = n - 1)
        BY <1>1, <4>1
      <4>3. u # s \/ k # 0
        BY <4>1, NoFrame0
      <4> QED
        BY <1>5, <1>12, <2>2, <3>1, <4>1, <4>2, <4>3
    <3> QED
      BY <2>2, <3>2, <3>3 DEF ExcInv, ThrownInv
  <2> QED
    BY <1>2, <2>1, <2>2
<1>14. ASSUME NEW u \in Slots, NEW k \in Nat, TaskAt(u, k)' PROVE MarkedNext(u, k)
  <2>1. CASE u = s /\ k = n - 1
    <3>1. CASE exc[c] = None
      BY <1>1, <1>6, <2>1, <3>1, Unmarked
    <3>2. CASE exc[c] # None
      BY <1>1, <1>2, <2>1, <3>2 DEF MarkedNext
    <3> QED
      BY <3>1, <3>2
  <2>2. CASE ~(u = s /\ k = n - 1)
    <3>1. u # s \/ k # 0
      BY <1>14, NoFrame0
    <3>2. /\ TaskAt(u, k) /\ stack'[u][k].task = stack[u][k].task
          /\ stack'[u][k].at = stack[u][k].at
      BY <1>12, <1>14, <2>2, <3>1
    <3>3. MarkedAt(u, k)
      BY <3>2 DEF ExcInv
    <3>4. CallOf(stack[u][k].task) \in Calls /\ CallOf(stack[u][k].task) # c
      BY <1>4, <3>2, TakenTask, TasksAre
    <3> QED
      BY <1>2, <1>5, <1>10, <3>2, <3>3, <3>4 DEF MarkedAt, MarkedNext,
         Skipped, SkippedNext
  <2> QED
    BY <2>1, <2>2
<1> QED
  BY <1>11, <1>13, <1>14, ExcNext

(* Every step keeps ExcInv.                                                *)
LEMMA ExcStep ==
  ASSUME CoreInv, ExcInv, [Next]_vars
  PROVE  ExcInv'
<1> USE DEF CoreInv
<1>1. CASE OuterCall \/ Stop \/ UNCHANGED vars
  <2>1. /\ UNCHANGED <<stack, exc, cancelled, threw>> /\ open \subseteq open'
        /\ token \subseteq token' /\ (stopped => stopped')
    BY <1>1 DEF OuterCall, Stop, vars, stateVars
  <2>2. TasksBut(0, 0) /\ PlacesBut(0, 0) /\ 0 \in Slots
    BY <2>1, NoneMoved, ForkJoinAssumption DEF ForkJoinAssumption
  <2>3. 0 \in Nat /\ \A k \in Nat : k = 0 \/ k = 0 =>
           /\ TaskAt(0, k)' => MarkedNext(0, k)
           /\ TaskAt(0, k) => stack[0][k].at # "threw"
    BY <2>2, NoFrame0
  <2> QED
    BY <2>1, <2>2, <2>3, ExcPlain
<1>2. CASE Return
  BY <1>2, ExcReturn
<1>3. ASSUME NEW s \in Slots, Slot(s) PROVE ExcInv'
  <2>1. CASE LookOn(s) \/ Begin(s) \/ ShareDone(s) \/ BodyFork(s)
    BY <2>1, ExcQuiet
  <2>2. CASE TaskStep(s)
    BY <2>2, ExcGate, ExcThrow, ExcCapture, ExcFlag DEF TaskStep
  <2>3. ASSUME NEW v \in Slots, (PopOwn(s) /\ v = s) \/ Steal(s, v)
        PROVE  ExcInv'
    BY <2>3, ExcTake
  <2>4. CASE Push(s)
    BY <2>4, ExcPush
  <2>5. CASE Retire(s)
    BY <2>5, ExcRetire
  <2>6. CASE JoinDone(s)
    BY <2>6, ExcJoin
  <2> QED
    BY <1>3, <2>1, <2>2, <2>3, <2>4, <2>5, <2>6, SlotStep
<1> QED
  BY <1>1, <1>2, <1>3 DEF Next, AllCallsMade

(* With the exceptions: one that was thrown is kept or about to be, the    *)
(* flag is up only behind one, and only a skipped call passes a task over. *)
THEOREM ForkJoinInvariance == Spec => [](CoreInv /\ ExcInv)
<1>1. Init => ExcInv
  <2> SUFFICES ASSUME Init PROVE ExcInv
    OBVIOUS
  <2>1. \A u \in Slots, k \in Nat : ~CallAt(u, k) /\ ~TaskAt(u, k)
    BY NoFrames DEF Init
  <2> QED
    BY <2>1 DEF ExcInv, CaughtInv, ThrownInv, Init
<1>2. CoreInv /\ ExcInv /\ [Next]_vars => ExcInv'
  BY ExcStep
<1> QED
  BY <1>1, <1>2, ForkJoinCore, PTL DEF Spec

-----------------------------------------------------------------------------
(***************************************************************************)
(* The view of TaskScope.                                                  *)
(***************************************************************************)
(* What TaskScope sees of a state, task by task.                           *)
Before == {"gate", "skipped"}
WaitAt(s, k, t) == /\ PushAt(s, k)
                   /\ stack[s][k].call = CallOf(t) /\ stack[s][k].own < t[2]
StandAt(s, k, t, P) ==
  TaskAt(s, k) /\ stack[s][k].task = t /\ stack[s][k].at \in P
WaitsAt(t) == \E s \in Slots, k \in Nat : WaitAt(s, k, t)
StandsAt(t, P) == \E s \in Slots, k \in Nat : StandAt(s, k, t, P)
Todo == {t \in Tasks : OfferedAt(t) \/ WaitsAt(t) \/ StandsAt(t, Before)}
Running == {t \in Tasks : StandsAt(t, Underway)}

(* The tasks in certain places, frame by frame.                            *)
LEMMA StandsIs ==
  ASSUME TypeInv, NEW P
  PROVE  TasksAt(P) = {t \in Tasks : StandsAt(t, P)}
<1>1. ASSUME NEW t \in TasksAt(P) PROVE t \in Tasks /\ StandsAt(t, P)
  <2>1. PICK f \in TaskFrames : f.at \in P /\ f.task = t
    BY DEF TasksAt
  <2>2. PICK s \in Slots, k \in Nat : TaskAt(s, k) /\ stack[s][k] = f
    BY FramesAre
  <2>3. f.task \in Tasks
    BY <2>2, TakenTask
  <2> QED
    BY <2>1, <2>2, <2>3 DEF StandsAt, StandAt
<1>2. ASSUME NEW t \in Tasks, StandsAt(t, P) PROVE t \in TasksAt(P)
  <2>1. PICK s \in Slots, k \in Nat : StandAt(s, k, t, P)
    BY <1>2 DEF StandsAt
  <2>2. stack[s][k] \in TaskFrames
    BY <2>1, FramesAre DEF StandAt
  <2> QED
    BY <2>1, <2>2 DEF TasksAt, StandAt
<1> QED
  BY <1>1, <1>2

(* The tasks still to be pushed, call by call.                             *)
LEMMA WaitsIs ==
  ASSUME TypeInv
  PROVE  Unpushed = {t \in Tasks : WaitsAt(t)}
<1>1. ASSUME NEW t \in Unpushed PROVE t \in Tasks /\ WaitsAt(t)
  <2>1. PICK f \in CallFrames :
          f.at = "push" /\ t \in {<<f.call, i>> : i \in f.own + 1 .. Fanout(f.call)}
    BY DEF Unpushed
  <2>2. PICK i \in f.own + 1 .. Fanout(f.call) : t = <<f.call, i>>
    BY <2>1
  <2>3. PICK s \in Slots, k \in Nat : CallAt(s, k) /\ stack[s][k] = f
    BY FramesAre
  <2>4. f \in FrameType /\ f.at \in CallPlaces
    BY <2>3, Heights DEF CallAt
  <2>5. f.call \in Calls /\ f.own \in Nat
    BY <2>4, FrameIs
  <2>6. Fanout(f.call) \in Nat
    BY CallsAre
  <2>7. i \in 1 .. Fanout(f.call) /\ f.own < i
    BY <2>5, <2>6
  <2>8. t \in Tasks /\ CallOf(t) = f.call /\ t[2] = i
    BY <2>2, <2>5, <2>7, TasksAre
  <2> QED
    BY <2>1, <2>3, <2>7, <2>8 DEF WaitsAt, WaitAt, PushAt
<1>2. ASSUME NEW t \in Tasks, WaitsAt(t) PROVE t \in Unpushed
  <2>1. PICK s \in Slots, k \in Nat : WaitAt(s, k, t)
    BY <1>2 DEF WaitsAt
  <2> DEFINE f == stack[s][k]
  <2>2. CallAt(s, k) /\ f.at = "push" /\ f.call = CallOf(t) /\ f.own < t[2]
    BY <2>1 DEF WaitAt, PushAt
  <2>3. f \in CallFrames
    BY <2>2, FramesAre
  <2>4. f \in FrameType /\ f.at \in CallPlaces
    BY <2>2, Heights DEF CallAt
  <2>5. f.own \in Nat
    BY <2>4, FrameIs
  <2>6. t[2] \in 1 .. Fanout(f.call) /\ t = <<f.call, t[2]>> /\ Fanout(f.call) \in Nat
    BY <2>2, TasksAre, CallsAre
  <2>7. t[2] \in f.own + 1 .. Fanout(f.call)
    BY <2>2, <2>5, <2>6
  <2> HIDE DEF f
  <2> QED
    BY <2>2, <2>3, <2>6, <2>7 DEF Unpushed
<1> QED
  BY <1>1, <1>2

(* TaskScope's todo and running, task by task.                             *)
LEMMA Mapped ==
  TypeInv => /\ Offered \union Unpushed \union TasksAt({"gate", "skipped"}) = Todo
             /\ TasksAt({"body", "threw", "flag", "retire"}) = Running
<1> SUFFICES ASSUME TypeInv
             PROVE  /\ Offered \union Unpushed \union TasksAt({"gate", "skipped"}) = Todo
                    /\ TasksAt({"body", "threw", "flag", "retire"}) = Running
  OBVIOUS
<1>1. TasksAt({"body", "threw", "flag", "retire"}) = Running
  BY StandsIs DEF Running, Underway
<1>2. TasksAt({"gate", "skipped"}) = {t \in Tasks : StandsAt(t, Before)}
  BY StandsIs DEF Before
<1>3. Offered = {t \in Tasks : OfferedAt(t)}
  <2>1. \A t : OfferedAt(t) => t \in Tasks
    BY Heights DEF OfferedAt
  <2> QED
    BY <2>1, OfferedIs
<1>4. Unpushed = {t \in Tasks : WaitsAt(t)}
  BY WaitsIs
<1> QED
  BY <1>1, <1>2, <1>3, <1>4 DEF Todo

(* The same in the next state.                                             *)
LEMMA MappedNext ==
  TypeInv' =>
    /\ (Offered \union Unpushed \union TasksAt({"gate", "skipped"}))' = Todo'
    /\ TasksAt({"body", "threw", "flag", "retire"})' = Running'
<1> DEFINE A == Offered \union Unpushed \union TasksAt({"gate", "skipped"}) = Todo
           B == TasksAt({"body", "threw", "flag", "retire"}) = Running
<1>1. TypeInv => A /\ B
  BY Mapped
<1> HIDE DEF A, B
<1>2. TypeInv' => A' /\ B'
  BY <1>1, PTL
<1> QED
  BY <1>2 DEF A, B

(* A step as TaskScope sees it.                                            *)
LEMMA OpenMaps ==
  ASSUME TypeInv, TypeInv', NEW c \in Calls, c \notin open,
         open' = open \union {c},
         Todo' = Todo \union {t \in Tasks : CallOf(t) = c},
         token' \in {token, token \union {c}},
         Running' = Running, UNCHANGED <<threw, outcome, stopped>>
  PROVE  Scopes!Next
<1>1. Scopes!Open(c)
  BY Mapped, MappedNext DEF Scopes!Open, Scopes!TasksOf, CallOf
<1> QED
  BY <1>1 DEF Scopes!Next

(* It sees a task begin.                                                   *)
LEMMA StartMaps ==
  ASSUME TypeInv, TypeInv', NEW t \in Todo, CallOf(t) \in open,
         Todo' = Todo \ {t}, Running' = Running \union {t},
         UNCHANGED <<open, threw, outcome, token, stopped>>
  PROVE  Scopes!Next
<1>1. t \in Tasks
  BY DEF Todo
<1>2. Scopes!Start(t)
  BY Mapped, MappedNext DEF Scopes!Start, CallOf
<1> QED
  BY <1>1, <1>2 DEF Scopes!Next

(* It sees a task passed over.                                             *)
LEMMA SkipMaps ==
  ASSUME TypeInv, TypeInv', NEW t \in Todo,
         Todo' = Todo \ {t}, Running' = Running,
         \/ \E x \in threw : CallOf(x) = CallOf(t)
         \/ CallOf(t) \in token /\ stopped,
         UNCHANGED <<open, threw, outcome, token, stopped>>
  PROVE  Scopes!Next
<1>1. t \in Tasks
  BY DEF Todo
<1>2. Scopes!PassedOver(t[1])
  BY DEF Scopes!PassedOver, Scopes!TasksOf, CallOf, TypeInv
<1>3. Scopes!Skip(t)
  BY <1>2, Mapped, MappedNext DEF Scopes!Skip
<1> QED
  BY <1>1, <1>3 DEF Scopes!Next

(* It sees a task throw.                                                   *)
LEMMA ThrowMaps ==
  ASSUME TypeInv, TypeInv', NEW t \in Running, threw' = threw \union {t},
         Todo' = Todo, Running' = Running,
         UNCHANGED <<open, outcome, token, stopped>>
  PROVE  Scopes!Next
<1>1. t \in Tasks
  BY DEF Running
<1>2. Scopes!Throw(t)
  BY Mapped, MappedNext DEF Scopes!Throw
<1> QED
  BY <1>1, <1>2 DEF Scopes!Next

(* It sees a task end.                                                     *)
LEMMA FinishMaps ==
  ASSUME TypeInv, TypeInv', NEW t \in Running,
         Todo' = Todo, Running' = Running \ {t},
         UNCHANGED <<open, threw, outcome, token, stopped>>
  PROVE  Scopes!Next
<1>1. t \in Tasks
  BY DEF Running
<1>2. Scopes!Finish(t)
  BY Mapped, MappedNext DEF Scopes!Finish
<1> QED
  BY <1>1, <1>2 DEF Scopes!Next

(* It sees a call close.                                                   *)
LEMMA CloseMaps ==
  ASSUME TypeInv, TypeInv', NEW c \in Calls, c \in open,
         \A t \in Todo \union Running : CallOf(t) # c,
         open' = open \ {c}, token' = token \ {c},
         Todo' = Todo, Running' = Running, UNCHANGED stopped,
         NEW over, over = {t \in threw : CallOf(t) = c},
         IF over = {} THEN outcome' = None /\ UNCHANGED threw
         ELSE /\ outcome' \in over
              /\ threw' = threw \ over \/ \E u \in Running : threw' = (threw \ over) \union {u}
  PROVE  Scopes!Next
<1>1. threw \intersect Scopes!TasksOf(c) = over
  BY DEF Scopes!TasksOf, CallOf, TypeInv
<1>2. Scopes!TasksOf(c) \intersect (Todo \union Running) = {}
  BY DEF Scopes!TasksOf, CallOf
<1>3. Scopes!Close(c)
  BY <1>1, <1>2, Mapped, MappedNext DEF Scopes!Close
<1> QED
  BY <1>3 DEF Scopes!Next

(* It sees the token stopped.                                              *)
LEMMA StopMaps ==
  ASSUME TypeInv, TypeInv', stopped', Todo' = Todo, Running' = Running,
         UNCHANGED <<open, threw, outcome, token>>
  PROVE  Scopes!Next
<1>1. Scopes!Stop
  BY Mapped, MappedNext DEF Scopes!Stop, TypeInv
<1> QED
  BY <1>1 DEF Scopes!Next

(* It sees nothing.                                                        *)
LEMMA QuietMaps ==
  ASSUME TypeInv, TypeInv', Todo' = Todo, Running' = Running,
         UNCHANGED <<open, threw, outcome, token, stopped>>
  PROVE  UNCHANGED Scopes!vars
BY Mapped, MappedNext DEF Scopes!vars

(* Where the tasks stand, for a step that changes one frame.               *)
LEMMA StandsKept ==
  ASSUME NEW s \in Slots, NEW m \in Nat, NEW p \in Nat,
         TasksBut(s, m), PlacesBut(s, p), NEW t, NEW P,
         \A k \in Nat : k = m \/ k = p =>
           (StandAt(s, k, t, P)' <=> StandAt(s, k, t, P))
  PROVE  StandsAt(t, P)' <=> StandsAt(t, P)
<1>1. ASSUME NEW u \in Slots, NEW k \in Nat
      PROVE  StandAt(u, k, t, P)' <=> StandAt(u, k, t, P)
  <2>1. CASE u = s /\ (k = m \/ k = p)
    BY <2>1
  <2>2. CASE ~(u = s /\ (k = m \/ k = p))
    BY <2>2, FrameStays DEF StandAt
  <2> QED
    BY <2>1, <2>2
<1> QED
  BY <1>1 DEF StandsAt

(* Which tasks wait to be pushed, where no spreading call changes.         *)
LEMMA WaitsKept ==
  ASSUME NEW s \in Slots, NEW m \in Nat, NEW p \in Nat,
         CallsBut(s, m), OwnsBut(s, p),
         \A k \in Nat : k = m \/ k = p => ~PushAt(s, k) /\ ~PushAt(s, k)',
         NEW t
  PROVE  WaitsAt(t)' <=> WaitsAt(t)
<1>1. ASSUME NEW u \in Slots, NEW k \in Nat
      PROVE  WaitAt(u, k, t)' <=> WaitAt(u, k, t)
  <2>1. CASE u = s /\ (k = m \/ k = p)
    BY <2>1 DEF WaitAt
  <2>2. CASE ~(u = s /\ (k = m \/ k = p))
    <3>1. CallSame(u, k) /\ OwnSame(u, k)
      BY <2>2 DEF CallsBut, OwnsBut
    <3> QED
      BY <3>1 DEF CallSame, OwnSame, WaitAt, PushAt
  <2> QED
    BY <2>1, <2>2
<1> QED
  BY <1>1 DEF WaitsAt

(* Where no call changes, the same tasks wait.                             *)
LEMMA WaitsSame ==
  ASSUME NEW s \in Slots, CallsBut(s, 0), OwnsBut(s, 0), NEW t
  PROVE  WaitsAt(t)' <=> WaitsAt(t)
<1>1. 0 \in Nat /\ \A k \in Nat : k = 0 \/ k = 0 => ~PushAt(s, k) /\ ~PushAt(s, k)'
  BY NoFrame0 DEF PushAt
<1> QED
  BY <1>1, WaitsKept

(* So they do after all steps but pushes, takes and forks.                 *)
LEMMA WaitsPlain ==
  ASSUME TypeInv, StackInv, OuterInv, NEW s \in Slots, Plain(s), NEW t
  PROVE  WaitsAt(t)' <=> WaitsAt(t)
<1> DEFINE n == Len(stack[s])
<1>0. \A k \in Nat : k = 0 => ~PushAt(s, k) /\ ~PushAt(s, k)'
  BY NoFrame0 DEF PushAt
<1>1. CASE LookOn(s) \/ TaskStep(s)
  BY <1>1, QuietShape, WaitsSame
<1>2. CASE Begin(s)
  <2>1. /\ CallsBut(s, 1) /\ OwnsBut(s, 0)
        /\ ~CallAt(s, 1) /\ stack'[s][1].at = "drain"
    BY <1>2, BeginShape
  <2>2. 0 \in Nat /\ 1 \in Nat /\ \A k \in Nat : k = 1 \/ k = 0 =>
          ~PushAt(s, k) /\ ~PushAt(s, k)'
    BY <1>0, <2>1 DEF PushAt
  <2> QED
    BY <2>1, <2>2, WaitsKept
<1>3. CASE ShareDone(s)
  <2>1. /\ CallsBut(s, n) /\ OwnsBut(s, 0) /\ n \in Nat
        /\ \A k \in Nat : k = n => ~CallAt(s, k)'
        /\ stack[s][n].at = "drain"
    BY <1>3, ShareStack, LeftTop, Apart
  <2> HIDE DEF n
  <2>2. 0 \in Nat /\ \A k \in Nat : k = n \/ k = 0 => ~PushAt(s, k) /\ ~PushAt(s, k)'
    BY <1>0, <2>1 DEF PushAt
  <2> QED
    BY <2>1, <2>2, WaitsKept
<1>4. CASE JoinDone(s)
  <2>1. /\ CallsBut(s, n) /\ OwnsBut(s, 0) /\ n \in Nat
        /\ \A k \in Nat : k = n => ~CallAt(s, k)'
        /\ stack[s][n].at = "drain"
    BY <1>4, JoinedCall, JoinedStack
  <2> HIDE DEF n
  <2>2. 0 \in Nat /\ \A k \in Nat : k = n \/ k = 0 => ~PushAt(s, k) /\ ~PushAt(s, k)'
    BY <1>0, <2>1 DEF PushAt
  <2> QED
    BY <2>1, <2>2, WaitsKept
<1>5. CASE Retire(s)
  <2>1. /\ CallsBut(s, 0) /\ OwnsBut(s, n - 1) /\ n \in Nat /\ n > 1
        /\ stack[s][n - 1].at # "push" /\ stack'[s][n - 1].at # "push"
    BY <1>5, RetiredTask, RetiredStack
  <2>2. n - 1 \in Nat
    BY <2>1
  <2> HIDE DEF n
  <2>3. 0 \in Nat /\ \A k \in Nat : k = 0 \/ k = n - 1 =>
          ~PushAt(s, k) /\ ~PushAt(s, k)'
    BY <1>0, <2>1 DEF PushAt
  <2> QED
    BY <2>1, <2>2, <2>3, WaitsKept
<1> QED
  BY <1>1, <1>2, <1>3, <1>4, <1>5 DEF Plain

(* A step after which all tasks are where they were.                       *)
LEMMA ViewSame ==
  ASSUME \A t \in Tasks : OfferedAt(t)' <=> OfferedAt(t),
         \A t \in Tasks : WaitsAt(t)' <=> WaitsAt(t),
         \A t \in Tasks : StandsAt(t, Before)' <=> StandsAt(t, Before),
         \A t \in Tasks : StandsAt(t, Underway)' <=> StandsAt(t, Underway)
  PROVE  Todo' = Todo /\ Running' = Running
BY DEF Todo, Running

(* The same deques offer the same tasks.                                   *)
LEMMA OffersSame ==
  ASSUME UNCHANGED deque
  PROVE  \A t : OfferedAt(t)' <=> OfferedAt(t)
BY DEF OfferedAt

(* Nobody stands below the first frame.                                    *)
LEMMA NoStand0 ==
  ASSUME NEW s \in Slots, NEW t, NEW P
  PROVE  \A k \in Nat : k = 0 => ~StandAt(s, k, t, P)' /\ ~StandAt(s, k, t, P)
BY NoFrame0 DEF StandAt

(* A step that moves no task.                                              *)
LEMMA StandsSame ==
  ASSUME NEW s \in Slots, TasksBut(s, 0), PlacesBut(s, 0), NEW t, NEW P
  PROVE  StandsAt(t, P)' <=> StandsAt(t, P)
<1>1. 0 \in Nat /\ \A k \in Nat : k = 0 \/ k = 0 =>
           (StandAt(s, k, t, P)' <=> StandAt(s, k, t, P))
  BY NoStand0
<1> QED
  BY <1>1, StandsKept

(* A frame that changes its place, or a task that leaves its frame.        *)
LEMMA StandsMoved ==
  ASSUME TypeInv, NEW s \in Slots, NEW n \in Nat, n \in 1 .. Len(stack[s]),
         n \in 1 .. Len(stack'[s]), TasksBut(s, 0), PlacesBut(s, n),
         stack[s][n].at \in TaskPlaces, stack'[s][n].at \in TaskPlaces,
         stack'[s][n].task = stack[s][n].task, NEW t, NEW P,
         stack[s][n].task = t => (stack'[s][n].at \in P <=> stack[s][n].at \in P)
  PROVE  StandsAt(t, P)' <=> StandsAt(t, P)
<1>1. \A k \in Nat : k = n => (StandAt(s, k, t, P)' <=> StandAt(s, k, t, P))
  BY DEF StandAt, TaskAt
<1>2. 0 \in Nat /\ \A k \in Nat : k = 0 \/ k = n =>
           (StandAt(s, k, t, P)' <=> StandAt(s, k, t, P))
  BY <1>1, NoStand0
<1> QED
  BY <1>2, StandsKept

(* A task on a stack is there once.                                        *)
LEMMA StandsOnce ==
  ASSUME OnceInv, NEW s \in Slots, NEW n \in Nat, TaskAt(s, n),
         NEW u \in Slots, NEW k \in Nat, NEW P, StandAt(u, k, stack[s][n].task, P)
  PROVE  u = s /\ k = n
BY DEF StandAt, OnceInv, TakenOnce

(* The frame of a task says where it stands.                               *)
LEMMA StandsWhere ==
  ASSUME OnceInv, NEW s \in Slots, NEW n \in Nat, TaskAt(s, n), NEW P
  PROVE  StandsAt(stack[s][n].task, P) <=> stack[s][n].at \in P
<1>1. ASSUME StandsAt(stack[s][n].task, P) PROVE stack[s][n].at \in P
  <2>1. PICK u \in Slots, k \in Nat : StandAt(u, k, stack[s][n].task, P)
    BY <1>1 DEF StandsAt
  <2>2. u = s /\ k = n
    BY <2>1, StandsOnce
  <2> QED
    BY <2>1, <2>2 DEF StandAt
<1>2. ASSUME stack[s][n].at \in P PROVE StandsAt(stack[s][n].task, P)
  BY <1>2 DEF StandsAt, StandAt
<1> QED
  BY <1>1, <1>2

(* A task on a stack is neither offered nor still to be pushed.            *)
LEMMA StandsAlone ==
  ASSUME TypeInv, OnceInv, UnpushedInv, CallsInv, StackInv,
         NEW s \in Slots, NEW n \in Nat, TaskAt(s, n)
  PROVE  ~OfferedAt(stack[s][n].task) /\ ~WaitsAt(stack[s][n].task)
<1>1. ~OfferedAt(stack[s][n].task)
  BY DEF OfferedAt, OnceInv, NotBoth
<1>2. ~WaitsAt(stack[s][n].task)
  <2> SUFFICES ASSUME WaitsAt(stack[s][n].task) PROVE FALSE
    OBVIOUS
  <2>1. PICK u \in Slots, k \in Nat : WaitAt(u, k, stack[s][n].task)
    BY DEF WaitsAt
  <2>2. /\ CallAt(u, k) /\ stack[u][k].at = "push"
        /\ stack[u][k].call = CallOf(stack[s][n].task)
        /\ stack[u][k].own < stack[s][n].task[2]
    BY <2>1 DEF WaitAt, PushAt
  <2>3. stack[s][n].task[2] <= stack[u][k].own
    BY <2>2 DEF UnpushedInv
  <2>4. stack[u][k].own \in Nat
    BY <2>2, CallFacts
  <2>5. stack[s][n].task[2] \in 1 .. Fanout(CallOf(stack[s][n].task))
        /\ Fanout(CallOf(stack[s][n].task)) \in Nat
    BY TakenTask, TasksAre, CallsAre
  <2> QED
    BY <2>2, <2>3, <2>4, <2>5
<1> QED
  BY <1>1, <1>2

-----------------------------------------------------------------------------
(***************************************************************************)
(* Every step is one of TaskScope.                                         *)
(***************************************************************************)
(* Drains that look and shares that begin or end are not seen.             *)
LEMMA QuietView ==
  ASSUME TypeInv, TypeInv', StackInv, OuterInv, NEW s \in Slots,
         LookOn(s) \/ Begin(s) \/ ShareDone(s)
  PROVE  UNCHANGED Scopes!vars
<1>1. TasksBut(s, 0) /\ PlacesBut(s, 0)
  <2>1. CASE LookOn(s)
    BY <2>1, QuietMove, MovedCall
  <2>2. CASE Begin(s)
    BY <2>2, BeginShape
  <2>3. CASE ShareDone(s)
    <3>1. /\ At(s, "drain") /\ "drain" \in CallPlaces
          /\ stack' = [stack EXCEPT ![s] = Front(stack[s])]
      BY <2>3, ShareStack, Apart
    <3> QED
      BY <3>1, LeftTop
  <2> QED
    BY <2>1, <2>2, <2>3
<1>2. UNCHANGED <<deque, open, threw, outcome, token, stopped>>
  BY DEF LookOn, Look, PopNone, StealNone, Begin, ShareDone, stateVars
<1>3. Plain(s)
  BY DEF Plain
<1>4. Todo' = Todo /\ Running' = Running
  BY <1>1, <1>2, <1>3, OffersSame, WaitsPlain, StandsSame, ViewSame
<1> QED
  BY <1>2, <1>4, QuietMaps

(* A task moves on in its frame.                                           *)
LEMMA MoveView ==
  ASSUME TypeInv, StackInv, CallsInv, OuterInv, OnceInv, UnpushedInv,
         NEW s \in Slots, TaskStep(s), NEW q \in TaskPlaces, NEW p \in TaskPlaces,
         At(s, q), Move(s, p), NEW t, t = TopTask(s)
  PROVE  /\ t \in Tasks /\ CallOf(t) \in open
         /\ q \in Underway => t \in Running
         /\ q \in Underway /\ p \in Underway =>
              Todo' = Todo /\ Running' = Running
         /\ q \in Before /\ p \in Before =>
              Todo' = Todo /\ Running' = Running
         /\ q \in Before /\ p \in Underway =>
              t \in Todo /\ Todo' = Todo \ {t} /\ Running' = Running \union {t}
<1> DEFINE n == Len(stack[s])
<1>1. /\ n \in Nat /\ n > 0 /\ t = stack[s][n].task /\ stack[s][n].at = q
  BY Topmost DEF TopTask
<1>2. TaskAt(s, n)
  BY <1>1 DEF TaskAt
<1>3. t \in Tasks /\ CallOf(t) \in open
  BY <1>1, <1>2, TakenTask DEF OnceInv, TakenOpen
<1>4. TasksBut(s, 0) /\ PlacesBut(s, n)
  BY MovedTask
<1>5. /\ stack'[s][n].at = p /\ stack'[s][n].task = t /\ Len(stack'[s]) = n
  BY <1>1, MoveStack
<1>6. UNCHANGED deque
  BY TaskMove
<1>7. \A x : WaitsAt(x)' <=> WaitsAt(x)
  BY WaitsPlain DEF Plain
<1>8. \A x : OfferedAt(x)' <=> OfferedAt(x)
  BY <1>6, OffersSame
<1>9. ~OfferedAt(t) /\ ~WaitsAt(t)
  BY <1>1, <1>2, StandsAlone
<1>10. \A P : StandsAt(t, P) <=> q \in P
  BY <1>1, <1>2, StandsWhere
<1>11. ASSUME NEW x \in Tasks, x # t, NEW P PROVE StandsAt(x, P)' <=> StandsAt(x, P)
  <2>1. n \in 1 .. Len(stack[s]) /\ n \in 1 .. Len(stack'[s])
    BY <1>1, <1>5
  <2> HIDE DEF n
  <2>2. stack[s][n].task # x
    BY <1>1, <1>11 DEF n
  <2> QED
    BY <1>1, <1>4, <1>5, <2>1, <2>2, StandsMoved
<1>12. ASSUME NEW P PROVE StandsAt(t, P)' <=> p \in P
  <2>1. ASSUME StandsAt(t, P)' PROVE p \in P
    <3>1. PICK u \in Slots, k \in Nat : StandAt(u, k, t, P)'
      BY <2>1 DEF StandsAt
    <3>2. /\ TaskAt(u, k)' /\ stack'[u][k].task = stack[s][n].task
          /\ stack'[u][k].at \in P
      BY <1>1, <3>1 DEF StandAt
    <3>3. u = s /\ k = n
      <4> SUFFICES ASSUME ~(u = s /\ k = n) PROVE FALSE
        OBVIOUS
      <4>1. ~(u = s /\ k = 0)
        BY <3>2, NoFrame0
      <4>2. TaskAt(u, k) /\ stack'[u][k].task = stack[u][k].task
        BY <1>1, <1>4, <3>2, <4>1, FrameStays
      <4> QED
        BY <1>1, <1>2, <3>2, <4>2 DEF OnceInv, TakenOnce
    <3> QED
      BY <1>5, <3>2, <3>3
  <2>2. ASSUME p \in P PROVE StandsAt(t, P)'
    <3>1. \A k \in Nat : k = n => StandAt(s, k, t, P)'
      BY <1>1, <1>5, <2>2 DEF StandAt, TaskAt
    <3> QED
      BY <1>1, <3>1 DEF StandsAt
  <2> QED
    BY <2>1, <2>2
<1> HIDE DEF n
<1>13. ~(q \in Before /\ q \in Underway) /\ ~(p \in Before /\ p \in Underway)
  BY DEF Before, Underway
<1>14. q \in Underway => t \in Running
  BY <1>3, <1>10 DEF Running
<1>15. ASSUME q \in Underway <=> p \in Underway, q \in Before <=> p \in Before
       PROVE  Todo' = Todo /\ Running' = Running
  <2>1. \A x \in Tasks : StandsAt(x, Before)' <=> StandsAt(x, Before)
    BY <1>10, <1>11, <1>12, <1>15
  <2>2. \A x \in Tasks : StandsAt(x, Underway)' <=> StandsAt(x, Underway)
    BY <1>10, <1>11, <1>12, <1>15
  <2> QED
    BY <1>7, <1>8, <2>1, <2>2, ViewSame
<1>16. ASSUME q \in Before, p \in Underway
       PROVE  t \in Todo /\ Todo' = Todo \ {t} /\ Running' = Running \union {t}
  <2>1. t \in Todo /\ t \notin Todo' /\ t \in Running'
    BY <1>3, <1>7, <1>8, <1>9, <1>10, <1>12, <1>13, <1>16 DEF Todo, Running
  <2>2. \A x \in Tasks : x # t => (x \in Todo' <=> x \in Todo)
    BY <1>7, <1>8, <1>11 DEF Todo
  <2>3. \A x \in Tasks : x # t => (x \in Running' <=> x \in Running)
    BY <1>11 DEF Running
  <2>4. Todo \subseteq Tasks /\ Todo' \subseteq Tasks
        /\ Running \subseteq Tasks /\ Running' \subseteq Tasks
    BY DEF Todo, Running
  <2> QED
    BY <1>3, <2>1, <2>2, <2>3, <2>4
<1> QED
  BY <1>1, <1>3, <1>13, <1>14, <1>15, <1>16

(* The steps of a task: it begins, throws, or nothing is seen.             *)
LEMMA TaskMaps ==
  ASSUME CoreInv, TypeInv', NEW s \in Slots, TaskStep(s)
  PROVE  Scopes!Next \/ UNCHANGED Scopes!vars
<1> USE DEF CoreInv
<1>0. PICK t : t = TopTask(s)
  OBVIOUS
<1>1. CASE Gate(s)
  <2>1. /\ At(s, "gate") /\ UNCHANGED <<open, threw, outcome, token, stopped>>
        /\ Move(s, "skipped") \/ Move(s, "body")
        /\ "gate" \in TaskPlaces /\ "body" \in TaskPlaces /\ "skipped" \in TaskPlaces
        /\ "gate" \in Before /\ "skipped" \in Before /\ "body" \in Underway
    BY <1>1, Apart DEF Gate, Before, Underway, stateVars
  <2>2. CASE Move(s, "skipped")
    <3>1. Todo' = Todo /\ Running' = Running
      BY <1>0, <2>1, <2>2, MoveView
    <3> QED
      BY <2>1, <3>1, QuietMaps
  <2>3. CASE Move(s, "body")
    <3>1. /\ t \in Todo /\ Todo' = Todo \ {t} /\ Running' = Running \union {t}
          /\ CallOf(t) \in open
      BY <1>0, <2>1, <2>3, MoveView
    <3> QED
      BY <2>1, <3>1, StartMaps
  <2> QED
    BY <2>1, <2>2, <2>3
<1>2. CASE BodyThrow(s)
  <2>1. /\ At(s, "body") /\ Move(s, "threw") /\ threw' = threw \union {t}
        /\ UNCHANGED <<open, outcome, token, stopped>>
        /\ "body" \in TaskPlaces /\ "threw" \in TaskPlaces
        /\ "body" \in Underway /\ "threw" \in Underway
    BY <1>0, <1>2, Apart DEF BodyThrow, Underway, stateVars
  <2>2. t \in Running /\ Todo' = Todo /\ Running' = Running
    BY <1>0, <2>1, MoveView
  <2> QED
    BY <2>1, <2>2, ThrowMaps
<1>3. CASE BodyEnd(s) \/ Capture(s) \/ Flag(s)
  <2>1. PICK q \in Underway, p \in Underway : At(s, q) /\ Move(s, p)
    BY <1>3 DEF BodyEnd, Capture, Flag, Underway
  <2>2. q \in TaskPlaces /\ p \in TaskPlaces
    BY DEF TaskPlaces
  <2>3. Todo' = Todo /\ Running' = Running
    BY <1>0, <2>1, <2>2, MoveView
  <2>4. UNCHANGED <<open, threw, outcome, token, stopped>>
    BY <1>3 DEF BodyEnd, Capture, Flag, stateVars
  <2> QED
    BY <2>3, <2>4, QuietMaps
<1> QED
  BY <1>1, <1>2, <1>3 DEF TaskStep

(* A task that retires ends, or is passed over.                            *)
LEMMA RetireMaps ==
  ASSUME CoreInv, ExcInv, TypeInv', NEW s \in Slots, Retire(s)
  PROVE  Scopes!Next
<1> USE DEF CoreInv
<1> DEFINE n == Len(stack[s])
<1>0. PICK t : t = stack[s][n].task
  OBVIOUS
<1>1. /\ n \in Nat /\ n > 1 /\ stack[s][n].at \in {"retire", "skipped"}
  BY RetiredStack
<1>2. TaskAt(s, n)
  BY <1>1, Apart DEF TaskAt
<1>3. t \in Tasks /\ CallOf(t) \in Calls
  BY <1>0, <1>1, <1>2, TakenTask, TasksAre
<1>4. /\ TasksBut(s, n) /\ PlacesBut(s, 0)
      /\ \A k \in Nat : k = n => ~TaskAt(s, k)'
  BY RetiredTask
<1>5. UNCHANGED <<deque, open, threw, outcome, token, stopped>>
  BY DEF Retire
<1>6. \A x : WaitsAt(x)' <=> WaitsAt(x)
  BY WaitsPlain DEF Plain
<1>7. \A x : OfferedAt(x)' <=> OfferedAt(x)
  BY <1>5, OffersSame
<1>8. ~OfferedAt(t) /\ ~WaitsAt(t)
  BY <1>0, <1>1, <1>2, StandsAlone
<1>9. \A P : StandsAt(t, P) <=> stack[s][n].at \in P
  BY <1>0, <1>1, <1>2, StandsWhere
<1>10. \A u \in Slots, k \in Nat : TaskAt(u, k) /\ stack[u][k].task = t => u = s /\ k = n
  BY <1>0, <1>1, <1>2 DEF OnceInv, TakenOnce
<1>11. MarkedAt(s, n)
  BY <1>1, <1>2 DEF ExcInv
<1> HIDE DEF n
<1>12. ASSUME NEW x \in Tasks, x # t, NEW P PROVE StandsAt(x, P)' <=> StandsAt(x, P)
  <2>1. ASSUME NEW k \in Nat, k = n \/ k = 0
        PROVE  StandAt(s, k, x, P)' <=> StandAt(s, k, x, P)
    <3>1. CASE k = n
      <4>1. ~StandAt(s, k, x, P)'
        BY <1>4, <3>1 DEF StandAt
      <4>2. ~StandAt(s, k, x, P)
        BY <1>0, <1>12, <3>1 DEF StandAt
      <4> QED
        BY <4>1, <4>2
    <3>2. CASE k = 0
      BY <3>2, NoStand0
    <3> QED
      BY <2>1, <3>1, <3>2
  <2>2. 0 \in Nat
    OBVIOUS
  <2> QED
    BY <1>1, <1>4, <2>1, <2>2, StandsKept
<1>13. ASSUME NEW P PROVE ~StandsAt(t, P)'
  <2> SUFFICES ASSUME StandsAt(t, P)' PROVE FALSE
    OBVIOUS
  <2>1. PICK u \in Slots, k \in Nat : StandAt(u, k, t, P)'
    BY DEF StandsAt
  <2>2. TaskAt(u, k)' /\ stack'[u][k].task = t
    BY <2>1 DEF StandAt
  <2>3. ~(u = s /\ k = n) /\ ~(u = s /\ k = 0)
    BY <1>4, <2>2, NoFrame0
  <2>4. TaskAt(u, k) /\ stack'[u][k].task = stack[u][k].task
    BY <1>1, <1>4, <2>2, <2>3, FrameStays
  <2> QED
    BY <1>10, <2>2, <2>3, <2>4
<1>14. /\ \A x \in Tasks : x # t => (x \in Todo' <=> x \in Todo)
       /\ \A x \in Tasks : x # t => (x \in Running' <=> x \in Running)
  BY <1>6, <1>7, <1>12 DEF Todo, Running
<1>15. t \notin Todo' /\ t \notin Running'
  BY <1>6, <1>7, <1>8, <1>13 DEF Todo, Running
<1>16. /\ Todo \subseteq Tasks /\ Todo' \subseteq Tasks
       /\ Running \subseteq Tasks /\ Running' \subseteq Tasks
  BY DEF Todo, Running
<1>17. CASE stack[s][n].at = "retire"
  <2>1. t \in Running /\ t \notin Todo
    BY <1>3, <1>8, <1>9, <1>17 DEF Todo, Running, Before, Underway
  <2>2. Todo' = Todo /\ Running' = Running \ {t}
    BY <1>3, <1>14, <1>15, <1>16, <2>1
  <2> QED
    BY <1>5, <2>1, <2>2, FinishMaps
<1>18. CASE stack[s][n].at = "skipped"
  <2>1. t \in Todo /\ t \notin Running
    BY <1>3, <1>9, <1>18 DEF Todo, Running, Before, Underway
  <2>2. Todo' = Todo \ {t} /\ Running' = Running
    BY <1>3, <1>14, <1>15, <1>16, <2>1
  <2>3. Skipped(CallOf(t))
    BY <1>0, <1>11, <1>18 DEF MarkedAt
  <2>4. \/ \E x \in threw : CallOf(x) = CallOf(t)
        \/ CallOf(t) \in token /\ stopped
    BY <1>3, <2>3 DEF Skipped, ExcInv, CaughtInv
  <2> QED
    BY <1>5, <2>1, <2>2, <2>4, SkipMaps
<1> QED
  BY <1>1, <1>17, <1>18

(* A task that is taken is still to begin.                                 *)
LEMMA TakeMaps ==
  ASSUME CoreInv, TypeInv', NEW s \in Slots, NEW v \in Slots,
         (PopOwn(s) /\ v = s) \/ Steal(s, v)
  PROVE  UNCHANGED Scopes!vars
<1> USE DEF CoreInv
<1> DEFINE n == Len(stack[s])
<1>1. PICK i \in 1 .. Len(deque[v]), d \in {0, 1}, h \in {"own", "peer"},
           q \in {"pop", "steal"} :
           /\ At(s, q) /\ TakesFrom(v, i, d) /\ DequeType /\ deque[v][i] \in Tasks
           /\ Above(s, TaskFrame("gate", deque[v][i], h))
  BY TookTask
<1>0. PICK t \in Tasks : t = deque[v][i]
  BY <1>1
<1>2. /\ n \in Nat /\ Len(stack'[s]) = n + 1
      /\ stack'[s][n + 1].at = "gate" /\ stack'[s][n + 1].task = t
      /\ CallsBut(s, 0) /\ OwnsBut(s, 0) /\ TasksBut(s, n + 1) /\ PlacesBut(s, 0)
  BY <1>0, <1>1, TakeStack
<1>3. \A x : WaitsAt(x)' <=> WaitsAt(x)
  BY <1>2, WaitsSame
<1>4. \A k \in Nat : k = n + 1 => ~TaskAt(s, k) /\ TaskAt(s, k)'
  BY <1>2, Apart DEF TaskAt
<1>5. n + 1 \in Nat /\ 0 \in Nat
  BY <1>2
<1> HIDE DEF n
<1>6. ASSUME NEW x, NEW P, x # t \/ "gate" \notin P
      PROVE  StandsAt(x, P)' <=> StandsAt(x, P)
  <2>1. ASSUME NEW k \in Nat, k = n + 1 \/ k = 0
        PROVE  StandAt(s, k, x, P)' <=> StandAt(s, k, x, P)
    <3>1. CASE k = n + 1
      BY <1>2, <1>4, <1>6, <3>1 DEF StandAt
    <3>2. CASE k = 0
      BY <3>2, NoStand0
    <3> QED
      BY <2>1, <3>1, <3>2
  <2> QED
    BY <1>2, <1>5, <2>1, StandsKept
<1>7. StandsAt(t, Before)'
  <2>1. \A k \in Nat : k = n + 1 => StandAt(s, k, t, Before)'
    BY <1>2, <1>4 DEF StandAt, Before
  <2> QED
    BY <1>5, <2>1 DEF StandsAt
<1>8. OfferedAt(t)
  BY <1>0, <1>1 DEF OfferedAt
<1>9. ASSUME NEW x, OfferedAt(x)' PROVE OfferedAt(x)
  <2>1. PICK u \in Slots : \E j \in 1 .. Len(deque'[u]) : deque'[u][j] = x
    BY <1>9 DEF OfferedAt
  <2>2. PICK j \in 1 .. Len(deque'[u]) : deque'[u][j] = x
    BY <2>1
  <2>3. \E l \in 1 .. Len(deque[u]) : deque'[u][j] = deque[u][l]
    <3>1. /\ Was(u, v, d, j) \in 1 .. Len(deque[u])
          /\ deque'[u][j] = deque[u][Was(u, v, d, j)]
      BY <1>1, OfferedWas
    <3> QED
      BY <3>1
  <2> QED
    BY <2>2, <2>3 DEF OfferedAt
<1>10. ASSUME NEW x, x # t, OfferedAt(x) PROVE OfferedAt(x)'
  <2>1. PICK u \in Slots : \E j \in 1 .. Len(deque[u]) : deque[u][j] = x
    BY <1>10 DEF OfferedAt
  <2>2. PICK j \in 1 .. Len(deque[u]) : deque[u][j] = x
    BY <2>1
  <2>3. ~(u = v /\ j = i)
    BY <1>0, <1>10, <2>2
  <2>4. \E l \in 1 .. Len(deque'[u]) : deque'[u][l] = deque[u][j]
    BY <1>1, <2>3, OfferedStill
  <2> QED
    BY <2>2, <2>4 DEF OfferedAt
<1>11. Todo' = Todo
  <2>1. \A x \in Tasks : x # t => (x \in Todo' <=> x \in Todo)
    BY <1>3, <1>6, <1>9, <1>10 DEF Todo
  <2>2. t \in Todo /\ t \in Todo'
    BY <1>7, <1>8 DEF Todo
  <2>3. \A x : x \in Todo \/ x \in Todo' => x \in Tasks
    BY DEF Todo
  <2>4. ASSUME NEW x PROVE x \in Todo' <=> x \in Todo
    BY <2>1, <2>2, <2>3
  <2>5. Todo' = {x \in Tasks : x \in Todo} /\ Todo = {x \in Tasks : x \in Todo}
    BY <2>3, <2>4
  <2> QED
    BY <2>5
<1>12. Running' = Running
  <2>1. "gate" \notin Underway
    BY DEF Underway
  <2> QED
    BY <1>6, <2>1 DEF Running
<1>13. UNCHANGED <<open, threw, outcome, token, stopped>>
  BY DEF PopOwn, Steal, stateVars
<1> QED
  BY <1>11, <1>12, <1>13, QuietMaps

(* So is one that is pushed, and the last, which the caller keeps.         *)
LEMMA PushMaps ==
  ASSUME CoreInv, TypeInv', NEW s \in Slots, Push(s)
  PROVE  UNCHANGED Scopes!vars
<1> USE DEF CoreInv
<1> DEFINE n == Len(stack[s])
           m == Len(deque[s])
           o == stack[s][n].own
<1>0. PICK c, t, x : c = Spreading(s) /\ t = NextTask(s) /\ x = TailTask(s)
  OBVIOUS
<1>1. /\ n \in Nat /\ n > 1 /\ m \in Nat /\ c \in Calls /\ PushAt(s, n)
      /\ c = stack[s][n].call /\ t \in Tasks /\ x \in Tasks /\ t # x
      /\ CallOf(t) = c /\ CallOf(x) = c /\ t[2] = o + 1 /\ x[2] = Fanout(c)
      /\ OnlyDeque(s) /\ Len(deque'[s]) = m + 1 /\ deque'[s][m + 1] = t
      /\ \A u \in Slots : \A j \in 1 .. Len(deque'[u]) :
           \/ u = s /\ j = m + 1 /\ deque'[u][j] = t
           \/ j \in 1 .. Len(deque[u]) /\ deque'[u][j] = deque[u][j]
      /\ CallsBut(s, 0) /\ OwnsBut(s, n) /\ PlacesBut(s, 0)
  BY <1>0, PushAdds
<1>2. /\ o \in Nat /\ o + 1 <= Deferred(c) /\ stack[s][n].at = "push"
      /\ TopCall(s) = c
  BY <1>0, PushingCall DEF Spreading, TopCall
<1>3. Deferred(c) \in Nat /\ Fanout(c) = Deferred(c) + 1 /\ Fanout(c) \in Nat
  BY CallsAre
<1>4. \A y : OfferedAt(y)' <=> OfferedAt(y) \/ y = t
  <2>1. ASSUME NEW y, OfferedAt(y)' PROVE OfferedAt(y) \/ y = t
    <3>1. PICK u \in Slots : \E j \in 1 .. Len(deque'[u]) : deque'[u][j] = y
      BY <2>1 DEF OfferedAt
    <3>2. PICK j \in 1 .. Len(deque'[u]) : deque'[u][j] = y
      BY <3>1
    <3>3. \/ deque'[u][j] = t
          \/ j \in 1 .. Len(deque[u]) /\ deque'[u][j] = deque[u][j]
      BY <1>1
    <3> QED
      BY <3>2, <3>3 DEF OfferedAt
  <2>2. ASSUME NEW y, OfferedAt(y) PROVE OfferedAt(y)'
    <3>1. PICK u \in Slots : \E j \in 1 .. Len(deque[u]) : deque[u][j] = y
      BY <2>2 DEF OfferedAt
    <3>2. PICK j \in 1 .. Len(deque[u]) : deque[u][j] = y
      BY <3>1
    <3>3. j \in 1 .. Len(deque'[u]) /\ deque'[u][j] = y
      <4>1. CASE u = s
        <5>1. j \in 1 .. Len(deque'[s]) /\ j # m + 1
          BY <1>1, <3>2, <4>1
        <5> QED
          BY <1>1, <3>2, <4>1, <5>1
      <4>2. CASE u # s
        BY <1>1, <3>2, <4>2 DEF OnlyDeque
      <4> QED
        BY <4>1, <4>2
    <3> QED
      BY <3>3 DEF OfferedAt
  <2>3. OfferedAt(t)'
    <3>1. \A k \in Nat : k = m + 1 => k \in 1 .. Len(deque'[s]) /\ deque'[s][k] = t
      BY <1>1
    <3>2. m + 1 \in Nat
      BY <1>1
    <3> QED
      BY <3>1, <3>2 DEF OfferedAt
  <2> QED
    BY <2>1, <2>2, <2>3
<1>5. ASSUME NEW u \in Slots, NEW k \in Nat, ~(u = s /\ k = n), NEW y
      PROVE  WaitAt(u, k, y)' <=> WaitAt(u, k, y)
  <2>1. CASE u = s /\ k = 0
    BY <2>1, NoFrame0 DEF WaitAt, PushAt
  <2>2. CASE ~(u = s /\ k = 0)
    <3>1. CallSame(u, k) /\ OwnSame(u, k)
      BY <1>1, <1>5, <2>2 DEF CallsBut, OwnsBut
    <3> QED
      BY <3>1 DEF CallSame, OwnSame, WaitAt, PushAt
  <2> QED
    BY <2>1, <2>2
<1>6. \A y \in Tasks : WaitAt(s, n, y) <=> CallOf(y) = c /\ o < y[2]
  BY <1>1 DEF WaitAt
<1>7. WaitsAt(t) /\ WaitsAt(x)
  <2>1. WaitAt(s, n, t) /\ WaitAt(s, n, x)
    <3>1. o < o + 1 /\ o < Fanout(c)
      <4> HIDE DEF o
      <4> QED
        BY <1>2, <1>3
    <3> QED
      BY <1>1, <1>6, <3>1
  <2> HIDE DEF n
  <2> QED
    BY <1>1, <2>1 DEF WaitsAt
<1>8. ASSUME NEW y \in Tasks, CallOf(y) = c, y # t PROVE y[2] # o + 1
  <2>1. y = <<c, y[2]>> /\ t = <<c, t[2]>>
    BY <1>1, <1>8, TasksAre
  <2> QED
    BY <1>1, <1>8, <2>1
<1>9. ASSUME NEW y \in Tasks, CallOf(y) = c, y # x PROVE y[2] # Fanout(c)
  <2>1. y = <<c, y[2]>> /\ x = <<c, x[2]>>
    BY <1>1, <1>9, TasksAre
  <2> QED
    BY <1>1, <1>9, <2>1
<1>10. \A y \in Tasks : CallOf(y) = c => y[2] \in Nat /\ y[2] <= Fanout(c)
  BY <1>3, TasksAre
<1>11. UNCHANGED <<open, threw, outcome, token, stopped>>
  BY DEF Push, stateVars
<1>12. Todo \subseteq Tasks /\ Todo' \subseteq Tasks
  BY DEF Todo
<1>13. CASE o + 1 < Deferred(c)
  <2>1. /\ stack'[s][n].at = "push" /\ stack'[s][n].call = c
        /\ stack'[s][n].own = o + 1 /\ Len(stack'[s]) = n
        /\ TasksBut(s, 0) /\ PlacesBut(s, 0)
    BY <1>1, <1>2, <1>13, PushedMore
  <2>2. \A k \in Nat : k = n => \A y \in Tasks :
          WaitAt(s, k, y)' <=> CallOf(y) = c /\ o + 1 < y[2]
    BY <1>1, <2>1, Apart DEF WaitAt, PushAt, CallAt
  <2> HIDE DEF n, o
  <2>3. ASSUME NEW y \in Tasks, y # t PROVE WaitsAt(y)' <=> WaitsAt(y)
    <3>1. CallOf(y) = c => (o + 1 < y[2] <=> o < y[2])
      <4>1. ASSUME CallOf(y) = c PROVE o + 1 < y[2] <=> o < y[2]
        BY <1>2, <1>8, <1>10, <2>3, <4>1
      <4> QED
        BY <4>1
    <3>2. \A k \in Nat : k = n => (WaitAt(s, k, y)' <=> WaitAt(s, k, y))
      BY <1>6, <2>2, <3>1
    <3>3. \A u \in Slots, k \in Nat : WaitAt(u, k, y)' <=> WaitAt(u, k, y)
      BY <1>5, <3>2
    <3> QED
      BY <3>3 DEF WaitsAt
  <2>4. \A y, P : StandsAt(y, P)' <=> StandsAt(y, P)
    BY <2>1, StandsSame
  <2>5. \A y \in Tasks : y # t => (y \in Todo' <=> y \in Todo)
    BY <1>4, <2>3, <2>4 DEF Todo
  <2>6. t \in Todo /\ t \in Todo'
    BY <1>1, <1>4, <1>7 DEF Todo
  <2>7. Todo' = Todo /\ Running' = Running
    BY <1>12, <2>4, <2>5, <2>6 DEF Running
  <2> QED
    BY <1>11, <2>7, QuietMaps
<1>14. CASE ~(o + 1 < Deferred(c))
  <2>1. /\ stack'[s][n].at = "tail" /\ Len(stack'[s]) = n + 1
        /\ stack'[s][n + 1].at = "gate"
        /\ stack'[s][n + 1].task = <<c, Fanout(c)>>
        /\ TasksBut(s, n + 1) /\ PlacesBut(s, 0)
    BY <1>1, <1>2, <1>14, PushedLast
  <2>2. x = <<c, Fanout(c)>>
    BY <1>1, TasksAre
  <2>3. \A k \in Nat : k = n => \A y : ~WaitAt(s, k, y)'
    BY <2>1 DEF WaitAt, PushAt
  <2>4. \A k \in Nat : k = n + 1 => ~TaskAt(s, k) /\ TaskAt(s, k)'
    BY <1>1, <2>1, Apart DEF TaskAt
  <2>5. n + 1 \in Nat /\ 0 \in Nat
    BY <1>1
  <2> HIDE DEF n, o
  <2>6. ASSUME NEW y \in Tasks, y # t, y # x PROVE WaitsAt(y)' <=> WaitsAt(y)
    <3>1. ~(CallOf(y) = c /\ o < y[2])
      <4> SUFFICES ASSUME CallOf(y) = c, o < y[2] PROVE FALSE
        OBVIOUS
      <4>1. y[2] # o + 1 /\ y[2] # Fanout(c) /\ y[2] \in Nat /\ y[2] <= Fanout(c)
        BY <1>8, <1>9, <1>10, <2>6
      <4>2. o + 1 = Deferred(c)
        BY <1>2, <1>3, <1>14
      <4> QED
        BY <1>2, <1>3, <4>1, <4>2
    <3>2. \A k \in Nat : k = n => (WaitAt(s, k, y)' <=> WaitAt(s, k, y))
      BY <1>6, <2>3, <3>1
    <3>3. \A u \in Slots, k \in Nat : WaitAt(u, k, y)' <=> WaitAt(u, k, y)
      BY <1>5, <3>2
    <3> QED
      BY <3>3 DEF WaitsAt
  <2>7. ASSUME NEW y, NEW P, y # x \/ "gate" \notin P
        PROVE  StandsAt(y, P)' <=> StandsAt(y, P)
    <3>1. ASSUME NEW k \in Nat, k = n + 1 \/ k = 0
          PROVE  StandAt(s, k, y, P)' <=> StandAt(s, k, y, P)
      <4>1. CASE k = n + 1
        BY <2>1, <2>2, <2>4, <2>7, <4>1 DEF StandAt
      <4>2. CASE k = 0
        BY <4>2, NoStand0
      <4> QED
        BY <3>1, <4>1, <4>2
    <3> QED
      BY <2>1, <2>5, <3>1, StandsKept
  <2>8. StandsAt(x, Before)'
    <3>1. \A k \in Nat : k = n + 1 => StandAt(s, k, x, Before)'
      BY <2>1, <2>2, <2>4 DEF StandAt, Before
    <3> QED
      BY <2>5, <3>1 DEF StandsAt
  <2>9. \A y \in Tasks : y # t /\ y # x => (y \in Todo' <=> y \in Todo)
    BY <1>4, <2>6, <2>7 DEF Todo
  <2>10. t \in Todo /\ t \in Todo' /\ x \in Todo /\ x \in Todo'
    BY <1>1, <1>4, <1>7, <2>8 DEF Todo
  <2>11. Todo' = Todo
    BY <1>12, <2>9, <2>10
  <2>12. Running' = Running
    <3>1. "gate" \notin Underway
      BY DEF Underway
    <3> QED
      BY <2>7, <3>1 DEF Running
  <2> QED
    BY <1>11, <2>11, <2>12, QuietMaps
<1> QED
  BY <1>13, <1>14

(* A task that forks opens a scope, all of it still to be pushed.          *)
LEMMA ForkMaps ==
  ASSUME CoreInv, TypeInv', NEW s \in Slots, BodyFork(s)
  PROVE  Scopes!Next
<1> USE DEF CoreInv
<1> DEFINE n == Len(stack[s])
<1>0. PICK c : c = used + 1
  OBVIOUS
<1>1. /\ c \in Calls /\ c \notin open /\ n \in Nat
      /\ Len(stack'[s]) = n + 1
      /\ stack'[s][n + 1].at = "push" /\ stack'[s][n + 1].call = c
      /\ stack'[s][n + 1].own = 0
      /\ CallsBut(s, n + 1) /\ OwnsBut(s, 0) /\ TasksBut(s, 0) /\ PlacesBut(s, 0)
  <2> DEFINE f == CallFrame("push", c, 0)
  <2>1. /\ c \in Calls /\ c \notin open /\ n \in Nat /\ Len(stack'[s]) = n + 1
        /\ stack'[s][n + 1] = f /\ Enter(s, f)
        /\ f \in FrameType /\ f.at = "push" /\ f.call = c /\ f.own = 0
    BY <1>0, ForkStack
  <2>2. f.at \in CallPlaces
    BY <2>1, Apart
  <2> HIDE DEF f
  <2>3. CallsBut(s, n + 1) /\ OwnsBut(s, 0) /\ TasksBut(s, 0) /\ PlacesBut(s, 0)
    BY <2>1, <2>2, EnteredCall
  <2> QED
    BY <2>1, <2>3
<1>2. /\ open' = open \union {c} /\ token' \in {token, token \union {c}}
      /\ UNCHANGED <<deque, threw, outcome, stopped>>
  BY <1>0 DEF BodyFork
<1>3. \A k \in Nat : k = n + 1 =>
        /\ CallAt(s, k)' /\ ~CallAt(s, k)
        /\ stack'[s][k].at = "push" /\ stack'[s][k].call = c /\ stack'[s][k].own = 0
  BY <1>1, Apart DEF CallAt
<1>4. n + 1 \in Nat
  BY <1>1
<1> HIDE DEF n
<1>5. ASSUME NEW u \in Slots, NEW k \in Nat, ~(u = s /\ k = n + 1), NEW y
      PROVE  WaitAt(u, k, y)' <=> WaitAt(u, k, y)
  <2>1. CASE u = s /\ k = 0
    BY <2>1, NoFrame0 DEF WaitAt, PushAt
  <2>2. CASE ~(u = s /\ k = 0)
    <3>1. CallSame(u, k) /\ OwnSame(u, k)
      BY <1>1, <1>5, <2>2 DEF CallsBut, OwnsBut
    <3> QED
      BY <3>1 DEF CallSame, OwnSame, WaitAt, PushAt
  <2> QED
    BY <2>1, <2>2
<1>6. ASSUME NEW y \in Tasks PROVE WaitsAt(y)' <=> WaitsAt(y) \/ CallOf(y) = c
  <2>1. 0 < y[2]
    BY TasksAre, CallsAre
  <2>2. \A k \in Nat : k = n + 1 =>
          /\ ~WaitAt(s, k, y)
          /\ WaitAt(s, k, y)' <=> CallOf(y) = c
    BY <1>3, <2>1 DEF WaitAt, PushAt
  <2>3. ASSUME WaitsAt(y)' PROVE WaitsAt(y) \/ CallOf(y) = c
    <3>1. PICK u \in Slots, k \in Nat : WaitAt(u, k, y)'
      BY <2>3 DEF WaitsAt
    <3> QED
      BY <1>5, <2>2, <3>1 DEF WaitsAt
  <2>4. ASSUME WaitsAt(y) PROVE WaitsAt(y)'
    <3>1. PICK u \in Slots, k \in Nat : WaitAt(u, k, y)
      BY <2>4 DEF WaitsAt
    <3> QED
      BY <1>5, <2>2, <3>1 DEF WaitsAt
  <2>5. ASSUME CallOf(y) = c PROVE WaitsAt(y)'
    BY <1>4, <2>2, <2>5 DEF WaitsAt
  <2> QED
    BY <2>3, <2>4, <2>5
<1>7. \A y : OfferedAt(y)' <=> OfferedAt(y)
  BY <1>2, OffersSame
<1>8. \A y, P : StandsAt(y, P)' <=> StandsAt(y, P)
  BY <1>1, StandsSame
<1>9. Todo' = Todo \union {t \in Tasks : CallOf(t) = c}
  BY <1>6, <1>7, <1>8 DEF Todo
<1>10. Running' = Running
  BY <1>8 DEF Running
<1> QED
  BY <1>1, <1>2, <1>9, <1>10, OpenMaps

(* What a call rethrows, once none of its tasks is left.                   *)
LEMMA Rethrown ==
  ASSUME TypeInv, ExcInv, NEW c \in Calls,
         \A u \in Slots, k \in Nat : TaskAt(u, k) => CallOf(stack[u][k].task) # c,
         NEW over, over = {t \in threw : CallOf(t) = c}
  PROVE  /\ over = {} <=> exc[c] = None
         /\ exc[c] # None => exc[c] \in over
<1>1. exc[c] # None => exc[c] \in over
  BY DEF ExcInv, CaughtInv
<1>2. ASSUME exc[c] = None, NEW t \in over PROVE FALSE
  <2>1. t \in threw /\ CallOf(t) = c
    OBVIOUS
  <2> QED
    BY <1>2, <2>1 DEF ExcInv, ThrownInv
<1> QED
  BY <1>1, <1>2

(* A join that is done closes its scope: none of its tasks is left.        *)
LEMMA JoinMaps ==
  ASSUME CoreInv, ExcInv, TypeInv', NEW s \in Slots, JoinDone(s)
  PROVE  Scopes!Next
<1> USE DEF CoreInv
<1> DEFINE n == Len(stack[s])
<1>0. PICK c, b, over : /\ c = stack[s][n].call /\ b = stack[s][n - 1].task
                        /\ over = {t \in threw : CallOf(t) = c}
  OBVIOUS
<1>1. /\ n \in Nat /\ n > 1 /\ c \in Calls /\ c = TopCall(s)
      /\ stack[s][n].at = "drain" /\ stack[s][n - 1].at = "body"
      /\ b = Last(Front(stack[s])).task /\ Len(stack'[s]) = n - 1
      /\ stack'[s][n - 1].at = IF exc[c] = None THEN "body" ELSE "threw"
      /\ stack'[s][n - 1].task = stack[s][n - 1].task
  BY <1>0, JoinedStack
<1>2. /\ Close(c)
      /\ threw' = IF exc[c] = None THEN threw \ over ELSE (threw \ over) \union {b}
      /\ UNCHANGED <<deque, stopped>>
  BY <1>0, <1>1 DEF JoinDone
<1>3. TasksBut(s, 0) /\ PlacesBut(s, n - 1)
  BY JoinedCall
<1>4. /\ \A u \in Slots : \A j \in 1 .. Len(deque[u]) : CallOf(deque[u][j]) # c
      /\ \A u \in Slots, k \in Nat : TaskAt(u, k) => CallOf(stack[u][k].task) # c
  BY <1>0, NoneLeft
<1>5. open' = open \ {c} /\ token' = token \ {c} /\ outcome' = exc[c]
  BY <1>1, <1>2, ClosedCall
<1>6. n - 1 \in Nat /\ n - 1 \in 1 .. n /\ n - 1 \in 1 .. n - 1 /\ n \in 1 .. n
  BY <1>1
<1>7. TaskAt(s, n - 1) /\ CallAt(s, n)
  BY <1>1, <1>6, Apart DEF TaskAt, CallAt
<1>8. c \in open
  BY <1>0, <1>1, <1>7, CallFacts
<1>9. /\ over = {} <=> exc[c] = None
      /\ exc[c] # None => exc[c] \in over
  BY <1>0, <1>1, <1>4, Rethrown
<1>10. ASSUME NEW u \in Slots, NEW k \in Nat, CallAt(u, k), stack[u][k].call = c
       PROVE  stack[u][k].at = "drain"
  <2>0. /\ TypeInv /\ StackInv /\ CallsInv /\ n \in Nat /\ n > 1 /\ CallAt(s, n)
        /\ stack[u][k].call = stack[s][n].call /\ stack[s][n].at = "drain"
    BY <1>0, <1>1, <1>7, <1>10
  <2> HIDE DEF n
  <2>1. u = s /\ k = n
    BY <1>10, <2>0, CallOnce
  <2> QED
    BY <2>0, <2>1
<1>11. ASSUME NEW t \in Todo \union Running, CallOf(t) = c PROVE FALSE
  <2>1. ~OfferedAt(t)
    BY <1>4, <1>11 DEF OfferedAt
  <2>2. ~WaitsAt(t)
    <3>1. \A u \in Slots, k \in Nat : ~WaitAt(u, k, t)
      BY <1>10, <1>11 DEF WaitAt, PushAt
    <3> QED
      BY <3>1 DEF WaitsAt
  <2>3. ASSUME NEW P PROVE ~StandsAt(t, P)
    BY <1>4, <1>11 DEF StandsAt, StandAt
  <2> QED
    BY <2>1, <2>2, <2>3 DEF Todo, Running
<1>12. b \in Running
  <2>1. b \in Tasks
    BY <1>0, <1>6, <1>7, TakenTask
  <2>2. StandsAt(b, Underway)
    <3>1. "body" \in Underway
      BY DEF Underway
    <3>2. b = stack[s][n - 1].task /\ stack[s][n - 1].at = "body" /\ n - 1 \in Nat
      BY <1>0, <1>1, <1>6
    <3>3. StandsAt(stack[s][n - 1].task, Underway) <=> stack[s][n - 1].at \in Underway
      BY <1>7, <3>2, StandsWhere
    <3> QED
      BY <3>1, <3>2, <3>3
  <2> QED
    BY <2>1, <2>2 DEF Running
<1>13. Todo' = Todo /\ Running' = Running
  <2>1. \A t : OfferedAt(t)' <=> OfferedAt(t)
    BY <1>2, OffersSame
  <2>2. \A t : WaitsAt(t)' <=> WaitsAt(t)
    BY WaitsPlain DEF Plain
  <2>3. ASSUME NEW t, NEW P \in {Before, Underway} PROVE StandsAt(t, P)' <=> StandsAt(t, P)
    <3>1. /\ stack[s][n - 1].at \in TaskPlaces /\ stack'[s][n - 1].at \in TaskPlaces
          /\ stack[s][n - 1].at \in P <=> stack'[s][n - 1].at \in P
      BY <1>1, <2>3, Apart DEF Before, Underway
    <3>2. n - 1 \in 1 .. Len(stack[s]) /\ n - 1 \in 1 .. Len(stack'[s])
      BY <1>1, <1>6
    <3> HIDE DEF n
    <3>3. PICK m \in Nat : m = n - 1
      BY <1>6
    <3> QED
      BY <1>1, <1>3, <3>1, <3>2, <3>3, StandsMoved
  <2> QED
    BY <2>1, <2>2, <2>3, ViewSame
<1> HIDE DEF n
<1>14. IF over = {} THEN outcome' = None /\ UNCHANGED threw
       ELSE /\ outcome' \in over
            /\ threw' = threw \ over \/ \E u \in Running : threw' = (threw \ over) \union {u}
  <2>1. CASE over = {}
    BY <1>2, <1>5, <1>9, <2>1
  <2>2. CASE over # {}
    BY <1>2, <1>5, <1>9, <1>12, <2>2
  <2> QED
    BY <2>1, <2>2
<1> QED
  BY <1>0, <1>1, <1>2, <1>5, <1>8, <1>11, <1>13, <1>14, CloseMaps

(* The outer call opens a scope, all of it offered.                        *)
LEMMA OuterMaps ==
  ASSUME CoreInv, TypeInv', OuterCall
  PROVE  Scopes!Next
<1> USE DEF CoreInv
<1>0. PICK c : c = used + 1
  OBVIOUS
<1>1. /\ c \in Calls /\ UNCHANGED stack
      /\ \A u \in Slots, k \in Nat :
           ~CallAt(u, k)' /\ ~TaskAt(u, k)' /\ ~CallAt(u, k) /\ ~TaskAt(u, k)
      /\ \A u \in Slots : \A j \in 1 .. Len(deque'[u]) :
           u = 0 /\ j \in 1 .. Fanout(c) /\ deque'[u][j] = <<c, j>>
      /\ Len(deque'[0]) = Fanout(c)
  BY <1>0, OuterAdds
<1>2. /\ open' = open \union {c} /\ token' \in {token, token \union {c}}
      /\ outer = 0 /\ UNCHANGED <<threw, outcome, stopped>>
  BY <1>0 DEF OuterCall
<1>3. c \notin open
  <2>1. used \in Int /\ \A x \in open : x <= used
    BY ForkJoinAssumption DEF TypeInv, ForkJoinAssumption
  <2> QED
    BY <1>0, <2>1, CallsAre DEF TypeInv
<1>4. \A y : ~WaitsAt(y) /\ ~WaitsAt(y)'
  BY <1>1 DEF WaitsAt, WaitAt, PushAt
<1>5. \A y, P : ~StandsAt(y, P) /\ ~StandsAt(y, P)'
  BY <1>1 DEF StandsAt, StandAt
<1>6. \A y : ~OfferedAt(y)
  <2>1. ASSUME NEW u \in Slots, NEW j \in 1 .. Len(deque[u]) PROVE FALSE
    <3>1. Len(deque[u]) = 0
      BY <1>2, NothingOffered
    <3> QED
      BY <3>1
  <2> QED
    BY <2>1 DEF OfferedAt
<1>7. ASSUME NEW y \in Tasks PROVE OfferedAt(y)' <=> CallOf(y) = c
  <2>1. ASSUME OfferedAt(y)' PROVE CallOf(y) = c
    <3>1. PICK u \in Slots : \E j \in 1 .. Len(deque'[u]) : deque'[u][j] = y
      BY <2>1 DEF OfferedAt
    <3>2. PICK j \in 1 .. Len(deque'[u]) : deque'[u][j] = y
      BY <3>1
    <3>3. j \in 1 .. Fanout(c) /\ y = <<c, j>>
      BY <1>1, <3>2
    <3> QED
      BY <1>1, <3>3, TasksAre
  <2>2. ASSUME CallOf(y) = c PROVE OfferedAt(y)'
    <3>1. y[2] \in 1 .. Fanout(c) /\ y = <<c, y[2]>>
      BY <2>2, TasksAre
    <3>2. 0 \in Slots /\ y[2] \in 1 .. Len(deque'[0])
      BY <1>1, <3>1, ForkJoinAssumption DEF ForkJoinAssumption
    <3>3. deque'[0][y[2]] = y
      BY <1>1, <3>1, <3>2
    <3> QED
      BY <3>2, <3>3 DEF OfferedAt
  <2> QED
    BY <2>1, <2>2
<1>8. Todo' = Todo \union {t \in Tasks : CallOf(t) = c}
  BY <1>4, <1>5, <1>6, <1>7 DEF Todo
<1>9. Running' = Running
  BY <1>5 DEF Running
<1> QED
  BY <1>1, <1>2, <1>3, <1>8, <1>9, OpenMaps

(* Its return closes it.                                                   *)
LEMMA ReturnMaps ==
  ASSUME CoreInv, ExcInv, TypeInv', Return
  PROVE  Scopes!Next
<1> USE DEF CoreInv
<1>0. PICK over : over = {t \in threw : CallOf(t) = outer}
  OBVIOUS
<1>1. /\ Close(outer) /\ outer # 0 /\ threw' = {t \in threw : CallOf(t) # outer}
      /\ UNCHANGED <<deque, stack, stopped>>
  BY DEF Return
<1>2. outer \in Calls /\ outer \in open
  BY <1>1, OuterIs DEF OuterInv
<1>3. /\ \A u \in Slots : deque[u] = <<>>
      /\ \A u \in Slots, k \in Nat : ~CallAt(u, k) /\ ~TaskAt(u, k)
  BY NothingOffered
<1>4. \A u \in Slots, k \in Nat : ~CallAt(u, k)' /\ ~TaskAt(u, k)'
  BY <1>1, <1>3 DEF CallAt, TaskAt
<1>5. /\ over = {} <=> exc[outer] = None
      /\ exc[outer] # None => exc[outer] \in over
  BY <1>0, <1>2, <1>3, Rethrown
<1>6. open' = open \ {outer} /\ token' = token \ {outer} /\ outcome' = exc[outer]
  BY <1>1, <1>2, ClosedCall
<1>7. \A y : ~WaitsAt(y) /\ ~WaitsAt(y)'
  BY <1>3, <1>4 DEF WaitsAt, WaitAt, PushAt
<1>8. \A y, P : ~StandsAt(y, P) /\ ~StandsAt(y, P)'
  BY <1>3, <1>4 DEF StandsAt, StandAt
<1>9. \A y : ~OfferedAt(y) /\ ~OfferedAt(y)'
  <2>1. ASSUME NEW u \in Slots, NEW j \in 1 .. Len(deque[u]) PROVE FALSE
    <3>1. Len(deque[u]) = 0
      BY <1>3
    <3> QED
      BY <3>1
  <2> QED
    BY <1>1, <2>1 DEF OfferedAt
<1>10. Todo = {} /\ Running = {} /\ Todo' = {} /\ Running' = {}
  BY <1>7, <1>8, <1>9 DEF Todo, Running
<1>11. threw' = threw \ over
  BY <1>0, <1>1
<1>12. IF over = {} THEN outcome' = None /\ UNCHANGED threw
       ELSE /\ outcome' \in over
            /\ threw' = threw \ over \/ \E u \in Running : threw' = (threw \ over) \union {u}
  BY <1>5, <1>6, <1>11
<1> QED
  BY <1>0, <1>1, <1>2, <1>6, <1>10, <1>12, CloseMaps

(* Every step is one of TaskScope, or none.                                *)
LEMMA StepMaps ==
  CoreInv /\ ExcInv /\ TypeInv' /\ [Next]_vars => [Scopes!Next]_(Scopes!vars)
<1> SUFFICES ASSUME CoreInv, ExcInv, TypeInv', [Next]_vars
             PROVE  Scopes!Next \/ UNCHANGED Scopes!vars
  OBVIOUS
<1>0. TypeInv
  BY DEF CoreInv
<1>1. CASE UNCHANGED vars
  <2>1. UNCHANGED <<deque, stack, open, threw, outcome, token, stopped>>
    BY <1>1 DEF vars, stateVars
  <2>2. Todo' = Todo /\ Running' = Running
    BY <2>1 DEF Todo, Running, OfferedAt, WaitsAt, WaitAt, PushAt, CallAt,
       StandsAt, StandAt, TaskAt
  <2> QED
    BY <1>0, <2>1, <2>2, QuietMaps
<1>2. CASE Stop
  <2>1. stopped' /\ UNCHANGED <<deque, stack, open, threw, outcome, token>>
    BY <1>2 DEF Stop, stateVars
  <2>2. Todo' = Todo /\ Running' = Running
    BY <2>1 DEF Todo, Running, OfferedAt, WaitsAt, WaitAt, PushAt, CallAt,
       StandsAt, StandAt, TaskAt
  <2> QED
    BY <1>0, <2>1, <2>2, StopMaps
<1>3. CASE OuterCall
  BY <1>3, OuterMaps
<1>4. CASE Return
  BY <1>4, ReturnMaps
<1>5. ASSUME NEW s \in Slots, Slot(s)
      PROVE  Scopes!Next \/ UNCHANGED Scopes!vars
  <2>1. CASE LookOn(s) \/ Begin(s) \/ ShareDone(s)
    BY <2>1, QuietView DEF CoreInv
  <2>2. CASE TaskStep(s)
    BY <2>2, TaskMaps
  <2>3. CASE BodyFork(s)
    BY <2>3, ForkMaps
  <2>4. ASSUME NEW v \in Slots, (PopOwn(s) /\ v = s) \/ Steal(s, v)
        PROVE  UNCHANGED Scopes!vars
    BY <2>4, TakeMaps
  <2>5. CASE JoinDone(s)
    BY <2>5, JoinMaps
  <2>6. CASE Retire(s)
    BY <2>6, RetireMaps
  <2>7. CASE Push(s)
    BY <2>7, PushMaps
  <2> QED
    BY <1>5, <2>1, <2>2, <2>3, <2>4, <2>5, <2>6, <2>7, SlotStep
<1> QED
  BY <1>1, <1>2, <1>3, <1>4, <1>5 DEF Next, AllCallsMade

(* The first states are first states of TaskScope.                         *)
LEMMA InitMaps == Init => Scopes!Init
<1> SUFFICES ASSUME Init PROVE Scopes!Init
  OBVIOUS
<1>1. TypeInv
  BY CoreInit DEF CoreInv
<1>2. \A u \in Slots, k \in Nat : ~CallAt(u, k) /\ ~TaskAt(u, k)
  BY NoFrames DEF Init
<1>3. \A y : ~WaitsAt(y)
  BY <1>2 DEF WaitsAt, WaitAt, PushAt
<1>4. \A y, P : ~StandsAt(y, P)
  BY <1>2 DEF StandsAt, StandAt
<1>5. \A y : ~OfferedAt(y)
  <2>1. ASSUME NEW u \in Slots, NEW j \in 1 .. Len(deque[u]) PROVE FALSE
    <3>1. Len(deque[u]) = 0
      BY DEF Init
    <3> QED
      BY <3>1
  <2> QED
    BY <2>1 DEF OfferedAt
<1>6. Todo = {} /\ Running = {}
  BY <1>3, <1>4, <1>5 DEF Todo, Running
<1> QED
  BY <1>1, <1>6, Mapped DEF Scopes!Init, Init

(* forkJoin is a TaskScope: it returns when all its tasks are over, each   *)
(* ran at most once, and it rethrows exactly if one of them has thrown.    *)
THEOREM ForkJoinImplements == Spec => ImplementsTaskScope
<1>1. Init => Scopes!Init
  BY InitMaps
<1>2. CoreInv /\ ExcInv /\ TypeInv' /\ [Next]_vars => [Scopes!Next]_(Scopes!vars)
  BY StepMaps
<1>3. CoreInv => TypeInv
  BY DEF CoreInv
<1> QED
  BY <1>1, <1>2, <1>3, ForkJoinInvariance, PTL DEF Spec, ImplementsTaskScope,
     Scopes!Spec
=============================================================================
