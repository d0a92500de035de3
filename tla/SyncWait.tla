------------------------------ MODULE SyncWait ------------------------------
(***************************************************************************)
(* Coroutines: syncWait starts a coroutine on its own thread; every        *)
(* co_await on a pool moves it to the driver thread of that pool, behind   *)
(* whatever that one has in its queue; and the caller destroys the         *)
(* coroutine when it is over and no driver is still inside its resume,     *)
(* which a done bit and a counter in one word tell it.                     *)
(*                                                                         *)
(* Sources: coro.h (syncWait, SyncWaitGate, PoolAwaiter, CoroDriver,       *)
(* driverFor).                                                             *)
(*                                                                         *)
(* The awaiters are made inside the coroutine, so that they know its gate. *)
(***************************************************************************)
EXTENDS Integers, Sequences

CONSTANTS Waiters,   (* the threads that call syncWait                      *)
          Drivers,   (* one per pool                                        *)
          MaxAwaits, (* bound on the co_awaits of one coroutine             *)
          MaxWaits   (* bound on the calls of one thread                    *)

SyncWaitAssumption == MaxAwaits \in Nat /\ MaxWaits \in Nat

ASSUME SyncWaitAssumption

VARIABLES
  gate,       (* SyncWaitGate::state: the done bit and the counter           *)
  queue,      (* CoroDriver::m_queue: whose coroutine each entry resumes     *)
  dpc, serves,(* per driver: its place, and whose closure it runs            *)
  wpc, saw,   (* per waiter: its place in syncWait, and what it has loaded   *)
  awaits,     (* co_awaits the coroutine of a waiter has made                *)
  waits,      (* calls of syncWait a waiter has made                         *)
  shutdown    (* CoroDriver::m_shutdown, at the end of the process           *)

waitVars == <<gate, queue, dpc, serves, wpc, saw, awaits, waits, shutdown>>

Closed == [done |-> FALSE, count |-> 0]
NoOne == "no one"

(* Some of the waiters call, the others have no call to make. *)
SyncWaitInit(callers) ==
  /\ gate = [w \in Waiters |-> Closed]
  /\ queue = [d \in Drivers |-> <<>>]
  /\ dpc = [d \in Drivers |-> "idle"]
  /\ serves = [d \in Drivers |-> NoOne]
  /\ wpc = [w \in Waiters |-> "out"]
  /\ saw = [w \in Waiters |-> Closed]
  /\ awaits = [w \in Waiters |-> 0]
  /\ waits = [w \in Waiters |-> IF w \in callers THEN 0 ELSE MaxWaits]
  /\ shutdown = FALSE

GoWaiter(w, place) == wpc' = [wpc EXCEPT ![w] = place]
GoDriver(d, place) == dpc' = [dpc EXCEPT ![d] = place]

(* syncWait, up to the first resume, on the caller's thread. *)
CallSyncWait(w) ==
  /\ wpc[w] = "out" /\ waits[w] < MaxWaits
  /\ GoWaiter(w, "coroutine")
  /\ waits' = [waits EXCEPT ![w] = @ + 1]
  /\ UNCHANGED <<gate, queue, dpc, serves, saw, awaits, shutdown>>

-----------------------------------------------------------------------------
(* The coroutine, on the thread that has resumed it: await_suspend counts  *)
(* the driver it will be resumed by and hands it over; or it is over.      *)
Suspends(w, d) ==
  /\ awaits[w] < MaxAwaits
  /\ awaits' = [awaits EXCEPT ![w] = @ + 1]
  /\ gate' = [gate EXCEPT ![w].count = @ + 1]
  /\ queue' = [queue EXCEPT ![d] = Append(@, w)]

Finishes(w) ==
  /\ gate' = [gate EXCEPT ![w].done = TRUE]
  /\ UNCHANGED <<awaits, queue>>

CoroutineOnWaiter(w) ==
  /\ wpc[w] = "coroutine"
  /\ Finishes(w) \/ \E d \in Drivers : Suspends(w, d)
  /\ GoWaiter(w, "look")
  /\ UNCHANGED <<dpc, serves, saw, waits, shutdown>>

CoroutineOnDriver(d) ==
  /\ dpc[d] = "coroutine"
  /\ Finishes(serves[d]) \/ \E e \in Drivers : Suspends(serves[d], e)
  /\ GoDriver(d, "unwind")
  /\ UNCHANGED <<serves, wpc, saw, waits, shutdown>>

-----------------------------------------------------------------------------
(* CoroDriver::run: take the next closure, run the body (an exception of   *)
(* it comes out of the co_await), resume the coroutine.                    *)
TakeNext(d) ==
  /\ dpc[d] = "idle" /\ queue[d] # <<>>
  /\ queue' = [queue EXCEPT ![d] = Tail(@)]
  /\ serves' = [serves EXCEPT ![d] = Head(queue[d])]
  /\ GoDriver(d, "body")
  /\ UNCHANGED <<gate, wpc, saw, awaits, waits, shutdown>>

Resume(d) ==
  /\ dpc[d] = "body"
  /\ GoDriver(d, "coroutine")
  /\ UNCHANGED <<gate, queue, serves, wpc, saw, awaits, waits, shutdown>>

(* h.resume has returned.  The one that leaves last behind the done bit    *)
(* notifies the caller.                                                    *)
NobodyLeft(g) == g.done /\ g.count = 0        \* mutant: the value after, not before
LastOut(g) == g.done /\ g.count = 1

LeaveResume(d) ==
  LET w == serves[d]
  IN  /\ dpc[d] = "unwind"
      /\ gate' = [gate EXCEPT ![w].count = @ - 1]
      /\ GoDriver(d, IF LastOut(gate[w]) THEN "notify" ELSE "idle")
      /\ serves' = [serves EXCEPT ![d] = IF LastOut(gate[w]) THEN w ELSE NoOne]
      /\ UNCHANGED <<queue, wpc, saw, awaits, waits, shutdown>>

(* The gate is the closure's, too: the caller may have gone on by now. *)
Notify(d) ==
  LET w == serves[d]
  IN  /\ dpc[d] = "notify"
      /\ wpc' = IF wpc[w] = "asleep" THEN [wpc EXCEPT ![w] = "look"] ELSE wpc
      /\ GoDriver(d, "idle")
      /\ serves' = [serves EXCEPT ![d] = NoOne]
      /\ UNCHANGED <<gate, queue, saw, awaits, waits, shutdown>>

-----------------------------------------------------------------------------
(* The loop of syncWait: a load, and a wait that sleeps only if the word   *)
(* still has the value that was loaded.                                    *)
DoneSeen(g) == g.done                        \* mutant: somebody may be inside
Released(g) == g.done /\ g.count = 0

Look(w) ==
  /\ wpc[w] = "look" /\ ~Released(gate[w])
  /\ saw' = [saw EXCEPT ![w] = gate[w]]
  /\ GoWaiter(w, "wait")
  /\ UNCHANGED <<gate, queue, dpc, serves, awaits, waits, shutdown>>

Wait(w) ==
  /\ wpc[w] = "wait"
  /\ GoWaiter(w, IF gate[w] = saw[w] THEN "asleep" ELSE "look")
  /\ saw' = [saw EXCEPT ![w] = Closed]
  /\ UNCHANGED <<gate, queue, dpc, serves, awaits, waits, shutdown>>

(* The coroutine is destroyed; a new call has a new gate. *)
ReturnFromWait(w) ==
  /\ wpc[w] = "look" /\ Released(gate[w])
  /\ GoWaiter(w, "out")
  /\ gate' = [gate EXCEPT ![w] = Closed]
  /\ awaits' = [awaits EXCEPT ![w] = 0]
  /\ UNCHANGED <<queue, dpc, serves, saw, waits, shutdown>>

(* ~CoroDriver, at the end of the process: the queue is served first. *)
EndProcess ==
  /\ ~shutdown /\ \A w \in Waiters : wpc[w] = "out" /\ waits[w] = MaxWaits
  /\ shutdown' = TRUE
  /\ UNCHANGED <<gate, queue, dpc, serves, wpc, saw, awaits, waits>>

EndDriver(d) ==
  /\ dpc[d] = "idle" /\ queue[d] = <<>> /\ shutdown
  /\ GoDriver(d, "ended")
  /\ UNCHANGED <<gate, queue, serves, wpc, saw, awaits, waits, shutdown>>

Waiter(w) == CoroutineOnWaiter(w) \/ Look(w) \/ Wait(w) \/ ReturnFromWait(w)
Driver(d) == \/ TakeNext(d) \/ Resume(d) \/ CoroutineOnDriver(d)
             \/ LeaveResume(d) \/ Notify(d) \/ EndDriver(d)
=============================================================================
