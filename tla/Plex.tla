-------------------------------- MODULE Plex --------------------------------
(***************************************************************************)
(* runPlex: the producer publishes one phase after the other, each behind  *)
(* its hook, every slot runs its slice of the phase, and the producer      *)
(* waits for all of them before the next.                                  *)
(*                                                                         *)
(* Sources: thread_pool.h (runPlexParallel, waitPlexSlotsReachStamp),      *)
(* detail/plex_state.h.                                                    *)
(*                                                                         *)
(* A plex is [kind |-> "plex", stages |-> its phases, ..., token].         *)
(***************************************************************************)
EXTENDS Staged

VARIABLE phase       (* PlexState::currentPhase *)

Hook == -1           (* the share of a phase's prePhaseFn *)

PlexInit == phase = 0
PlexOpen == phase' = 0

(* Slot 0, at the head of its loop. *)
NextPhase(s) ==
  /\ s = 0 /\ At(s, "wait")
  /\ RunOrLeave(s, <<at[s], Hook>>, "leave")
  /\ UNCHANGED phase

HookOver(s) == /\ At(s, "body") /\ item[s][2] = Hook
               /\ Complete(s, "publish")
               /\ UNCHANGED phase

PublishPhase(s) ==
  /\ At(s, "publish")
  /\ phase' = at[s]
  /\ Run(s, <<at[s], s>>)
  /\ UNCHANGED <<poolVars, at, done, cancelled, exc, stopped>>

(* The token, a throw before, or the hook itself ends the plex. *)
LeavePlex(s) ==
  /\ At(s, "leave")
  /\ phase' = at[s]
  /\ IF <<at[s], Hook>> \in failed THEN Stamp(s, at[s]) ELSE UNCHANGED done
  /\ Goto(s, "last")
  /\ UNCHANGED <<poolVars, at, item, cancelled, exc, stopped, history>>

SliceOver(s) == /\ At(s, "body") /\ item[s][2] # Hook
                /\ Complete(s, "stamp")
                /\ UNCHANGED phase

PlexThrow(s) == Throw(s) /\ UNCHANGED phase

PlexFlag(s) ==
  /\ Flag(s, IF s # 0 THEN "bail" ELSE IF item[s][2] = Hook THEN "leave" ELSE "stamp")
  /\ UNCHANGED phase

Failed(s) == <<at[s], s>> \in failed

SliceStamp(s) ==
  LET p == at[s]
  IN  /\ At(s, "stamp")
      /\ Stamp(s, p)
      /\ Goto(s, IF s = 0 THEN (IF Failed(s) THEN "last" ELSE "join")
                 ELSE IF p = call.stages THEN "out" ELSE "wait")
      /\ at' = [at EXCEPT ![s] = IF s # 0 /\ p < call.stages THEN p + 1 ELSE p]
      /\ UNCHANGED <<poolVars, item, cancelled, exc, stopped, history, phase>>

(* waitPlexSlotsReachStamp *)
AllOthers(p) == \A t \in Others(0) : Reached(t, p)

PlexJoin(s) ==
  LET p == at[s]
  IN  /\ At(s, "join") /\ AllOthers(p)
      /\ Goto(s, IF p = call.stages THEN "out" ELSE "wait")
      /\ at' = [at EXCEPT ![s] = IF p = call.stages THEN p ELSE p + 1]
      /\ UNCHANGED <<poolVars, item, done, cancelled, exc, stopped, history, phase>>

LastJoin(s) ==
  /\ At(s, "last") /\ AllOthers(at[s])
  /\ Go(s, "out")
  /\ UNCHANGED phase

(* A worker spins on the phase, and on the flag as long as it is not there; *)
(* the token is the producer's business.                                   *)
TakePhase(s) ==
  /\ s # 0 /\ At(s, "wait")
  /\ phase >= at[s] /\ ~cancelled
  /\ Run(s, <<at[s], s>>)
  /\ UNCHANGED <<poolVars, at, done, cancelled, exc, stopped, phase>>

GiveUp(s) ==
  /\ s # 0 /\ At(s, "wait")
  /\ cancelled
  /\ Go(s, "bail")
  /\ UNCHANGED phase

(* The final epoch (after that of the phase, which nobody tells apart). *)
OwnPhase(s) == at[s] - 1               \* mutant
FinalStamp(s) == call.stages

PlexBail(s) ==
  /\ At(s, "bail")
  /\ StampAndGo(s, FinalStamp(s), "out")
  /\ UNCHANGED phase

PlexBegin(s) == Begin(s, 1) /\ UNCHANGED phase

PlexSlot(s) ==
  /\ Kind = "plex"
  /\ \/ PlexBegin(s) \/ NextPhase(s) \/ HookOver(s) \/ PublishPhase(s)
     \/ LeavePlex(s) \/ SliceOver(s) \/ PlexThrow(s) \/ PlexFlag(s)
     \/ SliceStamp(s) \/ PlexJoin(s) \/ LastJoin(s) \/ TakePhase(s)
     \/ GiveUp(s) \/ PlexBail(s)

-----------------------------------------------------------------------------
(* A hook builds on every slice of the phases before, and runs alone; a    *)
(* slice builds on the hook of its phase.                                  *)
PlexUnits(c) == (1 .. c.stages) \X (Slots \union {Hook})

PlexNeeds(c, u) == {v \in PlexUnits(c) : \/ v[1] < u[1]
                                         \/ v = <<u[1], Hook>> /\ u # v}
=============================================================================
