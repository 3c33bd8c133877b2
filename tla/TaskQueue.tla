------------------------------- MODULE TaskQueue -------------------------------
(***************************************************************************)
(* What the task pool of an event loop promises its callers: closures      *)
(* handed over by any thread are executed one at a time, each as often as  *)
(* it was handed over, in the order of the hand-over.  Locks, the eventfd  *)
(* and epoll do not appear here; EventLoop implements this specification.  *)
(***************************************************************************)
EXTENDS Sequences

CONSTANTS
  Task,     (* the closures that may be handed over                       *)
  NoTask    (* the value of "current" while no closure executes           *)

VARIABLES
  pending,  (* closures handed over and not yet begun, oldest first       *)
  current   (* the closure being executed                                 *)

abstractVars == <<pending, current>>

AbstractInit ==
  /\ pending = <<>>
  /\ current = NoTask

Submit(t) ==
  /\ pending' = Append(pending, t)
  /\ UNCHANGED current

Begin ==
  /\ current = NoTask
  /\ pending # <<>>
  /\ current' = Head(pending)
  /\ pending' = Tail(pending)

End ==
  /\ current # NoTask
  /\ current' = NoTask
  /\ UNCHANGED pending

AbstractNext == (\E t \in Task : Submit(t)) \/ Begin \/ End

SafeQueue == AbstractInit /\ [][AbstractNext]_abstractVars

Served == WF_abstractVars(Begin) /\ WF_abstractVars(End)

===============================================================================
