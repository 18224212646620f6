------------------------------ MODULE MdnsService ------------------------------
(***************************************************************************)
(* The engine of the mdns component (mdns_service.c): one queue of actions *)
(* filled by API callers, the timer and the network, one service task that *)
(* takes an action without the service lock and then executes it under the *)
(* lock, and the lock itself, a mutex that is not recursive.               *)
(*                                                                         *)
(* The execution of an action is one step: everything else that touches    *)
(* the same data takes the lock, except for the reads of API callers that  *)
(* the modules built on this one name.  lock therefore only shows the      *)
(* holders that keep it for several steps.                                 *)
(***************************************************************************)
EXTENDS Naturals, Sequences

CONSTANT QueueLen   (* MDNS_ACTION_QUEUE_LEN *)

ASSUME QueueLenAssumption == QueueLen \in Nat \ {0}

VARIABLES
  actions,   (* s_action_queue, oldest first                               *)
  current,   (* the action the service task has taken and not yet executed *)
  lock       (* who holds s_service_semaphore                              *)

engineVars == <<actions, current, lock>>

Idle == [type |-> "IDLE"]

(* Everything the engine has still to execute. *)
Pending == {actions[i] : i \in 1..Len(actions)} \cup ({current} \ {Idle})

EngineInit ==
  /\ actions = <<>>
  /\ current = Idle
  /\ lock = "none"

-----------------------------------------------------------------------------
(* mdns_priv_queue_action: xQueueSend without waiting.  A failed allocation *)
(* of the action takes the callers' same error path as a full queue.        *)

(* Mutant: one more than the queue holds. *)
RoomForOneMore == Len(actions) <= QueueLen

Room == Len(actions) < QueueLen

Enqueue(a) == actions' = Append(actions, a)

(* The service task's xQueueReceive, before it takes the lock. *)
ServiceReceives ==
  /\ current = Idle
  /\ actions # <<>>
  /\ current' = Head(actions)
  /\ actions' = Tail(actions)
  /\ UNCHANGED lock

(* execute_action under the lock, for an action of this type; what it posts *)
(* itself is for the action to say.                                         *)
Executes(type) ==
  /\ current.type = type
  /\ lock = "none"
  /\ current' = Idle
  /\ UNCHANGED lock
=============================================================================
