----------------------------- MODULE MdnsLifecycle -----------------------------
(***************************************************************************)
(* Start and stop of the mdns service (mdns_service.c): mdns_init builds   *)
(* the server, the queue, the interfaces' event handlers, the lock, the    *)
(* timer and the service task, any of which may fail; mdns_free takes them *)
(* apart while the timer's callback, the network and the service task go   *)
(* on.  One owner calls both; callers of mdns_hostname_set and             *)
(* mdns_delegate_hostname_add post an action and wait for its execution on *)
(* a semaphore that all of them share (mdns_responder.c).                  *)
(*                                                                         *)
(* Callers leave the API alone while the owner is in it, and the owner     *)
(* calls mdns_free when they have returned, but for those that never will. *)
(* A packet stands for all that a queued action and a list both point to:  *)
(* searches and browses are freed by mdns_free in the same way.            *)
(***************************************************************************)
EXTENDS MdnsService, FiniteSets, SequencesExt

CONSTANTS
  Callers, Packets,
  MaxInits, MaxCalls, MaxReceived   (* bounds *)

ASSUME LifecycleAssumption ==
  /\ IsFiniteSet(Callers) /\ "none" \notin Callers
  /\ MaxInits \in Nat /\ MaxCalls \in Nat /\ MaxReceived \in Nat

VARIABLES
  owner,    (* how far the owner is in mdns_init or mdns_free              *)
  server,   (* s_server is there                                           *)
  wired,    (* the PCBs are there: packets come in                         *)
  handlers, (* the interfaces' event handlers: "left" by an mdns_init that *)
            (* failed, or "registered"                                     *)
  timer,    (* s_timer_handle runs                                         *)
  fires,    (* its callback has begun and waits for the lock               *)
  task,     (* the service task                                            *)
  tx,       (* the packets in s_tx_queue_head, and which have an action    *)
  caller,   (* how far each caller is                                      *)
  given,    (* action_sema                                                 *)
  netif,    (* is the application's interface in s_esp_netifs              *)
  posted, late, overlapped,  (* see FreesOnce and CallersReturn             *)
  fate,     (* the undefined behaviour that has come                       *)
  inits, calls, received

env  == <<wired, handlers, timer, fires, netif>>
life == <<owner, server, posted, late>>
own  == <<caller, given, overlapped>>
cnt  == <<inits, calls, received>>
vars == <<engineVars, life, env, task, tx, own, fate, cnt>>

(* What the service task can be told; the callers' actions name them. *)
Waited == {"HOSTNAME_SET", "DELEGATE_HOSTNAME_ADD"}
Actions ==
  [type : Waited, caller : Callers] \cup [type : {"TX_HANDLE"}, packet : Packets]
    \cup [type : {"RX_HANDLE", "SYSTEM_EVENT", "TASK_STOP"}]

TypeOK ==
  /\ actions \in Seq(Actions) /\ Len(actions) <= QueueLen
  /\ current \in Actions \cup {Idle}
  /\ lock \in {"none", "owner", "unregister"}
  /\ owner \in {"down", "server", "queue", "netif", "start", "undo", "up",
                "remove", "timer", "stop", "stopping", "delete", "drain", "free"}
  /\ server \in BOOLEAN /\ wired \in BOOLEAN /\ timer \in BOOLEAN /\ fires \in BOOLEAN
  /\ handlers \in {"none", "registered", "left"}
  /\ task \in {"none", "runs", "stopped"}
  /\ tx \in [Packets -> {"free", "listed", "queued"}]
  /\ caller \in [Callers -> {"idle", "posted", "waits"}]
  /\ given \in BOOLEAN /\ netif \in BOOLEAN
  /\ posted \in BOOLEAN /\ late \in BOOLEAN /\ overlapped \in BOOLEAN
  /\ fate \in {"none", "freed twice", "killed", "no lock", "no queue", "left waiting"}
  /\ inits \in 0..MaxInits /\ calls \in 0..MaxCalls /\ received \in 0..MaxReceived

Empty == [p \in Packets |-> "free"]

Init ==
  /\ EngineInit
  /\ owner = "down" /\ server = FALSE /\ wired = FALSE /\ handlers = "none"
  /\ timer = FALSE /\ fires = FALSE /\ task = "none"
  /\ tx = Empty
  /\ caller = [c \in Callers |-> "idle"] /\ given = FALSE
  /\ netif = FALSE
  /\ posted = TRUE /\ late = FALSE /\ overlapped = FALSE
  /\ fate = "none"
  /\ inits = 0 /\ calls = 0 /\ received = 0

OwnerIs(pc) == fate = "none" /\ owner = pc

-----------------------------------------------------------------------------
(* mdns_init *)

InitServer ==
  /\ OwnerIs("down") /\ inits < MaxInits
  /\ inits' = inits + 1
  /\ \/ owner' = "server" /\ server' = TRUE
     \/ UNCHANGED <<owner, server>>
  /\ UNCHANGED <<engineVars, env, task, tx, own, posted, late, fate, calls, received>>

(* mdns_priv_responder_free *)
GivesUp == owner' = "down" /\ server' = FALSE

InitQueue ==
  /\ OwnerIs("server")
  /\ \/ owner' = "queue" /\ UNCHANGED server
     \/ GivesUp
  /\ UNCHANGED <<engineVars, env, task, tx, own, posted, late, fate, cnt>>

(* mdns_priv_netif_init: from here on packets and events are posted.  Where *)
(* it fails it takes the handlers back, also those of an earlier mdns_init, *)
(* and the queue is deleted with what they have posted.                     *)
InitNetif ==
  /\ OwnerIs("queue")
  /\ \/ /\ owner' = "netif" /\ wired' = TRUE /\ handlers' = "registered" /\ netif' = FALSE
        /\ UNCHANGED <<server, actions>>
     \/ GivesUp /\ handlers' = "none" /\ actions' = <<>> /\ UNCHANGED <<wired, netif>>
  /\ UNCHANGED <<current, lock, timer, fires, task, tx, own, posted, late, fate, cnt>>

(* Mutant: the timer goes on. *)
TimerLeft ==
  /\ owner' = "undo" /\ wired' = FALSE /\ handlers' = "left" /\ actions' = <<>>
  /\ lock' = "none" /\ UNCHANGED <<timer, late, fate>>

(* An mdns_init that fails now stops the timer and deletes the lock,        *)
(* disables the PCBs and deletes the queue with whatever is in it; the      *)
(* event handlers stay registered.                                          *)
Undone ==
  /\ owner' = "undo" /\ wired' = FALSE /\ handlers' = "left" /\ actions' = <<>>
  /\ lock' = "none" /\ timer' = FALSE
  /\ late' = (late \/ fires)
  /\ fate' = IF fires THEN "no lock" ELSE fate

(* service_task_start up to the timer, under the lock. *)
InitTimer ==
  /\ OwnerIs("netif")
  /\ \/ owner' = "start" /\ lock' = "owner" /\ timer' = TRUE
        /\ UNCHANGED <<wired, handlers, actions, late, fate>>
     \/ Undone
  /\ UNCHANGED <<current, server, fires, netif, task, tx, own, posted, cnt>>

InitTask ==
  /\ OwnerIs("start")
  /\ \/ owner' = "up" /\ task' = "runs" /\ lock' = "none"
        /\ UNCHANGED <<wired, handlers, actions, timer, late, fate>>
     \/ Undone /\ UNCHANGED task
  /\ UNCHANGED <<current, server, fires, netif, tx, own, posted, cnt>>

InitGivesUp ==
  /\ OwnerIs("undo")
  /\ GivesUp
  /\ UNCHANGED <<engineVars, env, task, tx, own, posted, late, fate, cnt>>

-----------------------------------------------------------------------------
(* mdns_free *)

FreeUnregisters ==
  /\ OwnerIs("up")
  /\ \A c \in Callers : caller[c] = "idle" \/ overlapped
  /\ owner' = "remove" /\ handlers' = "none"
  /\ UNCHANGED <<engineVars, server, wired, timer, fires, netif, task, tx, own, posted, late, fate, cnt>>

(* mdns_service_remove_all: packets that are left empty are freed, with or  *)
(* without an action.                                                       *)
FreeRemoves ==
  /\ OwnerIs("remove") /\ lock = "none"
  /\ owner' = "timer"
  /\ \E P \in SUBSET Packets : tx' = [p \in Packets |-> IF p \in P THEN "free" ELSE tx[p]]
  /\ UNCHANGED <<engineVars, server, env, task, own, posted, late, fate, cnt>>

(* Mutant: the timer goes on until the task has been stopped. *)
FreeTimerLater ==
  /\ OwnerIs("timer")
  /\ owner' = "stop" /\ late' = FALSE
  /\ UNCHANGED <<engineVars, server, env, task, tx, own, posted, fate, cnt>>

(* stop_timer does not wait for a callback that has begun. *)
FreeTimer ==
  /\ OwnerIs("timer")
  /\ owner' = "stop" /\ timer' = FALSE /\ late' = fires
  /\ UNCHANGED <<engineVars, server, wired, handlers, fires, netif, task, tx, own, posted, fate, cnt>>

(* service_task_stop: a full queue takes no TASK_STOP. *)
FreeStops ==
  /\ OwnerIs("stop")
  /\ posted' = Room
  /\ \/ Room /\ Enqueue([type |-> "TASK_STOP"]) /\ owner' = "stopping"
     \/ ~Room /\ UNCHANGED actions /\ owner' = "delete"
  /\ UNCHANGED <<current, lock, server, env, task, tx, own, late, fate, cnt>>

FreeWaits ==
  /\ OwnerIs("stopping") /\ task = "stopped"
  /\ owner' = "delete"
  /\ UNCHANGED <<engineVars, server, env, task, tx, own, posted, late, fate, cnt>>

(* The task, wherever it is, and the lock are deleted. *)
FreeDeletes ==
  /\ OwnerIs("delete")
  /\ owner' = "drain"
  /\ task' = "none" /\ lock' = "none" /\ current' = Idle
  /\ fate' = IF current # Idle THEN "killed" ELSE IF fires \/ lock # "none" THEN "no lock" ELSE fate
  /\ UNCHANGED <<actions, server, env, tx, own, posted, late, cnt>>

(* mdns_priv_pcb_deinit, and the actions that are left. *)
FreeDrains ==
  /\ OwnerIs("drain")
  /\ owner' = "free" /\ wired' = FALSE /\ actions' = <<>>
  /\ fate' = IF \E a \in Range(actions) : a.type = "TX_HANDLE" THEN "freed twice" ELSE fate
  /\ UNCHANGED <<current, lock, server, handlers, timer, fires, netif, task, tx, own, posted, late, cnt>>

(* mdns_priv_clear_tx_queue, mdns_priv_responder_free *)
FreeServer ==
  /\ OwnerIs("free")
  /\ GivesUp
  /\ tx' = Empty
  /\ given' = FALSE
  /\ fate' = IF \E c \in Callers : caller[c] # "idle" THEN "left waiting" ELSE fate
  /\ UNCHANGED <<engineVars, env, task, caller, overlapped, posted, late, cnt>>

-----------------------------------------------------------------------------
(* Timer, network and the service task. *)

Runs == fate = "none"

TimerFires ==
  /\ Runs /\ timer /\ ~fires
  /\ fires' = TRUE
  /\ UNCHANGED <<engineVars, life, wired, handlers, timer, netif, task, tx, own, fate, cnt>>

(* mdns_priv_send_packets: one packet that is due, or none. *)
TimerCallback ==
  /\ Runs /\ fires /\ lock = "none"
  /\ fires' = FALSE
  /\ \/ UNCHANGED <<actions, tx>>
     \/ \E p \in Packets :
          /\ tx[p] = "listed" /\ Room
          /\ tx' = [tx EXCEPT ![p] = "queued"]
          /\ Enqueue([type |-> "TX_HANDLE", packet |-> p])
  /\ UNCHANGED <<current, lock, life, wired, handlers, timer, netif, task, own, fate, cnt>>

Posts(type) ==
  /\ Runs /\ received < MaxReceived
  /\ Room
  /\ Enqueue([type |-> type])
  /\ received' = received + 1
  /\ UNCHANGED <<current, lock, life, env, task, tx, own, fate, inits, calls>>

PacketComes == wired /\ Posts("RX_HANDLE")

(* An event of an interface: its handler posts an action if the server is   *)
(* there.                                                                   *)
Handles == handlers # "none" /\ server
HasQueue == owner \notin {"server", "undo"}

EventComes == Handles /\ HasQueue /\ Posts("SYSTEM_EVENT")

(* The handler of an mdns_init that failed sends to the queue that was      *)
(* deleted, while that mdns_init ends or the next one begins.               *)
EventMeetsNoQueue ==
  /\ Runs /\ Handles /\ ~HasQueue
  /\ fate' = "no queue"
  /\ UNCHANGED <<engineVars, life, env, task, tx, own, cnt>>

TaskReceives ==
  /\ Runs /\ task = "runs"
  /\ ServiceReceives
  /\ UNCHANGED <<life, env, task, tx, own, fate, cnt>>

TaskStops ==
  /\ Runs /\ task = "runs" /\ current.type = "TASK_STOP"
  /\ current' = Idle /\ task' = "stopped"
  /\ UNCHANGED <<actions, lock, life, env, tx, own, fate, cnt>>

(* A packet is scheduled, if there is memory for it. *)
Schedules(q) == tx' \in {q} \cup {[q EXCEPT ![p] = "listed"] : p \in {x \in Packets : q[x] = "free"}}

(* Mutant: one who adds a host that cannot be added is not woken. *)
GivesIfDone == given' \in IF current.type = "DELEGATE_HOSTNAME_ADD" THEN {given, TRUE} ELSE {TRUE}

Gives == given' = TRUE

(* mdns_priv_responder_action: a new host name clears what was scheduled    *)
(* and probes again.                                                        *)
TaskAnswers ==
  /\ Runs /\ task = "runs" /\ Executes(current.type) /\ current.type \in Waited
  /\ IF current.type = "HOSTNAME_SET" THEN Schedules(Empty) ELSE UNCHANGED tx
  /\ Gives
  /\ UNCHANGED <<actions, life, env, task, caller, overlapped, fate, cnt>>

(* send_packet: sent, and followed by the next one of its chain or not; a   *)
(* packet that is not there any more is skipped.                            *)
TaskSends ==
  /\ Runs /\ task = "runs" /\ Executes("TX_HANDLE")
  /\ IF tx[current.packet] = "queued" THEN Schedules([tx EXCEPT ![current.packet] = "free"])
                                      ELSE UNCHANGED tx
  /\ UNCHANGED <<actions, life, env, task, own, fate, cnt>>

(* A received packet may be answered, an event may have a PCB announce. *)
TaskHandles ==
  /\ Runs /\ task = "runs"
  /\ Executes("RX_HANDLE") \/ Executes("SYSTEM_EVENT")
  /\ Schedules(tx)
  /\ UNCHANGED <<actions, life, env, task, own, fate, cnt>>

-----------------------------------------------------------------------------
(* Callers. *)

CallerCalls(c, type) ==
  /\ Runs /\ owner = "up" /\ caller[c] = "idle" /\ calls < MaxCalls
  /\ Room
  /\ Enqueue([type |-> type, caller |-> c])
  /\ caller' = [caller EXCEPT ![c] = "posted"]
  /\ overlapped' = (overlapped \/ \E d \in Callers : caller[d] # "idle")
  /\ calls' = calls + 1
  /\ UNCHANGED <<current, lock, life, env, task, tx, given, fate, inits, received>>

CallerWaits(c) ==
  /\ Runs /\ caller[c] = "posted"
  /\ caller' = [caller EXCEPT ![c] = "waits"]
  /\ UNCHANGED <<engineVars, life, env, task, tx, given, overlapped, fate, cnt>>

CallerReturns(c) ==
  /\ Runs /\ caller[c] = "waits" /\ given
  /\ given' = FALSE
  /\ caller' = [caller EXCEPT ![c] = "idle"]
  /\ UNCHANGED <<engineVars, life, env, task, tx, overlapped, fate, cnt>>

mdns_register_netif ==
  /\ Runs /\ owner = "up" /\ lock = "none"
  /\ ~netif /\ netif' = TRUE
  /\ UNCHANGED <<engineVars, life, wired, handlers, timer, fires, task, tx, own, fate, cnt>>

(* It ends by taking the lock a second time. *)
mdns_unregister_netif ==
  /\ Runs /\ owner = "up" /\ lock = "none"
  /\ netif /\ netif' = FALSE
  /\ lock' = "unregister"
  /\ UNCHANGED <<actions, current, life, wired, handlers, timer, fires, task, tx, own, fate, cnt>>

-----------------------------------------------------------------------------
Owner ==
  \/ InitServer \/ InitQueue \/ InitNetif \/ InitTimer \/ InitTask \/ InitGivesUp
  \/ FreeUnregisters \/ FreeRemoves \/ FreeTimer \/ FreeStops \/ FreeWaits
  \/ FreeDeletes \/ FreeDrains \/ FreeServer

Task == TaskReceives \/ TaskStops \/ TaskAnswers \/ TaskSends \/ TaskHandles

Next ==
  \/ Owner \/ Task
  \/ TimerFires \/ TimerCallback
  \/ PacketComes \/ EventComes \/ EventMeetsNoQueue
  \/ \E c \in Callers :
       \/ \E type \in Waited : CallerCalls(c, type)
       \/ CallerWaits(c) \/ CallerReturns(c)
  \/ mdns_register_netif \/ mdns_unregister_netif

Spec == Init /\ [][Next]_vars

(* The service task and the callers get the processor, and the timer's      *)
(* callback ends, which holds up the service task where it takes the lock.  *)
FairSpec ==
  /\ Spec
  /\ WF_vars(Task) /\ WF_vars(TimerCallback)
  /\ \A c \in Callers : WF_vars(CallerWaits(c)) /\ WF_vars(CallerReturns(c))

-----------------------------------------------------------------------------
(* An mdns_free whose TASK_STOP found room in the queue, with no callback   *)
(* of the timer under way when the timer was stopped, frees everything once *)
(* and deletes neither the lock nor the task in somebody's hands; and when  *)
(* the component is down, after a free or a failed mdns_init, nothing of it *)
(* runs or is left for the next one to find.  All but the event handlers of *)
(* an mdns_init that failed, one of which may find no queue.                *)
FreesOnce ==
  /\ posted /\ ~late /\ ~overlapped => fate = "none" \/ (fate = "no queue" /\ handlers = "left")
  /\ owner = "down" /\ fate = "none" =>
       /\ ~server /\ ~wired /\ ~timer /\ ~fires /\ task = "none" /\ lock = "none"
       /\ handlers # "registered"
       /\ actions = <<>> /\ current = Idle /\ tx = Empty /\ ~given

(* "Unregister handlers before destroying the mdns internals to avoid       *)
(* receiving async events while deinit" (mdns_service.c:397): no event of   *)
(* an interface is sent to a queue that is not there.  mdns_free does so;   *)
(* the error path of mdns_init destroys the same internals and does not.    *)
EventsMeetQueue == fate # "no queue"

(* A caller whose call is the only one gets back: its action is executed,   *)
(* behind whatever else the timer and the network post, unless another      *)
(* thread has unregistered an interface.                                    *)
CallersReturn ==
  \A c \in Callers :
    caller[c] = "posted" ~> caller[c] = "idle" \/ overlapped \/ lock = "unregister"
=============================================================================
