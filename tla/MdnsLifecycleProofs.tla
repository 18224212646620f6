-------------------------- MODULE MdnsLifecycleProofs --------------------------
(***************************************************************************)
(* That mdns_init and mdns_free leave nothing behind and take nothing away *)
(* from under anybody, proved for every number of callers, packets, starts *)
(* and calls, and every length of the queue.                               *)
(***************************************************************************)
EXTENDS MdnsLifecycle, MdnsServiceProofs

USE QueueLenAssumption, LifecycleAssumption

-----------------------------------------------------------------------------
(* Facts about actions. *)

Stop == [type |-> "TASK_STOP"]

LEMMA IdleIsNoAction == Idle \notin Actions /\ Idle.type = "IDLE"
BY DEF Idle, Actions, Waited

LEMMA ActionsMade ==
  /\ \A type \in Waited, c \in Callers : [type |-> type, caller |-> c] \in Actions
  /\ \A p \in Packets : [type |-> "TX_HANDLE", packet |-> p] \in Actions
  /\ [type |-> "RX_HANDLE"] \in Actions /\ [type |-> "SYSTEM_EVENT"] \in Actions /\ Stop \in Actions
BY DEF Actions, Stop

LEMMA ActionFields ==
  ASSUME NEW a \in Actions
  PROVE  /\ a.type = "TASK_STOP" <=> a = Stop
         /\ a.type = "TX_HANDLE" => a.packet \in Packets
BY DEF Actions, Waited, Stop

-----------------------------------------------------------------------------
(* Types. *)

FlagsOK ==
  /\ server \in BOOLEAN /\ wired \in BOOLEAN /\ timer \in BOOLEAN /\ fires \in BOOLEAN
  /\ given \in BOOLEAN /\ netif \in BOOLEAN
  /\ posted \in BOOLEAN /\ late \in BOOLEAN /\ overlapped \in BOOLEAN

DataOK ==
  /\ lock \in {"none", "owner", "unregister"}
  /\ owner \in {"down", "server", "queue", "netif", "start", "undo", "up",
                "remove", "timer", "stop", "stopping", "delete", "drain", "free"}
  /\ task \in {"none", "runs", "stopped"}
  /\ tx \in [Packets -> {"free", "listed", "queued"}]
  /\ caller \in [Callers -> {"idle", "posted", "waits"}]
  /\ fate \in {"none", "freed twice", "killed", "no lock", "no queue", "left waiting"}
  /\ handlers \in {"none", "registered", "left"}

CountsOK == inits \in 0..MaxInits /\ calls \in 0..MaxCalls /\ received \in 0..MaxReceived

EngineOK == EngineOf(Actions) /\ Len(actions) <= QueueLen

TypeInv == EngineOK /\ FlagsOK /\ DataOK /\ CountsOK

LEMMA TypesAre == TypeInv <=> TypeOK
BY IdleIsNoAction DEF TypeInv, TypeOK, DataOK, FlagsOK, CountsOK, EngineOK, EngineOf

LEMMA TypeInit == Init => TypeInv
<1> SUFFICES ASSUME Init PROVE TypeInv
  OBVIOUS
<1>1. EngineOK
  BY EngineStarts, IdleIsNoAction DEF Init, EngineOK
<1>2. DataOK
  BY DEF Init, EngineInit, DataOK, Empty
<1>3. server = FALSE /\ wired = FALSE /\ timer = FALSE /\ fires = FALSE /\ given = FALSE
      /\ netif = FALSE /\ posted = TRUE /\ late = FALSE /\ overlapped = FALSE
  BY DEF Init
<1>4. FlagsOK
  BY <1>3, Zenon DEF FlagsOK
<1>5. CountsOK
  BY DEF Init, CountsOK
<1> QED
  BY <1>1, <1>2, <1>4, <1>5 DEF TypeInv

LEMMA EngineStep == TypeInv /\ [Next]_vars => EngineOK'
<1> SUFFICES ASSUME TypeInv, [Next]_vars PROVE EngineOK'
  OBVIOUS
<1>0. EngineOf(Actions) /\ Len(actions) \in Nat /\ Len(actions) <= QueueLen
  BY DEF TypeInv, EngineOK, EngineOf
<1>1. ASSUME NEW a \in Actions, Room, Enqueue(a), UNCHANGED current PROVE EngineOK'
  BY <1>0, <1>1, EnginePosts DEF EngineOK, Room
<1>2. ASSUME UNCHANGED <<actions, current>> PROVE EngineOK'
  BY <1>0, <1>2, EngineRests DEF EngineOK
<1>3. ASSUME ServiceReceives PROVE EngineOK'
  BY <1>0, <1>3, EngineReceives DEF EngineOK
<1>4. ASSUME current' = Idle, UNCHANGED actions PROVE EngineOK'
  BY <1>0, <1>4 DEF EngineOK, EngineOf
<1>5. ASSUME actions' = <<>>, UNCHANGED current PROVE EngineOK'
  BY <1>0, <1>5 DEF EngineOK, EngineOf
<1>6. CASE Owner
  <2>1. CASE InitServer \/ InitQueue \/ InitGivesUp \/ FreeUnregisters \/ FreeRemoves \/ FreeTimer
             \/ FreeWaits \/ FreeServer
    BY <1>2, <2>1
    DEF InitServer, InitQueue, InitGivesUp, FreeUnregisters, FreeRemoves, FreeTimer, FreeWaits, FreeServer,
        engineVars
  <2>2. CASE InitNetif \/ InitTimer \/ InitTask \/ FreeDrains
    BY <1>2, <1>5, <2>2 DEF InitNetif, InitTimer, InitTask, FreeDrains, Undone
  <2>3. CASE FreeStops
    BY <1>1, <1>2, <2>3, ActionsMade DEF FreeStops, Stop
  <2>4. CASE FreeDeletes
    BY <1>4, <2>4 DEF FreeDeletes
  <2> QED
    BY <1>6, <2>1, <2>2, <2>3, <2>4 DEF Owner
<1>7. CASE Task
  BY <1>3, <1>4, <1>7
  DEF Task, TaskReceives, TaskStops, TaskAnswers, TaskSends, TaskHandles, Executes
<1>8. CASE TimerCallback
  <2>1. UNCHANGED current
    BY <1>8 DEF TimerCallback
  <2>2. UNCHANGED actions \/ \E p \in Packets : Room /\ Enqueue([type |-> "TX_HANDLE", packet |-> p])
    BY <1>8 DEF TimerCallback
  <2> QED
    BY <1>1, <1>2, <2>1, <2>2, ActionsMade
<1>9. CASE PacketComes \/ EventComes
  BY <1>1, <1>9, ActionsMade DEF PacketComes, EventComes, Posts
<1>10. ASSUME NEW c \in Callers, NEW type \in Waited, CallerCalls(c, type) PROVE EngineOK'
  BY <1>1, <1>10, ActionsMade DEF CallerCalls
<1>11. ASSUME NEW c \in Callers, CallerWaits(c) \/ CallerReturns(c) PROVE EngineOK'
  BY <1>2, <1>11 DEF CallerWaits, CallerReturns, engineVars
<1>12. CASE TimerFires \/ EventMeetsNoQueue \/ mdns_register_netif \/ mdns_unregister_netif \/ UNCHANGED vars
  BY <1>2, <1>12 DEF TimerFires, EventMeetsNoQueue, mdns_register_netif, mdns_unregister_netif, vars, engineVars
<1> QED
  BY <1>6, <1>7, <1>8, <1>9, <1>10, <1>11, <1>12 DEF Next

LEMMA SchedulesPackets ==
  ASSUME NEW q \in [Packets -> {"free", "listed", "queued"}], Schedules(q)
  PROVE  tx' \in [Packets -> {"free", "listed", "queued"}]
BY DEF Schedules

LEMMA DataStep == TypeInv /\ [Next]_vars => DataOK'
<1> SUFFICES ASSUME TypeInv, [Next]_vars PROVE DataOK'
  OBVIOUS
<1>0. DataOK
  BY DEF TypeInv
<1>1. CASE InitServer \/ InitQueue \/ InitNetif \/ InitGivesUp
  <2>1. CASE InitServer
    BY <1>0, <2>1 DEF InitServer, DataOK, engineVars, env, own
  <2>2. CASE InitQueue
    BY <1>0, <2>2 DEF InitQueue, GivesUp, DataOK, engineVars, env, own
  <2>3. CASE InitNetif
    BY <1>0, <2>3 DEF InitNetif, GivesUp, DataOK, own
  <2>4. CASE InitGivesUp
    BY <1>0, <2>4 DEF InitGivesUp, GivesUp, DataOK, engineVars, env, own
  <2> QED
    BY <1>1, <2>1, <2>2, <2>3, <2>4
<1>2. CASE InitTimer \/ InitTask
  BY <1>0, <1>2 DEF InitTimer, InitTask, Undone, DataOK, env, life, own, cnt
<1>3. CASE FreeUnregisters \/ FreeTimer \/ FreeStops \/ FreeWaits \/ FreeDeletes \/ FreeDrains
  BY <1>0, <1>3
  DEF FreeUnregisters, FreeTimer, FreeStops, FreeWaits, FreeDeletes, FreeDrains, DataOK, Room,
      engineVars, env, life, own, cnt
<1>4. CASE FreeRemoves
  BY <1>0, <1>4 DEF FreeRemoves, DataOK, engineVars, env, life, own, cnt
<1>5. CASE FreeServer
  BY <1>0, <1>5 DEF FreeServer, GivesUp, Empty, DataOK, engineVars, env, life, own, cnt
<1>6. CASE TaskReceives \/ TaskStops
  BY <1>0, <1>6 DEF TaskReceives, TaskStops, ServiceReceives, DataOK, env, life, own, cnt
<1>7. CASE TaskAnswers
  <2>1. Empty \in [Packets -> {"free", "listed", "queued"}]
    BY DEF Empty
  <2>2. tx' \in [Packets -> {"free", "listed", "queued"}]
    BY <1>0, <1>7, <2>1, SchedulesPackets DEF TaskAnswers, DataOK
  <2> QED
    BY <1>0, <1>7, <2>2 DEF TaskAnswers, Gives, Executes, DataOK, env, life, cnt
<1>8. CASE TaskSends \/ TaskHandles
  <2>1. [tx EXCEPT ![current.packet] = "free"] \in [Packets -> {"free", "listed", "queued"}]
    BY <1>0 DEF DataOK
  <2>2. tx' \in [Packets -> {"free", "listed", "queued"}]
    BY <1>0, <1>8, <2>1, SchedulesPackets DEF TaskSends, TaskHandles, DataOK
  <2> QED
    BY <1>0, <1>8, <2>2 DEF TaskSends, TaskHandles, Executes, DataOK, env, life, own, cnt
<1>9. CASE TimerFires \/ TimerCallback
  <2>1. CASE TimerFires
    BY <1>0, <2>1 DEF TimerFires, DataOK, engineVars, life, own
  <2>2. CASE TimerCallback
    <3>1. tx' \in [Packets -> {"free", "listed", "queued"}]
      BY <1>0, <2>2 DEF TimerCallback, DataOK
    <3>2. UNCHANGED <<lock, owner, task, caller, fate, handlers>>
      BY <2>2 DEF TimerCallback, life, own
    <3> QED
      BY <1>0, <3>1, <3>2 DEF DataOK
  <2> QED
    BY <1>9, <2>1, <2>2
<1>10. CASE PacketComes \/ EventComes \/ EventMeetsNoQueue
  <2>1. UNCHANGED <<lock, owner, task, tx, caller, handlers>> /\ fate' \in {fate, "no queue"}
    BY <1>10 DEF PacketComes, EventComes, EventMeetsNoQueue, Posts, engineVars, env, life, own
  <2> QED
    BY <1>0, <2>1 DEF DataOK
<1>11. ASSUME NEW c \in Callers, NEW type \in Waited, CallerCalls(c, type) PROVE DataOK'
  BY <1>0, <1>11 DEF CallerCalls, DataOK, env, life, cnt
<1>12. ASSUME NEW c \in Callers, CallerWaits(c) \/ CallerReturns(c) PROVE DataOK'
  <2>1. /\ UNCHANGED <<lock, owner, task, tx, fate, handlers>>
        /\ \E pc \in {"idle", "waits"} : caller' = [caller EXCEPT ![c] = pc]
    BY <1>12 DEF CallerWaits, CallerReturns, engineVars, env, life
  <2> QED
    BY <1>0, <2>1 DEF DataOK
<1>13. CASE mdns_register_netif \/ mdns_unregister_netif \/ UNCHANGED vars
  <2>1. UNCHANGED <<owner, task, tx, caller, fate, handlers>> /\ lock' \in {lock, "unregister"}
    BY <1>13 DEF mdns_register_netif, mdns_unregister_netif, vars, engineVars, env, life, own
  <2> QED
    BY <1>0, <2>1 DEF DataOK
<1> QED
  BY <1>1, <1>2, <1>3, <1>4, <1>5, <1>6, <1>7, <1>8, <1>9, <1>10, <1>11, <1>12, <1>13
  DEF Next, Owner, Task

LEMMA RoomOrNot == Room \in BOOLEAN
BY DEF Room

(* The flags, one by one, over all actions. *)
LEMMA FlagsStep == TypeInv /\ [Next]_vars => FlagsOK'
<1> SUFFICES ASSUME TypeInv, [Next]_vars PROVE FlagsOK'
  OBVIOUS
<1> USE DEF Next, Owner, Task, InitServer, InitQueue, InitNetif, InitTimer, InitTask, InitGivesUp, GivesUp, Undone,
            FreeUnregisters, FreeRemoves, FreeTimer, FreeStops, FreeWaits, FreeDeletes, FreeDrains,
            FreeServer, TaskReceives, TaskStops, TaskAnswers, Gives, TaskSends, TaskHandles,
            TimerFires, TimerCallback, PacketComes, EventComes, EventMeetsNoQueue, Posts, CallerCalls, CallerWaits,
            CallerReturns, mdns_register_netif, mdns_unregister_netif,
            vars, engineVars, env, life, own, cnt
<1>1. server \in BOOLEAN => server' \in BOOLEAN
  OBVIOUS
<1>2. wired \in BOOLEAN => wired' \in BOOLEAN
  OBVIOUS
<1>3. timer \in BOOLEAN => timer' \in BOOLEAN
  OBVIOUS
<1>4. fires \in BOOLEAN => fires' \in BOOLEAN
  OBVIOUS
<1>5. given \in BOOLEAN => given' \in BOOLEAN
  OBVIOUS
<1>6. netif \in BOOLEAN => netif' \in BOOLEAN
  OBVIOUS
<1>7. posted \in BOOLEAN => posted' \in BOOLEAN
  <2>1. ASSUME FreeStops PROVE posted' \in BOOLEAN
    <3>1. posted' = Room
      BY <2>1, Zenon
    <3> QED
      BY <3>1, RoomOrNot, Zenon
  <2>2. ASSUME ~FreeStops, posted \in BOOLEAN PROVE posted' \in BOOLEAN
    BY <2>2
  <2> QED
    BY <2>1, <2>2, Zenon
<1>8. late \in BOOLEAN => late' \in BOOLEAN
  <2>1. FlagsOK => fires \in BOOLEAN
    BY Zenon DEF FlagsOK
  <2> QED
    BY <2>1, Zenon DEF TypeInv
<1>9. overlapped \in BOOLEAN => overlapped' \in BOOLEAN
  OBVIOUS
<1> QED
  BY <1>1, <1>2, <1>3, <1>4, <1>5, <1>6, <1>7, <1>8, <1>9, Zenon DEF TypeInv, FlagsOK

(* The bounded counts, likewise. *)
LEMMA CountsStep == TypeInv /\ [Next]_vars => CountsOK'
<1> SUFFICES ASSUME CountsOK, [Next]_vars PROVE CountsOK'
  BY DEF TypeInv
<1>1. /\ inits' = inits \/ (inits < MaxInits /\ inits' = inits + 1)
      /\ calls' = calls \/ (calls < MaxCalls /\ calls' = calls + 1)
      /\ received' = received \/ (received < MaxReceived /\ received' = received + 1)
  <2> USE DEF Next, Owner, Task, InitServer, InitQueue, InitNetif, InitTimer, InitTask, InitGivesUp, GivesUp, Undone,
              FreeUnregisters, FreeRemoves, FreeTimer, FreeStops, FreeWaits, FreeDeletes, FreeDrains,
              FreeServer, TaskReceives, TaskStops, TaskAnswers, Gives, TaskSends, TaskHandles,
              TimerFires, TimerCallback, PacketComes, EventComes, EventMeetsNoQueue, Posts, CallerCalls, CallerWaits,
              CallerReturns, mdns_register_netif, mdns_unregister_netif,
              vars, engineVars, env, life, own, cnt
  <2>1. inits' = inits \/ (inits < MaxInits /\ inits' = inits + 1)
    OBVIOUS
  <2>2. calls' = calls \/ (calls < MaxCalls /\ calls' = calls + 1)
    OBVIOUS
  <2>3. received' = received \/ (received < MaxReceived /\ received' = received + 1)
    OBVIOUS
  <2> QED
    BY <2>1, <2>2, <2>3, Zenon
<1> QED
  BY <1>1 DEF CountsOK

LEMMA TypeStep == TypeInv /\ [Next]_vars => TypeInv'
BY EngineStep, DataStep, FlagsStep, CountsStep DEF TypeInv

(* Every state is one of a component that is up, down or on the way. *)
THEOREM TypeCorrect == Spec => []TypeOK
<1>1. Spec => []TypeInv
  BY TypeInit, TypeStep, PTL DEF Spec
<1> QED
  BY <1>1, TypesAre, PTL

-----------------------------------------------------------------------------
(* Safety: where the owner is says what is there. *)

IsSend(a) == a.type = "TX_HANDLE"

(* Among the actions to come: a TASK_STOP, nothing to send behind one, and  *)
(* nothing to send at all.                                                  *)
StopIn  == Stop \in Pending
InOrder == \A i, j \in 1..Len(actions) : IsSend(actions[i]) /\ actions[j] = Stop => i < j
AllSent == \A i \in 1..Len(actions) : ~IsSend(actions[i])

(* What has not been built, or has been taken apart, is not there. *)
BuiltInv ==
  /\ owner = "down" => ~server
  /\ owner \in {"down", "server", "undo", "free"} => ~wired /\ actions = <<>>
  /\ owner = "queue" => ~wired
  /\ owner \in {"down", "server", "queue", "netif", "undo", "drain", "free"} => ~timer /\ ~fires
  /\ owner \in {"down", "server", "queue", "netif", "start", "undo"} => tx = Empty /\ ~given

TaskInv ==
  /\ owner \in {"down", "server", "queue", "netif", "start", "undo", "drain", "free"} => task = "none"
  /\ owner \in {"up", "remove", "timer", "stop"} => task = "runs"
  /\ task # "runs" => current = Idle

(* Who may hold the lock, and whose callback may wait for it. *)
LockInv ==
  /\ lock = "owner" <=> owner = "start"
  /\ lock = "unregister" => owner \in {"up", "remove"}
  /\ owner \in {"stop", "stopping", "delete"} => ~timer /\ (fires => late)

(* Whose the event handlers are. *)
HandlerInv ==
  /\ handlers = "registered" => owner \in {"netif", "start", "up"}
  /\ handlers = "left" => owner \in {"undo", "down", "server", "queue"}

(* Nobody calls while the component is taken apart. *)
CallerInv ==
  owner \in {"remove", "timer", "stop", "stopping", "delete", "drain", "free"} =>
    overlapped \/ \A c \in Callers : caller[c] = "idle"

(* The task that is stopped has sent what it was told to send. *)
StopInv ==
  /\ StopIn => owner \in {"stopping", "delete", "drain"}
  /\ owner \in {"delete", "drain"} /\ posted => task # "runs"
  /\ owner \in {"stopping", "delete", "drain"} /\ posted /\ ~late =>
       InOrder /\ (current = Stop \/ task # "runs" => AllSent)

Parts == BuiltInv /\ TaskInv /\ LockInv /\ HandlerInv /\ CallerInv /\ StopInv

LifeInv ==
  /\ posted /\ ~late /\ ~overlapped => fate = "none" \/ (fate = "no queue" /\ handlers = "left")
  /\ fate = "none" => Parts

-----------------------------------------------------------------------------
(* What steps of the queue mean to the TASK_STOP. *)

LEMMA PostsStop ==
  ASSUME EngineOf(Actions), ~StopIn, Enqueue(Stop), UNCHANGED current
  PROVE  InOrder' /\ (AllSent => AllSent') /\ current' # Stop
<1> USE DEF EngineOf, Enqueue
<1>1. /\ Len(actions') = Len(actions) + 1 /\ Len(actions) \in Nat
      /\ \A i \in 1..Len(actions) : actions'[i] = actions[i] /\ actions[i] # Stop
      /\ actions'[Len(actions) + 1] = Stop
  BY ActionsMade DEF StopIn, Pending
<1>2. ~IsSend(Stop) /\ Stop # Idle
  BY ActionsMade DEF IsSend, Stop
<1>3. InOrder'
  BY <1>1, <1>2 DEF InOrder
<1>4. AllSent => AllSent'
  BY <1>1, <1>2 DEF AllSent
<1> QED
  BY <1>2, <1>3, <1>4 DEF StopIn, Pending

LEMMA PostsOther ==
  ASSUME EngineOf(Actions), NEW a \in Actions, a # Stop, Enqueue(a), UNCHANGED current
  PROVE  /\ StopIn' => StopIn
         /\ ~IsSend(a) => (InOrder => InOrder') /\ (AllSent => AllSent')
<1> USE DEF EngineOf, Enqueue
<1>1. /\ Len(actions') = Len(actions) + 1 /\ Len(actions) \in Nat
      /\ \A i \in 1..Len(actions) : actions'[i] = actions[i]
      /\ actions'[Len(actions) + 1] = a
  OBVIOUS
<1>2. StopIn' => StopIn
  BY EnginePosts DEF StopIn
<1>3. ~IsSend(a) /\ InOrder => InOrder'
  BY <1>1 DEF InOrder
<1>4. ~IsSend(a) /\ AllSent => AllSent'
  BY <1>1 DEF AllSent
<1> QED
  BY <1>2, <1>3, <1>4

LEMMA ReceivesNext ==
  ASSUME EngineOf(Actions), ServiceReceives
  PROVE  /\ StopIn' => StopIn
         /\ InOrder => InOrder' /\ (current' = Stop => AllSent')
         /\ AllSent => AllSent'
<1> USE DEF EngineOf, ServiceReceives
<1>1. /\ Len(actions') = Len(actions) - 1 /\ Len(actions) \in Nat /\ Len(actions) > 0
      /\ \A i \in 1..Len(actions') : actions'[i] = actions[i + 1]
      /\ current' = actions[1]
  OBVIOUS
<1>2. \A i \in 1..Len(actions') : i + 1 \in 1..Len(actions)
  BY <1>1
<1>3. 1 \in 1..Len(actions)
  BY <1>1
<1>4. InOrder => InOrder'
  BY <1>1, <1>2 DEF InOrder
<1>5. InOrder /\ current' = Stop => AllSent'
  <2> SUFFICES ASSUME InOrder, current' = Stop, NEW i \in 1..Len(actions'), IsSend(actions'[i])
               PROVE  FALSE
    BY DEF AllSent
  <2>1. IsSend(actions[i + 1]) /\ i + 1 \in 1..Len(actions) /\ actions[1] = Stop
    BY <1>1, <1>2
  <2>2. i + 1 < 1
    BY <1>3, <2>1 DEF InOrder
  <2> QED
    BY <2>2, <1>1
<1>6. AllSent => AllSent'
  BY <1>1, <1>2 DEF AllSent
<1>7. StopIn' => StopIn
  BY EngineReceives DEF StopIn
<1> QED
  BY <1>4, <1>5, <1>6, <1>7

LEMMA QueueRests ==
  ASSUME UNCHANGED actions, current' \in {current, Idle}
  PROVE  /\ StopIn' => StopIn
         /\ InOrder' <=> InOrder
         /\ AllSent' <=> AllSent
<1>1. Stop # Idle
  BY DEF Stop, Idle
<1> QED
  BY <1>1 DEF StopIn, Pending, InOrder, AllSent

LEMMA QueueEmptied ==
  ASSUME actions' = <<>>, UNCHANGED current
  PROVE  StopIn' => StopIn
BY DEF StopIn, Pending

LEMMA NothingToStop ==
  ASSUME actions' = <<>>, current = Idle, UNCHANGED current
  PROVE  ~StopIn'
<1>1. Stop # Idle
  BY DEF Stop, Idle
<1> QED
  BY <1>1 DEF StopIn, Pending

LEMMA LifeInit == Init => LifeInv
<1> SUFFICES ASSUME Init PROVE LifeInv
  OBVIOUS
<1>1. ~StopIn
  BY EngineStarts, IdleIsNoAction DEF Init, StopIn
<1> QED
  BY <1>1 DEF Init, EngineInit, LifeInv, Parts, BuiltInv, TaskInv, LockInv, HandlerInv, CallerInv, StopInv

-----------------------------------------------------------------------------
(* The owner. *)

LEMMA InitKeeps ==
  ASSUME TypeInv, LifeInv,
         InitServer \/ InitQueue \/ InitNetif \/ InitTimer \/ InitTask \/ InitGivesUp
  PROVE  LifeInv'
<1>0. fate = "none" /\ Parts
  BY DEF LifeInv, OwnerIs, InitServer, InitQueue, InitNetif, InitTimer, InitTask, InitGivesUp
<1> USE DEF Parts, BuiltInv, TaskInv, LockInv, HandlerInv, CallerInv, StopInv, LifeInv, OwnerIs, GivesUp,
            env, life, own, cnt
<1>1. StopIn' => StopIn
  BY QueueRests, QueueEmptied
  DEF InitServer, InitQueue, InitNetif, InitTimer, InitTask, InitGivesUp, Undone, engineVars
<1>2. CASE InitServer \/ InitQueue \/ InitNetif \/ InitGivesUp
  <2>1. CASE InitServer
    BY <1>0, <1>1, <2>1 DEF InitServer, engineVars
  <2>2. CASE InitQueue
    BY <1>0, <1>1, <2>2 DEF InitQueue, engineVars
  <2>3. CASE InitNetif
    BY <1>0, <1>1, <2>3 DEF InitNetif
  <2>4. CASE InitGivesUp
    BY <1>0, <1>1, <2>4 DEF InitGivesUp, engineVars
  <2> QED
    BY <1>2, <2>1, <2>2, <2>3, <2>4
<1>3. CASE InitTimer
  BY <1>0, <1>1, <1>3 DEF InitTimer, Undone
<1>4. CASE InitTask
  BY <1>0, <1>1, <1>4 DEF InitTask, Undone
<1> QED
  BY <1>2, <1>3, <1>4

LEMMA FreeKeeps ==
  ASSUME TypeInv, LifeInv,
         FreeUnregisters \/ FreeRemoves \/ FreeTimer \/ FreeStops \/ FreeWaits
           \/ FreeDeletes \/ FreeDrains \/ FreeServer
  PROVE  LifeInv'
<1>0. fate = "none" /\ Parts /\ EngineOf(Actions) /\ lock \in {"none", "owner", "unregister"}
  BY DEF LifeInv, OwnerIs, TypeInv, EngineOK, DataOK, FreeUnregisters, FreeRemoves, FreeTimer, FreeStops,
         FreeWaits, FreeDeletes, FreeDrains, FreeServer
<1>r. ASSUME UNCHANGED <<actions, current>>
      PROVE  (StopIn' => StopIn) /\ (InOrder' <=> InOrder) /\ (AllSent' <=> AllSent)
  BY <1>r, QueueRests
<1> USE DEF Parts, BuiltInv, TaskInv, LockInv, HandlerInv, CallerInv, StopInv, LifeInv, OwnerIs,
            engineVars, env, life, own, cnt
<1>1. CASE FreeUnregisters
  BY <1>0, <1>1, <1>r DEF FreeUnregisters
<1>2. CASE FreeRemoves
  BY <1>0, <1>2, <1>r DEF FreeRemoves
<1>3. CASE FreeTimer
  BY <1>0, <1>3, <1>r DEF FreeTimer
<1>4. CASE FreeStops
  <2>1. ~StopIn /\ task = "runs"
    BY <1>0, <1>4 DEF FreeStops
  <2>2. CASE Room
    <3>1. InOrder' /\ current' # Stop
      BY <1>0, <1>4, <2>1, <2>2, PostsStop DEF FreeStops, Stop
    <3> QED
      BY <1>0, <1>4, <2>1, <2>2, <3>1 DEF FreeStops
  <2>3. CASE ~Room
    BY <1>0, <1>4, <1>r, <2>1, <2>3 DEF FreeStops
  <2> QED
    BY <2>2, <2>3
<1>5. CASE FreeWaits
  BY <1>0, <1>5, <1>r DEF FreeWaits
<1>6. CASE FreeDeletes
  <2>1. (StopIn' => StopIn) /\ (AllSent' <=> AllSent) /\ (InOrder' <=> InOrder)
    BY <1>6, QueueRests DEF FreeDeletes
  <2> QED
    BY <1>0, <1>6, <2>1 DEF FreeDeletes
<1>7. CASE FreeDrains
  <2>1. current = Idle /\ actions' = <<>> /\ UNCHANGED current
    BY <1>0, <1>7 DEF FreeDrains
  <2>2. ~StopIn'
    BY <2>1, NothingToStop
  <2>3. posted /\ ~late => AllSent
    BY <1>0, <1>7 DEF FreeDrains
  <2>4. AllSent => ~\E a \in Range(actions) : a.type = "TX_HANDLE"
    BY <1>0 DEF AllSent, IsSend, Range, EngineOf
  <2> QED
    BY <1>0, <1>7, <2>1, <2>2, <2>3, <2>4 DEF FreeDrains
<1>8. CASE FreeServer
  BY <1>0, <1>8, <1>r DEF FreeServer, GivesUp, Empty
<1> QED
  BY <1>1, <1>2, <1>3, <1>4, <1>5, <1>6, <1>7, <1>8

-----------------------------------------------------------------------------
(* The service task, the timer, the network and the callers. *)

LEMMA TaskKeeps ==
  ASSUME TypeInv, LifeInv, Task
  PROVE  LifeInv'
<1>0. fate = "none" /\ Parts /\ EngineOf(Actions) /\ current \in Actions \cup {Idle} /\ task = "runs"
  BY DEF LifeInv, Runs, TypeInv, EngineOK, EngineOf, Task, TaskReceives, TaskStops, TaskAnswers,
         TaskSends, TaskHandles
<1>1. CASE TaskReceives
  <2>1. /\ StopIn' => StopIn
        /\ InOrder => InOrder' /\ (current' = Stop => AllSent')
    BY <1>0, <1>1, ReceivesNext DEF TaskReceives
  <2>2. actions # <<>> /\ UNCHANGED lock
    BY <1>1 DEF TaskReceives, ServiceReceives
  <2> QED
    BY <1>0, <1>1, <2>1, <2>2
    DEF TaskReceives, Parts, BuiltInv, TaskInv, LockInv, HandlerInv, CallerInv, StopInv, LifeInv, env, life, own
<1>2. CASE TaskStops
  <2>1. current = Stop /\ current' = Idle
    BY <1>0, <1>2, IdleIsNoAction, ActionFields DEF TaskStops
  <2>2. (StopIn' => StopIn) /\ (InOrder' <=> InOrder) /\ (AllSent' <=> AllSent)
    BY <1>2, QueueRests DEF TaskStops
  <2>3. StopIn
    BY <1>0, <2>1, IdleIsNoAction, ActionsMade DEF StopIn, Pending
  <2> QED
    BY <1>0, <1>2, <2>1, <2>2, <2>3
    DEF TaskStops, Parts, BuiltInv, TaskInv, LockInv, HandlerInv, CallerInv, StopInv, LifeInv, env, life, own
<1>3. CASE TaskAnswers \/ TaskSends \/ TaskHandles
  <2>1. /\ current' = Idle
        /\ (StopIn' => StopIn) /\ (InOrder' <=> InOrder) /\ (AllSent' <=> AllSent)
    BY <1>3, QueueRests DEF TaskAnswers, TaskSends, TaskHandles, Executes
  <2>2. Stop # Idle
    BY DEF Stop, Idle
  <2>3. UNCHANGED <<actions, lock, life, env, task, caller, overlapped, fate>>
    BY <1>3 DEF TaskAnswers, TaskSends, TaskHandles, Executes, own
  <2> QED
    BY <1>0, <2>1, <2>2, <2>3
    DEF Parts, BuiltInv, TaskInv, LockInv, HandlerInv, CallerInv, StopInv, LifeInv, env, life
<1> QED
  BY <1>1, <1>2, <1>3 DEF Task

LEMMA TimerKeeps ==
  ASSUME TypeInv, LifeInv, TimerFires \/ TimerCallback
  PROVE  LifeInv'
<1>0. fate = "none" /\ Parts /\ EngineOf(Actions)
  BY DEF LifeInv, Runs, TypeInv, EngineOK, TimerFires, TimerCallback
<1>1. CASE TimerFires
  <2>1. (StopIn' => StopIn) /\ (InOrder' <=> InOrder) /\ (AllSent' <=> AllSent)
    BY <1>1, QueueRests DEF TimerFires, engineVars
  <2> QED
    BY <1>0, <1>1, <2>1
    DEF TimerFires, Parts, BuiltInv, TaskInv, LockInv, HandlerInv, CallerInv, StopInv, LifeInv, engineVars, life, own
<1>2. CASE TimerCallback
  <2>1. CASE UNCHANGED <<actions, tx>>
    <3>1. (StopIn' => StopIn) /\ (InOrder' <=> InOrder) /\ (AllSent' <=> AllSent)
      BY <1>2, <2>1, QueueRests DEF TimerCallback
    <3> QED
      BY <1>0, <1>2, <2>1, <3>1
      DEF TimerCallback, Parts, BuiltInv, TaskInv, LockInv, HandlerInv, CallerInv, StopInv, LifeInv, life, own
  <2>2. ASSUME NEW p \in Packets, Enqueue([type |-> "TX_HANDLE", packet |-> p]) PROVE LifeInv'
    <3>1. StopIn' => StopIn
      BY <1>0, <1>2, <2>2, ActionsMade, PostsOther DEF TimerCallback, Stop
    <3>2. owner \in {"up", "remove", "timer", "stop", "stopping", "delete"}
      BY <1>0, <1>2 DEF TimerCallback, TypeInv, DataOK, Parts, BuiltInv, LockInv
    <3>3. owner \in {"stop", "stopping", "delete"} => late
      BY <1>0, <1>2 DEF TimerCallback, Parts, LockInv
    <3> QED
      BY <1>0, <1>2, <3>1, <3>2, <3>3
      DEF TimerCallback, Parts, BuiltInv, TaskInv, LockInv, HandlerInv, CallerInv, StopInv, LifeInv, life, own
  <2> QED
    BY <1>2, <2>1, <2>2 DEF TimerCallback
<1> QED
  BY <1>1, <1>2

LEMMA NetworkKeeps ==
  ASSUME TypeInv, LifeInv, PacketComes \/ EventComes \/ EventMeetsNoQueue
  PROVE  LifeInv'
<1> SUFFICES ASSUME PacketComes \/ EventComes PROVE LifeInv'
  <2> SUFFICES ASSUME EventMeetsNoQueue PROVE LifeInv'
    OBVIOUS
  <2>1. /\ fate = "none" /\ fate' = "no queue" /\ UNCHANGED <<posted, late, overlapped, handlers>>
        /\ handlers # "none" /\ owner \in {"server", "undo"}
    BY DEF EventMeetsNoQueue, Runs, Handles, HasQueue, life, env, own
  <2>2. handlers = "left"
    BY <2>1 DEF LifeInv, Parts, HandlerInv, TypeInv, DataOK
  <2> QED
    BY <2>1, <2>2 DEF LifeInv
<1>1. PICK type \in {"RX_HANDLE", "SYSTEM_EVENT"} :
        /\ Posts(type)
        /\ owner \notin {"down", "server", "undo", "free"}
  <2>1. CASE PacketComes
    BY <2>1 DEF PacketComes, Posts, Runs, LifeInv, Parts, BuiltInv
  <2>2. CASE EventComes
    BY <2>2 DEF EventComes, Handles, HasQueue, Posts, Runs, TypeInv, DataOK, LifeInv, Parts, BuiltInv, HandlerInv
  <2> QED
    BY <2>1, <2>2
<1>0. fate = "none" /\ Parts /\ EngineOf(Actions)
  BY <1>1 DEF LifeInv, Runs, TypeInv, EngineOK, Posts
<1>2. /\ StopIn' => StopIn
      /\ InOrder => InOrder'
      /\ AllSent => AllSent'
  <2>1. [type |-> type] \in Actions /\ [type |-> type] # Stop /\ ~IsSend([type |-> type])
    BY ActionsMade DEF Stop, IsSend
  <2> QED
    BY <1>0, <1>1, <2>1, PostsOther DEF Posts
<1> QED
  BY <1>0, <1>1, <1>2
  DEF Posts, Parts, BuiltInv, TaskInv, LockInv, HandlerInv, CallerInv, StopInv, LifeInv, env, life, own

LEMMA CallersKeep ==
  ASSUME TypeInv, LifeInv, NEW c \in Callers,
         (\E type \in Waited : CallerCalls(c, type)) \/ CallerWaits(c) \/ CallerReturns(c)
  PROVE  LifeInv'
<1>0. fate = "none" /\ Parts /\ EngineOf(Actions) /\ caller \in [Callers -> {"idle", "posted", "waits"}]
  BY DEF LifeInv, Runs, TypeInv, EngineOK, DataOK, CallerCalls, CallerWaits, CallerReturns
<1>1. ASSUME NEW type \in Waited, CallerCalls(c, type) PROVE LifeInv'
  <2>1. [type |-> type, caller |-> c] \in Actions /\ [type |-> type, caller |-> c] # Stop
    BY ActionsMade DEF Stop, Waited
  <2>2. StopIn' => StopIn
    BY <1>0, <1>1, <2>1, PostsOther DEF CallerCalls
  <2> QED
    BY <1>0, <1>1, <2>2
    DEF CallerCalls, Parts, BuiltInv, TaskInv, LockInv, HandlerInv, CallerInv, StopInv, LifeInv, env, life
<1>2. CASE CallerWaits(c) \/ CallerReturns(c)
  <2>1. (StopIn' => StopIn) /\ (InOrder' <=> InOrder) /\ (AllSent' <=> AllSent)
    BY <1>2, QueueRests DEF CallerWaits, CallerReturns, engineVars
  <2>2. caller[c] # "idle" /\ (given' => given)
    BY <1>2 DEF CallerWaits, CallerReturns
  <2>3. UNCHANGED <<engineVars, life, env, task, tx, overlapped, fate>>
    BY <1>2 DEF CallerWaits, CallerReturns
  <2> QED
    BY <1>0, <2>1, <2>2, <2>3
    DEF Parts, BuiltInv, TaskInv, LockInv, HandlerInv, CallerInv, StopInv, LifeInv, engineVars, env, life
<1> QED
  BY <1>1, <1>2

LEMMA RestKeeps ==
  ASSUME TypeInv, LifeInv, mdns_register_netif \/ mdns_unregister_netif \/ UNCHANGED vars
  PROVE  LifeInv'
<1>1. (StopIn' => StopIn) /\ (InOrder' <=> InOrder) /\ (AllSent' <=> AllSent)
  BY QueueRests DEF mdns_register_netif, mdns_unregister_netif, vars, engineVars
<1>2. CASE mdns_register_netif \/ UNCHANGED vars
  <2>1. UNCHANGED <<engineVars, life, wired, handlers, timer, fires, task, tx, own, fate>>
    BY <1>2 DEF mdns_register_netif, vars, env
  <2> QED
    BY <1>1, <2>1
    DEF Parts, BuiltInv, TaskInv, LockInv, HandlerInv, CallerInv, StopInv, LifeInv, engineVars, life, own
<1>3. CASE mdns_unregister_netif
  BY <1>1, <1>3
  DEF mdns_unregister_netif, Runs, Parts, BuiltInv, TaskInv, LockInv, HandlerInv, CallerInv, StopInv, LifeInv,
      env, life, own
<1> QED
  BY <1>2, <1>3

LEMMA LifeStep == TypeInv /\ LifeInv /\ [Next]_vars => LifeInv'
BY InitKeeps, FreeKeeps, TaskKeeps, TimerKeeps, NetworkKeeps, CallersKeep, RestKeeps DEF Next, Owner

(* A free that told the task to stop, with no callback under way and no     *)
(* overlapping calls, frees everything once and takes neither the task nor  *)
(* the lock from under anybody; what is down leaves nothing behind.  The    *)
(* event handlers that an mdns_init that failed does not unregister are     *)
(* excepted, and what one of them does to a queue that is not there.        *)
THEOREM FreedOnce == Spec => []FreesOnce
<1>1. TypeInv /\ LifeInv => FreesOnce
  BY DEF FreesOnce, LifeInv, Parts, BuiltInv, TaskInv, LockInv, HandlerInv, TypeInv, DataOK
<1>2. TypeInv /\ LifeInv /\ [Next]_vars => TypeInv' /\ LifeInv'
  BY TypeStep, LifeStep
<1> QED
  BY <1>1, <1>2, TypeInit, LifeInit, PTL DEF Spec
=============================================================================
