--------------------------- MODULE MdnsQuerierProofs ---------------------------
(***************************************************************************)
(* Types and safety of MdnsQuerier, and that its searches implement        *)
(* OneShotQuery, proved for every value of its constants.  The safety      *)
(* results are those for careful callers and complete answers.             *)
(***************************************************************************)
EXTENDS MdnsQuerier, MdnsServiceProofs

USE QueueLenAssumption, QuerierAssumption

QuerierActions == SearchActions \cup RxActions

Adds(s) == Action("SEARCH_ADD", s)
Ends(s) == Action("SEARCH_END", s)

-----------------------------------------------------------------------------
(* Facts about actions. *)

LEMMA IdleIsNoAction == Idle \notin QuerierActions /\ Idle.type = "IDLE"
BY DEF Idle, QuerierActions, SearchActions, RxActions

LEMMA ActionsMade ==
  /\ \A s \in Searches : /\ Adds(s) \in QuerierActions /\ Ends(s) \in QuerierActions
                         /\ Action("SEARCH_SEND", s) \in QuerierActions
  /\ \A k \in PacketKinds : [type |-> "RX_HANDLE", packet |-> k] \in QuerierActions
BY DEF QuerierActions, SearchActions, RxActions, Adds, Ends, Action

LEMMA ActionFields ==
  ASSUME NEW a \in QuerierActions
  PROVE  /\ a.type = "SEARCH_ADD" => a.search \in Searches /\ a = Adds(a.search)
         /\ a.type = "SEARCH_END" => a.search \in Searches /\ a = Ends(a.search)
         /\ a.type = "SEARCH_SEND" => a.search \in Searches
         /\ a.type = "RX_HANDLE" => a.packet \in PacketKinds
BY DEF QuerierActions, SearchActions, RxActions, Adds, Ends, Action

LEMMA ActionsApart ==
  /\ \A r, s : Adds(r) = Adds(s) => r = s
  /\ \A r, s : Ends(r) = Ends(s) => r = s
  /\ \A r, s : Adds(r) # Ends(s)
  /\ \A s : Adds(s).type = "SEARCH_ADD" /\ Ends(s).type = "SEARCH_END"
BY DEF Adds, Ends, Action

-----------------------------------------------------------------------------
(* Types. *)

(* What the data are, apart from the engine. *)
DataOK ==
  /\ lock \in {"none", "timer"}
  /\ mem \in [Searches -> {"free", "live"}]
  /\ state \in [Searches -> SearchStates]
  /\ num_results \in [Searches -> Nat]
  /\ max_results \in [Searches -> MaxResults \cup {0}]
  /\ done \in [Searches -> BOOLEAN]
  /\ expired \in [Searches -> BOOLEAN]
  /\ s_search_once \in SUBSET Searches
  /\ timer_todo \in SUBSET Searches
  /\ stopping \in Searches \cup {NULL}
  /\ caller_pc \in [Callers -> {"idle", "blocked", "open", "ended", "deleting"}]
  /\ handle \in [Callers -> Searches \cup {NULL}]
  /\ queries \in 0..MaxQueries
  /\ packets \in 0..MaxPackets

EngineOK == EngineOf(QuerierActions) /\ Len(actions) <= QueueLen

TypeInv == EngineOK /\ DataOK

LEMMA NumbersOf ==
  ASSUME DataOK, NEW s \in Searches
  PROVE  num_results[s] \in Nat /\ max_results[s] \in Nat /\ Limit(s) \in Nat
<1>1. num_results[s] \in Nat /\ max_results[s] \in MaxResults \cup {0}
  BY DEF DataOK
<1>2. MaxResults \cup {0} \subseteq Nat
  OBVIOUS
<1> QED
  BY <1>1, <1>2 DEF Limit

LEMMA TypesAre == TypeInv <=> TypeOK
BY IdleIsNoAction DEF TypeInv, TypeOK, DataOK, EngineOK, EngineOf, QuerierActions

LEMMA TypeInit == Init => TypeInv
<1> SUFFICES ASSUME Init PROVE TypeInv
  OBVIOUS
<1>1. EngineOK
  BY EngineStarts, IdleIsNoAction DEF Init, EngineOK
<1>2. DataOK
  BY DEF Init, EngineInit, DataOK, SearchStates
<1> QED
  BY <1>1, <1>2 DEF TypeInv

(* The steps that touch the queue. *)
LEMMA EngineStep == TypeInv /\ [Next]_vars => EngineOK'
<1> SUFFICES ASSUME TypeInv, [Next]_vars PROVE EngineOK'
  OBVIOUS
<1>0. EngineOf(QuerierActions) /\ Len(actions) \in Nat /\ Len(actions) <= QueueLen
  BY DEF TypeInv, EngineOK, EngineOf
<1>1. ASSUME NEW a \in QuerierActions, Room, Enqueue(a), UNCHANGED current PROVE EngineOK'
  BY <1>0, <1>1, EnginePosts DEF EngineOK, Room
<1>2. ASSUME UNCHANGED <<actions, current>> PROVE EngineOK'
  BY <1>0, <1>2, EngineRests DEF EngineOK
<1>3. ASSUME ServiceReceives PROVE EngineOK'
  BY <1>0, <1>3, EngineReceives DEF EngineOK
<1>4. ASSUME current' = Idle, UNCHANGED actions PROVE EngineOK'
  BY <1>0, <1>4 DEF EngineOK, EngineOf
<1>5. CASE Service
  BY <1>3, <1>4, <1>5 DEF Service, search_add, search_send, search_end, mdns_parse_packet, Executes
<1>6. CASE Timer
  <2>1. ASSUME TimerPostsEnd PROVE EngineOK'
    <3>1. stopping \in Searches
      BY <2>1 DEF TimerPostsEnd, TypeInv, DataOK
    <3> QED
      BY <1>1, <1>2, <2>1, <3>1, ActionsMade DEF TimerPostsEnd, Ends
  <2>2. ASSUME NEW s \in Searches, TimerPostsSend(s) PROVE EngineOK'
    BY <1>1, <1>2, <2>2, ActionsMade DEF TimerPostsSend
  <2>3. ASSUME TimerTakesLock \/ TimerReleases \/ \E s \in Searches : TimerPasses(s) \/ TimerStops(s)
        PROVE  EngineOK'
    BY <1>2, <2>3 DEF TimerTakesLock, TimerReleases, TimerPasses, TimerStops, engineVars
  <2> QED
    BY <1>6, <2>1, <2>2, <2>3 DEF Timer
<1>7. CASE PacketArrives
  BY <1>1, <1>7, ActionsMade DEF PacketArrives
<1>8. ASSUME NEW s \in Searches, Expire(s) PROVE EngineOK'
  BY <1>2, <1>8 DEF Expire, engineVars
<1>9. ASSUME NEW c \in Callers, Calls(c) PROVE EngineOK'
  BY <1>1, <1>2, <1>9, ActionsMade
  DEF Calls, mdns_query_generic, mdns_query_async_new, StartsQuery, Adds
<1>10. ASSUME NEW c \in Callers, Returns(c) PROVE EngineOK'
  BY <1>2, <1>10
  DEF Returns, BlockedCallerReturns, GetsResults, DeleteChecks, DeleteFrees, engineVars
<1>11. CASE UNCHANGED vars
  BY <1>2, <1>11 DEF vars, engineVars
<1> QED
  BY <1>5, <1>6, <1>7, <1>8, <1>9, <1>10, <1>11 DEF Next

LEMMA DataStep == TypeInv /\ [Next]_vars => DataOK'
<1> SUFFICES ASSUME TypeInv, [Next]_vars PROVE DataOK'
  OBVIOUS
<1> USE DEF DataOK, TypeInv, SearchStates, engineVars, searchVars, timerVars, callerVars
<1>1. CASE ServiceReceives /\ UNCHANGED <<searchVars, timerVars, callerVars, packets>>
  BY <1>1 DEF ServiceReceives
<1>2. CASE search_add
  <2>1. current.search \in Searches
    BY <1>2, IdleIsNoAction, ActionFields DEF search_add, Executes, EngineOK, EngineOf
  <2> QED
    BY <1>2, <2>1 DEF search_add, Executes
<1>3. CASE search_send
  BY <1>3 DEF search_send, Executes
<1>4. CASE search_end
  BY <1>4 DEF search_end, Executes, SearchFinish
<1>5. CASE mdns_parse_packet
  <2>1. PICK S \in SUBSET Active :
          /\ num_results' = [s \in Searches |-> CountAfter(s, S)]
          /\ SearchFinish(IF current.packet = "complete" THEN Full(num_results') ELSE {})
    BY <1>5 DEF mdns_parse_packet
  <2>2. \A s \in Searches : CountAfter(s, S) \in Nat
    BY DEF CountAfter
  <2> QED
    BY <1>5, <2>1, <2>2 DEF mdns_parse_packet, Executes, SearchFinish
<1>6. CASE TimerTakesLock \/ TimerReleases \/ TimerPostsEnd
  BY <1>6 DEF TimerTakesLock, TimerReleases, TimerPostsEnd
<1>7. ASSUME NEW s \in Searches, TimerPasses(s) \/ TimerStops(s) \/ TimerPostsSend(s) PROVE DataOK'
  BY <1>7 DEF TimerPasses, TimerStops, TimerPostsSend, Scans
<1>8. CASE PacketArrives
  BY <1>8 DEF PacketArrives
<1>9. ASSUME NEW s \in Searches, Expire(s) PROVE DataOK'
  BY <1>9 DEF Expire
<1>10. ASSUME NEW c \in Callers, Calls(c) PROVE DataOK'
  <2>1. PICK s \in Searches, n \in MaxResults, pc \in {"blocked", "open"} : StartsQuery(c, s, n, pc)
    BY <1>10 DEF Calls, mdns_query_generic, mdns_query_async_new
  <2>2. queries' \in 0..MaxQueries
    BY <2>1 DEF StartsQuery
  <2>3. CASE UNCHANGED <<mem, state, num_results, max_results, done, expired, caller_pc, handle>>
    BY <2>1, <2>2, <2>3 DEF StartsQuery
  <2>4. CASE Room
    <3> USE <2>1, <2>4 DEF StartsQuery
    <3>1. /\ mem' \in [Searches -> {"free", "live"}]
          /\ state' \in [Searches -> SearchStates]
          /\ num_results' \in [Searches -> Nat]
          /\ max_results' \in [Searches -> MaxResults \cup {0}]
      OBVIOUS
    <3>2. done' \in [Searches -> BOOLEAN] /\ expired' \in [Searches -> BOOLEAN]
      OBVIOUS
    <3>3. /\ caller_pc' \in [Callers -> {"idle", "blocked", "open", "ended", "deleting"}]
          /\ handle' \in [Callers -> Searches \cup {NULL}]
      OBVIOUS
    <3>4. UNCHANGED <<lock, s_search_once, timer_todo, stopping, packets>>
      OBVIOUS
    <3> QED
      BY <2>2, <3>1, <3>2, <3>3, <3>4
  <2> QED
    BY <2>1, <2>3, <2>4 DEF StartsQuery
<1>11. ASSUME NEW c \in Callers, Returns(c) PROVE DataOK'
  <2>1. ASSUME search_free(c), UNCHANGED engineVars, done' \in [Searches -> BOOLEAN] PROVE DataOK'
    BY <2>1 DEF search_free
  <2>2. CASE BlockedCallerReturns(c)
    BY <2>1, <2>2 DEF BlockedCallerReturns
  <2>3. CASE GetsResults(c)
    BY <2>3 DEF GetsResults
  <2>4. CASE DeleteChecks(c)
    BY <2>4 DEF DeleteChecks
  <2>5. CASE DeleteFrees(c)
    BY <2>1, <2>5 DEF DeleteFrees
  <2> QED
    BY <1>11, <2>2, <2>3, <2>4, <2>5 DEF Returns
<1>12. CASE UNCHANGED vars
  BY <1>12 DEF vars
<1> QED
  BY <1>1, <1>2, <1>3, <1>4, <1>5, <1>6, <1>7, <1>8, <1>9, <1>10, <1>11, <1>12
  DEF Next, Service, Timer

LEMMA TypeStep == TypeInv /\ [Next]_vars => TypeInv'
BY EngineStep, DataStep DEF TypeInv

(* Every state is one of a querier, however careless its callers are. *)
THEOREM TypeCorrect == Spec => []TypeOK
<1>1. Spec => []TypeInv
  BY TypeInit, TypeStep, PTL DEF Spec
<1> QED
  BY <1>1, TypesAre, PTL

-----------------------------------------------------------------------------
(* Safety, for callers that delete a search only after it has ended, and    *)
(* answers that are complete.                                               *)

Orderly == Careful = TRUE /\ PacketKinds \subseteq {"complete"}

(* The searches that are about to be linked, and about to be finished.      *)
Adding == {s \in Searches : Adds(s) \in Pending}
Ending == {s \in Searches : Ends(s) \in Pending}

(* No action is queued twice, and the timer's hands are empty without the   *)
(* lock.                                                                    *)
EngineInv ==
  /\ \A s \in Searches : Once(Adds(s)) /\ Once(Ends(s))
  /\ lock = "none" => timer_todo = {} /\ stopping = NULL
  /\ timer_todo \subseteq s_search_once

(* Each allocated search has one caller, who holds nothing else.            *)
HandleInv ==
  /\ \A c \in Callers : caller_pc[c] = "idle" <=> handle[c] = NULL
  /\ \A c, d \in Callers : handle[c] = handle[d] /\ handle[c] # NULL => c = d
  /\ \A s \in Searches : mem[s] = "live" <=> \E c \in Callers : handle[c] = s

(* Its caller has not seen it end. *)
Open(s) == \A c \in Callers : handle[c] = s => caller_pc[c] \in {"blocked", "open"}

(* A search is added once, then listed, ended once and deleted: how far it  *)
(* is says what still points to it.                                         *)
SearchInv ==
  /\ \A s \in Adding :
       /\ mem[s] = "live" /\ Open(s) /\ ~done[s] /\ s \notin s_search_once
       /\ state[s] = "SEARCH_INIT" /\ num_results[s] = 0
  /\ \A s \in s_search_once :
       /\ mem[s] = "live" /\ Open(s) /\ ~done[s] /\ Wants(s)
       /\ state[s] = "SEARCH_OFF" => s = stopping \/ s \in Ending
  /\ \A s \in Searches :
       s \in Ending \/ s = stopping => s \in s_search_once /\ state[s] = "SEARCH_OFF" /\ expired[s]
  /\ stopping \notin Ending

QuerierInv == EngineInv /\ HandleInv /\ SearchInv

-----------------------------------------------------------------------------
(* What steps of the queue mean to Adding and Ending. *)

OnceEach == \A s \in Searches : Once(Adds(s)) /\ Once(Ends(s))

LEMMA PostsAdd ==
  ASSUME EngineOf(QuerierActions), OnceEach, NEW s \in Searches \ Adding,
         Enqueue(Adds(s)), UNCHANGED current
  PROVE  Adding' = Adding \cup {s} /\ Ending' = Ending /\ OnceEach'
<1>1. Adds(s) \notin Pending /\ Adds(s) \in QuerierActions
  BY ActionsMade DEF Adding
<1>2. /\ Pending' = Pending \cup {Adds(s)}
      /\ \A b \in QuerierActions : Once(b) /\ (b = Adds(s) => Adds(s) \notin Pending) => Once(b)'
  BY <1>1, EnginePosts
<1>3. OnceEach'
  BY <1>1, <1>2, ActionsMade DEF OnceEach
<1> QED
  BY <1>2, <1>3, ActionsApart DEF Adding, Ending

LEMMA PostsEnd ==
  ASSUME EngineOf(QuerierActions), OnceEach, NEW s \in Searches \ Ending,
         Enqueue(Ends(s)), UNCHANGED current
  PROVE  Adding' = Adding /\ Ending' = Ending \cup {s} /\ OnceEach'
<1>1. Ends(s) \notin Pending /\ Ends(s) \in QuerierActions
  BY ActionsMade DEF Ending
<1>2. /\ Pending' = Pending \cup {Ends(s)}
      /\ \A b \in QuerierActions : Once(b) /\ (b = Ends(s) => Ends(s) \notin Pending) => Once(b)'
  BY <1>1, EnginePosts
<1>3. OnceEach'
  BY <1>1, <1>2, ActionsMade DEF OnceEach
<1> QED
  BY <1>2, <1>3, ActionsApart DEF Adding, Ending

LEMMA PostsOther ==
  ASSUME EngineOf(QuerierActions), OnceEach, NEW a \in QuerierActions, Enqueue(a),
         UNCHANGED current, a.type \notin {"SEARCH_ADD", "SEARCH_END"}
  PROVE  Adding' = Adding /\ Ending' = Ending /\ OnceEach'
<1>1. \A s : a # Adds(s) /\ a # Ends(s)
  BY ActionsApart
<1>2. /\ Pending' = Pending \cup {a}
      /\ \A b \in QuerierActions : Once(b) /\ b # a => Once(b)'
  BY EnginePosts
<1>3. OnceEach'
  BY <1>1, <1>2, ActionsMade DEF OnceEach
<1> QED
  BY <1>1, <1>2, <1>3 DEF Adding, Ending

LEMMA QueueKept ==
  ASSUME EngineOf(QuerierActions), OnceEach,
         ServiceReceives \/ UNCHANGED <<actions, current>>
  PROVE  Adding' = Adding /\ Ending' = Ending /\ OnceEach'
<1>1. Pending' = Pending /\ \A b \in QuerierActions : Once(b) => Once(b)'
  BY EngineReceives, EngineRests
<1> QED
  BY <1>1, ActionsMade DEF OnceEach, Adding, Ending

LEMMA ExecutesOnce ==
  ASSUME EngineOf(QuerierActions), OnceEach, current \in QuerierActions,
         current' = Idle, UNCHANGED actions
  PROVE  /\ Adding' = {s \in Adding : Adds(s) # current}
         /\ Ending' = {s \in Ending : Ends(s) # current}
         /\ current \in Pending
         /\ OnceEach'
<1>1. /\ Pending = Pending' \cup {current}
      /\ Once(current) => current \notin Pending'
      /\ \A b \in QuerierActions : Once(b) => Once(b)'
  BY EngineExecutes
<1> QED
  BY <1>1, ActionsMade DEF OnceEach, Adding, Ending

LEMMA QuerierInit == Init => QuerierInv
<1> SUFFICES ASSUME Init PROVE QuerierInv
  OBVIOUS
<1>1. OnceEach /\ Adding = {} /\ Ending = {}
  BY EngineStarts, IdleIsNoAction DEF Init, OnceEach, Adding, Ending
<1> QED
  BY <1>1 DEF Init, OnceEach, QuerierInv, EngineInv, HandleInv, SearchInv

-----------------------------------------------------------------------------
(* Callers. *)

LEMMA CallsKeep ==
  ASSUME TypeInv, QuerierInv, NEW c \in Callers, Calls(c)
  PROVE  QuerierInv'
<1>0. EngineOf(QuerierActions) /\ OnceEach /\ DataOK
  BY DEF TypeInv, EngineOK, QuerierInv, EngineInv, OnceEach
<1>1. PICK s \in Searches, n \in MaxResults, pc \in {"blocked", "open"} : StartsQuery(c, s, n, pc)
  BY DEF Calls, mdns_query_generic, mdns_query_async_new
<1>2. CASE ~Room
  <2>1. Adding' = Adding /\ Ending' = Ending /\ OnceEach'
    BY <1>0, <1>1, <1>2, QueueKept DEF StartsQuery
  <2> QED
    BY <1>1, <1>2, <2>1
    DEF StartsQuery, timerVars, QuerierInv, EngineInv, HandleInv, SearchInv, OnceEach, Open, Wants, Limit
<1>3. CASE Room
  <2>1. handle[c] = NULL /\ mem[s] = "free" /\ \A d \in Callers : handle[d] # s
    BY <1>0, <1>1 DEF StartsQuery, QuerierInv, HandleInv, DataOK
  <2>2. s \notin Adding /\ s \notin s_search_once /\ s \notin Ending /\ s # stopping
    BY <2>1 DEF QuerierInv, SearchInv
  <2>3. Adding' = Adding \cup {s} /\ Ending' = Ending /\ OnceEach'
    BY <1>0, <1>1, <1>3, <2>2, PostsAdd DEF StartsQuery, Adds
  <2>4. UNCHANGED <<lock, s_search_once, timer_todo, stopping>>
    BY <1>1 DEF StartsQuery, timerVars
  <2>5. \A r \in Searches : r # s =>
          UNCHANGED <<mem[r], state[r], num_results[r], max_results[r], done[r], expired[r]>>
    BY <1>0, <1>1, <1>3 DEF StartsQuery, DataOK
  <2>6. mem'[s] = "live" /\ state'[s] = "SEARCH_INIT" /\ num_results'[s] = 0 /\ ~done'[s]
    BY <1>0, <1>1, <1>3 DEF StartsQuery, DataOK
  <2>7. \A d \in Callers : /\ handle'[d] = IF d = c THEN s ELSE handle[d]
                           /\ caller_pc'[d] = IF d = c THEN pc ELSE caller_pc[d]
    BY <1>0, <1>1, <1>3 DEF StartsQuery, DataOK
  <2>8. EngineInv'
    BY <2>3, <2>4 DEF QuerierInv, EngineInv, OnceEach
  <2>9. HandleInv'
    BY <2>1, <2>5, <2>6, <2>7 DEF QuerierInv, HandleInv
  <2>10. \A r \in Searches : Open(r) /\ r # s => Open(r)'
    BY <2>7 DEF Open
  <2>11. Open(s)'
    BY <2>1, <2>7 DEF Open
  <2>12. SearchInv'
    BY <1>0, <2>2, <2>3, <2>4, <2>5, <2>6, <2>10, <2>11
    DEF QuerierInv, SearchInv, Wants, Limit, Adding, Ending, DataOK
  <2> QED
    BY <2>8, <2>9, <2>12 DEF QuerierInv
<1> QED
  BY <1>2, <1>3

(* A search whose caller frees it, or has seen it end, is pointed to by     *)
(* nobody.                                                                  *)
LEMMA NobodyPoints ==
  ASSUME QuerierInv, NEW c \in Callers, NEW s \in Searches, handle[c] = s,
         caller_pc[c] \notin {"blocked", "open"} \/ done[s]
  PROVE  s \notin s_search_once /\ s \notin Adding /\ s \notin Ending /\ s # stopping
BY DEF QuerierInv, SearchInv, Open

LEMMA FreesKeep ==
  ASSUME TypeInv, QuerierInv, NEW c \in Callers, search_free(c), UNCHANGED engineVars,
         caller_pc[c] # "idle",
         caller_pc[c] \notin {"blocked", "open"} \/ done[handle[c]],
         \A r \in Searches : r # handle[c] => done'[r] = done[r]
  PROVE  QuerierInv'
<1>0. EngineOf(QuerierActions) /\ OnceEach /\ DataOK
  BY DEF TypeInv, EngineOK, QuerierInv, EngineInv, OnceEach
<1>1. PICK s \in Searches : s = handle[c]
  BY <1>0 DEF QuerierInv, HandleInv, DataOK
<1>2. s \notin s_search_once /\ s \notin Adding /\ s \notin Ending /\ s # stopping
  BY <1>1, NobodyPoints
<1>3. Adding' = Adding /\ Ending' = Ending /\ OnceEach'
  BY <1>0, QueueKept DEF engineVars
<1>4. UNCHANGED <<lock, s_search_once, timer_todo, stopping, state, num_results, max_results, expired>>
  BY DEF search_free, engineVars, timerVars
<1>5. /\ \A r \in Searches : mem'[r] = IF r = s THEN "free" ELSE mem[r]
      /\ \A d \in Callers : /\ handle'[d] = IF d = c THEN NULL ELSE handle[d]
                            /\ caller_pc'[d] = IF d = c THEN "idle" ELSE caller_pc[d]
  BY <1>0, <1>1 DEF search_free, DataOK
<1>6. EngineInv'
  BY <1>3, <1>4 DEF QuerierInv, EngineInv, OnceEach
<1>7. HandleInv'
  BY <1>1, <1>5 DEF QuerierInv, HandleInv
<1>8. \A r \in Searches : Open(r) /\ r # s => Open(r)'
  BY <1>1, <1>5 DEF Open
<1>9. SearchInv'
  BY <1>0, <1>1, <1>2, <1>3, <1>4, <1>5, <1>8
  DEF QuerierInv, SearchInv, Wants, Limit, Adding, Ending, DataOK
<1> QED
  BY <1>6, <1>7, <1>9 DEF QuerierInv

LEMMA ReturnsKeep ==
  ASSUME Orderly, TypeInv, QuerierInv, NEW c \in Callers, Returns(c)
  PROVE  QuerierInv'
<1>0. EngineOf(QuerierActions) /\ OnceEach /\ DataOK
  BY DEF TypeInv, EngineOK, QuerierInv, EngineInv, OnceEach
<1>1. CASE BlockedCallerReturns(c)
  BY <1>0, <1>1, FreesKeep DEF BlockedCallerReturns, DataOK
<1>2. CASE DeleteFrees(c)
  BY <1>2, FreesKeep DEF DeleteFrees
<1>3. ASSUME UNCHANGED <<engineVars, mem, state, num_results, max_results, expired,
                         s_search_once, timerVars, handle>>,
             NEW pc \in {"ended", "deleting"},
             caller_pc' = [caller_pc EXCEPT ![c] = pc],
             \A r \in Searches : r # handle[c] => done'[r] = done[r],
             caller_pc[c] # "idle",
             caller_pc[c] \notin {"blocked", "open"} \/ done[handle[c]]
      PROVE  QuerierInv'
  <2>1. PICK s \in Searches : s = handle[c]
    BY <1>0, <1>3 DEF QuerierInv, HandleInv, DataOK
  <2>2. s \notin s_search_once /\ s \notin Adding /\ s \notin Ending /\ s # stopping
    BY <1>3, <2>1, NobodyPoints
  <2>3. Adding' = Adding /\ Ending' = Ending /\ OnceEach'
    BY <1>0, <1>3, QueueKept DEF engineVars
  <2>4. \A d \in Callers : caller_pc'[d] = IF d = c THEN pc ELSE caller_pc[d]
    BY <1>0, <1>3 DEF DataOK
  <2>5. EngineInv'
    BY <1>3, <2>3 DEF QuerierInv, EngineInv, OnceEach, engineVars, timerVars
  <2>6. HandleInv'
    BY <1>3, <2>4 DEF QuerierInv, HandleInv
  <2>7. \A r \in Searches : Open(r) /\ r # s => Open(r)'
    BY <1>3, <2>1, <2>4 DEF Open
  <2>8. SearchInv'
    BY <1>0, <1>3, <2>1, <2>2, <2>3, <2>7
    DEF QuerierInv, SearchInv, Wants, Limit, Adding, Ending, DataOK, timerVars
  <2> QED
    BY <2>5, <2>6, <2>8 DEF QuerierInv
<1>4. CASE GetsResults(c)
  BY <1>0, <1>3, <1>4 DEF GetsResults, DataOK
<1>5. CASE DeleteChecks(c)
  BY <1>3, <1>5 DEF DeleteChecks, Orderly, searchVars
<1> QED
  BY <1>1, <1>2, <1>4, <1>5 DEF Returns

-----------------------------------------------------------------------------
(* The timer. *)

LEMMA TimerKeeps ==
  ASSUME TypeInv, QuerierInv, Timer
  PROVE  QuerierInv'
<1>0. EngineOf(QuerierActions) /\ OnceEach /\ DataOK
  BY DEF TypeInv, EngineOK, QuerierInv, EngineInv, OnceEach
<1> USE DEF QuerierInv, EngineInv, SearchInv, OnceEach
<1>a. ASSUME UNCHANGED callerVars, UNCHANGED mem PROVE HandleInv'
  BY <1>a DEF HandleInv, callerVars
<1>b. ASSUME UNCHANGED callerVars PROVE \A s \in Searches : Open(s)' = Open(s)
  BY <1>b DEF Open, callerVars
<1>1. CASE TimerTakesLock
  <2>1. Adding' = Adding /\ Ending' = Ending /\ OnceEach'
    BY <1>0, <1>1, QueueKept DEF TimerTakesLock
  <2> QED
    BY <1>0, <1>1, <1>a, <1>b, <2>1
    DEF TimerTakesLock, searchVars, Wants, Limit, Adding, Ending, DataOK
<1>2. CASE TimerReleases
  <2>1. Adding' = Adding /\ Ending' = Ending /\ OnceEach'
    BY <1>0, <1>2, QueueKept DEF TimerReleases
  <2> QED
    BY <1>0, <1>2, <1>a, <1>b, <2>1
    DEF TimerReleases, searchVars, timerVars, Wants, Limit, Adding, Ending, DataOK
<1>3. CASE TimerPostsEnd
  <2>1. PICK s \in Searches : s = stopping
    BY <1>0, <1>3 DEF TimerPostsEnd, DataOK
  <2>2. s \in s_search_once /\ state[s] = "SEARCH_OFF" /\ expired[s] /\ s \notin Ending /\ s \notin Adding
    BY <2>1
  <2>3. /\ UNCHANGED <<lock, timer_todo, mem, num_results, max_results, done, expired, s_search_once>>
        /\ stopping' = NULL /\ UNCHANGED callerVars
    BY <1>3 DEF TimerPostsEnd
  <2>4. CASE Room
    <3>1. Adding' = Adding /\ Ending' = Ending \cup {s} /\ OnceEach'
      BY <1>0, <1>3, <2>1, <2>2, <2>4, PostsEnd DEF TimerPostsEnd, Ends
    <3>2. UNCHANGED state
      BY <1>3, <2>4 DEF TimerPostsEnd
    <3> QED
      BY <1>0, <1>a, <1>b, <2>1, <2>2, <2>3, <3>1, <3>2 DEF Wants, Limit, Adding, Ending, DataOK
  <2>5. CASE ~Room
    <3>1. Adding' = Adding /\ Ending' = Ending /\ OnceEach'
      BY <1>0, <1>3, <2>5, QueueKept DEF TimerPostsEnd
    <3>2. \A r \in Searches : state'[r] = IF r = s THEN "SEARCH_RUNNING" ELSE state[r]
      BY <1>0, <1>3, <2>1, <2>5 DEF TimerPostsEnd, DataOK
    <3> QED
      BY <1>0, <1>a, <1>b, <2>1, <2>2, <2>3, <3>1, <3>2 DEF Wants, Limit, Adding, Ending, DataOK
  <2> QED
    BY <2>4, <2>5
<1>4. ASSUME NEW s \in Searches, TimerPasses(s) PROVE QuerierInv'
  <2>1. Adding' = Adding /\ Ending' = Ending /\ OnceEach'
    BY <1>0, <1>4, QueueKept DEF TimerPasses, engineVars
  <2> QED
    BY <1>0, <1>4, <1>a, <1>b, <2>1
    DEF TimerPasses, Scans, engineVars, searchVars, Wants, Limit, Adding, Ending, DataOK
<1>5. ASSUME NEW s \in Searches, TimerStops(s) PROVE QuerierInv'
  <2>1. Adding' = Adding /\ Ending' = Ending /\ OnceEach'
    BY <1>0, <1>5, QueueKept DEF TimerStops, engineVars
  <2>2. /\ s \in timer_todo /\ stopping = NULL /\ timer_todo' = timer_todo \ {s} /\ stopping' = s
        /\ state[s] # "SEARCH_OFF" /\ expired[s]
        /\ UNCHANGED <<lock, mem, num_results, max_results, done, expired, s_search_once>>
        /\ UNCHANGED callerVars
    BY <1>5 DEF TimerStops, Scans, engineVars
  <2>3. \A r \in Searches : state'[r] = IF r = s THEN "SEARCH_OFF" ELSE state[r]
    BY <1>0, <1>5 DEF TimerStops, DataOK
  <2>4. s \in s_search_once /\ s \notin Ending /\ s \notin Adding
    BY <2>2
  <2>5. SearchInv'
    BY <1>0, <1>b, <2>1, <2>2, <2>3, <2>4 DEF Wants, Limit, Adding, Ending, DataOK
  <2>6. EngineInv'
    BY <1>0, <2>1, <2>2, <2>4
  <2> QED
    BY <1>a, <2>2, <2>5, <2>6
<1>6. ASSUME NEW s \in Searches, TimerPostsSend(s) PROVE QuerierInv'
  <2>1. Adding' = Adding /\ Ending' = Ending /\ OnceEach'
    <3>1. Action("SEARCH_SEND", s) \in QuerierActions /\ Action("SEARCH_SEND", s).type = "SEARCH_SEND"
      BY ActionsMade DEF Action
    <3> QED
      BY <1>0, <1>6, <3>1, QueueKept, PostsOther DEF TimerPostsSend
  <2>2. /\ s \in timer_todo /\ stopping = NULL /\ timer_todo' = timer_todo \ {s} /\ stopping' = stopping
        /\ state[s] # "SEARCH_OFF"
        /\ UNCHANGED <<lock, mem, num_results, max_results, done, expired, s_search_once>>
        /\ UNCHANGED callerVars
    BY <1>6 DEF TimerPostsSend, Scans
  <2>3. \A r \in Searches : state'[r] = IF r = s THEN "SEARCH_RUNNING" ELSE state[r]
    BY <1>0, <1>6 DEF TimerPostsSend, DataOK
  <2>4. s \in s_search_once /\ s \notin Ending /\ s \notin Adding
    BY <2>2
  <2>5. SearchInv'
    BY <1>0, <1>b, <2>1, <2>2, <2>3, <2>4 DEF Wants, Limit, Adding, Ending, DataOK
  <2>6. EngineInv'
    BY <1>0, <2>1, <2>2
  <2> QED
    BY <1>a, <2>2, <2>5, <2>6
<1> QED
  BY <1>1, <1>2, <1>3, <1>4, <1>5, <1>6 DEF Timer

-----------------------------------------------------------------------------
(* The service task. *)

(* Searches of F, which are in the list, are finished. *)
LEMMA FinishKeeps ==
  ASSUME TypeInv, QuerierInv, lock = "none", NEW F \in SUBSET s_search_once, SearchFinish(F),
         UNCHANGED <<lock, mem, max_results, expired, timerVars, callerVars>>,
         \A s \in Searches : s \notin s_search_once => num_results'[s] = num_results[s],
         \A s \in s_search_once \ F : Wants(s)',
         Adding' = Adding, Ending' = Ending \ F, OnceEach'
  PROVE  QuerierInv'
<1> USE DEF QuerierInv, EngineInv, SearchInv, OnceEach
<1>0. DataOK
  BY DEF TypeInv
<1>1. timer_todo = {} /\ stopping = NULL /\ UNCHANGED <<timer_todo, stopping>>
  BY DEF timerVars
<1>2. /\ s_search_once' = s_search_once \ F
      /\ \A s \in Searches : /\ state'[s] = IF s \in F THEN "SEARCH_OFF" ELSE state[s]
                             /\ done'[s] <=> done[s] \/ s \in F
  BY <1>0 DEF SearchFinish, DataOK
<1>3. \A s \in Searches : Open(s)' = Open(s)
  BY DEF Open, callerVars
<1>4. HandleInv'
  BY DEF HandleInv, callerVars
<1>5. EngineInv'
  BY <1>1, <1>2
<1>6. SearchInv'
  <2>1. \A s \in Adding' :
          /\ mem'[s] = "live" /\ Open(s)' /\ ~done'[s] /\ s \notin s_search_once'
          /\ state'[s] = "SEARCH_INIT" /\ num_results'[s] = 0
    BY <1>0, <1>2, <1>3 DEF Adding
  <2>2. \A s \in s_search_once' :
          /\ mem'[s] = "live" /\ Open(s)' /\ ~done'[s] /\ Wants(s)'
          /\ state'[s] = "SEARCH_OFF" => s = stopping' \/ s \in Ending'
    BY <1>0, <1>1, <1>2, <1>3 DEF DataOK
  <2>3. \A s \in Searches :
          s \in Ending' \/ s = stopping' => s \in s_search_once' /\ state'[s] = "SEARCH_OFF" /\ expired'[s]
    BY <1>0, <1>1, <1>2
  <2> QED
    BY <1>1, <2>1, <2>2, <2>3 DEF Ending
<1> QED
  BY <1>4, <1>5, <1>6

(* What a packet adds to the searches, and which of them it finishes. *)
LEMMA PacketCounts ==
  ASSUME TypeInv, QuerierInv, Orderly, mdns_parse_packet
  PROVE  \E F \in SUBSET Active :
           /\ SearchFinish(F)
           /\ \A s \in Searches : s \notin s_search_once => num_results'[s] = num_results[s]
           /\ \A s \in s_search_once \ F : Wants(s)'
           /\ \A s \in F : Limit(s) # 0 /\ num_results'[s] >= Limit(s)
<1>0. DataOK /\ UNCHANGED max_results
  BY DEF TypeInv, mdns_parse_packet
<1>1. current.packet = "complete"
  BY IdleIsNoAction, ActionFields
  DEF TypeInv, EngineOK, EngineOf, Orderly, mdns_parse_packet, Executes
<1>2. PICK S \in SUBSET Active :
        /\ num_results' = [s \in Searches |-> CountAfter(s, S)]
        /\ SearchFinish(Full(num_results'))
  BY <1>1 DEF mdns_parse_packet
<1>3. Full(num_results') \in SUBSET Active
  <2>1. ASSUME NEW s \in s_search_once, s \notin S, Limit(s) # 0 PROVE ~(num_results'[s] >= Limit(s))
    <3>1. num_results'[s] = num_results[s] /\ Wants(s) /\ s \in Searches
      BY <1>0, <1>2, <2>1 DEF CountAfter, QuerierInv, SearchInv, DataOK
    <3>2. num_results[s] \in Nat /\ Limit(s) \in Nat
      BY <1>0, <3>1, NumbersOf
    <3> QED
      BY <2>1, <3>1, <3>2 DEF Wants
  <2> QED
    BY <2>1 DEF Full
<1>4. \A s \in Searches : s \notin s_search_once => num_results'[s] = num_results[s]
  BY <1>2 DEF CountAfter, Active
<1>5. \A s \in s_search_once \ Full(num_results') : Wants(s)'
  <2>1. \A s \in Searches : max_results'[s] \in Nat /\ num_results'[s] \in Nat
    <3>1. \A s \in Searches : num_results[s] \in Nat /\ max_results[s] \in Nat
      BY <1>0, NumbersOf
    <3>2. \A s \in Searches : CountAfter(s, S) \in Nat
      BY <3>1 DEF CountAfter
    <3> QED
      BY <1>0, <1>2, <3>1, <3>2
  <2> QED
    BY <1>0, <2>1 DEF Full, Wants, Limit, DataOK
<1>6. \A s \in Full(num_results') : Limit(s) # 0 /\ num_results'[s] >= Limit(s)
  BY DEF Full
<1>7. Active \subseteq s_search_once
  BY DEF Active
<1> QED
  BY <1>2, <1>3, <1>4, <1>5, <1>6, <1>7

LEMMA ServiceKeeps ==
  ASSUME Orderly, TypeInv, QuerierInv, Service
  PROVE  QuerierInv'
<1>0. EngineOf(QuerierActions) /\ OnceEach /\ DataOK
  BY DEF TypeInv, EngineOK, QuerierInv, EngineInv, OnceEach
<1>p. ASSUME mdns_parse_packet
      PROVE  \E F \in SUBSET Active :
               /\ SearchFinish(F)
               /\ \A s \in Searches : s \notin s_search_once => num_results'[s] = num_results[s]
               /\ \A s \in s_search_once \ F : Wants(s)'
  BY <1>p, PacketCounts
<1>f. ASSUME NEW F \in SUBSET s_search_once, SearchFinish(F), lock = "none",
             UNCHANGED <<lock, mem, max_results, expired, timerVars, callerVars>>,
             \A s \in Searches : s \notin s_search_once => num_results'[s] = num_results[s],
             \A s \in s_search_once \ F : Wants(s)',
             Adding' = Adding, Ending' = Ending \ F, OnceEach'
      PROVE  QuerierInv'
  BY <1>f, FinishKeeps
<1> USE DEF QuerierInv, EngineInv, SearchInv, OnceEach
<1>1. CASE ServiceReceives /\ UNCHANGED <<searchVars, timerVars, callerVars, packets>>
  <2>1. Adding' = Adding /\ Ending' = Ending /\ OnceEach'
    BY <1>0, <1>1, QueueKept
  <2>2. UNCHANGED <<lock, searchVars, timerVars, callerVars>>
    BY <1>1 DEF ServiceReceives
  <2> QED
    BY <1>0, <2>1, <2>2
    DEF searchVars, timerVars, callerVars, HandleInv, Open, Wants, Limit, Adding, Ending, DataOK
<1>2. CASE search_add
  <2>1. /\ current \in QuerierActions /\ current' = Idle /\ UNCHANGED <<actions, lock>> /\ lock = "none"
        /\ current.search \in Searches /\ current = Adds(current.search)
    BY <1>0, <1>2, IdleIsNoAction, ActionFields DEF EngineOf, search_add, Executes
  <2>2. PICK s \in Searches : s = current.search
    BY <2>1
  <2>3. Adding' = Adding \ {s} /\ Ending' = Ending /\ OnceEach' /\ s \in Adding
    <3>1. /\ Adding' = {r \in Adding : Adds(r) # current}
          /\ Ending' = {r \in Ending : Ends(r) # current}
          /\ current \in Pending /\ OnceEach'
      BY <1>0, <2>1, ExecutesOnce
    <3>2. Ending' = Ending
      BY <2>1, <3>1, ActionsApart
    <3>3. Adding' = Adding \ {s} /\ s \in Adding
      BY <2>1, <2>2, <3>1, ActionsApart DEF Adding
    <3> QED
      BY <3>1, <3>2, <3>3
  <2>4. /\ s_search_once' = s_search_once \cup {s}
        /\ UNCHANGED <<mem, state, num_results, max_results, done, expired, timerVars, callerVars>>
    BY <1>2, <2>2 DEF search_add
  <2>5. Wants(s)
    <3>1. num_results[s] = 0 /\ max_results[s] \in Nat
      BY <1>0, <2>2, <2>3, NumbersOf
    <3> QED
      BY <3>1 DEF Wants, Limit
  <2> QED
    BY <1>0, <2>1, <2>3, <2>4, <2>5
    DEF timerVars, callerVars, HandleInv, Open, Wants, Limit, Adding, Ending, DataOK
<1>3. CASE search_send
  <2>1. /\ current \in QuerierActions /\ current' = Idle /\ UNCHANGED <<actions, lock>>
        /\ current.type = "SEARCH_SEND"
    BY <1>0, <1>3, IdleIsNoAction DEF EngineOf, search_send, Executes
  <2>2. Adding' = Adding /\ Ending' = Ending /\ OnceEach'
    BY <1>0, <2>1, ExecutesOnce, ActionsApart
  <2>3. UNCHANGED <<searchVars, timerVars, callerVars>>
    BY <1>3 DEF search_send
  <2> QED
    BY <1>0, <2>1, <2>2, <2>3
    DEF searchVars, timerVars, callerVars, HandleInv, Open, Wants, Limit, Adding, Ending, DataOK
<1>4. CASE search_end
  <2>1. /\ current \in QuerierActions /\ current' = Idle /\ UNCHANGED <<actions, lock>> /\ lock = "none"
        /\ current.search \in Searches /\ current = Ends(current.search)
    BY <1>0, <1>4, IdleIsNoAction, ActionFields DEF EngineOf, search_end, Executes
  <2>2. PICK s \in Searches : s = current.search
    BY <2>1
  <2>3. Adding' = Adding /\ Ending' = Ending \ {s} /\ OnceEach' /\ s \in Ending
    <3>1. /\ Adding' = {r \in Adding : Adds(r) # current}
          /\ Ending' = {r \in Ending : Ends(r) # current}
          /\ current \in Pending /\ OnceEach'
      BY <1>0, <2>1, ExecutesOnce
    <3>2. Adding' = Adding
      BY <2>1, <3>1, ActionsApart
    <3>3. Ending' = Ending \ {s} /\ s \in Ending
      BY <2>1, <2>2, <3>1, ActionsApart DEF Ending
    <3> QED
      BY <3>1, <3>2, <3>3
  <2>4. /\ SearchFinish({s})
        /\ UNCHANGED <<mem, num_results, max_results, expired, timerVars, callerVars>>
    BY <1>4, <2>2 DEF search_end
  <2>5. s \in s_search_once /\ \A r \in s_search_once : Wants(r)'
    BY <1>0, <2>3, <2>4 DEF Wants, Limit
  <2> QED
    BY <1>f, <2>1, <2>3, <2>4, <2>5
<1>5. CASE mdns_parse_packet
  <2>1. /\ current \in QuerierActions /\ current' = Idle /\ UNCHANGED <<actions, lock>> /\ lock = "none"
        /\ current.type = "RX_HANDLE"
        /\ UNCHANGED <<mem, max_results, expired, timerVars, callerVars>>
    BY <1>0, <1>5, IdleIsNoAction DEF EngineOf, mdns_parse_packet, Executes
  <2>2. Adding' = Adding /\ Ending' = Ending /\ OnceEach'
    BY <1>0, <2>1, ExecutesOnce, ActionsApart
  <2>3. PICK F \in SUBSET Active :
          /\ SearchFinish(F)
          /\ \A s \in Searches : s \notin s_search_once => num_results'[s] = num_results[s]
          /\ \A s \in s_search_once \ F : Wants(s)'
    BY <1>5, <1>p
  <2>4. F \in SUBSET s_search_once /\ Ending' = Ending \ F
    BY <2>2, <2>3 DEF Active, Ending
  <2> QED
    BY <1>f, <2>1, <2>2, <2>3, <2>4
<1> QED
  BY <1>1, <1>2, <1>3, <1>4, <1>5 DEF Service

LEMMA RestKeeps ==
  ASSUME TypeInv, QuerierInv,
         PacketArrives \/ (\E s \in Searches : Expire(s)) \/ UNCHANGED vars
  PROVE  QuerierInv'
<1>0. EngineOf(QuerierActions) /\ OnceEach /\ DataOK
  BY DEF TypeInv, EngineOK, QuerierInv, EngineInv, OnceEach
<1>1. Adding' = Adding /\ Ending' = Ending /\ OnceEach'
  <2>1. CASE PacketArrives
    <3>1. PICK k \in PacketKinds : Enqueue([type |-> "RX_HANDLE", packet |-> k])
      BY <2>1 DEF PacketArrives
    <3>2. [type |-> "RX_HANDLE", packet |-> k] \in QuerierActions
      BY ActionsMade
    <3> QED
      BY <1>0, <2>1, <3>1, <3>2, PostsOther DEF PacketArrives
  <2>2. CASE (\E s \in Searches : Expire(s)) \/ UNCHANGED vars
    BY <1>0, <2>2, QueueKept DEF Expire, vars, engineVars
  <2> QED
    BY <2>1, <2>2
<1>2. UNCHANGED <<lock, mem, state, num_results, max_results, done, s_search_once, timerVars, callerVars>>
  BY DEF PacketArrives, Expire, vars, engineVars, searchVars
<1>3. \A s \in Searches : expired[s] => expired'[s]
  BY <1>0 DEF PacketArrives, Expire, vars, searchVars, DataOK
<1>4. HandleInv'
  BY <1>2 DEF QuerierInv, HandleInv, callerVars
<1>5. EngineInv'
  BY <1>1, <1>2 DEF QuerierInv, EngineInv, OnceEach, timerVars
<1>6. \A s \in Searches : Open(s)' = Open(s) /\ Wants(s)' = Wants(s)
  BY <1>2 DEF Open, Wants, Limit, callerVars
<1>7. SearchInv'
  BY <1>0, <1>1, <1>2, <1>3, <1>6 DEF QuerierInv, SearchInv, Adding, Ending, DataOK, timerVars
<1> QED
  BY <1>4, <1>5, <1>7 DEF QuerierInv

LEMMA QuerierStep == Orderly /\ TypeInv /\ QuerierInv /\ [Next]_vars => QuerierInv'
BY CallsKeep, ReturnsKeep, TimerKeeps, ServiceKeeps, RestKeeps DEF Next

LEMMA QuerierInvariant == Orderly => (Spec => [](TypeInv /\ QuerierInv))
<1> SUFFICES ASSUME Orderly PROVE Spec => [](TypeInv /\ QuerierInv)
  OBVIOUS
<1>1. TypeInv /\ QuerierInv /\ [Next]_vars => TypeInv' /\ QuerierInv'
  BY TypeStep, QuerierStep
<1> QED
  BY <1>1, TypeInit, QuerierInit, PTL DEF Spec

LEMMA FollowedAre ==
  ASSUME TypeInv, QuerierInv
  PROVE  Followed = s_search_once \cup Adding
<1>0. EngineOf(QuerierActions) /\ DataOK
  BY DEF TypeInv, EngineOK
<1>1. Pending \subseteq QuerierActions
  BY <1>0 DEF EngineOf, Pending
<1>2. {a.search : a \in {p \in Pending : p.type \in {"SEARCH_ADD", "SEARCH_END"}}} = Adding \cup Ending
  <2>1. ASSUME NEW p \in Pending, p.type \in {"SEARCH_ADD", "SEARCH_END"}
        PROVE  p.search \in Adding \cup Ending
    BY <1>1, <2>1, ActionFields DEF Adding, Ending
  <2>2. ASSUME NEW s \in Adding PROVE Adds(s) \in Pending /\ Adds(s).search = s
    BY DEF Adding, Adds, Action
  <2>3. ASSUME NEW s \in Ending PROVE Ends(s) \in Pending /\ Ends(s).search = s
    BY DEF Ending, Ends, Action
  <2> QED
    BY <2>1, <2>2, <2>3, ActionsApart
<1>3. Ending \subseteq s_search_once /\ {stopping} \ {NULL} \subseteq s_search_once
      /\ timer_todo \subseteq s_search_once
  BY <1>0 DEF QuerierInv, SearchInv, EngineInv, DataOK, Ending
<1> QED
  BY <1>2, <1>3 DEF Followed

(* No pointer that will be followed, from the list, from the timer's hands  *)
(* or from an action in the queue, points to a search that was freed.       *)
THEOREM NothingFreedIsFollowed == Orderly => (Spec => []NoUseAfterFree)
<1> SUFFICES ASSUME Orderly PROVE Spec => []NoUseAfterFree
  OBVIOUS
<1>1. TypeInv /\ QuerierInv => NoUseAfterFree
  BY FollowedAre DEF NoUseAfterFree, QuerierInv, SearchInv
<1> QED
  BY <1>1, QuerierInvariant, PTL

(* A stopped search that is still in the list has its SEARCH_END on its     *)
(* way, and so is finished whatever happens to the posts of the timer.      *)
THEOREM StoppedWillEnd == Orderly => (Spec => []EndOnItsWay)
<1> SUFFICES ASSUME Orderly PROVE Spec => []EndOnItsWay
  OBVIOUS
<1>1. QuerierInv => EndOnItsWay
  BY DEF EndOnItsWay, QuerierInv, SearchInv, Ending, Ends
<1> QED
  BY <1>1, QuerierInvariant, PTL

-----------------------------------------------------------------------------
(* The searches implement OneShotQuery. *)

(* What a step may do to a caller's query. *)
Asked(c)    == Phase(c) = "idle" /\ Phase(c)' = "asked" /\ ~IsDue(c)'
FellDue(c)  == Phase(c) # "idle" /\ Phase(c)' = Phase(c) /\ IsDue(c)'
Ended(c)    == Phase(c) = "asked" /\ Phase(c)' = "ended" /\ IsDue(c)'
Released(c) == Phase(c) = "ended" /\ Phase(c)' = "idle" /\ ~IsDue(c)'
Rested(c)   == Phase(c)' = Phase(c) /\ IsDue(c)' = IsDue(c)

Kept(c) == Asked(c) \/ FellDue(c) \/ Ended(c) \/ Released(c) \/ Rested(c)

(* A caller whose search and whose own state rest; if its search comes to   *)
(* be due, it is due.                                                       *)
LEMMA CallerRests ==
  ASSUME TypeInv, QuerierInv, NEW c \in Callers, caller_pc'[c] = caller_pc[c], handle'[c] = handle[c],
         handle[c] # NULL => /\ done'[handle[c]] = done[handle[c]]
                             /\ expired[handle[c]] => expired'[handle[c]]
                             /\ max_results'[handle[c]] = max_results[handle[c]]
                             /\ num_results'[handle[c]] \in Nat
                             /\ num_results'[handle[c]] >= num_results[handle[c]]
  PROVE  Kept(c)
<1>1. caller_pc[c] = "idle" <=> handle[c] = NULL
  BY DEF QuerierInv, HandleInv
<1>2. Phase(c)' = Phase(c)
  BY <1>1 DEF Phase
<1>3. CASE handle[c] = NULL
  BY <1>2, <1>3 DEF IsDue, Kept, Rested
<1>4. CASE handle[c] # NULL
  <2>1. Phase(c) # "idle"
    BY <1>1, <1>4 DEF Phase
  <2>2. handle[c] \in Searches
    BY <1>4 DEF TypeInv, DataOK
  <2>3. num_results[handle[c]] \in Nat /\ max_results[handle[c]] \in Nat
    BY <2>2, NumbersOf DEF TypeInv
  <2>4. IsDue(c) => IsDue(c)'
    BY <1>4, <2>3 DEF IsDue, Limit
  <2>5. CASE IsDue(c)'
    BY <1>2, <2>1, <2>5 DEF Kept, FellDue
  <2>6. CASE ~IsDue(c)'
    BY <1>2, <2>4, <2>6 DEF Kept, Rested, IsDue
  <2> QED
    BY <2>5, <2>6
<1> QED
  BY <1>3, <1>4

(* Nobody's search changes, unless it expires. *)
LEMMA AllRest ==
  ASSUME TypeInv, QuerierInv, NEW c \in Callers,
         UNCHANGED <<done, num_results, max_results, callerVars>>,
         \A s \in Searches : expired[s] => expired'[s]
  PROVE  Kept(c)
<1>1. \A s \in Searches : num_results[s] \in Nat
  BY DEF TypeInv, DataOK
<1>2. handle[c] # NULL => handle[c] \in Searches
  BY DEF TypeInv, DataOK
<1> QED
  BY <1>1, <1>2, CallerRests DEF callerVars

(* The searches of F are finished, each for a reason. *)
LEMMA FinishEnds ==
  ASSUME TypeInv, QuerierInv, NEW F \in SUBSET s_search_once, SearchFinish(F),
         UNCHANGED <<max_results, expired, callerVars>>,
         \A s \in Searches : num_results'[s] \in Nat /\ num_results'[s] >= num_results[s],
         \A s \in F : expired[s] \/ (Limit(s) # 0 /\ num_results'[s] >= Limit(s)),
         NEW c \in Callers
  PROVE  Kept(c)
<1>0. DataOK
  BY DEF TypeInv
<1>1. UNCHANGED <<caller_pc, handle>>
  BY DEF callerVars
<1>2. CASE handle[c] \in F
  <2>1. PICK s \in F : s = handle[c]
    BY <1>2
  <2>2. s \in s_search_once /\ s \in Searches
    BY <1>0, <2>1 DEF DataOK
  <2>3. caller_pc[c] \in {"blocked", "open"} /\ ~done[s]
    BY <2>1, <2>2 DEF QuerierInv, SearchInv, Open
  <2>4. done'[s] /\ Phase(c) = "asked" /\ Phase(c)' = "ended"
    BY <1>1, <2>1, <2>2, <2>3 DEF SearchFinish, Phase
  <2>5. IsDue(c)'
    BY <1>0, <1>1, <2>1, <2>2 DEF IsDue, Limit, DataOK
  <2> QED
    BY <2>4, <2>5 DEF Kept, Ended
<1>3. CASE handle[c] \notin F
  <2>1. handle[c] # NULL => handle[c] \in Searches
    BY <1>0 DEF DataOK
  <2>2. handle[c] # NULL => done'[handle[c]] = done[handle[c]]
    BY <1>0, <1>3, <2>1 DEF SearchFinish, DataOK
  <2> QED
    BY <1>1, <2>1, <2>2, CallerRests
<1> QED
  BY <1>2, <1>3

LEMMA ResultsGrow ==
  ASSUME TypeInv, mdns_parse_packet, NEW s \in Searches
  PROVE  num_results'[s] \in Nat /\ num_results'[s] >= num_results[s]
<1>1. num_results[s] \in Nat
  BY DEF TypeInv, DataOK
<1>2. PICK S \in SUBSET Active : num_results' = [r \in Searches |-> CountAfter(r, S)]
  BY DEF mdns_parse_packet
<1>3. num_results'[s] = num_results[s] \/ num_results'[s] = num_results[s] + 1
  BY <1>2 DEF CountAfter
<1> QED
  BY <1>1, <1>3

LEMMA ServicePromises ==
  ASSUME Orderly, TypeInv, QuerierInv, Service, NEW c \in Callers
  PROVE  Kept(c)
<1>0. EngineOf(QuerierActions) /\ OnceEach /\ DataOK
  BY DEF TypeInv, EngineOK, QuerierInv, EngineInv, OnceEach
<1>1. CASE (ServiceReceives /\ UNCHANGED <<searchVars, timerVars, callerVars, packets>>)
           \/ search_add \/ search_send
  BY <1>1, AllRest DEF search_add, search_send, searchVars
<1>2. CASE search_end
  <2>1. current \in QuerierActions /\ current.search \in Searches /\ current = Ends(current.search)
    BY <1>0, <1>2, IdleIsNoAction, ActionFields DEF EngineOf, search_end, Executes
  <2>2. PICK s \in Searches : s = current.search
    BY <2>1
  <2>3. s \in Ending
    BY <2>1, <2>2, IdleIsNoAction DEF Ending, Pending
  <2>4. {s} \in SUBSET s_search_once /\ expired[s]
    BY <2>3 DEF QuerierInv, SearchInv
  <2>5. \A r \in Searches : num_results'[r] \in Nat /\ num_results'[r] >= num_results[r]
    BY <1>0, <1>2 DEF search_end, DataOK
  <2>6. SearchFinish({s}) /\ UNCHANGED <<max_results, expired, callerVars>>
    BY <1>2, <2>2 DEF search_end
  <2> QED
    BY <2>4, <2>5, <2>6, FinishEnds
<1>3. CASE mdns_parse_packet
  <2>1. PICK F \in SUBSET Active :
          SearchFinish(F) /\ \A s \in F : Limit(s) # 0 /\ num_results'[s] >= Limit(s)
    BY <1>3, PacketCounts
  <2>2. F \in SUBSET s_search_once /\ UNCHANGED <<max_results, expired, callerVars>>
    BY <1>3, <2>1 DEF Active, mdns_parse_packet
  <2> QED
    BY <1>3, <2>1, <2>2, ResultsGrow, FinishEnds
<1> QED
  BY <1>1, <1>2, <1>3 DEF Service

LEMMA CallsPromise ==
  ASSUME TypeInv, QuerierInv, NEW d \in Callers, Calls(d), NEW c \in Callers
  PROVE  Kept(c)
<1>0. DataOK
  BY DEF TypeInv
<1>1. PICK s \in Searches, n \in MaxResults, pc \in {"blocked", "open"} : StartsQuery(d, s, n, pc)
  BY DEF Calls, mdns_query_generic, mdns_query_async_new
<1>2. \A r \in Searches : num_results[r] \in Nat
  BY <1>0 DEF DataOK
<1>3. handle[c] # NULL => handle[c] \in Searches /\ handle[c] # s
  BY <1>0, <1>1 DEF StartsQuery, QuerierInv, HandleInv, DataOK
<1>4. CASE ~Room
  BY <1>1, <1>2, <1>3, <1>4, CallerRests DEF StartsQuery
<1>5. CASE Room /\ c # d
  <2>1. caller_pc'[c] = caller_pc[c] /\ handle'[c] = handle[c]
    BY <1>0, <1>1, <1>5 DEF StartsQuery, DataOK
  <2>2. \A r \in Searches : r # s =>
          UNCHANGED <<num_results[r], max_results[r], done[r], expired[r]>>
    BY <1>0, <1>1, <1>5 DEF StartsQuery, DataOK
  <2> QED
    BY <1>2, <1>3, <2>1, <2>2, CallerRests
<1>6. CASE Room /\ c = d
  <2>1. Phase(c) = "idle"
    BY <1>1, <1>6 DEF StartsQuery, Phase
  <2>2. caller_pc'[c] = pc /\ handle'[c] = s
    BY <1>0, <1>1, <1>6 DEF StartsQuery, DataOK
  <2>3. ~done'[s] /\ ~expired'[s] /\ num_results'[s] = 0 /\ max_results'[s] = n
    BY <1>0, <1>1, <1>6 DEF StartsQuery, DataOK
  <2>4. Phase(c)' = "asked"
    BY <2>2, <2>3 DEF Phase
  <2>5. n \in Nat
    OBVIOUS
  <2>6. ~IsDue(c)'
    BY <2>2, <2>3, <2>5 DEF IsDue, Limit
  <2> QED
    BY <2>1, <2>4, <2>6 DEF Kept, Asked
<1> QED
  BY <1>4, <1>5, <1>6

LEMMA ReturnsPromise ==
  ASSUME Orderly, TypeInv, QuerierInv, NEW d \in Callers, Returns(d), NEW c \in Callers
  PROVE  Kept(c)
<1>0. DataOK
  BY DEF TypeInv
<1>1. \A r \in Searches : num_results[r] \in Nat
  BY <1>0 DEF DataOK
<1>2. handle[c] # NULL => handle[c] \in Searches /\ (c # d => handle[c] # handle[d])
  BY <1>0 DEF QuerierInv, HandleInv, DataOK
<1>3. CASE c # d
  <2>1. caller_pc'[c] = caller_pc[c] /\ handle'[c] = handle[c]
    BY <1>0, <1>3
    DEF Returns, BlockedCallerReturns, GetsResults, DeleteChecks, DeleteFrees, search_free, DataOK
  <2>2. \A r \in Searches : r # handle[d] => done'[r] = done[r]
    BY <1>0
    DEF Returns, BlockedCallerReturns, GetsResults, DeleteChecks, DeleteFrees, searchVars, DataOK
  <2>3. UNCHANGED <<num_results, max_results, expired>>
    BY DEF Returns, BlockedCallerReturns, GetsResults, DeleteChecks, DeleteFrees, search_free, searchVars
  <2> QED
    BY <1>1, <1>2, <1>3, <2>1, <2>2, <2>3, CallerRests
<1>4. CASE BlockedCallerReturns(d) \/ DeleteFrees(d)
  <2> SUFFICES ASSUME c = d PROVE Kept(c)
    BY <1>3
  <2>1. Phase(c) = "ended"
    BY <1>4 DEF BlockedCallerReturns, DeleteFrees, Phase
  <2>2. caller_pc'[c] = "idle" /\ handle'[c] = NULL
    BY <1>0, <1>4 DEF BlockedCallerReturns, DeleteFrees, search_free, DataOK
  <2> QED
    BY <2>1, <2>2 DEF Kept, Released, Phase, IsDue
<1>5. CASE GetsResults(d) \/ DeleteChecks(d)
  <2> SUFFICES ASSUME c = d PROVE Kept(c)
    BY <1>3
  <2>1. Phase(c) = "ended"
    BY <1>5 DEF GetsResults, DeleteChecks, Orderly, Phase
  <2>2. caller_pc'[c] \in {"ended", "deleting"}
    BY <1>0, <1>5 DEF GetsResults, DeleteChecks, DataOK
  <2>3. IsDue(c)' = IsDue(c)
    BY <1>5 DEF GetsResults, DeleteChecks, searchVars, IsDue, Limit
  <2> QED
    BY <2>1, <2>2, <2>3 DEF Kept, Rested, Phase
<1> QED
  BY <1>4, <1>5 DEF Returns

LEMMA PromiseKept ==
  ASSUME Orderly, TypeInv, QuerierInv, [Next]_vars, NEW c \in Callers
  PROVE  Kept(c)
<1>1. CASE Timer \/ PacketArrives \/ (\E s \in Searches : Expire(s)) \/ UNCHANGED vars
  <2>1. UNCHANGED <<done, num_results, max_results, callerVars>>
    BY <1>1
    DEF Timer, TimerTakesLock, TimerReleases, TimerPostsEnd, TimerPasses, TimerStops, TimerPostsSend,
        PacketArrives, Expire, vars, searchVars
  <2>2. \A s \in Searches : expired[s] => expired'[s]
    BY <1>1
    DEF Timer, TimerTakesLock, TimerReleases, TimerPostsEnd, TimerPasses, TimerStops, TimerPostsSend,
        PacketArrives, Expire, vars, searchVars, TypeInv, DataOK
  <2> QED
    BY <2>1, <2>2, AllRest
<1> QED
  BY <1>1, ServicePromises, CallsPromise, ReturnsPromise DEF Next

(* A caller is woken once, when its time is over or it has what it asked    *)
(* for, and never for a search that was there before in the same memory.    *)
THEOREM SearchesImplementOneShotQuery == Orderly => (Spec => EndsForAReason)
<1> SUFFICES ASSUME Orderly PROVE Spec => Promise!Spec
  BY DEF EndsForAReason
<1>1. Init => Promise!Init
  BY DEF Init, Promise!Init, Phase, IsDue
<1>2. TypeInv /\ QuerierInv /\ [Next]_vars => [Promise!Next]_(Promise!vars)
  <2> SUFFICES ASSUME TypeInv, QuerierInv, [Next]_vars PROVE Promise!Next
    OBVIOUS
  <2>1. \A c \in Callers : Kept(c)
    BY PromiseKept
  <2>2. ASSUME NEW c \in Callers, Kept(c)
        PROVE  \/ Promise!Asks(c) \/ Promise!FallsDue(c) \/ Promise!Ends(c)
               \/ Promise!Releases(c) \/ Promise!Rests(c)
    BY <2>2
    DEF Kept, Asked, FellDue, Ended, Released, Rested, Promise!Asks, Promise!FallsDue, Promise!Ends,
        Promise!Releases, Promise!Rests, Promise!Goes
  <2> QED
    BY <2>1, <2>2 DEF Promise!Next
<1> QED
  BY <1>1, <1>2, QuerierInvariant, PTL DEF Spec, Promise!Spec
=============================================================================
