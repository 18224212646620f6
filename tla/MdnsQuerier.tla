------------------------------ MODULE MdnsQuerier ------------------------------
(***************************************************************************)
(* One-shot searches (mdns_querier.c).  An API caller allocates a search   *)
(* and posts SEARCH_ADD; the service task links it into s_search_once;     *)
(* every 100 ms the timer task walks the list and posts SEARCH_SEND for    *)
(* searches that are due and SEARCH_END for those whose time is over; the  *)
(* packet parser adds results and finishes searches that have enough.      *)
(* A blocking caller frees its search when done_semaphore is given, an     *)
(* asynchronous one calls mdns_query_async_delete when it likes.           *)
(*                                                                         *)
(* A search is identified with the block of memory it occupies, so that a  *)
(* stale pointer to it and its reuse can be told from the search itself.   *)
(* Time is abstracted: a running search expires at some moment, and at a   *)
(* tick any running search may be due.  The contents of results are left   *)
(* out; a packet adds a result to some of the searches in the list.  The   *)
(* list is a set: the order of its elements only decides which searches    *)
(* still find room in the queue at a tick, and here any of them may.       *)
(***************************************************************************)
EXTENDS MdnsService

CONSTANTS
  Searches,     (* blocks of memory for searches                           *)
  NULL,
  Callers,      (* tasks that use the API                                  *)
  MaxResults,   (* the max_results that callers may ask for, 0: no limit   *)
  PacketKinds,  (* what arrives: "complete" answers are authoritative and  *)
                (* parsed to their end, "partial" ones are not             *)
  Careful,      (* do callers delete a search only after it has ended      *)
  MaxQueries,   (* how many queries are made                               *)
  MaxPackets    (* how many packets arrive                                 *)

ASSUME QuerierAssumption ==
  /\ NULL \notin Searches
  /\ MaxResults \subseteq Nat
  /\ PacketKinds \subseteq {"complete", "partial"}
  /\ Careful \in BOOLEAN
  /\ MaxQueries \in Nat /\ MaxPackets \in Nat

VARIABLES
  mem,         (* is the block of a search allocated                       *)
  state,       (* search->state                                            *)
  num_results, (* search->num_results                                      *)
  max_results, (* search->max_results                                      *)
  done,        (* search->done_semaphore                                   *)
  expired,     (* now > search->started_at + search->timeout               *)
  s_search_once, (* the searches in the list                               *)
  timer_todo,  (* the part of the list the timer has not looked at yet     *)
  stopping,    (* the search whose SEARCH_END it is about to post          *)
  caller_pc,
  handle,      (* the search a caller holds                                *)
  queries, packets

searchVars == <<mem, state, num_results, max_results, done, expired, s_search_once>>
timerVars  == <<timer_todo, stopping>>
callerVars == <<caller_pc, handle, queries>>
vars == <<engineVars, searchVars, timerVars, callerVars, packets>>

SearchStates == {"SEARCH_OFF", "SEARCH_INIT", "SEARCH_RUNNING"}
Limit(s) == max_results[s]

Action(t, s) == [type |-> t, search |-> s]
SearchActions == [type : {"SEARCH_ADD", "SEARCH_SEND", "SEARCH_END"}, search : Searches]
RxActions == [type : {"RX_HANDLE"}, packet : PacketKinds]

TypeOK ==
  /\ actions \in Seq(SearchActions \cup RxActions) /\ Len(actions) <= QueueLen
  /\ current \in SearchActions \cup RxActions \cup {Idle}
  /\ lock \in {"none", "timer"}
  /\ mem \in [Searches -> {"free", "live"}]
  /\ state \in [Searches -> SearchStates]
  /\ num_results \in [Searches -> Nat]
  /\ max_results \in [Searches -> MaxResults \cup {0}]
  /\ done \in [Searches -> BOOLEAN]
  /\ expired \in [Searches -> BOOLEAN]
  /\ s_search_once \in SUBSET Searches
  /\ timer_todo \in SUBSET Searches
  /\ stopping \in Searches \cup {NULL}
  /\ caller_pc \in [Callers -> {"idle", "blocked", "open", "ended", "deleting"}]
  /\ handle \in [Callers -> Searches \cup {NULL}]
  /\ queries \in 0..MaxQueries
  /\ packets \in 0..MaxPackets

Init ==
  /\ EngineInit
  /\ mem = [s \in Searches |-> "free"]
  /\ state = [s \in Searches |-> "SEARCH_OFF"]
  /\ num_results = [s \in Searches |-> 0]
  /\ max_results = [s \in Searches |-> 0]
  /\ done = [s \in Searches |-> FALSE]
  /\ expired = [s \in Searches |-> FALSE]
  /\ s_search_once = {}
  /\ timer_todo = {}
  /\ stopping = NULL
  /\ caller_pc = [c \in Callers |-> "idle"]
  /\ handle = [c \in Callers |-> NULL]
  /\ queries = 0
  /\ packets = 0

-----------------------------------------------------------------------------
(* API callers. *)

(* search_init and the post of SEARCH_ADD; when the queue is full the       *)
(* search is freed again and the caller gets an error.                      *)
StartsQuery(c, s, limit, pc) ==
  /\ caller_pc[c] = "idle" /\ queries < MaxQueries
  /\ queries' = queries + 1
  /\ mem[s] = "free"
  /\ IF Room
     THEN /\ mem' = [mem EXCEPT ![s] = "live"]
          /\ state' = [state EXCEPT ![s] = "SEARCH_INIT"]
          /\ num_results' = [num_results EXCEPT ![s] = 0]
          /\ max_results' = [max_results EXCEPT ![s] = limit]
          /\ done' = [done EXCEPT ![s] = FALSE]
          /\ expired' = [expired EXCEPT ![s] = FALSE]
          /\ Enqueue(Action("SEARCH_ADD", s))
          /\ caller_pc' = [caller_pc EXCEPT ![c] = pc]
          /\ handle' = [handle EXCEPT ![c] = s]
     ELSE UNCHANGED <<mem, state, num_results, max_results, done, expired, actions,
                      caller_pc, handle>>
  /\ UNCHANGED <<current, lock, s_search_once, timerVars, packets>>

mdns_query_generic(c) == \E s \in Searches, n \in MaxResults : StartsQuery(c, s, n, "blocked")
mdns_query_async_new(c) == \E s \in Searches, n \in MaxResults : StartsQuery(c, s, n, "open")

(* search_free: the block goes back to the heap, wherever it is linked. *)
search_free(c) ==
  /\ mem' = [mem EXCEPT ![handle[c]] = "free"]
  /\ caller_pc' = [caller_pc EXCEPT ![c] = "idle"]
  /\ handle' = [handle EXCEPT ![c] = NULL]
  /\ UNCHANGED <<queries, state, num_results, max_results, expired, s_search_once,
                 timerVars, packets>>

(* mdns_query_generic wakes up; it frees the search without the lock. *)
BlockedCallerReturns(c) ==
  /\ caller_pc[c] = "blocked"
  /\ done[handle[c]]
  /\ done' = [done EXCEPT ![handle[c]] = FALSE]
  /\ search_free(c)
  /\ UNCHANGED engineVars

(* mdns_query_async_get_results returns true. *)
GetsResults(c) ==
  /\ caller_pc[c] = "open"
  /\ done[handle[c]]
  /\ done' = [done EXCEPT ![handle[c]] = FALSE]
  /\ caller_pc' = [caller_pc EXCEPT ![c] = "ended"]
  /\ UNCHANGED <<engineVars, mem, state, num_results, max_results, expired,
                 s_search_once, timerVars, handle, queries, packets>>

(* mdns_query_async_delete looks at the state before it takes the lock. *)
DeleteChecks(c) ==
  /\ caller_pc[c] \in (IF Careful THEN {"ended"} ELSE {"open", "ended"})
  /\ state[handle[c]] = "SEARCH_OFF"
  /\ caller_pc' = [caller_pc EXCEPT ![c] = "deleting"]
  /\ UNCHANGED <<engineVars, searchVars, timerVars, handle, queries, packets>>

DeleteFrees(c) ==
  /\ caller_pc[c] = "deleting"
  /\ lock = "none"
  /\ search_free(c)
  /\ UNCHANGED <<done, engineVars>>

-----------------------------------------------------------------------------
(* The timer task: mdns_priv_query_start_stop, under the lock. *)

TimerTakesLock ==
  /\ lock = "none"
  /\ lock' = "timer"
  /\ timer_todo' = s_search_once
  /\ UNCHANGED <<actions, current, stopping, searchVars, callerVars, packets>>

TimerReleases ==
  /\ lock = "timer" /\ timer_todo = {} /\ stopping = NULL
  /\ lock' = "none"
  /\ UNCHANGED <<actions, current, timerVars, searchVars, callerVars, packets>>

Scans(s) == s \in timer_todo /\ stopping = NULL /\ timer_todo' = timer_todo \ {s}

(* A search that is off, or neither over nor due, is passed over. *)
TimerPasses(s) ==
  /\ Scans(s)
  /\ state[s] = "SEARCH_OFF" \/ (state[s] = "SEARCH_RUNNING" /\ ~expired[s])
  /\ UNCHANGED <<engineVars, stopping, searchVars, callerVars, packets>>

(* Mutant: the state is left alone, and the next tick posts a second END. *)
TimerStopsLate(s) ==
  /\ Scans(s)
  /\ state[s] # "SEARCH_OFF" /\ expired[s]
  /\ stopping' = s
  /\ UNCHANGED <<engineVars, searchVars, callerVars, packets>>

(* The state is cleared before the action is posted ... *)
TimerStops(s) ==
  /\ Scans(s)
  /\ state[s] # "SEARCH_OFF" /\ expired[s]
  /\ state' = [state EXCEPT ![s] = "SEARCH_OFF"]
  /\ stopping' = s
  /\ UNCHANGED <<engineVars, mem, num_results, max_results, done, expired,
                 s_search_once, callerVars, packets>>

(* Mutant: nobody looks at the result of the post. *)
TimerPostsEndOnce ==
  /\ stopping # NULL
  /\ IF Room THEN Enqueue(Action("SEARCH_END", stopping)) ELSE UNCHANGED actions
  /\ stopping' = NULL
  /\ UNCHANGED <<current, lock, timer_todo, searchVars, callerVars, packets>>

(* ... and set again when the post fails, for a retry at the next tick. *)
TimerPostsEnd ==
  /\ stopping # NULL
  /\ IF Room
     THEN Enqueue(Action("SEARCH_END", stopping)) /\ UNCHANGED state
     ELSE state' = [state EXCEPT ![stopping] = "SEARCH_RUNNING"] /\ UNCHANGED actions
  /\ stopping' = NULL
  /\ UNCHANGED <<current, lock, timer_todo, mem, num_results, max_results, done, expired,
                 s_search_once, callerVars, packets>>

(* The first transmission, or another one after a second. *)
TimerPostsSend(s) ==
  /\ Scans(s)
  /\ state[s] # "SEARCH_OFF" /\ ~expired[s]
  /\ state' = [state EXCEPT ![s] = "SEARCH_RUNNING"]
  /\ IF Room THEN Enqueue(Action("SEARCH_SEND", s)) ELSE UNCHANGED actions
  /\ UNCHANGED <<current, lock, stopping, mem, num_results, max_results, done, expired,
                 s_search_once, callerVars, packets>>

-----------------------------------------------------------------------------
(* The service task, under the lock. *)

search_add ==
  /\ Executes("SEARCH_ADD")
  /\ s_search_once' = s_search_once \cup {current.search}
  /\ UNCHANGED <<actions, mem, state, num_results, max_results, done, expired, timerVars,
                 callerVars, packets>>

(* Sends the question if the search is still in the list; the packet itself *)
(* changes nothing here.                                                    *)
search_send ==
  /\ Executes("SEARCH_SEND")
  /\ UNCHANGED <<actions, searchVars, timerVars, callerVars, packets>>

(* search_finish for every search of S. *)
SearchFinish(S) ==
  /\ state' = [s \in Searches |-> IF s \in S THEN "SEARCH_OFF" ELSE state[s]]
  /\ done' = [s \in Searches |-> done[s] \/ s \in S]
  /\ s_search_once' = s_search_once \ S

search_end ==
  /\ Executes("SEARCH_END")
  /\ SearchFinish({current.search})
  /\ UNCHANGED <<actions, mem, num_results, max_results, expired, timerVars, callerVars, packets>>

Active == {s \in s_search_once : state[s] # "SEARCH_OFF"}
Wants(s) == Limit(s) = 0 \/ num_results[s] < Limit(s)

(* A limit-less search counts too, but nothing looks at its count. *)
CountAfter(s, S) ==
  IF s \in S /\ Wants(s) /\ Limit(s) # 0 THEN num_results[s] + 1 ELSE num_results[s]

(* Mutant: max_results = 0 is not treated as "no limit". *)
FullOrNoLimit(count) == {s \in s_search_once : count[s] >= Limit(s)}

(* mdns_priv_query_done looks at the whole list, also at stopped searches. *)
Full(count) == {s \in s_search_once : Limit(s) # 0 /\ count[s] >= Limit(s)}

(* mdns_parse_packet: results for some of the active searches, and, at the  *)
(* end of a complete answer, mdns_priv_query_done.                          *)
mdns_parse_packet ==
  /\ Executes("RX_HANDLE")
  /\ \E S \in SUBSET Active :
       /\ num_results' = [s \in Searches |-> CountAfter(s, S)]
       /\ SearchFinish(IF current.packet = "complete" THEN Full(num_results') ELSE {})
  /\ UNCHANGED <<actions, mem, max_results, expired, timerVars, callerVars, packets>>

-----------------------------------------------------------------------------
(* The network and the clock. *)

PacketArrives ==
  /\ packets < MaxPackets
  /\ packets' = packets + 1
  /\ Room
  /\ \E k \in PacketKinds : Enqueue([type |-> "RX_HANDLE", packet |-> k])
  /\ UNCHANGED <<current, lock, searchVars, timerVars, callerVars>>

Expire(s) ==
  /\ mem[s] = "live" /\ ~expired[s]
  /\ expired' = [expired EXCEPT ![s] = TRUE]
  /\ UNCHANGED <<engineVars, mem, state, num_results, max_results, done, s_search_once,
                 timerVars, callerVars, packets>>

-----------------------------------------------------------------------------
Service ==
  \/ ServiceReceives /\ UNCHANGED <<searchVars, timerVars, callerVars, packets>>
  \/ search_add \/ search_send \/ search_end \/ mdns_parse_packet

Timer ==
  \/ TimerTakesLock \/ TimerReleases \/ TimerPostsEnd
  \/ \E s \in Searches : TimerPasses(s) \/ TimerStops(s) \/ TimerPostsSend(s)

Calls(c) == mdns_query_generic(c) \/ mdns_query_async_new(c)

Returns(c) ==
  BlockedCallerReturns(c) \/ GetsResults(c) \/ DeleteChecks(c) \/ DeleteFrees(c)

Next ==
  \/ Service \/ Timer \/ PacketArrives
  \/ \E s \in Searches : Expire(s)
  \/ \E c \in Callers : Calls(c) \/ Returns(c)

Spec == Init /\ [][Next]_vars

(* Both tasks are scheduled, time passes, and a caller whose semaphore was  *)
(* given runs.  A task that waits for the mutex gets it although the timer  *)
(* task takes it again and again: that task sleeps 100 ms between two       *)
(* ticks, with the mutex free.  Nothing obliges anybody to call or answer.  *)
Fairness ==
  /\ SF_vars(Service)
  /\ WF_vars(Timer)
  /\ \A s \in Searches : WF_vars(Expire(s))
  /\ \A c \in Callers : SF_vars(Returns(c))

FairSpec == Spec /\ Fairness

-----------------------------------------------------------------------------
(* Safety. *)

(* No pointer that will be followed points to a freed search: none in the  *)
(* list, in the timer's hands, or in an action whose execution looks into  *)
(* it (search_send only compares its pointer).                              *)
Followed ==
  s_search_once \cup timer_todo \cup ({stopping} \ {NULL})
    \cup {a.search : a \in {p \in Pending : p.type \in {"SEARCH_ADD", "SEARCH_END"}}}

NoUseAfterFree == \A s \in Followed : mem[s] = "live"

(* A search that is off but still in the list is passed over by every later *)
(* tick and gets no more results: only its SEARCH_END can finish it, which  *)
(* therefore is on its way, or about to be posted.                          *)
EndOnItsWay ==
  \A s \in s_search_once :
    state[s] = "SEARCH_OFF" => s = stopping \/ Action("SEARCH_END", s) \in Pending

(* How far a caller's query has come. *)
Phase(c) ==
  IF caller_pc[c] = "idle" THEN "idle"
  ELSE IF caller_pc[c] \in {"blocked", "open"} /\ ~done[handle[c]] THEN "asked"
  ELSE "ended"

IsDue(c) ==
  /\ handle[c] # NULL
  /\ \/ expired[handle[c]]
     \/ Limit(handle[c]) # 0 /\ num_results[handle[c]] >= Limit(handle[c])

Promise ==
  INSTANCE OneShotQuery WITH phase <- [c \in Callers |-> Phase(c)], due <- [c \in Callers |-> IsDue(c)]

(* The searches implement OneShotQuery: a caller is woken once, because its *)
(* search's time is over or it has the results it asked for, and never by   *)
(* an action meant for an earlier search in the same memory; and neither    *)
(* the timer nor a packet takes back what has ended.                        *)
EndsForAReason == Promise!Spec

(* mdns_query_async_delete refuses a "search [that] has not finished"       *)
(* (mdns.h:652): one it frees is in no list.  It asks for SEARCH_OFF, which *)
(* the timer sets before SEARCH_END is posted, and so frees a search that   *)
(* is still linked for a caller who tries to delete it until it may.        *)
DeletesFinished ==
  [][\A c \in Callers :
       caller_pc[c] = "deleting" /\ caller_pc'[c] = "idle" => handle[c] \notin Followed]_vars

-----------------------------------------------------------------------------
(* Liveness. *)

(* Every blocking query returns: a lost race for room in the queue is made  *)
(* up for at a later tick.                                                  *)
BlockedCallersReturn == \A c \in Callers : caller_pc[c] = "blocked" ~> caller_pc[c] = "idle"
=============================================================================
