------------------------------ MODULE MdnsBrowser ------------------------------
(***************************************************************************)
(* Continuous browsing for a service type (mdns_browser.c).  A browse is   *)
(* linked and unlinked by actions of the service task; the packet parser   *)
(* keeps one result per instance up to date and posts a BROWSE_SYNC action *)
(* with the results that a packet has changed, and the notifier is called  *)
(* when that action is executed.  The action holds pointers to the browse  *)
(* and to its results.                                                     *)
(*                                                                         *)
(* A browse is identified with its block of memory.  A packet carries one  *)
(* record; the records of one packet would share one BROWSE_SYNC.  Of a     *)
(* result the host, the text, the addresses and the TTL are kept; a new     *)
(* port of the same host changes nothing, for add_srv does not take it.     *)
(* The list of browses and the lists of their results are sets: where the   *)
(* code takes the first that fits, any of them is taken.                    *)
(***************************************************************************)
EXTENDS MdnsService

CONSTANTS
  Browses,    (* blocks of memory for browses                              *)
  Types,      (* the service types that are browsed for                    *)
  Instances,  (* the instances that answer                                 *)
  Hosts, Texts, Addrs, (* what SRV, TXT and address records say            *)
  Ttls,       (* TTLs of the answers: 0 is a goodbye, 1 is anything else   *)
  MaxNews, MaxDeletes, (* how often the two API functions are called       *)
  MaxPackets

ASSUME BrowserAssumption ==
  /\ Ttls \subseteq {0, 1}
  /\ MaxNews \in Nat /\ MaxDeletes \in Nat /\ MaxPackets \in Nat

VARIABLES
  mem,       (* is the block of a browse allocated                         *)
  service,   (* browse->service and proto                                  *)
  results,   (* browse->result, by instance; <<>>: none                    *)
  told,      (* what the notifier's user knows of an instance              *)
  lost,      (* the instances of which a BROWSE_SYNC found no room and that *)
             (* no later one has reported                                  *)
  s_browse,  (* the browses in the list                                    *)
  news, deletes, packets

browseVars == <<mem, service, results, told, lost, s_browse>>
boundVars  == <<news, deletes, packets>>
vars == <<engineVars, browseVars, boundVars>>

None    == <<>>      (* no result *)
Absent  == "absent"  (* a result's host or text that no record has given it yet *)
Nothing == [i \in Instances |-> None]

Results == [host : Hosts \cup {Absent}, txt : Texts \cup {Absent},
            addrs : SUBSET Addrs, ttl : {0, 1}]

(* An empty TXT record leaves r->txt NULL, as if none had come. *)
Records ==
  [type : {"SRV"}, service : Types, instance : Instances, host : Hosts, ttl : Ttls]
    \cup [type : {"TXT"}, service : Types, instance : Instances,
          txt : Texts \cup {Absent}, ttl : Ttls]
    \cup [type : {"A"}, host : Hosts, addr : Addrs, ttl : Ttls]

BrowseActions ==
  [type : {"BROWSE_ADD"}, browse : Browses]
    \cup [type : {"BROWSE_END"}, service : Types]
    \cup [type : {"BROWSE_SYNC"}, browse : Browses, changed : SUBSET Instances]
    \cup [type : {"RX_HANDLE"}, record : Records]

TypeOK ==
  /\ actions \in Seq(BrowseActions) /\ Len(actions) <= QueueLen
  /\ current \in BrowseActions \cup {Idle}
  /\ lock \in {"none", "service"}
  /\ mem \in [Browses -> {"free", "live"}]
  /\ service \in [Browses -> Types]
  /\ results \in [Browses -> [Instances -> Results \cup {None}]]
  /\ told \in [Browses -> [Instances -> Results \cup {None}]]
  /\ lost \in [Browses -> SUBSET Instances]
  /\ s_browse \in SUBSET Browses
  /\ news \in 0..MaxNews /\ deletes \in 0..MaxDeletes /\ packets \in 0..MaxPackets

Init ==
  /\ EngineInit
  /\ mem = [b \in Browses |-> "free"]
  /\ service \in [Browses -> Types]
  /\ results = [b \in Browses |-> Nothing]
  /\ told = [b \in Browses |-> Nothing]
  /\ lost = [b \in Browses |-> {}]
  /\ s_browse = {}
  /\ news = 0 /\ deletes = 0 /\ packets = 0

-----------------------------------------------------------------------------
(* The API: both functions only post an action, and undo their allocation   *)
(* when the queue is full.                                                  *)

mdns_browse_new(t) ==
  /\ news < MaxNews /\ news' = news + 1
  /\ Room
  /\ \E b \in Browses :
       /\ mem[b] = "free"
       /\ mem' = [mem EXCEPT ![b] = "live"]
       /\ service' = [service EXCEPT ![b] = t]
       /\ results' = [results EXCEPT ![b] = Nothing]
       /\ told' = [told EXCEPT ![b] = Nothing]
       /\ lost' = [lost EXCEPT ![b] = {}]
       /\ Enqueue([type |-> "BROWSE_ADD", browse |-> b])
  /\ UNCHANGED <<current, lock, s_browse, deletes, packets>>

mdns_browse_delete(t) ==
  /\ deletes < MaxDeletes /\ deletes' = deletes + 1
  /\ Room
  /\ Enqueue([type |-> "BROWSE_END", service |-> t])
  /\ UNCHANGED <<current, lock, browseVars, news, packets>>

-----------------------------------------------------------------------------
(* The service task, under the lock. *)

Browsing(t) == {b \in s_browse : service[b] = t}

(* Mutant: the list is not searched for a browse of the same type. *)
browse_add_always ==
  /\ Executes("BROWSE_ADD")
  /\ s_browse' = s_browse \cup {current.browse}
  /\ UNCHANGED <<actions, mem, service, results, told, lost, boundVars>>

(* A second browse of the same type is dropped, and its query still sent. *)
browse_add ==
  /\ Executes("BROWSE_ADD")
  /\ IF Browsing(service[current.browse]) = {}
     THEN s_browse' = s_browse \cup {current.browse} /\ UNCHANGED mem
     ELSE mem' = [mem EXCEPT ![current.browse] = "free"] /\ UNCHANGED s_browse
  /\ UNCHANGED <<actions, service, results, told, lost, boundVars>>

(* All browses of the type are unlinked and freed with their results; so is *)
(* the template that names the type, which mdns_browse_delete allocated.    *)
browse_finish ==
  /\ Executes("BROWSE_END")
  /\ s_browse' = s_browse \ Browsing(current.service)
  /\ mem' = [b \in Browses |-> IF b \in Browsing(current.service) THEN "free" ELSE mem[b]]
  /\ UNCHANGED <<actions, service, results, told, lost, boundVars>>

(* Mutant: a repeated answer prolongs the result. *)
TtlsAddUp(old, ttl) == old + ttl

(* mdns_priv_query_update_result_ttl keeps the smaller TTL, but a result    *)
(* that has said goodbye comes back with a new one.                         *)
NewTtl(old, ttl) == IF old = 0 THEN ttl ELSE IF ttl < old THEN ttl ELSE old

(* The browse a record belongs to: mdns_priv_browse_find.  An address has   *)
(* no service; it belongs to the first browse with a result of its host.    *)
Housed(b, h) == {i \in Instances : results[b][i] # None /\ results[b][i].host = h}

Found(r) == IF r.type = "A" THEN {b \in s_browse : Housed(b, r.host) # {}} ELSE Browsing(r.service)

(* Mutant: only new instances are reported. *)
OnlyNew(old, new) == old = None

(* When add_browse_result is called for a result: it is new, or its host,   *)
(* addresses or TTL have changed, or the text it had already.  A result     *)
(* without a text takes its first one silently.                             *)
Changed(old, new) ==
  \/ old = None
  \/ new.host # old.host \/ new.addrs # old.addrs \/ new.ttl # old.ttl
  \/ old.txt # Absent /\ new.txt # old.txt

(* The result is stored whatever becomes of the BROWSE_SYNC about it, which *)
(* is dropped when the queue is full.                                       *)
Stores(b, i, new) ==
  /\ results' = [results EXCEPT ![b][i] = new]
  /\ IF ~Changed(results[b][i], new) THEN UNCHANGED <<actions, lost>>
     ELSE IF Room
     THEN /\ Enqueue([type |-> "BROWSE_SYNC", browse |-> b, changed |-> {i}])
          /\ UNCHANGED lost
     ELSE lost' = [lost EXCEPT ![b] = @ \cup {i}] /\ UNCHANGED actions

(* A result that gets a new host and has no address takes those of another  *)
(* result of the host; addresses it has stay.                               *)
Inherited(b, old, h) ==
  LET known == {i \in Housed(b, h) : results[b][i].addrs # {}}
  IN  IF old.addrs # {} \/ old.host = h \/ known = {} THEN {old.addrs}
      ELSE {results[b][i].addrs : i \in known}

mdns_priv_browse_result_add_srv(b, r) ==
  LET old == results[b][r.instance]
  IN  IF old = None
      THEN Stores(b, r.instance, [host |-> r.host, txt |-> Absent, addrs |-> {}, ttl |-> r.ttl])
      ELSE \E A \in Inherited(b, old, r.host) :
             Stores(b, r.instance,
                    [old EXCEPT !.host = r.host, !.addrs = A, !.ttl = NewTtl(old.ttl, r.ttl)])

mdns_priv_browse_result_add_txt(b, r) ==
  LET old == results[b][r.instance]
  IN  Stores(b, r.instance,
             IF old = None THEN [host |-> Absent, txt |-> r.txt, addrs |-> {}, ttl |-> r.ttl]
             ELSE [old EXCEPT !.txt = r.txt, !.ttl = NewTtl(old.ttl, r.ttl)])

(* One of the host's results that lack the address gets it, and no other. *)
mdns_priv_browse_result_add_ip(b, r) ==
  LET lacking == {i \in Housed(b, r.host) : r.addr \notin results[b][i].addrs}
  IN  \/ lacking = {} /\ UNCHANGED <<results, actions, lost>>
      \/ \E i \in lacking :
           Stores(b, i, [results[b][i] EXCEPT !.addrs = @ \cup {r.addr},
                                              !.ttl = NewTtl(@, r.ttl)])

mdns_parse_packet ==
  /\ Executes("RX_HANDLE")
  /\ LET r == current.record
     IN \/ Found(r) = {} /\ UNCHANGED <<results, actions, lost>>
        \/ \E b \in Found(r) :
             \/ r.type = "SRV" /\ mdns_priv_browse_result_add_srv(b, r)
             \/ r.type = "TXT" /\ mdns_priv_browse_result_add_txt(b, r)
             \/ r.type = "A" /\ mdns_priv_browse_result_add_ip(b, r)
  /\ UNCHANGED <<mem, service, told, s_browse, boundVars>>

Leaves(b, i) == results[b][i] # None /\ results[b][i].ttl = 0

TellsOf(b, S) ==
  /\ told' = [told EXCEPT ![b] = [i \in Instances |-> IF i \in S THEN results[b][i] ELSE @[i]]]
  /\ lost' = [lost EXCEPT ![b] = @ \ S]

browse_sync ==
  /\ current.type = "BROWSE_SYNC"
  /\ \A i \in current.changed : ~Leaves(current.browse, i)
  /\ Executes("BROWSE_SYNC")
  /\ TellsOf(current.browse, current.changed)
  /\ UNCHANGED <<actions, mem, service, results, s_browse, boundVars>>

(* A result with TTL 0 is detached and freed after the notification, with   *)
(* mdns_query_results_free: the public function, which takes the lock that  *)
(* the service task holds.                                                  *)
browse_sync_goodbye ==
  /\ current.type = "BROWSE_SYNC" /\ lock = "none"
  /\ \E i \in current.changed :
       /\ Leaves(current.browse, i)
       /\ told' = [told EXCEPT ![current.browse][i] = None]
       /\ results' = [results EXCEPT ![current.browse][i] = None]
       /\ lost' = [lost EXCEPT ![current.browse] = @ \ {i}]
  /\ lock' = "service"
  /\ UNCHANGED <<actions, current, mem, service, s_browse, boundVars>>

-----------------------------------------------------------------------------
(* The network. *)

PacketArrives ==
  /\ packets < MaxPackets /\ packets' = packets + 1
  /\ Room
  /\ \E r \in Records : Enqueue([type |-> "RX_HANDLE", record |-> r])
  /\ UNCHANGED <<current, lock, browseVars, news, deletes>>

-----------------------------------------------------------------------------
Service ==
  \/ ServiceReceives /\ UNCHANGED <<browseVars, boundVars>>
  \/ browse_add \/ browse_finish \/ mdns_parse_packet \/ browse_sync \/ browse_sync_goodbye

Next ==
  \/ Service
  \/ PacketArrives
  \/ \E t \in Types : mdns_browse_new(t) \/ mdns_browse_delete(t)

Spec == Init /\ [][Next]_vars

(* The service task runs while it has something to do. *)
FairSpec == Spec /\ WF_vars(Service)

-----------------------------------------------------------------------------
(* Safety. *)

(* However often a type is asked for, it is browsed for once, so answers    *)
(* are not stored or reported twice; and every allocated browse has one     *)
(* owner, the list or the action that will link it: neither a repeated      *)
(* mdns_browse_new nor a stop before or after it leaves a block behind that *)
(* nobody will free, or links one that has been freed.                      *)
OneOwnedBrowsePerType ==
  /\ \A t \in Types : \A a, b \in Browsing(t) : a = b
  /\ \A b \in Browses :
       mem[b] = "live" <=> b \in s_browse \/ [type |-> "BROWSE_ADD", browse |-> b] \in Pending

SyncPending(b, i) ==
  \E p \in Pending : p.type = "BROWSE_SYNC" /\ p.browse = b /\ i \in p.changed

(* What the user was told of a result is what is stored, but for a text it  *)
(* got after it had been reported without one.                              *)
Known(old, new) ==
  \/ new = old
  \/ old # None /\ old.txt = Absent /\ new = [old EXCEPT !.txt = new.txt]

(* A result the notifier does not know in its present form is on its way to *)
(* it, however many packets change it meanwhile, starts and stops of        *)
(* browses included; or its BROWSE_SYNC met a full queue.  Then the next    *)
(* change of the same result makes up for it, a repeated answer does not.   *)
ChangesReported ==
  \A b \in s_browse, i \in Instances :
    Known(told[b][i], results[b][i]) \/ SyncPending(b, i) \/ i \in lost[b]

(* "The callback which will be called when the browsing service changed"    *)
(* (mdns.h:916), for every change.                                          *)
EveryChangeReported ==
  \A b \in s_browse, i \in Instances :
    results[b][i] = told[b][i] \/ SyncPending(b, i) \/ i \in lost[b]

(* "Stop the `_service._proto` browse" (mdns.h:923): no action that is      *)
(* still to be executed points to a browse that has been stopped and freed. *)
NoUseAfterFree ==
  \A p \in Pending : p.type = "BROWSE_SYNC" => p.browse \in s_browse

-----------------------------------------------------------------------------
(* Liveness. *)

(* The service task comes back from every action to its queue. *)
ServiceReturns == current # Idle ~> current = Idle
=============================================================================
