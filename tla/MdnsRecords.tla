------------------------------ MODULE MdnsRecords ------------------------------
(***************************************************************************)
(* What the services of the mdns responder say about themselves: their     *)
(* names, subtypes and TXT items, which the API changes under the service  *)
(* lock (mdns_responder.c), and what a listener on the network comes to    *)
(* hold of it through announcements and goodbyes.                          *)
(*                                                                         *)
(* An announcement is scheduled and written from the data of the time when *)
(* it is sent; a goodbye is sent at once, but for a whole service only     *)
(* where the PCB is running.  Of the one PCB there is here, MdnsPcb has    *)
(* the details: PROBE and ANNOUNCE stand for three states each.  All       *)
(* services are of one type.                                               *)
(*                                                                         *)
(* In MaxFails calls memory runs out, once or more often.  A service whose *)
(* answers do not all fit into an announcement that is on its way is taken *)
(* to be left out of it.                                                   *)
(***************************************************************************)
EXTENDS Naturals, FiniteSets, SequencesExt

CONSTANTS
  Ids,        (* blocks of memory for services, MDNS_MAX_SERVICES of them  *)
  Names,      (* instance names that callers give                          *)
  Default,    (* and the name of a service that has none                   *)
  NoName,     (* NULL                                                      *)
  Subtypes, Keys, Values,
  MaxArray,   (* subtypes that one call gives                              *)
  MaxCalls, MaxFails

ASSUME RecordsAssumption ==
  /\ Default \notin Names /\ NoName \notin Names \cup {Default}
  /\ MaxArray \in Nat /\ MaxCalls \in Nat /\ MaxFails \in Nat
  /\ "all" \notin Subtypes

VARIABLES
  services,  (* s_server->services, the newest first                       *)
  boxed,     (* is the delegated host "box" in s_server->host_list         *)
  state,     (* of the PCB                                                 *)
  packet,    (* its scheduled packet: the services and, as answers, the    *)
             (* hosts it tells of; said: it has been announced; made: it   *)
             (* could be allocated, and is not just the probe_services     *)
  heard,     (* what a listener holds: PTR and subtype records, TXT        *)
  unsaid,    (* services that were changed, or probed, to no announcement: *)
             (* there was none, or it was cleared or not allocated         *)
  stale,     (* records that went without a goodbye that was sent          *)
  denied,    (* the last call, if it has reported a lack of memory         *)
  fate,      (* what the component has come to; freed: probe_services      *)
             (* points to a service that is not there any more             *)
  calls, fails

vars == <<services, boxed, state, packet, heard, unsaid, stale, denied, fate, calls, fails>>
air  == <<state, packet, heard, unsaid, stale>>

AllNames == Names \cup {Default}
Hosts == {"self", "box"}
Texts == UNION {[K -> Values] : K \in SUBSET Keys}
NoText == [k \in {} |-> 0]
Records == AllNames \X (Subtypes \cup {"all"})

Service == [id : Ids, name : AllNames, host : Hosts, txt : Texts, subtypes : SUBSET Subtypes]

(* Functions that report a lack of memory *)
Functions ==
  {"service_add", "instance_name_set", "lookup", "txt_set", "txt_item_set", "subtype_remove", "subtype_add",
   "subtype_update"}

Nothing == [services |-> {}, hosts |-> {}, said |-> FALSE, made |-> FALSE]

TypeOK ==
  /\ services \in Seq(Service)
  /\ \A i, j \in 1..Len(services) : i # j => services[i].id # services[j].id
  /\ boxed \in BOOLEAN
  /\ state \in {"PROBE", "ANNOUNCE", "RUNNING"}
  /\ packet \in [services : SUBSET Ids, hosts : SUBSET Hosts, said : BOOLEAN, made : BOOLEAN]
  /\ packet.services \subseteq {s.id : s \in Range(services)}
  /\ packet.made => packet.services # {} \/ packet.hosts # {}
  /\ state = "RUNNING" \/ (state = "ANNOUNCE" /\ ~packet.made) => packet = Nothing
  /\ heard \in [ptr : SUBSET Records, txt : [AllNames -> Texts]]
  /\ unsaid \in SUBSET Ids /\ stale \in SUBSET Records
  /\ denied \in {"none"} \cup Functions
  /\ fate \in {"none", "locked", "null", "torn", "freed"}
  /\ calls \in 0..MaxCalls /\ fails \in 0..MaxFails

Init ==
  /\ services = <<>> /\ boxed = FALSE
  /\ state = "RUNNING" /\ packet = Nothing
  /\ heard = [ptr |-> {}, txt |-> [n \in AllNames |-> NoText]]
  /\ unsaid = {} /\ stale = {}
  /\ denied = "none" /\ fate = "none"
  /\ calls = 0 /\ fails = 0

-----------------------------------------------------------------------------
(* Calls; those that are refused and change nothing are left out. *)

Calls(call, ret) ==
  /\ fate = "none" /\ calls < MaxCalls /\ calls' = calls + 1
  /\ denied' = IF ret = "NO_MEM" THEN call ELSE "none"

Succeeds == UNCHANGED fails
Fails == fails < MaxFails /\ fails' = fails + 1

Charges(failed) == IF failed THEN Fails ELSE Succeeds

(* mdns_utils_get_service_item_instance: the first match, at host h or, for *)
(* the subtype functions, at any.  0: none.                                 *)
Found(n, h) ==
  LET M == {i \in 1..Len(services) : n \in {NoName, services[i].name} /\ h \in {"any", services[i].host}}
  IN IF M = {} THEN 0 ELSE CHOOSE i \in M : \A j \in M : i <= j

RecordsOf(s, T) == {<<s.name, t>> : t \in T}
All(s) == RecordsOf(s, {"all"} \cup s.subtypes)

(* allocate_txt: when it runs out of memory it returns the items it has. *)
Shortened(T) == {[k \in K |-> T[k]] : K \in (SUBSET DOMAIN T) \ {{}, DOMAIN T}}

-----------------------------------------------------------------------------
(* What calls put on the air. *)

Scheduled(S) == [services |-> S, hosts |-> {}, said |-> FALSE, made |-> TRUE]

(* mdns_priv_probe_all_pcbs: a probe that is under way is extended, an      *)
(* announcement is cleared from the queue.  Without memory the state stays  *)
(* as it was and nothing is on its way in it: for want of a new list the    *)
(* old one stays, for want of the packet there is none.                     *)
Probes(id, quiet, lost) ==
  LET probed == IF state = "PROBE" THEN packet.services ELSE {}
      cleared == IF state = "ANNOUNCE" /\ ~packet.said THEN packet.services ELSE {}
  IN \/ /\ ~lost
        /\ state' = "PROBE"
        /\ packet' = Scheduled(probed \cup {id})
        /\ unsaid' = (unsaid \cup cleared \cup quiet) \ {id}
     \/ /\ lost
        /\ packet' \in {Nothing, [Nothing EXCEPT !.services = probed]}
        /\ unsaid' = unsaid \cup cleared \cup quiet \cup probed \cup {id}
        /\ UNCHANGED state

(* mdns_priv_pcb_announce: the announcement that is on its way tells of the *)
(* service too, a probe begins again with it.  Without memory the PCB       *)
(* announces with no packet, to which nothing can be added later.           *)
Announces(id, lost) ==
  \/ /\ state = "RUNNING" /\ state' = "ANNOUNCE"
     /\ packet' = IF lost THEN Nothing ELSE Scheduled({id})
     /\ unsaid' = unsaid \cup {x \in {id} : lost}
  \/ /\ state = "ANNOUNCE"
     /\ LET out == ~packet.made \/ (lost /\ id \notin packet.services)
        IN /\ packet' = IF out THEN packet ELSE [packet EXCEPT !.services = @ \cup {id}, !.said = FALSE]
           /\ unsaid' = unsaid \cup {x \in {id} : out}
     /\ UNCHANGED state
  \/ state = "PROBE" /\ Probes(id, {}, lost)

(* What is on the air, with steps of a call applied to it one by one. *)
Air == [state |-> state, packet |-> packet, heard |-> heard, stale |-> stale]

Airs(w) == state' = w.state /\ packet' = w.packet /\ heard' = w.heard /\ stale' = w.stale

(* mdns_priv_pcb_send_bye_service: the goodbye of some services, or the     *)
(* lack of it; that of mute cannot be allocated.                            *)
Byed(w, S, mute) ==
  LET R == UNION {All(s) : s \in S \ mute}
      M == UNION {All(s) : s \in mute}
  IN IF w.state = "RUNNING" THEN [w EXCEPT !.heard.ptr = @ \ R, !.stale = (@ \cup M) \ R]
                            ELSE [w EXCEPT !.stale = @ \cup R \cup M]

(* Mutant: a packet that has nothing to tell any more stays in the queue. *)
UnscheduledOnly(w, S) == [w EXCEPT !.packet.services = @ \ {s.id : s \in S}]

(* mdns_priv_remove_scheduled_service_packets, for each of some services *)
Unscheduled(w, S) ==
  LET left == w.packet.services \ {s.id : s \in S}
      done == w.packet.made /\ left = {} /\ w.packet.hosts = {}
  IN [w EXCEPT !.packet = IF done THEN Nothing ELSE [@ EXCEPT !.services = left],
               !.state = IF done THEN "RUNNING" ELSE @]

Removed(w, S, mute) == Unscheduled(Byed(w, S, mute), S)

(* It does not reach a list of services to probe that has no packet. *)
Frees(S) ==
  fate' = IF ~packet.made /\ \E s \in S : s.id \in packet.services THEN "freed" ELSE fate

Namesakes(S) == {s.id : s \in {x \in Range(services) : \E y \in S : x.name = y.name}} \ {s.id : s \in S}

(* The others stay in their order. *)
Removes(S) ==
  LET I == {i \in 1..Len(services) : services[i] \notin S}
  IN \E f \in Bijection(1..Cardinality(I), I) :
       /\ \A m, n \in DOMAIN f : m < n => f[m] < f[n]
       /\ services' = [n \in DOMAIN f |-> services[f[n]]]
  /\ unsaid' = (unsaid \cup Namesakes(S)) \ {s.id : s \in S}

-----------------------------------------------------------------------------
(* Services. *)

Free == Ids \ {s.id : s \in Range(services)}

Adds(id, name, h, txt, lost) ==
  /\ services' = <<[id |-> id, name |-> name, host |-> h, txt |-> txt, subtypes |-> {}]>> \o services
  /\ Probes(id, {}, lost)
  /\ UNCHANGED <<heard, stale>>

(* Memory may run out for the name or among the TXT items without notice.   *)
mdns_service_add_for_host(n, h, txt) ==
  /\ Free # {} /\ Found(n, h) = 0
  /\ LET id == CHOOSE x \in Free : TRUE
         name == IF n = NoName THEN Default ELSE n
     IN \/ /\ Calls("service_add", "OK")
           /\ \E m \in {name, Default}, t \in {txt} \cup Shortened(txt), lost \in BOOLEAN :
                Charges(m # name \/ t # txt \/ lost) /\ Adds(id, m, h, t, lost)
        \/ Calls("service_add", "NO_MEM") /\ Fails /\ UNCHANGED <<services, air>>
  /\ UNCHANGED <<boxed, fate>>

mdns_service_remove_for_host(n, h) ==
  /\ Found(n, h) # 0
  /\ Calls("service_remove", "OK")
  /\ LET s == services[Found(n, h)]
     IN /\ Removes({s}) /\ Frees({s})
        /\ \E mute \in SUBSET {s} : Charges(mute # {}) /\ Airs(Removed(Air, {s}, mute))
  /\ UNCHANGED boxed

(* One goodbye tells of all of them. *)
mdns_service_remove_all ==
  /\ services # <<>>
  /\ Calls("service_remove_all", "OK")
  /\ Removes(Range(services)) /\ Frees(Range(services))
  /\ \E mute \in {{}, Range(services)} : Charges(mute # {}) /\ Airs(Removed(Air, Range(services), mute))
  /\ UNCHANGED boxed

(* A service that goes by the default name says no goodbye to it.  When the *)
(* new name cannot be allocated the service is left without one.            *)
mdns_service_instance_name_set_for_host(n, h, new) ==
  LET i == Found(n, h)
      s == services[i]
      After(mute) == IF s.name # Default THEN Byed(Air, {s}, mute) ELSE [Air EXCEPT !.stale = @ \cup All(s)]
  IN /\ i # 0 /\ calls < MaxCalls
     /\ \E mute \in SUBSET {s}, lost \in BOOLEAN :
          /\ heard' = After(mute).heard /\ stale' = After(mute).stale
          /\ \/ /\ Calls("instance_name_set", "OK") /\ Charges(mute # {} \/ lost)
                /\ services' = [services EXCEPT ![i].name = new]
                /\ Probes(s.id, Namesakes({s}), lost)
             \/ /\ Calls("instance_name_set", "NO_MEM") /\ Fails
                /\ services' = [services EXCEPT ![i].name = Default]
                /\ unsaid' = unsaid \cup Namesakes({s}) \cup {s.id}
                /\ UNCHANGED <<state, packet>>
     /\ UNCHANGED <<boxed, fate>>

(* A lookup copies what it finds.  When memory runs out for the first block *)
(* of a result it fails; later it frees fields that have never been set,    *)
(* or returns results that count TXT items which they do not have.          *)
mdns_lookup_service(h) ==
  /\ \E s \in Range(services) : s.host = h
  /\ Calls("lookup", "NO_MEM") /\ Fails
  /\ fate' \in {"none", "torn"}
  /\ UNCHANGED <<services, boxed, air>>

-----------------------------------------------------------------------------
(* TXT items. *)

TextCalls(call, ret, i) == i # 0 /\ Calls(call, ret) /\ UNCHANGED boxed

(* Mutant: the new items are kept for the next occasion. *)
TextedSilently(i, t, lost) == services' = [services EXCEPT ![i].txt = t] /\ UNCHANGED air

Texted(i, t, lost) ==
  /\ services' = [services EXCEPT ![i].txt = t]
  /\ Announces(services[i].id, lost)
  /\ UNCHANGED <<heard, stale>>

(* Without memory for the first item it returns with the lock held. *)
mdns_service_txt_set_for_host(n, h, txt) ==
  LET i == Found(n, h)
  IN \/ /\ TextCalls("txt_set", "OK", i)
        /\ \E t \in {txt} \cup Shortened(txt), lost \in BOOLEAN : Charges(t # txt \/ lost) /\ Texted(i, t, lost)
        /\ UNCHANGED fate
     \/ /\ TextCalls("txt_set", "NO_MEM", i) /\ Fails
        /\ txt # NoText
        /\ fate' = "locked"
        /\ UNCHANGED <<services, air>>

With(t, k, v) == [x \in DOMAIN t \cup {k} |-> IF x = k THEN v ELSE t[x]]

(* The value or a new item may not be allocated. *)
mdns_service_txt_item_set_for_host(n, h, k, v) ==
  LET i == Found(n, h)
  IN \/ /\ TextCalls("txt_item_set", "OK", i) /\ UNCHANGED fate
        /\ \E lost \in BOOLEAN : Charges(lost) /\ Texted(i, With(services[i].txt, k, v), lost)
     \/ TextCalls("txt_item_set", "NO_MEM", i) /\ Fails /\ UNCHANGED <<services, fate, air>>

Without(t, k) == [x \in DOMAIN t \ {k} |-> t[x]]

mdns_service_txt_item_remove_for_host(n, h, k) ==
  LET i == Found(n, h)
  IN /\ TextCalls("txt_item_remove", "OK", i) /\ UNCHANGED fate
     /\ \/ services[i].txt = NoText /\ Succeeds /\ UNCHANGED <<services, air>>
        \/ /\ services[i].txt # NoText
           /\ \E lost \in BOOLEAN : Charges(lost) /\ Texted(i, Without(services[i].txt, k), lost)

-----------------------------------------------------------------------------
(* Subtypes.  Each goodbye is sent at once, whatever the PCB's state, and   *)
(* under the name that the caller gave, of which NULL cannot be written.    *)

SubtypeCalls(call, ret, n) ==
  /\ Found(n, "any") # 0
  /\ Calls(call, ret)
  /\ UNCHANGED boxed

Subtyped(i, T) == services' = [services EXCEPT ![i].subtypes = T]

(* mdns_priv_send_bye_subtype for some; the records of others stay stale,   *)
(* as those do whose goodbye, mute, cannot be allocated.                    *)
LosesSubtypes(s, bye, mute, lost) ==
  /\ heard' = [heard EXCEPT !.ptr = @ \ RecordsOf(s, bye \ mute)]
  /\ stale' = (stale \ RecordsOf(s, bye \ mute)) \cup RecordsOf(s, lost \cup mute)

mdns_service_subtype_remove_for_host(n, t) ==
  LET i == Found(n, "any")
      s == services[i]
  IN /\ i # 0 /\ t \in s.subtypes
     /\ Subtyped(i, s.subtypes \ {t})
     /\ \/ /\ SubtypeCalls("subtype_remove", "OK", n)
           /\ \E mute \in SUBSET {t} :
                /\ Charges(mute # {})
                /\ fate' = IF n = NoName /\ mute = {} THEN "null" ELSE fate
                /\ LosesSubtypes(s, {t}, mute, {})
        \/ /\ SubtypeCalls("subtype_remove", "NO_MEM", n) /\ Fails
           /\ LosesSubtypes(s, {}, {}, {t}) /\ UNCHANGED fate
     /\ UNCHANGED <<state, packet, unsaid>>

(* How far an array a of subtypes gets when they are added to T, one after  *)
(* the other: up to the first that is there already.                        *)
Added(T, a) ==
  LET clash == {k \in 1..Len(a) : a[k] \in T \cup {a[j] : j \in 1..k-1}}
  IN IF clash = {} THEN Len(a) ELSE (CHOOSE k \in clash : \A j \in clash : k <= j) - 1

FirstOf(a, k) == {a[j] : j \in 1..k}

(* Mutant: the last one that was added is not taken out again. *)
RolledBackButOne(T, a, k) == (T \cup FirstOf(a, k)) \ FirstOf(a, k - 1)

RolledBack(T, a, k) == (T \cup FirstOf(a, k)) \ FirstOf(a, k)

(* Where memory runs out those that were added are removed again; at one    *)
(* that is there already they stay, without an announcement.                *)
mdns_service_subtype_add_multiple_items_for_host(n, a) ==
  LET i == Found(n, "any")
      s == services[i]
      k == Added(s.subtypes, a)
  IN /\ calls < MaxCalls /\ UNCHANGED fate
     /\ \/ /\ SubtypeCalls("subtype_add", "OK", n)
           /\ k = Len(a)
           /\ Subtyped(i, s.subtypes \cup FirstOf(a, k))
           /\ \E lost \in BOOLEAN : Charges(lost) /\ Announces(s.id, lost)
           /\ UNCHANGED <<heard, stale>>
        \/ /\ SubtypeCalls("subtype_add", "INVALID_ARG", n) /\ Succeeds
           /\ k < Len(a)
           /\ Subtyped(i, s.subtypes \cup FirstOf(a, k))
           /\ unsaid' = unsaid \cup {x \in {s.id} : k > 0}
           /\ UNCHANGED <<state, packet, heard, stale>>
        \/ /\ SubtypeCalls("subtype_add", "NO_MEM", n) /\ Fails
           /\ \E m \in 0..k-1 : Subtyped(i, RolledBack(s.subtypes, a, m))
           /\ UNCHANGED air

(* Mutant: those that stay are bid farewell. *)
bye_to_those_that_stay(T, a) == T \cap FirstOf(a, Len(a))

service_find_subtype_needed_sendbye(T, a) == T \ FirstOf(a, Len(a))

(* All are freed and those of the array added anew, as above. *)
mdns_service_subtype_update_multiple_items_for_host(n, a) ==
  LET i == Found(n, "any")
      s == services[i]
      bye == service_find_subtype_needed_sendbye(s.subtypes, a)
      k == Added({}, a)
  IN /\ i # 0 /\ calls < MaxCalls
     /\ \E mute \in {{}, bye}, lost \in BOOLEAN :
          /\ fate' = IF n = NoName /\ bye \ mute # {} THEN "null" ELSE fate
          /\ \/ /\ SubtypeCalls("subtype_update", "OK", n) /\ Charges(mute # {} \/ lost)
                /\ k = Len(a)
                /\ Subtyped(i, FirstOf(a, k))
                /\ LosesSubtypes(s, bye, mute, {})
                /\ IF a # <<>> THEN Announces(s.id, lost) ELSE ~lost /\ UNCHANGED <<state, packet, unsaid>>
             \/ /\ SubtypeCalls("subtype_update", "INVALID_ARG", n) /\ Charges(mute # {}) /\ ~lost
                /\ k < Len(a)
                /\ Subtyped(i, FirstOf(a, k))
                /\ LosesSubtypes(s, bye, mute, s.subtypes \ (bye \cup FirstOf(a, k)))
                /\ unsaid' = unsaid \cup {s.id}
                /\ UNCHANGED <<state, packet>>
             \/ /\ SubtypeCalls("subtype_update", "NO_MEM", n) /\ Fails /\ lost
                /\ k > 0
                /\ Subtyped(i, {})
                /\ LosesSubtypes(s, bye, mute, s.subtypes \ bye)
                /\ UNCHANGED <<state, packet, unsaid>>

-----------------------------------------------------------------------------
(* The delegated host; its functions post an action, whose execution this   *)
(* is.                                                                      *)

mdns_delegate_hostname_add ==
  /\ ~boxed
  /\ Calls("delegate_hostname_add", "OK") /\ Succeeds
  /\ boxed' = TRUE
  /\ UNCHANGED <<services, fate, air>>

(* Its services go one by one, those that come before the packet has nothing *)
(* to tell any more without a goodbye; then the host itself.  Answers that   *)
(* point to it stay, and are not written when no host is there any more.     *)
delegate_hostname_remove ==
  LET Here == {i \in 1..Len(services) : services[i].host = "box"}
      Before(i) == {services[j].id : j \in {k \in Here : k < i}}
      Silent == {i \in Here : \/ state # "RUNNING" /\ ~packet.made
                              \/ packet.hosts # {} \/ packet.services \ Before(i) # {}}
      Leaving(I) == {services[i] : i \in I}
  IN /\ boxed
     /\ Calls("delegate_hostname_remove", "OK")
     /\ boxed' = FALSE
     /\ Removes(Leaving(Here)) /\ Frees(Leaving(Here))
     /\ \E mute \in SUBSET Leaving(Here \ Silent) :
          /\ Charges(mute # {})
          /\ Airs(Removed(Removed(Air, Leaving(Silent), {}), Leaving(Here \ Silent), mute))

-----------------------------------------------------------------------------
(* The service task. *)

(* The third probe has been sent: mdns_priv_create_announce_from_probe. *)
ProbesEnd ==
  /\ fate = "none" /\ state = "PROBE" /\ packet.made
  /\ state' = "ANNOUNCE"
  /\ packet' = [packet EXCEPT !.hosts =
       {s.host : s \in {x \in Range(services) : x.id \in packet.services}} \cap ({"self"} \cup {h \in {"box"} : boxed})]
  /\ UNCHANGED <<services, boxed, heard, unsaid, stale, denied, fate, calls, fails>>

(* append_service_ptr_answers, append_txt_record *)
HeardAll(S) ==
  [ptr |-> heard.ptr \cup UNION {All(s) : s \in S},
   txt |-> [n \in AllNames |-> IF \E s \in S : s.name = n THEN (CHOOSE s \in S : s.name = n).txt ELSE heard.txt[n]]]

(* An announcement is sent, the last one or one before it. *)
AnnouncementSent ==
  /\ fate = "none" /\ state = "ANNOUNCE" /\ packet.made
  /\ heard' = HeardAll({s \in Range(services) : s.id \in packet.services})
  /\ unsaid' = unsaid \ packet.services
  /\ \/ packet' = [packet EXCEPT !.said = TRUE] /\ UNCHANGED state
     \/ packet' = Nothing /\ state' = "RUNNING"
  /\ UNCHANGED <<services, boxed, stale, denied, fate, calls, fails>>

-----------------------------------------------------------------------------
Arrays == UNION {[1..k -> Subtypes] : k \in 0..MaxArray}
GivenTexts == {t \in Texts : DOMAIN t \in {{}, Keys}}

Next ==
  \/ \E n \in Names \cup {NoName}, h \in Hosts :
       \/ /\ h = "self" \/ boxed
          /\ \E txt \in GivenTexts : mdns_service_add_for_host(n, h, txt)
       \/ \E txt \in GivenTexts : mdns_service_txt_set_for_host(n, h, txt)
       \/ mdns_service_remove_for_host(n, h)
       \/ \E new \in Names : mdns_service_instance_name_set_for_host(n, h, new)
       \/ \E k \in Keys : \/ \E v \in Values : mdns_service_txt_item_set_for_host(n, h, k, v)
                          \/ mdns_service_txt_item_remove_for_host(n, h, k)
  \/ \E n \in AllNames \cup {NoName} :
       \/ \E t \in Subtypes : mdns_service_subtype_remove_for_host(n, t)
       \/ \E a \in Arrays : \/ a # <<>> /\ mdns_service_subtype_add_multiple_items_for_host(n, a)
                            \/ mdns_service_subtype_update_multiple_items_for_host(n, a)
  \/ \E h \in Hosts : mdns_lookup_service(h)
  \/ mdns_service_remove_all \/ mdns_delegate_hostname_add \/ delegate_hostname_remove
  \/ ProbesEnd \/ AnnouncementSent

Spec == Init /\ [][Next]_vars

-----------------------------------------------------------------------------
Told(s) == s.id \notin packet.services \/ packet.said

(* Once its announcement is out, a listener holds what the service has: its *)
(* name, its subtypes and the TXT items as they are now, whatever calls,    *)
(* removals and failures came between; but for the services that a call     *)
(* left without an announcement, for want of memory too, and services of    *)
(* one name at two hosts.                                                   *)
ListenersUpToDate ==
  fate = "none" =>
    \A s \in Range(services) :
      s.id \notin unsaid /\ Told(s) /\ Namesakes({s}) = {} => All(s) \subseteq heard.ptr /\ heard.txt[s.name] = s.txt

(* A listener holds no name and no subtype that the device does not have,   *)
(* but for those that it was denied the goodbye of: the PCB was not         *)
(* running, or there was no memory for it.                                  *)
ListenersForget ==
  fate = "none" => heard.ptr \subseteq stale \cup UNION {All(s) : s \in Range(services)}

(* A call that adds a service, sets TXT items or adds subtypes, and runs    *)
(* out of memory, has left the services as they were.                       *)
NoMemoryNoChange ==
  [][calls' > calls /\ denied' \in {"service_add", "txt_set", "txt_item_set", "subtype_add"}
       => services' = services]_vars
=============================================================================
