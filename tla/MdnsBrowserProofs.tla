--------------------------- MODULE MdnsBrowserProofs ---------------------------
(***************************************************************************)
(* Types and safety of MdnsBrowser, proved for every value of its          *)
(* constants.                                                              *)
(***************************************************************************)
EXTENDS MdnsBrowser, MdnsServiceProofs

USE QueueLenAssumption, BrowserAssumption

Adds(b) == [type |-> "BROWSE_ADD", browse |-> b]

-----------------------------------------------------------------------------
(* Facts about the values of the variables. *)

LEMMA IdleIsNoAction == Idle \notin BrowseActions /\ Idle.type = "IDLE"
BY DEF Idle, BrowseActions

LEMMA ActionFields ==
  ASSUME NEW p \in BrowseActions
  PROVE  /\ p.type = "BROWSE_ADD" => p.browse \in Browses /\ p = Adds(p.browse)
         /\ p.type = "BROWSE_END" => p.service \in Types
         /\ p.type = "BROWSE_SYNC" => p.browse \in Browses /\ p.changed \in SUBSET Instances
         /\ p.type = "RX_HANDLE" => p.record \in Records
         /\ p.type \in {"BROWSE_ADD", "BROWSE_END", "BROWSE_SYNC", "RX_HANDLE"}
BY DEF BrowseActions, Adds

LEMMA ActionsMade ==
  /\ \A b \in Browses : Adds(b) \in BrowseActions
  /\ \A t \in Types : [type |-> "BROWSE_END", service |-> t] \in BrowseActions
  /\ \A b \in Browses, S \in SUBSET Instances :
       [type |-> "BROWSE_SYNC", browse |-> b, changed |-> S] \in BrowseActions
  /\ \A r \in Records : [type |-> "RX_HANDLE", record |-> r] \in BrowseActions
BY DEF BrowseActions, Adds

LEMMA RecordFields ==
  ASSUME NEW r \in Records
  PROVE  /\ r.ttl \in {0, 1}
         /\ r.type \in {"SRV", "TXT"} => r.service \in Types /\ r.instance \in Instances
         /\ r.type = "SRV" => r.host \in Hosts
         /\ r.type = "TXT" => r.txt \in Texts \cup {Absent}
         /\ r.type = "A" => r.host \in Hosts /\ r.addr \in Addrs
BY DEF Records

LEMMA NewTtlIsTtl ==
  ASSUME NEW old \in {0, 1}, NEW ttl \in {0, 1}
  PROVE  NewTtl(old, ttl) \in {0, 1}
BY DEF NewTtl

-----------------------------------------------------------------------------
(* Types. *)

(* What the data of the browses are, apart from the engine. *)
DataOK ==
  /\ lock \in {"none", "service"}
  /\ mem \in [Browses -> {"free", "live"}]
  /\ service \in [Browses -> Types]
  /\ results \in [Browses -> [Instances -> Results \cup {None}]]
  /\ told \in [Browses -> [Instances -> Results \cup {None}]]
  /\ lost \in [Browses -> SUBSET Instances]
  /\ s_browse \in SUBSET Browses
  /\ news \in 0..MaxNews /\ deletes \in 0..MaxDeletes /\ packets \in 0..MaxPackets

TypeInv == EngineOf(BrowseActions) /\ Len(actions) <= QueueLen /\ DataOK

LEMMA TypesAre == TypeInv <=> TypeOK
BY IdleIsNoAction DEF TypeInv, TypeOK, DataOK, EngineOf

LEMMA TypeInit == Init => TypeInv
<1> SUFFICES ASSUME Init PROVE TypeInv
  OBVIOUS
<1>1. EngineOf(BrowseActions) /\ Len(actions) <= QueueLen
  BY EngineStarts, IdleIsNoAction DEF Init
<1>2. Nothing \in [Instances -> Results \cup {None}]
  BY DEF Nothing
<1>3. DataOK
  BY <1>2 DEF Init, EngineInit, DataOK
<1> QED
  BY <1>1, <1>3 DEF TypeInv

(* A packet stores one result of a linked browse, or nothing. *)
LEMMA ParseStores ==
  ASSUME TypeInv, mdns_parse_packet
  PROVE  \/ UNCHANGED <<results, actions, lost>>
         \/ \E b \in s_browse, i \in Instances, new \in Results : Stores(b, i, new)
<1> DEFINE r == current.record
<1>1. r \in Records
  BY IdleIsNoAction, ActionFields DEF TypeInv, EngineOf, mdns_parse_packet, Executes
<1>2. SUFFICES ASSUME NEW b \in Found(r),
                      \/ r.type = "SRV" /\ mdns_priv_browse_result_add_srv(b, r)
                      \/ r.type = "TXT" /\ mdns_priv_browse_result_add_txt(b, r)
                      \/ r.type = "A" /\ mdns_priv_browse_result_add_ip(b, r)
               PROVE  \/ UNCHANGED <<results, actions, lost>>
                      \/ \E i \in Instances, new \in Results : Stores(b, i, new)
  BY DEF mdns_parse_packet, Found, Browsing
<1> HIDE DEF r
<1>3. /\ b \in Browses
      /\ \A i \in Instances : results[b][i] \in Results \cup {None}
  BY DEF Found, Browsing, TypeInv, DataOK
<1>4. CASE r.type = "SRV" /\ mdns_priv_browse_result_add_srv(b, r)
  <2>1. r.instance \in Instances /\ r.host \in Hosts /\ r.ttl \in {0, 1}
    BY <1>1, <1>4, RecordFields
  <2> DEFINE old == results[b][r.instance]
             first == [host |-> r.host, txt |-> Absent, addrs |-> {}, ttl |-> r.ttl]
  <2>2. CASE old = None
    <3>1. first \in Results
      BY <2>1 DEF Results
    <3> QED
      BY <1>4, <2>1, <2>2, <3>1 DEF mdns_priv_browse_result_add_srv
  <2>3. CASE old \in Results /\ old # None
    <3>1. PICK A \in Inherited(b, old, r.host) :
            Stores(b, r.instance,
                   [old EXCEPT !.host = r.host, !.addrs = A, !.ttl = NewTtl(old.ttl, r.ttl)])
      BY <1>4, <2>3 DEF mdns_priv_browse_result_add_srv
    <3>2. A \in SUBSET Addrs
      <4>1. \A i \in Instances : results[b][i] # None => results[b][i].addrs \in SUBSET Addrs
        BY <1>3 DEF Results
      <4>2. old.addrs \in SUBSET Addrs
        BY <2>3 DEF Results
      <4> QED
        BY <3>1, <4>1, <4>2 DEF Inherited, Housed
    <3>3. NewTtl(old.ttl, r.ttl) \in {0, 1}
      BY <2>1, <2>3, NewTtlIsTtl DEF Results
    <3>4. [old EXCEPT !.host = r.host, !.addrs = A, !.ttl = NewTtl(old.ttl, r.ttl)] \in Results
      BY <2>1, <2>3, <3>2, <3>3 DEF Results
    <3> QED
      BY <2>1, <3>1, <3>4
  <2> QED
    BY <1>3, <2>1, <2>2, <2>3
<1>5. CASE r.type = "TXT" /\ mdns_priv_browse_result_add_txt(b, r)
  <2>1. r.instance \in Instances /\ r.txt \in Texts \cup {Absent} /\ r.ttl \in {0, 1}
    BY <1>1, <1>5, RecordFields
  <2> DEFINE old == results[b][r.instance]
             new == IF old = None THEN [host |-> Absent, txt |-> r.txt, addrs |-> {}, ttl |-> r.ttl]
                    ELSE [old EXCEPT !.txt = r.txt, !.ttl = NewTtl(old.ttl, r.ttl)]
  <2>2. CASE old = None
    BY <1>5, <2>1, <2>2 DEF mdns_priv_browse_result_add_txt, Results
  <2>3. CASE old \in Results /\ old # None
    <3>1. NewTtl(old.ttl, r.ttl) \in {0, 1}
      BY <2>1, <2>3, NewTtlIsTtl DEF Results
    <3>2. [old EXCEPT !.txt = r.txt, !.ttl = NewTtl(old.ttl, r.ttl)] \in Results
      BY <2>1, <2>3, <3>1 DEF Results
    <3> QED
      BY <1>5, <2>1, <2>3, <3>2 DEF mdns_priv_browse_result_add_txt
  <2> QED
    BY <1>3, <2>1, <2>2, <2>3
<1>6. CASE r.type = "A" /\ mdns_priv_browse_result_add_ip(b, r)
  <2>1. r.addr \in Addrs /\ r.ttl \in {0, 1}
    BY <1>1, <1>6, RecordFields
  <2>2. SUFFICES ASSUME NEW i \in Housed(b, r.host),
                        Stores(b, i, [results[b][i] EXCEPT !.addrs = @ \cup {r.addr},
                                                           !.ttl = NewTtl(@, r.ttl)])
                 PROVE  \E j \in Instances, new \in Results : Stores(b, j, new)
    BY <1>6 DEF mdns_priv_browse_result_add_ip
  <2>3. i \in Instances /\ results[b][i] \in Results
    BY <1>3 DEF Housed
  <2>4. NewTtl(results[b][i].ttl, r.ttl) \in {0, 1}
    BY <2>1, <2>3, NewTtlIsTtl DEF Results
  <2>5. [results[b][i] EXCEPT !.addrs = @ \cup {r.addr}, !.ttl = NewTtl(@, r.ttl)] \in Results
    BY <2>1, <2>3, <2>4 DEF Results
  <2> QED
    BY <2>2, <2>3, <2>5
<1> QED
  BY <1>2, <1>4, <1>5, <1>6

LEMMA TypeStep == TypeInv /\ [Next]_vars => TypeInv'
<1> SUFFICES ASSUME TypeInv, [Next]_vars PROVE TypeInv'
  OBVIOUS
<1> USE DEF TypeInv, Room
<1>0. Len(actions) \in Nat
  BY DEF EngineOf
<1>1. ASSUME NEW t \in Types, mdns_browse_new(t) PROVE TypeInv'
  <2>1. PICK b \in Browses :
          /\ mem' = [mem EXCEPT ![b] = "live"]
          /\ service' = [service EXCEPT ![b] = t]
          /\ results' = [results EXCEPT ![b] = Nothing]
          /\ told' = [told EXCEPT ![b] = Nothing]
          /\ lost' = [lost EXCEPT ![b] = {}]
          /\ Enqueue(Adds(b))
    BY <1>1 DEF mdns_browse_new, Adds
  <2>2. Nothing \in [Instances -> Results \cup {None}]
    BY DEF Nothing
  <2>3. DataOK'
    BY <1>1, <2>1, <2>2 DEF DataOK, mdns_browse_new
  <2>4. EngineOf(BrowseActions)' /\ Len(actions') = Len(actions) + 1
    BY <1>1, <2>1, EnginePosts, ActionsMade DEF mdns_browse_new
  <2> QED
    BY <1>0, <1>1, <2>3, <2>4 DEF mdns_browse_new
<1>2. ASSUME NEW t \in Types, mdns_browse_delete(t) PROVE TypeInv'
  <2>1. DataOK'
    BY <1>2 DEF DataOK, mdns_browse_delete, browseVars
  <2>2. EngineOf(BrowseActions)' /\ Len(actions') = Len(actions) + 1
    BY <1>2, EnginePosts, ActionsMade DEF mdns_browse_delete
  <2> QED
    BY <1>0, <1>2, <2>1, <2>2 DEF mdns_browse_delete
<1>3. CASE PacketArrives
  <2>1. DataOK'
    BY <1>3 DEF DataOK, PacketArrives, browseVars
  <2>2. EngineOf(BrowseActions)' /\ Len(actions') = Len(actions) + 1
    BY <1>3, EnginePosts, ActionsMade DEF PacketArrives
  <2> QED
    BY <1>0, <1>3, <2>1, <2>2 DEF PacketArrives
<1>4. CASE ServiceReceives /\ UNCHANGED <<browseVars, boundVars>>
  <2>1. DataOK'
    BY <1>4 DEF DataOK, ServiceReceives, browseVars, boundVars
  <2>2. EngineOf(BrowseActions)' /\ Len(actions') = Len(actions) - 1
    BY <1>4, EngineReceives
  <2> QED
    BY <1>0, <2>1, <2>2
<1>5. CASE browse_add
  <2>0. current.browse \in Browses
    BY <1>5, IdleIsNoAction, ActionFields DEF EngineOf, browse_add, Executes
  <2>1. EngineOf(BrowseActions)' /\ DataOK'
    BY <1>5, <2>0 DEF EngineOf, DataOK, browse_add, Executes, boundVars
  <2> QED
    BY <1>5, <2>1 DEF browse_add
<1>6. CASE browse_finish
  <2>1. EngineOf(BrowseActions)' /\ DataOK'
    BY <1>6 DEF EngineOf, DataOK, browse_finish, Executes, Browsing, boundVars
  <2> QED
    BY <1>6, <2>1 DEF browse_finish
<1>7. CASE mdns_parse_packet
  <2> USE <1>7 DEF mdns_parse_packet, Executes
  <2>1. current \in BrowseActions /\ current' = Idle
    BY IdleIsNoAction DEF EngineOf
  <2>2. CASE UNCHANGED <<results, actions, lost>>
    BY <2>1, <2>2 DEF DataOK, EngineOf, boundVars
  <2>3. ASSUME NEW b \in s_browse, NEW i \in Instances, NEW new \in Results, Stores(b, i, new)
        PROVE  TypeInv'
    <3>1. b \in Browses
      BY DEF DataOK
    <3>2. /\ results' \in [Browses -> [Instances -> Results \cup {None}]]
          /\ lost' \in [Browses -> SUBSET Instances]
      BY <2>3, <3>1 DEF DataOK, Stores
    <3>3. DataOK'
      BY <3>2 DEF DataOK, boundVars
    <3>4. [type |-> "BROWSE_SYNC", browse |-> b, changed |-> {i}] \in BrowseActions
      BY <3>1, ActionsMade
    <3>5. EngineOf(BrowseActions)' /\ Len(actions') <= QueueLen
      BY <1>0, <2>1, <2>3, <3>4 DEF EngineOf, Enqueue, Stores
    <3> QED
      BY <3>3, <3>5
  <2> QED
    BY <2>2, <2>3, ParseStores
<1>8. CASE browse_sync
  <2> USE <1>8 DEF browse_sync, Executes
  <2>1. current \in BrowseActions
    BY IdleIsNoAction DEF EngineOf
  <2>2. current.browse \in Browses
    BY <2>1, ActionFields
  <2>3. /\ told' \in [Browses -> [Instances -> Results \cup {None}]]
        /\ lost' \in [Browses -> SUBSET Instances]
    BY <2>2 DEF DataOK, TellsOf
  <2>4. DataOK'
    BY <2>3 DEF DataOK, boundVars
  <2> QED
    BY <2>4 DEF EngineOf
<1>9. CASE browse_sync_goodbye
  <2>1. current.browse \in Browses /\ current.changed \in SUBSET Instances
    BY <1>9, IdleIsNoAction, ActionFields DEF EngineOf, browse_sync_goodbye
  <2>2. PICK i \in Instances :
          /\ told' = [told EXCEPT ![current.browse][i] = None]
          /\ results' = [results EXCEPT ![current.browse][i] = None]
          /\ lost' = [lost EXCEPT ![current.browse] = @ \ {i}]
    BY <1>9, <2>1 DEF browse_sync_goodbye
  <2>3. /\ told' \in [Browses -> [Instances -> Results \cup {None}]]
        /\ lost' \in [Browses -> SUBSET Instances]
    BY <2>1, <2>2 DEF DataOK
  <2>4. results' \in [Browses -> [Instances -> Results \cup {None}]]
    BY <2>1, <2>2 DEF DataOK
  <2>5. DataOK'
    BY <1>9, <2>3, <2>4 DEF DataOK, browse_sync_goodbye, boundVars
  <2> QED
    BY <1>9, <2>5 DEF browse_sync_goodbye, EngineOf
<1>10. CASE UNCHANGED vars
  BY <1>10 DEF vars, engineVars, browseVars, boundVars, EngineOf, DataOK
<1> QED
  BY <1>1, <1>2, <1>3, <1>4, <1>5, <1>6, <1>7, <1>8, <1>9, <1>10 DEF Next, Service

(* What a packet posts is a BROWSE_SYNC. *)
LEMMA ParsePosts ==
  ASSUME TypeInv, mdns_parse_packet
  PROVE  UNCHANGED actions \/ \E a \in BrowseActions : a.type = "BROWSE_SYNC" /\ Enqueue(a)
<1>1. s_browse \subseteq Browses
  BY DEF TypeInv, DataOK
<1> QED
  BY <1>1, ParseStores, ActionsMade DEF Stores

(* Every state is one of a browser. *)
THEOREM TypeCorrect == Spec => []TypeOK
<1>1. Spec => []TypeInv
  BY TypeInit, TypeStep, PTL DEF Spec
<1> QED
  BY <1>1, TypesAre, PTL

-----------------------------------------------------------------------------
(* Ownership.  A block is linked or about to be linked, never both; about   *)
(* to be linked only once; and of each type one at most is linked.          *)

OwnedInv ==
  /\ OneOwnedBrowsePerType
  /\ \A b \in Browses : Once(Adds(b))
  /\ \A b \in Browses : b \in s_browse => Adds(b) \notin Pending

LEMMA AddsApart ==
  /\ \A a, b \in Browses : Adds(a) = Adds(b) => a = b
  /\ \A p \in BrowseActions : p.type # "BROWSE_ADD" => \A b \in Browses : p # Adds(b)
BY DEF Adds

LEMMA OwnedInit == Init => OwnedInv
<1> SUFFICES ASSUME Init PROVE OwnedInv
  OBVIOUS
<1>1. Pending = {} /\ \A b \in Browses : Once(Adds(b))
  BY EngineStarts, IdleIsNoAction DEF Init
<1> QED
  BY <1>1 DEF Init, OwnedInv, OneOwnedBrowsePerType, Browsing, Adds

(* Steps that neither link, unlink nor allocate. *)
LEMMA OwnedStays ==
  ASSUME OwnedInv, UNCHANGED <<mem, service, s_browse>>,
         \A b \in Browses : Adds(b) \in Pending' <=> Adds(b) \in Pending,
         \A b \in Browses : Once(Adds(b))'
  PROVE  OwnedInv'
<1>1. s_browse' = s_browse /\ \A t \in Types : Browsing(t)' = Browsing(t)
  BY DEF Browsing
<1>2. OneOwnedBrowsePerType'
  BY <1>1 DEF OwnedInv, OneOwnedBrowsePerType, Adds
<1>3. \A b \in Browses : b \in s_browse' => Adds(b) \notin Pending'
  BY <1>1 DEF OwnedInv
<1> QED
  BY <1>1, <1>2, <1>3 DEF OwnedInv

LEMMA OwnedStep == TypeInv /\ OwnedInv /\ [Next]_vars => OwnedInv'
<1> SUFFICES ASSUME TypeInv, OwnedInv, [Next]_vars PROVE OwnedInv'
  OBVIOUS
<1>0. EngineOf(BrowseActions) /\ s_browse \subseteq Browses /\ s_browse' \subseteq Browses
  BY TypeStep DEF TypeInv, DataOK
<1>1. ASSUME NEW t \in Types, mdns_browse_new(t) PROVE OwnedInv'
  <2>1. PICK b \in Browses :
          /\ mem[b] = "free"
          /\ mem' = [mem EXCEPT ![b] = "live"]
          /\ service' = [service EXCEPT ![b] = t]
          /\ Enqueue(Adds(b))
    BY <1>1 DEF mdns_browse_new, Adds
  <2>2. Adds(b) \notin Pending /\ b \notin s_browse
    BY <2>1 DEF OwnedInv, OneOwnedBrowsePerType, Adds
  <2>3. /\ Pending' = Pending \cup {Adds(b)}
        /\ \A x \in Browses : Once(Adds(x))'
    BY <1>0, <1>1, <2>1, <2>2, EnginePosts, ActionsMade DEF OwnedInv, mdns_browse_new
  <2>4. s_browse' = s_browse /\ \A u \in Types : Browsing(u)' = Browsing(u)
    BY <1>0, <1>1, <2>1, <2>2 DEF Browsing, mdns_browse_new, TypeInv, DataOK
  <2>5. \A x \in Browses : Adds(x) \in Pending' <=> Adds(x) \in Pending \/ x = b
    BY <2>3, AddsApart
  <2>6. OneOwnedBrowsePerType'
    BY <2>1, <2>4, <2>5 DEF OwnedInv, OneOwnedBrowsePerType, Adds, TypeInv, DataOK
  <2>7. \A x \in s_browse' : Adds(x) \notin Pending'
    BY <1>0, <2>2, <2>4, <2>5 DEF OwnedInv
  <2> QED
    BY <2>3, <2>6, <2>7 DEF OwnedInv
<1>2. ASSUME NEW t \in Types, mdns_browse_delete(t) PROVE OwnedInv'
  <2>1. PICK a \in BrowseActions : a.type = "BROWSE_END" /\ Enqueue(a)
    BY <1>2, ActionsMade DEF mdns_browse_delete
  <2>2. \A b \in Browses : Once(Adds(b))' /\ (Adds(b) \in Pending' <=> Adds(b) \in Pending)
    BY <1>0, <1>2, <2>1, EnginePosts, AddsApart, ActionsMade DEF OwnedInv, mdns_browse_delete
  <2> QED
    BY <1>2, <2>2, OwnedStays DEF mdns_browse_delete, browseVars
<1>3. CASE PacketArrives
  <2>1. PICK a \in BrowseActions : a.type = "RX_HANDLE" /\ Enqueue(a)
    BY <1>3, ActionsMade DEF PacketArrives
  <2>2. \A b \in Browses : Once(Adds(b))' /\ (Adds(b) \in Pending' <=> Adds(b) \in Pending)
    BY <1>0, <1>3, <2>1, EnginePosts, AddsApart, ActionsMade DEF OwnedInv, PacketArrives
  <2> QED
    BY <1>3, <2>2, OwnedStays DEF PacketArrives, browseVars
<1>4. CASE ServiceReceives /\ UNCHANGED <<browseVars, boundVars>>
  <2>1. \A b \in Browses : Once(Adds(b))' /\ (Adds(b) \in Pending' <=> Adds(b) \in Pending)
    BY <1>0, <1>4, EngineReceives, ActionsMade DEF OwnedInv
  <2> QED
    BY <1>4, <2>1, OwnedStays DEF browseVars
<1>5. ASSUME current \in BrowseActions, current' = Idle, UNCHANGED actions
      PROVE  /\ \A b \in Browses : Once(Adds(b))'
             /\ \A b \in Browses : Adds(b) \in Pending' <=> Adds(b) \in Pending /\ Adds(b) # current
             /\ current \in Pending
  <2>1. /\ Pending = Pending' \cup {current}
        /\ Once(current) => current \notin Pending'
        /\ \A b \in BrowseActions : Once(b) => Once(b)'
    BY <1>0, <1>5, EngineExecutes
  <2> QED
    BY <2>1, ActionsMade DEF OwnedInv
<1>6. CASE browse_add
  <2>1. /\ current \in BrowseActions /\ current' = Idle /\ UNCHANGED actions
        /\ current.browse \in Browses /\ current = Adds(current.browse)
    BY <1>0, <1>6, IdleIsNoAction, ActionFields DEF EngineOf, browse_add, Executes
  <2> DEFINE c == current.browse
  <2>2. /\ \A b \in Browses : Adds(b) \in Pending' <=> Adds(b) \in Pending /\ b # c
        /\ Adds(c) \in Pending
    BY <1>5, <2>1, AddsApart
  <2>3. mem[c] = "live" /\ c \notin s_browse
    BY <2>1, <2>2 DEF OwnedInv, OneOwnedBrowsePerType, Adds
  <2>4. UNCHANGED service
    BY <1>6 DEF browse_add
  <2>5. CASE Browsing(service[c]) = {} /\ s_browse' = s_browse \cup {c} /\ UNCHANGED mem
    <3>1. \A u \in Types : \A x, y \in Browsing(u)' : x = y
      BY <2>1, <2>4, <2>5 DEF Browsing, OwnedInv, OneOwnedBrowsePerType
    <3>2. \A x \in Browses : mem'[x] = "live" <=> x \in s_browse' \/ Adds(x) \in Pending'
      BY <2>2, <2>3, <2>5 DEF OwnedInv, OneOwnedBrowsePerType, Adds
    <3>3. \A x \in s_browse' : Adds(x) \notin Pending'
      BY <1>0, <2>2, <2>5 DEF OwnedInv
    <3> QED
      BY <1>5, <2>1, <3>1, <3>2, <3>3 DEF OwnedInv, OneOwnedBrowsePerType, Adds
  <2>6. CASE mem' = [mem EXCEPT ![c] = "free"] /\ UNCHANGED s_browse
    <3>1. \A u \in Types : \A x, y \in Browsing(u)' : x = y
      BY <2>4, <2>6 DEF Browsing, OwnedInv, OneOwnedBrowsePerType
    <3>2. \A x \in Browses : mem'[x] = "live" <=> x \in s_browse' \/ Adds(x) \in Pending'
      BY <2>2, <2>3, <2>6 DEF OwnedInv, OneOwnedBrowsePerType, Adds, TypeInv, DataOK
    <3>3. \A x \in s_browse' : Adds(x) \notin Pending'
      BY <1>0, <2>2, <2>6 DEF OwnedInv
    <3> QED
      BY <1>5, <2>1, <3>1, <3>2, <3>3 DEF OwnedInv, OneOwnedBrowsePerType, Adds
  <2> QED
    BY <1>6, <2>5, <2>6 DEF browse_add
<1>7. CASE browse_finish
  <2>1. current \in BrowseActions /\ current' = Idle /\ UNCHANGED actions /\ current.type = "BROWSE_END"
    BY <1>0, <1>7, IdleIsNoAction DEF EngineOf, browse_finish, Executes
  <2>2. \A b \in Browses : Adds(b) \in Pending' <=> Adds(b) \in Pending
    BY <1>5, <2>1, AddsApart
  <2> DEFINE G == Browsing(current.service)
  <2>3. /\ UNCHANGED service /\ G \subseteq s_browse /\ s_browse' = s_browse \ G
        /\ mem' = [b \in Browses |-> IF b \in G THEN "free" ELSE mem[b]]
    BY <1>7 DEF browse_finish, Browsing
  <2> HIDE DEF G
  <2>4. \A u \in Types : \A x, y \in Browsing(u)' : x = y
    BY <2>3 DEF Browsing, OwnedInv, OneOwnedBrowsePerType
  <2>5. \A x \in Browses : mem'[x] = "live" <=> x \in s_browse' \/ Adds(x) \in Pending'
    BY <2>2, <2>3 DEF OwnedInv, OneOwnedBrowsePerType, Adds
  <2>6. \A x \in s_browse' : Adds(x) \notin Pending'
    BY <1>0, <2>2, <2>3 DEF OwnedInv
  <2> QED
    BY <1>5, <2>1, <2>4, <2>5, <2>6 DEF OwnedInv, OneOwnedBrowsePerType, Adds
<1>8. CASE mdns_parse_packet
  <2>1. current \in BrowseActions /\ current' = Idle /\ current.type = "RX_HANDLE"
    BY <1>0, <1>8, IdleIsNoAction DEF EngineOf, mdns_parse_packet, Executes
  <2>2. CASE UNCHANGED actions
    BY <1>5, <1>8, <2>1, <2>2, AddsApart, OwnedStays DEF mdns_parse_packet
  <2>3. ASSUME NEW a \in BrowseActions, a.type = "BROWSE_SYNC", Enqueue(a) PROVE OwnedInv'
    <3>1. \A b \in Browses : Once(Adds(b))' /\ (Adds(b) \in Pending' <=> Adds(b) \in Pending)
      BY <1>0, <2>1, <2>3, EngineFollowsUp, AddsApart, ActionsMade DEF OwnedInv
    <3> QED
      BY <1>8, <3>1, OwnedStays DEF mdns_parse_packet
  <2> QED
    BY <1>8, <2>2, <2>3, ParsePosts
<1>9. CASE browse_sync
  <2>1. current \in BrowseActions /\ current' = Idle /\ UNCHANGED actions /\ current.type = "BROWSE_SYNC"
    BY <1>0, <1>9, IdleIsNoAction DEF EngineOf, browse_sync, Executes
  <2> QED
    BY <1>5, <1>9, <2>1, AddsApart, OwnedStays DEF browse_sync
<1>10. ASSUME UNCHANGED <<actions, current, mem, service, s_browse>> PROVE OwnedInv'
  BY <1>0, <1>10, EngineRests, ActionsMade, OwnedStays DEF OwnedInv
<1>11. CASE browse_sync_goodbye \/ UNCHANGED vars
  BY <1>10, <1>11 DEF browse_sync_goodbye, vars, engineVars, browseVars
<1> QED
  BY <1>1, <1>2, <1>3, <1>4, <1>6, <1>7, <1>8, <1>9, <1>11 DEF Next, Service

(* Each type is browsed for once, and every allocated browse has one owner  *)
(* that will free or link it.                                               *)
THEOREM BrowsesOwned == Spec => []OneOwnedBrowsePerType
<1>1. OwnedInv => OneOwnedBrowsePerType
  BY DEF OwnedInv
<1> QED
  BY <1>1, TypeInit, TypeStep, OwnedInit, OwnedStep, PTL DEF Spec

-----------------------------------------------------------------------------
(* Notifications.  What the notifier does not know is on its way, or has    *)
(* been lost, for every allocated browse, linked or not.                    *)

ReportedOn(b, i) ==
  Known(told[b][i], results[b][i]) \/ SyncPending(b, i) \/ i \in lost[b]

ReportedInv ==
  \A b \in Browses, i \in Instances : mem[b] = "live" => ReportedOn(b, i)

(* Nothing but an action that reports other results has been executed. *)
LEMMA SyncKept ==
  ASSUME NEW b, NEW i, SyncPending(b, i), NEW done, Pending \subseteq Pending' \cup {done},
         done.type = "BROWSE_SYNC" /\ done.browse = b => i \notin done.changed
  PROVE  SyncPending(b, i)'
BY DEF SyncPending

(* A change that add_browse_result is not called for is one of a text that  *)
(* the user does not miss.                                                  *)
LEMMA UnreportedIsKnown ==
  ASSUME NEW before \in Results \cup {None}, NEW old \in Results \cup {None},
         NEW new \in Results, Known(before, old), ~Changed(old, new)
  PROVE  Known(before, new)
<1>1. old \in Results
  BY DEF Changed
<1>2. /\ new.host = old.host /\ new.addrs = old.addrs /\ new.ttl = old.ttl
      /\ old.txt = Absent \/ new.txt = old.txt
  BY DEF Changed
<1>3. new = [old EXCEPT !.txt = new.txt]
  BY <1>1, <1>2 DEF Results
<1>4. CASE old.txt # Absent
  <2>1. new = old
    BY <1>1, <1>2, <1>4 DEF Results
  <2> QED
    BY <2>1
<1>5. CASE old = before /\ old.txt = Absent
  BY <1>3, <1>5 DEF Known, Changed
<1>6. CASE before # None /\ before.txt = Absent /\ old = [before EXCEPT !.txt = old.txt]
  <2>1. new = [before EXCEPT !.txt = new.txt]
    BY <1>1, <1>3, <1>6 DEF Results
  <2> QED
    BY <1>6, <2>1 DEF Known
<1> QED
  BY <1>4, <1>5, <1>6 DEF Known

(* Steps that tell, store and lose nothing. *)
LEMMA ReportedStays ==
  ASSUME DataOK, ReportedInv, UNCHANGED <<results, told, lost>>,
         \A b \in Browses : mem'[b] = "live" => mem[b] = "live",
         \A b \in Browses, i \in Instances : SyncPending(b, i) => SyncPending(b, i)'
  PROVE  ReportedInv'
BY DEF ReportedInv, ReportedOn

LEMMA ReportedStep == TypeInv /\ ReportedInv /\ [Next]_vars => ReportedInv'
<1> SUFFICES ASSUME TypeInv, ReportedInv, [Next]_vars PROVE ReportedInv'
  OBVIOUS
<1>0. EngineOf(BrowseActions) /\ DataOK
  BY DEF TypeInv
<1>1. ASSUME NEW t \in Types, mdns_browse_new(t) PROVE ReportedInv'
  <2>1. PICK b \in Browses :
          /\ mem' = [mem EXCEPT ![b] = "live"]
          /\ results' = [results EXCEPT ![b] = Nothing]
          /\ told' = [told EXCEPT ![b] = Nothing]
          /\ lost' = [lost EXCEPT ![b] = {}]
          /\ Enqueue(Adds(b))
    BY <1>1 DEF mdns_browse_new, Adds
  <2>2. Pending' = Pending \cup {Adds(b)}
    BY <1>0, <1>1, <2>1, EnginePosts, ActionsMade DEF mdns_browse_new
  <2>3. results'[b] = told'[b]
    BY <1>0, <2>1 DEF DataOK
  <2>4. \A x \in Browses : x # b => UNCHANGED <<mem[x], results[x], told[x], lost[x]>>
    BY <1>0, <2>1 DEF DataOK
  <2>5. \A x \in Browses, i \in Instances : SyncPending(x, i) => SyncPending(x, i)'
    BY <2>2 DEF SyncPending
  <2>6. \A i \in Instances : ReportedOn(b, i)'
    BY <2>3 DEF ReportedOn, Known
  <2>7. \A x \in Browses, i \in Instances : x # b /\ ReportedOn(x, i) => ReportedOn(x, i)'
    BY <2>4, <2>5 DEF ReportedOn
  <2> QED
    BY <2>4, <2>6, <2>7 DEF ReportedInv
<1>2. ASSUME NEW t \in Types, mdns_browse_delete(t) PROVE ReportedInv'
  <2>1. PICK a \in BrowseActions : Enqueue(a)
    BY <1>2, ActionsMade DEF mdns_browse_delete
  <2>2. Pending \subseteq Pending'
    BY <1>0, <1>2, <2>1, EnginePosts DEF mdns_browse_delete
  <2> QED
    BY <1>0, <1>2, <2>2, ReportedStays DEF SyncPending, mdns_browse_delete, browseVars
<1>3. CASE PacketArrives
  <2>1. PICK a \in BrowseActions : Enqueue(a)
    BY <1>3, ActionsMade DEF PacketArrives
  <2>2. Pending \subseteq Pending'
    BY <1>0, <1>3, <2>1, EnginePosts DEF PacketArrives
  <2> QED
    BY <1>0, <1>3, <2>2, ReportedStays DEF SyncPending, PacketArrives, browseVars
<1>4. CASE ServiceReceives /\ UNCHANGED <<browseVars, boundVars>>
  <2>1. Pending' = Pending
    BY <1>0, <1>4, EngineReceives
  <2> QED
    BY <1>0, <1>4, <2>1, ReportedStays DEF SyncPending, browseVars
<1>5. ASSUME current \in BrowseActions, current' = Idle, UNCHANGED actions
      PROVE  Pending = Pending' \cup {current}
  BY <1>0, <1>5, EngineExecutes
<1>6. CASE browse_add \/ browse_finish
  <2>1. /\ current \in BrowseActions /\ current' = Idle /\ UNCHANGED actions
        /\ current.type # "BROWSE_SYNC"
    BY <1>0, <1>6, IdleIsNoAction DEF EngineOf, browse_add, browse_finish, Executes
  <2>2. UNCHANGED <<results, told, lost>> /\ \A b \in Browses : mem'[b] = "live" => mem[b] = "live"
    BY <1>0, <1>6 DEF browse_add, browse_finish, DataOK
  <2>3. Pending = Pending' \cup {current}
    BY <1>5, <2>1
  <2>4. \A b \in Browses, i \in Instances : SyncPending(b, i) => SyncPending(b, i)'
    BY <2>1, <2>3, SyncKept
  <2> QED
    BY <1>0, <2>2, <2>4, ReportedStays
<1>7. CASE mdns_parse_packet
  <2>1. /\ current \in BrowseActions /\ current' = Idle /\ current.type = "RX_HANDLE"
        /\ UNCHANGED <<mem, told>>
    BY <1>0, <1>7, IdleIsNoAction DEF EngineOf, mdns_parse_packet, Executes
  <2>2. CASE UNCHANGED <<results, actions, lost>>
    <3>1. \A b \in Browses, i \in Instances : SyncPending(b, i) => SyncPending(b, i)'
      BY <1>5, <2>1, <2>2, SyncKept
    <3> QED
      BY <1>0, <2>1, <2>2, <3>1, ReportedStays
  <2>3. ASSUME NEW b \in s_browse, NEW i \in Instances, NEW new \in Results, Stores(b, i, new)
        PROVE  ReportedInv'
    <3>0. b \in Browses
      BY <1>0 DEF DataOK
    <3>1. \A x \in Browses, j \in Instances :
            results'[x][j] = IF x = b /\ j = i THEN new ELSE results[x][j]
      BY <1>0, <2>3, <3>0 DEF DataOK, Stores
    <3>2. \A x \in Browses : lost[x] \subseteq lost'[x]
      BY <1>0, <2>3, <3>0 DEF DataOK, Stores
    <3>3. \A x \in Browses, j \in Instances : SyncPending(x, j) => SyncPending(x, j)'
      <4>1. UNCHANGED actions \/ \E a \in BrowseActions : Enqueue(a)
        BY <2>3, <3>0, ActionsMade DEF Stores
      <4>2. Pending \subseteq Pending' \cup {current}
        BY <1>0, <1>5, <2>1, <4>1, EngineFollowsUp
      <4> QED
        BY <2>1, <4>2, SyncKept
    <3>4. \A x \in Browses, j \in Instances :
            (x # b \/ j # i) /\ ReportedOn(x, j) => ReportedOn(x, j)'
      BY <2>1, <3>1, <3>2, <3>3 DEF ReportedOn
    <3>5. ReportedOn(b, i) => ReportedOn(b, i)'
      <4>1. CASE ~Changed(results[b][i], new)
        <5>1. told[b][i] \in Results \cup {None} /\ results[b][i] \in Results \cup {None}
          BY <1>0, <3>0 DEF DataOK
        <5>2. Known(told[b][i], results[b][i]) => Known(told[b][i], new)
          BY <4>1, <5>1, UnreportedIsKnown
        <5>3. results'[b][i] = new /\ told' = told
          BY <2>1, <3>0, <3>1
        <5> QED
          BY <3>0, <3>2, <3>3, <5>2, <5>3 DEF ReportedOn
      <4>2. CASE Changed(results[b][i], new) /\ Room
        <5> DEFINE a == [type |-> "BROWSE_SYNC", browse |-> b, changed |-> {i}]
        <5>1. Enqueue(a) /\ a \in BrowseActions
          BY <2>3, <3>0, <4>2, ActionsMade DEF Stores
        <5>2. a \in Pending'
          BY <1>0, <2>1, <5>1, EngineFollowsUp
        <5> QED
          BY <5>2 DEF ReportedOn, SyncPending
      <4>3. CASE Changed(results[b][i], new) /\ ~Room
        BY <1>0, <2>3, <3>0, <4>3 DEF Stores, ReportedOn, DataOK
      <4> QED
        BY <4>1, <4>2, <4>3
    <3> QED
      BY <2>1, <3>0, <3>4, <3>5 DEF ReportedInv
  <2> QED
    BY <1>7, <2>2, <2>3, ParseStores
<1>8. CASE browse_sync
  <2> DEFINE c == current.browse
             S == current.changed
  <2>1. /\ current \in BrowseActions /\ current' = Idle /\ UNCHANGED actions
        /\ current.type = "BROWSE_SYNC" /\ c \in Browses /\ S \in SUBSET Instances
    BY <1>0, <1>8, IdleIsNoAction, ActionFields DEF EngineOf, browse_sync, Executes
  <2>2. UNCHANGED <<mem, results>>
    BY <1>8 DEF browse_sync
  <2>3. \A x \in Browses, j \in Instances :
          told'[x][j] = IF x = c /\ j \in S THEN results[c][j] ELSE told[x][j]
    BY <1>0, <1>8, <2>1 DEF browse_sync, TellsOf, DataOK
  <2>4. \A x \in Browses, j \in Instances :
          (x # c \/ j \notin S) /\ j \in lost[x] => j \in lost'[x]
    BY <1>0, <1>8, <2>1 DEF browse_sync, TellsOf, DataOK
  <2>5. Pending = Pending' \cup {current}
    BY <1>5, <2>1
  <2>6. \A x \in Browses, j \in Instances :
          SyncPending(x, j) /\ (x # c \/ j \notin S) => SyncPending(x, j)'
    BY <2>5, SyncKept
  <2>7. \A x \in Browses, j \in Instances : ReportedOn(x, j) => ReportedOn(x, j)'
    BY <2>2, <2>3, <2>4, <2>6 DEF ReportedOn, Known
  <2> QED
    BY <2>2, <2>7 DEF ReportedInv
<1>9. CASE browse_sync_goodbye
  <2>1. current.browse \in Browses /\ current.changed \in SUBSET Instances
    BY <1>0, <1>9, IdleIsNoAction, ActionFields DEF EngineOf, browse_sync_goodbye
  <2>2. PICK i \in Instances :
          /\ told' = [told EXCEPT ![current.browse][i] = None]
          /\ results' = [results EXCEPT ![current.browse][i] = None]
          /\ lost' = [lost EXCEPT ![current.browse] = @ \ {i}]
    BY <1>9, <2>1 DEF browse_sync_goodbye
  <2>3. Pending' = Pending /\ UNCHANGED mem
    BY <1>0, <1>9, EngineRests DEF browse_sync_goodbye
  <2>4. \A x \in Browses, j \in Instances : SyncPending(x, j) => SyncPending(x, j)'
    BY <2>3 DEF SyncPending
  <2>5. \A x \in Browses, j \in Instances :
          \/ results'[x][j] = told'[x][j]
          \/ /\ results'[x][j] = results[x][j] /\ told'[x][j] = told[x][j]
             /\ j \in lost[x] => j \in lost'[x]
    BY <1>0, <2>1, <2>2 DEF DataOK
  <2>6. \A x \in Browses, j \in Instances : ReportedOn(x, j) => ReportedOn(x, j)'
    BY <2>4, <2>5 DEF ReportedOn, Known
  <2> QED
    BY <2>3, <2>6 DEF ReportedInv
<1>10. CASE UNCHANGED vars
  <2>1. Pending' = Pending
    BY <1>0, <1>10, EngineRests DEF vars, engineVars
  <2> QED
    BY <1>0, <1>10, <2>1, ReportedStays DEF SyncPending, vars, browseVars
<1> QED
  BY <1>1, <1>2, <1>3, <1>4, <1>6, <1>7, <1>8, <1>9, <1>10 DEF Next, Service

(* The notifier gets to know every change of the results, apart from a      *)
(* first text and from what found the queue full, whatever the calls and    *)
(* packets and however small the queue.                                     *)
THEOREM ChangesReach == Spec => []ChangesReported
<1>1. Init => ReportedInv
  BY DEF Init, ReportedInv
<1>2. TypeInv /\ OwnedInv /\ ReportedInv => ChangesReported
  BY DEF TypeInv, DataOK, OwnedInv, OneOwnedBrowsePerType, ReportedInv, ReportedOn, ChangesReported
<1> QED
  BY <1>1, <1>2, TypeInit, TypeStep, OwnedInit, OwnedStep, ReportedStep, PTL DEF Spec
=============================================================================
