----------------------------- MODULE MdnsResponder -----------------------------
(***************************************************************************)
(* The responder of the mdns component: the host name, the services and    *)
(* their instance names (mdns_responder.c), the interfaces that come and   *)
(* go (mdns_netif.c) and the conflicts that other hosts' packets show      *)
(* (mdns_receive.c), each of which starts probes and announcements on the  *)
(* PCBs while the packets of earlier ones are on their way.                *)
(*                                                                         *)
(* A service is identified with its block of memory.  Its instance name is *)
(* its own, or the default one of the server, or else the host name.       *)
(***************************************************************************)
EXTENDS MdnsPcb

CONSTANTS
  Type,   (* the service type of a service                                 *)
  Twin,   (* the PCB of the interface that may share a subnet: `duplicate`; *)
          (* its twin is the PCB itself (set_default_duplicated_interfaces) *)
  MaxCalls, MaxEvents, MaxPackets

ASSUME ResponderAssumption ==
  /\ IsFiniteSet(Pcbs) /\ Services \cap {"self", "freed"} = {}
  /\ Twin \in [Pcbs -> Pcbs] /\ \A c \in Pcbs : Twin[Twin[c]] = c
  /\ MaxCalls \in Nat /\ MaxEvents \in Nat /\ MaxPackets \in Nat /\ MaxFails \in Nat

VARIABLES
  services,  (* s_server->services                                         *)
  own,       (* those with an instance name of their own                   *)
  instance,  (* has the server a default instance name                     *)
  calls, events, packets

serverVars == <<services, own, instance>>
boundVars  == <<calls, events, packets>>
vars == <<engineVars, tx, cursor, host, pcbVars, serverVars, boundVars>>

ResponderActions ==
  [type : {"TX"}, packet : Packets]
    \cup [type : {"RX"}, pcb : Pcbs]
    \cup [type : {"EVENT"}, pcb : Pcbs, what : {"enable", "disable", "announce"}]
    \cup [type : {"HOSTNAME", "INSTANCE"}]

TypeOK ==
  /\ actions \in Seq(ResponderActions) /\ Len(actions) <= QueueLen
  /\ current \in ResponderActions \cup {Idle}
  /\ lock = IF cursor = 0 THEN "none" ELSE "timer"
  /\ TransmitTypeOK
  /\ PcbTypeOK
  /\ services \in SUBSET Services /\ own \in SUBSET services /\ instance \in BOOLEAN
  /\ calls \in 0..MaxCalls /\ events \in 0..MaxEvents /\ packets \in 0..MaxPackets

(* mdns_init: a PCB whose interface has an address already is enabled, and  *)
(* has nothing to probe for.                                                *)
Init ==
  /\ EngineInit
  /\ tx = <<>> /\ cursor = 0
  /\ \E up \in SUBSET Pcbs :
       pcb = [c \in Pcbs |-> IF c \in up THEN [Off EXCEPT !.state = "RUNNING", !.ready = TRUE] ELSE Off]
  /\ host = FALSE
  /\ asked = [c \in Pcbs |-> [s \in Services |-> 0]]
  /\ dropped = [c \in Pcbs |-> {}]
  /\ spoilt = {} /\ fails = 0
  /\ services = {} /\ own = {} /\ instance = FALSE
  /\ calls = 0 /\ events = 0 /\ packets = 0

(* And much later: every service has been asked for and is served. *)
InitServed ==
  /\ EngineInit
  /\ tx = <<>> /\ cursor = 0
  /\ pcb = [c \in Pcbs |-> [Off EXCEPT !.state = "RUNNING", !.ready = TRUE]]
  /\ host = TRUE
  /\ asked = [c \in Pcbs |-> [s \in Services |-> 3]]
  /\ dropped = [c \in Pcbs |-> {}]
  /\ spoilt = {} /\ fails = 0
  /\ services = Services /\ own = {} /\ instance = FALSE
  /\ calls = 0 /\ events = 0 /\ packets = 0

Defaults == services \ own   (* services without an instance name *)

Renamed(S) == asked' = [c \in Pcbs |-> [s \in Services |-> IF s \in S THEN 0 ELSE asked[c][s]]]

-----------------------------------------------------------------------------
(* What the API does under the lock, in the caller's task. *)

Calls ==
  /\ calls < MaxCalls /\ calls' = calls + 1
  /\ lock = "none"
  /\ UNCHANGED <<current, lock, cursor, events, packets>>

mdns_service_add(s, named) ==
  /\ Calls
  /\ host /\ s \notin services
  /\ services' = services \cup {s}
  /\ own' = IF named THEN own \cup {s} ELSE own
  /\ UNCHANGED <<actions, host, instance, asked>>
  /\ ProbesBegin(Ready, {s}, FALSE, FALSE, tx, pcb, {})

(* The goodbye of a running PCB changes nothing here. *)
mdns_service_remove(s) ==
  /\ Calls
  /\ s \in services
  /\ services' = services \ {s}
  /\ own' = own \ {s}
  /\ \E t \in [Pcbs -> {x \in Services : Type[x] = Type[s]}] :
       /\ \A c \in Pcbs : t[c] = s \/ t[c] \in pcb[c].services
       /\ RemovesScheduled(s, t)
  /\ UNCHANGED <<actions, host, instance>>

(* mdns_service_port_set announces the addresses too; the functions for TXT *)
(* items and subtypes do not.                                               *)
mdns_service_change(s, ip) ==
  /\ Calls
  /\ s \in services
  /\ UNCHANGED <<actions, host, serverVars, asked>>
  /\ Announces(Pcbs, {s}, ip, tx, pcb)

mdns_service_instance_name_set(s) ==
  /\ Calls
  /\ s \in services
  /\ own' = own \cup {s}
  /\ Renamed({s})
  /\ UNCHANGED <<actions, host, services, instance>>
  /\ ProbesBegin(Ready, {s}, FALSE, FALSE,
       AfterFree(tx, IF s \in own THEN {<<s, "instance">>} ELSE {}, {}), pcb, {})

(* Two functions only post an action; they report a full queue. *)
mdns_hostname_set ==
  /\ Calls
  /\ Room /\ Enqueue([type |-> "HOSTNAME"])
  /\ UNCHANGED <<tx, host, pcbVars, serverVars>>

mdns_instance_name_set ==
  /\ Calls
  /\ host
  /\ Room /\ Enqueue([type |-> "INSTANCE"])
  /\ UNCHANGED <<tx, host, pcbVars, serverVars>>

-----------------------------------------------------------------------------
(* New names: the strings that go, and the probes for the new ones. *)

NewHostName ==
  /\ host' = TRUE
  /\ Renamed(IF instance THEN {} ELSE Defaults)
  /\ UNCHANGED serverVars
  /\ ProbesBegin(Ready, services, TRUE, TRUE, <<>>, pcb, {})

(* Mutant: the probes that are under way are not begun again. *)
NewInstanceNameLater ==
  /\ instance' = TRUE
  /\ UNCHANGED <<host, services, own>>
  /\ Renamed(Defaults)
  /\ tx' = AfterFree(tx, IF instance THEN {<<s, "instance">> : s \in Defaults} ELSE {}, {})
  /\ UNCHANGED <<pcb, dropped, spoilt, fails>>

NewInstanceName ==
  /\ instance' = TRUE
  /\ UNCHANGED <<host, services, own>>
  /\ Renamed(Defaults)
  /\ IF Defaults = {}
     THEN UNCHANGED <<tx, pcb, dropped, spoilt, fails>>
     ELSE ProbesBegin(Ready, Defaults, FALSE, TRUE,
            AfterFree(tx, IF instance THEN {<<s, "instance">> : s \in Defaults} ELSE {}, {}), pcb, {})

(* ACTION_HOSTNAME_SET and ACTION_INSTANCE_SET of mdns_priv_responder_action *)
HostNameSet ==
  /\ Executes("HOSTNAME")
  /\ NewHostName
  /\ UNCHANGED <<actions, cursor, boundVars>>

InstanceNameSet ==
  /\ Executes("INSTANCE")
  /\ NewInstanceName
  /\ UNCHANGED <<actions, cursor, boundVars>>

-----------------------------------------------------------------------------
(* Interfaces. *)

Enables(c, q, r) ==
  \/ /\ ~r[c].ready   (* mdns_priv_if_init fails *)
     /\ pcb' = r /\ tx' = q
     /\ UNCHANGED <<dropped, spoilt, fails>>
  \/ ProbesBegin({c}, services, TRUE, FALSE, q, [r EXCEPT ![c].ready = TRUE], {})

mdns_priv_pcb_enable ==
  /\ Executes("EVENT") /\ current.what = "enable"
  /\ UNCHANGED <<actions, cursor, host, asked, serverVars, boundVars>>
  /\ Enables(current.pcb, tx, pcb)

Forgotten(c) == [asked EXCEPT ![c] = [s \in Services |-> 0]]

(* Mutant: its duplicate is not brought back. *)
disable_alone ==
  /\ Executes("EVENT") /\ current.what = "disable"
  /\ UNCHANGED <<actions, cursor, host, serverVars, boundVars>>
  /\ LET c == current.pcb
     IN /\ asked' = Forgotten(c)
        /\ pcb' = IF pcb[c].ready THEN Deinited({c}) ELSE [pcb EXCEPT ![c].state = "OFF"]
        /\ tx' = IF pcb[c].ready THEN Cleared(tx, {c}) ELSE tx
        /\ UNCHANGED <<dropped, spoilt, fails>>

(* A duplicate of the interface takes over. *)
mdns_priv_pcb_disable ==
  /\ Executes("EVENT") /\ current.what = "disable"
  /\ UNCHANGED <<actions, cursor, host, serverVars, boundVars>>
  /\ LET c == current.pcb
         d == Twin[c]
     IN /\ asked' = Forgotten(c)
        /\ IF ~pcb[c].ready
           THEN /\ pcb' = [pcb EXCEPT ![c].state = "OFF"]
                /\ UNCHANGED <<tx, dropped, spoilt, fails>>
           ELSE IF d # c /\ pcb[d].state = "DUP"
           THEN Enables(d, Cleared(tx, {c}), [Deinited({c}) EXCEPT ![d].state = "OFF"])
           ELSE /\ pcb' = Deinited({c})
                /\ tx' = Cleared(tx, {c})
                /\ UNCHANGED <<dropped, spoilt, fails>>

AnnounceEvent ==
  /\ Executes("EVENT") /\ current.what = "announce"
  /\ UNCHANGED <<actions, cursor, host, asked, serverVars, boundVars>>
  /\ Announces({current.pcb}, {}, TRUE, tx, pcb)

-----------------------------------------------------------------------------
(* Packets of other hosts: mdns_parse_packet.  What a packet holds is       *)
(* chosen when it is parsed.                                                *)

Parses ==
  /\ Executes("RX")
  /\ UNCHANGED <<actions, cursor, boundVars>>

(* Not about our names, our own, malformed, or won by us. *)
PacketIgnored ==
  /\ Parses
  /\ UNCHANGED <<tx, host, pcbVars, serverVars>>

(* A question about one of our names is answered with the others' answers   *)
(* or at once (shared or not), when the names have been probed.             *)
QuestionAnswered(x) ==
  /\ Parses
  /\ LET c == current.pcb
     IN /\ host /\ (Announcing(c) \/ pcb[c].state = "RUNNING")
        /\ tx' \in SentAfter(tx, Allocated(NewIds(tx, {c})[c], c, "answer", {}, {x}, FALSE))
  /\ UNCHANGED <<host, pcbVars, serverVars>>

AnswerSuppressed(x) ==
  /\ Parses
  /\ tx' = Suppressed(tx, current.pcb, x)
  /\ UNCHANGED <<host, pcbVars, serverVars>>

(* Another host has an SRV record of our name.  While we probe, the name    *)
(* that the service goes by is changed: its own, the default one, or the    *)
(* host's; otherwise it is probed again.                                    *)
ConflictOfService(s) ==
  /\ Parses
  /\ LET c == current.pcb
     IN \/ /\ pcb[c].running /\ s \in own
           /\ Renamed({s})
           /\ UNCHANGED <<host, serverVars>>
           /\ ProbesBegin(Ready, {s}, FALSE, FALSE, AfterFree(tx, {<<s, "instance">>}, {}), pcb, {})
        \/ pcb[c].running /\ s \notin own /\ instance /\ NewInstanceName
        \/ pcb[c].running /\ s \notin own /\ ~instance /\ NewHostName
        \/ /\ ~pcb[c].running
           /\ UNCHANGED <<host, asked, serverVars>>
           /\ ProbesBegin({c}, {s}, FALSE, FALSE, tx, pcb, {})

ConflictOfText(s) ==
  /\ Parses
  /\ ~pcb[current.pcb].running
  /\ UNCHANGED <<host, asked, serverVars>>
  /\ ProbesBegin({current.pcb}, {s}, TRUE, FALSE, tx, pcb, {})

ConflictOfAddress ==
  /\ Parses
  /\ host
  /\ LET c == current.pcb
     IN \/ pcb[c].running /\ NewHostName
        \/ /\ ~pcb[c].running
           /\ UNCHANGED <<host, asked, serverVars>>
           /\ ProbesBegin({c}, {}, TRUE, FALSE, tx, pcb, {})

(* The address is that of our other interface: mdns_priv_pcb_set_duplicate. *)
DuplicateFound ==
  /\ Parses
  /\ host
  /\ LET c == current.pcb
         d == Twin[c]
     IN /\ d # c /\ pcb[d].ready
        /\ UNCHANGED <<host, serverVars>>
        /\ IF pcb[c].ready
           THEN /\ asked' = Forgotten(c)
                /\ Announces({d}, {}, TRUE, Cleared(tx, {c}), [Deinited({c}) EXCEPT ![c].state = "DUP"])
           ELSE /\ UNCHANGED asked
                /\ Announces({d}, {}, TRUE, tx, [pcb EXCEPT ![c].state = "DUP"])

Parsed ==
  \/ PacketIgnored \/ ConflictOfAddress \/ DuplicateFound
  \/ \E x \in services \cup {"self"} : QuestionAnswered(x) \/ AnswerSuppressed(x)
  \/ \E s \in services : ConflictOfService(s) \/ ConflictOfText(s)

-----------------------------------------------------------------------------
(* The event loop and the network.  post_custom_action ignores a full queue. *)

EventArrives ==
  /\ events < MaxEvents /\ events' = events + 1
  /\ \/ /\ Room
        /\ \E c \in Pcbs, w \in {"enable", "disable", "announce"} :
             Enqueue([type |-> "EVENT", pcb |-> c, what |-> w])
     \/ ~Room /\ UNCHANGED actions
  /\ UNCHANGED <<current, lock, tx, cursor, host, pcbVars, serverVars, calls, packets>>

PacketArrives ==
  /\ packets < MaxPackets /\ packets' = packets + 1
  /\ Room
  /\ \E c \in Ready : Enqueue([type |-> "RX", pcb |-> c])
  /\ UNCHANGED <<current, lock, tx, cursor, host, pcbVars, serverVars, calls, events>>

-----------------------------------------------------------------------------
Sends ==
  \/ send_packet_skips /\ UNCHANGED <<host, pcbVars>>
  \/ send_packet_off \/ send_packet_again \/ send_packet_announces
  \/ send_packet_probes_on \/ send_packet_last

Service ==
  \/ ServiceReceives /\ UNCHANGED <<tx, cursor, host, pcbVars, serverVars, boundVars>>
  \/ Sends /\ UNCHANGED <<serverVars, boundVars>>
  \/ HostNameSet \/ InstanceNameSet
  \/ mdns_priv_pcb_enable \/ mdns_priv_pcb_disable \/ AnnounceEvent
  \/ Parsed

Timer ==
  \/ (TimerStarts \/ TimerPosts \/ TimerEnds) /\ UNCHANGED <<host, pcbVars, serverVars, boundVars>>
  \/ TimerFails /\ UNCHANGED <<serverVars, boundVars>>

Api ==
  \/ mdns_hostname_set \/ mdns_instance_name_set
  \/ \E s \in Services :
       \/ \E named \in BOOLEAN : mdns_service_add(s, named)
       \/ \E ip \in BOOLEAN : mdns_service_change(s, ip)
       \/ mdns_service_remove(s) \/ mdns_service_instance_name_set(s)

Next == Service \/ Timer \/ Api \/ EventArrives \/ PacketArrives

Spec == Init /\ [][Next]_vars

ServedSpec == InitServed /\ [][Next]_vars

(* The timer goes off as often as a packet is due.  The service task is     *)
(* handed the lock in the end, however often the timer takes it.            *)
FairSpec == Spec /\ SF_vars(Service) /\ WF_vars(Timer)

-----------------------------------------------------------------------------
(* Safety. *)

(* The packet that carries a probe on its way: a PCB that is probing has    *)
(* one packet in the list, its probe, whatever answers, announcements,      *)
(* renamings and events came between; and only such a PCB has probes or     *)
(* remembers services that it probes for.  PCBs that lost a packet to a     *)
(* failed allocation, or to the removal of a service in whose place the     *)
(* question for another one of its type was taken out, are left out.        *)
ProbeOnItsWay ==
  \A c \in Pcbs \ spoilt :
    /\ Probing(c) => \E i \in Of(tx, c) : Of(tx, c) = {i} /\ tx[i].kind = "probe"
    /\ ~Probing(c) => pcb[c].services = {} /\ \A i \in Of(tx, c) : tx[i].kind # "probe"
    /\ pcb[c].running <=> Probing(c)

(* No renaming, by a caller or by a conflict, and no removal leaves a       *)
(* dangling pointer behind: the answers of a scheduled packet belong to     *)
(* services that exist, its questions do not ask for an instance name that  *)
(* has been freed, and no PCB probes for a service that is gone.  Questions *)
(* about a host name are left out (see NothingOfRemoved), and so are the    *)
(* PCBs that ProbeOnItsWay leaves out.                                      *)
PointersAlive ==
  /\ \A i \in 1..Len(tx) :
       tx[i].pcb \notin spoilt =>
         /\ tx[i].answers \subseteq services \cup {"self"}
         /\ <<"freed", "instance">> \notin tx[i].questions
  /\ \A c \in Pcbs \ spoilt : pcb[c].services \subseteq services

(* A PCB announces and serves a service only when its present name has been *)
(* asked for three times on that PCB, unless its probe there was abandoned  *)
(* or the PCB is one that ProbeOnItsWay leaves out.                         *)
AskedBeforeServed ==
  \A c \in Pcbs \ spoilt : \A s \in services :
    Announcing(c) \/ pcb[c].state = "RUNNING" => asked[c][s] = 3 \/ s \in dropped[c]

(* An interface is set aside as a duplicate only while the other one is up: *)
(* two interfaces on one subnet do not both fall silent.                    *)
TwinIsUp == \A c \in Pcbs : pcb[c].state = "DUP" => pcb[Twin[c]].ready

(* "Find, remove and free answers and scheduled packets for service"        *)
(* (mdns_send.c:1776): nothing that is scheduled points to a removed one.   *)
NothingOfRemoved ==
  \A i \in 1..Len(tx) : tx[i].questions \cap {<<"freed", "instance">>, <<"freed", "host">>} = {}

(* "packet to be handled should be at tx head" (mdns_send.c:1840): an       *)
(* action for a packet that is still scheduled finds it at the head.        *)
PacketAtHead ==
  current.type = "TX" =>
    \A i \in 1..Len(tx) : tx[i].id = current.packet /\ tx[i].queued => i = 1

-----------------------------------------------------------------------------
(* Liveness. *)

(* The timer goes off every 100 ms: time and again the service task has     *)
(* nothing left to do when it does.                                         *)
DrainedBetweenTicks == []<>(cursor = 0 /\ actions = <<>> /\ current = Idle)

(* An interface that has been enabled comes to serve the names, however     *)
(* many conflicts, calls and full queues it has to get over, unless the     *)
(* interface goes, a packet was lost to a failed allocation or the list is  *)
(* wedged.                                                                  *)
PcbsComeToRun ==
  DrainedBetweenTicks =>
    \A c \in Pcbs :
      pcb[c].ready ~> pcb[c].state = "RUNNING" \/ ~pcb[c].ready \/ c \in spoilt \/ Wedged
=============================================================================
