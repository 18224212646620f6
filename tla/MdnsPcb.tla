-------------------------------- MODULE MdnsPcb --------------------------------
(***************************************************************************)
(* The protocol state of each interface (mdns_pcb.c): names are probed     *)
(* three times, announced three times and then served.  One packet of the  *)
(* list carries a PCB through these states, the service task moves it on   *)
(* each time it has sent it, and a new probe starts all over.              *)
(*                                                                         *)
(* The operators below give the effect of a function on a set of PCBs at   *)
(* once, from a list q of packets that the caller may have changed before. *)
(* An allocation may fail, MaxFails times.                                 *)
(***************************************************************************)
EXTENDS MdnsTransmit

CONSTANTS MaxFails

VARIABLES
  pcb,      (* s_pcbs and, as ready, mdns_priv_if_ready                    *)
  host,     (* has the server a host name                                  *)
  asked,    (* how often a name has been asked for on a PCB since it was   *)
            (* given, up to three                                          *)
  dropped,  (* the services whose probe on a PCB has been abandoned        *)
  spoilt,   (* PCBs that lost a packet to a failed allocation, began a     *)
            (* probe while they were not ready, or had a question taken    *)
            (* out of it in place of another one of the same type          *)
  fails

pcbVars == <<pcb, asked, dropped, spoilt, fails>>

PcbStates ==
  {"OFF", "DUP", "PROBE_1", "PROBE_2", "PROBE_3",
   "ANNOUNCE_1", "ANNOUNCE_2", "ANNOUNCE_3", "RUNNING"}

(* Mutant: two probes are enough. *)
After2 ==
  [PROBE_1 |-> "PROBE_3", PROBE_2 |-> "PROBE_3", PROBE_3 |-> "ANNOUNCE_1",
   ANNOUNCE_1 |-> "ANNOUNCE_2", ANNOUNCE_2 |-> "ANNOUNCE_3", ANNOUNCE_3 |-> "RUNNING"]

(* Mutant: the announcements go round. *)
AfterRound ==
  [PROBE_1 |-> "PROBE_2", PROBE_2 |-> "PROBE_3", PROBE_3 |-> "ANNOUNCE_1",
   ANNOUNCE_1 |-> "ANNOUNCE_2", ANNOUNCE_2 |-> "ANNOUNCE_3", ANNOUNCE_3 |-> "ANNOUNCE_1"]

After ==
  [PROBE_1 |-> "PROBE_2", PROBE_2 |-> "PROBE_3", PROBE_3 |-> "ANNOUNCE_1",
   ANNOUNCE_1 |-> "ANNOUNCE_2", ANNOUNCE_2 |-> "ANNOUNCE_3", ANNOUNCE_3 |-> "RUNNING"]

PcbTypeOK ==
  /\ pcb \in [Pcbs -> [state : PcbStates, ready : BOOLEAN, ip : BOOLEAN, running : BOOLEAN,
                       services : SUBSET (Services \cup {"freed"})]]
  /\ host \in BOOLEAN
  /\ asked \in [Pcbs -> [Services -> 0..3]]
  /\ dropped \in [Pcbs -> SUBSET Services]
  /\ spoilt \in SUBSET Pcbs
  /\ fails \in 0..MaxFails

Off == [state |-> "OFF", ready |-> FALSE, ip |-> FALSE, running |-> FALSE, services |-> {}]

Probing(c) == pcb[c].state \in {"PROBE_1", "PROBE_2", "PROBE_3"}
Announcing(c) == pcb[c].state \in {"ANNOUNCE_1", "ANNOUNCE_2", "ANNOUNCE_3"}
Ready == {c \in Pcbs : pcb[c].ready}

(* Blocks for new packets, one for each of some PCBs: the allocator takes   *)
(* the first ones that are free, so that blocks are used again at once.     *)
NewIds(q, C) ==
  LET free == Packets \ Ids(q)
  IN CHOOSE f \in [C -> free] :
       /\ \A a, b \in C : a # b => f[a] # f[b]
       /\ \A c \in C, i \in free : i < f[c] => \E d \in C : f[d] = i

FailsFor(C) ==
  IF C = {} THEN UNCHANGED fails ELSE fails < MaxFails /\ fails' = fails + 1

-----------------------------------------------------------------------------
(* Probing. *)

(* mdns_priv_init_pcb_probe and init_probe_new_service: services that are   *)
(* being probed are probed with the new ones, unless they were cleared.     *)
Merged(c, S, clear) == IF Probing(c) /\ ~clear THEN S \cup pcb[c].services ELSE S

(* mdns_priv_create_probe_packet *)
Asks(S, ip) ==
  {<<s, "instance">> : s \in S}
    \cup IF ip THEN {<<s, "host">> : s \in S \cup {"self"}} ELSE {}

Probe(c, i, S, ip) == Allocated(i, c, "probe", Asks(S, ip), S, ip)

(* The packet that a PCB sends is lost to a failed allocation: in no_packet *)
(* the probe itself, in no_list the list of services.                       *)
ProbesBeginBut(no_packet, no_list, C, S, ip, clear, q, r, lost) ==
  LET some == C \ (no_packet \cup no_list)
      id == NewIds(Cleared(q, C), some)
      T(c) == Merged(c, S, clear)
      ipOf(c) == ip \/ r[c].ip
      old(c) == pcb[c].services \cap Services
  IN /\ FailsFor(no_packet \cup no_list \cup lost)
     /\ pcb' = [c \in Pcbs |->
          CASE c \in some -> [r[c] EXCEPT !.state = "PROBE_1", !.running = TRUE, !.ip = ipOf(c),
                                         !.services = T(c)]
            [] c \in no_packet -> [r[c] EXCEPT !.running = FALSE, !.ip = FALSE, !.services = {}]
            [] c \in no_list /\ clear -> [r[c] EXCEPT !.running = FALSE, !.services = {}]
            [] OTHER -> r[c]]
     /\ tx' \in AllSentAfter(Cleared(q, C), {Probe(c, id[c], T(c), ipOf(c)) : c \in some})
     /\ dropped' = [c \in Pcbs |->
          CASE c \in some -> (dropped[c] \cup old(c)) \ T(c)
            [] c \in C \ some -> dropped[c] \cup S \cup old(c)
            [] OTHER -> dropped[c]]
     /\ spoilt' = spoilt \cup no_packet \cup no_list \cup lost \cup {c \in C : ~r[c].ready}

(* mdns_priv_probe_all_pcbs, restart_pcb: every PCB of C begins to probe S. *)
(* r is what the PCBs are before that, lost those of them for which the     *)
(* caller could not allocate a packet.                                      *)
ProbesBegin(C, S, ip, clear, q, r, lost) ==
  IF ~host'
  THEN /\ pcb' = [c \in Pcbs |-> IF c \in C THEN [r[c] EXCEPT !.state = "RUNNING"] ELSE r[c]]
       /\ tx' = Cleared(q, C)
       /\ UNCHANGED <<dropped, spoilt, fails>>
  ELSE \E no_packet \in SUBSET C :
       \E no_list \in SUBSET {c \in C \ no_packet : Merged(c, S, clear) # {}} :
         ProbesBeginBut(no_packet, no_list, C, S, ip, clear, q, r, lost)

-----------------------------------------------------------------------------
(* Announcing. *)

(* The first packet of an announcing PCB gets more answers, whatever packet *)
(* it is.                                                                   *)
AnsweredToo(q, C, S) ==
  [i \in 1..Len(q) |->
     IF q[i].pcb \in C /\ \A j \in 1..i-1 : q[j].pcb # q[i].pcb
     THEN [q[i] EXCEPT !.answers = @ \cup S] ELSE q[i]]

Self(ip) == IF ip THEN {"self"} ELSE {}

(* mdns_priv_pcb_announce on every ready PCB of C; q and r as above.  In    *)
(* short, memory runs out for an answer: a service that gets none of them   *)
(* is not added.  (This is not counted, MaxFails bounds only what lasts.)   *)
Announces(C, S, ip, q, r) ==
  LET probing == {c \in C : r[c].ready /\ Probing(c)}
      moving  == {c \in C : r[c].ready /\ Announcing(c) /\ Of(q, c) # {}}
      resting == {c \in C : r[c].ready /\ host /\ r[c].state = "RUNNING"}
      Answered(short) == AnsweredToo(AnsweredToo(q, moving, Self(ip)), moving \ short, S)
  IN \E lost \in SUBSET resting, short \in SUBSET moving :
     \E q1 \in AllSentAfter(Answered(short),
                 {Allocated(NewIds(q, resting \ lost)[c], c, "announce", {}, S, ip) : c \in resting \ lost}) :
       ProbesBegin(probing, S, ip, FALSE, q1,
         [c \in Pcbs |-> IF c \in moving \cup resting THEN [r[c] EXCEPT !.state = "ANNOUNCE_1"] ELSE r[c]],
         lost)

-----------------------------------------------------------------------------
(* An action cannot be allocated for a packet: the timer's round ends. *)
TimerFails ==
  /\ cursor \in 1..Len(tx)
  /\ FailsFor({tx[cursor].pcb})
  /\ cursor' = 0
  /\ lock' = "none"
  /\ UNCHANGED <<actions, current, tx, host, pcb, asked, dropped, spoilt>>

-----------------------------------------------------------------------------
(* The packet that has been sent carries its PCB on. *)

Sent(p) ==
  asked' = IF p.kind = "probe" /\ pcb[p.pcb].ready
           THEN [asked EXCEPT ![p.pcb] = [s \in Services |->
                   IF <<s, "instance">> \in p.questions /\ @[s] < 3 THEN @[s] + 1 ELSE @[s]]]
           ELSE asked

Moves(c) == pcb' = [pcb EXCEPT ![c].state = After[@]]

(* handle_packet of a PCB that is off. *)
send_packet_off ==
  /\ Executes("TX") /\ HeadMatches
  /\ pcb[Head(tx).pcb].state = "OFF"
  /\ tx' = Tail(tx)
  /\ UNCHANGED <<actions, cursor, host, pcbVars>>

(* The same packet goes out again: probes 1 and 2, announcements 1 and 2.   *)
send_packet_again ==
  /\ Executes("TX") /\ HeadMatches
  /\ LET p == Popped(Head(tx))
     IN /\ pcb[p.pcb].state \in {"PROBE_1", "PROBE_2", "ANNOUNCE_1", "ANNOUNCE_2"}
        /\ Sent(p)
        /\ Moves(p.pcb)
        /\ tx' \in SentAfter(Tail(tx), p)
  /\ UNCHANGED <<actions, cursor, host, dropped, spoilt, fails>>

(* mdns_priv_create_announce_from_probe: the addresses of the host are      *)
(* announced with every service.                                            *)
send_packet_announces ==
  /\ Executes("TX") /\ HeadMatches
  /\ LET p == Head(tx)
         c == p.pcb
         ip == p.host \/ p.answers # {}
     IN /\ pcb[c].state = "PROBE_3"
        /\ Sent(p)
        /\ tx' \in SentAfter(Tail(tx),
                     Allocated(NewIds(tx, {c})[c], c, "announce", {}, p.answers \cup Self(ip), FALSE))
        /\ pcb' = [pcb EXCEPT ![c].state = After[@], ![c].running = FALSE, ![c].ip = FALSE,
                              ![c].services = {}]
  /\ UNCHANGED <<actions, cursor, host, dropped, spoilt, fails>>

(* No memory for the announcement: the probe is sent once more. *)
send_packet_probes_on ==
  /\ Executes("TX") /\ HeadMatches
  /\ LET p == Popped(Head(tx))
     IN /\ pcb[p.pcb].state = "PROBE_3"
        /\ FailsFor({p.pcb})
        /\ Sent(p)
        /\ tx' \in SentAfter(Tail(tx), p)
  /\ UNCHANGED <<actions, cursor, host, pcb, dropped, spoilt>>

(* The last announcement, or an answer, has been sent. *)
send_packet_last ==
  /\ Executes("TX") /\ HeadMatches
  /\ LET c == Head(tx).pcb
     IN /\ pcb[c].state \in {"ANNOUNCE_3", "RUNNING", "DUP"}
        /\ IF pcb[c].state = "ANNOUNCE_3" THEN Moves(c) ELSE UNCHANGED pcb
        /\ Sent(Head(tx))
  /\ tx' = Tail(tx)
  /\ UNCHANGED <<actions, cursor, host, dropped, spoilt, fails>>

-----------------------------------------------------------------------------
(* A service is taken out of everything that is scheduled. *)

(* mdns_priv_pcb_check_probing_services, for a ready PCB with a packet. *)
Unprobed(c, s) ==
  IF Probing(c) /\ s \in pcb[c].services
  THEN [pcb[c] EXCEPT !.services = @ \ {s},
          !.running = @ /\ (pcb[c].services # {s} \/ pcb[c].ip),
          !.state = IF pcb[c].services = {s} /\ ~pcb[c].ip THEN "RUNNING" ELSE @]
  ELSE IF Announcing(c) /\ \E i \in Of(tx, c) : tx[i].kind # "probe" /\ tx[i].answers = {s}
  THEN [pcb[c] EXCEPT !.state = "RUNNING"]
  ELSE pcb[c]

Searched(s) == {c \in Ready : Of(tx, c) # {}}

(* The answers go; of the questions the first for a service of the same     *)
(* type, t, goes where the service was being probed.                        *)
Unscheduled(s, t) ==
  [i \in 1..Len(tx) |->
     IF tx[i].pcb \in Searched(s) /\ Probing(tx[i].pcb) /\ s \in pcb[tx[i].pcb].services
     THEN [tx[i] EXCEPT !.answers = @ \ {s}, !.questions = @ \ {<<t[tx[i].pcb], "instance">>}]
     ELSE [tx[i] EXCEPT !.answers = @ \ {s}]]

Empty(p) == p.questions = {} /\ p.answers = {} /\ ~p.host

(* mdns_priv_remove_scheduled_service_packets *)
RemovesScheduled(s, t) ==
  LET q == Unscheduled(s, t) IN
  /\ pcb' = [c \in Pcbs |->
       LET r == IF c \in Searched(s) THEN Unprobed(c, s) ELSE pcb[c]
       IN [r EXCEPT !.services = (@ \ {s}) \cup {"freed" : x \in @ \cap {s}}]]
  /\ tx' = AfterFree(At(q, {i \in 1..Len(q) : ~Empty(q[i])}),
                     {<<s, "instance">>, <<s, "host">>}, {s})
  /\ dropped' = [c \in Pcbs |-> dropped[c] \ {s}]
  /\ asked' = [c \in Pcbs |-> [asked[c] EXCEPT ![s] = 0]]
  /\ spoilt' = spoilt \cup {c \in Searched(s) : Probing(c) /\ s \in pcb[c].services /\ t[c] # s}
  /\ UNCHANGED fails

-----------------------------------------------------------------------------
(* Interfaces. *)

(* deinit_pcb *)
Deinited(C) == [c \in Pcbs |-> IF c \in C THEN Off ELSE pcb[c]]
=============================================================================
