-------------------------- MODULE MdnsResponderProofs --------------------------
(***************************************************************************)
(* Proofs about the responder: that two interfaces on one subnet do not    *)
(* both fall silent, and that a probe is on its way to its PCB's services  *)
(* whatever comes between, points to nothing that is gone, and asks for    *)
(* every name before it is served.                                         *)
(*                                                                         *)
(* The second part says of each PCB what its packets in the list are and   *)
(* what it has asked for (Sound), so that the effect of every function is  *)
(* shown once for the PCBs that it is about (Begun, Alike, Trimmed...) and *)
(* once for the others, whose packets are all carried over (Carried).      *)
(* The third shows the types of the state, which need the order of the     *)
(* list (Ordered) and as many blocks of memory for packets as are used.    *)
(***************************************************************************)
EXTENDS MdnsResponder, MdnsServiceProofs, FiniteSetTheorems

-----------------------------------------------------------------------------
(* The PCBs and the actions, of which every proof here makes use. *)

PcbRecord ==
  [state : PcbStates, ready : BOOLEAN, ip : BOOLEAN, running : BOOLEAN,
   services : SUBSET (Services \cup {"freed"})]

(* The action that follows from a packet or an event names a PCB.  (The     *)
(* block of memory that a TX action names may be any.)                      *)
Named(S) == \A a \in S : a.type \in {"RX", "EVENT"} => a.pcb \in Pcbs

ActionsInv == \E S : EngineOf(S) /\ Named(S)

BaseInv ==
  /\ ActionsInv
  /\ pcb \in [Pcbs -> PcbRecord]
  /\ services \in SUBSET Services
  /\ fails \in 0..MaxFails

(* The PCBs come from r: none goes up or down, and none is set aside. *)
ComeFrom(r) ==
  /\ pcb' \in [Pcbs -> PcbRecord] /\ fails' \in 0..MaxFails
  /\ \A c \in Pcbs : /\ pcb'[c].ready = r[c].ready
                     /\ pcb'[c].state = "DUP" => r[c].state = "DUP"

(* What probing does to the PCBs, which were r before it; without failed    *)
(* allocations those that begin to probe are no longer set aside.           *)
LEMMA ProbesPcbs ==
  ASSUME NEW C \in SUBSET Pcbs, NEW S \in SUBSET Services, NEW ip, NEW clear,
         NEW q, NEW r \in [Pcbs -> PcbRecord], NEW lost, BaseInv,
         ProbesBegin(C, S, ip, clear, q, r, lost)
  PROVE  /\ ComeFrom(r)
         /\ MaxFails = 0 => \A c \in C : pcb'[c].state # "DUP"
<1> USE DEF BaseInv, ComeFrom
<1>1. CASE ~host'
  <2>1. /\ pcb' = [c \in Pcbs |-> IF c \in C THEN [r[c] EXCEPT !.state = "RUNNING"] ELSE r[c]]
        /\ fails' = fails
    BY <1>1 DEF ProbesBegin
  <2> QED
    BY <2>1 DEF PcbRecord, PcbStates
<1>2. CASE host'
  <2>1. PICK no_packet \in SUBSET C, no_list \in SUBSET C :
          ProbesBeginBut(no_packet, no_list, C, S, ip, clear, q, r, lost)
    BY <1>2 DEF ProbesBegin
  <2>2. \A c \in C : Merged(c, S, clear) \in SUBSET (Services \cup {"freed"})
    BY DEF Merged, PcbRecord
  <2>3. FailsFor(no_packet \cup no_list \cup lost)
    BY <2>1, Zenon DEF ProbesBeginBut
  <2>4. fails' \in 0..MaxFails /\ (MaxFails = 0 => no_packet = {} /\ no_list = {})
    BY <2>3, ResponderAssumption DEF FailsFor
  <2> DEFINE e(c) ==
          CASE c \in C \ (no_packet \cup no_list) ->
                 [r[c] EXCEPT !.state = "PROBE_1", !.running = TRUE, !.ip = ip \/ r[c].ip,
                              !.services = Merged(c, S, clear)]
            [] c \in no_packet -> [r[c] EXCEPT !.running = FALSE, !.ip = FALSE, !.services = {}]
            [] c \in no_list /\ clear -> [r[c] EXCEPT !.running = FALSE, !.services = {}]
            [] OTHER -> r[c]
  <2>5. pcb' = [c \in Pcbs |-> e(c)]
    BY <2>1, Zenon DEF ProbesBeginBut
  <2>6. ASSUME NEW c \in Pcbs
        PROVE  /\ e(c) \in PcbRecord /\ e(c).ready = r[c].ready
               /\ e(c).state = "DUP" => r[c].state = "DUP"
               /\ c \in C \ (no_packet \cup no_list) => e(c).state # "DUP"
    BY <2>2 DEF PcbRecord, PcbStates
  <2>7. pcb' \in [Pcbs -> PcbRecord] /\ \A c \in Pcbs : pcb'[c] = e(c)
    <3> HIDE DEF e
    <3> QED
      BY <2>5, <2>6
  <2> HIDE DEF e
  <2> QED
    BY <2>4, <2>6, <2>7
<1> QED
  BY <1>1, <1>2

(* An announcement likewise. *)
LEMMA AnnouncesPcbs ==
  ASSUME NEW C \in SUBSET Pcbs, NEW S \in SUBSET Services, NEW ip,
         NEW q, NEW r \in [Pcbs -> PcbRecord], BaseInv,
         Announces(C, S, ip, q, r)
  PROVE  ComeFrom(r)
<1> DEFINE probing == {c \in C : r[c].ready /\ Probing(c)}
           moving  == {c \in C : r[c].ready /\ Announcing(c) /\ Of(q, c) # {}}
           resting == {c \in C : r[c].ready /\ host /\ r[c].state = "RUNNING"}
           t == [c \in Pcbs |-> IF c \in moving \cup resting THEN [r[c] EXCEPT !.state = "ANNOUNCE_1"] ELSE r[c]]
<1>1. PICK lost, q1, clear : ProbesBegin(probing, S, ip, clear, q1, t, lost)
  <2>1. \E lost, q1 : ProbesBegin(probing, S, ip, FALSE, q1, t, lost)
    BY DEF Announces
  <2> HIDE DEF probing, t
  <2> QED
    BY <2>1, Zenon
<1>2. t \in [Pcbs -> PcbRecord]
      /\ \A c \in Pcbs : t[c].ready = r[c].ready /\ (t[c].state = "DUP" => r[c].state = "DUP")
  BY DEF PcbRecord, PcbStates
<1>3. probing \in SUBSET Pcbs
  OBVIOUS
<1> HIDE DEF probing, t
<1> QED
  <2>1. ComeFrom(t)
    BY <1>1, <1>2, <1>3, ProbesPcbs
  <2> QED
    BY <2>1, <1>2 DEF ComeFrom

-----------------------------------------------------------------------------
(* Steps that leave the other interfaces alone. *)

Quiet == ComeFrom(pcb)

LEMMA ProbesQuiet ==
  ASSUME NEW C \in SUBSET Pcbs, NEW S \in SUBSET Services, NEW ip, NEW clear,
         NEW q, NEW lost, BaseInv, ProbesBegin(C, S, ip, clear, q, pcb, lost)
  PROVE  Quiet
<1>1. pcb \in [Pcbs -> PcbRecord]
  BY DEF BaseInv
<1> QED
  BY <1>1, ProbesPcbs DEF Quiet

LEMMA AnnouncesQuiet ==
  ASSUME NEW C \in SUBSET Pcbs, NEW S \in SUBSET Services, NEW ip,
         NEW q, BaseInv, Announces(C, S, ip, q, pcb)
  PROVE  Quiet
<1>1. pcb \in [Pcbs -> PcbRecord]
  BY DEF BaseInv
<1> QED
  BY <1>1, AnnouncesPcbs DEF Quiet

LEMMA RestsQuiet ==
  ASSUME BaseInv, UNCHANGED <<pcb, fails>>
  PROVE  Quiet
BY DEF BaseInv, Quiet, ComeFrom

LEMMA TimerQuiet ==
  ASSUME BaseInv, Timer
  PROVE  Quiet /\ UNCHANGED services
<1>1. UNCHANGED <<pcb, services>> /\ (fails' = fails \/ (fails < MaxFails /\ fails' = fails + 1))
  BY DEF Timer, TimerFails, FailsFor, pcbVars, serverVars
<1>2. fails' \in 0..MaxFails
  BY <1>1, ResponderAssumption DEF BaseInv
<1> QED
  BY <1>1, <1>2 DEF BaseInv, Quiet, ComeFrom

LEMMA NamesQuiet ==
  ASSUME BaseInv, NewHostName \/ NewInstanceName
  PROVE  Quiet /\ UNCHANGED services
<1>1. services \in SUBSET Services /\ Defaults \in SUBSET Services /\ Ready \in SUBSET Pcbs
  BY DEF BaseInv, Defaults, Ready
<1>2. CASE NewHostName
  <2>1. PICK q, ip, clear, lost : ProbesBegin(Ready, services, ip, clear, q, pcb, lost)
    <3>1. ProbesBegin(Ready, services, TRUE, TRUE, <<>>, pcb, {})
      BY <1>2 DEF NewHostName
    <3> QED
      BY <3>1
  <2> QED
    BY <1>1, <1>2, <2>1, ProbesQuiet DEF NewHostName, serverVars
<1>3. CASE NewInstanceName
  <2>1. CASE Defaults = {}
    BY <1>3, <2>1, RestsQuiet DEF NewInstanceName
  <2>2. CASE Defaults # {}
    <3>1. \E q : ProbesBegin(Ready, Defaults, FALSE, TRUE, q, pcb, {})
      BY <1>3, <2>2, Zenon DEF NewInstanceName
    <3>2. PICK q, ip, clear, lost : ProbesBegin(Ready, Defaults, ip, clear, q, pcb, lost)
      BY <3>1
    <3> QED
      BY <1>1, <1>3, <3>2, ProbesQuiet DEF NewInstanceName
  <2> QED
    BY <2>1, <2>2
<1> QED
  BY <1>2, <1>3

(* What the service task makes of a packet, unless it sets an interface     *)
(* aside.                                                                   *)
LEMMA ParsedQuiet ==
  ASSUME BaseInv, current.type \in {"RX", "EVENT"} => current.pcb \in Pcbs, Parsed, ~DuplicateFound
  PROVE  Quiet /\ UNCHANGED services
<1>1. \A s \in services : {s} \in SUBSET Services
  BY DEF BaseInv
<1>2. Ready \in SUBSET Pcbs
  BY DEF Ready
<1>3. Parses => {current.pcb} \in SUBSET Pcbs
  BY DEF Parses, Executes
<1>4. CASE PacketIgnored \/ \E x \in services \cup {"self"} : QuestionAnswered(x) \/ AnswerSuppressed(x)
  BY <1>4, RestsQuiet DEF PacketIgnored, QuestionAnswered, AnswerSuppressed, pcbVars, serverVars
<1>5. CASE ConflictOfAddress
  <2>1. CASE NewHostName
    BY <2>1, NamesQuiet
  <2>2. CASE ~NewHostName
    <3>1. \E q, ip, clear, lost : ProbesBegin({current.pcb}, {}, ip, clear, q, pcb, lost)
      BY <1>5, <2>2, Zenon DEF ConflictOfAddress
    <3>2. {current.pcb} \in SUBSET Pcbs /\ {} \in SUBSET Services /\ UNCHANGED services
      BY <1>3, <1>5, <2>2 DEF ConflictOfAddress, serverVars
    <3> QED
      BY <3>1, <3>2, ProbesQuiet
  <2> QED
    BY <2>1, <2>2
<1>6. ASSUME NEW s \in services, ConflictOfService(s) PROVE Quiet /\ UNCHANGED services
  <2>1. CASE NewHostName \/ NewInstanceName
    BY <2>1, NamesQuiet
  <2>2. CASE ~NewHostName /\ ~NewInstanceName
    <3>1. \/ \E q, ip, clear, lost : ProbesBegin(Ready, {s}, ip, clear, q, pcb, lost)
          \/ \E q, ip, clear, lost : ProbesBegin({current.pcb}, {s}, ip, clear, q, pcb, lost)
      BY <1>6, <2>2, Zenon DEF ConflictOfService
    <3>2. Parses /\ UNCHANGED services
      BY <1>6, <2>2 DEF ConflictOfService, serverVars
    <3> QED
      BY <1>1, <1>2, <1>3, <3>1, <3>2, ProbesQuiet
  <2> QED
    BY <2>1, <2>2
<1>7. ASSUME NEW s \in services, ConflictOfText(s) PROVE Quiet /\ UNCHANGED services
  <2>1. \E q, ip, clear, lost : ProbesBegin({current.pcb}, {s}, ip, clear, q, pcb, lost)
    BY <1>7, Zenon DEF ConflictOfText
  <2>2. Parses /\ UNCHANGED services
    BY <1>7 DEF ConflictOfText, serverVars
  <2> QED
    BY <1>1, <1>3, <2>1, <2>2, ProbesQuiet
<1> QED
  BY <1>4, <1>5, <1>6, <1>7 DEF Parsed

(* What a call does. *)
LEMMA ApiQuiet ==
  ASSUME BaseInv, Api
  PROVE  Quiet /\ services' \in SUBSET Services
<1>1. Ready \in SUBSET Pcbs /\ services \in SUBSET Services
  BY DEF Ready, BaseInv
<1>2. CASE mdns_hostname_set \/ mdns_instance_name_set
  BY <1>1, <1>2, RestsQuiet DEF mdns_hostname_set, mdns_instance_name_set, pcbVars, serverVars
<1>3. ASSUME NEW s \in Services, NEW named \in BOOLEAN, mdns_service_add(s, named)
      PROVE Quiet /\ services' \in SUBSET Services
  <2>1. \E q, ip, clear, lost : ProbesBegin(Ready, {s}, ip, clear, q, pcb, lost)
    BY <1>3, Zenon DEF mdns_service_add
  <2>2. services' = services \cup {s}
    BY <1>3 DEF mdns_service_add
  <2> QED
    BY <1>1, <2>1, <2>2, ProbesQuiet
<1>4. ASSUME NEW s \in Services, NEW ip, mdns_service_change(s, ip)
      PROVE Quiet /\ services' \in SUBSET Services
  <2>1. Announces(Pcbs, {s}, ip, tx, pcb) /\ UNCHANGED services
    BY <1>4 DEF mdns_service_change, serverVars
  <2> QED
    BY <1>1, <2>1, AnnouncesQuiet
<1>5. ASSUME NEW s \in Services, mdns_service_remove(s)
      PROVE Quiet /\ services' \in SUBSET Services
  <2>1. services' = services \ {s} /\ \E t : RemovesScheduled(s, t)
    BY <1>5 DEF mdns_service_remove
  <2> DEFINE r(c) == IF c \in Searched(s) THEN Unprobed(c, s) ELSE pcb[c]
             e(c) == [r(c) EXCEPT !.services = (@ \ {s}) \cup {"freed" : x \in @ \cap {s}}]
  <2>2. pcb' = [c \in Pcbs |-> e(c)] /\ fails' = fails
    BY <2>1, Zenon DEF RemovesScheduled
  <2>3. ASSUME NEW c \in Pcbs
        PROVE r(c) \in PcbRecord /\ r(c).ready = pcb[c].ready /\ (r(c).state = "DUP" => pcb[c].state = "DUP")
    BY DEF BaseInv, PcbRecord, PcbStates, Unprobed
  <2>4. ASSUME NEW c \in Pcbs
        PROVE e(c) \in PcbRecord /\ e(c).ready = r(c).ready /\ e(c).state = r(c).state
    <3> HIDE DEF r
    <3> QED
      BY <2>3 DEF PcbRecord
  <2> HIDE DEF e, r
  <2> QED
    BY <1>1, <2>1, <2>2, <2>3, <2>4 DEF Quiet, ComeFrom, BaseInv
<1>6. ASSUME NEW s \in Services, mdns_service_instance_name_set(s)
      PROVE Quiet /\ services' \in SUBSET Services
  <2>1. \E q, ip, clear, lost : ProbesBegin(Ready, {s}, ip, clear, q, pcb, lost)
    BY <1>6, Zenon DEF mdns_service_instance_name_set
  <2>2. services' = services
    BY <1>6 DEF mdns_service_instance_name_set
  <2> QED
    BY <1>1, <2>1, <2>2, ProbesQuiet
<1> QED
  BY <1>2, <1>3, <1>4, <1>5, <1>6 DEF Api

(* Changes of one record. *)
LEMMA StateExcept ==
  ASSUME NEW r \in [Pcbs -> PcbRecord], NEW c \in Pcbs, NEW st \in PcbStates
  PROVE  /\ [r EXCEPT ![c].state = st] \in [Pcbs -> PcbRecord]
         /\ [r EXCEPT ![c].state = st][c].state = st
         /\ [r EXCEPT ![c].state = st][c].ready = r[c].ready
         /\ \A e \in Pcbs \ {c} : [r EXCEPT ![c].state = st][e] = r[e]
BY DEF PcbRecord

LEMMA DeinitedPcbs ==
  ASSUME NEW c \in Pcbs, pcb \in [Pcbs -> PcbRecord]
  PROVE  /\ Deinited({c}) \in [Pcbs -> PcbRecord]
         /\ Deinited({c})[c].state = "OFF" /\ ~Deinited({c})[c].ready
         /\ \A e \in Pcbs \ {c} : Deinited({c})[e] = pcb[e]
BY DEF Deinited, Off, PcbRecord, PcbStates

(* What sending a packet does. *)
LEMMA SendsQuiet ==
  ASSUME BaseInv, Sends
  PROVE  Quiet
<1>1. CASE (send_packet_skips /\ UNCHANGED <<host, pcbVars>>) \/ send_packet_off
  BY <1>1, RestsQuiet DEF send_packet_off, pcbVars
<1>2. CASE send_packet_probes_on
  <2>1. fails' \in 0..MaxFails /\ pcb' = pcb
    BY <1>2, ResponderAssumption DEF send_packet_probes_on, FailsFor, BaseInv
  <2> QED
    BY <2>1 DEF BaseInv, Quiet, ComeFrom
<1>3. ASSUME NEW c, Moves(c),
             pcb[c].state \in {"PROBE_1", "PROBE_2", "ANNOUNCE_1", "ANNOUNCE_2", "ANNOUNCE_3"},
             fails' = fails
      PROVE  Quiet
  <2>1. After[pcb[c].state] \in PcbStates \ {"DUP"}
    BY <1>3 DEF After, PcbStates
  <2>2. ASSUME NEW d \in Pcbs
        PROVE  /\ pcb'[d] \in PcbRecord /\ pcb'[d].ready = pcb[d].ready
               /\ pcb'[d].state = "DUP" => pcb[d].state = "DUP"
    BY <1>3, <2>1 DEF Moves, BaseInv, PcbRecord
  <2>3. pcb' \in [Pcbs -> PcbRecord]
    BY <1>3, <2>2 DEF Moves, BaseInv
  <2> QED
    BY <1>3, <2>2, <2>3 DEF Quiet, ComeFrom, BaseInv
<1>4. CASE send_packet_again
  <2>1. PICK c : /\ Moves(c) /\ fails' = fails
                 /\ pcb[c].state \in {"PROBE_1", "PROBE_2", "ANNOUNCE_1", "ANNOUNCE_2"}
    BY <1>4 DEF send_packet_again
  <2> QED
    BY <1>3, <2>1
<1>5. CASE send_packet_announces
  <2>1. PICK c : pcb' = [pcb EXCEPT ![c].state = After[@], ![c].running = FALSE, ![c].ip = FALSE,
                                    ![c].services = {}]
                 /\ pcb[c].state = "PROBE_3" /\ fails' = fails
    BY <1>5 DEF send_packet_announces
  <2>2. After[pcb[c].state] = "ANNOUNCE_1"
    BY <2>1 DEF After
  <2>3. ASSUME NEW d \in Pcbs
        PROVE  /\ pcb'[d] \in PcbRecord /\ pcb'[d].ready = pcb[d].ready
               /\ pcb'[d].state = "DUP" => pcb[d].state = "DUP"
    BY <2>1, <2>2 DEF BaseInv, PcbRecord, PcbStates
  <2>4. pcb' \in [Pcbs -> PcbRecord]
    BY <2>1, <2>3 DEF BaseInv
  <2> QED
    BY <2>1, <2>3, <2>4 DEF Quiet, ComeFrom, BaseInv
<1>6. CASE send_packet_last
  <2>1. PICK c : fails' = fails /\ IF pcb[c].state = "ANNOUNCE_3" THEN Moves(c) ELSE UNCHANGED pcb
    BY <1>6 DEF send_packet_last
  <2> QED
    BY <1>3, <2>1, RestsQuiet
<1> QED
  BY <1>1, <1>2, <1>4, <1>5, <1>6 DEF Sends

-----------------------------------------------------------------------------
(* Interfaces that come, go and are set aside. *)

(* An interface that is set aside has a twin, and one of the two is up. *)
OneIsUp == \A c \in Pcbs : pcb[c].state = "DUP" => pcb[c].ready \/ pcb[Twin[c]].ready

(* Where no allocation fails it is the other one. *)
OtherIsUp == \A c \in Pcbs : pcb[c].state = "DUP" => ~pcb[c].ready /\ pcb[Twin[c]].ready

TwinInv == BaseInv /\ OneIsUp /\ (MaxFails = 0 => OtherIsUp)

LEMMA QuietKeepsTwins ==
  ASSUME OneIsUp, MaxFails = 0 => OtherIsUp, Quiet
  PROVE  OneIsUp' /\ (MaxFails = 0 => OtherIsUp')
<1>1. \A c \in Pcbs : Twin[c] \in Pcbs
  BY ResponderAssumption
<1> QED
  BY <1>1 DEF OneIsUp, OtherIsUp, Quiet, ComeFrom

(* An interface c comes up, from PCBs r among which it is not set aside or, *)
(* when allocations may fail, is so.                                        *)
LEMMA EnablesPcbs ==
  ASSUME NEW c \in Pcbs, NEW q, NEW r \in [Pcbs -> PcbRecord], BaseInv, Enables(c, q, r)
  PROVE  /\ pcb' \in [Pcbs -> PcbRecord] /\ fails' \in 0..MaxFails
         /\ \A d \in Pcbs \ {c} : pcb'[d].ready = r[d].ready /\ (pcb'[d].state = "DUP" => r[d].state = "DUP")
         /\ pcb'[c].state = "DUP" => r[c].state = "DUP"
         /\ pcb'[c].ready \/ pcb'[c].ready = r[c].ready
         /\ pcb'[c].ready /\ MaxFails = 0 => pcb'[c].state # "DUP"
<1>1. CASE ~r[c].ready /\ pcb' = r /\ UNCHANGED fails
  BY <1>1 DEF BaseInv
<1>2. CASE ProbesBegin({c}, services, TRUE, FALSE, q, [r EXCEPT ![c].ready = TRUE], {})
  <2> DEFINE t == [r EXCEPT ![c].ready = TRUE]
  <2>1. t \in [Pcbs -> PcbRecord] /\ t[c].ready /\ t[c].state = r[c].state
        /\ \A d \in Pcbs \ {c} : t[d] = r[d]
    BY DEF PcbRecord
  <2>2. PICK ip, clear, lost : ProbesBegin({c}, services, ip, clear, q, t, lost)
    BY <1>2
  <2> HIDE DEF t
  <2>3. ComeFrom(t) /\ (MaxFails = 0 => \A d \in {c} : pcb'[d].state # "DUP")
    <3>1. {c} \in SUBSET Pcbs /\ services \in SUBSET Services
      BY DEF BaseInv
    <3> QED
      BY <2>1, <2>2, <3>1, ProbesPcbs
  <2> QED
    BY <2>1, <2>3 DEF ComeFrom
<1> QED
  BY <1>1, <1>2 DEF Enables

LEMMA EnableKeepsTwins ==
  ASSUME TwinInv, current.type \in {"RX", "EVENT"} => current.pcb \in Pcbs, mdns_priv_pcb_enable
  PROVE  OneIsUp' /\ (MaxFails = 0 => OtherIsUp') /\ pcb' \in [Pcbs -> PcbRecord] /\ fails' \in 0..MaxFails
<1>1. current.pcb \in Pcbs /\ Enables(current.pcb, tx, pcb) /\ BaseInv /\ pcb \in [Pcbs -> PcbRecord]
  BY DEF TwinInv, BaseInv, mdns_priv_pcb_enable, Executes
<1>2. PICK c \in Pcbs :
        /\ pcb' \in [Pcbs -> PcbRecord] /\ fails' \in 0..MaxFails
        /\ \A d \in Pcbs \ {c} : pcb'[d].ready = pcb[d].ready /\ (pcb'[d].state = "DUP" => pcb[d].state = "DUP")
        /\ pcb'[c].state = "DUP" => pcb[c].state = "DUP"
        /\ pcb'[c].ready \/ pcb'[c].ready = pcb[c].ready
        /\ pcb'[c].ready /\ MaxFails = 0 => pcb'[c].state # "DUP"
  BY <1>1, EnablesPcbs
<1>3. \A d \in Pcbs : Twin[d] \in Pcbs
  BY ResponderAssumption
<1> QED
  BY <1>2, <1>3 DEF TwinInv, OneIsUp, OtherIsUp

LEMMA DisableKeepsTwins ==
  ASSUME TwinInv, current.type \in {"RX", "EVENT"} => current.pcb \in Pcbs, mdns_priv_pcb_disable
  PROVE  OneIsUp' /\ (MaxFails = 0 => OtherIsUp') /\ pcb' \in [Pcbs -> PcbRecord] /\ fails' \in 0..MaxFails
<1> DEFINE c == current.pcb
           d == Twin[c]
<1>1. c \in Pcbs /\ d \in Pcbs /\ Twin[d] = c /\ BaseInv /\ pcb \in [Pcbs -> PcbRecord]
      /\ \A e \in Pcbs : Twin[e] \in Pcbs /\ (Twin[e] = c <=> e = d) /\ (Twin[e] = d <=> e = c)
  BY ResponderAssumption DEF TwinInv, BaseInv, mdns_priv_pcb_disable, Executes
<1>2. CASE ~pcb[c].ready
  <2>1. pcb' = [pcb EXCEPT ![c].state = "OFF"] /\ fails' = fails
    BY <1>2 DEF mdns_priv_pcb_disable
  <2>2. pcb' \in [Pcbs -> PcbRecord] /\ pcb'[c].state = "OFF" /\ (\A e \in Pcbs : pcb'[e].ready = pcb[e].ready)
        /\ \A e \in Pcbs : pcb'[e].state = "DUP" => pcb[e].state = "DUP"
    BY <1>1, <2>1 DEF PcbRecord, PcbStates
  <2> QED
    BY <1>1, <2>1, <2>2 DEF TwinInv, OneIsUp, OtherIsUp, BaseInv
<1>3. CASE pcb[c].ready /\ d # c /\ pcb[d].state = "DUP"
  <2> DEFINE r == [Deinited({c}) EXCEPT ![d].state = "OFF"]
  <2>1. \E q : Enables(d, q, r)
    BY <1>3 DEF mdns_priv_pcb_disable
  <2>2. /\ r \in [Pcbs -> PcbRecord] /\ r[c].state = "OFF" /\ r[d].state = "OFF" /\ ~r[c].ready
        /\ \A e \in Pcbs \ {c, d} : r[e] = pcb[e]
    <3>1. Deinited({c}) \in [Pcbs -> PcbRecord] /\ Deinited({c})[c].state = "OFF" /\ ~Deinited({c})[c].ready
          /\ \A e \in Pcbs \ {c} : Deinited({c})[e] = pcb[e]
      BY <1>1, DeinitedPcbs
    <3> QED
      <4>1. PICK t : t = Deinited({c})
        OBVIOUS
      <4>2. r = [t EXCEPT ![d].state = "OFF"]
        BY <4>1
      <4>3. /\ r \in [Pcbs -> PcbRecord] /\ r[d].state = "OFF"
            /\ \A e \in Pcbs \ {d} : r[e] = t[e]
        <5>1. t \in [Pcbs -> PcbRecord] /\ "OFF" \in PcbStates /\ d \in Pcbs
          BY <1>1, <3>1, <4>1 DEF PcbStates
        <5> HIDE DEF r, c, d
        <5> QED
          BY <4>2, <5>1, StateExcept
      <4> HIDE DEF r
      <4> QED
        BY <1>1, <1>3, <3>1, <4>1, <4>3
  <2> HIDE DEF r
  <2>3. /\ pcb' \in [Pcbs -> PcbRecord] /\ fails' \in 0..MaxFails
        /\ \A e \in Pcbs \ {d} : pcb'[e].ready = r[e].ready /\ (pcb'[e].state = "DUP" => r[e].state = "DUP")
        /\ pcb'[d].state = "DUP" => r[d].state = "DUP"
    BY <1>1, <2>1, <2>2, EnablesPcbs
  <2>4. \A e \in Pcbs : pcb'[e].state = "DUP" =>
           e \notin {c, d} /\ pcb[e].state = "DUP" /\ Twin[e] \notin {c, d}
           /\ pcb'[e].ready = pcb[e].ready /\ pcb'[Twin[e]].ready = pcb[Twin[e]].ready
    BY <1>1, <1>3, <2>2, <2>3
  <2> QED
    BY <2>3, <2>4 DEF TwinInv, OneIsUp, OtherIsUp
<1>4. CASE pcb[c].ready /\ ~(d # c /\ pcb[d].state = "DUP")
  <2>1. pcb' = Deinited({c}) /\ fails' = fails
    BY <1>4 DEF mdns_priv_pcb_disable
  <2>2. pcb' \in [Pcbs -> PcbRecord] /\ pcb'[c].state = "OFF" /\ \A e \in Pcbs \ {c} : pcb'[e] = pcb[e]
    BY <1>1, <2>1 DEF Deinited, Off, PcbRecord, PcbStates
  <2>3. \A e \in Pcbs : pcb'[e].state = "DUP" => e # c /\ e # d
    BY <1>1, <1>4, <2>2
  <2>4. \A e \in Pcbs : pcb'[e].state = "DUP" =>
           pcb[e].state = "DUP" /\ pcb'[e].ready = pcb[e].ready /\ pcb'[Twin[e]].ready = pcb[Twin[e]].ready
    BY <1>1, <2>2, <2>3
  <2> QED
    BY <2>1, <2>2, <2>4 DEF TwinInv, OneIsUp, OtherIsUp, BaseInv
<1> QED
  BY <1>2, <1>3, <1>4

LEMMA DuplicateKeepsTwins ==
  ASSUME TwinInv, current.type \in {"RX", "EVENT"} => current.pcb \in Pcbs, DuplicateFound
  PROVE  OneIsUp' /\ (MaxFails = 0 => OtherIsUp') /\ pcb' \in [Pcbs -> PcbRecord] /\ fails' \in 0..MaxFails
<1> DEFINE c == current.pcb
           d == Twin[c]
<1>1. c \in Pcbs /\ d \in Pcbs /\ Twin[d] = c /\ BaseInv /\ pcb \in [Pcbs -> PcbRecord]
      /\ \A e \in Pcbs : Twin[e] \in Pcbs /\ (Twin[e] = c <=> e = d) /\ (Twin[e] = d <=> e = c)
  BY ResponderAssumption DEF TwinInv, BaseInv, DuplicateFound, Parses, Executes
<1>2. d # c /\ pcb[d].ready
  BY DEF DuplicateFound
<1>3. PICK q, r : /\ Announces({d}, {}, TRUE, q, r)
                  /\ r = IF pcb[c].ready THEN [Deinited({c}) EXCEPT ![c].state = "DUP"] ELSE [pcb EXCEPT ![c].state = "DUP"]
  BY DEF DuplicateFound
<1>4. /\ r \in [Pcbs -> PcbRecord] /\ r[c].state = "DUP" /\ ~r[c].ready
      /\ \A e \in Pcbs \ {c} : r[e] = pcb[e]
  <2>1. CASE pcb[c].ready
    <3>1. Deinited({c}) \in [Pcbs -> PcbRecord] /\ Deinited({c})[c].state = "OFF" /\ ~Deinited({c})[c].ready
          /\ \A e \in Pcbs \ {c} : Deinited({c})[e] = pcb[e]
      BY <1>1, DeinitedPcbs
    <3> QED
      <4>1. PICK t : t = Deinited({c})
        OBVIOUS
      <4>2. r = [t EXCEPT ![c].state = "DUP"]
        BY <1>3, <2>1, <4>1
      <4>3. /\ r \in [Pcbs -> PcbRecord] /\ r[c].state = "DUP" /\ r[c].ready = t[c].ready
            /\ \A e \in Pcbs \ {c} : r[e] = t[e]
        <5>1. t \in [Pcbs -> PcbRecord] /\ "DUP" \in PcbStates /\ c \in Pcbs
          BY <1>1, <3>1, <4>1 DEF PcbStates
        <5> HIDE DEF c, d
        <5> QED
          BY <4>2, <5>1, StateExcept
      <4> QED
        BY <3>1, <4>1, <4>3
  <2>2. CASE ~pcb[c].ready
    BY <1>1, <1>3, <2>2 DEF PcbRecord, PcbStates
  <2> QED
    BY <2>1, <2>2
<1>5. ComeFrom(r)
  <2>1. PICK ip : Announces({d}, {}, ip, q, r)
    BY <1>3
  <2> QED
    BY <1>1, <1>4, <2>1, AnnouncesPcbs
<1>6. ASSUME NEW e \in Pcbs, pcb'[e].state = "DUP"
      PROVE  (pcb'[e].ready \/ pcb'[Twin[e]].ready) /\ (MaxFails = 0 => ~pcb'[e].ready /\ pcb'[Twin[e]].ready)
  <2>1. CASE e = c
    BY <1>1, <1>2, <1>4, <1>5, <2>1 DEF ComeFrom
  <2>2. CASE e = d
    BY <1>1, <1>2, <1>4, <1>5, <1>6, <2>2 DEF ComeFrom, TwinInv, OtherIsUp
  <2>3. CASE e \notin {c, d}
    BY <1>1, <1>4, <1>5, <1>6, <2>3 DEF ComeFrom, TwinInv, OneIsUp, OtherIsUp
  <2> QED
    BY <2>1, <2>2, <2>3
<1> QED
  BY <1>5, <1>6 DEF OneIsUp, OtherIsUp, ComeFrom

-----------------------------------------------------------------------------
LEMMA CurrentNamed ==
  ASSUME ActionsInv
  PROVE  current.type \in {"RX", "EVENT"} => current.pcb \in Pcbs
BY DEF ActionsInv, EngineOf, Named, Idle

(* The queue of actions: one is posted, received or executed. *)
LEMMA PostsNamed ==
  ASSUME ActionsInv, NEW a, a.type # "IDLE", a.type \in {"RX", "EVENT"} => a.pcb \in Pcbs,
         Enqueue(a), UNCHANGED current
  PROVE  ActionsInv'
<1>1. PICK S : EngineOf(S) /\ Named(S)
  BY DEF ActionsInv
<1> DEFINE T == S \cup {a}
<1>2. Idle \notin T
  BY <1>1 DEF EngineOf, Idle
<1>3. EngineOf(T)
  <2>1. actions \in Seq(T)
    BY <1>1 DEF EngineOf
  <2> QED
    BY <1>1, <1>2, <2>1 DEF EngineOf
<1>4. EngineOf(T)'
  BY <1>2, <1>3 DEF EngineOf, Enqueue
<1>5. Named(T)
  BY <1>1 DEF Named
<1> HIDE DEF T
<1>6. PICK U : U = T
  OBVIOUS
<1>7. EngineOf(U)' /\ Named(U)'
  BY <1>4, <1>5, <1>6 DEF EngineOf, Named
<1> QED
  BY <1>7 DEF ActionsInv

LEMMA OthersNamed ==
  ASSUME ActionsInv,
         \/ ServiceReceives
         \/ current' = Idle /\ UNCHANGED actions
         \/ UNCHANGED <<actions, current>>
  PROVE  ActionsInv'
<1>1. PICK S : EngineOf(S) /\ Named(S)
  BY DEF ActionsInv
<1>2. EngineOf(S)' /\ Named(S)'
  BY <1>1 DEF EngineOf, Named, ServiceReceives
<1> QED
  BY <1>2 DEF ActionsInv

LEMMA ActionsNamed ==
  ASSUME ActionsInv, Next
  PROVE  ActionsInv'
<1>1. CASE Service
  <2>1. CASE ServiceReceives
    BY <2>1, OthersNamed
  <2>2. CASE Sends \/ HostNameSet \/ InstanceNameSet
    BY <2>2, OthersNamed
    DEF Sends, HostNameSet, InstanceNameSet, Executes, send_packet_skips, send_packet_off, send_packet_again,
        send_packet_announces, send_packet_probes_on, send_packet_last
  <2>3. CASE mdns_priv_pcb_enable \/ mdns_priv_pcb_disable \/ AnnounceEvent
    BY <2>3, OthersNamed DEF mdns_priv_pcb_enable, mdns_priv_pcb_disable, AnnounceEvent, Executes
  <2>4. CASE Parsed
    <3>1. Parses
      BY <2>4 DEF Parsed, PacketIgnored, ConflictOfAddress, DuplicateFound, QuestionAnswered, AnswerSuppressed,
                  ConflictOfService, ConflictOfText
    <3> QED
      BY <3>1, OthersNamed DEF Parses, Executes
  <2> QED
    BY <1>1, <2>1, <2>2, <2>3, <2>4 DEF Service
<1>2. CASE Timer
  <2>1. ASSUME NEW i, Posts(i) PROVE ActionsInv'
    BY <2>1, PostsNamed, OthersNamed DEF Posts
  <2> QED
    BY <1>2, <2>1, OthersNamed DEF Timer, TimerStarts, TimerPosts, TimerEnds, TimerFails
<1>3. CASE Api
  <2>1. CASE mdns_hostname_set
    BY <2>1, PostsNamed DEF mdns_hostname_set, Calls
  <2>2. CASE mdns_instance_name_set
    BY <2>2, PostsNamed DEF mdns_instance_name_set, Calls
  <2>3. CASE UNCHANGED <<actions, current>>
    BY <2>3, OthersNamed
  <2> QED
    BY <1>3, <2>1, <2>2, <2>3
    DEF Api, Calls, mdns_service_add, mdns_service_change, mdns_service_remove, mdns_service_instance_name_set
<1>4. CASE EventArrives
  <2>1. UNCHANGED current /\ (UNCHANGED actions \/ \E c \in Pcbs : \E w : Enqueue([type |-> "EVENT", pcb |-> c, what |-> w]))
    BY <1>4 DEF EventArrives
  <2> QED
    BY <2>1, PostsNamed, OthersNamed
<1>5. CASE PacketArrives
  <2>1. UNCHANGED current /\ \E c \in Pcbs : Enqueue([type |-> "RX", pcb |-> c])
    BY <1>5 DEF PacketArrives, Ready
  <2> QED
    BY <2>1, PostsNamed
<1> QED
  BY <1>1, <1>2, <1>3, <1>4, <1>5 DEF Next

LEMMA TwinStep == TwinInv /\ [Next]_vars => TwinInv'
<1> SUFFICES ASSUME TwinInv, [Next]_vars PROVE TwinInv'
  OBVIOUS
<1>1. BaseInv /\ OneIsUp /\ (MaxFails = 0 => OtherIsUp) /\ ActionsInv
      /\ (current.type \in {"RX", "EVENT"} => current.pcb \in Pcbs)
  BY CurrentNamed DEF TwinInv, BaseInv
<1>2. ASSUME Quiet, services' \in SUBSET Services, ActionsInv' PROVE TwinInv'
  BY <1>1, <1>2, QuietKeepsTwins DEF TwinInv, BaseInv, Quiet, ComeFrom
<1>3. services \in SUBSET Services
  BY <1>1 DEF BaseInv
<1>4. CASE UNCHANGED vars
  <2>1. ActionsInv'
    BY <1>1, <1>4, OthersNamed DEF vars, engineVars
  <2>2. Quiet /\ UNCHANGED services
    BY <1>1, <1>4, RestsQuiet DEF vars, pcbVars, serverVars
  <2> QED
    BY <1>2, <1>3, <2>1, <2>2
<1>5. CASE Next
  <2>1. ActionsInv'
    BY <1>1, <1>5, ActionsNamed
  <2>2. CASE Service
    <3>1. CASE ServiceReceives /\ UNCHANGED <<tx, cursor, host, pcbVars, serverVars, boundVars>>
      BY <1>1, <1>2, <1>3, <2>1, <3>1, RestsQuiet DEF pcbVars, serverVars
    <3>2. CASE Sends /\ UNCHANGED <<serverVars, boundVars>>
      BY <1>1, <1>2, <1>3, <2>1, <3>2, SendsQuiet DEF serverVars
    <3>3. CASE HostNameSet \/ InstanceNameSet
      <4>1. NewHostName \/ NewInstanceName
        BY <3>3 DEF HostNameSet, InstanceNameSet
      <4> QED
        BY <1>1, <1>2, <1>3, <2>1, <4>1, NamesQuiet
    <3>4. CASE mdns_priv_pcb_enable
      BY <1>1, <1>3, <2>1, <3>4, EnableKeepsTwins DEF TwinInv, BaseInv, mdns_priv_pcb_enable, serverVars
    <3>5. CASE mdns_priv_pcb_disable
      BY <1>1, <1>3, <2>1, <3>5, DisableKeepsTwins DEF TwinInv, BaseInv, mdns_priv_pcb_disable, serverVars
    <3>6. CASE AnnounceEvent
      <4>1. current.pcb \in Pcbs /\ UNCHANGED services /\ \E ip : Announces({current.pcb}, {}, ip, tx, pcb)
        BY <1>1, <3>6 DEF AnnounceEvent, Executes, serverVars
      <4>2. Quiet
        BY <1>1, <4>1, AnnouncesQuiet
      <4> QED
        BY <1>2, <1>3, <2>1, <4>1, <4>2
    <3>7. CASE DuplicateFound
      BY <1>1, <1>3, <2>1, <3>7, DuplicateKeepsTwins DEF TwinInv, BaseInv, DuplicateFound, serverVars
    <3>8. CASE Parsed /\ ~DuplicateFound
      BY <1>1, <1>2, <1>3, <2>1, <3>8, ParsedQuiet
    <3> QED
      BY <2>2, <3>1, <3>2, <3>3, <3>4, <3>5, <3>6, <3>7, <3>8 DEF Service
  <2>3. CASE Timer
    BY <1>1, <1>2, <1>3, <2>1, <2>3, TimerQuiet
  <2>4. CASE Api
    BY <1>1, <1>2, <2>1, <2>4, ApiQuiet
  <2>5. CASE EventArrives \/ PacketArrives
    BY <1>1, <1>2, <1>3, <2>1, <2>5, RestsQuiet DEF EventArrives, PacketArrives, pcbVars, serverVars
  <2> QED
    BY <1>5, <2>2, <2>3, <2>4, <2>5 DEF Next
<1> QED
  BY <1>4, <1>5

LEMMA TwinInit == Init \/ InitServed => TwinInv
<1> SUFFICES ASSUME Init \/ InitServed PROVE TwinInv
  OBVIOUS
<1>1. EngineOf({}) /\ Named({})
  BY EngineStarts DEF Init, InitServed, Named
<1>2. ActionsInv
  BY <1>1 DEF ActionsInv
<1>3. pcb \in [Pcbs -> PcbRecord] /\ \A c \in Pcbs : pcb[c].state # "DUP"
  <2> DEFINE on == [Off EXCEPT !.state = "RUNNING", !.ready = TRUE]
  <2>1. on \in PcbRecord /\ Off \in PcbRecord /\ on.state # "DUP" /\ Off.state # "DUP"
    BY DEF Off, PcbRecord, PcbStates
  <2>2. \E up \in SUBSET Pcbs : pcb = [c \in Pcbs |-> IF c \in up THEN on ELSE Off]
    <3>1. CASE Init
      BY <3>1 DEF Init
    <3>2. CASE InitServed
      <4>1. pcb = [c \in Pcbs |-> on]
        BY <3>2 DEF InitServed
      <4>2. pcb = [c \in Pcbs |-> IF c \in Pcbs THEN on ELSE Off]
        BY <4>1, Zenon
      <4> QED
        BY <4>2
    <3> QED
      BY <3>1, <3>2
  <2> HIDE DEF on
  <2> QED
    BY <2>1, <2>2
<1>4. services \in SUBSET Services /\ fails \in 0..MaxFails
  BY ResponderAssumption DEF Init, InitServed
<1> QED
  BY <1>2, <1>3, <1>4 DEF TwinInv, BaseInv, OneIsUp, OtherIsUp

(* Two interfaces on one subnet do not both fall silent: one that has been  *)
(* set aside as a duplicate (mdns_priv_pcb_set_duplicate) has its twin up.  *)
(* Whatever interfaces, calls, conflicts and events there are, as long as   *)
(* no allocation fails; from the start or from a responder that serves.     *)
THEOREM TwinsNotBothSilent ==
  ASSUME MaxFails = 0
  PROVE  (Spec => []TwinIsUp) /\ (ServedSpec => []TwinIsUp)
<1>1. TwinInv => TwinIsUp
  BY DEF TwinInv, OtherIsUp, TwinIsUp
<1> QED
  BY <1>1, TwinInit, TwinStep, PTL DEF Spec, ServedSpec

(* And when allocations fail one of the two is up: the one that was set     *)
(* aside may then stay so when it has been brought up again, without the    *)
(* probe that would have changed that.                                      *)
THEOREM OneTwinIsUp == (Spec => []OneIsUp) /\ (ServedSpec => []OneIsUp)
<1>1. TwinInv => OneIsUp
  BY DEF TwinInv
<1> QED
  BY <1>1, TwinInit, TwinStep, PTL DEF Spec, ServedSpec

-----------------------------------------------------------------------------
(* The list: what is taken out of it, and what is put into it.              *)

(* A place has a rank among places, a higher place a higher one, and every  *)
(* rank is taken.                                                           *)
LEMMA Ranks ==
  ASSUME NEW n \in Nat, NEW I \in SUBSET (1..n)
  PROVE  /\ Cardinality(I) \in Nat
         /\ \A i \in I : Rank(I, i) \in 1..Cardinality(I)
         /\ \A i, j \in I : i < j => Rank(I, i) < Rank(I, j)
         /\ \A m \in 1..Cardinality(I) : \E i \in I : Rank(I, i) = m
<1> DEFINE Upto(i) == {k \in I : k <= i}
<1>0. \A i \in I : i \in Nat
  OBVIOUS
<1>1. IsFiniteSet(I) /\ Cardinality(I) \in Nat
  <2>1. IsFiniteSet(1..n) /\ I \subseteq 1..n
    BY FS_Interval
  <2> QED
    BY <2>1, FS_Subset, FS_CardinalityType
<1>2. ASSUME NEW i \in I
      PROVE  IsFiniteSet(Upto(i)) /\ Cardinality(Upto(i)) \in 1..Cardinality(I)
  <2>1. Upto(i) \subseteq I /\ Upto(i) # {}
    BY <1>0
  <2> HIDE DEF Upto
  <2>2. IsFiniteSet(Upto(i)) /\ Cardinality(Upto(i)) \in Nat /\ Cardinality(Upto(i)) <= Cardinality(I)
    BY <1>1, <2>1, FS_Subset, FS_CardinalityType
  <2>3. Cardinality(Upto(i)) # 0
    BY <2>1, <2>2, FS_EmptySet
  <2> QED
    BY <1>1, <2>2, <2>3
<1>3. ASSUME NEW i \in I, NEW j \in I, i < j
      PROVE  Cardinality(Upto(i)) < Cardinality(Upto(j))
  <2>1. Upto(i) \subseteq Upto(j) /\ j \in Upto(j) /\ j \notin Upto(i)
    <3>1. i \in Nat /\ j \in Nat /\ j <= j /\ ~(j <= i) /\ \A k \in I : k <= i => k <= j
      BY <1>0, <1>3
    <3> QED
      BY <3>1
  <2> HIDE DEF Upto
  <2>2. Cardinality(Upto(i)) <= Cardinality(Upto(j)) /\ Cardinality(Upto(i)) # Cardinality(Upto(j))
    BY <1>2, <2>1, FS_Subset
  <2> QED
    BY <1>2, <2>2
<1>4. \A m \in 1..Cardinality(I) : \E i \in I : Cardinality(Upto(i)) = m
  <2> DEFINE f == [i \in I |-> Cardinality(Upto(i))]
             T == 1..Cardinality(I)
  <2> HIDE DEF Upto
  <2>1. f \in [I -> T]
    BY <1>2
  <2>2. \A a, b \in I : f[a] = f[b] => a = b
    <3> SUFFICES ASSUME NEW a \in I, NEW b \in I, a # b PROVE f[a] # f[b]
      OBVIOUS
    <3>1. a < b \/ b < a
      BY <1>0
    <3> QED
      BY <1>2, <1>3, <3>1
  <2>3. f \in Injection(I, T)
    BY <2>1, <2>2 DEF Injection, IsInjective
  <2>4. IsFiniteSet(T) /\ Cardinality(T) = Cardinality(I)
    BY <1>1, FS_Interval
  <2>5. f \in Surjection(I, T)
    <3> HIDE DEF f, T
    <3> QED
      BY <2>3, <2>4, FS_Injection
  <2> QED
    BY <2>5 DEF Surjection
<1> QED
  BY <1>1, <1>2, <1>3, <1>4 DEF Rank

(* What is in r comes from the places I of q, by b: everything once. *)
Chosen(q, I, r, b) ==
  /\ b \in [1..Len(r) -> I]
  /\ \A n \in 1..Len(r) : r[n] = q[b[n]]
  /\ \A i \in I : \E n \in 1..Len(r) : b[n] = i
  /\ \A m, n \in 1..Len(r) : b[m] = b[n] => m = n

LEMMA AtPlaces ==
  ASSUME NEW S, NEW q \in Seq(S), NEW I \in SUBSET (1..Len(q))
  PROVE  At(q, I) \in Seq(S) /\ \E b : Chosen(q, I, At(q, I), b)
<1> DEFINE N == Cardinality(I)
           b == [n \in 1..N |-> CHOOSE i \in I : Rank(I, i) = n]
<1>0. Len(q) \in Nat /\ \A i \in I : i \in Nat
  OBVIOUS
<1>1. N \in Nat /\ (\A i \in I : Rank(I, i) \in 1..N)
      /\ (\A i, j \in I : i < j => Rank(I, i) < Rank(I, j))
      /\ \A m \in 1..N : \E i \in I : Rank(I, i) = m
  BY <1>0, Ranks
<1>2. \A n \in 1..N : b[n] \in I /\ Rank(I, b[n]) = n
  BY <1>1
<1>3. At(q, I) = [n \in 1..N |-> q[b[n]]]
  BY DEF At
<1> HIDE DEF b, N
<1>4. At(q, I) \in Seq(S) /\ Len(At(q, I)) = N
  <2>0. \A i \in I : q[i] \in S
    OBVIOUS
  <2>1. \A n \in 1..N : q[b[n]] \in S
    BY <1>2, <2>0
  <2> QED
    BY <1>1, <1>3, <2>1
<1>5. \A i \in I : \E n \in 1..N : b[n] = i
  <2> TAKE i \in I
  <2>1. Rank(I, i) \in 1..N /\ b[Rank(I, i)] \in I /\ Rank(I, b[Rank(I, i)]) = Rank(I, i)
    BY <1>1, <1>2
  <2>2. b[Rank(I, i)] = i
    <3>1. PICK j \in I : j = b[Rank(I, i)]
      BY <2>1
    <3>2. Rank(I, j) = Rank(I, i) /\ Rank(I, i) \in Nat
      BY <1>1, <2>1, <3>1
    <3>3. ~(j < i) /\ ~(i < j)
      BY <1>1, <3>2
    <3> QED
      BY <1>0, <3>1, <3>3
  <2> QED
    BY <2>1, <2>2
<1>6. b \in [1..N -> I]
  <2>1. DOMAIN b = 1..N /\ b = [n \in 1..N |-> b[n]]
    BY DEF b
  <2> QED
    BY <1>2, <2>1
<1>7. PICK r, M, f : r = At(q, I) /\ M = 1..Len(r) /\ f = b
  OBVIOUS
<1>8. /\ f \in [M -> I]
      /\ \A n \in M : r[n] = q[f[n]]
      /\ \A i \in I : \E n \in M : f[n] = i
      /\ \A m, n \in M : f[m] = f[n] => m = n
  BY <1>2, <1>3, <1>4, <1>5, <1>6, <1>7
<1>9. Chosen(q, I, r, f)
  BY <1>7, <1>8, Zenon DEF Chosen
<1> QED
  BY <1>4, <1>7, <1>9

(* A list into which new packets have been woven: it is at the places K, in *)
(* b in its order, and every new packet is at one of the others.            *)
Weaves(q, new, r, K, b, f) ==
  /\ K \in SUBSET (1..Len(r)) /\ b \in [K -> 1..Len(q)] /\ f \in [1..Len(r) \ K -> new]
  /\ \A k \in K : r[k] = q[b[k]]
  /\ \A k \in 1..Len(r) \ K : r[k] = f[k]
  /\ \A i \in 1..Len(q) : \E k \in K : b[k] = i
  /\ \A k, l \in K : b[k] = b[l] => k = l
  /\ \A p \in new : \E k \in 1..Len(r) \ K : f[k] = p
  /\ \A k, l \in 1..Len(r) \ K : f[k] = f[l] => k = l

LEMMA Woven ==
  ASSUME NEW S, NEW q \in Seq(S), NEW new \in SUBSET S, IsFiniteSet(new),
         NEW r \in AllSentAfter(q, new)
  PROVE  r \in Seq(S) /\ \E K, b, f : Weaves(q, new, r, K, b, f)
<1> DEFINE N == Len(q) + Cardinality(new)
<1>1. N \in Nat /\ Len(q) \in Nat
  BY FS_CardinalityType
<1>2. PICK K \in SUBSET (1..N) : \E f \in Bijection(1..N \ K, new) :
        Cardinality(K) = Len(q) /\ r = [k \in 1..N |-> IF k \in K THEN q[Rank(K, k)] ELSE f[k]]
  <2> DEFINE places == 1..N
             Old == {I \in SUBSET places : /\ Cardinality(I) = Len(q)
                                           /\ \A i \in I, k \in places \ I : k < i => ~q[Rank(I, i)].due}
             w(K, f) == [k \in places |-> IF k \in K THEN q[Rank(K, k)] ELSE f[k]]
             W(K) == {w(K, f) : f \in Bijection(places \ K, new)}
  <2>1. r \in UNION {W(K) : K \in Old}
    BY DEF AllSentAfter
  <2>2. PICK K \in Old : r \in W(K)
    <3> HIDE DEF W, Old
    <3> QED
      BY <2>1
  <2>3. K \in SUBSET (1..N) /\ Cardinality(K) = Len(q)
    BY <2>2
  <2>4. \E f \in Bijection(1..N \ K, new) : r = w(K, f)
    <3> HIDE DEF w
    <3> QED
      BY <2>2
  <2> QED
    BY <2>3, <2>4
<1>3. PICK f \in Bijection(1..N \ K, new) : r = [k \in 1..N |-> IF k \in K THEN q[Rank(K, k)] ELSE f[k]]
  BY <1>2
<1>4. f \in [1..N \ K -> new] /\ (\A p \in new : \E k \in 1..N \ K : f[k] = p)
      /\ \A k, l \in 1..N \ K : f[k] = f[l] => k = l
  BY DEF Bijection, Injection, Surjection, IsInjective
<1> DEFINE b == [k \in K |-> Rank(K, k)]
<1>5. /\ b \in [K -> 1..Len(q)]
      /\ \A i \in 1..Len(q) : \E k \in K : b[k] = i
      /\ \A k, l \in K : b[k] = b[l] => k = l
  <2>1. /\ \A k \in K : Rank(K, k) \in 1..Len(q)
        /\ \A k, l \in K : k < l => Rank(K, k) < Rank(K, l)
        /\ \A i \in 1..Len(q) : \E k \in K : Rank(K, k) = i
    BY <1>1, <1>2, Ranks
  <2>2. ASSUME NEW k \in K, NEW l \in K, Rank(K, k) = Rank(K, l) PROVE k = l
    <3>1. k \in Nat /\ l \in Nat /\ Rank(K, k) \in Nat
      BY <2>1, <1>1
    <3>2. ~(k < l) /\ ~(l < k)
      BY <2>1, <2>2, <3>1
    <3> QED
      BY <3>1, <3>2
  <2> QED
    BY <2>1, <2>2
<1>6. \A k \in K : r[k] = q[b[k]]
  BY <1>3
<1>7. \A k \in 1..N \ K : r[k] = f[k]
  BY <1>3
<1>8. r \in Seq(S) /\ Len(r) = N
  <2>1. \A i \in 1..Len(q) : q[i] \in S
    OBVIOUS
  <2>2. ASSUME NEW k \in 1..N PROVE r[k] \in S
    <3>1. CASE k \in K
      <4>1. b[k] \in 1..Len(q)
        BY <1>5, <3>1
      <4> QED
        BY <1>6, <2>1, <3>1, <4>1
    <3>2. CASE k \notin K
      BY <1>4, <1>7, <3>2
    <3> QED
      BY <3>1, <3>2
  <2>3. r = [k \in 1..N |-> r[k]]
    BY <1>3
  <2> QED
    BY <1>1, <2>2, <2>3
<1>9. K \in SUBSET (1..Len(r))
  BY <1>8
<1>10. Weaves(q, new, r, K, b, f)
  <2> HIDE DEF b, N
  <2> QED
    BY <1>4, <1>5, <1>6, <1>7, <1>8, <1>9 DEF Weaves
<1> QED
  BY <1>8, <1>10

(* The packets of a PCB are the same in both lists: each is there, nothing  *)
(* else is, and what was alone is alone.                                    *)
Carried(q, r, c) ==
  /\ \A i \in Of(q, c) : \E j \in Of(r, c) : r[j] = q[i]
  /\ \A j \in Of(r, c) : \E i \in Of(q, c) : r[j] = q[i]
  /\ (\E i : Of(q, c) = {i}) => \E j : Of(r, c) = {j}

(* The packets of c in q are at some of the places K of r, by b, and no     *)
(* other place of r has a packet of c.                                      *)
Embeds(q, r, c, K, b) ==
  /\ K \in SUBSET (1..Len(r)) /\ b \in [K -> 1..Len(q)]
  /\ \A k \in K : r[k] = q[b[k]]
  /\ \A k \in 1..Len(r) \ K : r[k].pcb # c
  /\ \A i \in Of(q, c) : \E k \in K : b[k] = i
  /\ \A k, l \in K : b[k] = b[l] => k = l

LEMMA CarriedBy ==
  ASSUME NEW q, NEW r, NEW c, NEW K, NEW b, Embeds(q, r, c, K, b)
  PROVE  Carried(q, r, c)
<1> USE DEF Embeds
<1>1. \A k \in 1..Len(r) : k \in Of(r, c) <=> k \in K /\ b[k] \in Of(q, c)
  BY DEF Of
<1>2. \A k \in Of(r, c) : k \in 1..Len(r)
  BY DEF Of
<1>3. \A i \in Of(q, c) : \E j \in Of(r, c) : b[j] = i /\ r[j] = q[i]
  BY <1>1
<1>4. ASSUME NEW i, Of(q, c) = {i} PROVE \E j : Of(r, c) = {j}
  <2>1. PICK j \in Of(r, c) : b[j] = i
    BY <1>3, <1>4
  <2>2. \A k \in Of(r, c) : k = j
    BY <1>1, <1>2, <1>4, <2>1
  <2>3. Of(r, c) = {j}
    BY <2>1, <2>2
  <2> QED
    BY <2>3
<1> QED
  BY <1>1, <1>2, <1>3, <1>4 DEF Carried

(* The places that are kept. *)
LEMMA AtCarries ==
  ASSUME NEW S, NEW q \in Seq(S), NEW I \in SUBSET (1..Len(q)), NEW c, Of(q, c) \subseteq I
  PROVE  Carried(q, At(q, I), c)
<1>1. PICK b : Chosen(q, I, At(q, I), b)
  BY AtPlaces
<1>2. PICK r, K : r = At(q, I) /\ K = 1..Len(r)
  OBVIOUS
<1>3. b \in [K -> 1..Len(q)] /\ K \in SUBSET (1..Len(r))
  BY <1>1, <1>2 DEF Chosen
<1>4. /\ \A k \in K : r[k] = q[b[k]]
      /\ \A k \in 1..Len(r) \ K : r[k].pcb # c
      /\ \A i \in Of(q, c) : \E k \in K : b[k] = i
      /\ \A k, l \in K : b[k] = b[l] => k = l
  BY <1>1, <1>2 DEF Chosen
<1> QED
  BY <1>2, <1>3, <1>4, CarriedBy DEF Embeds

LEMMA ClearedList ==
  ASSUME NEW S, NEW q \in Seq(S), NEW C
  PROVE  /\ Cleared(q, C) \in Seq(S)
         /\ \A c : c \in C => Of(Cleared(q, C), c) = {}
         /\ \A c : c \notin C => Carried(q, Cleared(q, C), c)
<1> DEFINE I == {i \in 1..Len(q) : q[i].pcb \notin C}
<1>1. I \in SUBSET (1..Len(q)) /\ Cleared(q, C) = At(q, I)
  BY DEF Cleared
<1>2. \A c : c \notin C => Of(q, c) \subseteq I
  BY DEF Of
<1>3. \A i \in I : q[i].pcb \notin C
  OBVIOUS
<1> HIDE DEF I
<1>4. PICK b : Chosen(q, I, At(q, I), b)
  BY <1>1, AtPlaces
<1>5. \A n \in 1..Len(At(q, I)) : At(q, I)[n].pcb \notin C
  BY <1>3, <1>4 DEF Chosen
<1>6. \A c : c \in C => Of(At(q, I), c) = {}
  BY <1>5 DEF Of
<1> QED
  BY <1>1, <1>2, <1>6, AtPlaces, AtCarries

(* What a PCB has in r: what it had in q, where none of the new packets is  *)
(* its; its new packet, where that is the only one; and nothing else.       *)
Takes(q, new, r) ==
  /\ \A c : (\A p \in new : p.pcb # c) => Carried(q, r, c)
  /\ \A p \in new : (Of(q, p.pcb) = {} /\ \A o \in new : o.pcb = p.pcb => o = p)
                       => \E j : Of(r, p.pcb) = {j} /\ r[j] = p
  /\ \A c : \A j \in Of(r, c) : r[j] \in new \/ \E i \in Of(q, c) : r[j] = q[i]

LEMMA WovenList ==
  ASSUME NEW S, NEW q \in Seq(S), NEW new \in SUBSET S, IsFiniteSet(new),
         NEW r \in AllSentAfter(q, new)
  PROVE  r \in Seq(S) /\ Takes(q, new, r)
<1>1. r \in Seq(S)
  BY Woven
<1>2. PICK K, b, f : Weaves(q, new, r, K, b, f)
  BY Woven
<1>3. ASSUME NEW c, \A p \in new : p.pcb # c PROVE Carried(q, r, c)
  <2>1. \A k \in 1..Len(r) \ K : r[k].pcb # c
    BY <1>2, <1>3 DEF Weaves
  <2>2. \A i \in Of(q, c) : \E k \in K : b[k] = i
    BY <1>2 DEF Of, Weaves
  <2>3. /\ K \in SUBSET (1..Len(r)) /\ b \in [K -> 1..Len(q)]
        /\ \A k \in K : r[k] = q[b[k]]
        /\ \A k, l \in K : b[k] = b[l] => k = l
    BY <1>2 DEF Weaves
  <2> QED
    BY <2>1, <2>2, <2>3, CarriedBy DEF Embeds
<1>4. ASSUME NEW p \in new, Of(q, p.pcb) = {}, \A o \in new : o.pcb = p.pcb => o = p
      PROVE  \E j : Of(r, p.pcb) = {j} /\ r[j] = p
  <2>1. PICK j \in 1..Len(r) \ K : f[j] = p
    BY <1>2 DEF Weaves
  <2>2. j \in Of(r, p.pcb) /\ r[j] = p
    BY <1>2, <2>1 DEF Of, Weaves
  <2>3. ASSUME NEW k \in Of(r, p.pcb) PROVE k = j
    <3>1. k \in 1..Len(r) /\ r[k].pcb = p.pcb
      BY DEF Of
    <3>2. CASE k \in K
      <4>1. b[k] \in Of(q, p.pcb)
        BY <1>2, <3>1, <3>2 DEF Of, Weaves
      <4> QED
        BY <1>4, <4>1
    <3>3. CASE k \notin K
      BY <1>2, <1>4, <2>1, <3>1, <3>3 DEF Weaves
    <3> QED
      BY <3>2, <3>3
  <2>4. Of(r, p.pcb) = {j}
    BY <2>2, <2>3
  <2> QED
    BY <2>2, <2>4
<1>5. ASSUME NEW c, NEW j \in Of(r, c) PROVE r[j] \in new \/ \E i \in Of(q, c) : r[j] = q[i]
  <2>1. j \in 1..Len(r) /\ r[j].pcb = c
    BY DEF Of
  <2>2. CASE j \in K
    <3>1. b[j] \in Of(q, c) /\ r[j] = q[b[j]]
      BY <1>2, <2>1, <2>2 DEF Of, Weaves
    <3> QED
      BY <3>1
  <2>3. CASE j \notin K
    BY <1>2, <2>1, <2>3 DEF Weaves
  <2> QED
    BY <2>2, <2>3
<1> QED
  BY <1>1, <1>3, <1>4, <1>5 DEF Takes

-----------------------------------------------------------------------------
(* The packets of the list.                                                 *)

PacketOf(I) ==
  [id : I, pcb : Pcbs, kind : Kinds, questions : SUBSET Questions,
   answers : SUBSET (Services \cup {"self", "freed"}), host : BOOLEAN,
   queued : BOOLEAN, due : BOOLEAN]

(* A list of packets, whatever blocks of memory they are in. *)
ListOf(q) == \E I : q \in Seq(PacketOf(I))

LEMMA Lists ==
  ASSUME NEW q, ListOf(q), NEW new, NEW J, new \subseteq PacketOf(J)
  PROVE  \E S : q \in Seq(S) /\ new \subseteq S /\ \A r : r \in Seq(S) => ListOf(r)
<1>1. PICK I : q \in Seq(PacketOf(I))
  BY DEF ListOf
<1> DEFINE S == PacketOf(I \cup J)
<1>2. PacketOf(I) \subseteq S /\ PacketOf(J) \subseteq S
  BY DEF PacketOf
<1>3. q \in Seq(S)
  <2> HIDE DEF S
  <2> QED
    BY <1>1, <1>2
<1>4. \A r : r \in Seq(S) => ListOf(r)
  BY DEF ListOf
<1> HIDE DEF S
<1> QED
  BY <1>2, <1>3, <1>4

(* Clearing, of lists of packets. *)
LEMMA ListCleared ==
  ASSUME NEW q, ListOf(q), NEW C
  PROVE  /\ ListOf(Cleared(q, C))
         /\ \A c : c \in C => Of(Cleared(q, C), c) = {}
         /\ \A c : c \notin C => Carried(q, Cleared(q, C), c)
<1>1. PICK I : q \in Seq(PacketOf(I))
  BY DEF ListOf
<1>2. PICK S : S = PacketOf(I)
  OBVIOUS
<1>3. /\ Cleared(q, C) \in Seq(S)
      /\ \A c : c \in C => Of(Cleared(q, C), c) = {}
      /\ \A c : c \notin C => Carried(q, Cleared(q, C), c)
  BY <1>1, <1>2, ClearedList
<1> QED
  BY <1>2, <1>3 DEF ListOf

(* Sending, of lists of packets. *)
LEMMA ListWoven ==
  ASSUME NEW q, ListOf(q), NEW new, NEW J, new \subseteq PacketOf(J), IsFiniteSet(new),
         NEW r \in AllSentAfter(q, new)
  PROVE  ListOf(r) /\ Takes(q, new, r)
<1>1. PICK S : q \in Seq(S) /\ new \subseteq S /\ \A t : t \in Seq(S) => ListOf(t)
  BY Lists
<1>2. q \in Seq(S) /\ new \in SUBSET S /\ r \in AllSentAfter(q, new)
  BY <1>1
<1>3. r \in Seq(S) /\ Takes(q, new, r)
  BY <1>2, WovenList
<1> QED
  BY <1>1, <1>3

LEMMA CarriedOn ==
  ASSUME NEW q, NEW r, NEW t, NEW c, Carried(q, r, c), Carried(r, t, c)
  PROVE  Carried(q, t, c)
<1>1. \A i \in Of(q, c) : \E j \in Of(t, c) : t[j] = q[i]
  BY DEF Carried
<1>2. \A j \in Of(t, c) : \E i \in Of(q, c) : t[j] = q[i]
  BY DEF Carried
<1>3. (\E i : Of(q, c) = {i}) => \E j : Of(t, c) = {j}
  BY DEF Carried
<1> QED
  BY <1>1, <1>2, <1>3 DEF Carried

LEMMA CarriedAlong ==
  ASSUME NEW q, NEW c
  PROVE  Carried(q, q, c)
BY DEF Carried

(* One packet for each of some PCBs. *)
LEMMA FinitePackets ==
  ASSUME NEW C \in SUBSET Pcbs, NEW f, DOMAIN f = C
  PROVE  IsFiniteSet({f[c] : c \in C})
<1> DEFINE T == {f[c] : c \in C}
           g == [c \in C |-> f[c]]
<1>1. IsFiniteSet(C)
  BY ResponderAssumption, FS_Subset
<1>2. g \in Surjection(C, T)
  BY DEF Surjection
<1> HIDE DEF T, g
<1>3. IsFiniteSet(T)
  BY <1>1, <1>2, FS_Surjection
<1> QED
  BY <1>3 DEF T

-----------------------------------------------------------------------------
(* A PCB, its packets and what it has asked for.                            *)

(* Whom questions and answers may point to. *)
Strings == Services \cup {"self", "freed"}

(* The packet of a PCB that is probing: it asks for the instance names of   *)
(* the services that the PCB probes for, and for no other.                  *)
Carries(p, r) ==
  /\ p.kind = "probe" /\ p.answers = r.services /\ p.host = r.ip
  /\ \A x \in Strings : <<x, "instance">> \in p.questions <=> x \in r.services
  /\ \A x \in Strings : <<x, "host">> \in p.questions => r.ip

Probes(r) == r.state \in {"PROBE_1", "PROBE_2", "PROBE_3"}

(* A PCB c in the state r that is probing has its probe in the list q and   *)
(* nothing else; any other has no probe and asks for nothing.               *)
Alone(q, c, r) == \E i \in Of(q, c) : Of(q, c) = {i} /\ Carries(q[i], r)
Plain(q, c) == \A i \in Of(q, c) : q[i].kind # "probe" /\ q[i].questions = {}

AtLeast == [PROBE_1 |-> 0, PROBE_2 |-> 1, PROBE_3 |-> 2]

(* How often the services S have been asked for, a times, unless they are   *)
(* among the dropped ones, d: for those that are being probed as the state  *)
(* says, for all the others three times.                                    *)
Known(r, a, d, S) ==
  \A s \in S : IF s \in r.services THEN a[s] >= AtLeast[r.state]
               ELSE r.state \in {"OFF", "DUP"} \/ a[s] = 3 \/ s \in d

Sound(q, c, r, a, d, S, h) ==
  /\ r.ready <=> r.state \notin {"OFF", "DUP"}
  /\ ~r.ready => Of(q, c) = {}
  /\ IF Probes(r) THEN Alone(q, c, r) /\ r.running /\ h /\ (r.services # {} \/ r.ip)
     ELSE Plain(q, c) /\ ~r.running /\ r.services = {}
  /\ r.services \subseteq S
  /\ \A i \in Of(q, c) : q[i].answers \subseteq S \cup {"self"}
  /\ Known(r, a, d, S)

SoundInv ==
  /\ services # {} => host
  /\ \A c \in Pcbs \ spoilt : Sound(tx, c, pcb[c], asked[c], dropped[c], services, host)

LEMMA SoundStays ==
  ASSUME NEW q, NEW t, NEW c, NEW r, NEW a, NEW d, NEW S, NEW h, NEW b, NEW e, NEW T, NEW g,
         Sound(q, c, r, a, d, S, h), Carried(q, t, c), h => g, S \subseteq T,
         \A s \in T : r.state \in {"OFF", "DUP"} \/ (s \in S /\ b[s] = a[s] /\ (s \in d => s \in e))
  PROVE  Sound(t, c, r, b, e, T, g)
<1>1. Alone(q, c, r) => Alone(t, c, r)
  <2> SUFFICES ASSUME Alone(q, c, r) PROVE Alone(t, c, r)
    OBVIOUS
  <2>1. PICK i \in Of(q, c) : Of(q, c) = {i} /\ Carries(q[i], r)
    BY DEF Alone
  <2>2. PICK j : Of(t, c) = {j}
    BY <2>1 DEF Carried
  <2>3. j \in Of(t, c) /\ t[j] = q[i]
    BY <2>1, <2>2 DEF Carried
  <2> QED
    BY <2>1, <2>2, <2>3 DEF Alone
<1>2. Plain(q, c) => Plain(t, c)
  BY DEF Plain, Carried
<1>3. Of(q, c) = {} => Of(t, c) = {}
  BY DEF Carried
<1>4. (\A i \in Of(q, c) : q[i].answers \subseteq S \cup {"self"})
        => \A i \in Of(t, c) : t[i].answers \subseteq T \cup {"self"}
  BY DEF Carried
<1>5. Known(r, a, d, S) /\ (Probes(r) \/ r.services = {}) => Known(r, b, e, T)
  BY DEF Known, Probes
<1>6. r.services \subseteq S => r.services \subseteq T
  OBVIOUS
<1> HIDE DEF Alone, Plain, Of, Carried, Known, Probes
<1> QED
  BY <1>1, <1>2, <1>3, <1>4, <1>5, <1>6 DEF Sound

(* Packets that differ from what they were in nothing but what the timer    *)
(* notes, and in answers for S.                                             *)
Alike(q, t, c, S) ==
  /\ Of(t, c) = Of(q, c)
  /\ \A i \in Of(q, c) :
       /\ t[i].kind = q[i].kind /\ t[i].questions = q[i].questions /\ t[i].host = q[i].host
       /\ t[i].answers \subseteq q[i].answers \cup S \cup {"self"}
       /\ q[i].kind = "probe" => t[i].answers = q[i].answers

LEMMA SoundAlike ==
  ASSUME NEW q, NEW t, NEW c, NEW r, NEW a, NEW d, NEW S, NEW h,
         Sound(q, c, r, a, d, S, h), Alike(q, t, c, S)
  PROVE  Sound(t, c, r, a, d, S, h)
<1>1. Alone(q, c, r) => Alone(t, c, r)
  BY DEF Alone, Alike, Carries
<1>2. Plain(q, c) => Plain(t, c)
  BY DEF Plain, Alike
<1>3. Of(q, c) = {} => Of(t, c) = {}
  BY DEF Alike
<1>4. (\A i \in Of(q, c) : q[i].answers \subseteq S \cup {"self"})
        => \A i \in Of(t, c) : t[i].answers \subseteq S \cup {"self"}
  BY DEF Alike
<1> QED
  BY <1>1, <1>2, <1>3, <1>4 DEF Sound

(* A PCB begins to probe for the services V. *)
LEMMA SoundBegins ==
  ASSUME NEW t, NEW c, NEW r \in PcbRecord, NEW a, NEW d, NEW S \in SUBSET Services, NEW V, NEW ip \in BOOLEAN,
         r.ready, V \subseteq S, V # {} \/ ip,
         NEW o, o = [r EXCEPT !.state = "PROBE_1", !.running = TRUE, !.ip = ip, !.services = V],
         NEW j, Of(t, c) = {j}, Carries(t[j], o),
         a \in [Services -> 0..3],
         \A s \in S \ V : a[s] = 3 \/ s \in d
  PROVE  Sound(t, c, o, a, d, S, TRUE)
<1>1. o.state = "PROBE_1" /\ o.ready /\ o.running /\ o.ip = ip /\ o.services = V
  BY DEF PcbRecord
<1>2. Alone(t, c, o)
  BY DEF Alone
<1>3. t[j].answers = V
  BY <1>1 DEF Carries
<1>4. Known(o, a, d, S)
  BY <1>1 DEF Known, AtLeast
<1> QED
  BY <1>1, <1>2, <1>3, <1>4 DEF Sound, Probes

(* The probe that mdns_priv_create_probe_packet makes. *)
LEMMA ProbeCarries ==
  ASSUME NEW c \in Pcbs, NEW i, NEW V, NEW ip, V \in SUBSET (Services \cup {"freed"}), ip \in BOOLEAN
  PROVE  /\ \A o : o.services = V /\ o.ip = ip => Carries(Probe(c, i, V, ip), o)
         /\ \A J : i \in J => Probe(c, i, V, ip) \in PacketOf(J)
         /\ Probe(c, i, V, ip).pcb = c
<1>1. \A x \in Strings : <<x, "instance">> \in Asks(V, ip) <=> x \in V
  BY DEF Asks
<1>2. \A x \in Strings : <<x, "host">> \in Asks(V, ip) => ip
  BY DEF Asks
<1>3. Asks(V, ip) \in SUBSET Questions
  BY DEF Asks, Questions
<1> QED
  BY <1>1, <1>2, <1>3 DEF Carries, Probe, Allocated, PacketOf, Kinds

-----------------------------------------------------------------------------
(* Probing begins.                                                          *)

(* What has been asked and dropped, and the packets of the list. *)
DataInv ==
  /\ ListOf(tx)
  /\ asked \in [Pcbs -> [Services -> 0..3]]
  /\ dropped \in [Pcbs -> SUBSET Services]
  /\ spoilt \in SUBSET Pcbs
  /\ host \in BOOLEAN

(* A PCB c, which was r, is o and has begun to probe for V: its probe is    *)
(* all that it has in the list t.                                           *)
Begun(t, c, r, o, V, ip) ==
  /\ o = [r EXCEPT !.state = "PROBE_1", !.running = TRUE, !.ip = ip, !.services = V]
  /\ \E j : Of(t, c) = {j} /\ Carries(t[j], o)

(* What ProbesBegin has done to the PCBs that have not lost a packet.       *)
Began(C, S, ip, clear, q, r, lost) ==
  /\ ListOf(tx)' /\ dropped' \in [Pcbs -> SUBSET Services] /\ spoilt' \in SUBSET Pcbs
  /\ spoilt \cup lost \subseteq spoilt'
  /\ \A c \in Pcbs \ spoilt' :
       IF c \in C
       THEN /\ r[c].ready
            /\ Begun(tx', c, r[c], pcb'[c], Merged(c, S, clear), ip \/ r[c].ip)
            /\ dropped'[c] = (dropped[c] \cup (pcb[c].services \cap Services)) \ Merged(c, S, clear)
       ELSE pcb'[c] = r[c] /\ Carried(q, tx', c) /\ dropped'[c] = dropped[c]

LEMMA ProbesTo ==
  ASSUME NEW C \in SUBSET Pcbs, NEW S \in SUBSET Services, NEW ip, ip \in BOOLEAN, NEW clear,
         NEW q, ListOf(q), NEW r \in [Pcbs -> PcbRecord], NEW lost \in SUBSET Pcbs, BaseInv, DataInv,
         host', ProbesBegin(C, S, ip, clear, q, r, lost)
  PROVE  Began(C, S, ip, clear, q, r, lost)
<1> USE DEF BaseInv
<1> DEFINE T(c) == Merged(c, S, clear)
           ipOf(c) == ip \/ r[c].ip
           old(c) == pcb[c].services \cap Services
<1>1. PICK no_packet \in SUBSET C, no_list \in SUBSET C :
        ProbesBeginBut(no_packet, no_list, C, S, ip, clear, q, r, lost)
  BY DEF ProbesBegin
<1> DEFINE some == C \ (no_packet \cup no_list)
           id == NewIds(Cleared(q, C), some)
           p == [c \in some |-> Probe(c, id[c], T(c), ipOf(c))]
           e(c) == CASE c \in some -> [r[c] EXCEPT !.state = "PROBE_1", !.running = TRUE, !.ip = ipOf(c),
                                                    !.services = T(c)]
                     [] c \in no_packet -> [r[c] EXCEPT !.running = FALSE, !.ip = FALSE, !.services = {}]
                     [] c \in no_list /\ clear -> [r[c] EXCEPT !.running = FALSE, !.services = {}]
                     [] OTHER -> r[c]
           d(c) == CASE c \in some -> (dropped[c] \cup old(c)) \ T(c)
                     [] c \in C \ some -> dropped[c] \cup S \cup old(c)
                     [] OTHER -> dropped[c]
<1>2. /\ pcb' = [c \in Pcbs |-> e(c)]
      /\ tx' \in AllSentAfter(Cleared(q, C), {Probe(c, id[c], T(c), ipOf(c)) : c \in some})
      /\ dropped' = [c \in Pcbs |-> d(c)]
      /\ spoilt' = spoilt \cup no_packet \cup no_list \cup lost \cup {c \in C : ~r[c].ready}
  BY <1>1, Zenon DEF ProbesBeginBut
<1>3. \A c \in C : T(c) \in SUBSET (Services \cup {"freed"}) /\ ipOf(c) \in BOOLEAN
  BY DEF Merged, PcbRecord
<1>4. spoilt' \in SUBSET Pcbs /\ spoilt \cup lost \subseteq spoilt'
  BY <1>2 DEF DataInv
<1>5. dropped' \in [Pcbs -> SUBSET Services]
  <2>1. \A c \in Pcbs : d(c) \in SUBSET Services
    BY DEF DataInv
  <2> HIDE DEF d
  <2> QED
    BY <1>2, <2>1
<1> DEFINE new == {p[c] : c \in some}
           J == {id[c] : c \in some}
<1>6. /\ ListOf(Cleared(q, C))
      /\ \A c : c \in C => Of(Cleared(q, C), c) = {}
      /\ \A c : c \notin C => Carried(q, Cleared(q, C), c)
  BY ListCleared
<1>7. tx' \in AllSentAfter(Cleared(q, C), new)
  <2>1. new = {Probe(c, id[c], T(c), ipOf(c)) : c \in some}
    OBVIOUS
  <2> QED
    BY <1>2, <2>1, Zenon
<1>8. \A c \in some : p[c] \in PacketOf(J) /\ p[c].pcb = c
  <2> TAKE c \in some
  <2>1. c \in C /\ c \in Pcbs
    OBVIOUS
  <2>3. id[c] \in J
    OBVIOUS
  <2>4. PICK i : i = id[c] /\ p[c] = Probe(c, i, T(c), ipOf(c))
    OBVIOUS
  <2>5. T(c) \in SUBSET (Services \cup {"freed"}) /\ ipOf(c) \in BOOLEAN
    BY <1>3, <2>1
  <2> HIDE DEF id, p, J, T, ipOf
  <2> QED
    BY <2>1, <2>3, <2>4, <2>5, ProbeCarries
<1>9. new \subseteq PacketOf(J)
  <2> HIDE DEF J, p
  <2> QED
    BY <1>8
<1>10. IsFiniteSet(new)
  <2>1. DOMAIN p = some /\ some \in SUBSET Pcbs
    OBVIOUS
  <2> HIDE DEF p, some
  <2> QED
    BY <2>1, FinitePackets
<1>11. ListOf(tx)' /\ Takes(Cleared(q, C), new, tx')
  <2>1. PICK t : t = tx'
    OBVIOUS
  <2>2. ListOf(t) /\ Takes(Cleared(q, C), new, t)
    <3> HIDE DEF new, J
    <3> QED
      BY <1>6, <1>7, <1>9, <1>10, <2>1, ListWoven
  <2> QED
    BY <2>1, <2>2 DEF ListOf
<1>12. ASSUME NEW c \in Pcbs, c \notin spoilt', c \in C
       PROVE  /\ r[c].ready
              /\ Begun(tx', c, r[c], pcb'[c], T(c), ipOf(c))
              /\ dropped'[c] = (dropped[c] \cup old(c)) \ T(c)
  <2>1. c \in some /\ r[c].ready
    BY <1>2, <1>12
  <2>2. pcb'[c] = [r[c] EXCEPT !.state = "PROBE_1", !.running = TRUE, !.ip = ipOf(c), !.services = T(c)]
        /\ dropped'[c] = (dropped[c] \cup old(c)) \ T(c)
    BY <1>2, <2>1
  <2>3. p[c] \in new /\ p[c].pcb = c
    BY <1>8, <2>1
  <2>4. \A o \in new : o.pcb = c => o = p[c]
    <3> HIDE DEF p, some
    <3> QED
      BY <1>8
  <2>5. \E j : Of(tx', c) = {j} /\ tx'[j] = p[c]
    <3> HIDE DEF new, p
    <3> QED
      BY <1>6, <1>11, <1>12, <2>3, <2>4 DEF Takes
  <2>6. Carries(p[c], pcb'[c])
    <3>1. pcb'[c].services = T(c) /\ pcb'[c].ip = ipOf(c)
      BY <2>2, <1>3, <1>12 DEF PcbRecord
    <3>2. T(c) \in SUBSET (Services \cup {"freed"}) /\ ipOf(c) \in BOOLEAN
      BY <1>3, <1>12
    <3>3. PICK i : p[c] = Probe(c, i, T(c), ipOf(c))
      BY <2>1
    <3> HIDE DEF p, T, ipOf
    <3> QED
      BY <3>1, <3>2, <3>3, ProbeCarries
  <2> HIDE DEF p, T, ipOf, old
  <2> QED
    BY <2>1, <2>2, <2>5, <2>6 DEF Begun
<1>13. ASSUME NEW c \in Pcbs, c \notin C
       PROVE pcb'[c] = r[c] /\ Carried(q, tx', c) /\ dropped'[c] = dropped[c]
  <2>1. \A o \in new : o.pcb # c
    <3>1. c \notin some
      BY <1>13
    <3> HIDE DEF p, some
    <3> QED
      BY <1>8, <3>1
  <2>2. Carried(Cleared(q, C), tx', c)
    <3> HIDE DEF new
    <3> QED
      BY <1>11, <2>1 DEF Takes
  <2>3. Carried(q, tx', c)
    BY <1>6, <1>13, <2>2, CarriedOn
  <2>4. pcb'[c] = r[c] /\ dropped'[c] = dropped[c]
    BY <1>2, <1>13
  <2> QED
    BY <2>3, <2>4
<1> QED
  BY <1>4, <1>5, <1>11, <1>12, <1>13 DEF Began

(* What the PCBs of C that begin to probe must be, where r is what all of   *)
(* them are and q the list: the others are sound, and on those that begin   *)
(* the services that are not probed for have been asked for or dropped, or  *)
(* were being probed until now.                                             *)
MayBegin(C, S, ip, clear, q, r, lost) ==
  /\ asked' \in [Pcbs -> [Services -> 0..3]] /\ services' \in SUBSET Services /\ host' \in BOOLEAN
  /\ services' # {} => host'
  /\ S # {} \/ ip
  /\ ~host' => lost = {} /\ \A c \in C \ spoilt : r[c].ready /\ ~r[c].running /\ r[c].services = {}
  /\ \A c \in Pcbs \ (spoilt \cup lost) : c \notin C =>
       Sound(q, c, r[c], asked'[c], dropped[c], services', host')
  /\ \A c \in C \ (spoilt \cup lost) : r[c].ready =>
       /\ Merged(c, S, clear) \subseteq services'
       /\ \A s \in services' \ Merged(c, S, clear) :
            asked'[c][s] = 3 \/ s \in dropped[c] \/ s \in pcb[c].services

LEMMA ProbesSound ==
  ASSUME NEW C \in SUBSET Pcbs, NEW S \in SUBSET Services, NEW ip, ip \in BOOLEAN, NEW clear,
         NEW q, ListOf(q), NEW r \in [Pcbs -> PcbRecord], NEW lost \in SUBSET Pcbs, BaseInv, DataInv,
         ProbesBegin(C, S, ip, clear, q, r, lost), MayBegin(C, S, ip, clear, q, r, lost)
  PROVE  DataInv' /\ SoundInv'
<1> USE DEF MayBegin
<1>1. CASE host'
  <2>1. /\ ListOf(tx)' /\ dropped' \in [Pcbs -> SUBSET Services] /\ spoilt' \in SUBSET Pcbs
        /\ spoilt \cup lost \subseteq spoilt'
        /\ \A c \in Pcbs \ spoilt' :
              IF c \in C
              THEN /\ r[c].ready
                   /\ Begun(tx', c, r[c], pcb'[c], Merged(c, S, clear), ip \/ r[c].ip)
                   /\ dropped'[c] = (dropped[c] \cup (pcb[c].services \cap Services)) \ Merged(c, S, clear)
              ELSE pcb'[c] = r[c] /\ Carried(q, tx', c) /\ dropped'[c] = dropped[c]
    <3> HIDE DEF MayBegin
    <3>1. Began(C, S, ip, clear, q, r, lost)
      BY <1>1, ProbesTo
    <3> QED
      BY <3>1 DEF Began
  <2>2. ASSUME NEW c \in Pcbs, c \notin spoilt', c \in C
        PROVE  Sound(tx', c, pcb'[c], asked'[c], dropped'[c], services', host')
    <3> DEFINE V == Merged(c, S, clear)
    <3>1. /\ r[c].ready /\ c \notin spoilt \cup lost
          /\ Begun(tx', c, r[c], pcb'[c], V, ip \/ r[c].ip)
          /\ dropped'[c] = (dropped[c] \cup (pcb[c].services \cap Services)) \ V
      BY <2>1, <2>2
    <3>2. V \subseteq services' /\ S \subseteq V /\ (V # {} \/ ip)
      BY <2>2, <3>1 DEF Merged
    <3>3. \A s \in services' \ V : asked'[c][s] = 3 \/ s \in dropped'[c]
      BY <2>2, <3>1
    <3>4. PICK j : /\ Of(tx', c) = {j} /\ Carries(tx'[j], pcb'[c])
                   /\ pcb'[c] = [r[c] EXCEPT !.state = "PROBE_1", !.running = TRUE, !.ip = ip \/ r[c].ip, !.services = V]
      BY <3>1 DEF Begun
    <3>5. r[c] \in PcbRecord /\ (ip \/ r[c].ip) \in BOOLEAN /\ asked'[c] \in [Services -> 0..3]
      BY DEF PcbRecord
    <3>6. PICK t, x, a, d, Z, o, g : /\ t = tx' /\ x = r[c] /\ a = asked'[c] /\ d = dropped'[c] /\ Z = services'
                                  /\ o = pcb'[c] /\ g = (ip \/ r[c].ip)
      OBVIOUS
    <3> HIDE DEF V
    <3>7. Sound(t, c, o, a, d, Z, TRUE)
      <4>1. /\ x \in PcbRecord /\ Z \in SUBSET Services /\ g \in BOOLEAN /\ x.ready /\ V \subseteq Z /\ (V # {} \/ g)
            /\ o = [x EXCEPT !.state = "PROBE_1", !.running = TRUE, !.ip = g, !.services = V]
            /\ a \in [Services -> 0..3] /\ \A s \in Z \ V : a[s] = 3 \/ s \in d
        BY <3>1, <3>2, <3>3, <3>4, <3>5, <3>6
      <4>2. Of(t, c) = {j} /\ Carries(t[j], o)
        BY <3>4, <3>6
      <4> QED
        BY <4>1, <4>2, SoundBegins
    <3>8. host' = TRUE
      BY <1>1
    <3> QED
      BY <3>6, <3>7, <3>8
  <2>3. ASSUME NEW c \in Pcbs, c \notin spoilt', c \notin C
        PROVE  Sound(tx', c, pcb'[c], asked'[c], dropped'[c], services', host')
    <3>1. Sound(q, c, r[c], asked'[c], dropped[c], services', host')
      BY <2>1, <2>3
    <3>2. pcb'[c] = r[c] /\ Carried(q, tx', c) /\ dropped'[c] = dropped[c]
      BY <2>1, <2>3
    <3>3. Sound(tx', c, r[c], asked'[c], dropped[c], services', host')
      BY <3>1, <3>2, SoundStays
    <3> QED
      BY <3>2, <3>3
  <2> QED
    BY <2>1, <2>2, <2>3 DEF DataInv, SoundInv, ListOf
<1>2. CASE ~host'
  <2>1. /\ pcb' = [c \in Pcbs |-> IF c \in C THEN [r[c] EXCEPT !.state = "RUNNING"] ELSE r[c]]
        /\ tx' = Cleared(q, C)
        /\ UNCHANGED <<dropped, spoilt, fails>>
    BY <1>2 DEF ProbesBegin
  <2>2. /\ ListOf(Cleared(q, C))
        /\ \A c : c \in C => Of(Cleared(q, C), c) = {}
        /\ \A c : c \notin C => Carried(q, Cleared(q, C), c)
    BY ListCleared
  <2>3. services' = {} /\ lost = {}
    BY <1>2
  <2>4. ASSUME NEW c \in Pcbs, c \notin spoilt', c \in C
        PROVE  Sound(tx', c, pcb'[c], asked'[c], dropped'[c], services', host')
    <3>1. Of(tx', c) = {} /\ pcb'[c] = [r[c] EXCEPT !.state = "RUNNING"]
      BY <2>1, <2>2, <2>4
    <3>2. r[c].ready /\ ~r[c].running /\ r[c].services = {} /\ r[c] \in PcbRecord
      BY <1>2, <2>1, <2>4
    <3>3. pcb'[c].state = "RUNNING" /\ pcb'[c].ready /\ ~pcb'[c].running /\ pcb'[c].services = {}
      BY <3>1, <3>2 DEF PcbRecord
    <3> QED
      BY <2>3, <3>1, <3>3 DEF Sound, Probes, Plain, Known
  <2>5. ASSUME NEW c \in Pcbs, c \notin spoilt', c \notin C
        PROVE  Sound(tx', c, pcb'[c], asked'[c], dropped'[c], services', host')
    <3>1. Sound(q, c, r[c], asked'[c], dropped[c], services', host')
      BY <2>1, <2>3, <2>5
    <3>2. pcb'[c] = r[c] /\ Carried(q, tx', c) /\ dropped'[c] = dropped[c]
      BY <2>1, <2>2, <2>5
    <3>3. Sound(tx', c, r[c], asked'[c], dropped[c], services', host')
      BY <3>1, <3>2, SoundStays
    <3> QED
      BY <3>2, <3>3
  <2>6. DataInv'
    BY <2>1, <2>2 DEF DataInv, ListOf
  <2> QED
    BY <2>4, <2>5, <2>6 DEF SoundInv
<1> QED
  BY <1>1, <1>2

(* What may have changed when the PCBs of C, as they are, begin to probe S: *)
(* names of services of S, which may be new; and the list of the others     *)
(* only when nothing else has.                                              *)
MayReprobe(C, S, ip, q) ==
  /\ S # {} \/ ip
  /\ asked' \in [Pcbs -> [Services -> 0..3]] /\ host' \in BOOLEAN
  /\ services \subseteq services' /\ S \subseteq services' /\ services' \subseteq services \cup S
  /\ host => host'
  /\ services' # {} => host'
  /\ ~host' => \A c \in C : pcb[c].ready
  /\ \A c \in Pcbs, s \in Services \ S : asked'[c][s] = asked[c][s]
  /\ \A c \in Pcbs \ (C \cup spoilt) : \/ Of(q, c) = {} /\ ~pcb[c].ready
                                       \/ Carried(tx, q, c) /\ asked' = asked /\ services' = services

LEMMA ReprobesSound ==
  ASSUME NEW C \in SUBSET Pcbs, NEW S \in SUBSET Services, NEW ip, ip \in BOOLEAN, NEW clear,
         NEW q, ListOf(q), BaseInv, DataInv, SoundInv,
         ProbesBegin(C, S, ip, clear, q, pcb, {}), MayReprobe(C, S, ip, q)
  PROVE  DataInv' /\ SoundInv'
<1> USE DEF MayReprobe
<1>1. pcb \in [Pcbs -> PcbRecord] /\ services' \in SUBSET Services
  BY DEF BaseInv
<1>2. ASSUME NEW c \in Pcbs, c \notin spoilt
      PROVE  Sound(tx, c, pcb[c], asked[c], dropped[c], services, host)
  BY <1>2 DEF SoundInv
<1>3. ~host' => \A c \in C \ spoilt : pcb[c].ready /\ ~pcb[c].running /\ pcb[c].services = {}
  BY <1>2 DEF Sound
<1>4. ASSUME NEW c \in Pcbs, c \notin spoilt, c \notin C
      PROVE  Sound(q, c, pcb[c], asked'[c], dropped[c], services', host')
  <2>1. CASE Of(q, c) = {} /\ ~pcb[c].ready
    <3>1. Of(tx, c) = {} /\ pcb[c].state \in {"OFF", "DUP"}
      BY <1>2, <1>4, <2>1 DEF Sound
    <3>2. Carried(tx, q, c)
      BY <2>1, <3>1 DEF Carried
    <3> QED
      BY <1>2, <1>4, <3>1, <3>2, SoundStays
  <2>2. CASE Carried(tx, q, c) /\ asked' = asked /\ services' = services
    BY <1>2, <1>4, <2>2, SoundStays
  <2> QED
    BY <1>4, <2>1, <2>2
<1>5. ASSUME NEW c \in C, c \notin spoilt, pcb[c].ready
      PROVE  /\ Merged(c, S, clear) \subseteq services'
             /\ \A s \in services' \ Merged(c, S, clear) :
                  asked'[c][s] = 3 \/ s \in dropped[c] \/ s \in pcb[c].services
  <2>1. Sound(tx, c, pcb[c], asked[c], dropped[c], services, host)
    BY <1>2, <1>5
  <2>2. S \subseteq Merged(c, S, clear) /\ Merged(c, S, clear) \subseteq services'
    BY <2>1 DEF Merged, Sound
  <2>3. \A s \in services : s \in pcb[c].services \/ asked[c][s] = 3 \/ s \in dropped[c]
    BY <1>5, <2>1 DEF Sound, Known
  <2> QED
    BY <1>1, <2>2, <2>3
<1>6. \A c \in Pcbs \ (spoilt \cup {}) : c \notin C =>
         Sound(q, c, pcb[c], asked'[c], dropped[c], services', host')
  BY <1>4
<1>7. \A c \in C \ (spoilt \cup {}) : pcb[c].ready =>
           /\ Merged(c, S, clear) \subseteq services'
           /\ \A s \in services' \ Merged(c, S, clear) :
                asked'[c][s] = 3 \/ s \in dropped[c] \/ s \in pcb[c].services
  BY <1>5
<1>8. PICK r, lost : r = pcb /\ lost = {}
  OBVIOUS
<1>9. MayBegin(C, S, ip, clear, q, r, lost)
  BY <1>1, <1>3, <1>6, <1>7, <1>8 DEF MayBegin
<1>10. r \in [Pcbs -> PcbRecord] /\ lost \in SUBSET Pcbs /\ ProbesBegin(C, S, ip, clear, q, r, lost)
  BY <1>1, <1>8
<1> HIDE DEF MayReprobe
<1> QED
  BY <1>9, <1>10, ProbesSound

-----------------------------------------------------------------------------
(* Announcing.                                                              *)

(* The first packet of some PCBs announces more than it did.                *)
LEMMA AnsweredList ==
  ASSUME NEW q, ListOf(q), NEW C, NEW S \in SUBSET (Services \cup {"self"})
  PROVE  /\ ListOf(AnsweredToo(q, C, S))
         /\ \A c, T : S \subseteq T \cup {"self"} /\ (c \in C => Plain(q, c)) => Alike(q, AnsweredToo(q, C, S), c, T)
<1>1. PICK I : q \in Seq(PacketOf(I))
  BY DEF ListOf
<1> DEFINE e(i) == IF q[i].pcb \in C /\ \A j \in 1..i-1 : q[j].pcb # q[i].pcb
                   THEN [q[i] EXCEPT !.answers = @ \cup S] ELSE q[i]
<1>2. AnsweredToo(q, C, S) = [i \in 1..Len(q) |-> e(i)]
  BY DEF AnsweredToo
<1>3. ASSUME NEW i \in 1..Len(q)
      PROVE /\ e(i) \in PacketOf(I) /\ e(i).pcb = q[i].pcb /\ e(i).kind = q[i].kind
            /\ e(i).questions = q[i].questions /\ e(i).host = q[i].host
            /\ e(i).answers \subseteq q[i].answers \cup S
            /\ q[i].pcb \notin C => e(i) = q[i]
  <2>1. q[i] \in PacketOf(I)
    BY <1>1
  <2> QED
    BY <2>1 DEF PacketOf
<1> HIDE DEF e
<1>4. PICK t : t = AnsweredToo(q, C, S)
  OBVIOUS
<1>5. Len(q) \in Nat
  BY <1>1
<1>6. t \in Seq(PacketOf(I)) /\ Len(t) = Len(q) /\ \A i \in 1..Len(q) : t[i] = e(i)
  BY <1>2, <1>3, <1>4, <1>5
<1>7. ASSUME NEW c, NEW T, S \subseteq T \cup {"self"}, c \in C => Plain(q, c)
      PROVE  Alike(q, t, c, T)
  <2>1. Of(t, c) = Of(q, c)
    BY <1>3, <1>6 DEF Of
  <2>2. ASSUME NEW i \in Of(q, c)
        PROVE /\ t[i].kind = q[i].kind /\ t[i].questions = q[i].questions /\ t[i].host = q[i].host
              /\ t[i].answers \subseteq q[i].answers \cup T \cup {"self"}
              /\ q[i].kind = "probe" => t[i].answers = q[i].answers
    <3>1. i \in 1..Len(q) /\ q[i].pcb = c
      BY DEF Of
    <3>2. c \in C => q[i].kind # "probe"
      BY <1>7 DEF Plain
    <3> QED
      BY <1>3, <1>6, <1>7, <3>1, <3>2
  <2> QED
    BY <2>1, <2>2 DEF Alike
<1> QED
  BY <1>4, <1>6, <1>7 DEF ListOf

(* Again, for some of them, with more answers.                              *)
LEMMA AnsweredTwice ==
  ASSUME NEW q, ListOf(q), NEW C, NEW D, D \subseteq C,
         NEW A \in SUBSET (Services \cup {"self"}), NEW S \in SUBSET (Services \cup {"self"}), NEW T,
         A \subseteq T \cup {"self"}, S \subseteq T \cup {"self"}
  PROVE  /\ ListOf(AnsweredToo(AnsweredToo(q, C, A), D, S))
         /\ \A c : (c \in C => Plain(q, c)) => Alike(q, AnsweredToo(AnsweredToo(q, C, A), D, S), c, T)
<1>1. PICK t : t = AnsweredToo(q, C, A)
  OBVIOUS
<1>2. ListOf(t) /\ \A c : (c \in C => Plain(q, c)) => Alike(q, t, c, T)
  BY <1>1, AnsweredList
<1>3. PICK u : u = AnsweredToo(t, D, S)
  OBVIOUS
<1>4. ListOf(u) /\ \A c : (c \in D => Plain(t, c)) => Alike(t, u, c, T)
  BY <1>2, <1>3, AnsweredList
<1>5. ASSUME NEW c, c \in C => Plain(q, c) PROVE Alike(q, u, c, T)
  <2>1. Alike(q, t, c, T)
    BY <1>2, <1>5
  <2>2. c \in D => Plain(t, c)
    BY <1>5, <2>1 DEF Alike, Plain
  <2>3. Alike(t, u, c, T)
    BY <1>4, <2>2
  <2> QED
    BY <2>1, <2>3 DEF Alike
<1> QED
  BY <1>1, <1>3, <1>4, <1>5

(* A PCB that is not probing is given packets that are not probes, and      *)
(* announces.                                                               *)
LEMMA SoundTakes ==
  ASSUME NEW q, NEW t, NEW c, NEW r, NEW a, NEW d, NEW S, NEW h,
         Sound(q, c, r, a, d, S, h), ~Probes(r), r.ready,
         \A j \in Of(t, c) :
           \/ t[j].kind # "probe" /\ t[j].questions = {} /\ t[j].answers \subseteq S \cup {"self"}
           \/ \E i \in Of(q, c) : t[j] = q[i]
  PROVE  Sound(t, c, r, a, d, S, h)
<1>1. Plain(t, c) /\ \A j \in Of(t, c) : t[j].answers \subseteq S \cup {"self"}
  BY DEF Sound, Plain
<1> QED
  BY <1>1 DEF Sound

LEMMA SoundMoves ==
  ASSUME NEW q, NEW c, NEW r \in PcbRecord, NEW a, NEW d, NEW S, NEW h, NEW st, NEW o,
         Sound(q, c, r, a, d, S, h), ~Probes(r), r.ready,
         o = [r EXCEPT !.state = st], st \in {"ANNOUNCE_1", "ANNOUNCE_2", "ANNOUNCE_3", "RUNNING"}
  PROVE  Sound(q, c, o, a, d, S, h)
<1>1. o.state = st /\ o.ready = r.ready /\ o.running = r.running /\ o.services = r.services
  BY DEF PcbRecord
<1>2. ~Probes(o)
  BY <1>1 DEF Probes
<1>3. r.services = {} /\ Known(r, a, d, S) /\ r.state \notin {"OFF", "DUP"}
  BY DEF Sound
<1>4. Known(o, a, d, S)
  BY <1>1, <1>3 DEF Known
<1> QED
  BY <1>1, <1>2, <1>4 DEF Sound

LEMMA AnnouncesSound ==
  ASSUME NEW C \in SUBSET Pcbs, NEW S \in SUBSET Services, NEW ip, ip \in BOOLEAN, S # {} \/ ip,
         NEW q, ListOf(q), NEW r \in [Pcbs -> PcbRecord], BaseInv, DataInv,
         Announces(C, S, ip, q, r), UNCHANGED <<host, services>>, S \subseteq services, services # {} => host,
         asked' \in [Pcbs -> [Services -> 0..3]],
         \A c \in C : r[c] = pcb[c],
         \A c \in Pcbs \ spoilt : Sound(q, c, r[c], asked'[c], dropped[c], services, host)
  PROVE  DataInv' /\ SoundInv'
<1> DEFINE probing == {c \in C : r[c].ready /\ Probing(c)}
           moving  == {c \in C : r[c].ready /\ Announcing(c) /\ Of(q, c) # {}}
           resting == {c \in C : r[c].ready /\ host /\ r[c].state = "RUNNING"}
           t == [c \in Pcbs |-> IF c \in moving \cup resting THEN [r[c] EXCEPT !.state = "ANNOUNCE_1"] ELSE r[c]]
           answered(short) == AnsweredToo(AnsweredToo(q, moving, Self(ip)), moving \ short, S)
           news(lost) == {Allocated(NewIds(q, resting \ lost)[c], c, "announce", {}, S, ip) : c \in resting \ lost}
<1>1. PICK lost \in SUBSET resting, short \in SUBSET moving :
        \E q1 \in AllSentAfter(answered(short), news(lost)) : ProbesBegin(probing, S, ip, FALSE, q1, t, lost)
  BY Zenon DEF Announces
<1> DEFINE q2 == answered(short)
<1>2. PICK q1 \in AllSentAfter(q2, news(lost)) : ProbesBegin(probing, S, ip, FALSE, q1, t, lost)
  BY <1>1
<1> DEFINE some == resting \ lost
           id == NewIds(q, some)
           p == [c \in some |-> Allocated(id[c], c, "announce", {}, S, ip)]
           new == {p[c] : c \in some}
           J == {id[c] : c \in some}
<1>3. news(lost) = new
  OBVIOUS
<1>4. \A c \in some : p[c] \in PacketOf(J) /\ p[c].pcb = c /\ p[c].kind = "announce"
                       /\ p[c].questions = {} /\ p[c].answers = S
  <2> TAKE c \in some
  <2>1. c \in Pcbs /\ id[c] \in J
    OBVIOUS
  <2>2. PICK i : i = id[c] /\ p[c] = Allocated(i, c, "announce", {}, S, ip)
    OBVIOUS
  <2> HIDE DEF p, J, id
  <2> QED
    BY <2>1, <2>2 DEF Allocated, PacketOf, Kinds
<1>5. new \subseteq PacketOf(J) /\ IsFiniteSet(new)
  <2>1. DOMAIN p = some /\ some \in SUBSET Pcbs
    OBVIOUS
  <2> HIDE DEF p, some, J
  <2> QED
    BY <1>4, <2>1, FinitePackets
<1>6. /\ ListOf(q2)
      /\ \A c : (c \in moving => Plain(q, c)) => Alike(q, q2, c, services)
  <2>1. PICK A, D : A = Self(ip) /\ D = moving \ short
    OBVIOUS
  <2>2. /\ A \in SUBSET (Services \cup {"self"}) /\ A \subseteq services \cup {"self"}
        /\ S \in SUBSET (Services \cup {"self"}) /\ S \subseteq services \cup {"self"}
        /\ D \subseteq moving /\ q2 = AnsweredToo(AnsweredToo(q, moving, A), D, S)
    BY <2>1 DEF Self
  <2> HIDE DEF moving, q2
  <2> QED
    BY <2>2, AnsweredTwice
<1>7. ListOf(q1) /\ Takes(q2, new, q1)
  <2>1. q1 \in AllSentAfter(q2, new)
    BY <1>3
  <2> HIDE DEF q2, new, J
  <2> QED
    BY <1>5, <1>6, <2>1, ListWoven
<1>8. /\ t \in [Pcbs -> PcbRecord]
      /\ \A c \in Pcbs : c \notin moving \cup resting => t[c] = r[c]
      /\ \A c \in moving \cup resting : t[c] = [r[c] EXCEPT !.state = "ANNOUNCE_1"]
  BY DEF PcbRecord, PcbStates
<1>9. probing \in SUBSET Pcbs /\ lost \in SUBSET Pcbs /\ moving \in SUBSET Pcbs /\ resting \in SUBSET Pcbs
  OBVIOUS
<1>10. ASSUME NEW c \in Pcbs, c \notin spoilt, c \notin lost, c \notin probing
       PROVE  Sound(q1, c, t[c], asked'[c], dropped[c], services, host)
  <2>1. Sound(q, c, r[c], asked'[c], dropped[c], services, host)
    BY <1>10
  <2>2. c \in moving \cup resting => r[c].ready /\ ~Probes(r[c]) /\ r[c] \in PcbRecord
    BY DEF Announcing, Probes
  <2>3. c \in moving => Plain(q, c)
    BY <2>1, <2>2 DEF Sound
  <2>4. Sound(q2, c, r[c], asked'[c], dropped[c], services, host)
    <3>1. Alike(q, q2, c, services)
      BY <1>6, <2>3
    <3> HIDE DEF q2
    <3> QED
      BY <2>1, <3>1, SoundAlike
  <2>5. Sound(q1, c, r[c], asked'[c], dropped[c], services, host)
    <3>1. CASE c \in some
      <4>1. \A j \in Of(q1, c) : q1[j] \in new \/ \E i \in Of(q2, c) : q1[j] = q2[i]
        <5> HIDE DEF new, q2
        <5> QED
          BY <1>7 DEF Takes
      <4>2. \A o \in new : o.kind # "probe" /\ o.questions = {} /\ o.answers \subseteq services \cup {"self"}
        <5> HIDE DEF p, some, J, id
        <5> QED
          BY <1>4
      <4>3. r[c].ready /\ ~Probes(r[c])
        BY <2>2, <3>1
      <4> HIDE DEF new, q2
      <4> QED
        BY <2>4, <4>1, <4>2, <4>3, SoundTakes
    <3>2. CASE c \notin some
      <4>1. \A o \in new : o.pcb # c
        <5> HIDE DEF p, some, J, id
        <5> QED
          BY <1>4, <3>2
      <4>2. Carried(q2, q1, c)
        <5> HIDE DEF new, q2
        <5> QED
          BY <1>7, <4>1 DEF Takes
      <4> HIDE DEF q2
      <4> QED
        BY <2>4, <4>2, SoundStays
    <3> QED
      BY <3>1, <3>2
  <2>6. CASE c \in moving \cup resting
    <3>1. t[c] = [r[c] EXCEPT !.state = "ANNOUNCE_1"]
      BY <1>8, <2>6
    <3>2. PICK x, o : x = r[c] /\ o = t[c]
      OBVIOUS
    <3>3. x \in PcbRecord /\ x.ready /\ ~Probes(x) /\ Sound(q1, c, x, asked'[c], dropped[c], services, host)
          /\ o = [x EXCEPT !.state = "ANNOUNCE_1"]
      BY <2>2, <2>5, <2>6, <3>1, <3>2
    <3>4. Sound(q1, c, o, asked'[c], dropped[c], services, host)
      BY <3>3, SoundMoves
    <3> QED
      BY <3>2, <3>4
  <2>7. CASE c \notin moving \cup resting
    BY <1>8, <2>5, <2>7
  <2> QED
    BY <2>6, <2>7
<1>11. ASSUME NEW c \in probing, c \notin spoilt
       PROVE  /\ t[c] = pcb[c] /\ host
              /\ Merged(c, S, FALSE) \subseteq services
              /\ \A s \in services \ Merged(c, S, FALSE) : asked'[c][s] = 3 \/ s \in dropped[c]
  <2>1. c \in C /\ r[c] = pcb[c] /\ Probes(pcb[c]) /\ Probing(c)
    BY DEF Probing, Probes
  <2>2. c \notin moving \cup resting
    BY <2>1 DEF Probes, Announcing
  <2>3. Sound(q, c, pcb[c], asked'[c], dropped[c], services, host)
    BY <1>11, <2>1
  <2>4. Merged(c, S, FALSE) = S \cup pcb[c].services
    BY <2>1 DEF Merged
  <2> HIDE DEF probing, moving, resting, t
  <2> QED
    BY <1>8, <2>1, <2>2, <2>3, <2>4 DEF Sound, Known, Probes
<1>12. ~host' => resting = {} /\ \A c \in probing : c \in spoilt
  BY <1>11
<1>13. MayBegin(probing, S, ip, FALSE, q1, t, lost)
  <2>1. asked' \in [Pcbs -> [Services -> 0..3]] /\ services' \in SUBSET Services /\ host' \in BOOLEAN
    BY DEF BaseInv, DataInv
  <2>2. ~host' => lost = {} /\ \A c \in probing \ spoilt : t[c].ready /\ ~t[c].running /\ t[c].services = {}
    BY <1>12
  <2> HIDE DEF probing, moving, resting, t, p, some, new
  <2> QED
    BY <1>10, <1>11, <2>1, <2>2 DEF MayBegin
<1> HIDE DEF probing, moving, resting, t, q2
<1>14. PICK Z, x, g : Z = probing /\ x = t /\ g = FALSE
  OBVIOUS
<1>15. /\ Z \in SUBSET Pcbs /\ x \in [Pcbs -> PcbRecord]
       /\ ProbesBegin(Z, S, ip, g, q1, x, lost) /\ MayBegin(Z, S, ip, g, q1, x, lost)
  BY <1>2, <1>8, <1>9, <1>13, <1>14
<1> QED
  BY <1>7, <1>9, <1>15, ProbesSound

-----------------------------------------------------------------------------
(* Packets that are sent.                                                   *)

(* A step that concerns one PCB at most. *)
LEMMA OthersSound ==
  ASSUME NEW c \in Pcbs, SoundInv, UNCHANGED <<host, services, spoilt>>,
         \A d \in Pcbs \ {c} : /\ pcb'[d] = pcb[d] /\ asked'[d] = asked[d] /\ dropped'[d] = dropped[d]
                               /\ Carried(tx, tx', d),
         c \notin spoilt => Sound(tx', c, pcb'[c], asked'[c], dropped'[c], services, host)
  PROVE  SoundInv'
<1>1. ASSUME NEW d \in Pcbs, d \notin spoilt, d # c
      PROVE  Sound(tx', d, pcb'[d], asked'[d], dropped'[d], services, host)
  <2>1. Sound(tx, d, pcb[d], asked[d], dropped[d], services, host) /\ Carried(tx, tx', d)
    BY <1>1 DEF SoundInv
  <2>2. Sound(tx', d, pcb[d], asked[d], dropped[d], services, host)
    BY <2>1, SoundStays
  <2> QED
    BY <1>1, <2>2
<1> QED
  BY <1>1 DEF SoundInv

(* A PCB has nothing in t that it has not in q. *)
Within(q, t, c) == \A j \in Of(t, c) : \E i \in Of(q, c) : t[j] = q[i]

LEMMA TailList ==
  ASSUME NEW q, ListOf(q), q # <<>>
  PROVE  /\ ListOf(Tail(q)) /\ Head(q) = q[1] /\ Head(q).pcb \in Pcbs
         /\ \E I : Head(q) \in PacketOf(I)
         /\ \A c : c # Head(q).pcb => Carried(q, Tail(q), c)
         /\ \A c : Within(q, Tail(q), c)
         /\ 1 \in Of(q, Head(q).pcb)
         /\ Of(q, Head(q).pcb) = {1} => Of(Tail(q), Head(q).pcb) = {}
<1>1. PICK I : q \in Seq(PacketOf(I))
  BY DEF ListOf
<1>2. PICK t, n : t = Tail(q) /\ n = Len(q)
  OBVIOUS
<1>3. /\ n \in Nat /\ n > 0 /\ Len(t) = n - 1 /\ t \in Seq(PacketOf(I))
      /\ \A k \in 1..n-1 : t[k] = q[k+1]
      /\ Head(q) = q[1] /\ q[1] \in PacketOf(I)
  BY <1>1, <1>2
<1>4. ASSUME NEW c, c # q[1].pcb PROVE Carried(q, t, c)
  <2>1. PICK K, b : K = 1..Len(t) /\ b = [k \in K |-> k + 1]
    OBVIOUS
  <2>2. /\ K \in SUBSET (1..Len(t)) /\ b \in [K -> 1..Len(q)]
        /\ \A k \in K : t[k] = q[b[k]]
        /\ \A k \in 1..Len(t) \ K : t[k].pcb # c
        /\ \A k, l \in K : b[k] = b[l] => k = l
    BY <1>2, <1>3, <2>1
  <2>3. ASSUME NEW i \in Of(q, c) PROVE \E k \in K : b[k] = i
    <3>1. i \in 1..n /\ q[i].pcb = c
      BY <1>2 DEF Of
    <3>2. i # 1
      BY <1>4, <3>1
    <3>3. i - 1 \in K /\ b[i - 1] = i
      BY <1>3, <2>1, <3>1, <3>2
    <3> QED
      BY <3>3
  <2>4. \A i \in Of(q, c) : \E k \in K : b[k] = i
    BY <2>3
  <2> HIDE DEF Of
  <2>5. Embeds(q, t, c, K, b)
    BY <2>2, <2>4 DEF Embeds
  <2> QED
    BY <2>5, CarriedBy
<1>5. ASSUME NEW c, NEW j \in Of(t, c) PROVE j + 1 \in Of(q, c) /\ t[j] = q[j + 1] /\ j + 1 # 1
  BY <1>2, <1>3 DEF Of
<1>6. 1 \in Of(q, q[1].pcb)
  BY <1>2, <1>3 DEF Of
<1>7. Of(q, q[1].pcb) = {1} => Of(t, q[1].pcb) = {}
  BY <1>5
<1>8. \A c : Within(q, t, c)
  BY <1>5 DEF Within
<1>9. q[1].pcb \in Pcbs
  BY <1>3 DEF PacketOf
<1>10. ListOf(t)
  BY <1>3 DEF ListOf
<1> QED
  BY <1>2, <1>3, <1>4, <1>6, <1>7, <1>8, <1>9, <1>10

(* The PCB of the packet at the head. *)
LEMMA HeadSound ==
  ASSUME DataInv, SoundInv, tx # <<>>
  PROVE  LET p == Head(tx)
             c == p.pcb
         IN c \notin spoilt =>
              /\ pcb[c].ready /\ pcb[c].state \notin {"OFF", "DUP"}
              /\ Probes(pcb[c]) => Of(tx, c) = {1} /\ Of(Tail(tx), c) = {} /\ Carries(p, pcb[c])
              /\ ~Probes(pcb[c]) => p.kind # "probe" /\ p.questions = {}
              /\ p.answers \subseteq services \cup {"self"}
<1>1. PICK c \in Pcbs : c = Head(tx).pcb
  BY TailList DEF DataInv
<1>2. Head(tx) = tx[1] /\ 1 \in Of(tx, c) /\ (Of(tx, c) = {1} => Of(Tail(tx), c) = {})
  BY <1>1, TailList DEF DataInv
<1>3. c \notin spoilt => Sound(tx, c, pcb[c], asked[c], dropped[c], services, host)
  BY DEF SoundInv
<1>4. ASSUME c \notin spoilt, Probes(pcb[c]) PROVE Of(tx, c) = {1} /\ Carries(tx[1], pcb[c])
  <2>1. PICK i : Of(tx, c) = {i} /\ Carries(tx[i], pcb[c])
    BY <1>3, <1>4 DEF Sound, Alone
  <2>2. i = 1
    BY <1>2, <2>1
  <2> QED
    BY <2>1, <2>2
<1> QED
  BY <1>1, <1>2, <1>3, <1>4 DEF Sound, Plain

(* What has been counted. *)
LEMMA SentAsked ==
  ASSUME NEW p, p.pcb \in Pcbs, DataInv, BaseInv, Sent(p)
  PROVE  /\ asked' \in [Pcbs -> [Services -> 0..3]]
         /\ \A c \in Pcbs \ {p.pcb} : asked'[c] = asked[c]
         /\ p.kind # "probe" => asked' = asked
         /\ p.kind = "probe" /\ pcb[p.pcb].ready =>
              \A s \in Services : asked'[p.pcb][s] =
                 IF <<s, "instance">> \in p.questions /\ asked[p.pcb][s] < 3
                 THEN asked[p.pcb][s] + 1 ELSE asked[p.pcb][s]
<1>1. CASE p.kind = "probe" /\ pcb[p.pcb].ready
  <2> DEFINE e(s) == IF <<s, "instance">> \in p.questions /\ asked[p.pcb][s] < 3
                     THEN asked[p.pcb][s] + 1 ELSE asked[p.pcb][s]
  <2>1. asked' = [asked EXCEPT ![p.pcb] = [s \in Services |-> e(s)]]
    BY <1>1 DEF Sent
  <2>2. \A s \in Services : e(s) \in 0..3
    BY DEF DataInv
  <2> HIDE DEF e
  <2>3. [s \in Services |-> e(s)] \in [Services -> 0..3]
    BY <2>2
  <2>4. asked' \in [Pcbs -> [Services -> 0..3]] /\ (\A c \in Pcbs \ {p.pcb} : asked'[c] = asked[c])
        /\ \A s \in Services : asked'[p.pcb][s] = e(s)
    BY <2>1, <2>3 DEF DataInv
  <2> QED
    BY <1>1, <2>4 DEF e
<1>2. CASE ~(p.kind = "probe" /\ pcb[p.pcb].ready)
  BY <1>2 DEF Sent, DataInv
<1> QED
  BY <1>1, <1>2

(* One packet is sent after the others: once more, or a new one. *)
LEMMA SentList ==
  ASSUME NEW q, ListOf(q), NEW J, NEW p \in PacketOf(J), NEW r \in SentAfter(q, p)
  PROVE  /\ ListOf(r)
         /\ \A c : c # p.pcb => Carried(q, r, c)
         /\ Of(q, p.pcb) = {} => \E j : Of(r, p.pcb) = {j} /\ r[j] = p
         /\ \A c : \A j \in Of(r, c) : r[j] = p \/ \E i \in Of(q, c) : r[j] = q[i]
<1>1. PICK new : new = {p}
  OBVIOUS
<1>2. new \subseteq PacketOf(J) /\ IsFiniteSet(new) /\ r \in AllSentAfter(q, new)
  BY <1>1, FS_Singleton DEF SentAfter
<1>3. ListOf(r) /\ Takes(q, new, r)
  BY <1>2, ListWoven
<1> QED
  BY <1>1, <1>3 DEF Takes

(* The head of the list goes, and nothing else. *)
LEMMA TailSound ==
  ASSUME BaseInv, DataInv, SoundInv, tx # <<>>, tx' = Tail(tx), ~Probes(pcb[Head(tx).pcb]) \/ Head(tx).pcb \in spoilt,
         Sent(Head(tx)) \/ asked' = asked,
         pcb' = pcb \/ (Moves(Head(tx).pcb) /\ pcb[Head(tx).pcb].state = "ANNOUNCE_3"),
         UNCHANGED <<host, services, dropped, spoilt>>
  PROVE  DataInv' /\ SoundInv'
<1>0. PICK c \in Pcbs : c = Head(tx).pcb
  BY TailList DEF DataInv
<1>1. PICK p : p = Head(tx) /\ c = p.pcb
  BY <1>0
<1>2. /\ ListOf(Tail(tx)) /\ (\A d : d # c => Carried(tx, Tail(tx), d))
      /\ \A j \in Of(Tail(tx), c) : \E i \in Of(tx, c) : Tail(tx)[j] = tx[i]
  <2>1. ListOf(Tail(tx)) /\ (\A d : d # c => Carried(tx, Tail(tx), d)) /\ Within(tx, Tail(tx), c)
    BY <1>1, TailList DEF DataInv
  <2> QED
    BY <2>1 DEF Within
<1>3. c \notin spoilt => /\ pcb[c].ready /\ ~Probes(pcb[c]) /\ p.kind # "probe"
                         /\ Sound(tx, c, pcb[c], asked[c], dropped[c], services, host)
  BY <1>1, HeadSound DEF SoundInv
<1>4. /\ asked' \in [Pcbs -> [Services -> 0..3]]
      /\ \A d \in Pcbs \ {c} : asked'[d] = asked[d]
      /\ p.kind # "probe" => asked' = asked
  BY <1>1, SentAsked DEF DataInv
<1>5. c \notin spoilt => Sound(tx', c, pcb[c], asked'[c], dropped'[c], services, host)
  BY <1>2, <1>3, <1>4, SoundTakes
<1>6. c \notin spoilt => Sound(tx', c, pcb'[c], asked'[c], dropped'[c], services, host)
  <2>1. CASE pcb' = pcb
    BY <1>5, <2>1
  <2>2. CASE Moves(c) /\ pcb[c].state = "ANNOUNCE_3"
    <3>1. pcb'[c] = [pcb[c] EXCEPT !.state = "RUNNING"] /\ pcb[c] \in PcbRecord
      BY <2>2 DEF Moves, After, BaseInv
    <3>2. PICK x, o : x = pcb[c] /\ o = pcb'[c]
      OBVIOUS
    <3> QED
      BY <1>3, <1>5, <3>1, <3>2, SoundMoves
  <2> QED
    BY <1>1, <2>1, <2>2
<1>7. \A d \in Pcbs \ {c} : pcb'[d] = pcb[d]
  BY <1>1 DEF Moves, BaseInv
<1>8. SoundInv'
  BY <1>2, <1>4, <1>6, <1>7, OthersSound
<1> QED
  BY <1>2, <1>4, <1>8 DEF DataInv, ListOf

(* The packet at the head is sent once more. *)
LEMMA AgainSound ==
  ASSUME BaseInv, DataInv, SoundInv, tx # <<>>, tx' \in SentAfter(Tail(tx), Popped(Head(tx))),
         Sent(Popped(Head(tx))), UNCHANGED <<host, services, dropped, spoilt>>,
         \/ Moves(Head(tx).pcb) /\ pcb[Head(tx).pcb].state \in {"PROBE_1", "PROBE_2", "ANNOUNCE_1", "ANNOUNCE_2"}
         \/ pcb' = pcb /\ pcb[Head(tx).pcb].state = "PROBE_3"
  PROVE  DataInv' /\ SoundInv'
<1>0. PICK c \in Pcbs : c = Head(tx).pcb
  BY TailList DEF DataInv
<1>1. PICK h, p : h = Head(tx) /\ p = Popped(h) /\ c = h.pcb
  BY <1>0
<1>2. PICK I : h \in PacketOf(I)
  BY <1>1, TailList DEF DataInv
<1>3. p \in PacketOf(I) /\ p.pcb = c /\ p.kind = h.kind /\ p.questions = h.questions
      /\ p.answers = h.answers /\ p.host = h.host
  BY <1>1, <1>2 DEF Popped, PacketOf
<1>4. /\ ListOf(Tail(tx)) /\ (\A d : d # c => Carried(tx, Tail(tx), d))
      /\ \A j \in Of(Tail(tx), c) : \E i \in Of(tx, c) : Tail(tx)[j] = tx[i]
  <2>1. ListOf(Tail(tx)) /\ (\A d : d # c => Carried(tx, Tail(tx), d)) /\ Within(tx, Tail(tx), c)
    BY <1>1, TailList DEF DataInv
  <2> QED
    BY <2>1 DEF Within
<1>5. /\ ListOf(tx)'
      /\ \A d : d # c => Carried(Tail(tx), tx', d)
      /\ Of(Tail(tx), c) = {} => \E j : Of(tx', c) = {j} /\ tx'[j] = p
      /\ \A j \in Of(tx', c) : tx'[j] = p \/ \E i \in Of(Tail(tx), c) : tx'[j] = Tail(tx)[i]
  <2>1. PICK q, t : q = Tail(tx) /\ t = tx'
    OBVIOUS
  <2>2. ListOf(q) /\ t \in SentAfter(q, p)
    BY <1>1, <1>4, <2>1
  <2>3. /\ ListOf(t)
        /\ \A d : d # c => Carried(q, t, d)
        /\ Of(q, c) = {} => \E j : Of(t, c) = {j} /\ t[j] = p
        /\ \A d : \A j \in Of(t, d) : t[j] = p \/ \E i \in Of(q, d) : t[j] = q[i]
    BY <1>3, <2>2, SentList
  <2> QED
    BY <2>1, <2>3 DEF ListOf
<1>6. \A d \in Pcbs \ {c} : Carried(tx, tx', d)
  BY <1>4, <1>5, CarriedOn
<1>7. /\ asked' \in [Pcbs -> [Services -> 0..3]]
      /\ \A d \in Pcbs \ {c} : asked'[d] = asked[d]
      /\ p.kind # "probe" => asked' = asked
      /\ p.kind = "probe" /\ pcb[c].ready =>
              \A s \in Services : asked'[c][s] =
                 IF <<s, "instance">> \in p.questions /\ asked[c][s] < 3
                 THEN asked[c][s] + 1 ELSE asked[c][s]
  BY <1>1, <1>3, SentAsked
<1>8. \A d \in Pcbs \ {c} : pcb'[d] = pcb[d]
  BY <1>1 DEF Moves, BaseInv
<1>9. pcb[c] \in PcbRecord /\ pcb'[c] = [pcb[c] EXCEPT !.state = pcb'[c].state]
      /\ pcb'[c].state = IF pcb[c].state = "PROBE_3" THEN "PROBE_3" ELSE After[pcb[c].state]
  BY <1>1 DEF Moves, BaseInv, PcbRecord, After
<1>10. ASSUME c \notin spoilt PROVE Sound(tx', c, pcb'[c], asked'[c], dropped'[c], services, host)
  <2>1. /\ pcb[c].ready /\ h.answers \subseteq services \cup {"self"}
        /\ Probes(pcb[c]) => Of(tx, c) = {1} /\ Of(Tail(tx), c) = {} /\ Carries(h, pcb[c])
        /\ ~Probes(pcb[c]) => h.kind # "probe" /\ h.questions = {}
        /\ Sound(tx, c, pcb[c], asked[c], dropped[c], services, host)
    BY <1>1, <1>10, HeadSound DEF SoundInv
  <2>2. CASE ~Probes(pcb[c])
    <3>1. pcb[c].state \in {"ANNOUNCE_1", "ANNOUNCE_2"} /\ asked' = asked
      BY <1>1, <1>3, <1>7, <2>1, <2>2 DEF Probes
    <3>2. \A j \in Of(tx', c) : tx'[j] = p \/ \E i \in Of(tx, c) : tx'[j] = tx[i]
      BY <1>4, <1>5
    <3>3. Sound(tx', c, pcb[c], asked'[c], dropped'[c], services, host)
      BY <1>3, <2>1, <2>2, <3>1, <3>2, SoundTakes
    <3>4. pcb'[c].state \in {"ANNOUNCE_2", "ANNOUNCE_3"}
      BY <1>9, <3>1 DEF After
    <3>5. PICK x, o, st : x = pcb[c] /\ o = pcb'[c] /\ st = pcb'[c].state
      OBVIOUS
    <3> QED
      BY <1>9, <2>1, <2>2, <3>3, <3>4, <3>5, SoundMoves
  <2>3. CASE Probes(pcb[c])
    <3>1. /\ pcb'[c].services = pcb[c].services /\ pcb'[c].ready = pcb[c].ready
          /\ pcb'[c].running = pcb[c].running /\ pcb'[c].ip = pcb[c].ip
          /\ Probes(pcb'[c])
          /\ AtLeast[pcb'[c].state] \in 0..2
          /\ AtLeast[pcb'[c].state] <= AtLeast[pcb[c].state] + 1
          /\ AtLeast[pcb[c].state] \in 0..2
      BY <1>1, <1>9, <2>3 DEF Probes, After, AtLeast, PcbRecord
    <3>2. Carries(p, pcb'[c])
      BY <1>3, <2>1, <2>3, <3>1 DEF Carries
    <3>3. Alone(tx', c, pcb'[c])
      BY <1>5, <2>1, <2>3, <3>2 DEF Alone
    <3>4. \A i \in Of(tx', c) : tx'[i].answers \subseteq services \cup {"self"}
      BY <1>3, <1>5, <2>1, <2>3
    <3>5. Known(pcb'[c], asked'[c], dropped'[c], services)
      <4>1. \A s \in Services : asked'[c][s] =
                 IF s \in pcb[c].services /\ asked[c][s] < 3
                 THEN asked[c][s] + 1 ELSE asked[c][s]
        BY <1>3, <1>7, <2>1, <2>3 DEF Carries, Strings
      <4>2. Known(pcb[c], asked[c], dropped[c], services) /\ services \subseteq Services
            /\ asked[c] \in [Services -> 0..3]
        BY <2>1 DEF Sound, BaseInv, DataInv
      <4>3. pcb[c].state \notin {"OFF", "DUP"} /\ pcb'[c].state \notin {"OFF", "DUP"}
        BY <2>3, <3>1 DEF Probes
      <4>4. ASSUME NEW s \in services
            PROVE IF s \in pcb'[c].services THEN asked'[c][s] >= AtLeast[pcb'[c].state]
                  ELSE asked'[c][s] = 3 \/ s \in dropped'[c]
        <5>1. PICK m, n, a, b : m = AtLeast[pcb[c].state] /\ n = AtLeast[pcb'[c].state] /\ a = asked[c][s] /\ b = asked'[c][s]
          OBVIOUS
        <5>2. a \in 0..3 /\ m \in 0..2 /\ n \in 0..2 /\ n <= m + 1
          BY <3>1, <4>2, <5>1
        <5>3. CASE s \in pcb[c].services
          BY <3>1, <4>1, <4>2, <5>1, <5>2, <5>3 DEF Known
        <5>4. CASE s \notin pcb[c].services
          BY <3>1, <4>1, <4>2, <4>3, <5>4 DEF Known
        <5> QED
          BY <5>3, <5>4
      <4> QED
        BY <4>4 DEF Known
    <3> QED
      BY <2>1, <2>3, <3>1, <3>3, <3>4, <3>5 DEF Sound, Probes
  <2> QED
    BY <2>2, <2>3
<1>11. SoundInv'
  BY <1>6, <1>7, <1>8, <1>10, OthersSound
<1> QED
  BY <1>5, <1>7, <1>11 DEF DataInv

(* The announcement that comes after the third probe. *)
LEMMA FirstAnnouncementSound ==
  ASSUME BaseInv, DataInv, SoundInv, tx # <<>>, send_packet_announces, UNCHANGED services
  PROVE  DataInv' /\ SoundInv'
<1>0. PICK c \in Pcbs : c = Head(tx).pcb
  BY TailList DEF DataInv
<1>1. PICK h : h = Head(tx) /\ c = h.pcb
  BY <1>0
<1>2. PICK I : h \in PacketOf(I)
  BY <1>1, TailList DEF DataInv
<1>3. PICK i, S, p :
        /\ S = h.answers \cup Self(h.host \/ h.answers # {})
        /\ p = Allocated(i, c, "announce", {}, S, FALSE)
        /\ tx' \in SentAfter(Tail(tx), p)
        /\ pcb[c].state = "PROBE_3" /\ Sent(h)
        /\ pcb' = [pcb EXCEPT ![c].state = After[@], ![c].running = FALSE, ![c].ip = FALSE,
                              ![c].services = {}]
        /\ UNCHANGED <<host, dropped, spoilt>>
  BY <1>1 DEF send_packet_announces
<1>4. p \in PacketOf({i}) /\ p.pcb = c /\ p.kind = "announce" /\ p.questions = {} /\ p.answers = S
  BY <1>2, <1>3 DEF Allocated, PacketOf, Self, Kinds
<1>5. /\ ListOf(Tail(tx)) /\ (\A d : d # c => Carried(tx, Tail(tx), d))
  BY <1>1, TailList DEF DataInv
<1>6. /\ ListOf(tx)'
      /\ \A d : d # c => Carried(Tail(tx), tx', d)
      /\ \A j \in Of(tx', c) : tx'[j] = p \/ \E k \in Of(Tail(tx), c) : tx'[j] = Tail(tx)[k]
  <2>1. PICK q, t : q = Tail(tx) /\ t = tx'
    OBVIOUS
  <2>2. ListOf(q) /\ t \in SentAfter(q, p)
    BY <1>3, <1>5, <2>1
  <2>3. /\ ListOf(t)
        /\ \A d : d # c => Carried(q, t, d)
        /\ \A j \in Of(t, c) : t[j] = p \/ \E k \in Of(q, c) : t[j] = q[k]
    BY <1>4, <2>2, SentList
  <2> QED
    BY <2>1, <2>3 DEF ListOf
<1>7. \A d \in Pcbs \ {c} : Carried(tx, tx', d)
  BY <1>5, <1>6, CarriedOn
<1>8. /\ asked' \in [Pcbs -> [Services -> 0..3]]
      /\ \A d \in Pcbs \ {c} : asked'[d] = asked[d]
      /\ h.kind = "probe" /\ pcb[c].ready =>
              \A s \in Services : asked'[c][s] =
                 IF <<s, "instance">> \in h.questions /\ asked[c][s] < 3
                 THEN asked[c][s] + 1 ELSE asked[c][s]
  BY <1>1, <1>3, SentAsked
<1>9. \A d \in Pcbs \ {c} : pcb'[d] = pcb[d]
  BY <1>3 DEF BaseInv
<1>10. pcb'[c].state = "ANNOUNCE_1" /\ pcb'[c].ready = pcb[c].ready /\ pcb'[c].running = FALSE /\ pcb'[c].services = {}
  BY <1>3 DEF BaseInv, PcbRecord, After
<1>11. ASSUME c \notin spoilt PROVE Sound(tx', c, pcb'[c], asked'[c], dropped'[c], services, host)
  <2>1. /\ pcb[c].ready /\ h.answers \subseteq services \cup {"self"} /\ Probes(pcb[c])
        /\ Of(Tail(tx), c) = {} /\ Carries(h, pcb[c])
        /\ Sound(tx, c, pcb[c], asked[c], dropped[c], services, host)
    BY <1>1, <1>3, <1>11, HeadSound DEF SoundInv, Probes
  <2>2. \A j \in Of(tx', c) : tx'[j] = p
    BY <1>6, <2>1
  <2>3. Plain(tx', c) /\ \A j \in Of(tx', c) : tx'[j].answers \subseteq services \cup {"self"}
    BY <1>3, <1>4, <2>1, <2>2 DEF Plain, Self
  <2>4. \A s \in services : asked'[c][s] = 3 \/ s \in dropped'[c]
    <3> TAKE s \in services
    <3>1. s \in Services /\ asked[c][s] \in 0..3
      BY DEF BaseInv, DataInv
    <3>2. asked'[c][s] = IF s \in pcb[c].services /\ asked[c][s] < 3
                         THEN asked[c][s] + 1 ELSE asked[c][s]
      BY <1>8, <2>1, <3>1 DEF Carries, Strings
    <3>3. IF s \in pcb[c].services THEN asked[c][s] >= 2 ELSE asked[c][s] = 3 \/ s \in dropped[c]
      BY <1>3, <2>1 DEF Sound, Known, AtLeast
    <3>4. PICK a, b : a = asked[c][s] /\ b = asked'[c][s]
      OBVIOUS
    <3> QED
      BY <1>3, <3>1, <3>2, <3>3, <3>4
  <2>5. Known(pcb'[c], asked'[c], dropped'[c], services)
    BY <1>10, <2>4 DEF Known
  <2> QED
    BY <1>10, <2>1, <2>3, <2>5 DEF Sound, Probes
<1>12. SoundInv'
  BY <1>3, <1>7, <1>8, <1>9, <1>11, OthersSound
<1> QED
  BY <1>3, <1>6, <1>8, <1>12 DEF DataInv

LEMMA SendsSound ==
  ASSUME BaseInv, DataInv, SoundInv, Sends, UNCHANGED services
  PROVE  DataInv' /\ SoundInv'
<1>1. CASE send_packet_skips /\ UNCHANGED <<host, pcbVars>>
  BY <1>1 DEF send_packet_skips, pcbVars, DataInv, SoundInv, ListOf
<1>2. CASE send_packet_off
  <2>1. tx # <<>> /\ pcb[Head(tx).pcb].state = "OFF" /\ tx' = Tail(tx) /\ UNCHANGED <<host, pcb, asked, dropped, spoilt>>
    BY <1>2 DEF send_packet_off, HeadMatches, pcbVars
  <2> QED
    BY <2>1, TailSound DEF Probes
<1>3. CASE send_packet_again
  <2>1. tx # <<>>
    BY <1>3 DEF send_packet_again, HeadMatches
  <2>2. Popped(Head(tx)).pcb = Head(tx).pcb
    BY <2>1, TailList DEF Popped, PacketOf, DataInv
  <2> QED
    BY <1>3, <2>1, <2>2, AgainSound DEF send_packet_again
<1>4. CASE send_packet_announces
  <2>1. tx # <<>>
    BY <1>4 DEF send_packet_announces, HeadMatches
  <2> QED
    BY <1>4, <2>1, FirstAnnouncementSound
<1>5. CASE send_packet_probes_on
  <2>1. tx # <<>>
    BY <1>5 DEF send_packet_probes_on, HeadMatches
  <2>2. Popped(Head(tx)).pcb = Head(tx).pcb
    BY <2>1, TailList DEF Popped, PacketOf, DataInv
  <2> QED
    BY <1>5, <2>1, <2>2, AgainSound DEF send_packet_probes_on
<1>6. CASE send_packet_last
  <2>1. /\ tx # <<>> /\ tx' = Tail(tx) /\ Sent(Head(tx)) /\ UNCHANGED <<host, dropped, spoilt>>
        /\ ~Probes(pcb[Head(tx).pcb])
        /\ pcb' = pcb \/ (Moves(Head(tx).pcb) /\ pcb[Head(tx).pcb].state = "ANNOUNCE_3")
    BY <1>6 DEF send_packet_last, HeadMatches, Probes
  <2> QED
    BY <2>1, TailSound
<1> QED
  BY <1>1, <1>2, <1>3, <1>4, <1>5, <1>6 DEF Sends

-----------------------------------------------------------------------------
(* Strings that are freed, answers that are suppressed, and the timer.      *)

(* Freed strings and suppressed answers leave every packet where it is.     *)
LEMMA FreedList ==
  ASSUME NEW q, ListOf(q), NEW gone, NEW dead
  PROVE  ListOf(AfterFree(q, gone, dead)) /\ \A c : Of(AfterFree(q, gone, dead), c) = Of(q, c)
<1>1. PICK I : q \in Seq(PacketOf(I))
  BY DEF ListOf
<1> DEFINE e(i) == [q[i] EXCEPT
                      !.questions = (@ \ gone) \cup {<<"freed", x[2]>> : x \in @ \cap gone},
                      !.answers = (@ \ dead) \cup {"freed" : s \in @ \cap dead}]
<1>2. AfterFree(q, gone, dead) = [i \in 1..Len(q) |-> e(i)]
  BY DEF AfterFree
<1>3. ASSUME NEW i \in 1..Len(q) PROVE e(i) \in PacketOf(I) /\ e(i).pcb = q[i].pcb
  <2>1. q[i] \in PacketOf(I)
    BY <1>1
  <2>2. PICK asks, says : /\ asks = (q[i].questions \ gone) \cup {<<"freed", x[2]>> : x \in q[i].questions \cap gone}
                          /\ says = (q[i].answers \ dead) \cup {"freed" : s \in q[i].answers \cap dead}
    OBVIOUS
  <2>3. asks \in SUBSET Questions
    BY <2>1, <2>2 DEF PacketOf, Questions
  <2>4. says \in SUBSET (Services \cup {"self", "freed"})
    BY <2>1, <2>2 DEF PacketOf
  <2>5. e(i) = [q[i] EXCEPT !.questions = asks, !.answers = says]
    BY <2>2
  <2> HIDE DEF e
  <2> QED
    BY <2>1, <2>3, <2>4, <2>5 DEF PacketOf
<1> HIDE DEF e
<1>4. PICK t, n : t = AfterFree(q, gone, dead) /\ n = Len(q)
  OBVIOUS
<1>5. n \in Nat /\ t = [i \in 1..n |-> e(i)]
  BY <1>1, <1>2, <1>4
<1>6. t \in Seq(PacketOf(I)) /\ Len(t) = n /\ \A i \in 1..n : t[i] = e(i)
  BY <1>3, <1>4, <1>5
<1>7. \A c : Of(t, c) = Of(q, c)
  BY <1>3, <1>4, <1>6 DEF Of
<1> QED
  BY <1>4, <1>6, <1>7 DEF ListOf

LEMMA SuppressedList ==
  ASSUME NEW q, ListOf(q), NEW c, NEW s
  PROVE  ListOf(Suppressed(q, c, s)) /\ \A d, S : Alike(q, Suppressed(q, c, s), d, S)
<1>1. PICK I : q \in Seq(PacketOf(I))
  BY DEF ListOf
<1> DEFINE e(i) == IF q[i].pcb = c /\ q[i].kind = "answer" THEN [q[i] EXCEPT !.answers = @ \ {s}] ELSE q[i]
<1>2. PICK t, n : t = Suppressed(q, c, s) /\ n = Len(q)
  OBVIOUS
<1>3. ASSUME NEW i \in 1..n
      PROVE  /\ e(i) \in PacketOf(I) /\ e(i).pcb = q[i].pcb /\ e(i).kind = q[i].kind
             /\ e(i).questions = q[i].questions /\ e(i).host = q[i].host
             /\ e(i).answers \subseteq q[i].answers
             /\ q[i].kind = "probe" => e(i).answers = q[i].answers
  <2>1. q[i] \in PacketOf(I)
    BY <1>1, <1>2
  <2> QED
    BY <2>1 DEF PacketOf
<1>4. t = [i \in 1..n |-> e(i)] /\ n \in Nat
  BY <1>1, <1>2 DEF Suppressed
<1> HIDE DEF e
<1>5. t \in Seq(PacketOf(I)) /\ Len(t) = n /\ \A i \in 1..n : t[i] = e(i)
  BY <1>3, <1>4
<1>6. ASSUME NEW d, NEW S PROVE Alike(q, t, d, S)
  <2>1. Of(t, d) = Of(q, d) /\ \A i \in Of(q, d) : i \in 1..n
    BY <1>2, <1>3, <1>5 DEF Of
  <2> QED
    BY <1>3, <1>5, <2>1 DEF Alike
<1> QED
  BY <1>2, <1>5, <1>6 DEF ListOf

LEMMA FunctionSeq ==
  ASSUME NEW S, NEW n \in Nat, NEW f \in [1..n -> S]
  PROVE  f \in Seq(S) /\ Len(f) = n
OBVIOUS

(* What the timer notes: the packet i is due, and may have been posted. *)
Noted(q, t, i) ==
  /\ Len(t) = Len(q)
  /\ \A k \in 1..Len(q) :
       /\ t[k].id = q[k].id
       /\ t[k].due <=> (k = i \/ q[k].due)
       /\ t[k].queued => (k = i \/ q[k].queued)

LEMMA PostedList ==
  ASSUME NEW q, ListOf(q), NEW i, NEW b, NEW g, b \in BOOLEAN, g \in BOOLEAN,
         NEW t, t = [q EXCEPT ![i].queued = b, ![i].due = g]
  PROVE  /\ ListOf(t) /\ \A d, S : Alike(q, t, d, S)
         /\ g => Noted(q, t, i)
<1>1. PICK I : q \in Seq(PacketOf(I))
  BY DEF ListOf
<1>2. PICK n : n = Len(q) /\ n \in Nat
  BY <1>1
<1>3. DOMAIN t = 1..n /\ \A k \in 1..n : t[k] = IF k = i THEN [q[k] EXCEPT !.queued = b, !.due = g] ELSE q[k]
  <2>1. PICK u : u = [q EXCEPT ![i].queued = b]
    OBVIOUS
  <2>2. q \in [1..n -> PacketOf(I)]
    BY <1>1, <1>2
  <2>3. DOMAIN u = 1..n /\ \A k \in 1..n : u[k] = IF k = i THEN [q[k] EXCEPT !.queued = b] ELSE q[k]
    BY <2>1, <2>2
  <2>4. t = [u EXCEPT ![i].due = g]
    BY <2>1
  <2>5. DOMAIN t = 1..n /\ \A k \in 1..n : t[k] = IF k = i THEN [u[k] EXCEPT !.due = g] ELSE u[k]
    BY <2>3, <2>4
  <2> QED
    BY <2>3, <2>5
<1>4. ASSUME NEW k \in 1..n
      PROVE  /\ t[k] \in PacketOf(I) /\ t[k].pcb = q[k].pcb /\ t[k].kind = q[k].kind
             /\ t[k].questions = q[k].questions /\ t[k].host = q[k].host /\ t[k].answers = q[k].answers
  <2>1. q[k] \in PacketOf(I)
    BY <1>1, <1>2
  <2> QED
    BY <1>3, <2>1 DEF PacketOf
<1>5. t = [k \in 1..n |-> t[k]]
  <2>1. t = [q EXCEPT ![i].queued = b, ![i].due = g]
    OBVIOUS
  <2> QED
    BY <1>3, <2>1
<1>6. t \in Seq(PacketOf(I)) /\ Len(t) = n
  <2>1. t \in [1..n -> PacketOf(I)]
    BY <1>4, <1>5
  <2>2. PICK x, T : x = t /\ T = PacketOf(I)
    OBVIOUS
  <2>3. n \in Nat /\ x \in [1..n -> T]
    BY <1>2, <2>1, <2>2
  <2>4. x \in Seq(T) /\ Len(x) = n
    BY <2>3, FunctionSeq
  <2> QED
    BY <2>2, <2>4
<1>7. ASSUME NEW d, NEW S PROVE Alike(q, t, d, S)
  <2>1. Of(t, d) = Of(q, d) /\ \A k \in Of(q, d) : k \in 1..n
    BY <1>2, <1>4, <1>6 DEF Of
  <2> QED
    BY <1>4, <2>1 DEF Alike
<1>8. ASSUME g PROVE Noted(q, t, i)
  <2>1. ASSUME NEW k \in 1..n
        PROVE  /\ t[k].id = q[k].id
               /\ t[k].due <=> (k = i \/ q[k].due)
               /\ t[k].queued => (k = i \/ q[k].queued)
    <3>1. q[k] \in PacketOf(I)
      BY <1>1, <1>2
    <3> QED
      BY <1>3, <1>8, <3>1 DEF PacketOf
  <2> QED
    BY <1>2, <1>6, <2>1 DEF Noted
<1> QED
  BY <1>6, <1>7, <1>8 DEF ListOf

(* A step that leaves the PCBs alone, and of the packets what matters.      *)
LEMMA AlikeSound ==
  ASSUME DataInv, SoundInv, UNCHANGED <<pcb, asked, dropped, spoilt, services, host>>,
         ListOf(tx'), \A c : Alike(tx, tx', c, services)
  PROVE  DataInv' /\ SoundInv'
<1>1. ASSUME NEW c \in Pcbs, c \notin spoilt
      PROVE  Sound(tx', c, pcb[c], asked[c], dropped[c], services, host)
  <2>1. Sound(tx, c, pcb[c], asked[c], dropped[c], services, host) /\ Alike(tx, tx', c, services)
    BY <1>1 DEF SoundInv
  <2> QED
    BY <2>1, SoundAlike
<1> QED
  BY <1>1 DEF DataInv, SoundInv, ListOf

LEMMA TimerSound ==
  ASSUME DataInv, SoundInv, Timer
  PROVE  DataInv' /\ SoundInv'
<1>1. UNCHANGED <<pcb, asked, dropped, spoilt, services, host>>
  BY DEF Timer, TimerFails, pcbVars, serverVars
<1>2. ASSUME NEW i, Posts(i) PROVE DataInv' /\ SoundInv'
  <2>1. tx' = [tx EXCEPT ![i].queued = Room, ![i].due = TRUE] /\ Room \in BOOLEAN
    BY <1>2 DEF Posts, Room
  <2>2. PICK t, q : t = tx' /\ q = tx
    OBVIOUS
  <2>3. ListOf(q) /\ t = [q EXCEPT ![i].queued = Room, ![i].due = TRUE]
    BY <2>1, <2>2 DEF DataInv
  <2>4. ListOf(t) /\ \A d, S : Alike(q, t, d, S)
    BY <2>1, <2>3, PostedList
  <2> QED
    BY <1>1, <2>2, <2>4, AlikeSound
<1>3. CASE UNCHANGED tx
  BY <1>1, <1>3 DEF DataInv, SoundInv, ListOf
<1> QED
  BY <1>2, <1>3 DEF Timer, TimerStarts, TimerPosts, TimerEnds, TimerFails

LEMMA SuppressedSound ==
  ASSUME NEW x, DataInv, SoundInv, AnswerSuppressed(x)
  PROVE  DataInv' /\ SoundInv'
<1>1. UNCHANGED <<pcb, asked, dropped, spoilt, services, host>> /\ tx' = Suppressed(tx, current.pcb, x)
  BY DEF AnswerSuppressed, pcbVars, serverVars
<1>2. PICK c, q, t : c = current.pcb /\ q = tx /\ t = tx'
  OBVIOUS
<1>3. ListOf(t) /\ \A d, S : Alike(q, t, d, S)
  BY <1>1, <1>2, SuppressedList DEF DataInv
<1> QED
  BY <1>1, <1>2, <1>3, AlikeSound

(* An answer that is scheduled. *)
LEMMA AnsweredSound ==
  ASSUME NEW x, x \in services \cup {"self"}, BaseInv, DataInv, SoundInv, current.pcb \in Pcbs, QuestionAnswered(x)
  PROVE  DataInv' /\ SoundInv'
<1>1. PICK c \in Pcbs : c = current.pcb
  OBVIOUS
<1>2. PICK i, p : /\ p = Allocated(i, c, "answer", {}, {x}, FALSE) /\ tx' \in SentAfter(tx, p)
                  /\ Announcing(c) \/ pcb[c].state = "RUNNING"
                  /\ UNCHANGED <<pcb, asked, dropped, spoilt, services, host>>
  BY <1>1 DEF QuestionAnswered, pcbVars, serverVars
<1>3. p \in PacketOf({i}) /\ p.pcb = c /\ p.kind = "answer" /\ p.questions = {} /\ p.answers = {x}
  BY <1>2 DEF Allocated, PacketOf, Kinds, BaseInv
<1>4. /\ ListOf(tx)'
      /\ \A d : d # c => Carried(tx, tx', d)
      /\ \A j \in Of(tx', c) : tx'[j] = p \/ \E k \in Of(tx, c) : tx'[j] = tx[k]
  <2>1. PICK q, t : q = tx /\ t = tx'
    OBVIOUS
  <2>2. ListOf(q) /\ t \in SentAfter(q, p)
    BY <1>2, <2>1 DEF DataInv
  <2>3. /\ ListOf(t)
        /\ \A d : d # c => Carried(q, t, d)
        /\ \A j \in Of(t, c) : t[j] = p \/ \E k \in Of(q, c) : t[j] = q[k]
    BY <1>3, <2>2, SentList
  <2> QED
    BY <2>1, <2>3 DEF ListOf
<1>5. c \notin spoilt => Sound(tx', c, pcb'[c], asked'[c], dropped'[c], services, host)
  <2>1. c \notin spoilt => Sound(tx, c, pcb[c], asked[c], dropped[c], services, host) /\ ~Probes(pcb[c]) /\ pcb[c].ready
    BY <1>2 DEF SoundInv, Sound, Announcing, Probes
  <2>2. \A j \in Of(tx', c) :
          \/ tx'[j].kind # "probe" /\ tx'[j].questions = {} /\ tx'[j].answers \subseteq services \cup {"self"}
          \/ \E k \in Of(tx, c) : tx'[j] = tx[k]
    BY <1>3, <1>4
  <2>3. c \notin spoilt => Sound(tx', c, pcb[c], asked[c], dropped[c], services, host)
    BY <2>1, <2>2, SoundTakes
  <2> QED
    BY <1>2, <2>3
<1>6. SoundInv'
  BY <1>2, <1>4, <1>5, OthersSound
<1> QED
  BY <1>2, <1>4, <1>6 DEF DataInv

-----------------------------------------------------------------------------
(* New names, and conflicts.                                                *)

(* Names that change start again with no question asked. *)
LEMMA RenamedAsked ==
  ASSUME DataInv, NEW S, Renamed(S)
  PROVE  /\ asked' \in [Pcbs -> [Services -> 0..3]]
         /\ \A c \in Pcbs, s \in Services \ S : asked'[c][s] = asked[c][s]
<1> DEFINE e(c) == [s \in Services |-> IF s \in S THEN 0 ELSE asked[c][s]]
<1>1. asked' = [c \in Pcbs |-> e(c)]
  BY DEF Renamed
<1>2. ASSUME NEW c \in Pcbs
      PROVE  e(c) \in [Services -> 0..3] /\ \A s \in Services \ S : e(c)[s] = asked[c][s]
  BY DEF DataInv
<1> HIDE DEF e
<1> QED
  BY <1>1, <1>2

(* PCBs that are not ready, and have not lost a packet, have none.          *)
LEMMA RestEmpty ==
  ASSUME SoundInv
  PROVE  Ready \in SUBSET Pcbs /\ \A c \in Pcbs \ (Ready \cup spoilt) : Of(tx, c) = {} /\ ~pcb[c].ready
BY DEF SoundInv, Sound, Ready

LEMMA NewHostNameSound ==
  ASSUME BaseInv, DataInv, SoundInv, NewHostName
  PROVE  DataInv' /\ SoundInv'
<1>1. PICK q, clear, ip, C : q = <<>> /\ clear = TRUE /\ ip = TRUE /\ C = Ready
  OBVIOUS
<1>2. ListOf(q) /\ \A c : Of(q, c) = {}
  BY <1>1 DEF ListOf, Of
<1>3. PICK R : R = IF instance THEN {} ELSE Defaults
  OBVIOUS
<1>4. Renamed(R) /\ R \subseteq services /\ host' = TRUE /\ services' = services /\ services \subseteq Services
  BY <1>3 DEF NewHostName, Defaults, serverVars, BaseInv
<1>5. asked' \in [Pcbs -> [Services -> 0..3]] /\ \A c \in Pcbs, s \in Services \ services : asked'[c][s] = asked[c][s]
  BY <1>4, RenamedAsked
<1>6. MayReprobe(C, services, ip, q)
  BY <1>1, <1>2, <1>4, <1>5, RestEmpty DEF MayReprobe
<1>7. ProbesBegin(C, services, ip, clear, q, pcb, {}) /\ C \in SUBSET Pcbs
  BY <1>1, RestEmpty DEF NewHostName
<1> QED
  BY <1>1, <1>2, <1>4, <1>6, <1>7, ReprobesSound

(* The strings of some questions are freed, and all the PCBs that are ready *)
(* begin to probe for S.                                                    *)
LEMMA FreedProbesSound ==
  ASSUME NEW S \in SUBSET Services, S # {}, NEW clear, NEW gone, BaseInv, DataInv, SoundInv,
         ProbesBegin(Ready, S, FALSE, clear, AfterFree(tx, gone, {}), pcb, {}),
         S \subseteq services, Renamed(S), UNCHANGED <<services, host>>
  PROVE  DataInv' /\ SoundInv'
<1>1. PICK q, ip, C : q = AfterFree(tx, gone, {}) /\ ip = FALSE /\ C = Ready
  OBVIOUS
<1>2. ListOf(q) /\ \A c : Of(q, c) = Of(tx, c)
  BY <1>1, FreedList DEF DataInv
<1>3. asked' \in [Pcbs -> [Services -> 0..3]] /\ \A c \in Pcbs, s \in Services \ S : asked'[c][s] = asked[c][s]
  BY RenamedAsked
<1>4. MayReprobe(C, S, ip, q)
  <2>1. services # {} => host
    BY DEF SoundInv
  <2>2. host' \in BOOLEAN
    BY DEF DataInv
  <2> QED
    BY <1>1, <1>2, <1>3, <2>1, <2>2, RestEmpty DEF MayReprobe
<1>5. ProbesBegin(C, S, ip, clear, q, pcb, {}) /\ C \in SUBSET Pcbs /\ ip \in BOOLEAN
  BY <1>1, RestEmpty
<1> QED
  BY <1>2, <1>4, <1>5, ReprobesSound

LEMMA NewInstanceNameSound ==
  ASSUME BaseInv, DataInv, SoundInv, NewInstanceName
  PROVE  DataInv' /\ SoundInv'
<1>1. Defaults \in SUBSET Services /\ Defaults \subseteq services
  BY DEF Defaults, BaseInv
<1>2. CASE Defaults = {}
  <2>1. UNCHANGED <<host, services, tx, pcb, dropped, spoilt>> /\ Renamed({})
    BY <1>2 DEF NewInstanceName
  <2>2. asked' \in [Pcbs -> [Services -> 0..3]] /\ \A c \in Pcbs, s \in Services : asked'[c][s] = asked[c][s]
    BY <2>1, RenamedAsked
  <2>3. asked' = asked
    BY <2>2 DEF DataInv
  <2> QED
    BY <2>1, <2>3 DEF DataInv, SoundInv, ListOf
<1>3. CASE Defaults # {}
  <2>1. PICK gone : ProbesBegin(Ready, Defaults, FALSE, TRUE, AfterFree(tx, gone, {}), pcb, {})
    BY <1>3 DEF NewInstanceName
  <2>2. Renamed(Defaults) /\ UNCHANGED <<services, host>>
    BY DEF NewInstanceName
  <2> QED
    BY <1>1, <1>3, <2>1, <2>2, FreedProbesSound
<1> QED
  BY <1>2, <1>3

(* One PCB begins to probe again. *)
LEMMA OneProbesSound ==
  ASSUME NEW c \in Pcbs, NEW S \in SUBSET Services, NEW ip, ip \in BOOLEAN, NEW clear,
         BaseInv, DataInv, SoundInv, ProbesBegin({c}, S, ip, clear, tx, pcb, {}),
         S # {} \/ ip, S \subseteq services, host, UNCHANGED <<services, host, asked>>
  PROVE  DataInv' /\ SoundInv'
<1>1. PICK q, C : q = tx /\ C = {c}
  OBVIOUS
<1>2. MayReprobe(C, S, ip, q)
  <2>1. \A d : Carried(tx, q, d)
    BY <1>1, CarriedAlong
  <2> QED
    BY <2>1 DEF MayReprobe, DataInv
<1>3. ProbesBegin(C, S, ip, clear, q, pcb, {}) /\ C \in SUBSET Pcbs /\ ListOf(q)
  BY <1>1 DEF DataInv
<1> QED
  BY <1>2, <1>3, ReprobesSound

LEMMA ParsedSound ==
  ASSUME BaseInv, DataInv, SoundInv, current.type = "RX" => current.pcb \in Pcbs, Parsed, ~DuplicateFound
  PROVE  DataInv' /\ SoundInv'
<1>1. Parses => current.pcb \in Pcbs
  BY DEF Parses, Executes
<1>2. services # {} => host
  BY DEF SoundInv
<1>3. services \subseteq Services
  BY DEF BaseInv
<1>4. CASE PacketIgnored
  BY <1>4 DEF PacketIgnored, pcbVars, serverVars, DataInv, SoundInv, ListOf
<1>5. CASE \E x \in services \cup {"self"} : QuestionAnswered(x) \/ AnswerSuppressed(x)
  <2>1. ASSUME NEW x \in services \cup {"self"}, QuestionAnswered(x) PROVE DataInv' /\ SoundInv'
    BY <1>1, <2>1, AnsweredSound DEF QuestionAnswered
  <2>2. ASSUME NEW x \in services \cup {"self"}, AnswerSuppressed(x) PROVE DataInv' /\ SoundInv'
    BY <2>2, SuppressedSound
  <2> QED
    BY <1>5, <2>1, <2>2
<1>6. CASE ConflictOfAddress
  <2>1. CASE NewHostName
    BY <2>1, NewHostNameSound
  <2>2. CASE ~NewHostName
    <3>1. /\ host /\ UNCHANGED <<host, asked, services>> /\ current.pcb \in Pcbs
          /\ ProbesBegin({current.pcb}, {}, TRUE, FALSE, tx, pcb, {})
      BY <1>1, <1>6, <2>2 DEF ConflictOfAddress, serverVars
    <3>2. PICK c \in Pcbs : c = current.pcb
      BY <3>1
    <3>2a. PICK ip, clear, S : ip = TRUE /\ clear = FALSE /\ S = {}
      OBVIOUS
    <3>3. ProbesBegin({c}, S, ip, clear, tx, pcb, {}) /\ ip /\ S \in SUBSET Services /\ S \subseteq services
      BY <3>1, <3>2, <3>2a
    <3> QED
      BY <3>1, <3>3, OneProbesSound
  <2> QED
    BY <2>1, <2>2
<1>7. ASSUME NEW s \in services, ConflictOfService(s) PROVE DataInv' /\ SoundInv'
  <2>1. CASE NewHostName
    BY <2>1, NewHostNameSound
  <2>2. CASE NewInstanceName
    BY <2>2, NewInstanceNameSound
  <2>3. CASE Renamed({s}) /\ UNCHANGED <<host, serverVars>>
             /\ ProbesBegin(Ready, {s}, FALSE, FALSE, AfterFree(tx, {<<s, "instance">>}, {}), pcb, {})
    <3>1. PICK S, gone, clear : S = {s} /\ gone = {<<s, "instance">>} /\ clear = FALSE
      OBVIOUS
    <3>2. /\ S \in SUBSET Services /\ S # {} /\ S \subseteq services /\ Renamed(S) /\ UNCHANGED <<services, host>>
          /\ ProbesBegin(Ready, S, FALSE, clear, AfterFree(tx, gone, {}), pcb, {})
      BY <1>3, <2>3, <3>1 DEF serverVars
    <3> QED
      BY <3>2, FreedProbesSound
  <2>4. CASE UNCHANGED <<host, asked, serverVars>> /\ ProbesBegin({current.pcb}, {s}, FALSE, FALSE, tx, pcb, {})
    <3>1. current.pcb \in Pcbs
      BY <1>1, <1>7 DEF ConflictOfService
    <3>2. PICK c \in Pcbs : c = current.pcb
      BY <3>1
    <3>2a. PICK ip, clear, S : ip = FALSE /\ clear = FALSE /\ S = {s}
      OBVIOUS
    <3>3. ProbesBegin({c}, S, ip, clear, tx, pcb, {}) /\ ip \in BOOLEAN /\ S # {} /\ S \in SUBSET Services /\ S \subseteq services
      BY <1>3, <2>4, <3>2, <3>2a
    <3>4. host /\ UNCHANGED <<services, host, asked>>
      BY <1>2, <2>4 DEF serverVars
    <3> QED
      BY <3>3, <3>4, OneProbesSound
  <2> QED
    BY <1>7, <2>1, <2>2, <2>3, <2>4, Zenon DEF ConflictOfService
<1>8. ASSUME NEW s \in services, ConflictOfText(s) PROVE DataInv' /\ SoundInv'
  <2>1. current.pcb \in Pcbs
    BY <1>1, <1>8 DEF ConflictOfText
  <2>2. PICK c \in Pcbs : c = current.pcb
    BY <2>1
  <2>2a. PICK ip, clear, S : ip = TRUE /\ clear = FALSE /\ S = {s}
    OBVIOUS
  <2>3. ProbesBegin({c}, S, ip, clear, tx, pcb, {}) /\ ip \in BOOLEAN /\ S # {} /\ S \in SUBSET Services /\ S \subseteq services
    BY <1>3, <1>8, <2>2, <2>2a DEF ConflictOfText
  <2>4. host /\ UNCHANGED <<services, host, asked>>
    BY <1>2, <1>8 DEF ConflictOfText, serverVars
  <2> QED
    BY <2>3, <2>4, OneProbesSound
<1> QED
  BY <1>4, <1>5, <1>6, <1>7, <1>8 DEF Parsed

(* An announcement on the PCBs as they are. *)
LEMMA AnnouncesAgainSound ==
  ASSUME NEW C \in SUBSET Pcbs, NEW S \in SUBSET Services, NEW ip, ip \in BOOLEAN, S # {} \/ ip,
         BaseInv, DataInv, SoundInv, Announces(C, S, ip, tx, pcb), S \subseteq services,
         UNCHANGED <<host, services, asked>>
  PROVE  DataInv' /\ SoundInv'
<1>1. PICK q, r : q = tx /\ r = pcb
  OBVIOUS
<1>2. /\ ListOf(q) /\ r \in [Pcbs -> PcbRecord] /\ Announces(C, S, ip, q, r)
      /\ asked' \in [Pcbs -> [Services -> 0..3]] /\ (services # {} => host)
      /\ \A c \in C : r[c] = pcb[c]
  BY <1>1 DEF DataInv, BaseInv, SoundInv
<1>3. \A c \in Pcbs \ spoilt : Sound(q, c, r[c], asked'[c], dropped[c], services, host)
  BY <1>1 DEF SoundInv
<1> QED
  BY <1>2, <1>3, AnnouncesSound

-----------------------------------------------------------------------------
(* Interfaces that come and go.                                             *)

(* A PCB that is off, or set aside. *)
Silent(o) == o.state \in {"OFF", "DUP"} /\ ~o.ready /\ ~o.running /\ o.services = {}

LEMMA SoundSilent ==
  ASSUME NEW t, NEW c, NEW o, NEW a, NEW d, NEW S, NEW h, Silent(o), Of(t, c) = {}
  PROVE  Sound(t, c, o, a, d, S, h)
BY DEF Silent, Sound, Probes, Plain, Known

(* A PCB that was set aside is off. *)
Released(o, r) ==
  r.state = "DUP" /\ o.state = "OFF" /\ o.ready = r.ready /\ o.running = r.running /\ o.services = r.services

LEMMA ForgottenAsked ==
  ASSUME NEW c, c \in Pcbs, DataInv
  PROVE  Forgotten(c) \in [Pcbs -> [Services -> 0..3]] /\ \A d \in Pcbs \ {c} : Forgotten(c)[d] = asked[d]
<1> DEFINE z == [s \in Services |-> 0]
<1>1. z \in [Services -> 0..3] /\ Forgotten(c) = [asked EXCEPT ![c] = z]
  BY DEF Forgotten
<1> HIDE DEF z
<1> QED
  BY <1>1 DEF DataInv

(* The PCBs r and the list q are sound already. *)
MidSound(q, r) == \A c \in Pcbs \ spoilt : Sound(q, c, r[c], asked'[c], dropped[c], services, host)

LEMMA EnablesSound ==
  ASSUME NEW c \in Pcbs, NEW q, ListOf(q), NEW r \in [Pcbs -> PcbRecord], BaseInv, DataInv, SoundInv,
         asked' \in [Pcbs -> [Services -> 0..3]], UNCHANGED <<host, services>>,
         MidSound(q, r), Enables(c, q, r)
  PROVE  DataInv' /\ SoundInv'
<1>1. CASE pcb' = r /\ tx' = q /\ UNCHANGED <<dropped, spoilt, fails>>
  BY <1>1 DEF DataInv, SoundInv, MidSound, ListOf
<1>2. CASE ProbesBegin({c}, services, TRUE, FALSE, q, [r EXCEPT ![c].ready = TRUE], {})
  <2>1. PICK C, ip, clear, t, lost : /\ C = {c} /\ ip = TRUE /\ clear = FALSE /\ lost = {}
                                  /\ t = [r EXCEPT ![c].ready = TRUE]
    OBVIOUS
  <2>2. /\ C \in SUBSET Pcbs /\ ip \in BOOLEAN /\ lost \in SUBSET Pcbs /\ services \in SUBSET Services
        /\ t \in [Pcbs -> PcbRecord] /\ ProbesBegin(C, services, ip, clear, q, t, lost)
        /\ t[c].ready /\ t[c].running = r[c].running /\ t[c].services = r[c].services
        /\ \A d \in Pcbs \ {c} : t[d] = r[d]
    BY <1>2, <2>1 DEF BaseInv, PcbRecord
  <2>3. services # {} => host
    BY DEF SoundInv
  <2>4. c \notin spoilt => Merged(c, services, clear) = services
    <3>1. c \notin spoilt => pcb[c].services \subseteq services
      BY DEF SoundInv, Sound
    <3> QED
      BY <3>1 DEF Merged
  <2>5. c \notin spoilt /\ ~host => ~t[c].running /\ t[c].services = {}
    BY <2>2 DEF MidSound, Sound
  <2>6. \A d \in Pcbs \ (spoilt \cup lost) : d \notin C =>
          Sound(q, d, t[d], asked'[d], dropped[d], services', host')
    BY <2>1, <2>2 DEF MidSound
  <2>7. MayBegin(C, services, ip, clear, q, t, lost)
    BY <2>1, <2>2, <2>3, <2>4, <2>5, <2>6 DEF MayBegin, DataInv
  <2> QED
    BY <2>2, <2>7, ProbesSound
<1> QED
  BY <1>1, <1>2 DEF Enables

LEMMA EnableSound ==
  ASSUME BaseInv, DataInv, SoundInv, current.type = "EVENT" => current.pcb \in Pcbs, mdns_priv_pcb_enable
  PROVE  DataInv' /\ SoundInv'
<1>0. PICK c \in Pcbs : c = current.pcb
  BY DEF mdns_priv_pcb_enable, Executes
<1>1. PICK q, r : q = tx /\ r = pcb
  OBVIOUS
<1>2. /\ UNCHANGED <<host, services, asked>> /\ Enables(c, q, r)
  BY <1>0, <1>1 DEF mdns_priv_pcb_enable, serverVars
<1>3. ListOf(q) /\ r \in [Pcbs -> PcbRecord] /\ asked' \in [Pcbs -> [Services -> 0..3]]
  BY <1>1, <1>2 DEF DataInv, BaseInv
<1>4. MidSound(q, r)
  BY <1>1, <1>2 DEF MidSound, SoundInv
<1> QED
  BY <1>2, <1>3, <1>4, EnablesSound

(* An interface c goes: the list q, without its packets, and PCBs r, among  *)
(* which it is off, and may be set aside; d, which was set aside, may be    *)
(* off as well.                                                             *)
LEMMA GoneSound ==
  ASSUME NEW c \in Pcbs, NEW q, NEW r \in [Pcbs -> PcbRecord], DataInv, SoundInv,
         asked' = Forgotten(c),
         Silent(r[c]), q = Cleared(tx, {c}),
         \A d \in Pcbs \ {c} : r[d] = pcb[d] \/ Released(r[d], pcb[d])
  PROVE  MidSound(q, r) /\ ListOf(q)
<1>1. /\ ListOf(q) /\ Of(q, c) = {} /\ \A d : d # c => Carried(tx, q, d)
  <2>1. PICK C : C = {c}
    OBVIOUS
  <2>2. ListOf(Cleared(tx, C)) /\ (\A d : d \in C => Of(Cleared(tx, C), d) = {})
        /\ \A d : d \notin C => Carried(tx, Cleared(tx, C), d)
    BY ListCleared DEF DataInv
  <2> QED
    BY <2>1, <2>2
<1>2. Sound(q, c, r[c], asked'[c], dropped[c], services, host)
  BY <1>1, SoundSilent
<1>3. ASSUME NEW d \in Pcbs, d \notin spoilt, d # c
      PROVE  Sound(q, d, r[d], asked'[d], dropped[d], services, host)
  <2>1. Sound(tx, d, pcb[d], asked[d], dropped[d], services, host) /\ asked'[d] = asked[d] /\ Carried(tx, q, d)
    BY <1>1, <1>3, ForgottenAsked DEF SoundInv
  <2>2. Sound(q, d, pcb[d], asked'[d], dropped[d], services, host)
    BY <2>1, SoundStays
  <2>3. CASE Released(r[d], pcb[d])
    <3>1. Of(q, d) = {} /\ Silent(r[d])
      BY <2>2, <2>3 DEF Sound, Probes, Silent, Released
    <3> QED
      BY <3>1, SoundSilent
  <2> QED
    BY <1>3, <2>2, <2>3
<1> QED
  BY <1>1, <1>2, <1>3 DEF MidSound

LEMMA DisableSound ==
  ASSUME BaseInv, DataInv, SoundInv, current.type = "EVENT" => current.pcb \in Pcbs, mdns_priv_pcb_disable
  PROVE  DataInv' /\ SoundInv'
<1>1. PICK c \in Pcbs : c = current.pcb
  BY DEF mdns_priv_pcb_disable, Executes
<1>2. PICK d \in Pcbs : d = Twin[c]
  BY ResponderAssumption
<1>3. /\ UNCHANGED <<host, services>> /\ asked' = Forgotten(c)
      /\ asked' \in [Pcbs -> [Services -> 0..3]] /\ pcb \in [Pcbs -> PcbRecord]
      /\ \A e \in Pcbs \ {c} : asked'[e] = asked[e]
  BY <1>1, ForgottenAsked DEF mdns_priv_pcb_disable, serverVars, BaseInv
<1>4. CASE ~pcb[c].ready
  <2>1. pcb' = [pcb EXCEPT ![c].state = "OFF"] /\ UNCHANGED <<tx, dropped, spoilt>>
    BY <1>1, <1>4 DEF mdns_priv_pcb_disable
  <2>2. \A e \in Pcbs \ {c} : pcb'[e] = pcb[e] /\ Carried(tx, tx', e)
    BY <1>3, <2>1, CarriedAlong
  <2>3. ASSUME c \notin spoilt PROVE Sound(tx', c, pcb'[c], asked'[c], dropped'[c], services, host)
    <3>1. Sound(tx, c, pcb[c], asked[c], dropped[c], services, host) /\ pcb[c] \in PcbRecord
      BY <1>3, <2>3 DEF SoundInv
    <3>2. pcb'[c].state = "OFF" /\ pcb'[c].ready = pcb[c].ready /\ pcb'[c].running = pcb[c].running
          /\ pcb'[c].services = pcb[c].services
      BY <1>3, <2>1 DEF PcbRecord
    <3>3. Of(tx', c) = {} /\ Silent(pcb'[c])
      BY <1>4, <2>1, <3>1, <3>2 DEF Sound, Probes, Silent
    <3>4. PICK t, o, a, f : t = tx' /\ o = pcb'[c] /\ a = asked'[c] /\ f = dropped'[c]
      OBVIOUS
    <3> QED
      BY <3>3, <3>4, SoundSilent
  <2>4. SoundInv'
    BY <1>3, <2>1, <2>2, <2>3, OthersSound
  <2> QED
    BY <1>3, <2>1, <2>4 DEF DataInv, ListOf
<1>5. CASE pcb[c].ready
  <2> DEFINE q == Cleared(tx, {c})
             r == Deinited({c})
             t == [r EXCEPT ![d].state = "OFF"]
  <2>1. \/ Enables(d, q, t) /\ d # c /\ pcb[d].state = "DUP"
        \/ pcb' = r /\ tx' = q /\ UNCHANGED <<dropped, spoilt, fails>>
    BY <1>1, <1>2, <1>5 DEF mdns_priv_pcb_disable
  <2>2. /\ r \in [Pcbs -> PcbRecord] /\ Silent(r[c])
        /\ \A e \in Pcbs \ {c} : r[e] = pcb[e]
    BY <1>3 DEF Deinited, Off, PcbRecord, PcbStates, Silent
  <2>3. PICK x, u, v : x = q /\ u = r /\ v = t
    OBVIOUS
  <2> HIDE DEF q, r
  <2>4. v = [u EXCEPT ![d].state = "OFF"] /\ u \in [Pcbs -> PcbRecord] /\ Silent(u[c])
        /\ \A e \in Pcbs \ {c} : u[e] = pcb[e]
    BY <2>2, <2>3
  <2>5. x = Cleared(tx, {c})
    BY <2>3 DEF q
  <2>6. CASE Enables(d, q, t) /\ d # c /\ pcb[d].state = "DUP"
    <3>1. /\ v \in [Pcbs -> PcbRecord] /\ Silent(v[c]) /\ Released(v[d], pcb[d])
          /\ \A e \in Pcbs \ {c, d} : v[e] = pcb[e]
      BY <2>4, <2>6 DEF PcbRecord, PcbStates, Released
    <3>2. MidSound(x, v) /\ ListOf(x)
      BY <1>3, <2>5, <3>1, GoneSound
    <3>3. Enables(d, x, v)
      BY <2>3, <2>6
    <3> QED
      BY <1>3, <3>1, <3>2, <3>3, EnablesSound
  <2>7. CASE pcb' = r /\ tx' = q /\ UNCHANGED <<dropped, spoilt, fails>>
    <3>1. MidSound(x, u) /\ ListOf(x)
      BY <1>3, <2>4, <2>5, GoneSound
    <3> QED
      BY <1>3, <2>3, <2>7, <3>1 DEF DataInv, SoundInv, MidSound, ListOf
  <2> QED
    BY <2>1, <2>6, <2>7
<1> QED
  BY <1>4, <1>5

LEMMA DuplicateSound ==
  ASSUME BaseInv, DataInv, SoundInv, current.type = "RX" => current.pcb \in Pcbs, DuplicateFound
  PROVE  DataInv' /\ SoundInv'
<1>1. PICK c \in Pcbs : c = current.pcb
  BY DEF DuplicateFound, Parses, Executes
<1>2. PICK d \in Pcbs : d = Twin[c]
  BY ResponderAssumption
<1>3. /\ d # c /\ UNCHANGED <<host, services>> /\ pcb \in [Pcbs -> PcbRecord] /\ (services # {} => host)
  BY <1>1, <1>2 DEF DuplicateFound, serverVars, BaseInv, SoundInv
<1>4. CASE pcb[c].ready
  <2> DEFINE q == Cleared(tx, {c})
             u == Deinited({c})
             r == [u EXCEPT ![c].state = "DUP"]
  <2>1. asked' = Forgotten(c) /\ Announces({d}, {}, TRUE, q, r)
    BY <1>1, <1>2, <1>4 DEF DuplicateFound
  <2>2. u \in [Pcbs -> PcbRecord] /\ Silent(u[c]) /\ \A e \in Pcbs \ {c} : u[e] = pcb[e]
    BY <1>3 DEF Deinited, Off, PcbRecord, PcbStates, Silent
  <2>3. PICK x, y, v : x = q /\ y = u /\ v = r
    OBVIOUS
  <2> HIDE DEF q, u
  <2>4. v = [y EXCEPT ![c].state = "DUP"] /\ y \in [Pcbs -> PcbRecord] /\ Silent(y[c])
        /\ \A e \in Pcbs \ {c} : y[e] = pcb[e]
    BY <2>2, <2>3
  <2>5. /\ v \in [Pcbs -> PcbRecord] /\ Silent(v[c]) /\ \A e \in Pcbs \ {c} : v[e] = pcb[e]
    BY <2>4 DEF PcbRecord, PcbStates, Silent
  <2>6. x = Cleared(tx, {c})
    BY <2>3 DEF q
  <2>7. MidSound(x, v) /\ ListOf(x)
    BY <2>1, <2>5, <2>6, GoneSound
  <2>8. PICK C, S, ip : C = {d} /\ S = {} /\ ip = TRUE
    OBVIOUS
  <2>9. /\ C \in SUBSET Pcbs /\ S \in SUBSET Services /\ ip \in BOOLEAN /\ (S # {} \/ ip) /\ S \subseteq services
        /\ Announces(C, S, ip, x, v) /\ \A e \in C : v[e] = pcb[e]
    BY <1>3, <2>1, <2>3, <2>5, <2>8
  <2>10. asked' \in [Pcbs -> [Services -> 0..3]]
    BY <2>1, ForgottenAsked
  <2> QED
    BY <1>3, <2>5, <2>7, <2>9, <2>10, AnnouncesSound DEF MidSound
<1>5. CASE ~pcb[c].ready
  <2>1. PICK v, x : v = [pcb EXCEPT ![c].state = "DUP"] /\ x = tx
    OBVIOUS
  <2>2. asked' = asked /\ Announces({d}, {}, TRUE, x, v)
    BY <1>1, <1>2, <1>5, <2>1 DEF DuplicateFound
  <2>3. v \in [Pcbs -> PcbRecord] /\ \A e \in Pcbs \ {c} : v[e] = pcb[e]
    BY <1>3, <2>1 DEF PcbRecord, PcbStates
  <2>4. /\ v[c].state = "DUP" /\ v[c].ready = pcb[c].ready /\ v[c].running = pcb[c].running
        /\ v[c].services = pcb[c].services
    BY <1>3, <2>1 DEF PcbRecord
  <2>5. ASSUME c \notin spoilt PROVE Sound(x, c, v[c], asked'[c], dropped[c], services, host)
    <3>1. Sound(tx, c, pcb[c], asked[c], dropped[c], services, host)
      BY <2>5 DEF SoundInv
    <3>2. Of(x, c) = {} /\ Silent(v[c])
      BY <1>5, <2>1, <2>4, <3>1 DEF Sound, Probes, Silent
    <3> QED
      BY <3>2, SoundSilent
  <2>6. MidSound(x, v) /\ ListOf(x) /\ asked' \in [Pcbs -> [Services -> 0..3]]
    BY <2>1, <2>2, <2>3, <2>5 DEF MidSound, SoundInv, DataInv
  <2>7. PICK C, S, ip : C = {d} /\ S = {} /\ ip = TRUE
    OBVIOUS
  <2>8. /\ C \in SUBSET Pcbs /\ S \in SUBSET Services /\ ip \in BOOLEAN /\ (S # {} \/ ip) /\ S \subseteq services
        /\ Announces(C, S, ip, x, v) /\ \A e \in C : v[e] = pcb[e]
    BY <1>3, <2>2, <2>3, <2>7
  <2> QED
    BY <1>3, <2>3, <2>6, <2>8, AnnouncesSound DEF MidSound
<1> QED
  BY <1>4, <1>5

-----------------------------------------------------------------------------
(* Services that are removed.                                               *)

(* What mdns_priv_remove_scheduled_service_packets does to the packets of   *)
(* a PCB, where b says whether it probed for the service s: which of them   *)
(* are kept, and what they are then.                                        *)
Asking(p, s, b) == IF b THEN p.questions \ {<<s, "instance">>} ELSE p.questions

Kept(p, s, b) == Asking(p, s, b) # {} \/ p.answers \ {s} # {} \/ p.host

StringsOf(s) == {<<s, "instance">>, <<s, "host">>}

Outlives(o, p, s, b) ==
  /\ o.pcb = p.pcb /\ o.kind = p.kind /\ o.host = p.host /\ o.answers = p.answers \ {s}
  /\ o.questions = (Asking(p, s, b) \ StringsOf(s)) \cup {<<"freed", x[2]>> : x \in Asking(p, s, b) \cap StringsOf(s)}

Trimmed(q, t, c, s, b) ==
  /\ \A j \in Of(t, c) : \E i \in Of(q, c) : Kept(q[i], s, b) /\ Outlives(t[j], q[i], s, b)
  /\ \A i : Of(q, c) = {i} /\ Kept(q[i], s, b) => \E j : Of(t, c) = {j}

(* A probe that outlives a service.                                         *)
LEMMA ProbeOutlives ==
  ASSUME NEW o, NEW p, NEW s \in Services, NEW b, b \in BOOLEAN, NEW r, NEW e,
         Carries(p, r), Outlives(o, p, s, b), r.services \subseteq Services, s \in r.services => b,
         e.services = r.services \ {s}, e.ip = r.ip
  PROVE  Carries(o, e)
<1>1. "freed" \notin Services /\ Services \subseteq Strings /\ s # "freed"
  BY ResponderAssumption DEF Strings
<1>2. <<s, "instance">> \notin Asking(p, s, b)
  BY <1>1 DEF Carries, Asking
<1>3. \A x \in Strings : x # s => (<<x, "instance">> \in Asking(p, s, b) <=> x \in r.services)
  BY <1>1 DEF Carries, Asking
<1>4. \A x \in Strings : <<x, "host">> \in Asking(p, s, b) => r.ip
  BY DEF Carries, Asking
<1>5. ASSUME NEW x \in Strings PROVE <<x, "instance">> \in o.questions <=> x \in e.services
  <2>1. <<x, "instance">> \in o.questions <=>
           \/ <<x, "instance">> \in Asking(p, s, b) /\ x # s
           \/ x = "freed" /\ <<s, "instance">> \in Asking(p, s, b)
    BY <1>1 DEF Outlives, StringsOf
  <2> QED
    BY <1>2, <1>3, <2>1
<1>6. ASSUME NEW x \in Strings, <<x, "host">> \in o.questions PROVE e.ip
  <2>1. <<x, "host">> \in Asking(p, s, b) \/ <<s, "host">> \in Asking(p, s, b)
    BY <1>6 DEF Outlives, StringsOf
  <2> QED
    BY <1>1, <1>4, <2>1
<1>7. o.kind = "probe" /\ o.answers = e.services /\ o.host = e.ip
  BY DEF Carries, Outlives
<1> QED
  BY <1>5, <1>6, <1>7 DEF Carries

(* What becomes of a PCB r: o. *)
Unlisted(o, r, s, b) ==
  /\ o.ready = r.ready /\ o.ip = r.ip /\ o.services = r.services \ {s}
  /\ \/ /\ Probes(r) /\ s \in r.services /\ b
        /\ o.running = (r.running /\ (r.services # {s} \/ r.ip))
        /\ o.state = IF r.services = {s} /\ ~r.ip THEN "RUNNING" ELSE r.state
     \/ /\ s \notin r.services /\ ~b /\ o.running = r.running
        /\ \/ o.state = r.state
           \/ r.state \in {"ANNOUNCE_1", "ANNOUNCE_2", "ANNOUNCE_3"} /\ o.state = "RUNNING"

LEMMA SoundTrimmed ==
  ASSUME NEW q, NEW t, NEW c, NEW r \in PcbRecord, NEW a, NEW d, NEW S \in SUBSET Services, NEW h,
         NEW s \in Services, NEW b, b \in BOOLEAN, NEW o \in PcbRecord, NEW e, NEW f,
         Sound(q, c, r, a, d, S, h), Trimmed(q, t, c, s, b), Unlisted(o, r, s, b),
         \A i \in Of(q, c) : q[i].questions \subseteq Questions,
         \A x \in S \ {s} : e[x] = a[x] /\ (x \in d => x \in f)
  PROVE  Sound(t, c, o, e, f, S \ {s}, h)
<1>1. /\ r.ready <=> r.state \notin {"OFF", "DUP"}
      /\ ~r.ready => Of(q, c) = {}
      /\ r.services \subseteq S
      /\ \A i \in Of(q, c) : q[i].answers \subseteq S \cup {"self"}
      /\ Known(r, a, d, S)
  BY DEF Sound
<1>2. \A j \in Of(t, c) : \E i \in Of(q, c) : Kept(q[i], s, b) /\ Outlives(t[j], q[i], s, b)
  BY DEF Trimmed
<1>3. o.ready = r.ready /\ o.ip = r.ip /\ o.services = r.services \ {s}
  BY DEF Unlisted
<1>4. ~o.ready => Of(t, c) = {}
  BY <1>1, <1>2, <1>3
<1>5. \A j \in Of(t, c) : t[j].answers \subseteq (S \ {s}) \cup {"self"}
  BY <1>1, <1>2, ResponderAssumption DEF Outlives
<1>6. CASE Probes(r)
  <2>1. PICK i : Of(q, c) = {i} /\ Carries(q[i], r)
    BY <1>6 DEF Sound, Alone
  <2>2. r.running /\ h /\ (r.services # {} \/ r.ip) /\ r.ready /\ r.services \subseteq Services
    BY <1>1, <1>6 DEF Sound, Probes
  <2>3. CASE s \in r.services /\ r.services = {s} /\ ~r.ip
    <3>1. b /\ o.running = FALSE /\ o.state = "RUNNING" /\ o.services = {}
      BY <1>3, <2>3 DEF Unlisted
    <3>2. ~Kept(q[i], s, b)
      <4>1. q[i].answers \ {s} = {} /\ ~q[i].host
        BY <2>1, <2>3 DEF Carries
      <4>2. \A x \in Strings : <<x, "instance">> \in q[i].questions => x = s
        BY <2>1, <2>3 DEF Carries
      <4>3. \A x \in Strings : <<x, "host">> \notin q[i].questions
        BY <2>1, <2>3 DEF Carries
      <4>4. \A y \in Questions : \E x \in Strings : y = <<x, "instance">> \/ y = <<x, "host">>
        BY DEF Questions, Strings
      <4>5. q[i].questions \subseteq {<<s, "instance">>}
        BY <2>1, <4>2, <4>3, <4>4
      <4>6. Asking(q[i], s, b) = {}
        BY <3>1, <4>5 DEF Asking
      <4> QED
        BY <4>1, <4>6 DEF Kept
    <3>3. Of(t, c) = {}
      BY <1>2, <2>1, <3>2
    <3>4. Known(o, e, f, S \ {s})
      BY <1>1, <1>6, <2>3, <3>1 DEF Known, Probes
    <3> QED
      BY <1>1, <1>3, <1>4, <1>5, <2>2, <3>1, <3>3, <3>4 DEF Sound, Probes, Plain
  <2>4. CASE ~(s \in r.services /\ r.services = {s} /\ ~r.ip)
    <3>1. o.state = r.state /\ o.running /\ (s \in r.services => b)
      BY <1>6, <2>2, <2>4 DEF Unlisted, Probes
    <3>2. Kept(q[i], s, b)
      BY <2>1, <2>2, <2>4 DEF Carries, Kept
    <3>3. PICK j : Of(t, c) = {j}
      BY <2>1, <3>2 DEF Trimmed
    <3>4. Outlives(t[j], q[i], s, b)
      BY <1>2, <2>1, <3>3
    <3>5. Carries(t[j], o)
      BY <1>3, <2>1, <2>2, <3>1, <3>4, ProbeOutlives
    <3>6. Known(o, e, f, S \ {s})
      BY <1>1, <1>3, <3>1 DEF Known
    <3>7. o.services # {} \/ o.ip
      BY <1>3, <2>2, <2>4
    <3> QED
      BY <1>1, <1>3, <1>4, <1>5, <1>6, <2>2, <3>1, <3>3, <3>5, <3>6, <3>7 DEF Sound, Probes, Alone
  <2> QED
    BY <2>3, <2>4
<1>7. CASE ~Probes(r)
  <2>1. Plain(q, c) /\ ~r.running /\ r.services = {}
    BY <1>7 DEF Sound
  <2>2. ~b /\ o.running = r.running /\ o.services = {}
        /\ \/ o.state = r.state
           \/ r.state \in {"ANNOUNCE_1", "ANNOUNCE_2", "ANNOUNCE_3"} /\ o.state = "RUNNING"
    BY <1>3, <1>7, <2>1 DEF Unlisted
  <2>3. Plain(t, c)
    <3> SUFFICES ASSUME NEW j \in Of(t, c) PROVE t[j].kind # "probe" /\ t[j].questions = {}
      BY DEF Plain
    <3>1. PICK i \in Of(q, c) : Outlives(t[j], q[i], s, b)
      BY <1>2
    <3>2. q[i].kind # "probe" /\ q[i].questions = {}
      BY <2>1 DEF Plain
    <3> QED
      BY <3>1, <3>2 DEF Outlives, Asking
  <2>4. ~Probes(o)
    BY <1>7, <2>2 DEF Probes
  <2>5. Known(o, e, f, S \ {s})
    BY <1>1, <2>1, <2>2 DEF Known
  <2>6. o.ready <=> o.state \notin {"OFF", "DUP"}
    BY <1>1, <1>3, <2>2
  <2> QED
    BY <1>4, <1>5, <2>1, <2>2, <2>3, <2>4, <2>5, <2>6 DEF Sound
<1> QED
  BY <1>6, <1>7

(* The list q without a service s, and without a question for the service   *)
(* g[c] on the PCBs c where b[c]: u, of which what is left is kept.         *)
Without(q, s, g, b) ==
  [i \in 1..Len(q) |->
     [q[i] EXCEPT !.answers = @ \ {s}, !.questions = Asking(q[i], g[q[i].pcb], b[q[i].pcb])]]

LEMMA WithoutList ==
  ASSUME NEW q, ListOf(q), NEW s, NEW g, NEW b
  PROVE  LET u == Without(q, s, g, b) IN
         /\ \E I : u \in Seq(PacketOf(I))
         /\ Len(u) = Len(q)
         /\ \A i \in 1..Len(q) :
              /\ u[i].pcb = q[i].pcb /\ u[i].kind = q[i].kind /\ u[i].host = q[i].host
              /\ u[i].answers = q[i].answers \ {s}
              /\ u[i].questions = Asking(q[i], g[q[i].pcb], b[q[i].pcb])
<1>1. PICK I : q \in Seq(PacketOf(I))
  BY DEF ListOf
<1> DEFINE e(p) == [p EXCEPT !.answers = @ \ {s}, !.questions = Asking(p, g[p.pcb], b[p.pcb])]
<1>2. ASSUME NEW p \in PacketOf(I)
      PROVE  /\ e(p) \in PacketOf(I)
             /\ e(p).pcb = p.pcb /\ e(p).kind = p.kind /\ e(p).host = p.host
             /\ e(p).answers = p.answers \ {s}
             /\ e(p).questions = Asking(p, g[p.pcb], b[p.pcb])
  <2>1. Asking(p, g[p.pcb], b[p.pcb]) \in SUBSET Questions
    BY DEF Asking, PacketOf
  <2> QED
    BY <2>1 DEF PacketOf
<1>3. PICK S : S = PacketOf(I)
  OBVIOUS
<1>4. PICK u : u = Without(q, s, g, b)
  OBVIOUS
<1>5. u = [i \in 1..Len(q) |-> e(q[i])]
  BY <1>4 DEF Without
<1> HIDE DEF e
<1>6. Len(q) \in Nat /\ \A i \in 1..Len(q) : q[i] \in S
  BY <1>1, <1>3
<1>7. u \in [1..Len(q) -> S]
  BY <1>2, <1>3, <1>5, <1>6
<1>8. u \in Seq(S) /\ Len(u) = Len(q)
  BY <1>6, <1>7, FunctionSeq
<1>9. \A i \in 1..Len(q) :
              /\ u[i].pcb = q[i].pcb /\ u[i].kind = q[i].kind /\ u[i].host = q[i].host
              /\ u[i].answers = q[i].answers \ {s}
              /\ u[i].questions = Asking(q[i], g[q[i].pcb], b[q[i].pcb])
  BY <1>2, <1>3, <1>5, <1>6
<1> QED
  BY <1>3, <1>4, <1>8, <1>9

(* What is kept of the list u. *)
Keeps(u, v) == v = At(u, {i \in 1..Len(u) : ~Empty(u[i])})

LEMMA TrimmedList ==
  ASSUME NEW q, ListOf(q), NEW s \in Services, NEW g, NEW b,
         NEW u, u = Without(q, s, g, b),
         NEW v, Keeps(u, v),
         NEW t, t = AfterFree(v, StringsOf(s), {s})
  PROVE  ListOf(t) /\ \A c : (b[c] => g[c] = s) => Trimmed(q, t, c, s, b[c])
<1>1. /\ \E I : u \in Seq(PacketOf(I))
      /\ Len(u) = Len(q)
      /\ \A i \in 1..Len(q) :
              /\ u[i].pcb = q[i].pcb /\ u[i].kind = q[i].kind /\ u[i].host = q[i].host
              /\ u[i].answers = q[i].answers \ {s}
              /\ u[i].questions = Asking(q[i], g[q[i].pcb], b[q[i].pcb])
  BY WithoutList
<1>2. PICK I, S : S = PacketOf(I) /\ u \in Seq(S)
  BY <1>1
<1>3. PICK J : J = {i \in 1..Len(u) : ~Empty(u[i])}
  OBVIOUS
<1>4. J \in SUBSET (1..Len(u)) /\ v = At(u, J)
  BY <1>3 DEF Keeps
<1>5. v \in Seq(S) /\ \E w : Chosen(u, J, v, w)
  BY <1>2, <1>4, AtPlaces, Zenon
<1>6. PICK w : Chosen(u, J, v, w)
  BY <1>5
<1>7. ListOf(v)
  <2>1. v \in Seq(PacketOf(I))
    BY <1>2, <1>5, Zenon
  <2> QED
    BY <2>1, Zenon DEF ListOf
<1>8. ListOf(t) /\ \A c : Of(t, c) = Of(v, c)
  <2>1. PICK gone, dead : gone = StringsOf(s) /\ dead = {s}
    OBVIOUS
  <2>2. ListOf(AfterFree(v, gone, dead)) /\ \A c : Of(AfterFree(v, gone, dead), c) = Of(v, c)
    BY <1>7, FreedList, Zenon
  <2> QED
    BY <2>1, <2>2, Zenon
<1>9. ASSUME NEW n \in 1..Len(v)
      PROVE  LET i == w[n]
                 p == q[i] IN
             /\ i \in 1..Len(q) /\ v[n].pcb = p.pcb
             /\ (b[p.pcb] => g[p.pcb] = s) => Kept(p, s, b[p.pcb]) /\ Outlives(t[n], p, s, b[p.pcb])
  <2>1. PICK i : i = w[n] /\ i \in J /\ i \in 1..Len(u) /\ ~Empty(u[i]) /\ v[n] = u[i]
    BY <1>3, <1>6 DEF Chosen
  <2>2. PICK p, k, e, z : p = q[i] /\ k = b[p.pcb] /\ e = v[n] /\ z = g[p.pcb]
    OBVIOUS
  <2>3. /\ e.pcb = p.pcb /\ e.kind = p.kind /\ e.host = p.host
        /\ e.answers = p.answers \ {s} /\ e.questions = Asking(p, z, k)
    BY <1>1, <2>1, <2>2
  <2>4. (k => z = s) => Asking(p, z, k) = Asking(p, s, k)
    BY DEF Asking
  <2>5. (k => z = s) => Kept(p, s, k)
    BY <2>1, <2>2, <2>3, <2>4 DEF Kept, Empty
  <2>6. e \in PacketOf(I) /\ n \in 1..Len(v)
    <3>1. v \in Seq(S) /\ n \in 1..Len(v)
      BY <1>5, Zenon
    <3>2. v[n] \in S
      BY <3>1
    <3> QED
      BY <1>2, <2>2, <3>1, <3>2
  <2>7. /\ t[n].pcb = e.pcb /\ t[n].kind = e.kind /\ t[n].host = e.host
        /\ t[n].questions = (e.questions \ StringsOf(s)) \cup {<<"freed", x[2]>> : x \in e.questions \cap StringsOf(s)}
        /\ t[n].answers = (e.answers \ {s}) \cup {"freed" : x \in e.answers \cap {s}}
    BY <2>2, <2>6 DEF AfterFree, PacketOf
  <2>8. (k => z = s) => Outlives(t[n], p, s, k)
    BY <2>3, <2>7, <2>4 DEF Outlives
  <2> QED
    BY <1>1, <2>1, <2>2, <2>3, <2>5, <2>8
<1>10. ASSUME NEW c, b[c] => g[c] = s PROVE Trimmed(q, t, c, s, b[c])
  <2>1. \A n : n \in Of(t, c) <=> n \in 1..Len(v) /\ v[n].pcb = c
    <3>1. \A n : n \in Of(v, c) <=> n \in 1..Len(v) /\ v[n].pcb = c
      BY Zenon DEF Of
    <3> QED
      BY <1>8, <3>1, Zenon
  <2>2. \A n \in Of(t, c) : w[n] \in Of(q, c) /\ Kept(q[w[n]], s, b[c]) /\ Outlives(t[n], q[w[n]], s, b[c])
    <3> TAKE n \in Of(t, c)
    <3>1. n \in 1..Len(v) /\ v[n].pcb = c
      BY <2>1
    <3>2. PICK i : i = w[n] /\ i \in 1..Len(q) /\ v[n].pcb = q[i].pcb
                  /\ Kept(q[i], s, b[c]) /\ Outlives(t[n], q[i], s, b[c])
      BY <1>9, <1>10, <3>1
    <3> QED
      BY <3>1, <3>2 DEF Of
  <2>3. ASSUME NEW i, Of(q, c) = {i}, Kept(q[i], s, b[c]) PROVE \E j : Of(t, c) = {j}
    <3>1. i \in 1..Len(q) /\ q[i].pcb = c
      BY <2>3 DEF Of
    <3>2. ~Empty(u[i])
      <4>1. Asking(q[i], g[c], b[c]) = Asking(q[i], s, b[c])
        BY <1>10 DEF Asking
      <4> QED
        BY <1>1, <2>3, <3>1, <4>1 DEF Kept, Empty
    <3>3. i \in J
      BY <1>1, <1>3, <3>1, <3>2
    <3>4. PICK n \in 1..Len(v) : w[n] = i
      BY <1>6, <3>3 DEF Chosen
    <3>5. n \in Of(t, c)
      BY <1>9, <2>1, <3>1, <3>4
    <3>6. \A m \in Of(t, c) : m = n
      BY <1>6, <2>1, <2>2, <2>3, <3>4 DEF Chosen
    <3> QED
      <4>1. Of(t, c) = {n}
        BY <3>5, <3>6
      <4> QED
        BY <4>1
  <2> QED
    BY <2>2, <2>3 DEF Trimmed
<1> QED
  BY <1>8, <1>10

(* The PCBs that probe for a service. *)
ProbedOn(s) == [c \in Pcbs |-> c \in Searched(s) /\ Probing(c) /\ s \in pcb[c].services]

LEMMA UnscheduledList ==
  ASSUME NEW s \in Services, NEW t, DataInv
  PROVE  Unscheduled(s, t) = Without(tx, s, t, ProbedOn(s))
<1>1. PICK I : tx \in Seq(PacketOf(I))
  BY DEF DataInv, ListOf
<1> DEFINE e(i) == IF tx[i].pcb \in Searched(s) /\ Probing(tx[i].pcb) /\ s \in pcb[tx[i].pcb].services
                   THEN [tx[i] EXCEPT !.answers = @ \ {s}, !.questions = @ \ {<<t[tx[i].pcb], "instance">>}]
                   ELSE [tx[i] EXCEPT !.answers = @ \ {s}]
           f(i) == [tx[i] EXCEPT !.answers = @ \ {s}, !.questions = Asking(tx[i], t[tx[i].pcb], ProbedOn(s)[tx[i].pcb])]
<1>2. ASSUME NEW i \in 1..Len(tx) PROVE e(i) = f(i)
  <2>1. PICK p, c : p = tx[i] /\ c = p.pcb /\ p \in PacketOf(I) /\ c \in Pcbs
    <3>1. PICK p : p = tx[i] /\ p \in PacketOf(I)
      BY <1>1
    <3>2. p.pcb \in Pcbs
      BY <3>1 DEF PacketOf
    <3> QED
      BY <3>1, <3>2
  <2>2. PICK x : x = t[c]
    OBVIOUS
  <2>3. PICK k : k = ProbedOn(s)[c] /\ k = (c \in Searched(s) /\ Probing(c) /\ s \in pcb[c].services)
    BY <2>1 DEF ProbedOn
  <2>4. CASE k
    <3>1. e(i) = [p EXCEPT !.answers = @ \ {s}, !.questions = @ \ {<<x, "instance">>}]
      BY <2>1, <2>2, <2>3, <2>4
    <3>2. f(i) = [p EXCEPT !.answers = @ \ {s}, !.questions = p.questions \ {<<x, "instance">>}]
      BY <2>1, <2>2, <2>3, <2>4 DEF Asking
    <3> HIDE DEF e, f
    <3> QED
      BY <3>1, <3>2
  <2>5. CASE ~k
    <3>1. e(i) = [p EXCEPT !.answers = @ \ {s}]
      BY <2>1, <2>3, <2>5
    <3>2. f(i) = [p EXCEPT !.answers = @ \ {s}, !.questions = p.questions]
      BY <2>1, <2>3, <2>5 DEF Asking
    <3>3. [p EXCEPT !.answers = @ \ {s}] = [p EXCEPT !.answers = @ \ {s}, !.questions = p.questions]
      BY <2>1 DEF PacketOf
    <3> HIDE DEF e, f
    <3> QED
      BY <3>1, <3>2, <3>3
  <2> HIDE DEF e, f
  <2> QED
    BY <2>4, <2>5
<1>3. Unscheduled(s, t) = [i \in 1..Len(tx) |-> e(i)]
  BY Zenon DEF Unscheduled
<1>4. Without(tx, s, t, ProbedOn(s)) = [i \in 1..Len(tx) |-> f(i)]
  BY Zenon DEF Without
<1> HIDE DEF e, f
<1> QED
  BY <1>2, <1>3, <1>4

(* What becomes of the PCBs. *)
LEMMA RemovesUnlisted ==
  ASSUME NEW s \in Services, NEW t, RemovesScheduled(s, t), BaseInv, SoundInv,
         NEW c \in Pcbs, c \notin spoilt
  PROVE  Unlisted(pcb'[c], pcb[c], s, ProbedOn(s)[c])
<1>1. PICK o, r : r = pcb[c] /\ o = pcb'[c] /\ r \in PcbRecord
  BY DEF BaseInv
<1>2. PICK b, v : b = ProbedOn(s)[c] /\ v = (IF c \in Searched(s) THEN Unprobed(c, s) ELSE r)
  OBVIOUS
<1>3. o = [v EXCEPT !.services = (@ \ {s}) \cup {"freed" : x \in @ \cap {s}}]
  BY <1>1, <1>2 DEF RemovesScheduled
<1>4. b <=> c \in Searched(s) /\ Probes(r) /\ s \in r.services
  BY <1>1, <1>2 DEF ProbedOn, Probing, Probes
<1>5. Sound(tx, c, r, asked[c], dropped[c], services, host)
  BY <1>1 DEF SoundInv
<1>6. s \in r.services => b
  <2> SUFFICES ASSUME s \in r.services PROVE b
    OBVIOUS
  <2>1. Probes(r) /\ Alone(tx, c, r)
    BY <1>5 DEF Sound
  <2>2. Of(tx, c) # {} /\ r.ready
    BY <1>5, <2>1 DEF Sound, Alone, Probes
  <2> QED
    BY <1>1, <1>4, <2>1, <2>2 DEF Searched, Ready
<1>7. CASE b
  <2>1. v = [r EXCEPT !.services = @ \ {s},
                !.running = @ /\ (r.services # {s} \/ r.ip),
                !.state = IF r.services = {s} /\ ~r.ip THEN "RUNNING" ELSE @]
    BY <1>1, <1>2, <1>4, <1>7 DEF Unprobed, Probing, Probes
  <2>2. /\ v.ready = r.ready /\ v.ip = r.ip /\ v.services = r.services \ {s}
        /\ v.running = (r.running /\ (r.services # {s} \/ r.ip))
        /\ v.state = IF r.services = {s} /\ ~r.ip THEN "RUNNING" ELSE r.state
        /\ v \in PcbRecord
    BY <1>1, <2>1 DEF PcbRecord, PcbStates
  <2>3. /\ o.ready = v.ready /\ o.ip = v.ip /\ o.running = v.running /\ o.state = v.state
        /\ o.services = r.services \ {s}
    BY <1>3, <2>2 DEF PcbRecord
  <2> QED
    BY <1>1, <1>2, <1>4, <1>7, <2>2, <2>3 DEF Unlisted
<1>8. CASE ~b
  <2>1. /\ v \in PcbRecord /\ v.ready = r.ready /\ v.ip = r.ip /\ v.services = r.services /\ v.running = r.running
        /\ \/ v.state = r.state
           \/ r.state \in {"ANNOUNCE_1", "ANNOUNCE_2", "ANNOUNCE_3"} /\ v.state = "RUNNING"
    <3>1. v = r \/ (Announcing(c) /\ v = [r EXCEPT !.state = "RUNNING"])
      BY <1>1, <1>2, <1>6, <1>8 DEF Unprobed
    <3> QED
      BY <1>1, <3>1 DEF Announcing, PcbRecord, PcbStates
  <2>2. /\ o.ready = v.ready /\ o.ip = v.ip /\ o.running = v.running /\ o.state = v.state
        /\ o.services = r.services \ {s}
    BY <1>3, <1>6, <1>8, <2>1 DEF PcbRecord
  <2> QED
    BY <1>1, <1>2, <1>6, <1>8, <2>1, <2>2 DEF Unlisted
<1> QED
  BY <1>7, <1>8

LEMMA RemoveSound ==
  ASSUME NEW s \in Services, BaseInv, DataInv, SoundInv, mdns_service_remove(s)
  PROVE  DataInv' /\ SoundInv'
<1>1. PICK t \in [Pcbs -> {x \in Services : Type[x] = Type[s]}] : RemovesScheduled(s, t)
  BY DEF mdns_service_remove
<1>2. services' = services \ {s} /\ host' = host /\ services \in SUBSET Services
  BY DEF mdns_service_remove, BaseInv
<1>3. PICK u, v, b : u = Unscheduled(s, t) /\ Keeps(u, v) /\ b = ProbedOn(s)
  BY DEF Keeps
<1>4. u = Without(tx, s, t, b)
  BY <1>3, UnscheduledList
<1>5. tx' = AfterFree(v, StringsOf(s), {s})
  BY <1>1, <1>3, Zenon DEF RemovesScheduled, Keeps, StringsOf
<1>6. PICK q : q = tx'
  OBVIOUS
<1>7. ListOf(q) /\ \A c : (b[c] => t[c] = s) => Trimmed(tx, q, c, s, b[c])
  BY <1>3, <1>4, <1>5, <1>6, TrimmedList DEF DataInv
<1>8. /\ dropped' = [c \in Pcbs |-> dropped[c] \ {s}]
      /\ asked' = [c \in Pcbs |-> [asked[c] EXCEPT ![s] = 0]]
      /\ spoilt' = spoilt \cup {c \in Searched(s) : Probing(c) /\ s \in pcb[c].services /\ t[c] # s}
  BY <1>1 DEF RemovesScheduled
<1>9. dropped' \in [Pcbs -> SUBSET Services] /\ asked' \in [Pcbs -> [Services -> 0..3]] /\ spoilt' \in SUBSET Pcbs
  BY <1>8 DEF DataInv, Searched, Ready
<1>10. DataInv'
  BY <1>2, <1>6, <1>7, <1>8, <1>9 DEF DataInv, ListOf
<1>11. pcb' \in [Pcbs -> PcbRecord]
  BY ApiQuiet DEF Api, Quiet, ComeFrom
<1>12. ASSUME NEW c \in Pcbs, c \notin spoilt'
       PROVE  Sound(q, c, pcb'[c], asked'[c], dropped'[c], services', host')
  <2>1. PICK r, o, k, a, d, e, f : /\ r = pcb[c] /\ o = pcb'[c] /\ k = b[c] /\ a = asked[c] /\ d = dropped[c]
                                   /\ e = asked'[c] /\ f = dropped'[c]
    OBVIOUS
  <2>2. c \notin spoilt /\ (b[c] => t[c] = s)
    BY <1>3, <1>8, <1>12 DEF ProbedOn
  <2>3. Sound(tx, c, r, a, d, services, host) /\ r \in PcbRecord /\ o \in PcbRecord
    BY <1>11, <2>1, <2>2 DEF SoundInv, BaseInv
  <2>4. Unlisted(o, r, s, k) /\ Trimmed(tx, q, c, s, k)
    BY <1>1, <1>3, <1>7, <2>1, <2>2, RemovesUnlisted
  <2>5. k \in BOOLEAN
    BY <1>3, <2>1 DEF ProbedOn
  <2>6. \A i \in Of(tx, c) : tx[i].questions \subseteq Questions
    <3>1. PICK I : tx \in Seq(PacketOf(I))
      BY DEF DataInv, ListOf
    <3>2. \A i \in Of(tx, c) : tx[i] \in PacketOf(I)
      BY <3>1 DEF Of
    <3> QED
      BY <3>2 DEF PacketOf
  <2>7. \A x \in services \ {s} : e[x] = a[x] /\ (x \in d => x \in f)
    BY <1>2, <1>8, <2>1 DEF DataInv
  <2>8. PICK T, h : T = services /\ h = host /\ T \in SUBSET Services
    BY <1>2
  <2>9. Sound(q, c, o, e, f, T \ {s}, h)
    BY <2>3, <2>4, <2>5, <2>6, <2>7, <2>8, SoundTrimmed
  <2> QED
    BY <1>2, <2>1, <2>8, <2>9
<1>13. services' # {} => host'
  BY <1>2 DEF SoundInv
<1> QED
  BY <1>6, <1>8, <1>10, <1>12, <1>13 DEF SoundInv

-----------------------------------------------------------------------------
(* The other calls, and every step.                                         *)

LEMMA AddSound ==
  ASSUME NEW s \in Services, NEW named \in BOOLEAN, BaseInv, DataInv, SoundInv, mdns_service_add(s, named)
  PROVE  DataInv' /\ SoundInv'
<1>1. /\ host /\ services' = services \cup {s} /\ UNCHANGED <<host, asked>>
      /\ ProbesBegin(Ready, {s}, FALSE, FALSE, tx, pcb, {})
  BY DEF mdns_service_add
<1>2. PICK C, S, ip, clear, q : C = Ready /\ S = {s} /\ ip = FALSE /\ clear = FALSE /\ q = tx
  OBVIOUS
<1>3. C \in SUBSET Pcbs /\ \A c \in Pcbs \ (C \cup spoilt) : Of(q, c) = {} /\ ~pcb[c].ready
  BY <1>2, RestEmpty
<1>4. MayReprobe(C, S, ip, q)
  BY <1>1, <1>2, <1>3 DEF MayReprobe, DataInv
<1>5. ProbesBegin(C, S, ip, clear, q, pcb, {}) /\ S \in SUBSET Services /\ ip \in BOOLEAN /\ ListOf(q)
  BY <1>1, <1>2 DEF DataInv
<1> QED
  BY <1>3, <1>4, <1>5, ReprobesSound

LEMMA ApiSound ==
  ASSUME BaseInv, DataInv, SoundInv, Api
  PROVE  DataInv' /\ SoundInv'
<1>1. services \subseteq Services
  BY DEF BaseInv
<1>2. CASE mdns_hostname_set \/ mdns_instance_name_set
  BY <1>2 DEF mdns_hostname_set, mdns_instance_name_set, pcbVars, serverVars, DataInv, SoundInv, ListOf
<1>3. ASSUME NEW s \in Services, NEW ip \in BOOLEAN, mdns_service_change(s, ip) PROVE DataInv' /\ SoundInv'
  <2>1. PICK C, S : C = Pcbs /\ S = {s}
    OBVIOUS
  <2>2. /\ C \in SUBSET Pcbs /\ S \in SUBSET Services /\ S # {} /\ S \subseteq services
        /\ Announces(C, S, ip, tx, pcb) /\ UNCHANGED <<host, services, asked>>
    BY <1>3, <2>1 DEF mdns_service_change, serverVars
  <2> QED
    BY <2>2, AnnouncesAgainSound
<1>4. ASSUME NEW s \in Services, mdns_service_instance_name_set(s) PROVE DataInv' /\ SoundInv'
  <2>1. PICK S, gone, clear : S = {s} /\ gone = (IF s \in own THEN {<<s, "instance">>} ELSE {}) /\ clear = FALSE
    OBVIOUS
  <2>2. /\ S \in SUBSET Services /\ S # {} /\ S \subseteq services /\ Renamed(S) /\ UNCHANGED <<services, host>>
        /\ ProbesBegin(Ready, S, FALSE, clear, AfterFree(tx, gone, {}), pcb, {})
    BY <1>4, <2>1 DEF mdns_service_instance_name_set
  <2> QED
    BY <2>2, FreedProbesSound
<1> QED
  BY <1>2, <1>3, <1>4, AddSound, RemoveSound DEF Api

(* The invariant of the theorems below. *)
ProbeInv == TwinInv /\ DataInv /\ SoundInv

LEMMA ServiceSound ==
  ASSUME ProbeInv, Service
  PROVE  DataInv' /\ SoundInv'
<1>1. BaseInv /\ DataInv /\ SoundInv /\ (current.type \in {"RX", "EVENT"} => current.pcb \in Pcbs)
  BY CurrentNamed DEF ProbeInv, TwinInv, BaseInv
<1>2. CASE ServiceReceives /\ UNCHANGED <<tx, cursor, host, pcbVars, serverVars, boundVars>>
  BY <1>1, <1>2 DEF pcbVars, serverVars, DataInv, SoundInv, ListOf
<1>3. CASE Sends /\ UNCHANGED <<serverVars, boundVars>>
  BY <1>1, <1>3, SendsSound DEF serverVars
<1>4. CASE HostNameSet
  BY <1>1, <1>4, NewHostNameSound DEF HostNameSet
<1>5. CASE InstanceNameSet
  BY <1>1, <1>5, NewInstanceNameSound DEF InstanceNameSet
<1>6. CASE mdns_priv_pcb_enable
  BY <1>1, <1>6, EnableSound
<1>7. CASE mdns_priv_pcb_disable
  BY <1>1, <1>7, DisableSound
<1>8. CASE AnnounceEvent
  <2>1. PICK C, S, ip : C = {current.pcb} /\ S = {} /\ ip = TRUE
    OBVIOUS
  <2>2. current.pcb \in Pcbs
    BY <1>1, <1>8 DEF AnnounceEvent, Executes
  <2>3. /\ C \in SUBSET Pcbs /\ S \in SUBSET Services /\ ip \in BOOLEAN /\ ip /\ S \subseteq services
        /\ Announces(C, S, ip, tx, pcb) /\ UNCHANGED <<host, services, asked>>
    BY <1>8, <2>1, <2>2 DEF AnnounceEvent, serverVars
  <2> QED
    BY <1>1, <2>3, AnnouncesAgainSound
<1>9. CASE Parsed
  BY <1>1, <1>9, ParsedSound, DuplicateSound
<1> QED
  BY <1>2, <1>3, <1>4, <1>5, <1>6, <1>7, <1>8, <1>9 DEF Service

LEMMA ProbeStep == ProbeInv /\ [Next]_vars => ProbeInv'
<1> SUFFICES ASSUME ProbeInv, [Next]_vars PROVE DataInv' /\ SoundInv'
  BY TwinStep DEF ProbeInv
<1>1. BaseInv /\ DataInv /\ SoundInv
  BY DEF ProbeInv, TwinInv
<1>2. CASE Service
  BY <1>2, ServiceSound
<1>3. CASE Timer
  BY <1>1, <1>3, TimerSound
<1>4. CASE Api
  BY <1>1, <1>4, ApiSound
<1>5. CASE EventArrives \/ PacketArrives \/ UNCHANGED vars
  BY <1>1, <1>5 DEF EventArrives, PacketArrives, vars, pcbVars, serverVars, DataInv, SoundInv, ListOf
<1> QED
  BY <1>2, <1>3, <1>4, <1>5 DEF Next

LEMMA ProbeInit == Init \/ InitServed => ProbeInv
<1> SUFFICES ASSUME Init \/ InitServed PROVE DataInv /\ SoundInv
  BY TwinInit DEF ProbeInv
<1>1. /\ tx = <<>> /\ spoilt = {} /\ host \in BOOLEAN
      /\ dropped = [c \in Pcbs |-> {}]
      /\ services # {} => host
  BY DEF Init, InitServed
<1>2. \E n \in 0..3 : /\ asked = [c \in Pcbs |-> [s \in Services |-> n]]
                      /\ services = {} \/ n = 3
  BY DEF Init, InitServed
<1>3. asked \in [Pcbs -> [Services -> 0..3]] /\ \A c \in Pcbs, s \in Services : services = {} \/ asked[c][s] = 3
  BY <1>2
<1>4. ListOf(tx) /\ \A c : Of(tx, c) = {}
  BY <1>1 DEF ListOf, Of
<1>5. DataInv
  BY <1>1, <1>3, <1>4 DEF DataInv
<1>6. services \subseteq Services
  BY DEF Init, InitServed
<1>7. ASSUME NEW c \in Pcbs
      PROVE  Sound(tx, c, pcb[c], asked[c], dropped[c], services, host)
  <2>1. /\ pcb[c].ready <=> pcb[c].state = "RUNNING"
        /\ pcb[c].state \in {"OFF", "RUNNING"} /\ ~pcb[c].running /\ pcb[c].services = {}
    <3> DEFINE on == [Off EXCEPT !.state = "RUNNING", !.ready = TRUE]
    <3>1. /\ on.state = "RUNNING" /\ on.ready /\ ~on.running /\ on.services = {}
          /\ Off.state = "OFF" /\ ~Off.ready /\ ~Off.running /\ Off.services = {}
      BY DEF Off
    <3>2. pcb[c] = on \/ pcb[c] = Off
      BY DEF Init, InitServed
    <3> HIDE DEF on
    <3> QED
      BY <3>1, <3>2
  <2> QED
    BY <1>3, <1>4, <1>6, <2>1 DEF Sound, Probes, Plain, Known
<1> QED
  BY <1>1, <1>5, <1>7 DEF SoundInv

LEMMA ProbeInvImplies == ProbeInv => ProbeOnItsWay /\ PointersAlive /\ AskedBeforeServed
<1> SUFFICES ASSUME ProbeInv PROVE ProbeOnItsWay /\ PointersAlive /\ AskedBeforeServed
  OBVIOUS
<1>1. \A c \in Pcbs \ spoilt : Sound(tx, c, pcb[c], asked[c], dropped[c], services, host)
  BY DEF ProbeInv, SoundInv
<1>2. services \subseteq Services /\ "freed" \notin Services /\ \A c \in Pcbs : Probing(c) <=> Probes(pcb[c])
  BY ResponderAssumption DEF ProbeInv, TwinInv, BaseInv, Probing, Probes
<1>3. ProbeOnItsWay
  BY <1>1, <1>2 DEF ProbeOnItsWay, Sound, Alone, Plain, Carries
<1>4. PointersAlive
  <2>1. ASSUME NEW i \in 1..Len(tx), tx[i].pcb \notin spoilt
        PROVE  tx[i].answers \subseteq services \cup {"self"} /\ <<"freed", "instance">> \notin tx[i].questions
    <3>1. PICK c : c = tx[i].pcb /\ c \in Pcbs /\ i \in Of(tx, c)
      <4>1. PICK I : tx \in Seq(PacketOf(I))
        BY DEF ProbeInv, DataInv, ListOf
      <4>2. tx[i] \in PacketOf(I)
        BY <4>1
      <4> QED
        BY <4>2 DEF PacketOf, Of
    <3>2. Sound(tx, c, pcb[c], asked[c], dropped[c], services, host)
      BY <1>1, <2>1, <3>1
    <3>3. "freed" \in Strings /\ "freed" \notin pcb[c].services
      BY <1>2, <3>2 DEF Strings, Sound
    <3> QED
      BY <3>1, <3>2, <3>3 DEF Sound, Alone, Plain, Carries
  <2>2. \A c \in Pcbs \ spoilt : pcb[c].services \subseteq services
    BY <1>1 DEF Sound
  <2> QED
    BY <2>1, <2>2 DEF PointersAlive
<1>5. AskedBeforeServed
  <2> SUFFICES ASSUME NEW c \in Pcbs, c \notin spoilt, NEW s \in services, Announcing(c) \/ pcb[c].state = "RUNNING"
               PROVE  asked[c][s] = 3 \/ s \in dropped[c]
    BY DEF AskedBeforeServed
  <2>1. Sound(tx, c, pcb[c], asked[c], dropped[c], services, host) /\ ~Probes(pcb[c])
    BY <1>1 DEF Announcing, Probes
  <2>2. pcb[c].services = {} /\ Known(pcb[c], asked[c], dropped[c], services)
    BY <2>1 DEF Sound
  <2> QED
    BY <2>2 DEF Known, Announcing
<1> QED
  BY <1>3, <1>4, <1>5

(* The packet that carries a probe is on its way: a PCB that is probing has *)
(* its probe in the list and nothing else, and no other PCB has one, after  *)
(* any calls, conflicts, renamings, events and failed allocations, for any  *)
(* number of PCBs and services.  (A PCB that lost a packet to a failed      *)
(* allocation is left out, and so is one where the removal of a service     *)
(* took out the question for another one of its type.)                      *)
THEOREM ProbesOnTheirWay ==
  (Spec => []ProbeOnItsWay) /\ (ServedSpec => []ProbeOnItsWay)
<1>1. ProbeInv => ProbeOnItsWay
  BY ProbeInvImplies
<1>2. ProbeInv /\ [Next]_vars => ProbeInv'
  BY ProbeStep
<1> QED
  BY <1>1, <1>2, ProbeInit, PTL DEF Spec, ServedSpec

(* No renaming and no removal leaves a dangling pointer behind: what a      *)
(* scheduled packet answers with, and what it asks an instance name for, is *)
(* there when the packet is written, and no PCB probes for a service that   *)
(* is gone, on the PCBs that ProbeOnItsWay is about.                        *)
THEOREM PointersStayAlive ==
  (Spec => []PointersAlive) /\ (ServedSpec => []PointersAlive)
<1>1. ProbeInv => PointersAlive
  BY ProbeInvImplies
<1>2. ProbeInv /\ [Next]_vars => ProbeInv'
  BY ProbeStep
<1> QED
  BY <1>1, <1>2, ProbeInit, PTL DEF Spec, ServedSpec

(* A PCB announces and serves a service only when its present name has been *)
(* asked for three times there, or the probe for it was abandoned: through  *)
(* all the probes that are merged, cleared and begun again.  (The PCBs that *)
(* ProbeOnItsWay leaves out are left out here too.)                         *)
THEOREM NamesAskedBeforeServed ==
  (Spec => []AskedBeforeServed) /\ (ServedSpec => []AskedBeforeServed)
<1>1. ProbeInv => AskedBeforeServed
  BY ProbeInvImplies
<1>2. ProbeInv /\ [Next]_vars => ProbeInv'
  BY ProbeStep
<1> QED
  BY <1>1, <1>2, ProbeInit, PTL DEF Spec, ServedSpec

-----------------------------------------------------------------------------
(* The types of the responder's state.  They hold as long as there is       *)
(* memory for packets; an allocation may still fail.                        *)

Plenty == Packets \subseteq Nat /\ ~IsFiniteSet(Packets)

(* A set of numbers that is not empty has a least element. *)
LEMMA LeastExists ==
  ASSUME NEW M \in SUBSET Nat, M # {}
  PROVE  \E i \in M : \A j \in M : i <= j
<1> DEFINE L == {p \in Nat \X Nat : p[1] < p[2]}
<1>1. IsWellFoundedOn(L, Nat)
  <2>1. OpToRel(<, Nat) = L
    BY DEF OpToRel
  <2> QED
    BY <2>1, NatLessThanWellFounded
<1>2. PICK i \in M : \A j \in M : <<j, i>> \notin L
  <2> HIDE DEF L
  <2> QED
    BY <1>1, WFMin
<1>3. ASSUME NEW j \in M PROVE i <= j
  <2>1. i \in Nat /\ j \in Nat /\ <<j, i>> \notin L
    BY <1>2
  <2>2. <<j, i>> \in Nat \X Nat /\ <<j, i>>[1] = j /\ <<j, i>>[2] = i
    BY <2>1
  <2> QED
    BY <2>1, <2>2
<1> QED
  BY <1>3

(* The first n numbers of a set that has no end. *)
FirstOf(F, n, T) ==
  /\ T \subseteq F /\ IsFiniteSet(T) /\ Cardinality(T) = n
  /\ \A t \in T, i \in F : i < t => i \in T

LEMMA FirstExist ==
  ASSUME NEW F \in SUBSET Nat, ~IsFiniteSet(F), NEW n \in Nat
  PROVE  \E T : FirstOf(F, n, T)
<1> DEFINE K == {k \in Nat : ~\E T : FirstOf(F, k, T)}
<1> SUFFICES ASSUME K # {} PROVE FALSE
  OBVIOUS
<1>1. PICK k \in K : \A j \in K : k <= j
  <2>1. K \in SUBSET Nat
    OBVIOUS
  <2> HIDE DEF K
  <2> QED
    BY <2>1, LeastExists
<1>2. k # 0
  <2>1. FirstOf(F, 0, {})
    BY FS_EmptySet DEF FirstOf
  <2> QED
    BY <2>1
<1>3. PICK T : FirstOf(F, k - 1, T)
  <2>1. k - 1 \in Nat /\ k - 1 \notin K
    BY <1>1, <1>2
  <2> QED
    BY <2>1
<1>4. F \ T # {}
  <2>1. F \ T = {} => F = T
    BY <1>3 DEF FirstOf
  <2> QED
    BY <1>3, <2>1 DEF FirstOf
<1>5. PICK m \in F \ T : \A j \in F \ T : m <= j
  <2>1. F \ T \in SUBSET Nat
    OBVIOUS
  <2> QED
    BY <1>4, <2>1, LeastExists
<1>6. IsFiniteSet(T \cup {m}) /\ Cardinality(T \cup {m}) = k
  <2>1. IsFiniteSet(T) /\ Cardinality(T) = k - 1 /\ m \notin T
    BY <1>3, <1>5 DEF FirstOf
  <2>2. IsFiniteSet(T \cup {m}) /\ Cardinality(T \cup {m}) = Cardinality(T) + 1
    BY <2>1, FS_AddElement
  <2>3. k \in Nat
    OBVIOUS
  <2> QED
    BY <2>1, <2>2, <2>3
<1>7. \A t \in T \cup {m}, i \in F : i < t => i \in T \cup {m}
  <2>1. ASSUME NEW i \in F, i < m PROVE i \in T
    <3>1. m \in Nat /\ i \in Nat
      BY <1>5
    <3> QED
      BY <1>5, <2>1, <3>1
  <2> QED
    BY <1>3, <2>1 DEF FirstOf
<1>8. FirstOf(F, k, T \cup {m})
  BY <1>3, <1>5, <1>6, <1>7 DEF FirstOf
<1> QED
  BY <1>8

(* The packets of a list take finitely many blocks. *)
LEMMA IdsFinite ==
  ASSUME NEW q, ListOf(q)
  PROVE  IsFiniteSet(Ids(q))
<1>1. PICK I : q \in Seq(PacketOf(I))
  BY DEF ListOf
<1> DEFINE f == [i \in 1..Len(q) |-> q[i].id]
<1>2. f \in Surjection(1..Len(q), Ids(q))
  BY DEF Surjection, Ids
<1>3. IsFiniteSet(1..Len(q))
  BY <1>1, FS_Interval
<1> HIDE DEF f
<1> QED
  BY <1>2, <1>3, FS_Surjection

(* The blocks of new packets are free, and differ. *)
LEMMA NewIdsFree ==
  ASSUME Plenty, NEW q, ListOf(q), NEW C \in SUBSET Pcbs
  PROVE  /\ NewIds(q, C) \in [C -> Packets \ Ids(q)]
         /\ \A a, b \in C : a # b => NewIds(q, C)[a] # NewIds(q, C)[b]
<1> DEFINE F == Packets \ Ids(q)
           Fresh(f) == /\ \A a, b \in C : a # b => f[a] # f[b]
                       /\ \A c \in C, i \in F : i < f[c] => \E d \in C : f[d] = i
<1>1. F \in SUBSET Nat /\ ~IsFiniteSet(F)
  <2>1. F \in SUBSET Nat
    BY DEF Plenty
  <2>2. IsFiniteSet(F) => IsFiniteSet(F \cup Ids(q))
    BY IdsFinite, FS_Union
  <2>3. Packets \in SUBSET (F \cup Ids(q))
    OBVIOUS
  <2> HIDE DEF F
  <2> QED
    BY <2>1, <2>2, <2>3, FS_Subset DEF Plenty
<1>2. IsFiniteSet(C) /\ Cardinality(C) \in Nat
  BY ResponderAssumption, FS_Subset, FS_CardinalityType
<1>3. PICK T : FirstOf(F, Cardinality(C), T)
  <2> HIDE DEF F
  <2> QED
    BY <1>1, <1>2, FirstExist
<1>4. PICK f : f \in Bijection(C, T)
  <2>1. IsFiniteSet(T) /\ Cardinality(C) = Cardinality(T)
    BY <1>3 DEF FirstOf
  <2> QED
    BY <1>2, <2>1, FS_SameCardinalityBij DEF ExistsBijection
<1>5. f \in [C -> F] /\ Fresh(f)
  <2>1. f \in [C -> T] /\ (\A a, b \in C : f[a] = f[b] => a = b) /\ \A t \in T : \E c \in C : f[c] = t
    BY <1>4 DEF Bijection, Injection, Surjection, IsInjective
  <2>2. T \subseteq F /\ \A t \in T, i \in F : i < t => i \in T
    BY <1>3 DEF FirstOf
  <2> HIDE DEF F
  <2> QED
    BY <2>1, <2>2
<1>6. NewIds(q, C) = CHOOSE g \in [C -> F] : Fresh(g)
  BY DEF NewIds
<1>7. NewIds(q, C) \in [C -> F] /\ Fresh(NewIds(q, C))
  <2> HIDE DEF F, Fresh
  <2> QED
    BY <1>5, <1>6
<1> QED
  BY <1>7

-----------------------------------------------------------------------------
(* The list in its order: every packet has a block of its own, those that   *)
(* are due come first, and what has been posted is due.                     *)

Ordered(q) ==
  /\ ListOf(q) /\ Ids(q) \subseteq Packets
  /\ \A i, j \in 1..Len(q) : i < j => q[i].id # q[j].id /\ (q[j].due => q[i].due)
  /\ \A i \in 1..Len(q) : q[i].queued => q[i].due

(* The packets of r are those at some places of q, in their order, b. *)
Follows(q, r, b) ==
  /\ b \in [1..Len(r) -> 1..Len(q)]
  /\ \A n \in 1..Len(r) : r[n].id = q[b[n]].id /\ r[n].due = q[b[n]].due /\ r[n].queued = q[b[n]].queued
  /\ \A m, n \in 1..Len(r) : m < n => b[m] < b[n]

LEMMA OrderFollows ==
  ASSUME NEW q, Ordered(q), NEW r, ListOf(r), NEW b, Follows(q, r, b)
  PROVE  Ordered(r) /\ Ids(r) \subseteq Ids(q)
<1>1. \A n \in 1..Len(r) : b[n] \in 1..Len(q) /\ r[n].id = q[b[n]].id
  BY DEF Follows
<1>2. Ids(r) \subseteq Ids(q)
  BY <1>1 DEF Ids
<1>3. ASSUME NEW m \in 1..Len(r), NEW n \in 1..Len(r), m < n
      PROVE  r[m].id # r[n].id /\ (r[n].due => r[m].due)
  BY <1>1, <1>3 DEF Follows, Ordered
<1>4. \A n \in 1..Len(r) : r[n].queued => r[n].due
  BY <1>1 DEF Follows, Ordered
<1> QED
  BY <1>2, <1>3, <1>4 DEF Ordered

(* Places that are kept. *)
LEMMA OrderAt ==
  ASSUME NEW q, Ordered(q), NEW I \in SUBSET (1..Len(q))
  PROVE  Ordered(At(q, I)) /\ Ids(At(q, I)) \subseteq Ids(q)
<1> DEFINE N == Cardinality(I)
           b == [n \in 1..N |-> CHOOSE i \in I : Rank(I, i) = n]
<1>1. PICK J : q \in Seq(PacketOf(J))
  BY DEF Ordered, ListOf
<1>2. Len(q) \in Nat /\ \A i \in I : i \in Nat
  BY <1>1
<1>3. N \in Nat /\ (\A i, j \in I : i < j => Rank(I, i) < Rank(I, j))
      /\ \A m \in 1..N : \E i \in I : Rank(I, i) = m
  BY <1>2, Ranks
<1>4. \A n \in 1..N : b[n] \in I /\ Rank(I, b[n]) = n
  BY <1>3
<1>5. At(q, I) = [n \in 1..N |-> q[b[n]]]
  BY DEF At
<1>6. ListOf(At(q, I))
  <2>1. PICK S : S = PacketOf(J)
    OBVIOUS
  <2>2. At(q, I) \in Seq(S)
    BY <1>1, <2>1, AtPlaces
  <2> QED
    BY <2>1, <2>2 DEF ListOf
<1>7. DOMAIN b = 1..N
  OBVIOUS
<1> HIDE DEF b, N
<1>8. PICK r : r = At(q, I)
  OBVIOUS
<1>9. Len(r) = N /\ \A n \in 1..N : r[n] = q[b[n]]
  BY <1>3, <1>5, <1>8
<1>10. ASSUME NEW m \in 1..N, NEW n \in 1..N, m < n PROVE b[m] < b[n]
  <2>1. b[m] \in I /\ b[n] \in I /\ b[m] \in Nat /\ b[n] \in Nat /\ Rank(I, b[m]) < Rank(I, b[n])
    BY <1>2, <1>4, <1>10
  <2>2. m \in Nat /\ n \in Nat
    BY <1>3
  <2>3. ~(b[n] < b[m]) /\ b[m] # b[n]
    BY <1>3, <1>4, <1>10, <2>1, <2>2
  <2> QED
    BY <2>1, <2>3
<1>11. \A n \in 1..N : b[n] \in 1..Len(q)
  BY <1>4
<1>12. PICK f : f = [n \in 1..N |-> b[n]]
  OBVIOUS
<1>13. Follows(q, r, f)
  BY <1>9, <1>10, <1>11, <1>12 DEF Follows
<1> QED
  BY <1>6, <1>8, <1>13, OrderFollows

LEMMA OrderCleared ==
  ASSUME NEW q, Ordered(q), NEW C
  PROVE  Ordered(Cleared(q, C))
<1>1. PICK I : I = {i \in 1..Len(q) : q[i].pcb \notin C}
  OBVIOUS
<1>2. I \in SUBSET (1..Len(q)) /\ Cleared(q, C) = At(q, I)
  BY <1>1 DEF Cleared
<1> QED
  BY <1>2, OrderAt

LEMMA OrderTail ==
  ASSUME NEW q, Ordered(q), q # <<>>
  PROVE  /\ Ordered(Tail(q)) /\ Ids(Tail(q)) \subseteq Ids(q)
         /\ Head(q).id \in Packets \ Ids(Tail(q))
<1>1. PICK I : q \in Seq(PacketOf(I))
  BY DEF Ordered, ListOf
<1>2. PICK t, n : t = Tail(q) /\ n = Len(q)
  OBVIOUS
<1>3. /\ n \in Nat /\ n > 0 /\ Len(t) = n - 1
      /\ \A k \in 1..n-1 : t[k] = q[k+1]
      /\ Head(q) = q[1]
  BY <1>1, <1>2
<1>4. PICK b : b = [k \in 1..n-1 |-> k + 1]
  OBVIOUS
<1>5. Follows(q, t, b)
  BY <1>2, <1>3, <1>4 DEF Follows
<1>6. ListOf(t)
  BY <1>2, TailList DEF Ordered
<1>7. q[1].id \in Packets
  BY <1>2, <1>3 DEF Ordered, Ids
<1>8. \A k \in 1..n-1 : t[k].id # q[1].id
  BY <1>2, <1>3 DEF Ordered
<1>9. q[1].id \notin Ids(t)
  BY <1>3, <1>8 DEF Ids
<1> QED
  BY <1>2, <1>3, <1>5, <1>6, <1>7, <1>9, OrderFollows

(* Packets whose place, block and time stay. *)
InPlace(q, r) ==
  /\ Len(r) = Len(q)
  /\ \A i \in 1..Len(q) : r[i].id = q[i].id /\ r[i].due = q[i].due /\ r[i].queued = q[i].queued

LEMMA OrderInPlace ==
  ASSUME NEW q, Ordered(q), NEW r, ListOf(r), InPlace(q, r)
  PROVE  Ordered(r) /\ Ids(r) = Ids(q)
BY DEF Ordered, InPlace, Ids

(* New packets: with blocks of their own, and not yet due. *)
Unsent(q, new) ==
  /\ \A p \in new : p.id \in Packets \ Ids(q) /\ ~p.due /\ ~p.queued
  /\ \A p, o \in new : p.id = o.id => p = o

LEMMA OrderWoven ==
  ASSUME NEW q, Ordered(q), NEW new, NEW J, new \subseteq PacketOf(J), IsFiniteSet(new), Unsent(q, new),
         NEW r \in AllSentAfter(q, new)
  PROVE  Ordered(r)
<1> DEFINE N == Len(q) + Cardinality(new)
<1>0. PICK I : q \in Seq(PacketOf(I))
  BY DEF Ordered, ListOf
<1>1. N \in Nat /\ Len(q) \in Nat
  BY <1>0, FS_CardinalityType
<1>2. PICK K \in SUBSET (1..N) : \E f \in Bijection(1..N \ K, new) :
        /\ Cardinality(K) = Len(q)
        /\ \A i \in K, k \in 1..N \ K : k < i => ~q[Rank(K, i)].due
        /\ r = [k \in 1..N |-> IF k \in K THEN q[Rank(K, k)] ELSE f[k]]
  <2> DEFINE places == 1..N
             Old == {X \in SUBSET places : /\ Cardinality(X) = Len(q)
                                           /\ \A i \in X, k \in places \ X : k < i => ~q[Rank(X, i)].due}
             w(K, f) == [k \in places |-> IF k \in K THEN q[Rank(K, k)] ELSE f[k]]
             W(K) == {w(K, f) : f \in Bijection(places \ K, new)}
  <2>1. r \in UNION {W(K) : K \in Old}
    BY DEF AllSentAfter
  <2>2. PICK K \in Old : r \in W(K)
    <3> HIDE DEF W, Old
    <3> QED
      BY <2>1
  <2>3. /\ K \in SUBSET (1..N) /\ Cardinality(K) = Len(q)
        /\ \A i \in K, k \in 1..N \ K : k < i => ~q[Rank(K, i)].due
    BY <2>2
  <2>4. \E f \in Bijection(1..N \ K, new) : r = w(K, f)
    <3> HIDE DEF w
    <3> QED
      BY <2>2
  <2> QED
    BY <2>3, <2>4
<1>3. PICK f \in Bijection(1..N \ K, new) : r = [k \in 1..N |-> IF k \in K THEN q[Rank(K, k)] ELSE f[k]]
  BY <1>2
<1>4. /\ \A k \in 1..N \ K : f[k] \in new
      /\ \A k, l \in 1..N \ K : f[k] = f[l] => k = l
  BY DEF Bijection, Injection, IsInjective
<1>5. /\ \A k \in K : Rank(K, k) \in 1..Len(q)
      /\ \A k, l \in K : k < l => Rank(K, k) < Rank(K, l)
  BY <1>1, <1>2, Ranks
<1>6. /\ DOMAIN r = 1..N
      /\ \A k \in K : r[k] = q[Rank(K, k)]
      /\ \A k \in 1..N \ K : r[k] \in new /\ r[k] = f[k]
  BY <1>3, <1>4
<1>7. ListOf(r)
  BY ListWoven DEF Ordered
<1>8. Len(r) = N
  <2>1. PICK S : r \in Seq(S)
    BY <1>7 DEF ListOf
  <2> QED
    BY <1>1, <1>6, <2>1
<1>9. \A k \in 1..N : IF k \in K THEN r[k].id \in Ids(q) ELSE r[k].id \in Packets \ Ids(q) /\ ~r[k].due /\ ~r[k].queued
  BY <1>5, <1>6 DEF Ids, Unsent
<1>10. Ids(r) \subseteq Packets
  BY <1>8, <1>9 DEF Ids, Ordered
<1>11. ASSUME NEW k \in 1..N, NEW l \in 1..N, k < l
       PROVE  r[k].id # r[l].id /\ (r[l].due => r[k].due)
  <2>1. CASE k \in K /\ l \in K
    <3>1. PICK m, n : m = Rank(K, k) /\ n = Rank(K, l)
      OBVIOUS
    <3>2. m \in 1..Len(q) /\ n \in 1..Len(q) /\ m < n /\ r[k] = q[m] /\ r[l] = q[n]
      BY <1>5, <1>6, <1>11, <2>1, <3>1
    <3> QED
      BY <3>2 DEF Ordered
  <2>2. CASE k \notin K /\ l \in K
    BY <1>2, <1>6, <1>9, <1>11, <2>2
  <2>3. CASE k \in K /\ l \notin K
    BY <1>9, <2>3
  <2>4. CASE k \notin K /\ l \notin K
    <3>1. r[k] # r[l]
      <4>1. k # l
        BY <1>11
      <4> QED
        BY <1>4, <1>6, <2>4, <4>1
    <3> QED
      BY <1>6, <1>9, <2>4, <3>1 DEF Unsent
  <2> QED
    BY <2>1, <2>2, <2>3, <2>4
<1>12. \A k \in 1..N : r[k].queued => r[k].due
  BY <1>5, <1>6, <1>9 DEF Ordered
<1> QED
  BY <1>7, <1>8, <1>10, <1>11, <1>12 DEF Ordered

(* Freed strings, further and suppressed answers, and the services that are *)
(* taken out of packets leave these where they are.                         *)
LEMMA OrderFreed ==
  ASSUME NEW q, Ordered(q), NEW gone, NEW dead
  PROVE  Ordered(AfterFree(q, gone, dead))
<1>1. PICK I : q \in Seq(PacketOf(I))
  BY DEF Ordered, ListOf
<1>2. PICK t : t = AfterFree(q, gone, dead)
  OBVIOUS
<1>3. \A i \in 1..Len(q) : q[i] \in PacketOf(I)
  BY <1>1
<1> DEFINE e(i) == [q[i] EXCEPT
                      !.questions = (@ \ gone) \cup {<<"freed", x[2]>> : x \in @ \cap gone},
                      !.answers = (@ \ dead) \cup {"freed" : s \in @ \cap dead}]
<1>4. ASSUME NEW i \in 1..Len(q)
      PROVE  e(i).id = q[i].id /\ e(i).due = q[i].due /\ e(i).queued = q[i].queued
  <2>1. PICK asks, says : /\ asks = (q[i].questions \ gone) \cup {<<"freed", x[2]>> : x \in q[i].questions \cap gone}
                          /\ says = (q[i].answers \ dead) \cup {"freed" : s \in q[i].answers \cap dead}
    OBVIOUS
  <2>2. e(i) = [q[i] EXCEPT !.questions = asks, !.answers = says]
    BY <2>1
  <2> HIDE DEF e
  <2> QED
    BY <1>3, <2>2 DEF PacketOf
<1>5. t = [i \in 1..Len(q) |-> e(i)]
  BY <1>2 DEF AfterFree
<1> HIDE DEF e
<1>6. InPlace(q, t)
  <2>1. Len(q) \in Nat
    BY <1>1
  <2> QED
    BY <1>4, <1>5, <2>1 DEF InPlace
<1>7. ListOf(t)
  BY <1>2, FreedList DEF Ordered
<1> QED
  BY <1>2, <1>6, <1>7, OrderInPlace

LEMMA OrderAnswered ==
  ASSUME NEW q, Ordered(q), NEW C, NEW S \in SUBSET (Services \cup {"self"})
  PROVE  Ordered(AnsweredToo(q, C, S)) /\ Ids(AnsweredToo(q, C, S)) = Ids(q)
<1>1. PICK I : q \in Seq(PacketOf(I))
  BY DEF Ordered, ListOf
<1>2. PICK t : t = AnsweredToo(q, C, S)
  OBVIOUS
<1>3. \A i \in 1..Len(q) : q[i] \in PacketOf(I)
  BY <1>1
<1>4. Len(t) = Len(q) /\ \A i \in 1..Len(q) : t[i].id = q[i].id /\ t[i].due = q[i].due /\ t[i].queued = q[i].queued
  BY <1>1, <1>2, <1>3 DEF AnsweredToo, PacketOf
<1>5. ListOf(t)
  BY <1>2, AnsweredList DEF Ordered
<1> QED
  BY <1>2, <1>4, <1>5, OrderInPlace DEF InPlace

LEMMA OrderSuppressed ==
  ASSUME NEW q, Ordered(q), NEW c, NEW x
  PROVE  Ordered(Suppressed(q, c, x))
<1>1. PICK I : q \in Seq(PacketOf(I))
  BY DEF Ordered, ListOf
<1>2. PICK t : t = Suppressed(q, c, x)
  OBVIOUS
<1>3. \A i \in 1..Len(q) : q[i] \in PacketOf(I)
  BY <1>1
<1>4. Len(t) = Len(q) /\ \A i \in 1..Len(q) : t[i].id = q[i].id /\ t[i].due = q[i].due /\ t[i].queued = q[i].queued
  BY <1>1, <1>2, <1>3 DEF Suppressed, PacketOf
<1>5. ListOf(t)
  BY <1>2, SuppressedList DEF Ordered
<1> QED
  BY <1>2, <1>4, <1>5, OrderInPlace DEF InPlace

LEMMA OrderUnscheduled ==
  ASSUME Ordered(tx), NEW s, NEW t
  PROVE  Ordered(Unscheduled(s, t))
<1>1. PICK I : tx \in Seq(PacketOf(I))
  BY DEF Ordered, ListOf
<1> DEFINE b(i) == tx[i].pcb \in Searched(s) /\ Probing(tx[i].pcb) /\ s \in pcb[tx[i].pcb].services
           e(i) == IF b(i)
                   THEN [tx[i] EXCEPT !.answers = @ \ {s}, !.questions = @ \ {<<t[tx[i].pcb], "instance">>}]
                   ELSE [tx[i] EXCEPT !.answers = @ \ {s}]
<1>2. ASSUME NEW i \in 1..Len(tx)
      PROVE  e(i) \in PacketOf(I) /\ e(i).id = tx[i].id /\ e(i).due = tx[i].due /\ e(i).queued = tx[i].queued
  <2>1. tx[i] \in PacketOf(I)
    BY <1>1
  <2> HIDE DEF b
  <2> QED
    BY <2>1 DEF PacketOf
<1>3. PICK u : u = Unscheduled(s, t)
  OBVIOUS
<1>4. u = [i \in 1..Len(tx) |-> e(i)]
  BY <1>3, Zenon DEF Unscheduled
<1> HIDE DEF e
<1>5. PICK S : S = PacketOf(I)
  OBVIOUS
<1>6. Len(tx) \in Nat /\ u \in [1..Len(tx) -> S]
  BY <1>1, <1>2, <1>4, <1>5
<1>7. u \in Seq(S) /\ Len(u) = Len(tx)
  BY <1>6, FunctionSeq
<1>8. ListOf(u)
  BY <1>5, <1>7 DEF ListOf
<1>9. InPlace(tx, u)
  BY <1>2, <1>4, <1>7 DEF InPlace
<1> QED
  BY <1>3, <1>8, <1>9, OrderInPlace

LEMMA OrderEmpty == Ordered(<<>>)
BY DEF Ordered, ListOf, Ids

-----------------------------------------------------------------------------
(* Each function leaves the list in its order, and the other variables of   *)
(* the PCBs with their types.                                               *)

InOrder ==
  /\ Ordered(tx')
  /\ dropped' \in [Pcbs -> SUBSET Services]
  /\ spoilt' \in SUBSET Pcbs

LEMMA OrderRests ==
  ASSUME Ordered(tx), DataInv, UNCHANGED <<tx, dropped, spoilt>>
  PROVE  InOrder
BY DEF InOrder, DataInv

LEMMA OrderProbes ==
  ASSUME Plenty, NEW C \in SUBSET Pcbs, NEW S \in SUBSET Services, NEW ip, ip \in BOOLEAN, NEW clear,
         NEW q, Ordered(q), NEW r \in [Pcbs -> PcbRecord], NEW lost \in SUBSET Pcbs, BaseInv, DataInv,
         ProbesBegin(C, S, ip, clear, q, r, lost)
  PROVE  InOrder
<1>1. CASE ~host'
  BY <1>1, OrderCleared DEF ProbesBegin, InOrder, DataInv
<1>2. CASE host'
  <2>1. dropped' \in [Pcbs -> SUBSET Services] /\ spoilt' \in SUBSET Pcbs
    <3>1. Began(C, S, ip, clear, q, r, lost)
      BY <1>2, ProbesTo DEF Ordered
    <3> QED
      BY <3>1 DEF Began
  <2>2. PICK no_packet \in SUBSET C, no_list \in SUBSET C :
          ProbesBeginBut(no_packet, no_list, C, S, ip, clear, q, r, lost)
    BY <1>2 DEF ProbesBegin
  <2> DEFINE some == C \ (no_packet \cup no_list)
             T(c) == Merged(c, S, clear)
             ipOf(c) == ip \/ r[c].ip
  <2>3. PICK u, id : u = Cleared(q, C) /\ id = NewIds(u, some)
    OBVIOUS
  <2> DEFINE p == [c \in some |-> Probe(c, id[c], T(c), ipOf(c))]
             new == {p[c] : c \in some}
             J == {id[c] : c \in some}
  <2>4. tx' \in AllSentAfter(u, new)
    <3>1. tx' \in AllSentAfter(u, {Probe(c, id[c], T(c), ipOf(c)) : c \in some})
      BY <2>2, <2>3, Zenon DEF ProbesBeginBut
    <3>2. new = {Probe(c, id[c], T(c), ipOf(c)) : c \in some}
      OBVIOUS
    <3> QED
      BY <3>1, <3>2, Zenon
  <2>5. Ordered(u) /\ ListOf(u)
    BY <2>3, OrderCleared DEF Ordered
  <2>6. id \in [some -> Packets \ Ids(u)] /\ \A a, b \in some : a # b => id[a] # id[b]
    <3>1. some \in SUBSET Pcbs
      OBVIOUS
    <3> HIDE DEF some
    <3> QED
      BY <2>3, <2>5, <3>1, NewIdsFree
  <2>7. \A c \in some : p[c] \in PacketOf(J) /\ p[c].id = id[c] /\ ~p[c].due /\ ~p[c].queued
    <3> TAKE c \in some
    <3>1. c \in Pcbs /\ id[c] \in J
      OBVIOUS
    <3>2. PICK i : i = id[c] /\ p[c] = Probe(c, i, T(c), ipOf(c))
      OBVIOUS
    <3>3. T(c) \in SUBSET (Services \cup {"freed"}) /\ ipOf(c) \in BOOLEAN
      BY <3>1 DEF Merged, PcbRecord, BaseInv
    <3>4. p[c] \in PacketOf(J)
      <4> HIDE DEF p, J, T, ipOf
      <4> QED
        BY <3>1, <3>2, <3>3, ProbeCarries
    <3>5. p[c].id = i /\ ~p[c].due /\ ~p[c].queued
      <4> HIDE DEF p, T, ipOf
      <4> QED
        BY <3>2 DEF Probe, Allocated
    <3> QED
      BY <3>2, <3>4, <3>5
  <2>8. IsFiniteSet(new)
    <3>1. DOMAIN p = some /\ some \in SUBSET Pcbs
      OBVIOUS
    <3> HIDE DEF p, some
    <3> QED
      BY <3>1, FinitePackets
  <2>9. new \subseteq PacketOf(J) /\ Unsent(u, new)
    <3> HIDE DEF p, J, some
    <3> QED
      BY <2>6, <2>7 DEF Unsent
  <2>10. Ordered(tx')
    <3>1. PICK t, N, I : t = tx' /\ N = new /\ I = J
      OBVIOUS
    <3> HIDE DEF new, J
    <3> QED
      BY <2>4, <2>5, <2>8, <2>9, <3>1, OrderWoven
  <2> QED
    BY <2>1, <2>10 DEF InOrder
<1> QED
  BY <1>1, <1>2

LEMMA OrderAnnounces ==
  ASSUME Plenty, NEW C \in SUBSET Pcbs, NEW S \in SUBSET Services, NEW ip, ip \in BOOLEAN,
         NEW q, Ordered(q), NEW r \in [Pcbs -> PcbRecord], BaseInv, DataInv, Announces(C, S, ip, q, r)
  PROVE  InOrder
<1> DEFINE probing == {c \in C : r[c].ready /\ Probing(c)}
           moving  == {c \in C : r[c].ready /\ Announcing(c) /\ Of(q, c) # {}}
           resting == {c \in C : r[c].ready /\ host /\ r[c].state = "RUNNING"}
           t == [c \in Pcbs |-> IF c \in moving \cup resting THEN [r[c] EXCEPT !.state = "ANNOUNCE_1"] ELSE r[c]]
           answered(short) == AnsweredToo(AnsweredToo(q, moving, Self(ip)), moving \ short, S)
           news(lost) == {Allocated(NewIds(q, resting \ lost)[c], c, "announce", {}, S, ip) : c \in resting \ lost}
<1>1. PICK lost \in SUBSET resting, short \in SUBSET moving :
        \E q1 \in AllSentAfter(answered(short), news(lost)) : ProbesBegin(probing, S, ip, FALSE, q1, t, lost)
  BY Zenon DEF Announces
<1> DEFINE q2 == answered(short)
<1>2. PICK q1 \in AllSentAfter(q2, news(lost)) : ProbesBegin(probing, S, ip, FALSE, q1, t, lost)
  BY <1>1
<1> DEFINE some == resting \ lost
           id == NewIds(q, some)
           p == [c \in some |-> Allocated(id[c], c, "announce", {}, S, ip)]
           new == {p[c] : c \in some}
           J == {id[c] : c \in some}
<1>3. q1 \in AllSentAfter(q2, new)
  <2>1. news(lost) = new
    OBVIOUS
  <2> QED
    BY <2>1
<1>4. id \in [some -> Packets \ Ids(q)] /\ \A a, b \in some : a # b => id[a] # id[b]
  <2>1. some \in SUBSET Pcbs /\ ListOf(q)
    BY DEF Ordered
  <2> HIDE DEF some
  <2> QED
    BY <2>1, NewIdsFree
<1>5. \A c \in some : p[c] \in PacketOf(J) /\ p[c].id = id[c] /\ ~p[c].due /\ ~p[c].queued
  <2> TAKE c \in some
  <2>1. c \in Pcbs /\ id[c] \in J
    OBVIOUS
  <2>2. PICK i : i = id[c] /\ p[c] = Allocated(i, c, "announce", {}, S, ip)
    OBVIOUS
  <2> HIDE DEF p, J, id
  <2> QED
    BY <2>1, <2>2 DEF Allocated, PacketOf, Kinds
<1>6. IsFiniteSet(new)
  <2>1. DOMAIN p = some /\ some \in SUBSET Pcbs
    OBVIOUS
  <2> HIDE DEF p, some
  <2> QED
    BY <2>1, FinitePackets
<1>7. Ordered(q2) /\ Ids(q2) = Ids(q)
  <2>1. PICK A, D, u : A = Self(ip) /\ D = moving \ short /\ u = AnsweredToo(q, moving, A)
    OBVIOUS
  <2>2. /\ A \in SUBSET (Services \cup {"self"}) /\ S \in SUBSET (Services \cup {"self"})
        /\ q2 = AnsweredToo(u, D, S)
    BY <2>1 DEF Self
  <2>3. Ordered(u) /\ Ids(u) = Ids(q)
    BY <2>1, <2>2, OrderAnswered
  <2> HIDE DEF moving, q2
  <2> QED
    BY <2>2, <2>3, OrderAnswered
<1>8. new \subseteq PacketOf(J) /\ Unsent(q2, new)
  <2> HIDE DEF p, J, some, id, q2
  <2> QED
    BY <1>4, <1>5, <1>7 DEF Unsent
<1>9. Ordered(q1)
  <2> HIDE DEF new, J, q2
  <2> QED
    BY <1>3, <1>6, <1>7, <1>8, OrderWoven
<1>10. t \in [Pcbs -> PcbRecord] /\ probing \in SUBSET Pcbs /\ lost \in SUBSET Pcbs
  BY DEF PcbRecord, PcbStates
<1>11. PICK Z, x, g : Z = probing /\ x = t /\ g = FALSE
  OBVIOUS
<1> HIDE DEF probing, t
<1> QED
  BY <1>2, <1>9, <1>10, <1>11, OrderProbes

(* One packet is sent after the others. *)
LEMMA OrderSent ==
  ASSUME NEW q, Ordered(q), NEW J, NEW p \in PacketOf(J), p.id \in Packets \ Ids(q), ~p.due, ~p.queued,
         NEW r \in SentAfter(q, p)
  PROVE  Ordered(r)
<1>1. PICK new : new = {p}
  OBVIOUS
<1>2. new \subseteq PacketOf(J) /\ IsFiniteSet(new) /\ r \in AllSentAfter(q, new) /\ Unsent(q, new)
  BY <1>1, FS_Singleton DEF SentAfter, Unsent
<1> QED
  BY <1>2, OrderWoven

LEMMA NewIdFree ==
  ASSUME Plenty, NEW q, ListOf(q), NEW c \in Pcbs
  PROVE  NewIds(q, {c})[c] \in Packets \ Ids(q)
<1>1. PICK C : C = {c}
  OBVIOUS
<1> QED
  BY <1>1, NewIdsFree

-----------------------------------------------------------------------------
(* And so does each handler and each call.                                  *)

Tidy == BaseInv /\ DataInv /\ Ordered(tx)

Typed == InOrder /\ asked' \in [Pcbs -> [Services -> 0..3]] /\ host' \in BOOLEAN

LEMMA TidyPcbs ==
  ASSUME Tidy
  PROVE  /\ pcb \in [Pcbs -> PcbRecord] /\ services \in SUBSET Services /\ Ready \in SUBSET Pcbs
         /\ asked \in [Pcbs -> [Services -> 0..3]] /\ host \in BOOLEAN
BY DEF Tidy, BaseInv, DataInv, Ready

LEMMA NewHostNameTyped ==
  ASSUME Plenty, Tidy, NewHostName
  PROVE  Typed
<1>1. PICK q, clear, ip, C, lost : q = <<>> /\ clear = TRUE /\ ip = TRUE /\ C = Ready /\ lost = {}
  OBVIOUS
<1>2. /\ Ordered(q) /\ C \in SUBSET Pcbs /\ ip \in BOOLEAN /\ lost \in SUBSET Pcbs
      /\ ProbesBegin(C, services, ip, clear, q, pcb, lost)
  BY <1>1, OrderEmpty, TidyPcbs DEF NewHostName
<1>3. InOrder
  BY <1>2, TidyPcbs, OrderProbes DEF Tidy
<1>4. host' = TRUE /\ \E R : Renamed(R)
  BY DEF NewHostName
<1> QED
  BY <1>3, <1>4, RenamedAsked DEF Typed, Tidy

(* Freed strings, and then probes on all the PCBs that are ready. *)
LEMMA FreedProbesTyped ==
  ASSUME Plenty, Tidy, NEW S \in SUBSET Services, NEW clear, NEW gone,
         ProbesBegin(Ready, S, FALSE, clear, AfterFree(tx, gone, {}), pcb, {})
  PROVE  InOrder
<1>1. PICK q, ip, C, lost : q = AfterFree(tx, gone, {}) /\ ip = FALSE /\ C = Ready /\ lost = {}
  OBVIOUS
<1>2. /\ Ordered(q) /\ C \in SUBSET Pcbs /\ ip \in BOOLEAN /\ lost \in SUBSET Pcbs
      /\ ProbesBegin(C, S, ip, clear, q, pcb, lost)
  BY <1>1, OrderFreed, TidyPcbs DEF Tidy
<1> QED
  BY <1>2, TidyPcbs, OrderProbes DEF Tidy

(* Probes with the list as it is. *)
LEMMA ProbesTyped ==
  ASSUME Plenty, Tidy, NEW C \in SUBSET Pcbs, NEW S \in SUBSET Services, NEW ip, ip \in BOOLEAN, NEW clear,
         ProbesBegin(C, S, ip, clear, tx, pcb, {})
  PROVE  InOrder
<1>1. PICK q, lost : q = tx /\ lost = {}
  OBVIOUS
<1>2. Ordered(q) /\ lost \in SUBSET Pcbs /\ ProbesBegin(C, S, ip, clear, q, pcb, lost)
  BY <1>1 DEF Tidy
<1> QED
  BY <1>2, TidyPcbs, OrderProbes DEF Tidy

LEMMA AnnouncesTyped ==
  ASSUME Plenty, Tidy, NEW C \in SUBSET Pcbs, NEW S \in SUBSET Services, NEW ip, ip \in BOOLEAN,
         Announces(C, S, ip, tx, pcb)
  PROVE  InOrder
<1>1. PICK q, r : q = tx /\ r = pcb
  OBVIOUS
<1>2. Ordered(q) /\ r \in [Pcbs -> PcbRecord] /\ Announces(C, S, ip, q, r)
  BY <1>1, TidyPcbs DEF Tidy
<1> QED
  BY <1>2, OrderAnnounces DEF Tidy

LEMMA NewInstanceNameTyped ==
  ASSUME Plenty, Tidy, NewInstanceName
  PROVE  Typed
<1>1. Defaults \in SUBSET Services
  BY TidyPcbs DEF Defaults
<1>2. asked' \in [Pcbs -> [Services -> 0..3]] /\ host' \in BOOLEAN
  BY RenamedAsked, TidyPcbs DEF NewInstanceName, Tidy
<1>3. CASE Defaults = {}
  BY <1>2, <1>3, OrderRests DEF NewInstanceName, Tidy, Typed
<1>4. CASE Defaults # {}
  <2>1. PICK gone : ProbesBegin(Ready, Defaults, FALSE, TRUE, AfterFree(tx, gone, {}), pcb, {})
    BY <1>4 DEF NewInstanceName
  <2> QED
    BY <1>1, <1>2, <2>1, FreedProbesTyped DEF Typed
<1> QED
  BY <1>3, <1>4

LEMMA AnsweredTyped ==
  ASSUME Plenty, Tidy, NEW x, x \in services \cup {"self"}, current.pcb \in Pcbs, QuestionAnswered(x)
  PROVE  InOrder
<1>1. PICK c \in Pcbs : c = current.pcb
  OBVIOUS
<1>2. PICK i, p : i = NewIds(tx, {c})[c] /\ p = Allocated(i, c, "answer", {}, {x}, FALSE)
  OBVIOUS
<1>3. tx' \in SentAfter(tx, p) /\ UNCHANGED <<dropped, spoilt>>
  BY <1>1, <1>2 DEF QuestionAnswered, pcbVars
<1>4. PICK q, t : q = tx /\ t = tx'
  OBVIOUS
<1>5. i \in Packets \ Ids(q)
  BY <1>2, <1>4, NewIdFree DEF Tidy, Ordered
<1>6. p \in PacketOf({i}) /\ p.id = i /\ ~p.due /\ ~p.queued
  BY <1>2, TidyPcbs DEF Allocated, PacketOf, Kinds
<1>7. Ordered(t)
  BY <1>3, <1>4, <1>5, <1>6, OrderSent DEF Tidy
<1> QED
  BY <1>3, <1>4, <1>7 DEF InOrder, Tidy, DataInv

LEMMA ParsedTyped ==
  ASSUME Plenty, Tidy, current.type = "RX" => current.pcb \in Pcbs, Parsed, ~DuplicateFound
  PROVE  Typed
<1>1. Parses => current.pcb \in Pcbs
  BY DEF Parses, Executes
<1>2. ASSUME InOrder, UNCHANGED <<asked, host>> PROVE Typed
  BY <1>2, TidyPcbs DEF Typed
<1>3. CASE PacketIgnored
  BY <1>2, <1>3, OrderRests DEF PacketIgnored, pcbVars, Tidy
<1>4. ASSUME NEW x \in services \cup {"self"}, QuestionAnswered(x) PROVE Typed
  BY <1>1, <1>2, <1>4, AnsweredTyped DEF QuestionAnswered, pcbVars
<1>5. ASSUME NEW x \in services \cup {"self"}, AnswerSuppressed(x) PROVE Typed
  <2>1. PICK c, q, t : c = current.pcb /\ q = tx /\ t = tx'
    OBVIOUS
  <2>2. t = Suppressed(q, c, x) /\ UNCHANGED <<asked, host, dropped, spoilt>>
    BY <1>5, <2>1 DEF AnswerSuppressed, pcbVars
  <2>3. Ordered(t)
    BY <2>1, <2>2, OrderSuppressed DEF Tidy
  <2> QED
    BY <1>2, <2>1, <2>2, <2>3 DEF InOrder, Tidy, DataInv
<1>6. CASE ConflictOfAddress
  <2>1. CASE NewHostName
    BY <2>1, NewHostNameTyped
  <2>2. CASE ~NewHostName
    <3>1. PICK C, S, ip, clear : C = {current.pcb} /\ S = {} /\ ip = TRUE /\ clear = FALSE
      OBVIOUS
    <3>2. /\ C \in SUBSET Pcbs /\ S \in SUBSET Services /\ ip \in BOOLEAN /\ UNCHANGED <<asked, host>>
          /\ ProbesBegin(C, S, ip, clear, tx, pcb, {})
      BY <1>1, <1>6, <2>2, <3>1 DEF ConflictOfAddress
    <3> QED
      BY <1>2, <3>2, ProbesTyped
  <2> QED
    BY <2>1, <2>2
<1>7. ASSUME NEW s \in services, ConflictOfService(s) PROVE Typed
  <2>1. CASE NewHostName \/ NewInstanceName
    BY <2>1, NewHostNameTyped, NewInstanceNameTyped
  <2>2. CASE Renamed({s}) /\ UNCHANGED <<host, serverVars>>
             /\ ProbesBegin(Ready, {s}, FALSE, FALSE, AfterFree(tx, {<<s, "instance">>}, {}), pcb, {})
    <3>1. PICK S, gone, clear : S = {s} /\ gone = {<<s, "instance">>} /\ clear = FALSE
      OBVIOUS
    <3>2. S \in SUBSET Services /\ ProbesBegin(Ready, S, FALSE, clear, AfterFree(tx, gone, {}), pcb, {})
      BY <2>2, <3>1, TidyPcbs
    <3>3. InOrder
      BY <3>2, FreedProbesTyped
    <3>4. asked' \in [Pcbs -> [Services -> 0..3]] /\ host' \in BOOLEAN
      BY <2>2, RenamedAsked, TidyPcbs DEF Tidy
    <3> QED
      BY <3>3, <3>4 DEF Typed
  <2>3. CASE UNCHANGED <<host, asked, serverVars>> /\ ProbesBegin({current.pcb}, {s}, FALSE, FALSE, tx, pcb, {})
    <3>1. PICK C, S, ip, clear : C = {current.pcb} /\ S = {s} /\ ip = FALSE /\ clear = FALSE
      OBVIOUS
    <3>2. current.pcb \in Pcbs /\ s \in Services
      BY <1>1, <1>7, TidyPcbs DEF ConflictOfService
    <3>3. /\ C \in SUBSET Pcbs /\ S \in SUBSET Services /\ ip \in BOOLEAN /\ UNCHANGED <<asked, host>>
          /\ ProbesBegin(C, S, ip, clear, tx, pcb, {})
      BY <2>3, <3>1, <3>2
    <3> QED
      BY <1>2, <3>3, ProbesTyped
  <2> QED
    BY <1>7, <2>1, <2>2, <2>3, Zenon DEF ConflictOfService
<1>8. ASSUME NEW s \in services, ConflictOfText(s) PROVE Typed
  <2>1. PICK C, S, ip, clear : C = {current.pcb} /\ S = {s} /\ ip = TRUE /\ clear = FALSE
    OBVIOUS
  <2>2. current.pcb \in Pcbs /\ s \in Services
    BY <1>1, <1>8, TidyPcbs DEF ConflictOfText
  <2>3. /\ C \in SUBSET Pcbs /\ S \in SUBSET Services /\ ip \in BOOLEAN /\ UNCHANGED <<asked, host>>
        /\ ProbesBegin(C, S, ip, clear, tx, pcb, {})
    BY <1>8, <2>1, <2>2 DEF ConflictOfText
  <2> QED
    BY <1>2, <2>3, ProbesTyped
<1> QED
  BY <1>3, <1>4, <1>5, <1>6, <1>7, <1>8 DEF Parsed

(* Interfaces. *)
LEMMA EnablesTyped ==
  ASSUME Plenty, Tidy, NEW c \in Pcbs, NEW q, Ordered(q), NEW r \in [Pcbs -> PcbRecord], Enables(c, q, r)
  PROVE  InOrder
<1>1. CASE pcb' = r /\ tx' = q /\ UNCHANGED <<dropped, spoilt, fails>>
  <2>1. PICK t : t = tx' /\ Ordered(t)
    BY <1>1
  <2> QED
    BY <1>1, <2>1 DEF InOrder, Tidy, DataInv
<1>2. CASE ProbesBegin({c}, services, TRUE, FALSE, q, [r EXCEPT ![c].ready = TRUE], {})
  <2>1. PICK C, ip, clear, t, lost : /\ C = {c} /\ ip = TRUE /\ clear = FALSE /\ lost = {}
                                     /\ t = [r EXCEPT ![c].ready = TRUE]
    OBVIOUS
  <2>2. /\ C \in SUBSET Pcbs /\ ip \in BOOLEAN /\ lost \in SUBSET Pcbs /\ t \in [Pcbs -> PcbRecord]
        /\ ProbesBegin(C, services, ip, clear, q, t, lost)
    BY <1>2, <2>1 DEF PcbRecord
  <2> QED
    BY <2>2, TidyPcbs, OrderProbes DEF Tidy
<1> QED
  BY <1>1, <1>2 DEF Enables

LEMMA EnableTyped ==
  ASSUME Plenty, Tidy, current.type = "EVENT" => current.pcb \in Pcbs, mdns_priv_pcb_enable
  PROVE  Typed
<1>1. PICK c \in Pcbs : c = current.pcb
  BY DEF mdns_priv_pcb_enable, Executes
<1>2. PICK q, r : q = tx /\ r = pcb
  OBVIOUS
<1>3. UNCHANGED <<host, asked>> /\ Enables(c, q, r) /\ Ordered(q) /\ r \in [Pcbs -> PcbRecord]
  BY <1>1, <1>2, TidyPcbs DEF mdns_priv_pcb_enable, Tidy
<1> QED
  BY <1>3, EnablesTyped, TidyPcbs DEF Typed

LEMMA DisableTyped ==
  ASSUME Plenty, Tidy, current.type = "EVENT" => current.pcb \in Pcbs, mdns_priv_pcb_disable
  PROVE  Typed
<1>1. PICK c \in Pcbs : c = current.pcb
  BY DEF mdns_priv_pcb_disable, Executes
<1>2. PICK d \in Pcbs : d = Twin[c]
  BY ResponderAssumption
<1>3. asked' = Forgotten(c) /\ host' = host
  BY <1>1 DEF mdns_priv_pcb_disable
<1>4. asked' \in [Pcbs -> [Services -> 0..3]] /\ host' \in BOOLEAN
  BY <1>3, ForgottenAsked, TidyPcbs DEF Tidy
<1>5. PICK q, u, r : q = Cleared(tx, {c}) /\ u = Deinited({c}) /\ r = [u EXCEPT ![d].state = "OFF"]
  OBVIOUS
<1>6. u \in [Pcbs -> PcbRecord] /\ Ordered(q)
  BY <1>5, DeinitedPcbs, TidyPcbs, OrderCleared DEF Tidy
<1>7. r \in [Pcbs -> PcbRecord]
  <2>1. "OFF" \in PcbStates
    BY DEF PcbStates
  <2> QED
    BY <1>5, <1>6, <2>1, StateExcept
<1>8. CASE UNCHANGED <<tx, dropped, spoilt, fails>>
  BY <1>4, <1>8, OrderRests DEF Tidy, Typed
<1>9. CASE tx' = q /\ UNCHANGED <<dropped, spoilt, fails>>
  <2>1. PICK t : t = tx' /\ Ordered(t)
    BY <1>6, <1>9
  <2> QED
    BY <1>4, <1>9, <2>1 DEF InOrder, Tidy, DataInv, Typed
<1>10. CASE Enables(d, q, r)
  BY <1>4, <1>6, <1>7, <1>10, EnablesTyped DEF Typed
<1>11. \/ UNCHANGED <<tx, dropped, spoilt, fails>>
       \/ Enables(Twin[c], Cleared(tx, {c}), [Deinited({c}) EXCEPT ![Twin[c]].state = "OFF"])
       \/ tx' = Cleared(tx, {c}) /\ UNCHANGED <<dropped, spoilt, fails>>
  BY <1>1, Zenon DEF mdns_priv_pcb_disable
<1> QED
  BY <1>2, <1>5, <1>8, <1>9, <1>10, <1>11

LEMMA DuplicateTyped ==
  ASSUME Plenty, Tidy, current.type = "RX" => current.pcb \in Pcbs, DuplicateFound
  PROVE  Typed
<1>1. PICK c \in Pcbs : c = current.pcb
  BY DEF DuplicateFound, Parses, Executes
<1>2. PICK d \in Pcbs : d = Twin[c]
  BY ResponderAssumption
<1>3. host' \in BOOLEAN
  BY TidyPcbs DEF DuplicateFound
<1>4. PICK C, S, ip : C = {d} /\ S = {} /\ ip = TRUE
  OBVIOUS
<1>5. C \in SUBSET Pcbs /\ S \in SUBSET Services /\ ip \in BOOLEAN
  BY <1>4
<1>6. CASE pcb[c].ready
  <2>1. PICK q, u, r : q = Cleared(tx, {c}) /\ u = Deinited({c}) /\ r = [u EXCEPT ![c].state = "DUP"]
    OBVIOUS
  <2>2. asked' = Forgotten(c) /\ Announces(C, S, ip, q, r)
    BY <1>1, <1>2, <1>4, <1>6, <2>1 DEF DuplicateFound
  <2>3. u \in [Pcbs -> PcbRecord] /\ Ordered(q)
    BY <2>1, DeinitedPcbs, TidyPcbs, OrderCleared DEF Tidy
  <2>4. r \in [Pcbs -> PcbRecord]
    <3>1. "DUP" \in PcbStates
      BY DEF PcbStates
    <3> QED
      BY <2>1, <2>3, <3>1, StateExcept
  <2>5. InOrder
    BY <1>5, <2>2, <2>3, <2>4, OrderAnnounces DEF Tidy
  <2>6. asked' \in [Pcbs -> [Services -> 0..3]]
    BY <2>2, ForgottenAsked DEF Tidy
  <2> QED
    BY <1>3, <2>5, <2>6 DEF Typed
<1>7. CASE ~pcb[c].ready
  <2>1. PICK q, r : q = tx /\ r = [pcb EXCEPT ![c].state = "DUP"]
    OBVIOUS
  <2>2. asked' = asked /\ Announces(C, S, ip, q, r)
    BY <1>1, <1>2, <1>4, <1>7, <2>1 DEF DuplicateFound
  <2>3. r \in [Pcbs -> PcbRecord] /\ Ordered(q)
    BY <2>1, TidyPcbs DEF PcbRecord, PcbStates, Tidy
  <2>4. InOrder
    BY <1>5, <2>2, <2>3, OrderAnnounces DEF Tidy
  <2> QED
    BY <1>3, <2>2, <2>4, TidyPcbs DEF Typed
<1> QED
  BY <1>6, <1>7

LEMMA RemoveTyped ==
  ASSUME Tidy, NEW s \in Services, mdns_service_remove(s)
  PROVE  Typed
<1>1. PICK t : RemovesScheduled(s, t)
  BY DEF mdns_service_remove
<1>2. host' \in BOOLEAN
  BY TidyPcbs DEF mdns_service_remove
<1>3. /\ dropped' = [c \in Pcbs |-> dropped[c] \ {s}]
      /\ asked' = [c \in Pcbs |-> [asked[c] EXCEPT ![s] = 0]]
      /\ spoilt' = spoilt \cup {c \in Searched(s) : Probing(c) /\ s \in pcb[c].services /\ t[c] # s}
  BY <1>1 DEF RemovesScheduled
<1>4. PICK u, I, v : u = Unscheduled(s, t) /\ I = {i \in 1..Len(u) : ~Empty(u[i])} /\ v = At(u, I)
  OBVIOUS
<1>5. Ordered(u)
  BY <1>4, OrderUnscheduled DEF Tidy
<1>6. Ordered(v)
  <2>1. I \in SUBSET (1..Len(u))
    BY <1>4
  <2> QED
    BY <1>4, <1>5, <2>1, OrderAt
<1>7. tx' = AfterFree(v, StringsOf(s), {s})
  BY <1>1, <1>4, Zenon DEF RemovesScheduled, StringsOf
<1>8. PICK q, gone, dead : q = tx' /\ gone = StringsOf(s) /\ dead = {s}
  OBVIOUS
<1>9. Ordered(q)
  BY <1>6, <1>7, <1>8, OrderFreed
<1>10. dropped' \in [Pcbs -> SUBSET Services] /\ asked' \in [Pcbs -> [Services -> 0..3]] /\ spoilt' \in SUBSET Pcbs
  BY <1>3 DEF Tidy, DataInv, Searched, Ready
<1> QED
  BY <1>2, <1>8, <1>9, <1>10 DEF Typed, InOrder

LEMMA ApiTyped ==
  ASSUME Plenty, Tidy, Api
  PROVE  Typed
<1>1. ASSUME InOrder, UNCHANGED <<asked, host>> PROVE Typed
  BY <1>1, TidyPcbs DEF Typed
<1>2. CASE mdns_hostname_set \/ mdns_instance_name_set
  BY <1>1, <1>2, OrderRests DEF mdns_hostname_set, mdns_instance_name_set, pcbVars, Tidy
<1>3. ASSUME NEW s \in Services, NEW named \in BOOLEAN, mdns_service_add(s, named) PROVE Typed
  <2>1. PICK C, S, ip, clear : C = Ready /\ S = {s} /\ ip = FALSE /\ clear = FALSE
    OBVIOUS
  <2>2. /\ C \in SUBSET Pcbs /\ S \in SUBSET Services /\ ip \in BOOLEAN /\ UNCHANGED <<asked, host>>
        /\ ProbesBegin(C, S, ip, clear, tx, pcb, {})
    BY <1>3, <2>1, TidyPcbs DEF mdns_service_add
  <2> QED
    BY <1>1, <2>2, ProbesTyped
<1>4. ASSUME NEW s \in Services, NEW ip \in BOOLEAN, mdns_service_change(s, ip) PROVE Typed
  <2>1. PICK C, S : C = Pcbs /\ S = {s}
    OBVIOUS
  <2>2. /\ C \in SUBSET Pcbs /\ S \in SUBSET Services /\ UNCHANGED <<asked, host>>
        /\ Announces(C, S, ip, tx, pcb)
    BY <1>4, <2>1 DEF mdns_service_change
  <2> QED
    BY <1>1, <2>2, AnnouncesTyped
<1>5. ASSUME NEW s \in Services, mdns_service_instance_name_set(s) PROVE Typed
  <2>1. PICK S, gone, clear : S = {s} /\ gone = (IF s \in own THEN {<<s, "instance">>} ELSE {}) /\ clear = FALSE
    OBVIOUS
  <2>2. /\ S \in SUBSET Services /\ Renamed(S) /\ host' = host
        /\ ProbesBegin(Ready, S, FALSE, clear, AfterFree(tx, gone, {}), pcb, {})
    BY <1>5, <2>1 DEF mdns_service_instance_name_set
  <2> QED
    BY <2>2, FreedProbesTyped, RenamedAsked, TidyPcbs DEF Typed, Tidy
<1> QED
  BY <1>2, <1>3, <1>4, <1>5, RemoveTyped DEF Api

(* The packet at the head, when it is sent. *)
LEMMA HeadInList ==
  ASSUME NEW q, ListOf(q), q # <<>>
  PROVE  \E I : Head(q) \in PacketOf(I)
<1>1. PICK I : q \in Seq(PacketOf(I))
  BY DEF ListOf
<1>2. PICK S : S = PacketOf(I)
  OBVIOUS
<1>3. Head(q) \in S
  BY <1>1, <1>2
<1> QED
  BY <1>2, <1>3

(* A packet is sent in place of the head. *)
LEMMA SentOnTyped ==
  ASSUME Tidy, tx # <<>>, NEW J, NEW p \in PacketOf(J), p.id \in Packets \ Ids(Tail(tx)), ~p.due, ~p.queued,
         tx' \in SentAfter(Tail(tx), p), UNCHANGED <<dropped, spoilt>>
  PROVE  InOrder
<1>1. PICK q, t : q = Tail(tx) /\ t = tx'
  OBVIOUS
<1>2. Ordered(q)
  BY <1>1, OrderTail DEF Tidy
<1>3. Ordered(t)
  BY <1>1, <1>2, OrderSent
<1> QED
  BY <1>1, <1>3 DEF InOrder, Tidy, DataInv

LEMMA SendsTyped ==
  ASSUME Plenty, Tidy, Sends
  PROVE  Typed
<1>1. CASE send_packet_skips /\ UNCHANGED <<host, pcbVars>>
  BY <1>1, OrderRests, TidyPcbs DEF send_packet_skips, pcbVars, Typed, Tidy
<1>2. CASE ~(send_packet_skips /\ UNCHANGED <<host, pcbVars>>)
  <2>1. tx # <<>> /\ UNCHANGED <<host, dropped, spoilt>>
    BY <1>2 DEF Sends, HeadMatches, send_packet_off, send_packet_again, send_packet_announces,
                send_packet_probes_on, send_packet_last, pcbVars
  <2>2. PICK h, I : h = Head(tx) /\ h \in PacketOf(I)
    BY <2>1, HeadInList DEF Tidy, Ordered
  <2>3. PICK o : o = Popped(h) /\ o \in PacketOf(I) /\ o.id = h.id /\ ~o.due /\ ~o.queued /\ o.pcb = h.pcb
    <3>1. PICK o : o = [h EXCEPT !.queued = FALSE, !.due = FALSE]
      OBVIOUS
    <3>2. o \in PacketOf(I) /\ o.id = h.id /\ ~o.due /\ ~o.queued /\ o.pcb = h.pcb
      BY <2>2, <3>1 DEF PacketOf
    <3> QED
      BY <3>1, <3>2 DEF Popped
  <2>4. h.pcb \in Pcbs
    BY <2>2 DEF PacketOf
  <2>5. Ordered(Tail(tx)) /\ Ids(Tail(tx)) \subseteq Ids(tx) /\ h.id \in Packets \ Ids(Tail(tx))
    BY <2>1, <2>2, OrderTail DEF Tidy
  <2>6. host' \in BOOLEAN
    BY <2>1, TidyPcbs
  <2>7. ASSUME Sent(h) \/ Sent(o) \/ asked' = asked PROVE asked' \in [Pcbs -> [Services -> 0..3]]
    BY <2>3, <2>4, <2>7, SentAsked, TidyPcbs DEF Tidy
  <2>8. ASSUME tx' = Tail(tx) PROVE InOrder
    <3>1. PICK t : t = tx' /\ Ordered(t)
      BY <2>5, <2>8
    <3> QED
      BY <2>1, <3>1 DEF InOrder, Tidy, DataInv
  <2>9. CASE send_packet_off \/ send_packet_last
    BY <2>2, <2>6, <2>7, <2>8, <2>9 DEF send_packet_off, send_packet_last, pcbVars, Typed
  <2>10. CASE send_packet_again \/ send_packet_probes_on
    <3>1. Sent(o) /\ tx' \in SentAfter(Tail(tx), o)
      BY <2>2, <2>3, <2>10 DEF send_packet_again, send_packet_probes_on
    <3> QED
      BY <2>1, <2>3, <2>5, <2>6, <2>7, <3>1, SentOnTyped DEF Typed
  <2>11. CASE send_packet_announces
    <3>1. PICK c \in Pcbs : c = h.pcb
      BY <2>4
    <3>2. PICK i, says, p : /\ i = NewIds(tx, {c})[c] /\ says = h.answers \cup Self(h.host \/ h.answers # {})
                            /\ p = Allocated(i, c, "announce", {}, says, FALSE)
      OBVIOUS
    <3>3. Sent(h) /\ tx' \in SentAfter(Tail(tx), p)
      BY <2>2, <2>11, <3>1, <3>2 DEF send_packet_announces
    <3>4. i \in Packets \ Ids(tx)
      BY <3>2, NewIdFree DEF Tidy, Ordered
    <3>5. says \in SUBSET (Services \cup {"self", "freed"})
      BY <2>2, <3>2 DEF PacketOf, Self
    <3>6. p \in PacketOf({i}) /\ p.id = i /\ ~p.due /\ ~p.queued
      BY <3>2, <3>5 DEF Allocated, PacketOf, Kinds
    <3> QED
      BY <2>1, <2>5, <2>6, <2>7, <3>3, <3>4, <3>6, SentOnTyped DEF Typed
  <2> QED
    BY <1>2, <2>9, <2>10, <2>11 DEF Sends
<1> QED
  BY <1>1, <1>2

LEMMA ServiceTyped ==
  ASSUME Plenty, Tidy, ActionsInv, Service
  PROVE  Typed
<1>1. current.type \in {"RX", "EVENT"} => current.pcb \in Pcbs
  BY CurrentNamed
<1>2. CASE ServiceReceives /\ UNCHANGED <<tx, cursor, host, pcbVars, serverVars, boundVars>>
  BY <1>2, OrderRests, TidyPcbs DEF pcbVars, Typed, Tidy
<1>3. CASE Sends /\ UNCHANGED <<serverVars, boundVars>>
  BY <1>3, SendsTyped
<1>4. CASE HostNameSet \/ InstanceNameSet
  BY <1>4, NewHostNameTyped, NewInstanceNameTyped DEF HostNameSet, InstanceNameSet
<1>5. CASE mdns_priv_pcb_enable \/ mdns_priv_pcb_disable
  BY <1>1, <1>5, EnableTyped, DisableTyped
<1>6. CASE AnnounceEvent
  <2>1. PICK C, S, ip : C = {current.pcb} /\ S = {} /\ ip = TRUE
    OBVIOUS
  <2>2. /\ C \in SUBSET Pcbs /\ S \in SUBSET Services /\ ip \in BOOLEAN
        /\ Announces(C, S, ip, tx, pcb) /\ UNCHANGED <<host, asked>>
    BY <1>1, <1>6, <2>1 DEF AnnounceEvent, Executes
  <2> QED
    BY <2>2, AnnouncesTyped, TidyPcbs DEF Typed
<1>7. CASE Parsed
  BY <1>1, <1>7, ParsedTyped, DuplicateTyped
<1> QED
  BY <1>2, <1>3, <1>4, <1>5, <1>6, <1>7 DEF Service

-----------------------------------------------------------------------------
(* The timer.                                                               *)

(* The packet i is found due, and all those before it are. *)
LEMMA OrderNoted ==
  ASSUME NEW q, Ordered(q), NEW i \in 1..Len(q), \A j \in 1..i-1 : q[j].due,
         NEW t, ListOf(t), Noted(q, t, i)
  PROVE  Ordered(t) /\ Len(t) = Len(q) /\ \A k \in 1..i : t[k].due
<1>1. PICK n : n = Len(q) /\ n \in Nat
  BY DEF Ordered, ListOf
<1>2. Len(t) = n
  BY <1>1 DEF Noted
<1>3. ASSUME NEW k \in 1..n
      PROVE  /\ t[k].id = q[k].id
             /\ t[k].due <=> (k = i \/ q[k].due)
             /\ t[k].queued => (k = i \/ q[k].queued)
  BY <1>1 DEF Noted
<1>4. \A k \in 1..i : t[k].due
  <2>1. \A k \in 1..i : k \in 1..n /\ (k = i \/ k \in 1..i-1)
    BY <1>1
  <2> QED
    BY <1>3, <2>1
<1>5. Ids(t) = Ids(q)
  BY <1>1, <1>2, <1>3 DEF Ids
<1>6. ASSUME NEW k \in 1..n, NEW l \in 1..n, k < l
      PROVE  t[k].id # t[l].id /\ (t[l].due => t[k].due)
  <2>1. q[k].id # q[l].id /\ (q[l].due => q[k].due)
    BY <1>1, <1>6 DEF Ordered
  <2>2. l = i => q[k].due
    BY <1>1, <1>6
  <2> QED
    BY <1>3, <2>1, <2>2
<1>7. \A k \in 1..n : t[k].queued => t[k].due
  BY <1>1, <1>3 DEF Ordered
<1> QED
  BY <1>1, <1>2, <1>4, <1>5, <1>6, <1>7 DEF Ordered

(* Where the timer has got to: what it leaves behind is due, and the lock   *)
(* is its own meanwhile.                                                    *)
CursorInv ==
  /\ lock = IF cursor = 0 THEN "none" ELSE "timer"
  /\ cursor \in 0..Len(tx) + 1
  /\ \A i \in 1..Len(tx) : i < cursor => tx[i].due

LEMMA TimerTyped ==
  ASSUME Tidy, CursorInv, Timer
  PROVE  Typed /\ CursorInv'
<1>1. Len(tx) \in Nat
  <2>1. PICK S : tx \in Seq(S)
    BY DEF Tidy, Ordered, ListOf
  <2> QED
    BY <2>1
<1>2. UNCHANGED <<asked, host, dropped, spoilt>>
  BY DEF Timer, TimerFails, pcbVars
<1>3. ASSUME NEW i \in 1..Len(tx), \A j \in 1..i-1 : tx[j].due, Posts(i), lock' = "timer"
      PROVE  Typed /\ CursorInv'
  <2>1. PICK q, t : q = tx /\ t = tx'
    OBVIOUS
  <2>2. Room \in BOOLEAN /\ t = [q EXCEPT ![i].queued = Room, ![i].due = TRUE] /\ cursor' = i + 1
    BY <1>3, <2>1 DEF Posts, Room
  <2>3. Ordered(q) /\ ListOf(q) /\ i \in 1..Len(q) /\ \A j \in 1..i-1 : q[j].due
    BY <1>3, <2>1 DEF Tidy, Ordered
  <2>4. ListOf(t) /\ Noted(q, t, i)
    BY <2>2, <2>3, PostedList
  <2>5. Ordered(t) /\ Len(t) = Len(q) /\ \A k \in 1..i : t[k].due
    BY <2>3, <2>4, OrderNoted
  <2>6. Typed
    BY <1>2, <2>1, <2>5, TidyPcbs DEF Typed, InOrder, Tidy, DataInv
  <2>7. CursorInv'
    <3>1. cursor' = i + 1 /\ lock' = "timer" /\ Len(tx') = Len(tx) /\ i \in Nat /\ i # 0
      BY <1>1, <1>3, <2>1, <2>2, <2>5
    <3>2. \A k \in 1..Len(tx') : k < i + 1 => tx'[k].due
      BY <1>1, <2>1, <2>5, <3>1
    <3> QED
      BY <1>1, <3>1, <3>2 DEF CursorInv
  <2> QED
    BY <2>6, <2>7
<1>4. CASE TimerStarts
  BY <1>3, <1>4 DEF TimerStarts, Tidy, Ordered
<1>5. CASE TimerPosts
  <2>1. cursor \in 1..Len(tx) /\ Posts(cursor) /\ lock' = "timer"
    BY <1>5 DEF TimerPosts, CursorInv
  <2>2. \A j \in 1..cursor-1 : tx[j].due
    BY <1>1, <2>1 DEF CursorInv
  <2> QED
    BY <1>3, <2>1, <2>2
<1>6. CASE TimerEnds \/ TimerFails
  <2>1. UNCHANGED tx /\ cursor' = 0 /\ lock' = "none"
    BY <1>6 DEF TimerEnds, TimerFails
  <2>2. Typed
    BY <1>2, <2>1, OrderRests, TidyPcbs DEF Typed, Tidy
  <2> QED
    BY <1>1, <2>1, <2>2 DEF CursorInv
<1> QED
  BY <1>4, <1>5, <1>6 DEF Timer

(* Nobody else touches the list while the timer walks it. *)
LEMMA OthersCursor ==
  ASSUME Service \/ Api \/ EventArrives \/ PacketArrives \/ UNCHANGED vars
  PROVE  UNCHANGED <<cursor, lock>> /\ (UNCHANGED tx \/ lock = "none")
<1>1. CASE Service
  <2>1. CASE ServiceReceives /\ UNCHANGED <<tx, cursor, host, pcbVars, serverVars, boundVars>>
    BY <2>1 DEF ServiceReceives
  <2>2. CASE Sends \/ HostNameSet \/ InstanceNameSet
    BY <2>2
    DEF Sends, HostNameSet, InstanceNameSet, Executes, send_packet_skips, send_packet_off, send_packet_again,
        send_packet_announces, send_packet_probes_on, send_packet_last
  <2>3. CASE mdns_priv_pcb_enable \/ mdns_priv_pcb_disable \/ AnnounceEvent
    BY <2>3 DEF mdns_priv_pcb_enable, mdns_priv_pcb_disable, AnnounceEvent, Executes
  <2>4. CASE Parsed
    <3>1. Parses
      BY <2>4 DEF Parsed, PacketIgnored, ConflictOfAddress, DuplicateFound, QuestionAnswered, AnswerSuppressed,
                  ConflictOfService, ConflictOfText
    <3> QED
      BY <3>1 DEF Parses, Executes
  <2> QED
    BY <1>1, <2>1, <2>2, <2>3, <2>4 DEF Service
<1>2. CASE Api
  <2>1. Calls
    BY <1>2 DEF Api, mdns_hostname_set, mdns_instance_name_set, mdns_service_add, mdns_service_change,
                mdns_service_remove, mdns_service_instance_name_set
  <2> QED
    BY <2>1 DEF Calls
<1>3. CASE EventArrives \/ PacketArrives \/ UNCHANGED vars
  BY <1>3 DEF EventArrives, PacketArrives, vars, engineVars
<1> QED
  BY <1>1, <1>2, <1>3

-----------------------------------------------------------------------------
(* The queue of actions, the names and the bounds.                          *)

QueueInv == EngineOf(ResponderActions) /\ Len(actions) <= QueueLen

LEMMA ActionTypes ==
  /\ \A i \in Packets : [type |-> "TX", packet |-> i] \in ResponderActions
  /\ \A c \in Pcbs : [type |-> "RX", pcb |-> c] \in ResponderActions
  /\ \A c \in Pcbs, w \in {"enable", "disable", "announce"} :
       [type |-> "EVENT", pcb |-> c, what |-> w] \in ResponderActions
  /\ [type |-> "HOSTNAME"] \in ResponderActions
  /\ [type |-> "INSTANCE"] \in ResponderActions
<1>1. \A i \in Packets : [type |-> "TX", packet |-> i] \in [type : {"TX"}, packet : Packets]
  OBVIOUS
<1>2. \A c \in Pcbs : [type |-> "RX", pcb |-> c] \in [type : {"RX"}, pcb : Pcbs]
  OBVIOUS
<1>3. \A c \in Pcbs, w \in {"enable", "disable", "announce"} :
        [type |-> "EVENT", pcb |-> c, what |-> w] \in [type : {"EVENT"}, pcb : Pcbs, what : {"enable", "disable", "announce"}]
  OBVIOUS
<1>4. \A t \in {"HOSTNAME", "INSTANCE"} : [type |-> t] \in [type : {"HOSTNAME", "INSTANCE"}]
  OBVIOUS
<1> QED
  BY <1>1, <1>2, <1>3, <1>4, Zenon DEF ResponderActions

LEMMA PostsTyped ==
  ASSUME QueueInv, NEW a, a \in ResponderActions, Room, Enqueue(a), UNCHANGED current
  PROVE  QueueInv'
<1>1. PICK S : S = ResponderActions
  OBVIOUS
<1>2. a \in S /\ EngineOf(S)
  BY <1>1 DEF QueueInv
<1>3. EngineOf(S)' /\ Len(actions') = Len(actions) + 1
  BY <1>2, EnginePosts
<1>4. EngineOf(ResponderActions)'
  BY <1>1, <1>3 DEF EngineOf, ResponderActions
<1>5. Len(actions) \in Nat
  BY <1>2 DEF EngineOf
<1>6. Len(actions') <= QueueLen
  BY <1>3, <1>5, QueueLenAssumption DEF Room
<1> QED
  BY <1>4, <1>6 DEF QueueInv

LEMMA OthersTyped ==
  ASSUME QueueInv,
         \/ ServiceReceives
         \/ current' = Idle /\ UNCHANGED actions
         \/ UNCHANGED <<actions, current>>
  PROVE  QueueInv'
<1>1. PICK S : S = ResponderActions
  OBVIOUS
<1>2. EngineOf(S)
  BY <1>1 DEF QueueInv
<1>3. EngineOf(S)' /\ (Len(actions') = Len(actions) \/ Len(actions') = Len(actions) - 1)
  <2>1. CASE ServiceReceives
    BY <1>2, <2>1, EngineReceives
  <2>2. CASE UNCHANGED actions /\ (current' = Idle \/ UNCHANGED current)
    BY <1>2, <2>2 DEF EngineOf
  <2> QED
    BY <2>1, <2>2
<1>4. EngineOf(ResponderActions)'
  BY <1>1, <1>3 DEF EngineOf, ResponderActions
<1>5. Len(actions) \in Nat
  BY <1>2 DEF EngineOf
<1> QED
  BY <1>3, <1>4, <1>5, QueueLenAssumption DEF QueueInv

LEMMA QueueTyped ==
  ASSUME QueueInv, Ordered(tx), Next
  PROVE  QueueInv'
<1>1. CASE Service
  <2>1. CASE ServiceReceives
    BY <2>1, OthersTyped
  <2>2. CASE Sends \/ HostNameSet \/ InstanceNameSet
    BY <2>2, OthersTyped
    DEF Sends, HostNameSet, InstanceNameSet, Executes, send_packet_skips, send_packet_off, send_packet_again,
        send_packet_announces, send_packet_probes_on, send_packet_last
  <2>3. CASE mdns_priv_pcb_enable \/ mdns_priv_pcb_disable \/ AnnounceEvent
    BY <2>3, OthersTyped DEF mdns_priv_pcb_enable, mdns_priv_pcb_disable, AnnounceEvent, Executes
  <2>4. CASE Parsed
    <3>1. Parses
      BY <2>4 DEF Parsed, PacketIgnored, ConflictOfAddress, DuplicateFound, QuestionAnswered, AnswerSuppressed,
                  ConflictOfService, ConflictOfText
    <3> QED
      BY <3>1, OthersTyped DEF Parses, Executes
  <2> QED
    BY <1>1, <2>1, <2>2, <2>3, <2>4 DEF Service
<1>2. CASE Timer
  <2>1. ASSUME NEW i \in 1..Len(tx), Posts(i) PROVE QueueInv'
    <3>1. CASE Room
      <4>1. tx[i].id \in Packets
        BY DEF Ordered, Ids
      <4>2. PICK a : a = [type |-> "TX", packet |-> tx[i].id] /\ a \in ResponderActions
        BY <4>1, ActionTypes
      <4>3. Enqueue(a) /\ UNCHANGED current
        BY <2>1, <3>1, <4>2 DEF Posts
      <4> QED
        BY <3>1, <4>2, <4>3, PostsTyped
    <3>2. CASE ~Room
      BY <2>1, <3>2, OthersTyped DEF Posts
    <3> QED
      BY <3>1, <3>2
  <2> QED
    BY <1>2, <2>1, OthersTyped DEF Timer, TimerStarts, TimerPosts, TimerEnds, TimerFails
<1>3. CASE Api
  <2>1. CASE mdns_hostname_set
    <3>1. PICK a : a = [type |-> "HOSTNAME"] /\ a \in ResponderActions
      BY ActionTypes
    <3> QED
      BY <2>1, <3>1, PostsTyped DEF mdns_hostname_set, Calls
  <2>2. CASE mdns_instance_name_set
    <3>1. PICK a : a = [type |-> "INSTANCE"] /\ a \in ResponderActions
      BY ActionTypes
    <3> QED
      BY <2>2, <3>1, PostsTyped DEF mdns_instance_name_set, Calls
  <2>3. CASE UNCHANGED <<actions, current>>
    BY <2>3, OthersTyped
  <2> QED
    BY <1>3, <2>1, <2>2, <2>3
    DEF Api, Calls, mdns_service_add, mdns_service_change, mdns_service_remove, mdns_service_instance_name_set
<1>4. CASE EventArrives
  <2>1. CASE UNCHANGED actions
    BY <1>4, <2>1, OthersTyped DEF EventArrives
  <2>2. CASE ~UNCHANGED actions
    <3>1. PICK c \in Pcbs, w \in {"enable", "disable", "announce"} :
            Room /\ Enqueue([type |-> "EVENT", pcb |-> c, what |-> w]) /\ UNCHANGED current
      BY <1>4, <2>2 DEF EventArrives
    <3>2. PICK a : a = [type |-> "EVENT", pcb |-> c, what |-> w] /\ a \in ResponderActions
      BY ActionTypes
    <3> QED
      BY <3>1, <3>2, PostsTyped
  <2> QED
    BY <2>1, <2>2
<1>5. CASE PacketArrives
  <2>1. PICK c \in Pcbs : Room /\ Enqueue([type |-> "RX", pcb |-> c]) /\ UNCHANGED current
    BY <1>5 DEF PacketArrives, Ready
  <2>2. PICK a : a = [type |-> "RX", pcb |-> c] /\ a \in ResponderActions
    BY ActionTypes
  <2> QED
    BY <2>1, <2>2, PostsTyped
<1> QED
  BY <1>1, <1>2, <1>3, <1>4, <1>5 DEF Next

NamesInv ==
  /\ own \in SUBSET services /\ instance \in BOOLEAN
  /\ calls \in 0..MaxCalls /\ events \in 0..MaxEvents /\ packets \in 0..MaxPackets

LEMMA NamesTyped ==
  ASSUME NamesInv, [Next]_vars
  PROVE  NamesInv'
<1> USE DEF NamesInv
<1>1. ASSUME UNCHANGED <<services, own, boundVars>>, instance' = TRUE \/ UNCHANGED instance PROVE NamesInv'
  BY <1>1 DEF boundVars
<1>2. CASE Service
  <2>1. CASE (ServiceReceives \/ Sends) /\ UNCHANGED <<serverVars, boundVars>>
    BY <1>1, <2>1 DEF serverVars
  <2>2. CASE HostNameSet \/ InstanceNameSet
    BY <1>1, <2>2 DEF HostNameSet, InstanceNameSet, NewHostName, NewInstanceName, serverVars
  <2>3. CASE mdns_priv_pcb_enable \/ mdns_priv_pcb_disable \/ AnnounceEvent
    BY <1>1, <2>3 DEF mdns_priv_pcb_enable, mdns_priv_pcb_disable, AnnounceEvent, serverVars
  <2>4. CASE Parsed
    <3>1. UNCHANGED boundVars /\ (UNCHANGED serverVars \/ NewHostName \/ NewInstanceName)
      BY <2>4 DEF Parsed, Parses, PacketIgnored, ConflictOfAddress, DuplicateFound, QuestionAnswered,
                  AnswerSuppressed, ConflictOfService, ConflictOfText
    <3> QED
      BY <1>1, <3>1 DEF NewHostName, NewInstanceName, serverVars
  <2> QED
    BY <1>2, <2>1, <2>2, <2>3, <2>4 DEF Service
<1>3. CASE Api
  <2>1. Calls
    BY <1>3 DEF Api, mdns_hostname_set, mdns_instance_name_set, mdns_service_add, mdns_service_change,
                mdns_service_remove, mdns_service_instance_name_set
  <2>2. calls' \in 0..MaxCalls /\ UNCHANGED <<events, packets>>
    BY <2>1, ResponderAssumption DEF Calls
  <2>3. own' \in SUBSET services' /\ UNCHANGED instance
    BY <1>3 DEF Api, mdns_hostname_set, mdns_instance_name_set, mdns_service_add, mdns_service_change,
                mdns_service_remove, mdns_service_instance_name_set, serverVars
  <2> QED
    BY <2>2, <2>3
<1>4. CASE Timer \/ UNCHANGED vars
  BY <1>1, <1>4 DEF Timer, vars, serverVars
<1>5. CASE EventArrives \/ PacketArrives
  BY <1>5, ResponderAssumption DEF EventArrives, PacketArrives, serverVars
<1> QED
  BY <1>2, <1>3, <1>4, <1>5 DEF Next

-----------------------------------------------------------------------------
TypeInv == TwinInv /\ DataInv /\ Ordered(tx) /\ CursorInv /\ QueueInv /\ NamesInv

LEMMA TypeStep ==
  ASSUME Plenty
  PROVE  TypeInv /\ [Next]_vars => TypeInv'
<1> SUFFICES ASSUME TypeInv, [Next]_vars PROVE TypeInv'
  OBVIOUS
<1>1. TwinInv' /\ NamesInv'
  BY TwinStep, NamesTyped DEF TypeInv
<1>2. Tidy /\ ActionsInv
  BY DEF TypeInv, TwinInv, BaseInv, Tidy
<1>3. QueueInv'
  <2>1. UNCHANGED vars => UNCHANGED <<actions, current>>
    BY DEF vars, engineVars
  <2> QED
    BY <2>1, QueueTyped, OthersTyped DEF TypeInv
<1>4. ASSUME UNCHANGED <<tx, asked, host, dropped, spoilt>> PROVE Typed
  BY <1>2, <1>4, OrderRests, TidyPcbs DEF Typed, Tidy
<1>5. Typed
  BY <1>2, <1>4, ServiceTyped, TimerTyped, ApiTyped DEF Next, TypeInv, EventArrives, PacketArrives, vars, pcbVars
<1>6. PICK t : t = tx' /\ Ordered(t) /\ ListOf(t) /\ Len(t) \in Nat
  <2>1. PICK t : t = tx' /\ Ordered(t) /\ ListOf(t)
    BY <1>5 DEF Typed, InOrder, Ordered
  <2>2. PICK S : t \in Seq(S)
    BY <2>1 DEF ListOf
  <2> QED
    BY <2>1, <2>2
<1>7. DataInv' /\ Ordered(tx)'
  BY <1>5, <1>6 DEF DataInv, Typed, InOrder, Ordered, ListOf, Ids
<1>8. CursorInv'
  <2>1. CASE Timer
    BY <1>2, <2>1, TimerTyped DEF TypeInv
  <2>2. CASE ~Timer
    <3>1. UNCHANGED <<cursor, lock>> /\ (UNCHANGED tx \/ lock = "none")
      BY <2>2, OthersCursor DEF Next
    <3>2. CASE UNCHANGED tx
      BY <3>1, <3>2 DEF TypeInv, CursorInv
    <3>3. CASE lock = "none"
      BY <1>6, <3>1, <3>3 DEF TypeInv, CursorInv
    <3> QED
      BY <3>1, <3>2, <3>3
  <2> QED
    BY <2>1, <2>2
<1> QED
  BY <1>1, <1>3, <1>7, <1>8 DEF TypeInv

LEMMA TypeInit == Init \/ InitServed => TypeInv
<1> SUFFICES ASSUME Init \/ InitServed PROVE TypeInv
  OBVIOUS
<1>1. TwinInv /\ DataInv
  BY TwinInit, ProbeInit DEF ProbeInv
<1>2. tx = <<>> /\ cursor = 0 /\ EngineInit
  BY DEF Init, InitServed
<1>3. Ordered(tx)
  BY <1>2, OrderEmpty
<1>4. CursorInv
  BY <1>2 DEF CursorInv, EngineInit
<1>5. QueueInv
  <2>1. Idle \notin ResponderActions
    BY DEF Idle, ResponderActions
  <2> QED
    BY <1>2, <2>1, EngineStarts, QueueLenAssumption DEF QueueInv
<1>6. NamesInv
  <2>1. own = {} /\ instance = FALSE /\ calls = 0 /\ events = 0 /\ packets = 0
    BY DEF Init, InitServed
  <2>2. \A n \in {MaxCalls, MaxEvents, MaxPackets} : 0 \in 0..n
    BY ResponderAssumption
  <2> QED
    BY <2>1, <2>2 DEF NamesInv
<1> QED
  BY <1>1, <1>3, <1>4, <1>5, <1>6 DEF TypeInv

LEMMA TypeInvImplies == TypeInv => TypeOK
<1> SUFFICES ASSUME TypeInv PROVE TypeOK
  OBVIOUS
<1>1. tx \in Seq(Packet)
  <2>1. PICK I : tx \in Seq(PacketOf(I))
    BY DEF TypeInv, Ordered, ListOf
  <2>2. PICK n : n = Len(tx) /\ n \in Nat
    BY <2>1
  <2>3. ASSUME NEW i \in 1..n PROVE tx[i] \in Packet
    <3>1. tx[i] \in PacketOf(I)
      BY <2>1, <2>2
    <3>2. tx[i].id \in Packets
      BY <2>2 DEF TypeInv, Ordered, Ids
    <3> QED
      BY <3>1, <3>2 DEF PacketOf, Packet
  <2>4. PICK S, f : S = Packet /\ f = tx
    OBVIOUS
  <2>5. f \in [1..n -> S]
    BY <2>1, <2>2, <2>3, <2>4
  <2>6. f \in Seq(S)
    BY <2>2, <2>5, FunctionSeq
  <2> QED
    BY <2>4, <2>6
<1>2. TransmitTypeOK
  BY <1>1 DEF TypeInv, TransmitTypeOK, Ordered, CursorInv
<1>3. PcbTypeOK
  BY DEF TypeInv, TwinInv, BaseInv, DataInv, PcbTypeOK, PcbRecord
<1>4. services \in SUBSET Services
  BY DEF TypeInv, TwinInv, BaseInv
<1> QED
  BY <1>2, <1>3, <1>4 DEF TypeInv, CursorInv, QueueInv, EngineOf, NamesInv, TypeOK

(* The state keeps its types, and the list its order: each packet has a     *)
(* block of its own, those that are due come first, and the timer holds the *)
(* lock as long as it walks the list, whatever is sent, merged, cleared and *)
(* freed meanwhile; for any numbers of PCBs, services and actions.  There   *)
(* is memory for as many packets as are scheduled at once; an allocation    *)
(* may still fail.                                                          *)
THEOREM TypeCorrect ==
  ASSUME Plenty
  PROVE  (Spec => []TypeOK) /\ (ServedSpec => []TypeOK)
<1>1. TypeInv /\ [Next]_vars => TypeInv'
  BY TypeStep
<1> QED
  BY <1>1, TypeInit, TypeInvImplies, PTL DEF Spec, ServedSpec
=============================================================================
