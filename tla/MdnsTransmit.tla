------------------------------ MODULE MdnsTransmit ------------------------------
(***************************************************************************)
(* The packets that the mdns component has still to send (mdns_send.c): a  *)
(* list in the order of their times, which the timer walks to post one     *)
(* action per packet that is due, and the service task's side of it, which *)
(* sends the packet of an action only when that packet heads the list.     *)
(*                                                                         *)
(* Of the times only their order is kept: those that the timer has found   *)
(* due come first, and a new packet goes anywhere behind them (the clock   *)
(* does not wrap).  Of a packet's records only whom they point to is kept: *)
(* questions and answers borrow the strings of the services and of the     *)
(* server, and "freed" stands for a pointer to a string that is gone.      *)
(***************************************************************************)
EXTENDS MdnsService, SequencesExt

CONSTANTS
  Pcbs,      (* interface and protocol; one protocol for each interface    *)
  Services,  (* blocks of memory for services                              *)
  Packets    (* blocks of memory for packets                               *)

VARIABLES
  tx,     (* s_tx_queue_head and what follows                              *)
  cursor  (* where mdns_priv_send_packets has got to; 0: it is not running *)

Kinds == {"probe", "announce", "answer"}

(* A question for a service is about its instance name or about its host.   *)
(* Among the answers "self" stands for the addresses of the host; host says *)
(* that there are addresses among the additional records.                   *)
Questions == (Services \X {"instance", "host"}) \cup {<<"self", "host">>, <<"freed", "instance">>, <<"freed", "host">>}

Packet ==
  [id : Packets, pcb : Pcbs, kind : Kinds, questions : SUBSET Questions,
   answers : SUBSET (Services \cup {"self", "freed"}), host : BOOLEAN,
   queued : BOOLEAN, due : BOOLEAN]

TransmitTypeOK ==
  /\ tx \in Seq(Packet)
  /\ \A i, j \in 1..Len(tx) : i < j => tx[i].id # tx[j].id /\ (tx[j].due => tx[i].due)
  /\ cursor \in 0..Len(tx) + 1

-----------------------------------------------------------------------------
Ids(q) == {q[i].id : i \in 1..Len(q)}

Of(q, c) == {i \in 1..Len(q) : q[i].pcb = c}

(* mdns_priv_alloc_packet *)
Allocated(i, c, kind, questions, answers, host) ==
  [id |-> i, pcb |-> c, kind |-> kind, questions |-> questions, answers |-> answers,
   host |-> host, queued |-> FALSE, due |-> FALSE]

(* What is at the places I of q, in its order: the place i is the Rank-th. *)
Rank(I, i) == Cardinality({k \in I : k <= i})

At(q, I) == [n \in 1..Cardinality(I) |-> q[CHOOSE i \in I : Rank(I, i) = n]]

(* mdns_priv_send_after, once for each of some new packets: the list stays  *)
(* in its order, at the places I, and the new ones take the others, as far  *)
(* as the times allow.                                                      *)
AllSentAfter(q, new) ==
  LET places == 1..Len(q) + Cardinality(new)
      Old == {I \in SUBSET places : /\ Cardinality(I) = Len(q)
                                    /\ \A i \in I, k \in places \ I : k < i => ~q[Rank(I, i)].due}
  IN UNION {{[k \in places |-> IF k \in I THEN q[Rank(I, k)] ELSE f[k]] : f \in Bijection(places \ I, new)} : I \in Old}

SentAfter(q, p) == AllSentAfter(q, {p})

(* Mutant: only the head of the list is looked at. *)
HeadCleared(q, C) == IF q # <<>> /\ Head(q).pcb \in C THEN Tail(q) ELSE q

(* mdns_priv_clear_tx_queue_if, for a set of PCBs; for all of them it is    *)
(* mdns_priv_clear_tx_queue.                                                *)
Cleared(q, C) == At(q, {i \in 1..Len(q) : q[i].pcb \notin C})

(* What is left of the pointers when the strings behind some questions and  *)
(* the services behind some answers are freed.                              *)
AfterFree(q, gone, dead) ==
  [i \in 1..Len(q) |->
     [q[i] EXCEPT
        !.questions = (@ \ gone) \cup {<<"freed", x[2]>> : x \in @ \cap gone},
        !.answers = (@ \ dead) \cup {"freed" : s \in @ \cap dead}]]

(* mdns_priv_remove_scheduled_answer: a distributed answer that another     *)
(* responder has given is taken out, and the packet stays.                  *)
Suppressed(q, c, s) ==
  [i \in 1..Len(q) |->
     IF q[i].pcb = c /\ q[i].kind = "answer" THEN [q[i] EXCEPT !.answers = @ \ {s}] ELSE q[i]]

-----------------------------------------------------------------------------
(* The timer.  mdns_priv_send_packets holds the service lock, but the       *)
(* service task takes actions from the queue without it, and others post:   *)
(* the queue may be full for one packet and have room for the next.         *)

Posts(i) ==
  /\ tx' = [tx EXCEPT ![i].queued = Room, ![i].due = TRUE]
  /\ IF Room THEN Enqueue([type |-> "TX", packet |-> tx[i].id]) ELSE UNCHANGED actions
  /\ cursor' = i + 1
  /\ UNCHANGED current

(* The first packet that is not queued is due. *)
TimerStarts ==
  /\ cursor = 0 /\ lock = "none"
  /\ \E i \in 1..Len(tx) :
       /\ ~tx[i].queued
       /\ \A j \in 1..i-1 : tx[j].queued
       /\ Posts(i)
  /\ lock' = "timer"

(* And so is the next one, which may be queued already. *)
TimerPosts ==
  /\ cursor \in 1..Len(tx)
  /\ Posts(cursor)
  /\ UNCHANGED lock

(* At a packet that is not due, or at the end. *)
TimerEnds ==
  /\ cursor # 0
  /\ cursor \in 1..Len(tx) => ~tx[cursor].due
  /\ cursor' = 0
  /\ lock' = "none"
  /\ UNCHANGED <<actions, current, tx>>

-----------------------------------------------------------------------------
(* send_packet: the packet of the action is at the head and still queued.   *)
HeadMatches == tx # <<>> /\ Head(tx).id = current.packet /\ Head(tx).queued

Popped(p) == [p EXCEPT !.queued = FALSE, !.due = FALSE]

(* An action whose packet has been freed, or is not at the head. *)
send_packet_skips ==
  /\ Executes("TX")
  /\ ~HeadMatches
  /\ UNCHANGED <<actions, tx, cursor>>

(* The head waits for an action that nobody will post: what is queued is    *)
(* posted again only with something in front of it.                         *)
Wedged ==
  /\ cursor = 0 /\ tx # <<>> /\ Head(tx).queued
  /\ [type |-> "TX", packet |-> Head(tx).id] \notin Pending
=============================================================================
