--------------------------- MODULE MdnsServiceProofs ---------------------------
(***************************************************************************)
(* Lemmas about the engine that all mdns modules share: what posting,      *)
(* receiving and executing an action does to the actions still to be       *)
(* executed, and to how often an action is among them.                     *)
(***************************************************************************)
EXTENDS MdnsService, TLAPS

(* An engine whose actions come from S; Idle is none of them. *)
EngineOf(S) == actions \in Seq(S) /\ current \in S \cup {Idle} /\ Idle \notin S

(* Nowhere is the action a to be executed twice. *)
Once(a) ==
  /\ \A i, j \in 1..Len(actions) : actions[i] = a /\ actions[j] = a => i = j
  /\ current = a => \A i \in 1..Len(actions) : actions[i] # a

-----------------------------------------------------------------------------
(* An engine in its first state has nothing to do. *)
LEMMA EngineStarts ==
  ASSUME NEW S, Idle \notin S, EngineInit
  PROVE  EngineOf(S) /\ Pending = {} /\ Len(actions) = 0 /\ \A a : Once(a)
BY DEF EngineInit, EngineOf, Pending, Once

(* A posted action is one more to be executed, at the end of the queue. *)
LEMMA EnginePosts ==
  ASSUME NEW S, EngineOf(S), NEW a \in S, Enqueue(a), UNCHANGED current
  PROVE  /\ EngineOf(S)'
         /\ Pending' = Pending \cup {a}
         /\ Len(actions') = Len(actions) + 1
         /\ \A b \in S : Once(b) /\ (b = a => a \notin Pending) => Once(b)'
<1> USE DEF EngineOf, Enqueue
<1>1. /\ actions' \in Seq(S) /\ Len(actions') = Len(actions) + 1
      /\ \A i \in 1..Len(actions) : actions'[i] = actions[i]
      /\ actions'[Len(actions) + 1] = a
  OBVIOUS
<1>2. Pending' = Pending \cup {a}
  BY <1>1 DEF Pending
<1>3. \A b \in S : Once(b) /\ (b = a => a \notin Pending) => Once(b)'
  BY <1>1 DEF Pending, Once
<1> QED
  BY <1>1, <1>2, <1>3

(* The action that is received stays to be executed. *)
LEMMA EngineReceives ==
  ASSUME NEW S, EngineOf(S), ServiceReceives
  PROVE  /\ EngineOf(S)'
         /\ Pending' = Pending
         /\ current' \in Pending
         /\ Len(actions') = Len(actions) - 1
         /\ \A b \in S : Once(b) => Once(b)'
<1> USE DEF EngineOf, ServiceReceives
<1>1. /\ actions' \in Seq(S) /\ Len(actions') = Len(actions) - 1 /\ Len(actions) > 0
      /\ \A i \in 1..Len(actions') : actions'[i] = actions[i + 1]
      /\ current' = actions[1] /\ current' \in S
  OBVIOUS
<1>2. \A i \in 1..Len(actions) : i = 1 \/ i - 1 \in 1..Len(actions')
  BY <1>1
<1>3. \A i \in 1..Len(actions') : i + 1 \in 1..Len(actions)
  BY <1>1
<1>4. Pending = {actions[i] : i \in 1..Len(actions)}
  BY DEF Pending
<1>5. Pending' = {actions'[i] : i \in 1..Len(actions')} \cup {current'}
  BY <1>1 DEF Pending
<1>6. Pending' = Pending
  <2>1. \A x : x \in Pending' => x \in Pending
    BY <1>1, <1>3, <1>4, <1>5
  <2>2. \A x : x \in Pending => x \in Pending'
    BY <1>1, <1>2, <1>4, <1>5
  <2> QED
    BY <2>1, <2>2
<1>7. ASSUME NEW b \in S, Once(b) PROVE Once(b)'
  <2>1. \A i, j \in 1..Len(actions') : actions'[i] = b /\ actions'[j] = b => i = j
    BY <1>1, <1>3, <1>7 DEF Once
  <2>2. current' = b => \A i \in 1..Len(actions') : actions'[i] # b
    BY <1>1, <1>3, <1>7 DEF Once
  <2> QED
    BY <2>1, <2>2 DEF Once
<1> QED
  BY <1>1, <1>4, <1>5, <1>6, <1>7

(* An executed action is to be executed no more, if it was so only once. *)
LEMMA EngineExecutes ==
  ASSUME NEW S, EngineOf(S), current \in S, current' = Idle, UNCHANGED actions
  PROVE  /\ EngineOf(S)'
         /\ Pending' \subseteq Pending
         /\ Pending = Pending' \cup {current}
         /\ current \in Pending
         /\ Once(current) => current \notin Pending'
         /\ \A b \in S : Once(b) => Once(b)'
BY DEF EngineOf, Pending, Once

(* An action that posts another one when it is executed. *)
LEMMA EngineFollowsUp ==
  ASSUME NEW S, EngineOf(S), current \in S, current' = Idle, NEW a \in S, Enqueue(a)
  PROVE  /\ EngineOf(S)'
         /\ Len(actions') = Len(actions) + 1
         /\ Pending \cup {a} = Pending' \cup {current}
         /\ a \in Pending' /\ Pending' \subseteq Pending \cup {a}
         /\ \A b \in S : Once(b) /\ b # a => Once(b)'
<1> USE DEF EngineOf, Enqueue
<1>1. /\ actions' \in Seq(S) /\ Len(actions') = Len(actions) + 1
      /\ \A i \in 1..Len(actions) : actions'[i] = actions[i]
      /\ actions'[Len(actions) + 1] = a
  OBVIOUS
<1>2. Pending = {actions[i] : i \in 1..Len(actions)} \cup {current}
  BY DEF Pending
<1>3. Pending' = {actions[i] : i \in 1..Len(actions)} \cup {a}
  BY <1>1 DEF Pending
<1>4. \A b \in S : Once(b) /\ b # a => Once(b)'
  BY <1>1 DEF Once
<1> QED
  BY <1>1, <1>2, <1>3, <1>4

(* And nothing changes for an engine that rests. *)
LEMMA EngineRests ==
  ASSUME NEW S, EngineOf(S), UNCHANGED <<actions, current>>
  PROVE  EngineOf(S)' /\ Pending' = Pending /\ \A b \in S : Once(b) => Once(b)'
BY DEF EngineOf, Pending, Once
=============================================================================
