-------------------------- MODULE MdnsRecordsProofs --------------------------
(***************************************************************************)
(* What a listener holds of the services of MdnsRecords, proved for any    *)
(* number of services, names, subtypes, TXT items, calls and failures.     *)
(*                                                                         *)
(* The invariant speaks of a set S of services, of what is on the air, w,  *)
(* and of the services u that were left without an announcement: most      *)
(* lemmas say what a step of a call does to these three, and the last ones *)
(* what each function of the API is made of.                               *)
(***************************************************************************)
EXTENDS MdnsRecords, FiniteSetTheorems, WellFoundedInduction, TLAPS

IdsOf(S) == {s.id : s \in S}

Distinct(S) == \A x, y \in S : x.id = y.id => x = y

PacketType == [services : SUBSET Ids, hosts : SUBSET Hosts, said : BOOLEAN, made : BOOLEAN]

AirType ==
  [state : {"PROBE", "ANNOUNCE", "RUNNING"},
   packet : PacketType,
   heard : [ptr : SUBSET Records, txt : [AllNames -> Texts]],
   stale : SUBSET Records]

(* What the PCB's state says of its packet.                                 *)
Shaped(w) ==
  /\ w.packet.made => w.packet.services # {} \/ w.packet.hosts # {}
  /\ w.state = "RUNNING" \/ (w.state = "ANNOUNCE" /\ ~w.packet.made) => w.packet = Nothing
  /\ w.state = "PROBE" => w.packet.hosts = {}

(* This and the types.                                                      *)
Sane(S, w, u) ==
  /\ S \subseteq Service /\ Distinct(S)
  /\ w \in AirType /\ u \subseteq Ids
  /\ w.packet.services \subseteq IdsOf(S)
  /\ Shaped(w)

(* ListenersForget and ListenersUpToDate *)
Forgets(S, w) == w.heard.ptr \subseteq w.stale \cup UNION {All(s) : s \in S}

Alone(x, S) == \A y \in S : y.name = x.name => y.id = x.id

Due(x, S, w, u) == x.id \notin u /\ (x.id \notin w.packet.services \/ w.packet.said) /\ Alone(x, S)

Known(x, w) == All(x) \subseteq w.heard.ptr /\ w.heard.txt[x.name] = x.txt

Knows(S, w, u) == \A x \in S : Due(x, S, w, u) => Known(x, w)

Sound(S, w, u) == Sane(S, w, u) /\ Forgets(S, w) /\ Knows(S, w, u)

ServicesOK ==
  /\ services \in Seq(Service)
  /\ \A i, j \in 1..Len(services) : i # j => services[i].id # services[j].id

Fates == {"none", "locked", "null", "torn", "freed"}

RecordsInv ==
  /\ ServicesOK
  /\ boxed \in BOOLEAN /\ denied \in {"none"} \cup Functions
  /\ fate \in Fates
  /\ calls \in 0..MaxCalls /\ fails \in 0..MaxFails
  /\ Sound(Range(services), Air, unsaid)

-----------------------------------------------------------------------------
(* Sets of numbers and sequences.                                           *)

(* A set of numbers that is not empty has a least element. *)
LEMMA LeastExists ==
  ASSUME NEW M \in SUBSET Nat, M # {}
  PROVE  \E i \in M : \A j \in M : i <= j
<1> DEFINE L == {p \in Nat \X Nat : p[1] < p[2]}
<1>1. IsWellFoundedOn(L, Nat)
  <2>1. OpToRel(<, Nat) = L
    BY DEF OpToRel
  <2> QED
    BY <2>1, NatLessThanWellFounded
<1>2. PICK i \in M : \A j \in M : <<j, i>> \notin L
  <2> HIDE DEF L
  <2> QED
    BY <1>1, WFMin
<1>3. ASSUME NEW j \in M
      PROVE  i <= j
  <2>1. i \in Nat /\ j \in Nat /\ ~(j < i)
    <3>1. i \in Nat /\ j \in Nat /\ <<j, i>> \notin L
      BY <1>2
    <3>2. <<j, i>> \in Nat \X Nat /\ <<j, i>>[1] = j /\ <<j, i>>[2] = i
      BY <3>1
    <3> QED
      BY <3>1, <3>2
  <2> QED
    BY <2>1
<1> QED
  BY <1>3

(* Found is 0 or an index. *)
LEMMA FoundIs ==
  ASSUME NEW n, NEW h, services \in Seq(Service)
  PROVE  /\ Found(n, h) \in 0..Len(services)
         /\ Found(n, h) # 0 => Found(n, h) \in 1..Len(services)
<1> DEFINE M == {i \in 1..Len(services) : n \in {NoName, services[i].name} /\ h \in {"any", services[i].host}}
<1>1. M \in SUBSET Nat /\ M \subseteq 1..Len(services) /\ Len(services) \in Nat
  OBVIOUS
<1>2. M = {} => Found(n, h) = 0
  BY DEF Found
<1>3. M # {} => Found(n, h) \in M
  <2> DEFINE Q(i) == \A j \in M : i <= j
  <2>1. Found(n, h) = IF M = {} THEN 0 ELSE CHOOSE i \in M : Q(i)
    BY DEF Found
  <2> HIDE DEF M
  <2>2. M # {} => \E i \in M : Q(i)
    BY <1>1, LeastExists
  <2> HIDE DEF Q
  <2> QED
    BY <2>1, <2>2
<1>4. M # {} => Found(n, h) \in 1..Len(services)
  <2> HIDE DEF M
  <2> QED
    BY <1>1, <1>3
<1> HIDE DEF M
<1> QED
  BY <1>1, <1>2, <1>4

(* Up to the least clash the elements of an array are neither in T nor one *)
(* of another, so they can be taken out again.                              *)
LEMMA AddedIs ==
  ASSUME NEW T \in SUBSET Subtypes, NEW a \in Seq(Subtypes)
  PROVE  /\ Added(T, a) \in 0..Len(a)
         /\ \A m \in 0..Added(T, a) : RolledBack(T, a, m) = T
<1> DEFINE clash == {k \in 1..Len(a) : a[k] \in T \cup {a[j] : j \in 1..k-1}}
           Q(k) == \A j \in clash : k <= j
<1>1. clash \in SUBSET Nat /\ clash \subseteq 1..Len(a) /\ Len(a) \in Nat
  OBVIOUS
<1>2. Added(T, a) = IF clash = {} THEN Len(a) ELSE (CHOOSE k \in clash : Q(k)) - 1
  BY DEF Added
<1>3. ASSUME NEW m \in 0..Len(a), \A k \in clash : m < k
      PROVE  RolledBack(T, a, m) = T
  <2>1. \A j \in 1..m : a[j] \notin T
    BY <1>1, <1>3
  <2> QED
    BY <2>1 DEF RolledBack, FirstOf
<1>4. CASE clash = {}
  <2>1. Added(T, a) = Len(a)
    BY <1>2, <1>4
  <2> QED
    BY <1>1, <1>3, <1>4, <2>1
<1>5. CASE clash # {}
  <2>1. \E k \in clash : Q(k)
    <3> HIDE DEF clash
    <3> QED
      BY <1>1, <1>5, LeastExists
  <2>2. PICK k \in clash : k = (CHOOSE x \in clash : Q(x)) /\ Q(k)
    <3> HIDE DEF clash, Q
    <3> QED
      BY <2>1
  <2>3. Added(T, a) = k - 1 /\ k \in 1..Len(a)
    BY <1>1, <1>2, <1>5, <2>2
  <2>4. ASSUME NEW m \in 0..k - 1
        PROVE  m \in 0..Len(a) /\ \A x \in clash : m < x
    <3>1. \A x \in clash : k <= x /\ x \in Nat
      BY <1>1, <2>2
    <3> HIDE DEF clash
    <3> QED
      BY <1>1, <2>3, <3>1
  <2> HIDE DEF clash, Q
  <2> QED
    BY <1>3, <2>3, <2>4
<1> QED
  BY <1>4, <1>5

LEMMA ServicesAre ==
  ASSUME ServicesOK
  PROVE  /\ Range(services) \subseteq Service /\ Distinct(Range(services))
         /\ \A i \in 1..Len(services) : services[i] \in Range(services) /\ services[i] \in Service
<1>1. DOMAIN services = 1..Len(services) /\ \A i \in 1..Len(services) : services[i] \in Service
  BY DEF ServicesOK
<1>2. Range(services) \subseteq Service /\ \A i \in 1..Len(services) : services[i] \in Range(services)
  BY <1>1 DEF Range
<1>3. ASSUME NEW x \in Range(services), NEW y \in Range(services), x.id = y.id
      PROVE  x = y
  <2>1. PICK i \in 1..Len(services), j \in 1..Len(services) : x = services[i] /\ y = services[j]
    BY <1>1 DEF Range
  <2> QED
    BY <1>3, <2>1 DEF ServicesOK
<1> QED
  BY <1>1, <1>2, <1>3 DEF Distinct

(* A service gets other contents. *)
LEMMA ReplacedIn ==
  ASSUME ServicesOK, NEW i \in 1..Len(services), NEW r \in Service, r.id = services[i].id,
         services' = [services EXCEPT ![i] = r]
  PROVE  /\ ServicesOK'
         /\ Range(services)' = (Range(services) \ {services[i]}) \cup {r}
<1>1. /\ services \in Seq(Service) /\ Len(services) \in Nat /\ DOMAIN services = 1..Len(services)
      /\ \A j, k \in 1..Len(services) : j # k => services[j].id # services[k].id
  BY DEF ServicesOK
<1>2. services' \in Seq(Service) /\ Len(services') = Len(services) /\ DOMAIN services' = 1..Len(services)
  BY <1>1
<1>3. \A j \in 1..Len(services) : services'[j] = IF j = i THEN r ELSE services[j]
  BY <1>1
<1>4. ServicesOK'
  <2>1. ASSUME NEW j \in 1..Len(services), NEW k \in 1..Len(services), j # k
        PROVE  services'[j].id # services'[k].id
    <3>1. services'[j].id = services[j].id /\ services'[k].id = services[k].id
      BY <1>3
    <3> QED
      BY <1>1, <2>1, <3>1
  <2> QED
    BY <1>2, <2>1 DEF ServicesOK
<1>5. Range(services') = {services'[j] : j \in 1..Len(services)} /\ Range(services) = {services[j] : j \in 1..Len(services)}
  BY <1>1, <1>2 DEF Range
<1>6. \A j \in 1..Len(services) : j # i => services[j] # services[i]
  BY <1>1
<1>7. Range(services') = (Range(services) \ {services[i]}) \cup {r}
  BY <1>3, <1>5, <1>6
<1> QED
  BY <1>4, <1>7

(* A new service comes first. *)
LEMMA AddedTo ==
  ASSUME ServicesOK, NEW r \in Service, r.id \notin IdsOf(Range(services)), services' = <<r>> \o services
  PROVE  ServicesOK' /\ Range(services)' = Range(services) \cup {r}
<1>1. /\ services \in Seq(Service) /\ Len(services) \in Nat /\ DOMAIN services = 1..Len(services)
      /\ \A j, k \in 1..Len(services) : j # k => services[j].id # services[k].id
  BY DEF ServicesOK
<1>2. services' \in Seq(Service) /\ Len(services') = Len(services) + 1 /\ DOMAIN services' = 1..Len(services) + 1
  BY <1>1
<1>3. \A j \in 1..Len(services) + 1 : services'[j] = IF j = 1 THEN r ELSE services[j - 1]
  BY <1>1
<1>4. \A j \in 1..Len(services) : services[j].id # r.id
  BY <1>1, ServicesAre DEF IdsOf
<1>5. ServicesOK'
  <2>1. ASSUME NEW j \in 1..Len(services) + 1, NEW k \in 1..Len(services) + 1, j # k
        PROVE  services'[j].id # services'[k].id
    <3>1. CASE j = 1
      <4>1. services'[j] = r /\ services'[k] = services[k - 1] /\ k - 1 \in 1..Len(services)
        BY <1>1, <1>3, <2>1, <3>1
      <4> QED
        BY <1>4, <4>1
    <3>2. CASE k = 1
      <4>1. services'[k] = r /\ services'[j] = services[j - 1] /\ j - 1 \in 1..Len(services)
        BY <1>1, <1>3, <2>1, <3>2
      <4> QED
        BY <1>4, <4>1
    <3>3. CASE j # 1 /\ k # 1
      <4>1. /\ services'[k] = services[k - 1] /\ k - 1 \in 1..Len(services)
            /\ services'[j] = services[j - 1] /\ j - 1 \in 1..Len(services) /\ j - 1 # k - 1
        BY <1>1, <1>3, <2>1, <3>3
      <4> QED
        BY <1>1, <4>1
    <3> QED
      BY <3>1, <3>2, <3>3
  <2> QED
    BY <1>2, <2>1 DEF ServicesOK
<1>6. ASSUME NEW x \in Range(services')
      PROVE  x \in Range(services) \cup {r}
  <2>1. PICK j \in 1..Len(services) + 1 : x = services'[j]
    BY <1>2 DEF Range
  <2>2. j # 1 => j - 1 \in 1..Len(services)
    BY <1>1
  <2> QED
    BY <1>1, <1>3, <2>1, <2>2 DEF Range
<1>7. r \in Range(services')
  <2>1. 1 \in 1..Len(services) + 1
    BY <1>1
  <2> QED
    BY <1>2, <1>3, <2>1 DEF Range
<1>8. ASSUME NEW x \in Range(services)
      PROVE  x \in Range(services')
  <2>1. PICK j \in 1..Len(services) : x = services[j]
    BY <1>1 DEF Range
  <2>2. j + 1 \in 1..Len(services) + 1 /\ j + 1 # 1 /\ (j + 1) - 1 = j
    BY <1>1
  <2>3. services'[j + 1] = x
    BY <1>3, <2>1, <2>2
  <2> QED
    BY <1>2, <2>2, <2>3 DEF Range
<1> QED
  BY <1>5, <1>6, <1>7, <1>8

(* Some services go. *)
LEMMA RemovedFrom ==
  ASSUME ServicesOK, NEW S, Removes(S)
  PROVE  ServicesOK' /\ Range(services)' = Range(services) \ S
<1> DEFINE I == {i \in 1..Len(services) : services[i] \notin S}
           N == Cardinality(I)
<1>1. /\ services \in Seq(Service) /\ Len(services) \in Nat /\ DOMAIN services = 1..Len(services)
      /\ \A j, k \in 1..Len(services) : j # k => services[j].id # services[k].id
  BY DEF ServicesOK
<1>2. N \in Nat
  <2>1. IsFiniteSet(1..Len(services)) /\ I \subseteq 1..Len(services)
    BY <1>1, FS_Interval
  <2> QED
    BY <2>1, FS_Subset, FS_CardinalityType
<1>3. PICK f \in Bijection(1..N, I) : services' = [n \in DOMAIN f |-> services[f[n]]]
  BY DEF Removes
<1>4. /\ f \in [1..N -> I] /\ (\A m, n \in 1..N : f[m] = f[n] => m = n)
      /\ \A i \in I : \E n \in 1..N : f[n] = i
  <2> HIDE DEF N, I
  <2> QED
    BY DEF Bijection, Injection, Surjection, IsInjective
<1>5. services' = [n \in 1..N |-> services[f[n]]]
  BY <1>3, <1>4
<1>6. \A n \in 1..N : f[n] \in 1..Len(services) /\ services[f[n]] \in Service /\ services[f[n]] \notin S
  BY <1>1, <1>4
<1>7. services' \in Seq(Service) /\ Len(services') = N /\ DOMAIN services' = 1..N
  <2> HIDE DEF N, I
  <2> QED
    BY <1>2, <1>5, <1>6
<1>8. ServicesOK'
  <2>1. ASSUME NEW m \in 1..N, NEW n \in 1..N, m # n
        PROVE  services'[m].id # services'[n].id
    <3>1. f[m] # f[n] /\ services'[m] = services[f[m]] /\ services'[n] = services[f[n]]
      BY <1>4, <1>5, <2>1
    <3> QED
      BY <1>1, <1>6, <3>1
  <2> HIDE DEF N, I
  <2> QED
    BY <1>7, <2>1 DEF ServicesOK
<1>9. Range(services') = {services[f[n]] : n \in 1..N} /\ Range(services) = {services[i] : i \in 1..Len(services)}
  <2> HIDE DEF N, I
  <2> QED
    BY <1>1, <1>5, <1>7 DEF Range
<1>10. ASSUME NEW x \in Range(services) \ S
       PROVE  x \in Range(services')
  <2>1. PICK i \in I : x = services[i]
    BY <1>9
  <2>2. PICK n \in 1..N : f[n] = i
    BY <1>4
  <2> QED
    BY <1>9, <2>1, <2>2
<1>11. ASSUME NEW x \in Range(services')
       PROVE  x \in Range(services) \ S
  <2> HIDE DEF N, I
  <2> QED
    BY <1>6, <1>9
<1> QED
  BY <1>8, <1>10, <1>11

-----------------------------------------------------------------------------
(* Services that go.                                                        *)

LEMMA RecordsTyped ==
  ASSUME NEW s \in Service
  PROVE  /\ All(s) \subseteq Records
         /\ \A T \in SUBSET (Subtypes \cup {"all"}) : RecordsOf(s, T) \subseteq Records
<1>1. s.name \in AllNames /\ s.subtypes \subseteq Subtypes
  BY DEF Service
<1>2. \A T \in SUBSET (Subtypes \cup {"all"}) : RecordsOf(s, T) \subseteq Records
  BY <1>1 DEF RecordsOf, Records
<1> QED
  BY <1>1, <1>2 DEF All

(* Records of services with different names differ. *)
LEMMA NamesApart ==
  ASSUME NEW x, NEW s, NEW T, x.name # s.name
  PROVE  All(x) \cap RecordsOf(s, T) = {} /\ All(x) \cap All(s) = {}
  BY DEF All, RecordsOf

LEMMA HeardTyped ==
  ASSUME NEW w \in AirType
  PROVE  /\ w.state \in {"PROBE", "ANNOUNCE", "RUNNING"}
         /\ w.packet \in PacketType
         /\ w.packet.services \subseteq Ids /\ w.packet.hosts \subseteq Hosts
         /\ w.packet.said \in BOOLEAN /\ w.packet.made \in BOOLEAN
         /\ w.heard \in [ptr : SUBSET Records, txt : [AllNames -> Texts]]
         /\ w.heard.ptr \subseteq Records /\ w.heard.txt \in [AllNames -> Texts]
         /\ w.stale \subseteq Records
  BY DEF AirType, PacketType

LEMMA NothingIs ==
  /\ Nothing \in PacketType
  /\ Nothing.services = {} /\ Nothing.hosts = {} /\ Nothing.said = FALSE /\ Nothing.made = FALSE
  BY DEF Nothing, PacketType

(* A goodbye, or the lack of it: records of others are not touched, those   *)
(* that are still held are stale.                                           *)
Parted(b, w, R) ==
  /\ b \in AirType
  /\ b.state = w.state /\ b.packet = w.packet /\ b.heard.txt = w.heard.txt
  /\ b.heard.ptr \subseteq w.heard.ptr /\ w.heard.ptr \ R \subseteq b.heard.ptr
  /\ b.heard.ptr \cap (w.stale \cup R) \subseteq b.stale

LEMMA ByedIs ==
  ASSUME NEW w \in AirType, NEW X, X \subseteq Service, NEW mute, mute \subseteq X
  PROVE  Parted(Byed(w, X, mute), w, UNION {All(s) : s \in X})
<1> DEFINE b == Byed(w, X, mute)
           R == UNION {All(s) : s \in X \ mute}
           M == UNION {All(s) : s \in mute}
<1>1. R \subseteq Records /\ M \subseteq Records
  BY RecordsTyped
<1>2. b = IF w.state = "RUNNING" THEN [w EXCEPT !.heard.ptr = @ \ R, !.stale = (@ \cup M) \ R]
                                 ELSE [w EXCEPT !.stale = @ \cup R \cup M]
  BY DEF Byed
<1>3. UNION {All(s) : s \in X} = R \cup M
  OBVIOUS
<1> HIDE DEF b, R, M
<1>4. CASE w.state = "RUNNING"
  <2>1. b = [w EXCEPT !.heard = [w.heard EXCEPT !.ptr = @ \ R], !.stale = (@ \cup M) \ R]
    BY <1>2, <1>4, HeardTyped DEF AirType
  <2>2. PICK h : h = [w.heard EXCEPT !.ptr = @ \ R]
    OBVIOUS
  <2>3. /\ h \in [ptr : SUBSET Records, txt : [AllNames -> Texts]]
        /\ h.ptr = w.heard.ptr \ R /\ h.txt = w.heard.txt
    BY <2>2, HeardTyped
  <2>4. (w.stale \cup M) \ R \subseteq Records
    BY <1>1, HeardTyped
  <2>5. /\ b \in AirType /\ b.state = w.state /\ b.packet = w.packet
        /\ b.heard = h /\ b.stale = (w.stale \cup M) \ R
    BY <2>1, <2>2, <2>3, <2>4 DEF AirType
  <2> QED
    BY <1>3, <2>3, <2>5 DEF b, Parted
<1>5. CASE w.state # "RUNNING"
  <2>1. b = [w EXCEPT !.stale = @ \cup R \cup M]
    BY <1>2, <1>5
  <2>2. /\ b \in AirType /\ b.state = w.state /\ b.packet = w.packet
        /\ b.heard = w.heard /\ b.stale = w.stale \cup R \cup M
    BY <1>1, <2>1 DEF AirType
  <2> QED
    BY <1>3, <2>2 DEF b, Parted
<1> QED
  BY <1>4, <1>5

LEMMA UnscheduledIs ==
  ASSUME NEW w \in AirType, NEW X
  PROVE  LET v == Unscheduled(w, X)
         IN /\ v \in AirType /\ v.heard = w.heard /\ v.stale = w.stale
            /\ v.packet.services = w.packet.services \ IdsOf(X)
            /\ v.packet.said => w.packet.said
            /\ Shaped(w) => Shaped(v)
<1> DEFINE v == Unscheduled(w, X)
           left == w.packet.services \ IdsOf(X)
           done == w.packet.made /\ left = {} /\ w.packet.hosts = {}
<1>1. v = [w EXCEPT !.packet = IF done THEN Nothing ELSE [@ EXCEPT !.services = left],
                    !.state = IF done THEN "RUNNING" ELSE @]
  BY DEF Unscheduled, IdsOf
<1>2. left \subseteq Ids
  BY HeardTyped
<1> HIDE DEF v
<1>3. CASE done
  <2>1. v = [w EXCEPT !.packet = Nothing, !.state = "RUNNING"] /\ left = {}
    BY <1>1, <1>3
  <2>2. v \in AirType /\ v.heard = w.heard /\ v.stale = w.stale /\ v.packet = Nothing /\ v.state = "RUNNING"
    BY <2>1, NothingIs DEF AirType
  <2>3. Shaped(v)
    BY <2>2, NothingIs DEF Shaped
  <2> QED
    BY <2>1, <2>2, <2>3, NothingIs DEF v
<1>4. CASE ~done
  <2>1. PICK p : p = [w.packet EXCEPT !.services = left]
    OBVIOUS
  <2>2. v = [w EXCEPT !.packet = p]
    BY <1>1, <1>4, <2>1 DEF AirType
  <2>3. /\ p \in PacketType
        /\ p.services = left /\ p.hosts = w.packet.hosts /\ p.said = w.packet.said /\ p.made = w.packet.made
    BY <1>2, <2>1, HeardTyped DEF PacketType
  <2>4. v \in AirType /\ v.heard = w.heard /\ v.stale = w.stale /\ v.packet = p /\ v.state = w.state
    <3> HIDE DEF left
    <3> QED
      BY <2>2, <2>3 DEF AirType
  <2>5. w.packet = Nothing => p = Nothing
    BY <2>1, NothingIs DEF Nothing
  <2>6. ASSUME Shaped(w)
        PROVE  Shaped(v)
    BY <1>4, <2>3, <2>4, <2>5, <2>6 DEF Shaped
  <2> HIDE DEF left
  <2> QED
    BY <2>3, <2>4, <2>6 DEF v, left
<1> QED
  BY <1>3, <1>4

NamesakesIn(S, X) == IdsOf({x \in S : \E y \in X : x.name = y.name}) \ IdsOf(X)

LEMMA RemovedSound ==
  ASSUME NEW S, NEW w, NEW u, Sound(S, w, u), NEW X, X \subseteq S, NEW mute, mute \subseteq X
  PROVE  Sound(S \ X, Removed(w, X, mute), (u \cup NamesakesIn(S, X)) \ IdsOf(X))
<1> DEFINE R == UNION {All(s) : s \in X}
<1>1. S \subseteq Service /\ Distinct(S) /\ w \in AirType /\ u \subseteq Ids /\ X \subseteq Service
  BY DEF Sound, Sane
<1>2. PICK b : b = Byed(w, X, mute)
  OBVIOUS
<1>3. Parted(b, w, R)
  BY <1>1, <1>2, ByedIs
<1>4. PICK v : v = Removed(w, X, mute)
  OBVIOUS
<1>5. /\ v \in AirType /\ v.heard = b.heard /\ v.stale = b.stale
      /\ v.packet.services = w.packet.services \ IdsOf(X)
      /\ v.packet.said => w.packet.said
      /\ Shaped(v)
  <2>1. v = Unscheduled(b, X)
    BY <1>2, <1>4 DEF Removed
  <2>2. b \in AirType /\ b.state = w.state /\ b.packet = w.packet /\ Shaped(b)
    BY <1>3 DEF Parted, Sound, Sane, Shaped
  <2> QED
    BY <2>1, <2>2, UnscheduledIs
<1>6. PICK u2 : u2 = (u \cup NamesakesIn(S, X)) \ IdsOf(X)
  OBVIOUS
<1>7. Sane(S \ X, v, u2)
  <2>1. IdsOf(S) \subseteq Ids /\ IdsOf(S) \ IdsOf(X) \subseteq IdsOf(S \ X)
    BY <1>1 DEF IdsOf, Service
  <2>2. u2 \subseteq Ids
    BY <1>1, <1>6, <2>1 DEF NamesakesIn, IdsOf
  <2>3. S \ X \subseteq Service /\ Distinct(S \ X)
    BY <1>1 DEF Distinct
  <2>4. v.packet.services \subseteq IdsOf(S \ X)
    BY <1>5, <2>1 DEF Sound, Sane
  <2> QED
    BY <1>5, <2>2, <2>3, <2>4 DEF Sane
<1>8. Forgets(S \ X, v)
  <2>1. w.heard.ptr \subseteq w.stale \cup R \cup UNION {All(s) : s \in S \ X}
    BY DEF Sound, Forgets
  <2> HIDE DEF R
  <2> QED
    BY <1>3, <1>5, <2>1 DEF Forgets, Parted
<1>9. Knows(S \ X, v, u2)
  <2> SUFFICES ASSUME NEW x \in S \ X, Due(x, S \ X, v, u2)
               PROVE  Known(x, v)
    BY DEF Knows
  <2>1. x.id \notin IdsOf(X)
    BY <1>1 DEF IdsOf, Distinct
  <2>2. x.id \notin u /\ \A y \in X : x.name # y.name
    <3>1. x.id \notin u /\ x.id \notin NamesakesIn(S, X)
      BY <1>6, <2>1 DEF Due
    <3> QED
      BY <2>1, <3>1 DEF NamesakesIn, IdsOf
  <2>3. Alone(x, S)
    BY <2>2 DEF Due, Alone
  <2>4. x.id \notin w.packet.services \/ w.packet.said
    BY <1>5, <2>1 DEF Due
  <2>5. Known(x, w)
    BY <2>2, <2>3, <2>4 DEF Sound, Knows, Due
  <2>6. All(x) \cap R = {}
    BY <2>2, NamesApart
  <2> HIDE DEF R
  <2> QED
    BY <1>3, <1>5, <2>5, <2>6 DEF Known, Parted
<1> QED
  BY <1>4, <1>6, <1>7, <1>8, <1>9 DEF Sound

(* More services may be left without an announcement. *)
LEMMA SoundWith ==
  ASSUME NEW S, NEW w, NEW u, Sound(S, w, u), NEW u2 \in SUBSET Ids, \A x \in S : x.id \in u => x.id \in u2
  PROVE  Sound(S, w, u2)
<1>1. Knows(S, w, u2)
  BY DEF Sound, Knows, Due
<1> QED
  BY <1>1 DEF Sound, Sane

LEMMA TwiceRemovedSound ==
  ASSUME NEW S, NEW w, NEW u, Sound(S, w, u), NEW X, X \subseteq S, NEW Y, Y \subseteq X,
         NEW mute, mute \subseteq X \ Y
  PROVE  Sound(S \ X, Removed(Removed(w, Y, {}), X \ Y, mute), (u \cup NamesakesIn(S, X)) \ IdsOf(X))
<1>1. PICK v, u2 : v = Removed(w, Y, {}) /\ u2 = (u \cup NamesakesIn(S, Y)) \ IdsOf(Y)
  OBVIOUS
<1>2. Sound(S \ Y, v, u2)
  BY <1>1, RemovedSound
<1>3. PICK v2, u3 : v2 = Removed(v, X \ Y, mute) /\ u3 = (u2 \cup NamesakesIn(S \ Y, X \ Y)) \ IdsOf(X \ Y)
  OBVIOUS
<1>4. (S \ Y) \ (X \ Y) = S \ X
  OBVIOUS
<1>5. Sound(S \ X, v2, u3)
  BY <1>2, <1>3, <1>4, RemovedSound
<1>6. PICK u4 : u4 = (u \cup NamesakesIn(S, X)) \ IdsOf(X)
  OBVIOUS
<1>7. u4 \in SUBSET Ids
  BY <1>6 DEF Sound, Sane, NamesakesIn, IdsOf, Service
<1>8. ASSUME NEW x \in S \ X, x.id \in u3
      PROVE  x.id \in u4
  <2>1. x.id \notin IdsOf(X)
    BY DEF Sound, Sane, Distinct, IdsOf
  <2>2. x.id \in u \/ x.id \in NamesakesIn(S, Y) \/ x.id \in NamesakesIn(S \ Y, X \ Y)
    BY <1>1, <1>3, <1>8
  <2>3. x.id \in NamesakesIn(S, Y) \/ x.id \in NamesakesIn(S \ Y, X \ Y) => x.id \in NamesakesIn(S, X)
    BY <2>1 DEF NamesakesIn, IdsOf
  <2> QED
    BY <1>6, <2>1, <2>2, <2>3
<1> QED
  BY <1>1, <1>3, <1>5, <1>6, <1>7, <1>8, SoundWith

-----------------------------------------------------------------------------
(* Services that are probed for.                                            *)

(* The PCB turns to the service in the block id: the others that have no    *)
(* announcement now are among u2, and so is id without a packet.            *)
Turns(v, w, id, u, u2, quiet) ==
  /\ v.state \in {"PROBE", "ANNOUNCE", "RUNNING"} /\ v.packet \in PacketType /\ Shaped(v)
  /\ v.packet.services \subseteq w.packet.services \cup {id}
  /\ u2 \subseteq Ids
  /\ \A i \in Ids :
       i \notin u2 /\ (i \notin v.packet.services \/ v.packet.said)
         => /\ i # id /\ i \notin u /\ i \notin quiet
            /\ i \notin w.packet.services \/ w.packet.said

(* S2 is S but for the service in the block id, whose namesakes are quiet.  *)
AllBut(id, S, S2, quiet) ==
  /\ S2 \subseteq Service /\ Distinct(S2) /\ id \in IdsOf(S2)
  /\ \A x \in S2 : x.id # id => x \in S
  /\ \A x \in S : x.id # id => x \in S2
  /\ \A x, y \in S : x.id # id /\ y.id = id /\ x.name = y.name => x.id \in quiet

(* Other services' records are still held; what is held is there or stale. *)
StillHeard(id, S, S2, quiet, w, h, lost) ==
  /\ h \in [ptr : SUBSET Records, txt : [AllNames -> Texts]] /\ lost \in SUBSET Records
  /\ h.txt = w.heard.txt
  /\ \A x \in S : x.id # id /\ x.id \notin quiet => All(x) \cap w.heard.ptr \subseteq h.ptr
  /\ h.ptr \subseteq lost \cup UNION {All(s) : s \in S2}

LEMMA OthersKept ==
  ASSUME NEW S, NEW w, NEW u, Sound(S, w, u), NEW id, NEW S2, NEW quiet, AllBut(id, S, S2, quiet)
  PROVE  IdsOf(S) \subseteq IdsOf(S2) /\ IdsOf(S2) \subseteq Ids
<1>1. \A x \in S : x.id \in IdsOf(S2)
  <2> TAKE x \in S
  <2>1. CASE x.id = id
    BY <2>1 DEF AllBut
  <2>2. CASE x.id # id
    BY <2>2 DEF AllBut, IdsOf
  <2> QED
    BY <2>1, <2>2
<1>2. IdsOf(S) \subseteq IdsOf(S2)
  BY <1>1 DEF IdsOf
<1>3. S2 \subseteq Service
  BY DEF AllBut
<1> QED
  BY <1>2, <1>3 DEF IdsOf, Service

LEMMA TurnedSound ==
  ASSUME NEW S, NEW w, NEW u, Sound(S, w, u),
         NEW id \in Ids, NEW S2, NEW quiet, AllBut(id, S, S2, quiet),
         NEW v \in AirType, StillHeard(id, S, S2, quiet, w, v.heard, v.stale),
         NEW u2, Turns(v, w, id, u, u2, quiet)
  PROVE  Sound(S2, v, u2)
<1>1. w.packet.services \subseteq IdsOf(S) /\ S2 \subseteq Service
  BY DEF Sound, Sane, AllBut
<1>2. v.packet.services \subseteq IdsOf(S2)
  <2>1. IdsOf(S) \subseteq IdsOf(S2) /\ id \in IdsOf(S2)
    BY OthersKept DEF AllBut
  <2> QED
    BY <1>1, <2>1 DEF Turns
<1>3. Sane(S2, v, u2)
  BY <1>2 DEF Sane, AllBut, Turns
<1>4. Forgets(S2, v)
  BY DEF Forgets, StillHeard
<1>5. Knows(S2, v, u2)
  <2> SUFFICES ASSUME NEW x \in S2, Due(x, S2, v, u2)
               PROVE  Known(x, v)
    BY DEF Knows
  <2>1. x.id \in Ids
    BY <1>1 DEF Service
  <2>2. /\ x.id # id /\ x.id \notin u /\ x.id \notin quiet
        /\ x.id \notin w.packet.services \/ w.packet.said
    BY <2>1 DEF Turns, Due
  <2>3. x \in S
    BY <2>2 DEF AllBut
  <2>4. Alone(x, S)
    <3>1. ASSUME NEW y \in S, y.name = x.name
          PROVE  y.id = x.id
      <4>1. y.id # id
        BY <2>2, <2>3, <3>1 DEF AllBut
      <4>2. y \in S2
        BY <4>1 DEF AllBut
      <4> QED
        BY <3>1, <4>2 DEF Due, Alone
    <3> QED
      BY <3>1 DEF Alone
  <2>5. Known(x, w)
    BY <2>2, <2>3, <2>4 DEF Sound, Knows, Due
  <2> QED
    BY <2>2, <2>3, <2>5 DEF Known, StillHeard
<1> QED
  BY <1>3, <1>4, <1>5 DEF Sound

-----------------------------------------------------------------------------
(* Services that keep their names.                                          *)

(* Goodbyes for some subtypes, and others that are lost. *)
ChangedAir(w, s, bye, lost) ==
  [w EXCEPT !.heard = [w.heard EXCEPT !.ptr = w.heard.ptr \ RecordsOf(s, bye)],
            !.stale = (@ \ RecordsOf(s, bye)) \cup RecordsOf(s, lost)]

(* s becomes r; subtypes that go are among bye and lost. *)
Becomes(s, r, bye, lost) ==
  /\ r \in Service /\ r.id = s.id /\ r.name = s.name
  /\ bye \subseteq Subtypes /\ lost \subseteq Subtypes
  /\ s.subtypes \subseteq r.subtypes \cup bye \cup lost
  /\ bye \cap r.subtypes = {}

ChangedTo(v, w, s, bye, lost) ==
  /\ v \in AirType /\ v.state = w.state /\ v.packet = w.packet
  /\ v.heard.ptr = w.heard.ptr \ RecordsOf(s, bye) /\ v.heard.txt = w.heard.txt
  /\ v.stale = (w.stale \ RecordsOf(s, bye)) \cup RecordsOf(s, lost)

LEMMA ChangedIs ==
  ASSUME NEW w \in AirType, NEW s \in Service,
         NEW bye, bye \subseteq Subtypes, NEW lost, lost \subseteq Subtypes,
         NEW v, v = ChangedAir(w, s, bye, lost)
  PROVE  ChangedTo(v, w, s, bye, lost)
<1>1. PICK B, L : B = RecordsOf(s, bye) /\ L = RecordsOf(s, lost)
  OBVIOUS
<1>2. L \subseteq Records
  BY <1>1, RecordsTyped
<1>3. PICK h : h = [w.heard EXCEPT !.ptr = @ \ B]
  OBVIOUS
<1>4. /\ h \in [ptr : SUBSET Records, txt : [AllNames -> Texts]]
      /\ h.ptr = w.heard.ptr \ B /\ h.txt = w.heard.txt
  BY <1>3, HeardTyped
<1>5. v = [w EXCEPT !.heard = h, !.stale = (@ \ B) \cup L]
  BY <1>1, <1>3 DEF ChangedAir, AirType
<1>6. v \in AirType /\ v.state = w.state /\ v.packet = w.packet /\ v.heard = h /\ v.stale = (w.stale \ B) \cup L
  BY <1>2, <1>4, <1>5 DEF AirType
<1> QED
  BY <1>1, <1>4, <1>6 DEF ChangedTo

(* What a change of s does to S, but for what is known of s. *)
LEMMA BecomesIn ==
  ASSUME NEW S, NEW w, NEW u, Sound(S, w, u), NEW s \in S, NEW r, NEW bye, NEW lost, Becomes(s, r, bye, lost)
  PROVE  LET S2 == (S \ {s}) \cup {r}
             v  == ChangedAir(w, s, bye, lost)
         IN /\ S2 \subseteq Service /\ Distinct(S2) /\ IdsOf(S2) = IdsOf(S)
            /\ Sane(S2, v, u) /\ Forgets(S2, v)
            /\ \A x \in S2 : x # r /\ Alone(x, S2) => x \in S /\ Alone(x, S) /\ (Known(x, w) => Known(x, v))
            /\ Alone(r, S2) => Alone(s, S)
            /\ r.subtypes \subseteq s.subtypes /\ r.txt = s.txt /\ Known(s, w) => Known(r, v)
<1> DEFINE S2 == (S \ {s}) \cup {r}
<1>1. S \subseteq Service /\ Distinct(S) /\ w \in AirType /\ u \subseteq Ids /\ s \in Service
  BY DEF Sound, Sane
<1>2. /\ r \in Service /\ r.id = s.id /\ r.name = s.name
      /\ bye \subseteq Subtypes /\ lost \subseteq Subtypes
      /\ s.subtypes \subseteq r.subtypes \cup bye \cup lost
      /\ bye \cap r.subtypes = {}
  BY DEF Becomes
<1>3. PICK v : v = ChangedAir(w, s, bye, lost)
  OBVIOUS
<1>4. /\ v \in AirType /\ v.state = w.state /\ v.packet = w.packet
      /\ v.heard.ptr = w.heard.ptr \ RecordsOf(s, bye) /\ v.heard.txt = w.heard.txt
      /\ v.stale = (w.stale \ RecordsOf(s, bye)) \cup RecordsOf(s, lost)
  <2>1. /\ w \in AirType /\ s \in Service
        /\ bye \subseteq Subtypes /\ lost \subseteq Subtypes
    BY <1>1, <1>2
  <2>2. ChangedTo(v, w, s, bye, lost)
    BY <1>3, <2>1, ChangedIs
  <2> QED
    BY <2>2 DEF ChangedTo
<1>5. S2 \subseteq Service /\ Distinct(S2)
  BY <1>1, <1>2 DEF Distinct
<1>6. IdsOf(S2) = IdsOf(S)
  BY <1>2 DEF IdsOf
<1>7. Sane(S2, v, u)
  <2>1. Shaped(v)
    BY <1>4 DEF Sound, Sane, Shaped
  <2> QED
    BY <1>4, <1>5, <1>6, <2>1 DEF Sound, Sane
<1>8. All(s) \subseteq All(r) \cup RecordsOf(s, bye) \cup RecordsOf(s, lost)
  BY <1>2 DEF All, RecordsOf
<1>9. Forgets(S2, v)
  <2>1. w.heard.ptr \subseteq w.stale \cup All(s) \cup UNION {All(x) : x \in S \ {s}}
    BY DEF Sound, Forgets
  <2>2. UNION {All(x) : x \in S2} = All(r) \cup UNION {All(x) : x \in S \ {s}}
    OBVIOUS
  <2> HIDE DEF S2
  <2> QED
    BY <1>4, <1>8, <2>1, <2>2 DEF Forgets
<1>10. ASSUME NEW x \in S2, Alone(x, S2), x # r
       PROVE  Alone(x, S)
  <2>1. ASSUME NEW y \in S, y.name = x.name
        PROVE  y.id = x.id
    <3>1. CASE y = s
      BY <1>2, <1>10, <2>1, <3>1 DEF Alone
    <3>2. CASE y # s
      BY <1>10, <2>1, <3>2 DEF Alone
    <3> QED
      BY <3>1, <3>2
  <2> QED
    BY <2>1 DEF Alone
<1>11. ASSUME NEW x \in S2, Alone(x, S2), x # r
       PROVE  x.name # s.name
  <2>1. x.id # s.id
    BY <1>1, <1>11 DEF Distinct
  <2> QED
    BY <1>2, <1>11, <2>1 DEF Alone
<1>12. ASSUME Alone(r, S2)
       PROVE  Alone(s, S)
  BY <1>2, <1>12 DEF Alone
<1>13. ASSUME r.subtypes \subseteq s.subtypes, r.txt = s.txt, Known(s, w)
       PROVE  Known(r, v)
  <2>1. All(r) \subseteq All(s) /\ All(r) \cap RecordsOf(s, bye) = {}
    BY <1>2, <1>13, RecordsAssumption DEF All, RecordsOf
  <2> QED
    BY <1>2, <1>4, <1>13, <2>1 DEF Known
<1>14. ASSUME NEW x \in S2, x # r, Alone(x, S2)
       PROVE  x \in S /\ Alone(x, S) /\ (Known(x, w) => Known(x, v))
  <2>1. x.name # s.name /\ Alone(x, S)
    BY <1>10, <1>11, <1>14
  <2>2. All(x) \cap RecordsOf(s, bye) = {}
    BY <2>1, NamesApart
  <2>3. Known(x, w) => Known(x, v)
    BY <1>4, <2>2 DEF Known
  <2> QED
    BY <1>14, <2>1, <2>3
<1> HIDE DEF S2
<1>15. /\ Sane(S2, v, u) /\ Forgets(S2, v)
       /\ \A x \in S2 : x # r /\ Alone(x, S2) => x \in S /\ Alone(x, S) /\ (Known(x, w) => Known(x, v))
       /\ Alone(r, S2) => Alone(s, S)
       /\ r.subtypes \subseteq s.subtypes /\ r.txt = s.txt /\ Known(s, w) => Known(r, v)
  BY <1>7, <1>9, <1>12, <1>13, <1>14
<1> QED
  BY <1>3, <1>5, <1>6, <1>15 DEF S2

(* An announcement follows, or there is no memory for it. *)
LEMMA AnnouncedSound ==
  ASSUME NEW S, NEW w, NEW u, Sound(S, w, u), NEW s \in S, NEW r, NEW bye, NEW lost, Becomes(s, r, bye, lost),
         NEW z \in AirType,
         z.heard = ChangedAir(w, s, bye, lost).heard, z.stale = ChangedAir(w, s, bye, lost).stale,
         NEW u2, Turns(z, w, s.id, u, u2, {})
  PROVE  Sound((S \ {s}) \cup {r}, z, u2)
<1>1. PICK S2, v : S2 = (S \ {s}) \cup {r} /\ v = ChangedAir(w, s, bye, lost)
  OBVIOUS
<1>2. /\ IdsOf(S2) = IdsOf(S) /\ Sane(S2, v, u) /\ Forgets(S2, v)
      /\ \A x \in S2 : x # r /\ Alone(x, S2) => x \in S /\ Alone(x, S) /\ (Known(x, w) => Known(x, v))
  BY <1>1, BecomesIn
<1>3. s.id \in IdsOf(S) /\ r.id = s.id /\ S2 \subseteq Service
  BY <1>2 DEF Sane, IdsOf, Becomes
<1>4. z.heard = v.heard /\ z.stale = v.stale
  BY <1>1
<1>5. z.packet.services \subseteq IdsOf(S2)
  BY <1>2, <1>3 DEF Sound, Sane, Turns
<1>6. Sane(S2, z, u2)
  BY <1>2, <1>5 DEF Sane, Turns
<1>7. Forgets(S2, z)
  BY <1>2, <1>4 DEF Forgets
<1>8. Knows(S2, z, u2)
  <2> SUFFICES ASSUME NEW x \in S2, Due(x, S2, z, u2)
               PROVE  Known(x, z)
    BY DEF Knows
  <2>1. x.id \in Ids
    BY <1>3 DEF Service
  <2>2. x.id # s.id /\ x.id \notin u /\ (x.id \notin w.packet.services \/ w.packet.said)
    BY <2>1 DEF Turns, Due
  <2>3. x \in S /\ Alone(x, S) /\ (Known(x, w) => Known(x, v))
    BY <1>2, <1>3, <2>2 DEF Due
  <2>4. Known(x, w)
    BY <2>2, <2>3 DEF Sound, Knows, Due
  <2> QED
    BY <1>4, <2>3, <2>4 DEF Known
<1> QED
  BY <1>1, <1>6, <1>7, <1>8 DEF Sound

(* None follows: what is left must be known, or u names the service. *)
LEMMA SilentSound ==
  ASSUME NEW S, NEW w, NEW u, Sound(S, w, u), NEW s \in S, NEW r, NEW bye, NEW lost, Becomes(s, r, bye, lost),
         NEW u2 \in SUBSET Ids, u \subseteq u2,
         s.id \in u2 \/ (r.subtypes \subseteq s.subtypes /\ r.txt = s.txt)
  PROVE  Sound((S \ {s}) \cup {r}, ChangedAir(w, s, bye, lost), u2)
<1>1. PICK S2, v : S2 = (S \ {s}) \cup {r} /\ v = ChangedAir(w, s, bye, lost)
  OBVIOUS
<1>2. /\ Sane(S2, v, u) /\ Forgets(S2, v)
      /\ \A x \in S2 : x # r /\ Alone(x, S2) => x \in S /\ Alone(x, S) /\ (Known(x, w) => Known(x, v))
      /\ Alone(r, S2) => Alone(s, S)
      /\ r.subtypes \subseteq s.subtypes /\ r.txt = s.txt /\ Known(s, w) => Known(r, v)
  BY <1>1, BecomesIn
<1>3. r.id = s.id
  BY DEF Becomes
<1>4. v.packet = w.packet
  <2>1. /\ w \in AirType /\ s \in Service
        /\ bye \subseteq Subtypes /\ lost \subseteq Subtypes
    BY DEF Sound, Sane, Becomes
  <2>2. ChangedTo(v, w, s, bye, lost)
    BY <1>1, <2>1, ChangedIs
  <2> QED
    BY <2>2 DEF ChangedTo
<1>5. Knows(S2, v, u2)
  <2> SUFFICES ASSUME NEW x \in S2, Due(x, S2, v, u2)
               PROVE  Known(x, v)
    BY DEF Knows
  <2>1. x.id \notin u /\ (x.id \notin w.packet.services \/ w.packet.said)
    BY <1>4 DEF Due
  <2>2. CASE x = r
    <3>1. Alone(s, S) /\ s.id \notin u /\ (s.id \notin w.packet.services \/ w.packet.said) /\ s.id \notin u2
      BY <1>2, <1>3, <2>1, <2>2 DEF Due
    <3>2. Known(s, w)
      BY <3>1 DEF Sound, Knows, Due
    <3> QED
      BY <1>2, <2>2, <3>1, <3>2
  <2>3. CASE x # r
    <3>1. x \in S /\ Alone(x, S) /\ (Known(x, w) => Known(x, v))
      BY <1>2, <2>3 DEF Due
    <3> QED
      BY <2>1, <3>1 DEF Sound, Knows, Due
  <2> QED
    BY <2>2, <2>3
<1> QED
  BY <1>1, <1>2, <1>5 DEF Sound, Sane

-----------------------------------------------------------------------------
(* The service task.                                                        *)

(* An announcement of the services A is heard. *)
Hears(v, w, A) ==
  /\ v \in AirType /\ v.stale = w.stale
  /\ v.heard.ptr = w.heard.ptr \cup UNION {All(s) : s \in A}
  /\ v.heard.txt = [n \in AllNames |-> IF \E s \in A : s.name = n THEN (CHOOSE s \in A : s.name = n).txt
                                                               ELSE w.heard.txt[n]]
  /\ v.packet.services \subseteq w.packet.services /\ Shaped(v)

LEMMA HeardSound ==
  ASSUME NEW S, NEW w, NEW u, Sound(S, w, u), NEW v, Hears(v, w, {s \in S : s.id \in w.packet.services})
  PROVE  Sound(S, v, u \ w.packet.services)
<1>0. PICK A : A = {s \in S : s.id \in w.packet.services}
  OBVIOUS
<1>1. S \subseteq Service /\ Distinct(S) /\ w \in AirType
  BY DEF Sound, Sane
<1>2. Sane(S, v, u \ w.packet.services)
  BY DEF Sound, Sane, Hears
<1>3. Forgets(S, v)
  BY DEF Sound, Forgets, Hears
<1>4. Knows(S, v, u \ w.packet.services)
  <2> SUFFICES ASSUME NEW x \in S, Due(x, S, v, u \ w.packet.services)
               PROVE  Known(x, v)
    BY DEF Knows
  <2>1. x \in Service /\ x.name \in AllNames
    BY <1>1 DEF Service
  <2>2. \A s \in A : s.name = x.name => s = x
    BY <1>0, <1>1 DEF Due, Alone, Distinct
  <2> DEFINE t(n) == IF \E s \in A : s.name = n THEN (CHOOSE s \in A : s.name = n).txt ELSE w.heard.txt[n]
  <2>5. v.heard.ptr = w.heard.ptr \cup UNION {All(s) : s \in A} /\ v.heard.txt = [n \in AllNames |-> t(n)]
    BY <1>0 DEF Hears
  <2>6. v.heard.txt[x.name] = t(x.name)
    <3> HIDE DEF t
    <3> QED
      BY <2>1, <2>5
  <2>3. CASE x \in A
    <3>1. (CHOOSE s \in A : s.name = x.name) = x
      BY <2>2, <2>3
    <3>2. v.heard.txt[x.name] = x.txt
      BY <2>3, <2>6, <3>1
    <3> HIDE DEF t
    <3> QED
      BY <2>3, <2>5, <3>2 DEF Known
  <2>4. CASE x \notin A
    <3>1. x.id \notin w.packet.services /\ x.id \notin u
      BY <1>0, <2>4 DEF Due
    <3>2. Known(x, w)
      BY <3>1 DEF Sound, Knows, Due
    <3>3. v.heard.txt[x.name] = w.heard.txt[x.name]
      BY <2>2, <2>4, <2>6
    <3> HIDE DEF t
    <3> QED
      BY <2>5, <3>2, <3>3 DEF Known
  <2> QED
    BY <2>3, <2>4
<1> QED
  BY <1>2, <1>3, <1>4 DEF Sound

(* The probes end. *)
LEMMA ProbedOutSound ==
  ASSUME NEW S, NEW w, NEW u, Sound(S, w, u), w.state = "PROBE",
         NEW v \in AirType, v.stale = w.stale, v.heard = w.heard, v.state = "ANNOUNCE",
         v.packet.services = w.packet.services, v.packet.said = w.packet.said,
         v.packet.made, w.packet.made
  PROVE  Sound(S, v, u)
<1>1. Sane(S, v, u)
  BY DEF Sound, Sane, Shaped
<1>2. Forgets(S, v)
  BY DEF Sound, Forgets
<1>3. Knows(S, v, u)
  BY DEF Sound, Knows, Due, Known
<1> QED
  BY <1>1, <1>2, <1>3 DEF Sound

LEMMA AirTyped ==
  ASSUME RecordsInv
  PROVE  /\ Air \in AirType /\ Air.state = state /\ Air.packet = packet /\ Air.heard = heard /\ Air.stale = stale
         /\ ServicesOK /\ Sound(Range(services), Air, unsaid)
         /\ Range(services) \subseteq Service /\ Distinct(Range(services)) /\ unsaid \subseteq Ids
  BY DEF RecordsInv, Sound, Sane, Air

(* What the service task's steps leave alone. *)
TaskLeaves == UNCHANGED <<services, boxed, denied, fate, calls, fails>>

LEMMA TaskKeeps ==
  ASSUME RecordsInv, TaskLeaves, Sound(Range(services), Air', unsaid')
  PROVE  RecordsInv'
  BY DEF RecordsInv, TaskLeaves, ServicesOK

LEMMA StepProbesEnd == ASSUME RecordsInv, ProbesEnd PROVE RecordsInv'
<1> DEFINE S == Range(services)
           here == {s.host : s \in {x \in S : x.id \in packet.services}} \cap ({"self"} \cup {h \in {"box"} : boxed})
<1>1. /\ state = "PROBE" /\ packet.made /\ state' = "ANNOUNCE" /\ packet' = [packet EXCEPT !.hosts = here]
      /\ heard' = heard /\ stale' = stale /\ unsaid' = unsaid /\ TaskLeaves
  BY DEF ProbesEnd, TaskLeaves
<1>2. PICK v : v = Air'
  OBVIOUS
<1>3. v.state = "ANNOUNCE" /\ v.packet = packet' /\ v.heard = heard /\ v.stale = stale
  BY <1>1, <1>2 DEF Air
<1>4. here \subseteq Hosts
  BY DEF Hosts
<1> HIDE DEF here
<1>5. packet \in PacketType
  BY AirTyped, HeardTyped
<1>6. /\ packet' \in PacketType
      /\ packet'.services = packet.services /\ packet'.said = packet.said /\ packet'.made = packet.made
  BY <1>1, <1>4, <1>5 DEF PacketType
<1>7. v \in AirType
  <2>1. v = [state |-> "ANNOUNCE", packet |-> packet', heard |-> heard, stale |-> stale]
    BY <1>1, <1>2 DEF Air
  <2> QED
    BY <1>6, <2>1, AirTyped, HeardTyped DEF AirType
<1>8. Sound(S, v, unsaid)
  <2>1. PICK w : w = Air
    OBVIOUS
  <2>2. Sound(S, w, unsaid) /\ w.state = "PROBE" /\ w.packet = packet /\ w.heard = heard /\ w.stale = stale
    BY <1>1, <2>1, AirTyped
  <2>3. v.packet.made /\ w.packet.made
    BY <1>1, <1>3, <1>6, <2>2
  <2> QED
    BY <1>3, <1>6, <1>7, <2>2, <2>3, ProbedOutSound
<1> QED
  BY <1>1, <1>2, <1>8, TaskKeeps

LEMMA StepAnnouncementSent == ASSUME RecordsInv, AnnouncementSent PROVE RecordsInv'
<1> DEFINE S == Range(services)
<1>1. PICK A : A = {s \in S : s.id \in packet.services}
  OBVIOUS
<1>2. /\ state = "ANNOUNCE" /\ packet.made /\ heard' = HeardAll(A) /\ unsaid' = unsaid \ packet.services
      /\ \/ packet' = [packet EXCEPT !.said = TRUE] /\ state' = state
         \/ packet' = Nothing /\ state' = "RUNNING"
      /\ stale' = stale /\ TaskLeaves
  BY <1>1 DEF AnnouncementSent, TaskLeaves
<1>3. PICK w, v : w = Air /\ v = Air'
  OBVIOUS
<1>4. /\ Sound(S, w, unsaid) /\ w \in AirType
      /\ w.state = state /\ w.packet = packet /\ w.heard = heard /\ w.stale = stale
      /\ v.state = state' /\ v.packet = packet' /\ v.heard = heard' /\ v.stale = stale'
      /\ v = [state |-> state', packet |-> packet', heard |-> heard', stale |-> stale']
  BY <1>3, AirTyped DEF Air
<1>5. /\ packet \in PacketType
      /\ heard.ptr \subseteq Records /\ heard.txt \in [AllNames -> Texts] /\ stale \subseteq Records
  BY <1>4, HeardTyped
<1>6. /\ packet' \in PacketType
      /\ packet'.services \subseteq packet.services /\ Shaped(v)
  <2>1. CASE packet' = [packet EXCEPT !.said = TRUE] /\ state' = state
    <3>1. /\ packet' \in PacketType /\ packet'.services = packet.services
          /\ packet'.hosts = packet.hosts /\ packet'.made = packet.made
      BY <1>5, <2>1 DEF PacketType
    <3>2. Shaped(w)
      BY <1>4 DEF Sound, Sane
    <3>3. Shaped(v)
      BY <1>2, <1>4, <2>1, <3>1, <3>2 DEF Shaped
    <3> QED
      BY <3>1, <3>3
  <2>2. CASE packet' = Nothing /\ state' = "RUNNING"
    <3>1. Shaped(v)
      BY <1>4, <2>2, NothingIs DEF Shaped
    <3> QED
      BY <2>2, <3>1, NothingIs
  <2> QED
    BY <1>2, <2>1, <2>2
<1> DEFINE t(n) == IF \E s \in A : s.name = n THEN (CHOOSE s \in A : s.name = n).txt ELSE heard.txt[n]
<1>7. heard' = [ptr |-> heard.ptr \cup UNION {All(s) : s \in A}, txt |-> [n \in AllNames |-> t(n)]]
  BY <1>2 DEF HeardAll
<1>8. A \subseteq Service
  BY <1>1, AirTyped
<1>9. \A n \in AllNames : t(n) \in Texts
  <2> TAKE n \in AllNames
  <2>1. CASE \E s \in A : s.name = n
    <3>1. (CHOOSE s \in A : s.name = n) \in A
      BY <2>1
    <3>2. (CHOOSE s \in A : s.name = n).txt \in Texts
      BY <1>8, <3>1 DEF Service
    <3> QED
      BY <2>1, <3>2
  <2>2. CASE ~\E s \in A : s.name = n
    BY <1>5, <2>2
  <2> QED
    BY <2>1, <2>2
<1>10. [n \in AllNames |-> t(n)] \in [AllNames -> Texts]
  <2> HIDE DEF t
  <2> QED
    BY <1>9
<1>11. PICK T : T = [n \in AllNames |-> t(n)]
  OBVIOUS
<1>12. PICK R : R = heard.ptr \cup UNION {All(s) : s \in A}
  OBVIOUS
<1>13. R \subseteq Records
  BY <1>5, <1>8, <1>12, RecordsTyped
<1>14. /\ heard' \in [ptr : SUBSET Records, txt : [AllNames -> Texts]]
       /\ heard'.ptr = R /\ heard'.txt = T
  <2>1. heard' = [ptr |-> R, txt |-> T] /\ T \in [AllNames -> Texts]
    BY <1>7, <1>10, <1>11, <1>12
  <2> QED
    BY <1>13, <2>1
<1>15. v \in AirType
  <2>1. state' \in {"PROBE", "ANNOUNCE", "RUNNING"}
    BY <1>2
  <2>2. stale' \in SUBSET Records
    BY <1>2, <1>5
  <2> QED
    BY <1>4, <1>6, <1>14, <2>1, <2>2 DEF AirType
<1>16. Sound(S, v, unsaid')
  <2>1. v.heard.txt = [n \in AllNames |-> IF \E s \in A : s.name = n THEN (CHOOSE s \in A : s.name = n).txt
                                                                     ELSE w.heard.txt[n]]
    BY <1>4, <1>11, <1>14
  <2>2. v.heard.ptr = w.heard.ptr \cup UNION {All(s) : s \in A}
    BY <1>4, <1>12, <1>14
  <2>3. A = {s \in S : s.id \in w.packet.services} /\ unsaid' = unsaid \ w.packet.services /\ v.stale = w.stale
    BY <1>1, <1>2, <1>4, Zenon
  <2>4. v.packet.services \subseteq w.packet.services /\ Shaped(v)
    BY <1>4, <1>6
  <2> HIDE DEF t
  <2>5. Hears(v, w, A)
    BY <1>15, <2>1, <2>2, <2>3, <2>4, Zenon DEF Hears
  <2>6. Sound(S, v, unsaid \ w.packet.services)
    BY <1>4, <2>3, <2>5, HeardSound, Zenon
  <2> QED
    BY <2>3, <2>6, Zenon
<1> QED
  BY <1>2, <1>3, <1>16, TaskKeeps

-----------------------------------------------------------------------------
(* What the functions of the API are made of.                               *)

Counted == calls' \in 0..MaxCalls /\ fails' \in 0..MaxFails /\ denied' \in {"none"} \cup Functions

SoundNext == ServicesOK' /\ Sound(Range(services'), Air', unsaid')

LEMMA CallKeeps ==
  ASSUME Counted, SoundNext, boxed' \in BOOLEAN, fate' \in Fates
  PROVE  RecordsInv'
  BY DEF Counted, SoundNext, RecordsInv

LEMMA ChargesIs ==
  ASSUME NEW failed, Charges(failed)
  PROVE  Succeeds \/ Fails
  BY DEF Charges

LEMMA CallsCount ==
  ASSUME RecordsInv, NEW c, NEW ret, ret = "NO_MEM" => c \in Functions, Calls(c, ret), Succeeds \/ Fails
  PROVE  Counted
<1>1. calls' \in 0..MaxCalls
  BY RecordsAssumption DEF RecordsInv, Calls
<1>2. fails' \in 0..MaxFails
  BY RecordsAssumption DEF RecordsInv, Succeeds, Fails
<1>3. denied' \in {"none"} \cup Functions
  BY DEF Calls
<1> QED
  BY <1>1, <1>2, <1>3 DEF Counted

LEMMA NothingNext ==
  ASSUME RecordsInv, UNCHANGED <<services, air>>
  PROVE  SoundNext
<1>1. services' = services /\ Air' = Air /\ unsaid' = unsaid
  BY DEF air, Air
<1>2. ServicesOK /\ Sound(Range(services), Air, unsaid)
  BY DEF RecordsInv
<1>3. ServicesOK'
  BY <1>1, <1>2 DEF ServicesOK
<1> QED
  BY <1>1, <1>2, <1>3 DEF SoundNext

LEMMA AirsAre ==
  ASSUME NEW w \in AirType, Airs(w)
  PROVE  Air' = w
<1>1. w = [state |-> w.state, packet |-> w.packet, heard |-> w.heard, stale |-> w.stale]
  BY DEF AirType
<1>2. Air' = [state |-> w.state, packet |-> w.packet, heard |-> w.heard, stale |-> w.stale]
  BY DEF Air, Airs
<1> QED
  BY <1>1, <1>2

LEMMA NamesakesAre ==
  ASSUME NEW X
  PROVE  Namesakes(X) = NamesakesIn(Range(services), X)
  BY DEF Namesakes, NamesakesIn, IdsOf

LEMMA RemovesNext ==
  ASSUME RecordsInv, NEW X, X \subseteq Range(services), Removes(X),
         NEW mute, mute \subseteq X, Airs(Removed(Air, X, mute))
  PROVE  SoundNext
<1>1. PICK S, w : S = Range(services) /\ w = Air
  OBVIOUS
<1>2. ServicesOK' /\ Range(services') = S \ X
  BY <1>1, AirTyped, RemovedFrom
<1>3. unsaid' = (unsaid \cup NamesakesIn(S, X)) \ IdsOf(X)
  BY <1>1, NamesakesAre DEF Removes, IdsOf
<1>4. PICK v : v = Removed(w, X, mute)
  OBVIOUS
<1>5. Sound(S \ X, v, unsaid')
  BY <1>1, <1>3, <1>4, AirTyped, RemovedSound
<1>6. Air' = v
  BY <1>1, <1>4, <1>5, AirsAre DEF Sound, Sane
<1> QED
  BY <1>2, <1>5, <1>6 DEF SoundNext

LEMMA RemovesTwiceNext ==
  ASSUME RecordsInv, NEW X, X \subseteq Range(services), NEW Y, Y \subseteq X, NEW mute, mute \subseteq X \ Y,
         Removes(X), Airs(Removed(Removed(Air, Y, {}), X \ Y, mute))
  PROVE  SoundNext
<1>1. PICK S, w : S = Range(services) /\ w = Air
  OBVIOUS
<1>2. ServicesOK' /\ Range(services') = S \ X
  BY <1>1, AirTyped, RemovedFrom
<1>3. unsaid' = (unsaid \cup NamesakesIn(S, X)) \ IdsOf(X)
  BY <1>1, NamesakesAre DEF Removes, IdsOf
<1>4. PICK v : v = Removed(Removed(w, Y, {}), X \ Y, mute)
  OBVIOUS
<1>5. Sound(S \ X, v, unsaid')
  BY <1>1, <1>3, <1>4, AirTyped, TwiceRemovedSound
<1>6. Air' = v
  BY <1>1, <1>4, <1>5, AirsAre DEF Sound, Sane
<1> QED
  BY <1>2, <1>5, <1>6 DEF SoundNext

(* A record of a service with one field changed. *)
LEMMA FieldsChanged ==
  ASSUME ServicesOK, NEW i \in 1..Len(services)
  PROVE  /\ \A n : [services EXCEPT ![i].name = n] = [services EXCEPT ![i] = [services[i] EXCEPT !.name = n]]
         /\ \A t : [services EXCEPT ![i].txt = t] = [services EXCEPT ![i] = [services[i] EXCEPT !.txt = t]]
         /\ \A T : [services EXCEPT ![i].subtypes = T] = [services EXCEPT ![i] = [services[i] EXCEPT !.subtypes = T]]
  OBVIOUS

LEMMA ScheduledIs ==
  ASSUME NEW S \in SUBSET Ids
  PROVE  /\ Scheduled(S) \in PacketType
         /\ Scheduled(S).services = S /\ Scheduled(S).hosts = {}
         /\ Scheduled(S).said = FALSE /\ Scheduled(S).made = TRUE
  BY DEF Scheduled, PacketType

(* What there is to know before the PCB turns to a service. *)
LEMMA AirShaped ==
  ASSUME RecordsInv
  PROVE  /\ state \in {"PROBE", "ANNOUNCE", "RUNNING"} /\ packet \in PacketType
         /\ packet.services \subseteq Ids /\ packet.said \in BOOLEAN /\ packet.made \in BOOLEAN
         /\ packet.made => packet.services # {} \/ packet.hosts # {}
         /\ state = "RUNNING" \/ (state = "ANNOUNCE" /\ ~packet.made) => packet = Nothing
         /\ state = "PROBE" => packet.hosts = {}
         /\ unsaid \subseteq Ids
<1>1. PICK w : w = Air
  OBVIOUS
<1>2. w \in AirType /\ w.state = state /\ w.packet = packet /\ Shaped(w) /\ unsaid \subseteq Ids
  BY <1>1, AirTyped DEF Sound, Sane
<1> QED
  BY <1>2, HeardTyped DEF Shaped

(* Only the state and the packet matter. *)
LEMMA TurnsAre ==
  ASSUME NEW id, NEW quiet, NEW u2, u2 = unsaid', u2 \subseteq Ids,
         state' \in {"PROBE", "ANNOUNCE", "RUNNING"}, packet' \in PacketType,
         packet'.made => packet'.services # {} \/ packet'.hosts # {},
         state' = "RUNNING" \/ (state' = "ANNOUNCE" /\ ~packet'.made) => packet' = Nothing,
         state' = "PROBE" => packet'.hosts = {},
         packet'.services \subseteq packet.services \cup {id},
         \A i \in Ids : i \notin u2 /\ (i \notin packet'.services \/ packet'.said)
           => /\ i # id /\ i \notin unsaid /\ i \notin quiet
              /\ i \notin packet.services \/ packet.said
  PROVE  Turns(Air', Air, id, unsaid, unsaid', quiet)
<1>1. PICK v, w : v = Air' /\ w = Air
  OBVIOUS
<1>2. v.state = state' /\ v.packet = packet' /\ w.packet = packet
  BY <1>1 DEF Air
<1>3. Shaped(v)
  BY <1>2 DEF Shaped
<1> QED
  BY <1>1, <1>2, <1>3 DEF Turns

LEMMA ProbesTurn ==
  ASSUME RecordsInv, NEW id \in Ids, NEW quiet \in SUBSET Ids, NEW lost, Probes(id, quiet, lost)
  PROVE  Turns(Air', Air, id, unsaid, unsaid', quiet)
<1>1. PICK probed, cleared :
        /\ probed = IF state = "PROBE" THEN packet.services ELSE {}
        /\ cleared = IF state = "ANNOUNCE" /\ ~packet.said THEN packet.services ELSE {}
  OBVIOUS
<1>2. probed \subseteq Ids /\ cleared \subseteq Ids /\ probed \subseteq packet.services
  BY <1>1, AirShaped
<1>3. ASSUME NEW i \in Ids, i \notin probed, i \notin cleared
      PROVE  i \notin packet.services \/ packet.said
  BY <1>1, <1>3, AirShaped, NothingIs
<1>4. CASE /\ state' = "PROBE" /\ packet' = Scheduled(probed \cup {id})
           /\ unsaid' = (unsaid \cup cleared \cup quiet) \ {id}
  <2>1. /\ packet' \in PacketType /\ packet'.services = probed \cup {id} /\ packet'.hosts = {}
        /\ packet'.said = FALSE /\ packet'.made = TRUE
    BY <1>2, <1>4, ScheduledIs
  <2>2. PICK u2 : u2 = unsaid'
    OBVIOUS
  <2>3. u2 \subseteq Ids
    BY <1>2, <1>4, <2>2, AirShaped
  <2>4. ASSUME NEW i \in Ids, i \notin u2, i \notin packet'.services \/ packet'.said
        PROVE  /\ i # id /\ i \notin unsaid /\ i \notin quiet
               /\ i \notin packet.services \/ packet.said
    BY <1>3, <1>4, <2>1, <2>2, <2>4
  <2> QED
    BY <1>2, <1>4, <2>1, <2>2, <2>3, <2>4, TurnsAre
<1>5. CASE /\ state' = state /\ packet' \in {Nothing, [Nothing EXCEPT !.services = probed]}
           /\ unsaid' = unsaid \cup cleared \cup quiet \cup probed \cup {id}
  <2>1. /\ packet' \in PacketType /\ packet'.services \subseteq probed /\ packet'.hosts = {}
        /\ packet'.said = FALSE /\ packet'.made = FALSE
    BY <1>2, <1>5, NothingIs DEF PacketType
  <2>2. PICK u2 : u2 = unsaid'
    OBVIOUS
  <2>3. u2 \subseteq Ids
    BY <1>2, <1>5, <2>2, AirShaped
  <2>4. state # "PROBE" => packet' = Nothing
    BY <1>1, <1>5, NothingIs DEF Nothing
  <2>5. ASSUME NEW i \in Ids, i \notin u2, i \notin packet'.services \/ packet'.said
        PROVE  /\ i # id /\ i \notin unsaid /\ i \notin quiet
               /\ i \notin packet.services \/ packet.said
    BY <1>3, <1>5, <2>1, <2>2, <2>5
  <2>6. state' \in {"PROBE", "ANNOUNCE", "RUNNING"} /\ packet'.services \subseteq packet.services \cup {id}
    BY <1>2, <1>5, <2>1, AirShaped
  <2>7. state' = "RUNNING" \/ (state' = "ANNOUNCE" /\ ~packet'.made) => packet' = Nothing
    BY <1>5, <2>4
  <2> QED
    BY <2>1, <2>2, <2>3, <2>5, <2>6, <2>7, TurnsAre
<1> QED
  BY <1>1, <1>4, <1>5 DEF Probes

LEMMA AnnouncesTurn ==
  ASSUME RecordsInv, NEW id \in Ids, NEW lost, Announces(id, lost)
  PROVE  Turns(Air', Air, id, unsaid, unsaid', {})
<1>1. CASE /\ state = "RUNNING" /\ state' = "ANNOUNCE"
           /\ packet' = IF lost THEN Nothing ELSE Scheduled({id})
           /\ unsaid' = unsaid \cup {x \in {id} : lost}
  <2>1. packet.services = {}
    BY <1>1, AirShaped, NothingIs
  <2>2. PICK u2 : u2 = unsaid'
    OBVIOUS
  <2>3. u2 \subseteq Ids
    BY <1>1, <2>2, AirShaped
  <2>4. CASE lost
    BY <1>1, <2>1, <2>2, <2>3, <2>4, TurnsAre, NothingIs
  <2>5. CASE ~lost
    <3>1. /\ packet' \in PacketType /\ packet'.services = {id} /\ packet'.hosts = {}
          /\ packet'.said = FALSE /\ packet'.made = TRUE
      BY <1>1, <2>5, ScheduledIs
    <3> QED
      BY <1>1, <2>1, <2>2, <2>3, <2>5, <3>1, TurnsAre
  <2> QED
    BY <2>4, <2>5
<1>2. CASE state = "ANNOUNCE" /\ state' = state /\ packet' = packet /\ unsaid' = unsaid \cup {id}
  <2>1. PICK u2 : u2 = unsaid'
    OBVIOUS
  <2>2. u2 \subseteq Ids
    BY <1>2, <2>1, AirShaped
  <2> QED
    BY <1>2, <2>1, <2>2, TurnsAre, AirShaped
<1>3. CASE /\ state = "ANNOUNCE" /\ state' = state /\ packet.made /\ unsaid' = unsaid
           /\ packet' = [packet EXCEPT !.services = @ \cup {id}, !.said = FALSE]
  <2>1. /\ packet' \in PacketType /\ packet'.services = packet.services \cup {id} /\ packet'.hosts = packet.hosts
        /\ packet'.said = FALSE /\ packet'.made = packet.made
    BY <1>3, AirShaped DEF PacketType
  <2>2. PICK u2 : u2 = unsaid'
    OBVIOUS
  <2> QED
    BY <1>3, <2>1, <2>2, TurnsAre, AirShaped
<1>4. CASE Probes(id, {}, lost)
  BY <1>4, ProbesTurn
<1>5. state = "ANNOUNCE" /\ ~(state = "PROBE") /\ ~(state = "RUNNING") => \/ packet' = packet /\ unsaid' = unsaid \cup {id} /\ state' = state
                             \/ /\ packet' = [packet EXCEPT !.services = @ \cup {id}, !.said = FALSE]
                                /\ unsaid' = unsaid /\ packet.made /\ state' = state
  BY AirShaped DEF Announces
<1> QED
  BY <1>1, <1>2, <1>3, <1>4, <1>5 DEF Announces

(* A name that was not allocated: nothing is probed. *)
LEMMA NamelessTurn ==
  ASSUME RecordsInv, NEW id \in Ids, NEW quiet \in SUBSET Ids, UNCHANGED <<state, packet>>,
         unsaid' = unsaid \cup quiet \cup {id}
  PROVE  Turns(Air', Air, id, unsaid, unsaid', quiet)
<1>1. PICK u2 : u2 = unsaid'
  OBVIOUS
<1>2. u2 \subseteq Ids
  BY <1>1, AirShaped
<1> QED
  BY <1>1, <1>2, TurnsAre, AirShaped

(* What is mute is lost. *)
LEMMA LosesAll ==
  ASSUME NEW s, NEW bye, NEW mute, NEW lost, LosesSubtypes(s, bye, mute, lost)
  PROVE  LosesSubtypes(s, bye \ mute, {}, lost \cup mute)
<1>1. (bye \ mute) \ {} = bye \ mute /\ (lost \cup mute) \cup {} = lost \cup mute
  OBVIOUS
<1> QED
  BY <1>1 DEF LosesSubtypes

LEMMA LosesIs ==
  ASSUME RecordsInv, NEW s \in Service, NEW b, b \subseteq Subtypes, NEW l, l \subseteq Subtypes,
         LosesSubtypes(s, b, {}, l)
  PROVE  /\ Air'.heard = ChangedAir(Air, s, b, l).heard /\ Air'.stale = ChangedAir(Air, s, b, l).stale
         /\ heard' \in [ptr : SUBSET Records, txt : [AllNames -> Texts]] /\ stale' \subseteq Records
         /\ UNCHANGED <<state, packet>> => Air' = ChangedAir(Air, s, b, l)
<1>1. PICK w, v : w = Air /\ v = Air'
  OBVIOUS
<1>2. w \in AirType /\ w.state = state /\ w.packet = packet /\ w.heard = heard /\ w.stale = stale
  BY <1>1, AirTyped
<1>3. PICK h, g : /\ h = [heard EXCEPT !.ptr = heard.ptr \ RecordsOf(s, b)]
                  /\ g = (stale \ RecordsOf(s, b)) \cup RecordsOf(s, l)
  OBVIOUS
<1>4. h \in [ptr : SUBSET Records, txt : [AllNames -> Texts]]
  BY <1>2, <1>3, HeardTyped
<1>5. g \subseteq Records
  <2>1. RecordsOf(s, l) \subseteq Records
    BY RecordsTyped
  <2> QED
    BY <1>2, <1>3, <2>1, HeardTyped
<1>6. PICK c : c = ChangedAir(w, s, b, l)
  OBVIOUS
<1>7. c = [w EXCEPT !.heard = h, !.stale = g]
  BY <1>2, <1>3, <1>6 DEF ChangedAir, AirType
<1>8. c \in AirType /\ c.state = w.state /\ c.packet = w.packet /\ c.heard = h /\ c.stale = g
  BY <1>2, <1>4, <1>5, <1>7 DEF AirType
<1>9. heard' = h /\ stale' = g
  <2>1. b \ {} = b /\ l \cup {} = l
    OBVIOUS
  <2> QED
    BY <1>3, <2>1 DEF LosesSubtypes
<1>10. v.heard = h /\ v.stale = g /\ v = [state |-> state', packet |-> packet', heard |-> h, stale |-> g]
  BY <1>1, <1>9 DEF Air
<1>11. c = [state |-> c.state, packet |-> c.packet, heard |-> c.heard, stale |-> c.stale]
  BY <1>8 DEF AirType
<1>12. UNCHANGED <<state, packet>> => v = c
  BY <1>2, <1>8, <1>10, <1>11
<1> QED
  BY <1>1, <1>4, <1>5, <1>6, <1>8, <1>9, <1>10, <1>12

(* Types of what is on the air. *)
LEMMA AirTypedNext ==
  ASSUME NEW id, NEW quiet, Turns(Air', Air, id, unsaid, unsaid', quiet),
         heard' \in [ptr : SUBSET Records, txt : [AllNames -> Texts]], stale' \subseteq Records
  PROVE  Air' \in AirType /\ Air'.heard = heard' /\ Air'.stale = stale'
<1>1. PICK v : v = Air'
  OBVIOUS
<1>2. v = [state |-> state', packet |-> packet', heard |-> heard', stale |-> stale']
  BY <1>1 DEF Air
<1>3. v.state \in {"PROBE", "ANNOUNCE", "RUNNING"} /\ v.packet \in PacketType
  BY <1>1 DEF Turns
<1>4. v \in AirType /\ v.heard = heard' /\ v.stale = stale'
  BY <1>2, <1>3 DEF AirType
<1> QED
  BY <1>1, <1>4

LEMMA SameAir ==
  ASSUME NEW w \in AirType, NEW s
  PROVE  ChangedAir(w, s, {}, {}) = w
<1>1. RecordsOf(s, {}) = {}
  BY DEF RecordsOf
<1>2. w.heard.ptr \ {} = w.heard.ptr /\ (w.stale \ {}) \cup {} = w.stale
  OBVIOUS
<1>3. [w.heard EXCEPT !.ptr = w.heard.ptr] = w.heard
  BY HeardTyped
<1>4. [w EXCEPT !.heard = w.heard, !.stale = w.stale] = w
  BY DEF AirType
<1> QED
  BY <1>1, <1>2, <1>3, <1>4 DEF ChangedAir

LEMMA AnnouncedNext ==
  ASSUME RecordsInv, NEW i \in 1..Len(services), NEW r, NEW bye, NEW lost,
         Becomes(services[i], r, bye, lost), services' = [services EXCEPT ![i] = r],
         NEW c, c = ChangedAir(Air, services[i], bye, lost), heard' = c.heard, stale' = c.stale, c \in AirType,
         Turns(Air', Air, services[i].id, unsaid, unsaid', {})
  PROVE  SoundNext
<1>1. PICK S, w, s, z, u2 : S = Range(services) /\ w = Air /\ s = services[i] /\ z = Air' /\ u2 = unsaid'
  OBVIOUS
<1>2. ServicesOK /\ Sound(S, w, unsaid) /\ s \in S
  BY <1>1, AirTyped, ServicesAre
<1>3. ServicesOK' /\ Range(services') = (S \ {s}) \cup {r}
  <2>1. r \in Service /\ r.id = services[i].id
    BY DEF Becomes
  <2> QED
    BY <1>1, <1>2, <2>1, ReplacedIn
<1>4. z \in AirType /\ z.heard = c.heard /\ z.stale = c.stale
  <2>1. /\ heard' \in [ptr : SUBSET Records, txt : [AllNames -> Texts]] /\ stale' \subseteq Records
    BY HeardTyped
  <2> QED
    BY <1>1, <2>1, AirTypedNext
<1>5. Sound((S \ {s}) \cup {r}, z, u2)
  BY <1>1, <1>2, <1>4, AnnouncedSound
<1> QED
  BY <1>1, <1>3, <1>5 DEF SoundNext

LEMMA SilentNext ==
  ASSUME RecordsInv, NEW i \in 1..Len(services), NEW r, NEW bye, NEW lost,
         Becomes(services[i], r, bye, lost), services' = [services EXCEPT ![i] = r],
         Air' = ChangedAir(Air, services[i], bye, lost),
         unsaid \subseteq unsaid', unsaid' \subseteq Ids,
         services[i].id \in unsaid' \/ (r.subtypes \subseteq services[i].subtypes /\ r.txt = services[i].txt)
  PROVE  SoundNext
<1>1. PICK S, w, s, u2 : S = Range(services) /\ w = Air /\ s = services[i] /\ u2 = unsaid'
  OBVIOUS
<1>2. ServicesOK /\ Sound(S, w, unsaid) /\ s \in S
  BY <1>1, AirTyped, ServicesAre
<1>3. ServicesOK' /\ Range(services') = (S \ {s}) \cup {r}
  <2>1. r \in Service /\ r.id = services[i].id
    BY DEF Becomes
  <2> QED
    BY <1>1, <1>2, <2>1, ReplacedIn
<1>4. Sound((S \ {s}) \cup {r}, ChangedAir(w, s, bye, lost), u2)
  BY <1>1, <1>2, SilentSound
<1> QED
  BY <1>1, <1>3, <1>4 DEF SoundNext

LEMMA SubtypesBecome ==
  ASSUME NEW s \in Service, NEW T, T \subseteq Subtypes, NEW bye, NEW lost,
         bye \subseteq Subtypes, lost \subseteq Subtypes, s.subtypes \subseteq T \cup bye \cup lost, bye \cap T = {}
  PROVE  LET r == [s EXCEPT !.subtypes = T]
         IN Becomes(s, r, bye, lost) /\ r.subtypes = T /\ r.txt = s.txt
<1>1. PICK r : r = [s EXCEPT !.subtypes = T]
  OBVIOUS
<1>2. r \in Service /\ r.id = s.id /\ r.name = s.name /\ r.subtypes = T /\ r.txt = s.txt
  BY <1>1 DEF Service
<1> QED
  BY <1>1, <1>2 DEF Becomes

LEMMA TextBecomes ==
  ASSUME NEW s \in Service, NEW t \in Texts
  PROVE  Becomes(s, [s EXCEPT !.txt = t], {}, {})
<1>1. PICK r : r = [s EXCEPT !.txt = t]
  OBVIOUS
<1>2. r \in Service /\ r.id = s.id /\ r.name = s.name /\ r.subtypes = s.subtypes
  BY <1>1 DEF Service
<1> QED
  BY <1>1, <1>2 DEF Becomes

-----------------------------------------------------------------------------
(* The functions.                                                           *)

FateOK == boxed' \in BOOLEAN /\ fate' \in Fates

LEMMA FateKept ==
  ASSUME RecordsInv, boxed' = boxed \/ boxed' \in BOOLEAN, fate' = fate \/ fate' \in Fates
  PROVE  FateOK
  BY DEF RecordsInv, FateOK

(* What the index that is found stands for. *)
LEMMA FoundService ==
  ASSUME RecordsInv, NEW n, NEW h, Found(n, h) # 0
  PROVE  /\ Found(n, h) \in 1..Len(services)
         /\ services[Found(n, h)] \in Range(services) /\ services[Found(n, h)] \in Service
         /\ services[Found(n, h)].id \in Ids /\ services[Found(n, h)].subtypes \subseteq Subtypes
         /\ services[Found(n, h)].txt \in Texts
<1>1. ServicesOK /\ services \in Seq(Service)
  BY AirTyped DEF ServicesOK
<1>2. PICK i : i = Found(n, h)
  OBVIOUS
<1>3. i \in 1..Len(services)
  BY <1>1, <1>2, FoundIs
<1>4. PICK s : s = services[i]
  OBVIOUS
<1>5. s \in Range(services) /\ s \in Service
  BY <1>1, <1>3, <1>4, ServicesAre
<1>6. s.id \in Ids /\ s.subtypes \subseteq Subtypes /\ s.txt \in Texts
  BY <1>5 DEF Service
<1> QED
  BY <1>2, <1>3, <1>4, <1>5, <1>6

LEMMA AddsNext ==
  ASSUME RecordsInv, NEW id \in Free, NEW name \in AllNames, NEW h \in Hosts, NEW txt \in Texts,
         NEW lost, Adds(id, name, h, txt, lost)
  PROVE  SoundNext
<1>1. PICK S, w, r : S = Range(services) /\ w = Air
                     /\ r = [id |-> id, name |-> name, host |-> h, txt |-> txt, subtypes |-> {}]
  OBVIOUS
<1>2. /\ w \in AirType /\ w.heard = heard /\ w.stale = stale /\ ServicesOK /\ Sound(S, w, unsaid)
      /\ S \subseteq Service /\ Distinct(S)
  BY <1>1, AirTyped
<1>3. id \in Ids /\ id \notin IdsOf(S)
  BY <1>1 DEF Free, IdsOf
<1>4. r \in Service /\ r.id = id
  BY <1>1, <1>3 DEF Service
<1>5. ServicesOK' /\ Range(services') = S \cup {r}
  BY <1>1, <1>2, <1>3, <1>4, AddedTo DEF Adds
<1>6. PICK S2 : S2 = S \cup {r}
  OBVIOUS
<1>7. \A x \in S : x.id # id
  BY <1>3 DEF IdsOf
<1>8. AllBut(id, S, S2, {})
  BY <1>2, <1>4, <1>6, <1>7 DEF AllBut, Distinct, IdsOf
<1>9. StillHeard(id, S, S2, {}, w, heard, stale)
  BY <1>2, <1>6, HeardTyped DEF StillHeard, Sound, Forgets
<1>10. Turns(Air', Air, id, unsaid, unsaid', {}) /\ heard' = heard /\ stale' = stale
  BY <1>3, ProbesTurn DEF Adds
<1>11. Air' \in AirType /\ Air'.heard = heard /\ Air'.stale = stale
  BY <1>2, <1>10, AirTypedNext, HeardTyped
<1>12. PICK v, u2 : v = Air' /\ u2 = unsaid'
  OBVIOUS
<1>13. Sound(S2, v, u2)
  <2>1. StillHeard(id, S, S2, {}, w, v.heard, v.stale)
    BY <1>9, <1>11, <1>12
  <2>2. Turns(v, w, id, unsaid, u2, {})
    BY <1>1, <1>10, <1>12
  <2> QED
    BY <1>2, <1>3, <1>8, <1>11, <1>12, <2>1, <2>2, TurnedSound
<1> QED
  BY <1>5, <1>6, <1>12, <1>13 DEF SoundNext

LEMMA ShortenedAre == \A txt \in Texts : Shortened(txt) \subseteq Texts
  BY DEF Shortened, Texts

LEMMA StepAdd ==
  ASSUME RecordsInv, NEW n \in Names \cup {NoName}, NEW h \in Hosts, NEW txt \in Texts, mdns_service_add_for_host(n, h, txt)
  PROVE  RecordsInv'
<1>1. PICK id, name : id = (CHOOSE x \in Free : TRUE) /\ name = IF n = NoName THEN Default ELSE n
  OBVIOUS
<1>2. id \in Free /\ name \in AllNames /\ Default \in AllNames
  BY <1>1 DEF mdns_service_add_for_host, AllNames
<1>3. FateOK
  BY FateKept DEF mdns_service_add_for_host
<1>4. \/ /\ Calls("service_add", "OK")
         /\ \E m \in {name, Default}, t \in {txt} \cup Shortened(txt), lost \in BOOLEAN :
              Charges(m # name \/ t # txt \/ lost) /\ Adds(id, m, h, t, lost)
      \/ Calls("service_add", "NO_MEM") /\ Fails /\ UNCHANGED <<services, air>>
  BY <1>1 DEF mdns_service_add_for_host
<1>5. Counted
  BY <1>4, CallsCount, ChargesIs DEF Functions
<1>6. SoundNext
  <2>1. CASE UNCHANGED <<services, air>>
    BY <2>1, NothingNext
  <2>2. ASSUME NEW m \in {name, Default}, NEW t \in {txt} \cup Shortened(txt), NEW lost, Adds(id, m, h, t, lost)
        PROVE  SoundNext
    <3>1. m \in AllNames /\ t \in Texts
      BY <1>2, ShortenedAre
    <3> QED
      BY <1>2, <2>2, <3>1, AddsNext
  <2> QED
    BY <1>4, <2>1, <2>2
<1> QED
  BY <1>3, <1>5, <1>6, CallKeeps DEF FateOK

LEMMA FreesOK == ASSUME RecordsInv, NEW X, Frees(X) PROVE fate' \in Fates
  BY DEF Frees, RecordsInv, Fates

LEMMA StepRemove ==
  ASSUME RecordsInv, NEW n, NEW h, mdns_service_remove_for_host(n, h)
  PROVE  RecordsInv'
<1>1. PICK s : s = services[Found(n, h)]
  OBVIOUS
<1>2. /\ Found(n, h) # 0 /\ Calls("service_remove", "OK")
      /\ Removes({s}) /\ Frees({s}) /\ UNCHANGED boxed
      /\ \E mute \in SUBSET {s} : Charges(mute # {}) /\ Airs(Removed(Air, {s}, mute))
  BY <1>1 DEF mdns_service_remove_for_host
<1>3. {s} \subseteq Range(services)
  BY <1>1, <1>2, FoundService
<1>4. Counted
  BY <1>2, CallsCount, ChargesIs
<1>5. SoundNext
  BY <1>2, <1>3, RemovesNext
<1>6. FateOK
  BY <1>2, FateKept, FreesOK
<1> QED
  BY <1>4, <1>5, <1>6, CallKeeps DEF FateOK

LEMMA StepRemoveAll ==
  ASSUME RecordsInv, mdns_service_remove_all
  PROVE  RecordsInv'
<1>1. /\ Calls("service_remove_all", "OK")
      /\ Removes(Range(services)) /\ Frees(Range(services)) /\ UNCHANGED boxed
      /\ \E mute \in {{}, Range(services)} : Charges(mute # {}) /\ Airs(Removed(Air, Range(services), mute))
  BY DEF mdns_service_remove_all
<1>2. Counted
  BY <1>1, CallsCount, ChargesIs
<1>3. SoundNext
  BY <1>1, RemovesNext
<1>4. FateOK
  BY <1>1, FateKept, FreesOK
<1> QED
  BY <1>2, <1>3, <1>4, CallKeeps DEF FateOK

(* The goodbye to a service that gets another name. *)
LEMMA PartingIs ==
  ASSUME NEW S, NEW w, NEW u, Sound(S, w, u), NEW s \in S, NEW S2, NEW quiet, AllBut(s.id, S, S2, quiet),
         NEW a, NEW mute, mute \subseteq {s}, a = Byed(w, {s}, mute) \/ a = [w EXCEPT !.stale = w.stale \cup All(s)]
  PROVE  StillHeard(s.id, S, S2, quiet, w, a.heard, a.stale)
<1>1. w \in AirType /\ {s} \subseteq Service /\ s \in Service /\ Distinct(S)
  BY DEF Sound, Sane
<1>2. PICK R : R = All(s)
  OBVIOUS
<1>3. R \subseteq Records
  BY <1>1, <1>2, RecordsTyped
<1>4. Parted(a, w, R)
  <2>1. CASE a = Byed(w, {s}, mute)
    <3>1. UNION {All(x) : x \in {s}} = R
      BY <1>2
    <3> QED
      BY <1>1, <2>1, <3>1, ByedIs
  <2>2. CASE a = [w EXCEPT !.stale = w.stale \cup R]
    <3>1. /\ a \in AirType /\ a.state = w.state /\ a.packet = w.packet
          /\ a.heard = w.heard /\ a.stale = w.stale \cup R
      BY <1>1, <1>3, <2>2 DEF AirType
    <3> QED
      BY <3>1 DEF Parted
  <2> QED
    BY <1>2, <2>1, <2>2
<1>5. /\ a.heard \in [ptr : SUBSET Records, txt : [AllNames -> Texts]] /\ a.stale \in SUBSET Records
  BY <1>4, HeardTyped DEF Parted
<1>6. ASSUME NEW x \in S, x.id # s.id, x.id \notin quiet
      PROVE  All(x) \cap w.heard.ptr \subseteq a.heard.ptr
  <2>1. x.name # s.name
    BY <1>6 DEF AllBut
  <2>2. All(x) \cap R = {}
    BY <1>2, <2>1, NamesApart
  <2> QED
    BY <1>4, <2>2 DEF Parted
<1>7. a.heard.ptr \subseteq a.stale \cup UNION {All(x) : x \in S2}
  <2>1. w.heard.ptr \subseteq w.stale \cup UNION {All(x) : x \in S}
    BY DEF Sound, Forgets
  <2>2. \A x \in S : x = s \/ x \in S2
    BY <1>1 DEF Distinct, AllBut
  <2>3. UNION {All(x) : x \in S} \subseteq R \cup UNION {All(x) : x \in S2}
    BY <1>2, <2>2
  <2> QED
    BY <1>4, <2>1, <2>3 DEF Parted
<1> QED
  BY <1>4, <1>5, <1>6, <1>7 DEF StillHeard, Parted

LEMMA StepRename ==
  ASSUME RecordsInv, NEW n, NEW h, NEW new \in Names, mdns_service_instance_name_set_for_host(n, h, new)
  PROVE  RecordsInv'
<1>1. PICK i, s, S, w : i = Found(n, h) /\ s = services[i] /\ S = Range(services) /\ w = Air
  OBVIOUS
<1> DEFINE After(mute) == IF s.name # Default THEN Byed(w, {s}, mute) ELSE [w EXCEPT !.stale = w.stale \cup All(s)]
<1>2. PICK mute, lost, a :
        /\ mute \subseteq {s} /\ lost \in BOOLEAN /\ a = After(mute)
        /\ i # 0 /\ UNCHANGED <<boxed, fate>>
        /\ heard' = a.heard /\ stale' = a.stale
        /\ \/ /\ Calls("instance_name_set", "OK") /\ Charges(mute # {} \/ lost)
              /\ services' = [services EXCEPT ![i].name = new]
              /\ Probes(s.id, Namesakes({s}), lost)
           \/ /\ Calls("instance_name_set", "NO_MEM") /\ Fails
              /\ services' = [services EXCEPT ![i].name = Default]
              /\ unsaid' = unsaid \cup Namesakes({s}) \cup {s.id}
              /\ UNCHANGED <<state, packet>>
  BY <1>1 DEF mdns_service_instance_name_set_for_host
<1>3. i # 0 /\ UNCHANGED <<boxed, fate>>
  BY <1>2
<1>4. i \in 1..Len(services) /\ s \in S /\ s \in Service /\ s.id \in Ids
  BY <1>1, <1>3, FoundService
<1>5. /\ w \in AirType /\ ServicesOK /\ Sound(S, w, unsaid) /\ S \subseteq Service /\ Distinct(S)
      /\ w.state = state /\ w.packet = packet
  BY <1>1, AirTyped
<1>6. PICK quiet : quiet = Namesakes({s})
  OBVIOUS
<1>7. quiet = NamesakesIn(S, {s})
  BY <1>1, <1>6, NamesakesAre
<1>8. quiet \in SUBSET Ids
  BY <1>5, <1>7 DEF NamesakesIn, IdsOf, Service
<1>9. ASSUME NEW m \in AllNames, services' = [services EXCEPT ![i].name = m]
      PROVE  \E S2 : /\ ServicesOK' /\ Range(services') = S2
                     /\ AllBut(s.id, S, S2, quiet) /\ StillHeard(s.id, S, S2, quiet, w, a.heard, a.stale)
  <2>1. PICK r : r = [s EXCEPT !.name = m]
    OBVIOUS
  <2>2. r \in Service /\ r.id = s.id
    BY <1>4, <2>1 DEF Service
  <2>3. services' = [services EXCEPT ![i] = r]
    BY <1>1, <1>4, <1>5, <1>9, <2>1, FieldsChanged
  <2>4. PICK S2 : S2 = (S \ {s}) \cup {r}
    OBVIOUS
  <2>5. ServicesOK' /\ Range(services') = S2
    BY <1>1, <1>4, <1>5, <2>2, <2>3, <2>4, ReplacedIn
  <2>6. S2 \subseteq Service /\ Distinct(S2) /\ s.id \in IdsOf(S2)
    BY <1>4, <1>5, <2>2, <2>4 DEF Distinct, IdsOf
  <2>7. \A x, y \in S : x.id # s.id /\ y.id = s.id /\ x.name = y.name => x.id \in quiet
    <3> TAKE x, y \in S
    <3> HAVE x.id # s.id /\ y.id = s.id /\ x.name = y.name
    <3>1. y = s
      BY <1>4, <1>5 DEF Distinct
    <3> QED
      BY <1>7, <3>1 DEF NamesakesIn, IdsOf
  <2>8. AllBut(s.id, S, S2, quiet)
    BY <1>5, <2>2, <2>4, <2>6, <2>7 DEF AllBut
  <2>9. StillHeard(s.id, S, S2, quiet, w, a.heard, a.stale)
    <3>1. a = Byed(w, {s}, mute) \/ a = [w EXCEPT !.stale = w.stale \cup All(s)]
      BY <1>2
    <3>2. mute \subseteq {s}
      BY <1>2
    <3> QED
      BY <1>4, <1>5, <2>8, <3>1, <3>2, PartingIs
  <2> QED
    BY <2>5, <2>8, <2>9
<1>10. \E m \in AllNames : services' = [services EXCEPT ![i].name = m]
  BY <1>2 DEF AllNames
<1>11. PICK S2 : /\ ServicesOK' /\ Range(services') = S2
                 /\ AllBut(s.id, S, S2, quiet) /\ StillHeard(s.id, S, S2, quiet, w, a.heard, a.stale)
  BY <1>9, <1>10
<1>12. Turns(Air', Air, s.id, unsaid, unsaid', quiet)
  <2>1. CASE Probes(s.id, Namesakes({s}), lost)
    BY <1>4, <1>6, <1>8, <2>1, ProbesTurn
  <2>2. CASE unsaid' = unsaid \cup Namesakes({s}) \cup {s.id} /\ UNCHANGED <<state, packet>>
    BY <1>4, <1>6, <1>8, <2>2, NamelessTurn
  <2> QED
    BY <1>2, <2>1, <2>2
<1>13. PICK v, u2 : v = Air' /\ u2 = unsaid'
  OBVIOUS
<1>14. v \in AirType /\ v.heard = a.heard /\ v.stale = a.stale
  <2>1. heard' \in [ptr : SUBSET Records, txt : [AllNames -> Texts]] /\ stale' \subseteq Records
    BY <1>2, <1>11 DEF StillHeard
  <2> QED
    BY <1>2, <1>12, <1>13, <2>1, AirTypedNext
<1>15. Sound(S2, v, u2)
  <2>1. StillHeard(s.id, S, S2, quiet, w, v.heard, v.stale)
    BY <1>11, <1>14
  <2>2. Turns(v, w, s.id, unsaid, u2, quiet)
    BY <1>1, <1>12, <1>13
  <2> QED
    BY <1>4, <1>5, <1>11, <1>14, <2>1, <2>2, TurnedSound
<1>16. SoundNext
  BY <1>11, <1>13, <1>15 DEF SoundNext
<1>17. Counted
  BY <1>2, CallsCount, ChargesIs DEF Functions
<1> QED
  BY <1>3, <1>16, <1>17, FateKept, CallKeeps DEF FateOK

LEMMA StepLookup ==
  ASSUME RecordsInv, NEW h, mdns_lookup_service(h)
  PROVE  RecordsInv'
<1>1. Counted
  BY CallsCount DEF mdns_lookup_service, Functions
<1>2. SoundNext
  BY NothingNext DEF mdns_lookup_service
<1>3. FateOK
  BY FateKept DEF mdns_lookup_service, Fates
<1> QED
  BY <1>1, <1>2, <1>3, CallKeeps DEF FateOK

LEMMA TextsAre ==
  ASSUME NEW t \in Texts, NEW k \in Keys
  PROVE  /\ \A v \in Values : With(t, k, v) \in Texts
         /\ Without(t, k) \in Texts
<1>1. PICK K \in SUBSET Keys : t \in [K -> Values]
  BY DEF Texts
<1>2. ASSUME NEW v \in Values
      PROVE  With(t, k, v) \in Texts
  <2>1. With(t, k, v) \in [K \cup {k} -> Values]
    BY <1>1 DEF With
  <2> QED
    BY <2>1 DEF Texts
<1>3. Without(t, k) \in [K \ {k} -> Values]
  BY <1>1 DEF Without
<1>4. Without(t, k) \in Texts
  BY <1>3 DEF Texts
<1> QED
  BY <1>2, <1>4

LEMMA TextedNext ==
  ASSUME RecordsInv, NEW n, NEW h, Found(n, h) # 0, NEW t \in Texts, NEW lost, Texted(Found(n, h), t, lost)
  PROVE  SoundNext
<1>1. PICK i, s, r, w : i = Found(n, h) /\ s = services[i] /\ r = [s EXCEPT !.txt = t] /\ w = Air
  OBVIOUS
<1>2. i \in 1..Len(services) /\ s \in Service /\ s.id \in Ids
  BY <1>1, FoundService
<1>3. Becomes(s, r, {}, {})
  BY <1>1, <1>2, TextBecomes
<1>4. ServicesOK /\ w \in AirType
  BY <1>1, AirTyped
<1>5. services' = [services EXCEPT ![i] = r] /\ Announces(s.id, lost) /\ UNCHANGED <<heard, stale>>
  BY <1>1, <1>2, <1>4, FieldsChanged DEF Texted
<1>6. Turns(Air', Air, s.id, unsaid, unsaid', {})
  BY <1>2, <1>5, AnnouncesTurn
<1>7. w = ChangedAir(w, s, {}, {}) /\ heard' = w.heard /\ stale' = w.stale
  BY <1>1, <1>4, <1>5, SameAir, AirTyped
<1> QED
  BY <1>1, <1>2, <1>3, <1>4, <1>5, <1>6, <1>7, AnnouncedNext

LEMMA StepTxtSet ==
  ASSUME RecordsInv, NEW n, NEW h, NEW txt \in Texts, mdns_service_txt_set_for_host(n, h, txt)
  PROVE  RecordsInv'
<1>1. Found(n, h) # 0 /\ UNCHANGED boxed
  BY DEF mdns_service_txt_set_for_host, TextCalls
<1>2. Counted
  BY CallsCount, ChargesIs DEF mdns_service_txt_set_for_host, TextCalls, Functions
<1>3. FateOK
  BY <1>1, FateKept DEF mdns_service_txt_set_for_host, Fates
<1>4. \/ \E t \in Texts, lost \in BOOLEAN : Texted(Found(n, h), t, lost)
      \/ UNCHANGED <<services, air>>
  BY ShortenedAre DEF mdns_service_txt_set_for_host
<1>5. SoundNext
  BY <1>1, <1>4, TextedNext, NothingNext
<1> QED
  BY <1>2, <1>3, <1>5, CallKeeps DEF FateOK

LEMMA StepTxtItemSet ==
  ASSUME RecordsInv, NEW n, NEW h, NEW k \in Keys, NEW v \in Values, mdns_service_txt_item_set_for_host(n, h, k, v)
  PROVE  RecordsInv'
<1>1. Found(n, h) # 0 /\ UNCHANGED <<boxed, fate>>
  BY DEF mdns_service_txt_item_set_for_host, TextCalls
<1>2. Counted
  BY CallsCount, ChargesIs DEF mdns_service_txt_item_set_for_host, TextCalls, Functions
<1>3. FateOK
  BY <1>1, FateKept
<1>4. \/ \E lost \in BOOLEAN : Texted(Found(n, h), With(services[Found(n, h)].txt, k, v), lost)
      \/ UNCHANGED <<services, air>>
  BY DEF mdns_service_txt_item_set_for_host
<1>5. With(services[Found(n, h)].txt, k, v) \in Texts
  BY <1>1, FoundService, TextsAre
<1>6. SoundNext
  BY <1>1, <1>4, <1>5, TextedNext, NothingNext
<1> QED
  BY <1>2, <1>3, <1>6, CallKeeps DEF FateOK

LEMMA StepTxtItemRemove ==
  ASSUME RecordsInv, NEW n, NEW h, NEW k \in Keys, mdns_service_txt_item_remove_for_host(n, h, k)
  PROVE  RecordsInv'
<1>1. Found(n, h) # 0 /\ UNCHANGED <<boxed, fate>>
  BY DEF mdns_service_txt_item_remove_for_host, TextCalls
<1>2. Counted
  BY CallsCount, ChargesIs DEF mdns_service_txt_item_remove_for_host, TextCalls
<1>3. FateOK
  BY <1>1, FateKept
<1>4. \/ \E lost \in BOOLEAN : Texted(Found(n, h), Without(services[Found(n, h)].txt, k), lost)
      \/ UNCHANGED <<services, air>>
  BY DEF mdns_service_txt_item_remove_for_host
<1>5. Without(services[Found(n, h)].txt, k) \in Texts
  BY <1>1, FoundService, TextsAre
<1>6. SoundNext
  BY <1>1, <1>4, <1>5, TextedNext, NothingNext
<1> QED
  BY <1>2, <1>3, <1>6, CallKeeps DEF FateOK

-----------------------------------------------------------------------------
(* Subtypes that change without an announcement. *)
LEMMA SubtypedSilently ==
  ASSUME RecordsInv, NEW n, NEW h, Found(n, h) # 0,
         NEW T, T \subseteq Subtypes, Subtyped(Found(n, h), T),
         NEW bye, bye \subseteq Subtypes, NEW lost, lost \subseteq Subtypes,
         services[Found(n, h)].subtypes \subseteq T \cup bye \cup lost, bye \cap T = {},
         Air' = ChangedAir(Air, services[Found(n, h)], bye, lost),
         unsaid \subseteq unsaid', unsaid' \subseteq unsaid \cup {services[Found(n, h)].id},
         services[Found(n, h)].id \in unsaid' \/ T \subseteq services[Found(n, h)].subtypes
  PROVE  SoundNext
<1>1. PICK i, s, r, w : i = Found(n, h) /\ s = services[i] /\ r = [s EXCEPT !.subtypes = T] /\ w = Air
  OBVIOUS
<1>2. i \in 1..Len(services) /\ s \in Service /\ s.id \in Ids
  BY <1>1, FoundService
<1>3. Becomes(s, r, bye, lost) /\ r.subtypes = T /\ r.txt = s.txt
  BY <1>1, <1>2, SubtypesBecome
<1>4. ServicesOK /\ unsaid \subseteq Ids
  BY AirTyped
<1>5. services' = [services EXCEPT ![i] = r]
  BY <1>1, <1>2, <1>4, FieldsChanged DEF Subtyped
<1>6. unsaid' \subseteq Ids
  BY <1>1, <1>2, <1>4
<1> QED
  BY <1>1, <1>2, <1>3, <1>5, <1>6, SilentNext

(* And with one, or with none for want of memory. *)
LEMMA SubtypedAloud ==
  ASSUME RecordsInv, NEW n, NEW h, Found(n, h) # 0,
         NEW T, T \subseteq Subtypes, Subtyped(Found(n, h), T),
         NEW bye, bye \subseteq Subtypes, NEW lost, lost \subseteq Subtypes,
         services[Found(n, h)].subtypes \subseteq T \cup bye \cup lost, bye \cap T = {},
         NEW c, c = ChangedAir(Air, services[Found(n, h)], bye, lost), heard' = c.heard, stale' = c.stale,
         NEW none, Announces(services[Found(n, h)].id, none)
  PROVE  SoundNext
<1>1. PICK i, s, r, w : i = Found(n, h) /\ s = services[i] /\ r = [s EXCEPT !.subtypes = T] /\ w = Air
  OBVIOUS
<1>2. i \in 1..Len(services) /\ s \in Service /\ s.id \in Ids
  BY <1>1, FoundService
<1>3. Becomes(s, r, bye, lost)
  BY <1>1, <1>2, SubtypesBecome
<1>4. ServicesOK /\ w \in AirType
  BY <1>1, AirTyped
<1>5. services' = [services EXCEPT ![i] = r]
  BY <1>1, <1>2, <1>4, FieldsChanged DEF Subtyped
<1>6. Turns(Air', Air, s.id, unsaid, unsaid', {})
  BY <1>1, <1>2, AnnouncesTurn
<1>7. c \in AirType
  <2>1. c = ChangedAir(w, s, bye, lost)
    BY <1>1
  <2>2. ChangedTo(c, w, s, bye, lost)
    BY <1>2, <1>4, <2>1, ChangedIs, Zenon
  <2> QED
    BY <2>2 DEF ChangedTo
<1> QED
  BY <1>1, <1>2, <1>3, <1>5, <1>6, <1>7, AnnouncedNext

LEMMA StepSubtypeRemove ==
  ASSUME RecordsInv, NEW n, NEW t \in Subtypes, mdns_service_subtype_remove_for_host(n, t)
  PROVE  RecordsInv'
<1>1. PICK s : s = services[Found(n, "any")]
  OBVIOUS
<1>2. /\ Found(n, "any") # 0 /\ UNCHANGED <<boxed, state, packet, unsaid>>
      /\ Subtyped(Found(n, "any"), s.subtypes \ {t})
      /\ fate' \in {fate, "null"}
      /\ \/ \E mute \in SUBSET {t} : LosesSubtypes(s, {t}, mute, {})
         \/ LosesSubtypes(s, {}, {}, {t})
  BY <1>1 DEF mdns_service_subtype_remove_for_host, SubtypeCalls
<1>3. Counted
  BY CallsCount, ChargesIs DEF mdns_service_subtype_remove_for_host, SubtypeCalls, Functions
<1>4. FateOK
  BY <1>2, FateKept DEF Fates
<1>5. s \in Service /\ s.subtypes \subseteq Subtypes /\ {t} \subseteq Subtypes /\ {} \subseteq Subtypes
  BY <1>1, <1>2, FoundService
<1>6. PICK T : T = s.subtypes \ {t}
  OBVIOUS
<1>7. T \subseteq Subtypes /\ T \subseteq s.subtypes /\ s.subtypes \subseteq T \cup {t} /\ t \notin T
  BY <1>5, <1>6
<1>8. ASSUME NEW bye, bye \subseteq {t}, NEW mute, mute \subseteq bye, NEW lost, lost \subseteq {t},
             t \in bye \cup lost, LosesSubtypes(s, bye, mute, lost)
      PROVE  SoundNext
  <2>1. PICK b, l : b = bye \ mute /\ l = lost \cup mute
    OBVIOUS
  <2>2. b \subseteq Subtypes /\ l \subseteq Subtypes /\ s.subtypes \subseteq T \cup b \cup l /\ b \cap T = {}
    BY <1>5, <1>7, <1>8, <2>1
  <2>3. Air' = ChangedAir(Air, s, b, l)
    <3>1. LosesSubtypes(s, b, {}, l)
      BY <1>8, <2>1, LosesAll
    <3> QED
      BY <1>2, <1>5, <2>2, <3>1, LosesIs
  <2>4. unsaid \subseteq unsaid' /\ unsaid' \subseteq unsaid \cup {s.id}
    BY <1>2
  <2> QED
    BY <1>1, <1>2, <1>6, <1>7, <2>2, <2>3, <2>4, SubtypedSilently
<1>9. SoundNext
  <2>1. ASSUME NEW mute \in SUBSET {t}, LosesSubtypes(s, {t}, mute, {})
        PROVE  SoundNext
    BY <1>8, <2>1
  <2>2. CASE LosesSubtypes(s, {}, {}, {t})
    BY <1>8, <2>2
  <2> QED
    BY <1>2, <2>1, <2>2
<1> QED
  BY <1>3, <1>4, <1>9, CallKeeps DEF FateOK

LEMMA SameSubtypes ==
  ASSUME services \in Seq(Service), NEW i \in 1..Len(services), Subtyped(i, services[i].subtypes)
  PROVE  services' = services
<1>1. PICK s : s = services[i]
  OBVIOUS
<1>2. s \in Service
  BY <1>1
<1>3. [s EXCEPT !.subtypes = s.subtypes] = s
  BY <1>2 DEF Service
<1>4. [services EXCEPT ![i].subtypes = s.subtypes] = [services EXCEPT ![i] = [s EXCEPT !.subtypes = s.subtypes]]
  BY <1>1
<1>5. [services EXCEPT ![i] = s] = services
  BY <1>1
<1> QED
  BY <1>1, <1>3, <1>4, <1>5 DEF Subtyped

(* How far the arrays get, and what is in them. *)
LEMMA FirstOnes ==
  ASSUME NEW T, T \subseteq Subtypes, NEW a \in Seq(Subtypes)
  PROVE  /\ Added(T, a) \in 0..Len(a)
         /\ FirstOf(a, Added(T, a)) \subseteq Subtypes
         /\ Added(T, a) = 0 => FirstOf(a, Added(T, a)) = {}
<1>1. Added(T, a) \in 0..Len(a) /\ Len(a) \in Nat
  BY AddedIs
<1>2. PICK k : k = Added(T, a)
  OBVIOUS
<1>3. FirstOf(a, k) \subseteq Subtypes /\ (k = 0 => FirstOf(a, k) = {})
  BY <1>1, <1>2 DEF FirstOf
<1> QED
  BY <1>1, <1>2, <1>3

LEMMA StepSubtypeAdd ==
  ASSUME RecordsInv, NEW n, NEW a \in Seq(Subtypes), mdns_service_subtype_add_multiple_items_for_host(n, a)
  PROVE  RecordsInv'
<1>1. PICK i, s, k, F : i = Found(n, "any") /\ s = services[i] /\ k = Added(s.subtypes, a) /\ F = FirstOf(a, k)
  OBVIOUS
<1>2. /\ i # 0 /\ UNCHANGED <<boxed, fate>>
      /\ \/ Subtyped(i, s.subtypes \cup F) /\ (\E none \in BOOLEAN : Announces(s.id, none)) /\ UNCHANGED <<heard, stale>>
         \/ /\ Subtyped(i, s.subtypes \cup F)
            /\ unsaid' = unsaid \cup {x \in {s.id} : k > 0}
            /\ UNCHANGED <<state, packet, heard, stale>>
         \/ /\ \E m \in 0..k-1 : Subtyped(i, RolledBack(s.subtypes, a, m))
            /\ UNCHANGED air
  BY <1>1 DEF mdns_service_subtype_add_multiple_items_for_host, SubtypeCalls
<1>3. Counted
  BY CallsCount, ChargesIs DEF mdns_service_subtype_add_multiple_items_for_host, SubtypeCalls, Functions
<1>4. FateOK
  BY <1>2, FateKept
<1>5. /\ i \in 1..Len(services) /\ s \in Service /\ s.id \in Ids /\ s.subtypes \subseteq Subtypes
      /\ Air \in AirType /\ services \in Seq(Service) /\ unsaid \subseteq Ids
  BY <1>1, <1>2, FoundService, AirTyped DEF ServicesOK
<1>6. k \in 0..Len(a) /\ F \subseteq Subtypes /\ (k = 0 => F = {})
  BY <1>1, <1>5, FirstOnes
<1>7. CASE Subtyped(i, s.subtypes \cup F) /\ (\E none \in BOOLEAN : Announces(s.id, none)) /\ UNCHANGED <<heard, stale>>
  <2>1. PICK T, none, c : T = s.subtypes \cup F /\ Announces(s.id, none) /\ c = Air
    BY <1>7
  <2>2. heard' = c.heard /\ stale' = c.stale
    BY <1>7, <2>1, AirTyped
  <2>3. c = ChangedAir(Air, s, {}, {})
    BY <1>5, <2>1, SameAir
  <2>4. T \subseteq Subtypes /\ s.subtypes \subseteq T \cup {} \cup {} /\ {} \cap T = {} /\ {} \subseteq Subtypes
    BY <1>5, <1>6, <2>1
  <2>5. Subtyped(i, T)
    BY <1>7, <2>1
  <2>6. SoundNext
    BY <1>1, <1>2, <2>1, <2>2, <2>3, <2>4, <2>5, SubtypedAloud
  <2> QED
    BY <1>3, <1>4, <2>6, CallKeeps DEF FateOK
<1>8. CASE /\ Subtyped(i, s.subtypes \cup F)
           /\ unsaid' = unsaid \cup {x \in {s.id} : k > 0}
           /\ UNCHANGED <<state, packet, heard, stale>>
  <2>1. PICK T : T = s.subtypes \cup F
    OBVIOUS
  <2>2. Air' = Air
    BY <1>8 DEF Air
  <2>3. ChangedAir(Air, s, {}, {}) = Air
    BY <1>5, SameAir
  <2>4. T \subseteq Subtypes /\ s.subtypes \subseteq T \cup {} \cup {} /\ {} \cap T = {} /\ {} \subseteq Subtypes
    BY <1>5, <1>6, <2>1
  <2>5. Subtyped(i, T)
    BY <1>8, <2>1
  <2>6. s.id \in unsaid' \/ T \subseteq s.subtypes
    BY <1>6, <1>8, <2>1
  <2>7. unsaid \subseteq unsaid' /\ unsaid' \subseteq unsaid \cup {s.id}
    BY <1>8
  <2>8. SoundNext
    BY <1>1, <1>2, <2>2, <2>3, <2>4, <2>5, <2>6, <2>7, SubtypedSilently
  <2> QED
    BY <1>3, <1>4, <2>8, CallKeeps DEF FateOK
<1>9. CASE /\ \E m \in 0..k-1 : Subtyped(i, RolledBack(s.subtypes, a, m))
           /\ UNCHANGED air
  <2>1. PICK m \in 0..k-1 : Subtyped(i, RolledBack(s.subtypes, a, m))
    BY <1>9
  <2>2. m \in 0..k
    BY <1>6
  <2>3. RolledBack(s.subtypes, a, m) = s.subtypes
    BY <1>1, <1>5, <2>2, AddedIs
  <2>4. services' = services
    BY <1>1, <1>5, <2>1, <2>3, SameSubtypes
  <2>5. SoundNext
    BY <1>9, <2>4, NothingNext
  <2> QED
    BY <1>3, <1>4, <2>5, CallKeeps DEF FateOK
<1> QED
  BY <1>2, <1>7, <1>8, <1>9

LEMMA StepSubtypeUpdate ==
  ASSUME RecordsInv, NEW n, NEW a \in Seq(Subtypes), mdns_service_subtype_update_multiple_items_for_host(n, a)
  PROVE  RecordsInv'
<1>1. PICK i, s, k, F, bye :
        /\ i = Found(n, "any") /\ s = services[i] /\ k = Added({}, a) /\ F = FirstOf(a, k)
        /\ bye = service_find_subtype_needed_sendbye(s.subtypes, a)
  OBVIOUS
<1>2. i # 0 /\ UNCHANGED boxed /\ fate' \in {fate, "null"}
  BY <1>1 DEF mdns_service_subtype_update_multiple_items_for_host, SubtypeCalls
<1>3. PICK mute \in {{}, bye}, none \in BOOLEAN :
        \/ /\ k = Len(a) /\ Subtyped(i, F) /\ LosesSubtypes(s, bye, mute, {})
           /\ IF a # <<>> THEN Announces(s.id, none) ELSE UNCHANGED <<state, packet, unsaid>>
        \/ /\ Subtyped(i, F) /\ LosesSubtypes(s, bye, mute, s.subtypes \ (bye \cup F))
           /\ unsaid' = unsaid \cup {s.id} /\ UNCHANGED <<state, packet>>
        \/ /\ Subtyped(i, {}) /\ LosesSubtypes(s, bye, mute, s.subtypes \ bye)
           /\ UNCHANGED <<state, packet, unsaid>>
  BY <1>1 DEF mdns_service_subtype_update_multiple_items_for_host, SubtypeCalls
<1>4. Counted /\ FateOK
  <2>1. Counted
    BY CallsCount, ChargesIs DEF mdns_service_subtype_update_multiple_items_for_host, SubtypeCalls, Functions
  <2>2. FateOK
    BY <1>2, FateKept DEF Fates
  <2> QED
    BY <2>1, <2>2
<1>5. /\ i \in 1..Len(services) /\ s \in Service /\ s.id \in Ids /\ s.subtypes \subseteq Subtypes
      /\ Air \in AirType /\ services \in Seq(Service) /\ unsaid \subseteq Ids
  BY <1>1, <1>2, FoundService, AirTyped DEF ServicesOK
<1>6. k \in 0..Len(a) /\ F \subseteq Subtypes /\ (k = 0 => F = {}) /\ Len(a) \in Nat
  BY <1>1, FirstOnes
<1>7. bye \subseteq Subtypes /\ bye \cap F = {} /\ (k = Len(a) => s.subtypes \subseteq F \cup bye)
  BY <1>1, <1>5, <1>6 DEF service_find_subtype_needed_sendbye, FirstOf
<1>8. PICK b : b = bye \ mute
  OBVIOUS
<1>9. mute \subseteq bye /\ bye = b \cup mute /\ b \subseteq Subtypes /\ b \cap F = {}
  BY <1>3, <1>7, <1>8
<1>10. ASSUME NEW lost, lost \subseteq Subtypes, LosesSubtypes(s, bye, mute, lost), NEW l, l = lost \cup mute
       PROVE  /\ Air'.heard = ChangedAir(Air, s, b, l).heard /\ Air'.stale = ChangedAir(Air, s, b, l).stale
              /\ UNCHANGED <<state, packet>> => Air' = ChangedAir(Air, s, b, l)
  <2>1. LosesSubtypes(s, b, {}, l)
    BY <1>8, <1>10, LosesAll
  <2>2. b \subseteq Subtypes /\ l \subseteq Subtypes
    BY <1>7, <1>9, <1>10
  <2> QED
    BY <1>5, <2>1, <2>2, LosesIs
<1>11. CASE /\ k = Len(a) /\ Subtyped(i, F) /\ LosesSubtypes(s, bye, mute, {})
            /\ IF a # <<>> THEN Announces(s.id, none) ELSE UNCHANGED <<state, packet, unsaid>>
  <2>1. PICK l, c : l = {} \cup mute /\ c = ChangedAir(Air, s, b, l)
    OBVIOUS
  <2>2. l \subseteq Subtypes /\ s.subtypes \subseteq F \cup b \cup l
    BY <1>7, <1>9, <1>11, <2>1
  <2>3. /\ Air'.heard = c.heard /\ Air'.stale = c.stale
        /\ UNCHANGED <<state, packet>> => Air' = c
    BY <1>10, <1>11, <2>1
  <2>4. CASE a = <<>>
    <3>1. UNCHANGED <<state, packet, unsaid>> /\ F \subseteq s.subtypes
      BY <1>6, <1>11, <2>4
    <3> QED
      BY <1>1, <1>2, <1>6, <1>9, <1>11, <2>1, <2>2, <2>3, <3>1, <1>4, SubtypedSilently, CallKeeps DEF FateOK
  <2>5. CASE a # <<>>
    <3>1. heard' = c.heard /\ stale' = c.stale
      BY <2>3 DEF Air
    <3>2. Announces(s.id, none)
      BY <1>11, <2>5
    <3>3. SoundNext
      BY <1>1, <1>2, <1>6, <1>9, <1>11, <2>1, <2>2, <3>1, <3>2, SubtypedAloud
    <3> QED
      BY <1>4, <3>3, CallKeeps DEF FateOK
  <2> QED
    BY <2>4, <2>5
<1>12. CASE /\ Subtyped(i, F) /\ LosesSubtypes(s, bye, mute, s.subtypes \ (bye \cup F))
            /\ unsaid' = unsaid \cup {s.id} /\ UNCHANGED <<state, packet>>
  <2>1. PICK lost, l : lost = s.subtypes \ (bye \cup F) /\ l = lost \cup mute
    OBVIOUS
  <2>2. lost \subseteq Subtypes /\ l \subseteq Subtypes /\ s.subtypes \subseteq F \cup b \cup l
    BY <1>5, <1>7, <1>9, <2>1
  <2>3. LosesSubtypes(s, bye, mute, lost)
    BY <1>12, <2>1
  <2>4. Air' = ChangedAir(Air, s, b, l)
    BY <1>10, <1>12, <2>1, <2>2, <2>3
  <2>5. unsaid \subseteq unsaid' /\ unsaid' \subseteq unsaid \cup {s.id} /\ s.id \in unsaid'
    BY <1>12
  <2>6. SoundNext
    BY <1>1, <1>2, <1>6, <1>9, <1>12, <2>2, <2>4, <2>5, SubtypedSilently
  <2> QED
    BY <1>4, <2>6, CallKeeps DEF FateOK
<1>13. CASE /\ Subtyped(i, {}) /\ LosesSubtypes(s, bye, mute, s.subtypes \ bye)
            /\ UNCHANGED <<state, packet, unsaid>>
  <2>1. PICK lost, l, T : lost = s.subtypes \ bye /\ l = lost \cup mute /\ T = {}
    OBVIOUS
  <2>2. /\ lost \subseteq Subtypes /\ l \subseteq Subtypes /\ s.subtypes \subseteq T \cup b \cup l
        /\ T \subseteq Subtypes /\ b \cap T = {} /\ T \subseteq s.subtypes
    BY <1>5, <1>7, <1>9, <2>1
  <2>3. LosesSubtypes(s, bye, mute, lost) /\ Subtyped(i, T)
    BY <1>13, <2>1
  <2>4. Air' = ChangedAir(Air, s, b, l)
    BY <1>10, <1>13, <2>1, <2>2, <2>3
  <2>5. unsaid \subseteq unsaid' /\ unsaid' \subseteq unsaid \cup {s.id}
    BY <1>13
  <2>6. SoundNext
    BY <1>1, <1>2, <1>9, <2>2, <2>3, <2>4, <2>5, SubtypedSilently
  <2> QED
    BY <1>4, <2>6, CallKeeps DEF FateOK
<1> QED
  BY <1>3, <1>11, <1>12, <1>13

-----------------------------------------------------------------------------
(* The delegated host.                                                      *)

LEMMA StepDelegateAdd ==
  ASSUME RecordsInv, mdns_delegate_hostname_add
  PROVE  RecordsInv'
<1>1. Counted
  BY CallsCount DEF mdns_delegate_hostname_add
<1>2. SoundNext
  BY NothingNext DEF mdns_delegate_hostname_add
<1>3. FateOK
  BY FateKept DEF mdns_delegate_hostname_add
<1> QED
  BY <1>1, <1>2, <1>3, CallKeeps DEF FateOK

(* Those that leave without a goodbye are those that leave and have none. *)
LEMMA StepDelegateRemove ==
  ASSUME RecordsInv, delegate_hostname_remove
  PROVE  RecordsInv'
<1> DEFINE Here == {i \in 1..Len(services) : services[i].host = "box"}
           Before(i) == {services[j].id : j \in {k \in Here : k < i}}
           Silent == {i \in Here : \/ state # "RUNNING" /\ ~packet.made
                                   \/ packet.hosts # {} \/ packet.services \ Before(i) # {}}
           Leaving(I) == {services[i] : i \in I}
<1>1. PICK X, Y : X = Leaving(Here) /\ Y = Leaving(Silent)
  OBVIOUS
<1>2. /\ Calls("delegate_hostname_remove", "OK")
      /\ boxed' = FALSE
      /\ Removes(X) /\ Frees(X)
      /\ \E mute \in SUBSET Leaving(Here \ Silent) :
           Charges(mute # {}) /\ Airs(Removed(Removed(Air, Y, {}), Leaving(Here \ Silent), mute))
  BY <1>1 DEF delegate_hostname_remove
<1>3. ServicesOK
  BY AirTyped
<1>4. Here \subseteq 1..Len(services) /\ Silent \subseteq Here
  OBVIOUS
<1> HIDE DEF Here, Silent, Before
<1>5. X \subseteq Range(services) /\ Y \subseteq X
  BY <1>1, <1>3, <1>4, ServicesAre
<1>6. Leaving(Here \ Silent) = X \ Y
  <2>1. \A i, j \in Here : services[i] = services[j] => i = j
    BY <1>3, <1>4 DEF ServicesOK
  <2> QED
    BY <1>1, <1>4, <2>1
<1>7. SoundNext
  <2>1. PICK Z : Z = Leaving(Here \ Silent)
    OBVIOUS
  <2>2. Z = X \ Y
    BY <1>6, <2>1
  <2>3. \E mute : mute \subseteq X \ Y /\ Airs(Removed(Removed(Air, Y, {}), X \ Y, mute))
    BY <1>2, <2>1, <2>2
  <2> QED
    BY <1>2, <1>5, <2>3, RemovesTwiceNext
<1>8. Counted
  BY <1>2, CallsCount, ChargesIs
<1>9. FateOK
  BY <1>2, FateKept, FreesOK
<1> QED
  BY <1>7, <1>8, <1>9, CallKeeps DEF FateOK

-----------------------------------------------------------------------------
(* The invariant.                                                           *)

LEMMA RecordsInit == ASSUME Init PROVE RecordsInv
<1>1. /\ services = <<>> /\ boxed = FALSE /\ state = "RUNNING" /\ packet = Nothing
      /\ heard = [ptr |-> {}, txt |-> [n \in AllNames |-> NoText]]
      /\ unsaid = {} /\ stale = {} /\ denied = "none" /\ fate = "none" /\ calls = 0 /\ fails = 0
  BY DEF Init
<1>2. Range(services) = {} /\ ServicesOK
  BY <1>1 DEF Range, ServicesOK
<1>3. calls \in 0..MaxCalls /\ fails \in 0..MaxFails
  BY <1>1, RecordsAssumption
<1>4. NoText \in Texts
  <2>1. NoText \in [{} -> Values]
    BY DEF NoText
  <2> QED
    BY <2>1 DEF Texts
<1>5. PICK T : T = [n \in AllNames |-> NoText]
  OBVIOUS
<1>6. T \in [AllNames -> Texts]
  BY <1>4, <1>5
<1>7. heard = [ptr |-> {}, txt |-> T]
  BY <1>1, <1>5
<1>8. heard \in [ptr : SUBSET Records, txt : [AllNames -> Texts]] /\ heard.ptr = {}
  BY <1>6, <1>7
<1>9. packet = Nothing /\ packet \in PacketType /\ packet.services = {}
  BY <1>1, NothingIs
<1>10. PICK w : w = Air
  OBVIOUS
<1>11. w = [state |-> "RUNNING", packet |-> packet, heard |-> heard, stale |-> {}]
  BY <1>1, <1>10 DEF Air
<1>12. w \in AirType /\ w.state = "RUNNING" /\ w.packet = packet /\ w.heard = heard
  BY <1>8, <1>9, <1>11 DEF AirType
<1>13. Sane({}, w, {})
  <2>1. Shaped(w)
    BY <1>9, <1>12, NothingIs DEF Shaped
  <2> QED
    BY <1>9, <1>12, <2>1 DEF Sane, Distinct, IdsOf
<1>14. Forgets({}, w) /\ Knows({}, w, {})
  BY <1>8, <1>12 DEF Forgets, Knows
<1>15. Sound(Range(services), Air, unsaid)
  BY <1>1, <1>2, <1>10, <1>13, <1>14 DEF Sound
<1> QED
  BY <1>1, <1>2, <1>3, <1>15 DEF RecordsInv, Fates

LEMMA ArraysAre == /\ Arrays \subseteq Seq(Subtypes)
                   /\ GivenTexts \subseteq Texts
<1>1. ASSUME NEW a \in Arrays
      PROVE  a \in Seq(Subtypes)
  <2>1. PICK k \in 0..MaxArray : a \in [1..k -> Subtypes]
    BY DEF Arrays
  <2> QED
    BY <2>1, RecordsAssumption
<1> QED
  BY <1>1 DEF GivenTexts

LEMMA StutterKeeps == ASSUME RecordsInv, UNCHANGED vars PROVE RecordsInv'
<1>1. UNCHANGED <<services, boxed, denied, fate, calls, fails>> /\ Air' = Air /\ unsaid' = unsaid
  BY DEF vars, Air
<1>2. Sound(Range(services), Air', unsaid')
  BY <1>1, AirTyped
<1> QED
  BY <1>1, <1>2, TaskKeeps DEF TaskLeaves

LEMMA RecordsNext == ASSUME RecordsInv, [Next]_vars PROVE RecordsInv'
<1>1. \A t \in GivenTexts : t \in Texts
  BY ArraysAre
<1>2. \A a \in Arrays : a \in Seq(Subtypes)
  BY ArraysAre
<1>3. ASSUME NEW n \in Names \cup {NoName}, NEW h \in Hosts, NEW txt \in GivenTexts, mdns_service_add_for_host(n, h, txt)
      PROVE  RecordsInv'
  BY <1>1, <1>3, StepAdd
<1>4. ASSUME NEW n \in Names \cup {NoName}, NEW h \in Hosts, NEW txt \in GivenTexts, mdns_service_txt_set_for_host(n, h, txt)
      PROVE  RecordsInv'
  BY <1>1, <1>4, StepTxtSet
<1>5. ASSUME NEW n \in Names \cup {NoName}, NEW h \in Hosts, mdns_service_remove_for_host(n, h)
      PROVE  RecordsInv'
  BY <1>5, StepRemove
<1>6. ASSUME NEW n \in Names \cup {NoName}, NEW h \in Hosts, NEW new \in Names,
             mdns_service_instance_name_set_for_host(n, h, new)
      PROVE  RecordsInv'
  BY <1>6, StepRename
<1>7. ASSUME NEW n \in Names \cup {NoName}, NEW h \in Hosts, NEW k \in Keys, NEW v \in Values,
             mdns_service_txt_item_set_for_host(n, h, k, v)
      PROVE  RecordsInv'
  BY <1>7, StepTxtItemSet
<1>8. ASSUME NEW n \in Names \cup {NoName}, NEW h \in Hosts, NEW k \in Keys, mdns_service_txt_item_remove_for_host(n, h, k)
      PROVE  RecordsInv'
  BY <1>8, StepTxtItemRemove
<1>9. ASSUME NEW n \in AllNames \cup {NoName}, NEW t \in Subtypes, mdns_service_subtype_remove_for_host(n, t)
      PROVE  RecordsInv'
  BY <1>9, StepSubtypeRemove
<1>10. ASSUME NEW n \in AllNames \cup {NoName}, NEW a \in Arrays, mdns_service_subtype_add_multiple_items_for_host(n, a)
       PROVE  RecordsInv'
  BY <1>2, <1>10, StepSubtypeAdd
<1>11. ASSUME NEW n \in AllNames \cup {NoName}, NEW a \in Arrays, mdns_service_subtype_update_multiple_items_for_host(n, a)
       PROVE  RecordsInv'
  BY <1>2, <1>11, StepSubtypeUpdate
<1>12. ASSUME NEW h \in Hosts, mdns_lookup_service(h)
       PROVE  RecordsInv'
  BY <1>12, StepLookup
<1>13. CASE mdns_service_remove_all
  BY <1>13, StepRemoveAll
<1>14. CASE mdns_delegate_hostname_add
  BY <1>14, StepDelegateAdd
<1>15. CASE delegate_hostname_remove
  BY <1>15, StepDelegateRemove
<1>16. CASE ProbesEnd
  BY <1>16, StepProbesEnd
<1>17. CASE AnnouncementSent
  BY <1>17, StepAnnouncementSent
<1>18. CASE UNCHANGED vars
  BY <1>18, StutterKeeps
<1> QED
  BY <1>3, <1>4, <1>5, <1>6, <1>7, <1>8, <1>9, <1>10, <1>11, <1>12, <1>13, <1>14, <1>15, <1>16, <1>17, <1>18, Zenon DEF Next

LEMMA Invariance == Spec => []RecordsInv
<1>1. Init => RecordsInv
  BY RecordsInit
<1>2. RecordsInv /\ [Next]_vars => RecordsInv'
  BY RecordsNext
<1> QED
  BY <1>1, <1>2, PTL DEF Spec

LEMMA InvTypeOK == ASSUME RecordsInv PROVE TypeOK
<1>1. PICK w : w = Air
  OBVIOUS
<1>2. /\ w \in AirType /\ w.state = state /\ w.packet = packet /\ w.heard = heard /\ w.stale = stale
      /\ ServicesOK /\ Sane(Range(services), w, unsaid) /\ unsaid \subseteq Ids
  BY <1>1, AirTyped DEF Sound
<1>3. /\ state \in {"PROBE", "ANNOUNCE", "RUNNING"}
      /\ packet \in PacketType
      /\ heard \in [ptr : SUBSET Records, txt : [AllNames -> Texts]] /\ stale \subseteq Records
  BY <1>2, HeardTyped
<1>4. /\ packet.services \subseteq {s.id : s \in Range(services)}
      /\ packet.made => packet.services # {} \/ packet.hosts # {}
      /\ state = "RUNNING" \/ (state = "ANNOUNCE" /\ ~packet.made) => packet = Nothing
  BY <1>2 DEF Sane, Shaped, IdsOf
<1> QED
  BY <1>2, <1>3, <1>4 DEF TypeOK, ServicesOK, RecordsInv, PacketType, Fates

LEMMA InvForget == ASSUME RecordsInv PROVE ListenersForget
<1>1. Forgets(Range(services), Air) /\ Air.heard = heard /\ Air.stale = stale
  BY AirTyped DEF Sound
<1> QED
  BY <1>1 DEF Forgets, ListenersForget

LEMMA InvUpToDate == ASSUME RecordsInv PROVE ListenersUpToDate
<1> SUFFICES ASSUME NEW s \in Range(services), s.id \notin unsaid, Told(s), Namesakes({s}) = {}
             PROVE  All(s) \subseteq heard.ptr /\ heard.txt[s.name] = s.txt
  BY DEF ListenersUpToDate
<1>1. PICK S, w : S = Range(services) /\ w = Air
  OBVIOUS
<1>2. Knows(S, w, unsaid) /\ w.heard = heard /\ w.packet = packet /\ s \in S
  BY <1>1, AirTyped DEF Sound
<1>3. Alone(s, S)
  <2> SUFFICES ASSUME NEW y \in S, y.name = s.name, y.id # s.id
               PROVE  FALSE
    BY DEF Alone
  <2>1. y.id \in Namesakes({s})
    BY <1>1 DEF Namesakes
  <2> QED
    BY <2>1
<1>4. Due(s, S, w, unsaid)
  BY <1>2, <1>3 DEF Due, Told
<1> QED
  BY <1>2, <1>4 DEF Knows, Known

-----------------------------------------------------------------------------
(* The theorems.                                                            *)

(* Whatever calls, failures of memory, probes and announcements come, the   *)
(* state is well-typed, the services have blocks of their own, a packet in  *)
(* the queue has something to tell of services that are there, and a PCB    *)
(* that rests has none.                                                     *)
THEOREM TypeCorrect == Spec => []TypeOK
  BY Invariance, InvTypeOK, PTL

(* A listener never goes on holding a name or a subtype that the device     *)
(* gave up, by a removal, a new name, an update of the subtypes or the end  *)
(* of a delegated host, but for records whose goodbye was not sent: the PCB *)
(* was not running, or memory ran out for it.                               *)
THEOREM ListenersAlwaysForget == Spec => []ListenersForget
  BY Invariance, InvForget, PTL

(* Once the announcement of a service is out a listener holds its name, its *)
(* subtypes and its TXT items as they are now, in whatever order the calls  *)
(* and the task's steps came and whichever allocation of theirs failed, but *)
(* for the services that a call, or such a failure, left without one.       *)
THEOREM ListenersKeepUp == Spec => []ListenersUpToDate
  BY Invariance, InvUpToDate, PTL

(* No other function reports what these four report. *)
LEMMA OneName ==
  ASSUME NEW c, NEW r, Calls(c, r), denied' \in {"service_add", "txt_set", "txt_item_set", "subtype_add"}
  PROVE  r = "NO_MEM" /\ c \in {"service_add", "txt_set", "txt_item_set", "subtype_add"}
  BY DEF Calls

LEMMA NothingLost ==
  ASSUME RecordsInv, [Next]_vars, calls' > calls,
         denied' \in {"service_add", "txt_set", "txt_item_set", "subtype_add"}
  PROVE  services' = services
<1> DEFINE Four == {"service_add", "txt_set", "txt_item_set", "subtype_add"}
<1>1. calls \in Nat /\ services \in Seq(Service)
  BY RecordsAssumption DEF RecordsInv, ServicesOK
<1>2. calls' # calls
  BY <1>1
<1>3. \A c, r : Calls(c, r) => r = "NO_MEM" /\ c \in Four
  BY OneName
<1>4. ASSUME NEW n, NEW h, NEW txt, mdns_service_add_for_host(n, h, txt)
      PROVE  services' = services
  BY <1>3, <1>4 DEF mdns_service_add_for_host
<1>5. ASSUME NEW n, NEW h, NEW txt, mdns_service_txt_set_for_host(n, h, txt)
      PROVE  services' = services
  BY <1>3, <1>5 DEF mdns_service_txt_set_for_host, TextCalls
<1>6. ASSUME NEW n, NEW h, NEW k, NEW v, mdns_service_txt_item_set_for_host(n, h, k, v)
      PROVE  services' = services
  BY <1>3, <1>6 DEF mdns_service_txt_item_set_for_host, TextCalls
<1>7. ASSUME NEW n, NEW a \in Arrays, mdns_service_subtype_add_multiple_items_for_host(n, a)
      PROVE  services' = services
  <2>1. PICK i, s, k : i = Found(n, "any") /\ s = services[i] /\ k = Added(s.subtypes, a)
    OBVIOUS
  <2>2. i # 0 /\ \E m \in 0..k-1 : Subtyped(i, RolledBack(s.subtypes, a, m))
    BY <1>3, <1>7, <2>1 DEF mdns_service_subtype_add_multiple_items_for_host, SubtypeCalls
  <2>3. i \in 1..Len(services) /\ s.subtypes \subseteq Subtypes /\ a \in Seq(Subtypes)
    BY <2>1, <2>2, FoundService, ArraysAre
  <2>4. PICK m \in 0..k-1 : Subtyped(i, RolledBack(s.subtypes, a, m))
    BY <2>2
  <2>5. k \in 0..Len(a) /\ Len(a) \in Nat
    BY <2>1, <2>3, AddedIs
  <2>6. m \in 0..k
    BY <2>5
  <2>7. RolledBack(s.subtypes, a, m) = s.subtypes
    BY <2>1, <2>3, <2>6, AddedIs
  <2> QED
    BY <1>1, <2>1, <2>3, <2>4, <2>7, SameSubtypes
<1>8. ASSUME NEW n, NEW h, NEW new, \/ mdns_service_remove_for_host(n, h)
                                    \/ mdns_service_instance_name_set_for_host(n, h, new)
      PROVE  FALSE
  BY <1>3, <1>8 DEF mdns_service_remove_for_host, mdns_service_instance_name_set_for_host
<1>9. ASSUME NEW n, NEW h, NEW k, mdns_service_txt_item_remove_for_host(n, h, k)
      PROVE  FALSE
  BY <1>3, <1>9 DEF mdns_service_txt_item_remove_for_host, TextCalls
<1>10. ASSUME NEW n, NEW t, mdns_service_subtype_remove_for_host(n, t)
       PROVE  FALSE
  BY <1>3, <1>10 DEF mdns_service_subtype_remove_for_host, SubtypeCalls
<1>11. ASSUME NEW n, NEW a, mdns_service_subtype_update_multiple_items_for_host(n, a)
       PROVE  FALSE
  BY <1>3, <1>11 DEF mdns_service_subtype_update_multiple_items_for_host, SubtypeCalls
<1>12. ASSUME NEW h, mdns_lookup_service(h)
       PROVE  FALSE
  BY <1>3, <1>12 DEF mdns_lookup_service
<1>13. ASSUME mdns_service_remove_all \/ mdns_delegate_hostname_add \/ delegate_hostname_remove
       PROVE  FALSE
  BY <1>3, <1>13 DEF mdns_service_remove_all, mdns_delegate_hostname_add, delegate_hostname_remove
<1>14. ~ProbesEnd /\ ~AnnouncementSent /\ ~UNCHANGED vars
  BY <1>2 DEF ProbesEnd, AnnouncementSent, vars
<1> QED
  BY <1>4, <1>5, <1>6, <1>7, <1>8, <1>9, <1>10, <1>11, <1>12, <1>13, <1>14, Zenon DEF Next

(* A call that adds a service, sets TXT items or adds an array of subtypes, *)
(* and reports that memory ran out, at whichever element it did, leaves the *)
(* services exactly as they were.                                           *)
THEOREM NoMemoryLeavesServices == Spec => NoMemoryNoChange
<1>1. RecordsInv /\ [Next]_vars
        => [calls' > calls /\ denied' \in {"service_add", "txt_set", "txt_item_set", "subtype_add"}
              => services' = services]_vars
  BY NothingLost
<1> QED
  BY <1>1, Invariance, PTL DEF Spec, NoMemoryNoChange
=============================================================================
