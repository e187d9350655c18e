------------------------ MODULE MultiServices_proofs ------------------------
(***************************************************************************)
(* The three services of the multi-service sample, proved for any number   *)
(* of buffers, of messages and of uses of the devices, and for any set of  *)
(* users: the three safety invariants of MultiServices and its type.       *)
(* None is inductive.  What is needed says that                            *)
(*                                                                         *)
(*   - a buffer is in one place (Places), and what it holds fits the       *)
(*     place (Contents);                                                   *)
(*   - a user has at most one message under way, in the ring, in a slot,   *)
(*     in a service's copy or in an answer (Alone, Answering, Answers,     *)
(*     Sample), so a slot is never overwritten unless it is shared;        *)
(*   - the client sample and its service count the same messages, and the  *)
(*     end of its channel is the last that is said of it (Counts,          *)
(*     Farewell);                                                          *)
(*   - nobody writes before the announcement (Greetings, Known);           *)
(*   - the second tty endpoint is bound to the device that is in use, and  *)
(*     a device's release comes before its next announcement (Bindings,    *)
(*     Order);                                                             *)
(*   - without sharing no buffer is lost (Kept).                           *)
(***************************************************************************)
EXTENDS MultiServices, TLAPS, WellFoundedInduction

(* The members of a list, and that each is there once.                     *)
Members(s)  == {s[k] : k \in 1 .. Len(s)}
OnceEach(s) == \A k, l \in 1 .. Len(s) : s[k] = s[l] => k = l

(* y comes after x in a list.                                              *)
After(s, x, y) == \E k, l \in 1 .. Len(s) : k < l /\ s[k] = x /\ s[l] = y

(* Who listens for an announcement of an endpoint.                         *)
Audience(e) == IF e = "raw0" THEN {"raw0", "rawA", "rawB"} ELSE {e}

(* A message of u is in the ring.                                          *)
Writes(u, b) == mem[b].kind = "data" /\ mem[b].from = u

(* Where the buffers are.                                                  *)
Places ==
    /\ OnceEach(ring)
    /\ \A b \in Members(ring) : b \notin free
    /\ \A e \in Slots : slot[e] # 0 => slot[e] \notin free /\ slot[e] \notin Members(ring)

(* What is in them: data are for the endpoint the writer writes to, and    *)
(* the writer waits; only devices come and go.                             *)
Contents ==
    /\ \A b \in Members(ring) :
         \/ /\ mem[b].kind = "data" /\ mem[b].from \in User
            /\ mem[b].to = Target(mem[b].from) /\ hst[mem[b].from] = "wait"
         \/ mem[b].kind = "create" /\ mem[b].from \in Devices /\ hst[mem[b].from] = "announced"
         \/ /\ mem[b].kind = "destroy" /\ mem[b].from \in Devices
            /\ hst[mem[b].from] \in {"off", "announced"}
    /\ \A e \in Slots : slot[e] # 0 =>
         /\ mem[slot[e]].kind = "data" /\ mem[slot[e]].from \in User
         /\ mem[slot[e]].to = e /\ Target(mem[slot[e]].from) = e
         /\ hst[mem[slot[e]].from] = "wait"

(* A user has one message under way.                                       *)
Alone ==
    /\ \A b, c \in Members(ring) :
         mem[b].kind = "data" /\ mem[c].kind = "data" /\ mem[b].from = mem[c].from => b = c
    /\ \A b \in Members(ring) : mem[b].kind = "data" =>
         \A e \in Slots : slot[e] # 0 => mem[slot[e]].from # mem[b].from

(* A service that answers: the message it has copied is the only one of    *)
(* its user, apart from the slot it was copied from.                       *)
Answering ==
    \A th \in {"tty", "raw"} : pc[th] = "send" =>
         /\ slot[EptOf(th, idx[th])] # 0
         /\ tx_buff[th].from \in User /\ Target(tx_buff[th].from) = EptOf(th, idx[th])
         /\ hst[tx_buff[th].from] = "wait"
         /\ \A b \in Members(ring) : ~Writes(tx_buff[th].from, b)

(* An answer under way: its user waits and has nothing else under way.     *)
Answers ==
    /\ OnceEach(toHost)
    /\ \A m \in Members(toHost) : m.kind = "answer" =>
         /\ m.from = m.to /\ hst[m.to] = "wait"
         /\ \A b \in Members(ring) : ~Writes(m.to, b)
         /\ \A e \in Slots : slot[e] # 0 => mem[slot[e]].from # m.to
         /\ \A th \in {"tty", "raw"} : pc[th] = "send" => tx_buff[th].from # m.to

(* The client sample's message, copied and not answered yet.               *)
Copied == (sem["cs"] = 1 /\ pc["cs"] # "start") \/ pc["cs"] = "send"
Sample ==
    /\ Copied => /\ cs_msg.from = "cs" /\ hst["cs"] = "wait" /\ dest["cs"] = "cs"
                 /\ \A b \in Members(ring) : ~Writes("cs", b)
                 /\ \A m \in Members(toHost) : ~(m.kind = "answer" /\ m.to = "cs")
    /\ dest["cs"] \in {None, "cs"}

(* How many messages the client sample and its service have counted.       *)
Counts ==
    /\ hst["cs"] = "off" => rx_count = 0 /\ msg_cnt = 0
    /\ hst["cs"] = "idle" => msg_cnt = rx_count
    /\ hst["cs"] \in {"off", "idle", "wait"} => rx_count < MSGS
    /\ \A b \in Members(ring) : Writes("cs", b) => msg_cnt = rx_count
    /\ sem["cs"] = 1 /\ pc["cs"] # "start" => msg_cnt = rx_count
    /\ pc["cs"] = "send" => msg_cnt = rx_count + 1
    /\ \A m \in Members(toHost) : m.kind = "answer" /\ m.to = "cs" => msg_cnt = rx_count + 1
    /\ pc["cs"] \in {"destroy", "ended"} => msg_cnt = MSGS

(* The end of the client sample's channel is announced after everything    *)
(* else about it.                                                          *)
Farewell ==
    /\ \A m \in Members(toHost) : m.kind = "destroy" =>
         m.to = "cs" /\ m.from = "cs" /\ pc["cs"] = "ended"
    /\ \A m, n \in Members(toHost) : After(toHost, m, n) /\ m.kind = "destroy" => n.to # "cs"

(* Start-up: nobody writes before the announcement.                        *)
Greetings ==
    /\ mpc \in {"init", "vdev"} => \A th \in Service : sem[th] = 0 /\ pc[th] = "start"
    /\ pc["cs"] # "scan" /\ \A th \in {"tty", "raw"} : pc[th] \notin {"destroy", "ended"}
    /\ \A th \in Service : pc[th] \in {"start", "announce"} =>
         /\ \A u \in Audience(First(th)) : hst[u] = "off"
         /\ \A m \in Members(toHost) : m.kind = "create" => m.to # First(th)
    /\ \A m \in Members(toHost) : m.kind = "create" =>
         /\ m.from = m.to /\ m.to \in {"cs", "tty0", "raw0"}
         /\ \A u \in Audience(m.to) : hst[u] = "off"

(* Only the users of this run are at work, and only devices are announced. *)
Known ==
    /\ \A u \in User : hst[u] # "off" => u \in users
    /\ \A u \in User \ Devices : hst[u] # "announced"

(* The first tty endpoint has one user; the second is the device's that is *)
(* in use, about to learn so, or about to be told.                         *)
Bindings ==
    /\ dest["tty0"] \in {None, "tty0"} /\ (slot["tty0"] # 0 => dest["tty0"] = "tty0")
    /\ "tty1" \in ept <=> dest["tty1"] # None
    /\ \A u \in Devices : hst[u] \in {"idle", "wait"} => dest["tty1"] = u
    /\ \A m \in Members(toHost) : m.kind = "bound" =>
         m.to \in Devices /\ m.from = "tty1" /\ hst[m.to] = "announced" /\ dest["tty1"] = m.to
    /\ mpc = "bound" => ring # <<>> /\ mem[Head(ring)].kind = "create"
                        /\ dest["tty1"] = mem[Head(ring)].from

(* What a device says in the ring: a release, then an announcement, and    *)
(* nothing of the kind once it is bound.                                   *)
Order ==
    /\ \A u \in Devices : hst[u] \in {"idle", "wait"} =>
         \A b \in Members(ring) : mem[b].from = u => mem[b].kind = "data"
    /\ \A m \in Members(toHost) : m.kind = "bound" => \A b \in Members(ring) : mem[b].from # m.to
    /\ \A b, c \in Members(ring) : After(ring, b, c) /\ mem[b].kind = "create" =>
         mem[c].from # mem[b].from

(* No buffer is lost.                                                      *)
Kept == ~Shared => \A b \in 1 .. NBuf :
          b \in free \/ b \in Members(ring) \/ \E e \in Slots : slot[e] = b

IInv == /\ TypeOK /\ Places /\ Contents /\ Alone /\ Answering /\ Answers /\ Sample /\ Counts
        /\ Farewell /\ Greetings /\ Known /\ Bindings /\ Order /\ Kept
-----------------------------------------------------------------------------
(* The members of a list when one is added to it.                          *)
LEMMA Adding ==
  ASSUME NEW S, NEW s \in Seq(S), NEW e \in S, OnceEach(s), e \notin Members(s)
  PROVE  /\ Append(s, e) \in Seq(S) /\ Len(Append(s, e)) = Len(s) + 1 /\ OnceEach(Append(s, e))
         /\ \A x : x \in Members(Append(s, e)) <=> x \in Members(s) \/ x = e
         /\ \A x, y : After(Append(s, e), x, y) => x \in Members(s) /\ (After(s, x, y) \/ y = e)
  <1> DEFINE t == Append(s, e)
  <1>1. /\ t \in Seq(S) /\ Len(s) \in Nat /\ Len(t) = Len(s) + 1
        /\ \A k \in 1 .. Len(s) : t[k] = s[k]
        /\ t[Len(s) + 1] = e
    OBVIOUS
  <1> HIDE DEF t
  <1>2. \A x : x \in Members(t) <=> x \in Members(s) \/ x = e
    BY <1>1 DEF Members
  <1>3. OnceEach(t)
    BY <1>1 DEF Members, OnceEach
  <1>4. ASSUME NEW x, NEW y, After(t, x, y) PROVE x \in Members(s) /\ (After(s, x, y) \/ y = e)
    <2>1. PICK k, l \in 1 .. Len(t) : k < l /\ t[k] = x /\ t[l] = y
      BY <1>4 DEF After
    <2>2. k \in 1 .. Len(s) /\ s[k] = x
      BY <1>1, <2>1
    <2>3. CASE l \in 1 .. Len(s)
      BY <1>1, <2>1, <2>2, <2>3 DEF After, Members
    <2>4. CASE l = Len(s) + 1
      BY <1>1, <2>1, <2>2, <2>4 DEF Members
    <2> QED BY <1>1, <2>1, <2>3, <2>4
  <1> QED BY <1>1, <1>2, <1>3, <1>4 DEF t

(* And when the first is taken.                                            *)
LEMMA Taking ==
  ASSUME NEW S, NEW s \in Seq(S), s # <<>>, OnceEach(s)
  PROVE  /\ Tail(s) \in Seq(S) /\ Len(s) \in Nat /\ Len(Tail(s)) \in Nat
         /\ Len(s) = Len(Tail(s)) + 1 /\ OnceEach(Tail(s))
         /\ Head(s) \in S /\ Head(s) \in Members(s)
         /\ \A x : x \in Members(Tail(s)) <=> x \in Members(s) /\ x # Head(s)
         /\ \A x, y : After(Tail(s), x, y) => After(s, x, y)
         /\ \A y \in Members(Tail(s)) : After(s, Head(s), y)
  <1> DEFINE t == Tail(s)
             h == Head(s)
  <1>1. /\ t \in Seq(S) /\ Len(s) \in Nat /\ Len(t) \in Nat /\ Len(s) = Len(t) + 1
        /\ \A k \in 1 .. Len(t) : t[k] = s[k + 1]
    OBVIOUS
  <1>2. h = s[1] /\ h \in S
    OBVIOUS
  <1> HIDE DEF t, h
  <1>3. 1 \in 1 .. Len(s) /\ \A k \in 1 .. Len(t) : k + 1 \in 1 .. Len(s) /\ 1 < k + 1
    BY <1>1
  <1>4. h \in Members(s)
    BY <1>2, <1>3 DEF Members
  <1>5. OnceEach(t)
    <2> SUFFICES ASSUME NEW k \in 1 .. Len(t), NEW l \in 1 .. Len(t), t[k] = t[l] PROVE k = l
      BY DEF OnceEach
    <2>1. k + 1 = l + 1
      BY <1>1, <1>3 DEF OnceEach
    <2> QED BY <2>1
  <1>6. ASSUME NEW y \in Members(t) PROVE y \in Members(s) /\ y # h /\ After(s, h, y)
    <2>1. PICK k \in 1 .. Len(t) : t[k] = y
      BY <1>6 DEF Members
    <2>2. k + 1 \in 1 .. Len(s) /\ s[k + 1] = y /\ k + 1 # 1
      BY <1>1, <1>3, <2>1
    <2> QED BY <1>2, <1>3, <2>1, <2>2 DEF Members, After, OnceEach
  <1>7. ASSUME NEW x \in Members(s), x # h PROVE x \in Members(t)
    <2>1. PICK k \in 1 .. Len(s) : s[k] = x
      BY <1>7 DEF Members
    <2>2. k # 1
      BY <1>2, <1>7, <2>1
    <2>3. k - 1 \in 1 .. Len(t) /\ (k - 1) + 1 = k
      BY <1>1, <2>2
    <2>4. t[k - 1] = x
      BY <1>1, <2>1, <2>3
    <2> QED BY <2>3, <2>4 DEF Members
  <1>8. ASSUME NEW x, NEW y, After(t, x, y) PROVE After(s, x, y)
    <2>1. PICK k, l \in 1 .. Len(t) : k < l /\ t[k] = x /\ t[l] = y
      BY <1>8 DEF After
    <2>2. k + 1 < l + 1 /\ s[k + 1] = x /\ s[l + 1] = y
      BY <1>1, <2>1
    <2> QED BY <1>3, <2>2 DEF After
  <1> QED BY <1>1, <1>2, <1>4, <1>5, <1>6, <1>7, <1>8 DEF t, h

(* A list has members of its set, and the empty list has none.             *)
LEMMA Listing ==
  ASSUME NEW S, NEW s \in Seq(S)
  PROVE  /\ Len(s) \in Nat /\ \A x \in Members(s) : x \in S
         /\ s = <<>> => OnceEach(s) /\ \A x : x \notin Members(s)
  <1>1. Len(s) \in Nat /\ \A k \in 1 .. Len(s) : s[k] \in S
    OBVIOUS
  <1> QED BY <1>1 DEF Members, OnceEach

(* The least of a set of numbers: what the host fills is a free buffer.    *)
LEMMA Least ==
  ASSUME NEW S \in SUBSET Nat, S # {}
  PROVE  (CHOOSE x \in S : \A y \in S : x <= y) \in S
  <1> DEFINE R == OpToRel(<, Nat)
  <1>1. IsWellFoundedOn(R, Nat)
    BY NatLessThanWellFounded
  <1>2. \A x, y \in Nat : x < y => <<x, y>> \in R
    BY DEF OpToRel
  <1> HIDE DEF R
  <1>3. PICK x \in S : \A y \in S : ~(<<y, x>> \in R)
    BY <1>1, WFMin
  <1>4. ASSUME NEW y \in S PROVE x <= y
    <2>1. x \in Nat /\ y \in Nat /\ <<y, x>> \notin R
      BY <1>3
    <2>2. ~(y < x)
      BY <1>2, <2>1
    <2> QED BY <2>1, <2>2
  <1> QED BY <1>4

(* The endpoints of the services and of the users, spelled out.            *)
LEMMA Endpoints ==
  /\ EptOf("tty", 0) = "tty0" /\ EptOf("tty", 1) = "tty1"
  /\ EptOf("raw", 0) = "raw0" /\ EptOf("raw", 1) = "raw1"
  /\ First("cs") = "cs" /\ First("tty") = "tty0" /\ First("raw") = "raw0"
  BY DEF EptOf, First

(* Whom a user writes to.                                                  *)
LEMMA Targets ==
  ASSUME NEW u \in User
  PROVE  /\ Target(u) \in Endpoint
         /\ (Target(u) = "cs" <=> u = "cs") /\ (Target(u) = "tty0" <=> u = "tty0")
         /\ (Target(u) = "tty1" <=> u \in Devices) /\ (Target(u) = "raw0" <=> u = "raw0")
         /\ (Target(u) = "raw1" <=> u \in {"rawA", "rawB"})
  BY DEF Target, User, Devices, Endpoint, Slots
-----------------------------------------------------------------------------
(* What the steps do to buffers and lists.  A message is put in the ring.  *)
LEMMA Putting ==
  ASSUME IInv, NEW m \in Mail, HPut(m)
  PROVE  \E b \in free :
           /\ mem' \in [1 .. NBuf -> Mail] /\ mem'[b] = m
           /\ \A x \in 1 .. NBuf : x # b => mem'[x] = mem[x]
           /\ b \in 1 .. NBuf /\ b \notin Members(ring)
           /\ \A e \in Slots : slot[e] # 0 => slot[e] # b
           /\ free' \subseteq 1 .. NBuf /\ \A x : x \in free' <=> x \in free /\ x # b
           /\ ring' \in Seq(1 .. NBuf) /\ OnceEach(ring')
           /\ \A x : x \in Members(ring') <=> x \in Members(ring) \/ x = b
           /\ \A x, y : After(ring', x, y) => x \in Members(ring) /\ (After(ring, x, y) \/ y = b)
           /\ ring # <<>> => ring' # <<>> /\ Head(ring') = Head(ring) /\ Head(ring) # b
                             /\ Head(ring) \in 1 .. NBuf
  <1> DEFINE b == CHOOSE x \in free : \A y \in free : x <= y
  <1>1. /\ free # {} /\ mem' = [mem EXCEPT ![b] = m] /\ free' = free \ {b}
        /\ ring' = Append(ring, b)
    BY DEF HPut
  <1>2. NBuf \in Nat /\ free \subseteq 1 .. NBuf /\ ring \in Seq(1 .. NBuf)
        /\ mem \in [1 .. NBuf -> Mail]
    BY ServicesAssumption DEF IInv, TypeOK, SharedTypeOK
  <1>3. b \in free
    <2>1. free \in SUBSET Nat
      BY <1>2
    <2> QED BY <1>1, <2>1, Least
  <1> HIDE DEF b
  <1>4. /\ OnceEach(ring) /\ b \notin Members(ring)
        /\ \A e \in Slots : slot[e] # 0 => slot[e] # b
    BY <1>3 DEF IInv, Places
  <1>5. /\ ring' \in Seq(1 .. NBuf) /\ OnceEach(ring')
        /\ \A x : x \in Members(ring') <=> x \in Members(ring) \/ x = b
        /\ \A x, y : After(ring', x, y) => x \in Members(ring) /\ (After(ring, x, y) \/ y = b)
    BY <1>1, <1>2, <1>3, <1>4, Adding
  <1>6. /\ mem' \in [1 .. NBuf -> Mail] /\ mem'[b] = m
        /\ \A x \in 1 .. NBuf : x # b => mem'[x] = mem[x]
    BY <1>1, <1>2, <1>3
  <1>7. free' \subseteq 1 .. NBuf /\ \A x : x \in free' <=> x \in free /\ x # b
    BY <1>1, <1>2
  <1>8. ring # <<>> => ring' # <<>> /\ Head(ring') = Head(ring) /\ Head(ring) \in Members(ring)
                    /\ Head(ring) \in 1 .. NBuf
    BY <1>1, <1>2, <1>4, Taking
  <1> QED BY <1>2, <1>3, <1>4, <1>5, <1>6, <1>7, <1>8

(* The first message of the ring is taken.                                 *)
LEMMA Dispatching ==
  ASSUME IInv, ring # <<>>, ring' = Tail(ring)
  PROVE  /\ Head(ring) \in 1 .. NBuf /\ Head(ring) # 0 /\ Head(ring) \in Members(ring)
         /\ ring' \in Seq(1 .. NBuf) /\ OnceEach(ring')
         /\ \A x : x \in Members(ring') <=> x \in Members(ring) /\ x # Head(ring)
         /\ \A x, y : After(ring', x, y) => After(ring, x, y)
         /\ \A y \in Members(ring') : After(ring, Head(ring), y)
         /\ \A e \in Slots : slot[e] # 0 => slot[e] # Head(ring)
         /\ Head(ring) \notin free
  <1>1. ring \in Seq(1 .. NBuf) /\ OnceEach(ring) /\ NBuf \in Nat
    BY ServicesAssumption DEF IInv, TypeOK, SharedTypeOK, Places
  <1>2. /\ Head(ring) \in 1 .. NBuf /\ Head(ring) \in Members(ring)
        /\ ring' \in Seq(1 .. NBuf) /\ OnceEach(ring')
        /\ \A x : x \in Members(ring') <=> x \in Members(ring) /\ x # Head(ring)
        /\ \A x, y : After(ring', x, y) => After(ring, x, y)
        /\ \A y \in Members(ring') : After(ring, Head(ring), y)
    BY <1>1, Taking
  <1>3. Head(ring) # 0
    BY <1>1, <1>2
  <1> QED BY <1>2, <1>3 DEF IInv, Places

(* A buffer is freed.                                                      *)
LEMMA Freeing ==
  ASSUME IInv, NEW b \in 1 .. NBuf, Freed(b)
  PROVE  /\ free' \subseteq 1 .. NBuf /\ \A x : x \in free' <=> x \in free \/ x = b
         /\ mem' \in [1 .. NBuf -> Mail] /\ \A x \in 1 .. NBuf : x # b => mem'[x] = mem[x]
  <1>1. NoMessage \in Mail
    BY DEF NoMessage, Message, Mail
  <1> QED BY <1>1 DEF Freed, IInv, TypeOK, SharedTypeOK

(* Members of the ring and slots are buffers.                              *)
LEMMA Numbered ==
  ASSUME IInv
  PROVE  /\ \A b \in Members(ring) : b \in 1 .. NBuf
         /\ \A e \in Slots : slot[e] # 0 => slot[e] \in 1 .. NBuf
         /\ \A m \in Members(toHost) : m \in Reply /\ m.to \in User
  <1>1. /\ ring \in Seq(1 .. NBuf) /\ toHost \in Seq(Reply) /\ NBuf \in Nat
        /\ slot \in [Slots -> 0 .. NBuf]
    BY ServicesAssumption DEF IInv, TypeOK, SharedTypeOK, ServiceTypeOK
  <1>2. \A m \in Reply : m.to \in User
    BY DEF Reply
  <1>3. \A m \in Members(toHost) : m \in Reply
    BY <1>1, Listing
  <1>4. \A b \in Members(ring) : b \in 1 .. NBuf
    BY <1>1, Listing
  <1>5. \A e \in Slots : slot[e] # 0 => slot[e] \in 1 .. NBuf
    BY <1>1
  <1> QED BY <1>2, <1>3, <1>4, <1>5

(* A message is sent to the host, or given up.                             *)
LEMMA Sending ==
  ASSUME IInv, NEW m \in Reply, m \notin Members(toHost), Send(m) \/ UNCHANGED toHost
  PROVE  /\ toHost' \in Seq(Reply) /\ Len(toHost') <= NTx /\ OnceEach(toHost')
         /\ \A x \in Members(toHost') : x \in Members(toHost) \/ x = m
         /\ \A x, y : After(toHost', x, y) =>
              x \in Members(toHost) /\ (After(toHost, x, y) \/ y = m)
  <1>1. toHost \in Seq(Reply) /\ OnceEach(toHost) /\ Len(toHost) <= NTx /\ NTx \in Nat
    BY ServicesAssumption DEF IInv, TypeOK, SharedTypeOK, Answers
  <1>2. CASE UNCHANGED toHost
    BY <1>1, <1>2 DEF After, Members
  <1>3. CASE Send(m)
    <2>1. toHost' = Append(toHost, m) /\ Len(toHost) < NTx /\ Len(toHost) \in Nat
      BY <1>1, <1>3 DEF Send, TxAvail
    <2>2. /\ toHost' \in Seq(Reply) /\ Len(toHost') = Len(toHost) + 1 /\ OnceEach(toHost')
          /\ \A x : x \in Members(toHost') <=> x \in Members(toHost) \/ x = m
          /\ \A x, y : After(toHost', x, y) =>
               x \in Members(toHost) /\ (After(toHost, x, y) \/ y = m)
      BY <1>1, <2>1, Adding
    <2> QED BY <1>1, <2>1, <2>2
  <1> QED BY <1>2, <1>3

(* The host takes a message.                                               *)
LEMMA Getting ==
  ASSUME IInv, toHost # <<>>, toHost' = Tail(toHost)
  PROVE  /\ Head(toHost) \in Reply /\ Head(toHost) \in Members(toHost)
         /\ Head(toHost).kind \in {"create", "bound", "answer", "destroy"}
         /\ Head(toHost).to \in User
         /\ toHost' \in Seq(Reply) /\ Len(toHost') <= NTx /\ OnceEach(toHost')
         /\ \A x : x \in Members(toHost') <=> x \in Members(toHost) /\ x # Head(toHost)
         /\ \A x, y : After(toHost', x, y) => After(toHost, x, y)
         /\ \A y \in Members(toHost') : After(toHost, Head(toHost), y)
  <1>1. toHost \in Seq(Reply) /\ OnceEach(toHost) /\ Len(toHost) <= NTx /\ NTx \in Nat
    BY ServicesAssumption DEF IInv, TypeOK, SharedTypeOK, Answers
  <1>2. /\ Head(toHost) \in Reply /\ Head(toHost) \in Members(toHost)
        /\ toHost' \in Seq(Reply) /\ OnceEach(toHost')
        /\ \A x : x \in Members(toHost') <=> x \in Members(toHost) /\ x # Head(toHost)
        /\ \A x, y : After(toHost', x, y) => After(toHost, x, y)
        /\ \A y \in Members(toHost') : After(toHost, Head(toHost), y)
        /\ Len(toHost) = Len(toHost') + 1 /\ Len(toHost') \in Nat
    BY <1>1, Taking
  <1>3. Len(toHost') <= NTx
    BY <1>1, <1>2
  <1>4. \A m \in Reply : m.to \in User /\ m.kind \in {"create", "bound", "answer", "destroy"}
    BY DEF Reply
  <1> QED BY <1>2, <1>3, <1>4

(* Who does not wait has nothing under way.                                *)
LEMMA Idle ==
  ASSUME IInv, NEW u \in User, hst[u] # "wait"
  PROVE  /\ \A x \in Members(ring) : ~Writes(u, x)
         /\ \A e \in Slots : slot[e] # 0 => mem[slot[e]].from # u
         /\ \A m \in Members(toHost) : m.kind = "answer" => m.to # u
         /\ \A th \in {"tty", "raw"} : pc[th] = "send" => tx_buff[th].from # u
         /\ u = "cs" => ~Copied
  <1> USE DEF IInv
  <1>1. \A x \in Members(ring) : ~Writes(u, x)
    BY DEF Contents, Writes
  <1>2. \A e \in Slots : slot[e] # 0 => mem[slot[e]].from # u
    BY DEF Contents
  <1>3. \A m \in Members(toHost) : m.kind = "answer" => m.to # u
    BY DEF Answers
  <1>4. \A th \in {"tty", "raw"} : pc[th] = "send" => tx_buff[th].from # u
    BY DEF Answering
  <1>5. u = "cs" => ~Copied
    BY DEF Sample
  <1> QED BY <1>1, <1>2, <1>3, <1>4, <1>5

(* Who hears the announcements of the services.                            *)
LEMMA Audiences ==
  /\ \A th \in Service : First(th) \in {"cs", "tty0", "raw0"}
  /\ \A e \in {"cs", "tty0", "raw0"} : Audience(e) \subseteq User \ Devices
  BY Endpoints DEF Service, Audience, User, Devices

(* Different services have different audiences.                            *)
LEMMA Apart ==
  /\ \A e, f \in {"cs", "tty0", "raw0"} : e # f => Audience(e) \cap Audience(f) = {}
  /\ \A th \in Service : "cs" \in Audience(First(th)) => th = "cs"
  BY Endpoints DEF Service, Audience

(* Messages to the host with the same fields are the same.                 *)
LEMMA SameReply ==
  ASSUME NEW x \in Reply, NEW y \in Reply, x.kind = y.kind, x.to = y.to, x.from = y.from
  PROVE  x = y
  BY DEF Reply

(* The endpoints with slots are different ones.                            *)
LEMMA Slotted ==
  ASSUME NEW th \in {"tty", "raw"}, NEW j \in 0 .. 1
  PROVE  /\ EptOf(th, j) \in Slots
         /\ \A t \in {"tty", "raw"} : \A l \in 0 .. 1 : EptOf(t, l) = EptOf(th, j) =>
              t = th /\ l = j
  <1>1. \A l \in 0 .. 1 : l = 0 \/ l = 1
    OBVIOUS
  <1> QED BY <1>1, Endpoints DEF Slots
-----------------------------------------------------------------------------
(* Nothing that matters changes.                                           *)
LEMMA QuietStep ==
  ASSUME IInv, TypeOK', mpc' # mpc =>
         mpc' \notin {"init", "bound"} /\ (mpc' = "vdev" => mpc = "init"),
         UNCHANGED <<users, hst, rx_count, ring, mem, free, toHost, sem, pc, idx, ept, dest,
                     cs_msg, slot,
                     tx_buff, msg_cnt>>
  PROVE  IInv'
  <1> USE ServicesAssumption DEF IInv
  <1>1. UNCHANGED <<users, hst, rx_count, ring, mem, free, toHost, sem, pc, idx, ept, dest,
                    cs_msg, slot, tx_buff, msg_cnt>>
    OBVIOUS
  <1>2. /\ \A x \in Members(ring) : x \in 1 .. NBuf
        /\ \A f \in Slots : slot[f] # 0 => slot[f] \in 1 .. NBuf
        /\ \A n \in Members(toHost) : n \in Reply /\ n.to \in User
    BY Numbered
  <1>3. TypeOK'
    OBVIOUS
  <1>4. Places'
    BY <1>1, <1>2 DEF Places
  <1>5. Contents'
    BY <1>1, <1>2 DEF Contents
  <1>6. Alone'
    BY <1>1, <1>2 DEF Alone
  <1>7. Answering'
    BY <1>1, <1>2 DEF Answering, Writes
  <1>8. Answers'
    BY <1>1, <1>2 DEF Answers, Writes
  <1>9. Sample'
    BY <1>1, <1>2 DEF Sample, Copied, Writes
  <1>10. Counts'
    BY <1>1, <1>2 DEF Counts, Writes
  <1>11. Farewell'
    BY <1>1, <1>2 DEF Farewell
  <1>12. Greetings'
    BY <1>1, <1>2 DEF Greetings
  <1>13. Known'
    BY <1>1, <1>2 DEF Known
  <1>14. Bindings'
    BY <1>1, <1>2 DEF Bindings
  <1>15. Order'
    BY <1>1, <1>2 DEF Order
  <1>16. Kept'
    BY <1>1, <1>2 DEF Kept, Shared
  <1> QED BY <1>3, <1>4, <1>5, <1>6, <1>7, <1>8, <1>9, <1>10, <1>11, <1>12, <1>13,
      <1>14, <1>15, <1>16 DEF IInv

(* A user sends.                                                           *)
LEMMA SendStep ==
  ASSUME IInv, NEW u \in User, HSend(u)
  PROVE  IInv'
  <1> USE ServicesAssumption DEF IInv
  <1>1. UNCHANGED <<users, faulty, driver_ok, rx_count, greeted, toHost, cpu, created, ipm,
                    rpdev, data_sem, sem, mpc, pc, idx, ept, dest, cs_msg, slot, tx_buff,
                    msg_cnt>>
    BY DEF HSend, HPut, setting, hostVars, slotVars, threadVars, HostFrame, MngFrame,
       ServFrame
  <1>2. /\ \A x \in Members(ring) : x \in 1 .. NBuf
        /\ \A f \in Slots : slot[f] # 0 => slot[f] \in 1 .. NBuf
        /\ \A n \in Members(toHost) : n \in Reply /\ n.to \in User
    BY Numbered
  <1>3. Message("data", Target(u), u) \in Mail
    BY Targets DEF Message, Mail, Devices, User
  <1>4. PICK b \in free :
          /\ mem' \in [1 .. NBuf -> Mail] /\ mem'[b] = Message("data", Target(u), u)
          /\ \A x \in 1 .. NBuf : x # b => mem'[x] = mem[x]
          /\ b \in 1 .. NBuf /\ b \notin Members(ring)
          /\ \A e \in Slots : slot[e] # 0 => slot[e] # b
          /\ free' \subseteq 1 .. NBuf /\ \A x : x \in free' <=> x \in free /\ x # b
          /\ ring' \in Seq(1 .. NBuf) /\ OnceEach(ring')
          /\ \A x : x \in Members(ring') <=> x \in Members(ring) \/ x = b
          /\ \A x, y : After(ring', x, y) => x \in Members(ring) /\ (After(ring, x, y) \/ y = b)
          /\ ring # <<>> => /\ ring' # <<>> /\ Head(ring') = Head(ring) /\ Head(ring) # b
                           /\ Head(ring) \in 1 .. NBuf
    BY <1>3, Putting DEF HSend
  <1>5. mem'[b].kind = "data" /\ mem'[b].from = u /\ mem'[b].to = Target(u)
    BY <1>4 DEF Message
  <1>6. \A x \in Members(ring') : x = b \/ (x \in Members(ring) /\ mem'[x] = mem[x] /\ x # b)
    BY <1>2, <1>4
  <1>7. \A x, y : After(ring', x, y) =>
          x \in Members(ring) /\ x # b /\ (After(ring, x, y) \/ y = b)
    BY <1>4
  <1>8. \A e \in Slots : slot[e] # 0 => mem'[slot[e]] = mem[slot[e]]
    BY <1>2, <1>4
  <1>9. hst[u] = "idle" /\ hst'[u] = "wait"
    BY DEF HSend, TypeOK, HostTypeOK
  <1>10. \A v \in User : v # u => hst'[v] = hst[v]
    BY DEF HSend, TypeOK, HostTypeOK
  <1>11. ring # <<>> =>
           ring' # <<>> /\ Head(ring') = Head(ring) /\ mem'[Head(ring)] = mem[Head(ring)]
    BY <1>4
  <1>12. \A x \in Members(ring) : mem[x].kind = "create" => mem[x].from # u
    BY <1>9 DEF Contents
  <1>13. Devices \subseteq User /\ "cs" \in User
    BY DEF Devices, User
  <1>14. /\ \A x \in Members(ring) : ~Writes(u, x)
         /\ \A e \in Slots : slot[e] # 0 => mem[slot[e]].from # u
         /\ \A m \in Members(toHost) : m.kind = "answer" => m.to # u
         /\ \A th \in {"tty", "raw"} : pc[th] = "send" => tx_buff[th].from # u
         /\ u = "cs" => ~Copied
    BY <1>9, Idle
  <1>15. uses' \in 0 .. MaxUses /\ irq' = TRUE /\ hst' = [hst EXCEPT ![u] = "wait"]
    BY DEF HSend, HPut, TypeOK, HostTypeOK
  <1>16. TypeOK'
    <2>1. HostTypeOK'
      BY <1>1, <1>2, <1>3, <1>4, <1>5, <1>6, <1>7, <1>8, <1>9, <1>10, <1>11, <1>12,
         <1>13, <1>14, <1>15 DEF TypeOK, HostTypeOK
    <2>2. SharedTypeOK'
      BY <1>1, <1>2, <1>3, <1>4, <1>5, <1>6, <1>7, <1>8, <1>9, <1>10, <1>11, <1>12,
         <1>13, <1>14, <1>15 DEF TypeOK, SharedTypeOK
    <2>3. ThreadTypeOK'
      BY <1>1, <1>2, <1>3, <1>4, <1>5, <1>6, <1>7, <1>8, <1>9, <1>10, <1>11, <1>12,
         <1>13, <1>14, <1>15 DEF TypeOK, ThreadTypeOK
    <2>4. ServiceTypeOK'
      BY <1>1, <1>2, <1>3, <1>4, <1>5, <1>6, <1>7, <1>8, <1>9, <1>10, <1>11, <1>12,
         <1>13, <1>14, <1>15 DEF TypeOK, ServiceTypeOK
    <2> QED BY <2>1, <2>2, <2>3, <2>4 DEF TypeOK
  <1>17. Places'
    BY <1>1, <1>4 DEF Places
  <1>18. Contents'
    BY <1>1, <1>5, <1>6, <1>8, <1>9, <1>10, <1>13, <1>14, <1>15 DEF Contents, Writes
  <1>19. Alone'
    BY <1>1, <1>5, <1>6, <1>8, <1>14, <1>15 DEF Alone, Writes
  <1>20. Answering'
    BY <1>1, <1>5, <1>6, <1>9, <1>10, <1>14, <1>15 DEF Answering, Writes
  <1>21. Answers'
    BY <1>1, <1>5, <1>6, <1>8, <1>9, <1>10, <1>14, <1>15, <1>2 DEF Answers, Writes
  <1>22. Sample'
    BY <1>1, <1>5, <1>6, <1>9, <1>10, <1>14, <1>13, <1>15 DEF Sample, Copied, Writes
  <1>23. Counts'
    BY <1>1, <1>5, <1>6, <1>9, <1>10, <1>14, <1>13, <1>15 DEF Counts, Writes
  <1>24. Farewell'
    BY <1>1 DEF Farewell
  <1>25. Greetings'
    BY <1>1, <1>9, <1>10, <1>13, <1>15, Audiences DEF Greetings
  <1>26. Known'
    BY <1>1, <1>9, <1>10, <1>13, <1>15 DEF Known
  <1>27. Bindings'
    BY <1>1, <1>5, <1>6, <1>9, <1>10, <1>13, <1>15, <1>11 DEF Bindings
  <1>28. Order'
    <2>1. ASSUME NEW v \in Devices, hst'[v] \in {"idle", "wait"}, NEW x \in Members(ring'),
                 mem'[x].from = v
          PROVE  mem'[x].kind = "data"
      BY <2>1, <1>5, <1>6, <1>9, <1>10, <1>13, <1>15 DEF Order, Contents
    <2>2. ASSUME NEW m \in Members(toHost'), m.kind = "bound", NEW x \in Members(ring')
          PROVE  mem'[x].from # m.to
      BY <2>2, <1>1, <1>5, <1>6, <1>9, <1>15 DEF Order, Bindings
    <2>3. ASSUME NEW x \in Members(ring'), NEW y \in Members(ring'), After(ring', x, y),
                 mem'[x].kind = "create"
          PROVE  mem'[y].from # mem'[x].from
      BY <2>3, <1>5, <1>6, <1>12, <1>7 DEF Order
    <2> QED BY <2>1, <2>2, <2>3 DEF Order
  <1>29. Kept'
    BY <1>1, <1>4 DEF Kept, Shared
  <1> QED BY <1>16, <1>17, <1>18, <1>19, <1>20, <1>21, <1>22, <1>23, <1>24, <1>25,
      <1>26, <1>27, <1>28, <1>29 DEF IInv

(* A device is created.                                                    *)
LEMMA CreateStep ==
  ASSUME IInv, NEW u \in User, HCreate(u)
  PROVE  IInv'
  <1> USE ServicesAssumption DEF IInv
  <1>1. UNCHANGED <<users, faulty, driver_ok, rx_count, greeted, toHost, cpu, created, ipm,
                    rpdev, data_sem, sem, mpc, pc, idx, ept, dest, cs_msg, slot, tx_buff,
                    msg_cnt>>
    BY DEF HCreate, HPut, setting, hostVars, slotVars, threadVars, HostFrame, MngFrame,
       ServFrame
  <1>2. /\ \A x \in Members(ring) : x \in 1 .. NBuf
        /\ \A f \in Slots : slot[f] # 0 => slot[f] \in 1 .. NBuf
        /\ \A n \in Members(toHost) : n \in Reply /\ n.to \in User
    BY Numbered
  <1>3. Message("create", "ns", u) \in Mail
    BY DEF Message, Mail, Devices, User
  <1>4. PICK b \in free :
          /\ mem' \in [1 .. NBuf -> Mail] /\ mem'[b] = Message("create", "ns", u)
          /\ \A x \in 1 .. NBuf : x # b => mem'[x] = mem[x]
          /\ b \in 1 .. NBuf /\ b \notin Members(ring)
          /\ \A e \in Slots : slot[e] # 0 => slot[e] # b
          /\ free' \subseteq 1 .. NBuf /\ \A x : x \in free' <=> x \in free /\ x # b
          /\ ring' \in Seq(1 .. NBuf) /\ OnceEach(ring')
          /\ \A x : x \in Members(ring') <=> x \in Members(ring) \/ x = b
          /\ \A x, y : After(ring', x, y) => x \in Members(ring) /\ (After(ring, x, y) \/ y = b)
          /\ ring # <<>> => /\ ring' # <<>> /\ Head(ring') = Head(ring) /\ Head(ring) # b
                           /\ Head(ring) \in 1 .. NBuf
    BY <1>3, Putting DEF HCreate
  <1>5. mem'[b].kind = "create" /\ mem'[b].from = u /\ mem'[b].to = "ns"
    BY <1>4 DEF Message
  <1>6. \A x \in Members(ring') : x = b \/ (x \in Members(ring) /\ mem'[x] = mem[x] /\ x # b)
    BY <1>2, <1>4
  <1>7. \A x, y : After(ring', x, y) =>
          x \in Members(ring) /\ x # b /\ (After(ring, x, y) \/ y = b)
    BY <1>4
  <1>8. \A e \in Slots : slot[e] # 0 => mem'[slot[e]] = mem[slot[e]]
    BY <1>2, <1>4
  <1>9. hst[u] = "off" /\ hst'[u] = "announced"
    BY DEF HCreate, TypeOK, HostTypeOK
  <1>10. \A v \in User : v # u => hst'[v] = hst[v]
    BY DEF HCreate, TypeOK, HostTypeOK
  <1>11. ring # <<>> =>
           ring' # <<>> /\ Head(ring') = Head(ring) /\ mem'[Head(ring)] = mem[Head(ring)]
    BY <1>4
  <1>12. \A x \in Members(ring) : mem[x].kind = "create" => mem[x].from # u
    BY <1>9 DEF Contents
  <1>13. Devices \subseteq User /\ "cs" \in User
    BY DEF Devices, User
  <1>14. /\ \A x \in Members(ring) : ~Writes(u, x)
         /\ \A e \in Slots : slot[e] # 0 => mem[slot[e]].from # u
         /\ \A m \in Members(toHost) : m.kind = "answer" => m.to # u
         /\ \A th \in {"tty", "raw"} : pc[th] = "send" => tx_buff[th].from # u
         /\ u = "cs" => ~Copied
    BY <1>9, Idle
  <1>15. /\ uses' \in 0 .. MaxUses /\ irq' = TRUE /\ u \in Devices /\ u \in users
         /\ u # "cs" /\ hst' = [hst EXCEPT ![u] = "announced"]
    BY DEF HCreate, HPut, TypeOK, HostTypeOK, Devices
  <1>16. TypeOK'
    <2>1. HostTypeOK'
      BY <1>1, <1>2, <1>3, <1>4, <1>5, <1>6, <1>7, <1>8, <1>9, <1>10, <1>11, <1>12,
         <1>13, <1>14, <1>15 DEF TypeOK, HostTypeOK
    <2>2. SharedTypeOK'
      BY <1>1, <1>2, <1>3, <1>4, <1>5, <1>6, <1>7, <1>8, <1>9, <1>10, <1>11, <1>12,
         <1>13, <1>14, <1>15 DEF TypeOK, SharedTypeOK
    <2>3. ThreadTypeOK'
      BY <1>1, <1>2, <1>3, <1>4, <1>5, <1>6, <1>7, <1>8, <1>9, <1>10, <1>11, <1>12,
         <1>13, <1>14, <1>15 DEF TypeOK, ThreadTypeOK
    <2>4. ServiceTypeOK'
      BY <1>1, <1>2, <1>3, <1>4, <1>5, <1>6, <1>7, <1>8, <1>9, <1>10, <1>11, <1>12,
         <1>13, <1>14, <1>15 DEF TypeOK, ServiceTypeOK
    <2> QED BY <2>1, <2>2, <2>3, <2>4 DEF TypeOK
  <1>17. Places'
    BY <1>1, <1>4 DEF Places
  <1>18. Contents'
    BY <1>1, <1>5, <1>6, <1>8, <1>9, <1>10, <1>13, <1>14, <1>15 DEF Contents, Writes
  <1>19. Alone'
    BY <1>1, <1>5, <1>6, <1>8, <1>14, <1>15 DEF Alone, Writes
  <1>20. Answering'
    BY <1>1, <1>5, <1>6, <1>9, <1>10, <1>14, <1>15 DEF Answering, Writes
  <1>21. Answers'
    BY <1>1, <1>5, <1>6, <1>8, <1>9, <1>10, <1>14, <1>15, <1>2 DEF Answers, Writes
  <1>22. Sample'
    BY <1>1, <1>5, <1>6, <1>9, <1>10, <1>14, <1>13, <1>15 DEF Sample, Copied, Writes
  <1>23. Counts'
    BY <1>1, <1>5, <1>6, <1>9, <1>10, <1>14, <1>13, <1>15 DEF Counts, Writes
  <1>24. Farewell'
    BY <1>1 DEF Farewell
  <1>25. Greetings'
    BY <1>1, <1>9, <1>10, <1>13, <1>15, Audiences DEF Greetings
  <1>26. Known'
    BY <1>1, <1>9, <1>10, <1>13, <1>15 DEF Known
  <1>27. Bindings'
    BY <1>1, <1>5, <1>6, <1>9, <1>10, <1>13, <1>15, <1>11 DEF Bindings
  <1>28. Order'
    <2>1. ASSUME NEW v \in Devices, hst'[v] \in {"idle", "wait"}, NEW x \in Members(ring'),
                 mem'[x].from = v
          PROVE  mem'[x].kind = "data"
      BY <2>1, <1>5, <1>6, <1>9, <1>10, <1>13, <1>15 DEF Order, Contents
    <2>2. ASSUME NEW m \in Members(toHost'), m.kind = "bound", NEW x \in Members(ring')
          PROVE  mem'[x].from # m.to
      BY <2>2, <1>1, <1>5, <1>6, <1>9, <1>15 DEF Order, Bindings
    <2>3. ASSUME NEW x \in Members(ring'), NEW y \in Members(ring'), After(ring', x, y),
                 mem'[x].kind = "create"
          PROVE  mem'[y].from # mem'[x].from
      BY <2>3, <1>5, <1>6, <1>12, <1>7 DEF Order
    <2> QED BY <2>1, <2>2, <2>3 DEF Order
  <1>29. Kept'
    BY <1>1, <1>4 DEF Kept, Shared
  <1> QED BY <1>16, <1>17, <1>18, <1>19, <1>20, <1>21, <1>22, <1>23, <1>24, <1>25,
      <1>26, <1>27, <1>28, <1>29 DEF IInv

(* A device is released.                                                   *)
LEMMA ReleaseStep ==
  ASSUME IInv, NEW u \in User, HRelease(u)
  PROVE  IInv'
  <1> USE ServicesAssumption DEF IInv
  <1>1. UNCHANGED <<users, faulty, driver_ok, rx_count, greeted, uses, toHost, cpu, created, ipm,
                    rpdev, data_sem, sem, mpc, pc, idx, ept, dest, cs_msg, slot, tx_buff,
                    msg_cnt>>
    BY DEF HRelease, HPut, setting, hostVars, slotVars, threadVars, HostFrame, MngFrame,
       ServFrame
  <1>2. /\ \A x \in Members(ring) : x \in 1 .. NBuf
        /\ \A f \in Slots : slot[f] # 0 => slot[f] \in 1 .. NBuf
        /\ \A n \in Members(toHost) : n \in Reply /\ n.to \in User
    BY Numbered
  <1>3. Message("destroy", "ns", u) \in Mail
    BY DEF Message, Mail, Devices, User
  <1>4. PICK b \in free :
          /\ mem' \in [1 .. NBuf -> Mail] /\ mem'[b] = Message("destroy", "ns", u)
          /\ \A x \in 1 .. NBuf : x # b => mem'[x] = mem[x]
          /\ b \in 1 .. NBuf /\ b \notin Members(ring)
          /\ \A e \in Slots : slot[e] # 0 => slot[e] # b
          /\ free' \subseteq 1 .. NBuf /\ \A x : x \in free' <=> x \in free /\ x # b
          /\ ring' \in Seq(1 .. NBuf) /\ OnceEach(ring')
          /\ \A x : x \in Members(ring') <=> x \in Members(ring) \/ x = b
          /\ \A x, y : After(ring', x, y) => x \in Members(ring) /\ (After(ring, x, y) \/ y = b)
          /\ ring # <<>> => /\ ring' # <<>> /\ Head(ring') = Head(ring) /\ Head(ring) # b
                           /\ Head(ring) \in 1 .. NBuf
    BY <1>3, Putting DEF HRelease
  <1>5. mem'[b].kind = "destroy" /\ mem'[b].from = u /\ mem'[b].to = "ns"
    BY <1>4 DEF Message
  <1>6. \A x \in Members(ring') : x = b \/ (x \in Members(ring) /\ mem'[x] = mem[x] /\ x # b)
    BY <1>2, <1>4
  <1>7. \A x, y : After(ring', x, y) =>
          x \in Members(ring) /\ x # b /\ (After(ring, x, y) \/ y = b)
    BY <1>4
  <1>8. \A e \in Slots : slot[e] # 0 => mem'[slot[e]] = mem[slot[e]]
    BY <1>2, <1>4
  <1>9. hst[u] \in {"idle", "announced"} /\ hst'[u] = "off"
    BY DEF HRelease, TypeOK, HostTypeOK
  <1>10. \A v \in User : v # u => hst'[v] = hst[v]
    BY DEF HRelease, TypeOK, HostTypeOK
  <1>11. ring # <<>> =>
           ring' # <<>> /\ Head(ring') = Head(ring) /\ mem'[Head(ring)] = mem[Head(ring)]
    BY <1>4
  <1>12. \A x \in Members(ring) : mem[x].kind = "create" => mem[x].from # u
    BY <1>9 DEF Contents, HRelease, Members
  <1>13. Devices \subseteq User /\ "cs" \in User
    BY DEF Devices, User
  <1>14. /\ \A x \in Members(ring) : ~Writes(u, x)
         /\ \A e \in Slots : slot[e] # 0 => mem[slot[e]].from # u
         /\ \A m \in Members(toHost) : m.kind = "answer" => m.to # u
         /\ \A th \in {"tty", "raw"} : pc[th] = "send" => tx_buff[th].from # u
         /\ u = "cs" => ~Copied
    BY <1>9, Idle
  <1>15. irq' = TRUE /\ u \in Devices /\ u # "cs" /\ hst' = [hst EXCEPT ![u] = "off"]
    BY DEF HRelease, HPut, Devices
  <1>16. hst[u] = "announced" => \A x \in Members(ring) : mem[x].from # u
    BY DEF HRelease, Members
  <1>17. hst[u] = "announced" => \A m \in Members(toHost) : m.to # u
    BY DEF HRelease, Members
  <1>18. TypeOK'
    <2>1. HostTypeOK'
      BY <1>1, <1>2, <1>3, <1>4, <1>5, <1>6, <1>7, <1>8, <1>9, <1>10, <1>11, <1>12,
         <1>13, <1>14, <1>15, <1>16, <1>17 DEF TypeOK, HostTypeOK
    <2>2. SharedTypeOK'
      BY <1>1, <1>2, <1>3, <1>4, <1>5, <1>6, <1>7, <1>8, <1>9, <1>10, <1>11, <1>12,
         <1>13, <1>14, <1>15, <1>16, <1>17 DEF TypeOK, SharedTypeOK
    <2>3. ThreadTypeOK'
      BY <1>1, <1>2, <1>3, <1>4, <1>5, <1>6, <1>7, <1>8, <1>9, <1>10, <1>11, <1>12,
         <1>13, <1>14, <1>15, <1>16, <1>17 DEF TypeOK, ThreadTypeOK
    <2>4. ServiceTypeOK'
      BY <1>1, <1>2, <1>3, <1>4, <1>5, <1>6, <1>7, <1>8, <1>9, <1>10, <1>11, <1>12,
         <1>13, <1>14, <1>15, <1>16, <1>17 DEF TypeOK, ServiceTypeOK
    <2> QED BY <2>1, <2>2, <2>3, <2>4 DEF TypeOK
  <1>19. Places'
    BY <1>1, <1>4 DEF Places
  <1>20. Contents'
    BY <1>1, <1>5, <1>6, <1>8, <1>9, <1>10, <1>13, <1>14, <1>15, <1>16, <1>17 DEF
       Contents, Writes, Order
  <1>21. Alone'
    BY <1>1, <1>5, <1>6, <1>8, <1>14, <1>15 DEF Alone, Writes
  <1>22. Answering'
    BY <1>1, <1>5, <1>6, <1>9, <1>10, <1>14, <1>15 DEF Answering, Writes
  <1>23. Answers'
    BY <1>1, <1>5, <1>6, <1>8, <1>9, <1>10, <1>14, <1>15, <1>2 DEF Answers, Writes
  <1>24. Sample'
    BY <1>1, <1>5, <1>6, <1>9, <1>10, <1>14, <1>13, <1>15 DEF Sample, Copied, Writes
  <1>25. Counts'
    BY <1>1, <1>5, <1>6, <1>9, <1>10, <1>14, <1>13, <1>15 DEF Counts, Writes
  <1>26. Farewell'
    BY <1>1 DEF Farewell
  <1>27. Greetings'
    BY <1>1, <1>9, <1>10, <1>13, <1>15, Audiences DEF Greetings
  <1>28. Known'
    BY <1>1, <1>9, <1>10, <1>13, <1>15 DEF Known
  <1>29. Bindings'
    BY <1>1, <1>5, <1>6, <1>9, <1>10, <1>13, <1>15, <1>16, <1>17, <1>11 DEF Bindings
  <1>30. Order'
    <2>1. ASSUME NEW v \in Devices, hst'[v] \in {"idle", "wait"}, NEW x \in Members(ring'),
                 mem'[x].from = v
          PROVE  mem'[x].kind = "data"
      BY <2>1, <1>5, <1>6, <1>9, <1>10, <1>13, <1>15 DEF Order, Contents
    <2>2. ASSUME NEW m \in Members(toHost'), m.kind = "bound", NEW x \in Members(ring')
          PROVE  mem'[x].from # m.to
      BY <2>2, <1>1, <1>5, <1>6, <1>9, <1>15, <1>17 DEF Order, Bindings
    <2>3. ASSUME NEW x \in Members(ring'), NEW y \in Members(ring'), After(ring', x, y),
                 mem'[x].kind = "create"
          PROVE  mem'[y].from # mem'[x].from
      BY <2>3, <1>5, <1>6, <1>12, <1>7 DEF Order
    <2> QED BY <2>1, <2>2, <2>3 DEF Order
  <1>31. Kept'
    BY <1>1, <1>4 DEF Kept, Shared
  <1> QED BY <1>18, <1>19, <1>20, <1>21, <1>22, <1>23, <1>24, <1>25, <1>26, <1>27,
      <1>28, <1>29, <1>30, <1>31 DEF IInv

(* The host gets an answer.                                                *)
LEMMA AnswerArrives ==
  ASSUME IInv, NEW m, m = Head(toHost), HReceive, m.kind = "answer"
  PROVE  IInv'
  <1> USE ServicesAssumption DEF IInv
  <1>1. UNCHANGED <<users, faulty, driver_ok, uses, ring, mem, free, irq, cpu, created, ipm,
                    rpdev, data_sem, sem, mpc, pc, idx, ept, dest, cs_msg, slot, tx_buff,
                    msg_cnt>>
    BY DEF HReceive, setting, hostVars, slotVars, threadVars, HostFrame, MngFrame,
       ServFrame
  <1>2. /\ \A x \in Members(ring) : x \in 1 .. NBuf
        /\ \A f \in Slots : slot[f] # 0 => slot[f] \in 1 .. NBuf
        /\ \A n \in Members(toHost) : n \in Reply /\ n.to \in User
    BY Numbered
  <1>3. /\ m \in Reply /\ m \in Members(toHost) /\ m.to \in User
        /\ toHost' \in Seq(Reply) /\ Len(toHost') <= NTx /\ OnceEach(toHost')
        /\ \A x \in Members(toHost') : x \in Members(toHost) /\ x # m
        /\ \A x, y : After(toHost', x, y) => After(toHost, x, y)
        /\ \A y \in Members(toHost') : After(toHost, m, y)
    BY Getting DEF HReceive
  <1>4. Devices \subseteq User /\ "cs" \in User
    BY DEF Devices, User
  <1>5. greeted' \in BOOLEAN
    BY DEF HReceive, TypeOK, HostTypeOK
  <1>6. hst[m.to] = "wait" /\ m.to \in users /\ m.from = m.to
    BY <1>3 DEF Answers, Known
  <1>7. /\ rx_count' = IF m.to = "cs" THEN rx_count + 1 ELSE rx_count
        /\ hst' = [v \in User |-> IF v # m.to THEN hst[v]
             ELSE IF m.to = "cs" /\ rx_count + 1 = MSGS THEN "done" ELSE "idle"]
    BY <1>6 DEF HReceive
  <1>8. /\ \A v \in User : v # m.to => hst'[v] = hst[v]
        /\ hst'[m.to] = IF m.to = "cs" /\ rx_count + 1 = MSGS THEN "done" ELSE "idle"
    BY <1>3, <1>7
  <1>9. \A x \in Members(toHost') : x.kind = "answer" => x.to # m.to
    BY <1>3, <1>2, SameReply DEF Answers
  <1>10. /\ \A x \in Members(ring) : ~Writes(m.to, x)
         /\ \A e \in Slots : slot[e] # 0 => mem[slot[e]].from # m.to
         /\ \A x \in Members(toHost') : x.kind = "answer" => x.to # m.to
         /\ \A th \in {"tty", "raw"} : pc[th] = "send" => tx_buff[th].from # m.to
         /\ m.to = "cs" => ~Copied
    BY <1>3, <1>6, <1>9 DEF Answers, Sample
  <1>11. TypeOK'
    <2>1. HostTypeOK'
      BY <1>1, <1>2, <1>3, <1>6, <1>7, <1>5 DEF TypeOK, HostTypeOK, Counts
    <2>2. SharedTypeOK'
      BY <1>1, <1>2, <1>3, <1>6, <1>7, <1>5 DEF TypeOK, SharedTypeOK, Counts
    <2>3. ThreadTypeOK'
      BY <1>1, <1>2, <1>3, <1>6, <1>7, <1>5 DEF TypeOK, ThreadTypeOK, Counts
    <2>4. ServiceTypeOK'
      BY <1>1, <1>2, <1>3, <1>6, <1>7, <1>5 DEF TypeOK, ServiceTypeOK, Counts
    <2> QED BY <2>1, <2>2, <2>3, <2>4 DEF TypeOK
  <1>12. Places'
    BY <1>1 DEF Places
  <1>13. Contents'
    BY <1>1, <1>6, <1>8, <1>10, <1>4, <1>7 DEF Contents, Writes
  <1>14. Alone'
    BY <1>1 DEF Alone
  <1>15. Answering'
    BY <1>1, <1>6, <1>8, <1>10, <1>4, <1>7 DEF Answering, Writes
  <1>16. Answers'
    BY <1>1, <1>3, <1>8, <1>10, <1>2 DEF Answers, Writes
  <1>17. Sample'
    BY <1>1, <1>3, <1>6, <1>8, <1>10, <1>4, <1>7 DEF Sample, Copied, Writes
  <1>18. Counts'
    <2>1. rx_count \in Nat /\ msg_cnt \in Nat /\ MSGS \in Nat
      BY DEF TypeOK, HostTypeOK, ServiceTypeOK
    <2>2. CASE m.to # "cs"
      <3>1. hst'["cs"] = hst["cs"] /\ rx_count' = rx_count
        BY <2>2, <1>4, <1>8, <1>7
      <3> QED BY <3>1, <1>1, <1>3 DEF Counts, Writes
    <2>3. CASE m.to = "cs"
      <3>1. /\ rx_count' = msg_cnt /\ rx_count < MSGS /\ msg_cnt = rx_count + 1
            /\ hst'["cs"] = IF rx_count + 1 = MSGS THEN "done" ELSE "idle"
        BY <2>3, <1>3, <1>6, <1>8, <1>7 DEF Counts
      <3>2. /\ ~Copied /\ \A x \in Members(toHost') : x.kind = "answer" => x.to # "cs"
            /\ \A b \in Members(ring) : ~Writes("cs", b)
        BY <2>3, <1>10
      <3> QED BY <2>1, <3>1, <3>2, <1>1 DEF Counts, Copied, Writes
    <2> QED BY <2>2, <2>3
  <1>19. Farewell'
    BY <1>1, <1>3 DEF Farewell
  <1>20. Greetings'
    BY <1>1, <1>3, <1>6, <1>8, <1>4, <1>7, Audiences DEF Greetings
  <1>21. Known'
    BY <1>1, <1>6, <1>8, <1>4, <1>7 DEF Known
  <1>22. Bindings'
    BY <1>1, <1>3, <1>6, <1>8, <1>4, <1>7 DEF Bindings
  <1>23. Order'
    BY <1>1, <1>3, <1>6, <1>8, <1>4, <1>7 DEF Order
  <1>24. Kept'
    BY <1>1 DEF Kept, Shared
  <1> QED BY <1>11, <1>12, <1>13, <1>14, <1>15, <1>16, <1>17, <1>18, <1>19, <1>20,
      <1>21, <1>22, <1>23, <1>24 DEF IInv

(* The host gets the announcement of a service.                            *)
LEMMA AnnouncementArrives ==
  ASSUME IInv, NEW m, m = Head(toHost), HReceive, m.kind = "create"
  PROVE  IInv'
  <1> USE ServicesAssumption DEF IInv
  <1>1. UNCHANGED <<users, faulty, driver_ok, uses, ring, mem, free, irq, cpu, created, ipm,
                    rpdev, data_sem, sem, mpc, pc, idx, ept, dest, cs_msg, slot, tx_buff,
                    msg_cnt>>
    BY DEF HReceive, setting, hostVars, slotVars, threadVars, HostFrame, MngFrame,
       ServFrame
  <1>2. /\ \A x \in Members(ring) : x \in 1 .. NBuf
        /\ \A f \in Slots : slot[f] # 0 => slot[f] \in 1 .. NBuf
        /\ \A n \in Members(toHost) : n \in Reply /\ n.to \in User
    BY Numbered
  <1>3. /\ m \in Reply /\ m \in Members(toHost) /\ m.to \in User
        /\ toHost' \in Seq(Reply) /\ Len(toHost') <= NTx /\ OnceEach(toHost')
        /\ \A x \in Members(toHost') : x \in Members(toHost) /\ x # m
        /\ \A x, y : After(toHost', x, y) => After(toHost, x, y)
        /\ \A y \in Members(toHost') : After(toHost, m, y)
    BY Getting DEF HReceive
  <1>4. Devices \subseteq User /\ "cs" \in User
    BY DEF Devices, User
  <1>5. greeted' \in BOOLEAN
    BY DEF HReceive, TypeOK, HostTypeOK
  <1>6. /\ m.from = m.to /\ m.to \in {"cs", "tty0", "raw0"}
        /\ Audience(m.to) \subseteq User \ Devices
        /\ \A u \in Audience(m.to) : hst[u] = "off"
    BY <1>3, Audiences DEF Greetings
  <1>7. /\ rx_count' = rx_count
        /\ hst' = [v \in User |-> IF v \notin users \cap Audience(m.to) THEN hst[v] ELSE "idle"]
    BY <1>6 DEF HReceive, Audience
  <1>8. \A v \in User :
          \/ hst'[v] = hst[v]
          \/ hst[v] = "off" /\ hst'[v] = "idle" /\ v \in users /\ v \in Audience(m.to)
    BY <1>6, <1>7
  <1>9. \A x \in Members(toHost') : x.kind = "create" => x.to # m.to
    BY <1>3, <1>6, <1>2, SameReply DEF Greetings
  <1>10. TypeOK'
    <2>1. HostTypeOK'
      BY <1>1, <1>2, <1>3, <1>6, <1>8, <1>5, <1>7 DEF TypeOK, HostTypeOK
    <2>2. SharedTypeOK'
      BY <1>1, <1>2, <1>3, <1>6, <1>8, <1>5, <1>7 DEF TypeOK, SharedTypeOK
    <2>3. ThreadTypeOK'
      BY <1>1, <1>2, <1>3, <1>6, <1>8, <1>5, <1>7 DEF TypeOK, ThreadTypeOK
    <2>4. ServiceTypeOK'
      BY <1>1, <1>2, <1>3, <1>6, <1>8, <1>5, <1>7 DEF TypeOK, ServiceTypeOK
    <2> QED BY <2>1, <2>2, <2>3, <2>4 DEF TypeOK
  <1>11. Places'
    BY <1>1 DEF Places
  <1>12. Contents'
    BY <1>1, <1>6, <1>8, <1>4 DEF Contents
  <1>13. Alone'
    BY <1>1 DEF Alone
  <1>14. Answering'
    BY <1>1, <1>6, <1>8, <1>4 DEF Answering, Writes
  <1>15. Answers'
    BY <1>1, <1>3, <1>6, <1>8, <1>4, <1>2 DEF Answers, Writes
  <1>16. Sample'
    BY <1>1, <1>3, <1>6, <1>8, <1>9, <1>4, <1>7 DEF Sample, Copied, Writes
  <1>17. Counts'
    <2>1. rx_count \in Nat /\ msg_cnt \in Nat /\ MSGS \in Nat \ {0}
      BY DEF TypeOK, HostTypeOK, ServiceTypeOK
    <2>2. hst'["cs"] = hst["cs"] \/ (hst["cs"] = "off" /\ hst'["cs"] = "idle")
      BY <1>4, <1>8
    <2> QED BY <2>1, <2>2, <1>1, <1>3, <1>7 DEF Counts, Writes
  <1>18. Farewell'
    BY <1>1, <1>3 DEF Farewell
  <1>19. Greetings'
    BY <1>1, <1>3, <1>6, <1>8, <1>9, <1>4, Audiences, Apart DEF Greetings
  <1>20. Known'
    BY <1>1, <1>6, <1>8, <1>4, <1>7 DEF Known
  <1>21. Bindings'
    BY <1>1, <1>3, <1>6, <1>8, <1>4, <1>7 DEF Bindings
  <1>22. Order'
    BY <1>1, <1>3, <1>6, <1>8, <1>4, <1>7 DEF Order
  <1>23. Kept'
    BY <1>1 DEF Kept, Shared
  <1> QED BY <1>10, <1>11, <1>12, <1>13, <1>14, <1>15, <1>16, <1>17, <1>18, <1>19,
      <1>20, <1>21, <1>22, <1>23 DEF IInv

(* The host learns that a device is bound.                                 *)
LEMMA BindingArrives ==
  ASSUME IInv, NEW m, m = Head(toHost), HReceive, m.kind = "bound"
  PROVE  IInv'
  <1> USE ServicesAssumption DEF IInv
  <1>1. UNCHANGED <<users, faulty, driver_ok, uses, ring, mem, free, irq, cpu, created, ipm,
                    rpdev, data_sem, sem, mpc, pc, idx, ept, dest, cs_msg, slot, tx_buff,
                    msg_cnt>>
    BY DEF HReceive, setting, hostVars, slotVars, threadVars, HostFrame, MngFrame,
       ServFrame
  <1>2. /\ \A x \in Members(ring) : x \in 1 .. NBuf
        /\ \A f \in Slots : slot[f] # 0 => slot[f] \in 1 .. NBuf
        /\ \A n \in Members(toHost) : n \in Reply /\ n.to \in User
    BY Numbered
  <1>3. /\ m \in Reply /\ m \in Members(toHost) /\ m.to \in User
        /\ toHost' \in Seq(Reply) /\ Len(toHost') <= NTx /\ OnceEach(toHost')
        /\ \A x \in Members(toHost') : x \in Members(toHost) /\ x # m
        /\ \A x, y : After(toHost', x, y) => After(toHost, x, y)
        /\ \A y \in Members(toHost') : After(toHost, m, y)
    BY Getting DEF HReceive
  <1>4. Devices \subseteq User /\ "cs" \in User
    BY DEF Devices, User
  <1>5. greeted' \in BOOLEAN
    BY DEF HReceive, TypeOK, HostTypeOK
  <1>6. /\ m.to \in Devices /\ m.to \in users /\ m.from = "tty1" /\ m.to # "cs"
        /\ hst[m.to] = "announced" /\ dest["tty1"] = m.to
    BY <1>3 DEF Bindings, Known, Devices
  <1>7. rx_count' = rx_count /\ hst' = [v \in User |-> IF v # m.to THEN hst[v] ELSE "idle"]
    BY <1>6 DEF HReceive
  <1>8. (\A v \in User : v # m.to => hst'[v] = hst[v]) /\ hst'[m.to] = "idle"
    BY <1>3, <1>7
  <1>9. \A b \in Members(ring) : mem[b].from # m.to
    BY <1>3 DEF Order
  <1>10. \A x \in Members(toHost') : x.kind = "bound" => x.to # m.to
    BY <1>3, <1>6, <1>2, SameReply DEF Bindings
  <1>11. TypeOK'
    <2>1. HostTypeOK'
      BY <1>1, <1>2, <1>3, <1>6, <1>8, <1>5, <1>7 DEF TypeOK, HostTypeOK
    <2>2. SharedTypeOK'
      BY <1>1, <1>2, <1>3, <1>6, <1>8, <1>5, <1>7 DEF TypeOK, SharedTypeOK
    <2>3. ThreadTypeOK'
      BY <1>1, <1>2, <1>3, <1>6, <1>8, <1>5, <1>7 DEF TypeOK, ThreadTypeOK
    <2>4. ServiceTypeOK'
      BY <1>1, <1>2, <1>3, <1>6, <1>8, <1>5, <1>7 DEF TypeOK, ServiceTypeOK
    <2> QED BY <2>1, <2>2, <2>3, <2>4 DEF TypeOK
  <1>12. Places'
    BY <1>1 DEF Places
  <1>13. Contents'
    BY <1>1, <1>6, <1>8, <1>9, <1>4 DEF Contents
  <1>14. Alone'
    BY <1>1 DEF Alone
  <1>15. Answering'
    BY <1>1, <1>6, <1>8, <1>4 DEF Answering, Writes
  <1>16. Answers'
    BY <1>1, <1>3, <1>6, <1>8, <1>4, <1>2 DEF Answers, Writes
  <1>17. Sample'
    BY <1>1, <1>3, <1>6, <1>8, <1>4 DEF Sample, Copied, Writes
  <1>18. Counts'
    BY <1>1, <1>3, <1>6, <1>8, <1>4, <1>7 DEF Counts, Writes
  <1>19. Farewell'
    BY <1>1, <1>3 DEF Farewell
  <1>20. Greetings'
    BY <1>1, <1>3, <1>6, <1>8, <1>4, <1>7, Audiences DEF Greetings
  <1>21. Known'
    BY <1>1, <1>6, <1>8, <1>4, <1>7 DEF Known
  <1>22. Bindings'
    BY <1>1, <1>3, <1>6, <1>8, <1>10, <1>4, <1>2 DEF Bindings
  <1>23. Order'
    BY <1>1, <1>3, <1>6, <1>8, <1>10, <1>9, <1>4 DEF Order
  <1>24. Kept'
    BY <1>1 DEF Kept, Shared
  <1> QED BY <1>11, <1>12, <1>13, <1>14, <1>15, <1>16, <1>17, <1>18, <1>19, <1>20,
      <1>21, <1>22, <1>23, <1>24 DEF IInv

(* The host learns that the client sample's channel has gone.              *)
LEMMA FarewellArrives ==
  ASSUME IInv, NEW m, m = Head(toHost), HReceive, m.kind = "destroy"
  PROVE  IInv'
  <1> USE ServicesAssumption DEF IInv
  <1>1. UNCHANGED <<users, faulty, driver_ok, uses, ring, mem, free, irq, cpu, created, ipm,
                    rpdev, data_sem, sem, mpc, pc, idx, ept, dest, cs_msg, slot, tx_buff,
                    msg_cnt>>
    BY DEF HReceive, setting, hostVars, slotVars, threadVars, HostFrame, MngFrame,
       ServFrame
  <1>2. /\ \A x \in Members(ring) : x \in 1 .. NBuf
        /\ \A f \in Slots : slot[f] # 0 => slot[f] \in 1 .. NBuf
        /\ \A n \in Members(toHost) : n \in Reply /\ n.to \in User
    BY Numbered
  <1>3. /\ m \in Reply /\ m \in Members(toHost) /\ m.to \in User
        /\ toHost' \in Seq(Reply) /\ Len(toHost') <= NTx /\ OnceEach(toHost')
        /\ \A x \in Members(toHost') : x \in Members(toHost) /\ x # m
        /\ \A x, y : After(toHost', x, y) => After(toHost, x, y)
        /\ \A y \in Members(toHost') : After(toHost, m, y)
    BY Getting DEF HReceive
  <1>4. Devices \subseteq User /\ "cs" \in User
    BY DEF Devices, User
  <1>5. greeted' \in BOOLEAN
    BY DEF HReceive, TypeOK, HostTypeOK
  <1>6. m.to = "cs" /\ pc["cs"] = "ended"
    BY <1>3 DEF Farewell
  <1>7. /\ rx_count' = rx_count
        /\ hst' = [v \in User |-> IF v = "cs" /\ v \in users THEN "gone" ELSE hst[v]]
    BY <1>6 DEF HReceive
  <1>8. (\A v \in User : v # "cs" => hst'[v] = hst[v]) /\ hst'["cs"] \in {"gone", hst["cs"]}
    BY <1>4, <1>7
  <1>9. rx_count \in Nat /\ msg_cnt = MSGS /\ MSGS \in Nat \ {0}
    BY <1>6 DEF Counts, TypeOK, HostTypeOK
  <1>10. hst["cs"] = "wait" => rx_count # msg_cnt
    BY <1>9 DEF Counts
  <1>11. hst["cs"] # "off"
    BY <1>9 DEF Counts
  <1>12. \A x \in Members(ring) : ~Writes("cs", x)
    BY <1>10 DEF Counts, Writes, Contents
  <1>13. \A x \in Members(toHost') : x.kind = "answer" => x.to # "cs"
    BY <1>3, <1>6 DEF Farewell
  <1>14. ~Copied
    BY <1>6, <1>10 DEF Counts, Copied, Sample
  <1>15. /\ \A e \in Slots : slot[e] # 0 => mem[slot[e]].from # "cs"
         /\ \A th \in {"tty", "raw"} : pc[th] = "send" => tx_buff[th].from # "cs"
    BY Targets, Endpoints DEF Contents, Answering, Slots, TypeOK, ThreadTypeOK, Service
  <1>16. TypeOK'
    <2>1. HostTypeOK'
      BY <1>1, <1>2, <1>3, <1>6, <1>8, <1>5, <1>7 DEF TypeOK, HostTypeOK
    <2>2. SharedTypeOK'
      BY <1>1, <1>2, <1>3, <1>6, <1>8, <1>5, <1>7 DEF TypeOK, SharedTypeOK
    <2>3. ThreadTypeOK'
      BY <1>1, <1>2, <1>3, <1>6, <1>8, <1>5, <1>7 DEF TypeOK, ThreadTypeOK
    <2>4. ServiceTypeOK'
      BY <1>1, <1>2, <1>3, <1>6, <1>8, <1>5, <1>7 DEF TypeOK, ServiceTypeOK
    <2> QED BY <2>1, <2>2, <2>3, <2>4 DEF TypeOK
  <1>17. Places'
    BY <1>1 DEF Places
  <1>18. Contents'
    BY <1>1, <1>8, <1>12, <1>15, <1>4 DEF Contents, Writes, Devices
  <1>19. Alone'
    BY <1>1 DEF Alone
  <1>20. Answering'
    BY <1>1, <1>8, <1>15, <1>4 DEF Answering, Writes
  <1>21. Answers'
    BY <1>1, <1>3, <1>8, <1>13, <1>4, <1>2 DEF Answers, Writes
  <1>22. Sample'
    BY <1>1, <1>3, <1>8, <1>14, <1>4, <1>12 DEF Sample, Copied, Writes
  <1>23. Counts'
    BY <1>1, <1>3, <1>8, <1>7, <1>12, <1>13, <1>14, <1>9, <1>4, <1>6 DEF Counts, Writes,
       Copied
  <1>24. Farewell'
    BY <1>1, <1>3 DEF Farewell
  <1>25. Greetings'
    BY <1>1, <1>3, <1>8, <1>11, <1>4, Audiences, Apart DEF Greetings
  <1>26. Known'
    BY <1>1, <1>7, <1>4 DEF Known
  <1>27. Bindings'
    BY <1>1, <1>3, <1>8, <1>4, <1>2 DEF Bindings, Devices
  <1>28. Order'
    BY <1>1, <1>3, <1>8, <1>4 DEF Order, Devices
  <1>29. Kept'
    BY <1>1 DEF Kept, Shared
  <1> QED BY <1>16, <1>17, <1>18, <1>19, <1>20, <1>21, <1>22, <1>23, <1>24, <1>25,
      <1>26, <1>27, <1>28, <1>29 DEF IInv

(* A message is taken from the ring, and its buffer freed.                 *)
LEMMA DropStep ==
  ASSUME IInv, NEW b, b = Head(ring), ring # <<>>, Returned(b), mpc # "bound",
         UNCHANGED <<setting, hostVars, toHost, irq, cpu, threadVars, data_sem, sem, mpc, pc,
                     idx, ept,
                     dest, slotVars, tx_buff, msg_cnt>>
  PROVE  IInv'
  <1> USE ServicesAssumption DEF IInv
  <1>1. UNCHANGED <<users, faulty, driver_ok, hst, rx_count, greeted, uses, toHost, irq, cpu,
                    created, ipm, rpdev, data_sem, sem, mpc, pc, idx, ept, dest, cs_msg, slot,
                    tx_buff, msg_cnt>>
    BY DEF setting, hostVars, slotVars, threadVars, HostFrame, MngFrame, ServFrame
  <1>2. /\ \A x \in Members(ring) : x \in 1 .. NBuf
        /\ \A f \in Slots : slot[f] # 0 => slot[f] \in 1 .. NBuf
        /\ \A n \in Members(toHost) : n \in Reply /\ n.to \in User
    BY Numbered
  <1>3. /\ b \in 1 .. NBuf /\ b # 0 /\ b \in Members(ring) /\ b \notin free
        /\ ring' \in Seq(1 .. NBuf) /\ OnceEach(ring')
        /\ \A x : x \in Members(ring') <=> x \in Members(ring) /\ x # b
        /\ \A x, y : After(ring', x, y) => After(ring, x, y)
        /\ \A y \in Members(ring') : After(ring, b, y)
        /\ \A e \in Slots : slot[e] # 0 => slot[e] # b
    BY Dispatching DEF Returned
  <1>4. /\ free' \subseteq 1 .. NBuf /\ \A x : x \in free' <=> x \in free \/ x = b
        /\ mem' \in [1 .. NBuf -> Mail] /\ \A x \in 1 .. NBuf : x # b => mem'[x] = mem[x]
    BY <1>3, Freeing DEF Returned
  <1>5. \A x \in Members(ring') : x \in Members(ring) /\ x # b /\ mem'[x] = mem[x]
    BY <1>2, <1>3, <1>4
  <1>6. \A e \in Slots : slot[e] # 0 => mem'[slot[e]] = mem[slot[e]]
    BY <1>2, <1>3, <1>4
  <1>7. mpc # "bound"
    OBVIOUS
  <1>8. TypeOK'
    <2>1. HostTypeOK'
      BY <1>1, <1>3, <1>4 DEF TypeOK, HostTypeOK
    <2>2. SharedTypeOK'
      BY <1>1, <1>3, <1>4 DEF TypeOK, SharedTypeOK
    <2>3. ThreadTypeOK'
      BY <1>1, <1>3, <1>4 DEF TypeOK, ThreadTypeOK
    <2>4. ServiceTypeOK'
      BY <1>1, <1>3, <1>4 DEF TypeOK, ServiceTypeOK
    <2> QED BY <2>1, <2>2, <2>3, <2>4 DEF TypeOK
  <1>9. Places'
    BY <1>1, <1>3, <1>4 DEF Places
  <1>10. Contents'
    BY <1>1, <1>5, <1>6 DEF Contents
  <1>11. Alone'
    BY <1>1, <1>5, <1>6 DEF Alone
  <1>12. Answering'
    BY <1>1, <1>5 DEF Answering, Writes
  <1>13. Answers'
    BY <1>1, <1>5, <1>6 DEF Answers, Writes
  <1>14. Sample'
    BY <1>1, <1>5 DEF Sample, Copied, Writes
  <1>15. Counts'
    BY <1>1, <1>5 DEF Counts, Writes
  <1>16. Farewell'
    BY <1>1 DEF Farewell
  <1>17. Greetings'
    BY <1>1 DEF Greetings
  <1>18. Known'
    BY <1>1 DEF Known
  <1>19. Bindings'
    BY <1>1, <1>7 DEF Bindings
  <1>20. Order'
    <2>1. ASSUME NEW v \in Devices, hst'[v] \in {"idle", "wait"}, NEW x \in Members(ring'),
                 mem'[x].from = v
          PROVE  mem'[x].kind = "data"
      BY <2>1, <1>5, <1>1 DEF Order, Contents
    <2>2. ASSUME NEW m \in Members(toHost'), m.kind = "bound", NEW x \in Members(ring')
          PROVE  mem'[x].from # m.to
      BY <2>2, <1>5, <1>1 DEF Order, Bindings
    <2>3. ASSUME NEW x \in Members(ring'), NEW y \in Members(ring'), After(ring', x, y),
                 mem'[x].kind = "create"
          PROVE  mem'[y].from # mem'[x].from
      BY <2>3, <1>5, <1>3 DEF Order
    <2> QED BY <2>1, <2>2, <2>3 DEF Order
  <1>21. Kept'
    BY <1>1, <1>3, <1>4 DEF Kept, Shared
  <1> QED BY <1>8, <1>9, <1>10, <1>11, <1>12, <1>13, <1>14, <1>15, <1>16, <1>17, <1>18,
      <1>19, <1>20, <1>21 DEF IInv

(* The client sample's message is copied, and its buffer freed.            *)
LEMMA SampleStep ==
  ASSUME IInv, NEW b, b = Head(ring), ring # <<>>, mem[b].kind = "data", mem[b].to = "cs",
         rpmsg_recv_cs_callback("cs", b), mpc = "rx",
         dest' = [dest EXCEPT !["cs"] = IF @ = None THEN mem[b].from ELSE @],
         UNCHANGED <<setting, hostVars, toHost, irq, cpu, threadVars, data_sem, mpc, pc, idx,
                     ept, tx_buff, msg_cnt>>
  PROVE  IInv'
  <1> USE ServicesAssumption DEF IInv
  <1>1. UNCHANGED <<users, faulty, driver_ok, hst, rx_count, greeted, uses, toHost, irq, cpu,
                    created, ipm, rpdev, data_sem, mpc, pc, idx, ept, slot, tx_buff, msg_cnt>>
    BY DEF rpmsg_recv_cs_callback, setting, hostVars, slotVars, threadVars, HostFrame,
       MngFrame, ServFrame
  <1>2. /\ \A x \in Members(ring) : x \in 1 .. NBuf
        /\ \A f \in Slots : slot[f] # 0 => slot[f] \in 1 .. NBuf
        /\ \A n \in Members(toHost) : n \in Reply /\ n.to \in User
    BY Numbered
  <1>3. /\ b \in 1 .. NBuf /\ b # 0 /\ b \in Members(ring) /\ b \notin free
        /\ ring' \in Seq(1 .. NBuf) /\ OnceEach(ring')
        /\ \A x : x \in Members(ring') <=> x \in Members(ring) /\ x # b
        /\ \A x, y : After(ring', x, y) => After(ring, x, y)
        /\ \A y \in Members(ring') : After(ring, b, y)
        /\ \A e \in Slots : slot[e] # 0 => slot[e] # b
    BY Dispatching DEF rpmsg_recv_cs_callback, Returned
  <1>4. /\ free' \subseteq 1 .. NBuf /\ \A x : x \in free' <=> x \in free \/ x = b
        /\ mem' \in [1 .. NBuf -> Mail] /\ \A x \in 1 .. NBuf : x # b => mem'[x] = mem[x]
    BY <1>3, Freeing DEF rpmsg_recv_cs_callback, Returned
  <1>5. \A x \in Members(ring') : x \in Members(ring) /\ x # b /\ mem'[x] = mem[x]
    BY <1>2, <1>3, <1>4
  <1>6. \A e \in Slots : slot[e] # 0 => mem'[slot[e]] = mem[slot[e]]
    BY <1>2, <1>3, <1>4
  <1>7. mem[b].from = "cs" /\ hst["cs"] = "wait" /\ Writes("cs", b) /\ msg_cnt = rx_count
    <2>1. mem[b].from \in User /\ Target(mem[b].from) = "cs" /\ hst[mem[b].from] = "wait"
      BY <1>3 DEF Contents
    <2>2. mem[b].from = "cs"
      BY <2>1, Targets
    <2>3. Writes("cs", b)
      BY <2>2 DEF Writes
    <2> QED BY <1>3, <2>1, <2>2, <2>3 DEF Counts
  <1>8. cs_msg' = mem[b] /\ cs_msg' \in Mail
    BY <1>3 DEF rpmsg_recv_cs_callback, TypeOK, SharedTypeOK
  <1>9. /\ sem' = [sem EXCEPT !["cs"] = 1] /\ sem'["cs"] = 1 /\ sem' \in [Service -> 0 .. 1]
        /\ \A th \in Service : th # "cs" => sem'[th] = sem[th]
    BY DEF rpmsg_recv_cs_callback, Give, TypeOK, ThreadTypeOK, Service
  <1>10. /\ dest'["cs"] = "cs" /\ \A e \in Endpoint : e # "cs" => dest'[e] = dest[e]
         /\ dest' \in [Endpoint -> User \cup {None}]
    BY <1>7 DEF Sample, TypeOK, ServiceTypeOK, Endpoint, User
  <1>11. \A x \in Members(ring') : ~Writes("cs", x)'
    BY <1>7, <1>5, <1>3 DEF Alone, Writes
  <1>12. /\ \A m \in Members(toHost) : ~(m.kind = "answer" /\ m.to = "cs")
         /\ pc["cs"] \notin {"start", "send"}
    BY <1>7, <1>3, Audiences, Apart, Endpoints DEF Answers, Sample, Copied, Greetings,
       Audience, Service
  <1>13. mpc = "rx" /\ "tty0" \in Endpoint /\ "tty1" \in Endpoint
    BY DEF Endpoint, Slots
  <1>14. TypeOK'
    <2>1. HostTypeOK'
      BY <1>1, <1>3, <1>4, <1>8, <1>9, <1>10 DEF TypeOK, HostTypeOK
    <2>2. SharedTypeOK'
      BY <1>1, <1>3, <1>4, <1>8, <1>9, <1>10 DEF TypeOK, SharedTypeOK
    <2>3. ThreadTypeOK'
      BY <1>1, <1>3, <1>4, <1>8, <1>9, <1>10 DEF TypeOK, ThreadTypeOK
    <2>4. ServiceTypeOK'
      BY <1>1, <1>3, <1>4, <1>8, <1>9, <1>10 DEF TypeOK, ServiceTypeOK
    <2> QED BY <2>1, <2>2, <2>3, <2>4 DEF TypeOK
  <1>15. Places'
    BY <1>1, <1>3, <1>4 DEF Places
  <1>16. Contents'
    BY <1>1, <1>5, <1>6 DEF Contents
  <1>17. Alone'
    BY <1>1, <1>5, <1>6 DEF Alone
  <1>18. Answering'
    BY <1>1, <1>5 DEF Answering, Writes
  <1>19. Answers'
    BY <1>1, <1>5, <1>6 DEF Answers, Writes
  <1>20. Sample'
    BY <1>1, <1>5, <1>7, <1>8, <1>10, <1>11, <1>12 DEF Sample, Copied, Writes
  <1>21. Counts'
    BY <1>1, <1>5, <1>11, <1>7, <1>9, <1>12 DEF Counts, Writes
  <1>22. Farewell'
    BY <1>1 DEF Farewell
  <1>23. Greetings'
    BY <1>1, <1>13, <1>9 DEF Greetings
  <1>24. Known'
    BY <1>1 DEF Known
  <1>25. Bindings'
    BY <1>1, <1>13, <1>10 DEF Bindings
  <1>26. Order'
    <2>1. ASSUME NEW v \in Devices, hst'[v] \in {"idle", "wait"}, NEW x \in Members(ring'),
                 mem'[x].from = v
          PROVE  mem'[x].kind = "data"
      BY <2>1, <1>5, <1>1 DEF Order, Contents
    <2>2. ASSUME NEW m \in Members(toHost'), m.kind = "bound", NEW x \in Members(ring')
          PROVE  mem'[x].from # m.to
      BY <2>2, <1>5, <1>1 DEF Order, Bindings
    <2>3. ASSUME NEW x \in Members(ring'), NEW y \in Members(ring'), After(ring', x, y),
                 mem'[x].kind = "create"
          PROVE  mem'[y].from # mem'[x].from
      BY <2>3, <1>5, <1>3 DEF Order
    <2> QED BY <2>1, <2>2, <2>3 DEF Order
  <1>27. Kept'
    BY <1>1, <1>3, <1>4 DEF Kept, Shared
  <1> QED BY <1>14, <1>15, <1>16, <1>17, <1>18, <1>19, <1>20, <1>21, <1>22, <1>23,
      <1>24, <1>25, <1>26, <1>27 DEF IInv

(* A message is put in the slot of its endpoint.                           *)
LEMMA SlotStep ==
  ASSUME IInv, NEW b, b = Head(ring), ring # <<>>, NEW e \in Slots, mem[b].kind = "data",
         mem[b].to = e, e \in ept,
         Held(b), slot' = [slot EXCEPT ![e] = b], NEW th \in {"tty", "raw"}, Give(th), mpc = "rx",
         dest' = [dest EXCEPT ![e] = IF @ = None THEN mem[b].from ELSE @],
         UNCHANGED <<setting, hostVars, toHost, irq, cpu, threadVars, data_sem, mpc, pc, idx,
                     ept, cs_msg, tx_buff,
                     msg_cnt>>
  PROVE  IInv'
  <1> USE ServicesAssumption DEF IInv
  <1>1. UNCHANGED <<users, faulty, driver_ok, hst, rx_count, greeted, uses, toHost, irq, cpu,
                    created, ipm, rpdev, data_sem, mpc, pc, idx, ept, cs_msg, tx_buff, msg_cnt>>
    BY DEF setting, hostVars, slotVars, threadVars, HostFrame, MngFrame, ServFrame
  <1>2. /\ \A x \in Members(ring) : x \in 1 .. NBuf
        /\ \A f \in Slots : slot[f] # 0 => slot[f] \in 1 .. NBuf
        /\ \A n \in Members(toHost) : n \in Reply /\ n.to \in User
    BY Numbered
  <1>3. /\ b \in 1 .. NBuf /\ b # 0 /\ b \in Members(ring) /\ b \notin free
        /\ ring' \in Seq(1 .. NBuf) /\ OnceEach(ring')
        /\ \A x : x \in Members(ring') <=> x \in Members(ring) /\ x # b
        /\ \A x, y : After(ring', x, y) => After(ring, x, y)
        /\ \A y \in Members(ring') : After(ring, b, y)
        /\ \A f \in Slots : slot[f] # 0 => slot[f] # b
    BY Dispatching DEF Held
  <1>4. UNCHANGED <<free, mem>>
    BY DEF Held
  <1>5. \A x \in Members(ring') : x \in Members(ring) /\ x # b
    BY <1>3
  <1>6. mem[b].from \in User /\ hst[mem[b].from] = "wait" /\ Target(mem[b].from) = e
    BY <1>3 DEF Contents
  <1>7. slot'[e] = b /\ \A f \in Slots : f # e => slot'[f] = slot[f]
    BY DEF TypeOK, ServiceTypeOK
  <1>8. /\ sem' = [sem EXCEPT ![th] = 1] /\ sem'["cs"] = sem["cs"]
        /\ sem' \in [Service -> 0 .. 1]
    BY DEF Give, TypeOK, ThreadTypeOK, Service
  <1>9. /\ dest'["cs"] = dest["cs"] /\ \A f \in Endpoint : f # e => dest'[f] = dest[f]
        /\ dest' \in [Endpoint -> User \cup {None}] /\ dest'["tty1"] = dest["tty1"]
        /\ e = "tty0" => dest'["tty0"] = "tty0"
    BY <1>6, Targets DEF Bindings, TypeOK, ServiceTypeOK, Endpoint, Slots, User
  <1>10. \A x \in Members(ring) : mem[x].kind = "data" /\ x # b => mem[x].from # mem[b].from
    BY <1>3 DEF Alone
  <1>11. \A m \in Members(toHost) : m.kind = "answer" => m.to # mem[b].from
    BY <1>3 DEF Answers, Writes
  <1>12. mpc = "rx" /\ "tty0" \in Endpoint /\ "tty1" \in Endpoint /\ "tty0" \in Slots
    BY DEF Endpoint, Slots
  <1>13. TypeOK'
    <2>1. HostTypeOK'
      BY <1>1, <1>3, <1>4, <1>8, <1>9, <1>7 DEF TypeOK, HostTypeOK
    <2>2. SharedTypeOK'
      BY <1>1, <1>3, <1>4, <1>8, <1>9, <1>7 DEF TypeOK, SharedTypeOK
    <2>3. ThreadTypeOK'
      BY <1>1, <1>3, <1>4, <1>8, <1>9, <1>7 DEF TypeOK, ThreadTypeOK
    <2>4. ServiceTypeOK'
      BY <1>1, <1>3, <1>4, <1>8, <1>9, <1>7 DEF TypeOK, ServiceTypeOK
    <2> QED BY <2>1, <2>2, <2>3, <2>4 DEF TypeOK
  <1>14. Places'
    BY <1>1, <1>3, <1>4, <1>7 DEF Places
  <1>15. Contents'
    BY <1>1, <1>4, <1>5, <1>7, <1>6 DEF Contents
  <1>16. Alone'
    BY <1>1, <1>4, <1>5, <1>7, <1>10 DEF Alone
  <1>17. Answering'
    BY <1>1, <1>4, <1>5, <1>7, <1>3 DEF Answering, Writes
  <1>18. Answers'
    BY <1>1, <1>4, <1>5, <1>7, <1>11 DEF Answers, Writes
  <1>19. Sample'
    BY <1>1, <1>4, <1>5, <1>9, <1>8 DEF Sample, Copied, Writes
  <1>20. Counts'
    BY <1>1, <1>4, <1>5, <1>8 DEF Counts, Writes
  <1>21. Farewell'
    BY <1>1 DEF Farewell
  <1>22. Greetings'
    BY <1>1, <1>12 DEF Greetings
  <1>23. Known'
    BY <1>1 DEF Known
  <1>24. Bindings'
    BY <1>1, <1>12, <1>9, <1>7 DEF Bindings
  <1>25. Order'
    <2>1. ASSUME NEW v \in Devices, hst'[v] \in {"idle", "wait"}, NEW x \in Members(ring'),
                 mem'[x].from = v
          PROVE  mem'[x].kind = "data"
      BY <2>1, <1>5, <1>1, <1>4 DEF Order, Contents
    <2>2. ASSUME NEW m \in Members(toHost'), m.kind = "bound", NEW x \in Members(ring')
          PROVE  mem'[x].from # m.to
      BY <2>2, <1>5, <1>1, <1>4 DEF Order, Bindings
    <2>3. ASSUME NEW x \in Members(ring'), NEW y \in Members(ring'), After(ring', x, y),
                 mem'[x].kind = "create"
          PROVE  mem'[y].from # mem'[x].from
      BY <2>3, <1>5, <1>3, <1>4 DEF Order
    <2> QED BY <2>1, <2>2, <2>3 DEF Order
  <1>26. Kept'
    <2>1. ASSUME ~Shared PROVE slot[e] = 0
      <3> SUFFICES ASSUME slot[e] # 0 PROVE FALSE
        OBVIOUS
      <3>1. PICK v \in User : v # mem[b].from /\ hst[v] = "wait" /\ Target(v) = e
        BY <1>3 DEF Contents, Alone
      <3>2. v \in users /\ mem[b].from \in users
        BY <1>6, <3>1 DEF Known
      <3>3. CASE v \in Devices
        BY <1>6, <3>1, <3>3, Targets DEF Bindings
      <3>4. CASE v \notin Devices
        BY <2>1, <1>6, <3>1, <3>2, <3>4, Targets DEF Shared, User, Devices
      <3> QED BY <3>3, <3>4
    <2> QED BY <2>1, <1>1, <1>4, <1>3, <1>7 DEF Kept, Shared
  <1> QED BY <1>13, <1>14, <1>15, <1>16, <1>17, <1>18, <1>19, <1>20, <1>21, <1>22,
      <1>23, <1>24, <1>25, <1>26 DEF IInv

(* A device gets the second endpoint, and the message about it is sent.    *)
LEMMA BindStep ==
  ASSUME IInv, NEW b, b = Head(ring), ring # <<>>, NEW u, u = mem[b].from,
         mem[b].kind = "create", "tty1" \notin ept,
         ept' = ept \cup {"tty1"}, dest' = [dest EXCEPT !["tty1"] = u],
         Send(Message("bound", u, "tty1")), Returned(b), mpc = "rx",
         UNCHANGED <<setting, hostVars, irq, cpu, threadVars, data_sem, sem, mpc, pc, idx,
                     slotVars, tx_buff, msg_cnt>>
  PROVE  IInv'
  <1> USE ServicesAssumption DEF IInv
  <1>1. UNCHANGED <<users, faulty, driver_ok, hst, rx_count, greeted, uses, irq, cpu, created,
                    ipm, rpdev, data_sem, sem, mpc, pc, idx, cs_msg, slot, tx_buff, msg_cnt>>
    BY DEF setting, hostVars, slotVars, threadVars, HostFrame, MngFrame, ServFrame
  <1>2. /\ \A x \in Members(ring) : x \in 1 .. NBuf
        /\ \A f \in Slots : slot[f] # 0 => slot[f] \in 1 .. NBuf
        /\ \A n \in Members(toHost) : n \in Reply /\ n.to \in User
    BY Numbered
  <1>3. /\ b \in 1 .. NBuf /\ b # 0 /\ b \in Members(ring) /\ b \notin free
        /\ ring' \in Seq(1 .. NBuf) /\ OnceEach(ring')
        /\ \A x : x \in Members(ring') <=> x \in Members(ring) /\ x # b
        /\ \A x, y : After(ring', x, y) => After(ring, x, y)
        /\ \A y \in Members(ring') : After(ring, b, y)
        /\ \A e \in Slots : slot[e] # 0 => slot[e] # b
    BY Dispatching DEF Returned
  <1>4. /\ free' \subseteq 1 .. NBuf /\ \A x : x \in free' <=> x \in free \/ x = b
        /\ mem' \in [1 .. NBuf -> Mail] /\ \A x \in 1 .. NBuf : x # b => mem'[x] = mem[x]
    BY <1>3, Freeing DEF Returned
  <1>5. \A x \in Members(ring') : x \in Members(ring) /\ x # b /\ mem'[x] = mem[x]
    BY <1>2, <1>3, <1>4
  <1>6. \A e \in Slots : slot[e] # 0 => mem'[slot[e]] = mem[slot[e]]
    BY <1>2, <1>3, <1>4
  <1>7. u \in Devices /\ hst[u] = "announced" /\ u \in User /\ u # "cs"
    BY <1>3 DEF Contents, Devices, User
  <1>8. /\ dest'["cs"] = dest["cs"] /\ dest'["tty0"] = dest["tty0"] /\ dest'["tty1"] = u
        /\ dest' \in [Endpoint -> User \cup {None}] /\ u # None
    BY <1>7 DEF TypeOK, ServiceTypeOK, Endpoint, Slots, Devices, None
  <1>9. ept' \subseteq Endpoint /\ "tty1" \in ept'
    BY DEF TypeOK, ServiceTypeOK, Endpoint, Slots
  <1>10. \A v \in Devices : hst[v] \notin {"idle", "wait"}
    BY DEF Bindings, Devices, None
  <1>11. \A m \in Members(toHost) : m.kind # "bound"
    BY <1>3 DEF Bindings, None, Devices
  <1>12. Message("bound", u, "tty1") \in Reply
    BY <1>7 DEF Message, Reply, Devices, User, Endpoint, Slots
  <1>13. Message("bound", u, "tty1") \notin Members(toHost)
    BY <1>11 DEF Message
  <1>14. /\ toHost' \in Seq(Reply) /\ Len(toHost') <= NTx /\ OnceEach(toHost')
         /\ \A x \in Members(toHost') : x \in Members(toHost) \/ x = Message("bound", u, "tty1")
         /\ \A x, y : After(toHost', x, y) =>
              /\ x \in Members(toHost)
              /\ After(toHost, x, y) \/ y = Message("bound", u, "tty1")
    BY <1>12, <1>13, Sending
  <1>15. /\ OnceEach(toHost')
         /\ \A x \in Members(toHost') :
              x \in Members(toHost) \/ (x.kind = "bound" /\ x.to = u /\ x.from = "tty1")
    BY <1>14 DEF Message
  <1>16. mpc = "rx"
    OBVIOUS
  <1>17. \A x \in Members(ring') : mem[x].from # u
    BY <1>3 DEF Order
  <1>18. TypeOK'
    <2>1. HostTypeOK'
      BY <1>1, <1>3, <1>4, <1>8, <1>9, <1>14 DEF TypeOK, HostTypeOK
    <2>2. SharedTypeOK'
      BY <1>1, <1>3, <1>4, <1>8, <1>9, <1>14 DEF TypeOK, SharedTypeOK
    <2>3. ThreadTypeOK'
      BY <1>1, <1>3, <1>4, <1>8, <1>9, <1>14 DEF TypeOK, ThreadTypeOK
    <2>4. ServiceTypeOK'
      BY <1>1, <1>3, <1>4, <1>8, <1>9, <1>14 DEF TypeOK, ServiceTypeOK
    <2> QED BY <2>1, <2>2, <2>3, <2>4 DEF TypeOK
  <1>19. Places'
    BY <1>1, <1>3, <1>4 DEF Places
  <1>20. Contents'
    BY <1>1, <1>5, <1>6 DEF Contents
  <1>21. Alone'
    BY <1>1, <1>5, <1>6 DEF Alone
  <1>22. Answering'
    BY <1>1, <1>5 DEF Answering, Writes
  <1>23. Answers'
    BY <1>1, <1>5, <1>6, <1>15 DEF Answers, Writes
  <1>24. Sample'
    BY <1>1, <1>5, <1>8, <1>15 DEF Sample, Copied, Writes
  <1>25. Counts'
    BY <1>1, <1>5, <1>15 DEF Counts, Writes
  <1>26. Farewell'
    BY <1>1, <1>14, <1>15, <1>7 DEF Farewell, Message
  <1>27. Greetings'
    BY <1>1, <1>15 DEF Greetings
  <1>28. Known'
    BY <1>1 DEF Known
  <1>29. Bindings'
    BY <1>1, <1>16, <1>8, <1>9, <1>10, <1>11, <1>15, <1>7 DEF Bindings
  <1>30. Order'
    <2>1. ASSUME NEW v \in Devices, hst'[v] \in {"idle", "wait"}, NEW x \in Members(ring'),
                 mem'[x].from = v
          PROVE  mem'[x].kind = "data"
      BY <2>1, <1>5, <1>1 DEF Order, Contents
    <2>2. ASSUME NEW m \in Members(toHost'), m.kind = "bound", NEW x \in Members(ring')
          PROVE  mem'[x].from # m.to
      BY <2>2, <1>5, <1>11, <1>15, <1>17 DEF Order, Bindings
    <2>3. ASSUME NEW x \in Members(ring'), NEW y \in Members(ring'), After(ring', x, y),
                 mem'[x].kind = "create"
          PROVE  mem'[y].from # mem'[x].from
      BY <2>3, <1>5, <1>3 DEF Order
    <2> QED BY <2>1, <2>2, <2>3 DEF Order
  <1>31. Kept'
    BY <1>1, <1>3, <1>4 DEF Kept, Shared
  <1> QED BY <1>18, <1>19, <1>20, <1>21, <1>22, <1>23, <1>24, <1>25, <1>26, <1>27,
      <1>28, <1>29, <1>30, <1>31 DEF IInv

(* A device gets the second endpoint, but there is no buffer for the message. *)
LEMMA BindSleepStep ==
  ASSUME IInv, NEW b, b = Head(ring), ring # <<>>, NEW u, u = mem[b].from,
         mem[b].kind = "create", "tty1" \notin ept,
         ept' = ept \cup {"tty1"}, dest' = [dest EXCEPT !["tty1"] = u],
         cpu' = "idle", mpc' = "bound", mpc = "rx",
         UNCHANGED <<setting, hostVars, ring, mem, free, toHost, irq, threadVars, data_sem, sem,
                     pc, idx, slotVars, tx_buff, msg_cnt>>
  PROVE  IInv'
  <1> USE ServicesAssumption DEF IInv
  <1>1. UNCHANGED <<users, faulty, driver_ok, hst, rx_count, greeted, uses, ring, mem, free,
                    toHost, irq, created, ipm, rpdev, data_sem, sem, pc, idx, cs_msg, slot,
                    tx_buff, msg_cnt>>
    BY DEF setting, hostVars, slotVars, threadVars, HostFrame, MngFrame, ServFrame
  <1>2. /\ \A x \in Members(ring) : x \in 1 .. NBuf
        /\ \A f \in Slots : slot[f] # 0 => slot[f] \in 1 .. NBuf
        /\ \A n \in Members(toHost) : n \in Reply /\ n.to \in User
    BY Numbered
  <1>3. b \in Members(ring)
    BY Taking DEF TypeOK, SharedTypeOK, Places
  <1>4. u \in Devices /\ hst[u] = "announced" /\ u \in User /\ u # "cs"
    BY <1>3 DEF Contents, Devices, User
  <1>5. /\ dest'["cs"] = dest["cs"] /\ dest'["tty0"] = dest["tty0"] /\ dest'["tty1"] = u
        /\ dest' \in [Endpoint -> User \cup {None}] /\ u # None
    BY <1>4 DEF TypeOK, ServiceTypeOK, Endpoint, Slots, Devices, None
  <1>6. ept' \subseteq Endpoint /\ "tty1" \in ept'
    BY DEF TypeOK, ServiceTypeOK, Endpoint, Slots
  <1>7. \A v \in Devices : hst[v] \notin {"idle", "wait"}
    BY DEF Bindings, Devices, None
  <1>8. \A m \in Members(toHost) : m.kind # "bound"
    BY <1>3 DEF Bindings, None, Devices
  <1>9. mpc' = "bound" /\ cpu' = "idle"
    OBVIOUS
  <1>10. TypeOK'
    <2>1. HostTypeOK'
      BY <1>1, <1>5, <1>6, <1>9 DEF TypeOK, HostTypeOK
    <2>2. SharedTypeOK'
      BY <1>1, <1>5, <1>6, <1>9 DEF TypeOK, SharedTypeOK
    <2>3. ThreadTypeOK'
      BY <1>1, <1>5, <1>6, <1>9 DEF TypeOK, ThreadTypeOK
    <2>4. ServiceTypeOK'
      BY <1>1, <1>5, <1>6, <1>9 DEF TypeOK, ServiceTypeOK
    <2> QED BY <2>1, <2>2, <2>3, <2>4 DEF TypeOK
  <1>11. Places'
    BY <1>1 DEF Places
  <1>12. Contents'
    BY <1>1 DEF Contents
  <1>13. Alone'
    BY <1>1 DEF Alone
  <1>14. Answering'
    BY <1>1 DEF Answering, Writes
  <1>15. Answers'
    BY <1>1 DEF Answers, Writes
  <1>16. Sample'
    BY <1>1, <1>5 DEF Sample, Copied, Writes
  <1>17. Counts'
    BY <1>1 DEF Counts, Writes
  <1>18. Farewell'
    BY <1>1 DEF Farewell
  <1>19. Greetings'
    BY <1>1, <1>9 DEF Greetings
  <1>20. Known'
    BY <1>1 DEF Known
  <1>21. Bindings'
    BY <1>1, <1>9, <1>5, <1>6, <1>7, <1>8, <1>4 DEF Bindings
  <1>22. Order'
    BY <1>1 DEF Order
  <1>23. Kept'
    BY <1>1 DEF Kept, Shared
  <1> QED BY <1>10, <1>11, <1>12, <1>13, <1>14, <1>15, <1>16, <1>17, <1>18, <1>19,
      <1>20, <1>21, <1>22, <1>23 DEF IInv

(* The message about the second endpoint is sent after all, or given up.   *)
LEMMA BoundSentStep ==
  ASSUME IInv, NEW b, b = Head(ring), BoundSent
  PROVE  IInv'
  <1> USE ServicesAssumption DEF IInv
  <1>1. UNCHANGED <<users, faulty, driver_ok, hst, rx_count, greeted, uses, irq, created, ipm,
                    rpdev, data_sem, sem, pc, idx, ept, dest, cs_msg, slot, tx_buff, msg_cnt>>
    BY DEF BoundSent, setting, hostVars, slotVars, threadVars, HostFrame, MngFrame,
       ServFrame
  <1>2. /\ \A x \in Members(ring) : x \in 1 .. NBuf
        /\ \A f \in Slots : slot[f] # 0 => slot[f] \in 1 .. NBuf
        /\ \A n \in Members(toHost) : n \in Reply /\ n.to \in User
    BY Numbered
  <1>3. /\ mpc = "bound" /\ mpc' = "rx" /\ cpu' = "mng" /\ ring # <<>>
        /\ mem[b].kind = "create" /\ dest["tty1"] = mem[b].from
    BY DEF BoundSent, Bindings
  <1>4. Returned(b)
    BY DEF BoundSent
  <1>5. /\ b \in 1 .. NBuf /\ b # 0 /\ b \in Members(ring) /\ b \notin free
        /\ ring' \in Seq(1 .. NBuf) /\ OnceEach(ring')
        /\ \A x : x \in Members(ring') <=> x \in Members(ring) /\ x # b
        /\ \A x, y : After(ring', x, y) => After(ring, x, y)
        /\ \A y \in Members(ring') : After(ring, b, y)
        /\ \A e \in Slots : slot[e] # 0 => slot[e] # b
    BY <1>3, <1>4, Dispatching DEF Returned
  <1>6. /\ free' \subseteq 1 .. NBuf /\ \A x : x \in free' <=> x \in free \/ x = b
        /\ mem' \in [1 .. NBuf -> Mail] /\ \A x \in 1 .. NBuf : x # b => mem'[x] = mem[x]
    BY <1>3, <1>4, <1>5, Freeing DEF Returned
  <1>7. \A x \in Members(ring') : x \in Members(ring) /\ x # b /\ mem'[x] = mem[x]
    BY <1>2, <1>5, <1>6
  <1>8. \A e \in Slots : slot[e] # 0 => mem'[slot[e]] = mem[slot[e]]
    BY <1>2, <1>5, <1>6
  <1>9. /\ mem[b].from \in Devices /\ hst[mem[b].from] = "announced"
        /\ mem[b].from \in User /\ mem[b].from # "cs"
    BY <1>5, <1>3 DEF Contents, Devices, User
  <1>10. \A m \in Members(toHost) : m.kind = "bound" => m.to # mem[b].from
    BY <1>5 DEF Order
  <1>11. Message("bound", mem[b].from, "tty1") \in Reply
    BY <1>9 DEF Message, Reply, Devices, User, Endpoint, Slots
  <1>12. Message("bound", mem[b].from, "tty1") \notin Members(toHost)
    BY <1>10 DEF Message
  <1>13. /\ toHost' \in Seq(Reply) /\ Len(toHost') <= NTx /\ OnceEach(toHost')
         /\ \A x \in Members(toHost') :
              x \in Members(toHost) \/ x = Message("bound", mem[b].from, "tty1")
         /\ \A x, y : After(toHost', x, y) =>
              /\ x \in Members(toHost)
              /\ After(toHost, x, y) \/ y = Message("bound", mem[b].from, "tty1")
    BY <1>11, <1>12, Sending DEF BoundSent
  <1>14. /\ OnceEach(toHost')
         /\ \A x \in Members(toHost') :
              x \in Members(toHost) \/ (x.kind = "bound" /\ x.to = mem[b].from /\ x.from = "tty1")
    BY <1>13 DEF Message
  <1>15. TypeOK'
    <2>1. HostTypeOK'
      BY <1>1, <1>5, <1>6, <1>13, <1>3 DEF TypeOK, HostTypeOK
    <2>2. SharedTypeOK'
      BY <1>1, <1>5, <1>6, <1>13, <1>3 DEF TypeOK, SharedTypeOK
    <2>3. ThreadTypeOK'
      BY <1>1, <1>5, <1>6, <1>13, <1>3 DEF TypeOK, ThreadTypeOK
    <2>4. ServiceTypeOK'
      BY <1>1, <1>5, <1>6, <1>13, <1>3 DEF TypeOK, ServiceTypeOK
    <2> QED BY <2>1, <2>2, <2>3, <2>4 DEF TypeOK
  <1>16. Places'
    BY <1>1, <1>5, <1>6 DEF Places
  <1>17. Contents'
    BY <1>1, <1>7, <1>8 DEF Contents
  <1>18. Alone'
    BY <1>1, <1>7, <1>8 DEF Alone
  <1>19. Answering'
    BY <1>1, <1>7 DEF Answering, Writes
  <1>20. Answers'
    BY <1>1, <1>7, <1>8, <1>14 DEF Answers, Writes
  <1>21. Sample'
    BY <1>1, <1>7, <1>14 DEF Sample, Copied, Writes
  <1>22. Counts'
    BY <1>1, <1>7, <1>14 DEF Counts, Writes
  <1>23. Farewell'
    BY <1>1, <1>13, <1>14, <1>9 DEF Farewell, Message
  <1>24. Greetings'
    BY <1>1, <1>14, <1>3 DEF Greetings
  <1>25. Known'
    BY <1>1 DEF Known
  <1>26. Bindings'
    BY <1>1, <1>3, <1>9, <1>14 DEF Bindings
  <1>27. Order'
    <2>1. \A x \in Members(ring') : mem[x].from # mem[b].from
      BY <1>5, <1>3 DEF Order
    <2>2. ASSUME NEW v \in Devices, hst'[v] \in {"idle", "wait"}, NEW x \in Members(ring'),
                 mem'[x].from = v
          PROVE  mem'[x].kind = "data"
      BY <2>2, <1>7, <1>1 DEF Order, Contents
    <2>3. ASSUME NEW m \in Members(toHost'), m.kind = "bound", NEW x \in Members(ring')
          PROVE  mem'[x].from # m.to
      BY <2>3, <1>7, <1>1, <1>14, <1>5, <2>1 DEF Order, Bindings
    <2>4. ASSUME NEW x \in Members(ring'), NEW y \in Members(ring'), After(ring', x, y),
                 mem'[x].kind = "create"
          PROVE  mem'[y].from # mem'[x].from
      BY <2>4, <1>7, <1>5 DEF Order
    <2> QED BY <2>2, <2>3, <2>4 DEF Order
  <1>28. Kept'
    BY <1>1, <1>5, <1>6 DEF Kept, Shared
  <1> QED BY <1>15, <1>16, <1>17, <1>18, <1>19, <1>20, <1>21, <1>22, <1>23, <1>24,
      <1>25, <1>26, <1>27, <1>28 DEF IInv

(* The endpoint of a released device goes.                                 *)
LEMMA UnbindStep ==
  ASSUME IInv, NEW b, b = Head(ring), ring # <<>>, NEW u, u = mem[b].from,
         mem[b].kind = "destroy", dest["tty1"] = u,
         ept' = ept \ {"tty1"}, dest' = [dest EXCEPT !["tty1"] = None], Returned(b), mpc = "rx",
         UNCHANGED <<setting, hostVars, toHost, irq, cpu, threadVars, data_sem, sem, mpc, pc,
                     idx, slotVars, tx_buff, msg_cnt>>
  PROVE  IInv'
  <1> USE ServicesAssumption DEF IInv
  <1>1. UNCHANGED <<users, faulty, driver_ok, hst, rx_count, greeted, uses, toHost, irq, cpu,
                    created, ipm, rpdev, data_sem, sem, mpc, pc, idx, cs_msg, slot, tx_buff,
                    msg_cnt>>
    BY DEF setting, hostVars, slotVars, threadVars, HostFrame, MngFrame, ServFrame
  <1>2. /\ \A x \in Members(ring) : x \in 1 .. NBuf
        /\ \A f \in Slots : slot[f] # 0 => slot[f] \in 1 .. NBuf
        /\ \A n \in Members(toHost) : n \in Reply /\ n.to \in User
    BY Numbered
  <1>3. /\ b \in 1 .. NBuf /\ b # 0 /\ b \in Members(ring) /\ b \notin free
        /\ ring' \in Seq(1 .. NBuf) /\ OnceEach(ring')
        /\ \A x : x \in Members(ring') <=> x \in Members(ring) /\ x # b
        /\ \A x, y : After(ring', x, y) => After(ring, x, y)
        /\ \A y \in Members(ring') : After(ring, b, y)
        /\ \A e \in Slots : slot[e] # 0 => slot[e] # b
    BY Dispatching DEF Returned
  <1>4. /\ free' \subseteq 1 .. NBuf /\ \A x : x \in free' <=> x \in free \/ x = b
        /\ mem' \in [1 .. NBuf -> Mail] /\ \A x \in 1 .. NBuf : x # b => mem'[x] = mem[x]
    BY <1>3, Freeing DEF Returned
  <1>5. \A x \in Members(ring') : x \in Members(ring) /\ x # b /\ mem'[x] = mem[x]
    BY <1>2, <1>3, <1>4
  <1>6. \A e \in Slots : slot[e] # 0 => mem'[slot[e]] = mem[slot[e]]
    BY <1>2, <1>3, <1>4
  <1>7. u \in Devices /\ hst[u] \in {"off", "announced"}
    BY <1>3 DEF Contents
  <1>8. /\ dest'["cs"] = dest["cs"] /\ dest'["tty0"] = dest["tty0"] /\ dest'["tty1"] = None
        /\ dest' \in [Endpoint -> User \cup {None}]
    BY DEF TypeOK, ServiceTypeOK, Endpoint, Slots
  <1>9. ept' \subseteq Endpoint /\ "tty1" \notin ept'
    BY DEF TypeOK, ServiceTypeOK
  <1>10. \A m \in Members(toHost) : m.kind # "bound"
    BY <1>3 DEF Bindings, Order
  <1>11. \A v \in Devices : hst[v] \notin {"idle", "wait"}
    BY <1>7 DEF Bindings
  <1>12. mpc = "rx"
    OBVIOUS
  <1>13. TypeOK'
    <2>1. HostTypeOK'
      BY <1>1, <1>3, <1>4, <1>8, <1>9 DEF TypeOK, HostTypeOK
    <2>2. SharedTypeOK'
      BY <1>1, <1>3, <1>4, <1>8, <1>9 DEF TypeOK, SharedTypeOK
    <2>3. ThreadTypeOK'
      BY <1>1, <1>3, <1>4, <1>8, <1>9 DEF TypeOK, ThreadTypeOK
    <2>4. ServiceTypeOK'
      BY <1>1, <1>3, <1>4, <1>8, <1>9 DEF TypeOK, ServiceTypeOK
    <2> QED BY <2>1, <2>2, <2>3, <2>4 DEF TypeOK
  <1>14. Places'
    BY <1>1, <1>3, <1>4 DEF Places
  <1>15. Contents'
    BY <1>1, <1>5, <1>6 DEF Contents
  <1>16. Alone'
    BY <1>1, <1>5, <1>6 DEF Alone
  <1>17. Answering'
    BY <1>1, <1>5 DEF Answering, Writes
  <1>18. Answers'
    BY <1>1, <1>5, <1>6 DEF Answers, Writes
  <1>19. Sample'
    BY <1>1, <1>5, <1>8 DEF Sample, Copied, Writes
  <1>20. Counts'
    BY <1>1, <1>5 DEF Counts, Writes
  <1>21. Farewell'
    BY <1>1 DEF Farewell
  <1>22. Greetings'
    BY <1>1 DEF Greetings
  <1>23. Known'
    BY <1>1 DEF Known
  <1>24. Bindings'
    BY <1>1, <1>12, <1>8, <1>9, <1>11, <1>10 DEF Bindings
  <1>25. Order'
    <2>1. ASSUME NEW v \in Devices, hst'[v] \in {"idle", "wait"}, NEW x \in Members(ring'),
                 mem'[x].from = v
          PROVE  mem'[x].kind = "data"
      BY <2>1, <1>5, <1>1 DEF Order, Contents
    <2>2. ASSUME NEW m \in Members(toHost'), m.kind = "bound", NEW x \in Members(ring')
          PROVE  mem'[x].from # m.to
      BY <2>2, <1>5, <1>1 DEF Order, Bindings
    <2>3. ASSUME NEW x \in Members(ring'), NEW y \in Members(ring'), After(ring', x, y),
                 mem'[x].kind = "create"
          PROVE  mem'[y].from # mem'[x].from
      BY <2>3, <1>5, <1>3 DEF Order
    <2> QED BY <2>1, <2>2, <2>3 DEF Order
  <1>26. Kept'
    BY <1>1, <1>3, <1>4 DEF Kept, Shared
  <1> QED BY <1>13, <1>14, <1>15, <1>16, <1>17, <1>18, <1>19, <1>20, <1>21, <1>22,
      <1>23, <1>24, <1>25, <1>26 DEF IInv

(* The device is there, and the services are started.                      *)
LEMMA VdevStep ==
  ASSUME IInv, mpc = "vdev", rpdev' = TRUE, mpc' = "loop", sem' = [th \in Service |-> 1],
         UNCHANGED <<setting, hostVars, ring, mem, free, toHost, irq, cpu, created, ipm,
                     data_sem, pc, idx, ept, dest, slotVars, tx_buff, msg_cnt>>
  PROVE  IInv'
  <1> USE ServicesAssumption DEF IInv
  <1>1. UNCHANGED <<users, faulty, driver_ok, hst, rx_count, greeted, uses, ring, mem, free,
                    toHost, irq, cpu, created, ipm, data_sem, pc, idx, ept, dest, cs_msg, slot,
                    tx_buff, msg_cnt>>
    BY DEF setting, hostVars, slotVars, threadVars, HostFrame, MngFrame, ServFrame
  <1>2. /\ \A x \in Members(ring) : x \in 1 .. NBuf
        /\ \A f \in Slots : slot[f] # 0 => slot[f] \in 1 .. NBuf
        /\ \A n \in Members(toHost) : n \in Reply /\ n.to \in User
    BY Numbered
  <1>3. pc["cs"] = "start" /\ mpc' = "loop" /\ sem' = [th \in Service |-> 1] /\ rpdev' = TRUE
    BY DEF Greetings, Service
  <1>4. TypeOK'
    <2>1. HostTypeOK'
      BY <1>1, <1>3 DEF TypeOK, HostTypeOK
    <2>2. SharedTypeOK'
      BY <1>1, <1>3 DEF TypeOK, SharedTypeOK
    <2>3. ThreadTypeOK'
      BY <1>1, <1>3 DEF TypeOK, ThreadTypeOK
    <2>4. ServiceTypeOK'
      BY <1>1, <1>3 DEF TypeOK, ServiceTypeOK
    <2> QED BY <2>1, <2>2, <2>3, <2>4 DEF TypeOK
  <1>5. Places'
    BY <1>1 DEF Places
  <1>6. Contents'
    BY <1>1 DEF Contents
  <1>7. Alone'
    BY <1>1 DEF Alone
  <1>8. Answering'
    BY <1>1 DEF Answering, Writes
  <1>9. Answers'
    BY <1>1 DEF Answers, Writes
  <1>10. Sample'
    BY <1>1, <1>3 DEF Sample, Copied, Writes
  <1>11. Counts'
    BY <1>1, <1>3 DEF Counts, Writes
  <1>12. Farewell'
    BY <1>1 DEF Farewell
  <1>13. Greetings'
    BY <1>1, <1>3 DEF Greetings
  <1>14. Known'
    BY <1>1 DEF Known
  <1>15. Bindings'
    BY <1>1, <1>3 DEF Bindings
  <1>16. Order'
    BY <1>1 DEF Order
  <1>17. Kept'
    BY <1>1 DEF Kept, Shared
  <1> QED BY <1>4, <1>5, <1>6, <1>7, <1>8, <1>9, <1>10, <1>11, <1>12, <1>13, <1>14,
      <1>15, <1>16, <1>17 DEF IInv

(* A service starts.                                                       *)
LEMMA StartStep ==
  ASSUME IInv, NEW th \in Service, Start(th)
  PROVE  IInv'
  <1> USE ServicesAssumption DEF IInv
  <1>1. UNCHANGED <<users, faulty, driver_ok, hst, rx_count, greeted, uses, ring, mem, free,
                    toHost, irq, created, ipm, rpdev, data_sem, mpc, idx, dest, cs_msg, slot,
                    tx_buff, msg_cnt>>
    BY DEF Start, Goto, setting, hostVars, slotVars, threadVars, HostFrame, MngFrame,
       ServFrame
  <1>2. /\ \A x \in Members(ring) : x \in 1 .. NBuf
        /\ \A f \in Slots : slot[f] # 0 => slot[f] \in 1 .. NBuf
        /\ \A n \in Members(toHost) : n \in Reply /\ n.to \in User
    BY Numbered
  <1>3. /\ pc' = [pc EXCEPT ![th] = "announce"] /\ pc'[th] = "announce" /\ cpu' = th
        /\ \A t \in Service : t # th => pc'[t] = pc[t]
    BY DEF Start, Goto, TypeOK, ThreadTypeOK
  <1>4. "cs" \in Service /\ "tty" \in Service /\ "raw" \in Service
    BY DEF Service
  <1>5. pc[th] = "start" /\ sem[th] = 1
    BY DEF Start, Awake
  <1>6. /\ sem' = [sem EXCEPT ![th] = 0] /\ sem'[th] = 0
        /\ \A t \in Service : t # th => sem'[t] = sem[t]
    BY DEF Start, TypeOK, ThreadTypeOK
  <1>7. ept' \subseteq Endpoint /\ ("tty1" \in ept' <=> "tty1" \in ept)
    BY Audiences DEF Start, TypeOK, ServiceTypeOK, Endpoint, Slots
  <1>8. TypeOK'
    <2>1. HostTypeOK'
      BY <1>1, <1>3, <1>6, <1>7 DEF TypeOK, HostTypeOK
    <2>2. SharedTypeOK'
      BY <1>1, <1>3, <1>6, <1>7 DEF TypeOK, SharedTypeOK
    <2>3. ThreadTypeOK'
      BY <1>1, <1>3, <1>6, <1>7 DEF TypeOK, ThreadTypeOK
    <2>4. ServiceTypeOK'
      BY <1>1, <1>3, <1>6, <1>7 DEF TypeOK, ServiceTypeOK
    <2> QED BY <2>1, <2>2, <2>3, <2>4 DEF TypeOK
  <1>9. Places'
    BY <1>1 DEF Places
  <1>10. Contents'
    BY <1>1 DEF Contents
  <1>11. Alone'
    BY <1>1 DEF Alone
  <1>12. Answering'
    BY <1>1, <1>3, <1>4 DEF Answering, Writes
  <1>13. Answers'
    BY <1>1, <1>3, <1>4 DEF Answers, Writes
  <1>14. Sample'
    BY <1>1, <1>3, <1>6, <1>5, <1>4 DEF Sample, Copied, Writes
  <1>15. Counts'
    BY <1>1, <1>3, <1>6, <1>5, <1>4 DEF Counts, Writes
  <1>16. Farewell'
    BY <1>1, <1>3, <1>5, <1>4 DEF Farewell
  <1>17. Greetings'
    BY <1>1, <1>3, <1>6, <1>5, <1>4 DEF Greetings
  <1>18. Known'
    BY <1>1 DEF Known
  <1>19. Bindings'
    BY <1>1, <1>7 DEF Bindings
  <1>20. Order'
    BY <1>1 DEF Order
  <1>21. Kept'
    BY <1>1 DEF Kept, Shared
  <1> QED BY <1>8, <1>9, <1>10, <1>11, <1>12, <1>13, <1>14, <1>15, <1>16, <1>17, <1>18,
      <1>19, <1>20, <1>21 DEF IInv

(* A service announces its endpoint.                                       *)
LEMMA AnnounceStep ==
  ASSUME IInv, NEW th \in Service, Announce(th)
  PROVE  IInv'
  <1> USE ServicesAssumption DEF IInv
  <1>1. UNCHANGED <<users, faulty, driver_ok, hst, rx_count, greeted, uses, ring, mem, free, irq,
                    created, ipm, rpdev, data_sem, sem, mpc, idx, dest, cs_msg, slot, tx_buff,
                    msg_cnt>>
    BY DEF Announce, Goto, setting, hostVars, slotVars, threadVars, HostFrame, MngFrame,
       ServFrame
  <1>2. /\ \A x \in Members(ring) : x \in 1 .. NBuf
        /\ \A f \in Slots : slot[f] # 0 => slot[f] \in 1 .. NBuf
        /\ \A n \in Members(toHost) : n \in Reply /\ n.to \in User
    BY Numbered
  <1>3. /\ pc' = [pc EXCEPT ![th] = "loop"] /\ pc'[th] = "loop" /\ cpu' = th
        /\ \A t \in Service : t # th => pc'[t] = pc[t]
    BY DEF Announce, Goto, TypeOK, ThreadTypeOK
  <1>4. "cs" \in Service /\ "tty" \in Service /\ "raw" \in Service
    BY DEF Service
  <1>5. /\ pc[th] = "announce" /\ \A u \in Audience(First(th)) : hst[u] = "off"
        /\ \A m \in Members(toHost) : m.kind = "create" => m.to # First(th)
    BY DEF Announce, Greetings
  <1>6. ept' \subseteq Endpoint /\ ("tty1" \in ept' <=> "tty1" \in ept)
    BY DEF Announce, TypeOK, ServiceTypeOK, Endpoint, Slots
  <1>7. /\ First(th) \in {"cs", "tty0", "raw0"}
        /\ \A t \in Service : First(t) = First(th) => t = th
    BY Endpoints DEF Service
  <1>8. Message("create", First(th), First(th)) \in Reply
    BY <1>7 DEF Message, Reply, Devices, User, Endpoint, Slots
  <1>9. Message("create", First(th), First(th)) \notin Members(toHost)
    BY <1>5 DEF Message
  <1>10. /\ toHost' \in Seq(Reply) /\ Len(toHost') <= NTx /\ OnceEach(toHost')
         /\ \A x \in Members(toHost') :
              x \in Members(toHost) \/ x = Message("create", First(th), First(th))
         /\ \A x, y : After(toHost', x, y) =>
              /\ x \in Members(toHost)
              /\ After(toHost, x, y) \/ y = Message("create", First(th), First(th))
    BY <1>8, <1>9, Sending DEF Announce
  <1>11. /\ OnceEach(toHost')
         /\ \A x \in Members(toHost') :
              x \in Members(toHost) \/ (x.kind = "create" /\ x.to = First(th) /\ x.from = First(th))
    BY <1>10 DEF Message
  <1>12. th = "cs" => sem["cs"] # 1
    BY <1>5, Endpoints DEF Sample, Copied, Audience
  <1>13. \A m \in Members(toHost) : m.kind # "destroy" \/ th # "cs"
    BY <1>5 DEF Farewell
  <1>14. th # "cs" => First(th) # "cs"
    BY Endpoints DEF Service
  <1>15. TypeOK'
    <2>1. HostTypeOK'
      BY <1>1, <1>3, <1>10, <1>6 DEF TypeOK, HostTypeOK
    <2>2. SharedTypeOK'
      BY <1>1, <1>3, <1>10, <1>6 DEF TypeOK, SharedTypeOK
    <2>3. ThreadTypeOK'
      BY <1>1, <1>3, <1>10, <1>6 DEF TypeOK, ThreadTypeOK
    <2>4. ServiceTypeOK'
      BY <1>1, <1>3, <1>10, <1>6 DEF TypeOK, ServiceTypeOK
    <2> QED BY <2>1, <2>2, <2>3, <2>4 DEF TypeOK
  <1>16. Places'
    BY <1>1 DEF Places
  <1>17. Contents'
    BY <1>1 DEF Contents
  <1>18. Alone'
    BY <1>1 DEF Alone
  <1>19. Answering'
    BY <1>1, <1>3, <1>4 DEF Answering, Writes
  <1>20. Answers'
    BY <1>1, <1>3, <1>4, <1>11 DEF Answers, Writes
  <1>21. Sample'
    BY <1>1, <1>3, <1>12, <1>4, <1>11 DEF Sample, Copied, Writes
  <1>22. Counts'
    BY <1>1, <1>3, <1>12, <1>4, <1>11 DEF Counts, Writes
  <1>23. Farewell'
    BY <1>1, <1>3, <1>5, <1>4, <1>10, <1>11, <1>13, <1>14 DEF Farewell, Message
  <1>24. Greetings'
    BY <1>1, <1>3, <1>5, <1>4, <1>11, <1>7 DEF Greetings
  <1>25. Known'
    BY <1>1 DEF Known
  <1>26. Bindings'
    BY <1>1, <1>6, <1>11 DEF Bindings
  <1>27. Order'
    BY <1>1, <1>11 DEF Order
  <1>28. Kept'
    BY <1>1 DEF Kept, Shared
  <1> QED BY <1>15, <1>16, <1>17, <1>18, <1>19, <1>20, <1>21, <1>22, <1>23, <1>24,
      <1>25, <1>26, <1>27, <1>28 DEF IInv

(* A service takes its semaphore.                                          *)
LEMMA TakeStep ==
  ASSUME IInv, NEW th \in Service, Take(th)
  PROVE  IInv'
  <1> USE ServicesAssumption DEF IInv
  <1>1. UNCHANGED <<users, faulty, driver_ok, hst, rx_count, greeted, uses, ring, mem, free,
                    toHost, irq, created, ipm, rpdev, data_sem, mpc, idx, ept, dest, cs_msg,
                    slot, tx_buff>>
    BY DEF Take, Goto, setting, hostVars, slotVars, threadVars, HostFrame, MngFrame,
       ServFrame
  <1>2. /\ \A x \in Members(ring) : x \in 1 .. NBuf
        /\ \A f \in Slots : slot[f] # 0 => slot[f] \in 1 .. NBuf
        /\ \A n \in Members(toHost) : n \in Reply /\ n.to \in User
    BY Numbered
  <1>3. /\ pc' = [pc EXCEPT ![th] = (IF th = "cs" THEN "send"
             ELSE "scan")] /\ pc'[th] = (IF th = "cs" THEN "send" ELSE "scan") /\ cpu' = th
        /\ \A t \in Service : t # th => pc'[t] = pc[t]
    BY DEF Take, Goto, TypeOK, ThreadTypeOK
  <1>4. "cs" \in Service /\ "tty" \in Service /\ "raw" \in Service
    BY DEF Service
  <1>5. pc[th] = "loop" /\ sem[th] = 1
    BY DEF Take
  <1>6. /\ sem' = [sem EXCEPT ![th] = 0] /\ sem'[th] = 0
        /\ \A t \in Service : t # th => sem'[t] = sem[t]
    BY DEF Take, TypeOK, ThreadTypeOK
  <1>7. msg_cnt' = IF th = "cs" THEN msg_cnt + 1 ELSE msg_cnt
    BY DEF Take
  <1>8. rx_count \in Nat /\ msg_cnt \in Nat /\ MSGS \in Nat
    BY DEF TypeOK, HostTypeOK, ServiceTypeOK
  <1>9. th = "cs" => /\ Copied /\ msg_cnt = rx_count /\ rx_count < MSGS
                     /\ hst["cs"] = "wait" /\ msg_cnt' \in 0 .. MSGS
    BY <1>5, <1>7, <1>8 DEF Copied, Sample, Counts
  <1>10. th = "cs" => (\A b \in Members(ring) : ~Writes("cs", b)) /\ \A x \in Members(toHost) :
           ~(x.kind = "answer" /\ x.to = "cs")
    BY <1>9 DEF Sample
  <1>11. TypeOK'
    <2>1. HostTypeOK'
      BY <1>1, <1>3, <1>6, <1>7, <1>9 DEF TypeOK, HostTypeOK
    <2>2. SharedTypeOK'
      BY <1>1, <1>3, <1>6, <1>7, <1>9 DEF TypeOK, SharedTypeOK
    <2>3. ThreadTypeOK'
      BY <1>1, <1>3, <1>6, <1>7, <1>9 DEF TypeOK, ThreadTypeOK
    <2>4. ServiceTypeOK'
      BY <1>1, <1>3, <1>6, <1>7, <1>9 DEF TypeOK, ServiceTypeOK
    <2> QED BY <2>1, <2>2, <2>3, <2>4 DEF TypeOK
  <1>12. Places'
    BY <1>1 DEF Places
  <1>13. Contents'
    BY <1>1 DEF Contents
  <1>14. Alone'
    BY <1>1 DEF Alone
  <1>15. Answering'
    BY <1>1, <1>3, <1>4 DEF Answering, Writes
  <1>16. Answers'
    BY <1>1, <1>3, <1>4 DEF Answers, Writes
  <1>17. Sample'
    BY <1>1, <1>3, <1>6, <1>5, <1>4 DEF Sample, Copied, Writes
  <1>18. Counts'
    BY <1>1, <1>3, <1>6, <1>5, <1>4, <1>7, <1>9, <1>8, <1>10 DEF Counts, Writes
  <1>19. Farewell'
    BY <1>1, <1>3, <1>5, <1>4 DEF Farewell
  <1>20. Greetings'
    BY <1>1, <1>3, <1>6, <1>5, <1>4 DEF Greetings
  <1>21. Known'
    BY <1>1 DEF Known
  <1>22. Bindings'
    BY <1>1 DEF Bindings
  <1>23. Order'
    BY <1>1 DEF Order
  <1>24. Kept'
    BY <1>1 DEF Kept, Shared
  <1> QED BY <1>11, <1>12, <1>13, <1>14, <1>15, <1>16, <1>17, <1>18, <1>19, <1>20,
      <1>21, <1>22, <1>23, <1>24 DEF IInv

(* The client sample is answered.                                          *)
LEMMA CsSendStep ==
  ASSUME IInv, CsSend
  PROVE  IInv'
  <1> USE ServicesAssumption DEF IInv
  <1>1. UNCHANGED <<users, faulty, driver_ok, hst, rx_count, greeted, uses, ring, mem, free, irq,
                    created, ipm, rpdev, data_sem, sem, mpc, idx, ept, dest, cs_msg, slot,
                    tx_buff, msg_cnt>>
    BY DEF CsSend, Goto, setting, hostVars, slotVars, threadVars, HostFrame, MngFrame,
       ServFrame
  <1>2. /\ \A x \in Members(ring) : x \in 1 .. NBuf
        /\ \A f \in Slots : slot[f] # 0 => slot[f] \in 1 .. NBuf
        /\ \A n \in Members(toHost) : n \in Reply /\ n.to \in User
    BY Numbered
  <1>3. /\ pc' = [pc EXCEPT !["cs"] = (IF msg_cnt < MSGS THEN "loop"
             ELSE "destroy")] /\ pc'["cs"] = (IF msg_cnt < MSGS THEN "loop"
             ELSE "destroy") /\ cpu' = "cs"
        /\ \A t \in Service : t # "cs" => pc'[t] = pc[t]
    BY DEF CsSend, Service, Goto, TypeOK, ThreadTypeOK
  <1>4. "cs" \in Service /\ "tty" \in Service /\ "raw" \in Service
    BY DEF Service
  <1>5. pc["cs"] = "send" /\ msg_cnt = rx_count + 1
    BY DEF CsSend, Counts
  <1>6. rx_count \in Nat /\ msg_cnt \in 0 .. MSGS /\ MSGS \in Nat
    BY DEF TypeOK, HostTypeOK, ServiceTypeOK
  <1>7. /\ cs_msg.from = "cs" /\ dest["cs"] = "cs" /\ hst["cs"] = "wait"
        /\ \A b \in Members(ring) : ~Writes("cs", b)
        /\ \A x \in Members(toHost) : ~(x.kind = "answer" /\ x.to = "cs")
    BY <1>5 DEF Sample, Copied
  <1>8. Send(Message("answer", "cs", "cs")) \/ UNCHANGED toHost
    BY <1>7 DEF CsSend, Message
  <1>9. Message("answer", "cs", "cs") \in Reply
    BY DEF Message, Reply, Devices, User, Endpoint, Slots
  <1>10. Message("answer", "cs", "cs") \notin Members(toHost)
    BY <1>7 DEF Message
  <1>11. /\ toHost' \in Seq(Reply) /\ Len(toHost') <= NTx /\ OnceEach(toHost')
         /\ \A x \in Members(toHost') : x \in Members(toHost) \/ x = Message("answer", "cs", "cs")
         /\ \A x, y : After(toHost', x, y) =>
              /\ x \in Members(toHost)
              /\ After(toHost, x, y) \/ y = Message("answer", "cs", "cs")
    BY <1>9, <1>10, Sending, <1>8
  <1>12. /\ OnceEach(toHost')
         /\ \A x \in Members(toHost') :
              x \in Members(toHost) \/ (x.kind = "answer" /\ x.to = "cs" /\ x.from = "cs")
    BY <1>11 DEF Message
  <1>13. sem["cs"] # 1
    BY <1>5, <1>6 DEF Counts
  <1>14. \A m \in Members(toHost) : m.kind # "destroy"
    BY <1>5 DEF Farewell
  <1>15. /\ \A e \in Slots : slot[e] # 0 => mem[slot[e]].from # "cs"
         /\ \A th \in {"tty", "raw"} : pc[th] = "send" => tx_buff[th].from # "cs"
    BY Targets, Endpoints DEF Contents, Answering, Slots, TypeOK, ThreadTypeOK, Service
  <1>16. TypeOK'
    <2>1. HostTypeOK'
      BY <1>1, <1>3, <1>11, <1>4 DEF TypeOK, HostTypeOK
    <2>2. SharedTypeOK'
      BY <1>1, <1>3, <1>11, <1>4 DEF TypeOK, SharedTypeOK
    <2>3. ThreadTypeOK'
      BY <1>1, <1>3, <1>11, <1>4 DEF TypeOK, ThreadTypeOK
    <2>4. ServiceTypeOK'
      BY <1>1, <1>3, <1>11, <1>4 DEF TypeOK, ServiceTypeOK
    <2> QED BY <2>1, <2>2, <2>3, <2>4 DEF TypeOK
  <1>17. Places'
    BY <1>1 DEF Places
  <1>18. Contents'
    BY <1>1 DEF Contents
  <1>19. Alone'
    BY <1>1 DEF Alone
  <1>20. Answering'
    BY <1>1, <1>3, <1>4 DEF Answering, Writes
  <1>21. Answers'
    BY <1>1, <1>3, <1>4, <1>12, <1>7, <1>15 DEF Answers, Writes
  <1>22. Sample'
    BY <1>1, <1>3, <1>13, <1>4, <1>12 DEF Sample, Copied, Writes
  <1>23. Counts'
    BY <1>1, <1>3, <1>13, <1>4, <1>12, <1>5, <1>6, <1>7 DEF Counts, Writes
  <1>24. Farewell'
    BY <1>1, <1>3, <1>4, <1>11, <1>14, <1>12 DEF Farewell
  <1>25. Greetings'
    BY <1>1, <1>3, <1>5, <1>4, <1>12 DEF Greetings
  <1>26. Known'
    BY <1>1 DEF Known
  <1>27. Bindings'
    BY <1>1, <1>12 DEF Bindings
  <1>28. Order'
    BY <1>1, <1>12 DEF Order
  <1>29. Kept'
    BY <1>1 DEF Kept, Shared
  <1> QED BY <1>16, <1>17, <1>18, <1>19, <1>20, <1>21, <1>22, <1>23, <1>24, <1>25,
      <1>26, <1>27, <1>28, <1>29 DEF IInv

(* The client sample's channel goes.                                       *)
LEMMA CsDestroyStep ==
  ASSUME IInv, CsDestroy
  PROVE  IInv'
  <1> USE ServicesAssumption DEF IInv
  <1>1. UNCHANGED <<users, faulty, driver_ok, hst, rx_count, greeted, uses, ring, mem, free, irq,
                    created, ipm, rpdev, data_sem, sem, mpc, idx, dest, cs_msg, slot, tx_buff,
                    msg_cnt>>
    BY DEF CsDestroy, setting, hostVars, slotVars, threadVars, HostFrame, MngFrame,
       ServFrame
  <1>2. /\ \A x \in Members(ring) : x \in 1 .. NBuf
        /\ \A f \in Slots : slot[f] # 0 => slot[f] \in 1 .. NBuf
        /\ \A n \in Members(toHost) : n \in Reply /\ n.to \in User
    BY Numbered
  <1>3. /\ pc' = [pc EXCEPT !["cs"] = "ended"] /\ pc'["cs"] = "ended" /\ cpu' = "idle"
        /\ \A t \in Service : t # "cs" => pc'[t] = pc[t]
    BY DEF CsDestroy, TypeOK, ThreadTypeOK, Service
  <1>4. "cs" \in Service /\ "tty" \in Service /\ "raw" \in Service
    BY DEF Service
  <1>5. pc["cs"] = "destroy" /\ msg_cnt = MSGS
    BY DEF CsDestroy, Counts
  <1>6. ept' \subseteq Endpoint /\ ("tty1" \in ept' <=> "tty1" \in ept)
    BY DEF CsDestroy, TypeOK, ServiceTypeOK
  <1>7. \A m \in Members(toHost) : m.kind # "destroy"
    BY <1>5 DEF Farewell
  <1>8. Message("destroy", "cs", "cs") \in Reply
    BY DEF Message, Reply, Devices, User, Endpoint, Slots
  <1>9. Message("destroy", "cs", "cs") \notin Members(toHost)
    BY <1>7 DEF Message
  <1>10. /\ toHost' \in Seq(Reply) /\ Len(toHost') <= NTx /\ OnceEach(toHost')
         /\ \A x \in Members(toHost') :
              x \in Members(toHost) \/ x = Message("destroy", "cs", "cs")
         /\ \A x, y : After(toHost', x, y) =>
              /\ x \in Members(toHost)
              /\ After(toHost, x, y) \/ y = Message("destroy", "cs", "cs")
    BY <1>8, <1>9, Sending DEF CsDestroy
  <1>11. /\ OnceEach(toHost')
         /\ \A x \in Members(toHost') :
              x \in Members(toHost) \/ (x.kind = "destroy" /\ x.to = "cs" /\ x.from = "cs")
    BY <1>10 DEF Message
  <1>12. TypeOK'
    <2>1. HostTypeOK'
      BY <1>1, <1>3, <1>10, <1>4, <1>6 DEF TypeOK, HostTypeOK
    <2>2. SharedTypeOK'
      BY <1>1, <1>3, <1>10, <1>4, <1>6 DEF TypeOK, SharedTypeOK
    <2>3. ThreadTypeOK'
      BY <1>1, <1>3, <1>10, <1>4, <1>6 DEF TypeOK, ThreadTypeOK
    <2>4. ServiceTypeOK'
      BY <1>1, <1>3, <1>10, <1>4, <1>6 DEF TypeOK, ServiceTypeOK
    <2> QED BY <2>1, <2>2, <2>3, <2>4 DEF TypeOK
  <1>13. Places'
    BY <1>1 DEF Places
  <1>14. Contents'
    BY <1>1 DEF Contents
  <1>15. Alone'
    BY <1>1 DEF Alone
  <1>16. Answering'
    BY <1>1, <1>3, <1>4 DEF Answering, Writes
  <1>17. Answers'
    BY <1>1, <1>3, <1>4, <1>11 DEF Answers, Writes
  <1>18. Sample'
    BY <1>1, <1>3, <1>5, <1>4, <1>11 DEF Sample, Copied, Writes
  <1>19. Counts'
    BY <1>1, <1>3, <1>4, <1>11, <1>5 DEF Counts, Writes
  <1>20. Farewell'
    BY <1>1, <1>3, <1>4, <1>10, <1>7, <1>11 DEF Farewell
  <1>21. Greetings'
    BY <1>1, <1>3, <1>5, <1>4, <1>11 DEF Greetings
  <1>22. Known'
    BY <1>1 DEF Known
  <1>23. Bindings'
    BY <1>1, <1>11, <1>6 DEF Bindings
  <1>24. Order'
    BY <1>1, <1>11 DEF Order
  <1>25. Kept'
    BY <1>1 DEF Kept, Shared
  <1> QED BY <1>12, <1>13, <1>14, <1>15, <1>16, <1>17, <1>18, <1>19, <1>20, <1>21,
      <1>22, <1>23, <1>24, <1>25 DEF IInv

(* A service looks at a slot.                                              *)
LEMMA ScanStep ==
  ASSUME IInv, NEW th \in Service, NEW e, e = EptOf(th, idx[th]), Scan(th)
  PROVE  IInv'
  <1> USE ServicesAssumption DEF IInv
  <1>1. UNCHANGED <<users, faulty, driver_ok, hst, rx_count, greeted, uses, ring, mem, free,
                    toHost, irq, created, ipm, rpdev, data_sem, sem, mpc, ept, dest, cs_msg,
                    slot, msg_cnt>>
    BY DEF Scan, Advance, Goto, setting, hostVars, slotVars, threadVars, HostFrame,
       MngFrame, ServFrame
  <1>2. /\ \A x \in Members(ring) : x \in 1 .. NBuf
        /\ \A f \in Slots : slot[f] # 0 => slot[f] \in 1 .. NBuf
        /\ \A n \in Members(toHost) : n \in Reply /\ n.to \in User
    BY Numbered
  <1>3. th \in {"tty", "raw"} /\ idx[th] \in 0 .. 1 /\ pc[th] = "scan"
    BY DEF Scan, Greetings, Service, TypeOK, ThreadTypeOK
  <1>4. "cs" \in Service /\ "tty" \in Service /\ "raw" \in Service
    BY DEF Service
  <1>5. e \in Slots
    BY <1>3, Slotted
  <1>6. /\ pc' \in [Service -> {"start", "announce", "loop", "scan", "send", "destroy", "ended"}]
        /\ pc'[th] \in {"scan", "loop", "send"} /\ cpu' = th
        /\ \A t \in Service : t # th => pc'[t] = pc[t]
    BY DEF Scan, Advance, Goto, TypeOK, ThreadTypeOK
  <1>7. idx' \in [Service -> 0 .. 1] /\ \A t \in Service : t # th => idx'[t] = idx[t]
    BY <1>3 DEF Scan, Advance, TypeOK, ThreadTypeOK
  <1>8. slot[e] # 0 => mem[slot[e]] \in Mail
    BY <1>2, <1>5 DEF TypeOK, SharedTypeOK
  <1>9. tx_buff' \in [Service -> Mail] /\ \A t \in Service : t # th => tx_buff'[t] = tx_buff[t]
    BY <1>8 DEF Scan, TypeOK, ServiceTypeOK
  <1>10. pc'[th] = "send" => slot[e] # 0 /\ idx'[th] = idx[th] /\ tx_buff'[th] = mem[slot[e]]
    BY <1>3 DEF Scan, Advance, Goto, TypeOK, ThreadTypeOK, ServiceTypeOK
  <1>11. TypeOK'
    <2>1. HostTypeOK'
      BY <1>1, <1>6, <1>7, <1>9, <1>4 DEF TypeOK, HostTypeOK
    <2>2. SharedTypeOK'
      BY <1>1, <1>6, <1>7, <1>9, <1>4 DEF TypeOK, SharedTypeOK
    <2>3. ThreadTypeOK'
      BY <1>1, <1>6, <1>7, <1>9, <1>4 DEF TypeOK, ThreadTypeOK
    <2>4. ServiceTypeOK'
      BY <1>1, <1>6, <1>7, <1>9, <1>4 DEF TypeOK, ServiceTypeOK
    <2> QED BY <2>1, <2>2, <2>3, <2>4 DEF TypeOK
  <1>12. Places'
    BY <1>1 DEF Places
  <1>13. Contents'
    BY <1>1 DEF Contents
  <1>14. Alone'
    BY <1>1 DEF Alone
  <1>15. Answering'
    BY <1>1, <1>6, <1>7, <1>9, <1>10, <1>4, <1>5, <1>3 DEF Answering, Writes, Contents,
       Alone
  <1>16. Answers'
    BY <1>1, <1>6, <1>9, <1>10, <1>4, <1>5, <1>3 DEF Answers, Writes, Contents
  <1>17. Sample'
    BY <1>1, <1>6, <1>3, <1>4 DEF Sample, Copied, Writes
  <1>18. Counts'
    BY <1>1, <1>6, <1>3, <1>4 DEF Counts, Writes
  <1>19. Farewell'
    BY <1>1, <1>6, <1>3, <1>4 DEF Farewell
  <1>20. Greetings'
    BY <1>1, <1>6, <1>3, <1>4 DEF Greetings
  <1>21. Known'
    BY <1>1 DEF Known
  <1>22. Bindings'
    BY <1>1 DEF Bindings
  <1>23. Order'
    BY <1>1 DEF Order
  <1>24. Kept'
    BY <1>1 DEF Kept, Shared
  <1> QED BY <1>11, <1>12, <1>13, <1>14, <1>15, <1>16, <1>17, <1>18, <1>19, <1>20,
      <1>21, <1>22, <1>23, <1>24 DEF IInv

(* A service answers, and gives the buffer back.                           *)
LEMMA AnswerStep ==
  ASSUME IInv, NEW th \in Service, NEW e, e = EptOf(th, idx[th]), NEW b, b = slot[e],
         NEW u, u = tx_buff[th].from, Answer(th)
  PROVE  IInv'
  <1> USE ServicesAssumption DEF IInv
  <1>1. UNCHANGED <<users, faulty, driver_ok, hst, rx_count, greeted, uses, ring, irq, created,
                    ipm, rpdev, data_sem, sem, mpc, ept, dest, cs_msg, msg_cnt>>
    BY DEF Answer, Advance, Goto, setting, hostVars, slotVars, threadVars, HostFrame,
       MngFrame, ServFrame
  <1>2. /\ \A x \in Members(ring) : x \in 1 .. NBuf
        /\ \A f \in Slots : slot[f] # 0 => slot[f] \in 1 .. NBuf
        /\ \A n \in Members(toHost) : n \in Reply /\ n.to \in User
    BY Numbered
  <1>3. th \in {"tty", "raw"} /\ idx[th] \in 0 .. 1 /\ pc[th] = "send"
    BY DEF Answer, TypeOK, ThreadTypeOK
  <1>4. "cs" \in Service /\ "tty" \in Service /\ "raw" \in Service
    BY DEF Service
  <1>5. e \in Slots
    BY <1>3, Slotted
  <1>6. /\ b # 0 /\ u \in User /\ Target(u) = e /\ hst[u] = "wait" /\ \A x \in Members(ring) :
             ~Writes(u, x)
        /\ b \in 1 .. NBuf /\ b \notin Members(ring)
    BY <1>3, <1>5, <1>2 DEF Answering, Places
  <1>7. th = "tty" => dest[e] = u
    BY <1>3, <1>6, Endpoints, Targets DEF Bindings
  <1>8. /\ pc' \in [Service -> {"start", "announce", "loop", "scan", "send", "destroy", "ended"}]
        /\ pc'[th] \in {"scan", "loop"} /\ cpu' = th
        /\ \A t \in Service : t # th => pc'[t] = pc[t]
    BY DEF Answer, Advance, Goto, TypeOK, ThreadTypeOK
  <1>9. idx' \in [Service -> 0 .. 1] /\ \A t \in Service : t # th => idx'[t] = idx[t]
    BY <1>3 DEF Answer, Advance, TypeOK, ThreadTypeOK
  <1>10. tx_buff' \in [Service -> Mail] /\ \A t \in Service : t # th => tx_buff'[t] = tx_buff[t]
    BY DEF Answer, TypeOK, ServiceTypeOK, NoMessage, Message, Mail
  <1>11. /\ slot' \in [Slots -> 0 .. NBuf] /\ slot'[e] = 0
         /\ \A f \in Slots : f # e => slot'[f] = slot[f] /\ (slot[f] # 0 => slot[f] # b)
    BY <1>5, <1>6 DEF Answer, TypeOK, ServiceTypeOK, Contents
  <1>12. /\ free' \subseteq 1 .. NBuf /\ (\A x : x \in free' <=> x \in free \/ x = b)
         /\ mem' \in [1 .. NBuf -> Mail] /\ \A x \in 1 .. NBuf : x # b => mem'[x] = mem[x]
    BY <1>6, Freeing DEF Answer
  <1>13. \A x \in Members(ring) : mem'[x] = mem[x]
    BY <1>2, <1>12, <1>6
  <1>14. \A f \in Slots : slot'[f] # 0 =>
           f # e /\ slot'[f] = slot[f] /\ mem'[slot'[f]] = mem[slot[f]]
    BY <1>2, <1>12, <1>11
  <1>15. Send(Message("answer", u, u)) \/ UNCHANGED toHost
    BY <1>3, <1>7 DEF Answer, Message
  <1>16. \A m \in Members(toHost) : m.kind = "answer" => m.to # u
    BY <1>3 DEF Answers
  <1>17. Message("answer", u, u) \in Reply
    BY <1>6 DEF Message, Reply, Devices, User, Endpoint, Slots
  <1>18. Message("answer", u, u) \notin Members(toHost)
    BY <1>16 DEF Message
  <1>19. /\ toHost' \in Seq(Reply) /\ Len(toHost') <= NTx /\ OnceEach(toHost')
         /\ \A x \in Members(toHost') : x \in Members(toHost) \/ x = Message("answer", u, u)
         /\ \A x, y : After(toHost', x, y) =>
              /\ x \in Members(toHost)
              /\ After(toHost, x, y) \/ y = Message("answer", u, u)
    BY <1>17, <1>18, Sending, <1>15
  <1>20. /\ OnceEach(toHost')
         /\ \A x \in Members(toHost') :
              x \in Members(toHost) \/ (x.kind = "answer" /\ x.to = u /\ x.from = u)
    BY <1>19 DEF Message
  <1>21. /\ \A f \in Slots : f # e /\ slot[f] # 0 => mem[slot[f]].from # u
         /\ \A t \in {"tty", "raw"} : t # th /\ pc[t] = "send" =>
              tx_buff[t].from # u /\ EptOf(t, idx[t]) # e /\ EptOf(t, idx[t]) \in Slots
    BY <1>6, <1>3, Slotted DEF Contents, Answering, TypeOK, ThreadTypeOK, Service
  <1>22. ring # <<>> => mem'[Head(ring)] = mem[Head(ring)]
    BY <1>13, Taking DEF TypeOK, SharedTypeOK, Places
  <1>23. u # "cs"
    BY <1>6, <1>5, Targets DEF Slots
  <1>24. "tty0" \in Slots
    BY DEF Slots
  <1>25. TypeOK'
    <2>1. HostTypeOK'
      BY <1>1, <1>8, <1>9, <1>10, <1>4, <1>11, <1>12, <1>19 DEF TypeOK, HostTypeOK
    <2>2. SharedTypeOK'
      BY <1>1, <1>8, <1>9, <1>10, <1>4, <1>11, <1>12, <1>19 DEF TypeOK, SharedTypeOK
    <2>3. ThreadTypeOK'
      BY <1>1, <1>8, <1>9, <1>10, <1>4, <1>11, <1>12, <1>19 DEF TypeOK, ThreadTypeOK
    <2>4. ServiceTypeOK'
      BY <1>1, <1>8, <1>9, <1>10, <1>4, <1>11, <1>12, <1>19 DEF TypeOK, ServiceTypeOK
    <2> QED BY <2>1, <2>2, <2>3, <2>4 DEF TypeOK
  <1>26. Places'
    BY <1>1, <1>11, <1>12, <1>6, <1>14 DEF Places
  <1>27. Contents'
    BY <1>1, <1>13, <1>14 DEF Contents
  <1>28. Alone'
    BY <1>1, <1>13, <1>14 DEF Alone
  <1>29. Answering'
    BY <1>1, <1>8, <1>9, <1>10, <1>4, <1>3, <1>13, <1>11, <1>21 DEF Answering, Writes
  <1>30. Answers'
    BY <1>1, <1>8, <1>10, <1>4, <1>3, <1>13, <1>14, <1>20, <1>6, <1>21 DEF Answers,
       Writes
  <1>31. Sample'
    BY <1>1, <1>8, <1>3, <1>4, <1>13, <1>20, <1>23 DEF Sample, Copied, Writes
  <1>32. Counts'
    BY <1>1, <1>8, <1>3, <1>4, <1>13, <1>20, <1>23 DEF Counts, Writes
  <1>33. Farewell'
    BY <1>1, <1>8, <1>3, <1>4, <1>19, <1>20, <1>23 DEF Farewell, Message
  <1>34. Greetings'
    BY <1>1, <1>8, <1>3, <1>4, <1>20 DEF Greetings
  <1>35. Known'
    BY <1>1 DEF Known
  <1>36. Bindings'
    BY <1>1, <1>20, <1>22, <1>14, <1>24 DEF Bindings
  <1>37. Order'
    BY <1>1, <1>20, <1>13 DEF Order
  <1>38. Kept'
    BY <1>1, <1>11, <1>12, <1>5 DEF Kept, Shared
  <1> QED BY <1>25, <1>26, <1>27, <1>28, <1>29, <1>30, <1>31, <1>32, <1>33, <1>34,
      <1>35, <1>36, <1>37, <1>38 DEF IInv

(* Steps that change nothing that matters.                                 *)
LEMMA QuietSteps ==
  ASSUME IInv, \/ HReady \/ main \/ platform_ipm_callback \/ platform_init \/ receive_message
               \/ MngBlocks \/ RxDone \/ \E th \in Service : Sleeps(th) \/ Blocks(th)
  PROVE  IInv'
  <1> USE DEF IInv
  <1>1. CASE HReady
    <2>1. /\ mpc' # mpc => mpc' \notin {"init", "bound"} /\ (mpc' = "vdev" => mpc = "init")
          /\ UNCHANGED <<users, hst, rx_count, ring, mem, free, toHost, sem, pc, idx, ept, dest,
                         cs_msg,
                         slot, tx_buff, msg_cnt>>
      BY <1>1 DEF HReady, HostFrame, setting, hostVars, slotVars, threadVars
    <2>2. HostTypeOK'
      BY <1>1, <2>1 DEF HReady, HostFrame, setting, hostVars, slotVars, threadVars,
         TypeOK, HostTypeOK
    <2>3. SharedTypeOK'
      BY <1>1, <2>1 DEF HReady, HostFrame, setting, hostVars, slotVars, threadVars,
         TypeOK, SharedTypeOK
    <2>4. ThreadTypeOK'
      BY <1>1, <2>1 DEF HReady, HostFrame, setting, hostVars, slotVars, threadVars,
         TypeOK, ThreadTypeOK
    <2>5. ServiceTypeOK'
      BY <2>1 DEF TypeOK, ServiceTypeOK
    <2>6. TypeOK'
      BY <2>2, <2>3, <2>4, <2>5 DEF TypeOK
    <2> QED BY <2>1, <2>6, QuietStep
  <1>2. CASE main
    <2>1. /\ mpc' # mpc => mpc' \notin {"init", "bound"} /\ (mpc' = "vdev" => mpc = "init")
          /\ UNCHANGED <<users, hst, rx_count, ring, mem, free, toHost, sem, pc, idx, ept, dest,
                         cs_msg,
                         slot, tx_buff, msg_cnt>>
      BY <1>2 DEF main, setting, hostVars, slotVars, threadVars
    <2>2. HostTypeOK'
      BY <1>2, <2>1 DEF main, setting, hostVars, slotVars, threadVars, TypeOK,
         HostTypeOK
    <2>3. SharedTypeOK'
      BY <1>2, <2>1 DEF main, setting, hostVars, slotVars, threadVars, TypeOK,
         SharedTypeOK
    <2>4. ThreadTypeOK'
      BY <1>2, <2>1 DEF main, setting, hostVars, slotVars, threadVars, TypeOK,
         ThreadTypeOK
    <2>5. ServiceTypeOK'
      BY <2>1 DEF TypeOK, ServiceTypeOK
    <2>6. TypeOK'
      BY <2>2, <2>3, <2>4, <2>5 DEF TypeOK
    <2> QED BY <2>1, <2>6, QuietStep
  <1>3. CASE platform_ipm_callback
    <2>1. /\ mpc' # mpc => mpc' \notin {"init", "bound"} /\ (mpc' = "vdev" => mpc = "init")
          /\ UNCHANGED <<users, hst, rx_count, ring, mem, free, toHost, sem, pc, idx, ept, dest,
                         cs_msg,
                         slot, tx_buff, msg_cnt>>
      BY <1>3 DEF platform_ipm_callback, setting, hostVars, slotVars, threadVars
    <2>2. HostTypeOK'
      BY <1>3, <2>1 DEF platform_ipm_callback, setting, hostVars, slotVars, threadVars,
         TypeOK, HostTypeOK
    <2>3. SharedTypeOK'
      BY <1>3, <2>1 DEF platform_ipm_callback, setting, hostVars, slotVars, threadVars,
         TypeOK, SharedTypeOK
    <2>4. ThreadTypeOK'
      BY <1>3, <2>1 DEF platform_ipm_callback, setting, hostVars, slotVars, threadVars,
         TypeOK, ThreadTypeOK
    <2>5. ServiceTypeOK'
      BY <2>1 DEF TypeOK, ServiceTypeOK
    <2>6. TypeOK'
      BY <2>2, <2>3, <2>4, <2>5 DEF TypeOK
    <2> QED BY <2>1, <2>6, QuietStep
  <1>4. CASE platform_init
    <2>1. /\ mpc' # mpc => mpc' \notin {"init", "bound"} /\ (mpc' = "vdev" => mpc = "init")
          /\ UNCHANGED <<users, hst, rx_count, ring, mem, free, toHost, sem, pc, idx, ept, dest,
                         cs_msg,
                         slot, tx_buff, msg_cnt>>
      BY <1>4 DEF platform_init, cleanup_system, MngFrame, setting, hostVars, slotVars,
         threadVars
    <2>2. HostTypeOK'
      BY <1>4, <2>1 DEF platform_init, cleanup_system, MngFrame, setting, hostVars,
         slotVars, threadVars, TypeOK, HostTypeOK
    <2>3. SharedTypeOK'
      BY <1>4, <2>1 DEF platform_init, cleanup_system, MngFrame, setting, hostVars,
         slotVars, threadVars, TypeOK, SharedTypeOK
    <2>4. ThreadTypeOK'
      BY <1>4, <2>1 DEF platform_init, cleanup_system, MngFrame, setting, hostVars,
         slotVars, threadVars, TypeOK, ThreadTypeOK
    <2>5. ServiceTypeOK'
      BY <2>1 DEF TypeOK, ServiceTypeOK
    <2>6. TypeOK'
      BY <2>2, <2>3, <2>4, <2>5 DEF TypeOK
    <2> QED BY <2>1, <2>6, QuietStep
  <1>5. CASE receive_message
    <2>1. /\ mpc' # mpc => mpc' \notin {"init", "bound"} /\ (mpc' = "vdev" => mpc = "init")
          /\ UNCHANGED <<users, hst, rx_count, ring, mem, free, toHost, sem, pc, idx, ept, dest,
                         cs_msg,
                         slot, tx_buff, msg_cnt>>
      BY <1>5 DEF receive_message, MngFrame, setting, hostVars, slotVars, threadVars
    <2>2. HostTypeOK'
      BY <1>5, <2>1 DEF receive_message, MngFrame, setting, hostVars, slotVars,
         threadVars, TypeOK, HostTypeOK
    <2>3. SharedTypeOK'
      BY <1>5, <2>1 DEF receive_message, MngFrame, setting, hostVars, slotVars,
         threadVars, TypeOK, SharedTypeOK
    <2>4. ThreadTypeOK'
      BY <1>5, <2>1 DEF receive_message, MngFrame, setting, hostVars, slotVars,
         threadVars, TypeOK, ThreadTypeOK
    <2>5. ServiceTypeOK'
      BY <2>1 DEF TypeOK, ServiceTypeOK
    <2>6. TypeOK'
      BY <2>2, <2>3, <2>4, <2>5 DEF TypeOK
    <2> QED BY <2>1, <2>6, QuietStep
  <1>6. CASE MngBlocks
    <2>1. /\ mpc' # mpc => mpc' \notin {"init", "bound"} /\ (mpc' = "vdev" => mpc = "init")
          /\ UNCHANGED <<users, hst, rx_count, ring, mem, free, toHost, sem, pc, idx, ept, dest,
                         cs_msg,
                         slot, tx_buff, msg_cnt>>
      BY <1>6 DEF MngBlocks, MngFrame, setting, hostVars, slotVars, threadVars
    <2>2. HostTypeOK'
      BY <1>6, <2>1 DEF MngBlocks, MngFrame, setting, hostVars, slotVars, threadVars,
         TypeOK, HostTypeOK
    <2>3. SharedTypeOK'
      BY <1>6, <2>1 DEF MngBlocks, MngFrame, setting, hostVars, slotVars, threadVars,
         TypeOK, SharedTypeOK
    <2>4. ThreadTypeOK'
      BY <1>6, <2>1 DEF MngBlocks, MngFrame, setting, hostVars, slotVars, threadVars,
         TypeOK, ThreadTypeOK
    <2>5. ServiceTypeOK'
      BY <2>1 DEF TypeOK, ServiceTypeOK
    <2>6. TypeOK'
      BY <2>2, <2>3, <2>4, <2>5 DEF TypeOK
    <2> QED BY <2>1, <2>6, QuietStep
  <1>7. CASE RxDone
    <2>1. /\ mpc' # mpc => mpc' \notin {"init", "bound"} /\ (mpc' = "vdev" => mpc = "init")
          /\ UNCHANGED <<users, hst, rx_count, ring, mem, free, toHost, sem, pc, idx, ept, dest,
                         cs_msg,
                         slot, tx_buff, msg_cnt>>
      BY <1>7 DEF RxDone, MngFrame, setting, hostVars, slotVars, threadVars
    <2>2. HostTypeOK'
      BY <1>7, <2>1 DEF RxDone, MngFrame, setting, hostVars, slotVars, threadVars,
         TypeOK, HostTypeOK
    <2>3. SharedTypeOK'
      BY <1>7, <2>1 DEF RxDone, MngFrame, setting, hostVars, slotVars, threadVars,
         TypeOK, SharedTypeOK
    <2>4. ThreadTypeOK'
      BY <1>7, <2>1 DEF RxDone, MngFrame, setting, hostVars, slotVars, threadVars,
         TypeOK, ThreadTypeOK
    <2>5. ServiceTypeOK'
      BY <2>1 DEF TypeOK, ServiceTypeOK
    <2>6. TypeOK'
      BY <2>2, <2>3, <2>4, <2>5 DEF TypeOK
    <2> QED BY <2>1, <2>6, QuietStep
  <1>8. ASSUME NEW th \in Service, Sleeps(th) PROVE IInv'
    <2>1. /\ mpc' # mpc => mpc' \notin {"init", "bound"} /\ (mpc' = "vdev" => mpc = "init")
          /\ UNCHANGED <<users, hst, rx_count, ring, mem, free, toHost, sem, pc, idx, ept, dest,
                         cs_msg,
                         slot, tx_buff, msg_cnt>>
      BY <1>8 DEF Sleeps, ServFrame, setting, hostVars, slotVars, threadVars
    <2>2. HostTypeOK'
      BY <1>8, <2>1 DEF Sleeps, ServFrame, setting, hostVars, slotVars, threadVars,
         TypeOK, HostTypeOK
    <2>3. SharedTypeOK'
      BY <1>8, <2>1 DEF Sleeps, ServFrame, setting, hostVars, slotVars, threadVars,
         TypeOK, SharedTypeOK
    <2>4. ThreadTypeOK'
      BY <1>8, <2>1 DEF Sleeps, ServFrame, setting, hostVars, slotVars, threadVars,
         TypeOK, ThreadTypeOK
    <2>5. ServiceTypeOK'
      BY <2>1 DEF TypeOK, ServiceTypeOK
    <2>6. TypeOK'
      BY <2>2, <2>3, <2>4, <2>5 DEF TypeOK
    <2> QED BY <2>1, <2>6, QuietStep
  <1>9. ASSUME NEW th \in Service, Blocks(th) PROVE IInv'
    <2>1. /\ mpc' # mpc => mpc' \notin {"init", "bound"} /\ (mpc' = "vdev" => mpc = "init")
          /\ UNCHANGED <<users, hst, rx_count, ring, mem, free, toHost, sem, pc, idx, ept, dest,
                         cs_msg,
                         slot, tx_buff, msg_cnt>>
      BY <1>9 DEF Blocks, ServFrame, setting, hostVars, slotVars, threadVars
    <2>2. HostTypeOK'
      BY <1>9, <2>1 DEF Blocks, ServFrame, setting, hostVars, slotVars, threadVars,
         TypeOK, HostTypeOK
    <2>3. SharedTypeOK'
      BY <1>9, <2>1 DEF Blocks, ServFrame, setting, hostVars, slotVars, threadVars,
         TypeOK, SharedTypeOK
    <2>4. ThreadTypeOK'
      BY <1>9, <2>1 DEF Blocks, ServFrame, setting, hostVars, slotVars, threadVars,
         TypeOK, ThreadTypeOK
    <2>5. ServiceTypeOK'
      BY <2>1 DEF TypeOK, ServiceTypeOK
    <2>6. TypeOK'
      BY <2>2, <2>3, <2>4, <2>5 DEF TypeOK
    <2> QED BY <2>1, <2>6, QuietStep
  <1> QED BY <1>1, <1>2, <1>3, <1>4, <1>5, <1>6, <1>7, <1>8, <1>9

(* The host's driver.                                                      *)
LEMMA HostReceives ==
  ASSUME IInv, HReceive
  PROVE  IInv'
  <1>1. Head(toHost).kind \in {"create", "bound", "answer", "destroy"}
    BY Getting DEF HReceive
  <1> QED BY <1>1, AnswerArrives, AnnouncementArrives, BindingArrives, FarewellArrives

(* The device is created, or not.                                          *)
LEMMA VdevCreates ==
  ASSUME IInv, platform_create_rpmsg_vdev
  PROVE  IInv'
  <1> USE DEF platform_create_rpmsg_vdev, MngFrame
  <1>1. CASE /\ sem' = [th \in Service |-> 1] /\ mpc' = "loop" /\ rpdev' = TRUE
             /\ UNCHANGED <<ipm, cpu>>
    <2>1. /\ mpc = "vdev"
          /\ UNCHANGED <<setting, hostVars, ring, mem, free, toHost, irq, cpu, created, ipm,
                         data_sem, pc, idx,
                         ept, dest, slotVars, tx_buff, msg_cnt>>
      BY <1>1
    <2> QED BY <1>1, <2>1, VdevStep
  <1>2. CASE cleanup_system /\ UNCHANGED <<rpdev, sem>>
    <2> USE DEF cleanup_system, setting, hostVars, slotVars, threadVars, IInv
    <2>1. /\ mpc' = "ended" /\ ipm' = FALSE /\ cpu' = "idle"
          /\ UNCHANGED <<users, hst, rx_count, ring, mem, free, toHost, sem, pc, idx, ept, dest,
                         cs_msg,
                         slot, tx_buff, msg_cnt, faulty, driver_ok, greeted, uses, irq, rpdev,
                           data_sem>>
      BY <1>2
    <2>2. HostTypeOK' /\ SharedTypeOK'
      BY <2>1 DEF TypeOK, HostTypeOK, SharedTypeOK
    <2>3. ThreadTypeOK' /\ ServiceTypeOK'
      BY <2>1 DEF TypeOK, ThreadTypeOK, ServiceTypeOK
    <2>4. TypeOK'
      BY <2>2, <2>3 DEF TypeOK
    <2> QED BY <2>1, <2>4, QuietStep
  <1> QED BY <1>1, <1>2

(* A message of a user is dispatched.                                      *)
LEMMA Receives ==
  ASSUME IInv, Receive
  PROVE  IInv'
  <1> DEFINE b == Head(ring)
             e == mem[b].to
  <1>1. /\ ring # <<>> /\ mem[b].kind = "data" /\ mpc = "rx"
        /\ UNCHANGED <<setting, hostVars, toHost, irq, cpu, threadVars, data_sem, mpc, pc, idx,
                       ept, tx_buff,
                       msg_cnt>>
    BY DEF Receive, MngFrame, threadVars
  <1>2. CASE e \notin ept
    <2>1. Returned(b) /\ UNCHANGED <<dest, sem, slotVars>>
      BY <1>2 DEF Receive
    <2> HIDE DEF b
    <2> QED BY <1>1, <2>1, DropStep DEF b
  <1>3. CASE e \in ept
    <2>1. /\ dest' = [dest EXCEPT ![e] = IF @ = None THEN mem[b].from ELSE @]
          /\ \/ e = "cs" /\ rpmsg_recv_cs_callback(e, b)
             \/ e \in {"tty0", "tty1"} /\ rpmsg_recv_tty_callback(e, b)
             \/ e \in {"raw0", "raw1"} /\ rpmsg_recv_raw_callback(e, b)
      BY <1>3 DEF Receive
    <2>2. CASE e = "cs" /\ rpmsg_recv_cs_callback(e, b)
      BY <1>1, <2>1, <2>2, SampleStep
    <2>3. CASE e \in {"tty0", "tty1"} /\ rpmsg_recv_tty_callback(e, b)
      BY <1>1, <1>3, <2>1, <2>3, SlotStep DEF rpmsg_recv_tty_callback, Slots
    <2>4. CASE e \in {"raw0", "raw1"} /\ rpmsg_recv_raw_callback(e, b)
      BY <1>1, <1>3, <2>1, <2>4, SlotStep DEF rpmsg_recv_raw_callback, Slots
    <2> QED BY <2>1, <2>2, <2>3, <2>4
  <1> QED BY <1>2, <1>3

(* A message of the name service is dispatched.                            *)
LEMMA NameServices ==
  ASSUME IInv, NameService
  PROVE  IInv'
  <1> DEFINE b == Head(ring)
             u == mem[b].from
  <1>1. /\ ring # <<>> /\ mpc = "rx"
        /\ UNCHANGED <<setting, hostVars, irq, threadVars, data_sem, sem, pc, idx, slotVars,
                       tx_buff, msg_cnt>>
    BY DEF NameService, MngFrame, threadVars
  <1>2. CASE mem[b].kind = "create" /\ new_service_cb(u, b)
    <2>1. CASE "tty1" \in ept
      BY <1>1, <1>2, <2>1, DropStep DEF new_service_cb
    <2>2. CASE /\ "tty1" \notin ept /\ Send(Message("bound", u, "tty1")) /\ Returned(b)
               /\ UNCHANGED <<mpc, cpu>>
      BY <1>1, <1>2, <2>2, BindStep DEF new_service_cb
    <2>3. CASE /\ "tty1" \notin ept /\ mpc' = "bound" /\ cpu' = "idle"
               /\ UNCHANGED <<toHost, ring, free, mem>>
      BY <1>1, <1>2, <2>3, BindSleepStep DEF new_service_cb
    <2> QED BY <1>2, <2>1, <2>2, <2>3 DEF new_service_cb
  <1>3. CASE mem[b].kind = "destroy" /\ rpmsg_service_unbind(u, b)
    <2>1. CASE dest["tty1"] = u
      BY <1>1, <1>3, <2>1, UnbindStep DEF rpmsg_service_unbind
    <2>2. CASE dest["tty1"] # u
      BY <1>1, <1>3, <2>2, DropStep DEF rpmsg_service_unbind
    <2> QED BY <2>1, <2>2
  <1> QED BY <1>2, <1>3 DEF NameService

(* Every step keeps the invariant.                                         *)
LEMMA NextStep ==
  ASSUME IInv, Next
  PROVE  IInv'
  <1>1. CASE Host
    BY <1>1, QuietSteps, HostReceives, SendStep DEF Host, User
  <1>2. CASE Uses
    BY <1>2, CreateStep, ReleaseStep, SendStep DEF Uses
  <1>3. CASE Mng
    BY <1>3, QuietSteps, VdevCreates, Receives, NameServices, BoundSentStep DEF Mng
  <1>4. ASSUME NEW th \in Service, Runs(th) PROVE IInv'
    BY <1>4, QuietSteps, StartStep, AnnounceStep, TakeStep, ScanStep, AnswerStep,
       CsSendStep, CsDestroyStep
       DEF Runs
  <1> QED BY <1>1, <1>2, <1>3, <1>4, QuietSteps DEF Next, Remote

(* As does a step that changes nothing.                                    *)
LEMMA StutterStep ==
  ASSUME IInv, UNCHANGED vars
  PROVE  IInv'
  <1> USE DEF vars, setting, hostVars, slotVars, threadVars, IInv
  <1>1. HostTypeOK' /\ SharedTypeOK'
    BY DEF TypeOK, HostTypeOK, SharedTypeOK
  <1>2. ThreadTypeOK' /\ ServiceTypeOK'
    BY DEF TypeOK, ThreadTypeOK, ServiceTypeOK
  <1>3. TypeOK'
    BY <1>1, <1>2 DEF TypeOK
  <1> QED BY <1>3, QuietStep

(* The invariant holds at first.                                           *)
LEMMA InitIInv ==
  ASSUME Init
  PROVE  IInv
  <1> USE ServicesAssumption DEF Init
  <1>1. /\ OnceEach(ring) /\ OnceEach(toHost)
        /\ (\A x : x \notin Members(ring)) /\ \A x : x \notin Members(toHost)
    BY DEF Members, OnceEach
  <1>2. /\ \A u \in User : hst[u] = "off"
        /\ \A e \in Slots : slot[e] = 0
        /\ \A th \in Service : pc[th] = "start" /\ sem[th] = 0
        /\ \A e \in Endpoint : dest[e] = None
    OBVIOUS
  <1>3. /\ Devices \subseteq User /\ "cs" \in User /\ {"cs", "tty", "raw"} \subseteq Service
        /\ {"cs", "tty0", "tty1"} \subseteq Endpoint /\ "tty0" \in Slots
    BY DEF Devices, User, Service, Endpoint, Slots
  <1>4. HostTypeOK
    <2>1. driver_ok \in BOOLEAN /\ greeted \in BOOLEAN
      BY Zenon
    <2>2. hst \in [User -> {"off", "announced", "idle", "wait", "done", "gone"}]
      OBVIOUS
    <2>3. users \in Users /\ faulty \in Faults
      OBVIOUS
    <2>4. uses \in 0 .. MaxUses /\ rx_count \in 0 .. MSGS
      OBVIOUS
    <2> QED BY <2>1, <2>2, <2>3, <2>4, Zenon DEF HostTypeOK
  <1>5. SharedTypeOK
    <2>1. NoMessage \in Mail
      BY DEF NoMessage, Message, Mail
    <2>2. mem \in [1 .. NBuf -> Mail] /\ free \subseteq 1 .. NBuf
      BY <2>1
    <2>3. ring \in Seq(1 .. NBuf) /\ toHost \in Seq(Reply) /\ Len(toHost) <= NTx
      OBVIOUS
    <2>4. irq \in BOOLEAN
      BY Zenon
    <2> QED BY <2>2, <2>3, <2>4, Zenon DEF SharedTypeOK
  <1>6. ThreadTypeOK
    <2>1. ipm \in BOOLEAN /\ rpdev \in BOOLEAN
      BY Zenon
    <2>2. cpu \in Service \cup {"idle", "mng"}
      OBVIOUS
    <2>3. data_sem \in 0 .. 1 /\ sem \in [Service -> 0 .. 1] /\ idx \in [Service -> 0 .. 1]
      OBVIOUS
    <2>4. /\ mpc \in {"init", "vdev", "loop", "rx", "bound", "ended"}
          /\ pc \in [Service -> {"start", "announce", "loop", "scan", "send", "destroy", "ended"}]
      OBVIOUS
    <2> QED BY <2>1, <2>2, <2>3, <2>4, Zenon DEF ThreadTypeOK
  <1>7. ServiceTypeOK
    <2>1. NoMessage \in Mail
      BY DEF NoMessage, Message, Mail
    <2> QED BY <2>1 DEF ServiceTypeOK
  <1>8. Places /\ Contents /\ Alone /\ Answering
    BY <1>1, <1>2, <1>3 DEF Places, Contents, Alone, Answering
  <1>9. Answers /\ Sample /\ Counts /\ Farewell
    BY <1>1, <1>2, <1>3 DEF Answers, Sample, Copied, Counts, Farewell
  <1>10. Greetings /\ Known
    BY <1>1, <1>2, <1>3, Audiences DEF Greetings, Known
  <1>11. Bindings /\ Order
    BY <1>1, <1>2, <1>3 DEF Bindings, Order
  <1>12. Kept
    BY DEF Kept
  <1> QED BY <1>4, <1>5, <1>6, <1>7, <1>8, <1>9, <1>10, <1>11, <1>12 DEF IInv, TypeOK

(* The inductive invariant holds in every reachable state.                 *)
THEOREM Invariance == Safety => []IInv
  <1>1. Init => IInv
    BY InitIInv
  <1>2. IInv /\ [Next]_vars => IInv'
    BY NextStep, StutterStep
  <1> QED BY <1>1, <1>2, PTL DEF Safety

(* Every variable keeps its type; in particular no counter of the client   *)
(* sample runs past its last message.                                      *)
THEOREM TypeCorrect == Safety => []TypeOK
  <1>1. IInv => TypeOK
    BY DEF IInv
  <1> QED BY <1>1, Invariance, PTL

(* A slot names a buffer that the remote holds, with a message for this    *)
(* endpoint, whatever arrives while a service sleeps.                      *)
THEOREM SlotsAreHeld == Safety => []SlotsHeld
  <1>1. ASSUME IInv PROVE SlotsHeld
    <2>1. Ring = Members(ring)
      BY DEF Ring, Members
    <2>2. Members(ring) \cap free = {}
      BY <1>1 DEF IInv, Places
    <2>3. ASSUME NEW e \in Slots, slot[e] # 0
          PROVE  /\ slot[e] \notin free \cup Members(ring)
                 /\ mem[slot[e]].kind = "data" /\ mem[slot[e]].to = e
                 /\ \A f \in Slots \ {e} : slot[f] # slot[e]
      BY <1>1, <2>3 DEF IInv, Places, Contents
    <2> QED BY <2>1, <2>2, <2>3 DEF SlotsHeld
  <1> QED BY <1>1, Invariance, PTL

(* As long as one user at a time writes to each endpoint, every receive    *)
(* buffer is free, in the ring or in a slot.                               *)
THEOREM NoBufferIsLost == Safety => []NoBufferLost
  <1>1. ASSUME IInv PROVE NoBufferLost
    <2>1. Ring = Members(ring)
      BY DEF Ring, Members
    <2>2. ASSUME ~Shared, NEW b \in 1 .. NBuf
          PROVE  b \in free \cup Members(ring) \cup {slot[e] : e \in Slots}
      BY <1>1, <2>2 DEF IInv, Kept
    <2> QED BY <2>1, <2>2 DEF NoBufferLost
  <1> QED BY <1>1, Invariance, PTL

(* What comes back on a channel was sent on it, by a user that waits for   *)
(* it, and a bound device keeps its endpoint.                              *)
THEOREM AnswersDoMatch == Safety => []AnswersMatch
  <1>1. ASSUME IInv PROVE AnswersMatch
    <2>1. \A k \in 1 .. Len(toHost) : toHost[k] \in Members(toHost)
      BY DEF Members
    <2>2. \A u \in Devices : hst[u] \in {"idle", "wait"} => "tty1" \in ept /\ dest["tty1"] = u
      BY <1>1 DEF IInv, Bindings, Devices, None
    <2> QED BY <1>1, <2>1, <2>2 DEF IInv, Answers, AnswersMatch
  <1> QED BY <1>1, Invariance, PTL
=============================================================================
