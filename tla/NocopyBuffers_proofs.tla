------------------------ MODULE NocopyBuffers_proofs ------------------------
(***************************************************************************)
(* The zero-copy echo, proved for any number of buffers, messages and      *)
(* transmit buffers taken: the four safety invariants of NocopyBuffers,    *)
(* and that the two programs never wait for each other (at the end).       *)
(* None is inductive.  What is needed says that                            *)
(*                                                                         *)
(*   - the rings and the server's list name exactly the buffers that       *)
(*     place puts there, each once (Rings, Lists);                         *)
(*   - at most one message is on its way, the client's latest, and the     *)
(*     slot rcv_msg is empty until it has come back (Flow);                *)
(*   - messages are checked one after the other (Rounds);                  *)
(*   - a transmit buffer is taken only while a program has it in hand, or  *)
(*     in the array of the test (ClientTakes, ServerTakes);                *)
(*   - where no call fails, the request to stop is the client's last       *)
(*     message (Stops).                                                    *)
(*                                                                         *)
(* One assumption: DiscardWorks, of NocopyBuffers; and BuffersSuffice for  *)
(* what is proved at the end.                                              *)
(***************************************************************************)
EXTENDS NocopyBuffers, FiniteSetTheorems, TLAPS

(* No pointer is in a list twice.                                          *)
OnceEach(s) == \A k, l \in 1 .. Len(s) : s[k] = s[l] /\ s[k] # None => k = l

(* The rings have what is in a ring.                                       *)
Rings ==
    /\ \A b \in CBuf : place[b] = "ring" <=> b \in Members(toS)
    /\ \A b \in SBuf : place[b] = "ring" <=> b \in Members(toC)
    /\ OnceEach(toS) /\ OnceEach(toC)

(* The server's list has what the server holds, and a head that is         *)
(* released already while a transmit buffer is tried out.                  *)
Released == spc \in {"discard", "giveback"}
Lists ==
    /\ \A b \in CBuf : place[b] = "held" <=>
           b \in Members(rpmsg_list) /\ ~(Released /\ b = Head(rpmsg_list))
    /\ OnceEach(rpmsg_list)
    /\ spc \in {"release", "discard", "giveback"} => rpmsg_list # <<>>
    /\ cPoll # "no" => cpc \in {"ready", "await"}
    /\ sPoll # "no" => spc = "loop"

(* A message on its way: sent, in the server's list and not answered yet,  *)
(* or answered.                                                            *)
Pending(b) ==
    \/ place[b] = "ring" /\ mem[b] < N
    \/ b \in CBuf /\ place[b] = "held" /\ ~(spc = "release" /\ b = Head(rpmsg_list))

Nothing == \A b \in Buffers : ~Pending(b)

(* There is one at most, with the number of the client's round, and none   *)
(* while the client has an answer or has nothing sent.  An answer stays    *)
(* unchecked where the server has gone after it.                           *)
Flow ==
    /\ \A a, b \in Buffers : Pending(a) /\ Pending(b) => a = b
    /\ \A b \in Buffers : Pending(b) => mem[b] = i
    /\ cpc \in {"create", "ready", "gettx", "givetx", "leave", "get", "send", "check"} => Nothing
    /\ cpc = "send" => mem[i_payload] = i
    /\ rnum = i \/ (rnum = i + 1 /\ Nothing)
    /\ rnum = i + 1 => \/ cpc \in {"await", "check"}
                       \/ cpc \in {"finish", "ended"} /\ faults # {}
    /\ cpc = "check" => rnum = i + 1
    /\ rnum = i + 1 => rcv_msg \in SBuf /\ place[rcv_msg] = "held" /\ mem[rcv_msg] = i
    /\ \A b \in SBuf : place[b] = "held" => rnum = i + 1 /\ b = rcv_msg

(* The client's rounds.  Its endpoint is bound in them, until the server   *)
(* has gone.                                                               *)
Rounds ==
    /\ cpc \in {"create", "ready", "gettx", "givetx", "leave"} => i = 0
    /\ cpc \in {"get", "send", "discard", "giveback", "await", "check"} => i < N
    /\ cpc \in {"gettx", "givetx", "leave", "get", "send", "discard", "giveback", "check"} => cEpt = "bound"
    /\ cpc = "await" => cEpt = "bound" \/ (cEpt = "none" /\ spc = "ended" /\ faults # {})
    /\ cpc \notin {"finish", "ended"} => err_cnt = 0 /\ verified = {n \in 0 .. N - 1 : n < i}
    /\ cpc \in {"gettx", "givetx"} => variant = "test"
    /\ ReportHonest

(* The transmit buffers the client has taken.                              *)
ClientTakes ==
    /\ \A b \in CBuf : place[b] = "taken" =>
           /\ cpc \notin {"create", "ready"}
           /\ cpc \in {"gettx", "givetx"} => b \in Members(cList)
           /\ cpc \in {"get", "discard", "await", "check"} => b = LostOf(cList)
           /\ cpc \in {"send", "giveback"} => b = LostOf(cList) \/ b = i_payload
    /\ \A b \in CBuf : b \in Members(cList) => place[b] = "taken"
    /\ cpc \in {"send", "giveback"} =>
           i_payload \in CBuf /\ place[i_payload] = "taken" /\ i_payload \notin Members(cList)
    /\ cpc \in {"create", "ready"} => cList = <<>>
    /\ cpc = "gettx" => Len(cList) < MaxTx
    /\ cpc = "givetx" => Len(cList) >= 1
    /\ cpc \in {"get", "send", "discard", "giveback", "await", "check"} =>
           Len(cList) = IF variant = "test" THEN 1 ELSE 0
    /\ OnceEach(cList)

(* The transmit buffers the server has taken.                              *)
ServerTakes ==
    /\ \A b \in SBuf : place[b] = "taken" =>
           /\ spc # "create"
           /\ spc \in {"gettx", "givetx"} => b \in Members(sList)
           /\ spc \in {"loop", "echo", "release", "discard", "destroy"} => b = LostOf(sList)
           /\ spc = "giveback" => b = LostOf(sList) \/ b = tx_msg
    /\ \A b \in SBuf : b \in Members(sList) => place[b] = "taken"
    /\ spc = "giveback" => tx_msg \in SBuf /\ place[tx_msg] = "taken" /\ tx_msg \notin Members(sList)
    /\ spc = "create" => sList = <<>>
    /\ spc \in {"gettx", "givetx", "discard", "giveback"} => variant = "test"
    /\ spc = "gettx" => Len(sList) < MaxTx
    /\ spc = "givetx" => Len(sList) >= 1
    /\ spc \in {"loop", "echo", "release", "discard", "giveback", "destroy"} =>
           Len(sList) = IF variant = "test" THEN 1 ELSE 0
    /\ OnceEach(sList)

(* Who stops first.  A farewell of the server is the last thing it does.   *)
Stops ==
    /\ "discard" \notin faults
    /\ \A b \in SBuf : place[b] = "ring" /\ mem[b] = NsDestroy => spc = "ended"
    /\ spc = "destroy" => shutdown_req
    /\ faults = {} => \A b \in CBuf : place[b] = "ring" /\ mem[b] = NsDestroy => cpc = "ended"
    /\ faults = {} /\ shutdown_req => cpc = "ended"
    /\ faults = {} /\ cpc \in {"finish", "ended"} => Nothing
    /\ faults = {} => None \notin Members(sList) /\ spc # "leave"
    /\ ServerStopsLast

IInv == TypeOK /\ Rings /\ Lists /\ Flow /\ Rounds /\ ClientTakes /\ ServerTakes /\ Stops
-----------------------------------------------------------------------------
(* The members of a list, and that they are there once, when one is added, *)
(* the first is taken or the last is.                                      *)
LEMMA Adding ==
  ASSUME NEW S, NEW s \in Seq(S), NEW e \in S
  PROVE  /\ Append(s, e) \in Seq(S) /\ Len(Append(s, e)) = Len(s) + 1
         /\ \A x : x \in Members(Append(s, e)) <=> x \in Members(s) \/ x = e
         /\ OnceEach(s) /\ (e \in Members(s) => e = None) => OnceEach(Append(s, e))
  <1> DEFINE t == Append(s, e)
  <1>1. /\ t \in Seq(S) /\ Len(s) \in Nat /\ Len(t) = Len(s) + 1
        /\ \A k \in 1 .. Len(s) : t[k] = s[k]
        /\ t[Len(s) + 1] = e
    OBVIOUS
  <1> HIDE DEF t
  <1>2. \A x : x \in Members(t) <=> x \in Members(s) \/ x = e
    BY <1>1 DEF Members
  <1>3. OnceEach(s) /\ (e \in Members(s) => e = None) => OnceEach(t)
    BY <1>1 DEF Members, OnceEach
  <1> QED BY <1>1, <1>2, <1>3 DEF t

(* The first is taken.                                                     *)
LEMMA TakingFirst ==
  ASSUME NEW S, NEW s \in Seq(S), s # <<>>, OnceEach(s)
  PROVE  /\ Tail(s) \in Seq(S) /\ Len(s) \in Nat /\ Len(Tail(s)) \in Nat
         /\ Len(s) = Len(Tail(s)) + 1
         /\ Head(s) \in S /\ Head(s) \in Members(s) /\ Head(s) = s[1]
         /\ Head(s) # None => \A x : x \in Members(Tail(s)) <=> x \in Members(s) /\ x # Head(s)
         /\ OnceEach(Tail(s))
  <1> DEFINE t == Tail(s)
             h == Head(s)
  <1>1. /\ t \in Seq(S) /\ Len(s) \in Nat /\ Len(t) \in Nat /\ Len(s) = Len(t) + 1
        /\ \A k \in 1 .. Len(t) : t[k] = s[k + 1]
    OBVIOUS
  <1>2. h = s[1] /\ h \in S
    OBVIOUS
  <1> HIDE DEF t, h
  <1>3. h \in Members(s)
    BY <1>1, <1>2 DEF Members
  <1>4. OnceEach(t)
    <2> SUFFICES ASSUME NEW k \in 1 .. Len(t), NEW l \in 1 .. Len(t), t[k] = t[l], t[k] # None
                 PROVE  k = l
      BY DEF OnceEach
    <2>1. /\ k + 1 \in 1 .. Len(s) /\ l + 1 \in 1 .. Len(s) /\ s[k + 1] = s[l + 1]
          /\ s[k + 1] # None
      BY <1>1
    <2>2. k + 1 = l + 1
      BY <2>1 DEF OnceEach
    <2> QED BY <2>2
  <1>5. ASSUME h # None, NEW x
        PROVE  x \in Members(t) <=> x \in Members(s) /\ x # h
    <2>1. ASSUME x \in Members(t) PROVE x \in Members(s) /\ x # h
      <3>1. PICK k \in 1 .. Len(t) : t[k] = x
        BY <2>1 DEF Members
      <3>2. k + 1 \in 1 .. Len(s) /\ 1 \in 1 .. Len(s) /\ s[k + 1] = x /\ k + 1 # 1
        BY <1>1, <3>1
      <3>3. x # h
        BY <1>2, <1>5, <3>2 DEF OnceEach
      <3> QED BY <3>2, <3>3 DEF Members
    <2>2. ASSUME x \in Members(s), x # h PROVE x \in Members(t)
      <3>1. PICK k \in 1 .. Len(s) : s[k] = x
        BY <2>2 DEF Members
      <3>2. k # 1
        BY <1>2, <2>2, <3>1
      <3>3. k - 1 \in 1 .. Len(t) /\ (k - 1) + 1 = k
        BY <1>1, <3>2
      <3>4. t[k - 1] = x
        BY <1>1, <3>1, <3>3
      <3> QED BY <3>3, <3>4 DEF Members
    <2> QED BY <2>1, <2>2
  <1> QED BY <1>1, <1>2, <1>3, <1>4, <1>5 DEF t, h

(* The last is taken.                                                      *)
LEMMA TakingLast ==
  ASSUME NEW S, NEW s \in Seq(S), Len(s) > 1, OnceEach(s), s[Len(s)] # None
  PROVE  LET t == SubSeq(s, 1, Len(s) - 1)
         IN /\ t \in Seq(S) /\ Len(t) = Len(s) - 1 /\ Len(s) \in Nat
            /\ s[Len(s)] \in S /\ s[Len(s)] \in Members(s)
            /\ \A x : x \in Members(t) <=> x \in Members(s) /\ x # s[Len(s)]
            /\ OnceEach(t)
  <1> DEFINE t == SubSeq(s, 1, Len(s) - 1)
             n == Len(s)
  <1>1. n \in Nat /\ s[n] \in S
    OBVIOUS
  <1>2. t \in Seq(S) /\ Len(t) = n - 1 /\ \A k \in 1 .. n - 1 : t[k] = s[k]
    <2>1. \A k \in 1 .. n - 1 : s[k] \in S
      OBVIOUS
    <2> QED BY <1>1, <2>1
  <1> HIDE DEF t
  <1>3. s[n] \in Members(s)
    BY <1>1 DEF Members
  <1>4. OnceEach(t)
    BY <1>1, <1>2 DEF OnceEach
  <1>5. \A x : x \in Members(t) <=> x \in Members(s) /\ x # s[n]
    <2>1. ASSUME NEW x, x \in Members(t) PROVE x \in Members(s) /\ x # s[n]
      <3>1. PICK k \in 1 .. n - 1 : s[k] = x
        BY <1>2, <2>1 DEF Members
      <3> QED BY <1>1, <3>1 DEF Members, OnceEach
    <2>2. ASSUME NEW x, x \in Members(s), x # s[n] PROVE x \in Members(t)
      <3>1. PICK k \in 1 .. n : s[k] = x
        BY <2>2 DEF Members
      <3>2. k \in 1 .. n - 1 /\ t[k] = x
        BY <1>1, <1>2, <2>2, <3>1
      <3> QED BY <1>2, <3>2 DEF Members
    <2> QED BY <2>1, <2>2
  <1> QED BY <1>1, <1>2, <1>3, <1>4, <1>5 DEF t

(* A list without members is empty, and one of length one has its first.   *)
LEMMA ShortLists ==
  ASSUME NEW S, NEW s \in Seq(S)
  PROVE  /\ Len(s) \in Nat
         /\ (\A x \in S : x \notin Members(s)) => s = <<>>
         /\ s = <<>> => OnceEach(s) /\ Len(s) = 0 /\ \A x : x \notin Members(s)
         /\ Len(s) = 1 => s[1] \in S /\ \A x : x \in Members(s) <=> x = s[1]
         /\ Len(s) = 0 => s = <<>>
         /\ \A x : x \in Members(s) => x \in S
  <1>1. Len(s) \in Nat /\ (Len(s) = 0 => s = <<>>) /\ \A k \in 1 .. Len(s) : s[k] \in S
    OBVIOUS
  <1>2. (\A x \in S : x \notin Members(s)) => s = <<>>
    <2> SUFFICES ASSUME Len(s) # 0 PROVE \E x \in S : x \in Members(s)
      BY <1>1
    <2>1. 1 \in 1 .. Len(s)
      BY <1>1
    <2> QED BY <1>1, <2>1 DEF Members
  <1>3. s = <<>> => OnceEach(s) /\ Len(s) = 0 /\ \A x : x \notin Members(s)
    BY DEF OnceEach, Members
  <1>4. Len(s) = 1 => s[1] \in S /\ \A x : x \in Members(s) <=> x = s[1]
    BY <1>1 DEF Members
  <1>5. \A x : x \in Members(s) => x \in S
    BY <1>1 DEF Members
  <1> QED BY <1>1, <1>2, <1>3, <1>4, <1>5
-----------------------------------------------------------------------------
(* What a step does to the rings and lists.                                *)
LEMMA ServerSent ==
  ASSUME IInv, NEW b \in CBuf, place[b] # "ring", toS' = Append(toS, b)
  PROVE  /\ toS' \in Seq(CBuf) /\ OnceEach(toS')
         /\ \A x : x \in Members(toS') <=> x \in Members(toS) \/ x = b
  <1>1. toS \in Seq(CBuf) /\ OnceEach(toS) /\ b \notin Members(toS)
    BY DEF IInv, TypeOK, RingTypeOK, ClientTypeOK, ServerTypeOK, Rings
  <1> QED BY <1>1, Adding

(* A message to the client.                                                *)
LEMMA ClientSent ==
  ASSUME IInv, NEW b \in SBuf, place[b] # "ring", toC' = Append(toC, b)
  PROVE  /\ toC' \in Seq(SBuf) /\ OnceEach(toC')
         /\ \A x : x \in Members(toC') <=> x \in Members(toC) \/ x = b
  <1>1. toC \in Seq(SBuf) /\ OnceEach(toC) /\ b \notin Members(toC)
    BY DEF IInv, TypeOK, RingTypeOK, ClientTypeOK, ServerTypeOK, Rings
  <1> QED BY <1>1, Adding

(* A message taken out of its ring, by the server and by the client.       *)
LEMMA ServerTook ==
  ASSUME IInv, NEW b \in CBuf, toS # <<>>, b = Head(toS), toS' = Tail(toS)
  PROVE  /\ toS' \in Seq(CBuf) /\ OnceEach(toS') /\ place[b] = "ring"
         /\ \A x : x \in Members(toS') <=> x \in Members(toS) /\ x # b
  <1>1. toS \in Seq(CBuf) /\ OnceEach(toS) /\ b # None
    BY NocopyAssumption DEF IInv, TypeOK, RingTypeOK, ClientTypeOK, ServerTypeOK, Rings
  <1>2. /\ toS' \in Seq(CBuf) /\ OnceEach(toS') /\ b \in Members(toS)
        /\ \A x : x \in Members(toS') <=> x \in Members(toS) /\ x # b
    BY <1>1, TakingFirst
  <1> QED BY <1>2 DEF IInv, Rings

(* The client's side of it.                                                *)
LEMMA ClientTook ==
  ASSUME IInv, NEW b \in SBuf, toC # <<>>, b = Head(toC), toC' = Tail(toC)
  PROVE  /\ toC' \in Seq(SBuf) /\ OnceEach(toC') /\ place[b] = "ring"
         /\ \A x : x \in Members(toC') <=> x \in Members(toC) /\ x # b
  <1>1. toC \in Seq(SBuf) /\ OnceEach(toC) /\ b # None
    BY NocopyAssumption DEF IInv, TypeOK, RingTypeOK, ClientTypeOK, ServerTypeOK, Rings
  <1>2. /\ toC' \in Seq(SBuf) /\ OnceEach(toC') /\ b \in Members(toC)
        /\ \A x : x \in Members(toC') <=> x \in Members(toC) /\ x # b
    BY <1>1, TakingFirst
  <1> QED BY <1>2 DEF IInv, Rings

(* The server's list: a buffer is added that it did not hold, its head is  *)
(* held unless it was released, and is taken off.                          *)
LEMMA ListGrew ==
  ASSUME IInv, NEW b \in CBuf, place[b] = "ring", spc = "loop",
         rpmsg_list' = Append(rpmsg_list, b)
  PROVE  /\ rpmsg_list' \in Seq(CBuf) /\ OnceEach(rpmsg_list') /\ rpmsg_list' # <<>>
         /\ \A x : x \in Members(rpmsg_list') <=> x \in Members(rpmsg_list) \/ x = b
  <1>1. rpmsg_list \in Seq(CBuf) /\ OnceEach(rpmsg_list) /\ b \notin Members(rpmsg_list)
    BY DEF IInv, TypeOK, RingTypeOK, ClientTypeOK, ServerTypeOK, Lists, Released
  <1>2. /\ rpmsg_list' \in Seq(CBuf) /\ OnceEach(rpmsg_list')
        /\ \A x : x \in Members(rpmsg_list') <=> x \in Members(rpmsg_list) \/ x = b
    BY <1>1, Adding
  <1>3. rpmsg_list' # <<>>
    BY <1>2, ShortLists
  <1> QED BY <1>2, <1>3

(* The head.                                                               *)
LEMMA ListHead ==
  ASSUME IInv, rpmsg_list # <<>>
  PROVE  /\ Head(rpmsg_list) \in CBuf /\ Head(rpmsg_list) \in Members(rpmsg_list)
         /\ ~Released => place[Head(rpmsg_list)] = "held"
  <1>1. rpmsg_list \in Seq(CBuf) /\ OnceEach(rpmsg_list)
    BY DEF IInv, TypeOK, RingTypeOK, ClientTypeOK, ServerTypeOK, Lists
  <1>2. Head(rpmsg_list) \in CBuf /\ Head(rpmsg_list) \in Members(rpmsg_list)
    BY <1>1, TakingFirst
  <1> QED BY <1>2 DEF IInv, Lists

(* The rest.                                                               *)
LEMMA ListShrank ==
  ASSUME IInv, rpmsg_list # <<>>, rpmsg_list' = Tail(rpmsg_list)
  PROVE  /\ rpmsg_list' \in Seq(CBuf) /\ OnceEach(rpmsg_list')
         /\ \A x : x \in Members(rpmsg_list') <=> x \in Members(rpmsg_list) /\ x # Head(rpmsg_list)
  <1>1. rpmsg_list \in Seq(CBuf) /\ OnceEach(rpmsg_list)
    BY DEF IInv, TypeOK, RingTypeOK, ClientTypeOK, ServerTypeOK, Lists
  <1>2. Head(rpmsg_list) # None
    BY ListHead, NocopyAssumption
  <1> QED BY <1>1, <1>2, TakingFirst

(* The client's array of transmit buffers.                               *)
LEMMA ClientListed ==
  ASSUME IInv, NEW e \in CBuf \cup {None}, e \in CBuf => place[e] = "free", cList' = Append(cList, e)
  PROVE  /\ cList' \in Seq(CBuf \cup {None}) /\ Len(cList') = Len(cList) + 1 /\ OnceEach(cList')
         /\ \A x : x \in Members(cList') <=> x \in Members(cList) \/ x = e
  <1>1. cList \in Seq(CBuf \cup {None}) /\ OnceEach(cList) /\ (e \in Members(cList) => e = None)
    BY DEF IInv, TypeOK, RingTypeOK, ClientTypeOK, ServerTypeOK, ClientTakes
  <1> QED BY <1>1, Adding

(* The lost buffer is taken, so that the library never hands it out.       *)
LEMMA ClientLost ==
  ASSUME IInv, NEW b \in CBuf, place[b] = "free"
  PROVE  b \notin Members(cList) /\ b # LostOf(cList)
  <1>1. b \notin Members(cList) /\ cList \in Seq(CBuf \cup {None}) /\ b # None
    BY NocopyAssumption DEF IInv, TypeOK, RingTypeOK, ClientTypeOK, ServerTypeOK,
       ClientTakes
  <1> QED BY <1>1, ShortLists DEF LostOf

(* The server's array of transmit buffers.                               *)
LEMMA ServerListed ==
  ASSUME IInv, NEW e \in SBuf \cup {None}, e \in SBuf => place[e] = "free", sList' = Append(sList, e)
  PROVE  /\ sList' \in Seq(SBuf \cup {None}) /\ Len(sList') = Len(sList) + 1 /\ OnceEach(sList')
         /\ \A x : x \in Members(sList') <=> x \in Members(sList) \/ x = e
  <1>1. sList \in Seq(SBuf \cup {None}) /\ OnceEach(sList) /\ (e \in Members(sList) => e = None)
    BY DEF IInv, TypeOK, RingTypeOK, ClientTypeOK, ServerTypeOK, ServerTakes
  <1> QED BY <1>1, Adding

(* The lost buffer is taken, so that the library never hands it out.       *)
LEMMA ServerLost ==
  ASSUME IInv, NEW b \in SBuf, place[b] = "free"
  PROVE  b \notin Members(sList) /\ b # LostOf(sList)
  <1>1. b \notin Members(sList) /\ sList \in Seq(SBuf \cup {None}) /\ b # None
    BY NocopyAssumption DEF IInv, TypeOK, RingTypeOK, ClientTypeOK, ServerTypeOK,
       ServerTakes
  <1> QED BY <1>1, ShortLists DEF LostOf

(* The client gives its last buffer back, the server its first.            *)
LEMMA ClientUnlisted ==
  ASSUME IInv, Len(cList) > 1, cList[Len(cList)] # None, cList' = SubSeq(cList, 1, Len(cList) - 1)
  PROVE  /\ cList' \in Seq(CBuf \cup {None}) /\ Len(cList') = Len(cList) - 1 /\ OnceEach(cList')
         /\ cList[Len(cList)] \in CBuf /\ place[cList[Len(cList)]] = "taken"
         /\ \A x : x \in Members(cList') <=> x \in Members(cList) /\ x # cList[Len(cList)]
  <1>1. cList \in Seq(CBuf \cup {None}) /\ OnceEach(cList)
    BY DEF IInv, TypeOK, RingTypeOK, ClientTypeOK, ServerTypeOK, ClientTakes
  <1>2. /\ cList' \in Seq(CBuf \cup {None}) /\ Len(cList') = Len(cList) - 1 /\ OnceEach(cList')
        /\ cList[Len(cList)] \in CBuf \cup {None} /\ cList[Len(cList)] \in Members(cList)
        /\ \A x : x \in Members(cList') <=> x \in Members(cList) /\ x # cList[Len(cList)]
    BY <1>1, TakingLast
  <1> QED BY <1>2 DEF IInv, ClientTakes

(* The server's first.                                                     *)
LEMMA ServerHead ==
  ASSUME IInv, Len(sList) > 1
  PROVE  /\ sList # <<>> /\ Head(sList) \in SBuf \cup {None} /\ Head(sList) \in Members(sList)
         /\ Head(sList) # None => place[Head(sList)] = "taken"
  <1>1. sList \in Seq(SBuf \cup {None}) /\ OnceEach(sList)
    BY DEF IInv, TypeOK, RingTypeOK, ClientTypeOK, ServerTypeOK, ServerTakes
  <1>2. sList # <<>>
    BY <1>1, ShortLists
  <1>3. Head(sList) \in SBuf \cup {None} /\ Head(sList) \in Members(sList)
    BY <1>1, <1>2, TakingFirst
  <1> QED BY <1>2, <1>3 DEF IInv, ServerTakes

(* And the rest.                                                           *)
LEMMA ServerUnlisted ==
  ASSUME IInv, Len(sList) > 1, Head(sList) # None, sList' = Tail(sList)
  PROVE  /\ sList' \in Seq(SBuf \cup {None}) /\ Len(sList') = Len(sList) - 1 /\ OnceEach(sList')
         /\ Head(sList) \in SBuf /\ place[Head(sList)] = "taken"
         /\ \A x : x \in Members(sList') <=> x \in Members(sList) /\ x # Head(sList)
  <1>1. sList \in Seq(SBuf \cup {None}) /\ OnceEach(sList)
    BY DEF IInv, TypeOK, RingTypeOK, ClientTypeOK, ServerTypeOK, ServerTakes
  <1>2. /\ sList' \in Seq(SBuf \cup {None}) /\ OnceEach(sList')
        /\ Len(sList) \in Nat /\ Len(sList') \in Nat /\ Len(sList) = Len(sList') + 1
        /\ \A x : x \in Members(sList') <=> x \in Members(sList) /\ x # Head(sList)
    BY <1>1, ServerHead, TakingFirst
  <1>3. Len(sList') = Len(sList) - 1
    BY <1>2
  <1> QED BY <1>2, <1>3, ServerHead

(* A failing call that ends the client's loop: the test counts it.         *)
LEMMA GivingUp ==
  ASSUME IInv, cpc \in {"get", "send", "discard", "giveback"}, faults # {}, GiveUp,
         UNCHANGED <<variant, faults, spc, cEpt, i, verified>>
  PROVE  Rounds'
  <1>1. cpc' = "finish" /\ err_cnt' = IF variant = "test" THEN 1 ELSE 0
    BY DEF GiveUp, Goto, IInv, Rounds
  <1>2. variant \in {"example", "test"}
    BY NocopyAssumption DEF IInv, TypeOK, RingTypeOK
  <1>3. verified = 0 .. i - 1
    <2>1. verified = {n \in 0 .. N - 1 : n < i} /\ i \in 0 .. N /\ N \in Nat
      BY NocopyAssumption DEF IInv, Rounds, TypeOK, ClientTypeOK
    <2> QED BY <2>1
  <1> QED BY <1>1, <1>2, <1>3 DEF Rounds, ReportHonest

-----------------------------------------------------------------------------
(* Every step of the client keeps the invariant.                           *)
LEMMA ClientStep ==
  ASSUME IInv, Client
  PROVE  IInv'
  <1> USE NocopyAssumption DEF IInv, AppAt, Goto, CallPoll, AppFrame, ServAt, SGoto,
      SCallPoll, ServFrame, Move, NothingMoves, NothingSent, NoAnswer, FillAndSend,
      Free, CDispatch, SDispatch, ringVars, clientVars, serverVars
  <1>1. CASE CCreate
    <2>1. CASE SendToServer(NsCreate) /\ cEpt' = "unbound" /\ cpc' = "ready"
      <3>1. PICK b \in CBuf : /\ place[b] = "free" /\ place' = [place EXCEPT ![b] = "ring"]
                              /\ mem' = [mem EXCEPT ![b] = NsCreate] /\ toS' = Append(toS, b) /\ sKick' = TRUE
        BY <1>1, <2>1 DEF SendToServer
      <3>2. /\ toS' \in Seq(CBuf) /\ OnceEach(toS')
            /\ \A x : x \in Members(toS') <=> x \in Members(toS) \/ x = b
        BY <1>1, <2>1, <3>1, ServerSent
      <3>3. TypeOK'
        <4>1. RingTypeOK'
          <5>1. place' \in [Buffers -> Places] /\ mem' \in [Buffers -> Contents]
            BY <1>1, <2>1, <3>1, <3>2 DEF CCreate, TypeOK, RingTypeOK, ClientTypeOK,
               ServerTypeOK, Contents, Places, Buffers, NsCreate, NsDestroy, Rounds
          <5>2. sKick' \in BOOLEAN /\ cKick' \in BOOLEAN
            BY <1>1, <2>1, <3>1, <3>2 DEF CCreate, TypeOK, RingTypeOK, ClientTypeOK,
               ServerTypeOK
          <5> QED BY <1>1, <2>1, <3>1, <3>2, <5>1, <5>2 DEF CCreate, TypeOK, RingTypeOK,
              ClientTypeOK, ServerTypeOK
        <4>2. ClientTypeOK'
          BY <1>1, <2>1, <3>1, <3>2 DEF CCreate, TypeOK, RingTypeOK, ClientTypeOK,
             ServerTypeOK, Rounds, Flow, Lists, ClientTakes, ServerTakes, Contents
        <4>3. ServerTypeOK'
          <5>1. shutdown_req' \in BOOLEAN
            BY <1>1, <2>1, <3>1, <3>2 DEF CCreate, TypeOK, RingTypeOK, ClientTypeOK,
               ServerTypeOK
          <5> QED BY <1>1, <2>1, <3>1, <3>2, <5>1 DEF CCreate, TypeOK, RingTypeOK,
              ClientTypeOK, ServerTypeOK, Rounds, Flow, Lists, ClientTakes, ServerTakes,
              Contents
        <4> QED BY <4>1, <4>2, <4>3 DEF TypeOK
      <3>4. Rings'
        BY <1>1, <2>1, <3>1, <3>2 DEF CCreate, TypeOK, RingTypeOK, Rings, Buffers
      <3>5. Lists'
        BY <1>1, <2>1, <3>1, <3>2 DEF CCreate, TypeOK, RingTypeOK, Lists, Released,
           Buffers
      <3>6. Flow'
        BY <1>1, <2>1, <3>1, <3>2 DEF CCreate, TypeOK, RingTypeOK, ClientTypeOK,
           ServerTypeOK, Rings, Lists, Released, Flow, Rounds, Pending, Nothing,
           Buffers, NsCreate, NsDestroy
      <3>7. Rounds'
        BY <1>1, <2>1, <3>1, <3>2 DEF CCreate, Rounds, ReportHonest
      <3>8. ClientTakes'
        BY <1>1, <2>1, <3>1, <3>2 DEF CCreate, ClientTakes, LostOf
      <3>9. ServerTakes'
        BY <1>1, <2>1, <3>1, <3>2 DEF CCreate, ServerTakes, LostOf
      <3>10. Stops'
        BY <1>1, <2>1, <3>1, <3>2 DEF CCreate, TypeOK, RingTypeOK, ClientTypeOK,
           ServerTypeOK, Stops, ServerStopsLast, Nothing, Pending, Buffers, NsCreate,
           NsDestroy, Rounds, Flow, Lists, ServerTakes
      <3> QED BY <3>3, <3>4, <3>5, <3>6, <3>7, <3>8, <3>9, <3>10 DEF IInv
    <2>2. CASE UNCHANGED <<place, mem, toS, sKick>> /\ cEpt' = cEpt /\ cpc' = "ended" /\ "create" \in faults
      <3>1. TypeOK'
        BY <1>1, <2>2 DEF CCreate, TypeOK, RingTypeOK, ClientTypeOK, ServerTypeOK
      <3>2. Rings'
        BY <1>1, <2>2 DEF CCreate, TypeOK, RingTypeOK, Rings, Buffers
      <3>3. Lists'
        BY <1>1, <2>2 DEF CCreate, TypeOK, RingTypeOK, Lists, Released, Buffers
      <3>4. Flow'
        BY <1>1, <2>2 DEF CCreate, Flow, Pending, Nothing
      <3>5. Rounds'
        BY <1>1, <2>2 DEF CCreate, Rounds, ReportHonest
      <3>6. ClientTakes'
        BY <1>1, <2>2 DEF CCreate, ClientTakes, LostOf
      <3>7. ServerTakes'
        BY <1>1, <2>2 DEF CCreate, ServerTakes, LostOf
      <3>8. Stops'
        BY <1>1, <2>2 DEF CCreate, Stops, ServerStopsLast, Nothing, Pending
      <3> QED BY <3>1, <3>2, <3>3, <3>4, <3>5, <3>6, <3>7, <3>8 DEF IInv
    <2> QED BY <1>1, <2>1, <2>2 DEF CCreate
  <1>2. CASE CReady
    <2>1. CASE UNCHANGED <<place, mem, toS, sKick>> /\ UNCHANGED cEpt
      <3>1. TypeOK'
        BY <1>2, <2>1 DEF CReady, DestroyToServer, GiveUp, TypeOK, RingTypeOK,
           ClientTypeOK, ServerTypeOK
      <3>2. Rings'
        BY <1>2, <2>1 DEF CReady, DestroyToServer, GiveUp, TypeOK, RingTypeOK, Rings,
           Buffers
      <3>3. Lists'
        BY <1>2, <2>1 DEF CReady, DestroyToServer, GiveUp, TypeOK, RingTypeOK, Lists,
           Released, Buffers
      <3>4. Flow'
        BY <1>2, <2>1 DEF CReady, DestroyToServer, GiveUp, Flow, Pending, Nothing
      <3>5. Rounds'
        BY <1>2, <2>1 DEF CReady, DestroyToServer, GiveUp, Rounds, ReportHonest
      <3>6. ClientTakes'
        BY <1>2, <2>1 DEF CReady, DestroyToServer, GiveUp, ClientTakes, LostOf
      <3>7. ServerTakes'
        BY <1>2, <2>1 DEF CReady, DestroyToServer, GiveUp, ServerTakes, LostOf
      <3>8. Stops'
        BY <1>2, <2>1 DEF CReady, DestroyToServer, GiveUp, Stops, ServerStopsLast,
           Nothing, Pending
      <3> QED BY <3>1, <3>2, <3>3, <3>4, <3>5, <3>6, <3>7, <3>8 DEF IInv
    <2>2. CASE SendToServer(NsDestroy) /\ cEpt' = "none" /\ cpc' = "ended" /\ "size" \in faults
      <3>1. PICK b \in CBuf : /\ place[b] = "free" /\ place' = [place EXCEPT ![b] = "ring"]
                              /\ mem' = [mem EXCEPT ![b] = NsDestroy] /\ toS' = Append(toS, b) /\ sKick' = TRUE
        BY <1>2, <2>2 DEF SendToServer
      <3>2. /\ toS' \in Seq(CBuf) /\ OnceEach(toS')
            /\ \A x : x \in Members(toS') <=> x \in Members(toS) \/ x = b
        BY <1>2, <2>2, <3>1, ServerSent
      <3>3. TypeOK'
        <4>1. RingTypeOK'
          <5>1. place' \in [Buffers -> Places] /\ mem' \in [Buffers -> Contents]
            BY <1>2, <2>2, <3>1, <3>2 DEF CReady, TypeOK, RingTypeOK, ClientTypeOK,
               ServerTypeOK, DestroyToServer, Contents, Places, Buffers, NsCreate,
               NsDestroy, Rounds
          <5>2. sKick' \in BOOLEAN /\ cKick' \in BOOLEAN
            BY <1>2, <2>2, <3>1, <3>2 DEF CReady, TypeOK, RingTypeOK, ClientTypeOK,
               ServerTypeOK, DestroyToServer
          <5> QED BY <1>2, <2>2, <3>1, <3>2, <5>1, <5>2 DEF CReady, TypeOK, RingTypeOK,
              ClientTypeOK, ServerTypeOK, DestroyToServer
        <4>2. ClientTypeOK'
          BY <1>2, <2>2, <3>1, <3>2 DEF CReady, TypeOK, RingTypeOK, ClientTypeOK,
             ServerTypeOK, DestroyToServer, Rounds, Flow, Lists, ClientTakes,
             ServerTakes, Contents
        <4>3. ServerTypeOK'
          <5>1. shutdown_req' \in BOOLEAN
            BY <1>2, <2>2, <3>1, <3>2 DEF CReady, TypeOK, RingTypeOK, ClientTypeOK,
               ServerTypeOK, DestroyToServer
          <5> QED BY <1>2, <2>2, <3>1, <3>2, <5>1 DEF CReady, TypeOK, RingTypeOK,
              ClientTypeOK, ServerTypeOK, DestroyToServer, Rounds, Flow, Lists,
              ClientTakes, ServerTakes, Contents
        <4> QED BY <4>1, <4>2, <4>3 DEF TypeOK
      <3>4. Rings'
        BY <1>2, <2>2, <3>1, <3>2 DEF CReady, DestroyToServer, GiveUp, TypeOK,
           RingTypeOK, Rings, Buffers
      <3>5. Lists'
        BY <1>2, <2>2, <3>1, <3>2 DEF CReady, DestroyToServer, GiveUp, TypeOK,
           RingTypeOK, Lists, Released, Buffers
      <3>6. Flow'
        BY <1>2, <2>2, <3>1, <3>2 DEF CReady, DestroyToServer, GiveUp, TypeOK,
           RingTypeOK, ClientTypeOK, ServerTypeOK, Rings, Lists, Released, Flow, Rounds,
           Pending, Nothing, Buffers, NsCreate, NsDestroy
      <3>7. Rounds'
        BY <1>2, <2>2, <3>1, <3>2 DEF CReady, DestroyToServer, GiveUp, Rounds,
           ReportHonest
      <3>8. ClientTakes'
        BY <1>2, <2>2, <3>1, <3>2 DEF CReady, DestroyToServer, GiveUp, ClientTakes,
           LostOf
      <3>9. ServerTakes'
        BY <1>2, <2>2, <3>1, <3>2 DEF CReady, DestroyToServer, GiveUp, ServerTakes,
           LostOf
      <3>10. Stops'
        BY <1>2, <2>2, <3>1, <3>2 DEF CReady, DestroyToServer, GiveUp, Stops,
           ServerStopsLast, Nothing, Pending
      <3> QED BY <3>3, <3>4, <3>5, <3>6, <3>7, <3>8, <3>9, <3>10 DEF IInv
    <2>3. CASE UNCHANGED <<place, mem, toS, sKick>> /\ cEpt' = "none" /\ cpc' = "ended" /\ "size" \in faults
      <3>1. TypeOK'
        BY <1>2, <2>3 DEF CReady, DestroyToServer, GiveUp, TypeOK, RingTypeOK,
           ClientTypeOK, ServerTypeOK
      <3>2. Rings'
        BY <1>2, <2>3 DEF CReady, DestroyToServer, GiveUp, TypeOK, RingTypeOK, Rings,
           Buffers
      <3>3. Lists'
        BY <1>2, <2>3 DEF CReady, DestroyToServer, GiveUp, TypeOK, RingTypeOK, Lists,
           Released, Buffers
      <3>4. Flow'
        BY <1>2, <2>3 DEF CReady, DestroyToServer, GiveUp, Flow, Pending, Nothing
      <3>5. Rounds'
        BY <1>2, <2>3 DEF CReady, DestroyToServer, GiveUp, Rounds, ReportHonest
      <3>6. ClientTakes'
        BY <1>2, <2>3 DEF CReady, DestroyToServer, GiveUp, ClientTakes, LostOf
      <3>7. ServerTakes'
        BY <1>2, <2>3 DEF CReady, DestroyToServer, GiveUp, ServerTakes, LostOf
      <3>8. Stops'
        BY <1>2, <2>3 DEF CReady, DestroyToServer, GiveUp, Stops, ServerStopsLast,
           Nothing, Pending
      <3> QED BY <3>1, <3>2, <3>3, <3>4, <3>5, <3>6, <3>7, <3>8 DEF IInv
    <2> QED BY <1>2, <2>1, <2>2, <2>3 DEF CReady, DestroyToServer, GiveUp
  <1>3. CASE CGetTx
    <2>1. CASE \E b \in Free(CBuf) : Move(b, "taken") /\ cList' = Append(cList, b)
      <3>1. PICK b \in CBuf : /\ place[b] = "free"
                              /\ place' = [place EXCEPT ![b] = "taken"] /\ cList' = Append(cList, b)
        BY <1>3, <2>1
      <3>2. /\ cList' \in Seq(CBuf \cup {None}) /\ Len(cList') = Len(cList) + 1
            /\ OnceEach(cList')
            /\ \A x : x \in Members(cList') <=> x \in Members(cList) \/ x = b
        BY <1>3, <2>1, <3>1, ClientListed
      <3>3. TypeOK'
        <4>1. RingTypeOK'
          <5>1. place' \in [Buffers -> Places] /\ mem' \in [Buffers -> Contents]
            BY <1>3, <2>1, <3>1, <3>2 DEF CGetTx, TypeOK, RingTypeOK, Places, Contents, Buffers
          <5>2. toS' \in Seq(CBuf) /\ toC' \in Seq(SBuf)
            BY <1>3, <2>1, <3>1, <3>2 DEF CGetTx, TypeOK, RingTypeOK
          <5>3. sKick' \in BOOLEAN /\ cKick' \in BOOLEAN
            BY <1>3, <2>1, <3>1, <3>2, Zenon DEF CGetTx, TypeOK, RingTypeOK
          <5>4. variant' \in Variants /\ faults' \in FaultSets
            BY <1>3, <2>1, <3>1, <3>2 DEF CGetTx, TypeOK, RingTypeOK
          <5> QED BY <5>1, <5>2, <5>3, <5>4, Zenon DEF RingTypeOK
        <4>2. ClientTypeOK'
          BY <1>3, <2>1, <3>1, <3>2
             DEF CGetTx, TypeOK, RingTypeOK, ClientTypeOK, ServerTypeOK, Lists, Flow, Rounds,
                 ClientTakes, ServerTakes, Buffers
        <4>3. ServerTypeOK'
          BY <1>3, <2>1, <3>1, <3>2
             DEF CGetTx, TypeOK, RingTypeOK, ClientTypeOK, ServerTypeOK, Lists, Flow, Rounds,
                 ClientTakes, ServerTakes, Buffers
        <4> QED BY <4>1, <4>2, <4>3 DEF TypeOK
      <3>4. Rings'
        BY <1>3, <2>1, <3>1, <3>2 DEF CGetTx, TypeOK, RingTypeOK, Rings, Buffers
      <3>5. Lists'
        BY <1>3, <2>1, <3>1, <3>2 DEF CGetTx, TypeOK, RingTypeOK, Lists, Released,
           Buffers
      <3>6. Flow'
        BY <1>3, <2>1, <3>1, <3>2 DEF CGetTx, Flow, Pending, Nothing
      <3>7. Rounds'
        BY <1>3, <2>1, <3>1, <3>2 DEF CGetTx, Rounds, ReportHonest
      <3>8. ClientTakes'
        BY <1>3, <2>1, <3>1, <3>2 DEF CGetTx, TypeOK, RingTypeOK, ClientTypeOK,
           ServerTypeOK, ClientTakes, LostOf, Buffers, Rounds, Rings, Lists
      <3>9. ServerTakes'
        BY <1>3, <2>1, <3>1, <3>2 DEF CGetTx, ServerTakes, LostOf
      <3>10. Stops'
        BY <1>3, <2>1, <3>1, <3>2 DEF CGetTx, Stops, ServerStopsLast, Nothing, Pending
      <3> QED BY <3>3, <3>4, <3>5, <3>6, <3>7, <3>8, <3>9, <3>10 DEF IInv
    <2>2. CASE "get" \in faults /\ cList' = Append(cList, None) /\ UNCHANGED place
      <3>1. /\ cList' \in Seq(CBuf \cup {None}) /\ Len(cList') = Len(cList) + 1
            /\ OnceEach(cList')
            /\ \A x : x \in Members(cList') <=> x \in Members(cList) \/ x = None
        BY <1>3, <2>2, ClientListed
      <3>2. TypeOK'
        BY <1>3, <2>2, <3>1 DEF CGetTx, TypeOK, RingTypeOK, ClientTypeOK, ServerTypeOK,
           Rounds, Flow, Lists, ClientTakes, ServerTakes, Contents, Places, Buffers
      <3>3. Rings'
        BY <1>3, <2>2, <3>1 DEF CGetTx, TypeOK, RingTypeOK, Rings, Buffers
      <3>4. Lists'
        BY <1>3, <2>2, <3>1 DEF CGetTx, TypeOK, RingTypeOK, Lists, Released, Buffers
      <3>5. Flow'
        BY <1>3, <2>2, <3>1 DEF CGetTx, Flow, Pending, Nothing
      <3>6. Rounds'
        BY <1>3, <2>2, <3>1 DEF CGetTx, Rounds, ReportHonest
      <3>7. ClientTakes'
        BY <1>3, <2>2, <3>1 DEF CGetTx, ClientTakes, LostOf
      <3>8. ServerTakes'
        BY <1>3, <2>2, <3>1 DEF CGetTx, ServerTakes, LostOf
      <3>9. Stops'
        BY <1>3, <2>2, <3>1 DEF CGetTx, Stops, ServerStopsLast, Nothing, Pending
      <3> QED BY <3>2, <3>3, <3>4, <3>5, <3>6, <3>7, <3>8, <3>9 DEF IInv
    <2> QED BY <1>3, <2>1, <2>2 DEF CGetTx
  <1>4. CASE CGiveTx
    <2>1. CASE Len(cList) = 1 /\ cpc' = "get" /\ UNCHANGED <<place, cList>>
      <3>1. \A x : x \in Members(cList) <=> x = cList[1]
        BY <1>4, <2>1, ShortLists DEF TypeOK, ClientTypeOK, ServerTypeOK
      <3>2. TypeOK'
        <4>1. RingTypeOK'
          <5>1. place' \in [Buffers -> Places] /\ mem' \in [Buffers -> Contents]
            BY <1>4, <2>1, <3>1 DEF CGiveTx, TypeOK, RingTypeOK, ClientTypeOK,
               ServerTypeOK, Contents, Places, Buffers, NsCreate, NsDestroy, Rounds
          <5>2. sKick' \in BOOLEAN /\ cKick' \in BOOLEAN
            BY <1>4, <2>1, <3>1 DEF CGiveTx, TypeOK, RingTypeOK, ClientTypeOK,
               ServerTypeOK
          <5> QED BY <1>4, <2>1, <3>1, <5>1, <5>2 DEF CGiveTx, TypeOK, RingTypeOK,
              ClientTypeOK, ServerTypeOK
        <4>2. ClientTypeOK'
          BY <1>4, <2>1, <3>1 DEF CGiveTx, TypeOK, RingTypeOK, ClientTypeOK,
             ServerTypeOK, Rounds, Flow, Lists, ClientTakes, ServerTakes, Contents
        <4>3. ServerTypeOK'
          <5>1. shutdown_req' \in BOOLEAN
            BY <1>4, <2>1, <3>1 DEF CGiveTx, TypeOK, RingTypeOK, ClientTypeOK,
               ServerTypeOK
          <5> QED BY <1>4, <2>1, <3>1, <5>1 DEF CGiveTx, TypeOK, RingTypeOK,
              ClientTypeOK, ServerTypeOK, Rounds, Flow, Lists, ClientTakes, ServerTakes,
              Contents
        <4> QED BY <4>1, <4>2, <4>3 DEF TypeOK
      <3>3. Rings'
        BY <1>4, <2>1, <3>1 DEF CGiveTx, TypeOK, RingTypeOK, Rings, Buffers
      <3>4. Lists'
        BY <1>4, <2>1, <3>1 DEF CGiveTx, TypeOK, RingTypeOK, Lists, Released, Buffers
      <3>5. Flow'
        BY <1>4, <2>1, <3>1 DEF CGiveTx, Flow, Pending, Nothing
      <3>6. Rounds'
        BY <1>4, <2>1, <3>1 DEF CGiveTx, Rounds, ReportHonest
      <3>7. ClientTakes'
        BY <1>4, <2>1, <3>1 DEF CGiveTx, TypeOK, RingTypeOK, ClientTypeOK, ServerTypeOK,
           ClientTakes, LostOf, Buffers, Rounds, Rings, Lists
      <3>8. ServerTakes'
        BY <1>4, <2>1, <3>1 DEF CGiveTx, ServerTakes, LostOf
      <3>9. Stops'
        BY <1>4, <2>1, <3>1 DEF CGiveTx, Stops, ServerStopsLast, Nothing, Pending
      <3> QED BY <3>2, <3>3, <3>4, <3>5, <3>6, <3>7, <3>8, <3>9 DEF IInv
    <2>2. CASE Len(cList) > 1 /\ cList[Len(cList)] # None /\ place' = [place EXCEPT ![cList[Len(cList)]] = "free"]
               /\ cList' = SubSeq(cList, 1, Len(cList) - 1) /\ cpc' = "givetx"
      <3>1. /\ cList' \in Seq(CBuf \cup {None}) /\ Len(cList') = Len(cList) - 1
            /\ OnceEach(cList')
            /\ cList[Len(cList)] \in CBuf /\ place[cList[Len(cList)]] = "taken"
            /\ \A x : x \in Members(cList') <=> x \in Members(cList) /\ x # cList[Len(cList)]
        BY <1>4, <2>2, ClientUnlisted
      <3>2. TypeOK'
        <4>1. RingTypeOK'
          <5>1. place' \in [Buffers -> Places] /\ mem' \in [Buffers -> Contents]
            BY <1>4, <2>2, <3>1 DEF CGiveTx, TypeOK, RingTypeOK, ClientTypeOK,
               ServerTypeOK, Contents, Places, Buffers, NsCreate, NsDestroy, Rounds
          <5>2. sKick' \in BOOLEAN /\ cKick' \in BOOLEAN
            BY <1>4, <2>2, <3>1 DEF CGiveTx, TypeOK, RingTypeOK, ClientTypeOK,
               ServerTypeOK
          <5> QED BY <1>4, <2>2, <3>1, <5>1, <5>2 DEF CGiveTx, TypeOK, RingTypeOK,
              ClientTypeOK, ServerTypeOK
        <4>2. ClientTypeOK'
          BY <1>4, <2>2, <3>1 DEF CGiveTx, TypeOK, RingTypeOK, ClientTypeOK,
             ServerTypeOK, Rounds, Flow, Lists, ClientTakes, ServerTakes, Contents
        <4>3. ServerTypeOK'
          <5>1. shutdown_req' \in BOOLEAN
            BY <1>4, <2>2, <3>1 DEF CGiveTx, TypeOK, RingTypeOK, ClientTypeOK,
               ServerTypeOK
          <5> QED BY <1>4, <2>2, <3>1, <5>1 DEF CGiveTx, TypeOK, RingTypeOK,
              ClientTypeOK, ServerTypeOK, Rounds, Flow, Lists, ClientTakes, ServerTakes,
              Contents
        <4> QED BY <4>1, <4>2, <4>3 DEF TypeOK
      <3>3. Rings'
        BY <1>4, <2>2, <3>1 DEF CGiveTx, TypeOK, RingTypeOK, Rings, Buffers
      <3>4. Lists'
        BY <1>4, <2>2, <3>1 DEF CGiveTx, TypeOK, RingTypeOK, Lists, Released, Buffers
      <3>5. Flow'
        BY <1>4, <2>2, <3>1 DEF CGiveTx, Flow, Pending, Nothing
      <3>6. Rounds'
        BY <1>4, <2>2, <3>1 DEF CGiveTx, Rounds, ReportHonest
      <3>7. ClientTakes'
        BY <1>4, <2>2, <3>1 DEF CGiveTx, TypeOK, RingTypeOK, ClientTypeOK, ServerTypeOK,
           ClientTakes, LostOf, Buffers, Rounds, Rings, Lists
      <3>8. ServerTakes'
        BY <1>4, <2>2, <3>1 DEF CGiveTx, ServerTakes, LostOf
      <3>9. Stops'
        BY <1>4, <2>2, <3>1 DEF CGiveTx, Stops, ServerStopsLast, Nothing, Pending
      <3> QED BY <3>2, <3>3, <3>4, <3>5, <3>6, <3>7, <3>8, <3>9 DEF IInv
    <2>3. CASE cpc' = "leave" /\ UNCHANGED <<place, cList>>
      <3>1. TypeOK'
        BY <1>4, <2>3 DEF CGiveTx, TypeOK, RingTypeOK, ClientTypeOK, ServerTypeOK
      <3>2. Rings'
        BY <1>4, <2>3 DEF CGiveTx, TypeOK, RingTypeOK, Rings, Buffers
      <3>3. Lists'
        BY <1>4, <2>3 DEF CGiveTx, TypeOK, RingTypeOK, Lists, Released, Buffers
      <3>4. Flow'
        BY <1>4, <2>3 DEF CGiveTx, Flow, Pending, Nothing
      <3>5. Rounds'
        BY <1>4, <2>3 DEF CGiveTx, Rounds, ReportHonest
      <3>6. ClientTakes'
        BY <1>4, <2>3 DEF CGiveTx, ClientTakes, LostOf
      <3>7. ServerTakes'
        BY <1>4, <2>3 DEF CGiveTx, ServerTakes, LostOf
      <3>8. Stops'
        BY <1>4, <2>3 DEF CGiveTx, TypeOK, RingTypeOK, ClientTypeOK, ServerTypeOK,
           Stops, ServerStopsLast, Nothing, Pending, Buffers, NsCreate, NsDestroy,
           Rounds, Flow, Lists, ServerTakes
      <3> QED BY <3>1, <3>2, <3>3, <3>4, <3>5, <3>6, <3>7, <3>8 DEF IInv
    <2> QED BY <1>4, <2>1, <2>2, <2>3 DEF CGiveTx
  <1>5. CASE CGet
    <2>1. CASE \E b \in Free(CBuf) : place' = [place EXCEPT ![b] = "taken"] /\ i_payload' = b
               /\ (b # LostOf(cList) => mem' = [mem EXCEPT ![b] = i] /\ cpc' = "send" /\ UNCHANGED err_cnt)
      <3>1. PICK b \in CBuf : /\ place[b] = "free"
                              /\ place' = [place EXCEPT ![b] = "taken"] /\ i_payload' = b
                              /\ b # LostOf(cList) => mem' = [mem EXCEPT ![b] = i] /\ cpc' = "send" /\ UNCHANGED err_cnt
        BY <1>5, <2>1
      <3>2. b \notin Members(cList) /\ b # LostOf(cList)
        BY <1>5, <2>1, <3>1, ClientLost
      <3>3. mem' = [mem EXCEPT ![b] = i] /\ cpc' = "send" /\ UNCHANGED err_cnt
        BY <3>1, <3>2
      <3>4. cPoll' = cPoll
        BY <1>5 DEF CGet, GiveUp
      <3>5. UNCHANGED <<variant, faults, toC, cKick, rcv_msg, rnum, serverVars, toS, sKick, cEpt, cList, i, verified>>
        BY <1>5 DEF CGet
      <3>6. TypeOK'
        <4>1. i \in Contents
          BY DEF TypeOK, RingTypeOK, ClientTypeOK, ServerTypeOK, Contents
        <4>2. RingTypeOK'
          BY <3>1, <3>3, <3>5, <4>1 DEF TypeOK, RingTypeOK, ClientTypeOK, ServerTypeOK,
             Places, Buffers
        <4>3. ClientTypeOK'
          BY <3>1, <3>3, <3>4, <3>5 DEF TypeOK, RingTypeOK, ClientTypeOK, ServerTypeOK
        <4>4. ServerTypeOK'
          BY <3>5 DEF TypeOK, RingTypeOK, ClientTypeOK, ServerTypeOK
        <4> QED BY <4>2, <4>3, <4>4 DEF TypeOK
      <3>7. Rings'
        BY <1>5, <2>1, <3>1, <3>2, <3>3, <3>4, <3>5 DEF CGet, GiveUp, TypeOK,
           RingTypeOK, Rings, Buffers
      <3>8. Lists'
        BY <1>5, <2>1, <3>1, <3>2, <3>3, <3>4, <3>5 DEF CGet, GiveUp, TypeOK,
           RingTypeOK, Lists, Released, Buffers
      <3>9. Flow'
        BY <1>5, <2>1, <3>1, <3>2, <3>3, <3>4, <3>5 DEF CGet, GiveUp, TypeOK,
           RingTypeOK, ClientTypeOK, ServerTypeOK, Rings, Lists, Released, Flow, Rounds,
           Pending, Nothing, Buffers, NsCreate, NsDestroy
      <3>10. Rounds'
        BY <1>5, <2>1, <3>1, <3>2, <3>3, <3>4, <3>5 DEF CGet, GiveUp, Rounds,
           ReportHonest
      <3>11. ClientTakes'
        BY <1>5, <2>1, <3>1, <3>2, <3>3, <3>4, <3>5 DEF CGet, GiveUp, TypeOK,
           RingTypeOK, ClientTypeOK, ServerTypeOK, ClientTakes, LostOf, Buffers, Rounds,
           Rings, Lists
      <3>12. ServerTakes'
        BY <1>5, <2>1, <3>1, <3>2, <3>3, <3>4, <3>5 DEF CGet, GiveUp, ServerTakes,
           LostOf
      <3>13. Stops'
        BY <1>5, <2>1, <3>1, <3>2, <3>3, <3>4, <3>5 DEF CGet, GiveUp, Stops,
           ServerStopsLast, Nothing, Pending
      <3> QED BY <3>6, <3>7, <3>8, <3>9, <3>10, <3>11, <3>12, <3>13 DEF IInv
    <2>2. CASE "get" \in faults /\ GiveUp /\ UNCHANGED <<place, mem, i_payload>>
      <3>1. TypeOK'
        BY <1>5, <2>2 DEF CGet, GiveUp, TypeOK, RingTypeOK, ClientTypeOK, ServerTypeOK,
           Rounds, Flow, Lists, ClientTakes, ServerTakes, Contents, Places, Buffers
      <3>2. Rings'
        BY <1>5, <2>2 DEF CGet, GiveUp, TypeOK, RingTypeOK, Rings, Buffers
      <3>3. Lists'
        BY <1>5, <2>2 DEF CGet, GiveUp, TypeOK, RingTypeOK, Lists, Released, Buffers
      <3>4. Flow'
        BY <1>5, <2>2 DEF CGet, GiveUp, Flow, Pending, Nothing
      <3>5. Rounds'
        BY <1>5, <2>2, GivingUp DEF CGet
      <3>6. ClientTakes'
        BY <1>5, <2>2 DEF CGet, GiveUp, ClientTakes, LostOf
      <3>7. ServerTakes'
        BY <1>5, <2>2 DEF CGet, GiveUp, ServerTakes, LostOf
      <3>8. Stops'
        BY <1>5, <2>2 DEF CGet, GiveUp, Stops, ServerStopsLast, Nothing, Pending
      <3> QED BY <3>1, <3>2, <3>3, <3>4, <3>5, <3>6, <3>7, <3>8 DEF IInv
    <2> QED BY <1>5, <2>1, <2>2 DEF CGet, GiveUp
  <1>6. CASE CSend
    <2>1. CASE /\ place' = [place EXCEPT ![i_payload] = "ring"]
               /\ toS' = Append(toS, i_payload) /\ sKick' = TRUE
               /\ cpc' \in {"discard", "await"} /\ (variant # "test" => cpc' = "await") /\ UNCHANGED err_cnt
               /\ (cPoll' # "no" => cpc' = "await") /\ cPoll' \in {"no", "wait"}
      <3>1. i_payload \in CBuf /\ place[i_payload] = "taken"
        BY <1>6, <2>1 DEF CSend, ClientTakes
      <3>2. /\ toS' \in Seq(CBuf) /\ OnceEach(toS')
            /\ \A x : x \in Members(toS') <=> x \in Members(toS) \/ x = i_payload
        BY <1>6, <2>1, <3>1, ServerSent
      <3>3. TypeOK'
        BY <1>6, <2>1, <3>1, <3>2 DEF CSend, GiveUp, TypeOK, RingTypeOK, ClientTypeOK,
           ServerTypeOK, Rounds, Flow, Lists, ClientTakes, ServerTakes, Contents,
           Places, Buffers
      <3>4. Rings'
        BY <1>6, <2>1, <3>1, <3>2 DEF CSend, GiveUp, TypeOK, RingTypeOK, Rings, Buffers
      <3>5. Lists'
        BY <1>6, <2>1, <3>1, <3>2 DEF CSend, GiveUp, TypeOK, RingTypeOK, Lists,
           Released, Buffers
      <3>6. Flow'
        BY <1>6, <2>1, <3>1, <3>2 DEF CSend, GiveUp, Flow, Pending, Nothing
      <3>7. Rounds'
        BY <1>6, <2>1, <3>1, <3>2 DEF CSend, GiveUp, Rounds, ReportHonest
      <3>8. ClientTakes'
        BY <1>6, <2>1, <3>1, <3>2 DEF CSend, GiveUp, TypeOK, RingTypeOK, ClientTypeOK,
           ServerTypeOK, ClientTakes, LostOf, Buffers, Rounds, Rings, Lists
      <3>9. ServerTakes'
        BY <1>6, <2>1, <3>1, <3>2 DEF CSend, GiveUp, ServerTakes, LostOf
      <3>10. Stops'
        BY <1>6, <2>1, <3>1, <3>2 DEF CSend, GiveUp, TypeOK, RingTypeOK, ClientTypeOK,
           ServerTypeOK, Stops, ServerStopsLast, Nothing, Pending, Buffers, NsCreate,
           NsDestroy, Rounds, Flow, Lists, ServerTakes
      <3> QED BY <3>3, <3>4, <3>5, <3>6, <3>7, <3>8, <3>9, <3>10 DEF IInv
    <2>2. CASE /\ (cEpt # "bound" \/ "send" \in faults) /\ GiveUp
               /\ UNCHANGED <<place, toS, sKick>>
      <3>1. TypeOK'
        BY <1>6, <2>2 DEF CSend, GiveUp, TypeOK, RingTypeOK, ClientTypeOK, ServerTypeOK,
           Rounds, Flow, Lists, ClientTakes, ServerTakes, Contents, Places, Buffers
      <3>2. Rings'
        BY <1>6, <2>2 DEF CSend, GiveUp, TypeOK, RingTypeOK, Rings, Buffers
      <3>3. Lists'
        BY <1>6, <2>2 DEF CSend, GiveUp, TypeOK, RingTypeOK, Lists, Released, Buffers
      <3>4. Flow'
        BY <1>6, <2>2 DEF CSend, GiveUp, Flow, Pending, Nothing
      <3>5. Rounds'
        BY <1>6, <2>2, GivingUp DEF CSend, Rounds
      <3>6. ClientTakes'
        BY <1>6, <2>2 DEF CSend, GiveUp, ClientTakes, LostOf
      <3>7. ServerTakes'
        BY <1>6, <2>2 DEF CSend, GiveUp, ServerTakes, LostOf
      <3>8. Stops'
        BY <1>6, <2>2 DEF CSend, GiveUp, TypeOK, RingTypeOK, ClientTypeOK, ServerTypeOK,
           Stops, ServerStopsLast, Nothing, Pending, Buffers, NsCreate, NsDestroy,
           Rounds, Flow, Lists, ServerTakes
      <3> QED BY <3>1, <3>2, <3>3, <3>4, <3>5, <3>6, <3>7, <3>8 DEF IInv
    <2> QED BY <1>6, <2>1, <2>2 DEF CSend, GiveUp
  <1>7. CASE CDiscard
    <2>1. CASE \E b \in Free(CBuf) : place' = [place EXCEPT ![b] = "taken"] /\ i_payload' = b
               /\ (b # LostOf(cList) => cpc' = "giveback" /\ UNCHANGED err_cnt)
      <3>1. PICK b \in CBuf : /\ place[b] = "free"
                              /\ place' = [place EXCEPT ![b] = "taken"] /\ i_payload' = b
                              /\ b # LostOf(cList) => cpc' = "giveback" /\ UNCHANGED err_cnt
        BY <1>7, <2>1
      <3>2. b \notin Members(cList) /\ b # LostOf(cList)
        BY <1>7, <2>1, <3>1, ClientLost
      <3>3. cpc' = "giveback" /\ UNCHANGED err_cnt
        BY <3>1, <3>2
      <3>4. cPoll' = cPoll
        BY <1>7 DEF CDiscard, GiveUp
      <3>5. UNCHANGED <<variant, faults, toC, cKick, rcv_msg, rnum, serverVars, toS, sKick, cEpt, cList, i, verified, mem>>
        BY <1>7 DEF CDiscard
      <3>6. TypeOK'
        <4>1. i \in Contents
          BY DEF TypeOK, RingTypeOK, ClientTypeOK, ServerTypeOK, Contents
        <4>2. RingTypeOK'
          BY <3>1, <3>3, <3>5, <4>1 DEF TypeOK, RingTypeOK, ClientTypeOK, ServerTypeOK,
             Places, Buffers
        <4>3. ClientTypeOK'
          BY <3>1, <3>3, <3>4, <3>5 DEF TypeOK, RingTypeOK, ClientTypeOK, ServerTypeOK
        <4>4. ServerTypeOK'
          BY <3>5 DEF TypeOK, RingTypeOK, ClientTypeOK, ServerTypeOK
        <4> QED BY <4>2, <4>3, <4>4 DEF TypeOK
      <3>7. Rings'
        BY <1>7, <2>1, <3>1, <3>2, <3>3, <3>4, <3>5 DEF CDiscard, GiveUp, TypeOK,
           RingTypeOK, Rings, Buffers
      <3>8. Lists'
        BY <1>7, <2>1, <3>1, <3>2, <3>3, <3>4, <3>5 DEF CDiscard, GiveUp, TypeOK,
           RingTypeOK, Lists, Released, Buffers
      <3>9. Flow'
        BY <1>7, <2>1, <3>1, <3>2, <3>3, <3>4, <3>5 DEF CDiscard, GiveUp, Flow, Pending,
           Nothing
      <3>10. Rounds'
        BY <1>7, <2>1, <3>1, <3>2, <3>3, <3>4, <3>5 DEF CDiscard, GiveUp, Rounds,
           ReportHonest
      <3>11. ClientTakes'
        BY <1>7, <2>1, <3>1, <3>2, <3>3, <3>4, <3>5 DEF CDiscard, GiveUp, TypeOK,
           RingTypeOK, ClientTypeOK, ServerTypeOK, ClientTakes, LostOf, Buffers, Rounds,
           Rings, Lists
      <3>12. ServerTakes'
        BY <1>7, <2>1, <3>1, <3>2, <3>3, <3>4, <3>5 DEF CDiscard, GiveUp, ServerTakes,
           LostOf
      <3>13. Stops'
        BY <1>7, <2>1, <3>1, <3>2, <3>3, <3>4, <3>5 DEF CDiscard, GiveUp, Stops,
           ServerStopsLast, Nothing, Pending
      <3> QED BY <3>6, <3>7, <3>8, <3>9, <3>10, <3>11, <3>12, <3>13 DEF IInv
    <2>2. CASE "get" \in faults /\ GiveUp /\ UNCHANGED <<place, i_payload>>
      <3>1. TypeOK'
        BY <1>7, <2>2 DEF CDiscard, GiveUp, TypeOK, RingTypeOK, ClientTypeOK,
           ServerTypeOK, Rounds, Flow, Lists, ClientTakes, ServerTakes, Contents,
           Places, Buffers
      <3>2. Rings'
        BY <1>7, <2>2 DEF CDiscard, GiveUp, TypeOK, RingTypeOK, Rings, Buffers
      <3>3. Lists'
        BY <1>7, <2>2 DEF CDiscard, GiveUp, TypeOK, RingTypeOK, Lists, Released, Buffers
      <3>4. Flow'
        BY <1>7, <2>2 DEF CDiscard, GiveUp, Flow, Pending, Nothing
      <3>5. Rounds'
        BY <1>7, <2>2, GivingUp DEF CDiscard
      <3>6. ClientTakes'
        BY <1>7, <2>2 DEF CDiscard, GiveUp, ClientTakes, LostOf
      <3>7. ServerTakes'
        BY <1>7, <2>2 DEF CDiscard, GiveUp, ServerTakes, LostOf
      <3>8. Stops'
        BY <1>7, <2>2 DEF CDiscard, GiveUp, Stops, ServerStopsLast, Nothing, Pending
      <3> QED BY <3>1, <3>2, <3>3, <3>4, <3>5, <3>6, <3>7, <3>8 DEF IInv
    <2> QED BY <1>7, <2>1, <2>2 DEF CDiscard, GiveUp
  <1>8. CASE CGiveBack
    <2>1. CASE /\ place' = [place EXCEPT ![i_payload] = "free"] /\ CallPoll("await")
               /\ UNCHANGED err_cnt
      <3>1. TypeOK'
        BY <1>8, <2>1 DEF CGiveBack, GiveUp, TypeOK, RingTypeOK, ClientTypeOK,
           ServerTypeOK, Rounds, Flow, Lists, ClientTakes, ServerTakes, Contents,
           Places, Buffers
      <3>2. Rings'
        BY <1>8, <2>1 DEF CGiveBack, GiveUp, TypeOK, RingTypeOK, ClientTypeOK,
           ServerTypeOK, Rings, Buffers, ClientTakes
      <3>3. Lists'
        BY <1>8, <2>1 DEF CGiveBack, GiveUp, TypeOK, RingTypeOK, ClientTypeOK,
           ServerTypeOK, Rings, Lists, Released, Buffers, Flow, Rounds, ClientTakes
      <3>4. Flow'
        BY <1>8, <2>1 DEF CGiveBack, GiveUp, TypeOK, RingTypeOK, ClientTypeOK,
           ServerTypeOK, Rings, Lists, Released, Flow, Rounds, Pending, Nothing,
           Buffers, NsCreate, NsDestroy
      <3>5. Rounds'
        BY <1>8, <2>1 DEF CGiveBack, GiveUp, Rounds, ReportHonest
      <3>6. ClientTakes'
        BY <1>8, <2>1 DEF CGiveBack, GiveUp, TypeOK, RingTypeOK, ClientTypeOK,
           ServerTypeOK, ClientTakes, LostOf, Buffers, Rounds, Rings, Lists
      <3>7. ServerTakes'
        BY <1>8, <2>1 DEF CGiveBack, GiveUp, TypeOK, RingTypeOK, ClientTypeOK,
           ServerTypeOK, ServerTakes, LostOf, Buffers, Rings, Lists
      <3>8. Stops'
        BY <1>8, <2>1 DEF CGiveBack, GiveUp, Stops, ServerStopsLast, Nothing, Pending
      <3> QED BY <3>1, <3>2, <3>3, <3>4, <3>5, <3>6, <3>7, <3>8 DEF IInv
    <2>2. CASE "giveback" \in faults /\ GiveUp /\ UNCHANGED place
      <3>1. TypeOK'
        BY <1>8, <2>2 DEF CGiveBack, GiveUp, TypeOK, RingTypeOK, ClientTypeOK,
           ServerTypeOK, Rounds, Flow, Lists, ClientTakes, ServerTakes, Contents,
           Places, Buffers
      <3>2. Rings'
        BY <1>8, <2>2 DEF CGiveBack, GiveUp, TypeOK, RingTypeOK, Rings, Buffers
      <3>3. Lists'
        BY <1>8, <2>2 DEF CGiveBack, GiveUp, TypeOK, RingTypeOK, Lists, Released,
           Buffers
      <3>4. Flow'
        BY <1>8, <2>2 DEF CGiveBack, GiveUp, Flow, Pending, Nothing
      <3>5. Rounds'
        BY <1>8, <2>2, GivingUp DEF CGiveBack
      <3>6. ClientTakes'
        BY <1>8, <2>2 DEF CGiveBack, GiveUp, ClientTakes, LostOf
      <3>7. ServerTakes'
        BY <1>8, <2>2 DEF CGiveBack, GiveUp, ServerTakes, LostOf
      <3>8. Stops'
        BY <1>8, <2>2 DEF CGiveBack, GiveUp, Stops, ServerStopsLast, Nothing, Pending
      <3> QED BY <3>1, <3>2, <3>3, <3>4, <3>5, <3>6, <3>7, <3>8 DEF IInv
    <2> QED BY <1>8, <2>1, <2>2 DEF CGiveBack, GiveUp
  <1>9. CASE CAwait
    <2>1. TypeOK'
      BY <1>9 DEF CAwait, TypeOK, RingTypeOK, ClientTypeOK, ServerTypeOK
    <2>2. Rings'
      BY <1>9 DEF CAwait, TypeOK, RingTypeOK, Rings, Buffers
    <2>3. Lists'
      BY <1>9 DEF CAwait, TypeOK, RingTypeOK, Lists, Released, Buffers
    <2>4. Flow'
      BY <1>9 DEF CAwait, TypeOK, RingTypeOK, ClientTypeOK, ServerTypeOK, Rings, Lists,
         Released, Flow, Rounds, Pending, Nothing, Buffers, NsCreate, NsDestroy
    <2>5. Rounds'
      <3>1. UNCHANGED <<cEpt, i, err_cnt, verified, variant, faults, spc>>
        BY <1>9 DEF CAwait
      <3>2. CASE cEpt = "bound" /\ cpc' \in {"await", "check"}
        BY <1>9, <3>1, <3>2 DEF CAwait, Rounds, ReportHonest
      <3>3. CASE cEpt = "none" /\ cpc' = "finish"
        <4>1. /\ err_cnt = 0 /\ verified = {n \in 0 .. N - 1 : n < i} /\ i < N
              /\ spc = "ended" /\ faults # {}
          BY <1>9, <3>3 DEF CAwait, Rounds
        <4>2. verified = 0 .. i - 1
          BY <4>1 DEF TypeOK, ClientTypeOK
        <4> QED BY <3>1, <3>3, <4>1, <4>2 DEF Rounds, ReportHonest
      <3> QED BY <1>9, <3>2, <3>3 DEF CAwait, Rounds
    <2>6. ClientTakes'
      BY <1>9 DEF CAwait, ClientTakes, LostOf
    <2>7. ServerTakes'
      BY <1>9 DEF CAwait, ServerTakes, LostOf
    <2>8. Stops'
      BY <1>9 DEF CAwait, Rounds, Stops, ServerStopsLast, Nothing, Pending
    <2> QED BY <2>1, <2>2, <2>3, <2>4, <2>5, <2>6, <2>7, <2>8 DEF IInv
  <1>10. CASE CCheck
    <2>1. rcv_msg \in SBuf /\ place[rcv_msg] = "held" /\ mem[rcv_msg] = i /\ rnum = i + 1
      BY <1>10 DEF CCheck, Flow
    <2>2. TypeOK'
      BY <1>10, <2>1 DEF CCheck, TypeOK, RingTypeOK, ClientTypeOK, ServerTypeOK, Rounds,
         Flow, Lists, ClientTakes, ServerTakes, Contents, Places, Buffers
    <2>3. Rings'
      BY <1>10, <2>1 DEF CCheck, TypeOK, RingTypeOK, Rings, Buffers
    <2>4. Lists'
      BY <1>10, <2>1 DEF CCheck, TypeOK, RingTypeOK, Lists, Released, Buffers
    <2>5. Flow'
      BY <1>10, <2>1 DEF CCheck, TypeOK, RingTypeOK, ClientTypeOK, ServerTypeOK, Rings,
         Lists, Released, Flow, Rounds, Pending, Nothing, Buffers, NsCreate, NsDestroy
    <2>6. Rounds'
      <3>1. /\ verified' = verified \cup {i} /\ i' = i + 1
            /\ UNCHANGED <<err_cnt, cEpt, variant>>
            /\ cpc' = IF i + 1 < N THEN "get" ELSE "finish"
        BY <1>10, <2>1 DEF CCheck
      <3>2. i < N /\ cEpt = "bound" /\ err_cnt = 0 /\ i \in Nat /\ N \in Nat
        BY <1>10 DEF CCheck, Rounds, TypeOK, RingTypeOK, ClientTypeOK, ServerTypeOK
      <3>3. verified' = {n \in 0 .. N - 1 : n < i'}
        BY <1>10, <3>1, <3>2 DEF CCheck, Rounds
      <3>4. i' = N => verified' = 0 .. N - 1
        BY <3>2, <3>3
      <3> QED BY <3>1, <3>2, <3>3, <3>4 DEF Rounds, ReportHonest
    <2>7. ClientTakes'
      BY <1>10, <2>1 DEF CCheck, ClientTakes, LostOf
    <2>8. ServerTakes'
      BY <1>10, <2>1 DEF CCheck, ServerTakes, LostOf
    <2>9. Stops'
      BY <1>10, <2>1 DEF CCheck, TypeOK, RingTypeOK, ClientTypeOK, ServerTypeOK, Stops,
         ServerStopsLast, Nothing, Pending, Buffers, NsCreate, NsDestroy, Rounds, Flow,
         Lists, ServerTakes
    <2> QED BY <2>2, <2>3, <2>4, <2>5, <2>6, <2>7, <2>8, <2>9 DEF IInv
  <1>11. CASE CFinish
    <2>1. CASE SendToServer(NsDestroy)
      <3>1. PICK b \in CBuf : /\ place[b] = "free" /\ place' = [place EXCEPT ![b] = "ring"]
                              /\ mem' = [mem EXCEPT ![b] = NsDestroy] /\ toS' = Append(toS, b) /\ sKick' = TRUE
        BY <1>11, <2>1 DEF SendToServer
      <3>2. /\ toS' \in Seq(CBuf) /\ OnceEach(toS')
            /\ \A x : x \in Members(toS') <=> x \in Members(toS) \/ x = b
        BY <1>11, <2>1, <3>1, ServerSent
      <3>3. TypeOK'
        <4>1. RingTypeOK'
          <5>1. place' \in [Buffers -> Places] /\ mem' \in [Buffers -> Contents]
            BY <1>11, <2>1, <3>1, <3>2 DEF CFinish, TypeOK, RingTypeOK, ClientTypeOK,
               ServerTypeOK, Contents, Places, Buffers, NsCreate, NsDestroy, Rounds
          <5>2. sKick' \in BOOLEAN /\ cKick' \in BOOLEAN
            BY <1>11, <2>1, <3>1, <3>2 DEF CFinish, TypeOK, RingTypeOK, ClientTypeOK,
               ServerTypeOK
          <5> QED BY <1>11, <2>1, <3>1, <3>2, <5>1, <5>2 DEF CFinish, TypeOK,
              RingTypeOK, ClientTypeOK, ServerTypeOK
        <4>2. ClientTypeOK'
          BY <1>11, <2>1, <3>1, <3>2 DEF CFinish, TypeOK, RingTypeOK, ClientTypeOK,
             ServerTypeOK, Rounds, Flow, Lists, ClientTakes, ServerTakes, Contents
        <4>3. ServerTypeOK'
          <5>1. shutdown_req' \in BOOLEAN
            BY <1>11, <2>1, <3>1, <3>2 DEF CFinish, TypeOK, RingTypeOK, ClientTypeOK,
               ServerTypeOK
          <5> QED BY <1>11, <2>1, <3>1, <3>2, <5>1 DEF CFinish, TypeOK, RingTypeOK,
              ClientTypeOK, ServerTypeOK, Rounds, Flow, Lists, ClientTakes, ServerTakes,
              Contents
        <4> QED BY <4>1, <4>2, <4>3 DEF TypeOK
      <3>4. Rings'
        BY <1>11, <2>1, <3>1, <3>2 DEF CFinish, DestroyToServer, TypeOK, RingTypeOK,
           Rings, Buffers
      <3>5. Lists'
        BY <1>11, <2>1, <3>1, <3>2 DEF CFinish, DestroyToServer, TypeOK, RingTypeOK,
           Lists, Released, Buffers
      <3>6. Flow'
        BY <1>11, <2>1, <3>1, <3>2 DEF CFinish, DestroyToServer, TypeOK, RingTypeOK,
           ClientTypeOK, ServerTypeOK, Rings, Lists, Released, Flow, Rounds, Pending,
           Nothing, Buffers, NsCreate, NsDestroy
      <3>7. Rounds'
        BY <1>11, <2>1, <3>1, <3>2 DEF CFinish, DestroyToServer, Rounds, ReportHonest
      <3>8. ClientTakes'
        BY <1>11, <2>1, <3>1, <3>2 DEF CFinish, DestroyToServer, ClientTakes, LostOf
      <3>9. ServerTakes'
        BY <1>11, <2>1, <3>1, <3>2 DEF CFinish, DestroyToServer, ServerTakes, LostOf
      <3>10. Stops'
        BY <1>11, <2>1, <3>1, <3>2 DEF CFinish, DestroyToServer, TypeOK, RingTypeOK,
           ClientTypeOK, ServerTypeOK, Stops, ServerStopsLast, Nothing, Pending,
           Buffers, NsCreate, NsDestroy, Rounds, Flow, Lists, ServerTakes
      <3> QED BY <3>3, <3>4, <3>5, <3>6, <3>7, <3>8, <3>9, <3>10 DEF IInv
    <2>2. CASE UNCHANGED <<place, mem, toS, sKick>>
      <3>1. TypeOK'
        BY <1>11, <2>2 DEF CFinish, DestroyToServer, TypeOK, RingTypeOK, ClientTypeOK,
           ServerTypeOK
      <3>2. Rings'
        BY <1>11, <2>2 DEF CFinish, DestroyToServer, TypeOK, RingTypeOK, Rings, Buffers
      <3>3. Lists'
        BY <1>11, <2>2 DEF CFinish, DestroyToServer, TypeOK, RingTypeOK, Lists,
           Released, Buffers
      <3>4. Flow'
        BY <1>11, <2>2 DEF CFinish, DestroyToServer, Flow, Pending, Nothing
      <3>5. Rounds'
        BY <1>11, <2>2 DEF CFinish, DestroyToServer, Rounds, ReportHonest
      <3>6. ClientTakes'
        BY <1>11, <2>2 DEF CFinish, DestroyToServer, ClientTakes, LostOf
      <3>7. ServerTakes'
        BY <1>11, <2>2 DEF CFinish, DestroyToServer, ServerTakes, LostOf
      <3>8. Stops'
        BY <1>11, <2>2 DEF CFinish, DestroyToServer, Flow, Stops, ServerStopsLast, Nothing,
           Pending
      <3> QED BY <3>1, <3>2, <3>3, <3>4, <3>5, <3>6, <3>7, <3>8 DEF IInv
    <2> QED BY <1>11, <2>1, <2>2 DEF CFinish, DestroyToServer
  <1>12. CASE CWake
    <2>1. TypeOK'
      <3>1. RingTypeOK'
        <4>1. place' \in [Buffers -> Places] /\ mem' \in [Buffers -> Contents]
          BY <1>12 DEF CWake, TypeOK, RingTypeOK, ClientTypeOK, ServerTypeOK, Contents,
             Places, Buffers, NsCreate, NsDestroy, Rounds
        <4>2. sKick' \in BOOLEAN /\ cKick' \in BOOLEAN
          BY <1>12 DEF CWake, TypeOK, RingTypeOK, ClientTypeOK, ServerTypeOK
        <4> QED BY <1>12, <4>1, <4>2 DEF CWake, TypeOK, RingTypeOK, ClientTypeOK,
            ServerTypeOK
      <3>2. ClientTypeOK'
        BY <1>12 DEF CWake, TypeOK, RingTypeOK, ClientTypeOK, ServerTypeOK, Rounds,
           Flow, Lists, ClientTakes, ServerTakes, Contents
      <3>3. ServerTypeOK'
        <4>1. shutdown_req' \in BOOLEAN
          BY <1>12 DEF CWake, TypeOK, RingTypeOK, ClientTypeOK, ServerTypeOK
        <4> QED BY <1>12, <4>1 DEF CWake, TypeOK, RingTypeOK, ClientTypeOK,
            ServerTypeOK, Rounds, Flow, Lists, ClientTakes, ServerTakes, Contents
      <3> QED BY <3>1, <3>2, <3>3 DEF TypeOK
    <2>2. Rings'
      BY <1>12 DEF CWake, TypeOK, RingTypeOK, Rings, Buffers
    <2>3. Lists'
      BY <1>12 DEF CWake, TypeOK, RingTypeOK, Lists, Released, Buffers
    <2>4. Flow'
      BY <1>12 DEF CWake, Flow, Pending, Nothing
    <2>5. Rounds'
      BY <1>12 DEF CWake, Rounds, ReportHonest
    <2>6. ClientTakes'
      BY <1>12 DEF CWake, ClientTakes, LostOf
    <2>7. ServerTakes'
      BY <1>12 DEF CWake, ServerTakes, LostOf
    <2>8. Stops'
      BY <1>12 DEF CWake, Stops, ServerStopsLast, Nothing, Pending
    <2> QED BY <2>1, <2>2, <2>3, <2>4, <2>5, <2>6, <2>7, <2>8 DEF IInv
  <1>13. CASE CDrained
    <2>1. TypeOK'
      BY <1>13 DEF CDrained, TypeOK, RingTypeOK, ClientTypeOK, ServerTypeOK
    <2>2. Rings'
      BY <1>13 DEF CDrained, TypeOK, RingTypeOK, Rings, Buffers
    <2>3. Lists'
      BY <1>13 DEF CDrained, TypeOK, RingTypeOK, Lists, Released, Buffers
    <2>4. Flow'
      BY <1>13 DEF CDrained, Flow, Pending, Nothing
    <2>5. Rounds'
      BY <1>13 DEF CDrained, Rounds, ReportHonest
    <2>6. ClientTakes'
      BY <1>13 DEF CDrained, ClientTakes, LostOf
    <2>7. ServerTakes'
      BY <1>13 DEF CDrained, ServerTakes, LostOf
    <2>8. Stops'
      BY <1>13 DEF CDrained, Stops, ServerStopsLast, Nothing, Pending
    <2> QED BY <2>1, <2>2, <2>3, <2>4, <2>5, <2>6, <2>7, <2>8 DEF IInv
  <1>14. ASSUME NEW b \in SBuf, CReceive(b) PROVE IInv'
    <2>1. /\ toC' \in Seq(SBuf) /\ OnceEach(toC') /\ place[b] = "ring"
          /\ \A x : x \in Members(toC') <=> x \in Members(toC) /\ x # b
      BY <1>14, ClientTook DEF CReceive
    <2>2. Pending(b) /\ mem[b] = i /\ cpc = "await" /\ rnum = i
      BY <1>14, <2>1 DEF CReceive, Pending, Flow, Nothing, Lists, Rounds, Buffers,
         TypeOK, RingTypeOK, ClientTypeOK, ServerTypeOK
    <2>3. TypeOK'
      <3>1. RingTypeOK'
        <4>1. place' \in [Buffers -> Places] /\ mem' \in [Buffers -> Contents]
          BY <1>14, <2>1, <2>2 DEF CReceive, TypeOK, RingTypeOK, ClientTypeOK,
             ServerTypeOK, Contents, Places, Buffers, NsCreate, NsDestroy, Rounds
        <4>2. sKick' \in BOOLEAN /\ cKick' \in BOOLEAN
          BY <1>14, <2>1, <2>2 DEF CReceive, TypeOK, RingTypeOK, ClientTypeOK,
             ServerTypeOK
        <4> QED BY <1>14, <2>1, <2>2, <4>1, <4>2 DEF CReceive, TypeOK, RingTypeOK,
            ClientTypeOK, ServerTypeOK
      <3>2. ClientTypeOK'
        BY <1>14, <2>1, <2>2 DEF CReceive, TypeOK, RingTypeOK, ClientTypeOK,
           ServerTypeOK, Rounds, Flow, Lists, ClientTakes, ServerTakes, Contents
      <3>3. ServerTypeOK'
        <4>1. shutdown_req' \in BOOLEAN
          BY <1>14, <2>1, <2>2 DEF CReceive, TypeOK, RingTypeOK, ClientTypeOK,
             ServerTypeOK
        <4> QED BY <1>14, <2>1, <2>2, <4>1 DEF CReceive, TypeOK, RingTypeOK,
            ClientTypeOK, ServerTypeOK, Rounds, Flow, Lists, ClientTakes, ServerTakes,
            Contents
      <3> QED BY <3>1, <3>2, <3>3 DEF TypeOK
    <2>4. Rings'
      BY <1>14, <2>1, <2>2 DEF CReceive, TypeOK, RingTypeOK, Rings, Buffers
    <2>5. Lists'
      BY <1>14, <2>1, <2>2 DEF CReceive, TypeOK, RingTypeOK, Lists, Released, Buffers
    <2>6. Flow'
      <3>1. \/ place' = [place EXCEPT ![b] = "free"] /\ UNCHANGED <<rcv_msg, rnum>>
            \/ place' = [place EXCEPT ![b] = "held"] /\ rcv_msg' = b /\ rnum' = i + 1
        BY <1>14, <2>1, <2>2 DEF CReceive
      <3>6. UNCHANGED <<mem, i, cpc, spc, rpmsg_list, i_payload>>
        BY <1>14 DEF CReceive
      <3>2. \A a \in Buffers : place[a] = "held" /\ a \in SBuf => FALSE
        BY <2>2 DEF Flow, TypeOK, RingTypeOK, ClientTypeOK, ServerTypeOK
      <3>3. \A a \in Buffers : Pending(a)' => Pending(a) /\ a # b
        BY <3>1, <3>6 DEF Pending, Buffers, TypeOK, RingTypeOK, ClientTypeOK, ServerTypeOK
      <3>4. Nothing'
        BY <2>2, <3>3 DEF Nothing, Flow, Buffers
      <3>5. /\ rnum' = i' \/ (rnum' = i' + 1 /\ rcv_msg' = b /\ place'[b] = "held" /\ mem'[b] = i')
            /\ \A a \in SBuf : place'[a] = "held" => a = b /\ rnum' = i' + 1 /\ rcv_msg' = b
        BY <2>2, <3>1, <3>2, <3>6 DEF Buffers, TypeOK, RingTypeOK, ClientTypeOK, ServerTypeOK
      <3>7. i' \in Nat /\ i' # i' + 1
        BY <3>6 DEF TypeOK, ClientTypeOK
      <3> QED BY <2>2, <3>4, <3>5, <3>6, <3>7 DEF Flow, Nothing
    <2>7. Rounds'
      BY <1>14, <2>1, <2>2 DEF CReceive, Rounds, ReportHonest
    <2>8. ClientTakes'
      BY <1>14, <2>1, <2>2 DEF CReceive, TypeOK, RingTypeOK, ClientTypeOK, ServerTypeOK,
         ClientTakes, LostOf, Buffers, Rounds, Rings, Lists
    <2>9. ServerTakes'
      BY <1>14, <2>1, <2>2 DEF CReceive, TypeOK, RingTypeOK, ClientTypeOK, ServerTypeOK,
         ServerTakes, LostOf, Buffers, Rings, Lists
    <2>10. Stops'
      BY <1>14, <2>1, <2>2 DEF CReceive, TypeOK, RingTypeOK, ClientTypeOK, ServerTypeOK,
         Stops, ServerStopsLast, Nothing, Pending, Buffers, NsCreate, NsDestroy, Rounds,
         Flow, Lists, ServerTakes
    <2> QED BY <2>3, <2>4, <2>5, <2>6, <2>7, <2>8, <2>9, <2>10 DEF IInv
  <1>15. ASSUME NEW b \in SBuf, CBind(b) PROVE IInv'
    <2>1. /\ toC' \in Seq(SBuf) /\ OnceEach(toC') /\ place[b] = "ring"
          /\ \A x : x \in Members(toC') <=> x \in Members(toC) /\ x # b
      BY <1>15, ClientTook DEF CBind
    <2>2. TypeOK'
      <3>1. RingTypeOK'
        <4>1. place' \in [Buffers -> Places] /\ mem' \in [Buffers -> Contents]
          BY <1>15, <2>1 DEF CBind, TypeOK, RingTypeOK, ClientTypeOK, ServerTypeOK,
             Contents, Places, Buffers, NsCreate, NsDestroy, Rounds
        <4>2. sKick' \in BOOLEAN /\ cKick' \in BOOLEAN
          BY <1>15, <2>1 DEF CBind, TypeOK, RingTypeOK, ClientTypeOK, ServerTypeOK
        <4> QED BY <1>15, <2>1, <4>1, <4>2 DEF CBind, TypeOK, RingTypeOK, ClientTypeOK,
            ServerTypeOK
      <3>2. ClientTypeOK'
        BY <1>15, <2>1 DEF CBind, TypeOK, RingTypeOK, ClientTypeOK, ServerTypeOK,
           Rounds, Flow, Lists, ClientTakes, ServerTakes, Contents
      <3>3. ServerTypeOK'
        <4>1. shutdown_req' \in BOOLEAN
          BY <1>15, <2>1 DEF CBind, TypeOK, RingTypeOK, ClientTypeOK, ServerTypeOK
        <4> QED BY <1>15, <2>1, <4>1 DEF CBind, TypeOK, RingTypeOK, ClientTypeOK,
            ServerTypeOK, Rounds, Flow, Lists, ClientTakes, ServerTakes, Contents
      <3> QED BY <3>1, <3>2, <3>3 DEF TypeOK
    <2>3. Rings'
      BY <1>15, <2>1 DEF CBind, TypeOK, RingTypeOK, Rings, Buffers
    <2>4. Lists'
      BY <1>15, <2>1 DEF CBind, TypeOK, RingTypeOK, Lists, Released, Buffers
    <2>5. Flow'
      BY <1>15, <2>1 DEF CBind, Flow, Pending, Nothing
    <2>6. Rounds'
      BY <1>15, <2>1 DEF CBind, Lists, Rounds, ReportHonest
    <2>7. ClientTakes'
      BY <1>15, <2>1 DEF CBind, ClientTakes, LostOf
    <2>8. ServerTakes'
      BY <1>15, <2>1 DEF CBind, ServerTakes, LostOf
    <2>9. Stops'
      BY <1>15, <2>1 DEF CBind, Stops, ServerStopsLast, Nothing, Pending
    <2> QED BY <2>2, <2>3, <2>4, <2>5, <2>6, <2>7, <2>8, <2>9 DEF IInv
  <1>16. ASSUME NEW b \in SBuf, CUnbind(b) PROVE IInv'
    <2>1. /\ toC' \in Seq(SBuf) /\ OnceEach(toC') /\ place[b] = "ring" /\ mem[b] = NsDestroy
          /\ \A x : x \in Members(toC') <=> x \in Members(toC) /\ x # b
      BY <1>16, ClientTook DEF CUnbind
    <2>2. spc = "ended" /\ cpc \in {"ready", "await"} /\ faults # {} /\ cEpt' = "none"
      BY <1>16, <2>1 DEF CUnbind, Stops, ServerStopsLast, Lists
    <2>3. UNCHANGED <<variant, faults, cKick, cpc, cPoll, cList, i_payload, i, err_cnt, verified,
                      rcv_msg, rnum, serverVars>>
      BY <1>16 DEF CUnbind
    <2>4. CASE UNCHANGED <<mem, toS, sKick>> /\ place' = [place EXCEPT ![b] = "free"]
      <3>1. TypeOK'
        BY <2>1, <2>2, <2>3, <2>4 DEF TypeOK, RingTypeOK, ClientTypeOK, ServerTypeOK, Places,
           Buffers
      <3>2. Rings'
        BY <2>1, <2>3, <2>4 DEF TypeOK, RingTypeOK, Rings, Buffers
      <3>3. Lists'
        BY <2>1, <2>3, <2>4 DEF TypeOK, RingTypeOK, Lists, Released, Buffers
      <3>4. Flow'
        BY <2>1, <2>2, <2>3, <2>4 DEF TypeOK, RingTypeOK, ClientTypeOK, Flow, Pending, Nothing,
           Buffers
      <3>5. Rounds'
        BY <2>2, <2>3, <2>4 DEF Rounds, ReportHonest
      <3>6. ClientTakes'
        BY <2>1, <2>2, <2>3, <2>4 DEF TypeOK, RingTypeOK, ClientTakes, LostOf, Buffers
      <3>7. ServerTakes'
        BY <2>1, <2>2, <2>3, <2>4 DEF TypeOK, RingTypeOK, ServerTakes, LostOf, Buffers
      <3>8. Stops'
        BY <2>1, <2>2, <2>3, <2>4 DEF TypeOK, RingTypeOK, Stops, ServerStopsLast, NsDestroy,
           Buffers
      <3> QED BY <3>1, <3>2, <3>3, <3>4, <3>5, <3>6, <3>7, <3>8 DEF IInv
    <2>5. ASSUME NEW c \in Free(CBuf), place' = [place EXCEPT ![b] = "free", ![c] = "ring"],
                 mem' = [mem EXCEPT ![c] = NsDestroy], toS' = Append(toS, c), sKick' = TRUE
          PROVE  IInv'
      <3>1. /\ c \in CBuf /\ c \in Buffers /\ b \in Buffers /\ c # b /\ place[c] = "free"
            /\ NsDestroy \in Contents /\ ~(NsDestroy < N)
        BY DEF Buffers, Contents, NsDestroy
      <3>2. /\ toS' \in Seq(CBuf) /\ OnceEach(toS')
            /\ \A x : x \in Members(toS') <=> x \in Members(toS) \/ x = c
        BY <2>5, <3>1, ServerSent
      <3>3. \A x \in Buffers :
              /\ place'[x] = IF x = c THEN "ring" ELSE IF x = b THEN "free" ELSE place[x]
              /\ mem'[x] = IF x = c THEN NsDestroy ELSE mem[x]
        BY <2>5, <3>1 DEF TypeOK, RingTypeOK
      <3>4. TypeOK'
        <4>1. place' \in [Buffers -> Places] /\ mem' \in [Buffers -> Contents]
          BY <2>5, <3>1 DEF TypeOK, RingTypeOK, Places
        <4>2. RingTypeOK'
          BY <2>1, <2>3, <2>5, <3>2, <4>1 DEF TypeOK, RingTypeOK
        <4>3. ClientTypeOK' /\ ServerTypeOK'
          BY <2>2, <2>3 DEF TypeOK, ClientTypeOK, ServerTypeOK
        <4> QED BY <4>2, <4>3 DEF TypeOK
      <3>5. Rings'
        BY <2>1, <3>1, <3>2, <3>3 DEF Rings, Buffers
      <3>6. Lists'
        BY <2>1, <2>3, <3>1, <3>3 DEF Lists, Released, Buffers
      <3>7. Flow'
        <4>1. \A x \in Buffers : Pending(x)' => Pending(x) /\ mem'[x] = mem[x]
          BY <2>3, <3>1, <3>3 DEF Pending, NsDestroy, Buffers
        <4>2. Nothing => Nothing'
          BY <4>1 DEF Nothing, Buffers
        <4>3. \A x \in SBuf : /\ place'[x] = "held" <=> place[x] = "held"
                              /\ mem'[x] = mem[x]
          BY <2>1, <3>1, <3>3 DEF Buffers
        <4> QED BY <2>2, <2>3, <4>1, <4>2, <4>3 DEF Flow, Buffers
      <3>8. Rounds'
        BY <2>2, <2>3 DEF Rounds, ReportHonest
      <3>9. ClientTakes'
        BY <2>1, <2>2, <2>3, <3>1, <3>3 DEF ClientTakes, LostOf, Buffers
      <3>10. ServerTakes'
        BY <2>1, <2>2, <2>3, <3>1, <3>3 DEF ServerTakes, LostOf, Buffers
      <3>11. Stops'
        BY <2>1, <2>2, <2>3, <3>1, <3>3 DEF Stops, ServerStopsLast, NsDestroy, Buffers
      <3> QED BY <3>4, <3>5, <3>6, <3>7, <3>8, <3>9, <3>10, <3>11 DEF IInv
    <2> QED BY <1>16, <2>4, <2>5 DEF CUnbind
  <1> QED BY <1>1, <1>2, <1>3, <1>4, <1>5, <1>6, <1>7, <1>8, <1>9, <1>10, <1>11, <1>12,
      <1>13, <1>14, <1>15, <1>16 DEF Client

(* Every step of the server keeps the invariant.                           *)
LEMMA ServerStep ==
  ASSUME IInv, Server
  PROVE  IInv'
  <1> USE NocopyAssumption DEF IInv, AppAt, Goto, CallPoll, AppFrame, ServAt, SGoto,
      SCallPoll, ServFrame, Move, NothingMoves, NothingSent, NoAnswer, FillAndSend,
      Free, CDispatch, SDispatch, ringVars, clientVars, serverVars
  <1>1. CASE SCreate
    <2>1. CASE /\ SendToClient(NsCreate) /\ spc' \in {"gettx", "loop"}
               /\ (spc' = "gettx" <=> variant = "test")
      <3>1. PICK b \in SBuf : /\ place[b] = "free" /\ place' = [place EXCEPT ![b] = "ring"]
                              /\ mem' = [mem EXCEPT ![b] = NsCreate] /\ toC' = Append(toC, b) /\ cKick' = TRUE
        BY <1>1, <2>1 DEF SendToClient
      <3>2. /\ toC' \in Seq(SBuf) /\ OnceEach(toC')
            /\ \A x : x \in Members(toC') <=> x \in Members(toC) \/ x = b
        BY <1>1, <2>1, <3>1, ClientSent
      <3>3. TypeOK'
        <4>1. RingTypeOK'
          <5>1. place' \in [Buffers -> Places] /\ mem' \in [Buffers -> Contents]
            BY <1>1, <2>1, <3>1, <3>2 DEF SCreate, TypeOK, RingTypeOK, ClientTypeOK,
               ServerTypeOK, Contents, Places, Buffers, NsCreate, NsDestroy, Rounds
          <5>2. sKick' \in BOOLEAN /\ cKick' \in BOOLEAN
            BY <1>1, <2>1, <3>1, <3>2 DEF SCreate, TypeOK, RingTypeOK, ClientTypeOK,
               ServerTypeOK
          <5> QED BY <1>1, <2>1, <3>1, <3>2, <5>1, <5>2 DEF SCreate, TypeOK, RingTypeOK,
              ClientTypeOK, ServerTypeOK
        <4>2. ClientTypeOK'
          BY <1>1, <2>1, <3>1, <3>2 DEF SCreate, TypeOK, RingTypeOK, ClientTypeOK,
             ServerTypeOK, Rounds, Flow, Lists, ClientTakes, ServerTakes, Contents
        <4>3. ServerTypeOK'
          <5>1. shutdown_req' \in BOOLEAN
            BY <1>1, <2>1, <3>1, <3>2 DEF SCreate, TypeOK, RingTypeOK, ClientTypeOK,
               ServerTypeOK
          <5> QED BY <1>1, <2>1, <3>1, <3>2, <5>1 DEF SCreate, TypeOK, RingTypeOK,
              ClientTypeOK, ServerTypeOK, Rounds, Flow, Lists, ClientTakes, ServerTakes,
              Contents
        <4> QED BY <4>1, <4>2, <4>3 DEF TypeOK
      <3>4. Rings'
        BY <1>1, <2>1, <3>1, <3>2 DEF SCreate, TypeOK, RingTypeOK, Rings, Buffers
      <3>5. Lists'
        BY <1>1, <2>1, <3>1, <3>2 DEF SCreate, TypeOK, RingTypeOK, Lists, Released,
           Buffers
      <3>6. Flow'
        BY <1>1, <2>1, <3>1, <3>2 DEF SCreate, TypeOK, RingTypeOK, ClientTypeOK,
           ServerTypeOK, Rings, Lists, Released, Flow, Rounds, Pending, Nothing,
           Buffers, NsCreate, NsDestroy
      <3>7. Rounds'
        BY <1>1, <2>1, <3>1, <3>2 DEF SCreate, Rounds, ReportHonest
      <3>8. ClientTakes'
        BY <1>1, <2>1, <3>1, <3>2 DEF SCreate, ClientTakes, LostOf
      <3>9. ServerTakes'
        BY <1>1, <2>1, <3>1, <3>2 DEF SCreate, ServerTakes, LostOf
      <3>10. Stops'
        BY <1>1, <2>1, <3>1, <3>2 DEF SCreate, TypeOK, RingTypeOK, ClientTypeOK,
           ServerTypeOK, Stops, ServerStopsLast, Nothing, Pending, Buffers, NsCreate,
           NsDestroy, Rounds, Flow, Lists, ServerTakes
      <3> QED BY <3>3, <3>4, <3>5, <3>6, <3>7, <3>8, <3>9, <3>10 DEF IInv
    <2>2. CASE "create" \in faults /\ spc' = "ended" /\ UNCHANGED <<place, mem, toC, cKick>>
      <3>1. TypeOK'
        BY <1>1, <2>2 DEF SCreate, TypeOK, RingTypeOK, ClientTypeOK, ServerTypeOK
      <3>2. Rings'
        BY <1>1, <2>2 DEF SCreate, TypeOK, RingTypeOK, Rings, Buffers
      <3>3. Lists'
        BY <1>1, <2>2 DEF SCreate, TypeOK, RingTypeOK, Lists, Released, Buffers
      <3>4. Flow'
        BY <1>1, <2>2 DEF SCreate, Flow, Pending, Nothing
      <3>5. Rounds'
        BY <1>1, <2>2 DEF SCreate, Rounds, ReportHonest
      <3>6. ClientTakes'
        BY <1>1, <2>2 DEF SCreate, ClientTakes, LostOf
      <3>7. ServerTakes'
        BY <1>1, <2>2 DEF SCreate, ServerTakes, LostOf
      <3>8. Stops'
        BY <1>1, <2>2 DEF SCreate, Stops, ServerStopsLast, Nothing, Pending
      <3> QED BY <3>1, <3>2, <3>3, <3>4, <3>5, <3>6, <3>7, <3>8 DEF IInv
    <2> QED BY <1>1, <2>1, <2>2 DEF SCreate
  <1>2. CASE SGetTx
    <2>1. CASE \E b \in Free(SBuf) : Move(b, "taken") /\ sList' = Append(sList, b)
      <3>1. PICK b \in SBuf : /\ place[b] = "free"
                              /\ place' = [place EXCEPT ![b] = "taken"] /\ sList' = Append(sList, b)
        BY <1>2, <2>1
      <3>2. /\ sList' \in Seq(SBuf \cup {None}) /\ Len(sList') = Len(sList) + 1
            /\ OnceEach(sList')
            /\ \A x : x \in Members(sList') <=> x \in Members(sList) \/ x = b
        BY <1>2, <2>1, <3>1, ServerListed
      <3>3. TypeOK'
        BY <1>2, <2>1, <3>1, <3>2 DEF SGetTx, TypeOK, RingTypeOK, ClientTypeOK,
           ServerTypeOK, Rounds, Flow, Lists, ClientTakes, ServerTakes, Contents,
           Places, Buffers
      <3>4. Rings'
        BY <1>2, <2>1, <3>1, <3>2 DEF SGetTx, TypeOK, RingTypeOK, Rings, Buffers
      <3>5. Lists'
        BY <1>2, <2>1, <3>1, <3>2 DEF SGetTx, TypeOK, RingTypeOK, Lists, Released,
           Buffers
      <3>6. Flow'
        BY <1>2, <2>1, <3>1, <3>2 DEF SGetTx, Flow, Pending, Nothing
      <3>7. Rounds'
        BY <1>2, <2>1, <3>1, <3>2 DEF SGetTx, Rounds, ReportHonest
      <3>8. ClientTakes'
        BY <1>2, <2>1, <3>1, <3>2 DEF SGetTx, ClientTakes, LostOf
      <3>9. ServerTakes'
        BY <1>2, <2>1, <3>1, <3>2 DEF SGetTx, TypeOK, RingTypeOK, ClientTypeOK,
           ServerTypeOK, ServerTakes, LostOf, Buffers, Rings, Lists
      <3>10. Stops'
        BY <1>2, <2>1, <3>1, <3>2 DEF SGetTx, Stops, ServerStopsLast, Nothing, Pending
      <3> QED BY <3>3, <3>4, <3>5, <3>6, <3>7, <3>8, <3>9, <3>10 DEF IInv
    <2>2. CASE "get" \in faults /\ sList' = Append(sList, None) /\ UNCHANGED place
      <3>1. /\ sList' \in Seq(SBuf \cup {None}) /\ Len(sList') = Len(sList) + 1
            /\ OnceEach(sList')
            /\ \A x : x \in Members(sList') <=> x \in Members(sList) \/ x = None
        BY <1>2, <2>2, ServerListed
      <3>2. TypeOK'
        BY <1>2, <2>2, <3>1 DEF SGetTx, TypeOK, RingTypeOK, ClientTypeOK, ServerTypeOK,
           Rounds, Flow, Lists, ClientTakes, ServerTakes, Contents, Places, Buffers
      <3>3. Rings'
        BY <1>2, <2>2, <3>1 DEF SGetTx, TypeOK, RingTypeOK, Rings, Buffers
      <3>4. Lists'
        BY <1>2, <2>2, <3>1 DEF SGetTx, TypeOK, RingTypeOK, Lists, Released, Buffers
      <3>5. Flow'
        BY <1>2, <2>2, <3>1 DEF SGetTx, Flow, Pending, Nothing
      <3>6. Rounds'
        BY <1>2, <2>2, <3>1 DEF SGetTx, Rounds, ReportHonest
      <3>7. ClientTakes'
        BY <1>2, <2>2, <3>1 DEF SGetTx, ClientTakes, LostOf
      <3>8. ServerTakes'
        BY <1>2, <2>2, <3>1 DEF SGetTx, ServerTakes, LostOf
      <3>9. Stops'
        BY <1>2, <2>2, <3>1 DEF SGetTx, Stops, ServerStopsLast, Nothing, Pending
      <3> QED BY <3>2, <3>3, <3>4, <3>5, <3>6, <3>7, <3>8, <3>9 DEF IInv
    <2> QED BY <1>2, <2>1, <2>2 DEF SGetTx
  <1>3. CASE SGiveTx
    <2>1. CASE Len(sList) = 1 /\ spc' = "loop" /\ UNCHANGED <<place, sList>>
      <3>1. \A x : x \in Members(sList) <=> x = sList[1]
        BY <1>3, <2>1, ShortLists DEF TypeOK, ClientTypeOK, ServerTypeOK
      <3>2. TypeOK'
        <4>1. RingTypeOK'
          <5>1. place' \in [Buffers -> Places] /\ mem' \in [Buffers -> Contents]
            BY <1>3, <2>1, <3>1 DEF SGiveTx, TypeOK, RingTypeOK, ClientTypeOK,
               ServerTypeOK, Contents, Places, Buffers, NsCreate, NsDestroy, Rounds
          <5>2. sKick' \in BOOLEAN /\ cKick' \in BOOLEAN
            BY <1>3, <2>1, <3>1 DEF SGiveTx, TypeOK, RingTypeOK, ClientTypeOK,
               ServerTypeOK
          <5> QED BY <1>3, <2>1, <3>1, <5>1, <5>2 DEF SGiveTx, TypeOK, RingTypeOK,
              ClientTypeOK, ServerTypeOK
        <4>2. ClientTypeOK'
          BY <1>3, <2>1, <3>1 DEF SGiveTx, TypeOK, RingTypeOK, ClientTypeOK,
             ServerTypeOK, Rounds, Flow, Lists, ClientTakes, ServerTakes, Contents
        <4>3. ServerTypeOK'
          <5>1. shutdown_req' \in BOOLEAN
            BY <1>3, <2>1, <3>1 DEF SGiveTx, TypeOK, RingTypeOK, ClientTypeOK,
               ServerTypeOK
          <5> QED BY <1>3, <2>1, <3>1, <5>1 DEF SGiveTx, TypeOK, RingTypeOK,
              ClientTypeOK, ServerTypeOK, Rounds, Flow, Lists, ClientTakes, ServerTakes,
              Contents
        <4> QED BY <4>1, <4>2, <4>3 DEF TypeOK
      <3>3. Rings'
        BY <1>3, <2>1, <3>1 DEF SGiveTx, TypeOK, RingTypeOK, Rings, Buffers
      <3>4. Lists'
        BY <1>3, <2>1, <3>1 DEF SGiveTx, TypeOK, RingTypeOK, Lists, Released, Buffers
      <3>5. Flow'
        BY <1>3, <2>1, <3>1 DEF SGiveTx, Flow, Pending, Nothing
      <3>6. Rounds'
        BY <1>3, <2>1, <3>1 DEF SGiveTx, Rounds, ReportHonest
      <3>7. ClientTakes'
        BY <1>3, <2>1, <3>1 DEF SGiveTx, ClientTakes, LostOf
      <3>8. ServerTakes'
        BY <1>3, <2>1, <3>1 DEF SGiveTx, ServerTakes, LostOf
      <3>9. Stops'
        BY <1>3, <2>1, <3>1 DEF SGiveTx, Stops, ServerStopsLast, Nothing, Pending
      <3> QED BY <3>2, <3>3, <3>4, <3>5, <3>6, <3>7, <3>8, <3>9 DEF IInv
    <2>2. CASE Len(sList) > 1 /\ Head(sList) # None /\ place' = [place EXCEPT ![Head(sList)] = "free"]
               /\ sList' = Tail(sList) /\ spc' = "givetx"
      <3>1. /\ sList' \in Seq(SBuf \cup {None}) /\ Len(sList') = Len(sList) - 1
            /\ OnceEach(sList')
            /\ Head(sList) \in SBuf /\ place[Head(sList)] = "taken"
            /\ \A x : x \in Members(sList') <=> x \in Members(sList) /\ x # Head(sList)
        BY <1>3, <2>2, ServerUnlisted
      <3>2. TypeOK'
        <4>1. RingTypeOK'
          <5>1. place' \in [Buffers -> Places] /\ mem' \in [Buffers -> Contents]
            BY <1>3, <2>2, <3>1 DEF SGiveTx, TypeOK, RingTypeOK, ClientTypeOK,
               ServerTypeOK, Contents, Places, Buffers, NsCreate, NsDestroy, Rounds
          <5>2. sKick' \in BOOLEAN /\ cKick' \in BOOLEAN
            BY <1>3, <2>2, <3>1 DEF SGiveTx, TypeOK, RingTypeOK, ClientTypeOK,
               ServerTypeOK
          <5> QED BY <1>3, <2>2, <3>1, <5>1, <5>2 DEF SGiveTx, TypeOK, RingTypeOK,
              ClientTypeOK, ServerTypeOK
        <4>2. ClientTypeOK'
          BY <1>3, <2>2, <3>1 DEF SGiveTx, TypeOK, RingTypeOK, ClientTypeOK,
             ServerTypeOK, Rounds, Flow, Lists, ClientTakes, ServerTakes, Contents
        <4>3. ServerTypeOK'
          <5>1. shutdown_req' \in BOOLEAN
            BY <1>3, <2>2, <3>1 DEF SGiveTx, TypeOK, RingTypeOK, ClientTypeOK,
               ServerTypeOK
          <5> QED BY <1>3, <2>2, <3>1, <5>1 DEF SGiveTx, TypeOK, RingTypeOK,
              ClientTypeOK, ServerTypeOK, Rounds, Flow, Lists, ClientTakes, ServerTakes,
              Contents
        <4> QED BY <4>1, <4>2, <4>3 DEF TypeOK
      <3>3. Rings'
        BY <1>3, <2>2, <3>1 DEF SGiveTx, TypeOK, RingTypeOK, Rings, Buffers
      <3>4. Lists'
        BY <1>3, <2>2, <3>1 DEF SGiveTx, TypeOK, RingTypeOK, Lists, Released, Buffers
      <3>5. Flow'
        BY <1>3, <2>2, <3>1 DEF SGiveTx, Flow, Pending, Nothing
      <3>6. Rounds'
        BY <1>3, <2>2, <3>1 DEF SGiveTx, Rounds, ReportHonest
      <3>7. ClientTakes'
        BY <1>3, <2>2, <3>1 DEF SGiveTx, ClientTakes, LostOf
      <3>8. ServerTakes'
        BY <1>3, <2>2, <3>1 DEF SGiveTx, TypeOK, RingTypeOK, ClientTypeOK, ServerTypeOK,
           ServerTakes, LostOf, Buffers, Rings, Lists
      <3>9. Stops'
        BY <1>3, <2>2, <3>1 DEF SGiveTx, Stops, ServerStopsLast, Nothing, Pending
      <3> QED BY <3>2, <3>3, <3>4, <3>5, <3>6, <3>7, <3>8, <3>9 DEF IInv
    <2>3. CASE /\ spc' = "leave" /\ UNCHANGED <<place, sList>>
               /\ Len(sList) > 1 /\ (Head(sList) = None \/ "giveback" \in faults)
      <3>1. faults # {}
        BY <1>3, <2>3, ServerHead DEF Stops
      <3>2. TypeOK'
        <4>1. RingTypeOK'
          <5>1. place' \in [Buffers -> Places] /\ mem' \in [Buffers -> Contents]
            BY <1>3, <2>3, <3>1 DEF SGiveTx, TypeOK, RingTypeOK, ClientTypeOK,
               ServerTypeOK, Contents, Places, Buffers, NsCreate, NsDestroy, Rounds
          <5>2. sKick' \in BOOLEAN /\ cKick' \in BOOLEAN
            BY <1>3, <2>3, <3>1 DEF SGiveTx, TypeOK, RingTypeOK, ClientTypeOK,
               ServerTypeOK
          <5> QED BY <1>3, <2>3, <3>1, <5>1, <5>2 DEF SGiveTx, TypeOK, RingTypeOK,
              ClientTypeOK, ServerTypeOK
        <4>2. ClientTypeOK'
          BY <1>3, <2>3, <3>1 DEF SGiveTx, TypeOK, RingTypeOK, ClientTypeOK,
             ServerTypeOK, Rounds, Flow, Lists, ClientTakes, ServerTakes, Contents
        <4>3. ServerTypeOK'
          <5>1. shutdown_req' \in BOOLEAN
            BY <1>3, <2>3, <3>1 DEF SGiveTx, TypeOK, RingTypeOK, ClientTypeOK,
               ServerTypeOK
          <5> QED BY <1>3, <2>3, <3>1, <5>1 DEF SGiveTx, TypeOK, RingTypeOK,
              ClientTypeOK, ServerTypeOK, Rounds, Flow, Lists, ClientTakes, ServerTakes,
              Contents
        <4> QED BY <4>1, <4>2, <4>3 DEF TypeOK
      <3>3. Rings'
        BY <1>3, <2>3, <3>1 DEF SGiveTx, TypeOK, RingTypeOK, Rings, Buffers
      <3>4. Lists'
        BY <1>3, <2>3, <3>1 DEF SGiveTx, TypeOK, RingTypeOK, Lists, Released, Buffers
      <3>5. Flow'
        BY <1>3, <2>3, <3>1 DEF SGiveTx, Flow, Pending, Nothing
      <3>6. Rounds'
        BY <1>3, <2>3, <3>1 DEF SGiveTx, Rounds, ReportHonest
      <3>7. ClientTakes'
        BY <1>3, <2>3, <3>1 DEF SGiveTx, ClientTakes, LostOf
      <3>8. ServerTakes'
        BY <1>3, <2>3, <3>1 DEF SGiveTx, ServerTakes, LostOf
      <3>9. Stops'
        BY <1>3, <2>3, <3>1 DEF SGiveTx, Stops, ServerStopsLast, Nothing, Pending
      <3> QED BY <3>2, <3>3, <3>4, <3>5, <3>6, <3>7, <3>8, <3>9 DEF IInv
    <2> QED BY <1>3, <2>1, <2>2, <2>3 DEF SGiveTx
  <1>4. CASE SLoop
    <2>1. TypeOK'
      BY <1>4 DEF SLoop, TypeOK, RingTypeOK, ClientTypeOK, ServerTypeOK
    <2>2. Rings'
      BY <1>4 DEF SLoop, TypeOK, RingTypeOK, Rings, Buffers
    <2>3. Lists'
      BY <1>4 DEF SLoop, TypeOK, RingTypeOK, Lists, Released, Buffers
    <2>4. Flow'
      BY <1>4 DEF SLoop, Flow, Pending, Nothing
    <2>5. Rounds'
      BY <1>4 DEF SLoop, Rounds, ReportHonest
    <2>6. ClientTakes'
      BY <1>4 DEF SLoop, ClientTakes, LostOf
    <2>7. ServerTakes'
      BY <1>4 DEF SLoop, ServerTakes, LostOf
    <2>8. Stops'
      <3>1. UNCHANGED <<place, mem, toS, toC, clientVars, faults, shutdown_req, sList, rpmsg_list>>
        BY <1>4 DEF SLoop
      <3>2. spc = "loop" /\ spc' = IF shutdown_req THEN "destroy" ELSE "echo"
        BY <1>4 DEF SLoop
      <3>3. \A b \in Buffers : Pending(b)' <=> Pending(b)
        BY <3>1, <3>2 DEF Pending
      <3>4. ASSUME faults = {}, shutdown_req PROVE rpmsg_list = <<>> /\ cpc = "ended"
        <4>1. cpc = "ended" /\ Nothing
          BY <3>4 DEF Stops
        <4>2. \A b \in CBuf : b \notin Members(rpmsg_list)
          BY <3>2, <4>1 DEF Nothing, Pending, Lists, Released, Buffers
        <4> QED BY <4>1, <4>2, ShortLists DEF TypeOK, RingTypeOK, ClientTypeOK,
            ServerTypeOK
      <3> QED BY <3>1, <3>2, <3>3, <3>4 DEF Stops, ServerStopsLast, Nothing
    <2> QED BY <2>1, <2>2, <2>3, <2>4, <2>5, <2>6, <2>7, <2>8 DEF IInv
  <1>5. CASE SEcho
    <2>1. CASE /\ rpmsg_list = <<>> /\ spc' = "loop" /\ sPoll' = "wait"
               /\ UNCHANGED <<place, mem, toC, cKick>>
      <3>1. TypeOK'
        BY <1>5, <2>1 DEF SEcho, TypeOK, RingTypeOK, ClientTypeOK, ServerTypeOK
      <3>2. Rings'
        BY <1>5, <2>1 DEF SEcho, TypeOK, RingTypeOK, Rings, Buffers
      <3>3. Lists'
        BY <1>5, <2>1 DEF SEcho, TypeOK, RingTypeOK, Lists, Released, Buffers
      <3>4. Flow'
        BY <1>5, <2>1 DEF SEcho, Flow, Pending, Nothing
      <3>5. Rounds'
        BY <1>5, <2>1 DEF SEcho, Rounds, ReportHonest
      <3>6. ClientTakes'
        BY <1>5, <2>1 DEF SEcho, ClientTakes, LostOf
      <3>7. ServerTakes'
        BY <1>5, <2>1 DEF SEcho, ServerTakes, LostOf
      <3>8. Stops'
        BY <1>5, <2>1 DEF SEcho, Stops, ServerStopsLast, Nothing, Pending
      <3> QED BY <3>1, <3>2, <3>3, <3>4, <3>5, <3>6, <3>7, <3>8 DEF IInv
    <2>2. CASE rpmsg_list # <<>> /\ SendToClient(mem[Head(rpmsg_list)]) /\ spc' = "release"
      <3>1. /\ Head(rpmsg_list) \in CBuf /\ Head(rpmsg_list) \in Members(rpmsg_list)
            /\ place[Head(rpmsg_list)] = "held"
        BY <1>5, <2>2, ListHead DEF SEcho, Released
      <3>2. PICK b \in SBuf : /\ place[b] = "free" /\ place' = [place EXCEPT ![b] = "ring"]
                              /\ mem' = [mem EXCEPT ![b] = mem[Head(rpmsg_list)]] /\ toC' = Append(toC, b) /\ cKick' = TRUE
        BY <1>5, <2>2, <3>1 DEF SendToClient
      <3>3. /\ toC' \in Seq(SBuf) /\ OnceEach(toC')
            /\ \A x : x \in Members(toC') <=> x \in Members(toC) \/ x = b
        BY <1>5, <2>2, <3>1, <3>2, ClientSent
      <3>4. Pending(Head(rpmsg_list)) /\ mem[Head(rpmsg_list)] = i /\ rnum = i
        BY <1>5, <2>2, <3>1, <3>2, <3>3 DEF SEcho, Pending, Flow, Nothing, Buffers
      <3>5. TypeOK'
        <4>1. RingTypeOK'
          <5>1. place' \in [Buffers -> Places] /\ mem' \in [Buffers -> Contents]
            BY <1>5, <2>2, <3>1, <3>2, <3>3, <3>4 DEF SEcho, TypeOK, RingTypeOK, Places,
               Contents, Buffers
          <5>2. toS' \in Seq(CBuf) /\ toC' \in Seq(SBuf)
            BY <1>5, <2>2, <3>1, <3>2, <3>3, <3>4 DEF SEcho, TypeOK, RingTypeOK
          <5>3. sKick' \in BOOLEAN /\ cKick' \in BOOLEAN
            BY <1>5, <2>2, <3>1, <3>2, <3>3, <3>4, Zenon DEF SEcho, TypeOK, RingTypeOK
          <5>4. variant' \in Variants /\ faults' \in FaultSets
            BY <1>5, <2>2, <3>1, <3>2, <3>3, <3>4 DEF SEcho, TypeOK, RingTypeOK
          <5> QED BY <5>1, <5>2, <5>3, <5>4, Zenon DEF RingTypeOK
        <4>2. ClientTypeOK'
          BY <1>5, <2>2, <3>1, <3>2, <3>3, <3>4
             DEF SEcho, TypeOK, RingTypeOK, ClientTypeOK, ServerTypeOK, Lists, Flow, Rounds,
                 ClientTakes, ServerTakes, Buffers
        <4>3. ServerTypeOK'
          BY <1>5, <2>2, <3>1, <3>2, <3>3, <3>4
             DEF SEcho, TypeOK, RingTypeOK, ClientTypeOK, ServerTypeOK, Lists, Flow, Rounds,
                 ClientTakes, ServerTakes, Buffers
        <4> QED BY <4>1, <4>2, <4>3 DEF TypeOK
      <3>6. Rings'
        BY <1>5, <2>2, <3>1, <3>2, <3>3, <3>4 DEF SEcho, TypeOK, RingTypeOK, Rings,
           Buffers
      <3>7. Lists'
        BY <1>5, <2>2, <3>1, <3>2, <3>3, <3>4 DEF SEcho, TypeOK, RingTypeOK, Lists,
           Released, Buffers
      <3>8. Flow'
        BY <1>5, <2>2, <3>1, <3>2, <3>3, <3>4 DEF SEcho, TypeOK, RingTypeOK,
           ClientTypeOK, ServerTypeOK, Rings, Lists, Released, Flow, Rounds, Pending,
           Nothing, Buffers, NsCreate, NsDestroy
      <3>9. Rounds'
        BY <1>5, <2>2, <3>1, <3>2, <3>3, <3>4 DEF SEcho, Rounds, ReportHonest
      <3>10. ClientTakes'
        BY <1>5, <2>2, <3>1, <3>2, <3>3, <3>4 DEF SEcho, ClientTakes, LostOf
      <3>11. ServerTakes'
        BY <1>5, <2>2, <3>1, <3>2, <3>3, <3>4 DEF SEcho, ServerTakes, LostOf
      <3>12. Stops'
        BY <1>5, <2>2, <3>1, <3>2, <3>3, <3>4 DEF SEcho, TypeOK, RingTypeOK,
           ClientTypeOK, ServerTypeOK, Stops, ServerStopsLast, Nothing, Pending,
           Buffers, NsCreate, NsDestroy, Rounds, Flow, Lists, ServerTakes
      <3> QED BY <3>5, <3>6, <3>7, <3>8, <3>9, <3>10, <3>11, <3>12 DEF IInv
    <2>3. CASE "answer" \in faults /\ spc' = "leave" /\ UNCHANGED <<place, mem, toC, cKick>>
      <3>1. TypeOK'
        BY <1>5, <2>3 DEF SEcho, TypeOK, RingTypeOK, ClientTypeOK, ServerTypeOK
      <3>2. Rings'
        BY <1>5, <2>3 DEF SEcho, TypeOK, RingTypeOK, Rings, Buffers
      <3>3. Lists'
        BY <1>5, <2>3 DEF SEcho, TypeOK, RingTypeOK, Lists, Released, Buffers
      <3>4. Flow'
        BY <1>5, <2>3 DEF SEcho, Flow, Pending, Nothing
      <3>5. Rounds'
        BY <1>5, <2>3 DEF SEcho, Rounds, ReportHonest
      <3>6. ClientTakes'
        BY <1>5, <2>3 DEF SEcho, ClientTakes, LostOf
      <3>7. ServerTakes'
        BY <1>5, <2>3 DEF SEcho, ServerTakes, LostOf
      <3>8. Stops'
        BY <1>5, <2>3 DEF SEcho, Stops, ServerStopsLast, Nothing, Pending
      <3> QED BY <3>1, <3>2, <3>3, <3>4, <3>5, <3>6, <3>7, <3>8 DEF IInv
    <2> QED BY <1>5, <2>1, <2>2, <2>3 DEF SEcho
  <1>6. CASE SRelease
    <2>1. CASE sI = 0 /\ variant = "test" /\ spc' = "discard" /\ UNCHANGED rpmsg_list
      <3>1. /\ Head(rpmsg_list) \in CBuf /\ Head(rpmsg_list) \in Members(rpmsg_list)
            /\ place[Head(rpmsg_list)] = "held"
        BY <1>6, <2>1, ListHead DEF SRelease, Lists, Released
      <3>2. TypeOK'
        BY <1>6, <2>1, <3>1 DEF SRelease, TypeOK, RingTypeOK, ClientTypeOK,
           ServerTypeOK, Rounds, Flow, Lists, ClientTakes, ServerTakes, Contents,
           Places, Buffers
      <3>3. Rings'
        BY <1>6, <2>1, <3>1 DEF SRelease, TypeOK, RingTypeOK, Rings, Buffers
      <3>4. Lists'
        BY <1>6, <2>1, <3>1 DEF SRelease, TypeOK, RingTypeOK, Lists, Released, Buffers
      <3>5. Flow'
        BY <1>6, <2>1, <3>1 DEF SRelease, TypeOK, RingTypeOK, ClientTypeOK,
           ServerTypeOK, Rings, Lists, Released, Flow, Rounds, Pending, Nothing,
           Buffers, NsCreate, NsDestroy
      <3>6. Rounds'
        BY <1>6, <2>1, <3>1 DEF SRelease, Rounds, ReportHonest
      <3>7. ClientTakes'
        BY <1>6, <2>1, <3>1 DEF SRelease, ClientTakes, LostOf
      <3>8. ServerTakes'
        BY <1>6, <2>1, <3>1 DEF SRelease, ServerTakes, LostOf
      <3>9. Stops'
        BY <1>6, <2>1, <3>1 DEF SRelease, TypeOK, RingTypeOK, ClientTypeOK,
           ServerTypeOK, Stops, ServerStopsLast, Nothing, Pending, Buffers, NsCreate,
           NsDestroy, Rounds, Flow, Lists, ServerTakes
      <3> QED BY <3>2, <3>3, <3>4, <3>5, <3>6, <3>7, <3>8, <3>9 DEF IInv
    <2>2. CASE spc' = "echo" /\ rpmsg_list' = Tail(rpmsg_list)
      <3>1. /\ Head(rpmsg_list) \in CBuf /\ Head(rpmsg_list) \in Members(rpmsg_list)
            /\ place[Head(rpmsg_list)] = "held"
        BY <1>6, <2>2, ListHead DEF SRelease, Lists, Released
      <3>2. /\ rpmsg_list' \in Seq(CBuf) /\ OnceEach(rpmsg_list')
            /\ \A x : x \in Members(rpmsg_list') <=> x \in Members(rpmsg_list) /\ x # Head(rpmsg_list)
        BY <1>6, <2>2, <3>1, ListShrank DEF SRelease, Lists
      <3>3. TypeOK'
        <4>1. RingTypeOK'
          <5>1. place' \in [Buffers -> Places] /\ mem' \in [Buffers -> Contents]
            BY <1>6, <2>2, <3>1, <3>2 DEF SRelease, TypeOK, RingTypeOK, Places, Contents,
               Buffers
          <5>2. toS' \in Seq(CBuf) /\ toC' \in Seq(SBuf)
            BY <1>6, <2>2, <3>1, <3>2 DEF SRelease, TypeOK, RingTypeOK
          <5>3. sKick' \in BOOLEAN /\ cKick' \in BOOLEAN
            BY <1>6, <2>2, <3>1, <3>2, Zenon DEF SRelease, TypeOK, RingTypeOK
          <5>4. variant' \in Variants /\ faults' \in FaultSets
            BY <1>6, <2>2, <3>1, <3>2 DEF SRelease, TypeOK, RingTypeOK
          <5> QED BY <5>1, <5>2, <5>3, <5>4, Zenon DEF RingTypeOK
        <4>2. ClientTypeOK'
          BY <1>6, <2>2, <3>1, <3>2
             DEF SRelease, TypeOK, RingTypeOK, ClientTypeOK, ServerTypeOK, Lists, Flow, Rounds,
                 ClientTakes, ServerTakes, Buffers
        <4>3. ServerTypeOK'
          BY <1>6, <2>2, <3>1, <3>2
             DEF SRelease, TypeOK, RingTypeOK, ClientTypeOK, ServerTypeOK, Lists, Flow, Rounds,
                 ClientTakes, ServerTakes, Buffers
        <4> QED BY <4>1, <4>2, <4>3 DEF TypeOK
      <3>4. Rings'
        BY <1>6, <2>2, <3>1, <3>2 DEF SRelease, TypeOK, RingTypeOK, Rings, Buffers
      <3>5. Lists'
        BY <1>6, <2>2, <3>1, <3>2 DEF SRelease, TypeOK, RingTypeOK, Lists, Released,
           Buffers
      <3>6. Flow'
        BY <1>6, <2>2, <3>1, <3>2 DEF SRelease, TypeOK, RingTypeOK, ClientTypeOK,
           ServerTypeOK, Rings, Lists, Released, Flow, Rounds, Pending, Nothing,
           Buffers, NsCreate, NsDestroy
      <3>7. Rounds'
        BY <1>6, <2>2, <3>1, <3>2 DEF SRelease, Rounds, ReportHonest
      <3>8. ClientTakes'
        BY <1>6, <2>2, <3>1, <3>2 DEF SRelease, ClientTakes, LostOf
      <3>9. ServerTakes'
        BY <1>6, <2>2, <3>1, <3>2 DEF SRelease, ServerTakes, LostOf
      <3>10. Stops'
        BY <1>6, <2>2, <3>1, <3>2 DEF SRelease, TypeOK, RingTypeOK, ClientTypeOK,
           ServerTypeOK, Stops, ServerStopsLast, Nothing, Pending, Buffers, NsCreate,
           NsDestroy, Rounds, Flow, Lists, ServerTakes
      <3> QED BY <3>3, <3>4, <3>5, <3>6, <3>7, <3>8, <3>9, <3>10 DEF IInv
    <2> QED BY <1>6, <2>1, <2>2 DEF SRelease
  <1>7. CASE SDiscard
    <2>1. CASE \E b \in Free(SBuf) : place' = [place EXCEPT ![b] = "taken"] /\ tx_msg' = b
               /\ (b # LostOf(sList) => SGoto("giveback"))
      <3>1. PICK b \in SBuf : /\ place[b] = "free"
                              /\ place' = [place EXCEPT ![b] = "taken"] /\ tx_msg' = b
                              /\ b # LostOf(sList) => SGoto("giveback")
        BY <1>7, <2>1
      <3>2. b \notin Members(sList) /\ b # LostOf(sList)
        BY <1>7, <2>1, <3>1, ServerLost
      <3>3. TypeOK'
        BY <1>7, <2>1, <3>1, <3>2 DEF SDiscard, TypeOK, RingTypeOK, ClientTypeOK,
           ServerTypeOK, Rounds, Flow, Lists, ClientTakes, ServerTakes, Contents,
           Places, Buffers
      <3>4. Rings'
        BY <1>7, <2>1, <3>1, <3>2 DEF SDiscard, TypeOK, RingTypeOK, Rings, Buffers
      <3>5. Lists'
        BY <1>7, <2>1, <3>1, <3>2 DEF SDiscard, TypeOK, RingTypeOK, Lists, Released,
           Buffers
      <3>6. Flow'
        BY <1>7, <2>1, <3>1, <3>2 DEF SDiscard, Flow, Pending, Nothing
      <3>7. Rounds'
        BY <1>7, <2>1, <3>1, <3>2 DEF SDiscard, Rounds, ReportHonest
      <3>8. ClientTakes'
        BY <1>7, <2>1, <3>1, <3>2 DEF SDiscard, ClientTakes, LostOf
      <3>9. ServerTakes'
        BY <1>7, <2>1, <3>1, <3>2 DEF SDiscard, TypeOK, RingTypeOK, ClientTypeOK,
           ServerTypeOK, ServerTakes, LostOf, Buffers, Rings, Lists
      <3>10. Stops'
        BY <1>7, <2>1, <3>1, <3>2 DEF SDiscard, Stops, ServerStopsLast, Nothing, Pending
      <3> QED BY <3>3, <3>4, <3>5, <3>6, <3>7, <3>8, <3>9, <3>10 DEF IInv
    <2>2. CASE "discard" \in faults
      BY <2>2 DEF Stops
    <2> QED BY <1>7, <2>1, <2>2 DEF SDiscard
  <1>8. CASE SGiveBack
    <2>1. CASE /\ place' = [place EXCEPT ![tx_msg] = "free"]
               /\ rpmsg_list' = Tail(rpmsg_list) /\ SGoto("echo")
      <3>1. /\ rpmsg_list' \in Seq(CBuf) /\ OnceEach(rpmsg_list')
            /\ \A x : x \in Members(rpmsg_list') <=> x \in Members(rpmsg_list) /\ x # Head(rpmsg_list)
        BY <1>8, <2>1, ListShrank DEF SGiveBack, Lists
      <3>2. TypeOK'
        BY <1>8, <2>1, <3>1 DEF SGiveBack, TypeOK, RingTypeOK, ClientTypeOK,
           ServerTypeOK, Rounds, Flow, Lists, ClientTakes, ServerTakes, Contents,
           Places, Buffers
      <3>3. Rings'
        BY <1>8, <2>1, <3>1 DEF SGiveBack, TypeOK, RingTypeOK, ClientTypeOK,
           ServerTypeOK, Rings, Buffers, ServerTakes
      <3>4. Lists'
        BY <1>8, <2>1, <3>1 DEF SGiveBack, TypeOK, RingTypeOK, ClientTypeOK,
           ServerTypeOK, Rings, Lists, Released, Buffers, Flow, Rounds
      <3>5. Flow'
        BY <1>8, <2>1, <3>1 DEF SGiveBack, TypeOK, RingTypeOK, ClientTypeOK,
           ServerTypeOK, Rings, Lists, Released, Flow, Rounds, Pending, Nothing,
           Buffers, NsCreate, NsDestroy, ServerTakes
      <3>6. Rounds'
        BY <1>8, <2>1, <3>1 DEF SGiveBack, Rounds, ReportHonest
      <3>7. ClientTakes'
        BY <1>8, <2>1, <3>1 DEF SGiveBack, TypeOK, RingTypeOK, ClientTypeOK,
           ServerTypeOK, ClientTakes, LostOf, Buffers, Rounds, Rings, Lists
      <3>8. ServerTakes'
        BY <1>8, <2>1, <3>1 DEF SGiveBack, TypeOK, RingTypeOK, ClientTypeOK,
           ServerTypeOK, ServerTakes, LostOf, Buffers, Rings, Lists
      <3>9. Stops'
        BY <1>8, <2>1, <3>1 DEF SGiveBack, Stops, ServerStopsLast, Nothing, Pending
      <3> QED BY <3>2, <3>3, <3>4, <3>5, <3>6, <3>7, <3>8, <3>9 DEF IInv
    <2>2. CASE "discard" \in faults
      BY <2>2 DEF Stops
    <2> QED BY <1>8, <2>1, <2>2 DEF SGiveBack
  <1>9. CASE SDestroy
    <2>1. CASE SendToClient(NsDestroy)
      <3>1. PICK b \in SBuf : /\ place[b] = "free" /\ place' = [place EXCEPT ![b] = "ring"]
                              /\ mem' = [mem EXCEPT ![b] = NsDestroy] /\ toC' = Append(toC, b) /\ cKick' = TRUE
        BY <1>9, <2>1 DEF SendToClient
      <3>2. /\ toC' \in Seq(SBuf) /\ OnceEach(toC')
            /\ \A x : x \in Members(toC') <=> x \in Members(toC) \/ x = b
        BY <1>9, <2>1, <3>1, ClientSent
      <3>3. TypeOK'
        <4>1. RingTypeOK'
          <5>1. place' \in [Buffers -> Places] /\ mem' \in [Buffers -> Contents]
            BY <1>9, <2>1, <3>1, <3>2 DEF SDestroy, TypeOK, RingTypeOK, ClientTypeOK,
               ServerTypeOK, Contents, Places, Buffers, NsCreate, NsDestroy, Rounds
          <5>2. sKick' \in BOOLEAN /\ cKick' \in BOOLEAN
            BY <1>9, <2>1, <3>1, <3>2 DEF SDestroy, TypeOK, RingTypeOK, ClientTypeOK,
               ServerTypeOK
          <5> QED BY <1>9, <2>1, <3>1, <3>2, <5>1, <5>2 DEF SDestroy, TypeOK,
              RingTypeOK, ClientTypeOK, ServerTypeOK
        <4>2. ClientTypeOK'
          BY <1>9, <2>1, <3>1, <3>2 DEF SDestroy, TypeOK, RingTypeOK, ClientTypeOK,
             ServerTypeOK, Rounds, Flow, Lists, ClientTakes, ServerTakes, Contents
        <4>3. ServerTypeOK'
          <5>1. shutdown_req' \in BOOLEAN
            BY <1>9, <2>1, <3>1, <3>2 DEF SDestroy, TypeOK, RingTypeOK, ClientTypeOK,
               ServerTypeOK
          <5> QED BY <1>9, <2>1, <3>1, <3>2, <5>1 DEF SDestroy, TypeOK, RingTypeOK,
              ClientTypeOK, ServerTypeOK, Rounds, Flow, Lists, ClientTakes, ServerTakes,
              Contents
        <4> QED BY <4>1, <4>2, <4>3 DEF TypeOK
      <3>4. Rings'
        BY <1>9, <2>1, <3>1, <3>2 DEF SDestroy, DestroyToClient, TypeOK, RingTypeOK,
           Rings, Buffers
      <3>5. Lists'
        BY <1>9, <2>1, <3>1, <3>2 DEF SDestroy, DestroyToClient, TypeOK, RingTypeOK,
           Lists, Released, Buffers
      <3>6. Flow'
        BY <1>9, <2>1, <3>1, <3>2 DEF SDestroy, DestroyToClient, TypeOK, RingTypeOK,
           ClientTypeOK, ServerTypeOK, Rings, Lists, Released, Flow, Rounds, Pending,
           Nothing, Buffers, NsCreate, NsDestroy
      <3>7. Rounds'
        BY <1>9, <2>1, <3>1, <3>2 DEF SDestroy, DestroyToClient, Rounds, ReportHonest
      <3>8. ClientTakes'
        BY <1>9, <2>1, <3>1, <3>2 DEF SDestroy, DestroyToClient, ClientTakes, LostOf
      <3>9. ServerTakes'
        BY <1>9, <2>1, <3>1, <3>2 DEF SDestroy, DestroyToClient, ServerTakes, LostOf
      <3>10. Stops'
        BY <1>9, <2>1, <3>1, <3>2 DEF SDestroy, DestroyToClient, TypeOK, RingTypeOK,
           ClientTypeOK, ServerTypeOK, Stops, ServerStopsLast, Nothing, Pending,
           Buffers, NsCreate, NsDestroy, Rounds, Flow, Lists, ServerTakes
      <3> QED BY <3>3, <3>4, <3>5, <3>6, <3>7, <3>8, <3>9, <3>10 DEF IInv
    <2>2. CASE UNCHANGED <<place, mem, toC, cKick>>
      <3>1. TypeOK'
        BY <1>9, <2>2 DEF SDestroy, DestroyToClient, TypeOK, RingTypeOK, ClientTypeOK,
           ServerTypeOK
      <3>2. Rings'
        BY <1>9, <2>2 DEF SDestroy, DestroyToClient, TypeOK, RingTypeOK, Rings, Buffers
      <3>3. Lists'
        BY <1>9, <2>2 DEF SDestroy, DestroyToClient, TypeOK, RingTypeOK, Lists,
           Released, Buffers
      <3>4. Flow'
        BY <1>9, <2>2 DEF SDestroy, DestroyToClient, Flow, Pending, Nothing
      <3>5. Rounds'
        BY <1>9, <2>2 DEF SDestroy, DestroyToClient, Rounds, ReportHonest
      <3>6. ClientTakes'
        BY <1>9, <2>2 DEF SDestroy, DestroyToClient, ClientTakes, LostOf
      <3>7. ServerTakes'
        BY <1>9, <2>2 DEF SDestroy, DestroyToClient, ServerTakes, LostOf
      <3>8. Stops'
        BY <1>9, <2>2 DEF SDestroy, DestroyToClient, Stops, ServerStopsLast, Nothing,
           Pending
      <3> QED BY <3>1, <3>2, <3>3, <3>4, <3>5, <3>6, <3>7, <3>8 DEF IInv
    <2> QED BY <1>9, <2>1, <2>2 DEF SDestroy, DestroyToClient
  <1>10. CASE SWake
    <2>1. TypeOK'
      <3>1. RingTypeOK'
        <4>1. place' \in [Buffers -> Places] /\ mem' \in [Buffers -> Contents]
          BY <1>10 DEF SWake, TypeOK, RingTypeOK, ClientTypeOK, ServerTypeOK, Contents,
             Places, Buffers, NsCreate, NsDestroy, Rounds
        <4>2. sKick' \in BOOLEAN /\ cKick' \in BOOLEAN
          BY <1>10 DEF SWake, TypeOK, RingTypeOK, ClientTypeOK, ServerTypeOK
        <4> QED BY <1>10, <4>1, <4>2 DEF SWake, TypeOK, RingTypeOK, ClientTypeOK,
            ServerTypeOK
      <3>2. ClientTypeOK'
        BY <1>10 DEF SWake, TypeOK, RingTypeOK, ClientTypeOK, ServerTypeOK, Rounds,
           Flow, Lists, ClientTakes, ServerTakes, Contents
      <3>3. ServerTypeOK'
        <4>1. shutdown_req' \in BOOLEAN
          BY <1>10 DEF SWake, TypeOK, RingTypeOK, ClientTypeOK, ServerTypeOK
        <4> QED BY <1>10, <4>1 DEF SWake, TypeOK, RingTypeOK, ClientTypeOK,
            ServerTypeOK, Rounds, Flow, Lists, ClientTakes, ServerTakes, Contents
      <3> QED BY <3>1, <3>2, <3>3 DEF TypeOK
    <2>2. Rings'
      BY <1>10 DEF SWake, TypeOK, RingTypeOK, Rings, Buffers
    <2>3. Lists'
      BY <1>10 DEF SWake, TypeOK, RingTypeOK, Lists, Released, Buffers
    <2>4. Flow'
      BY <1>10 DEF SWake, Flow, Pending, Nothing
    <2>5. Rounds'
      BY <1>10 DEF SWake, Rounds, ReportHonest
    <2>6. ClientTakes'
      BY <1>10 DEF SWake, ClientTakes, LostOf
    <2>7. ServerTakes'
      BY <1>10 DEF SWake, ServerTakes, LostOf
    <2>8. Stops'
      BY <1>10 DEF SWake, Stops, ServerStopsLast, Nothing, Pending
    <2> QED BY <2>1, <2>2, <2>3, <2>4, <2>5, <2>6, <2>7, <2>8 DEF IInv
  <1>11. CASE SDrained
    <2>1. TypeOK'
      BY <1>11 DEF SDrained, TypeOK, RingTypeOK, ClientTypeOK, ServerTypeOK
    <2>2. Rings'
      BY <1>11 DEF SDrained, TypeOK, RingTypeOK, Rings, Buffers
    <2>3. Lists'
      BY <1>11 DEF SDrained, TypeOK, RingTypeOK, Lists, Released, Buffers
    <2>4. Flow'
      BY <1>11 DEF SDrained, Flow, Pending, Nothing
    <2>5. Rounds'
      BY <1>11 DEF SDrained, Rounds, ReportHonest
    <2>6. ClientTakes'
      BY <1>11 DEF SDrained, ClientTakes, LostOf
    <2>7. ServerTakes'
      BY <1>11 DEF SDrained, ServerTakes, LostOf
    <2>8. Stops'
      BY <1>11 DEF SDrained, Stops, ServerStopsLast, Nothing, Pending
    <2> QED BY <2>1, <2>2, <2>3, <2>4, <2>5, <2>6, <2>7, <2>8 DEF IInv
  <1>12. ASSUME NEW b \in CBuf, SReceive(b) PROVE IInv'
    <2>1. CASE place' = [place EXCEPT ![b] = "held"] /\ rpmsg_list' = Append(rpmsg_list, b)
      <3>1. /\ toS' \in Seq(CBuf) /\ OnceEach(toS') /\ place[b] = "ring"
            /\ \A x : x \in Members(toS') <=> x \in Members(toS) /\ x # b
        BY <1>12, <2>1, ServerTook DEF SReceive
      <3>2. spc = "loop" /\ Pending(b) /\ mem[b] = i /\ rnum = i
        BY <1>12, <2>1, <3>1 DEF SReceive, Lists, Flow, Pending, Nothing, Buffers
      <3>3. /\ rpmsg_list' \in Seq(CBuf) /\ OnceEach(rpmsg_list') /\ rpmsg_list' # <<>>
            /\ \A x : x \in Members(rpmsg_list') <=> x \in Members(rpmsg_list) \/ x = b
        BY <1>12, <2>1, <3>1, <3>2, ListGrew
      <3>4. TypeOK'
        <4>1. RingTypeOK'
          <5>1. place' \in [Buffers -> Places] /\ mem' \in [Buffers -> Contents]
            BY <1>12, <2>1, <3>1, <3>2, <3>3 DEF SReceive, TypeOK, RingTypeOK,
               ClientTypeOK, ServerTypeOK, Contents, Places, Buffers, NsCreate,
               NsDestroy, Rounds
          <5>2. sKick' \in BOOLEAN /\ cKick' \in BOOLEAN
            BY <1>12, <2>1, <3>1, <3>2, <3>3 DEF SReceive, TypeOK, RingTypeOK,
               ClientTypeOK, ServerTypeOK
          <5> QED BY <1>12, <2>1, <3>1, <3>2, <3>3, <5>1, <5>2 DEF SReceive, TypeOK,
              RingTypeOK, ClientTypeOK, ServerTypeOK
        <4>2. ClientTypeOK'
          BY <1>12, <2>1, <3>1, <3>2, <3>3 DEF SReceive, TypeOK, RingTypeOK,
             ClientTypeOK, ServerTypeOK, Rounds, Flow, Lists, ClientTakes, ServerTakes,
             Contents
        <4>3. ServerTypeOK'
          <5>1. shutdown_req' \in BOOLEAN
            BY <1>12, <2>1, <3>1, <3>2, <3>3 DEF SReceive, TypeOK, RingTypeOK,
               ClientTypeOK, ServerTypeOK
          <5> QED BY <1>12, <2>1, <3>1, <3>2, <3>3, <5>1 DEF SReceive, TypeOK,
              RingTypeOK, ClientTypeOK, ServerTypeOK, Rounds, Flow, Lists, ClientTakes,
              ServerTakes, Contents
        <4> QED BY <4>1, <4>2, <4>3 DEF TypeOK
      <3>5. Rings'
        BY <1>12, <2>1, <3>1, <3>2, <3>3 DEF SReceive, TypeOK, RingTypeOK, Rings,
           Buffers
      <3>6. Lists'
        BY <1>12, <2>1, <3>1, <3>2, <3>3 DEF SReceive, TypeOK, RingTypeOK, Lists,
           Released, Buffers
      <3>7. Flow'
        BY <1>12, <2>1, <3>1, <3>2, <3>3 DEF SReceive, Flow, Pending, Nothing
      <3>8. Rounds'
        BY <1>12, <2>1, <3>1, <3>2, <3>3 DEF SReceive, Rounds, ReportHonest
      <3>9. ClientTakes'
        BY <1>12, <2>1, <3>1, <3>2, <3>3 DEF SReceive, ClientTakes, LostOf
      <3>10. ServerTakes'
        BY <1>12, <2>1, <3>1, <3>2, <3>3 DEF SReceive, ServerTakes, LostOf
      <3>11. Stops'
        BY <1>12, <2>1, <3>1, <3>2, <3>3 DEF SReceive, Stops, ServerStopsLast, Nothing,
           Pending
      <3> QED BY <3>4, <3>5, <3>6, <3>7, <3>8, <3>9, <3>10, <3>11 DEF IInv
    <2>2. CASE /\ "alloc" \in faults /\ place' = [place EXCEPT ![b] = "free"]
               /\ UNCHANGED rpmsg_list
      <3>1. /\ toS' \in Seq(CBuf) /\ OnceEach(toS') /\ place[b] = "ring"
            /\ \A x : x \in Members(toS') <=> x \in Members(toS) /\ x # b
        BY <1>12, <2>2, ServerTook DEF SReceive
      <3>2. spc = "loop"
        BY <1>12, <2>2, <3>1 DEF SReceive, Lists
      <3>3. TypeOK'
        <4>1. RingTypeOK'
          <5>1. place' \in [Buffers -> Places] /\ mem' \in [Buffers -> Contents]
            BY <1>12, <2>2, <3>1, <3>2 DEF SReceive, TypeOK, RingTypeOK, ClientTypeOK,
               ServerTypeOK, Contents, Places, Buffers, NsCreate, NsDestroy, Rounds
          <5>2. sKick' \in BOOLEAN /\ cKick' \in BOOLEAN
            BY <1>12, <2>2, <3>1, <3>2 DEF SReceive, TypeOK, RingTypeOK, ClientTypeOK,
               ServerTypeOK
          <5> QED BY <1>12, <2>2, <3>1, <3>2, <5>1, <5>2 DEF SReceive, TypeOK,
              RingTypeOK, ClientTypeOK, ServerTypeOK
        <4>2. ClientTypeOK'
          BY <1>12, <2>2, <3>1, <3>2 DEF SReceive, TypeOK, RingTypeOK, ClientTypeOK,
             ServerTypeOK, Rounds, Flow, Lists, ClientTakes, ServerTakes, Contents
        <4>3. ServerTypeOK'
          <5>1. shutdown_req' \in BOOLEAN
            BY <1>12, <2>2, <3>1, <3>2 DEF SReceive, TypeOK, RingTypeOK, ClientTypeOK,
               ServerTypeOK
          <5> QED BY <1>12, <2>2, <3>1, <3>2, <5>1 DEF SReceive, TypeOK, RingTypeOK,
              ClientTypeOK, ServerTypeOK, Rounds, Flow, Lists, ClientTakes, ServerTakes,
              Contents
        <4> QED BY <4>1, <4>2, <4>3 DEF TypeOK
      <3>4. Rings'
        BY <1>12, <2>2, <3>1, <3>2 DEF SReceive, TypeOK, RingTypeOK, Rings, Buffers
      <3>5. Lists'
        BY <1>12, <2>2, <3>1, <3>2 DEF SReceive, TypeOK, RingTypeOK, Lists, Released,
           Buffers
      <3>6. Flow'
        BY <1>12, <2>2, <3>1, <3>2 DEF SReceive, Flow, Pending, Nothing
      <3>7. Rounds'
        BY <1>12, <2>2, <3>1, <3>2 DEF SReceive, Rounds, ReportHonest
      <3>8. ClientTakes'
        BY <1>12, <2>2, <3>1, <3>2 DEF SReceive, ClientTakes, LostOf
      <3>9. ServerTakes'
        BY <1>12, <2>2, <3>1, <3>2 DEF SReceive, ServerTakes, LostOf
      <3>10. Stops'
        BY <1>12, <2>2, <3>1, <3>2 DEF SReceive, Stops, ServerStopsLast, Nothing,
           Pending
      <3> QED BY <3>3, <3>4, <3>5, <3>6, <3>7, <3>8, <3>9, <3>10 DEF IInv
    <2> QED BY <1>12, <2>1, <2>2 DEF SReceive
  <1>13. ASSUME NEW b \in CBuf, SNameService(b) PROVE IInv'
    <2>1. /\ toS' \in Seq(CBuf) /\ OnceEach(toS') /\ place[b] = "ring"
          /\ \A x : x \in Members(toS') <=> x \in Members(toS) /\ x # b
      BY <1>13, ServerTook DEF SNameService
    <2>2. spc = "loop"
      BY <1>13, <2>1 DEF SNameService, Lists
    <2>3. TypeOK'
      <3>1. RingTypeOK'
        <4>1. place' \in [Buffers -> Places] /\ mem' \in [Buffers -> Contents]
          BY <1>13, <2>1, <2>2 DEF SNameService, TypeOK, RingTypeOK, ClientTypeOK,
             ServerTypeOK, Contents, Places, Buffers, NsCreate, NsDestroy, Rounds
        <4>2. sKick' \in BOOLEAN /\ cKick' \in BOOLEAN
          BY <1>13, <2>1, <2>2 DEF SNameService, TypeOK, RingTypeOK, ClientTypeOK,
             ServerTypeOK
        <4> QED BY <1>13, <2>1, <2>2, <4>1, <4>2 DEF SNameService, TypeOK, RingTypeOK,
            ClientTypeOK, ServerTypeOK
      <3>2. ClientTypeOK'
        BY <1>13, <2>1, <2>2 DEF SNameService, TypeOK, RingTypeOK, ClientTypeOK,
           ServerTypeOK, Rounds, Flow, Lists, ClientTakes, ServerTakes, Contents
      <3>3. ServerTypeOK'
        <4>1. shutdown_req' \in BOOLEAN
          BY <1>13, <2>1, <2>2 DEF SNameService, TypeOK, RingTypeOK, ClientTypeOK,
             ServerTypeOK
        <4> QED BY <1>13, <2>1, <2>2, <4>1 DEF SNameService, TypeOK, RingTypeOK,
            ClientTypeOK, ServerTypeOK, Rounds, Flow, Lists, ClientTakes, ServerTakes,
            Contents
      <3> QED BY <3>1, <3>2, <3>3 DEF TypeOK
    <2>4. Rings'
      BY <1>13, <2>1, <2>2 DEF SNameService, TypeOK, RingTypeOK, Rings, Buffers
    <2>5. Lists'
      BY <1>13, <2>1, <2>2 DEF SNameService, TypeOK, RingTypeOK, Lists, Released,
         Buffers
    <2>6. Flow'
      BY <1>13, <2>1, <2>2 DEF SNameService, Flow, Pending, Nothing
    <2>7. Rounds'
      BY <1>13, <2>1, <2>2 DEF SNameService, Rounds, ReportHonest
    <2>8. ClientTakes'
      BY <1>13, <2>1, <2>2 DEF SNameService, ClientTakes, LostOf
    <2>9. ServerTakes'
      BY <1>13, <2>1, <2>2 DEF SNameService, ServerTakes, LostOf
    <2>10. Stops'
      BY <1>13, <2>1, <2>2 DEF SNameService, TypeOK, RingTypeOK, ClientTypeOK,
         ServerTypeOK, Stops, ServerStopsLast, Nothing, Pending, Buffers, NsCreate,
         NsDestroy, Rounds, Flow, Lists, ServerTakes
    <2> QED BY <2>3, <2>4, <2>5, <2>6, <2>7, <2>8, <2>9, <2>10 DEF IInv
  <1> QED BY <1>1, <1>2, <1>3, <1>4, <1>5, <1>6, <1>7, <1>8, <1>9, <1>10, <1>11, <1>12,
      <1>13 DEF Server

-----------------------------------------------------------------------------
(* A step that changes nothing keeps the invariant.                        *)
LEMMA StutterStep ==
  ASSUME IInv, UNCHANGED vars
  PROVE  IInv'
  <1> USE DEF IInv, vars, ringVars, clientVars, serverVars
  <1>1. TypeOK'
    BY DEF TypeOK, RingTypeOK, ClientTypeOK, ServerTypeOK
  <1>2. Rings' /\ Lists'
    BY DEF Rings, Lists, Released
  <1>3. Flow' /\ Stops'
    BY DEF Flow, Pending, Nothing, Stops, ServerStopsLast
  <1>4. Rounds'
    BY DEF Rounds, ReportHonest
  <1>5. ClientTakes' /\ ServerTakes'
    BY DEF ClientTakes, ServerTakes, LostOf
  <1> QED BY <1>1, <1>2, <1>3, <1>4, <1>5

(* The invariant holds at first.                                           *)
LEMMA InitIInv ==
  ASSUME DiscardWorks, Init
  PROVE  IInv
  <1>1. \A b \in Buffers : place[b] = "free" /\ ~Pending(b)
    BY DEF Init, Pending, Buffers
  <1>2. \A s \in {toS, toC, cList, sList, rpmsg_list} :
            s = <<>> /\ OnceEach(s) /\ Len(s) = 0 /\ \A x : x \notin Members(s)
    BY DEF Init, OnceEach, Members
  <1>3. RingTypeOK
    <2>1. 0 \in Contents
      BY NocopyAssumption DEF Contents
    <2>2. place \in [Buffers -> Places] /\ mem \in [Buffers -> Contents]
      BY <2>1 DEF Init, Places
    <2>3. sKick \in BOOLEAN /\ cKick \in BOOLEAN
      BY DEF Init
    <2> QED BY <2>2, <2>3 DEF Init, RingTypeOK
  <1>4. ClientTypeOK
    BY <1>2, NocopyAssumption DEF Init, ClientTypeOK
  <1>5. ServerTypeOK
    <2>1. sI \in 0 .. Every - 1
      BY NocopyAssumption DEF Init
    <2>2. Len(sList) <= MaxTx
      BY <1>2, NocopyAssumption
    <2>3. shutdown_req \in BOOLEAN
      BY DEF Init
    <2> QED BY <2>1, <2>2, <2>3 DEF Init, ServerTypeOK
  <1>6. Rings /\ Lists
    BY <1>1, <1>2 DEF Init, Rings, Lists, Released, Buffers
  <1>7. Flow /\ Rounds
    BY <1>1, NocopyAssumption DEF Init, Flow, Nothing, Rounds, ReportHonest, Buffers
  <1>8. ClientTakes /\ ServerTakes
    BY <1>1, <1>2, NocopyAssumption DEF Init, ClientTakes, ServerTakes, Buffers
  <1>9. Stops
    BY <1>1, <1>2 DEF Init, DiscardWorks, Stops, ServerStopsLast, Nothing, Buffers
  <1> QED BY <1>3, <1>4, <1>5, <1>6, <1>7, <1>8, <1>9 DEF IInv, TypeOK

(* The inductive invariant holds in every reachable state.                 *)
THEOREM Invariance ==
  ASSUME DiscardWorks
  PROVE  Spec => []IInv
  <1>1. Init => IInv
    BY InitIInv
  <1>2. IInv /\ [Next]_vars => IInv'
    BY ClientStep, ServerStep, StutterStep DEF Next, Ended
  <1> QED BY <1>1, <1>2, PTL DEF Spec

(* The invariant's view of the received buffers, in the words of RxOwned.  *)
LEMMA OwnedByReceiver == IInv => RxOwned
  <1> SUFFICES ASSUME IInv PROVE RxOwned
    OBVIOUS
  <1>1. rpmsg_list \in Seq(CBuf) /\ OnceEach(rpmsg_list) /\ None \notin CBuf
    BY NocopyAssumption DEF IInv, TypeOK, ServerTypeOK, Lists
  <1>2. {b \in CBuf : place[b] = "held"} = Members(Unreleased)
    <2>1. CASE Released
      <3>1. rpmsg_list # <<>> /\ Unreleased = Tail(rpmsg_list)
        BY <2>1 DEF Released, Unreleased, IInv, Lists
      <3>2. Head(rpmsg_list) \in CBuf
        BY <1>1, <3>1, TakingFirst
      <3>3. \A x : x \in Members(Unreleased) <=> x \in Members(rpmsg_list) /\ x # Head(rpmsg_list)
        BY <1>1, <3>1, <3>2, TakingFirst
      <3>4. \A x : x \in Members(rpmsg_list) => x \in CBuf
        BY <1>1, ShortLists
      <3> QED BY <2>1, <3>3, <3>4 DEF IInv, Lists
    <2>2. CASE ~Released
      <3>1. Unreleased = rpmsg_list
        BY <2>2 DEF Released, Unreleased
      <3>2. \A x : x \in Members(rpmsg_list) => x \in CBuf
        BY <1>1, ShortLists
      <3> QED BY <2>2, <3>1, <3>2 DEF IInv, Lists
    <2> QED BY <2>1, <2>2
  <1>3. \A k, l \in 1 .. Len(rpmsg_list) : k # l => rpmsg_list[k] # rpmsg_list[l]
    BY <1>1 DEF OnceEach
  <1>4. {b \in SBuf : place[b] = "held"} \subseteq {rcv_msg}
    BY DEF IInv, Flow
  <1>5. cpc = "check" => rcv_msg \in SBuf /\ place[rcv_msg] = "held"
    BY DEF IInv, Flow
  <1> QED BY <1>2, <1>3, <1>4, <1>5 DEF RxOwned

(* And of the transmit buffers, in the words of TxOwned.                   *)
LEMMA OwnedBySender == IInv => TxOwned
  <1> SUFFICES ASSUME IInv PROVE TxOwned
    OBVIOUS
  <1>1. cpc = "await" => {b \in CBuf : place[b] = "taken"} = {LostOf(cList)} \ {None}
    <2> SUFFICES ASSUME cpc = "await" PROVE \A b : b \in CBuf /\ place[b] = "taken" <=> b = LostOf(cList) /\ b # None
      OBVIOUS
    <2>1. cList \in Seq(CBuf \cup {None}) /\ None \notin CBuf
      BY NocopyAssumption DEF IInv, TypeOK, ClientTypeOK
    <2>2. ASSUME NEW b, b = LostOf(cList), b # None PROVE b \in CBuf /\ place[b] = "taken"
      BY <2>1, <2>2, ShortLists DEF LostOf, IInv, ClientTakes
    <2> QED BY <2>1, <2>2 DEF IInv, ClientTakes
  <1>2. spc = "loop" => {b \in SBuf : place[b] = "taken"} = {LostOf(sList)} \ {None}
    <2> SUFFICES ASSUME spc = "loop" PROVE \A b : b \in SBuf /\ place[b] = "taken" <=> b = LostOf(sList) /\ b # None
      OBVIOUS
    <2>1. sList \in Seq(SBuf \cup {None}) /\ None \notin SBuf
      BY NocopyAssumption DEF IInv, TypeOK, ServerTypeOK
    <2>2. ASSUME NEW b, b = LostOf(sList), b # None PROVE b \in SBuf /\ place[b] = "taken"
      BY <2>1, <2>2, ShortLists DEF LostOf, IInv, ServerTakes
    <2> QED BY <2>1, <2>2 DEF IInv, ServerTakes
  <1> QED BY <1>1, <1>2 DEF TxOwned

(* Both programs read and release only buffers that are theirs, and leak   *)
(* none.                                                                   *)
THEOREM ReceiversOwn ==
  ASSUME DiscardWorks
  PROVE  Spec => []RxOwned
  <1>1. IInv => RxOwned
    BY OwnedByReceiver
  <1>2. Spec => []IInv
    BY Invariance
  <1> QED BY <1>1, <1>2, PTL

(* While a program waits for messages it keeps no transmit buffer but the  *)
(* one the test loses on purpose.                                          *)
THEOREM SendersOwn ==
  ASSUME DiscardWorks
  PROVE  Spec => []TxOwned
  <1>1. IInv => TxOwned
    BY OwnedBySender
  <1>2. Spec => []IInv
    BY Invariance
  <1> QED BY <1>1, <1>2, PTL

(* A report without errors is one of messages that have all come back, and *)
(* of all messages unless a call has failed that no program counts.        *)
THEOREM ReportsHonest ==
  ASSUME DiscardWorks
  PROVE  Spec => []ReportHonest
  <1>1. IInv => ReportHonest
    BY DEF IInv, Rounds
  <1>2. Spec => []IInv
    BY Invariance
  <1> QED BY <1>1, <1>2, PTL

(* Where no call fails, the server stops after the client and with nothing *)
(* left to answer.                                                         *)
THEOREM ServersStopLast ==
  ASSUME DiscardWorks
  PROVE  Spec => []ServerStopsLast
  <1>1. IInv => ServerStopsLast
    BY DEF IInv, Stops
  <1>2. Spec => []IInv
    BY Invariance
  <1> QED BY <1>1, <1>2, PTL
-----------------------------------------------------------------------------
(* Why the programs never wait for each other where no call fails.  What   *)
(* has to be added says of the messages which come first and last, and of  *)
(* a program that waits what it still waits for.                           *)
InRing(b, what) == place[b] = "ring" /\ mem[b] = what

Unannounced == cpc \in {"create", "ready"} /\ cEpt # "bound"
Starting == spc \in {"create", "gettx", "givetx"}

(* The announcements are the first messages, and the client's loop and the *)
(* server's begin after them.                                              *)
First ==
    /\ \A b \in CBuf : InRing(b, NsCreate) => b = Head(toS) /\ rpmsg_list = <<>>
    /\ \A b \in SBuf : InRing(b, NsCreate) => b = Head(toC) /\ Unannounced
    /\ cpc = "create" => toS = <<>> /\ cEpt = "none"
    /\ spc = "create" => toC = <<>> /\ Unannounced
    /\ Starting => rpmsg_list = <<>>
    /\ Starting => \A b \in SBuf : place[b] # "held" /\ (place[b] = "ring" => mem[b] = NsCreate)
    /\ rpmsg_list # <<>> => cpc \notin {"create", "ready", "gettx", "givetx"}
    /\ Unannounced => spc = "create" \/ \E b \in SBuf : InRing(b, NsCreate)

(* A client that has ended has told the server, or is about to be heard.   *)
Last ==
    /\ shutdown_req => spc \in {"loop", "destroy", "ended"}
    /\ cpc = "ended" => \/ shutdown_req \/ spc = "ended"
                        \/ \E b \in CBuf : InRing(b, NsDestroy)
    /\ cpc = "finish" => cEpt = "bound"
    /\ cpc = "finish" => \A b \in CBuf : place[b] = "taken" => b = LostOf(cList)

(* No message without a notification.                                      *)
Kicks ==
    /\ toC # <<>> => cKick \/ cPoll = "drain"
    /\ toS # <<>> => sKick \/ sPoll = "drain"

(* Nobody sleeps with something left to do, and the client only while its  *)
(* message or the answer is under way.                                     *)
Waiting ==
    /\ cPoll = "wait" /\ cpc = "ready" => cEpt # "bound"
    /\ cPoll = "wait" /\ cpc = "await" => rnum = i
    /\ cpc \in {"discard", "giveback", "await"} /\ rnum = i => ~Nothing
    /\ None \notin Members(cList)
    /\ sPoll = "wait" => rpmsg_list = <<>>
    /\ sPoll = "wait" => ~shutdown_req

Live == faults = {} => First /\ Last /\ Kicks /\ Waiting
-----------------------------------------------------------------------------
(* The first of a list, when one is put behind it.                         *)
LEMMA Heads ==
  ASSUME NEW S, NEW s \in Seq(S), NEW e \in S
  PROVE  Append(s, e) # <<>> /\ Head(Append(s, e)) = IF s = <<>> THEN e ELSE Head(s)
  <1> DEFINE t == Append(s, e)
  <1>1. t \in Seq(S) /\ Len(s) \in Nat /\ Len(t) = Len(s) + 1 /\ t[Len(s) + 1] = e
        /\ (s = <<>> <=> Len(s) = 0) /\ \A k \in 1 .. Len(s) : t[k] = s[k]
    OBVIOUS
  <1>2. \A u \in Seq(S) : u # <<>> => Head(u) = u[1]
    OBVIOUS
  <1> HIDE DEF t
  <1>3. t # <<>>
    <2> SUFFICES ASSUME t = <<>> PROVE FALSE
      OBVIOUS
    <2>1. Len(t) = 0
      OBVIOUS
    <2> QED BY <1>1, <2>1
  <1>4. s = <<>> => t[1] = e
    BY <1>1
  <1>5. s # <<>> => 1 \in 1 .. Len(s)
    BY <1>1
  <1> QED BY <1>1, <1>2, <1>3, <1>4, <1>5 DEF t

(* Where no call fails the test's array holds buffers only.                *)
LEMMA ArrayFilled ==
  ASSUME IInv, faults = {}, None \notin Members(cList), CGetTx
  PROVE  None \notin Members(cList')
  <1>1. PICK b \in CBuf : place[b] = "free" /\ cList' = Append(cList, b)
    BY DEF CGetTx, Free
  <1> QED BY <1>1, ClientListed, NocopyAssumption

(* So that each of them can be given back.                                 *)
LEMMA ArrayGivenBack ==
  ASSUME IInv, faults = {}, None \notin Members(cList), CGiveTx
  PROVE  None \notin Members(cList') /\ cpc' # "leave"
  <1>1. cList \in Seq(CBuf \cup {None})
    BY DEF IInv, TypeOK, ClientTypeOK
  <1>2. ASSUME Len(cList) > 1 PROVE cList[Len(cList)] # None
    <2>1. Len(cList) \in 1 .. Len(cList)
      BY <1>1, <1>2
    <2> QED BY <2>1 DEF Members
  <1>3. CASE Len(cList) = 1 /\ Goto("get") /\ UNCHANGED cList
    BY <1>3 DEF Goto
  <1>4. CASE /\ Len(cList) > 1 /\ cList' = SubSeq(cList, 1, Len(cList) - 1)
             /\ Goto("givetx")
    BY <1>2, <1>4, ClientUnlisted DEF Goto
  <1> QED BY <1>2, <1>3, <1>4 DEF CGiveTx

(* The transmit buffer the test's server tries out is given back.          *)
LEMMA TriedOut ==
  ASSUME IInv, faults = {}, SDiscard
  PROVE  spc' = "giveback" /\ sPoll' = sPoll /\ \E b \in SBuf : place[b] = "free" /\ Move(b, "taken")
  <1>1. PICK b \in SBuf : /\ place[b] = "free" /\ Move(b, "taken")
                          /\ IF b = LostOf(sList) THEN SCallPoll ELSE SGoto("giveback")
    BY DEF SDiscard, Free
  <1>2. b # LostOf(sList)
    BY <1>1, ServerLost
  <1> QED BY <1>1, <1>2 DEF SGoto

(* What the server sends back is the message of the client's round.        *)
LEMMA EchoesMessage ==
  ASSUME IInv, faults = {}, spc = "echo", rpmsg_list # <<>>
  PROVE  /\ Head(rpmsg_list) \in CBuf /\ Pending(Head(rpmsg_list))
         /\ mem[Head(rpmsg_list)] = i /\ i < N
  <1>1. Head(rpmsg_list) \in CBuf /\ place[Head(rpmsg_list)] = "held"
    BY ListHead DEF Released
  <1>2. Pending(Head(rpmsg_list))
    BY <1>1 DEF Pending
  <1>3. mem[Head(rpmsg_list)] = i
    BY <1>1, <1>2 DEF IInv, Flow, Buffers
  <1>4. i < N
    <2>1. ~Nothing
      BY <1>1, <1>2 DEF Nothing, Buffers
    <2>2. cpc \in {"discard", "giveback", "await"}
      BY <2>1 DEF IInv, TypeOK, ClientTypeOK, Flow, Stops
    <2> QED BY <2>2 DEF IInv, Rounds
  <1> QED BY <1>1, <1>2, <1>3, <1>4

(* The server hears of the end of the client.                              *)
LEMMA SNameServiceLast ==
  ASSUME IInv, Last, NEW b \in CBuf, SNameService(b)
  PROVE  Last'
  <1>1. /\ UNCHANGED <<spc, cpc, cEpt, cList, mem, variant>>
        /\ place' = [place EXCEPT ![b] = "free"] /\ sPoll = "drain"
    BY DEF SNameService, SDispatch, clientVars, Move
  <1>2. spc = "loop"
    BY <1>1 DEF IInv, Lists
  <1>3. shutdown_req' = (shutdown_req \/ mem[b] = NsDestroy)
    BY DEF SNameService
  <1>4. b \in Buffers /\ place \in [Buffers -> Places]
    BY DEF Buffers, IInv, TypeOK, RingTypeOK
  <1>5. \A x \in CBuf : InRing(x, NsDestroy) => InRing(x, NsDestroy)' \/ mem[b] = NsDestroy
    BY <1>1, <1>4 DEF InRing, NsDestroy, Buffers
  <1>7. \A x \in CBuf : place'[x] = "taken" => place[x] = "taken"
    BY <1>1, <1>4 DEF Buffers
  <1>8. (LostOf(cList))' = LostOf(cList)
    BY <1>1 DEF LostOf
  <1>9. cpc' = "ended" => \/ shutdown_req' \/ spc' = "ended"
                          \/ \E x \in CBuf : InRing(x, NsDestroy)'
    BY <1>1, <1>3, <1>5 DEF Last
  <1>10. shutdown_req' => spc' \in {"loop", "destroy", "ended"}
    BY <1>1, <1>2
  <1>12. cpc' = "finish" => cEpt' = "bound" /\ \A x \in CBuf : place'[x] = "taken" => x = (LostOf(cList))'
    BY <1>1, <1>7, <1>8 DEF Last
  <1> QED BY <1>9, <1>10, <1>12 DEF Last

(* The server announces itself.                                            *)
LEMMA SCreateLast ==
  ASSUME IInv, faults = {}, Last, SCreate
  PROVE  Last'
  <1>1. PICK b \in SBuf : /\ place[b] = "free" /\ place' = [place EXCEPT ![b] = "ring"]
                          /\ mem' = [mem EXCEPT ![b] = NsCreate]
    BY DEF SCreate, SendToClient, FillAndSend, Move, Free
  <1>2. spc = "create" /\ spc' # "create" /\ UNCHANGED <<cpc, cEpt, cList, variant, shutdown_req>>
    BY <1>1 DEF SCreate, ServAt, SGoto, SCallPoll, ServFrame, clientVars
  <1>3. place \in [Buffers -> Places] /\ mem \in [Buffers -> Contents] /\ b \in Buffers
    BY DEF Buffers, IInv, TypeOK, RingTypeOK
  <1>4. \A x \in CBuf : /\ InRing(x, NsDestroy)' = InRing(x, NsDestroy)
                        /\ place'[x] = place[x]
    BY <1>1, <1>3, NocopyAssumption DEF InRing, NsDestroy, Buffers
  <1> QED BY <1>2, <1>4 DEF Last, LostOf

(* The server answers.                                                     *)
LEMMA SEchoLast ==
  ASSUME IInv, faults = {}, Last, SEcho
  PROVE  Last'
  <1>1. /\ spc = "echo" /\ spc' \in {"release", "loop"}
        /\ UNCHANGED <<cpc, cEpt, cList, variant, shutdown_req>>
    BY DEF SEcho, ServAt, SGoto, SCallPoll, ServFrame, clientVars
  <1>2. CASE UNCHANGED <<place, mem>>
    BY <1>1, <1>2 DEF Last, LostOf, InRing, NsDestroy
  <1>3. CASE rpmsg_list # <<>> /\ SendToClient(mem[Head(rpmsg_list)])
    <2>1. PICK b \in SBuf : /\ place[b] = "free" /\ place' = [place EXCEPT ![b] = "ring"]
                            /\ mem' = [mem EXCEPT ![b] = mem[Head(rpmsg_list)]]
      BY <1>3 DEF SendToClient, FillAndSend, Move, Free
    <2>2. place \in [Buffers -> Places] /\ mem \in [Buffers -> Contents] /\ b \in Buffers
      BY DEF Buffers, IInv, TypeOK, RingTypeOK
    <2>3. \A x \in CBuf : /\ InRing(x, NsDestroy)' = InRing(x, NsDestroy)
                          /\ place'[x] = place[x]
      BY <2>1, <2>2, NocopyAssumption DEF InRing, NsDestroy, Buffers
    <2> QED BY <1>1, <2>3 DEF Last, LostOf
  <1> QED BY <1>2, <1>3 DEF SEcho, NothingMoves

(* The client says farewell.                                               *)
LEMMA CFinishLast ==
  ASSUME IInv, faults = {}, Last, CFinish
  PROVE  Last'
  <1>1. /\ cpc \in {"finish", "leave"} /\ cpc' = "ended" /\ cEpt = "bound"
        /\ UNCHANGED <<spc, cList, variant, shutdown_req>>
    BY DEF CFinish, AppAt, Goto, AppFrame, serverVars, Last, IInv, Rounds
  <1>2. CASE SendToServer(NsDestroy)
    <2>1. PICK b \in CBuf : /\ place[b] = "free" /\ place' = [place EXCEPT ![b] = "ring"]
                            /\ mem' = [mem EXCEPT ![b] = NsDestroy]
      BY <1>2 DEF SendToServer, FillAndSend, Move, Free
    <2>2. place \in [Buffers -> Places] /\ mem \in [Buffers -> Contents] /\ b \in Buffers
      BY DEF Buffers, IInv, TypeOK, RingTypeOK
    <2>3. InRing(b, NsDestroy)'
      BY <2>1, <2>2 DEF InRing, NsDestroy
    <2> QED BY <1>1, <2>3 DEF Last
  <1>3. CASE spc = "ended"
    BY <1>1, <1>3 DEF Last
  <1> QED BY <1>1, <1>2, <1>3 DEF CFinish, DestroyToServer, Last

(* A message put behind others leaves the first of them the first.         *)
LEMMA StaysFirst ==
  ASSUME IInv
  PROVE  /\ \A b, x \in CBuf : toS' = Append(toS, b) /\ place[x] = "ring" /\ x = Head(toS) => x = Head(toS')
         /\ \A b, x \in SBuf : toC' = Append(toC, b) /\ place[x] = "ring" /\ x = Head(toC) => x = Head(toC')
         /\ \A b \in SBuf : toC' = Append(toC, b) /\ toC = <<>> => b = Head(toC')
  <1>1. toS \in Seq(CBuf) /\ toC \in Seq(SBuf)
    BY DEF IInv, TypeOK, RingTypeOK
  <1>2. /\ \A x \in CBuf : place[x] = "ring" => toS # <<>>
        /\ \A x \in SBuf : place[x] = "ring" => toC # <<>>
    BY <1>1, ShortLists DEF IInv, Rings
  <1> QED BY <1>1, <1>2, Heads

(* A message of the client that is not its announcement.                   *)
LEMMA SentFirst ==
  ASSUME IInv, First, NEW b \in CBuf, NEW what \in Contents, what # NsCreate,
         place' = [place EXCEPT ![b] = "ring"], mem' = [mem EXCEPT ![b] = what], toS' = Append(toS, b),
         cpc \in {"send", "finish", "leave"}, cpc' \notin {"create", "ready", "gettx", "givetx"},
         UNCHANGED <<toC, spc, rpmsg_list>>
  PROVE  First'
  <1>1. place \in [Buffers -> Places] /\ mem \in [Buffers -> Contents] /\ b \in Buffers
    BY DEF Buffers, IInv, TypeOK, RingTypeOK
  <1>2. \A x \in CBuf : InRing(x, NsCreate)' => InRing(x, NsCreate) /\ x = Head(toS')
    <2>1. \A x \in CBuf : InRing(x, NsCreate)' => InRing(x, NsCreate)
      BY <1>1 DEF InRing, NsCreate, Buffers
    <2> QED BY <2>1, StaysFirst DEF First, InRing
  <1>3. \A x \in SBuf : /\ InRing(x, NsCreate)' = InRing(x, NsCreate)
                        /\ place'[x] = place[x] /\ mem'[x] = mem[x]
    BY <1>1, NocopyAssumption DEF InRing, NsCreate, Buffers
  <1>4. ~Unannounced /\ ~Unannounced'
    BY DEF Unannounced
  <1> QED BY <1>2, <1>3, <1>4 DEF First, Starting, NsCreate

(* A message of the client's loop.                                         *)
LEMMA CSendFirst ==
  ASSUME IInv, faults = {}, First, CSend
  PROVE  First'
  <1>1. /\ cpc = "send" /\ cpc' \in {"discard", "await"} /\ UNCHANGED <<mem, toC, spc, rpmsg_list>>
        /\ place' = [place EXCEPT ![i_payload] = "ring"] /\ toS' = Append(toS, i_payload)
    BY DEF CSend, AppAt, Goto, CallPoll, AppFrame, serverVars, Move, IInv, Rounds
  <1>2. i_payload \in CBuf /\ mem[i_payload] \in Contents /\ mem[i_payload] # NsCreate
    BY <1>1, NocopyAssumption
       DEF IInv, ClientTakes, Flow, Rounds, TypeOK, RingTypeOK, ClientTypeOK, NsCreate, Contents, Buffers
  <1>3. mem' = [mem EXCEPT ![i_payload] = mem[i_payload]]
    BY <1>1 DEF IInv, TypeOK, RingTypeOK
  <1> QED BY <1>1, <1>2, <1>3, SentFirst

(* Its farewell.                                                           *)
LEMMA CFinishFirst ==
  ASSUME IInv, faults = {}, First, CFinish
  PROVE  First'
  <1>1. cpc \in {"finish", "leave"} /\ cpc' = "ended" /\ UNCHANGED <<toC, spc, rpmsg_list>>
    BY DEF CFinish, AppAt, Goto, AppFrame, serverVars
  <1>2. CASE SendToServer(NsDestroy)
    <2>1. PICK b \in CBuf : /\ place' = [place EXCEPT ![b] = "ring"]
                            /\ mem' = [mem EXCEPT ![b] = NsDestroy] /\ toS' = Append(toS, b)
      BY <1>2 DEF SendToServer, FillAndSend, Move, Free
    <2>2. NsDestroy \in Contents /\ NsDestroy # NsCreate
      BY NocopyAssumption DEF NsDestroy, NsCreate, Contents
    <2> QED BY <1>1, <2>1, <2>2, SentFirst
  <1>3. CASE UNCHANGED <<place, mem, toS>>
    BY <1>1, <1>3 DEF First, InRing, Unannounced, Starting, NsCreate
  <1> QED BY <1>2, <1>3 DEF CFinish, DestroyToServer, NothingMoves, NothingSent

(* The client takes an answer: the announcement, if there is one, comes    *)
(* before every answer.                                                    *)
LEMMA CReceiveFirst ==
  ASSUME IInv, First, NEW b \in SBuf, CReceive(b)
  PROVE  First'
  <1>1. /\ b = Head(toC) /\ toC # <<>> /\ mem[b] < N /\ mem[b] # NsCreate
        /\ UNCHANGED <<toS, mem, cpc, cEpt, spc, rpmsg_list>>
    BY NocopyAssumption DEF CReceive, CDispatch, serverVars, NothingSent, NsCreate, IInv,
       TypeOK, RingTypeOK,
       Contents, Buffers
  <1>2. place[b] = "ring" /\ toC' = Tail(toC)
    BY <1>1, ClientTook DEF CReceive, CDispatch
  <1>3. \E p \in {"free", "held"} : place' = [place EXCEPT ![b] = p]
    BY DEF CReceive, Move
  <1>4. place \in [Buffers -> Places] /\ b \in Buffers
    BY DEF Buffers, IInv, TypeOK, RingTypeOK
  <1>5. ~Starting
    BY <1>1, <1>2 DEF First
  <1>6. ~Unannounced
    BY <1>1, <1>2, <1>5 DEF First, Starting, InRing
  <1>7. \A x \in SBuf : ~InRing(x, NsCreate)'
    BY <1>1, <1>3, <1>4, <1>6 DEF First, InRing, NsCreate, Buffers
  <1>8. \A x \in CBuf : InRing(x, NsCreate)' = InRing(x, NsCreate)
    BY <1>1, <1>3, <1>4, NocopyAssumption DEF InRing, NsCreate, Buffers
  <1>9. ~Starting' /\ ~Unannounced'
    BY <1>1, <1>5, <1>6 DEF Starting, Unannounced
  <1> QED BY <1>1, <1>5, <1>7, <1>8, <1>9 DEF First, Starting

(* The server's announcement is the first message to the client.           *)
LEMMA SCreateFirst ==
  ASSUME IInv, faults = {}, First, SCreate
  PROVE  First'
  <1>1. PICK b \in SBuf : /\ place[b] = "free" /\ place' = [place EXCEPT ![b] = "ring"]
                          /\ mem' = [mem EXCEPT ![b] = NsCreate] /\ toC' = Append(toC, b)
    BY DEF SCreate, SendToClient, FillAndSend, Move, Free
  <1>2. /\ spc = "create" /\ spc' # "create" /\ UNCHANGED <<cpc, cEpt, toS, rpmsg_list>>
    BY DEF SCreate, ServAt, SGoto, SCallPoll, ServFrame, clientVars
  <1>3. place \in [Buffers -> Places] /\ mem \in [Buffers -> Contents] /\ b \in Buffers
    BY DEF Buffers, IInv, TypeOK, RingTypeOK
  <1>4. toC = <<>> /\ Unannounced /\ rpmsg_list = <<>> /\ \A x \in SBuf : place[x] # "held"
    BY <1>2 DEF First, Starting
  <1>5. \A x \in SBuf : place[x] # "ring"
    BY <1>4, ShortLists DEF IInv, TypeOK, RingTypeOK, Rings
  <1>6. b = Head(toC')
    BY <1>1, <1>4, StaysFirst
  <1>7. \A x \in SBuf : place'[x] # "held" /\ (place'[x] = "ring" => x = b)
    BY <1>1, <1>3, <1>4, <1>5 DEF Buffers
  <1>8. InRing(b, NsCreate)' /\ mem'[b] = NsCreate
    BY <1>1, <1>3 DEF InRing, NsCreate
  <1>9. \A x \in CBuf : InRing(x, NsCreate)' = InRing(x, NsCreate)
    BY <1>1, <1>3, NocopyAssumption DEF InRing, NsCreate, Buffers
  <1>10. \A x \in SBuf : InRing(x, NsCreate)' => x = Head(toC')
    BY <1>6, <1>7 DEF InRing
  <1>11. Unannounced'
    BY <1>2, <1>4 DEF Unannounced
  <1>12. NsCreate' = NsCreate
    BY DEF NsCreate
  <1> QED BY <1>2, <1>4, <1>7, <1>8, <1>9, <1>10, <1>11, <1>12 DEF First

(* A message of the server that is not its announcement.                   *)
LEMMA AnsweredFirst ==
  ASSUME IInv, First, NEW b \in SBuf, NEW what \in Contents, what # NsCreate, place[b] = "free",
         place' = [place EXCEPT ![b] = "ring"], mem' = [mem EXCEPT ![b] = what], toC' = Append(toC, b),
         ~Starting, ~Starting', UNCHANGED <<cpc, cEpt, toS, rpmsg_list>>
  PROVE  First'
  <1>1. place \in [Buffers -> Places] /\ mem \in [Buffers -> Contents] /\ b \in Buffers
    BY DEF Buffers, IInv, TypeOK, RingTypeOK
  <1>2. \A x \in SBuf : InRing(x, NsCreate)' <=> InRing(x, NsCreate)
    BY <1>1 DEF InRing, NsCreate, Buffers
  <1>3. \A x \in SBuf : InRing(x, NsCreate) => x = Head(toC')
    BY StaysFirst DEF First, InRing
  <1>4. \A x \in CBuf : InRing(x, NsCreate)' = InRing(x, NsCreate)
    BY <1>1, NocopyAssumption DEF InRing, NsCreate, Buffers
  <1>5. Unannounced' = Unannounced
    BY DEF Unannounced
  <1>6. spc # "create" /\ spc' # "create"
    BY DEF Starting
  <1> QED BY <1>2, <1>3, <1>4, <1>5, <1>6 DEF First

(* The answer to a message.                                                *)
LEMMA SEchoFirst ==
  ASSUME IInv, faults = {}, First, SEcho
  PROVE  First'
  <1>1. /\ spc = "echo" /\ spc' \in {"release", "loop"} /\ UNCHANGED <<cpc, cEpt, toS, rpmsg_list>>
    BY DEF SEcho, ServAt, SGoto, SCallPoll, ServFrame, clientVars
  <1>2. CASE UNCHANGED <<place, mem, toC>>
    BY <1>1, <1>2 DEF First, InRing, Unannounced, Starting, NsCreate
  <1>3. CASE rpmsg_list # <<>> /\ SendToClient(mem[Head(rpmsg_list)])
    <2>1. PICK b \in SBuf : /\ place[b] = "free" /\ place' = [place EXCEPT ![b] = "ring"]
                            /\ mem' = [mem EXCEPT ![b] = mem[Head(rpmsg_list)]] /\ toC' = Append(toC, b)
      BY <1>3 DEF SendToClient, FillAndSend, Move, Free
    <2>2. mem[Head(rpmsg_list)] \in Contents /\ mem[Head(rpmsg_list)] # NsCreate
      BY <1>1, <1>3, EchoesMessage, NocopyAssumption DEF IInv, TypeOK, ClientTypeOK, Contents,
         NsCreate
    <2> QED BY <1>1, <2>1, <2>2, AnsweredFirst DEF Starting
  <1> QED BY <1>2, <1>3 DEF SEcho, NothingMoves, NoAnswer

(* The server's farewell.                                                  *)
LEMMA SDestroyFirst ==
  ASSUME IInv, faults = {}, First, SDestroy
  PROVE  First'
  <1>1. /\ spc = "destroy" /\ spc' = "ended" /\ UNCHANGED <<cpc, cEpt, toS, rpmsg_list>>
    BY DEF SDestroy, ServAt, SGoto, ServFrame, clientVars, IInv, Stops
  <1>2. CASE UNCHANGED <<place, mem, toC>>
    BY <1>1, <1>2 DEF First, InRing, Unannounced, Starting, NsCreate
  <1>3. CASE SendToClient(NsDestroy)
    <2>1. PICK b \in SBuf : /\ place[b] = "free" /\ place' = [place EXCEPT ![b] = "ring"]
                            /\ mem' = [mem EXCEPT ![b] = NsDestroy] /\ toC' = Append(toC, b)
      BY <1>3 DEF SendToClient, FillAndSend, Move, Free
    <2>2. NsDestroy \in Contents /\ NsDestroy # NsCreate
      BY NocopyAssumption DEF NsDestroy, NsCreate, Contents
    <2> QED BY <1>1, <2>1, <2>2, AnsweredFirst DEF Starting
  <1> QED BY <1>2, <1>3 DEF SDestroy, DestroyToClient, NothingMoves, NoAnswer

(* The server takes a message: behind it there is no announcement.         *)
LEMMA SReceiveFirst ==
  ASSUME IInv, First, faults = {}, NEW b \in CBuf, SReceive(b)
  PROVE  First'
  <1>1. /\ b = Head(toS) /\ toS # <<>> /\ mem[b] < N /\ mem[b] # NsCreate
        /\ UNCHANGED <<toC, mem, cpc, cEpt, spc>> /\ sPoll = "drain"
    BY NocopyAssumption DEF SReceive, SDispatch, clientVars, NoAnswer, NsCreate, IInv, TypeOK,
       RingTypeOK,
       Contents, Buffers
  <1>2. place[b] = "ring" /\ toS' = Tail(toS)
    BY <1>1, ServerTook DEF SReceive, SDispatch
  <1>3. place' = [place EXCEPT ![b] = "held"]
    BY DEF SReceive, Move
  <1>4. place \in [Buffers -> Places] /\ b \in Buffers
    BY DEF Buffers, IInv, TypeOK, RingTypeOK
  <1>5. ~Starting /\ ~Starting' /\ spc # "create"
    BY <1>1 DEF IInv, Lists, Starting
  <1>6. cpc \notin {"create", "ready", "gettx", "givetx"}
    BY <1>1, <1>2, <1>4 DEF IInv, Flow, Nothing, Pending
  <1>7. \A x \in CBuf : ~InRing(x, NsCreate)'
    BY <1>1, <1>3, <1>4 DEF First, InRing, NsCreate, Buffers
  <1>8. \A x \in SBuf : InRing(x, NsCreate)' = InRing(x, NsCreate)
    BY <1>1, <1>3, <1>4, NocopyAssumption DEF InRing, NsCreate, Buffers
  <1>9. Unannounced' = Unannounced
    BY <1>1 DEF Unannounced
  <1> QED BY <1>1, <1>5, <1>6, <1>7, <1>8, <1>9 DEF First

(* The answer is on its way when the message is none any more.             *)
LEMMA SEchoWaiting ==
  ASSUME IInv, faults = {}, Last, Waiting, SEcho
  PROVE  Waiting'
  <1>1. /\ spc = "echo" /\ sPoll = "no"
        /\ UNCHANGED <<cpc, cPoll, cEpt, cList, rnum, i, rpmsg_list, shutdown_req>>
    BY DEF SEcho, ServAt, ServFrame, clientVars
  <1>2. sPoll' = "wait" => rpmsg_list = <<>> /\ ~shutdown_req
    BY <1>1 DEF SEcho, SGoto, Last
  <1>3. (None \notin Members(cList))' <=> None \notin Members(cList)
    BY <1>1 DEF Members
  <1>4. ~Nothing => ~Nothing'
    <2>1. CASE UNCHANGED <<place, mem>> /\ rpmsg_list = <<>>
      <3>1. \A x \in CBuf : place[x] # "held"
        BY <2>1, ShortLists DEF IInv, TypeOK, ServerTypeOK, Lists
      <3> QED BY <1>1, <2>1, <3>1 DEF Nothing, Pending
    <2>2. CASE rpmsg_list # <<>> /\ SendToClient(mem[Head(rpmsg_list)])
      <3>1. PICK b \in SBuf : /\ place' = [place EXCEPT ![b] = "ring"]
                              /\ mem' = [mem EXCEPT ![b] = mem[Head(rpmsg_list)]]
        BY <2>2 DEF SendToClient, FillAndSend, Move, Free
      <3>2. mem[Head(rpmsg_list)] < N
        BY <1>1, <2>2, EchoesMessage DEF IInv, TypeOK, ClientTypeOK
      <3>3. place \in [Buffers -> Places] /\ mem \in [Buffers -> Contents] /\ b \in Buffers
        BY DEF Buffers, IInv, TypeOK, RingTypeOK
      <3>4. Pending(b)'
        BY <3>1, <3>2, <3>3 DEF Pending
      <3> QED BY <3>3, <3>4 DEF Nothing
    <2> QED BY <2>1, <2>2 DEF SEcho, NothingMoves
  <1> QED BY <1>1, <1>2, <1>3, <1>4 DEF Waiting

(* Where no call fails the client never hears of the end of the server.    *)
LEMMA NoUnbind ==
  ASSUME IInv, faults = {}, NEW b \in SBuf, CUnbind(b)
  PROVE  FALSE
  <1>1. place[b] = "ring" /\ mem[b] = NsDestroy /\ cPoll = "drain"
    BY ClientTook DEF CUnbind, CDispatch
  <1> QED BY <1>1 DEF IInv, Stops, ServerStopsLast, Lists

(* The announcements stay the first messages.                              *)
LEMMA FirstStep ==
  ASSUME IInv, IInv', faults = {}, First, Last, Kicks, Waiting, Client \/ Server
  PROVE  First'
  <1> USE NocopyAssumption DEF IInv, First, Unannounced, Starting, InRing, NsCreate,
     NsDestroy, Nothing, Pending, Buffers, Contents, Rings, Lists, Released, Flow,
     Rounds, Stops, ServerStopsLast, SendToServer, SendToClient, DestroyToServer,
     DestroyToClient, TypeOK, RingTypeOK, ClientTypeOK, ServerTypeOK, AppAt, Goto,
     CallPoll, AppFrame, GiveUp, Move, NothingMoves, NothingSent, NoAnswer, FillAndSend,
     Free, CDispatch, ServAt, SGoto, SCallPoll, ServFrame, SDispatch, ringVars,
     clientVars, serverVars
  <1>1. CASE CCreate
    BY <1>1 DEF CCreate
  <1>2. CASE CReady
    <2>1. /\ UNCHANGED <<place, mem, toS, toC, cEpt, spc, rpmsg_list>> /\ cpc = "ready"
          /\ cpc' \in {"ready", "gettx", "get"} /\ (cpc' # "ready" => cEpt = "bound")
      BY <1>2 DEF CReady
    <2> QED BY <2>1
  <1>3. CASE CGetTx
    BY <1>3 DEF CGetTx
  <1>4. CASE CGiveTx
    BY <1>4 DEF CGiveTx
  <1>5. CASE CGet
    BY <1>5 DEF CGet
  <1>6. CASE CSend
    BY <1>6, CSendFirst
  <1>7. CASE CDiscard
    BY <1>7 DEF CDiscard
  <1>8. CASE CGiveBack
    BY <1>8 DEF CGiveBack
  <1>9. CASE CAwait
    BY <1>9 DEF CAwait
  <1>10. CASE CCheck
    BY <1>10 DEF CCheck
  <1>11. CASE CFinish
    BY <1>11, CFinishFirst
  <1>12. CASE CWake
    BY <1>12 DEF CWake
  <1>13. CASE CDrained
    BY <1>13 DEF CDrained
  <1>14. ASSUME NEW b \in SBuf, CReceive(b) PROVE First'
    BY <1>14, CReceiveFirst
  <1>15. ASSUME NEW b \in SBuf, CBind(b) PROVE First'
    BY <1>15 DEF CBind
  <1>16. CASE SCreate
    BY <1>16, SCreateFirst
  <1>17. CASE SGetTx
    BY <1>17 DEF SGetTx
  <1>18. CASE SGiveTx
    BY <1>18 DEF SGiveTx
  <1>19. CASE SLoop
    BY <1>19 DEF SLoop
  <1>20. CASE SEcho
    BY <1>20, SEchoFirst
  <1>21. CASE SRelease
    BY <1>21 DEF SRelease
  <1>22. CASE SDiscard
    BY <1>22 DEF SDiscard
  <1>23. CASE SGiveBack
    BY <1>23 DEF SGiveBack
  <1>24. CASE SDestroy
    BY <1>24, SDestroyFirst
  <1>25. CASE SWake
    BY <1>25 DEF SWake
  <1>26. CASE SDrained
    BY <1>26 DEF SDrained
  <1>27. ASSUME NEW b \in CBuf, SReceive(b) PROVE First'
    BY <1>27, SReceiveFirst
  <1>28. ASSUME NEW b \in CBuf, SNameService(b) PROVE First'
    BY <1>28 DEF SNameService
  <1>29. ASSUME NEW b \in SBuf, CUnbind(b) PROVE FALSE
    BY <1>29, NoUnbind
  <1> QED BY <1>1, <1>2, <1>3, <1>4, <1>5, <1>6, <1>7, <1>8, <1>9, <1>10, <1>11, <1>12,
     <1>13, <1>14, <1>15, <1>16, <1>17, <1>18, <1>19, <1>20, <1>21, <1>22, <1>23, <1>24,
     <1>25, <1>26, <1>27, <1>28, <1>29 DEF Client, Server

(* The farewells stay the last.                                            *)
LEMMA LastStep ==
  ASSUME IInv, IInv', faults = {}, First, Last, Kicks, Waiting, Client \/ Server
  PROVE  Last'
  <1> USE NocopyAssumption DEF IInv, Last, InRing, NsCreate, NsDestroy, Nothing,
     Pending, Buffers, Contents, Rings, Lists, Released, Flow, Rounds, ClientTakes,
     ServerTakes, LostOf, Stops, ServerStopsLast, Waiting, SendToServer, SendToClient,
     DestroyToServer, DestroyToClient, TypeOK, RingTypeOK, ClientTypeOK, ServerTypeOK,
     AppAt, Goto, CallPoll, AppFrame, GiveUp, Move, NothingMoves, NothingSent, NoAnswer,
     FillAndSend, Free, CDispatch, ServAt, SGoto, SCallPoll, ServFrame, SDispatch,
     ringVars, clientVars, serverVars
  <1>1. CASE CCreate
    BY <1>1 DEF CCreate
  <1>2. CASE CReady
    BY <1>2 DEF CReady
  <1>3. CASE CGetTx
    BY <1>3 DEF CGetTx
  <1>4. CASE CGiveTx
    BY <1>4, ArrayGivenBack DEF CGiveTx, Waiting
  <1>5. CASE CGet
    BY <1>5 DEF CGet
  <1>6. CASE CSend
    BY <1>6 DEF CSend
  <1>7. CASE CDiscard
    BY <1>7 DEF CDiscard
  <1>8. CASE CGiveBack
    BY <1>8 DEF CGiveBack
  <1>9. CASE CAwait
    BY <1>9 DEF CAwait
  <1>10. CASE CCheck
    BY <1>10 DEF CCheck
  <1>11. CASE CFinish
    BY <1>11, CFinishLast
  <1>12. CASE CWake
    BY <1>12 DEF CWake
  <1>13. CASE CDrained
    BY <1>13 DEF CDrained
  <1>14. ASSUME NEW b \in SBuf, CReceive(b) PROVE Last'
    BY <1>14 DEF CReceive
  <1>15. ASSUME NEW b \in SBuf, CBind(b) PROVE Last'
    BY <1>15 DEF CBind
  <1>16. CASE SCreate
    BY <1>16, SCreateLast
  <1>17. CASE SGetTx
    BY <1>17 DEF SGetTx
  <1>18. CASE SGiveTx
    BY <1>18 DEF SGiveTx
  <1>19. CASE SLoop
    BY <1>19 DEF SLoop
  <1>20. CASE SEcho
    BY <1>20, SEchoLast
  <1>21. CASE SRelease
    BY <1>21 DEF SRelease
  <1>22. CASE SDiscard
    BY <1>22 DEF SDiscard
  <1>23. CASE SGiveBack
    BY <1>23 DEF SGiveBack
  <1>24. CASE SDestroy
    BY <1>24 DEF SDestroy
  <1>25. CASE SWake
    BY <1>25 DEF SWake
  <1>26. CASE SDrained
    BY <1>26 DEF SDrained
  <1>27. ASSUME NEW b \in CBuf, SReceive(b) PROVE Last'
    BY <1>27 DEF SReceive
  <1>28. ASSUME NEW b \in CBuf, SNameService(b) PROVE Last'
    BY <1>28, SNameServiceLast
  <1>29. ASSUME NEW b \in SBuf, CUnbind(b) PROVE FALSE
    BY <1>29, NoUnbind
  <1> QED BY <1>1, <1>2, <1>3, <1>4, <1>5, <1>6, <1>7, <1>8, <1>9, <1>10, <1>11, <1>12,
     <1>13, <1>14, <1>15, <1>16, <1>17, <1>18, <1>19, <1>20, <1>21, <1>22, <1>23, <1>24,
     <1>25, <1>26, <1>27, <1>28, <1>29 DEF Client, Server

(* Who has messages has been notified, or is taking them.                  *)
LEMMA KicksStep ==
  ASSUME IInv, IInv', faults = {}, First, Last, Kicks, Waiting, Client \/ Server
  PROVE  Kicks'
  <1> USE NocopyAssumption DEF IInv, Kicks, Rings, Lists, SendToServer, SendToClient,
     DestroyToServer, DestroyToClient, TypeOK, RingTypeOK, ClientTypeOK, ServerTypeOK,
     AppAt, Goto, CallPoll, AppFrame, GiveUp, Move, NothingMoves, NothingSent, NoAnswer,
     FillAndSend, Free, CDispatch, ServAt, SGoto, SCallPoll, ServFrame, SDispatch,
     ringVars, clientVars, serverVars
  <1>1. CASE CCreate
    BY <1>1 DEF CCreate
  <1>2. CASE CReady
    BY <1>2 DEF CReady
  <1>3. CASE CGetTx
    BY <1>3 DEF CGetTx
  <1>4. CASE CGiveTx
    BY <1>4 DEF CGiveTx
  <1>5. CASE CGet
    BY <1>5 DEF CGet
  <1>6. CASE CSend
    BY <1>6 DEF CSend
  <1>7. CASE CDiscard
    BY <1>7 DEF CDiscard
  <1>8. CASE CGiveBack
    BY <1>8 DEF CGiveBack
  <1>9. CASE CAwait
    BY <1>9 DEF CAwait
  <1>10. CASE CCheck
    BY <1>10 DEF CCheck
  <1>11. CASE CFinish
    BY <1>11 DEF CFinish
  <1>12. CASE CWake
    BY <1>12 DEF CWake
  <1>13. CASE CDrained
    BY <1>13 DEF CDrained
  <1>14. ASSUME NEW b \in SBuf, CReceive(b) PROVE Kicks'
    BY <1>14 DEF CReceive
  <1>15. ASSUME NEW b \in SBuf, CBind(b) PROVE Kicks'
    BY <1>15 DEF CBind
  <1>16. CASE SCreate
    BY <1>16 DEF SCreate
  <1>17. CASE SGetTx
    BY <1>17 DEF SGetTx
  <1>18. CASE SGiveTx
    BY <1>18 DEF SGiveTx
  <1>19. CASE SLoop
    BY <1>19 DEF SLoop
  <1>20. CASE SEcho
    BY <1>20 DEF SEcho
  <1>21. CASE SRelease
    BY <1>21 DEF SRelease
  <1>22. CASE SDiscard
    BY <1>22 DEF SDiscard
  <1>23. CASE SGiveBack
    BY <1>23 DEF SGiveBack
  <1>24. CASE SDestroy
    BY <1>24 DEF SDestroy
  <1>25. CASE SWake
    BY <1>25 DEF SWake
  <1>26. CASE SDrained
    BY <1>26 DEF SDrained
  <1>27. ASSUME NEW b \in CBuf, SReceive(b) PROVE Kicks'
    BY <1>27 DEF SReceive
  <1>28. ASSUME NEW b \in CBuf, SNameService(b) PROVE Kicks'
    BY <1>28 DEF SNameService
  <1>29. ASSUME NEW b \in SBuf, CUnbind(b) PROVE FALSE
    BY <1>29, NoUnbind
  <1> QED BY <1>1, <1>2, <1>3, <1>4, <1>5, <1>6, <1>7, <1>8, <1>9, <1>10, <1>11, <1>12,
     <1>13, <1>14, <1>15, <1>16, <1>17, <1>18, <1>19, <1>20, <1>21, <1>22, <1>23, <1>24,
     <1>25, <1>26, <1>27, <1>28, <1>29 DEF Client, Server

(* Who waits has nothing left to do, and something to come.                *)
LEMMA WaitingStep ==
  ASSUME IInv, IInv', faults = {}, First, Last, Kicks, Waiting, Client \/ Server
  PROVE  Waiting'
  <1> USE NocopyAssumption DEF IInv, Waiting, First, Last, Starting, Unannounced,
     Nothing, Pending, Buffers, Contents, Rings, Lists, Released, Flow, Rounds,
     ClientTakes, ServerTakes, LostOf, Stops, ServerStopsLast, NsCreate, NsDestroy,
     SendToServer, SendToClient, DestroyToServer, DestroyToClient, TypeOK, RingTypeOK,
     ClientTypeOK, ServerTypeOK, AppAt, Goto, CallPoll, AppFrame, GiveUp, Move,
     NothingMoves, NothingSent, NoAnswer, FillAndSend, Free, CDispatch, ServAt, SGoto,
     SCallPoll, ServFrame, SDispatch, ringVars, clientVars, serverVars
  <1>1. CASE CCreate
    BY <1>1 DEF CCreate
  <1>2. CASE CReady
    BY <1>2 DEF CReady
  <1>3. CASE CGetTx
    BY <1>3, ArrayFilled DEF CGetTx
  <1>4. CASE CGiveTx
    BY <1>4, ArrayGivenBack DEF CGiveTx
  <1>5. CASE CGet
    BY <1>5 DEF CGet
  <1>6. CASE CSend
    BY <1>6 DEF CSend
  <1>7. CASE CDiscard
    BY <1>7 DEF CDiscard
  <1>8. CASE CGiveBack
    BY <1>8 DEF CGiveBack
  <1>9. CASE CAwait
    BY <1>9 DEF CAwait
  <1>10. CASE CCheck
    BY <1>10 DEF CCheck
  <1>11. CASE CFinish
    BY <1>11 DEF CFinish
  <1>12. CASE CWake
    BY <1>12 DEF CWake
  <1>13. CASE CDrained
    BY <1>13 DEF CDrained
  <1>14. ASSUME NEW b \in SBuf, CReceive(b) PROVE Waiting'
    BY <1>14 DEF CReceive
  <1>15. ASSUME NEW b \in SBuf, CBind(b) PROVE Waiting'
    BY <1>15 DEF CBind
  <1>16. CASE SCreate
    BY <1>16 DEF SCreate
  <1>17. CASE SGetTx
    BY <1>17 DEF SGetTx
  <1>18. CASE SGiveTx
    BY <1>18 DEF SGiveTx
  <1>19. CASE SLoop
    BY <1>19 DEF SLoop
  <1>20. CASE SEcho
    BY <1>20, SEchoWaiting
  <1>21. CASE SRelease
    BY <1>21 DEF SRelease
  <1>22. CASE SDiscard
    BY <1>22, TriedOut DEF SDiscard
  <1>23. CASE SGiveBack
    BY <1>23 DEF SGiveBack
  <1>24. CASE SDestroy
    BY <1>24 DEF SDestroy
  <1>25. CASE SWake
    BY <1>25 DEF SWake
  <1>26. CASE SDrained
    BY <1>26 DEF SDrained
  <1>27. ASSUME NEW b \in CBuf, SReceive(b) PROVE Waiting'
    BY <1>27 DEF SReceive
  <1>28. ASSUME NEW b \in CBuf, SNameService(b) PROVE Waiting'
    BY <1>28 DEF SNameService
  <1>29. ASSUME NEW b \in SBuf, CUnbind(b) PROVE FALSE
    BY <1>29, NoUnbind
  <1> QED BY <1>1, <1>2, <1>3, <1>4, <1>5, <1>6, <1>7, <1>8, <1>9, <1>10, <1>11, <1>12,
     <1>13, <1>14, <1>15, <1>16, <1>17, <1>18, <1>19, <1>20, <1>21, <1>22, <1>23, <1>24,
     <1>25, <1>26, <1>27, <1>28, <1>29 DEF Client, Server

(* No step changes which calls may fail.                                   *)
LEMMA FaultsStay == ASSUME Client \/ Server PROVE faults' = faults
  <1>1. CASE Client
    BY <1>1 DEF Client, CCreate, CReady, CGetTx, CGiveTx, CGet, CSend, CDiscard, CGiveBack,
       CAwait, CCheck,
       CFinish, CWake, CDrained, CReceive, CBind, CUnbind, AppFrame, CDispatch
  <1>2. CASE Server
    BY <1>2 DEF Server, SCreate, SGetTx, SGiveTx, SLoop, SEcho, SRelease, SDiscard, SGiveBack,
       SDestroy,
       SWake, SDrained, SReceive, SNameService, ServFrame, SDispatch
  <1> QED BY <1>1, <1>2

(* It holds at first.                                                      *)
LEMMA InitLive == ASSUME Init PROVE Live
  <1>1. \A b \in Buffers : place[b] = "free"
    BY DEF Init
  <1>2. First
    BY <1>1 DEF Init, First, InRing, Unannounced, Starting, Buffers
  <1>3. Last
    BY <1>1 DEF Init, Last, InRing, Buffers
  <1>4. Kicks
    BY DEF Init, Kicks
  <1>5. Waiting
    BY DEF Init, Waiting, Members
  <1> QED BY <1>2, <1>3, <1>4, <1>5 DEF Live

(* And in every reachable state.                                           *)
THEOREM LiveInvariance ==
  ASSUME DiscardWorks
  PROVE  Spec => [](IInv /\ Live)
  <1>1. Init => IInv /\ Live
    BY InitIInv, InitLive
  <1>2. ASSUME IInv, Live, [Next]_vars PROVE Live'
    <2> SUFFICES ASSUME faults' = {} PROVE (First /\ Last /\ Kicks /\ Waiting)'
      BY DEF Live
    <2>1. CASE Client \/ Server
      <3>1. faults = {}
        BY <2>1, FaultsStay
      <3>2. IInv'
        BY <1>2, <2>1, ClientStep, ServerStep
      <3>3. First /\ Last /\ Kicks /\ Waiting
        BY <1>2, <3>1 DEF Live
      <3>4. First'
        BY <1>2, <2>1, <3>1, <3>2, <3>3, FirstStep
      <3>5. Last'
        BY <1>2, <2>1, <3>1, <3>2, <3>3, LastStep
      <3>6. Kicks'
        BY <1>2, <2>1, <3>1, <3>2, <3>3, KicksStep
      <3>7. Waiting'
        BY <1>2, <2>1, <3>1, <3>2, <3>3, WaitingStep
      <3> QED BY <3>4, <3>5, <3>6, <3>7
    <2>2. CASE UNCHANGED vars
      <3> USE <1>2, <2>2 DEF vars, ringVars, clientVars, serverVars, Live
      <3>1. First'
        BY DEF First, InRing, Unannounced, Starting, NsCreate
      <3>2. Last'
        BY DEF Last, InRing, LostOf, NsDestroy
      <3>3. Kicks' /\ Waiting'
        BY DEF Kicks, Waiting, Nothing, Pending, Members
      <3> QED BY <3>1, <3>2, <3>3
    <2> QED BY <1>2, <2>1, <2>2 DEF Next, Ended
  <1>3. IInv /\ [Next]_vars => IInv'
    BY ClientStep, ServerStep, StutterStep DEF Next, Ended
  <1> QED BY <1>1, <1>2, <1>3, PTL DEF Spec
-----------------------------------------------------------------------------
(* There is always one buffer more than the test takes.                    *)
LEMMA Spare ==
  ASSUME NEW S, IsFiniteSet(S), Cardinality(S) > MaxTx, NEW s \in Seq(S \cup {None}), Len(s) <= MaxTx
  PROVE  \E b \in S : b \notin Members(s)
  <1> SUFFICES ASSUME S \subseteq Members(s) PROVE FALSE
    OBVIOUS
  <1>1. Len(s) \in Nat /\ MaxTx \in Nat
    BY NocopyAssumption
  <1>2. IsFiniteSet(1 .. Len(s)) /\ Cardinality(1 .. Len(s)) = Len(s)
    <2> DEFINE n == Len(s)
    <2>1. n \in Nat /\ 1 \in Int /\ n \in Int
      BY <1>1
    <2> HIDE DEF n
    <2>2. IsFiniteSet(1 .. n) /\ Cardinality(1 .. n) = IF 1 > n THEN 0 ELSE n - 1 + 1
      BY <2>1, FS_Interval
    <2> QED BY <2>1, <2>2 DEF n
  <1>3. s \in Surjection(1 .. Len(s), Members(s))
    BY DEF Surjection, Members
  <1>4. IsFiniteSet(Members(s)) /\ Cardinality(Members(s)) <= Len(s)
    BY <1>2, <1>3, FS_Surjection
  <1>5. Cardinality(S) <= Cardinality(Members(s)) /\ Cardinality(S) \in Nat /\ Cardinality(Members(s)) \in Nat
    BY <1>4, FS_Subset, FS_CardinalityType
  <1> QED BY <1>1, <1>4, <1>5

(* There is one besides any other.                                         *)
LEMMA Another ==
  ASSUME NEW S, IsFiniteSet(S), Cardinality(S) > MaxTx, NEW x
  PROVE  \E b \in S : b # x
  <1>1. \A y \in S \cup {None} : \E b \in S : b # y
    <2> TAKE y \in S \cup {None}
    <2>1. <<y>> \in Seq(S \cup {None}) /\ Len(<<y>>) = 1 /\ 1 <= MaxTx /\ y \in Members(<<y>>)
      BY NocopyAssumption DEF Members
    <2>2. \E b \in S : b \notin Members(<<y>>)
      BY <2>1, Spare
    <2> QED BY <2>1, <2>2
  <1> QED BY <1>1

(* A starting client finds a buffer.                                       *)
LEMMA ClientStarts ==
  ASSUME BuffersSuffice, IInv, Live, faults = {}, cpc \in {"create", "gettx"}
  PROVE  Free(CBuf) # {}
  <1>1. First
    BY DEF Live
  <1>2. /\ toS \in Seq(CBuf) /\ cList \in Seq(CBuf \cup {None}) /\ rpmsg_list \in Seq(CBuf)
        /\ place \in [Buffers -> Places] /\ mem \in [Buffers -> Contents]
    BY DEF IInv, TypeOK, RingTypeOK, ClientTypeOK, ServerTypeOK
  <1>3. \A b \in CBuf : place[b] # "held"
    BY <1>1, <1>2, ShortLists DEF First, IInv, Lists
  <1>4. \A b \in CBuf : place[b] = "taken" => b \in Members(cList)
    BY <1>2, ShortLists DEF IInv, ClientTakes
  <1>5. \A b \in CBuf : place[b] = "ring" => b = Head(toS) /\ toS # <<>> /\ cpc # "create"
    <2> SUFFICES ASSUME NEW b \in CBuf, place[b] = "ring" PROVE b = Head(toS) /\ toS # <<>> /\ cpc # "create"
      OBVIOUS
    <2>1. mem[b] \in Contents /\ ~(mem[b] < N) /\ mem[b] # NsDestroy
      BY <1>2 DEF IInv, Flow, Nothing, Pending, Stops, Buffers
    <2>2. InRing(b, NsCreate)
      BY <2>1, NocopyAssumption DEF InRing, NsCreate, NsDestroy, Contents
    <2>3. toS # <<>>
      BY <1>2, ShortLists DEF IInv, Rings
    <2> QED BY <1>1, <2>2, <2>3 DEF First
  <1>6. PICK e \in CBuf \cup {None} : \A b \in CBuf : place[b] = "ring" => b = e
    <2>1. CASE toS # <<>>
      <3>1. Head(toS) \in CBuf
        BY <1>2, <2>1
      <3> QED BY <1>5, <3>1
    <2>2. CASE toS = <<>>
      BY <1>5, <2>2
    <2> QED BY <2>1, <2>2
  <1>7. Len(cList) < MaxTx
    BY NocopyAssumption, ShortLists DEF IInv, ClientTakes
  <1>8. /\ Append(cList, e) \in Seq(CBuf \cup {None}) /\ Len(Append(cList, e)) = Len(cList) + 1
        /\ \A x : x \in Members(Append(cList, e)) <=> x \in Members(cList) \/ x = e
    BY <1>2, Adding
  <1>9. PICK b \in CBuf : b \notin Members(Append(cList, e))
    <2>1. Len(Append(cList, e)) <= MaxTx
      BY <1>2, <1>7, <1>8, NocopyAssumption
    <2> QED BY <1>8, <2>1, Spare DEF BuffersSuffice
  <1>10. place[b] = "free"
    BY <1>2, <1>3, <1>4, <1>6, <1>8, <1>9 DEF Buffers, Places
  <1> QED BY <1>10 DEF Free

(* So does a starting server, and one that has a message to answer.        *)
LEMMA ServerStarts ==
  ASSUME BuffersSuffice, IInv, Live, faults = {}, spc \in {"create", "gettx"}
  PROVE  Free(SBuf) # {}
  <1>1. First
    BY DEF Live
  <1>2. /\ toC \in Seq(SBuf) /\ sList \in Seq(SBuf \cup {None})
        /\ place \in [Buffers -> Places] /\ mem \in [Buffers -> Contents]
    BY DEF IInv, TypeOK, RingTypeOK, ServerTypeOK
  <1>3. \A b \in SBuf : place[b] # "held"
    BY <1>1 DEF First, Starting
  <1>4. \A b \in SBuf : place[b] = "taken" => b \in Members(sList)
    BY DEF IInv, ServerTakes
  <1>5. \A b \in SBuf : place[b] = "ring" => b = Head(toC) /\ toC # <<>>
    <2>1. \A b \in SBuf : place[b] = "ring" => InRing(b, NsCreate)
      BY <1>1 DEF First, Starting, InRing
    <2> QED BY <1>1, <1>2, <2>1, ShortLists DEF IInv, Rings, First
  <1>6. PICK e \in SBuf \cup {None} : \A b \in SBuf : place[b] = "ring" => b = e
    <2>1. CASE toC # <<>>
      <3>1. Head(toC) \in SBuf
        BY <1>2, <2>1
      <3> QED BY <1>5, <3>1
    <2>2. CASE toC = <<>>
      BY <1>5, <2>2
    <2> QED BY <2>1, <2>2
  <1>7. Len(sList) < MaxTx
    BY NocopyAssumption, ShortLists DEF IInv, ServerTakes
  <1>8. /\ Append(sList, e) \in Seq(SBuf \cup {None}) /\ Len(Append(sList, e)) = Len(sList) + 1
        /\ \A x : x \in Members(Append(sList, e)) <=> x \in Members(sList) \/ x = e
    BY <1>2, Adding
  <1>9. PICK b \in SBuf : b \notin Members(Append(sList, e))
    <2>1. Len(Append(sList, e)) <= MaxTx
      BY <1>2, <1>7, <1>8, NocopyAssumption
    <2> QED BY <1>8, <2>1, Spare DEF BuffersSuffice
  <1>10. place[b] = "free"
    BY <1>2, <1>3, <1>4, <1>6, <1>8, <1>9 DEF Buffers, Places
  <1> QED BY <1>10 DEF Free

(* What there is in the rings when the announcements are not: messages     *)
(* under way.                                                              *)
LEMMA OnlyMessages ==
  ASSUME IInv, Live, faults = {}
  PROVE  /\ \A b \in SBuf : place[b] = "ring" /\ ~Unannounced /\ spc # "ended" => Pending(b)
         /\ \A b \in CBuf : place[b] = "ring" /\ rpmsg_list # <<>> /\ cpc # "ended" => Pending(b)
         /\ \A b \in CBuf : place[b] = "held" /\ spc # "release" => Pending(b)
         /\ \A b \in SBuf : place[b] = "held" => rnum = i + 1 /\ rnum # i /\ cpc \in {"await", "check"}
  <1>1. mem \in [Buffers -> Contents] /\ i \in Nat
    BY DEF IInv, TypeOK, RingTypeOK, ClientTypeOK
  <1>2. \A b \in Buffers : mem[b] < N \/ mem[b] = NsCreate \/ mem[b] = NsDestroy
    BY <1>1, NocopyAssumption DEF Contents, NsCreate, NsDestroy
  <1>3. \A b \in SBuf : place[b] = "ring" /\ ~Unannounced /\ spc # "ended" => Pending(b)
    BY <1>2 DEF Live, First, InRing, Pending, Buffers, IInv, Stops
  <1>4. \A b \in CBuf : place[b] = "ring" /\ rpmsg_list # <<>> /\ cpc # "ended" => Pending(b)
    BY <1>2 DEF Live, First, InRing, Pending, Buffers, IInv, Stops
  <1>5. \A b \in SBuf : place[b] = "held" => rnum = i + 1 /\ rnum # i /\ cpc \in {"await", "check"}
    BY <1>1 DEF IInv, Flow
  <1> QED BY <1>3, <1>4, <1>5 DEF Pending

(* A server with a message to answer finds a buffer.                       *)
LEMMA ServerAnswers ==
  ASSUME BuffersSuffice, IInv, Live, faults = {}, spc = "echo", rpmsg_list # <<>>
  PROVE  Free(SBuf) # {}
  <1>1. Head(rpmsg_list) \in CBuf /\ Pending(Head(rpmsg_list)) /\ ~Nothing
    BY EchoesMessage DEF Nothing, Buffers
  <1>2. \A b \in SBuf : ~Pending(b)
    BY <1>1, NocopyAssumption DEF IInv, Flow, Buffers
  <1>3. cpc \in {"discard", "giveback", "await"} /\ rnum = i
    BY <1>1 DEF IInv, TypeOK, ClientTypeOK, Flow, Stops
  <1>4. \A b \in SBuf : place[b] # "ring" /\ place[b] # "held"
    BY <1>2, <1>3, OnlyMessages DEF Unannounced
  <1>5. \A b \in SBuf : place[b] = "taken" => b = LostOf(sList)
    BY DEF IInv, ServerTakes
  <1>6. PICK b \in SBuf : b # LostOf(sList)
    BY Another DEF BuffersSuffice
  <1>7. place[b] = "free"
    BY <1>4, <1>5, <1>6 DEF IInv, TypeOK, RingTypeOK, Buffers, Places
  <1> QED BY <1>7 DEF Free

(* A client that asks for a buffer is not alone in waiting.                *)
LEMMA ClientGoesOn ==
  ASSUME BuffersSuffice, IInv, Live, faults = {}, cpc \in {"get", "discard", "finish"}, Free(CBuf) = {}
  PROVE  \E b \in CBuf : place[b] \in {"ring", "held"}
  <1>1. \A b \in CBuf : place[b] = "taken" => b = LostOf(cList)
    BY DEF IInv, ClientTakes, Live, Last
  <1>2. PICK b \in CBuf : b # LostOf(cList)
    BY Another DEF BuffersSuffice
  <1>3. place[b] \in Places /\ place[b] # "free"
    BY DEF IInv, TypeOK, RingTypeOK, Buffers, Free
  <1> QED BY <1>1, <1>2, <1>3 DEF Places

(* A sleeping server has nothing to do, and nothing comes to it, only if   *)
(* the client can go on.                                                   *)
LEMMA SleepingServer ==
  ASSUME BuffersSuffice, IInv, Live, faults = {}, sPoll = "wait", ~sKick
  PROVE  ~ClientWaits
  <1>1. toS = <<>> /\ rpmsg_list = <<>> /\ ~shutdown_req /\ spc = "loop"
    BY DEF Live, Kicks, Waiting, IInv, Lists
  <1>2. \A b \in CBuf : place[b] # "ring" /\ place[b] # "held"
    BY <1>1, ShortLists DEF IInv, TypeOK, RingTypeOK, ServerTypeOK, Rings, Lists
  <1>3. cpc # "ended"
    BY <1>1, <1>2 DEF Live, Last, InRing
  <1>4. ~(cPoll = "wait" /\ ~cKick)
    <2> SUFFICES ASSUME cPoll = "wait", ~cKick PROVE FALSE
      OBVIOUS
    <2>1. toC = <<>> /\ cpc \in {"ready", "await"}
      BY DEF Live, Kicks, IInv, Lists
    <2>2. \A b \in SBuf : place[b] # "ring"
      BY <2>1, ShortLists DEF IInv, TypeOK, RingTypeOK, Rings
    <2>3. CASE cpc = "ready"
      BY <1>1, <2>2, <2>3 DEF Live, Waiting, First, Unannounced, InRing
    <2>4. CASE cpc = "await"
      <3>1. ~Nothing
        BY <2>4 DEF Live, Waiting
      <3> QED BY <1>2, <2>2, <3>1 DEF Nothing, Pending, Buffers
    <2> QED BY <2>1, <2>3, <2>4
  <1>5. cpc \in {"create", "gettx"} => Free(CBuf) # {}
    BY ClientStarts
  <1>6. cpc \in {"get", "discard", "finish"} => Free(CBuf) # {}
    BY <1>2, ClientGoesOn
  <1> QED BY <1>3, <1>4, <1>5, <1>6 DEF ClientWaits

(* So has one that tries out a transmit buffer.                            *)
LEMMA TryingServer ==
  ASSUME BuffersSuffice, IInv, Live, faults = {}, spc = "discard", Free(SBuf) = {}
  PROVE  ~ClientWaits
  <1>1. rpmsg_list # <<>> /\ ~Unannounced
    BY DEF IInv, Lists, Live, First, Unannounced
  <1>2. PICK s \in SBuf : s # LostOf(sList)
    BY Another DEF BuffersSuffice
  <1>3. place[s] \in {"ring", "held"}
    BY <1>2 DEF IInv, ServerTakes, TypeOK, RingTypeOK, Buffers, Places, Free
  <1>4. Pending(s) \/ (place[s] = "held" /\ rnum # i /\ cpc \in {"await", "check"})
    BY <1>1, <1>3, OnlyMessages
  <1>5. cpc \in {"discard", "giveback", "await", "check"}
    BY <1>4 DEF IInv, TypeOK, ClientTypeOK, Flow, Stops, Nothing, Buffers
  <1>6. ~(cPoll = "wait" /\ ~cKick)
    <2> SUFFICES ASSUME cPoll = "wait", ~cKick PROVE FALSE
      OBVIOUS
    <2>1. toC = <<>> /\ cpc = "await"
      BY <1>5 DEF Live, Kicks, IInv, Lists
    <2>2. place[s] # "ring"
      BY <2>1, ShortLists DEF IInv, TypeOK, RingTypeOK, Rings
    <2>3. rnum = i
      BY <2>1 DEF Live, Waiting
    <2> QED BY <1>3, <2>2, <2>3, OnlyMessages
  <1>7. cpc = "discard" => Free(CBuf) # {}
    <2> SUFFICES ASSUME cpc = "discard", Free(CBuf) = {} PROVE FALSE
      OBVIOUS
    <2>1. Pending(s)
      BY <1>4
    <2>2. \A b \in CBuf : ~Pending(b)
      BY <2>1, NocopyAssumption DEF IInv, Flow, Buffers
    <2>3. \A b \in CBuf : place[b] # "ring" /\ place[b] # "held"
      BY <1>1, <2>2, OnlyMessages
    <2> QED BY <2>3, ClientGoesOn
  <1> QED BY <1>5, <1>6, <1>7 DEF ClientWaits

(* Where no call fails the two programs never wait for each other: while   *)
(* they have not both ended, one of them has a step to take, whatever the  *)
(* order in which they start, are notified and exchange buffers.           *)
THEOREM NoDeadlock ==
  ASSUME DiscardWorks, BuffersSuffice
  PROVE  Spec => [](faults = {} => OneGoesOn)
  <1>1. ASSUME IInv, Live, faults = {}, ClientWaits, ServerWaits PROVE cpc = "ended" /\ spc = "ended"
    <2>1. CASE spc = "ended"
      BY <1>1, <2>1 DEF IInv, Stops, ServerStopsLast
    <2>2. CASE sPoll = "wait" /\ ~sKick
      BY <1>1, <2>2, SleepingServer
    <2>3. CASE spc \in {"create", "gettx"} /\ Free(SBuf) = {}
      BY <1>1, <2>3, ServerStarts
    <2>4. CASE spc = "discard" /\ Free(SBuf) = {}
      BY <1>1, <2>4, TryingServer
    <2>5. CASE spc = "echo" /\ rpmsg_list # <<>> /\ Free(SBuf) = {}
      BY <1>1, <2>5, ServerAnswers
    <2>6. CASE spc = "destroy" /\ cpc # "ended"
      BY <1>1, <2>6 DEF IInv, Stops, ServerStopsLast
    <2> QED BY <1>1, <2>1, <2>2, <2>3, <2>4, <2>5, <2>6 DEF ServerWaits
  <1>2. IInv /\ Live => (faults = {} => OneGoesOn)
    BY <1>1 DEF OneGoesOn
  <1>3. Spec => [](IInv /\ Live)
    BY LiveInvariance
  <1> QED BY <1>2, <1>3, PTL
=============================================================================
