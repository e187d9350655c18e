------------------------- MODULE RpmsgEcho_proofs -------------------------
(***************************************************************************)
(* The echo demonstrations, proved for any number of messages, of payload  *)
(* sizes and of buffers, with and without faults: the type and the three   *)
(* safety invariants of RpmsgEcho.  None is inductive.  What is needed     *)
(* follows the messages on their way:                                      *)
(*                                                                         *)
(*   - each side does only what its place in its loop allows (Stages), and *)
(*     the name service messages frame the data: an announcement is the    *)
(*     first, a farewell the last that is heard of an endpoint (Order);    *)
(*   - the tests that wait for each answer have at most one message in     *)
(*     flight, the one they wait for (Lockstep), and have verified exactly *)
(*     the earlier ones (Verified);                                        *)
(*   - the sample's server has counted as far as its client, or one        *)
(*     further while the answer is under way (Counting);                   *)
(*   - the messages of the flood are a window: what was received, what is  *)
(*     in the two rings and what was sent fit together without a gap,      *)
(*     across rounds too, if every message is answered (Flood).            *)
(***************************************************************************)
EXTENDS RpmsgEcho, Integers, TLAPS

(* The data in flight: answers on their way to the client, and messages    *)
(* the server has not answered.  (A message whose callback has returned is *)
(* at the head of its ring until its buffer is released.)                  *)
DataC == {k \in 1 .. Len(toC) : toC[k].kind = "data"}
Asked == {k \in 1 .. Len(toS) : toS[k].kind = "data" /\ (k = 1 => sPoll # "release")}

(* The client before its first message, and what that means.               *)
Early == cpc \in {"create", "alloc", "ready"}

(* The loops in which it calls platform_poll.                              *)
Polling ==
    \/ cpc \in {"ready", "await"}
    \/ cpc = "send" /\ demo = "flood"
    \/ cpc = "finish" /\ demo = "sample"

(* Where the client is: it polls in the loops only, and it has its         *)
(* endpoint while it works, unless the server took it away.                *)
Stages ==
    /\ retrying => demo \in {"ping", "flood"}
    /\ cPoll # "no" => Polling
    /\ cpc = "create" => cEpt = "none" /\ toS = <<>>
    /\ cpc = "ended" => cEpt = "none"
    /\ cpc \in {"alloc", "ready"} => cEpt # "none"
    /\ cpc = "alloc" => demo \in {"ping", "flood"}
    /\ cpc = "alloc" /\ demo = "flood" => cEpt = "bound"
    /\ cpc \in {"send", "await", "finish"} => cEpt = "bound" \/ ept_deleted
    /\ Early => /\ i = 0 /\ rnum = 0 /\ round = 0 /\ verified = {}
                /\ DataC = {} /\ \A k \in 1 .. Len(toS) : toS[k].kind # "data"

(* Where the server is, and what the name service messages under way tell: *)
(* an announcement comes first; the client's farewell is its last word, or *)
(* the answer to the server's; the server's is its last word.              *)
Order ==
    /\ spc = "create" => toC = <<>> /\ cEpt # "bound" /\ ~shutdown_req /\ count = 0
    /\ sPoll # "no" => spc = "loop"
    /\ sPoll = "release" => toS # <<>>
    /\ \A k \in 1 .. Len(toS) : /\ toS[k].kind = "create" => k = 1
                                /\ toS[k].kind = "destroy" => IF demo = "sample" THEN ept_deleted
                                                                ELSE cpc = "ended"
    /\ \A k \in 1 .. Len(toC) : /\ toC[k].kind = "create" => k = 1 /\ cEpt # "bound"
                                /\ toC[k].kind = "destroy" => k = Len(toC) /\ spc = "ended"
                                                              /\ shutdown_req
    /\ ept_deleted => /\ demo = "sample" /\ toC = <<>> /\ cEpt = "none"
                      /\ spc = "ended" /\ shutdown_req
    /\ shutdown_req => ~Early /\ (demo # "sample" => cpc = "ended")
    /\ spc = "destroy" => shutdown_req
    /\ spc = "ended" => shutdown_req \/ faulty

(* The tests that wait for each answer: at most one message is in flight,  *)
(* it is the one the client waits for, and the client's counters and what  *)
(* it has verified agree.                                                  *)
Pending == cpc = "await" /\ rnum = IF demo = "matrix" THEN 0 ELSE i

Lockstep ==
    demo # "flood" =>
      /\ round = 0
      /\ cpc \in {"send", "await"} => i < N
      /\ \A k \in DataC : /\ toC[k] = Data(0, i) /\ Pending /\ Asked = {}
                          /\ \A l \in DataC : l = k
      /\ \A k \in Asked : /\ toS[k] = Data(0, i) /\ Pending
                          /\ \A l \in Asked : l = k

Verified ==
    /\ demo \in {"ping", "sample"} =>
         /\ rnum = i \/ (cpc = "await" /\ rnum = i + 1)
         /\ verified = {0} \X (0 .. rnum - 1)
    /\ demo = "matrix" =>
         /\ rnum \in {0, 1}
         /\ verified = {0} \X (0 .. IF cpc = "await" /\ rnum = 1 THEN i ELSE i - 1)

(* The server of the sample counts with its client.                        *)
Counting ==
    demo = "sample" =>
      /\ count = rnum \/ (cpc = "await" /\ rnum = i /\ count = i + 1)
      /\ DataC # {} => count = rnum + 1
      /\ Asked # {} => count = rnum
      /\ ~faulty /\ count = rnum + 1 => DataC # {}
      /\ shutdown_req => count = N \/ faulty

(* The flood test, if the server answers every message: the numbers in     *)
(* flight are those between what the client has counted and what it has    *)
(* sent, in order, and earlier rounds are complete.                        *)
Sure == ~faulty \/ retrying
HeadC == IF toC # <<>> /\ toC[1].kind = "create" THEN 1 ELSE 0
HeadS == IF toS # <<>> /\ (toS[1].kind = "create" \/ sPoll = "release") THEN 1 ELSE 0

Flood ==
    demo = "flood" =>
      /\ cpc = "send" => i < N
      /\ cpc = "await" => i = N
      /\ Sure /\ cpc # "ended" =>
           /\ \A k \in DataC : toC[k].round = round /\ toC[k].num = rnum + k - 1
           /\ \A k \in Asked : toS[k].round = round /\ toS[k].num + Len(toS) = i + k - 1
           /\ rnum + (Len(toC) - HeadC) + (Len(toS) - HeadS) = i
           /\ verified = ((0 .. round - 1) \X (0 .. N - 1)) \cup ({round} \X (0 .. rnum - 1))
      /\ Sure /\ cpc \in {"finish", "ended"} /\ i = N /\ round = LastRound =>
           verified = (0 .. LastRound) \X (0 .. N - 1)

IInv == TypeOK /\ err_cnt = 0 /\ Stages /\ Order /\ Lockstep /\ Verified /\ Counting /\ Flood
-----------------------------------------------------------------------------
(* What is known of the constants and of the messages.                     *)
LEMMA Constants ==
  /\ N \in Nat /\ N > 0 /\ Rounds \in Nat /\ Rounds > 0 /\ NBuf \in Nat /\ NBuf > 1
  /\ \A f \in Faults : f \in BOOLEAN
  /\ \A d \in Demos : d \in {"ping", "flood", "matrix", "sample"}
  BY EchoAssumption

LEMMA Messages ==
  /\ \A w \in {"create", "destroy"} : Ns(w) \in Message /\ Ns(w).kind = w
  /\ \A r \in 0 .. Rounds - 1, n \in 0 .. N - 1 :
       /\ Data(r, n) \in Message
       /\ Data(r, n).kind = "data" /\ Data(r, n).round = r /\ Data(r, n).num = n
  /\ \A m \in Message : /\ m.kind \in {"data", "create", "destroy"}
                        /\ m.round \in 0 .. Rounds - 1 /\ m.num \in 0 .. N - 1
  BY Constants DEF Message, Ns, Data

(* A list is empty when its length is zero.                                *)
LEMMA Empty ==
  ASSUME NEW S, NEW s \in Seq(S)
  PROVE  s = <<>> <=> Len(s) = 0
  OBVIOUS

(* The rings and what is in flight.                                        *)
LEMMA Rings ==
  ASSUME RingTypes
  PROVE  /\ Len(toS) \in Nat /\ (toS = <<>> <=> Len(toS) = 0)
         /\ Len(toC) \in Nat /\ (toC = <<>> <=> Len(toC) = 0)
         /\ \A k \in 1 .. Len(toS) : toS[k] \in Message
         /\ \A k \in 1 .. Len(toC) : toC[k] \in Message
         /\ \A k \in DataC : k \in 1 .. Len(toC) /\ toC[k].kind = "data"
         /\ \A k \in Asked : k \in 1 .. Len(toS) /\ toS[k].kind = "data"
  <1>1. toS \in Seq(Message) /\ toC \in Seq(Message)
    BY DEF RingTypes
  <1>2. /\ Len(toS) \in Nat /\ (toS = <<>> <=> Len(toS) = 0)
        /\ \A k \in 1 .. Len(toS) : toS[k] \in Message
    BY <1>1
  <1>3. /\ Len(toC) \in Nat /\ (toC = <<>> <=> Len(toC) = 0)
        /\ \A k \in 1 .. Len(toC) : toC[k] \in Message
    BY <1>1
  <1> QED BY <1>2, <1>3 DEF DataC, Asked

(* A message is put into the ring to the server.                           *)
LEMMA PutS ==
  ASSUME RingTypes, Order, NEW m \in Message, PutToServer(m), UNCHANGED sPoll
  PROVE  /\ toS' \in Seq(Message) /\ Len(toS') <= NBuf /\ sKick' = TRUE
         /\ Len(toS) \in Nat /\ Len(toS') = Len(toS) + 1 /\ toS' # <<>>
         /\ \A k \in 1 .. Len(toS) : toS'[k] = toS[k]
         /\ toS'[Len(toS) + 1] = m
         /\ \A k : k \in Asked' <=> k \in Asked \/ (k = Len(toS) + 1 /\ m.kind = "data")
         /\ toS # <<>> => HeadS' = HeadS
         /\ toS = <<>> => HeadS = 0 /\ HeadS' = IF m.kind = "create" THEN 1 ELSE 0
  <1>1. toS' = Append(toS, m) /\ sKick' = TRUE /\ Len(toS) < NBuf /\ NBuf \in Nat
        /\ toS \in Seq(Message)
    BY Constants DEF PutToServer, RingTypes
  <1>2. /\ toS' \in Seq(Message) /\ Len(toS) \in Nat /\ Len(toS') = Len(toS) + 1
        /\ \A k \in 1 .. Len(toS) : toS'[k] = toS[k]
        /\ toS'[Len(toS) + 1] = m
    BY <1>1
  <1>3. sPoll = "release" => Len(toS) > 0
    BY DEF Order
  <1>4. \A k : k \in Asked' <=> k \in Asked \/ (k = Len(toS) + 1 /\ m.kind = "data")
    BY <1>2, <1>3 DEF Asked
  <1>5. toS # <<>> => HeadS' = HeadS
    BY <1>2 DEF HeadS
  <1>6. toS = <<>> => HeadS = 0 /\ HeadS' = IF m.kind = "create" THEN 1 ELSE 0
    BY <1>2, <1>3 DEF HeadS
  <1> QED BY <1>1, <1>4, <1>5, <1>6

(* A message is put into the ring to the client.                           *)
LEMMA PutC ==
  ASSUME RingTypes, NEW m \in Message, PutToClient(m)
  PROVE  /\ toC' \in Seq(Message) /\ Len(toC') <= NBuf /\ cKick' = TRUE
         /\ Len(toC) \in Nat /\ Len(toC') = Len(toC) + 1 /\ toC' # <<>>
         /\ \A k \in 1 .. Len(toC) : toC'[k] = toC[k]
         /\ toC'[Len(toC) + 1] = m
         /\ \A k : k \in DataC' <=> k \in DataC \/ (k = Len(toC) + 1 /\ m.kind = "data")
         /\ toC # <<>> => HeadC' = HeadC
         /\ toC = <<>> => HeadC = 0 /\ HeadC' = IF m.kind = "create" THEN 1 ELSE 0
  <1>1. toC' = Append(toC, m) /\ cKick' = TRUE /\ Len(toC) < NBuf /\ NBuf \in Nat
        /\ toC \in Seq(Message)
    BY Constants DEF PutToClient, RingTypes
  <1>2. /\ toC' \in Seq(Message) /\ Len(toC) \in Nat /\ Len(toC') = Len(toC) + 1
        /\ \A k \in 1 .. Len(toC) : toC'[k] = toC[k]
        /\ toC'[Len(toC) + 1] = m
    BY <1>1
  <1>3. \A k : k \in DataC' <=> k \in DataC \/ (k = Len(toC) + 1 /\ m.kind = "data")
    BY <1>2 DEF DataC
  <1>4. toC # <<>> => HeadC' = HeadC
    BY <1>2 DEF HeadC
  <1>5. toC = <<>> => HeadC = 0 /\ HeadC' = IF m.kind = "create" THEN 1 ELSE 0
    BY <1>2 DEF HeadC
  <1> QED BY <1>1, <1>3, <1>4, <1>5

(* The client takes a message from its ring.                               *)
LEMMA TakeC ==
  ASSUME RingTypes, toC # <<>>, toC' = Tail(toC)
  PROVE  /\ toC' \in Seq(Message) /\ Len(toC') <= NBuf
         /\ Len(toC) \in Nat /\ Len(toC') \in Nat /\ Len(toC) = Len(toC') + 1
         /\ \A k \in 1 .. Len(toC') : toC'[k] = toC[k + 1]
         /\ Head(toC) = toC[1] /\ toC[1] \in Message
         /\ \A k \in DataC' : k \in 1 .. Len(toC') /\ k + 1 \in DataC
         /\ (1 \in DataC <=> toC[1].kind = "data")
         /\ (toC' = <<>> <=> Len(toC') = 0)
  <1>1. toC \in Seq(Message) /\ Len(toC) <= NBuf /\ NBuf \in Nat
    BY Constants DEF RingTypes
  <1>2. /\ toC' \in Seq(Message) /\ Len(toC) \in Nat /\ Len(toC') \in Nat
        /\ Len(toC) = Len(toC') + 1
        /\ \A k \in 1 .. Len(toC') : toC'[k] = toC[k + 1]
        /\ Head(toC) = toC[1] /\ toC[1] \in Message
    BY <1>1
  <1>3. \A k \in DataC' : k \in 1 .. Len(toC') /\ k + 1 \in DataC
    BY DEF DataC
  <1>4. 1 \in DataC <=> toC[1].kind = "data"
    BY DEF DataC
  <1>5. toC' = <<>> <=> Len(toC') = 0
    BY <1>2, Empty
  <1> QED BY <1>1, <1>3, <1>4, <1>5

LEMMA TakenOrder ==
  ASSUME Order, Len(toC') \in Nat, Len(toC) = Len(toC') + 1,
         \A k \in 1 .. Len(toC') : toC'[k] = toC[k + 1]
  PROVE  \A k \in 1 .. Len(toC') :
           /\ toC'[k].kind # "create"
           /\ toC'[k].kind = "destroy" => k = Len(toC') /\ spc = "ended" /\ shutdown_req
  <1> SUFFICES ASSUME NEW k \in 1 .. Len(toC')
               PROVE  /\ toC[k + 1].kind # "create"
                      /\ toC[k + 1].kind = "destroy" =>
                           k = Len(toC') /\ spc = "ended" /\ shutdown_req
    OBVIOUS
  <1> QED BY DEF Order

(* The server's callback for the message at the head returns, and its      *)
(* buffer is released.                                                     *)
LEMMA HandleS ==
  ASSUME RingTypes, toS # <<>>, UNCHANGED toS, sPoll = "drain", sPoll' = "release"
  PROVE  /\ Head(toS) = toS[1] /\ toS[1] \in Message /\ Len(toS) \in Nat /\ Len(toS) > 0
         /\ \A k : k \in Asked' <=> k \in Asked /\ k # 1
         /\ (1 \in Asked <=> toS[1].kind = "data")
         /\ HeadS' = 1 /\ HeadS = IF toS[1].kind = "create" THEN 1 ELSE 0
  <1>1. toS \in Seq(Message)
    BY DEF RingTypes
  <1>2. Head(toS) = toS[1] /\ toS[1] \in Message /\ Len(toS) \in Nat /\ Len(toS) > 0
    BY <1>1
  <1>3. \A k : k \in Asked' <=> k \in Asked /\ k # 1
    BY DEF Asked
  <1>4. 1 \in Asked <=> toS[1].kind = "data"
    BY DEF Asked
  <1>5. HeadS' = 1 /\ HeadS = IF toS[1].kind = "create" THEN 1 ELSE 0
    BY DEF HeadS
  <1> QED BY <1>2, <1>3, <1>4, <1>5

LEMMA ReleaseS ==
  ASSUME RingTypes, toS # <<>>, toS' = Tail(toS), sPoll = "release", sPoll' = "drain",
         \A k \in 1 .. Len(toS) : toS[k].kind = "create" => k = 1
  PROVE  /\ toS' \in Seq(Message) /\ Len(toS') <= NBuf
         /\ Len(toS) \in Nat /\ Len(toS') \in Nat /\ Len(toS) = Len(toS') + 1
         /\ \A k \in 1 .. Len(toS') : toS'[k] = toS[k + 1]
         /\ \A k \in Asked' : k \in 1 .. Len(toS') /\ k + 1 \in Asked
         /\ HeadS' = 0 /\ HeadS = 1
  <1>1. toS \in Seq(Message) /\ Len(toS) <= NBuf /\ NBuf \in Nat
    BY Constants DEF RingTypes
  <1>2. \A k \in Asked' : k \in 1 .. Len(toS') /\ k + 1 \in Asked
    BY DEF Asked
  <1>3. HeadS' = 0 /\ HeadS = 1
    BY DEF HeadS
  <1> QED BY <1>1, <1>2, <1>3

(* A step that moves nobody on: a poll begins, wakes up or ends.           *)
LEMMA QuietStep ==
  ASSUME IInv, UNCHANGED <<setting, toS, toC, cpc, cEpt, i, round, rnum, err_cnt, ept_deleted,
                         verified, spc, sEpt, shutdown_req, count>>,
         sKick' \in BOOLEAN, cKick' \in BOOLEAN,
         cPoll' \in {"no", "wait", "drain"},
         cPoll' # "no" => Polling,
         sPoll' = sPoll \/ (sPoll # "release" /\ sPoll' \in {"no", "wait", "drain"}),
         sPoll' # "no" => spc = "loop"
  PROVE  IInv'
  <1>1. /\ TypeOK /\ err_cnt = 0 /\ Stages /\ Order /\ Lockstep /\ Verified /\ Counting /\ Flood
        /\ RingTypes /\ ClientTypes /\ ServerTypes
    BY DEF IInv, TypeOK
  <1>2. DataC' = DataC /\ HeadC' = HeadC
    BY DEF DataC, HeadC
  <1>3. Asked' = Asked /\ HeadS' = HeadS
    BY DEF Asked, HeadS
  <1>4. TypeOK'
    BY <1>1 DEF TypeOK, RingTypes, ClientTypes, ServerTypes, LastRound, setting
  <1>5. Stages'
    BY <1>1, <1>2 DEF Stages, Early, Polling, setting
  <1>6. Order'
    BY <1>1 DEF Order, Early, setting
  <1>7. Lockstep'
    BY <1>1, <1>2, <1>3 DEF Lockstep, Pending, setting
  <1>8. Verified'
    BY <1>1 DEF Verified, setting
  <1>9. Counting'
    BY <1>1, <1>2, <1>3 DEF Counting, setting
  <1>10. Flood'
    BY <1>1, <1>2, <1>3 DEF Flood, Sure, LastRound, setting
  <1> QED BY <1>4, <1>5, <1>6, <1>7, <1>8, <1>9, <1>10 DEF IInv

(* The endpoint is bound, or the payload buffer is there: the client goes  *)
(* on towards its first message.                                           *)
LEMMA CReadyStep ==
  ASSUME IInv, UNCHANGED <<setting, ringVars, cEpt, i, round, rnum, err_cnt, ept_deleted,
                         verified, serverVars>>,
         cPoll = "no", UNCHANGED cPoll, cpc \in {"ready", "alloc"},
         \/ /\ cpc = "ready" /\ cEpt = "bound"
            /\ cpc' = IF demo = "flood" THEN "alloc" ELSE "send"
         \/ cpc = "alloc" /\ cpc' = IF demo = "ping" THEN "ready" ELSE "send"
  PROVE  IInv'
  <1>1. /\ TypeOK /\ err_cnt = 0 /\ Stages /\ Order /\ Lockstep /\ Verified /\ Counting /\ Flood
        /\ RingTypes /\ ClientTypes /\ ServerTypes
    BY DEF IInv, TypeOK
  <1>2. /\ N \in Nat /\ N > 0 /\ Rounds \in Nat /\ Rounds > 0 /\ NBuf \in Nat
        /\ faulty \in BOOLEAN /\ demo \in {"ping", "flood", "matrix", "sample"}
    BY <1>1, Constants DEF TypeOK
  <1>3. DataC' = DataC /\ HeadC' = HeadC /\ Asked' = Asked /\ HeadS' = HeadS
    BY DEF ringVars, serverVars, DataC, HeadC, Asked, HeadS
  <1>4. DataC = {} /\ Asked = {} /\ i = 0 /\ rnum = 0 /\ round = 0 /\ verified = {}
    BY <1>1 DEF Stages, Early, Asked
  <1>5. TypeOK'
    BY <1>1, <1>4 DEF TypeOK, RingTypes, ClientTypes, ServerTypes, LastRound, ringVars,
       serverVars, setting
  <1>6. Stages'
    BY <1>1, <1>3 DEF Stages, Early, ringVars, setting
  <1>7. Order'
    BY <1>1, <1>4 DEF Order, Early, ringVars, serverVars, setting
  <1>8. Lockstep'
    BY <1>2, <1>3, <1>4 DEF Lockstep
  <1>9. Verified'
    BY <1>4 DEF Verified
  <1>10. Counting'
    BY <1>1, <1>3 DEF Counting, serverVars, setting
  <1>11. Flood'
    BY <1>1, <1>2, <1>3, <1>4 DEF Flood, Sure, ringVars, setting
  <1> QED BY <1>5, <1>6, <1>7, <1>8, <1>9, <1>10, <1>11 DEF IInv

(* The client announces its endpoint.                                      *)
LEMMA CreateStep ==
  ASSUME IInv, AppAt("create"), PutToServer(Ns("create")), cEpt' = "unbound",
         Goto(IF demo = "ping" THEN "alloc" ELSE "ready"),
         UNCHANGED <<i, round, rnum>>, AppFrame
  PROVE  IInv'
  <1>1. /\ TypeOK /\ err_cnt = 0 /\ Stages /\ Order /\ Lockstep /\ Verified /\ Counting /\ Flood
        /\ RingTypes /\ ClientTypes /\ ServerTypes
    BY DEF IInv, TypeOK
  <1>2. /\ N \in Nat /\ N > 0 /\ Rounds \in Nat /\ Rounds > 0 /\ NBuf \in Nat
        /\ faulty \in BOOLEAN /\ demo \in {"ping", "flood", "matrix", "sample"}
    BY <1>1, Constants DEF TypeOK
  <1>3. /\ Len(toS) \in Nat /\ (toS = <<>> <=> Len(toS) = 0)
        /\ Len(toC) \in Nat /\ (toC = <<>> <=> Len(toC) = 0)
        /\ \A k \in 1 .. Len(toS) : toS[k] \in Message
        /\ \A k \in 1 .. Len(toC) : toC[k] \in Message
        /\ \A k \in DataC : k \in 1 .. Len(toC) /\ toC[k].kind = "data"
        /\ \A k \in Asked : k \in 1 .. Len(toS) /\ toS[k].kind = "data"
    BY <1>1, Rings
  <1>4. /\ Ns("create") \in Message /\ Ns("create").kind = "create"
        /\ Ns("destroy") \in Message /\ Ns("destroy").kind = "destroy"
    BY Messages
  <1>5. /\ toS' \in Seq(Message) /\ Len(toS') <= NBuf /\ sKick' = TRUE
        /\ Len(toS') = Len(toS) + 1 /\ toS' # <<>>
        /\ \A k \in 1 .. Len(toS) : toS'[k] = toS[k]
        /\ toS'[Len(toS) + 1] = Ns("create")
        /\ \A k : k \in Asked' <=> k \in Asked \/ (k = Len(toS) + 1 /\ Ns("create").kind = "data")
        /\ toS # <<>> => HeadS' = HeadS
        /\ toS = <<>> => HeadS = 0 /\ HeadS' = IF Ns("create").kind = "create" THEN 1 ELSE 0
    BY <1>1, <1>4, PutS DEF AppFrame, serverVars
  <1>6. DataC' = DataC /\ HeadC' = HeadC
    BY DEF DataC, HeadC, AppFrame
  <1>7. cpc = "create" /\ toS = <<>>
    BY <1>1 DEF AppAt, Stages
  <1>8. /\ DataC = {} /\ Asked = {} /\ i = 0 /\ rnum = 0 /\ round = 0 /\ verified = {}
        /\ ~shutdown_req /\ ~ept_deleted
    BY <1>1, <1>7 DEF Stages, Order, Early, Asked
  <1>9. TypeOK'
    BY <1>1, <1>3, <1>4, <1>5, <1>6, <1>7, <1>8 DEF TypeOK, RingTypes, ClientTypes,
       ServerTypes, LastRound, Goto, AppFrame, serverVars, setting
  <1>10. (err_cnt = 0)'
    BY <1>1, <1>7, <1>8 DEF AppFrame
  <1>11. Stages'
    BY <1>1, <1>4, <1>5, <1>6, <1>7, <1>8 DEF Stages, AppAt, Goto, AppFrame, setting
  <1>12. Order'
    BY <1>1, <1>3, <1>4, <1>5, <1>6, <1>7, <1>8 DEF Order, AppFrame, serverVars, setting
  <1>13. Lockstep'
    BY <1>2, <1>4, <1>5, <1>6, <1>7, <1>8 DEF Lockstep
  <1>14. Verified'
    BY <1>6, <1>7, <1>8 DEF Verified, AppFrame
  <1>15. Counting'
    BY <1>1, <1>6, <1>7, <1>8 DEF Counting, AppFrame, serverVars, setting
  <1>16. Flood'
    BY <1>1, <1>4, <1>5, <1>6, <1>7, <1>8 DEF Flood, Sure, Goto, AppFrame, setting
  <1> QED BY <1>9, <1>10, <1>11, <1>12, <1>13, <1>14, <1>15, <1>16 DEF IInv

(* It cannot: app returns.                                                 *)
LEMMA CreateFails ==
  ASSUME IInv, AppAt("create"), Goto("ended"), NothingSent,
         UNCHANGED <<cEpt, i, round, rnum>>, AppFrame
  PROVE  IInv'
  <1>1. /\ TypeOK /\ err_cnt = 0 /\ Stages /\ Order /\ Lockstep /\ Verified /\ Counting /\ Flood
        /\ RingTypes /\ ClientTypes /\ ServerTypes
    BY DEF IInv, TypeOK
  <1>2. /\ N \in Nat /\ N > 0 /\ Rounds \in Nat /\ Rounds > 0 /\ NBuf \in Nat
        /\ faulty \in BOOLEAN /\ demo \in {"ping", "flood", "matrix", "sample"}
    BY <1>1, Constants DEF TypeOK
  <1>3. DataC' = DataC /\ HeadC' = HeadC /\ Asked' = Asked /\ HeadS' = HeadS
    BY DEF DataC, HeadC, Asked, HeadS, AppFrame, NothingSent, serverVars
  <1>4. /\ DataC = {} /\ Asked = {} /\ i = 0 /\ rnum = 0 /\ round = 0 /\ verified = {}
        /\ ~shutdown_req /\ ~ept_deleted
    BY <1>1 DEF AppAt, Stages, Order, Early, Asked
  <1>5. TypeOK'
    BY <1>1, <1>2, <1>3, <1>4 DEF TypeOK, RingTypes, ClientTypes, ServerTypes,
       LastRound, Goto, AppFrame, NothingSent, serverVars, setting
  <1>6. (err_cnt = 0)'
    BY <1>1 DEF AppFrame
  <1>7. Stages'
    BY <1>1, <1>3, <1>4 DEF Stages, AppAt, Goto, AppFrame, NothingSent, setting
  <1>8. Order'
    BY <1>1, <1>2, <1>3, <1>4 DEF Order, Goto, AppFrame, NothingSent, serverVars,
       setting
  <1>9. Lockstep'
    BY <1>2, <1>3, <1>4 DEF Lockstep
  <1>10. Verified'
    BY <1>4 DEF Verified, AppFrame
  <1>11. Counting'
    BY <1>1, <1>3 DEF Counting, AppAt, AppFrame, serverVars, setting
  <1>12. Flood'
    BY <1>2, <1>3, <1>4 DEF Flood, Goto
  <1> QED BY <1>5, <1>6, <1>7, <1>8, <1>9, <1>10, <1>11, <1>12 DEF IInv

(* ping, matrix and sample send message i and wait.                        *)
LEMMA LockstepSend ==
  ASSUME IInv, demo # "flood", AppAt("send"), Send(Data(0, i)), CallPoll("await"),
         rnum' = IF demo = "matrix" THEN 0 ELSE rnum,
         UNCHANGED <<cEpt, i, round>>, AppFrame
  PROVE  IInv'
  <1>1. /\ TypeOK /\ err_cnt = 0 /\ Stages /\ Order /\ Lockstep /\ Verified /\ Counting /\ Flood
        /\ RingTypes /\ ClientTypes /\ ServerTypes
    BY DEF IInv, TypeOK
  <1>2. /\ N \in Nat /\ N > 0 /\ Rounds \in Nat /\ Rounds > 0 /\ NBuf \in Nat
        /\ faulty \in BOOLEAN /\ demo \in {"ping", "flood", "matrix", "sample"}
    BY <1>1, Constants DEF TypeOK
  <1>3. /\ Len(toS) \in Nat /\ (toS = <<>> <=> Len(toS) = 0)
        /\ Len(toC) \in Nat /\ (toC = <<>> <=> Len(toC) = 0)
        /\ \A k \in 1 .. Len(toS) : toS[k] \in Message
        /\ \A k \in 1 .. Len(toC) : toC[k] \in Message
        /\ \A k \in DataC : k \in 1 .. Len(toC) /\ toC[k].kind = "data"
        /\ \A k \in Asked : k \in 1 .. Len(toS) /\ toS[k].kind = "data"
    BY <1>1, Rings
  <1>4. i \in Nat /\ i < N /\ round = 0
    BY <1>1 DEF AppAt, ClientTypes, Lockstep
  <1>5. Data(0, i) \in Message /\ Data(0, i).kind = "data"
    BY <1>2, <1>4, Messages
  <1>6. /\ toS' \in Seq(Message) /\ Len(toS') <= NBuf /\ sKick' = TRUE
        /\ Len(toS') = Len(toS) + 1 /\ toS' # <<>>
        /\ \A k \in 1 .. Len(toS) : toS'[k] = toS[k]
        /\ toS'[Len(toS) + 1] = Data(0, i)
        /\ \A k : k \in Asked' <=> k \in Asked \/ (k = Len(toS) + 1 /\ Data(0, i).kind = "data")
        /\ toS # <<>> => HeadS' = HeadS
        /\ toS = <<>> => HeadS = 0 /\ HeadS' = IF Data(0, i).kind = "create" THEN 1 ELSE 0
    BY <1>1, <1>5, PutS DEF Send, AppFrame, serverVars
  <1>7. DataC' = DataC /\ HeadC' = HeadC
    BY DEF DataC, HeadC, AppFrame
  <1>8. DataC = {} /\ Asked = {}
    BY <1>1 DEF AppAt, Lockstep, Pending
  <1>9. TypeOK'
    BY <1>1, <1>2, <1>3, <1>4, <1>5, <1>6, <1>7, <1>8 DEF TypeOK, RingTypes,
       ClientTypes, ServerTypes, LastRound, CallPoll, AppFrame, serverVars, setting
  <1>10. (err_cnt = 0)'
    BY <1>1, <1>6, <1>7, <1>8 DEF AppFrame
  <1>11. Stages'
    BY <1>1, <1>3, <1>4, <1>5, <1>6, <1>7, <1>8 DEF Stages, Early, Polling, Send,
       CallPoll, AppFrame, setting
  <1>12. Order'
    BY <1>1, <1>2, <1>3, <1>4, <1>5, <1>6, <1>7, <1>8 DEF Order, Early, AppAt, CallPoll,
       AppFrame, serverVars, setting
  <1>13. Lockstep'
    <2>1. round' = 0 /\ i' = i /\ cpc' = "await" /\ DataC' = {}
      BY <1>4, <1>7, <1>8 DEF CallPoll
    <2>2. rnum' = IF demo = "matrix" THEN 0 ELSE i
      BY <1>1, <1>2 DEF AppAt, Verified
    <2>3. \A k \in Asked' : k = Len(toS) + 1 /\ toS'[k] = Data(0, i)
      BY <1>6, <1>8
    <2> QED BY <1>4, <2>1, <2>2, <2>3 DEF Lockstep, Pending, AppFrame, setting
  <1>14. Verified'
    <2>1. cpc = "send" /\ cpc' = "await" /\ i' = i /\ demo' = demo /\ verified' = verified
      BY DEF AppAt, CallPoll, AppFrame, setting
    <2>2. CASE demo = "matrix"
      BY <1>1, <2>1 DEF Verified
    <2>3. CASE demo # "matrix"
      BY <1>1, <2>1 DEF Verified
    <2> QED BY <2>2, <2>3
  <1>15. Counting'
    BY <1>1, <1>5, <1>6, <1>7, <1>8 DEF Counting, AppAt, AppFrame, serverVars, setting
  <1>16. Flood'
    BY <1>3, <1>4, <1>5, <1>6, <1>7, <1>8 DEF Flood, AppFrame, setting
  <1> QED BY <1>9, <1>10, <1>11, <1>12, <1>13, <1>14, <1>15, <1>16 DEF IInv

(* They cannot: the loop ends.                                             *)
LEMMA LockstepFails ==
  ASSUME IInv, demo # "flood", AppAt("send"), Goto("finish"), NothingSent,
         rnum' = IF demo = "matrix" THEN 0 ELSE rnum,
         UNCHANGED <<cEpt, i, round>>, AppFrame
  PROVE  IInv'
  <1>1. /\ TypeOK /\ err_cnt = 0 /\ Stages /\ Order /\ Lockstep /\ Verified /\ Counting /\ Flood
        /\ RingTypes /\ ClientTypes /\ ServerTypes
    BY DEF IInv, TypeOK
  <1>2. /\ N \in Nat /\ N > 0 /\ Rounds \in Nat /\ Rounds > 0 /\ NBuf \in Nat
        /\ faulty \in BOOLEAN /\ demo \in {"ping", "flood", "matrix", "sample"}
    BY <1>1, Constants DEF TypeOK
  <1>3. DataC' = DataC /\ HeadC' = HeadC /\ Asked' = Asked /\ HeadS' = HeadS
    BY DEF DataC, HeadC, Asked, HeadS, AppFrame, NothingSent, serverVars
  <1>4. DataC = {} /\ Asked = {}
    BY <1>1 DEF AppAt, Lockstep, Pending
  <1>5. TypeOK'
    BY <1>1, <1>2, <1>3, <1>4 DEF TypeOK, RingTypes, ClientTypes, ServerTypes,
       LastRound, Goto, AppFrame, NothingSent, serverVars, setting
  <1>6. (err_cnt = 0)'
    BY <1>1 DEF AppFrame
  <1>7. Stages'
    BY <1>1, <1>3, <1>4 DEF Stages, Early, AppAt, Goto, AppFrame, setting
  <1>8. Order'
    BY <1>1, <1>2, <1>3, <1>4 DEF Order, Early, AppAt, Goto, AppFrame, NothingSent,
       serverVars, setting
  <1>9. Lockstep'
    BY <1>1, <1>3, <1>4 DEF Lockstep, Goto
  <1>10. Verified'
    BY <1>1 DEF Verified, AppAt, AppFrame, setting
  <1>11. Counting'
    BY <1>1, <1>3 DEF Counting, AppAt, AppFrame, serverVars, setting
  <1>12. Flood'
    BY <1>3, <1>4 DEF Flood, AppFrame, setting
  <1> QED BY <1>5, <1>6, <1>7, <1>8, <1>9, <1>10, <1>11, <1>12 DEF IInv

(* They have the answer and go on with the next message.                   *)
LEMMA LockstepNext ==
  ASSUME IInv, demo # "flood", AppAt("await"),
         rnum = IF demo = "matrix" THEN 1 ELSE i + 1,
         i' = i + 1, Goto(IF i + 1 < N THEN "send" ELSE "finish"), NothingSent,
         UNCHANGED <<cEpt, round, rnum>>, AppFrame
  PROVE  IInv'
  <1>1. /\ TypeOK /\ err_cnt = 0 /\ Stages /\ Order /\ Lockstep /\ Verified /\ Counting /\ Flood
        /\ RingTypes /\ ClientTypes /\ ServerTypes
    BY DEF IInv, TypeOK
  <1>2. /\ N \in Nat /\ N > 0 /\ Rounds \in Nat /\ Rounds > 0 /\ NBuf \in Nat
        /\ faulty \in BOOLEAN /\ demo \in {"ping", "flood", "matrix", "sample"}
    BY <1>1, Constants DEF TypeOK
  <1>3. DataC' = DataC /\ HeadC' = HeadC /\ Asked' = Asked /\ HeadS' = HeadS
    BY DEF DataC, HeadC, Asked, HeadS, AppFrame, NothingSent, serverVars
  <1>4. i \in Nat /\ i < N /\ rnum \in Nat
    BY <1>1 DEF AppAt, ClientTypes, Lockstep
  <1>5. DataC = {} /\ Asked = {}
    BY <1>1 DEF Lockstep, Pending
  <1>6. TypeOK'
    BY <1>1, <1>2, <1>3, <1>4, <1>5 DEF TypeOK, RingTypes, ClientTypes, ServerTypes,
       LastRound, Goto, AppFrame, NothingSent, serverVars, setting
  <1>7. (err_cnt = 0)'
    BY <1>1 DEF AppFrame
  <1>8. Stages'
    BY <1>1, <1>3, <1>4, <1>5 DEF Stages, Early, AppAt, Goto, AppFrame, setting
  <1>9. Order'
    BY <1>1, <1>2, <1>3, <1>4, <1>5 DEF Order, Early, AppAt, Goto, AppFrame,
       NothingSent, serverVars, setting
  <1>10. Lockstep'
    BY <1>1, <1>3, <1>4, <1>5 DEF Lockstep, Goto
  <1>11. Verified'
    BY <1>1, <1>4, <1>5 DEF Verified, AppAt, Goto, AppFrame, setting
  <1>12. Counting'
    BY <1>1, <1>3, <1>5 DEF Counting, AppFrame, serverVars, setting
  <1>13. Flood'
    BY <1>3, <1>4, <1>5 DEF Flood, AppFrame, setting
  <1> QED BY <1>6, <1>7, <1>8, <1>9, <1>10, <1>11, <1>12, <1>13 DEF IInv

(* flood sends message i.                                                  *)
LEMMA FloodSends ==
  ASSUME IInv, demo = "flood", AppAt("send"), Send(Data(round, i)),
         i' = i + 1, Goto(IF i + 1 < N THEN "send" ELSE "await"),
         UNCHANGED <<cEpt, round, rnum>>, AppFrame
  PROVE  IInv'
  <1>1. /\ TypeOK /\ err_cnt = 0 /\ Stages /\ Order /\ Lockstep /\ Verified /\ Counting /\ Flood
        /\ RingTypes /\ ClientTypes /\ ServerTypes
    BY DEF IInv, TypeOK
  <1>2. /\ N \in Nat /\ N > 0 /\ Rounds \in Nat /\ Rounds > 0 /\ NBuf \in Nat
        /\ faulty \in BOOLEAN /\ demo \in {"ping", "flood", "matrix", "sample"}
    BY <1>1, Constants DEF TypeOK
  <1>3. /\ Len(toS) \in Nat /\ (toS = <<>> <=> Len(toS) = 0)
        /\ Len(toC) \in Nat /\ (toC = <<>> <=> Len(toC) = 0)
        /\ \A k \in 1 .. Len(toS) : toS[k] \in Message
        /\ \A k \in 1 .. Len(toC) : toC[k] \in Message
        /\ \A k \in DataC : k \in 1 .. Len(toC) /\ toC[k].kind = "data"
        /\ \A k \in Asked : k \in 1 .. Len(toS) /\ toS[k].kind = "data"
    BY <1>1, Rings
  <1>4. i \in Nat /\ i < N /\ rnum \in Nat /\ round \in 0 .. Rounds - 1
    BY <1>1 DEF AppAt, ClientTypes, Flood, LastRound
  <1>5. Data(round, i) \in Message /\ Data(round, i).kind = "data"
    BY <1>2, <1>4, Messages
  <1>6. /\ toS' \in Seq(Message) /\ Len(toS') <= NBuf /\ sKick' = TRUE
        /\ Len(toS') = Len(toS) + 1 /\ toS' # <<>>
        /\ \A k \in 1 .. Len(toS) : toS'[k] = toS[k]
        /\ toS'[Len(toS) + 1] = Data(round, i)
        /\ \A k : k \in Asked' <=> k \in Asked \/ (k = Len(toS) + 1 /\ Data(round, i).kind = "data")
        /\ toS # <<>> => HeadS' = HeadS
        /\ toS = <<>> => HeadS = 0 /\ HeadS' = IF Data(round, i).kind = "create" THEN 1 ELSE 0
    BY <1>1, <1>5, PutS DEF Send, AppFrame, serverVars
  <1>7. DataC' = DataC /\ HeadC' = HeadC
    BY DEF DataC, HeadC, AppFrame
  <1>8. TypeOK'
    BY <1>1, <1>2, <1>3, <1>4, <1>5, <1>6, <1>7 DEF TypeOK, RingTypes, ClientTypes,
       ServerTypes, LastRound, Goto, AppFrame, serverVars, setting
  <1>9. (err_cnt = 0)'
    BY <1>1, <1>6, <1>7 DEF AppFrame
  <1>10. Stages'
    BY <1>1, <1>3, <1>4, <1>5, <1>6, <1>7 DEF Stages, Early, AppAt, Goto, AppFrame,
       setting
  <1>11. Order'
    BY <1>1, <1>2, <1>3, <1>4, <1>5, <1>6, <1>7 DEF Order, AppAt, AppFrame, serverVars,
       setting
  <1>12. Lockstep'
    BY <1>4, <1>5, <1>6, <1>7 DEF Lockstep, AppFrame, setting
  <1>13. Verified'
    BY <1>5, <1>6, <1>7 DEF Verified, AppFrame, setting
  <1>14. Counting'
    BY <1>5, <1>6, <1>7 DEF Counting, AppFrame, setting
  <1>15. Flood'
    <2>1. /\ cpc = "send" /\ UNCHANGED <<setting, toC, rnum, round, verified>>
          /\ (cpc' = "send" /\ i' < N) \/ (cpc' = "await" /\ i' = N)
      BY <1>2, <1>4 DEF AppAt, Goto, AppFrame
    <2> SUFFICES ASSUME Sure PROVE
           /\ \A k \in DataC' : toC'[k].round = round' /\ toC'[k].num = rnum' + k - 1
           /\ \A k \in Asked' : toS'[k].round = round' /\ toS'[k].num + Len(toS') = i' + k - 1
           /\ rnum' + (Len(toC') - HeadC') + (Len(toS') - HeadS') = i'
           /\ verified' = ((0 .. round' - 1) \X (0 .. N - 1)) \cup ({round'} \X (0 .. rnum' - 1))
      BY <2>1 DEF Flood, Sure, setting
    <2>2. /\ \A k \in DataC : toC[k].round = round /\ toC[k].num = rnum + k - 1
          /\ \A k \in Asked : toS[k].round = round /\ toS[k].num + Len(toS) = i + k - 1
          /\ rnum + (Len(toC) - HeadC) + (Len(toS) - HeadS) = i
          /\ verified = ((0 .. round - 1) \X (0 .. N - 1)) \cup ({round} \X (0 .. rnum - 1))
      BY <1>1, <2>1 DEF Flood
    <2>3. Len(toS) \in Nat /\ Len(toS') = Len(toS) + 1 /\ i \in Nat /\ i' = i + 1
      BY <1>4, <1>6
    <2>4. \A k \in Asked' : toS'[k].round = round' /\ toS'[k].num + Len(toS') = i' + k - 1
      <3> SUFFICES ASSUME NEW k \in Asked'
                   PROVE  toS'[k].round = round /\ toS'[k].num + Len(toS') = i' + k - 1
        OBVIOUS
      <3>1. CASE k \in Asked
        <4>1. k \in 1 .. Len(toS) /\ toS'[k] = toS[k] /\ toS[k].num \in Nat
          BY <1>3, <1>6, <3>1, Messages
        <4>2. toS[k].round = round /\ toS[k].num + Len(toS) = i + k - 1
          BY <2>2, <3>1
        <4> QED BY <2>3, <4>1, <4>2
      <3>2. CASE k = Len(toS) + 1
        <4>1. toS'[k].round = round /\ toS'[k].num = i
          BY <1>2, <1>4, <1>6, <3>2, Messages
        <4> QED BY <2>3, <3>2, <4>1
      <3> QED BY <1>6, <3>1, <3>2
    <2>5. rnum' + (Len(toC') - HeadC') + (Len(toS') - HeadS') = i'
      <3>1. Len(toS') - HeadS' = Len(toS) - HeadS + 1 /\ HeadC \in Int /\ HeadS \in Int
        BY <1>5, <1>6 DEF HeadC, HeadS
      <3>2. rnum + (Len(toC) - HeadC) + (Len(toS) - HeadS) = i
        BY <2>2
      <3>3. /\ rnum' = rnum /\ Len(toC') = Len(toC) /\ HeadC' = HeadC
            /\ rnum \in Nat /\ Len(toC) \in Nat /\ Len(toS) \in Nat
        BY <1>3, <1>4, <1>7, <2>1
      <3> QED BY <2>3, <3>1, <3>2, <3>3
    <2> QED BY <1>7, <2>1, <2>2, <2>4, <2>5
  <1> QED BY <1>8, <1>9, <1>10, <1>11, <1>12, <1>13, <1>14, <1>15 DEF IInv

(* flood leaves its loop: a send failed, or the last answer is there.      *)
LEMMA FloodEnds ==
  ASSUME IInv, demo = "flood", AppAt("send") \/ (AppAt("await") /\ rnum = N /\ round = LastRound),
         Goto("finish"), NothingSent,
         UNCHANGED <<cEpt, i, round, rnum>>, AppFrame
  PROVE  IInv'
  <1>1. /\ TypeOK /\ err_cnt = 0 /\ Stages /\ Order /\ Lockstep /\ Verified /\ Counting /\ Flood
        /\ RingTypes /\ ClientTypes /\ ServerTypes
    BY DEF IInv, TypeOK
  <1>2. /\ N \in Nat /\ N > 0 /\ Rounds \in Nat /\ Rounds > 0 /\ NBuf \in Nat
        /\ faulty \in BOOLEAN /\ demo \in {"ping", "flood", "matrix", "sample"}
    BY <1>1, Constants DEF TypeOK
  <1>3. DataC' = DataC /\ HeadC' = HeadC /\ Asked' = Asked /\ HeadS' = HeadS
    BY DEF DataC, HeadC, Asked, HeadS, AppFrame, NothingSent, serverVars
  <1>4. TypeOK'
    BY <1>1, <1>2, <1>3 DEF TypeOK, RingTypes, ClientTypes, ServerTypes, LastRound,
       Goto, AppFrame, NothingSent, serverVars, setting
  <1>5. (err_cnt = 0)'
    BY <1>1 DEF AppFrame
  <1>6. Stages'
    BY <1>1, <1>3 DEF Stages, Early, AppAt, Goto, AppFrame, setting
  <1>7. Order'
    BY <1>1, <1>2, <1>3 DEF Order, AppAt, AppFrame, NothingSent, serverVars, setting
  <1>8. Lockstep'
    BY DEF Lockstep, AppFrame, setting
  <1>9. Verified'
    BY DEF Verified, AppFrame, setting
  <1>10. Counting'
    BY DEF Counting, AppFrame, setting
  <1>11. Flood'
    BY <1>1, <1>2, <1>3 DEF Flood, Sure, LastRound, AppAt, Goto, AppFrame, NothingSent,
       setting
  <1> QED BY <1>4, <1>5, <1>6, <1>7, <1>8, <1>9, <1>10, <1>11 DEF IInv

(* All answers of this size are there: the next size.                      *)
LEMMA FloodNext ==
  ASSUME IInv, demo = "flood", AppAt("await"), rnum = N, round < LastRound,
         round' = round + 1, rnum' = 0, i' = 0, Goto("send"), NothingSent,
         UNCHANGED cEpt, AppFrame
  PROVE  IInv'
  <1>1. /\ TypeOK /\ err_cnt = 0 /\ Stages /\ Order /\ Lockstep /\ Verified /\ Counting /\ Flood
        /\ RingTypes /\ ClientTypes /\ ServerTypes
    BY DEF IInv, TypeOK
  <1>2. /\ N \in Nat /\ N > 0 /\ Rounds \in Nat /\ Rounds > 0 /\ NBuf \in Nat
        /\ faulty \in BOOLEAN /\ demo \in {"ping", "flood", "matrix", "sample"}
    BY <1>1, Constants DEF TypeOK
  <1>3. /\ Len(toS) \in Nat /\ (toS = <<>> <=> Len(toS) = 0)
        /\ Len(toC) \in Nat /\ (toC = <<>> <=> Len(toC) = 0)
        /\ \A k \in 1 .. Len(toS) : toS[k] \in Message
        /\ \A k \in 1 .. Len(toC) : toC[k] \in Message
        /\ \A k \in DataC : k \in 1 .. Len(toC) /\ toC[k].kind = "data"
        /\ \A k \in Asked : k \in 1 .. Len(toS) /\ toS[k].kind = "data"
    BY <1>1, Rings
  <1>4. DataC' = DataC /\ HeadC' = HeadC /\ Asked' = Asked /\ HeadS' = HeadS
    BY DEF DataC, HeadC, Asked, HeadS, AppFrame, NothingSent, serverVars
  <1>5. TypeOK'
    BY <1>1, <1>2, <1>3, <1>4 DEF TypeOK, RingTypes, ClientTypes, ServerTypes,
       LastRound, Goto, AppFrame, NothingSent, serverVars, setting
  <1>6. (err_cnt = 0)'
    BY <1>1 DEF AppFrame
  <1>7. Stages'
    BY <1>1, <1>3, <1>4 DEF Stages, Early, AppAt, Goto, AppFrame, setting
  <1>8. Order'
    BY <1>1, <1>2, <1>3, <1>4 DEF Order, AppAt, AppFrame, NothingSent, serverVars,
       setting
  <1>9. Lockstep'
    BY <1>4 DEF Lockstep, AppFrame, setting
  <1>10. Verified'
    BY DEF Verified, AppFrame, setting
  <1>11. Counting'
    BY DEF Counting, AppFrame, setting
  <1>12. Flood'
    <2>1. /\ cpc = "await" /\ cpc' = "send" /\ UNCHANGED <<setting, toC, toS, verified>>
          /\ i = N /\ i' = 0 /\ rnum' = 0 /\ round' = round + 1 /\ round \in Nat /\ rnum = N
      BY <1>1 DEF AppAt, Goto, AppFrame, NothingSent, Flood, ClientTypes
    <2> SUFFICES ASSUME Sure PROVE
           /\ DataC = {} /\ Asked = {}
           /\ Len(toC) - HeadC + (Len(toS) - HeadS) = 0
           /\ verified = ((0 .. round) \X (0 .. N - 1))
      <3>1. Sure' => Sure
        BY <2>1 DEF Sure, setting
      <3>2. (0 .. round' - 1) = 0 .. round /\ (0 .. rnum' - 1) = {} /\ 0 < N
        BY <1>2, <2>1
      <3>3. HeadC \in Int /\ HeadS \in Int
        BY DEF HeadC, HeadS
      <3>4. rnum' + (Len(toC') - HeadC') + (Len(toS') - HeadS')
              = Len(toC) - HeadC + (Len(toS) - HeadS)
        BY <1>4, <2>1, <3>3
      <3> QED BY <1>4, <2>1, <3>1, <3>2, <3>4 DEF Flood
    <2>2. /\ rnum + (Len(toC) - HeadC) + (Len(toS) - HeadS) = i
          /\ verified = ((0 .. round - 1) \X (0 .. N - 1)) \cup ({round} \X (0 .. rnum - 1))
      BY <1>1, <2>1 DEF Flood
    <2>3. /\ HeadC \in {0, 1} /\ HeadS \in {0, 1} /\ HeadC <= Len(toC) /\ HeadS <= Len(toS)
      BY DEF HeadC, HeadS
    <2>4. Len(toC) = HeadC /\ Len(toS) = HeadS
      BY <1>2, <2>1, <2>2, <2>3
    <2>5. DataC = {}
      BY <1>3, <2>4 DEF HeadC
    <2>6. Asked = {}
      BY <2>4 DEF Asked, HeadS
    <2>7. 0 .. round = (0 .. round - 1) \cup {round}
      BY <2>1
    <2> QED BY <2>2, <2>4, <2>5, <2>6, <2>7
  <1> QED BY <1>5, <1>6, <1>7, <1>8, <1>9, <1>10, <1>11, <1>12 DEF IInv

(* The client destroys its endpoint and tells the server.                  *)
LEMMA FarewellSent ==
  ASSUME IInv, AppAt("alloc") \/ (demo # "sample" /\ AppAt("finish")), PutToServer(Ns("destroy")),
         cEpt' = "none", Goto("ended"), UNCHANGED <<i, round, rnum>>, AppFrame
  PROVE  IInv'
  <1>1. /\ TypeOK /\ err_cnt = 0 /\ Stages /\ Order /\ Lockstep /\ Verified /\ Counting /\ Flood
        /\ RingTypes /\ ClientTypes /\ ServerTypes
    BY DEF IInv, TypeOK
  <1>2. /\ N \in Nat /\ N > 0 /\ Rounds \in Nat /\ Rounds > 0 /\ NBuf \in Nat
        /\ faulty \in BOOLEAN /\ demo \in {"ping", "flood", "matrix", "sample"}
    BY <1>1, Constants DEF TypeOK
  <1>3. /\ Len(toS) \in Nat /\ (toS = <<>> <=> Len(toS) = 0)
        /\ Len(toC) \in Nat /\ (toC = <<>> <=> Len(toC) = 0)
        /\ \A k \in 1 .. Len(toS) : toS[k] \in Message
        /\ \A k \in 1 .. Len(toC) : toC[k] \in Message
        /\ \A k \in DataC : k \in 1 .. Len(toC) /\ toC[k].kind = "data"
        /\ \A k \in Asked : k \in 1 .. Len(toS) /\ toS[k].kind = "data"
    BY <1>1, Rings
  <1>4. /\ Ns("create") \in Message /\ Ns("create").kind = "create"
        /\ Ns("destroy") \in Message /\ Ns("destroy").kind = "destroy"
    BY Messages
  <1>5. /\ toS' \in Seq(Message) /\ Len(toS') <= NBuf /\ sKick' = TRUE
        /\ Len(toS') = Len(toS) + 1 /\ toS' # <<>>
        /\ \A k \in 1 .. Len(toS) : toS'[k] = toS[k]
        /\ toS'[Len(toS) + 1] = Ns("destroy")
        /\ \A k : k \in Asked' <=> k \in Asked \/ (k = Len(toS) + 1 /\ Ns("destroy").kind = "data")
        /\ toS # <<>> => HeadS' = HeadS
        /\ toS = <<>> => HeadS = 0 /\ HeadS' = IF Ns("destroy").kind = "create" THEN 1 ELSE 0
    BY <1>1, <1>4, PutS DEF AppFrame, serverVars
  <1>6. DataC' = DataC /\ HeadC' = HeadC
    BY DEF DataC, HeadC, AppFrame
  <1>7. Asked' = Asked
    BY <1>4, <1>5
  <1>8. TypeOK'
    BY <1>1, <1>3, <1>4, <1>5, <1>6, <1>7 DEF TypeOK, RingTypes, ClientTypes,
       ServerTypes, LastRound, Goto, AppFrame, serverVars, setting
  <1>9. (err_cnt = 0)'
    BY <1>1, <1>7 DEF AppFrame
  <1>10. Stages'
    BY <1>1, <1>4, <1>5, <1>6, <1>7 DEF Stages, Early, AppAt, Goto, AppFrame, setting
  <1>11. Order'
    BY <1>1, <1>3, <1>4, <1>5, <1>6, <1>7 DEF Order, Stages, AppAt, Goto, AppFrame,
       serverVars, setting
  <1>12. Lockstep'
    BY <1>1, <1>2, <1>3, <1>4, <1>5, <1>6, <1>7 DEF Lockstep, Pending, AppAt, Goto,
       AppFrame, setting
  <1>13. Verified'
    BY <1>1, <1>3, <1>4, <1>5, <1>6, <1>7 DEF Verified, AppAt, Goto, AppFrame, setting
  <1>14. Counting'
    BY <1>1, <1>3, <1>4, <1>5, <1>6, <1>7 DEF Counting, AppAt, AppFrame, setting, Stages
  <1>15. Flood'
    BY <1>1, <1>2, <1>3, <1>4, <1>5, <1>6, <1>7 DEF Flood, Sure, LastRound, AppAt, Goto,
       AppFrame, setting, Stages, Early
  <1> QED BY <1>8, <1>9, <1>10, <1>11, <1>12, <1>13, <1>14, <1>15 DEF IInv

(* It ends without a word: the endpoint is gone, or nobody takes the word. *)
LEMMA LeavesSilently ==
  ASSUME IInv, AppAt("alloc") \/ AppAt("finish"), demo = "sample" => ept_deleted,
         cEpt' = "none", Goto("ended"), NothingSent, UNCHANGED <<i, round, rnum>>, AppFrame
  PROVE  IInv'
  <1>1. /\ TypeOK /\ err_cnt = 0 /\ Stages /\ Order /\ Lockstep /\ Verified /\ Counting /\ Flood
        /\ RingTypes /\ ClientTypes /\ ServerTypes
    BY DEF IInv, TypeOK
  <1>2. /\ N \in Nat /\ N > 0 /\ Rounds \in Nat /\ Rounds > 0 /\ NBuf \in Nat
        /\ faulty \in BOOLEAN /\ demo \in {"ping", "flood", "matrix", "sample"}
    BY <1>1, Constants DEF TypeOK
  <1>3. DataC' = DataC /\ HeadC' = HeadC /\ Asked' = Asked /\ HeadS' = HeadS
    BY DEF DataC, HeadC, Asked, HeadS, AppFrame, NothingSent, serverVars
  <1>4. TypeOK'
    BY <1>1, <1>2, <1>3 DEF TypeOK, RingTypes, ClientTypes, ServerTypes, LastRound,
       Goto, AppFrame, NothingSent, serverVars, setting
  <1>5. (err_cnt = 0)'
    BY <1>1 DEF AppFrame
  <1>6. Stages'
    BY <1>1, <1>3 DEF Stages, Early, AppAt, Goto, AppFrame, setting
  <1>7. Order'
    BY <1>1, <1>2, <1>3 DEF Order, Early, Goto, AppFrame, NothingSent, serverVars,
       setting
  <1>8. Lockstep'
    BY <1>1, <1>2, <1>3 DEF Lockstep, Pending, AppAt, Goto, AppFrame, setting
  <1>9. Verified'
    BY <1>1, <1>2, <1>3 DEF Verified, AppAt, Goto, AppFrame, setting
  <1>10. Counting'
    BY <1>1, <1>2, <1>3 DEF Counting, AppAt, AppFrame, serverVars, setting
  <1>11. Flood'
    BY <1>1, <1>2, <1>3 DEF Flood, Sure, LastRound, AppAt, Goto, AppFrame, setting,
       Stages, Early, Polling
  <1> QED BY <1>4, <1>5, <1>6, <1>7, <1>8, <1>9, <1>10, <1>11 DEF IInv

(* The answer to message i has come and is found to be right.              *)
LEMMA LockstepReceive ==
  ASSUME IInv, demo # "flood", cPoll = "drain", toC # <<>>, Head(toC).kind = "data",
         toC' = Tail(toC),
         rnum' = IF demo = "matrix" THEN 1 ELSE i + 1,
         verified' = verified \cup {<<0, i>>},
         UNCHANGED <<setting, toS, sKick, cKick, cpc, cPoll, cEpt, i, round, err_cnt, ept_deleted,
                     serverVars>>
  PROVE  IInv'
  <1>1. /\ TypeOK /\ err_cnt = 0 /\ Stages /\ Order /\ Lockstep /\ Verified /\ Counting /\ Flood
        /\ RingTypes /\ ClientTypes /\ ServerTypes
    BY DEF IInv, TypeOK
  <1>2. /\ N \in Nat /\ N > 0 /\ Rounds \in Nat /\ Rounds > 0 /\ NBuf \in Nat
        /\ faulty \in BOOLEAN /\ demo \in {"ping", "flood", "matrix", "sample"}
    BY <1>1, Constants DEF TypeOK
  <1>3. /\ toC' \in Seq(Message) /\ Len(toC') <= NBuf
        /\ Len(toC') \in Nat /\ Len(toC) = Len(toC') + 1
        /\ \A k \in 1 .. Len(toC') : toC'[k] = toC[k + 1]
        /\ Head(toC) = toC[1] /\ toC[1] \in Message
        /\ \A k \in DataC' : k \in 1 .. Len(toC') /\ k + 1 \in DataC
        /\ (1 \in DataC <=> toC[1].kind = "data")
        /\ (toC' = <<>> <=> Len(toC') = 0)
    BY <1>1, TakeC
  <1>4. Asked' = Asked /\ HeadS' = HeadS
    BY DEF Asked, HeadS, serverVars
  <1>5. 1 \in DataC /\ Pending /\ cpc = "await" /\ i < N /\ round = 0 /\ i \in Nat
    BY <1>1, <1>3 DEF Lockstep, Pending, ClientTypes
  <1>6. DataC' = {} /\ Asked = {}
    BY <1>1, <1>3 DEF Lockstep
  <1>7. \A k \in 1 .. Len(toC') :
           /\ toC'[k].kind # "create"
           /\ toC'[k].kind = "destroy" => k = Len(toC') /\ spc = "ended" /\ shutdown_req
    BY <1>1, <1>3, TakenOrder
  <1>8. TypeOK'
    <2>1. RingTypes'
      BY <1>1, <1>3 DEF RingTypes
    <2>2. ClientTypes'
      BY <1>1, <1>2, <1>5 DEF ClientTypes, LastRound
    <2>3. ServerTypes'
      BY <1>1 DEF serverVars, ServerTypes
    <2> QED BY <1>1, <2>1, <2>2, <2>3 DEF setting, TypeOK
  <1>9. Stages'
    BY <1>1, <1>5, <1>6, <1>7 DEF Stages, Early, Polling, setting
  <1>10. Order'
    BY <1>1, <1>5, <1>6, <1>7 DEF Order, Early, serverVars, setting
  <1>11. Lockstep'
    BY <1>4, <1>5, <1>6, <1>7 DEF Lockstep
  <1>12. Verified'
    <2>1. cpc' = "await" /\ i' = i /\ demo' = demo
      BY <1>5 DEF setting
    <2>2. 0 .. i = (0 .. i - 1) \cup {i}
      BY <1>5
    <2>3. CASE demo = "matrix"
      <3>1. rnum = 0 /\ rnum' = 1 /\ verified = {0} \X (0 .. i - 1)
        BY <1>1, <1>5, <2>3 DEF Verified, Pending
      <3>2. verified' = {0} \X (0 .. i)
        BY <2>2, <3>1
      <3> QED BY <2>1, <2>3, <3>2 DEF Verified
    <2>4. CASE demo # "matrix"
      <3>1. rnum = i /\ rnum' = i + 1 /\ verified = {0} \X (0 .. i - 1)
        BY <1>1, <1>2, <1>5, <2>4 DEF Verified, Pending
      <3>2. verified' = {0} \X (0 .. i) /\ (i + 1) - 1 = i
        BY <2>2, <3>1
      <3> QED BY <2>1, <3>2 DEF Verified
    <2> QED BY <2>3, <2>4
  <1>13. Counting'
    BY <1>1, <1>5, <1>6 DEF Counting, serverVars, setting, Pending
  <1>14. Flood'
    BY <1>6, <1>7 DEF Flood, setting
  <1> QED BY <1>8, <1>9, <1>10, <1>11, <1>12, <1>13, <1>14 DEF IInv

(* flood has an answer.                                                    *)
LEMMA FloodReceive ==
  ASSUME IInv, demo = "flood", cPoll = "drain", toC # <<>>, Head(toC).kind = "data",
         toC' = Tail(toC),
         rnum' = Head(toC).num + 1,
         verified' = verified \cup {<<Head(toC).round, Head(toC).num>>},
         UNCHANGED <<setting, toS, sKick, cKick, cpc, cPoll, cEpt, i, round, err_cnt, ept_deleted,
                     serverVars>>
  PROVE  IInv'
  <1>1. /\ TypeOK /\ err_cnt = 0 /\ Stages /\ Order /\ Lockstep /\ Verified /\ Counting /\ Flood
        /\ RingTypes /\ ClientTypes /\ ServerTypes
    BY DEF IInv, TypeOK
  <1>2. /\ N \in Nat /\ N > 0 /\ Rounds \in Nat /\ Rounds > 0 /\ NBuf \in Nat
        /\ faulty \in BOOLEAN /\ demo \in {"ping", "flood", "matrix", "sample"}
    BY <1>1, Constants DEF TypeOK
  <1>3. /\ toC' \in Seq(Message) /\ Len(toC') <= NBuf
        /\ Len(toC') \in Nat /\ Len(toC) = Len(toC') + 1
        /\ \A k \in 1 .. Len(toC') : toC'[k] = toC[k + 1]
        /\ Head(toC) = toC[1] /\ toC[1] \in Message
        /\ \A k \in DataC' : k \in 1 .. Len(toC') /\ k + 1 \in DataC
        /\ (1 \in DataC <=> toC[1].kind = "data")
        /\ (toC' = <<>> <=> Len(toC') = 0)
    BY <1>1, TakeC
  <1>4. Asked' = Asked /\ HeadS' = HeadS
    BY DEF Asked, HeadS, serverVars
  <1>5. 1 \in DataC /\ ~Early /\ cpc # "ended"
    BY <1>1, <1>3 DEF Stages, Polling
  <1>6. Head(toC).num \in 0 .. N - 1 /\ Head(toC).round \in 0 .. Rounds - 1
    BY <1>3, Messages
  <1>7. \A k \in 1 .. Len(toC') :
           /\ toC'[k].kind # "create"
           /\ toC'[k].kind = "destroy" => k = Len(toC') /\ spc = "ended" /\ shutdown_req
    BY <1>1, TakenOrder
  <1>8. TypeOK'
    <2>1. RingTypes'
      BY <1>1, <1>3 DEF RingTypes
    <2>2. ClientTypes'
      BY <1>1, <1>2, <1>6 DEF setting, ClientTypes, LastRound
    <2>3. ServerTypes'
      BY <1>1 DEF serverVars, ServerTypes
    <2> QED BY <1>1, <2>1, <2>2, <2>3 DEF setting, TypeOK
  <1>9. Stages'
    BY <1>1, <1>5, <1>6, <1>7 DEF Stages, Early, Polling, setting
  <1>10. Order'
    BY <1>1, <1>5, <1>6, <1>7 DEF Order, serverVars, setting
  <1>11. Lockstep'
    BY <1>7 DEF Lockstep, setting
  <1>12. Verified'
    BY DEF Verified, setting
  <1>13. Counting'
    BY DEF Counting, setting
  <1>14. Flood'
    <2>1. UNCHANGED <<demo, faulty, retrying, cpc, i, round, toS, sPoll>>
      BY DEF setting, serverVars
    <2> SUFFICES ASSUME Sure PROVE
           /\ \A k \in DataC' : toC'[k].round = round /\ toC'[k].num = rnum' + k - 1
           /\ \A k \in Asked : toS[k].round = round /\ toS[k].num + Len(toS) = i + k - 1
           /\ rnum' + (Len(toC') - HeadC') + (Len(toS) - HeadS) = i
           /\ verified' = ((0 .. round - 1) \X (0 .. N - 1)) \cup ({round} \X (0 .. rnum' - 1))
           /\ cpc # "finish"
      BY <1>1, <1>4, <1>5, <2>1 DEF Flood, Sure
    <2>2. /\ \A k \in DataC : toC[k].round = round /\ toC[k].num = rnum + k - 1
          /\ \A k \in Asked : toS[k].round = round /\ toS[k].num + Len(toS) = i + k - 1
          /\ rnum + (Len(toC) - HeadC) + (Len(toS) - HeadS) = i
          /\ verified = ((0 .. round - 1) \X (0 .. N - 1)) \cup ({round} \X (0 .. rnum - 1))
      BY <1>1, <1>5 DEF Flood
    <2>3. /\ rnum \in Nat /\ i \in Nat /\ Len(toC) = Len(toC') + 1 /\ Len(toC') \in Nat
          /\ Len(toS) \in Nat /\ toC[1].kind = "data" /\ cpc # "finish"
      BY <1>1 DEF ClientTypes, Stages, Polling
    <2>4. Head(toC).num = rnum /\ Head(toC).round = round /\ rnum' = rnum + 1
      BY <1>5, <2>2, <2>3
    <2>5. HeadC = 0 /\ HeadC' = 0 /\ HeadS \in Int
      <3>1. HeadC = 0 /\ HeadS \in Int
        BY DEF HeadC, HeadS
      <3>2. HeadC' = 0
        BY <1>7 DEF HeadC
      <3> QED BY <3>1, <3>2
    <2>6. ASSUME NEW k \in DataC' PROVE toC'[k].round = round /\ toC'[k].num = rnum' + k - 1
      <3>1. k \in Nat /\ toC'[k] = toC[k + 1] /\ k + 1 \in DataC
        BY <1>3
      <3>2. toC[k + 1].round = round /\ toC[k + 1].num = rnum + (k + 1) - 1
        BY <2>2, <3>1
      <3>3. rnum + (k + 1) - 1 = rnum' + k - 1
        BY <2>3, <2>4, <3>1
      <3> QED BY <3>1, <3>2, <3>3
    <2>7. rnum' + (Len(toC') - HeadC') + (Len(toS) - HeadS) = i
      <3>1. rnum + ((Len(toC') + 1) - 0) + (Len(toS) - HeadS) = i
        BY <2>2, <2>5
      <3>2. rnum \in Nat /\ Len(toC') \in Nat /\ Len(toS) \in Nat /\ HeadS \in Int
        BY <2>3, <2>5
      <3>3. (rnum + 1) + (Len(toC') - 0) + (Len(toS) - HeadS) = i
        BY <3>1, <3>2
      <3> QED BY <2>4, <2>5, <3>3
    <2>8. 0 .. rnum' - 1 = (0 .. rnum - 1) \cup {rnum}
      BY <2>3, <2>4
    <2>9. verified' = ((0 .. round - 1) \X (0 .. N - 1)) \cup ({round} \X (0 .. rnum' - 1))
      BY <2>2, <2>4, <2>8
    <2> QED BY <2>2, <2>3, <2>6, <2>7, <2>9
  <1> QED BY <1>8, <1>9, <1>10, <1>11, <1>12, <1>13, <1>14 DEF IInv

(* The server's announcement arrives.                                      *)
LEMMA BindStep ==
  ASSUME IInv, CBind
  PROVE  IInv'
  <1>1. /\ TypeOK /\ err_cnt = 0 /\ Stages /\ Order /\ Lockstep /\ Verified /\ Counting /\ Flood
        /\ RingTypes /\ ClientTypes /\ ServerTypes
    BY DEF IInv, TypeOK
  <1>2. /\ N \in Nat /\ N > 0 /\ Rounds \in Nat /\ Rounds > 0 /\ NBuf \in Nat
        /\ faulty \in BOOLEAN /\ demo \in {"ping", "flood", "matrix", "sample"}
    BY <1>1, Constants DEF TypeOK
  <1>3. /\ Len(toS) \in Nat /\ (toS = <<>> <=> Len(toS) = 0)
        /\ Len(toC) \in Nat /\ (toC = <<>> <=> Len(toC) = 0)
        /\ \A k \in 1 .. Len(toS) : toS[k] \in Message
        /\ \A k \in 1 .. Len(toC) : toC[k] \in Message
        /\ \A k \in DataC : k \in 1 .. Len(toC) /\ toC[k].kind = "data"
        /\ \A k \in Asked : k \in 1 .. Len(toS) /\ toS[k].kind = "data"
    BY <1>1, Rings
  <1>4. /\ cPoll = "drain" /\ toC # <<>> /\ Head(toC).kind = "create" /\ toC' = Tail(toC)
        /\ cEpt' = "bound"
    BY DEF CBind
  <1>5. /\ toC' \in Seq(Message) /\ Len(toC') <= NBuf
        /\ Len(toC') \in Nat /\ Len(toC) = Len(toC') + 1
        /\ \A k \in 1 .. Len(toC') : toC'[k] = toC[k + 1]
        /\ Head(toC) = toC[1] /\ toC[1] \in Message
        /\ \A k \in DataC' : k \in 1 .. Len(toC') /\ k + 1 \in DataC
        /\ (1 \in DataC <=> toC[1].kind = "data")
        /\ (toC' = <<>> <=> Len(toC') = 0)
    BY <1>1, <1>4, TakeC
  <1>6. Asked' = Asked /\ HeadS' = HeadS
    BY DEF CBind, Asked, HeadS, serverVars
  <1>7. cpc = "ready" /\ ~ept_deleted
    <2>1. 1 \in 1 .. Len(toC) /\ toC[1].kind = "create"
      BY <1>4
    <2>2. cEpt # "bound" /\ ~ept_deleted
      BY <1>1, <2>1 DEF Order
    <2> QED BY <1>1, <1>4, <2>2 DEF Stages, Polling
  <1>8. DataC = {} /\ Asked = {} /\ ~shutdown_req
    BY <1>1, <1>7 DEF Stages, Order, Early, Asked
  <1>9. toC' = <<>> /\ DataC' = {}
    <2>1. 2 \notin 1 .. Len(toC)
      <3> SUFFICES ASSUME 2 \in 1 .. Len(toC) PROVE FALSE
        OBVIOUS
      <3>1. toC[2].kind \in {"data", "create", "destroy"} /\ toC[2].kind # "data"
        BY <1>3, <1>8, Messages DEF DataC
      <3> QED BY <1>1, <1>8, <3>1 DEF Order
    <2> QED BY <1>5, <2>1
  <1>10. HeadC = 1 /\ HeadC' = 0 /\ Len(toC) = 1 /\ Len(toC') = 0
    BY <1>4, <1>5, <1>9 DEF HeadC
  <1>11. TypeOK'
    BY <1>1, <1>5, <1>6, <1>7, <1>8, <1>9, <1>10 DEF TypeOK, RingTypes, ClientTypes,
       ServerTypes, LastRound, CBind, serverVars, setting
  <1>12. (err_cnt = 0)'
    BY <1>1, <1>9, <1>10 DEF CBind
  <1>13. Stages'
    BY <1>1, <1>6, <1>7, <1>8, <1>9, <1>10 DEF Stages, Early, Polling, CBind, setting
  <1>14. Order'
    <2>1. /\ UNCHANGED <<setting, toS, cpc, ept_deleted, spc, sPoll, shutdown_req, count>>
          /\ toC # <<>> /\ toC' = <<>> /\ Len(toC') = 0 /\ ~ept_deleted /\ cpc = "ready"
      BY <1>7, <1>9 DEF CBind, serverVars
    <2> QED BY <1>1, <2>1 DEF Order, Early, setting
  <1>15. Lockstep'
    BY <1>1, <1>6, <1>7, <1>8, <1>9, <1>10 DEF Lockstep, CBind, setting
  <1>16. Verified'
    BY <1>1, <1>8, <1>9, <1>10 DEF Verified, CBind, setting
  <1>17. Counting'
    BY <1>1, <1>7, <1>8, <1>9, <1>10 DEF Counting, CBind, serverVars, setting
  <1>18. Flood'
    BY <1>1, <1>2, <1>3, <1>4, <1>5, <1>6, <1>7, <1>8, <1>9, <1>10 DEF Flood, Sure,
       CBind, setting
  <1> QED BY <1>11, <1>12, <1>13, <1>14, <1>15, <1>16, <1>17, <1>18 DEF IInv

(* The server's farewell arrives: only the sample's does before its client *)
(* has ended.                                                              *)
LEMMA UnbindStep ==
  ASSUME IInv, CUnbind
  PROVE  IInv'
  <1>1. /\ TypeOK /\ err_cnt = 0 /\ Stages /\ Order /\ Lockstep /\ Verified /\ Counting /\ Flood
        /\ RingTypes /\ ClientTypes /\ ServerTypes
    BY DEF IInv, TypeOK
  <1>2. /\ Len(toS) \in Nat /\ (toS = <<>> <=> Len(toS) = 0)
        /\ Len(toC) \in Nat /\ (toC = <<>> <=> Len(toC) = 0)
        /\ \A k \in 1 .. Len(toS) : toS[k] \in Message
        /\ \A k \in 1 .. Len(toC) : toC[k] \in Message
        /\ \A k \in DataC : k \in 1 .. Len(toC) /\ toC[k].kind = "data"
        /\ \A k \in Asked : k \in 1 .. Len(toS) /\ toS[k].kind = "data"
    BY <1>1, Rings
  <1>3. /\ cPoll = "drain" /\ toC # <<>> /\ Head(toC).kind = "destroy" /\ toC' = Tail(toC)
        /\ UNCHANGED <<setting, cKick, cpc, cPoll, i, round, rnum, err_cnt, verified, serverVars>>
    BY DEF CUnbind
  <1>4. /\ toC' \in Seq(Message) /\ Len(toC') <= NBuf
        /\ Len(toC') \in Nat /\ Len(toC) = Len(toC') + 1
        /\ \A k \in 1 .. Len(toC') : toC'[k] = toC[k + 1]
        /\ Head(toC) = toC[1] /\ toC[1] \in Message
        /\ \A k \in DataC' : k \in 1 .. Len(toC') /\ k + 1 \in DataC
        /\ (1 \in DataC <=> toC[1].kind = "data")
        /\ (toC' = <<>> <=> Len(toC') = 0)
    BY <1>1, <1>3, TakeC
  <1>5. /\ toC' = <<>> /\ Len(toC') = 0 /\ DataC = {} /\ DataC' = {} /\ spc = "ended"
        /\ shutdown_req /\ sPoll = "no"
    <2>1. 1 \in 1 .. Len(toC) /\ toC[1].kind = "destroy"
      BY <1>3
    <2>2. 1 = Len(toC) /\ spc = "ended" /\ shutdown_req
      BY <1>1, <2>1 DEF Order
    <2>3. DataC = {}
      <3>1. ASSUME NEW k \in DataC PROVE FALSE
        <4>1. k \in 1 .. Len(toC) /\ toC[k].kind = "data"
          BY <1>2, <3>1
        <4>2. k \in 1 .. 1
          BY <2>2, <4>1
        <4>3. k = 1
          BY <4>2
        <4> QED BY <2>1, <4>1, <4>3
      <3> QED BY <3>1
    <2> QED BY <1>1, <1>4, <2>2, <2>3 DEF Order
  <1>6. demo = "sample" /\ cEpt = "bound" /\ cpc \in {"send", "await", "finish"}
    BY <1>1, <1>3 DEF Stages, Order, Early, Polling
  <1>7. cEpt' = "none" /\ ept_deleted' = TRUE /\ DestroyToServer
    BY <1>6 DEF CUnbind
  <1>8. /\ Ns("create") \in Message /\ Ns("create").kind = "create"
        /\ Ns("destroy") \in Message /\ Ns("destroy").kind = "destroy"
    BY Messages
  <1>9. /\ toS' \in Seq(Message) /\ Len(toS') <= NBuf /\ sKick' \in BOOLEAN
         /\ Len(toS') \in Nat /\ Asked' = Asked
         /\ \A k \in 1 .. Len(toS') : toS'[k].kind = "create" => k = 1
    <2>1. CASE PutToServer(Ns("destroy"))
      <3>1. /\ toS' \in Seq(Message) /\ Len(toS') <= NBuf /\ sKick' = TRUE
            /\ Len(toS) \in Nat /\ Len(toS') = Len(toS) + 1
            /\ \A k \in 1 .. Len(toS) : toS'[k] = toS[k]
            /\ toS'[Len(toS) + 1] = Ns("destroy")
            /\ \A k : k \in Asked' <=>
                   k \in Asked \/ (k = Len(toS) + 1 /\ Ns("destroy").kind = "data")
        BY <1>1, <1>3, <1>8, <2>1, PutS DEF serverVars
      <3>2. \A k \in 1 .. Len(toS) : toS[k].kind = "create" => k = 1
        BY <1>1 DEF Order
      <3>3. Asked' = Asked
        BY <1>8, <3>1
      <3> QED BY <1>8, <3>1, <3>2, <3>3
    <2>2. CASE UNCHANGED <<toS, sKick>>
      <3>1. Asked' = Asked
        BY <1>3, <2>2 DEF Asked, serverVars
      <3> QED BY <1>1, <2>2, <3>1 DEF RingTypes, Order
    <2> QED BY <1>7, <2>1, <2>2 DEF DestroyToServer
  <1>10. UNCHANGED <<demo, retrying, faulty, cpc, cPoll, i, round, rnum, err_cnt, verified, spc,
                     sPoll, sEpt, shutdown_req, count, cKick>>
    BY <1>3 DEF setting, serverVars
  <1>11. \A k \in Asked : k \in 1 .. Len(toS) /\ toS'[k] = toS[k]
    <2>1. CASE PutToServer(Ns("destroy"))
      BY <1>1, <1>2, <1>3, <1>8, <2>1, PutS DEF serverVars
    <2>2. CASE UNCHANGED <<toS, sKick>>
      BY <1>2, <2>2
    <2> QED BY <1>7, <2>1, <2>2 DEF DestroyToServer
  <1>12. TypeOK'
    BY <1>1, <1>4, <1>7, <1>9, <1>10 DEF TypeOK, RingTypes, ClientTypes, ServerTypes,
       LastRound
  <1>13. (err_cnt = 0)'
    BY <1>1, <1>10
  <1>14. Stages'
    BY <1>1, <1>6, <1>7, <1>10 DEF Stages, Early, Polling
  <1>15. Order'
    BY <1>5, <1>6, <1>7, <1>9, <1>10 DEF Order, Early
  <1>16. Lockstep'
    BY <1>1, <1>5, <1>9, <1>10, <1>11 DEF Lockstep, Pending
  <1>17. Verified'
    BY <1>1, <1>10 DEF Verified
  <1>18. Counting'
    BY <1>1, <1>5, <1>9, <1>10 DEF Counting
  <1>19. Flood'
    BY <1>6, <1>10 DEF Flood
  <1> QED BY <1>12, <1>13, <1>14, <1>15, <1>16, <1>17, <1>18, <1>19 DEF IInv

(* The server announces its endpoint.                                      *)
LEMMA SCreateStep ==
  ASSUME IInv, sPoll = "no", spc = "create", PutToClient(Ns("create")),
         sEpt' = "unbound", spc' = "loop", sPoll' = "wait",
         UNCHANGED <<setting, toS, sKick, shutdown_req, count, clientVars>>
  PROVE  IInv'
  <1>1. /\ TypeOK /\ err_cnt = 0 /\ Stages /\ Order /\ Lockstep /\ Verified /\ Counting /\ Flood
        /\ RingTypes /\ ClientTypes /\ ServerTypes
    BY DEF IInv, TypeOK
  <1>2. /\ Len(toS) \in Nat /\ (toS = <<>> <=> Len(toS) = 0)
        /\ Len(toC) \in Nat /\ (toC = <<>> <=> Len(toC) = 0)
        /\ \A k \in 1 .. Len(toS) : toS[k] \in Message
        /\ \A k \in 1 .. Len(toC) : toC[k] \in Message
        /\ \A k \in DataC : k \in 1 .. Len(toC) /\ toC[k].kind = "data"
        /\ \A k \in Asked : k \in 1 .. Len(toS) /\ toS[k].kind = "data"
    BY <1>1, Rings
  <1>3. /\ Ns("create") \in Message /\ Ns("create").kind = "create"
        /\ Ns("destroy") \in Message /\ Ns("destroy").kind = "destroy"
    BY Messages
  <1>4. /\ toC' \in Seq(Message) /\ Len(toC') <= NBuf /\ cKick' = TRUE
        /\ Len(toC') = Len(toC) + 1 /\ toC' # <<>>
        /\ \A k \in 1 .. Len(toC) : toC'[k] = toC[k]
        /\ toC'[Len(toC) + 1] = Ns("create")
        /\ \A k : k \in DataC' <=> k \in DataC \/ (k = Len(toC) + 1 /\ Ns("create").kind = "data")
        /\ toC # <<>> => HeadC' = HeadC
        /\ toC = <<>> => HeadC = 0 /\ HeadC' = IF Ns("create").kind = "create" THEN 1 ELSE 0
    BY <1>1, <1>3, PutC
  <1>5. Asked' = Asked /\ HeadS' = HeadS
    BY DEF Asked, HeadS
  <1>6. toC = <<>> /\ DataC = {} /\ cEpt # "bound" /\ ~shutdown_req /\ count = 0
    BY <1>1, <1>2 DEF Order
  <1>7. /\ DataC' = {} /\ Len(toC) = 0 /\ Len(toC') = 1 /\ HeadC = 0 /\ HeadC' = 1
        /\ toC'[1].kind = "create"
    BY <1>3, <1>4, <1>6
  <1>8. UNCHANGED <<demo, retrying, faulty, cpc, cPoll, cEpt, i, round, rnum, err_cnt,
                    ept_deleted, verified>>
    BY DEF setting, clientVars
  <1>9. TypeOK'
    BY <1>1, <1>4, <1>8 DEF TypeOK, RingTypes, ClientTypes, ServerTypes, LastRound
  <1>10. (err_cnt = 0)'
    BY <1>1, <1>8
  <1>11. Stages'
    BY <1>1, <1>7, <1>8 DEF Stages, Early, Polling
  <1>12. Order'
    BY <1>1, <1>7, <1>8 DEF Order
  <1>13. Lockstep'
    BY <1>1, <1>5, <1>7, <1>8 DEF Lockstep, Pending
  <1>14. Verified'
    BY <1>1, <1>8 DEF Verified
  <1>15. Counting'
    BY <1>1, <1>5, <1>6, <1>7, <1>8 DEF Counting
  <1>16. Flood'
    BY <1>1, <1>5, <1>7, <1>8 DEF Flood, Sure, LastRound
  <1> QED BY <1>9, <1>10, <1>11, <1>12, <1>13, <1>14, <1>15, <1>16 DEF IInv

(* It cannot: the server's application returns.                            *)
LEMMA SCreateFails ==
  ASSUME IInv, sPoll = "no", spc = "create", faulty, spc' = "ended",
         UNCHANGED <<toC, cKick, sEpt, sPoll>>,
         UNCHANGED <<setting, toS, sKick, shutdown_req, count, clientVars>>
  PROVE  IInv'
  <1>1. /\ TypeOK /\ err_cnt = 0 /\ Stages /\ Order /\ Lockstep /\ Verified /\ Counting /\ Flood
        /\ RingTypes /\ ClientTypes /\ ServerTypes
    BY DEF IInv, TypeOK
  <1>2. DataC' = DataC /\ HeadC' = HeadC /\ Asked' = Asked /\ HeadS' = HeadS
    BY DEF DataC, HeadC, Asked, HeadS
  <1>3. TypeOK'
    <2>1. RingTypes'
      BY <1>1 DEF RingTypes
    <2>2. ClientTypes'
      BY <1>1 DEF setting, clientVars, ClientTypes, LastRound
    <2>3. ServerTypes'
      BY <1>1 DEF ServerTypes
    <2>4. demo' = demo /\ faulty' = faulty /\ retrying' = retrying
      BY DEF setting
    <2> QED BY <1>1, <2>1, <2>2, <2>3, <2>4, Zenon DEF TypeOK
  <1>4. (err_cnt = 0)'
    BY <1>1 DEF clientVars
  <1>5. Stages'
    BY <1>1, <1>2 DEF Stages, Early, Polling, setting, clientVars
  <1>6. Order'
    BY <1>1 DEF Order, setting, clientVars
  <1>7. Lockstep'
    BY <1>1, <1>2 DEF Lockstep, Pending, setting, clientVars
  <1>8. Verified'
    BY <1>1 DEF Verified, setting, clientVars
  <1>9. Counting'
    BY <1>1, <1>2 DEF Counting, setting, clientVars
  <1>10. Flood'
    BY <1>1, <1>2 DEF Flood, Sure, LastRound, setting, clientVars
  <1> QED BY <1>3, <1>4, <1>5, <1>6, <1>7, <1>8, <1>9, <1>10 DEF IInv

(* A buffer is released.                                                   *)
LEMMA ReleaseStep ==
  ASSUME IInv, SRelease
  PROVE  IInv'
  <1>1. /\ TypeOK /\ err_cnt = 0 /\ Stages /\ Order /\ Lockstep /\ Verified /\ Counting /\ Flood
        /\ RingTypes /\ ClientTypes /\ ServerTypes
    BY DEF IInv, TypeOK
  <1>2. /\ sPoll = "release" /\ toS' = Tail(toS) /\ sPoll' = "drain"
        /\ UNCHANGED <<demo, retrying, faulty, toC, sKick, cKick, spc, sEpt, shutdown_req, count,
                       cpc, cPoll, cEpt, i, round, rnum, err_cnt, ept_deleted, verified>>
    BY DEF SRelease, setting, clientVars
  <1>3. toS # <<>> /\ \A k \in 1 .. Len(toS) : toS[k].kind = "create" => k = 1
    BY <1>1, <1>2 DEF Order
  <1>4. /\ toS' \in Seq(Message) /\ Len(toS') <= NBuf
        /\ Len(toS') \in Nat /\ Len(toS) = Len(toS') + 1
        /\ \A k \in 1 .. Len(toS') : toS'[k] = toS[k + 1]
        /\ \A k \in Asked' : k \in 1 .. Len(toS') /\ k + 1 \in Asked
        /\ HeadS' = 0 /\ HeadS = 1
    BY <1>1, <1>2, <1>3, ReleaseS
  <1>5. DataC' = DataC /\ HeadC' = HeadC
    BY <1>2 DEF DataC, HeadC
  <1>6. TypeOK'
    BY <1>1, <1>2, <1>4 DEF TypeOK, RingTypes, ClientTypes, ServerTypes, LastRound
  <1>7. (err_cnt = 0)'
    BY <1>1, <1>2
  <1>8. Stages'
    BY <1>1, <1>2, <1>5 DEF Stages, Early, Polling
  <1>9. Order'
    BY <1>1, <1>2 DEF Order, Early
  <1>10. Lockstep'
    BY <1>1, <1>2, <1>4, <1>5 DEF Lockstep, Pending
  <1>11. Verified'
    BY <1>1, <1>2 DEF Verified
  <1>12. Counting'
    BY <1>1, <1>2, <1>4, <1>5 DEF Counting
  <1>13. Flood'
    <2> SUFFICES ASSUME demo = "flood", Sure, cpc # "ended" PROVE
           /\ \A k \in DataC : toC[k].round = round /\ toC[k].num = rnum + k - 1
           /\ \A k \in Asked' : toS'[k].round = round /\ toS'[k].num + Len(toS') = i + k - 1
           /\ rnum + (Len(toC) - HeadC) + (Len(toS') - HeadS') = i
           /\ verified = ((0 .. round - 1) \X (0 .. N - 1)) \cup ({round} \X (0 .. rnum - 1))
      BY <1>1, <1>2, <1>5 DEF Flood, Sure, LastRound
    <2>1. /\ \A k \in DataC : toC[k].round = round /\ toC[k].num = rnum + k - 1
          /\ \A k \in Asked : toS[k].round = round /\ toS[k].num + Len(toS) = i + k - 1
          /\ rnum + (Len(toC) - HeadC) + (Len(toS) - HeadS) = i
          /\ verified = ((0 .. round - 1) \X (0 .. N - 1)) \cup ({round} \X (0 .. rnum - 1))
      BY <1>1 DEF Flood
    <2>2. Len(toS) - HeadS = Len(toS') - HeadS'
      BY <1>4
    <2>3. ASSUME NEW k \in Asked' PROVE toS'[k].round = round /\ toS'[k].num + Len(toS') = i + k - 1
      <3>1. /\ k \in Nat /\ k + 1 \in Asked /\ toS'[k] = toS[k + 1] /\ toS[k + 1] \in Message
            /\ Len(toS') \in Nat /\ Len(toS) = Len(toS') + 1
        BY <1>4
      <3>2. toS[k + 1].round = round /\ toS[k + 1].num + (Len(toS') + 1) = i + (k + 1) - 1
        BY <2>1, <3>1
      <3>3. toS[k + 1].num \in Nat /\ i \in Nat
        BY <1>1, <3>1, Messages DEF ClientTypes
      <3>4. PICK x \in Nat : x = toS[k + 1].num
        BY <3>3
      <3>5. x + (Len(toS') + 1) = i + (k + 1) - 1
        BY <3>2, <3>4
      <3>6. x + Len(toS') = i + k - 1
        BY <3>1, <3>3, <3>5
      <3> QED BY <3>1, <3>2, <3>4, <3>6
    <2> QED BY <2>1, <2>2, <2>3
  <1> QED BY <1>6, <1>7, <1>8, <1>9, <1>10, <1>11, <1>12, <1>13 DEF IInv

(* The server leaves its loop.                                             *)
LEMMA ServerLeaves ==
  ASSUME IInv, sPoll = "no", spc = "loop", shutdown_req, spc' = "destroy", UNCHANGED sPoll,
         UNCHANGED <<setting, ringVars, sEpt, shutdown_req, count, clientVars>>
  PROVE  IInv'
  <1>1. /\ TypeOK /\ err_cnt = 0 /\ Stages /\ Order /\ Lockstep /\ Verified /\ Counting /\ Flood
        /\ RingTypes /\ ClientTypes /\ ServerTypes
    BY DEF IInv, TypeOK
  <1>2. DataC' = DataC /\ HeadC' = HeadC /\ Asked' = Asked /\ HeadS' = HeadS
    BY DEF DataC, HeadC, Asked, HeadS, ringVars
  <1>3. TypeOK'
    BY <1>1 DEF TypeOK, RingTypes, ClientTypes, ServerTypes, LastRound, setting,
       clientVars, ringVars
  <1>4. (err_cnt = 0)'
    BY <1>1 DEF clientVars
  <1>5. Stages'
    BY <1>1, <1>2 DEF Stages, Early, Polling, setting, clientVars, ringVars
  <1>6. Order'
    BY <1>1 DEF Order, Early, setting, clientVars, ringVars
  <1>7. Lockstep'
    BY <1>1, <1>2 DEF Lockstep, Pending, setting, clientVars, ringVars
  <1>8. Verified'
    BY <1>1 DEF Verified, setting, clientVars
  <1>9. Counting'
    BY <1>1, <1>2 DEF Counting, setting, clientVars
  <1>10. Flood'
    BY <1>1, <1>2 DEF Flood, Sure, LastRound, setting, clientVars, ringVars
  <1> QED BY <1>3, <1>4, <1>5, <1>6, <1>7, <1>8, <1>9, <1>10 DEF IInv

(* It destroys its endpoint, and nobody is told: the ring is full.         *)
LEMMA SDestroySilent ==
  ASSUME IInv, spc = "destroy", UNCHANGED <<toC, cKick>>, sEpt' = "none", spc' = "ended",
         UNCHANGED <<setting, toS, sKick, sPoll, shutdown_req, count, clientVars>>
  PROVE  IInv'
  <1>1. /\ TypeOK /\ err_cnt = 0 /\ Stages /\ Order /\ Lockstep /\ Verified /\ Counting /\ Flood
        /\ RingTypes /\ ClientTypes /\ ServerTypes
    BY DEF IInv, TypeOK
  <1>2. DataC' = DataC /\ HeadC' = HeadC /\ Asked' = Asked /\ HeadS' = HeadS
    BY DEF DataC, HeadC, Asked, HeadS
  <1>3. TypeOK'
    BY <1>1 DEF TypeOK, RingTypes, ClientTypes, ServerTypes, LastRound, setting,
       clientVars
  <1>4. (err_cnt = 0)'
    BY <1>1 DEF clientVars
  <1>5. Stages'
    BY <1>1, <1>2 DEF Stages, Early, Polling, setting, clientVars
  <1>6. Order'
    BY <1>1 DEF Order, Early, setting, clientVars
  <1>7. Lockstep'
    BY <1>1, <1>2 DEF Lockstep, Pending, setting, clientVars
  <1>8. Verified'
    BY <1>1 DEF Verified, setting, clientVars
  <1>9. Counting'
    BY <1>1, <1>2 DEF Counting, setting, clientVars
  <1>10. Flood'
    BY <1>1, <1>2 DEF Flood, Sure, LastRound, setting, clientVars
  <1> QED BY <1>3, <1>4, <1>5, <1>6, <1>7, <1>8, <1>9, <1>10 DEF IInv

(* Or the client is told.                                                  *)
LEMMA SDestroyStep ==
  ASSUME IInv, spc = "destroy", PutToClient(Ns("destroy")), sEpt' = "none", spc' = "ended",
         UNCHANGED <<setting, toS, sKick, sPoll, shutdown_req, count, clientVars>>
  PROVE  IInv'
  <1>1. /\ TypeOK /\ err_cnt = 0 /\ Stages /\ Order /\ Lockstep /\ Verified /\ Counting /\ Flood
        /\ RingTypes /\ ClientTypes /\ ServerTypes
    BY DEF IInv, TypeOK
  <1>2. /\ Len(toS) \in Nat /\ (toS = <<>> <=> Len(toS) = 0)
        /\ Len(toC) \in Nat /\ (toC = <<>> <=> Len(toC) = 0)
        /\ \A k \in 1 .. Len(toS) : toS[k] \in Message
        /\ \A k \in 1 .. Len(toC) : toC[k] \in Message
        /\ \A k \in DataC : k \in 1 .. Len(toC) /\ toC[k].kind = "data"
        /\ \A k \in Asked : k \in 1 .. Len(toS) /\ toS[k].kind = "data"
    BY <1>1, Rings
  <1>3. /\ Ns("create") \in Message /\ Ns("create").kind = "create"
        /\ Ns("destroy") \in Message /\ Ns("destroy").kind = "destroy"
    BY Messages
  <1>4. /\ toC' \in Seq(Message) /\ Len(toC') <= NBuf /\ cKick' = TRUE
        /\ Len(toC') = Len(toC) + 1 /\ toC' # <<>>
        /\ \A k \in 1 .. Len(toC) : toC'[k] = toC[k]
        /\ toC'[Len(toC) + 1] = Ns("destroy")
        /\ \A k : k \in DataC' <=> k \in DataC \/ (k = Len(toC) + 1 /\ Ns("destroy").kind = "data")
        /\ toC # <<>> => HeadC' = HeadC
        /\ toC = <<>> => HeadC = 0 /\ HeadC' = IF Ns("destroy").kind = "create" THEN 1 ELSE 0
    BY <1>1, <1>3, PutC
  <1>5. Asked' = Asked /\ HeadS' = HeadS
    BY DEF Asked, HeadS
  <1>6. DataC' = DataC /\ \A k \in DataC : toC'[k] = toC[k]
    BY <1>2, <1>3, <1>4
  <1>7. /\ shutdown_req /\ ~Early /\ (demo # "sample" => cpc = "ended")
        /\ sPoll # "release" /\ ~ept_deleted
    BY <1>1 DEF Order
  <1>8. UNCHANGED <<demo, retrying, faulty, cpc, cPoll, cEpt, i, round, rnum, err_cnt,
                    ept_deleted, verified>>
    BY DEF setting, clientVars
  <1>9. TypeOK'
    BY <1>1, <1>4, <1>8 DEF TypeOK, RingTypes, ClientTypes, ServerTypes, LastRound
  <1>10. (err_cnt = 0)'
    BY <1>1, <1>8
  <1>11. Stages'
    BY <1>1, <1>7, <1>8 DEF Stages, Early, Polling
  <1>12. Order'
    BY <1>1, <1>3, <1>4, <1>7, <1>8 DEF Order, Early
  <1>13. Lockstep'
    BY <1>1, <1>5, <1>6, <1>8 DEF Lockstep, Pending
  <1>14. Verified'
    BY <1>1, <1>8 DEF Verified
  <1>15. Counting'
    BY <1>1, <1>5, <1>6, <1>8 DEF Counting
  <1>16. Flood'
    BY <1>1, <1>7, <1>8 DEF Flood, Sure, LastRound
  <1> QED BY <1>9, <1>10, <1>11, <1>12, <1>13, <1>14, <1>15, <1>16 DEF IInv

(* The server handles the client's announcement or farewell.               *)
LEMMA NameServiceStep ==
  ASSUME IInv, sPoll = "drain", toS # <<>>, sPoll' = "release",
         \/ /\ Head(toS).kind = "create"
            /\ sEpt' = "bound" /\ UNCHANGED shutdown_req
         \/ /\ Head(toS).kind = "destroy"
            /\ sEpt' = "unbound" /\ shutdown_req' = TRUE,
         UNCHANGED <<setting, ringVars, spc, count, clientVars>>
  PROVE  IInv'
  <1>1. /\ TypeOK /\ err_cnt = 0 /\ Stages /\ Order /\ Lockstep /\ Verified /\ Counting /\ Flood
        /\ RingTypes /\ ClientTypes /\ ServerTypes
    BY DEF IInv, TypeOK
  <1>2. UNCHANGED <<toS, toC, sKick, cKick>>
    BY DEF ringVars
  <1>3. /\ Head(toS) = toS[1] /\ toS[1] \in Message /\ Len(toS) > 0
        /\ \A k : k \in Asked' <=> k \in Asked /\ k # 1
        /\ (1 \in Asked <=> toS[1].kind = "data")
        /\ HeadS' = 1 /\ HeadS = IF toS[1].kind = "create" THEN 1 ELSE 0
    BY <1>1, <1>2, HandleS
  <1>4. DataC' = DataC /\ HeadC' = HeadC /\ Asked' = Asked
    BY <1>3
  <1>5. UNCHANGED <<demo, retrying, faulty, cpc, cPoll, cEpt, i, round, rnum, err_cnt,
                    ept_deleted, verified>>
    BY DEF setting, clientVars
  <1>6. spc = "loop" /\ ~ept_deleted
    BY <1>1 DEF Order
  <1>7. toS[1].kind = "destroy" => demo # "sample" /\ cpc = "ended" /\ shutdown_req'
    BY <1>1 DEF Order
  <1>8. TypeOK'
    <2>1. RingTypes'
      BY <1>1, <1>2 DEF RingTypes
    <2>2. ClientTypes'
      BY <1>1, <1>5 DEF ClientTypes, LastRound
    <2>3. ServerTypes'
      BY <1>1 DEF ServerTypes
    <2>4. demo' = demo /\ faulty' = faulty /\ retrying' = retrying
      BY <1>5
    <2> QED BY <1>1, <2>1, <2>2, <2>3, <2>4, Zenon DEF TypeOK
  <1>9. (err_cnt = 0)'
    BY <1>1, <1>5
  <1>10. Stages'
    BY <1>1, <1>2, <1>4, <1>5 DEF Stages, Early, Polling
  <1>11. Order'
    BY <1>1, <1>2, <1>5, <1>6, <1>7 DEF Order, Early
  <1>12. Lockstep'
    BY <1>1, <1>2, <1>4, <1>5 DEF Lockstep, Pending
  <1>13. Verified'
    BY <1>1, <1>5 DEF Verified
  <1>14. Counting'
    BY <1>1, <1>4, <1>5, <1>7 DEF Counting
  <1>15. Flood'
    BY <1>1, <1>2, <1>3, <1>4, <1>5, <1>7 DEF Flood, Sure, LastRound
  <1> QED BY <1>8, <1>9, <1>10, <1>11, <1>12, <1>13, <1>14, <1>15 DEF IInv

(* The server handles a message and cannot answer it.                      *)
LEMMA AnswerLost ==
  ASSUME IInv, sPoll = "drain", toS # <<>>, Head(toS).kind = "data", sPoll' = "release",
         sEpt' = "bound",
         faulty, demo = "flood" => ~retrying, UNCHANGED <<toC, cKick>>,
         IF demo = "sample" THEN count' = count + 1 /\ shutdown_req' = TRUE
                            ELSE UNCHANGED <<count, shutdown_req>>,
         UNCHANGED <<setting, toS, sKick, spc, clientVars>>
  PROVE  IInv'
  <1>1. /\ TypeOK /\ err_cnt = 0 /\ Stages /\ Order /\ Lockstep /\ Verified /\ Counting /\ Flood
        /\ RingTypes /\ ClientTypes /\ ServerTypes
    BY DEF IInv, TypeOK
  <1>2. /\ N \in Nat /\ N > 0 /\ Rounds \in Nat /\ Rounds > 0 /\ NBuf \in Nat
        /\ faulty \in BOOLEAN /\ demo \in {"ping", "flood", "matrix", "sample"}
    BY <1>1, Constants DEF TypeOK
  <1>3. /\ Head(toS) = toS[1] /\ toS[1] \in Message /\ Len(toS) > 0
        /\ \A k : k \in Asked' <=> k \in Asked /\ k # 1
        /\ (1 \in Asked <=> toS[1].kind = "data")
        /\ HeadS' = 1 /\ HeadS = IF toS[1].kind = "create" THEN 1 ELSE 0
    BY <1>1, HandleS
  <1>4. DataC' = DataC /\ HeadC' = HeadC
    BY DEF DataC, HeadC
  <1>5. UNCHANGED <<demo, retrying, faulty, cpc, cPoll, cEpt, i, round, rnum, err_cnt,
                    ept_deleted, verified>>
    BY DEF setting, clientVars
  <1>6. spc = "loop" /\ ~ept_deleted /\ 1 \in Asked /\ ~Early
    BY <1>1, <1>3 DEF Order, Stages
  <1>7. demo # "flood" =>
          /\ Asked' = {} /\ DataC = {} /\ cpc = "await" /\ i < N /\ i \in Nat /\ Pending
    BY <1>1, <1>3 DEF Lockstep, Pending, ClientTypes
  <1>8. demo = "sample" => count = i /\ rnum = i
    BY <1>1, <1>6, <1>7 DEF Counting, Pending
  <1>9. TypeOK'
    <2>1. RingTypes'
      BY <1>1 DEF RingTypes
    <2>2. ClientTypes'
      BY <1>1, <1>5 DEF ClientTypes, LastRound
    <2>3. ServerTypes'
      <3>1. count' \in 0 .. N
        BY <1>1, <1>2, <1>7, <1>8 DEF ServerTypes
      <3> QED BY <1>1, <3>1 DEF ServerTypes
    <2>4. demo' = demo /\ faulty' = faulty /\ retrying' = retrying
      BY <1>5
    <2> QED BY <1>1, <2>1, <2>2, <2>3, <2>4, Zenon DEF TypeOK
  <1>10. (err_cnt = 0)'
    BY <1>1, <1>5
  <1>11. Stages'
    BY <1>1, <1>5, <1>8 DEF Stages, Early, Polling
  <1>12. Order'
    BY <1>1, <1>5, <1>7, <1>8 DEF Order, Early
  <1>13. Lockstep'
    BY <1>1, <1>4, <1>5, <1>7 DEF Lockstep
  <1>14. Verified'
    BY <1>1, <1>5 DEF Verified
  <1>15. Counting'
    BY <1>5, <1>7, <1>8 DEF Counting
  <1>16. Flood'
    BY <1>1, <1>5, <1>8 DEF Flood, Sure
  <1> QED BY <1>9, <1>10, <1>11, <1>12, <1>13, <1>14, <1>15, <1>16 DEF IInv

(* The server answers message i.                                           *)
LEMMA LockstepAnswer ==
  ASSUME IInv, demo # "flood", sPoll = "drain", toS # <<>>, Head(toS).kind = "data",
         sPoll' = "release",
         sEpt' = "bound", PutToClient(Head(toS)),
         IF demo = "sample"
           THEN count' = count + 1 /\ shutdown_req' = (shutdown_req \/ count + 1 = N)
                            ELSE UNCHANGED <<count, shutdown_req>>,
         UNCHANGED <<setting, toS, sKick, spc, clientVars>>
  PROVE  IInv'
  <1>1. /\ TypeOK /\ err_cnt = 0 /\ Stages /\ Order /\ Lockstep /\ Verified /\ Counting /\ Flood
        /\ RingTypes /\ ClientTypes /\ ServerTypes
    BY DEF IInv, TypeOK
  <1>2. /\ N \in Nat /\ N > 0 /\ Rounds \in Nat /\ Rounds > 0 /\ NBuf \in Nat
        /\ faulty \in BOOLEAN /\ demo \in {"ping", "flood", "matrix", "sample"}
    BY <1>1, Constants DEF TypeOK
  <1>3. /\ Len(toS) \in Nat /\ (toS = <<>> <=> Len(toS) = 0)
        /\ Len(toC) \in Nat /\ (toC = <<>> <=> Len(toC) = 0)
        /\ \A k \in 1 .. Len(toS) : toS[k] \in Message
        /\ \A k \in 1 .. Len(toC) : toC[k] \in Message
        /\ \A k \in DataC : k \in 1 .. Len(toC) /\ toC[k].kind = "data"
        /\ \A k \in Asked : k \in 1 .. Len(toS) /\ toS[k].kind = "data"
    BY <1>1, Rings
  <1>4. /\ Head(toS) = toS[1] /\ toS[1] \in Message /\ Len(toS) > 0
        /\ \A k : k \in Asked' <=> k \in Asked /\ k # 1
        /\ (1 \in Asked <=> toS[1].kind = "data")
        /\ HeadS' = 1 /\ HeadS = IF toS[1].kind = "create" THEN 1 ELSE 0
    BY <1>1, HandleS
  <1>5. /\ toC' \in Seq(Message) /\ Len(toC') <= NBuf /\ cKick' = TRUE
        /\ Len(toC') = Len(toC) + 1 /\ toC' # <<>>
        /\ \A k \in 1 .. Len(toC) : toC'[k] = toC[k]
        /\ toC'[Len(toC) + 1] = toS[1]
        /\ \A k : k \in DataC' <=> k \in DataC \/ (k = Len(toC) + 1 /\ toS[1].kind = "data")
        /\ toC # <<>> => HeadC' = HeadC
        /\ toC = <<>> => HeadC = 0 /\ HeadC' = IF toS[1].kind = "create" THEN 1 ELSE 0
    BY <1>1, <1>4, PutC
  <1>6. UNCHANGED <<demo, retrying, faulty, cpc, cPoll, cEpt, i, round, rnum, err_cnt,
                    ept_deleted, verified>>
    BY DEF setting, clientVars
  <1>7. spc = "loop" /\ ~ept_deleted /\ 1 \in Asked /\ ~Early
    BY <1>1, <1>4 DEF Order, Stages
  <1>8. /\ Asked' = {} /\ DataC = {} /\ cpc = "await"
        /\ i < N /\ i \in Nat /\ Pending /\ toS[1] = Data(0, i)
    BY <1>1, <1>4 DEF Lockstep, Pending, ClientTypes
  <1>9. demo = "sample" => count = i /\ rnum = i
    BY <1>1, <1>7, <1>8 DEF Counting, Pending
  <1>10. \A k : k \in DataC' <=> k = Len(toC) + 1
    BY <1>5, <1>8
  <1>11. cEpt = "bound"
    BY <1>1, <1>7, <1>8 DEF Stages
  <1>12. TypeOK'
    <2>1. RingTypes'
      BY <1>1, <1>5 DEF RingTypes
    <2>2. ClientTypes'
      BY <1>1, <1>6 DEF ClientTypes, LastRound
    <2>3. ServerTypes'
      <3>1. count' \in 0 .. N
        BY <1>1, <1>2, <1>8, <1>9 DEF ServerTypes
      <3> QED BY <1>1, <3>1 DEF ServerTypes
    <2>4. demo' = demo /\ faulty' = faulty /\ retrying' = retrying
      BY <1>6
    <2> QED BY <1>1, <2>1, <2>2, <2>3, <2>4, Zenon DEF TypeOK
  <1>13. (err_cnt = 0)'
    BY <1>1, <1>6
  <1>14. Stages'
    BY <1>1, <1>6, <1>9, <1>10, <1>11 DEF Stages, Early, Polling
  <1>15. Order'
    <2>1. \A k \in 1 .. Len(toC) : toC[k].kind # "create" /\ toC[k].kind # "destroy"
      BY <1>1, <1>11 DEF Order
    <2>2. \A k \in 1 .. Len(toC') : toC'[k].kind # "create" /\ toC'[k].kind # "destroy"
      BY <1>5, <2>1
    <2>3. ~Early' /\ (demo' # "sample" => ~shutdown_req')
      BY <1>1, <1>6, <1>8 DEF Order, Early
    <2> QED BY <1>1, <1>6, <2>2, <2>3 DEF Order
  <1>16. Lockstep'
    BY <1>1, <1>5, <1>6, <1>8, <1>10, <1>11 DEF Lockstep, Pending
  <1>17. Verified'
    BY <1>1, <1>6, <1>11 DEF Verified
  <1>18. Counting'
    BY <1>2, <1>3, <1>4, <1>5, <1>6, <1>8, <1>9, <1>10, <1>11 DEF IInv, Counting
  <1>19. Flood'
    BY <1>6, <1>9, <1>10, <1>11 DEF Flood
  <1> QED BY <1>12, <1>13, <1>14, <1>15, <1>16, <1>17, <1>18, <1>19 DEF IInv

(* The server answers a message of the flood.                              *)
LEMMA FloodAnswer ==
  ASSUME IInv, demo = "flood", sPoll = "drain", toS # <<>>, Head(toS).kind = "data",
         sPoll' = "release",
         sEpt' = "bound", PutToClient(Head(toS)), UNCHANGED <<count, shutdown_req>>,
         UNCHANGED <<setting, toS, sKick, spc, clientVars>>
  PROVE  IInv'
  <1>1. /\ TypeOK /\ err_cnt = 0 /\ Stages /\ Order /\ Lockstep /\ Verified /\ Counting /\ Flood
        /\ RingTypes /\ ClientTypes /\ ServerTypes
    BY DEF IInv, TypeOK
  <1>2. /\ Len(toS) \in Nat /\ (toS = <<>> <=> Len(toS) = 0)
        /\ Len(toC) \in Nat /\ (toC = <<>> <=> Len(toC) = 0)
        /\ \A k \in 1 .. Len(toS) : toS[k] \in Message
        /\ \A k \in 1 .. Len(toC) : toC[k] \in Message
        /\ \A k \in DataC : k \in 1 .. Len(toC) /\ toC[k].kind = "data"
        /\ \A k \in Asked : k \in 1 .. Len(toS) /\ toS[k].kind = "data"
    BY <1>1, Rings
  <1>3. /\ Head(toS) = toS[1] /\ toS[1] \in Message /\ Len(toS) > 0
        /\ \A k : k \in Asked' <=> k \in Asked /\ k # 1
        /\ (1 \in Asked <=> toS[1].kind = "data")
        /\ HeadS' = 1 /\ HeadS = IF toS[1].kind = "create" THEN 1 ELSE 0
    BY <1>1, HandleS
  <1>4. /\ toC' \in Seq(Message) /\ Len(toC') <= NBuf /\ cKick' = TRUE
        /\ Len(toC') = Len(toC) + 1 /\ toC' # <<>>
        /\ \A k \in 1 .. Len(toC) : toC'[k] = toC[k]
        /\ toC'[Len(toC) + 1] = toS[1]
        /\ \A k : k \in DataC' <=> k \in DataC \/ (k = Len(toC) + 1 /\ toS[1].kind = "data")
        /\ toC # <<>> => HeadC' = HeadC
        /\ toC = <<>> => HeadC = 0 /\ HeadC' = IF toS[1].kind = "create" THEN 1 ELSE 0
    BY <1>1, <1>3, PutC
  <1>5. UNCHANGED <<demo, retrying, faulty, cpc, cPoll, cEpt, i, round, rnum, err_cnt,
                    ept_deleted, verified>>
    BY DEF setting, clientVars
  <1>6. spc = "loop" /\ ~ept_deleted /\ 1 \in Asked /\ ~Early
    BY <1>1, <1>3 DEF Order, Stages
  <1>7. \A k : k \in DataC' <=> k \in DataC \/ k = Len(toC) + 1
    BY <1>4
  <1>8. TypeOK'
    BY <1>1, <1>4, <1>5, <1>7 DEF TypeOK, RingTypes, ClientTypes, ServerTypes, LastRound
  <1>9. (err_cnt = 0)'
    BY <1>1, <1>5
  <1>10. Stages'
    BY <1>1, <1>5 DEF Stages, Early, Polling
  <1>11. Order'
    BY <1>1, <1>4, <1>5, <1>7 DEF Order, Early
  <1>12. Lockstep'
    BY <1>5 DEF Lockstep
  <1>13. Verified'
    BY <1>5 DEF Verified
  <1>14. Counting'
    BY <1>5 DEF Counting
  <1>15. Flood'
    <2> SUFFICES ASSUME Sure, cpc # "ended" PROVE
           /\ \A k \in DataC' : toC'[k].round = round /\ toC'[k].num = rnum + k - 1
           /\ \A k \in Asked' : toS[k].round = round /\ toS[k].num + Len(toS) = i + k - 1
           /\ rnum + (Len(toC') - HeadC') + (Len(toS) - HeadS') = i
           /\ verified = ((0 .. round - 1) \X (0 .. N - 1)) \cup ({round} \X (0 .. rnum - 1))
      BY <1>1, <1>5 DEF Flood, Sure, LastRound
    <2>1. /\ \A k \in DataC : toC[k].round = round /\ toC[k].num = rnum + k - 1
          /\ \A k \in Asked : toS[k].round = round /\ toS[k].num + Len(toS) = i + k - 1
          /\ rnum + (Len(toC) - HeadC) + (Len(toS) - HeadS) = i
          /\ verified = ((0 .. round - 1) \X (0 .. N - 1)) \cup ({round} \X (0 .. rnum - 1))
      BY <1>1 DEF Flood
    <2>2. cEpt = "bound"
      BY <1>1, <1>6 DEF Stages, Early, ClientTypes
    <2>3. toC # <<>> => toC[1].kind # "create"
      BY <1>1, <2>2 DEF Order
    <2>4. HeadC = 0 /\ HeadC' = 0 /\ HeadS = 0 /\ HeadS' = 1
      BY <1>3, <1>4, <2>3 DEF HeadC
    <2>5. /\ Len(toC) \in Nat /\ Len(toS) \in Nat /\ rnum \in Nat /\ i \in Nat
          /\ Len(toC') = Len(toC) + 1
      BY <1>1, <1>4 DEF ClientTypes
    <2>6. PICK x \in Nat : x = toS[1].num
      BY <1>3, Messages
    <2>7. rnum + Len(toC) + Len(toS) = i
      BY <2>1, <2>4
    <2>8. toS[1].round = round /\ x + Len(toS) = i
      <3>1. toS[1].round = round /\ toS[1].num + Len(toS) = i + 1 - 1
        BY <1>6, <2>1
      <3>2. i + 1 - 1 = i
        BY <2>5
      <3> QED BY <2>6, <3>1, <3>2
    <2>9. x = rnum + Len(toC) /\ x = rnum + (Len(toC) + 1) - 1
      BY <2>5, <2>7, <2>8
    <2>10. ASSUME NEW k \in DataC' PROVE toC'[k].round = round /\ toC'[k].num = rnum + k - 1
      <3>1. CASE k \in DataC
        <4>1. toC'[k] = toC[k]
          BY <1>2, <1>4, <3>1
        <4> QED BY <2>1, <3>1, <4>1
      <3>2. CASE k = Len(toC) + 1
        <4>1. toC'[k] = toS[1]
          BY <1>4, <3>2
        <4> QED BY <2>6, <2>8, <2>9, <3>2, <4>1
      <3> QED BY <1>7, <3>1, <3>2
    <2>11. rnum + (Len(toC') - HeadC') + (Len(toS) - HeadS') = i
      BY <2>4, <2>5, <2>7
    <2> QED BY <1>3, <2>1, <2>10, <2>11
  <1> QED BY <1>8, <1>9, <1>10, <1>11, <1>12, <1>13, <1>14, <1>15 DEF IInv

(* The client calls platform_poll and stays where it is.                   *)
LEMMA PollStep ==
  ASSUME IInv, cPoll' = "wait", UNCHANGED cpc, NothingSent, UNCHANGED <<cEpt, i, round, rnum>>,
         AppFrame, Polling
  PROVE  IInv'
  <1>1. UNCHANGED <<setting, toS, toC, cpc, cEpt, i, round, rnum, err_cnt, ept_deleted, verified,
                    spc, sEpt, shutdown_req, count>>
    BY DEF NothingSent, AppFrame, serverVars
  <1>2. sKick' \in BOOLEAN /\ cKick' \in BOOLEAN
    BY DEF IInv, TypeOK, RingTypes, NothingSent, AppFrame
  <1>3. sPoll' = sPoll /\ (sPoll' # "no" => spc = "loop")
    BY DEF IInv, Order, AppFrame, serverVars
  <1> QED BY <1>1, <1>2, <1>3, QuietStep

(* Every step of the client is one of these.                               *)
LEMMA ClientStep ==
  ASSUME IInv, Client
  PROVE  IInv'
  <1>1. /\ TypeOK /\ err_cnt = 0 /\ Stages /\ Order /\ Lockstep /\ Verified /\ Counting /\ Flood
        /\ RingTypes /\ ClientTypes /\ ServerTypes
    BY DEF IInv, TypeOK
  <1>2. /\ N \in Nat /\ N > 0 /\ Rounds \in Nat /\ Rounds > 0
        /\ demo \in {"ping", "flood", "matrix", "sample"}
    BY <1>1, Constants DEF TypeOK
  <1>3. demo # "sample" => ~ept_deleted
    BY <1>1 DEF Order
  <1>4. sPoll # "no" => spc = "loop"
    BY <1>1 DEF Order
  <1>5. CASE CCreate
    <2>1. CASE faulty /\ Goto("ended") /\ NothingSent /\ UNCHANGED cEpt
      BY <1>5, <2>1, CreateFails DEF CCreate
    <2>2. CASE /\ PutToServer(Ns("create"))
               /\ cEpt' = "unbound"
               /\ Goto(IF demo = "ping" THEN "alloc" ELSE "ready")
      BY <1>5, <2>2, CreateStep DEF CCreate
    <2> QED BY <1>5, <2>1, <2>2 DEF CCreate
  <1>6. CASE CReady
    <2>1. CASE cEpt = "bound"
      BY <1>6, <2>1, CReadyStep DEF CReady, AppAt, Goto, NothingSent, AppFrame, ringVars
    <2>2. CASE cEpt # "bound"
      BY <1>6, <2>2, PollStep DEF CReady, AppAt, CallPoll, Polling
    <2> QED BY <2>1, <2>2
  <1>7. CASE CAlloc
    <2>1. CASE /\ Goto(IF demo = "ping" THEN "ready" ELSE "send")
               /\ NothingSent /\ UNCHANGED cEpt
      BY <1>7, <2>1, CReadyStep DEF CAlloc, AppAt, Goto, NothingSent, AppFrame, ringVars
    <2>2. CASE DestroyToServer /\ cEpt' = "none" /\ Goto("ended")
      <3>1. AppAt("alloc") /\ demo # "sample" /\ UNCHANGED <<i, round, rnum>> /\ AppFrame
        BY <1>1, <1>7 DEF CAlloc, AppAt, Stages
      <3> QED BY <2>2, <3>1, FarewellSent, LeavesSilently DEF DestroyToServer,
          NothingSent
    <2> QED BY <1>7, <2>1, <2>2 DEF CAlloc
  <1>8. CASE PingSend
    BY <1>8, LockstepSend, LockstepFails DEF PingSend, SendFails
  <1>9. CASE MatrixSend
    BY <1>9, LockstepSend, LockstepFails DEF MatrixSend, SendFails
  <1>10. CASE SampleSend
    BY <1>10, LockstepSend, LockstepFails DEF SampleSend, SendFails
  <1>11. CASE PingAwait
    <2>1. CASE rnum < i + 1
      BY <1>1, <1>3, <1>11, <2>1, PollStep DEF PingAwait, AppAt, CallPoll, Polling
    <2>2. CASE ~(rnum < i + 1)
      <3>1. rnum = i + 1
        BY <1>1, <1>11, <2>2 DEF PingAwait, Verified, ClientTypes
      <3> QED BY <1>11, <3>1, LockstepNext DEF PingAwait
    <2> QED BY <2>1, <2>2
  <1>12. CASE MatrixAwait
    <2>1. CASE rnum = 0
      BY <1>1, <1>3, <1>12, <2>1, PollStep DEF MatrixAwait, AppAt, CallPoll, Polling
    <2>2. CASE rnum # 0
      <3>1. rnum = 1
        BY <1>1, <1>12, <2>2 DEF MatrixAwait, Verified
      <3> QED BY <1>1, <1>12, <3>1, LockstepNext DEF MatrixAwait
    <2> QED BY <2>1, <2>2
  <1>13. CASE SampleAwait
    <2>1. CASE rnum < i + 1
      BY <1>1, <1>13, <2>1, PollStep DEF SampleAwait, AppAt, CallPoll, Polling
    <2>2. CASE ~(rnum < i + 1)
      <3>1. rnum = i + 1
        BY <1>1, <1>13, <2>2 DEF SampleAwait, Verified, ClientTypes
      <3> QED BY <1>13, <3>1, LockstepNext DEF SampleAwait
    <2> QED BY <2>1, <2>2
  <1>14. CASE SampleFinish
    <2>1. CASE ept_deleted
      <3>1. cEpt' = "none"
        BY <1>1, <1>14, <2>1 DEF SampleFinish, Order
      <3> QED BY <1>14, <2>1, <3>1, LeavesSilently DEF SampleFinish
    <2>2. CASE ~ept_deleted
      BY <1>14, <2>2, PollStep DEF SampleFinish, AppAt, CallPoll, Polling
    <2> QED BY <2>1, <2>2
  <1>15. CASE FloodSend
    <2>1. CASE Send(Data(round, i)) /\ i' = i + 1 /\ Goto(IF i + 1 < N THEN "send" ELSE "await")
      BY <1>15, <2>1, FloodSends DEF FloodSend
    <2>2. CASE CallPoll("send") /\ NothingSent /\ UNCHANGED i
      BY <1>15, <2>2, PollStep DEF FloodSend, AppAt, CallPoll, Polling
    <2>3. CASE NothingSent /\ Goto("finish") /\ UNCHANGED i
      BY <1>15, <2>3, FloodEnds DEF FloodSend
    <2> QED BY <1>15, <2>1, <2>2, <2>3 DEF FloodSend, SendFails
  <1>16. CASE FloodAwait
    <2>1. CASE rnum < N
      BY <1>1, <1>3, <1>16, <2>1, PollStep DEF FloodAwait, AppAt, CallPoll, Polling
    <2>2. CASE ~(rnum < N)
      <3>1. /\ rnum = N /\ demo = "flood" /\ AppAt("await") /\ NothingSent
            /\ UNCHANGED cEpt /\ AppFrame
        BY <1>1, <1>2, <1>16, <2>2 DEF FloodAwait, ClientTypes
      <3>2. CASE round < LastRound
        BY <1>1, <1>3, <1>16, <2>2, <3>1, <3>2, FloodNext DEF FloodAwait
      <3>3. CASE ~(round < LastRound)
        <4>1. round = LastRound
          BY <1>1, <1>2, <3>3 DEF ClientTypes, LastRound
        <4> QED BY <1>16, <2>2, <3>1, <3>3, <4>1, FloodEnds DEF FloodAwait
      <3> QED BY <3>2, <3>3
    <2> QED BY <2>1, <2>2
  <1>17. CASE CFinish
    <2> QED BY <1>17, FarewellSent, LeavesSilently DEF CFinish, DestroyToServer,
        NothingSent
  <1>18. CASE CWake
    <2>1. UNCHANGED <<setting, toS, toC, cpc, cEpt, i, round, rnum, err_cnt, ept_deleted,
                      verified,
                      spc, sEpt, shutdown_req, count>>
      BY <1>18 DEF CWake, serverVars
    <2>2. sKick' \in BOOLEAN /\ cKick' \in BOOLEAN /\ sPoll' = sPoll /\ cPoll' = "drain"
      BY <1>1, <1>18 DEF CWake, serverVars, RingTypes
    <2>3. Polling
      BY <1>1, <1>18 DEF CWake, Stages
    <2> QED BY <1>4, <2>1, <2>2, <2>3, QuietStep
  <1>19. CASE CDrained
    <2>1. UNCHANGED <<setting, toS, toC, cpc, cEpt, i, round, rnum, err_cnt, ept_deleted,
                      verified,
                      spc, sEpt, shutdown_req, count>>
      BY <1>19 DEF CDrained, ringVars, serverVars
    <2>2. sKick' \in BOOLEAN /\ cKick' \in BOOLEAN /\ sPoll' = sPoll /\ cPoll' = "no"
      BY <1>1, <1>19 DEF CDrained, ringVars, serverVars, RingTypes
    <2> QED BY <1>4, <2>1, <2>2, QuietStep
  <1>20. CASE CReceive
    <2>1. /\ cPoll = "drain" /\ toC # <<>> /\ Head(toC).kind = "data" /\ toC' = Tail(toC)
          /\ UNCHANGED <<setting, toS, sKick, cKick, cpc, cPoll, cEpt, i, round, ept_deleted,
                         serverVars>>
      BY <1>20 DEF CReceive
    <2>2. /\ Head(toC) = toC[1] /\ 1 \in DataC
      BY <1>1, <2>1, TakeC
    <2>3. cEpt # "none"
      BY <1>1, <2>1 DEF Stages, Order, Polling
    <2>4. demo # "flood" => Head(toC).round = 0 /\ Head(toC).num = i /\ Pending /\ i < N
      BY <1>1, <2>2 DEF Lockstep, Data, Pending
    <2>5. CASE demo = "ping"
      <3>1. rnum' = i + 1 /\ verified' = verified \cup {<<0, i>>} /\ UNCHANGED err_cnt
        BY <1>20, <2>3, <2>4, <2>5 DEF CReceive, PingCb, Accept
      <3> QED BY <2>1, <2>5, <3>1, LockstepReceive
    <2>6. CASE demo = "matrix"
      <3>1. rnum' = 1 /\ verified' = verified \cup {<<0, i>>} /\ UNCHANGED err_cnt
        BY <1>1, <1>20, <2>3, <2>4, <2>6 DEF CReceive, MatrixCb, Accept
      <3> QED BY <2>1, <2>6, <3>1, LockstepReceive
    <2>7. CASE demo = "sample"
      <3>1. rnum = i
        BY <2>4, <2>7 DEF Pending
      <3>2. rnum' = i + 1 /\ verified' = verified \cup {<<0, i>>} /\ UNCHANGED err_cnt
        BY <1>20, <2>3, <2>4, <2>7, <3>1 DEF CReceive, SampleCb, Accept
      <3> QED BY <2>1, <2>7, <3>2, LockstepReceive
    <2>8. CASE demo = "flood"
      <3>1. /\ rnum' = Head(toC).num + 1 /\ UNCHANGED err_cnt
            /\ verified' = verified \cup {<<Head(toC).round, Head(toC).num>>}
        BY <1>20, <2>3, <2>8 DEF CReceive, FloodCb, Accept
      <3> QED BY <2>1, <2>8, <3>1, FloodReceive
    <2> QED BY <1>2, <2>5, <2>6, <2>7, <2>8
  <1> QED BY <1>5, <1>6, <1>7, <1>8, <1>9, <1>10, <1>11, <1>12, <1>13, <1>14, <1>15,
      <1>16, <1>17, <1>18, <1>19, <1>20, BindStep, UnbindStep DEF Client

(* And every step of the server.                                           *)
LEMMA ServerStep ==
  ASSUME IInv, Server
  PROVE  IInv'
  <1>1. /\ TypeOK /\ Stages /\ Order /\ Lockstep /\ Verified /\ Counting
        /\ RingTypes /\ ClientTypes /\ ServerTypes
    BY DEF IInv, TypeOK
  <1>2. cPoll # "no" => Polling
    BY <1>1 DEF Stages
  <1>3. CASE SCreate
    BY <1>3, SCreateStep, SCreateFails DEF SCreate
  <1>4. CASE SWake
    <2>1. UNCHANGED <<setting, toS, toC, cpc, cEpt, i, round, rnum, err_cnt, ept_deleted,
                      verified,
                      spc, sEpt, shutdown_req, count>>
      BY <1>4 DEF SWake, clientVars
    <2>2. /\ sKick' \in BOOLEAN /\ cKick' \in BOOLEAN
          /\ cPoll' = cPoll /\ cPoll \in {"no", "wait", "drain"}
      BY <1>1, <1>4 DEF SWake, clientVars, RingTypes, ClientTypes
    <2>3. sPoll # "release" /\ sPoll' = "drain" /\ spc = "loop"
      BY <1>1, <1>4 DEF SWake, Order
    <2> QED BY <1>2, <2>1, <2>2, <2>3, QuietStep
  <1>5. CASE SDrained
    <2>1. UNCHANGED <<setting, toS, toC, cpc, cEpt, i, round, rnum, err_cnt, ept_deleted,
                      verified,
                      spc, sEpt, shutdown_req, count>>
      BY <1>5 DEF SDrained, ringVars, clientVars
    <2>2. /\ sKick' \in BOOLEAN /\ cKick' \in BOOLEAN
          /\ cPoll' = cPoll /\ cPoll \in {"no", "wait", "drain"}
      BY <1>1, <1>5 DEF SDrained, ringVars, clientVars, RingTypes, ClientTypes
    <2>3. sPoll # "release" /\ sPoll' = "no"
      BY <1>5 DEF SDrained
    <2> QED BY <1>2, <2>1, <2>2, <2>3, QuietStep
  <1>6. CASE SAnswer
    <2>1. /\ sPoll = "drain" /\ toS # <<>> /\ Head(toS).kind = "data"
          /\ sEpt' = "bound" /\ sPoll' = "release"
          /\ UNCHANGED <<setting, toS, sKick, spc, clientVars>>
      BY <1>6 DEF SAnswer
    <2>2. CASE demo \in {"ping", "flood"} /\ ~retrying /\ EchoCb(Head(toS))
      BY <2>1, <2>2, LockstepAnswer, FloodAnswer, AnswerLost DEF EchoCb, AnswerFails
    <2>3. CASE retrying /\ UpdateCb(Head(toS))
      <3>1. demo # "sample"
        BY <1>1, <2>3 DEF Stages
      <3> QED BY <2>1, <2>3, <3>1, LockstepAnswer, FloodAnswer DEF UpdateCb
    <2>4. CASE demo = "matrix" /\ MatrixdCb(Head(toS))
      BY <2>1, <2>4, LockstepAnswer, AnswerLost DEF MatrixdCb, AnswerFails
    <2>5. CASE demo = "sample" /\ SampleEchoCb(Head(toS))
      <3>1. 1 \in Asked
        BY <1>1, <2>1, HandleS
      <3>2. count = rnum /\ rnum = i /\ i < N /\ i \in Nat /\ N \in Nat
        BY <1>1, <2>5, <3>1, Constants DEF Lockstep, Pending, Counting, ClientTypes
      <3>3. ~(count + 1 > N)
        BY <3>2
      <3> QED BY <2>1, <2>5, <3>3, LockstepAnswer, AnswerLost DEF SampleEchoCb,
          AnswerFails
    <2> QED BY <1>6, <2>2, <2>3, <2>4, <2>5 DEF SAnswer
  <1>7. CASE SNameService
    BY <1>7, NameServiceStep DEF SNameService
  <1>8. CASE SLoop
    <2>1. CASE shutdown_req
      BY <1>8, <2>1, ServerLeaves DEF SLoop
    <2>2. CASE ~shutdown_req
      <3>1. UNCHANGED <<setting, toS, toC, cpc, cEpt, i, round, rnum, err_cnt, ept_deleted,
                        verified,
                        spc, sEpt, shutdown_req, count>>
        BY <1>8, <2>2 DEF SLoop, ringVars, clientVars
      <3>2. /\ sKick' \in BOOLEAN /\ cKick' \in BOOLEAN
            /\ cPoll' = cPoll /\ cPoll \in {"no", "wait", "drain"}
        BY <1>1, <1>8 DEF SLoop, ringVars, clientVars, RingTypes, ClientTypes
      <3>3. sPoll # "release" /\ sPoll' = "wait" /\ spc = "loop"
        BY <1>8, <2>2 DEF SLoop
      <3> QED BY <1>2, <3>1, <3>2, <3>3, QuietStep
    <2> QED BY <2>1, <2>2
  <1>9. CASE SDestroy
    BY <1>9, SDestroyStep, SDestroySilent DEF SDestroy, DestroyToClient
  <1> QED BY <1>3, <1>4, <1>5, <1>6, <1>7, <1>8, <1>9, ReleaseStep DEF Server

LEMMA NextStep ==
  ASSUME IInv, [Next]_vars
  PROVE  IInv'
  <1>1. CASE UNCHANGED vars
    <2>1. UNCHANGED <<setting, toS, toC, cpc, cPoll, cEpt, i, round, rnum, err_cnt, ept_deleted,
                      verified, spc, sPoll, sEpt, shutdown_req, count, sKick, cKick>>
      BY <1>1 DEF vars, ringVars, clientVars, serverVars
    <2>2. sKick' \in BOOLEAN /\ cKick' \in BOOLEAN /\ cPoll \in {"no", "wait", "drain"}
      BY <2>1 DEF IInv, TypeOK, RingTypes, ClientTypes
    <2>3. (cPoll # "no" => Polling) /\ (sPoll # "no" => spc = "loop")
      BY DEF IInv, Stages, Order
    <2> QED BY <2>1, <2>2, <2>3, QuietStep
  <1> QED BY <1>1, ClientStep, ServerStep DEF Next, Ended

LEMMA InitIInv == Init => IInv
  <1> SUFFICES ASSUME Init PROVE IInv
    OBVIOUS
  <1>1. /\ N \in Nat /\ N > 0 /\ Rounds \in Nat /\ Rounds > 0 /\ NBuf \in Nat
        /\ demo \in {"ping", "flood", "matrix", "sample"}
    BY Constants DEF Init
  <1>2. /\ toS = <<>> /\ toC = <<>> /\ Len(toS) = 0 /\ Len(toC) = 0
        /\ toS \in Seq(Message) /\ toC \in Seq(Message)
    BY DEF Init
  <1>3. DataC = {} /\ Asked = {} /\ HeadC = 0 /\ HeadS = 0
    BY <1>2 DEF DataC, Asked, HeadC, HeadS
  <1>4. TypeOK
    <2>1. RingTypes
      BY <1>1 DEF Init, RingTypes
    <2>2. 0 \in 0 .. N * Rounds /\ 0 \in 0 .. LastRound
      BY <1>1 DEF LastRound
    <2>3. ClientTypes
      <3>1. /\ cpc = "create" /\ cPoll = "no" /\ cEpt = "none" /\ i = 0 /\ round = 0 /\ rnum = 0
            /\ err_cnt = 0 /\ verified = {}
        BY DEF Init
      <3>2. ept_deleted \in BOOLEAN
        BY Zenon DEF Init
      <3> QED BY <1>1, <2>2, <3>1, <3>2 DEF ClientTypes
    <2>4. ServerTypes
      <3>1. spc = "create" /\ sPoll = "no" /\ sEpt = "none" /\ count = 0
        BY DEF Init
      <3>2. shutdown_req \in BOOLEAN
        BY Zenon DEF Init
      <3> QED BY <1>1, <3>1, <3>2 DEF ServerTypes
    <2>5. demo \in Demos /\ faulty \in Faults
      BY DEF Init
    <2>6. retrying \in BOOLEAN
      BY Zenon DEF Init
    <2> QED BY <2>1, <2>3, <2>4, <2>5, <2>6, Zenon DEF TypeOK
  <1>5. Stages
    <2>1. retrying => demo \in {"ping", "flood"}
      <3>1. CASE demo \notin {"ping", "flood"}
        <4>1. retrying = FALSE
          BY <3>1 DEF Init
        <4> QED BY <4>1
      <3> QED BY <3>1
    <2> QED BY <1>3, <2>1 DEF Init, Stages
  <1>6. Order
    BY DEF Init, Order
  <1>7. Lockstep
    BY <1>3 DEF Init, Lockstep
  <1>8. Verified
    BY DEF Init, Verified
  <1>9. Counting
    BY <1>3 DEF Init, Counting
  <1>10. Flood
    BY <1>3 DEF Init, Flood
  <1> QED BY <1>4, <1>5, <1>6, <1>7, <1>8, <1>9, <1>10 DEF Init, IInv
-----------------------------------------------------------------------------
(* The invariant above holds in every state of every demonstration, with   *)
(* and without faults.                                                     *)
THEOREM Invariance == Safety => []IInv
  <1>1. IInv /\ [Next]_vars => IInv'
    BY NextStep
  <1> QED BY InitIInv, <1>1, PTL DEF Safety

(* The types of both sides; no ring of the rpmsg device ever holds more    *)
(* messages than it has buffers, and no counter passes its limit.          *)
THEOREM TypeCorrect == Safety => []TypeOK
  <1>1. IInv => TypeOK
    BY DEF IInv
  <1> QED BY Invariance, <1>1, PTL

(* The checks of the clients' callbacks never fire: whatever is lost or    *)
(* fails, an answer that arrives is the answer to the message, the round   *)
(* and the position the callback compares it with.                         *)
THEOREM AlarmsAreReal == Safety => []NoFalseAlarm
  <1>1. IInv => NoFalseAlarm
    BY DEF IInv, NoFalseAlarm
  <1> QED BY Invariance, <1>1, PTL

(* The report of a client that got to the end of its loop can be believed, *)
(* but for a flood test whose server may drop answers.                     *)
THEOREM ReportsHonest == Safety => []LockstepHonest
  <1>1. ASSUME IInv PROVE LockstepHonest
    <2> SUFFICES ASSUME ~(faulty /\ demo = "flood" /\ ~retrying),
                        cpc = "ended" /\ i = N /\ round = LastRound
                 PROVE  verified = (0 .. LastRound) \X (0 .. N - 1)
      BY DEF LockstepHonest, ReportHonest
    <2>1. N \in Nat /\ demo \in {"ping", "flood", "matrix", "sample"}
      BY <1>1, Constants DEF IInv, TypeOK
    <2>2. CASE demo = "flood"
      <3>1. Sure
        BY <2>2 DEF Sure
      <3> QED BY <1>1, <2>2, <3>1 DEF IInv, Flood
    <2>3. CASE demo # "flood"
      <3>1. LastRound = 0 /\ 0 .. LastRound = {0}
        BY <2>3 DEF LastRound
      <3>2. verified = {0} \X (0 .. N - 1)
        BY <1>1, <2>1, <2>3 DEF IInv, Verified
      <3> QED BY <3>1, <3>2
    <2> QED BY <2>2, <2>3
  <1> QED BY Invariance, <1>1, PTL

(* Without faults the server leaves its loop only when the client needs no *)
(* further answer: after its farewell, or, for the sample, when the last   *)
(* answer is counted or on its way.                                        *)
THEOREM ServerStaysLongEnough == Safety => []ServerOutlivesWork
  <1>1. ASSUME IInv PROVE ServerOutlivesWork
    <2> SUFFICES ASSUME ~faulty, spc \in {"destroy", "ended"}, cpc \in {"send", "await"}
                 PROVE  /\ demo = "sample" /\ cpc = "await" /\ i = N - 1
                        /\ rnum = N \/ \E k \in 1 .. Len(toC) : toC[k] = Data(0, N - 1)
      BY DEF ServerOutlivesWork
    <2>1. N \in Nat /\ i \in Nat /\ rnum \in Nat /\ count \in Nat /\ RingTypes
      BY <1>1, Constants DEF IInv, TypeOK, ClientTypes, ServerTypes
    <2>2. shutdown_req /\ demo = "sample"
      BY <1>1 DEF IInv, Order
    <2>3. count = N /\ i < N /\ (rnum = i \/ (cpc = "await" /\ rnum = i + 1))
      BY <1>1, <2>2 DEF IInv, Counting, Lockstep, Verified
    <2>4. count = rnum \/ (cpc = "await" /\ rnum = i /\ count = i + 1)
      BY <1>1, <2>2 DEF IInv, Counting
    <2>5. cpc = "await" /\ i = N - 1 /\ (rnum = N \/ count = rnum + 1)
      BY <2>1, <2>3, <2>4
    <2>6. CASE count = rnum + 1
      <3>1. DataC # {}
        BY <1>1, <2>2, <2>6 DEF IInv, Counting
      <3>2. PICK k \in DataC : TRUE
        BY <3>1
      <3>3. k \in 1 .. Len(toC)
        BY DEF DataC
      <3>4. toC[k] = Data(0, i)
        BY <1>1, <2>2 DEF IInv, Lockstep
      <3> QED BY <2>2, <2>5, <3>3, <3>4
    <2> QED BY <2>2, <2>5, <2>6
  <1> QED BY Invariance, <1>1, PTL
=============================================================================
