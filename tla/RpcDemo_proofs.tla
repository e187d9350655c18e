--------------------------- MODULE RpcDemo_proofs ---------------------------
(***************************************************************************)
(* Proofs about the remote procedure calls: at every moment there is one   *)
(* call at most, and what is under way belongs to it; a call is served at  *)
(* most once (module RemoteCall), and none gets lost where nothing fails;  *)
(* what the client has opened is closed when a close has returned; and a   *)
(* client that ends without a fault has done its work.  For every number   *)
(* of repetitions, every choice of the operations that fail and of the     *)
(* signals.                                                                *)
(***************************************************************************)
EXTENDS RpcDemo, TLAPS

(* A response waits to be read.                                            *)
Answer == toC # <<>> /\ toC[1].kind = "response"

(* What the handlers answer.                                               *)
Fits(m) ==
    /\ m.kind = "response"
    /\ m.id \in {"OPEN", "CLOSE", "READ", "WRITE", "INPUT"}
    /\ m.id = "OPEN" => m.val \in {-1, 3, 4}
    /\ m.id \in {"READ", "INPUT"} => m.val \in -1 .. 2
    /\ m.id \in {"WRITE", "CLOSE"} => m.val \in -1 .. 1

(* What the rings may hold: of requests only the one of the running call,  *)
(* then the client's farewell; to the client the announcement or a         *)
(* response first, and the server's farewell last.                         *)
Rings ==
    /\ cpc # "ended" => toS = <<>> \/ toS = <<Request(IdOf(cpc), ArgOf(cpc))>>
    /\ cpc = "ended" => \A k \in 1 .. Len(toS) : toS[k] \in {Request("TERM", 0), Ns("destroy")}
    /\ \A k \in 1 .. Len(toC) : \/ k = 1 /\ (toC[k] = Ns("create") \/ Fits(toC[k]))
                                \/ k = Len(toC) /\ toC[k] = Ns("destroy") /\ ~sEpt
    /\ spc = "reply" => Fits(reply)
    /\ spc # "reply" => reply = NoMessage

(* The client has not heard of the server yet, or has ended.               *)
Before ==
    \/ cpc = "init" /\ cEpt = "none"
    \/ cpc = "open1" /\ cEpt = "unbound"
    \/ cpc = "ended"

(* Nothing is called before the announcement has arrived.                  *)
Meeting ==
    /\ spc \in {"create", "found", "allocated"} => toC = <<>> /\ ~sEpt /\ Before
    /\ toC # <<>> /\ toC[1].kind = "create" => Before
    /\ cEpt = "unbound" => cpc = "open1" /\ call = "none"
    /\ cpc \in {"init", "term", "ended"} => call = "none"
    /\ cpc = "repeat" /\ pair = "linux" => call = "none"

(* A call that is over has nothing under way; one that waits has its       *)
(* request, its response in the making or its response, or has lost it.    *)
Flow ==
    /\ call = "none" \/ ~wait_resp =>
          spc # "reply" /\ ~Answer /\ (cpc # "ended" => toS = <<>>)
    /\ spc = "reply" => reply.id = IdOf(cpc) /\ toS = <<>> /\ ~Answer
    /\ Answer => toC[1].id = IdOf(cpc) /\ toS = <<>>

(* Without a fault the server serves until the client ends.                *)
Peaceful ==
    ~faulty /\ cpc # "ended" =>
      /\ ~request_termination /\ ~ept_deleted /\ err_cnt = 0 /\ platform = "live"
      /\ spc \notin {"terminate", "ended"}
      /\ sEpt <=> spc \notin {"create", "found", "allocated"}
      /\ cEpt = "none" => cpc = "init"

(* The call of this statement has not reached its handler.                 *)
Asking == call = "none" \/ toS # <<>>

(* What the server has open is what the client knows or will be told.      *)
Descriptors ==
    ~faulty \/ pair = "linux" =>
      /\ cpc \in {"open1", "open2"} =>
           /\ Asking => fds = {}
           /\ spc = "reply" => fds \subseteq {reply.val}
           /\ Answer => fds \subseteq {toC[1].val}
           /\ ~wait_resp => fds \subseteq {file_d}
      /\ cpc \in {"write", "read", "close1", "close2"} => fds \subseteq {file_d}
      /\ cpc \in {"close1", "close2"} /\ (spc = "reply" \/ Answer \/ ~wait_resp) => fds = {}
      /\ cpc \notin {"open1", "open2", "write", "read", "close1", "close2"} => fds = {}

(* Without a fault the file is there once it is opened, and has got the    *)
(* string once it is written.                                              *)
Written ==
    ~faulty =>
      /\ cpc = "open1" /\ ~Asking =>
           /\ file >= 0
           /\ spc = "reply" => reply.val \in fds
           /\ Answer => toC[1].val \in fds
           /\ ~wait_resp => file_d \in fds
      /\ cpc = "write" => file >= 0 /\ file_d \in fds /\ (Asking \/ file >= 1)
      /\ cpc \notin {"init", "open1", "write"} => file >= 1

(* Two descriptors and one more string at most: how often app opens and    *)
(* writes.                                                                 *)
Bounds ==
    /\ fds \subseteq {3, 4} /\ file \in -1 .. 2
    /\ cpc \in {"init", "open1"} \/ (cpc = "write" /\ Asking) => file <= 1
    /\ cpc = "init" \/ (cpc = "open1" /\ Asking) => fds = {}
    /\ cpc \in {"open1", "write", "close1"} \/ (cpc = "open2" /\ Asking) => fds \subseteq {3}

(* The inductive invariant.                                                *)
IInv == /\ TypeOK /\ Rings /\ Meeting /\ Flow /\ Peaceful /\ Descriptors /\ Written
        /\ Bounds
-----------------------------------------------------------------------------
(* The fields of the messages.                                             *)
LEMMA Fields ==
  /\ \A id, v : /\ Request(id, v).kind = "request" /\ Request(id, v).id = id
                /\ Request(id, v).val = v
                /\ Response(id, v).kind = "response" /\ Response(id, v).id = id
                /\ Response(id, v).val = v
  /\ \A what : Ns(what).kind = what
  /\ NoMessage.kind = "none"
  BY DEF Request, Response, Ns, NoMessage

(* What is sent has the type of a message.                                 *)
LEMMA Typed ==
  /\ \A id \in {"OPEN", "CLOSE", "READ", "WRITE", "INPUT", "TERM"} : \A v \in -1 .. 5 :
        Request(id, v) \in Message /\ Response(id, v) \in Message
  /\ \A what \in {"create", "destroy", "none"} : Ns(what) \in Message
  /\ NoMessage \in Message
  BY DEF Request, Response, Ns, NoMessage, Message

(* Only the empty ring has length zero.                                    *)
LEMMA Empty ==
  ASSUME NEW q \in Seq(Message)
  PROVE  q = <<>> <=> Len(q) = 0
  OBVIOUS

(* A message is put behind the others.                                     *)
LEMMA Put ==
  ASSUME NEW q \in Seq(Message), NEW m \in Message
  PROVE  /\ Append(q, m) \in Seq(Message) /\ Append(q, m) # <<>>
         /\ Len(Append(q, m)) = Len(q) + 1 /\ Append(q, m)[Len(q) + 1] = m
         /\ Len(q) \in Nat /\ (q = <<>> <=> Len(q) = 0)
         /\ \A k \in 1 .. Len(q) : Append(q, m)[k] = q[k]
         /\ q = <<>> => Append(q, m) = <<m>> /\ Append(q, m)[1] = m
         /\ q # <<>> => Append(q, m)[1] = q[1]
  <1>1. /\ Append(q, m) \in Seq(Message) /\ Append(q, m) # <<>> /\ Len(q) \in Nat
        /\ Len(Append(q, m)) = Len(q) + 1 /\ Append(q, m)[Len(q) + 1] = m
        /\ \A k \in 1 .. Len(q) : Append(q, m)[k] = q[k]
    OBVIOUS
  <1>2. q = <<>> <=> Len(q) = 0
    BY Empty
  <1>3. q = <<>> => Append(q, m) = <<m>> /\ Append(q, m)[1] = m
    BY <1>1
  <1>4. q # <<>> => Append(q, m)[1] = q[1]
    BY <1>1, <1>2
  <1> QED BY <1>1, <1>2, <1>3, <1>4

(* The first message is taken.                                             *)
LEMMA Taken ==
  ASSUME NEW q \in Seq(Message), q # <<>>
  PROVE  /\ Tail(q) \in Seq(Message) /\ Head(q) = q[1] /\ q[1] \in Message
         /\ Len(q) \in Nat /\ Len(q) = Len(Tail(q)) + 1 /\ Len(Tail(q)) \in Nat
         /\ 1 \in 1 .. Len(q)
         /\ \A k \in 1 .. Len(Tail(q)) : Tail(q)[k] = q[k + 1] /\ k + 1 \in 1 .. Len(q)
         /\ (Tail(q) = <<>> <=> Len(Tail(q)) = 0)
  <1>1. Len(q) \in Nat /\ Len(q) # 0
    OBVIOUS
  <1>2. Tail(q) \in Seq(Message) /\ Head(q) = q[1] /\ Len(Tail(q)) = Len(q) - 1
    OBVIOUS
  <1>3. 1 \in 1 .. Len(q) /\ q[1] \in Message
    BY <1>1
  <1>4. \A k \in 1 .. Len(Tail(q)) : Tail(q)[k] = q[k + 1] /\ k + 1 \in 1 .. Len(q)
    BY <1>1, <1>2
  <1>5. Tail(q) = <<>> <=> Len(Tail(q)) = 0
    BY <1>2, Empty
  <1> QED BY <1>1, <1>2, <1>3, <1>4, <1>5

(* A request is the only message in its ring.                              *)
LEMMA Single ==
  ASSUME NEW m
  PROVE  /\ <<m>> # <<>> /\ Len(<<m>>) = 1 /\ <<m>>[1] = m /\ Head(<<m>>) = m
         /\ Tail(<<m>>) = <<>> /\ Append(<<>>, m) = <<m>>
  OBVIOUS
-----------------------------------------------------------------------------
(* The client's steps, in the forms they have: where app may go on after a *)
(* statement, and the four things a call does.                             *)
Follow(s) ==
    CASE s = "open1"  -> {"write"}
      [] s = "write"  -> {"close1"}
      [] s = "close1" -> {"open2"}
      [] s = "open2"  -> {"read"}
      [] s = "read"   -> {"close2"}
      [] OTHER        -> {"name", "age", "pi", "again", "repeat", "term"}

Opening  == cpc \in {"open1", "open2"}
Closing  == cpc \in {"close1", "close2"}
Prompted == cpc = "repeat" /\ pair = "linux"

(* A number that was read stays within its limits.                         *)
Numbers == bytes_read \in -1 .. 2 /\ bytes_written \in -1 .. 1 /\ repeats \in 0 .. MaxRepeat

Calling == cpc \in Statements /\ call = "none" /\ ~Prompted /\ wait_resp' = TRUE /\ cEpt' = cEpt
GoesOn  == call' = "none" /\ cpc' \in Follow(cpc)
Unsent  == toS' = toS /\ (cEpt # "bound" \/ faulty)

(* The request is under way.                                               *)
Asks ==
    /\ Calling /\ call' = "wait" /\ UNCHANGED <<cpc, file_d>>
    /\ cEpt = "bound" /\ toS' = Append(toS, Request(IdOf(cpc), ArgOf(cpc)))

(* It is not, and the call returns.                                        *)
Skips ==
    /\ Calling /\ Unsent /\ GoesOn /\ cEpt # "unbound"
    /\ pair = "linux" => ~Opening /\ ~Closing /\ file_d' = file_d
    /\ file_d' \in {file_d, -1}

(* It is not, and rpmsg_close waits.                                       *)
WaitsUnsent ==
    /\ Calling /\ Unsent /\ call' = "wait" /\ UNCHANGED <<cpc, file_d>>
    /\ pair = "linux" /\ Closing

(* The response has come, or the user has answered "Repeat demo ?".        *)
Returns ==
    /\ cpc \in Statements
    /\ IF Prompted THEN call = "none" ELSE call = "wait" /\ ~wait_resp
    /\ wait_resp' = TRUE /\ GoesOn /\ UNCHANGED <<toS, cEpt, file_d>>

(* After follows the statements of app.                                    *)
LEMMA Followed ==
  ASSUME cpc \in Statements, cpc # "repeat", NEW r
  PROVE  After(cpc, r) \in Follow(cpc)
  BY DEF After, Follow, Statements

(* What a return does.                                                     *)
LEMMA ReturnGoesOn ==
  ASSUME TypeOK, cpc \in Statements, cpc # "repeat", Return,
         bytes_read' \in -1 .. 2, bytes_written' \in -1 .. 1
  PROVE  GoesOn /\ Numbers'
  <1>1. PICK r \in Usable :
           /\ cpc' = After(cpc, r)
           /\ repeats' = IF pair # "linux" /\ ~r THEN repeats + 1 ELSE repeats
    BY DEF Return
  <1>2. r \in BOOLEAN /\ (pair # "linux" /\ ~r => repeats < MaxRepeat)
    BY <1>1 DEF Usable
  <1>3. repeats' \in 0 .. MaxRepeat
    BY <1>1, <1>2, RpcAssumption DEF TypeOK
  <1> QED BY <1>1, <1>3, Followed DEF Return, GoesOn, Numbers

(* Every step of app but its first and its last is one of the four.        *)
LEMMA CallForms ==
  ASSUME TypeOK,
         \/ rpmsg_open \/ rpmsg_read \/ rpmsg_write \/ rpmsg_close \/ rpmsg_input
         \/ AwaitResponse \/ RetargetCall \/ RetargetReturn \/ CRepeat,
         Meeting
  PROVE  AppFrame /\ Numbers' /\ (Asks \/ Skips \/ WaitsUnsent \/ Returns)
  <1> USE DEF TypeOK
  <1>1. CASE rpmsg_open
    <2>1. /\ AppFrame /\ Calling /\ cpc \in {"open1", "open2"} /\ call' = "wait"
          /\ UNCHANGED <<cpc, cEpt, file_d>> /\ Numbers' /\ Send(Request("OPEN", ArgOf(cpc)))
      BY <1>1 DEF rpmsg_open, Calls, Calling, Prompted, Statements, Numbers
    <2> QED BY <2>1 DEF Send, Asks, IdOf
  <1>2. CASE rpmsg_read
    <2>1. /\ AppFrame /\ Calling /\ cpc = "read" /\ pair = "linux"
          /\ bytes_read' = 0 /\ UNCHANGED <<cEpt, file_d, bytes_written>>
      BY <1>2 DEF rpmsg_read, Calls, Calling, Prompted, Statements
    <2>2. CASE Send(Request("READ", file_d)) /\ call' = "wait" /\ UNCHANGED <<cpc, repeats>>
      BY <2>1, <2>2 DEF Send, Asks, Numbers, IdOf, ArgOf
    <2>3. CASE SendFails /\ Return
      <3>1. GoesOn /\ Numbers'
        BY <2>1, <2>3, ReturnGoesOn DEF Statements
      <3> QED BY <2>1, <2>3, <3>1 DEF SendFails, May, Skips, Unsent, Opening, Closing, Meeting
    <2> QED BY <1>2, <2>2, <2>3 DEF rpmsg_read
  <1>3. CASE rpmsg_write
    <2>1. /\ AppFrame /\ Calling /\ cpc = "write" /\ pair = "linux"
          /\ bytes_written' = 0 /\ UNCHANGED <<cEpt, file_d, bytes_read>>
      BY <1>3 DEF rpmsg_write, Calls, Calling, Prompted, Statements
    <2>2. CASE Send(Request("WRITE", file_d)) /\ call' = "wait" /\ UNCHANGED <<cpc, repeats>>
      BY <2>1, <2>2 DEF Send, Asks, Numbers, IdOf, ArgOf
    <2>3. CASE SendFails /\ Return
      <3>1. GoesOn /\ Numbers'
        BY <2>1, <2>3, ReturnGoesOn DEF Statements
      <3> QED BY <2>1, <2>3, <3>1 DEF SendFails, May, Skips, Unsent, Opening, Closing, Meeting
    <2> QED BY <1>3, <2>2, <2>3 DEF rpmsg_write
  <1>4. CASE rpmsg_close
    <2>1. /\ AppFrame /\ Calling /\ Closing /\ pair = "linux" /\ call' = "wait"
          /\ UNCHANGED <<cpc, cEpt, file_d>> /\ Numbers'
      BY <1>4 DEF rpmsg_close, Calls, Calling, Prompted, Statements, Closing, Numbers
    <2>2. CASE Send(Request("CLOSE", file_d))
      BY <2>1, <2>2 DEF Send, Asks, IdOf, ArgOf, Closing
    <2>3. CASE SendFails
      BY <2>1, <2>3 DEF SendFails, May, WaitsUnsent, Unsent
    <2> QED BY <1>4, <2>2, <2>3 DEF rpmsg_close
  <1>5. CASE rpmsg_input
    <2>1. /\ AppFrame /\ Calling /\ cpc \in {"name", "age", "pi", "again"} /\ pair = "linux"
          /\ bytes_read' = 0 /\ UNCHANGED <<cEpt, file_d, bytes_written>>
      BY <1>5 DEF rpmsg_input, Calls, Calling, Prompted, Statements
    <2>2. CASE Send(Request("INPUT", 0)) /\ call' = "wait" /\ UNCHANGED <<cpc, repeats>>
      BY <2>1, <2>2 DEF Send, Asks, Numbers, IdOf, ArgOf
    <2>3. CASE SendFails /\ Return
      <3>1. GoesOn /\ Numbers'
        BY <2>1, <2>3, ReturnGoesOn DEF Statements
      <3> QED BY <2>1, <2>3, <3>1 DEF SendFails, May, Skips, Unsent, Opening, Closing, Meeting
    <2> QED BY <1>5, <2>2, <2>3 DEF rpmsg_input
  <1>6. CASE AwaitResponse
    <2>1. /\ AppFrame /\ cpc \in Statements /\ cpc # "repeat" /\ call = "wait" /\ ~wait_resp
          /\ wait_resp' = TRUE /\ UNCHANGED <<toS, cEpt, file_d, bytes_read, bytes_written>>
      BY <1>6 DEF AwaitResponse, Meeting
    <2>2. GoesOn /\ Numbers'
      BY <1>6, <2>1, ReturnGoesOn DEF AwaitResponse
    <2> QED BY <2>1, <2>2 DEF Returns, Prompted
  <1>7. CASE RetargetCall
    <2>1. /\ AppFrame /\ Calling /\ cEpt # "unbound" /\ pair # "linux" /\ Numbers'
      BY <1>7 DEF RetargetCall, Calling, Prompted, Numbers
    <2>2. CASE Send(Request(IdOf(cpc), ArgOf(cpc))) /\ call' = "wait" /\ UNCHANGED <<cpc, file_d>>
      BY <2>1, <2>2 DEF Send, Asks
    <2>3. CASE SendFails /\ call' = "none" /\ file_d' \in {file_d, -1}
               /\ cpc' = IF cpc = "repeat" THEN "name" ELSE After(cpc, TRUE)
      <3>1. cpc' \in Follow(cpc)
        BY <2>1, <2>3, Followed DEF Calling, Follow
      <3> QED BY <2>1, <2>3, <3>1 DEF SendFails, May, Skips, Unsent, GoesOn
    <2> QED BY <1>7, <2>2, <2>3 DEF RetargetCall
  <1>8. CASE RetargetReturn
    <2>1. /\ AppFrame /\ cpc \in Statements /\ cpc # "repeat" /\ call = "wait" /\ ~wait_resp
          /\ wait_resp' = TRUE /\ UNCHANGED <<toS, cEpt, file_d, bytes_read, bytes_written>>
      BY <1>8 DEF RetargetReturn
    <2>2. GoesOn /\ Numbers'
      BY <1>8, <2>1, ReturnGoesOn DEF RetargetReturn
    <2> QED BY <2>1, <2>2 DEF Returns, Prompted
  <1>9. CASE CRepeat
    <2>1. /\ AppFrame /\ cpc = "repeat" /\ call' = "none" /\ wait_resp' = TRUE
          /\ UNCHANGED <<toS, cEpt, file_d, bytes_read, bytes_written>>
          /\ IF pair = "linux" THEN call = "none" ELSE call = "wait" /\ ~wait_resp
          /\ cpc' \in {"term", "name"}
          /\ repeats' = repeats \/ (repeats < MaxRepeat /\ repeats' = repeats + 1)
      BY <1>9 DEF CRepeat
    <2>2. Numbers'
      BY <2>1, RpcAssumption DEF Numbers
    <2> QED BY <2>1, <2>2 DEF Returns, Prompted, GoesOn, Follow, Statements
  <1> QED BY <1>1, <1>2, <1>3, <1>4, <1>5, <1>6, <1>7, <1>8, <1>9
-----------------------------------------------------------------------------
(* The request of a statement is a message.                                *)
LEMMA RequestTyped ==
  ASSUME TypeOK
  PROVE  /\ Request(IdOf(cpc), ArgOf(cpc)) \in Message
         /\ IdOf(cpc) \in {"OPEN", "CLOSE", "READ", "WRITE", "INPUT"}
  <1>1. IdOf(cpc) \in {"OPEN", "CLOSE", "READ", "WRITE", "INPUT"}
    BY DEF IdOf
  <1>2. ArgOf(cpc) \in -1 .. 5
    BY DEF ArgOf, TypeOK
  <1> QED BY <1>1, <1>2, Typed

(* A call is sent: it alone is under way.                                  *)
LEMMA AsksStep ==
  ASSUME IInv, AppFrame, Numbers', Asks
  PROVE  IInv'
  <1>1. /\ TypeOK /\ Rings /\ Meeting /\ Flow /\ Peaceful /\ Descriptors /\ Written /\ Bounds
        /\ cpc \in Statements /\ call = "none" /\ ~Prompted /\ cEpt = "bound" /\ call' = "wait"
        /\ wait_resp' = TRUE
        /\ UNCHANGED <<pair, faulty, toC, cpc, cEpt, file_d, spc, sEpt, request_termination,
                       ept_deleted, err_cnt, platform, signal, reply, file, fds>>
    BY DEF IInv, Asks, Calling, AppFrame, setting, serverVars
  <1>2. toS = <<>> /\ spc # "reply" /\ ~Answer /\ cpc # "ended"
    BY <1>1 DEF Flow, Statements
  <1>3. toS' = <<Request(IdOf(cpc), ArgOf(cpc))>> /\ toS' \in Seq(Message) /\ toS' # <<>>
    BY <1>1, <1>2, RequestTyped, Put, Single DEF Asks, TypeOK
  <1>4. IdOf(cpc)' = IdOf(cpc) /\ ArgOf(cpc)' = ArgOf(cpc)
    BY <1>1 DEF IdOf, ArgOf
  <1>5. TypeOK'
    BY <1>1, <1>3 DEF TypeOK, Numbers
  <1>6. Rings'
    BY <1>1, <1>2, <1>3, <1>4 DEF Rings
  <1>7. Answer' = Answer /\ Asking'
    BY <1>1, <1>3 DEF Answer, Asking
  <1>8. Meeting' /\ Flow'
    BY <1>1, <1>2, <1>7 DEF Meeting, Flow, Before, Prompted, Statements
  <1>9. Peaceful'
    BY <1>1 DEF Peaceful
  <1>10. Descriptors' /\ Written' /\ Bounds'
    BY <1>1, <1>2, <1>7 DEF Descriptors, Written, Bounds, Asking
  <1> QED BY <1>5, <1>6, <1>8, <1>9, <1>10 DEF IInv

(* A call returns without having been sent.                                *)
LEMMA SkipsStep ==
  ASSUME IInv, AppFrame, Numbers', Skips
  PROVE  IInv'
  <1>1. /\ TypeOK /\ Rings /\ Meeting /\ Flow /\ Peaceful /\ Descriptors /\ Written /\ Bounds
        /\ cpc \in Statements /\ call = "none" /\ ~Prompted /\ call' = "none"
        /\ wait_resp' = TRUE /\ cpc' \in Follow(cpc) /\ cEpt # "unbound" /\ file_d' \in {file_d, -1}
        /\ pair = "linux" => ~Opening /\ ~Closing /\ file_d' = file_d
        /\ cEpt # "bound" \/ faulty
        /\ UNCHANGED <<pair, faulty, toS, toC, cEpt, spc, sEpt, request_termination,
                       ept_deleted, err_cnt, platform, signal, reply, file, fds>>
    BY DEF IInv, Skips, Calling, Unsent, GoesOn, AppFrame, setting, serverVars
  <1>2. toS = <<>> /\ spc # "reply" /\ ~Answer /\ cpc # "ended" /\ Asking /\ Asking'
    BY <1>1 DEF Flow, Statements, Asking
  <1>3. faulty /\ cpc' \notin {"init", "open1", "ended"} /\ cpc' \in Statements \cup {"term"}
    BY <1>1, <1>2 DEF Peaceful, TypeOK, Follow, Statements
  <1>4. TypeOK'
    BY <1>1, <1>3 DEF TypeOK, Numbers
  <1>5. Rings'
    BY <1>1, <1>2, <1>3 DEF Rings
  <1>6. Answer' = Answer
    BY <1>1 DEF Answer
  <1>7. Meeting' /\ Flow'
    BY <1>1, <1>2, <1>3, <1>6 DEF Meeting, Flow, Before, Statements
  <1>8. Peaceful' /\ Written'
    BY <1>1, <1>3 DEF Peaceful, Written
  <1>9. Descriptors'
    BY <1>1, <1>2, <1>3, <1>6 DEF Descriptors, Opening, Closing, Follow, Statements
  <1>10. Bounds'
    BY <1>1, <1>2, <1>3 DEF Bounds, Follow, Statements
  <1> QED BY <1>4, <1>5, <1>7, <1>8, <1>9, <1>10 DEF IInv

(* rpmsg_close waits although its request was not sent.                    *)
LEMMA WaitsUnsentStep ==
  ASSUME IInv, AppFrame, Numbers', WaitsUnsent
  PROVE  IInv'
  <1>1. /\ TypeOK /\ Rings /\ Meeting /\ Flow /\ Peaceful /\ Descriptors /\ Written /\ Bounds
        /\ cpc \in Statements /\ call = "none" /\ call' = "wait" /\ wait_resp' = TRUE
        /\ Closing /\ (cEpt # "bound" \/ faulty)
        /\ UNCHANGED <<pair, faulty, toS, toC, cpc, cEpt, file_d, spc, sEpt, request_termination,
                       ept_deleted, err_cnt, platform, signal, reply, file, fds>>
    BY DEF IInv, WaitsUnsent, Calling, Unsent, AppFrame, setting, serverVars
  <1>2. toS = <<>> /\ spc # "reply" /\ ~Answer /\ cpc # "ended" /\ Asking
    BY <1>1 DEF Flow, Statements, Asking
  <1>3. faulty /\ cEpt # "unbound"
    BY <1>1, <1>2 DEF Peaceful, TypeOK, Closing, Meeting
  <1>4. Answer' = Answer
    BY <1>1 DEF Answer
  <1>5. TypeOK'
    BY <1>1 DEF TypeOK, Numbers
  <1>6. Rings'
    BY <1>1, <1>2 DEF Rings
  <1>7. Meeting' /\ Flow'
    BY <1>1, <1>2, <1>3, <1>4 DEF Meeting, Flow, Before, Closing
  <1>8. Peaceful' /\ Written'
    BY <1>1, <1>3 DEF Peaceful, Written
  <1>9. Descriptors'
    BY <1>1, <1>2, <1>4 DEF Descriptors, Closing, Asking
  <1>10. Bounds'
    BY <1>1, <1>2 DEF Bounds, Closing, Asking
  <1> QED BY <1>5, <1>6, <1>7, <1>8, <1>9, <1>10 DEF IInv

(* A call whose response has come returns: the handler has done its part.  *)
LEMMA ReturnsStep ==
  ASSUME IInv, AppFrame, Numbers', Returns
  PROVE  IInv'
  <1>1. /\ TypeOK /\ Rings /\ Meeting /\ Flow /\ Peaceful /\ Descriptors /\ Written /\ Bounds
        /\ cpc \in Statements /\ call' = "none" /\ wait_resp' = TRUE /\ cpc' \in Follow(cpc)
        /\ IF Prompted THEN call = "none" ELSE call = "wait" /\ ~wait_resp
        /\ UNCHANGED <<pair, faulty, toS, toC, cEpt, file_d, spc, sEpt, request_termination,
                       ept_deleted, err_cnt, platform, signal, reply, file, fds>>
    BY DEF IInv, Returns, GoesOn, AppFrame, setting, serverVars
  <1>2. toS = <<>> /\ spc # "reply" /\ ~Answer /\ cpc # "ended" /\ Asking'
    BY <1>1 DEF Flow, Statements, Asking
  <1>3. cpc' \notin {"init", "open1", "ended"} /\ cpc' \in Statements \cup {"term"}
    BY <1>1 DEF Follow, Statements
  <1>4. Answer' = Answer /\ (Prompted \/ ~Asking) /\ cEpt # "unbound"
    BY <1>1, <1>2 DEF Answer, Asking, Meeting, Prompted
  <1>5. TypeOK'
    BY <1>1, <1>3 DEF TypeOK, Numbers
  <1>6. Rings'
    BY <1>1, <1>2, <1>3 DEF Rings
  <1>7. Meeting' /\ Flow'
    BY <1>1, <1>2, <1>3, <1>4 DEF Meeting, Flow, Before, Statements
  <1>8. Peaceful'
    BY <1>1, <1>2 DEF Peaceful, Statements
  <1>9. Descriptors'
    BY <1>1, <1>2, <1>3, <1>4 DEF Descriptors, Prompted, Follow, Statements
  <1>10. Written'
    BY <1>1, <1>2, <1>3, <1>4 DEF Written, Prompted, Follow, Statements
  <1>11. Bounds'
    BY <1>1, <1>2, <1>3, <1>4 DEF Bounds, Prompted, Follow, Statements
  <1> QED BY <1>5, <1>6, <1>7, <1>8, <1>9, <1>10, <1>11 DEF IInv
-----------------------------------------------------------------------------
(* The endpoint is created, or app ends at once.                           *)
LEMMA InitStep ==
  ASSUME IInv, CInit
  PROVE  IInv'
  <1>1. /\ TypeOK /\ Rings /\ Meeting /\ Flow /\ Peaceful /\ Descriptors /\ Written /\ Bounds
        /\ cpc = "init" /\ call = "none" /\ call' = "none"
        /\ \/ cpc' = "open1" /\ cEpt' = "unbound" /\ wait_resp' = TRUE
           \/ faulty /\ cpc' = "ended" /\ cEpt' = cEpt /\ wait_resp' = wait_resp
        /\ UNCHANGED <<toS, file_d, bytes_read, bytes_written, repeats>>
        /\ UNCHANGED <<pair, faulty, toC, spc, sEpt, request_termination,
                       ept_deleted, err_cnt, platform, signal, reply, file, fds>>
    BY DEF IInv, CInit, May, AppFrame, setting, serverVars, Meeting
  <1>2. toS = <<>> /\ Len(toS) = 0 /\ spc # "reply" /\ ~Answer /\ Asking /\ Asking'
    BY <1>1, Empty DEF Flow, Asking, TypeOK
  <1>3. Answer' = Answer
    BY <1>1 DEF Answer
  <1>4. TypeOK'
    <2>1. /\ cpc' \in Statements \cup {"ended"} /\ cEpt' \in {"none", "unbound", "bound"}
          /\ wait_resp' \in BOOLEAN
      BY <1>1 DEF TypeOK, Statements
    <2> QED BY <1>1, <2>1 DEF TypeOK
  <1>5. Rings'
    BY <1>1, <1>2 DEF Rings
  <1>6. Meeting' /\ Flow'
    BY <1>1, <1>2, <1>3 DEF Meeting, Flow, Before
  <1>7. Peaceful'
    BY <1>1 DEF Peaceful
  <1>8. Descriptors' /\ Written' /\ Bounds'
    BY <1>1, <1>2, <1>3 DEF Descriptors, Written, Bounds
  <1> QED BY <1>4, <1>5, <1>6, <1>7, <1>8 DEF IInv

(* The client's farewell: the rings hold nothing else of it.               *)
LEMMA TermStep ==
  ASSUME IInv, CTerm
  PROVE  IInv'
  <1>1. /\ TypeOK /\ Rings /\ Meeting /\ Flow /\ Peaceful /\ Descriptors /\ Written /\ Bounds
        /\ cpc = "term" /\ call = "none" /\ call' = "none" /\ cpc' = "ended" /\ cEpt' = "none"
        /\ UNCHANGED <<wait_resp, file_d, bytes_read, bytes_written, repeats>>
        /\ UNCHANGED <<pair, faulty, toC, spc, sEpt, request_termination,
                       ept_deleted, err_cnt, platform, signal, reply, file, fds>>
    BY DEF IInv, CTerm, AppFrame, setting, serverVars, Meeting
  <1>2. toS = <<>> /\ spc # "reply" /\ ~Answer
    BY <1>1 DEF Flow
  <1>3. Answer' = Answer
    BY <1>1 DEF Answer
  <1> DEFINE T == Request("TERM", 0)
             D == Ns("destroy")
  <1>4. T \in Message /\ D \in Message
    BY Typed
  <1>5. toS' \in {<<>>, <<T>>, <<D>>, Append(<<T>>, D)}
    BY <1>1, <1>2, <1>4, Single DEF CTerm
  <1>6. toS' \in Seq(Message) /\ \A k \in 1 .. Len(toS') : toS'[k] \in {T, D}
    <2>1. /\ <<>> \in Seq(Message) /\ <<T>> \in Seq(Message) /\ <<D>> \in Seq(Message)
          /\ Len(<<>>) = 0
      BY <1>4
    <2>2. CASE toS' = <<>>
      BY <2>1, <2>2
    <2>3. ASSUME NEW m \in {T, D}, toS' = <<m>>
          PROVE  toS' \in Seq(Message) /\ \A k \in 1 .. Len(toS') : toS'[k] \in {T, D}
      <3>1. toS' \in Seq(Message) /\ Len(toS') = 1 /\ toS'[1] = m
        BY <1>4, <2>3, Single
      <3>2. \A k \in 1 .. Len(toS') : k = 1
        BY <3>1
      <3> QED BY <3>1, <3>2
    <2>4. CASE toS' = Append(<<T>>, D)
      <3>1. /\ toS' \in Seq(Message) /\ Len(toS') = 2 /\ toS'[2] = D
            /\ toS'[1] = <<T>>[1] /\ <<T>>[1] = T
        BY <1>4, <2>1, <2>4, Put, Single
      <3> QED BY <3>1
    <2> QED BY <1>5, <2>2, <2>3, <2>4
  <1>7. TypeOK'
    BY <1>1, <1>6 DEF TypeOK
  <1>8. Rings'
    BY <1>1, <1>6 DEF Rings
  <1>9. Meeting' /\ Flow'
    BY <1>1, <1>2, <1>3 DEF Meeting, Flow, Before
  <1>10. Peaceful' /\ Descriptors' /\ Written' /\ Bounds'
    BY <1>1, <1>2, <1>3 DEF Peaceful, Descriptors, Written, Bounds
  <1> QED BY <1>7, <1>8, <1>9, <1>10 DEF IInv

(* What is left in the client's ring when its first message is taken.      *)
LEMMA TakenC ==
  ASSUME TypeOK, Rings, toC # <<>>, toC' = Tail(toC), sEpt' = sEpt
  PROVE  /\ toC' \in Seq(Message) /\ Head(toC) = toC[1] /\ toC[1] \in Message
         /\ toC[1] = Ns("create") \/ Fits(toC[1]) \/ (toC[1] = Ns("destroy") /\ ~sEpt)
         /\ \A k \in 1 .. Len(toC') : k = Len(toC') /\ toC'[k] = Ns("destroy") /\ ~sEpt'
         /\ ~Answer' /\ (toC' # <<>> => toC'[1].kind = "destroy")
  <1>1. /\ toC' \in Seq(Message) /\ Head(toC) = toC[1] /\ toC[1] \in Message
        /\ Len(toC) \in Nat /\ Len(toC) = Len(toC') + 1 /\ Len(toC') \in Nat /\ 1 \in 1 .. Len(toC)
        /\ \A k \in 1 .. Len(toC') : toC'[k] = toC[k + 1] /\ k + 1 \in 1 .. Len(toC)
        /\ toC' = <<>> <=> Len(toC') = 0
    BY Taken DEF TypeOK
  <1>2. ASSUME NEW k \in 1 .. Len(toC')
        PROVE  k = Len(toC') /\ toC'[k] = Ns("destroy") /\ ~sEpt'
    <2>1. k + 1 # 1 /\ k + 1 \in 1 .. Len(toC) /\ toC'[k] = toC[k + 1]
      BY <1>1
    <2>2. k + 1 = Len(toC) /\ toC[k + 1] = Ns("destroy") /\ ~sEpt
      BY <2>1 DEF Rings
    <2>3. k \in Int /\ Len(toC) = Len(toC') + 1 /\ Len(toC') \in Int
      BY <1>1
    <2>4. k = Len(toC')
      BY <2>2, <2>3
    <2> QED BY <2>1, <2>2, <2>4
  <1>3. toC[1] = Ns("create") \/ Fits(toC[1]) \/ (toC[1] = Ns("destroy") /\ ~sEpt)
    BY <1>1 DEF Rings
  <1>4. toC' # <<>> => toC'[1].kind = "destroy"
    <2>1. toC' # <<>> => 1 \in 1 .. Len(toC')
      BY <1>1
    <2> QED BY <1>2, <2>1, Fields
  <1>5. ~Answer'
    BY <1>4 DEF Answer
  <1> QED BY <1>1, <1>2, <1>3, <1>4, <1>5

(* The callback of a response: it answers the call that waits.             *)
LEMMA ResponseStep ==
  ASSUME IInv, CResponse
  PROVE  IInv'
  <1>1. /\ TypeOK /\ Rings /\ Meeting /\ Flow /\ Peaceful /\ Descriptors /\ Written /\ Bounds
        /\ toC # <<>> /\ Head(toC).kind = "response" /\ toC' = Tail(toC)
        /\ UNCHANGED <<toS, cpc, call, cEpt, repeats>>
        /\ UNCHANGED <<pair, faulty, spc, sEpt, request_termination,
                       ept_deleted, err_cnt, platform, signal, reply, file, fds>>
    BY DEF IInv, CResponse, setting, serverVars
  <1>2. /\ toC' \in Seq(Message) /\ Head(toC) = toC[1] /\ Fits(toC[1])
        /\ \A k \in 1 .. Len(toC') : k = Len(toC') /\ toC'[k] = Ns("destroy") /\ ~sEpt'
        /\ ~Answer' /\ (toC' # <<>> => toC'[1].kind = "destroy")
    BY <1>1, TakenC, Fields
  <1>3. Answer /\ toC[1].id = IdOf(cpc) /\ toS = <<>> /\ call = "wait" /\ wait_resp /\ spc # "reply"
        /\ cpc \notin {"init", "term", "ended"} /\ ~Asking /\ ~Asking' /\ cEpt # "unbound"
    BY <1>1, <1>2 DEF Answer, Flow, Meeting, TypeOK, Asking
  <1>4. /\ wait_resp' \in BOOLEAN /\ file_d' \in {-1, 0, 3, 4}
        /\ bytes_read' \in -1 .. 2 /\ bytes_written' \in -1 .. 1
        /\ IF IdOf(cpc) = "OPEN" /\ ~wait_resp' THEN file_d' = toC[1].val ELSE file_d' = file_d
        /\ cEpt = "none" => wait_resp'
    BY <1>1, <1>2, <1>3 DEF CResponse, rpmsg_open_cb, rpmsg_read_cb, rpmsg_write_cb,
       rpmsg_close_cb, rpmsg_input_cb, Fits, TypeOK
  <1>5. TypeOK'
    BY <1>1, <1>2, <1>4 DEF TypeOK
  <1>6. Rings'
    <2>1. toS' = <<>>
      BY <1>1, <1>3
    <2> QED BY <1>1, <1>2, <1>3, <2>1 DEF Rings
  <1>7. Meeting' /\ Flow'
    BY <1>1, <1>2, <1>3, Fields DEF Meeting, Flow, Before
  <1>8. Peaceful'
    BY <1>1 DEF Peaceful
  <1>9. (IdOf(cpc) = "OPEN") <=> cpc \in {"open1", "open2"}
    BY DEF IdOf
  <1>10. Descriptors'
    BY <1>1, <1>2, <1>3, <1>4, <1>9 DEF Descriptors
  <1>11. Written'
    BY <1>1, <1>2, <1>3, <1>4, <1>9 DEF Written
  <1>12. Bounds'
    BY <1>1, <1>3 DEF Bounds
  <1> QED BY <1>5, <1>6, <1>7, <1>8, <1>10, <1>11, <1>12 DEF IInv

(* An announcement or a farewell of the server arrives.                    *)
LEMMA NameServiceStep ==
  ASSUME IInv, CNameService
  PROVE  IInv'
  <1>1. /\ TypeOK /\ Rings /\ Meeting /\ Flow /\ Peaceful /\ Descriptors /\ Written /\ Bounds
        /\ CPolls /\ toC # <<>> /\ toC' = Tail(toC) /\ Head(toC).kind \in {"create", "destroy"}
        /\ cEpt' = IF Head(toC).kind = "create" THEN "bound" ELSE "none"
        /\ UNCHANGED <<toS, cpc, call, wait_resp, file_d, bytes_read, bytes_written, repeats>>
        /\ UNCHANGED <<pair, faulty, spc, sEpt, request_termination,
                       ept_deleted, err_cnt, platform, signal, reply, file, fds>>
    BY DEF IInv, CNameService, setting, serverVars
  <1>2. /\ toC' \in Seq(Message) /\ Head(toC) = toC[1]
        /\ toC[1] = Ns("create") \/ (toC[1] = Ns("destroy") /\ ~sEpt)
        /\ \A k \in 1 .. Len(toC') : k = Len(toC') /\ toC'[k] = Ns("destroy") /\ ~sEpt'
        /\ ~Answer' /\ (toC' # <<>> => toC'[1].kind = "destroy")
    BY <1>1, TakenC DEF Fits
  <1>3. ~Answer /\ spc \notin {"create", "found", "allocated"} /\ Asking' = Asking
    BY <1>1, <1>2 DEF Answer, Meeting, Asking
  <1>4. cpc \in Statements
    BY <1>1 DEF CPolls, Meeting, TypeOK, Statements
  <1>5. TypeOK'
    BY <1>1, <1>2 DEF TypeOK
  <1>6. IdOf(cpc)' = IdOf(cpc) /\ ArgOf(cpc)' = ArgOf(cpc)
    BY <1>1 DEF IdOf, ArgOf
  <1>7. Rings'
    BY <1>1, <1>2, <1>6 DEF Rings
  <1>8. Meeting' /\ Flow'
    BY <1>1, <1>2, <1>3, <1>6 DEF Meeting, Flow
  <1>9. Peaceful'
    BY <1>1, <1>2, <1>3, <1>4, Fields DEF Peaceful, Statements
  <1>10. Descriptors' /\ Written' /\ Bounds'
    BY <1>1, <1>2, <1>3 DEF Descriptors, Written, Bounds
  <1> QED BY <1>5, <1>7, <1>8, <1>9, <1>10 DEF IInv
-----------------------------------------------------------------------------
(* The server announces itself, or gives up.                               *)
LEMMA AnnounceStep ==
  ASSUME IInv, SCreate \/ ProxyFind \/ ProxyAlloc \/ ProxyCreate
  PROVE  IInv'
  <1>1. /\ TypeOK /\ Rings /\ Meeting /\ Flow /\ Peaceful /\ Descriptors /\ Written /\ Bounds
        /\ spc \in {"create", "found", "allocated"} /\ toC = <<>> /\ ~sEpt /\ Before
        /\ \/ spc' \in {"found", "allocated"} /\ UNCHANGED <<sEpt, toC>>
           \/ /\ spc' = "poll" \/ (spc' = "ended" /\ faulty)
              /\ sEpt' = TRUE /\ toC' = Append(toC, Ns("create"))
           \/ spc' = "ended" /\ faulty /\ UNCHANGED <<sEpt, toC>>
        /\ UNCHANGED <<toS, cpc, call, wait_resp, cEpt, file_d, bytes_read, bytes_written, repeats>>
        /\ request_termination' \in {request_termination, FALSE}
        /\ UNCHANGED <<pair, faulty, ept_deleted, err_cnt, platform, signal, reply, file, fds>>
    BY DEF IInv, SCreate, ProxyFind, ProxyAlloc, ProxyCreate, May, ServFrame, setting,
           clientVars, Meeting
  <1>2. /\ toC' = toC \/ (toC' = <<Ns("create")>> /\ sEpt' = TRUE /\ spc' \in {"poll", "ended"})
        /\ toC' \in Seq(Message)
    BY <1>1, Typed, Put DEF TypeOK
  <1>3. \A k \in 1 .. Len(toC') : k = 1 /\ toC'[k] = Ns("create")
    <2>1. CASE toC' = toC
      <3>1. Len(toC') = 0
        BY <1>1, <2>1, Empty DEF TypeOK
      <3> QED BY <3>1
    <2>2. CASE toC' = <<Ns("create")>>
      <3>1. Len(toC') = 1 /\ toC'[1] = Ns("create")
        BY <2>2, Single
      <3>2. \A k \in 1 .. Len(toC') : k = 1
        BY <3>1
      <3> QED BY <3>1, <3>2
    <2> QED BY <1>2, <2>1, <2>2
  <1>4. ~Answer /\ ~Answer' /\ Asking' = Asking
    <2>1. ~Answer'
      BY <1>1, <1>2, Single, Fields DEF Answer
    <2> QED BY <1>1, <2>1 DEF Answer, Asking
  <1>5. IdOf(cpc)' = IdOf(cpc) /\ ArgOf(cpc)' = ArgOf(cpc)
    BY <1>1 DEF IdOf, ArgOf
  <1>6. TypeOK'
    <2>1. /\ spc' \in {"found", "allocated", "poll", "ended"}
          /\ sEpt' \in BOOLEAN /\ request_termination' \in BOOLEAN
      BY <1>1 DEF TypeOK
    <2> QED BY <1>1, <1>2, <2>1 DEF TypeOK
  <1>7. Rings'
    BY <1>1, <1>3, <1>5 DEF Rings
  <1>8. Meeting' /\ Flow'
    BY <1>1, <1>2, <1>4, <1>5 DEF Meeting, Flow, Before
  <1>9. Peaceful'
    BY <1>1, <1>2 DEF Peaceful
  <1>10. Descriptors' /\ Written' /\ Bounds'
    BY <1>1, <1>4 DEF Descriptors, Written, Bounds
  <1> QED BY <1>6, <1>7, <1>8, <1>9, <1>10 DEF IInv

(* The first message of the server's ring is taken: the request of the     *)
(* running call, or part of the client's farewell.                         *)
LEMMA TakenS ==
  ASSUME TypeOK, Rings, Meeting, Flow, toS # <<>>, toS' = Tail(toS)
  PROVE  /\ toS' \in Seq(Message)
         /\ cpc # "ended" => /\ Head(toS) = Request(IdOf(cpc), ArgOf(cpc)) /\ toS' = <<>>
                             /\ cpc \in Statements /\ call = "wait" /\ wait_resp
                             /\ spc # "reply" /\ ~Answer
         /\ cpc = "ended" => /\ Head(toS) \in {Request("TERM", 0), Ns("destroy")}
                             /\ \A k \in 1 .. Len(toS') :
                                   toS'[k] \in {Request("TERM", 0), Ns("destroy")}
  <1>1. /\ toS' \in Seq(Message) /\ Head(toS) = toS[1] /\ 1 \in 1 .. Len(toS)
        /\ \A k \in 1 .. Len(toS') : toS'[k] = toS[k + 1] /\ k + 1 \in 1 .. Len(toS)
    BY Taken DEF TypeOK
  <1>2. ASSUME cpc # "ended"
        PROVE  /\ Head(toS) = Request(IdOf(cpc), ArgOf(cpc)) /\ toS' = <<>>
               /\ cpc \in Statements /\ call = "wait" /\ wait_resp
               /\ spc # "reply" /\ ~Answer
    <2>1. toS = <<Request(IdOf(cpc), ArgOf(cpc))>>
      BY <1>2 DEF Rings
    <2>2. Head(toS) = Request(IdOf(cpc), ArgOf(cpc)) /\ toS' = <<>>
      BY <2>1, Single
    <2> QED BY <1>2, <2>2 DEF Flow, Meeting, TypeOK
  <1>3. CASE cpc = "ended"
    BY <1>1, <1>3 DEF Rings
  <1> QED BY <1>1, <1>2, <1>3

(* The descriptor the operating system gives next.                         *)
LEMMA Lowest ==
  /\ fds = {} => LowestFree = 3
  /\ fds \subseteq {3} => LowestFree \in {3, 4} /\ fds \cup {LowestFree} \subseteq {3, 4}
  <1> DEFINE P(d) == d \notin fds /\ \A e \in 3 .. d - 1 : e \in fds
  <1>1. CASE fds = {}
    <2>1. P(3)
      BY <1>1
    <2>2. \A d \in 3 .. 5 : P(d) => d = 3
      <3>1. ASSUME NEW d \in 3 .. 5, d # 3 PROVE 3 \in 3 .. d - 1
        BY <3>1
      <3> QED BY <1>1, <3>1
    <2> QED BY <1>1, <2>1, <2>2 DEF LowestFree
  <1>2. CASE fds = {3}
    <2>1. P(4)
      BY <1>2
    <2>2. \A d \in 3 .. 5 : P(d) => d = 4
      <3>1. ASSUME NEW d \in 3 .. 5, d # 3, d # 4 PROVE 4 \in 3 .. d - 1
        BY <3>1
      <3> QED BY <1>2, <3>1
    <2> QED BY <1>2, <2>1, <2>2 DEF LowestFree
  <1> QED BY <1>1, <1>2
-----------------------------------------------------------------------------
(* What a handler leaves.                                                  *)
Handled ==
    /\ reply' \in Message /\ reply'.id = IdOf(cpc) /\ Fits(reply')
    /\ Descriptors' /\ Written' /\ Bounds'

(* A handler runs: its response answers the call that waits, and says what *)
(* the server has opened.                                                  *)
LEMMA HandlerStep ==
  ASSUME IInv, Polling, toS # <<>>, toS' = Tail(toS), cpc # "ended", spc' = "reply", sEpt,
         NEW m, m = Head(toS),
         \/ m.id = "OPEN"  /\ handle_open(m)
         \/ m.id = "CLOSE" /\ handle_close(m)
         \/ m.id = "READ"  /\ handle_read(m)
         \/ m.id = "WRITE" /\ handle_write(m)
         \/ m.id = "INPUT" /\ rpmsg_handle_input(m),
         UNCHANGED <<toC, sEpt, request_termination, ept_deleted, err_cnt, platform, signal>>,
         ServFrame
  PROVE  IInv'
  <1>1. /\ TypeOK /\ Rings /\ Meeting /\ Flow /\ Peaceful /\ Descriptors /\ Written /\ Bounds
        /\ UNCHANGED <<pair, faulty, cpc, call, wait_resp, cEpt, file_d, bytes_read,
                       bytes_written, repeats>>
    BY DEF IInv, ServFrame, setting, clientVars
  <1>2. /\ m = Request(IdOf(cpc), ArgOf(cpc)) /\ toS' = <<>> /\ cpc \in Statements
        /\ call = "wait" /\ wait_resp /\ spc # "reply" /\ ~Answer
    BY <1>1, TakenS
  <1>3. m.id = IdOf(cpc) /\ m.val = ArgOf(cpc)
    BY <1>2, Fields
  <1>4. ~Answer' /\ Asking /\ ~Asking'
    BY <1>2, <1>1 DEF Answer, Asking
  <1>5. IdOf(cpc)' = IdOf(cpc) /\ ArgOf(cpc)' = ArgOf(cpc)
    BY <1>1 DEF IdOf, ArgOf
  <1>6. /\ IdOf(cpc) = "OPEN" <=> cpc \in {"open1", "open2"}
        /\ IdOf(cpc) = "WRITE" <=> cpc = "write"
        /\ IdOf(cpc) = "CLOSE" <=> cpc \in {"close1", "close2"}
    BY <1>2 DEF IdOf, Statements
  <1>7. ASSUME m.id = "OPEN" /\ handle_open(m)
        PROVE  Handled
    <2>1. cpc \in {"open1", "open2"} /\ m.val = IF cpc = "open1" THEN 1 ELSE 0
      BY <1>3, <1>6, <1>7 DEF ArgOf
    <2>2. fds \subseteq {3} /\ (cpc = "open1" => fds = {}) /\ file \in -1 .. 2
          /\ (~faulty \/ pair = "linux" => fds = {})
      BY <1>1, <1>4, <2>1 DEF Bounds, Descriptors
    <2>3. CASE /\ fds' = fds \cup {LowestFree}
               /\ file' = IF file = Absent THEN 0 ELSE file
               /\ reply' = Response("OPEN", LowestFree)
      <3>1. reply'.kind = "response" /\ reply'.id = "OPEN" /\ reply'.val = LowestFree
        BY <2>3, Fields
      <3>2. /\ LowestFree \in {3, 4} /\ fds' \subseteq {3, 4}
            /\ fds = {} => fds' = {3} /\ LowestFree = 3
        BY <2>2, <2>3, Lowest
      <3>3. Fits(reply')
        BY <3>1, <3>2 DEF Fits
      <3>4. file' \in 0 .. 2 /\ (file <= 1 => file' <= 1) /\ (file >= 1 => file' >= 1)
        BY <2>2, <2>3 DEF Absent
      <3>5. Descriptors'
        BY <1>1, <1>2, <1>4, <2>1, <2>2, <3>1, <3>2 DEF Descriptors
      <3>6. Written'
        BY <1>1, <1>2, <1>4, <2>1, <2>2, <3>1, <3>2, <3>4 DEF Written
      <3>7. Bounds'
        BY <1>1, <1>4, <2>1, <2>2, <3>2, <3>4 DEF Bounds
      <3>8. reply' \in Message
        BY <2>3, <3>2, Typed
      <3> QED BY <1>3, <1>7, <3>1, <3>3, <3>5, <3>6, <3>7, <3>8 DEF Handled
    <2>4. CASE /\ (m.val = 0 /\ file = Absent) \/ May("open")
               /\ reply' = Response("OPEN", -1) /\ UNCHANGED <<file, fds>>
      <3>1. reply'.kind = "response" /\ reply'.id = "OPEN" /\ reply'.val = -1
        BY <2>4, Fields
      <3>2. Fits(reply')
        BY <3>1 DEF Fits
      <3>3. cpc = "open1" => faulty
        BY <2>1, <2>4 DEF May
      <3>4. Descriptors'
        BY <1>1, <1>2, <1>4, <2>1, <2>2, <2>4 DEF Descriptors
      <3>5. Written'
        BY <1>1, <1>4, <2>1, <2>4, <3>3 DEF Written
      <3>6. Bounds'
        BY <1>1, <1>4, <2>1, <2>2, <2>4 DEF Bounds
      <3>7. reply' \in Message
        BY <2>4, Typed
      <3> QED BY <1>3, <1>7, <3>1, <3>2, <3>4, <3>5, <3>6, <3>7 DEF Handled
    <2> QED BY <1>7, <2>3, <2>4 DEF handle_open
  <1>8. ASSUME m.id = "CLOSE" /\ handle_close(m)
        PROVE  Handled
    <2>1. cpc \in {"close1", "close2"} /\ m.val = file_d /\ file' = file /\ fds' = fds \ {file_d}
      BY <1>3, <1>6, <1>8 DEF handle_close, ArgOf
    <2>2. PICK v \in {0, -1} : reply' = Response("CLOSE", v)
      BY <1>8 DEF handle_close
    <2>3. reply'.kind = "response" /\ reply'.id = "CLOSE" /\ reply'.val = v
      BY <2>2, Fields
    <2>4. Fits(reply')
      BY <2>3 DEF Fits
    <2>5. Descriptors'
      BY <1>1, <1>2, <1>4, <2>1 DEF Descriptors
    <2>6. Written' /\ Bounds'
      BY <1>1, <1>4, <2>1 DEF Written, Bounds
    <2>7. reply' \in Message
      BY <2>2, Typed
    <2> QED BY <1>3, <1>8, <2>3, <2>4, <2>5, <2>6, <2>7 DEF Handled
  <1>9. ASSUME NEW v \in -1 .. 2, reply' = Response(m.id, v), m.id \in {"READ", "INPUT"},
               UNCHANGED <<file, fds>>
        PROVE  Handled
    <2>1. cpc \notin {"open1", "open2", "write", "close1", "close2"}
      BY <1>3, <1>6, <1>9
    <2>2. reply'.kind = "response" /\ reply'.id = m.id /\ reply'.val = v
      BY <1>9, Fields
    <2>3. Fits(reply')
      BY <1>9, <2>2 DEF Fits
    <2>4. Descriptors' /\ Written' /\ Bounds'
      BY <1>1, <1>4, <1>9, <2>1 DEF Descriptors, Written, Bounds
    <2>5. reply' \in Message
      <3>1. v \in -1 .. 5
        OBVIOUS
      <3> QED BY <1>9, <3>1, Typed
    <2> QED BY <1>3, <2>2, <2>3, <2>4, <2>5 DEF Handled
  <1>10. ASSUME m.id = "READ" /\ handle_read(m)
        PROVE  Handled
    <2>1. PICK v \in -1 .. 2 : reply' = Response("READ", v)
      BY <1>1, <1>10 DEF handle_read, TypeOK
    <2> QED BY <1>9, <1>10, <2>1 DEF handle_read
  <1>11. ASSUME m.id = "WRITE" /\ handle_write(m)
        PROVE  Handled
    <2>1. /\ cpc = "write" /\ m.val = file_d /\ UNCHANGED fds
          /\ file' = IF file_d \in fds THEN file + 1 ELSE file
      BY <1>3, <1>6, <1>11 DEF handle_write, ArgOf
    <2>2. PICK v \in {1, -1} : reply' = Response("WRITE", v)
      BY <1>11 DEF handle_write
    <2>3. reply'.kind = "response" /\ reply'.id = "WRITE" /\ reply'.val = v
      BY <2>2, Fields
    <2>4. Fits(reply')
      BY <2>3 DEF Fits
    <2>5. file \in -1 .. 1 /\ fds \subseteq {3}
      BY <1>1, <1>4, <2>1 DEF Bounds
    <2>6. file' \in -1 .. 2 /\ (file >= 0 /\ file_d \in fds => file' >= 1)
      BY <2>1, <2>5
    <2>7. Descriptors'
      BY <1>1, <1>2, <1>4, <2>1 DEF Descriptors
    <2>8. Written'
      BY <1>1, <1>4, <2>1, <2>6 DEF Written
    <2>9. Bounds'
      BY <1>1, <1>4, <2>1, <2>5, <2>6 DEF Bounds
    <2>10. reply' \in Message
      BY <2>2, Typed
    <2> QED BY <1>3, <1>11, <2>3, <2>4, <2>7, <2>8, <2>9, <2>10 DEF Handled
  <1>12. ASSUME m.id = "INPUT" /\ rpmsg_handle_input(m)
        PROVE  Handled
    <2>1. 1 \in -1 .. 2 /\ reply' = Response(m.id, 1) /\ UNCHANGED <<file, fds>>
      BY <1>12 DEF rpmsg_handle_input
    <2> QED BY <1>9, <1>12, <2>1
  <1>13. Handled
    BY <1>7, <1>8, <1>10, <1>11, <1>12
  <1>14. TypeOK'
    <2>1. toS' \in Seq(Message) /\ file' \in -1 .. 2 /\ fds' \subseteq 3 .. 4
      <3>1. <<>> \in Seq(Message) /\ {3, 4} \subseteq 3 .. 4
        OBVIOUS
      <3>2. file' \in -1 .. 2 /\ fds' \subseteq {3, 4}
        BY <1>13 DEF Bounds, Handled
      <3> QED BY <1>2, <3>1, <3>2
    <2> QED BY <1>1, <1>13, <2>1 DEF TypeOK, Handled
  <1>15. Rings'
    BY <1>1, <1>2, <1>13 DEF Rings, Handled
  <1>16. Meeting' /\ Flow'
    BY <1>1, <1>2, <1>4, <1>5, <1>13 DEF Meeting, Flow, Before, Polling, Handled
  <1>17. Peaceful'
    BY <1>1 DEF Peaceful, Polling
  <1> QED BY <1>13, <1>14, <1>15, <1>16, <1>17 DEF IInv, Handled

(* A request is dropped, or it asks the server to end.                     *)
LEMMA DropStep ==
  ASSUME IInv, Polling, toS # <<>>, toS' = Tail(toS), spc' = "handled",
         \/ Head(toS).id = "TERM" /\ request_termination' = TRUE
         \/ (~sEpt \/ faulty) /\ request_termination' = request_termination,
         Head(toS).kind = "request",
         UNCHANGED <<toC, sEpt, ept_deleted, err_cnt, platform, signal, reply, file, fds>>,
         ServFrame
  PROVE  IInv'
  <1>1. /\ TypeOK /\ Rings /\ Meeting /\ Flow /\ Peaceful /\ Descriptors /\ Written /\ Bounds
        /\ UNCHANGED <<pair, faulty, cpc, call, wait_resp, cEpt, file_d, bytes_read,
                       bytes_written, repeats>>
    BY DEF IInv, ServFrame, setting, clientVars
  <1>2. /\ toS' \in Seq(Message) /\ spc # "reply" /\ spc \notin {"create", "found", "allocated"} /\ ~Answer
        /\ cpc # "ended" => /\ Head(toS).id = IdOf(cpc) /\ toS' = <<>> /\ call = "wait" /\ wait_resp
        /\ cpc = "ended" => /\ \A k \in 1 .. Len(toS') :
                                  toS'[k] \in {Request("TERM", 0), Ns("destroy")}
                            /\ call = "none"
    BY <1>1, TakenS, Fields DEF Polling, Meeting, Flow
  <1>3. ~Answer' /\ (Asking' => Asking)
    BY <1>1, <1>2 DEF Answer, Asking
  <1>4. IdOf(cpc)' = IdOf(cpc) /\ ArgOf(cpc)' = ArgOf(cpc)
    BY <1>1 DEF IdOf, ArgOf
  <1>5. cpc # "ended" => faulty \/ (~sEpt /\ request_termination' = request_termination)
    BY <1>1, <1>2, RequestTyped
  <1>6. cpc # "ended" => faulty
    BY <1>1, <1>2, <1>5 DEF Peaceful, TypeOK
  <1>7. TypeOK'
    <2>1. request_termination' \in BOOLEAN
      BY <1>1 DEF TypeOK
    <2> QED BY <1>1, <1>2, <2>1 DEF TypeOK
  <1>8. Rings'
    BY <1>1, <1>2, <1>4 DEF Rings
  <1>9. Meeting' /\ Flow'
    BY <1>1, <1>2, <1>3, <1>4 DEF Meeting, Flow, Before
  <1>10. Peaceful' /\ Written'
    BY <1>1, <1>6 DEF Peaceful, Written
  <1>11. Descriptors'
    BY <1>1, <1>2, <1>3 DEF Descriptors
  <1>12. Bounds'
    BY <1>1, <1>3 DEF Bounds
  <1> QED BY <1>7, <1>8, <1>9, <1>10, <1>11, <1>12 DEF IInv

(* handle_rpc is one of the two.                                           *)
LEMMA RequestStep ==
  ASSUME IInv, handle_rpc
  PROVE  IInv'
  <1>1. TypeOK /\ Rings /\ Meeting /\ Flow /\ toS # <<>> /\ toS' = Tail(toS) /\ Polling
        /\ UNCHANGED <<toC, sEpt, ept_deleted, err_cnt, platform, signal>> /\ ServFrame
    BY DEF IInv, handle_rpc
  <1>2. cpc = "ended" => Head(toS) = Ns("destroy") \/ Head(toS).id = "TERM"
    BY <1>1, TakenS, Fields
  <1>3. Head(toS).kind = "request"
    BY DEF handle_rpc
  <1>4. CASE Head(toS).id # "TERM" /\ spc' = "reply"
    <2>1. cpc # "ended"
      BY <1>2, <1>3, <1>4, Fields
    <2> QED BY <1>1, <1>4, <2>1, HandlerStep DEF handle_rpc
  <1>5. CASE spc' = "handled"
    BY <1>1, <1>3, <1>5, DropStep DEF handle_rpc, May, rpmsg_handle_term
  <1> QED BY <1>4, <1>5 DEF handle_rpc
-----------------------------------------------------------------------------
(* The response is put into the empty ring, or lost.                       *)
LEMMA ReplyStep ==
  ASSUME IInv, SendResponse
  PROVE  IInv'
  <1>1. /\ TypeOK /\ Rings /\ Meeting /\ Flow /\ Peaceful /\ Descriptors /\ Written /\ Bounds
        /\ spc = "reply" /\ spc' = "handled" /\ reply' = NoMessage /\ err_cnt' \in 0 .. 1
        /\ \/ sEpt /\ toC' = Append(toC, reply) /\ err_cnt' = err_cnt
           \/ (~sEpt \/ faulty) /\ toC' = toC
        /\ UNCHANGED <<toS, cpc, call, wait_resp, cEpt, file_d, bytes_read, bytes_written, repeats>>
        /\ UNCHANGED <<pair, faulty, sEpt, request_termination, ept_deleted, platform, signal,
                       file, fds>>
    BY DEF IInv, SendResponse, May, TypeOK, ServFrame, setting, clientVars
  <1>2. /\ reply.id = IdOf(cpc) /\ Fits(reply) /\ reply \in Message /\ toS = <<>> /\ ~Answer
        /\ call = "wait" /\ wait_resp /\ cpc \notin {"init", "term", "ended"} /\ ~Asking /\ ~Asking'
        /\ ~Before
    BY <1>1 DEF Flow, Rings, Meeting, TypeOK, Asking, Before
  <1>3. sEpt => toC = <<>>
    <2>1. toC # <<>> => 1 \in 1 .. Len(toC)
      BY <1>1, Taken DEF TypeOK
    <2>2. toC # <<>> => toC[1] # Ns("create") /\ ~Fits(toC[1])
      BY <1>1, <1>2, Fields DEF Meeting, Answer, Fits
    <2> QED BY <1>1, <2>1, <2>2 DEF Rings
  <1>4. /\ toC' \in Seq(Message)
        /\ \/ toC' = toC /\ ~Answer' /\ (faulty \/ ~sEpt)
           \/ /\ toC' = <<reply>> /\ toC'[1] = reply /\ Len(toC') = 1 /\ err_cnt' = err_cnt
              /\ Answer' /\ toC'[1].kind # "create" /\ sEpt
    <2>1. CASE toC' = toC /\ (~sEpt \/ faulty)
      BY <1>1, <1>2, <2>1 DEF Answer, TypeOK
    <2>2. CASE sEpt /\ toC' = Append(toC, reply) /\ err_cnt' = err_cnt
      <3>1. toC' = <<reply>> /\ toC' \in Seq(Message)
        BY <1>1, <1>2, <1>3, <2>2, Put DEF TypeOK
      <3> QED BY <1>2, <2>2, <3>1, Single DEF Answer, Fits
    <2> QED BY <1>1, <2>1, <2>2
  <1>5. IdOf(cpc)' = IdOf(cpc) /\ ArgOf(cpc)' = ArgOf(cpc)
    BY <1>1 DEF IdOf, ArgOf
  <1>6. TypeOK'
    BY <1>1, <1>4, Typed DEF TypeOK
  <1>7. Rings'
    <2>1. CASE toC' = toC
      BY <1>1, <1>2, <1>5, <2>1 DEF Rings
    <2>2. CASE toC' = <<reply>> /\ toC'[1] = reply /\ Len(toC') = 1
      <3>1. \A k \in 1 .. Len(toC') : k = 1 /\ toC'[k] = reply
        BY <2>2
      <3> QED BY <1>1, <1>2, <1>5, <2>2, <3>1 DEF Rings
    <2> QED BY <1>4, <2>1, <2>2
  <1>8. Meeting' /\ Flow'
    BY <1>1, <1>2, <1>4, <1>5 DEF Meeting, Flow, Before
  <1>9. Peaceful'
    BY <1>1, <1>4 DEF Peaceful
  <1>10. Descriptors'
    BY <1>1, <1>2, <1>4 DEF Descriptors
  <1>11. Written'
    BY <1>1, <1>2, <1>4 DEF Written
  <1>12. Bounds'
    BY <1>1, <1>2 DEF Bounds
  <1> QED BY <1>6, <1>7, <1>8, <1>9, <1>10, <1>11, <1>12 DEF IInv

(* The end of the server's endpoint: its farewell is the last message.     *)
LEMMA Farewell ==
  ASSUME TypeOK, Rings,
         \/ UNCHANGED <<toC, sEpt>>
         \/ toC' = Withdrawn(toC) /\ sEpt' = FALSE
         \/ toC' = toC /\ sEpt' = FALSE
  PROVE  /\ toC' \in Seq(Message) /\ sEpt' \in BOOLEAN /\ (sEpt' => sEpt)
         /\ \A k \in 1 .. Len(toC') :
              \/ k = 1 /\ (toC'[k] = Ns("create") \/ Fits(toC'[k]))
              \/ k = Len(toC') /\ toC'[k] = Ns("destroy") /\ ~sEpt'
         /\ ~sEpt => toC' = toC
         /\ toC' # <<>> => \/ toC # <<>> /\ toC'[1] = toC[1]
                           \/ toC'[1] = Ns("destroy")
         /\ toC # <<>> => toC' # <<>> /\ toC'[1] = toC[1]
         /\ Answer' = Answer
  <1>1. CASE toC' = toC /\ sEpt' \in {sEpt, FALSE}
    <2>1. sEpt' \in BOOLEAN /\ (sEpt' => sEpt) /\ toC' \in Seq(Message) /\ Answer' = Answer
      <3>1. CASE toC' = toC /\ sEpt' = sEpt
        BY <3>1 DEF TypeOK, Answer
      <3>2. CASE toC' = toC /\ sEpt' = FALSE
        BY <3>2 DEF TypeOK, Answer
      <3> QED BY <1>1, <3>1, <3>2
    <2>2. \A k \in 1 .. Len(toC') :
              \/ k = 1 /\ (toC'[k] = Ns("create") \/ Fits(toC'[k]))
              \/ k = Len(toC') /\ toC'[k] = Ns("destroy") /\ ~sEpt'
      BY <1>1, <2>1 DEF Rings
    <2> QED BY <1>1, <2>1, <2>2
  <1>2. CASE sEpt /\ toC' = Append(toC, Ns("destroy")) /\ sEpt' = FALSE
    <2>1. /\ toC' \in Seq(Message) /\ toC' # <<>> /\ Len(toC) \in Nat
          /\ Len(toC') = Len(toC) + 1 /\ toC'[Len(toC) + 1] = Ns("destroy")
          /\ \A k \in 1 .. Len(toC) : toC'[k] = toC[k]
          /\ toC = <<>> => toC'[1] = Ns("destroy")
          /\ toC # <<>> => toC'[1] = toC[1]
      BY <1>2, Typed, Put DEF TypeOK
    <2>2. ASSUME NEW k \in 1 .. Len(toC')
          PROVE  \/ k = 1 /\ (toC'[k] = Ns("create") \/ Fits(toC'[k]))
                 \/ k = Len(toC') /\ toC'[k] = Ns("destroy")
      <3>1. CASE k \in 1 .. Len(toC)
        <4>1. toC'[k] = toC[k]
          BY <2>1, <3>1
        <4> QED BY <1>2, <3>1, <4>1 DEF Rings
      <3>2. CASE k = Len(toC) + 1
        BY <2>1, <3>2
      <3>3. k \in 1 .. Len(toC) \/ k = Len(toC) + 1
        BY <2>1
      <3> QED BY <3>1, <3>2, <3>3
    <2>3. Answer' = Answer
      BY <2>1, Fields DEF Answer
    <2> QED BY <1>2, <2>1, <2>2, <2>3
  <1> QED BY <1>1, <1>2 DEF Withdrawn, TypeOK

(* The server goes its way: it reads a farewell, tests its flags, ends, or *)
(* is told to by a signal.                                                 *)
Aside ==
    /\ \/ UNCHANGED <<toC, sEpt>>
       \/ toC' = Withdrawn(toC) /\ sEpt' = FALSE
       \/ toC' = toC /\ sEpt' = FALSE
    /\ UNCHANGED <<reply, file, fds>> /\ ServFrame
    /\ err_cnt' = err_cnt /\ platform' \in {"live", "released"}
    /\ signal' \in {"none", "early", "exit", "kill"}
    /\ request_termination' \in BOOLEAN /\ ept_deleted' \in BOOLEAN
    /\ \/ spc' = spc
       \/ spc # "reply" /\ spc' \in {"poll", "handled", "terminate", "ended"}
    /\ \/ toS' = toS
       \/ cpc = "ended" /\ toS' \in Seq(Message)
          /\ \A k \in 1 .. Len(toS') : toS'[k] \in {Request("TERM", 0), Ns("destroy")}
    /\ \/ faulty \/ cpc = "ended"
       \/ /\ spc \in {"poll", "handled"} /\ spc' = "poll"
          /\ UNCHANGED <<toC, sEpt, ept_deleted, request_termination, platform>>

LEMMA AsideStep ==
  ASSUME IInv, Aside
  PROVE  IInv'
  <1>1. /\ TypeOK /\ Rings /\ Meeting /\ Flow /\ Peaceful /\ Descriptors /\ Written /\ Bounds
        /\ UNCHANGED <<cpc, call, wait_resp, cEpt, file_d, bytes_read, bytes_written, repeats>>
        /\ UNCHANGED <<pair, faulty, err_cnt, reply, file, fds>>
        /\ spc' = "reply" <=> spc = "reply"
        /\ spc' \in {"create", "found", "allocated"} => spc' = spc
    BY DEF IInv, Aside, ServFrame, setting, clientVars
  <1>2. /\ toC' \in Seq(Message) /\ sEpt' \in BOOLEAN /\ (sEpt' => sEpt)
        /\ \A k \in 1 .. Len(toC') :
              \/ k = 1 /\ (toC'[k] = Ns("create") \/ Fits(toC'[k]))
              \/ k = Len(toC') /\ toC'[k] = Ns("destroy") /\ ~sEpt'
        /\ ~sEpt => toC' = toC
        /\ toC' # <<>> => \/ toC # <<>> /\ toC'[1] = toC[1]
                          \/ toC'[1] = Ns("destroy")
        /\ toC # <<>> => toC' # <<>> /\ toC'[1] = toC[1]
        /\ Answer' = Answer
    BY <1>1, Farewell DEF Aside
  <1>3. IdOf(cpc)' = IdOf(cpc) /\ ArgOf(cpc)' = ArgOf(cpc)
    BY <1>1 DEF IdOf, ArgOf
  <1>4. cpc # "ended" => toS' = toS /\ Asking' = Asking
    BY <1>1 DEF Aside, Asking
  <1>5. Answer => toC'[1] = toC[1]
    BY <1>2 DEF Answer
  <1>6. TypeOK'
    BY <1>1, <1>2 DEF TypeOK, Aside
  <1>7. Rings'
    BY <1>1, <1>2, <1>3 DEF Rings, Aside
  <1>8. Meeting'
    BY <1>1, <1>2, Fields DEF Meeting, Before
  <1>9. Flow'
    BY <1>1, <1>2, <1>3, <1>4, <1>5 DEF Flow, Meeting
  <1>10. Peaceful'
    BY <1>1 DEF Peaceful, Aside
  <1>11. Descriptors' /\ Written' /\ Bounds'
    BY <1>1, <1>2, <1>4, <1>5 DEF Descriptors, Written, Bounds
  <1> QED BY <1>6, <1>7, <1>8, <1>9, <1>10, <1>11 DEF IInv

(* The farewell of the client, the ends of the loop, the end of the server *)
(* and the signals are such steps.                                         *)
LEMMA Asides ==
  ASSUME IInv,
         \/ rpmsg_service_unbind \/ SLoop \/ STerminate \/ ProxyEnd \/ ProxyReadFails
         \/ exit_action_handler \/ kill_action_handler
  PROVE  Aside
  <1> USE DEF Aside, IInv, TypeOK
  <1>1. CASE rpmsg_service_unbind
    <2>1. cpc = "ended" /\ toS' \in Seq(Message)
          /\ \A k \in 1 .. Len(toS') : toS'[k] \in {Request("TERM", 0), Ns("destroy")}
      BY <1>1, TakenS, Fields DEF rpmsg_service_unbind
    <2> QED BY <1>1, <2>1 DEF rpmsg_service_unbind, Polling
  <1>2. CASE SLoop
    BY <1>2 DEF SLoop, Peaceful
  <1>3. CASE STerminate
    BY <1>3 DEF STerminate, terminate_rpc_app, Peaceful
  <1>4. CASE ProxyEnd
    BY <1>4 DEF ProxyEnd, Peaceful
  <1>5. CASE exit_action_handler
    BY <1>5 DEF exit_action_handler, terminate_rpc_app, CrashEarly
  <1>6. CASE kill_action_handler
    BY <1>6 DEF kill_action_handler, terminate_rpc_app, CrashEarly
  <1>7. CASE ProxyReadFails
    BY <1>7 DEF ProxyReadFails, May, Peaceful
  <1> QED BY <1>1, <1>2, <1>3, <1>4, <1>5, <1>6, <1>7
-----------------------------------------------------------------------------
(* At first nothing is under way.                                          *)
LEMMA InitIInv == Init => IInv
  <1> SUFFICES ASSUME Init PROVE IInv
    OBVIOUS
  <1>1. /\ toS = <<>> /\ toC = <<>> /\ ~Answer /\ Len(toS) = 0 /\ Len(toC) = 0
        /\ toS \in Seq(Message) /\ toC \in Seq(Message)
    BY DEF Init, Answer
  <1>2. TypeOK
    <2>1. repeats \in 0 .. MaxRepeat /\ reply \in Message
      BY Typed, RpcAssumption DEF Init
    <2>2. file \in -1 .. 2 /\ fds \subseteq 3 .. 4 /\ bytes_read \in -1 .. 2
          /\ bytes_written \in -1 .. 1 /\ file_d \in {-1, 0, 3, 4} /\ err_cnt \in 0 .. 1
      BY DEF Init, Absent
    <2> QED BY <1>1, <2>1, <2>2 DEF Init, TypeOK
  <1>3. Rings
    BY <1>1 DEF Init, Rings
  <1>4. Meeting /\ Flow /\ Peaceful
    BY <1>1 DEF Init, Meeting, Flow, Peaceful, Before
  <1>5. Descriptors /\ Written /\ Bounds
    BY <1>1 DEF Init, Descriptors, Written, Bounds, Absent
  <1> QED BY <1>2, <1>3, <1>4, <1>5 DEF IInv

(* Nothing that the invariant speaks of has changed.                       *)
LEMMA StutterStep ==
  ASSUME IInv, UNCHANGED vars
  PROVE  IInv'
  <1> USE DEF vars, setting, clientVars, serverVars
  <1>1. IdOf(cpc)' = IdOf(cpc) /\ ArgOf(cpc)' = ArgOf(cpc) /\ Answer' = Answer /\ Asking' = Asking
    BY DEF IdOf, ArgOf, Answer, Asking
  <1>2. (TypeOK /\ Rings /\ Meeting)'
    BY <1>1 DEF IInv, TypeOK, Rings, Meeting, Before
  <1>3. (Flow /\ Peaceful)'
    BY <1>1 DEF IInv, Flow, Peaceful
  <1>4. (Descriptors /\ Written /\ Bounds)'
    BY <1>1 DEF IInv, Descriptors, Written, Bounds
  <1> QED BY <1>2, <1>3, <1>4 DEF IInv

(* Every step keeps the invariant.                                         *)
LEMMA NextStep == IInv /\ [Next]_vars => IInv'
  <1> SUFFICES ASSUME IInv, [Next]_vars PROVE IInv'
    OBVIOUS
  <1>1. CASE \/ rpmsg_open \/ rpmsg_read \/ rpmsg_write \/ rpmsg_close \/ rpmsg_input
             \/ AwaitResponse \/ RetargetCall \/ RetargetReturn \/ CRepeat
    BY <1>1, CallForms, AsksStep, SkipsStep, WaitsUnsentStep, ReturnsStep DEF IInv
  <1>2. CASE CInit \/ CTerm
    BY <1>2, InitStep, TermStep
  <1>3. CASE CResponse \/ CNameService
    BY <1>3, ResponseStep, NameServiceStep
  <1>4. CASE SCreate \/ ProxyFind \/ ProxyAlloc \/ ProxyCreate
    BY <1>4, AnnounceStep
  <1>5. CASE handle_rpc \/ SendResponse
    BY <1>5, RequestStep, ReplyStep
  <1>6. CASE \/ rpmsg_service_unbind \/ SLoop \/ STerminate \/ ProxyEnd \/ ProxyReadFails
             \/ exit_action_handler \/ kill_action_handler
    BY <1>6, Asides, AsideStep
  <1>7. CASE UNCHANGED vars
    BY <1>7, StutterStep
  <1> QED BY <1>1, <1>2, <1>3, <1>4, <1>5, <1>6, <1>7 DEF Next, Client, Server, Signal, Ended
-----------------------------------------------------------------------------
(* The inductive invariant holds in every reachable state.                 *)
THEOREM Invariance == Safety => []IInv
  BY InitIInv, NextStep, PTL DEF Safety

(* The types of both programs: app never knows of a descriptor but the two *)
(* that handle_open gives, and remote.file gets one string more at most.   *)
THEOREM TypeCorrect == Safety => []TypeOK
  <1>1. IInv => TypeOK
    BY DEF IInv
  <1> QED BY <1>1, Invariance, PTL

(* Whatever is sent or lost, there is one call at a time, and wait_resp is *)
(* only ever cleared by the response to it.                                *)
THEOREM OneCall == Safety => []OneAtATime
  <1>1. ASSUME IInv, cpc # "ended"
        PROVE  /\ {toS[k].id : k \in Under(toS, "request")} \ {"TERM"}
                      \subseteq IF call = "wait" /\ wait_resp THEN {IdOf(cpc)} ELSE {}
               /\ Under(toS, "request") \subseteq {1} /\ Under(toC, "response") \subseteq {1}
               /\ toS = <<>> => Under(toS, "request") = {}
               /\ Answer <=> Under(toC, "response") # {}
    <2>1. /\ toS \in Seq(Message) /\ toC \in Seq(Message)
          /\ \A k \in 1 .. Len(toC) : k = 1 \/ toC[k].kind # "response"
          /\ toC # <<>> => 1 \in 1 .. Len(toC)
          /\ toC = <<>> => Len(toC) = 0
      BY <1>1, Taken, Fields DEF IInv, TypeOK, Rings
    <2>2. Under(toC, "response") \subseteq {1} /\ (Answer <=> Under(toC, "response") # {})
      BY <2>1 DEF Under, Answer
    <2>3. CASE toS = <<>>
      <3>1. Under(toS, "request") = {}
        BY <2>3 DEF Under
      <3> QED BY <2>2, <3>1
    <2>4. CASE toS = <<Request(IdOf(cpc), ArgOf(cpc))>>
      <3>1. Len(toS) = 1 /\ toS[1].id = IdOf(cpc) /\ toS # <<>>
        BY <2>4, Single, Fields
      <3>2. Under(toS, "request") \subseteq {1}
        <4>1. \A k \in 1 .. Len(toS) : k = 1
          BY <3>1
        <4> QED BY <4>1 DEF Under
      <3>3. call = "wait" /\ wait_resp
        BY <1>1, <3>1 DEF IInv, Flow, TypeOK
      <3> QED BY <2>2, <3>1, <3>2, <3>3
    <2> QED BY <1>1, <2>3, <2>4 DEF IInv, Rings
  <1>2. ASSUME IInv PROVE OneAtATime
    <2> SUFFICES ASSUME cpc # "ended", platform = "live" PROVE OneAtATime
      BY DEF OneAtATime
    <2> DEFINE requests  == {toS[k].id : k \in Under(toS, "request")} \ {"TERM"}
               replies   == IF reply = NoMessage THEN {} ELSE {reply.id}
               responses == {toC[k].id : k \in Under(toC, "response")}
               mine      == IF call = "wait" /\ wait_resp THEN {IdOf(cpc)} ELSE {}
    <2>1. /\ requests \subseteq mine /\ (toS = <<>> => requests = {})
          /\ Under(toS, "request") \subseteq {1} /\ Under(toC, "response") \subseteq {1}
      BY <1>1, <1>2
    <2>2. replies \subseteq mine /\ (spc # "reply" => replies = {})
      BY <1>2 DEF IInv, Rings, Flow, TypeOK
    <2>3. responses \subseteq mine /\ (~Answer => responses = {})
      <3>1. \A k \in Under(toC, "response") : k = 1 /\ Answer
        BY <1>1, <1>2
      <3> QED BY <1>2, <3>1 DEF IInv, Flow, TypeOK
    <2>4. \/ requests \cup replies = {} \/ requests \cup responses = {}
          \/ replies \cup responses = {}
      BY <1>2, <2>1, <2>2, <2>3 DEF IInv, Flow
    <2> HIDE DEF requests, replies, responses, mine
    <2>5. requests \cup replies \cup responses \subseteq mine
      BY <2>1, <2>2, <2>3
    <2>6. Under(toC, "response") \subseteq {1, 2} /\ Under(toS, "request") \subseteq {1, 2}
      BY <2>1
    <2> QED BY <2>4, <2>5, <2>6 DEF OneAtATime, requests, replies, responses, mine
  <1> QED BY <1>2, Invariance, PTL

(* A close that has returned leaves nothing open on the server, in         *)
(* linux_rpc_demo.c also when opens, sends and responses fail.             *)
THEOREM NothingLeftOpen == Safety => []ClosedBehind
  <1>1. IInv => ClosedBehind
    BY DEF IInv, Descriptors, Asking, ClosedBehind
  <1> QED BY <1>1, Invariance, PTL

(* What BothEnd says of the end, for every end there is: without a fault   *)
(* app ends with the string in remote.file and no descriptor open.         *)
THEOREM WorkDone ==
  Safety => [](~faulty /\ cpc = "ended" => file >= 1 /\ fds = {})
  <1>1. IInv => (~faulty /\ cpc = "ended" => file >= 1 /\ fds = {})
    BY DEF IInv, Descriptors, Written
  <1> QED BY <1>1, Invariance, PTL
-----------------------------------------------------------------------------
(* How far the call is, said with Answer.                                  *)
Stage ==
    IF call = "none" THEN "idle"
    ELSE IF toS # <<>> THEN "asked"
    ELSE IF spc = "reply" \/ Answer THEN "served"
    ELSE IF wait_resp THEN "lost" ELSE "answered"

LEMMA StageIs == ASSUME TypeOK, TypeOK' PROVE Phase = Stage /\ Phase' = Stage'
  <1>1. toC # <<>> => Head(toC) = toC[1]
    BY Taken DEF TypeOK
  <1>2. toC' # <<>> => Head(toC') = toC'[1]
    BY Taken DEF TypeOK
  <1>3. Phase = Stage
    BY <1>1 DEF Phase, Stage, Answer
  <1>4. Phase' = Stage'
    BY <1>2 DEF Phase, Stage, Answer
  <1> QED BY <1>3, <1>4

(* A step of app asks, returns, goes on, or waits for what it did not ask. *)
LEMMA AppRefines ==
  ASSUME IInv, IInv', Phase = Stage, Phase' = Stage', AppFrame,
         Asks \/ Skips \/ WaitsUnsent \/ Returns
  PROVE  Call!Next
  <1>1. /\ TypeOK /\ Rings /\ Flow /\ Meeting /\ cpc \in Statements
        /\ UNCHANGED <<toC, spc, file, fds>>
    BY DEF IInv, Asks, Skips, WaitsUnsent, Returns, Calling, AppFrame, serverVars
  <1>2. cpc # "ended" /\ Answer' = Answer
    BY <1>1 DEF Answer, Statements
  <1>3. CASE Asks
    <2>1. toS' # <<>> /\ call = "none" /\ call' = "wait" /\ cpc' = cpc
      BY <1>1, <1>3, RequestTyped, Put DEF Asks, Calling, TypeOK
    <2>2. Call!Ask
      BY <1>1, <2>1 DEF Stage, Call!Ask
    <2> QED BY <2>2 DEF Call!Next
  <1>4. CASE Skips
    <2>1. Call!GoOn
      BY <1>1, <1>4 DEF Skips, Calling, GoesOn, Stage, Call!GoOn
    <2> QED BY <2>1 DEF Call!Next
  <1>5. CASE WaitsUnsent
    <2>1. /\ call = "none" /\ call' = "wait" /\ cpc' = cpc /\ wait_resp' = TRUE
          /\ toS' = <<>> /\ spc' # "reply" /\ ~Answer'
      BY <1>1, <1>2, <1>5 DEF WaitsUnsent, Calling, Unsent, Flow
    <2>2. Call!Lose
      BY <1>1, <2>1 DEF Stage, Call!Lose
    <2> QED BY <2>2 DEF Call!Next
  <1>6. CASE Returns /\ Prompted
    <2>1. Call!GoOn
      BY <1>1, <1>6 DEF Returns, GoesOn, Stage, Call!GoOn
    <2> QED BY <2>1 DEF Call!Next
  <1>7. CASE Returns /\ ~Prompted
    <2>1. /\ call = "wait" /\ ~wait_resp /\ call' = "none"
          /\ toS = <<>> /\ spc # "reply" /\ ~Answer
      BY <1>1, <1>2, <1>7 DEF Returns, GoesOn, Flow
    <2>2. Call!Return
      BY <1>1, <2>1 DEF Stage, Call!Return
    <2> QED BY <2>2 DEF Call!Next
  <1> QED BY <1>3, <1>4, <1>5, <1>6, <1>7

(* The response of this call arrives, or finds no endpoint.                *)
LEMMA ResponseRefines ==
  ASSUME IInv, IInv', Phase = Stage, Phase' = Stage', CResponse
  PROVE  Call!Next
  <1>1. /\ TypeOK /\ Rings /\ Flow /\ toC # <<>> /\ toC' = Tail(toC)
        /\ Head(toC).kind = "response" /\ UNCHANGED <<toS, cpc, call, spc, sEpt, file, fds>>
    BY DEF IInv, CResponse, serverVars
  <1>2. Answer /\ ~Answer'
    BY <1>1, TakenC DEF Answer
  <1>3. call = "wait" /\ wait_resp /\ toS = <<>> /\ spc # "reply"
    BY <1>1, <1>2 DEF Flow, TypeOK
  <1>4. CASE cEpt = "none"
    <2>1. wait_resp' = wait_resp
      BY <1>4 DEF CResponse
    <2>2. Call!Lose
      BY <1>1, <1>2, <1>3, <2>1 DEF Stage, Call!Lose
    <2> QED BY <2>2 DEF Call!Next
  <1>5. CASE cEpt # "none"
    <2>1. wait_resp' = FALSE
      BY <1>5 DEF CResponse
    <2>2. Call!Answer
      BY <1>1, <1>2, <1>3, <2>1 DEF Stage, Call!Answer
    <2> QED BY <2>2 DEF Call!Next
  <1> QED BY <1>4, <1>5

(* The request is served, or dropped; that to terminate belongs to no call.*)
LEMMA RequestRefines ==
  ASSUME IInv, IInv', Phase = Stage, Phase' = Stage', handle_rpc
  PROVE  [Call!Next]_<<cpc, Phase, <<file, fds>>>>
  <1>1. /\ TypeOK /\ Rings /\ Flow /\ Meeting /\ Meeting' /\ toS # <<>> /\ toS' = Tail(toS)
        /\ UNCHANGED <<toC, cpc, call, wait_resp>>
    BY DEF IInv, handle_rpc, ServFrame, clientVars
  <1>2. Answer' = Answer
    BY <1>1 DEF Answer
  <1>3. CASE cpc = "ended"
    <2>1. Head(toS).id \notin {"OPEN", "CLOSE", "READ", "WRITE", "INPUT"}
      BY <1>1, <1>3, TakenS DEF Request, Ns
    <2>2. UNCHANGED <<file, fds>>
      BY <2>1 DEF handle_rpc, rpmsg_handle_term
    <2>3. call = "none" /\ call' = "none"
      BY <1>1, <1>3 DEF Meeting
    <2> QED BY <1>1, <2>2, <2>3 DEF Stage
  <1>4. CASE cpc # "ended"
    <2>1. /\ Head(toS) = Request(IdOf(cpc), ArgOf(cpc)) /\ toS' = <<>>
          /\ call = "wait" /\ wait_resp /\ spc # "reply" /\ ~Answer
      BY <1>1, <1>4, TakenS
    <2>2. Head(toS).id = IdOf(cpc) /\ IdOf(cpc) # "TERM"
      BY <1>1, <2>1, RequestTyped, Fields
    <2>3. CASE spc' = "reply"
      <3>1. <<file, fds>>' # <<file, fds>>
               => cpc \in {"open1", "open2", "write", "close1", "close2"}
        <4>1. <<file, fds>>' # <<file, fds>> => IdOf(cpc) \in {"OPEN", "WRITE", "CLOSE"}
          BY <2>2, <2>3 DEF handle_rpc, handle_read, rpmsg_handle_input
        <4> QED BY <4>1 DEF IdOf
      <3>2. Call!Serve
        BY <1>1, <2>1, <2>3, <3>1 DEF Stage, Call!Serve
      <3> QED BY <3>2 DEF Call!Next
    <2>4. CASE spc' # "reply"
      <3>1. UNCHANGED <<file, fds>>
        BY <2>2, <2>4 DEF handle_rpc
      <3>2. Call!Lose
        BY <1>1, <1>2, <2>1, <2>4, <3>1 DEF Stage, Call!Lose
      <3> QED BY <3>2 DEF Call!Next
    <2> QED BY <2>3, <2>4
  <1> QED BY <1>3, <1>4

(* The response is under way, which the application does not see, or lost. *)
LEMMA ReplyRefines ==
  ASSUME IInv, IInv', Phase = Stage, Phase' = Stage', SendResponse
  PROVE  [Call!Next]_<<cpc, Phase, <<file, fds>>>>
  <1>1. /\ TypeOK /\ Rings /\ Flow /\ spc = "reply" /\ spc' = "handled"
        /\ UNCHANGED <<toS, cpc, call, wait_resp, file, fds>>
    BY DEF IInv, SendResponse, ServFrame, clientVars
  <1>2. call = "wait" /\ wait_resp /\ toS = <<>>
    BY <1>1 DEF Flow, TypeOK
  <1>3. CASE Answer'
    BY <1>1, <1>2, <1>3 DEF Stage
  <1>4. CASE ~Answer'
    <2>1. Call!Lose
      BY <1>1, <1>2, <1>4 DEF Stage, Call!Lose
    <2> QED BY <2>1 DEF Call!Next
  <1> QED BY <1>3, <1>4

(* What changes neither the call nor what is under way for it is not seen. *)
LEMMA UnseenRefines ==
  ASSUME IInv, IInv', Phase = Stage, Phase' = Stage',
         UNCHANGED <<cpc, call, wait_resp, file, fds>>,
         call = "wait" => toS' = toS /\ Answer' = Answer /\ (spc' = "reply" <=> spc = "reply")
  PROVE  UNCHANGED <<cpc, Phase, <<file, fds>>>>
  <1>1. call \in {"none", "wait"}
    BY DEF IInv, TypeOK
  <1> QED BY <1>1 DEF Stage

LEMMA NextRefines ==
  ASSUME IInv, IInv', [Next]_vars
  PROVE  [Call!Next]_<<cpc, Phase, <<file, fds>>>>
  <1>1. Phase = Stage /\ Phase' = Stage'
    BY StageIs DEF IInv
  <1>2. CASE \/ rpmsg_open \/ rpmsg_read \/ rpmsg_write \/ rpmsg_close \/ rpmsg_input
             \/ AwaitResponse \/ RetargetCall \/ RetargetReturn \/ CRepeat
    BY <1>1, <1>2, CallForms, AppRefines DEF IInv
  <1>3. CASE CInit \/ CTerm
    <2>1. call = "none" /\ call' = "none" /\ UNCHANGED <<file, fds>>
      BY <1>3 DEF IInv, Meeting, CInit, CTerm, AppFrame, serverVars
    <2> QED BY <1>1, <2>1 DEF Stage, Call!GoOn, Call!Next
  <1>4. CASE CResponse
    BY <1>1, <1>4, ResponseRefines
  <1>5. CASE CNameService
    <2>1. /\ TypeOK /\ Rings /\ toC # <<>> /\ toC' = Tail(toC)
          /\ Head(toC).kind \in {"create", "destroy"}
          /\ UNCHANGED <<toS, cpc, call, wait_resp, spc, sEpt, file, fds>>
      BY <1>5 DEF IInv, CNameService, serverVars
    <2>2. Answer' = Answer
      BY <2>1, TakenC DEF Answer
    <2> QED BY <1>1, <2>1, <2>2, UnseenRefines
  <1>6. CASE SCreate \/ ProxyFind \/ ProxyAlloc \/ ProxyCreate
    <2>1. /\ spc # "reply" /\ spc' # "reply" /\ call = "none"
          /\ UNCHANGED <<cpc, call, wait_resp, file, fds>>
      BY <1>6 DEF IInv, Meeting, Before, SCreate, ProxyFind, ProxyAlloc, ProxyCreate,
             ServFrame, clientVars
    <2> QED BY <1>1, <2>1, UnseenRefines
  <1>7. CASE handle_rpc
    BY <1>1, <1>7, RequestRefines
  <1>8. CASE SendResponse
    BY <1>1, <1>8, ReplyRefines
  <1>9. CASE \/ rpmsg_service_unbind \/ SLoop \/ STerminate \/ ProxyEnd \/ ProxyReadFails
             \/ exit_action_handler \/ kill_action_handler
    <2>1. Aside
      BY <1>9, Asides
    <2>2. /\ UNCHANGED <<cpc, call, wait_resp, file, fds>> /\ (spc' = "reply" <=> spc = "reply")
          /\ call = "wait" => toS' = toS
      BY <2>1 DEF Aside, ServFrame, clientVars, IInv, Meeting
    <2>3. Answer' = Answer
      BY <2>1, Farewell DEF Aside, IInv
    <2> QED BY <1>1, <2>2, <2>3, UnseenRefines
  <1>10. CASE UNCHANGED vars
    <2>1. Answer' = Answer
      BY <1>10 DEF vars, clientVars, serverVars, Answer
    <2> QED BY <1>1, <1>10, <2>1, UnseenRefines DEF vars, clientVars, serverVars
  <1> QED
    BY <1>2, <1>3, <1>4, <1>5, <1>6, <1>7, <1>8, <1>9, <1>10
    DEF Next, Client, Server, Signal, Ended

(* At-most-once calls, for every run of the programs: what linux_rpc_demo, *)
(* rpc_demo and the proxy do on both sides, with lost endpoints, failing   *)
(* sends and signals, is what RemoteCall allows.                           *)
THEOREM AtMostOnce == Safety => ServedOnce
  <1>1. Init => Call!Init
    BY DEF Init, Call!Init, Phase
  <1>2. IInv /\ IInv' /\ [Next]_vars => [Call!Next]_<<cpc, Phase, <<file, fds>>>>
    BY NextRefines
  <1> QED BY <1>1, <1>2, Invariance, PTL DEF Safety, ServedOnce, Call!Safety

(* Without a fault no call gets lost: its request, its response in the     *)
(* making or its response is there until the response is taken.            *)
NothingLost == ~faulty => Phase # "lost"

Kept == ~faulty /\ call = "wait" /\ wait_resp => toS # <<>> \/ spc = "reply" \/ Answer

LEMMA KeptStep ==
  ASSUME IInv, IInv', Kept, [Next]_vars
  PROVE  Kept'
  <1> SUFFICES ASSUME ~faulty', call' = "wait", wait_resp'
               PROVE  toS' # <<>> \/ spc' = "reply" \/ Answer'
    BY DEF Kept
  <1>1. CASE \/ rpmsg_open \/ rpmsg_read \/ rpmsg_write \/ rpmsg_close \/ rpmsg_input
             \/ AwaitResponse \/ RetargetCall \/ RetargetReturn \/ CRepeat
    <2>1. AppFrame /\ (Asks \/ Skips \/ WaitsUnsent \/ Returns)
      BY <1>1, CallForms DEF IInv
    <2>2. cpc \in Statements /\ ~faulty
      BY <2>1 DEF Asks, Skips, WaitsUnsent, Returns, Calling, AppFrame, setting
    <2>3. ~WaitsUnsent
      BY <2>2 DEF WaitsUnsent, Unsent, Closing, IInv, Meeting, Peaceful, TypeOK, Statements
    <2>4. Asks
      BY <2>1, <2>3 DEF Skips, Returns, GoesOn
    <2> QED BY <2>4, RequestTyped, Put DEF Asks, IInv, TypeOK
  <1>2. CASE CInit \/ CTerm
    BY <1>2 DEF IInv, Meeting, CInit, CTerm
  <1>3. CASE CResponse
    <2>1. /\ ~faulty /\ TypeOK /\ Rings /\ toC # <<>> /\ Head(toC).kind = "response"
          /\ call = "wait" /\ cpc \notin {"init", "ended"}
      BY <1>3 DEF IInv, Meeting, CResponse, setting
    <2>2. cEpt # "none"
      BY <2>1 DEF IInv, Peaceful
    <2> QED BY <1>3, <2>2 DEF CResponse
  <1>4. CASE CNameService
    <2>1. /\ TypeOK /\ Rings /\ toC # <<>> /\ toC' = Tail(toC)
          /\ Head(toC).kind \in {"create", "destroy"}
          /\ UNCHANGED <<faulty, toS, call, wait_resp, spc, sEpt>>
      BY <1>4 DEF IInv, CNameService, serverVars, setting
    <2>2. Answer' = Answer
      BY <2>1, TakenC DEF Answer
    <2> QED BY <2>1, <2>2 DEF Kept
  <1>5. CASE SCreate \/ ProxyFind \/ ProxyAlloc \/ ProxyCreate
    BY <1>5 DEF IInv, Meeting, Before, SCreate, ProxyFind, ProxyAlloc, ProxyCreate,
           ServFrame, clientVars
  <1>6. CASE handle_rpc
    <2>1. /\ TypeOK /\ Rings /\ Flow /\ Meeting /\ Peaceful /\ toS # <<>> /\ toS' = Tail(toS)
          /\ Head(toS).kind = "request" /\ Polling /\ ~faulty /\ call = "wait" /\ cpc # "ended"
      BY <1>6 DEF IInv, Meeting, handle_rpc, ServFrame, clientVars, setting
    <2>2. Head(toS).id = IdOf(cpc) /\ IdOf(cpc) # "TERM"
      BY <2>1, TakenS, RequestTyped, Fields
    <2>3. sEpt /\ ~May("copy")
      BY <2>1 DEF Peaceful, Polling, May
    <2> QED BY <1>6, <2>2, <2>3 DEF handle_rpc
  <1>7. CASE SendResponse
    <2>1. /\ TypeOK /\ Rings /\ Flow /\ Meeting /\ Peaceful /\ spc = "reply" /\ ~faulty
          /\ call = "wait" /\ cpc # "ended" /\ reply \in Message /\ Fits(reply)
      BY <1>7 DEF IInv, Meeting, Rings, TypeOK, SendResponse, ServFrame, clientVars, setting
    <2>2. sEpt /\ ~May("reply")
      BY <2>1 DEF Peaceful, May
    <2>3. toC' = Append(toC, reply)
      BY <1>7, <2>2 DEF SendResponse
    <2>4. toC = <<>>
      <3>1. toC # <<>> => 1 \in 1 .. Len(toC)
        BY <2>1, Taken DEF TypeOK
      <3>2. ~Answer /\ ~Before
        BY <2>1 DEF Flow, Before, Meeting
      <3>3. toC # <<>> => toC[1] # Ns("create") /\ ~Fits(toC[1])
        BY <2>1, <3>2, Fields DEF Meeting, Answer, Fits
      <3> QED BY <2>1, <2>2, <3>1, <3>3 DEF Rings
    <2> QED BY <2>1, <2>3, <2>4, Put DEF Answer, Fits, TypeOK
  <1>8. CASE \/ rpmsg_service_unbind \/ SLoop \/ STerminate \/ ProxyEnd \/ ProxyReadFails
             \/ exit_action_handler \/ kill_action_handler
    <2>1. Aside
      BY <1>8, Asides
    <2>2. /\ UNCHANGED <<faulty, cpc, call, wait_resp>> /\ (spc' = "reply" <=> spc = "reply")
          /\ toS' = toS \/ cpc = "ended"
      BY <2>1 DEF Aside, ServFrame, clientVars, setting
    <2>3. Answer' = Answer
      BY <2>1, Farewell DEF Aside, IInv
    <2> QED BY <2>2, <2>3 DEF Kept, IInv, Meeting
  <1>9. CASE UNCHANGED vars
    BY <1>9 DEF vars, clientVars, serverVars, setting, Answer, Kept
  <1> QED
    BY <1>1, <1>2, <1>3, <1>4, <1>5, <1>6, <1>7, <1>8, <1>9
    DEF Next, Client, Server, Signal, Ended

(* Where nothing fails, the response to every call arrives if the server   *)
(* goes on: app never waits for a message that is not there.               *)
THEOREM NoLostCall == Safety => []NothingLost
  <1>1. Init => Kept
    BY DEF Init, Kept
  <1>2. IInv /\ IInv' /\ Kept /\ [Next]_vars => Kept'
    BY KeptStep
  <1>3. IInv /\ Kept => NothingLost
    <2> SUFFICES ASSUME IInv, Kept, Phase = "lost" PROVE faulty
      BY DEF NothingLost
    <2>1. toC # <<>> => Head(toC) = toC[1]
      BY Taken DEF IInv, TypeOK
    <2> QED BY <2>1 DEF Phase, Kept, Answer, IInv, TypeOK
  <1> QED BY <1>1, <1>2, <1>3, Invariance, PTL DEF Safety
=============================================================================
