--------------------------- MODULE NocopyBuffers ---------------------------
(***************************************************************************)
(* The zero-copy echo of legacy_apps: who owns which buffer, and when.     *)
(*                                                                         *)
(*   example  examples/nocopy_echo/rpmsg-nocopy-ping.c and -echo.c         *)
(*   test     tests/msg/rpmsg-nocopy-ping.c and -echo.c, which also take   *)
(*            and give back transmit buffers and keep one for good         *)
(*                                                                         *)
(* The client asks the library for a transmit buffer, writes into it and   *)
(* sends it; the server's callback holds the received buffer in a list,    *)
(* the server's application sends a copy back and releases the buffer.     *)
(* The client holds the answer in its only slot, checks and releases it.   *)
(*                                                                         *)
(* Buffers have an identity here.  A buffer is free, taken by the          *)
(* application of its sender, in the ring, or held by the application of   *)
(* its receiver.  The library (external) hands out any free buffer, and a  *)
(* buffer that is neither held nor pending in the ring is free again when  *)
(* its callback returns.  platform_poll is the one of module RpmsgEcho.    *)
(***************************************************************************)
EXTENDS Naturals, Sequences, FiniteSets

CONSTANTS
    Variants,    \* the pairs of programs to consider
    CBuf, SBuf,  \* the buffers the client and the server send with
    None,        \* the null pointer
    N,           \* messages: num_payloads
    MaxTx,       \* MAX_NB_TX_BUFF
    Every,       \* a buffer is taken and given back every 13 messages
    FaultSets    \* the sets of calls that may fail, one of them in a behaviour

FaultPoints == {"create", "size", "get", "send", "giveback", "alloc", "answer", "discard"}

ASSUME NocopyAssumption == /\ Variants \subseteq {"example", "test"}
                           /\ CBuf \cap SBuf = {}
                           /\ None \notin CBuf \cup SBuf
                           /\ N \in Nat \ {0}
                           /\ MaxTx \in Nat \ {0}
                           /\ Every \in Nat \ {0}
                           /\ FaultSets \subseteq SUBSET FaultPoints

(* The proofs assume that the server's discards do not fail: where one     *)
(* does, the head of the list stays there although it has been released.   *)
DiscardWorks == \A F \in FaultSets : "discard" \notin F

(* One buffer more than the test takes at first, when its announcement may *)
(* still be on its way in one: the code has 256 of them and takes 10.      *)
BuffersSuffice == /\ IsFiniteSet(CBuf) /\ Cardinality(CBuf) > MaxTx
                  /\ IsFiniteSet(SBuf) /\ Cardinality(SBuf) > MaxTx

VARIABLES
    variant, faults,      \* the pair of programs of this run, and what may fail in it
    place,                \* where each buffer is
    mem,                  \* what each buffer holds
    toS, toC,             \* the rings: buffers sent and not yet dispatched
    sKick, cKick,         \* latched notifications
    \* the client: application, its platform_poll, its endpoint and its globals
    cpc, cPoll, cEpt, cList, i_payload, i, rcv_msg, rnum, err_cnt,
    verified,             \* history: answers that passed rpmsg_check_rcv_msg
    \* the server
    spc, sPoll, sList, tx_msg, sI, rpmsg_list, shutdown_req

ringVars   == <<place, mem, toS, toC, sKick, cKick>>
clientVars == <<cpc, cPoll, cEpt, cList, i_payload, i, rcv_msg, rnum, err_cnt,
                verified>>
serverVars == <<spc, sPoll, sList, tx_msg, sI, rpmsg_list, shutdown_req>>
vars       == <<variant, faults, ringVars, clientVars, serverVars>>

Buffers == CBuf \cup SBuf
Places  == {"free", "taken", "ring", "held"}

(* A payload is its number; the name service has two messages of its own.  *)
NsCreate  == N
NsDestroy == N + 1
Contents  == 0 .. N + 1

Free(B) == {b \in B : place[b] = "free"}

Init ==
    /\ variant \in Variants /\ faults \in FaultSets
    /\ place = [b \in Buffers |-> "free"] /\ mem = [b \in Buffers |-> 0]
    /\ toS = <<>> /\ toC = <<>> /\ sKick \in BOOLEAN /\ cKick \in BOOLEAN
    /\ cpc = "create" /\ cPoll = "no" /\ cEpt = "none"
    /\ cList = <<>> /\ i_payload = None /\ i = 0
    /\ rcv_msg = None /\ rnum = 0 /\ err_cnt = 0
    /\ verified = {}
    /\ spc = "create" /\ sPoll = "no" /\ sList = <<>> /\ tx_msg = None
    /\ sI = (MaxTx - 1) % Every /\ rpmsg_list = <<>> /\ shutdown_req = FALSE
-----------------------------------------------------------------------------
(* The library.                                                            *)

Move(b, to)  == place' = [place EXCEPT ![b] = to]
NothingMoves == UNCHANGED <<place, mem>>
NothingSent  == UNCHANGED <<toS, sKick>>
NoAnswer     == UNCHANGED <<toC, cKick>>

(* rpmsg_send and the name service: a free buffer is filled and sent, once *)
(* there is one.                                                           *)
FillAndSend(b, what) == Move(b, "ring") /\ mem' = [mem EXCEPT ![b] = what]
SendToServer(what) ==
    \E b \in Free(CBuf) : FillAndSend(b, what) /\ toS' = Append(toS, b) /\ sKick' = TRUE
SendToClient(what) ==
    \E b \in Free(SBuf) : FillAndSend(b, what) /\ toC' = Append(toC, b) /\ cKick' = TRUE

(* rpmsg_destroy_ept: without a buffer, and a peer that would return one,  *)
(* the message is given up.                                                *)
DestroyToServer ==
    \/ SendToServer(NsDestroy)
    \/ spc = "ended" /\ Free(CBuf) = {} /\ NothingMoves /\ NothingSent
DestroyToClient ==
    \/ SendToClient(NsDestroy)
    \/ cpc = "ended" /\ Free(SBuf) = {} /\ NothingMoves /\ NoAnswer
-----------------------------------------------------------------------------
(* The client's application.                                               *)

AppAt(label)    == cPoll = "no" /\ cpc = label
Goto(label)     == cpc' = label /\ UNCHANGED cPoll
CallPoll(label) == cPoll' = "wait" /\ cpc' = label

AppFrame == UNCHANGED <<variant, faults, toC, cKick, rcv_msg, rnum, serverVars>>

(* A failure inside the loop ends it.  Only the test counts it; the buffer *)
(* in hand is not given back.                                              *)
GiveUp == Goto("finish") /\ err_cnt' = IF variant = "test" THEN err_cnt + 1 ELSE err_cnt

CCreate ==
    /\ AppAt("create")
    /\ \/ SendToServer(NsCreate) /\ cEpt' = "unbound" /\ Goto("ready")
       \/ /\ "create" \in faults /\ Goto("ended")
          /\ NothingMoves /\ NothingSent /\ UNCHANGED cEpt
    /\ UNCHANGED <<cList, i_payload, i, err_cnt, verified>> /\ AppFrame

(* Polls until the endpoint is bound, then asks for the size of a buffer.  *)
CReady ==
    /\ AppAt("ready")
    /\ \/ cEpt # "bound" /\ CallPoll("ready")
          /\ NothingMoves /\ NothingSent /\ UNCHANGED cEpt
       \/ cEpt = "bound" /\ Goto(IF variant = "test" THEN "gettx" ELSE "get")
          /\ NothingMoves /\ NothingSent /\ UNCHANGED cEpt
       \/ cEpt = "bound" /\ "size" \in faults
          /\ DestroyToServer /\ cEpt' = "none" /\ Goto("ended")
    /\ UNCHANGED <<cList, i_payload, i, err_cnt, verified>> /\ AppFrame

(* " 1 - Get some TX buffers": a null pointer is stored like the others.   *)
CGetTx ==
    /\ AppAt("gettx")
    /\ \/ \E b \in Free(CBuf) : Move(b, "taken") /\ cList' = Append(cList, b)
       \/ "get" \in faults /\ cList' = Append(cList, None) /\ UNCHANGED place
    /\ Goto(IF Len(cList) + 1 < MaxTx THEN "gettx" ELSE "givetx")
    /\ NothingSent /\ UNCHANGED <<mem, cEpt, i_payload, i, err_cnt, verified>> /\ AppFrame

(* " 2 - Release the unused Tx buffer", from the last to the second: the   *)
(* first, the "lost buffer", stays taken.  A null pointer is refused, and  *)
(* app returns without a report: see CFinish.                              *)
CGiveTx ==
    /\ AppAt("givetx")
    /\ LET last == cList[Len(cList)]
       IN \/ Len(cList) = 1 /\ Goto("get") /\ UNCHANGED <<place, cList>>
          \/ /\ Len(cList) > 1 /\ last # None
             /\ Move(last, "free")
             /\ cList' = SubSeq(cList, 1, Len(cList) - 1) /\ Goto("givetx")
          \/ /\ Len(cList) > 1 /\ (last = None \/ "giveback" \in faults)
             /\ Goto("leave") /\ UNCHANGED <<place, cList>>
    /\ NothingSent /\ UNCHANGED <<mem, cEpt, i_payload, i, err_cnt, verified>> /\ AppFrame

LostOf(list) == IF variant = "test" /\ Len(list) = 1 THEN list[1] ELSE None

(* A buffer for message i is taken and, unless it is the lost one, written.*)
CGet ==
    /\ AppAt("get")
    /\ \/ \E b \in Free(CBuf) :
             /\ Move(b, "taken") /\ i_payload' = b
             /\ IF b = LostOf(cList)
                THEN GiveUp /\ UNCHANGED mem
                ELSE mem' = [mem EXCEPT ![b] = i] /\ Goto("send") /\ UNCHANGED err_cnt
       \/ "get" \in faults /\ GiveUp /\ NothingMoves /\ UNCHANGED i_payload
    /\ NothingSent /\ UNCHANGED <<cEpt, cList, i, verified>> /\ AppFrame

(* Mutation: the answer to the last message is not waited for.             *)
SendNoWait ==
    /\ AppAt("send")
    /\ Move(i_payload, "ring") /\ toS' = Append(toS, i_payload) /\ sKick' = TRUE
    /\ IF i + 1 = N THEN Goto("finish") ELSE CallPoll("await")
    /\ UNCHANGED <<mem, err_cnt, cEpt, cList, i_payload, i, verified>> /\ AppFrame

(* rpmsg_send_nocopy; the test then takes another buffer now and again.    *)
CSend ==
    /\ AppAt("send")
    /\ \/ /\ cEpt = "bound"
          /\ Move(i_payload, "ring") /\ toS' = Append(toS, i_payload) /\ sKick' = TRUE
          /\ IF variant = "test" /\ i % Every = 0 THEN Goto("discard") ELSE CallPoll("await")
          /\ UNCHANGED err_cnt
       \/ (cEpt # "bound" \/ "send" \in faults) /\ GiveUp /\ NothingSent /\ UNCHANGED place
    /\ UNCHANGED <<mem, cEpt, cList, i_payload, i, verified>> /\ AppFrame

CDiscard ==
    /\ AppAt("discard")
    /\ \/ \E b \in Free(CBuf) :
             /\ Move(b, "taken") /\ i_payload' = b
             /\ IF b = LostOf(cList) THEN GiveUp ELSE Goto("giveback") /\ UNCHANGED err_cnt
       \/ "get" \in faults /\ GiveUp /\ UNCHANGED <<place, i_payload>>
    /\ NothingSent /\ UNCHANGED <<mem, cEpt, cList, i, verified>> /\ AppFrame

(* Mutation: the buffer is not given back.                                 *)
GiveBackNot ==
    /\ AppAt("giveback") /\ CallPoll("await")
    /\ NothingMoves /\ NothingSent
    /\ UNCHANGED <<err_cnt, cEpt, cList, i_payload, i, verified>> /\ AppFrame

CGiveBack ==
    /\ AppAt("giveback")
    /\ \/ Move(i_payload, "free") /\ CallPoll("await") /\ UNCHANGED err_cnt
       \/ "giveback" \in faults /\ GiveUp /\ UNCHANGED place
    /\ NothingSent /\ UNCHANGED <<mem, cEpt, cList, i_payload, i, verified>> /\ AppFrame

(* The test stops polling after an error too.  Where the endpoint is gone  *)
(* (ept_deleted), both leave the loop over the messages, and neither       *)
(* counts an error.                                                        *)
CAwait ==
    /\ AppAt("await")
    /\ IF rnum < i + 1 /\ (variant = "test" => err_cnt = 0) /\ cEpt # "none"
       THEN CallPoll("await")
       ELSE Goto(IF cEpt = "none" THEN "finish" ELSE "check")
    /\ NothingMoves /\ NothingSent
    /\ UNCHANGED <<cEpt, cList, i_payload, i, err_cnt, verified>> /\ AppFrame

(* rpmsg_check_rcv_msg: the number is compared, the buffer released.       *)
CCheck ==
    /\ AppAt("check")
    /\ IF mem[rcv_msg] = i
       THEN verified' = verified \cup {i} /\ UNCHANGED err_cnt
       ELSE err_cnt' = err_cnt + 1 /\ UNCHANGED verified
    /\ Move(rcv_msg, "free")
    /\ i' = i + 1 /\ Goto(IF i + 1 < N THEN "get" ELSE "finish")
    /\ NothingSent /\ UNCHANGED <<mem, cEpt, cList, i_payload>> /\ AppFrame

(* The report, and the end of the endpoint (if it is still there).  Where  *)
(* app has returned early main ends it, with the device.                   *)
CFinish ==
    /\ AppAt("finish") \/ AppAt("leave")
    /\ IF cEpt = "none" THEN NothingMoves /\ NothingSent ELSE DestroyToServer
    /\ cEpt' = "none" /\ Goto("ended")
    /\ UNCHANGED <<cList, i_payload, i, err_cnt, verified>> /\ AppFrame
-----------------------------------------------------------------------------
(* The client's platform_poll and callbacks.                               *)

CWake ==
    /\ cPoll = "wait" /\ cKick
    /\ cPoll' = "drain" /\ cKick' = FALSE
    /\ NothingMoves /\ NothingSent
    /\ UNCHANGED <<variant, faults, toC, cpc, cEpt, cList, i_payload, i, rcv_msg, rnum,
                   err_cnt, verified, serverVars>>

CDrained ==
    /\ cPoll = "drain" /\ toC = <<>>
    /\ cPoll' = "no"
    /\ UNCHANGED <<variant, faults, ringVars, cpc, cEpt, cList, i_payload, i, rcv_msg, rnum,
                   err_cnt, verified, serverVars>>

CDispatch(b) ==
    /\ cPoll = "drain" /\ toC # <<>> /\ b = Head(toC)
    /\ toC' = Tail(toC)
    /\ UNCHANGED <<variant, faults, cKick, cpc, cPoll, cList, i_payload, i, err_cnt, verified,
                   serverVars>>

(* rpmsg_endpoint_cb: the answer is held in the only slot.                 *)
CReceive(b) ==
    /\ CDispatch(b) /\ mem[b] < N
    /\ IF cEpt = "none"
       THEN Move(b, "free") /\ UNCHANGED <<rcv_msg, rnum>>
       ELSE Move(b, "held") /\ rcv_msg' = b /\ rnum' = mem[b] + 1
    /\ NothingSent /\ UNCHANGED <<mem, cEpt>>

(* A known endpoint is bound; otherwise rpmsg_name_service_bind_cb creates *)
(* a bound one.                                                            *)
CBind(b) ==
    /\ CDispatch(b) /\ mem[b] = NsCreate
    /\ Move(b, "free") /\ cEpt' = "bound"
    /\ NothingSent /\ UNCHANGED <<mem, rcv_msg, rnum>>

(* rpmsg_service_unbind: the client's endpoint is destroyed with its peer's*)
(* (and ept_deleted set) while the message is still out of its ring.       *)
CUnbind(b) ==
    /\ CDispatch(b) /\ mem[b] = NsDestroy
    /\ \/ /\ cEpt # "none"
          /\ \E c \in Free(CBuf) :
                /\ place' = [place EXCEPT ![b] = "free", ![c] = "ring"]
                /\ mem' = [mem EXCEPT ![c] = NsDestroy]
                /\ toS' = Append(toS, c) /\ sKick' = TRUE
       \/ /\ cEpt = "none" \/ (spc = "ended" /\ Free(CBuf) = {})
          /\ Move(b, "free") /\ NothingSent /\ UNCHANGED mem
    /\ cEpt' = "none" /\ UNCHANGED <<rcv_msg, rnum>>
-----------------------------------------------------------------------------
(* The server's application.                                               *)

ServAt(label)  == sPoll = "no" /\ spc = label
SGoto(label)   == spc' = label /\ UNCHANGED sPoll
SCallPoll      == sPoll' = "wait" /\ spc' = "loop"
ServFrame      == UNCHANGED <<variant, faults, toS, sKick, shutdown_req, clientVars>>

SCreate ==
    /\ ServAt("create")
    /\ \/ /\ SendToClient(NsCreate)
          /\ IF variant = "test" THEN SGoto("gettx") ELSE SCallPoll
       \/ "create" \in faults /\ SGoto("ended") /\ NothingMoves /\ NoAnswer
    /\ UNCHANGED <<sList, tx_msg, sI, rpmsg_list>> /\ ServFrame

SGetTx ==
    /\ ServAt("gettx")
    /\ \/ \E b \in Free(SBuf) : Move(b, "taken") /\ sList' = Append(sList, b)
       \/ "get" \in faults /\ sList' = Append(sList, None) /\ UNCHANGED place
    /\ SGoto(IF Len(sList) + 1 < MaxTx THEN "gettx" ELSE "givetx")
    /\ NoAnswer /\ UNCHANGED <<mem, tx_msg, sI, rpmsg_list>> /\ ServFrame

(* From the first on; the last is the lost buffer.  A failure ends app on  *)
(* the spot: see SDestroy.                                                 *)
SGiveTx ==
    /\ ServAt("givetx")
    /\ LET first == Head(sList)
       IN \/ Len(sList) = 1 /\ SCallPoll /\ UNCHANGED <<place, sList>>
          \/ /\ Len(sList) > 1 /\ first # None
             /\ Move(first, "free") /\ sList' = Tail(sList) /\ SGoto("givetx")
          \/ /\ Len(sList) > 1 /\ (first = None \/ "giveback" \in faults)
             /\ SGoto("leave") /\ UNCHANGED <<place, sList>>
    /\ NoAnswer /\ UNCHANGED <<mem, tx_msg, sI, rpmsg_list>> /\ ServFrame

(* platform_poll has returned: stop, or answer what is in the list.        *)
SLoop ==
    /\ ServAt("loop")
    /\ SGoto(IF shutdown_req THEN "destroy" ELSE "echo")
    /\ NothingMoves /\ NoAnswer /\ UNCHANGED <<sList, tx_msg, sI, rpmsg_list>> /\ ServFrame

(* The message is read from the held buffer while it is sent.  Here too a  *)
(* failure ends app.                                                       *)
SEcho ==
    /\ ServAt("echo")
    /\ \/ rpmsg_list = <<>> /\ SCallPoll /\ NothingMoves /\ NoAnswer
       \/ rpmsg_list # <<>> /\ SendToClient(mem[Head(rpmsg_list)]) /\ SGoto("release")
       \/ /\ rpmsg_list # <<>> /\ "answer" \in faults
          /\ SGoto("leave") /\ NothingMoves /\ NoAnswer
    /\ UNCHANGED <<sList, tx_msg, sI, rpmsg_list>> /\ ServFrame

(* rpmsg_release_rx_buffer of the head of the list.                        *)
SRelease ==
    /\ ServAt("release")
    /\ Move(Head(rpmsg_list), "free")
    /\ IF variant = "test" /\ sI = 0
       THEN SGoto("discard") /\ UNCHANGED rpmsg_list
       ELSE SGoto("echo") /\ rpmsg_list' = Tail(rpmsg_list)
    /\ sI' = IF variant = "test" THEN (sI + 1) % Every ELSE sI
    /\ NoAnswer /\ UNCHANGED <<mem, sList, tx_msg>> /\ ServFrame

(* The break out of the inner loop leaves the head in the list, although   *)
(* its buffer has been released.                                           *)
SDiscard ==
    /\ ServAt("discard")
    /\ \/ \E b \in Free(SBuf) :
             /\ Move(b, "taken") /\ tx_msg' = b
             /\ IF b = LostOf(sList) THEN SCallPoll ELSE SGoto("giveback")
       \/ "discard" \in faults /\ SCallPoll /\ UNCHANGED <<place, tx_msg>>
    /\ NoAnswer /\ UNCHANGED <<mem, sList, sI, rpmsg_list>> /\ ServFrame

SGiveBack ==
    /\ ServAt("giveback")
    /\ \/ Move(tx_msg, "free") /\ rpmsg_list' = Tail(rpmsg_list) /\ SGoto("echo")
       \/ "discard" \in faults /\ SCallPoll /\ UNCHANGED <<place, rpmsg_list>>
    /\ NoAnswer /\ UNCHANGED <<mem, sList, tx_msg, sI>> /\ ServFrame

(* The end of the endpoint, by app or, where it has returned early, by main*)
(* with the device.                                                        *)
SDestroy ==
    /\ ServAt("destroy") \/ ServAt("leave")
    /\ DestroyToClient /\ SGoto("ended")
    /\ UNCHANGED <<sList, tx_msg, sI, rpmsg_list>> /\ ServFrame
-----------------------------------------------------------------------------
(* The server's platform_poll and callbacks.                               *)

SWake ==
    /\ sPoll = "wait" /\ sKick
    /\ sPoll' = "drain" /\ sKick' = FALSE
    /\ NothingMoves /\ NoAnswer
    /\ UNCHANGED <<variant, faults, toS, spc, sList, tx_msg, sI, rpmsg_list, shutdown_req, clientVars>>

SDrained ==
    /\ sPoll = "drain" /\ toS = <<>>
    /\ sPoll' = "no"
    /\ UNCHANGED <<variant, faults, ringVars, spc, sList, tx_msg, sI, rpmsg_list, shutdown_req, clientVars>>

SDispatch(b) ==
    /\ sPoll = "drain" /\ toS # <<>> /\ b = Head(toS)
    /\ toS' = Tail(toS)
    /\ NoAnswer /\ UNCHANGED <<variant, faults, mem, sKick, spc, sPoll, sList, tx_msg, sI, clientVars>>

(* Mutation: the callback forgets to hold the buffer.                      *)
ReceiveNoHold(b) ==
    /\ SDispatch(b) /\ mem[b] < N
    /\ Move(b, "free") /\ rpmsg_list' = Append(rpmsg_list, b)
    /\ UNCHANGED shutdown_req

(* rpmsg_endpoint_cb: the buffer is held and appended to the list; without *)
(* memory for a node the message is dropped.                               *)
SReceive(b) ==
    /\ SDispatch(b) /\ mem[b] < N
    /\ \/ Move(b, "held") /\ rpmsg_list' = Append(rpmsg_list, b)
       \/ "alloc" \in faults /\ Move(b, "free") /\ UNCHANGED rpmsg_list
    /\ UNCHANGED shutdown_req

(* Mutation: the end of the client's endpoint goes unnoticed.              *)
UnbindIgnored(b) ==
    /\ SDispatch(b) /\ mem[b] >= N
    /\ Move(b, "free") /\ UNCHANGED <<shutdown_req, rpmsg_list>>

(* The client's endpoint is announced, or rpmsg_service_unbind called.     *)
SNameService(b) ==
    /\ SDispatch(b) /\ mem[b] >= N
    /\ shutdown_req' = (shutdown_req \/ mem[b] = NsDestroy)
    /\ Move(b, "free") /\ UNCHANGED rpmsg_list
-----------------------------------------------------------------------------
Client ==
    \/ CCreate \/ CReady \/ CGetTx \/ CGiveTx
    \/ CGet \/ CSend \/ CDiscard \/ CGiveBack \/ CAwait \/ CCheck \/ CFinish
    \/ CWake \/ CDrained
    \/ \E b \in SBuf : CReceive(b) \/ CBind(b) \/ CUnbind(b)

Server ==
    \/ SCreate \/ SGetTx \/ SGiveTx
    \/ SLoop \/ SEcho \/ SRelease \/ SDiscard \/ SGiveBack \/ SDestroy
    \/ SWake \/ SDrained
    \/ \E b \in CBuf : SReceive(b) \/ SNameService(b)

(* Both applications have returned. *)
Ended == cpc = "ended" /\ spc = "ended" /\ UNCHANGED vars

Next == Client \/ Server \/ Ended

Spec == Init /\ [][Next]_vars
-----------------------------------------------------------------------------
(* Types; the arrays of transmit buffers never overflow.                   *)
RingTypeOK ==
    /\ variant \in Variants /\ faults \in FaultSets
    /\ place \in [Buffers -> Places] /\ mem \in [Buffers -> Contents]
    /\ toS \in Seq(CBuf) /\ toC \in Seq(SBuf)
    /\ sKick \in BOOLEAN /\ cKick \in BOOLEAN

ClientTypeOK ==
    /\ cpc \in {"create", "ready", "gettx", "givetx", "get", "send", "discard",
                "giveback", "await", "check", "finish", "leave", "ended"}
    /\ cPoll \in {"no", "wait", "drain"} /\ cEpt \in {"none", "unbound", "bound"}
    /\ cList \in Seq(CBuf \cup {None}) /\ Len(cList) <= MaxTx
    /\ i_payload \in CBuf \cup {None} /\ i \in 0 .. N
    /\ rcv_msg \in SBuf \cup {None} /\ rnum \in 0 .. N
    /\ err_cnt \in 0 .. N + 1 /\ verified \subseteq 0 .. N - 1

ServerTypeOK ==
    /\ spc \in {"create", "gettx", "givetx", "loop", "echo", "release", "discard",
                "giveback", "destroy", "leave", "ended"}
    /\ sPoll \in {"no", "wait", "drain"}
    /\ sList \in Seq(SBuf \cup {None}) /\ Len(sList) <= MaxTx
    /\ tx_msg \in SBuf \cup {None} /\ sI \in 0 .. Every - 1
    /\ rpmsg_list \in Seq(CBuf) /\ shutdown_req \in BOOLEAN

TypeOK == RingTypeOK /\ ClientTypeOK /\ ServerTypeOK

Members(s) == {s[k] : k \in 1 .. Len(s)}

(* The nodes whose buffer the server has not released yet.                 *)
Unreleased == IF spc \in {"discard", "giveback"} THEN Tail(rpmsg_list) ELSE rpmsg_list

(* Received buffers: the server holds exactly the buffers in its list,     *)
(* each once; the client holds at most the one in its slot, and does hold  *)
(* it when it goes to check it.  So nothing is read or released that has   *)
(* gone back to its sender, and nothing is leaked, by either program.      *)
RxOwned ==
    /\ {b \in CBuf : place[b] = "held"} = Members(Unreleased)
    /\ \A k, l \in 1 .. Len(rpmsg_list) : k # l => rpmsg_list[k] # rpmsg_list[l]
    /\ {b \in SBuf : place[b] = "held"} \subseteq {rcv_msg}
    /\ cpc = "check" => rcv_msg \in SBuf /\ place[rcv_msg] = "held"

(* Transmit buffers: while a program waits for messages, the only one it   *)
(* keeps is the buffer the test has lost on purpose.                       *)
TxOwned ==
    /\ cpc = "await" => {b \in CBuf : place[b] = "taken"} = {LostOf(cList)} \ {None}
    /\ spc = "loop"  => {b \in SBuf : place[b] = "taken"} = {LostOf(sList)} \ {None}

(* A report without errors can be believed: every message up to the end of *)
(* the loop has come back and its number was right.  The loop has covered  *)
(* all of them unless a call has failed that nobody counts: one of the     *)
(* example's own, or one after which the server has gone before its client.*)
ReportHonest ==
    cpc = "finish" /\ err_cnt = 0 =>
        /\ verified = 0 .. i - 1
        /\ i < N => /\ faults # {}
                    /\ variant = "example" \/ (cEpt = "none" /\ spc = "ended")

(* Where no call fails the server stops last and drops no message: it      *)
(* leaves its loop with an empty list, although it does not look at the    *)
(* list when it is told to stop, and with the client gone: CUnbind is for  *)
(* a server that a failing call has ended.                                 *)
ServerStopsLast ==
    faults = {} /\ spc \in {"destroy", "ended"} => rpmsg_list = <<>> /\ cpc = "ended"

(* Who has no step where no call fails: a program that has ended, that     *)
(* sleeps without a notification or that asks for a buffer and none is     *)
(* free.                                                                   *)
ClientWaits ==
    \/ cpc = "ended"
    \/ cPoll = "wait" /\ ~cKick
    \/ cPoll = "no" /\ cpc \in {"create", "gettx", "get", "discard"} /\ Free(CBuf) = {}
    \/ cPoll = "no" /\ cpc = "finish" /\ cEpt # "none" /\ Free(CBuf) = {} /\ spc # "ended"

ServerWaits ==
    \/ spc = "ended"
    \/ sPoll = "wait" /\ ~sKick
    \/ sPoll = "no" /\ spc \in {"create", "gettx", "discard"} /\ Free(SBuf) = {}
    \/ sPoll = "no" /\ spc = "echo" /\ rpmsg_list # <<>> /\ Free(SBuf) = {}
    \/ sPoll = "no" /\ spc = "destroy" /\ Free(SBuf) = {} /\ cpc # "ended"

OneGoesOn == ClientWaits /\ ServerWaits => cpc = "ended" /\ spc = "ended"

(* Where no call fails, neither side is left waiting for a buffer or an    *)
(* answer that never comes: one of them can go on until both have ended.   *)
(* (Every step then uses up a message, a notification or a line of the     *)
(* programs, so that both end.)                                            *)
NeitherStuck ==
    faults = {} => /\ ClientWaits <=> ~ENABLED Client
                   /\ ServerWaits <=> ~ENABLED Server
                   /\ OneGoesOn
=============================================================================
