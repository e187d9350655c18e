----------------------------- MODULE RpmsgEcho -----------------------------
(***************************************************************************)
(* The echo demonstrations of legacy_apps: a client (the virtio driver)    *)
(* sends numbered messages to a server (the virtio device), which answers  *)
(* each of them, and checks the answers.                                   *)
(*                                                                         *)
(*   ping    examples/echo/rpmsg-ping.c, tests/msg/rpmsg-ping.c            *)
(*   flood   tests/msg/rpmsg-flood-ping.c                                  *)
(*           both against examples/echo/rpmsg-echo.c or, if retrying,      *)
(*           against tests/msg/rpmsg-update.c                              *)
(*   matrix  examples/matrix_multiply/matrix_multiply.c, matrix_multiplyd.c*)
(*   sample  examples/rpmsg_sample_echo/rpmsg-sample-ping.c and -echo.c    *)
(*                                                                         *)
(* The rings and the name service belong to the OpenAMP library: each      *)
(* direction is a FIFO of at most NBuf buffers; a buffer is free again     *)
(* when the callback for its message has returned.  A send notifies the    *)
(* peer; returning a buffer does not (the sender of the buffer suppresses  *)
(* that interrupt).  platform_poll blocks until a notification is latched  *)
(* and then dispatches until the ring is empty (module PlatformPoll shows  *)
(* this of the ports).                                                     *)
(***************************************************************************)
EXTENDS Naturals, Sequences

CONSTANTS
    Demos,    \* the demonstrations to consider
    N,        \* messages of a round: num_payloads, NUMS_PACKAGES, 200, MSG_LIMIT
    Rounds,   \* payload sizes the flood test goes through; the others have one round
    NBuf,     \* buffers of each direction
    Faults    \* whether sends may time out and allocations fail: {FALSE}, {TRUE} or both

ASSUME EchoAssumption == /\ Demos \subseteq {"ping", "flood", "matrix", "sample"}
                         /\ N \in Nat \ {0}
                         /\ Rounds \in Nat \ {0}
                         /\ NBuf \in Nat \ {0, 1}
                         /\ Faults \subseteq BOOLEAN

VARIABLES
    demo,                 \* the demonstration of this run
    retrying,             \* whether the server is rpmsg-update.c
    faulty,               \* whether sends and allocations may fail in this run
    toS, toC,             \* the rings, to the server and to the client
    sKick, cKick,         \* latched notifications
    \* the client: application, its platform_poll, its endpoint and its globals
    cpc, cPoll, cEpt, i, round, rnum, err_cnt, ept_deleted,
    verified,             \* history: answers accepted by the client's callback
    \* the server
    spc, sPoll, sEpt, shutdown_req, count

setting    == <<demo, retrying, faulty>>
ringVars   == <<toS, toC, sKick, cKick>>
clientVars == <<cpc, cPoll, cEpt, i, round, rnum, err_cnt, ept_deleted, verified>>
serverVars == <<spc, sPoll, sEpt, shutdown_req, count>>
vars       == <<setting, ringVars, clientVars, serverVars>>

Data(r, n) == [kind |-> "data", round |-> r, num |-> n]
Ns(what)   == [kind |-> what, round |-> 0, num |-> 0]
Message    == [kind : {"data", "create", "destroy"}, round : 0 .. Rounds - 1, num : 0 .. N - 1]

LastRound == IF demo = "flood" THEN Rounds - 1 ELSE 0

(* A notification that brings no message may be latched from the start: an *)
(* IPI of an earlier run or of the device's set-up, or the flag that       *)
(* linux_generic leaves clear.                                             *)
Init ==
    /\ demo \in Demos /\ faulty \in Faults
    /\ retrying \in IF demo \in {"ping", "flood"} THEN BOOLEAN ELSE {FALSE}
    /\ toS = <<>> /\ toC = <<>> /\ sKick \in BOOLEAN /\ cKick \in BOOLEAN
    /\ cpc = "create" /\ cPoll = "no" /\ cEpt = "none"
    /\ i = 0 /\ round = 0 /\ rnum = 0 /\ err_cnt = 0 /\ ept_deleted = FALSE
    /\ verified = {}
    /\ spc = "create" /\ sPoll = "no" /\ sEpt = "none"
    /\ shutdown_req = FALSE /\ count = 0

(* A message put into a ring and the peer notified.                        *)
PutToServer(m) == Len(toS) < NBuf /\ toS' = Append(toS, m) /\ sKick' = TRUE
PutToClient(m) == Len(toC) < NBuf /\ toC' = Append(toC, m) /\ cKick' = TRUE

(* The name service message of rpmsg_destroy_ept: if no buffer gets free   *)
(* because the peer has ended (or, with a fault, in time), the send times  *)
(* out and is ignored.                                                     *)
DestroyToServer ==
    \/ PutToServer(Ns("destroy"))
    \/ (spc = "ended" \/ faulty) /\ Len(toS) = NBuf /\ UNCHANGED <<toS, sKick>>
DestroyToClient ==
    \/ PutToClient(Ns("destroy"))
    \/ (cpc = "ended" \/ faulty) /\ Len(toC) = NBuf /\ UNCHANGED <<toC, cKick>>
-----------------------------------------------------------------------------
(* The client's application.                                               *)

AppAt(label) == cPoll = "no" /\ cpc = label
Goto(label)  == cpc' = label /\ UNCHANGED cPoll

(* platform_poll is called; the application goes on at label.              *)
CallPoll(label) == cPoll' = "wait" /\ cpc' = label

NothingSent == UNCHANGED <<toS, sKick>>
AppFrame    == UNCHANGED <<setting, toC, cKick, err_cnt, ept_deleted, verified, serverVars>>

(* rpmsg_send and rpmsg_trysend succeed only on an endpoint that is bound; *)
(* with a fault the wait for a buffer times out.                           *)
Send(m)   == cEpt = "bound" /\ PutToServer(m)
SendFails == (cEpt # "bound" \/ faulty) /\ NothingSent

(* rpmsg_create_ept announces the endpoint: no destination is known yet.   *)
(* If it fails, app returns.                                               *)
CCreate ==
    /\ AppAt("create")
    /\ \/ /\ PutToServer(Ns("create"))
          /\ cEpt' = "unbound"
          /\ Goto(IF demo = "ping" THEN "alloc" ELSE "ready")
       \/ faulty /\ Goto("ended") /\ NothingSent /\ UNCHANGED cEpt
    /\ UNCHANGED <<i, round, rnum>> /\ AppFrame

(* while (!is_rpmsg_ept_ready(&lept)) platform_poll(priv)                  *)
CReady ==
    /\ AppAt("ready")
    /\ IF cEpt = "bound"
       THEN Goto(IF demo = "flood" THEN "alloc" ELSE "send")
       ELSE CallPoll("ready")
    /\ NothingSent /\ UNCHANGED <<cEpt, i, round, rnum>> /\ AppFrame

(* The payload buffer, which ping allocates before and flood after it      *)
(* waits for the endpoint to be bound.  Without it the endpoint is         *)
(* destroyed and app returns.                                              *)
CAlloc ==
    /\ AppAt("alloc")
    /\ \/ /\ Goto(IF demo = "ping" THEN "ready" ELSE "send")
          /\ NothingSent /\ UNCHANGED cEpt
       \/ faulty /\ DestroyToServer /\ cEpt' = "none" /\ Goto("ended")
    /\ UNCHANGED <<i, round, rnum>> /\ AppFrame

(* ping: send message i, then poll at least once.                          *)
PingSend ==
    /\ demo = "ping" /\ AppAt("send")
    /\ \/ Send(Data(0, i)) /\ CallPoll("await")
       \/ SendFails /\ Goto("finish")
    /\ UNCHANGED <<cEpt, i, round, rnum>> /\ AppFrame

(* Mutation: ping goes on after its first poll, whatever it brought.       *)
PingAwaitOnce ==
    /\ demo = "ping" /\ AppAt("await")
    /\ i' = i + 1 /\ Goto(IF i + 1 < N THEN "send" ELSE "finish")
    /\ NothingSent /\ UNCHANGED <<cEpt, round, rnum>> /\ AppFrame

(* ping polls again until message i is back, an error was counted or the   *)
(* endpoint is gone; in each case it goes on with the next message.        *)
PingAwait ==
    /\ demo = "ping" /\ AppAt("await")
    /\ IF rnum < i + 1 /\ err_cnt = 0 /\ ~ept_deleted
       THEN CallPoll("await") /\ UNCHANGED i
       ELSE i' = i + 1 /\ Goto(IF i + 1 < N THEN "send" ELSE "finish")
    /\ NothingSent /\ UNCHANGED <<cEpt, round, rnum>> /\ AppFrame

(* matrix: result_returned (rnum here) is cleared, a pair of matrices sent.*)
MatrixSend ==
    /\ demo = "matrix" /\ AppAt("send")
    /\ rnum' = 0
    /\ \/ Send(Data(0, i)) /\ CallPoll("await")
       \/ SendFails /\ Goto("finish")
    /\ UNCHANGED <<cEpt, i, round>> /\ AppFrame

MatrixAwait ==
    /\ demo = "matrix" /\ AppAt("await")
    /\ IF rnum = 0 /\ err_cnt = 0 /\ ~ept_deleted
       THEN CallPoll("await") /\ UNCHANGED i
       ELSE IF err_cnt > 0
       THEN Goto("finish") /\ UNCHANGED i
       ELSE i' = i + 1 /\ Goto(IF i + 1 < N THEN "send" ELSE "finish")
    /\ NothingSent /\ UNCHANGED <<cEpt, round, rnum>> /\ AppFrame

(* sample: MSG_LIMIT messages, the last one the goodbye.                   *)
SampleSend ==
    /\ demo = "sample" /\ AppAt("send")
    /\ \/ Send(Data(0, i)) /\ CallPoll("await")
       \/ SendFails /\ Goto("finish")
    /\ UNCHANGED <<cEpt, i, round, rnum>> /\ AppFrame

(* sample does not look at ept_deleted here.                               *)
SampleAwait ==
    /\ demo = "sample" /\ AppAt("await")
    /\ IF rnum < i + 1 /\ err_cnt = 0
       THEN CallPoll("await") /\ UNCHANGED i
       ELSE i' = i + 1 /\ Goto(IF i + 1 < N THEN "send" ELSE "finish")
    /\ NothingSent /\ UNCHANGED <<cEpt, round, rnum>> /\ AppFrame

(* flood: send as long as there are buffers; without one, poll.  Nothing   *)
(* more is sent after an error.                                            *)
FloodSend ==
    /\ demo = "flood" /\ AppAt("send")
    /\ \/ /\ err_cnt = 0 /\ ~ept_deleted
          /\ Send(Data(round, i))
          /\ i' = i + 1 /\ Goto(IF i + 1 < N THEN "send" ELSE "await")
       \/ /\ err_cnt = 0 /\ ~ept_deleted
          /\ cEpt = "bound" /\ Len(toS) = NBuf
          /\ CallPoll("send") /\ NothingSent /\ UNCHANGED i
       \/ /\ SendFails \/ (err_cnt > 0 /\ NothingSent)
          /\ Goto("finish") /\ UNCHANGED i
    /\ UNCHANGED <<cEpt, round, rnum>> /\ AppFrame

(* flood waits for the last answer of this payload size; then the next.    *)
FloodAwait ==
    /\ demo = "flood" /\ AppAt("await")
    /\ IF err_cnt = 0 /\ ~ept_deleted /\ rnum < N
       THEN CallPoll("await") /\ UNCHANGED <<round, rnum, i>>
       ELSE IF err_cnt = 0 /\ ~ept_deleted /\ round < LastRound
       THEN round' = round + 1 /\ rnum' = 0 /\ i' = 0 /\ Goto("send")
       ELSE Goto("finish") /\ UNCHANGED <<round, rnum, i>>
    /\ NothingSent /\ UNCHANGED cEpt /\ AppFrame

(* The result is reported and the endpoint destroyed (rpmsg_destroy_ept of *)
(* an endpoint that is gone does nothing).                                 *)
CFinish ==
    /\ demo # "sample" /\ AppAt("finish")
    /\ IF cEpt = "none" THEN NothingSent ELSE DestroyToServer
    /\ cEpt' = "none" /\ Goto("ended")
    /\ UNCHANGED <<i, round, rnum>> /\ AppFrame

(* sample leaves it to the server: while (!ept_deleted) platform_poll.     *)
SampleFinish ==
    /\ demo = "sample" /\ AppAt("finish")
    /\ IF ept_deleted THEN Goto("ended") ELSE CallPoll("finish")
    /\ NothingSent /\ UNCHANGED <<cEpt, i, round, rnum>> /\ AppFrame
-----------------------------------------------------------------------------
(* The client's platform_poll and callbacks.                               *)

CWake ==
    /\ cPoll = "wait" /\ cKick
    /\ cPoll' = "drain" /\ cKick' = FALSE
    /\ UNCHANGED <<setting, toS, toC, sKick, cpc, cEpt, i, round, rnum, err_cnt,
                   ept_deleted, verified, serverVars>>

CDrained ==
    /\ cPoll = "drain" /\ toC = <<>>
    /\ cPoll' = "no"
    /\ UNCHANGED <<setting, ringVars, cpc, cEpt, i, round, rnum, err_cnt, ept_deleted,
                   verified, serverVars>>

Accept(m) == verified' = verified \cup {<<m.round, m.num>>} /\ UNCHANGED err_cnt
Reject    == err_cnt' = err_cnt + 1 /\ UNCHANGED verified

(* The endpoint callbacks.  ping: every payload is filled with the same    *)
(* byte; the number of the answer is recorded.                             *)
PingCb(m) == rnum' = m.num + 1 /\ Accept(m)

(* flood: compared with the buffer sent last, which holds the same byte    *)
(* whatever the number and the size.                                       *)
FloodCb(m) == rnum' = m.num + 1 /\ Accept(m)

(* matrix: the result is that of the pair sent last.                       *)
MatrixCb(m) ==
    IF m.num = i
    THEN Accept(m) /\ rnum' = IF err_cnt = 0 THEN 1 ELSE rnum
    ELSE Reject /\ UNCHANGED rnum

(* Mutation: the goodbye message is expected one message early.            *)
SampleCbEarlyBye(m) ==
    IF (m.num = N - 1) <=> (rnum + 1 = N - 1)
    THEN Accept(m) /\ rnum' = rnum + 1
    ELSE Reject /\ UNCHANGED rnum

(* sample: the MSG_LIMIT-th answer, counted by rnum, is the goodbye.       *)
SampleCb(m) ==
    IF (m.num = N - 1) <=> (rnum = N - 1)
    THEN Accept(m) /\ rnum' = rnum + 1
    ELSE Reject /\ UNCHANGED rnum

(* A message for an endpoint that is gone is dropped.                      *)
CReceive ==
    /\ cPoll = "drain" /\ toC # <<>> /\ Head(toC).kind = "data"
    /\ IF cEpt = "none"
       THEN UNCHANGED <<rnum, err_cnt, verified>>
       ELSE \/ demo = "ping"   /\ PingCb(Head(toC))
            \/ demo = "flood"  /\ FloodCb(Head(toC))
            \/ demo = "matrix" /\ MatrixCb(Head(toC))
            \/ demo = "sample" /\ SampleCb(Head(toC))
    /\ toC' = Tail(toC)
    /\ UNCHANGED <<setting, toS, sKick, cKick, cpc, cPoll, cEpt, i, round, ept_deleted,
                   serverVars>>

(* The server's endpoint is announced: a known endpoint is bound;          *)
(* otherwise rpmsg_name_service_bind_cb creates a bound one.               *)
CBind ==
    /\ cPoll = "drain" /\ toC # <<>> /\ Head(toC).kind = "create"
    /\ cEpt' = "bound"
    /\ toC' = Tail(toC)
    /\ UNCHANGED <<setting, toS, sKick, cKick, cpc, cPoll, i, round, rnum, err_cnt,
                   ept_deleted, verified, serverVars>>

(* rpmsg_service_unbind: the endpoint is destroyed, which tells the server *)
(* in turn.                                                                *)
CUnbind ==
    /\ cPoll = "drain" /\ toC # <<>> /\ Head(toC).kind = "destroy"
    /\ IF cEpt = "bound"
       THEN DestroyToServer /\ cEpt' = "none" /\ ept_deleted' = TRUE
       ELSE NothingSent /\ UNCHANGED <<cEpt, ept_deleted>>
    /\ toC' = Tail(toC)
    /\ UNCHANGED <<setting, cKick, cpc, cPoll, i, round, rnum, err_cnt, verified,
                   serverVars>>
-----------------------------------------------------------------------------
(* The server.                                                             *)

(* rpmsg_create_ept; if it fails, the application returns.                 *)
SCreate ==
    /\ sPoll = "no" /\ spc = "create"
    /\ \/ PutToClient(Ns("create")) /\ sEpt' = "unbound" /\ spc' = "loop" /\ sPoll' = "wait"
       \/ faulty /\ spc' = "ended" /\ UNCHANGED <<toC, cKick, sEpt, sPoll>>
    /\ UNCHANGED <<setting, toS, sKick, shutdown_req, count, clientVars>>

SWake ==
    /\ sPoll = "wait" /\ sKick
    /\ sPoll' = "drain" /\ sKick' = FALSE
    /\ UNCHANGED <<setting, toS, toC, cKick, spc, sEpt, shutdown_req, count, clientVars>>

SDrained ==
    /\ sPoll = "drain" /\ toS = <<>>
    /\ sPoll' = "no"
    /\ UNCHANGED <<setting, ringVars, spc, sEpt, shutdown_req, count, clientVars>>

AnswerFails == faulty /\ UNCHANGED <<toC, cKick>>

(* The endpoint callbacks.  echo: the message is sent back; a failure is   *)
(* only logged.                                                            *)
EchoCb(m) ==
    /\ PutToClient(m) \/ AnswerFails
    /\ UNCHANGED <<shutdown_req, count>>

(* rpmsg-update.c: while no buffer is free the callback sends again, so it *)
(* returns only when the answer is in the ring.  (Other errors, which it   *)
(* logs, do not occur: the endpoint is bound and the size was received.)   *)
UpdateCb(m) ==
    /\ PutToClient(m)
    /\ UNCHANGED <<shutdown_req, count>>

(* matrix: the product of the two matrices received is sent back.          *)
MatrixdCb(m) ==
    /\ PutToClient(m) \/ AnswerFails
    /\ UNCHANGED <<shutdown_req, count>>

(* Mutation: the end is asked for one message early.                       *)
SampleEchoCbEarly(m) ==
    /\ count' = count + 1
    /\ IF count + 1 > N
       THEN UNCHANGED <<toC, cKick, shutdown_req>>
       ELSE \/ PutToClient(m) /\ shutdown_req' = (shutdown_req \/ count + 2 = N)
            \/ AnswerFails /\ shutdown_req' = TRUE

(* sample: MSG_LIMIT messages are answered; after the last one, or when a  *)
(* send fails, the end is asked for.                                       *)
SampleEchoCb(m) ==
    /\ count' = count + 1
    /\ IF count + 1 > N
       THEN UNCHANGED <<toC, cKick, shutdown_req>>
       ELSE \/ PutToClient(m) /\ shutdown_req' = (shutdown_req \/ count + 1 = N)
            \/ AnswerFails /\ shutdown_req' = TRUE

(* A message is answered while its buffer is still held.  A first message  *)
(* also binds the endpoint to its sender.                                  *)
SAnswer ==
    /\ sPoll = "drain" /\ toS # <<>> /\ Head(toS).kind = "data"
    /\ \/ demo \in {"ping", "flood"} /\ ~retrying /\ EchoCb(Head(toS))
       \/ retrying /\ UpdateCb(Head(toS))
       \/ demo = "matrix" /\ MatrixdCb(Head(toS))
       \/ demo = "sample" /\ SampleEchoCb(Head(toS))
    /\ sEpt' = "bound" /\ sPoll' = "release"
    /\ UNCHANGED <<setting, toS, sKick, spc, clientVars>>

(* A name service message: the client's endpoint is bound, or              *)
(* rpmsg_service_unbind asks for the end.                                  *)
SNameService ==
    /\ sPoll = "drain" /\ toS # <<>>
    /\ \/ /\ Head(toS).kind = "create"
          /\ sEpt' = "bound" /\ UNCHANGED shutdown_req
       \/ /\ Head(toS).kind = "destroy"
          /\ sEpt' = "unbound" /\ shutdown_req' = TRUE
    /\ sPoll' = "release"
    /\ UNCHANGED <<setting, ringVars, spc, count, clientVars>>

(* The callback has returned: the buffer is free.                          *)
SRelease ==
    /\ sPoll = "release"
    /\ toS' = Tail(toS) /\ sPoll' = "drain"
    /\ UNCHANGED <<setting, toC, sKick, cKick, spc, sEpt, shutdown_req, count, clientVars>>

(* Mutation: shutdown_req is ignored.                                      *)
LoopNeverEnds ==
    /\ sPoll = "no" /\ spc = "loop"
    /\ sPoll' = "wait"
    /\ UNCHANGED <<setting, ringVars, spc, sEpt, shutdown_req, count, clientVars>>

(* while (1) { platform_poll; if (shutdown_req) break; }                   *)
SLoop ==
    /\ sPoll = "no" /\ spc = "loop"
    /\ IF shutdown_req THEN spc' = "destroy" /\ UNCHANGED sPoll
                       ELSE sPoll' = "wait" /\ UNCHANGED spc
    /\ UNCHANGED <<setting, ringVars, sEpt, shutdown_req, count, clientVars>>

SDestroy ==
    /\ spc = "destroy"
    /\ DestroyToClient
    /\ sEpt' = "none" /\ spc' = "ended"
    /\ UNCHANGED <<setting, toS, sKick, sPoll, shutdown_req, count, clientVars>>
-----------------------------------------------------------------------------
Client ==
    \/ CCreate \/ CReady \/ CAlloc
    \/ PingSend \/ PingAwait \/ MatrixSend \/ MatrixAwait
    \/ SampleSend \/ SampleAwait \/ SampleFinish
    \/ FloodSend \/ FloodAwait \/ CFinish
    \/ CWake \/ CDrained \/ CReceive \/ CBind \/ CUnbind

Server ==
    \/ SCreate \/ SWake \/ SDrained
    \/ SAnswer \/ SNameService \/ SRelease \/ SLoop \/ SDestroy

(* Both applications have returned. *)
Ended == cpc = "ended" /\ spc = "ended" /\ UNCHANGED vars

Next == Client \/ Server \/ Ended

Safety == Init /\ [][Next]_vars

(* The two sides run on cores (or in processes) of their own.              *)
Spec == Safety /\ WF_vars(Client) /\ WF_vars(Server)
-----------------------------------------------------------------------------
(* Types; a ring never holds more than its buffers.                        *)
RingTypes ==
    /\ toS \in Seq(Message) /\ Len(toS) <= NBuf
    /\ toC \in Seq(Message) /\ Len(toC) <= NBuf
    /\ sKick \in BOOLEAN /\ cKick \in BOOLEAN

ClientTypes ==
    /\ cpc \in {"create", "alloc", "ready", "send", "await", "finish", "ended"}
    /\ cPoll \in {"no", "wait", "drain"}
    /\ cEpt \in {"none", "unbound", "bound"}
    /\ i \in 0 .. N /\ round \in 0 .. LastRound /\ rnum \in 0 .. N
    /\ err_cnt \in 0 .. N * Rounds /\ ept_deleted \in BOOLEAN
    /\ verified \subseteq (0 .. Rounds - 1) \X (0 .. N - 1)

ServerTypes ==
    /\ spc \in {"create", "loop", "destroy", "ended"}
    /\ sPoll \in {"no", "wait", "drain", "release"}
    /\ sEpt \in {"none", "unbound", "bound"}
    /\ shutdown_req \in BOOLEAN /\ count \in 0 .. N

TypeOK ==
    /\ demo \in Demos /\ retrying \in BOOLEAN /\ faulty \in Faults
    /\ RingTypes /\ ClientTypes /\ ServerTypes

(* The client's report can be believed: if its loop ran to the end without *)
(* an error (and without the warning that the endpoint was destroyed),     *)
(* then the answer to every message it sent has come back and was checked. *)
ReportHonest ==
    /\ cpc = "ended" /\ i = N /\ round = LastRound /\ err_cnt = 0
    /\ demo # "sample" => ~ept_deleted
    => verified = (0 .. LastRound) \X (0 .. N - 1)

(* So it is when nothing fails and, when sends, allocations and answers    *)
(* do, for the three tests that wait for each answer before they send the  *)
(* next message, and for the flood test if the server retries.             *)
LockstepHonest == (faulty /\ demo = "flood" /\ ~retrying) \/ ReportHonest

(* No false alarm: answers are never attributed to the wrong message,      *)
(* round or position, so the checks of the callbacks only fire for data    *)
(* that was damaged.                                                       *)
NoFalseAlarm == err_cnt = 0

(* The server stays until the client needs it no more: once it has left    *)
(* its loop, the client waits for no further answer.                       *)
ServerOutlivesWork ==
    ~faulty /\ spc \in {"destroy", "ended"} /\ cpc \in {"send", "await"} =>
        /\ demo = "sample" /\ cpc = "await" /\ i = N - 1
        /\ rnum = N \/ \E k \in 1 .. Len(toC) : toC[k] = Data(0, N - 1)

(* Both sides end: no answer, buffer or notification is missing, although  *)
(* the flood test fills the ring and returned buffers notify nobody.       *)
BothEnd == ~faulty => <>(cpc = "ended" /\ spc = "ended")
=============================================================================
