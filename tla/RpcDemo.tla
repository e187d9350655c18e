------------------------------ MODULE RpcDemo ------------------------------
(***************************************************************************)
(* Remote procedure calls: a program on one processor opens, writes, reads *)
(* and closes a file, and reads its user's input, on the other.            *)
(*                                                                         *)
(*   linux  examples/linux_rpc_demo: linux_rpc_demo.c and linux_rpc_demod.c*)
(*   rpc    examples/rpc_demo: rpc_demo.c and rpc_demod.c                  *)
(*   proxy  rpc_demo.c and linux/rpmsg-proxy-app/proxy_app.c               *)
(*                                                                         *)
(* linux_rpc_demo.c brings its own calls, which wait for a callback to     *)
(* clear the flag wait_resp; rpc_demo.c uses the C library retargeted by   *)
(* OpenAMP (external), which does the same inside rpmsg_rpc_send.  printf  *)
(* is left out; scanf of rpc_demo.c is a read of descriptor 0.             *)
(*                                                                         *)
(* There is one call at a time, so buffers do not run out, and a poll that *)
(* brings nothing changes nothing: platform_poll is the dispatch of one    *)
(* message after the other.                                                *)
(***************************************************************************)
EXTENDS Integers, Sequences

CONSTANTS
    Pairs,      \* the client and server programs to consider
    MaxRepeat,  \* bound: how often the user starts again
    Faults,     \* the operations that may fail
    Signals     \* the signals the server may get: "exit" (SIGTERM, SIGINT),
                \* "kill" (SIGHUP)

FaultPoints == {"init", "send", "create", "shbuf", "copy", "open", "reply", "read"}

ASSUME RpcAssumption == /\ Pairs \subseteq {"linux", "rpc", "proxy"}
                        /\ MaxRepeat \in Nat
                        /\ Faults \subseteq FaultPoints
                        /\ Signals \subseteq {"exit", "kill"}

VARIABLES
    pair,                     \* the programs of this run
    faulty,                   \* whether faults and signals happen in this run
    toS, toC,                 \* messages under way
    \* the client: the statement of app, the state of its call, its globals
    cpc, call, wait_resp, cEpt, file_d, bytes_read, bytes_written, repeats,
    \* the server
    spc, sEpt, request_termination, ept_deleted, err_cnt, platform, signal,
    reply,                    \* the response of the handler that is running
    \* the server's operating system
    file,                     \* what remote.file holds: how often the string
    fds                       \* descriptors the server has opened

clientVars == <<cpc, call, wait_resp, cEpt, file_d, bytes_read, bytes_written, repeats>>
serverVars == <<spc, sEpt, request_termination, ept_deleted, err_cnt, platform, signal,
                reply, file, fds>>
setting    == <<pair, faulty>>
vars       == <<setting, toS, toC, clientVars, serverVars>>

Request(id, arg)  == [kind |-> "request", id |-> id, val |-> arg]
Response(id, val) == [kind |-> "response", id |-> id, val |-> val]
Ns(what)          == [kind |-> what, id |-> "NONE", val |-> 0]
NoMessage         == Ns("none")

Absent == -1    \* remote.file does not exist yet

Init ==
    /\ pair \in Pairs /\ faulty \in BOOLEAN
    /\ toS = <<>> /\ toC = <<>>
    /\ cpc = "init" /\ call = "none" /\ wait_resp = FALSE /\ cEpt = "none"
    /\ file_d = 0 /\ bytes_read = 0 /\ bytes_written = 0 /\ repeats = 0
    /\ spc = "create" /\ sEpt = FALSE /\ request_termination = FALSE
    /\ ept_deleted = FALSE /\ err_cnt = 0 /\ platform = "live" /\ signal = "none"
    /\ reply = NoMessage
    /\ file \in {Absent, 1} /\ fds = {}
-----------------------------------------------------------------------------
(* The client's application: its statements in order, and what each calls. *)

Statements == {"open1", "write", "close1", "open2", "read", "close2",
               "name", "age", "pi", "again", "repeat"}

IdOf(s) ==
    CASE s \in {"open1", "open2"}   -> "OPEN"
      [] s = "write"                -> "WRITE"
      [] s = "read"                 -> "READ"
      [] s \in {"close1", "close2"} -> "CLOSE"
      [] OTHER -> IF pair = "linux" THEN "INPUT" ELSE "READ"

(* A call's argument: the descriptor (0 is the terminal), or, for open,    *)
(* whether the flags say REDEF_O_CREAT (1) or REDEF_O_RDONLY (0).          *)
ArgOf(s) ==
    CASE s \in {"write", "read", "close1", "close2"} -> file_d
      [] s = "open1" -> 1
      [] OTHER -> 0

(* app goes on when a call has returned.  ret says whether the input was   *)
(* usable.                                                                 *)
After(s, ret) ==
    CASE s = "open1"  -> "write"
      [] s = "write"  -> "close1"
      [] s = "close1" -> "open2"
      [] s = "open2"  -> "read"
      [] s = "read"   -> "close2"
      [] s = "close2" -> "name"
      [] s = "name"   -> IF ret THEN "age" ELSE "again"
      [] s = "age"    -> IF ret THEN "pi" ELSE "again"
      [] s = "pi"     -> IF ret THEN "repeat" ELSE "again"
      [] s = "again"  -> "name"

May(fault) == faulty /\ fault \in Faults

AppFrame == UNCHANGED <<setting, toC, serverVars>>

Send(m)   == cEpt = "bound" /\ toS' = Append(toS, m)
SendFails == (cEpt # "bound" \/ May("send")) /\ UNCHANGED toS

(* The endpoint is created; the retargeted calls wait for it to be bound.  *)
CInit ==
    /\ cpc = "init"
    /\ \/ cpc' = "open1" /\ cEpt' = "unbound" /\ wait_resp' = TRUE
       \/ May("init") /\ cpc' = "ended" /\ UNCHANGED <<cEpt, wait_resp>>
    /\ UNCHANGED <<toS, call, file_d, bytes_read, bytes_written, repeats>> /\ AppFrame

Calls(S) == pair = "linux" /\ cpc \in S /\ call = "none" /\ wait_resp' = TRUE

(* The user's answer, or the value of a number, decides how app goes on.   *)
(* The linux client takes every input; that of rpc_demo may not be a       *)
(* number.                                                                 *)
Usable ==
    IF pair = "linux" THEN {bytes_read' # 0}
    ELSE IF cpc \in {"age", "pi"} /\ repeats < MaxRepeat THEN BOOLEAN ELSE {TRUE}

Return ==
    /\ call' = "none"
    /\ \E ret \in Usable :
          /\ cpc' = After(cpc, ret)
          /\ repeats' = IF pair # "linux" /\ ~ret THEN repeats + 1 ELSE repeats

(* Sends until it succeeds, polling in between.                            *)
rpmsg_open ==
    /\ Calls({"open1", "open2"})
    /\ Send(Request("OPEN", ArgOf(cpc))) /\ call' = "wait"
    /\ UNCHANGED <<cpc, cEpt, file_d, bytes_read, bytes_written, repeats>> /\ AppFrame

(* Mutation: does not wait for the response.                               *)
ReadNoWait ==
    /\ Calls({"read"}) /\ bytes_read' = 0
    /\ Send(Request("READ", file_d)) /\ Return
    /\ UNCHANGED <<cEpt, file_d, bytes_written>> /\ AppFrame

rpmsg_read ==
    /\ Calls({"read"}) /\ bytes_read' = 0
    /\ \/ Send(Request("READ", file_d)) /\ call' = "wait" /\ UNCHANGED <<cpc, repeats>>
       \/ SendFails /\ Return
    /\ UNCHANGED <<cEpt, file_d, bytes_written>> /\ AppFrame

rpmsg_write ==
    /\ Calls({"write"}) /\ bytes_written' = 0
    /\ \/ Send(Request("WRITE", file_d)) /\ call' = "wait" /\ UNCHANGED <<cpc, repeats>>
       \/ SendFails /\ UNCHANGED bytes_read /\ Return
    /\ UNCHANGED <<cEpt, file_d, bytes_read>> /\ AppFrame

(* Mutation: gives up when the request could not be sent.                  *)
CloseGivesUp ==
    /\ Calls({"close1", "close2"})
    /\ \/ Send(Request("CLOSE", file_d)) /\ call' = "wait" /\ UNCHANGED <<cpc, repeats>>
       \/ SendFails /\ UNCHANGED bytes_read /\ Return
    /\ UNCHANGED <<cEpt, file_d, bytes_read, bytes_written>> /\ AppFrame

(* Waits even when the request could not be sent.                          *)
rpmsg_close ==
    /\ Calls({"close1", "close2"})
    /\ Send(Request("CLOSE", file_d)) \/ SendFails
    /\ call' = "wait"
    /\ UNCHANGED <<cpc, cEpt, file_d, bytes_read, bytes_written, repeats>> /\ AppFrame

rpmsg_input ==
    /\ Calls({"name", "age", "pi", "again"}) /\ bytes_read' = 0
    /\ \/ Send(Request("INPUT", 0)) /\ call' = "wait" /\ UNCHANGED <<cpc, repeats>>
       \/ SendFails /\ Return
    /\ UNCHANGED <<cEpt, file_d, bytes_written>> /\ AppFrame

(* while (atomic_flag_test_and_set(&wait_resp)) poll: the flag is set      *)
(* again when the loop ends.                                               *)
AwaitResponse ==
    /\ pair = "linux" /\ call = "wait" /\ ~wait_resp
    /\ wait_resp' = TRUE
    /\ UNCHANGED bytes_read /\ Return
    /\ UNCHANGED <<toS, cEpt, file_d, bytes_written>> /\ AppFrame

(* open, read, write, close and scanf of rpc_demo.c, through the library:  *)
(* rpmsg_rpc_init has waited for the endpoint; a failure returns at once.  *)
RetargetCall ==
    /\ pair # "linux" /\ cpc \in Statements /\ call = "none" /\ cEpt # "unbound"
    /\ wait_resp' = TRUE
    /\ \/ Send(Request(IdOf(cpc), ArgOf(cpc))) /\ call' = "wait" /\ UNCHANGED <<cpc, file_d>>
       \/ /\ SendFails /\ call' = "none"
          /\ cpc' = IF cpc = "repeat" THEN "name" ELSE After(cpc, TRUE)
          /\ file_d' = IF IdOf(cpc) = "OPEN" THEN -1 ELSE file_d
    /\ UNCHANGED <<cEpt, bytes_read, bytes_written, repeats>> /\ AppFrame

RetargetReturn ==
    /\ pair # "linux" /\ cpc \in Statements \ {"repeat"} /\ call = "wait" /\ ~wait_resp
    /\ wait_resp' = TRUE
    /\ Return
    /\ UNCHANGED <<toS, cEpt, file_d, bytes_read, bytes_written>> /\ AppFrame

(* "Repeat demo ?": the linux client reads its own terminal, that of       *)
(* rpc_demo.c the server's.                                                *)
CRepeat ==
    /\ cpc = "repeat"
    /\ IF pair = "linux" THEN call = "none" ELSE call = "wait" /\ ~wait_resp
    /\ call' = "none" /\ wait_resp' = TRUE
    /\ \/ cpc' = "term" /\ UNCHANGED repeats
       \/ repeats < MaxRepeat /\ repeats' = repeats + 1 /\ cpc' = "name"
    /\ UNCHANGED <<toS, cEpt, file_d, bytes_read, bytes_written>> /\ AppFrame

(* The terminate request, a failure of which is ignored, and the end of    *)
(* the endpoint.                                                           *)
CTerm ==
    /\ cpc = "term"
    /\ LET asked(q) == IF cEpt = "none" THEN q ELSE Append(q, Ns("destroy"))
       IN \/ cEpt = "bound" /\ toS' = asked(Append(toS, Request("TERM", 0)))
          \/ (cEpt # "bound" \/ May("send")) /\ toS' = asked(toS)
    /\ cEpt' = "none" /\ cpc' = "ended"
    /\ UNCHANGED <<call, wait_resp, file_d, bytes_read, bytes_written, repeats>> /\ AppFrame
-----------------------------------------------------------------------------
(* The client's callbacks; rpc_table selects one by the response's id.     *)

rpmsg_open_cb(m)  == file_d' = m.val /\ UNCHANGED <<bytes_read, bytes_written>>
rpmsg_read_cb(m)  == bytes_read' = m.val /\ UNCHANGED <<file_d, bytes_written>>
rpmsg_write_cb(m) == bytes_written' = m.val /\ UNCHANGED <<file_d, bytes_read>>
rpmsg_close_cb(m) == UNCHANGED <<file_d, bytes_read, bytes_written>>
rpmsg_input_cb(m) == bytes_read' = m.val /\ UNCHANGED <<file_d, bytes_written>>

(* Polling: while a call waits, while open could not be sent, and while    *)
(* the endpoint is not bound.                                              *)
CPolls == \/ call = "wait"
          \/ cpc \in Statements /\ cEpt = "unbound"
          \/ cpc \in {"open1", "open2"} /\ call = "none"

CResponse ==
    /\ CPolls /\ toC # <<>> /\ Head(toC).kind = "response"
    /\ LET m == Head(toC)
       IN IF cEpt = "none"
          THEN UNCHANGED <<file_d, bytes_read, bytes_written, wait_resp>>
          ELSE /\ \/ m.id = "OPEN"  /\ rpmsg_open_cb(m)
                  \/ m.id = "READ"  /\ rpmsg_read_cb(m)
                  \/ m.id = "WRITE" /\ rpmsg_write_cb(m)
                  \/ m.id = "CLOSE" /\ rpmsg_close_cb(m)
                  \/ m.id = "INPUT" /\ rpmsg_input_cb(m)
               /\ wait_resp' = FALSE
    /\ toC' = Tail(toC)
    /\ UNCHANGED <<setting, toS, cpc, call, cEpt, repeats, serverVars>>

(* The server's endpoint is announced or withdrawn.                        *)
CNameService ==
    /\ CPolls /\ toC # <<>> /\ Head(toC).kind \in {"create", "destroy"}
    /\ cEpt' = IF Head(toC).kind = "create" THEN "bound" ELSE "none"
    /\ toC' = Tail(toC)
    /\ UNCHANGED <<setting, toS, cpc, call, wait_resp, file_d, bytes_read, bytes_written,
                   repeats, serverVars>>
-----------------------------------------------------------------------------
(* The server.                                                             *)

ServFrame == UNCHANGED <<setting, clientVars>>

(* The endpoint.  rpc_demod.c may find no I/O region, and returns as it    *)
(* stands.                                                                 *)
SCreate ==
    /\ spc = "create" /\ pair # "proxy"
    /\ \/ spc' = "poll" /\ sEpt' = TRUE /\ toC' = Append(toC, Ns("create"))
       \/ /\ pair = "rpc" /\ May("shbuf")
          /\ spc' = "ended" /\ sEpt' = TRUE /\ toC' = Append(toC, Ns("create"))
       \/ May("create") /\ spc' = "ended" /\ UNCHANGED <<sEpt, toC>>
    /\ UNCHANGED <<toS, request_termination, ept_deleted, err_cnt, platform, signal,
                   reply, file, fds>> /\ ServFrame

(* proxy_app looks the channel up, binds the character driver to it and    *)
(* opens its control device (linux/common/common.c); what the files under  *)
(* /sys hold decides whether it succeeds.                                  *)
ProxyFind ==
    /\ spc = "create" /\ pair = "proxy"
    /\ spc' = "found" \/ (May("create") /\ spc' = "ended")
    /\ UNCHANGED <<toS, toC, sEpt, request_termination, ept_deleted, err_cnt, platform,
                   signal, reply, file, fds>> /\ ServFrame

(* It opens an endpoint and allocates proxy, which the signal handlers     *)
(* write to from then on.                                                  *)
ProxyAlloc ==
    /\ spc = "found"
    /\ spc' = "allocated" \/ (May("create") /\ spc' = "ended")
    /\ UNCHANGED <<toS, toC, sEpt, request_termination, ept_deleted, err_cnt, platform,
                   signal, reply, file, fds>> /\ ServFrame

(* It sets active, whatever a handler has set it to; allocates its buffers *)
(* and tells the client its address.  After a failure everything is closed.*)
ProxyCreate ==
    /\ spc = "allocated"
    /\ request_termination' = FALSE
    /\ \/ spc' = "poll" /\ sEpt' = TRUE /\ toC' = Append(toC, Ns("create"))
       \/ May("create") /\ spc' = "ended" /\ UNCHANGED <<sEpt, toC>>
    /\ UNCHANGED <<toS, ept_deleted, err_cnt, platform, signal, reply, file, fds>>
    /\ ServFrame

(* The handlers: the system call, and the response it leads to.            *)
LowestFree == CHOOSE d \in 3 .. 5 : d \notin fds /\ \A e \in 3 .. d - 1 : e \in fds

handle_open(m) ==
    \/ /\ m.val = 1 \/ file # Absent
       /\ fds' = fds \cup {LowestFree}
       /\ file' = IF file = Absent THEN 0 ELSE file
       /\ reply' = Response("OPEN", LowestFree)
    \/ /\ (m.val = 0 /\ file = Absent) \/ May("open")
       /\ reply' = Response("OPEN", -1) /\ UNCHANGED <<file, fds>>

handle_close(m) ==
    /\ fds' = fds \ {m.val}
    /\ reply' = Response("CLOSE", IF m.val \in fds THEN 0 ELSE -1)
    /\ UNCHANGED file

(* Descriptor 0 is the server's terminal: the user types something.        *)
handle_read(m) ==
    /\ reply' = Response("READ", IF m.val = 0 THEN 1 ELSE IF m.val \in fds THEN file ELSE -1)
    /\ UNCHANGED <<file, fds>>

handle_write(m) ==
    /\ file' = IF m.val \in fds THEN file + 1 ELSE file
    /\ reply' = Response("WRITE", IF m.val \in fds THEN 1 ELSE -1)
    /\ UNCHANGED fds

rpmsg_handle_input(m) == reply' = Response("INPUT", 1) /\ UNCHANGED <<file, fds>>

(* Mutation: the request to terminate is not remembered.                   *)
TermForgotten(m) == UNCHANGED <<request_termination, reply, file, fds>>

rpmsg_handle_term(m) == request_termination' = TRUE /\ UNCHANGED <<reply, file, fds>>

Polling == spc = "poll" \/ (spc = "handled" /\ pair # "proxy")

(* A request arrives.  If its endpoint is gone it is dropped, as it is if  *)
(* rpc_demod.c cannot copy it.                                             *)
handle_rpc ==
    /\ Polling /\ toS # <<>> /\ Head(toS).kind = "request"
    /\ LET m == Head(toS)
       IN \/ /\ sEpt /\ m.id # "TERM" /\ spc' = "reply"
             /\ \/ m.id = "OPEN"  /\ handle_open(m)
                \/ m.id = "CLOSE" /\ handle_close(m)
                \/ m.id = "READ"  /\ handle_read(m)
                \/ m.id = "WRITE" /\ handle_write(m)
                \/ m.id = "INPUT" /\ rpmsg_handle_input(m)
             /\ UNCHANGED request_termination
          \/ sEpt /\ m.id = "TERM" /\ spc' = "handled" /\ rpmsg_handle_term(m)
          \/ /\ ~sEpt \/ (pair = "rpc" /\ May("copy"))
             /\ spc' = "handled" /\ UNCHANGED <<request_termination, reply, file, fds>>
    /\ toS' = Tail(toS)
    /\ UNCHANGED <<toC, sEpt, ept_deleted, err_cnt, platform, signal>> /\ ServFrame

(* The response is sent.  A failure is an error for rpc_demod.c and for    *)
(* proxy_app.c, and goes unnoticed in linux_rpc_demod.c.                   *)
SendResponse ==
    /\ spc = "reply"
    /\ \/ sEpt /\ toC' = Append(toC, reply) /\ UNCHANGED err_cnt
       \/ /\ ~sEpt \/ May("reply")
          /\ err_cnt' = IF pair = "linux" THEN err_cnt ELSE 1
          /\ UNCHANGED toC
    /\ spc' = "handled" /\ reply' = NoMessage
    /\ UNCHANGED <<toS, sEpt, request_termination, ept_deleted, platform, signal, file, fds>>
    /\ ServFrame

Withdrawn(q) == IF sEpt THEN Append(q, Ns("destroy")) ELSE q

(* rpmsg_service_unbind.  proxy_app is not told.                           *)
rpmsg_service_unbind ==
    /\ Polling /\ toS # <<>> /\ Head(toS).kind = "destroy"
    /\ IF pair = "proxy" \/ ~sEpt
       THEN UNCHANGED <<toC, sEpt, ept_deleted>>
       ELSE toC' = Withdrawn(toC) /\ sEpt' = FALSE /\ ept_deleted' = TRUE
    /\ toS' = Tail(toS) /\ spc' = "handled"
    /\ UNCHANGED <<request_termination, err_cnt, platform, signal, reply, file, fds>>
    /\ ServFrame

(* The test at the end of the loop.  proxy_app does not block in its read  *)
(* and so tests active, the negation of request_termination, all the time. *)
SLoop ==
    /\ spc = "handled" \/ (pair = "proxy" /\ spc = "poll" /\ request_termination)
    /\ spc' = IF err_cnt > 0 \/ ept_deleted \/ request_termination THEN "terminate" ELSE "poll"
    /\ UNCHANGED <<toS, toC, sEpt, request_termination, ept_deleted, err_cnt, platform,
                   signal, reply, file, fds>> /\ ServFrame

(* A read of proxy_app's endpoint fails for good: its device has gone, or  *)
(* SIGHUP has closed it.  It leaves its loop.                              *)
ProxyReadFails ==
    /\ pair = "proxy" /\ spc = "poll"
    /\ May("read") \/ platform = "released"
    /\ spc' = "terminate"
    /\ UNCHANGED <<toS, toC, sEpt, request_termination, ept_deleted, err_cnt, platform,
                   signal, reply, file, fds>> /\ ServFrame

terminate_rpc_app ==
    IF pair = "proxy" \/ ept_deleted
    THEN UNCHANGED <<toC, sEpt>>
    ELSE toC' = Withdrawn(toC) /\ sEpt' = FALSE

STerminate ==
    /\ spc = "terminate" /\ pair # "proxy"
    /\ terminate_rpc_app /\ spc' = "ended"
    /\ UNCHANGED <<toS, request_termination, ept_deleted, err_cnt, platform, signal, reply,
                   file, fds>> /\ ServFrame

(* proxy_app closes its endpoint, which the client is not told.            *)
ProxyEnd ==
    /\ spc = "terminate" /\ pair = "proxy"
    /\ sEpt' = FALSE /\ spc' = "ended"
    /\ UNCHANGED <<toS, toC, request_termination, ept_deleted, err_cnt, platform, signal,
                   reply, file, fds>> /\ ServFrame

(* Mutation: the signal is ignored.                                        *)
ExitIgnored ==
    /\ faulty /\ "exit" \in Signals /\ signal = "none" /\ spc # "ended"
    /\ signal' = IF spc = "allocated" THEN "early" ELSE "exit"
    /\ UNCHANGED <<toS, toC, sEpt, request_termination, spc, ept_deleted, err_cnt, platform,
                   reply, file, fds>> /\ ServFrame

(* The handlers of proxy_app dereference proxy, which is null until it is  *)
(* allocated: a signal before that crashes the program.                    *)
CrashEarly == spc' = IF pair = "proxy" /\ spc \in {"create", "found"} THEN "ended" ELSE spc

(* SIGTERM and SIGINT: proxy_app leaves its loop, the others destroy their *)
(* endpoint and go on.  A signal for proxy_app between the allocation and  *)
(* the store of active is "early".                                         *)
exit_action_handler ==
    /\ faulty /\ "exit" \in Signals /\ signal = "none" /\ spc # "ended"
    /\ signal' = IF spc = "allocated" THEN "early" ELSE "exit"
    /\ terminate_rpc_app
    /\ request_termination' = (request_termination \/ pair = "proxy")
    /\ CrashEarly
    /\ UNCHANGED <<toS, ept_deleted, err_cnt, platform, reply, file, fds>> /\ ServFrame

(* SIGHUP: everything is released, and the program goes on where it was.   *)
(* proxy_app frees pointers it has not set yet when it has only just       *)
(* allocated them: it may end there.                                       *)
kill_action_handler ==
    /\ faulty /\ "kill" \in Signals /\ signal = "none" /\ spc # "ended"
    /\ signal' = "kill"
    /\ terminate_rpc_app
    /\ platform' = "released"
    /\ CrashEarly \/ (spc = "allocated" /\ spc' = "ended")
    /\ UNCHANGED <<toS, request_termination, ept_deleted, err_cnt, reply, file, fds>>
    /\ ServFrame
-----------------------------------------------------------------------------
Client ==
    \/ CInit \/ rpmsg_open \/ rpmsg_read \/ rpmsg_write \/ rpmsg_close \/ rpmsg_input
    \/ AwaitResponse \/ RetargetCall \/ RetargetReturn \/ CRepeat \/ CTerm
    \/ CResponse \/ CNameService

Server ==
    \/ SCreate \/ ProxyFind \/ ProxyAlloc \/ ProxyCreate
    \/ handle_rpc \/ SendResponse \/ rpmsg_service_unbind \/ SLoop \/ STerminate \/ ProxyEnd

Signal == exit_action_handler \/ kill_action_handler

Ended == cpc = "ended" /\ spc = "ended" /\ UNCHANGED vars

Next == Client \/ Server \/ ProxyReadFails \/ Signal \/ Ended

Safety == Init /\ [][Next]_vars

(* Two processors or processes; nothing makes a signal arrive or a read    *)
(* fail.                                                                   *)
Spec == Safety /\ WF_vars(Client) /\ WF_vars(Server)
-----------------------------------------------------------------------------
(* Types.                                                                  *)
Message == [kind : {"request", "response", "create", "destroy", "none"},
            id : {"NONE", "OPEN", "CLOSE", "READ", "WRITE", "INPUT", "TERM"},
            val : -1 .. 5]
TypeOK ==
    /\ pair \in Pairs /\ faulty \in BOOLEAN
    /\ toS \in Seq(Message) /\ toC \in Seq(Message) /\ reply \in Message
    /\ cpc \in Statements \cup {"init", "term", "ended"} /\ call \in {"none", "wait"}
    /\ wait_resp \in BOOLEAN /\ cEpt \in {"none", "unbound", "bound"}
    /\ file_d \in {-1, 0, 3, 4} /\ bytes_read \in -1 .. 2 /\ bytes_written \in -1 .. 1
    /\ repeats \in 0 .. MaxRepeat
    /\ spc \in {"create", "found", "allocated", "poll", "reply", "handled", "terminate",
                "ended"}
    /\ sEpt \in BOOLEAN /\ request_termination \in BOOLEAN /\ ept_deleted \in BOOLEAN
    /\ err_cnt \in 0 .. 1 /\ platform \in {"live", "released"}
    /\ signal \in {"none", "early", "exit", "kill"}
    /\ file \in -1 .. 2 /\ fds \subseteq 3 .. 4

Under(s, kind) == {k \in 1 .. Len(s) : s[k].kind = kind}

(* One call at a time: at every moment there is at most one request,       *)
(* response in the making or response under way; it belongs to the call    *)
(* the client waits for, whatever failed before.  So wait_resp, which does *)
(* not say for which call it stands, is never cleared by a late response.  *)
(* (Nothing is said of a server that goes on after releasing everything.)  *)
OneAtATime ==
    LET requests  == {toS[k].id : k \in Under(toS, "request")} \ {"TERM"}
        replies   == IF reply = NoMessage THEN {} ELSE {reply.id}
        responses == {toC[k].id : k \in Under(toC, "response")}
    IN cpc # "ended" /\ platform = "live" =>
       /\ requests \cup replies \cup responses \subseteq
             IF call = "wait" /\ wait_resp THEN {IdOf(cpc)} ELSE {}
       /\ \/ requests \cup replies = {}
          \/ requests \cup responses = {}
          \/ replies \cup responses = {}
       /\ Under(toC, "response") \subseteq {1, 2} /\ Under(toS, "request") \subseteq {1, 2}

(* A call is made and served at most once.  Its phase, from what is under   *)
(* way: the request, the response or neither.                              *)
Phase ==
    CASE call = "none"                                                 -> "idle"
      [] call # "none" /\ toS # <<>>                                   -> "asked"
      [] call # "none" /\ toS = <<>>
           /\ (spc = "reply" \/ (toC # <<>> /\ Head(toC).kind = "response")) -> "served"
      [] OTHER -> IF wait_resp THEN "lost" ELSE "answered"

Call == INSTANCE RemoteCall WITH at <- cpc, phase <- Phase, store <- <<file, fds>>,
            Changing <- {"open1", "open2", "write", "close1", "close2"}

(* Every handler that runs serves the statement app is at, once, and only  *)
(* its response lets app go on: the rings and wait_resp do what RemoteCall *)
(* promises, whatever is lost, fails or is interrupted by a signal.        *)
ServedOnce == Call!Safety

(* Descriptors: once a close has returned, the server has nothing open for *)
(* the client any more.  In linux_rpc_demo.c that is so even when sends,   *)
(* opens and responses fail: the wait in rpmsg_close, also for a request   *)
(* that was not sent, keeps it from going on.                              *)
ClosedBehind ==
    /\ ~faulty \/ (pair = "linux" /\ platform = "live")
    /\ \/ cpc \in {"init", "name", "age", "pi", "again", "repeat", "term"}
       \/ cpc \in {"open1", "open2"} /\ call = "none"
    => fds = {}

(* Both programs end once the user has had enough, and the demonstration   *)
(* has done what it announces: remote.file exists and has got the string,  *)
(* and no descriptor is left open.                                         *)
BothEnd == ~faulty => <>[](cpc = "ended" /\ spc = "ended" /\ file >= 1 /\ fds = {})

(* proxy_app ends after SIGTERM or SIGINT, whatever fails and wherever it  *)
(* was, but for one place: an early signal, which comes between the        *)
(* allocation of proxy and the store of 1 to its active, is overwritten by *)
(* that store and forgotten.                                               *)
ProxyExits == (pair = "proxy" /\ signal = "exit") ~> (spc = "ended")

(* A server that has been told to end by a signal ends: by SIGTERM or      *)
(* SIGINT, or by SIGHUP, on which it releases all it has and says that it  *)
(* is killed.                                                              *)
EndsOnSignal == (signal # "none") ~> (spc = "ended")
=============================================================================
