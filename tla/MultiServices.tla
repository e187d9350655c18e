--------------------------- MODULE MultiServices ---------------------------
(***************************************************************************)
(* zephyr/rpmsg_multi_services: four threads of the remote processor that  *)
(* answer the Linux rpmsg client sample, tty and char drivers.             *)
(*                                                                         *)
(* rpmsg_mng_task dispatches messages to callbacks; the three others are   *)
(* services, woken by a binary semaphore, and find the message in a slot   *)
(* of their endpoint.  All four are cooperative: a thread runs until it    *)
(* blocks on a semaphore or sleeps in rpmsg_send because no buffer is      *)
(* free.  Services have priority over rpmsg_mng_task, and all over main.   *)
(* cpu says which thread has not blocked yet; host steps and the interrupt *)
(* fall between any two steps.                                             *)
(*                                                                         *)
(* The host is Linux (external).  A user of a channel sends a message and  *)
(* waits for the answer.  It creates further tty devices only once it has  *)
(* had an answer on the first, as README.rst (Demo 3) demands.             *)
(***************************************************************************)
EXTENDS Integers, Sequences, FiniteSets

CONSTANTS
    Users,      \* the sets of users of channels to consider
    MSGS,       \* messages the client sample sends (100 in the code)
    NBuf,       \* receive buffers
    NTx,        \* transmit buffers
    MaxUses,    \* bound: how often users send, and create devices
    Faults      \* whether start-up and sends may fail: a set of BOOLEANs

User    == {"cs", "tty0", "dev1", "dev2", "raw0", "rawA", "rawB"}
Devices == {"dev1", "dev2"}     \* tty devices created later

ASSUME ServicesAssumption ==
    /\ \A users \in Users : users \subseteq User /\ Cardinality(users) <= NBuf
    /\ {MSGS, NBuf, NTx, MaxUses} \subseteq Nat \ {0}
    /\ Faults \subseteq BOOLEAN

VARIABLES
    users, faulty,      \* the setting of this run
    \* the host
    driver_ok, hst, rx_count, greeted, uses,
    \* shared: the two rings, the receive buffers and the mailbox
    ring, mem, free, toHost, irq,
    \* threads and semaphores
    cpu, created, ipm, rpdev, data_sem, sem, mpc, pc, idx,
    \* endpoints, message slots, locals
    ept, dest, cs_msg, slot, tx_buff, msg_cnt

setting   == <<users, faulty>>
hostVars  == <<driver_ok, hst, rx_count, greeted, uses>>
slotVars  == <<cs_msg, slot>>
threadVars == <<created, ipm, rpdev>>
vars == <<setting, hostVars, ring, mem, free, toHost, irq, cpu, threadVars, data_sem, sem,
          mpc, pc, idx, ept, dest, slotVars, tx_buff, msg_cnt>>

Service  == {"cs", "tty", "raw"}
Slots    == {"tty0", "tty1", "raw0", "raw1"}
Endpoint == Slots \cup {"cs"}
None     == "none"

(* The endpoints of the services with slots, and the one a user writes to. *)
EptOf(th, i) == CASE th = "tty" -> <<"tty0", "tty1">>[i + 1]
                  [] th = "raw" -> <<"raw0", "raw1">>[i + 1]
Target(u)    == CASE u \in {"cs", "tty0", "raw0"} -> u
                  [] u \in Devices -> "tty1"
                  [] u \in {"rawA", "rawB"} -> "raw1"
ServiceOf(e) == CASE e = "cs" -> "cs" [] e \in {"tty0", "tty1"} -> "tty" [] OTHER -> "raw"

Message(kind, to, from) == [kind |-> kind, to |-> to, from |-> from]
NoMessage == Message("none", None, None)

Init ==
    /\ users \in Users /\ faulty \in Faults
    /\ driver_ok = FALSE /\ hst = [u \in User |-> "off"] /\ rx_count = 0 /\ greeted = FALSE
    /\ uses = 0
    /\ ring = <<>> /\ mem = [b \in 1 .. NBuf |-> NoMessage] /\ free = 1 .. NBuf
    /\ toHost = <<>> /\ irq = FALSE
    /\ cpu = "idle" /\ created = <<>> /\ ipm = FALSE /\ rpdev = FALSE
    /\ data_sem = 0 /\ sem = [th \in Service |-> 0]
    /\ mpc = "init" /\ pc = [th \in Service |-> "start"] /\ idx = [th \in Service |-> 0]
    /\ ept = {} /\ dest = [e \in Endpoint |-> None]
    /\ cs_msg = NoMessage /\ slot = [e \in Slots |-> 0]
    /\ tx_buff = [th \in Service |-> NoMessage] /\ msg_cnt = 0
-----------------------------------------------------------------------------
(* The host.                                                               *)

HostFrame == UNCHANGED <<setting, cpu, threadVars, data_sem, sem, mpc, pc, idx, ept, dest,
                         slotVars, tx_buff, msg_cnt>>

HReady ==
    /\ ~driver_ok /\ driver_ok' = TRUE
    /\ UNCHANGED <<hst, rx_count, greeted, uses, ring, mem, free, toHost, irq>> /\ HostFrame

(* A message in a free buffer, and the kick.                               *)
HPut(m) ==
    /\ free # {}
    /\ LET b == CHOOSE x \in free : \A y \in free : x <= y
       IN mem' = [mem EXCEPT ![b] = m] /\ free' = free \ {b} /\ ring' = Append(ring, b)
    /\ irq' = TRUE /\ UNCHANGED toHost

HSend(u) ==
    /\ hst[u] = "idle" /\ hst' = [hst EXCEPT ![u] = "wait"]
    /\ IF u = "cs" THEN UNCHANGED uses ELSE uses < MaxUses /\ uses' = uses + 1
    /\ HPut(Message("data", Target(u), u))
    /\ UNCHANGED <<driver_ok, rx_count, greeted>> /\ HostFrame

HCreate(u) ==
    /\ u \in users \cap Devices /\ greeted
    /\ uses < MaxUses /\ uses' = uses + 1
    /\ hst[u] = "off" /\ hst' = [hst EXCEPT ![u] = "announced"]
    /\ HPut(Message("create", "ns", u))
    /\ UNCHANGED <<driver_ok, rx_count, greeted>> /\ HostFrame

(* A device is released while it is not in use; one that has not been      *)
(* bound, after the remote has had the time to bind it.                    *)
HRelease(u) ==
    /\ u \in users \cap Devices
    /\ \/ hst[u] = "idle"
       \/ /\ hst[u] = "announced"
          /\ \A k \in 1 .. Len(ring) : mem[ring[k]].from # u
          /\ \A k \in 1 .. Len(toHost) : toHost[k].to # u
    /\ hst' = [hst EXCEPT ![u] = "off"]
    /\ HPut(Message("destroy", "ns", u))
    /\ UNCHANGED <<driver_ok, rx_count, greeted, uses>> /\ HostFrame

(* An announced channel can be used; an answer ends the wait.  The client  *)
(* sample stops after its last answer.                                     *)
HReceive ==
    /\ toHost # <<>>
    /\ LET m  == Head(toHost)
           to == IF m.kind = "answer" THEN {m.to} \cap {u \in users : hst[u] = "wait"}
                 ELSE IF m.kind = "bound" THEN {m.to} \cap {u \in users : hst[u] = "announced"}
                 ELSE IF m.to = "raw0" THEN users \cap {"raw0", "rawA", "rawB"}
                 ELSE users \cap {m.to}
           last == m.kind = "answer" /\ m.to = "cs" /\ rx_count + 1 = MSGS
       IN /\ hst' = [u \in User |-> IF u \notin to THEN hst[u]
                                    ELSE IF last THEN "done"
                                    ELSE IF m.kind = "destroy" THEN "gone" ELSE "idle"]
          /\ rx_count' = IF m.kind = "answer" /\ m.to = "cs" THEN rx_count + 1 ELSE rx_count
          /\ greeted' = (greeted \/ (m.kind = "answer" /\ m.to = "tty0"))
    /\ toHost' = Tail(toHost)
    /\ UNCHANGED <<driver_ok, uses, ring, mem, free, irq>> /\ HostFrame
-----------------------------------------------------------------------------
(* Scheduling.                                                             *)

Exists(th) == \E k \in 1 .. Len(created) : created[k] = th
Awake(th)  == Exists(th) /\ pc[th] \in {"start", "loop"} /\ sem[th] = 1
MngReady   == Exists("mng") /\ (mpc = "init" \/ (mpc = "loop" /\ data_sem = 1))

(* main creates the threads, each of which runs before main goes on.       *)
main ==
    /\ cpu = "idle" /\ Len(created) < 4
    /\ ~MngReady /\ \A th \in Service : ~Awake(th)
    /\ created' = Append(created, <<"mng", "cs", "tty", "raw">>[Len(created) + 1])
    /\ UNCHANGED <<setting, hostVars, ring, mem, free, toHost, irq, cpu, ipm, rpdev, data_sem,
                   sem, mpc, pc, idx, ept, dest, slotVars, tx_buff, msg_cnt>>

(* The interrupt.                                                          *)
platform_ipm_callback ==
    /\ irq /\ ipm
    /\ irq' = FALSE /\ data_sem' = 1
    /\ UNCHANGED <<setting, hostVars, ring, mem, free, toHost, cpu, threadVars, sem, mpc, pc,
                   idx, ept, dest, slotVars, tx_buff, msg_cnt>>

TxAvail  == Len(toHost) < NTx
Send(m)  == TxAvail /\ toHost' = Append(toHost, m)
-----------------------------------------------------------------------------
(* rpmsg_mng_task.                                                         *)

MngFrame == UNCHANGED <<setting, hostVars, irq, created, pc, idx, tx_buff, msg_cnt>>

cleanup_system == mpc' = "ended" /\ ipm' = FALSE /\ cpu' = "idle"

(* Any step before the interrupt is enabled, or enabling it, may fail.     *)
platform_init ==
    /\ mpc = "init" /\ Exists("mng") /\ cpu = "idle"
    /\ \/ ipm' = TRUE /\ mpc' = "vdev" /\ cpu' = "mng"
       \/ faulty /\ cleanup_system
    /\ UNCHANGED <<ring, mem, free, toHost, rpdev, data_sem, sem, ept, dest, slotVars>>
    /\ MngFrame

(* Waits for the host's driver, sets the rings up and starts the services; *)
(* without a device they are never started.                                *)
platform_create_rpmsg_vdev ==
    /\ mpc = "vdev" /\ driver_ok
    /\ \/ /\ rpdev' = TRUE /\ mpc' = "loop" /\ sem' = [th \in Service |-> 1]
          /\ UNCHANGED <<ipm, cpu>>
       \/ faulty /\ cleanup_system /\ UNCHANGED <<rpdev, sem>>
    /\ UNCHANGED <<ring, mem, free, toHost, data_sem, ept, dest, slotVars>> /\ MngFrame

receive_message ==
    /\ mpc = "loop"
    /\ \/ cpu = "mng"
       \/ cpu = "idle" /\ \A th \in Service : ~Awake(th)
    /\ data_sem = 1 /\ data_sem' = 0
    /\ mpc' = "rx" /\ cpu' = "mng"
    /\ UNCHANGED <<ring, mem, free, toHost, ipm, rpdev, sem, ept, dest, slotVars>> /\ MngFrame

MngBlocks ==
    /\ mpc = "loop" /\ cpu = "mng" /\ data_sem = 0 /\ cpu' = "idle"
    /\ UNCHANGED <<ring, mem, free, toHost, ipm, rpdev, data_sem, sem, mpc, ept, dest,
                   slotVars>> /\ MngFrame

(* What a free buffer contains is forgotten: nobody reads it (SlotsHeld).   *)
Freed(b) == free' = free \cup {b} /\ mem' = [mem EXCEPT ![b] = NoMessage]

(* The callbacks; b is the buffer of the message.  The library frees it    *)
(* unless the callback holds it.                                           *)
Returned(b) == ring' = Tail(ring) /\ Freed(b)
Held(b)     == ring' = Tail(ring) /\ UNCHANGED <<free, mem>>

Give(th) == sem' = [sem EXCEPT ![th] = 1]

(* Mutation: the buffer is held, although its message is copied.           *)
CsHeld(e, b) == cs_msg' = mem[b] /\ Give("cs") /\ Held(b) /\ UNCHANGED slot

rpmsg_recv_cs_callback(e, b) ==
    /\ cs_msg' = mem[b] /\ Give("cs") /\ Returned(b) /\ UNCHANGED slot

(* Mutation: the buffer is not held.                                       *)
NotHeld(e, b) ==
    /\ slot' = [slot EXCEPT ![e] = b] /\ Give(ServiceOf(e)) /\ Returned(b)
    /\ UNCHANGED cs_msg

rpmsg_recv_tty_callback(e, b) ==
    /\ slot' = [slot EXCEPT ![e] = b] /\ Give("tty") /\ Held(b)
    /\ UNCHANGED cs_msg

(* Mutation: the thread is not woken if a message is still in a slot.      *)
NotGiven(e, b) ==
    /\ slot' = [slot EXCEPT ![e] = b] /\ Held(b)
    /\ IF \E i \in 0 .. 1 : slot[EptOf("raw", i)] # 0 THEN UNCHANGED sem ELSE Give("raw")
    /\ UNCHANGED cs_msg

rpmsg_recv_raw_callback(e, b) ==
    /\ slot' = [slot EXCEPT ![e] = b] /\ Give("raw") /\ Held(b)
    /\ UNCHANGED cs_msg

(* The first message tells an endpoint whom to answer.                     *)
Receive ==
    /\ mpc = "rx" /\ cpu = "mng" /\ ring # <<>>
    /\ LET b == Head(ring)
           m == mem[b]
           e == m.to
       IN /\ m.kind = "data"
          /\ IF e \notin ept
             THEN Returned(b) /\ UNCHANGED <<dest, sem, slotVars>>
             ELSE /\ dest' = [dest EXCEPT ![e] = IF @ = None THEN m.from ELSE @]
                  /\ \/ e = "cs" /\ rpmsg_recv_cs_callback(e, b)
                     \/ e \in {"tty0", "tty1"} /\ rpmsg_recv_tty_callback(e, b)
                     \/ e \in {"raw0", "raw1"} /\ rpmsg_recv_raw_callback(e, b)
    /\ UNCHANGED <<toHost, cpu, mpc, ipm, rpdev, data_sem, ept>> /\ MngFrame

(* Mutation: the endpoint is taken over by whoever announces itself.       *)
AnyService(u, b) ==
    /\ ept' = ept \cup {"tty1"} /\ dest' = [dest EXCEPT !["tty1"] = u]
    /\ \/ /\ Send(Message("bound", u, "tty1"))
          /\ Returned(b) /\ UNCHANGED <<mpc, cpu>>
       \/ ~TxAvail /\ mpc' = "bound" /\ cpu' = "idle" /\ UNCHANGED <<toHost, ring, free, mem>>

(* A tty device is announced: it gets the second endpoint, if that is not  *)
(* in use, and a message.  The buffer is freed when that has been sent.    *)
new_service_cb(u, b) ==
    IF "tty1" \in ept
    THEN Returned(b) /\ UNCHANGED <<ept, dest, toHost, mpc, cpu>>
    ELSE /\ ept' = ept \cup {"tty1"} /\ dest' = [dest EXCEPT !["tty1"] = u]
         /\ \/ /\ Send(Message("bound", u, "tty1"))
               /\ Returned(b) /\ UNCHANGED <<mpc, cpu>>
            \/ ~TxAvail /\ mpc' = "bound" /\ cpu' = "idle" /\ UNCHANGED <<toHost, ring, free, mem>>

(* The endpoint of a released device is destroyed, without announcement.   *)
rpmsg_service_unbind(u, b) ==
    /\ IF dest["tty1"] = u
       THEN ept' = ept \ {"tty1"} /\ dest' = [dest EXCEPT !["tty1"] = None]
       ELSE UNCHANGED <<ept, dest>>
    /\ Returned(b) /\ UNCHANGED <<toHost, mpc, cpu>>

NameService ==
    /\ mpc = "rx" /\ cpu = "mng" /\ ring # <<>>
    /\ LET b == Head(ring)
       IN \/ mem[b].kind = "create"  /\ new_service_cb(mem[b].from, b)
          \/ mem[b].kind = "destroy" /\ rpmsg_service_unbind(mem[b].from, b)
    /\ UNCHANGED <<ipm, rpdev, data_sem, sem, slotVars>> /\ MngFrame

(* A buffer was free when the task looked again, or none for too long.     *)
BoundSent ==
    /\ mpc = "bound" /\ cpu = "idle"
    /\ \/ Send(Message("bound", mem[Head(ring)].from, "tty1"))
       \/ faulty /\ ~TxAvail /\ UNCHANGED toHost
    /\ Returned(Head(ring)) /\ mpc' = "rx" /\ cpu' = "mng"
    /\ UNCHANGED <<ipm, rpdev, data_sem, sem, ept, dest, slotVars>> /\ MngFrame

RxDone ==
    /\ mpc = "rx" /\ cpu = "mng" /\ ring = <<>> /\ mpc' = "loop"
    /\ UNCHANGED <<ring, mem, free, toHost, cpu, ipm, rpdev, data_sem, sem, ept, dest,
                   slotVars>> /\ MngFrame
-----------------------------------------------------------------------------
(* The services.                                                           *)

ServFrame == UNCHANGED <<setting, hostVars, ring, irq, threadVars, data_sem, mpc>>

First(th) == IF th = "cs" THEN "cs" ELSE EptOf(th, 0)
Goto(th, l) == pc' = [pc EXCEPT ![th] = l] /\ cpu' = th
OnCpu(th)  == cpu \in {"idle", th}

(* k_sem_take of the start, and the first endpoint.                        *)
Start(th) ==
    /\ cpu = "idle" /\ Awake(th) /\ pc[th] = "start"
    /\ sem' = [sem EXCEPT ![th] = 0]
    /\ ept' = ept \cup {First(th)} /\ Goto(th, "announce")
    /\ UNCHANGED <<free, mem, toHost, idx, dest, slotVars, tx_buff, msg_cnt>> /\ ServFrame

(* The endpoint is announced; raw_ept[1] has a known peer, so it is not.   *)
Announce(th) ==
    /\ pc[th] = "announce" /\ OnCpu(th)
    /\ \/ Send(Message("create", First(th), First(th)))
       \/ faulty /\ ~TxAvail /\ UNCHANGED toHost
    /\ ept' = IF th = "raw" THEN ept \cup {"raw1"} ELSE ept
    /\ Goto(th, "loop")
    /\ UNCHANGED <<free, mem, sem, idx, dest, slotVars, tx_buff, msg_cnt>> /\ ServFrame

(* rpmsg_send finds no free buffer and sleeps.                             *)
Sleeps(th) ==
    /\ pc[th] \in {"announce", "send", "destroy"} /\ cpu = th /\ ~TxAvail
    /\ cpu' = "idle"
    /\ UNCHANGED <<free, mem, toHost, sem, pc, idx, ept, dest, slotVars, tx_buff, msg_cnt>>
    /\ ServFrame

Blocks(th) ==
    /\ pc[th] = "loop" /\ cpu = th /\ sem[th] = 0 /\ cpu' = "idle"
    /\ UNCHANGED <<free, mem, toHost, sem, pc, idx, ept, dest, slotVars, tx_buff, msg_cnt>>
    /\ ServFrame

(* k_sem_take of the loop.                                                 *)
Take(th) ==
    /\ pc[th] = "loop" /\ OnCpu(th) /\ sem[th] = 1
    /\ sem' = [sem EXCEPT ![th] = 0]
    /\ msg_cnt' = IF th = "cs" THEN msg_cnt + 1 ELSE msg_cnt
    /\ Goto(th, IF th = "cs" THEN "send" ELSE "scan")
    /\ UNCHANGED <<free, mem, toHost, idx, ept, dest, slotVars, tx_buff>> /\ ServFrame

(* app_rpmsg_client_sample.                                                *)
CsSend ==
    /\ pc["cs"] = "send" /\ OnCpu("cs")
    /\ \/ Send([kind |-> "answer", to |-> dest["cs"], from |-> cs_msg.from])
       \/ faulty /\ ~TxAvail /\ UNCHANGED toHost
    /\ Goto("cs", IF msg_cnt < MSGS THEN "loop" ELSE "destroy")
    /\ UNCHANGED <<free, mem, sem, idx, ept, dest, slotVars, tx_buff, msg_cnt>> /\ ServFrame

CsDestroy ==
    /\ pc["cs"] = "destroy" /\ OnCpu("cs")
    /\ \/ Send(Message("destroy", "cs", "cs"))
       \/ faulty /\ ~TxAvail /\ UNCHANGED toHost
    /\ ept' = ept \ {"cs"} /\ pc' = [pc EXCEPT !["cs"] = "ended"] /\ cpu' = "idle"
    /\ UNCHANGED <<free, mem, sem, idx, dest, slotVars, tx_buff, msg_cnt>> /\ ServFrame

(* app_rpmsg_tty and app_rpmsg_raw: both slots are looked at, and each is  *)
(* emptied after its answer.                                               *)
Advance(th) ==
    IF idx[th] = 0 THEN idx' = [idx EXCEPT ![th] = 1] /\ Goto(th, "scan")
    ELSE idx' = [idx EXCEPT ![th] = 0] /\ Goto(th, "loop")

Scan(th) ==
    /\ pc[th] = "scan" /\ cpu = th
    /\ LET e == EptOf(th, idx[th])
       IN IF slot[e] = 0
          THEN Advance(th) /\ UNCHANGED tx_buff
          ELSE tx_buff' = [tx_buff EXCEPT ![th] = mem[slot[e]]] /\ UNCHANGED idx /\ Goto(th, "send")
    /\ UNCHANGED <<free, mem, toHost, sem, ept, dest, slotVars, msg_cnt>> /\ ServFrame

(* The tty service answers the peer of its endpoint, the raw service the   *)
(* sender of the message.                                                  *)
Answer(th) ==
    /\ pc[th] = "send" /\ th \in {"tty", "raw"} /\ OnCpu(th)
    /\ LET e  == EptOf(th, idx[th])
           to == IF th = "tty" THEN dest[e] ELSE tx_buff[th].from
       IN /\ \/ Send([kind |-> "answer", to |-> to, from |-> tx_buff[th].from])
             \/ faulty /\ ~TxAvail /\ UNCHANGED toHost
          /\ Freed(slot[e]) /\ slot' = [slot EXCEPT ![e] = 0]
    /\ tx_buff' = [tx_buff EXCEPT ![th] = NoMessage]
    /\ Advance(th)
    /\ UNCHANGED <<sem, ept, dest, cs_msg, msg_cnt>> /\ ServFrame
-----------------------------------------------------------------------------
Uses == \E u \in User : HCreate(u) \/ HRelease(u) \/ HSend(u)

Mng == \/ platform_init \/ platform_create_rpmsg_vdev \/ receive_message \/ MngBlocks
       \/ Receive \/ NameService \/ BoundSent \/ RxDone

Runs(th) == \/ Start(th) \/ Announce(th) \/ Sleeps(th) \/ Blocks(th) \/ Take(th)
            \/ Scan(th) \/ Answer(th)
            \/ th = "cs" /\ (CsSend \/ CsDestroy)

(* Two processors.  The host's driver starts, takes what it gets and runs  *)
(* its client; nothing makes the users send.  Since users are patient and  *)
(* the number of their messages is bounded, nothing need be said about     *)
(* which of its threads the remote runs.                                   *)
Host   == HReady \/ HReceive \/ HSend("cs")
Remote == main \/ platform_ipm_callback \/ Mng \/ \E th \in Service : Runs(th)

Next == Host \/ Uses \/ Remote

Safety == Init /\ [][Next]_vars
Spec   == Safety /\ WF_vars(Host) /\ WF_vars(Remote)
-----------------------------------------------------------------------------
(* The values of the variables: the setting and the host, what the two     *)
(* sides share, the threads, and what the services keep.                   *)
Mail  == [kind : {"none", "data", "create", "destroy"}, to : Endpoint \cup {"ns", None},
          from : User \cup {None}]
Reply == [kind : {"create", "bound", "answer", "destroy"}, to : User,
          from : User \cup Endpoint]

HostTypeOK ==
    /\ users \in Users /\ faulty \in Faults /\ driver_ok \in BOOLEAN /\ greeted \in BOOLEAN
    /\ hst \in [User -> {"off", "announced", "idle", "wait", "done", "gone"}]
    /\ uses \in 0 .. MaxUses /\ rx_count \in 0 .. MSGS

SharedTypeOK ==
    /\ ring \in Seq(1 .. NBuf) /\ free \subseteq 1 .. NBuf /\ mem \in [1 .. NBuf -> Mail]
    /\ toHost \in Seq(Reply) /\ Len(toHost) <= NTx
    /\ irq \in BOOLEAN

ThreadTypeOK ==
    /\ cpu \in Service \cup {"idle", "mng"} /\ ipm \in BOOLEAN /\ rpdev \in BOOLEAN
    /\ data_sem \in 0 .. 1 /\ sem \in [Service -> 0 .. 1]
    /\ mpc \in {"init", "vdev", "loop", "rx", "bound", "ended"}
    /\ pc \in [Service -> {"start", "announce", "loop", "scan", "send", "destroy", "ended"}]
    /\ idx \in [Service -> 0 .. 1]

ServiceTypeOK ==
    /\ ept \subseteq Endpoint /\ dest \in [Endpoint -> User \cup {None}]
    /\ slot \in [Slots -> 0 .. NBuf] /\ cs_msg \in Mail
    /\ tx_buff \in [Service -> Mail] /\ msg_cnt \in 0 .. MSGS

TypeOK == HostTypeOK /\ SharedTypeOK /\ ThreadTypeOK /\ ServiceTypeOK

Ring == {ring[k] : k \in 1 .. Len(ring)}
Shared == {"rawA", "rawB"} \subseteq users

(* Buffers: a slot that is not empty names a buffer the remote holds, that *)
(* no other slot names and that still has a message for this very          *)
(* endpoint; a buffer is never both free and in use.  So a service never   *)
(* reads or releases a buffer the host may be writing, whatever arrives    *)
(* while it sleeps.                                                        *)
SlotsHeld ==
    /\ Ring \cap free = {}
    /\ \A e \in Slots : slot[e] # 0 =>
          /\ slot[e] \notin free \cup Ring
          /\ mem[slot[e]].kind = "data" /\ mem[slot[e]].to = e
          /\ \A f \in Slots \ {e} : slot[f] # slot[e]

(* A buffer is free, under way or in a slot: none is lost for good as long *)
(* as one user at a time writes to each endpoint.                          *)
NoBufferLost ==
    ~Shared => 1 .. NBuf \subseteq free \cup Ring \cup {slot[e] : e \in Slots}

(* Answers: whatever the host gets back on a channel was sent on that      *)
(* channel, by that user, who waits for it; and a device that has been     *)
(* bound keeps its endpoint until it is released.                          *)
AnswersMatch ==
    /\ \A k \in 1 .. Len(toHost) : toHost[k].kind = "answer" =>
          toHost[k].to = toHost[k].from /\ hst[toHost[k].to] = "wait"
    /\ \A u \in Devices : hst[u] \in {"idle", "wait"} => "tty1" \in ept /\ dest["tty1"] = u

(* README.rst, Demo 5: "When it receives a message it re-sends a the       *)
(* message to the Linux sender endpoint".  Once users send no more (their  *)
(* number is bounded), every one of them has its answer.                   *)
Resent == ~faulty => <>[](\A u \in User : hst[u] # "wait")

(* The same where one user at a time writes to each endpoint; and the      *)
(* client sample gets all its answers, after which its channel goes.       *)
Answered ==
    /\ ~Shared => Resent
    /\ ~faulty /\ "cs" \in users => <>(hst["cs"] = "gone" /\ rx_count = MSGS)
=============================================================================
