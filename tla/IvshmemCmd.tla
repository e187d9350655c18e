----------------------------- MODULE IvshmemCmd -----------------------------
(***************************************************************************)
(* zephyr/dual_qemu_ivshmem: two QEMU instances that share memory and ring *)
(* each other's doorbell.  The host's shell command sends a string a       *)
(* number of times and waits for the echo of each one, at most five        *)
(* seconds.                                                                *)
(*                                                                         *)
(* Each side has an event loop thread, which dispatches messages when the  *)
(* doorbell has rung, and a main thread; the host also has the shell.      *)
(* Threads interleave freely here.  A send is one step with its doorbell;  *)
(* a doorbell that is rung twice before the interrupt is one interrupt.    *)
(* The shared memory outlives both instances, so the status byte may be    *)
(* the one an earlier run has left.  The remote is started after the host, *)
(* as README.rst demands.                                                  *)
(***************************************************************************)
EXTENDS Naturals, Sequences, FiniteSets

CONSTANTS
    NBuf,       \* buffers of each ring (VRING_SIZE)
    MaxN,       \* the largest number of messages given to a command
    MaxMsgs,    \* bound: messages of all commands
    Slow,       \* whether an answer may take longer than the waits: a set of BOOLEANs
    Faults      \* whether a step of the start may fail: a set of BOOLEANs

ASSUME IvshmemAssumption == /\ {NBuf, MaxN, MaxMsgs} \subseteq Nat \ {0}
                            /\ Slow \subseteq BOOLEAN /\ Faults \subseteq BOOLEAN

VARIABLES
    slow, faulty,             \* the setting of this run
    \* shared: status byte (driver ok), the rings to each side, the doorbells
    status, ring, bell,
    \* per side: k_poll signal, event loop, receive virtqueue
    sig, loop, vq,
    \* main threads
    hpc, rpc, ept_sem, bound, rpmsg_dev, hEpt, rEpt,
    \* the shell command and the callback of its endpoint
    cmd, noof_messages, number_of_completed_msgs, rx_sem,
    \* history: messages sent, first of this command, echoed, whether a wait has timed out
    sent, first, echoed, expired

setting  == <<slow, faulty>>
loopVars == <<sig, loop>>
mainVars == <<status, vq, hpc, rpc, rpmsg_dev, hEpt, rEpt>>
bindVars == <<ept_sem, bound>>
cmdVars  == <<cmd, noof_messages, sent, first, expired>>
rxVars   == <<number_of_completed_msgs, rx_sem, echoed>>
vars     == <<setting, ring, bell, loopVars, mainVars, bindVars, cmdVars, rxVars>>

Side  == {"host", "remote"}
Ns    == 0                    \* the announcement of the remote's endpoint

Init ==
    /\ slow \in Slow /\ faulty \in Faults
    /\ status \in BOOLEAN /\ ring = [s \in Side |-> <<>>] /\ bell = [s \in Side |-> FALSE]
    /\ sig = [s \in Side |-> FALSE] /\ loop = [s \in Side |-> "off"]
    /\ vq = [s \in Side |-> "none"]
    /\ hpc = "boot" /\ rpc = "boot" /\ ept_sem = 0 /\ bound = FALSE
    /\ rpmsg_dev = FALSE /\ hEpt = FALSE /\ rEpt = FALSE
    /\ cmd = "idle" /\ noof_messages = 0 /\ number_of_completed_msgs = 0 /\ rx_sem = 0
    /\ sent = 0 /\ first = 1 /\ echoed = {} /\ expired = FALSE
-----------------------------------------------------------------------------
(* A message for a side.                                                   *)
Avail(s) == Len(ring[s]) < NBuf

(* Mutation: both sides compute the identifier of their peer alike.        *)
NotifyAbove(s) == bell' = IF s = "remote" THEN [bell EXCEPT ![s] = TRUE] ELSE bell

virtio_notify(s) == bell' = [bell EXCEPT ![s] = TRUE]

Send(s, m) == Avail(s) /\ ring' = [ring EXCEPT ![s] = Append(@, m)] /\ virtio_notify(s)

(* The interrupt raises the signal, once the event loop has registered it. *)
Doorbell(s) ==
    /\ bell[s] /\ bell' = [bell EXCEPT ![s] = FALSE]
    /\ sig' = [sig EXCEPT ![s] = loop[s] # "off"]
    /\ UNCHANGED <<setting, ring, loop, mainVars, bindVars, cmdVars, rxVars>>
-----------------------------------------------------------------------------
(* init_ivshmem_backend and main of the host.                              *)

MainFrame == UNCHANGED <<setting, sig, rEpt, cmdVars, rxVars>>

(* The host writes the status byte and the remote reads it.                *)
virtio_get_status     == status
virtio_set_status(ok) == status' = ok

(* ivshmem_event_loop_thread has priority: it registers its signal at once *)
(* when it is created.                                                     *)
Registered(s) == loop' = [loop EXCEPT ![s] = "poll"]

(* Mutation: the status byte of an earlier run is kept.                    *)
KeepStatus ==
    /\ hpc = "boot" /\ hpc' = "alloc"
    /\ Registered("host")
    /\ UNCHANGED <<status, ring, bell, vq, rpc, rpmsg_dev, hEpt, bindVars>> /\ MainFrame

HostInit ==
    /\ hpc = "boot" /\ hpc' = "alloc"
    /\ virtio_set_status(FALSE)
    /\ Registered("host")
    /\ UNCHANGED <<ring, bell, vq, rpc, rpmsg_dev, hEpt, bindVars>> /\ MainFrame

(* Devices and virtqueues.  main runs after a failure too.                 *)
HostAlloc ==
    /\ hpc = "alloc"
    /\ \/ vq' = [vq EXCEPT !["host"] = "alloc"] /\ hpc' = "vdev"
       \/ faulty /\ hpc' = "main" /\ UNCHANGED vq
    /\ UNCHANGED <<status, ring, bell, loop, rpc, rpmsg_dev, hEpt, bindVars>> /\ MainFrame

(* rpmsg_init_vdev empties the rings and says so in the status byte.       *)
HostVdev ==
    /\ hpc = "vdev"
    /\ \/ /\ ring' = [s \in Side |-> <<>>] /\ virtio_set_status(TRUE)
          /\ vq' = [vq EXCEPT !["host"] = "up"] /\ hpc' = "bind"
       \/ faulty /\ hpc' = "main" /\ UNCHANGED <<ring, status, vq>>
    /\ UNCHANGED <<bell, loop, rpc, rpmsg_dev, hEpt, bindVars>> /\ MainFrame

HostBind ==
    /\ hpc = "bind" /\ ept_sem = 1 /\ ept_sem' = 0 /\ hpc' = "main"
    /\ UNCHANGED <<status, ring, bell, loop, vq, rpc, rpmsg_dev, hEpt, bound>> /\ MainFrame

HostMain ==
    /\ hpc = "main" /\ rpmsg_dev' = bound
    /\ hpc' = IF bound THEN "ept" ELSE "failed"
    /\ UNCHANGED <<status, ring, bell, loop, vq, rpc, hEpt, bindVars>> /\ MainFrame

(* The peer is known, so this endpoint is not announced.                   *)
HostEpt ==
    /\ hpc = "ept"
    /\ \/ hEpt' = TRUE /\ hpc' = "ready"
       \/ faulty /\ hpc' = "failed" /\ UNCHANGED hEpt
    /\ UNCHANGED <<status, ring, bell, loop, vq, rpc, rpmsg_dev, bindVars>> /\ MainFrame

HostThread == HostInit \/ HostAlloc \/ HostVdev \/ HostBind \/ HostMain \/ HostEpt
-----------------------------------------------------------------------------
(* init_ivshmem_backend and main of the remote.                            *)

RemoteFrame == UNCHANGED <<setting, sig, status, hpc, rpmsg_dev, hEpt, bindVars, cmdVars, rxVars>>

RemoteInit ==
    /\ rpc = "boot" /\ hpc # "boot" /\ rpc' = "alloc"
    /\ Registered("remote")
    /\ UNCHANGED <<ring, bell, vq, rEpt>> /\ RemoteFrame

RemoteAlloc ==
    /\ rpc = "alloc"
    /\ \/ vq' = [vq EXCEPT !["remote"] = "alloc"] /\ rpc' = "vdev"
       \/ faulty /\ rpc' = "main" /\ UNCHANGED vq
    /\ UNCHANGED <<ring, bell, loop, rEpt>> /\ RemoteFrame

(* rpmsg_init_vdev waits for the host's driver.                            *)
RemoteVdev ==
    /\ rpc = "vdev" /\ virtio_get_status
    /\ \/ vq' = [vq EXCEPT !["remote"] = "up"]
       \/ faulty /\ UNCHANGED vq
    /\ rpc' = "main"
    /\ UNCHANGED <<ring, bell, loop, rEpt>> /\ RemoteFrame

(* The device is there even if its set-up has failed; only then is the     *)
(* endpoint not announced.                                                 *)
RemoteMain ==
    /\ rpc = "main"
    /\ \/ /\ IF vq["remote"] = "up" THEN Send("host", Ns) ELSE UNCHANGED <<ring, bell>>
          /\ rEpt' = TRUE /\ rpc' = "ready"
       \/ faulty /\ rpc' = "failed" /\ UNCHANGED <<ring, bell, rEpt>>
    /\ UNCHANGED <<loop, vq>> /\ RemoteFrame

RemoteThread == RemoteInit \/ RemoteAlloc \/ RemoteVdev \/ RemoteMain
-----------------------------------------------------------------------------
(* ivshmem_event_loop_thread: k_poll returns, the signal is reset, and     *)
(* everything in the ring is dispatched.                                   *)

LoopFrame == UNCHANGED <<setting, mainVars, cmdVars>>
At(s, l)  == loop' = [loop EXCEPT ![s] = l]

PollReturns(s) ==
    /\ loop[s] = "poll" /\ sig[s] /\ At(s, "reset")
    /\ UNCHANGED <<ring, bell, sig, bindVars, rxVars>> /\ LoopFrame

k_poll_signal_reset(s) ==
    /\ loop[s] = "reset" /\ At(s, "dispatch") /\ sig' = [sig EXCEPT ![s] = FALSE]
    /\ UNCHANGED <<ring, bell, bindVars, rxVars>> /\ LoopFrame

(* A virtqueue that is not set up has no callback.                         *)
Dispatched(s) ==
    /\ loop[s] = "dispatch" /\ (vq[s] = "up" => ring[s] = <<>>)
    /\ At(s, "poll")
    /\ UNCHANGED <<ring, bell, sig, bindVars, rxVars>> /\ LoopFrame

Dispatch(s) == loop[s] = "dispatch" /\ vq[s] = "up" /\ ring[s] # <<>>

ns_bind_cb ==
    /\ Dispatch("host") /\ Head(ring["host"]) = Ns
    /\ ring' = [ring EXCEPT !["host"] = Tail(@)]
    /\ bound' = TRUE /\ ept_sem' = 1
    /\ UNCHANGED <<bell, loopVars, rxVars>> /\ LoopFrame

(* Mutation: the command is not told.                                      *)
NotGiven ==
    /\ Dispatch("host") /\ Head(ring["host"]) # Ns
    /\ ring' = [ring EXCEPT !["host"] = Tail(@)]
    /\ number_of_completed_msgs' = number_of_completed_msgs + 1
    /\ echoed' = echoed \cup {Head(ring["host"])}
    /\ UNCHANGED <<bell, loopVars, bindVars, rx_sem>> /\ LoopFrame

(* The host's endpoint_cb.                                                 *)
endpoint_cb ==
    /\ Dispatch("host") /\ Head(ring["host"]) # Ns
    /\ ring' = [ring EXCEPT !["host"] = Tail(@)]
    /\ number_of_completed_msgs' = number_of_completed_msgs + 1
    /\ echoed' = echoed \cup {Head(ring["host"])} /\ rx_sem' = 1
    /\ UNCHANGED <<bell, loopVars, bindVars>> /\ LoopFrame

(* The remote's endpoint_cb: the message is sent back before its buffer is *)
(* freed; without a buffer for the answer, after a while, it is dropped.   *)
Echo ==
    /\ Dispatch("remote")
    /\ LET m == Head(ring["remote"])
       IN \/ /\ Avail("host") /\ virtio_notify("host")
             /\ ring' = [ring EXCEPT !["remote"] = Tail(@), !["host"] = Append(@, m)]
          \/ /\ ~Avail("host") /\ slow
             /\ ring' = [ring EXCEPT !["remote"] = Tail(@)] /\ UNCHANGED bell
    /\ UNCHANGED <<loopVars, bindVars, rxVars>> /\ LoopFrame

EventLoop(s) ==
    \/ PollReturns(s) \/ k_poll_signal_reset(s) \/ Dispatched(s)
    \/ s = "host" /\ (ns_bind_cb \/ endpoint_cb)
    \/ s = "remote" /\ Echo
-----------------------------------------------------------------------------
(* cmd_rpmsg_ivshmem_send.                                                 *)

CmdFrame == UNCHANGED <<setting, loopVars, mainVars, bindVars, echoed>>

CmdStart(n) ==
    /\ cmd = "idle" /\ rpmsg_dev /\ sent + n <= MaxMsgs
    /\ cmd' = "send" /\ noof_messages' = n /\ number_of_completed_msgs' = 0
    /\ first' = sent + 1
    /\ UNCHANGED <<ring, bell, rx_sem, sent, expired>> /\ CmdFrame

(* Mutation: the last answer is not waited for.                            *)
LastNotAwaited ==
    /\ cmd = "send" /\ hEpt /\ Send("remote", sent + 1) /\ sent' = sent + 1
    /\ cmd' = IF noof_messages = 1 THEN "done" ELSE "wait"
    /\ UNCHANGED <<noof_messages, number_of_completed_msgs, rx_sem, first, expired>> /\ CmdFrame

CmdSend ==
    /\ cmd = "send"
    /\ \/ hEpt /\ Send("remote", sent + 1) /\ sent' = sent + 1 /\ cmd' = "wait"
       \/ (~hEpt \/ (slow /\ ~Avail("remote"))) /\ cmd' = "idle" /\ UNCHANGED <<ring, bell, sent>>
    /\ UNCHANGED <<noof_messages, number_of_completed_msgs, rx_sem, first, expired>> /\ CmdFrame

CmdTake ==
    /\ cmd = "wait" /\ rx_sem = 1 /\ rx_sem' = 0
    /\ noof_messages' = noof_messages - 1
    /\ cmd' = IF noof_messages = 1 THEN "done" ELSE "send"
    /\ UNCHANGED <<ring, bell, number_of_completed_msgs, sent, first, expired>> /\ CmdFrame

CmdTimeout ==
    /\ cmd = "wait" /\ rx_sem = 0 /\ slow
    /\ cmd' = "idle" /\ expired' = TRUE
    /\ UNCHANGED <<ring, bell, noof_messages, number_of_completed_msgs, rx_sem, sent, first>>
    /\ CmdFrame

CmdReturn ==
    /\ cmd = "done" /\ cmd' = "idle"
    /\ UNCHANGED <<ring, bell, noof_messages, number_of_completed_msgs, rx_sem, sent, first,
                   expired>> /\ CmdFrame

Shell == CmdSend \/ CmdTake \/ CmdTimeout \/ CmdReturn
-----------------------------------------------------------------------------
Next ==
    \/ HostThread \/ RemoteThread \/ Shell
    \/ \E s \in Side : Doorbell(s) \/ EventLoop(s)
    \/ \E n \in 1 .. MaxN : CmdStart(n)

(* Every thread runs, interrupts are taken, timers expire; nothing makes   *)
(* the user give a command.                                                *)
Safety == Init /\ [][Next]_vars
Spec   == /\ Safety
          /\ WF_vars(HostThread) /\ WF_vars(RemoteThread) /\ WF_vars(Shell)
          /\ \A s \in Side : WF_vars(Doorbell(s)) /\ WF_vars(EventLoop(s))
-----------------------------------------------------------------------------
(* The values of the variables.                                            *)
FlagTypeOK ==
    /\ slow \in Slow /\ faulty \in Faults /\ status \in BOOLEAN
    /\ bell \in [Side -> BOOLEAN] /\ sig \in [Side -> BOOLEAN]
    /\ bound \in BOOLEAN /\ rpmsg_dev \in BOOLEAN /\ hEpt \in BOOLEAN
    /\ rEpt \in BOOLEAN /\ expired \in BOOLEAN

RingTypeOK ==
    /\ ring \in [Side -> Seq(0 .. MaxMsgs)] /\ \A s \in Side : Len(ring[s]) <= NBuf

ControlTypeOK ==
    /\ loop \in [Side -> {"off", "poll", "reset", "dispatch"}]
    /\ vq \in [Side -> {"none", "alloc", "up"}]
    /\ hpc \in {"boot", "alloc", "vdev", "bind", "main", "ept", "ready", "failed"}
    /\ rpc \in {"boot", "alloc", "vdev", "main", "ready", "failed"}
    /\ ept_sem \in 0 .. 1 /\ rx_sem \in 0 .. 1
    /\ cmd \in {"idle", "send", "wait", "done"} /\ noof_messages \in 0 .. MaxN
    /\ sent \in 0 .. MaxMsgs /\ first \in 1 .. MaxMsgs + 1 /\ echoed \subseteq 1 .. MaxMsgs
    /\ number_of_completed_msgs \in Nat

TypeOK == FlagTypeOK /\ RingTypeOK /\ ControlTypeOK

(* Doorbells: while messages wait for a side whose event loop sleeps in    *)
(* k_poll, its signal is raised or its doorbell has rung.  The loop resets *)
(* a signal that may have been raised again since k_poll returned.         *)
NoBellLost ==
    \A s \in Side : ring[s] # <<>> /\ loop[s] = "poll" => sig[s] \/ bell[s]

(* Start: whatever status byte an earlier run has left and whatever fails, *)
(* an event loop dispatches only from a virtqueue that exists, the remote  *)
(* announces itself in rings the host has set up, and its announcement is  *)
(* not wiped out by that.                                                  *)
StartSound ==
    /\ \A s \in Side : loop[s] = "dispatch" => vq[s] # "none"
    /\ vq["remote"] = "up" => vq["host"] = "up"
    /\ vq["remote"] = "up" /\ rEpt => bound \/ \E k \in 1 .. Len(ring["host"]) : ring["host"][k] = Ns

(* A command that returns 0 has seen the echo of every message it sent,    *)
(* and no other, as long as no wait before has timed out.  (After that an  *)
(* answer may come late and be taken for that of the next message.)        *)
SuccessHonest ==
    cmd = "done" /\ ~expired =>
        first .. sent \subseteq echoed /\ number_of_completed_msgs = sent + 1 - first

(* Both sides become ready, as README.rst says of the order it gives, and  *)
(* a command returns: with success if it is given once the endpoint is     *)
(* there and the answers come in time.                                     *)
CmdEnds ==
    /\ ~faulty => <>(hpc = "ready" /\ rpc = "ready")
    /\ cmd = "send" ~> cmd \in {"done", "idle"}
    /\ ~slow /\ ~faulty => (cmd = "send" /\ hEpt ~> cmd = "done")
=============================================================================
