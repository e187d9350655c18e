---------------------------- MODULE IrqShmemDemo ----------------------------
(***************************************************************************)
(* The libmetal "IRQ and shared memory" demo: a Linux host floods a remote *)
(* core with PKGS_TOTAL packages through a shared memory window, the       *)
(* remote echoes each of them, the host verifies the echoes and finally    *)
(* sends a shutdown message.                                               *)
(*                                                                         *)
(*   host    examples/libmetal/demos/irq_shmem_demo/host/irq_shmem_demo.c  *)
(*           examples/libmetal/machine/host/amd_linux_userspace/           *)
(*   remote  examples/libmetal/demos/irq_shmem_demo/remote/irq_shmem_demo.c*)
(*           examples/libmetal/machine/remote/amd_rpu/                     *)
(*                                                                         *)
(* Four threads of control interleave: the host's main thread, libmetal's  *)
(* interrupt thread on the host (it runs irq_isr), the remote's task and   *)
(* the remote's interrupt handler, which preempts the task.  They share    *)
(* the window (two descriptors and two payload halves) and one IPI status  *)
(* bit per direction.  Every message occupies 16 bytes (header and eight   *)
(* bytes of body, "shutdown" included), so a payload offset is a cell      *)
(* number.                                                                 *)
(***************************************************************************)
EXTENDS Integers

CONSTANTS
    PKGS_TOTAL,  \* packages the host sends before the shutdown message
    Slots,       \* entries of a descriptor's address array
    Os,          \* the remote's OS port: "generic" (bare metal) or "freertos"
    HostWaits,   \* TRUE iff the host starts once the remote waits (the READMEs' order)
    Faults       \* TRUE iff opening a device or allocating a buffer may fail

(* 1024 packages against 4094 array entries in the code: neither side ever *)
(* runs past the array, although only the host's send loop would wrap.     *)
ASSUME SizeAssumption == /\ PKGS_TOTAL \in Nat \ {0}
                         /\ Slots \in Nat
                         /\ Slots > PKGS_TOTAL
ASSUME PortAssumption == /\ Os \in {"generic", "freertos"}
                         /\ HostWaits \in BOOLEAN
                         /\ Faults \in BOOLEAN

VARIABLES
    \* the shared window
    h2r, r2h,    \* descriptors: avail and used counters, address array
    payH, payR,  \* payload halves: host to remote, remote to host
    \* the IPI controllers: status bit and enable bit of each side
    hIsr, hIer, rIsr, rIer,
    \* host: main thread, its kick flag, its interrupt handler
    hpc, hI, hTxAddr, hTxData, hRxAddr, hRxAvail, remote_nkicked, hHandler,
    \* remote: task, its wait primitive, its interrupt handler
    rpc, rCount, rRxAvail, rRxAddr, rTxAddr, rTxData, lbuf,
    irq_pending, suspended, rTask, rTtc, rReg, rHandler

shmVars  == <<h2r, r2h, payH, payR>>
ipiVars  == <<hIsr, hIer, rIsr, rIer>>
hLocals  == <<hI, hTxAddr, hTxData, hRxAddr, hRxAvail>>
hIrqVars == <<remote_nkicked, hHandler>>
hostVars == <<hpc, hLocals, hIrqVars>>
rLocals  == <<rCount, rRxAvail, rRxAddr, rTxAddr, rTxData, lbuf>>
rOsVars  == <<irq_pending, suspended, rTask>>
rIrqVars == <<rTtc, rReg, rHandler>>
remVars  == <<rpc, rLocals, rOsVars, rIrqVars>>
vars     == <<shmVars, ipiVars, hostVars, remVars>>

SlotIdx == 0 .. Slots - 1
Cell    == 0 .. PKGS_TOTAL        \* the last cell is the shutdown message's
BAD     == -1                     \* METAL_BAD_OFFSET: what a cleared entry translates to

(* A message: header index and body.  The length in the header is that of *)
(* the body, 8 for both kinds of body and 0 in cleared memory.             *)
Msg       == [index : Cell, body : {"zero", "stamp", "shutdown"}]
Cleared   == [index |-> 0, body |-> "zero"]
Ping(i)   == [index |-> i, body |-> "stamp"]
Shutdown  == [index |-> PKGS_TOTAL, body |-> "shutdown"]

ClearedDesc == [avail |-> 0, used |-> 0, addr |-> [s \in SlotIdx |-> BAD]]
ClearedPay  == [c \in Cell |-> Cleared]

Init ==
    /\ h2r = ClearedDesc /\ r2h = ClearedDesc
    /\ payH = ClearedPay /\ payR = ClearedPay
    /\ hIsr = FALSE /\ hIer = FALSE /\ rIsr = FALSE /\ rIer = FALSE
    /\ hpc = "init" /\ hI = 0 /\ hTxAddr = 0 /\ hTxData = 0 /\ hRxAddr = 0
    /\ hRxAvail = 0 /\ remote_nkicked = TRUE /\ hHandler = "idle"
    /\ rpc = "boot" /\ rCount = 0 /\ rRxAvail = 0 /\ rRxAddr = 0 /\ rTxAddr = 0
    /\ rTxData = 0 /\ lbuf = Cleared
    /\ irq_pending = FALSE /\ suspended = FALSE /\ rTask = FALSE
    /\ rTtc = FALSE /\ rReg = FALSE /\ rHandler = "idle"
-----------------------------------------------------------------------------
(* Host: main thread. *)

HostStep(from, to) == hpc = from /\ hpc' = to

(* The states in which the remote "is waiting for notifications".          *)
RemoteWaiting == rpc \in {"suspend", "wfi", "asleep", "suspended"}

(* platform_init: set the flag, open the devices, clear an old IPI,        *)
(* register irq_isr and enable the IPI.                                    *)
HInit ==
    /\ HostStep("init", "clearPayload")
    /\ HostWaits => RemoteWaiting
    /\ remote_nkicked' = TRUE
    /\ hIsr' = FALSE /\ hIer' = TRUE
    /\ UNCHANGED <<hLocals, hHandler, rIsr, rIer, shmVars, remVars>>

(* A device does not open (nothing is cleaned up) or a local buffer is not *)
(* allocated (platform_cleanup still runs).                                *)
HInitFails ==
    /\ Faults
    /\ \/ HostStep("init", "failed")
       \/ HostStep("clearPayload", "cleanup_fail")
    /\ UNCHANGED <<hLocals, hIrqVars, ipiVars, shmVars, remVars>>

(* irq_shmem_echo clears the payload area and the two descriptors.         *)
HClear ==
    /\ \/ /\ HostStep("clearPayload", "clearH2R")
          /\ payH' = ClearedPay /\ payR' = ClearedPay
          /\ UNCHANGED <<h2r, r2h>>
       \/ /\ HostStep("clearH2R", "clearR2H")
          /\ h2r' = ClearedDesc
          /\ UNCHANGED <<payH, payR, r2h>>
       \/ /\ HostStep("clearR2H", "write")
          /\ r2h' = ClearedDesc
          /\ UNCHANGED <<payH, payR, h2r>>
    /\ UNCHANGED <<hLocals, hIrqVars, ipiVars, remVars>>

(* The send loop, one store to shared memory per step: the message, its    *)
(* address, the number of available buffers, the kick.                     *)

(* Mutation: the counter is published together with the message, before    *)
(* the address is.                                                         *)
WritePayloadPublishes ==
    /\ HostStep("write", "addr")
    /\ payH' = [payH EXCEPT ![hTxData] = Ping(hI)]
    /\ h2r' = [h2r EXCEPT !.avail = hI + 1]
    /\ UNCHANGED <<r2h, payR, hLocals, hIrqVars, ipiVars, remVars>>

HWritePayload ==
    /\ HostStep("write", "addr")
    /\ payH' = [payH EXCEPT ![hTxData] = Ping(hI)]
    /\ UNCHANGED <<h2r, r2h, payR, hLocals, hIrqVars, ipiVars, remVars>>

HWriteAddr ==
    /\ HostStep("addr", "avail")
    /\ h2r' = [h2r EXCEPT !.addr[hTxAddr] = hTxData]
    /\ hTxData' = hTxData + 1
    /\ hTxAddr' = IF hTxAddr + 1 >= Slots THEN 0 ELSE hTxAddr + 1
    /\ UNCHANGED <<r2h, payH, payR, hI, hRxAddr, hRxAvail, hIrqVars, ipiVars, remVars>>

HWriteAvail ==
    /\ HostStep("avail", "kick")
    /\ h2r' = [h2r EXCEPT !.avail = hI + 1]
    /\ UNCHANGED <<r2h, payH, payR, hLocals, hIrqVars, ipiVars, remVars>>

(* Mutation: tx_data_offset is not reset before the verification.          *)
KickNoReset ==
    /\ hpc = "kick"
    /\ rIsr' = TRUE
    /\ IF hI + 1 < PKGS_TOTAL
       THEN hpc' = "write" /\ hI' = hI + 1
       ELSE hpc' = "wait" /\ hI' = 0
    /\ UNCHANGED <<hTxData, hTxAddr, hRxAddr, hRxAvail, hIrqVars, hIsr, hIer,
                   rIer, shmVars, remVars>>

(* Mutation: only the first message of the batch is announced.             *)
KickFirstOnly ==
    /\ hpc = "kick"
    /\ rIsr' = (rIsr \/ hI = 0)
    /\ IF hI + 1 < PKGS_TOTAL
       THEN hpc' = "write" /\ hI' = hI + 1 /\ UNCHANGED hTxData
       ELSE hpc' = "wait" /\ hI' = 0 /\ hTxData' = 0
    /\ UNCHANGED <<hTxAddr, hRxAddr, hRxAvail, hIrqVars, hIsr, hIer,
                   rIer, shmVars, remVars>>

(* irq_kick; after the last package i and tx_data_offset start again for   *)
(* the verification.                                                       *)
HKick ==
    /\ hpc = "kick"
    /\ rIsr' = TRUE
    /\ IF hI + 1 < PKGS_TOTAL
       THEN hpc' = "write" /\ hI' = hI + 1 /\ UNCHANGED hTxData
       ELSE hpc' = "wait" /\ hI' = 0 /\ hTxData' = 0
    /\ UNCHANGED <<hTxAddr, hRxAddr, hRxAvail, hIrqVars, hIsr, hIer,
                   rIer, shmVars, remVars>>

(* wait_for_notified: spin until test-and-set finds the flag clear.  The   *)
(* test runs with interrupts disabled: libmetal's interrupt thread is not  *)
(* inside the handler then.                                                *)
HWaitNotified ==
    /\ HostStep("wait", "readAvail")
    /\ hHandler = "idle"
    /\ ~remote_nkicked
    /\ remote_nkicked' = TRUE
    /\ UNCHANGED <<hLocals, hHandler, ipiVars, shmVars, remVars>>

HReadAvail ==
    /\ HostStep("readAvail", "receive")
    /\ hRxAvail' = r2h.avail
    /\ UNCHANGED <<hI, hTxAddr, hTxData, hRxAddr, hIrqVars, ipiVars, shmVars, remVars>>

(* Mutation: the bytes are compared, the header is not checked.            *)
EchoBytesOnly ==
    LET cell == r2h.addr[hRxAddr] IN cell # BAD /\ payR[cell] = payH[hTxData]

(* The checks of one echo: its address translates, the header carries the  *)
(* index and the length expected, the bytes equal those sent.              *)
EchoGood ==
    LET cell == r2h.addr[hRxAddr] IN
    /\ cell # BAD
    /\ payR[cell].index = hI
    /\ payR[cell].body # "zero"
    /\ payR[cell] = payH[hTxData]

(* One round of the inner receive loop: fetch, verify, count as used.      *)
HReceive ==
    /\ hpc = "receive"
    /\ hI # hRxAvail
    /\ EchoGood
    /\ r2h' = [r2h EXCEPT !.used = hI + 1]
    /\ hRxAddr' = hRxAddr + 1
    /\ hTxData' = hTxData + 1
    /\ hI' = hI + 1
    /\ UNCHANGED <<hpc, h2r, payH, payR, hTxAddr, hRxAvail, hIrqVars, ipiVars, remVars>>

(* A check fails.  The used counter has been advanced only if the header   *)
(* was right and the comparison of the bytes failed.                       *)
HReceiveBad ==
    /\ HostStep("receive", "cleanup_fail")
    /\ hI # hRxAvail
    /\ ~EchoGood
    /\ LET cell == r2h.addr[hRxAddr]
           headerGood == /\ cell # BAD
                         /\ payR[cell].index = hI
                         /\ payR[cell].body # "zero"
       IN  r2h' = IF headerGood THEN [r2h EXCEPT !.used = hI + 1] ELSE r2h
    /\ UNCHANGED <<h2r, payH, payR, hLocals, hIrqVars, ipiVars, remVars>>

(* Mutation: shutdown follows the first round of the receive loop.         *)
CaughtUpEarly ==
    /\ HostStep("receive", "sdWrite")
    /\ hI = hRxAvail
    /\ UNCHANGED <<hLocals, hIrqVars, ipiVars, shmVars, remVars>>

(* The inner loop has caught up: wait again, or all packages are back.     *)
HCaughtUp ==
    /\ hpc = "receive"
    /\ hI = hRxAvail
    /\ hpc' = IF hI = PKGS_TOTAL THEN "sdWrite" ELSE "wait"
    /\ UNCHANGED <<hLocals, hIrqVars, ipiVars, shmVars, remVars>>

(* The shutdown message: message, address, counter, kick.                  *)
HSdPayload ==
    /\ HostStep("sdWrite", "sdAddr")
    /\ payH' = [payH EXCEPT ![hTxData] = Shutdown]
    /\ UNCHANGED <<h2r, r2h, payR, hLocals, hIrqVars, ipiVars, remVars>>

HSdAddr ==
    /\ HostStep("sdAddr", "sdAvail")
    /\ h2r' = [h2r EXCEPT !.addr[hTxAddr] = hTxData]
    /\ UNCHANGED <<r2h, payH, payR, hLocals, hIrqVars, ipiVars, remVars>>

HSdAvail ==
    /\ HostStep("sdAvail", "sdKick")
    /\ h2r' = [h2r EXCEPT !.avail = PKGS_TOTAL + 1]
    /\ UNCHANGED <<r2h, payH, payR, hLocals, hIrqVars, ipiVars, remVars>>

HSdKick ==
    /\ HostStep("sdKick", "cleanup_ok")
    /\ rIsr' = TRUE
    /\ UNCHANGED <<shmVars, hLocals, hIrqVars, hIsr, hIer, rIer, remVars>>

(* platform_cleanup: disable the IPI and unregister irq_isr; the interrupt *)
(* thread is not inside the handler any more when unregistering returns.   *)
HCleanup ==
    /\ \/ HostStep("cleanup_ok", "done")
       \/ HostStep("cleanup_fail", "failed")
    /\ hHandler = "idle"
    /\ hIer' = FALSE
    /\ UNCHANGED <<hLocals, hIrqVars, hIsr, rIsr, rIer, shmVars, remVars>>

HIsrFrame == UNCHANGED <<hpc, hLocals, hIer, rIsr, rIer, shmVars, remVars>>

(* irq_isr in libmetal's interrupt thread: acknowledge, then clear the     *)
(* flag; the main thread and the remote may run in between.                *)
irq_isr ==
    \/ /\ hHandler = "idle" /\ hIsr /\ hIer
       /\ hIsr' = FALSE
       /\ hHandler' = "acked"
       /\ UNCHANGED remote_nkicked
       /\ HIsrFrame
    \/ /\ hHandler = "acked"
       /\ remote_nkicked' = FALSE
       /\ hHandler' = "idle"
       /\ UNCHANGED hIsr
       /\ HIsrFrame
-----------------------------------------------------------------------------
(* Remote: the task.  It runs only while the interrupt handler does not.   *)

RemoteStep(from, to) == rHandler = "idle" /\ rpc = from /\ rpc' = to

(* platform_init, first part: the IPI is cleared, ipi_irq_handler is       *)
(* registered and the IPI enabled, before the window is cleared (in the    *)
(* order of its addresses) and before the timer region the handler looks   *)
(* for is known.                                                           *)
RBoot ==
    /\ RemoteStep("boot", "wipe")
    /\ rIsr' = FALSE /\ rIer' = TRUE /\ rReg' = TRUE
    /\ UNCHANGED <<rLocals, rOsVars, rTtc, rHandler, hIsr, hIer, shmVars, hostVars>>

RWipe ==
    /\ \/ /\ RemoteStep("wipe", "wipeR2H")
          /\ h2r' = ClearedDesc
          /\ UNCHANGED <<r2h, payH, payR>>
       \/ /\ RemoteStep("wipeR2H", "wipePayload")
          /\ r2h' = ClearedDesc
          /\ UNCHANGED <<h2r, payH, payR>>
       \/ /\ RemoteStep("wipePayload", "ttc")
          /\ payH' = ClearedPay /\ payR' = ClearedPay
          /\ UNCHANGED <<h2r, r2h>>
    /\ UNCHANGED <<rLocals, rOsVars, rIrqVars, ipiVars, hostVars>>

RTtc ==
    /\ RemoteStep("ttc", "osinit")
    /\ rTtc' = TRUE
    /\ UNCHANGED <<rLocals, rOsVars, rReg, rHandler, ipiVars, shmVars, hostVars>>

(* amp_os_init: bare metal starts with the flag set, FreeRTOS records the  *)
(* task to resume.                                                         *)
ROsInit ==
    /\ RemoteStep("osinit", "suspend")
    /\ irq_pending' = (Os = "generic")
    /\ rTask' = TRUE
    /\ UNCHANGED <<rLocals, suspended, rIrqVars, ipiVars, shmVars, hostVars>>

(* A device does not open or the timer has no region (no cleanup), or lbuf *)
(* is not allocated, after amp_os_init.                                    *)
RBootFails ==
    /\ Faults
    /\ \/ /\ RemoteStep("boot", "failed") \/ RemoteStep("ttc", "failed")
          /\ UNCHANGED <<irq_pending, rTask>>
       \/ /\ RemoteStep("osinit", "cleanup_fail")
          /\ irq_pending' = (Os = "generic")
          /\ rTask' = TRUE
    /\ UNCHANGED <<rLocals, suspended, rIrqVars, ipiVars, shmVars, hostVars>>

(* system_suspend, bare metal: while (test_and_set(irq_pending)) wfi.  The *)
(* wfi is a step of its own: interrupts stay enabled between the two.      *)
RSuspendGeneric ==
    /\ Os = "generic"
    /\ \/ RemoteStep("suspend", "readAvail") /\ ~irq_pending
       \/ RemoteStep("suspend", "wfi") /\ irq_pending
    /\ irq_pending' = TRUE
    /\ UNCHANGED <<rLocals, suspended, rTask, rIrqVars, ipiVars, shmVars, hostVars>>

(* wfi falls through if the IPI is pending and sleeps otherwise.           *)
RWfi ==
    /\ \/ RemoteStep("wfi", "suspend") /\ rIsr /\ rIer
       \/ RemoteStep("wfi", "asleep") /\ ~(rIsr /\ rIer)
    /\ UNCHANGED <<rLocals, rOsVars, rIrqVars, ipiVars, shmVars, hostVars>>

(* The architecture lets a wfi end without an interrupt, and a debugger    *)
(* ends one; nothing in the demo makes it happen.                          *)
WfiEnds ==
    /\ RemoteStep("asleep", "suspend")
    /\ UNCHANGED <<rLocals, rOsVars, rIrqVars, ipiVars, shmVars, hostVars>>

(* system_suspend, FreeRTOS: vTaskSuspend(NULL), which returns when the    *)
(* task has been resumed.                                                  *)
RSuspendFreertos ==
    /\ Os = "freertos"
    /\ \/ RemoteStep("suspend", "suspended") /\ suspended' = TRUE
       \/ RemoteStep("suspended", "readAvail") /\ ~suspended /\ UNCHANGED suspended
    /\ UNCHANGED <<rLocals, irq_pending, rTask, rIrqVars, ipiVars, shmVars, hostVars>>

RReadAvail ==
    /\ RemoteStep("readAvail", "receive")
    /\ rRxAvail' = h2r.avail
    /\ UNCHANGED <<rCount, rRxAddr, rTxAddr, rTxData, lbuf, rOsVars,
                   rIrqVars, ipiVars, shmVars, hostVars>>

(* Mutation: the shutdown message is echoed like any other.                *)
ReceiveNoShutdown ==
    /\ RemoteStep("receive", "echo")
    /\ rCount # rRxAvail
    /\ h2r.addr[rRxAddr] # BAD
    /\ lbuf' = payH[h2r.addr[rRxAddr]]
    /\ rRxAddr' = rRxAddr + 1
    /\ rCount' = rCount + 1
    /\ h2r' = [h2r EXCEPT !.used = rCount + 1]
    /\ UNCHANGED <<rRxAvail, rTxAddr, rTxData, rOsVars, rIrqVars, r2h,
                   payH, payR, ipiVars, hostVars>>

(* One message is fetched into lbuf and counted as used; the shutdown      *)
(* message ends the loop, any other is echoed.                             *)
RReceive ==
    /\ rHandler = "idle" /\ rpc = "receive"
    /\ rCount # rRxAvail
    /\ h2r.addr[rRxAddr] # BAD
    /\ lbuf' = payH[h2r.addr[rRxAddr]]
    /\ rRxAddr' = rRxAddr + 1
    /\ rCount' = rCount + 1
    /\ h2r' = [h2r EXCEPT !.used = rCount + 1]
    /\ rpc' = IF lbuf'.body = "shutdown" THEN "cleanup_ok" ELSE "echo"
    /\ UNCHANGED <<rRxAvail, rTxAddr, rTxData, rOsVars, rIrqVars, r2h,
                   payH, payR, ipiVars, hostVars>>

(* A cleared address entry does not translate: the demo gives up.          *)
RReceiveBad ==
    /\ RemoteStep("receive", "cleanup_fail")
    /\ rCount # rRxAvail
    /\ h2r.addr[rRxAddr] = BAD
    /\ UNCHANGED <<rLocals, rOsVars, rIrqVars, ipiVars, shmVars, hostVars>>

RCaughtUp ==
    /\ RemoteStep("receive", "suspend")
    /\ rCount = rRxAvail
    /\ UNCHANGED <<rLocals, rOsVars, rIrqVars, ipiVars, shmVars, hostVars>>

(* The echo: message, address, number of available buffers, kick.          *)
REchoPayload ==
    /\ RemoteStep("echo", "echoAddr")
    /\ payR' = [payR EXCEPT ![rTxData] = lbuf]
    /\ UNCHANGED <<rLocals, rOsVars, rIrqVars, h2r, r2h, payH, ipiVars, hostVars>>

REchoAddr ==
    /\ RemoteStep("echoAddr", "echoAvail")
    /\ r2h' = [r2h EXCEPT !.addr[rTxAddr] = rTxData]
    /\ rTxData' = rTxData + 1
    /\ rTxAddr' = rTxAddr + 1
    /\ UNCHANGED <<rCount, rRxAvail, rRxAddr, lbuf, rOsVars, rIrqVars, h2r,
                   payH, payR, ipiVars, hostVars>>

REchoAvail ==
    /\ RemoteStep("echoAvail", "echoKick")
    /\ r2h' = [r2h EXCEPT !.avail = rCount]
    /\ UNCHANGED <<rLocals, rOsVars, rIrqVars, h2r, payH, payR, ipiVars, hostVars>>

(* Mutation: the host is not notified.                                     *)
EchoNoKick ==
    /\ RemoteStep("echoKick", "receive")
    /\ UNCHANGED <<rLocals, rOsVars, rIrqVars, ipiVars, shmVars, hostVars>>

REchoKick ==
    /\ RemoteStep("echoKick", "receive")
    /\ hIsr' = TRUE
    /\ UNCHANGED <<rLocals, rOsVars, rIrqVars, hIer, rIsr, rIer, shmVars, hostVars>>

(* platform_cleanup: the handler is unregistered; the IPI stays enabled.   *)
RCleanup ==
    /\ \/ RemoteStep("cleanup_ok", "done")
       \/ RemoteStep("cleanup_fail", "failed")
    /\ rReg' = FALSE
    /\ UNCHANGED <<rLocals, rOsVars, rTtc, rHandler, ipiVars, shmVars, hostVars>>

(* ipi_irq_handler: with no timer region yet it leaves the IPI pending     *)
(* (no step here); otherwise it acknowledges and resumes the task.  Taking *)
(* the interrupt ends a wfi.                                               *)
RIsrAck ==
    /\ rHandler = "idle" /\ rIsr /\ rIer /\ rReg /\ rTtc
    /\ rIsr' = FALSE
    /\ rHandler' = "acked"
    /\ rpc' = IF rpc = "asleep" THEN "suspend" ELSE rpc
    /\ UNCHANGED <<rLocals, rOsVars, rTtc, rReg, hIsr, hIer, rIer, shmVars, hostVars>>

(* system_resume: bare metal clears the flag; FreeRTOS resumes the task if *)
(* it is suspended and does nothing if it is not, after asserting that the *)
(* task is known (metal_assert halts the core).                            *)
RIsrResume ==
    /\ rHandler = "acked"
    /\ rHandler' = "idle"
    /\ irq_pending' = FALSE
    /\ suspended' = FALSE
    /\ rpc' = IF Os = "freertos" /\ ~rTask THEN "asserted" ELSE rpc
    /\ UNCHANGED <<rLocals, rTask, rTtc, rReg, ipiVars, shmVars, hostVars>>
-----------------------------------------------------------------------------
HostMain ==
    \/ HInit \/ HInitFails \/ HClear
    \/ HWritePayload \/ HWriteAddr \/ HWriteAvail \/ HKick
    \/ HWaitNotified \/ HReadAvail \/ HReceive \/ HReceiveBad \/ HCaughtUp
    \/ HSdPayload \/ HSdAddr \/ HSdAvail \/ HSdKick \/ HCleanup

HostIrq == irq_isr

RemoteTask ==
    \/ RBoot \/ RWipe \/ RTtc \/ ROsInit \/ RBootFails
    \/ RSuspendGeneric \/ RWfi \/ RSuspendFreertos
    \/ RReadAvail \/ RReceive \/ RReceiveBad \/ RCaughtUp
    \/ REchoPayload \/ REchoAddr \/ REchoAvail \/ REchoKick
    \/ RCleanup

RemoteIrq == RIsrAck \/ RIsrResume

(* Both programs have ended: the only state in which nothing is left to do *)
Ended ==
    /\ hpc \in {"done", "failed"}
    /\ rpc \in {"done", "failed"}
    /\ UNCHANGED vars

Next == HostMain \/ HostIrq \/ RemoteTask \/ RemoteIrq \/ WfiEnds \/ Ended

Safety == Init /\ [][Next]_vars

(* Both threads of the host are scheduled by Linux and the remote's task   *)
(* is the only one of its core; a pending enabled interrupt is taken.  No  *)
(* wfi has to end without one: the demo enables only the IPI.              *)
Fairness ==
    /\ WF_vars(HostMain) /\ WF_vars(HostIrq)
    /\ WF_vars(RemoteTask) /\ WF_vars(RemoteIrq)

Spec == Safety /\ Fairness
-----------------------------------------------------------------------------
Desc == [avail : 0 .. PKGS_TOTAL + 1, used : 0 .. PKGS_TOTAL + 1,
         addr : [SlotIdx -> Cell \cup {BAD}]]

HostPc == {"init", "clearPayload", "clearH2R", "clearR2H", "write", "addr", "avail",
           "kick", "wait", "readAvail", "receive", "sdWrite", "sdAddr", "sdAvail",
           "sdKick", "cleanup_ok", "cleanup_fail", "done", "failed"}

RemotePc == {"boot", "wipe", "wipeR2H", "wipePayload", "ttc", "osinit",
             "suspend", "wfi", "asleep", "suspended",
             "readAvail", "receive", "echo", "echoAddr", "echoAvail", "echoKick",
             "cleanup_ok", "cleanup_fail", "done", "failed", "asserted"}

WindowTypeOK ==
    /\ h2r \in Desc /\ r2h \in Desc
    /\ payH \in [Cell -> Msg] /\ payR \in [Cell -> Msg]

HostTypeOK ==
    /\ hpc \in HostPc /\ hI \in Cell /\ hTxAddr \in SlotIdx
    /\ hTxData \in Cell /\ hRxAddr \in Cell /\ hRxAvail \in 0 .. PKGS_TOTAL + 1
    /\ hHandler \in {"idle", "acked"}

RemoteTypeOK ==
    /\ rpc \in RemotePc /\ rCount \in 0 .. PKGS_TOTAL + 1
    /\ rRxAvail \in 0 .. PKGS_TOTAL + 1 /\ rRxAddr \in 0 .. PKGS_TOTAL + 1
    /\ rTxAddr \in Cell /\ rTxData \in Cell /\ lbuf \in Msg
    /\ rHandler \in {"idle", "acked"}

FlagTypeOK ==
    /\ hIsr \in BOOLEAN /\ hIer \in BOOLEAN /\ rIsr \in BOOLEAN /\ rIer \in BOOLEAN
    /\ remote_nkicked \in BOOLEAN /\ irq_pending \in BOOLEAN
    /\ suspended \in BOOLEAN /\ rTask \in BOOLEAN
    /\ rTtc \in BOOLEAN /\ rReg \in BOOLEAN

(* Types of the shared window and of the state of both programs; the       *)
(* offsets and counters stay inside the arrays they index.                 *)
TypeOK == WindowTypeOK /\ HostTypeOK /\ RemoteTypeOK /\ FlagTypeOK

(* What the host puts into cell k of its half of the payload area.         *)
Sent(k) == IF k = PKGS_TOTAL THEN Shutdown ELSE Ping(k)

(* The avail counters are published last: every entry a counter covers     *)
(* names a completely written message, and the echo of message k is        *)
(* message k (the store order of both send paths).                         *)
PublishedComplete ==
    /\ \A k \in Cell : k < h2r.avail => h2r.addr[k] = k /\ payH[k] = Sent(k)
    /\ \A k \in Cell : k < r2h.avail => r2h.addr[k] = k /\ payR[k] = Ping(k)

(* Started in the documented order and without faults, no check of either  *)
(* program ever fails: no bad address, index, length or content on the     *)
(* host, no bad address on the remote, no assertion in its handler.        *)
NoSpuriousFailure ==
    /\ hpc \notin {"cleanup_fail", "failed"}
    /\ rpc \notin {"cleanup_fail", "failed", "asserted"}

(* The remote leaves its loop only after the host has verified every       *)
(* package: shutdown never overtakes an echo.                              *)
ShutdownAfterEchoes ==
    rpc \in {"cleanup_ok", "done"} =>
        /\ hI = PKGS_TOTAL
        /\ r2h.used = PKGS_TOTAL
        /\ rCount = PKGS_TOTAL + 1

(* Whatever the start order and the faults, a host that reports success    *)
(* has every package echoed in the window and the remote has taken each of *)
(* them exactly once (the host's exit status can be trusted).              *)
HostSuccessSound ==
    hpc \in {"sdWrite", "sdAddr", "sdAvail", "sdKick", "cleanup_ok", "done"} =>
        /\ \A k \in 0 .. PKGS_TOTAL - 1 : payR[k] = Ping(k)
        /\ rCount >= PKGS_TOTAL
        /\ r2h.avail = PKGS_TOTAL

(* No kick is lost on its way to a flag: if the remote is about to wait,   *)
(* or works from a stale copy of the counter, while messages it has not    *)
(* taken are published, then a notification is still on its way: the kick  *)
(* itself, the IPI bit, the handler or the cleared flag.  The same for the *)
(* host.  Bare metal only: FreeRTOS has no flag that remembers.            *)
NoKickLost ==
    /\ \/ rpc \in {"suspend", "wfi", "asleep"} /\ rCount # h2r.avail
       \/ rpc \in {"receive", "echo", "echoAddr", "echoAvail", "echoKick"}
          /\ rRxAvail # h2r.avail
       => hpc \in {"kick", "sdKick"} \/ rIsr \/ rHandler = "acked" \/ ~irq_pending
    /\ \/ hpc = "wait" /\ hI # r2h.avail
       \/ hpc = "receive" /\ hRxAvail # r2h.avail
       => rpc = "echoKick" \/ hIsr \/ hHandler = "acked" \/ ~remote_nkicked

(* The demo ends: the host verifies every package and the remote exits     *)
(* when it finds the shutdown message.  (What a port should give: neither  *)
(* port of the remote does.)                                               *)
EventuallyDone == <>(hpc = "done" /\ rpc = "done")

(* The IPI handler has run between the test-and-set and the wfi: the       *)
(* remote sleeps over a wake-up it has already been given.                 *)
Oversleeps == rpc = "asleep" /\ ~irq_pending /\ ~rIsr

(* On bare metal that is the only way in which the demo does not end: no   *)
(* other order of kicks, handlers, tests and stale copies of the counters  *)
(* leaves one side waiting for the other.                                  *)
DoneOrOverslept == EventuallyDone \/ <>[]Oversleeps
=============================================================================
